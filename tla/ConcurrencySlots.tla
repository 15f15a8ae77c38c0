---------------------------- MODULE ConcurrencySlots ----------------------------
(***************************************************************************)
(* The gateway's limits on concurrent requests: sorted sets of Redis whose *)
(* members are the requests that hold a slot of a user or of an account,   *)
(* counters of the requests that wait for one, and the per-account lock    *)
(* that lets one user message at a time reach the upstream.  A request     *)
(* takes them in the order of GatewayHandler.Messages; a process that      *)
(* starts removes what it takes for the leftovers of an earlier one.       *)
(*                                                                         *)
(* The requests are those of one user for one account.  The score of a     *)
(* member is abstracted to whether it has run out; a member that has is    *)
(* removed at once, since every script that counts removes it first.       *)
(***************************************************************************)
EXTENDS Naturals, FiniteSets

CONSTANTS
  Requests,
  Instances,
  Home(_),      \* the instance that serves a request
  Limit(_),     \* maxConcurrency of the user and of the account
  MaxWait(_),   \* capacity of their wait queues
  None,
  MaxSwitches(_), \* bound of a request's failover loop (MaxAccountSwitches)
  MaxOrphans,   \* bound: members of one request that nobody will release
  MaxFaults,    \* bound: commands that fail, slots and locks held beyond their time to live
  MaxGone,      \* bound: clients that disconnect
  MaxCrashes    \* bound: instances that stop while they serve

Levels == {"user", "account"}

ASSUME SlotConstants ==
  /\ IsFiniteSet(Requests) /\ None \notin Requests \cup (Requests \X (0 .. MaxOrphans))
  /\ \A r \in Requests : Home(r) \in Instances /\ MaxSwitches(r) \in Nat
  /\ \A k \in Levels : Limit(k) \in Nat \ {0} /\ MaxWait(k) \in Nat
  /\ {MaxOrphans, MaxFaults, MaxGone, MaxCrashes} \subseteq Nat

VARIABLES
  slots,     \* concurrency:user:{id} and concurrency:account:{id}
  waits,     \* concurrency:wait:{id} and wait:account:{id}
  lock,      \* umq:{id}:lock, the request that has set it
  phase,     \* of each instance: down, a step of its start, or up
  pc, level, \* what a request does, and for which of the two
  hold,      \* the member whose release function the request has
  counted,   \* waitCounted, accountWaitCounted
  queued,    \* the request has the release function of the lock
  gone,      \* the request's context is cancelled
  switches,  \* SwitchCount of its failover loop
  outlived,  \* history: whose member or lock has run out, or was removed by a start
  phantoms,  \* history: increments that no decrement will undo
  faults, crashes

redis   == <<slots, waits, lock>>
request == <<pc, level, hold, counted, queued, gone, switches>>
history == <<outlived, phantoms>>
bounds  == <<faults, crashes>>
vars    == <<redis, phase, request, history, bounds>>

Members == Requests \X (0 .. MaxOrphans)

\* After the failed steps of CleanupStaleProcessSlots the process serves anyway.
Phases == {"down", "accountSlots", "userSlots", "accountWaits", "userWaits", "up"}
Labels == {"count", "try", "uncount", "select", "queue", "forward", "unslot", "leave", "done"}

\* Where a request goes on with the slot of a level.
AfterSlot == [user |-> "select", account |-> "queue"]

\* With the user's slot; with the account's, too.
Serving    == {"select", "queue", "forward", "unslot"}
Forwarding == {"queue", "forward"}

TypeOK ==
  /\ slots \in [Levels -> SUBSET Members] /\ waits \in [Levels -> Nat]
  /\ lock \in Requests \cup {None} /\ phase \in [Instances -> Phases]
  /\ pc \in [Requests -> Labels] /\ level \in [Requests -> Levels]
  /\ hold \in [Levels -> [Requests -> Members \cup {None}]]
  /\ counted \in [Requests -> BOOLEAN] /\ queued \in [Requests -> BOOLEAN]
  /\ gone \subseteq Requests /\ switches \in [Requests -> Nat]
  /\ outlived \subseteq Requests \X (Levels \cup {"lock"}) /\ phantoms \in [Levels -> Nat]
  /\ faults \in 0 .. MaxFaults /\ crashes \in 0 .. MaxCrashes

Init ==
  /\ slots = [k \in Levels |-> {}] /\ waits = [k \in Levels |-> 0] /\ lock = None
  /\ phase = [i \in Instances |-> "down"]
  /\ pc = [r \in Requests |-> "count"] /\ level = [r \in Requests |-> "user"]
  /\ hold = [k \in Levels |-> [r \in Requests |-> None]]
  /\ counted = [r \in Requests |-> FALSE] /\ queued = [r \in Requests |-> FALSE]
  /\ gone = {} /\ switches = [r \in Requests |-> 0]
  /\ outlived = {} /\ phantoms = [k \in Levels |-> 0] /\ faults = 0 /\ crashes = 0

-----------------------------------------------------------------------------
(* Faults and control *)

Goto(r, label) == pc' = [pc EXCEPT ![r] = label]

\* A command fails: it was lost, or applied and only its answer was lost.
Fails(failed) ==
  IF failed THEN faults < MaxFaults /\ faults' = faults + 1 ELSE faults' = faults

\* The member a request uses, if it has one: the release function runs once.
Held(k, r) == {hold[k][r]} \ {None}

\* generateRequestID: a member that is not in the set.
Fresh(k, r) == {m \in Members : m[1] = r /\ m \notin slots[k]}
Draw(k, r)  == CHOOSE m \in Fresh(k, r) : TRUE

\* A request whose context is cancelled sends no command of its own.
Connected(r) == r \notin gone

-----------------------------------------------------------------------------
(* The scripts *)

\* count <= maxConcurrency
AcquireScript_Inclusive(k, r) ==
  /\ Cardinality(slots[k]) <= Limit(k)
  /\ slots' = [slots EXCEPT ![k] = @ \cup {Draw(k, r)}]

\* acquireScript
AcquireScript(k, r) ==
  /\ Cardinality(slots[k]) < Limit(k)
  /\ slots' = [slots EXCEPT ![k] = @ \cup {Draw(k, r)}]

\* incrementWaitScript, incrementAccountWaitScript
IncrementScript(k) == waits' = [waits EXCEPT ![k] = @ + 1]

\* Without the test current > 0.
DecrementScript_Unfloored(k) == waits[k] - 1

\* decrementWaitScript
DecrementScript(k) == IF waits[k] = 0 THEN 0 ELSE waits[k] - 1

\* DEL without the comparison
ReleaseLockScript_Anyone(r) == None

\* releaseLockScript: only the request that has set it.
ReleaseLockScript(r) == IF lock = r THEN None ELSE lock

-----------------------------------------------------------------------------
(* GatewayHandler.Messages *)

\* IncrementWaitCount: a failure counts as success (fail open), so the decrement
\* happens in any case.
IncrementWaitCount(r) ==
  LET k == level[r] IN
  /\ pc[r] = "count" /\ phase[Home(r)] = "up"
  /\ \E applied, failed \in BOOLEAN :
       /\ IF Connected(r) THEN Fails(failed) ELSE failed /\ ~applied /\ UNCHANGED faults
       /\ applied \/ failed
       /\ IF applied /\ waits[k] < MaxWait(k) THEN IncrementScript(k) ELSE UNCHANGED waits
       /\ IF ~failed /\ waits[k] >= MaxWait(k)
          THEN Goto(r, "leave") /\ UNCHANGED counted
          ELSE Goto(r, "try") /\ counted' = [counted EXCEPT ![r] = TRUE]
  /\ UNCHANGED <<slots, lock, phase, level, hold, queued, gone, switches, history, crashes>>

\* AcquireUserSlot, AcquireAccountSlot with a request id of its own.
AcquireSlot(k, r, next, otherwise) ==
  /\ Connected(r) /\ Fresh(k, r) # {}
  /\ \/ /\ AcquireScript(k, r)
        /\ hold' = [hold EXCEPT ![k][r] = Draw(k, r)]
        /\ Goto(r, next) /\ UNCHANGED faults
     \/ /\ Fails(TRUE)
        /\ AcquireScript(k, r) \/ UNCHANGED slots
        /\ Goto(r, otherwise) /\ UNCHANGED hold

\* AcquireUserSlotWithWait, AcquireAccountSlotWithWaitTimeout: one attempt of the
\* loop.  An attempt that finds the limit reached changes nothing.
Try(r) ==
  /\ pc[r] = "try"
  /\ AcquireSlot(level[r], r, "uncount", "uncount")
  /\ UNCHANGED <<waits, lock, phase, level, counted, queued, gone, switches, history, crashes>>

\* No deferred decrement: only a request that has its slot leaves the queue.
DecrementWaitCount_IfAcquired(r) ==
  LET k == level[r] IN
  /\ pc[r] \in {"try", "uncount"}
  /\ waits' = IF hold[k][r] = None THEN waits ELSE [waits EXCEPT ![k] = DecrementScript(k)]
  /\ counted' = [counted EXCEPT ![r] = FALSE]
  /\ Goto(r, IF hold[k][r] = None THEN "leave" ELSE AfterSlot[k])
  /\ UNCHANGED <<slots, lock, phase, level, hold, queued, gone, switches, history, bounds>>

\* DecrementWaitCount, on a context of its own, once the slot is acquired or the
\* wait has ended without one: an error, the timeout, a cancelled context.
DecrementWaitCount(r) ==
  LET k == level[r] IN
  /\ pc[r] \in {"try", "uncount"}
  /\ \E applied, failed \in BOOLEAN :
       /\ Fails(failed) /\ (applied \/ failed)
       /\ waits' = IF applied THEN [waits EXCEPT ![k] = DecrementScript(k)] ELSE waits
       /\ phantoms' = IF applied THEN phantoms ELSE [phantoms EXCEPT ![k] = @ + 1]
  /\ counted' = [counted EXCEPT ![r] = FALSE]
  /\ Goto(r, IF hold[k][r] = None THEN "leave" ELSE AfterSlot[k])
  /\ UNCHANGED <<slots, lock, phase, level, hold, queued, gone, switches, outlived, crashes>>

\* The second check of the balance or the selection may end the request.
\* SelectAccountWithLoadAwareness tries the account's slot at once; if the limit is
\* reached, or the attempt fails, it returns a plan to wait for it.
SelectAccount(r) ==
  /\ pc[r] = "select"
  /\ level' = [level EXCEPT ![r] = "account"]
  /\ \/ AcquireSlot("account", r, "queue", "count")
     \/ /\ ~Connected(r) \/ Cardinality(slots["account"]) >= Limit("account")
        /\ Goto(r, "count") /\ UNCHANGED <<slots, hold, faults>>
     \/ Goto(r, "leave") /\ UNCHANGED <<slots, hold, faults>>
  /\ UNCHANGED <<waits, lock, phase, counted, queued, gone, switches, history, crashes>>

\* AcquireWithWait of the message queue: a failure, a timeout and a cancelled
\* context all let the request pass without the lock.
AcquireLock(r) ==
  /\ pc[r] = "queue"
  /\ \/ /\ Connected(r) /\ lock = None /\ lock' = r
        /\ queued' = [queued EXCEPT ![r] = TRUE] /\ UNCHANGED faults
     \/ /\ Connected(r) /\ Fails(TRUE)
        /\ lock' \in {lock} \cup (IF lock = None THEN {r} ELSE {})
        /\ UNCHANGED queued
     \/ /\ lock # None \/ ~Connected(r)
        /\ UNCHANGED <<lock, queued, faults>>
  /\ Goto(r, "forward")
  /\ UNCHANGED <<slots, waits, phase, level, hold, counted, gone, switches, history, crashes>>

\* The release function of the lock, whose failure is only logged.
ReleaseLock(r) ==
  /\ queued' = [queued EXCEPT ![r] = FALSE]
  /\ outlived' = outlived \ {<<r, "lock">>}
  /\ IF queued[r]
     THEN \E failed \in BOOLEAN :
            Fails(failed) /\ lock' = IF failed THEN lock ELSE ReleaseLockScript(r)
     ELSE UNCHANGED <<lock, faults>>

\* The release function of a slot: ZREM, whose failure is only logged.
ReleaseSlot(k, r) ==
  /\ hold' = [hold EXCEPT ![k][r] = None]
  /\ outlived' = outlived \ {<<r, k>>}
  /\ IF Held(k, r) # {}
     THEN \E failed \in BOOLEAN :
            /\ Fails(failed)
            /\ slots' = IF failed THEN slots ELSE [slots EXCEPT ![k] = @ \ Held(k, r)]
     ELSE UNCHANGED <<slots, faults>>

\* OnUpstreamAccepted, while the answer is still being streamed
UpstreamAccepted(r) ==
  /\ pc[r] = "forward" /\ queued[r]
  /\ ReleaseLock(r)
  /\ UNCHANGED <<slots, waits, phase, pc, level, hold, counted, gone, switches, phantoms, crashes>>

\* Forward returns, which for a stream may be after the client has left:
\* queueRelease().
Forward(r) ==
  /\ pc[r] = "forward"
  /\ ReleaseLock(r) /\ Goto(r, "unslot")
  /\ UNCHANGED <<slots, waits, phase, level, hold, counted, gone, switches, phantoms, crashes>>

\* accountReleaseFunc(); an upstream error may lead to another account, or to this
\* one again.
ReleaseAccountSlot(r) ==
  /\ pc[r] = "unslot"
  /\ ReleaseSlot("account", r)
  /\ \/ Goto(r, "leave") /\ UNCHANGED switches
     \/ /\ switches[r] < MaxSwitches(r)
        /\ switches' = [switches EXCEPT ![r] = @ + 1]
        /\ Goto(r, "select")
  /\ UNCHANGED <<waits, lock, phase, level, counted, queued, gone, phantoms, crashes>>

\* The deferred userReleaseFunc()
Leave(r) ==
  /\ pc[r] = "leave"
  /\ ReleaseSlot("user", r) /\ Goto(r, "done")
  /\ UNCHANGED <<waits, lock, phase, level, counted, queued, gone, switches, phantoms, crashes>>

-----------------------------------------------------------------------------
(* The request's context *)

\* The client disconnects.
Disconnect(r) ==
  /\ pc[r] # "done" /\ Connected(r) /\ Cardinality(gone) < MaxGone
  /\ gone' = gone \cup {r}
  /\ UNCHANGED <<redis, phase, pc, level, hold, counted, queued, switches, history, bounds>>

\* wrapReleaseOnDone: context.AfterFunc, in a goroutine of its own, releases what the
\* request has registered.
ReleaseSlotOnDone(k, r) ==
  /\ ~Connected(r) /\ pc[r] \in Serving /\ Held(k, r) # {}
  /\ ReleaseSlot(k, r)
  /\ UNCHANGED <<waits, lock, phase, pc, level, counted, queued, gone, switches, phantoms, crashes>>

ReleaseLockOnDone(r) ==
  /\ ~Connected(r) /\ pc[r] = "forward" /\ queued[r]
  /\ ReleaseLock(r)
  /\ UNCHANGED <<slots, waits, phase, pc, level, hold, counted, gone, switches, phantoms, crashes>>

-----------------------------------------------------------------------------
(* Time to live *)

InUse(k, m) == hold[k][m[1]] = m

\* The score of a member is not refreshed while its request runs.
SlotExpires(k, m) ==
  /\ m \in slots[k]
  /\ Fails(InUse(k, m))
  /\ slots' = [slots EXCEPT ![k] = @ \ {m}]
  /\ outlived' = IF InUse(k, m) THEN outlived \cup {<<m[1], k>>} ELSE outlived
  /\ UNCHANGED <<waits, lock, phase, request, phantoms, crashes>>

\* No EXPIRE on the counters.
WaitsExpire_Never(k) == FALSE /\ UNCHANGED vars

\* EXPIRE at each increment: no request waits as long.
WaitsExpire(k) ==
  /\ waits[k] > 0 /\ \A r \in Requests : counted[r] => level[r] # k
  /\ waits' = [waits EXCEPT ![k] = 0] /\ phantoms' = [phantoms EXCEPT ![k] = 0]
  /\ UNCHANGED <<slots, lock, phase, request, outlived, bounds>>

LockExpires ==
  /\ lock # None
  /\ Fails(queued[lock])
  /\ outlived' = IF queued[lock] THEN outlived \cup {<<lock, "lock">>} ELSE outlived
  /\ lock' = None
  /\ UNCHANGED <<slots, waits, phase, request, phantoms, crashes>>

-----------------------------------------------------------------------------
(* Instances *)

Start(i) ==
  /\ phase[i] = "down"
  /\ phase' = [phase EXCEPT ![i] = "accountSlots"]
  /\ UNCHANGED <<redis, request, history, bounds>>

\* CleanupStaleProcessSlots: the members of all other prefixes, then all counters.
\* An error ends it, and the instance serves.
Clean(i) ==
  LET slotsOf   == CASE phase[i] = "accountSlots" -> {"account"}
                     [] phase[i] = "userSlots"    -> {"user"} [] OTHER -> {}
      countersOf == CASE phase[i] = "accountWaits" -> {"account"}
                      [] phase[i] = "userWaits"    -> {"user"} [] OTHER -> {}
      nextPhase == CASE phase[i] = "accountSlots" -> "userSlots"
                     [] phase[i] = "userSlots"    -> "accountWaits"
                     [] phase[i] = "accountWaits" -> "userWaits" [] OTHER -> "up"
      lost(k)   == {<<m[1], k>> : m \in {n \in slots[k] : InUse(k, n)}}
  IN
  /\ phase[i] \notin {"down", "up"}
  /\ \E failed \in BOOLEAN :
       /\ Fails(failed)
       /\ phase' = [phase EXCEPT ![i] = IF failed THEN "up" ELSE nextPhase]
       /\ IF failed THEN UNCHANGED <<slots, waits, history>>
          ELSE /\ slots' = [k \in Levels |-> IF k \in slotsOf THEN {} ELSE slots[k]]
               /\ waits' = [k \in Levels |-> IF k \in countersOf THEN 0 ELSE waits[k]]
               /\ phantoms' = [k \in Levels |-> IF k \in countersOf THEN 0 ELSE phantoms[k]]
               /\ outlived' = outlived \cup UNION {lost(k) : k \in slotsOf}
  /\ UNCHANGED <<lock, request, crashes>>

\* Members, counters and the lock stay; its clients are disconnected.
Crash(i) ==
  LET mine == {r \in Requests : Home(r) = i /\ pc[r] # "done"} IN
  /\ phase[i] # "down" /\ crashes < MaxCrashes
  /\ crashes' = crashes + 1
  /\ phase' = [phase EXCEPT ![i] = "down"]
  /\ pc' = [r \in Requests |-> IF r \in mine THEN "done" ELSE pc[r]]
  /\ hold' = [k \in Levels |-> [r \in Requests |-> IF r \in mine THEN None ELSE hold[k][r]]]
  /\ counted' = [r \in Requests |-> counted[r] /\ r \notin mine]
  /\ queued' = [r \in Requests |-> queued[r] /\ r \notin mine]
  /\ phantoms' = [k \in Levels |-> phantoms[k]
                     + Cardinality({r \in mine : counted[r] /\ level[r] = k})]
  /\ UNCHANGED <<redis, level, gone, switches, outlived, faults>>

-----------------------------------------------------------------------------

RequestStep(r) ==
  \/ IncrementWaitCount(r) \/ Try(r) \/ DecrementWaitCount(r) \/ SelectAccount(r)
  \/ AcquireLock(r) \/ Forward(r) \/ ReleaseAccountSlot(r) \/ Leave(r)

Next ==
  \/ \E r \in Requests :
       \/ RequestStep(r) \/ UpstreamAccepted(r)
       \/ Disconnect(r) \/ ReleaseLockOnDone(r)
  \/ \E k \in Levels :
       \/ \E r \in Requests : ReleaseSlotOnDone(k, r)
       \/ \E m \in Members : SlotExpires(k, m)
       \/ WaitsExpire(k)
  \/ LockExpires
  \/ \E i \in Instances : Start(i) \/ Clean(i) \/ Crash(i)

Spec == Init /\ [][Next]_vars

\* Commands return, waits and forwards have timeouts, and Redis expires what nobody uses.
Fairness ==
  /\ \A r \in Requests : WF_vars(RequestStep(r))
  /\ \A k \in Levels, m \in Members : WF_vars(SlotExpires(k, m) /\ ~InUse(k, m))
  /\ \A k \in Levels : WF_vars(WaitsExpire(k))
  /\ WF_vars(LockExpires /\ ~queued[lock])

FairSpec == Spec /\ Fairness

-----------------------------------------------------------------------------
(* Properties *)

\* acquireScript and the release functions: the requests that run at once, other than
\* those whose slot has run out, was removed or was given back when the client left,
\* never exceed the limit.
Running(k) ==
  {r \in Requests : pc[r] \in (IF k = "user" THEN Serving ELSE Forwarding)
                    /\ r \notin gone /\ <<r, k>> \notin outlived}

LimitKept == \A k \in Levels : Cardinality(Running(k)) <= Limit(k)

\* IncrementWaitCount: a counter is never above the number of requests that wait plus
\* the decrements that were lost, so nobody is refused on account of a request that
\* was answered.
NoPhantomWaiter ==
  \A k \in Levels :
    waits[k] <= phantoms[k] + Cardinality({r \in Requests : counted[r] /\ level[r] = k})

\* acquireLockScript, releaseLockScript: at most one request has the lock, a late
\* release of a lock that has run out included.
OneSender ==
  \A r, s \in Requests :
    queued[r] /\ queued[s] => r = s \/ {<<r, "lock">>, <<s, "lock">>} \cap outlived # {}

\* Slots, counters and the lock that a lost release, a lost answer or a lost instance
\* leaves behind are free in the end.
EventuallyFree ==
  <>[](/\ lock = None
       /\ \A k \in Levels : slots[k] = {} /\ waits[k] = 0)

=============================================================================
