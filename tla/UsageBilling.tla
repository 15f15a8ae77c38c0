------------------------------ MODULE UsageBilling ------------------------------
(***************************************************************************)
(* How the use of one user's requests becomes a charge on the balance, and *)
(* how the copy of the balance in Redis, which admits the next request,    *)
(* follows it: the pool of usage records, the transaction that claims the  *)
(* request id and charges, the archiving of old claims, the queue of cache *)
(* writes, the loads that fill the cache, and the other writers of the     *)
(* user's row.                                                             *)
(*                                                                         *)
(* Every record costs 1.  A transaction's other effects (quota and rate    *)
(* counters, subscription usage) happen with the charge or not at all, and *)
(* are left out.                                                           *)
(***************************************************************************)
EXTENDS Integers, FiniteSets

CONSTANTS
  Records,     \* requests that have been served and are to be billed
  Keys,        \* request ids, of one API key
  Prints,      \* request fingerprints
  Instances,
  Home(_),     \* the instance that served a record's request
  None,
  QueueSize,   \* queue of the usage record pool
  WriteBuffer, \* cacheWriteBufferSize
  Opening,     \* the balance at the beginning
  Commands,    \* what the records carry: a request id and a fingerprint each
  MaxChanges,  \* bound: credits, refunds and updates of the user's row
  MaxLoads,    \* bound: loads of the balance by an instance
  MaxFaults    \* bound: statements and commands that fail, and crashes

ASSUME BillingConstants ==
  /\ IsFiniteSet(Records) /\ IsFiniteSet(Instances) /\ Records \cap Instances = {}
  /\ \A u \in Records : Home(u) \in Instances
  /\ Commands \subseteq [Records -> Keys \X Prints]
  /\ None \notin Int /\ None \notin Prints /\ Opening \in Int
  /\ {QueueSize, WriteBuffer, MaxChanges, MaxLoads, MaxFaults} \subseteq Nat

VARIABLES
  command,        \* of each record: RequestID and RequestFingerprint
  balance,        \* users.balance
  dedup, archive, \* fingerprints in usage_billing_dedup and its archive
  cache,          \* billing:balance:{id}
  pc,             \* what is being done for a record
  pool,           \* UsageRecordWorkerPool of an instance: open, stopping
  writer,         \* its queue of cache writes: open, flagged, closed, gone
  writes,         \* the writes in that queue
  load,           \* its load of the balance, merged by singleflight
  edit,           \* an update of the user's row: what was read, and its adjustment
  purges,         \* goroutines about to invalidate the cache
  charged,        \* history: the request ids charged for
  credited,       \* history: what has been credited, less what was taken back
  slips,          \* history: has something parted cache and balance, or spoilt the row
  adrift,         \* history: by how much the copy is above the balance since it was
                  \* written, for changes of the balance that invalidate nothing
  loads, changes, faults

tables  == <<balance, dedup, archive>>
process == <<pool, writer, writes, load>>
editing == <<edit, purges>>
history == <<charged, credited, slips, adrift>>
bounds  == <<loads, changes, faults>>
vars    == <<command, tables, cache, pc, process, editing, history, bounds>>

Labels == {"forwarded", "queued", "claim", "effects", "send", "deduct",
           "done", "lost"}

\* The transaction holds the key it has inserted; its caller will deduct the cache.
Deducting == {"send", "deduct"}
Running   == {"claim", "effects"} \cup Deducting

key(u)   == command[u][1]
print(u) == command[u][2]

Deduct(u)   == [kind |-> "deduct", by |-> u, balance |-> 0]
Set(i, n)   == [kind |-> "set", by |-> <<i, loads[i]>>, balance |-> n]
Idle        == [at |-> "idle", balance |-> 0]

TypeOK ==
  /\ command \in Commands
  /\ balance \in Int /\ cache \in Int \cup {None}
  /\ dedup \in [Keys -> Prints \cup {None}] /\ archive \in [Keys -> Prints \cup {None}]
  /\ pc \in [Records -> Labels]
  /\ pool \in [Instances -> {"open", "stopping"}]
  /\ writer \in [Instances -> {"open", "flagged", "closed", "gone"}]
  /\ \A i \in Instances :
       /\ Cardinality(writes[i]) <= WriteBuffer
       /\ \A w \in writes[i] : w.kind \in {"deduct", "set"} /\ w.balance \in Int
  /\ load \in [Instances -> [at : {"idle", "read", "send"}, balance : Int]]
  /\ edit \in [balance : Int, adds : 0 .. 1] \cup {None} /\ purges \in Nat
  /\ charged \subseteq Keys /\ credited \in -MaxChanges .. MaxChanges
  /\ slips \subseteq {"cache", "row"} /\ adrift \in Int
  /\ loads \in [Instances -> 0 .. MaxLoads] /\ changes \in 0 .. MaxChanges
  /\ faults \in 0 .. MaxFaults

Init ==
  /\ command \in Commands
  /\ balance = Opening /\ cache = None
  /\ dedup = [k \in Keys |-> None] /\ archive = [k \in Keys |-> None]
  /\ pc = [u \in Records |-> "forwarded"]
  /\ pool = [i \in Instances |-> "open"] /\ writer = [i \in Instances |-> "open"]
  /\ writes = [i \in Instances |-> {}] /\ load = [i \in Instances |-> Idle]
  /\ edit = None /\ purges = 0 /\ charged = {} /\ credited = 0 /\ slips = {} /\ adrift = 0
  /\ loads = [i \in Instances |-> 0] /\ changes = 0 /\ faults = 0

-----------------------------------------------------------------------------
(* Control *)

Goto(u, label) == pc' = [pc EXCEPT ![u] = label]

Works == UNCHANGED faults
Fails == faults < MaxFaults /\ faults' = faults + 1

Slip(new) == slips' = slips \cup new

\* Between a change of the balance and that of its copy; between the read of a
\* balance and the write of the copy.
ChargeUnderway ==
  \/ \E u \in Records : pc[u] \in Deducting
  \/ \E i \in Instances : \E w \in writes[i] : w.kind = "deduct"
LoadUnderway ==
  \/ \E i \in Instances : load[i].at = "send"
  \/ \E i \in Instances : \E w \in writes[i] : w.kind = "set"

-----------------------------------------------------------------------------
(* UsageRecordWorkerPool *)

Queued(i) == {u \in Records : Home(u) = i /\ pc[u] = "queued"}

\* Submit; a full queue is answered by overflowPolicy, at the rate it samples:
\* the request's own goroutine does the work, or the record is dropped.
Submit(u) ==
  /\ pc[u] = "forwarded"
  /\ \/ pool[Home(u)] = "open" /\ Cardinality(Queued(Home(u))) < QueueSize /\ Goto(u, "queued")
     \/ pool[Home(u)] = "open" /\ Cardinality(Queued(Home(u))) >= QueueSize
        /\ (Goto(u, "claim") \/ Goto(u, "lost"))
     \/ pool[Home(u)] # "open" /\ Goto(u, "lost")
  /\ UNCHANGED <<command, tables, cache, process, editing, history, bounds>>

\* A worker takes it only while the pool is not being stopped.
Take_Open(u) ==
  /\ pc[u] = "queued" /\ pool[Home(u)] = "open" /\ Goto(u, "claim")
  /\ UNCHANGED <<command, tables, cache, process, editing, history, bounds>>

\* A worker takes it, also while StopAndWait drains the queue.
Take(u) ==
  /\ pc[u] = "queued" /\ Goto(u, "claim")
  /\ UNCHANGED <<command, tables, cache, process, editing, history, bounds>>

-----------------------------------------------------------------------------
(* usageBillingRepository.Apply *)

\* A statement fails, or the task's time is up: the transaction is rolled back.
Abort(u) == Fails /\ Goto(u, "lost")

Free(k) == \A v \in Records : ~(pc[v] = "effects" /\ key(v) = k)

\* The archive is not asked.
Known_Hot(k) == dedup[k]

\* The claim there is on a key, in usage_billing_dedup or in its archive.  They are
\* asked one after the other; a claim that moves in between makes the transaction
\* fail instead of compare, without a charge either way.
Known(k) == IF dedup[k] # None THEN dedup[k] ELSE archive[k]

\* claimUsageBillingKey: INSERT ... ON CONFLICT DO NOTHING, which waits for another
\* transaction's claim; an old claim is compared, and ends the work either way.
Claim(u) ==
  /\ pc[u] = "claim"
  /\ \/ Works /\ Free(key(u)) /\ Known(key(u)) = None /\ Goto(u, "effects")
     \/ Works /\ Known(key(u)) = print(u) /\ Goto(u, "done")
     \/ Works /\ Known(key(u)) \notin {None, print(u)} /\ Goto(u, "lost")
     \/ Abort(u)
  /\ UNCHANGED <<command, tables, cache, process, editing, history, loads, changes>>

\* finalizePostUsageBilling and QueueDeductBalance look at stopped before the mutex.
Finalize(u) == IF writer[Home(u)] = "open" THEN "send" ELSE "deduct"

\* applyUsageBillingEffects and Commit, under the lock of the user's row; the
\* answer to Commit may be lost.
Charge(u) ==
  /\ pc[u] = "effects"
  /\ \/ /\ balance' = balance - 1 /\ dedup' = [dedup EXCEPT ![key(u)] = print(u)]
        /\ charged' = charged \cup {key(u)}
        /\ \/ Works /\ Goto(u, Finalize(u)) /\ Slip(IF LoadUnderway THEN {"cache"} ELSE {})
           \/ Fails /\ Goto(u, "lost") /\ Slip({"cache"})
     \/ Abort(u) /\ UNCHANGED <<balance, dedup, charged, slips>>
  /\ UNCHANGED <<command, archive, cache, process, editing, credited, adrift, loads, changes>>

\* CleanupUsageBillingDedup: one statement moves old claims.
Archive(k) ==
  /\ dedup[k] # None /\ dedup' = [dedup EXCEPT ![k] = None]
  /\ archive' = [archive EXCEPT ![k] = IF @ = None THEN dedup[k] ELSE @]
  /\ UNCHANGED <<command, balance, cache, pc, process, editing, history, bounds>>

-----------------------------------------------------------------------------
(* BillingCacheService: the queue of cache writes *)

\* enqueueCacheWrite under cacheWriteMu: a channel that is still there may be closed.
Room(i)    == Cardinality(writes[i]) < WriteBuffer
Accepts(i) == writer[i] \in {"open", "flagged"} /\ Room(i)
Refuses(i) == writer[i] = "gone" \/ (writer[i] \in {"open", "flagged"} /\ ~Room(i))
Panics(i)  == writer[i] = "closed"

Put(i, write) == writes' = [writes EXCEPT ![i] = @ \cup {write}]

\* Without the fallback a write that finds the queue full is forgotten.
QueueDeductBalance_Dropped(u) ==
  /\ pc[u] = "send"
  /\ \/ Accepts(Home(u)) /\ Put(Home(u), Deduct(u)) /\ Goto(u, "done") /\ UNCHANGED slips
     \/ Refuses(Home(u)) /\ Goto(u, "done") /\ UNCHANGED <<writes, slips>>
     \/ Panics(Home(u)) /\ Goto(u, "lost") /\ Slip({"cache"}) /\ UNCHANGED writes
  /\ UNCHANGED <<command, tables, cache, pool, writer, load, editing, charged, credited, adrift,
                 bounds>>

QueueDeductBalance(u) ==
  /\ pc[u] = "send"
  /\ \/ Accepts(Home(u)) /\ Put(Home(u), Deduct(u)) /\ Goto(u, "done") /\ UNCHANGED slips
     \/ Refuses(Home(u)) /\ Goto(u, "deduct") /\ UNCHANGED <<writes, slips>>
     \/ Panics(Home(u)) /\ Goto(u, "lost") /\ Slip({"cache"}) /\ UNCHANGED writes
  /\ UNCHANGED <<command, tables, cache, pool, writer, load, editing, charged, credited, adrift,
                 bounds>>

\* deductBalanceScript: a missing key stays missing.
Deducted == IF cache = None THEN None ELSE cache - 1

\* A command to Redis is lost, or not: its effect is what it leaves in the cache, and
\* how far from the balance.
Command(effect, off) ==
  \/ Works /\ cache' = effect /\ adrift' = off /\ UNCHANGED slips
  \/ Fails /\ Slip({"cache"}) /\ UNCHANGED <<cache, adrift>>

\* DeductBalanceCache, the fallback.
DeductNow(u) ==
  /\ pc[u] = "deduct" /\ Goto(u, "done") /\ Command(Deducted, adrift)
  /\ UNCHANGED <<command, tables, process, editing, charged, credited, loads, changes>>

\* cacheWriteWorker: ten of them, so in any order.
PerformWrite(i) ==
  /\ \E w \in writes[i] :
       /\ writes' = [writes EXCEPT ![i] = @ \ {w}]
       /\ \/ w.kind = "set" /\ Command(w.balance, 0)
          \/ w.kind = "deduct" /\ Command(Deducted, adrift)
  /\ UNCHANGED <<command, tables, pc, pool, writer, load, editing, charged, credited, loads, changes>>

-----------------------------------------------------------------------------
(* BillingCacheService: GetUserBalance *)

\* A miss, or a Get that fails.
StartLoad(i) ==
  /\ load[i].at = "idle" /\ loads[i] < MaxLoads
  /\ loads' = [loads EXCEPT ![i] = @ + 1] /\ load' = [load EXCEPT ![i].at = "read"]
  /\ (cache = None /\ Works) \/ Fails
  /\ UNCHANGED <<command, tables, cache, pc, pool, writer, writes, editing, history, changes>>

\* GetByID, and enqueueCacheWrite's look at stopped before it takes the mutex.
ReadBalance(i) ==
  /\ load[i].at = "read"
  /\ IF writer[i] = "open"
     THEN /\ load' = [load EXCEPT ![i] = [at |-> "send", balance |-> balance]]
          /\ Slip(IF ChargeUnderway THEN {"cache"} ELSE {})
     ELSE load' = [load EXCEPT ![i] = Idle] /\ UNCHANGED slips
  /\ UNCHANGED <<command, tables, cache, pc, pool, writer, writes, editing, charged, credited, adrift,
                 bounds>>

\* The capacity is not looked at.
SendBalance_Unbounded(i) ==
  /\ load[i].at = "send" /\ load' = [load EXCEPT ![i] = Idle]
  /\ \/ writer[i] \in {"open", "flagged"} /\ Put(i, Set(i, load[i].balance)) /\ UNCHANGED slips
     \/ writer[i] = "gone" /\ UNCHANGED <<writes, slips>>
     \/ Panics(i) /\ Slip({"cache"}) /\ UNCHANGED writes
  /\ UNCHANGED <<command, tables, cache, pc, pool, writer, editing, charged, credited, adrift, bounds>>

SendBalance(i) ==
  /\ load[i].at = "send" /\ load' = [load EXCEPT ![i] = Idle]
  /\ \/ Accepts(i) /\ Put(i, Set(i, load[i].balance)) /\ UNCHANGED slips
     \/ Refuses(i) /\ UNCHANGED <<writes, slips>>
     \/ Panics(i) /\ Slip({"cache"}) /\ UNCHANGED writes
  /\ UNCHANGED <<command, tables, cache, pc, pool, writer, editing, charged, credited, adrift, bounds>>

CacheExpires ==
  /\ cache # None /\ cache' = None /\ adrift' = 0
  /\ UNCHANGED <<command, tables, pc, process, editing, charged, credited, slips, bounds>>

-----------------------------------------------------------------------------
(* The other writers of the user's row *)

\* UpdateBalance, by a redeem code, a recharge, a promotion or a rebate; a goroutine
\* will invalidate.
Credit ==
  /\ changes < MaxChanges /\ changes' = changes + 1 /\ credited' = credited + 1
  /\ balance' = balance + 1 /\ purges' = purges + 1
  /\ Slip(IF LoadUnderway THEN {"cache"} ELSE {})
  /\ UNCHANGED <<command, dedup, archive, cache, pc, process, edit, charged, adrift, loads, faults>>

\* ExecuteRefund's DeductBalance and RollbackRefund's UpdateBalance, and the grant of a
\* first binding: none of them invalidates the cache.
Refund ==
  /\ changes < MaxChanges /\ changes' = changes + 1
  /\ \E n \in {-1, 1} :
       /\ balance' = balance + n /\ credited' = credited + n
       /\ adrift' = IF cache = None THEN 0 ELSE adrift - n
  /\ Slip(IF LoadUnderway THEN {"cache"} ELSE {})
  /\ UNCHANGED <<command, dedup, archive, cache, pc, process, editing, charged, loads, faults>>

\* GetByID, of an administrator's adjustment or the change of a profile.
ReadUser ==
  /\ edit = None /\ changes < MaxChanges /\ changes' = changes + 1
  /\ \E adds \in 0 .. 1 : edit' = [balance |-> balance, adds |-> adds]
  /\ UNCHANGED <<command, tables, cache, pc, process, purges, history, loads, faults>>

\* userRepository.Update sets every column of the row, the balance too; only
\* UpdateUserBalance invalidates the cache.
UpdateUser ==
  /\ edit # None /\ edit' = None
  /\ balance' = edit.balance + edit.adds /\ credited' = credited + edit.adds
  /\ purges' = purges + edit.adds
  /\ Slip((IF edit.balance # balance THEN {"cache", "row"} ELSE {})
          \cup (IF LoadUnderway THEN {"cache"} ELSE {}))
  /\ UNCHANGED <<command, dedup, archive, cache, pc, process, charged, adrift, bounds>>

\* InvalidateUserBalance
Purge ==
  /\ purges > 0 /\ purges' = purges - 1 /\ Command(None, 0)
  /\ UNCHANGED <<command, tables, pc, process, edit, charged, credited, loads, changes>>

-----------------------------------------------------------------------------
(* Shutdown and crashes *)

\* UsageRecordWorkerPool.Stop: no more submissions; it waits for the queue.
StopPool(i) ==
  /\ pool[i] = "open" /\ pool' = [pool EXCEPT ![i] = "stopping"]
  /\ UNCHANGED <<command, tables, cache, pc, writer, writes, load, editing, history, bounds>>

\* BillingCacheService.Stop, at the same time: flags, closes the channel, waits for
\* its workers, and only then forgets the channel.
StopWriter(i) ==
  /\ \/ writer[i] = "open" /\ writer' = [writer EXCEPT ![i] = "flagged"]
     \/ writer[i] = "flagged" /\ writer' = [writer EXCEPT ![i] = "closed"]
     \/ writer[i] = "closed" /\ writes[i] = {} /\ writer' = [writer EXCEPT ![i] = "gone"]
  /\ UNCHANGED <<command, tables, cache, pc, pool, writes, load, editing, history, bounds>>

\* An instance stops without its shutdown; another one takes its place.
Crash(i) ==
  /\ Fails
  /\ pc' = [u \in Records |-> IF Home(u) = i /\ pc[u] \in {"queued"} \cup Running THEN "lost" ELSE pc[u]]
  /\ edit' \in {edit, None} /\ purges' \in 0 .. purges
  /\ Slip(IF writes[i] # {} \/ purges' < purges \/ \E u \in Records : Home(u) = i /\ pc[u] \in Deducting
          THEN {"cache"} ELSE {})
  /\ pool' = [pool EXCEPT ![i] = "open"] /\ writer' = [writer EXCEPT ![i] = "open"]
  /\ writes' = [writes EXCEPT ![i] = {}] /\ load' = [load EXCEPT ![i] = Idle]
  /\ UNCHANGED <<command, tables, cache, charged, credited, adrift, loads, changes>>

-----------------------------------------------------------------------------
RecordStep(u) ==
  \/ Take(u) \/ Claim(u) \/ Charge(u)
  \/ QueueDeductBalance(u) \/ DeductNow(u)

LoadStep(i) == ReadBalance(i) \/ SendBalance(i)

Next ==
  \/ \E u \in Records : Submit(u) \/ RecordStep(u)
  \/ \E i \in Instances :
       \/ PerformWrite(i) \/ StartLoad(i) \/ LoadStep(i)
       \/ StopPool(i) \/ StopWriter(i) \/ Crash(i)
  \/ \E k \in Keys : Archive(k)
  \/ CacheExpires \/ Credit \/ Refund \/ ReadUser \/ UpdateUser \/ Purge

Spec == Init /\ [][Next]_vars

\* The pool's workers do what was submitted.
FairSpec == Spec /\ \A u \in Records : WF_vars(RecordStep(u))

-----------------------------------------------------------------------------
(* Properties *)

\* The balance is what was paid in less 1 for each request id that was billed: each
\* id once, however many records carry it, under whichever fingerprint, on whichever
\* instance, also after its claim was archived; unless an update of the whole row
\* wrote back a balance it had read before (claimUsageBillingKey, userRepository.Update).
BalanceExplained ==
  "row" \in slips \/ balance = Opening + credited - Cardinality(charged)

\* When no write is pending the cached balance, if there is one, is the stored one
\* except for exactly what refunds and grants of a first binding, which invalidate
\* nothing, have added or taken since the copy was written, although the queue may
\* have been full or shut down; unless a load overlapped a change, a command was
\* lost, a stale row was written, or a write met a channel that Stop had closed
\* (QueueDeductBalance, ExecuteRefund).
Quiet == ~ChargeUnderway /\ ~LoadUnderway /\ purges = 0

CacheAgrees == Quiet /\ slips = {} => cache \in {None, balance + adrift}

\* What the pool has accepted is billed, also when the instance shuts down
\* meanwhile; only a failure of the database or the process loses it.
AcceptedIsBilled ==
  \A u \in Records :
    (pc[u] = "queued") ~> (key(u) \in charged \/ faults > 0)

=============================================================================
