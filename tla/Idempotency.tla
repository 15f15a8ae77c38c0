------------------------------ MODULE Idempotency ------------------------------
(***************************************************************************)
(* IdempotencyCoordinator.Execute for requests that carry one key, and the *)
(* cleanup of expired records.  A process is a request; each of its steps  *)
(* is one statement or the execution itself.  A statement may fail,        *)
(* applied or not; a request may be lost between two steps.                *)
(***************************************************************************)
EXTENDS IdempotencyStore, Sequences

CONSTANTS
  Procs,       \* requests that can be in flight at the same time
  Backoff,     \* FailedRetryBackoff
  MaxFaults,   \* bound: statements that fail
  MaxCrashes   \* bound: requests lost in the middle

ASSUME IdempotencyConstants ==
  Backoff \in Nat \ {0} /\ MaxFaults \in Nat /\ MaxCrashes \in Nat

VARIABLES
  pc,
  payload,   \* the request's fingerprint
  start,     \* now, read once at the beginning
  seen,      \* id and status of the record it has read or owns
  effects,   \* the executions that succeeded: start, time and fingerprint
  overtaken, \* history: how many of them have lost their record to a raced takeover
  faults, crashes

handlers == <<pc, payload, start, seen>>
vars     == <<store, handlers, effects, overtaken, faults, crashes>>

\* Labels of a request that has not got the record yet, and of its owner.
Claiming == {"create", "get", "takeover", "reget", "reclaim"}
Owning   == {"execute", "markfailed", "marksucceeded"}
Labels   == Claiming \cup Owning \cup {"idle"}

Nothing == [id |-> 0, status |-> "none"]

TypeOK ==
  /\ StoreTypeOK
  /\ pc \in [Procs -> Labels]
  /\ payload \in [Procs -> Fingerprints \cup {NoFingerprint}]
  /\ start \in [Procs -> 0 .. MaxTime]
  /\ seen \in [Procs -> [id : 0 .. MaxTime, status : Statuses]]
  /\ effects \in Seq([from : 1 .. MaxTime, at : 1 .. MaxTime, of : Fingerprints])
  /\ overtaken \in 0 .. Len(effects)
  /\ faults \in 0 .. MaxFaults /\ crashes \in 0 .. MaxCrashes

Init ==
  /\ StoreInit
  /\ pc = [p \in Procs |-> "idle"]
  /\ payload = [p \in Procs |-> NoFingerprint]
  /\ start = [p \in Procs |-> 0]
  /\ seen = [p \in Procs |-> Nothing]
  /\ effects = <<>> /\ overtaken = 0
  /\ faults = 0 /\ crashes = 0

-----------------------------------------------------------------------------
(* Control of a request *)

\* A statement that fails; it may have been applied all the same.
Fails(failed) ==
  IF failed THEN faults < MaxFaults /\ faults' = faults + 1 ELSE faults' = faults

Goto(p, label, id, status) ==
  /\ pc' = [pc EXCEPT ![p] = label]
  /\ seen' = [seen EXCEPT ![p] = [id |-> id, status |-> status]]
  /\ UNCHANGED <<payload, start>>

Return(p) ==
  /\ pc' = [pc EXCEPT ![p] = "idle"]
  /\ payload' = [payload EXCEPT ![p] = NoFingerprint]
  /\ start' = [start EXCEPT ![p] = 0]
  /\ seen' = [seen EXCEPT ![p] = Nothing]

-----------------------------------------------------------------------------
(* Execute *)

\* A request with a valid key; its times are all computed from this instant.
Begin(p, f) ==
  /\ pc[p] = "idle"
  /\ pc' = [pc EXCEPT ![p] = "create"]
  /\ payload' = [payload EXCEPT ![p] = f]
  /\ start' = [start EXCEPT ![p] = clock]
  /\ UNCHANGED <<store, seen, effects, overtaken, faults, crashes>>

Create(p) ==
  /\ pc[p] = "create"
  /\ \E applied, failed \in BOOLEAN :
       /\ Fails(failed) /\ (applied \/ failed)
       /\ IF applied THEN CreateProcessing(payload[p], start[p])
                     ELSE UNCHANGED <<record, lastId>>
       /\ IF failed THEN Return(p)
          ELSE IF record = Absent THEN Goto(p, "execute", lastId', "processing")
          ELSE Goto(p, "get", 0, "none")
  /\ UNCHANGED <<clock, effects, overtaken, crashes>>

\* What is answered to, or done for, a record that has not expired.
Decide(p) ==
  IF record.status = "failed_retryable" /\ record.lockedUntil <= start[p]
  THEN Goto(p, "reclaim", record.id, record.status)
  ELSE Return(p)   \* replayed, in progress, or in backoff

\* Mutant: the payload of the earlier request is not compared.
Get_AnyPayload(p) ==
  /\ pc[p] = "get"
  /\ \E failed \in BOOLEAN :
       /\ Fails(failed)
       /\ IF failed \/ record = Absent
          THEN Return(p)
          ELSE IF record.expiresAt <= start[p]
          THEN Goto(p, "takeover", record.id, record.status)
          ELSE Decide(p)
  /\ UNCHANGED <<store, effects, overtaken, crashes>>

Get(p) ==
  /\ pc[p] = "get"
  /\ \E failed \in BOOLEAN :
       /\ Fails(failed)
       /\ IF failed \/ record = Absent \/ record.fingerprint # payload[p]
          THEN Return(p)
          ELSE IF record.expiresAt <= start[p]
          THEN Goto(p, "takeover", record.id, record.status)
          ELSE Decide(p)
  /\ UNCHANGED <<store, effects, overtaken, crashes>>

\* TryReclaim compares the id, the status and the lock, not the expiry: the row
\* that p read expired may have been taken over since, have got the response of
\* that execution, and be taken from it.
Overtakes(p) ==
  /\ pc[p] = "takeover" /\ Reclaimable(seen[p].id, seen[p].status, start[p])
  /\ record.status = "succeeded" /\ record.expiresAt > start[p]

\* An expired record that the cleanup has not deleted is reclaimed from
\* whatever status it was read in.
Takeover(p) ==
  /\ pc[p] = "takeover"
  /\ \E applied, failed \in BOOLEAN :
       /\ Fails(failed) /\ (applied \/ failed)
       /\ IF applied THEN TryReclaim(seen[p].id, seen[p].status, start[p])
                     ELSE UNCHANGED record
       /\ overtaken' = IF applied /\ Overtakes(p) THEN Len(effects) ELSE overtaken
       /\ IF failed THEN Return(p)
          ELSE IF Reclaimable(seen[p].id, seen[p].status, start[p])
          THEN Goto(p, "execute", seen[p].id, "processing")
          ELSE Goto(p, "reget", 0, "none")
  /\ UNCHANGED <<lastId, clock, effects, crashes>>

Reget(p) ==
  /\ pc[p] = "reget"
  /\ \E failed \in BOOLEAN :
       /\ Fails(failed)
       /\ IF failed \/ record = Absent \/ record.fingerprint # payload[p]
          THEN Return(p) ELSE Decide(p)
  /\ UNCHANGED <<store, effects, overtaken, crashes>>

Reclaim(p) ==
  /\ pc[p] = "reclaim"
  /\ \E applied, failed \in BOOLEAN :
       /\ Fails(failed) /\ (applied \/ failed)
       /\ IF applied THEN TryReclaim(seen[p].id, "failed_retryable", start[p])
                     ELSE UNCHANGED record
       /\ IF ~failed /\ Reclaimable(seen[p].id, "failed_retryable", start[p])
          THEN Goto(p, "execute", seen[p].id, "processing")
          ELSE Return(p)
  /\ UNCHANGED <<lastId, clock, effects, overtaken, crashes>>

\* execute(ctx) has its effect or returns an error.
Execute(p) ==
  /\ pc[p] = "execute"
  /\ \/ /\ effects' = Append(effects, [from |-> start[p], at |-> clock, of |-> payload[p]])
        /\ Goto(p, "marksucceeded", seen[p].id, seen[p].status)
     \/ /\ Goto(p, "markfailed", seen[p].id, seen[p].status)
        /\ UNCHANGED effects
  /\ UNCHANGED <<store, overtaken, faults, crashes>>

\* MarkFailedRetryable; its failure is logged.
MarkFailed(p) ==
  /\ pc[p] = "markfailed"
  /\ \E applied, failed \in BOOLEAN :
       /\ Fails(failed) /\ (applied \/ failed)
       /\ IF applied
          THEN StoreFailedRetryable(seen[p].id, clock + Backoff, start[p] + TTL)
          ELSE UNCHANGED record
  /\ Return(p)
  /\ UNCHANGED <<lastId, clock, effects, overtaken, crashes>>

\* Mutant: the record keeps the lock of the execution.
MarkSucceeded_AsRetryable(p) ==
  /\ pc[p] = "marksucceeded"
  /\ \E applied, failed \in BOOLEAN :
       /\ Fails(failed) /\ (applied \/ failed)
       /\ IF applied
          THEN StoreFailedRetryable(seen[p].id, clock, start[p] + TTL)
          ELSE UNCHANGED record
  /\ Return(p)
  /\ UNCHANGED <<lastId, clock, effects, overtaken, crashes>>

\* MarkSucceeded; its failure is answered as "store unavailable".
MarkSucceeded(p) ==
  /\ pc[p] = "marksucceeded"
  /\ \E applied, failed \in BOOLEAN :
       /\ Fails(failed) /\ (applied \/ failed)
       /\ IF applied THEN StoreSucceeded(seen[p].id, payload[p], start[p] + TTL)
                     ELSE UNCHANGED record
  /\ Return(p)
  /\ UNCHANGED <<lastId, clock, effects, overtaken, crashes>>

-----------------------------------------------------------------------------
(* Time, the cleanup, lost requests *)

\* The statements before the execution take less than a lease, and a request is
\* over before its record expires: half a minute and an hour by default.
OnTime(p) ==
  /\ pc[p] \in Claiming => clock + 1 < start[p] + Lease
  /\ pc[p] \in Owning => clock + 1 < start[p] + TTL

Tick ==
  /\ clock < MaxTime /\ \A p \in Procs : OnTime(p)
  /\ clock' = clock + 1
  /\ UNCHANGED <<record, lastId, handlers, effects, overtaken, faults, crashes>>

Cleanup == DeleteExpired /\ UNCHANGED <<handlers, effects, overtaken, faults, crashes>>

Crash(p) ==
  /\ pc[p] # "idle" /\ crashes < MaxCrashes
  /\ crashes' = crashes + 1
  /\ Return(p)
  /\ UNCHANGED <<store, effects, overtaken, faults>>

RequestStep(p) ==
  \/ Create(p) \/ Get(p) \/ Takeover(p) \/ Reget(p) \/ Reclaim(p)
  \/ Execute(p) \/ MarkFailed(p) \/ MarkSucceeded(p)

Next ==
  \/ \E p \in Procs, f \in Fingerprints : Begin(p, f)
  \/ \E p \in Procs : RequestStep(p) \/ Crash(p)
  \/ Tick \/ Cleanup

Spec == Init /\ [][Next]_vars

-----------------------------------------------------------------------------
(* Properties *)

\* A key has one owner at a time, whatever statements fail, however requests
\* race to insert, take over or reclaim its record, and whenever the cleanup
\* deletes it (CreateProcessing, TryReclaim, DeleteExpired).
OneOwner ==
  \A p, q \in Procs : p # q => ~(pc[p] \in Owning /\ pc[q] \in Owning)

\* A request that had its effect is not executed again within the time to live
\* counted from its beginning, under any payload: not after a lost answer, a
\* lost request or a failed MarkSucceeded (Execute).  The one exception: among
\* requests that found the key expired together, the one that comes second to
\* TryReclaim may take the record of the first after its success (Takeover); the
\* effects whose record was lost this way are the first `overtaken` ones.
EffectsApart ==
  \A i, j \in 1 .. Len(effects) :
    i < j /\ i > overtaken => effects[j].at >= effects[i].from + TTL

\* The response that will be replayed is that of a request with the same
\* fingerprint (the comparisons after both reads, MarkSucceeded by id).
ReplayIsOwn == record.status = "succeeded" => record.response = record.fingerprint

\* A recorded success stays until it expires: no mark, no cleanup and no reclaim
\* of a failed or locked record changes it before (the marks by id, DeleteExpired,
\* TryReclaim).  Only a takeover decided on a read from before the renewal does.
SuccessIsKept ==
  [][record.status = "succeeded" /\ record' # record
       => \/ clock >= record.expiresAt
          \/ \E p \in Procs : Overtakes(p) /\ pc'[p] # "takeover"]_vars

\* idempotency_test.go: "concurrent same-key requests should execute business
\* side-effect once".  Of two requests of which one began before the other had its
\* effect, only one has its effect within a time to live; two that find the key
\* expired together both do (Get, TryReclaim).
ConcurrentOnce ==
  \A i, j \in 1 .. Len(effects) :
    i < j /\ effects[j].from <= effects[i].at => effects[j].at >= effects[i].from + TTL

=============================================================================
