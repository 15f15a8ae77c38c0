-------------------------- MODULE SystemOperationLock --------------------------
(***************************************************************************)
(* SystemOperationLockService: the lease that keeps system operations      *)
(* (update, rollback, restart) of all instances apart.  It is the row of   *)
(* idempotency_records with one fixed key; the operation id takes the      *)
(* place of the fingerprint.  A process runs the operation of one id, with *)
(* its renewal loop, as SystemHandler does: acquire, operate, release.     *)
(***************************************************************************)
EXTENDS IdempotencyStore

CONSTANTS
  RenewInterval,  \* a third of the lease
  MaxFaults,      \* bound: statements that fail
  MaxCrashes      \* bound: operations lost in the middle

ASSUME LockConstants ==
  /\ RenewInterval \in Nat \ {0}
  /\ MaxFaults \in Nat /\ MaxCrashes \in Nat

\* The operation id of a process; two running operations never share one.
Procs == Fingerprints

VARIABLES
  pc,
  start,      \* now, read once by Acquire
  seen,       \* id and status of the record it has read or holds
  reclaimed,  \* it holds the lock by TryReclaim
  renewAt,    \* when its renewal loop wakes up next, 0 if it has ended
  faults, crashes,
  outlasted   \* for the properties: the rows whose lock ran out under an
              \* operation that had reclaimed them

handlers == <<pc, start, seen, reclaimed, renewAt>>
vars     == <<store, handlers, faults, crashes, outlasted>>

Acquiring == {"create", "get", "reclaim"}
Labels    == Acquiring \cup {"idle", "operate", "release"}
Nothing   == [id |-> 0, status |-> "none"]

TypeOK ==
  /\ StoreTypeOK
  /\ pc \in [Procs -> Labels]
  /\ start \in [Procs -> 0 .. MaxTime]
  /\ seen \in [Procs -> [id : 0 .. MaxTime, status : Statuses]]
  /\ reclaimed \in [Procs -> BOOLEAN]
  /\ renewAt \in [Procs -> Nat]
  /\ faults \in 0 .. MaxFaults /\ crashes \in 0 .. MaxCrashes
  /\ outlasted \subseteq 0 .. MaxTime

Init ==
  /\ StoreInit
  /\ pc = [p \in Procs |-> "idle"]
  /\ start = [p \in Procs |-> 0]
  /\ seen = [p \in Procs |-> Nothing]
  /\ reclaimed = [p \in Procs |-> FALSE]
  /\ renewAt = [p \in Procs |-> 0]
  /\ faults = 0 /\ crashes = 0 /\ outlasted = {}

-----------------------------------------------------------------------------
(* Control of an operation *)

\* A statement that fails; it may have been applied all the same.
Fails(failed) ==
  IF failed THEN faults < MaxFaults /\ faults' = faults + 1 ELSE faults' = faults

Goto(p, label, id, status) ==
  /\ pc' = [pc EXCEPT ![p] = label]
  /\ seen' = [seen EXCEPT ![p] = [id |-> id, status |-> status]]
  /\ UNCHANGED <<start, reclaimed, renewAt>>

\* The lock is granted and its renewal loop started.
Grant(p, id, byReclaim) ==
  /\ pc' = [pc EXCEPT ![p] = "operate"]
  /\ seen' = [seen EXCEPT ![p] = [id |-> id, status |-> "processing"]]
  /\ reclaimed' = [reclaimed EXCEPT ![p] = byReclaim]
  /\ renewAt' = [renewAt EXCEPT ![p] = clock + RenewInterval]
  /\ UNCHANGED start

Return(p) ==
  /\ pc' = [pc EXCEPT ![p] = "idle"]
  /\ start' = [start EXCEPT ![p] = 0]
  /\ seen' = [seen EXCEPT ![p] = Nothing]
  /\ reclaimed' = [reclaimed EXCEPT ![p] = FALSE]
  /\ renewAt' = [renewAt EXCEPT ![p] = 0]

-----------------------------------------------------------------------------
(* Acquire *)

Acquire(p) ==
  /\ pc[p] = "idle"
  /\ pc' = [pc EXCEPT ![p] = "create"]
  /\ start' = [start EXCEPT ![p] = clock]
  /\ UNCHANGED <<store, seen, reclaimed, renewAt, faults, crashes, outlasted>>

Create(p) ==
  /\ pc[p] = "create"
  /\ \E applied, failed \in BOOLEAN :
       /\ Fails(failed) /\ (applied \/ failed)
       /\ IF applied THEN CreateProcessing(p, start[p]) ELSE UNCHANGED <<record, lastId>>
       /\ IF failed THEN Return(p)
          ELSE IF record = Absent THEN Grant(p, lastId', FALSE)
          ELSE Goto(p, "get", 0, "none")
  /\ UNCHANGED <<clock, crashes, outlasted>>

\* Busy while the record is processing and its lock has not run out.
Get(p) ==
  /\ pc[p] = "get"
  /\ \E failed \in BOOLEAN :
       /\ Fails(failed)
       /\ IF \/ failed \/ record = Absent
             \/ record.status = "processing" /\ record.lockedUntil > start[p]
          THEN Return(p)
          ELSE Goto(p, "reclaim", record.id, record.status)
  /\ UNCHANGED <<store, crashes, outlasted>>

\* The read that follows a lost race only words the answer.
Reclaim(p) ==
  /\ pc[p] = "reclaim"
  /\ \E applied, failed \in BOOLEAN :
       /\ Fails(failed) /\ (applied \/ failed)
       /\ IF applied THEN TryReclaim(seen[p].id, seen[p].status, start[p])
                     ELSE UNCHANGED record
       /\ IF ~failed /\ Reclaimable(seen[p].id, seen[p].status, start[p])
          THEN Grant(p, seen[p].id, TRUE)
          ELSE Return(p)
  /\ UNCHANGED <<lastId, clock, crashes, outlasted>>

-----------------------------------------------------------------------------
(* renewLoop and Release *)

\* Mutant: the loop ends at the first failure.
Renew_StopsOnError(p) ==
  /\ pc[p] = "operate" /\ renewAt[p] # 0 /\ clock >= renewAt[p]
  /\ \E applied, failed \in BOOLEAN :
       /\ Fails(failed) /\ (applied \/ failed)
       /\ IF applied THEN ExtendProcessingLock(seen[p].id, p) ELSE UNCHANGED record
       /\ renewAt' = [renewAt EXCEPT ![p] =
                        IF ~failed /\ Extendable(seen[p].id, p)
                        THEN clock + RenewInterval ELSE 0]
  /\ UNCHANGED <<lastId, clock, pc, start, seen, reclaimed, crashes, outlasted>>

\* The loop goes on after a failed statement and ends when no row matched.
Renew(p) ==
  /\ pc[p] = "operate" /\ renewAt[p] # 0 /\ clock >= renewAt[p]
  /\ \E applied, failed \in BOOLEAN :
       /\ Fails(failed) /\ (applied \/ failed)
       /\ IF applied THEN ExtendProcessingLock(seen[p].id, p) ELSE UNCHANGED record
       /\ renewAt' = [renewAt EXCEPT ![p] =
                        IF failed \/ Extendable(seen[p].id, p)
                        THEN clock + RenewInterval ELSE 0]
  /\ UNCHANGED <<lastId, clock, pc, start, seen, reclaimed, crashes, outlasted>>

\* The operation is over and the loop is told to stop; start is now the time
\* the release began.
Finish(p) ==
  /\ pc[p] = "operate"
  /\ pc' = [pc EXCEPT ![p] = "release"]
  /\ start' = [start EXCEPT ![p] = clock]
  /\ renewAt' = [renewAt EXCEPT ![p] = 0]
  /\ UNCHANGED <<store, seen, reclaimed, faults, crashes, outlasted>>

\* Release marks the record by id, for a success or a failure of the operation;
\* acquireSystemLock's release ignores its error.
Release(p) ==
  /\ pc[p] = "release"
  /\ \E applied, failed, succeeded \in BOOLEAN :
       /\ Fails(failed) /\ (applied \/ failed)
       /\ IF ~applied THEN UNCHANGED record
          ELSE IF succeeded THEN StoreSucceeded(seen[p].id, p, start[p] + TTL)
          ELSE StoreFailedRetryable(seen[p].id, start[p], start[p] + TTL)
  /\ Return(p)
  /\ UNCHANGED <<lastId, clock, crashes, outlasted>>

-----------------------------------------------------------------------------
(* Time, the cleanup, lost operations *)

\* The statements of an acquisition, and the release with its time-out of two
\* seconds, take less than a tick, and a renewal is not overdue.  An operation
\* itself takes as long as it likes.
OnTime(p) ==
  /\ pc[p] \in Acquiring \cup {"release"} => clock = start[p]
  /\ renewAt[p] # 0 => clock < renewAt[p]

\* The operations that took an old row and hold it still when its lock runs out
\* with the next tick: TryReclaim keeps the fingerprint of the operation before,
\* so that their renewals match no row.
Outlasting ==
  {p \in Procs : /\ pc[p] \in {"operate", "release"} /\ reclaimed[p]
                 /\ record.id = seen[p].id /\ record.lockedUntil <= clock + 1}

Tick ==
  /\ clock < MaxTime /\ \A p \in Procs : OnTime(p)
  /\ clock' = clock + 1
  /\ outlasted' = outlasted \cup {seen[p].id : p \in Outlasting}
  /\ UNCHANGED <<record, lastId, handlers, faults, crashes>>

Cleanup == DeleteExpired /\ UNCHANGED <<handlers, faults, crashes, outlasted>>

\* An operation is lost, with its renewal loop: a restart of the instance.
Crash(p) ==
  /\ pc[p] # "idle" /\ crashes < MaxCrashes
  /\ crashes' = crashes + 1
  /\ Return(p)
  /\ UNCHANGED <<store, faults, outlasted>>

OperationStep(p) ==
  \/ Create(p) \/ Get(p) \/ Reclaim(p) \/ Renew(p) \/ Finish(p) \/ Release(p)

Next ==
  \/ \E p \in Procs : Acquire(p) \/ OperationStep(p) \/ Crash(p)
  \/ Tick \/ Cleanup

Spec == Init /\ [][Next]_vars

-----------------------------------------------------------------------------
(* Properties *)

\* ErrSystemOperationBusy: "another system operation is in progress".  Two system
\* operations run at the same time only after an operation that had reclaimed
\* the row of one of them was longer than its lease; operations that inserted
\* their row keep everybody else out, however long they are and although a
\* renewal may fail (Acquire, renewLoop, Release).
OneOperation ==
  \A p, q \in Procs : p # q /\ pc[p] = "operate" /\ pc[q] = "operate" =>
    \E r \in {p, q} : seen[r].id \in outlasted

\* An operation that created the record stays its owner: its lease does not run
\* out under it and nobody else's release, reclaim or cleanup takes it away.
CreatorKeepsLease ==
  \A p \in Procs : pc[p] = "operate" /\ ~reclaimed[p] =>
    /\ record.id = seen[p].id /\ record.status = "processing"
    /\ record.fingerprint = p /\ record.lockedUntil > clock

=============================================================================
