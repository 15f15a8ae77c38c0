--------------------------- MODULE SchedulerSnapshot ---------------------------
(***************************************************************************)
(* SchedulerSnapshotService: the gateway picks accounts from a copy of the *)
(* database kept in Redis.  A change of an account is followed by an event *)
(* of scheduler_outbox and, often, by a direct write of the account's      *)
(* record; every instance polls the outbox behind one shared watermark and *)
(* rebuilds the bucket of the account; all buckets are rebuilt at each     *)
(* interval; a request that finds no snapshot rebuilds it on its own.      *)
(*                                                                         *)
(* The module follows one bucket and its accounts.  What the database says *)
(* of an account is the number of changes made to it.  Of the versions of  *)
(* snapshots only the order matters: drawn lists the writers whose version *)
(* is newer than the active one, oldest first.                             *)
(***************************************************************************)
EXTENDS Naturals, FiniteSets, Sequences, SequencesExt

CONSTANTS
  Accounts,
  Writers,     \* requests and jobs that change accounts
  Pollers,     \* outbox workers, one for each instance
  Rebuilders,  \* workers of the initial and of the interval rebuild
  Readers,     \* gateway requests that list the bucket
  None,        \* nobody holds the lock, no snapshot is active yet
  BatchLimit,  \* events of one poll
  MaxChanges,  \* bound: changes of accounts
  MaxFaults,   \* bound: statements that fail, rebuilds too slow, requests without a snapshot
  MaxCrashes,  \* bound: workers lost with their instance
  MaxTogether  \* bound: all of these together

ASSUME SchedulerConstants ==
  /\ IsFiniteSet(Accounts) /\ Accounts # {}
  /\ BatchLimit \in Nat \ {0}
  /\ {MaxChanges, MaxFaults, MaxCrashes, MaxTogether} \subseteq Nat
  /\ None \notin Pollers \cup Rebuilders \cup Readers \cup [Accounts -> Nat]

Builders == Pollers \cup Rebuilders \cup Readers
Workers  == Writers \cup Builders

VARIABLES
  db,         \* version of each account's row
  outbox,     \* visible rows of scheduler_outbox
  lastId,     \* last value drawn from the sequence of their ids
  watermark,  \* sched:outbox:watermark
  lock,       \* who has set sched:lock:{bucket}
  active,     \* what the active snapshot lists
  meta,       \* sched:acc:{id} and sched:meta:{id}
  drawn,      \* builders whose version is newer than the active one, oldest first
  pc, target, kind, loaded,
  todo, top, seen, err,
  handled,    \* history: ids of the events whose handler has returned nil
  changes, faults, crashes

database == <<db, outbox, lastId>>
redis    == <<watermark, lock, active, meta, drawn>>
locals   == <<pc, target, kind, loaded, todo, top, seen, err>>
bounds   == <<changes, faults, crashes>>
vars     == <<database, redis, locals, handled, bounds>>

Versions == 0 .. MaxChanges
Contents == [Accounts -> Versions]
Ids      == 0 .. MaxChanges

\* How the operations of accountRepository and of usage billing announce a
\* change: an event or none, in the transaction of the change or after it,
\* dropped when an equal one is recent, followed by syncSchedulerAccountSnapshot.
Kind(event, tx, dedup, sync) == [event |-> event, tx |-> tx, dedup |-> dedup, sync |-> sync]
NoKind == Kind(FALSE, FALSE, FALSE, FALSE)
Kinds ==
  { Kind(TRUE, FALSE, TRUE, TRUE),     \* Update, SetError, SetRateLimited, ...
    Kind(TRUE, FALSE, TRUE, FALSE),    \* SetOverloaded, ClearTempUnschedulable, ...
    Kind(TRUE, FALSE, FALSE, FALSE),   \* AddToGroup, RemoveFromGroup, BindGroups
    Kind(FALSE, FALSE, FALSE, TRUE),   \* UpdateCredentials
    Kind(TRUE, TRUE, TRUE, FALSE) }    \* a quota crossed by usage billing

Building == {"lock", "load", "incr", "write", "activate", "unlock"}
Labels   == Building \cup {"idle", "insert", "commit", "syncRead", "syncWrite",
                           "get", "set", "watermark"}

Event(id, a, v, late) == [id |-> id, account |-> a, version |-> v, late |-> late]

TypeOK ==
  /\ db \in Contents /\ lastId \in Ids
  /\ outbox \subseteq [id : Ids, account : Accounts, version : Versions, late : BOOLEAN]
  /\ watermark \in Ids
  /\ lock \in Builders \cup {None} /\ active \in Contents \cup {None}
  /\ meta \in Contents /\ drawn \in Seq(Builders)
  /\ pc \in [Workers -> Labels]
  /\ target \in [Writers -> Accounts] /\ kind \in [Writers -> Kinds \cup {NoKind}]
  /\ loaded \in [Workers -> Contents]
  /\ todo \in [Pollers -> SUBSET Ids] /\ top \in [Pollers -> Ids]
  /\ seen \in [Pollers -> BOOLEAN] /\ err \in [Builders -> BOOLEAN]
  /\ handled \subseteq Ids /\ changes \in 0 .. MaxChanges
  /\ faults \in 0 .. MaxFaults /\ crashes \in 0 .. MaxCrashes

Zero == [a \in Accounts |-> 0]

Init ==
  /\ db = Zero /\ outbox = {} /\ lastId = 0
  /\ watermark = 0 /\ lock = None /\ active = None /\ meta = Zero /\ drawn = <<>>
  /\ pc = [w \in Workers |-> "idle"]
  /\ target = [w \in Writers |-> CHOOSE a \in Accounts : TRUE]
  /\ kind = [w \in Writers |-> NoKind]
  /\ loaded = [w \in Workers |-> Zero]
  /\ todo = [p \in Pollers |-> {}] /\ top = [p \in Pollers |-> 0]
  /\ seen = [p \in Pollers |-> FALSE] /\ err = [w \in Builders |-> FALSE]
  /\ handled = {} /\ changes = 0 /\ faults = 0 /\ crashes = 0

-----------------------------------------------------------------------------
(* Faults and control *)

Goto(w, label) == pc' = [pc EXCEPT ![w] = label]

Room == changes + faults + crashes < MaxTogether

Fails(failed) ==
  /\ failed => Room /\ faults < MaxFaults
  /\ faults' = IF failed THEN faults + 1 ELSE faults

Smallest(ids) == CHOOSE i \in ids : \A j \in ids : i <= j

\* What a worker has read is forgotten at the end of its operation.
Forget(w) == loaded' = [loaded EXCEPT ![w] = Zero]

\* A writer is done with its event; what follows is the direct write, if any.
Announced(w) ==
  IF kind[w].sync
  THEN Goto(w, "syncRead") /\ UNCHANGED kind
  ELSE Goto(w, "idle") /\ kind' = [kind EXCEPT ![w] = NoKind]

Done(w) ==
  /\ Forget(w) /\ Goto(w, "idle")
  /\ kind' = [kind EXCEPT ![w] = NoKind]

-----------------------------------------------------------------------------
(* A change of an account *)

\* A change that is not in the transaction of its event is committed first.
Change(w, a, k) ==
  /\ pc[w] = "idle" /\ Room /\ changes < MaxChanges /\ changes' = changes + 1
  /\ db' = IF k.tx THEN db ELSE [db EXCEPT ![a] = @ + 1]
  /\ target' = [target EXCEPT ![w] = a]
  /\ kind' = [kind EXCEPT ![w] = k]
  /\ Goto(w, IF k.event THEN "insert" ELSE "syncRead")
  /\ UNCHANGED <<outbox, lastId, redis, loaded, todo, top, seen, err, handled, faults, crashes>>

\* An equal event exists; whether it is younger than schedulerOutboxDedupWindow is
\* open.
Duplicates(w) ==
  IF kind[w].dedup /\ \E e \in outbox : e.account = target[w] THEN BOOLEAN ELSE {FALSE}

\* enqueueSchedulerOutbox: the id is drawn here and visible at the commit.  A
\* failure is only logged, in a transaction it undoes the change.
Insert(w) ==
  /\ pc[w] = "insert"
  /\ \E failed \in BOOLEAN, duplicate \in Duplicates(w) :
       /\ Fails(failed)
       /\ CASE failed -> Announced(w) /\ UNCHANGED <<db, lastId, loaded>>
            [] ~failed /\ duplicate ->
                 /\ db' = IF kind[w].tx THEN [db EXCEPT ![target[w]] = @ + 1] ELSE db
                 /\ Announced(w) /\ UNCHANGED <<lastId, loaded>>
            [] OTHER ->
                 /\ lastId' = lastId + 1
                 /\ loaded' = [loaded EXCEPT ![w][target[w]] = lastId + 1]
                 /\ Goto(w, "commit") /\ UNCHANGED <<db, kind>>
  /\ UNCHANGED <<outbox, redis, target, todo, top, seen, err, handled, changes, crashes>>

\* A poll that has listed later ids does not come back to this one.
Commit(w) ==
  /\ pc[w] = "commit"
  /\ LET id   == loaded[w][target[w]]
         late == id <= watermark \/ \E p \in Pollers : id <= top[p]
     IN /\ db' = IF kind[w].tx THEN [db EXCEPT ![target[w]] = @ + 1] ELSE db
        /\ outbox' = outbox \cup {Event(id, target[w], db'[target[w]], late)}
  /\ Forget(w) /\ Announced(w)
  /\ UNCHANGED <<lastId, redis, target, todo, top, seen, err, handled, bounds>>

\* syncSchedulerAccountSnapshot: GetByID, then SetAccount; failures are logged.
SyncRead(w) ==
  /\ pc[w] = "syncRead"
  /\ \E failed \in BOOLEAN :
       /\ Fails(failed)
       /\ IF failed THEN Done(w)
          ELSE /\ loaded' = [loaded EXCEPT ![w] = db]
               /\ Goto(w, "syncWrite") /\ UNCHANGED kind
  /\ UNCHANGED <<database, redis, target, todo, top, seen, err, handled, changes, crashes>>

SyncWrite(w) ==
  /\ pc[w] = "syncWrite"
  /\ \E failed \in BOOLEAN :
       /\ Fails(failed)
       /\ meta' = IF failed THEN meta ELSE [meta EXCEPT ![target[w]] = loaded[w][target[w]]]
  /\ Done(w)
  /\ UNCHANGED <<database, watermark, lock, active, drawn, target, todo, top, seen, err,
                 handled, changes, crashes>>

-----------------------------------------------------------------------------
(* pollOutbox *)

Visible(after) == {e.id : e \in {x \in outbox : x.id > after}}

\* ListAfter(watermark, limit)
FirstAfter(after) ==
  {i \in Visible(after) : Cardinality({j \in Visible(after) : j <= i}) <= BatchLimit}

Current(p) == CHOOSE e \in outbox : e.id = Smallest(todo[p])

\* break in place of return
Abandon_Breaks(p) ==
  /\ todo' = [todo EXCEPT ![p] = {}]
  /\ UNCHANGED <<top, seen>>
  /\ Goto(p, "watermark")

Abandon(p) ==
  /\ todo' = [todo EXCEPT ![p] = {}]
  /\ top' = [top EXCEPT ![p] = 0]
  /\ seen' = [seen EXCEPT ![p] = FALSE]
  /\ Goto(p, "idle")

Poll(p) ==
  /\ pc[p] = "idle" /\ FirstAfter(watermark) # {}
  /\ todo' = [todo EXCEPT ![p] = FirstAfter(watermark)]
  /\ top' = [top EXCEPT ![p] = CHOOSE i \in FirstAfter(watermark) :
                                 \A j \in FirstAfter(watermark) : j <= i]
  /\ Goto(p, "get")
  /\ UNCHANGED <<database, redis, target, kind, loaded, seen, err, handled, bounds>>

\* The handler of the event has returned nil.
Handled(p) ==
  /\ handled' = handled \cup {Current(p).id}
  /\ todo' = [todo EXCEPT ![p] = @ \ {Current(p).id}]
  /\ Goto(p, IF todo'[p] = {} THEN "watermark" ELSE "get")

\* handleAccountEvent: GetByID
Get(p) ==
  /\ pc[p] = "get"
  /\ \E failed \in BOOLEAN :
       /\ Fails(failed)
       /\ IF failed THEN Abandon(p) /\ UNCHANGED loaded
          ELSE /\ loaded' = [loaded EXCEPT ![p] = db]
               /\ Goto(p, "set") /\ UNCHANGED <<todo, top, seen>>
  /\ UNCHANGED <<database, redis, target, kind, err, handled, changes, crashes>>

\* handleAccountEvent: SetAccount; the bucket is rebuilt once in a batch
\* (rebuildBucketsForPlatform).
Set(p) ==
  /\ pc[p] = "set"
  /\ \E failed \in BOOLEAN :
       /\ Fails(failed)
       /\ meta' = IF failed THEN meta
                  ELSE [meta EXCEPT ![Current(p).account] = loaded[p][Current(p).account]]
       /\ CASE failed            -> Abandon(p) /\ UNCHANGED handled
            [] ~failed /\ seen[p] -> Handled(p) /\ UNCHANGED <<top, seen>>
            [] OTHER              -> /\ seen' = [seen EXCEPT ![p] = TRUE]
                                     /\ Goto(p, "lock") /\ UNCHANGED <<todo, top, handled>>
  /\ Forget(p)
  /\ UNCHANGED <<database, watermark, lock, active, drawn, target, kind, err, changes, crashes>>

\* The watermark as the next id to read.
SetWatermark_Next(p) ==
  /\ pc[p] = "watermark"
  /\ watermark' = top[p] + 1
  /\ Goto(p, "idle")
  /\ top' = [top EXCEPT ![p] = 0]
  /\ seen' = [seen EXCEPT ![p] = FALSE]
  /\ UNCHANGED <<database, lock, active, meta, drawn, target, kind, loaded, todo, err, handled,
                 bounds>>

\* SetOutboxWatermark, which fails after three attempts; then checkOutboxLag, which
\* may find the outbox too far behind and rebuild all buckets.
SetWatermark(p) ==
  /\ pc[p] = "watermark"
  /\ \E failed, lagging \in BOOLEAN :
       /\ Fails(failed)
       /\ watermark' = IF failed THEN watermark ELSE top[p]
       /\ IF lagging THEN Goto(p, "lock") ELSE Goto(p, "idle")
  /\ top' = [top EXCEPT ![p] = 0]
  /\ seen' = [seen EXCEPT ![p] = FALSE]
  /\ UNCHANGED <<database, lock, active, meta, drawn, target, kind, loaded, todo, err, handled,
                 changes, crashes>>

-----------------------------------------------------------------------------
(* rebuildBucket and SetSnapshot *)

\* triggerFullRebuild at an interval, or runInitialRebuild
FullRebuild(r) ==
  /\ pc[r] = "idle"
  /\ Goto(r, "lock")
  /\ UNCHANGED <<database, redis, target, kind, loaded, todo, top, seen, err, handled, bounds>>

\* ListSchedulableAccounts: no snapshot, or its read has failed; the request loads
\* the accounts itself and stores the snapshot, without the lock.  Either is counted
\* as a fault, to bound the number of such requests.
Fallback(r) ==
  /\ pc[r] = "idle"
  /\ Fails(TRUE)
  /\ Goto(r, "load")
  /\ UNCHANGED <<database, redis, target, kind, loaded, todo, top, seen, err, handled, changes, crashes>>

\* What follows rebuildBucket, with or without an error.
Resume(w, failed) ==
  CASE w \in Pollers /\ todo[w] # {} /\ ~failed -> Handled(w) /\ UNCHANGED <<top, seen>>
    [] w \in Pollers /\ todo[w] # {} /\ failed  -> Abandon(w) /\ UNCHANGED handled
    [] OTHER -> Goto(w, "idle") /\ UNCHANGED <<todo, top, seen, handled>>

\* The deferred UnlockBucket before the check of the lock.
Lock_DeferFirst(w) ==
  /\ pc[w] = "lock"
  /\ lock' = w
  /\ Goto(w, IF lock = None THEN "load" ELSE "unlock")
  /\ UNCHANGED <<database, watermark, active, meta, drawn, target, kind, loaded, todo, top, seen,
                 err, handled, bounds>>

\* TryLockBucket: a bucket that is locked is skipped without an error.
Lock(w) ==
  /\ pc[w] = "lock"
  /\ \E failed \in BOOLEAN :
       /\ Fails(failed)
       /\ IF ~failed /\ lock = None
          THEN lock' = w /\ Goto(w, "load") /\ UNCHANGED <<todo, top, seen, handled>>
          ELSE lock' = lock /\ Resume(w, failed)
  /\ UNCHANGED <<database, watermark, active, meta, drawn, target, kind, loaded, err, changes, crashes>>

\* An error of the load or of SetSnapshot; a request has no lock to give back.
Quit(w) ==
  /\ Goto(w, IF w \in Readers THEN "idle" ELSE "unlock")
  /\ err' = [err EXCEPT ![w] = w \notin Readers]
  /\ drawn' = RemoveFirst(drawn, w)
  /\ Forget(w)

Load(w) ==
  /\ pc[w] = "load"
  /\ \E failed \in BOOLEAN :
       /\ Fails(failed)
       /\ IF failed THEN Quit(w)
          ELSE /\ loaded' = [loaded EXCEPT ![w] = db]
               /\ Goto(w, "incr") /\ UNCHANGED <<drawn, err>>
  /\ UNCHANGED <<database, watermark, lock, active, meta, target, kind, todo, top, seen, handled,
                 changes, crashes>>

\* SetSnapshot: INCR sched:ver:{bucket}
Incr(w) ==
  /\ pc[w] = "incr"
  /\ \E failed \in BOOLEAN :
       /\ Fails(failed)
       /\ IF failed THEN Quit(w)
          ELSE drawn' = Append(drawn, w) /\ Goto(w, "write") /\ UNCHANGED <<loaded, err>>
  /\ UNCHANGED <<database, watermark, lock, active, meta, target, kind, todo, top, seen, handled,
                 changes, crashes>>

\* writeAccounts, and the list under a key nobody reads yet
Write(w) ==
  /\ pc[w] = "write"
  /\ \E applied, failed \in BOOLEAN :
       /\ Fails(failed) /\ (applied \/ failed)
       /\ meta' = IF applied THEN loaded[w] ELSE meta
       /\ IF failed THEN Quit(w) ELSE Goto(w, "activate") /\ UNCHANGED <<loaded, err, drawn>>
  /\ UNCHANGED <<database, watermark, lock, active, target, kind, todo, top, seen, handled, changes, crashes>>

\* activateSnapshotScript: nothing if a newer version is active.  The older
\* versions that are still being written will find this one.
Activate(w) ==
  /\ pc[w] = "activate"
  /\ \E applied, failed \in BOOLEAN :
       /\ Fails(failed) /\ (applied \/ failed)
       /\ IF applied /\ Contains(drawn, w)
          THEN /\ active' = loaded[w]
               /\ drawn' = SubSeq(drawn, SelectInSeq(drawn, LAMBDA x : x = w) + 1, Len(drawn))
          ELSE /\ active' = active
               /\ drawn' = RemoveFirst(drawn, w)
       /\ err' = [err EXCEPT ![w] = failed /\ w \notin Readers]
  /\ Forget(w)
  /\ Goto(w, IF w \in Readers THEN "idle" ELSE "unlock")
  /\ UNCHANGED <<database, watermark, lock, meta, target, kind, todo, top, seen, handled, changes, crashes>>

\* UnlockBucket deletes the key, whoever has set it; its error is ignored.
Unlock(w) ==
  /\ pc[w] = "unlock"
  /\ \E failed \in BOOLEAN :
       /\ Fails(failed)
       /\ lock' = IF failed THEN lock ELSE None
  /\ Resume(w, err[w])
  /\ err' = [err EXCEPT ![w] = FALSE]
  /\ UNCHANGED <<database, watermark, active, meta, drawn, target, kind, loaded, changes, crashes>>

-----------------------------------------------------------------------------
(* The lock's time to live, lost workers *)

\* No time to live on the key.
LockExpires_Never == FALSE /\ UNCHANGED vars

\* Under a rebuild only if that takes the 30 seconds of the key, which its own
\* deadline, set a moment later, does not exclude.
LockExpires ==
  /\ lock # None
  /\ lock' = None
  /\ Fails(pc[lock] \in Building \ {"lock"})
  /\ UNCHANGED <<database, watermark, active, meta, drawn, locals, handled, changes, crashes>>

Crash(w) ==
  /\ pc[w] # "idle" /\ Room /\ crashes < MaxCrashes
  /\ crashes' = crashes + 1
  /\ Goto(w, "idle") /\ Forget(w)
  /\ err' = IF w \in Builders THEN [err EXCEPT ![w] = FALSE] ELSE err
  /\ drawn' = RemoveFirst(drawn, w)
  /\ todo' = IF w \in Pollers THEN [todo EXCEPT ![w] = {}] ELSE todo
  /\ top' = IF w \in Pollers THEN [top EXCEPT ![w] = 0] ELSE top
  /\ seen' = IF w \in Pollers THEN [seen EXCEPT ![w] = FALSE] ELSE seen
  /\ kind' = IF w \in Writers THEN [kind EXCEPT ![w] = NoKind] ELSE kind
  /\ UNCHANGED <<database, watermark, lock, active, meta, target, handled, changes, faults>>

WriterStep(w)  == Insert(w) \/ Commit(w) \/ SyncRead(w) \/ SyncWrite(w)
RebuildStep(w) == Lock(w) \/ Load(w) \/ Incr(w) \/ Write(w) \/ Activate(w) \/ Unlock(w)
PollStep(p)    == Poll(p) \/ Get(p) \/ Set(p) \/ SetWatermark(p)

Next ==
  \/ \E w \in Writers : WriterStep(w) \/ \E a \in Accounts, k \in Kinds : Change(w, a, k)
  \/ \E p \in Pollers : PollStep(p)
  \/ \E r \in Rebuilders : FullRebuild(r)
  \/ \E r \in Readers : Fallback(r)
  \/ \E w \in Builders : RebuildStep(w)
  \/ \E w \in Workers : Crash(w)
  \/ LockExpires

Spec == Init /\ [][Next]_vars

\* The tickers of the workers, statements that return, and Redis's expiry of a key.
Fairness ==
  /\ \A w \in Writers : WF_vars(WriterStep(w))
  /\ \A p \in Pollers : WF_vars(PollStep(p))
  /\ \A r \in Rebuilders : WF_vars(FullRebuild(r))
  /\ \A w \in Builders : WF_vars(RebuildStep(w))
  /\ WF_vars(LockExpires /\ pc[lock] \notin Building \ {"lock"})

FairSpec == Spec /\ Fairness

-----------------------------------------------------------------------------
(* Properties *)

\* pollOutbox: "return" on a handler's error keeps the watermark.  An event the
\* watermark has passed was handled, unless it became visible after a poll had
\* listed later ids.
AtLeastOnce ==
  \A e \in outbox : e.id <= watermark => e.id \in handled \/ e.late

\* TryLockBucket: as long as rebuilds end within the lock's time to live, at most one
\* of them is between its read of the database and the activation.
OneRebuild ==
  faults = 0 =>
    \A v, w \in Pollers \cup Rebuilders :
      {pc[v], pc[w]} \subseteq Building \ {"lock", "unlock"} => v = w

\* runFullRebuildWorker: whatever was skipped, dropped or overtaken, the snapshot
\* and the records of its accounts end up as the database is.
Converges == <>[](active = db /\ meta = db)

=============================================================================
