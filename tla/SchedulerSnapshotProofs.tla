------------------------ MODULE SchedulerSnapshotProofs ------------------------
(***************************************************************************)
(* Proofs about SchedulerSnapshot for any accounts, writers, workers and   *)
(* batch limit, without a bound on changes, faults or crashes other than   *)
(* the constants of the module.  Each step concerns one worker and leaves  *)
(* the polls alone, or is one of the few steps that do not.  The types are *)
(* the last part: their bounds come from the changes that were begun.      *)
(***************************************************************************)
EXTENDS SchedulerSnapshot, FiniteSetTheorems, SequenceTheorems, TLAPS

\* What the proofs need to know of the types.
Typed ==
  /\ db \in [Accounts -> Nat] /\ {lastId, watermark, faults} \subseteq Nat
  /\ pc \in [Workers -> Labels]
  /\ target \in [Writers -> Accounts]
  /\ loaded \in [Workers -> [Accounts -> Nat]]
  /\ todo \in [Pollers -> SUBSET Nat] /\ top \in [Pollers -> Nat]

\* Ids are drawn from 1 on.
Identified == IsFiniteSet(outbox) /\ \A e \in outbox : e.id \in Nat \ {0}

Drawn == \A w \in Writers : pc[w] = "commit" => loaded[w][target[w]] \in Nat \ {0}

\* The watermark moves when all events of the poll are handled;
Finished == \A p \in Pollers : pc[p] = "watermark" => todo[p] = {}

\* an event below the last one a poll has listed is handled, or the poll has it still
\* to do, or it came too late for the poll.
Listed ==
  \A p \in Pollers, e \in outbox :
    e.id <= top[p] => e.id \in todo[p] \/ e.id \in handled \/ e.late

PollInv == Typed /\ Identified /\ Drawn /\ Finished /\ Listed /\ AtLeastOnce

\* Without a fault nobody rebuilds the bucket but the holder of its lock.
Held ==
  faults = 0 => \A w \in Builders : pc[w] \in Building \ {"lock"} => lock = w

-----------------------------------------------------------------------------
(* Finite sets of ids *)

\* A finite set of numbers has a largest one.
LEMMA Largest ==
  ASSUME NEW S \in SUBSET Nat, IsFiniteSet(S), S # {}
  PROVE  \E m \in S : \A j \in S : j <= m
  <1> DEFINE n == Cardinality(S)
             below(i) == {j \in S : j <= i}
             f == [i \in S |-> Cardinality(below(i))]
  <1> SUFFICES ASSUME \A m \in S : \E j \in S : ~(j <= m) PROVE FALSE
    OBVIOUS
  <1>1. n \in Nat /\ n # 0
    BY FS_CardinalityType, FS_EmptySet
  <1>2. ASSUME NEW i \in S
        PROVE  /\ IsFiniteSet(below(i)) /\ Cardinality(below(i)) \in 1 .. n - 1
    <2>1. below(i) \in SUBSET S /\ i \in below(i) /\ below(i) # S
      OBVIOUS
    <2>2. IsFiniteSet(below(i)) /\ Cardinality(below(i)) <= n /\ Cardinality(below(i)) # n
      BY <2>1, FS_Subset
    <2>3. Cardinality(below(i)) \in Nat /\ Cardinality(below(i)) # 0
      BY <2>1, <2>2, FS_CardinalityType, FS_EmptySet
    <2>4. \A a, b \in Nat : a <= b /\ a # b /\ a # 0 => a \in 1 .. b - 1
      OBVIOUS
    <2> HIDE DEF n, below
    <2> QED BY <1>1, <2>2, <2>3, <2>4
  <1>3. f \in [S -> 1 .. n - 1]
    BY <1>2
  <1>4. IsFiniteSet(1 .. n - 1) /\ Cardinality(1 .. n - 1) < n
    <2>1. 1 \in Int /\ n - 1 \in Int /\ n - 1 >= 0
      BY <1>1
    <2>2. /\ IsFiniteSet(1 .. n - 1)
          /\ Cardinality(1 .. n - 1) = IF 1 > n - 1 THEN 0 ELSE (n - 1) - 1 + 1
      BY <2>1, FS_Interval
    <2> HIDE DEF n
    <2> QED BY <1>1, <2>2
  <1>5. PICK x \in S, y \in S : x # y /\ f[x] = f[y]
    <2> HIDE DEF f, n
    <2> QED BY <1>3, <1>4, FS_PigeonHole DEF n
  <1>6. ASSUME NEW a \in S, NEW b \in S, a < b
        PROVE  Cardinality(below(a)) # Cardinality(below(b))
    <2>1. \A j \in S : j \in Nat
      OBVIOUS
    <2>2. \A j \in S : j <= a => j <= b
      BY <1>6, <2>1
    <2>3. b <= b /\ ~(b <= a)
      BY <1>6, <2>1
    <2>4. below(a) \in SUBSET below(b) /\ b \in below(b) /\ b \notin below(a)
      BY <2>2, <2>3
    <2> QED BY <1>2, <2>4, FS_Subset
  <1>7. x < y \/ y < x
    BY <1>5
  <1>8. Cardinality(below(x)) = Cardinality(below(y))
    BY <1>5
  <1> QED BY <1>6, <1>7, <1>8

\* The ids after a watermark are numbers, finitely many.
LEMMA VisibleIds ==
  ASSUME Identified, NEW after \in Nat
  PROVE  Visible(after) \in SUBSET Nat /\ IsFiniteSet(Visible(after))
  <1> DEFINE rows == {x \in outbox : x.id > after}
             f == [e \in rows |-> e.id]
  <1>1. IsFiniteSet(rows)
    BY FS_Subset DEF Identified
  <1>2. Visible(after) \in SUBSET Nat
    BY DEF Visible, Identified
  <1>3. f \in Surjection(rows, Visible(after))
    BY DEF Visible, Surjection
  <1> QED BY <1>1, <1>2, <1>3, FS_Surjection

\* A poll lists some id, and every visible id between the watermark and the last one it
\* lists (ListAfter orders by id).
LEMMA FirstAfterFacts ==
  ASSUME Identified, NEW after \in Nat, FirstAfter(after) # {}
  PROVE  /\ FirstAfter(after) \in SUBSET Nat
         /\ \E i \in FirstAfter(after) : \A j \in FirstAfter(after) : j <= i
         /\ \A i \in FirstAfter(after), j \in Visible(after) : j <= i => j \in FirstAfter(after)
  <1>1. Visible(after) \in SUBSET Nat /\ IsFiniteSet(Visible(after))
    BY VisibleIds
  <1>2. FirstAfter(after) \in SUBSET Visible(after)
    BY DEF FirstAfter
  <1>3. FirstAfter(after) \in SUBSET Nat /\ IsFiniteSet(FirstAfter(after))
    BY <1>1, <1>2, FS_Subset
  <1>4. \E i \in FirstAfter(after) : \A j \in FirstAfter(after) : j <= i
    BY <1>3, Largest
  <1>5. ASSUME NEW i \in FirstAfter(after), NEW j \in Visible(after), j <= i
        PROVE  j \in FirstAfter(after)
    <2> DEFINE upto(k) == {l \in Visible(after) : l <= k}
    <2>1. i \in Nat /\ j \in Nat /\ Cardinality(upto(i)) <= BatchLimit
      BY <1>1, <1>2 DEF FirstAfter
    <2>2. upto(j) \in SUBSET upto(i) /\ upto(i) \in SUBSET Visible(after)
      BY <1>1, <1>5, <2>1
    <2>3. IsFiniteSet(upto(i)) /\ IsFiniteSet(upto(j))
      BY <1>1, <2>2, FS_Subset
    <2>4. Cardinality(upto(j)) <= Cardinality(upto(i))
      BY <2>2, <2>3, FS_Subset
    <2>5. Cardinality(upto(i)) \in Nat /\ Cardinality(upto(j)) \in Nat /\ BatchLimit \in Nat
      BY <2>3, FS_CardinalityType, SchedulerConstants
    <2> HIDE DEF upto
    <2>6. Cardinality(upto(j)) <= BatchLimit
      BY <2>1, <2>4, <2>5
    <2> QED BY <2>6 DEF FirstAfter, upto
  <1> QED BY <1>3, <1>4, <1>5

-----------------------------------------------------------------------------
(* What the steps do *)

\* A step of a worker goes on with its label, and reads for itself.
Others(w) ==
  \A x \in Workers : x # w => pc'[x] = pc[x] /\ loaded'[x] = loaded[x]

\* The polls are as they were.
Aside ==
  /\ UNCHANGED <<outbox, watermark, todo, top, handled>>
  /\ \A p \in Pollers : pc'[p] = "watermark" => pc[p] = "watermark"
  /\ \A w \in Writers : pc'[w] = "commit" =>
       \/ loaded'[w][target'[w]] \in Nat \ {0}
       \/ pc[w] = "commit" /\ loaded'[w] = loaded[w] /\ target'[w] = target[w]

\* A poll ends without the watermark.
Ends(p) ==
  /\ UNCHANGED <<outbox, watermark, handled, target>> /\ pc'[p] = "idle" /\ Others(p)
  /\ todo' = [todo EXCEPT ![p] = {}] /\ top' = [top EXCEPT ![p] = 0]

\* The handler of an event is done.
Advances(p) ==
  /\ UNCHANGED <<outbox, watermark, target, top>> /\ Others(p) /\ pc'[p] # "commit"
  /\ \E i : /\ handled' = handled \cup {i}
            /\ todo' = [todo EXCEPT ![p] = @ \ {i}]
            /\ pc'[p] = "watermark" => todo'[p] = {}

\* A step that is none of the others.
Ordinary(w) == Typed' /\ (Aside \/ (w \in Pollers /\ (Ends(w) \/ Advances(w))))

\* Who works where.
LEMMA WorkerSets ==
  /\ Pollers \subseteq Builders /\ Builders \subseteq Workers /\ Writers \subseteq Workers
  /\ Rebuilders \subseteq Builders /\ Readers \subseteq Builders
  BY DEF Builders, Workers

\* Every name of a step is a label.
LEMMA LabelNames ==
  /\ {"idle", "insert", "commit", "syncRead", "syncWrite", "get", "set", "watermark"} \subseteq Labels
  /\ {"lock", "load", "incr", "write", "activate", "unlock"} \subseteq Labels
  BY DEF Labels, Building

\* Goto moves one worker.
LEMMA GotoStep ==
  ASSUME Typed, NEW w \in Workers, NEW l \in Labels, Goto(w, l)
  PROVE  /\ pc' \in [Workers -> Labels] /\ pc'[w] = l
         /\ \A x \in Workers : x # w => pc'[x] = pc[x]
  BY DEF Typed, Goto

\* Forget changes what one worker has read.
LEMMA ForgetStep ==
  ASSUME Typed, NEW w \in Workers, Forget(w)
  PROVE  /\ loaded' \in [Workers -> [Accounts -> Nat]]
         /\ \A x \in Workers : x # w => loaded'[x] = loaded[x]
  <1>1. Zero \in [Accounts -> Nat]
    BY DEF Zero
  <1> QED BY <1>1 DEF Typed, Forget

\* So does a read of the database.
LEMMA ReadStep ==
  ASSUME Typed, NEW w \in Workers, loaded' = [loaded EXCEPT ![w] = db]
  PROVE  /\ loaded' \in [Workers -> [Accounts -> Nat]]
         /\ \A x \in Workers : x # w => loaded'[x] = loaded[x]
  BY DEF Typed

\* A failure is counted.
LEMMA FailsType ==
  ASSUME Typed, NEW failed \in BOOLEAN, Fails(failed)
  PROVE  faults' \in Nat /\ (failed => faults' # 0) /\ (faults' = 0 => faults = 0)
  <1>1. CASE failed
    <2>1. faults' = faults + 1 /\ faults + 1 \in Nat /\ faults + 1 # 0
      BY <1>1 DEF Typed, Fails
    <2> QED BY <2>1
  <1>2. CASE ~failed
    BY <1>2 DEF Typed, Fails
  <1> QED BY <1>1, <1>2

\* A step of one worker that leaves the polls, and the writers that have an id, alone.
LEMMA AsideStep ==
  ASSUME NEW w \in Workers, Others(w), pc'[w] \notin {"commit", "watermark"},
         UNCHANGED <<outbox, watermark, todo, top, handled, target>>
  PROVE  Aside
  BY WorkerSets DEF Aside, Others

\* A poll that is abandoned ends.
LEMMA AbandonStep ==
  ASSUME Typed, NEW p \in Pollers, Abandon(p), Others(p),
         UNCHANGED <<outbox, watermark, handled, target>>
  PROVE  /\ Ends(p) /\ pc' \in [Workers -> Labels]
         /\ todo' \in [Pollers -> SUBSET Nat] /\ top' \in [Pollers -> Nat]
  <1>1. p \in Workers /\ "idle" \in Labels /\ Goto(p, "idle")
    BY WorkerSets, LabelNames DEF Abandon
  <1>2. pc' \in [Workers -> Labels] /\ pc'[p] = "idle"
    BY <1>1, GotoStep
  <1> QED BY <1>2 DEF Abandon, Ends, Typed

\* An event that is handled is no longer to do.
LEMMA HandledStep ==
  ASSUME Typed, NEW p \in Pollers, Handled(p), Others(p),
         UNCHANGED <<outbox, watermark, target, top>>
  PROVE  /\ Advances(p) /\ pc' \in [Workers -> Labels] /\ pc'[p] \in {"watermark", "get"}
         /\ todo' \in [Pollers -> SUBSET Nat] /\ top' \in [Pollers -> Nat]
  <1>1. PICK i : i = Current(p).id
    OBVIOUS
  <1>2. /\ handled' = handled \cup {i} /\ todo' = [todo EXCEPT ![p] = @ \ {i}]
        /\ Goto(p, IF todo'[p] = {} THEN "watermark" ELSE "get")
    BY <1>1 DEF Handled
  <1>3. p \in Workers
    BY WorkerSets
  <1>4. todo' \in [Pollers -> SUBSET Nat]
    BY <1>2 DEF Typed
  <1>5. pc' \in [Workers -> Labels] /\ pc'[p] = IF todo'[p] = {} THEN "watermark" ELSE "get"
    BY <1>2, <1>3, LabelNames DEF Typed, Goto
  <1> QED BY <1>2, <1>4, <1>5 DEF Advances, Typed

\* After a rebuild, or instead of it, a poll goes on or is abandoned.
LEMMA ResumeStep ==
  ASSUME Typed, NEW w \in Builders, NEW failed, Resume(w, failed),
         loaded' = loaded, UNCHANGED <<outbox, watermark, target, db, lastId>>, faults' \in Nat
  PROVE  /\ Ordinary(w) /\ Others(w) /\ pc'[w] \in {"idle", "get", "watermark"}
  <1>1. w \in Workers
    BY WorkerSets
  <1>2. CASE w \in Pollers /\ todo[w] # {} /\ ~failed
    <2>1. Handled(w) /\ UNCHANGED <<top, seen>>
      BY <1>2 DEF Resume
    <2>2. Others(w)
      BY <1>1, <2>1 DEF Handled, Goto, Others, Typed
    <2>3. /\ Advances(w) /\ pc' \in [Workers -> Labels] /\ pc'[w] \in {"watermark", "get"}
          /\ todo' \in [Pollers -> SUBSET Nat] /\ top' \in [Pollers -> Nat]
      BY <1>2, <2>1, <2>2, HandledStep
    <2> QED BY <1>2, <2>2, <2>3 DEF Ordinary, Typed
  <1>3. CASE w \in Pollers /\ todo[w] # {} /\ failed
    <2>1. Abandon(w) /\ UNCHANGED handled
      BY <1>3 DEF Resume
    <2>2. Others(w)
      BY <1>1, <2>1 DEF Abandon, Goto, Others, Typed
    <2>3. /\ Ends(w) /\ pc' \in [Workers -> Labels]
          /\ todo' \in [Pollers -> SUBSET Nat] /\ top' \in [Pollers -> Nat]
      BY <1>3, <2>1, <2>2, AbandonStep
    <2>4. pc'[w] = "idle"
      BY <2>3 DEF Ends
    <2> QED BY <1>3, <2>2, <2>3, <2>4 DEF Ordinary, Typed
  <1>4. CASE ~(w \in Pollers /\ todo[w] # {})
    <2>1. Goto(w, "idle") /\ UNCHANGED <<todo, top, seen, handled>>
      BY <1>4 DEF Resume
    <2>2. /\ pc' \in [Workers -> Labels] /\ pc'[w] = "idle"
          /\ \A x \in Workers : x # w => pc'[x] = pc[x]
      BY <1>1, <2>1, LabelNames, GotoStep
    <2>3. Others(w)
      BY <2>2 DEF Others
    <2>4. Aside
      BY <1>1, <2>1, <2>2, <2>3, AsideStep
    <2> QED BY <2>1, <2>2, <2>3, <2>4 DEF Ordinary, Typed
  <1> QED BY <1>2, <1>3, <1>4

-----------------------------------------------------------------------------
(* The steps that are ordinary *)

\* After its event, or without it, a writer goes on or is done.
LEMMA AnnouncedStep ==
  ASSUME Typed, NEW w \in Workers, Announced(w) \/ Goto(w, "idle") \/ Done(w)
  PROVE  /\ pc' \in [Workers -> Labels] /\ pc'[w] \in {"syncRead", "idle"}
         /\ \A x \in Workers : x # w => pc'[x] = pc[x]
  <1>1. Goto(w, "syncRead") \/ Goto(w, "idle")
    BY DEF Announced, Done
  <1> QED BY <1>1, LabelNames, GotoStep

\* The steps of a writer before and after its event.
LEMMA WriterOrdinary ==
  ASSUME Typed, NEW w \in Writers,
         \/ \E a \in Accounts, k \in Kinds : Change(w, a, k)
         \/ Insert(w) \/ SyncRead(w) \/ SyncWrite(w)
  PROVE  Ordinary(w)
  <1>1. w \in Workers /\ {"insert", "commit", "syncRead", "syncWrite", "idle"} \subseteq Labels
    BY WorkerSets, LabelNames
  <1>2. ASSUME NEW a \in Accounts, NEW k \in Kinds, Change(w, a, k)
        PROVE  Ordinary(w)
    <2>1. db' \in [Accounts -> Nat]
      BY <1>2 DEF Change, Typed
    <2>2. target' \in [Writers -> Accounts] /\ \A x \in Writers : x # w => target'[x] = target[x]
      BY <1>2 DEF Change, Typed
    <2>3. PICK l \in {"insert", "syncRead"} : Goto(w, l)
      BY <1>2 DEF Change
    <2>4. pc' \in [Workers -> Labels] /\ pc'[w] = l /\ \A x \in Workers : x # w => pc'[x] = pc[x]
      BY <1>1, <2>3, GotoStep
    <2>5. UNCHANGED <<outbox, lastId, watermark, loaded, todo, top, handled, faults>>
      BY <1>2 DEF Change, redis
    <2>6. Aside
      <3>1. \A p \in Pollers : pc'[p] = "watermark" => pc[p] = "watermark"
        BY <2>3, <2>4, WorkerSets
      <3>2. \A x \in Writers : pc'[x] = "commit" =>
              pc[x] = "commit" /\ loaded'[x] = loaded[x] /\ target'[x] = target[x]
        BY <2>2, <2>3, <2>4, <2>5, WorkerSets
      <3> QED BY <2>5, <3>1, <3>2 DEF Aside
    <2> QED BY <2>1, <2>2, <2>4, <2>5, <2>6 DEF Ordinary, Typed
  <1>3. CASE Insert(w)
    <2>1. PICK failed \in BOOLEAN, duplicate \in Duplicates(w) :
            /\ Fails(failed)
            /\ CASE failed -> Announced(w) /\ UNCHANGED <<db, lastId, loaded>>
                 [] ~failed /\ duplicate ->
                      /\ db' = IF kind[w].tx THEN [db EXCEPT ![target[w]] = @ + 1] ELSE db
                      /\ Announced(w) /\ UNCHANGED <<lastId, loaded>>
                 [] OTHER ->
                      /\ lastId' = lastId + 1
                      /\ loaded' = [loaded EXCEPT ![w][target[w]] = lastId + 1]
                      /\ Goto(w, "commit") /\ UNCHANGED <<db, kind>>
      BY <1>3 DEF Insert
    <2>2. UNCHANGED <<outbox, watermark, target, todo, top, handled>>
      BY <1>3 DEF Insert, redis
    <2>3. faults' \in Nat
      BY <2>1, FailsType
    <2>4. target[w] \in Accounts /\ lastId + 1 \in Nat \ {0}
      BY DEF Typed
    <2>5. CASE Announced(w) /\ UNCHANGED <<lastId, loaded>> /\ db' \in [Accounts -> Nat]
      <3>1. /\ pc' \in [Workers -> Labels] /\ pc'[w] \in {"syncRead", "idle"}
            /\ \A x \in Workers : x # w => pc'[x] = pc[x]
        BY <1>1, <2>5, AnnouncedStep
      <3>2. Others(w)
        BY <2>5, <3>1 DEF Others
      <3>3. Aside
        BY <1>1, <2>2, <3>1, <3>2, AsideStep
      <3> QED BY <2>2, <2>3, <2>5, <3>1, <3>3 DEF Ordinary, Typed
    <2>6. CASE /\ lastId' = lastId + 1 /\ loaded' = [loaded EXCEPT ![w][target[w]] = lastId + 1]
               /\ Goto(w, "commit") /\ UNCHANGED db
      <3>1. /\ pc' \in [Workers -> Labels] /\ pc'[w] = "commit"
            /\ \A x \in Workers : x # w => pc'[x] = pc[x]
        BY <1>1, <2>6, GotoStep
      <3>2. /\ loaded' \in [Workers -> [Accounts -> Nat]]
            /\ \A x \in Workers : x # w => loaded'[x] = loaded[x]
            /\ loaded'[w][target'[w]] \in Nat \ {0}
        BY <1>1, <2>2, <2>4, <2>6 DEF Typed
      <3>3. Aside
        <4>1. \A p \in Pollers : pc'[p] = "watermark" => pc[p] = "watermark"
          BY <3>1, WorkerSets
        <4>2. \A x \in Writers : pc'[x] = "commit" =>
                \/ loaded'[x][target'[x]] \in Nat \ {0}
                \/ pc[x] = "commit" /\ loaded'[x] = loaded[x] /\ target'[x] = target[x]
          BY <2>2, <3>1, <3>2, WorkerSets
        <4> QED BY <2>2, <4>1, <4>2 DEF Aside
      <3>4. lastId' \in Nat
        BY <2>4, <2>6
      <3> QED BY <2>2, <2>3, <2>6, <3>1, <3>2, <3>3, <3>4 DEF Ordinary, Typed
    <2>7. db \in [Accounts -> Nat] /\ [db EXCEPT ![target[w]] = @ + 1] \in [Accounts -> Nat]
      BY DEF Typed
    <2> QED BY <2>1, <2>5, <2>6, <2>7
  <1>4. CASE SyncRead(w)
    <2>1. PICK failed \in BOOLEAN :
            /\ Fails(failed)
            /\ IF failed THEN Done(w)
               ELSE /\ loaded' = [loaded EXCEPT ![w] = db]
                    /\ Goto(w, "syncWrite") /\ UNCHANGED kind
      BY <1>4 DEF SyncRead
    <2>2. UNCHANGED <<db, outbox, lastId, watermark, target, todo, top, handled>>
      BY <1>4 DEF SyncRead, redis, database
    <2>3. faults' \in Nat
      BY <2>1, FailsType
    <2>4. /\ pc' \in [Workers -> Labels] /\ pc'[w] \in {"idle", "syncWrite", "syncRead"}
          /\ \A x \in Workers : x # w => pc'[x] = pc[x]
      BY <1>1, <2>1, GotoStep, AnnouncedStep
    <2>5. /\ loaded' \in [Workers -> [Accounts -> Nat]]
          /\ \A x \in Workers : x # w => loaded'[x] = loaded[x]
      BY <1>1, <2>1, ForgetStep, ReadStep DEF Done
    <2>6. Others(w)
      BY <2>4, <2>5 DEF Others
    <2>7. Aside
      BY <1>1, <2>2, <2>4, <2>6, AsideStep
    <2> QED BY <2>2, <2>3, <2>4, <2>5, <2>7 DEF Ordinary, Typed
  <1>5. CASE SyncWrite(w)
    <2>1. UNCHANGED <<db, outbox, lastId, watermark, target, todo, top, handled>> /\ Done(w)
      BY <1>5 DEF SyncWrite, database
    <2>2. faults' \in Nat
      BY <1>5, FailsType DEF SyncWrite
    <2>3. /\ pc' \in [Workers -> Labels] /\ pc'[w] \in {"idle", "syncRead"}
          /\ \A x \in Workers : x # w => pc'[x] = pc[x]
      BY <1>1, <2>1, AnnouncedStep
    <2>4. /\ loaded' \in [Workers -> [Accounts -> Nat]]
          /\ \A x \in Workers : x # w => loaded'[x] = loaded[x]
      BY <1>1, <2>1, ForgetStep DEF Done
    <2>5. Others(w)
      BY <2>3, <2>4 DEF Others
    <2>6. Aside
      BY <1>1, <2>1, <2>3, <2>5, AsideStep
    <2> QED BY <2>1, <2>2, <2>3, <2>4, <2>6 DEF Ordinary, Typed
  <1> QED BY <1>2, <1>3, <1>4, <1>5

\* The reads and writes of an event's handler.
LEMMA PollOrdinary ==
  ASSUME Typed, NEW p \in Pollers, Get(p) \/ Set(p)
  PROVE  Ordinary(p)
  <1>1. p \in Workers /\ {"set", "lock"} \subseteq Labels
    BY WorkerSets, LabelNames
  <1>2. CASE Get(p)
    <2>1. PICK failed \in BOOLEAN :
            /\ Fails(failed)
            /\ IF failed THEN Abandon(p) /\ UNCHANGED loaded
               ELSE /\ loaded' = [loaded EXCEPT ![p] = db]
                    /\ Goto(p, "set") /\ UNCHANGED <<todo, top, seen>>
      BY <1>2 DEF Get
    <2>2. UNCHANGED <<db, outbox, lastId, watermark, target, handled>>
      BY <1>2 DEF Get, redis, database
    <2>3. faults' \in Nat
      BY <2>1, FailsType
    <2>4. CASE failed
      <3>1. Abandon(p) /\ UNCHANGED loaded
        BY <2>1, <2>4
      <3>2. Others(p)
        BY <1>1, <3>1 DEF Abandon, Goto, Others, Typed
      <3>3. /\ Ends(p) /\ pc' \in [Workers -> Labels]
            /\ todo' \in [Pollers -> SUBSET Nat] /\ top' \in [Pollers -> Nat]
        BY <2>2, <3>1, <3>2, AbandonStep
      <3> QED BY <2>2, <2>3, <3>1, <3>3 DEF Ordinary, Typed
    <2>5. CASE ~failed
      <3>1. /\ loaded' = [loaded EXCEPT ![p] = db] /\ Goto(p, "set") /\ UNCHANGED <<todo, top>>
        BY <2>1, <2>5
      <3>2. /\ pc' \in [Workers -> Labels] /\ pc'[p] = "set"
            /\ \A x \in Workers : x # p => pc'[x] = pc[x]
        BY <1>1, <3>1, GotoStep
      <3>3. /\ loaded' \in [Workers -> [Accounts -> Nat]]
            /\ \A x \in Workers : x # p => loaded'[x] = loaded[x]
        BY <1>1, <3>1, ReadStep
      <3>4. Others(p)
        BY <3>2, <3>3 DEF Others
      <3>5. Aside
        BY <1>1, <2>2, <3>1, <3>2, <3>4, AsideStep
      <3> QED BY <2>2, <2>3, <3>1, <3>2, <3>3, <3>5 DEF Ordinary, Typed
    <2> QED BY <2>4, <2>5
  <1>3. CASE Set(p)
    <2>1. PICK failed \in BOOLEAN :
            /\ Fails(failed)
            /\ CASE failed            -> Abandon(p) /\ UNCHANGED handled
                 [] ~failed /\ seen[p] -> Handled(p) /\ UNCHANGED <<top, seen>>
                 [] OTHER              -> /\ seen' = [seen EXCEPT ![p] = TRUE]
                                          /\ Goto(p, "lock") /\ UNCHANGED <<todo, top, handled>>
      BY <1>3 DEF Set
    <2>2. UNCHANGED <<db, outbox, lastId, watermark, target>> /\ Forget(p)
      BY <1>3 DEF Set, database
    <2>3. faults' \in Nat
      BY <2>1, FailsType
    <2>4. /\ loaded' \in [Workers -> [Accounts -> Nat]]
          /\ \A x \in Workers : x # p => loaded'[x] = loaded[x]
      BY <1>1, <2>2, ForgetStep
    <2>5. CASE Abandon(p) /\ UNCHANGED handled
      <3>1. Others(p)
        BY <1>1, <2>4, <2>5 DEF Abandon, Goto, Others, Typed
      <3>2. /\ Ends(p) /\ pc' \in [Workers -> Labels]
            /\ todo' \in [Pollers -> SUBSET Nat] /\ top' \in [Pollers -> Nat]
        BY <2>2, <2>5, <3>1, AbandonStep
      <3> QED BY <2>2, <2>3, <2>4, <3>2 DEF Ordinary, Typed
    <2>6. CASE Handled(p) /\ UNCHANGED top
      <3>1. Others(p)
        BY <1>1, <2>4, <2>6 DEF Handled, Goto, Others, Typed
      <3>2. /\ Advances(p) /\ pc' \in [Workers -> Labels]
            /\ todo' \in [Pollers -> SUBSET Nat] /\ top' \in [Pollers -> Nat]
        BY <2>2, <2>6, <3>1, HandledStep
      <3> QED BY <2>2, <2>3, <2>4, <3>2 DEF Ordinary, Typed
    <2>7. CASE Goto(p, "lock") /\ UNCHANGED <<todo, top, handled>>
      <3>1. /\ pc' \in [Workers -> Labels] /\ pc'[p] = "lock"
            /\ \A x \in Workers : x # p => pc'[x] = pc[x]
        BY <1>1, <2>7, GotoStep
      <3>2. Others(p)
        BY <2>4, <3>1 DEF Others
      <3>3. Aside
        BY <1>1, <2>2, <2>7, <3>1, <3>2, AsideStep
      <3> QED BY <2>2, <2>3, <2>4, <2>7, <3>1, <3>3 DEF Ordinary, Typed
    <2> QED BY <2>1, <2>5, <2>6, <2>7
  <1> QED BY <1>2, <1>3

\* What the steps of a rebuild do to its worker: the label changes, and what it has read.
LEMMA BuildStep ==
  ASSUME Typed, NEW w \in Workers, NEW l \in Labels \ {"commit", "watermark"}, Goto(w, l),
         Forget(w) \/ loaded' = loaded \/ loaded' = [loaded EXCEPT ![w] = db],
         UNCHANGED <<db, outbox, lastId, watermark, target, todo, top, handled>>, faults' \in Nat
  PROVE  Ordinary(w) /\ Others(w) /\ pc'[w] = l
  <1>1. /\ pc' \in [Workers -> Labels] /\ pc'[w] = l
        /\ \A x \in Workers : x # w => pc'[x] = pc[x]
    BY GotoStep
  <1>2. /\ loaded' \in [Workers -> [Accounts -> Nat]]
        /\ \A x \in Workers : x # w => loaded'[x] = loaded[x]
    <2>1. CASE loaded' = loaded
      BY <2>1 DEF Typed
    <2> QED BY <2>1, ForgetStep, ReadStep
  <1>3. Others(w)
    BY <1>1, <1>2 DEF Others
  <1>4. Aside
    BY <1>1, <1>3, AsideStep
  <1> QED BY <1>1, <1>2, <1>3, <1>4 DEF Ordinary, Typed

\* The steps of a rebuild, between its beginning and its end.
LEMMA LoadToActivate ==
  ASSUME Typed, NEW w \in Builders, Load(w) \/ Incr(w) \/ Write(w) \/ Activate(w)
  PROVE  /\ Ordinary(w) /\ Others(w) /\ lock' = lock /\ (faults' = 0 => faults = 0)
         /\ pc[w] \in Building \ {"lock"}
  <1>1. w \in Workers /\ {"idle", "unlock", "incr", "write", "activate"} \subseteq Labels \ {"commit", "watermark"}
    BY WorkerSets, LabelNames
  <1>2. /\ UNCHANGED <<db, outbox, lastId, watermark, target, todo, top, handled, lock>>
        /\ pc[w] \in Building \ {"lock"}
    BY DEF Load, Incr, Write, Activate, database, Building
  <1>3. PICK failed \in BOOLEAN : Fails(failed)
    BY DEF Load, Incr, Write, Activate
  <1>4. \E l \in {"idle", "unlock", "incr", "write", "activate"} : Goto(w, l)
    BY DEF Load, Incr, Write, Activate, Quit
  <1>5. Forget(w) \/ loaded' = loaded \/ loaded' = [loaded EXCEPT ![w] = db]
    BY DEF Load, Incr, Write, Activate, Quit
  <1>6. faults' \in Nat /\ (faults' = 0 => faults = 0)
    BY <1>3, FailsType
  <1> QED BY <1>1, <1>2, <1>4, <1>5, <1>6, BuildStep

\* A rebuild begins with the lock, or not at all.
LEMMA LockStep ==
  ASSUME Typed, NEW w \in Builders, Lock(w)
  PROVE  /\ Ordinary(w) /\ Others(w) /\ (faults' = 0 => faults = 0)
         /\ \/ lock = None /\ lock' = w
            \/ lock' = lock /\ pc'[w] \notin Building
  <1>1. w \in Workers /\ "load" \in Labels \ {"commit", "watermark"}
    BY WorkerSets, LabelNames
  <1>2. UNCHANGED <<db, outbox, lastId, watermark, target, loaded>>
    BY DEF Lock, database
  <1>3. PICK failed \in BOOLEAN :
          /\ Fails(failed)
          /\ IF ~failed /\ lock = None
             THEN lock' = w /\ Goto(w, "load") /\ UNCHANGED <<todo, top, seen, handled>>
             ELSE lock' = lock /\ Resume(w, failed)
    BY DEF Lock
  <1>4. faults' \in Nat /\ (faults' = 0 => faults = 0)
    BY <1>3, FailsType
  <1>5. CASE ~failed /\ lock = None
    <2>1. lock' = w /\ Goto(w, "load") /\ UNCHANGED <<todo, top, seen, handled>>
      BY <1>3, <1>5
    <2> QED BY <1>1, <1>2, <1>4, <1>5, <2>1, BuildStep
  <1>6. CASE ~(~failed /\ lock = None)
    <2>1. lock' = lock /\ Resume(w, failed)
      BY <1>3, <1>6
    <2>2. Ordinary(w) /\ Others(w) /\ pc'[w] \in {"idle", "get", "watermark"}
      BY <1>2, <1>4, <2>1, ResumeStep
    <2> QED BY <1>4, <2>1, <2>2 DEF Building
  <1> QED BY <1>5, <1>6

\* A rebuild ends with the deletion of the lock.
LEMMA UnlockStep ==
  ASSUME Typed, NEW w \in Builders, Unlock(w)
  PROVE  /\ Ordinary(w) /\ Others(w) /\ (faults' = 0 => faults = 0)
         /\ pc[w] = "unlock" /\ pc'[w] \notin Building
  <1>1. UNCHANGED <<db, outbox, lastId, watermark, target, loaded>> /\ Resume(w, err[w]) /\ pc[w] = "unlock"
    BY DEF Unlock, database
  <1>2. PICK failed \in BOOLEAN : Fails(failed)
    BY DEF Unlock
  <1>3. faults' \in Nat /\ (faults' = 0 => faults = 0)
    BY <1>2, FailsType
  <1>4. Ordinary(w) /\ Others(w) /\ pc'[w] \in {"idle", "get", "watermark"}
    BY <1>1, <1>3, ResumeStep
  <1> QED BY <1>1, <1>3, <1>4 DEF Building

\* The beginnings of the rebuilds that no event asks for.
LEMMA BeginStep ==
  ASSUME Typed, NEW w \in Builders, FullRebuild(w) \/ Fallback(w)
  PROVE  /\ Ordinary(w) /\ Others(w) /\ lock' = lock /\ (faults' = 0 => faults = 0)
         /\ FullRebuild(w) => pc'[w] = "lock"
         /\ Fallback(w) => faults' # 0
  <1>1. w \in Workers /\ {"lock", "load"} \subseteq Labels \ {"commit", "watermark"}
    BY WorkerSets, LabelNames
  <1>2. UNCHANGED <<db, outbox, lastId, watermark, target, todo, top, handled, loaded, lock>>
    BY DEF FullRebuild, Fallback, database, redis
  <1>3. CASE FullRebuild(w)
    <2>1. Goto(w, "lock") /\ faults' = faults /\ faults \in Nat
      BY <1>3 DEF FullRebuild, bounds, Typed
    <2>2. pc[w] = "idle"
      BY <1>3 DEF FullRebuild
    <2>3. Ordinary(w) /\ Others(w) /\ pc'[w] = "lock"
      BY <1>1, <1>2, <2>1, BuildStep
    <2>4. ~Fallback(w)
      BY <2>1, FailsType DEF Fallback, Fails, Typed
    <2> QED BY <1>2, <2>1, <2>3, <2>4
  <1>4. CASE Fallback(w)
    <2>1. Goto(w, "load") /\ Fails(TRUE)
      BY <1>4 DEF Fallback
    <2>2. faults' \in Nat /\ faults' # 0
      BY <2>1, FailsType
    <2>3. Ordinary(w) /\ Others(w) /\ pc'[w] = "load"
      BY <1>1, <1>2, <2>1, <2>2, BuildStep
    <2>4. ~FullRebuild(w)
      BY <2>1, <2>3, <1>1 DEF FullRebuild, Goto, Typed
    <2> QED BY <1>2, <2>2, <2>3, <2>4
  <1> QED BY <1>3, <1>4

\* A worker that is lost leaves its poll, and its lock, behind.
LEMMA CrashStep ==
  ASSUME Typed, NEW w \in Workers, Crash(w)
  PROVE  /\ Ordinary(w) /\ Others(w) /\ lock' = lock /\ faults' = faults /\ pc'[w] = "idle"
  <1>1. /\ UNCHANGED <<db, outbox, lastId, watermark, target, handled, lock, faults>>
        /\ Goto(w, "idle") /\ Forget(w)
        /\ todo' = IF w \in Pollers THEN [todo EXCEPT ![w] = {}] ELSE todo
        /\ top' = IF w \in Pollers THEN [top EXCEPT ![w] = 0] ELSE top
    BY DEF Crash, database
  <1>2. /\ pc' \in [Workers -> Labels] /\ pc'[w] = "idle"
        /\ \A x \in Workers : x # w => pc'[x] = pc[x]
    BY <1>1, LabelNames, GotoStep
  <1>3. /\ loaded' \in [Workers -> [Accounts -> Nat]]
        /\ \A x \in Workers : x # w => loaded'[x] = loaded[x]
    BY <1>1, ForgetStep
  <1>4. Others(w)
    BY <1>2, <1>3 DEF Others
  <1>5. todo' \in [Pollers -> SUBSET Nat] /\ top' \in [Pollers -> Nat]
    BY <1>1 DEF Typed
  <1>6. Typed'
    BY <1>1, <1>2, <1>3, <1>5 DEF Typed
  <1>7. CASE w \in Pollers
    <2>1. Ends(w)
      BY <1>1, <1>2, <1>4, <1>7 DEF Ends
    <2> QED BY <1>1, <1>2, <1>4, <1>6, <1>7, <2>1 DEF Ordinary
  <1>8. CASE w \notin Pollers
    <2>1. UNCHANGED <<todo, top>>
      BY <1>1, <1>8
    <2>2. Aside
      BY <1>1, <1>2, <1>4, <2>1, AsideStep
    <2> QED BY <1>1, <1>2, <1>4, <1>6, <2>2 DEF Ordinary
  <1> QED BY <1>7, <1>8

-----------------------------------------------------------------------------
(* The invariant of the polls *)

\* An ordinary step of a worker preserves it.
LEMMA OrdinaryInv ==
  ASSUME PollInv, NEW w \in Workers, Ordinary(w)
  PROVE  PollInv'
  <1>1. CASE Aside
    <2>1. Identified' /\ Listed' /\ AtLeastOnce'
      BY <1>1 DEF Aside, PollInv, Identified, Listed, AtLeastOnce
    <2>2. Drawn' /\ Finished'
      BY <1>1 DEF Aside, PollInv, Drawn, Finished
    <2> QED BY <2>1, <2>2 DEF Ordinary, PollInv
  <1>2. CASE w \in Pollers /\ Ends(w)
    <2>1. Identified' /\ AtLeastOnce'
      BY <1>2 DEF Ends, PollInv, Identified, AtLeastOnce
    <2>2. Drawn' /\ Finished'
      BY <1>2, WorkerSets DEF Ends, Others, PollInv, Drawn, Finished, Typed
    <2>3. Listed'
      <3> SUFFICES ASSUME NEW p \in Pollers, NEW e \in outbox, e.id <= top'[p]
                   PROVE  e.id \in todo'[p] \/ e.id \in handled \/ e.late
        BY <1>2 DEF Ends, Listed
      <3>1. CASE p = w
        <4>1. top'[p] = 0
          BY <1>2, <3>1 DEF Ends, PollInv, Typed
        <4>2. e.id \in Nat \ {0}
          BY DEF PollInv, Identified
        <4> QED BY <4>1, <4>2
      <3>2. CASE p # w
        BY <1>2, <3>2 DEF Ends, PollInv, Typed, Listed
      <3> QED BY <3>1, <3>2
    <2> QED BY <2>1, <2>2, <2>3 DEF Ordinary, PollInv
  <1>3. CASE w \in Pollers /\ Advances(w)
    <2>1. PICK i : /\ handled' = handled \cup {i}
                   /\ todo' = [todo EXCEPT ![w] = @ \ {i}]
                   /\ pc'[w] = "watermark" => todo'[w] = {}
      BY <1>3 DEF Advances
    <2>2. Identified' /\ AtLeastOnce'
      BY <1>3, <2>1 DEF Advances, PollInv, Identified, AtLeastOnce
    <2>3. Drawn'
      BY <1>3, WorkerSets DEF Advances, Others, PollInv, Drawn
    <2>4. Finished'
      BY <1>3, <2>1, WorkerSets DEF Advances, Others, PollInv, Finished, Typed
    <2>5. Listed'
      BY <1>3, <2>1 DEF Advances, PollInv, Typed, Listed
    <2> QED BY <2>2, <2>3, <2>4, <2>5 DEF Ordinary, PollInv
  <1> QED BY <1>1, <1>2, <1>3 DEF Ordinary

\* A poll lists what follows the watermark without a gap.
LEMMA PollStepInv ==
  ASSUME PollInv, NEW p \in Pollers, Poll(p)
  PROVE  PollInv' /\ Others(p) /\ lock' = lock /\ faults' = faults /\ pc'[p] = "get"
  <1> DEFINE F == FirstAfter(watermark)
             m == CHOOSE i \in F : \A j \in F : j <= i
  <1>1. /\ F # {} /\ todo' = [todo EXCEPT ![p] = F] /\ top' = [top EXCEPT ![p] = m]
        /\ Goto(p, "get")
        /\ UNCHANGED <<db, outbox, lastId, watermark, lock, target, loaded, handled, faults>>
    BY DEF Poll, database, redis, bounds
  <1>2. p \in Workers /\ watermark \in Nat
    BY WorkerSets DEF PollInv, Typed
  <1>3. /\ F \in SUBSET Nat /\ m \in F /\ \A j \in F : j <= m
        /\ \A i \in F, j \in Visible(watermark) : j <= i => j \in F
    <2>1. /\ F \in SUBSET Nat
          /\ \E i \in F : \A j \in F : j <= i
          /\ \A i \in F, j \in Visible(watermark) : j <= i => j \in F
      BY <1>1, <1>2, FirstAfterFacts DEF PollInv
    <2> HIDE DEF F
    <2> QED BY <2>1
  <1> HIDE DEF F, m
  <1>4. /\ pc' \in [Workers -> Labels] /\ pc'[p] = "get"
        /\ \A x \in Workers : x # p => pc'[x] = pc[x]
    BY <1>1, <1>2, LabelNames, GotoStep DEF PollInv
  <1>5. todo' \in [Pollers -> SUBSET Nat] /\ top' \in [Pollers -> Nat] /\ m \in Nat
    BY <1>1, <1>3 DEF PollInv, Typed
  <1>6. Typed'
    BY <1>1, <1>4, <1>5 DEF PollInv, Typed
  <1>7. Identified' /\ AtLeastOnce'
    BY <1>1 DEF PollInv, Identified, AtLeastOnce
  <1>8. Drawn' /\ Finished'
    BY <1>1, <1>4, WorkerSets DEF PollInv, Drawn, Finished, Typed
  <1>9. Listed'
    <2> SUFFICES ASSUME NEW q \in Pollers, NEW e \in outbox, e.id <= top'[q]
                 PROVE  e.id \in todo'[q] \/ e.id \in handled \/ e.late
      BY <1>1 DEF Listed
    <2>1. CASE q # p
      BY <1>1, <2>1 DEF PollInv, Typed, Listed
    <2>2. CASE q = p
      <3>1. todo'[q] = F /\ top'[q] = m /\ e.id \in Nat
        BY <1>1, <2>2 DEF PollInv, Typed, Identified
      <3>2. CASE e.id <= watermark
        BY <3>2 DEF PollInv, AtLeastOnce
      <3>3. CASE ~(e.id <= watermark)
        <4>1. e.id > watermark
          BY <1>2, <3>1, <3>3
        <4>2. e.id \in Visible(watermark)
          BY <4>1 DEF Visible
        <4> QED BY <1>3, <3>1, <4>2
      <3> QED BY <3>2, <3>3
    <2> QED BY <2>1, <2>2
  <1>10. Others(p)
    BY <1>1, <1>4 DEF Others
  <1> QED BY <1>1, <1>4, <1>6, <1>7, <1>8, <1>9, <1>10 DEF PollInv

\* An event that becomes visible below the watermark, or below a poll's last, is late.
LEMMA CommitInv ==
  ASSUME PollInv, NEW w \in Writers, Commit(w)
  PROVE  PollInv' /\ Others(w) /\ lock' = lock /\ faults' = faults /\ pc'[w] \in {"syncRead", "idle"}
  <1> DEFINE id == loaded[w][target[w]]
             late == id <= watermark \/ \E p \in Pollers : id <= top[p]
             new == Event(id, target[w], db'[target[w]], late)
  <1>1. /\ pc[w] = "commit" /\ outbox' = outbox \cup {new} /\ Forget(w) /\ Announced(w)
        /\ db' = IF kind[w].tx THEN [db EXCEPT ![target[w]] = @ + 1] ELSE db
        /\ UNCHANGED <<lastId, watermark, lock, target, todo, top, handled, faults>>
    BY DEF Commit, redis, bounds
  <1>2. w \in Workers /\ id \in Nat \ {0}
    BY <1>1, WorkerSets DEF PollInv, Drawn
  <1>3. new.id = id /\ new.late = late
    BY DEF Event
  <1> HIDE DEF new, id
  <1>4. /\ pc' \in [Workers -> Labels] /\ pc'[w] \in {"syncRead", "idle"}
        /\ \A x \in Workers : x # w => pc'[x] = pc[x]
    BY <1>1, <1>2, AnnouncedStep DEF PollInv
  <1>5. /\ loaded' \in [Workers -> [Accounts -> Nat]]
        /\ \A x \in Workers : x # w => loaded'[x] = loaded[x]
    BY <1>1, <1>2, ForgetStep DEF PollInv
  <1>6. Others(w)
    BY <1>4, <1>5 DEF Others
  <1>7. db' \in [Accounts -> Nat]
    BY <1>1 DEF PollInv, Typed
  <1>8. Typed'
    BY <1>1, <1>4, <1>5, <1>7 DEF PollInv, Typed
  <1>9. Identified'
    <2>1. IsFiniteSet(outbox')
      BY <1>1, FS_AddElement DEF PollInv, Identified
    <2> QED BY <1>1, <1>2, <1>3, <2>1 DEF PollInv, Identified
  <1>10. Drawn' /\ Finished'
    BY <1>1, <1>4, <1>5, WorkerSets DEF PollInv, Drawn, Finished
  <1>11. Listed' /\ AtLeastOnce'
    BY <1>1, <1>3 DEF PollInv, Listed, AtLeastOnce
  <1> QED BY <1>1, <1>4, <1>6, <1>8, <1>9, <1>10, <1>11 DEF PollInv

\* The watermark moves to the last event of a poll that is done.
LEMMA SetWatermarkInv ==
  ASSUME PollInv, NEW p \in Pollers, SetWatermark(p)
  PROVE  /\ PollInv' /\ Others(p) /\ lock' = lock /\ (faults' = 0 => faults = 0)
         /\ pc'[p] \in {"lock", "idle"}
  <1>1. PICK failed \in BOOLEAN, lagging \in BOOLEAN :
          /\ Fails(failed)
          /\ watermark' = IF failed THEN watermark ELSE top[p]
          /\ IF lagging THEN Goto(p, "lock") ELSE Goto(p, "idle")
    BY DEF SetWatermark
  <1>2. /\ pc[p] = "watermark" /\ top' = [top EXCEPT ![p] = 0]
        /\ UNCHANGED <<db, outbox, lastId, lock, target, loaded, todo, handled>>
    BY DEF SetWatermark, database
  <1>3. faults' \in Nat /\ (faults' = 0 => faults = 0)
    BY <1>1, FailsType DEF PollInv
  <1>4. /\ pc' \in [Workers -> Labels] /\ pc'[p] \in {"lock", "idle"}
        /\ \A x \in Workers : x # p => pc'[x] = pc[x]
    BY <1>1, LabelNames, WorkerSets, GotoStep DEF PollInv
  <1>5. watermark' \in Nat /\ top' \in [Pollers -> Nat]
    BY <1>1, <1>2 DEF PollInv, Typed
  <1>6. Typed'
    BY <1>2, <1>3, <1>4, <1>5 DEF PollInv, Typed
  <1>7. Identified' /\ Drawn' /\ Finished'
    BY <1>2, <1>4, WorkerSets DEF PollInv, Identified, Drawn, Finished
  <1>8. AtLeastOnce'
    <2>1. todo[p] = {}
      BY <1>2 DEF PollInv, Finished
    <2> QED BY <1>1, <1>2, <2>1 DEF PollInv, Listed, AtLeastOnce
  <1>9. Listed'
    <2> SUFFICES ASSUME NEW q \in Pollers, NEW e \in outbox, e.id <= top'[q]
                 PROVE  e.id \in todo[q] \/ e.id \in handled \/ e.late
      BY <1>2 DEF Listed
    <2>1. CASE q = p
      <3>1. top'[q] = 0 /\ e.id \in Nat \ {0}
        BY <1>2, <2>1 DEF PollInv, Typed, Identified
      <3> QED BY <3>1
    <2>2. CASE q # p
      BY <1>2, <2>2 DEF PollInv, Typed, Listed
    <2> QED BY <2>1, <2>2
  <1>10. Others(p)
    BY <1>2, <1>4 DEF Others
  <1> QED BY <1>2, <1>3, <1>4, <1>6, <1>7, <1>8, <1>9, <1>10 DEF PollInv

-----------------------------------------------------------------------------
(* The invariant of the lock *)

\* A step that does not take up a rebuild leaves the lock with its holder.
LEMMA HeldStep ==
  ASSUME Held, NEW w \in Workers, \A x \in Workers : x # w => pc'[x] = pc[x],
         lock' = lock, faults' = 0 => faults = 0,
         pc'[w] \in Building \ {"lock"} => pc[w] \in Building \ {"lock"}
  PROVE  Held'
  BY WorkerSets DEF Held

\* Nothing is said of the lock after a fault.
LEMMA FaultHeld ==
  ASSUME faults' # 0
  PROVE  Held'
  BY DEF Held

\* The steps of writers and pollers have nothing to do with the lock.
LEMMA WriterHeld ==
  ASSUME Typed, NEW w \in Writers,
         \/ \E a \in Accounts, k \in Kinds : Change(w, a, k)
         \/ Insert(w) \/ SyncRead(w) \/ SyncWrite(w)
  PROVE  /\ \A x \in Workers : x # w => pc'[x] = pc[x]
         /\ lock' = lock /\ (faults' = 0 => faults = 0) /\ pc'[w] \notin Building
  <1>1. w \in Workers /\ {"insert", "commit", "syncRead", "syncWrite", "idle"} \subseteq Labels \ Building
    BY WorkerSets, LabelNames DEF Building
  <1>2. PICK l \in {"insert", "commit", "syncRead", "syncWrite", "idle"} : Goto(w, l)
    BY DEF Change, Insert, SyncRead, SyncWrite, Announced, Done
  <1>3. pc'[w] = l /\ \A x \in Workers : x # w => pc'[x] = pc[x]
    BY <1>1, <1>2, GotoStep
  <1>4. lock' = lock
    BY DEF Change, Insert, SyncRead, SyncWrite, redis
  <1>5. faults' = faults \/ \E failed \in BOOLEAN : Fails(failed)
    BY DEF Change, Insert, SyncRead, SyncWrite
  <1>6. faults' = 0 => faults = 0
    BY <1>5, FailsType
  <1> QED BY <1>1, <1>2, <1>3, <1>4, <1>6

\* An event's handler may go on to the lock of the bucket.
LEMMA PollHeld ==
  ASSUME Typed, NEW p \in Pollers, Get(p) \/ Set(p)
  PROVE  /\ \A x \in Workers : x # p => pc'[x] = pc[x]
         /\ lock' = lock /\ (faults' = 0 => faults = 0) /\ pc'[p] \notin Building \ {"lock"}
  <1>1. /\ p \in Workers
        /\ {"set", "lock", "idle", "get", "watermark"} \subseteq Labels \ (Building \ {"lock"})
    BY WorkerSets, LabelNames DEF Building
  <1>2. PICK l \in {"set", "lock", "idle", "get", "watermark"} : Goto(p, l)
    BY DEF Get, Set, Abandon, Handled
  <1>3. pc'[p] = l /\ \A x \in Workers : x # p => pc'[x] = pc[x]
    BY <1>1, <1>2, GotoStep
  <1>4. lock' = lock /\ \E failed \in BOOLEAN : Fails(failed)
    BY DEF Get, Set, redis
  <1>5. faults' = 0 => faults = 0
    BY <1>4, FailsType
  <1> QED BY <1>1, <1>2, <1>3, <1>4, <1>5

\* The steps of a rebuild: who takes the lock finds it free, and who gives it back has it.
LEMMA BuildHeld ==
  ASSUME Typed, Held, NEW w \in Builders, RebuildStep(w)
  PROVE  Held' /\ Ordinary(w)
  <1>1. w \in Workers /\ None \notin Builders
    BY WorkerSets, SchedulerConstants DEF Builders
  <1>2. CASE Load(w) \/ Incr(w) \/ Write(w) \/ Activate(w)
    BY <1>1, <1>2, LoadToActivate, HeldStep DEF Others
  <1>3. CASE Lock(w)
    <2>1. /\ Ordinary(w) /\ (faults' = 0 => faults = 0)
          /\ \A x \in Workers : x # w => pc'[x] = pc[x]
          /\ \/ lock = None /\ lock' = w
             \/ lock' = lock /\ pc'[w] \notin Building
      BY <1>3, LockStep DEF Others
    <2>2. CASE lock = None /\ lock' = w
      BY <1>1, <2>1, <2>2, WorkerSets DEF Held
    <2>3. CASE lock' = lock /\ pc'[w] \notin Building
      BY <1>1, <2>1, <2>3, HeldStep
    <2> QED BY <2>1, <2>2, <2>3
  <1>4. CASE Unlock(w)
    <2>1. /\ Ordinary(w) /\ (faults' = 0 => faults = 0)
          /\ \A x \in Workers : x # w => pc'[x] = pc[x]
          /\ pc[w] = "unlock" /\ pc'[w] \notin Building /\ "unlock" \in Building \ {"lock"}
      BY <1>4, UnlockStep DEF Others, Building
    <2> QED BY <1>1, <2>1, WorkerSets DEF Held
  <1> QED BY <1>2, <1>3, <1>4 DEF RebuildStep

\* The key expires under a rebuild only if that is too slow.
LEMMA LockExpiresInv ==
  ASSUME PollInv, Held, LockExpires
  PROVE  PollInv' /\ Held'
  <1>1. /\ UNCHANGED <<db, outbox, lastId, watermark, target, loaded, todo, top, handled, pc>>
        /\ lock # None /\ lock' = None /\ Fails(pc[lock] \in Building \ {"lock"})
    BY DEF LockExpires, database, locals
  <1>2. /\ faults' \in Nat /\ (faults' = 0 => faults = 0)
        /\ pc[lock] \in Building \ {"lock"} => faults' # 0
    <2>1. CASE pc[lock] \in Building \ {"lock"}
      <3>1. faults' = faults + 1 /\ faults + 1 \in Nat /\ faults + 1 # 0
        BY <1>1, <2>1 DEF Fails, PollInv, Typed
      <3> QED BY <3>1
    <2>2. CASE pc[lock] \notin Building \ {"lock"}
      <3>1. faults' = faults /\ faults \in Nat
        BY <1>1, <2>2 DEF Fails, PollInv, Typed
      <3> QED BY <2>2, <3>1
    <2> QED BY <2>1, <2>2
  <1>3. Typed' /\ Identified' /\ Drawn' /\ Finished' /\ Listed' /\ AtLeastOnce'
    BY <1>1, <1>2 DEF PollInv, Typed, Identified, Drawn, Finished, Listed, AtLeastOnce
  <1>4. Held'
    BY <1>1, <1>2 DEF Held
  <1> QED BY <1>3, <1>4 DEF PollInv

-----------------------------------------------------------------------------
(* The theorems *)

\* Init establishes both invariants.
LEMMA InitInv ==
  ASSUME Init
  PROVE  PollInv /\ Held
  <1>1. /\ db = Zero /\ outbox = {} /\ lastId = 0 /\ watermark = 0 /\ faults = 0
        /\ pc = [w \in Workers |-> "idle"]
        /\ target = [w \in Writers |-> CHOOSE a \in Accounts : TRUE]
        /\ loaded = [w \in Workers |-> Zero]
        /\ todo = [p \in Pollers |-> {}] /\ top = [p \in Pollers |-> 0]
    BY DEF Init
  <1>2. Zero \in [Accounts -> Nat] /\ (CHOOSE a \in Accounts : TRUE) \in Accounts
    BY SchedulerConstants DEF Zero
  <1>3. Typed
    BY <1>1, <1>2, LabelNames DEF Typed
  <1>4. Identified /\ Listed /\ AtLeastOnce
    BY <1>1, FS_EmptySet DEF Identified, Listed, AtLeastOnce
  <1>5. Drawn /\ Finished
    BY <1>1, WorkerSets DEF Drawn, Finished
  <1>6. Held
    BY <1>1, WorkerSets DEF Held, Building
  <1> QED BY <1>3, <1>4, <1>5, <1>6 DEF PollInv

\* Every step preserves them.
LEMMA StepInv ==
  ASSUME PollInv, Held, [Next]_vars
  PROVE  PollInv' /\ Held'
  <1>1. Typed
    BY DEF PollInv
  <1>2. ASSUME NEW w \in Writers,
               WriterStep(w) \/ \E a \in Accounts, k \in Kinds : Change(w, a, k)
        PROVE  PollInv' /\ Held'
    <2>1. w \in Workers
      BY WorkerSets
    <2>2. CASE Commit(w)
      BY <2>1, <2>2, CommitInv, HeldStep DEF Others, Building
    <2>3. CASE \/ \E a \in Accounts, k \in Kinds : Change(w, a, k)
               \/ Insert(w) \/ SyncRead(w) \/ SyncWrite(w)
      BY <1>1, <2>1, <2>3, WriterOrdinary, WriterHeld, OrdinaryInv, HeldStep
    <2> QED BY <1>2, <2>2, <2>3 DEF WriterStep
  <1>3. ASSUME NEW p \in Pollers, PollStep(p)
        PROVE  PollInv' /\ Held'
    <2>1. p \in Workers
      BY WorkerSets
    <2>2. CASE Poll(p)
      BY <2>1, <2>2, PollStepInv, HeldStep DEF Others, Building
    <2>3. CASE SetWatermark(p)
      BY <2>1, <2>3, SetWatermarkInv, HeldStep DEF Others, Building
    <2>4. CASE Get(p) \/ Set(p)
      BY <1>1, <2>1, <2>4, PollOrdinary, PollHeld, OrdinaryInv, HeldStep
    <2> QED BY <1>3, <2>2, <2>3, <2>4 DEF PollStep
  <1>4. ASSUME NEW w \in Builders, FullRebuild(w) \/ Fallback(w)
        PROVE  PollInv' /\ Held'
    <2>1. w \in Workers
      BY WorkerSets
    <2>2. PollInv'
      BY <1>1, <1>4, <2>1, BeginStep, OrdinaryInv
    <2>3. CASE FullRebuild(w)
      <3>1. /\ Others(w) /\ lock' = lock /\ (faults' = 0 => faults = 0) /\ pc'[w] = "lock"
        BY <1>1, <2>3, BeginStep
      <3>2. \A x \in Workers : x # w => pc'[x] = pc[x]
        BY <3>1 DEF Others
      <3>3. pc'[w] \notin Building \ {"lock"}
        BY <3>1
      <3> QED BY <2>1, <2>2, <3>1, <3>2, <3>3, HeldStep
    <2>4. CASE Fallback(w)
      <3>1. faults' # 0
        BY <1>1, <2>4, BeginStep
      <3> QED BY <2>2, <3>1, FaultHeld
    <2> QED BY <1>4, <2>2, <2>3, <2>4
  <1>5. ASSUME NEW w \in Builders, RebuildStep(w)
        PROVE  PollInv' /\ Held'
    BY <1>1, <1>5, BuildHeld, OrdinaryInv, WorkerSets
  <1>6. ASSUME NEW w \in Workers, Crash(w)
        PROVE  PollInv' /\ Held'
    BY <1>1, <1>6, CrashStep, OrdinaryInv, HeldStep DEF Others, Building
  <1>7. CASE UNCHANGED vars
    <2>1. /\ UNCHANGED <<db, outbox, lastId, watermark, target, loaded, todo, top, handled, pc>>
          /\ UNCHANGED <<lock, faults>>
      BY <1>7 DEF vars, database, redis, locals, bounds
    <2>2. Typed' /\ Identified' /\ Drawn' /\ Finished' /\ Listed' /\ AtLeastOnce'
      BY <2>1 DEF PollInv, Typed, Identified, Drawn, Finished, Listed, AtLeastOnce
    <2> QED BY <2>1, <2>2 DEF PollInv, Held
  <1> QED BY <1>2, <1>3, <1>4, <1>5, <1>6, <1>7, LockExpiresInv, WorkerSets DEF Next

\* The invariants of the polls and of the lock.
THEOREM Invariant ==
  Spec => [](PollInv /\ Held)
  <1>1. Init => PollInv /\ Held
    BY InitInv
  <1>2. PollInv /\ Held /\ [Next]_vars => (PollInv /\ Held)'
    BY StepInv
  <1> QED BY <1>1, <1>2, PTL DEF Spec

\* pollOutbox loses no event that was visible when it listed the outbox: the shared
\* watermark passes an event only when its handler has returned nil, with any number of
\* pollers that move the watermark forth and back, and whatever fails or is lost.
THEOREM NoEventLost ==
  Spec => []AtLeastOnce
  <1>1. PollInv /\ Held => AtLeastOnce
    BY DEF PollInv
  <1> QED BY <1>1, Invariant, PTL

\* Without a fault at most one worker is between its read of the accounts and the
\* activation of its snapshot, although UnlockBucket deletes the lock whoever has set it.
THEOREM RebuildsApart ==
  Spec => []OneRebuild
  <1>1. PollInv /\ Held => OneRebuild
    <2> SUFFICES ASSUME Held, faults = 0,
                        NEW v \in Pollers \cup Rebuilders, NEW w \in Pollers \cup Rebuilders,
                        {pc[v], pc[w]} \subseteq Building \ {"lock", "unlock"}
                 PROVE  v = w
      BY DEF OneRebuild
    <2>1. v \in Builders /\ w \in Builders
      BY DEF Builders
    <2> QED BY <2>1 DEF Held
  <1> QED BY <1>1, Invariant, PTL

-----------------------------------------------------------------------------
(* The types: an id or a version is drawn for a change that was begun *)

\* The types by their part of the system: the database and its writers;
DataTypes ==
  /\ db \in Contents /\ lastId \in Ids /\ changes \in 0 .. MaxChanges
  /\ outbox \subseteq [id : Ids, account : Accounts, version : Versions, late : BOOLEAN]
  /\ target \in [Writers -> Accounts] /\ kind \in [Writers -> Kinds \cup {NoKind}]

\* the polls;
PollTypes ==
  /\ watermark \in Ids /\ handled \subseteq Ids
  /\ todo \in [Pollers -> SUBSET Ids] /\ top \in [Pollers -> Ids]
  /\ seen \in [Pollers -> BOOLEAN]

\* the copy and its rebuilds;
CopyTypes ==
  /\ lock \in Builders \cup {None} /\ active \in Contents \cup {None}
  /\ meta \in Contents /\ drawn \in Seq(Builders) /\ err \in [Builders -> BOOLEAN]

\* and the workers.
RunTypes ==
  /\ pc \in [Workers -> Labels] /\ loaded \in [Workers -> Contents]
  /\ faults \in 0 .. MaxFaults /\ crashes \in 0 .. MaxCrashes

Types == DataTypes /\ PollTypes /\ CopyTypes /\ RunTypes

\* The writers that have yet to draw an id, and those whose transaction has yet to
\* change the account.
Inserting == {w \in Writers : pc[w] = "insert"}
Open(a)   == {w \in Writers : pc[w] \in {"insert", "commit"} /\ kind[w].tx /\ target[w] = a}

\* Each of them has begun a change of its own.
Pending ==
  /\ IsFiniteSet(Inserting) /\ lastId + Cardinality(Inserting) <= changes
  /\ \A a \in Accounts : IsFiniteSet(Open(a)) /\ db[a] + Cardinality(Open(a)) <= changes

\* A poll has rows to do, and handles one only while it has one.
Known ==
  \A p \in Pollers :
    /\ todo[p] \subseteq {e.id : e \in outbox}
    /\ pc[p] \in {"get", "set"} => todo[p] # {}

Bounded == Types /\ Pending /\ Known

\* A set of numbers up to a bound has a smallest one.
LEMMA Least ==
  ASSUME NEW n \in Nat, NEW S \in SUBSET (0 .. n), S # {}
  PROVE  \E m \in S : \A j \in S : m <= j
  <1> DEFINE T == {i \in 0 .. n : n - i \in S}
  <1>1. T \in SUBSET (0 .. n) /\ T \in SUBSET Nat
    OBVIOUS
  <1>2. IsFiniteSet(T)
    <2>1. IsFiniteSet(0 .. n)
      BY FS_Interval
    <2> HIDE DEF T
    <2> QED BY <1>1, <2>1, FS_Subset
  <1>3. \A j \in S : n - j \in T
    OBVIOUS
  <1>4. T # {}
    BY <1>3
  <1>5. PICK t \in T : \A j \in T : j <= t
    <2> HIDE DEF T
    <2> QED BY <1>1, <1>2, <1>4, Largest
  <1>6. n - t \in S /\ \A j \in S : n - t <= j
    <2>1. n - t \in S /\ t \in 0 .. n
      BY <1>5
    <2>2. ASSUME NEW j \in S PROVE n - t <= j
      <3>1. n - j <= t /\ j \in 0 .. n
        BY <1>3, <1>5
      <3> QED BY <2>1, <3>1
    <2> QED BY <2>1, <2>2
  <1> QED BY <1>6

\* The first place of an element is one of the sequence's.
LEMMA FirstPlace ==
  ASSUME NEW S, NEW s \in Seq(S), NEW e, Contains(s, e)
  PROVE  /\ {i \in 1 .. Len(s) : s[i] = e} # {}
         /\ Min({i \in 1 .. Len(s) : s[i] = e}) \in 1 .. Len(s)
  <1> DEFINE I == {i \in 1 .. Len(s) : s[i] = e}
  <1>1. Len(s) \in Nat /\ I \in SUBSET (0 .. Len(s)) /\ I # {} /\ I \subseteq 1 .. Len(s)
    BY DEF Contains
  <1>2. Min(I) \in I
    <2> HIDE DEF I
    <2>1. \E m \in I : \A j \in I : m =< j
      BY <1>1, Least
    <2> QED BY <2>1 DEF Min
  <1> QED BY <1>1, <1>2

\* What follows a place, and what precedes it, is a sequence of the same elements.
LEMMA TailFrom ==
  ASSUME NEW S, NEW s \in Seq(S), NEW i \in 1 .. Len(s)
  PROVE  SubSeq(s, i + 1, Len(s)) \in Seq(S) /\ SubSeq(s, 1, i - 1) \in Seq(S)
  <1>1. Len(s) \in Nat /\ \A k \in 1 .. Len(s) : s[k] \in S
    OBVIOUS
  <1> QED BY <1>1, SubSeqProperties

\* So is what is left without one element,
LEMMA Removed ==
  ASSUME NEW S, NEW s \in Seq(S), NEW e
  PROVE  RemoveFirst(s, e) \in Seq(S)
  <1>1. CASE Contains(s, e)
    <2>1. PICK i \in 1 .. Len(s) : i = Min({k \in 1 .. Len(s) : s[k] = e})
      BY <1>1, FirstPlace
    <2>2. RemoveFirst(s, e) = SubSeq(s, 1, i - 1) \o SubSeq(s, i + 1, Len(s))
      BY <1>1, <2>1, FirstPlace DEF RemoveFirst, RemoveAt, Contains, SelectInSeq
    <2> QED BY <2>2, TailFrom, ConcatProperties
  <1>2. CASE ~Contains(s, e)
    BY <1>2 DEF RemoveFirst, Contains
  <1> QED BY <1>1, <1>2

\* and what follows the first place of an element.
LEMMA Later ==
  ASSUME NEW S, NEW s \in Seq(S), NEW e, Contains(s, e)
  PROVE  /\ {i \in 1 .. Len(s) : s[i] = e} # {}
         /\ SubSeq(s, Min({i \in 1 .. Len(s) : s[i] = e}) + 1, Len(s)) \in Seq(S)
  <1>1. PICK i \in 1 .. Len(s) : i = Min({k \in 1 .. Len(s) : s[k] = e})
    BY FirstPlace
  <1>2. SubSeq(s, i + 1, Len(s)) \in Seq(S)
    BY TailFrom
  <1> QED BY <1>1, <1>2, FirstPlace

\* The bounds are numbers; versions and ids are the same ones.
LEMMA BoundFacts ==
  /\ {MaxChanges, MaxFaults, MaxCrashes} \subseteq Nat
  /\ Versions = 0 .. MaxChanges /\ Ids = 0 .. MaxChanges /\ Zero \in Contents
  BY SchedulerConstants DEF Versions, Ids, Zero, Contents

\* What the polls' invariant asks of the types.
LEMMA TypesTyped == Types => Typed
  BY BoundFacts DEF Types, DataTypes, PollTypes, CopyTypes, RunTypes, Typed, Contents

\* A failure stays within the bound.
LEMMA FailsBound ==
  ASSUME Types, NEW failed \in BOOLEAN, Fails(failed)
  PROVE  faults' \in 0 .. MaxFaults
  <1>1. faults \in 0 .. MaxFaults /\ MaxFaults \in Nat
    BY BoundFacts DEF Types, RunTypes
  <1> QED BY <1>1 DEF Fails

\* What a worker reads, or forgets, are versions.
LEMMA LoadedType ==
  ASSUME Types, NEW w \in Workers,
         Forget(w) \/ loaded' = loaded \/ loaded' = [loaded EXCEPT ![w] = db]
  PROVE  loaded' \in [Workers -> Contents]
  BY BoundFacts DEF Types, DataTypes, RunTypes, Forget

\* No step but a writer's adds to what is pending.
LEMMA PendingKept ==
  ASSUME Types, Pending, UNCHANGED <<db, lastId, changes>>,
         \A w \in Writers : pc'[w] \in {"insert", "commit"} =>
           pc'[w] = pc[w] /\ kind'[w] = kind[w] /\ target'[w] = target[w]
  PROVE  Pending'
  <1>1. /\ lastId \in Nat /\ changes \in Nat /\ db \in [Accounts -> Nat]
    BY BoundFacts DEF Types, DataTypes, Contents
  <1>2. PICK I \in SUBSET Inserting : I = Inserting'
    BY DEF Inserting
  <1>3. IsFiniteSet(I) /\ lastId + Cardinality(I) <= changes
    <2>1. IsFiniteSet(Inserting) /\ Cardinality(Inserting) \in Nat
          /\ lastId + Cardinality(Inserting) <= changes
      BY FS_CardinalityType DEF Pending
    <2>2. IsFiniteSet(I) /\ Cardinality(I) <= Cardinality(Inserting)
      BY <2>1, FS_Subset
    <2>3. Cardinality(I) \in Nat
      BY <2>2, FS_CardinalityType
    <2> QED BY <1>1, <2>1, <2>2, <2>3
  <1>4. ASSUME NEW a \in Accounts
        PROVE  IsFiniteSet(Open(a)') /\ db[a] + Cardinality(Open(a)') <= changes
    <2>1. PICK O \in SUBSET Open(a) : O = Open(a)'
      BY DEF Open
    <2>2. IsFiniteSet(Open(a)) /\ Cardinality(Open(a)) \in Nat
          /\ db[a] + Cardinality(Open(a)) <= changes
      BY FS_CardinalityType DEF Pending
    <2>3. IsFiniteSet(O) /\ Cardinality(O) <= Cardinality(Open(a))
      BY <2>2, FS_Subset
    <2>4. Cardinality(O) \in Nat
      BY <2>3, FS_CardinalityType
    <2> QED BY <1>1, <2>1, <2>2, <2>3, <2>4
  <1> QED BY <1>2, <1>3, <1>4 DEF Pending

\* The row a poll has next.
LEMMA CurrentRow ==
  ASSUME Types, Known, NEW p \in Pollers, todo[p] # {}
  PROVE  Current(p) \in outbox /\ Current(p).id \in todo[p] /\ Current(p).id \in Ids
  <1> DEFINE T == todo[p]
  <1>1. T \in SUBSET (0 .. MaxChanges) /\ MaxChanges \in Nat /\ T # {}
    BY BoundFacts DEF Types, PollTypes
  <1>2. \E m \in T : \A j \in T : m <= j
    <2> HIDE DEF T
    <2> QED BY <1>1, Least
  <1>3. Smallest(T) \in T
    <2> HIDE DEF T
    <2> QED BY <1>2 DEF Smallest
  <1>4. \E e \in outbox : e.id = Smallest(todo[p])
    BY <1>3 DEF Known
  <1>5. Current(p) \in outbox /\ Current(p).id = Smallest(todo[p])
    BY <1>4 DEF Current
  <1> QED BY <1>1, <1>3, <1>5, BoundFacts

\* A step of one worker that is not at an event, before or after it, and leaves the
\* database alone.
LEMMA WorkerPending ==
  ASSUME Types, Pending, NEW w \in Workers, pc'[w] \notin {"insert", "commit"},
         \A x \in Workers : x # w => pc'[x] = pc[x],
         UNCHANGED <<db, lastId, changes, target, kind>>
  PROVE  Pending'
  BY PendingKept, WorkerSets

\* A step of one worker that leaves the polls alone.
LEMMA KnownKept ==
  ASSUME Known, NEW w \in Workers, pc'[w] \notin {"get", "set"},
         \A x \in Workers : x # w => pc'[x] = pc[x],
         outbox \subseteq outbox', todo' = todo
  PROVE  Known'
  BY WorkerSets DEF Known

\* The outcomes of an event's handler keep the types of the polls.
LEMMA HandlerTypes ==
  ASSUME Types, Known, NEW p \in Pollers, UNCHANGED <<watermark, outbox>>,
         \/ Abandon(p) /\ UNCHANGED handled
         \/ todo[p] # {} /\ Handled(p) /\ UNCHANGED <<top, seen>>
  PROVE  /\ PollTypes' /\ Known' /\ pc' \in [Workers -> Labels]
         /\ pc'[p] \in {"idle", "get", "watermark"}
         /\ \A x \in Workers : x # p => pc'[x] = pc[x]
  <1>1. Typed /\ p \in Workers /\ {"idle", "get", "watermark"} \subseteq Labels
    BY TypesTyped, WorkerSets, LabelNames
  <1>2. CASE Abandon(p) /\ UNCHANGED handled
    <2>1. /\ pc' \in [Workers -> Labels] /\ pc'[p] = "idle"
          /\ \A x \in Workers : x # p => pc'[x] = pc[x]
      BY <1>1, <1>2, GotoStep DEF Abandon
    <2>2. PollTypes'
      BY <1>2, BoundFacts DEF Abandon, Types, PollTypes
    <2>3. Known'
      BY <1>2, <2>1, WorkerSets DEF Abandon, Known, Types, PollTypes
    <2> QED BY <2>1, <2>2, <2>3
  <1>3. CASE todo[p] # {} /\ Handled(p) /\ UNCHANGED <<top, seen>>
    <2>1. PICK i \in Ids : i = Current(p).id
      BY <1>3, CurrentRow
    <2>2. /\ handled' = handled \cup {i} /\ todo' = [todo EXCEPT ![p] = @ \ {i}]
          /\ Goto(p, IF todo'[p] = {} THEN "watermark" ELSE "get")
      BY <1>3, <2>1 DEF Handled
    <2>3. /\ pc' \in [Workers -> Labels] /\ pc'[p] = (IF todo'[p] = {} THEN "watermark" ELSE "get")
          /\ \A x \in Workers : x # p => pc'[x] = pc[x]
      BY <1>1, <2>2, GotoStep
    <2>4. PollTypes'
      BY <1>3, <2>2 DEF Types, PollTypes
    <2>5. Known'
      BY <2>2, <2>3, WorkerSets DEF Known, Types, PollTypes
    <2> QED BY <2>3, <2>4, <2>5
  <1> QED BY <1>2, <1>3

\* So does the end of a rebuild, or the lack of one.
LEMMA ResumeTypes ==
  ASSUME Types, Known, NEW w \in Builders, NEW failed, Resume(w, failed),
         UNCHANGED <<watermark, outbox>>
  PROVE  /\ PollTypes' /\ Known' /\ pc' \in [Workers -> Labels]
         /\ pc'[w] \in {"idle", "get", "watermark"}
         /\ \A x \in Workers : x # w => pc'[x] = pc[x]
  <1>1. CASE w \in Pollers /\ todo[w] # {}
    <2>1. \/ Abandon(w) /\ UNCHANGED handled
          \/ todo[w] # {} /\ Handled(w) /\ UNCHANGED <<top, seen>>
      BY <1>1 DEF Resume
    <2> QED BY <1>1, <2>1, HandlerTypes
  <1>2. CASE ~(w \in Pollers /\ todo[w] # {})
    <2>1. Goto(w, "idle") /\ UNCHANGED <<todo, top, seen, handled>>
      BY <1>2 DEF Resume
    <2>2. /\ pc' \in [Workers -> Labels] /\ pc'[w] = "idle"
          /\ \A x \in Workers : x # w => pc'[x] = pc[x]
      BY <2>1, TypesTyped, WorkerSets, LabelNames, GotoStep
    <2>3. Known'
      BY <2>1, <2>2, WorkerSets, KnownKept
    <2> QED BY <2>1, <2>2, <2>3 DEF Types, PollTypes
  <1> QED BY <1>1, <1>2

\* The steps of a rebuild, between its beginning and its end.
LEMMA LoadToActivateTypes ==
  ASSUME Bounded, NEW w \in Builders, Load(w) \/ Incr(w) \/ Write(w) \/ Activate(w)
  PROVE  Bounded'
  <1>1. w \in Workers /\ {"idle", "unlock", "incr", "write", "activate"} \subseteq Labels
        /\ Types /\ Typed
    BY WorkerSets, LabelNames, TypesTyped DEF Bounded
  <1>2. /\ UNCHANGED <<database, watermark, lock, target, kind, todo, top, seen, handled>>
        /\ UNCHANGED <<changes, crashes>>
    BY DEF Load, Incr, Write, Activate
  <1>3. PICK l \in {"idle", "unlock", "incr", "write", "activate"} : Goto(w, l)
    BY DEF Load, Incr, Write, Activate, Quit
  <1>4. /\ pc' \in [Workers -> Labels] /\ pc'[w] = l
        /\ \A x \in Workers : x # w => pc'[x] = pc[x]
    BY <1>1, <1>3, GotoStep
  <1>5. loaded' \in [Workers -> Contents]
    BY <1>1, LoadedType DEF Load, Incr, Write, Activate, Quit
  <1>6. faults' \in 0 .. MaxFaults
    BY <1>1, FailsBound DEF Load, Incr, Write, Activate
  <1>7. RunTypes'
    BY <1>1, <1>2, <1>4, <1>5, <1>6 DEF Types, RunTypes
  <1>8. CopyTypes'
    <2>1. CopyTypes /\ loaded[w] \in Contents
      BY <1>1 DEF Types, RunTypes
    <2>2. RemoveFirst(drawn, w) \in Seq(Builders) /\ Append(drawn, w) \in Seq(Builders)
      BY <2>1, Removed DEF CopyTypes
    <2>3. ASSUME Contains(drawn, w), Activate(w)
          PROVE  drawn' \in Seq(Builders)
      <3> DEFINE places == {i \in 1 .. Len(drawn) : drawn[i] = w}
      <3>1. places # {} /\ SubSeq(drawn, Min(places) + 1, Len(drawn)) \in Seq(Builders)
        BY <2>1, <2>3, Later DEF CopyTypes
      <3>2. drawn' \in {RemoveFirst(drawn, w), SubSeq(drawn, Min(places) + 1, Len(drawn))}
        BY <2>3, <3>1 DEF Activate, SelectInSeq
      <3> QED BY <2>2, <3>1, <3>2
    <2>4. drawn' \in Seq(Builders)
      <3>1. CASE ~(Contains(drawn, w) /\ Activate(w))
        <4>1. drawn' \in {drawn, RemoveFirst(drawn, w), Append(drawn, w)}
          BY <3>1 DEF Load, Incr, Write, Activate, Quit
        <4> QED BY <2>1, <2>2, <4>1 DEF CopyTypes
      <3> QED BY <2>3, <3>1
    <2>5. err' \in [Builders -> BOOLEAN]
      <3>1. err' = err \/ \E b \in BOOLEAN : err' = [err EXCEPT ![w] = b]
        BY DEF Load, Incr, Write, Activate, Quit
      <3> QED BY <2>1, <3>1 DEF CopyTypes
    <2>6. active' \in Contents \cup {None} /\ meta' \in Contents
      BY <2>1 DEF Load, Incr, Write, Activate, CopyTypes
    <2> QED BY <1>2, <2>1, <2>4, <2>5, <2>6 DEF CopyTypes
  <1>9. DataTypes' /\ PollTypes'
    BY <1>1, <1>2 DEF database, Types, DataTypes, PollTypes
  <1>10. Pending' /\ Known'
    BY <1>1, <1>2, <1>4, WorkerPending, KnownKept DEF database, Bounded
  <1> QED BY <1>7, <1>8, <1>9, <1>10 DEF Bounded, Types

\* A rebuild begins or is skipped, and ends.
LEMMA LockTypes ==
  ASSUME Bounded, NEW w \in Builders, Lock(w) \/ Unlock(w)
  PROVE  Bounded'
  <1>1. w \in Workers /\ "load" \in Labels /\ Types /\ Typed /\ Known /\ Pending
    BY WorkerSets, LabelNames, TypesTyped DEF Bounded
  <1>2. UNCHANGED <<database, watermark, active, meta, drawn, target, kind, loaded, changes, crashes>>
    BY DEF Lock, Unlock
  <1>3. faults' \in 0 .. MaxFaults
    BY <1>1, FailsBound DEF Lock, Unlock
  <1>4. /\ PollTypes' /\ Known' /\ pc' \in [Workers -> Labels]
        /\ pc'[w] \in {"idle", "get", "watermark", "load"}
        /\ \A x \in Workers : x # w => pc'[x] = pc[x]
    <2>1. CASE \E failed : Resume(w, failed)
      BY <1>1, <1>2, <2>1, ResumeTypes DEF database
    <2>2. CASE Goto(w, "load") /\ UNCHANGED <<todo, top, seen, handled>>
      <3>1. /\ pc' \in [Workers -> Labels] /\ pc'[w] = "load"
            /\ \A x \in Workers : x # w => pc'[x] = pc[x]
        BY <1>1, <2>2, GotoStep
      <3>2. Known'
        BY <1>1, <1>2, <2>2, <3>1, KnownKept DEF database
      <3> QED BY <1>1, <1>2, <2>2, <3>1, <3>2 DEF Types, PollTypes
    <2> QED BY <2>1, <2>2 DEF Lock, Unlock
  <1>5. CopyTypes'
    <2>1. err' = err \/ err' = [err EXCEPT ![w] = FALSE]
      BY DEF Lock, Unlock
    <2>2. lock' \in {lock, w, None}
      BY DEF Lock, Unlock
    <2> QED BY <1>1, <1>2, <2>1, <2>2 DEF Types, CopyTypes
  <1>6. DataTypes' /\ RunTypes'
    BY <1>1, <1>2, <1>3, <1>4 DEF database, Types, DataTypes, RunTypes
  <1>7. Pending'
    BY <1>1, <1>2, <1>4, WorkerPending DEF database
  <1> QED BY <1>4, <1>5, <1>6, <1>7 DEF Bounded, Types

\* The beginnings of rebuilds and of polls, and the end of a poll.
LEMMA BeginTypes ==
  ASSUME Bounded, NEW w \in Builders,
         \/ FullRebuild(w) \/ Fallback(w) \/ (w \in Pollers /\ SetWatermark(w))
  PROVE  Bounded'
  <1>1. /\ w \in Workers /\ {"lock", "load", "idle"} \subseteq Labels
        /\ Types /\ Typed /\ Known /\ Pending
    BY WorkerSets, LabelNames, TypesTyped DEF Bounded
  <1>2. /\ UNCHANGED <<database, lock, active, meta, drawn, target, kind, loaded, todo, err>>
        /\ UNCHANGED <<handled, changes, crashes>>
    BY DEF FullRebuild, Fallback, SetWatermark, redis, bounds
  <1>3. PICK l \in {"lock", "load", "idle"} : Goto(w, l)
    BY DEF FullRebuild, Fallback, SetWatermark
  <1>4. /\ pc' \in [Workers -> Labels] /\ pc'[w] = l
        /\ \A x \in Workers : x # w => pc'[x] = pc[x]
    BY <1>1, <1>3, GotoStep
  <1>5. faults' \in 0 .. MaxFaults
    <2>1. faults' = faults \/ \E failed \in BOOLEAN : Fails(failed)
      BY DEF FullRebuild, Fallback, SetWatermark, bounds
    <2> QED BY <1>1, <2>1, FailsBound DEF Types, RunTypes
  <1>6. PollTypes'
    <2>1. CASE w \in Pollers /\ SetWatermark(w)
      BY <1>1, <1>2, <2>1, BoundFacts DEF SetWatermark, Types, PollTypes
    <2>2. CASE FullRebuild(w) \/ Fallback(w)
      BY <1>1, <1>2, <2>2 DEF FullRebuild, Fallback, redis, Types, PollTypes
    <2> QED BY <2>1, <2>2
  <1>7. DataTypes' /\ CopyTypes' /\ RunTypes'
    BY <1>1, <1>2, <1>4, <1>5 DEF database, Types, DataTypes, CopyTypes, RunTypes
  <1>8. Pending' /\ Known'
    BY <1>1, <1>2, <1>4, WorkerPending, KnownKept DEF database
  <1> QED BY <1>6, <1>7, <1>8 DEF Bounded, Types

\* A poll lists ids of visible rows, and remembers the last of them.
LEMMA PollBegins ==
  ASSUME Bounded, Identified, NEW p \in Pollers, Poll(p)
  PROVE  Bounded'
  <1> DEFINE F == FirstAfter(watermark)
             m == CHOOSE i \in F : \A j \in F : j <= i
  <1>1. /\ F # {} /\ todo' = [todo EXCEPT ![p] = F] /\ top' = [top EXCEPT ![p] = m]
        /\ Goto(p, "get")
        /\ UNCHANGED <<database, redis, target, kind, loaded, seen, err, handled, bounds>>
    BY DEF Poll
  <1>2. p \in Workers /\ Types /\ Typed /\ Known /\ Pending /\ watermark \in Nat
    BY WorkerSets, TypesTyped DEF Bounded, Typed
  <1>3. F \in SUBSET {e.id : e \in outbox} /\ F \in SUBSET Ids
    BY <1>2 DEF FirstAfter, Visible, Types, DataTypes
  <1>4. m \in F
    <2>1. \E i \in F : \A j \in F : j <= i
      BY <1>1, <1>2, FirstAfterFacts
    <2> HIDE DEF F
    <2> QED BY <2>1
  <1> HIDE DEF F, m
  <1>5. /\ pc' \in [Workers -> Labels] /\ pc'[p] = "get"
        /\ \A x \in Workers : x # p => pc'[x] = pc[x]
    BY <1>1, <1>2, LabelNames, GotoStep
  <1>6. PollTypes'
    BY <1>1, <1>2, <1>3, <1>4 DEF redis, Types, PollTypes
  <1>7. DataTypes' /\ CopyTypes' /\ RunTypes'
    BY <1>1, <1>2, <1>5 DEF database, redis, bounds, Types, DataTypes, CopyTypes, RunTypes
  <1>8. Known'
    BY <1>1, <1>2, <1>3, <1>5, WorkerSets DEF Known, database, Types, PollTypes
  <1>9. Pending'
    BY <1>1, <1>2, <1>5, WorkerPending DEF database, bounds
  <1> QED BY <1>6, <1>7, <1>8, <1>9 DEF Bounded, Types

\* The handler of an event.
LEMMA EventTypes ==
  ASSUME Bounded, NEW p \in Pollers, Get(p) \/ Set(p)
  PROVE  Bounded'
  <1>1. /\ p \in Workers /\ {"set", "lock"} \subseteq Labels
        /\ Types /\ Typed /\ Known /\ Pending /\ todo[p] # {}
    BY WorkerSets, LabelNames, TypesTyped DEF Bounded, Known, Get, Set
  <1>2. /\ UNCHANGED <<database, watermark, lock, active, drawn, target, kind, err, changes, crashes>>
    BY DEF Get, Set, redis
  <1>3. faults' \in 0 .. MaxFaults
    BY <1>1, FailsBound DEF Get, Set
  <1>4. loaded' \in [Workers -> Contents]
    BY <1>1, LoadedType DEF Get, Set
  <1>5. /\ PollTypes' /\ Known' /\ pc' \in [Workers -> Labels]
        /\ pc'[p] \notin {"insert", "commit"}
        /\ \A x \in Workers : x # p => pc'[x] = pc[x]
    <2>1. CASE \/ Abandon(p) /\ UNCHANGED handled
               \/ Handled(p) /\ UNCHANGED <<top, seen>>
      <3>1. /\ PollTypes' /\ Known' /\ pc' \in [Workers -> Labels]
            /\ pc'[p] \in {"idle", "get", "watermark"}
            /\ \A x \in Workers : x # p => pc'[x] = pc[x]
        BY <1>1, <1>2, <2>1, HandlerTypes DEF database
      <3> QED BY <3>1
    <2>2. CASE /\ \E l \in {"set", "lock"} : Goto(p, l)
               /\ seen' = seen \/ seen' = [seen EXCEPT ![p] = TRUE]
               /\ UNCHANGED <<todo, top, handled>>
      <3>1. /\ pc' \in [Workers -> Labels] /\ pc'[p] \in {"set", "lock"}
            /\ \A x \in Workers : x # p => pc'[x] = pc[x]
        BY <1>1, <2>2, GotoStep
      <3>2. Known'
        BY <1>1, <1>2, <2>2, <3>1, WorkerSets DEF Known, database
      <3> QED BY <1>1, <1>2, <2>2, <3>1, <3>2 DEF Types, PollTypes
    <2>3. CASE Get(p)
      BY <2>1, <2>2, <2>3 DEF Get
    <2>4. CASE Set(p)
      BY <2>1, <2>2, <2>4 DEF Set
    <2> QED BY <2>3, <2>4
  <1>6. CopyTypes'
    <2>1. meta \in Contents /\ loaded[p] \in Contents /\ Current(p).account \in Accounts
      BY <1>1, CurrentRow DEF Types, DataTypes, CopyTypes, RunTypes
    <2>2. meta' \in {meta, [meta EXCEPT ![Current(p).account] = loaded[p][Current(p).account]]}
      BY DEF Get, Set, redis
    <2>3. meta' \in Contents
      BY <2>1, <2>2 DEF Contents
    <2> QED BY <1>1, <1>2, <2>3 DEF Types, CopyTypes
  <1>7. DataTypes' /\ RunTypes'
    BY <1>1, <1>2, <1>3, <1>4, <1>5 DEF database, Types, DataTypes, RunTypes
  <1>8. Pending'
    BY <1>1, <1>2, <1>5, WorkerPending DEF database
  <1> QED BY <1>5, <1>6, <1>7, <1>8 DEF Bounded, Types

\* A worker that is lost, and a key that expires.
LEMMA CrashTypes ==
  ASSUME Bounded, LockExpires \/ \E w \in Workers : Crash(w)
  PROVE  Bounded'
  <1>1. Types /\ Typed /\ Known /\ Pending
    BY TypesTyped DEF Bounded
  <1>2. CASE LockExpires
    <2>1. /\ UNCHANGED <<database, watermark, active, meta, drawn, locals, handled, changes, crashes>>
          /\ lock' = None /\ Fails(pc[lock] \in Building \ {"lock"})
      BY <1>2 DEF LockExpires
    <2>2. faults' \in 0 .. MaxFaults
      <3>1. faults' = faults \/ (faults < MaxFaults /\ faults' = faults + 1)
        BY <2>1 DEF Fails
      <3> QED BY <1>1, <3>1, BoundFacts DEF Types, RunTypes
    <2>3. Types'
      BY <1>1, <2>1, <2>2 DEF database, locals, Types, DataTypes, PollTypes, CopyTypes, RunTypes
    <2>4. Known' /\ Pending'
      BY <1>1, <2>1, PendingKept DEF database, locals, Known
    <2> QED BY <2>3, <2>4 DEF Bounded
  <1>3. ASSUME NEW w \in Workers, Crash(w)
        PROVE  Bounded'
    <2>1. /\ UNCHANGED <<database, watermark, lock, active, meta, target, handled, changes, faults>>
          /\ crashes < MaxCrashes /\ crashes' = crashes + 1 /\ Goto(w, "idle") /\ Forget(w)
          /\ drawn' = RemoveFirst(drawn, w)
          /\ err' = (IF w \in Builders THEN [err EXCEPT ![w] = FALSE] ELSE err)
          /\ kind' = (IF w \in Writers THEN [kind EXCEPT ![w] = NoKind] ELSE kind)
      BY <1>3 DEF Crash
    <2>2. /\ todo' = (IF w \in Pollers THEN [todo EXCEPT ![w] = {}] ELSE todo)
          /\ top' = (IF w \in Pollers THEN [top EXCEPT ![w] = 0] ELSE top)
          /\ seen' = (IF w \in Pollers THEN [seen EXCEPT ![w] = FALSE] ELSE seen)
      BY <1>3 DEF Crash
    <2>3. /\ pc' \in [Workers -> Labels] /\ pc'[w] = "idle"
          /\ \A x \in Workers : x # w => pc'[x] = pc[x]
      BY <1>1, <2>1, LabelNames, GotoStep
    <2>4. loaded' \in [Workers -> Contents]
      BY <1>1, <2>1, LoadedType
    <2>5. RunTypes'
      BY <1>1, <2>1, <2>3, <2>4, BoundFacts DEF Types, RunTypes
    <2>6. CopyTypes'
      BY <1>1, <2>1, Removed DEF Types, CopyTypes
    <2>7. PollTypes'
      BY <1>1, <2>1, <2>2, BoundFacts DEF Types, PollTypes
    <2>8. DataTypes'
      BY <1>1, <2>1 DEF database, Types, DataTypes
    <2>9. Known'
      BY <1>1, <2>1, <2>2, <2>3, WorkerSets DEF database, Known, Types, PollTypes
    <2>10. Pending'
      <3>1. \A x \in Writers : x # w => kind'[x] = kind[x]
        BY <1>1, <2>1 DEF Types, DataTypes
      <3> QED BY <1>1, <2>1, <2>3, <3>1, WorkerSets, PendingKept DEF database
    <2> QED BY <2>5, <2>6, <2>7, <2>8, <2>9, <2>10 DEF Bounded, Types
  <1> QED BY <1>2, <1>3

-----------------------------------------------------------------------------
\* A set that gains one element at most.
LEMMA OneMore ==
  ASSUME NEW S, NEW T, NEW x, IsFiniteSet(S), T \subseteq S \cup {x}
  PROVE  /\ IsFiniteSet(T) /\ Cardinality(S) \in Nat /\ Cardinality(T) \in Nat
         /\ Cardinality(T) <= Cardinality(S) + 1
  <1>1. IsFiniteSet(S \cup {x}) /\ Cardinality(S \cup {x}) \in {Cardinality(S), Cardinality(S) + 1}
    BY FS_AddElement
  <1>2. IsFiniteSet(T) /\ Cardinality(T) <= Cardinality(S \cup {x})
    BY <1>1, FS_Subset
  <1>3. Cardinality(S) \in Nat /\ Cardinality(T) \in Nat
    BY <1>2, FS_CardinalityType
  <1> QED BY <1>1, <1>2, <1>3

\* A set that loses one element at least.
LEMMA OneLess ==
  ASSUME NEW S, NEW T, NEW x \in S, IsFiniteSet(S), T \subseteq S \ {x}
  PROVE  /\ IsFiniteSet(T) /\ Cardinality(S) \in Nat /\ Cardinality(T) \in Nat
         /\ Cardinality(T) + 1 <= Cardinality(S)
  <1>1. IsFiniteSet(S \ {x}) /\ Cardinality(S \ {x}) = Cardinality(S) - 1
    BY FS_RemoveElement
  <1>2. IsFiniteSet(T) /\ Cardinality(T) <= Cardinality(S \ {x})
    BY <1>1, FS_Subset
  <1>3. Cardinality(S) \in Nat /\ Cardinality(T) \in Nat
    BY <1>2, FS_CardinalityType
  <1> QED BY <1>1, <1>2, <1>3

\* A change begins: its id and, in a transaction, its effect are still to come.
LEMMA ChangeTypes ==
  ASSUME Bounded, NEW w \in Writers, NEW a \in Accounts, NEW k \in Kinds, Change(w, a, k)
  PROVE  Bounded'
  <1>1. /\ w \in Workers /\ {"insert", "syncRead"} \subseteq Labels
        /\ Types /\ Typed /\ Known /\ Pending
    BY WorkerSets, LabelNames, TypesTyped DEF Bounded
  <1>2. /\ pc[w] = "idle" /\ changes < MaxChanges /\ changes' = changes + 1
        /\ db' = (IF k.tx THEN db ELSE [db EXCEPT ![a] = @ + 1])
        /\ target' = [target EXCEPT ![w] = a] /\ kind' = [kind EXCEPT ![w] = k]
        /\ Goto(w, IF k.event THEN "insert" ELSE "syncRead")
        /\ UNCHANGED <<outbox, lastId, redis, loaded, todo, top, seen, err, handled, faults, crashes>>
    BY DEF Change
  <1>3. /\ changes \in Nat /\ MaxChanges \in Nat /\ lastId \in Nat /\ db \in [Accounts -> Nat]
        /\ target \in [Writers -> Accounts] /\ kind \in [Writers -> Kinds \cup {NoKind}]
        /\ \A b \in Accounts : db[b] <= changes
    <2>1. /\ changes \in Nat /\ MaxChanges \in Nat /\ lastId \in Nat /\ db \in [Accounts -> Nat]
          /\ target \in [Writers -> Accounts] /\ kind \in [Writers -> Kinds \cup {NoKind}]
      BY <1>1, BoundFacts DEF Types, DataTypes, Contents
    <2>2. ASSUME NEW b \in Accounts PROVE db[b] <= changes
      <3>1. Cardinality(Open(b)) \in Nat /\ db[b] + Cardinality(Open(b)) <= changes
        BY <1>1, FS_CardinalityType DEF Pending
      <3> QED BY <2>1, <3>1
    <2> QED BY <2>1, <2>2
  <1>4. PICK l \in {"insert", "syncRead"} : Goto(w, l)
    BY <1>2
  <1>5. /\ pc' \in [Workers -> Labels] /\ pc'[w] = l
        /\ \A x \in Workers : x # w => pc'[x] = pc[x]
    BY <1>1, <1>4, GotoStep
  <1>6. db' \in Contents /\ changes' \in 0 .. MaxChanges
    BY <1>1, <1>2, <1>3, BoundFacts DEF Types, DataTypes, Contents
  <1>7. DataTypes' /\ PollTypes' /\ CopyTypes' /\ RunTypes'
    BY <1>1, <1>2, <1>5, <1>6 DEF redis, Types, DataTypes, PollTypes, CopyTypes, RunTypes
  <1>8. Known'
    BY <1>1, <1>2, <1>5, KnownKept
  <1>9. \A x \in Writers : x # w => pc'[x] = pc[x] /\ kind'[x] = kind[x] /\ target'[x] = target[x]
    BY <1>2, <1>3, <1>5, WorkerSets
  <1>10. IsFiniteSet(Inserting') /\ lastId' + Cardinality(Inserting') <= changes'
    <2>1. Inserting' \subseteq Inserting \cup {w}
      BY <1>9 DEF Inserting
    <2>2. /\ IsFiniteSet(Inserting') /\ Cardinality(Inserting) \in Nat /\ Cardinality(Inserting') \in Nat
          /\ Cardinality(Inserting') <= Cardinality(Inserting) + 1
      BY <1>1, <2>1, OneMore DEF Pending
    <2>3. lastId + Cardinality(Inserting) <= changes
      BY <1>1 DEF Pending
    <2> QED BY <1>2, <1>3, <2>2, <2>3
  <1>11. ASSUME NEW b \in Accounts
         PROVE  IsFiniteSet(Open(b)') /\ db'[b] + Cardinality(Open(b)') <= changes'
    <2>1. IsFiniteSet(Open(b)) /\ db[b] + Cardinality(Open(b)) <= changes
      BY <1>1 DEF Pending
    <2>2. CASE k.tx
      <3>1. PICK O \in SUBSET (Open(b) \cup {w}) : O = Open(b)'
        BY <1>9 DEF Open
      <3>2. /\ IsFiniteSet(O) /\ Cardinality(Open(b)) \in Nat /\ Cardinality(O) \in Nat
            /\ Cardinality(O) <= Cardinality(Open(b)) + 1
        BY <2>1, OneMore
      <3>3. db'[b] = db[b] /\ db[b] \in Nat
        BY <1>2, <1>3, <2>2
      <3> QED BY <1>2, <1>3, <2>1, <3>1, <3>2, <3>3
    <2>3. CASE ~k.tx
      <3>1. PICK O \in SUBSET Open(b) : O = Open(b)'
        BY <1>2, <1>3, <1>9, <2>3 DEF Open
      <3>2. /\ IsFiniteSet(O) /\ Cardinality(O) <= Cardinality(Open(b))
        BY <2>1, FS_Subset
      <3>3. Cardinality(Open(b)) \in Nat /\ Cardinality(O) \in Nat
        BY <2>1, <3>2, FS_CardinalityType
      <3>4. db'[b] <= db[b] + 1 /\ db'[b] \in Nat /\ db[b] \in Nat
        BY <1>2, <1>3, <2>3
      <3> QED BY <1>2, <1>3, <2>1, <3>1, <3>2, <3>3, <3>4
    <2> QED BY <2>2, <2>3
  <1> QED BY <1>7, <1>8, <1>10, <1>11 DEF Bounded, Types, Pending

\* A writer's transaction takes effect, and no longer has to.
LEMMA EffectPending ==
  ASSUME Types, Pending, NEW w \in Writers, pc[w] \in {"insert", "commit"},
         db' = (IF kind[w].tx THEN [db EXCEPT ![target[w]] = @ + 1] ELSE db),
         pc'[w] \in {"syncRead", "idle"},
         \A x \in Workers : x # w => pc'[x] = pc[x],
         \A x \in Writers : x # w => kind'[x] = kind[x],
         UNCHANGED <<lastId, changes, target>>
  PROVE  Pending' /\ db' \in Contents
  <1>1. /\ changes \in 0 .. MaxChanges /\ MaxChanges \in Nat /\ lastId \in Nat
        /\ db \in [Accounts -> Nat] /\ target[w] \in Accounts
    BY BoundFacts DEF Types, DataTypes, Contents
  <1>2. IsFiniteSet(Inserting') /\ lastId + Cardinality(Inserting') <= changes
    <2>1. PICK I \in SUBSET Inserting : I = Inserting'
      BY WorkerSets DEF Inserting
    <2>2. IsFiniteSet(Inserting) /\ lastId + Cardinality(Inserting) <= changes
      BY DEF Pending
    <2>3. IsFiniteSet(I) /\ Cardinality(I) <= Cardinality(Inserting)
      BY <2>2, FS_Subset
    <2>4. Cardinality(I) \in Nat /\ Cardinality(Inserting) \in Nat
      BY <2>2, <2>3, FS_CardinalityType
    <2> QED BY <1>1, <2>1, <2>2, <2>3, <2>4
  <1>3. ASSUME NEW a \in Accounts
        PROVE  IsFiniteSet(Open(a)') /\ db'[a] + Cardinality(Open(a)') <= changes /\ db'[a] \in Nat
               /\ db'[a] <= changes
    <2>1. IsFiniteSet(Open(a)) /\ db[a] + Cardinality(Open(a)) <= changes /\ db[a] \in Nat
      BY <1>1 DEF Pending
    <2>2. PICK O \in SUBSET (Open(a) \ {w}) : O = Open(a)'
      BY WorkerSets DEF Open
    <2>3. CASE kind[w].tx /\ a = target[w]
      <3>1. w \in Open(a)
        BY <2>3 DEF Open
      <3>2. /\ IsFiniteSet(O) /\ Cardinality(Open(a)) \in Nat /\ Cardinality(O) \in Nat
            /\ Cardinality(O) + 1 <= Cardinality(Open(a))
        BY <2>1, <3>1, OneLess
      <3>3. db'[a] = db[a] + 1
        BY <1>1, <2>3
      <3> QED BY <1>1, <2>1, <2>2, <3>2, <3>3
    <2>4. CASE ~(kind[w].tx /\ a = target[w])
      <3>1. /\ IsFiniteSet(O) /\ Cardinality(O) <= Cardinality(Open(a))
        BY <2>1, FS_Subset
      <3>2. Cardinality(Open(a)) \in Nat /\ Cardinality(O) \in Nat
        BY <2>1, <3>1, FS_CardinalityType
      <3>3. db'[a] = db[a]
        BY <1>1, <2>4
      <3> QED BY <1>1, <2>1, <2>2, <3>1, <3>2, <3>3
    <2> QED BY <2>3, <2>4
  <1>4. db' \in Contents
    <2>1. \A a \in Accounts : db'[a] \in Versions
      BY <1>1, <1>3, BoundFacts
    <2>2. db' = [a \in Accounts |-> db'[a]]
      BY <1>1
    <2> QED BY <2>1, <2>2 DEF Contents
  <1> QED BY <1>2, <1>3, <1>4 DEF Pending

\* A writer's event: none, an old one, or a new id.
LEMMA InsertTypes ==
  ASSUME Bounded, NEW w \in Writers, Insert(w)
  PROVE  Bounded'
  <1>1. /\ w \in Workers /\ "commit" \in Labels /\ pc[w] = "insert"
        /\ Types /\ Typed /\ Known /\ Pending
    BY WorkerSets, LabelNames, TypesTyped DEF Bounded, Insert
  <1>2. /\ UNCHANGED <<outbox, redis, target, todo, top, seen, err, handled, changes, crashes>>
    BY DEF Insert
  <1>3. PICK failed \in BOOLEAN, duplicate \in Duplicates(w) :
          /\ Fails(failed)
          /\ CASE failed -> Announced(w) /\ UNCHANGED <<db, lastId, loaded>>
               [] ~failed /\ duplicate ->
                    /\ db' = IF kind[w].tx THEN [db EXCEPT ![target[w]] = @ + 1] ELSE db
                    /\ Announced(w) /\ UNCHANGED <<lastId, loaded>>
               [] OTHER ->
                    /\ lastId' = lastId + 1
                    /\ loaded' = [loaded EXCEPT ![w][target[w]] = lastId + 1]
                    /\ Goto(w, "commit") /\ UNCHANGED <<db, kind>>
    BY DEF Insert
  <1>4. faults' \in 0 .. MaxFaults
    BY <1>1, <1>3, FailsBound
  <1>5. ASSUME Announced(w), UNCHANGED <<lastId, loaded>>,
               db' \in {db, IF kind[w].tx THEN [db EXCEPT ![target[w]] = @ + 1] ELSE db}
        PROVE  Bounded'
    <2>1. /\ pc' \in [Workers -> Labels] /\ pc'[w] \in {"syncRead", "idle"}
          /\ \A x \in Workers : x # w => pc'[x] = pc[x]
      BY <1>1, <1>5, AnnouncedStep
    <2>2. /\ kind' \in [Writers -> Kinds \cup {NoKind}]
          /\ \A x \in Writers : x # w => kind'[x] = kind[x]
      BY <1>1, <1>5 DEF Announced, Types, DataTypes
    <2>3. Pending' /\ db' \in Contents
      <3>1. CASE db' = db
        BY <1>1, <1>2, <1>5, <2>1, <2>2, <3>1, WorkerSets, PendingKept DEF Types, DataTypes
      <3>2. CASE db' = (IF kind[w].tx THEN [db EXCEPT ![target[w]] = @ + 1] ELSE db)
        BY <1>1, <1>2, <1>5, <2>1, <2>2, <3>2, EffectPending
      <3> QED BY <1>5, <3>1, <3>2
    <2>4. Types'
      BY <1>1, <1>2, <1>4, <1>5, <2>1, <2>2, <2>3
         DEF redis, Types, DataTypes, PollTypes, CopyTypes, RunTypes
    <2>5. Known'
      BY <1>1, <1>2, <2>1, KnownKept
    <2> QED BY <2>3, <2>4, <2>5 DEF Bounded
  <1>6. ASSUME lastId' = lastId + 1, loaded' = [loaded EXCEPT ![w][target[w]] = lastId + 1],
               Goto(w, "commit"), UNCHANGED <<db, kind>>
        PROVE  Bounded'
    <2>1. /\ pc' \in [Workers -> Labels] /\ pc'[w] = "commit"
          /\ \A x \in Workers : x # w => pc'[x] = pc[x]
      BY <1>1, <1>6, GotoStep
    <2>2. /\ changes \in 0 .. MaxChanges /\ MaxChanges \in Nat /\ lastId \in Nat
      BY <1>1, BoundFacts DEF Types, DataTypes
    <2>3. IsFiniteSet(Inserting') /\ lastId' + Cardinality(Inserting') <= changes /\ lastId' <= changes
      <3>1. PICK I \in SUBSET (Inserting \ {w}) : I = Inserting'
        BY <2>1, WorkerSets DEF Inserting
      <3>2. w \in Inserting
        BY <1>1 DEF Inserting
      <3>3. IsFiniteSet(Inserting) /\ lastId + Cardinality(Inserting) <= changes
        BY <1>1 DEF Pending
      <3>4. /\ IsFiniteSet(I) /\ Cardinality(Inserting) \in Nat /\ Cardinality(I) \in Nat
            /\ Cardinality(I) + 1 <= Cardinality(Inserting)
        BY <3>2, <3>3, OneLess
      <3> QED BY <1>6, <2>2, <3>1, <3>3, <3>4
    <2>4. \A a \in Accounts : Open(a)' = Open(a)
      BY <1>1, <1>2, <1>6, <2>1, WorkerSets DEF Open
    <2>5. Pending'
      BY <1>1, <1>2, <1>6, <2>3, <2>4 DEF Pending
    <2>6. lastId' \in Ids /\ lastId + 1 \in Versions
      BY <1>6, <2>2, <2>3, BoundFacts
    <2>7. loaded' \in [Workers -> Contents]
      BY <1>1, <1>6, <2>6 DEF Types, RunTypes, Contents
    <2>8. Types'
      BY <1>1, <1>2, <1>4, <1>6, <2>1, <2>6, <2>7
         DEF redis, Types, DataTypes, PollTypes, CopyTypes, RunTypes
    <2>9. Known'
      BY <1>1, <1>2, <2>1, KnownKept
    <2> QED BY <2>5, <2>8, <2>9 DEF Bounded
  <1>7. CASE failed
    BY <1>3, <1>5, <1>7
  <1>8. CASE ~failed /\ duplicate
    BY <1>3, <1>5, <1>8
  <1>9. CASE ~failed /\ ~duplicate
    BY <1>3, <1>6, <1>9
  <1> QED BY <1>7, <1>8, <1>9

\* The transaction of an event is committed.
LEMMA CommitTypes ==
  ASSUME Bounded, NEW w \in Writers, Commit(w)
  PROVE  Bounded'
  <1> DEFINE id == loaded[w][target[w]]
             late == id <= watermark \/ \E p \in Pollers : id <= top[p]
             new == Event(id, target[w], db'[target[w]], late)
  <1>1. /\ w \in Workers /\ pc[w] = "commit" /\ Types /\ Typed /\ Known /\ Pending
    BY WorkerSets, TypesTyped DEF Bounded, Commit
  <1>2. /\ outbox' = outbox \cup {new} /\ Forget(w) /\ Announced(w)
        /\ db' = (IF kind[w].tx THEN [db EXCEPT ![target[w]] = @ + 1] ELSE db)
        /\ UNCHANGED <<lastId, redis, target, todo, top, seen, err, handled, bounds>>
    BY DEF Commit
  <1>3. /\ pc' \in [Workers -> Labels] /\ pc'[w] \in {"syncRead", "idle"}
        /\ \A x \in Workers : x # w => pc'[x] = pc[x]
    BY <1>1, <1>2, AnnouncedStep
  <1>4. /\ kind' \in [Writers -> Kinds \cup {NoKind}]
        /\ \A x \in Writers : x # w => kind'[x] = kind[x]
    BY <1>1, <1>2 DEF Announced, Types, DataTypes
  <1>5. loaded' \in [Workers -> Contents]
    BY <1>1, <1>2, LoadedType
  <1>6. Pending' /\ db' \in Contents
    BY <1>1, <1>2, <1>3, <1>4, EffectPending DEF bounds
  <1>7. new \in [id : Ids, account : Accounts, version : Versions, late : BOOLEAN]
    <2>1. target[w] \in Accounts /\ id \in Ids /\ late \in BOOLEAN
      BY <1>1, BoundFacts DEF Types, DataTypes, RunTypes, Contents
    <2>2. db'[target[w]] \in Versions
      BY <1>6, <2>1 DEF Contents
    <2> HIDE DEF id, late
    <2> QED BY <2>1, <2>2 DEF Event
  <1> HIDE DEF new
  <1>8. Types'
    BY <1>1, <1>2, <1>3, <1>4, <1>5, <1>6, <1>7
       DEF redis, bounds, Types, DataTypes, PollTypes, CopyTypes, RunTypes
  <1>9. Known'
    BY <1>1, <1>2, <1>3, KnownKept
  <1> QED BY <1>6, <1>8, <1>9 DEF Bounded

\* The direct write of an account's record.
LEMMA SyncTypes ==
  ASSUME Bounded, NEW w \in Writers, SyncRead(w) \/ SyncWrite(w)
  PROVE  Bounded'
  <1>1. /\ w \in Workers /\ {"idle", "syncWrite"} \subseteq Labels
        /\ Types /\ Typed /\ Known /\ Pending
    BY WorkerSets, LabelNames, TypesTyped DEF Bounded
  <1>2. /\ UNCHANGED <<database, watermark, lock, active, drawn, target, todo, top, seen, err>>
        /\ UNCHANGED <<handled, changes, crashes>>
    BY DEF SyncRead, SyncWrite, redis
  <1>3. PICK l \in {"idle", "syncWrite"} : Goto(w, l)
    BY DEF SyncRead, SyncWrite, Done
  <1>4. /\ pc' \in [Workers -> Labels] /\ pc'[w] = l
        /\ \A x \in Workers : x # w => pc'[x] = pc[x]
    BY <1>1, <1>3, GotoStep
  <1>5. faults' \in 0 .. MaxFaults
    BY <1>1, FailsBound DEF SyncRead, SyncWrite
  <1>6. loaded' \in [Workers -> Contents]
    BY <1>1, LoadedType DEF SyncRead, SyncWrite, Done
  <1>7. /\ kind' \in [Writers -> Kinds \cup {NoKind}]
        /\ \A x \in Writers : x # w => kind'[x] = kind[x]
    <2>1. kind' = kind \/ kind' = [kind EXCEPT ![w] = NoKind]
      BY DEF SyncRead, SyncWrite, Done
    <2> QED BY <1>1, <2>1 DEF Types, DataTypes
  <1>8. meta' \in Contents
    <2>1. meta \in Contents /\ loaded[w] \in Contents /\ target[w] \in Accounts
      BY <1>1 DEF Types, DataTypes, CopyTypes, RunTypes
    <2>2. meta' \in {meta, [meta EXCEPT ![target[w]] = loaded[w][target[w]]]}
      BY DEF SyncRead, SyncWrite, redis
    <2> QED BY <2>1, <2>2 DEF Contents
  <1>9. Types'
    BY <1>1, <1>2, <1>4, <1>5, <1>6, <1>7, <1>8
       DEF database, Types, DataTypes, PollTypes, CopyTypes, RunTypes
  <1>10. Known'
    BY <1>1, <1>2, <1>4, KnownKept DEF database
  <1>11. Pending'
    BY <1>1, <1>2, <1>4, <1>7, WorkerSets, PendingKept DEF database
  <1> QED BY <1>9, <1>10, <1>11 DEF Bounded

\* Nothing is pending at first.
LEMMA InitTypes ==
  ASSUME Init
  PROVE  Bounded
  <1>1. (CHOOSE a \in Accounts : TRUE) \in Accounts /\ "idle" \in Labels /\ 0 \in Ids
        /\ <<>> \in Seq(Builders) /\ 0 \in 0 .. MaxFaults /\ 0 \in 0 .. MaxCrashes
    BY SchedulerConstants, LabelNames, BoundFacts
  <1>2. DataTypes
    BY <1>1, BoundFacts DEF Init, DataTypes
  <1>3. PollTypes /\ CopyTypes /\ RunTypes
    BY <1>1, BoundFacts DEF Init, PollTypes, CopyTypes, RunTypes
  <1>4. Pending
    <2>1. Inserting = {} /\ \A a \in Accounts : Open(a) = {} /\ db[a] = 0
      BY WorkerSets DEF Init, Inserting, Open, Zero
    <2>2. lastId = 0 /\ changes = 0
      BY DEF Init
    <2> QED BY <2>1, <2>2, FS_EmptySet DEF Pending
  <1>5. Known
    BY WorkerSets DEF Init, Known
  <1> QED BY <1>2, <1>3, <1>4, <1>5 DEF Bounded, Types

\* Every step keeps the types, and what is pending within the changes that were begun.
LEMMA StepTypes ==
  ASSUME PollInv, Bounded, [Next]_vars
  PROVE  Bounded'
  <1>1. CASE UNCHANGED vars
    <2>1. UNCHANGED <<database, redis, locals, handled, bounds>>
      BY <1>1 DEF vars
    <2>2. Types' /\ Known'
      BY <2>1 DEF database, redis, locals, bounds, Bounded, Types, DataTypes, PollTypes,
                  CopyTypes, RunTypes, Known
    <2>3. Pending'
      BY <2>1, PendingKept DEF database, locals, bounds, Bounded
    <2> QED BY <2>2, <2>3 DEF Bounded
  <1>2. ASSUME NEW w \in Writers,
               WriterStep(w) \/ \E a \in Accounts, k \in Kinds : Change(w, a, k)
        PROVE  Bounded'
    BY <1>2, ChangeTypes, InsertTypes, CommitTypes, SyncTypes DEF WriterStep
  <1>3. ASSUME NEW p \in Pollers, PollStep(p)
        PROVE  Bounded'
    BY <1>3, WorkerSets, PollBegins, EventTypes, BeginTypes DEF PollStep, PollInv
  <1>4. ASSUME NEW w \in Builders, RebuildStep(w) \/ FullRebuild(w) \/ Fallback(w)
        PROVE  Bounded'
    BY <1>4, LoadToActivateTypes, LockTypes, BeginTypes DEF RebuildStep
  <1> QED BY <1>1, <1>2, <1>3, <1>4, CrashTypes, WorkerSets DEF Next

\* Every variable keeps its type: enqueueSchedulerOutbox draws an id, and a row reaches a
\* version, only for a change that was begun, and pollOutbox handles rows it has listed.
THEOREM TypeCorrect ==
  Spec => []TypeOK
  <1> DEFINE All == (PollInv /\ Held) /\ Bounded
  <1>1. Init => All
    BY InitInv, InitTypes
  <1>2. All /\ [Next]_vars => All'
    BY StepInv, StepTypes
  <1>3. All => TypeOK
    BY DEF Bounded, Types, DataTypes, PollTypes, CopyTypes, RunTypes, TypeOK
  <1> QED BY <1>1, <1>2, <1>3, PTL DEF Spec

=============================================================================
