------------------------ MODULE SystemOperationLockProofs ------------------------
(***************************************************************************)
(* Proofs about SystemOperationLock for any operations, times and number   *)
(* of lost operations, and as many failing statements as the lease leaves  *)
(* room for renewals.                                                      *)
(***************************************************************************)
EXTENDS SystemOperationLock, TLAPS

\* With a renewal interval of a third of the lease: fewer than two renewals fail.
LeaseCoversFaults ==
  Lease <= TTL /\ (MaxFaults + 1) * RenewInterval + 2 < Lease

Holding == {"operate", "release"}

\* Each insertion of the row is later than the deletion before it.
IdsTimely ==
  /\ lastId <= clock
  /\ record = Absent => lastId < clock
  /\ record # Absent => lastId < record.expiresAt

\* The row of a running operation expires with its lock or later.
Terms == record.status = "processing" => record.expiresAt + Lease = record.lockedUntil + TTL

\* Statements are on time, and the ids an operation knows were drawn.
Timely ==
  \A p \in Procs :
    /\ pc[p] # "idle" => start[p] \in 1 .. clock
    /\ pc[p] \in Acquiring \cup {"release"} => clock <= start[p] + 1
    /\ pc[p] \in {"reclaim"} \cup Holding => seen[p].id \in 1 .. lastId

\* Whose lease has not run out: who created the row, or who reclaimed one whose lock
\* has outlasted every operation that reclaimed it so far.
Keeps(p) == pc[p] \in Holding /\ (reclaimed[p] => seen[p].id \notin outlasted)

\* The renewals that may still fail, in ticks.
Reserve(f) == (MaxFaults - f) * RenewInterval

\* The lock of a creator ends after the next renewal and all that may fail, or after the
\* release; the lock of who reclaimed the row has not ended.
Covered(p) ==
  /\ pc[p] = "operate" /\ ~reclaimed[p] =>
       /\ renewAt[p] # 0 /\ clock <= renewAt[p]
       /\ renewAt[p] + Reserve(faults) + 1 < record.lockedUntil
  /\ pc[p] = "release" /\ ~reclaimed[p] => start[p] + 1 < record.lockedUntil
  /\ pc[p] \in Holding /\ reclaimed[p] => clock < record.lockedUntil

Sole(p) == \A q \in Procs : pc[q] \in Holding /\ seen[q].id = record.id => q = p

Holds(p) ==
  /\ record.id = seen[p].id /\ record.status = "processing"
  /\ ~reclaimed[p] => record.fingerprint = p
  /\ Covered(p) /\ Sole(p)

Kept == \A p \in Procs : Keeps(p) => Holds(p)

Inv == TypeOK /\ IdsTimely /\ Terms /\ Timely /\ Kept

-----------------------------------------------------------------------------
(* The shapes of an operation's steps *)

HandlerType ==
  /\ pc \in [Procs -> Labels]
  /\ start \in [Procs -> 0 .. MaxTime]
  /\ seen \in [Procs -> [id : 0 .. MaxTime, status : Statuses]]
  /\ reclaimed \in [Procs -> BOOLEAN]
  /\ renewAt \in [Procs -> Nat]

Others(p) ==
  \A q \in Procs : q # p =>
    /\ pc'[q] = pc[q] /\ start'[q] = start[q] /\ seen'[q] = seen[q]
    /\ reclaimed'[q] = reclaimed[q] /\ renewAt'[q] = renewAt[q]

\* The operation holds what it held: same record, same beginning.
Same(p) ==
  /\ start'[p] = start[p] /\ seen'[p] = seen[p] /\ reclaimed'[p] = reclaimed[p]

\* The row as it was; the operation does not hold the lock afterwards.
Looks(p) ==
  /\ UNCHANGED <<record, lastId>>
  /\ \/ pc'[p] = "idle"
     \/ pc'[p] = "create" /\ start'[p] = clock
     \/ pc'[p] = "get" /\ pc[p] = "create" /\ start'[p] = start[p]
     \/ /\ pc'[p] = "reclaim" /\ pc[p] = "get" /\ start'[p] = start[p]
        /\ record # Absent /\ seen'[p].id = record.id

\* The row is inserted, or taken, and locked; the operation holds the lock, or never learns.
Locks(p) ==
  /\ pc[p] \in Acquiring
  /\ \A q \in Procs : ~Keeps(q)
  /\ record'.status = "processing"
  /\ record'.lockedUntil = start[p] + Lease /\ record'.expiresAt = start[p] + TTL
  /\ \/ record = Absent /\ lastId' = lastId + 1 /\ record'.id = lastId' /\ record'.fingerprint = p
     \/ record # Absent /\ lastId' = lastId /\ record'.id = record.id
  /\ \/ pc'[p] = "idle"
     \/ /\ pc'[p] = "operate" /\ start'[p] = start[p] /\ seen'[p].id = record'.id
        /\ reclaimed'[p] = (record # Absent) /\ renewAt'[p] = clock + RenewInterval

\* The lock is extended, or a statement failed, or the lock is somebody else's.
Renews(p) ==
  /\ pc[p] = "operate" /\ pc'[p] = "operate" /\ Same(p) /\ UNCHANGED lastId
  /\ renewAt[p] # 0 /\ clock >= renewAt[p]
  /\ \/ /\ Extendable(seen[p].id, p)
        /\ record'.id = record.id /\ record'.status = "processing"
        /\ record'.fingerprint = record.fingerprint
        /\ record'.lockedUntil = clock + Lease /\ record'.expiresAt = clock + TTL
        /\ renewAt'[p] = clock + RenewInterval
     \/ UNCHANGED record /\ faults' = faults + 1 /\ renewAt'[p] = clock + RenewInterval
     \/ UNCHANGED record /\ ~Extendable(seen[p].id, p)

\* The operation is over.
Finishes(p) ==
  /\ pc[p] = "operate" /\ pc'[p] = "release" /\ UNCHANGED <<record, lastId>>
  /\ start'[p] = clock /\ seen'[p] = seen[p] /\ reclaimed'[p] = reclaimed[p]

\* The row is marked.
Releases(p) ==
  /\ pc[p] = "release" /\ pc'[p] = "idle" /\ UNCHANGED lastId
  /\ record.id = seen[p].id /\ record'.id = record.id
  /\ record'.status # "processing" /\ record'.expiresAt = start[p] + TTL

\* The rest of a step's types.
Typed ==
  /\ HandlerType' /\ record' \in Records /\ lastId' \in 0 .. MaxTime
  /\ UNCHANGED <<clock, outlasted>>
  /\ faults' \in 0 .. MaxFaults /\ faults <= faults' /\ crashes' \in 0 .. MaxCrashes

\* An operation's step has a shape.
Shaped(p) ==
  /\ Others(p) /\ Typed
  /\ Looks(p) \/ Locks(p) \/ Renews(p) \/ Finishes(p) \/ Releases(p)

-----------------------------------------------------------------------------
(* Helpers *)

\* More renewals take more time.
LEMMA Longer ==
  ASSUME NEW r \in Nat, NEW i \in Nat, NEW j \in Nat, i <= j
  PROVE  i * r \in Nat /\ i * r <= j * r
  <1>1. j - i \in Nat /\ j = i + (j - i)
    OBVIOUS
  <1>2. \A a, b, c \in Nat : a * c \in Nat /\ (a + b) * c = a * c + b * c
    OBVIOUS
  <1>3. (i + (j - i)) * r = i * r + (j - i) * r
    BY <1>1, <1>2
  <1>4. (j - i) * r \in Nat /\ i * r \in Nat
    BY <1>1, <1>2
  <1>5. j * r = i * r + (j - i) * r
    BY <1>1, <1>3
  <1> QED BY <1>4, <1>5

\* So does one more renewal.
LEMMA OneMore ==
  ASSUME NEW r \in Nat, NEW i \in Nat
  PROVE  (i + 1) * r = i * r + r
  OBVIOUS

\* What a failure takes from the reserve.
LEMMA ReserveFacts ==
  ASSUME NEW f \in 0 .. MaxFaults, NEW g \in 0 .. MaxFaults, f <= g
  PROVE  /\ Reserve(f) \in Nat /\ Reserve(g) \in Nat /\ Reserve(g) <= Reserve(f)
         /\ g = f + 1 => Reserve(g) + RenewInterval = Reserve(f)
         /\ LeaseCoversFaults => Reserve(g) + RenewInterval + 2 < Lease
  <1> DEFINE most == (MaxFaults + 1) * RenewInterval
  <1>1. RenewInterval \in Nat /\ MaxFaults \in Nat
    BY LockConstants
  <1>2. MaxFaults - f \in Nat /\ MaxFaults - g \in Nat
    BY <1>1
  <1>3. MaxFaults - g <= MaxFaults - f /\ (MaxFaults - g) + 1 <= MaxFaults + 1
    BY <1>1
  <1>4. /\ (MaxFaults - f) * RenewInterval \in Nat /\ (MaxFaults - g) * RenewInterval \in Nat
        /\ (MaxFaults - g) * RenewInterval <= (MaxFaults - f) * RenewInterval
    BY <1>1, <1>2, <1>3, Longer
  <1>5. ((MaxFaults - g) + 1) * RenewInterval = (MaxFaults - g) * RenewInterval + RenewInterval
    BY <1>1, <1>2, OneMore
  <1>6. ASSUME g = f + 1
        PROVE  (MaxFaults - g) * RenewInterval + RenewInterval = (MaxFaults - f) * RenewInterval
    <2>1. (MaxFaults - g) + 1 = MaxFaults - f
      BY <1>1, <1>6
    <2> QED BY <1>5, <2>1
  <1>7. ((MaxFaults - g) + 1) * RenewInterval <= most
    <2>1. (MaxFaults - g) + 1 \in Nat /\ MaxFaults + 1 \in Nat
      BY <1>1, <1>2
    <2> QED BY <1>1, <1>3, <2>1, Longer
  <1>8. most \in Nat /\ Lease \in Nat
    <2>1. MaxFaults + 1 \in Nat
      BY <1>1
    <2> QED BY <1>1, <2>1, Longer, StoreConstants
  <1>9. /\ Reserve(f) \in Nat /\ Reserve(g) \in Nat /\ Reserve(g) <= Reserve(f)
        /\ g = f + 1 => Reserve(g) + RenewInterval = Reserve(f)
        /\ Reserve(g) + RenewInterval <= most
    BY <1>4, <1>5, <1>6, <1>7 DEF Reserve
  <1>10. LeaseCoversFaults => most + 2 < Lease
    BY DEF LeaseCoversFaults
  <1> HIDE DEF most
  <1> QED BY <1>1, <1>8, <1>9, <1>10

\* The fields of the row have their types; its absence is recognized by its id.
LEMMA RecordType ==
  ASSUME NEW r \in Records
  PROVE  /\ r # Absent => /\ r.id \in 1 .. MaxTime /\ r.fingerprint \in Fingerprints
                          /\ r.status \in Statuses \ {"none"}
                          /\ r.lockedUntil \in Nat /\ r.expiresAt \in Nat \ {0}
                          /\ r.response \in Fingerprints \cup {NoFingerprint}
         /\ r = Absent => /\ r.id = 0 /\ r.status = "none" /\ r.expiresAt = 0
                          /\ r.lockedUntil = 0
         /\ r.id = 0 <=> r = Absent
         /\ r.id \in Nat /\ r.lockedUntil \in Nat /\ r.expiresAt \in Nat
  BY DEF Records, Absent, Statuses

\* A failing statement stays within the bound.
LEMMA FailsType ==
  ASSUME faults \in 0 .. MaxFaults, NEW failed \in BOOLEAN, Fails(failed)
  PROVE  faults' \in 0 .. MaxFaults /\ faults' >= faults /\ (failed => faults' = faults + 1)
  BY LockConstants DEF Fails

\* TryReclaim locks the row it matches and keeps its id and fingerprint.
LEMMA Taken ==
  ASSUME record \in Records, NEW i \in Nat \ {0}, NEW from, NEW now \in Nat,
         Reclaimable(i, from, now), TryReclaim(i, from, now)
  PROVE  /\ record' \in Records /\ record # Absent
         /\ record'.id = record.id /\ record'.fingerprint = record.fingerprint
         /\ record'.status = "processing"
         /\ record'.lockedUntil = now + Lease /\ record'.expiresAt = now + TTL
  <1>1. record.id = i
    BY DEF Reclaimable
  <1>2. record # Absent
    BY <1>1 DEF Absent
  <1>3. record \in [id : 1 .. MaxTime, fingerprint : Fingerprints, status : Statuses \ {"none"},
                    lockedUntil : Nat, expiresAt : Nat \ {0},
                    response : Fingerprints \cup {NoFingerprint}]
    BY <1>2 DEF Records
  <1>4. record' = [record EXCEPT !.status = "processing", !.lockedUntil = now + Lease,
                                 !.expiresAt = now + TTL]
    BY DEF TryReclaim
  <1>5. now + Lease \in Nat /\ now + TTL \in Nat \ {0} /\ "processing" \in Statuses \ {"none"}
    BY StoreConstants DEF Statuses
  <1> QED BY <1>2, <1>3, <1>4, <1>5 DEF Records

\* CreateProcessing inserts the row under the next id.
LEMMA Inserted ==
  ASSUME StoreTypeOK, IdsTimely, record = Absent, NEW f \in Fingerprints, NEW s \in Nat,
         CreateProcessing(f, s)
  PROVE  /\ record' \in Records /\ lastId' = lastId + 1 /\ lastId' \in 0 .. MaxTime
         /\ record'.id = lastId' /\ record'.fingerprint = f /\ record'.status = "processing"
         /\ record'.lockedUntil = s + Lease /\ record'.expiresAt = s + TTL
  <1>1. /\ record' = [id |-> lastId + 1, fingerprint |-> f, status |-> "processing",
                      lockedUntil |-> s + Lease, expiresAt |-> s + TTL,
                      response |-> NoFingerprint]
        /\ lastId' = lastId + 1
    BY DEF CreateProcessing
  <1>2. lastId + 1 \in 1 .. MaxTime
    BY StoreConstants DEF StoreTypeOK, IdsTimely
  <1>3. s + Lease \in Nat /\ s + TTL \in Nat \ {0} /\ "processing" \in Statuses \ {"none"}
    BY StoreConstants DEF Statuses
  <1> QED BY <1>1, <1>2, <1>3 DEF Records

\* ExtendProcessingLock and the marks keep the row and its fingerprint.
LEMMA Updated ==
  ASSUME record \in Records, record # Absent, NEW u \in Nat, NEW e \in Nat \ {0},
         NEW s \in Statuses \ {"none"}, NEW f \in Fingerprints \cup {NoFingerprint},
         record' = [record EXCEPT !.status = s, !.lockedUntil = u, !.expiresAt = e, !.response = f]
  PROVE  /\ record' \in Records /\ record' # Absent
         /\ record'.id = record.id /\ record'.fingerprint = record.fingerprint
         /\ record'.status = s /\ record'.lockedUntil = u /\ record'.expiresAt = e
  <1>1. record \in [id : 1 .. MaxTime, fingerprint : Fingerprints, status : Statuses \ {"none"},
                    lockedUntil : Nat, expiresAt : Nat \ {0},
                    response : Fingerprints \cup {NoFingerprint}]
    BY DEF Records
  <1>2. record'.id # 0 /\ Absent.id = 0
    BY <1>1 DEF Absent
  <1> QED BY <1>1, <1>2 DEF Records

-----------------------------------------------------------------------------
(* Facts about the states of Inv *)

\* The parts of TypeOK.
LEMMA TypeParts ==
  TypeOK <=> /\ StoreTypeOK /\ HandlerType
             /\ faults \in 0 .. MaxFaults /\ crashes \in 0 .. MaxCrashes
             /\ outlasted \subseteq 0 .. MaxTime
  BY DEF TypeOK, HandlerType

\* The parts of Inv.
LEMMA InvParts ==
  ASSUME Inv
  PROVE  /\ StoreTypeOK /\ HandlerType /\ faults \in 0 .. MaxFaults /\ crashes \in 0 .. MaxCrashes
         /\ record \in Records /\ clock \in 1 .. MaxTime /\ lastId \in 0 .. MaxTime
         /\ record.id <= lastId /\ clock \in Nat /\ lastId \in Nat
         /\ outlasted \subseteq 0 .. MaxTime
         /\ IdsTimely /\ Terms /\ Timely /\ Kept
  <1>1. StoreTypeOK /\ HandlerType /\ faults \in 0 .. MaxFaults /\ crashes \in 0 .. MaxCrashes
        /\ outlasted \subseteq 0 .. MaxTime
    BY TypeParts DEF Inv
  <1>2. /\ record \in Records /\ clock \in 1 .. MaxTime /\ lastId \in 0 .. MaxTime
        /\ record.id <= lastId
    BY <1>1 DEF StoreTypeOK
  <1>3. clock \in Nat /\ lastId \in Nat
    BY <1>2, StoreConstants
  <1> QED BY <1>1, <1>2, <1>3 DEF Inv

\* The values an operation holds.
LEMMA ProcFacts ==
  ASSUME HandlerType, NEW p \in Procs
  PROVE  /\ start[p] \in Nat /\ seen[p].id \in Nat /\ renewAt[p] \in Nat /\ reclaimed[p] \in BOOLEAN
         /\ pc[p] \in Labels /\ seen[p].status \in Statuses
  <1>1. /\ start[p] \in 0 .. MaxTime /\ renewAt[p] \in Nat /\ reclaimed[p] \in BOOLEAN
        /\ seen[p] \in [id : 0 .. MaxTime, status : Statuses] /\ pc[p] \in Labels
    BY DEF HandlerType
  <1>2. seen[p].id \in 0 .. MaxTime /\ seen[p].status \in Statuses
    BY <1>1
  <1>3. \A n \in 0 .. MaxTime : n \in Nat
    BY StoreConstants
  <1>4. start[p] \in Nat
    BY <1>1, <1>3
  <1>5. seen[p].id \in Nat
    BY <1>2, <1>3
  <1> QED BY <1>1, <1>2, <1>4, <1>5

\* A lease is longer than an acquisition, and a row lives as long as its lock.
LEMMA LeaseFacts ==
  ASSUME LeaseCoversFaults
  PROVE  /\ Lease \in Nat /\ TTL \in Nat /\ RenewInterval \in Nat \ {0}
         /\ 2 < Lease /\ Lease <= TTL
  <1>1. /\ Lease \in Nat /\ TTL \in Nat /\ RenewInterval \in Nat \ {0} /\ MaxFaults + 1 \in Nat
    BY StoreConstants, LockConstants
  <1>2. (MaxFaults + 1) * RenewInterval \in Nat
    BY <1>1, Longer
  <1> QED BY <1>1, <1>2 DEF LeaseCoversFaults

\* Whoever keeps the lock has a lock that runs, on a row that does not expire.
LEMMA KeepsLock ==
  ASSUME Inv, LeaseCoversFaults, NEW p \in Procs, Keeps(p)
  PROVE  /\ record # Absent /\ record.lockedUntil > clock /\ record.expiresAt > clock
         /\ pc[p] = "operate" /\ ~reclaimed[p] => record.lockedUntil > clock + 1
  <1>1. /\ record.id = seen[p].id /\ record.status = "processing" /\ Covered(p)
        /\ seen[p].id \in 1 .. lastId /\ pc[p] \in {"operate", "release"}
        /\ pc[p] = "release" => clock <= start[p] + 1
    BY DEF Inv, Kept, Holds, Timely, Keeps, Holding
  <1>2. /\ record \in Records /\ clock \in Nat /\ lastId \in Nat /\ HandlerType
        /\ start[p] \in Nat /\ renewAt[p] \in Nat /\ reclaimed[p] \in BOOLEAN
    BY InvParts, ProcFacts
  <1>3. record # Absent /\ record.lockedUntil \in Nat /\ record.expiresAt \in Nat
    BY <1>1, <1>2, RecordType
  <1>4. Reserve(faults) \in Nat
    <2>1. faults \in 0 .. MaxFaults /\ faults <= faults
      BY InvParts, LockConstants
    <2> QED BY <2>1, ReserveFacts
  <1>5. pc[p] = "operate" /\ ~reclaimed[p] => record.lockedUntil > clock + 1
    <2> SUFFICES ASSUME pc[p] = "operate", ~reclaimed[p] PROVE record.lockedUntil > clock + 1
      OBVIOUS
    <2>1. clock <= renewAt[p] /\ renewAt[p] + Reserve(faults) + 1 < record.lockedUntil
      BY <1>1 DEF Covered
    <2> QED BY <1>2, <1>3, <1>4, <2>1
  <1>6. pc[p] = "release" /\ ~reclaimed[p] => record.lockedUntil > clock
    <2> SUFFICES ASSUME pc[p] = "release", ~reclaimed[p] PROVE record.lockedUntil > clock
      OBVIOUS
    <2>1. start[p] + 1 < record.lockedUntil /\ clock <= start[p] + 1
      BY <1>1 DEF Covered
    <2> QED BY <1>2, <1>3, <2>1
  <1>7. reclaimed[p] => record.lockedUntil > clock
    BY <1>1, <1>2, <1>3 DEF Covered, Holding
  <1>8. record.expiresAt + Lease = record.lockedUntil + TTL
    BY <1>1 DEF Inv, Terms
  <1> QED BY <1>1, <1>2, <1>3, <1>5, <1>6, <1>7, <1>8, LeaseFacts

-----------------------------------------------------------------------------
(* Every step of an operation has a shape *)

\* Goto moves one operation and leaves the others alone.
LEMMA GotoStep ==
  ASSUME HandlerType, NEW p \in Procs, NEW l \in Labels, NEW i \in 0 .. MaxTime,
         NEW s \in Statuses, Goto(p, l, i, s)
  PROVE  /\ HandlerType' /\ Others(p) /\ pc'[p] = l /\ start'[p] = start[p]
         /\ seen'[p].id = i
  <1>1. /\ HandlerType' /\ Others(p) /\ pc'[p] = l /\ start'[p] = start[p]
        /\ seen'[p] = [id |-> i, status |-> s]
    BY DEF HandlerType, Others, Goto
  <1> QED BY <1>1

\* So does Return.
LEMMA ReturnStep ==
  ASSUME HandlerType, NEW p \in Procs, Return(p)
  PROVE  HandlerType' /\ Others(p) /\ pc'[p] = "idle"
  <1>1. "idle" \in Labels /\ 0 \in 0 .. MaxTime /\ Nothing \in [id : 0 .. MaxTime, status : Statuses]
    BY StoreConstants DEF Labels, Nothing, Statuses
  <1> QED BY <1>1 DEF HandlerType, Others, Return

\* So does Grant.
LEMMA GrantStep ==
  ASSUME HandlerType, clock \in Nat, NEW p \in Procs, NEW i \in 0 .. MaxTime,
         NEW b \in BOOLEAN, Grant(p, i, b)
  PROVE  /\ HandlerType' /\ Others(p) /\ pc'[p] = "operate" /\ start'[p] = start[p]
         /\ seen'[p].id = i /\ reclaimed'[p] = b /\ renewAt'[p] = clock + RenewInterval
  <1>1. /\ "operate" \in Labels /\ clock + RenewInterval \in Nat
        /\ [id |-> i, status |-> "processing"] \in [id : 0 .. MaxTime, status : Statuses]
    BY LockConstants DEF Labels, Statuses
  <1> QED BY <1>1 DEF HandlerType, Others, Grant

\* An acquisition begins.
LEMMA AcquireShape ==
  ASSUME Inv, NEW p \in Procs, Acquire(p)
  PROVE  Shaped(p)
  <1>1. "create" \in Labels /\ clock \in 0 .. MaxTime
    BY InvParts, StoreConstants DEF Labels, Acquiring
  <1>2. HandlerType' /\ Others(p) /\ pc'[p] = "create" /\ start'[p] = clock
    BY <1>1, InvParts DEF Acquire, HandlerType, Others
  <1>3. Typed
    BY <1>2, InvParts DEF Acquire, Typed, store
  <1>4. Looks(p)
    BY <1>2 DEF Acquire, Looks, store
  <1> QED BY <1>2, <1>3, <1>4 DEF Shaped

\* An operation is lost.
LEMMA CrashShape ==
  ASSUME Inv, NEW p \in Procs, Crash(p)
  PROVE  Shaped(p)
  <1>1. HandlerType' /\ Others(p) /\ pc'[p] = "idle"
    BY InvParts, ReturnStep DEF Crash
  <1>2. crashes' \in 0 .. MaxCrashes
    BY InvParts, LockConstants DEF Crash
  <1>3. Typed
    BY <1>1, <1>2, InvParts DEF Crash, Typed, store
  <1>4. Looks(p)
    BY <1>1 DEF Crash, Looks, store
  <1> QED BY <1>1, <1>3, <1>4 DEF Shaped

\* An insertion finds nobody who keeps the lock.
LEMMA CreateShape ==
  ASSUME Inv, LeaseCoversFaults, NEW p \in Procs, Create(p)
  PROVE  Shaped(p)
  <1>1. /\ pc[p] = "create" /\ pc[p] \in Acquiring /\ UNCHANGED <<clock, crashes, outlasted>>
        /\ start[p] \in Nat /\ HandlerType /\ p \in Fingerprints
    BY InvParts, ProcFacts DEF Create, Acquiring, Procs
  <1>2. PICK applied, failed \in BOOLEAN :
          /\ Fails(failed) /\ (applied \/ failed)
          /\ IF applied THEN CreateProcessing(p, start[p]) ELSE UNCHANGED <<record, lastId>>
          /\ IF failed THEN Return(p)
             ELSE IF record = Absent THEN Grant(p, lastId', FALSE)
             ELSE Goto(p, "get", 0, "none")
    BY DEF Create
  <1>3. faults' \in 0 .. MaxFaults /\ faults <= faults'
    BY <1>2, InvParts, FailsType
  <1>4. CASE record = Absent /\ applied
    <2>1. /\ record' \in Records /\ lastId' = lastId + 1 /\ lastId' \in 0 .. MaxTime
          /\ record'.id = lastId' /\ record'.fingerprint = p
          /\ record'.status = "processing"
          /\ record'.lockedUntil = start[p] + Lease /\ record'.expiresAt = start[p] + TTL
      BY <1>1, <1>2, <1>4, Inserted, InvParts
    <2>2. \A q \in Procs : ~Keeps(q)
      BY <1>4, KeepsLock
    <2>3. /\ HandlerType' /\ Others(p)
          /\ \/ pc'[p] = "idle"
             \/ /\ pc'[p] = "operate" /\ start'[p] = start[p] /\ seen'[p].id = record'.id
                /\ reclaimed'[p] = FALSE /\ renewAt'[p] = clock + RenewInterval
      <3>1. CASE failed
        BY <1>1, <1>2, <3>1, ReturnStep
      <3>2. CASE ~failed
        <4>1. Grant(p, lastId', FALSE)
          BY <1>2, <1>4, <3>2
        <4>2. \A i \in 0 .. MaxTime : Grant(p, i, FALSE) =>
                /\ HandlerType' /\ Others(p) /\ pc'[p] = "operate" /\ start'[p] = start[p]
                /\ seen'[p].id = i /\ reclaimed'[p] = FALSE /\ renewAt'[p] = clock + RenewInterval
          BY InvParts, GrantStep
        <4> QED BY <2>1, <4>1, <4>2
      <3> QED BY <3>1, <3>2
    <2>4. Locks(p)
      BY <1>1, <1>4, <2>1, <2>2, <2>3 DEF Locks
    <2>5. Typed
      BY <1>1, <1>3, <2>1, <2>3, InvParts DEF Typed
    <2> QED BY <2>3, <2>4, <2>5 DEF Shaped
  <1>5. CASE ~(record = Absent /\ applied)
    <2>1. UNCHANGED <<record, lastId>>
      BY <1>2, <1>5 DEF CreateProcessing
    <2>2. /\ HandlerType' /\ Others(p)
          /\ pc'[p] = "idle" \/ (pc'[p] = "get" /\ start'[p] = start[p])
      <3>1. CASE failed
        BY <1>1, <1>2, <3>1, ReturnStep
      <3>2. CASE ~failed
        <4>1. Goto(p, "get", 0, "none")
          BY <1>2, <1>5, <3>2
        <4>2. "get" \in Labels /\ "none" \in Statuses /\ 0 \in 0 .. MaxTime
          BY StoreConstants DEF Labels, Acquiring, Statuses
        <4> QED BY <1>1, <4>1, <4>2, GotoStep
      <3> QED BY <3>1, <3>2
    <2>3. Looks(p)
      BY <1>1, <2>1, <2>2 DEF Looks
    <2>4. Typed
      BY <1>1, <1>3, <2>1, <2>2, InvParts DEF Typed
    <2> QED BY <2>2, <2>3, <2>4 DEF Shaped
  <1> QED BY <1>4, <1>5

\* The read leaves the row alone.
LEMMA GetShape ==
  ASSUME Inv, NEW p \in Procs, Get(p)
  PROVE  Shaped(p)
  <1>1. pc[p] = "get" /\ UNCHANGED <<record, lastId, clock, crashes, outlasted>> /\ HandlerType
    BY InvParts DEF Get, store
  <1>2. PICK failed \in BOOLEAN :
          /\ Fails(failed)
          /\ IF \/ failed \/ record = Absent
                \/ record.status = "processing" /\ record.lockedUntil > start[p]
             THEN Return(p)
             ELSE Goto(p, "reclaim", record.id, record.status)
    BY DEF Get
  <1>3. faults' \in 0 .. MaxFaults /\ faults <= faults'
    BY <1>2, InvParts, FailsType
  <1>4. HandlerType' /\ Others(p) /\ Looks(p)
    <2>1. CASE Return(p)
      BY <1>1, <2>1, ReturnStep DEF Looks
    <2>2. CASE record # Absent /\ Goto(p, "reclaim", record.id, record.status)
      <3>1. "reclaim" \in Labels /\ record.id \in 0 .. MaxTime /\ record.status \in Statuses
        <4>1. record \in Records
          BY InvParts
        <4> QED BY <2>2, <4>1, RecordType DEF Labels, Acquiring
      <3> QED BY <1>1, <2>2, <3>1 DEF Looks, Goto, HandlerType, Others
    <2> QED BY <1>2, <2>1, <2>2
  <1>5. Typed
    BY <1>1, <1>3, <1>4, InvParts DEF Typed
  <1> QED BY <1>4, <1>5 DEF Shaped

\* A reclaim finds nobody who keeps the lock.
LEMMA ReclaimShape ==
  ASSUME Inv, LeaseCoversFaults, NEW p \in Procs, Reclaim(p)
  PROVE  Shaped(p)
  <1>1. /\ pc[p] = "reclaim" /\ pc[p] \in Acquiring /\ UNCHANGED <<lastId, clock, crashes, outlasted>>
        /\ start[p] \in Nat /\ HandlerType
    BY InvParts, ProcFacts DEF Reclaim, Acquiring
  <1>2. start[p] \in 1 .. clock /\ seen[p].id \in 1 .. lastId
    BY <1>1 DEF Inv, Timely, Acquiring
  <1>3. PICK applied, failed \in BOOLEAN :
          /\ Fails(failed) /\ (applied \/ failed)
          /\ IF applied THEN TryReclaim(seen[p].id, seen[p].status, start[p])
                        ELSE UNCHANGED record
          /\ IF ~failed /\ Reclaimable(seen[p].id, seen[p].status, start[p])
             THEN Grant(p, seen[p].id, TRUE)
             ELSE Return(p)
    BY DEF Reclaim
  <1>4. faults' \in 0 .. MaxFaults /\ faults <= faults'
    BY <1>3, InvParts, FailsType
  <1>5. CASE applied /\ Reclaimable(seen[p].id, seen[p].status, start[p])
    <2>1. record.id = seen[p].id /\ record.lockedUntil <= start[p]
      BY <1>5 DEF Reclaimable
    <2>2. /\ record' \in Records /\ record # Absent
          /\ record'.id = record.id /\ record'.fingerprint = record.fingerprint
          /\ record'.status = "processing"
          /\ record'.lockedUntil = start[p] + Lease /\ record'.expiresAt = start[p] + TTL
      <3>1. seen[p].id \in Nat \ {0} /\ record \in Records
        BY <1>2, InvParts
      <3> QED BY <1>1, <1>3, <1>5, <3>1, Taken
    <2>3. \A q \in Procs : ~Keeps(q)
      <3> SUFFICES ASSUME NEW q \in Procs, Keeps(q) PROVE FALSE
        OBVIOUS
      <3>1. record.lockedUntil > clock
        BY KeepsLock
      <3>2. record.lockedUntil \in Nat /\ clock \in Nat
        BY InvParts, RecordType
      <3> QED BY <1>1, <1>2, <2>1, <3>1, <3>2
    <2>4. /\ HandlerType' /\ Others(p)
          /\ \/ pc'[p] = "idle"
             \/ /\ pc'[p] = "operate" /\ start'[p] = start[p] /\ seen'[p].id = record'.id
                /\ reclaimed'[p] = TRUE /\ renewAt'[p] = clock + RenewInterval
      <3>1. CASE failed
        BY <1>1, <1>3, <3>1, ReturnStep
      <3>2. CASE ~failed
        <4>1. Grant(p, seen[p].id, TRUE)
          BY <1>3, <1>5, <3>2
        <4>2. seen[p].id \in 0 .. MaxTime /\ clock \in Nat
          <5>1. lastId \in 0 .. MaxTime /\ clock \in Nat
            BY InvParts
          <5> QED BY <1>2, <5>1, StoreConstants
        <4> QED BY <1>1, <2>1, <2>2, <4>1, <4>2, GrantStep
      <3> QED BY <3>1, <3>2
    <2>5. Locks(p)
      BY <1>1, <2>2, <2>3, <2>4 DEF Locks
    <2>6. Typed
      BY <1>1, <1>4, <2>2, <2>4, InvParts DEF Typed
    <2> QED BY <2>4, <2>5, <2>6 DEF Shaped
  <1>6. CASE ~(applied /\ Reclaimable(seen[p].id, seen[p].status, start[p]))
    <2>1. UNCHANGED record
      BY <1>3, <1>6 DEF TryReclaim
    <2>2. HandlerType' /\ Others(p) /\ pc'[p] = "idle"
      BY <1>1, <1>3, <1>6, ReturnStep
    <2>3. Looks(p)
      BY <1>1, <2>1, <2>2 DEF Looks
    <2>4. Typed
      BY <1>1, <1>4, <2>1, <2>2, InvParts DEF Typed
    <2> QED BY <2>2, <2>3, <2>4 DEF Shaped
  <1> QED BY <1>5, <1>6

\* A renewal extends the lock, or fails, or finds another's.
LEMMA RenewShape ==
  ASSUME Inv, NEW p \in Procs, Renew(p)
  PROVE  Shaped(p)
  <1>1. /\ pc[p] = "operate" /\ renewAt[p] # 0 /\ clock >= renewAt[p]
        /\ UNCHANGED <<lastId, clock, pc, start, seen, reclaimed, crashes, outlasted>>
        /\ HandlerType /\ record \in Records /\ clock \in Nat
    BY InvParts DEF Renew
  <1>2. PICK applied, failed \in BOOLEAN :
          /\ Fails(failed) /\ (applied \/ failed)
          /\ IF applied THEN ExtendProcessingLock(seen[p].id, p) ELSE UNCHANGED record
          /\ renewAt' = [renewAt EXCEPT ![p] =
                           IF failed \/ Extendable(seen[p].id, p)
                           THEN clock + RenewInterval ELSE 0]
    BY DEF Renew
  <1>3. /\ faults' \in 0 .. MaxFaults /\ faults <= faults'
        /\ failed => faults' = faults + 1
    BY <1>2, InvParts, FailsType
  <1>4. HandlerType' /\ Others(p) /\ Same(p)
    <2>1. clock + RenewInterval \in Nat /\ 0 \in Nat
      BY <1>1, LockConstants
    <2> QED BY <1>1, <1>2, <2>1 DEF HandlerType, Others, Same
  <1>5. failed \/ Extendable(seen[p].id, p) => renewAt'[p] = clock + RenewInterval
    BY <1>1, <1>2 DEF HandlerType
  <1>6. CASE applied /\ Extendable(seen[p].id, p)
    <2>1. record' = [record EXCEPT !.lockedUntil = clock + Lease, !.expiresAt = clock + TTL]
      BY <1>2, <1>6 DEF ExtendProcessingLock
    <2>2. record # Absent /\ record.status = "processing"
      BY <1>6 DEF Extendable, Absent
    <2>3. record \in [id : 1 .. MaxTime, fingerprint : Fingerprints, status : Statuses \ {"none"},
                      lockedUntil : Nat, expiresAt : Nat \ {0},
                      response : Fingerprints \cup {NoFingerprint}]
      BY <1>1, <2>2 DEF Records
    <2>4. clock + Lease \in Nat /\ clock + TTL \in Nat \ {0}
      BY <1>1, StoreConstants
    <2>5. /\ record' \in Records /\ record'.id = record.id /\ record'.status = "processing"
          /\ record'.fingerprint = record.fingerprint
          /\ record'.lockedUntil = clock + Lease /\ record'.expiresAt = clock + TTL
      BY <2>1, <2>2, <2>3, <2>4 DEF Records
    <2>6. Renews(p)
      BY <1>1, <1>4, <1>5, <1>6, <2>5 DEF Renews
    <2>7. Typed
      BY <1>1, <1>3, <1>4, <2>5, InvParts DEF Typed
    <2> QED BY <1>4, <2>6, <2>7 DEF Shaped
  <1>7. CASE ~(applied /\ Extendable(seen[p].id, p))
    <2>1. UNCHANGED record
      BY <1>2, <1>7 DEF ExtendProcessingLock
    <2>2. Renews(p)
      BY <1>1, <1>2, <1>3, <1>4, <1>5, <1>7, <2>1 DEF Renews
    <2>3. Typed
      BY <1>1, <1>3, <1>4, <2>1, InvParts DEF Typed
    <2> QED BY <1>4, <2>2, <2>3 DEF Shaped
  <1> QED BY <1>6, <1>7

\* The operation ends.
LEMMA FinishShape ==
  ASSUME Inv, NEW p \in Procs, Finish(p)
  PROVE  Shaped(p)
  <1>1. "release" \in Labels /\ clock \in 0 .. MaxTime
    BY InvParts, StoreConstants DEF Labels
  <1>2. /\ HandlerType' /\ Others(p) /\ pc[p] = "operate" /\ pc'[p] = "release"
        /\ start'[p] = clock /\ seen'[p] = seen[p] /\ reclaimed'[p] = reclaimed[p]
    BY <1>1, InvParts DEF Finish, HandlerType, Others
  <1>3. Typed
    BY <1>2, InvParts DEF Finish, Typed, store
  <1>4. Finishes(p)
    BY <1>2 DEF Finish, Finishes, store
  <1> QED BY <1>2, <1>3, <1>4 DEF Shaped

\* The marks change the outcome and the times of the row with the id only.
LEMMA Marked ==
  ASSUME record \in Records, NEW i \in Nat \ {0}, record.id = i,
         NEW s \in Nat, NEW u \in Nat, NEW f \in Fingerprints,
         StoreSucceeded(i, f, s + TTL) \/ StoreFailedRetryable(i, u, s + TTL)
  PROVE  /\ record' \in Records /\ record'.id = record.id
         /\ record'.status # "processing" /\ record'.expiresAt = s + TTL
  <1>1. record \in [id : 1 .. MaxTime, fingerprint : Fingerprints, status : Statuses \ {"none"},
                    lockedUntil : Nat, expiresAt : Nat \ {0},
                    response : Fingerprints \cup {NoFingerprint}]
    BY DEF Records, Absent
  <1>2. s + TTL \in Nat \ {0} /\ {"succeeded", "failed_retryable"} \subseteq Statuses \ {"none"}
    BY StoreConstants DEF Statuses
  <1>3. CASE StoreSucceeded(i, f, s + TTL)
    <2>1. record' = [record EXCEPT !.status = "succeeded", !.response = f,
                                   !.lockedUntil = 0, !.expiresAt = s + TTL]
      BY <1>3 DEF StoreSucceeded
    <2> QED BY <1>1, <1>2, <2>1 DEF Records
  <1>4. CASE StoreFailedRetryable(i, u, s + TTL)
    <2>1. record' = [record EXCEPT !.status = "failed_retryable", !.lockedUntil = u,
                                   !.expiresAt = s + TTL]
      BY <1>4 DEF StoreFailedRetryable
    <2> QED BY <1>1, <1>2, <2>1 DEF Records
  <1> QED BY <1>3, <1>4

\* A release marks its record, or nothing.
LEMMA ReleaseShape ==
  ASSUME Inv, NEW p \in Procs, Release(p)
  PROVE  Shaped(p)
  <1>1. /\ pc[p] = "release" /\ UNCHANGED <<lastId, clock, crashes, outlasted>>
        /\ start[p] \in Nat /\ HandlerType /\ record \in Records /\ p \in Fingerprints
        /\ HandlerType' /\ Others(p) /\ pc'[p] = "idle"
    BY InvParts, ProcFacts, ReturnStep DEF Release, Procs
  <1>2. seen[p].id \in Nat \ {0}
    <2>1. seen[p].id \in 1 .. lastId
      BY <1>1 DEF Inv, Timely, Holding
    <2> QED BY <2>1
  <1>3. PICK applied, failed, succeeded \in BOOLEAN :
          /\ Fails(failed) /\ (applied \/ failed)
          /\ IF ~applied THEN UNCHANGED record
             ELSE IF succeeded THEN StoreSucceeded(seen[p].id, p, start[p] + TTL)
             ELSE StoreFailedRetryable(seen[p].id, start[p], start[p] + TTL)
    BY DEF Release
  <1>4. faults' \in 0 .. MaxFaults /\ faults <= faults'
    BY <1>3, InvParts, FailsType
  <1>5. CASE applied /\ record.id = seen[p].id
    <2>1. /\ record' \in Records /\ record'.id = record.id
          /\ record'.status # "processing" /\ record'.expiresAt = start[p] + TTL
      BY <1>1, <1>2, <1>3, <1>5, Marked
    <2>2. Releases(p)
      BY <1>1, <1>5, <2>1 DEF Releases
    <2>3. Typed
      BY <1>1, <1>4, <2>1, InvParts DEF Typed
    <2> QED BY <1>1, <2>2, <2>3 DEF Shaped
  <1>6. CASE ~(applied /\ record.id = seen[p].id)
    <2>1. UNCHANGED record
      BY <1>3, <1>6 DEF StoreSucceeded, StoreFailedRetryable
    <2>2. Looks(p)
      BY <1>1, <2>1 DEF Looks
    <2>3. Typed
      BY <1>1, <1>4, <2>1, InvParts DEF Typed
    <2> QED BY <1>1, <2>2, <2>3 DEF Shaped
  <1> QED BY <1>5, <1>6

-----------------------------------------------------------------------------
(* Every shape preserves the invariant *)

\* The ids and beginnings of the other operations stay good.
LEMMA TimelyStep ==
  ASSUME Inv, NEW p \in Procs, Others(p), Typed, lastId <= lastId',
         pc'[p] # "idle" =>
           /\ start'[p] \in 1 .. clock
           /\ pc'[p] \in Acquiring \cup {"release"} => clock <= start'[p] + 1
           /\ pc'[p] \in {"reclaim"} \cup Holding => seen'[p].id \in 1 .. lastId'
  PROVE  Timely'
  <1>0. clock' = clock
    BY DEF Typed
  <1> SUFFICES ASSUME NEW q \in Procs, pc'[q] # "idle"
               PROVE  /\ start'[q] \in 1 .. clock
                      /\ pc'[q] \in Acquiring \cup {"release"} => clock <= start'[q] + 1
                      /\ pc'[q] \in {"reclaim"} \cup Holding => seen'[q].id \in 1 .. lastId'
    BY <1>0 DEF Timely, Acquiring, Holding
  <1>1. CASE q = p
    BY <1>1
  <1>2. CASE q # p
    <2>1. pc'[q] = pc[q] /\ start'[q] = start[q] /\ seen'[q] = seen[q]
      BY <1>2 DEF Others
    <2>2. /\ start[q] \in 1 .. clock
          /\ pc[q] \in Acquiring \cup {"release"} => clock <= start[q] + 1
          /\ pc[q] \in {"reclaim"} \cup Holding => seen[q].id \in 1 .. lastId
      BY <2>1 DEF Inv, Timely
    <2>3. \A i \in 1 .. lastId : i \in 1 .. lastId'
      <3>1. lastId \in Nat /\ lastId' \in 0 .. MaxTime
        BY InvParts DEF Typed
      <3>2. lastId' \in Nat
        BY <3>1, StoreConstants
      <3> QED BY <3>1, <3>2
    <2> QED BY <2>1, <2>2, <2>3
  <1> QED BY <1>1, <1>2

\* A step that leaves the row alone leaves those who keep the lock alone.
LEMMA KeptStep ==
  ASSUME Inv, NEW p \in Procs, Others(p), Typed, record' = record,
         pc'[p] \in Holding => pc[p] \in Holding /\ seen'[p].id = seen[p].id,
         NEW q \in Procs, q # p, Keeps(q)'
  PROVE  Holds(q)'
  <1>1. /\ pc'[q] = pc[q] /\ start'[q] = start[q] /\ seen'[q] = seen[q]
        /\ reclaimed'[q] = reclaimed[q] /\ renewAt'[q] = renewAt[q] /\ clock' = clock
        /\ outlasted' = outlasted
    BY DEF Others, Typed
  <1>2. Keeps(q)
    BY <1>1 DEF Keeps
  <1>3. Holds(q)
    BY <1>2 DEF Inv, Kept
  <1>4. Sole(q)'
    <2> SUFFICES ASSUME NEW r \in Procs, pc'[r] \in Holding, seen'[r].id = record'.id PROVE r = q
      BY DEF Sole
    <2>1. pc[r] \in Holding /\ seen[r].id = record.id
      BY DEF Others
    <2> QED BY <1>3, <2>1 DEF Holds, Sole
  <1>5. Covered(q)'
    <2>1. PICK g \in 0 .. MaxFaults : g = faults' /\ faults <= g
      BY DEF Typed
    <2>2. faults \in 0 .. MaxFaults
      BY InvParts
    <2>3. Reserve(g) \in Nat /\ Reserve(faults) \in Nat /\ Reserve(g) <= Reserve(faults)
      BY <2>1, <2>2, ReserveFacts
    <2>4. renewAt[q] \in Nat /\ record.lockedUntil \in Nat
      BY InvParts, ProcFacts, RecordType
    <2>5. renewAt[q] + Reserve(faults) + 1 < record.lockedUntil =>
            renewAt[q] + Reserve(g) + 1 < record.lockedUntil
      BY <2>3, <2>4
    <2>6. renewAt[q] + Reserve(faults) + 1 < record.lockedUntil =>
            renewAt'[q] + Reserve(faults') + 1 < record'.lockedUntil
      BY <1>1, <2>1, <2>5
    <2>7. Covered(q)
      BY <1>3 DEF Holds
    <2> QED BY <1>1, <2>6, <2>7 DEF Covered
  <1> QED BY <1>1, <1>3, <1>4, <1>5 DEF Holds

\* Looking at the row, or leaving it.
LEMMA LooksInv ==
  ASSUME Inv, NEW p \in Procs, Others(p), Typed, Looks(p)
  PROVE  Inv'
  <1>1. /\ record' = record /\ lastId' = lastId /\ clock' = clock /\ pc'[p] \notin Holding
    BY DEF Looks, Typed, Holding
  <1>2. TypeOK'
    <2>1. StoreTypeOK'
      BY <1>1, InvParts DEF StoreTypeOK
    <2> QED BY <2>1, InvParts, TypeParts DEF Typed, TypeOK, HandlerType
  <1>3. IdsTimely' /\ Terms'
    BY <1>1, InvParts DEF IdsTimely, Terms
  <1>4. Timely'
    <2>1. clock \in Nat /\ clock >= 1 /\ lastId <= lastId'
      BY <1>1, InvParts
    <2>2. ASSUME pc'[p] # "idle"
          PROVE  /\ start'[p] \in 1 .. clock
                 /\ pc'[p] \in Acquiring \cup {"release"} => clock <= start'[p] + 1
                 /\ pc'[p] \in {"reclaim"} \cup Holding => seen'[p].id \in 1 .. lastId'
      <3>1. CASE pc'[p] = "create" /\ start'[p] = clock
        BY <2>1, <3>1 DEF Holding
      <3>2. CASE pc'[p] \in {"get", "reclaim"} /\ pc[p] \in Acquiring /\ start'[p] = start[p]
        <4>1. start[p] \in 1 .. clock /\ clock <= start[p] + 1
          BY <3>2 DEF Inv, Timely, Acquiring
        <4>2. pc'[p] = "reclaim" => seen'[p].id \in 1 .. lastId'
          <5> SUFFICES ASSUME pc'[p] = "reclaim" PROVE seen'[p].id \in 1 .. lastId'
            OBVIOUS
          <5>1. record # Absent /\ seen'[p].id = record.id
            BY DEF Looks
          <5>2. record.id \in 1 .. MaxTime /\ record.id <= lastId /\ lastId \in Nat
            BY <5>1, InvParts, RecordType
          <5> QED BY <1>1, <5>1, <5>2
        <4> QED BY <3>2, <4>1, <4>2 DEF Holding
      <3> QED BY <2>2, <3>1, <3>2 DEF Looks, Acquiring
    <2> QED BY <2>1, <2>2, TimelyStep
  <1>5. Kept'
    <2> SUFFICES ASSUME NEW q \in Procs, Keeps(q)' PROVE Holds(q)'
      BY DEF Kept
    <2>1. q # p
      BY <1>1 DEF Keeps
    <2> QED BY <1>1, <2>1, KeptStep
  <1> QED BY <1>2, <1>3, <1>4, <1>5 DEF Inv

\* Locking the row: nobody kept it, and who learns of it begins with a whole lease.
LEMMA LocksInv ==
  ASSUME Inv, LeaseCoversFaults, NEW p \in Procs, Others(p), Typed, Locks(p)
  PROVE  Inv'
  <1>1. /\ start[p] \in 1 .. clock /\ clock <= start[p] + 1 /\ start[p] \in Nat
        /\ clock \in Nat /\ lastId \in Nat /\ record \in Records /\ record.id <= lastId
        /\ clock' = clock
    BY InvParts, ProcFacts DEF Locks, Inv, Timely, Acquiring, Typed
  <1>2. /\ record'.status = "processing"
        /\ record'.lockedUntil = start[p] + Lease /\ record'.expiresAt = start[p] + TTL
    BY DEF Locks
  <1>3. /\ lastId' \in Nat /\ lastId <= lastId' /\ lastId' <= clock
        /\ record'.id \in 1 .. lastId' /\ record'.id <= lastId'
    <2>1. CASE record = Absent /\ lastId' = lastId + 1 /\ record'.id = lastId'
      <3>1. lastId < clock
        BY <2>1 DEF Inv, IdsTimely
      <3>2. PICK n \in Nat : n = lastId + 1
        BY <1>1
      <3>3. lastId <= n /\ n <= clock /\ n \in 1 .. n
        BY <1>1, <3>1, <3>2
      <3> QED BY <2>1, <3>2, <3>3
    <2>2. CASE record # Absent /\ lastId' = lastId /\ record'.id = record.id
      <3>1. record.id \in 1 .. MaxTime /\ lastId <= clock
        BY <1>1, <2>2, RecordType DEF Inv, IdsTimely
      <3>2. record.id \in 1 .. lastId /\ lastId <= lastId
        BY <1>1, <3>1
      <3> QED BY <1>1, <2>2, <3>1, <3>2
    <2> QED BY <2>1, <2>2 DEF Locks
  <1>4. TypeOK'
    <2>1. StoreTypeOK'
      BY <1>1, <1>3, InvParts DEF StoreTypeOK, Typed
    <2> QED BY <2>1, InvParts, TypeParts DEF Typed, TypeOK, HandlerType
  <1>5. record' # Absent
    BY <1>2 DEF Absent
  <1>6. IdsTimely' /\ Terms'
    <2>1. clock < start[p] + TTL /\ start[p] + TTL + Lease = start[p] + Lease + TTL
      BY <1>1, LeaseFacts
    <2>2. lastId' < start[p] + TTL
      <3>1. \A n \in Nat : n <= clock => n < start[p] + TTL
        BY <1>1, <2>1, StoreConstants
      <3> QED BY <1>3, <3>1
    <2> QED BY <1>1, <1>2, <1>3, <1>5, <2>1, <2>2 DEF IdsTimely, Terms
  <1>7. Timely'
    <2>1. ASSUME pc'[p] # "idle"
          PROVE  /\ start'[p] \in 1 .. clock
                 /\ pc'[p] \in Acquiring \cup {"release"} => clock <= start'[p] + 1
                 /\ pc'[p] \in {"reclaim"} \cup Holding => seen'[p].id \in 1 .. lastId'
      <3>1. pc'[p] = "operate" /\ start'[p] = start[p] /\ seen'[p].id = record'.id
        BY <2>1 DEF Locks
      <3> QED BY <1>1, <1>3, <3>1 DEF Acquiring
    <2> QED BY <1>3, <2>1, TimelyStep
  <1>8. Kept'
    <2> SUFFICES ASSUME NEW q \in Procs, Keeps(q)' PROVE Holds(q)'
      BY DEF Kept
    <2>1. q = p
      <3> SUFFICES ASSUME q # p PROVE FALSE
        OBVIOUS
      <3>1. Keeps(q)
        BY DEF Keeps, Others, Typed
      <3> QED BY <3>1 DEF Locks
    <2>2. /\ pc'[p] = "operate" /\ start'[p] = start[p] /\ seen'[p].id = record'.id
          /\ reclaimed'[p] = (record # Absent) /\ renewAt'[p] = clock + RenewInterval
      BY <2>1 DEF Locks, Keeps, Holding
    <2>3. ~reclaimed'[p] => /\ record'.fingerprint = p /\ record'.id = lastId'
                            /\ lastId' = lastId + 1
      BY <2>2 DEF Locks
    <2>4. Covered(p)'
      <3>1. PICK g \in 0 .. MaxFaults : g = faults'
        BY DEF Typed
      <3>2. Reserve(g) \in Nat /\ Reserve(g) + RenewInterval + 2 < Lease
        BY <3>1, InvParts, ReserveFacts DEF Typed
      <3>3. /\ clock + RenewInterval # 0 /\ clock <= clock + RenewInterval
            /\ clock + RenewInterval + Reserve(g) + 1 < start[p] + Lease
            /\ clock < start[p] + Lease
        BY <1>1, <3>2, LeaseFacts
      <3> QED BY <1>1, <1>2, <2>2, <3>1, <3>3 DEF Covered
    <2>5. Sole(p)'
      <3> SUFFICES ASSUME NEW r \in Procs, pc'[r] \in Holding, seen'[r].id = record'.id, r # p
                   PROVE  FALSE
        BY DEF Sole
      <3>1. pc[r] \in Holding /\ seen[r].id = record'.id /\ ~Keeps(r)
        BY DEF Others, Locks
      <3>2. seen[r].id \in outlasted
        BY <3>1 DEF Keeps
      <3>3. ~reclaimed'[p]
        BY <2>1, <2>2, <3>1, <3>2 DEF Keeps, Typed
      <3>4. seen[r].id \in 1 .. lastId
        BY <3>1 DEF Inv, Timely, Holding
      <3> QED BY <1>1, <2>3, <3>1, <3>3, <3>4
    <2> QED BY <1>2, <2>1, <2>2, <2>3, <2>4, <2>5 DEF Holds
  <1> QED BY <1>4, <1>6, <1>7, <1>8 DEF Inv

\* A renewal: who keeps the lock has it extended, or spends a renewal of the reserve.
LEMMA RenewsInv ==
  ASSUME Inv, LeaseCoversFaults, NEW p \in Procs, Others(p), Typed, Renews(p)
  PROVE  Inv'
  <1>1. /\ pc[p] = "operate" /\ pc'[p] = "operate" /\ lastId' = lastId /\ clock' = clock
        /\ start'[p] = start[p] /\ seen'[p] = seen[p] /\ reclaimed'[p] = reclaimed[p]
        /\ renewAt[p] # 0 /\ clock >= renewAt[p] /\ pc[p] \in Holding
    BY DEF Renews, Typed, Same, Holding
  <1>2. /\ clock \in Nat /\ lastId \in Nat /\ record \in Records /\ record.id <= lastId
        /\ start[p] \in Nat /\ renewAt[p] \in Nat /\ reclaimed[p] \in BOOLEAN
        /\ record.lockedUntil \in Nat /\ record.expiresAt \in Nat
        /\ start[p] \in 1 .. clock /\ seen[p].id \in 1 .. lastId
    BY <1>1, InvParts, ProcFacts, RecordType DEF Inv, Timely, Holding
  <1>3. record'.id = record.id
    BY DEF Renews
  <1>4. TypeOK'
    <2>1. StoreTypeOK'
      BY <1>1, <1>3, InvParts DEF StoreTypeOK, Typed
    <2> QED BY <2>1, InvParts, TypeParts DEF Typed, TypeOK, HandlerType
  <1>5. IdsTimely' /\ Terms'
    <2>1. CASE record' = record
      BY <1>1, <2>1, InvParts DEF IdsTimely, Terms
    <2>2. CASE /\ record'.status = "processing"
               /\ record'.lockedUntil = clock + Lease /\ record'.expiresAt = clock + TTL
      <3>1. record' # Absent
        BY <2>2 DEF Absent
      <3>2. lastId <= clock
        BY DEF Inv, IdsTimely
      <3>3. lastId < clock + TTL /\ clock + TTL + Lease = clock + Lease + TTL
        BY <1>2, <3>2, LeaseFacts
      <3> QED BY <1>1, <2>2, <3>1, <3>2, <3>3 DEF IdsTimely, Terms
    <2> QED BY <2>1, <2>2 DEF Renews
  <1>6. Timely'
    <2>1. lastId <= lastId'
      BY <1>1, <1>2
    <2> QED BY <1>1, <1>2, <2>1, TimelyStep DEF Acquiring
  <1>7. ASSUME NEW q \in Procs, q # p, Keeps(q)'
        PROVE  Holds(q)'
    <2>1. Keeps(q)
      BY <1>7 DEF Keeps, Others, Typed
    <2>2. record.id # seen[p].id
      <3>1. Sole(q)
        BY <2>1 DEF Inv, Kept, Holds
      <3> QED BY <1>1, <1>7, <3>1 DEF Sole
    <2>3. record' = record
      BY <2>2 DEF Renews, Extendable
    <2> QED BY <1>1, <1>7, <2>3, KeptStep
  <1>8. ASSUME Keeps(p)'
        PROVE  Holds(p)'
    <2>1. Keeps(p)
      BY <1>1, <1>8 DEF Keeps, Typed
    <2>2. /\ record.id = seen[p].id /\ record.status = "processing"
          /\ ~reclaimed[p] => record.fingerprint = p
          /\ Covered(p) /\ Sole(p)
      BY <2>1 DEF Inv, Kept, Holds
    <2>3. ~reclaimed[p] => Extendable(seen[p].id, p)
      BY <2>2 DEF Extendable
    <2>4. Sole(p)'
      <3> SUFFICES ASSUME NEW r \in Procs, pc'[r] \in Holding, seen'[r].id = record'.id, r # p
                   PROVE  FALSE
        BY DEF Sole
      <3>1. pc[r] \in Holding /\ seen[r].id = record.id
        BY <1>3 DEF Others
      <3> QED BY <2>2, <3>1 DEF Sole
    <2>5. PICK g \in 0 .. MaxFaults : g = faults' /\ faults <= g
      BY DEF Typed
    <2>6. /\ Reserve(g) \in Nat /\ Reserve(faults) \in Nat
          /\ g = faults + 1 => Reserve(g) + RenewInterval = Reserve(faults)
          /\ Reserve(g) + RenewInterval + 2 < Lease
      BY <2>5, InvParts, ReserveFacts
    <2>7. clock + RenewInterval # 0 /\ clock <= clock + RenewInterval
      BY <1>2, LeaseFacts
    <2>8. CASE /\ record'.status = "processing" /\ record'.fingerprint = record.fingerprint
               /\ record'.lockedUntil = clock + Lease /\ renewAt'[p] = clock + RenewInterval
      <3>1. clock + RenewInterval + Reserve(g) + 1 < clock + Lease
        BY <1>2, <2>6, LeaseFacts
      <3>2. clock < clock + Lease
        BY <1>2, LeaseFacts
      <3>3. pc'[p] # "release"
        BY <1>1
      <3>4. Covered(p)'
        BY <1>1, <2>5, <2>7, <2>8, <3>1, <3>2, <3>3 DEF Covered
      <3> QED BY <1>1, <1>3, <2>2, <2>4, <2>8, <3>4 DEF Holds
    <2>9. CASE /\ record' = record
               /\ ~reclaimed[p] => g = faults + 1 /\ renewAt'[p] = clock + RenewInterval
      <3>1. ~reclaimed[p] => clock + RenewInterval + Reserve(g) + 1 < record.lockedUntil
        <4> SUFFICES ASSUME ~reclaimed[p]
                     PROVE  clock + RenewInterval + Reserve(g) + 1 < record.lockedUntil
          OBVIOUS
        <4>1. clock <= renewAt[p] /\ renewAt[p] + Reserve(faults) + 1 < record.lockedUntil
          BY <1>1, <2>2 DEF Covered
        <4>2. Reserve(g) + RenewInterval = Reserve(faults)
          BY <2>6, <2>9
        <4> QED BY <1>1, <1>2, <2>6, <4>1, <4>2, LeaseFacts
      <3>2. reclaimed[p] => clock < record.lockedUntil
        BY <1>1, <2>2 DEF Covered
      <3>3. Covered(p)'
        BY <1>1, <2>5, <2>7, <2>9, <3>1, <3>2 DEF Covered
      <3> QED BY <1>1, <2>2, <2>4, <2>9, <3>3 DEF Holds
    <2> QED BY <2>3, <2>5, <2>8, <2>9 DEF Renews
  <1>9. Kept'
    BY <1>7, <1>8 DEF Kept
  <1> QED BY <1>4, <1>5, <1>6, <1>9 DEF Inv

\* The end of an operation: its lock lasts for the release.
LEMMA FinishesInv ==
  ASSUME Inv, LeaseCoversFaults, NEW p \in Procs, Others(p), Typed, Finishes(p)
  PROVE  Inv'
  <1>1. /\ pc[p] = "operate" /\ pc'[p] = "release" /\ lastId' = lastId /\ clock' = clock
        /\ record' = record /\ start'[p] = clock /\ seen'[p] = seen[p]
        /\ reclaimed'[p] = reclaimed[p] /\ pc[p] \in Holding
    BY DEF Finishes, Typed, Holding
  <1>2. clock \in Nat /\ clock \in 1 .. clock /\ lastId \in Nat /\ seen[p].id \in 1 .. lastId
    <2>1. clock \in 1 .. MaxTime /\ clock \in Nat /\ lastId \in Nat
      BY InvParts
    <2>2. seen[p].id \in 1 .. lastId
      BY <1>1 DEF Inv, Timely
    <2> QED BY <2>1, <2>2
  <1>3. TypeOK'
    <2>1. StoreTypeOK'
      BY <1>1, InvParts DEF StoreTypeOK
    <2> QED BY <2>1, InvParts, TypeParts DEF Typed, TypeOK, HandlerType
  <1>4. IdsTimely' /\ Terms'
    BY <1>1, InvParts DEF IdsTimely, Terms
  <1>5. Timely'
    <2>1. lastId <= lastId' /\ clock <= clock + 1
      BY <1>1, <1>2
    <2> QED BY <1>1, <1>2, <2>1, TimelyStep
  <1>6. ASSUME Keeps(p)'
        PROVE  Holds(p)'
    <2>1. Keeps(p)
      BY <1>1, <1>6 DEF Keeps, Typed
    <2>2. /\ record.id = seen[p].id /\ record.status = "processing"
          /\ ~reclaimed[p] => record.fingerprint = p
          /\ Sole(p)
      BY <2>1 DEF Inv, Kept, Holds
    <2>3. clock < record.lockedUntil /\ (~reclaimed[p] => clock + 1 < record.lockedUntil)
      BY <1>1, <2>1, InvParts, RecordType, KeepsLock
    <2>4. Covered(p)'
      BY <1>1, <2>3 DEF Covered
    <2>5. Sole(p)'
      <3> SUFFICES ASSUME NEW r \in Procs, pc'[r] \in Holding, seen'[r].id = record'.id, r # p
                   PROVE  FALSE
        BY DEF Sole
      <3>1. pc[r] \in Holding /\ seen[r].id = record.id
        BY <1>1 DEF Others
      <3> QED BY <2>2, <3>1 DEF Sole
    <2> QED BY <1>1, <2>2, <2>4, <2>5 DEF Holds
  <1>7. Kept'
    <2>1. ASSUME NEW q \in Procs, q # p, Keeps(q)' PROVE Holds(q)'
      BY <1>1, <2>1, KeptStep
    <2> QED BY <1>6, <2>1 DEF Kept
  <1> QED BY <1>3, <1>4, <1>5, <1>7 DEF Inv

\* A mark: nobody else keeps the lock it ends.
LEMMA ReleasesInv ==
  ASSUME Inv, LeaseCoversFaults, NEW p \in Procs, Others(p), Typed, Releases(p)
  PROVE  Inv'
  <1>1. /\ pc[p] = "release" /\ pc'[p] = "idle" /\ lastId' = lastId /\ clock' = clock
        /\ record.id = seen[p].id /\ record'.id = record.id /\ pc[p] \in Holding
        /\ record'.status # "processing" /\ record'.expiresAt = start[p] + TTL
    BY DEF Releases, Typed, Holding
  <1>2. /\ clock \in Nat /\ lastId \in Nat /\ start[p] \in Nat /\ clock <= start[p] + 1
        /\ seen[p].id \in 1 .. lastId /\ lastId <= clock
    BY <1>1, InvParts, ProcFacts DEF Inv, Timely, IdsTimely
  <1>3. TypeOK'
    <2>1. StoreTypeOK'
      BY <1>1, InvParts DEF StoreTypeOK, Typed
    <2> QED BY <2>1, InvParts, TypeParts DEF Typed, TypeOK, HandlerType
  <1>4. IdsTimely' /\ Terms'
    <2>1. record' # Absent
      BY <1>1, <1>2 DEF Absent
    <2>2. lastId < start[p] + TTL
      BY <1>2, LeaseFacts
    <2> QED BY <1>1, <1>2, <2>1, <2>2 DEF IdsTimely, Terms
  <1>5. Timely'
    <2>1. lastId <= lastId'
      BY <1>1, <1>2
    <2> QED BY <1>1, <2>1, TimelyStep
  <1>6. Kept'
    <2> SUFFICES ASSUME NEW q \in Procs, Keeps(q)' PROVE FALSE
      BY DEF Kept
    <2>1. q # p
      BY <1>1 DEF Keeps, Holding
    <2>2. Keeps(q)
      BY <2>1 DEF Keeps, Others, Typed
    <2>3. record.id # seen[p].id
      <3>1. Sole(q)
        BY <2>2 DEF Inv, Kept, Holds
      <3> QED BY <1>1, <2>1, <3>1 DEF Sole
    <2> QED BY <1>1, <2>3
  <1> QED BY <1>3, <1>4, <1>5, <1>6 DEF Inv

-----------------------------------------------------------------------------
(* Time and the cleanup *)

\* Time passes: nothing that is under way becomes late.
LEMMA TickInv ==
  ASSUME Inv, Tick
  PROVE  Inv'
  <1>1. /\ clock < MaxTime /\ \A p \in Procs : OnTime(p)
        /\ UNCHANGED <<record, lastId, pc, start, seen, reclaimed, renewAt, faults, crashes>>
    BY DEF Tick, handlers
  <1>2. PICK n \in 1 .. MaxTime : n = clock' /\ n = clock + 1 /\ clock <= n
    BY InvParts, StoreConstants DEF Tick
  <1>3. TypeOK'
    <2>1. StoreTypeOK'
      BY <1>1, <1>2, InvParts DEF StoreTypeOK
    <2>2. outlasted' \subseteq 0 .. MaxTime
      BY InvParts DEF Tick, HandlerType, Outlasting
    <2> QED BY <1>1, <2>1, <2>2, InvParts DEF TypeOK, HandlerType
  <1>4. IdsTimely' /\ Terms'
    <2>1. lastId <= n /\ (record = Absent => lastId < n)
      BY <1>2, InvParts, StoreConstants DEF IdsTimely
    <2> QED BY <1>1, <1>2, <2>1, InvParts DEF IdsTimely, Terms
  <1>5. Timely'
    <2> SUFFICES ASSUME NEW p \in Procs
                 PROVE  /\ pc[p] # "idle" => start[p] \in 1 .. n
                        /\ pc[p] \in Acquiring \cup {"release"} => n <= start[p] + 1
                        /\ pc[p] \in {"reclaim"} \cup Holding => seen[p].id \in 1 .. lastId
      BY <1>1, <1>2, Zenon DEF Timely
    <2>1. /\ pc[p] # "idle" => start[p] \in 1 .. clock
          /\ pc[p] \in {"reclaim"} \cup Holding => seen[p].id \in 1 .. lastId
      BY DEF Inv, Timely
    <2>2. pc[p] \in Acquiring \cup {"release"} => clock = start[p]
      BY <1>1 DEF OnTime
    <2>3. \A i \in 1 .. clock : i \in 1 .. n
      BY <1>2, InvParts
    <2>4. n <= n
      BY <1>2
    <2> QED BY <1>2, <2>1, <2>2, <2>3, <2>4
  <1>6. Kept'
    <2> SUFFICES ASSUME NEW p \in Procs, Keeps(p)' PROVE Holds(p)'
      BY DEF Kept
    <2>0. /\ pc[p] \in Holding /\ Keeps(p)
          /\ reclaimed[p] => seen[p].id \notin outlasted'
      BY <1>1 DEF Keeps, Tick
    <2>1. Holds(p)
      BY <2>0 DEF Inv, Kept
    <2>2. Sole(p)'
      BY <1>1, <2>1 DEF Holds, Sole
    <2>3. Covered(p)'
      <3>1. renewAt[p] \in Nat /\ start[p] \in Nat /\ clock \in Nat /\ Lease \in Nat
        BY InvParts, ProcFacts, StoreConstants
      <3>2. renewAt[p] # 0 => n <= renewAt[p]
        <4>1. renewAt[p] # 0 => clock < renewAt[p]
          BY <1>1 DEF OnTime
        <4> QED BY <1>2, <3>1, <4>1
      <3>3. reclaimed[p] => n < record.lockedUntil
        <4> SUFFICES ASSUME reclaimed[p] PROVE n < record.lockedUntil
          OBVIOUS
        <4>1. p \notin Outlasting
          BY <2>0 DEF Tick
        <4>2. ~(record.lockedUntil <= clock + 1)
          BY <2>0, <2>1, <4>1 DEF Outlasting, Holding, Holds
        <4>3. record.lockedUntil \in Nat
          BY InvParts, RecordType
        <4> QED BY <1>2, <3>1, <4>2, <4>3
      <3>4. Covered(p)
        BY <2>1 DEF Holds
      <3> QED BY <1>1, <1>2, <3>2, <3>3, <3>4 DEF Covered
    <2> QED BY <1>1, <2>1, <2>2, <2>3 DEF Holds
  <1> QED BY <1>3, <1>4, <1>5, <1>6 DEF Inv

\* The cleanup removes no row whose lock somebody keeps.
LEMMA CleanupInv ==
  ASSUME Inv, LeaseCoversFaults, Cleanup
  PROVE  Inv'
  <1>1. /\ record # Absent /\ record.expiresAt <= clock /\ record' = Absent
        /\ UNCHANGED <<lastId, clock, pc, start, seen, reclaimed, renewAt, faults, crashes, outlasted>>
    BY DEF Cleanup, DeleteExpired, Deletable, handlers
  <1>2. TypeOK'
    <2>1. record' \in Records /\ record'.id <= lastId'
      BY <1>1, InvParts DEF Records, Absent
    <2>2. StoreTypeOK'
      BY <1>1, <2>1, InvParts DEF StoreTypeOK
    <2> QED BY <1>1, <2>2, InvParts DEF TypeOK, HandlerType
  <1>3. IdsTimely' /\ Terms'
    <2>1. lastId <= clock /\ lastId < record.expiresAt
      BY <1>1 DEF Inv, IdsTimely
    <2>2. lastId < clock
      BY <1>1, <2>1, InvParts, RecordType
    <2>3. record'.status # "processing"
      BY <1>1 DEF Absent
    <2> QED BY <1>1, <2>1, <2>2, <2>3 DEF IdsTimely, Terms
  <1>4. Timely'
    BY <1>1, InvParts DEF Timely
  <1>5. Kept'
    <2> SUFFICES ASSUME NEW p \in Procs, Keeps(p) PROVE FALSE
      BY <1>1 DEF Kept, Keeps
    <2>1. record.expiresAt > clock
      BY KeepsLock
    <2> QED BY <1>1, <2>1, InvParts, RecordType
  <1> QED BY <1>2, <1>3, <1>4, <1>5 DEF Inv

-----------------------------------------------------------------------------
(* The theorems *)

\* Init establishes the invariant.
LEMMA InitInv ==
  ASSUME Init
  PROVE  Inv
  <1>1. /\ record = Absent /\ lastId = 0 /\ clock = 1
        /\ pc = [p \in Procs |-> "idle"] /\ faults = 0 /\ crashes = 0 /\ outlasted = {}
        /\ start = [p \in Procs |-> 0] /\ seen = [p \in Procs |-> Nothing]
        /\ reclaimed = [p \in Procs |-> FALSE] /\ renewAt = [p \in Procs |-> 0]
    BY DEF Init, StoreInit
  <1>2. "idle" \in Labels /\ Nothing \in [id : 0 .. MaxTime, status : Statuses] /\ 0 \in 0 .. MaxTime
    BY StoreConstants DEF Labels, Nothing, Statuses
  <1>3. HandlerType
    BY <1>1, <1>2 DEF HandlerType
  <1>4. StoreTypeOK
    BY <1>1, StoreConstants DEF StoreTypeOK, Records, Absent
  <1>5. TypeOK
    BY <1>1, <1>3, <1>4, TypeParts, LockConstants
  <1>6. IdsTimely /\ Terms
    BY <1>1 DEF IdsTimely, Terms, Absent
  <1>7. Timely /\ Kept
    BY <1>1 DEF Timely, Kept, Keeps, Acquiring, Holding
  <1> QED BY <1>5, <1>6, <1>7 DEF Inv

\* Every step preserves the invariant.
LEMMA StepInv ==
  ASSUME Inv, LeaseCoversFaults, [Next]_vars
  PROVE  Inv'
  <1>1. ASSUME NEW p \in Procs, Shaped(p)
        PROVE  Inv'
    BY <1>1, LooksInv, LocksInv, RenewsInv, FinishesInv, ReleasesInv DEF Shaped
  <1>2. ASSUME NEW p \in Procs, Acquire(p) \/ OperationStep(p) \/ Crash(p)
        PROVE  Inv'
    BY <1>1, <1>2, AcquireShape, CrashShape, CreateShape, GetShape, ReclaimShape, RenewShape,
       FinishShape, ReleaseShape DEF OperationStep
  <1>3. CASE UNCHANGED vars
    <2>1. UNCHANGED <<record, lastId, clock, pc, start, seen, reclaimed, renewAt, faults, crashes,
                    outlasted>>
      BY <1>3 DEF vars, store, handlers
    <2>2. TypeOK' /\ IdsTimely' /\ Terms' /\ Timely'
      BY <2>1 DEF Inv, TypeOK, StoreTypeOK, IdsTimely, Terms, Timely
    <2>3. Kept'
      BY <2>1 DEF Inv, Kept, Keeps, Holds, Covered, Sole
    <2> QED BY <2>2, <2>3 DEF Inv
  <1> QED BY <1>2, <1>3, TickInv, CleanupInv DEF Next

\* The inductive invariant, of which the theorems read off what they state.
THEOREM Invariant ==
  LeaseCoversFaults => (Spec => []Inv)
  <1> SUFFICES ASSUME LeaseCoversFaults PROVE Spec => []Inv
    OBVIOUS
  <1>1. Init => Inv
    BY InitInv
  <1>2. Inv /\ [Next]_vars => Inv'
    BY StepInv
  <1> QED BY <1>1, <1>2, PTL DEF Spec

\* An operation that created the lock row keeps its lease while it runs, as long as fewer
\* renewals fail than the lease leaves room for (renewLoop's interval is a third of it):
\* no release, reclaim or cleanup of another takes the lock away.
THEOREM LeaseIsKept ==
  LeaseCoversFaults => (Spec => []CreatorKeepsLease)
  <1> SUFFICES ASSUME LeaseCoversFaults PROVE Spec => []CreatorKeepsLease
    OBVIOUS
  <1>1. Inv => CreatorKeepsLease
    <2> SUFFICES ASSUME Inv, NEW p \in Procs, pc[p] = "operate", ~reclaimed[p]
                 PROVE  /\ record.id = seen[p].id /\ record.status = "processing"
                        /\ record.fingerprint = p /\ record.lockedUntil > clock
      BY DEF CreatorKeepsLease
    <2>1. Keeps(p)
      BY DEF Keeps, Holding
    <2>2. Holds(p)
      BY <2>1 DEF Inv, Kept
    <2> QED BY <2>1, <2>2, KeepsLock DEF Holds
  <1> QED BY <1>1, Invariant, PTL

\* Two system operations run at the same time only after an operation that had reclaimed
\* the row of one of them was longer than its lease: its renewals match no row, as the row
\* keeps the fingerprint of the operation that created it (ErrSystemOperationBusy).
THEOREM NeverTwo ==
  LeaseCoversFaults => (Spec => []OneOperation)
  <1> SUFFICES ASSUME LeaseCoversFaults PROVE Spec => []OneOperation
    OBVIOUS
  <1>1. Inv => OneOperation
    <2> SUFFICES ASSUME Inv, NEW p \in Procs, NEW q \in Procs, p # q,
                        pc[p] = "operate", pc[q] = "operate",
                        seen[p].id \notin outlasted, seen[q].id \notin outlasted
                 PROVE  FALSE
      BY DEF OneOperation
    <2>1. Keeps(p) /\ Keeps(q)
      BY DEF Keeps, Holding
    <2>2. Holds(p) /\ Holds(q)
      BY <2>1 DEF Inv, Kept
    <2> QED BY <2>1, <2>2 DEF Holds, Sole, Keeps
  <1> QED BY <1>1, Invariant, PTL

=============================================================================
