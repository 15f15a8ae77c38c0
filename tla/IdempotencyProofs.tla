--------------------------- MODULE IdempotencyProofs ---------------------------
(***************************************************************************)
(* Proofs about Idempotency for any requests, payloads, times and number   *)
(* of failing statements and lost requests, given that a lease is not      *)
(* longer than the time to live (as it is by default).  Each step of a     *)
(* request has one of four shapes; the invariants are proved shape by      *)
(* shape.                                                                  *)
(***************************************************************************)
EXTENDS Idempotency, TLAPS

\* Each insertion of the row is later than the deletion before it.
IdsTimely ==
  /\ lastId <= clock
  /\ record = Absent => lastId < clock
  /\ record # Absent => lastId < record.expiresAt

\* A request is on time.
Timely ==
  \A p \in Procs : pc[p] # "idle" =>
    /\ payload[p] \in Fingerprints /\ start[p] \in 1 .. clock
    /\ pc[p] \in Claiming => clock < start[p] + Lease
    /\ pc[p] \in Owning   => clock < start[p] + TTL

\* The row a request has read had its payload; ids are not used twice.
Remembers ==
  \A p \in Procs : pc[p] \in {"takeover", "reclaim"} \cup Owning =>
    /\ seen[p].id \in 1 .. lastId
    /\ record.id = seen[p].id => record.fingerprint = payload[p]

\* The row is locked for its owner, from the owner's beginning.
OwnsRecord ==
  \A p \in Procs : pc[p] \in Owning =>
    /\ record.id = seen[p].id /\ record.status = "processing"
    /\ record.lockedUntil = start[p] + Lease /\ record.expiresAt = start[p] + TTL

\* Who read the row in processing before the owner took it began before its lock ends.
LockedOut ==
  \A p, q \in Procs :
    pc[p] \in Owning /\ pc[q] = "takeover" /\ seen[q].id = record.id
    /\ seen[q].status = "processing"
      => start[q] < start[p] + Lease

Inv ==
  /\ TypeOK /\ IdsTimely /\ Timely /\ Remembers /\ OwnsRecord /\ LockedOut
  /\ OneOwner /\ ReplayIsOwn

\* A row in processing that a request is about to take over is the expired one it
\* read, or was locked after the request began.
TakesExpired ==
  \A q \in Procs :
    pc[q] = "takeover" /\ seen[q].id = record.id /\ record.status = "processing"
      => record.expiresAt <= start[q] \/ start[q] < record.lockedUntil

\* An effect younger than the time to live, whose record was not lost to a raced
\* takeover, is covered by the row, and no owner is about to execute.
Covered(e) ==
  /\ record.status \in {"processing", "succeeded"} /\ record.expiresAt >= e.from + TTL
  /\ \A p \in Procs : pc[p] \notin {"execute", "markfailed"}

Protected ==
  \A i \in 1 .. Len(effects) :
    i > overtaken => clock >= effects[i].from + TTL \/ Covered(effects[i])

EffectsInv == TakesExpired /\ Protected /\ EffectsApart

-----------------------------------------------------------------------------
(* The shapes of a request's steps *)

HandlerType ==
  /\ pc \in [Procs -> Labels]
  /\ payload \in [Procs -> Fingerprints \cup {NoFingerprint}]
  /\ start \in [Procs -> 0 .. MaxTime]
  /\ seen \in [Procs -> [id : 0 .. MaxTime, status : Statuses]]

Others(p) ==
  \A q \in Procs : q # p =>
    pc'[q] = pc[q] /\ payload'[q] = payload[q] /\ start'[q] = start[q] /\ seen'[q] = seen[q]

Same(p) == payload'[p] = payload[p] /\ start'[p] = start[p]

\* The row as it was.  The request ends, or goes on without being its owner.
Looks(p) ==
  /\ UNCHANGED <<record, lastId, effects, overtaken>>
  /\ \/ pc'[p] = "idle"
     \/ pc'[p] \in {"get", "reget"} /\ pc[p] \in Claiming /\ Same(p)
        /\ (pc'[p] = "get" => pc[p] = "create")
     \/ /\ pc'[p] \in {"takeover", "reclaim"} /\ pc[p] \in Claiming /\ Same(p)
        /\ record # Absent /\ record.fingerprint = payload[p] /\ seen'[p].id = record.id
        /\ pc'[p] = "takeover" => pc[p] = "get" /\ record.expiresAt <= start[p]

\* The row is inserted, or taken, and locked; the request owns it, or never learns.
Claims(p) ==
  /\ pc[p] \in {"create", "takeover", "reclaim"} /\ UNCHANGED effects
  /\ \A q \in Procs : pc[q] \notin Owning
  /\ record'.status = "processing" /\ record'.fingerprint = payload[p]
  /\ record'.lockedUntil = start[p] + Lease /\ record'.expiresAt = start[p] + TTL
  /\ \/ record = Absent /\ lastId' = lastId + 1 /\ record'.id = lastId'
     \/ /\ record # Absent /\ lastId' = lastId /\ pc[p] \in {"takeover", "reclaim"}
        /\ record'.id = record.id /\ record'.fingerprint = record.fingerprint
        /\ record.status = "failed_retryable"
           \/ (pc[p] = "takeover" /\ seen[p].id = record.id)
        /\ record.status = "processing" => record.lockedUntil <= start[p]
  /\ \/ Overtakes(p) /\ overtaken' = Len(effects)
     \/ /\ overtaken' = overtaken
        /\ record.status = "succeeded" => record.expiresAt <= start[p]
  /\ \/ pc'[p] = "idle"
     \/ pc'[p] = "execute" /\ Same(p) /\ seen'[p].id = record'.id

\* The owner records what came of it and ends.
Marks(p) ==
  /\ pc'[p] = "idle" /\ UNCHANGED <<lastId, effects, overtaken>>
  /\ record'.id = record.id /\ record'.fingerprint = record.fingerprint
  /\ record'.expiresAt = start[p] + TTL
  /\ \/ pc[p] = "marksucceeded" /\ record'.status = "succeeded" /\ record'.response = payload[p]
     \/ pc[p] = "markfailed" /\ record'.status = "failed_retryable"

\* The owner executes.
Executes(p) ==
  /\ pc[p] = "execute" /\ UNCHANGED <<record, lastId, overtaken>> /\ Same(p) /\ seen'[p] = seen[p]
  /\ \/ /\ pc'[p] = "marksucceeded"
        /\ effects' = Append(effects, [from |-> start[p], at |-> clock, of |-> payload[p]])
     \/ pc'[p] = "markfailed" /\ UNCHANGED effects

\* The rest of a step's types.
Typed ==
  /\ HandlerType' /\ record' \in Records /\ lastId' \in 0 .. MaxTime
  /\ faults' \in 0 .. MaxFaults /\ crashes' \in 0 .. MaxCrashes /\ UNCHANGED clock

\* A request's step has a shape.
Shaped(p) ==
  /\ pc[p] # "idle" /\ Others(p) /\ Typed
  /\ Looks(p) \/ Claims(p) \/ Marks(p) \/ Executes(p)

-----------------------------------------------------------------------------
(* Helpers *)

\* The fields of the row have their types; its absence is recognized by its id.
LEMMA RecordType ==
  ASSUME NEW r \in Records
  PROVE  /\ r # Absent => /\ r.id \in 1 .. MaxTime /\ r.fingerprint \in Fingerprints
                          /\ r.status \in Statuses \ {"none"}
                          /\ r.lockedUntil \in Nat /\ r.expiresAt \in Nat \ {0}
                          /\ r.response \in Fingerprints \cup {NoFingerprint}
         /\ r = Absent => /\ r.id = 0 /\ r.status = "none" /\ r.expiresAt = 0
                          /\ r.lockedUntil = 0
         /\ r.id = 0 <=> r = Absent
         /\ r.id \in Nat /\ r.lockedUntil \in Nat /\ r.expiresAt \in Nat
  BY DEF Records, Absent, Statuses

\* Goto moves one request and leaves the others alone.
LEMMA GotoStep ==
  ASSUME HandlerType, NEW p \in Procs, NEW l \in Labels, NEW i \in 0 .. MaxTime,
         NEW s \in Statuses, Goto(p, l, i, s)
  PROVE  /\ HandlerType' /\ Others(p) /\ Same(p)
         /\ pc'[p] = l /\ seen'[p] = [id |-> i, status |-> s]
         /\ seen'[p].id = i /\ seen'[p].status = s
  BY DEF HandlerType, Others, Same, Goto

\* So does Return.
LEMMA ReturnStep ==
  ASSUME HandlerType, NEW p \in Procs, Return(p)
  PROVE  HandlerType' /\ Others(p) /\ pc'[p] = "idle"
  <1>1. "idle" \in Labels /\ 0 \in 0 .. MaxTime /\ Nothing \in [id : 0 .. MaxTime, status : Statuses]
    BY StoreConstants DEF Labels, Nothing, Statuses
  <1> QED BY <1>1 DEF HandlerType, Others, Return

\* A failing statement stays within the bound.
LEMMA FailsType ==
  ASSUME faults \in 0 .. MaxFaults, NEW failed \in BOOLEAN, Fails(failed)
  PROVE  faults' \in 0 .. MaxFaults
  BY IdempotencyConstants DEF Fails

\* TryReclaim locks the row it matches and keeps its id and fingerprint.
LEMMA Taken ==
  ASSUME record \in Records, NEW i \in Nat \ {0}, NEW from, NEW now \in Nat,
         Reclaimable(i, from, now), TryReclaim(i, from, now)
  PROVE  /\ record' \in Records /\ record # Absent
         /\ record'.id = record.id /\ record'.fingerprint = record.fingerprint
         /\ record'.status = "processing"
         /\ record'.lockedUntil = now + Lease /\ record'.expiresAt = now + TTL
  <1>1. record.id = i
    BY DEF Reclaimable
  <1>2. record # Absent
    BY <1>1 DEF Absent
  <1>3. record \in [id : 1 .. MaxTime, fingerprint : Fingerprints, status : Statuses \ {"none"},
                    lockedUntil : Nat, expiresAt : Nat \ {0},
                    response : Fingerprints \cup {NoFingerprint}]
    BY <1>2 DEF Records
  <1>4. record' = [record EXCEPT !.status = "processing", !.lockedUntil = now + Lease,
                                 !.expiresAt = now + TTL]
    BY DEF TryReclaim
  <1>5. now + Lease \in Nat /\ now + TTL \in Nat \ {0} /\ "processing" \in Statuses \ {"none"}
    BY StoreConstants DEF Statuses
  <1> QED BY <1>2, <1>3, <1>4, <1>5 DEF Records

\* CreateProcessing inserts the row under the next id.
LEMMA Inserted ==
  ASSUME StoreTypeOK, IdsTimely, record = Absent, NEW f \in Fingerprints, NEW s \in Nat,
         CreateProcessing(f, s)
  PROVE  /\ record' \in Records /\ lastId' = lastId + 1 /\ lastId' \in 0 .. MaxTime
         /\ record'.id = lastId' /\ record'.fingerprint = f /\ record'.status = "processing"
         /\ record'.lockedUntil = s + Lease /\ record'.expiresAt = s + TTL
  <1>1. /\ record' = [id |-> lastId + 1, fingerprint |-> f, status |-> "processing",
                      lockedUntil |-> s + Lease, expiresAt |-> s + TTL,
                      response |-> NoFingerprint]
        /\ lastId' = lastId + 1
    BY DEF CreateProcessing
  <1>2. lastId + 1 \in 1 .. MaxTime
    BY StoreConstants DEF StoreTypeOK, IdsTimely
  <1>3. s + Lease \in Nat /\ s + TTL \in Nat \ {0} /\ "processing" \in Statuses \ {"none"}
    BY StoreConstants DEF Statuses
  <1> QED BY <1>1, <1>2, <1>3 DEF Records

\* The marks change the outcome and the times of the owner's row only.
LEMMA Marked ==
  ASSUME record \in Records, NEW i \in Nat \ {0}, record.id = i,
         NEW s \in Nat, NEW u \in Nat, NEW f \in Fingerprints
  PROVE  /\ StoreSucceeded(i, f, s + TTL) =>
              /\ record' \in Records /\ record'.id = record.id
              /\ record'.fingerprint = record.fingerprint /\ record'.status = "succeeded"
              /\ record'.response = f /\ record'.expiresAt = s + TTL
         /\ StoreFailedRetryable(i, u, s + TTL) =>
              /\ record' \in Records /\ record'.id = record.id
              /\ record'.fingerprint = record.fingerprint
              /\ record'.status = "failed_retryable" /\ record'.expiresAt = s + TTL
  <1>1. record \in [id : 1 .. MaxTime, fingerprint : Fingerprints, status : Statuses \ {"none"},
                    lockedUntil : Nat, expiresAt : Nat \ {0},
                    response : Fingerprints \cup {NoFingerprint}]
    BY DEF Records, Absent
  <1>2. s + TTL \in Nat \ {0} /\ {"succeeded", "failed_retryable"} \subseteq Statuses \ {"none"}
    BY StoreConstants DEF Statuses
  <1>3. ASSUME StoreSucceeded(i, f, s + TTL)
        PROVE  /\ record' \in Records /\ record'.id = record.id
               /\ record'.fingerprint = record.fingerprint /\ record'.status = "succeeded"
               /\ record'.response = f /\ record'.expiresAt = s + TTL
    <2>1. record' = [record EXCEPT !.status = "succeeded", !.response = f,
                                   !.lockedUntil = 0, !.expiresAt = s + TTL]
      BY <1>3 DEF StoreSucceeded
    <2> QED BY <1>1, <1>2, <2>1 DEF Records
  <1>4. ASSUME StoreFailedRetryable(i, u, s + TTL)
        PROVE  /\ record' \in Records /\ record'.id = record.id
               /\ record'.fingerprint = record.fingerprint
               /\ record'.status = "failed_retryable" /\ record'.expiresAt = s + TTL
    <2>1. record' = [record EXCEPT !.status = "failed_retryable", !.lockedUntil = u,
                                   !.expiresAt = s + TTL]
      BY <1>4 DEF StoreFailedRetryable
    <2> QED BY <1>1, <1>2, <2>1 DEF Records
  <1> QED BY <1>3, <1>4

-----------------------------------------------------------------------------
(* Every step of a request has a shape *)

\* The parts of TypeOK.
LEMMA TypeParts ==
  TypeOK <=> /\ StoreTypeOK /\ HandlerType
             /\ effects \in Seq([from : 1 .. MaxTime, at : 1 .. MaxTime, of : Fingerprints])
             /\ overtaken \in 0 .. Len(effects)
             /\ faults \in 0 .. MaxFaults /\ crashes \in 0 .. MaxCrashes
  BY DEF TypeOK, HandlerType

\* What is known of a request under way.
LEMMA Underway ==
  ASSUME Inv, NEW p \in Procs, pc[p] # "idle"
  PROVE  /\ payload[p] \in Fingerprints /\ start[p] \in 1 .. clock /\ start[p] \in Nat
         /\ record \in Records /\ HandlerType /\ StoreTypeOK
         /\ clock \in 1 .. MaxTime /\ lastId \in 0 .. MaxTime
         /\ faults \in 0 .. MaxFaults /\ crashes \in 0 .. MaxCrashes
  <1>1. StoreTypeOK /\ HandlerType /\ faults \in 0 .. MaxFaults /\ crashes \in 0 .. MaxCrashes
    BY TypeParts DEF Inv
  <1>2. payload[p] \in Fingerprints /\ start[p] \in 1 .. clock
    BY DEF Inv, Timely
  <1>3. clock \in 1 .. MaxTime
    BY <1>1 DEF StoreTypeOK
  <1> QED BY <1>1, <1>2, <1>3 DEF StoreTypeOK

\* An insertion finds no owner.
LEMMA CreateShape ==
  ASSUME Inv, NEW p \in Procs, Create(p)
  PROVE  Shaped(p)
  <1>1. /\ pc[p] = "create" /\ UNCHANGED <<clock, effects, overtaken, crashes>>
        /\ payload[p] \in Fingerprints /\ start[p] \in Nat /\ record \in Records
        /\ HandlerType /\ StoreTypeOK /\ faults \in 0 .. MaxFaults /\ crashes \in 0 .. MaxCrashes
    BY Underway DEF Create
  <1>2. PICK applied, failed \in BOOLEAN :
          /\ Fails(failed) /\ (applied \/ failed)
          /\ IF applied THEN CreateProcessing(payload[p], start[p])
                        ELSE UNCHANGED <<record, lastId>>
          /\ IF failed THEN Return(p)
             ELSE IF record = Absent THEN Goto(p, "execute", lastId', "processing")
             ELSE Goto(p, "get", 0, "none")
    BY DEF Create
  <1>3. faults' \in 0 .. MaxFaults
    BY <1>1, <1>2, FailsType
  <1>4. pc[p] # "idle" /\ pc[p] \in Claiming /\ lastId \in 0 .. MaxTime
    BY <1>1 DEF Claiming, StoreTypeOK
  <1>5. CASE record = Absent /\ applied
    <2>1. /\ record' \in Records /\ lastId' = lastId + 1 /\ lastId' \in 0 .. MaxTime
          /\ record'.id = lastId' /\ record'.fingerprint = payload[p]
          /\ record'.status = "processing"
          /\ record'.lockedUntil = start[p] + Lease /\ record'.expiresAt = start[p] + TTL
      BY <1>1, <1>2, <1>5, Inserted DEF Inv
    <2>2. \A q \in Procs : pc[q] \notin Owning
      <3> SUFFICES ASSUME NEW q \in Procs, pc[q] \in Owning PROVE FALSE
        OBVIOUS
      <3>1. record.id \in 1 .. lastId
        BY DEF Inv, OwnsRecord, Remembers
      <3> QED BY <3>1, <1>5, <1>4, RecordType, <1>1
    <2>3. HandlerType' /\ Others(p) /\ (pc'[p] = "idle" \/ (pc'[p] = "execute" /\ Same(p) /\ seen'[p].id = record'.id))
      <3>1. CASE failed
        BY <1>1, <1>2, <3>1, ReturnStep
      <3>2. CASE ~failed
        <4>1. Goto(p, "execute", lastId', "processing") /\ "execute" \in Labels /\ "processing" \in Statuses
          BY <1>2, <1>5, <3>2 DEF Labels, Owning, Statuses
        <4> QED BY <1>1, <2>1, <4>1 DEF Goto, HandlerType, Others, Same
      <3> QED BY <3>1, <3>2
    <2>4. record.status # "succeeded"
      BY <1>5 DEF Absent
    <2>5. Claims(p)
      BY <1>1, <1>5, <2>1, <2>2, <2>3, <2>4 DEF Claims
    <2> QED BY <1>1, <1>3, <1>4, <2>1, <2>3, <2>5 DEF Shaped, Typed
  <1>6. CASE ~(record = Absent /\ applied)
    <2>1. UNCHANGED <<record, lastId>>
      BY <1>2, <1>6 DEF CreateProcessing
    <2>2. /\ HandlerType' /\ Others(p)
          /\ pc'[p] = "idle" \/ (pc'[p] = "get" /\ Same(p))
      <3>1. CASE failed
        BY <1>1, <1>2, <3>1, ReturnStep
      <3>2. CASE ~failed
        <4>1. Goto(p, "get", 0, "none") /\ "get" \in Labels /\ "none" \in Statuses /\ 0 \in 0 .. MaxTime
          BY <1>2, <1>6, <3>2, StoreConstants DEF Labels, Claiming, Statuses
        <4> QED BY <1>1, <4>1, GotoStep
      <3> QED BY <3>1, <3>2
    <2>3. Looks(p)
      BY <1>1, <1>4, <2>1, <2>2 DEF Looks
    <2> QED BY <1>1, <1>3, <1>4, <2>1, <2>2, <2>3 DEF Shaped, Typed
  <1> QED BY <1>5, <1>6

\* What both reads do with a row that has not expired.
LEMMA DecideShape ==
  ASSUME HandlerType, record \in Records, NEW p \in Procs, pc[p] \in Claiming,
         record # Absent, record.fingerprint = payload[p], Decide(p),
         UNCHANGED <<record, lastId, effects, overtaken>>
  PROVE  HandlerType' /\ Others(p) /\ Looks(p)
  <1>1. CASE Return(p)
    BY <1>1, ReturnStep DEF Looks
  <1>2. CASE Goto(p, "reclaim", record.id, record.status)
    <2>1. "reclaim" \in Labels /\ record.id \in 0 .. MaxTime /\ record.status \in Statuses
      BY RecordType DEF Labels, Claiming
    <2> QED BY <1>2, <2>1 DEF Looks, Goto, HandlerType, Others, Same
  <1> QED BY <1>1, <1>2 DEF Decide

\* The two reads leave the row alone.
LEMMA ReadShape ==
  ASSUME Inv, NEW p \in Procs, Get(p) \/ Reget(p)
  PROVE  Shaped(p)
  <1>1. /\ pc[p] \in {"get", "reget"} /\ UNCHANGED <<record, lastId, clock, effects, overtaken, crashes>>
        /\ payload[p] \in Fingerprints /\ start[p] \in Nat /\ record \in Records
        /\ HandlerType /\ lastId \in 0 .. MaxTime /\ faults \in 0 .. MaxFaults /\ crashes \in 0 .. MaxCrashes
    BY Underway DEF Get, Reget, store
  <1>2. pc[p] # "idle" /\ pc[p] \in Claiming
    BY <1>1 DEF Claiming
  <1>3. faults' \in 0 .. MaxFaults
    BY <1>1, FailsType DEF Get, Reget
  <1>4. HandlerType' /\ Others(p) /\ Looks(p)
    <2>1. CASE Return(p)
      BY <1>1, <2>1, ReturnStep DEF Looks
    <2>2. CASE record # Absent /\ record.fingerprint = payload[p] /\ Decide(p)
      BY <1>1, <1>2, <2>2, DecideShape
    <2>3. CASE /\ pc[p] = "get" /\ record # Absent /\ record.fingerprint = payload[p]
               /\ record.expiresAt <= start[p]
               /\ Goto(p, "takeover", record.id, record.status)
      <3>1. "takeover" \in Labels /\ record.id \in 0 .. MaxTime /\ record.status \in Statuses
        BY <1>1, <2>3, RecordType DEF Labels, Claiming
      <3> QED BY <1>1, <1>2, <2>3, <3>1 DEF Looks, Goto, HandlerType, Others, Same
    <2> QED BY <2>1, <2>2, <2>3 DEF Get, Reget
  <1> QED BY <1>1, <1>2, <1>3, <1>4 DEF Shaped, Typed

\* A request that reclaims a row is not interfering with an owner.
LEMMA TakeShape ==
  ASSUME Inv, NEW p \in Procs, Takeover(p) \/ Reclaim(p)
  PROVE  Shaped(p)
  <1> DEFINE from == IF pc[p] = "takeover" THEN seen[p].status ELSE "failed_retryable"
  <1> DEFINE mine == Reclaimable(seen[p].id, from, start[p])
  <1>1. /\ pc[p] \in {"takeover", "reclaim"} /\ UNCHANGED <<lastId, clock, effects, crashes>>
        /\ payload[p] \in Fingerprints /\ start[p] \in 1 .. clock /\ start[p] \in Nat /\ record \in Records
        /\ HandlerType /\ lastId \in 0 .. MaxTime /\ faults \in 0 .. MaxFaults /\ crashes \in 0 .. MaxCrashes
    BY Underway DEF Takeover, Reclaim
  <1>2. pc[p] # "idle" /\ pc[p] \in Claiming /\ seen[p].id \in 1 .. lastId
    BY <1>1 DEF Claiming, Inv, Remembers
  <1>3. PICK applied, failed \in BOOLEAN :
          /\ Fails(failed) /\ (applied \/ failed)
          /\ IF applied THEN TryReclaim(seen[p].id, from, start[p]) ELSE UNCHANGED record
          /\ overtaken' = IF applied /\ Overtakes(p) THEN Len(effects) ELSE overtaken
          /\ \/ Return(p)
             \/ ~failed /\ mine /\ Goto(p, "execute", seen[p].id, "processing")
             \/ ~failed /\ ~mine /\ Goto(p, "reget", 0, "none")
    BY DEF Takeover, Reclaim, Overtakes
  <1>4. faults' \in 0 .. MaxFaults
    BY <1>1, <1>3, FailsType
  <1> HIDE DEF from, mine
  <1>5. CASE applied /\ mine
    <2>1. record.id = seen[p].id /\ record.status = from /\ record.lockedUntil <= start[p]
      BY <1>5 DEF mine, Reclaimable
    <2>2. /\ record' \in Records /\ record # Absent
          /\ record'.id = record.id /\ record'.fingerprint = record.fingerprint
          /\ record'.status = "processing"
          /\ record'.lockedUntil = start[p] + Lease /\ record'.expiresAt = start[p] + TTL
      <3>1. seen[p].id \in Nat \ {0}
        BY <1>1, <1>2
      <3> QED BY <1>1, <1>3, <1>5, <3>1, Taken DEF mine
    <2>3. record.fingerprint = payload[p]
      BY <1>1, <2>1 DEF Inv, Remembers
    <2>4. \A q \in Procs : pc[q] \notin Owning
      <3> SUFFICES ASSUME NEW q \in Procs, pc[q] \in Owning PROVE FALSE
        OBVIOUS
      <3>1. record.status = "processing" /\ record.lockedUntil = start[q] + Lease
        BY DEF Inv, OwnsRecord
      <3>2. pc[p] = "takeover" /\ seen[p].status = "processing"
        BY <1>1, <2>1, <3>1 DEF from
      <3>3. start[p] < start[q] + Lease
        BY <2>1, <3>2 DEF Inv, LockedOut
      <3>4. start[q] \in Nat
        BY <1>1 DEF HandlerType
      <3> QED BY <1>1, <2>1, <3>1, <3>3, <3>4, StoreConstants
    <2>5. HandlerType' /\ Others(p) /\ (pc'[p] = "idle" \/ (pc'[p] = "execute" /\ Same(p) /\ seen'[p].id = record'.id))
      <3>1. CASE Return(p)
        BY <1>1, <3>1, ReturnStep
      <3>2. CASE Goto(p, "execute", seen[p].id, "processing")
        <4>1. "execute" \in Labels /\ "processing" \in Statuses
          BY DEF Labels, Owning, Statuses
        <4>2. seen[p].id \in 0 .. MaxTime
          BY <1>1 DEF HandlerType
        <4> QED BY <1>1, <2>1, <2>2, <3>2, <4>1, <4>2 DEF Goto, HandlerType, Others, Same
      <3>3. Return(p) \/ Goto(p, "execute", seen[p].id, "processing")
        BY <1>3, <1>5
      <3> QED BY <3>1, <3>2, <3>3
    <2>6. record.status = "failed_retryable" \/ (pc[p] = "takeover" /\ seen[p].id = record.id)
      BY <1>1, <2>1 DEF from
    <2>7. \/ Overtakes(p) /\ overtaken' = Len(effects)
          \/ overtaken' = overtaken /\ (record.status = "succeeded" => record.expiresAt <= start[p])
      <3>1. CASE Overtakes(p)
        BY <1>3, <1>5, <3>1
      <3>2. CASE ~Overtakes(p)
        <4>1. overtaken' = overtaken
          BY <1>3, <3>2
        <4>2. record.status = "succeeded" => ~(record.expiresAt > start[p])
          BY <1>1, <1>5, <2>1, <3>2 DEF Overtakes, from, mine
        <4>3. record.expiresAt \in Nat
          BY <1>1, RecordType
        <4> QED BY <1>1, <4>1, <4>2, <4>3
      <3> QED BY <3>1, <3>2
    <2>8. Claims(p)
      BY <1>1, <2>1, <2>2, <2>3, <2>4, <2>5, <2>6, <2>7 DEF Claims
    <2> QED BY <1>1, <1>2, <1>4, <2>2, <2>5, <2>8 DEF Shaped, Typed
  <1>6. CASE ~(applied /\ mine)
    <2>1. UNCHANGED <<record, lastId, effects, overtaken>>
      <3>1. UNCHANGED <<record, lastId, effects>>
        BY <1>1, <1>3, <1>6 DEF TryReclaim, mine
      <3>2. applied => ~Overtakes(p)
        BY <1>1, <1>6 DEF Overtakes, from, mine
      <3> QED BY <1>3, <3>1, <3>2
    <2>2. HandlerType' /\ Others(p) /\ (pc'[p] = "idle" \/ (pc'[p] = "reget" /\ Same(p)))
      <3>1. CASE Return(p)
        BY <1>1, <3>1, ReturnStep
      <3>2. CASE Goto(p, "reget", 0, "none")
        <4>1. "reget" \in Labels /\ "none" \in Statuses /\ 0 \in 0 .. MaxTime
          BY StoreConstants DEF Labels, Claiming, Statuses
        <4> QED BY <1>1, <3>2, <4>1, GotoStep
      <3> QED BY <1>3, <1>6, <3>1, <3>2
    <2>3. Looks(p)
      BY <1>2, <2>1, <2>2 DEF Looks
    <2> QED BY <1>1, <1>2, <1>4, <2>1, <2>2, <2>3 DEF Shaped, Typed
  <1> QED BY <1>5, <1>6

\* The owner executes, and records what came of it.
LEMMA OwnerShape ==
  ASSUME Inv, NEW p \in Procs, Execute(p) \/ MarkFailed(p) \/ MarkSucceeded(p)
  PROVE  Shaped(p)
  <1>1. /\ pc[p] \in Owning /\ pc[p] # "idle" /\ UNCHANGED <<lastId, clock, overtaken, crashes>>
        /\ payload[p] \in Fingerprints /\ start[p] \in Nat /\ record \in Records
        /\ HandlerType /\ lastId \in 0 .. MaxTime /\ faults \in 0 .. MaxFaults /\ crashes \in 0 .. MaxCrashes
        /\ clock \in 1 .. MaxTime
    BY Underway DEF Execute, MarkFailed, MarkSucceeded, Owning, store
  <1>2. record.id = seen[p].id /\ seen[p].id \in Nat \ {0}
    BY <1>1 DEF Inv, OwnsRecord, Remembers
  <1>3. seen[p].id \in 0 .. MaxTime /\ seen[p].status \in Statuses
        /\ seen[p] = [id |-> seen[p].id, status |-> seen[p].status]
    BY <1>1 DEF HandlerType
  <1>4. CASE Execute(p)
    <2>1. PICK l \in {"marksucceeded", "markfailed"} :
            /\ Goto(p, l, seen[p].id, seen[p].status)
            /\ \/ /\ l = "marksucceeded"
                  /\ effects' = Append(effects, [from |-> start[p], at |-> clock, of |-> payload[p]])
               \/ l = "markfailed" /\ UNCHANGED effects
      BY <1>4 DEF Execute
    <2>2. l \in Labels
      BY DEF Labels, Owning
    <2>3. HandlerType' /\ Others(p) /\ Same(p) /\ pc'[p] = l /\ seen'[p] = seen[p]
      BY <1>1, <1>3, <2>1, <2>2, GotoStep
    <2>4. UNCHANGED <<record, faults>> /\ pc[p] = "execute"
      BY <1>4 DEF Execute, store
    <2>5. Executes(p)
      BY <1>1, <2>1, <2>3, <2>4 DEF Executes
    <2> QED BY <1>1, <2>3, <2>4, <2>5 DEF Shaped, Typed
  <1>5. CASE MarkFailed(p) \/ MarkSucceeded(p)
    <2>1. HandlerType' /\ Others(p) /\ pc'[p] = "idle" /\ UNCHANGED effects
      BY <1>1, <1>5, ReturnStep DEF MarkFailed, MarkSucceeded
    <2>2. faults' \in 0 .. MaxFaults
      BY <1>1, <1>5, FailsType DEF MarkFailed, MarkSucceeded
    <2>3. CASE UNCHANGED record
      <3>1. Looks(p)
        BY <1>1, <2>1, <2>3 DEF Looks
      <3> QED BY <1>1, <2>1, <2>2, <2>3, <3>1 DEF Shaped, Typed
    <2>4. CASE /\ pc[p] = "markfailed"
               /\ StoreFailedRetryable(seen[p].id, clock + Backoff, start[p] + TTL)
      <3>1. clock + Backoff \in Nat
        BY <1>1, IdempotencyConstants
      <3>2. /\ record' \in Records /\ record'.id = record.id
            /\ record'.fingerprint = record.fingerprint
            /\ record'.status = "failed_retryable" /\ record'.expiresAt = start[p] + TTL
        BY <1>1, <1>2, <2>4, <3>1, Marked
      <3>3. Marks(p)
        BY <1>1, <2>1, <2>4, <3>2 DEF Marks
      <3> QED BY <1>1, <2>1, <2>2, <3>2, <3>3 DEF Shaped, Typed
    <2>5. CASE /\ pc[p] = "marksucceeded"
               /\ StoreSucceeded(seen[p].id, payload[p], start[p] + TTL)
      <3>1. /\ record' \in Records /\ record'.id = record.id
            /\ record'.fingerprint = record.fingerprint /\ record'.status = "succeeded"
            /\ record'.response = payload[p] /\ record'.expiresAt = start[p] + TTL
        BY <1>1, <1>2, <2>5, Marked
      <3>2. Marks(p)
        BY <1>1, <2>1, <2>5, <3>1 DEF Marks
      <3> QED BY <1>1, <2>1, <2>2, <3>1, <3>2 DEF Shaped, Typed
    <2> QED BY <1>5, <2>3, <2>4, <2>5 DEF MarkFailed, MarkSucceeded
  <1> QED BY <1>4, <1>5

\* All steps of a request.
LEMMA StepShape ==
  ASSUME Inv, NEW p \in Procs, RequestStep(p)
  PROVE  Shaped(p)
  BY CreateShape, ReadShape, TakeShape, OwnerShape DEF RequestStep

-----------------------------------------------------------------------------
(* Each shape keeps the invariant *)

\* The types, for all shapes at once.
LEMMA ShapedType ==
  ASSUME Inv, NEW p \in Procs, Shaped(p)
  PROVE  TypeOK'
  <1>1. /\ record \in Records /\ lastId \in 0 .. MaxTime /\ clock \in 1 .. MaxTime /\ record.id <= lastId
        /\ effects \in Seq([from : 1 .. MaxTime, at : 1 .. MaxTime, of : Fingerprints])
        /\ overtaken \in 0 .. Len(effects)
    BY DEF Inv, TypeOK, StoreTypeOK
  <1>2. Typed /\ HandlerType'
    BY DEF Shaped, Typed
  <1>3. record'.id <= lastId'
    <2>1. CASE Looks(p)
      BY <1>1, <2>1 DEF Looks
    <2>2. CASE Claims(p)
      BY <1>1, <1>2, <2>2 DEF Claims, Typed
    <2>3. CASE Marks(p)
      BY <1>1, <2>3 DEF Marks
    <2>4. CASE Executes(p)
      BY <1>1, <2>4 DEF Executes
    <2> QED BY <2>1, <2>2, <2>3, <2>4 DEF Shaped
  <1>4. effects' \in Seq([from : 1 .. MaxTime, at : 1 .. MaxTime, of : Fingerprints])
    <2>1. CASE UNCHANGED effects
      BY <1>1, <2>1
    <2>2. CASE effects' = Append(effects, [from |-> start[p], at |-> clock, of |-> payload[p]])
      <3>1. payload[p] \in Fingerprints /\ start[p] \in 1 .. MaxTime
        <4>1. payload[p] \in Fingerprints /\ start[p] \in 1 .. clock
          BY Underway DEF Shaped
        <4> QED BY <1>1, <4>1, StoreConstants
      <3> QED BY <1>1, <2>2, <3>1
    <2> QED BY <2>1, <2>2 DEF Shaped, Looks, Claims, Marks, Executes
  <1>5. StoreTypeOK'
    BY <1>1, <1>2, <1>3 DEF Typed, StoreTypeOK
  <1>6. overtaken' \in 0 .. Len(effects')
    <2>1. Len(effects) \in Nat
      BY <1>1
    <2>2. CASE Executes(p)
      <3>1. Len(effects') = Len(effects) \/ Len(effects') = Len(effects) + 1
        BY <1>1, <2>2 DEF Executes
      <3> QED BY <1>1, <2>1, <2>2, <3>1 DEF Executes
    <2>3. CASE effects' = effects /\ overtaken' \in {overtaken, Len(effects)}
      BY <1>1, <2>1, <2>3
    <2> QED BY <2>2, <2>3 DEF Shaped, Looks, Claims, Marks
  <1> QED BY <1>2, <1>4, <1>5, <1>6 DEF Typed, HandlerType, TypeOK

\* A request that ends or looks on.
LEMMA LooksInv ==
  ASSUME Inv, NEW p \in Procs, Shaped(p), Looks(p)
  PROVE  Inv'
  <1>1. TypeOK'
    BY ShapedType
  <1>2. /\ UNCHANGED <<record, lastId, clock>> /\ Others(p)
        /\ \A q \in Procs : pc'[q] \in Owning => q # p /\ pc[q] \in Owning
        /\ pc[p] # "idle" /\ record \in Records /\ StoreTypeOK
    BY Underway DEF Looks, Shaped, Typed, Owning, Others
  <1>3. pc'[p] # "idle" => pc[p] \in Claiming /\ pc'[p] \in Claiming /\ Same(p)
    BY DEF Looks, Claiming
  <1>4. IdsTimely' /\ ReplayIsOwn'
    BY <1>2 DEF Inv, IdsTimely, ReplayIsOwn
  <1>5. Timely'
    BY <1>2, <1>3 DEF Inv, Timely, Others, Same, Owning, Claiming
  <1>6. Remembers'
    <2> SUFFICES ASSUME NEW q \in Procs, pc'[q] \in {"takeover", "reclaim"} \cup Owning
                 PROVE  /\ seen'[q].id \in 1 .. lastId
                        /\ record.id = seen'[q].id => record.fingerprint = payload'[q]
      BY <1>2 DEF Remembers
    <2>1. CASE q = p
      <3>1. record # Absent /\ record.fingerprint = payload[p] /\ seen'[p].id = record.id /\ Same(p)
        BY <1>2, <2>1 DEF Looks, Owning
      <3>2. record.id \in 1 .. lastId
        BY <1>2, <3>1, RecordType DEF StoreTypeOK
      <3> QED BY <2>1, <3>1, <3>2 DEF Same
    <2>2. CASE q # p
      BY <1>2, <2>2 DEF Inv, Remembers, Others
    <2> QED BY <2>1, <2>2
  <1>7. OwnsRecord' /\ OneOwner'
    BY <1>2 DEF Inv, OwnsRecord, OneOwner, Others
  <1>8. LockedOut'
    <2> SUFFICES ASSUME NEW o \in Procs, NEW q \in Procs, pc'[o] \in Owning, pc'[q] = "takeover",
                        seen'[q].id = record.id, seen'[q].status = "processing"
                 PROVE  start'[q] < start'[o] + Lease
      BY <1>2 DEF LockedOut
    <2>1. o # p /\ pc[o] \in Owning /\ start'[o] = start[o]
      BY <1>2 DEF Others
    <2>2. CASE q # p
      BY <1>2, <2>1, <2>2 DEF Inv, LockedOut, Others
    <2>3. CASE q = p
      <3>1. record.expiresAt <= start[p]
        BY <2>3, <1>2 DEF Looks
      <3>2. record.expiresAt = start[o] + TTL /\ clock < start[o] + TTL
        BY <2>1 DEF Inv, OwnsRecord, Timely, Owning
      <3>3. start[p] <= clock /\ start[p] \in Nat /\ start[o] \in Nat /\ clock \in Nat
        <4>1. start[p] \in 1 .. clock /\ start[o] \in 1 .. clock /\ clock \in 1 .. MaxTime
          BY <1>2, <2>1, Underway DEF Owning
        <4> QED BY <4>1, StoreConstants
      <3> QED BY <3>1, <3>2, <3>3, StoreConstants
    <2> QED BY <2>2, <2>3
  <1> QED BY <1>1, <1>4, <1>5, <1>6, <1>7, <1>8 DEF Inv

\* A request that gets the row.
LEMMA ClaimsInv ==
  ASSUME Inv, Lease <= TTL, NEW p \in Procs, Shaped(p), Claims(p)
  PROVE  Inv'
  <1>1. TypeOK'
    BY ShapedType
  <1>2. /\ UNCHANGED clock /\ Others(p) /\ pc[p] # "idle" /\ record' \in Records
        /\ lastId' \in 0 .. MaxTime /\ StoreTypeOK
        /\ record'.status = "processing" /\ record'.fingerprint = payload[p]
        /\ record'.lockedUntil = start[p] + Lease /\ record'.expiresAt = start[p] + TTL
    BY Underway DEF Claims, Shaped, Typed
  <1>3. /\ start[p] \in Nat /\ clock \in Nat /\ start[p] \in 1 .. clock
        /\ clock < start[p] + Lease /\ clock < start[p] + TTL
    <2>1. pc[p] \in Claiming
      BY DEF Claims, Claiming
    <2>2. start[p] \in 1 .. clock /\ clock \in 1 .. MaxTime /\ clock < start[p] + Lease
      BY <1>2, <2>1, Underway DEF Inv, Timely
    <2> QED BY <2>2, StoreConstants
  <1>4. \A q \in Procs : pc'[q] \in Owning =>
          q = p /\ pc'[p] = "execute" /\ Same(p) /\ seen'[p].id = record'.id
    BY <1>2 DEF Claims, Owning, Others
  <1>5. /\ record'.id \in 1 .. lastId' /\ lastId <= lastId' /\ lastId \in Nat
        /\ \A i \in 1 .. lastId : record'.id = i => record'.id = record.id /\ record # Absent
    <2>1. CASE record = Absent /\ lastId' = lastId + 1 /\ record'.id = lastId'
      BY <1>2, <2>1 DEF StoreTypeOK
    <2>2. CASE record # Absent /\ lastId' = lastId /\ record'.id = record.id
      <3>1. record.id \in 1 .. lastId /\ lastId \in Nat
        BY <1>2, <2>2, RecordType DEF StoreTypeOK
      <3> QED BY <2>2, <3>1
    <2> QED BY <2>1, <2>2 DEF Claims
  <1>6. record' # Absent
    BY <1>2, <1>5, RecordType
  <1>7. IdsTimely'
    <2>1. lastId' <= clock
      BY <1>2, <1>3, <1>5 DEF Claims, Inv, IdsTimely
    <2>2. lastId' < record'.expiresAt
      BY <1>2, <1>3, <2>1, StoreConstants
    <2> QED BY <1>2, <1>6, <2>1, <2>2 DEF IdsTimely, Absent
  <1>8. Timely'
    <2> SUFFICES ASSUME NEW q \in Procs, pc'[q] # "idle"
                 PROVE  /\ payload'[q] \in Fingerprints /\ start'[q] \in 1 .. clock
                        /\ pc'[q] \in Claiming => clock < start'[q] + Lease
                        /\ pc'[q] \in Owning   => clock < start'[q] + TTL
      BY <1>2 DEF Timely
    <2>1. CASE q = p
      <3>1. pc'[p] = "execute" /\ Same(p) /\ pc'[p] \notin Claiming
        BY <2>1 DEF Claims, Claiming
      <3> QED BY <1>2, <1>3, <2>1, <3>1, Underway DEF Same
    <2>2. CASE q # p
      BY <1>2, <2>2 DEF Inv, Timely, Others
    <2> QED BY <2>1, <2>2
  <1>9. Remembers'
    <2> SUFFICES ASSUME NEW q \in Procs, pc'[q] \in {"takeover", "reclaim"} \cup Owning
                 PROVE  /\ seen'[q].id \in 1 .. lastId'
                        /\ record'.id = seen'[q].id => record'.fingerprint = payload'[q]
      BY DEF Remembers
    <2>1. CASE q = p
      <3>1. pc'[p] = "execute" /\ Same(p) /\ seen'[p].id = record'.id
        BY <2>1 DEF Claims, Owning
      <3> QED BY <1>2, <1>5, <2>1, <3>1 DEF Same
    <2>2. CASE q # p
      <3>1. pc'[q] = pc[q] /\ seen'[q] = seen[q] /\ payload'[q] = payload[q]
        BY <1>2, <2>2 DEF Others
      <3>2. seen[q].id \in 1 .. lastId /\ (record.id = seen[q].id => record.fingerprint = payload[q])
        BY <3>1 DEF Inv, Remembers
      <3>3. record'.id = seen[q].id => record.id = seen[q].id /\ record'.fingerprint = record.fingerprint
        <4> SUFFICES ASSUME record'.id = seen[q].id
                     PROVE  record.id = seen[q].id /\ record'.fingerprint = record.fingerprint
          OBVIOUS
        <4>1. record'.id = record.id /\ record # Absent
          BY <1>5, <3>2
        <4> QED BY <4>1 DEF Claims
      <3>4. seen[q].id \in 1 .. lastId'
        BY <1>2, <1>5, <3>2, StoreConstants
      <3> QED BY <3>1, <3>2, <3>3, <3>4
    <2> QED BY <2>1, <2>2
  <1>10. OwnsRecord'
    BY <1>2, <1>4 DEF OwnsRecord, Same
  <1>11. LockedOut'
    <2> SUFFICES ASSUME NEW o \in Procs, NEW q \in Procs, pc'[o] \in Owning, pc'[q] = "takeover"
                 PROVE  start'[q] < start'[o] + Lease
      BY DEF LockedOut
    <2>1. o = p /\ start'[p] = start[p] /\ q # p
      BY <1>4 DEF Same
    <2>2. start'[q] = start[q] /\ pc[q] = "takeover"
      BY <1>2, <2>1 DEF Others
    <2>3. start[q] \in 1 .. clock
      BY <2>2 DEF Inv, Timely
    <2> QED BY <1>3, <2>1, <2>2, <2>3, StoreConstants
  <1>12. OneOwner'
    BY <1>4 DEF OneOwner
  <1>13. ReplayIsOwn'
    BY <1>2 DEF ReplayIsOwn
  <1> QED BY <1>1, <1>7, <1>8, <1>9, <1>10, <1>11, <1>12, <1>13 DEF Inv

\* An owner that executes or records what came of it.
LEMMA OwnerInv ==
  ASSUME Inv, NEW p \in Procs, Shaped(p), pc[p] \in Owning, Marks(p) \/ Executes(p)
  PROVE  Inv'
  <1>1. TypeOK'
    BY ShapedType
  <1>2. /\ UNCHANGED <<lastId, clock>> /\ Others(p) /\ pc[p] # "idle"
        /\ record \in Records /\ record' \in Records
        /\ record'.id = record.id /\ record'.fingerprint = record.fingerprint
        /\ record'.expiresAt = start[p] + TTL /\ record.expiresAt = start[p] + TTL
    BY Underway DEF Shaped, Typed, Marks, Executes, Inv, OwnsRecord
  <1>3. \A q \in Procs : pc'[q] \in Owning =>
          q = p /\ Executes(p) /\ Same(p) /\ seen'[p] = seen[p] /\ record' = record
    BY <1>2 DEF Inv, OneOwner, Others, Marks, Executes, Owning
  <1>4. record # Absent /\ record' # Absent
    <2>1. record.id \in 1 .. lastId
      BY DEF Inv, OwnsRecord, Remembers
    <2> QED BY <1>2, <2>1, RecordType
  <1>5. IdsTimely'
    BY <1>2, <1>4 DEF Inv, IdsTimely
  <1>6. Timely'
    <2>1. pc'[p] = "idle" \/ (pc'[p] \in Owning /\ Same(p))
      BY DEF Marks, Executes, Owning
    <2> QED BY <1>2, <2>1 DEF Inv, Timely, Others, Same, Owning, Claiming
  <1>7. Remembers'
    <2>1. pc'[p] = "idle" \/ (pc'[p] \in Owning /\ Same(p) /\ seen'[p] = seen[p])
      BY DEF Marks, Executes, Owning
    <2> SUFFICES ASSUME NEW q \in Procs, pc'[q] \in {"takeover", "reclaim"} \cup Owning
                 PROVE  /\ seen'[q].id \in 1 .. lastId
                        /\ record'.id = seen'[q].id => record'.fingerprint = payload'[q]
      BY <1>2 DEF Remembers
    <2>2. seen'[q] = seen[q] /\ payload'[q] = payload[q]
          /\ pc[q] \in {"takeover", "reclaim"} \cup Owning
      BY <1>2, <2>1 DEF Others, Same, Owning
    <2>3. seen[q].id \in 1 .. lastId /\ (record.id = seen[q].id => record.fingerprint = payload[q])
      BY <2>2 DEF Inv, Remembers
    <2> QED BY <1>2, <2>2, <2>3
  <1>8. OwnsRecord'
    BY <1>3 DEF Inv, OwnsRecord, Same
  <1>9. LockedOut'
    <2> SUFFICES ASSUME NEW o \in Procs, NEW q \in Procs, pc'[o] \in Owning, pc'[q] = "takeover",
                        seen'[q].id = record'.id, seen'[q].status = "processing"
                 PROVE  start'[q] < start'[o] + Lease
      BY DEF LockedOut
    <2>1. o = p /\ start'[o] = start[o] /\ record' = record
      BY <1>3 DEF Same
    <2>2. q # p
      BY <2>1 DEF Owning
    <2> QED BY <1>2, <2>1, <2>2 DEF Inv, LockedOut, Others
  <1>10. OneOwner'
    BY <1>3 DEF OneOwner
  <1>11. ReplayIsOwn'
    <2>1. CASE Executes(p)
      BY <2>1 DEF Executes, Inv, ReplayIsOwn
    <2>2. CASE Marks(p)
      <3>1. record.fingerprint = payload[p]
        BY DEF Inv, OwnsRecord, Remembers
      <3> QED BY <1>2, <2>2, <3>1 DEF Marks, ReplayIsOwn
    <2> QED BY <2>1, <2>2
  <1> QED BY <1>1, <1>5, <1>6, <1>7, <1>8, <1>9, <1>10, <1>11 DEF Inv

\* A request that begins holds nothing yet.
LEMMA BeginInv ==
  ASSUME Inv, NEW p \in Procs, NEW f \in Fingerprints, Begin(p, f)
  PROVE  Inv'
  <1>1. /\ UNCHANGED <<record, lastId, clock, seen, effects, overtaken, faults, crashes>> /\ pc[p] = "idle"
        /\ pc' = [pc EXCEPT ![p] = "create"] /\ payload' = [payload EXCEPT ![p] = f]
        /\ start' = [start EXCEPT ![p] = clock]
    BY DEF Begin, store
  <1>2. TypeOK /\ clock \in 1 .. MaxTime /\ clock \in Nat
    BY StoreConstants DEF Inv, TypeOK, StoreTypeOK
  <1>3. TypeOK'
    BY <1>1, <1>2 DEF TypeOK, StoreTypeOK, Labels, Claiming
  <1>4. \A q \in Procs : /\ pc'[q] = IF q = p THEN "create" ELSE pc[q]
                         /\ payload'[q] = IF q = p THEN f ELSE payload[q]
                         /\ start'[q] = IF q = p THEN clock ELSE start[q]
    BY <1>1, <1>2 DEF TypeOK
  <1>5. IdsTimely' /\ ReplayIsOwn'
    BY <1>1 DEF Inv, IdsTimely, ReplayIsOwn
  <1>6. Timely'
    <2>1. clock \in 1 .. clock /\ clock < clock + Lease
      BY <1>2, StoreConstants
    <2> QED BY <1>1, <1>4, <2>1 DEF Inv, Timely, Owning
  <1>7. Remembers' /\ OwnsRecord' /\ LockedOut' /\ OneOwner'
    BY <1>1, <1>4 DEF Inv, Remembers, OwnsRecord, LockedOut, OneOwner, Owning
  <1> QED BY <1>3, <1>5, <1>6, <1>7 DEF Inv

\* A request that is lost is one that returns.
LEMMA CrashShape ==
  ASSUME Inv, NEW p \in Procs, Crash(p)
  PROVE  Shaped(p) /\ Looks(p)
  <1>1. /\ pc[p] # "idle" /\ UNCHANGED <<record, lastId, clock, effects, overtaken, faults>> /\ Return(p)
        /\ crashes' = crashes + 1 /\ crashes < MaxCrashes
    BY DEF Crash, store
  <1>2. /\ record \in Records /\ lastId \in 0 .. MaxTime /\ HandlerType
        /\ faults \in 0 .. MaxFaults /\ crashes \in 0 .. MaxCrashes
    BY <1>1, Underway
  <1>3. crashes' \in 0 .. MaxCrashes
    BY <1>1, <1>2, IdempotencyConstants
  <1> QED BY <1>1, <1>2, <1>3, ReturnStep DEF Shaped, Typed, Looks

\* Time does not overtake a request.
LEMMA TickInv ==
  ASSUME Inv, Tick
  PROVE  Inv'
  <1>1. /\ UNCHANGED <<record, lastId, pc, payload, start, seen, effects, overtaken, faults, crashes>>
        /\ clock' = clock + 1 /\ clock < MaxTime /\ \A p \in Procs : OnTime(p)
        /\ clock \in 1 .. MaxTime /\ lastId \in 0 .. MaxTime /\ TypeOK
    BY DEF Tick, handlers, Inv, TypeOK, StoreTypeOK
  <1>2. clock \in Nat /\ clock' \in 1 .. MaxTime /\ clock < clock'
    BY <1>1, StoreConstants
  <1>3. TypeOK'
    BY <1>1, <1>2 DEF TypeOK, StoreTypeOK
  <1>4. IdsTimely'
    BY <1>1, <1>2 DEF Inv, IdsTimely
  <1>5. Timely'
    <2> SUFFICES ASSUME NEW p \in Procs, pc[p] # "idle"
                 PROVE  /\ payload[p] \in Fingerprints /\ start[p] \in 1 .. clock'
                        /\ pc[p] \in Claiming => clock' < start[p] + Lease
                        /\ pc[p] \in Owning   => clock' < start[p] + TTL
      BY <1>1 DEF Timely
    <2>1. payload[p] \in Fingerprints /\ start[p] \in 1 .. clock
      BY DEF Inv, Timely
    <2>2. OnTime(p)
      BY <1>1
    <2> QED BY <1>1, <1>2, <2>1, <2>2 DEF OnTime
  <1>6. Remembers' /\ OwnsRecord' /\ LockedOut' /\ OneOwner' /\ ReplayIsOwn'
    BY <1>1 DEF Inv, Remembers, OwnsRecord, LockedOut, OneOwner, ReplayIsOwn
  <1> QED BY <1>3, <1>4, <1>5, <1>6 DEF Inv

\* The cleanup finds no owner: an owner is over before its row expires.
LEMMA CleanupInv ==
  ASSUME Inv, Cleanup
  PROVE  Inv'
  <1>1. /\ UNCHANGED <<lastId, clock, pc, payload, start, seen, effects, overtaken, faults, crashes>>
        /\ record # Absent /\ record.expiresAt <= clock /\ record' = Absent
        /\ clock \in 1 .. MaxTime /\ lastId \in 0 .. MaxTime /\ TypeOK /\ record \in Records
    BY DEF Cleanup, DeleteExpired, Deletable, handlers, Inv, TypeOK, StoreTypeOK
  <1>2. record' \in Records /\ record'.id = 0 /\ record'.status = "none"
    BY <1>1 DEF Records, Absent
  <1>3. TypeOK'
    BY <1>1, <1>2 DEF TypeOK, StoreTypeOK
  <1>4. IdsTimely'
    BY <1>1, RecordType DEF Inv, IdsTimely
  <1>5. \A p \in Procs : pc[p] \notin Owning
    <2> SUFFICES ASSUME NEW p \in Procs, pc[p] \in Owning PROVE FALSE
      OBVIOUS
    <2>1. record.expiresAt = start[p] + TTL /\ clock < start[p] + TTL /\ start[p] \in 1 .. clock
      BY DEF Inv, OwnsRecord, Timely, Owning
    <2> QED BY <1>1, <2>1, StoreConstants
  <1>6. Remembers'
    <2> SUFFICES ASSUME NEW p \in Procs, pc[p] \in {"takeover", "reclaim"} \cup Owning
                 PROVE  seen[p].id \in 1 .. lastId /\ record'.id # seen[p].id
      BY <1>1 DEF Remembers
    <2>1. seen[p].id \in 1 .. lastId
      BY DEF Inv, Remembers
    <2> QED BY <1>1, <1>2, <2>1
  <1>7. Timely' /\ OwnsRecord' /\ LockedOut' /\ OneOwner' /\ ReplayIsOwn'
    BY <1>1, <1>2, <1>5 DEF Inv, Timely, OwnsRecord, LockedOut, OneOwner, ReplayIsOwn
  <1> QED BY <1>3, <1>4, <1>6, <1>7 DEF Inv

\* The invariant holds in the initial state.
LEMMA InvInit == Init => Inv
  <1> SUFFICES ASSUME Init PROVE Inv
    OBVIOUS
  <1>1. TypeOK
    BY StoreConstants, IdempotencyConstants
       DEF Init, StoreInit, TypeOK, StoreTypeOK, Records, Absent, Labels, Nothing, Statuses
  <1>2. IdsTimely /\ ReplayIsOwn
    BY DEF Init, StoreInit, IdsTimely, ReplayIsOwn, Absent
  <1>3. Timely /\ Remembers /\ OwnsRecord /\ LockedOut /\ OneOwner
    BY DEF Init, Timely, Remembers, OwnsRecord, LockedOut, OneOwner, Owning
  <1> QED BY <1>1, <1>2, <1>3 DEF Inv

\* Every step keeps the invariant.
LEMMA InvNext == ASSUME Lease <= TTL PROVE Inv /\ [Next]_vars => Inv'
  <1> SUFFICES ASSUME Inv, [Next]_vars PROVE Inv'
    OBVIOUS
  <1>1. ASSUME NEW p \in Procs, RequestStep(p) PROVE Inv'
    <2>1. Shaped(p)
      BY <1>1, StepShape
    <2>2. Marks(p) \/ Executes(p) => pc[p] \in Owning
      BY DEF Marks, Executes, Owning
    <2> QED BY <2>1, <2>2, LooksInv, ClaimsInv, OwnerInv DEF Shaped
  <1>2. ASSUME NEW p \in Procs, Crash(p) PROVE Inv'
    BY <1>2, CrashShape, LooksInv
  <1>3. CASE UNCHANGED vars
    BY <1>3 DEF vars, store, handlers, Inv, TypeOK, StoreTypeOK, IdsTimely, Timely, Remembers,
       OwnsRecord, LockedOut, OneOwner, ReplayIsOwn
  <1> QED BY <1>1, <1>2, <1>3, BeginInv, TickInv, CleanupInv DEF Next


-----------------------------------------------------------------------------
(* The effects *)

\* Each effect has a beginning.
LEMMA EffectType ==
  ASSUME Inv
  PROVE  \A i \in 1 .. Len(effects) : effects[i].from \in 1 .. MaxTime
  <1> SUFFICES ASSUME NEW i \in 1 .. Len(effects) PROVE effects[i].from \in 1 .. MaxTime
    OBVIOUS
  <1> DEFINE E == [from : 1 .. MaxTime, at : 1 .. MaxTime, of : Fingerprints]
  <1>1. effects \in Seq(E)
    BY DEF Inv, TypeOK
  <1>2. effects[i] \in E
    <2> HIDE DEF E
    <2> QED BY <1>1
  <1> QED BY <1>2

\* A request that ends or looks on leaves the row and the effects.
LEMMA LooksEffects ==
  ASSUME Inv, EffectsInv, NEW p \in Procs, Shaped(p), Looks(p)
  PROVE  EffectsInv'
  <1>1. UNCHANGED <<record, lastId, effects, overtaken, clock>> /\ Others(p) /\ pc[p] # "idle"
    BY DEF Looks, Shaped, Typed
  <1>2. TakesExpired'
    <2> SUFFICES ASSUME NEW q \in Procs, pc'[q] = "takeover", seen'[q].id = record.id,
                        record.status = "processing"
                 PROVE  record.expiresAt <= start'[q] \/ start'[q] < record.lockedUntil
      BY <1>1 DEF TakesExpired
    <2>1. CASE q = p
      BY <2>1 DEF Looks, Same
    <2>2. CASE q # p
      BY <1>1, <2>2 DEF EffectsInv, TakesExpired, Others
    <2> QED BY <2>1, <2>2
  <1>3. \A q \in Procs : pc'[q] \in {"execute", "markfailed"} => pc[q] = pc'[q]
    BY <1>1 DEF Looks, Others
  <1>4. Protected' /\ EffectsApart'
    BY <1>1, <1>3 DEF EffectsInv, Protected, Covered, EffectsApart
  <1> QED BY <1>2, <1>4 DEF EffectsInv

\* An insertion or a takeover comes after the time to live of every effect, unless it
\* takes the record of a success.
LEMMA ClaimsEffects ==
  ASSUME Inv, EffectsInv, NEW p \in Procs, Shaped(p), Claims(p)
  PROVE  /\ EffectsInv'
         /\ record.status = "succeeded" => clock >= record.expiresAt \/ Overtakes(p)
  <1>1. /\ UNCHANGED <<effects, clock>> /\ Others(p) /\ pc[p] # "idle" /\ record \in Records
        /\ StoreTypeOK /\ record'.lockedUntil = start[p] + Lease /\ pc'[p] \notin Claiming
        /\ start[p] \in 1 .. clock /\ clock \in 1 .. MaxTime /\ pc[p] \in Claiming
    BY Underway DEF Claims, Shaped, Typed, Claiming
  <1>2. clock < start[p] + Lease /\ start[p] \in Nat /\ clock \in Nat
    BY <1>1, StoreConstants DEF Inv, Timely
  <1>3. TakesExpired'
    <2> SUFFICES ASSUME NEW q \in Procs, pc'[q] = "takeover" PROVE start'[q] < record'.lockedUntil
      BY DEF TakesExpired
    <2>1. q # p /\ pc[q] = "takeover" /\ start'[q] = start[q]
      BY <1>1 DEF Others, Claiming
    <2>2. start[q] \in 1 .. clock
      BY <2>1 DEF Inv, Timely
    <2> QED BY <1>1, <1>2, <2>1, <2>2, StoreConstants
  <1>4. CASE Overtakes(p) /\ overtaken' = Len(effects)
    <2>1. \A i \in 1 .. Len(effects) : ~(i > Len(effects))
      BY DEF Inv, TypeOK
    <2> QED BY <1>1, <1>3, <1>4, <2>1 DEF EffectsInv, Protected, EffectsApart
  <1>5. CASE overtaken' = overtaken /\ (record.status = "succeeded" => record.expiresAt <= start[p])
    <2>1. record = Absent => record.status = "none"
      BY <1>1, RecordType
    <2>2. record.status = "processing" => record.expiresAt <= start[p]
      <3> SUFFICES ASSUME record.status = "processing" PROVE record.expiresAt <= start[p]
        OBVIOUS
      <3>1. /\ pc[p] = "takeover" /\ seen[p].id = record.id
            /\ record.lockedUntil <= start[p] /\ record.lockedUntil \in Nat
        BY <1>1, <2>1, RecordType DEF Claims
      <3>2. record.expiresAt <= start[p] \/ start[p] < record.lockedUntil
        BY <3>1 DEF EffectsInv, TakesExpired
      <3> QED BY <1>2, <3>1, <3>2
    <2>3. record.status \in {"processing", "succeeded"} => record.expiresAt <= clock
      BY <1>1, <1>2, <1>5, <2>2, RecordType
    <2>4. ASSUME NEW i \in 1 .. Len(effects), i > overtaken
          PROVE  clock >= effects[i].from + TTL
      <3>1. effects[i].from \in 1 .. MaxTime
        BY EffectType
      <3>2. clock >= effects[i].from + TTL \/ Covered(effects[i])
        BY <2>4 DEF EffectsInv, Protected
      <3>3. CASE Covered(effects[i])
        <4>1. record.expiresAt <= clock /\ record.expiresAt >= effects[i].from + TTL
          BY <2>3, <3>3 DEF Covered
        <4> QED BY <1>1, <3>1, <4>1, RecordType, StoreConstants
      <3> QED BY <3>2, <3>3
    <2>5. Protected' /\ EffectsApart'
      BY <1>1, <1>5, <2>4 DEF Protected, EffectsInv, EffectsApart
    <2>6. record.status = "succeeded" => clock >= record.expiresAt
      BY <1>1, <2>3, RecordType
    <2> QED BY <1>3, <2>5, <2>6 DEF EffectsInv
  <1> QED BY <1>4, <1>5 DEF Claims, Overtakes

\* The owner's row covers its effect, whatever is recorded of it.
LEMMA OwnerEffects ==
  ASSUME Inv, EffectsInv, NEW p \in Procs, Shaped(p), pc[p] \in Owning,
         Marks(p) \/ Executes(p)
  PROVE  EffectsInv'
  <1>1. /\ UNCHANGED <<lastId, clock, overtaken>> /\ Others(p) /\ pc[p] # "idle"
        /\ record'.expiresAt = start[p] + TTL /\ record.expiresAt = start[p] + TTL
        /\ pc'[p] \notin Claiming
        /\ start[p] \in 1 .. clock /\ clock \in 1 .. MaxTime
        /\ clock \in Nat /\ start[p] \in Nat /\ overtaken \in Nat
    <2>1. start[p] \in 1 .. clock /\ clock \in 1 .. MaxTime /\ pc[p] # "idle"
      BY Underway DEF Owning
    <2>2. record.expiresAt = start[p] + TTL /\ overtaken \in 0 .. Len(effects)
      BY <2>1 DEF Inv, OwnsRecord, TypeOK
    <2> QED BY <2>1, <2>2, StoreConstants DEF Shaped, Typed, Marks, Executes, Claiming
  <1>2. record.status = "processing"
    BY DEF Inv, OwnsRecord
  <1>3. TakesExpired'
    <2>1. CASE Marks(p)
      BY <2>1 DEF Marks, TakesExpired
    <2>2. CASE Executes(p)
      <3>1. \A q \in Procs : pc'[q] = "takeover" =>
              pc[q] = "takeover" /\ seen'[q] = seen[q] /\ start'[q] = start[q]
        BY <1>1 DEF Others, Claiming
      <3> QED BY <2>2, <3>1 DEF Executes, EffectsInv, TakesExpired
    <2> QED BY <2>1, <2>2
  <1>4. effects \in Seq([from : 1 .. MaxTime, at : 1 .. MaxTime, of : Fingerprints])
    BY DEF Inv, TypeOK
  <1>5. \A q \in Procs : q # p => pc'[q] \notin Owning
    BY <1>1 DEF Inv, OneOwner, Others
  <1>6. pc[p] \in {"execute", "markfailed"} =>
          \A i \in 1 .. Len(effects) : i > overtaken => clock >= effects[i].from + TTL
    BY DEF EffectsInv, Protected, Covered
  <1>7. CASE effects' = Append(effects, [from |-> start[p], at |-> clock, of |-> payload[p]])
             /\ Executes(p) /\ pc'[p] = "marksucceeded"
    <2> DEFINE e == [from |-> start[p], at |-> clock, of |-> payload[p]]
    <2>1. /\ Len(effects') = Len(effects) + 1 /\ Len(effects) \in Nat
          /\ \A i \in 1 .. Len(effects) : effects'[i] = effects[i]
          /\ effects'[Len(effects) + 1] = e
      BY <1>4, <1>7
    <2>2. \A i \in 1 .. Len(effects) : i > overtaken => clock >= effects[i].from + TTL
      BY <1>6, <1>7 DEF Executes
    <2>3. /\ record'.status \in {"processing", "succeeded"} /\ record'.expiresAt >= e.from + TTL
          /\ \A q \in Procs : pc'[q] \notin {"execute", "markfailed"}
      <3>1. record' = record /\ record'.expiresAt >= start[p] + TTL
        BY <1>1, <1>7, StoreConstants DEF Executes
      <3>2. \A q \in Procs : pc'[q] \notin {"execute", "markfailed"}
        BY <1>5, <1>7 DEF Owning
      <3> QED BY <1>2, <3>1, <3>2
    <2> HIDE DEF e
    <2>4. Protected'
      <3> SUFFICES ASSUME NEW i \in 1 .. Len(effects'), i > overtaken
                   PROVE  \/ clock' >= effects'[i].from + TTL
                          \/ /\ record'.status \in {"processing", "succeeded"}
                             /\ record'.expiresAt >= effects'[i].from + TTL
                             /\ \A q \in Procs : pc'[q] \notin {"execute", "markfailed"}
        BY <1>1 DEF Protected, Covered
      <3>1. CASE i = Len(effects) + 1
        BY <2>1, <2>3, <3>1
      <3>2. CASE i \in 1 .. Len(effects)
        BY <1>1, <2>1, <2>2, <3>2
      <3> QED BY <2>1, <3>1, <3>2
    <2> USE DEF e
    <2>5. EffectsApart'
      <3> SUFFICES ASSUME NEW i \in 1 .. Len(effects'), NEW j \in 1 .. Len(effects'), i < j,
                          i > overtaken
                   PROVE  effects'[j].at >= effects'[i].from + TTL
        BY <1>1 DEF EffectsApart
      <3>1. i \in 1 .. Len(effects) /\ effects'[i] = effects[i]
        BY <2>1
      <3>2. CASE j = Len(effects) + 1
        BY <2>1, <2>2, <3>1, <3>2
      <3>3. CASE j \in 1 .. Len(effects)
        BY <2>1, <3>1, <3>3 DEF EffectsInv, EffectsApart
      <3> QED BY <2>1, <3>2, <3>3
    <2> QED BY <1>3, <2>4, <2>5 DEF EffectsInv
  <1>8. CASE UNCHANGED effects
    <2>1. EffectsApart'
      BY <1>1, <1>8 DEF EffectsInv, EffectsApart
    <2>2. CASE pc[p] \in {"execute", "markfailed"}
      <3>1. Protected'
        BY <1>1, <1>6, <1>8, <2>2 DEF Protected
      <3> QED BY <1>3, <2>1, <3>1 DEF EffectsInv
    <2>3. CASE pc[p] = "marksucceeded"
      <3>1. /\ record'.status = "succeeded" /\ pc'[p] = "idle"
            /\ record'.expiresAt = record.expiresAt
        BY <1>1, <2>3 DEF Marks, Executes
      <3>2. \A q \in Procs : pc'[q] \notin {"execute", "markfailed"}
        BY <1>5, <3>1 DEF Owning
      <3>3. Protected'
        BY <1>1, <1>8, <3>1, <3>2 DEF EffectsInv, Protected, Covered
      <3> QED BY <1>3, <2>1, <3>3 DEF EffectsInv
    <2> QED BY <2>2, <2>3 DEF Owning
  <1> QED BY <1>7, <1>8 DEF Marks, Executes

\* A request that begins owns nothing and has read nothing.
LEMMA BeginEffects ==
  ASSUME Inv, EffectsInv, NEW p \in Procs, NEW f \in Fingerprints, Begin(p, f)
  PROVE  EffectsInv'
  <1>1. UNCHANGED <<record, lastId, clock, seen, effects, overtaken>>
    BY DEF Begin, store
  <1>2. \A q \in Procs : /\ pc'[q] = IF q = p THEN "create" ELSE pc[q]
                         /\ start'[q] = IF q = p THEN clock ELSE start[q]
    BY DEF Begin, Inv, TypeOK
  <1>3. TakesExpired'
    BY <1>1, <1>2 DEF EffectsInv, TakesExpired
  <1>4. Protected' /\ EffectsApart'
    BY <1>1, <1>2 DEF EffectsInv, Protected, Covered, EffectsApart
  <1> QED BY <1>3, <1>4 DEF EffectsInv

\* Time passes: an effect only gets older.
LEMMA TickEffects ==
  ASSUME Inv, EffectsInv, Tick
  PROVE  EffectsInv'
  <1>1. /\ UNCHANGED <<record, pc, start, seen, effects, overtaken>> /\ clock' = clock + 1
        /\ clock \in 1 .. MaxTime /\ \A i \in 1 .. Len(effects) : effects[i].from \in 1 .. MaxTime
    BY EffectType DEF Tick, handlers, Inv, TypeOK, StoreTypeOK
  <1>2. TakesExpired' /\ EffectsApart'
    BY <1>1 DEF EffectsInv, TakesExpired, EffectsApart
  <1>3. Protected'
    <2> SUFFICES ASSUME NEW i \in 1 .. Len(effects), i > overtaken
                 PROVE  clock' >= effects[i].from + TTL \/ Covered(effects[i])'
      BY <1>1 DEF Protected
    <2>1. clock >= effects[i].from + TTL \/ Covered(effects[i])
      BY DEF EffectsInv, Protected
    <2>2. clock >= effects[i].from + TTL => clock' >= effects[i].from + TTL
      BY <1>1, StoreConstants
    <2>3. Covered(effects[i]) => Covered(effects[i])'
      BY <1>1 DEF Covered
    <2> QED BY <2>1, <2>2, <2>3
  <1> QED BY <1>2, <1>3 DEF EffectsInv

\* The cleanup deletes a row that covers nothing any more.
LEMMA CleanupEffects ==
  ASSUME Inv, EffectsInv, Cleanup
  PROVE  EffectsInv'
  <1>1. /\ UNCHANGED <<clock, pc, start, seen, effects, overtaken>> /\ record' = Absent
        /\ record.expiresAt <= clock /\ clock \in 1 .. MaxTime /\ record \in Records
        /\ \A i \in 1 .. Len(effects) : effects[i].from \in 1 .. MaxTime
    BY EffectType DEF Cleanup, DeleteExpired, Deletable, handlers, Inv, TypeOK, StoreTypeOK
  <1>2. TakesExpired' /\ EffectsApart'
    BY <1>1 DEF TakesExpired, Absent, EffectsInv, EffectsApart
  <1>3. Protected'
    <2> SUFFICES ASSUME NEW i \in 1 .. Len(effects), i > overtaken
                 PROVE  clock >= effects[i].from + TTL
      BY <1>1 DEF Protected
    <2>1. clock >= effects[i].from + TTL \/ Covered(effects[i])
      BY DEF EffectsInv, Protected
    <2>2. Covered(effects[i]) => record.expiresAt >= effects[i].from + TTL
      BY DEF Covered
    <2> QED BY <1>1, <2>1, <2>2, RecordType, StoreConstants
  <1> QED BY <1>2, <1>3 DEF EffectsInv

\* The invariant of the effects holds in the initial state.
LEMMA EffectsInit == Init => EffectsInv
  BY DEF Init, StoreInit, EffectsInv, TakesExpired, Protected, EffectsApart

\* Every step keeps it.
LEMMA EffectsNext ==
  ASSUME Lease <= TTL
  PROVE  Inv /\ EffectsInv /\ [Next]_vars => EffectsInv'
  <1> SUFFICES ASSUME Inv, EffectsInv, [Next]_vars PROVE EffectsInv'
    OBVIOUS
  <1>1. ASSUME NEW p \in Procs, RequestStep(p) PROVE EffectsInv'
    <2>1. Shaped(p)
      BY <1>1, StepShape
    <2>2. Marks(p) \/ Executes(p) => pc[p] \in Owning
      BY DEF Marks, Executes, Owning
    <2> QED BY <2>1, <2>2, LooksEffects, ClaimsEffects, OwnerEffects DEF Shaped
  <1>2. ASSUME NEW p \in Procs, Crash(p) PROVE EffectsInv'
    BY <1>2, CrashShape, LooksEffects
  <1>3. CASE UNCHANGED vars
    BY <1>3 DEF vars, store, handlers, EffectsInv, TakesExpired, Protected, Covered, EffectsApart
  <1> QED BY <1>1, <1>2, <1>3, BeginEffects, TickEffects, CleanupEffects DEF Next

-----------------------------------------------------------------------------
(* The theorems *)

\* The invariant holds in every reachable state.
LEMMA InvHolds == Lease <= TTL => (Spec => []Inv)
  <1> SUFFICES ASSUME Lease <= TTL PROVE Spec => []Inv
    OBVIOUS
  <1>1. Inv /\ [Next]_vars => Inv'
    BY InvNext
  <1> QED BY <1>1, InvInit, PTL DEF Spec

\* CreateProcessing, TryReclaim, DeleteExpired: a key has one owner at a time, also when
\* several requests find it expired at once.
THEOREM OwnerExclusive == Lease <= TTL => (Spec => []OneOwner)
  <1>1. Inv => OneOwner
    BY DEF Inv
  <1> QED BY <1>1, InvHolds, PTL

\* MarkSucceeded by id: the response that will be replayed answers the fingerprint it is
\* stored with.
THEOREM ReplayMatches == Lease <= TTL => (Spec => []ReplayIsOwn)
  <1>1. Inv => ReplayIsOwn
    BY DEF Inv
  <1> QED BY <1>1, InvHolds, PTL

\* Both invariants hold in every reachable state.
LEMMA EffectsHold == Lease <= TTL => (Spec => [](Inv /\ EffectsInv))
  <1> SUFFICES ASSUME Lease <= TTL PROVE Spec => [](Inv /\ EffectsInv)
    OBVIOUS
  <1>1. Inv /\ EffectsInv /\ [Next]_vars => Inv' /\ EffectsInv'
    BY InvNext, EffectsNext
  <1> QED BY <1>1, InvInit, EffectsInit, PTL DEF Spec

\* Execute: a request that had its effect is not executed again within the time to live,
\* unless its record was lost to a raced takeover.
THEOREM EffectOnce == Lease <= TTL => (Spec => []EffectsApart)
  <1>1. EffectsInv => EffectsApart
    BY DEF EffectsInv
  <1> QED BY <1>1, EffectsHold, PTL

\* TryReclaim, the marks and DeleteExpired leave a recorded success alone until it
\* expires; only a takeover decided before it was recorded does not.
THEOREM SuccessStays == Lease <= TTL => (Spec => SuccessIsKept)
  <1> SUFFICES ASSUME Lease <= TTL PROVE Spec => SuccessIsKept
    OBVIOUS
  <1>1. ASSUME Inv, EffectsInv, [Next]_vars
        PROVE  [record.status = "succeeded" /\ record' # record
                  => \/ clock >= record.expiresAt
                     \/ \E p \in Procs : Overtakes(p) /\ pc'[p] # "takeover"]_vars
    <2> SUFFICES ASSUME Next, record.status = "succeeded", record' # record
                 PROVE  \/ clock >= record.expiresAt
                        \/ \E p \in Procs : Overtakes(p) /\ pc'[p] # "takeover"
      BY <1>1
    <2> USE <1>1
    <2>1. CASE \E p \in Procs : RequestStep(p)
      <3>1. PICK p \in Procs : RequestStep(p)
        BY <2>1
      <3>2. Shaped(p)
        BY <3>1, StepShape
      <3>3. ~Marks(p)
        BY DEF Marks, Inv, OwnsRecord, Owning
      <3>4. Claims(p)
        BY <3>2, <3>3 DEF Shaped, Looks, Executes
      <3>5. pc'[p] # "takeover"
        BY <3>4 DEF Claims
      <3> QED BY <3>2, <3>4, <3>5, ClaimsEffects
    <2>2. CASE Cleanup
      <3>1. record.expiresAt <= clock /\ record \in Records /\ clock \in 1 .. MaxTime
        BY <2>2 DEF Cleanup, DeleteExpired, Deletable, Inv, TypeOK, StoreTypeOK
      <3> QED BY <3>1, RecordType
    <2> QED BY <2>1, <2>2 DEF Next, Begin, Crash, Tick, store
  <1> QED BY <1>1, EffectsHold, PTL DEF Spec, SuccessIsKept

=============================================================================
