------------------------- MODULE ConcurrencySlotsProofs -------------------------
(***************************************************************************)
(* Proofs about ConcurrencySlots for any requests, instances, limits and   *)
(* queues, and any number of failures, disconnected clients, crashes and   *)
(* starts: the limits on running requests, one sender at a time, and       *)
(* counters that stand for requests that wait.                             *)
(***************************************************************************)
EXTENDS ConcurrencySlots, FiniteSetTheorems, TLAPS

\* The types of what the properties depend on.
SlotType ==
  /\ slots \in [Levels -> SUBSET Members]
  /\ pc \in [Requests -> Labels] /\ level \in [Requests -> Levels]
  /\ hold \in [Levels -> [Requests -> Members \cup {None}]]
  /\ queued \in [Requests -> BOOLEAN]

\* The scripts keep the sets within their limits.
WithinLimit ==
  \A k \in Levels : IsFiniteSet(slots[k]) /\ Cardinality(slots[k]) <= Limit(k)

\* The member a request holds is its own, and in the set unless it has run out or was
\* removed.
HeldIsThere ==
  \A k \in Levels : \A r \in Requests : hold[k][r] # None =>
    /\ hold[k][r][1] = r
    /\ <<r, k>> \notin outlived => hold[k][r] \in slots[k]

\* A connected request that is past an acquisition has its member.
HasMember ==
  \A r \in Requests : r \notin gone =>
    /\ pc[r] \in Serving \/ (level[r] = "account" /\ pc[r] \notin {"leave", "done"})
         => hold["user"][r] # None
    /\ pc[r] \in Forwarding => hold["account"][r] # None

\* Whoever has the release function of the lock has set it, unless it has run out.
LockIsThere ==
  \A r \in Requests : queued[r] /\ <<r, "lock">> \notin outlived => lock = r

Inv == SlotType /\ WithinLimit /\ HeldIsThere /\ HasMember /\ LockIsThere

\* The invariant holds in the initial state.
LEMMA InvInit == Init => Inv
  <1> SUFFICES ASSUME Init PROVE Inv
    OBVIOUS
  <1>1. SlotType
    BY DEF Init, SlotType, Labels, Levels
  <1>2. WithinLimit
    <2> SUFFICES ASSUME NEW k \in Levels PROVE IsFiniteSet(slots[k]) /\ Cardinality(slots[k]) <= Limit(k)
      BY DEF WithinLimit
    <2>1. slots[k] = {} /\ Limit(k) \in Nat
      BY SlotConstants DEF Init
    <2> QED BY <2>1, FS_EmptySet
  <1>3. HeldIsThere /\ HasMember /\ LockIsThere
    BY DEF Init, HeldIsThere, HasMember, LockIsThere, Levels, Serving, Forwarding
  <1> QED BY <1>1, <1>2, <1>3 DEF Inv

\* generateRequestID: the member drawn is one of the fresh ones.
LEMMA DrawIsFresh ==
  ASSUME NEW k \in Levels, NEW r \in Requests, Fresh(k, r) # {}
  PROVE  /\ Draw(k, r) \in Members /\ Draw(k, r)[1] = r
         /\ Draw(k, r) \notin slots[k] /\ Draw(k, r) # None
  <1>1. Draw(k, r) \in Fresh(k, r)
    BY DEF Draw
  <1> QED BY <1>1, SlotConstants DEF Fresh, Members

\* Adding the drawn member keeps the limit, removing members does.
LEMMA AcquireLimit ==
  ASSUME Inv, NEW k \in Levels, NEW r \in Requests, Fresh(k, r) # {}, AcquireScript(k, r)
  PROVE  WithinLimit' /\ slots' \in [Levels -> SUBSET Members]
  <1>1. /\ slots' = [slots EXCEPT ![k] = @ \cup {Draw(k, r)}]
        /\ Cardinality(slots[k]) < Limit(k)
    BY DEF AcquireScript
  <1>2. slots' \in [Levels -> SUBSET Members]
    BY <1>1, DrawIsFresh DEF Inv, SlotType
  <1>3. ASSUME NEW j \in Levels
        PROVE  IsFiniteSet(slots'[j]) /\ Cardinality(slots'[j]) <= Limit(j)
    <2>1. CASE j = k
      <3>1. slots'[k] = slots[k] \cup {Draw(k, r)}
        BY <1>1 DEF Inv, SlotType
      <3>2. IsFiniteSet(slots[k]) /\ Cardinality(slots[k]) \in Nat /\ Limit(k) \in Nat
        BY FS_CardinalityType, SlotConstants DEF Inv, WithinLimit
      <3>3. IsFiniteSet(slots'[k]) /\ Cardinality(slots'[k]) = Cardinality(slots[k]) + 1
        BY <3>1, <3>2, FS_AddElement, DrawIsFresh
      <3> QED BY <2>1, <1>1, <3>2, <3>3
    <2>2. CASE j # k
      <3>1. slots'[j] = slots[j]
        BY <1>1, <2>2 DEF Inv, SlotType
      <3> QED BY <3>1 DEF Inv, WithinLimit
    <2> QED BY <2>1, <2>2
  <1> QED BY <1>2, <1>3 DEF WithinLimit

\* ZREM and the removals of a start: a smaller set is within its limit.
LEMMA ShrinkLimit ==
  ASSUME Inv, slots' \in [Levels -> SUBSET Members],
         \A k \in Levels : slots'[k] \subseteq slots[k]
  PROVE  WithinLimit'
  <1> SUFFICES ASSUME NEW k \in Levels
               PROVE  IsFiniteSet(slots'[k]) /\ Cardinality(slots'[k]) <= Limit(k)
    BY DEF WithinLimit
  <1>1. IsFiniteSet(slots[k]) /\ Cardinality(slots[k]) <= Limit(k) /\ slots'[k] \subseteq slots[k]
    BY DEF Inv, WithinLimit
  <1>2. IsFiniteSet(slots'[k]) /\ Cardinality(slots'[k]) <= Cardinality(slots[k])
    BY <1>1, FS_Subset
  <1>3. Cardinality(slots'[k]) \in Nat /\ Cardinality(slots[k]) \in Nat /\ Limit(k) \in Nat
    BY <1>1, <1>2, FS_CardinalityType, SlotConstants
  <1> QED BY <1>1, <1>2, <1>3

-----------------------------------------------------------------------------
(* What a step may do *)

\* A step that leaves members and release functions alone.
LEMMA SlotsKept ==
  ASSUME Inv, UNCHANGED <<slots, hold>>,
         \A k \in Levels : \A r \in Requests : <<r, k>> \in outlived => <<r, k>> \in outlived'
  PROVE  WithinLimit' /\ HeldIsThere'
  BY DEF Inv, WithinLimit, HeldIsThere

\* A step that leaves the lock alone, and gives nobody its release function.
LEMMA LockKept ==
  ASSUME Inv, UNCHANGED lock,
         \A r \in Requests : queued'[r] => queued[r],
         \A r \in Requests : <<r, "lock">> \in outlived => <<r, "lock">> \in outlived'
  PROVE  LockIsThere'
  BY DEF Inv, LockIsThere

\* A step that moves one request on and leaves members and the lock alone.
LEMMA Moves ==
  ASSUME Inv, UNCHANGED <<slots, lock, hold, queued, outlived>>, gone \subseteq gone',
         pc' \in [Requests -> Labels], level' \in [Requests -> Levels],
         HasMember'
  PROVE  Inv'
  <1>1. SlotType'
    BY DEF Inv, SlotType
  <1>2. WithinLimit' /\ HeldIsThere'
    BY SlotsKept
  <1>3. LockIsThere'
    BY LockKept
  <1> QED BY <1>1, <1>2, <1>3 DEF Inv

\* acquireScript, answered or not; what follows is up to the caller.
LEMMA StepAcquire ==
  ASSUME Inv, NEW k \in Levels, NEW r \in Requests, NEW n \in Labels, NEW o \in Labels,
         AcquireSlot(k, r, n, o),
         UNCHANGED <<lock, queued, gone, outlived>>, level' \in [Requests -> Levels]
  PROVE  /\ SlotType' /\ WithinLimit' /\ HeldIsThere' /\ LockIsThere'
         /\ \/ pc' = [pc EXCEPT ![r] = n] /\ hold'[k][r] # None
            \/ pc' = [pc EXCEPT ![r] = o] /\ UNCHANGED hold
         /\ \A j \in Levels : \A q \in Requests : hold[j][q] # None => hold'[j][q] # None
  <1>0. /\ slots \in [Levels -> SUBSET Members] /\ pc \in [Requests -> Labels]
        /\ hold \in [Levels -> [Requests -> Members \cup {None}]]
    BY DEF Inv, SlotType
  <1>1. CASE AcquireScript(k, r) /\ hold' = [hold EXCEPT ![k][r] = Draw(k, r)] /\ Goto(r, n)
    <2>1. Fresh(k, r) # {}
      BY DEF AcquireSlot
    <2>2. WithinLimit' /\ slots' \in [Levels -> SUBSET Members]
      BY <1>1, <2>1, AcquireLimit
    <2>3. Draw(k, r) \in Members /\ Draw(k, r)[1] = r /\ Draw(k, r) # None
      BY <2>1, DrawIsFresh
    <2>4. \A j \in Levels : \A q \in Requests :
            hold'[j][q] = IF j = k /\ q = r THEN Draw(k, r) ELSE hold[j][q]
      BY <1>0, <1>1
    <2>5. hold' \in [Levels -> [Requests -> Members \cup {None}]]
      BY <1>0, <1>1, <2>3
    <2>6. SlotType'
      BY <1>0, <1>1, <2>2, <2>5 DEF SlotType, Goto, Inv
    <2>7. /\ \A j \in Levels : slots[j] \subseteq slots'[j]
          /\ Draw(k, r) \in slots'[k]
      BY <1>0, <1>1 DEF AcquireScript
    <2>8. HeldIsThere'
      BY <2>3, <2>4, <2>7 DEF Inv, HeldIsThere
    <2>9. LockIsThere'
      BY LockKept
    <2> QED BY <1>1, <2>2, <2>3, <2>4, <2>6, <2>8, <2>9 DEF Goto
  <1>2. CASE (AcquireScript(k, r) \/ UNCHANGED slots) /\ Goto(r, o) /\ UNCHANGED hold
    <2>1. WithinLimit' /\ slots' \in [Levels -> SUBSET Members]
      <3>1. CASE AcquireScript(k, r)
        BY <3>1, AcquireLimit DEF AcquireSlot
      <3>2. CASE UNCHANGED slots
        BY <1>0, <3>2 DEF Inv, WithinLimit
      <3> QED BY <1>2, <3>1, <3>2
    <2>2. \A j \in Levels : slots[j] \subseteq slots'[j]
      BY <1>0, <1>2 DEF AcquireScript
    <2>3. SlotType'
      BY <1>0, <1>2, <2>1 DEF SlotType, Goto, Inv
    <2>4. HeldIsThere'
      BY <1>2, <2>2 DEF Inv, HeldIsThere
    <2>5. LockIsThere'
      BY LockKept
    <2> QED BY <1>2, <2>1, <2>3, <2>4, <2>5 DEF Goto
  <1> QED BY <1>1, <1>2 DEF AcquireSlot

\* ZREM of a request's own member, done or not: nobody else's.
LEMMA StepReleaseSlot ==
  ASSUME Inv, NEW k \in Levels, NEW r \in Requests, ReleaseSlot(k, r),
         UNCHANGED <<lock, queued, level, gone>>, pc' \in [Requests -> Labels]
  PROVE  /\ SlotType' /\ WithinLimit' /\ HeldIsThere' /\ LockIsThere'
         /\ \A j \in Levels : \A q \in Requests : hold'[j][q] # hold[j][q] => j = k /\ q = r
  <1>0. /\ slots \in [Levels -> SUBSET Members]
        /\ hold \in [Levels -> [Requests -> Members \cup {None}]]
        /\ hold' = [hold EXCEPT ![k][r] = None] /\ outlived' = outlived \ {<<r, k>>}
    BY DEF Inv, SlotType, ReleaseSlot
  <1>1. \A j \in Levels : \A q \in Requests :
          hold'[j][q] = IF j = k /\ q = r THEN None ELSE hold[j][q]
    BY <1>0
  <1>2. slots' = slots \/ slots' = [slots EXCEPT ![k] = @ \ Held(k, r)]
    BY DEF ReleaseSlot
  <1>3. slots' \in [Levels -> SUBSET Members] /\ \A j \in Levels : slots'[j] \subseteq slots[j]
    BY <1>0, <1>2
  <1>4. WithinLimit'
    BY <1>3, ShrinkLimit
  <1>5. SlotType'
    BY <1>0, <1>3 DEF Inv, SlotType
  <1>6. HeldIsThere'
    <2> SUFFICES ASSUME NEW j \in Levels, NEW q \in Requests, hold'[j][q] # None
                 PROVE  /\ hold'[j][q][1] = q
                        /\ <<q, j>> \notin outlived' => hold'[j][q] \in slots'[j]
      BY DEF HeldIsThere
    <2>1. hold'[j][q] = hold[j][q] /\ (j # k \/ q # r)
      BY <1>1
    <2>2. hold[j][q][1] = q /\ (<<q, j>> \notin outlived => hold[j][q] \in slots[j])
      BY <2>1 DEF Inv, HeldIsThere
    <2>3. j = k => hold[j][q] \notin Held(k, r)
      <3> SUFFICES ASSUME j = k, hold[j][q] \in Held(k, r) PROVE FALSE
        OBVIOUS
      <3>1. hold[k][r] # None /\ hold[k][q] = hold[k][r]
        BY DEF Held
      <3>2. hold[k][r][1] = r
        BY <3>1 DEF Inv, HeldIsThere
      <3> QED BY <2>1, <2>2, <3>1, <3>2
    <2>4. hold[j][q] \in slots[j] => hold[j][q] \in slots'[j]
      BY <1>0, <1>2, <2>3
    <2> QED BY <1>0, <2>1, <2>2, <2>4
  <1>7. LockIsThere'
    <2>1. k # "lock"
      BY DEF Levels
    <2> QED BY <1>0, <2>1, LockKept
  <1> QED BY <1>1, <1>4, <1>5, <1>6, <1>7

\* releaseLockScript frees the lock only for the request that has set it.
LEMMA StepReleaseLock ==
  ASSUME Inv, NEW r \in Requests, ReleaseLock(r),
         UNCHANGED <<slots, hold, level, gone>>, pc' \in [Requests -> Labels], HasMember'
  PROVE  Inv'
  <1>0. /\ queued' = [queued EXCEPT ![r] = FALSE] /\ outlived' = outlived \ {<<r, "lock">>}
        /\ queued \in [Requests -> BOOLEAN]
    BY DEF ReleaseLock, Inv, SlotType
  <1>1. SlotType'
    BY <1>0 DEF Inv, SlotType
  <1>2. WithinLimit' /\ HeldIsThere'
    <2>1. \A k \in Levels : k # "lock"
      BY DEF Levels
    <2> QED BY <1>0, <2>1, SlotsKept
  <1>3. LockIsThere'
    <2> SUFFICES ASSUME NEW q \in Requests, queued'[q], <<q, "lock">> \notin outlived' PROVE lock' = q
      BY DEF LockIsThere
    <2>1. q # r /\ queued[q] /\ <<q, "lock">> \notin outlived
      BY <1>0
    <2>2. lock = q
      BY <2>1 DEF Inv, LockIsThere
    <2> QED BY <2>1, <2>2 DEF ReleaseLock, ReleaseLockScript
  <1> QED BY <1>1, <1>2, <1>3 DEF Inv

-----------------------------------------------------------------------------
(* The steps *)

\* Each step of a request, its acquisitions and releases included.
LEMMA RequestKeeps ==
  ASSUME Inv, NEW r \in Requests, RequestStep(r)
  PROVE  Inv'
  <1>0. /\ pc \in [Requests -> Labels] /\ level \in [Requests -> Levels]
        /\ hold \in [Levels -> [Requests -> Members \cup {None}]]
        /\ queued \in [Requests -> BOOLEAN]
    BY DEF Inv, SlotType
  <1>a. level[r] \in {"user", "account"} /\ "account" \in Levels /\ "user" \in Levels
    BY <1>0 DEF Levels
  <1>1. CASE IncrementWaitCount(r)
    <2>1. PICK l \in {"leave", "try"} : pc' = [pc EXCEPT ![r] = l]
      BY <1>1 DEF IncrementWaitCount, Goto
    <2>2. /\ UNCHANGED <<slots, lock, hold, queued, outlived, gone, level>> /\ pc[r] = "count"
      BY <1>1 DEF IncrementWaitCount, history
    <2>3. pc' \in [Requests -> Labels]
      BY <1>0, <2>1 DEF Labels
    <2>4. HasMember'
      BY <1>0, <2>1, <2>2 DEF Inv, HasMember, Serving, Forwarding
    <2> QED BY <1>0, <2>2, <2>3, <2>4, Moves
  <1>2. CASE Try(r)
    <2>1. /\ UNCHANGED <<lock, queued, outlived, gone, level>> /\ pc[r] = "try"
          /\ AcquireSlot(level[r], r, "uncount", "uncount")
      BY <1>2 DEF Try, history
    <2>2. "uncount" \in Labels /\ level[r] \in Levels
      BY <1>0 DEF Labels
    <2>3. /\ SlotType' /\ WithinLimit' /\ HeldIsThere' /\ LockIsThere'
          /\ pc' = [pc EXCEPT ![r] = "uncount"]
          /\ \A j \in Levels : \A q \in Requests : hold[j][q] # None => hold'[j][q] # None
      BY <1>0, <2>1, <2>2, StepAcquire
    <2>4. HasMember'
      BY <1>0, <1>a, <2>1, <2>3 DEF Inv, HasMember, Serving, Forwarding
    <2> QED BY <2>3, <2>4 DEF Inv
  <1>3. CASE DecrementWaitCount(r)
    <2>0. pc' = [pc EXCEPT ![r] = IF hold[level[r]][r] = None THEN "leave" ELSE AfterSlot[level[r]]]
      BY <1>3 DEF DecrementWaitCount, Goto
    <2>1. PICK l \in {"leave", "select", "queue"} :
            /\ pc' = [pc EXCEPT ![r] = l]
            /\ l = "select" => level[r] = "user" /\ hold["user"][r] # None
            /\ l = "queue"  => level[r] = "account" /\ hold["account"][r] # None
      <3>1. CASE hold[level[r]][r] = None
        BY <2>0, <3>1
      <3>2. CASE hold[level[r]][r] # None /\ level[r] = "user"
        BY <2>0, <3>2 DEF AfterSlot
      <3>3. CASE hold[level[r]][r] # None /\ level[r] = "account"
        BY <2>0, <3>3 DEF AfterSlot
      <3> QED BY <1>a, <3>1, <3>2, <3>3
    <2>2. /\ UNCHANGED <<slots, lock, hold, queued, outlived, gone, level>>
          /\ pc[r] \in {"try", "uncount"}
      BY <1>3 DEF DecrementWaitCount
    <2>3. pc' \in [Requests -> Labels]
      BY <1>0, <2>1 DEF Labels
    <2>4. HasMember'
      BY <1>0, <2>1, <2>2 DEF Inv, HasMember, Serving, Forwarding
    <2> QED BY <1>0, <2>2, <2>3, <2>4, Moves
  <1>4. CASE SelectAccount(r)
    <2>1. /\ UNCHANGED <<lock, queued, outlived, gone>> /\ pc[r] = "select"
          /\ level' = [level EXCEPT ![r] = "account"] /\ level' \in [Requests -> Levels]
      BY <1>0, <1>a, <1>4 DEF SelectAccount, history
    <2>2. CASE AcquireSlot("account", r, "queue", "count")
      <3>1. "queue" \in Labels /\ "count" \in Labels
        BY DEF Labels
      <3>2. /\ SlotType' /\ WithinLimit' /\ HeldIsThere' /\ LockIsThere'
            /\ \/ pc' = [pc EXCEPT ![r] = "queue"] /\ hold'["account"][r] # None
               \/ pc' = [pc EXCEPT ![r] = "count"] /\ UNCHANGED hold
            /\ \A j \in Levels : \A q \in Requests : hold[j][q] # None => hold'[j][q] # None
        BY <1>a, <2>1, <2>2, <3>1, StepAcquire
      <3>3. \A q \in Requests : level'[q] = IF q = r THEN "account" ELSE level[q]
        BY <1>0, <2>1
      <3>4. /\ \A q \in Requests : q # r => pc'[q] = pc[q]
            /\ \/ pc'[r] = "queue" /\ hold'["account"][r] # None
               \/ pc'[r] = "count"
        BY <1>0, <3>2
      <3>5. HasMember'
        <4> SUFFICES ASSUME NEW q \in Requests, q \notin gone'
                     PROVE  /\ pc'[q] \in Serving
                                 \/ (level'[q] = "account" /\ pc'[q] \notin {"leave", "done"})
                               => hold'["user"][q] # None
                            /\ pc'[q] \in Forwarding => hold'["account"][q] # None
          BY DEF HasMember
        <4>1. CASE q = r
          <5>1. hold["user"][r] # None
            BY <2>1, <4>1 DEF Inv, HasMember, Serving
          <5>2. hold'["user"][r] # None
            BY <1>a, <3>2, <5>1
          <5>3. pc'[r] \in Forwarding => hold'["account"][r] # None
            BY <3>4 DEF Forwarding
          <5> QED BY <4>1, <5>2, <5>3
        <4>2. CASE q # r
          <5>1. pc'[q] = pc[q] /\ level'[q] = level[q]
            BY <3>3, <3>4, <4>2
          <5>2. /\ hold["user"][q] # None => hold'["user"][q] # None
                /\ hold["account"][q] # None => hold'["account"][q] # None
            BY <1>a, <3>2
          <5> QED BY <2>1, <5>1, <5>2 DEF Inv, HasMember
        <4> QED BY <4>1, <4>2
      <3> QED BY <3>2, <3>5 DEF Inv
    <2>3. CASE \E l \in {"count", "leave"} : Goto(r, l) /\ UNCHANGED <<slots, hold>>
      <3>1. PICK l \in {"count", "leave"} : pc' = [pc EXCEPT ![r] = l]
        BY <2>3 DEF Goto
      <3>2. pc' \in [Requests -> Labels]
        BY <1>0, <3>1 DEF Labels
      <3>3. HasMember'
        BY <1>0, <1>a, <2>1, <2>3, <3>1 DEF Inv, HasMember, Serving, Forwarding
      <3> QED BY <2>1, <2>3, <3>2, <3>3, Moves
    <2> QED BY <1>4, <2>2, <2>3 DEF SelectAccount
  <1>5. CASE AcquireLock(r)
    <2>1. /\ pc' = [pc EXCEPT ![r] = "forward"] /\ pc[r] = "queue"
          /\ UNCHANGED <<slots, level, hold, gone, outlived>>
      BY <1>5 DEF AcquireLock, Goto, history
    <2>2. queued' \in [Requests -> BOOLEAN]
      BY <1>0, <1>5 DEF AcquireLock
    <2>3. SlotType'
      BY <2>1, <2>2 DEF Inv, SlotType, Labels
    <2>4. WithinLimit' /\ HeldIsThere'
      BY <2>1, SlotsKept
    <2>5. HasMember'
      BY <1>0, <2>1 DEF Inv, HasMember, Serving, Forwarding
    <2>6. LockIsThere'
      <3> SUFFICES ASSUME NEW q \in Requests, queued'[q], <<q, "lock">> \notin outlived PROVE lock' = q
        BY <2>1 DEF LockIsThere
      <3>1. CASE lock = None /\ lock' = r /\ queued' = [queued EXCEPT ![r] = TRUE]
        BY <1>0, <3>1, SlotConstants DEF Inv, LockIsThere
      <3>2. CASE lock' \in {lock} \cup (IF lock = None THEN {r} ELSE {}) /\ UNCHANGED queued
        BY <3>2, SlotConstants DEF Inv, LockIsThere
      <3> QED BY <1>5, <3>1, <3>2 DEF AcquireLock
    <2> QED BY <2>3, <2>4, <2>5, <2>6 DEF Inv
  <1>6. CASE Forward(r)
    <2>1. /\ pc' = [pc EXCEPT ![r] = "unslot"] /\ pc[r] = "forward" /\ ReleaseLock(r)
          /\ UNCHANGED <<slots, level, hold, gone>>
      BY <1>6 DEF Forward, Goto
    <2>2. pc' \in [Requests -> Labels]
      BY <1>0, <2>1 DEF Labels
    <2>3. HasMember'
      BY <1>0, <2>1 DEF Inv, HasMember, Serving, Forwarding
    <2> QED BY <2>1, <2>2, <2>3, StepReleaseLock
  <1>7. CASE ReleaseAccountSlot(r)
    <2>1. PICK l \in {"leave", "select"} : pc' = [pc EXCEPT ![r] = l]
      BY <1>7 DEF ReleaseAccountSlot, Goto
    <2>2. /\ pc[r] = "unslot" /\ ReleaseSlot("account", r)
          /\ UNCHANGED <<lock, queued, level, gone>>
      BY <1>7 DEF ReleaseAccountSlot
    <2>3. pc' \in [Requests -> Labels]
      BY <1>0, <2>1 DEF Labels
    <2>4. /\ SlotType' /\ WithinLimit' /\ HeldIsThere' /\ LockIsThere'
          /\ \A j \in Levels : \A q \in Requests :
               hold'[j][q] # hold[j][q] => j = "account" /\ q = r
      BY <1>a, <2>2, <2>3, StepReleaseSlot
    <2>5. HasMember'
      BY <1>0, <1>a, <2>1, <2>2, <2>4 DEF Inv, HasMember, Serving, Forwarding
    <2> QED BY <2>4, <2>5 DEF Inv
  <1>8. CASE Leave(r)
    <2>1. /\ pc' = [pc EXCEPT ![r] = "done"] /\ ReleaseSlot("user", r)
          /\ UNCHANGED <<lock, queued, level, gone>>
      BY <1>8 DEF Leave, Goto
    <2>2. pc' \in [Requests -> Labels]
      BY <1>0, <2>1 DEF Labels
    <2>3. /\ SlotType' /\ WithinLimit' /\ HeldIsThere' /\ LockIsThere'
          /\ \A j \in Levels : \A q \in Requests :
               hold'[j][q] # hold[j][q] => j = "user" /\ q = r
      BY <1>a, <2>1, <2>2, StepReleaseSlot
    <2>4. HasMember'
      BY <1>0, <1>a, <2>1, <2>3 DEF Inv, HasMember, Serving, Forwarding
    <2> QED BY <2>3, <2>4 DEF Inv
  <1> QED BY <1>1, <1>2, <1>3, <1>4, <1>5, <1>6, <1>7, <1>8 DEF RequestStep

\* What the request's context does beside the handler.
LEMMA ContextKeeps ==
  ASSUME Inv, NEW r \in Requests,
         UpstreamAccepted(r) \/ Disconnect(r) \/ ReleaseLockOnDone(r)
           \/ \E k \in Levels : ReleaseSlotOnDone(k, r)
  PROVE  Inv'
  <1>0. pc \in [Requests -> Labels] /\ level \in [Requests -> Levels]
    BY DEF Inv, SlotType
  <1>1. CASE UpstreamAccepted(r) \/ ReleaseLockOnDone(r)
    <2>1. ReleaseLock(r) /\ UNCHANGED <<slots, pc, level, hold, gone>>
      BY <1>1 DEF UpstreamAccepted, ReleaseLockOnDone
    <2>2. HasMember'
      BY <2>1 DEF Inv, HasMember
    <2> QED BY <1>0, <2>1, <2>2, StepReleaseLock
  <1>2. CASE Disconnect(r)
    <2>1. /\ UNCHANGED <<slots, lock, pc, level, hold, queued, outlived>>
          /\ gone \subseteq gone'
      BY <1>2 DEF Disconnect, redis, history
    <2>2. HasMember'
      BY <2>1 DEF Inv, HasMember
    <2> QED BY <1>0, <2>1, <2>2, Moves
  <1>3. ASSUME NEW k \in Levels, ReleaseSlotOnDone(k, r) PROVE Inv'
    <2>1. /\ r \in gone /\ ReleaseSlot(k, r) /\ UNCHANGED <<lock, pc, level, queued, gone>>
      BY <1>3 DEF ReleaseSlotOnDone, Connected
    <2>2. /\ SlotType' /\ WithinLimit' /\ HeldIsThere' /\ LockIsThere'
          /\ \A j \in Levels : \A q \in Requests : hold'[j][q] # hold[j][q] => j = k /\ q = r
      BY <1>0, <2>1, StepReleaseSlot
    <2>3. HasMember'
      BY <2>1, <2>2 DEF Inv, HasMember, Levels
    <2> QED BY <2>2, <2>3 DEF Inv
  <1> QED BY <1>1, <1>2, <1>3

\* A member that runs out is noted with its request.
LEMMA ExpiryKeeps ==
  ASSUME Inv, NEW k \in Levels, NEW m \in Members, SlotExpires(k, m)
  PROVE  Inv'
  <1>0. /\ slots \in [Levels -> SUBSET Members] /\ slots' = [slots EXCEPT ![k] = @ \ {m}]
        /\ UNCHANGED <<lock, pc, level, hold, queued, gone>>
        /\ outlived' = IF InUse(k, m) THEN outlived \cup {<<m[1], k>>} ELSE outlived
    BY DEF SlotExpires, request, Inv, SlotType
  <1>1. slots' \in [Levels -> SUBSET Members] /\ \A j \in Levels : slots'[j] \subseteq slots[j]
    BY <1>0
  <1>2. SlotType' /\ HasMember'
    BY <1>0, <1>1 DEF Inv, SlotType, HasMember
  <1>3. WithinLimit'
    BY <1>1, ShrinkLimit
  <1>4. HeldIsThere'
    <2> SUFFICES ASSUME NEW j \in Levels, NEW q \in Requests, hold[j][q] # None
                 PROVE  /\ hold[j][q][1] = q
                        /\ <<q, j>> \notin outlived' => hold[j][q] \in slots'[j]
      BY <1>0 DEF HeldIsThere
    <2>1. hold[j][q][1] = q /\ (<<q, j>> \notin outlived => hold[j][q] \in slots[j])
      BY DEF Inv, HeldIsThere
    <2>2. j = k /\ hold[j][q] = m => <<q, j>> \in outlived'
      BY <1>0, <2>1 DEF InUse
    <2>3. outlived \subseteq outlived'
      BY <1>0
    <2> QED BY <1>0, <2>1, <2>2, <2>3
  <1>5. LockIsThere'
    BY <1>0, LockKept
  <1> QED BY <1>2, <1>3, <1>4, <1>5 DEF Inv

\* So is a lock that runs out under its holder.
LEMMA LockExpiryKeeps ==
  ASSUME Inv, LockExpires
  PROVE  Inv'
  <1>0. /\ UNCHANGED <<slots, pc, level, hold, queued, gone>> /\ lock # None /\ lock' = None
        /\ outlived' = IF queued[lock] THEN outlived \cup {<<lock, "lock">>} ELSE outlived
    BY DEF LockExpires, request
  <1>1. SlotType' /\ HasMember'
    BY <1>0 DEF Inv, SlotType, HasMember
  <1>2. outlived \subseteq outlived'
    BY <1>0
  <1>3. WithinLimit' /\ HeldIsThere'
    BY <1>0, <1>2, SlotsKept
  <1>4. LockIsThere'
    BY <1>0 DEF Inv, LockIsThere
  <1> QED BY <1>1, <1>3, <1>4 DEF Inv

\* A start removes members only with a note of the requests that use them.
LEMMA CleanKeeps ==
  ASSUME Inv, NEW i \in Instances, Clean(i)
  PROVE  Inv'
  <1> DEFINE lost(k) == {<<m[1], k>> : m \in {n \in slots[k] : InUse(k, n)}}
  <1>0. /\ slots \in [Levels -> SUBSET Members]
        /\ UNCHANGED <<lock, pc, level, hold, queued, gone>>
    BY DEF Clean, request, Inv, SlotType
  <1>1. PICK S \in SUBSET Levels :
          /\ slots' = [k \in Levels |-> IF k \in S THEN {} ELSE slots[k]]
          /\ outlived' = outlived \cup UNION {lost(k) : k \in S}
    <2>1. CASE UNCHANGED <<slots, history>>
      <3>1. UNION {lost(k) : k \in {}} = {}
        OBVIOUS
      <3>2. slots = [k \in Levels |-> slots[k]]
        BY <1>0
      <3> WITNESS {} \in SUBSET Levels
      <3> QED BY <2>1, <3>1, <3>2 DEF history
    <2>2. CASE ~(UNCHANGED <<slots, history>>)
      BY <2>2 DEF Clean, Levels
    <2> QED BY <2>1, <2>2
  <1>2. slots' \in [Levels -> SUBSET Members] /\ \A j \in Levels : slots'[j] \subseteq slots[j]
    BY <1>0, <1>1
  <1>3. SlotType' /\ HasMember'
    BY <1>0, <1>2 DEF Inv, SlotType, HasMember
  <1>4. WithinLimit'
    BY <1>2, ShrinkLimit
  <1>5. HeldIsThere'
    <2> SUFFICES ASSUME NEW j \in Levels, NEW q \in Requests, hold[j][q] # None
                 PROVE  /\ hold[j][q][1] = q
                        /\ <<q, j>> \notin outlived' => hold[j][q] \in slots'[j]
      BY <1>0 DEF HeldIsThere
    <2>1. hold[j][q][1] = q /\ (<<q, j>> \notin outlived => hold[j][q] \in slots[j])
      BY DEF Inv, HeldIsThere
    <2>2. j \in S /\ hold[j][q] \in slots[j] => <<q, j>> \in lost(j)
      BY <2>1 DEF InUse
    <2> QED BY <1>1, <2>1, <2>2
  <1>6. LockIsThere'
    BY <1>0, <1>1, LockKept
  <1> QED BY <1>3, <1>4, <1>5, <1>6 DEF Inv

\* An instance that stops takes its release functions with it.
LEMMA CrashKeeps ==
  ASSUME Inv, NEW i \in Instances, Crash(i)
  PROVE  Inv'
  <1> DEFINE mine == {r \in Requests : Home(r) = i /\ pc[r] # "done"}
  <1>0. /\ UNCHANGED <<slots, lock, level, gone, outlived>>
        /\ pc' = [r \in Requests |-> IF r \in mine THEN "done" ELSE pc[r]]
        /\ hold' = [k \in Levels |-> [r \in Requests |-> IF r \in mine THEN None ELSE hold[k][r]]]
        /\ queued' = [r \in Requests |-> queued[r] /\ r \notin mine]
    BY DEF Crash, redis
  <1>1. SlotType'
    BY <1>0 DEF Inv, SlotType, Labels
  <1>2. WithinLimit'
    BY <1>0 DEF Inv, WithinLimit
  <1>3. HeldIsThere'
    BY <1>0 DEF Inv, HeldIsThere
  <1>4. HasMember'
    BY <1>0 DEF Inv, HasMember, Serving, Forwarding, Levels
  <1>5. LockIsThere'
    BY <1>0, LockKept
  <1> QED BY <1>1, <1>2, <1>3, <1>4, <1>5 DEF Inv

\* Every step keeps the invariant.
LEMMA InvNext == Inv /\ [Next]_vars => Inv'
  <1> SUFFICES ASSUME Inv, [Next]_vars PROVE Inv'
    OBVIOUS
  <1>1. ASSUME UNCHANGED <<slots, lock, pc, level, hold, queued, gone, outlived>> PROVE Inv'
    BY <1>1 DEF Inv, SlotType, WithinLimit, HeldIsThere, HasMember, LockIsThere
  <1>2. CASE UNCHANGED vars
    BY <1>1, <1>2 DEF vars, redis, request, history
  <1>3. ASSUME NEW i \in Instances, Start(i) PROVE Inv'
    BY <1>1, <1>3 DEF Start, redis, request, history
  <1>4. ASSUME NEW k \in Levels, WaitsExpire(k) PROVE Inv'
    BY <1>1, <1>4 DEF WaitsExpire, request
  <1> QED BY <1>2, <1>3, <1>4, RequestKeeps, ContextKeeps, ExpiryKeeps, LockExpiryKeeps,
             CleanKeeps, CrashKeeps DEF Next

\* The invariant holds in every reachable state.
LEMMA InvHolds == Spec => []Inv
  BY InvInit, InvNext, PTL DEF Spec

\* acquireScript and the release functions: requests that run at once, other than those
\* whose slot ran out, was removed or was given back, never exceed the limit.
THEOREM LimitsHold == Spec => []LimitKept
  <1>1. ASSUME Inv PROVE LimitKept
    <2> USE <1>1
    <2> SUFFICES ASSUME NEW k \in Levels PROVE Cardinality(Running(k)) <= Limit(k)
      BY DEF LimitKept
    <2>1. \A r \in Running(k) :
            r \in Requests /\ hold[k][r] # None /\ hold[k][r][1] = r /\ hold[k][r] \in slots[k]
      BY DEF Inv, HasMember, HeldIsThere, Running, Levels
    <2> DEFINE f == [r \in Running(k) |-> hold[k][r]]
    <2>2. f \in Injection(Running(k), slots[k])
      BY <2>1 DEF Injection, IsInjective
    <2>3. IsFiniteSet(slots[k]) /\ Cardinality(slots[k]) <= Limit(k)
      BY DEF Inv, WithinLimit
    <2>4. IsFiniteSet(Running(k)) /\ Cardinality(Running(k)) <= Cardinality(slots[k])
      BY <2>2, <2>3, FS_Injection
    <2>5. Cardinality(Running(k)) \in Nat /\ Cardinality(slots[k]) \in Nat /\ Limit(k) \in Nat
      BY <2>3, <2>4, FS_CardinalityType, SlotConstants
    <2> QED BY <2>3, <2>4, <2>5
  <1> QED BY <1>1, InvHolds, PTL

\* acquireLockScript, releaseLockScript: two requests never have the lock at once unless
\* it has run out under one of them.
THEOREM SenderExclusive == Spec => []OneSender
  <1>1. Inv => OneSender
    BY DEF Inv, LockIsThere, OneSender
  <1> QED BY <1>1, InvHolds, PTL

-----------------------------------------------------------------------------
(* Types, and the counters of the requests that wait *)

\* The types of the other variables.
RestType ==
  /\ waits \in [Levels -> Nat] /\ phantoms \in [Levels -> Nat]
  /\ lock \in Requests \cup {None} /\ phase \in [Instances -> Phases]
  /\ counted \in [Requests -> BOOLEAN] /\ switches \in [Requests -> Nat]
  /\ gone \subseteq Requests /\ outlived \subseteq Requests \X (Levels \cup {"lock"})
  /\ faults \in 0 .. MaxFaults /\ crashes \in 0 .. MaxCrashes

\* The requests that wait for a slot of a level.
Waiting(k) == {r \in Requests : counted[r] /\ level[r] = k}

\* A request is counted only while it tries, or is about to be uncounted.
CountedTries == \A r \in Requests : counted[r] => pc[r] \in {"try", "uncount"}

CountInv == RestType /\ CountedTries /\ NoPhantomWaiter

\* What waits is finite, so it can be counted.
LEMMA WaitingIsFinite ==
  \A k : IsFiniteSet(Waiting(k)) /\ Cardinality(Waiting(k)) \in Nat
  <1> TAKE k
  <1>1. Waiting(k) \subseteq Requests
    BY DEF Waiting
  <1> QED BY <1>1, FS_Subset, FS_CardinalityType, SlotConstants

\* The counters hold in the initial state.
LEMMA CountInit == Init => CountInv
  <1> SUFFICES ASSUME Init PROVE CountInv
    OBVIOUS
  <1>1. RestType
    BY SlotConstants DEF Init, RestType, Phases
  <1>2. CountedTries
    BY DEF Init, CountedTries
  <1>3. NoPhantomWaiter
    <2> SUFFICES ASSUME NEW k \in Levels PROVE waits[k] <= phantoms[k] + Cardinality(Waiting(k))
      BY DEF NoPhantomWaiter, Waiting
    <2>1. waits[k] = 0 /\ phantoms[k] = 0
      BY DEF Init
    <2> QED BY <2>1, WaitingIsFinite
  <1> QED BY <1>1, <1>2, <1>3 DEF CountInv

\* A command that fails, or not, is counted up to the bound.
LEMMA FailsType ==
  ASSUME RestType, NEW failed, Fails(failed)
  PROVE  faults' \in 0 .. MaxFaults
  BY SlotConstants DEF RestType, Fails

\* A step that counts nobody and leaves the counters alone, or sets them back.
LEMMA CountsKept ==
  ASSUME Inv, CountInv, RestType', UNCHANGED counted,
         \A r \in Requests : counted[r] => pc'[r] = pc[r] \/ pc'[r] = "uncount",
         \A r \in Requests : counted[r] => level'[r] = level[r],
         \A k \in Levels : waits'[k] = 0 \/ (waits'[k] = waits[k] /\ phantoms'[k] = phantoms[k])
  PROVE  CountInv'
  <1>1. CountedTries'
    BY DEF CountInv, CountedTries
  <1>2. NoPhantomWaiter'
    <2> SUFFICES ASSUME NEW k \in Levels PROVE waits'[k] <= phantoms'[k] + Cardinality(Waiting(k)')
      BY DEF NoPhantomWaiter, Waiting
    <2>1. Waiting(k)' = Waiting(k)
      BY DEF Waiting
    <2>2. waits'[k] \in Nat /\ phantoms'[k] \in Nat /\ Cardinality(Waiting(k)) \in Nat
      BY WaitingIsFinite DEF RestType
    <2>3. waits[k] <= phantoms[k] + Cardinality(Waiting(k))
      BY DEF CountInv, NoPhantomWaiter, Waiting
    <2> QED BY <2>1, <2>2, <2>3
  <1> QED BY <1>1, <1>2 DEF CountInv

\* IncrementWaitCount: whoever has raised the counter is counted from then on.
LEMMA CountIncrement ==
  ASSUME Inv, CountInv, NEW r \in Requests, IncrementWaitCount(r)
  PROVE  CountInv'
  <1> DEFINE k == level[r]
  <1>0. /\ k \in Levels /\ waits \in [Levels -> Nat] /\ phantoms \in [Levels -> Nat]
        /\ pc \in [Requests -> Labels] /\ counted \in [Requests -> BOOLEAN]
        /\ pc[r] = "count" /\ UNCHANGED <<lock, phase, level, gone, switches, outlived, phantoms, crashes>>
    BY DEF Inv, SlotType, CountInv, RestType, IncrementWaitCount, history
  <1> HIDE DEF k
  <1>1. PICK applied \in BOOLEAN, failed \in BOOLEAN :
          /\ IF Connected(r) THEN Fails(failed) ELSE failed /\ ~applied /\ UNCHANGED faults
          /\ IF applied /\ waits[k] < MaxWait(k) THEN IncrementScript(k) ELSE UNCHANGED waits
          /\ applied \/ failed
          /\ IF ~failed /\ waits[k] >= MaxWait(k)
             THEN Goto(r, "leave") /\ UNCHANGED counted
             ELSE Goto(r, "try") /\ counted' = [counted EXCEPT ![r] = TRUE]
    BY DEF IncrementWaitCount, k
  <1>2. waits' \in [Levels -> Nat]
    BY <1>0, <1>1 DEF IncrementScript
  <1>3. RestType'
    <2>1. faults' \in 0 .. MaxFaults
      BY <1>1, FailsType DEF CountInv, RestType
    <2>2. counted' \in [Requests -> BOOLEAN]
      BY <1>0, <1>1
    <2> QED BY <1>0, <1>2, <2>1, <2>2 DEF CountInv, RestType
  <1>4. r \notin Waiting(k)
    BY <1>0 DEF CountInv, CountedTries, Waiting
  <1>5. CASE Goto(r, "try") /\ counted' = [counted EXCEPT ![r] = TRUE]
    <2>1. CountedTries'
      BY <1>0, <1>5 DEF CountInv, CountedTries, Goto
    <2>2. NoPhantomWaiter'
      <3> SUFFICES ASSUME NEW j \in Levels PROVE waits'[j] <= phantoms'[j] + Cardinality(Waiting(j)')
        BY DEF NoPhantomWaiter, Waiting
      <3>1. waits[j] <= phantoms[j] + Cardinality(Waiting(j))
        BY DEF CountInv, NoPhantomWaiter, Waiting
      <3>2. waits[j] \in Nat /\ phantoms[j] \in Nat /\ Cardinality(Waiting(j)) \in Nat /\ phantoms'[j] = phantoms[j]
        BY <1>0, WaitingIsFinite
      <3>3. CASE j = k
        <4>1. Waiting(j)' = Waiting(j) \cup {r}
          BY <1>0, <1>5, <3>3 DEF Waiting, k
        <4>2. Cardinality(Waiting(j)') = Cardinality(Waiting(j)) + 1
          BY <1>4, <3>3, <4>1, WaitingIsFinite, FS_AddElement
        <4>3. waits'[j] <= waits[j] + 1
          BY <1>0, <1>1, <3>2, <3>3 DEF IncrementScript
        <4>4. waits'[j] \in Nat
          BY <1>2
        <4> QED BY <3>1, <3>2, <4>2, <4>3, <4>4
      <3>4. CASE j # k
        <4>1. Waiting(j)' = Waiting(j)
          BY <1>0, <1>5, <3>4 DEF Waiting, k
        <4>2. waits'[j] = waits[j]
          BY <1>0, <1>1, <3>4 DEF IncrementScript
        <4> QED BY <3>1, <3>2, <4>1, <4>2
      <3> QED BY <3>3, <3>4
    <2> QED BY <1>3, <2>1, <2>2 DEF CountInv
  <1>6. CASE ~failed /\ waits[k] >= MaxWait(k) /\ Goto(r, "leave") /\ UNCHANGED counted
    <2>1. ~(waits[k] < MaxWait(k))
      BY <1>0, <1>6, SlotConstants
    <2>2. UNCHANGED waits
      BY <1>1, <2>1
    <2>3. \A q \in Requests : counted[q] => pc'[q] = pc[q]
      BY <1>0, <1>6 DEF Goto, CountInv, CountedTries
    <2> QED BY <1>0, <1>3, <1>6, <2>2, <2>3, CountsKept
  <1> QED BY <1>1, <1>5, <1>6

\* DecrementWaitCount: a request that is no longer counted has lowered the counter, or
\* left a phantom.
LEMMA CountDecrement ==
  ASSUME Inv, CountInv, NEW r \in Requests, DecrementWaitCount(r)
  PROVE  CountInv'
  <1> DEFINE k == level[r]
  <1>0. /\ k \in Levels /\ waits \in [Levels -> Nat] /\ phantoms \in [Levels -> Nat]
        /\ pc \in [Requests -> Labels] /\ counted \in [Requests -> BOOLEAN]
        /\ UNCHANGED <<lock, phase, level, gone, switches, outlived, crashes>>
        /\ counted' = [counted EXCEPT ![r] = FALSE]
        /\ \A q \in Requests : q # r => pc'[q] = pc[q]
    BY DEF Inv, SlotType, CountInv, RestType, DecrementWaitCount, Goto
  <1> HIDE DEF k
  <1>1. PICK applied \in BOOLEAN, failed \in BOOLEAN :
          /\ Fails(failed)
          /\ waits' = IF applied THEN [waits EXCEPT ![k] = DecrementScript(k)] ELSE waits
          /\ phantoms' = IF applied THEN phantoms ELSE [phantoms EXCEPT ![k] = @ + 1]
    BY DEF DecrementWaitCount, k
  <1>2. waits' \in [Levels -> Nat] /\ phantoms' \in [Levels -> Nat]
    BY <1>0, <1>1 DEF DecrementScript
  <1>3. RestType'
    <2>1. faults' \in 0 .. MaxFaults
      BY <1>1, FailsType DEF CountInv
    <2>2. counted' \in [Requests -> BOOLEAN]
      BY <1>0
    <2> QED BY <1>0, <1>2, <2>1, <2>2 DEF CountInv, RestType
  <1>4. CountedTries'
    BY <1>0 DEF CountInv, CountedTries
  <1>5. NoPhantomWaiter'
    <2> SUFFICES ASSUME NEW j \in Levels PROVE waits'[j] <= phantoms'[j] + Cardinality(Waiting(j)')
      BY DEF NoPhantomWaiter, Waiting
    <2>1. waits[j] <= phantoms[j] + Cardinality(Waiting(j))
      BY DEF CountInv, NoPhantomWaiter, Waiting
    <2>2. /\ waits[j] \in Nat /\ phantoms[j] \in Nat /\ Cardinality(Waiting(j)) \in Nat
          /\ waits'[j] \in Nat /\ phantoms'[j] \in Nat
      BY <1>0, <1>2, WaitingIsFinite
    <2>3. CASE j = k
      <3>1. Waiting(j)' = Waiting(j) \ {r}
        BY <1>0 DEF Waiting
      <3>2. /\ Cardinality(Waiting(j)') \in Nat
            /\ Cardinality(Waiting(j)') >= Cardinality(Waiting(j)) - 1
        <4>1. CASE r \in Waiting(j)
          <5>1. IsFiniteSet(Waiting(j)) /\ IsFiniteSet(Waiting(j) \ {r})
            BY WaitingIsFinite, FS_RemoveElement
          <5>2. Cardinality(Waiting(j) \ {r}) = Cardinality(Waiting(j)) - 1
            BY <4>1, <5>1, FS_RemoveElement
          <5>3. Cardinality(Waiting(j) \ {r}) \in Nat
            BY <5>1, FS_CardinalityType
          <5> QED BY <2>2, <3>1, <5>2, <5>3
        <4>2. CASE r \notin Waiting(j)
          BY <2>2, <3>1, <4>2
        <4> QED BY <4>1, <4>2
      <3>3. CASE applied
        <4>1. waits'[j] = (IF waits[j] = 0 THEN 0 ELSE waits[j] - 1) /\ phantoms'[j] = phantoms[j]
          BY <1>0, <1>1, <2>3, <3>3 DEF DecrementScript
        <4> QED BY <2>1, <2>2, <3>2, <4>1
      <3>4. CASE ~applied
        <4>1. waits'[j] = waits[j] /\ phantoms'[j] = phantoms[j] + 1
          BY <1>0, <1>1, <2>3, <3>4
        <4> QED BY <2>1, <2>2, <3>2, <4>1
      <3> QED BY <3>3, <3>4
    <2>4. CASE j # k
      <3>1. Waiting(j)' = Waiting(j)
        BY <1>0, <2>4 DEF Waiting, k
      <3>2. waits'[j] = waits[j] /\ phantoms'[j] = phantoms[j]
        BY <1>0, <1>1, <2>4
      <3> QED BY <2>1, <2>2, <3>1, <3>2
    <2> QED BY <2>3, <2>4
  <1> QED BY <1>3, <1>4, <1>5 DEF CountInv

\* The types after a release of the lock.
LEMMA ReleaseLockType ==
  ASSUME RestType, NEW r \in Requests, ReleaseLock(r)
  PROVE  /\ lock' \in Requests \cup {None} /\ faults' \in 0 .. MaxFaults
         /\ outlived' \subseteq Requests \X (Levels \cup {"lock"})
  <1>1. faults' \in 0 .. MaxFaults
    BY FailsType DEF ReleaseLock, RestType
  <1> QED BY <1>1 DEF ReleaseLock, ReleaseLockScript, RestType

\* The types after a release of a slot.
LEMMA ReleaseSlotType ==
  ASSUME RestType, NEW k \in Levels, NEW r \in Requests, ReleaseSlot(k, r)
  PROVE  /\ faults' \in 0 .. MaxFaults
         /\ outlived' \subseteq Requests \X (Levels \cup {"lock"})
  <1>1. faults' \in 0 .. MaxFaults
    BY FailsType DEF ReleaseSlot, RestType
  <1> QED BY <1>1 DEF ReleaseSlot, RestType

\* The other steps of a request count nobody: it is neither counted when it starts them
\* nor afterwards, or it still tries.
LEMMA CountRequest ==
  ASSUME Inv, CountInv, NEW r \in Requests,
         Try(r) \/ SelectAccount(r) \/ AcquireLock(r) \/ Forward(r) \/ ReleaseAccountSlot(r) \/ Leave(r)
  PROVE  CountInv'
  <1>0. /\ RestType /\ "account" \in Levels /\ "user" \in Levels
        /\ pc \in [Requests -> Labels] /\ level \in [Requests -> Levels]
    BY DEF CountInv, Inv, SlotType, Levels
  <1>1. UNCHANGED <<waits, phase, counted, gone, phantoms, crashes>>
    BY DEF Try, SelectAccount, AcquireLock, Forward, ReleaseAccountSlot, Leave, history
  <1>2. RestType'
    <2>1. CASE Try(r) \/ SelectAccount(r)
      <3>1. faults' \in 0 .. MaxFaults
        BY <1>0, <2>1, FailsType DEF Try, SelectAccount, AcquireSlot, RestType
      <3> QED BY <1>0, <1>1, <2>1, <3>1 DEF Try, SelectAccount, history, RestType
    <2>2. CASE AcquireLock(r)
      <3>1. faults' \in 0 .. MaxFaults
        BY <1>0, <2>2, FailsType DEF AcquireLock, RestType
      <3> QED BY <1>0, <1>1, <2>2, <3>1 DEF AcquireLock, history, RestType
    <2>3. CASE Forward(r)
      BY <1>0, <1>1, <2>3, ReleaseLockType DEF Forward, RestType
    <2>4. CASE ReleaseAccountSlot(r)
      <3>1. switches' \in [Requests -> Nat]
        BY <1>0, <2>4 DEF ReleaseAccountSlot, RestType
      <3> QED BY <1>0, <1>1, <2>4, <3>1, ReleaseSlotType DEF ReleaseAccountSlot, RestType
    <2>5. CASE Leave(r)
      BY <1>0, <1>1, <2>5, ReleaseSlotType DEF Leave, RestType
    <2> QED BY <2>1, <2>2, <2>3, <2>4, <2>5
  <1>3. /\ \A q \in Requests : q # r => pc'[q] = pc[q] /\ level'[q] = level[q]
        /\ counted[r] => pc'[r] = "uncount" /\ level'[r] = level[r]
    <2>1. CASE Try(r)
      <3>1. Goto(r, "uncount") /\ UNCHANGED level
        BY <2>1 DEF Try, AcquireSlot
      <3> QED BY <1>0, <3>1 DEF Goto
    <2>2. CASE ~Try(r)
      <3>1. pc[r] \in {"select", "queue", "forward", "unslot", "leave"}
        BY <2>2 DEF SelectAccount, AcquireLock, Forward, ReleaseAccountSlot, Leave
      <3>2. ~counted[r]
        BY <3>1 DEF CountInv, CountedTries
      <3>3. \E l : Goto(r, l)
        BY <2>2 DEF SelectAccount, AcquireSlot, AcquireLock, Forward, ReleaseAccountSlot, Leave
      <3>4. UNCHANGED level \/ level' = [level EXCEPT ![r] = "account"]
        BY <2>2 DEF SelectAccount, AcquireLock, Forward, ReleaseAccountSlot, Leave
      <3> QED BY <1>0, <3>2, <3>3, <3>4 DEF Goto
    <2> QED BY <2>1, <2>2
  <1> QED BY <1>1, <1>2, <1>3, CountsKept

\* What the request's context and time do beside the handler.
LEMMA CountSurroundings ==
  ASSUME Inv, CountInv,
         \/ \E r \in Requests : UpstreamAccepted(r) \/ Disconnect(r) \/ ReleaseLockOnDone(r)
         \/ \E k \in Levels : \/ \E r \in Requests : ReleaseSlotOnDone(k, r)
                              \/ \E m \in Members : SlotExpires(k, m)
                              \/ WaitsExpire(k)
         \/ LockExpires
         \/ \E i \in Instances : Start(i) \/ Clean(i)
  PROVE  CountInv'
  <1>0. RestType
    BY DEF CountInv
  <1>1. UNCHANGED <<pc, level, counted, switches, crashes>>
    BY DEF UpstreamAccepted, Disconnect, ReleaseLockOnDone, ReleaseSlotOnDone, SlotExpires,
           WaitsExpire, LockExpires, Start, Clean, request, bounds
  <1>2. ASSUME NEW r \in Requests, UpstreamAccepted(r) \/ ReleaseLockOnDone(r)
        PROVE  RestType' /\ UNCHANGED <<waits, phantoms>>
    BY <1>0, <1>1, <1>2, ReleaseLockType DEF UpstreamAccepted, ReleaseLockOnDone, RestType
  <1>3. ASSUME NEW r \in Requests, Disconnect(r)
        PROVE  RestType' /\ UNCHANGED <<waits, phantoms>>
    BY <1>0, <1>1, <1>3 DEF Disconnect, redis, history, bounds, RestType
  <1>4. ASSUME NEW k \in Levels, NEW r \in Requests, ReleaseSlotOnDone(k, r)
        PROVE  RestType' /\ UNCHANGED <<waits, phantoms>>
    BY <1>0, <1>1, <1>4, ReleaseSlotType DEF ReleaseSlotOnDone, RestType
  <1>5. ASSUME NEW k \in Levels, NEW m \in Members, SlotExpires(k, m)
        PROVE  RestType' /\ UNCHANGED <<waits, phantoms>>
    <2>1. faults' \in 0 .. MaxFaults
      BY <1>0, <1>5, FailsType DEF SlotExpires
    <2>2. <<m[1], k>> \in Requests \X (Levels \cup {"lock"})
      BY DEF Members
    <2>3. outlived' \subseteq Requests \X (Levels \cup {"lock"})
      BY <1>0, <1>5, <2>2 DEF SlotExpires, RestType
    <2> QED BY <1>0, <1>1, <1>5, <2>1, <2>3 DEF SlotExpires, request, RestType
  <1>6. ASSUME LockExpires
        PROVE  RestType' /\ UNCHANGED <<waits, phantoms>>
    <2>1. faults' \in 0 .. MaxFaults
      BY <1>0, <1>6, FailsType DEF LockExpires
    <2>2. outlived' \subseteq Requests \X (Levels \cup {"lock"})
      BY <1>0, <1>6 DEF LockExpires, RestType
    <2> QED BY <1>0, <1>1, <1>6, <2>1, <2>2 DEF LockExpires, request, RestType
  <1>7. ASSUME NEW i \in Instances, Start(i)
        PROVE  RestType' /\ UNCHANGED <<waits, phantoms>>
    BY <1>0, <1>1, <1>7 DEF Start, redis, request, history, bounds, RestType, Phases
  <1>8. ASSUME NEW k \in Levels, WaitsExpire(k)
        PROVE  RestType' /\ \A j \in Levels : waits'[j] = 0 \/ (waits'[j] = waits[j] /\ phantoms'[j] = phantoms[j])
    BY <1>0, <1>1, <1>8 DEF WaitsExpire, request, bounds, RestType
  <1>9. ASSUME NEW i \in Instances, Clean(i)
        PROVE  RestType' /\ \A j \in Levels : waits'[j] = 0 \/ (waits'[j] = waits[j] /\ phantoms'[j] = phantoms[j])
    <2> DEFINE lost(k) == {<<m[1], k>> : m \in {n \in slots[k] : InUse(k, n)}}
    <2>1. UNCHANGED <<lock, gone>> /\ phase' \in [Instances -> Phases]
      BY <1>0, <1>9 DEF Clean, request, RestType, Phases
    <2>2. faults' \in 0 .. MaxFaults
      BY <1>0, <1>9, FailsType DEF Clean
    <2>3. \A k \in Levels : lost(k) \subseteq Requests \X (Levels \cup {"lock"})
      <3> TAKE k \in Levels
      <3>1. \A m \in slots[k] : m[1] \in Requests
        BY DEF Inv, SlotType, Members
      <3> QED BY <3>1
    <2>4. PICK S \in SUBSET Levels : outlived' = outlived \cup UNION {lost(k) : k \in S}
      <3>1. CASE UNCHANGED <<slots, waits, history>>
        <4>1. UNION {lost(k) : k \in {}} = {}
          OBVIOUS
        <4> WITNESS {} \in SUBSET Levels
        <4> QED BY <3>1, <4>1 DEF history
      <3>2. CASE ~(UNCHANGED <<slots, waits, history>>)
        BY <1>9, <3>2 DEF Clean, Levels
      <3> QED BY <3>1, <3>2
    <2>5. outlived' \subseteq Requests \X (Levels \cup {"lock"})
      BY <1>0, <2>3, <2>4 DEF RestType
    <2> HIDE DEF lost
    <2>6. PICK T \in SUBSET Levels :
            /\ waits' = [k \in Levels |-> IF k \in T THEN 0 ELSE waits[k]]
            /\ phantoms' = [k \in Levels |-> IF k \in T THEN 0 ELSE phantoms[k]]
      <3>1. CASE UNCHANGED <<slots, waits, history>>
        <4>1. /\ waits = [k \in Levels |-> IF k \in {} THEN 0 ELSE waits[k]]
              /\ phantoms = [k \in Levels |-> IF k \in {} THEN 0 ELSE phantoms[k]]
          BY <1>0 DEF RestType
        <4> WITNESS {} \in SUBSET Levels
        <4> QED BY <3>1, <4>1 DEF history
      <3>2. CASE ~(UNCHANGED <<slots, waits, history>>)
        BY <1>9, <3>2 DEF Clean, Levels
      <3> QED BY <3>1, <3>2
    <2> QED BY <1>0, <1>1, <2>1, <2>2, <2>5, <2>6 DEF RestType
  <1> QED BY <1>1, <1>2, <1>3, <1>4, <1>5, <1>6, <1>7, <1>8, <1>9, CountsKept

\* An instance that stops leaves a phantom for each of its requests that was counted.
LEMMA CountCrash ==
  ASSUME Inv, CountInv, NEW i \in Instances, Crash(i)
  PROVE  CountInv'
  <1> DEFINE mine == {r \in Requests : Home(r) = i /\ pc[r] # "done"}
             Left(k) == {r \in mine : counted[r] /\ level[r] = k}
  <1>0. /\ RestType /\ UNCHANGED <<waits, lock, level, gone, switches, outlived, faults>>
        /\ pc' = [r \in Requests |-> IF r \in mine THEN "done" ELSE pc[r]]
        /\ counted' = [r \in Requests |-> counted[r] /\ r \notin mine]
        /\ phantoms' = [k \in Levels |-> phantoms[k] + Cardinality(Left(k))]
        /\ crashes' \in 0 .. MaxCrashes /\ phase' \in [Instances -> Phases]
    BY SlotConstants DEF CountInv, Crash, redis, RestType, Phases
  <1>1. \A k : IsFiniteSet(Left(k)) /\ Cardinality(Left(k)) \in Nat
    <2> TAKE k
    <2>1. Left(k) \subseteq Requests
      OBVIOUS
    <2> QED BY <2>1, FS_Subset, FS_CardinalityType, SlotConstants
  <1> HIDE DEF Left
  <1>2. RestType'
    <2>1. phantoms' \in [Levels -> Nat]
      BY <1>0, <1>1 DEF RestType
    <2>2. counted' \in [Requests -> BOOLEAN]
      BY <1>0 DEF RestType
    <2> QED BY <1>0, <2>1, <2>2 DEF RestType
  <1>3. CountedTries'
    BY <1>0 DEF CountInv, CountedTries
  <1>4. NoPhantomWaiter'
    <2> SUFFICES ASSUME NEW k \in Levels PROVE waits'[k] <= phantoms'[k] + Cardinality(Waiting(k)')
      BY DEF NoPhantomWaiter, Waiting
    <2>1. waits[k] <= phantoms[k] + Cardinality(Waiting(k))
      BY DEF CountInv, NoPhantomWaiter, Waiting
    <2>2. Waiting(k) = Left(k) \cup Waiting(k)' /\ Left(k) \cap Waiting(k)' = {}
      BY <1>0 DEF Waiting, Left
    <2>3. IsFiniteSet(Waiting(k)') /\ Cardinality(Waiting(k)') \in Nat
      BY <2>2, WaitingIsFinite, FS_Subset, FS_CardinalityType
    <2>4. Cardinality(Waiting(k)) = Cardinality(Left(k)) + Cardinality(Waiting(k)')
      <3>1. Cardinality(Left(k) \cap Waiting(k)') = 0
        BY <2>2, FS_EmptySet
      <3>2. Cardinality(Left(k) \cup Waiting(k)')
              = Cardinality(Left(k)) + Cardinality(Waiting(k)') - Cardinality(Left(k) \cap Waiting(k)')
        BY <1>1, <2>3, FS_Union
      <3> QED BY <1>1, <2>2, <2>3, <3>1, <3>2
    <2>5. waits'[k] = waits[k] /\ phantoms'[k] = phantoms[k] + Cardinality(Left(k))
      BY <1>0
    <2>6. waits[k] \in Nat /\ phantoms[k] \in Nat /\ Cardinality(Left(k)) \in Nat
      BY <1>0, <1>1 DEF RestType
    <2> QED BY <2>1, <2>3, <2>4, <2>5, <2>6
  <1> QED BY <1>2, <1>3, <1>4 DEF CountInv

\* Every step keeps the counters.
LEMMA CountNext == Inv /\ CountInv /\ [Next]_vars => CountInv'
  <1> SUFFICES ASSUME Inv, CountInv, [Next]_vars PROVE CountInv'
    OBVIOUS
  <1>1. CASE UNCHANGED vars
    BY <1>1 DEF vars, redis, request, history, bounds, CountInv, RestType, CountedTries, NoPhantomWaiter
  <1> QED BY <1>1, CountIncrement, CountDecrement, CountRequest, CountSurroundings, CountCrash
          DEF Next, RequestStep

\* The counters hold in every reachable state.
LEMMA CountsHold == Spec => [](Inv /\ CountInv)
  <1>1. Inv /\ CountInv /\ [Next]_vars => Inv' /\ CountInv'
    BY InvNext, CountNext
  <1> QED BY <1>1, InvInit, CountInit, PTL DEF Spec

\* acquireScript draws a new member for its request, and every variable keeps its type.
THEOREM TypeCorrect == Spec => []TypeOK
  <1>1. Inv /\ CountInv => TypeOK
    BY DEF Inv, SlotType, CountInv, RestType, TypeOK
  <1> QED BY <1>1, CountsHold, PTL

\* IncrementWaitCount: a counter is never above the requests that wait plus the decrements
\* that were lost, for any queues, failures and crashes, also with floors and resets.
THEOREM WaitersAreReal == Spec => []NoPhantomWaiter
  <1>1. CountInv => NoPhantomWaiter
    BY DEF CountInv
  <1> QED BY <1>1, CountsHold, PTL

=============================================================================
