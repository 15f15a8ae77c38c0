--------------------------- MODULE UsageBillingProofs ---------------------------
(***************************************************************************)
(* Proofs about UsageBilling for any records, request ids, fingerprints    *)
(* and instances, any sizes of the queues, and any number of loads,        *)
(* changes, failures and crashes: a request id is charged for once, the    *)
(* queues keep to their capacity, and the copy of the balance follows it.  *)
(***************************************************************************)
EXTENDS UsageBilling, FiniteSetTheorems, TLAPS

\* The types of what a charge depends on.
LedgerType ==
  /\ command \in [Records -> Keys \X Prints]
  /\ balance \in Int /\ credited \in Int
  /\ charged \subseteq Keys /\ IsFiniteSet(charged)
  /\ dedup \in [Keys -> Prints \cup {None}] /\ archive \in [Keys -> Prints \cup {None}]
  /\ pc \in [Records -> Labels]
  /\ edit \in [balance : Int, adds : 0 .. 1] \cup {None}

\* The claims remember the charges: a request id is charged for exactly when its
\* claim is in usage_billing_dedup or in the archive.
ClaimedIsCharged == \A k \in Keys : k \in charged <=> Known(k) # None

\* A transaction between its claim and its commit is alone with an unclaimed id.
AloneWithKey ==
  \A u \in Records : pc[u] = "effects" =>
    /\ Known(key(u)) = None
    /\ \A v \in Records : pc[v] = "effects" /\ key(v) = key(u) => v = u

Ledger == LedgerType /\ ClaimedIsCharged /\ AloneWithKey /\ BalanceExplained

\* Fingerprints and request ids are what they should be.
LEMMA CommandType ==
  ASSUME LedgerType, NEW u \in Records
  PROVE  key(u) \in Keys /\ print(u) \in Prints /\ print(u) # None
  BY BillingConstants DEF LedgerType, key, print

\* The invariant holds in the initial state.
LEMMA LedgerInit == Init => Ledger
  <1> SUFFICES ASSUME Init PROVE Ledger
    OBVIOUS
  <1>1. LedgerType
    <2>1. IsFiniteSet(charged) /\ Cardinality(charged) = 0
      BY FS_EmptySet DEF Init
    <2> QED BY <2>1, BillingConstants DEF Init, LedgerType, Labels, Deducting
  <1>2. ClaimedIsCharged
    BY DEF Init, ClaimedIsCharged, Known
  <1>3. AloneWithKey
    BY DEF Init, AloneWithKey
  <1>4. BalanceExplained
    <2>1. Cardinality(charged) = 0
      BY FS_EmptySet DEF Init
    <2> QED BY <2>1, BillingConstants DEF Init, BalanceExplained
  <1> QED BY <1>1, <1>2, <1>3, <1>4 DEF Ledger

\* A step that neither charges, credits, claims nor archives keeps the ledger.
LEMMA NoCharge ==
  ASSUME Ledger, UNCHANGED <<command, balance, dedup, archive, charged, credited>>,
         pc' \in [Records -> Labels],
         \A u \in Records : pc'[u] = "effects" => pc[u] = "effects",
         edit' \in [balance : Int, adds : 0 .. 1] \cup {None},
         "row" \in slips => "row" \in slips'
  PROVE  Ledger'
  <1>1. LedgerType'
    BY DEF Ledger, LedgerType
  <1>2. ClaimedIsCharged'
    BY DEF Ledger, ClaimedIsCharged, Known
  <1>3. AloneWithKey'
    BY DEF Ledger, AloneWithKey, Known, key
  <1>4. BalanceExplained'
    BY DEF Ledger, BalanceExplained
  <1> QED BY <1>1, <1>2, <1>3, <1>4 DEF Ledger

\* Moving a record on, other than to its charge, is such a step.
LEMMA GotoNoCharge ==
  ASSUME Ledger, NEW u \in Records, NEW l \in Labels \ {"effects"}, Goto(u, l)
  PROVE  /\ pc' \in [Records -> Labels]
         /\ \A v \in Records : pc'[v] = "effects" => pc[v] = "effects"
  BY DEF Ledger, LedgerType, Goto

\* The labels a record can go to.
LEMMA LabelFacts == {"queued", "claim", "lost", "done", "send", "deduct"} \subseteq Labels \ {"effects"}
  BY DEF Labels, Deducting

\* A claim is of an unclaimed id that no other transaction is claiming, or ends the work.
LEMMA LedgerClaim ==
  ASSUME Ledger, NEW u \in Records, Claim(u)
  PROVE  Ledger'
  <1>1. CASE Free(key(u)) /\ Known(key(u)) = None /\ Goto(u, "effects")
    <2> USE DEF Ledger
    <2>1. LedgerType'
      BY <1>1 DEF Claim, tables, editing, history, LedgerType, Goto, Labels, Deducting
    <2>2. ClaimedIsCharged'
      BY <1>1 DEF Claim, tables, history, ClaimedIsCharged, Known
    <2>3. AloneWithKey'
      <3> SUFFICES ASSUME NEW v \in Records, pc'[v] = "effects"
                   PROVE  /\ Known(key(v))' = None
                          /\ \A w \in Records : pc'[w] = "effects" /\ key(w)' = key(v)' => w = v
        BY DEF AloneWithKey
      <3>1. \A w \in Records : key(w)' = key(w) /\ (pc'[w] = "effects" <=> w = u \/ pc[w] = "effects")
        BY <1>1 DEF Claim, Goto, LedgerType, key
      <3>2. \A k : Known(k)' = Known(k)
        BY DEF Claim, tables, Known
      <3>3. \A w \in Records : ~(pc[w] = "effects" /\ key(w) = key(u))
        BY <1>1 DEF Free
      <3>4. Known(key(v))' = Known(key(v)) 
        BY DEF Claim, tables, Known, key
      <3> QED BY <1>1, <3>1, <3>3, <3>4 DEF AloneWithKey
    <2>4. BalanceExplained'
      BY <1>1 DEF Claim, tables, history, BalanceExplained
    <2> QED BY <2>1, <2>2, <2>3, <2>4
  <1>2. CASE Goto(u, "done") \/ Goto(u, "lost")
    BY <1>2, GotoNoCharge, LabelFacts, NoCharge DEF Claim, tables, editing, history, Ledger, LedgerType
  <1> QED BY <1>1, <1>2 DEF Claim, Abort

\* A charge is for an unclaimed id, and claims it.
LEMMA LedgerCharge ==
  ASSUME Ledger, NEW u \in Records, Charge(u)
  PROVE  Ledger'
  <1> USE DEF Ledger
  <1>0. pc[u] = "effects" /\ key(u) \in Keys /\ print(u) \in Prints /\ print(u) # None
    BY CommandType DEF Charge
  <1>1. CASE Abort(u) /\ UNCHANGED <<balance, dedup, charged, slips>>
    BY <1>1, GotoNoCharge, LabelFacts, NoCharge DEF Charge, Abort, editing, LedgerType
  <1>2. CASE /\ balance' = balance - 1 /\ dedup' = [dedup EXCEPT ![key(u)] = print(u)]
             /\ charged' = charged \cup {key(u)}
             /\ \/ Works /\ Goto(u, Finalize(u)) /\ Slip(IF LoadUnderway THEN {"cache"} ELSE {})
                \/ Fails /\ Goto(u, "lost") /\ Slip({"cache"})
    <2>1. /\ UNCHANGED <<command, archive, edit, credited>>
          /\ slips \subseteq slips'
      BY <1>2 DEF Charge, editing, Slip
    <2>2. PICK l \in Labels \ {"effects"} : Goto(u, l)
      BY <1>2, LabelFacts DEF Finalize
    <2>3. /\ pc' \in [Records -> Labels]
          /\ \A v \in Records : pc'[v] = "effects" => pc[v] = "effects" /\ v # u
      BY <2>2 DEF Goto, LedgerType
    <2>4. key(u) \notin charged
      BY <1>0 DEF AloneWithKey, ClaimedIsCharged
    <2>5. IsFiniteSet(charged') /\ Cardinality(charged') = Cardinality(charged) + 1
      BY <1>2, <2>4, FS_AddElement DEF LedgerType
    <2>6. LedgerType'
      BY <1>0, <1>2, <2>1, <2>3, <2>5 DEF LedgerType
    <2>7. \A k \in Keys : Known(k)' = IF k = key(u) THEN print(u) ELSE Known(k)
      <3> TAKE k \in Keys
      <3>1. dedup'[k] = IF k = key(u) THEN print(u) ELSE dedup[k]
        BY <1>2 DEF LedgerType
      <3> QED BY <3>1, <1>0, <2>1 DEF Known
    <2>8. ClaimedIsCharged'
      BY <1>0, <1>2, <2>7 DEF ClaimedIsCharged
    <2>9. AloneWithKey'
      <3> SUFFICES ASSUME NEW v \in Records, pc'[v] = "effects"
                   PROVE  /\ Known(key(v))' = None
                          /\ \A w \in Records : pc'[w] = "effects" /\ key(w)' = key(v)' => w = v
        BY DEF AloneWithKey
      <3>1. \A w \in Records : key(w)' = key(w)
        BY <2>1 DEF key
      <3>2. pc[v] = "effects" /\ v # u /\ key(v) \in Keys
        BY <2>3, CommandType
      <3>3. key(v) # key(u)
        BY <1>0, <3>2 DEF AloneWithKey
      <3>4. Known(key(v))' = Known(key(v))
        <4>1. dedup'[key(v)] = dedup[key(v)]
          BY <1>2, <3>2, <3>3 DEF LedgerType
        <4> QED BY <4>1, <3>1, <2>1 DEF Known
      <3> QED BY <2>3, <3>1, <3>2, <3>4 DEF AloneWithKey
    <2>10. BalanceExplained'
      <3>1. Cardinality(charged) \in Nat
        BY FS_CardinalityType DEF LedgerType
      <3> QED BY <1>2, <2>1, <2>5, <3>1, BillingConstants DEF BalanceExplained, LedgerType
    <2> QED BY <2>6, <2>8, <2>9, <2>10
  <1> QED BY <1>1, <1>2 DEF Charge

\* Archiving moves a claim, and loses none.
LEMMA LedgerArchive ==
  ASSUME Ledger, NEW k \in Keys, Archive(k)
  PROVE  Ledger'
  <1> USE DEF Ledger
  <1>1. /\ UNCHANGED <<command, balance, pc, edit, charged, credited, slips>>
        /\ dedup' = [dedup EXCEPT ![k] = None]
        /\ archive' = [archive EXCEPT ![k] = IF @ = None THEN dedup[k] ELSE @]
        /\ dedup[k] # None
    BY DEF Archive, editing, history
  <1>2. LedgerType'
    BY <1>1 DEF LedgerType
  <1>3. \A i \in Keys : Known(i)' = None <=> Known(i) = None
    <2> TAKE i \in Keys
    <2>1. CASE i = k
      BY <1>1, <2>1 DEF LedgerType, Known
    <2>2. CASE i # k
      BY <1>1, <2>2 DEF LedgerType, Known
    <2> QED BY <2>1, <2>2
  <1>4. ClaimedIsCharged'
    BY <1>1, <1>3 DEF ClaimedIsCharged
  <1>5. AloneWithKey'
    <2>1. \A u \in Records : key(u)' = key(u) /\ key(u) \in Keys
      BY <1>1, CommandType DEF key
    <2>2. \A u \in Records : Known(key(u))' = None <=> Known(key(u)) = None
      <3> TAKE u \in Records
      <3> DEFINE i == key(u)
      <3>1. i \in Keys /\ i' = i
        BY <2>1
      <3>2. Known(i)' = None <=> Known(i) = None
        <4>1. CASE i = k
          BY <1>1, <3>1, <4>1 DEF LedgerType, Known
        <4>2. CASE i # k
          BY <1>1, <3>1, <4>2 DEF LedgerType, Known
        <4> QED BY <4>1, <4>2
      <3> QED BY <3>2
    <2> QED BY <1>1, <2>1, <2>2 DEF AloneWithKey
  <1>6. BalanceExplained'
    BY <1>1 DEF BalanceExplained
  <1> QED BY <1>2, <1>4, <1>5, <1>6

\* A step on the balance that claims nothing.
LEMMA OtherWriter ==
  ASSUME Ledger, UNCHANGED <<command, dedup, archive, pc, charged>>,
         edit' \in [balance : Int, adds : 0 .. 1] \cup {None},
         balance' \in Int, credited' \in Int, BalanceExplained'
  PROVE  Ledger'
  <1>1. LedgerType'
    BY DEF Ledger, LedgerType
  <1>2. ClaimedIsCharged'
    BY DEF Ledger, ClaimedIsCharged, Known
  <1>3. AloneWithKey'
    BY DEF Ledger, AloneWithKey, Known, key
  <1> QED BY <1>1, <1>2, <1>3 DEF Ledger

\* A credit or a refund is added to the balance and to what was credited.
LEMMA LedgerCredit ==
  ASSUME Ledger, Credit \/ Refund
  PROVE  Ledger'
  <1>1. PICK n \in {-1, 1} :
           /\ balance' = balance + n /\ credited' = credited + n
           /\ slips \subseteq slips' /\ UNCHANGED <<command, dedup, archive, pc, charged, edit>>
    BY DEF Credit, Refund, editing, Slip
  <1>2. Cardinality(charged) \in Nat
    BY FS_CardinalityType DEF Ledger, LedgerType
  <1>3. BalanceExplained'
    <2>1. Cardinality(charged)' = Cardinality(charged) /\ ("row" \in slips => "row" \in slips')
      BY <1>1
    <2>2. balance \in Int /\ credited \in Int /\ BalanceExplained
      BY DEF Ledger, LedgerType
    <2> QED BY <1>1, <1>2, <2>1, <2>2, BillingConstants DEF BalanceExplained
  <1> QED BY <1>1, <1>3, OtherWriter DEF Ledger, LedgerType

\* An update of the whole row either writes the balance there is, or is known to have
\* spoilt it.
LEMMA LedgerUpdateUser ==
  ASSUME Ledger, UpdateUser
  PROVE  Ledger'
  <1>1. /\ edit # None /\ edit' = None
        /\ balance' = edit.balance + edit.adds /\ credited' = credited + edit.adds
        /\ slips \subseteq slips' /\ (edit.balance # balance => "row" \in slips')
        /\ UNCHANGED <<command, dedup, archive, pc, charged>>
    BY DEF UpdateUser, Slip
  <1>2. edit.balance \in Int /\ edit.adds \in 0 .. 1
    BY <1>1 DEF Ledger, LedgerType
  <1>3. Cardinality(charged) \in Nat
    BY FS_CardinalityType DEF Ledger, LedgerType
  <1>4. BalanceExplained'
    BY <1>1, <1>2, <1>3, BillingConstants DEF Ledger, LedgerType, BalanceExplained
  <1> QED BY <1>1, <1>2, <1>4, OtherWriter DEF Ledger, LedgerType

\* Every step keeps the invariant.
LEMMA LedgerNext == Ledger /\ [Next]_vars => Ledger'
  <1> SUFFICES ASSUME Ledger, [Next]_vars PROVE Ledger'
    OBVIOUS
  <1> USE DEF tables, editing, history
  <1>0. /\ edit \in [balance : Int, adds : 0 .. 1] \cup {None}
        /\ pc \in [Records -> Labels] /\ balance \in Int
    BY DEF Ledger, LedgerType
  <1>1. ASSUME NEW u \in Records, Submit(u) \/ Take(u) PROVE Ledger'
    <2>1. \E l \in Labels \ {"effects"} : Goto(u, l)
      BY <1>1, LabelFacts DEF Submit, Take
    <2> QED BY <1>0, <1>1, <2>1, GotoNoCharge, NoCharge DEF Submit, Take
  <1>2. ASSUME NEW u \in Records, QueueDeductBalance(u) \/ DeductNow(u) PROVE Ledger'
    <2>1. \E l \in Labels \ {"effects"} : Goto(u, l)
      BY <1>2, LabelFacts DEF QueueDeductBalance, DeductNow
    <2> QED BY <1>0, <1>2, <2>1, GotoNoCharge, NoCharge
            DEF QueueDeductBalance, DeductNow, Command, Slip
  <1>3. ASSUME NEW i \in Instances, PerformWrite(i) \/ StartLoad(i) \/ LoadStep(i) PROVE Ledger'
    BY <1>0, <1>3, NoCharge
       DEF PerformWrite, StartLoad, LoadStep, ReadBalance, SendBalance, Command, Slip
  <1>4. ASSUME NEW i \in Instances, StopPool(i) \/ StopWriter(i) PROVE Ledger'
    BY <1>0, <1>4, NoCharge DEF StopPool, StopWriter
  <1>5. ASSUME NEW i \in Instances, Crash(i) PROVE Ledger'
    <2>1. /\ pc' \in [Records -> Labels]
          /\ \A u \in Records : pc'[u] = "effects" => pc[u] = "effects"
      BY <1>0, <1>5, LabelFacts DEF Crash
    <2> QED BY <1>0, <1>5, <2>1, NoCharge DEF Crash, Slip
  <1>6. CASE CacheExpires \/ ReadUser \/ Purge
    BY <1>0, <1>6, NoCharge DEF CacheExpires, ReadUser, Purge, Command, Slip
  <1>7. CASE UNCHANGED vars
    BY <1>0, <1>7, NoCharge DEF vars
  <1> QED
    BY <1>1, <1>2, <1>3, <1>4, <1>5, <1>6, <1>7, LedgerClaim, LedgerCharge, LedgerArchive,
       LedgerCredit, LedgerUpdateUser DEF Next, RecordStep

\* usageBillingRepository.Apply: the balance is the opening one with the credits, less 1
\* for each request id charged for, unless an update of the row wrote an old one back.
THEOREM EachIdChargedOnce == Spec => []BalanceExplained
  <1>1. Ledger => BalanceExplained
    BY DEF Ledger
  <1> QED BY <1>1, LedgerInit, LedgerNext, PTL DEF Spec

-----------------------------------------------------------------------------
(* Types, with the capacities of the queues and the bounds *)

Write == [kind : {"deduct", "set"}, by : Records \cup (Instances \X Nat), balance : Int]

\* TypeOK, with what its bounds rest on: the queues hold finitely many writes, and
\* each credit or refund, the credit of an update underway included, is one of the changes.
Shapes ==
  /\ TypeOK
  /\ writes \in [Instances -> SUBSET Write] /\ \A i \in Instances : IsFiniteSet(writes[i])
  /\ -changes <= credited /\ credited + (IF edit = None THEN 0 ELSE 1) <= changes

\* The shapes hold in the initial state.
LEMMA ShapesInit == Init => Shapes
  <1> SUFFICES ASSUME Init PROVE Shapes
    OBVIOUS
  <1>1. \A i \in Instances : writes[i] = {} /\ IsFiniteSet(writes[i]) /\ Cardinality(writes[i]) <= WriteBuffer
    BY FS_EmptySet, BillingConstants DEF Init
  <1>2. /\ writes \in [Instances -> SUBSET Write]
        /\ -changes <= credited /\ credited + (IF edit = None THEN 0 ELSE 1) <= changes
    BY DEF Init
  <1>3. load \in [Instances -> [at : {"idle", "read", "send"}, balance : Int]]
    BY DEF Init, Idle
  <1>4. /\ credited \in -MaxChanges .. MaxChanges /\ changes \in 0 .. MaxChanges /\ faults \in 0 .. MaxFaults
        /\ loads \in [Instances -> 0 .. MaxLoads]
    BY BillingConstants DEF Init
  <1>5. TypeOK
    BY <1>1, <1>3, <1>4, BillingConstants DEF Init, TypeOK, Labels
  <1> QED BY <1>1, <1>2, <1>5 DEF Shapes

\* A record that goes to a label keeps the type of pc.
LEMMA GotoType ==
  ASSUME Shapes, NEW u, NEW l \in Labels, Goto(u, l)
  PROVE  pc' \in [Records -> Labels]
  BY DEF Shapes, TypeOK, Goto

\* Failures are counted up to their bound.
LEMMA FaultType ==
  ASSUME Shapes, Works \/ Fails
  PROVE  faults' \in 0 .. MaxFaults
  BY BillingConstants DEF Shapes, TypeOK, Works, Fails

\* Marks are added to slips.
LEMMA SlipType ==
  ASSUME Shapes, NEW new, new \subseteq {"cache", "row"}, Slip(new) \/ UNCHANGED slips
  PROVE  slips' \subseteq {"cache", "row"} /\ slips \subseteq slips'
  BY DEF Shapes, TypeOK, Slip

\* A command leaves in the cache what it was meant to leave, or what was there.
LEMMA CommandTypes ==
  ASSUME Shapes, NEW e \in Int \cup {None}, NEW off \in Int, Command(e, off)
  PROVE  /\ cache' \in Int \cup {None} /\ slips' \subseteq {"cache", "row"}
         /\ adrift' \in Int /\ faults' \in 0 .. MaxFaults /\ slips \subseteq slips'
         /\ slips' = {} => cache' = e /\ adrift' = off
  <1>1. CASE Works /\ cache' = e /\ adrift' = off /\ UNCHANGED slips
    BY <1>1, FaultType DEF Shapes, TypeOK
  <1>2. CASE Fails /\ Slip({"cache"}) /\ UNCHANGED <<cache, adrift>>
    BY <1>2, FaultType DEF Shapes, TypeOK, Slip
  <1> QED BY <1>1, <1>2 DEF Command

\* What a deduction leaves in the cache.
LEMMA DeductedType == Shapes => Deducted \in Int \cup {None}
  BY BillingConstants DEF Shapes, TypeOK, Deducted

\* A write is put into a queue that has room for it.
LEMMA PutTypes ==
  ASSUME Shapes, NEW i \in Instances, NEW w \in Write, Accepts(i), Put(i, w)
  PROVE  /\ writes' \in [Instances -> SUBSET Write]
         /\ \A j \in Instances : IsFiniteSet(writes'[j]) /\ Cardinality(writes'[j]) <= WriteBuffer
  <1>1. writes' = [writes EXCEPT ![i] = @ \cup {w}] /\ writes \in [Instances -> SUBSET Write]
    BY DEF Put, Shapes
  <1>2. ASSUME NEW j \in Instances
        PROVE  IsFiniteSet(writes'[j]) /\ Cardinality(writes'[j]) <= WriteBuffer
    <2>0. IsFiniteSet(writes[j]) /\ Cardinality(writes[j]) <= WriteBuffer /\ Cardinality(writes[j]) \in Nat
      BY FS_CardinalityType DEF Shapes, TypeOK
    <2>1. CASE j = i
      <3>1. writes'[j] = writes[j] \cup {w} /\ Cardinality(writes[j]) < WriteBuffer
        BY <1>1, <2>1 DEF Accepts, Room
      <3>2. /\ IsFiniteSet(writes'[j])
            /\ Cardinality(writes'[j]) = Cardinality(writes[j])
               \/ Cardinality(writes'[j]) = Cardinality(writes[j]) + 1
        BY <2>0, <3>1, FS_AddElement
      <3> QED BY <2>0, <3>1, <3>2, BillingConstants
    <2>2. CASE j # i
      BY <1>1, <2>0, <2>2
    <2> QED BY <2>1, <2>2
  <1> QED BY <1>1, <1>2

\* A queue from which writes were taken.
LEMMA LessTypes ==
  ASSUME Shapes, writes' \in [Instances -> SUBSET Write],
         \A i \in Instances : writes'[i] \subseteq writes[i]
  PROVE  \A i \in Instances : IsFiniteSet(writes'[i]) /\ Cardinality(writes'[i]) <= WriteBuffer
  <1> TAKE i \in Instances
  <1>1. /\ IsFiniteSet(writes[i]) /\ Cardinality(writes[i]) <= WriteBuffer
        /\ writes'[i] \subseteq writes[i]
    BY DEF Shapes, TypeOK
  <1>2. /\ IsFiniteSet(writes'[i]) /\ Cardinality(writes'[i]) <= Cardinality(writes[i])
        /\ Cardinality(writes'[i]) \in Nat /\ Cardinality(writes[i]) \in Nat
    BY <1>1, FS_Subset, FS_CardinalityType
  <1> QED BY <1>1, <1>2, BillingConstants

\* The writes of a queue are of two kinds, with a balance.
LEMMA WriteTypes ==
  ASSUME writes' \in [Instances -> SUBSET Write]
  PROVE  \A i \in Instances : \A w \in writes'[i] : w.kind \in {"deduct", "set"} /\ w.balance \in Int
  BY DEF Write

\* The two writes that are put into a queue.
LEMMA PutIsWrite ==
  ASSUME Shapes
  PROVE  /\ \A u \in Records : Deduct(u) \in Write
         /\ \A i \in Instances : \A n \in Int : Set(i, n) \in Write
  <1>1. \A i \in Instances : loads[i] \in Nat
    BY BillingConstants DEF Shapes, TypeOK
  <1> QED BY <1>1 DEF Deduct, Set, Write

\* What the request, the transaction and the row's other writers change.
RowTypes ==
  /\ command \in Commands /\ balance \in Int
  /\ dedup \in [Keys -> Prints \cup {None}] /\ archive \in [Keys -> Prints \cup {None}]
  /\ pc \in [Records -> Labels] /\ charged \subseteq Keys

\* The queues and loads of the instances.
QueueTypes ==
  /\ pool \in [Instances -> {"open", "stopping"}]
  /\ writer \in [Instances -> {"open", "flagged", "closed", "gone"}]
  /\ writes \in [Instances -> SUBSET Write]
  /\ \A i \in Instances : IsFiniteSet(writes[i]) /\ Cardinality(writes[i]) <= WriteBuffer
  /\ load \in [Instances -> [at : {"idle", "read", "send"}, balance : Int]]
  /\ loads \in [Instances -> 0 .. MaxLoads]

\* The cache, and what is counted.
CountTypes ==
  /\ cache \in Int \cup {None}
  /\ edit \in [balance : Int, adds : 0 .. 1] \cup {None} /\ purges \in Nat
  /\ credited \in -MaxChanges .. MaxChanges /\ changes \in 0 .. MaxChanges
  /\ -changes <= credited /\ credited + (IF edit = None THEN 0 ELSE 1) <= changes
  /\ slips \subseteq {"cache", "row"} /\ adrift \in Int /\ faults \in 0 .. MaxFaults

\* The three together are the shapes.
LEMMA ShapesSplit == Shapes <=> RowTypes /\ QueueTypes /\ CountTypes
  <1>1. Shapes => RowTypes /\ QueueTypes /\ CountTypes
    BY DEF Shapes, TypeOK, RowTypes, QueueTypes, CountTypes
  <1>2. ASSUME RowTypes, QueueTypes, CountTypes PROVE Shapes
    <2>1. \A i \in Instances : \A w \in writes[i] : w.kind \in {"deduct", "set"} /\ w.balance \in Int
      BY <1>2 DEF QueueTypes, Write
    <2>2. TypeOK
      BY <1>2, <2>1 DEF RowTypes, QueueTypes, CountTypes, TypeOK
    <2> QED BY <1>2, <2>2 DEF Shapes, RowTypes, QueueTypes, CountTypes
  <1> QED BY <1>1, <1>2

\* The same of the next state.
LEMMA ShapesJoin == RowTypes' /\ QueueTypes' /\ CountTypes' => Shapes'
  BY ShapesSplit, PTL

\* Submitting, taking and claiming a record.
LEMMA ShapesRecord ==
  ASSUME Shapes, NEW u \in Records, Submit(u) \/ Take(u) \/ Claim(u)
  PROVE  Shapes'
  <1> USE ShapesSplit
  <1>1. \E l \in Labels : Goto(u, l)
    BY DEF Submit, Take, Claim, Abort, Labels
  <1>2. RowTypes'
    BY <1>1, GotoType DEF Submit, Take, Claim, tables, history, RowTypes
  <1>3. QueueTypes'
    BY DEF Submit, Take, Claim, process, bounds, QueueTypes
  <1>4. CountTypes'
    <2>1. faults' \in 0 .. MaxFaults
      BY FaultType DEF Submit, Take, Claim, Abort, bounds, Shapes, TypeOK
    <2> QED BY <2>1 DEF Submit, Take, Claim, editing, history, bounds, CountTypes
  <1> QED BY <1>2, <1>3, <1>4, ShapesJoin

\* A charge.
LEMMA ShapesCharge ==
  ASSUME Shapes, NEW u \in Records, Charge(u)
  PROVE  Shapes'
  <1> USE ShapesSplit
  <1>1. \E l \in Labels : Goto(u, l)
    BY DEF Charge, Abort, Finalize, Labels
  <1>2. RowTypes'
    <2>1. key(u) \in Keys /\ print(u) \in Prints
      BY BillingConstants DEF RowTypes, key, print
    <2> QED BY <1>1, <2>1, GotoType DEF Charge, RowTypes
  <1>3. QueueTypes'
    BY DEF Charge, process, QueueTypes
  <1>4. CountTypes'
    <2>1. faults' \in 0 .. MaxFaults
      BY FaultType DEF Charge, Abort
    <2>2. slips' \subseteq {"cache", "row"}
      BY DEF Charge, Slip, CountTypes
    <2> QED BY <2>1, <2>2 DEF Charge, editing, CountTypes
  <1> QED BY <1>2, <1>3, <1>4, ShapesJoin

\* The deductions from the cache.
LEMMA ShapesDeduct ==
  ASSUME Shapes, NEW u \in Records, QueueDeductBalance(u) \/ DeductNow(u)
  PROVE  Shapes'
  <1> USE ShapesSplit
  <1>1. \E l \in Labels : Goto(u, l)
    BY DEF QueueDeductBalance, DeductNow, Labels
  <1>2. RowTypes'
    BY <1>1, GotoType DEF QueueDeductBalance, DeductNow, tables, RowTypes
  <1>3. QueueTypes'
    <2>1. CASE UNCHANGED writes
      BY <2>1 DEF QueueDeductBalance, DeductNow, process, bounds, QueueTypes
    <2>2. CASE Accepts(Home(u)) /\ Put(Home(u), Deduct(u)) /\ QueueDeductBalance(u)
      BY <2>2, PutTypes, PutIsWrite, BillingConstants DEF QueueDeductBalance, bounds, QueueTypes
    <2> QED BY <2>1, <2>2 DEF QueueDeductBalance, DeductNow, process
  <1>4. CountTypes'
    <2>1. CASE QueueDeductBalance(u)
      <3>1. slips' \subseteq {"cache", "row"}
        BY <2>1 DEF QueueDeductBalance, Slip, CountTypes
      <3> QED BY <2>1, <3>1 DEF QueueDeductBalance, editing, bounds, CountTypes
    <2>2. CASE DeductNow(u)
      <3>1. adrift \in Int
        BY DEF CountTypes
      <3> QED BY <2>2, <3>1, CommandTypes, DeductedType DEF DeductNow, editing, CountTypes
    <2> QED BY <2>1, <2>2
  <1> QED BY <1>2, <1>3, <1>4, ShapesJoin

\* A worker of the queue performs a write.
LEMMA ShapesPerform ==
  ASSUME Shapes, NEW i \in Instances, PerformWrite(i)
  PROVE  Shapes'
  <1> USE ShapesSplit
  <1>1. PICK w \in writes[i] :
          /\ writes' = [writes EXCEPT ![i] = @ \ {w}]
          /\ \/ w.kind = "set" /\ Command(w.balance, 0)
             \/ w.kind = "deduct" /\ Command(Deducted, adrift)
    BY DEF PerformWrite
  <1>2. RowTypes'
    BY DEF PerformWrite, tables, RowTypes
  <1>3. QueueTypes'
    <2>1. /\ writes' \in [Instances -> SUBSET Write]
          /\ \A j \in Instances : writes'[j] \subseteq writes[j]
      BY <1>1 DEF QueueTypes
    <2> QED BY <2>1, LessTypes DEF PerformWrite, QueueTypes
  <1>4. CountTypes'
    <2>1. w.balance \in Int /\ adrift \in Int
      BY DEF Shapes, TypeOK
    <2>2. PICK e \in Int \cup {None}, off \in Int : Command(e, off)
      <3>1. w.balance \in Int \cup {None} /\ Deducted \in Int \cup {None} /\ 0 \in Int
        BY <2>1, DeductedType
      <3> QED BY <1>1, <2>1, <3>1
    <2> QED BY <2>2, CommandTypes DEF PerformWrite, editing, CountTypes
  <1> QED BY <1>2, <1>3, <1>4, ShapesJoin

\* The load of the balance.
LEMMA ShapesLoad ==
  ASSUME Shapes, NEW i \in Instances, StartLoad(i) \/ LoadStep(i)
  PROVE  Shapes'
  <1> USE ShapesSplit
  <1>2. RowTypes'
    BY DEF StartLoad, LoadStep, ReadBalance, SendBalance, tables, history, RowTypes
  <1>3. QueueTypes'
    <2>1. CASE StartLoad(i)
      BY <2>1, BillingConstants DEF StartLoad, QueueTypes
    <2>2. CASE ReadBalance(i)
      BY <2>2 DEF ReadBalance, bounds, QueueTypes, RowTypes, Idle
    <2>3. CASE SendBalance(i)
      <3>0. load' \in [Instances -> [at : {"idle", "read", "send"}, balance : Int]]
        BY <2>3 DEF SendBalance, QueueTypes, Idle
      <3>1. CASE UNCHANGED writes
        BY <2>3, <3>0, <3>1 DEF SendBalance, bounds, QueueTypes
      <3>2. CASE Accepts(i) /\ Put(i, Set(i, load[i].balance))
        <4>1. load[i].balance \in Int
          BY DEF QueueTypes
        <4>2. Set(i, load[i].balance) \in Write
          BY <4>1, PutIsWrite
        <4>3. /\ writes' \in [Instances -> SUBSET Write]
              /\ \A j \in Instances : IsFiniteSet(writes'[j]) /\ Cardinality(writes'[j]) <= WriteBuffer
          BY <3>2, <4>2, PutTypes
        <4> QED BY <2>3, <3>0, <4>3 DEF SendBalance, bounds, QueueTypes
      <3> QED BY <2>3, <3>1, <3>2 DEF SendBalance
    <2> QED BY <2>1, <2>2, <2>3 DEF LoadStep
  <1>4. CountTypes'
    <2>1. faults' \in 0 .. MaxFaults
      BY FaultType DEF StartLoad, LoadStep, ReadBalance, SendBalance, bounds, Shapes, TypeOK
    <2>2. slips' \subseteq {"cache", "row"}
      BY DEF StartLoad, LoadStep, ReadBalance, SendBalance, history, Slip, CountTypes
    <2> QED BY <2>1, <2>2
            DEF StartLoad, LoadStep, ReadBalance, SendBalance, editing, history, bounds, CountTypes
  <1> QED BY <1>2, <1>3, <1>4, ShapesJoin

\* The other writers of the row, and what they do to the cache.
LEMMA ShapesWriter ==
  ASSUME Shapes, Credit \/ Refund \/ ReadUser \/ UpdateUser \/ Purge \/ CacheExpires
  PROVE  Shapes'
  <1> USE ShapesSplit
  <1>2. RowTypes'
    BY DEF Credit, Refund, ReadUser, UpdateUser, Purge, CacheExpires, tables, history, RowTypes, CountTypes
  <1>3. QueueTypes'
    BY DEF Credit, Refund, ReadUser, UpdateUser, Purge, CacheExpires, process, bounds, QueueTypes
  <1>4. CountTypes'
    <2>1. CASE Credit
      <3>1. slips' \subseteq {"cache", "row"}
        BY <2>1 DEF Credit, Slip, CountTypes
      <3> QED BY <2>1, <3>1, BillingConstants DEF Credit, CountTypes
    <2>2. CASE ReadUser
      <3>1. edit' \in [balance : Int, adds : 0 .. 1] \cup {None} /\ edit = None
        BY <2>2 DEF ReadUser, RowTypes
      <3>2. /\ changes' = changes + 1 /\ changes < MaxChanges
            /\ UNCHANGED <<cache, purges, credited, slips, adrift, faults>>
        BY <2>2 DEF ReadUser, history
      <3> QED BY <3>1, <3>2, BillingConstants DEF CountTypes
    <2>3. CASE UpdateUser
      <3>1. slips' \subseteq {"cache", "row"}
        BY <2>3 DEF UpdateUser, Slip, CountTypes
      <3>2. edit.adds \in 0 .. 1 /\ edit # None /\ edit' = None
        BY <2>3 DEF UpdateUser, CountTypes
      <3> QED BY <2>3, <3>1, <3>2, BillingConstants DEF UpdateUser, bounds, CountTypes
    <2>4. CASE Purge
      <3>1. Command(None, 0) /\ UNCHANGED <<edit, credited, changes>> /\ purges > 0 /\ purges' = purges - 1
        BY <2>4 DEF Purge
      <3>2. None \in Int \cup {None} /\ 0 \in Int
        OBVIOUS
      <3>3. /\ cache' \in Int \cup {None} /\ slips' \subseteq {"cache", "row"}
            /\ adrift' \in Int /\ faults' \in 0 .. MaxFaults
        BY <3>1, <3>2, CommandTypes
      <3> QED BY <3>1, <3>3 DEF CountTypes
    <2>5. CASE CacheExpires
      BY <2>5 DEF CacheExpires, editing, bounds, CountTypes
    <2>6. CASE Refund
      <3>1. PICK n \in {-1, 1} : credited' = credited + n /\ adrift' \in {0, adrift - n}
        BY <2>6 DEF Refund
      <3>2. slips' \subseteq {"cache", "row"}
        BY <2>6 DEF Refund, Slip, CountTypes
      <3>3. adrift' \in Int
        BY <3>1 DEF CountTypes
      <3>4. /\ changes' = changes + 1 /\ changes < MaxChanges
            /\ UNCHANGED <<cache, edit, purges, faults>>
        BY <2>6 DEF Refund, editing
      <3> QED BY <3>1, <3>2, <3>3, <3>4, BillingConstants DEF CountTypes
    <2> QED BY <2>1, <2>2, <2>3, <2>4, <2>5, <2>6
  <1> QED BY <1>2, <1>3, <1>4, ShapesJoin

\* Archiving a claim.
LEMMA ShapesArchive ==
  ASSUME Shapes, NEW k \in Keys, Archive(k)
  PROVE  Shapes'
  <1> USE ShapesSplit
  <1>1. RowTypes'
    BY DEF Archive, history, RowTypes
  <1>2. QueueTypes' /\ CountTypes'
    BY DEF Archive, process, editing, history, bounds, QueueTypes, CountTypes
  <1> QED BY <1>1, <1>2, ShapesJoin

\* The shutdown of an instance, and its crash.
LEMMA ShapesStop ==
  ASSUME Shapes, NEW i \in Instances, StopPool(i) \/ StopWriter(i) \/ Crash(i)
  PROVE  Shapes'
  <1> USE ShapesSplit
  <1>1. CASE StopPool(i) \/ StopWriter(i)
    <2>1. QueueTypes'
      BY <1>1 DEF StopPool, StopWriter, bounds, QueueTypes
    <2>2. RowTypes' /\ CountTypes'
      BY <1>1 DEF StopPool, StopWriter, tables, editing, history, bounds, RowTypes, CountTypes
    <2> QED BY <2>1, <2>2, ShapesJoin
  <1>2. CASE Crash(i)
    <2>1. RowTypes'
      BY <1>2 DEF Crash, tables, RowTypes, Labels
    <2>2. QueueTypes'
      <3>1. /\ writes' \in [Instances -> SUBSET Write]
            /\ \A j \in Instances : writes'[j] \subseteq writes[j]
        BY <1>2 DEF Crash, QueueTypes
      <3> QED BY <1>2, <3>1, LessTypes DEF Crash, QueueTypes, Idle
    <2>3. CountTypes'
      <3>1. faults' \in 0 .. MaxFaults
        BY <1>2, FaultType DEF Crash
      <3>2. slips' \subseteq {"cache", "row"}
        BY <1>2 DEF Crash, Slip, CountTypes
      <3>3. edit' \in {edit, None} /\ purges' \in Nat /\ UNCHANGED <<cache, credited, adrift, changes>>
        BY <1>2 DEF Crash, CountTypes
      <3> QED BY <3>1, <3>2, <3>3 DEF CountTypes
    <2> QED BY <2>1, <2>2, <2>3, ShapesJoin
  <1> QED BY <1>1, <1>2

\* Every step keeps the shapes.
LEMMA ShapesNext == Shapes /\ [Next]_vars => Shapes'
  <1> SUFFICES ASSUME Shapes, [Next]_vars PROVE Shapes'
    OBVIOUS
  <1>1. CASE UNCHANGED vars
    BY <1>1 DEF vars, tables, process, editing, history, bounds, Shapes, TypeOK
  <1> QED
    BY <1>1, ShapesRecord, ShapesCharge, ShapesDeduct, ShapesPerform, ShapesLoad,
       ShapesWriter, ShapesArchive, ShapesStop DEF Next, RecordStep

\* BillingCacheService and UsageRecordWorkerPool: every variable keeps its type, for any
\* sizes; a queue of cache writes never holds more than its channel has room for.
THEOREM TypeCorrect == Spec => []TypeOK
  <1>1. Shapes => TypeOK
    BY DEF Shapes
  <1> QED BY <1>1, ShapesInit, ShapesNext, PTL DEF Spec

-----------------------------------------------------------------------------
(* The copy of the balance *)

\* The records that were charged for and whose deduction from the cache is pending,
\* at their own worker or in a queue.
Undeducted == {u \in Records : pc[u] \in Deducting \/ Deduct(u) \in writes[Home(u)]}

\* A deduction in a queue is that of a record of this instance, which is done with.
OwnDeduction ==
  \A i \in Instances : \A w \in writes[i] : w.kind = "deduct" =>
    \E u \in Records : w = Deduct(u) /\ Home(u) = i /\ pc[u] = "done"

\* Unless something parted them: while a load is underway nothing is left to deduct,
\* and what it will write is the balance; unless an invalidation is to come, the copy
\* is ahead of the balance by what is left to deduct and what went by without one.
Following ==
  slips = {} =>
    /\ LoadUnderway => Undeducted = {}
    /\ \A i \in Instances : load[i].at = "send" => load[i].balance = balance
    /\ \A i \in Instances : \A w \in writes[i] : w.kind = "set" => w.balance = balance
    /\ purges = 0 => cache \in {None, balance + Cardinality(Undeducted) + adrift}

CopyInv == Shapes /\ OwnDeduction /\ Following

\* There is a charge underway exactly when there is something left to deduct.
LEMMA UnderwayIsUndeducted ==
  ASSUME OwnDeduction
  PROVE  ChargeUnderway <=> Undeducted # {}
  <1>1. ASSUME NEW u \in Records, Deduct(u) \in writes[Home(u)] PROVE ChargeUnderway
    BY <1>1, BillingConstants DEF ChargeUnderway, Deduct
  <1>2. ASSUME NEW i \in Instances, NEW w \in writes[i], w.kind = "deduct" PROVE Undeducted # {}
    BY <1>2 DEF OwnDeduction, Undeducted
  <1> QED BY <1>1, <1>2 DEF ChargeUnderway, Undeducted

\* What is left to deduct can be counted.
LEMMA UndeductedIsFinite == IsFiniteSet(Undeducted) /\ Cardinality(Undeducted) \in Nat
  <1>1. Undeducted \subseteq Records
    BY DEF Undeducted
  <1> QED BY <1>1, FS_Subset, FS_CardinalityType, BillingConstants

\* The copy follows the balance in the initial state.
LEMMA CopyInit == Init => CopyInv
  <1> SUFFICES ASSUME Init PROVE CopyInv
    OBVIOUS
  <1>1. OwnDeduction
    BY DEF Init, OwnDeduction
  <1>2. Following
    BY DEF Init, Following, LoadUnderway, Idle
  <1> QED BY <1>1, <1>2, ShapesInit DEF CopyInv

\* A step of other parties: it leaves balance and copy, loads and queues alone, and moves
\* a record only where it neither was nor will be owing a deduction.
LEMMA CopyKept ==
  ASSUME CopyInv, UNCHANGED <<balance, cache, adrift, writes, load>>,
         purges' = purges \/ purges' > 0, slips' = slips,
         \A u \in Records : pc'[u] # pc[u] => pc[u] \notin Deducting \cup {"done"} /\ pc'[u] \notin Deducting
  PROVE  OwnDeduction' /\ Following'
  <1>1. OwnDeduction'
    BY DEF CopyInv, OwnDeduction, Deduct
  <1>2. Undeducted' = Undeducted
    BY DEF Undeducted, Deduct
  <1>3. LoadUnderway' <=> LoadUnderway
    BY DEF LoadUnderway
  <1>4. Following'
    BY <1>2, <1>3 DEF CopyInv, Following
  <1> QED BY <1>1, <1>4

\* Submitting, taking and claiming a record.
LEMMA CopyRecord ==
  ASSUME CopyInv, NEW u \in Records, Submit(u) \/ Take(u) \/ Claim(u)
  PROVE  OwnDeduction' /\ Following'
  <1>1. /\ UNCHANGED <<balance, cache, adrift, writes, load, purges, slips>>
        /\ pc[u] \in {"forwarded", "queued", "claim"}
        /\ \E l \in {"queued", "claim", "lost", "effects", "done"} : pc' = [pc EXCEPT ![u] = l]
    BY DEF Submit, Take, Claim, Abort, Goto, tables, process, editing, history
  <1>2. \A v \in Records : pc'[v] # pc[v] => pc[v] \notin Deducting \cup {"done"} /\ pc'[v] \notin Deducting
    BY <1>1 DEF CopyInv, Shapes, TypeOK, Deducting
  <1> QED BY <1>1, <1>2, CopyKept

\* A charge leaves one deduction more, and must not meet a load.
LEMMA CopyCharge ==
  ASSUME CopyInv, NEW u \in Records, Charge(u)
  PROVE  OwnDeduction' /\ Following'
  <1>0. /\ pc[u] = "effects" /\ pc \in [Records -> Labels]
        /\ UNCHANGED <<cache, adrift, writes, load, purges>>
    BY DEF Charge, process, editing, CopyInv, Shapes, TypeOK
  <1>1. \E l \in {"send", "deduct", "lost"} : pc' = [pc EXCEPT ![u] = l]
    BY DEF Charge, Abort, Goto, Finalize
  <1>2. OwnDeduction'
    BY <1>0, <1>1 DEF CopyInv, OwnDeduction, Deduct
  <1>3. CASE Abort(u) /\ UNCHANGED <<balance, slips>>
    BY <1>0, <1>3, CopyKept DEF Abort, Goto, Deducting
  <1>4. CASE Fails /\ Goto(u, "lost") /\ Slip({"cache"})
    BY <1>2, <1>4 DEF Slip, Following
  <1>5. CASE /\ balance' = balance - 1
             /\ Goto(u, Finalize(u)) /\ Slip(IF LoadUnderway THEN {"cache"} ELSE {})
    <2> SUFFICES ASSUME slips' = {} PROVE Following'
      BY <1>2 DEF Following
    <2>1. slips = {} /\ ~LoadUnderway /\ ~LoadUnderway'
      BY <1>0, <1>5 DEF Slip, LoadUnderway
    <2>2. pc'[u] \in Deducting /\ \A v \in Records \ {u} : pc'[v] = pc[v]
      BY <1>0, <1>5 DEF Goto, Finalize, Deducting
    <2>3. u \notin Undeducted
      BY <1>0, BillingConstants DEF CopyInv, OwnDeduction, Undeducted, Deduct, Deducting
    <2>4. Undeducted' = Undeducted \cup {u}
      BY <1>0, <2>2 DEF Undeducted, Deduct
    <2>5. Cardinality(Undeducted') = Cardinality(Undeducted) + 1
      BY <2>3, <2>4, UndeductedIsFinite, FS_AddElement
    <2>6. purges' = 0 => cache' \in {None, balance' + Cardinality(Undeducted)' + adrift'}
      <3>1. purges = 0 => cache \in {None, balance + Cardinality(Undeducted) + adrift}
        BY <2>1 DEF CopyInv, Following
      <3>2. balance \in Int /\ adrift \in Int /\ Cardinality(Undeducted) \in Nat
        BY UndeductedIsFinite DEF CopyInv, Shapes, TypeOK
      <3> QED BY <1>0, <1>5, <2>5, <3>1, <3>2
    <2> QED BY <1>0, <2>1, <2>6 DEF Following, LoadUnderway
  <1> QED BY <1>3, <1>4, <1>5 DEF Charge

\* QueueDeductBalance passes the deduction on, or keeps it for the fallback.
LEMMA CopyQueue ==
  ASSUME CopyInv, NEW u \in Records, QueueDeductBalance(u)
  PROVE  OwnDeduction' /\ Following'
  <1>0. /\ pc[u] = "send" /\ pc \in [Records -> Labels] /\ writes \in [Instances -> SUBSET Write]
        /\ \A v \in Records : Home(v) \in Instances
        /\ UNCHANGED <<balance, cache, adrift, load, purges>>
    BY BillingConstants DEF QueueDeductBalance, tables, editing, CopyInv, Shapes, TypeOK
  <1>1. CASE Put(Home(u), Deduct(u)) /\ Goto(u, "done") /\ UNCHANGED slips
    <2>1. /\ pc' = [pc EXCEPT ![u] = "done"]
          /\ writes' = [writes EXCEPT ![Home(u)] = @ \cup {Deduct(u)}]
      BY <1>1 DEF Put, Goto, Deduct
    <2>2. OwnDeduction'
      <3> SUFFICES ASSUME NEW i \in Instances, NEW w \in writes'[i], w.kind = "deduct"
                   PROVE  \E v \in Records : w = Deduct(v) /\ Home(v) = i /\ pc'[v] = "done"
        BY DEF OwnDeduction, Deduct
      <3>1. CASE w \in writes[i]
        <4>1. PICK v \in Records : w = Deduct(v) /\ Home(v) = i /\ pc[v] = "done"
          BY <3>1 DEF CopyInv, OwnDeduction
        <4>2. pc'[v] = "done"
          BY <1>0, <2>1, <4>1
        <4> QED BY <4>1, <4>2
      <3>2. CASE w \notin writes[i]
        <4>1. i = Home(u) /\ w = Deduct(u)
          BY <1>0, <2>1, <3>2
        <4>2. pc'[u] = "done"
          BY <1>0, <2>1
        <4> QED BY <4>1, <4>2
      <3> QED BY <3>1, <3>2
    <2>3. Undeducted' = Undeducted
      <3>1. \A v \in Records : Deduct(v) = Deduct(u) => v = u
        BY DEF Deduct
      <3>2. \A v \in Records : Deduct(v)' = Deduct(v)
        BY DEF Deduct
      <3>3. ASSUME NEW v \in Records
            PROVE  (pc'[v] \in Deducting \/ Deduct(v) \in writes'[Home(v)])
                     <=> (pc[v] \in Deducting \/ Deduct(v) \in writes[Home(v)])
        <4>1. CASE v = u
          BY <1>0, <2>1, <4>1 DEF Deducting
        <4>2. CASE v # u
          BY <1>0, <2>1, <3>1, <4>2
        <4> QED BY <4>1, <4>2
      <3> QED BY <3>2, <3>3 DEF Undeducted
    <2>4. \A i \in Instances : \A w \in writes'[i] : w \in writes[i] \/ w.kind = "deduct"
      BY <1>0, <2>1 DEF Deduct
    <2>5. LoadUnderway' => LoadUnderway
      BY <1>0, <2>4 DEF LoadUnderway
    <2>6. Following'
      BY <1>0, <1>1, <2>3, <2>4, <2>5 DEF CopyInv, Following
    <2> QED BY <2>2, <2>6
  <1>2. CASE Goto(u, "deduct") /\ UNCHANGED <<writes, slips>>
    <2>1. OwnDeduction'
      BY <1>0, <1>2 DEF CopyInv, OwnDeduction, Deduct, Goto
    <2>2. Undeducted' = Undeducted
      BY <1>0, <1>2 DEF Undeducted, Deduct, Goto, Deducting
    <2>3. LoadUnderway' <=> LoadUnderway
      BY <1>0, <1>2 DEF LoadUnderway
    <2>4. Following'
      BY <1>0, <1>2, <2>2, <2>3 DEF CopyInv, Following
    <2> QED BY <2>1, <2>4
  <1>3. CASE Goto(u, "lost") /\ Slip({"cache"}) /\ UNCHANGED writes
    <2>1. OwnDeduction'
      BY <1>0, <1>3 DEF CopyInv, OwnDeduction, Deduct, Goto
    <2>2. Following'
      BY <1>3 DEF Following, Slip
    <2> QED BY <2>1, <2>2
  <1> QED BY <1>1, <1>2, <1>3 DEF QueueDeductBalance

\* A deduction is made: one less is left, and the copy is less by one.
LEMMA OneDeducted ==
  ASSUME CopyInv, NEW u \in Undeducted, Undeducted' = Undeducted \ {u},
         Command(Deducted, adrift), UNCHANGED <<balance, load, purges>>,
         \A i \in Instances : \A w \in writes'[i] : w \in writes[i]
  PROVE  Following'
  <1> SUFFICES ASSUME slips' = {} PROVE Following'
    BY DEF Following
  <1>0. adrift \in Int
    BY DEF CopyInv, Shapes, TypeOK
  <1>1. slips = {} /\ cache' = Deducted /\ adrift' = adrift
    BY <1>0, CommandTypes, DeductedType DEF CopyInv
  <1>2. ~LoadUnderway /\ ~LoadUnderway'
    <2>1. ~LoadUnderway
      BY <1>1 DEF CopyInv, Following
    <2> QED BY <2>1 DEF LoadUnderway
  <1>3. Cardinality(Undeducted') = Cardinality(Undeducted) - 1
    BY UndeductedIsFinite, FS_RemoveElement
  <1>4. purges' = 0 => cache' \in {None, balance' + Cardinality(Undeducted)' + adrift'}
    <2>1. purges = 0 => cache \in {None, balance + Cardinality(Undeducted) + adrift}
      BY <1>1 DEF CopyInv, Following
    <2>2. balance \in Int /\ Cardinality(Undeducted) \in Nat /\ cache \in Int \cup {None}
      BY UndeductedIsFinite DEF CopyInv, Shapes, TypeOK
    <2> QED BY <1>0, <1>1, <1>3, <2>1, <2>2, BillingConstants DEF Deducted
  <1> QED BY <1>2, <1>4 DEF Following, LoadUnderway

\* The fallback deducts at once.
LEMMA CopyDeductNow ==
  ASSUME CopyInv, NEW u \in Records, DeductNow(u)
  PROVE  OwnDeduction' /\ Following'
  <1>1. /\ pc[u] = "deduct" /\ pc \in [Records -> Labels] /\ pc' = [pc EXCEPT ![u] = "done"]
        /\ UNCHANGED <<balance, load, purges, writes>> /\ Command(Deducted, adrift)
    BY DEF DeductNow, Goto, tables, process, editing, CopyInv, Shapes, TypeOK
  <1>2. OwnDeduction'
    BY <1>1 DEF CopyInv, OwnDeduction, Deduct
  <1>3. u \in Undeducted
    BY <1>1 DEF Undeducted, Deducting
  <1>4. Deduct(u) \notin writes[Home(u)]
    BY <1>1, BillingConstants DEF CopyInv, OwnDeduction, Deduct
  <1>5. Undeducted' = Undeducted \ {u}
    BY <1>1, <1>4 DEF Undeducted, Deduct, Deducting
  <1>6. Following'
    BY <1>1, <1>3, <1>5, OneDeducted
  <1> QED BY <1>2, <1>6

\* A worker of the queue deducts, or sets the copy to the balance.
LEMMA CopyPerform ==
  ASSUME CopyInv, NEW i \in Instances, PerformWrite(i)
  PROVE  OwnDeduction' /\ Following'
  <1>0. /\ UNCHANGED <<balance, load, purges, pc>> /\ writes \in [Instances -> SUBSET Write]
        /\ \A v \in Records : Home(v) \in Instances
    BY BillingConstants DEF PerformWrite, tables, editing, CopyInv, Shapes, TypeOK
  <1>1. PICK w \in writes[i] :
          /\ writes' = [writes EXCEPT ![i] = @ \ {w}]
          /\ \/ w.kind = "set" /\ Command(w.balance, 0)
             \/ w.kind = "deduct" /\ Command(Deducted, adrift)
    BY DEF PerformWrite
  <1>2. \A j \in Instances : writes'[j] \subseteq writes[j]
    BY <1>0, <1>1
  <1>3. OwnDeduction'
    BY <1>0, <1>2 DEF CopyInv, OwnDeduction, Deduct
  <1>4. CASE w.kind = "set"
    <2> SUFFICES ASSUME slips' = {} PROVE Following'
      BY <1>3 DEF Following
    <2>0. w.balance \in Int
      BY DEF CopyInv, Shapes, TypeOK
    <2>1. slips = {} /\ cache' = w.balance /\ adrift' = 0
      BY <1>1, <1>4, <2>0, CommandTypes DEF CopyInv
    <2>2. LoadUnderway /\ Undeducted = {} /\ w.balance = balance
      BY <1>4, <2>1 DEF CopyInv, Following, LoadUnderway
    <2>3. Undeducted' = {}
      BY <1>0, <1>2, <2>2 DEF Undeducted, Deduct
    <2>4. cache' = balance + Cardinality(Undeducted)' + adrift'
      <3>1. Cardinality(Undeducted') = 0
        BY <2>3, FS_EmptySet
      <3>2. balance \in Int
        BY DEF CopyInv, Shapes, TypeOK
      <3> QED BY <2>1, <2>2, <3>1, <3>2
    <2> QED BY <1>0, <1>2, <2>1, <2>3, <2>4 DEF CopyInv, Following
  <1>5. CASE w.kind # "set"
    <2>1. w.kind = "deduct"
      BY <1>5 DEF CopyInv, Shapes, TypeOK
    <2>2. PICK u \in Records : w = Deduct(u) /\ Home(u) = i /\ pc[u] = "done"
      BY <2>1 DEF CopyInv, OwnDeduction
    <2>3. u \in Undeducted
      BY <2>2 DEF Undeducted
    <2>4. Undeducted' = Undeducted \ {u}
      <3>1. \A v \in Records : Deduct(v)' = Deduct(v) /\ (Deduct(v) = Deduct(u) => v = u)
        BY DEF Deduct
      <3>2. ASSUME NEW v \in Records
            PROVE  Deduct(v) \in writes'[Home(v)] <=> Deduct(v) \in writes[Home(v)] /\ v # u
        BY <1>0, <1>1, <2>2, <3>1
      <3> QED BY <1>0, <2>2, <3>1, <3>2 DEF Undeducted, Deducting
    <2>5. Command(Deducted, adrift)
      BY <1>1, <1>5
    <2> QED BY <1>0, <1>2, <1>3, <2>3, <2>4, <2>5, OneDeducted
  <1> QED BY <1>4, <1>5

\* A load reads the balance while nothing is left to deduct, or has parted the two.
LEMMA CopyLoad ==
  ASSUME CopyInv, NEW i \in Instances, StartLoad(i) \/ LoadStep(i)
  PROVE  OwnDeduction' /\ Following'
  <1>0. /\ UNCHANGED <<balance, cache, adrift, purges, pc>> /\ writes \in [Instances -> SUBSET Write]
        /\ load \in [Instances -> [at : {"idle", "read", "send"}, balance : Int]]
    BY DEF StartLoad, LoadStep, ReadBalance, SendBalance, tables, editing, history, CopyInv, Shapes, TypeOK
  <1>1. CASE StartLoad(i)
    <2>1. UNCHANGED <<writes, slips>> /\ load' = [load EXCEPT ![i].at = "read"] /\ load[i].at = "idle"
      BY <1>1 DEF StartLoad, history
    <2>2. \A j \in Instances : load'[j].at = "send" => load[j].at = "send" /\ load'[j] = load[j]
      BY <1>0, <2>1
    <2>3. OwnDeduction' /\ Undeducted' = Undeducted
      BY <1>0, <2>1 DEF CopyInv, OwnDeduction, Undeducted, Deduct
    <2>4. LoadUnderway' => LoadUnderway
      BY <2>1, <2>2 DEF LoadUnderway
    <2> QED BY <1>0, <2>1, <2>2, <2>3, <2>4 DEF CopyInv, Following
  <1>2. CASE ReadBalance(i)
    <2>0. UNCHANGED writes
      BY <1>2 DEF ReadBalance
    <2>1. OwnDeduction' /\ Undeducted' = Undeducted
      BY <1>0, <2>0 DEF CopyInv, OwnDeduction, Undeducted, Deduct
    <2>2. CASE /\ load' = [load EXCEPT ![i] = [at |-> "send", balance |-> balance]]
               /\ Slip(IF ChargeUnderway THEN {"cache"} ELSE {})
      <3> SUFFICES ASSUME slips' = {} PROVE Following'
        BY <2>1 DEF Following
      <3>1. slips = {} /\ ~ChargeUnderway
        BY <2>2 DEF Slip
      <3>2. Undeducted = {}
        BY <3>1, UnderwayIsUndeducted DEF CopyInv
      <3> QED BY <1>0, <2>0, <2>1, <2>2, <3>1, <3>2 DEF CopyInv, Following
    <2>3. CASE load' = [load EXCEPT ![i] = Idle] /\ UNCHANGED slips
      <3>1. \A j \in Instances : load'[j].at = "send" => load[j].at = "send" /\ load'[j] = load[j]
        BY <1>0, <2>3 DEF Idle
      <3>2. LoadUnderway' => LoadUnderway
        BY <2>0, <3>1 DEF LoadUnderway
      <3> QED BY <1>0, <2>0, <2>1, <2>3, <3>1, <3>2 DEF CopyInv, Following
    <2> QED BY <1>2, <2>2, <2>3 DEF ReadBalance
  <1>3. CASE SendBalance(i)
    <2>0. load[i].at = "send" /\ load' = [load EXCEPT ![i] = Idle]
      BY <1>3 DEF SendBalance
    <2>1. \A j \in Instances : load'[j].at = "send" => load[j].at = "send" /\ load'[j] = load[j]
      BY <1>0, <2>0 DEF Idle
    <2>2. CASE Put(i, Set(i, load[i].balance)) /\ UNCHANGED slips
      <3> DEFINE new == Set(i, load[i].balance)
      <3>0. new.kind = "set" /\ new.balance = load[i].balance /\ \A v \in Records : new # Deduct(v)
        BY DEF Set, Deduct
      <3> HIDE DEF new
      <3>1. writes' = [writes EXCEPT ![i] = @ \cup {new}]
        BY <2>2 DEF Put, new
      <3>2. \A j \in Instances : writes[j] \subseteq writes'[j] /\ \A w \in writes'[j] : w \in writes[j] \/ w = new
        BY <1>0, <3>1
      <3>3. \A v \in Records : Deduct(v)' = Deduct(v) /\ Home(v) \in Instances
        BY BillingConstants DEF Deduct
      <3>4. OwnDeduction'
        <4> SUFFICES ASSUME NEW j \in Instances, NEW w \in writes'[j], w.kind = "deduct"
                     PROVE  \E v \in Records : w = Deduct(v) /\ Home(v) = j /\ pc[v] = "done"
          BY <1>0, <3>3 DEF OwnDeduction
        <4>1. w \in writes[j]
          BY <3>0, <3>2
        <4> QED BY <4>1 DEF CopyInv, OwnDeduction
      <3>5. Undeducted' = Undeducted
        <4>1. \A v \in Records : Deduct(v) \in writes'[Home(v)] <=> Deduct(v) \in writes[Home(v)]
          BY <3>0, <3>2, <3>3
        <4> QED BY <1>0, <3>3, <4>1 DEF Undeducted
      <3>6. LoadUnderway
        BY <2>0 DEF LoadUnderway
      <3>7. slips = {} => \A j \in Instances : \A w \in writes'[j] : w.kind = "set" => w.balance = balance
        <4> SUFFICES ASSUME slips = {}, NEW j \in Instances, NEW w \in writes'[j], w.kind = "set"
                     PROVE  w.balance = balance
          OBVIOUS
        <4>1. CASE w \in writes[j]
          BY <4>1 DEF CopyInv, Following
        <4>2. CASE w = new
          BY <2>0, <3>0, <4>2 DEF CopyInv, Following
        <4> QED BY <3>2, <4>1, <4>2
      <3> QED BY <1>0, <2>1, <2>2, <3>4, <3>5, <3>6, <3>7 DEF CopyInv, Following
    <2>3. CASE UNCHANGED <<writes, slips>>
      <3>1. OwnDeduction' /\ Undeducted' = Undeducted
        BY <1>0, <2>3 DEF CopyInv, OwnDeduction, Undeducted, Deduct
      <3>2. LoadUnderway' => LoadUnderway
        BY <2>1, <2>3 DEF LoadUnderway
      <3> QED BY <1>0, <2>1, <2>3, <3>1, <3>2 DEF CopyInv, Following
    <2>4. CASE Slip({"cache"}) /\ UNCHANGED writes
      <3>1. OwnDeduction'
        BY <1>0, <2>4 DEF CopyInv, OwnDeduction, Deduct
      <3> QED BY <2>4, <3>1 DEF Following, Slip
    <2> QED BY <1>3, <2>2, <2>3, <2>4 DEF SendBalance
  <1> QED BY <1>1, <1>2, <1>3 DEF LoadStep

\* The other writers either announce an invalidation, or change nothing, or have spoilt it.
LEMMA CopyWriter ==
  ASSUME CopyInv, Credit \/ Refund \/ ReadUser \/ UpdateUser \/ Purge \/ CacheExpires
  PROVE  OwnDeduction' /\ Following'
  <1>0. /\ UNCHANGED <<pc, writes, load>> /\ purges \in Nat
        /\ edit \in [balance : Int, adds : 0 .. 1] \cup {None}
        /\ balance \in Int /\ adrift \in Int /\ Cardinality(Undeducted) \in Nat
    BY UndeductedIsFinite DEF Credit, Refund, ReadUser, UpdateUser, Purge, CacheExpires, process, editing, CopyInv, Shapes, TypeOK
  <1>1. OwnDeduction' /\ Undeducted' = Undeducted /\ (LoadUnderway' <=> LoadUnderway)
    BY <1>0 DEF CopyInv, OwnDeduction, Undeducted, Deduct, LoadUnderway
  <1>2. CASE Credit
    <2> SUFFICES ASSUME slips' = {} PROVE Following'
      BY <1>1 DEF Following
    <2>1. slips = {} /\ ~LoadUnderway /\ purges' # 0
      BY <1>0, <1>2 DEF Credit, Slip
    <2> QED BY <1>0, <1>1, <2>1 DEF Following, LoadUnderway
  <1>3. CASE ReadUser
    <2>1. UNCHANGED <<balance, cache, adrift, purges, slips>>
      BY <1>3 DEF ReadUser, tables, history
    <2> QED BY <1>0, <1>1, <2>1 DEF CopyInv, Following
  <1>4. CASE UpdateUser
    <2> SUFFICES ASSUME slips' = {} PROVE Following'
      BY <1>1 DEF Following
    <2>1. slips = {} /\ ~LoadUnderway /\ edit.balance = balance
      BY <1>4 DEF UpdateUser, Slip
    <2>2. /\ edit.adds \in 0 .. 1 /\ balance' = balance + edit.adds
          /\ purges' = purges + edit.adds /\ UNCHANGED <<cache, adrift>>
      BY <1>0, <1>4, <2>1 DEF UpdateUser
    <2>3. purges' = 0 => balance' = balance /\ purges = 0
      BY <1>0, <2>2
    <2>4. purges' = 0 => cache' \in {None, balance' + Cardinality(Undeducted)' + adrift'}
      BY <1>1, <2>1, <2>2, <2>3 DEF CopyInv, Following
    <2> QED BY <1>0, <1>1, <2>1, <2>4 DEF Following, LoadUnderway
  <1>5. CASE Purge
    <2> SUFFICES ASSUME slips' = {} PROVE Following'
      BY <1>1 DEF Following
    <2>1. slips = {} /\ cache' = None /\ UNCHANGED balance
      <3>1. Command(None, 0) /\ UNCHANGED balance /\ Shapes
        BY <1>5 DEF Purge, tables, CopyInv
      <3>2. None \in Int \cup {None} /\ 0 \in Int
        OBVIOUS
      <3> QED BY <3>1, <3>2, CommandTypes
    <2> QED BY <1>0, <1>1, <2>1 DEF CopyInv, Following
  <1>6. CASE CacheExpires
    <2>1. cache' = None /\ UNCHANGED <<balance, purges, slips>>
      BY <1>6 DEF CacheExpires, tables, editing
    <2> QED BY <1>0, <1>1, <2>1 DEF CopyInv, Following
  <1>7. CASE Refund
    <2> SUFFICES ASSUME slips' = {} PROVE Following'
      BY <1>1 DEF Following
    <2>1. slips = {} /\ ~LoadUnderway /\ UNCHANGED <<cache, purges>>
      BY <1>7 DEF Refund, editing, Slip
    <2>2. PICK n \in {-1, 1} :
             balance' = balance + n /\ adrift' = IF cache = None THEN 0 ELSE adrift - n
      BY <1>7 DEF Refund
    <2>3. purges' = 0 => cache' \in {None, balance' + Cardinality(Undeducted)' + adrift'}
      <3>1. purges = 0 => cache \in {None, balance + Cardinality(Undeducted) + adrift}
        BY <2>1 DEF CopyInv, Following
      <3> QED BY <1>0, <1>1, <2>1, <2>2, <3>1
    <2> QED BY <1>0, <1>1, <2>1, <2>3 DEF Following, LoadUnderway
  <1> QED BY <1>2, <1>3, <1>4, <1>5, <1>6, <1>7

\* A crash either loses nothing the copy waits for, or has parted the two.
LEMMA CopyCrash ==
  ASSUME CopyInv, NEW i \in Instances, Crash(i)
  PROVE  OwnDeduction' /\ Following'
  <1>0. /\ UNCHANGED <<balance, cache, adrift>> /\ purges \in Nat /\ purges' \in 0 .. purges
        /\ pc' = [u \in Records |->
                    IF Home(u) = i /\ pc[u] \in {"queued"} \cup Running THEN "lost" ELSE pc[u]]
        /\ writes' = [writes EXCEPT ![i] = {}] /\ load' = [load EXCEPT ![i] = Idle]
        /\ writes \in [Instances -> SUBSET Write]
        /\ load \in [Instances -> [at : {"idle", "read", "send"}, balance : Int]]
        /\ \A u \in Records : Home(u) \in Instances /\ Deduct(u)' = Deduct(u)
    BY BillingConstants DEF Crash, tables, CopyInv, Shapes, TypeOK, Deduct
  <1>1. OwnDeduction'
    <2> SUFFICES ASSUME NEW j \in Instances, NEW w \in writes'[j], w.kind = "deduct"
                 PROVE  \E u \in Records : w = Deduct(u) /\ Home(u) = j /\ pc'[u] = "done"
      BY <1>0 DEF OwnDeduction
    <2>1. w \in writes[j]
      BY <1>0
    <2>2. PICK u \in Records : w = Deduct(u) /\ Home(u) = j /\ pc[u] = "done"
      BY <2>1 DEF CopyInv, OwnDeduction
    <2>3. pc'[u] = "done"
      BY <1>0, <2>2 DEF Running, Deducting
    <2> QED BY <2>2, <2>3
  <1> SUFFICES ASSUME slips' = {} PROVE Following'
    BY <1>1 DEF Following
  <1>2. slips = {} /\ ~(writes[i] # {} \/ purges' < purges \/ \E u \in Records : Home(u) = i /\ pc[u] \in Deducting)
    BY DEF Crash, Slip
  <1>3. purges' = purges
    BY <1>0, <1>2
  <1>4. writes' = writes
    BY <1>0, <1>2
  <1>5. Undeducted' = Undeducted
    <2>1. \A u \in Records : pc'[u] \in Deducting <=> pc[u] \in Deducting
      BY <1>0, <1>2 DEF Running, Deducting
    <2> QED BY <1>0, <1>4, <2>1 DEF Undeducted
  <1>6. \A j \in Instances : load'[j].at = "send" => load[j].at = "send" /\ load'[j] = load[j]
    BY <1>0 DEF Idle
  <1>7. LoadUnderway' => LoadUnderway
    BY <1>4, <1>6 DEF LoadUnderway
  <1> QED BY <1>0, <1>2, <1>3, <1>4, <1>5, <1>6, <1>7 DEF CopyInv, Following

\* Every step keeps the invariant of the copy.
LEMMA CopyNext == CopyInv /\ [Next]_vars => CopyInv'
  <1> SUFFICES ASSUME CopyInv, [Next]_vars PROVE OwnDeduction' /\ Following'
    BY ShapesNext DEF CopyInv
  <1>1. ASSUME NEW k \in Keys, Archive(k) PROVE OwnDeduction' /\ Following'
    BY <1>1, CopyKept DEF Archive, process, editing, history
  <1>2. ASSUME NEW i \in Instances, StopPool(i) \/ StopWriter(i) PROVE OwnDeduction' /\ Following'
    BY <1>2, CopyKept DEF StopPool, StopWriter, tables, editing, history
  <1>3. CASE UNCHANGED vars
    BY <1>3, CopyKept DEF vars, tables, process, editing, history
  <1> QED
    BY <1>1, <1>2, <1>3, CopyRecord, CopyCharge, CopyQueue, CopyDeductNow, CopyPerform,
       CopyLoad, CopyWriter, CopyCrash DEF Next, RecordStep

\* QueueDeductBalance: once no write is pending, the copy in Redis, if there is one, is
\* the stored balance but for what refunds and first bindings have changed since it was
\* written, through full and closing queues, for any records and loads; unless a load
\* overlapped a change, a command was lost, an old row was written, or a write met a
\* channel that Stop had closed.
THEOREM CopyFollows == Spec => []CacheAgrees
  <1>1. CopyInv => CacheAgrees
    <2> SUFFICES ASSUME CopyInv, Quiet, slips = {} PROVE cache \in {None, balance + adrift}
      BY DEF CacheAgrees
    <2>1. Undeducted = {} /\ purges = 0
      BY UnderwayIsUndeducted DEF CopyInv, Quiet
    <2>2. Cardinality(Undeducted) = 0
      BY <2>1, FS_EmptySet
    <2> QED BY <2>1, <2>2 DEF CopyInv, Shapes, TypeOK, Following
  <1> QED BY <1>1, CopyInit, CopyNext, PTL DEF Spec

=============================================================================
