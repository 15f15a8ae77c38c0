----------------------- MODULE PaymentFulfillmentProofs -----------------------
(***************************************************************************)
(* Proofs about PaymentFulfillment for any sets of orders and handlers and *)
(* any number of failing statements and lost handlers.  TypeOK first, then *)
(* the parts of PaymentInv one after the other, each from the ones before, *)
(* then the theorems; last, what holds until a statement fails.            *)
(***************************************************************************)
EXTENDS PaymentFulfillment, TLAPS

\* The two parts of TypeOK: what a handler step changes in the tables, and
\* where it leaves the handler.
DataType ==
  /\ status   \in [Orders -> Statuses]
  /\ kind     \in [Orders -> Kinds]
  /\ paidAt   \in [Orders -> BOOLEAN]
  /\ fresh    \in [Orders -> BOOLEAN]
  /\ code     \in [Orders -> {"none", "unused", "used"}]
  /\ granted  \in [Orders -> Nat]
  /\ rebated  \in [Orders -> Nat]
  /\ audit    \in [Orders -> SUBSET {"SUCCESS", "REBATE"}]
  /\ upstream \in [Orders -> Upstreams]
  /\ faults   \in 0 .. MaxFaults
  /\ crashes  \in 0 .. MaxCrashes

HandlerType ==
  /\ acked \in [Orders -> BOOLEAN]
  /\ pc    \in [Procs -> Labels]
  /\ cur   \in [Procs -> Orders \cup {NoOrder}]
  /\ op    \in [Procs -> Ops]
  /\ \A p \in Procs : pc[p] # "idle" => cur[p] \in Orders

\* The two parts make TypeOK, now and in the next state.
LEMMA TypeSplit == (TypeOK <=> DataType /\ HandlerType)
                   /\ (TypeOK' <=> DataType' /\ HandlerType')
  BY DEF TypeOK, DataType, HandlerType

\* The initial state has the types.
LEMMA TypeInit == Init => TypeOK
  BY ConstantsAssumption DEF Init, TypeOK, Statuses, Kinds, Upstreams, Labels, Ops

\* The steps of CreateOrder keep every variable in its type.
LEMMA CreateStepType ==
  ASSUME DataType, HandlerType, NEW p \in Procs, CreateStep(p)
  PROVE  DataType' /\ HandlerType'
  <1>1. cur[p] \in Orders
    BY DEF CreateStep, InsertOrder, CallProvider, SavePayment, CreateFailed,
       HandlerType
  <1>2. CASE InsertOrder(p)
    <2>1. DataType'
      BY <1>1, <1>2, ConstantsAssumption DEF InsertOrder, DataType, Statuses,
         Kinds, Upstreams, Statement, Read, row, ledger, counters
    <2>2. HandlerType'
      BY <1>2 DEF InsertOrder, HandlerType, Goto, Return, Labels, Ops
    <2> QED BY <2>1, <2>2
  <1>3. CASE CallProvider(p)
    <2>1. DataType'
      BY <1>1, <1>3, ConstantsAssumption DEF CallProvider, DataType, Statuses,
         Kinds, Upstreams, Statement, Read, row, ledger, counters
    <2>2. HandlerType'
      BY <1>3 DEF CallProvider, HandlerType, Goto, Return, Labels, Ops
    <2> QED BY <2>1, <2>2
  <1>4. CASE SavePayment(p)
    <2>1. DataType'
      BY <1>1, <1>4, ConstantsAssumption DEF SavePayment, DataType, Statuses,
         Kinds, Upstreams, Statement, Read, row, ledger, counters
    <2>2. HandlerType'
      BY <1>4, ZenonT(60)
       DEF SavePayment, HandlerType, Goto, Return, Labels, Ops
    <2> QED BY <2>1, <2>2
  <1>5. CASE CreateFailed(p)
    <2>1. DataType'
      BY <1>1, <1>5, ConstantsAssumption DEF CreateFailed, DataType, Statuses,
         Kinds, Upstreams, Statement, Read, row, ledger, counters
    <2>2. HandlerType'
      BY <1>5 DEF CreateFailed, HandlerType, Goto, Return, Labels, Ops
    <2> QED BY <2>1, <2>2
  <1> QED BY <1>2, <1>3, <1>4, <1>5 DEF CreateStep

\* So do the steps of the notification, of the query and of the cancellation,
LEMMA PaymentStepType ==
  ASSUME DataType, HandlerType, NEW p \in Procs, PaymentStep(p)
  PROVE  DataType' /\ HandlerType'
  <1>1. cur[p] \in Orders
    BY DEF PaymentStep, Query, ClosePayment, CancelPending, Confirm, ToPaid,
       Already, HandlerType
  <1>2. CASE Query(p)
    <2>1. DataType'
      BY <1>1, <1>2, ConstantsAssumption DEF Query, DataType, Statuses, Kinds,
         Upstreams, Statement, Read, row, ledger, counters
    <2>2. HandlerType'
      BY <1>2 DEF Query, HandlerType, Goto, Return, Labels, Ops
    <2> QED BY <2>1, <2>2
  <1>3. CASE ClosePayment(p)
    <2>1. DataType'
      BY <1>1, <1>3, ConstantsAssumption DEF ClosePayment, DataType, Statuses,
         Kinds, Upstreams, Statement, Read, row, ledger, counters
    <2>2. HandlerType'
      BY <1>3 DEF ClosePayment, HandlerType, Goto, Return, Labels, Ops
    <2> QED BY <2>1, <2>2
  <1>4. CASE CancelPending(p)
    <2>1. DataType'
      BY <1>1, <1>4, ConstantsAssumption DEF CancelPending, DataType, Statuses,
         Kinds, Upstreams, Statement, Read, row, ledger, counters
    <2>2. HandlerType'
      BY <1>4 DEF CancelPending, HandlerType, Goto, Return, Labels, Ops
    <2> QED BY <2>1, <2>2
  <1>5. CASE Confirm(p)
    <2>1. DataType'
      BY <1>1, <1>5, ConstantsAssumption DEF Confirm, DataType, Statuses,
         Kinds, Upstreams, Statement, Read, row, ledger, counters
    <2>2. HandlerType'
      BY <1>5, ZenonT(60) DEF Confirm, HandlerType, Goto, Return, Labels, Ops
    <2> QED BY <2>1, <2>2
  <1>6. CASE ToPaid(p)
    <2>1. DataType'
      BY <1>1, <1>6, ConstantsAssumption DEF ToPaid, DataType, Statuses, Kinds,
         Upstreams, Statement, Read, row, ledger, counters
    <2>2. HandlerType'
      BY <1>6 DEF ToPaid, HandlerType, Goto, Return, Labels, Ops
    <2> QED BY <2>1, <2>2
  <1>7. CASE Already(p)
    <2>1. DataType'
      BY <1>1, <1>7, ConstantsAssumption DEF Already, DataType, Statuses,
         Kinds, Upstreams, Statement, Read, row, ledger, counters
    <2>2. HandlerType'
      BY <1>7, ZenonT(60) DEF Already, HandlerType, Goto, Return, Labels, Ops
    <2> QED BY <2>1, <2>2
  <1> QED BY <1>2, <1>3, <1>4, <1>5, <1>6, <1>7 DEF PaymentStep

\* and the steps of the fulfilment.
LEMMA FulfilStepType ==
  ASSUME DataType, HandlerType, NEW p \in Procs, FulfilStep(p)
  PROVE  DataType' /\ HandlerType'
  <1>1. cur[p] \in Orders
    BY DEF FulfilStep, RetryReset, Execute, Lock, Lookup, CreateCode, Redeem,
       ApplyRebate, CheckSubscription, AssignSubscription, Complete,
       WriteSuccess, MarkFailed, HandlerType
  <1>2. CASE RetryReset(p)
    <2>1. DataType'
      BY <1>1, <1>2, ConstantsAssumption DEF RetryReset, DataType, Statuses,
         Kinds, Upstreams, Statement, Read, row, ledger, counters
    <2>2. HandlerType'
      BY <1>2 DEF RetryReset, HandlerType, Goto, Return, Labels, Ops
    <2> QED BY <2>1, <2>2
  <1>3. CASE Execute(p)
    <2>1. DataType'
      BY <1>1, <1>3, ConstantsAssumption DEF Execute, DataType, Statuses,
         Kinds, Upstreams, Statement, Read, row, ledger, counters
    <2>2. HandlerType'
      BY <1>3, ZenonT(60) DEF Execute, HandlerType, Goto, Return, Labels, Ops
    <2> QED BY <2>1, <2>2
  <1>4. CASE Lock(p)
    <2>1. DataType'
      BY <1>1, <1>4, ConstantsAssumption DEF Lock, DataType, Statuses, Kinds,
         Upstreams, Statement, Read, row, ledger, counters
    <2>2. HandlerType'
      BY <1>4, ZenonT(60) DEF Lock, HandlerType, Goto, Return, Labels, Ops
    <2> QED BY <2>1, <2>2
  <1>5. CASE Lookup(p)
    <2>1. DataType'
      BY <1>1, <1>5, ConstantsAssumption DEF Lookup, DataType, Statuses, Kinds,
         Upstreams, Statement, Read, row, ledger, counters
    <2>2. HandlerType'
      BY <1>5 DEF Lookup, HandlerType, Goto, Return, Labels, Ops
    <2> QED BY <2>1, <2>2
  <1>6. CASE CreateCode(p)
    <2>1. DataType'
      BY <1>1, <1>6, ConstantsAssumption DEF CreateCode, DataType, Statuses,
         Kinds, Upstreams, Statement, Read, row, ledger, counters
    <2>2. HandlerType'
      BY <1>6 DEF CreateCode, HandlerType, Goto, Return, Labels, Ops
    <2> QED BY <2>1, <2>2
  <1>7. CASE Redeem(p)
    <2>1. DataType'
      BY <1>1, <1>7, ConstantsAssumption DEF Redeem, DataType, Statuses, Kinds,
         Upstreams, Statement, Read, row, ledger, counters
    <2>2. HandlerType'
      BY <1>7 DEF Redeem, HandlerType, Goto, Return, Labels, Ops
    <2> QED BY <2>1, <2>2
  <1>8. CASE ApplyRebate(p)
    <2>1. DataType'
      BY <1>1, <1>8, ConstantsAssumption DEF ApplyRebate, DataType, Statuses,
         Kinds, Upstreams, Statement, Read, row, ledger, counters
    <2>2. HandlerType'
      BY <1>8 DEF ApplyRebate, HandlerType, Goto, Return, Labels, Ops
    <2> QED BY <2>1, <2>2
  <1>9. CASE CheckSubscription(p)
    <2>1. DataType'
      BY <1>1, <1>9, ConstantsAssumption DEF CheckSubscription, DataType,
         Statuses, Kinds, Upstreams, Statement, Read, row, ledger, counters
    <2>2. HandlerType'
      BY <1>9 DEF CheckSubscription, HandlerType, Goto, Return, Labels, Ops
    <2> QED BY <2>1, <2>2
  <1>10. CASE AssignSubscription(p)
    <2>1. DataType'
      BY <1>1, <1>10, ConstantsAssumption DEF AssignSubscription, DataType,
         Statuses, Kinds, Upstreams, Statement, Read, row, ledger, counters
    <2>2. HandlerType'
      BY <1>10 DEF AssignSubscription, HandlerType, Goto, Return, Labels, Ops
    <2> QED BY <2>1, <2>2
  <1>11. CASE Complete(p)
    <2>1. DataType'
      BY <1>1, <1>11, ConstantsAssumption DEF Complete, DataType, Statuses,
         Kinds, Upstreams, Statement, Read, row, ledger, counters
    <2>2. HandlerType'
      BY <1>11 DEF Complete, HandlerType, Goto, Return, Labels, Ops
    <2> QED BY <2>1, <2>2
  <1>12. CASE WriteSuccess(p)
    <2>1. DataType'
      BY <1>1, <1>12, ConstantsAssumption DEF WriteSuccess, DataType, Statuses,
         Kinds, Upstreams, Statement, Read, row, ledger, counters
    <2>2. HandlerType'
      BY <1>12 DEF WriteSuccess, HandlerType, Goto, Return, Labels, Ops
    <2> QED BY <2>1, <2>2
  <1>13. CASE MarkFailed(p)
    <2>1. DataType'
      BY <1>1, <1>13, ConstantsAssumption DEF MarkFailed, DataType, Statuses,
         Kinds, Upstreams, Statement, Read, row, ledger, counters
    <2>2. HandlerType'
      BY <1>13 DEF MarkFailed, HandlerType, Goto, Return, Labels, Ops
    <2> QED BY <2>1, <2>2
  <1> QED BY <1>2, <1>3, <1>4, <1>5, <1>6, <1>7, <1>8, <1>9, <1>10, <1>11,
     <1>12, <1>13 DEF FulfilStep

\* TypeOK is inductive.
LEMMA TypeStep == TypeOK /\ [Next]_vars => TypeOK'
  <1> SUFFICES ASSUME TypeOK, [Next]_vars PROVE TypeOK'
    OBVIOUS
  <1>1. CASE UNCHANGED vars
    BY <1>1 DEF TypeOK, vars, row, ledger, provider, handlers, counters
  <1>2. ASSUME NEW p \in Procs, StartStep(p) PROVE TypeOK'
    BY <1>2 DEF TypeOK, StartStep, StartCreate, StartCancel, StartVerify, StartRetry,
         Notify, Start, row, ledger, provider, counters, Labels, Ops
  <1>3. ASSUME NEW p \in Procs, HandlerStep(p) PROVE TypeOK'
    BY <1>3, TypeSplit, CreateStepType, PaymentStepType, FulfilStepType, PTL
       DEF HandlerStep
  <1>4. ASSUME NEW p \in Procs, Crash(p) PROVE TypeOK'
    BY <1>4, ConstantsAssumption
       DEF TypeOK, Crash, row, ledger, provider, Labels, Ops
  <1>5. ASSUME NEW o \in Orders, Environment(o) PROVE TypeOK'
    <2> USE DEF TypeOK, row, ledger, provider, handlers, counters, Statuses, Upstreams
    <2>1. CASE Pay(o)
      BY <2>1 DEF Pay
    <2>2. CASE GracePasses(o)
      BY <2>2 DEF GracePasses
    <2>3. CASE EnterRefund(o)
      BY <2>3 DEF EnterRefund
    <2>4. CASE RestoreCompleted(o)
      BY <2>4 DEF RestoreCompleted
    <2> QED BY <1>5, <2>1, <2>2, <2>3, <2>4 DEF Environment
  <1> QED BY <1>1, <1>2, <1>3, <1>4, <1>5 DEF Next

\* A handler that creates an order is the only one to work on it.
LEMMA OwnsNewOrderStep ==
  ASSUME TypeOK, OwnsNewOrder, Next
  PROVE  OwnsNewOrder'
  <1>0. TypeOK'
    BY TypeStep
  <1>1. ASSUME NEW p \in Procs, NEW o \in Orders, StartCreate(p, o) PROVE OwnsNewOrder'
    BY <1>1, <1>0 DEF StartCreate, Start, OwnsNewOrder, TypeOK, row, ledger,
       provider, handlers, counters
  <1>2. ASSUME NEW p \in Procs, NEW o \in Orders, StartCancel(p, o) PROVE OwnsNewOrder'
    BY <1>2, <1>0 DEF StartCancel, Start, OwnsNewOrder, TypeOK, row, ledger,
       provider, handlers, counters
  <1>3. ASSUME NEW p \in Procs, NEW o \in Orders, StartVerify(p, o) PROVE OwnsNewOrder'
    BY <1>3, <1>0 DEF StartVerify, Start, OwnsNewOrder, TypeOK, row, ledger,
       provider, handlers, counters
  <1>4. ASSUME NEW p \in Procs, NEW o \in Orders, StartRetry(p, o) PROVE OwnsNewOrder'
    BY <1>4, <1>0 DEF StartRetry, Start, OwnsNewOrder, TypeOK, row, ledger,
       provider, handlers, counters
  <1>5. ASSUME NEW p \in Procs, NEW o \in Orders, Notify(p, o) PROVE OwnsNewOrder'
    BY <1>5, <1>0 DEF Notify, Start, OwnsNewOrder, TypeOK, row, ledger,
       provider, handlers, counters
  <1>6. ASSUME NEW p \in Procs, InsertOrder(p) PROVE OwnsNewOrder'
    BY <1>6, <1>0, SMTT(60)
       DEF InsertOrder, Goto, Return, Statement, OwnsNewOrder,
       TypeOK, row, ledger, provider, handlers, counters
  <1>7. ASSUME NEW p \in Procs, CallProvider(p) PROVE OwnsNewOrder'
    BY <1>7, <1>0 DEF CallProvider, Goto, Return, OwnsNewOrder, TypeOK, row,
       ledger, provider, handlers, counters
  <1>8. ASSUME NEW p \in Procs, SavePayment(p) PROVE OwnsNewOrder'
    BY <1>8, <1>0, SMTT(60)
       DEF SavePayment, Goto, Return, OwnsNewOrder, TypeOK, row,
       ledger, provider, handlers, counters
  <1>9. ASSUME NEW p \in Procs, CreateFailed(p) PROVE OwnsNewOrder'
    BY <1>9, <1>0 DEF CreateFailed, Goto, Return, OwnsNewOrder, TypeOK, row,
       ledger, provider, handlers, counters
  <1>10. ASSUME NEW p \in Procs, Query(p) PROVE OwnsNewOrder'
    BY <1>10, <1>0, SMTT(60)
       DEF Query, Goto, Return, OwnsNewOrder, TypeOK, row, ledger,
       provider, handlers, counters
  <1>11. ASSUME NEW p \in Procs, ClosePayment(p) PROVE OwnsNewOrder'
    BY <1>11, <1>0 DEF ClosePayment, Goto, Return, OwnsNewOrder, TypeOK, row,
       ledger, provider, handlers, counters
  <1>12. ASSUME NEW p \in Procs, CancelPending(p) PROVE OwnsNewOrder'
    BY <1>12, <1>0 DEF CancelPending, Goto, Return, OwnsNewOrder, TypeOK, row,
       ledger, provider, handlers, counters
  <1>13. ASSUME NEW p \in Procs, Confirm(p) PROVE OwnsNewOrder'
    BY <1>13, <1>0, SMTT(60)
       DEF Confirm, Goto, Return, OwnsNewOrder, TypeOK, row,
       ledger, provider, handlers, counters
  <1>14. ASSUME NEW p \in Procs, ToPaid(p) PROVE OwnsNewOrder'
    BY <1>14, <1>0, SMTT(60)
       DEF ToPaid, Goto, Return, OwnsNewOrder, TypeOK, row, ledger,
       provider, handlers, counters
  <1>15. ASSUME NEW p \in Procs, Already(p) PROVE OwnsNewOrder'
    BY <1>15, <1>0, SMTT(60)
       DEF Already, Goto, Return, OwnsNewOrder, TypeOK, row,
       ledger, provider, handlers, counters
  <1>16. ASSUME NEW p \in Procs, RetryReset(p) PROVE OwnsNewOrder'
    BY <1>16, <1>0, SMTT(60)
       DEF RetryReset, Goto, Return, OwnsNewOrder, TypeOK, row,
       ledger, provider, handlers, counters
  <1>17. ASSUME NEW p \in Procs, Execute(p) PROVE OwnsNewOrder'
    BY <1>17, <1>0, SMTT(60)
       DEF Execute, Goto, Return, OwnsNewOrder, TypeOK, row,
       ledger, provider, handlers, counters
  <1>18. ASSUME NEW p \in Procs, Lock(p) PROVE OwnsNewOrder'
    BY <1>18, <1>0, SMTT(60)
       DEF Lock, Goto, Return, OwnsNewOrder, TypeOK, row, ledger,
       provider, handlers, counters
  <1>19. ASSUME NEW p \in Procs, Lookup(p) PROVE OwnsNewOrder'
    BY <1>19, <1>0 DEF Lookup, Goto, Return, OwnsNewOrder, TypeOK, row, ledger,
       provider, handlers, counters
  <1>20. ASSUME NEW p \in Procs, CreateCode(p) PROVE OwnsNewOrder'
    BY <1>20, <1>0 DEF CreateCode, Goto, Return, OwnsNewOrder, TypeOK, row,
       ledger, provider, handlers, counters
  <1>21. ASSUME NEW p \in Procs, Redeem(p) PROVE OwnsNewOrder'
    BY <1>21, <1>0 DEF Redeem, Goto, Return, OwnsNewOrder, TypeOK, row, ledger,
       provider, handlers, counters
  <1>22. ASSUME NEW p \in Procs, ApplyRebate(p) PROVE OwnsNewOrder'
    BY <1>22, <1>0 DEF ApplyRebate, Goto, Return, OwnsNewOrder, TypeOK, row,
       ledger, provider, handlers, counters
  <1>23. ASSUME NEW p \in Procs, CheckSubscription(p) PROVE OwnsNewOrder'
    BY <1>23, <1>0 DEF CheckSubscription, Goto, Return, OwnsNewOrder, TypeOK,
       row, ledger, provider, handlers, counters
  <1>24. ASSUME NEW p \in Procs, AssignSubscription(p) PROVE OwnsNewOrder'
    BY <1>24, <1>0 DEF AssignSubscription, Goto, Return, OwnsNewOrder, TypeOK,
       row, ledger, provider, handlers, counters
  <1>25. ASSUME NEW p \in Procs, Complete(p) PROVE OwnsNewOrder'
    BY <1>25, <1>0 DEF Complete, Goto, Return, OwnsNewOrder, TypeOK, row,
       ledger, provider, handlers, counters
  <1>26. ASSUME NEW p \in Procs, WriteSuccess(p) PROVE OwnsNewOrder'
    BY <1>26, <1>0 DEF WriteSuccess, Goto, Return, OwnsNewOrder, TypeOK, row,
       ledger, provider, handlers, counters
  <1>27. ASSUME NEW p \in Procs, MarkFailed(p) PROVE OwnsNewOrder'
    BY <1>27, <1>0 DEF MarkFailed, Goto, Return, OwnsNewOrder, TypeOK, row,
       ledger, provider, handlers, counters
  <1>28. ASSUME NEW p \in Procs, Crash(p) PROVE OwnsNewOrder'
    BY <1>28, <1>0 DEF Crash, OwnsNewOrder, TypeOK, row, ledger, provider,
       handlers, counters
  <1>29. ASSUME NEW o \in Orders, Pay(o) PROVE OwnsNewOrder'
    BY <1>29, <1>0 DEF Pay, OwnsNewOrder, TypeOK, row, ledger, provider,
       handlers, counters
  <1>30. ASSUME NEW o \in Orders, GracePasses(o) PROVE OwnsNewOrder'
    BY <1>30, <1>0 DEF GracePasses, OwnsNewOrder, TypeOK, row, ledger,
       provider, handlers, counters
  <1>31. ASSUME NEW o \in Orders, EnterRefund(o) PROVE OwnsNewOrder'
    BY <1>31, <1>0 DEF EnterRefund, OwnsNewOrder, TypeOK, row, ledger,
       provider, handlers, counters
  <1>32. ASSUME NEW o \in Orders, RestoreCompleted(o) PROVE OwnsNewOrder'
    BY <1>32, <1>0 DEF RestoreCompleted, OwnsNewOrder, TypeOK, row, ledger,
       provider, handlers, counters
  <1> QED BY <1>1, <1>2, <1>3, <1>4, <1>5, <1>6, <1>7, <1>8, <1>9, <1>10,
     <1>11, <1>12, <1>13, <1>14, <1>15, <1>16, <1>17, <1>18, <1>19, <1>20,
     <1>21, <1>22, <1>23, <1>24, <1>25, <1>26, <1>27, <1>28, <1>29, <1>30,
     <1>31, <1>32 DEF Next, StartStep, HandlerStep, CreateStep, PaymentStep,
     FulfilStep, Environment

\* A handler stays in the branch of its order's kind.
LEMMA BranchOfKindStep ==
  ASSUME TypeOK, OwnsNewOrder, BranchOfKind, Next
  PROVE  BranchOfKind'
  <1>0. TypeOK'
    BY TypeStep
  <1>1. ASSUME NEW p \in Procs, NEW o \in Orders, StartCreate(p, o) PROVE BranchOfKind'
    BY <1>1, <1>0 DEF StartCreate, Start, OwnsNewOrder, BranchOfKind, TypeOK,
       row, ledger, provider, handlers, counters
  <1>2. ASSUME NEW p \in Procs, NEW o \in Orders, StartCancel(p, o) PROVE BranchOfKind'
    BY <1>2, <1>0 DEF StartCancel, Start, OwnsNewOrder, BranchOfKind, TypeOK,
       row, ledger, provider, handlers, counters
  <1>3. ASSUME NEW p \in Procs, NEW o \in Orders, StartVerify(p, o) PROVE BranchOfKind'
    BY <1>3, <1>0 DEF StartVerify, Start, OwnsNewOrder, BranchOfKind, TypeOK,
       row, ledger, provider, handlers, counters
  <1>4. ASSUME NEW p \in Procs, NEW o \in Orders, StartRetry(p, o) PROVE BranchOfKind'
    BY <1>4, <1>0 DEF StartRetry, Start, OwnsNewOrder, BranchOfKind, TypeOK,
       row, ledger, provider, handlers, counters
  <1>5. ASSUME NEW p \in Procs, NEW o \in Orders, Notify(p, o) PROVE BranchOfKind'
    BY <1>5, <1>0 DEF Notify, Start, OwnsNewOrder, BranchOfKind, TypeOK, row,
       ledger, provider, handlers, counters
  <1>6. ASSUME NEW p \in Procs, InsertOrder(p) PROVE BranchOfKind'
    BY <1>6, <1>0 DEF InsertOrder, Goto, Return, OwnsNewOrder, BranchOfKind,
       TypeOK, row, ledger, provider, handlers, counters
  <1>7. ASSUME NEW p \in Procs, CallProvider(p) PROVE BranchOfKind'
    BY <1>7, <1>0 DEF CallProvider, Goto, Return, OwnsNewOrder, BranchOfKind,
       TypeOK, row, ledger, provider, handlers, counters
  <1>8. ASSUME NEW p \in Procs, SavePayment(p) PROVE BranchOfKind'
    BY <1>8, <1>0 DEF SavePayment, Goto, Return, OwnsNewOrder, BranchOfKind,
       TypeOK, row, ledger, provider, handlers, counters
  <1>9. ASSUME NEW p \in Procs, CreateFailed(p) PROVE BranchOfKind'
    BY <1>9, <1>0 DEF CreateFailed, Goto, Return, OwnsNewOrder, BranchOfKind,
       TypeOK, row, ledger, provider, handlers, counters
  <1>10. ASSUME NEW p \in Procs, Query(p) PROVE BranchOfKind'
    BY <1>10, <1>0 DEF Query, Goto, Return, OwnsNewOrder, BranchOfKind, TypeOK,
       row, ledger, provider, handlers, counters
  <1>11. ASSUME NEW p \in Procs, ClosePayment(p) PROVE BranchOfKind'
    BY <1>11, <1>0 DEF ClosePayment, Goto, Return, OwnsNewOrder, BranchOfKind,
       TypeOK, row, ledger, provider, handlers, counters
  <1>12. ASSUME NEW p \in Procs, CancelPending(p) PROVE BranchOfKind'
    BY <1>12, <1>0 DEF CancelPending, Goto, Return, OwnsNewOrder, BranchOfKind,
       TypeOK, row, ledger, provider, handlers, counters
  <1>13. ASSUME NEW p \in Procs, Confirm(p) PROVE BranchOfKind'
    BY <1>13, <1>0 DEF Confirm, Goto, Return, OwnsNewOrder, BranchOfKind,
       TypeOK, row, ledger, provider, handlers, counters
  <1>14. ASSUME NEW p \in Procs, ToPaid(p) PROVE BranchOfKind'
    BY <1>14, <1>0 DEF ToPaid, Goto, Return, OwnsNewOrder, BranchOfKind,
       TypeOK, row, ledger, provider, handlers, counters
  <1>15. ASSUME NEW p \in Procs, Already(p) PROVE BranchOfKind'
    BY <1>15, <1>0 DEF Already, Goto, Return, OwnsNewOrder, BranchOfKind,
       TypeOK, row, ledger, provider, handlers, counters
  <1>16. ASSUME NEW p \in Procs, RetryReset(p) PROVE BranchOfKind'
    BY <1>16, <1>0 DEF RetryReset, Goto, Return, OwnsNewOrder, BranchOfKind,
       TypeOK, row, ledger, provider, handlers, counters
  <1>17. ASSUME NEW p \in Procs, Execute(p) PROVE BranchOfKind'
    BY <1>17, <1>0 DEF Execute, Goto, Return, OwnsNewOrder, BranchOfKind,
       TypeOK, row, ledger, provider, handlers, counters
  <1>18. ASSUME NEW p \in Procs, Lock(p) PROVE BranchOfKind'
    BY <1>18, <1>0 DEF Lock, Goto, Return, Kinds, OwnsNewOrder, BranchOfKind,
       TypeOK, row, ledger, provider, handlers, counters
  <1>19. ASSUME NEW p \in Procs, Lookup(p) PROVE BranchOfKind'
    BY <1>19, <1>0 DEF Lookup, Goto, Return, OwnsNewOrder, BranchOfKind,
       TypeOK, row, ledger, provider, handlers, counters
  <1>20. ASSUME NEW p \in Procs, CreateCode(p) PROVE BranchOfKind'
    BY <1>20, <1>0 DEF CreateCode, Goto, Return, OwnsNewOrder, BranchOfKind,
       TypeOK, row, ledger, provider, handlers, counters
  <1>21. ASSUME NEW p \in Procs, Redeem(p) PROVE BranchOfKind'
    BY <1>21, <1>0 DEF Redeem, Goto, Return, OwnsNewOrder, BranchOfKind,
       TypeOK, row, ledger, provider, handlers, counters
  <1>22. ASSUME NEW p \in Procs, ApplyRebate(p) PROVE BranchOfKind'
    BY <1>22, <1>0 DEF ApplyRebate, Goto, Return, OwnsNewOrder, BranchOfKind,
       TypeOK, row, ledger, provider, handlers, counters
  <1>23. ASSUME NEW p \in Procs, CheckSubscription(p) PROVE BranchOfKind'
    BY <1>23, <1>0 DEF CheckSubscription, Goto, Return, OwnsNewOrder,
       BranchOfKind, TypeOK, row, ledger, provider, handlers, counters
  <1>24. ASSUME NEW p \in Procs, AssignSubscription(p) PROVE BranchOfKind'
    BY <1>24, <1>0 DEF AssignSubscription, Goto, Return, OwnsNewOrder,
       BranchOfKind, TypeOK, row, ledger, provider, handlers, counters
  <1>25. ASSUME NEW p \in Procs, Complete(p) PROVE BranchOfKind'
    BY <1>25, <1>0 DEF Complete, Goto, Return, OwnsNewOrder, BranchOfKind,
       TypeOK, row, ledger, provider, handlers, counters
  <1>26. ASSUME NEW p \in Procs, WriteSuccess(p) PROVE BranchOfKind'
    BY <1>26, <1>0 DEF WriteSuccess, Goto, Return, OwnsNewOrder, BranchOfKind,
       TypeOK, row, ledger, provider, handlers, counters
  <1>27. ASSUME NEW p \in Procs, MarkFailed(p) PROVE BranchOfKind'
    BY <1>27, <1>0 DEF MarkFailed, Goto, Return, OwnsNewOrder, BranchOfKind,
       TypeOK, row, ledger, provider, handlers, counters
  <1>28. ASSUME NEW p \in Procs, Crash(p) PROVE BranchOfKind'
    BY <1>28, <1>0 DEF Crash, OwnsNewOrder, BranchOfKind, TypeOK, row, ledger,
       provider, handlers, counters
  <1>29. ASSUME NEW o \in Orders, Pay(o) PROVE BranchOfKind'
    BY <1>29, <1>0 DEF Pay, OwnsNewOrder, BranchOfKind, TypeOK, row, ledger,
       provider, handlers, counters
  <1>30. ASSUME NEW o \in Orders, GracePasses(o) PROVE BranchOfKind'
    BY <1>30, <1>0 DEF GracePasses, OwnsNewOrder, BranchOfKind, TypeOK, row,
       ledger, provider, handlers, counters
  <1>31. ASSUME NEW o \in Orders, EnterRefund(o) PROVE BranchOfKind'
    BY <1>31, <1>0 DEF EnterRefund, OwnsNewOrder, BranchOfKind, TypeOK, row,
       ledger, provider, handlers, counters
  <1>32. ASSUME NEW o \in Orders, RestoreCompleted(o) PROVE BranchOfKind'
    BY <1>32, <1>0 DEF RestoreCompleted, OwnsNewOrder, BranchOfKind, TypeOK,
       row, ledger, provider, handlers, counters
  <1> QED BY <1>1, <1>2, <1>3, <1>4, <1>5, <1>6, <1>7, <1>8, <1>9, <1>10,
     <1>11, <1>12, <1>13, <1>14, <1>15, <1>16, <1>17, <1>18, <1>19, <1>20,
     <1>21, <1>22, <1>23, <1>24, <1>25, <1>26, <1>27, <1>28, <1>29, <1>30,
     <1>31, <1>32 DEF Next, StartStep, HandlerStep, CreateStep, PaymentStep,
     FulfilStep, Environment

\* The code and the audit row remember what was given.
LEMMA CodeRecordsCreditStep ==
  ASSUME TypeOK, OwnsNewOrder, BranchOfKind, CodeRecordsCredit, Next
  PROVE  CodeRecordsCredit'
  <1>0. TypeOK'
    BY TypeStep
  <1>1. ASSUME NEW p \in Procs, NEW o \in Orders, StartCreate(p, o) PROVE CodeRecordsCredit'
    BY <1>1, <1>0 DEF StartCreate, Start, OwnsNewOrder, BranchOfKind,
       CodeRecordsCredit, TypeOK, row, ledger, provider, handlers, counters
  <1>2. ASSUME NEW p \in Procs, NEW o \in Orders, StartCancel(p, o) PROVE CodeRecordsCredit'
    BY <1>2, <1>0 DEF StartCancel, Start, OwnsNewOrder, BranchOfKind,
       CodeRecordsCredit, TypeOK, row, ledger, provider, handlers, counters
  <1>3. ASSUME NEW p \in Procs, NEW o \in Orders, StartVerify(p, o) PROVE CodeRecordsCredit'
    BY <1>3, <1>0 DEF StartVerify, Start, OwnsNewOrder, BranchOfKind,
       CodeRecordsCredit, TypeOK, row, ledger, provider, handlers, counters
  <1>4. ASSUME NEW p \in Procs, NEW o \in Orders, StartRetry(p, o) PROVE CodeRecordsCredit'
    BY <1>4, <1>0 DEF StartRetry, Start, OwnsNewOrder, BranchOfKind,
       CodeRecordsCredit, TypeOK, row, ledger, provider, handlers, counters
  <1>5. ASSUME NEW p \in Procs, NEW o \in Orders, Notify(p, o) PROVE CodeRecordsCredit'
    BY <1>5, <1>0 DEF Notify, Start, OwnsNewOrder, BranchOfKind,
       CodeRecordsCredit, TypeOK, row, ledger, provider, handlers, counters
  <1>6. ASSUME NEW p \in Procs, InsertOrder(p) PROVE CodeRecordsCredit'
    BY <1>6, <1>0 DEF InsertOrder, Goto, Return, OwnsNewOrder, BranchOfKind,
       CodeRecordsCredit, TypeOK, row, ledger, provider, handlers, counters
  <1>7. ASSUME NEW p \in Procs, CallProvider(p) PROVE CodeRecordsCredit'
    BY <1>7, <1>0 DEF CallProvider, Goto, Return, OwnsNewOrder, BranchOfKind,
       CodeRecordsCredit, TypeOK, row, ledger, provider, handlers, counters
  <1>8. ASSUME NEW p \in Procs, SavePayment(p) PROVE CodeRecordsCredit'
    BY <1>8, <1>0 DEF SavePayment, Goto, Return, OwnsNewOrder, BranchOfKind,
       CodeRecordsCredit, TypeOK, row, ledger, provider, handlers, counters
  <1>9. ASSUME NEW p \in Procs, CreateFailed(p) PROVE CodeRecordsCredit'
    BY <1>9, <1>0 DEF CreateFailed, Goto, Return, OwnsNewOrder, BranchOfKind,
       CodeRecordsCredit, TypeOK, row, ledger, provider, handlers, counters
  <1>10. ASSUME NEW p \in Procs, Query(p) PROVE CodeRecordsCredit'
    BY <1>10, <1>0 DEF Query, Goto, Return, OwnsNewOrder, BranchOfKind,
       CodeRecordsCredit, TypeOK, row, ledger, provider, handlers, counters
  <1>11. ASSUME NEW p \in Procs, ClosePayment(p) PROVE CodeRecordsCredit'
    BY <1>11, <1>0 DEF ClosePayment, Goto, Return, OwnsNewOrder, BranchOfKind,
       CodeRecordsCredit, TypeOK, row, ledger, provider, handlers, counters
  <1>12. ASSUME NEW p \in Procs, CancelPending(p) PROVE CodeRecordsCredit'
    BY <1>12, <1>0 DEF CancelPending, Goto, Return, OwnsNewOrder, BranchOfKind,
       CodeRecordsCredit, TypeOK, row, ledger, provider, handlers, counters
  <1>13. ASSUME NEW p \in Procs, Confirm(p) PROVE CodeRecordsCredit'
    BY <1>13, <1>0 DEF Confirm, Goto, Return, OwnsNewOrder, BranchOfKind,
       CodeRecordsCredit, TypeOK, row, ledger, provider, handlers, counters
  <1>14. ASSUME NEW p \in Procs, ToPaid(p) PROVE CodeRecordsCredit'
    BY <1>14, <1>0 DEF ToPaid, Goto, Return, OwnsNewOrder, BranchOfKind,
       CodeRecordsCredit, TypeOK, row, ledger, provider, handlers, counters
  <1>15. ASSUME NEW p \in Procs, Already(p) PROVE CodeRecordsCredit'
    BY <1>15, <1>0 DEF Already, Goto, Return, OwnsNewOrder, BranchOfKind,
       CodeRecordsCredit, TypeOK, row, ledger, provider, handlers, counters
  <1>16. ASSUME NEW p \in Procs, RetryReset(p) PROVE CodeRecordsCredit'
    BY <1>16, <1>0 DEF RetryReset, Goto, Return, OwnsNewOrder, BranchOfKind,
       CodeRecordsCredit, TypeOK, row, ledger, provider, handlers, counters
  <1>17. ASSUME NEW p \in Procs, Execute(p) PROVE CodeRecordsCredit'
    BY <1>17, <1>0 DEF Execute, Goto, Return, OwnsNewOrder, BranchOfKind,
       CodeRecordsCredit, TypeOK, row, ledger, provider, handlers, counters
  <1>18. ASSUME NEW p \in Procs, Lock(p) PROVE CodeRecordsCredit'
    BY <1>18, <1>0 DEF Lock, Goto, Return, OwnsNewOrder, BranchOfKind,
       CodeRecordsCredit, TypeOK, row, ledger, provider, handlers, counters
  <1>19. ASSUME NEW p \in Procs, Lookup(p) PROVE CodeRecordsCredit'
    BY <1>19, <1>0 DEF Lookup, Goto, Return, OwnsNewOrder, BranchOfKind,
       CodeRecordsCredit, TypeOK, row, ledger, provider, handlers, counters
  <1>20. ASSUME NEW p \in Procs, CreateCode(p) PROVE CodeRecordsCredit'
    BY <1>20, <1>0 DEF CreateCode, Goto, Return, OwnsNewOrder, BranchOfKind,
       CodeRecordsCredit, TypeOK, row, ledger, provider, handlers, counters
  <1>21. ASSUME NEW p \in Procs, Redeem(p) PROVE CodeRecordsCredit'
    BY <1>21, <1>0 DEF Redeem, Goto, Return, OwnsNewOrder, BranchOfKind,
       CodeRecordsCredit, TypeOK, row, ledger, provider, handlers, counters
  <1>22. ASSUME NEW p \in Procs, ApplyRebate(p) PROVE CodeRecordsCredit'
    BY <1>22, <1>0 DEF ApplyRebate, Goto, Return, OwnsNewOrder, BranchOfKind,
       CodeRecordsCredit, TypeOK, row, ledger, provider, handlers, counters
  <1>23. ASSUME NEW p \in Procs, CheckSubscription(p) PROVE CodeRecordsCredit'
    BY <1>23, <1>0 DEF CheckSubscription, Goto, Return, OwnsNewOrder,
       BranchOfKind, CodeRecordsCredit, TypeOK, row, ledger, provider,
       handlers, counters
  <1>24. ASSUME NEW p \in Procs, AssignSubscription(p) PROVE CodeRecordsCredit'
    BY <1>24, <1>0 DEF AssignSubscription, Goto, Return, OwnsNewOrder,
       BranchOfKind, CodeRecordsCredit, TypeOK, row, ledger, provider,
       handlers, counters
  <1>25. ASSUME NEW p \in Procs, Complete(p) PROVE CodeRecordsCredit'
    BY <1>25, <1>0 DEF Complete, Goto, Return, OwnsNewOrder, BranchOfKind,
       CodeRecordsCredit, TypeOK, row, ledger, provider, handlers, counters
  <1>26. ASSUME NEW p \in Procs, WriteSuccess(p) PROVE CodeRecordsCredit'
    BY <1>26, <1>0 DEF WriteSuccess, Goto, Return, OwnsNewOrder, BranchOfKind,
       CodeRecordsCredit, TypeOK, row, ledger, provider, handlers, counters
  <1>27. ASSUME NEW p \in Procs, MarkFailed(p) PROVE CodeRecordsCredit'
    BY <1>27, <1>0 DEF MarkFailed, Goto, Return, OwnsNewOrder, BranchOfKind,
       CodeRecordsCredit, TypeOK, row, ledger, provider, handlers, counters
  <1>28. ASSUME NEW p \in Procs, Crash(p) PROVE CodeRecordsCredit'
    BY <1>28, <1>0 DEF Crash, OwnsNewOrder, BranchOfKind, CodeRecordsCredit,
       TypeOK, row, ledger, provider, handlers, counters
  <1>29. ASSUME NEW o \in Orders, Pay(o) PROVE CodeRecordsCredit'
    BY <1>29, <1>0 DEF Pay, OwnsNewOrder, BranchOfKind, CodeRecordsCredit,
       TypeOK, row, ledger, provider, handlers, counters
  <1>30. ASSUME NEW o \in Orders, GracePasses(o) PROVE CodeRecordsCredit'
    BY <1>30, <1>0 DEF GracePasses, OwnsNewOrder, BranchOfKind,
       CodeRecordsCredit, TypeOK, row, ledger, provider, handlers, counters
  <1>31. ASSUME NEW o \in Orders, EnterRefund(o) PROVE CodeRecordsCredit'
    BY <1>31, <1>0 DEF EnterRefund, OwnsNewOrder, BranchOfKind,
       CodeRecordsCredit, TypeOK, row, ledger, provider, handlers, counters
  <1>32. ASSUME NEW o \in Orders, RestoreCompleted(o) PROVE CodeRecordsCredit'
    BY <1>32, <1>0 DEF RestoreCompleted, OwnsNewOrder, BranchOfKind,
       CodeRecordsCredit, TypeOK, row, ledger, provider, handlers, counters
  <1> QED BY <1>1, <1>2, <1>3, <1>4, <1>5, <1>6, <1>7, <1>8, <1>9, <1>10,
     <1>11, <1>12, <1>13, <1>14, <1>15, <1>16, <1>17, <1>18, <1>19, <1>20,
     <1>21, <1>22, <1>23, <1>24, <1>25, <1>26, <1>27, <1>28, <1>29, <1>30,
     <1>31, <1>32 DEF Next, StartStep, HandlerStep, CreateStep, PaymentStep,
     FulfilStep, Environment

\* Everything past the checks of the payment works for a paid order.
LEMMA PaymentBehindStep ==
  ASSUME TypeOK, OwnsNewOrder, PaymentBehind, Next
  PROVE  PaymentBehind'
  <1>0. TypeOK'
    BY TypeStep
  <1>1. ASSUME NEW p \in Procs, NEW o \in Orders, StartCreate(p, o) PROVE PaymentBehind'
    BY <1>1, <1>0 DEF StartCreate, Start, OwnsNewOrder, PaymentBehind,
       AfterPayment, Holding, TypeOK, row, ledger, provider, handlers, counters
  <1>2. ASSUME NEW p \in Procs, NEW o \in Orders, StartCancel(p, o) PROVE PaymentBehind'
    BY <1>2, <1>0 DEF StartCancel, Start, OwnsNewOrder, PaymentBehind,
       AfterPayment, Holding, TypeOK, row, ledger, provider, handlers, counters
  <1>3. ASSUME NEW p \in Procs, NEW o \in Orders, StartVerify(p, o) PROVE PaymentBehind'
    BY <1>3, <1>0 DEF StartVerify, Start, OwnsNewOrder, PaymentBehind,
       AfterPayment, Holding, TypeOK, row, ledger, provider, handlers, counters
  <1>4. ASSUME NEW p \in Procs, NEW o \in Orders, StartRetry(p, o) PROVE PaymentBehind'
    BY <1>4, <1>0 DEF StartRetry, Start, OwnsNewOrder, PaymentBehind,
       AfterPayment, Holding, TypeOK, row, ledger, provider, handlers, counters
  <1>5. ASSUME NEW p \in Procs, NEW o \in Orders, Notify(p, o) PROVE PaymentBehind'
    BY <1>5, <1>0 DEF Notify, Start, OwnsNewOrder, PaymentBehind, AfterPayment,
       Holding, TypeOK, row, ledger, provider, handlers, counters
  <1>6. ASSUME NEW p \in Procs, InsertOrder(p) PROVE PaymentBehind'
    BY <1>6, <1>0, SMTT(60)
       DEF InsertOrder, Goto, Return, OwnsNewOrder, PaymentBehind,
       AfterPayment, Holding, TypeOK, row, ledger, provider, handlers, counters
  <1>7. ASSUME NEW p \in Procs, CallProvider(p) PROVE PaymentBehind'
    BY <1>7, <1>0 DEF CallProvider, Goto, Return, OwnsNewOrder, PaymentBehind,
       AfterPayment, Holding, TypeOK, row, ledger, provider, handlers, counters
  <1>8. ASSUME NEW p \in Procs, SavePayment(p) PROVE PaymentBehind'
    BY <1>8, <1>0 DEF SavePayment, Goto, Return, OwnsNewOrder, PaymentBehind,
       AfterPayment, Holding, TypeOK, row, ledger, provider, handlers, counters
  <1>9. ASSUME NEW p \in Procs, CreateFailed(p) PROVE PaymentBehind'
    BY <1>9, <1>0 DEF CreateFailed, Goto, Return, OwnsNewOrder, PaymentBehind,
       AfterPayment, Holding, TypeOK, row, ledger, provider, handlers, counters
  <1>10. ASSUME NEW p \in Procs, Query(p) PROVE PaymentBehind'
    BY <1>10, <1>0, SMTT(60)
       DEF Query, Goto, Return, OwnsNewOrder, PaymentBehind,
       AfterPayment, Holding, TypeOK, row, ledger, provider, handlers, counters
  <1>11. ASSUME NEW p \in Procs, ClosePayment(p) PROVE PaymentBehind'
    BY <1>11, <1>0 DEF ClosePayment, Goto, Return, OwnsNewOrder, PaymentBehind,
       AfterPayment, Holding, TypeOK, row, ledger, provider, handlers, counters
  <1>12. ASSUME NEW p \in Procs, CancelPending(p) PROVE PaymentBehind'
    BY <1>12, <1>0 DEF CancelPending, Goto, Return, OwnsNewOrder,
       PaymentBehind, AfterPayment, Holding, TypeOK, row, ledger, provider,
       handlers, counters
  <1>13. ASSUME NEW p \in Procs, Confirm(p) PROVE PaymentBehind'
    BY <1>13, <1>0 DEF Confirm, Goto, Return, OwnsNewOrder, PaymentBehind,
       AfterPayment, Holding, TypeOK, row, ledger, provider, handlers, counters
  <1>14. ASSUME NEW p \in Procs, ToPaid(p) PROVE PaymentBehind'
    BY <1>14, <1>0, SMTT(60)
       DEF ToPaid, Goto, Return, OwnsNewOrder, PaymentBehind,
       AfterPayment, Holding, TypeOK, row, ledger, provider, handlers, counters
  <1>15. ASSUME NEW p \in Procs, Already(p) PROVE PaymentBehind'
    BY <1>15, <1>0 DEF Already, Goto, Return, OwnsNewOrder, PaymentBehind,
       AfterPayment, Holding, TypeOK, row, ledger, provider, handlers, counters
  <1>16. ASSUME NEW p \in Procs, RetryReset(p) PROVE PaymentBehind'
    BY <1>16, <1>0, SMTT(60)
       DEF RetryReset, Goto, Return, OwnsNewOrder, PaymentBehind,
       AfterPayment, Holding, TypeOK, row, ledger, provider, handlers, counters
  <1>17. ASSUME NEW p \in Procs, Execute(p) PROVE PaymentBehind'
    BY <1>17, <1>0 DEF Execute, Goto, Return, OwnsNewOrder, PaymentBehind,
       AfterPayment, Holding, TypeOK, row, ledger, provider, handlers, counters
  <1>18. ASSUME NEW p \in Procs, Lock(p) PROVE PaymentBehind'
    BY <1>18, <1>0 DEF Lock, Goto, Return, OwnsNewOrder, PaymentBehind,
       AfterPayment, Holding, TypeOK, row, ledger, provider, handlers, counters
  <1>19. ASSUME NEW p \in Procs, Lookup(p) PROVE PaymentBehind'
    BY <1>19, <1>0 DEF Lookup, Goto, Return, OwnsNewOrder, PaymentBehind,
       AfterPayment, Holding, TypeOK, row, ledger, provider, handlers, counters
  <1>20. ASSUME NEW p \in Procs, CreateCode(p) PROVE PaymentBehind'
    BY <1>20, <1>0 DEF CreateCode, Goto, Return, OwnsNewOrder, PaymentBehind,
       AfterPayment, Holding, TypeOK, row, ledger, provider, handlers, counters
  <1>21. ASSUME NEW p \in Procs, Redeem(p) PROVE PaymentBehind'
    BY <1>21, <1>0 DEF Redeem, Goto, Return, OwnsNewOrder, PaymentBehind,
       AfterPayment, Holding, TypeOK, row, ledger, provider, handlers, counters
  <1>22. ASSUME NEW p \in Procs, ApplyRebate(p) PROVE PaymentBehind'
    BY <1>22, <1>0 DEF ApplyRebate, Goto, Return, OwnsNewOrder, PaymentBehind,
       AfterPayment, Holding, TypeOK, row, ledger, provider, handlers, counters
  <1>23. ASSUME NEW p \in Procs, CheckSubscription(p) PROVE PaymentBehind'
    BY <1>23, <1>0 DEF CheckSubscription, Goto, Return, OwnsNewOrder,
       PaymentBehind, AfterPayment, Holding, TypeOK, row, ledger, provider,
       handlers, counters
  <1>24. ASSUME NEW p \in Procs, AssignSubscription(p) PROVE PaymentBehind'
    BY <1>24, <1>0 DEF AssignSubscription, Goto, Return, OwnsNewOrder,
       PaymentBehind, AfterPayment, Holding, TypeOK, row, ledger, provider,
       handlers, counters
  <1>25. ASSUME NEW p \in Procs, Complete(p) PROVE PaymentBehind'
    BY <1>25, <1>0 DEF Complete, Goto, Return, OwnsNewOrder, PaymentBehind,
       AfterPayment, Holding, TypeOK, row, ledger, provider, handlers, counters
  <1>26. ASSUME NEW p \in Procs, WriteSuccess(p) PROVE PaymentBehind'
    BY <1>26, <1>0 DEF WriteSuccess, Goto, Return, OwnsNewOrder, PaymentBehind,
       AfterPayment, Holding, TypeOK, row, ledger, provider, handlers, counters
  <1>27. ASSUME NEW p \in Procs, MarkFailed(p) PROVE PaymentBehind'
    BY <1>27, <1>0 DEF MarkFailed, Goto, Return, OwnsNewOrder, PaymentBehind,
       AfterPayment, Holding, TypeOK, row, ledger, provider, handlers, counters
  <1>28. ASSUME NEW p \in Procs, Crash(p) PROVE PaymentBehind'
    BY <1>28, <1>0 DEF Crash, OwnsNewOrder, PaymentBehind, AfterPayment,
       Holding, TypeOK, row, ledger, provider, handlers, counters
  <1>29. ASSUME NEW o \in Orders, Pay(o) PROVE PaymentBehind'
    BY <1>29, <1>0 DEF Pay, OwnsNewOrder, PaymentBehind, AfterPayment, Holding,
       TypeOK, row, ledger, provider, handlers, counters
  <1>30. ASSUME NEW o \in Orders, GracePasses(o) PROVE PaymentBehind'
    BY <1>30, <1>0 DEF GracePasses, OwnsNewOrder, PaymentBehind, AfterPayment,
       Holding, TypeOK, row, ledger, provider, handlers, counters
  <1>31. ASSUME NEW o \in Orders, EnterRefund(o) PROVE PaymentBehind'
    BY <1>31, <1>0 DEF EnterRefund, OwnsNewOrder, PaymentBehind, AfterPayment,
       Holding, TypeOK, row, ledger, provider, handlers, counters
  <1>32. ASSUME NEW o \in Orders, RestoreCompleted(o) PROVE PaymentBehind'
    BY <1>32, <1>0 DEF RestoreCompleted, OwnsNewOrder, PaymentBehind,
       AfterPayment, Holding, TypeOK, row, ledger, provider, handlers, counters
  <1> QED BY <1>1, <1>2, <1>3, <1>4, <1>5, <1>6, <1>7, <1>8, <1>9, <1>10,
     <1>11, <1>12, <1>13, <1>14, <1>15, <1>16, <1>17, <1>18, <1>19, <1>20,
     <1>21, <1>22, <1>23, <1>24, <1>25, <1>26, <1>27, <1>28, <1>29, <1>30,
     <1>31, <1>32 DEF Next, StartStep, HandlerStep, CreateStep, PaymentStep,
     FulfilStep, Environment

\* Every trace of a success has a grant behind it.
LEMMA GrantBehindStep ==
  ASSUME TypeOK, OwnsNewOrder, GrantBehind, Next
  PROVE  GrantBehind'
  <1>0. TypeOK'
    BY TypeStep
  <1>1. ASSUME NEW p \in Procs, NEW o \in Orders, StartCreate(p, o) PROVE GrantBehind'
    BY <1>1, <1>0 DEF StartCreate, Start, OwnsNewOrder, GrantBehind, TypeOK,
       row, ledger, provider, handlers, counters
  <1>2. ASSUME NEW p \in Procs, NEW o \in Orders, StartCancel(p, o) PROVE GrantBehind'
    BY <1>2, <1>0 DEF StartCancel, Start, OwnsNewOrder, GrantBehind, TypeOK,
       row, ledger, provider, handlers, counters
  <1>3. ASSUME NEW p \in Procs, NEW o \in Orders, StartVerify(p, o) PROVE GrantBehind'
    BY <1>3, <1>0 DEF StartVerify, Start, OwnsNewOrder, GrantBehind, TypeOK,
       row, ledger, provider, handlers, counters
  <1>4. ASSUME NEW p \in Procs, NEW o \in Orders, StartRetry(p, o) PROVE GrantBehind'
    BY <1>4, <1>0 DEF StartRetry, Start, OwnsNewOrder, GrantBehind, TypeOK,
       row, ledger, provider, handlers, counters
  <1>5. ASSUME NEW p \in Procs, NEW o \in Orders, Notify(p, o) PROVE GrantBehind'
    BY <1>5, <1>0 DEF Notify, Start, OwnsNewOrder, GrantBehind, TypeOK, row,
       ledger, provider, handlers, counters
  <1>6. ASSUME NEW p \in Procs, InsertOrder(p) PROVE GrantBehind'
    BY <1>6, <1>0, SMTT(60)
       DEF InsertOrder, Goto, Return, OwnsNewOrder, GrantBehind,
       TypeOK, row, ledger, provider, handlers, counters
  <1>7. ASSUME NEW p \in Procs, CallProvider(p) PROVE GrantBehind'
    BY <1>7, <1>0 DEF CallProvider, Goto, Return, OwnsNewOrder, GrantBehind,
       TypeOK, row, ledger, provider, handlers, counters
  <1>8. ASSUME NEW p \in Procs, SavePayment(p) PROVE GrantBehind'
    BY <1>8, <1>0 DEF SavePayment, Goto, Return, OwnsNewOrder, GrantBehind,
       TypeOK, row, ledger, provider, handlers, counters
  <1>9. ASSUME NEW p \in Procs, CreateFailed(p) PROVE GrantBehind'
    BY <1>9, <1>0 DEF CreateFailed, Goto, Return, OwnsNewOrder, GrantBehind,
       TypeOK, row, ledger, provider, handlers, counters
  <1>10. ASSUME NEW p \in Procs, Query(p) PROVE GrantBehind'
    BY <1>10, <1>0 DEF Query, Goto, Return, OwnsNewOrder, GrantBehind, TypeOK,
       row, ledger, provider, handlers, counters
  <1>11. ASSUME NEW p \in Procs, ClosePayment(p) PROVE GrantBehind'
    BY <1>11, <1>0 DEF ClosePayment, Goto, Return, OwnsNewOrder, GrantBehind,
       TypeOK, row, ledger, provider, handlers, counters
  <1>12. ASSUME NEW p \in Procs, CancelPending(p) PROVE GrantBehind'
    BY <1>12, <1>0 DEF CancelPending, Goto, Return, OwnsNewOrder, GrantBehind,
       TypeOK, row, ledger, provider, handlers, counters
  <1>13. ASSUME NEW p \in Procs, Confirm(p) PROVE GrantBehind'
    BY <1>13, <1>0 DEF Confirm, Goto, Return, OwnsNewOrder, GrantBehind,
       TypeOK, row, ledger, provider, handlers, counters
  <1>14. ASSUME NEW p \in Procs, ToPaid(p) PROVE GrantBehind'
    BY <1>14, <1>0 DEF ToPaid, Goto, Return, OwnsNewOrder, GrantBehind, TypeOK,
       row, ledger, provider, handlers, counters
  <1>15. ASSUME NEW p \in Procs, Already(p) PROVE GrantBehind'
    BY <1>15, <1>0 DEF Already, Goto, Return, OwnsNewOrder, GrantBehind,
       TypeOK, row, ledger, provider, handlers, counters
  <1>16. ASSUME NEW p \in Procs, RetryReset(p) PROVE GrantBehind'
    BY <1>16, <1>0 DEF RetryReset, Goto, Return, OwnsNewOrder, GrantBehind,
       TypeOK, row, ledger, provider, handlers, counters
  <1>17. ASSUME NEW p \in Procs, Execute(p) PROVE GrantBehind'
    BY <1>17, <1>0 DEF Execute, Goto, Return, OwnsNewOrder, GrantBehind,
       TypeOK, row, ledger, provider, handlers, counters
  <1>18. ASSUME NEW p \in Procs, Lock(p) PROVE GrantBehind'
    BY <1>18, <1>0 DEF Lock, Goto, Return, OwnsNewOrder, GrantBehind, TypeOK,
       row, ledger, provider, handlers, counters
  <1>19. ASSUME NEW p \in Procs, Lookup(p) PROVE GrantBehind'
    BY <1>19, <1>0 DEF Lookup, Goto, Return, OwnsNewOrder, GrantBehind, TypeOK,
       row, ledger, provider, handlers, counters
  <1>20. ASSUME NEW p \in Procs, CreateCode(p) PROVE GrantBehind'
    BY <1>20, <1>0 DEF CreateCode, Goto, Return, OwnsNewOrder, GrantBehind,
       TypeOK, row, ledger, provider, handlers, counters
  <1>21. ASSUME NEW p \in Procs, Redeem(p) PROVE GrantBehind'
    BY <1>21, <1>0 DEF Redeem, Goto, Return, Statement, OwnsNewOrder,
       GrantBehind, TypeOK, row, ledger, provider, handlers, counters
  <1>22. ASSUME NEW p \in Procs, ApplyRebate(p) PROVE GrantBehind'
    BY <1>22, <1>0 DEF ApplyRebate, Goto, Return, OwnsNewOrder, GrantBehind,
       TypeOK, row, ledger, provider, handlers, counters
  <1>23. ASSUME NEW p \in Procs, CheckSubscription(p) PROVE GrantBehind'
    BY <1>23, <1>0 DEF CheckSubscription, Goto, Return, OwnsNewOrder,
       GrantBehind, TypeOK, row, ledger, provider, handlers, counters
  <1>24. ASSUME NEW p \in Procs, AssignSubscription(p) PROVE GrantBehind'
    BY <1>24, <1>0 DEF AssignSubscription, Goto, Return, Statement,
       OwnsNewOrder, GrantBehind, TypeOK, row, ledger, provider, handlers,
       counters
  <1>25. ASSUME NEW p \in Procs, Complete(p) PROVE GrantBehind'
    BY <1>25, <1>0 DEF Complete, Goto, Return, OwnsNewOrder, GrantBehind,
       TypeOK, row, ledger, provider, handlers, counters
  <1>26. ASSUME NEW p \in Procs, WriteSuccess(p) PROVE GrantBehind'
    BY <1>26, <1>0 DEF WriteSuccess, Goto, Return, OwnsNewOrder, GrantBehind,
       TypeOK, row, ledger, provider, handlers, counters
  <1>27. ASSUME NEW p \in Procs, MarkFailed(p) PROVE GrantBehind'
    BY <1>27, <1>0 DEF MarkFailed, Goto, Return, OwnsNewOrder, GrantBehind,
       TypeOK, row, ledger, provider, handlers, counters
  <1>28. ASSUME NEW p \in Procs, Crash(p) PROVE GrantBehind'
    BY <1>28, <1>0 DEF Crash, OwnsNewOrder, GrantBehind, TypeOK, row, ledger,
       provider, handlers, counters
  <1>29. ASSUME NEW o \in Orders, Pay(o) PROVE GrantBehind'
    BY <1>29, <1>0 DEF Pay, OwnsNewOrder, GrantBehind, TypeOK, row, ledger,
       provider, handlers, counters
  <1>30. ASSUME NEW o \in Orders, GracePasses(o) PROVE GrantBehind'
    BY <1>30, <1>0 DEF GracePasses, OwnsNewOrder, GrantBehind, TypeOK, row,
       ledger, provider, handlers, counters
  <1>31. ASSUME NEW o \in Orders, EnterRefund(o) PROVE GrantBehind'
    BY <1>31, <1>0 DEF EnterRefund, OwnsNewOrder, GrantBehind, TypeOK, row,
       ledger, provider, handlers, counters
  <1>32. ASSUME NEW o \in Orders, RestoreCompleted(o) PROVE GrantBehind'
    BY <1>32, <1>0 DEF RestoreCompleted, OwnsNewOrder, GrantBehind, TypeOK,
       row, ledger, provider, handlers, counters
  <1> QED BY <1>1, <1>2, <1>3, <1>4, <1>5, <1>6, <1>7, <1>8, <1>9, <1>10,
     <1>11, <1>12, <1>13, <1>14, <1>15, <1>16, <1>17, <1>18, <1>19, <1>20,
     <1>21, <1>22, <1>23, <1>24, <1>25, <1>26, <1>27, <1>28, <1>29, <1>30,
     <1>31, <1>32 DEF Next, StartStep, HandlerStep, CreateStep, PaymentStep,
     FulfilStep, Environment

\* A recorded payment stays recorded.
LEMMA RecordedStatusStep ==
  ASSUME TypeOK, OwnsNewOrder, RecordedStatus, Next
  PROVE  RecordedStatus' /\ RecordedStep
  <1>0. TypeOK'
    BY TypeStep
  <1>1. ASSUME NEW p \in Procs, NEW o \in Orders, StartCreate(p, o) PROVE RecordedStatus' /\ RecordedStep
    BY <1>1, <1>0 DEF StartCreate, Start, OwnsNewOrder, RecordedStatus,
       RecordedStep, Unpaid, TypeOK, row, ledger, provider, handlers, counters
  <1>2. ASSUME NEW p \in Procs, NEW o \in Orders, StartCancel(p, o) PROVE RecordedStatus' /\ RecordedStep
    BY <1>2, <1>0 DEF StartCancel, Start, OwnsNewOrder, RecordedStatus,
       RecordedStep, Unpaid, TypeOK, row, ledger, provider, handlers, counters
  <1>3. ASSUME NEW p \in Procs, NEW o \in Orders, StartVerify(p, o) PROVE RecordedStatus' /\ RecordedStep
    BY <1>3, <1>0 DEF StartVerify, Start, OwnsNewOrder, RecordedStatus,
       RecordedStep, Unpaid, TypeOK, row, ledger, provider, handlers, counters
  <1>4. ASSUME NEW p \in Procs, NEW o \in Orders, StartRetry(p, o) PROVE RecordedStatus' /\ RecordedStep
    BY <1>4, <1>0 DEF StartRetry, Start, OwnsNewOrder, RecordedStatus,
       RecordedStep, Unpaid, TypeOK, row, ledger, provider, handlers, counters
  <1>5. ASSUME NEW p \in Procs, NEW o \in Orders, Notify(p, o) PROVE RecordedStatus' /\ RecordedStep
    BY <1>5, <1>0 DEF Notify, Start, OwnsNewOrder, RecordedStatus,
       RecordedStep, Unpaid, TypeOK, row, ledger, provider, handlers, counters
  <1>6. ASSUME NEW p \in Procs, InsertOrder(p) PROVE RecordedStatus' /\ RecordedStep
    BY <1>6, <1>0 DEF InsertOrder, Goto, Return, OwnsNewOrder, RecordedStatus,
       RecordedStep, Unpaid, TypeOK, row, ledger, provider, handlers, counters
  <1>7. ASSUME NEW p \in Procs, CallProvider(p) PROVE RecordedStatus' /\ RecordedStep
    BY <1>7, <1>0 DEF CallProvider, Goto, Return, OwnsNewOrder, RecordedStatus,
       RecordedStep, Unpaid, TypeOK, row, ledger, provider, handlers, counters
  <1>8. ASSUME NEW p \in Procs, SavePayment(p) PROVE RecordedStatus' /\ RecordedStep
    BY <1>8, <1>0 DEF SavePayment, Goto, Return, OwnsNewOrder, RecordedStatus,
       RecordedStep, Unpaid, TypeOK, row, ledger, provider, handlers, counters
  <1>9. ASSUME NEW p \in Procs, CreateFailed(p) PROVE RecordedStatus' /\ RecordedStep
    BY <1>9, <1>0 DEF CreateFailed, Goto, Return, OwnsNewOrder, RecordedStatus,
       RecordedStep, Unpaid, TypeOK, row, ledger, provider, handlers, counters
  <1>10. ASSUME NEW p \in Procs, Query(p) PROVE RecordedStatus' /\ RecordedStep
    BY <1>10, <1>0 DEF Query, Goto, Return, OwnsNewOrder, RecordedStatus,
       RecordedStep, Unpaid, TypeOK, row, ledger, provider, handlers, counters
  <1>11. ASSUME NEW p \in Procs, ClosePayment(p) PROVE RecordedStatus' /\ RecordedStep
    BY <1>11, <1>0 DEF ClosePayment, Goto, Return, OwnsNewOrder,
       RecordedStatus, RecordedStep, Unpaid, TypeOK, row, ledger, provider,
       handlers, counters
  <1>12. ASSUME NEW p \in Procs, CancelPending(p) PROVE RecordedStatus' /\ RecordedStep
    BY <1>12, <1>0 DEF CancelPending, Goto, Return, OwnsNewOrder,
       RecordedStatus, RecordedStep, Unpaid, TypeOK, row, ledger, provider,
       handlers, counters
  <1>13. ASSUME NEW p \in Procs, Confirm(p) PROVE RecordedStatus' /\ RecordedStep
    BY <1>13, <1>0 DEF Confirm, Goto, Return, OwnsNewOrder, RecordedStatus,
       RecordedStep, Unpaid, TypeOK, row, ledger, provider, handlers, counters
  <1>14. ASSUME NEW p \in Procs, ToPaid(p) PROVE RecordedStatus' /\ RecordedStep
    BY <1>14, <1>0 DEF ToPaid, Goto, Return, OwnsNewOrder, RecordedStatus,
       RecordedStep, Unpaid, TypeOK, row, ledger, provider, handlers, counters
  <1>15. ASSUME NEW p \in Procs, Already(p) PROVE RecordedStatus' /\ RecordedStep
    BY <1>15, <1>0 DEF Already, Goto, Return, OwnsNewOrder, RecordedStatus,
       RecordedStep, Unpaid, TypeOK, row, ledger, provider, handlers, counters
  <1>16. ASSUME NEW p \in Procs, RetryReset(p) PROVE RecordedStatus' /\ RecordedStep
    BY <1>16, <1>0 DEF RetryReset, Goto, Return, OwnsNewOrder, RecordedStatus,
       RecordedStep, Unpaid, TypeOK, row, ledger, provider, handlers, counters
  <1>17. ASSUME NEW p \in Procs, Execute(p) PROVE RecordedStatus' /\ RecordedStep
    BY <1>17, <1>0 DEF Execute, Goto, Return, OwnsNewOrder, RecordedStatus,
       RecordedStep, Unpaid, TypeOK, row, ledger, provider, handlers, counters
  <1>18. ASSUME NEW p \in Procs, Lock(p) PROVE RecordedStatus' /\ RecordedStep
    BY <1>18, <1>0 DEF Lock, Goto, Return, OwnsNewOrder, RecordedStatus,
       RecordedStep, Unpaid, TypeOK, row, ledger, provider, handlers, counters
  <1>19. ASSUME NEW p \in Procs, Lookup(p) PROVE RecordedStatus' /\ RecordedStep
    BY <1>19, <1>0 DEF Lookup, Goto, Return, OwnsNewOrder, RecordedStatus,
       RecordedStep, Unpaid, TypeOK, row, ledger, provider, handlers, counters
  <1>20. ASSUME NEW p \in Procs, CreateCode(p) PROVE RecordedStatus' /\ RecordedStep
    BY <1>20, <1>0 DEF CreateCode, Goto, Return, OwnsNewOrder, RecordedStatus,
       RecordedStep, Unpaid, TypeOK, row, ledger, provider, handlers, counters
  <1>21. ASSUME NEW p \in Procs, Redeem(p) PROVE RecordedStatus' /\ RecordedStep
    BY <1>21, <1>0 DEF Redeem, Goto, Return, OwnsNewOrder, RecordedStatus,
       RecordedStep, Unpaid, TypeOK, row, ledger, provider, handlers, counters
  <1>22. ASSUME NEW p \in Procs, ApplyRebate(p) PROVE RecordedStatus' /\ RecordedStep
    BY <1>22, <1>0 DEF ApplyRebate, Goto, Return, OwnsNewOrder, RecordedStatus,
       RecordedStep, Unpaid, TypeOK, row, ledger, provider, handlers, counters
  <1>23. ASSUME NEW p \in Procs, CheckSubscription(p) PROVE RecordedStatus' /\ RecordedStep
    BY <1>23, <1>0 DEF CheckSubscription, Goto, Return, OwnsNewOrder,
       RecordedStatus, RecordedStep, Unpaid, TypeOK, row, ledger, provider,
       handlers, counters
  <1>24. ASSUME NEW p \in Procs, AssignSubscription(p) PROVE RecordedStatus' /\ RecordedStep
    BY <1>24, <1>0 DEF AssignSubscription, Goto, Return, OwnsNewOrder,
       RecordedStatus, RecordedStep, Unpaid, TypeOK, row, ledger, provider,
       handlers, counters
  <1>25. ASSUME NEW p \in Procs, Complete(p) PROVE RecordedStatus' /\ RecordedStep
    BY <1>25, <1>0 DEF Complete, Goto, Return, OwnsNewOrder, RecordedStatus,
       RecordedStep, Unpaid, TypeOK, row, ledger, provider, handlers, counters
  <1>26. ASSUME NEW p \in Procs, WriteSuccess(p) PROVE RecordedStatus' /\ RecordedStep
    BY <1>26, <1>0 DEF WriteSuccess, Goto, Return, OwnsNewOrder,
       RecordedStatus, RecordedStep, Unpaid, TypeOK, row, ledger, provider,
       handlers, counters
  <1>27. ASSUME NEW p \in Procs, MarkFailed(p) PROVE RecordedStatus' /\ RecordedStep
    BY <1>27, <1>0 DEF MarkFailed, Goto, Return, OwnsNewOrder, RecordedStatus,
       RecordedStep, Unpaid, TypeOK, row, ledger, provider, handlers, counters
  <1>28. ASSUME NEW p \in Procs, Crash(p) PROVE RecordedStatus' /\ RecordedStep
    BY <1>28, <1>0 DEF Crash, OwnsNewOrder, RecordedStatus, RecordedStep,
       Unpaid, TypeOK, row, ledger, provider, handlers, counters
  <1>29. ASSUME NEW o \in Orders, Pay(o) PROVE RecordedStatus' /\ RecordedStep
    BY <1>29, <1>0 DEF Pay, OwnsNewOrder, RecordedStatus, RecordedStep, Unpaid,
       TypeOK, row, ledger, provider, handlers, counters
  <1>30. ASSUME NEW o \in Orders, GracePasses(o) PROVE RecordedStatus' /\ RecordedStep
    BY <1>30, <1>0 DEF GracePasses, OwnsNewOrder, RecordedStatus, RecordedStep,
       Unpaid, TypeOK, row, ledger, provider, handlers, counters
  <1>31. ASSUME NEW o \in Orders, EnterRefund(o) PROVE RecordedStatus' /\ RecordedStep
    BY <1>31, <1>0 DEF EnterRefund, OwnsNewOrder, RecordedStatus, RecordedStep,
       Unpaid, TypeOK, row, ledger, provider, handlers, counters
  <1>32. ASSUME NEW o \in Orders, RestoreCompleted(o) PROVE RecordedStatus' /\ RecordedStep
    BY <1>32, <1>0 DEF RestoreCompleted, OwnsNewOrder, RecordedStatus,
       RecordedStep, Unpaid, TypeOK, row, ledger, provider, handlers, counters
  <1> QED BY <1>1, <1>2, <1>3, <1>4, <1>5, <1>6, <1>7, <1>8, <1>9, <1>10,
     <1>11, <1>12, <1>13, <1>14, <1>15, <1>16, <1>17, <1>18, <1>19, <1>20,
     <1>21, <1>22, <1>23, <1>24, <1>25, <1>26, <1>27, <1>28, <1>29, <1>30,
     <1>31, <1>32 DEF Next, StartStep, HandlerStep, CreateStep, PaymentStep,
     FulfilStep, Environment

\* The parts together, the step that changes nothing included.
LEMMA PaymentInvStep == PaymentInv /\ [Next]_vars => PaymentInv'
  <1> SUFFICES ASSUME PaymentInv, [Next]_vars PROVE PaymentInv'
    OBVIOUS
  <1>1. CASE Next
    <2>1. TypeOK' /\ OwnsNewOrder'
      BY <1>1, TypeStep, OwnsNewOrderStep DEF PaymentInv
    <2>2. BranchOfKind' /\ CodeRecordsCredit'
      BY <1>1, BranchOfKindStep, CodeRecordsCreditStep DEF PaymentInv
    <2>3. PaymentBehind' /\ GrantBehind'
      BY <1>1, PaymentBehindStep, GrantBehindStep DEF PaymentInv
    <2>4. RecordedStatus'
      BY <1>1, RecordedStatusStep DEF PaymentInv
    <2> QED BY <2>1, <2>2, <2>3, <2>4 DEF PaymentInv
  <1>2. CASE UNCHANGED vars
    BY <1>2 DEF vars, row, ledger, provider, handlers, counters, PaymentInv, TypeOK,
         OwnsNewOrder, BranchOfKind, CodeRecordsCredit, PaymentBehind, GrantBehind,
         RecordedStatus
  <1> QED BY <1>1, <1>2

\* The invariant holds at the start.
LEMMA PaymentInvInit == Init => PaymentInv
  <1> SUFFICES ASSUME Init PROVE PaymentInv
    OBVIOUS
  <1>1. TypeOK
    BY TypeInit
  <1>2. OwnsNewOrder
    BY DEF Init, OwnsNewOrder
  <1>3. BranchOfKind /\ PaymentBehind
    BY DEF Init, BranchOfKind, PaymentBehind, AfterPayment, Holding
  <1>4. CodeRecordsCredit
    BY DEF Init, CodeRecordsCredit
  <1>5. GrantBehind
    BY DEF Init, GrantBehind
  <1>6. RecordedStatus
    BY DEF Init, RecordedStatus
  <1> QED BY <1>1, <1>2, <1>3, <1>4, <1>5, <1>6 DEF PaymentInv

-----------------------------------------------------------------------------
(* The theorems *)

\* Every reachable state satisfies the inductive invariant.
THEOREM PaymentInvariant == Spec => []PaymentInv
  BY PaymentInvInit, PaymentInvStep, PTL DEF Spec

\* Every variable of the component keeps its type.
THEOREM TypeCorrect == Spec => []TypeOK
  <1>1. PaymentInv => TypeOK
    BY DEF PaymentInv
  <1> QED BY <1>1, PaymentInvariant, PTL

\* A balance order is credited at most once and its inviter rebated at most
\* once, whatever fails and whoever retries (doBalance, Redeem,
\* tryClaimAffiliateRebateAudit).
THEOREM CreditedOnce == Spec => []BalanceCreditedOnce
  <1>1. PaymentInv => BalanceCreditedOnce
    BY DEF PaymentInv, CodeRecordsCredit, BalanceCreditedOnce, TypeOK
  <1> QED BY <1>1, PaymentInvariant, PTL

\* No value is given for an order that was not paid in full (confirmPayment,
\* toPaid, RetryFulfillment).
THEOREM CreditNeedsPayment == Spec => []CreditOnlyIfPaid
  <1>1. PaymentInv => CreditOnlyIfPaid
    BY DEF PaymentInv, PaymentBehind, CreditOnlyIfPaid
  <1> QED BY <1>1, PaymentInvariant, PTL

\* A COMPLETED or refunded order has had its value, and a rebate follows it
\* (markCompleted, doBalance).
THEOREM CompletionFollowsCredit == Spec => []CompletedIsCredited
  <1>1. PaymentInv => CompletedIsCredited
    BY DEF PaymentInv, GrantBehind, CompletedIsCredited
  <1> QED BY <1>1, PaymentInvariant, PTL

\* No cancellation or time-out takes a recorded payment back (cancelCore).
THEOREM PaymentStaysRecorded == Spec => RecordedStaysRecorded
  <1>1. PaymentInv /\ [Next]_vars => [RecordedStep]_vars
    BY RecordedStatusStep DEF PaymentInv
  <1> QED BY <1>1, PaymentInvariant, PTL DEF Spec, RecordedStaysRecorded

\* What the ledger sees, unchanged.
LEMMA Invisible ==
  ASSUME UNCHANGED <<kind, granted, rebated, upstream>>
  PROVE  UNCHANGED Ledger!vars
  BY DEF Ledger!vars, OfBalance

\* A step of the component is a payment, a credit, a rebate, or invisible.
LEMMA LedgerStep ==
  ASSUME PaymentInv, Next
  PROVE  Ledger!Next \/ UNCHANGED Ledger!vars
  <1> DEFINE Goal == Ledger!Next \/ UNCHANGED Ledger!vars
  <1> USE DEF PaymentInv
  <1>1. ASSUME NEW p \in Procs, StartStep(p) PROVE Goal
    BY <1>1, Invisible DEF StartStep, StartCreate, StartCancel, StartVerify, StartRetry,
         Notify, Start, row, ledger, provider
  <1>2. ASSUME NEW p \in Procs, InsertOrder(p) PROVE Goal
    BY <1>2 DEF InsertOrder, OwnsNewOrder, TypeOK, OfBalance, Ledger!vars, ledger
  <1>3. ASSUME NEW p \in Procs, CallProvider(p) PROVE Goal
    BY <1>3 DEF CallProvider, OwnsNewOrder, TypeOK, OfBalance, Ledger!vars, row, ledger
  <1>4. ASSUME NEW p \in Procs, SavePayment(p) PROVE Goal
    BY <1>4 DEF SavePayment, TypeOK, OfBalance, Ledger!vars, row, ledger
  <1>5. ASSUME NEW p \in Procs, ClosePayment(p) PROVE Goal
    BY <1>5 DEF ClosePayment, TypeOK, OfBalance, Ledger!vars, row, ledger
  <1>6. ASSUME NEW p \in Procs, Redeem(p) PROVE Goal
    <2>1. CASE UNCHANGED granted
      BY <1>6, <2>1, Invisible DEF Redeem, row
    <2>2. CASE code[cur[p]] = "unused" /\ granted' = [granted EXCEPT ![cur[p]] = @ + 1]
      <3>1. /\ cur[p] \in Orders /\ kind[cur[p]] = "balance" /\ granted[cur[p]] = 0
            /\ upstream[cur[p]] = "paid"
        BY <1>6, <2>2 DEF Redeem, TypeOK, BranchOfKind, CodeRecordsCredit, PaymentBehind,
             AfterPayment, Holding
      <3>2. UNCHANGED <<kind, rebated, upstream>>
        BY <1>6 DEF Redeem, row
      <3>3. granted' = [granted EXCEPT ![cur[p]] = 1]
        BY <2>2, <3>1
      <3>4. OfBalance(granted)' = [OfBalance(granted) EXCEPT ![cur[p]] = 1]
        BY <3>1, <3>2, <3>3 DEF OfBalance, TypeOK
      <3>5. UNCHANGED OfBalance(rebated)
        BY <3>2 DEF OfBalance
      <3>6. Ledger!Credit(cur[p])
        BY <3>1, <3>2, <3>4, <3>5 DEF Ledger!Credit, OfBalance
      <3> QED BY <3>1, <3>6 DEF Ledger!Next
    <2> QED BY <1>6, <2>1, <2>2 DEF Redeem
  <1>7. ASSUME NEW p \in Procs, ApplyRebate(p) PROVE Goal
    <2>1. CASE UNCHANGED rebated
      BY <1>7, <2>1, Invisible DEF ApplyRebate, row
    <2>2. CASE /\ "REBATE" \notin audit[cur[p]]
               /\ rebated' = [rebated EXCEPT ![cur[p]] = @ + 1]
      <3>1. /\ cur[p] \in Orders /\ kind[cur[p]] = "balance" /\ rebated[cur[p]] = 0
            /\ granted[cur[p]] = 1
        BY <1>7, <2>2 DEF ApplyRebate, TypeOK, BranchOfKind, CodeRecordsCredit, GrantBehind
      <3>2. UNCHANGED <<kind, granted, upstream>>
        BY <1>7 DEF ApplyRebate, row
      <3>3. rebated' = [rebated EXCEPT ![cur[p]] = 1]
        BY <2>2, <3>1
      <3>4. OfBalance(rebated)' = [OfBalance(rebated) EXCEPT ![cur[p]] = 1]
        BY <3>1, <3>2, <3>3 DEF OfBalance, TypeOK
      <3>5. UNCHANGED OfBalance(granted)
        BY <3>2 DEF OfBalance
      <3>6. Ledger!Rebate(cur[p])
        BY <3>1, <3>2, <3>4, <3>5 DEF Ledger!Rebate, OfBalance
      <3> QED BY <3>1, <3>6 DEF Ledger!Next
    <2> QED BY <1>7, <2>1, <2>2 DEF ApplyRebate
  <1>8. ASSUME NEW p \in Procs, AssignSubscription(p) PROVE Goal
    BY <1>8 DEF AssignSubscription, BranchOfKind, TypeOK, OfBalance, Ledger!vars, row
  <1>9. ASSUME NEW p \in Procs,
               \/ CreateFailed(p)
               \/ Query(p)
               \/ CancelPending(p)
               \/ Confirm(p)
               \/ ToPaid(p)
               \/ Already(p)
               \/ RetryReset(p)
               \/ Execute(p)
               \/ Lock(p)
               \/ Lookup(p)
               \/ CreateCode(p)
               \/ CheckSubscription(p)
               \/ Complete(p)
               \/ WriteSuccess(p)
               \/ MarkFailed(p)
        PROVE  Goal
    BY <1>9, Invisible DEF CreateFailed, Query, CancelPending, Confirm, ToPaid,
       Already, RetryReset, Execute, Lock, Lookup, CreateCode,
       CheckSubscription, Complete, WriteSuccess, MarkFailed, Goto, Return,
       row, ledger, provider
  <1>10. ASSUME NEW p \in Procs, Crash(p) PROVE Goal
    BY <1>10, Invisible DEF Crash, row, ledger, provider
  <1>11. ASSUME NEW o \in Orders, Pay(o) PROVE Goal
    <2>1. CASE upstream' = [upstream EXCEPT ![o] = "paid"]
      <3>1. Ledger!Pay(o)
        BY <1>11, <2>1 DEF Pay, Ledger!Pay, TypeOK, OfBalance, row, ledger
      <3> QED BY <3>1 DEF Ledger!Next
    <2>2. CASE upstream' = [upstream EXCEPT ![o] = "mispaid"]
      BY <1>11, <2>2 DEF Pay, Ledger!vars, TypeOK, OfBalance, row, ledger
    <2> QED BY <1>11, <2>1, <2>2 DEF Pay
  <1>12. ASSUME NEW o \in Orders, GracePasses(o) \/ EnterRefund(o) \/ RestoreCompleted(o)
         PROVE  Goal
    BY <1>12, Invisible DEF GracePasses, EnterRefund, RestoreCompleted, ledger, provider
  <1> QED BY <1>1, <1>2, <1>3, <1>4, <1>5, <1>6, <1>7, <1>8, <1>9, <1>10, <1>11, <1>12
          DEF Next, HandlerStep, CreateStep, PaymentStep, FulfilStep, Environment

\* The component implements OrderLedger for the orders that top up a balance.
THEOREM Implementation == Spec => ImplementsLedger
  <1>1. Init => Ledger!Init
    BY DEF Init, Ledger!Init, OfBalance
  <1>2. PaymentInv /\ [Next]_vars => [Ledger!Next]_(Ledger!vars)
    BY LedgerStep, Invisible DEF vars, row, ledger, provider
  <1> QED BY <1>1, <1>2, PaymentInvariant, PTL DEF Spec, ImplementsLedger, Ledger!Spec

-----------------------------------------------------------------------------
(* The lock and the acknowledgement, until a statement fails *)

\* RECHARGING is the lock: whoever fulfils an order finds it in that state, and alone.
Locked ==
  /\ \A p \in Procs : pc[p] \in Holding => status[cur[p]] = "RECHARGING"
  /\ \A p, q \in Procs :
       p # q /\ pc[p] \in Holding /\ pc[q] \in Holding => cur[p] # cur[q]

\* An order the provider refused cannot be paid: nobody else creates it, and the update
\* by id of CreateOrder's error path meets no lock.
Refused ==
  \A p \in Procs : pc[p] = "createfail" =>
    /\ upstream[cur[p]] = "none"
    /\ \A q \in Procs : q # p /\ cur[q] = cur[p] => pc[q] # "call"

\* A subscription that was extended is complete, or about to be.
ExtendedOnce ==
  \A o \in Orders : kind[o] = "subscription" /\ granted[o] > 0 =>
    /\ granted[o] = 1
    /\ status[o] \in {"RECHARGING", "COMPLETED", "REFUND"}
    /\ \A p \in Procs : pc[p] \in Holding /\ cur[p] = o => pc[p] = "complete"

LockInv == faults = 0 => Locked /\ Refused /\ ExtendedOnce

\* Which handlers answer a notification.
OpOfBranch ==
  \A p \in Procs :
    /\ pc[p] \in {"insert", "call", "save", "createfail"} => op[p] = "create"
    /\ pc[p] \in {"query", "close", "cancelcas"} => op[p] \in {"cancel", "verify"}

\* The states of an order whose payment no handler has seen.
Unseen == {"NONE", "PENDING", "CANCELLED"}

\* Whoever is past toPaid works on an order that has left those states.
Seen ==
  \A p \in Procs : pc[p] \in AfterPayment \ {"topaid"} => status[cur[p]] \notin Unseen

AckInv == OpOfBranch /\ Seen /\ AckedIsRecorded

\* A step without a fault follows steps without a fault.
LEMMA FaultsGrow == TypeOK /\ Next => faults' >= faults
  <1> SUFFICES ASSUME TypeOK, Next PROVE faults' >= faults
    OBVIOUS
  <1>0. faults \in Nat
    BY ConstantsAssumption DEF TypeOK
  <1>1. ASSUME NEW p \in Procs, StartStep(p) PROVE faults' >= faults
    BY <1>0, <1>1 DEF StartStep, StartCreate, StartCancel, StartVerify, StartRetry,
       Notify, Start, counters
  <1>2. ASSUME NEW p \in Procs, CreateStep(p) PROVE faults' >= faults
    BY <1>0, <1>2 DEF CreateStep, InsertOrder, CallProvider, SavePayment, CreateFailed,
       Statement, Goto, Return
  <1>3. ASSUME NEW p \in Procs, PaymentStep(p) PROVE faults' >= faults
    BY <1>0, <1>3 DEF PaymentStep, Query, ClosePayment, CancelPending, Confirm, ToPaid,
       Already, Statement, Read, Goto, Return, counters
  <1>4. ASSUME NEW p \in Procs, FulfilStep(p) PROVE faults' >= faults
    BY <1>0, <1>4 DEF FulfilStep, RetryReset, Execute, Lock, Lookup, CreateCode, Redeem,
       ApplyRebate, CheckSubscription, AssignSubscription, Complete, WriteSuccess,
       MarkFailed, Statement, Read, Goto, Return
  <1>5. ASSUME NEW p \in Procs, Crash(p) PROVE faults' >= faults
    BY <1>0, <1>5 DEF Crash
  <1>6. ASSUME NEW o \in Orders, Environment(o) PROVE faults' >= faults
    BY <1>0, <1>6 DEF Environment, Pay, GracePasses, EnterRefund, RestoreCompleted,
       counters
  <1> QED BY <1>1, <1>2, <1>3, <1>4, <1>5, <1>6 DEF Next, HandlerStep


\* A statement that reports no failure was applied.
LEMMA OneFault ==
  ASSUME NEW applied \in BOOLEAN, NEW failed \in BOOLEAN, Statement(applied, failed),
         faults = 0, faults' = 0
  PROVE  applied /\ ~failed
  BY DEF Statement

\* Where a handler's step takes it: to a label of S, or back to its caller.
Moves(p, S) ==
  \/ \E l \in S : Goto(p, l)
  \/ Return(p, TRUE) \/ Return(p, FALSE)

\* The other handlers stay where they are, and the handler keeps its order or is idle.
LEMMA Moved ==
  ASSUME TypeOK, NEW p \in Procs, NEW S, Moves(p, S)
  PROVE  /\ \A q \in Procs \ {p} : pc'[q] = pc[q] /\ cur'[q] = cur[q] /\ op'[q] = op[q]
         /\ \/ pc'[p] \in S /\ cur'[p] = cur[p] /\ op'[p] = op[p]
            \/ pc'[p] = "idle"
         /\ acked' = acked \/ acked' = [acked EXCEPT ![cur[p]] = TRUE]
  <1>1. CASE \E l \in S : Goto(p, l)
    BY <1>1 DEF Goto, TypeOK
  <1>2. CASE Return(p, TRUE)
    BY <1>2 DEF Return, TypeOK
  <1>3. CASE Return(p, FALSE)
    BY <1>3 DEF Return, TypeOK
  <1> QED BY <1>1, <1>2, <1>3 DEF Moves

\* The steps before the lock, and the last one, lead to no label under the lock.
LEMMA OutsideMoves ==
  ASSUME NEW p \in Procs,
         \/ CreateStep(p) \/ PaymentStep(p) \/ RetryReset(p) \/ Execute(p)
         \/ WriteSuccess(p) \/ MarkFailed(p)
  PROVE  Moves(p, Labels \ Holding)
  <1> USE DEF Moves, Labels, Holding
  <1>1. CASE CreateStep(p)
    BY <1>1 DEF CreateStep, InsertOrder, CallProvider, SavePayment, CreateFailed
  <1>2. CASE Query(p)
    BY <1>2 DEF Query
  <1>3. CASE ClosePayment(p) \/ CancelPending(p) \/ ToPaid(p)
    BY <1>3 DEF ClosePayment, CancelPending, ToPaid
  <1>4. CASE Confirm(p)
    BY <1>4 DEF Confirm
  <1>5. CASE Already(p)
    BY <1>5 DEF Already
  <1>6. CASE RetryReset(p)
    BY <1>6 DEF RetryReset
  <1>7. CASE Execute(p)
    BY <1>7 DEF Execute
  <1>8. CASE WriteSuccess(p) \/ MarkFailed(p)
    BY <1>8 DEF WriteSuccess, MarkFailed
  <1> QED BY <1>1, <1>2, <1>3, <1>4, <1>5, <1>6, <1>7, <1>8 DEF PaymentStep

\* Labels of a handler that creates, cancels or verifies an order.
Early == {"insert", "call", "save", "createfail", "query", "close", "cancelcas"}

\* The steps from the error path of CreateOrder and from the provider's answer lead to
\* the cancellation or to the confirmation,
LEMMA QueryMoves ==
  ASSUME NEW p \in Procs,
         CreateFailed(p) \/ Query(p) \/ ClosePayment(p) \/ CancelPending(p)
  PROVE  Moves(p, {"close", "cancelcas", "confirm"})
  <1> USE DEF Moves
  <1>1. CASE CreateFailed(p) \/ ClosePayment(p) \/ CancelPending(p)
    BY <1>1 DEF CreateFailed, ClosePayment, CancelPending
  <1>2. CASE Query(p)
    BY <1>2 DEF Query
  <1> QED BY <1>1, <1>2

\* and no later step leads back to those before the confirmation.
LEMMA LaterMoves ==
  ASSUME NEW p \in Procs, Confirm(p) \/ ToPaid(p) \/ Already(p) \/ FulfilStep(p)
  PROVE  Moves(p, Labels \ Early)
  <1> USE DEF Moves, Labels, Early
  <1>1. CASE Confirm(p)
    BY <1>1 DEF Confirm
  <1>2. CASE ToPaid(p)
    BY <1>2 DEF ToPaid
  <1>3. CASE Already(p)
    BY <1>3 DEF Already
  <1>4. CASE RetryReset(p)
    BY <1>4 DEF RetryReset
  <1>5. CASE Execute(p)
    BY <1>5 DEF Execute
  <1>6. CASE Lock(p)
    BY <1>6 DEF Lock
  <1>7. CASE \/ Lookup(p) \/ CreateCode(p) \/ Redeem(p) \/ ApplyRebate(p)
             \/ CheckSubscription(p) \/ AssignSubscription(p)
    BY <1>7 DEF Lookup, CreateCode, Redeem, ApplyRebate, CheckSubscription,
       AssignSubscription
  <1>8. CASE Complete(p) \/ WriteSuccess(p) \/ MarkFailed(p)
    BY <1>8 DEF Complete, WriteSuccess, MarkFailed
  <1> QED BY <1>1, <1>2, <1>3, <1>4, <1>5, <1>6, <1>7, <1>8 DEF FulfilStep

\* RECHARGING stays with the one handler that has moved the order there.
LEMMA LockedStep ==
  ASSUME PaymentInv, Locked, Refused, Next, faults = 0, faults' = 0
  PROVE  Locked'
  <1> USE DEF PaymentInv
  <1>0. TypeOK'
    BY TypeStep
  <1>1. ASSUME NEW p \in Procs, StartStep(p) PROVE Locked'
    BY <1>0, <1>1 DEF StartStep, StartCreate, StartCancel, StartVerify, StartRetry,
       Notify, Start, Locked, Holding, TypeOK, row
  <1>2. ASSUME NEW p \in Procs,
               \/ CreateStep(p) \/ PaymentStep(p) \/ RetryReset(p) \/ Execute(p)
               \/ WriteSuccess(p)
        PROVE  Locked'
    <2>1. Moves(p, Labels \ Holding)
      BY <1>2, OutsideMoves
    <2>2. /\ pc'[p] \notin Holding
          /\ \A q \in Procs \ {p} : pc'[q] = pc[q] /\ cur'[q] = cur[q]
      BY <2>1, Moved DEF Holding
    <2>3. \A q \in Procs : pc[q] \in Holding => status'[cur[q]] = "RECHARGING"
      <3>1. CASE CreateFailed(p)
        <4>1. pc[p] = "createfail" /\ cur[p] \in Orders
          BY <3>1 DEF CreateFailed, TypeOK
        <4>2. upstream[cur[p]] = "none"
          BY <4>1 DEF Refused
        <4>3. status' = status \/ status' = [status EXCEPT ![cur[p]] = "FAILED"]
          BY <3>1 DEF CreateFailed
        <4>4. \A q \in Procs : pc[q] \in Holding => cur[q] # cur[p]
          BY <4>2 DEF PaymentBehind, AfterPayment
        <4> QED BY <4>1, <4>3, <4>4 DEF Locked, Holding, TypeOK
      <3>2. CASE InsertOrder(p)
        BY <3>2 DEF InsertOrder, OwnsNewOrder, Locked, Holding, TypeOK
      <3>3. CASE CancelPending(p) \/ ToPaid(p) \/ RetryReset(p)
        BY <3>3 DEF CancelPending, ToPaid, RetryReset, Payable, Locked, Holding, TypeOK
      <3>4. CASE \/ CallProvider(p) \/ SavePayment(p) \/ Query(p) \/ ClosePayment(p)
                 \/ Confirm(p) \/ Already(p) \/ Execute(p) \/ WriteSuccess(p)
        BY <3>4 DEF CallProvider, SavePayment, Query, ClosePayment, Confirm, Already,
           Execute, WriteSuccess, row, Locked
      <3> QED BY <1>2, <3>1, <3>2, <3>3, <3>4 DEF CreateStep, PaymentStep
    <2> QED BY <2>2, <2>3 DEF Locked, TypeOK
  <1>3. ASSUME NEW p \in Procs, Lock(p) PROVE Locked'
    <2>1. pc[p] = "lock" /\ cur[p] \in Orders
      BY <1>3 DEF Lock, TypeOK
    <2>2. CASE status[cur[p]] \in {"PAID", "FAILED"}
      <3>1. /\ status' = [status EXCEPT ![cur[p]] = "RECHARGING"]
            /\ Goto(p, IF kind[cur[p]] = "balance" THEN "lookup" ELSE "hasaudit")
        BY <1>3, <2>2 DEF Lock, Statement
      <3>2. \A q \in Procs : pc[q] \in Holding => cur[q] # cur[p]
        BY <2>2 DEF Locked
      <3> QED BY <2>1, <3>1, <3>2 DEF Goto, Locked, TypeOK
    <2>3. CASE status[cur[p]] \notin {"PAID", "FAILED"}
      <3>1. UNCHANGED status /\ (Return(p, TRUE) \/ Return(p, FALSE))
        BY <1>3, <2>3 DEF Lock
      <3>2. Moves(p, {})
        BY <3>1 DEF Moves
      <3>3. /\ pc'[p] \notin Holding
            /\ \A q \in Procs \ {p} : pc'[q] = pc[q] /\ cur'[q] = cur[q]
        BY <3>2, Moved DEF Holding
      <3> QED BY <3>1, <3>3 DEF Locked
    <2> QED BY <2>2, <2>3
  <1>4. ASSUME NEW p \in Procs,
               \/ Lookup(p) \/ CreateCode(p) \/ Redeem(p) \/ ApplyRebate(p)
               \/ CheckSubscription(p) \/ AssignSubscription(p)
        PROVE  Locked'
    <2>1. pc[p] \in Holding /\ UNCHANGED status
      BY <1>4 DEF Lookup, CreateCode, Redeem, ApplyRebate, CheckSubscription,
         AssignSubscription, Holding, row
    <2>2. \E l \in Holding : Goto(p, l)
      BY <1>4 DEF Lookup, CreateCode, Redeem, ApplyRebate, CheckSubscription,
         AssignSubscription, Holding
    <2> QED BY <2>1, <2>2 DEF Goto, Locked, TypeOK
  <1>5. ASSUME NEW p \in Procs, Complete(p) \/ MarkFailed(p) PROVE Locked'
    <2>1. pc[p] \in Holding /\ cur[p] \in Orders
      BY <1>5 DEF Complete, MarkFailed, Holding, TypeOK
    <2>2. \A q \in Procs \ {p} : pc[q] \in Holding => cur[q] # cur[p]
      BY <2>1 DEF Locked
    <2>3. \E s \in Statuses : status' = status \/ status' = [status EXCEPT ![cur[p]] = s]
      BY <1>5 DEF Complete, MarkFailed, Statuses
    <2>4. Moves(p, {"success"})
      <3>1. CASE Complete(p)
        <4>1. PICK applied, failed \in BOOLEAN :
                /\ Statement(applied, failed)
                /\ Goto(p, IF failed THEN "fail" ELSE "success")
          BY <3>1 DEF Complete
        <4>2. ~failed
          BY <4>1, OneFault
        <4> QED BY <4>1, <4>2 DEF Moves
      <3>2. CASE MarkFailed(p)
        BY <3>2 DEF MarkFailed, Moves
      <3> QED BY <1>5, <3>1, <3>2
    <2>5. /\ pc'[p] \notin Holding
          /\ \A q \in Procs \ {p} : pc'[q] = pc[q] /\ cur'[q] = cur[q]
      BY <2>4, Moved DEF Holding
    <2>6. \A q \in Procs \ {p} : pc[q] \in Holding => status'[cur[q]] = status[cur[q]]
      BY <2>1, <2>2, <2>3 DEF TypeOK, Holding
    <2> QED BY <2>5, <2>6 DEF Locked
  <1>6. ASSUME NEW p \in Procs, Crash(p) PROVE Locked'
    BY <1>6 DEF Crash, Locked, Holding, TypeOK, row
  <1>7. ASSUME NEW o \in Orders, Environment(o) PROVE Locked'
    <2>1. UNCHANGED <<pc, cur>>
      BY <1>7 DEF Environment, Pay, GracePasses, EnterRefund, RestoreCompleted, handlers
    <2>2. CASE Pay(o) \/ GracePasses(o)
      BY <2>1, <2>2 DEF Pay, GracePasses, Locked, row
    <2>3. CASE EnterRefund(o)
      BY <2>1, <2>3 DEF EnterRefund, Locked, Holding, TypeOK
    <2>4. CASE RestoreCompleted(o)
      BY <2>1, <2>4 DEF RestoreCompleted, Locked, Holding, TypeOK
    <2> QED BY <1>7, <2>2, <2>3, <2>4 DEF Environment
  <1> QED BY <1>1, <1>2, <1>3, <1>4, <1>5, <1>6, <1>7 DEF Next, HandlerStep, FulfilStep

\* CreateOrder's error path, without a fault, is taken for an order nobody can pay.
LEMMA RefusedStep ==
  ASSUME PaymentInv, Refused, Next, faults = 0, faults' = 0
  PROVE  Refused'
  <1> USE DEF PaymentInv
  <1>1. ASSUME NEW p \in Procs, StartStep(p) PROVE Refused'
    BY <1>1 DEF StartStep, StartCreate, StartCancel, StartVerify, StartRetry,
       Notify, Start, Refused, TypeOK, provider
  <1>2. ASSUME NEW p \in Procs, InsertOrder(p) PROVE Refused'
    <2>1. /\ pc[p] = "insert" /\ UNCHANGED upstream
          /\ Moves(p, {"call"})
      BY <1>2 DEF InsertOrder, Moves
    <2>2. \A q \in Procs : pc[q] = "createfail" => cur[q] # cur[p]
      BY <2>1 DEF OwnsNewOrder
    <2> QED BY <2>1, <2>2, Moved DEF Refused
  <1>3. ASSUME NEW p \in Procs, CallProvider(p) PROVE Refused'
    <2>1. PICK accepted, failed \in BOOLEAN :
            /\ IF accepted THEN Statement(TRUE, failed) ELSE failed /\ faults' = faults
            /\ upstream' = IF accepted THEN [upstream EXCEPT ![cur[p]] = "created"]
                                       ELSE upstream
            /\ Goto(p, IF failed THEN "createfail" ELSE "save")
      BY <1>3 DEF CallProvider
    <2>2. pc[p] = "call" /\ cur[p] \in Orders /\ upstream[cur[p]] = "none"
      BY <1>3 DEF CallProvider, OwnsNewOrder, TypeOK
    <2>3. \A q \in Procs \ {p} :
            cur[q] = cur[p] => pc[q] # "createfail" /\ pc[q] # "call"
      BY <2>2 DEF OwnsNewOrder, Refused
    <2>4. accepted => ~failed
      BY <2>1, OneFault
    <2>5. /\ cur' = cur
          /\ pc' = [pc EXCEPT ![p] = IF accepted THEN "save" ELSE "createfail"]
      BY <2>1, <2>4 DEF Goto
    <2>6. ASSUME NEW q \in Procs, pc'[q] = "createfail"
          PROVE  /\ upstream'[cur'[q]] = "none"
                 /\ \A r \in Procs : r # q /\ cur'[r] = cur'[q] => pc'[r] # "call"
      <3>1. CASE q = p
        BY <2>1, <2>2, <2>3, <2>5, <2>6, <3>1 DEF TypeOK
      <3>2. CASE q # p
        BY <2>1, <2>2, <2>3, <2>5, <2>6, <3>2 DEF Refused, TypeOK
      <3> QED BY <3>1, <3>2
    <2> QED BY <2>6 DEF Refused
  <1>4. ASSUME NEW p \in Procs, SavePayment(p) PROVE Refused'
    <2>1. PICK applied, failed \in BOOLEAN :
            /\ Statement(applied, failed)
            /\ upstream' = IF applied /\ upstream[cur[p]] = "created"
                           THEN [upstream EXCEPT ![cur[p]] = "open"] ELSE upstream
            /\ IF failed THEN Goto(p, "createfail") ELSE Return(p, TRUE)
      BY <1>4 DEF SavePayment
    <2>2. Return(p, TRUE)
      BY <2>1, OneFault
    <2>3. \A o \in Orders : upstream[o] = "none" => upstream'[o] = "none"
      BY <2>1 DEF TypeOK
    <2>4. Moves(p, {})
      BY <2>2 DEF Moves
    <2> QED BY <2>3, <2>4, Moved DEF Refused, TypeOK
  <1>5. ASSUME NEW p \in Procs, CreateFailed(p) \/ PaymentStep(p) \/ FulfilStep(p)
        PROVE  Refused'
    <2>1. \/ Moves(p, {"close", "cancelcas", "confirm"})
          \/ Moves(p, Labels \ Early)
      BY <1>5, QueryMoves, LaterMoves DEF PaymentStep
    <2>2. \A o \in Orders : upstream[o] = "none" => upstream'[o] = "none"
      <3>1. CASE ClosePayment(p)
        BY <3>1 DEF ClosePayment, TypeOK
      <3>2. CASE ~ClosePayment(p)
        BY <1>5, <3>2 DEF CreateFailed, PaymentStep, Query, CancelPending, Confirm,
           ToPaid, Already, FulfilStep, RetryReset, Execute, Lock, Lookup, CreateCode, Redeem,
           ApplyRebate, CheckSubscription, AssignSubscription, Complete, WriteSuccess,
           MarkFailed
      <3> QED BY <3>1, <3>2
    <2>3. /\ pc'[p] \notin {"call", "createfail"}
          /\ \A q \in Procs \ {p} : pc'[q] = pc[q] /\ cur'[q] = cur[q]
      BY <2>1, Moved DEF Early
    <2> QED BY <2>2, <2>3 DEF Refused, TypeOK
  <1>6. ASSUME NEW p \in Procs, Crash(p) PROVE Refused'
    BY <1>6 DEF Crash, Refused, TypeOK, provider
  <1>7. ASSUME NEW o \in Orders, Environment(o) PROVE Refused'
    <2>1. \A i \in Orders : upstream[i] = "none" => upstream'[i] = "none"
      <3>1. CASE Pay(o)
        BY <3>1 DEF Pay, TypeOK
      <3>2. CASE ~Pay(o)
        BY <1>7, <3>2 DEF Environment, GracePasses, EnterRefund, RestoreCompleted,
           provider
      <3> QED BY <3>1, <3>2
    <2>2. UNCHANGED <<pc, cur>>
      BY <1>7 DEF Environment, Pay, GracePasses, EnterRefund, RestoreCompleted, handlers
    <2> QED BY <2>1, <2>2 DEF Refused, TypeOK
  <1> QED BY <1>1, <1>2, <1>3, <1>4, <1>5, <1>6, <1>7 DEF Next, HandlerStep, CreateStep

\* Without a fault a subscription is extended once: the handler that extends it has the
\* lock and leaves it by completing the order.
LEMMA ExtendedOnceStep ==
  ASSUME PaymentInv, Locked, Refused, ExtendedOnce, Next, faults = 0, faults' = 0
  PROVE  ExtendedOnce'
  <1> USE DEF PaymentInv
  <1>1. ASSUME NEW p \in Procs, StartStep(p) PROVE ExtendedOnce'
    BY <1>1 DEF StartStep, StartCreate, StartCancel, StartVerify, StartRetry,
       Notify, Start, ExtendedOnce, Holding, TypeOK, row, ledger
  <1>2. ASSUME NEW p \in Procs,
               \/ CreateStep(p) \/ PaymentStep(p) \/ RetryReset(p) \/ Execute(p)
               \/ WriteSuccess(p)
        PROVE  ExtendedOnce'
    <2>1. Moves(p, Labels \ Holding)
      BY <1>2, OutsideMoves
    <2>2. /\ pc'[p] \notin Holding
          /\ \A q \in Procs \ {p} : pc'[q] = pc[q] /\ cur'[q] = cur[q]
      BY <2>1, Moved DEF Holding
    <2>3. UNCHANGED granted
      BY <1>2 DEF CreateStep, InsertOrder, CallProvider, SavePayment, CreateFailed,
         PaymentStep, Query, ClosePayment, CancelPending, Confirm, ToPaid, Already,
         RetryReset, Execute, WriteSuccess, ledger
    <2>4. \A o \in Orders : granted[o] > 0 =>
            /\ kind'[o] = kind[o]
            /\ status'[o] = status[o] \/ status[o] \notin {"RECHARGING", "COMPLETED", "REFUND"}
      <3>1. CASE InsertOrder(p)
        BY <3>1 DEF InsertOrder, OwnsNewOrder, TypeOK
      <3>2. CASE CreateFailed(p)
        <4>1. pc[p] = "createfail" /\ cur[p] \in Orders
          BY <3>2 DEF CreateFailed, TypeOK
        <4>2. \A o \in Orders : granted[o] > 0 => o # cur[p]
          BY <4>1 DEF Refused, PaymentBehind
        <4> QED BY <4>1, <4>2, <3>2 DEF CreateFailed, TypeOK
      <3>3. CASE CancelPending(p) \/ ToPaid(p) \/ RetryReset(p)
        BY <3>3 DEF CancelPending, ToPaid, RetryReset, Payable, TypeOK
      <3>4. CASE \/ CallProvider(p) \/ SavePayment(p) \/ Query(p) \/ ClosePayment(p)
                 \/ Confirm(p) \/ Already(p) \/ Execute(p) \/ WriteSuccess(p)
        BY <3>4 DEF CallProvider, SavePayment, Query, ClosePayment, Confirm, Already,
           Execute, WriteSuccess, row
      <3> QED BY <1>2, <3>1, <3>2, <3>3, <3>4 DEF CreateStep, PaymentStep
    <2> QED BY <2>2, <2>3, <2>4 DEF ExtendedOnce
  <1>3. ASSUME NEW p \in Procs, Lock(p) PROVE ExtendedOnce'
    <2>1. pc[p] = "lock" /\ cur[p] \in Orders /\ UNCHANGED <<kind, granted>>
      BY <1>3 DEF Lock, TypeOK, ledger
    <2>2. CASE status[cur[p]] \in {"PAID", "FAILED"}
      <3>1. /\ status' = [status EXCEPT ![cur[p]] = "RECHARGING"]
            /\ Goto(p, IF kind[cur[p]] = "balance" THEN "lookup" ELSE "hasaudit")
        BY <1>3, <2>2 DEF Lock, Statement
      <3>2. kind[cur[p]] = "subscription" => ~(granted[cur[p]] > 0)
        BY <2>1, <2>2 DEF ExtendedOnce
      <3> QED BY <2>1, <3>1, <3>2 DEF Goto, ExtendedOnce, TypeOK
    <2>3. CASE status[cur[p]] \notin {"PAID", "FAILED"}
      <3>1. UNCHANGED status /\ (Return(p, TRUE) \/ Return(p, FALSE))
        BY <1>3, <2>3 DEF Lock
      <3>2. Moves(p, {})
        BY <3>1 DEF Moves
      <3>3. /\ pc'[p] \notin Holding
            /\ \A q \in Procs \ {p} : pc'[q] = pc[q] /\ cur'[q] = cur[q]
        BY <3>2, Moved DEF Holding
      <3> QED BY <2>1, <3>1, <3>3 DEF ExtendedOnce
    <2> QED BY <2>2, <2>3
  <1>4. ASSUME NEW p \in Procs,
               \/ Lookup(p) \/ CreateCode(p) \/ Redeem(p) \/ ApplyRebate(p)
        PROVE  ExtendedOnce'
    <2>1. /\ kind[cur[p]] = "balance" /\ cur[p] \in Orders /\ UNCHANGED <<status, kind>>
          /\ granted' = granted \/ granted' = [granted EXCEPT ![cur[p]] = @ + 1]
      BY <1>4 DEF Lookup, CreateCode, Redeem, ApplyRebate, BranchOfKind, TypeOK, row, ledger
    <2>2. \E l \in Holding : Goto(p, l)
      BY <1>4 DEF Lookup, CreateCode, Redeem, ApplyRebate, Holding
    <2> QED BY <2>1, <2>2 DEF Goto, ExtendedOnce, TypeOK
  <1>5. ASSUME NEW p \in Procs, CheckSubscription(p) PROVE ExtendedOnce'
    <2>1. /\ pc[p] = "hasaudit" /\ cur[p] \in Orders /\ UNCHANGED <<status, kind, granted>>
          /\ \E l \in Holding : Goto(p, l)
      BY <1>5 DEF CheckSubscription, TypeOK, Holding, row, ledger
    <2>2. ~(granted[cur[p]] > 0)
      BY <2>1 DEF ExtendedOnce, BranchOfKind, Holding
    <2> QED BY <2>1, <2>2 DEF Goto, ExtendedOnce, TypeOK
  <1>6. ASSUME NEW p \in Procs, AssignSubscription(p) PROVE ExtendedOnce'
    <2>1. PICK applied, failed \in BOOLEAN :
            /\ Statement(applied, failed)
            /\ granted' = IF applied THEN [granted EXCEPT ![cur[p]] = @ + 1] ELSE granted
            /\ Goto(p, IF failed THEN "fail" ELSE "complete")
      BY <1>6 DEF AssignSubscription
    <2>2. granted' = [granted EXCEPT ![cur[p]] = @ + 1] /\ Goto(p, "complete")
      BY <2>1, OneFault
    <2>3. pc[p] = "assign" /\ cur[p] \in Orders /\ UNCHANGED <<status, kind>>
      BY <1>6 DEF AssignSubscription, TypeOK, row
    <2>4. /\ status[cur[p]] = "RECHARGING"
          /\ \A q \in Procs \ {p} : pc[q] \in Holding => cur[q] # cur[p]
      BY <2>3 DEF Locked, Holding
    <2>5. granted[cur[p]] = 0
      BY <2>3 DEF ExtendedOnce, BranchOfKind, Holding, TypeOK
    <2> QED BY <2>2, <2>3, <2>4, <2>5 DEF Goto, ExtendedOnce, TypeOK
  <1>7. ASSUME NEW p \in Procs, Complete(p) PROVE ExtendedOnce'
    <2>1. PICK applied, failed \in BOOLEAN :
            /\ Statement(applied, failed)
            /\ Goto(p, IF failed THEN "fail" ELSE "success")
      BY <1>7 DEF Complete
    <2>2. Goto(p, "success")
      BY <2>1, OneFault
    <2>3. /\ cur[p] \in Orders /\ UNCHANGED <<kind, granted>>
          /\ status' = status \/ status' = [status EXCEPT ![cur[p]] = "COMPLETED"]
      BY <1>7 DEF Complete, TypeOK, ledger
    <2> QED BY <2>2, <2>3 DEF Goto, ExtendedOnce, Holding, TypeOK
  <1>8. ASSUME NEW p \in Procs, MarkFailed(p) PROVE ExtendedOnce'
    <2>1. /\ pc[p] = "fail" /\ cur[p] \in Orders /\ UNCHANGED <<kind, granted>>
          /\ status' = status \/ status' = [status EXCEPT ![cur[p]] = "FAILED"]
      BY <1>8 DEF MarkFailed, TypeOK, ledger
    <2>2. kind[cur[p]] = "subscription" => ~(granted[cur[p]] > 0)
      BY <2>1 DEF ExtendedOnce, Holding
    <2>3. Moves(p, {})
      BY <1>8 DEF MarkFailed, Moves
    <2>4. /\ pc'[p] \notin Holding
          /\ \A q \in Procs \ {p} : pc'[q] = pc[q] /\ cur'[q] = cur[q]
      BY <2>3, Moved DEF Holding
    <2> QED BY <2>1, <2>2, <2>4 DEF ExtendedOnce, TypeOK
  <1>9. ASSUME NEW p \in Procs, Crash(p) PROVE ExtendedOnce'
    BY <1>9 DEF Crash, ExtendedOnce, Holding, TypeOK, row, ledger
  <1>10. ASSUME NEW o \in Orders, Environment(o) PROVE ExtendedOnce'
    <2>1. UNCHANGED <<pc, cur, kind, granted>>
      BY <1>10 DEF Environment, Pay, GracePasses, EnterRefund, RestoreCompleted, handlers,
         row, ledger
    <2>2. CASE Pay(o) \/ GracePasses(o)
      BY <2>1, <2>2 DEF Pay, GracePasses, ExtendedOnce, row
    <2>3. CASE EnterRefund(o)
      BY <2>1, <2>3 DEF EnterRefund, ExtendedOnce, TypeOK
    <2>4. CASE RestoreCompleted(o)
      BY <2>1, <2>4 DEF RestoreCompleted, ExtendedOnce, TypeOK
    <2> QED BY <1>10, <2>2, <2>3, <2>4 DEF Environment
  <1> QED BY <1>1, <1>2, <1>3, <1>4, <1>5, <1>6, <1>7, <1>8, <1>9, <1>10
          DEF Next, HandlerStep, FulfilStep

\* A handler's step answers the request it was started for.
LEMMA OpOfBranchStep ==
  ASSUME TypeOK, OpOfBranch, Next
  PROVE  OpOfBranch'
  <1>1. ASSUME NEW p \in Procs, StartStep(p) PROVE OpOfBranch'
    BY <1>1 DEF StartStep, StartCreate, StartCancel, StartVerify, StartRetry,
       Notify, Start, OpOfBranch, TypeOK
  <1>2. ASSUME NEW p \in Procs, InsertOrder(p) \/ CallProvider(p) \/ SavePayment(p)
        PROVE  OpOfBranch'
    <2>1. /\ pc[p] \in {"insert", "call", "save"}
          /\ Moves(p, {"call", "save", "createfail"})
      BY <1>2 DEF InsertOrder, CallProvider, SavePayment, Moves
    <2> QED BY <2>1, Moved DEF OpOfBranch
  <1>3. ASSUME NEW p \in Procs, CreateFailed(p) \/ CancelPending(p) PROVE OpOfBranch'
    <2>1. Moves(p, {})
      BY <1>3 DEF CreateFailed, CancelPending, Moves
    <2> QED BY <2>1, Moved DEF OpOfBranch
  <1>4. ASSUME NEW p \in Procs, Query(p) \/ ClosePayment(p) PROVE OpOfBranch'
    <2>1. pc[p] \in {"query", "close"} /\ Moves(p, {"close", "cancelcas", "confirm"})
      BY <1>4, QueryMoves DEF Query, ClosePayment
    <2> QED BY <2>1, Moved DEF OpOfBranch
  <1>5. ASSUME NEW p \in Procs, Confirm(p) \/ ToPaid(p) \/ Already(p) \/ FulfilStep(p)
        PROVE  OpOfBranch'
    <2>1. Moves(p, Labels \ Early)
      BY <1>5, LaterMoves
    <2> QED BY <2>1, Moved DEF OpOfBranch, Early
  <1>6. ASSUME NEW p \in Procs, Crash(p) PROVE OpOfBranch'
    BY <1>6 DEF Crash, OpOfBranch, TypeOK
  <1>7. ASSUME NEW o \in Orders, Environment(o) PROVE OpOfBranch'
    BY <1>7 DEF Environment, Pay, GracePasses, EnterRefund, RestoreCompleted, handlers,
       OpOfBranch
  <1> QED BY <1>1, <1>2, <1>3, <1>4, <1>5, <1>6, <1>7
          DEF Next, HandlerStep, CreateStep, PaymentStep

\* No step takes an order back to the states in which its payment is not seen.
LEMMA StaysSeen ==
  ASSUME PaymentInv, Next, NEW o \in Orders, status[o] \notin Unseen
  PROVE  status'[o] \notin Unseen
  <1> USE DEF PaymentInv, Unseen
  <1>1. ASSUME NEW p \in Procs, InsertOrder(p) PROVE status'[o] \notin Unseen
    BY <1>1 DEF InsertOrder, OwnsNewOrder, TypeOK
  <1>2. ASSUME NEW p \in Procs,
               \/ CreateFailed(p) \/ CancelPending(p) \/ ToPaid(p) \/ RetryReset(p)
               \/ Lock(p) \/ Complete(p) \/ MarkFailed(p)
        PROVE  status'[o] \notin Unseen
    BY <1>2 DEF CreateFailed, CancelPending, ToPaid, RetryReset, Lock, Complete,
       MarkFailed, TypeOK
  <1>3. ASSUME NEW p \in Procs,
               \/ CallProvider(p) \/ SavePayment(p) \/ Query(p) \/ ClosePayment(p)
               \/ Confirm(p) \/ Already(p) \/ Execute(p) \/ Lookup(p) \/ CreateCode(p)
               \/ Redeem(p) \/ ApplyRebate(p) \/ CheckSubscription(p)
               \/ AssignSubscription(p) \/ WriteSuccess(p) \/ StartStep(p) \/ Crash(p)
        PROVE  status'[o] \notin Unseen
    BY <1>3 DEF CallProvider, SavePayment, Query, ClosePayment, Confirm, Already, Execute,
       Lookup, CreateCode, Redeem, ApplyRebate, CheckSubscription, AssignSubscription,
       WriteSuccess, StartStep, StartCreate, StartCancel, StartVerify, StartRetry, Notify,
       Start, Crash, row
  <1>4. ASSUME NEW i \in Orders, Environment(i) PROVE status'[o] \notin Unseen
    BY <1>4 DEF Environment, Pay, GracePasses, EnterRefund, RestoreCompleted, TypeOK, row
  <1> QED BY <1>1, <1>2, <1>3, <1>4
          DEF Next, HandlerStep, CreateStep, PaymentStep, FulfilStep

\* Whoever gets past toPaid leaves the order recorded.
LEMMA SeenStep ==
  ASSUME PaymentInv, Seen, Next
  PROVE  Seen'
  <1> DEFINE Late == AfterPayment \ {"topaid"}
  <1>0. \A o \in Orders : status[o] \notin Unseen => status'[o] \notin Unseen
    BY StaysSeen
  <1>t. TypeOK
    BY DEF PaymentInv
  <1>1. ASSUME NEW p \in Procs, StartStep(p) PROVE Seen'
    <2>1. ASSUME NEW o \in Orders, StartRetry(p, o) PROVE Seen'
      BY <2>1, <1>0, <1>t DEF StartRetry, Start, Seen, Unseen, AfterPayment, Holding, TypeOK
    <2>2. ASSUME NEW o \in Orders,
                 \/ StartCreate(p, o) \/ StartCancel(p, o) \/ StartVerify(p, o)
                 \/ Notify(p, o)
          PROVE  Seen'
      BY <2>2, <1>0, <1>t DEF StartCreate, StartCancel, StartVerify, Notify, Start, Seen,
         AfterPayment, Holding, TypeOK
    <2> QED BY <1>1, <2>1, <2>2 DEF StartStep
  <1>2. ASSUME NEW p \in Procs,
               \/ CreateStep(p) \/ Query(p) \/ ClosePayment(p) \/ CancelPending(p)
               \/ Confirm(p)
        PROVE  Seen'
    <2>1. Moves(p, Labels \ Late)
      <3> USE DEF Moves, Labels, AfterPayment, Holding
      <3>1. CASE CreateStep(p)
        BY <3>1 DEF CreateStep, InsertOrder, CallProvider, SavePayment, CreateFailed
      <3>2. CASE Query(p)
        BY <3>2 DEF Query
      <3>3. CASE ClosePayment(p) \/ CancelPending(p)
        BY <3>3 DEF ClosePayment, CancelPending
      <3>4. CASE Confirm(p)
        BY <3>4 DEF Confirm
      <3> QED BY <1>2, <3>1, <3>2, <3>3, <3>4
    <2>2. /\ pc'[p] \notin Late
          /\ \A q \in Procs \ {p} : pc'[q] = pc[q] /\ cur'[q] = cur[q]
      BY <2>1, <1>t, Moved DEF AfterPayment, Holding
    <2> QED BY <2>2, <1>0, <1>t DEF Seen, AfterPayment, Holding, TypeOK
  <1>3. ASSUME NEW p \in Procs, ToPaid(p) PROVE Seen'
    <2>1. PICK applied, failed \in BOOLEAN :
            /\ Statement(applied, failed)
            /\ status' = IF applied /\ Payable(cur[p])
                         THEN [status EXCEPT ![cur[p]] = "PAID"] ELSE status
            /\ IF failed THEN Return(p, FALSE)
               ELSE Goto(p, IF Payable(cur[p]) THEN "exec" ELSE "already")
      BY <1>3 DEF ToPaid
    <2>2. pc[p] = "topaid" /\ cur[p] \in Orders /\ status[cur[p]] # "NONE"
      BY <1>3 DEF ToPaid, OwnsNewOrder, TypeOK, PaymentInv
    <2>3. CASE failed
      <3>1. Moves(p, {})
        BY <2>1, <2>3 DEF Moves
      <3>2. /\ pc'[p] = "idle"
            /\ \A q \in Procs \ {p} : pc'[q] = pc[q] /\ cur'[q] = cur[q]
        BY <3>1, <1>t, Moved
      <3> QED BY <3>2, <1>0, <1>t DEF Seen, AfterPayment, Holding, TypeOK
    <2>4. CASE ~failed
      <3>1. applied
        BY <2>1, <2>4 DEF Statement
      <3>2. status'[cur[p]] \notin Unseen
        BY <2>1, <2>2, <3>1, <1>t DEF Payable, Unseen, TypeOK
      <3>3. Goto(p, IF Payable(cur[p]) THEN "exec" ELSE "already")
        BY <2>1, <2>4
      <3>4. /\ cur' = cur
            /\ \A q \in Procs \ {p} : pc'[q] = pc[q]
        BY <3>3, <1>t DEF Goto, TypeOK
      <3> QED BY <3>2, <3>4, <1>0, <1>t DEF Seen, AfterPayment, Holding, TypeOK
    <2> QED BY <2>3, <2>4
  <1>4. ASSUME NEW p \in Procs, Already(p) \/ FulfilStep(p) PROVE Seen'
    <2>1. pc[p] \in Late
      BY <1>4 DEF Already, FulfilStep, RetryReset, Execute, Lock, Lookup, CreateCode,
         Redeem, ApplyRebate, CheckSubscription, AssignSubscription, Complete,
         WriteSuccess, MarkFailed, AfterPayment, Holding
    <2>2. Moves(p, Labels \ Early)
      BY <1>4, LaterMoves
    <2>3. /\ cur'[p] = cur[p] \/ pc'[p] = "idle"
          /\ \A q \in Procs \ {p} : pc'[q] = pc[q] /\ cur'[q] = cur[q]
      BY <2>2, <1>t, Moved
    <2> QED BY <2>1, <2>3, <1>0, <1>t DEF Seen, AfterPayment, Holding, TypeOK
  <1>5. ASSUME NEW p \in Procs, Crash(p) PROVE Seen'
    BY <1>5, <1>0, <1>t DEF Crash, Seen, AfterPayment, Holding, TypeOK
  <1>6. ASSUME NEW o \in Orders, Environment(o) PROVE Seen'
    <2>1. UNCHANGED <<pc, cur>>
      BY <1>6 DEF Environment, Pay, GracePasses, EnterRefund, RestoreCompleted, handlers
    <2> QED BY <2>1, <1>0, <1>t DEF Seen, AfterPayment, Holding, TypeOK
  <1> QED BY <1>1, <1>2, <1>3, <1>4, <1>5, <1>6 DEF Next, HandlerStep, PaymentStep

\* Without a fault a handler acknowledges a notification only after it saw the payment in
\* the row.
LEMMA AckedStep ==
  ASSUME PaymentInv, OpOfBranch, Seen, AckedIsRecorded, Next, faults = 0, faults' = 0
  PROVE  AckedIsRecorded'
  <1>t. TypeOK
    BY DEF PaymentInv
  <1>0. \A o \in Orders : status[o] \notin Unseen => status'[o] \notin Unseen
    BY StaysSeen
  <1>q. ASSUME UNCHANGED acked PROVE AckedIsRecorded'
    BY <1>q, <1>0 DEF AckedIsRecorded, Unseen
  <1>1. ASSUME NEW p \in Procs, StartStep(p) PROVE AckedIsRecorded'
    BY <1>1, <1>q DEF StartStep, StartCreate, StartCancel, StartVerify, StartRetry,
       Notify, Start, provider
  <1>2. ASSUME NEW p \in Procs,
               \/ CreateStep(p) \/ Query(p) \/ ClosePayment(p) \/ CancelPending(p)
        PROVE  AckedIsRecorded'
    <2>1. pc[p] \in Early /\ op[p] # "notify"
      <3>1. pc[p] \in Early
        BY <1>2 DEF CreateStep, InsertOrder, CallProvider, SavePayment, CreateFailed,
           Query, ClosePayment, CancelPending, Early
      <3> QED BY <3>1 DEF OpOfBranch, Early
    <2>2. Moves(p, Labels)
      <3> USE DEF Moves, Labels
      <3>1. CASE CreateStep(p)
        BY <3>1 DEF CreateStep, InsertOrder, CallProvider, SavePayment, CreateFailed
      <3>2. CASE Query(p)
        BY <3>2 DEF Query
      <3>3. CASE ClosePayment(p) \/ CancelPending(p)
        BY <3>3 DEF ClosePayment, CancelPending
      <3> QED BY <1>2, <3>1, <3>2, <3>3
    <2>3. UNCHANGED acked
      BY <2>1, <2>2 DEF Moves, Goto, Return
    <2> QED BY <2>3, <1>q
  <1>3. ASSUME NEW p \in Procs, Confirm(p) PROVE AckedIsRecorded'
    <2>1. PICK failed \in BOOLEAN :
            /\ Read(failed)
            /\ IF failed THEN Return(p, TRUE)
               ELSE IF upstream[cur[p]] = "mispaid" THEN Return(p, FALSE)
               ELSE Goto(p, "topaid")
      BY <1>3 DEF Confirm
    <2>2. ~failed
      BY <2>1 DEF Read
    <2>3. Return(p, FALSE) \/ Goto(p, "topaid")
      BY <2>1, <2>2
    <2> QED BY <2>3, <1>q DEF Return, Goto
  <1>4. ASSUME NEW p \in Procs, ToPaid(p) PROVE AckedIsRecorded'
    <2>1. Return(p, FALSE) \/ \E l \in Labels : Goto(p, l)
      BY <1>4 DEF ToPaid, Labels
    <2> QED BY <2>1, <1>q DEF Return, Goto
  <1>5. ASSUME NEW p \in Procs, Already(p) \/ FulfilStep(p) PROVE AckedIsRecorded'
    <2>1. pc[p] \in AfterPayment \ {"topaid"} /\ cur[p] \in Orders
      BY <1>5, <1>t DEF Already, FulfilStep, RetryReset, Execute, Lock, Lookup, CreateCode,
         Redeem, ApplyRebate, CheckSubscription, AssignSubscription, Complete,
         WriteSuccess, MarkFailed, AfterPayment, Holding, TypeOK
    <2>2. status'[cur[p]] \notin Unseen
      BY <2>1, <1>0 DEF Seen
    <2>3. acked' = acked \/ acked' = [acked EXCEPT ![cur[p]] = TRUE]
      BY <1>5, <1>t, LaterMoves, Moved
    <2> QED BY <2>1, <2>2, <2>3, <1>0, <1>t DEF AckedIsRecorded, Unseen, TypeOK
  <1>6. ASSUME NEW p \in Procs, Crash(p) PROVE AckedIsRecorded'
    BY <1>6, <1>q DEF Crash, provider
  <1>7. ASSUME NEW o \in Orders, Environment(o) PROVE AckedIsRecorded'
    BY <1>7, <1>q DEF Environment, Pay, GracePasses, EnterRefund, RestoreCompleted, provider
  <1> QED BY <1>1, <1>2, <1>3, <1>4, <1>5, <1>6, <1>7 DEF Next, HandlerStep, PaymentStep

\* The invariants of the lock and of the acknowledgement hold at the start,
LEMMA FaultFreeInit == Init => LockInv /\ AckInv
  <1> SUFFICES ASSUME Init PROVE LockInv /\ AckInv
    OBVIOUS
  <1>1. LockInv
    BY DEF Init, LockInv, Locked, Refused, ExtendedOnce, Holding
  <1>2. AckInv
    BY DEF Init, AckInv, OpOfBranch, Seen, AckedIsRecorded, AfterPayment, Holding
  <1> QED BY <1>1, <1>2

\* and every step keeps them.
LEMMA FaultFreeStep == PaymentInv /\ LockInv /\ AckInv /\ [Next]_vars => LockInv' /\ AckInv'
  <1> SUFFICES ASSUME PaymentInv, LockInv, AckInv, [Next]_vars PROVE LockInv' /\ AckInv'
    OBVIOUS
  <1>1. CASE Next
    <2>1. faults' = 0 => faults = 0
      BY <1>1, FaultsGrow, ConstantsAssumption DEF PaymentInv, TypeOK
    <2>2. ASSUME faults' = 0 PROVE Locked' /\ Refused' /\ ExtendedOnce'
      <3>1. faults = 0 /\ Locked /\ Refused /\ ExtendedOnce
        BY <2>1, <2>2 DEF LockInv
      <3> QED BY <1>1, <2>2, <3>1, LockedStep, RefusedStep, ExtendedOnceStep
    <2>3. OpOfBranch' /\ Seen'
      BY <1>1, OpOfBranchStep, SeenStep DEF AckInv, PaymentInv
    <2>4. AckedIsRecorded'
      <3>1. CASE faults' = 0
        BY <1>1, <2>1, <3>1, AckedStep DEF AckInv
      <3>2. CASE faults' # 0
        BY <3>2 DEF AckedIsRecorded
      <3> QED BY <3>1, <3>2
    <2> QED BY <2>2, <2>3, <2>4 DEF AckInv, LockInv
  <1>2. CASE UNCHANGED vars
    BY <1>2 DEF vars, row, ledger, provider, handlers, counters, LockInv, Locked, Refused,
       ExtendedOnce, AckInv, OpOfBranch, Seen, AckedIsRecorded
  <1> QED BY <1>1, <1>2

\* Both hold in every reachable state.
LEMMA FaultFree == Spec => [](PaymentInv /\ LockInv /\ AckInv)
  BY PaymentInvInit, PaymentInvStep, FaultFreeInit, FaultFreeStep, PTL DEF Spec

\* Until a statement fails RECHARGING excludes: no two handlers fulfil one order, and a
\* lost one keeps the others out (ExecuteBalanceFulfillment, ExecuteSubscriptionFulfillment).
THEOREM FulfilsAlone == Spec => []OneFulfiller
  <1>1. LockInv => OneFulfiller
    BY DEF LockInv, Locked, OneFulfiller
  <1> QED BY <1>1, FaultFree, PTL

\* Until a statement fails a notification that is answered with 2xx was recorded
\* (HandlePaymentNotification, toPaid, alreadyProcessed).
THEOREM AckRecords == Spec => []AckedIsRecorded
  <1>1. AckInv => AckedIsRecorded
    BY DEF AckInv
  <1> QED BY <1>1, FaultFree, PTL

\* Until a statement fails an order of either kind is granted once, whoever retries and
\* whichever handlers are lost (doBalance, doSub).
THEOREM GrantsOnce == Spec => [](faults = 0 => GrantedOnce)
  <1>1. PaymentInv /\ LockInv => (faults = 0 => GrantedOnce)
    <2> SUFFICES ASSUME PaymentInv, LockInv, faults = 0, NEW o \in Orders
                 PROVE  granted[o] <= 1
      BY DEF GrantedOnce
    <2>1. granted[o] \in Nat /\ kind[o] \in Kinds
      BY DEF PaymentInv, TypeOK
    <2>2. CASE kind[o] = "balance"
      BY <2>2 DEF PaymentInv, CodeRecordsCredit
    <2>3. CASE kind[o] = "subscription"
      BY <2>1, <2>3 DEF LockInv, ExtendedOnce
    <2> QED BY <2>1, <2>2, <2>3 DEF Kinds
  <1> QED BY <1>1, FaultFree, PTL

\* Until a statement fails nothing is given for an order that is being, or was, refunded:
\* whoever gives has the lock, and EnterRefund takes completed orders only
\* (psIsRefundStatus).
THEOREM RefundGetsNothing == Spec => NoGrantInRefund
  <1> DEFINE Kept == \A o \in Orders : faults' = 0 /\ status[o] = "REFUND" =>
                       granted'[o] = granted[o] /\ rebated'[o] = rebated[o]
  <1>1. PaymentInv /\ LockInv /\ [Next]_vars => [Kept]_vars
    <2> SUFFICES ASSUME PaymentInv, LockInv, Next, NEW o \in Orders, faults' = 0,
                        status[o] = "REFUND"
                 PROVE  granted'[o] = granted[o] /\ rebated'[o] = rebated[o]
      OBVIOUS
    <2> USE DEF PaymentInv
    <2>1. Locked
      BY FaultsGrow, ConstantsAssumption DEF TypeOK, LockInv
    <2>2. ASSUME NEW p \in Procs, Redeem(p) \/ ApplyRebate(p) \/ AssignSubscription(p)
          PROVE  granted'[o] = granted[o] /\ rebated'[o] = rebated[o]
      <3>1. pc[p] \in Holding
        BY <2>2 DEF Redeem, ApplyRebate, AssignSubscription, Holding
      <3>2. o # cur[p]
        BY <3>1, <2>1 DEF Locked
      <3> QED BY <2>2, <3>2 DEF Redeem, ApplyRebate, AssignSubscription, TypeOK
    <2>3. CASE UNCHANGED <<granted, rebated>>
      BY <2>3
    <2>4. ASSUME NEW p \in Procs,
                 \/ StartStep(p) \/ Crash(p) \/ CreateStep(p) \/ PaymentStep(p)
                 \/ RetryReset(p) \/ Execute(p) \/ Lock(p) \/ Lookup(p) \/ CreateCode(p)
                 \/ CheckSubscription(p) \/ Complete(p) \/ WriteSuccess(p) \/ MarkFailed(p)
          PROVE  UNCHANGED <<granted, rebated>>
      BY <2>4 DEF StartStep, StartCreate, StartCancel, StartVerify, StartRetry, Notify,
         Start, Crash, CreateStep, InsertOrder, CallProvider, SavePayment, CreateFailed,
         PaymentStep, Query, ClosePayment, CancelPending, Confirm, ToPaid, Already,
         RetryReset, Execute, Lock, Lookup, CreateCode, CheckSubscription, Complete,
         WriteSuccess, MarkFailed, ledger
    <2>5. ASSUME NEW i \in Orders, Environment(i) PROVE UNCHANGED <<granted, rebated>>
      BY <2>5 DEF Environment, Pay, GracePasses, EnterRefund, RestoreCompleted, ledger
    <2> QED BY <2>2, <2>3, <2>4, <2>5 DEF Next, HandlerStep, FulfilStep
  <1> QED BY <1>1, FaultFree, PTL DEF Spec, NoGrantInRefund

=============================================================================
