-------------------------- MODULE PaymentRefundProofs --------------------------
(***************************************************************************)
(* Proofs about PaymentRefund for any sets of orders and handlers, any     *)
(* amounts, and any number of refusals, failing statements and lost        *)
(* handlers.  TypeOK first, then that REFUNDING is an exclusive lock, then *)
(* what the lock protects: the money is paid back once, and taken from the *)
(* user once.                                                              *)
(***************************************************************************)
EXTENDS PaymentRefund, TLAPS

\* The two parts of TypeOK: the tables, and the handlers.
DataType ==
  /\ status         \in [Orders -> Statuses]
  /\ kind           \in [Orders -> {"balance", "subscription"}]
  /\ refundAmount   \in [Orders -> 0 .. Amount]
  /\ rollbackFailed \in [Orders -> BOOLEAN]
  /\ traded         \in [Orders -> BOOLEAN]
  /\ paidBack       \in [Orders -> Nat]
  /\ unanswered     \in [Orders -> Nat]
  /\ balance        \in Int
  /\ term           \in Nat
  /\ revoked        \in BOOLEAN
  /\ taken          \in [Orders -> Int]
  /\ refusals       \in 0 .. MaxRefusals
  /\ faults         \in 0 .. MaxFaults
  /\ crashes        \in 0 .. MaxCrashes

HandlerType ==
  /\ pc   \in [Procs -> Labels]
  /\ cur  \in [Procs -> Orders \cup {NoOrder}]
  /\ plan \in [Procs -> Plans]
  /\ \A p \in Procs : pc[p] # "idle" => cur[p] \in Orders

\* The two parts make TypeOK, now and in the next state.
LEMMA TypeSplit == (TypeOK <=> DataType /\ HandlerType)
                   /\ (TypeOK' <=> DataType' /\ HandlerType')
  BY DEF TypeOK, DataType, HandlerType

\* The plan a handler leaves behind is a plan.
LEMMA NoPlanType == NoPlan \in Plans
  BY RefundConstants DEF NoPlan, Plans

\* The initial state has the types.
LEMMA TypeInit == Init => TypeOK
  <1> SUFFICES ASSUME Init PROVE TypeOK
    OBVIOUS
  <1>1. DataType
    <2>1. /\ 0 \in 0 .. Amount /\ 0 \in 0 .. MaxRefusals
          /\ 0 \in 0 .. MaxFaults /\ 0 \in 0 .. MaxCrashes
      BY RefundConstants
    <2>2. balance \in Int /\ term \in Nat
      BY RefundConstants DEF Init
    <2>3. /\ status \in [Orders -> Statuses]
          /\ refundAmount \in [Orders -> 0 .. Amount]
          /\ rollbackFailed \in [Orders -> BOOLEAN]
      BY <2>1 DEF Init, Statuses, Refundable
    <2>4. /\ paidBack \in [Orders -> Nat] /\ unanswered \in [Orders -> Nat] /\ taken \in [Orders -> Int]
      BY SMT DEF Init
    <2>5. /\ kind \in [Orders -> {"balance", "subscription"}]
          /\ traded \in [Orders -> BOOLEAN] /\ revoked \in BOOLEAN
          /\ refusals = 0 /\ faults = 0 /\ crashes = 0
      BY DEF Init
    <2> QED BY <2>1, <2>2, <2>3, <2>4, <2>5 DEF DataType
  <1>2. HandlerType
    BY NoPlanType DEF Init, HandlerType, Labels
  <1> QED BY <1>1, <1>2, TypeSplit

\* Returning keeps the handlers in their types.
LEMMA ReturnType ==
  ASSUME HandlerType, NEW p \in Procs, Return(p)
  PROVE  HandlerType'
  BY NoPlanType DEF HandlerType, Return, Labels

\* So does moving on.
LEMMA GotoType ==
  ASSUME HandlerType, NEW p \in Procs, pc[p] # "idle", NEW l \in Labels, Goto(p, l)
  PROVE  HandlerType'
  BY DEF HandlerType, Goto

\* So does settling what a plan takes.
LEMMA PlanType ==
  ASSUME HandlerType, NEW p \in Procs, pc[p] # "idle", NEW l \in Labels, NEW t \in Nat,
         pc' = [pc EXCEPT ![p] = l], plan' = [plan EXCEPT ![p].take = t],
         UNCHANGED cur
  PROVE  HandlerType'
  <1>1. [plan[p] EXCEPT !.take = t] \in Plans
    BY DEF HandlerType, Plans
  <1> QED BY <1>1 DEF HandlerType

\* Each step of a handler keeps the tables in their types ...
LEMMA DataStepType ==
  ASSUME DataType, HandlerType, NEW p \in Procs, HandlerStep(p)
  PROVE  DataType'
  <1>1. cur[p] \in Orders /\ plan[p] \in Plans
    BY DEF HandlerStep, RequestBalance, Request, PrepareBalance,
       PrepareSubscription, Lock, Audit, Deduct, Shorten, Revoke, Gateway,
       MarkOk, Rollback, RollbackAudit, RefundFailed, Restore, HandlerType
  <1>2. /\ plan[p].take \in Nat /\ plan[p].amount \in Nat
        /\ plan[p].amount \in 0 .. Amount
    BY <1>1, RefundConstants DEF Plans
  <1>3. CASE RequestBalance(p)
    BY <1>1, <1>2, <1>3, RefundConstants DEF RequestBalance, DataType, Read,
       Statuses, Refundable, Settled, row, provider, account
  <1>4. CASE Request(p)
    BY <1>1, <1>2, <1>4, RefundConstants DEF Request, DataType, SetStatus,
       Statement, Statuses, Refundable, Settled, provider, account
  <1>5. CASE PrepareBalance(p)
    BY <1>1, <1>2, <1>5, RefundConstants DEF PrepareBalance, DataType, Read,
       Statuses, Refundable, Settled, row, provider, account
  <1>6. CASE PrepareSubscription(p)
    BY <1>1, <1>2, <1>6, RefundConstants DEF PrepareSubscription, DataType,
       Read, Statuses, Refundable, Settled, row, provider, account
  <1>7. CASE Lock(p)
    BY <1>1, <1>2, <1>7, RefundConstants DEF Lock, DataType, SetStatus,
       Statement, Statuses, Refundable, Settled, provider, account
  <1>8. CASE Audit(p)
    BY <1>1, <1>2, <1>8, RefundConstants DEF Audit, DataType, Read, Statuses,
       Refundable, Settled, row, provider, account
  <1>9. CASE Deduct(p)
    BY <1>1, <1>2, <1>9, RefundConstants DEF Deduct, DataType, Statement,
       Statuses, Refundable, Settled, row, provider
  <1>10. CASE Shorten(p)
    BY <1>1, <1>2, <1>10, RefundConstants DEF Shorten, DataType, Read,
       Statuses, Refundable, Settled, row, provider
  <1>11. CASE Revoke(p)
    BY <1>1, <1>2, <1>11, RefundConstants DEF Revoke, DataType, Statement,
       Statuses, Refundable, Settled, row, provider
  <1>12. CASE Gateway(p)
    BY <1>1, <1>2, <1>12, RefundConstants DEF Gateway, DataType, Statuses,
       Refundable, Settled, row, account
  <1>13. CASE MarkOk(p)
    BY <1>1, <1>2, <1>13, RefundConstants DEF MarkOk, DataType, SetStatus,
       Statement, Statuses, Refundable, Settled, provider, account
  <1>14. CASE Rollback(p)
    BY <1>1, <1>2, <1>14, RefundConstants DEF Rollback, DataType, Statement,
       Read, Statuses, Refundable, Settled, row, provider, account
  <1>15. CASE RollbackAudit(p)
    BY <1>1, <1>2, <1>15, RefundConstants DEF RollbackAudit, DataType,
       Statement, Statuses, Refundable, Settled, provider, account
  <1>16. CASE RefundFailed(p)
    BY <1>1, <1>2, <1>16, RefundConstants DEF RefundFailed, DataType,
       SetStatus, Statement, Statuses, Refundable, Settled, provider, account
  <1>17. CASE Restore(p)
    BY <1>1, <1>2, <1>17, RefundConstants DEF Restore, DataType, SetStatus,
       Statement, Statuses, Refundable, Settled, provider, account
  <1> QED BY <1>3, <1>4, <1>5, <1>6, <1>7, <1>8, <1>9, <1>10,
     <1>11, <1>12, <1>13, <1>14, <1>15, <1>16, <1>17 DEF HandlerStep

\* ... and the handlers.
LEMMA HandlerStepType ==
  ASSUME DataType, HandlerType, NEW p \in Procs, HandlerStep(p)
  PROVE  HandlerType'
  <1> USE ReturnType, GotoType DEF Labels, Holding, Before, After
  <1>1. CASE RequestBalance(p)
    BY <1>1 DEF RequestBalance
  <1>2. CASE Request(p)
    BY <1>2 DEF Request
  <1>3. CASE PrepareBalance(p)
    <2> DEFINE t == IF balance > 0 THEN Lesser(plan[p].amount, balance) ELSE 0
    <2>1. t \in Nat
      BY RefundConstants DEF DataType, HandlerType, Plans, Lesser
    <2>2. CASE plan' = [plan EXCEPT ![p].take = t] /\ pc' = [pc EXCEPT ![p] = "lock"]
               /\ UNCHANGED cur
      BY <1>3, <2>1, <2>2, PlanType DEF PrepareBalance
    <2> HIDE DEF t
    <2>3. CASE Goto(p, "lock") \/ Return(p)
      BY <1>3, <2>3 DEF PrepareBalance
    <2> USE DEF t
    <2> QED BY <1>3, <2>2, <2>3 DEF PrepareBalance
  <1>4. CASE PrepareSubscription(p)
    BY <1>4, PlanType, RefundConstants DEF PrepareSubscription
  <1>5. CASE Lock(p)
    <2>1. CASE Return(p)
      BY <2>1
    <2>2. CASE \E l \in {"audit", "gateway"} : Goto(p, l)
      BY <1>5, <2>2 DEF Lock
    <2> QED BY <1>5, <2>1, <2>2 DEF Lock
  <1>6. CASE Audit(p)
    BY <1>6, PlanType, RefundConstants DEF Audit
  <1>7. CASE Deduct(p)
    BY <1>7 DEF Deduct
  <1>8. CASE Shorten(p)
    BY <1>8 DEF Shorten
  <1>9. CASE Revoke(p)
    BY <1>9 DEF Revoke
  <1>10. CASE Gateway(p)
    BY <1>10 DEF Gateway
  <1>11. CASE MarkOk(p)
    BY <1>11 DEF MarkOk
  <1>12. CASE Rollback(p)
    BY <1>12 DEF Rollback
  <1>13. CASE RollbackAudit(p)
    BY <1>13 DEF RollbackAudit
  <1>14. CASE RefundFailed(p)
    BY <1>14 DEF RefundFailed
  <1>15. CASE Restore(p)
    BY <1>15 DEF Restore
  <1> QED BY <1>1, <1>2, <1>3, <1>4, <1>5, <1>6, <1>7, <1>8, <1>9, <1>10,
     <1>11, <1>12, <1>13, <1>14, <1>15 DEF HandlerStep

\* TypeOK is inductive.
LEMMA TypeStep == TypeOK /\ [Next]_vars => TypeOK'
  <1> SUFFICES ASSUME TypeOK, [Next]_vars PROVE TypeOK'
    OBVIOUS
  <1> USE DEF row, provider, account, handlers, counters
  <1>1. CASE UNCHANGED vars
    BY <1>1 DEF TypeOK, vars
  <1>2. ASSUME NEW p \in Procs, NEW o \in Orders, StartRequest(p, o) PROVE TypeOK'
    BY <1>2, NoPlanType DEF TypeOK, StartRequest, Start, Labels
  <1>3. ASSUME NEW p \in Procs, NEW o \in Orders, StartRefund(p, o) PROVE TypeOK'
    <2>1. PICK amount \in 1 .. Amount, force, deduct \in BOOLEAN :
            Start(p, o, IF deduct THEN "prepare" ELSE "lock",
                  [requested |-> status[o] = "REFUND_REQUESTED", amount |-> amount,
                   force |-> force, take |-> 0])
      BY <1>3 DEF StartRefund
    <2>2. [requested |-> status[o] = "REFUND_REQUESTED", amount |-> amount,
           force |-> force, take |-> 0] \in Plans
      BY RefundConstants DEF Plans
    <2> QED BY <2>1, <2>2 DEF TypeOK, Start, Labels
  <1>4. ASSUME NEW p \in Procs, HandlerStep(p) PROVE TypeOK'
    BY <1>4, TypeSplit, DataStepType, HandlerStepType
  <1>5. ASSUME NEW p \in Procs, Crash(p) PROVE TypeOK'
    <2>1. DataType'
      BY <1>5, TypeSplit, RefundConstants DEF Crash, DataType
    <2>2. HandlerType'
      BY <1>5, TypeSplit, ReturnType DEF Crash
    <2> QED BY <2>1, <2>2, TypeSplit
  <1>6. CASE Spend
    BY <1>6 DEF TypeOK, Spend
  <1>7. CASE DayPasses
    BY <1>7 DEF TypeOK, DayPasses
  <1> QED BY <1>1, <1>2, <1>3, <1>4, <1>5, <1>6, <1>7 DEF Next

\* REFUNDING is an exclusive lock: OneRefunder is inductive with the types.
LEMMA OneRefunderStep ==
  ASSUME TypeOK, OneRefunder, [Next]_vars
  PROVE  OneRefunder'
  <1> DEFINE Goal == OneRefunder'
  <1> USE DEF OneRefunder
  <1>1. CASE UNCHANGED vars
    BY <1>1 DEF vars, row, handlers
  <1>2. ASSUME NEW p \in Procs, NEW o \in Orders, StartRequest(p, o) \/ StartRefund(p, o)
        PROVE  Goal
    BY <1>2 DEF StartRequest, StartRefund, Start, row, TypeOK, Holding, Before, After
  <1>3. ASSUME NEW p \in Procs, RequestBalance(p) PROVE Goal
    BY <1>3 DEF RequestBalance, Goto, Return, TypeOK, row, Holding, Before,
       After
  <1>4. ASSUME NEW p \in Procs, Request(p) PROVE Goal
    BY <1>4 DEF Request, SetStatus, Return, TypeOK, Holding, Before, After
  <1>5. ASSUME NEW p \in Procs, PrepareBalance(p) PROVE Goal
    BY <1>5 DEF PrepareBalance, Goto, Return, TypeOK, row, Holding, Before,
       After
  <1>6. ASSUME NEW p \in Procs, PrepareSubscription(p) PROVE Goal
    BY <1>6 DEF PrepareSubscription, Goto, Return, TypeOK, row, Holding,
       Before, After
  <1>7. ASSUME NEW p \in Procs, Lock(p) PROVE Goal
    <2>1. CASE pc'[p] \in Holding
      <3>1. status[cur[p]] \in Refundable /\ cur'[p] = cur[p] /\ cur[p] \in Orders
        BY <1>7, <2>1 DEF Lock, SetStatus, Goto, Return, TypeOK, Holding, Before, After
      <3>2. /\ status' = [status EXCEPT ![cur[p]] = "REFUNDING"]
            /\ cur' = cur /\ \A q \in Procs \ {p} : pc'[q] = pc[q]
        BY <1>7, <2>1, <3>1 DEF Lock, SetStatus, Goto, Return, Statement, TypeOK, Holding,
             Before, After
      <3>3. \A q \in Procs : pc[q] \in Holding => cur[q] # cur[p]
        BY <3>1 DEF Refundable
      <3> QED BY <3>1, <3>2, <3>3 DEF TypeOK, Holding, Before, After
    <2>2. CASE pc'[p] \notin Holding
      <3>1. /\ \A q \in Procs \ {p} : pc'[q] = pc[q] /\ cur'[q] = cur[q]
            /\ \A o \in Orders : status'[o] = status[o] \/ status'[o] = "REFUNDING"
        BY <1>7 DEF Lock, SetStatus, Goto, Return, TypeOK
      <3> QED BY <2>2, <3>1 DEF TypeOK, Holding, Before, After
    <2> QED BY <2>1, <2>2
  <1>8. ASSUME NEW p \in Procs, Audit(p) PROVE Goal
    BY <1>8 DEF Audit, Goto, TypeOK, row, Holding, Before, After
  <1>9. ASSUME NEW p \in Procs, Deduct(p) PROVE Goal
    BY <1>9 DEF Deduct, Goto, TypeOK, row, Holding, Before, After
  <1>10. ASSUME NEW p \in Procs, Shorten(p) PROVE Goal
    BY <1>10 DEF Shorten, Goto, TypeOK, row, Holding, Before, After
  <1>11. ASSUME NEW p \in Procs, Revoke(p) PROVE Goal
    BY <1>11 DEF Revoke, Goto, TypeOK, row, Holding, Before, After
  <1>12. ASSUME NEW p \in Procs, Gateway(p) PROVE Goal
    BY <1>12 DEF Gateway, Goto, TypeOK, row, Holding, Before, After
  <1>13. ASSUME NEW p \in Procs, MarkOk(p) PROVE Goal
    BY <1>13 DEF MarkOk, SetStatus, Return, TypeOK, Holding, Before, After
  <1>14. ASSUME NEW p \in Procs, Rollback(p) PROVE Goal
    BY <1>14 DEF Rollback, Goto, TypeOK, row, Holding, Before, After
  <1>15. ASSUME NEW p \in Procs, RollbackAudit(p) PROVE Goal
    BY <1>15 DEF RollbackAudit, Goto, TypeOK, Holding, Before, After
  <1>16. ASSUME NEW p \in Procs, RefundFailed(p) PROVE Goal
    BY <1>16 DEF RefundFailed, SetStatus, Return, TypeOK, Holding, Before,
       After
  <1>17. ASSUME NEW p \in Procs, Restore(p) PROVE Goal
    BY <1>17 DEF Restore, SetStatus, Return, TypeOK, Holding, Before, After
  <1>18. ASSUME NEW p \in Procs, Crash(p) PROVE Goal
    BY <1>18 DEF Crash, Return, TypeOK, row, Holding, Before, After
  <1>19. CASE Spend \/ DayPasses
    BY <1>19 DEF Spend, DayPasses, row, handlers
  <1> QED BY <1>1, <1>2, <1>3, <1>4, <1>5, <1>6, <1>7, <1>8, <1>9, <1>10,
     <1>11, <1>12, <1>13, <1>14, <1>15, <1>16, <1>17, <1>18, <1>19 DEF Next,
     HandlerStep

\* A plan keeps its amount, so that what reaches the provider is an amount.
LEMMA PlanHasAmountStep ==
  ASSUME TypeOK, PlanHasAmount, [Next]_vars
  PROVE  PlanHasAmount'
  <1> DEFINE Goal == PlanHasAmount'
  <1> USE DEF PlanHasAmount
  <1>1. CASE UNCHANGED vars
    BY <1>1 DEF vars, handlers
  <1>2. ASSUME NEW p \in Procs, NEW o \in Orders, StartRequest(p, o) PROVE Goal
    BY <1>2 DEF StartRequest, Start, TypeOK, Holding, Before, After
  <1>3. ASSUME NEW p \in Procs, NEW o \in Orders, StartRefund(p, o) PROVE Goal
    BY <1>3, RefundConstants DEF StartRefund, Start, TypeOK
  <1>4. ASSUME NEW p \in Procs, RequestBalance(p) PROVE Goal
    BY <1>4 DEF RequestBalance, Goto, Return, TypeOK, Plans, Holding, Before,
       After
  <1>5. ASSUME NEW p \in Procs, Request(p) PROVE Goal
    BY <1>5 DEF Request, Return, TypeOK, Plans, Holding, Before, After
  <1>6. ASSUME NEW p \in Procs, PrepareBalance(p) PROVE Goal
    BY <1>6 DEF PrepareBalance, Goto, Return, TypeOK, Plans, Holding, Before,
       After
  <1>7. ASSUME NEW p \in Procs, PrepareSubscription(p) PROVE Goal
    <2>1. CASE /\ plan' = [plan EXCEPT ![p].take = Days]
               /\ pc' = [pc EXCEPT ![p] = "lock"]
      <3>1. \A q \in Procs : plan'[q].amount = plan[q].amount
        BY <2>1 DEF TypeOK, Plans
      <3>2. pc[p] = "prepare"
        BY <1>7 DEF PrepareSubscription
      <3> QED BY <2>1, <3>1, <3>2 DEF TypeOK
    <2>2. CASE Goto(p, "lock")
      BY <1>7, <2>2 DEF PrepareSubscription, Goto, TypeOK
    <2>3. CASE Return(p)
      BY <2>3 DEF Return, TypeOK, Holding, Before, After
    <2> QED BY <1>7, <2>1, <2>2, <2>3 DEF PrepareSubscription
  <1>8. ASSUME NEW p \in Procs, Lock(p) PROVE Goal
    BY <1>8 DEF Lock, Goto, Return, TypeOK, Plans, Holding, Before, After
  <1>9. ASSUME NEW p \in Procs, Audit(p) PROVE Goal
    BY <1>9 DEF Audit, Goto, TypeOK, Plans, Holding, Before, After
  <1>10. ASSUME NEW p \in Procs, Deduct(p) PROVE Goal
    BY <1>10 DEF Deduct, Goto, TypeOK, Plans, Holding, Before, After
  <1>11. ASSUME NEW p \in Procs, Shorten(p) PROVE Goal
    BY <1>11 DEF Shorten, Goto, TypeOK, Plans, Holding, Before, After
  <1>12. ASSUME NEW p \in Procs, Revoke(p) PROVE Goal
    BY <1>12 DEF Revoke, Goto, TypeOK, Plans, Holding, Before, After
  <1>13. ASSUME NEW p \in Procs, Gateway(p) PROVE Goal
    BY <1>13 DEF Gateway, Goto, TypeOK, Plans, Holding, Before, After
  <1>14. ASSUME NEW p \in Procs, MarkOk(p) PROVE Goal
    BY <1>14 DEF MarkOk, Return, TypeOK, Plans, Holding, Before, After
  <1>15. ASSUME NEW p \in Procs, Rollback(p) PROVE Goal
    BY <1>15 DEF Rollback, Goto, TypeOK, Plans, Holding, Before, After
  <1>16. ASSUME NEW p \in Procs, RollbackAudit(p) PROVE Goal
    BY <1>16 DEF RollbackAudit, Goto, TypeOK, Plans, Holding, Before, After
  <1>17. ASSUME NEW p \in Procs, RefundFailed(p) PROVE Goal
    BY <1>17 DEF RefundFailed, Return, TypeOK, Plans, Holding, Before, After
  <1>18. ASSUME NEW p \in Procs, Restore(p) PROVE Goal
    BY <1>18 DEF Restore, Return, TypeOK, Plans, Holding, Before, After
  <1>19. ASSUME NEW p \in Procs, Crash(p) PROVE Goal
    BY <1>19 DEF Crash, Return, TypeOK, Holding, Before, After
  <1>20. CASE Spend \/ DayPasses
    BY <1>20 DEF Spend, DayPasses, handlers
  <1> QED BY <1>1, <1>2, <1>3, <1>4, <1>5, <1>6, <1>7, <1>8, <1>9, <1>10,
     <1>11, <1>12, <1>13, <1>14, <1>15, <1>16, <1>17, <1>18, <1>19, <1>20 DEF
     Next, HandlerStep

\* The provider confirms a refund only to the holder of the lock, which then only
\* settles it.
LEMMA MoneyStep ==
  ASSUME RefundInv, [Next]_vars
  PROVE  PaidBackIsLocked' /\ MarkOkIsPaid' /\ SettledAmount'
  <1> DEFINE Goal == PaidBackIsLocked' /\ MarkOkIsPaid' /\ SettledAmount'
  <1> USE DEF RefundInv, OneRefunder, PaidBackIsLocked, MarkOkIsPaid, SettledAmount
  <1>1. CASE UNCHANGED vars
    BY <1>1 DEF vars, row, provider, handlers
  <1>2. ASSUME NEW p \in Procs, NEW o \in Orders, StartRequest(p, o) \/ StartRefund(p, o)
        PROVE  Goal
    BY <1>2 DEF StartRequest, StartRefund, Start, row, provider, TypeOK, Holding, Before,
         After
  <1>3. ASSUME NEW p \in Procs, RequestBalance(p) PROVE Goal
    BY <1>3 DEF RequestBalance, Goto, Return, TypeOK, Settled, row, provider,
       Holding, Before, After
  <1>4. ASSUME NEW p \in Procs, Request(p) PROVE Goal
    BY <1>4 DEF Request, SetStatus, Return, TypeOK, Settled, provider, Holding,
       Before, After
  <1>5. ASSUME NEW p \in Procs, PrepareBalance(p) PROVE Goal
    BY <1>5 DEF PrepareBalance, Goto, Return, TypeOK, Settled, row, provider,
       Holding, Before, After
  <1>6. ASSUME NEW p \in Procs, PrepareSubscription(p) PROVE Goal
    BY <1>6 DEF PrepareSubscription, Goto, Return, TypeOK, Settled, row,
       provider, Holding, Before, After
  <1>7. ASSUME NEW p \in Procs, Lock(p) PROVE Goal
    BY <1>7 DEF Lock, SetStatus, Goto, Return, TypeOK, Refundable, Settled,
       provider, Holding, Before, After
  <1>8. ASSUME NEW p \in Procs, Audit(p) PROVE Goal
    BY <1>8 DEF Audit, Goto, TypeOK, Settled, row, provider, Holding, Before,
       After
  <1>9. ASSUME NEW p \in Procs, Deduct(p) PROVE Goal
    BY <1>9 DEF Deduct, Goto, TypeOK, Settled, row, provider, Holding, Before,
       After
  <1>10. ASSUME NEW p \in Procs, Shorten(p) PROVE Goal
    BY <1>10 DEF Shorten, Goto, TypeOK, Settled, row, provider, Holding,
       Before, After
  <1>11. ASSUME NEW p \in Procs, Revoke(p) PROVE Goal
    BY <1>11 DEF Revoke, Goto, TypeOK, Settled, row, provider, Holding, Before,
       After
  <1>12. ASSUME NEW p \in Procs, Gateway(p) PROVE Goal
    <2>1. CASE ~traded[cur[p]]
      BY <1>12, <2>1 DEF Gateway, Goto, TypeOK, row, Holding, Before, After
    <2>2. CASE Goto(p, "rollback") /\ UNCHANGED paidBack
      BY <1>12, <2>2 DEF Gateway, Goto, TypeOK, row, Holding, Before, After
    <2>3. CASE /\ traded[cur[p]] /\ Goto(p, "markok")
               /\ paidBack' = [paidBack EXCEPT ![cur[p]] = @ + plan[p].amount]
      <3>1. cur[p] \in Orders /\ paidBack[cur[p]] = 0 /\ status[cur[p]] = "REFUNDING"
        BY <1>12 DEF Gateway, TypeOK, Holding, Before, After
      <3>2. plan[p].amount \in Nat
        BY RefundConstants DEF TypeOK, Plans
      <3>3. paidBack' = [paidBack EXCEPT ![cur[p]] = plan[p].amount]
        <4>1. paidBack[cur[p]] + plan[p].amount = plan[p].amount
          BY <3>1, <3>2
        <4> QED BY <2>3, <4>1
      <3>4. UNCHANGED <<status, refundAmount, traded, cur, plan>>
        BY <1>12, <2>3 DEF Gateway, Goto, row
      <3>5. \A q \in Procs \ {p} : pc'[q] = pc[q] /\ (pc[q] \in Holding => cur[q] # cur[p])
        BY <1>12, <2>3 DEF Gateway, Goto, TypeOK, Holding, Before, After
      <3>6. pc'[p] = "markok"
        BY <2>3 DEF Goto, TypeOK
      <3>7. PaidBackIsLocked'
        BY <2>3, <3>1, <3>3, <3>4, <3>5, <3>6 DEF TypeOK
      <3>8. MarkOkIsPaid'
        BY <2>3, <3>1, <3>3, <3>4, <3>5, <3>6 DEF TypeOK, Holding
      <3>9. SettledAmount'
        BY <3>1, <3>3, <3>4 DEF TypeOK, Settled
      <3> QED BY <3>7, <3>8, <3>9
    <2> QED BY <1>12, <2>1, <2>2, <2>3 DEF Gateway
  <1>13. ASSUME NEW p \in Procs, MarkOk(p) PROVE Goal
    BY <1>13 DEF MarkOk, SetStatus, Return, TypeOK, Settled, provider, Holding,
       Before, After
  <1>14. ASSUME NEW p \in Procs, Rollback(p) PROVE Goal
    BY <1>14 DEF Rollback, Goto, TypeOK, Settled, row, provider, Holding,
       Before, After
  <1>15. ASSUME NEW p \in Procs, RollbackAudit(p) PROVE Goal
    BY <1>15 DEF RollbackAudit, Goto, TypeOK, Settled, provider, Holding,
       Before, After
  <1>16. ASSUME NEW p \in Procs, RefundFailed(p) PROVE Goal
    BY <1>16 DEF RefundFailed, SetStatus, Return, TypeOK, Settled, provider,
       Holding, Before, After
  <1>17. ASSUME NEW p \in Procs, Restore(p) PROVE Goal
    BY <1>17 DEF Restore, SetStatus, Return, TypeOK, Settled, provider,
       Holding, Before, After
  <1>18. ASSUME NEW p \in Procs, Crash(p) PROVE Goal
    BY <1>18 DEF Crash, Return, TypeOK, row, provider, Holding, Before, After
  <1>19. CASE Spend \/ DayPasses
    BY <1>19 DEF Spend, DayPasses, row, provider, handlers
  <1> QED BY <1>1, <1>2, <1>3, <1>4, <1>5, <1>6, <1>7, <1>8, <1>9, <1>10,
     <1>11, <1>12, <1>13, <1>14, <1>15, <1>16, <1>17, <1>18, <1>19 DEF Next,
     HandlerStep

-----------------------------------------------------------------------------
(* Theorems *)

\* The types and the lock hold in every reachable state, whatever the provider
\* answers (ExecuteRefund's compare-and-set).
THEOREM LockInvariant == Spec => [](TypeOK /\ OneRefunder)
  <1>1. Init => TypeOK /\ OneRefunder
    BY TypeInit DEF Init, OneRefunder, Holding, Before, After
  <1>2. TypeOK /\ OneRefunder /\ [Next]_vars => (TypeOK /\ OneRefunder)'
    BY TypeStep, OneRefunderStep
  <1> QED BY <1>1, <1>2, PTL DEF Spec

\* At most one handler is refunding an order (ExecuteRefund).
THEOREM RefundIsExclusive == Spec => []OneRefunder
  BY LockInvariant, PTL

\* The whole invariant is inductive, whatever the provider answers (gwRefund).
THEOREM RefundInvariant == Spec => []RefundInv
  <1>1. Init => RefundInv
    <2> SUFFICES ASSUME Init PROVE RefundInv
      OBVIOUS
    <2>1. TypeOK
      BY TypeInit
    <2>2. \A p \in Procs : pc[p] = "idle"
      BY DEF Init
    <2>3. \A o \in Orders : paidBack[o] = 0 /\ status[o] = "COMPLETED"
      BY DEF Init
    <2> QED BY <2>1, <2>2, <2>3 DEF RefundInv, OneRefunder, PlanHasAmount,
            PaidBackIsLocked, MarkOkIsPaid, SettledAmount, Holding, Before, After, Settled
  <1>2. RefundInv /\ [Next]_vars => RefundInv'
    BY TypeStep, OneRefunderStep, PlanHasAmountStep, MoneyStep DEF RefundInv
  <1> QED BY <1>1, <1>2, PTL DEF Spec

\* The row of a settled refund states what the provider confirmed (markRefundOk).
THEOREM SettledAmountHolds == Spec => []SettledAmount
  <1>1. RefundInv => SettledAmount
    BY DEF RefundInv
  <1> QED BY <1>1, RefundInvariant, PTL

\* What the contract sees, unchanged.
LEMMA Invisible ==
  ASSUME UNCHANGED <<traded, paidBack, unanswered, status>>
  PROVE  UNCHANGED Contract!vars
  BY DEF Contract!vars

\* The refundable states and REFUNDING are the same to the contract.
LEMMA OpenStaysOpen ==
  ASSUME UNCHANGED <<traded, paidBack, unanswered>>,
         \A o \in Orders : status'[o] \in Settled <=> status[o] \in Settled
  PROVE  UNCHANGED Contract!vars
  BY DEF Contract!vars

\* A step of the component pays back, settles, or is invisible to the contract.
LEMMA ContractStep ==
  ASSUME RefundInv, Next
  PROVE  Contract!Next \/ UNCHANGED Contract!vars
  <1> DEFINE Goal == Contract!Next \/ UNCHANGED Contract!vars
  <1> USE DEF RefundInv
  <1>1. ASSUME NEW p \in Procs, NEW o \in Orders, StartRequest(p, o) \/ StartRefund(p, o)
        PROVE  Goal
    BY <1>1, Invisible DEF StartRequest, StartRefund, Start, row, provider
  <1>2. ASSUME NEW p \in Procs, Request(p) \/ Lock(p) \/ RefundFailed(p) \/ Restore(p)
        PROVE  Goal
    <2>1. UNCHANGED <<traded, paidBack, unanswered>>
      BY <1>2 DEF Request, Lock, RefundFailed, Restore, provider
    <2>2. \/ UNCHANGED status
          \/ /\ status[cur[p]] \notin Settled
             /\ \E s \in Statuses \ Settled : status' = [status EXCEPT ![cur[p]] = s]
      BY <1>2 DEF Request, Lock, RefundFailed, Restore, SetStatus, OneRefunder, Holding,
           After, Before, Statuses, Refundable, Settled
    <2>3. \A o \in Orders : status'[o] \in Settled <=> status[o] \in Settled
      BY <2>2 DEF TypeOK
    <2> QED BY <2>1, <2>3, OpenStaysOpen
  <1>3. ASSUME NEW p \in Procs, Gateway(p) PROVE Goal
    <2>1. /\ cur[p] \in Orders /\ paidBack[cur[p]] = 0
          /\ status[cur[p]] = "REFUNDING"
      BY <1>3 DEF Gateway, TypeOK, OneRefunder, PaidBackIsLocked, Holding, Before, After
    <2>2. plan[p].amount \in 1 .. Amount /\ UNCHANGED <<traded, status>>
      BY <1>3, RefundConstants DEF Gateway, TypeOK, Plans, PlanHasAmount, Holding, Before, row
    <2>3. traded[cur[p]] => Contract!Open(cur[p])
      BY <2>1 DEF Contract!Open, Settled
    <2>4. CASE UNCHANGED <<paidBack, unanswered>>
      BY <2>2, <2>4, Invisible
    <2>5. CASE /\ traded[cur[p]] /\ UNCHANGED unanswered
               /\ paidBack' = [paidBack EXCEPT ![cur[p]] = @ + plan[p].amount]
      <3>1. paidBack' = [paidBack EXCEPT ![cur[p]] = plan[p].amount]
        <4>1. paidBack[cur[p]] + plan[p].amount = plan[p].amount
          BY <2>1, <2>2
        <4> QED BY <2>5, <4>1
      <3>2. Contract!PayBack(cur[p])
        BY <2>2, <2>3, <2>5, <3>1 DEF Contract!PayBack
      <3> QED BY <2>1, <3>2 DEF Contract!Next
    <2>6. CASE /\ traded[cur[p]] /\ UNCHANGED paidBack
               /\ unanswered' = [unanswered EXCEPT ![cur[p]] = @ + plan[p].amount]
      <3>1. Contract!PayUnanswered(cur[p])
        BY <2>2, <2>3, <2>6 DEF Contract!PayUnanswered
      <3> QED BY <2>1, <3>1 DEF Contract!Next
    <2> QED BY <1>3, <2>4, <2>5, <2>6 DEF Gateway
  <1>4. ASSUME NEW p \in Procs, MarkOk(p) PROVE Goal
    <2>1. CASE UNCHANGED status
      BY <1>4, <2>1, Invisible DEF MarkOk, provider
    <2>2. CASE \E s \in Settled : status' = [status EXCEPT ![cur[p]] = s]
      <3>1. /\ cur[p] \in Orders /\ status[cur[p]] = "REFUNDING"
            /\ traded[cur[p]] => paidBack[cur[p]] > 0
        BY <1>4 DEF MarkOk, TypeOK, OneRefunder, MarkOkIsPaid, PlanHasAmount, Holding
      <3>2. UNCHANGED <<traded, paidBack, unanswered>>
        BY <1>4 DEF MarkOk, provider
      <3>3. [o \in Orders |-> status'[o] \in Settled]
              = [[o \in Orders |-> status[o] \in Settled] EXCEPT ![cur[p]] = TRUE]
        BY <2>2, <3>1 DEF TypeOK
      <3>4. Contract!Settle(cur[p])
        BY <3>1, <3>2, <3>3 DEF Contract!Settle, Settled
      <3>5. \E o \in Orders : Contract!Settle(o)
        BY <3>1, <3>2, <3>3 DEF Contract!Settle, Settled
      <3> QED BY <3>5 DEF Contract!Next
    <2> QED BY <1>4, <2>1, <2>2 DEF MarkOk, SetStatus, Settled
  <1>5. ASSUME NEW p \in Procs,
               \/ RequestBalance(p)
               \/ PrepareBalance(p)
               \/ PrepareSubscription(p)
               \/ Audit(p)
               \/ Deduct(p)
               \/ Shorten(p)
               \/ Revoke(p)
               \/ Rollback(p)
               \/ RollbackAudit(p)
               \/ Crash(p)
        PROVE  Goal
    BY <1>5, Invisible DEF RequestBalance, PrepareBalance, PrepareSubscription, Audit,
         Deduct, Shorten, Revoke, Rollback, RollbackAudit, Crash, row, provider
  <1>6. CASE Spend \/ DayPasses
    BY <1>6, Invisible DEF Spend, DayPasses, row, provider
  <1> QED BY <1>1, <1>2, <1>3, <1>4, <1>5, <1>6 DEF Next, HandlerStep

\* The provider confirms one refund of an order at most, and is asked for no more after
\* it or after the order is settled: the component implements RefundContract.
THEOREM ContractHolds == Spec => ImplementsContract
  <1>1. Init => Contract!Init
    <2> SUFFICES ASSUME Init PROVE Contract!Init
      OBVIOUS
    <2>1. ASSUME NEW o \in Orders PROVE (status[o] \in Settled) = FALSE
      <3>1. status[o] \notin Settled
        BY DEF Init, Settled
      <3> QED BY <3>1
    <2>2. [o \in Orders |-> status[o] \in Settled] = [o \in Orders |-> FALSE]
      BY <2>1
    <2> QED BY <2>2 DEF Init, Contract!Init
  <1>2. RefundInv /\ [Next]_vars => [Contract!Next]_(Contract!vars)
    BY ContractStep, Invisible DEF vars, row, provider
  <1> QED BY <1>1, <1>2, RefundInvariant, PTL
          DEF Spec, ImplementsContract, Contract!Spec

-----------------------------------------------------------------------------
(* What an attempt takes from the balance, until a statement fails *)

\* The two ways to take are those of the two kinds of orders.
BranchOfKind ==
  \A p \in Procs :
    /\ pc[p] = "deduct" => kind[cur[p]] = "balance"
    /\ pc[p] \in {"shorten", "revoke"} => kind[cur[p]] = "subscription"

\* A plan takes no more from a balance than it pays back.
TakesNoMore ==
  \A p \in Procs : pc[p] \in Holding \cup {"prepare", "lock"} /\ kind[cur[p]] = "balance" =>
    plan[p].take <= plan[p].amount

\* What the holder of the refund lock has taken from the balance.
TakenBy(p) ==
  /\ pc[p] \notin {"rollbackaudit", "refundfailed"}
  /\ taken[cur[p]] = IF pc[p] \in {"gateway", "rollback", "markok"} THEN plan[p].take ELSE 0

HolderTook == \A p \in Procs : pc[p] \in Holding /\ kind[cur[p]] = "balance" => TakenBy(p)

\* What is taken for an order: nothing while it can be refunded, no more than was paid
\* back once it is settled.
TakenFor(o) ==
  /\ taken[o] \in 0 .. Amount
  /\ status[o] \in Refundable => taken[o] = 0
  /\ status[o] \in Settled => taken[o] <= refundAmount[o]

BalanceTaken == \A o \in Orders : kind[o] = "balance" => TakenFor(o)

TakeInv ==
  /\ BranchOfKind /\ TakesNoMore
  /\ faults = 0 => HolderTook /\ BalanceTaken

\* A step without a fault follows steps without a fault.
LEMMA FaultsGrow == TypeOK /\ Next => faults' >= faults
  <1> SUFFICES ASSUME TypeOK, Next PROVE faults' >= faults
    OBVIOUS
  <1>0. faults \in Nat
    BY RefundConstants DEF TypeOK
  <1>1. ASSUME NEW p \in Procs, NEW o \in Orders, StartRequest(p, o) \/ StartRefund(p, o)
        PROVE  faults' >= faults
    BY <1>0, <1>1 DEF StartRequest, StartRefund, Start, counters
  <1>2. ASSUME NEW p \in Procs,
               \/ Request(p) \/ Lock(p) \/ Deduct(p) \/ MarkOk(p) \/ RollbackAudit(p)
               \/ RefundFailed(p) \/ Restore(p)
        PROVE  faults' >= faults
    BY <1>0, <1>2 DEF Request, Lock, Deduct, MarkOk, RollbackAudit, RefundFailed, Restore,
       Statement, Goto, Return, SetStatus
  <1>3. ASSUME NEW p \in Procs,
               \/ RequestBalance(p) \/ PrepareBalance(p) \/ PrepareSubscription(p)
               \/ Audit(p) \/ Shorten(p)
        PROVE  faults' >= faults
    BY <1>0, <1>3 DEF RequestBalance, PrepareBalance, PrepareSubscription, Audit, Shorten,
       Read, Goto, Return
  <1>4. ASSUME NEW p \in Procs, Revoke(p) PROVE faults' >= faults
    BY <1>0, <1>4 DEF Revoke, Statement, Goto
  <1>5. ASSUME NEW p \in Procs, Rollback(p) PROVE faults' >= faults
    BY <1>0, <1>5 DEF Rollback, Read, Statement, Goto
  <1>6. ASSUME NEW p \in Procs, Gateway(p) \/ Crash(p) PROVE faults' >= faults
    BY <1>0, <1>6 DEF Gateway, Crash
  <1>7. CASE Spend \/ DayPasses
    BY <1>0, <1>7 DEF Spend, DayPasses, counters
  <1> QED BY <1>1, <1>2, <1>3, <1>4, <1>5, <1>6, <1>7 DEF Next, HandlerStep

\* A statement that reports no failure was applied.
LEMMA NoFault ==
  ASSUME NEW applied \in BOOLEAN, NEW failed \in BOOLEAN, Statement(applied, failed),
         faults = 0, faults' = 0
  PROVE  applied /\ ~failed
  BY DEF Statement

\* A handler stays in the branch of its order's kind, and its plan takes no more than it
\* pays back.
LEMMA PlanStep ==
  ASSUME TypeOK, BranchOfKind, TakesNoMore, Next
  PROVE  BranchOfKind' /\ TakesNoMore'
  <1> DEFINE Goal == BranchOfKind' /\ TakesNoMore'
  <1> USE DEF BranchOfKind, TakesNoMore
  <1>1. ASSUME NEW p \in Procs, NEW o \in Orders, StartRequest(p, o) PROVE Goal
    BY <1>1 DEF StartRequest, Start, row, TypeOK, Holding, Before, After
  <1>2. ASSUME NEW p \in Procs, NEW o \in Orders, StartRefund(p, o) PROVE Goal
    BY <1>2 DEF StartRefund, Start, row, TypeOK, Holding, Before, After
  <1>3. ASSUME NEW p \in Procs, RequestBalance(p) PROVE Goal
    BY <1>3 DEF RequestBalance, Goto, Return, TypeOK, row, Holding, Before, After
  <1>4. ASSUME NEW p \in Procs, Request(p) PROVE Goal
    BY <1>4 DEF Request, Return, TypeOK, Holding, Before, After
  <1>5. ASSUME NEW p \in Procs, PrepareBalance(p) PROVE Goal
    <2>1. pc[p] = "prepare" /\ cur[p] \in Orders /\ plan[p] \in Plans /\ UNCHANGED kind
      BY <1>5 DEF PrepareBalance, TypeOK, row
    <2>2. \/ Return(p)
          \/ Goto(p, "lock")
          \/ /\ pc' = [pc EXCEPT ![p] = "lock"] /\ UNCHANGED cur
             /\ \E t \in Nat : /\ plan' = [plan EXCEPT ![p].take = t]
                               /\ t <= plan[p].amount
      <3> DEFINE t == IF balance > 0 THEN Lesser(plan[p].amount, balance) ELSE 0
      <3>1. t \in Nat /\ t <= plan[p].amount
        BY <2>1, RefundConstants DEF Lesser, Plans, TypeOK
      <3> QED BY <1>5, <3>1 DEF PrepareBalance
    <2>3. CASE Return(p)
      BY <2>1, <2>3 DEF Return, TypeOK, Holding, Before, After
    <2>4. CASE Goto(p, "lock")
      BY <2>1, <2>4 DEF Goto, TypeOK, Holding, Before, After
    <2>5. ASSUME NEW t \in Nat, t <= plan[p].amount, UNCHANGED cur,
                 pc' = [pc EXCEPT ![p] = "lock"], plan' = [plan EXCEPT ![p].take = t]
          PROVE  Goal
      BY <2>1, <2>5 DEF TypeOK, Plans, Holding, Before, After
    <2> QED BY <2>2, <2>3, <2>4, <2>5
  <1>6. ASSUME NEW p \in Procs, PrepareSubscription(p) PROVE Goal
    <2>1. /\ kind[cur[p]] = "subscription" /\ UNCHANGED kind
          /\ pc'[p] \in {"lock", "idle"} /\ (pc'[p] = "lock" => cur'[p] = cur[p])
          /\ \A q \in Procs \ {p} : pc'[q] = pc[q] /\ cur'[q] = cur[q] /\ plan'[q] = plan[q]
      BY <1>6 DEF PrepareSubscription, Goto, Return, TypeOK, row
    <2> QED BY <2>1 DEF Holding, Before, After
  <1>7. ASSUME NEW p \in Procs, Lock(p) PROVE Goal
    BY <1>7 DEF Lock, Goto, Return, TypeOK, Holding, Before, After
  <1>8. ASSUME NEW p \in Procs, Audit(p) PROVE Goal
    <2>1. pc[p] = "audit" /\ cur[p] \in Orders /\ plan[p] \in Plans /\ UNCHANGED <<kind, cur>>
      BY <1>8 DEF Audit, Goto, TypeOK, row
    <2>2. \/ /\ pc' = [pc EXCEPT ![p] = "gateway"]
             /\ plan' = [plan EXCEPT ![p].take = 0]
          \/ /\ pc' = [pc EXCEPT ![p] = IF kind[cur[p]] = "balance" THEN "deduct"
                                                                    ELSE "shorten"]
             /\ plan' = plan
      BY <1>8 DEF Audit, Goto
    <2>3. kind[cur[p]] \in {"balance", "subscription"}
      BY <2>1 DEF TypeOK
    <2>4. CASE pc' = [pc EXCEPT ![p] = "gateway"] /\ plan' = [plan EXCEPT ![p].take = 0]
      <3>1. \A q \in Procs : plan'[q].amount = plan[q].amount
        BY <2>4 DEF TypeOK, Plans
      <3>2. plan'[p].take = 0 /\ \A q \in Procs \ {p} : plan'[q] = plan[q] /\ pc'[q] = pc[q]
        BY <2>4 DEF TypeOK, Plans
      <3>3. 0 <= plan[p].amount
        BY RefundConstants DEF TypeOK, Plans
      <3> QED BY <2>1, <2>4, <3>1, <3>2, <3>3 DEF TypeOK
    <2>5. CASE /\ pc' = [pc EXCEPT ![p] = IF kind[cur[p]] = "balance" THEN "deduct" ELSE "shorten"]
               /\ plan' = plan
      BY <2>1, <2>3, <2>5 DEF TypeOK, Holding, Before
    <2> QED BY <2>2, <2>4, <2>5
  <1>9. ASSUME NEW p \in Procs, Deduct(p) \/ Gateway(p) PROVE Goal
    BY <1>9 DEF Deduct, Gateway, Goto, TypeOK, row, Holding, Before, After
  <1>10. ASSUME NEW p \in Procs, Shorten(p) PROVE Goal
    BY <1>10 DEF Shorten, Goto, TypeOK, row, Holding, Before, After
  <1>11. ASSUME NEW p \in Procs, Revoke(p) PROVE Goal
    BY <1>11 DEF Revoke, Goto, TypeOK, row, Holding, Before, After
  <1>12. ASSUME NEW p \in Procs, MarkOk(p) \/ RefundFailed(p) \/ Restore(p) PROVE Goal
    BY <1>12 DEF MarkOk, RefundFailed, Restore, Return, TypeOK, Holding, Before, After
  <1>13. ASSUME NEW p \in Procs, Rollback(p) \/ RollbackAudit(p) PROVE Goal
    BY <1>13 DEF Rollback, RollbackAudit, Goto, TypeOK, row, Holding, Before, After
  <1>14. ASSUME NEW p \in Procs, Crash(p) PROVE Goal
    BY <1>14 DEF Crash, Return, TypeOK, row, Holding, Before, After
  <1>15. CASE Spend \/ DayPasses
    BY <1>15 DEF Spend, DayPasses, row, handlers
  <1> QED BY <1>1, <1>2, <1>3, <1>4, <1>5, <1>6, <1>7, <1>8, <1>9, <1>10, <1>11, <1>12,
             <1>13, <1>14, <1>15 DEF Next, HandlerStep

\* A step of one handler that disturbs no order but its own keeps what it leaves right
\* there.
LEMMA OnlyHere ==
  ASSUME TypeOK, HolderTook, BalanceTaken, NEW p \in Procs, NEW o \in Orders, o = cur[p],
         UNCHANGED kind,
         \A q \in Procs \ {p} : pc'[q] = pc[q] /\ cur'[q] = cur[q] /\ plan'[q] = plan[q],
         \A q \in Procs \ {p} : pc[q] \in Holding =>
           cur[q] # o \/ taken'[o] = taken[o],
         \A i \in Orders \ {o} : /\ taken'[i] = taken[i]
                                /\ status'[i] = status[i]
                                /\ refundAmount'[i] = refundAmount[i],
         kind[o] = "balance" => TakenFor(o)',
         pc'[p] \in Holding => cur'[p] = o,
         pc'[p] \in Holding /\ kind[o] = "balance" => TakenBy(p)'
  PROVE  HolderTook' /\ BalanceTaken'
  <1>1. BalanceTaken'
    BY DEF BalanceTaken, TakenFor
  <1>2. ASSUME NEW q \in Procs, q # p, pc'[q] \in Holding, kind[cur[q]] = "balance"
        PROVE  TakenBy(q)'
    <2>1. taken'[cur[q]] = taken[cur[q]]
      BY <1>2 DEF TypeOK, Holding, Before, After
    <2> QED BY <1>2, <2>1 DEF HolderTook, TakenBy
  <1>3. HolderTook'
    BY <1>2 DEF HolderTook
  <1> QED BY <1>1, <1>3

\* Until a statement fails the holder of the lock knows what it took, and leaves nothing
\* taken unless the refund is settled.
LEMMA TakenStep ==
  ASSUME TypeOK, OneRefunder, BranchOfKind, TakesNoMore, HolderTook, BalanceTaken, Next,
         faults = 0, faults' = 0
  PROVE  HolderTook' /\ BalanceTaken'
  <1> DEFINE Goal == HolderTook' /\ BalanceTaken'
  <1>k. \A p \in Procs : pc[p] # "idle" => /\ cur[p] \in Orders /\ plan[p] \in Plans
                                          /\ kind[cur[p]] \in {"balance", "subscription"}
                                          /\ status[cur[p]] \in Statuses
                                          /\ taken[cur[p]] \in Int
    BY DEF TypeOK
  <1>q. \A p \in Procs : pc[p] \in Holding => /\ status[cur[p]] = "REFUNDING"
                                             /\ \A q \in Procs \ {p} :
                                                  pc[q] \in Holding => cur[q] # cur[p]
    BY DEF OneRefunder
  <1>1. ASSUME NEW p \in Procs, NEW o \in Orders, StartRequest(p, o) \/ StartRefund(p, o)
        PROVE  Goal
    <2>1. /\ UNCHANGED <<status, kind, refundAmount, taken>>
          /\ pc'[p] \notin Holding
          /\ \A q \in Procs \ {p} : pc'[q] = pc[q] /\ cur'[q] = cur[q] /\ plan'[q] = plan[q]
      BY <1>1 DEF StartRequest, StartRefund, Start, TypeOK, row, account, Holding, Before,
         After
    <2> QED BY <2>1 DEF HolderTook, BalanceTaken, TakenBy, TakenFor
  <1>2. ASSUME NEW p \in Procs,
               RequestBalance(p) \/ PrepareBalance(p) \/ PrepareSubscription(p)
        PROVE  Goal
    <2>1. UNCHANGED <<status, kind, refundAmount, taken>>
      BY <1>2 DEF RequestBalance, PrepareBalance, PrepareSubscription, row, account
    <2>2. /\ pc'[p] \notin Holding
          /\ \A q \in Procs \ {p} : pc'[q] = pc[q] /\ cur'[q] = cur[q] /\ plan'[q] = plan[q]
      <3> USE DEF Goto, Return, TypeOK, Holding, Before, After
      <3>1. CASE RequestBalance(p)
        BY <3>1 DEF RequestBalance
      <3>2. CASE PrepareBalance(p)
        BY <3>2 DEF PrepareBalance
      <3>3. CASE PrepareSubscription(p)
        BY <3>3 DEF PrepareSubscription
      <3> QED BY <1>2, <3>1, <3>2, <3>3
    <2> QED BY <2>1, <2>2 DEF HolderTook, BalanceTaken, TakenBy, TakenFor
  <1>3. ASSUME NEW p \in Procs, Request(p) PROVE Goal
    <2>0. PICK o \in Orders : o = cur[p]
      BY <1>3, <1>k DEF Request
    <2>1. /\ cur[p] \in Orders /\ UNCHANGED <<kind, taken>> /\ pc'[p] \notin Holding
          /\ \A q \in Procs \ {p} : pc'[q] = pc[q] /\ cur'[q] = cur[q] /\ plan'[q] = plan[q]
      BY <1>3 DEF Request, Return, TypeOK, account, Holding, Before, After
    <2>2. \A i \in Orders \ {o} : status'[i] = status[i]
                                       /\ refundAmount'[i] = refundAmount[i]
      BY <2>0, <1>3, <2>1 DEF Request, SetStatus, TypeOK
    <2>3. \/ UNCHANGED <<status, refundAmount>>
          \/ /\ status[cur[p]] = "COMPLETED"
             /\ status' = [status EXCEPT ![cur[p]] = "REFUND_REQUESTED"]
      BY <1>3 DEF Request, SetStatus, NoFault
    <2>4. kind[cur[p]] = "balance" => TakenFor(o)'
      BY <2>0, <2>1, <2>3 DEF BalanceTaken, TakenFor, TypeOK, Refundable, Settled
    <2> QED BY <2>1, <2>2, <2>4, <2>0, OnlyHere
  <1>4. ASSUME NEW p \in Procs, Lock(p) PROVE Goal
    <2>0. PICK o \in Orders : o = cur[p]
      BY <1>4, <1>k DEF Lock
    <2>1. /\ pc[p] = "lock" /\ cur[p] \in Orders /\ plan[p] \in Plans
          /\ UNCHANGED <<kind, refundAmount, taken>>
      BY <1>4 DEF Lock, TypeOK, account
    <2>2. PICK applied, failed \in BOOLEAN :
            /\ Statement(applied, failed)
            /\ SetStatus(p, applied /\ status[cur[p]] \in Refundable, "REFUNDING")
            /\ IF failed \/ status[cur[p]] \notin Refundable THEN Return(p)
               ELSE Goto(p, IF plan[p].take > 0 THEN "audit" ELSE "gateway")
      BY <1>4 DEF Lock
    <2>3. applied /\ ~failed
      BY <2>2, NoFault
    <2>4. CASE status[cur[p]] \in Refundable
      <3>1. /\ status' = [status EXCEPT ![cur[p]] = "REFUNDING"]
            /\ Goto(p, IF plan[p].take > 0 THEN "audit" ELSE "gateway")
        BY <2>2, <2>3, <2>4 DEF SetStatus
      <3>2. kind[cur[p]] = "balance" => taken[cur[p]] = 0
        BY <2>1, <2>4 DEF BalanceTaken, TakenFor
      <3>3. kind[cur[p]] = "balance" => TakenFor(o)'
        BY <2>0, <2>1, <3>1, <3>2, RefundConstants DEF TakenFor, TypeOK, Refundable, Settled
      <3>4. kind[cur[p]] = "balance" => TakenBy(p)'
        BY <2>1, <3>1, <3>2 DEF Goto, TakenBy, TypeOK, Plans
      <3>5. \A i \in Orders \ {o} : status'[i] = status[i]
        BY <2>0, <2>1, <3>1 DEF TypeOK
      <3>6. /\ cur'[p] = cur[p]
            /\ \A q \in Procs \ {p} : pc'[q] = pc[q] /\ cur'[q] = cur[q] /\ plan'[q] = plan[q]
        BY <3>1 DEF Goto, TypeOK
      <3> QED BY <2>1, <3>3, <3>4, <3>5, <3>6, <2>0, OnlyHere
    <2>5. CASE status[cur[p]] \notin Refundable
      <3>1. UNCHANGED status /\ Return(p)
        BY <2>2, <2>5 DEF SetStatus
      <3>2. /\ pc'[p] \notin Holding
            /\ \A q \in Procs \ {p} : pc'[q] = pc[q] /\ cur'[q] = cur[q] /\ plan'[q] = plan[q]
        BY <3>1 DEF Return, TypeOK, Holding, Before, After
      <3> QED BY <2>1, <3>1, <3>2 DEF HolderTook, BalanceTaken, TakenBy, TakenFor
    <2> QED BY <2>4, <2>5
  <1>5. ASSUME NEW p \in Procs, Audit(p) PROVE Goal
    <2>0. PICK o \in Orders : o = cur[p]
      BY <1>5, <1>k DEF Audit
    <2>1. /\ pc[p] = "audit" /\ UNCHANGED <<status, kind, refundAmount, taken, cur>>
      BY <1>5 DEF Audit, Goto, row, account
    <2>2. \/ /\ pc' = [pc EXCEPT ![p] = "gateway"]
             /\ plan' = [plan EXCEPT ![p].take = 0]
          \/ \E l \in {"deduct", "shorten"} : pc' = [pc EXCEPT ![p] = l] /\ UNCHANGED plan
      BY <1>5 DEF Audit, Goto
    <2>3. kind[cur[p]] = "balance" => taken[cur[p]] = 0
      BY <2>1 DEF HolderTook, TakenBy, Holding, Before
    <2>4. kind[cur[p]] = "balance" => TakenBy(p)'
      BY <2>1, <2>2, <2>3, <1>k DEF TakenBy, TypeOK, Plans
    <2>5. \A q \in Procs \ {p} : pc'[q] = pc[q] /\ plan'[q] = plan[q]
      BY <2>2 DEF TypeOK
    <2>6. kind[cur[p]] = "balance" => TakenFor(o)'
      BY <2>0, <2>1, <1>k DEF BalanceTaken, TakenFor
    <2> QED BY <2>1, <2>4, <2>5, <2>6, <1>k, <2>0, OnlyHere
  <1>6. ASSUME NEW p \in Procs, Deduct(p) PROVE Goal
    <2>0. PICK o \in Orders : o = cur[p]
      BY <1>6, <1>k DEF Deduct
    <2>1. /\ pc[p] = "deduct" /\ UNCHANGED <<status, kind, refundAmount>>
      BY <1>6 DEF Deduct, row
    <2>2. PICK applied, failed \in BOOLEAN :
            /\ Statement(applied, failed)
            /\ taken' = IF applied THEN [taken EXCEPT ![cur[p]] = @ + plan[p].take] ELSE taken
            /\ Goto(p, IF failed THEN "restore" ELSE "gateway")
      BY <1>6 DEF Deduct
    <2>3. taken' = [taken EXCEPT ![cur[p]] = @ + plan[p].take] /\ Goto(p, "gateway")
      BY <2>2, NoFault
    <2>4. /\ kind[cur[p]] = "balance" /\ taken[cur[p]] = 0
          /\ plan[p].take \in 0 .. Amount /\ cur[p] \in Orders
      <3>1. kind[cur[p]] = "balance" /\ pc[p] \in Holding
        BY <2>1 DEF BranchOfKind, Holding, Before
      <3>2. taken[cur[p]] = 0
        BY <2>1, <3>1 DEF HolderTook, TakenBy
      <3>3. plan[p] \in Plans /\ plan[p].take <= plan[p].amount /\ cur[p] \in Orders
        BY <2>1, <3>1, <1>k DEF TakesNoMore
      <3> QED BY <3>1, <3>2, <3>3, RefundConstants DEF Plans
    <2>5. taken'[cur[p]] = plan[p].take /\ \A i \in Orders \ {o} : taken'[i] = taken[i]
      BY <2>0, <2>3, <2>4 DEF TypeOK
    <2>6. TakenFor(o)'
      BY <2>0, <2>1, <2>3, <2>4, <2>5, <1>q DEF TakenFor, Goto, Holding, Before, Refundable, Settled
    <2>7. /\ pc'[p] = "gateway" /\ cur'[p] = cur[p] /\ plan'[p] = plan[p]
          /\ \A q \in Procs \ {p} : pc'[q] = pc[q] /\ cur'[q] = cur[q] /\ plan'[q] = plan[q]
      BY <2>3 DEF Goto, TypeOK
    <2>8. TakenBy(p)'
      BY <2>5, <2>7 DEF TakenBy
    <2>9. \A q \in Procs \ {p} : pc[q] \in Holding => cur[q] # cur[p]
      BY <2>1, <1>q DEF Holding, Before
    <2> QED BY <2>1, <2>4, <2>5, <2>6, <2>7, <2>8, <2>9, <2>0, OnlyHere
  <1>7. ASSUME NEW p \in Procs, Shorten(p) \/ Revoke(p) PROVE Goal
    <2>0. PICK o \in Orders : o = cur[p]
      BY <1>7, <1>k DEF Shorten, Revoke
    <2>1. /\ pc[p] \in {"shorten", "revoke"} /\ UNCHANGED <<status, kind, refundAmount>>
      BY <1>7 DEF Shorten, Revoke, row
    <2>2. kind[cur[p]] = "subscription" /\ cur[p] \in Orders /\ pc[p] \in Holding
      BY <2>1, <1>k DEF BranchOfKind, Holding, Before
    <2>3. \E l \in Labels : Goto(p, l)
      BY <1>7 DEF Shorten, Revoke, Labels, Holding, Before, After
    <2>4. \A i \in Orders \ {o} : taken'[i] = taken[i]
      <3>1. CASE Shorten(p)
        BY <2>0, <2>2, <3>1 DEF Shorten, TypeOK
      <3>2. CASE Revoke(p)
        BY <2>0, <2>2, <3>2 DEF Revoke, TypeOK
      <3> QED BY <1>7, <3>1, <3>2
    <2>5. /\ cur'[p] = cur[p]
          /\ \A q \in Procs \ {p} : pc'[q] = pc[q] /\ cur'[q] = cur[q] /\ plan'[q] = plan[q]
      BY <2>3 DEF Goto, TypeOK
    <2>6. \A q \in Procs \ {p} : pc[q] \in Holding => cur[q] # cur[p]
      BY <2>2, <1>q
    <2> QED BY <2>1, <2>2, <2>4, <2>5, <2>6, <2>0, OnlyHere
  <1>8. ASSUME NEW p \in Procs, Gateway(p) PROVE Goal
    <2>0. PICK o \in Orders : o = cur[p]
      BY <1>8, <1>k DEF Gateway
    <2>1. /\ pc[p] = "gateway" /\ UNCHANGED <<status, kind, refundAmount, taken>>
          /\ \E l \in {"markok", "rollback"} : Goto(p, l)
      BY <1>8 DEF Gateway, row, account
    <2>2. /\ pc'[p] \in {"markok", "rollback"} /\ cur'[p] = o /\ plan'[p] = plan[p]
          /\ \A q \in Procs \ {p} : pc'[q] = pc[q] /\ cur'[q] = cur[q] /\ plan'[q] = plan[q]
      BY <2>0, <2>1 DEF Goto, TypeOK
    <2>3. kind[o] = "balance" => TakenBy(p)'
      BY <2>0, <2>1, <2>2 DEF HolderTook, TakenBy, Holding, Before
    <2>4. kind[o] = "balance" => TakenFor(o)'
      BY <2>1 DEF BalanceTaken, TakenFor
    <2> QED BY <2>0, <2>1, <2>2, <2>3, <2>4, OnlyHere
  <1>9. ASSUME NEW p \in Procs, MarkOk(p) PROVE Goal
    <2>0. PICK o \in Orders : o = cur[p]
      BY <1>9, <1>k DEF MarkOk
    <2>1. /\ pc[p] = "markok" /\ UNCHANGED <<kind, taken>> /\ plan[p] \in Plans
          /\ pc'[p] \notin Holding
          /\ \A q \in Procs \ {p} : pc'[q] = pc[q] /\ cur'[q] = cur[q] /\ plan'[q] = plan[q]
      BY <1>9, <1>k DEF MarkOk, Return, TypeOK, account, Holding, Before, After
    <2>2. PICK applied, failed \in BOOLEAN :
            /\ Statement(applied, failed)
            /\ SetStatus(p, applied, IF plan[p].amount < Amount THEN "PARTIALLY_REFUNDED"
                                                                ELSE "REFUNDED")
            /\ refundAmount' = IF applied THEN [refundAmount EXCEPT ![o] = plan[p].amount]
                                          ELSE refundAmount
      BY <2>0, <1>9 DEF MarkOk
    <2>3. applied
      BY <2>2, NoFault
    <2>4. /\ status'[o] \notin Refundable /\ refundAmount'[o] = plan[p].amount
          /\ \A i \in Orders \ {o} : status'[i] = status[i]
                                    /\ refundAmount'[i] = refundAmount[i]
      BY <2>0, <2>2, <2>3 DEF SetStatus, TypeOK, Refundable
    <2>5. ASSUME kind[o] = "balance" PROVE TakenFor(o)'
      <3>1. taken[o] = plan[p].take /\ taken[o] <= plan[p].amount
        BY <2>0, <2>1, <2>5 DEF HolderTook, TakenBy, TakesNoMore, Holding
      <3>2. taken[o] \in 0 .. Amount
        BY <2>5 DEF BalanceTaken, TakenFor
      <3> QED BY <2>1, <2>4, <3>1, <3>2 DEF TakenFor
    <2> QED BY <2>0, <2>1, <2>4, <2>5, OnlyHere
  <1>10. ASSUME NEW p \in Procs, Rollback(p) PROVE Goal
    <2>0. PICK o \in Orders : o = cur[p]
      BY <1>10, <1>k DEF Rollback
    <2>1. pc[p] = "rollback" /\ plan[p] \in Plans /\ UNCHANGED <<status, kind, refundAmount>>
      BY <1>10, <1>k DEF Rollback, row
    <2>2. \E l \in {"restore", "rollbackaudit"} : Goto(p, l)
      BY <1>10 DEF Rollback
    <2>3. /\ cur'[p] = o /\ plan'[p] = plan[p]
          /\ \A q \in Procs \ {p} : pc'[q] = pc[q] /\ cur'[q] = cur[q] /\ plan'[q] = plan[q]
      BY <2>0, <2>2 DEF Goto, TypeOK
    <2>4. \A i \in Orders \ {o} : taken'[i] = taken[i]
      BY <2>0, <1>10 DEF Rollback, account, TypeOK
    <2>5. \A q \in Procs \ {p} : pc[q] \in Holding => cur[q] # o
      BY <2>0, <2>1, <1>q DEF Holding, After
    <2>6. ASSUME kind[o] = "balance" PROVE pc'[p] = "restore" /\ taken'[o] = 0
      <3>1. taken[o] = plan[p].take /\ plan[p].take \in Nat
        BY <2>0, <2>1, <2>6 DEF HolderTook, TakenBy, Holding, After, Plans
      <3>2. CASE plan[p].take = 0
        BY <2>0, <2>1, <3>1, <3>2, <1>10 DEF Rollback, Goto, account, TypeOK
      <3>3. CASE plan[p].take > 0
        <4>1. PICK applied, failed \in BOOLEAN :
                /\ Statement(applied, failed)
                /\ applied => taken' = [taken EXCEPT ![o] = @ - plan[p].take]
                /\ Goto(p, IF failed THEN "rollbackaudit" ELSE "restore")
          BY <2>0, <2>6, <3>3, <1>10 DEF Rollback
        <4>2. applied /\ ~failed
          BY <4>1, NoFault
        <4> QED BY <3>1, <4>1, <4>2 DEF Goto, TypeOK
      <3> QED BY <3>1, <3>2, <3>3
    <2>7. kind[o] = "balance" => TakenBy(p)'
      BY <2>3, <2>6 DEF TakenBy
    <2>8. kind[o] = "balance" => TakenFor(o)'
      BY <2>0, <2>1, <2>6, <1>q, RefundConstants
         DEF TakenFor, Holding, After, Refundable, Settled
    <2> QED BY <2>0, <2>1, <2>3, <2>4, <2>5, <2>7, <2>8, OnlyHere
  <1>11. ASSUME NEW p \in Procs, RollbackAudit(p) \/ RefundFailed(p) PROVE Goal
    <2>0. PICK o \in Orders : o = cur[p]
      BY <1>11, <1>k DEF RollbackAudit, RefundFailed
    <2>1. /\ pc[p] \in {"rollbackaudit", "refundfailed"}
          /\ UNCHANGED <<kind, refundAmount, taken>>
      BY <1>11 DEF RollbackAudit, RefundFailed, account
    <2>2. kind[o] # "balance"
      BY <2>0, <2>1 DEF HolderTook, TakenBy, Holding, After
    <2>3. /\ pc'[p] \in Holding => cur'[p] = o
          /\ \A q \in Procs \ {p} : pc'[q] = pc[q] /\ cur'[q] = cur[q] /\ plan'[q] = plan[q]
      BY <2>0, <1>11 DEF RollbackAudit, RefundFailed, Goto, Return, TypeOK, Holding, Before,
         After
    <2>4. \A i \in Orders \ {o} : status'[i] = status[i]
      BY <2>0, <1>11 DEF RollbackAudit, RefundFailed, SetStatus, TypeOK
    <2> QED BY <2>0, <2>1, <2>2, <2>3, <2>4, OnlyHere
  <1>12. ASSUME NEW p \in Procs, Restore(p) PROVE Goal
    <2>0. PICK o \in Orders : o = cur[p]
      BY <1>12, <1>k DEF Restore
    <2>1. /\ pc[p] = "restore" /\ UNCHANGED <<kind, refundAmount, taken>>
          /\ pc'[p] \notin Holding
          /\ \A q \in Procs \ {p} : pc'[q] = pc[q] /\ cur'[q] = cur[q] /\ plan'[q] = plan[q]
      BY <1>12 DEF Restore, Return, TypeOK, account, Holding, Before, After
    <2>2. \E s \in Refundable : status' = status \/ status' = [status EXCEPT ![o] = s]
      BY <2>0, <1>12 DEF Restore, SetStatus, Refundable
    <2>3. kind[o] = "balance" => taken[o] = 0
      BY <2>0, <2>1 DEF HolderTook, TakenBy, Holding, After
    <2>4. kind[o] = "balance" => TakenFor(o)'
      BY <2>1, <2>2, <2>3, RefundConstants DEF BalanceTaken, TakenFor, TypeOK, Refundable,
         Settled
    <2>5. \A i \in Orders \ {o} : status'[i] = status[i]
      BY <2>2 DEF TypeOK
    <2> QED BY <2>0, <2>1, <2>4, <2>5, OnlyHere
  <1>13. ASSUME NEW p \in Procs, Crash(p) PROVE Goal
    <2>1. /\ UNCHANGED <<status, kind, refundAmount, taken>> /\ pc'[p] \notin Holding
          /\ \A q \in Procs \ {p} : pc'[q] = pc[q] /\ cur'[q] = cur[q] /\ plan'[q] = plan[q]
      BY <1>13 DEF Crash, Return, TypeOK, row, account, Holding, Before, After
    <2> QED BY <2>1 DEF HolderTook, BalanceTaken, TakenBy, TakenFor
  <1>14. CASE Spend \/ DayPasses
    BY <1>14 DEF Spend, DayPasses, HolderTook, BalanceTaken, TakenBy, TakenFor, row, handlers
  <1> QED BY <1>1, <1>2, <1>3, <1>4, <1>5, <1>6, <1>7, <1>8, <1>9, <1>10, <1>11, <1>12,
             <1>13, <1>14 DEF Next, HandlerStep

\* The invariant holds at the start,
LEMMA TakeInvInit == Init => TakeInv
  <1> SUFFICES ASSUME Init PROVE TakeInv
    OBVIOUS
  <1>1. /\ \A p \in Procs : pc[p] = "idle"
        /\ \A o \in Orders : status[o] = "COMPLETED" /\ taken[o] = 0
    BY DEF Init
  <1> QED BY <1>1, RefundConstants
          DEF TakeInv, BranchOfKind, TakesNoMore, HolderTook, BalanceTaken, TakenFor, Holding,
              Before, After, Settled

\* and every step keeps it.
LEMMA TakeInvStep ==
  TypeOK /\ OneRefunder /\ TakeInv /\ [Next]_vars => TakeInv'
  <1> SUFFICES ASSUME TypeOK, OneRefunder, TakeInv, [Next]_vars PROVE TakeInv'
    OBVIOUS
  <1>1. CASE Next
    <2>1. BranchOfKind' /\ TakesNoMore'
      BY <1>1, PlanStep DEF TakeInv
    <2>2. ASSUME faults' = 0 PROVE HolderTook' /\ BalanceTaken'
      <3>1. faults = 0
        BY <1>1, <2>2, FaultsGrow, RefundConstants DEF TypeOK
      <3> QED BY <1>1, <2>2, <3>1, TakenStep DEF TakeInv
    <2> QED BY <2>1, <2>2 DEF TakeInv
  <1>2. CASE UNCHANGED vars
    BY <1>2 DEF vars, row, account, handlers, counters, TakeInv, BranchOfKind, TakesNoMore,
       HolderTook, TakenBy, BalanceTaken, TakenFor
  <1> QED BY <1>1, <1>2

\* It holds in every reachable state.
LEMMA TakeInvariant == Spec => [](TypeOK /\ OneRefunder /\ TakeInv)
  <1>1. Init => TakeInv
    BY TakeInvInit
  <1>2. TypeOK /\ OneRefunder /\ TakeInv /\ [Next]_vars => TakeInv'
    BY TakeInvStep
  <1> QED BY <1>1, <1>2, LockInvariant, PTL DEF Spec

\* Until a statement fails, attempts to refund an order, at the same time or one after the
\* other, take no more from the balance than the order was worth, and no more than was
\* paid back (prepDeduct, ExecuteRefund, RollbackRefund).
THEOREM NothingTakenTwice == Spec => []TakenOnce
  <1>1. TypeOK /\ TakeInv => TakenOnce
    BY DEF TypeOK, TakeInv, BalanceTaken, TakenFor, TakenOnce
  <1> QED BY <1>1, TakeInvariant, PTL

\* Until a statement fails a refund that was not confirmed has left the balance whole,
\* whether it was refused or its answer lost (handleGwFail, restoreStatus).
THEOREM FailedRefundLeavesNothing == Spec => []CompletedBalanceIsWhole
  <1>1. RefundInv /\ TakeInv => CompletedBalanceIsWhole
    <2> SUFFICES ASSUME RefundInv, TakeInv, faults = 0, NEW o \in Orders,
                        kind[o] = "balance", status[o] \in {"COMPLETED", "REFUND_REQUESTED"}
                 PROVE  taken[o] = 0 /\ paidBack[o] = 0
      BY DEF CompletedBalanceIsWhole
    <2>1. taken[o] = 0
      BY DEF TakeInv, BalanceTaken, TakenFor, Refundable
    <2>2. paidBack[o] \in Nat /\ ~(paidBack[o] > 0)
      BY DEF RefundInv, TypeOK, PaidBackIsLocked, Settled
    <2> QED BY <2>1, <2>2
  <1> QED BY <1>1, RefundInvariant, TakeInvariant, PTL

=============================================================================
