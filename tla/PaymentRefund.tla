----------------------------- MODULE PaymentRefund -----------------------------
(***************************************************************************)
(* The refund of completed orders: the user's request, the administrator's *)
(* PrepareRefund and ExecuteRefund, and the roll-back when the provider    *)
(* does not return the money.  The orders belong to one user, who goes on  *)
(* spending the balance and whose subscription goes on running.            *)
(*                                                                         *)
(* As in PaymentFulfillment a process runs one handler, one statement or   *)
(* provider call per step; a statement may fail, applied or not; a handler *)
(* may be lost between two of them.                                        *)
(***************************************************************************)
EXTENDS Integers

CONSTANTS
  Orders,       \* ids of the user's completed orders
  Procs,        \* handlers that can run at the same time
  NoOrder,      \* the order of a process that has none
  Amount,       \* what an order is worth, in units of balance
  Days,         \* what an order for a subscription is worth
  MaxBalance,   \* bound: the balance at the start
  MaxTerm,      \* bound: the subscription's days at the start
  LostAcks,     \* a statement reported as failed may have been applied
  MaxRefusals,  \* bound: refunds the provider answers with an error
  MaxFaults,    \* bound: statements and queries that fail
  MaxCrashes    \* bound: handlers lost in the middle

ASSUME RefundConstants ==
  /\ NoOrder \notin Orders
  /\ Amount \in Nat \ {0} /\ Days \in Nat \ {0}
  /\ MaxBalance \in Nat /\ MaxTerm \in Nat
  /\ LostAcks \in BOOLEAN
  /\ MaxRefusals \in Nat /\ MaxFaults \in Nat /\ MaxCrashes \in Nat

VARIABLES
  \* the payment_orders row and the audit row that is read back
  status, kind, refundAmount,
  rollbackFailed,  \* a REFUND_ROLLBACK_FAILED row exists
  \* the provider
  traded,          \* the order has a trade number, so there is a payment
  paidBack,        \* the sum of the refunds it accepted for the order and confirmed
  unanswered,      \* the sum of those it accepted although the call ended in an error
  \* the user
  balance,
  term, revoked,   \* days left of the subscription; its row is deleted
  taken,           \* what the order's refunds took and have not given back
  \* the handlers
  pc, cur, plan,
  \* counters
  refusals, faults, crashes

row      == <<status, kind, refundAmount, rollbackFailed>>
provider == <<traded, paidBack, unanswered>>
account  == <<balance, term, revoked, taken>>
handlers == <<pc, cur, plan>>
counters == <<refusals, faults, crashes>>
vars     == <<row, provider, account, handlers, counters>>

Refundable == {"COMPLETED", "REFUND_REQUESTED", "REFUND_FAILED"}
Settled    == {"REFUNDED", "PARTIALLY_REFUNDED"}
Statuses   == Refundable \cup Settled \cup {"REFUNDING"}

\* Labels of a handler that took the refund lock (REFUNDING).
Before  == {"audit", "deduct", "shorten", "revoke", "gateway"}
After   == {"rollback", "rollbackaudit", "refundfailed", "restore"}
Holding == Before \cup After \cup {"markok"}
Labels  == Holding \cup {"idle", "reqbalance", "request", "prepare", "lock"}

\* RefundPlan.  requested: the snapshot's status was REFUND_REQUESTED; take:
\* BalanceToDeduct or, if a subscription was found, SubDaysToDeduct.
Plans == [requested : BOOLEAN, amount : 0 .. Amount, force : BOOLEAN, take : Nat]
NoPlan == [requested |-> FALSE, amount |-> 0, force |-> FALSE, take |-> 0]

TypeOK ==
  /\ status         \in [Orders -> Statuses]
  /\ kind           \in [Orders -> {"balance", "subscription"}]
  /\ refundAmount   \in [Orders -> 0 .. Amount]
  /\ rollbackFailed \in [Orders -> BOOLEAN]
  /\ traded         \in [Orders -> BOOLEAN]
  /\ paidBack       \in [Orders -> Nat]
  /\ unanswered     \in [Orders -> Nat]
  /\ balance        \in Int
  /\ term           \in Nat
  /\ revoked        \in BOOLEAN
  /\ taken          \in [Orders -> Int]
  /\ pc             \in [Procs -> Labels]
  /\ cur            \in [Procs -> Orders \cup {NoOrder}]
  /\ plan           \in [Procs -> Plans]
  /\ refusals       \in 0 .. MaxRefusals
  /\ faults         \in 0 .. MaxFaults
  /\ crashes        \in 0 .. MaxCrashes
  /\ \A p \in Procs : pc[p] # "idle" => cur[p] \in Orders

Init ==
  /\ status = [o \in Orders |-> "COMPLETED"]
  /\ kind \in [Orders -> {"balance", "subscription"}]
  /\ refundAmount = [o \in Orders |-> 0]
  /\ rollbackFailed = [o \in Orders |-> FALSE]
  /\ traded \in [Orders -> BOOLEAN]
  /\ paidBack = [o \in Orders |-> 0] /\ unanswered = [o \in Orders |-> 0]
  /\ balance \in 0 .. MaxBalance
  /\ term \in 0 .. MaxTerm
  /\ revoked = FALSE
  /\ taken = [o \in Orders |-> 0]
  /\ pc = [p \in Procs |-> "idle"]
  /\ cur = [p \in Procs |-> NoOrder]
  /\ plan = [p \in Procs |-> NoPlan]
  /\ refusals = 0 /\ faults = 0 /\ crashes = 0

-----------------------------------------------------------------------------
(* Control of a handler *)

Lesser(a, b) == IF a < b THEN a ELSE b

\* A statement was applied or not and was reported as failed or not.
Statement(applied, failed) ==
  IF failed THEN (applied => LostAcks) /\ faults < MaxFaults /\ faults' = faults + 1
            ELSE applied /\ faults' = faults

\* A query answers or fails.
Read(failed) ==
  IF failed THEN faults < MaxFaults /\ faults' = faults + 1 ELSE faults' = faults

Start(p, o, label, newPlan) ==
  /\ pc[p] = "idle"
  /\ pc' = [pc EXCEPT ![p] = label]
  /\ cur' = [cur EXCEPT ![p] = o]
  /\ plan' = [plan EXCEPT ![p] = newPlan]
  /\ UNCHANGED <<row, provider, account, counters>>

Goto(p, label) == pc' = [pc EXCEPT ![p] = label] /\ UNCHANGED <<cur, plan>>

Return(p) ==
  /\ pc' = [pc EXCEPT ![p] = "idle"]
  /\ cur' = [cur EXCEPT ![p] = NoOrder]
  /\ plan' = [plan EXCEPT ![p] = NoPlan]

SetStatus(p, applied, s) ==
  status' = IF applied THEN [status EXCEPT ![cur[p]] = s] ELSE status

-----------------------------------------------------------------------------
(* RequestRefund, by the user *)

\* validateRefundRequest
StartRequest(p, o) ==
  /\ status[o] = "COMPLETED" /\ kind[o] = "balance"
  /\ Start(p, o, "reqbalance", NoPlan)

RequestBalance(p) ==
  /\ pc[p] = "reqbalance"
  /\ \E failed \in BOOLEAN :
       /\ Read(failed)
       /\ IF failed \/ balance < Amount THEN Return(p) ELSE Goto(p, "request")
  /\ UNCHANGED <<row, provider, account, refusals, crashes>>

Request(p) ==
  LET o == cur[p] IN
  /\ pc[p] = "request"
  /\ \E applied, failed \in BOOLEAN :
       /\ Statement(applied, failed)
       /\ SetStatus(p, applied /\ status[o] = "COMPLETED", "REFUND_REQUESTED")
       /\ refundAmount' = IF applied /\ status[o] = "COMPLETED"
                          THEN [refundAmount EXCEPT ![o] = Amount] ELSE refundAmount
  /\ Return(p)
  /\ UNCHANGED <<kind, rollbackFailed, provider, account, refusals, crashes>>

-----------------------------------------------------------------------------
(* PrepareRefund and ExecuteRefund, by an administrator *)

\* PrepareRefund for an order of a provider instance whose refunds are enabled.
StartRefund(p, o) ==
  \E amount \in 1 .. Amount, force, deduct \in BOOLEAN :
    /\ status[o] \in Refundable
    /\ Start(p, o, IF deduct THEN "prepare" ELSE "lock",
             [requested |-> status[o] = "REFUND_REQUESTED", amount |-> amount,
              force |-> force, take |-> 0])

\* prepDeduct for a balance: what can be taken is settled here, before the lock.
PrepareBalance(p) ==
  /\ pc[p] = "prepare" /\ kind[cur[p]] = "balance"
  /\ \E failed \in BOOLEAN :
       /\ Read(failed)
       /\ IF failed THEN IF plan[p].force THEN Goto(p, "lock") ELSE Return(p)
          ELSE /\ pc' = [pc EXCEPT ![p] = "lock"]
               /\ plan' = [plan EXCEPT ![p].take =
                             IF balance > 0 THEN Lesser(plan[p].amount, balance) ELSE 0]
               /\ UNCHANGED cur
  /\ UNCHANGED <<row, provider, account, refusals, crashes>>

\* prepDeduct for a subscription.  GetActiveSubscription answers from a cache,
\* so it may also find one that has ended.
PrepareSubscription(p) ==
  /\ pc[p] = "prepare" /\ kind[cur[p]] = "subscription"
  /\ \E found, failed \in BOOLEAN :
       /\ Read(failed)
       /\ IF failed THEN ~found ELSE found \/ revoked \/ term = 0
       /\ IF found THEN /\ pc' = [pc EXCEPT ![p] = "lock"]
                        /\ plan' = [plan EXCEPT ![p].take = Days]
                        /\ UNCHANGED cur
          ELSE IF plan[p].force THEN Goto(p, "lock") ELSE Return(p)
  /\ UNCHANGED <<row, provider, account, refusals, crashes>>

\* Mutant: the lock is taken whatever the status is.
Lock_Unconditional(p) ==
  /\ pc[p] = "lock"
  /\ \E applied, failed \in BOOLEAN :
       /\ Statement(applied, failed)
       /\ SetStatus(p, applied, "REFUNDING")
       /\ IF failed THEN Return(p)
          ELSE Goto(p, IF plan[p].take > 0 THEN "audit" ELSE "gateway")
  /\ UNCHANGED <<kind, refundAmount, rollbackFailed, provider, account, refusals, crashes>>

\* ExecuteRefund's compare-and-set.
Lock(p) ==
  LET free == status[cur[p]] \in Refundable IN
  /\ pc[p] = "lock"
  /\ \E applied, failed \in BOOLEAN :
       /\ Statement(applied, failed)
       /\ SetStatus(p, applied /\ free, "REFUNDING")
       /\ IF failed \/ ~free THEN Return(p)
          ELSE Goto(p, IF plan[p].take > 0 THEN "audit" ELSE "gateway")
  /\ UNCHANGED <<kind, refundAmount, rollbackFailed, provider, account, refusals, crashes>>

\* hasAuditLog, which answers FALSE when its query fails.
Audit(p) ==
  /\ pc[p] = "audit"
  /\ \E failed \in BOOLEAN :
       /\ Read(failed)
       /\ IF ~failed /\ rollbackFailed[cur[p]]
          THEN /\ pc' = [pc EXCEPT ![p] = "gateway"]
               /\ plan' = [plan EXCEPT ![p].take = 0]
               /\ UNCHANGED cur
          ELSE Goto(p, IF kind[cur[p]] = "balance" THEN "deduct" ELSE "shorten")
  /\ UNCHANGED <<row, provider, account, refusals, crashes>>

\* DeductBalance lets the balance become negative.
Deduct(p) ==
  /\ pc[p] = "deduct"
  /\ \E applied, failed \in BOOLEAN :
       /\ Statement(applied, failed)
       /\ balance' = IF applied THEN balance - plan[p].take ELSE balance
       /\ taken' = IF applied THEN [taken EXCEPT ![cur[p]] = @ + plan[p].take] ELSE taken
       /\ Goto(p, IF failed THEN "restore" ELSE "gateway")
  /\ UNCHANGED <<row, provider, term, revoked, refusals, crashes>>

\* ExtendSubscription by -Days: an ended one is an error, one that would end is
\* revoked.  The function reads the row once more after its update, so it can
\* fail although the update was applied.
Shorten(p) ==
  /\ pc[p] = "shorten"
  /\ IF revoked \/ term = 0
     THEN Goto(p, "restore") /\ UNCHANGED <<term, taken, faults>>
     ELSE IF term <= plan[p].take
     THEN Goto(p, "revoke") /\ UNCHANGED <<term, taken, faults>>
     ELSE \E applied, failed \in BOOLEAN :
            /\ Read(failed) /\ (failed \/ applied)
            /\ term' = IF applied THEN term - plan[p].take ELSE term
            /\ taken' = IF applied THEN [taken EXCEPT ![cur[p]] = @ + plan[p].take]
                                   ELSE taken
            /\ Goto(p, IF failed THEN "restore" ELSE "gateway")
  /\ UNCHANGED <<row, provider, balance, revoked, refusals, crashes>>

\* RevokeSubscription deletes the row; deleting no row is not an error, reading
\* none is.
Revoke(p) ==
  /\ pc[p] = "revoke"
  /\ IF revoked
     THEN Goto(p, "restore") /\ UNCHANGED <<revoked, taken, faults>>
     ELSE \E applied, failed \in BOOLEAN :
            /\ Statement(applied, failed)
            /\ revoked' = applied
            /\ taken' = IF applied THEN [taken EXCEPT ![cur[p]] = @ + term] ELSE taken
            /\ Goto(p, IF failed THEN "restore" ELSE "gateway")
  /\ UNCHANGED <<row, provider, balance, term, refusals, crashes>>

\* gwRefund.  An order without a trade number is skipped, and an accepted refund
\* that the provider has not carried out yet counts as a success.  Any error
\* counts as a refusal, a time-out after the provider accepted included.
Gateway(p) ==
  LET o == cur[p]
      error == refusals < MaxRefusals /\ refusals' = refusals + 1 /\ Goto(p, "rollback") IN
  /\ pc[p] = "gateway"
  /\ \/ ~traded[o] /\ Goto(p, "markok") /\ UNCHANGED <<paidBack, unanswered, refusals>>
     \/ /\ traded[o] /\ Goto(p, "markok")
        /\ paidBack' = [paidBack EXCEPT ![o] = @ + plan[p].amount]
        /\ UNCHANGED <<unanswered, refusals>>
     \/ /\ traded[o] /\ error
        /\ unanswered' = [unanswered EXCEPT ![o] = @ + plan[p].amount]
        /\ UNCHANGED paidBack
     \/ traded[o] /\ error /\ UNCHANGED <<paidBack, unanswered>>
  /\ UNCHANGED <<row, traded, account, faults, crashes>>

\* Mutant: the amount is recorded by the request alone.
MarkOk_KeepsAmount(p) ==
  /\ pc[p] = "markok"
  /\ \E applied, failed \in BOOLEAN :
       /\ Statement(applied, failed)
       /\ SetStatus(p, applied, IF plan[p].amount < Amount THEN "PARTIALLY_REFUNDED"
                                                           ELSE "REFUNDED")
  /\ Return(p)
  /\ UNCHANGED <<kind, refundAmount, rollbackFailed, provider, account, refusals, crashes>>

\* markRefundOk: an update by id; the order stays in REFUNDING when it fails.
MarkOk(p) ==
  /\ pc[p] = "markok"
  /\ \E applied, failed \in BOOLEAN :
       /\ Statement(applied, failed)
       /\ SetStatus(p, applied, IF plan[p].amount < Amount THEN "PARTIALLY_REFUNDED"
                                                           ELSE "REFUNDED")
       /\ refundAmount' = IF applied
                          THEN [refundAmount EXCEPT ![cur[p]] = plan[p].amount]
                          ELSE refundAmount
  /\ Return(p)
  /\ UNCHANGED <<kind, rollbackFailed, provider, account, refusals, crashes>>

-----------------------------------------------------------------------------
(* handleGwFail *)

\* Mutant: the status is restored before the balance is.
Rollback_Skipped(p) ==
  /\ pc[p] = "rollback"
  /\ Goto(p, "restore")
  /\ UNCHANGED <<row, provider, account, counters>>

\* RollbackRefund: UpdateBalance (its total_recharged left out) or
\* ExtendSubscription by Days, which fails for a revoked one.
Rollback(p) ==
  LET take == plan[p].take IN
  /\ pc[p] = "rollback"
  /\ \/ take = 0 /\ Goto(p, "restore") /\ UNCHANGED <<account, faults>>
     \/ /\ take > 0 /\ kind[cur[p]] = "subscription" /\ revoked
        /\ Goto(p, "rollbackaudit") /\ UNCHANGED <<account, faults>>
     \/ /\ take > 0 /\ (kind[cur[p]] = "subscription" => ~revoked)
        /\ \E applied, failed \in BOOLEAN :
             /\ IF kind[cur[p]] = "balance" THEN Statement(applied, failed)
                                            ELSE Read(failed) /\ (failed \/ applied)
             /\ IF applied
                THEN /\ taken' = [taken EXCEPT ![cur[p]] = @ - take]
                     /\ IF kind[cur[p]] = "balance"
                        THEN balance' = balance + take /\ UNCHANGED term
                        ELSE term' = term + take /\ UNCHANGED balance
                ELSE UNCHANGED <<taken, balance, term>>
             /\ Goto(p, IF failed THEN "rollbackaudit" ELSE "restore")
        /\ UNCHANGED revoked
  /\ UNCHANGED <<row, provider, refusals, crashes>>

\* writeAuditLog, whose failure is only logged.
RollbackAudit(p) ==
  /\ pc[p] = "rollbackaudit"
  /\ \E applied, failed \in BOOLEAN :
       /\ Statement(applied, failed)
       /\ rollbackFailed' = IF applied THEN [rollbackFailed EXCEPT ![cur[p]] = TRUE]
                                       ELSE rollbackFailed
  /\ Goto(p, "refundfailed")
  /\ UNCHANGED <<status, kind, refundAmount, provider, account, refusals, crashes>>

\* An update by id whose failure is ignored.
RefundFailed(p) ==
  /\ pc[p] = "refundfailed"
  /\ \E applied, failed \in BOOLEAN :
       Statement(applied, failed) /\ SetStatus(p, applied, "REFUND_FAILED")
  /\ Return(p)
  /\ UNCHANGED <<kind, refundAmount, rollbackFailed, provider, account, refusals, crashes>>

\* restoreStatus: an update by id whose failure is ignored.  The status is that
\* of the snapshot, or COMPLETED if the snapshot was REFUND_FAILED.
Restore(p) ==
  /\ pc[p] = "restore"
  /\ \E applied, failed \in BOOLEAN :
       /\ Statement(applied, failed)
       /\ SetStatus(p, applied, IF plan[p].requested THEN "REFUND_REQUESTED"
                                                     ELSE "COMPLETED")
  /\ Return(p)
  /\ UNCHANGED <<kind, refundAmount, rollbackFailed, provider, account, refusals, crashes>>

-----------------------------------------------------------------------------
(* The environment *)

\* Usage is billed to the balance; a day of the subscription passes.
Spend ==
  /\ balance > 0 /\ balance' = balance - 1
  /\ UNCHANGED <<row, provider, term, revoked, taken, handlers, counters>>

DayPasses ==
  /\ term > 0 /\ term' = term - 1
  /\ UNCHANGED <<row, provider, balance, revoked, taken, handlers, counters>>

Crash(p) ==
  /\ pc[p] # "idle" /\ crashes < MaxCrashes
  /\ crashes' = crashes + 1
  /\ Return(p)
  /\ UNCHANGED <<row, provider, account, refusals, faults>>

HandlerStep(p) ==
  \/ RequestBalance(p) \/ Request(p)
  \/ PrepareBalance(p) \/ PrepareSubscription(p) \/ Lock(p) \/ Audit(p)
  \/ Deduct(p) \/ Shorten(p) \/ Revoke(p) \/ Gateway(p) \/ MarkOk(p)
  \/ Rollback(p) \/ RollbackAudit(p) \/ RefundFailed(p) \/ Restore(p)

Next ==
  \/ \E p \in Procs, o \in Orders : StartRequest(p, o) \/ StartRefund(p, o)
  \/ \E p \in Procs : HandlerStep(p) \/ Crash(p)
  \/ Spend \/ DayPasses

Spec == Init /\ [][Next]_vars

-----------------------------------------------------------------------------
(* Properties *)

\* REFUNDING excludes: at most one handler is refunding an order, however its
\* statements fail and whichever handlers are lost, and while one does no other
\* operation changes the status (ExecuteRefund's compare-and-set, and the
\* updates by id alone of markRefundOk, handleGwFail and restoreStatus).
OneRefunder ==
  \A p \in Procs : pc[p] \in Holding =>
    /\ status[cur[p]] = "REFUNDING"
    /\ \A q \in Procs \ {p} : pc[q] \in Holding => cur[q] # cur[p]

\* The row of a settled refund states the amount the provider confirmed, also
\* when attempts for other amounts went before (markRefundOk).  What the provider
\* accepted in an attempt that ended in an error is not in the row: gwRefund
\* takes every error for a refusal.
SettledAmount ==
  \A o \in Orders : status[o] \in Settled /\ traded[o] => paidBack[o] = refundAmount[o]

\* Whatever statements fail and whichever handlers are lost, the provider confirms
\* one refund of an order at most, the order is final only then, and nothing more is
\* asked of the provider after either: money can be returned twice only by way of a
\* refund that it accepted and that was answered with an error.
Contract == INSTANCE RefundContract WITH
  returnable <- traded,
  paidBack   <- paidBack,
  unanswered <- unanswered,
  settled    <- [o \in Orders |-> status[o] \in Settled]

ImplementsContract == Contract!Spec

\* docs/PAYMENT.md: COMPLETED is "Balance credited successfully".  A balance order
\* that can be refunded again, or that nobody wants refunded, has its value with the
\* user, and no refund of it was confirmed by the provider: one that was not left
\* nothing taken, whoever spends the balance and whichever handlers are lost, unless
\* a statement fails (handleGwFail, RollbackRefund, restoreStatus).  Its money may
\* still be back with the payer, by a refund that was answered with an error.
CompletedBalanceIsWhole ==
  faults = 0 =>
    \A o \in Orders :
      kind[o] = "balance" /\ status[o] \in {"COMPLETED", "REFUND_REQUESTED"}
        => taken[o] = 0 /\ paidBack[o] = 0

\* Attempts for one order, one after the other or at the same time, never take
\* more from the balance than the amount of the refund that settled it, nor more
\* than the order's, unless a statement fails (the lock, and the comment on the
\* REFUND_ROLLBACK_FAILED audit row).
TakenOnce ==
  faults = 0 =>
    \A o \in Orders : kind[o] = "balance" =>
      /\ taken[o] \in 0 .. Amount
      /\ status[o] \in Settled => taken[o] <= refundAmount[o]

-----------------------------------------------------------------------------
(* The inductive invariant behind OneRefunder, SettledAmount and the contract *)

\* A plan that can reach the provider is for some amount.
PlanHasAmount ==
  \A p \in Procs : pc[p] \in Holding \cup {"prepare", "lock"} => plan[p].amount > 0

\* The provider has confirmed a refund only of an order whose refund is settled
\* or which no one but a handler about to settle it can touch.
PaidBackIsLocked ==
  \A o \in Orders : paidBack[o] > 0 =>
    /\ traded[o] /\ status[o] \in Settled \cup {"REFUNDING"}
    /\ \A p \in Procs : pc[p] \in Holding /\ cur[p] = o => pc[p] = "markok"

\* A handler about to settle has had its amount confirmed.
MarkOkIsPaid ==
  \A p \in Procs : pc[p] = "markok" /\ traded[cur[p]] =>
    paidBack[cur[p]] = plan[p].amount

RefundInv ==
  /\ TypeOK /\ OneRefunder
  /\ PlanHasAmount /\ PaidBackIsLocked /\ MarkOkIsPaid /\ SettledAmount

=============================================================================
