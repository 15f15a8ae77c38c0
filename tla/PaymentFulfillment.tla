-------------------------- MODULE PaymentFulfillment --------------------------
(***************************************************************************)
(* The life of a payment order: creation, the provider's notification, the *)
(* upstream query that replaces a lost notification, cancellation and      *)
(* time-out, fulfilment (crediting the balance or extending the            *)
(* subscription) and the administrator's retry.                            *)
(*                                                                         *)
(* A process is a goroutine running one handler.  Every database statement *)
(* (or transaction) and every provider call is one step, so handlers       *)
(* interleave between any two of them.  A statement may fail, applied or   *)
(* not (a commit whose acknowledgement is lost); a handler may be lost     *)
(* between two statements (a restart, a panic, a cancelled context).       *)
(***************************************************************************)
EXTENDS Naturals, FiniteSets

CONSTANTS
  Orders,       \* ids of the orders one user may place
  Procs,        \* handlers that can run at the same time
  NoOrder,      \* the order of a process that has none
  MaxPending,   \* cfg.MaxPendingOrders
  DailyLimit,   \* cfg.DailyLimit in orders of one unit each, 0 = no limit
  LegacyRows,   \* the table may hold rows of a release that set EXPIRED
  LostAcks,     \* a statement reported as failed may have been applied
  MaxFaults,    \* bound: statements and provider calls that fail
  MaxCrashes    \* bound: handlers lost in the middle

ASSUME ConstantsAssumption ==
  /\ NoOrder \notin Orders
  /\ MaxPending \in Nat /\ DailyLimit \in Nat
  /\ LegacyRows \in BOOLEAN /\ LostAcks \in BOOLEAN
  /\ MaxFaults \in Nat /\ MaxCrashes \in Nat

VARIABLES
  \* the payment_orders row
  status, kind, paidAt,
  fresh,        \* updated_at is within the grace period
  \* what the order's fulfilment wrote
  code,         \* the order's redeem code
  granted,      \* times the value was credited or the subscription extended
  rebated,      \* times the inviter was given a rebate for the order
  audit,        \* the audit rows that the code reads back
  \* the provider
  upstream, acked,
  \* the handlers
  pc, cur, op,
  \* fault counters
  faults, crashes

row      == <<status, kind, paidAt, fresh>>
ledger   == <<code, granted, rebated, audit>>
provider == <<upstream, acked>>
handlers == <<pc, cur, op>>
counters == <<faults, crashes>>
vars     == <<row, ledger, provider, handlers, counters>>

Kinds == {"balance", "subscription"}

\* REFUND stands for the five states of psIsRefundStatus, NONE for no row yet.
Statuses == {"NONE", "PENDING", "PAID", "RECHARGING", "COMPLETED", "FAILED",
             "CANCELLED", "EXPIRED", "REFUND"}

\* created: the provider knows the order, the user has no link to pay it yet.
\* mispaid: the provider reports a payment whose amount is not the order's.
Upstreams == {"none", "created", "open", "paid", "mispaid", "closed"}

Ops == {"none", "create", "notify", "cancel", "verify", "retry"}

Labels == {"idle", "insert", "call", "save", "createfail", "query", "close",
           "cancelcas", "confirm", "topaid", "already", "retryreset", "exec",
           "lock", "lookup", "createcode", "redeem", "rebate", "hasaudit",
           "assign", "complete", "success", "fail"}

\* Labels of a handler that has taken the fulfilment lock (RECHARGING).
Holding == {"lookup", "createcode", "redeem", "rebate", "hasaudit", "assign",
            "complete", "fail"}

TypeOK ==
  /\ status   \in [Orders -> Statuses]
  /\ kind     \in [Orders -> Kinds]
  /\ paidAt   \in [Orders -> BOOLEAN]
  /\ fresh    \in [Orders -> BOOLEAN]
  /\ code     \in [Orders -> {"none", "unused", "used"}]
  /\ granted  \in [Orders -> Nat]
  /\ rebated  \in [Orders -> Nat]
  /\ audit    \in [Orders -> SUBSET {"SUCCESS", "REBATE"}]
  /\ upstream \in [Orders -> Upstreams]
  /\ acked    \in [Orders -> BOOLEAN]
  /\ pc       \in [Procs -> Labels]
  /\ cur      \in [Procs -> Orders \cup {NoOrder}]
  /\ op       \in [Procs -> Ops]
  /\ faults   \in 0 .. MaxFaults
  /\ crashes  \in 0 .. MaxCrashes
  /\ \A p \in Procs : pc[p] # "idle" => cur[p] \in Orders

\* EXPIRED is only found in rows an earlier release wrote: no statement of this
\* one sets it (a timed-out order becomes CANCELLED).
Init ==
  /\ status \in [Orders -> IF LegacyRows THEN {"NONE", "EXPIRED"} ELSE {"NONE"}]
  /\ kind \in [Orders -> Kinds]
  /\ paidAt = [o \in Orders |-> FALSE]
  /\ fresh = [o \in Orders |-> TRUE]
  /\ code = [o \in Orders |-> "none"]
  /\ granted = [o \in Orders |-> 0]
  /\ rebated = [o \in Orders |-> 0]
  /\ audit = [o \in Orders |-> {}]
  /\ upstream = [o \in Orders |-> IF status[o] = "EXPIRED" THEN "open" ELSE "none"]
  /\ acked = [o \in Orders |-> FALSE]
  /\ pc = [p \in Procs |-> "idle"]
  /\ cur = [p \in Procs |-> NoOrder]
  /\ op = [p \in Procs |-> "none"]
  /\ faults = 0
  /\ crashes = 0

-----------------------------------------------------------------------------
(* Control of a handler *)

\* A statement was applied or not and was reported as failed or not.
Statement(applied, failed) ==
  IF failed THEN (applied => LostAcks) /\ faults < MaxFaults /\ faults' = faults + 1
            ELSE applied /\ faults' = faults

\* A query answers or fails.
Read(failed) ==
  IF failed THEN faults < MaxFaults /\ faults' = faults + 1 ELSE faults' = faults

Start(p, o, o_op, label) ==
  /\ pc[p] = "idle"
  /\ pc' = [pc EXCEPT ![p] = label]
  /\ cur' = [cur EXCEPT ![p] = o]
  /\ op' = [op EXCEPT ![p] = o_op]
  /\ UNCHANGED <<row, ledger, provider, counters>>

Goto(p, label) ==
  /\ pc' = [pc EXCEPT ![p] = label]
  /\ UNCHANGED <<cur, op, acked>>

\* The handler returns.  A webhook whose handler returns nil is answered with
\* 2xx, and the provider stops sending it; an error is answered with 500.
Return(p, ok) ==
  /\ pc' = [pc EXCEPT ![p] = "idle"]
  /\ cur' = [cur EXCEPT ![p] = NoOrder]
  /\ op' = [op EXCEPT ![p] = "none"]
  /\ acked' = IF ok /\ op[p] = "notify" THEN [acked EXCEPT ![cur[p]] = TRUE]
                                        ELSE acked

-----------------------------------------------------------------------------
(* CreateOrder *)

Pending == {o \in Orders : status[o] = "PENDING"}
PaidToday == {o \in Orders : /\ status[o] \in {"PAID", "RECHARGING", "COMPLETED"}
                             /\ paidAt[o]}

\* checkPendingLimit and checkDailyLimit count rows before the insert, in a
\* READ COMMITTED transaction that locks nothing.
WithinLimits ==
  /\ Cardinality(Pending) < MaxPending
  /\ DailyLimit > 0 => Cardinality(PaidToday) + 1 <= DailyLimit

\* The id is the next of the table's sequence: no other handler inserts it.
StartCreate(p, o) ==
  /\ WithinLimits
  /\ status[o] = "NONE"
  /\ \A q \in Procs : ~(pc[q] = "insert" /\ cur[q] = o)
  /\ Start(p, o, "create", "insert")

InsertOrder(p) ==
  /\ pc[p] = "insert"
  /\ \E k \in Kinds, applied, failed \in BOOLEAN :
       /\ Statement(applied, failed)
       /\ status' = IF applied THEN [status EXCEPT ![cur[p]] = "PENDING"] ELSE status
       /\ kind' = IF applied THEN [kind EXCEPT ![cur[p]] = k] ELSE kind
       /\ IF failed THEN Return(p, FALSE) ELSE Goto(p, "call")
  /\ UNCHANGED <<paidAt, fresh, ledger, upstream, crashes>>

\* CreatePayment: accepted, refused, or accepted with the answer lost.
CallProvider(p) ==
  /\ pc[p] = "call"
  /\ \E accepted, failed \in BOOLEAN :
       /\ IF accepted THEN Statement(TRUE, failed) ELSE failed /\ faults' = faults
       /\ upstream' = IF accepted THEN [upstream EXCEPT ![cur[p]] = "created"]
                                  ELSE upstream
       /\ Goto(p, IF failed THEN "createfail" ELSE "save")
  /\ UNCHANGED <<row, ledger, crashes>>

\* The payment link is stored in the row; the user can read it from there.
SavePayment(p) ==
  /\ pc[p] = "save"
  /\ \E applied, failed \in BOOLEAN :
       /\ Statement(applied, failed)
       /\ upstream' = IF applied /\ upstream[cur[p]] = "created"
                      THEN [upstream EXCEPT ![cur[p]] = "open"] ELSE upstream
       /\ IF failed THEN Goto(p, "createfail") ELSE Return(p, TRUE)
  /\ UNCHANGED <<row, ledger, crashes>>

\* CreateOrder's error path: an update by id alone, whatever the status is.
CreateFailed(p) ==
  /\ pc[p] = "createfail"
  /\ \E applied, failed \in BOOLEAN :
       /\ Statement(applied, failed)
       /\ status' = IF applied THEN [status EXCEPT ![cur[p]] = "FAILED"] ELSE status
  /\ Return(p, FALSE)
  /\ UNCHANGED <<kind, paidAt, fresh, ledger, upstream, crashes>>

-----------------------------------------------------------------------------
(* Cancellation, time-out, verification, reconciliation *)

\* CancelOrder, AdminCancelOrder and ExpireTimedOutOrders: each reads a PENDING
\* row and enters cancelCore.
StartCancel(p, o) == status[o] = "PENDING" /\ Start(p, o, "cancel", "query")

\* VerifyOrderByOutTradeNo (and ReconcilePendingProviderOrders, for PENDING).
StartVerify(p, o) ==
  status[o] \in {"PENDING", "EXPIRED"} /\ Start(p, o, "verify", "query")

\* checkPaidWithOptions.  A payment found upstream is handled as a notification
\* would be, after the upstream trade number was (perhaps) stored, which
\* refreshes updated_at.
Query(p) ==
  LET o == cur[p] IN
  /\ pc[p] = "query"
  /\ \E failed, persisted \in BOOLEAN :
       /\ Read(failed)
       /\ fresh' = IF ~failed /\ persisted /\ upstream[o] \in {"paid", "mispaid"}
                   THEN [fresh EXCEPT ![o] = TRUE] ELSE fresh
       /\ IF ~failed /\ upstream[o] \in {"paid", "mispaid"} THEN Goto(p, "confirm")
          ELSE IF op[p] = "verify" THEN Return(p, TRUE)
          ELSE Goto(p, IF failed THEN "cancelcas" ELSE "close")
  /\ UNCHANGED <<status, kind, paidAt, ledger, upstream, crashes>>

\* CancelPayment, for providers that have it; its result is ignored.
ClosePayment(p) ==
  /\ pc[p] = "close"
  /\ \E closes \in BOOLEAN :
       upstream' = IF closes /\ upstream[cur[p]] \in {"created", "open"}
                   THEN [upstream EXCEPT ![cur[p]] = "closed"] ELSE upstream
  /\ Goto(p, "cancelcas")
  /\ UNCHANGED <<row, ledger, counters>>

\* Mutant: an update by id alone.
CancelPending_Unconditional(p) ==
  /\ pc[p] = "cancelcas"
  /\ status' = [status EXCEPT ![cur[p]] = "CANCELLED"]
  /\ Return(p, TRUE)
  /\ UNCHANGED <<kind, paidAt, fresh, ledger, upstream, counters>>

CancelPending(p) ==
  /\ pc[p] = "cancelcas"
  /\ \E applied, failed \in BOOLEAN :
       /\ Statement(applied, failed)
       /\ status' = IF applied /\ status[cur[p]] = "PENDING"
                    THEN [status EXCEPT ![cur[p]] = "CANCELLED"] ELSE status
  /\ Return(p, TRUE)
  /\ UNCHANGED <<kind, paidAt, fresh, ledger, upstream, crashes>>

-----------------------------------------------------------------------------
(* The notification *)

Notify(p, o) ==
  upstream[o] \in {"paid", "mispaid"} /\ Start(p, o, "notify", "confirm")

\* Mutant: a wrong amount is acknowledged like a right one.
Confirm_AcksMismatch(p) ==
  /\ pc[p] = "confirm"
  /\ IF upstream[cur[p]] = "mispaid" THEN Return(p, TRUE) ELSE Goto(p, "topaid")
  /\ UNCHANGED <<row, ledger, upstream, counters>>

\* confirmPayment: a row that cannot be read is logged and the notification
\* acknowledged; an amount that is not the order's is an error.
Confirm(p) ==
  /\ pc[p] = "confirm"
  /\ \E failed \in BOOLEAN :
       /\ Read(failed)
       /\ IF failed THEN Return(p, TRUE)
          ELSE IF upstream[cur[p]] = "mispaid" THEN Return(p, FALSE)
          ELSE Goto(p, "topaid")
  /\ UNCHANGED <<row, ledger, upstream, crashes>>

\* Mutant: a cancelled order cannot be recovered.
Payable_NotCancelled(o) ==
  status[o] = "PENDING" \/ (status[o] = "EXPIRED" /\ fresh[o])

Payable(o) ==
  \/ status[o] \in {"PENDING", "CANCELLED"}
  \/ status[o] = "EXPIRED" /\ fresh[o]

ToPaid(p) ==
  LET o == cur[p] IN
  /\ pc[p] = "topaid"
  /\ \E applied, failed \in BOOLEAN :
       /\ Statement(applied, failed)
       /\ status' = IF applied /\ Payable(o) THEN [status EXCEPT ![o] = "PAID"] ELSE status
       /\ paidAt' = IF applied /\ Payable(o) THEN [paidAt EXCEPT ![o] = TRUE] ELSE paidAt
       /\ IF failed THEN Return(p, FALSE)
          ELSE Goto(p, IF Payable(o) THEN "exec" ELSE "already")
  /\ UNCHANGED <<kind, fresh, ledger, upstream, crashes>>

\* alreadyProcessed
Already(p) ==
  /\ pc[p] = "already"
  /\ \E failed \in BOOLEAN :
       /\ Read(failed)
       /\ IF ~failed /\ status[cur[p]] = "FAILED" THEN Goto(p, "exec")
          ELSE Return(p, failed \/ status[cur[p]] \notin {"PAID", "RECHARGING"})
  /\ UNCHANGED <<row, ledger, upstream, crashes>>

-----------------------------------------------------------------------------
(* Fulfilment *)

\* Mutant: the check of paid_at is missing.
StartRetry_Unpaid(p, o) ==
  status[o] \in {"FAILED", "PAID"} /\ Start(p, o, "retry", "retryreset")

\* RetryFulfillment: the checks, then the reset, whose row count is ignored.
StartRetry(p, o) ==
  /\ paidAt[o] /\ status[o] \in {"FAILED", "PAID"}
  /\ Start(p, o, "retry", "retryreset")

\* Mutant: the reset is an update by id alone.
RetryReset_Unconditional(p) ==
  /\ pc[p] = "retryreset"
  /\ status' = [status EXCEPT ![cur[p]] = "PAID"]
  /\ Goto(p, "exec")
  /\ UNCHANGED <<kind, paidAt, fresh, ledger, upstream, counters>>

RetryReset(p) ==
  LET o == cur[p] IN
  /\ pc[p] = "retryreset"
  /\ \E applied, failed \in BOOLEAN :
       /\ Statement(applied, failed)
       /\ status' = IF applied /\ status[o] \in {"FAILED", "PAID"}
                    THEN [status EXCEPT ![o] = "PAID"] ELSE status
       /\ IF failed THEN Return(p, FALSE) ELSE Goto(p, "exec")
  /\ UNCHANGED <<kind, paidAt, fresh, ledger, upstream, crashes>>

\* executeFulfillment and the reads of the two Execute functions.
Execute(p) ==
  /\ pc[p] = "exec"
  /\ \E failed \in BOOLEAN :
       /\ Read(failed)
       /\ IF ~failed /\ status[cur[p]] \in {"PAID", "FAILED"} THEN Goto(p, "lock")
          ELSE Return(p, ~failed /\ status[cur[p]] = "COMPLETED")
  /\ UNCHANGED <<row, ledger, upstream, crashes>>

\* Mutant: the lock can be taken by a second handler.
Lock_Shared(p) ==
  LET o == cur[p]
      free == status[o] \in {"PAID", "FAILED", "RECHARGING"} IN
  /\ pc[p] = "lock"
  /\ status' = IF free THEN [status EXCEPT ![o] = "RECHARGING"] ELSE status
  /\ IF ~free THEN Return(p, TRUE)
     ELSE Goto(p, IF kind[o] = "balance" THEN "lookup" ELSE "hasaudit")
  /\ UNCHANGED <<kind, paidAt, fresh, ledger, upstream, counters>>

\* RECHARGING is the lock: whoever moves the row there fulfils the order.
Lock(p) ==
  LET o == cur[p]
      free == status[o] \in {"PAID", "FAILED"} IN
  /\ pc[p] = "lock"
  /\ \E applied, failed \in BOOLEAN :
       /\ Statement(applied, failed)
       /\ status' = IF applied /\ free THEN [status EXCEPT ![o] = "RECHARGING"] ELSE status
       /\ IF failed \/ ~free THEN Return(p, ~failed)
          ELSE Goto(p, IF kind[o] = "balance" THEN "lookup" ELSE "hasaudit")
  /\ UNCHANGED <<kind, paidAt, fresh, ledger, upstream, crashes>>

\* Mutant: a code that exists counts as redeemed.
Lookup_ExistsIsUsed(p) ==
  /\ pc[p] = "lookup"
  /\ Goto(p, IF code[cur[p]] = "none" THEN "createcode" ELSE "rebate")
  /\ UNCHANGED <<row, ledger, upstream, counters>>

\* doBalance and resolveRedeemAction: an unreadable code counts as absent.
Lookup(p) ==
  /\ pc[p] = "lookup"
  /\ \E failed \in BOOLEAN :
       /\ Read(failed)
       /\ Goto(p, IF failed \/ code[cur[p]] = "none" THEN "createcode"
                  ELSE IF code[cur[p]] = "used" THEN "rebate" ELSE "redeem")
  /\ UNCHANGED <<row, ledger, upstream, crashes>>

\* The code is unique: creating it again is an error.
CreateCode(p) ==
  LET o == cur[p] IN
  /\ pc[p] = "createcode"
  /\ \E applied, failed \in BOOLEAN :
       /\ Statement(applied, failed)
       /\ code' = IF applied /\ code[o] = "none" THEN [code EXCEPT ![o] = "unused"] ELSE code
       /\ Goto(p, IF failed \/ code[o] # "none" THEN "fail" ELSE "redeem")
  /\ UNCHANGED <<row, granted, rebated, audit, upstream, crashes>>

\* Mutant: the code is marked used by id alone.
Redeem_Unconditional(p) ==
  LET o == cur[p] IN
  /\ pc[p] = "redeem"
  /\ code' = [code EXCEPT ![o] = "used"]
  /\ granted' = [granted EXCEPT ![o] = @ + 1]
  /\ Goto(p, "rebate")
  /\ UNCHANGED <<row, rebated, audit, upstream, counters>>

\* Redeem: one transaction marks the code used, if it is unused, and credits.
Redeem(p) ==
  LET o == cur[p]
      usable == code[o] = "unused" IN
  /\ pc[p] = "redeem"
  /\ \E applied, failed \in BOOLEAN :
       /\ Statement(applied, failed)
       /\ code' = IF applied /\ usable THEN [code EXCEPT ![o] = "used"] ELSE code
       /\ granted' = IF applied /\ usable THEN [granted EXCEPT ![o] = @ + 1] ELSE granted
       /\ Goto(p, IF failed \/ ~usable THEN "fail" ELSE "rebate")
  /\ UNCHANGED <<row, rebated, audit, upstream, crashes>>

\* Mutant: the rebate is accrued without claiming the audit row.
ApplyRebate_Unclaimed(p) ==
  LET o == cur[p] IN
  /\ pc[p] = "rebate"
  /\ rebated' = [rebated EXCEPT ![o] = @ + 1]
  /\ Goto(p, "complete")
  /\ UNCHANGED <<row, code, granted, audit, upstream, counters>>

\* applyAffiliateRebateForOrder: one transaction claims the audit row, if no
\* claim exists, and accrues.  The order may not be eligible, and the payer may
\* have no inviter: the claim is then kept as skipped.
ApplyRebate(p) ==
  LET o == cur[p] IN
  /\ pc[p] = "rebate"
  /\ \E eligible, inviter, applied, failed \in BOOLEAN :
       LET claims == applied /\ eligible /\ "REBATE" \notin audit[o] IN
       /\ Statement(applied, failed)
       /\ audit' = IF claims THEN [audit EXCEPT ![o] = @ \cup {"REBATE"}] ELSE audit
       /\ rebated' = IF claims /\ inviter THEN [rebated EXCEPT ![o] = @ + 1] ELSE rebated
       /\ Goto(p, IF failed /\ eligible THEN "fail" ELSE "complete")
  /\ UNCHANGED <<row, code, granted, upstream, crashes>>

\* doSub: the group must be active; the audit row of an earlier success is
\* looked for, and an error of that query counts as no row.
CheckSubscription(p) ==
  /\ pc[p] = "hasaudit"
  /\ \E groupFails, queryFails \in BOOLEAN :
       /\ Read(groupFails \/ queryFails)
       /\ Goto(p, IF groupFails THEN "fail"
                  ELSE IF ~queryFails /\ "SUCCESS" \in audit[cur[p]] THEN "complete"
                  ELSE "assign")
  /\ UNCHANGED <<row, ledger, upstream, crashes>>

AssignSubscription(p) ==
  LET o == cur[p] IN
  /\ pc[p] = "assign"
  /\ \E applied, failed \in BOOLEAN :
       /\ Statement(applied, failed)
       /\ granted' = IF applied THEN [granted EXCEPT ![o] = @ + 1] ELSE granted
       /\ Goto(p, IF failed THEN "fail" ELSE "complete")
  /\ UNCHANGED <<row, code, rebated, audit, upstream, crashes>>

\* markCompleted: the row count is ignored, an error is not.
Complete(p) ==
  LET o == cur[p] IN
  /\ pc[p] = "complete"
  /\ \E applied, failed \in BOOLEAN :
       /\ Statement(applied, failed)
       /\ status' = IF applied /\ status[o] = "RECHARGING"
                    THEN [status EXCEPT ![o] = "COMPLETED"] ELSE status
       /\ Goto(p, IF failed THEN "fail" ELSE "success")
  /\ UNCHANGED <<kind, paidAt, fresh, ledger, upstream, crashes>>

\* The audit row of the success; an error is logged and forgotten.
WriteSuccess(p) ==
  LET o == cur[p] IN
  /\ pc[p] = "success"
  /\ \E applied, failed \in BOOLEAN :
       /\ Statement(applied, failed)
       /\ audit' = IF applied THEN [audit EXCEPT ![o] = @ \cup {"SUCCESS"}] ELSE audit
  /\ Return(p, TRUE)
  /\ UNCHANGED <<row, code, granted, rebated, upstream, crashes>>

\* markFailed
MarkFailed(p) ==
  LET o == cur[p] IN
  /\ pc[p] = "fail"
  /\ \E applied, failed \in BOOLEAN :
       /\ Statement(applied, failed)
       /\ status' = IF applied /\ status[o] = "RECHARGING"
                    THEN [status EXCEPT ![o] = "FAILED"] ELSE status
  /\ Return(p, FALSE)
  /\ UNCHANGED <<kind, paidAt, fresh, ledger, upstream, crashes>>

-----------------------------------------------------------------------------
(* The environment *)

\* The user pays, once, the order's amount or another one.
Pay(o) ==
  /\ upstream[o] = "open"
  /\ \E result \in {"paid", "mispaid"} : upstream' = [upstream EXCEPT ![o] = result]
  /\ UNCHANGED <<row, ledger, acked, handlers, counters>>

\* paymentGraceMinutes pass without an update of the row.
GracePasses(o) ==
  /\ status[o] = "EXPIRED" /\ fresh[o]
  /\ fresh' = [fresh EXCEPT ![o] = FALSE]
  /\ UNCHANGED <<status, kind, paidAt, ledger, provider, handlers, counters>>

\* The refund component takes a completed order, and may give it back.
EnterRefund(o) ==
  /\ status[o] = "COMPLETED"
  /\ status' = [status EXCEPT ![o] = "REFUND"]
  /\ UNCHANGED <<kind, paidAt, fresh, ledger, provider, handlers, counters>>

RestoreCompleted(o) ==
  /\ status[o] = "REFUND"
  /\ status' = [status EXCEPT ![o] = "COMPLETED"]
  /\ UNCHANGED <<kind, paidAt, fresh, ledger, provider, handlers, counters>>

Crash(p) ==
  /\ pc[p] # "idle" /\ crashes < MaxCrashes
  /\ crashes' = crashes + 1
  /\ pc' = [pc EXCEPT ![p] = "idle"]
  /\ cur' = [cur EXCEPT ![p] = NoOrder]
  /\ op' = [op EXCEPT ![p] = "none"]
  /\ UNCHANGED <<row, ledger, provider, faults>>

-----------------------------------------------------------------------------
CreateStep(p) == InsertOrder(p) \/ CallProvider(p) \/ SavePayment(p) \/ CreateFailed(p)

PaymentStep(p) ==
  \/ Query(p) \/ ClosePayment(p) \/ CancelPending(p)
  \/ Confirm(p) \/ ToPaid(p) \/ Already(p)

FulfilStep(p) ==
  \/ RetryReset(p) \/ Execute(p) \/ Lock(p) \/ Lookup(p) \/ CreateCode(p) \/ Redeem(p)
  \/ ApplyRebate(p) \/ CheckSubscription(p) \/ AssignSubscription(p)
  \/ Complete(p) \/ WriteSuccess(p) \/ MarkFailed(p)

HandlerStep(p) == CreateStep(p) \/ PaymentStep(p) \/ FulfilStep(p)

StartStep(p) ==
  \E o \in Orders :
    \/ StartCreate(p, o)
    \/ StartCancel(p, o) \/ StartVerify(p, o) \/ StartRetry(p, o) \/ Notify(p, o)

Environment(o) == Pay(o) \/ GracePasses(o) \/ EnterRefund(o) \/ RestoreCompleted(o)

Next ==
  \/ \E p \in Procs : StartStep(p) \/ HandlerStep(p) \/ Crash(p)
  \/ \E o \in Orders : Environment(o)

Spec == Init /\ [][Next]_vars

\* A handler that runs takes its next step; the provider sends a notification
\* again until it is acknowledged, and the server keeps accepting requests.
Redeliver(o) == ~acked[o] /\ \E p \in Procs : Notify(p, o)

Fairness ==
  /\ \A p \in Procs : WF_vars(HandlerStep(p))
  /\ \A o \in Orders : SF_vars(Redeliver(o))

FairSpec == Spec /\ Fairness

-----------------------------------------------------------------------------
(* Properties *)

\* The redeem code and the audit claim make crediting idempotent: whatever
\* statements fail, whoever retries and whichever handlers are lost, a balance
\* order is credited once and its inviter rebated once (doBalance, Redeem,
\* tryClaimAffiliateRebateAudit).
BalanceCreditedOnce ==
  \A o \in Orders : kind[o] = "balance" => granted[o] <= 1 /\ rebated[o] <= 1

\* Nothing is given for an order the provider does not report as paid in full:
\* not by the administrator's retry, nor by a cancelled or mispaid order
\* (confirmPayment, toPaid, RetryFulfillment).
CreditOnlyIfPaid ==
  \A o \in Orders : granted[o] > 0 \/ rebated[o] > 0 => upstream[o] = "paid"

\* An order is COMPLETED, and so can be refunded, only if its value was given,
\* and a rebate is given only after the value (markCompleted, doBalance).
CompletedIsCredited ==
  \A o \in Orders :
    status[o] \in {"COMPLETED", "REFUND"} \/ rebated[o] > 0 => granted[o] > 0

\* Without failing statements RECHARGING excludes: one handler fulfils an order
\* at a time, a lost one included (ExecuteBalanceFulfillment's lock).
OneFulfiller ==
  faults = 0 =>
    \A p, q \in Procs :
      p # q /\ pc[p] \in Holding /\ pc[q] \in Holding => cur[p] # cur[q]

\* Without failing statements each order, of either kind, is granted once.
GrantedOnce == \A o \in Orders : granted[o] <= 1

\* Without failing statements an acknowledged payment was recorded: the row left
\* the states from which only another notification could move it, except for a
\* legacy EXPIRED row past its grace period (handleNotify, alreadyProcessed).
AckedIsRecorded ==
  faults = 0 =>
    \A o \in Orders : acked[o] => status[o] \notin {"NONE", "PENDING", "CANCELLED"}

\* A payment that was recorded is never lost to a cancellation or a time-out
\* that was decided before it (cancelCore's conditional update).
RecordedStep ==
  \A o \in Orders : paidAt[o] =>
    /\ paidAt'[o]
    /\ status'[o] \notin {"NONE", "PENDING", "CANCELLED", "EXPIRED"}

RecordedStaysRecorded == [][RecordedStep]_vars

\* Without failing statements nothing is given while the order is being, or was,
\* refunded (psIsRefundStatus in the Execute functions and in the retry).
NoGrantInRefund ==
  [][\A o \in Orders : faults' = 0 /\ status[o] = "REFUND" =>
       granted'[o] = granted[o] /\ rebated'[o] = rebated[o]]_vars

\* A paid order is eventually completed, with no one's intervention.
PaidLeadsToCompleted ==
  \A o \in Orders :
    (upstream[o] = "paid" /\ status[o] # "EXPIRED")
      ~> (status[o] \in {"COMPLETED", "REFUND"})

\* The orders that top up a balance implement the abstract ledger.
OfBalance(count) == [o \in Orders |-> IF kind[o] = "balance" THEN count[o] ELSE 0]

Ledger == INSTANCE OrderLedger WITH
  paid    <- [o \in Orders |-> upstream[o] = "paid"],
  credits <- OfBalance(granted),
  rebates <- OfBalance(rebated)

\* Payment, credit and rebate of a balance order happen in the order and the
\* number OrderLedger promises, under every failure (doBalance, Redeem).
ImplementsLedger == Ledger!Spec

-----------------------------------------------------------------------------
(* The inductive invariant behind the properties, in named parts *)

\* A handler that inserts an order owns its id; any other works on a row that
\* exists; nothing was given, and nothing is known upstream, before the insert.
OwnsNewOrder ==
  /\ \A p \in Procs : pc[p] # "idle" => (pc[p] = "insert" <=> status[cur[p]] = "NONE")
  /\ \A p, q \in Procs :
       p # q /\ pc[p] \in {"insert", "call"} /\ pc[q] \in {"insert", "call"}
         => cur[p] # cur[q]
  /\ \A p \in Procs : pc[p] \in {"insert", "call"} => upstream[cur[p]] = "none"
  /\ \A o \in Orders : status[o] = "NONE" =>
       granted[o] = 0 /\ rebated[o] = 0 /\ code[o] = "none" /\ upstream[o] = "none"

\* A handler is in the branch of its order's kind.
BranchOfKind ==
  \A p \in Procs :
    /\ pc[p] \in {"lookup", "createcode", "redeem", "rebate"} => kind[cur[p]] = "balance"
    /\ pc[p] \in {"hasaudit", "assign"} => kind[cur[p]] = "subscription"

\* The code is the memory of the credit, the audit row that of the rebate.
CodeRecordsCredit ==
  \A o \in Orders :
    /\ kind[o] = "balance" => granted[o] = IF code[o] = "used" THEN 1 ELSE 0
    /\ rebated[o] <= 1
    /\ rebated[o] > 0 => "REBATE" \in audit[o]

\* Whoever got past the notification's or the retry's checks works for a paid
\* order.
AfterPayment == Holding \cup {"topaid", "already", "retryreset", "exec", "lock", "success"}

PaymentBehind ==
  /\ \A p \in Procs : pc[p] = "confirm" => upstream[cur[p]] \in {"paid", "mispaid"}
  /\ \A p \in Procs : pc[p] \in AfterPayment => upstream[cur[p]] = "paid"
  /\ \A o \in Orders :
       paidAt[o] \/ granted[o] > 0 \/ rebated[o] > 0 => upstream[o] = "paid"

\* Every trace of a success has a grant behind it.
GrantBehind ==
  /\ \A p \in Procs : pc[p] \in {"rebate", "complete", "success"} => granted[cur[p]] > 0
  /\ \A o \in Orders :
       \/ code[o] = "used" \/ "SUCCESS" \in audit[o] \/ rebated[o] > 0
       \/ status[o] \in {"COMPLETED", "REFUND"}
       => granted[o] > 0

\* A recorded payment has moved the order out of the states before it.
Unpaid == {"NONE", "PENDING", "CANCELLED", "EXPIRED"}

RecordedStatus == \A o \in Orders : paidAt[o] => status[o] \notin Unpaid

PaymentInv ==
  /\ TypeOK
  /\ OwnsNewOrder /\ BranchOfKind
  /\ CodeRecordsCredit /\ PaymentBehind /\ GrantBehind
  /\ RecordedStatus

=============================================================================
