------------------------------ MODULE OrderLedger ------------------------------
(***************************************************************************)
(* What the payment component promises the customer and the operator about *)
(* an order that tops up a balance: the payment is the only cause of a     *)
(* credit, a payment is credited at most once, and the inviter's rebate is *)
(* accrued at most once and never before the credit.                       *)
(***************************************************************************)
EXTENDS Naturals

CONSTANT Orders

VARIABLES paid, credits, rebates

vars == <<paid, credits, rebates>>

Init ==
  /\ paid = [o \in Orders |-> FALSE]
  /\ credits = [o \in Orders |-> 0]
  /\ rebates = [o \in Orders |-> 0]

Pay(o) ==
  /\ ~paid[o]
  /\ paid' = [paid EXCEPT ![o] = TRUE]
  /\ UNCHANGED <<credits, rebates>>

Credit(o) ==
  /\ paid[o] /\ credits[o] = 0
  /\ credits' = [credits EXCEPT ![o] = 1]
  /\ UNCHANGED <<paid, rebates>>

Rebate(o) ==
  /\ credits[o] = 1 /\ rebates[o] = 0
  /\ rebates' = [rebates EXCEPT ![o] = 1]
  /\ UNCHANGED <<paid, credits>>

Next == \E o \in Orders : Pay(o) \/ Credit(o) \/ Rebate(o)

Spec == Init /\ [][Next]_vars

=============================================================================
