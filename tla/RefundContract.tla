----------------------------- MODULE RefundContract -----------------------------
(***************************************************************************)
(* What the refund component promises the merchant about the money of an   *)
(* order: one refund at most is paid back and confirmed, a settled refund  *)
(* has been unless there was no payment to return, and nothing more is     *)
(* asked of the provider after either.  An attempt that ends in an error   *)
(* may have paid back too; such attempts are not bounded.                  *)
(***************************************************************************)
EXTENDS Naturals

CONSTANTS Orders, Amount

VARIABLES
  returnable,  \* the provider has a payment to return
  paidBack,    \* the amount it returned and confirmed
  unanswered,  \* what it returned in attempts that ended in an error
  settled      \* the refund is final

vars == <<returnable, paidBack, unanswered, settled>>

Init ==
  /\ returnable \in [Orders -> BOOLEAN]
  /\ paidBack = [o \in Orders |-> 0] /\ unanswered = [o \in Orders |-> 0]
  /\ settled = [o \in Orders |-> FALSE]

\* The provider may still be asked for a refund.
Open(o) == returnable[o] /\ ~settled[o] /\ paidBack[o] = 0

PayBack(o) ==
  /\ Open(o)
  /\ \E a \in 1 .. Amount : paidBack' = [paidBack EXCEPT ![o] = a]
  /\ UNCHANGED <<returnable, unanswered, settled>>

PayUnanswered(o) ==
  /\ Open(o)
  /\ \E a \in 1 .. Amount : unanswered' = [unanswered EXCEPT ![o] = @ + a]
  /\ UNCHANGED <<returnable, paidBack, settled>>

Settle(o) ==
  /\ ~settled[o] /\ (returnable[o] => paidBack[o] > 0)
  /\ settled' = [settled EXCEPT ![o] = TRUE]
  /\ UNCHANGED <<returnable, paidBack, unanswered>>

Next == \E o \in Orders : PayBack(o) \/ PayUnanswered(o) \/ Settle(o)

Spec == Init /\ [][Next]_vars

=============================================================================
