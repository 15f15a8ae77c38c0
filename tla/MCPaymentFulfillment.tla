------------------------ MODULE MCPaymentFulfillment ------------------------
(* PaymentFulfillment for TLC: handlers are interchangeable, orders too. *)
EXTENDS PaymentFulfillment, TLC

Symmetry == Permutations(Procs) \cup Permutations(Orders)

=============================================================================
