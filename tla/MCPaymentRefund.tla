---------------------------- MODULE MCPaymentRefund ----------------------------
(* PaymentRefund for TLC: handlers are interchangeable, orders too. *)
EXTENDS PaymentRefund, TLC

Symmetry == Permutations(Procs) \cup Permutations(Orders)

=============================================================================
