----------------------------- MODULE MCIdempotency -----------------------------
(***************************************************************************)
(* Idempotency for TLC: requests and payloads are interchangeable.         *)
(***************************************************************************)
EXTENDS Idempotency, TLC

Symmetry == Permutations(Procs) \cup Permutations(Fingerprints)

=============================================================================
