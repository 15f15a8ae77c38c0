---------------------------- MODULE MCUsageBilling ----------------------------
(***************************************************************************)
(* UsageBilling for TLC: two records of one instance.                      *)
(***************************************************************************)
EXTENDS UsageBilling

CONSTANTS i1, u1, u2, k1, k2, f1, f2

MCHome(u) == i1

\* Up to the names of the request ids and fingerprints, all there are.
MCCommands ==
  {c \in [{u1, u2} -> {k1, k2} \X {f1, f2}] :
     c[u1] = <<k1, f1>> /\ c[u2] \in {<<k1, f1>>, <<k1, f2>>, <<k2, f1>>}}

=============================================================================
