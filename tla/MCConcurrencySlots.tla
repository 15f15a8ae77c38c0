--------------------------- MODULE MCConcurrencySlots ---------------------------
(***************************************************************************)
(* ConcurrencySlots for TLC: two requests of one user, each served by an  *)
(* instance of its own, one slot and one place in the queue at each level; *)
(* the first one may be forwarded twice.                                   *)
(***************************************************************************)
EXTENDS ConcurrencySlots

CONSTANTS i1, i2, r1, r2

MCHome(r)        == IF r = r1 THEN i1 ELSE i2
MCLimit(k)       == 1
MCMaxWait(k)     == 1
MCMaxSwitches(r) == IF r = r1 THEN 1 ELSE 0

=============================================================================
