---------------------------- MODULE MCOAuthRefresh ----------------------------
(***************************************************************************)
(* OAuthRefresh for TLC: the refresher of one instance, a request and an   *)
(* administrator on another.                                               *)
(***************************************************************************)
EXTENDS OAuthRefresh

CONSTANTS i1, i2, b2, p1, a1

MCHome(w) == IF w = b2 THEN i2 ELSE i1

=============================================================================
