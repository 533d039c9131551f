---------------------------- MODULE MCNodeClass ----------------------------
(* Small instance of NodeClassTermination.                                 *)
EXTENDS NodeClassTermination

CONSTANTS c1, c2

MCClaims == {c1, c2}
=============================================================================
