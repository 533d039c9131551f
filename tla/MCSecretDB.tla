----------------------------- MODULE MCSecretDB -----------------------------
(* Small instances of SecretDB.                                            *)
EXTENDS SecretDB, TLC

CONSTANTS c1, c2, v1, v2

MCClients == {c1, c2}
MCIds == {"a", "b"}
MCIds3 == {"a", "b", "c"}
MCValues == {v1, v2}
MCOneValue == {v1}
=============================================================================
