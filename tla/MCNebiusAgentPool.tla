------------------------- MODULE MCNebiusAgentPool -------------------------
(* Small instances of NebiusAgentPool.                                     *)
EXTENDS NebiusAgentPool

CONSTANTS p1, p2

MCPools == {p1, p2}

MCOnePool == {p1}

MCClassKind == [p \in Pools |-> IF p = p1 THEN "nebius" ELSE "kaito"]

AllFaults == {"rejected", "timeout", "quota", "crash", "deleteError", "dropError", "listError"}

QuotaFaults == {"quota"}
=============================================================================
