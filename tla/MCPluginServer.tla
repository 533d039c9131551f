--------------------------- MODULE MCPluginServer ---------------------------
(* Operators of two processes that apply and delete a network, a pool, and  *)
(* peerings: one that lies in the network, two that share a file.           *)
EXTENDS PluginServer

MCServiceOf == [o \in Objects |->
    CASE o = "net" -> "networks" [] o = "pool" -> "agentpools" [] OTHER -> "peerings"]

MCSpecsOf == [o \in Objects |-> IF o = "peer" THEN {"s1", "s2"} ELSE {"s1"}]

MCNetworkOf == [o \in Objects |-> IF o = "peer" THEN "net" ELSE Elsewhere]

Turns(t, f) == [turns |-> [o \in Objects |-> IF o \in DOMAIN t THEN t[o] ELSE 0], faults |-> f]

\* More turns without faults, or fewer with one.
MCScenarios ==
    {Turns([net |-> 3], 0), Turns([net |-> 2], 1),
     Turns([pool |-> 2], 1),
     Turns([net |-> 1, peer |-> 2], 0),
     Turns([vpn1 |-> 2, vpn2 |-> 1], 0), Turns([vpn1 |-> 1, vpn2 |-> 1], 1)}
=============================================================================
