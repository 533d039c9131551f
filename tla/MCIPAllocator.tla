--------------------------- MODULE MCIPAllocator ---------------------------
(***************************************************************************)
(* A small instance of IPAllocator.  Addresses have three bits.  The       *)
(* NodeClass has two NodeClaims and a block of four addresses, of which    *)
(* two are usable: a launch that fails and is retried exhausts it.  The    *)
(* block is written by its last address, as net.ParseCIDR allows.          *)
(***************************************************************************)
EXTENDS IPAllocator, TLC

CONSTANTS c1, c2

MCNodeClasses == {"a"}

MCNodeClaims == {c1, c2}

MCNodeClassRef == c1 :> "a" @@ c2 :> "a"

MCWireguardPeerCIDR == "a" :> [ip |-> 7, ones |-> 1]

MCNoIP == -1
=============================================================================
