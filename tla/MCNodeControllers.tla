------------------------- MODULE MCNodeControllers -------------------------
(* One Node of Karpenter and one that Karpenter did not launch.            *)
EXTENDS NodeControllers

CONSTANTS n1, n2

MCNames == {n1, n2}

MCUnlabelled == {n2}
=============================================================================
