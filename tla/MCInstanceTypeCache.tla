------------------------ MODULE MCInstanceTypeCache ------------------------
(***************************************************************************)
(* A small instance of InstanceTypeCache: one preset, which allows         *)
(* preemptibles and whose prices change; in the second version Nebius      *)
(* answers the preemptible price with a cost that does not parse.  There   *)
(* are two keys and room for one, so that a call and the refresh resolve   *)
(* the same key at the same time.                                          *)
(***************************************************************************)
EXTENDS InstanceTypeCache, TLC

CONSTANTS k1, k2, c1

MCListing == <<<<"gpu">>, <<"gpu">>>>

MCHourlyCost ==
    LET Of(onDemand, spot) == [type \in CapacityTypes |-> IF type = "spot" THEN spot ELSE onDemand]
    IN  << "gpu" :> Of(4, 1), "gpu" :> Of(3, DefaultPrice) >>

\* A NodeClaim for anything, and one that names no instance type.
MCRequirements ==
    { [names |-> {"gpu"}, types |-> CapacityTypes],
      [names |-> {}, types |-> CapacityTypes] }
=============================================================================
