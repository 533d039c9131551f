-------------------------- MODULE NodeControllers --------------------------
(***************************************************************************)
(* The controllers of the Karpenter process together: the status and       *)
(* termination controllers of a NebiusNodeClass (NodeClassTermination) and *)
(* the controller that gives Nodes their provider IDs (NodeProviderID).    *)
(* They share the NodeClaims and the informer cache of them: Karpenter     *)
(* creates NodeClaims while the class is ready, the machines they launch   *)
(* register Nodes, and the class is released when the last one is gone.    *)
(***************************************************************************)
EXTENDS Integers

CONSTANTS
    Names,      \* of NodeClaims and their Nodes
    Unlabelled, \* Nodes that Karpenter did not launch
    MaxErrors   \* bound: patches of one Node that the API server fails

ASSUME UnlabelledAssumption == Unlabelled \subseteq Names
ASSUME MaxErrorsAssumption == MaxErrors \in Nat

VARIABLES
    class, cachedClass, statusQueued, termQueued, waiting, term,
    claim, cachedClaim,
    node, cachedNode, queued, requeue, pc, errors

classVars == <<class, cachedClass, statusQueued, termQueued, waiting, term>>
claimVars == <<claim, cachedClaim>>
nodeVars == <<node, cachedNode, queued, requeue, pc, errors>>
vars == <<classVars, claimVars, nodeVars>>

\* The NodeClaims that are there, to an API server or cache.
Present(c) == {n \in Names : c[n] \in {"launching", "launched"}}

ID == INSTANCE NodeProviderID

Class == INSTANCE NodeClassTermination WITH
            Claims <- Names,
            claims <- Present(claim),
            cachedClaims <- Present(cachedClaim),
            unborn <- {n \in Names : claim[n] = "unborn"}

TypeOK == ID!TypeOK /\ Class!TypeOK

Init == ID!Init /\ Class!Init

-----------------------------------------------------------------------------
\* Steps of the NodeClass controllers alone ...
ClassStep(A) == UNCHANGED <<claimVars, nodeVars>> /\ A

StatusReconcile == ClassStep(Class!StatusReconcile)
TermStart == ClassStep(Class!TermStart)
TermList == ClassStep(Class!TermList)
TermPatch == ClassStep(Class!TermPatch)
TermFails == ClassStep(Class!TermFails)
TermTimer == ClassStep(Class!TimerFires)
DeleteClass == ClassStep(Class!DeleteClass)
SyncClass == ClassStep(Class!SyncClass)

\* ... of the provider ID controller and the machines alone ...
Reconcile(n) == ID!Reconcile(n) /\ UNCHANGED classVars
NodeTimer(n) == ID!TimerFires(n) /\ UNCHANGED classVars
SyncNode(n) == ID!SyncNode(n) /\ UNCHANGED classVars
NodeStep(n) ==
    /\ ID!PatchFails(n) \/ ID!Launched(n) \/ ID!NodeJoins(n) \/ ID!RemoveNode(n)
    /\ UNCHANGED classVars

\* ... and of what they share.
CreateClaim(n) == ID!CreateClaim(n) /\ Class!CreateClaim(n)
DeleteClaim(n) == ID!DeleteClaim(n) /\ Class!DeleteClaim(n)
SyncClaim(n) ==
    /\ ID!SyncClaim(n)
    /\ \/ Class!SyncClaim(n)
       \/ (n \in Present(claim)) = (n \in Present(cachedClaim)) /\ UNCHANGED classVars

Next ==
    \/ StatusReconcile \/ TermStart \/ TermList \/ TermPatch \/ TermFails \/ TermTimer
    \/ DeleteClass \/ SyncClass
    \/ \E n \in Names :
         \/ Reconcile(n) \/ NodeTimer(n) \/ SyncNode(n) \/ NodeStep(n)
         \/ CreateClaim(n) \/ DeleteClaim(n) \/ SyncClaim(n)

Spec == Init /\ [][Next]_vars

\* Work queues are served, timers fire, informers deliver, and what is retried
\* without end does not fail every time.
Fairness ==
    /\ WF_vars(StatusReconcile) /\ WF_vars(TermStart) /\ SF_vars(TermList)
    /\ SF_vars(TermPatch) /\ WF_vars(TermTimer) /\ WF_vars(SyncClass)
    /\ \A n \in Names :
         WF_vars(Reconcile(n)) /\ WF_vars(NodeTimer(n)) /\ WF_vars(SyncNode(n)) /\ WF_vars(SyncClaim(n))

FairSpec == Spec /\ Fairness

-----------------------------------------------------------------------------
(* Properties.                                                             *)

\* A NodeClass being deleted is released once its NodeClaims have gone,
\* whatever the provider ID controller reads and patches meanwhile
\* (NodeClassTermination).
TerminationCompletes == Class!TerminationCompletes

\* A Node has an ID only from a NodeClaim that had one, whatever has become of the
\* NodeClaim and its NodeClass since it was read (NodeProviderID).
IDsComeFromClaims == ID!IDsComeFromClaims

\* A Node gets its provider ID in the end, also when its NodeClass is on the
\* way out (NodeProviderID).
NodeGetsProviderID == ID!NodeGetsProviderID
=============================================================================
