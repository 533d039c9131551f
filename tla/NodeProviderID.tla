--------------------------- MODULE NodeProviderID ---------------------------
(***************************************************************************)
(* SetProviderIDController (karpenter/pkg/controllers/nodes), which copies *)
(* the provider ID of a NodeClaim to the Node its machine registered.      *)
(* Karpenter knows a Node as the NodeClaim's only by that ID.              *)
(*                                                                         *)
(* The Node often registers before CloudProvider.Create has returned and   *)
(* the NodeClaim has its ID.  The controller is not told of changes to     *)
(* NodeClaims; it reads both objects from the informer cache.  A Node and  *)
(* its NodeClaim have the same name, and so one index.                     *)
(***************************************************************************)
EXTENDS Integers

CONSTANTS
    Names,      \* of NodeClaims and their Nodes
    Unlabelled, \* Nodes without the NodeClaim label: not launched by Karpenter
    MaxErrors   \* bound: patches of one Node that the API server fails

VARIABLES
    claim,          \* the NodeClaim: not created yet, "launching" without a provider
                    \* ID, "launched" with it, or gone
    cachedClaim,    \* the same in the informer cache
    node,           \* the Node: "joined" has no provider ID, "set" has
    cachedNode,     \* the same in the informer cache
    queued,         \* Nodes in the work queue
    requeue,        \* Nodes with a requeue after 30 seconds or a back-off pending
    pc,             \* the reconcile of a Node under way
    errors          \* failed patches so far

vars == <<claim, cachedClaim, node, cachedNode, queued, requeue, pc, errors>>

ClaimStates == {"unborn", "launching", "launched", "gone"}
NodeStates == {"absent", "joined", "set", "gone"}

\* pc is "idle" between reconciles, "get" before the NodeClaim is read, and
\* "patch" before the Node is patched.
TypeOK ==
    /\ claim \in [Names -> ClaimStates] /\ cachedClaim \in [Names -> ClaimStates]
    /\ node \in [Names -> NodeStates] /\ cachedNode \in [Names -> NodeStates]
    /\ queued \subseteq Names /\ requeue \subseteq Names
    /\ pc \in [Names -> {"idle", "get", "patch"}]
    /\ errors \in [Names -> 0..MaxErrors]

Init ==
    /\ claim = [n \in Names |-> "unborn"] /\ cachedClaim = claim
    /\ node = [n \in Names |-> "absent"] /\ cachedNode = node
    /\ queued = {} /\ requeue = {}
    /\ pc = [n \in Names |-> "idle"]
    /\ errors = [n \in Names |-> 0]

Goto(n, step) == pc' = [pc EXCEPT ![n] = step]

-----------------------------------------------------------------------------
(* Reconcile.                                                              *)

\* The Node comes from the cache; one that is gone, has its ID or is not
\* Karpenter's needs nothing.
ReconcileStart(n) ==
    /\ n \in queued /\ pc[n] = "idle"
    /\ queued' = queued \ {n}
    /\ Goto(n, IF cachedNode[n] = "joined" /\ n \notin Unlabelled THEN "get" ELSE "idle")
    /\ UNCHANGED <<claim, cachedClaim, node, cachedNode, requeue, errors>>

\* Mutant: a NodeClaim without an ID is not looked at again.
ReconcileGetGivesUp(n) ==
    /\ pc[n] = "get"
    /\ Goto(n, IF cachedClaim[n] = "launched" THEN "patch" ELSE "idle")
    /\ UNCHANGED <<claim, cachedClaim, node, cachedNode, queued, requeue, errors>>

\* Mutant: an ID that is still empty is copied as well.
ReconcileGetEarly(n) ==
    /\ pc[n] = "get"
    /\ Goto(n, IF cachedClaim[n] \in {"launching", "launched"} THEN "patch" ELSE "idle")
    /\ UNCHANGED <<claim, cachedClaim, node, cachedNode, queued, requeue, errors>>

\* A NodeClaim that is not found ends it; one without an ID is looked at again.
ReconcileGet(n) ==
    /\ pc[n] = "get"
    /\ Goto(n, IF cachedClaim[n] = "launched" THEN "patch" ELSE "idle")
    /\ requeue' = IF cachedClaim[n] = "launching" THEN requeue \cup {n} ELSE requeue
    /\ UNCHANGED <<claim, cachedClaim, node, cachedNode, queued, errors>>

\* Mutant: the patch writes the state of the NodeClaim instead of the ID.
PatchWrongField(n) ==
    /\ pc[n] = "patch"
    /\ node' = [node EXCEPT ![n] = cachedClaim[n]]
    /\ Goto(n, "idle")
    /\ UNCHANGED <<claim, cachedClaim, cachedNode, queued, requeue, errors>>

\* The patch sets the ID, on the Node as it is by now; a Node that is gone is
\* an error, on which the request is queued again after a back-off.
Patch(n) ==
    /\ pc[n] = "patch"
    /\ IF node[n] = "gone"
       THEN requeue' = requeue \cup {n} /\ UNCHANGED node
       ELSE node' = [node EXCEPT ![n] = "set"] /\ UNCHANGED requeue
    /\ Goto(n, "idle")
    /\ UNCHANGED <<claim, cachedClaim, cachedNode, queued, errors>>

\* Or the API server does not answer.
PatchFails(n) ==
    /\ pc[n] = "patch"
    /\ errors[n] < MaxErrors
    /\ errors' = [errors EXCEPT ![n] = @ + 1]
    /\ requeue' = requeue \cup {n}
    /\ Goto(n, "idle")
    /\ UNCHANGED <<claim, cachedClaim, node, cachedNode, queued>>

-----------------------------------------------------------------------------
(* controller-runtime, Karpenter and the machines.                         *)

TimerFires(n) ==
    /\ n \in requeue
    /\ requeue' = requeue \ {n}
    /\ queued' = queued \cup {n}
    /\ UNCHANGED <<claim, cachedClaim, node, cachedNode, pc, errors>>

CreateClaim(n) ==
    /\ claim[n] = "unborn" /\ n \notin Unlabelled
    /\ claim' = [claim EXCEPT ![n] = "launching"]
    /\ UNCHANGED <<cachedClaim, node, cachedNode, queued, requeue, pc, errors>>

\* CloudProvider.Create, called for a NodeClaim of the cache, returns, and the
\* lifecycle controller stores the ID.
Launched(n) ==
    /\ claim[n] = "launching" /\ cachedClaim[n] = "launching"
    /\ claim' = [claim EXCEPT ![n] = "launched"]
    /\ UNCHANGED <<cachedClaim, node, cachedNode, queued, requeue, pc, errors>>

DeleteClaim(n) ==
    /\ claim[n] \in {"launching", "launched"}
    /\ claim' = [claim EXCEPT ![n] = "gone"]
    /\ UNCHANGED <<cachedClaim, node, cachedNode, queued, requeue, pc, errors>>

\* The machine of a NodeClaim exists only after Create was called for it.
NodeJoins(n) ==
    /\ node[n] = "absent"
    /\ n \in Unlabelled \/ cachedClaim[n] # "unborn"
    /\ node' = [node EXCEPT ![n] = "joined"]
    /\ UNCHANGED <<claim, cachedClaim, cachedNode, queued, requeue, pc, errors>>

RemoveNode(n) ==
    /\ node[n] \in {"joined", "set"}
    /\ node' = [node EXCEPT ![n] = "gone"]
    /\ UNCHANGED <<claim, cachedClaim, cachedNode, queued, requeue, pc, errors>>

\* Only changes of Nodes queue a request.
SyncNode(n) ==
    /\ cachedNode[n] # node[n]
    /\ cachedNode' = [cachedNode EXCEPT ![n] = node[n]]
    /\ queued' = queued \cup {n}
    /\ UNCHANGED <<claim, cachedClaim, node, requeue, pc, errors>>

SyncClaim(n) ==
    /\ cachedClaim[n] # claim[n]
    /\ cachedClaim' = [cachedClaim EXCEPT ![n] = claim[n]]
    /\ UNCHANGED <<claim, node, cachedNode, queued, requeue, pc, errors>>

-----------------------------------------------------------------------------
Reconcile(n) == ReconcileStart(n) \/ ReconcileGet(n) \/ Patch(n)

Next ==
    \E n \in Names :
        \/ Reconcile(n) \/ PatchFails(n) \/ TimerFires(n)
        \/ CreateClaim(n) \/ Launched(n) \/ DeleteClaim(n) \/ NodeJoins(n) \/ RemoveNode(n)
        \/ SyncNode(n) \/ SyncClaim(n)

Spec == Init /\ [][Next]_vars

\* The work queue is served, timers fire and informers deliver.
Fairness ==
    \A n \in Names :
        /\ WF_vars(Reconcile(n)) /\ WF_vars(TimerFires(n))
        /\ WF_vars(SyncNode(n)) /\ WF_vars(SyncClaim(n))

FairSpec == Spec /\ Fairness

-----------------------------------------------------------------------------
(* Properties.                                                             *)

\* A Node has a provider ID only when Karpenter launched it and the NodeClaim had
\* the ID first, in the API server and in the cache: the patch is sent after both
\* objects were read, when either may have gone.
IDsComeFromClaims ==
    \A n \in Names : node[n] = "set" =>
        n \notin Unlabelled /\ {claim[n], cachedClaim[n]} \subseteq {"launched", "gone"}

\* A Node that registered while its NodeClaim was still launching does get the
\* provider ID once the NodeClaim has it, unless either is removed first, with
\* no event to wake the controller but its own requeue.
NodeGetsProviderID ==
    \A n \in Names \ Unlabelled :
        (node[n] = "joined" /\ claim[n] = "launched") ~>
            (node[n] # "joined" \/ claim[n] = "gone")
=============================================================================
