---------------------------- MODULE IPAllocator ----------------------------
(***************************************************************************)
(* The WireGuard peer address allocator of the Karpenter provider          *)
(* (karpenter/pkg/utils/wireguard/allocator.go) together with the part of  *)
(* the NodeClaim life cycle that its correctness depends on.               *)
(*                                                                         *)
(* A NodeClaim's Create handler takes an address under the allocator's     *)
(* mutex, then spends minutes creating a virtual machine that boots with   *)
(* that address.  The address shows up on a Node in the informer cache     *)
(* only later; until then the allocator's own table, preAllocated, is all  *)
(* that keeps it from being handed out again.  AllocateIP and cleanup run  *)
(* under the same mutex and are one step each.  Everything around them     *)
(* (API objects, informer cache, machines) moves between their steps.      *)
(***************************************************************************)
EXTENDS PeerCIDR

CONSTANTS
    NodeClasses,        \* names of NebiusNodeClasses
    NodeClaims,         \* names of NodeClaims; Karpenter never reuses one
    NodeClassRef,       \* NodeClassRef[c]: the NodeClass of NodeClaim c
    WireguardPeerCIDR,  \* the spec.wireguardPeerCIDR of each NodeClass
    NoClaim,            \* marks an address that is not in preAllocated
    NoIP                \* marks the absence of an address

ASSUME ConstantsAssumption ==
    /\ NodeClassRef \in [NodeClaims -> NodeClasses]
    /\ WireguardPeerCIDR \in [NodeClasses -> CIDRs]
    /\ NoClaim \notin NodeClaims
    /\ NoIP \notin IPs

VARIABLES
    preAllocated,   \* preAllocated[class][ip]: NodeClaim name, or NoClaim
    launch,         \* the Create handler of each NodeClaim: its step and address
    claim,          \* the NodeClaim objects of the API server
    providerID,     \* whether status.providerID is set on the NodeClaim
    vm,             \* the address of the machine created for a NodeClaim
    nodeIP,         \* the InternalIP of the Node object of that machine
    labelled,       \* whether the Node carries its NodeClass label
    cachedClaims,   \* the NodeClaims in the informer cache
    cachedNodeIP    \* the labelled Nodes in the informer cache

vars == <<preAllocated, launch, claim, providerID, vm, nodeIP, labelled,
          cachedClaims, cachedNodeIP>>

kubeVars == <<claim, providerID, nodeIP, labelled>>
cacheVars == <<cachedClaims, cachedNodeIP>>

OptIP == IPs \cup {NoIP}

Idle == [pc |-> "idle", ip |-> NoIP]

TypeOK ==
    /\ preAllocated \in [NodeClasses -> [IPs -> NodeClaims \cup {NoClaim}]]
    /\ launch \in [NodeClaims ->
                    [pc : {"idle", "allocated", "started"}, ip : OptIP]]
    /\ claim \in [NodeClaims -> {"absent", "live", "deleting", "gone"}]
    /\ providerID \in [NodeClaims -> BOOLEAN]
    /\ vm \in [NodeClaims -> OptIP]
    /\ nodeIP \in [NodeClaims -> OptIP]
    /\ labelled \in [NodeClaims -> BOOLEAN]
    /\ cachedClaims \in SUBSET NodeClaims
    /\ cachedNodeIP \in [NodeClaims -> OptIP]

\* NewIPAllocator at process start, before any NodeClaim exists.
Init ==
    /\ preAllocated = [n \in NodeClasses |-> [ip \in IPs |-> NoClaim]]
    /\ launch = [c \in NodeClaims |-> Idle]
    /\ claim = [c \in NodeClaims |-> "absent"]
    /\ providerID = [c \in NodeClaims |-> FALSE]
    /\ vm = [c \in NodeClaims |-> NoIP]
    /\ nodeIP = [c \in NodeClaims |-> NoIP]
    /\ labelled = [c \in NodeClaims |-> FALSE]
    /\ cachedClaims = {}
    /\ cachedNodeIP = [c \in NodeClaims |-> NoIP]

-----------------------------------------------------------------------------
(* The allocator.                                                          *)

\* Step 1 of AllocateIP: addresses of the NodeClass's Nodes in the cache.
ConfirmedIPs(n) ==
    { cachedNodeIP[c] : c \in {d \in NodeClaims : NodeClassRef[d] = n} } \ {NoIP}

\* Step 2: entries whose address appeared on a Node are dropped.
Reconciled(n) ==
    [ip \in IPs |-> IF ip \in ConfirmedIPs(n) THEN NoClaim
                                               ELSE preAllocated[n][ip]]

\* Mutant: only the addresses of Nodes count as taken.
TakenConfirmedOnly(n) == ConfirmedIPs(n)

\* Step 3: every address that must not be handed out.
Taken(n) ==
    ConfirmedIPs(n) \cup {ip \in IPs : Reconciled(n)[ip] # NoClaim}

\* The Create handler of c reaches AllocateIP.  The lifecycle controller only
\* reconciles NodeClaims it has seen in the cache, one at a time per
\* NodeClaim, and stops launching once status.providerID is set.
Launching(c) ==
    /\ c \in cachedClaims
    /\ claim[c] = "live"
    /\ ~providerID[c]
    /\ launch[c].pc = "idle"

AllocateIP(c) ==
    LET n == NodeClassRef[c] IN
    /\ Launching(c)
    /\ \E ip \in FreeIPs(WireguardPeerCIDR[n], Taken(n)) :
        /\ preAllocated' = [preAllocated EXCEPT ![n] = [Reconciled(n) EXCEPT ![ip] = c]]
        /\ launch' = [launch EXCEPT ![c] = [pc |-> "allocated", ip |-> ip]]
    /\ UNCHANGED <<kubeVars, cacheVars, vm>>

\* No free address: AllocateIP returns an InsufficientCapacityError, on which
\* Karpenter deletes the NodeClaim.  Step 2 has already been done.
AllocateIPExhausted(c) ==
    LET n == NodeClassRef[c] IN
    /\ Launching(c)
    /\ FreeIPs(WireguardPeerCIDR[n], Taken(n)) = {}
    /\ preAllocated' = [preAllocated EXCEPT ![n] = Reconciled(n)]
    /\ claim' = [claim EXCEPT ![c] = "deleting"]
    /\ UNCHANGED <<providerID, nodeIP, labelled, cacheVars, vm, launch>>

\* Mutant: an entry is removed on every lookup error, not only on NotFound.
cleanupOnAnyError(lookupFails) ==
    /\ preAllocated' =
        [n \in NodeClasses |-> [ip \in IPs |->
            IF preAllocated[n][ip] \in cachedClaims \ lookupFails
            THEN preAllocated[n][ip] ELSE NoClaim]]
    /\ UNCHANGED <<kubeVars, cacheVars, vm, launch>>

\* Mutant: the error branch comes first, so NotFound is only logged.
cleanupNeverDeletes(lookupFails) ==
    UNCHANGED <<preAllocated, kubeVars, cacheVars, vm, launch>>

\* One tick of the background loop: entries whose NodeClaim the cache no
\* longer knows are removed, except where the lookup itself failed.
cleanup(lookupFails) ==
    /\ preAllocated' =
        [n \in NodeClasses |-> [ip \in IPs |->
            IF preAllocated[n][ip] \in cachedClaims \cup lookupFails
            THEN preAllocated[n][ip] ELSE NoClaim]]
    /\ UNCHANGED <<kubeVars, cacheVars, vm, launch>>

-----------------------------------------------------------------------------
(* The rest of Create, seen from the allocator.                            *)

\* The cloud creates the machine and it starts booting with the address in
\* its user data.  A machine of that name left by an earlier attempt is
\* found by name and used as it is, with the address it already has.
StartVM(c) ==
    /\ launch[c].pc = "allocated"
    /\ launch' = [launch EXCEPT ![c].pc = "started"]
    /\ vm' = [vm EXCEPT ![c] = IF @ = NoIP THEN launch[c].ip ELSE @]
    /\ UNCHANGED <<kubeVars, cacheVars, preAllocated>>

\* Create returns the launched NodeClaim; Karpenter stores its provider ID.
CreateReturns(c) ==
    /\ launch[c].pc = "started"
    /\ launch' = [launch EXCEPT ![c] = Idle]
    /\ providerID' = [providerID EXCEPT ![c] = TRUE]
    /\ UNCHANGED <<claim, nodeIP, labelled, cacheVars, preAllocated, vm>>

\* Create fails, before a machine exists or, when waiting for it or storing its
\* record fails, after.  An insufficient-capacity error makes Karpenter delete
\* the NodeClaim, any other one is retried with another address.  The address
\* stays in preAllocated.
CreateFails(c) ==
    /\ launch[c].pc \in {"allocated", "started"}
    /\ launch' = [launch EXCEPT ![c] = Idle]
    /\ \/ claim' = claim
       \/ claim[c] = "live" /\ claim' = [claim EXCEPT ![c] = "deleting"]
    /\ UNCHANGED <<providerID, nodeIP, labelled, cacheVars, preAllocated, vm>>

-----------------------------------------------------------------------------
(* Kubernetes and Karpenter core, as the provider relies on them.          *)

CreateClaim(c) ==
    /\ claim[c] = "absent"
    /\ claim' = [claim EXCEPT ![c] = "live"]
    /\ UNCHANGED <<providerID, nodeIP, labelled, cacheVars, preAllocated, vm, launch>>

DeleteClaim(c) ==
    /\ claim[c] = "live"
    /\ claim' = [claim EXCEPT ![c] = "deleting"]
    /\ UNCHANGED <<providerID, nodeIP, labelled, cacheVars, preAllocated, vm, launch>>

\* The machine's kubelet registers a Node with the peer address as its
\* InternalIP.
NodeJoins(c) ==
    /\ vm[c] # NoIP
    /\ nodeIP[c] = NoIP
    /\ nodeIP' = [nodeIP EXCEPT ![c] = vm[c]]
    /\ UNCHANGED <<claim, providerID, labelled, cacheVars, preAllocated, vm, launch>>

\* Karpenter registers the Node: only now does it carry the NodeClass label
\* that AllocateIP lists by, and Karpenter's own finalizer.
NodeRegistered(c) ==
    /\ nodeIP[c] # NoIP
    /\ providerID[c]
    /\ claim[c] = "live"
    /\ labelled' = [labelled EXCEPT ![c] = TRUE]
    /\ UNCHANGED <<claim, providerID, nodeIP, cacheVars, preAllocated, vm, launch>>

\* Finalization of a NodeClaim runs after any Create of it has returned and
\* deletes the machine by provider ID.
DeleteVM(c) ==
    /\ claim[c] = "deleting"
    /\ launch[c].pc = "idle"
    /\ providerID[c]
    /\ vm[c] # NoIP
    /\ vm' = [vm EXCEPT ![c] = NoIP]
    /\ UNCHANGED <<kubeVars, cacheVars, preAllocated, launch>>

\* The finalizer of a registered Node is removed once its machine is gone; a
\* Node that never registered has no finalizer and may go at any time.
RemoveNode(c) ==
    /\ nodeIP[c] # NoIP
    /\ claim[c] = "deleting"
    /\ vm[c] = NoIP \/ ~labelled[c]
    /\ nodeIP' = [nodeIP EXCEPT ![c] = NoIP]
    /\ labelled' = [labelled EXCEPT ![c] = FALSE]
    /\ UNCHANGED <<claim, providerID, cacheVars, preAllocated, vm, launch>>

\* The NodeClaim's finalizer is removed.  Without a provider ID there is
\* nothing Delete would delete and the NodeClaim simply goes.
RemoveClaim(c) ==
    /\ claim[c] = "deleting"
    /\ launch[c].pc = "idle"
    /\ providerID[c] => vm[c] = NoIP /\ nodeIP[c] = NoIP
    /\ claim' = [claim EXCEPT ![c] = "gone"]
    /\ UNCHANGED <<providerID, nodeIP, labelled, cacheVars, preAllocated, vm, launch>>

\* The informers deliver the state of one object, in any order across objects.
SyncClaim(c) ==
    /\ cachedClaims' = IF claim[c] \in {"live", "deleting"}
                       THEN cachedClaims \cup {c} ELSE cachedClaims \ {c}
    /\ UNCHANGED <<kubeVars, cachedNodeIP, preAllocated, vm, launch>>

SyncNode(c) ==
    /\ cachedNodeIP' = [cachedNodeIP EXCEPT
                          ![c] = IF labelled[c] THEN nodeIP[c] ELSE NoIP]
    /\ UNCHANGED <<kubeVars, cachedClaims, preAllocated, vm, launch>>

-----------------------------------------------------------------------------
AllocatorNext(c) ==
    \/ AllocateIP(c)
    \/ AllocateIPExhausted(c)
    \/ StartVM(c)
    \/ CreateReturns(c)
    \/ CreateFails(c)

ClusterNext(c) ==
    \/ CreateClaim(c)
    \/ DeleteClaim(c)
    \/ NodeJoins(c)
    \/ NodeRegistered(c)
    \/ DeleteVM(c)
    \/ RemoveNode(c)
    \/ RemoveClaim(c)
    \/ SyncClaim(c)
    \/ SyncNode(c)

Cleanup == \E lookupFails \in SUBSET NodeClaims : cleanup(lookupFails)

Next ==
    \/ \E c \in NodeClaims : AllocatorNext(c) \/ ClusterNext(c)
    \/ Cleanup

Spec == Init /\ [][Next]_vars

\* Steps the environment is relied on to take: informers deliver, handlers
\* and finalizers that can run do, and the ticker fires with a lookup that
\* succeeds (the lookup reads the local informer cache).  Nobody has to create
\* or delete a NodeClaim.
Fairness ==
    /\ \A c \in NodeClaims :
        /\ WF_vars(SyncClaim(c))
        /\ WF_vars(SyncNode(c))
        /\ WF_vars(StartVM(c))
        /\ WF_vars(CreateReturns(c))
        /\ WF_vars(DeleteVM(c))
        /\ WF_vars(RemoveNode(c))
        /\ WF_vars(RemoveClaim(c))
    /\ WF_vars(cleanup({}))

FairSpec == Spec /\ Fairness

-----------------------------------------------------------------------------
(* A fault the design does not cover.                                      *)

\* The controller process stops and is started again: preAllocated and every
\* running Create handler are lost, the cache is filled again by a new list.
Restart ==
    /\ preAllocated' = [n \in NodeClasses |-> [ip \in IPs |-> NoClaim]]
    /\ launch' = [c \in NodeClaims |-> Idle]
    /\ cachedClaims' = {c \in NodeClaims : claim[c] \in {"live", "deleting"}}
    /\ cachedNodeIP' = [c \in NodeClaims |-> IF labelled[c] THEN nodeIP[c] ELSE NoIP]
    /\ UNCHANGED <<kubeVars, vm>>

RestartSpec == Init /\ [][Next \/ Restart]_vars

-----------------------------------------------------------------------------
(* Properties.                                                             *)

\* With the addresses taken at any time, AllocateRandomIP can return exactly the
\* addresses of the block that are not taken and, in blocks of more than two
\* addresses, are neither the network nor the broadcast address ("The network
\* address and broadcast address are excluded from allocation (except for /31
\* and /32)"), and its loop ends.  For every CIDR, the /0 block included, whose
\* host count does not fit the code's unsigned integer.
ReturnsUsableAddresses ==
    \A n \in NodeClasses, cidr \in CIDRs :
        /\ LoopEnds(cidr)
        /\ FreeIPs(cidr, Taken(n)) = {ip \in Block(cidr) \ Taken(n) : Usable(cidr, ip)}

SameClass(c, d) == NodeClassRef[c] = NodeClassRef[d]

Exists(c) == claim[c] \in {"live", "deleting"}

\* Two machines of one NodeClass whose NodeClaims exist never run with the same
\* peer address, however the launches, their failures and retries, the informer
\* cache and the cleanup loop interleave.  This is what the mutex and the
\* preAllocated table are for.  (A machine of a failed launch whose NodeClaim
\* is gone is not known to anyone and may share its address.)
UniquePeerIPs ==
    \A c, d \in NodeClaims :
        c # d /\ SameClass(c, d) /\ Exists(c) /\ Exists(d) /\ vm[c] # NoIP =>
            vm[c] # vm[d]

\* The addresses a NodeClaim holds: the one of its launch in progress, of its
\* machine and of its Node, as long as it exists, and of its Node as the cache
\* shows it.
Held(c) ==
    ((IF Exists(c) THEN {launch[c].ip, vm[c], nodeIP[c]} ELSE {}) \cup {cachedNodeIP[c]})
        \ {NoIP}

\* An address the allocator will not hand out again: it is in preAllocated
\* under its NodeClaim, or the cache already shows it on that NodeClaim's Node.
Accounted(c, ip) ==
    \/ preAllocated[NodeClassRef[c]][ip] = c
    \/ cachedNodeIP[c] = ip

\* Between the step that drops a preAllocated entry (because a Node showed the
\* address, or because the NodeClaim is gone) and the end of the address's use
\* there is never a gap: every held address is accounted for.
HeldAddressesAccounted ==
    \A c \in NodeClaims : \A ip \in Held(c) : Accounted(c, ip)

\* Every address the allocator remembers for a NodeClaim that is gone is
\* eventually given back, so a CIDR cannot stay exhausted by failed launches.
StaleAddressesReleased ==
    \A c \in NodeClaims :
        claim[c] = "gone" ~>
            \A n \in NodeClasses, ip \in IPs : preAllocated[n][ip] # c

=============================================================================
