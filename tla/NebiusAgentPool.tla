-------------------------- MODULE NebiusAgentPool --------------------------
(***************************************************************************)
(* The life of a Nebius agent pool: the hub that dispatches Karpenter's    *)
(* calls (karpenter/pkg/cloudproviders/hub.go), Create and Delete of the   *)
(* nebius and kaito providers, down through the plugin's Parent server     *)
(* (plugin/pkg/server/parent.go) and its Nebius instance back end          *)
(* (plugin/pkg/services/agentpools/nebius/instance) to the boot disk, the  *)
(* instance and the record in the plugin's database, and Karpenter's       *)
(* garbage collection of NodeClaims, which relies on the hub's List.       *)
(*                                                                         *)
(* A pool is named after its NodeClaim, and the handlers of one pool run   *)
(* one at a time (Karpenter reconciles a NodeClaim in one worker), so only *)
(* crashes, failing calls and deletions of the NodeClaim come between the  *)
(* steps of a handler.  The disk and the instance are found by name within *)
(* the project, hence at most one of each per pool; disks carry a serial   *)
(* number because the code records and deletes them by ID.                 *)
(***************************************************************************)
EXTENDS Integers

CONSTANTS
    Pools,      \* agent pools, by the name of their NodeClaim
    ClassKind,  \* the kind of NodeClass each of these NodeClaims refers to
    MaxDisks,   \* bound: disks ever created for one pool
    Faults      \* the faults of the environment a run lets happen

\* The providers that share the agent pool database; a provider ID starts with
\* the scheme of its provider.
Providers == {"nebius", "kaito"}

ASSUME ClassKindAssumption == ClassKind \in [Pools -> Providers]

ASSUME BoundsAssumption ==
    /\ MaxDisks \in Nat
    /\ Faults \subseteq {"rejected", "timeout", "quota", "crash", "deleteError", "dropError",
                         "listError"}

VARIABLES
    claim,      \* the NodeClaim object
    providerID, \* the scheme of status.providerID, or NoID
    pc,         \* where the handler running for the pool is
    bootDisk,   \* the disk the running Create has found or made
    quotaErr,   \* whether that Create is failing with a quota error
    disk,       \* the boot disk that exists in the cloud
    lastDisk,   \* serial number of the last disk created
    instance,   \* the instance that exists in the cloud
    db,         \* the pool's record: the disk ID in its status
    cleanups,   \* pools with a quota clean-up goroutine yet to run
    seen,       \* the launched NodeClaims a garbage collection has read
    node,       \* the Node that carries the provider ID
    leaked      \* history: a Create was cut short and may have left something

vars == <<claim, providerID, pc, bootDisk, quotaErr, disk, lastDisk, instance, db,
          cleanups, seen, node, leaked>>
claimVars == <<claim, providerID>>
callVars == <<bootDisk, quotaErr>>
cloudVars == <<disk, lastDisk, instance>>

NoID == "none"
NoDisk == 0
NoRecord == 0

Disks == 0..MaxDisks

NoInstance == [state |-> "none", disk |-> NoDisk]

CreateSteps == {"submit", "disk", "instance", "dropDisk", "fail", "store", "return"}
DeleteSteps == {"deleteInstance", "deleteDisk", "deleteRecord"}

TypeOK ==
    /\ claim \in [Pools -> {"absent", "live", "deleting", "gone"}]
    /\ providerID \in [Pools -> Providers \cup {NoID}]
    /\ pc \in [Pools -> {"idle"} \cup CreateSteps \cup DeleteSteps]
    /\ bootDisk \in [Pools -> Disks]
    /\ quotaErr \in [Pools -> BOOLEAN]
    /\ disk \in [Pools -> Disks]
    /\ lastDisk \in [Pools -> Disks]
    /\ instance \in [Pools -> [state : {"none", "running", "failed"}, disk : Disks]]
    /\ db \in [Pools -> Disks]
    /\ cleanups \in SUBSET Pools
    /\ seen \in SUBSET Pools
    /\ node \in [Pools -> {"none", "joined", "gone"}]
    /\ leaked \in [Pools -> BOOLEAN]

Init ==
    /\ claim = [p \in Pools |-> "absent"]
    /\ providerID = [p \in Pools |-> NoID]
    /\ pc = [p \in Pools |-> "idle"]
    /\ bootDisk = [p \in Pools |-> NoDisk]
    /\ quotaErr = [p \in Pools |-> FALSE]
    /\ disk = [p \in Pools |-> NoDisk]
    /\ lastDisk = [p \in Pools |-> NoDisk]
    /\ instance = [p \in Pools |-> NoInstance]
    /\ db = [p \in Pools |-> NoRecord]
    /\ cleanups = {}
    /\ seen = {}
    /\ node = [p \in Pools |-> "none"]
    /\ leaked = [p \in Pools |-> FALSE]

Goto(p, step) == pc' = [pc EXCEPT ![p] = step]

Leaks(p) == leaked' = [leaked EXCEPT ![p] = TRUE]

-----------------------------------------------------------------------------
(* Create.                                                                 *)

\* Karpenter launches a NodeClaim until it has a provider ID; the hub calls the
\* provider that is registered for the NodeClaim's kind of NodeClass.
Dispatched(p, provider) ==
    /\ pc[p] = "idle"
    /\ claim[p] = "live"
    /\ providerID[p] = NoID
    /\ ClassKind[p] = provider

\* What a provider looks up or refuses before it calls the plugin (NodeClass,
\* instance type, requirements, options, peer address) has no effect here.
NebiusCreate(p) ==
    /\ Dispatched(p, "nebius")
    /\ disk[p] # NoDisk \/ lastDisk[p] < MaxDisks      \* bound
    /\ Goto(p, "submit")
    /\ UNCHANGED <<claimVars, callVars, cloudVars, db, cleanups, seen, node, leaked>>

KaitoCreate(p) ==
    /\ Dispatched(p, "kaito")
    /\ Goto(p, "submit")
    /\ UNCHANGED <<claimVars, callVars, cloudVars, db, cleanups, seen, node, leaked>>

\* The pools the two providers ask for.  Only the nebius provider gives them the
\* cluster's Kubernetes version.
nodeClaimToStretchAgentPool == [kubernetesVersion |-> "cluster"]
nodeClaimToNebiusAgentPool == [kubernetesVersion |-> ""]

Requested(p) ==
    IF ClassKind[p] = "nebius" THEN nodeClaimToStretchAgentPool ELSE nodeClaimToNebiusAgentPool

\* Parent.CreateOrUpdate finds the back end of the pool's type, which refuses a
\* pool without a Kubernetes version before it creates anything.
Submit(p) ==
    /\ pc[p] = "submit"
    /\ Goto(p, IF Requested(p).kubernetesVersion # "" THEN "disk" ELSE "idle")
    /\ UNCHANGED <<claimVars, callVars, cloudVars, db, cleanups, seen, node, leaked>>

MakeDisk(p) ==
    /\ lastDisk[p] < MaxDisks
    /\ lastDisk' = [lastDisk EXCEPT ![p] = @ + 1]
    /\ disk' = [disk EXCEPT ![p] = lastDisk[p] + 1]

\* Mutant: every look at an existing disk reports drift and makes another.
EnsureDiskDrifts(p) ==
    /\ pc[p] = "disk"
    /\ lastDisk' = [lastDisk EXCEPT ![p] = @ + 1]
    /\ disk' = [disk EXCEPT ![p] = lastDisk[p] + 1]
    /\ bootDisk' = [bootDisk EXCEPT ![p] = disk'[p]]
    /\ Goto(p, "instance")
    /\ UNCHANGED <<claimVars, quotaErr, instance, db, cleanups, seen, node, leaked>>

\* DiskCRUD.CreateOrUpdate succeeds: a disk of that name is used as it is
\* (DriftTODO never reports drift), otherwise one is created.
EnsureDisk(p) ==
    /\ pc[p] = "disk"
    /\ \/ disk[p] # NoDisk /\ UNCHANGED <<disk, lastDisk>>
       \/ disk[p] = NoDisk /\ MakeDisk(p)
    /\ bootDisk' = [bootDisk EXCEPT ![p] = disk'[p]]
    /\ Goto(p, "instance")
    /\ UNCHANGED <<claimVars, quotaErr, instance, db, cleanups, seen, node, leaked>>

\* ... or fails: rejected, or accepted with an error while waiting for the
\* operation.  Create returns the error and is retried.
EnsureDiskFails(p) ==
    /\ pc[p] = "disk"
    /\ \/ "rejected" \in Faults /\ UNCHANGED <<disk, lastDisk, leaked>>
       \/ "timeout" \in Faults /\ disk[p] = NoDisk /\ MakeDisk(p) /\ Leaks(p)
    /\ Goto(p, "idle")
    /\ UNCHANGED <<claimVars, callVars, instance, db, cleanups, seen, node>>

\* The instance that is asked for boots from the disk in hand.
DesiredInstance(p, state) == [state |-> state, disk |-> bootDisk[p]]

\* InstanceCRUD.CreateOrUpdate succeeds; an instance of that name is used as
\* it is, whatever its state and its disk.
EnsureInstance(p) ==
    /\ pc[p] = "instance"
    /\ instance' = [instance EXCEPT
                      ![p] = IF @.state # "none" THEN @
                             ELSE DesiredInstance(p, "running")]
    /\ Goto(p, "store")
    /\ UNCHANGED <<claimVars, callVars, disk, lastDisk, db, cleanups, seen, node, leaked>>

\* ... or fails: rejected, accepted with an error while waiting, or out of
\* quota, where Nebius makes the instance but marks it as failed.
EnsureInstanceFails(p) ==
    /\ pc[p] = "instance"
    /\ \/ "rejected" \in Faults /\ UNCHANGED <<instance, quotaErr, leaked>>
       \/ /\ instance[p].state = "none"
          /\ \/ /\ "timeout" \in Faults
                /\ instance' = [instance EXCEPT ![p] = DesiredInstance(p, "running")]
                /\ Leaks(p)
                /\ UNCHANGED quotaErr
             \/ /\ "quota" \in Faults
                /\ instance' = [instance EXCEPT ![p] = DesiredInstance(p, "failed")]
                /\ quotaErr' = [quotaErr EXCEPT ![p] = TRUE]
                /\ UNCHANGED leaked
    /\ Goto(p, "dropDisk")
    /\ UNCHANGED <<claimVars, bootDisk, disk, lastDisk, db, cleanups, seen, node>>

\* The cloud refuses to delete the disk of a running instance.
InUse(p) == instance[p].state = "running" /\ instance[p].disk = disk[p]

\* Mutant: the disk of a failed Create is left behind.
DropDiskSkipped(p) ==
    /\ pc[p] = "dropDisk"
    /\ Goto(p, "fail")
    /\ UNCHANGED <<claimVars, callVars, cloudVars, db, cleanups, seen, node, leaked>>

\* The error path of the back end deletes the boot disk, also one an earlier
\* attempt made.  A second error is returned along with the first.
DropDisk(p) ==
    /\ pc[p] = "dropDisk"
    /\ \/ ~InUse(p) /\ disk' = [disk EXCEPT ![p] = NoDisk] /\ UNCHANGED leaked
       \/ InUse(p) /\ UNCHANGED <<disk, leaked>>
       \/ "dropError" \in Faults /\ Leaks(p) /\ UNCHANGED disk
    /\ Goto(p, "fail")
    /\ UNCHANGED <<claimVars, callVars, lastDisk, instance, db, cleanups, seen, node>>

\* Mutant: a quota error is retried like any other error.
CreateFailsRetriesQuota(p) ==
    /\ pc[p] = "fail"
    /\ quotaErr' = [quotaErr EXCEPT ![p] = FALSE]
    /\ Goto(p, "idle")
    /\ UNCHANGED <<claimVars, bootDisk, cloudVars, db, cleanups, seen, node, leaked>>

\* Create returns an error.  For a quota error it starts the clean-up goroutine
\* and returns an InsufficientCapacityError, on which Karpenter deletes the
\* NodeClaim; any other error is retried.
CreateFails(p) ==
    /\ pc[p] = "fail"
    /\ IF quotaErr[p]
       THEN /\ claim' = [claim EXCEPT ![p] = IF @ = "live" THEN "deleting" ELSE @]
            /\ cleanups' = cleanups \cup {p}
       ELSE UNCHANGED <<claim, cleanups>>
    /\ quotaErr' = [quotaErr EXCEPT ![p] = FALSE]
    /\ Goto(p, "idle")
    /\ UNCHANGED <<providerID, bootDisk, cloudVars, db, seen, node, leaked>>

\* Parent.CreateOrUpdate stores the pool with the IDs in its status.
Store(p) ==
    /\ pc[p] = "store"
    /\ db' = [db EXCEPT ![p] = bootDisk[p]]
    /\ Goto(p, "return")
    /\ UNCHANGED <<claimVars, callVars, cloudVars, cleanups, seen, node, leaked>>

\* Create returns the launched NodeClaim with a provider ID of the provider's
\* scheme, which Karpenter stores.  All that exists of the pool is on record now.
CreateReturns(p) ==
    /\ pc[p] = "return"
    /\ providerID' = [providerID EXCEPT ![p] = ClassKind[p]]
    /\ leaked' = [leaked EXCEPT ![p] = @ /\ instance[p].state = "failed"]
    /\ Goto(p, "idle")
    /\ UNCHANGED <<claim, callVars, cloudVars, db, cleanups, seen, node>>

\* The clean-up goroutine calls CloudProvider.Delete with the NodeClaim that
\* Create was given: without a provider ID Delete returns at once.
QuotaCleanup(p) ==
    /\ p \in cleanups
    /\ providerID[p] = NoID
    /\ cleanups' = cleanups \ {p}
    /\ UNCHANGED <<claimVars, pc, callVars, cloudVars, db, seen, node, leaked>>

-----------------------------------------------------------------------------
(* Delete, called through the hub by the finalizer of a NodeClaim.         *)

\* The NodeClaim has a provider ID of its provider, and the pool that ID names is
\* in the database.
Known(p) == providerID[p] = ClassKind[p] /\ db[p] # NoRecord

\* Mutant: Parent.Delete removes the record before it calls the back end.
DeleteStartDropsRecord(p) ==
    /\ pc[p] = "idle"
    /\ claim[p] = "deleting"
    /\ IF Known(p)
       THEN Goto(p, "deleteInstance") /\ db' = [db EXCEPT ![p] = NoRecord] /\ UNCHANGED claim
       ELSE node[p] # "joined" /\ claim' = [claim EXCEPT ![p] = "gone"] /\ UNCHANGED <<pc, db>>
    /\ UNCHANGED <<providerID, callVars, cloudVars, cleanups, seen, node, leaked>>

\* Without a provider ID, or without a record (NodeClaimNotFoundError), there
\* is nothing to delete and Karpenter removes the finalizer, once the Node is gone.
DeleteStart(p) ==
    /\ pc[p] = "idle"
    /\ claim[p] = "deleting"
    /\ IF Known(p)
       THEN Goto(p, "deleteInstance") /\ UNCHANGED claim
       ELSE node[p] # "joined" /\ claim' = [claim EXCEPT ![p] = "gone"] /\ UNCHANGED pc
    /\ UNCHANGED <<providerID, callVars, cloudVars, db, cleanups, seen, node, leaked>>

\* Mutant: an instance that is not found is an error like any other.
DeleteInstanceNotFoundFails(p) ==
    /\ pc[p] = "deleteInstance"
    /\ instance' = [instance EXCEPT ![p] = NoInstance]
    /\ Goto(p, IF instance[p] = NoInstance THEN "idle" ELSE "deleteDisk")
    /\ UNCHANGED <<claimVars, callVars, disk, lastDisk, db, cleanups, seen, node, leaked>>

\* The instance goes first; an instance that is not found counts as deleted.
DeleteInstance(p) ==
    /\ pc[p] = "deleteInstance"
    /\ instance' = [instance EXCEPT ![p] = NoInstance]
    /\ Goto(p, "deleteDisk")
    /\ UNCHANGED <<claimVars, callVars, disk, lastDisk, db, cleanups, seen, node, leaked>>

\* Then the recorded disk, by its ID.
DeleteDisk(p) ==
    /\ pc[p] = "deleteDisk"
    /\ disk' = [disk EXCEPT ![p] = IF @ = db[p] THEN NoDisk ELSE @]
    /\ Goto(p, "deleteRecord")
    /\ UNCHANGED <<claimVars, callVars, lastDisk, instance, db, cleanups, seen, node, leaked>>

\* A deletion that returns an error, before or after it took effect, ends
\* Delete; Karpenter calls it again.
DeleteFails(p) ==
    /\ "deleteError" \in Faults
    /\ \/ /\ pc[p] = "deleteInstance"
          /\ instance' \in {instance, [instance EXCEPT ![p] = NoInstance]}
          /\ UNCHANGED disk
       \/ /\ pc[p] = "deleteDisk"
          /\ disk' \in {disk, [disk EXCEPT ![p] = IF @ = db[p] THEN NoDisk ELSE @]}
          /\ UNCHANGED instance
    /\ Goto(p, "idle")
    /\ UNCHANGED <<claimVars, callVars, lastDisk, db, cleanups, seen, node, leaked>>

\* Parent.Delete removes the record last.
DeleteRecord(p) ==
    /\ pc[p] = "deleteRecord"
    /\ db' = [db EXCEPT ![p] = NoRecord]
    /\ Goto(p, "idle")
    /\ UNCHANGED <<claimVars, callVars, cloudVars, cleanups, seen, node, leaked>>

-----------------------------------------------------------------------------
(* List, and the garbage collection that relies on it.                     *)

agentPoolNameToProviderID(provider, p) == [scheme |-> provider, pool |-> p]

\* What each provider makes of a record.  All pools are on record in one database,
\* so each provider shows those of the other too, under its own scheme.
stretchAgentPoolToNodeClaim(p) == agentPoolNameToProviderID("nebius", p)
strechAgentPoolToNodeClaim(p) == agentPoolNameToProviderID("kaito", p)

Recorded == {p \in Pools : db[p] # NoRecord}

NebiusList == {stretchAgentPoolToNodeClaim(p) : p \in Recorded}
KaitoList == {strechAgentPoolToNodeClaim(p) : p \in Recorded}

\* Mutant: a provider that cannot list its pools is left out.
HubListsPartial ==
    IF "listError" \in Faults THEN {{}, NebiusList, KaitoList, NebiusList \cup KaitoList}
                              ELSE {NebiusList \cup KaitoList}

\* The hub's List: the lists of all providers, and none at all if one of them
\* cannot be made (AKS cannot be asked, a pool's preset cannot be resolved).
HubLists == {NebiusList \cup KaitoList}

\* A look at a pool by its provider ID, which a provider parses only if it has
\* the provider's scheme.
GetAgentPool(provider, id) ==
    IF id.scheme # provider THEN {"error"}
    ELSE {IF id.pool \in Recorded THEN "found" ELSE "notFound"}
            \cup (IF "listError" \in Faults THEN {"error"} ELSE {})

\* Get of the providers: a pool without a record is a NodeClaimNotFoundError, and
\* no other failure is.  The nebius provider has to resolve the preset too.
NebiusGet(id) ==
    GetAgentPool("nebius", id) \cup (IF "listError" \in Faults THEN {"error"} ELSE {})

KaitoGet(id) == GetAgentPool("kaito", id)

\* The hub's Get goes by the scheme of the provider ID.
HubGet(id) ==
    CASE id.scheme = "nebius" -> NebiusGet(id)
      [] id.scheme = "kaito" -> KaitoGet(id)
      [] OTHER -> {"error"}

\* Karpenter's garbage collection reads the NodeClaims first ...
CollectStart ==
    /\ seen = {}
    /\ seen' = {p \in Pools : claim[p] = "live" /\ providerID[p] # NoID}
    /\ UNCHANGED <<claimVars, pc, callVars, cloudVars, db, cleanups, node, leaked>>

\* ... then lists the cloud's, and deletes the ones no provider knows of.
Collect ==
    /\ seen # {}
    /\ \E list \in HubLists :
         claim' = [p \in Pools |->
                     IF /\ p \in seen
                        /\ claim[p] = "live"
                        /\ agentPoolNameToProviderID(providerID[p], p) \notin list
                     THEN "deleting" ELSE claim[p]]
    /\ seen' = {}
    /\ UNCHANGED <<providerID, pc, callVars, cloudVars, db, cleanups, node, leaked>>

\* A List that fails ends the garbage collection.
CollectFails ==
    /\ "listError" \in Faults
    /\ seen # {}
    /\ seen' = {}
    /\ UNCHANGED <<claimVars, pc, callVars, cloudVars, db, cleanups, node, leaked>>

\* The machine joins the cluster, and its Node carries the provider ID.
NodeJoins(p) ==
    /\ node[p] = "none"
    /\ instance[p].state = "running"
    /\ providerID[p] # NoID
    /\ node' = [node EXCEPT ![p] = "joined"]
    /\ UNCHANGED <<claimVars, pc, callVars, cloudVars, db, cleanups, seen, leaked>>

\* Karpenter lets a Node that is being deleted go when Get does not find its
\* machine.
NodeTerminates(p) ==
    /\ node[p] = "joined"
    /\ claim[p] = "deleting"
    /\ "notFound" \in HubGet(agentPoolNameToProviderID(providerID[p], p))
    /\ node' = [node EXCEPT ![p] = "gone"]
    /\ UNCHANGED <<claimVars, pc, callVars, cloudVars, db, cleanups, seen, leaked>>

-----------------------------------------------------------------------------
(* The environment.                                                        *)

CreateClaim(p) ==
    /\ claim[p] = "absent"
    /\ claim' = [claim EXCEPT ![p] = "live"]
    /\ UNCHANGED <<providerID, pc, callVars, cloudVars, db, cleanups, seen, node, leaked>>

\* A user, a consolidation or Karpenter's launch timeout deletes the NodeClaim.
DeleteClaim(p) ==
    /\ claim[p] = "live"
    /\ claim' = [claim EXCEPT ![p] = "deleting"]
    /\ UNCHANGED <<providerID, pc, callVars, cloudVars, db, cleanups, seen, node, leaked>>

\* The process stops: every handler and every clean-up goroutine is lost.
Crash ==
    /\ "crash" \in Faults
    /\ leaked' = [p \in Pools |->
                    leaked[p] \/ pc[p] \in {"instance", "dropDisk", "fail", "store", "return"}]
    /\ pc' = [p \in Pools |-> "idle"]
    /\ quotaErr' = [p \in Pools |-> FALSE]
    /\ cleanups' = {}
    /\ seen' = {}
    /\ UNCHANGED <<claimVars, bootDisk, cloudVars, db, node>>

-----------------------------------------------------------------------------
Handler(p) ==
    \/ NebiusCreate(p) \/ KaitoCreate(p) \/ Submit(p) \/ EnsureDisk(p) \/ EnsureInstance(p)
    \/ DropDisk(p) \/ CreateFails(p) \/ Store(p) \/ CreateReturns(p) \/ QuotaCleanup(p)
    \/ DeleteStart(p) \/ DeleteInstance(p) \/ DeleteDisk(p) \/ DeleteRecord(p)
    \/ NodeTerminates(p)

Failure(p) == EnsureDiskFails(p) \/ EnsureInstanceFails(p) \/ DeleteFails(p)

Next ==
    \/ \E p \in Pools : Handler(p) \/ Failure(p) \/ CreateClaim(p) \/ DeleteClaim(p) \/ NodeJoins(p)
    \/ CollectStart \/ Collect \/ CollectFails
    \/ Crash

Spec == Init /\ [][Next]_vars

\* Karpenter keeps reconciling, handlers proceed, and a deletion that is
\* retried for ever gets through in the end, however often the process crashes.
Fairness ==
    \A p \in Pools :
        /\ WF_vars(Handler(p))
        /\ SF_vars(DeleteInstance(p))
        /\ SF_vars(DeleteDisk(p))
        /\ SF_vars(DeleteRecord(p))

FairSpec == Spec /\ Fairness

-----------------------------------------------------------------------------
(* Properties.                                                             *)

\* The pool a live NodeClaim's record stands for is really there: a running
\* instance, on the disk the record names, and that disk exists.  Holds through
\* crashes and retries because both resources are found again by name.  (Only a
\* Create cut short after a quota error lets the next one record the failed
\* instance.)
RecordedPoolBacked ==
    \A p \in Pools :
        /\ db[p] # NoRecord
        /\ claim[p] = "live"
        /\ ~(leaked[p] /\ instance[p].state = "failed")
        => /\ instance[p] = [state |-> "running", disk |-> db[p]]
           /\ disk[p] = db[p]

\* As long as anything of a launched pool exists in the cloud its record exists
\* too, so that a deletion which fails or crashes half way can be taken up
\* again (Delete treats a missing record as a pool that is already gone).
RecordOutlivesResources ==
    \A p \in Pools :
        providerID[p] # NoID /\ (instance[p].state # "none" \/ disk[p] # NoDisk)
        => db[p] # NoRecord

\* A NodeClaim that is gone leaves neither a running instance nor a disk behind,
\* unless a Create was cut short or its clean-up failed and no later one
\* succeeded.  (A failed instance does stay: see FailedInstanceDeleted.)
NoOrphans ==
    \A p \in Pools :
        claim[p] = "gone" /\ ~leaked[p] => instance[p].state # "running" /\ disk[p] = NoDisk

\* Karpenter lets go of a running machine neither by garbage collection of its
\* NodeClaim, although that works from NodeClaims read earlier and from a List that
\* may fail for one of the providers (the hub returns no partial List), nor by
\* releasing its Node, although Get reports a machine as not found from the record
\* alone, while Delete takes several steps that may fail.
CollectSparesRunning ==
    [][\A p \in Pools : instance[p].state = "running" =>
         /\ p \in seen /\ claim[p] = "live" /\ seen' = {} => claim'[p] = "live"
         /\ node[p] = "joined" => node'[p] = "joined"]_vars

\* A deleted NodeClaim does go, however often deletions fail first and the
\* process crashes.
DeletionCompletes ==
    \A p \in Pools : claim[p] = "deleting" ~> claim[p] = "gone"

\* An instance that Nebius marked as failed for lack of quota is deleted again
\* ("So here we delete the created resource in best effort when seeing quota
\* error", cloudprovider.go).
FailedInstanceDeleted ==
    \A p \in Pools : instance[p].state = "failed" ~> instance[p].state # "failed"

=============================================================================
