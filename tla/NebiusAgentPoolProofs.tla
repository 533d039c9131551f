----------------------- MODULE NebiusAgentPoolProofs -----------------------
(***************************************************************************)
(* Proofs about NebiusAgentPool, for every set of pools, every assignment  *)
(* of NodeClass kinds, every set of faults and any number of disks.        *)
(*                                                                         *)
(* None of the invariants is inductive.  PoolInv ties the step a handler   *)
(* is at to the resources it has in hand: an instance that runs is on the  *)
(* disk that exists, a disk in hand is the one that exists until it is     *)
(* dropped, whatever a Create that was not cut short leaves is on record,  *)
(* and a deletion works on a pool that was launched.                       *)
(***************************************************************************)
EXTENDS NebiusAgentPool, TLAPS

\* A running instance keeps its disk: the cloud refuses to delete it, and so
\* another is never made under its name.
RunsOnDisk(p) == instance[p].state = "running" => instance[p].disk = disk[p] /\ disk[p] # NoDisk

\* The disk a Create has in hand.
DiskInHand(p) ==
    /\ pc[p] \in {"instance", "dropDisk", "store", "return"} => bootDisk[p] = disk[p] /\ disk[p] # NoDisk
    /\ pc[p] = "store" => instance[p].state # "none"
    /\ pc[p] = "return" => instance[p].state # "none" /\ db[p] = bootDisk[p]

\* Who runs Create and Delete, and what a Delete has done so far.
Roles(p) ==
    /\ providerID[p] \in {NoID, ClassKind[p]}
    /\ pc[p] \in CreateSteps => providerID[p] = NoID /\ claim[p] \in {"live", "deleting"}
    /\ pc[p] \in DeleteSteps => providerID[p] # NoID /\ claim[p] = "deleting" /\ db[p] # NoRecord
    /\ pc[p] \in {"deleteDisk", "deleteRecord"} => instance[p].state = "none"
    /\ pc[p] = "deleteRecord" => disk[p] = NoDisk
    /\ claim[p] \in {"absent", "gone"} => pc[p] = "idle"
    /\ claim[p] = "absent" => providerID[p] = NoID
    /\ p \in seen => providerID[p] # NoID

\* A failed instance: its Create is on the way out with a quota error, or has
\* had the NodeClaim deleted, or was cut short.
FailedInstance(p) ==
    /\ quotaErr[p] => pc[p] \in {"dropDisk", "fail"}
    /\ instance[p].state = "failed" /\ ~leaked[p] =>
          \/ pc[p] \in {"dropDisk", "fail"} /\ quotaErr[p]
          \/ pc[p] \notin CreateSteps /\ claim[p] \in {"deleting", "gone"}

\* What is on record is there, until a Delete begins to take it apart.
Backed(p) ==
    db[p] # NoRecord /\ (providerID[p] = NoID \/ claim[p] = "live") =>
        \/ instance[p].state = "running" /\ instance[p].disk = db[p] /\ disk[p] = db[p]
        \/ instance[p].state = "failed" /\ leaked[p]

\* What a launched pool has is on record.
OnRecord(p) ==
    providerID[p] # NoID =>
        /\ disk[p] \in {NoDisk, db[p]}
        /\ db[p] = NoRecord => instance[p].state = "none"

\* What is there before a launch was left by a Create that was cut short.
LeftByCut(p) ==
    providerID[p] = NoID /\ ~leaked[p] =>
        /\ pc[p] \in {"idle", "submit", "disk", "instance", "dropDisk", "fail"} =>
              instance[p].state # "running"
        /\ pc[p] \in {"idle", "submit", "disk", "fail"} => disk[p] = NoDisk

PoolInv(p) ==
    /\ RunsOnDisk(p) /\ DiskInHand(p) /\ Roles(p) /\ FailedInstance(p)
    /\ Backed(p) /\ OnRecord(p) /\ LeftByCut(p)

\* A NodeClaim that is gone has left nothing, or was cut short.
GonePool(p) ==
    claim[p] = "gone" /\ ~leaked[p] => instance[p].state # "running" /\ disk[p] = NoDisk

IInv == TypeOK /\ \A p \in Pools : PoolInv(p) /\ GonePool(p)

-----------------------------------------------------------------------------
(* Types.                                                                  *)

\* Every step keeps the types.
LEMMA TypeStep == TypeOK /\ [Next]_vars => TypeOK'
<1> SUFFICES ASSUME TypeOK, [Next]_vars PROVE TypeOK'
    OBVIOUS
<1> USE ClassKindAssumption, BoundsAssumption
<1> USE DEF TypeOK, vars, claimVars, callVars, cloudVars, Disks, NoDisk, NoRecord, NoID, Providers,
            CreateSteps, DeleteSteps
<1>1. ASSUME NEW p \in Pools, NebiusCreate(p) PROVE TypeOK'
    BY <1>1 DEF NebiusCreate, Dispatched, Goto
<1>2. ASSUME NEW p \in Pools, KaitoCreate(p) PROVE TypeOK'
    BY <1>2 DEF KaitoCreate, Dispatched, Goto
<1>3. ASSUME NEW p \in Pools, Submit(p) PROVE TypeOK'
    BY <1>3 DEF Submit, Goto
<1>4. ASSUME NEW p \in Pools, EnsureDisk(p) PROVE TypeOK'
    <2>1. disk' \in [Pools -> Disks] /\ lastDisk' \in [Pools -> Disks]
        <3>1. CASE UNCHANGED <<disk, lastDisk>>
            BY <3>1
        <3>2. CASE MakeDisk(p)
            <4>1. lastDisk[p] + 1 \in Disks
                BY <3>2 DEF MakeDisk
            <4> QED
                BY <3>2, <4>1 DEF MakeDisk
        <3> QED
            BY <1>4, <3>1, <3>2 DEF EnsureDisk
    <2>2. bootDisk' \in [Pools -> Disks]
        BY <1>4, <2>1 DEF EnsureDisk
    <2> QED
        BY <1>4, <2>1, <2>2 DEF EnsureDisk, Goto
<1>5. ASSUME NEW p \in Pools, EnsureInstance(p) PROVE TypeOK'
    BY <1>5 DEF EnsureInstance, DesiredInstance, Goto
<1>6. ASSUME NEW p \in Pools, DropDisk(p) PROVE TypeOK'
    <2>1. disk' \in [Pools -> Disks]
        BY <1>6 DEF DropDisk
    <2>2. leaked' \in [Pools -> BOOLEAN]
        BY <1>6 DEF DropDisk, Leaks
    <2> QED
        BY <1>6, <2>1, <2>2 DEF DropDisk, Goto
<1>7. ASSUME NEW p \in Pools, CreateFails(p) PROVE TypeOK'
    BY <1>7 DEF CreateFails, Goto
<1>8. ASSUME NEW p \in Pools, Store(p) PROVE TypeOK'
    BY <1>8 DEF Store, Goto
<1>9. ASSUME NEW p \in Pools, CreateReturns(p) PROVE TypeOK'
    <2>1. leaked' \in [Pools -> BOOLEAN]
        BY <1>9 DEF CreateReturns
    <2>2. providerID' \in [Pools -> Providers \cup {NoID}] /\ pc' = [pc EXCEPT ![p] = "idle"]
        BY <1>9 DEF CreateReturns, Goto
    <2>3. UNCHANGED <<claim, callVars, cloudVars, db, cleanups, seen, node>>
        BY <1>9 DEF CreateReturns
    <2> QED
        BY <2>1, <2>2, <2>3
<1>10. ASSUME NEW p \in Pools, QuotaCleanup(p) PROVE TypeOK'
    BY <1>10 DEF QuotaCleanup
<1>11. ASSUME NEW p \in Pools, DeleteStart(p) PROVE TypeOK'
    BY <1>11 DEF DeleteStart, Known, Goto
<1>12. ASSUME NEW p \in Pools, DeleteInstance(p) PROVE TypeOK'
    BY <1>12 DEF DeleteInstance, NoInstance, Goto
<1>13. ASSUME NEW p \in Pools, DeleteDisk(p) PROVE TypeOK'
    BY <1>13 DEF DeleteDisk, Goto
<1>14. ASSUME NEW p \in Pools, DeleteRecord(p) PROVE TypeOK'
    BY <1>14 DEF DeleteRecord, Goto
<1>15. ASSUME NEW p \in Pools, EnsureDiskFails(p) PROVE TypeOK'
    <2>1. disk' \in [Pools -> Disks] /\ lastDisk' \in [Pools -> Disks]
        BY <1>15 DEF EnsureDiskFails, MakeDisk, Leaks
    <2>2. leaked' \in [Pools -> BOOLEAN]
        BY <1>15 DEF EnsureDiskFails, Leaks
    <2> QED
        BY <1>15, <2>1, <2>2 DEF EnsureDiskFails, Goto
<1>16. ASSUME NEW p \in Pools, EnsureInstanceFails(p) PROVE TypeOK'
    <2>1. instance' \in [Pools -> [state : {"none", "running", "failed"}, disk : Disks]]
        BY <1>16 DEF EnsureInstanceFails, DesiredInstance, Leaks
    <2>2. leaked' \in [Pools -> BOOLEAN]
        BY <1>16 DEF EnsureInstanceFails, Leaks
    <2>3. quotaErr' \in [Pools -> BOOLEAN]
        BY <1>16 DEF EnsureInstanceFails
    <2> QED
        BY <1>16, <2>1, <2>2, <2>3 DEF EnsureInstanceFails, Goto
<1>17. ASSUME NEW p \in Pools, DeleteFails(p) PROVE TypeOK'
    <2>1. disk' \in [Pools -> Disks]
        BY <1>17 DEF DeleteFails
    <2>2. instance' \in [Pools -> [state : {"none", "running", "failed"}, disk : Disks]]
        BY <1>17 DEF DeleteFails, NoInstance
    <2> QED
        BY <1>17, <2>1, <2>2 DEF DeleteFails, Goto
<1>18. ASSUME NEW p \in Pools, CreateClaim(p) PROVE TypeOK'
    BY <1>18 DEF CreateClaim
<1>19. ASSUME NEW p \in Pools, DeleteClaim(p) PROVE TypeOK'
    BY <1>19 DEF DeleteClaim
<1>20. CASE CollectStart
    BY <1>20 DEF CollectStart
<1>21. CASE Collect
    BY <1>21 DEF Collect
<1>22. CASE CollectFails
    BY <1>22 DEF CollectFails
<1>23. CASE Crash
    BY <1>23 DEF Crash
<1>24. CASE UNCHANGED vars
    BY <1>24
<1>25. ASSUME NEW p \in Pools, NodeJoins(p) PROVE TypeOK'
    BY <1>25 DEF NodeJoins
<1>26. ASSUME NEW p \in Pools, NodeTerminates(p) PROVE TypeOK'
    BY <1>26 DEF NodeTerminates
<1> QED
    BY <1>1, <1>2, <1>3, <1>4, <1>5, <1>6, <1>7, <1>8, <1>9, <1>10, <1>11, <1>12, <1>13, <1>14, <1>15, <1>16,
       <1>17, <1>18, <1>19, <1>20, <1>21, <1>22, <1>23, <1>24, <1>25, <1>26
       DEF Next, Handler, Failure

-----------------------------------------------------------------------------
(* The pools.                                                              *)

\* Every step keeps the invariant of every pool.
LEMMA PoolStep ==
    IInv /\ [Next]_vars => \A q \in Pools : PoolInv(q)' /\ GonePool(q)'
<1> SUFFICES ASSUME IInv, [Next]_vars, NEW q \in Pools PROVE PoolInv(q)' /\ GonePool(q)'
    OBVIOUS
<1> USE ClassKindAssumption, BoundsAssumption
<1> USE DEF IInv, TypeOK, PoolInv, GonePool, RunsOnDisk, DiskInHand, Roles, FailedInstance, Backed,
            OnRecord, LeftByCut, vars, claimVars, callVars, cloudVars, Disks, NoDisk, NoRecord, NoID,
            Providers, CreateSteps, DeleteSteps
<1>1. ASSUME NEW p \in Pools, NebiusCreate(p) PROVE PoolInv(q)' /\ GonePool(q)'
    BY <1>1 DEF NebiusCreate, Dispatched, Goto
<1>2. ASSUME NEW p \in Pools, KaitoCreate(p) PROVE PoolInv(q)' /\ GonePool(q)'
    BY <1>2 DEF KaitoCreate, Dispatched, Goto
<1>3. ASSUME NEW p \in Pools, Submit(p) PROVE PoolInv(q)' /\ GonePool(q)'
    <2>1. pc' = [pc EXCEPT ![p] = "disk"] \/ pc' = [pc EXCEPT ![p] = "idle"]
        BY <1>3 DEF Submit, Goto
    <2>2. pc[p] = "submit"
        BY <1>3 DEF Submit
    <2>3. UNCHANGED <<claimVars, callVars, cloudVars, db, cleanups, seen, node, leaked>>
        BY <1>3 DEF Submit
    <2> QED
        BY <2>1, <2>2, <2>3
<1>4. ASSUME NEW p \in Pools, EnsureDisk(p) PROVE PoolInv(q)' /\ GonePool(q)'
    BY <1>4 DEF EnsureDisk, MakeDisk, Goto
<1>5. ASSUME NEW p \in Pools, EnsureInstance(p) PROVE PoolInv(q)' /\ GonePool(q)'
    BY <1>5 DEF EnsureInstance, DesiredInstance, Goto
<1>6. ASSUME NEW p \in Pools, DropDisk(p) PROVE PoolInv(q)' /\ GonePool(q)'
    BY <1>6 DEF DropDisk, InUse, Leaks, Goto
<1>7. ASSUME NEW p \in Pools, CreateFails(p) PROVE PoolInv(q)' /\ GonePool(q)'
    BY <1>7 DEF CreateFails, Goto
<1>8. ASSUME NEW p \in Pools, Store(p) PROVE PoolInv(q)' /\ GonePool(q)'
    BY <1>8 DEF Store, Goto
<1>9. ASSUME NEW p \in Pools, CreateReturns(p) PROVE PoolInv(q)' /\ GonePool(q)'
    <2>1. CASE q = p
        <3>1. pc[p] = "return" /\ pc'[p] = "idle" /\ providerID'[p] = ClassKind[p]
            BY <1>9 DEF CreateReturns, Goto
        <3>2. leaked'[p] = (leaked[p] /\ instance[p].state = "failed")
            BY <1>9 DEF CreateReturns
        <3>3. UNCHANGED <<claim, callVars, cloudVars, db, cleanups, seen>>
            BY <1>9 DEF CreateReturns
        <3>4. instance[p].state \in {"none", "running", "failed"}
            OBVIOUS
        <3> QED
            BY <2>1, <3>1, <3>2, <3>3, <3>4
    <2>2. CASE q # p
        BY <1>9, <2>2 DEF CreateReturns, Goto
    <2> QED
        BY <2>1, <2>2
<1>10. ASSUME NEW p \in Pools, QuotaCleanup(p) PROVE PoolInv(q)' /\ GonePool(q)'
    BY <1>10 DEF QuotaCleanup
<1>11. ASSUME NEW p \in Pools, DeleteStart(p) PROVE PoolInv(q)' /\ GonePool(q)'
    BY <1>11 DEF DeleteStart, Known, Goto
<1>12. ASSUME NEW p \in Pools, DeleteInstance(p) PROVE PoolInv(q)' /\ GonePool(q)'
    BY <1>12 DEF DeleteInstance, NoInstance, Goto
<1>13. ASSUME NEW p \in Pools, DeleteDisk(p) PROVE PoolInv(q)' /\ GonePool(q)'
    BY <1>13 DEF DeleteDisk, Goto
<1>14. ASSUME NEW p \in Pools, DeleteRecord(p) PROVE PoolInv(q)' /\ GonePool(q)'
    BY <1>14 DEF DeleteRecord, Goto
<1>15. ASSUME NEW p \in Pools, EnsureDiskFails(p) PROVE PoolInv(q)' /\ GonePool(q)'
    BY <1>15 DEF EnsureDiskFails, MakeDisk, Leaks, Goto
<1>16. ASSUME NEW p \in Pools, EnsureInstanceFails(p) PROVE PoolInv(q)' /\ GonePool(q)'
    BY <1>16 DEF EnsureInstanceFails, DesiredInstance, Leaks, Goto
<1>17. ASSUME NEW p \in Pools, DeleteFails(p) PROVE PoolInv(q)' /\ GonePool(q)'
    BY <1>17 DEF DeleteFails, NoInstance, Goto
<1>18. ASSUME NEW p \in Pools, CreateClaim(p) PROVE PoolInv(q)' /\ GonePool(q)'
    BY <1>18 DEF CreateClaim
<1>19. ASSUME NEW p \in Pools, DeleteClaim(p) PROVE PoolInv(q)' /\ GonePool(q)'
    BY <1>19 DEF DeleteClaim
<1>20. CASE CollectStart
    BY <1>20 DEF CollectStart
<1>21. CASE Collect
    BY <1>21 DEF Collect
<1>22. CASE CollectFails
    BY <1>22 DEF CollectFails
<1>23. CASE Crash
    BY <1>23 DEF Crash
<1>24. CASE UNCHANGED vars
    BY <1>24
<1>25. ASSUME NEW p \in Pools, NodeJoins(p) PROVE PoolInv(q)' /\ GonePool(q)'
    BY <1>25 DEF NodeJoins
<1>26. ASSUME NEW p \in Pools, NodeTerminates(p) PROVE PoolInv(q)' /\ GonePool(q)'
    BY <1>26 DEF NodeTerminates
<1> QED
    BY <1>1, <1>2, <1>3, <1>4, <1>5, <1>6, <1>7, <1>8, <1>9, <1>10, <1>11, <1>12, <1>13, <1>14, <1>15, <1>16,
       <1>17, <1>18, <1>19, <1>20, <1>21, <1>22, <1>23, <1>24, <1>25, <1>26
       DEF Next, Handler, Failure

-----------------------------------------------------------------------------
(* The inductive invariant.                                                *)

\* At first there is nothing.
LEMMA InitInv == Init => IInv
<1> SUFFICES ASSUME Init PROVE IInv
    OBVIOUS
<1>1. TypeOK
    BY BoundsAssumption DEF Init, TypeOK, Disks, NoDisk, NoRecord, NoID, NoInstance, Providers,
                            CreateSteps, DeleteSteps
<1>2. ASSUME NEW p \in Pools PROVE PoolInv(p) /\ GonePool(p)
    BY DEF Init, PoolInv, GonePool, RunsOnDisk, DiskInHand, Roles, FailedInstance, Backed, OnRecord,
           LeftByCut, NoDisk, NoRecord, NoInstance, CreateSteps, DeleteSteps
<1> QED
    BY <1>1, <1>2 DEF IInv

\* Types and pools together.
LEMMA InvStep == IInv /\ [Next]_vars => IInv'
BY TypeStep, PoolStep DEF IInv

\* The invariant holds throughout.
LEMMA InvAlways == Spec => []IInv
BY InitInv, InvStep, PTL DEF Spec

-----------------------------------------------------------------------------
(* Theorems.                                                               *)

\* Variables keep their types, for every set of pools and of faults
\* (CloudProvider, Parent and the instance back end).
THEOREM TypeCorrect == Spec => []TypeOK
<1>1. IInv => TypeOK
    BY DEF IInv
<1> QED
    BY <1>1, InvAlways, PTL

\* The record of a live NodeClaim's pool stands for a running instance on the
\* disk it names, through crashes, timeouts and retries (agentpools.go,
\* parent.go).
THEOREM PoolsBacked == Spec => []RecordedPoolBacked
<1>1. IInv => RecordedPoolBacked
    <2> SUFFICES ASSUME IInv, NEW p \in Pools, db[p] # NoRecord, claim[p] = "live",
                        ~(leaked[p] /\ instance[p].state = "failed")
                 PROVE  instance[p] = [state |-> "running", disk |-> db[p]] /\ disk[p] = db[p]
        BY DEF RecordedPoolBacked
    <2>1. instance[p] \in [state : {"none", "running", "failed"}, disk : Disks]
        BY DEF IInv, TypeOK
    <2>2. instance[p].state = "running" /\ instance[p].disk = db[p] /\ disk[p] = db[p]
        BY DEF IInv, PoolInv, Backed
    <2> QED
        BY <2>1, <2>2
<1> QED
    BY <1>1, InvAlways, PTL

\* As long as anything of a launched pool exists its record does, so that a
\* Delete that failed half way is taken up again (Parent.Delete).
THEOREM RecordsOutlive == Spec => []RecordOutlivesResources
<1>1. IInv => RecordOutlivesResources
    BY DEF IInv, PoolInv, OnRecord, RecordOutlivesResources, NoDisk, NoRecord
<1> QED
    BY <1>1, InvAlways, PTL

\* A NodeClaim that goes leaves neither a running instance nor a disk, unless a
\* Create was cut short (the error paths of CreateOrUpdate, and Delete).
THEOREM OrphansExcluded == Spec => []NoOrphans
<1>1. IInv => NoOrphans
    BY DEF IInv, GonePool, NoOrphans
<1> QED
    BY <1>1, InvAlways, PTL

\* Garbage collection spares the NodeClaims of running machines, and their Nodes
\* stay: each of them is on record, List returns every record or none, and Get
\* finds every record (CloudProvidersHub.List, Get).
THEOREM CollectSpares == Spec => CollectSparesRunning
<1> DEFINE Spares ==
        \A p \in Pools : instance[p].state = "running" =>
            /\ p \in seen /\ claim[p] = "live" /\ seen' = {} => claim'[p] = "live"
            /\ node[p] = "joined" => node'[p] = "joined"
<1>1. ASSUME IInv, NEW p \in Pools, providerID[p] # NoID, instance[p].state = "running"
      PROVE  providerID[p] \in Providers /\ p \in Recorded
    BY <1>1, ClassKindAssumption DEF IInv, TypeOK, PoolInv, Roles, OnRecord, Recorded
<1>2. IInv /\ Next => \A p \in Pools :
            instance[p].state = "running" /\ p \in seen /\ claim[p] = "live" /\ seen' = {}
                => claim'[p] = "live"
    <2> SUFFICES ASSUME IInv, Next, NEW p \in Pools,
                        p \in seen, claim[p] = "live", instance[p].state = "running", seen' = {}
                 PROVE  claim'[p] = "live"
        OBVIOUS
    <2>1. CASE Collect
        <3>1. providerID[p] \in Providers /\ p \in Recorded
            BY <1>1 DEF IInv, PoolInv, Roles
        <3>2. agentPoolNameToProviderID(providerID[p], p) \in NebiusList \cup KaitoList
            BY <3>1 DEF NebiusList, KaitoList, stretchAgentPoolToNodeClaim, strechAgentPoolToNodeClaim,
                        Providers
        <3> QED
            BY <2>1, <3>2 DEF Collect, HubLists, IInv, TypeOK
    <2>2. CASE CollectFails \/ Crash
        BY <2>2 DEF CollectFails, Crash, claimVars
    <2>3. CASE CollectStart
        BY <2>3 DEF CollectStart
    <2>4. ASSUME NEW q \in Pools, Handler(q) \/ Failure(q) \/ CreateClaim(q) \/ DeleteClaim(q) \/ NodeJoins(q)
          PROVE  seen' = seen
        BY <2>4 DEF Handler, Failure, CreateClaim, DeleteClaim, NebiusCreate, KaitoCreate, Submit,
                    EnsureDisk, EnsureInstance, DropDisk, CreateFails, Store, CreateReturns,
                    QuotaCleanup, DeleteStart, DeleteInstance, DeleteDisk, DeleteRecord,
                    EnsureDiskFails, EnsureInstanceFails, DeleteFails, NodeJoins, NodeTerminates
    <2> QED
        BY <2>1, <2>2, <2>3, <2>4 DEF Next
<1>3. IInv /\ Next => \A p \in Pools : instance[p].state = "running" =>
            (node[p] = "joined" => node'[p] = "joined")
    <2> SUFFICES ASSUME IInv, Next, NEW p \in Pools, instance[p].state = "running", node[p] = "joined"
                 PROVE  node'[p] = "joined"
        OBVIOUS
    <2>1. CASE \E q \in Pools : NodeTerminates(q)
        <3> PICK q \in Pools : NodeTerminates(q)
            BY <2>1
        <3>1. CASE q = p
            <4>1. providerID[p] \in Providers
                BY <3>1, <1>1 DEF NodeTerminates, HubGet, IInv, TypeOK, NoID,
                                  agentPoolNameToProviderID, Providers
            <4>2. p \in Recorded
                BY <4>1, <1>1 DEF Providers, NoID
            <4>3. "notFound" \notin HubGet(agentPoolNameToProviderID(providerID[p], p))
                BY <4>1, <4>2 DEF HubGet, NebiusGet, KaitoGet, GetAgentPool,
                                  agentPoolNameToProviderID, Providers
            <4> QED
                BY <3>1, <4>3 DEF NodeTerminates
        <3>2. CASE q # p
            BY <3>2 DEF NodeTerminates, IInv, TypeOK
        <3> QED
            BY <3>1, <3>2
    <2>2. CASE \E q \in Pools : NodeJoins(q)
        BY <2>2 DEF NodeJoins, IInv, TypeOK
    <2>3. CASE CollectStart \/ Collect \/ CollectFails \/ Crash
        BY <2>3 DEF CollectStart, Collect, CollectFails, Crash
    <2>4. ASSUME NEW q \in Pools, Handler(q) \/ Failure(q) \/ CreateClaim(q) \/ DeleteClaim(q),
                 ~NodeTerminates(q)
          PROVE  node' = node
        BY <2>4 DEF Handler, Failure, CreateClaim, DeleteClaim, NebiusCreate, KaitoCreate, Submit,
                    EnsureDisk, EnsureInstance, DropDisk, CreateFails, Store, CreateReturns,
                    QuotaCleanup, DeleteStart, DeleteInstance, DeleteDisk, DeleteRecord,
                    EnsureDiskFails, EnsureInstanceFails, DeleteFails
    <2> QED
        BY <2>1, <2>2, <2>3, <2>4 DEF Next
<1>4. IInv /\ [Next]_vars => [Spares]_vars
    BY <1>2, <1>3
<1> QED
    BY <1>4, InvAlways, PTL DEF Spec, CollectSparesRunning
=============================================================================
