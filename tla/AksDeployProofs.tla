-------------------------- MODULE AksDeployProofs --------------------------
(***************************************************************************)
(* Proofs about AksDeploy, for any set of gateway addresses and any number *)
(* of runs.                                                                *)
(*                                                                         *)
(* What a run has in memory is as good as what the cluster has: that is    *)
(* what makes SecretsStable and GatewayServes inductive.  A run that has   *)
(* passed getOrCreateWireGuardKeys holds the keys of the Secret, if there  *)
(* is one; one that has passed the lookup of the gateway holds its         *)
(* address, unless the node was replaced since.  What a run was to install *)
(* in the steps behind it is installed (AddonsDone), as long as the        *)
(* context that saveKubeconfig has left is the current one (ContextKept).  *)
(***************************************************************************)
EXTENDS AksDeploy, FiniteSetTheorems, WellFoundedInduction, TLAPS

-----------------------------------------------------------------------------
(* The inductive invariant.                                                *)

\* A run takes the steps of its flags only, and leaves nothing in memory.
RunOK ==
    /\ At("idle") => run = NoRun
    /\ run.pc \in WireguardSteps => "wireguard" \in run.flags
    /\ ~At("idle") /\ "wireguard" \in run.flags => ~ready

TokenLeft == IF Usable(token) THEN 0 ELSE 1
KeysLeft == IF keys = 0 THEN 1 ELSE 0

\* The secrets a run may still generate are within the bound.
Budget ==
    /\ run.pc \in {"arm", "kubeconfig", "getToken"} => generated + TokenLeft + KeysLeft <= MaxSecrets
    /\ run.pc \in {"bootstrap", "cilium", "getKeys"} => generated + KeysLeft <= MaxSecrets

\* The token a run applies is the one of the cluster, if that can be used.
TokenInHand == At("bootstrap") => run.token # 0 /\ (Usable(token) => token = run.token)

\* So are the keys, through all the steps between their generation and the
\* Secret; the DaemonSet never has others than the Secret.
KeysInHand ==
    /\ run.pc \in {"gateway", "routes", "aks", "nodes", "applyKeys"} =>
          run.keys # 0 /\ keys \in {0, run.keys}
    /\ mounted \in {0, keys}

\* What a run with --wireguard has behind it at step s.
LastSteps == Manifests \cup {"rollout"} \cup Charts
AfterGateway == "wireguard" \in run.flags
                /\ run.pc \in {"routes", "aks", "nodes", "applyKeys", "applyDaemon"} \cup LastSteps
AfterRoutes == AfterGateway /\ ~At("routes")
AfterAks == AfterRoutes /\ ~At("aks")
AfterNodes == AfterAks /\ ~At("nodes")
AfterKeys == AfterNodes /\ ~At("applyKeys")
AfterDaemon == AfterKeys /\ ~At("applyDaemon")

Progress ==
    /\ AfterGateway => run.ip \in IPs /\ (~stale => gateway = run.ip)
    /\ AfterRoutes => table = run.ip
    /\ AfterAks => "aks" \in routed
    /\ AfterNodes => "nodes" \in routed
    /\ AfterKeys => keys # 0
    /\ AfterDaemon => mounted = keys

\* The steps a run has behind it.
Behind(s) == ~At("idle") /\ Wanted(s, run.flags) /\ Position(s) < Position(run.pc)

AddonsDone == \A s \in Addons : Behind(s) /\ Reaches(s) => s \in installed

ContextKept ==
    run.pc \notin {"idle", "arm", "kubeconfig"} /\ "elsewhere" \notin run.flags /\ ~run.switched
        => current = "cluster"

AddonsInv == AddonsDone /\ ContextKept /\ AddonsInstalled

IInv ==
    /\ TypeOK /\ RunOK /\ Budget /\ TokenInHand /\ KeysInHand /\ Progress /\ GatewayServes
    /\ AddonsInv

-----------------------------------------------------------------------------
(* The order of the steps.                                                 *)

\* A set of naturals that is not empty has a least element, which is its Min.
LEMMA MinIsLeast ==
    ASSUME NEW S \in SUBSET Nat, S # {}
    PROVE  Min(S) \in S /\ \A y \in S : Min(S) <= y
<1>1. \E x \in S : \A y \in S : ~(<<y, x>> \in OpToRel(<, Nat))
    BY NatLessThanWellFounded, WFMin
<1>2. \A x, y \in Nat : y < x => <<y, x>> \in OpToRel(<, Nat)
    BY DEF OpToRel
<1>3. \E x \in S : \A y \in S : ~(y < x)
    BY <1>1, <1>2
<1>4. \E x \in S : \A y \in S : x <= y
    BY <1>3
<1> QED
    BY <1>4 DEF Min

\* The steps of run() one by one.
LEMMA StepList ==
    /\ Len(Steps) = 22
    /\ Steps[1] = "arm" /\ Steps[2] = "kubeconfig" /\ Steps[3] = "getToken"
    /\ Steps[4] = "bootstrap" /\ Steps[5] = "cilium" /\ Steps[6] = "getKeys"
    /\ Steps[7] = "gateway" /\ Steps[8] = "routes" /\ Steps[9] = "aks"
    /\ Steps[10] = "nodes" /\ Steps[11] = "applyKeys" /\ Steps[12] = "applyDaemon"
    /\ Steps[13] = "crds" /\ Steps[14] = "namespace" /\ Steps[15] = "configmap"
    /\ Steps[16] = "controller" /\ Steps[17] = "node" /\ Steps[18] = "rollout"
    /\ Steps[19] = "site" /\ Steps[20] = "gpuOperator" /\ Steps[21] = "devicePlugin"
    /\ Steps[22] = "draDriver"
BY DEF Steps

\* No step occurs twice, so Position is the inverse of Steps.
LEMMA PositionOfStep ==
    /\ \A j \in 1..22 : Position(Steps[j]) = j
    /\ Position("arm") = 1 /\ Position("kubeconfig") = 2 /\ Position("getToken") = 3
    /\ Position("bootstrap") = 4 /\ Position("cilium") = 5 /\ Position("getKeys") = 6
    /\ Position("gateway") = 7 /\ Position("routes") = 8 /\ Position("aks") = 9
    /\ Position("nodes") = 10 /\ Position("applyKeys") = 11 /\ Position("applyDaemon") = 12
    /\ Position("crds") = 13 /\ Position("namespace") = 14 /\ Position("configmap") = 15
    /\ Position("controller") = 16 /\ Position("node") = 17 /\ Position("rollout") = 18
    /\ Position("site") = 19 /\ Position("gpuOperator") = 20 /\ Position("devicePlugin") = 21
    /\ Position("draDriver") = 22
<1>1. \A i, j \in 1..22 : Steps[i] = Steps[j] => i = j
    BY StepList
<1>2. \A j \in 1..22 : Position(Steps[j]) = j
    BY <1>1, StepList DEF Position
<1> QED
    BY <1>2, StepList

\* StepAfter skips exactly the steps that are not wanted.
LEMMA StepAfterSkips ==
    ASSUME NEW n \in 0..22, NEW f
    PROVE  \/ /\ StepAfter(n, f) = "idle"
              /\ \A i \in n + 1 .. 22 : ~Wanted(Steps[i], f)
           \/ \E m \in n + 1 .. 22 :
                /\ StepAfter(n, f) = Steps[m]
                /\ Wanted(Steps[m], f)
                /\ \A i \in n + 1 .. m - 1 : ~Wanted(Steps[i], f)
<1> DEFINE left == {i \in n + 1 .. 22 : Wanted(Steps[i], f)}
<1>1. StepAfter(n, f) = IF left = {} THEN "idle" ELSE Steps[Min(left)]
    BY StepList DEF StepAfter
<1>2. CASE left = {}
    BY <1>1, <1>2
<1>3. CASE left # {}
    <2>1. Min(left) \in left /\ \A y \in left : Min(left) <= y
        BY <1>3, MinIsLeast
    <2>2. \A i \in n + 1 .. Min(left) - 1 : ~Wanted(Steps[i], f)
        BY <2>1
    <2>3. Min(left) \in n + 1 .. 22 /\ Wanted(Steps[Min(left)], f)
        BY <2>1
    <2>4. StepAfter(n, f) = Steps[Min(left)]
        BY <1>1, <1>3
    <2> HIDE DEF left
    <2> QED
        BY <2>2, <2>3, <2>4
<1> QED
    BY <1>2, <1>3

\* Which steps each flag asks for.
LEMMA WantedSteps ==
    ASSUME NEW f
    PROVE  /\ Wanted("arm", f) <=> "skipARM" \notin f
           /\ Wanted("kubeconfig", f) /\ Wanted("getToken", f) /\ Wanted("bootstrap", f)
           /\ \A s \in WireguardSteps : Wanted(s, f) <=> "wireguard" \in f
BY DEF Wanted, WireguardSteps, Manifests, Charts

\* Where a run goes from each step.
Successors(f) ==
    /\ StepAfter(0, f) \in {"arm", "kubeconfig"}
    /\ StepAfter(Position("arm"), f) = "kubeconfig"
    /\ StepAfter(Position("kubeconfig"), f) = "getToken"
    /\ StepAfter(Position("getToken"), f) = "bootstrap"
    /\ IF "wireguard" \in f
       THEN /\ StepAfter(Position("bootstrap"), f) \in {"cilium", "getKeys"}
            /\ StepAfter(Position("cilium"), f) = "getKeys"
            /\ StepAfter(Position("getKeys"), f) = "gateway"
            /\ StepAfter(Position("gateway"), f) = "routes"
            /\ StepAfter(Position("routes"), f) = "aks"
            /\ StepAfter(Position("aks"), f) = "nodes"
            /\ StepAfter(Position("nodes"), f) = "applyKeys"
            /\ StepAfter(Position("applyKeys"), f) = "applyDaemon"
       ELSE /\ StepAfter(Position("bootstrap"), f) \in {"cilium", "idle"} \cup LastSteps
            /\ StepAfter(Position("cilium"), f) \in {"idle"} \cup LastSteps
    /\ StepAfter(Position("applyDaemon"), f) \in {"idle"} \cup LastSteps
    /\ \A s \in LastSteps : StepAfter(Position(s), f) \in {"idle"} \cup LastSteps

\* The last steps are the add-ons after cilium.
LEMMA LastPositions ==
    /\ \A m \in 13..22 : Steps[m] \in LastSteps
    /\ \A s \in LastSteps : Position(s) \in 13..22
<1>1. \A m \in 13..22 : Steps[m] \in LastSteps
    BY StepList DEF LastSteps, Manifests, Charts
<1>2. \A s \in LastSteps : Position(s) \in 13..22
    BY PositionOfStep DEF LastSteps, Manifests, Charts
<1> QED
    BY <1>1, <1>2

\* The steps follow one another in that way, whatever the flags.
LEMMA StepsFollow == ASSUME NEW f PROVE Successors(f)
<1> USE StepList, WantedSteps DEF WireguardSteps
<1>0. StepAfter(0, f) \in {"arm", "kubeconfig"}
    BY StepAfterSkips, 0 \in 0..22
<1>1. StepAfter(1, f) = "kubeconfig"
    BY StepAfterSkips, 1 \in 0..22
<1>2. StepAfter(2, f) = "getToken"
    BY StepAfterSkips, 2 \in 0..22
<1>3. StepAfter(3, f) = "bootstrap"
    BY StepAfterSkips, 3 \in 0..22
<1>4. ASSUME "wireguard" \in f PROVE StepAfter(4, f) \in {"cilium", "getKeys"}
    BY <1>4, StepAfterSkips, 4 \in 0..22
<1>5. ASSUME "wireguard" \in f PROVE StepAfter(5, f) = "getKeys"
    BY <1>5, StepAfterSkips, 5 \in 0..22
<1>6. ASSUME "wireguard" \in f, NEW n \in 6..11 PROVE StepAfter(n, f) = Steps[n + 1]
    BY <1>6, StepAfterSkips, Wanted(Steps[n + 1], f)
<1>7. ASSUME NEW n \in 12..22 PROVE StepAfter(n, f) \in {"idle"} \cup LastSteps
    <2>1. n \in 0..22 /\ (n + 1 .. 22) \subseteq 13..22
        OBVIOUS
    <2> QED
        BY <2>1, StepAfterSkips, LastPositions
<1>8. ASSUME "wireguard" \notin f, NEW n \in 4..5
      PROVE  StepAfter(n, f) \in (IF n = 4 THEN {"cilium", "idle"} ELSE {"idle"}) \cup LastSteps
    <2>1. \A i \in 6..12 : ~Wanted(Steps[i], f)
        BY <1>8
    <2>2. n \in 0..22 /\ \A m \in n + 1 .. 22 : m = 5 \/ m \in 6..12 \/ m \in 13..22
        OBVIOUS
    <2> QED
        BY <2>1, <2>2, StepAfterSkips, LastPositions
<1>9. \A s \in LastSteps : StepAfter(Position(s), f) \in {"idle"} \cup LastSteps
    BY <1>7, LastPositions
<1> QED
    BY <1>0, <1>1, <1>2, <1>3, <1>4, <1>5, <1>6, <1>7, <1>8, <1>9, PositionOfStep DEF Successors

\* The names of the steps, as a set.
LEMMA StepNames ==
    {Steps[i] : i \in 1..Len(Steps)} =
        {"arm", "kubeconfig", "getToken", "bootstrap", "cilium", "getKeys", "gateway", "routes",
         "aks", "nodes", "applyKeys", "applyDaemon", "crds", "namespace", "configmap", "controller",
         "node", "rollout", "site", "gpuOperator", "devicePlugin", "draDriver"}
BY StepList

\* So a step never leads out of them.
LEMMA NextIsStep ==
    ASSUME NEW n \in 0..22, NEW f
    PROVE  StepAfter(n, f) \in {"idle"} \cup {Steps[i] : i \in 1..Len(Steps)}
BY StepAfterSkips, StepList

-----------------------------------------------------------------------------
(* The state of a run.                                                     *)

RunType ==
    [pc : {"idle"} \cup {Steps[i] : i \in 1..Len(Steps)}, flags : FlagSets,
     token : Secrets, keys : Secrets, ip : IPs \cup {NoIP}, switched : BOOLEAN]

\* The type invariant, variable by variable.
Types ==
    /\ vnet \in BOOLEAN /\ cluster \in BOOLEAN /\ pool \in BOOLEAN
    /\ webhook \in BOOLEAN /\ ready \in BOOLEAN /\ stale \in BOOLEAN
    /\ current \in {"none", "other", "cluster"}
    /\ installed \subseteq Addons /\ promised \subseteq Addons
    /\ table \in IPs \cup {Empty, NoTable}
    /\ routed \subseteq Subnets
    /\ gateway \in IPs \cup {NoIP}
    /\ token \in Secrets \cup {Malformed} /\ keys \in Secrets /\ mounted \in Secrets /\ generated \in Secrets
    /\ handed \subseteq Secrets
    /\ run \in RunType

\* It says the same, before and after a step.
LEMMA TypeFacts == (TypeOK <=> Types) /\ (TypeOK' <=> Types')
BY DEF TypeOK, Types, RunType

\* Between commands there is nothing in memory.
LEMMA NoRunFields ==
    /\ NoRun \in RunType
    /\ NoRun.pc = "idle" /\ NoRun.flags = {}
    /\ NoRun.token = 0 /\ NoRun.keys = 0 /\ NoRun.ip = NoIP /\ NoRun.switched = FALSE
<1>1. {} \in FlagSets
    BY DEF FlagSets
<1> QED
    BY <1>1, DeployAssumption DEF NoRun, RunType, Secrets

\* The three ways a step can end: an error, the last step, one of many.
LEMMA ProceedCases ==
    ASSUME NEW r \in RunType, Proceed(r)
    PROVE  LET next == StepAfter(Position(run.pc), run.flags) IN
           \/ run' = NoRun /\ ready' = ready /\ promised' = promised
           \/ /\ next = "idle" /\ run' = NoRun /\ ready' = (ready \/ "wireguard" \in run.flags)
              /\ promised' = promised \cup {s \in Addons : Wanted(s, run.flags) /\ Reaches(s)}
           \/ /\ next # "idle" /\ ready' = ready /\ promised' = promised
              /\ run'.pc = next /\ run'.flags = r.flags
              /\ run'.token = r.token /\ run'.keys = r.keys /\ run'.ip = r.ip /\ run'.switched = r.switched
BY DEF Proceed, RunType, history

\* A run in progress stays well-typed.
LEMMA ProceedType ==
    ASSUME TypeOK, ~At("idle"), NEW r \in RunType, Proceed(r)
    PROVE  run' \in RunType /\ ready' \in BOOLEAN /\ promised' \subseteq Addons
<1>0. run.pc \in {Steps[i] : i \in 1..Len(Steps)}
    BY TypeFacts DEF Types, RunType, At
<1>1. Position(run.pc) \in 0..22
    BY <1>0, StepList, PositionOfStep
<1>2. StepAfter(Position(run.pc), run.flags) \in {"idle"} \cup {Steps[i] : i \in 1..Len(Steps)}
    BY <1>1, NextIsStep
<1>3. run' \in RunType
    BY <1>2, NoRunFields DEF Proceed, RunType
<1>4. ready' \in BOOLEAN
    BY TypeFacts DEF Types, Proceed, history
<1>5. promised' \subseteq Addons
    BY TypeFacts DEF Types, Proceed, history
<1> QED
    BY <1>3, <1>4, <1>5

\* A fresh secret is within the bound when there is one to come.
LEMMA FreshRun ==
    ASSUME TypeOK, NEW n \in Secrets
    PROVE  /\ [run EXCEPT !.token = n] \in RunType /\ [run EXCEPT !.keys = n] \in RunType
           /\ [run EXCEPT !.token = n].token = n /\ [run EXCEPT !.keys = n].keys = n
           /\ [run EXCEPT !.token = n].flags = run.flags /\ [run EXCEPT !.keys = n].flags = run.flags
           /\ [run EXCEPT !.token = n].switched = run.switched
           /\ [run EXCEPT !.keys = n].switched = run.switched
BY TypeFacts DEF Types, RunType

\* Switching the context, or saving it, changes nothing else of a run.
LEMMA SwitchedRun ==
    ASSUME TypeOK, NEW b \in BOOLEAN
    PROVE  LET r == [run EXCEPT !.switched = b] IN
           /\ r \in RunType
           /\ r.pc = run.pc /\ r.flags = run.flags /\ r.token = run.token /\ r.keys = run.keys
           /\ r.ip = run.ip /\ r.switched = b
BY TypeFacts DEF Types, RunType

\* Every program that installs something takes one of the add-on steps.
LEMMA InstallSteps ==
    ASSUME \/ DeployCilium \/ kubectlApply \/ ApplySite
           \/ installGPUOperator \/ installGPUDevicePlugin \/ installDRADriver
    PROVE  \E s \in Addons : Install(s)
BY DEF DeployCilium, kubectlApply, ApplySite, installGPUOperator, installGPUDevicePlugin, installDRADriver,
       Helm, Addons, Manifests, Charts

\* The bound of Start counts the secrets the cluster does not have.
LEMMA SecretsLeft ==
    Cardinality({s \in {"token", "keys"} : (s = "token" /\ ~Usable(token)) \/ (s = "keys" /\ keys = 0)})
        = TokenLeft + KeysLeft
<1> DEFINE S == {s \in {"token", "keys"} : (s = "token" /\ ~Usable(token)) \/ (s = "keys" /\ keys = 0)}
<1>1. CASE ~Usable(token) /\ keys = 0
    <2>1. S = {"token"} \cup {"keys"}
        BY <1>1
    <2>2. Cardinality(S) = 2
        <3>1. IsFiniteSet({"token"}) /\ Cardinality({"token"}) = 1
            BY FS_Singleton
        <3>2. Cardinality({"token"} \cup {"keys"}) = Cardinality({"token"}) + 1
            BY <3>1, FS_AddElement, "keys" \notin {"token"}
        <3> QED
            BY <2>1, <3>1, <3>2
    <2> QED
        BY <1>1, <2>2 DEF TokenLeft, KeysLeft
<1>2. CASE ~Usable(token) /\ keys # 0
    <2>1. S = {"token"}
        BY <1>2
    <2>2. Cardinality(S) = 1
        BY <2>1, FS_Singleton
    <2> QED
        BY <1>2, <2>2 DEF TokenLeft, KeysLeft
<1>3. CASE Usable(token) /\ keys = 0
    <2>1. S = {"keys"}
        BY <1>3
    <2>2. Cardinality(S) = 1
        BY <2>1, FS_Singleton
    <2> QED
        BY <1>3, <2>2 DEF TokenLeft, KeysLeft
<1>4. CASE Usable(token) /\ keys # 0
    <2>1. S = {}
        BY <1>4
    <2> QED
        BY <1>4, <2>1, FS_EmptySet DEF TokenLeft, KeysLeft
<1> QED
    BY <1>1, <1>2, <1>3, <1>4

-----------------------------------------------------------------------------
(* The invariant is inductive.                                             *)

Course == RunOK /\ Budget /\ TokenInHand /\ KeysInHand /\ Progress /\ GatewayServes

\* Nothing exists and no command runs.
LEMMA InitInv == Init => IInv
<1> SUFFICES ASSUME Init PROVE IInv
    OBVIOUS
<1>1. TypeOK
    <2>1. /\ vnet \in BOOLEAN /\ cluster \in BOOLEAN /\ pool \in BOOLEAN
          /\ webhook \in BOOLEAN /\ ready \in BOOLEAN /\ stale \in BOOLEAN
        BY DEF Init
    <2>2. 0 \in Secrets
        BY DeployAssumption DEF Secrets
    <2> QED
        BY <2>1, <2>2, TypeFacts, NoRunFields DEF Init, Types
<1>2. Course
    BY NoRunFields, DeployAssumption
       DEF Init, Course, RunOK, Budget, TokenInHand, KeysInHand, Progress, GatewayServes,
           AfterGateway, AfterRoutes, AfterAks, AfterNodes, AfterKeys, AfterDaemon, At, WireguardSteps,
           LastSteps, Manifests, Charts
<1>3. AddonsInv
    BY NoRunFields DEF Init, AddonsInv, AddonsDone, Behind, ContextKept, AddonsInstalled, At
<1> QED
    BY <1>1, <1>2, <1>3 DEF IInv, Course

\* A step that ends well goes on to the next step or is the last one of the
\* run; else the run ends without being ready.
LEMMA CourseStep == IInv /\ [Next]_vars => Course'
<1> SUFFICES ASSUME IInv, [Next]_vars PROVE Course'
    OBVIOUS
<1>0. /\ TypeOK /\ Course /\ run \in RunType
      /\ token \in Nat \cup {Malformed} /\ keys \in Nat /\ mounted \in Nat /\ generated \in Nat
      /\ keys <= MaxSecrets
      /\ run.token \in Nat /\ run.keys \in Nat /\ MaxSecrets \in Nat /\ Malformed \notin Nat
      /\ ready \in BOOLEAN /\ stale \in BOOLEAN /\ gateway \in IPs \cup {NoIP} /\ NoIP \notin IPs
      /\ {"aks", "nodes"} \subseteq routed => routed = Subnets
    BY TypeFacts, DeployAssumption DEF IInv, Course, Types, RunType, Secrets, Subnets
<1> USE <1>0, StepsFollow, NoRunFields
    DEF Course, RunOK, Budget, TokenInHand, KeysInHand, Progress, GatewayServes,
        AfterGateway, AfterRoutes, AfterAks, AfterNodes, AfterKeys, AfterDaemon,
        TokenLeft, KeysLeft, At, Subnets, WireguardSteps, Successors,
        azure, k8s, history, Fresh, LastSteps, Manifests, Charts
<1>1. CASE Arm
    BY <1>1, ProceedCases DEF Arm
<1>2. CASE ArmFails
    BY <1>2 DEF ArmFails
<1>3. CASE SaveKubeconfig
    <2>1. PICK r : r = [run EXCEPT !.switched = FALSE]
        OBVIOUS
    <2>2. r \in RunType /\ r.flags = run.flags
        BY <2>1, SwitchedRun
    <2>3. Proceed(r) /\ run.pc = "kubeconfig" /\ UNCHANGED <<azure, gateway, k8s, generated, stale>>
        BY <1>3, <2>1 DEF SaveKubeconfig
    <2> QED
        BY <2>2, <2>3, ProceedCases
<1>4. CASE NoCluster
    BY <1>4 DEF NoCluster
<1>5. CASE GetToken
    <2> DEFINE n == IF Usable(token) THEN token ELSE Fresh
               r == [run EXCEPT !.token = n]
    <2>0. Usable(token) => token \in Secrets
        BY TypeFacts DEF Types, Usable
    <2>1. n \in Secrets
        BY <1>5, <2>0 DEF GetToken, Secrets
    <2>2. r \in RunType /\ r.token = n /\ r.flags = run.flags
        BY <2>1, FreshRun
    <2>3. Proceed(r) /\ run.pc = "getToken" /\ n # 0 /\ (Usable(token) => token = n)
        BY <1>5 DEF GetToken, Usable
    <2>4. generated' + KeysLeft <= MaxSecrets
        BY <1>5 DEF GetToken
    <2>5. UNCHANGED <<azure, gateway, k8s, stale>>
        BY <1>5 DEF GetToken
    <2> HIDE DEF r, n
    <2> QED
        BY <2>2, <2>3, <2>4, <2>5, ProceedCases
<1>6. CASE Bootstrap
    BY <1>6, ProceedCases DEF Bootstrap
<1>7. ASSUME NEW s \in Addons, Install(s) PROVE Course'
    <2>1. UNCHANGED <<azure, gateway, k8s, generated, stale>> /\ Proceed(run) /\ run.pc = s
        BY <1>7 DEF Install
    <2>2. CASE s = "cilium"
        BY <2>1, <2>2, ProceedCases
    <2>3. CASE s \in LastSteps
        BY <2>1, <2>3, ProceedCases
    <2> QED
        BY <2>2, <2>3 DEF Addons
<1>8. CASE kubectlRolloutWait
    BY <1>8, ProceedCases DEF kubectlRolloutWait
<1>9. CASE SiteRefused \/ NoContext
    BY <1>9 DEF SiteRefused, NoContext
<1>10. CASE GetKeys
    <2> DEFINE n == IF keys # 0 THEN keys ELSE Fresh
               r == [run EXCEPT !.keys = n]
    <2>1. n \in Secrets
        BY <1>10 DEF GetKeys, Secrets
    <2>2. r \in RunType /\ r.keys = n /\ r.flags = run.flags
        BY <2>1, FreshRun
    <2>3. Proceed(r) /\ run.pc = "getKeys" /\ n # 0 /\ keys \in {0, n}
        BY <1>10 DEF GetKeys
    <2>4. UNCHANGED <<azure, gateway, k8s, stale>>
        BY <1>10 DEF GetKeys
    <2> HIDE DEF r, n
    <2> QED
        BY <2>2, <2>3, <2>4, ProceedCases
<1>11. CASE FindGateway
    <2> DEFINE r == [run EXCEPT !.ip = gateway]
    <2>1. r \in RunType /\ r.ip = gateway /\ r.keys = run.keys /\ r.flags = run.flags
        BY DEF RunType
    <2>2. Proceed(r) /\ run.pc = "gateway" /\ gateway \in IPs /\ stale' = FALSE
        BY <1>11 DEF FindGateway
    <2>3. UNCHANGED <<azure, gateway, k8s, generated>>
        BY <1>11 DEF FindGateway
    <2> HIDE DEF r
    <2> QED
        BY <2>1, <2>2, <2>3, ProceedCases
<1>12. CASE UpdateRouteTable
    BY <1>12, ProceedCases DEF UpdateRouteTable
<1>13. CASE NoRouteTable
    BY <1>13 DEF NoRouteTable
<1>14. CASE AssociateSubnet
    BY <1>14, ProceedCases DEF AssociateSubnet
<1>15. CASE ApplyKeys
    BY <1>15, ProceedCases DEF ApplyKeys
<1>16. CASE ApplyDaemon
    BY <1>16, ProceedCases DEF ApplyDaemon
<1>17. CASE Start
    <2>1. generated + TokenLeft + KeysLeft <= MaxSecrets
        BY <1>17, SecretsLeft DEF Start
    <2>2. PICK f \in FlagSets :
             /\ run' = [NoRun EXCEPT !.flags = f, !.pc = StepAfter(0, f)]
             /\ ready' = (ready /\ "wireguard" \notin f)
        BY <1>17 DEF Start
    <2>3. run'.flags = f /\ run'.pc \in {"arm", "kubeconfig"}
        BY <2>2 DEF NoRun
    <2>4. UNCHANGED <<azure, gateway, k8s, generated, stale>>
        BY <1>17 DEF Start
    <2> QED
        BY <2>1, <2>2, <2>3, <2>4
<1>18. CASE NetworkDeploy
    BY <1>18 DEF NetworkDeploy
<1>19. CASE Stop
    BY <1>19 DEF Stop
<1>20. CASE ApplySettings
    BY <1>20 DEF ApplySettings
<1>21. CASE SwitchContext
    <2>1. /\ run'.pc = run.pc /\ run'.flags = run.flags /\ run'.token = run.token
          /\ run'.keys = run.keys /\ run'.ip = run.ip /\ (At("idle") => run' = run)
        BY <1>21, SwitchedRun DEF SwitchContext
    <2> QED
        BY <1>21, <2>1 DEF SwitchContext
<1>22. CASE GatewayRegisters
    BY <1>22 DEF GatewayRegisters
<1>23. CASE ReplaceGateway
    BY <1>23 DEF ReplaceGateway
<1>24. CASE ControllerUp \/ ControllerDown
    BY <1>24 DEF ControllerUp, ControllerDown
<1>25. CASE UNCHANGED vars
    BY <1>25 DEF vars
<1>26. CASE runHelm \/ writeUserData
    BY <1>26 DEF runHelm, writeUserData
<1> QED
    BY <1>1, <1>2, <1>3, <1>4, <1>5, <1>6, <1>7, <1>8, <1>9, <1>10, <1>11, <1>12, <1>13, <1>14, <1>15,
       <1>16, <1>17, <1>18, <1>19, <1>20, <1>21, <1>22, <1>23, <1>24, <1>25, <1>26,
       InstallSteps DEF Next, Step

\* Types are kept by every step.
LEMMA TypeStep == IInv /\ [Next]_vars => TypeOK'
<1> SUFFICES ASSUME IInv, [Next]_vars PROVE TypeOK'
    OBVIOUS
<1>0. TypeOK /\ run \in RunType
    BY TypeFacts DEF IInv, Types
<1> USE <1>0, TypeFacts, DeployAssumption, NoRunFields
    DEF Types, azure, k8s, addons, desk, history, At, Subnets
<1>1. CASE Arm
    <2>1. run' \in RunType /\ ready' \in BOOLEAN /\ promised' \subseteq Addons
        BY <1>1, ProceedType DEF Arm
    <2> QED
        BY <1>1, <2>1 DEF Arm
<1>2. CASE ArmFails
    BY <1>2 DEF ArmFails
<1>3. CASE SaveKubeconfig
    <2>1. [run EXCEPT !.switched = FALSE] \in RunType
        BY SwitchedRun
    <2>2. run' \in RunType /\ ready' \in BOOLEAN /\ promised' \subseteq Addons
        BY <1>3, <2>1, ProceedType DEF SaveKubeconfig
    <2> QED
        BY <1>3, <2>2 DEF SaveKubeconfig
<1>4. CASE NoCluster
    BY <1>4 DEF NoCluster
<1>5. CASE GetToken
    <2> DEFINE n == IF Usable(token) THEN token ELSE Fresh
               r == [run EXCEPT !.token = n]
    <2>1. n \in Secrets /\ generated' \in Secrets
        BY <1>5 DEF GetToken, IInv, Budget, TokenLeft, KeysLeft, Fresh, Secrets, Usable
    <2>2. r \in RunType
        BY <2>1, FreshRun
    <2>3. run' \in RunType /\ ready' \in BOOLEAN /\ promised' \subseteq Addons
        BY <1>5, <2>2, ProceedType DEF GetToken
    <2> QED
        BY <1>5, <2>1, <2>3 DEF GetToken
<1>6. CASE Bootstrap
    <2>1. run' \in RunType /\ ready' \in BOOLEAN /\ promised' \subseteq Addons
        BY <1>6, ProceedType DEF Bootstrap
    <2> QED
        BY <1>6, <2>1 DEF Bootstrap, RunType
<1>7. ASSUME NEW s \in Addons, Install(s) PROVE TypeOK'
    <2>0. s # "idle"
        BY DEF Addons, Manifests, Charts
    <2>1. run' \in RunType /\ ready' \in BOOLEAN /\ promised' \subseteq Addons
        BY <1>7, <2>0, ProceedType DEF Install
    <2> QED
        BY <1>7, <2>1 DEF Install
<1>8. CASE kubectlRolloutWait
    <2>1. run' \in RunType /\ ready' \in BOOLEAN /\ promised' \subseteq Addons
        BY <1>8, ProceedType DEF kubectlRolloutWait
    <2> QED
        BY <1>8, <2>1 DEF kubectlRolloutWait
<1>9. CASE SiteRefused \/ NoContext
    BY <1>9 DEF SiteRefused, NoContext
<1>10. CASE GetKeys
    <2> DEFINE n == IF keys # 0 THEN keys ELSE Fresh
               r == [run EXCEPT !.keys = n]
    <2>1. n \in Secrets /\ generated' \in Secrets
        BY <1>10 DEF GetKeys, IInv, Budget, TokenLeft, KeysLeft, Fresh, Secrets
    <2>2. r \in RunType
        BY <2>1, FreshRun
    <2>3. run' \in RunType /\ ready' \in BOOLEAN /\ promised' \subseteq Addons
        BY <1>10, <2>2, ProceedType DEF GetKeys
    <2> QED
        BY <1>10, <2>1, <2>3 DEF GetKeys
<1>11. CASE FindGateway
    <2>1. [run EXCEPT !.ip = gateway] \in RunType
        BY DEF RunType
    <2>2. run' \in RunType /\ ready' \in BOOLEAN /\ promised' \subseteq Addons
        BY <1>11, <2>1, ProceedType DEF FindGateway
    <2>3. stale' \in BOOLEAN
        BY <1>11 DEF FindGateway
    <2> QED
        BY <1>11, <2>2, <2>3 DEF FindGateway
<1>12. CASE UpdateRouteTable
    <2>1. run' \in RunType /\ ready' \in BOOLEAN /\ promised' \subseteq Addons
        BY <1>12, ProceedType DEF UpdateRouteTable
    <2>2. run.ip \in IPs
        BY <1>12 DEF UpdateRouteTable, IInv, RunOK, Progress, AfterGateway, WireguardSteps
    <2> QED
        BY <1>12, <2>1, <2>2 DEF UpdateRouteTable
<1>13. CASE NoRouteTable
    BY <1>13 DEF NoRouteTable
<1>14. CASE AssociateSubnet
    <2>1. run' \in RunType /\ ready' \in BOOLEAN /\ promised' \subseteq Addons
        BY <1>14, ProceedType DEF AssociateSubnet
    <2> QED
        BY <1>14, <2>1 DEF AssociateSubnet
<1>15. CASE ApplyKeys
    <2>1. run' \in RunType /\ ready' \in BOOLEAN /\ promised' \subseteq Addons
        BY <1>15, ProceedType DEF ApplyKeys
    <2> QED
        BY <1>15, <2>1 DEF ApplyKeys, RunType
<1>16. CASE ApplyDaemon
    <2>1. run' \in RunType /\ ready' \in BOOLEAN /\ promised' \subseteq Addons
        BY <1>16, ProceedType DEF ApplyDaemon
    <2> QED
        BY <1>16, <2>1 DEF ApplyDaemon
<1>17. CASE Start
    <2>1. PICK f \in FlagSets :
             /\ run' = [NoRun EXCEPT !.flags = f, !.pc = StepAfter(0, f)]
             /\ ready' = (ready /\ "wireguard" \notin f)
        BY <1>17 DEF Start
    <2>2. StepAfter(0, f) \in {"idle"} \cup {Steps[i] : i \in 1..Len(Steps)}
        BY NextIsStep, 0 \in 0..22
    <2>3. run' \in RunType
        BY <2>1, <2>2 DEF RunType
    <2> QED
        BY <1>17, <2>1, <2>3 DEF Start
<1>18. CASE NetworkDeploy
    BY <1>18 DEF NetworkDeploy
<1>19. CASE Stop
    BY <1>19 DEF Stop
<1>20. CASE ApplySettings
    BY <1>20 DEF ApplySettings, paramsFromContext, Fresh, Secrets
<1>21. CASE SwitchContext
    <2>1. run' \in RunType
        BY <1>21, SwitchedRun DEF SwitchContext
    <2> QED
        BY <1>21, <2>1 DEF SwitchContext
<1>22. CASE GatewayRegisters
    BY <1>22 DEF GatewayRegisters
<1>23. CASE ReplaceGateway
    BY <1>23 DEF ReplaceGateway
<1>24. CASE ControllerUp \/ ControllerDown
    BY <1>24 DEF ControllerUp, ControllerDown
<1>25. CASE UNCHANGED vars
    BY <1>25 DEF vars
<1>26. CASE runHelm \/ writeUserData
    <2>1. handed' \subseteq Secrets
        BY <1>26 DEF runHelm, writeUserData, resolve, Usable
    <2> QED
        BY <1>26, <2>1 DEF runHelm, writeUserData
<1> QED
    BY <1>1, <1>2, <1>3, <1>4, <1>5, <1>6, <1>7, <1>8, <1>9, <1>10, <1>11, <1>12, <1>13, <1>14, <1>15,
       <1>16, <1>17, <1>18, <1>19, <1>20, <1>21, <1>22, <1>23, <1>24, <1>25, <1>26,
       InstallSteps DEF Next, Step

-----------------------------------------------------------------------------
(* What a run installs.                                                    *)

\* Every step has its place.
LEMMA NamesStand ==
    ASSUME NEW s \in {Steps[i] : i \in 1..Len(Steps)}
    PROVE  Position(s) \in 1..22 /\ Steps[Position(s)] = s
<1>1. PICK i \in 1..22 : s = Steps[i]
    BY StepList
<1> QED
    BY <1>1, PositionOfStep

\* Add-ons come after the kubeconfig file was saved.
LEMMA AddonPositions ==
    ASSUME NEW s \in Addons
    PROVE  s \in {Steps[i] : i \in 1..Len(Steps)} /\ Position(s) \in 5..22
<1>1. Position(s) \in 5..22
    BY PositionOfStep DEF Addons, Manifests, Charts
<1>2. s \in {Steps[i] : i \in 1..Len(Steps)}
    BY StepNames DEF Addons, Manifests, Charts
<1> QED
    BY <1>1, <1>2

\* A step that has installed its part, if it has one, leaves nothing behind that
\* is not installed.
LEMMA ProceedAddons ==
    ASSUME TypeOK, ~At("idle"), AddonsDone, AddonsInstalled,
           NEW r \in RunType, r.flags = run.flags, r.switched = run.switched, Proceed(r),
           installed \subseteq installed',
           run.pc \in Addons /\ Reaches(run.pc) => run.pc \in installed'
    PROVE  AddonsDone' /\ AddonsInstalled'
<1> DEFINE n == Position(run.pc)
           next == StepAfter(n, run.flags)
<1>1. run.pc \in {Steps[i] : i \in 1..Len(Steps)}
    BY TypeFacts DEF Types, RunType, At
<1>2. n \in 1..22 /\ Steps[n] = run.pc
    BY <1>1, NamesStand
<1>3. n \in 0..22
    BY <1>2
<1>4. ASSUME NEW s \in Addons, Wanted(s, run.flags), Position(s) <= n, Reaches(s)
      PROVE  s \in installed'
    <2>1. Position(s) \in 5..22 /\ Steps[Position(s)] = s
        BY AddonPositions, NamesStand
    <2>2. CASE Position(s) = n
        BY <1>2, <1>4, <2>1, <2>2
    <2>3. CASE Position(s) < n
        BY <1>4, <2>3 DEF AddonsDone, Behind
    <2> QED
        BY <1>2, <1>4, <2>1, <2>2, <2>3
<1>5. CASE run' = NoRun /\ promised' = promised
    BY <1>5, NoRunFields DEF AddonsDone, Behind, AddonsInstalled, At
<1>6. CASE /\ next = "idle" /\ run' = NoRun
           /\ promised' = promised \cup {s \in Addons : Wanted(s, run.flags) /\ Reaches(s)}
    <2>1. \A i \in n + 1 .. 22 : ~Wanted(Steps[i], run.flags)
        BY <1>3, <1>6, StepAfterSkips, StepNames, StepList
    <2>2. ASSUME NEW s \in Addons, Wanted(s, run.flags) PROVE Position(s) <= n
        <3>1. Position(s) \in 5..22 /\ Steps[Position(s)] = s
            BY AddonPositions, NamesStand
        <3> QED
            BY <1>2, <2>1, <2>2, <3>1
    <2>3. AddonsInstalled'
        BY <1>4, <1>6, <2>2 DEF AddonsInstalled
    <2> QED
        BY <1>6, <2>3, NoRunFields DEF AddonsDone, Behind, At
<1>7. CASE /\ next # "idle" /\ promised' = promised
           /\ run'.pc = next /\ run'.flags = run.flags /\ run'.switched = run.switched
    <2>1. PICK k \in n + 1 .. 22 :
             /\ next = Steps[k]
             /\ \A i \in n + 1 .. k - 1 : ~Wanted(Steps[i], run.flags)
        BY <1>3, <1>7, StepAfterSkips
    <2>2. Position(next) = k
        BY <1>2, <2>1, PositionOfStep
    <2>3. ASSUME NEW s \in Addons, Wanted(s, run.flags), Position(s) < k PROVE Position(s) <= n
        <3>1. Position(s) \in 5..22 /\ Steps[Position(s)] = s
            BY AddonPositions, NamesStand
        <3> QED
            BY <1>2, <2>1, <2>3, <3>1
    <2>4. \A s \in Addons : Reaches(s)' <=> Reaches(s)
        BY <1>7 DEF Reaches
    <2>5. AddonsDone'
        <3> SUFFICES ASSUME NEW s \in Addons, Behind(s)', Reaches(s)' PROVE s \in installed'
            BY DEF AddonsDone
        <3>1. Wanted(s, run.flags) /\ Position(s) < k
            BY <1>7, <2>2 DEF Behind
        <3> QED
            BY <1>4, <2>3, <2>4, <3>1
    <2>6. AddonsInstalled'
        BY <1>7 DEF AddonsInstalled
    <2> QED
        BY <2>5, <2>6
<1>8. \/ run' = NoRun /\ promised' = promised
      \/ /\ next = "idle" /\ run' = NoRun
         /\ promised' = promised \cup {s \in Addons : Wanted(s, run.flags) /\ Reaches(s)}
      \/ /\ next # "idle" /\ promised' = promised
         /\ run'.pc = next /\ run'.flags = run.flags /\ run'.switched = run.switched
    BY ProceedCases
<1> QED
    BY <1>5, <1>6, <1>7, <1>8

\* The context is the one saveKubeconfig left, or the run knows it is not.
LEMMA ProceedContext ==
    ASSUME ContextKept, run.pc \notin {"idle", "arm", "kubeconfig"}, current' = current,
           NEW r \in RunType, r.flags = run.flags, r.switched = run.switched, Proceed(r)
    PROVE  ContextKept'
BY ProceedCases, NoRunFields DEF ContextKept

\* A run that has ended has nothing behind it.
LEMMA EndedAddons ==
    ASSUME AddonsInv, run' = NoRun, promised' = promised, installed' = installed
    PROVE  AddonsInv'
BY NoRunFields DEF AddonsInv, AddonsDone, Behind, ContextKept, AddonsInstalled, At

\* Nor does it matter what else changes.
LEMMA SameAddons ==
    ASSUME AddonsInv, UNCHANGED <<run, promised, installed, current>>
    PROVE  AddonsInv'
BY DEF AddonsInv, AddonsDone, Behind, Reaches, ContextKept, AddonsInstalled, At

\* Before the file was saved, no add-on is behind a run.
LEMMA NoneBehind ==
    ASSUME run'.pc \in {"arm", "kubeconfig", "getToken"} PROVE AddonsDone'
<1>1. Position(run'.pc) \in 1..3
    BY PositionOfStep
<1>2. ASSUME NEW s \in Addons PROVE ~Behind(s)'
    <2>1. Position(s) \in 5..22
        BY AddonPositions
    <2> QED
        BY <1>1, <2>1 DEF Behind
<1> QED
    BY <1>2 DEF AddonsDone

\* What is behind a run is installed, and so is what a run that succeeded promised.
LEMMA AddonsStep == IInv /\ [Next]_vars => AddonsInv'
<1> SUFFICES ASSUME IInv, [Next]_vars PROVE AddonsInv'
    OBVIOUS
<1>0. TypeOK /\ run \in RunType /\ AddonsInv /\ AddonsDone /\ ContextKept /\ AddonsInstalled /\ RunOK
    BY TypeFacts DEF IInv, Types, AddonsInv
<1>A. ASSUME NEW r \in RunType, r.flags = run.flags, r.switched = run.switched, Proceed(r),
             run.pc \notin {"idle", "arm", "kubeconfig"} \cup Addons, UNCHANGED <<installed, current>>
      PROVE  AddonsInv'
    BY <1>0, <1>A, ProceedAddons, ProceedContext DEF AddonsInv, At
<1> USE <1>0 DEF At, azure, k8s, addons, history
<1>1. CASE Arm
    <2>1. run'.pc = "kubeconfig" \/ run' = NoRun
        BY <1>1, ProceedCases, StepsFollow DEF Arm, Successors
    <2>2. AddonsDone' /\ AddonsInstalled'
        <3>1. Proceed(run) /\ run.pc = "arm" /\ installed' = installed /\ "arm" \notin Addons
            BY <1>1 DEF Arm, Addons, Manifests, Charts
        <3> QED
            BY <3>1, ProceedAddons
    <2> QED
        BY <2>1, <2>2, NoRunFields DEF AddonsInv, ContextKept
<1>2. CASE ArmFails
    BY <1>2, EndedAddons DEF ArmFails
<1>3. CASE SaveKubeconfig
    <2>1. PICK r : r = [run EXCEPT !.switched = FALSE]
        OBVIOUS
    <2>2. r \in RunType /\ r.flags = run.flags
        BY <2>1, SwitchedRun
    <2>3. /\ Proceed(r) /\ run.pc = "kubeconfig" /\ installed' = installed
          /\ current' = IF "elsewhere" \in run.flags THEN current ELSE "cluster"
        BY <1>3, <2>1 DEF SaveKubeconfig
    <2>4. CASE run' = NoRun /\ promised' = promised
        BY <2>3, <2>4, EndedAddons
    <2>5. CASE run'.pc = "getToken" /\ promised' = promised /\ run'.flags = run.flags
        BY <2>3, <2>5, NoneBehind DEF AddonsInv, AddonsInstalled, ContextKept
    <2>6. StepAfter(Position("kubeconfig"), run.flags) = "getToken"
        BY StepsFollow DEF Successors
    <2> QED
        BY <2>2, <2>3, <2>4, <2>5, <2>6, ProceedCases
<1>4. CASE NoCluster
    BY <1>4, EndedAddons DEF NoCluster
<1>5. CASE GetToken
    <2>1. PICK n : n = IF Usable(token) THEN token ELSE Fresh
        OBVIOUS
    <2>2. n \in Secrets
        BY <1>5, <2>1, TypeFacts, DeployAssumption
           DEF GetToken, IInv, Budget, TokenLeft, KeysLeft, Fresh, Secrets, Usable, Types
    <2>3. PICK r : r = [run EXCEPT !.token = n]
        OBVIOUS
    <2>4. r \in RunType /\ r.flags = run.flags /\ r.switched = run.switched
        BY <2>2, <2>3, FreshRun
    <2> QED
        BY <1>5, <1>A, <2>1, <2>3, <2>4 DEF GetToken, Addons, Manifests, Charts
<1>6. CASE Bootstrap \/ kubectlRolloutWait
    BY <1>6, <1>A DEF Bootstrap, kubectlRolloutWait, Addons, Manifests, Charts
<1>7. ASSUME NEW s \in Addons, Install(s) PROVE AddonsInv'
    <2>1. s \notin {"idle", "arm", "kubeconfig"}
        BY DEF Addons, Manifests, Charts
    <2>2. /\ run.pc = s /\ Proceed(run) /\ current' = current
          /\ installed' = IF Target(s) = "cluster" THEN installed \cup {s} ELSE installed
        BY <1>7 DEF Install
    <2>3. Reaches(s) => Target(s) = "cluster"
        BY <2>1, <2>2 DEF Reaches, Target, ContextKept
    <2>4. ContextKept'
        BY <2>1, <2>2, ProceedContext
    <2>5. AddonsDone' /\ AddonsInstalled'
        BY <2>1, <2>2, <2>3, ProceedAddons
    <2> QED
        BY <2>4, <2>5 DEF AddonsInv
<1>8. CASE SiteRefused \/ NoContext \/ NoRouteTable
    BY <1>8, EndedAddons DEF SiteRefused, NoContext, NoRouteTable
<1>9. CASE GetKeys
    <2>1. PICK n : n = IF keys # 0 THEN keys ELSE Fresh
        OBVIOUS
    <2>2. n \in Secrets
        BY <1>9, <2>1, TypeFacts, DeployAssumption
           DEF GetKeys, IInv, Budget, TokenLeft, KeysLeft, Fresh, Secrets, Types
    <2>3. PICK r : r = [run EXCEPT !.keys = n]
        OBVIOUS
    <2>4. r \in RunType /\ r.flags = run.flags /\ r.switched = run.switched
        BY <2>2, <2>3, FreshRun
    <2> QED
        BY <1>9, <1>A, <2>1, <2>3, <2>4 DEF GetKeys, Addons, Manifests, Charts
<1>10. CASE FindGateway
    <2>1. PICK r : r = [run EXCEPT !.ip = gateway]
        OBVIOUS
    <2>2. r \in RunType /\ r.flags = run.flags /\ r.switched = run.switched
        BY <2>1, TypeFacts DEF RunType, Types
    <2> QED
        BY <1>10, <1>A, <2>1, <2>2 DEF FindGateway, Addons, Manifests, Charts
<1>11. CASE UpdateRouteTable \/ AssociateSubnet
    BY <1>11, <1>A DEF UpdateRouteTable, AssociateSubnet, Subnets, Addons, Manifests, Charts
<1>12. CASE ApplyKeys \/ ApplyDaemon
    BY <1>12, <1>A DEF ApplyKeys, ApplyDaemon, Addons, Manifests, Charts
<1>13. CASE Start
    <2>1. PICK f \in FlagSets : run' = [NoRun EXCEPT !.flags = f, !.pc = StepAfter(0, f)]
        BY <1>13 DEF Start
    <2>2. run'.pc \in {"arm", "kubeconfig"}
        BY <2>1, StepsFollow DEF NoRun, Successors
    <2>3. UNCHANGED <<installed, promised>>
        BY <1>13 DEF Start
    <2> QED
        BY <2>2, <2>3, NoneBehind DEF AddonsInv, AddonsInstalled, ContextKept
<1>14. CASE NetworkDeploy \/ ApplySettings \/ runHelm \/ writeUserData \/ GatewayRegisters \/ ReplaceGateway
    BY <1>14, SameAddons
       DEF NetworkDeploy, ApplySettings, runHelm, writeUserData, GatewayRegisters, ReplaceGateway
<1>15. CASE Stop
    BY <1>15, EndedAddons DEF Stop
<1>16. CASE SwitchContext
    <2>1. UNCHANGED <<installed, promised>>
        BY <1>16 DEF SwitchContext
    <2>2. CASE At("idle")
        <3>1. run' = NoRun
            BY <1>16, <2>2 DEF SwitchContext, RunOK
        <3> QED
            BY <2>1, <3>1, EndedAddons
    <2>3. CASE ~At("idle")
        <3>1. run'.pc = run.pc /\ run'.flags = run.flags /\ run'.switched = TRUE
            BY <1>16, <2>3, SwitchedRun DEF SwitchContext
        <3>2. \A s \in Addons : Behind(s)' /\ Reaches(s)' => Behind(s) /\ Reaches(s)
            BY <3>1 DEF Behind, Reaches
        <3> QED
            BY <2>1, <3>1, <3>2 DEF AddonsInv, AddonsDone, ContextKept, AddonsInstalled
    <2> QED
        BY <2>2, <2>3
<1>17. CASE ControllerUp \/ ControllerDown \/ UNCHANGED vars
    BY <1>17, SameAddons DEF ControllerUp, ControllerDown, vars
<1> QED
    BY <1>1, <1>2, <1>3, <1>4, <1>5, <1>6, <1>7, <1>8, <1>9, <1>10, <1>11, <1>12, <1>13, <1>14, <1>15,
       <1>16, <1>17, InstallSteps DEF Next, Step

-----------------------------------------------------------------------------
(* Theorems.                                                               *)

\* The parts together.
LEMMA InvStep == IInv /\ [Next]_vars => IInv'
BY TypeStep, CourseStep, AddonsStep DEF IInv, Course

\* The invariant holds throughout.
LEMMA InvAlways == Spec => []IInv
BY InitInv, InvStep, PTL DEF Spec

\* Variables keep their types, and a run never generates more secrets than it
\* was started for (run, deployK8S, deployWireGuard).
THEOREM TypeCorrect == Spec => []TypeOK
<1>1. IInv => TypeOK
    BY DEF IInv
<1> QED
    BY <1>1, InvAlways, PTL

\* After a --wireguard run has succeeded, with any number of runs that failed
\* half way before it, the subnets' traffic goes to the gateway and the gateway
\* has the keys of the Secret (deployWireGuard).
THEOREM GatewayWorks == Spec => []GatewayServes
<1>1. IInv => GatewayServes
    BY DEF IInv
<1> QED
    BY <1>1, InvAlways, PTL

\* What runs that succeeded were to install is in the cluster they deployed, whatever
\* failed half way (saveKubeconfig, deployCilium, unboundedcni.Deploy and gpu.go).
THEOREM AddonsReachCluster == Spec => []AddonsInstalled
<1>1. IInv => AddonsInstalled
    BY DEF IInv, AddonsInv
<1> QED
    BY <1>1, InvAlways, PTL

\* Keys in the cluster are never replaced, nor is a bootstrap token that can be used,
\* but by the output of "config k8s-bootstrap"; so files made for machines since then
\* have the token the cluster accepts (getOrCreateWireGuardKeys, BootstrapTokenSecret,
\* DefaultKubeadmConfig).
THEOREM SecretsKept == Spec => SecretsStable
<1> DEFINE Kept == (keys # 0 => keys' = keys) /\ (Usable(token) => token' = token \/ ApplySettings)
           Current == \A t \in handed : t = token /\ Usable(token)
<1>1. IInv /\ [Next]_vars => [Kept]_<<keys, token>> /\ (Current => Current')
    <2> SUFFICES ASSUME IInv, [Next]_vars PROVE Kept /\ (Current => Current')
        OBVIOUS
    <2>A. ASSUME UNCHANGED <<keys, token, handed>> PROVE Kept /\ (Current => Current')
        BY <2>A DEF Usable
    <2>1. CASE ApplyKeys
        <3>1. Kept /\ UNCHANGED <<token, handed>>
            BY <2>1 DEF ApplyKeys, IInv, KeysInHand, At, desk
        <3> QED
            BY <3>1 DEF Usable
    <2>2. CASE Bootstrap
        <3>1. Kept /\ handed' = handed /\ (Usable(token) => token' = token)
            BY <2>2 DEF Bootstrap, IInv, TokenInHand, At, desk
        <3> QED
            BY <3>1 DEF Usable
    <2>3. CASE ApplySettings
        <3>1. keys' = keys /\ handed' = {}
            BY <2>3 DEF ApplySettings
        <3> QED
            BY <2>3, <3>1
    <2>4. CASE runHelm \/ writeUserData
        <3>1. UNCHANGED <<keys, token>> /\ handed' = handed \cup {t \in resolve : Usable(t)}
            BY <2>4 DEF runHelm, writeUserData, k8s
        <3> QED
            BY <3>1 DEF resolve, Usable
    <2>5. CASE Start \/ NetworkDeploy \/ Stop \/ GatewayRegisters \/ ReplaceGateway \/ UNCHANGED vars
        BY <2>5, <2>A DEF Start, NetworkDeploy, Stop, GatewayRegisters, ReplaceGateway, vars, k8s, desk
    <2>6. CASE Arm \/ ArmFails \/ SaveKubeconfig \/ NoCluster \/ GetToken
        BY <2>6, <2>A DEF Arm, ArmFails, SaveKubeconfig, NoCluster, GetToken, k8s, desk
    <2>7. CASE GetKeys \/ FindGateway \/ UpdateRouteTable \/ NoRouteTable \/ AssociateSubnet \/ ApplyDaemon
        BY <2>7, <2>A
           DEF GetKeys, FindGateway, UpdateRouteTable, NoRouteTable, AssociateSubnet, ApplyDaemon, k8s, desk
    <2>8. CASE kubectlRolloutWait \/ SiteRefused \/ NoContext \/ SwitchContext \/ ControllerUp \/ ControllerDown
        BY <2>8, <2>A
           DEF kubectlRolloutWait, SiteRefused, NoContext, SwitchContext, ControllerUp, ControllerDown, k8s, desk
    <2>9. ASSUME NEW s \in Addons, Install(s) PROVE Kept /\ (Current => Current')
        BY <2>9, <2>A DEF Install, k8s, desk
    <2> QED
        BY <2>1, <2>2, <2>3, <2>4, <2>5, <2>6, <2>7, <2>8, <2>9, InstallSteps DEF Next, Step
<1>2. Init => Current
    BY DEF Init
<1>3. Current => handed \subseteq {token}
    OBVIOUS
<1> HIDE DEF Kept, Current
<1>4. Spec => [][Kept]_<<keys, token>> /\ [](handed \subseteq {token})
    BY <1>1, <1>2, <1>3, InvAlways, PTL DEF Spec
<1> QED
    BY <1>4, PTL DEF SecretsStable, Kept
=============================================================================
