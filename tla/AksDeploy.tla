----------------------------- MODULE AksDeploy -----------------------------
(***************************************************************************)
(* The CLI commands "network deploy" and "aks deploy" (cli/internal/       *)
(* network/deploy, cli/internal/aks/deploy).  A run of aks deploy is a     *)
(* sequence of steps, chosen by its flags, over the Azure resource group,  *)
(* the kubeconfig file and the cluster.  Any step may fail, with or        *)
(* without its effect, or the operator interrupts it; nothing is rolled    *)
(* back and the operator runs the command again, perhaps with other flags. *)
(* One operator runs one command at a time, but may switch the current     *)
(* context of the default kubeconfig file meanwhile.  The node of the      *)
(* WireGuard gateway may be replaced, and change its address, at any       *)
(* moment.                                                                 *)
(***************************************************************************)
EXTENDS Integers, Sequences, FiniteSetsExt

CONSTANTS
    IPs,            \* private addresses the gateway node may get
    NoIP,
    Empty, NoTable, \* the route table wg-routes without a route, and no table
    Malformed,      \* a token secret that does not have 16 characters, or is missing
    Usages,         \* bound: the sets of command lines an operator may use
    MaxSecrets      \* bound: key pairs and tokens ever generated

ASSUME DeployAssumption ==
    /\ NoIP \notin IPs
    /\ Empty \notin IPs /\ NoTable \notin IPs /\ Empty # NoTable
    /\ MaxSecrets \in Nat /\ Malformed \notin Nat

VARIABLES
    vnet, cluster, pool,    \* whether they exist; pool is the agent pool "wireguard"
    table,      \* wg-routes: the next hop of its route
    routed,     \* the subnets that are associated with wg-routes
    gateway,    \* address of the registered gateway node
    current,    \* the cluster the default kubeconfig file's current context names
    token,      \* content of the bootstrap token Secret, 0 without one
    keys,       \* content of the Secret wireguard-keys, 0 without one
    mounted,    \* the keys the wg-kube DaemonSet was started with
    installed,  \* what other programs have installed in the cluster
    webhook,    \* whether the unbounded CNI controller answers
    run,        \* the run in progress: where it is, what it has in memory
    generated,  \* number of secrets generated
    usage,      \* bound: the command lines the operator uses
    handed,     \* usable tokens in files made for machines since token was last set by hand
    ready,      \* history: the last --wireguard run succeeded, and no network
                \* deploy came after it
    stale,      \* history: the gateway was replaced after a run looked it up
    promised    \* history: what runs that succeeded were to install

azure == <<vnet, cluster, pool, table, routed>>
k8s == <<token, keys, mounted>>
addons == <<installed, webhook>>
desk == <<usage, handed>>
history == <<ready, promised>>
vars == <<azure, gateway, current, k8s, addons, run, generated, desk, history, stale>>

Subnets == {"aks", "nodes"}
Secrets == 0..MaxSecrets

\* "elsewhere" stands for --kubeconfig with another file than the default one.
Flags == {"skipARM", "elsewhere", "cilium", "wireguard", "unboundedCNI",
          "gpuOperator", "devicePlugin", "draDriver"}

\* PersistentPreRunE refuses --unbounded-cni with --cilium or --wireguard.
FlagSets ==
    {f \in SUBSET Flags : "unboundedCNI" \in f => f \cap {"cilium", "wireguard"} = {}}

\* The steps of run(), in their order.
Steps ==
    <<"arm", "kubeconfig", "getToken", "bootstrap", "cilium",
      "getKeys", "gateway", "routes", "aks", "nodes", "applyKeys", "applyDaemon",
      "crds", "namespace", "configmap", "controller", "node", "rollout", "site",
      "gpuOperator", "devicePlugin", "draDriver">>

WireguardSteps == {"getKeys", "gateway", "routes", "aks", "nodes", "applyKeys", "applyDaemon"}

\* What kubectl applies for the unbounded CNI, and the charts helm installs.
Manifests == {"crds", "namespace", "configmap", "controller", "node", "site"}
Charts == {"gpuOperator", "devicePlugin", "draDriver"}
Addons == {"cilium"} \cup Manifests \cup Charts

\* Whether a run with flags f takes step s.
Wanted(s, f) ==
    CASE s = "arm"                           -> "skipARM" \notin f
      [] s \in WireguardSteps                -> "wireguard" \in f
      [] s \in Manifests \cup {"rollout"}    -> "unboundedCNI" \in f
      [] s \in {"cilium"} \cup Charts        -> s \in f
      [] OTHER                               -> TRUE

\* The first wanted step after position n, "idle" after the last one.
StepAfter(n, f) ==
    LET left == {i \in n + 1 .. Len(Steps) : Wanted(Steps[i], f)}
    IN  IF left = {} THEN "idle" ELSE Steps[Min(left)]

Position(s) == CHOOSE i \in 1..Len(Steps) : Steps[i] = s

NoRun ==
    [pc |-> "idle", flags |-> {}, token |-> 0, keys |-> 0, ip |-> NoIP, switched |-> FALSE]

TypeOK ==
    /\ {vnet, cluster, pool, webhook, ready, stale} \subseteq BOOLEAN
    /\ table \in IPs \cup {Empty, NoTable}
    /\ routed \subseteq Subnets
    /\ gateway \in IPs \cup {NoIP}
    /\ current \in {"none", "other", "cluster"}
    /\ token \in Secrets \cup {Malformed}
    /\ {keys, mounted, generated} \subseteq Secrets /\ handed \subseteq Secrets
    /\ installed \subseteq Addons /\ promised \subseteq Addons
    /\ run \in [pc : {"idle"} \cup {Steps[i] : i \in 1..Len(Steps)}, flags : FlagSets,
                token : Secrets, keys : Secrets, ip : IPs \cup {NoIP}, switched : BOOLEAN]

Init ==
    /\ vnet = FALSE /\ cluster = FALSE /\ pool = FALSE
    /\ table = NoTable /\ routed = {} /\ gateway = NoIP
    /\ current \in {"none", "other"}
    /\ token = 0 /\ keys = 0 /\ mounted = 0
    /\ installed = {} /\ webhook = FALSE
    /\ run = NoRun /\ generated = 0
    /\ usage \in Usages /\ handed = {}
    /\ ready = FALSE /\ stale = FALSE /\ promised = {}

-----------------------------------------------------------------------------
(* The course of a run.                                                    *)

At(s) == run.pc = s

\* Whether what the run installs goes to the cluster it has deployed, unless the
\* operator switches the context: cilium is given the context, kubectl the file
\* that was saved, helm neither.
Reaches(s) ==
    s = "cilium" \/ IF "elsewhere" \in run.flags THEN s \in Manifests ELSE ~run.switched

\* The step is done and the run, now r, goes on to the next one or is complete; or
\* the step returns an error, its effect notwithstanding, and so does run().
Proceed(r) ==
    LET next == StepAfter(Position(run.pc), run.flags)
    IN  \/ /\ next # "idle"
           /\ run' = [r EXCEPT !.pc = next]
           /\ UNCHANGED history
        \/ /\ next = "idle"
           /\ run' = NoRun
           /\ ready' = (ready \/ "wireguard" \in run.flags)
           /\ promised' = promised \cup {s \in Addons : Wanted(s, run.flags) /\ Reaches(s)}
        \/ run' = NoRun /\ UNCHANGED history

\* An error without an effect, or the operator interrupts the command.
Stop ==
    /\ ~At("idle")
    /\ run' = NoRun
    /\ UNCHANGED <<azure, gateway, current, k8s, addons, generated, desk, history, stale>>

Usable(t) == t \notin {0, Malformed}

\* A run that preflightChecks lets pass; one whose programs are missing ends
\* before it has changed anything.
Start ==
    /\ At("idle")
    /\ generated + Cardinality({s \in {"token", "keys"} : (s = "token" /\ ~Usable(token))
                                                       \/ (s = "keys" /\ keys = 0)})
         <= MaxSecrets      \* bound
    /\ \E f \in usage \cap FlagSets :
         /\ run' = [NoRun EXCEPT !.flags = f, !.pc = StepAfter(0, f)]
         /\ ready' = (ready /\ "wireguard" \notin f)
    /\ UNCHANGED <<azure, gateway, current, k8s, addons, generated, desk, promised, stale>>

-----------------------------------------------------------------------------
(* Azure.                                                                  *)

\* The template network.json lists the subnets of the virtual network without
\* a route table: deploying it again takes the association away.
NetworkDeploy ==
    /\ At("idle")
    /\ vnet' = TRUE
    /\ routed' = {}
    /\ ready' = FALSE
    /\ UNCHANGED <<cluster, pool, table, gateway, current, k8s, addons, run, generated, desk, promised,
                   stale>>

\* Mutant: the template is deployed without the deployWireguard parameter.
ArmWithoutWireguard ==
    /\ At("arm")
    /\ vnet
    /\ cluster' = TRUE
    /\ Proceed(run)
    /\ UNCHANGED <<vnet, pool, table, routed, gateway, current, k8s, addons, generated, desk, stale>>

\* The incremental deployment of aks.json.  With --wireguard it includes the
\* gateway's agent pool and the table wg-routes, whose routes it resets.
Arm ==
    /\ At("arm")
    /\ vnet
    /\ cluster' = TRUE
    /\ pool' = (pool \/ "wireguard" \in run.flags)
    /\ table' = IF "wireguard" \in run.flags THEN Empty ELSE table
    /\ Proceed(run)
    /\ UNCHANGED <<vnet, routed, gateway, current, k8s, addons, generated, desk, stale>>

\* A deployment that fails may have made some of its resources; without the
\* virtual network it makes none.
ArmFails ==
    /\ At("arm")
    /\ \/ /\ vnet
          /\ cluster' \in {cluster, TRUE}
          /\ pool' \in {pool, pool \/ (cluster' /\ "wireguard" \in run.flags)}
          /\ table' \in {table, IF "wireguard" \in run.flags THEN Empty ELSE table}
       \/ ~vnet /\ UNCHANGED <<cluster, pool, table>>
    /\ run' = NoRun
    /\ UNCHANGED <<vnet, routed, gateway, current, k8s, addons, generated, desk, history, stale>>

\* Mutant: the file's current context is kept if it has one.
SaveKubeconfigKeepsContext ==
    /\ At("kubeconfig")
    /\ cluster
    /\ current' = IF "elsewhere" \notin run.flags /\ current = "none" THEN "cluster" ELSE current
    /\ Proceed([run EXCEPT !.switched = FALSE])
    /\ UNCHANGED <<azure, gateway, k8s, addons, generated, desk, stale>>

\* saveKubeconfig merges the cluster's context into the file, the default one or
\* another, and makes it the current one there.
SaveKubeconfig ==
    /\ At("kubeconfig")
    /\ cluster
    /\ current' = IF "elsewhere" \in run.flags THEN current ELSE "cluster"
    /\ Proceed([run EXCEPT !.switched = FALSE])
    /\ UNCHANGED <<azure, gateway, k8s, addons, generated, desk, stale>>

\* It is the first step that asks Azure for the cluster.
NoCluster ==
    /\ At("kubeconfig")
    /\ ~cluster
    /\ run' = NoRun
    /\ UNCHANGED <<azure, gateway, current, k8s, addons, generated, desk, history, stale>>

-----------------------------------------------------------------------------
(* Kubernetes: deployK8S and what other programs install.                  *)

\* GenerateKeyPair and RandomString never give the same secret twice.
Fresh == generated + 1

\* BootstrapTokenSecret reuses the token of an existing Secret, unless it does not
\* have 16 characters.
GetToken ==
    /\ At("getToken")
    /\ generated' = IF Usable(token) THEN generated ELSE Fresh
    /\ Proceed([run EXCEPT !.token = IF Usable(token) THEN token ELSE Fresh])
    /\ UNCHANGED <<azure, gateway, current, k8s, addons, desk, stale>>

\* ApplyYAMLSpec sends one object after the other; the token Secret is the last.
Bootstrap ==
    /\ At("bootstrap")
    /\ token' = run.token
    /\ Proceed(run)
    /\ UNCHANGED <<azure, gateway, current, keys, mounted, addons, generated, desk, stale>>

\* "config k8s-bootstrap" prints a new secret for the same token ID every time;
\* when anything it asks for is out of reach it prints placeholders, which the
\* operator fills in, with a secret of any length.
paramsFromContext == {Fresh, Malformed}

\* The operator applies what it has printed, and has to make those files again.
ApplySettings ==
    /\ At("idle")
    /\ generated < MaxSecrets      \* bound
    /\ cluster
    /\ \E t \in paramsFromContext :
         /\ token' = t
         /\ generated' = IF t = Fresh THEN Fresh ELSE generated
    /\ handed' = {}
    /\ UNCHANGED <<azure, gateway, current, keys, mounted, addons, run, usage, history, stale>>

-----------------------------------------------------------------------------
(* Files for the machines that are to join: the values of the karpenter    *)
(* chart ("config karpenter helm") and user data ("config node-bootstrap"). *)

\* DefaultKubeadmConfig gives the token of the cluster's Secret, as it is now and
\* without a look at its length, or a placeholder if there is none or the cluster
\* cannot be asked.
resolve == {t \in {token} : cluster /\ t # 0}

runHelm ==
    /\ At("idle")
    /\ handed' = handed \cup {t \in resolve : Usable(t)}
    /\ UNCHANGED <<azure, gateway, current, k8s, addons, run, generated, usage, history, stale>>

writeUserData ==
    /\ At("idle")
    /\ handed' = handed \cup {t \in resolve : Usable(t)}
    /\ UNCHANGED <<azure, gateway, current, k8s, addons, run, generated, usage, history, stale>>

-----------------------------------------------------------------------------
(* What other programs install.                                            *)

\* The cluster the program of step s talks to.
Target(s) ==
    IF s = "cilium" \/ (s \in Manifests \cup {"rollout"} /\ "elsewhere" \in run.flags)
    THEN "cluster" ELSE current

Install(s) ==
    /\ At(s)
    /\ installed' = IF Target(s) = "cluster" THEN installed \cup {s} ELSE installed
    /\ Proceed(run)
    /\ UNCHANGED <<azure, gateway, current, k8s, webhook, generated, desk, stale>>

\* cilium install, with the file and the name of the context.
DeployCilium == Install("cilium")

\* kubectl apply of the parts of the unbounded CNI, in their order ...
kubectlApply == \E s \in Manifests \ {"site"} : Install(s)

\* ... then kubectl rollout status, which waits for the controller without limit ...
kubectlRolloutWait ==
    /\ At("rollout")
    /\ Target("rollout") = "cluster" => webhook
    /\ Proceed(run)
    /\ UNCHANGED <<azure, gateway, current, k8s, addons, generated, desk, stale>>

\* ... and what the controller's webhook has to admit.
ApplySite == (Target("site") = "cluster" => webhook) /\ Install("site")

SiteRefused ==
    /\ At("site")
    /\ Target("site") = "cluster" /\ ~webhook
    /\ run' = NoRun
    /\ UNCHANGED <<azure, gateway, current, k8s, addons, generated, desk, history, stale>>

\* helm adds the repository, updates it and installs the chart, in whatever
\* cluster the default file names.
Helm(s) == current # "none" /\ Install(s)

installGPUOperator == Helm("gpuOperator")
installGPUDevicePlugin == Helm("devicePlugin")
installDRADriver == Helm("draDriver")

NoContext ==
    /\ run.pc \in Charts
    /\ current = "none"
    /\ run' = NoRun
    /\ UNCHANGED <<azure, gateway, current, k8s, addons, generated, desk, history, stale>>

\* The operator works with another cluster meanwhile.
SwitchContext ==
    /\ current = "cluster"
    /\ current' = "other"
    /\ run' = IF At("idle") THEN run ELSE [run EXCEPT !.switched = TRUE]
    /\ UNCHANGED <<azure, gateway, k8s, addons, generated, desk, history, stale>>

\* The controller comes up once what it is made of is there, and may go down.
ControllerUp ==
    /\ ~webhook
    /\ {"crds", "namespace", "configmap", "controller"} \subseteq installed
    /\ webhook' = TRUE
    /\ UNCHANGED <<azure, gateway, current, k8s, installed, run, generated, desk, history, stale>>

ControllerDown ==
    /\ webhook
    /\ webhook' = FALSE
    /\ UNCHANGED <<azure, gateway, current, k8s, installed, run, generated, desk, history, stale>>

-----------------------------------------------------------------------------
(* deployWireGuard.                                                        *)

\* Mutant: any error of the lookup counts as a Secret that does not exist.
GetKeysAnyError ==
    /\ At("getKeys")
    /\ generated < MaxSecrets
    /\ generated' = Fresh
    /\ Proceed([run EXCEPT !.keys = Fresh])
    /\ UNCHANGED <<azure, gateway, current, k8s, addons, desk, stale>>

\* getOrCreateWireGuardKeys: generated keys are kept in memory until the Secret
\* is applied, five steps later.
GetKeys ==
    /\ At("getKeys")
    /\ generated' = IF keys # 0 THEN generated ELSE Fresh
    /\ Proceed([run EXCEPT !.keys = IF keys # 0 THEN keys ELSE Fresh])
    /\ UNCHANGED <<azure, gateway, current, k8s, addons, desk, stale>>

\* Mutant: a node whose addresses are not there yet is taken as it is.
FindGatewayUnchecked ==
    /\ At("gateway")
    /\ stale' = FALSE
    /\ Proceed([run EXCEPT !.ip = gateway])
    /\ UNCHANGED <<azure, gateway, current, k8s, addons, generated, desk>>

\* getWireGuardNodeIP, repeated every 15 seconds until a gateway node with its
\* addresses is there.
FindGateway ==
    /\ At("gateway")
    /\ gateway # NoIP
    /\ stale' = FALSE
    /\ Proceed([run EXCEPT !.ip = gateway])
    /\ UNCHANGED <<azure, gateway, current, k8s, addons, generated, desk>>

\* updateRouteTable replaces the routes of the existing table ...
UpdateRouteTable ==
    /\ At("routes")
    /\ table # NoTable
    /\ table' = run.ip
    /\ Proceed(run)
    /\ UNCHANGED <<vnet, cluster, pool, routed, gateway, current, k8s, addons, generated, desk, stale>>

\* ... and fails without one.
NoRouteTable ==
    /\ At("routes")
    /\ table = NoTable
    /\ run' = NoRun
    /\ UNCHANGED <<azure, gateway, current, k8s, addons, generated, desk, history, stale>>

\* Mutant: the loop ends at a subnet that is already associated.
AssociateSubnetReturns ==
    /\ run.pc \in Subnets
    /\ routed' = IF routed = {} THEN {run.pc} ELSE routed
    /\ Proceed(run)
    /\ UNCHANGED <<vnet, cluster, pool, table, gateway, current, k8s, addons, generated, desk, stale>>

\* associateRouteTableWithSubnets, one subnet at a time; one that is already
\* associated is left as it is.
AssociateSubnet ==
    /\ run.pc \in Subnets
    /\ routed' = routed \cup {run.pc}
    /\ Proceed(run)
    /\ UNCHANGED <<vnet, cluster, pool, table, gateway, current, k8s, addons, generated, desk, stale>>

\* deployWireGuardToK8s applies a list of objects one by one, up to the first
\* error: the Secret first ...
ApplyKeys ==
    /\ At("applyKeys")
    /\ keys' = run.keys
    /\ Proceed(run)
    /\ UNCHANGED <<azure, gateway, current, token, mounted, addons, generated, desk, stale>>

\* ... then the DaemonSet that mounts it.  Its template does not mention the
\* keys, so pods that run already keep what they were started with.
ApplyDaemon ==
    /\ At("applyDaemon")
    /\ mounted' = IF mounted # 0 THEN mounted ELSE keys
    /\ Proceed(run)
    /\ UNCHANGED <<azure, gateway, current, token, keys, addons, generated, desk, stale>>

-----------------------------------------------------------------------------
(* AKS.                                                                    *)

GatewayRegisters ==
    /\ pool
    /\ gateway = NoIP
    /\ gateway' \in IPs
    /\ UNCHANGED <<azure, current, k8s, addons, run, generated, desk, history, stale>>

\* An upgrade or a repair replaces the node.
ReplaceGateway ==
    /\ gateway # NoIP
    /\ gateway' = NoIP
    /\ stale' = TRUE
    /\ UNCHANGED <<azure, current, k8s, addons, run, generated, desk, history>>

-----------------------------------------------------------------------------
Step ==
    \/ Arm \/ ArmFails \/ SaveKubeconfig \/ NoCluster
    \/ GetToken \/ Bootstrap \/ DeployCilium
    \/ GetKeys \/ FindGateway \/ UpdateRouteTable \/ NoRouteTable
    \/ AssociateSubnet \/ ApplyKeys \/ ApplyDaemon
    \/ kubectlApply \/ kubectlRolloutWait \/ ApplySite \/ SiteRefused
    \/ installGPUOperator \/ installGPUDevicePlugin \/ installDRADriver \/ NoContext

Next ==
    \/ Start \/ NetworkDeploy \/ Step \/ Stop
    \/ ApplySettings \/ runHelm \/ writeUserData \/ SwitchContext
    \/ GatewayRegisters \/ ReplaceGateway \/ ControllerUp \/ ControllerDown

Spec == Init /\ [][Next]_vars

\* A command that runs goes on, AKS brings up the node of a pool and the
\* controller.  Strong fairness: a node or a controller that comes and goes is
\* seen in the end.  That the operator interrupts the command is not assumed.
FairSpec ==
    /\ Spec
    /\ WF_vars(Step) /\ SF_vars(FindGateway) /\ SF_vars(kubectlRolloutWait)
    /\ WF_vars(GatewayRegisters) /\ WF_vars(ControllerUp)

-----------------------------------------------------------------------------
(* Properties.                                                             *)

\* Keys that are in the cluster are never replaced, however often the command
\* fails and is run again, nor is a token that can be used, but by an operator who
\* applies the output of "config k8s-bootstrap"; and so the token in the values of
\* the karpenter chart and in user data made since is the one the cluster accepts.
\* Machines that are to join, and peers that know the hub by its key, would be cut
\* off otherwise.
SecretsStable ==
    /\ [][/\ keys # 0 => keys' = keys
          /\ Usable(token) => token' = token \/ ApplySettings]_<<keys, token>>
    /\ [](handed \subseteq {token})

\* After a --wireguard run has succeeded, whatever runs failed half way before
\* it and whatever was installed after it, the traffic of both subnets goes to
\* the gateway node, which has the keys of the Secret.  It says nothing once the
\* node was replaced or the network deployed again.
GatewayServes ==
    ready /\ ~stale =>
        /\ gateway \in IPs /\ table = gateway
        /\ routed = Subnets
        /\ keys # 0 /\ mounted = keys

\* Once a run has succeeded, whatever failed half way before it, the cluster it has
\* deployed has what its flags asked for: cilium, the whole unbounded CNI, the
\* charts.  That depends on the context saveKubeconfig leaves behind, since neither
\* kubectl nor helm is told the cluster; it says nothing of charts installed with
\* --kubeconfig, nor of a run during which the operator switched the context.
AddonsInstalled == promised \subseteq installed

\* Every run ends.  (With --skip-arm and no gateway pool, a --wireguard run
\* waits for a node that nothing will create.)
RunEnds ==
    ~At("idle") /\ (pool \/ ~{"skipARM", "wireguard"} \subseteq run.flags) ~> At("idle")
=============================================================================
