--------------------------- MODULE PluginObjects ---------------------------
(***************************************************************************)
(* The objects the plugin server keeps (plugin/pkg/services): networks,    *)
(* agent pools and peerings, their message types, what the CLI's config    *)
(* commands generate for them, what Redact removes, and the bootstrap data *)
(* the machines of a pool are started with.                                *)
(*                                                                         *)
(* Of an object's spec the model keeps two fields: "spec", everything that *)
(* is not secret (CIDR, region, subnet, size, taints), and "secret" (the   *)
(* kubeadm token of a pool, the preshared key of a peering).  A status     *)
(* holds the IDs of the resources in the cloud.  The nebius agent pool has *)
(* a module of its own, NebiusAgentPool.                                   *)
(***************************************************************************)
EXTENDS Integers

CONSTANTS
    Specs,      \* the specs an operator may write
    Ids,        \* IDs of cloud resources
    NoId        \* the ID that is not set

ASSUME NoIdAssumption == NoId \notin Ids

-----------------------------------------------------------------------------
(* The services and the back ends registered for them, by message type.    *)

networksServers == {"awsVPC", "nebiusVPC"}
agentPoolsServers == {"awsInstance", "azureVMSS", "nebiusInstance"}
peeringsServers == {"awsVPN"}

Services == {"networks", "agentpools", "peerings"}

Servers(service) ==
    CASE service = "networks" -> networksServers
      [] service = "agentpools" -> agentPoolsServers
      [] service = "peerings" -> peeringsServers

Types == {"awsVPC", "nebiusVPC", "awsInstance", "azureVMSS", "awsVPN"}

AwsTypes == {"awsVPC", "awsInstance", "awsVPN"}

\* The cloud resources of an object.  A CloudFormation stack is one of them.
Parts(type) ==
    CASE type \in AwsTypes -> {"stack"}
      [] type = "nebiusVPC" -> {"pool", "network", "subnet"}
      [] type = "azureVMSS" -> {"vmss"}

AllParts == {"stack", "pool", "network", "subnet", "vmss"}

-----------------------------------------------------------------------------
(* Message types.                                                          *)

placeholder == "<replace-with-actual-value>"
Token == "token"
PreSharedKey == "preSharedKey"

SpecValues == Specs \cup {placeholder}

AwsNetworkSpec == SpecValues
AwsNetworkStatus == [{"stack"} -> Ids \cup {NoId}]
AwsNetwork == [type : {"awsVPC"}, spec : AwsNetworkSpec, secret : {""}, status : AwsNetworkStatus]

NebiusNetworkSpec == SpecValues
NebiusNetworkStatus == [{"pool", "network", "subnet"} -> Ids \cup {NoId}]
NebiusNetwork ==
    [type : {"nebiusVPC"}, spec : NebiusNetworkSpec, secret : {""}, status : NebiusNetworkStatus]

kubeadmToken == {Token, placeholder, ""}

AwsAgentPoolSpec == [spec : SpecValues, secret : kubeadmToken]
AwsAgentPoolStatus == [{"stack"} -> Ids \cup {NoId}]
AwsAgentPool ==
    {[type |-> "awsInstance", spec |-> s.spec, secret |-> s.secret, status |-> st] :
        s \in AwsAgentPoolSpec, st \in AwsAgentPoolStatus}

\* A scale set is addressed by the resource ID in the spec; there is no status.
AzureAgentPoolSpec == [spec : SpecValues, secret : kubeadmToken]
AzureAgentPool ==
    {[type |-> "azureVMSS", spec |-> s.spec, secret |-> s.secret,
      status |-> [p \in {"vmss"} |-> NoId]] : s \in AzureAgentPoolSpec}

ipsecPreSharedKey == {PreSharedKey, ""}

AwsPeeringSpec == [spec : SpecValues, secret : ipsecPreSharedKey]
AwsPeeringStatus == [{"stack"} -> Ids \cup {NoId}]
AwsPeering ==
    {[type |-> "awsVPN", spec |-> s.spec, secret |-> s.secret, status |-> st] :
        s \in AwsPeeringSpec, st \in AwsPeeringStatus}

Messages(service) ==
    CASE service = "networks" -> AwsNetwork \cup NebiusNetwork
      [] service = "agentpools" -> AwsAgentPool \cup AzureAgentPool
      [] service = "peerings" -> AwsPeering

NoStatus(type) == [p \in Parts(type) |-> NoId]

Object(type, spec, secret) ==
    [type |-> type, spec |-> spec, secret |-> secret, status |-> NoStatus(type)]

-----------------------------------------------------------------------------
(* Redact: the tokens and keys are cleared, the rest is handed out.        *)

\* Mutant: the copy that is handed out is made of the spec alone.
RedactToSpec(o) == [type |-> o.type, spec |-> o.spec, secret |-> ""]

RedactKubeadm(o) == [o EXCEPT !.secret = ""]
RedactIpsec(o) == [o EXCEPT !.secret = ""]

Redact(o) ==
    CASE o.type \in {"awsVPC", "nebiusVPC"} -> o
      [] o.type \in {"awsInstance", "azureVMSS"} -> RedactKubeadm(o)
      [] o.type = "awsVPN" -> RedactIpsec(o)

-----------------------------------------------------------------------------
(* The config commands.  env tells whether the environment variables make  *)
(* a valid config and whether the AKS cluster answers.                     *)

Environments == [config : BOOLEAN, cluster : BOOLEAN]

\* DefaultConfig: the config, or nil.
DefaultConfig(env) == env.config

\* DefaultKubeadmConfig: the token of the cluster's bootstrap Secret, or else
\* the placeholder; asking the cluster needs the config too.
FromAKS(env) == env.config /\ env.cluster
DefaultKubeadmConfig(env) == IF FromAKS(env) THEN Token ELSE placeholder

\* Each command prints a set of objects: none where it panics on the nil config.
\* The subnet and CIDR to use are always left to the operator; only the network
\* for Nebius is complete as it is printed, if the config has the project.
newAWSNetwork(env) == {Object("awsVPC", placeholder, "")}
newNebiusNetwork(specs, env) ==
    IF DefaultConfig(env) THEN {Object("nebiusVPC", s, "") : s \in specs \cup {placeholder}} ELSE {}
newAWSAgentPool(env) == {Object("awsInstance", placeholder, DefaultKubeadmConfig(env))}
newAzureAgentPool(env) == {Object("azureVMSS", placeholder, DefaultKubeadmConfig(env))}

configCommand(service, specs, env) ==
    CASE service = "networks" -> newAWSNetwork(env) \cup newNebiusNetwork(specs, env)
      [] service = "agentpools" -> newAWSAgentPool(env) \cup newAzureAgentPool(env)
      [] service = "peerings" -> {}

-----------------------------------------------------------------------------
(* Bootstrap data.                                                         *)

\* The labels a back end adds to the kubeadm config before it uses it; the
\* object is stored with them.
AddNodeLabels == {"cloud", "instanceType"}

\* nodeLabels joins the labels in the order a map iteration gives.
nodeLabels == {l \in [1..2 -> AddNodeLabels] : l[1] # l[2]}

Kubeconfig(o) == [token |-> o.secret]
JoinConfigs(o) == {[labels |-> l, taints |-> o.spec] : l \in nodeLabels}

\* cloud-init for kubeadm on Ubuntu: the kubeconfig and the join config.
ubuntuUserData(o) == {[kubeconfig |-> Kubeconfig(o), join |-> j] : j \in JoinConfigs(o)}

\* cloud-init for AKSFlexNode: the component configs; their JSON has the labels
\* as an object, which is written in one order.
resolveFlexComponentConfigs(o) ==
    [token |-> o.secret, labels |-> AddNodeLabels, taints |-> o.spec]
flexUserData(o) == {[components |-> resolveFlexComponentConfigs(o)]}

\* The compressed user data is the same only for the same user data.
Gzip(u) == [gzip |-> u]

\* What each back end may hand to the cloud for an object.
awsNetworkParameters(o) == {[spec |-> o.spec]}
nebiusNetworkParameters(o) == {[spec |-> o.spec]}
awsAgentPoolParameters(o) == {[spec |-> o.spec, userData |-> Gzip(u)] : u \in ubuntuUserData(o)}
azureAgentPoolParameters(o) == {[spec |-> o.spec, userData |-> Gzip(u)] : u \in flexUserData(o)}
awsPeeringParameters(o) == {[spec |-> o.spec, preSharedKey |-> o.secret]}

Parameters(o) ==
    CASE o.type = "awsVPC" -> awsNetworkParameters(o)
      [] o.type = "nebiusVPC" -> nebiusNetworkParameters(o)
      [] o.type = "awsInstance" -> awsAgentPoolParameters(o)
      [] o.type = "azureVMSS" -> azureAgentPoolParameters(o)
      [] o.type = "awsVPN" -> awsPeeringParameters(o)
=============================================================================
