------------------------- MODULE PluginServerProofs -------------------------
(***************************************************************************)
(* Proofs about PluginServer, for any number of processes and objects and  *)
(* any schedule of operators, clouds and faults.                           *)
(*                                                                         *)
(* RecordBacked and NoOrphans speak of what is left when calls have ended. *)
(* What makes them inductive is what a call that is alone with its object  *)
(* has done so far, step by step (ApplyOK, DeleteOK), that a type is       *)
(* "pending" while an apply of it is at work, that an object is "damaged"  *)
(* while a delete is, and that a list which is about to be written back is *)
(* out of date only for objects of which what was and what is on record is *)
(* pending (ListKnown).                                                    *)
(***************************************************************************)
EXTENDS PluginServer, FiniteSetTheorems, TLAPS

-----------------------------------------------------------------------------
(* Types.                                                                  *)

TypesOf(service) == Servers(service) \cap Types

SecretsOf(type) ==
    IF type \in {"awsVPC", "nebiusVPC"} THEN {""}
    ELSE IF type = "awsVPN" THEN ipsecPreSharedKey ELSE kubeadmToken

\* An object of a service, field by field.
IsMessage(m, service) ==
    /\ m = [type |-> m.type, spec |-> m.spec, secret |-> m.secret, status |-> m.status]
    /\ m.type \in TypesOf(service)
    /\ m.spec \in SpecValues
    /\ m.secret \in SecretsOf(m.type)
    /\ m.status \in [Parts(m.type) -> Ids \cup {NoId}]
    /\ m.type = "azureVMSS" => m.status["vmss"] = NoId

\* The steps a call goes through, by what it does and the type of its object.
StepsOf(op, type) ==
    IF op = "apply"
    THEN {"store"} \cup
         IF type \in AwsTypes
         THEN {"describe", "create", "update", "waitCreate", "waitUpdate", "outputs", "connection"}
         ELSE IF type = "nebiusVPC" THEN {"pool", "network", "subnet"} ELSE {"put", "poll"}
    ELSE {"load", "drop"} \cup
         IF type \in AwsTypes THEN {"deleteStack", "waitDelete"}
         ELSE IF type = "nebiusVPC" THEN {"deleteSubnet", "deleteNetwork", "deletePool"}
         ELSE {"beginDelete", "pollDelete"}

IsCall(k) ==
    /\ k = [op |-> k.op, o |-> k.o, obj |-> k.obj, step |-> k.step, alone |-> k.alone]
    /\ k.op \in {"apply", "delete"}
    /\ k.o \in Objects
    /\ IsMessage(k.obj, ServiceOf[k.o])
    /\ k.step \in StepsOf(k.op, k.obj.type)
    /\ k.alone \in BOOLEAN

\* What a resource may be: a scale set has no ID of its own, and a nebius
\* resource is complete or not there.
PartStates(p) ==
    IF p = "stack" THEN {"creating", "complete", "updateRolledBack", "rolledBack", "deleting", "deleteFailed"}
    ELSE IF p = "vmss" THEN {"creating", "complete", "failed", "deleting", "deleteFailed"}
    ELSE {"complete"}

PartIds(p) == IF p = "vmss" THEN {NoId} ELSE Ids

IsPart(x, p) ==
    \/ x = Nothing
    \/ x = Made(x.state, x.id, x.params) /\ x.state \in PartStates(p) /\ x.id \in PartIds(p)
    \/ /\ p \in {"stack", "vmss"}
       /\ x = [state |-> "updating", id |-> x.id, params |-> x.params, was |-> x.was]
       /\ x.was = Made("updateRolledBack", x.was.id, x.was.params)
       /\ x.id \in PartIds(p) /\ x.was.id \in PartIds(p)

IsParts(r) == r = [p \in AllParts |-> r[p]] /\ \A p \in AllParts : IsPart(r[p], p)

Typed ==
    /\ goal \in [Objects -> {"none", "present", "absent"}]
    /\ file = [o \in Objects |-> file[o]]
    /\ \A o \in Objects : file[o] = NoFile \/ IsMessage(file[o], ServiceOf[o])
    /\ db = [o \in Objects |-> db[o]]
    /\ \A o \in Objects : db[o] = NoRecord \/ IsMessage(db[o], ServiceOf[o])
    /\ list = [c \in Callers |-> list[c]]
    /\ \A c \in Callers : \A x \in DOMAIN list[c] :
          x \in Objects /\ (list[c][x] = NoRecord \/ IsMessage(list[c][x], ServiceOf[x]))
    /\ call = [c \in Callers |-> call[c]]
    /\ \A c \in Callers : call[c] = NoCall \/ IsCall(call[c])
    /\ res = [o \in Objects |-> res[o]]
    /\ \A o \in Objects : IsParts(res[o])
    /\ faults \in Nat
    /\ pending \in [Objects -> SUBSET Types]
    /\ damaged \in [Objects -> BOOLEAN]

-----------------------------------------------------------------------------
(* The inductive invariant.                                                *)

\* Calls that share an object know.
AloneOK ==
    \A c, d \in Callers :
        c # d /\ call[c] # NoCall /\ call[d] # NoCall /\ call[c].o = call[d].o => ~call[c].alone

ApplyPending ==
    \A c \in Callers :
        call[c] # NoCall /\ call[c].op = "apply" => call[c].obj.type \in pending[call[c].o]

DeleteDamages ==
    \A c \in Callers :
        call[c] # NoCall /\ call[c].op = "delete" /\ Recorded(call[c].o) =>
            damaged[call[c].o] \/ db[call[c].o].type \in pending[call[c].o]

\* The record x may become y, or may have been.
Doubted(x, y, pend) == x # y => {x.type, y.type} \cap Types \subseteq pend

\* A list that is to be written back.
ListKnown ==
    \A c \in Callers : \A x \in DOMAIN list[c] : Doubted(list[c][x], db[x], pending[x])

\* What exists is on record or pending.
Covered ==
    \A o \in Objects : \A t \in TypesOf(ServiceOf[o]) : \A p \in Parts(t) :
        Exists(o, p) => t \in pending[o] \/ (Recorded(o) /\ db[o].type = t)

\* An apply, at step k.step, that has been alone with the resources r.
ApplyOK(k, r) ==
    LET stack == r["stack"]
        vmss == r["vmss"]
        type == k.obj.type
        status == k.obj.status IN
    /\ k.step = "create" => stack = Nothing
    /\ k.step = "waitCreate" =>
          /\ stack.state \in {"creating", "complete", "rolledBack"}
          /\ stack.params \in Parameters(k.obj)
    /\ k.step = "waitUpdate" =>
          /\ stack.state \in {"updating", "complete", "updateRolledBack"}
          /\ stack.state # "updateRolledBack" => stack.params \in Parameters(k.obj)
    /\ k.step \in {"outputs", "connection", "store"} /\ type \in AwsTypes =>
          /\ stack.state \in {"complete", "updateRolledBack"}
          /\ stack.params \in Parameters(k.obj)
          /\ k.step # "outputs" => stack.id = status["stack"]
    /\ k.step \in {"poll", "store"} /\ type = "azureVMSS" =>
          /\ vmss.state \in {"creating", "updating", "complete", "failed"}
          /\ k.step = "store" => vmss.state = "complete"
          /\ vmss.params \in Parameters(k.obj)
    /\ k.step \in {"network", "subnet", "store"} /\ type = "nebiusVPC" =>
          r["pool"] # Nothing /\ r["pool"].id = status["pool"]
    /\ k.step \in {"subnet", "store"} /\ type = "nebiusVPC" =>
          r["network"] # Nothing /\ r["network"].id = status["network"]
    /\ k.step = "store" /\ type = "nebiusVPC" =>
          r["subnet"] # Nothing /\ r["subnet"].id = status["subnet"]

\* A delete that has been alone with the resources r, the record d and the
\* pending types pend.
DeleteOK(k, r, d, pend) ==
    LET type == k.obj.type IN
    /\ Doubted(k.obj, d, pend)
    /\ k.step = "drop" /\ ByName(type) => \A p \in Parts(type) : r[p] = Nothing
    /\ type = "nebiusVPC" /\ type \notin pend =>
          /\ k.step \in {"deleteNetwork", "deletePool", "drop"} => r["subnet"] = Nothing
          /\ k.step \in {"deletePool", "drop"} => r["network"] = Nothing
          /\ k.step = "drop" => r["pool"] = Nothing

\* What a call that is alone has done.
WorkOK(k, r) ==
    IF k.op = "apply" THEN ApplyOK(k, r) ELSE DeleteOK(k, r, db[k.o], pending[k.o])

AloneWork ==
    \A c \in Callers :
        call[c] # NoCall /\ call[c].alone => WorkOK(call[c], res[call[c].o])

\* The record of a nebius network has the IDs of what is there.
NebiusKnown ==
    \A o \in Objects :
        Recorded(o) /\ db[o].type = "nebiusVPC" /\ "nebiusVPC" \notin pending[o] =>
            \A p \in Parts("nebiusVPC") : Exists(o, p) => res[o][p].id = db[o].status[p]

IInv ==
    /\ Typed /\ AloneOK /\ ApplyPending /\ DeleteDamages /\ ListKnown /\ Covered /\ AloneWork
    /\ NebiusKnown /\ RecordBacked

-----------------------------------------------------------------------------
(* Types and their resources.                                              *)

\* The resources of each type.
LEMMA PartsOfType ==
    /\ \A t \in AwsTypes : Parts(t) = {"stack"}
    /\ Parts("nebiusVPC") = {"pool", "network", "subnet"}
    /\ Parts("azureVMSS") = {"vmss"}
    /\ \A t \in Types : Parts(t) \subseteq AllParts
<1>1. ASSUME NEW t \in AwsTypes PROVE Parts(t) = {"stack"}
    <2>1. t # "nebiusVPC" /\ t # "azureVMSS"
        BY DEF AwsTypes
    <2> QED
        BY <2>1, Zenon DEF Parts
<1>2. Parts("nebiusVPC") = {"pool", "network", "subnet"}
    <2>1. "nebiusVPC" \notin AwsTypes
        BY DEF AwsTypes
    <2> QED
        BY <2>1, Zenon DEF Parts
<1>3. Parts("azureVMSS") = {"vmss"}
    <2>1. "azureVMSS" \notin AwsTypes /\ "azureVMSS" # "nebiusVPC"
        BY DEF AwsTypes
    <2> QED
        BY <2>1, Zenon DEF Parts
<1> QED
    BY <1>1, <1>2, <1>3 DEF Types, AwsTypes, AllParts

\* The types each service has a back end for.
LEMMA ServersOf ==
    /\ Servers("networks") = networksServers
    /\ Servers("agentpools") = agentPoolsServers
    /\ Servers("peerings") = peeringsServers
<1>1. Servers("networks") = networksServers
    BY Zenon DEF Servers
<1>2. Servers("agentpools") = agentPoolsServers
    BY "agentpools" # "networks", Zenon DEF Servers
<1>3. Servers("peerings") = peeringsServers
    BY "peerings" # "networks", "peerings" # "agentpools", Zenon DEF Servers
<1> QED
    BY <1>1, <1>2, <1>3

\* The types of each service.
LEMMA TypesOfService ==
    /\ TypesOf("networks") = {"awsVPC", "nebiusVPC"}
    /\ TypesOf("agentpools") = {"awsInstance", "azureVMSS"}
    /\ TypesOf("peerings") = {"awsVPN"}
    /\ \A s \in Services : TypesOf(s) \subseteq Types
BY ServersOf DEF TypesOf, networksServers, agentPoolsServers, peeringsServers, Types, Services

\* Within a service a resource belongs to one type.
LEMMA PartsDisjoint ==
    ASSUME NEW s \in Services, NEW t \in TypesOf(s), NEW u \in TypesOf(s),
           NEW p, p \in Parts(t), p \in Parts(u)
    PROVE  t = u
BY PartsOfType, TypesOfService DEF Services, AwsTypes

\* An object of a service is one of its messages.
LEMMA MessageIs ==
    ASSUME NEW s \in Services, NEW m, IsMessage(m, s)
    PROVE  m \in Messages(s)
<1> USE DEF IsMessage, SecretsOf
<1>1. CASE s = "networks"
    <2>1. Messages(s) = AwsNetwork \cup NebiusNetwork
        BY <1>1, Zenon DEF Messages
    <2>2. m.type \in {"awsVPC", "nebiusVPC"}
        BY <1>1, TypesOfService
    <2>3. CASE m.type = "awsVPC"
        BY <2>1, <2>3, PartsOfType
           DEF AwsNetwork, AwsNetworkSpec, AwsNetworkStatus, AwsTypes
    <2>4. CASE m.type = "nebiusVPC"
        BY <2>1, <2>4, PartsOfType DEF NebiusNetwork, NebiusNetworkSpec, NebiusNetworkStatus
    <2> QED
        BY <2>2, <2>3, <2>4
<1>2. CASE s = "agentpools"
    <2>1. Messages(s) = AwsAgentPool \cup AzureAgentPool
        BY <1>2, "agentpools" # "networks", Zenon DEF Messages
    <2>2. m.type \in {"awsInstance", "azureVMSS"}
        BY <1>2, TypesOfService
    <2>3. CASE m.type = "awsInstance"
        <3>1. m.status \in AwsAgentPoolStatus
            BY <2>3, PartsOfType DEF AwsAgentPoolStatus, AwsTypes
        <3>2. [spec |-> m.spec, secret |-> m.secret] \in AwsAgentPoolSpec
            BY <2>3 DEF AwsAgentPoolSpec
        <3>3. m \in AwsAgentPool
            BY <2>3, <3>1, <3>2 DEF AwsAgentPool
        <3> QED
            BY <2>1, <3>3
    <2>4. CASE m.type = "azureVMSS"
        <3>1. m.status = [p \in {"vmss"} |-> NoId]
            BY <2>4, PartsOfType
        <3>2. [spec |-> m.spec, secret |-> m.secret] \in AzureAgentPoolSpec
            BY <2>4 DEF AzureAgentPoolSpec
        <3>3. m \in AzureAgentPool
            BY <2>4, <3>1, <3>2 DEF AzureAgentPool
        <3> QED
            BY <2>1, <3>3
    <2> QED
        BY <2>2, <2>3, <2>4
<1>3. CASE s = "peerings"
    <2>1. Messages(s) = AwsPeering
        BY <1>3, "peerings" # "networks", "peerings" # "agentpools", Zenon DEF Messages
    <2>2. m.type = "awsVPN"
        BY <1>3, TypesOfService
    <2>3. m.status \in AwsPeeringStatus
        BY <2>2, PartsOfType DEF AwsPeeringStatus, AwsTypes
    <2>4. [spec |-> m.spec, secret |-> m.secret] \in AwsPeeringSpec
        BY <2>2 DEF AwsPeeringSpec
    <2> QED
        BY <2>1, <2>2, <2>3, <2>4 DEF AwsPeering
<1> QED
    BY <1>1, <1>2, <1>3 DEF Services

\* What a back end hands to the cloud does not depend on the status.
LEMMA ParametersSame ==
    ASSUME NEW m, NEW n, m.type \in Types,
           m.type = n.type, m.spec = n.spec, m.secret = n.secret
    PROVE  Parameters(m) = Parameters(n)
<1>1. CASE m.type = "awsVPC"
    <2>1. Parameters(m) = awsNetworkParameters(m) /\ Parameters(n) = awsNetworkParameters(n)
        BY <1>1, Zenon DEF Parameters
    <2> QED
        BY <2>1 DEF awsNetworkParameters
<1>2. CASE m.type = "nebiusVPC"
    <2>1. Parameters(m) = nebiusNetworkParameters(m) /\ Parameters(n) = nebiusNetworkParameters(n)
        BY <1>2, "nebiusVPC" # "awsVPC", Zenon DEF Parameters
    <2> QED
        BY <2>1 DEF nebiusNetworkParameters
<1>3. CASE m.type = "awsInstance"
    <2>1. Parameters(m) = awsAgentPoolParameters(m) /\ Parameters(n) = awsAgentPoolParameters(n)
        BY <1>3, "awsInstance" # "awsVPC", "awsInstance" # "nebiusVPC", Zenon DEF Parameters
    <2>2. JoinConfigs(m) = JoinConfigs(n) /\ Kubeconfig(m) = Kubeconfig(n)
        BY DEF JoinConfigs, Kubeconfig
    <2>3. ubuntuUserData(m) = ubuntuUserData(n)
        BY <2>2 DEF ubuntuUserData
    <2> QED
        BY <2>1, <2>3 DEF awsAgentPoolParameters
<1>4. CASE m.type = "azureVMSS"
    <2>1. Parameters(m) = azureAgentPoolParameters(m) /\ Parameters(n) = azureAgentPoolParameters(n)
        BY <1>4, "azureVMSS" # "awsVPC", "azureVMSS" # "nebiusVPC", "azureVMSS" # "awsInstance",
           Zenon DEF Parameters
    <2>2. flexUserData(m) = flexUserData(n)
        BY DEF flexUserData, resolveFlexComponentConfigs
    <2> QED
        BY <2>1, <2>2 DEF azureAgentPoolParameters
<1>5. CASE m.type = "awsVPN"
    <2>1. Parameters(m) = awsPeeringParameters(m) /\ Parameters(n) = awsPeeringParameters(n)
        BY <1>5, "awsVPN" # "awsVPC", "awsVPN" # "nebiusVPC", "awsVPN" # "awsInstance",
           "awsVPN" # "azureVMSS", Zenon DEF Parameters
    <2> QED
        BY <2>1 DEF awsPeeringParameters
<1> QED
    BY <1>1, <1>2, <1>3, <1>4, <1>5 DEF Types

-----------------------------------------------------------------------------
(* The files operators apply.                                              *)

\* An object with the spec, the secret and the status of its type.
LEMMA MessageMade ==
    ASSUME NEW s \in Services, NEW t \in TypesOf(s), NEW spec \in SpecValues, NEW secret \in SecretsOf(t)
    PROVE  IsMessage(Object(t, spec, secret), s)
<1>1. NoStatus(t) \in [Parts(t) -> Ids \cup {NoId}]
    BY DEF NoStatus
<1>2. t = "azureVMSS" => NoStatus(t)["vmss"] = NoId
    BY PartsOfType DEF NoStatus
<1> QED
    BY <1>1, <1>2 DEF Object, IsMessage

\* An object with another spec, or without its secret.
LEMMA MessageEdited ==
    ASSUME NEW s \in Services, NEW m, IsMessage(m, s), NEW spec \in SpecValues
    PROVE  /\ IsMessage([m EXCEPT !.spec = spec], s)
           /\ IsMessage(Redact(m), s)
<1>1. m.type \in Types
    BY TypesOfService DEF IsMessage
<1>2. IsMessage([m EXCEPT !.spec = spec], s)
    <2>1. [m EXCEPT !.spec = spec] =
              [type |-> m.type, spec |-> spec, secret |-> m.secret, status |-> m.status]
        BY DEF IsMessage
    <2> QED
        BY <2>1 DEF IsMessage
<1>3. \/ Redact(m) = m
      \/ Redact(m) = [m EXCEPT !.secret = ""] /\ m.type \notin {"awsVPC", "nebiusVPC"}
    <2>1. CASE m.type \in {"awsVPC", "nebiusVPC"}
        <3>1. m.type \notin {"awsInstance", "azureVMSS"} /\ m.type # "awsVPN"
            BY <2>1
        <3>2. Redact(m) = m
            BY <2>1, <3>1, Zenon DEF Redact
        <3> QED
            BY <3>2
    <2>2. CASE m.type \in {"awsInstance", "azureVMSS"}
        <3>1. m.type \notin {"awsVPC", "nebiusVPC"}
            BY <2>2
        <3>2. Redact(m) = RedactKubeadm(m)
            BY <2>2, <3>1, Zenon DEF Redact
        <3> QED
            BY <3>1, <3>2 DEF RedactKubeadm
    <2>3. CASE m.type = "awsVPN"
        <3>1. m.type \notin {"awsVPC", "nebiusVPC"} /\ m.type \notin {"awsInstance", "azureVMSS"}
            BY <2>3
        <3>2. Redact(m) = RedactIpsec(m)
            BY <2>3, <3>1, Zenon DEF Redact
        <3> QED
            BY <3>1, <3>2 DEF RedactIpsec
    <2> QED
        BY <1>1, <2>1, <2>2, <2>3 DEF Types
<1>4. m.type \notin {"awsVPC", "nebiusVPC"} => "" \in SecretsOf(m.type)
    BY DEF SecretsOf, ipsecPreSharedKey, kubeadmToken
<1>5. ASSUME m.type \notin {"awsVPC", "nebiusVPC"} PROVE IsMessage([m EXCEPT !.secret = ""], s)
    <2>1. ASSUME NEW x
          PROVE  [m EXCEPT !.secret = x] =
                    [type |-> m.type, spec |-> m.spec, secret |-> x, status |-> m.status]
        BY DEF IsMessage
    <2>2. [m EXCEPT !.secret = ""] =
              [type |-> m.type, spec |-> m.spec, secret |-> "", status |-> m.status]
        BY <2>1
    <2> QED
        BY <1>4, <1>5, <2>2 DEF IsMessage
<1> QED
    BY <1>2, <1>3, <1>5

\* The secret an operator writes.
LEMMA SecretOfType == ASSUME NEW t \in Types PROVE Secret(t) \in SecretsOf(t)
<1>1. CASE t \in {"awsVPC", "nebiusVPC"}
    <2>1. Secret(t) = ""
        BY <1>1, Zenon DEF Secret
    <2> QED
        BY <1>1, <2>1 DEF SecretsOf
<1>2. CASE t \in {"awsInstance", "azureVMSS"}
    <2>1. t \notin {"awsVPC", "nebiusVPC"} /\ t # "awsVPN"
        BY <1>2
    <2>2. Secret(t) = Token
        BY <1>2, <2>1, Zenon DEF Secret
    <2> QED
        BY <2>1, <2>2 DEF SecretsOf, kubeadmToken
<1>3. CASE t = "awsVPN"
    <2>1. t \notin {"awsVPC", "nebiusVPC"} /\ t \notin {"awsInstance", "azureVMSS"}
        BY <1>3
    <2>2. Secret(t) = PreSharedKey
        BY <1>3, <2>1, Zenon DEF Secret
    <2> QED
        BY <1>3, <2>1, <2>2 DEF SecretsOf, ipsecPreSharedKey
<1> QED
    BY <1>1, <1>2, <1>3 DEF Types

\* What the config commands print.
LEMMA ConfigMessages ==
    ASSUME NEW s \in Services, NEW specs \in SUBSET Specs, NEW env,
           NEW m \in configCommand(s, specs, env)
    PROVE  IsMessage(m, s)
<1>0. placeholder \in SpecValues /\ specs \cup {placeholder} \subseteq SpecValues
    BY DEF SpecValues
<1>1. CASE s = "networks"
    <2>1. configCommand(s, specs, env) = newAWSNetwork(env) \cup newNebiusNetwork(specs, env)
        BY <1>1, Zenon DEF configCommand
    <2>2. \/ m = Object("awsVPC", placeholder, "")
          \/ \E x \in specs \cup {placeholder} : m = Object("nebiusVPC", x, "")
        BY <2>1 DEF newAWSNetwork, newNebiusNetwork
    <2>3. "" \in SecretsOf("awsVPC") /\ "" \in SecretsOf("nebiusVPC")
        BY DEF SecretsOf
    <2>4. CASE m = Object("awsVPC", placeholder, "")
        BY <1>0, <1>1, <2>3, <2>4, MessageMade, TypesOfService
    <2>5. ASSUME NEW x \in specs \cup {placeholder}, m = Object("nebiusVPC", x, "")
          PROVE  IsMessage(m, s)
        BY <1>0, <1>1, <2>3, <2>5, MessageMade, TypesOfService
    <2> QED
        BY <2>2, <2>4, <2>5
<1>2. CASE s = "agentpools"
    <2>1. configCommand(s, specs, env) = newAWSAgentPool(env) \cup newAzureAgentPool(env)
        BY <1>2, "agentpools" # "networks", Zenon DEF configCommand
    <2>2. \E t \in {"awsInstance", "azureVMSS"} : m = Object(t, placeholder, DefaultKubeadmConfig(env))
        BY <2>1 DEF newAWSAgentPool, newAzureAgentPool
    <2>3. \A t \in {"awsInstance", "azureVMSS"} : DefaultKubeadmConfig(env) \in SecretsOf(t)
        BY DEF DefaultKubeadmConfig, SecretsOf, kubeadmToken
    <2> QED
        BY <1>0, <1>2, <2>2, <2>3, MessageMade, TypesOfService
<1>3. CASE s = "peerings"
    <2>1. configCommand(s, specs, env) = {}
        BY <1>3, "peerings" # "networks", "peerings" # "agentpools", Zenon DEF configCommand
    <2> QED
        BY <2>1
<1> QED
    BY <1>1, <1>2, <1>3 DEF Services

\* What is applied is an object of the service.
LEMMA FilesTyped ==
    ASSUME Typed, NEW o \in Objects, NEW m \in Files(o)
    PROVE  IsMessage(m, ServiceOf[o])
<1> DEFINE s == ServiceOf[o]
<1>0. s \in Services /\ SpecsOf[o] \in SUBSET Specs /\ SpecsOf[o] \subseteq SpecValues
    BY ObjectsAssumption DEF SpecValues
<1>1. \A x \in get(o) : Recorded(o) /\ x = Redact(db[o])
    BY DEF get, ParentGet, ParentList
<1>2. Recorded(o) => IsMessage(db[o], s)
    BY DEF Recorded, Typed
<1>3. placeholder \in SpecValues
    BY DEF SpecValues
<1>4. \A x \in get(o) : IsMessage(x, s)
    BY <1>0, <1>1, <1>2, <1>3, MessageEdited
<1>5. CASE m \in Written(o)
    <2>1. PICK t \in TypesOf(s), x \in SpecsOf[o] : m = Object(t, x, Secret(t))
        BY <1>5 DEF Written, TypesOf
    <2>2. Secret(t) \in SecretsOf(t)
        BY <1>0, TypesOfService, SecretOfType
    <2> QED
        BY <1>0, <2>1, <2>2, MessageMade
<1>6. CASE m \in get(o)
    BY <1>4, <1>6
<1>7. CASE m \in Edited(o)
    <2>1. PICK x \in get(o), y \in SpecsOf[o] : m = [x EXCEPT !.spec = y]
        BY <1>7 DEF Edited
    <2> QED
        BY <1>0, <1>4, <2>1, MessageEdited
<1>8. CASE m \in UNION {configCommand(ServiceOf[o], SpecsOf[o], env) : env \in Environments}
    BY <1>0, <1>8, ConfigMessages
<1> QED
    BY <1>5, <1>6, <1>7, <1>8 DEF Files

-----------------------------------------------------------------------------
(* Calls and resources, one step further.                                  *)

\* Beside twice as many IDs as there are processes and three more there is another one.
LEMMA FreshExists ==
    ASSUME NEW x, NEW y, NEW z, NEW T, IsFiniteSet(T), Cardinality(T) <= 2 * Cardinality(Callers)
    PROVE  \E i \in Ids : i # x /\ i # y /\ i # z /\ i \notin T
<1> DEFINE U == T \cup {x}
           V == U \cup {y}
           W == V \cup {z}
<1>1. Cardinality(T) \in Nat /\ Cardinality(Callers) \in Nat /\ Cardinality(Ids) \in Nat
    BY FS_CardinalityType, IdsAssumption
<1>2. IsFiniteSet(U) /\ Cardinality(U) <= Cardinality(T) + 1 /\ Cardinality(U) \in Nat
    <2>1. /\ IsFiniteSet(U)
          /\ Cardinality(U) = IF x \in T THEN Cardinality(T) ELSE Cardinality(T) + 1
        BY <1>1, FS_AddElement
    <2>2. Cardinality(U) \in Nat
        BY <2>1, FS_CardinalityType
    <2> HIDE DEF U
    <2> QED
        BY <1>1, <2>1, <2>2
<1> HIDE DEF U
<1>3. IsFiniteSet(V) /\ Cardinality(V) <= Cardinality(U) + 1 /\ Cardinality(V) \in Nat
    <2>1. /\ IsFiniteSet(V)
          /\ Cardinality(V) = IF y \in U THEN Cardinality(U) ELSE Cardinality(U) + 1
        BY <1>2, FS_AddElement
    <2>2. Cardinality(V) \in Nat
        BY <2>1, FS_CardinalityType
    <2> HIDE DEF V
    <2> QED
        BY <1>2, <2>1, <2>2
<1> HIDE DEF V
<1>4. IsFiniteSet(W) /\ Cardinality(W) <= Cardinality(V) + 1 /\ Cardinality(W) \in Nat
    <2>1. /\ IsFiniteSet(W)
          /\ Cardinality(W) = IF z \in V THEN Cardinality(V) ELSE Cardinality(V) + 1
        BY <1>3, FS_AddElement
    <2>2. Cardinality(W) \in Nat
        BY <2>1, FS_CardinalityType
    <2> HIDE DEF W
    <2> QED
        BY <1>3, <2>1, <2>2
<1> HIDE DEF W
<1>5. Cardinality(W) < Cardinality(Ids)
    BY <1>1, <1>2, <1>3, <1>4, IdsAssumption
<1>6. ~(Ids \subseteq W)
    BY <1>1, <1>4, <1>5, FS_Subset
<1>7. PICK i \in Ids : i \notin W
    BY <1>6
<1> QED
    BY <1>7 DEF W, V, U

\* A new resource gets an ID.
LEMMA FreshIdType ==
    ASSUME NEW o \in Objects, NEW p
    PROVE  FreshId(o, p) \in Ids
<1> DEFINE f == [c \in Callers |-> call[c].obj.status[p]]
           g == [c \in Callers |-> list[c][o].status[p]]
           F == {f[c] : c \in Callers}
           G == {g[c] : c \in Callers}
           T == F \cup G
<1>1. f \in Surjection(Callers, F) /\ g \in Surjection(Callers, G)
    BY DEF Surjection
<1>2. IsFiniteSet(T) /\ Cardinality(T) <= 2 * Cardinality(Callers)
    <2>1. /\ IsFiniteSet(F) /\ Cardinality(F) <= Cardinality(Callers)
          /\ IsFiniteSet(G) /\ Cardinality(G) <= Cardinality(Callers)
        <3> HIDE DEF f, g, F, G
        <3> QED
            BY <1>1, FS_Surjection, IdsAssumption
    <2> HIDE DEF F, G
    <2>2. /\ IsFiniteSet(F \cup G) /\ IsFiniteSet(F \cap G)
          /\ Cardinality(F \cup G) = Cardinality(F) + Cardinality(G) - Cardinality(F \cap G)
        BY <2>1, FS_Union, FS_Intersection
    <2>3. /\ Cardinality(F) \in Nat /\ Cardinality(G) \in Nat /\ Cardinality(F \cap G) \in Nat
          /\ Cardinality(Callers) \in Nat
        BY <2>1, <2>2, FS_CardinalityType, IdsAssumption
    <2> QED
        BY <2>1, <2>2, <2>3
<1>3. \E i \in Ids : /\ i # res[o][p].id /\ i # db[o].status[p] /\ i # file[o].status[p]
                     /\ i \notin T
    <2> HIDE DEF T
    <2> QED
        BY <1>2, FreshExists
<1>4. PICK i \in Ids : /\ i # res[o][p].id /\ i # db[o].status[p] /\ i # file[o].status[p]
                      /\ i \notin T
    BY <1>3
<1>5. /\ Exists(o, p) => res[o][p].id # i
      /\ \A m \in {db[o], file[o]} \cup
                    {call[c].obj : c \in {d \in Callers : call[d] # NoCall /\ call[d].o = o}} \cup
                    {list[c][o] : c \in {d \in Callers : o \in DOMAIN list[d]}} :
             m.type = "none" \/ p \notin Parts(m.type) \/ m.status[p] # i
    BY <1>4
<1> QED
    BY <1>5, Zenon DEF FreshId

\* The step of a call tells what it does, and to which type of object.
LEMMA StepTells ==
    ASSUME NEW k, IsCall(k)
    PROVE  /\ k.step \in {"describe", "create", "update", "waitCreate", "waitUpdate", "outputs",
                          "connection"}
                 => k.op = "apply" /\ k.obj.type \in AwsTypes
           /\ k.step \in {"pool", "network", "subnet"} => k.op = "apply" /\ k.obj.type = "nebiusVPC"
           /\ k.step \in {"put", "poll"} => k.op = "apply" /\ k.obj.type = "azureVMSS"
           /\ k.step = "store" => k.op = "apply"
           /\ k.step \in {"load", "drop"} => k.op = "delete"
           /\ k.step \in {"deleteStack", "waitDelete"} => k.op = "delete" /\ k.obj.type \in AwsTypes
           /\ k.step \in {"deleteSubnet", "deleteNetwork", "deletePool"}
                 => k.op = "delete" /\ k.obj.type = "nebiusVPC"
           /\ k.step \in {"beginDelete", "pollDelete"} => k.op = "delete" /\ k.obj.type = "azureVMSS"
<1>1. k.op \in {"apply", "delete"} /\ k.step \in StepsOf(k.op, k.obj.type)
    BY DEF IsCall
<1>2. k.obj.type \in Types
    BY TypesOfService, ObjectsAssumption DEF IsCall, IsMessage
<1>3. k.obj.type \in AwsTypes \/ k.obj.type = "nebiusVPC" \/ k.obj.type = "azureVMSS"
    BY <1>2 DEF Types, AwsTypes
<1>4. CASE k.op = "apply"
    BY <1>1, <1>3, <1>4 DEF StepsOf, AwsTypes
<1>5. CASE k.op = "delete"
    BY <1>1, <1>3, <1>5 DEF StepsOf, AwsTypes
<1> QED
    BY <1>1, <1>4, <1>5

\* A call at another step.
LEMMA StepSet ==
    ASSUME NEW k, IsCall(k), NEW s \in StepsOf(k.op, k.obj.type)
    PROVE  LET n == [k EXCEPT !.step = s] IN
           /\ IsCall(n)
           /\ n.op = k.op /\ n.o = k.o /\ n.obj = k.obj /\ n.alone = k.alone /\ n.step = s
<1>1. [k EXCEPT !.step = s] = [op |-> k.op, o |-> k.o, obj |-> k.obj, step |-> s, alone |-> k.alone]
    BY DEF IsCall
<1> QED
    BY <1>1 DEF IsCall

\* A call with another object and at another step.
LEMMA CallSet ==
    ASSUME NEW k, IsCall(k), NEW x, NEW step
    PROVE  [k EXCEPT !.obj = x, !.step = step] =
              [op |-> k.op, o |-> k.o, obj |-> x, step |-> step, alone |-> k.alone]
<1>1. k = [op |-> k.op, o |-> k.o, obj |-> k.obj, step |-> k.step, alone |-> k.alone]
    BY DEF IsCall
<1>2. [k EXCEPT !.obj = x] = [op |-> k.op, o |-> k.o, obj |-> x, step |-> k.step, alone |-> k.alone]
    BY <1>1
<1>3. [k EXCEPT !.obj = x, !.step = step] = [[k EXCEPT !.obj = x] EXCEPT !.step = step]
    OBVIOUS
<1>4. [[op |-> k.op, o |-> k.o, obj |-> x, step |-> k.step, alone |-> k.alone] EXCEPT !.step = step] =
          [op |-> k.op, o |-> k.o, obj |-> x, step |-> step, alone |-> k.alone]
    OBVIOUS
<1> QED
    BY <1>2, <1>3, <1>4, Zenon

\* Resources of which one is changed.
LEMMA PartSet ==
    ASSUME NEW r, IsParts(r), NEW p \in AllParts, NEW v, IsPart(v, p)
    PROVE  LET n == [r EXCEPT ![p] = v] IN
           /\ IsParts(n)
           /\ n[p] = v
           /\ \A q \in AllParts \ {p} : n[q] = r[q]
<1> DEFINE n == [r EXCEPT ![p] = v]
<1>1. n = [q \in AllParts |-> IF q = p THEN v ELSE r[q]]
    BY DEF IsParts
<1> HIDE DEF n
<1>2. n = [q \in AllParts |-> n[q]] /\ n[p] = v /\ \A q \in AllParts \ {p} : n[q] = r[q]
    BY <1>1
<1>3. \A q \in AllParts : IsPart(n[q], q)
    BY <1>2 DEF IsParts
<1> QED
    BY <1>2, <1>3 DEF IsParts, n

-----------------------------------------------------------------------------
(* The steps of calls preserve the invariant.                              *)

Others == <<goal, file, turns, db, list, faults, pending, damaged>>

\* What a call does at a step k: it ends or becomes n, and leaves behind s
\* instead of r.
Moves(k, n, r, s) ==
    /\ n # NoCall => /\ IsCall(n)
                     /\ n.op = k.op /\ n.o = k.o /\ (n.alone => k.alone)
                     /\ n.obj.type = k.obj.type
                     /\ n.alone => WorkOK(n, s)
    /\ IsParts(s)
    /\ \A p \in AllParts : p \notin Parts(k.obj.type) => s[p] = r[p]
    /\ k.op = "delete" => \A p \in AllParts : s[p] # Nothing => r[p] # Nothing /\ s[p].id = r[p].id

\* Such steps preserve the invariant.
LEMMA MovesKeep ==
    ASSUME IInv, NEW c \in Callers, call[c] # NoCall, NEW n, NEW s,
           Moves(call[c], n, res[call[c].o], s),
           call' = [call EXCEPT ![c] = n],
           res' = [res EXCEPT ![call[c].o] = s],
           UNCHANGED Others
    PROVE  IInv'
<1> DEFINE k == call[c]
           o == k.o
           type == k.obj.type
<1>1. /\ Typed /\ AloneOK /\ ApplyPending /\ DeleteDamages /\ ListKnown /\ Covered
      /\ AloneWork /\ NebiusKnown /\ RecordBacked
    BY DEF IInv
<1>2. IsCall(k) /\ o \in Objects /\ k.op \in {"apply", "delete"} /\ type \in TypesOf(ServiceOf[o])
    BY <1>1 DEF Typed, IsCall, IsMessage
<1>3. ServiceOf[o] \in Services
    BY <1>2, ObjectsAssumption
<1>4. UNCHANGED <<goal, file, turns, db, list, faults, pending, damaged>>
    BY DEF Others
<1>5. call' = [d \in Callers |-> IF d = c THEN n ELSE call[d]]
    BY <1>1 DEF Typed
<1>6. res' = [x \in Objects |-> IF x = o THEN s ELSE res[x]]
    BY <1>1 DEF Typed
<1>7. /\ n # NoCall => /\ IsCall(n) /\ n.op = k.op /\ n.o = o /\ (n.alone => k.alone)
                       /\ n.obj.type = type
                       /\ n.alone => WorkOK(n, s)
      /\ IsParts(s)
      /\ \A p \in AllParts : p \notin Parts(type) => s[p] = res[o][p]
      /\ k.op = "delete" =>
            \A p \in AllParts : s[p] # Nothing => res[o][p] # Nothing /\ s[p].id = res[o][p].id
    BY DEF Moves
<1> HIDE DEF k, o, type
<1>8. Typed'
    BY <1>1, <1>4, <1>5, <1>6, <1>7 DEF Typed
<1>9. AloneOK'
    BY <1>1, <1>5, <1>7 DEF AloneOK, k, o
<1>10. ApplyPending'
    BY <1>1, <1>4, <1>5, <1>7 DEF ApplyPending, k, o, type
<1>11. DeleteDamages' /\ ListKnown'
    BY <1>1, <1>4, <1>5, <1>7 DEF DeleteDamages, ListKnown, Recorded, k, o
<1>12. k.op = "apply" => type \in pending[o]
    BY <1>1 DEF ApplyPending, k, o, type
<1>13. k.op = "delete" => damaged[o] \/ ~Recorded(o) \/ db[o].type \in pending[o]
    BY <1>1 DEF DeleteDamages, k, o
<1>14. \A t \in TypesOf(ServiceOf[o]) : Parts(t) \subseteq AllParts
    BY <1>3, PartsOfType, TypesOfService
<1>15. \A t \in TypesOf(ServiceOf[o]) : \A p \in Parts(t) : p \in Parts(type) => t = type
    BY <1>2, <1>3, PartsDisjoint
<1>16. Covered'
    <2>1. ASSUME NEW x \in Objects, NEW t \in TypesOf(ServiceOf[x]), NEW p \in Parts(t), res'[x][p] # Nothing
          PROVE  t \in pending[x] \/ (Recorded(x) /\ db[x].type = t)
        <3>1. CASE x # o
            BY <1>1, <1>6, <2>1, <3>1 DEF Covered, Exists
        <3>2. CASE x = o /\ p \notin Parts(type)
            BY <1>1, <1>2, <1>6, <1>7, <1>14, <2>1, <3>2 DEF Covered, Exists
        <3>3. CASE x = o /\ p \in Parts(type)
            <4>1. t = type /\ p \in AllParts
                BY <1>14, <1>15, <3>3
            <4>2. CASE k.op = "apply"
                BY <1>12, <3>3, <4>1, <4>2
            <4>3. CASE k.op = "delete"
                <5>1. res[o][p] # Nothing
                    BY <1>2, <1>6, <1>7, <2>1, <3>3, <4>1, <4>3
                <5> QED
                    BY <1>1, <1>2, <3>3, <4>1, <5>1 DEF Covered, Exists
            <4> QED
                BY <1>2, <4>2, <4>3
        <3> QED
            BY <3>1, <3>2, <3>3
    <2> QED
        BY <1>4, <2>1 DEF Covered, Exists, Recorded
<1>17. AloneWork'
    <2>1. ASSUME NEW d \in Callers, call'[d] # NoCall, call'[d].alone
          PROVE  WorkOK(call'[d], res'[call'[d].o])
        <3>1. CASE d = c
            BY <1>2, <1>5, <1>6, <1>7, <2>1, <3>1
        <3>2. CASE d # c
            <4>1. call'[d] = call[d]
                BY <1>5, <3>2
            <4>2. call[d].o # o
                BY <1>1, <2>1, <3>2, <4>1 DEF AloneOK, k, o
            <4>3. call[d].o \in Objects
                BY <1>1, <2>1, <4>1 DEF Typed, IsCall
            <4>4. res'[call[d].o] = res[call[d].o]
                BY <1>6, <4>2, <4>3
            <4> QED
                BY <1>1, <2>1, <4>1, <4>4 DEF AloneWork
        <3> QED
            BY <3>1, <3>2
    <2> QED
        BY <1>4, <2>1 DEF AloneWork, WorkOK
<1>18. NebiusKnown'
    <2>1. ASSUME NEW x \in Objects, Recorded(x), db[x].type = "nebiusVPC", "nebiusVPC" \notin pending[x],
                 NEW p \in Parts("nebiusVPC"), res'[x][p] # Nothing
          PROVE  res'[x][p].id = db[x].status[p]
        <3>0. res[x][p] # Nothing => res[x][p].id = db[x].status[p]
            BY <1>1, <2>1 DEF NebiusKnown, Exists
        <3>1. CASE x # o
            BY <1>6, <3>0, <2>1, <3>1
        <3>2. CASE x = o
            <4>1. p \in AllParts
                BY PartsOfType DEF Types
            <4>2. p \in Parts(type) => type = "nebiusVPC"
                BY <1>1, <1>15, <2>1, <3>2 DEF Typed, IsMessage, Recorded
            <4>3. p \in Parts(type) => k.op = "delete"
                BY <1>2, <1>12, <2>1, <3>2, <4>2
            <4> QED
                BY <1>6, <1>7, <2>1, <3>0, <3>2, <4>1, <4>3
        <3> QED
            BY <3>1, <3>2
    <2> QED
        BY <1>4, <2>1 DEF NebiusKnown, Exists, Recorded
<1>19. RecordBacked'
    <2>1. ASSUME NEW x \in Objects, Recorded(x), ~damaged[x], db[x].type \notin pending[x],
                 NEW p \in Parts(db[x].type)
          PROVE  res'[x][p] = res[x][p]
        <3>1. CASE x # o
            BY <1>6, <3>1
        <3>2. CASE x = o
            <4>1. db[x].type \in TypesOf(ServiceOf[x])
                BY <1>1, <2>1 DEF Typed, Recorded, IsMessage
            <4>2. k.op = "apply"
                BY <1>2, <1>13, <2>1, <3>2
            <4>3. p \in AllParts /\ p \notin Parts(type)
                BY <1>12, <1>14, <1>15, <2>1, <3>2, <4>1, <4>2
            <4> QED
                BY <1>6, <1>7, <3>2, <4>3
        <3> QED
            BY <3>1, <3>2
    <2> QED
        BY <1>1, <1>4, <2>1 DEF RecordBacked, Recorded
<1> QED
    BY <1>8, <1>9, <1>10, <1>11, <1>16, <1>17, <1>18, <1>19 DEF IInv

\* A call that fails.
LEMMA FailsKeeps ==
    ASSUME IInv, NEW c \in Callers, call[c] # NoCall, Fails(c), UNCHANGED Others
    PROVE  IInv'
<1> DEFINE k == call[c]
           s == res[k.o]
<1>1. Typed /\ IsCall(k) /\ k.o \in Objects /\ IsParts(s)
    BY DEF IInv, Typed, IsCall
<1>2. call' = [call EXCEPT ![c] = NoCall] /\ res' = res
    BY DEF Fails
<1>3. res' = [res EXCEPT ![k.o] = s]
    BY <1>1, <1>2 DEF Typed
<1>4. Moves(k, NoCall, s, s)
    BY <1>1 DEF Moves
<1> QED
    BY <1>2, <1>3, <1>4, MovesKeep

\* A call that goes on, with what it finds.
LEMMA GoKeeps ==
    ASSUME IInv, NEW c \in Callers, call[c] # NoCall,
           NEW step \in StepsOf(call[c].op, call[c].obj.type),
           Goto(c, step), UNCHANGED res, UNCHANGED Others,
           call[c].alone => WorkOK([call[c] EXCEPT !.step = step], res[call[c].o])
    PROVE  IInv'
<1> DEFINE k == call[c]
           s == res[k.o]
           n == [k EXCEPT !.step = step]
<1>1. Typed /\ IsCall(k) /\ k.o \in Objects /\ IsParts(s)
    BY DEF IInv, Typed, IsCall
<1>2. call' = [call EXCEPT ![c] = n]
    BY <1>1 DEF Goto, Typed
<1>3. res' = [res EXCEPT ![k.o] = s]
    BY <1>1 DEF Typed
<1>4. IsCall(n) /\ n.op = k.op /\ n.o = k.o /\ n.obj = k.obj /\ n.alone = k.alone
    BY <1>1, StepSet
<1>5. k.alone => WorkOK(n, s)
    OBVIOUS
<1> HIDE DEF k, n, s
<1>6. Moves(k, n, s, s)
    BY <1>1, <1>4, <1>5 DEF Moves
<1> QED
    BY <1>2, <1>3, <1>6, MovesKeep DEF k, s

\* A call that goes on, with a resource it changes.
LEMMA SetKeeps ==
    ASSUME IInv, NEW c \in Callers, call[c] # NoCall,
           NEW step \in StepsOf(call[c].op, call[c].obj.type), Goto(c, step),
           NEW p \in Parts(call[c].obj.type), p \in AllParts,
           NEW v, IsPart(v, p), SetPart(c, p, v), UNCHANGED Others,
           call[c].op = "delete" /\ v # Nothing => Part(c, p) # Nothing /\ v.id = Part(c, p).id,
           call[c].alone => WorkOK([call[c] EXCEPT !.step = step], [res[call[c].o] EXCEPT ![p] = v])
    PROVE  IInv'
<1> DEFINE k == call[c]
           r == res[k.o]
           s == [r EXCEPT ![p] = v]
           n == [k EXCEPT !.step = step]
<1>1. Typed /\ IsCall(k) /\ k.o \in Objects /\ IsParts(r)
    BY DEF IInv, Typed, IsCall
<1>2. call' = [call EXCEPT ![c] = n]
    BY <1>1 DEF Goto, Typed
<1>3. res' = [res EXCEPT ![k.o] = s]
    BY <1>1 DEF SetPart, Typed
<1>4. IsCall(n) /\ n.op = k.op /\ n.o = k.o /\ n.obj = k.obj /\ n.alone = k.alone
    BY <1>1, StepSet
<1>5. k.alone => WorkOK(n, s)
    OBVIOUS
<1>6. IsParts(s) /\ s[p] = v /\ \A q \in AllParts \ {p} : s[q] = r[q]
    <2> HIDE DEF r
    <2> QED
        BY <1>1, PartSet
<1>7. k.op = "delete" /\ v # Nothing => r[p] # Nothing /\ v.id = r[p].id
    BY DEF Part
<1>8. p \in Parts(k.obj.type)
    OBVIOUS
<1> HIDE DEF k, n, s, r
<1>9. Moves(k, n, r, s)
    BY <1>1, <1>4, <1>5, <1>6, <1>7, <1>8 DEF Moves
<1> QED
    BY <1>2, <1>3, <1>9, MovesKeep DEF k, r

\* The call k with an ID in its status.
StatusSet(k, p, id, step) == [k EXCEPT !.obj.status[p] = id, !.step = step]

\* Such a call, field by field.
Filled(n, k, p, id, step) ==
    /\ IsCall(n)
    /\ n.op = k.op /\ n.o = k.o /\ n.step = step /\ n.alone = k.alone
    /\ n.obj.type = k.obj.type /\ n.obj.spec = k.obj.spec /\ n.obj.secret = k.obj.secret
    /\ n.obj.status[p] = id
    /\ \A q \in Parts(k.obj.type) \ {p} : n.obj.status[q] = k.obj.status[q]

\* A status set is a status filled in.
LEMMA StatusSetIs ==
    ASSUME NEW k, IsCall(k), NEW step \in StepsOf(k.op, k.obj.type),
           k.obj.type # "azureVMSS", NEW p \in Parts(k.obj.type), NEW id \in Ids \cup {NoId}
    PROVE  Filled(StatusSet(k, p, id, step), k, p, id, step)
<1> DEFINE m == k.obj
           st == [m.status EXCEPT ![p] = id]
           b == [type |-> m.type, spec |-> m.spec, secret |-> m.secret, status |-> st]
           n == StatusSet(k, p, id, step)
<1>1. /\ k = [op |-> k.op, o |-> k.o, obj |-> k.obj, step |-> k.step, alone |-> k.alone]
      /\ IsMessage(m, ServiceOf[k.o])
    BY DEF IsCall
<1>2. /\ m = [type |-> m.type, spec |-> m.spec, secret |-> m.secret, status |-> m.status]
      /\ m.status \in [Parts(m.type) -> Ids \cup {NoId}]
    BY <1>1 DEF IsMessage
<1>3. st \in [Parts(m.type) -> Ids \cup {NoId}] /\ st[p] = id
    BY <1>2
<1>4. [m EXCEPT !.status[p] = id] = b
    BY <1>2
<1>5. n = [op |-> k.op, o |-> k.o, obj |-> [m EXCEPT !.status[p] = id], step |-> step, alone |-> k.alone]
    <2>1. n = [k EXCEPT !.obj = [m EXCEPT !.status[p] = id], !.step = step]
        BY DEF StatusSet
    <2> HIDE DEF n, m
    <2> QED
        BY <2>1, CallSet, Zenon
<1>6. IsMessage(b, ServiceOf[k.o])
    BY <1>1, <1>3 DEF IsMessage
<1>7. n = [op |-> k.op, o |-> k.o, obj |-> b, step |-> step, alone |-> k.alone]
    BY <1>4, <1>5
<1>8. b.type = m.type /\ b.spec = m.spec /\ b.secret = m.secret /\ b.status = st
    OBVIOUS
<1>9. \A q \in Parts(m.type) \ {p} : st[q] = m.status[q]
    BY <1>2
<1> HIDE DEF b, n, st
<1>10. n.op = k.op /\ n.o = k.o /\ n.obj = b /\ n.step = step /\ n.alone = k.alone
    BY <1>7
<1>11. IsCall(n)
    BY <1>6, <1>7, <1>8, <1>10 DEF IsCall
<1> QED
    BY <1>3, <1>8, <1>9, <1>10, <1>11 DEF Filled, n

\* An apply that goes on with the ID of a resource in the status.
LEMMA StatusKeeps ==
    ASSUME IInv, NEW c \in Callers, call[c] # NoCall, call[c].op = "apply",
           NEW step \in StepsOf(call[c].op, call[c].obj.type), call[c].obj.type # "azureVMSS",
           NEW p \in Parts(call[c].obj.type), p \in AllParts,
           GotStatus(c, p, step), UNCHANGED Others,
           NEW s, IsParts(s), s[p].id \in Ids,
           \A q \in AllParts \ {p} : s[q] = res[call[c].o][q],
           res' = [res EXCEPT ![call[c].o] = s],
           call[c].alone => ApplyOK(StatusSet(call[c], p, s[p].id, step), s)
    PROVE  IInv'
<1> DEFINE k == call[c]
           r == res[k.o]
           n == StatusSet(k, p, s[p].id, step)
<1>1. Typed /\ IsCall(k) /\ k.o \in Objects
    BY DEF IInv, Typed, IsCall
<1>2. res'[k.o] = s
    BY <1>1 DEF Typed
<1>3. call' = [call EXCEPT ![c] = n]
    <2>1. call' = [call EXCEPT ![c].obj.status[p] = s[p].id, ![c].step = step]
        BY <1>2 DEF GotStatus
    <2> QED
        BY <1>1, <2>1 DEF StatusSet, Typed
<1>4. /\ IsCall(n) /\ n.op = k.op /\ n.o = k.o /\ n.alone = k.alone /\ n.obj.type = k.obj.type
    <2>1. k.obj.type # "azureVMSS" /\ p \in Parts(k.obj.type) /\ step \in StepsOf(k.op, k.obj.type)
        OBVIOUS
    <2>2. s[p].id \in Ids \cup {NoId}
        OBVIOUS
    <2>3. Filled(n, k, p, s[p].id, step)
        BY <1>1, <2>1, <2>2, StatusSetIs
    <2> HIDE DEF n, k
    <2> QED
        BY <2>3 DEF Filled
<1>5. k.alone => WorkOK(n, s)
    BY <1>4 DEF WorkOK
<1>6. p \in Parts(k.obj.type) /\ k.op # "delete" /\ \A q \in AllParts \ {p} : s[q] = r[q]
    OBVIOUS
<1> HIDE DEF k, n, r
<1>7. Moves(k, n, r, s)
    BY <1>1, <1>4, <1>5, <1>6 DEF Moves
<1> QED
    BY <1>3, <1>7, MovesKeep DEF k, r

\* What is known of a call at one of its steps.
LEMMA AtStep ==
    ASSUME IInv, NEW c \in Callers, NEW step, At(c, step)
    PROVE  /\ call[c] # NoCall /\ call[c].step = step /\ IsCall(call[c])
           /\ call[c].o \in Objects /\ IsParts(res[call[c].o])
           /\ call[c].obj.type \in Types
           /\ call[c].alone => WorkOK(call[c], res[call[c].o])
<1>1. call[c] # NoCall /\ call[c].step = step
    BY DEF At
<1>2. IsCall(call[c]) /\ call[c].o \in Objects
    BY <1>1 DEF IInv, Typed, IsCall
<1>3. call[c].obj.type \in Types
    BY <1>2, TypesOfService, ObjectsAssumption DEF IsCall, IsMessage
<1> QED
    BY <1>1, <1>2, <1>3 DEF IInv, Typed, AloneWork

\* The stack is created only if it is not there.
LEMMA DeployStep ==
    ASSUME IInv, NEW c \in Callers, Deploy(c)
    PROVE  IInv'
<1> DEFINE k == call[c]
           r == res[k.o]
           step == IF r["stack"] = Nothing THEN "create" ELSE "update"
           n == [k EXCEPT !.step = step]
<1>1. /\ k # NoCall /\ k.step = "describe" /\ IsCall(k)
      /\ k.op = "apply" /\ k.obj.type \in AwsTypes
    BY AtStep, StepTells DEF Deploy
<1>2. Goto(c, step) /\ UNCHANGED res /\ UNCHANGED Others
    BY DEF Deploy, Part, Others, operatorVars, dbVars, historyVars
<1>3. step \in StepsOf(k.op, k.obj.type)
    BY <1>1 DEF StepsOf
<1>4. n.op = k.op /\ n.obj = k.obj /\ n.step = step
    BY <1>1, <1>3, StepSet
<1>5. WorkOK(n, r)
    <2>1. (step = "create" /\ r["stack"] = Nothing) \/ step = "update"
        OBVIOUS
    <2> HIDE DEF n, k, r, step
    <2>2. ApplyOK(n, r)
        BY <1>4, <2>1 DEF ApplyOK
    <2> QED
        BY <1>1, <1>4, <2>2 DEF WorkOK
<1> QED
    BY <1>1, <1>2, <1>3, <1>5, GoKeeps

\* The stack the call creates is the one it waits for.
LEMMA CreateStep ==
    ASSUME IInv, NEW c \in Callers, create(c)
    PROVE  IInv'
<1> DEFINE k == call[c]
           r == res[k.o]
           n == [k EXCEPT !.step = "waitCreate"]
<1>1. /\ k # NoCall /\ k.step = "create" /\ IsCall(k) /\ k.o \in Objects /\ IsParts(r)
      /\ k.op = "apply" /\ k.obj.type \in AwsTypes
    BY AtStep, StepTells DEF create
<1>2. UNCHANGED Others
    BY DEF create, Others, operatorVars, dbVars, historyVars
<1>3. CASE r["stack"] # Nothing
    BY <1>1, <1>2, <1>3, FailsKeeps DEF create, Part
<1>4. CASE r["stack"] = Nothing
    <2>1. PICK q \in Parameters(k.obj) :
             SetPart(c, "stack", Made("creating", FreshId(k.o, "stack"), q)) /\ Goto(c, "waitCreate")
        BY <1>4 DEF create, Part
    <2>2. FreshId(k.o, "stack") \in Ids
        BY <1>1, FreshIdType
    <2>3. PICK v : v = Made("creating", FreshId(k.o, "stack"), q)
        OBVIOUS
    <2>4. IsPart(v, "stack") /\ v.state = "creating" /\ v.params = q
        BY <2>2, <2>3 DEF Made, IsPart, PartStates, PartIds
    <2>5. "waitCreate" \in StepsOf(k.op, k.obj.type) /\ "stack" \in Parts(k.obj.type) /\ "stack" \in AllParts
        BY <1>1, PartsOfType DEF StepsOf, AllParts
    <2>6. n.op = k.op /\ n.obj = k.obj /\ n.step = "waitCreate"
        BY <1>1, <2>5, StepSet
    <2>7. WorkOK(n, [r EXCEPT !["stack"] = v])
        <3> DEFINE s == [r EXCEPT !["stack"] = v]
        <3>1. s["stack"] = v
            BY <1>1, <2>5 DEF IsParts
        <3>2. q \in Parameters(k.obj)
            BY <2>1
        <3> HIDE DEF n, k, s
        <3>3. ApplyOK(n, s)
            BY <2>4, <2>6, <3>1, <3>2 DEF ApplyOK
        <3> QED
            BY <1>1, <2>6, <3>3 DEF WorkOK, s
    <2> QED
        BY <1>1, <1>2, <2>1, <2>3, <2>4, <2>5, <2>7, SetKeeps
<1> QED
    BY <1>3, <1>4

\* An update that is needed replaces the stack by one as the object says; one
\* that is not needed finds it.
LEMMA UpdateStep ==
    ASSUME IInv, NEW c \in Callers, update(c)
    PROVE  IInv'
<1> DEFINE k == call[c]
           r == res[k.o]
           x == r["stack"]
<1>1. /\ k # NoCall /\ k.step = "update" /\ IsCall(k) /\ k.o \in Objects /\ IsParts(r)
      /\ k.op = "apply" /\ k.obj.type \in AwsTypes
    BY AtStep, StepTells DEF update
<1>2. UNCHANGED Others
    BY DEF update, Others, operatorVars, dbVars, historyVars
<1>3. CASE x.state \notin InUse
    BY <1>1, <1>2, <1>3, FailsKeeps DEF update, Part
<1>4. CASE x.state \in InUse
    <2>1. PICK q \in Parameters(k.obj) :
             IF q = x.params
             THEN Goto(c, "outputs") /\ UNCHANGED res
             ELSE /\ SetPart(c, "stack", Replaced(x, FreshId(k.o, "stack"), q))
                  /\ Goto(c, "waitUpdate")
        BY <1>4 DEF update, Part
    <2>2. /\ "waitUpdate" \in StepsOf(k.op, k.obj.type) /\ "outputs" \in StepsOf(k.op, k.obj.type)
          /\ "stack" \in Parts(k.obj.type) /\ "stack" \in AllParts
        BY <1>1, PartsOfType DEF StepsOf, AllParts
    <2>3. IsPart(x, "stack")
        BY <1>1, <2>2 DEF IsParts
    <2>4. x.state \in {"complete", "updateRolledBack"} /\ x.id \in Ids
        <3> HIDE DEF x
        <3> QED
            BY <1>4, <2>3 DEF IsPart, PartStates, PartIds, InUse, Nothing, Made
    <2>5. CASE q = x.params
        <3> DEFINE n == [k EXCEPT !.step = "outputs"]
        <3>1. n.op = k.op /\ n.obj = k.obj /\ n.step = "outputs"
            BY <1>1, <2>2, StepSet
        <3>2. q \in Parameters(k.obj)
            BY <2>1
        <3>3. WorkOK(n, r)
            <4> HIDE DEF n, k, r
            <4>1. ApplyOK(n, r)
                BY <2>4, <2>5, <3>1, <3>2 DEF ApplyOK
            <4> QED
                BY <1>1, <3>1, <4>1 DEF WorkOK
        <3> QED
            BY <1>1, <1>2, <2>1, <2>2, <2>5, <3>3, GoKeeps
    <2>6. CASE q # x.params
        <3> DEFINE n == [k EXCEPT !.step = "waitUpdate"]
        <3>1. n.op = k.op /\ n.obj = k.obj /\ n.step = "waitUpdate"
            BY <1>1, <2>2, StepSet
        <3>2. FreshId(k.o, "stack") \in Ids
            BY <1>1, FreshIdType
        <3>3. PICK v : v = Replaced(x, FreshId(k.o, "stack"), q)
            OBVIOUS
        <3>4. IsPart(v, "stack") /\ v.state = "updating" /\ v.params = q
            <4> HIDE DEF x
            <4> QED
                BY <2>4, <3>2, <3>3 DEF Replaced, Made, IsPart, PartIds
        <3>5. WorkOK(n, [r EXCEPT !["stack"] = v])
            <4> DEFINE s == [r EXCEPT !["stack"] = v]
            <4>1. s["stack"] = v
                BY <1>1, <2>2 DEF IsParts
            <4>2. q \in Parameters(k.obj)
                BY <2>1
            <4> HIDE DEF n, k, s
            <4>3. ApplyOK(n, s)
                BY <3>1, <3>4, <4>1, <4>2 DEF ApplyOK
            <4> QED
                BY <1>1, <3>1, <4>3 DEF WorkOK, s
        <3> QED
            BY <1>1, <1>2, <2>1, <2>2, <2>6, <3>3, <3>4, <3>5, SetKeeps
    <2> QED
        BY <2>5, <2>6
<1> QED
    BY <1>3, <1>4

\* A wait ends well only with a stack as the object says.
LEMMA WaitStep ==
    ASSUME IInv, NEW c \in Callers, wait(c)
    PROVE  IInv'
<1> DEFINE k == call[c]
           r == res[k.o]
           x == r["stack"]
           n == [k EXCEPT !.step = "outputs"]
<1>1. /\ k # NoCall /\ k.step \in {"waitCreate", "waitUpdate"} /\ IsCall(k)
      /\ k.op = "apply" /\ k.obj.type \in AwsTypes
      /\ k.alone => WorkOK(k, r)
    BY AtStep, StepTells DEF wait
<1>2. UNCHANGED Others
    BY DEF wait, Others, operatorVars, dbVars, historyVars
<1>3. \/ Fails(c)
      \/ /\ Goto(c, "outputs") /\ UNCHANGED res
         /\ x.state = "complete" \/ (k.step = "waitCreate" /\ x.state = "updateRolledBack")
    BY DEF wait, Part, At
<1>4. CASE Fails(c)
    BY <1>1, <1>2, <1>4, FailsKeeps
<1>5. CASE /\ Goto(c, "outputs") /\ UNCHANGED res
           /\ x.state = "complete" \/ (k.step = "waitCreate" /\ x.state = "updateRolledBack")
    <2>1. "outputs" \in StepsOf(k.op, k.obj.type)
        BY <1>1 DEF StepsOf
    <2>2. n.op = k.op /\ n.obj = k.obj /\ n.step = "outputs"
        BY <1>1, <2>1, StepSet
    <2>3. ASSUME k.alone PROVE WorkOK(n, r)
        <3> HIDE DEF n, k, r
        <3>1. ApplyOK(k, r)
            BY <1>1, <2>3 DEF WorkOK
        <3>2. x.state = "complete" /\ x.params \in Parameters(k.obj)
            BY <1>1, <1>5, <3>1 DEF ApplyOK
        <3>3. ApplyOK(n, r)
            BY <2>2, <3>2 DEF ApplyOK
        <3> QED
            BY <1>1, <2>2, <3>3 DEF WorkOK
    <2> QED
        BY <1>1, <1>2, <1>5, <2>1, <2>3, GoKeeps
<1> QED
    BY <1>3, <1>4, <1>5

\* The outputs of the stack become the status.
LEMMA GetStackStep ==
    ASSUME IInv, NEW c \in Callers, GetStack(c)
    PROVE  IInv'
<1> DEFINE k == call[c]
           r == res[k.o]
           step == IF k.obj.type = "awsVPN" THEN "connection" ELSE "store"
           n == StatusSet(k, "stack", r["stack"].id, step)
<1>1. /\ k # NoCall /\ k.step = "outputs" /\ IsCall(k) /\ k.o \in Objects /\ IsParts(r)
      /\ k.op = "apply" /\ k.obj.type \in AwsTypes /\ k.obj.type \in Types
      /\ k.alone => WorkOK(k, r)
    BY AtStep, StepTells DEF GetStack
<1>2. UNCHANGED Others
    BY DEF GetStack, Others, operatorVars, dbVars, historyVars
<1>3. CASE r["stack"] = Nothing
    BY <1>1, <1>2, <1>3, FailsKeeps DEF GetStack, Part
<1>4. CASE r["stack"] # Nothing
    <2>1. GotStatus(c, "stack", step) /\ UNCHANGED res
        BY <1>4 DEF GetStack, Part
    <2>2. /\ step \in StepsOf(k.op, k.obj.type) /\ k.obj.type # "azureVMSS"
          /\ "stack" \in Parts(k.obj.type) /\ "stack" \in AllParts
        BY <1>1, PartsOfType DEF StepsOf, AllParts, AwsTypes
    <2>3. r["stack"].id \in Ids
        <3> HIDE DEF r
        <3> QED
            BY <1>1, <1>4, <2>2 DEF IsParts, IsPart, PartIds
    <2>4. res' = [res EXCEPT ![k.o] = r]
        BY <2>1 DEF IInv, Typed
    <2>5. Filled(n, k, "stack", r["stack"].id, step)
        <3>1. r["stack"].id \in Ids \cup {NoId}
            BY <2>3
        <3> QED
            BY <1>1, <2>2, <3>1, StatusSetIs
    <2>6. Parameters(n.obj) = Parameters(k.obj)
        <3> HIDE DEF n, k
        <3>1. k.obj.type = n.obj.type /\ k.obj.spec = n.obj.spec /\ k.obj.secret = n.obj.secret
            BY <2>5 DEF Filled
        <3> QED
            BY <1>1, <3>1, ParametersSame
    <2>7. ASSUME k.alone PROVE ApplyOK(n, r)
        <3>1. step \in {"connection", "store"}
            OBVIOUS
        <3> HIDE DEF n, k, r, step
        <3>2. ApplyOK(k, r)
            BY <1>1, <2>7 DEF WorkOK
        <3>3. r["stack"].state \in {"complete", "updateRolledBack"} /\ r["stack"].params \in Parameters(n.obj)
            BY <1>1, <2>6, <3>2 DEF ApplyOK
        <3>4. n.step = step /\ n.obj.status["stack"] = r["stack"].id /\ n.obj.type \in AwsTypes
            BY <1>1, <2>5 DEF Filled
        <3>5. n.obj.type # "azureVMSS" /\ n.obj.type # "nebiusVPC"
            BY <3>4 DEF AwsTypes
        <3> QED
            BY <3>1, <3>3, <3>4, <3>5 DEF ApplyOK
    <2> QED
        BY <1>1, <1>2, <2>1, <2>2, <2>3, <2>4, <2>7, StatusKeeps
<1> QED
    BY <1>3, <1>4

\* The connection the status names is that of the stack.
LEMMA GetVpnConnectionStep ==
    ASSUME IInv, NEW c \in Callers, GetVpnConnection(c)
    PROVE  IInv'
<1> DEFINE k == call[c]
           r == res[k.o]
           n == [k EXCEPT !.step = "store"]
<1>1. /\ k # NoCall /\ k.step = "connection" /\ IsCall(k)
      /\ k.op = "apply" /\ k.obj.type \in AwsTypes
      /\ k.alone => WorkOK(k, r)
    BY AtStep, StepTells DEF GetVpnConnection
<1>2. UNCHANGED Others
    BY DEF GetVpnConnection, Others, operatorVars, dbVars, historyVars
<1>3. Fails(c) \/ (Goto(c, "store") /\ UNCHANGED res)
    BY DEF GetVpnConnection
<1>4. CASE Fails(c)
    BY <1>1, <1>2, <1>4, FailsKeeps
<1>5. CASE Goto(c, "store") /\ UNCHANGED res
    <2>1. "store" \in StepsOf(k.op, k.obj.type)
        BY <1>1 DEF StepsOf
    <2>2. n.op = k.op /\ n.obj = k.obj /\ n.step = "store"
        BY <1>1, <2>1, StepSet
    <2>3. ASSUME k.alone PROVE WorkOK(n, r)
        <3> HIDE DEF n, k, r
        <3>1. ApplyOK(k, r)
            BY <1>1, <2>3 DEF WorkOK
        <3>2. /\ r["stack"].state \in {"complete", "updateRolledBack"}
              /\ r["stack"].params \in Parameters(k.obj)
              /\ r["stack"].id = k.obj.status["stack"]
            BY <1>1, <3>1 DEF ApplyOK
        <3>3. n.obj.type # "azureVMSS" /\ n.obj.type # "nebiusVPC"
            BY <1>1, <2>2 DEF AwsTypes
        <3>4. ApplyOK(n, r)
            BY <2>2, <3>2, <3>3 DEF ApplyOK
        <3> QED
            BY <1>1, <2>2, <3>4 DEF WorkOK
    <2> QED
        BY <1>1, <1>2, <1>5, <2>1, <2>3, GoKeeps
<1> QED
    BY <1>3, <1>4, <1>5

\* The scale set is put as the object says.
LEMMA BeginCreateOrUpdateStep ==
    ASSUME IInv, NEW c \in Callers, BeginCreateOrUpdate(c)
    PROVE  IInv'
<1> DEFINE k == call[c]
           r == res[k.o]
           x == r["vmss"]
           n == [k EXCEPT !.step = "poll"]
<1>1. /\ k # NoCall /\ k.step = "put" /\ IsCall(k) /\ k.o \in Objects /\ IsParts(r)
      /\ k.op = "apply" /\ k.obj.type = "azureVMSS"
    BY AtStep, StepTells DEF BeginCreateOrUpdate
<1>2. UNCHANGED Others
    BY DEF BeginCreateOrUpdate, Others, operatorVars, dbVars, historyVars
<1>3. CASE ~(k.obj.spec # placeholder /\ x.state \notin InProgress)
    BY <1>1, <1>2, <1>3, FailsKeeps DEF BeginCreateOrUpdate, Part
<1>4. CASE k.obj.spec # placeholder /\ x.state \notin InProgress
    <2>1. PICK q \in Parameters(k.obj) :
             /\ SetPart(c, "vmss", IF x = Nothing THEN Made("creating", NoId, q) ELSE Replaced(x, NoId, q))
             /\ Goto(c, "poll")
        BY <1>4 DEF BeginCreateOrUpdate, Part
    <2>2. PICK v : v = IF x = Nothing THEN Made("creating", NoId, q) ELSE Replaced(x, NoId, q)
        OBVIOUS
    <2>3. /\ "poll" \in StepsOf(k.op, k.obj.type)
          /\ "vmss" \in Parts(k.obj.type) /\ "vmss" \in AllParts
        BY <1>1, PartsOfType DEF StepsOf, AllParts, AwsTypes
    <2>4. IsPart(x, "vmss")
        BY <1>1, <2>3 DEF IsParts
    <2>5. IsPart(v, "vmss") /\ v.state \in {"creating", "updating"} /\ v.params = q
        <3> HIDE DEF x
        <3>1. CASE x = Nothing
            BY <2>2, <3>1 DEF Made, IsPart, PartStates, PartIds
        <3>2. CASE x # Nothing
            <4>1. x.id = NoId
                BY <2>4, <3>2 DEF IsPart, PartIds
            <4> QED
                BY <2>2, <3>2, <4>1 DEF Replaced, Made, IsPart, PartIds
        <3> QED
            BY <3>1, <3>2
    <2>6. n.op = k.op /\ n.obj = k.obj /\ n.step = "poll"
        BY <1>1, <2>3, StepSet
    <2>7. WorkOK(n, [r EXCEPT !["vmss"] = v])
        <3> DEFINE s == [r EXCEPT !["vmss"] = v]
        <3>1. s["vmss"] = v
            BY <1>1, <2>3 DEF IsParts
        <3>2. q \in Parameters(k.obj)
            BY <2>1
        <3> HIDE DEF n, k, s
        <3>3. ApplyOK(n, s)
            BY <2>5, <2>6, <3>1, <3>2 DEF ApplyOK
        <3> QED
            BY <1>1, <2>6, <3>3 DEF WorkOK, s
    <2> QED
        BY <1>1, <1>2, <2>1, <2>2, <2>3, <2>5, <2>7, SetKeeps
<1> QED
    BY <1>3, <1>4

\* A poll ends well only with a scale set as the object says.
LEMMA PollUntilDoneStep ==
    ASSUME IInv, NEW c \in Callers, PollUntilDone(c)
    PROVE  IInv'
<1> DEFINE k == call[c]
           r == res[k.o]
           n == [k EXCEPT !.step = "store"]
<1>1. /\ k # NoCall /\ k.step = "poll" /\ IsCall(k)
      /\ k.op = "apply" /\ k.obj.type = "azureVMSS"
      /\ k.alone => WorkOK(k, r)
    BY AtStep, StepTells DEF PollUntilDone
<1>2. UNCHANGED Others
    BY DEF PollUntilDone, Others, operatorVars, dbVars, historyVars
<1>3. Fails(c) \/ (r["vmss"].state = "complete" /\ Goto(c, "store") /\ UNCHANGED res)
    BY DEF PollUntilDone, Part
<1>4. CASE Fails(c)
    BY <1>1, <1>2, <1>4, FailsKeeps
<1>5. CASE r["vmss"].state = "complete" /\ Goto(c, "store") /\ UNCHANGED res
    <2>1. "store" \in StepsOf(k.op, k.obj.type)
        BY <1>1 DEF StepsOf
    <2>2. n.op = k.op /\ n.obj = k.obj /\ n.step = "store"
        BY <1>1, <2>1, StepSet
    <2>3. ASSUME k.alone PROVE WorkOK(n, r)
        <3> HIDE DEF n, k, r
        <3>1. ApplyOK(k, r)
            BY <1>1, <2>3 DEF WorkOK
        <3>2. r["vmss"].params \in Parameters(k.obj)
            BY <1>1, <3>1 DEF ApplyOK
        <3>3. ApplyOK(n, r)
            BY <1>1, <1>5, <2>2, <3>2 DEF ApplyOK, AwsTypes
        <3> QED
            BY <1>1, <2>2, <3>3 DEF WorkOK
    <2> QED
        BY <1>1, <1>2, <1>5, <2>1, <2>3, GoKeeps
<1> QED
    BY <1>3, <1>4, <1>5

\* A nebius resource is found or made, and its ID becomes part of the status.
LEMMA NebiusCreateOrUpdateStep ==
    ASSUME IInv, NEW c \in Callers, NEW p, NEW next,
           \/ p = "pool" /\ next = "network"
           \/ p = "network" /\ next = "subnet"
           \/ p = "subnet" /\ next = "store",
           nebiusCreateOrUpdate(c, p, next)
    PROVE  IInv'
<1> DEFINE k == call[c]
           r == res[k.o]
<1>1. /\ k # NoCall /\ k.step = p /\ IsCall(k) /\ k.o \in Objects /\ IsParts(r)
      /\ k.op = "apply" /\ k.obj.type = "nebiusVPC"
      /\ k.alone => WorkOK(k, r)
    BY AtStep, StepTells DEF nebiusCreateOrUpdate
<1>2. UNCHANGED Others
    BY DEF nebiusCreateOrUpdate, Others, operatorVars, dbVars, historyVars
<1>3. /\ next \in StepsOf(k.op, k.obj.type) /\ k.obj.type # "azureVMSS"
      /\ p \in Parts(k.obj.type) /\ p \in AllParts
      /\ p \notin {"stack", "vmss"}
    BY <1>1, PartsOfType DEF StepsOf, AllParts, AwsTypes
<1>4. ASSUME NEW s, IsParts(s), s[p] # Nothing, \A q \in AllParts \ {p} : s[q] = r[q],
             res' = [res EXCEPT ![k.o] = s], GotStatus(c, p, next)
      PROVE  IInv'
    <2> DEFINE n == StatusSet(k, p, s[p].id, next)
    <2>1. s[p].id \in Ids
        BY <1>3, <1>4 DEF IsParts, IsPart, PartIds
    <2>2. Filled(n, k, p, s[p].id, next)
        <3>1. s[p].id \in Ids \cup {NoId}
            BY <2>1
        <3> QED
            BY <1>1, <1>3, <3>1, StatusSetIs
    <2>3. ASSUME k.alone PROVE ApplyOK(n, s)
        <3>1. Parts(k.obj.type) = {"pool", "network", "subnet"}
            BY <1>1, PartsOfType
        <3>2. \A q \in AllParts \ {p} : s[q] = r[q]
            BY <1>4
        <3> HIDE DEF n, k, r
        <3>3. ApplyOK(k, r)
            BY <1>1, <2>3 DEF WorkOK
        <3>4. /\ n.step = next /\ n.obj.type = "nebiusVPC" /\ n.obj.status[p] = s[p].id
              /\ \A q \in {"pool", "network", "subnet"} \ {p} : n.obj.status[q] = k.obj.status[q]
            BY <1>1, <2>2, <3>1 DEF Filled
        <3>5. /\ p \in {"network", "subnet"} => r["pool"] # Nothing /\ r["pool"].id = k.obj.status["pool"]
              /\ p = "subnet" => r["network"] # Nothing /\ r["network"].id = k.obj.status["network"]
            BY <1>1, <3>3 DEF ApplyOK
        <3>6. /\ s["pool"] # Nothing /\ s["pool"].id = n.obj.status["pool"]
              /\ p \in {"network", "subnet"} =>
                    s["network"] # Nothing /\ s["network"].id = n.obj.status["network"]
              /\ p = "subnet" => s["subnet"] # Nothing /\ s["subnet"].id = n.obj.status["subnet"]
            BY <1>4, <3>2, <3>4, <3>5 DEF AllParts
        <3> QED
            BY <3>4, <3>6 DEF ApplyOK, AwsTypes
    <2> QED
        BY <1>1, <1>2, <1>3, <1>4, <2>1, <2>3, StatusKeeps
<1>5. CASE Found(c, p) /\ UNCHANGED res /\ GotStatus(c, p, next)
    <2>1. r[p] # Nothing
        BY <1>5 DEF Found, Part
    <2>2. res' = [res EXCEPT ![k.o] = r]
        BY <1>5 DEF IInv, Typed
    <2> QED
        BY <1>1, <1>4, <1>5, <2>1, <2>2
<1>6. ASSUME NEW q, SetPart(c, p, Made("complete", FreshId(k.o, p), q)), GotStatus(c, p, next)
      PROVE  IInv'
    <2>1. PICK v : v = Made("complete", FreshId(k.o, p), q)
        OBVIOUS
    <2>2. FreshId(k.o, p) \in Ids
        BY <1>1, FreshIdType
    <2>3. IsPart(v, p) /\ v # Nothing
        BY <1>3, <2>1, <2>2 DEF IsPart, Made, PartStates, PartIds, Nothing
    <2>4. PICK s : s = [r EXCEPT ![p] = v]
        OBVIOUS
    <2>5. IsParts(s) /\ s[p] = v /\ \A x \in AllParts \ {p} : s[x] = r[x]
        BY <1>1, <1>3, <2>3, <2>4, PartSet
    <2>6. res' = [res EXCEPT ![k.o] = s]
        BY <1>1, <1>6, <2>1, <2>4 DEF SetPart, IInv, Typed
    <2> QED
        BY <1>4, <1>6, <2>3, <2>5, <2>6
<1>7. CASE Fails(c)
    BY <1>1, <1>2, <1>7, FailsKeeps
<1> QED
    BY <1>5, <1>6, <1>7 DEF nebiusCreateOrUpdate

-----------------------------------------------------------------------------
\* The back end of the type reads the record again.
LEMMA LoadRecordStep ==
    ASSUME IInv, NEW c \in Callers, NEW type, NEW next,
           \/ type \in AwsTypes /\ next = "deleteStack"
           \/ type = "azureVMSS" /\ next = "beginDelete"
           \/ type = "nebiusVPC" /\ next = "deleteSubnet",
           LoadRecord(c, type, next)
    PROVE  IInv'
<1> DEFINE k == call[c]
           r == res[k.o]
           m == db[k.o]
<1>1. /\ k # NoCall /\ k.step = "load" /\ IsCall(k) /\ k.o \in Objects /\ IsParts(r)
      /\ k.op = "delete" /\ k.obj.type = type /\ type \in Types
      /\ k.alone => WorkOK(k, r)
    BY AtStep, StepTells DEF LoadRecord
<1>2. UNCHANGED Others /\ UNCHANGED res
    BY DEF LoadRecord, Others, operatorVars, dbVars, historyVars
<1>5. CASE call' = [call EXCEPT ![c].step = "drop", ![c].alone = FALSE]
    <2> DEFINE n == [op |-> k.op, o |-> k.o, obj |-> k.obj, step |-> "drop", alone |-> FALSE]
    <2>1. call' = [call EXCEPT ![c] = [k EXCEPT !.step = "drop", !.alone = FALSE]]
        BY <1>5 DEF IInv, Typed
    <2>2. [k EXCEPT !.step = "drop", !.alone = FALSE] = n
        <3>1. k = [op |-> k.op, o |-> k.o, obj |-> k.obj, step |-> k.step, alone |-> k.alone]
            BY <1>1 DEF IsCall
        <3>2. [k EXCEPT !.step = "drop"] =
                  [op |-> k.op, o |-> k.o, obj |-> k.obj, step |-> "drop", alone |-> k.alone]
            BY <3>1
        <3>3. [k EXCEPT !.step = "drop", !.alone = FALSE] = [[k EXCEPT !.step = "drop"] EXCEPT !.alone = FALSE]
            OBVIOUS
        <3>4. ASSUME NEW x
              PROVE  [[op |-> k.op, o |-> k.o, obj |-> k.obj, step |-> "drop", alone |-> k.alone]
                          EXCEPT !.alone = x] =
                        [op |-> k.op, o |-> k.o, obj |-> k.obj, step |-> "drop", alone |-> x]
            OBVIOUS
        <3> QED
            BY <3>2, <3>3, <3>4, Zenon
    <2>3. n.op = k.op /\ n.o = k.o /\ n.obj = k.obj /\ n.step = "drop" /\ ~n.alone
        OBVIOUS
    <2>4. "drop" \in StepsOf(k.op, k.obj.type)
        BY <1>1 DEF StepsOf
    <2>5. IsCall(n)
        BY <1>1, <2>4 DEF IsCall
    <2>6. res' = [res EXCEPT ![k.o] = r]
        BY <1>2 DEF IInv, Typed
    <2>7. Moves(k, n, r, r)
        <3> HIDE DEF n, r
        <3> QED
            BY <1>1, <2>3, <2>5 DEF Moves
    <2>8. call' = [call EXCEPT ![c] = n]
        BY <2>1, <2>2
    <2> HIDE DEF n
    <2> QED
        BY <1>1, <1>2, <2>6, <2>7, <2>8, MovesKeep
<1>6. CASE call' = [call EXCEPT ![c] = NoCall]
    BY <1>1, <1>2, <1>6, FailsKeeps DEF Fails
<1>7. CASE m # NoRecord /\ m.type = type /\ call' = [call EXCEPT ![c].obj = m, ![c].step = next]
    <2> DEFINE n == [op |-> k.op, o |-> k.o, obj |-> m, step |-> next, alone |-> k.alone]
    <2>1. call' = [call EXCEPT ![c] = [k EXCEPT !.obj = m, !.step = next]]
        BY <1>7 DEF IInv, Typed
    <2>2. [k EXCEPT !.obj = m, !.step = next] = n
        <3>1. IsCall(k)
            BY <1>1
        <3>2. ASSUME NEW x
              PROVE  [k EXCEPT !.obj = x, !.step = next] =
                        [op |-> k.op, o |-> k.o, obj |-> x, step |-> next, alone |-> k.alone]
            BY <3>1, CallSet, Zenon
        <3> QED
            BY <3>2, Zenon
    <2>3. n.op = k.op /\ n.o = k.o /\ n.obj = m /\ n.step = next /\ n.alone = k.alone
        OBVIOUS
    <2>4. IsMessage(m, ServiceOf[k.o])
        BY <1>1, <1>7 DEF IInv, Typed
    <2>5. next \in StepsOf(k.op, m.type) /\ next # "drop"
        BY <1>1, <1>7 DEF StepsOf, AwsTypes
    <2>6. IsCall(n)
        BY <1>1, <2>4, <2>5 DEF IsCall
    <2>7. WorkOK(n, r)
        <3>1. n.o = k.o /\ db[n.o] = n.obj
            OBVIOUS
        <3>2. next \notin {"deleteNetwork", "deletePool", "drop"}
            BY <1>1
        <3> HIDE DEF n, r
        <3>3. DeleteOK(n, r, db[n.o], pending[n.o])
            BY <2>3, <3>1, <3>2 DEF DeleteOK, Doubted
        <3> QED
            BY <1>1, <2>3, <3>3 DEF WorkOK
    <2>8. res' = [res EXCEPT ![k.o] = r]
        BY <1>2 DEF IInv, Typed
    <2>9. Moves(k, n, r, r)
        <3> HIDE DEF n, r
        <3> QED
            BY <1>1, <1>7, <2>3, <2>6, <2>7 DEF Moves
    <2>10. call' = [call EXCEPT ![c] = n]
        BY <2>1, <2>2
    <2> HIDE DEF n
    <2> QED
        BY <1>1, <1>2, <2>8, <2>9, <2>10, MovesKeep
<1> QED
    BY <1>5, <1>6, <1>7 DEF LoadRecord

\* A stack or a scale set is asked to go.
LEMMA RequestDeleteStep ==
    ASSUME IInv, NEW c \in Callers, call[c] # NoCall, call[c].op = "delete", UNCHANGED Others,
           NEW p, NEW step,
           \/ p = "stack" /\ step = "waitDelete" /\ call[c].obj.type \in AwsTypes
           \/ p = "vmss" /\ step = "pollDelete" /\ call[c].obj.type = "azureVMSS",
           RequestDelete(c, p, step)
    PROVE  IInv'
<1> DEFINE k == call[c]
           r == res[k.o]
           x == r[p]
           n == [k EXCEPT !.step = step]
<1>1. /\ IsCall(k) /\ k.o \in Objects /\ IsParts(r)
      /\ k.alone => WorkOK(k, r)
    BY DEF IInv, Typed, IsCall, AloneWork
<1>2. /\ step \in StepsOf(k.op, k.obj.type)
      /\ p \in Parts(k.obj.type) /\ p \in AllParts
    BY PartsOfType DEF StepsOf, AllParts, AwsTypes
<1>3. n.op = k.op /\ n.o = k.o /\ n.obj = k.obj /\ n.step = step
    BY <1>1, <1>2, StepSet
<1>4. ASSUME NEW s, k.alone PROVE WorkOK(n, s)
    <2>1. step \notin {"deleteNetwork", "deletePool", "drop"} /\ k.op = "delete"
        OBVIOUS
    <2> HIDE DEF n, k, r
    <2>2. Doubted(n.obj, db[n.o], pending[n.o])
        BY <1>1, <1>3, <1>4, <2>1 DEF WorkOK, DeleteOK
    <2>3. DeleteOK(n, s, db[n.o], pending[n.o])
        BY <1>3, <2>1, <2>2 DEF DeleteOK
    <2> QED
        BY <1>3, <2>1, <2>3 DEF WorkOK
<1>5. CASE Fails(c)
    BY <1>5, FailsKeeps
<1>6. CASE Goto(c, step) /\ UNCHANGED res
    BY <1>2, <1>4, <1>6, GoKeeps
<1>7. CASE /\ x.state \notin {"none", "updating"}
           /\ SetPart(c, p, [x EXCEPT !.state = "deleting"]) /\ Goto(c, step)
    <2>1. IsPart(x, p)
        BY <1>1, <1>2 DEF IsParts
    <2>2. PICK v : v = [x EXCEPT !.state = "deleting"]
        OBVIOUS
    <2>3. x # Nothing /\ x = Made(x.state, x.id, x.params) /\ x.id \in PartIds(p)
        <3> HIDE DEF x
        <3> QED
            BY <1>7, <2>1 DEF IsPart, Nothing
    <2>4. v = Made("deleting", x.id, x.params)
        <3> HIDE DEF x
        <3> QED
            BY <2>2, <2>3 DEF Made
    <2>5. IsPart(v, p) /\ v.id = x.id
        <3> HIDE DEF x
        <3> QED
            BY <2>3, <2>4 DEF IsPart, Made, PartStates
    <2>6. Part(c, p) # Nothing /\ v.id = Part(c, p).id
        BY <2>3, <2>5 DEF Part
    <2> QED
        BY <1>2, <1>4, <1>7, <2>2, <2>5, <2>6, SetKeeps
<1> QED
    BY <1>5, <1>6, <1>7 DEF RequestDelete, Part

\* ... and is gone when the wait for it has ended well.
LEMMA AwaitDeleteStep ==
    ASSUME IInv, NEW c \in Callers, call[c] # NoCall, call[c].op = "delete", UNCHANGED Others,
           NEW p,
           \/ p = "stack" /\ call[c].obj.type \in AwsTypes
           \/ p = "vmss" /\ call[c].obj.type = "azureVMSS",
           AwaitDelete(c, p)
    PROVE  IInv'
<1> DEFINE k == call[c]
           r == res[k.o]
           n == [k EXCEPT !.step = "drop"]
<1>1. /\ IsCall(k) /\ k.o \in Objects /\ IsParts(r)
      /\ k.alone => WorkOK(k, r)
    BY DEF IInv, Typed, IsCall, AloneWork
<1>2. "drop" \in StepsOf(k.op, k.obj.type) /\ Parts(k.obj.type) = {p} /\ k.obj.type # "nebiusVPC"
    BY PartsOfType DEF StepsOf, AwsTypes
<1>3. n.op = k.op /\ n.o = k.o /\ n.obj = k.obj /\ n.step = "drop"
    BY <1>1, <1>2, StepSet
<1>4. CASE Fails(c)
    BY <1>4, FailsKeeps
<1>5. CASE r[p] = Nothing /\ Goto(c, "drop") /\ UNCHANGED res
    <2>1. ASSUME k.alone PROVE WorkOK(n, r)
        <3>1. k.op = "delete"
            OBVIOUS
        <3> HIDE DEF n, k, r
        <3>2. Doubted(n.obj, db[n.o], pending[n.o])
            BY <1>1, <1>3, <2>1, <3>1 DEF WorkOK, DeleteOK
        <3>3. DeleteOK(n, r, db[n.o], pending[n.o])
            BY <1>2, <1>3, <1>5, <3>2 DEF DeleteOK
        <3> QED
            BY <1>3, <3>1, <3>3 DEF WorkOK
    <2> QED
        BY <1>2, <1>5, <2>1, GoKeeps
<1> QED
    BY <1>4, <1>5 DEF AwaitDelete, Part

\* A nebius resource that goes by the ID on record is gone then, if it has that ID.
LEMMA NebiusDeleteStep ==
    ASSUME IInv, NEW c \in Callers, NEW p, NEW next,
           \/ p = "subnet" /\ next = "deleteNetwork" /\ At(c, "deleteSubnet")
           \/ p = "network" /\ next = "deletePool" /\ At(c, "deleteNetwork")
           \/ p = "pool" /\ next = "drop" /\ At(c, "deletePool"),
           UNCHANGED Others,
           nebiusDelete(c, p, next)
    PROVE  IInv'
<1> DEFINE k == call[c]
           r == res[k.o]
           n == [k EXCEPT !.step = next]
           there == r[p] # Nothing /\ r[p].id = k.obj.status[p]
<1>1. /\ k # NoCall /\ IsCall(k) /\ k.o \in Objects /\ IsParts(r)
      /\ k.op = "delete" /\ k.obj.type = "nebiusVPC"
      /\ \/ p = "subnet" /\ next = "deleteNetwork" /\ k.step = "deleteSubnet"
         \/ p = "network" /\ next = "deletePool" /\ k.step = "deleteNetwork"
         \/ p = "pool" /\ next = "drop" /\ k.step = "deletePool"
      /\ k.alone => WorkOK(k, r)
    BY AtStep, StepTells
<1>2. /\ next \in StepsOf(k.op, k.obj.type)
      /\ p \in Parts(k.obj.type) /\ p \in AllParts /\ p \in Parts("nebiusVPC")
    BY <1>1, PartsOfType DEF StepsOf, AllParts, AwsTypes
<1>3. n.op = k.op /\ n.o = k.o /\ n.obj = k.obj /\ n.step = next
    BY <1>1, <1>2, StepSet
<1>4. ASSUME NEW s, k.alone, \A q \in AllParts \ {p} : s[q] = r[q],
             "nebiusVPC" \notin pending[k.o] => s[p] = Nothing
      PROVE  WorkOK(n, s)
    <2> HIDE DEF n, k, r
    <2>1. DeleteOK(k, r, db[k.o], pending[k.o])
        BY <1>1, <1>4 DEF WorkOK
    <2>2. Doubted(n.obj, db[n.o], pending[n.o])
        BY <1>3, <2>1 DEF DeleteOK
    <2>3. \A q \in AllParts \ {p} : s[q] = r[q]
        BY <1>4
    <2>4. "nebiusVPC" \notin pending[k.o] =>
             /\ p \in {"network", "pool"} => s["subnet"] = Nothing
             /\ p = "pool" => s["network"] = Nothing
        BY <1>1, <2>1, <2>3 DEF DeleteOK, AllParts
    <2>5. DeleteOK(n, s, db[n.o], pending[n.o])
        BY <1>1, <1>3, <1>4, <2>2, <2>4 DEF DeleteOK, ByName
    <2> QED
        BY <1>1, <1>3, <2>5 DEF WorkOK
<1>5. CASE Fails(c)
    BY <1>1, <1>5, FailsKeeps
<1>6. CASE ~there /\ Goto(c, next) /\ UNCHANGED res
    <2>1. ASSUME k.alone, "nebiusVPC" \notin pending[k.o] PROVE r[p] = Nothing
        <3>1. db[k.o] = k.obj
            BY <1>1, <2>1 DEF WorkOK, DeleteOK, Doubted, Types
        <3>2. Recorded(k.o)
            BY <1>1, <3>1 DEF Recorded, NoRecord
        <3>3. NebiusKnown
            BY DEF IInv
        <3>4. r[p] # Nothing => r[p].id = k.obj.status[p]
            BY <1>1, <1>2, <2>1, <3>1, <3>2, <3>3 DEF NebiusKnown, Exists
        <3> QED
            BY <1>6, <3>4
    <2>2. ASSUME k.alone PROVE WorkOK(n, r)
        <3> HIDE DEF n, k, r
        <3> QED
            BY <1>4, <2>1, <2>2
    <2> QED
        BY <1>1, <1>2, <1>6, <2>2, GoKeeps
<1>7. CASE there /\ SetPart(c, p, Nothing) /\ Goto(c, next)
    <2>1. IsPart(Nothing, p)
        BY DEF IsPart
    <2>2. ASSUME k.alone PROVE WorkOK(n, [r EXCEPT ![p] = Nothing])
        <3>1. PICK s : s = [r EXCEPT ![p] = Nothing]
            OBVIOUS
        <3>2. s[p] = Nothing /\ \A q \in AllParts \ {p} : s[q] = r[q]
            BY <1>1, <1>2, <3>1 DEF IsParts
        <3>3. WorkOK(n, s)
            <4> HIDE DEF n, k, r
            <4> QED
                BY <1>4, <2>2, <3>2
        <3> QED
            BY <3>1, <3>3
    <2> QED
        BY <1>1, <1>2, <1>7, <2>1, <2>2, SetKeeps
<1> QED
    BY <1>5, <1>6, <1>7 DEF nebiusDelete, Part

-----------------------------------------------------------------------------
(* The ends of calls.                                                      *)

\* What has to hold of the object x, once the call c has ended, with the record
\* rec, the pending types pend and the damage dam.
KeptBy(c, x, rec, pend, dam) ==
    /\ rec = NoRecord \/ IsMessage(rec, ServiceOf[x])
    /\ pend \in SUBSET Types /\ dam \in BOOLEAN
    /\ \A t \in TypesOf(ServiceOf[x]) : \A p \in Parts(t) :
          Exists(x, p) => t \in pend \/ (rec # NoRecord /\ rec.type = t)
    /\ rec # NoRecord /\ rec.type = "nebiusVPC" /\ rec.type \notin pend =>
          \A p \in Parts("nebiusVPC") : Exists(x, p) => res[x][p].id = rec.status[p]
    /\ rec # NoRecord /\ ~dam /\ rec.type \notin pend =>
          \A p \in Parts(rec.type) :
              /\ res[x][p].state \in {"complete", "updateRolledBack"}
              /\ res[x][p].id = rec.status[p]
              /\ rec.type # "nebiusVPC" => res[x][p].params \in Parameters(rec)
    /\ \A d \in Callers \ {c} :
          /\ x \in DOMAIN list[d] => Doubted(list[d][x], rec, pend)
          /\ call[d] # NoCall /\ call[d].o = x =>
                /\ call[d].op = "apply" => call[d].obj.type \in pend
                /\ call[d].op = "delete" /\ rec # NoRecord => dam \/ rec.type \in pend
                /\ call[d].op = "delete" /\ call[d].alone => DeleteOK(call[d], res[x], rec, pend)

\* The end of a call preserves the invariant if it holds of every object.
LEMMA EndKeeps ==
    ASSUME IInv, NEW c \in Callers,
           call' = [call EXCEPT ![c] = NoCall], list' = [list EXCEPT ![c] = NoList],
           goal' \in [Objects -> {"none", "present", "absent"}], faults' \in Nat,
           UNCHANGED <<file, res>>,
           db' = [x \in Objects |-> db'[x]],
           pending' = [x \in Objects |-> pending'[x]],
           damaged' = [x \in Objects |-> damaged'[x]],
           \A x \in Objects : KeptBy(c, x, db'[x], pending'[x], damaged'[x])
    PROVE  IInv'
<1>1. Typed /\ AloneOK /\ AloneWork
    BY DEF IInv
<1>2. call' = [d \in Callers |-> IF d = c THEN NoCall ELSE call[d]]
    BY <1>1 DEF Typed
<1>3. list' = [d \in Callers |-> IF d = c THEN NoList ELSE list[d]]
    BY <1>1 DEF Typed
<1>4. DOMAIN NoList = {}
    BY DEF NoList
<1>5. ASSUME NEW x \in Objects
      PROVE  /\ db'[x] = NoRecord \/ IsMessage(db'[x], ServiceOf[x])
             /\ pending'[x] \in SUBSET Types /\ damaged'[x] \in BOOLEAN
    BY DEF KeptBy
<1>6. Typed'
    <2>1. pending' \in [Objects -> SUBSET Types]
        BY <1>5
    <2>2. damaged' \in [Objects -> BOOLEAN]
        BY <1>5
    <2>3. /\ list' = [d \in Callers |-> list'[d]]
          /\ \A d \in Callers : \A x \in DOMAIN list'[d] :
                x \in Objects /\ (list'[d][x] = NoRecord \/ IsMessage(list'[d][x], ServiceOf[x]))
        BY <1>1, <1>3, <1>4 DEF Typed
    <2>4. call' = [d \in Callers |-> call'[d]] /\ \A d \in Callers : call'[d] = NoCall \/ IsCall(call'[d])
        BY <1>1, <1>2 DEF Typed
    <2> QED
        BY <1>1, <1>5, <2>1, <2>2, <2>3, <2>4 DEF Typed
<1>7. AloneOK'
    BY <1>1, <1>2 DEF AloneOK
<1>8. ASSUME NEW d \in Callers, call'[d] # NoCall
      PROVE  /\ d # c /\ call'[d] = call[d] /\ call[d] # NoCall /\ call[d].o \in Objects
             /\ call[d].op \in {"apply", "delete"}
    BY <1>1, <1>2, <1>8 DEF Typed, IsCall
<1>9. ASSUME NEW d \in Callers, call'[d] # NoCall
      PROVE  LET x == call[d].o IN
             /\ call[d].op = "apply" => call[d].obj.type \in pending'[x]
             /\ call[d].op = "delete" /\ db'[x] # NoRecord => damaged'[x] \/ db'[x].type \in pending'[x]
             /\ call[d].op = "delete" /\ call[d].alone => DeleteOK(call[d], res[x], db'[x], pending'[x])
    <2>1. PICK x \in Objects : x = call[d].o
        BY <1>8, <1>9
    <2>2. KeptBy(c, x, db'[x], pending'[x], damaged'[x])
        OBVIOUS
    <2>3. d \in Callers \ {c} /\ call[d] # NoCall
        BY <1>8, <1>9
    <2> QED
        BY <2>1, <2>2, <2>3, Zenon DEF KeptBy
<1>10. ApplyPending' /\ DeleteDamages'
    BY <1>8, <1>9 DEF ApplyPending, DeleteDamages, Recorded
<1>11. ListKnown'
    <2>1. ASSUME NEW d \in Callers, NEW x \in DOMAIN list'[d]
          PROVE  Doubted(list'[d][x], db'[x], pending'[x])
        <3>1. d \in Callers \ {c} /\ list'[d] = list[d] /\ x \in DOMAIN list[d]
            BY <1>3, <1>4, <2>1
        <3>2. x \in Objects
            BY <1>1, <3>1 DEF Typed
        <3> QED
            BY <3>1, <3>2 DEF KeptBy
    <2> QED
        BY <2>1 DEF ListKnown
<1>12. Covered'
    BY DEF KeptBy, Covered, Exists, Recorded
<1>13. AloneWork'
    <2>1. ASSUME NEW d \in Callers, call'[d] # NoCall, call'[d].alone
          PROVE  WorkOK(call[d], res[call[d].o])'
        <3>1. /\ d # c /\ call'[d] = call[d] /\ call[d] # NoCall /\ call[d].o \in Objects
              /\ call[d].op \in {"apply", "delete"}
            BY <1>8, <2>1
        <3>2. WorkOK(call[d], res[call[d].o])
            BY <1>1, <2>1, <3>1 DEF AloneWork
        <3>3. CASE call[d].op = "apply"
            BY <3>1, <3>2, <3>3 DEF WorkOK
        <3>4. CASE call[d].op = "delete"
            <4>1. DeleteOK(call[d], res[call[d].o], db'[call[d].o], pending'[call[d].o])
                BY <1>9, <2>1, <3>1, <3>4
            <4> QED
                BY <3>1, <3>4, <4>1 DEF WorkOK
        <3> QED
            BY <3>1, <3>3, <3>4
    <2> QED
        BY <2>1 DEF AloneWork
<1>14. NebiusKnown'
    BY DEF KeptBy, NebiusKnown, Exists, Recorded
<1>15. RecordBacked'
    BY DEF KeptBy, RecordBacked, Recorded
<1> QED
    BY <1>6, <1>7, <1>10, <1>11, <1>12, <1>13, <1>14, <1>15 DEF IInv

\* It holds of an object whose record stays, or is replaced by one in doubt.
LEMMA DoubtedKept ==
    ASSUME IInv, NEW c \in Callers, NEW x \in Objects, NEW rec, NEW pend,
           rec = NoRecord \/ IsMessage(rec, ServiceOf[x]), pend \in SUBSET Types,
           pending[x] \subseteq pend, Doubted(rec, db[x], pend)
    PROVE  KeptBy(c, x, rec, pend, damaged[x])
<1>1. /\ Typed /\ ApplyPending /\ DeleteDamages /\ ListKnown /\ Covered
      /\ AloneWork /\ NebiusKnown /\ RecordBacked
    BY DEF IInv
<1>2. damaged[x] \in BOOLEAN
    BY <1>1 DEF Typed
<1>3. /\ rec # NoRecord => rec.type \in Types
      /\ Recorded(x) => db[x].type \in Types
    BY <1>1, TypesOfService, ObjectsAssumption DEF Typed, Recorded, IsMessage
<1>4. /\ rec # db[x] /\ rec # NoRecord => rec.type \in pend
      /\ rec # db[x] /\ Recorded(x) => db[x].type \in pend
    BY <1>3 DEF Doubted
<1>5. ASSUME NEW t \in TypesOf(ServiceOf[x]), NEW p \in Parts(t), Exists(x, p)
      PROVE  t \in pend \/ (rec # NoRecord /\ rec.type = t)
    <2>1. t \in pending[x] \/ (Recorded(x) /\ db[x].type = t)
        BY <1>1, <1>5 DEF Covered
    <2> QED
        BY <1>4, <2>1 DEF Recorded
<1>6. ASSUME rec # NoRecord, rec.type = "nebiusVPC", rec.type \notin pend,
             NEW p \in Parts("nebiusVPC"), Exists(x, p)
      PROVE  res[x][p].id = rec.status[p]
    <2>1. rec = db[x] /\ Recorded(x) /\ rec.type \notin pending[x]
        BY <1>4, <1>6 DEF Recorded
    <2> QED
        BY <1>1, <1>6, <2>1 DEF NebiusKnown
<1>7. ASSUME rec # NoRecord, ~damaged[x], rec.type \notin pend, NEW p \in Parts(rec.type)
      PROVE  /\ res[x][p].state \in {"complete", "updateRolledBack"}
             /\ res[x][p].id = rec.status[p]
             /\ rec.type # "nebiusVPC" => res[x][p].params \in Parameters(rec)
    <2>1. rec = db[x] /\ Recorded(x) /\ rec.type \notin pending[x]
        BY <1>4, <1>7 DEF Recorded
    <2> QED
        BY <1>1, <1>7, <2>1 DEF RecordBacked
<1>8. ASSUME NEW y, Doubted(y, db[x], pending[x]) PROVE Doubted(y, rec, pend)
    <2>1. y # db[x] => {y.type, db[x].type} \cap Types \subseteq pend
        BY <1>8 DEF Doubted
    <2>2. rec # db[x] => {rec.type, db[x].type} \cap Types \subseteq pend
        BY DEF Doubted
    <2> QED
        BY <2>1, <2>2 DEF Doubted
<1>9. ASSUME NEW d \in Callers, x \in DOMAIN list[d] PROVE Doubted(list[d][x], rec, pend)
    BY <1>1, <1>8, <1>9 DEF ListKnown
<1>10. ASSUME NEW d \in Callers, call[d] # NoCall, call[d].o = x
       PROVE  /\ call[d].op = "apply" => call[d].obj.type \in pend
              /\ call[d].op = "delete" /\ rec # NoRecord => damaged[x] \/ rec.type \in pend
              /\ call[d].op = "delete" /\ call[d].alone => DeleteOK(call[d], res[x], rec, pend)
    <2>1. call[d].op = "apply" => call[d].obj.type \in pend
        BY <1>1, <1>10 DEF ApplyPending
    <2>2. call[d].op = "delete" /\ rec # NoRecord => damaged[x] \/ rec.type \in pend
        BY <1>1, <1>4, <1>10 DEF DeleteDamages, Recorded
    <2>3. ASSUME call[d].op = "delete", call[d].alone PROVE DeleteOK(call[d], res[x], rec, pend)
        <3>1. DeleteOK(call[d], res[x], db[x], pending[x])
            BY <1>1, <1>10, <2>3 DEF AloneWork, WorkOK
        <3>2. Doubted(call[d].obj, rec, pend)
            BY <1>8, <3>1 DEF DeleteOK
        <3> QED
            BY <3>1, <3>2 DEF DeleteOK
    <2> QED
        BY <2>1, <2>2, <2>3
<1> QED
    BY <1>2, <1>5, <1>6, <1>7, <1>9, <1>10 DEF KeptBy

\* A list that is written back leaves other objects with records in doubt.
LEMMA WrittenBack ==
    ASSUME IInv, NEW c \in Callers, NEW x \in Objects, NEW rec,
           rec = IF x \in DOMAIN list[c] THEN list[c][x] ELSE db[x]
    PROVE  KeptBy(c, x, rec, pending[x], damaged[x])
<1>1. Typed /\ ListKnown
    BY DEF IInv
<1>2. rec = NoRecord \/ IsMessage(rec, ServiceOf[x])
    BY <1>1 DEF Typed
<1>3. Doubted(rec, db[x], pending[x])
    <2>1. CASE x \in DOMAIN list[c]
        BY <1>1, <2>1 DEF ListKnown
    <2>2. CASE x \notin DOMAIN list[c]
        BY <2>2 DEF Doubted
    <2> QED
        BY <2>1, <2>2
<1>4. pending[x] \in SUBSET Types
    BY <1>1 DEF Typed
<1> QED
    BY <1>2, <1>3, <1>4, DoubtedKept

\* What other calls will put back of the object is pending.
LEMMA PutBackDoubted ==
    ASSUME NEW c \in Callers, NEW d \in Callers \ {c}, call[c].o \in DOMAIN list[d],
           NEW rec, rec = call[c].obj \/ rec = NoRecord, NEW pend, PutBack(c) \subseteq pend
    PROVE  Doubted(list[d][call[c].o], rec, pend)
<1>1. d \in Overlapping(c)
    BY DEF Overlapping
<1>2. Types \cap {call[c].obj.type, list[d][call[c].o].type} \subseteq PutBack(c)
    BY <1>1 DEF PutBack
<1>3. NoRecord.type \notin Types
    BY DEF NoRecord, Types
<1> QED
    BY <1>2, <1>3 DEF Doubted

\* What is stored backs the record, if the call was alone.
LEMMA StoreStep ==
    ASSUME IInv, NEW c \in Callers, Store(c)
    PROVE  IInv'
<1> DEFINE k == call[c]
           o == k.o
           m == k.obj
           type == m.type
           r == res[o]
           others == IF Recorded(o) /\ db[o].type # type THEN {db[o].type} ELSE {}
           pend == PutBack(c) \cup others \cup IF k.alone THEN pending[o] \ {type} ELSE pending[o]
<1>1. /\ k # NoCall /\ k.step = "store" /\ IsCall(k) /\ o \in Objects /\ IsParts(r)
      /\ k.op = "apply" /\ type \in Types
      /\ k.alone => WorkOK(k, r)
    BY AtStep, StepTells DEF Store
<1>2. Typed /\ AloneOK /\ ApplyPending /\ Covered
    BY DEF IInv
<1>3. /\ IsMessage(m, ServiceOf[o]) /\ ServiceOf[o] \in Services /\ m # NoRecord
      /\ type \in TypesOf(ServiceOf[o])
    BY <1>1, ObjectsAssumption DEF IsCall, IsMessage, NoRecord, Types
<1>4. k.alone \in BOOLEAN
    BY <1>1 DEF IsCall
<1>5. type \in pending[o]
    BY <1>1, <1>2 DEF ApplyPending
<1>6. Recorded(o) => db[o].type \in Types
    BY <1>1, <1>2, <1>3, TypesOfService DEF Typed, Recorded, IsMessage
<1>7. /\ db' = [x \in Objects |->
                  IF x = o THEN m ELSE IF x \in DOMAIN list[c] THEN list[c][x] ELSE db[x]]
      /\ list' = [list EXCEPT ![c] = NoList]
      /\ goal' = [goal EXCEPT ![o] = IF @ = "present" THEN "none" ELSE @]
      /\ call' = [call EXCEPT ![c] = NoCall]
      /\ UNCHANGED <<file, turns, res, faults>>
    BY DEF Store, WriteList, Done
<1>8. pending' = [x \in Objects |-> IF x = o THEN pend ELSE pending[x]]
    BY <1>2 DEF Store, Typed
<1>9. damaged' = [x \in Objects |-> IF x = o THEN ~k.alone ELSE damaged[x]]
    BY <1>2 DEF Store, Typed
<1>10. pend \in SUBSET Types /\ PutBack(c) \subseteq pend
    BY <1>1, <1>2, <1>6 DEF Typed, PutBack
<1>11. /\ \A t \in pending[o] : t # type => t \in pend
       /\ ~k.alone => \A t \in pending[o] : t \in pend
       /\ Recorded(o) /\ db[o].type # type => db[o].type \in pend
    OBVIOUS
<1>12. ASSUME NEW d \in Callers \ {c}, call[d] # NoCall, call[d].o = o PROVE ~k.alone /\ ~call[d].alone
    BY <1>1, <1>2, <1>12 DEF AloneOK
<1>13. k.alone => ApplyOK(k, r)
    BY <1>1 DEF WorkOK
<1>14. \A d \in Callers \ {c} : o \in DOMAIN list[d] => Doubted(list[d][o], m, pend)
    <2> HIDE DEF pend
    <2> QED
        BY <1>10, PutBackDoubted
<1> HIDE DEF k, o, m, type, r, others, pend
<1>15. ASSUME type \notin pend PROVE k.alone /\ ApplyOK(k, r)
    BY <1>4, <1>5, <1>11, <1>13, <1>15
<1>16. ASSUME NEW t \in TypesOf(ServiceOf[o]), NEW p \in Parts(t), Exists(o, p)
       PROVE  t \in pend \/ m.type = t
    BY <1>1, <1>2, <1>11, <1>16 DEF Covered, type
<1>17. ASSUME type \notin pend, NEW p \in Parts(type)
       PROVE  /\ r[p].state \in {"complete", "updateRolledBack"}
              /\ r[p].id = m.status[p]
              /\ type # "nebiusVPC" => r[p].params \in Parameters(m)
    <2>1. ApplyOK(k, r) /\ IsPart(r[p], p)
        BY <1>1, <1>15, <1>17, PartsOfType DEF IsParts
    <2>2. CASE type \in AwsTypes
        <3>1. p = "stack"
            BY <1>17, <2>2, PartsOfType
        <3> QED
            BY <1>1, <2>1, <2>2, <3>1 DEF ApplyOK, m, type
    <2>3. CASE type = "nebiusVPC"
        <3>1. p \in {"pool", "network", "subnet"}
            BY <1>17, <2>3, PartsOfType
        <3>2. r[p] # Nothing /\ r[p].id = m.status[p]
            BY <1>1, <2>1, <2>3, <3>1 DEF ApplyOK, m, type
        <3>3. r[p].state = "complete"
            BY <2>1, <3>1, <3>2 DEF IsPart, PartStates
        <3> QED
            BY <2>3, <3>2, <3>3
    <2>4. CASE type = "azureVMSS"
        <3>1. p = "vmss"
            BY <1>17, <2>4, PartsOfType
        <3>2. r["vmss"].state = "complete" /\ r["vmss"].params \in Parameters(m)
            BY <1>1, <2>1, <2>4 DEF ApplyOK, m, type
        <3>3. r["vmss"].id = NoId
            BY <2>1, <3>1, <3>2 DEF IsPart, PartIds, Nothing
        <3>4. m.status["vmss"] = NoId
            BY <1>3, <2>4 DEF IsMessage, type
        <3> QED
            BY <3>1, <3>2, <3>3, <3>4
    <2> QED
        BY <1>1, <2>2, <2>3, <2>4 DEF Types, AwsTypes
<1>18. ASSUME NEW d \in Callers \ {c}, call[d] # NoCall, call[d].o = o
       PROVE  /\ call[d].op = "apply" => call[d].obj.type \in pend
              /\ ~k.alone /\ ~call[d].alone
    BY <1>2, <1>11, <1>12, <1>18 DEF ApplyPending
<1>19. PICK dam \in BOOLEAN : dam = ~k.alone
    BY <1>4
<1>20. KeptBy(c, o, m, pend, dam)
    <2>1. type \notin pend => \A p \in Parts(type) :
             /\ r[p].state \in {"complete", "updateRolledBack"}
             /\ r[p].id = m.status[p]
             /\ type # "nebiusVPC" => r[p].params \in Parameters(m)
        BY <1>17
    <2> QED
        BY <1>3, <1>10, <1>14, <1>16, <1>18, <1>19, <2>1 DEF KeptBy, r, type
<1>21. ASSUME NEW x \in Objects PROVE KeptBy(c, x, db'[x], pending'[x], damaged'[x])
    <2>1. CASE x = o
        <3>1. db'[x] = m /\ pending'[x] = pend /\ damaged'[x] = dam
            BY <1>7, <1>8, <1>9, <1>19, <2>1
        <3> QED
            BY <1>20, <2>1, <3>1
    <2>2. CASE x # o
        <3>1. /\ db'[x] = IF x \in DOMAIN list[c] THEN list[c][x] ELSE db[x]
              /\ pending'[x] = pending[x] /\ damaged'[x] = damaged[x]
            BY <1>7, <1>8, <1>9, <2>2
        <3>2. PICK rec : rec = db'[x]
            OBVIOUS
        <3>3. KeptBy(c, x, rec, pending[x], damaged[x])
            BY <3>1, <3>2, WrittenBack
        <3> QED
            BY <3>1, <3>2, <3>3
    <2> QED
        BY <2>1, <2>2
<1>22. goal' \in [Objects -> {"none", "present", "absent"}] /\ faults' \in Nat
    BY <1>1, <1>2, <1>7 DEF Typed
<1>23. /\ db' = [x \in Objects |-> db'[x]]
       /\ pending' = [x \in Objects |-> pending'[x]]
       /\ damaged' = [x \in Objects |-> damaged'[x]]
    BY <1>7, <1>8, <1>9
<1> QED
    BY <1>7, <1>21, <1>22, <1>23, EndKeeps

\* The record goes last: what is left then is pending.
LEMMA DropStep ==
    ASSUME IInv, NEW c \in Callers, Drop(c)
    PROVE  IInv'
<1> DEFINE k == call[c]
           o == k.o
           type == k.obj.type
           r == res[o]
           pend == PutBack(c) \cup
                   IF ~k.alone THEN pending[o] \cup {type} \cup ({db[o].type} \cap Types)
                   ELSE IF ByName(type) THEN pending[o] \ {type} ELSE pending[o]
<1>1. /\ k # NoCall /\ k.step = "drop" /\ IsCall(k) /\ o \in Objects /\ IsParts(r)
      /\ k.op = "delete" /\ type \in Types
      /\ k.alone => WorkOK(k, r)
    BY AtStep, StepTells DEF Drop
<1>2. Typed /\ AloneOK /\ ApplyPending /\ Covered
    BY DEF IInv
<1>3. Recorded(o) => db[o].type \in Types
    BY <1>1, <1>2, TypesOfService, ObjectsAssumption DEF Typed, Recorded, IsMessage
<1>4. k.alone => DeleteOK(k, r, db[o], pending[o])
    BY <1>1 DEF WorkOK
<1>5. /\ db' = [x \in Objects |->
                  IF x = o THEN NoRecord ELSE IF x \in DOMAIN list[c] THEN list[c][x] ELSE db[x]]
      /\ list' = [list EXCEPT ![c] = NoList]
      /\ goal' = [goal EXCEPT ![o] = IF @ = "absent" THEN "none" ELSE @]
      /\ call' = [call EXCEPT ![c] = NoCall]
      /\ UNCHANGED <<file, turns, res, faults>>
    BY DEF Drop, WriteList, Done
<1>6. pending' = [x \in Objects |-> IF x = o THEN pend ELSE pending[x]]
    BY <1>2 DEF Drop, Typed
<1>7. damaged' = [x \in Objects |-> IF x = o THEN FALSE ELSE damaged[x]]
    BY <1>2 DEF Drop, Typed
<1>8. pend \in SUBSET Types /\ PutBack(c) \subseteq pend
    BY <1>1, <1>2 DEF Typed, PutBack
<1>9. /\ \A t \in pending[o] : t # type \/ ~k.alone => t \in pend
      /\ ~ByName(type) => \A t \in pending[o] : t \in pend
      /\ ~k.alone /\ Recorded(o) => db[o].type \in pend
    BY <1>3
<1>10. ASSUME NEW d \in Callers \ {c}, call[d] # NoCall, call[d].o = o PROVE ~k.alone /\ ~call[d].alone
    BY <1>1, <1>2, <1>10 DEF AloneOK
<1>11. \A d \in Callers \ {c} : o \in DOMAIN list[d] => Doubted(list[d][o], NoRecord, pend)
    <2> HIDE DEF pend
    <2> QED
        BY <1>8, PutBackDoubted
<1> HIDE DEF k, o, type, r, pend
<1>12. ASSUME NEW t \in TypesOf(ServiceOf[o]), NEW p \in Parts(t), Exists(o, p)
       PROVE  t \in pend
    <2>1. t \in pending[o] \/ (Recorded(o) /\ db[o].type = t)
        BY <1>1, <1>2, <1>12 DEF Covered
    <2>2. CASE ~k.alone
        BY <1>9, <2>1, <2>2
    <2>3. CASE k.alone
        <3>1. DeleteOK(k, r, db[o], pending[o])
            BY <1>4, <2>3
        <3>2. CASE t # type
            <4>1. t \in pending[o]
                BY <1>3, <2>1, <3>1, <3>2 DEF DeleteOK, Doubted, type
            <4> QED
                BY <1>9, <3>2, <4>1
        <3>3. CASE t = type
            <4>1. ~ByName(type)
                BY <1>1, <1>12, <3>1, <3>3 DEF DeleteOK, r, type, Exists
            <4>2. type \in pending[o]
                <5>1. ASSUME type = "nebiusVPC", type \notin pending[o], NEW q \in Parts(type)
                      PROVE  r[q] = Nothing
                    BY <1>1, <3>1, <5>1, PartsOfType DEF DeleteOK, type
                <5> QED
                    BY <1>12, <3>3, <4>1, <5>1 DEF ByName, r, Exists
            <4> QED
                BY <1>9, <3>3, <4>1, <4>2
        <3> QED
            BY <3>2, <3>3
    <2> QED
        BY <2>2, <2>3
<1>13. ASSUME NEW d \in Callers \ {c}, call[d] # NoCall, call[d].o = o
       PROVE  /\ call[d].op = "apply" => call[d].obj.type \in pend
              /\ ~call[d].alone
    BY <1>2, <1>9, <1>10, <1>13 DEF ApplyPending
<1>14. KeptBy(c, o, NoRecord, pend, FALSE)
    BY <1>8, <1>11, <1>12, <1>13 DEF KeptBy
<1>15. ASSUME NEW x \in Objects PROVE KeptBy(c, x, db'[x], pending'[x], damaged'[x])
    <2>1. CASE x = o
        <3>1. db'[x] = NoRecord /\ pending'[x] = pend /\ damaged'[x] = FALSE
            BY <1>5, <1>6, <1>7, <2>1
        <3> QED
            BY <1>14, <2>1, <3>1
    <2>2. CASE x # o
        <3>1. /\ db'[x] = IF x \in DOMAIN list[c] THEN list[c][x] ELSE db[x]
              /\ pending'[x] = pending[x] /\ damaged'[x] = damaged[x]
            BY <1>5, <1>6, <1>7, <2>2
        <3>2. PICK rec : rec = db'[x]
            OBVIOUS
        <3>3. KeptBy(c, x, rec, pending[x], damaged[x])
            BY <3>1, <3>2, WrittenBack
        <3> QED
            BY <3>1, <3>2, <3>3
    <2> QED
        BY <2>1, <2>2
<1>16. goal' \in [Objects -> {"none", "present", "absent"}] /\ faults' \in Nat
    BY <1>1, <1>2, <1>5 DEF Typed
<1>17. /\ db' = [x \in Objects |-> db'[x]]
       /\ pending' = [x \in Objects |-> pending'[x]]
       /\ damaged' = [x \in Objects |-> damaged'[x]]
    BY <1>5, <1>6, <1>7
<1> QED
    BY <1>5, <1>15, <1>16, <1>17, EndKeeps

\* The list a call reads is what is on record.
LEMMA ReadListStep ==
    ASSUME IInv, NEW c \in Callers, ReadList(c)
    PROVE  IInv'
<1>1. /\ Typed /\ AloneOK /\ ApplyPending /\ DeleteDamages /\ ListKnown /\ Covered
      /\ AloneWork /\ NebiusKnown /\ RecordBacked
    BY DEF IInv
<1>2. UNCHANGED <<goal, file, turns, call, db, res, faults, pending, damaged>>
    BY DEF ReadList, operatorVars, historyVars
<1>3. PICK l : l = [x \in SameFile(call[c].o) |-> db[x]] /\ list' = [list EXCEPT ![c] = l]
    BY DEF ReadList
<1>4. DOMAIN l \subseteq Objects /\ \A x \in DOMAIN l : l[x] = db[x]
    BY <1>3 DEF SameFile
<1>5. list' = [d \in Callers |-> IF d = c THEN l ELSE list[d]]
    BY <1>1, <1>3 DEF Typed
<1>6. /\ list' = [d \in Callers |-> list'[d]]
      /\ \A d \in Callers : \A x \in DOMAIN list'[d] :
            x \in Objects /\ (list'[d][x] = NoRecord \/ IsMessage(list'[d][x], ServiceOf[x]))
    BY <1>1, <1>4, <1>5 DEF Typed
<1>7. Typed'
    BY <1>1, <1>2, <1>6 DEF Typed
<1>8. ListKnown'
    BY <1>1, <1>2, <1>4, <1>5 DEF ListKnown, Doubted
<1>9. AloneOK' /\ ApplyPending' /\ DeleteDamages'
    BY <1>1, <1>2 DEF AloneOK, ApplyPending, DeleteDamages, Recorded
<1>10. Covered' /\ NebiusKnown' /\ RecordBacked'
    BY <1>1, <1>2 DEF Covered, NebiusKnown, RecordBacked, Exists, Recorded
<1>11. AloneWork'
    BY <1>1, <1>2 DEF AloneWork, WorkOK
<1> QED
    BY <1>7, <1>8, <1>9, <1>10, <1>11 DEF IInv

\* A call that is cut leaves things as they are.
LEMMA CutStep ==
    ASSUME IInv, NEW c \in Callers, Cut(c)
    PROVE  IInv'
<1>1. Typed
    BY DEF IInv
<1>2. /\ call' = [call EXCEPT ![c] = NoCall] /\ list' = [list EXCEPT ![c] = NoList]
      /\ UNCHANGED <<goal, file, turns, db, res, pending, damaged>>
    BY DEF Cut, operatorVars, historyVars
<1>3. faults' \in Nat /\ goal' \in [Objects -> {"none", "present", "absent"}]
    BY <1>1, <1>2 DEF Cut, Typed
<1>4. ASSUME NEW x \in Objects PROVE KeptBy(c, x, db[x], pending[x], damaged[x])
    <2>1. /\ db[x] = NoRecord \/ IsMessage(db[x], ServiceOf[x])
          /\ pending[x] \in SUBSET Types
          /\ Doubted(db[x], db[x], pending[x])
        BY <1>1 DEF Typed, Doubted
    <2> QED
        BY <2>1, DoubtedKept
<1>5. /\ db' = [x \in Objects |-> db'[x]]
      /\ pending' = [x \in Objects |-> pending'[x]]
      /\ damaged' = [x \in Objects |-> damaged'[x]]
    BY <1>1, <1>2 DEF Typed
<1> QED
    BY <1>2, <1>3, <1>4, <1>5, EndKeeps

\* One that is cut while it writes leaves what was on record pending.
LEMMA CutTruncatedStep ==
    ASSUME IInv, NEW c \in Callers, CutTruncated(c)
    PROVE  IInv'
<1>1. Typed
    BY DEF IInv
<1>2. /\ call' = [call EXCEPT ![c] = NoCall] /\ list' = [list EXCEPT ![c] = NoList]
      /\ UNCHANGED <<goal, file, turns, res, damaged>>
      /\ db' = [x \in Objects |-> IF x \in DOMAIN list[c] THEN NoRecord ELSE db[x]]
      /\ pending' = [x \in Objects |->
                        IF x \in DOMAIN list[c] THEN pending[x] \cup ({db[x].type} \cap Types)
                        ELSE pending[x]]
    BY DEF CutTruncated, operatorVars
<1>3. faults' \in Nat /\ goal' \in [Objects -> {"none", "present", "absent"}]
    BY <1>1, <1>2 DEF CutTruncated, Typed
<1>4. ASSUME NEW x \in Objects PROVE KeptBy(c, x, db'[x], pending'[x], damaged'[x])
    <2>1. PICK rec, pend : rec = db'[x] /\ pend = pending'[x]
        OBVIOUS
    <2>2. rec = NoRecord \/ IsMessage(rec, ServiceOf[x])
        BY <1>1, <1>2, <2>1 DEF Typed
    <2>3. pend \in SUBSET Types /\ pending[x] \subseteq pend
        BY <1>1, <1>2, <2>1 DEF Typed
    <2>4. Doubted(rec, db[x], pend)
        <3>1. CASE x \in DOMAIN list[c]
            <4>1. rec = NoRecord /\ pend = pending[x] \cup ({db[x].type} \cap Types)
                BY <1>2, <2>1, <3>1
            <4>2. NoRecord.type \notin Types
                BY DEF NoRecord, Types
            <4> QED
                BY <4>1, <4>2 DEF Doubted
        <3>2. CASE x \notin DOMAIN list[c]
            BY <1>2, <2>1, <3>2 DEF Doubted
        <3> QED
            BY <3>1, <3>2
    <2>5. KeptBy(c, x, rec, pend, damaged[x])
        BY <2>2, <2>3, <2>4, DoubtedKept
    <2> QED
        BY <1>2, <2>1, <2>5
<1>5. /\ db' = [x \in Objects |-> db'[x]]
      /\ pending' = [x \in Objects |-> pending'[x]]
      /\ damaged' = [x \in Objects |-> damaged'[x]]
    BY <1>1, <1>2 DEF Typed
<1> QED
    BY <1>2, <1>3, <1>4, <1>5, EndKeeps

-----------------------------------------------------------------------------
(* Operators and the starts of calls.                                      *)

\* Operators only write files.
LEMMA WantStep ==
    ASSUME IInv, NEW o \in Objects, Want(o)
    PROVE  IInv'
<1>1. /\ Typed /\ AloneOK /\ ApplyPending /\ DeleteDamages /\ ListKnown /\ Covered
      /\ AloneWork /\ NebiusKnown /\ RecordBacked
    BY DEF IInv
<1>2. UNCHANGED <<call, db, list, res, faults, pending, damaged>>
    BY DEF Want, dbVars, historyVars
<1>3. Typed'
    <2>1. PICK m : /\ m = NoFile \/ IsMessage(m, ServiceOf[o])
                   /\ file' = [file EXCEPT ![o] = m]
        BY <1>1, FilesTyped DEF Want
    <2>2. /\ file' = [x \in Objects |-> file'[x]]
          /\ \A x \in Objects : file'[x] = NoFile \/ IsMessage(file'[x], ServiceOf[x])
        BY <1>1, <2>1 DEF Typed
    <2>3. goal' \in [Objects -> {"none", "present", "absent"}]
        BY <1>1 DEF Typed, Want
    <2> QED
        BY <1>1, <1>2, <2>2, <2>3 DEF Typed
<1>4. AloneOK' /\ ApplyPending' /\ DeleteDamages' /\ ListKnown'
    BY <1>1, <1>2 DEF AloneOK, ApplyPending, DeleteDamages, ListKnown, Recorded
<1>5. Covered' /\ NebiusKnown' /\ RecordBacked'
    BY <1>1, <1>2 DEF Covered, NebiusKnown, RecordBacked, Exists, Recorded
<1>6. AloneWork'
    BY <1>1, <1>2 DEF AloneWork, WorkOK
<1> QED
    BY <1>3, <1>4, <1>5, <1>6 DEF IInv

\* A call that begins makes the others of its object know.
LEMMA BeginKeeps ==
    ASSUME IInv, NEW c \in Callers, NEW o \in Objects, NEW op \in {"apply", "delete"}, NEW m, NEW step,
           call[c] = NoCall, IsMessage(m, ServiceOf[o]), step \in StepsOf(op, m.type),
           Begin(c, o, op, m, step),
           NEW P \in SUBSET Types, pending[o] \subseteq P, pending' = [pending EXCEPT ![o] = P],
           NEW D \in BOOLEAN, damaged[o] => D, damaged' = [damaged EXCEPT ![o] = D],
           UNCHANGED <<goal, file, turns, db, list, res, faults>>,
           op = "apply" => m.type \in P /\ step \in {"describe", "pool", "put"},
           op = "delete" => D /\ db[o] = m /\ step = "load"
    PROVE  IInv'
<1>1. /\ Typed /\ AloneOK /\ ApplyPending /\ DeleteDamages /\ ListKnown /\ Covered
      /\ AloneWork /\ NebiusKnown /\ RecordBacked
    BY DEF IInv
<1>2. Busy(o) \in BOOLEAN
    BY DEF Busy
<1>3. PICK alone \in BOOLEAN : alone = ~Busy(o)
    BY <1>2
<1> DEFINE new == [op |-> op, o |-> o, obj |-> m, step |-> step, alone |-> alone]
<1>4. call' = [d \in Callers |->
                 IF d = c THEN new
                 ELSE IF call[d] # NoCall /\ call[d].o = o THEN [call[d] EXCEPT !.alone = FALSE]
                 ELSE call[d]]
    BY <1>3 DEF Begin
<1>5. /\ new.op = op /\ new.o = o /\ new.obj = m /\ new.step = step /\ new.alone = alone
      /\ new # NoCall
    BY DEF NoCall
<1>6. IsCall(new)
    BY DEF IsCall
<1>7. alone => \A d \in Callers : call[d] # NoCall => call[d].o # o
    BY <1>3 DEF Busy
<1>8. ASSUME NEW d \in Callers, call[d] # NoCall
      PROVE  /\ IsCall(call[d])
             /\ [call[d] EXCEPT !.alone = FALSE] =
                   [op |-> call[d].op, o |-> call[d].o, obj |-> call[d].obj, step |-> call[d].step,
                    alone |-> FALSE]
    <2>1. IsCall(call[d])
        BY <1>1, <1>8 DEF Typed
    <2>2. ASSUME NEW k, IsCall(k), NEW x
          PROVE  [k EXCEPT !.alone = x] =
                    [op |-> k.op, o |-> k.o, obj |-> k.obj, step |-> k.step, alone |-> x]
        <3>1. k = [op |-> k.op, o |-> k.o, obj |-> k.obj, step |-> k.step, alone |-> k.alone]
            BY <2>2 DEF IsCall
        <3> QED
            BY <3>1
    <2> QED
        BY <2>1, <2>2, Zenon
<1> HIDE DEF new
<1>9. ASSUME NEW d \in Callers, d # c, call[d] = NoCall PROVE call'[d] = NoCall
    BY <1>4, <1>9
<1>10. ASSUME NEW d \in Callers, d # c, call[d] # NoCall, call[d].o # o PROVE call'[d] = call[d]
    BY <1>4, <1>10
<1>11. ASSUME NEW d \in Callers, d # c, call[d] # NoCall, call[d].o = o
       PROVE  /\ IsCall(call'[d]) /\ call'[d] # NoCall
              /\ call'[d].op = call[d].op /\ call'[d].o = o /\ call'[d].obj = call[d].obj
              /\ ~call'[d].alone
    <2>1. call'[d] = [op |-> call[d].op, o |-> call[d].o, obj |-> call[d].obj, step |-> call[d].step,
                      alone |-> FALSE]
        BY <1>4, <1>8, <1>11
    <2>2. IsCall(call[d])
        BY <1>8, <1>11
    <2> QED
        BY <1>11, <2>1, <2>2 DEF IsCall, NoCall
<1>12. call'[c] = new
    BY <1>4
<1>13. /\ \A x \in Objects : x # o => pending'[x] = pending[x] /\ damaged'[x] = damaged[x]
       /\ pending'[o] = P /\ damaged'[o] = D
       /\ pending' \in [Objects -> SUBSET Types]
    BY <1>1 DEF Typed
<1>14. damaged' \in [Objects -> BOOLEAN]
    BY <1>1 DEF Typed
<1>15. Typed'
    <2>1. call' = [d \in Callers |-> call'[d]]
        BY <1>4
    <2>2. \A d \in Callers : call'[d] = NoCall \/ IsCall(call'[d])
        BY <1>6, <1>8, <1>9, <1>10, <1>11, <1>12
    <2> QED
        BY <1>1, <1>13, <1>14, <2>1, <2>2 DEF Typed
<1>16. ASSUME NEW d \in Callers, call'[d] # NoCall
       PROVE  \/ d = c /\ call'[d] = new
              \/ d # c /\ call[d] # NoCall /\ call[d].o # o /\ call'[d] = call[d]
              \/ d # c /\ call[d] # NoCall /\ call[d].o = o /\ call'[d].o = o /\ ~call'[d].alone
    BY <1>9, <1>10, <1>11, <1>12, <1>16
<1>17. AloneOK'
    BY <1>1, <1>5, <1>7, <1>16 DEF AloneOK
<1>18. ApplyPending'
    <2>1. ASSUME NEW d \in Callers, call'[d] # NoCall, call'[d].op = "apply"
          PROVE  call'[d].obj.type \in pending'[call'[d].o]
        <3>1. CASE d = c
            BY <1>5, <1>12, <1>13, <2>1, <3>1
        <3>2. CASE d # c /\ call[d] # NoCall /\ call[d].o # o
            <4>1. call'[d] = call[d] /\ call[d].o \in Objects
                BY <1>8, <1>10, <3>2 DEF IsCall
            <4> QED
                BY <1>1, <1>13, <2>1, <3>2, <4>1 DEF ApplyPending
        <3>3. CASE d # c /\ call[d] # NoCall /\ call[d].o = o
            BY <1>1, <1>11, <1>13, <2>1, <3>3 DEF ApplyPending
        <3> QED
            BY <1>9, <2>1, <3>1, <3>2, <3>3
    <2> QED
        BY <2>1 DEF ApplyPending
<1>19. DeleteDamages'
    <2>1. ASSUME NEW d \in Callers, call'[d] # NoCall, call'[d].op = "delete"
          PROVE  \/ damaged'[call'[d].o] \/ db[call'[d].o] = NoRecord
                 \/ db[call'[d].o].type \in pending'[call'[d].o]
        <3>1. CASE d = c
            BY <1>5, <1>12, <1>13, <2>1, <3>1
        <3>2. CASE d # c /\ call[d] # NoCall /\ call[d].o # o
            <4>1. call'[d] = call[d] /\ call[d].o \in Objects
                BY <1>8, <1>10, <3>2 DEF IsCall
            <4> QED
                BY <1>1, <1>13, <2>1, <3>2, <4>1 DEF DeleteDamages, Recorded
        <3>3. CASE d # c /\ call[d] # NoCall /\ call[d].o = o
            BY <1>1, <1>11, <1>13, <2>1, <3>3 DEF DeleteDamages, Recorded
        <3> QED
            BY <1>9, <2>1, <3>1, <3>2, <3>3
    <2> QED
        BY <2>1 DEF DeleteDamages, Recorded
<1>20. \A x \in Objects : pending[x] \subseteq pending'[x] /\ (damaged[x] => damaged'[x])
    BY <1>13
<1>21. Covered' /\ NebiusKnown' /\ RecordBacked'
    BY <1>1, <1>20 DEF Covered, NebiusKnown, RecordBacked, Exists, Recorded
<1>22. AloneWork'
    <2>1. ASSUME NEW d \in Callers, call'[d] # NoCall, call'[d].alone
          PROVE  WorkOK(call[d], res[call[d].o])'
        <3>1. CASE d = c
            <4>1. CASE op = "apply"
                <5>1. ApplyOK(new, res[o])
                    BY <1>5, <4>1 DEF ApplyOK
                <5> QED
                    BY <1>5, <1>12, <3>1, <4>1, <5>1 DEF WorkOK
            <4>2. CASE op = "delete"
                <5>1. DeleteOK(new, res[o], db[o], pending'[o])
                    BY <1>5, <4>2 DEF DeleteOK, Doubted
                <5> QED
                    BY <1>5, <1>12, <3>1, <4>2, <5>1 DEF WorkOK
            <4> QED
                BY <4>1, <4>2
        <3>2. CASE d # c
            <4>1. call'[d] = call[d] /\ call[d] # NoCall /\ call[d].o # o
                BY <1>16, <2>1, <3>2
            <4>2. call[d].o \in Objects
                BY <1>8, <4>1 DEF IsCall
            <4> QED
                BY <1>1, <1>13, <2>1, <4>1, <4>2 DEF AloneWork, WorkOK
        <3> QED
            BY <3>1, <3>2
    <2> QED
        BY <2>1 DEF AloneWork
<1>23. ListKnown'
    BY <1>1, <1>20 DEF ListKnown, Doubted, Typed
<1> QED
    BY <1>15, <1>17, <1>18, <1>19, <1>21, <1>22, <1>23 DEF IInv

\* The first step of an apply, by its type.
LEMMA FirstStepOf ==
    ASSUME NEW type \in Types
    PROVE  FirstStep(type) \in {"describe", "pool", "put"} /\ FirstStep(type) \in StepsOf("apply", type)
<1>1. CASE type \in AwsTypes
    <2>1. FirstStep(type) = "describe"
        <3>1. type # "nebiusVPC" /\ type # "azureVMSS"
            BY <1>1 DEF AwsTypes
        <3> QED
            BY <1>1, <3>1, Zenon DEF FirstStep
    <2> QED
        BY <1>1, <2>1 DEF StepsOf
<1>2. CASE type = "nebiusVPC"
    <2>1. type \notin AwsTypes
        BY <1>2 DEF AwsTypes
    <2>2. FirstStep(type) = "pool"
        BY <1>2, <2>1, "nebiusVPC" # "azureVMSS", Zenon DEF FirstStep
    <2> QED
        BY <1>2, <2>1, <2>2 DEF StepsOf
<1>3. CASE type = "azureVMSS"
    <2>1. type \notin AwsTypes /\ type # "nebiusVPC"
        BY <1>3 DEF AwsTypes
    <2>2. FirstStep(type) = "put"
        BY <1>3, <2>1, Zenon DEF FirstStep
    <2> QED
        BY <1>3, <2>1, <2>2 DEF StepsOf
<1> QED
    BY <1>1, <1>2, <1>3 DEF Types, AwsTypes

\* An apply begins.
LEMMA ApplyStep ==
    ASSUME IInv, NEW c \in Callers, NEW o \in Objects, Apply(c, o)
    PROVE  IInv'
<1> DEFINE m == file[o]
<1>1. ServiceOf[o] \in Services
    BY ObjectsAssumption
<1>2. "none" \notin Servers(ServiceOf[o])
    BY <1>1, ServersOf DEF networksServers, agentPoolsServers, peeringsServers, Services
<1>3. m # NoFile
    BY <1>2 DEF Apply, NoFile
<1>4. IsMessage(m, ServiceOf[o]) /\ m.type \in Types
    BY <1>1, <1>3, TypesOfService DEF IInv, Typed, IsMessage
<1>5. FirstStep(m.type) \in {"describe", "pool", "put"} /\ FirstStep(m.type) \in StepsOf("apply", m.type)
    BY <1>4, FirstStepOf
<1>6. pending[o] \in SUBSET Types /\ damaged[o] \in BOOLEAN
    BY DEF IInv, Typed
<1>7. PICK P : P = pending[o] \cup {m.type}
    OBVIOUS
<1>8. /\ call[c] = NoCall /\ Begin(c, o, "apply", m, FirstStep(m.type))
      /\ pending' = [pending EXCEPT ![o] = P]
      /\ UNCHANGED <<goal, file, turns, db, list, res, faults>>
    BY <1>7 DEF Apply, operatorVars, dbVars
<1>9. damaged' = [damaged EXCEPT ![o] = damaged[o]]
    BY DEF Apply, IInv, Typed
<1>10. P \in SUBSET Types /\ pending[o] \subseteq P /\ m.type \in P
    BY <1>4, <1>6, <1>7
<1> QED
    BY <1>4, <1>5, <1>6, <1>8, <1>9, <1>10, BeginKeeps

\* A delete begins, or finds nothing to delete.
LEMMA DeleteStep ==
    ASSUME IInv, NEW c \in Callers, NEW o \in Objects, Delete(c, o)
    PROVE  IInv'
<1>1. /\ Typed /\ AloneOK /\ ApplyPending /\ DeleteDamages /\ ListKnown /\ Covered
      /\ AloneWork /\ NebiusKnown /\ RecordBacked
    BY DEF IInv
<1>2. CASE Recorded(o)
    <2>1. IsMessage(db[o], ServiceOf[o])
        BY <1>1, <1>2 DEF Recorded, Typed
    <2>2. "load" \in StepsOf("delete", db[o].type)
        BY DEF StepsOf
    <2>3. /\ call[c] = NoCall /\ Begin(c, o, "delete", db[o], "load")
          /\ damaged' = [damaged EXCEPT ![o] = TRUE]
          /\ UNCHANGED <<goal, file, turns, db, list, res, faults>>
        BY <1>2 DEF Delete, dbVars
    <2>4. pending[o] \in SUBSET Types /\ pending' = [pending EXCEPT ![o] = pending[o]]
        BY <1>1 DEF Delete, Typed
    <2> QED
        BY <2>1, <2>2, <2>3, <2>4, BeginKeeps
<1>3. CASE ~Recorded(o)
    <2>1. UNCHANGED <<file, turns, call, db, list, res, faults, pending, damaged>>
        BY <1>3 DEF Delete, dbVars
    <2>2. goal' \in [Objects -> {"none", "present", "absent"}]
        BY <1>1, <1>3 DEF Delete, Done, Typed
    <2>3. Typed'
        BY <1>1, <2>1, <2>2 DEF Typed
    <2>4. AloneOK' /\ ApplyPending' /\ DeleteDamages' /\ ListKnown'
        BY <1>1, <2>1 DEF AloneOK, ApplyPending, DeleteDamages, ListKnown, Recorded
    <2>5. Covered' /\ NebiusKnown' /\ RecordBacked'
        BY <1>1, <2>1 DEF Covered, NebiusKnown, RecordBacked, Exists, Recorded
    <2>6. AloneWork'
        BY <1>1, <2>1 DEF AloneWork, WorkOK
    <2> QED
        BY <2>3, <2>4, <2>5, <2>6 DEF IInv
<1> QED
    BY <1>2, <1>3

-----------------------------------------------------------------------------
(* The clouds.                                                             *)

\* How the work on x of the kind p may end.
Settled(x, v, p) ==
    \/ x.state = "deleting"
    \/ /\ x.state = "creating" /\ v.params = x.params
       /\ v.state \in {"complete", IF p = "vmss" THEN "failed" ELSE "rolledBack"}
    \/ /\ x.state = "updating" /\ v.params = x.params
       /\ v.state \in {"complete"} \cup IF p = "vmss" THEN {"failed"} ELSE {}
    \/ x.state = "updating" /\ p = "stack" /\ v.state = "updateRolledBack"

\* What a call that is alone has done is not undone.
LEMMA SettledWork ==
    ASSUME NEW k, NEW r, NEW s, NEW p \in {"stack", "vmss"}, WorkOK(k, r),
           r[p].state \in InProgress, Settled(r[p], s[p], p),
           \A q \in AllParts \ {p} : s[q] = r[q], k.obj.type \in Types
    PROVE  WorkOK(k, s)
<1>1. r[p].state \in {"creating", "updating", "deleting"} /\ r[p] # Nothing
    BY DEF InProgress, Nothing
<1>2. /\ s["pool"] = r["pool"] /\ s["network"] = r["network"] /\ s["subnet"] = r["subnet"]
      /\ p = "stack" => s["vmss"] = r["vmss"]
      /\ p = "vmss" => s["stack"] = r["stack"]
    BY DEF AllParts
<1>3. ASSUME ApplyOK(k, r) PROVE ApplyOK(k, s)
    <2>1. CASE p = "stack"
        <3>1. k.step # "create" /\ ~(k.step \in {"outputs", "connection", "store"} /\ k.obj.type \in AwsTypes)
            BY <1>1, <1>3, <2>1 DEF ApplyOK
        <3>2. k.step = "waitCreate" =>
                 /\ s["stack"].state \in {"creating", "complete", "rolledBack"}
                 /\ s["stack"].params \in Parameters(k.obj)
            BY <1>1, <1>3, <2>1 DEF ApplyOK, Settled
        <3>3. k.step = "waitUpdate" =>
                 /\ s["stack"].state \in {"updating", "complete", "updateRolledBack"}
                 /\ s["stack"].state # "updateRolledBack" => s["stack"].params \in Parameters(k.obj)
            BY <1>1, <1>3, <2>1 DEF ApplyOK, Settled
        <3> QED
            BY <1>2, <1>3, <2>1, <3>1, <3>2, <3>3 DEF ApplyOK
    <2>2. CASE p = "vmss"
        <3>1. k.step \in {"poll", "store"} /\ k.obj.type = "azureVMSS" =>
                 /\ k.step # "store"
                 /\ s["vmss"].state \in {"creating", "updating", "complete", "failed"}
                 /\ s["vmss"].params \in Parameters(k.obj)
            BY <1>1, <1>3, <2>2 DEF ApplyOK, Settled
        <3> QED
            BY <1>2, <1>3, <2>2, <3>1 DEF ApplyOK
    <2> QED
        BY <2>1, <2>2
<1>4. ASSUME DeleteOK(k, r, db[k.o], pending[k.o]) PROVE DeleteOK(k, s, db[k.o], pending[k.o])
    <2>1. k.step = "drop" /\ ByName(k.obj.type) => p \notin Parts(k.obj.type)
        BY <1>1, <1>4 DEF DeleteOK
    <2>2. Parts(k.obj.type) \subseteq AllParts
        BY PartsOfType
    <2>3. k.step = "drop" /\ ByName(k.obj.type) => \A q \in Parts(k.obj.type) : s[q] = Nothing
        BY <1>4, <2>1, <2>2 DEF DeleteOK
    <2> QED
        BY <1>2, <1>4, <2>3 DEF DeleteOK
<1> QED
    BY <1>3, <1>4 DEF WorkOK

\* A cloud that ends its work preserves the invariant.
LEMMA SettledKeeps ==
    ASSUME IInv, NEW o \in Objects, NEW p \in {"stack", "vmss"}, NEW v, IsPart(v, p),
           res[o][p].state \in InProgress, Settled(res[o][p], v, p),
           res' = [res EXCEPT ![o][p] = v], faults' \in Nat,
           UNCHANGED <<goal, file, turns, call, db, list, pending, damaged>>
    PROVE  IInv'
<1> DEFINE r == res[o]
           s == [r EXCEPT ![p] = v]
<1>1. /\ Typed /\ AloneOK /\ ApplyPending /\ DeleteDamages /\ ListKnown /\ Covered
      /\ AloneWork /\ NebiusKnown /\ RecordBacked
    BY DEF IInv
<1>2. IsParts(r) /\ p \in AllParts /\ r[p] # Nothing
    BY <1>1 DEF Typed, AllParts, InProgress, Nothing
<1>3. IsParts(s) /\ s[p] = v /\ \A q \in AllParts \ {p} : s[q] = r[q]
    <2> HIDE DEF r
    <2> QED
        BY <1>2, PartSet
<1>4. res' = [x \in Objects |-> IF x = o THEN s ELSE res[x]]
    BY <1>1 DEF Typed
<1>5. r[p].state \in InProgress /\ Settled(r[p], s[p], p)
    BY <1>3
<1> HIDE DEF r, s
<1>6. Typed'
    BY <1>1, <1>3, <1>4 DEF Typed
<1>7. AloneOK' /\ ApplyPending' /\ DeleteDamages' /\ ListKnown'
    BY <1>1 DEF AloneOK, ApplyPending, DeleteDamages, ListKnown, Recorded
<1>8. \A t : t \in Types => Parts(t) \subseteq AllParts
    BY PartsOfType
<1>9. \A x \in Objects : \A t \in TypesOf(ServiceOf[x]) : t \in Types
    BY TypesOfService, ObjectsAssumption
<1>10. Covered'
    <2>1. ASSUME NEW x \in Objects, NEW t \in TypesOf(ServiceOf[x]), NEW q \in Parts(t), res'[x][q] # Nothing
          PROVE  t \in pending[x] \/ (Recorded(x) /\ db[x].type = t)
        <3>1. res[x][q] # Nothing
            BY <1>2, <1>3, <1>4, <1>8, <1>9, <2>1 DEF r
        <3> QED
            BY <1>1, <2>1, <3>1 DEF Covered, Exists
    <2> QED
        BY <2>1 DEF Covered, Exists, Recorded
<1>11. AloneWork'
    <2>1. ASSUME NEW d \in Callers, call[d] # NoCall, call[d].alone
          PROVE  WorkOK(call[d], res'[call[d].o])
        <3>1. IsCall(call[d]) /\ call[d].o \in Objects /\ call[d].obj.type \in Types
            BY <1>1, <1>9, <2>1 DEF Typed, IsCall, IsMessage
        <3>2. WorkOK(call[d], res[call[d].o])
            BY <1>1, <2>1 DEF AloneWork
        <3>3. CASE call[d].o = o
            <4>1. WorkOK(call[d], r)
                BY <3>2, <3>3 DEF r
            <4>2. WorkOK(call[d], s)
                BY <1>3, <1>5, <3>1, <4>1, SettledWork
            <4> QED
                BY <1>4, <3>3, <4>2
        <3>4. CASE call[d].o # o
            BY <1>4, <3>1, <3>2, <3>4
        <3> QED
            BY <3>3, <3>4
    <2> QED
        BY <2>1 DEF AloneWork, WorkOK
<1>12. NebiusKnown'
    <2>1. ASSUME NEW x \in Objects, NEW q \in Parts("nebiusVPC") PROVE res'[x][q] = res[x][q]
        BY <1>3, <1>4, PartsOfType DEF AllParts, r
    <2> QED
        BY <1>1, <2>1 DEF NebiusKnown, Exists, Recorded
<1>13. RecordBacked'
    <2>1. ASSUME NEW x \in Objects, Recorded(x), ~damaged[x], db[x].type \notin pending[x],
                 NEW q \in Parts(db[x].type)
          PROVE  res'[x][q] = res[x][q]
        <3>1. res[x][q].state \in {"complete", "updateRolledBack"}
            BY <1>1, <2>1 DEF RecordBacked
        <3>2. q \in AllParts
            BY <1>1, <1>8, <1>9, <2>1 DEF Typed, Recorded, IsMessage
        <3>3. x = o => q # p
            BY <1>5, <3>1 DEF InProgress, r
        <3> QED
            BY <1>3, <1>4, <3>2, <3>3 DEF r
    <2> QED
        BY <1>1, <2>1 DEF RecordBacked, Recorded
<1> QED
    BY <1>6, <1>7, <1>10, <1>11, <1>12, <1>13 DEF IInv

\* The clouds' steps are of this kind.
LEMMA CloudStep ==
    ASSUME IInv, NEW o \in Objects, Cloud(o)
    PROVE  IInv'
<1>1. PICK p \in {"stack", "vmss"} : CloudWorks(o, p) \/ CloudFails(o, p)
    BY DEF Cloud
<1> DEFINE x == res[o][p]
<1>2. UNCHANGED <<goal, file, turns, call, db, list, pending, damaged>>
    BY <1>1 DEF CloudWorks, CloudFails, operatorVars, dbVars, historyVars
<1>3. IsPart(x, p) /\ Typed
    BY DEF IInv, Typed, IsParts, AllParts
<1>4. faults' \in Nat
    BY <1>1, <1>3, ObjectsAssumption DEF CloudWorks, CloudFails, Typed
<1>5. ASSUME x.state \in {"creating", "updating", "deleting"}
      PROVE  x # Nothing /\ x.id \in PartIds(p)
    <2> HIDE DEF x
    <2> QED
        BY <1>3, <1>5 DEF IsPart, Nothing
<1>6. ASSUME NEW state \in PartStates(p), x.state \in {"creating", "updating", "deleting"},
             Settles(o, p, state), Settled(x, Made(state, x.id, x.params), p)
      PROVE  IInv'
    <2>1. PICK v : v = Made(state, x.id, x.params)
        OBVIOUS
    <2>2. IsPart(v, p)
        <3> HIDE DEF x
        <3> QED
            BY <1>5, <1>6, <2>1 DEF IsPart, Made
    <2>3. res' = [res EXCEPT ![o][p] = v]
        BY <1>6, <2>1 DEF Settles
    <2>4. x.state \in InProgress /\ Settled(x, v, p)
        BY <1>6, <2>1 DEF InProgress
    <2> QED
        BY <1>2, <1>4, <2>2, <2>3, <2>4, SettledKeeps
<1>7. CASE CloudWorks(o, p)
    <2>1. CASE x.state \in {"creating", "updating"} /\ Settles(o, p, "complete")
        <3>1. Settled(x, Made("complete", x.id, x.params), p) /\ "complete" \in PartStates(p)
            BY <2>1 DEF Settled, Made, PartStates
        <3> QED
            BY <1>6, <2>1, <3>1
    <2>2. CASE x.state = "deleting" /\ Settles(o, p, "deleteFailed")
        <3>1. Settled(x, Made("deleteFailed", x.id, x.params), p) /\ "deleteFailed" \in PartStates(p)
            BY <2>2 DEF Settled, PartStates
        <3> QED
            BY <1>6, <2>2, <3>1
    <2>3. CASE x.state = "deleting" /\ res' = [res EXCEPT ![o][p] = Nothing]
        <3>1. IsPart(Nothing, p) /\ x.state \in InProgress /\ Settled(x, Nothing, p)
            BY <2>3 DEF IsPart, InProgress, Settled
        <3> QED
            BY <1>2, <1>4, <2>3, <3>1, SettledKeeps
    <2> QED
        BY <1>7, <2>1, <2>2, <2>3 DEF CloudWorks
<1>8. CASE CloudFails(o, p)
    <2>1. CASE x.state \in {"creating", "updating"} /\ p = "vmss" /\ Settles(o, p, "failed")
        <3>1. Settled(x, Made("failed", x.id, x.params), p) /\ "failed" \in PartStates(p)
            BY <2>1 DEF Settled, Made, PartStates
        <3> QED
            BY <1>6, <2>1, <3>1
    <2>2. CASE p = "stack" /\ x.state = "creating" /\ Settles(o, p, "rolledBack")
        <3>1. Settled(x, Made("rolledBack", x.id, x.params), p) /\ "rolledBack" \in PartStates(p)
            BY <2>2 DEF Settled, Made, PartStates
        <3> QED
            BY <1>6, <2>2, <3>1
    <2>3. CASE p = "stack" /\ x.state = "updating" /\ res' = [res EXCEPT ![o][p] = @.was]
        <3>1. x.was = Made("updateRolledBack", x.was.id, x.was.params) /\ x.was.id \in PartIds(p)
            <4> HIDE DEF x
            <4> QED
                BY <1>3, <2>3 DEF IsPart, Nothing, Made, PartStates
        <3>2. PICK v : v = x.was
            OBVIOUS
        <3>3. v = Made("updateRolledBack", v.id, v.params) /\ v.id \in PartIds(p)
            BY <3>1, <3>2
        <3>4. v.state = "updateRolledBack"
            BY <3>3 DEF Made
        <3>5. IsPart(v, p)
            BY <2>3, <3>3, <3>4 DEF IsPart, PartStates
        <3>6. x.state \in InProgress /\ Settled(x, v, p)
            BY <2>3, <3>4 DEF InProgress, Settled
        <3>7. res' = [res EXCEPT ![o][p] = v]
            BY <2>3, <3>2
        <3> QED
            BY <1>2, <1>4, <3>5, <3>6, <3>7, SettledKeeps
    <2> QED
        BY <1>8, <2>1, <2>2, <2>3 DEF CloudFails
<1> QED
    BY <1>1, <1>7, <1>8

-----------------------------------------------------------------------------
(* The theorems.                                                           *)

\* The invariant holds initially.
LEMMA InitIInv == Init => IInv
<1> SUFFICES ASSUME Init PROVE IInv
    OBVIOUS
<1>1. \A o \in Objects : IsParts(res[o])
    <2>1. ASSUME NEW o \in Objects PROVE IsParts(res[o])
        <3>1. res[o] = [p \in AllParts |-> Nothing]
            BY DEF Init
        <3> QED
            BY <3>1 DEF IsParts, IsPart
    <2> QED
        BY <2>1
<1>2. Typed
    BY <1>1, ObjectsAssumption DEF Init, Typed, NoList
<1>3. AloneOK /\ ApplyPending /\ DeleteDamages /\ ListKnown /\ AloneWork
    BY DEF Init, AloneOK, ApplyPending, DeleteDamages, ListKnown, NoList, AloneWork
<1>4. NebiusKnown /\ RecordBacked
    BY DEF Init, NebiusKnown, RecordBacked, Recorded
<1>5. Covered
    <2>1. \A o \in Objects : \A t \in TypesOf(ServiceOf[o]) : Parts(t) \subseteq AllParts
        BY PartsOfType, TypesOfService, ObjectsAssumption
    <2> QED
        BY <2>1 DEF Init, Covered, Exists
<1> QED
    BY <1>2, <1>3, <1>4, <1>5 DEF IInv

\* Every step preserves it.
LEMMA NextIInv == IInv /\ [Next]_vars => IInv'
<1> SUFFICES ASSUME IInv, [Next]_vars PROVE IInv'
    OBVIOUS
<1>1. ASSUME NEW o \in Objects, Want(o) \/ Start(o) \/ Cloud(o) PROVE IInv'
    BY <1>1, WantStep, ApplyStep, DeleteStep, CloudStep DEF Start
<1>2. ASSUME NEW c \in Callers, Step(c) PROVE IInv'
    <2>1. CASE Deploy(c) \/ create(c) \/ update(c) \/ wait(c) \/ GetStack(c) \/ GetVpnConnection(c)
        BY <2>1, DeployStep, CreateStep, UpdateStep, WaitStep, GetStackStep, GetVpnConnectionStep
    <2>2. CASE DesiredPool(c) \/ DesiredNetwork(c) \/ DesiredSubnet(c)
        BY <2>2, NebiusCreateOrUpdateStep DEF DesiredPool, DesiredNetwork, DesiredSubnet
    <2>3. CASE BeginCreateOrUpdate(c) \/ PollUntilDone(c) \/ ReadList(c) \/ Store(c) \/ Drop(c)
        BY <2>3, BeginCreateOrUpdateStep, PollUntilDoneStep, ReadListStep, StoreStep, DropStep
    <2>4. CASE \/ awsNetworkDelete(c) \/ awsAgentPoolDelete(c) \/ awsPeeringDelete(c)
               \/ azureAgentPoolDelete(c) \/ nebiusNetworkDelete(c)
        <3>1. "awsVPC" \in AwsTypes /\ "awsInstance" \in AwsTypes /\ "awsVPN" \in AwsTypes
            BY DEF AwsTypes
        <3> QED
            BY <2>4, <3>1, LoadRecordStep
               DEF awsNetworkDelete, awsAgentPoolDelete, awsPeeringDelete, azureAgentPoolDelete,
                   nebiusNetworkDelete
    <2>5. CASE DeleteStack(c) \/ BeginDelete(c)
        <3>1. UNCHANGED Others
            BY <2>5 DEF DeleteStack, BeginDelete, Others, operatorVars, dbVars, historyVars
        <3>2. CASE DeleteStack(c)
            <4>1. call[c] # NoCall /\ call[c].op = "delete" /\ call[c].obj.type \in AwsTypes
                BY <3>2, AtStep, StepTells DEF DeleteStack
            <4> QED
                BY <3>1, <3>2, <4>1, RequestDeleteStep DEF DeleteStack
        <3>3. CASE BeginDelete(c)
            <4>1. call[c] # NoCall /\ call[c].op = "delete" /\ call[c].obj.type = "azureVMSS"
                BY <3>3, AtStep, StepTells DEF BeginDelete
            <4> QED
                BY <3>1, <3>3, <4>1, RequestDeleteStep DEF BeginDelete
        <3> QED
            BY <2>5, <3>2, <3>3
    <2>6. CASE WaitDelete(c) \/ PollDelete(c)
        <3>1. UNCHANGED Others
            BY <2>6 DEF WaitDelete, PollDelete, Others, operatorVars, dbVars, historyVars
        <3>2. CASE WaitDelete(c)
            <4>1. call[c] # NoCall /\ call[c].op = "delete" /\ call[c].obj.type \in AwsTypes
                BY <3>2, AtStep, StepTells DEF WaitDelete
            <4> QED
                BY <3>1, <3>2, <4>1, AwaitDeleteStep DEF WaitDelete
        <3>3. CASE PollDelete(c)
            <4>1. call[c] # NoCall /\ call[c].op = "delete" /\ call[c].obj.type = "azureVMSS"
                BY <3>3, AtStep, StepTells DEF PollDelete
            <4> QED
                BY <3>1, <3>3, <4>1, AwaitDeleteStep DEF PollDelete
        <3> QED
            BY <2>6, <3>2, <3>3
    <2>7. CASE nebiusDeletes(c)
        <3>1. UNCHANGED Others
            BY <2>7 DEF nebiusDeletes, Others, operatorVars, dbVars, historyVars
        <3> QED
            BY <2>7, <3>1, NebiusDeleteStep DEF nebiusDeletes
    <2> QED
        BY <1>2, <2>1, <2>2, <2>3, <2>4, <2>5, <2>6, <2>7 DEF Step
<1>3. ASSUME NEW c \in Callers, Cut(c) \/ CutTruncated(c) PROVE IInv'
    BY <1>3, CutStep, CutTruncatedStep
<1>4. CASE UNCHANGED vars
    <2>1. UNCHANGED <<goal, file, turns, call, db, list, res, faults, pending, damaged>>
        BY <1>4 DEF vars
    <2>2. Typed' /\ AloneOK' /\ ApplyPending' /\ DeleteDamages' /\ ListKnown'
        BY <2>1 DEF IInv, Typed, AloneOK, ApplyPending, DeleteDamages, ListKnown, Recorded
    <2>3. Covered' /\ NebiusKnown' /\ RecordBacked'
        BY <2>1 DEF IInv, Covered, NebiusKnown, RecordBacked, Exists, Recorded
    <2>4. AloneWork'
        BY <2>1 DEF IInv, AloneWork, WorkOK
    <2> QED
        BY <2>2, <2>3, <2>4 DEF IInv
<1> QED
    BY <1>1, <1>2, <1>3, <1>4 DEF Next

\* The invariant of PluginServer.
THEOREM Invariance == Spec => []IInv
BY InitIInv, NextIInv, PTL DEF Spec

\* The types hold of every state of the invariant.
LEMMA IInvTypes == IInv => TypeOK
<1> SUFFICES ASSUME IInv PROVE TypeOK
    OBVIOUS
<1>1. Typed
    BY DEF IInv
<1>2. ASSUME NEW o \in Objects
      PROVE  /\ goal[o] \in {"none", "present", "absent"}
             /\ file[o] = NoFile \/ file[o] \in Messages(ServiceOf[o])
             /\ db[o] = NoRecord \/ db[o] \in Messages(ServiceOf[o])
    <2>1. ServiceOf[o] \in Services
        BY ObjectsAssumption
    <2> QED
        BY <1>1, <2>1, MessageIs DEF Typed
<1>3. ASSUME NEW o \in Objects, NEW p \in AllParts PROVE res[o][p].state \in States
    <2>1. IsPart(res[o][p], p)
        BY <1>1 DEF Typed, IsParts
    <2>2. ASSUME NEW x, IsPart(x, p) PROVE x.state \in States
        BY <2>2 DEF IsPart, PartStates, Nothing, Made, States, InProgress, InUse
    <2> QED
        BY <2>1, <2>2
<1>4. ASSUME NEW c \in Callers, call[c] # NoCall
      PROVE  /\ call[c].o \in Objects
             /\ call[c].obj \in Messages(ServiceOf[call[c].o])
             /\ call[c].step \in IF call[c].op = "apply" THEN ApplySteps ELSE DeleteSteps
    <2>1. IsCall(call[c])
        BY <1>1, <1>4 DEF Typed
    <2>2. ASSUME NEW k, IsCall(k)
          PROVE  /\ k.o \in Objects /\ k.obj \in Messages(ServiceOf[k.o])
                 /\ k.step \in IF k.op = "apply" THEN ApplySteps ELSE DeleteSteps
        <3>1. k.o \in Objects /\ ServiceOf[k.o] \in Services /\ IsMessage(k.obj, ServiceOf[k.o])
            BY <2>2, ObjectsAssumption DEF IsCall
        <3>2. k.step \in StepsOf(k.op, k.obj.type)
            BY <2>2 DEF IsCall
        <3> QED
            BY <3>1, <3>2, MessageIs DEF StepsOf, ApplySteps, DeleteSteps
    <2> QED
        BY <2>1, <2>2
<1>5. ASSUME NEW c \in Callers, NEW x \in DOMAIN list[c]
      PROVE  x \in Objects /\ (list[c][x] = NoRecord \/ list[c][x] \in Messages(ServiceOf[x]))
    <2>1. x \in Objects /\ (list[c][x] = NoRecord \/ IsMessage(list[c][x], ServiceOf[x]))
        BY <1>1 DEF Typed
    <2>2. ServiceOf[x] \in Services
        BY <2>1, ObjectsAssumption
    <2> QED
        BY <2>1, <2>2, MessageIs
<1>6. faults \in Nat
    BY <1>1 DEF Typed
<1> QED
    BY <1>2, <1>3, <1>4, <1>5, <1>6 DEF TypeOK

\* Type correctness: what operators apply, what calls carry and what the
\* database holds are messages of the object's service, and resources and calls
\* have the states of their kind.
THEOREM TypeCorrect == Spec => []TypeOK
BY Invariance, IInvTypes, PTL

\* A record that is neither pending nor damaged describes the cloud, however many
\* processes rewrite the list of its service (Parent.CreateOrUpdate stores what
\* the back end deployed; StupidDB.CreateOrUpdate and Delete read the list under
\* one lock and write it under another).
THEOREM RecordsBacked == Spec => []RecordBacked
<1>1. IInv => RecordBacked
    BY DEF IInv
<1> QED
    BY <1>1, Invariance, PTL

\* What exists off record, with nobody at work, was left by an apply that was cut
\* or raced, or its record was taken over by another type, undone by a process
\* that had read the list before, or lost with a file that was cut between
\* Truncate and Write (Parent.Delete, the deletes of the back ends, and
\* FileStore.Write).
THEOREM NoneOrphaned == Spec => []NoOrphans
<1>1. IInv => NoOrphans
    BY DEF IInv, Covered, NoOrphans, TypesOf
<1> QED
    BY <1>1, Invariance, PTL

=============================================================================
