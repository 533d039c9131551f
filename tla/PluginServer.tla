---------------------------- MODULE PluginServer ----------------------------
(***************************************************************************)
(* The plugin server as the CLI uses it: operators run "plugin apply" and  *)
(* "plugin delete", each process serves its own calls (services.go) with   *)
(* the Parent server (server/parent.go), which calls the back end of the   *)
(* object's type and then writes or removes the object's record.           *)
(*                                                                         *)
(* Nothing serialises two processes but the lock of the database file of a *)
(* service, which is held for one read or one write (FileDB).  A record is *)
(* written by reading the list of the service and then writing all of it,  *)
(* so that processes that work on different objects can undo each other's  *)
(* records.  Every call to a cloud is a step of its own.  Any call may be  *)
(* refused, time out, or die with its process between two steps: it then   *)
(* ends, with what it has done so far, and the operator repeats it.  One   *)
(* that dies while it writes leaves an empty file.                         *)
(*                                                                         *)
(* Clouds: a stack or a scale set takes requests, works on its own, and is *)
(* waited for; the nebius operations are requested and waited for in one   *)
(* step, since the cut of a call after it covers a failed wait.            *)
(***************************************************************************)
EXTENDS PluginObjects, FiniteSets

CONSTANTS
    Callers,    \* CLI processes
    Objects,    \* IDs of objects
    ServiceOf,  \* the service an object belongs to
    SpecsOf,    \* the specs its operators think of
    NetworkOf,  \* the network a pool or peering lies in, or Elsewhere
    Elsewhere,
    Scenarios   \* bound: the turns of the operators an object may see, and how many
                \* calls may be cut short or operations fail in the clouds

ASSUME ObjectsAssumption ==
    /\ ServiceOf \in [Objects -> Services]
    /\ SpecsOf \in [Objects -> SUBSET Specs]
    /\ NetworkOf \in [Objects -> Objects \cup {Elsewhere}]
    /\ \A s \in Scenarios : s.turns \in [Objects -> Nat] /\ s.faults \in Nat

\* Clouds do not run out of IDs: there is one that neither a call and the list it
\* has read, nor the file, the record or the resource of an object refers to.
ASSUME IdsAssumption ==
    /\ IsFiniteSet(Callers) /\ IsFiniteSet(Ids)
    /\ Cardinality(Ids) > 2 * Cardinality(Callers) + 3

VARIABLES
    goal,       \* what the operators want of an object
    file,       \* the JSON they apply for it
    turns,      \* bound: changes of mind that are left
    call,       \* the call a process is serving
    db,         \* the record of an object
    list,       \* the records a call has read, to write them back with its own
    res,        \* the resources in the clouds
    faults,     \* bound: faults that may still come
    pending,    \* history: types with an apply that may have left something off record
    damaged     \* history: the record's resources may be deleted in part

vars == <<goal, file, turns, call, db, list, res, faults, pending, damaged>>
operatorVars == <<goal, file, turns>>
dbVars == <<db, list>>
historyVars == <<pending, damaged>>

NoRecord == [type |-> "none"]
NoFile == [type |-> "none"]
NoCall == [op |-> "none"]
Nothing == [state |-> "none"]
NoList == [x \in {} |-> NoRecord]

\* A stack is "complete" or "updateRolledBack" (the last update failed) in use,
\* "rolledBack" or "deleteFailed" beyond repair; a scale set that could not be
\* made or updated is "failed".
InProgress == {"creating", "updating", "deleting"}
InUse == {"complete", "updateRolledBack", "failed"}
States == {"none", "rolledBack", "deleteFailed"} \cup InProgress \cup InUse

Recorded(o) == db[o] # NoRecord
Exists(o, p) == res[o][p] # Nothing
Busy(o) == \E c \in Callers : call[c] # NoCall /\ call[c].o = o

ApplySteps == {"describe", "create", "update", "waitCreate", "waitUpdate", "outputs", "connection",
               "pool", "network", "subnet", "put", "poll", "store"}
DeleteSteps == {"load", "deleteStack", "waitDelete", "deleteSubnet", "deleteNetwork",
                "deletePool", "beginDelete", "pollDelete", "drop"}

TypeOK ==
    /\ \A o \in Objects :
         /\ goal[o] \in {"none", "present", "absent"}
         /\ file[o] = NoFile \/ file[o] \in Messages(ServiceOf[o])
         /\ db[o] = NoRecord \/ db[o] \in Messages(ServiceOf[o])
         /\ \A p \in AllParts : res[o][p].state \in States
    /\ \A c \in Callers :
         call[c] # NoCall =>
            /\ call[c].o \in Objects
            /\ call[c].obj \in Messages(ServiceOf[call[c].o])
            /\ call[c].step \in IF call[c].op = "apply" THEN ApplySteps ELSE DeleteSteps
    /\ \A c \in Callers : \A x \in DOMAIN list[c] :
         x \in Objects /\ (list[c][x] = NoRecord \/ list[c][x] \in Messages(ServiceOf[x]))
    /\ faults \in Nat

Init ==
    /\ goal = [o \in Objects |-> "none"]
    /\ file = [o \in Objects |-> NoFile]
    /\ \E s \in Scenarios : turns = s.turns /\ faults = s.faults
    /\ call = [c \in Callers |-> NoCall]
    /\ db = [o \in Objects |-> NoRecord]
    /\ list = [c \in Callers |-> NoList]
    /\ res = [o \in Objects |-> [p \in AllParts |-> Nothing]]
    /\ pending = [o \in Objects |-> {}]
    /\ damaged = [o \in Objects |-> FALSE]

-----------------------------------------------------------------------------
(* Reads, and the files operators make.                                    *)

\* Parent.Get and Parent.List: what is on record, redacted.
ParentGet(o) == IF Recorded(o) THEN {Redact(db[o])} ELSE {}
ParentList(service) ==
    {[id |-> o, item |-> Redact(db[o])] : o \in {x \in Objects : ServiceOf[x] = service /\ Recorded(x)}}

\* "plugin get" prints one object, or all of a service.
get(o) == ParentGet(o) \cup {l.item : l \in {x \in ParentList(ServiceOf[o]) : x.id = o}}

\* An operator fills in the spec and the secret, or changes the spec.
Secret(type) ==
    CASE type \in {"awsVPC", "nebiusVPC"} -> ""
      [] type \in {"awsInstance", "azureVMSS"} -> Token
      [] type = "awsVPN" -> PreSharedKey

Written(o) == {Object(t, s, Secret(t)) : t \in Servers(ServiceOf[o]) \cap Types, s \in SpecsOf[o]}

Edited(o) == {[m EXCEPT !.spec = s] : m \in get(o), s \in SpecsOf[o]}

\* What may be applied for an object: the output of a config command as it is
\* or filled in, and the output of "plugin get" as it is or edited.
Files(o) ==
    Written(o) \cup get(o) \cup Edited(o)
    \cup UNION {configCommand(ServiceOf[o], SpecsOf[o], env) : env \in Environments}

Want(o) ==
    /\ turns[o] > 0
    /\ turns' = [turns EXCEPT ![o] = @ - 1]
    /\ \/ \E m \in Files(o) :
            goal' = [goal EXCEPT ![o] = "present"] /\ file' = [file EXCEPT ![o] = m]
       \/ goal' = [goal EXCEPT ![o] = "absent"] /\ file' = [file EXCEPT ![o] = NoFile]
    /\ UNCHANGED <<call, dbVars, res, faults, historyVars>>

-----------------------------------------------------------------------------
(* Calls.                                                                  *)

\* A call learns that another one works on the same object.
Begin(c, o, op, m, step) ==
    call' = [d \in Callers |->
        IF d = c THEN [op |-> op, o |-> o, obj |-> m, step |-> step, alone |-> ~Busy(o)]
        ELSE IF call[d] # NoCall /\ call[d].o = o THEN [call[d] EXCEPT !.alone = FALSE]
        ELSE call[d]]

At(c, step) == call[c] # NoCall /\ call[c].step = step

Goto(c, step) == call' = [call EXCEPT ![c].step = step]

\* The call returns an error.
Fails(c) == call' = [call EXCEPT ![c] = NoCall] /\ UNCHANGED res

Part(c, p) == res[call[c].o][p]

SetPart(c, p, v) == res' = [res EXCEPT ![call[c].o][p] = v]

GotStatus(c, p, step) ==
    call' = [call EXCEPT ![c].obj.status[p] = res'[call[c].o][p].id, ![c].step = step]

\* A new resource has an ID nothing refers to.
FreshId(o, p) ==
    CHOOSE i \in Ids :
        /\ Exists(o, p) => res[o][p].id # i
        /\ \A m \in {db[o], file[o]} \cup
                    {call[c].obj : c \in {d \in Callers : call[d] # NoCall /\ call[d].o = o}} \cup
                    {list[c][o] : c \in {d \in Callers : o \in DOMAIN list[d]}} :
             m.type = "none" \/ p \notin Parts(m.type) \/ m.status[p] # i

-----------------------------------------------------------------------------
(* Apply.                                                                  *)

FirstStep(type) ==
    CASE type \in AwsTypes -> "describe" [] type = "nebiusVPC" -> "pool" [] type = "azureVMSS" -> "put"

\* applyOne sends the object to Parent.CreateOrUpdate, which finds the back end
\* of its type.
Apply(c, o) ==
    /\ call[c] = NoCall
    /\ goal[o] = "present"
    /\ file[o].type \in Servers(ServiceOf[o])
    /\ Begin(c, o, "apply", file[o], FirstStep(file[o].type))
    /\ pending' = [pending EXCEPT ![o] = @ \cup {file[o].type}]
    /\ UNCHANGED <<operatorVars, dbVars, res, faults, damaged>>

\* Deploy looks for the stack by its name, which is made of the object's ID.
Deploy(c) ==
    /\ At(c, "describe")
    /\ Goto(c, IF Part(c, "stack") = Nothing THEN "create" ELSE "update")
    /\ UNCHANGED <<operatorVars, dbVars, res, faults, historyVars>>

Made(state, id, params) == [state |-> state, id |-> id, params |-> params]

\* An update replaces what it changes, which then has a new ID; "was" is what a
\* failed one goes back to.
Replaced(s, id, params) ==
    [state |-> "updating", id |-> id, params |-> params,
     was |-> [state |-> "updateRolledBack", id |-> s.id, params |-> s.params]]

create(c) ==
    /\ At(c, "create")
    /\ IF Part(c, "stack") = Nothing
       THEN /\ \E q \in Parameters(call[c].obj) :
                 SetPart(c, "stack", Made("creating", FreshId(call[c].o, "stack"), q))
            /\ Goto(c, "waitCreate")
       ELSE Fails(c)
    /\ UNCHANGED <<operatorVars, dbVars, faults, historyVars>>

\* Mutant: the update is not waited for.
UpdateUnawaited(c) ==
    /\ At(c, "update")
    /\ LET s == Part(c, "stack") IN
       IF s.state \in InUse
       THEN \E q \in Parameters(call[c].obj) :
              SetPart(c, "stack", Replaced(s, FreshId(call[c].o, "stack"), q)) /\ Goto(c, "outputs")
       ELSE Fails(c)
    /\ UNCHANGED <<operatorVars, dbVars, faults, historyVars>>

\* Mutant: an update that changes nothing is an error like others.
UpdateMustChange(c) ==
    /\ At(c, "update")
    /\ LET s == Part(c, "stack") IN
       \E q \in Parameters(call[c].obj) :
         IF s.state \in InUse /\ q # s.params
         THEN SetPart(c, "stack", Replaced(s, FreshId(call[c].o, "stack"), q)) /\ Goto(c, "waitUpdate")
         ELSE Fails(c)
    /\ UNCHANGED <<operatorVars, dbVars, faults, historyVars>>

\* An update that changes nothing is refused with a message that is no error;
\* one of a stack that cannot be updated now, or ever, is an error.
update(c) ==
    /\ At(c, "update")
    /\ LET s == Part(c, "stack") IN
       IF s.state \in InUse
       THEN \E q \in Parameters(call[c].obj) :
              IF q = s.params
              THEN Goto(c, "outputs") /\ UNCHANGED res
              ELSE /\ SetPart(c, "stack", Replaced(s, FreshId(call[c].o, "stack"), q))
                   /\ Goto(c, "waitUpdate")
       ELSE Fails(c)
    /\ UNCHANGED <<operatorVars, dbVars, faults, historyVars>>

wait(c) ==
    /\ At(c, "waitCreate") \/ At(c, "waitUpdate")
    /\ LET s == Part(c, "stack").state IN
       /\ s \notin InProgress
       /\ IF s = "complete" \/ (At(c, "waitCreate") /\ s = "updateRolledBack")
          THEN Goto(c, "outputs") /\ UNCHANGED res
          ELSE Fails(c)
    /\ UNCHANGED <<operatorVars, dbVars, faults, historyVars>>

\* GetStack reads the outputs that become the status.
GetStack(c) ==
    /\ At(c, "outputs")
    /\ IF Part(c, "stack") # Nothing
       THEN /\ UNCHANGED res
            /\ GotStatus(c, "stack", IF call[c].obj.type = "awsVPN" THEN "connection" ELSE "store")
       ELSE Fails(c)
    /\ UNCHANGED <<operatorVars, dbVars, faults, historyVars>>

\* The VPN connection the outputs name may be gone by now.
GetVpnConnection(c) ==
    /\ At(c, "connection")
    /\ IF /\ Part(c, "stack").state \in InUse \cup {"updating"}
          /\ Part(c, "stack").id = call[c].obj.status["stack"]
       THEN Goto(c, "store") /\ UNCHANGED res
       ELSE Fails(c)
    /\ UNCHANGED <<operatorVars, dbVars, faults, historyVars>>

-----------------------------------------------------------------------------
\* ResourceCRUD.CreateOrUpdate of the nebius client: found by the ID in the
\* status, or else by name, and then used as it is; created if not found.  The
\* cloud has one resource of a name, and wants what it is made from.
Found(c, p) ==
    /\ Part(c, p) # Nothing
    /\ call[c].obj.status[p] \in {NoId, Part(c, p).id}

BuiltFrom(p) == CASE p = "pool" -> {} [] p = "network" -> {"pool"} [] p = "subnet" -> {"network"}

Creatable(c, p) ==
    /\ Part(c, p) = Nothing
    /\ call[c].obj.spec # placeholder
    /\ \A b \in BuiltFrom(p) : Part(c, b) # Nothing

nebiusCreateOrUpdate(c, p, next) ==
    /\ At(c, p)
    /\ \/ Found(c, p) /\ UNCHANGED res /\ GotStatus(c, p, next)
       \/ /\ ~Found(c, p) /\ Creatable(c, p)
          /\ \E q \in Parameters(call[c].obj) :
               SetPart(c, p, Made("complete", FreshId(call[c].o, p), q))
          /\ GotStatus(c, p, next)
       \/ ~Found(c, p) /\ ~Creatable(c, p) /\ Fails(c)
    /\ UNCHANGED <<operatorVars, dbVars, faults, historyVars>>

DesiredPool(c) == nebiusCreateOrUpdate(c, "pool", "network")
DesiredNetwork(c) == nebiusCreateOrUpdate(c, "network", "subnet")
DesiredSubnet(c) == nebiusCreateOrUpdate(c, "subnet", "store")

-----------------------------------------------------------------------------
\* The scale set is put under the resource ID of the spec, which has to parse.
BeginCreateOrUpdate(c) ==
    /\ At(c, "put")
    /\ LET v == Part(c, "vmss") IN
       IF call[c].obj.spec # placeholder /\ v.state \notin InProgress
       THEN /\ \E q \in Parameters(call[c].obj) :
                 SetPart(c, "vmss", IF v = Nothing THEN Made("creating", NoId, q)
                                    ELSE Replaced(v, NoId, q))
            /\ Goto(c, "poll")
       ELSE Fails(c)
    /\ UNCHANGED <<operatorVars, dbVars, faults, historyVars>>

PollUntilDone(c) ==
    /\ At(c, "poll")
    /\ Part(c, "vmss").state \notin InProgress
    /\ IF Part(c, "vmss").state = "complete" THEN Goto(c, "store") /\ UNCHANGED res ELSE Fails(c)
    /\ UNCHANGED <<operatorVars, dbVars, faults, historyVars>>

-----------------------------------------------------------------------------
\* The operators are satisfied, unless they have changed their mind.
Done(o, wanted) == goal' = [goal EXCEPT ![o] = IF @ = wanted THEN "none" ELSE @]

\* The objects in the same file.
SameFile(o) == {x \in Objects : ServiceOf[x] = ServiceOf[o]}

\* StupidDB reads the list of the service ...
ReadList(c) ==
    /\ At(c, "store") \/ At(c, "drop")
    /\ call[c].o \notin DOMAIN list[c]
    /\ list' = [list EXCEPT ![c] = [x \in SameFile(call[c].o) |-> db[x]]]
    /\ UNCHANGED <<operatorVars, call, db, res, faults, historyVars>>

\* ... and writes it back with the object's record replaced, or taken out.
WriteList(c, m) ==
    /\ call[c].o \in DOMAIN list[c]
    /\ db' = [x \in Objects |->
                 IF x = call[c].o THEN m ELSE IF x \in DOMAIN list[c] THEN list[c][x] ELSE db[x]]
    /\ list' = [list EXCEPT ![c] = NoList]

\* Calls that have read the list and will put the record back as they found it;
\* what is on record then and now may be gone or off record once they have.
Overlapping(c) == {d \in Callers \ {c} : call[c].o \in DOMAIN list[d]}

PutBack(c) ==
    IF Overlapping(c) = {} THEN {}
    ELSE Types \cap ({call[c].obj.type, db[call[c].o].type}
                       \cup {list[d][call[c].o].type : d \in Overlapping(c)})

\* Parent.CreateOrUpdate writes the record the back end returned; the redacted
\* copy goes to the caller.
Store(c) ==
    /\ At(c, "store")
    /\ LET o == call[c].o
           m == call[c].obj
           others == IF Recorded(o) /\ db[o].type # m.type THEN {db[o].type} ELSE {} IN
       /\ WriteList(c, m)
       /\ Done(o, "present")
       /\ pending' = [pending EXCEPT
                        ![o] = PutBack(c) \cup others \cup IF call[c].alone THEN @ \ {m.type} ELSE @]
       /\ damaged' = [damaged EXCEPT ![o] = ~call[c].alone]
    /\ call' = [call EXCEPT ![c] = NoCall]
    /\ UNCHANGED <<file, turns, res, faults>>

-----------------------------------------------------------------------------
(* Delete.                                                                 *)

\* Mutant: deleting what is not on record is an error.
DeleteMustFind(c, o) ==
    /\ call[c] = NoCall
    /\ goal[o] = "absent"
    /\ Recorded(o)
    /\ Begin(c, o, "delete", db[o], "load")
    /\ damaged' = [damaged EXCEPT ![o] = TRUE]
    /\ UNCHANGED <<operatorVars, dbVars, res, faults, pending>>

\* Parent.Delete reads the record for its type.  Without one there is nothing to
\* delete.
Delete(c, o) ==
    /\ call[c] = NoCall
    /\ goal[o] = "absent"
    /\ IF Recorded(o)
       THEN /\ Begin(c, o, "delete", db[o], "load")
            /\ damaged' = [damaged EXCEPT ![o] = TRUE]
            /\ UNCHANGED goal
       ELSE Done(o, "absent") /\ UNCHANGED <<call, damaged>>
    /\ UNCHANGED <<file, turns, dbVars, res, faults, pending>>

\* The back end reads the record again: it may be gone, or of another type.  A
\* record that is gone tells of another call at work on the object or its file.
LoadRecord(c, type, next) ==
    /\ At(c, "load")
    /\ call[c].obj.type = type
    /\ LET m == db[call[c].o] IN
       \/ m = NoRecord /\ call' = [call EXCEPT ![c].step = "drop", ![c].alone = FALSE]
       \/ m # NoRecord /\ m.type # type /\ call' = [call EXCEPT ![c] = NoCall]
       \/ m # NoRecord /\ m.type = type /\ call' = [call EXCEPT ![c].obj = m, ![c].step = next]
    /\ UNCHANGED <<operatorVars, dbVars, res, faults, historyVars>>

awsNetworkDelete(c) == LoadRecord(c, "awsVPC", "deleteStack")
awsAgentPoolDelete(c) == LoadRecord(c, "awsInstance", "deleteStack")
awsPeeringDelete(c) == LoadRecord(c, "awsVPN", "deleteStack")
azureAgentPoolDelete(c) == LoadRecord(c, "azureVMSS", "beginDelete")
nebiusNetworkDelete(c) == LoadRecord(c, "nebiusVPC", "deleteSubnet")

\* A stack or a scale set is not deleted while it is updated; one that is not
\* there counts as deleted.
RequestDelete(c, p, step) ==
    LET s == Part(c, p) IN
    \/ s.state = "updating" /\ Fails(c)
    \/ s = Nothing /\ Goto(c, step) /\ UNCHANGED res
    \/ /\ s.state \notin {"none", "updating"}
       /\ SetPart(c, p, [s EXCEPT !.state = "deleting"])
       /\ Goto(c, step)

\* Mutant: the delete is not waited for.
DeleteUnawaited(c, p) == Goto(c, "drop") /\ UNCHANGED res

AwaitDelete(c, p) ==
    /\ Part(c, p).state \notin InProgress
    /\ IF Part(c, p) = Nothing THEN Goto(c, "drop") /\ UNCHANGED res ELSE Fails(c)

DeleteStack(c) ==
    /\ At(c, "deleteStack")
    /\ RequestDelete(c, "stack", "waitDelete")
    /\ UNCHANGED <<operatorVars, dbVars, faults, historyVars>>

WaitDelete(c) ==
    /\ At(c, "waitDelete")
    /\ AwaitDelete(c, "stack")
    /\ UNCHANGED <<operatorVars, dbVars, faults, historyVars>>

BeginDelete(c) ==
    /\ At(c, "beginDelete")
    /\ RequestDelete(c, "vmss", "pollDelete")
    /\ UNCHANGED <<operatorVars, dbVars, faults, historyVars>>

PollDelete(c) ==
    /\ At(c, "pollDelete")
    /\ AwaitDelete(c, "vmss")
    /\ UNCHANGED <<operatorVars, dbVars, faults, historyVars>>

\* ResourceCRUD.Delete by the recorded ID, which counts a resource that is not
\* found as deleted.  The cloud keeps what something else is made from.
nebiusDelete(c, p, next) ==
    LET there == Part(c, p) # Nothing /\ Part(c, p).id = call[c].obj.status[p]
        used == \E q \in Parts("nebiusVPC") : Part(c, q) # Nothing /\ p \in BuiltFrom(q) IN
    \/ ~there /\ Goto(c, next) /\ UNCHANGED res
    \/ there /\ ~used /\ SetPart(c, p, Nothing) /\ Goto(c, next)
    \/ there /\ used /\ Fails(c)

nebiusDeletes(c) ==
    /\ \/ At(c, "deleteSubnet") /\ nebiusDelete(c, "subnet", "deleteNetwork")
       \/ At(c, "deleteNetwork") /\ nebiusDelete(c, "network", "deletePool")
       \/ At(c, "deletePool") /\ nebiusDelete(c, "pool", "drop")
    /\ UNCHANGED <<operatorVars, dbVars, faults, historyVars>>

\* What is deleted by its name, and so whatever ID it has by now.
ByName(type) == type # "nebiusVPC"

\* Parent.Delete removes the record last.
Drop(c) ==
    /\ At(c, "drop")
    /\ LET o == call[c].o
           t == call[c].obj.type IN
       /\ WriteList(c, NoRecord)
       /\ Done(o, "absent")
       /\ pending' = [pending EXCEPT
                        ![o] = PutBack(c) \cup
                               IF ~call[c].alone THEN @ \cup {t} \cup ({db[o].type} \cap Types)
                               ELSE IF ByName(t) THEN @ \ {t} ELSE @]
       /\ damaged' = [damaged EXCEPT ![o] = FALSE]
    /\ call' = [call EXCEPT ![c] = NoCall]
    /\ UNCHANGED <<file, turns, res, faults>>

-----------------------------------------------------------------------------
(* Failures and the clouds.                                                *)

\* A call is refused, times out, or dies with its process.
Cut(c) ==
    /\ call[c] # NoCall
    /\ faults > 0
    /\ faults' = faults - 1
    /\ call' = [call EXCEPT ![c] = NoCall]
    /\ list' = [list EXCEPT ![c] = NoList]
    /\ UNCHANGED <<operatorVars, db, res, historyVars>>

\* The process dies between Truncate and Write: the records of the service go.
CutTruncated(c) ==
    /\ call[c] # NoCall
    /\ list[c] # NoList
    /\ faults > 0
    /\ faults' = faults - 1
    /\ call' = [call EXCEPT ![c] = NoCall]
    /\ list' = [list EXCEPT ![c] = NoList]
    /\ db' = [x \in Objects |-> IF x \in DOMAIN list[c] THEN NoRecord ELSE db[x]]
    /\ pending' = [x \in Objects |->
                      IF x \in DOMAIN list[c] THEN pending[x] \cup ({db[x].type} \cap Types)
                      ELSE pending[x]]
    /\ UNCHANGED <<operatorVars, res, damaged>>

Dependents(o) == {d \in Objects : NetworkOf[d] = o /\ res[d]["stack"].state \notin {"none", "rolledBack"}}

\* What a stack is made of has to be there.
NetworkReady(o) ==
    NetworkOf[o] # Elsewhere => res[NetworkOf[o]]["stack"].state \in InUse

Unmakeable(o, p) == res[o][p].params.spec = placeholder \/ (p = "stack" /\ ~NetworkReady(o))

\* The cloud ends the work on a stack or a scale set.
Settles(o, p, state) ==
    res' = [res EXCEPT ![o][p] = Made(state, @.id, @.params)]

CloudWorks(o, p) ==
    /\ p \in {"stack", "vmss"}
    /\ \/ /\ res[o][p].state \in {"creating", "updating"} /\ ~Unmakeable(o, p)
          /\ Settles(o, p, "complete")
       \/ /\ res[o][p].state = "deleting"
          /\ IF Dependents(o) = {} THEN res' = [res EXCEPT ![o][p] = Nothing]
                                   ELSE Settles(o, p, "deleteFailed")
    /\ UNCHANGED <<operatorVars, call, dbVars, faults, historyVars>>

\* ... or gives up; a stack that could not be made stays as "rolledBack".
CloudFails(o, p) ==
    /\ p \in {"stack", "vmss"}
    /\ res[o][p].state \in {"creating", "updating"}
    /\ IF Unmakeable(o, p) THEN UNCHANGED faults ELSE faults > 0 /\ faults' = faults - 1
    /\ \/ p = "vmss" /\ Settles(o, p, "failed")
       \/ /\ p = "stack" /\ res[o][p].state = "creating"
          /\ Settles(o, p, "rolledBack")
       \/ /\ p = "stack" /\ res[o][p].state = "updating"
          /\ res' = [res EXCEPT ![o][p] = @.was]
    /\ UNCHANGED <<operatorVars, call, dbVars, historyVars>>

-----------------------------------------------------------------------------
Step(c) ==
    \/ Deploy(c) \/ create(c) \/ update(c) \/ wait(c) \/ GetStack(c) \/ GetVpnConnection(c)
    \/ DesiredPool(c) \/ DesiredNetwork(c) \/ DesiredSubnet(c)
    \/ BeginCreateOrUpdate(c) \/ PollUntilDone(c) \/ ReadList(c) \/ Store(c)
    \/ awsNetworkDelete(c) \/ awsAgentPoolDelete(c) \/ awsPeeringDelete(c)
    \/ azureAgentPoolDelete(c) \/ nebiusNetworkDelete(c)
    \/ DeleteStack(c) \/ WaitDelete(c) \/ BeginDelete(c) \/ PollDelete(c) \/ nebiusDeletes(c)
    \/ Drop(c)

Start(o) == \E c \in Callers : Apply(c, o) \/ Delete(c, o)

Cloud(o) == \E p \in {"stack", "vmss"} : CloudWorks(o, p) \/ CloudFails(o, p)

Next ==
    \/ \E o \in Objects : Want(o) \/ Start(o) \/ Cloud(o)
    \/ \E c \in Callers : Step(c) \/ Cut(c) \/ CutTruncated(c)

Spec == Init /\ [][Next]_vars

\* Operators repeat what has not succeeded, processes run, clouds do their work.
Fairness ==
    /\ \A o \in Objects : SF_vars(Start(o)) /\ WF_vars(Cloud(o))
    /\ \A c \in Callers : WF_vars(Step(c))

FairSpec == Spec /\ Fairness

-----------------------------------------------------------------------------
(* Properties.                                                             *)

\* A record that no apply of its type was cut on or raced for, that no other
\* process put back, and that no delete has begun to take apart, describes the
\* cloud: each resource is there and in use, under the ID of the status, and a
\* stack or a scale set is made as the record says (Parent.CreateOrUpdate stores
\* what the back end deployed).  A nebius resource is used as it is found: its
\* drift detection is a TODO.
RecordBacked ==
    \A o \in Objects :
        Recorded(o) /\ ~damaged[o] /\ db[o].type \notin pending[o] =>
            \A p \in Parts(db[o].type) :
                /\ res[o][p].state \in {"complete", "updateRolledBack"}
                /\ res[o][p].id = db[o].status[p]
                /\ db[o].type # "nebiusVPC" => res[o][p].params \in Parameters(db[o])

\* What exists off record, with nobody at work on it, was left by an apply that
\* was cut or ran beside another call on the object, or its record was replaced
\* by one of another type, undone by a process that had read the list of the
\* service before, or lost with the file when a process died between Truncate
\* and Write.  Delete of a stack or a scale set removes even what a cut apply
\* left (Parent.Delete).
NoOrphans ==
    \A o \in Objects : ~Busy(o) =>
        \A t \in Types \cap Servers(ServiceOf[o]) :
            (~Recorded(o) \/ db[o].type # t) /\ (\E p \in Parts(t) : Exists(o, p))
                => t \in pending[o]

\* An apply that cannot succeed: of a file still to be filled in, over a stack
\* that rolled back or could not be deleted, into a network that is not there,
\* or with the ID of a nebius resource that was replaced.
Stuck(o) ==
    \/ file[o].spec = placeholder
    \/ /\ file[o].type \in AwsTypes
       /\ res[o]["stack"].state \in {"rolledBack", "deleteFailed"} \/ ~NetworkReady(o)
    \/ /\ file[o].type = "nebiusVPC"
       /\ \E p \in Parts("nebiusVPC") : Exists(o, p) /\ file[o].status[p] \notin {NoId, res[o][p].id}

\* Once operators leave things alone and nothing fails any more, the applies
\* they repeat have succeeded or their objects are stuck (a rolled back stack is
\* never created anew: Deploy only updates what DescribeStacks finds).
ApplyCompletes ==
    <>[](\A o \in Objects : goal[o] = "present" => Stuck(o))

\* ... and the deletes have, unless the network is still in use.
DeleteCompletes ==
    <>[](\A o \in Objects :
            goal[o] = "absent" => Dependents(o) # {} \/ "nebiusVPC" \in pending[o])
=============================================================================
