------------------------------ MODULE ObjectDB ------------------------------
(***************************************************************************)
(* What the plugin's services expect of db.DB (plugin/pkg/db/db.go): a map *)
(* from IDs to objects on which every CreateOrUpdate, Delete and Get takes *)
(* effect at one instant between its call and its return.  A crash drops   *)
(* the calls in progress, each of which has taken effect or has not.       *)
(***************************************************************************)
CONSTANTS
    Clients,    \* goroutines that call the database
    Ids,        \* object IDs
    Values,     \* object contents
    NoValue     \* marks an ID without an object

VARIABLES
    objs,       \* the objects
    ctl,        \* per client: "ready", "busy" (called), "done" (took effect)
    call        \* per client: the call in progress or last made

dbVars == <<objs, ctl, call>>

Objects == [Ids -> Values \cup {NoValue}]

Calls ==
    [kind : {"put"}, id : Ids, val : Values]
    \cup [kind : {"get", "delete"}, id : Ids, val : Values \cup {NoValue}]

\* The objects after a call, and what the call answers.
After(o, r) ==
    CASE r.kind = "put"    -> [o EXCEPT ![r.id] = r.val]
      [] r.kind = "delete" -> [o EXCEPT ![r.id] = NoValue]
      [] r.kind = "get"    -> o

Answer(o, r) == IF r.kind = "get" THEN [r EXCEPT !.val = o[r.id]] ELSE r

Init ==
    /\ objs = [i \in Ids |-> NoValue]
    /\ ctl = [c \in Clients |-> "ready"]
    /\ call \in [Clients -> Calls]

Call(c) ==
    /\ ctl[c] = "ready"
    /\ \E r \in Calls : call' = [call EXCEPT ![c] = r]
    /\ ctl' = [ctl EXCEPT ![c] = "busy"]
    /\ UNCHANGED objs

Do(c) ==
    /\ ctl[c] = "busy"
    /\ objs' = After(objs, call[c])
    /\ call' = [call EXCEPT ![c] = Answer(objs, @)]
    /\ ctl' = [ctl EXCEPT ![c] = "done"]

Return(c) ==
    /\ ctl[c] = "done"
    /\ ctl' = [ctl EXCEPT ![c] = "ready"]
    /\ UNCHANGED <<objs, call>>

Crash ==
    /\ ctl' = [c \in Clients |-> "ready"]
    /\ UNCHANGED <<objs, call>>

Next == Crash \/ \E c \in Clients : Call(c) \/ Do(c) \/ Return(c)

Spec == Init /\ [][Next]_dbVars
=============================================================================
