----------------------- MODULE NodeControllersProofs -----------------------
(***************************************************************************)
(* Proofs about NodeControllers, for any NodeClaims and Nodes and any      *)
(* number of failing patches: the types, and where provider IDs come from. *)
(***************************************************************************)
EXTENDS NodeControllers, TLAPS

\* Each object of the NodeClass was written once when it was applied, once if it
\* is ready and once if it is being deleted: no version beyond 3 is reached.
Object(o) ==
    /\ o = [exists |-> o.exists, deleting |-> o.deleting, finalizer |-> o.finalizer,
            ready |-> o.ready, version |-> o.version]
    /\ o.exists \in BOOLEAN /\ o.deleting \in BOOLEAN /\ o.finalizer \in BOOLEAN /\ o.ready \in BOOLEAN
    /\ o.version \in Nat
    /\ o.version <= 1 + (IF o.ready THEN 1 ELSE 0) + (IF o.deleting THEN 1 ELSE 0)

ClassTypes ==
    /\ Object(class) /\ Object(cachedClass)
    /\ term = [pc |-> term.pc, seen |-> term.seen]
    /\ term.pc \in {"idle", "list", "patch"} /\ Object(term.seen)
    /\ statusQueued \in BOOLEAN /\ termQueued \in BOOLEAN /\ waiting \in BOOLEAN

\* A reconcile that is about to patch works on a Node of Karpenter whose NodeClaim
\* had its ID when it was read.  A cached NodeClaim is one the API server had: it
\* never shows an ID before the API server does.
Reads ==
    \A n \in Names :
        /\ pc[n] \in {"get", "patch"} => n \notin Unlabelled
        /\ pc[n] = "patch" => cachedClaim[n] \in {"launched", "gone"}
        /\ cachedClaim[n] = "launching" => claim[n] # "unborn"
        /\ cachedClaim[n] = "launched" => claim[n] \in {"launched", "gone"}
        /\ cachedClaim[n] = "gone" => claim[n] = "gone"

IInv == ID!TypeOK /\ ClassTypes /\ Reads /\ IDsComeFromClaims

-----------------------------------------------------------------------------
\* The object that is not there.
LEMMA GoneObject == Object(Class!Gone)
BY DEF Object, Class!Gone

\* The types of the NodeClass controllers bound the versions.
LEMMA ClassTyped == ClassTypes => Class!TypeOK
<1> SUFFICES ASSUME ClassTypes PROVE Class!TypeOK
  OBVIOUS
<1>1. ASSUME NEW o, Object(o)
      PROVE  o \in [exists : BOOLEAN, deleting : BOOLEAN, finalizer : BOOLEAN, ready : BOOLEAN,
                    version : Class!Versions]
  <2>1. o.version \in 0..4
    BY <1>1 DEF Object
  <2> QED
    BY <1>1, <2>1 DEF Object, Class!Versions
<1>2. Present(claim) \subseteq Names /\ Present(cachedClaim) \subseteq Names
  BY DEF Present
<1> QED
  BY <1>1, <1>2 DEF ClassTypes, Class!TypeOK

\* At first no reconcile is under way.
LEMMA InitInv == Init => IInv
<1> SUFFICES ASSUME Init PROVE IInv
  OBVIOUS
<1>1. ID!TypeOK /\ Reads /\ IDsComeFromClaims
  BY MaxErrorsAssumption DEF Init, ID!Init, ID!TypeOK, ID!ClaimStates, ID!NodeStates, Reads,
     IDsComeFromClaims, ID!IDsComeFromClaims
<1>2. ClassTypes
  <2>1. PICK f \in BOOLEAN : class = [exists |-> TRUE, deleting |-> FALSE, finalizer |-> f, ready |-> FALSE, version |-> 1]
    BY DEF Init, Class!Init
  <2>2. Object(class)
    BY <2>1 DEF Object
  <2> QED
    BY <2>2, GoneObject DEF Init, Class!Init, ClassTypes, Class!Idle
<1> QED
  BY <1>1, <1>2 DEF IInv

-----------------------------------------------------------------------------
(* Steps of the NodeClass controllers.                                     *)

\* A write adds 1 to the version and marks what it stands for.
LEMMA Written ==
  ASSUME NEW o, Object(o)
  PROVE  /\ ~o.ready => Object([o EXCEPT !.ready = TRUE, !.version = @ + 1])
         /\ ~o.deleting => Object([o EXCEPT !.deleting = TRUE, !.version = @ + 1])
<1>1. ASSUME ~o.ready PROVE Object([o EXCEPT !.ready = TRUE, !.version = @ + 1])
  <2>1. PICK w : w = [o EXCEPT !.ready = TRUE, !.version = @ + 1]
    OBVIOUS
  <2>2. w = [exists |-> o.exists, deleting |-> o.deleting, finalizer |-> o.finalizer, ready |-> TRUE,
                version |-> o.version + 1]
    BY <2>1 DEF Object
  <2>3. /\ w.exists = o.exists /\ w.deleting = o.deleting /\ w.finalizer = o.finalizer
        /\ w.ready = TRUE /\ w.version = o.version + 1
    BY <2>2
  <2>4. w = [exists |-> w.exists, deleting |-> w.deleting, finalizer |-> w.finalizer,
             ready |-> w.ready, version |-> w.version]
    BY <2>2
  <2>5. w.version \in Nat /\ w.version <= 1 + (IF w.ready THEN 1 ELSE 0) + (IF w.deleting THEN 1 ELSE 0)
    BY <1>1, <2>3 DEF Object
  <2> QED
    BY <2>1, <2>3, <2>4, <2>5 DEF Object
<1>2. ASSUME ~o.deleting PROVE Object([o EXCEPT !.deleting = TRUE, !.version = @ + 1])
  <2>1. PICK w : w = [o EXCEPT !.deleting = TRUE, !.version = @ + 1]
    OBVIOUS
  <2>2. w = [exists |-> o.exists, deleting |-> TRUE, finalizer |-> o.finalizer, ready |-> o.ready,
                version |-> o.version + 1]
    BY <2>1 DEF Object
  <2>3. /\ w.exists = o.exists /\ w.deleting = TRUE /\ w.finalizer = o.finalizer
        /\ w.ready = o.ready /\ w.version = o.version + 1
    BY <2>2
  <2>4. w = [exists |-> w.exists, deleting |-> w.deleting, finalizer |-> w.finalizer,
             ready |-> w.ready, version |-> w.version]
    BY <2>2
  <2>5. w.version \in Nat /\ w.version <= 1 + (IF w.ready THEN 1 ELSE 0) + (IF w.deleting THEN 1 ELSE 0)
    BY <1>2, <2>3 DEF Object
  <2> QED
    BY <2>1, <2>3, <2>4, <2>5 DEF Object
<1> QED
  BY <1>1, <1>2

\* The steps of the NodeClass controllers, the user and the informer.
ClassMoves ==
    \/ Class!StatusReconcile \/ Class!TermStart \/ Class!TermList \/ Class!TermPatch
    \/ Class!TermFails \/ Class!TimerFires \/ Class!DeleteClass \/ Class!SyncClass

\* They keep the types of the NodeClass.
LEMMA ClassMovesKeep == ClassTypes /\ ClassMoves => ClassTypes'
<1> SUFFICES ASSUME ClassTypes, ClassMoves PROVE ClassTypes'
  OBVIOUS
<1>1. CASE Class!StatusReconcile
  <2>1. Object(class')
    <3>1. CASE ~class.ready /\ class' = [class EXCEPT !.ready = TRUE, !.version = @ + 1]
      BY <3>1, Written DEF ClassTypes
    <3>2. CASE class' = class
      BY <3>2 DEF ClassTypes
    <3> QED
      BY <1>1, <3>1, <3>2 DEF Class!StatusReconcile, Class!ensureFinalizer
  <2> QED
    BY <1>1, <2>1 DEF Class!StatusReconcile, ClassTypes
<1>2. CASE Class!TermStart
  BY <1>2, GoneObject DEF Class!TermStart, ClassTypes, Class!Idle
<1>3. CASE Class!TermList
  <2>1. CASE term' = Class!Idle
    BY <1>3, <2>1, GoneObject DEF Class!TermList, ClassTypes, Class!Idle
  <2>2. CASE term' = [term EXCEPT !.pc = "patch"] /\ waiting' = waiting
    <3>1. term' = [pc |-> "patch", seen |-> term.seen]
      BY <2>2 DEF ClassTypes
    <3>2. /\ UNCHANGED <<class, cachedClass, statusQueued, termQueued, waiting>>
      BY <1>3, <2>2 DEF Class!TermList
    <3> QED
      BY <3>1, <3>2 DEF ClassTypes
  <2> QED
    BY <1>3, <2>1, <2>2 DEF Class!TermList
<1>4. CASE Class!TermPatch
  BY <1>4, GoneObject DEF Class!TermPatch, ClassTypes, Class!Idle
<1>5. CASE Class!TimerFires
  BY <1>5 DEF Class!TimerFires, ClassTypes
<1>6. CASE Class!DeleteClass
  <2>1. Object(class')
    <3>1. CASE ~class.deleting /\ class' = [class EXCEPT !.deleting = TRUE, !.version = @ + 1]
      BY <3>1, Written DEF ClassTypes
    <3>2. CASE class' = Class!Gone
      BY <3>2, GoneObject
    <3> QED
      BY <1>6, <3>1, <3>2 DEF Class!DeleteClass
  <2> QED
    BY <1>6, <2>1 DEF Class!DeleteClass, ClassTypes
<1>7. CASE Class!SyncClass
  BY <1>7 DEF Class!SyncClass, ClassTypes
<1>8. CASE Class!TermFails
  BY <1>8, GoneObject DEF Class!TermFails, ClassTypes, Class!Idle
<1> QED
  BY <1>1, <1>2, <1>3, <1>4, <1>5, <1>6, <1>7, <1>8 DEF ClassMoves

-----------------------------------------------------------------------------
(* Steps of the provider ID controller, the machines and the NodeClaims.   *)

NInv == ID!TypeOK /\ Reads /\ ID!IDsComeFromClaims

\* Every step of the provider ID controller's own specification keeps its part of
\* the invariant.
LEMMA NodeStepKeeps == NInv /\ ID!Next => NInv'
<1> SUFFICES ASSUME NInv, NEW n \in Names,
                    \/ ID!Reconcile(n) \/ ID!PatchFails(n) \/ ID!TimerFires(n)
                    \/ ID!CreateClaim(n) \/ ID!Launched(n) \/ ID!DeleteClaim(n)
                    \/ ID!NodeJoins(n) \/ ID!RemoveNode(n)
                    \/ ID!SyncNode(n) \/ ID!SyncClaim(n)
             PROVE  NInv'
  BY DEF ID!Next
<1> USE MaxErrorsAssumption DEF NInv, ID!TypeOK, ID!ClaimStates, ID!NodeStates, Reads, ID!IDsComeFromClaims, ID!Goto
<1>1. CASE ID!ReconcileStart(n)
  BY <1>1 DEF ID!ReconcileStart
<1>2. CASE ID!ReconcileGet(n)
  BY <1>2 DEF ID!ReconcileGet
<1>3. CASE ID!Patch(n)
  BY <1>3 DEF ID!Patch
<1>4. CASE ID!PatchFails(n)
  BY <1>4 DEF ID!PatchFails
<1>5. CASE ID!TimerFires(n)
  BY <1>5 DEF ID!TimerFires
<1>6. CASE ID!CreateClaim(n)
  BY <1>6 DEF ID!CreateClaim
<1>7. CASE ID!Launched(n)
  BY <1>7 DEF ID!Launched
<1>8. CASE ID!DeleteClaim(n)
  BY <1>8 DEF ID!DeleteClaim
<1>9. CASE ID!NodeJoins(n)
  BY <1>9 DEF ID!NodeJoins
<1>10. CASE ID!RemoveNode(n)
  BY <1>10 DEF ID!RemoveNode
<1>11. CASE ID!SyncNode(n)
  BY <1>11 DEF ID!SyncNode
<1>12. CASE ID!SyncClaim(n)
  BY <1>12 DEF ID!SyncClaim
<1> QED
  BY <1>1, <1>2, <1>3, <1>4, <1>5, <1>6, <1>7, <1>8, <1>9, <1>10, <1>11, <1>12 DEF ID!Reconcile

-----------------------------------------------------------------------------
(* The composition.                                                        *)

\* The provider ID controller sees a step of its own, or nothing.
LEMMA StepOfID == [Next]_vars => [ID!Next]_(ID!vars)
<1> SUFFICES ASSUME [Next]_vars PROVE [ID!Next]_(ID!vars)
  OBVIOUS
<1>1. ASSUME UNCHANGED <<claimVars, nodeVars>> PROVE UNCHANGED ID!vars
  BY <1>1 DEF claimVars, nodeVars, ID!vars
<1>2. CASE StatusReconcile \/ TermStart \/ TermList \/ TermPatch \/ TermFails \/ TermTimer \/ DeleteClass \/ SyncClass
  BY <1>1, <1>2 DEF StatusReconcile, TermStart, TermList, TermPatch, TermFails, TermTimer, DeleteClass, SyncClass, ClassStep
<1>3. ASSUME NEW n \in Names,
             \/ Reconcile(n) \/ NodeTimer(n) \/ SyncNode(n) \/ NodeStep(n)
             \/ CreateClaim(n) \/ DeleteClaim(n) \/ SyncClaim(n)
      PROVE  ID!Next
  BY <1>3 DEF Reconcile, NodeTimer, SyncNode, NodeStep, CreateClaim, DeleteClaim, SyncClaim, ID!Next
<1>4. CASE UNCHANGED vars
  BY <1>1, <1>4 DEF vars
<1> QED
  BY <1>2, <1>3, <1>4 DEF Next

\* Every step of the composition keeps the types of the NodeClass controllers.
LEMMA ClassTypesKept == ClassTypes /\ [Next]_vars => ClassTypes'
<1> SUFFICES ASSUME ClassTypes, [Next]_vars PROVE ClassTypes'
  OBVIOUS
<1>1. CASE StatusReconcile \/ TermStart \/ TermList \/ TermPatch \/ TermFails \/ TermTimer \/ DeleteClass \/ SyncClass
  BY <1>1, ClassMovesKeep DEF StatusReconcile, TermStart, TermList, TermPatch, TermFails, TermTimer, DeleteClass, SyncClass,
     ClassStep, ClassMoves
<1>2. ASSUME UNCHANGED <<class, cachedClass, statusQueued, waiting, term>>, termQueued' \in BOOLEAN PROVE ClassTypes'
  BY <1>2 DEF ClassTypes
<1>3. ASSUME UNCHANGED classVars PROVE ClassTypes'
  BY <1>3 DEF classVars, ClassTypes
<1>4. ASSUME NEW n \in Names, Reconcile(n) \/ NodeTimer(n) \/ SyncNode(n) \/ NodeStep(n) PROVE ClassTypes'
  BY <1>3, <1>4 DEF Reconcile, NodeTimer, SyncNode, NodeStep
<1>5. ASSUME NEW n \in Names, CreateClaim(n) \/ DeleteClaim(n) PROVE ClassTypes'
  BY <1>2, <1>5 DEF CreateClaim, DeleteClaim, Class!CreateClaim, Class!DeleteClaim, ClassTypes
<1>6. ASSUME NEW n \in Names, SyncClaim(n) PROVE ClassTypes'
  BY <1>2, <1>3, <1>6 DEF SyncClaim, Class!SyncClaim, ClassTypes
<1>7. CASE UNCHANGED vars
  BY <1>3, <1>7 DEF vars
<1> QED
  BY <1>1, <1>4, <1>5, <1>6, <1>7 DEF Next

\* The invariant is inductive.
LEMMA InvStep == IInv /\ [Next]_vars => IInv'
<1> SUFFICES ASSUME IInv, [Next]_vars PROVE IInv'
  OBVIOUS
<1>1. NInv
  BY DEF IInv, NInv, IDsComeFromClaims
<1>2. NInv'
  <2>1. CASE ID!Next
    BY <1>1, <2>1, NodeStepKeeps
  <2>2. CASE UNCHANGED ID!vars
    BY <1>1, <2>2 DEF ID!vars, NInv, ID!TypeOK, Reads, ID!IDsComeFromClaims
  <2> QED
    BY <2>1, <2>2, StepOfID
<1>3. ClassTypes'
  BY ClassTypesKept DEF IInv
<1> QED
  BY <1>2, <1>3 DEF IInv, NInv, IDsComeFromClaims

-----------------------------------------------------------------------------
\* The types of both parts, for any NodeClaims and Nodes; the NodeClass is never
\* written more often than its versions tell (NewControllers).
THEOREM TypeCorrect == Spec => []TypeOK
<1>1. IInv => TypeOK
  BY ClassTyped DEF IInv, TypeOK
<1> QED
  BY <1>1, InitInv, InvStep, PTL DEF Spec

\* No Node gets an ID that its NodeClaim did not have, through stale reads,
\* failing patches and deletions between the reads and the patch
\* (SetProviderIDController.Reconcile).
THEOREM IDsFromClaims == Spec => []IDsComeFromClaims
<1>1. IInv => IDsComeFromClaims
  BY DEF IInv
<1> QED
  BY <1>1, InitInv, InvStep, PTL DEF Spec
=============================================================================
