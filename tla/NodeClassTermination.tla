------------------------ MODULE NodeClassTermination ------------------------
(***************************************************************************)
(* The status and the termination controller of one NebiusNodeClass        *)
(* (karpenter/pkg/controllers/nebius).  Both read through the informer     *)
(* cache, which lags behind the API server object by object, and write to  *)
(* the API server.                                                         *)
(***************************************************************************)
EXTENDS Integers

CONSTANT Claims     \* NodeClaims that may come to reference the NodeClass

VARIABLES
    class,          \* the NodeClass object in the API server
    cachedClass,    \* the same in the informer cache
    claims,         \* the NodeClaims in the API server
    cachedClaims,   \* the same in the informer cache
    unborn,         \* NodeClaims not created yet
    statusQueued,   \* a request in the status controller's work queue
    termQueued,     \* a request in the termination controller's work queue
    waiting,        \* the termination controller's 10 minute requeue is pending
    term            \* the termination reconcile under way, with its snapshot

vars == <<class, cachedClass, claims, cachedClaims, unborn, statusQueued, termQueued,
          waiting, term>>

Gone == [exists |-> FALSE, deleting |-> FALSE, finalizer |-> FALSE, ready |-> FALSE, version |-> 0]

Idle == [pc |-> "idle", seen |-> Gone]

\* At most four writes to the object are possible before it is gone.
Versions == 0..4

TypeOK ==
    /\ {class, cachedClass, term.seen} \subseteq
          [exists : BOOLEAN, deleting : BOOLEAN, finalizer : BOOLEAN, ready : BOOLEAN,
           version : Versions]
    /\ term.pc \in {"idle", "list", "patch"}
    /\ claims \subseteq Claims /\ cachedClaims \subseteq Claims /\ unborn \subseteq Claims
    /\ {statusQueued, termQueued, waiting} \subseteq BOOLEAN

\* A user applies a NodeClass; its manifest may carry the finalizer.
Init ==
    /\ \E f \in BOOLEAN :
         class = [exists |-> TRUE, deleting |-> FALSE, finalizer |-> f, ready |-> FALSE,
                  version |-> 1]
    /\ cachedClass = Gone
    /\ claims = {} /\ cachedClaims = {} /\ unborn = Claims
    /\ statusQueued = FALSE /\ termQueued = FALSE /\ waiting = FALSE
    /\ term = Idle

-----------------------------------------------------------------------------
(* The controllers.                                                        *)

\* What ensureFinalizer leaves in the API server.  The patch it sends is the
\* difference between an object and itself, which is empty, and the status
\* patch that follows cannot change metadata.
ensureFinalizer(o) == o

\* Mutant: the status is patched with a new value every time.
StatusReconcileAlways ==
    /\ statusQueued
    /\ statusQueued' = FALSE
    /\ class' = IF cachedClass.exists /\ class.exists
                THEN [class EXCEPT !.ready = TRUE, !.version = @ + 1] ELSE class
    /\ UNCHANGED <<cachedClass, claims, cachedClaims, unborn, termQueued, waiting, term>>

\* NodeClassStatusController.Reconcile: the finalizer, then the status.
StatusReconcile ==
    /\ statusQueued
    /\ statusQueued' = FALSE
    /\ LET o == ensureFinalizer(class) IN
       class' = IF cachedClass.exists /\ class.exists /\ ~class.ready
                THEN [o EXCEPT !.ready = TRUE, !.version = @ + 1]
                ELSE class
    /\ UNCHANGED <<cachedClass, claims, cachedClaims, unborn, termQueued, waiting, term>>

\* NodeClassTerminationController.Reconcile reads the NodeClass; one that is
\* not being deleted, or has no finalizer, needs nothing.
TermStart ==
    /\ termQueued
    /\ term.pc = "idle"
    /\ termQueued' = FALSE
    /\ term' = IF cachedClass.exists /\ cachedClass.deleting /\ cachedClass.finalizer
               THEN [pc |-> "list", seen |-> cachedClass] ELSE Idle
    /\ UNCHANGED <<class, cachedClass, claims, cachedClaims, unborn, statusQueued, waiting>>

\* Mutant: the NodeClass waits even when no NodeClaim is left.
TermListAlwaysWaits ==
    /\ term.pc = "list"
    /\ waiting' = TRUE
    /\ term' = Idle
    /\ UNCHANGED <<class, cachedClass, claims, cachedClaims, unborn, statusQueued, termQueued>>

\* finalize lists the NodeClaims of the NodeClass and waits for them to go.
TermList ==
    /\ term.pc = "list"
    /\ IF cachedClaims # {} THEN waiting' = TRUE /\ term' = Idle
                            ELSE waiting' = waiting /\ term' = [term EXCEPT !.pc = "patch"]
    /\ UNCHANGED <<class, cachedClass, claims, cachedClaims, unborn, statusQueued, termQueued>>

\* It then removes the finalizer, unless the object has changed since it was
\* read (optimistic lock), when it is queued again.
TermPatch ==
    /\ term.pc = "patch"
    /\ IF ~class.exists \/ class.version = term.seen.version
       THEN class' = Gone /\ termQueued' = termQueued
       ELSE class' = class /\ termQueued' = TRUE
    /\ term' = Idle
    /\ UNCHANGED <<cachedClass, claims, cachedClaims, unborn, statusQueued, waiting>>

\* A list or a patch that fails for any other reason returns the error, and the
\* request is queued again with back-off.
TermFails ==
    /\ term.pc \in {"list", "patch"}
    /\ term' = Idle
    /\ termQueued' = TRUE
    /\ UNCHANGED <<class, cachedClass, claims, cachedClaims, unborn, statusQueued, waiting>>

TimerFires ==
    /\ waiting
    /\ waiting' = FALSE
    /\ termQueued' = TRUE
    /\ UNCHANGED <<class, cachedClass, claims, cachedClaims, unborn, statusQueued, term>>

-----------------------------------------------------------------------------
(* Users, Karpenter core and the informers.                                *)

\* Deletion waits for the finalizer, if there is one.
DeleteClass ==
    /\ class.exists /\ ~class.deleting
    /\ class' = IF class.finalizer
                THEN [class EXCEPT !.deleting = TRUE, !.version = @ + 1] ELSE Gone
    /\ UNCHANGED <<cachedClass, claims, cachedClaims, unborn, statusQueued, termQueued, waiting,
                   term>>

\* Karpenter creates NodeClaims for NodeClasses it sees ready.
CreateClaim(c) ==
    /\ c \in unborn
    /\ cachedClass.exists /\ cachedClass.ready /\ ~cachedClass.deleting
    /\ claims' = claims \cup {c}
    /\ unborn' = unborn \ {c}
    /\ UNCHANGED <<class, cachedClass, cachedClaims, statusQueued, termQueued, waiting, term>>

DeleteClaim(c) ==
    /\ c \in claims
    /\ claims' = claims \ {c}
    /\ UNCHANGED <<class, cachedClass, cachedClaims, unborn, statusQueued, termQueued, waiting, term>>

\* Both controllers are queued for every change of the NodeClass.
SyncClass ==
    /\ cachedClass # class
    /\ cachedClass' = class
    /\ statusQueued' = TRUE /\ termQueued' = TRUE
    /\ UNCHANGED <<class, claims, cachedClaims, unborn, waiting, term>>

\* Of the NodeClaim events only deletions queue the termination controller.
SyncClaim(c) ==
    /\ (c \in claims) # (c \in cachedClaims)
    /\ IF c \in claims THEN cachedClaims' = cachedClaims \cup {c} /\ UNCHANGED termQueued
                       ELSE cachedClaims' = cachedClaims \ {c} /\ termQueued' = TRUE
    /\ UNCHANGED <<class, cachedClass, claims, unborn, statusQueued, waiting, term>>

-----------------------------------------------------------------------------
Controllers == StatusReconcile \/ TermStart \/ TermList \/ TermPatch \/ TermFails \/ TimerFires

Next ==
    \/ Controllers
    \/ DeleteClass \/ SyncClass
    \/ \E c \in Claims : CreateClaim(c) \/ DeleteClaim(c) \/ SyncClaim(c)

Spec == Init /\ [][Next]_vars

\* Work queues are served, informers deliver, and what is retried without end does
\* not fail every time.
Fairness ==
    /\ WF_vars(StatusReconcile) /\ WF_vars(TermStart) /\ SF_vars(TermList)
    /\ SF_vars(TermPatch) /\ WF_vars(TimerFires) /\ WF_vars(SyncClass)
    /\ \A c \in Claims : WF_vars(SyncClaim(c))

FairSpec == Spec /\ Fairness

-----------------------------------------------------------------------------
(* Properties.                                                             *)

\* A NodeClass being deleted whose NodeClaims have all gone is released in the
\* end, whatever events and requeues are lost to conflicts and stale reads.
TerminationCompletes ==
    (class.exists /\ class.deleting) ~> (~class.exists \/ claims # {})

\* A NodeClass is not removed while the cluster has a NodeClaim of it that the
\* cache shows as well.  This is what the finalizer is for that "is added by
\* status controller" (nodeclass_termination.go).
ClassOutlivesClaims ==
    [][class.exists /\ ~class'.exists => claims \cap cachedClaims = {}]_vars
=============================================================================
