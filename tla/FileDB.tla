------------------------------- MODULE FileDB -------------------------------
(***************************************************************************)
(* StupidDB over a file (plugin/pkg/db/db.go, filestore.go), as the CLI    *)
(* uses it.  db.mu is a mutex of one process; the file is locked with      *)
(* flock for each read and for each write, but not from a read to the      *)
(* write that follows it.  Threads, in one process or in several, create   *)
(* or delete one object each, or get one, over and over.  Every update     *)
(* rewrites the whole list, so two processes can undo each other's.        *)
(*                                                                         *)
(* A process may die at any step, also of a panic over a write the disk    *)
(* refuses.  The kernel then drops its flock; the file stays as it is, and *)
(* an empty file decodes to an empty list.                                 *)
(***************************************************************************)
EXTENDS Integers

CONSTANTS
    Threads,    \* each thread has an object of its own
    Process,    \* Process[t]: the process thread t runs in
    Calls,      \* Calls[t]: what thread t may write, or Reading
    Values, NoValue,
    Reading,    \* what a call that only gets an object wants
    NoThread

ASSUME FileDBAssumption ==
    /\ Process \in [Threads -> {Process[t] : t \in Threads}]
    /\ NoValue \notin Values
    /\ Reading \notin Values \cup {NoValue}
    /\ Calls \in [Threads -> SUBSET (Values \cup {NoValue, Reading})]
    /\ NoThread \notin Threads

VARIABLES
    file,       \* the objects the file encodes
    mu,         \* mu[p]: the thread of process p that holds db.mu
    flock,      \* the thread that holds the file lock
    pc,         \* per thread: how far its call has got
    want,       \* per thread: the value to write, NoValue to delete, or Reading
    objs,       \* per thread: the list it has read
    done,       \* history: what each thread's last finished call wrote
    last,       \* history: the list the last finished write left, or a crash
    exposed     \* history: objects another process or a crash may have undone

history == <<done, last, exposed>>
vars == <<file, mu, flock, pc, want, objs, done, last, exposed>>

Objects == [Threads -> Values \cup {NoValue}]
EmptyDB == [t \in Threads |-> NoValue]
Processes == {Process[t] : t \in Threads}

TypeOK ==
    /\ file \in Objects
    /\ mu \in [Processes -> Threads \cup {NoThread}]
    /\ flock \in Threads \cup {NoThread}
    /\ pc \in [Threads -> {"idle", "called", "locked", "read", "truncated"}]
    /\ want \in [Threads -> Values \cup {NoValue, Reading}]
    /\ objs \in [Threads -> Objects]
    /\ done \in Objects
    /\ last \in Objects
    /\ exposed \subseteq Threads

Init ==
    /\ file = EmptyDB
    /\ mu = [p \in Processes |-> NoThread]
    /\ flock = NoThread
    /\ pc = [t \in Threads |-> "idle"]
    /\ want = EmptyDB
    /\ objs = [t \in Threads |-> EmptyDB]
    /\ done = EmptyDB
    /\ last = EmptyDB
    /\ exposed = {}

Call(t) ==
    /\ pc[t] = "idle"
    /\ \E v \in Calls[t] : want' = [want EXCEPT ![t] = v]
    /\ pc' = [pc EXCEPT ![t] = "called"]
    /\ UNCHANGED <<file, mu, flock, objs, history>>

\* Mutant: db.mu is not taken.
LockSkipped(t) ==
    /\ pc[t] = "called"
    /\ pc' = [pc EXCEPT ![t] = "locked"]
    /\ UNCHANGED <<file, mu, flock, want, objs, history>>

\* db.mu.Lock()
Lock(t) ==
    /\ pc[t] = "called"
    /\ mu[Process[t]] = NoThread
    /\ mu' = [mu EXCEPT ![Process[t]] = t]
    /\ pc' = [pc EXCEPT ![t] = "locked"]
    /\ UNCHANGED <<file, flock, want, objs, history>>

\* Mutant: a read takes no file lock.
ReadUnlocked(t) ==
    /\ pc[t] = "locked"
    /\ objs' = [objs EXCEPT ![t] = file]
    /\ pc' = [pc EXCEPT ![t] = "read"]
    /\ UNCHANGED <<file, mu, flock, want, history>>

\* lockedFileStore.Read, under the file lock from start to end.
Read(t) ==
    /\ pc[t] = "locked"
    /\ flock = NoThread
    /\ objs' = [objs EXCEPT ![t] = file]
    /\ pc' = [pc EXCEPT ![t] = "read"]
    /\ UNCHANGED <<file, mu, flock, want, history>>

\* db.mu.Unlock(), and the call returns; what it had in memory goes.
Return(t) ==
    /\ mu' = [mu EXCEPT ![Process[t]] = NoThread]
    /\ pc' = [pc EXCEPT ![t] = "idle"]
    /\ want' = [want EXCEPT ![t] = NoValue]
    /\ objs' = [objs EXCEPT ![t] = EmptyDB]

\* Mutant: db.mu is not released.
GetKeepsLock(t) ==
    /\ want[t] = Reading
    /\ pc[t] = "read"
    /\ pc' = [pc EXCEPT ![t] = "idle"]
    /\ UNCHANGED <<file, mu, flock, want, objs, history>>

\* Get finds its object in the list, or does not.
Get(t) ==
    /\ want[t] = Reading
    /\ pc[t] = "read"
    /\ Return(t)
    /\ UNCHANGED <<file, flock, history>>

\* The list with the thread's object replaced, or taken out.
Updated(t) == [objs[t] EXCEPT ![t] = want[t]]

\* lockedFileStore.Write: lock, Truncate ...
Truncate(t) ==
    /\ want[t] # Reading
    /\ pc[t] = "read"
    /\ flock = NoThread
    /\ flock' = t
    /\ file' = EmptyDB
    /\ pc' = [pc EXCEPT ![t] = "truncated"]
    /\ UNCHANGED <<mu, want, objs, history>>

\* Another process that updates the file has read it and not yet written it
\* back: its db.mu is not ours, and the flock was free in between.
Raced(t) ==
    \E s \in Threads : Process[s] # Process[t] /\ pc[s] = "read" /\ want[s] # Reading

\* What a finished write leaves to remember.
Finish(t) ==
    /\ done' = [done EXCEPT ![t] = want[t]]
    /\ last' = file'
    /\ exposed' = IF Raced(t) THEN exposed \cup {t} ELSE exposed \ {t}

\* Mutant: the object is written instead of the list.
WriteObject(t) ==
    /\ pc[t] = "truncated"
    /\ file' = want[t]
    /\ flock' = NoThread
    /\ Finish(t)
    /\ Return(t)

\* ... and Write, unlock.
Write(t) ==
    /\ pc[t] = "truncated"
    /\ file' = Updated(t)
    /\ flock' = NoThread
    /\ Finish(t)
    /\ Return(t)

\* A process dies.  Between truncating and writing, this loses the file.
Crash(p) ==
    LET threads == {t \in Threads : Process[t] = p} IN
    /\ pc' = [t \in Threads |-> IF t \in threads THEN "idle" ELSE pc[t]]
    /\ mu' = [mu EXCEPT ![p] = NoThread]
    /\ flock' = IF flock \in threads THEN NoThread ELSE flock
    /\ last' = IF flock \in threads THEN EmptyDB ELSE last
    /\ exposed' = IF flock \in threads THEN Threads ELSE exposed
    /\ want' = [t \in Threads |-> IF t \in threads THEN NoValue ELSE want[t]]
    /\ objs' = [t \in Threads |-> IF t \in threads THEN EmptyDB ELSE objs[t]]
    /\ UNCHANGED <<file, done>>

Step(t) == Read(t) \/ Get(t) \/ Truncate(t) \/ Write(t)

Next ==
    \/ \E t \in Threads : Call(t) \/ Lock(t) \/ Step(t)
    \/ \E p \in Processes : Crash(p)

Spec == Init /\ [][Next]_vars

\* Go's mutex and the kernel's flock starve nobody who waits for them.
Fairness == \A t \in Threads : SF_vars(Lock(t)) /\ SF_vars(Step(t))

FairSpec == Spec /\ Fairness

-----------------------------------------------------------------------------
(* Properties.                                                             *)

\* What a finished call wrote is still in the file, through any interleaving
\* of goroutines and processes that each rewrite the whole list, unless another
\* process had read the list before that call wrote it and could put the older
\* version back, or a process died between Truncate and Write, which empties
\* the file.  Goroutines of one process never undo each other's updates
\* (StupidDB.CreateOrUpdate, lockedFileStore.Write).
LostOnlyAcrossProcesses ==
    flock = NoThread => \A t \in Threads : file[t] # done[t] => t \in exposed

\* A list that is read, also by another process, is the list the last finished
\* write left, or the empty one a crash between Truncate and Write left, never
\* the empty file of a write that is under way (lockedFileStore.Read).
ReadsAreCurrent ==
    [][\A t \in Threads : pc[t] = "locked" /\ pc'[t] = "read" => objs'[t] = last]_vars

\* A call gets both locks, does its work and returns, unless its process dies:
\* nobody waits for a lock that is never released (lockedFileStore.unlock).
CallsReturn == \A t \in Threads : []<>(pc[t] = "idle")
=============================================================================
