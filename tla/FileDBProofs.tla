---------------------------- MODULE FileDBProofs ----------------------------
(***************************************************************************)
(* Proofs about FileDB, for any number of threads in any processes.        *)
(*                                                                         *)
(* Neither LostOnlyAcrossProcesses nor ReadsAreCurrent is inductive: a     *)
(* list that is about to be written back may only be out of date in        *)
(* objects that are exposed.  That holds because a thread that has a list  *)
(* in hand keeps the others of its process out with db.mu, and because a   *)
(* file that is not locked is complete.                                    *)
(***************************************************************************)
EXTENDS FileDB, TLAPS

\* A thread at work holds the mutex of its process.
HoldsMutex == \A t \in Threads : pc[t] \in {"locked", "read", "truncated"} => mu[Process[t]] = t

\* The file is locked exactly while a writer has truncated it.
HoldsFlock ==
    /\ \A t \in Threads : pc[t] = "truncated" => flock = t /\ want[t] # Reading
    /\ flock # NoThread => pc[flock] = "truncated" /\ file = EmptyDB

\* The list a writer has in hand is out of date only in exposed objects.
ListCurrent ==
    \A t, x \in Threads :
        pc[t] \in {"read", "truncated"} /\ want[t] # Reading /\ objs[t][x] # done[x]
        => x \in exposed

\* A file that is not locked is what the last finished write left.
FileComplete == flock = NoThread => file = last

IInv ==
    TypeOK /\ HoldsMutex /\ HoldsFlock /\ FileComplete /\ ListCurrent /\ LostOnlyAcrossProcesses

-----------------------------------------------------------------------------
(* The inductive invariant.                                                *)

\* Each thread has one of the processes.
LEMMA ProcessType == \A t \in Threads : Process[t] \in Processes
BY DEF Processes

\* The empty list is a list.
LEMMA EmptyIsObjects == EmptyDB \in Objects
BY DEF EmptyDB, Objects

\* The initial state satisfies the invariant: the file is empty, as is the
\* history, and nobody is at work.
LEMMA InitInv == Init => IInv
BY FileDBAssumption, EmptyIsObjects
   DEF Init, IInv, TypeOK, HoldsMutex, HoldsFlock, FileComplete, ListCurrent,
       LostOnlyAcrossProcesses, EmptyDB, Objects

\* Types are kept by every step.
LEMMA TypeStep == TypeOK /\ HoldsFlock /\ [Next]_vars => TypeOK'
<1> SUFFICES ASSUME TypeOK, HoldsFlock, [Next]_vars PROVE TypeOK'
    OBVIOUS
<1> USE FileDBAssumption, ProcessType, EmptyIsObjects DEF history
<1>1. ASSUME NEW t \in Threads, Call(t) PROVE TypeOK'
    BY <1>1 DEF TypeOK, Call, Objects
<1>2. ASSUME NEW t \in Threads, Lock(t) PROVE TypeOK'
    BY <1>2 DEF TypeOK, Lock
<1>3. ASSUME NEW t \in Threads, Read(t) PROVE TypeOK'
    BY <1>3 DEF TypeOK, Read
<1>4. ASSUME NEW t \in Threads, Get(t) PROVE TypeOK'
    BY <1>4 DEF TypeOK, Get, Return, Objects
<1>5. ASSUME NEW t \in Threads, Truncate(t) PROVE TypeOK'
    BY <1>5 DEF TypeOK, Truncate
<1>6. ASSUME NEW t \in Threads, Write(t) PROVE TypeOK'
    BY <1>6 DEF TypeOK, Write, Finish, Return, Updated, Objects, HoldsFlock
<1>7. ASSUME NEW p \in Processes, Crash(p) PROVE TypeOK'
    BY <1>7 DEF TypeOK, Crash, Objects
<1>8. CASE UNCHANGED vars
    BY <1>8 DEF TypeOK, vars
<1> QED
    BY <1>1, <1>2, <1>3, <1>4, <1>5, <1>6, <1>7, <1>8 DEF Next, Step

\* Mutual exclusion: the mutex and the file lock go from hand to hand.
LEMMA LocksStep == TypeOK /\ HoldsMutex /\ HoldsFlock /\ [Next]_vars => HoldsMutex' /\ HoldsFlock'
<1> SUFFICES ASSUME TypeOK, HoldsMutex, HoldsFlock, [Next]_vars PROVE HoldsMutex' /\ HoldsFlock'
    OBVIOUS
<1> USE FileDBAssumption, ProcessType
<1> USE DEF TypeOK, HoldsMutex, HoldsFlock, history
<1>1. ASSUME NEW t \in Threads, Call(t) PROVE HoldsMutex' /\ HoldsFlock'
    BY <1>1 DEF Call
<1>2. ASSUME NEW t \in Threads, Lock(t) PROVE HoldsMutex' /\ HoldsFlock'
    BY <1>2 DEF Lock
<1>3. ASSUME NEW t \in Threads, Read(t) PROVE HoldsMutex' /\ HoldsFlock'
    BY <1>3 DEF Read
<1>4. ASSUME NEW t \in Threads, Get(t) PROVE HoldsMutex' /\ HoldsFlock'
    BY <1>4 DEF Get, Return
<1>5. ASSUME NEW t \in Threads, Truncate(t) PROVE HoldsMutex' /\ HoldsFlock'
    BY <1>5 DEF Truncate
<1>6. ASSUME NEW t \in Threads, Write(t) PROVE HoldsMutex' /\ HoldsFlock'
    BY <1>6 DEF Write, Return
<1>7. ASSUME NEW p \in Processes, Crash(p) PROVE HoldsMutex' /\ HoldsFlock'
    BY <1>7 DEF Crash
<1>8. CASE UNCHANGED vars
    BY <1>8 DEF vars
<1> QED
    BY <1>1, <1>2, <1>3, <1>4, <1>5, <1>6, <1>7, <1>8 DEF Next, Step

\* An unlocked file is complete: what changes it leaves it locked, or ends the
\* write.
LEMMA CompleteStep == TypeOK /\ HoldsFlock /\ FileComplete /\ [Next]_vars => FileComplete'
<1> SUFFICES ASSUME TypeOK, HoldsFlock, FileComplete, [Next]_vars PROVE FileComplete'
    OBVIOUS
<1> USE FileDBAssumption DEF TypeOK, HoldsFlock, FileComplete
<1>1. ASSUME NEW t \in Threads, Call(t) \/ Lock(t) \/ Read(t) \/ Get(t) PROVE FileComplete'
    BY <1>1 DEF Call, Lock, Read, Get, history
<1>2. ASSUME NEW t \in Threads, Truncate(t) PROVE FileComplete'
    BY <1>2 DEF Truncate
<1>3. ASSUME NEW t \in Threads, Write(t) PROVE FileComplete'
    BY <1>3 DEF Write, Finish
<1>4. ASSUME NEW p \in Processes, Crash(p) PROVE FileComplete'
    BY <1>4 DEF Crash
<1>5. CASE UNCHANGED vars
    BY <1>5 DEF vars
<1> QED
    BY <1>1, <1>2, <1>3, <1>4, <1>5 DEF Next, Step

\* A write that no other process races finds nobody else with a list in hand
\* that is to be written back: the goroutines of its process wait for db.mu,
\* and a second truncated file would be locked.
LEMMA OthersRace ==
    ASSUME TypeOK, HoldsMutex, HoldsFlock, NEW t \in Threads, pc[t] = "truncated",
           NEW s \in Threads, s # t, pc[s] \in {"read", "truncated"}, want[s] # Reading
    PROVE  Raced(t)
<1>1. pc[s] = "read"
    BY FileDBAssumption DEF HoldsFlock
<1>2. Process[s] # Process[t]
    BY DEF HoldsMutex
<1> QED
    BY <1>1, <1>2 DEF Raced

\* A list in hand, and an unlocked file, stay current in what is not exposed.
LEMMA CurrentStep == IInv /\ [Next]_vars => ListCurrent' /\ LostOnlyAcrossProcesses'
<1> SUFFICES ASSUME IInv, [Next]_vars PROVE ListCurrent' /\ LostOnlyAcrossProcesses'
    OBVIOUS
<1> USE FileDBAssumption DEF IInv, TypeOK, ListCurrent, LostOnlyAcrossProcesses, history
<1>1. ASSUME NEW t \in Threads, Call(t) PROVE ListCurrent' /\ LostOnlyAcrossProcesses'
    BY <1>1 DEF Call
<1>2. ASSUME NEW t \in Threads, Lock(t) PROVE ListCurrent' /\ LostOnlyAcrossProcesses'
    BY <1>2 DEF Lock
<1>3. ASSUME NEW t \in Threads, Read(t) PROVE ListCurrent' /\ LostOnlyAcrossProcesses'
    BY <1>3 DEF Read
<1>4. ASSUME NEW t \in Threads, Get(t) PROVE ListCurrent' /\ LostOnlyAcrossProcesses'
    BY <1>4 DEF Get, Return
<1>5. ASSUME NEW t \in Threads, Truncate(t) PROVE ListCurrent' /\ LostOnlyAcrossProcesses'
    BY <1>5 DEF Truncate
<1>6. ASSUME NEW t \in Threads, Write(t) PROVE ListCurrent' /\ LostOnlyAcrossProcesses'
    <2>1. pc[t] = "truncated" /\ want[t] # Reading
        BY <1>6 DEF Write, HoldsFlock
    <2>2. LostOnlyAcrossProcesses'
        BY <1>6, <2>1 DEF Write, Finish, Updated, Objects
    <2>3. ASSUME NEW s \in Threads, s # t, pc[s] \in {"read", "truncated"}, want[s] # Reading
          PROVE  Raced(t)
        BY <2>1, <2>3, OthersRace
    <2>4. ASSUME NEW s \in Threads, NEW x \in Threads, pc'[s] \in {"read", "truncated"},
                 want'[s] # Reading, objs'[s][x] # done'[x]
          PROVE  x \in exposed'
        <3>1. s # t /\ pc[s] = pc'[s] /\ want[s] = want'[s] /\ objs[s] = objs'[s]
            BY <1>6, <2>4 DEF Write, Return
        <3>2. Raced(t)
            BY <2>3, <2>4, <3>1
        <3>3. CASE x = t
            BY <1>6, <3>2, <3>3 DEF Write, Finish
        <3>4. CASE x # t
            BY <1>6, <2>4, <3>1, <3>4 DEF Write, Finish
        <3> QED
            BY <3>3, <3>4
    <2> QED
        BY <2>2, <2>4
<1>7. ASSUME NEW p \in Processes, Crash(p) PROVE ListCurrent' /\ LostOnlyAcrossProcesses'
    <2>1. CASE flock # NoThread /\ Process[flock] = p
        BY <1>7, <2>1 DEF Crash
    <2>2. CASE ~(flock # NoThread /\ Process[flock] = p)
        BY <1>7, <2>2 DEF Crash
    <2> QED
        BY <2>1, <2>2
<1>8. CASE UNCHANGED vars
    BY <1>8 DEF vars
<1> QED
    BY <1>1, <1>2, <1>3, <1>4, <1>5, <1>6, <1>7, <1>8 DEF Next, Step

\* The parts together.
LEMMA InvStep == IInv /\ [Next]_vars => IInv'
BY TypeStep, LocksStep, CompleteStep, CurrentStep DEF IInv

\* The invariant holds throughout.
LEMMA InvAlways == Spec => []IInv
BY InitInv, InvStep, PTL DEF Spec

-----------------------------------------------------------------------------
(* Theorems.                                                               *)

\* Variables keep their types, whatever threads there are (StupidDB,
\* lockedFileStore).
THEOREM TypeCorrect == Spec => []TypeOK
<1>1. IInv => TypeOK
    BY DEF IInv
<1> QED
    BY <1>1, InvAlways, PTL

\* However many goroutines and processes update the file, with crashes at every
\* step, a finished update is lost only to another process that had read the
\* list before it, or to a crash between Truncate and Write
\* (StupidDB.CreateOrUpdate, lockedFileStore.Write).
THEOREM UpdatesKept == Spec => []LostOnlyAcrossProcesses
<1>1. IInv => LostOnlyAcrossProcesses
    BY DEF IInv
<1> QED
    BY <1>1, InvAlways, PTL

\* Every list that is read is the one the last finished write, or a crash in
\* one, left (lockedFileStore.Read).
THEOREM ReadsCurrent == Spec => ReadsAreCurrent
<1> DEFINE Current == \A t \in Threads : pc[t] = "locked" /\ pc'[t] = "read" => objs'[t] = last
<1>1. IInv /\ [Next]_vars => [Current]_vars
    <2> SUFFICES ASSUME IInv, Next, NEW t \in Threads, pc[t] = "locked", pc'[t] = "read"
                 PROVE  objs'[t] = last
        BY DEF vars
    <2> USE DEF IInv, TypeOK
    <2>1. ASSUME NEW s \in Threads, Read(s) PROVE objs'[t] = last
        BY <2>1 DEF Read, FileComplete
    <2>2. ASSUME NEW s \in Threads, Call(s) \/ Lock(s) \/ Get(s) \/ Truncate(s) \/ Write(s)
          PROVE  FALSE
        BY <2>2 DEF Call, Lock, Get, Truncate, Write, Return
    <2>3. ASSUME NEW p \in Processes, Crash(p) PROVE FALSE
        BY <2>3 DEF Crash
    <2> QED
        BY <2>1, <2>2, <2>3 DEF Next, Step
<1> QED
    BY <1>1, InvAlways, PTL DEF Spec, ReadsAreCurrent
=============================================================================
