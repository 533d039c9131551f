--------------------------- MODULE SecretDBProofs ---------------------------
(***************************************************************************)
(* Proofs about SecretDB, for any clients, objects and sizes with which    *)
(* chunk numbers have one digit (FewChunks).  Beyond that the database     *)
(* does not read back what it wrote (SecretDBManyChunks).                  *)
(***************************************************************************)
EXTENDS SecretDB, FiniteSetTheorems, TLAPS

\* The objects never fill more chunks than there are digits.
FewChunks ==
    /\ IsFiniteSet(Ids)
    /\ \A o \in Objects : NumChunks(o) <= Base

-----------------------------------------------------------------------------
(* The inductive invariant.                                                *)

\* The Secrets that a completed write of o leaves.
Full(o) ==
    [n \in ChunkNumbers |-> IF n < NumChunks(o) THEN [of |-> o, part |-> n] ELSE NoSecret]

NoSecrets == [n \in ChunkNumbers |-> NoSecret]

\* The Secrets that hold o; a database nothing was written to has none.
Stores(o) == IF o = EmptyDB THEN {Full(o), NoSecrets} ELSE {Full(o)}

\* A write replaces the Secrets from the first to the last.
Mixture(s) ==
    \A n \in ChunkNumbers :
        secrets[n] = IF n >= next THEN s[n]
                     ELSE IF n < NumChunks(New) THEN [of |-> New, part |-> n] ELSE NoSecret

\* The client at work has db.mu, and what it calls for is a write.
OneAtWork ==
    /\ \A c \in Clients : pc[c] = "write" <=> mu = c
    /\ \A c \in Clients : pc[c] = "write" => call[c].kind # "get"
    /\ \A c \in Clients : call[c].kind = "put" => call[c].val \in Values

\* Every chunk is in the Secret of its number, in whatever state a crash left
\* the others.
Placed == \A n \in Present : secrets[n].part = n

\* Between writes the Secrets are those of one, unless one was torn.
Quiet == mu = NoClient /\ ~torn => \E o \in Objects : secrets \in Stores(o)

\* During a write they are a mixture of what it read and what it writes.
Writing == mu # NoClient => ~torn /\ ~panicked /\ \E s \in Stores(old) : Mixture(s)

IInv == TypeOK /\ OneAtWork /\ Placed /\ Quiet /\ Writing /\ PanicsOnlyWhenTorn

-----------------------------------------------------------------------------
(* Chunks.                                                                 *)

\* There is always a chunk.
LEMMA ChunksPositive ==
    ASSUME IsFiniteSet(Ids), NEW o
    PROVE  NumChunks(o) \in Nat \ {0}
<1> DEFINE k == Cardinality({i \in Ids : o[i] # NoValue})
<1>1. k \in Nat
    BY FS_Subset, FS_CardinalityType
<1>2. ASSUME NEW a \in Nat, NEW b \in Nat \ {0} PROVE (a + b) \div b \in Nat \ {0}
    OBVIOUS
<1> QED
    BY <1>1, <1>2, SecretDBAssumption DEF NumChunks

\* All chunks have a number, of one digit.
LEMMA ChunkNumbersSuffice == 0..Base \subseteq ChunkNumbers
<1>1. Base * Base >= 2 * Base
    BY SecretDBAssumption
<1> QED
    BY <1>1, SecretDBAssumption DEF ChunkNumbers

\* The Secrets of a completed write, one by one.
LEMMA FullStore ==
    ASSUME FewChunks, NEW o \in Objects
    PROVE  /\ NumChunks(o) \in 1..Base /\ 0..(NumChunks(o) - 1) \subseteq ChunkNumbers
           /\ \A n \in ChunkNumbers :
                 n \in 0..(NumChunks(o) - 1) =>
                    Full(o)[n] = [of |-> o, part |-> n] /\ Full(o)[n] # NoSecret
           /\ \A n \in ChunkNumbers : n \notin 0..(NumChunks(o) - 1) => Full(o)[n] = NoSecret
<1>1. NumChunks(o) \in 1..Base
    BY ChunksPositive, SecretDBAssumption DEF FewChunks
<1>2. 0..(NumChunks(o) - 1) \subseteq ChunkNumbers
    BY <1>1, ChunkNumbersSuffice, SecretDBAssumption
<1>3. \A n \in ChunkNumbers : n \in Nat
    BY SecretDBAssumption DEF ChunkNumbers
<1>4. \A n \in ChunkNumbers : [of |-> o, part |-> n] # NoSecret
    BY NoSecretAssumption
<1> QED
    BY <1>1, <1>2, <1>3, <1>4 DEF Full

\* No objects are objects.
LEMMA EmptyIsObjects == EmptyDB \in Objects
BY DEF EmptyDB, Objects

\* Numbers of one digit are in the order of their names.
LEMMA NamesOrdered ==
    ASSUME NEW m \in 0..(Base - 1), NEW n \in 0..(Base - 1), NameLess(m, n)
    PROVE  m < n
BY SecretDBAssumption DEF NameLess, LeadingDigit

\* What a completed write left is read back.
LEMMA StoredReadable ==
    FewChunks /\ TypeOK => \A o \in Objects : secrets \in Stores(o) => Readable /\ Decoded = o
<1> SUFFICES ASSUME FewChunks, TypeOK, NEW o \in Objects, secrets \in Stores(o)
             PROVE  Readable /\ Decoded = o
    OBVIOUS
<1>1. CASE secrets = NoSecrets /\ o = EmptyDB
    <2>1. Present = {}
        BY <1>1 DEF Present, NoSecrets
    <2> QED
        BY <1>1, <2>1 DEF Readable, Decoded
<1>2. CASE secrets = Full(o)
    <2>1. Present = 0..(NumChunks(o) - 1)
        BY <1>2, FullStore DEF Present
    <2>0. Present \subseteq ChunkNumbers /\ NumChunks(o) \in 1..Base
        BY FullStore DEF Present
    <2>2. \A n \in Present : secrets[n].of = o /\ secrets[n].part = n
        <3>1. \A n \in Present : Full(o)[n] = [of |-> o, part |-> n]
            BY <2>0, <2>1, FullStore
        <3>2. \A n \in Present : secrets[n] = [of |-> o, part |-> n]
            BY <1>2, <3>1
        <3>3. ASSUME NEW n \in Present PROVE secrets[n].of = o /\ secrets[n].part = n
            <4>1. secrets[n] = [of |-> o, part |-> n]
                BY <3>2
            <4> QED
                BY <4>1
        <3> QED
            BY <3>3
    <2>3. Present # {}
        <3>1. 0 \in 0..(NumChunks(o) - 1)
            BY <2>0, SecretDBAssumption
        <3> QED
            BY <2>1, <3>1
    <2>4. {secrets[n].part : n \in Present} = 0..(NumChunks(o) - 1)
        BY <2>1, <2>2
    <2>5. \A m, n \in Present : NameLess(m, n) => secrets[m].part < secrets[n].part
        <3>1. Present \subseteq 0..(Base - 1)
            BY <2>1, FullStore, SecretDBAssumption
        <3> QED
            BY <3>1, <2>2, NamesOrdered
    <2>6. Encodes(o)
        BY <2>2, <2>4, <2>5 DEF Encodes
    <2>7. Readable
        BY <2>2, <2>3, <2>6 DEF Readable
    <2>8. Decoded = o
        BY <2>2, <2>3 DEF Decoded
    <2> QED
        BY <2>7, <2>8
<1> QED
    BY <1>1, <1>2 DEF Stores

\* What can be read is what a completed write would have left, also after
\* crashes: every chunk in its place leaves no room for another mixture.
LEMMA ReadableStored ==
    FewChunks /\ TypeOK /\ Placed /\ Readable =>
        Decoded \in Objects /\ secrets \in Stores(Decoded)
<1> SUFFICES ASSUME FewChunks, TypeOK, Placed, Readable
             PROVE  Decoded \in Objects /\ secrets \in Stores(Decoded)
    OBVIOUS
<1>0. /\ secrets \in [ChunkNumbers -> [of : Objects, part : ChunkNumbers] \cup {NoSecret}]
      /\ \A n \in Present : secrets[n] \in [of : Objects, part : ChunkNumbers]
    BY DEF TypeOK, Present
<1>1. CASE Present = {}
    <2>1. secrets = NoSecrets
        BY <1>0, <1>1 DEF Present, NoSecrets
    <2> QED
        BY <1>1, <2>1, EmptyIsObjects DEF Decoded, Stores
<1>2. CASE Present # {}
    <2>1. PICK k \in Present : Encodes(secrets[k].of)
        BY <1>2 DEF Readable
    <2> DEFINE o == secrets[k].of
    <2>2. o \in Objects
        BY <1>0
    <2>3. Decoded = o
        BY <1>2, <2>1 DEF Decoded, Encodes
    <2>4. Present = 0..(NumChunks(o) - 1)
        <3>1. {secrets[n].part : n \in Present} = Present
            BY DEF Placed
        <3> QED
            BY <3>1, <2>1 DEF Encodes
    <2>5. \A n \in Present : secrets[n] = [of |-> o, part |-> n]
        BY <1>0, <2>1 DEF Encodes, Placed
    <2>6. \A n \in ChunkNumbers \ Present : secrets[n] = NoSecret
        BY DEF Present
    <2>7. secrets = Full(o)
        <3> HIDE DEF o
        <3>1. \A n \in ChunkNumbers : secrets[n] = Full(o)[n]
            <4>1. \A n \in ChunkNumbers : n \in Present => Full(o)[n] = [of |-> o, part |-> n]
                BY <2>2, <2>4, FullStore
            <4>2. \A n \in ChunkNumbers : n \notin Present => Full(o)[n] = NoSecret
                BY <2>2, <2>4, FullStore
            <4> QED
                BY <4>1, <4>2, <2>5, <2>6
        <3>2. Full(o) = [n \in ChunkNumbers |-> Full(o)[n]]
            BY DEF Full
        <3> QED
            BY <3>1, <3>2, <1>0
    <2> QED
        BY <2>2, <2>3, <2>7 DEF Stores
<1> QED
    BY <1>1, <1>2

-----------------------------------------------------------------------------
(* The invariant is inductive.                                             *)

\* What an update makes of objects are objects.
LEMMA UpdatedType ==
    ASSUME NEW o \in Objects,
           NEW r \in [kind : {"put", "get", "delete"}, id : Ids, val : Values \cup {NoValue}]
    PROVE  Updated(o, r) \in Objects
BY DEF Updated, Objects

\* What a client at work can rely on.
LEMMA AtWork ==
    ASSUME FewChunks, IInv, NEW c \in Clients, pc[c] = "write"
    PROVE  /\ mu = c /\ ~torn /\ ~panicked
           /\ New \in Objects /\ NumChunks(New) \in 1..Base
           /\ next \in 0..(Base * Base)
<1>1. mu = c
    BY DEF IInv, OneAtWork
<1>2. mu # NoClient
    BY <1>1, SecretDBAssumption
<1>3. New \in Objects
    BY <1>1, UpdatedType DEF New, IInv, TypeOK
<1>4. Base * Base \in Nat
    BY SecretDBAssumption
<1> QED
    BY <1>1, <1>2, <1>3, <1>4, FullStore DEF IInv, TypeOK, Writing, ChunkNumbers

\* The Secrets when the loop over left-over chunks ends.
LEMMA WriteEnds ==
    ASSUME FewChunks, IInv, NEW c \in Clients, pc[c] = "write",
           next >= NumChunks(New), next \notin Present
    PROVE  secrets = Full(New)
<1>1. PICK s \in Stores(old) : Mixture(s)
    BY AtWork, SecretDBAssumption DEF IInv, Writing
<1>2. old \in Objects
    BY DEF IInv, TypeOK
<1>3. New \in Objects /\ NumChunks(New) \in 1..Base /\ next \in 0..(Base * Base) /\ Base * Base \in Nat
    BY AtWork, SecretDBAssumption
<1>4. \A n \in ChunkNumbers : n >= next => s[n] = NoSecret
    <2>1. CASE s = NoSecrets
        BY <2>1 DEF NoSecrets
    <2>2. CASE s = Full(old)
        <3>1. ASSUME next \in ChunkNumbers PROVE next \notin 0..(NumChunks(old) - 1)
            <4>1. s[next] = NoSecret
                <5>1. next >= next
                    BY <1>3
                <5>2. secrets[next] = s[next]
                    BY <1>1, <3>1, <5>1 DEF Mixture
                <5> QED
                    BY <3>1, <5>2 DEF Present
            <4> QED
                BY <1>2, <2>2, <3>1, <4>1, FullStore
        <3>2. NumChunks(old) \in 1..Base
            BY <1>2, FullStore
        <3>3. ASSUME NEW n \in ChunkNumbers, n >= next PROVE n \notin 0..(NumChunks(old) - 1)
            BY <1>3, <3>1, <3>2, <3>3, SecretDBAssumption DEF ChunkNumbers
        <3> QED
            BY <1>2, <2>2, <3>3, FullStore
    <2> QED
        BY <2>1, <2>2 DEF Stores
<1>5. \A n \in ChunkNumbers :
         secrets[n] = IF n < NumChunks(New) THEN [of |-> New, part |-> n] ELSE NoSecret
    BY <1>1, <1>3, <1>4, SecretDBAssumption DEF Mixture, ChunkNumbers
<1> QED
    BY <1>5 DEF Full, IInv, TypeOK

\* Types are kept by every step.
LEMMA TypeStep == FewChunks /\ IInv /\ [Next]_vars => TypeOK'
<1> SUFFICES ASSUME FewChunks, IInv, [Next]_vars PROVE TypeOK'
    OBVIOUS
<1>0. TypeOK /\ 0 \in ChunkNumbers /\ Base * Base \in Nat /\ Base \in Nat
    BY ChunkNumbersSuffice, SecretDBAssumption DEF IInv
<1> USE <1>0 DEF TypeOK
<1>1. ASSUME NEW c \in Clients, Call(c) PROVE TypeOK'
    BY <1>1 DEF Call, Calls
<1>2. ASSUME NEW c \in Clients, Get(c) PROVE TypeOK'
    <2>1. Decoded \in Objects
        BY <1>2, ReadableStored DEF Get, IInv
    <2> QED
        BY <1>2, <2>1 DEF Get, Objects
<1>3. ASSUME NEW c \in Clients, BeginWrite(c) PROVE TypeOK'
    <2>1. Decoded \in Objects
        BY <1>3, ReadableStored DEF BeginWrite, IInv
    <2> QED
        BY <1>3, <2>1 DEF BeginWrite
<1>4. ASSUME NEW c \in Clients, Panic(c) PROVE TypeOK'
    BY <1>4 DEF Panic
<1>5. ASSUME NEW c \in Clients, WriteChunk(c) PROVE TypeOK'
    <2>1. New \in Objects /\ next \in 0..Base /\ next + 1 \in 0..Base
        BY <1>5, AtWork DEF WriteChunk
    <2>2. next \in ChunkNumbers /\ next + 1 \in ChunkNumbers
        BY <2>1, ChunkNumbersSuffice
    <2> QED
        BY <1>5, <2>1, <2>2 DEF WriteChunk
<1>6. ASSUME NEW c \in Clients, DeleteChunk(c) PROVE TypeOK'
    <2>1. next \in Present => next \in ChunkNumbers /\ next + 1 \in ChunkNumbers \cup {Base * Base}
        BY DEF Present, ChunkNumbers
    <2> QED
        BY <1>6, <2>1 DEF DeleteChunk
<1>7. ASSUME NEW c \in Clients, Return(c) PROVE TypeOK'
    BY <1>7 DEF Return
<1>8. CASE Crash
    BY <1>8 DEF Crash
<1>9. CASE UNCHANGED vars
    BY <1>9 DEF vars
<1> QED
    BY <1>1, <1>2, <1>3, <1>4, <1>5, <1>6, <1>7, <1>8, <1>9 DEF Next

\* db.mu is handed from client to client.
LEMMA OneAtWorkStep == FewChunks /\ IInv /\ [Next]_vars => OneAtWork'
<1> SUFFICES ASSUME FewChunks, IInv, [Next]_vars PROVE OneAtWork'
    OBVIOUS
<1> USE SecretDBAssumption DEF IInv, TypeOK, OneAtWork
<1>1. ASSUME NEW c \in Clients, Call(c) PROVE OneAtWork'
    BY <1>1 DEF Call, Calls
<1>2. ASSUME NEW c \in Clients, Get(c) PROVE OneAtWork'
    BY <1>2 DEF Get, Acquire
<1>3. ASSUME NEW c \in Clients, BeginWrite(c) PROVE OneAtWork'
    BY <1>3 DEF BeginWrite, Acquire
<1>4. ASSUME NEW c \in Clients, Panic(c) PROVE OneAtWork'
    BY <1>4 DEF Panic
<1>5. ASSUME NEW c \in Clients, WriteChunk(c) PROVE OneAtWork'
    BY <1>5 DEF WriteChunk
<1>6. ASSUME NEW c \in Clients, DeleteChunk(c) PROVE OneAtWork'
    BY <1>6 DEF DeleteChunk
<1>7. ASSUME NEW c \in Clients, Return(c) PROVE OneAtWork'
    BY <1>7 DEF Return
<1>8. CASE Crash
    BY <1>8 DEF Crash
<1>9. CASE UNCHANGED vars
    BY <1>9 DEF vars
<1> QED
    BY <1>1, <1>2, <1>3, <1>4, <1>5, <1>6, <1>7, <1>8, <1>9 DEF Next

\* Chunks are written in their place.
LEMMA PlacedStep == FewChunks /\ IInv /\ [Next]_vars => Placed'
<1> SUFFICES ASSUME FewChunks, IInv, [Next]_vars PROVE Placed'
    OBVIOUS
<1> USE DEF IInv, TypeOK, Placed, Present
<1>1. CASE UNCHANGED secrets
    BY <1>1
<1>2. ASSUME NEW c \in Clients, WriteChunk(c) PROVE Placed'
    BY <1>2 DEF WriteChunk
<1>3. ASSUME NEW c \in Clients, DeleteChunk(c) PROVE Placed'
    BY <1>3 DEF DeleteChunk
<1> QED
    BY <1>1, <1>2, <1>3 DEF Next, vars, Call, Get, BeginWrite, Panic, Return, Crash

\* An unreadable database was torn.
LEMMA PanicsStep == FewChunks /\ IInv /\ [Next]_vars => PanicsOnlyWhenTorn'
<1> SUFFICES ASSUME FewChunks, IInv, [Next]_vars PROVE PanicsOnlyWhenTorn'
    OBVIOUS
<1> USE DEF IInv, TypeOK, PanicsOnlyWhenTorn
<1>1. ASSUME NEW c \in Clients, Panic(c) PROVE PanicsOnlyWhenTorn'
    <2>1. mu = NoClient /\ ~Readable
        BY <1>1 DEF Panic, Acquire
    <2>2. torn
        BY <2>1, StoredReadable DEF Quiet
    <2> QED
        BY <1>1, <2>2 DEF Panic
<1>2. ASSUME NEW c \in Clients, BeginWrite(c) PROVE PanicsOnlyWhenTorn'
    BY <1>2 DEF BeginWrite, Acquire
<1>3. ASSUME NEW c \in Clients,
             Call(c) \/ Get(c) \/ WriteChunk(c) \/ DeleteChunk(c) \/ Return(c)
      PROVE  PanicsOnlyWhenTorn'
    BY <1>3 DEF Call, Get, WriteChunk, DeleteChunk, Return
<1>4. CASE Crash
    BY <1>4 DEF Crash
<1>5. CASE UNCHANGED vars
    BY <1>5 DEF vars
<1> QED
    BY <1>1, <1>2, <1>3, <1>4, <1>5 DEF Next

\* A write goes from one state of the Secrets to the other through mixtures;
\* it is the writer's alone.
LEMMA WritingStep == FewChunks /\ IInv /\ [Next]_vars => Writing'
<1> SUFFICES ASSUME FewChunks, IInv, [Next]_vars, mu' # NoClient
             PROVE  (~torn /\ ~panicked /\ \E s \in Stores(old) : Mixture(s))'
    BY DEF Writing
<1> DEFINE Goal == ~torn' /\ ~panicked' /\ \E s \in Stores(old') : Mixture(s)'
<1> SUFFICES Goal
    OBVIOUS
<1>0. TypeOK /\ OneAtWork /\ Writing /\ Base * Base \in Nat
    BY SecretDBAssumption DEF IInv
<1>1. ASSUME NEW c \in Clients, Call(c) PROVE Goal
    <2>1. mu \in Clients /\ mu # c /\ mu # NoClient
        BY <1>0, <1>1 DEF Call, TypeOK, OneAtWork
    <2>2. New' = New
        BY <1>0, <1>1, <2>1 DEF Call, TypeOK, New
    <2> QED
        BY <1>0, <1>1, <2>1, <2>2 DEF Call, Writing, Mixture
<1>2. ASSUME NEW c \in Clients, Get(c) PROVE Goal
    BY <1>2 DEF Get, Acquire
<1>3. ASSUME NEW c \in Clients, BeginWrite(c) PROVE Goal
    <2>1. secrets \in Stores(Decoded)
        BY <1>3, ReadableStored DEF BeginWrite, IInv
    <2>2. secrets' = secrets /\ next' = 0 /\ old' = Decoded /\ ~torn' /\ ~panicked'
        BY <1>3 DEF BeginWrite, Acquire
    <2>3. Mixture(secrets)'
        BY <1>0, <2>2 DEF Mixture, ChunkNumbers
    <2> QED
        BY <2>1, <2>2, <2>3
<1>4. ASSUME NEW c \in Clients, Panic(c) PROVE Goal
    BY <1>4 DEF Panic, Acquire
<1>5. ASSUME NEW c \in Clients, WriteChunk(c) \/ DeleteChunk(c) PROVE Goal
    <2>1. /\ pc[c] = "write" /\ mu' = mu /\ New' = New /\ old' = old
          /\ torn' = torn /\ panicked' = panicked
        BY <1>5 DEF WriteChunk, DeleteChunk, New
    <2>2. /\ mu = c /\ ~torn /\ ~panicked /\ New \in Objects /\ NumChunks(New) \in 1..Base
          /\ next \in 0..(Base * Base)
        BY <2>1, AtWork
    <2>3. PICK s \in Stores(old) : Mixture(s)
        BY <2>2, SecretDBAssumption DEF IInv, Writing
    <2>4. next' = next + 1
        BY <1>5, <2>2, SecretDBAssumption DEF WriteChunk, DeleteChunk
    <2>5. \A n \in ChunkNumbers : n \in Int
        BY <1>0 DEF ChunkNumbers
    <2>6. \A n \in ChunkNumbers : n # next => secrets'[n] = secrets[n]
        BY <1>0, <1>5 DEF WriteChunk, DeleteChunk, TypeOK
    <2>7. next \in ChunkNumbers =>
             secrets'[next] = IF next < NumChunks(New) THEN [of |-> New, part |-> next] ELSE NoSecret
        BY <1>0, <1>5, <2>1, <2>2 DEF WriteChunk, DeleteChunk, TypeOK
    <2>8. Mixture(s)'
        BY <2>1, <2>2, <2>3, <2>4, <2>5, <2>6, <2>7, SecretDBAssumption DEF Mixture
    <2> QED
        BY <2>1, <2>2, <2>3, <2>8
<1>6. ASSUME NEW c \in Clients, Return(c) PROVE Goal
    BY <1>0, <1>6 DEF Return, Writing, Mixture, New
<1>7. CASE Crash
    BY <1>7 DEF Crash
<1>8. CASE UNCHANGED vars
    BY <1>0, <1>8 DEF vars, Writing, Mixture, New
<1> QED
    BY <1>1, <1>2, <1>3, <1>4, <1>5, <1>6, <1>7, <1>8 DEF Next

\* Two Secrets at least, when the first is not the only one.
LEMMA OnlyFirst ==
    ASSUME TypeOK, 0 \in Present, ~(Cardinality(Present) > 1)
    PROVE  Present = {0}
<1>1. IsFiniteSet(ChunkNumbers)
    BY FS_Interval, SecretDBAssumption DEF ChunkNumbers
<1>2. IsFiniteSet(Present)
    BY <1>1, FS_Subset DEF Present
<1>3. SUFFICES ASSUME NEW n \in Present, n # 0 PROVE FALSE
    OBVIOUS
<1>4. IsFiniteSet({0, n}) /\ Cardinality({0, n}) = 2
    <2>1. IsFiniteSet({0}) /\ Cardinality({0}) = 1
        BY FS_Singleton
    <2>2. IsFiniteSet({0} \cup {n}) /\ Cardinality({0} \cup {n}) = Cardinality({0}) + 1
        BY <1>3, <2>1, FS_AddElement
    <2>3. {0, n} = {0} \cup {n}
        OBVIOUS
    <2> QED
        BY <2>1, <2>2, <2>3
<1>5. Cardinality({0, n}) <= Cardinality(Present)
    BY <1>2, FS_Subset
<1> QED
    BY <1>2, <1>4, <1>5, FS_CardinalityType

\* A crash leaves a readable database when there was one Secret to replace by
\* one; a write that ends leaves what it wrote.
LEMMA QuietStep == FewChunks /\ IInv /\ [Next]_vars => Quiet'
<1> SUFFICES ASSUME FewChunks, IInv, [Next]_vars, mu' = NoClient, ~torn'
             PROVE  \E o \in Objects : secrets' \in Stores(o)
    BY DEF Quiet
<1> DEFINE Goal == \E o \in Objects : secrets' \in Stores(o)
<1>0. TypeOK /\ OneAtWork /\ Quiet /\ Writing
    BY DEF IInv
<1>1. ASSUME NEW c \in Clients, Call(c) \/ Get(c) \/ Panic(c) \/ Return(c) PROVE Goal
    BY <1>0, <1>1 DEF Call, Get, Panic, Return, Quiet
<1>2. ASSUME NEW c \in Clients, BeginWrite(c) PROVE Goal
    BY <1>2, SecretDBAssumption DEF BeginWrite
<1>3. ASSUME NEW c \in Clients, WriteChunk(c) PROVE Goal
    BY <1>3, AtWork, SecretDBAssumption DEF WriteChunk
<1>4. ASSUME NEW c \in Clients, DeleteChunk(c) PROVE Goal
    <2>1. pc[c] = "write" /\ next >= NumChunks(New)
        BY <1>4 DEF DeleteChunk
    <2>2. mu = c /\ New \in Objects /\ mu # NoClient
        BY <2>1, AtWork, SecretDBAssumption
    <2>3. next \notin Present /\ secrets' = secrets
        BY <1>4, <2>2 DEF DeleteChunk
    <2>4. secrets = Full(New)
        BY <2>1, <2>3, WriteEnds
    <2> QED
        BY <2>2, <2>3, <2>4 DEF Stores
<1>5. CASE Crash
    <2>1. secrets' = secrets
        BY <1>5 DEF Crash
    <2>2. CASE mu = NoClient
        BY <1>0, <1>5, <2>1, <2>2 DEF Crash, Quiet
    <2>3. CASE mu # NoClient
        <3>0. ~(Cardinality(Present) > 1) /\ ~(NumChunks(New) > 1)
            BY <1>5, <2>3 DEF Crash
        <3>1. mu \in Clients /\ pc[mu] = "write"
            BY <1>0, <2>3 DEF TypeOK, OneAtWork
        <3>2. New \in Objects /\ NumChunks(New) = 1 /\ next \in Nat
            <4>1. NumChunks(New) \in 1..Base /\ New \in Objects /\ next \in 0..(Base * Base)
                BY <3>1, AtWork
            <4> QED
                BY <4>1, <3>0, SecretDBAssumption
        <3>3. PICK s \in Stores(old) : Mixture(s)
            BY <1>0, <2>3 DEF Writing
        <3>4. \A n \in ChunkNumbers : n \in Nat
            BY SecretDBAssumption DEF ChunkNumbers
        <3>5. secrets \in [ChunkNumbers -> [of : Objects, part : ChunkNumbers] \cup {NoSecret}]
            BY <1>0 DEF TypeOK
        <3>6. CASE next = 0
            <4>1. \A n \in ChunkNumbers : secrets[n] = s[n]
                <5>1. \A n \in ChunkNumbers : n >= next
                    BY <3>4, <3>6
                <5> QED
                    BY <3>3, <5>1 DEF Mixture
            <4>2. s = [n \in ChunkNumbers |-> s[n]]
                BY DEF Stores, Full, NoSecrets
            <4>3. secrets = s
                BY <3>5, <4>1, <4>2
            <4> QED
                BY <1>0, <2>1, <4>3 DEF TypeOK
        <3>7. CASE next > 0
            <4>1. 0 \in ChunkNumbers
                BY ChunkNumbersSuffice, SecretDBAssumption
            <4>2. secrets[0] = [of |-> New, part |-> 0]
                BY <3>2, <3>3, <3>7, <4>1 DEF Mixture
            <4>3. 0 \in Present
                BY <3>2, <4>1, <4>2, NoSecretAssumption DEF Present
            <4>4. Present = {0}
                BY <1>0, <3>0, <4>3, OnlyFirst
            <4>5. \A n \in ChunkNumbers :
                     secrets[n] = IF n < NumChunks(New) THEN [of |-> New, part |-> n] ELSE NoSecret
                BY <3>2, <3>4, <4>2, <4>4 DEF Present
            <4>6. secrets = Full(New)
                BY <3>5, <4>5 DEF Full
            <4> QED
                BY <2>1, <3>2, <4>6 DEF Stores
        <3> QED
            BY <3>2, <3>6, <3>7
    <2> QED
        BY <2>2, <2>3
<1>6. CASE UNCHANGED vars
    BY <1>0, <1>6 DEF vars, Quiet
<1> QED
    BY <1>1, <1>2, <1>3, <1>4, <1>5, <1>6 DEF Next

\* There are no Secrets and nobody is at work.
LEMMA InitInv == FewChunks /\ Init => IInv
<1> SUFFICES ASSUME FewChunks, Init PROVE IInv
    OBVIOUS
<1>1. TypeOK
    <2>1. call \in [Clients -> [kind : {"put", "get", "delete"}, id : Ids,
                                val : Values \cup {NoValue}]]
        BY DEF Init, Calls
    <2>2. 0 \in ChunkNumbers
        BY ChunkNumbersSuffice, SecretDBAssumption
    <2>3. panicked \in BOOLEAN /\ torn \in BOOLEAN
        BY DEF Init
    <2> QED
        BY <2>1, <2>2, <2>3, EmptyIsObjects DEF Init, TypeOK
<1>2. OneAtWork
    BY SecretDBAssumption DEF Init, OneAtWork, Calls
<1>3. Placed
    BY DEF Init, Placed, Present
<1>4. secrets \in Stores(EmptyDB)
    BY DEF Init, Stores, NoSecrets
<1>5. Quiet /\ Writing
    BY <1>4, EmptyIsObjects DEF Quiet, Writing, Init
<1> QED
    BY <1>1, <1>2, <1>3, <1>5 DEF IInv, Init, PanicsOnlyWhenTorn

\* The parts together.
LEMMA InvStep == FewChunks /\ IInv /\ [Next]_vars => IInv'
BY TypeStep, OneAtWorkStep, PlacedStep, QuietStep, WritingStep, PanicsStep DEF IInv

\* The invariant holds throughout.
LEMMA InvAlways == ASSUME FewChunks PROVE Spec => []IInv
<1>1. Init => IInv
    BY InitInv
<1>2. IInv /\ [Next]_vars => IInv'
    BY InvStep
<1> QED
    BY <1>1, <1>2, PTL DEF Spec

-----------------------------------------------------------------------------
(* Theorems about the invariants.                                          *)

\* Variables keep their types, and the chunk numbers their bound (StupidDB,
\* secretStore).
THEOREM TypeCorrect == ASSUME FewChunks PROVE Spec => []TypeOK
<1>1. IInv => TypeOK
    BY DEF IInv
<1> QED
    BY <1>1, InvAlways, PTL

\* Whatever fits one Secret survives a crash at any API call: the database is
\* unreadable only after a write of several chunks was cut short
\* (secretStore.Write, deleteChunksFrom).
THEOREM PanicsTorn == ASSUME FewChunks PROVE Spec => []PanicsOnlyWhenTorn
<1>1. IInv => PanicsOnlyWhenTorn
    BY DEF IInv
<1> QED
    BY <1>1, InvAlways, PTL

-----------------------------------------------------------------------------
(* The refinement.                                                         *)

Requests == [kind : {"put", "get", "delete"}, id : Ids, val : Values \cup {NoValue}]

\* The effect and the answer of a call, as SecretDB computes them.
LEMMA SameEffect ==
    ASSUME NEW o, NEW r \in Requests
    PROVE  /\ r.kind # "get" => Abstract!After(o, r) = Updated(o, r) /\ Abstract!Answer(o, r) = r
           /\ r.kind = "get" => /\ Abstract!After(o, r) = o
                                /\ Abstract!Answer(o, r) = [r EXCEPT !.val = o[r.id]]
<1>1. CASE r.kind = "get"
    BY <1>1, Zenon DEF Abstract!After, Abstract!Answer
<1>2. CASE r.kind = "put"
    <2>1. Abstract!After(o, r) = [o EXCEPT ![r.id] = r.val]
        BY <1>2, Zenon DEF Abstract!After
    <2> QED
        BY <1>2, <2>1 DEF Updated, Abstract!Answer
<1>3. CASE r.kind = "delete"
    <2>1. Abstract!After(o, r) = [o EXCEPT ![r.id] = NoValue]
        BY <1>3, Zenon DEF Abstract!After
    <2> QED
        BY <1>3, <2>1 DEF Updated, Abstract!Answer
<1> QED
    BY <1>1, <1>2, <1>3 DEF Requests

\* Before its first chunk is written a call has no effect; from then on it has
\* one as soon as the Secrets can be read.
TakesEffect ==
    \A c \in Clients : pc[c] = "write" =>
        /\ next = 0 => Readable /\ Decoded = old
        /\ next > 0 /\ Readable => secrets = Full(New) /\ Decoded = New

\* It follows from the invariant: the first Secret is the new one.
LEMMA WriteTakesEffect == FewChunks /\ IInv => TakesEffect
<1> SUFFICES ASSUME FewChunks, IInv, NEW c \in Clients, pc[c] = "write"
             PROVE  /\ next = 0 => Readable /\ Decoded = old
                    /\ next > 0 /\ Readable => secrets = Full(New) /\ Decoded = New
    BY DEF TakesEffect
<1>0. TypeOK /\ Placed /\ Writing /\ old \in Objects
    BY DEF IInv, TypeOK
<1>1. /\ mu = c /\ New \in Objects /\ NumChunks(New) \in 1..Base /\ mu # NoClient
      /\ next \in Nat
    <2>1. /\ mu = c /\ New \in Objects /\ NumChunks(New) \in 1..Base
          /\ next \in 0..(Base * Base)
        BY AtWork
    <2> QED
        BY <2>1, SecretDBAssumption
<1>2. PICK s \in Stores(old) : Mixture(s)
    BY <1>0, <1>1 DEF Writing
<1>3. \A n \in ChunkNumbers : n \in Nat
    BY SecretDBAssumption DEF ChunkNumbers
<1>4. secrets \in [ChunkNumbers -> [of : Objects, part : ChunkNumbers] \cup {NoSecret}]
    BY <1>0 DEF TypeOK
<1>5. CASE next = 0
    <2>1. \A n \in ChunkNumbers : n >= next
        BY <1>3, <1>5
    <2>2. \A n \in ChunkNumbers : secrets[n] = s[n]
        BY <1>2, <2>1 DEF Mixture
    <2>3. s = [n \in ChunkNumbers |-> s[n]]
        BY DEF Stores, Full, NoSecrets
    <2>4. secrets = s
        BY <1>4, <2>2, <2>3
    <2> QED
        BY <1>0, <1>5, <2>4, StoredReadable
<1>6. CASE next > 0 /\ Readable
    <2>1. 0 \in ChunkNumbers
        BY ChunkNumbersSuffice, SecretDBAssumption
    <2>2. secrets[0] = [of |-> New, part |-> 0]
        BY <1>1, <1>2, <1>6, <2>1, SecretDBAssumption DEF Mixture
    <2>3. 0 \in Present
        BY <1>1, <2>1, <2>2, NoSecretAssumption DEF Present
    <2>4. PICK k \in Present : Encodes(secrets[k].of)
        BY <1>6, <2>3 DEF Readable
    <2>5. \A n \in Present : secrets[n].of = New
        BY <2>2, <2>3, <2>4 DEF Encodes
    <2>6. Decoded = New
        BY <2>3, <2>5 DEF Decoded
    <2>7. secrets \in Stores(New)
        BY <1>0, <1>6, <2>6, ReadableStored
    <2>8. secrets # NoSecrets
        BY <2>1, <2>3 DEF NoSecrets, Present
    <2> QED
        BY <1>6, <2>6, <2>7, <2>8 DEF Stores
<1> QED
    BY <1>1, <1>5, <1>6

\* The abstract state while a client writes.
WriterState ==
    \A c \in Clients : pc[c] = "write" =>
        /\ Committed(c) <=> next > 0 /\ Readable
        /\ AbstractObjs = IF Committed(c) THEN New ELSE old

\* The invariant gives it.
LEMMA AbstractState == FewChunks /\ IInv => WriterState
<1> SUFFICES ASSUME FewChunks, IInv, NEW c \in Clients, pc[c] = "write"
             PROVE  /\ Committed(c) <=> next > 0 /\ Readable
                    /\ AbstractObjs = IF Committed(c) THEN New ELSE old
    BY DEF WriterState
<1>1. next \in Nat
    BY AtWork, SecretDBAssumption
<1>2. /\ next = 0 => Readable /\ Decoded = old
      /\ next > 0 /\ Readable => secrets = Full(New) /\ Decoded = New
    BY WriteTakesEffect DEF TakesEffect
<1> QED
    BY <1>1, <1>2 DEF Committed, AbstractObjs

Ctl == [c \in Clients |-> AbstractCtl(c)]

\* A step of a writer in its loops is the one that takes effect, or none.
LEMMA LoopStep ==
    ASSUME FewChunks, IInv, IInv', NEW c \in Clients,
           WriteChunk(c) \/ (DeleteChunk(c) /\ next \in Present)
    PROVE  Abstract!Do(c) \/ UNCHANGED <<AbstractObjs, Ctl, call>>
<1>1. pc[c] = "write" /\ UNCHANGED <<mu, pc, call, old>>
    BY DEF WriteChunk, DeleteChunk
<1>2. /\ mu = c /\ New \in Objects /\ NumChunks(New) \in 1..Base
      /\ next \in 0..(Base * Base)
    BY <1>1, AtWork
<1>3. New' = New
    BY <1>1 DEF New
<1>4. next' = next + 1 /\ next' > 0
    BY <1>2, SecretDBAssumption DEF WriteChunk, DeleteChunk
<1>5. WriterState /\ TakesEffect
    BY AbstractState, WriteTakesEffect
<1>6. (FewChunks /\ IInv => WriterState)'
    BY AbstractState, PTL
<1>7. pc'[c] = "write" /\ WriterState'
    BY <1>1, <1>6
<1>8. \A d \in Clients : d # c => AbstractCtl(d)' = AbstractCtl(d)
    BY <1>1, <1>2, SecretDBAssumption DEF AbstractCtl, Committed, IInv, OneAtWork
<1>9. ASSUME Committed(c) PROVE secrets' = secrets
    <2>1. secrets = Full(New)
        BY <1>1, <1>5, <1>9 DEF TakesEffect, WriterState
    <2>2. CASE WriteChunk(c)
        <3>1. next < NumChunks(New)
            BY <2>2 DEF WriteChunk
        <3>2. next \in 0..(NumChunks(New) - 1)
            BY <1>2, <3>1, SecretDBAssumption
        <3>3. next \in ChunkNumbers /\ secrets[next] = [of |-> New, part |-> next]
            BY <1>2, <2>1, <3>2, FullStore
        <3> QED
            BY <2>2, <3>3 DEF WriteChunk, IInv, TypeOK
    <2>3. CASE DeleteChunk(c) /\ next \in Present
        <3>1. next >= NumChunks(New)
            BY <2>3 DEF DeleteChunk
        <3>2. next \notin 0..(NumChunks(New) - 1)
            BY <1>2, <3>1, SecretDBAssumption
        <3>3. next \in ChunkNumbers /\ secrets[next] # NoSecret
            BY <2>3 DEF Present
        <3> QED
            BY <1>2, <2>1, <3>2, <3>3, FullStore
    <2> QED
        BY <2>2, <2>3
<1>10. CASE Committed(c)
    <2>1. Readable' = Readable
        BY <1>9, <1>10 DEF Readable, Present, Encodes
    <2>2. Committed(c)'
        BY <1>1, <1>4, <1>5, <1>7, <1>10, <2>1 DEF WriterState
    <2>3. AbstractObjs' = AbstractObjs
        BY <1>1, <1>3, <1>5, <1>7, <1>10, <2>2 DEF WriterState
    <2>4. AbstractCtl(c)' = AbstractCtl(c)
        BY <1>1, <1>10, <2>2 DEF AbstractCtl
    <2> QED
        BY <1>1, <1>8, <2>3, <2>4 DEF Ctl
<1>11. CASE ~Committed(c) /\ ~Committed(c)'
    <2>1. AbstractObjs' = AbstractObjs
        BY <1>1, <1>5, <1>7, <1>11 DEF WriterState
    <2>2. AbstractCtl(c)' = AbstractCtl(c)
        BY <1>1, <1>11 DEF AbstractCtl
    <2> QED
        BY <1>1, <1>8, <2>1, <2>2 DEF Ctl
<1>12. CASE ~Committed(c) /\ Committed(c)'
    <2>1. AbstractObjs = old /\ AbstractObjs' = New
        BY <1>1, <1>3, <1>5, <1>7, <1>12 DEF WriterState
    <2>2. call[c] \in Requests /\ call[c].kind # "get" /\ call \in [Clients -> Requests]
        BY <1>1 DEF IInv, TypeOK, OneAtWork, Requests
    <2>3. New = Abstract!After(old, call[c]) /\ Abstract!Answer(old, call[c]) = call[c]
        BY <1>2, <2>2, SameEffect DEF New
    <2>4. call' = [call EXCEPT ![c] = Abstract!Answer(AbstractObjs, @)]
        BY <1>1, <2>1, <2>2, <2>3
    <2>5. AbstractCtl(c) = "busy" /\ AbstractCtl(c)' = "done"
        BY <1>1, <1>12 DEF AbstractCtl
    <2>6. Ctl[c] = "busy" /\ Ctl' = [Ctl EXCEPT ![c] = "done"]
        BY <1>8, <2>5 DEF Ctl
    <2> QED
        BY <2>1, <2>3, <2>4, <2>6 DEF Abstract!Do, Ctl
<1> QED
    BY <1>10, <1>11, <1>12

\* The last step of a write changes nothing: it had taken effect.
LEMMA EndStep ==
    ASSUME FewChunks, IInv, NEW c \in Clients, DeleteChunk(c), next \notin Present
    PROVE  UNCHANGED <<AbstractObjs, Ctl, call>>
<1>1. /\ pc[c] = "write" /\ next >= NumChunks(New) /\ pc' = [pc EXCEPT ![c] = "return"]
      /\ UNCHANGED <<secrets, call, old, next>>
    BY DEF DeleteChunk
<1>2. /\ mu = c /\ New \in Objects /\ NumChunks(New) \in 1..Base
      /\ next \in 0..(Base * Base)
    BY <1>1, AtWork
<1>3. secrets = Full(New)
    BY <1>1, WriteEnds
<1>4. Readable /\ next > 0
    BY <1>2, <1>1, <1>3, StoredReadable, SecretDBAssumption DEF Stores, IInv
<1>5. Committed(c)
    BY <1>1, <1>4, AbstractState DEF WriterState
<1>6. \A d \in Clients : AbstractCtl(d)' = AbstractCtl(d)
    BY <1>1, <1>2, <1>5 DEF AbstractCtl, Committed, IInv, TypeOK, OneAtWork
<1>7. AbstractObjs' = AbstractObjs
    BY <1>1 DEF AbstractObjs, Readable, Decoded, Present, Encodes
<1> QED
    BY <1>1, <1>6, <1>7 DEF Ctl

\* Nothing else changes the objects.
LEMMA OtherSteps ==
    ASSUME UNCHANGED <<secrets, old>>
    PROVE  UNCHANGED AbstractObjs
BY DEF AbstractObjs, Readable, Decoded, Present, Encodes

\* Whether a write has taken effect does not depend on other clients' calls.
LEMMA OthersUndisturbed ==
    ASSUME IInv, NEW c \in Clients, pc[c] # "write", UNCHANGED <<secrets, old, next>>,
           mu # NoClient => UNCHANGED mu /\ call'[mu] = call[mu],
           \A d \in Clients : d # c => pc'[d] = pc[d]
    PROVE  \A d \in Clients : d # c => AbstractCtl(d)' = AbstractCtl(d)
<1> SUFFICES ASSUME NEW d \in Clients, d # c PROVE AbstractCtl(d)' = AbstractCtl(d)
    OBVIOUS
<1>1. Readable' = Readable /\ Decoded' = Decoded
    BY DEF Readable, Decoded, Present, Encodes
<1>2. CASE pc[d] = "write"
    <2>1. mu = d /\ mu # NoClient
        BY <1>2, SecretDBAssumption DEF IInv, OneAtWork
    <2>2. New' = New
        BY <2>1 DEF New
    <2> QED
        BY <1>1, <1>2, <2>2 DEF AbstractCtl, Committed
<1>3. CASE pc[d] # "write"
    BY <1>3 DEF AbstractCtl, Committed
<1> QED
    BY <1>2, <1>3

\* Every step is one of the abstract database, or none.
LEMMA RefinementStep ==
    ASSUME FewChunks, IInv, IInv', [Next]_vars
    PROVE  [Abstract!Next]_(Abstract!dbVars)
<1> DEFINE Stutter == UNCHANGED <<AbstractObjs, Ctl, call>>
<1>0. /\ TypeOK /\ OneAtWork /\ pc \in [Clients -> {"idle", "called", "write", "return"}]
      /\ call \in [Clients -> Requests]
    BY DEF IInv, TypeOK, Requests
<1>1. ASSUME NEW c \in Clients, Call(c) PROVE Abstract!Call(c)
    <2>1. /\ pc[c] = "idle" /\ pc' = [pc EXCEPT ![c] = "called"]
          /\ UNCHANGED <<secrets, mu, old, next>>
        BY <1>1 DEF Call
    <2>2. PICK r \in Calls : call' = [call EXCEPT ![c] = r]
        BY <1>1 DEF Call
    <2>3. mu # c /\ (mu # NoClient => call'[mu] = call[mu])
        BY <1>0, <2>1, <2>2 DEF OneAtWork, TypeOK
    <2>4. \A d \in Clients : d # c => AbstractCtl(d)' = AbstractCtl(d)
        BY <1>0, <2>1, <2>3, OthersUndisturbed
    <2>5. AbstractCtl(c) = "ready" /\ AbstractCtl(c)' = "busy"
        BY <1>0, <2>1 DEF AbstractCtl, Committed
    <2>6. Ctl[c] = "ready" /\ Ctl' = [Ctl EXCEPT ![c] = "busy"]
        BY <2>4, <2>5 DEF Ctl
    <2>7. r \in Abstract!Calls
        BY DEF Calls, Abstract!Calls
    <2>8. AbstractObjs' = AbstractObjs
        BY <2>1, OtherSteps
    <2> QED
        BY <2>2, <2>6, <2>7, <2>8 DEF Abstract!Call, Ctl
<1>2. ASSUME NEW c \in Clients, Get(c) PROVE Abstract!Do(c)
    <2>1. /\ pc[c] = "called" /\ mu = NoClient /\ Readable /\ call[c].kind = "get"
          /\ call' = [call EXCEPT ![c].val = Decoded[call[c].id]]
          /\ pc' = [pc EXCEPT ![c] = "return"]
          /\ UNCHANGED <<secrets, mu, old, next>>
        BY <1>2 DEF Get, Acquire
    <2>2. AbstractObjs = Decoded /\ AbstractObjs' = AbstractObjs
        BY <2>1, OtherSteps DEF AbstractObjs
    <2>3. \A d \in Clients : d # c => AbstractCtl(d)' = AbstractCtl(d)
        BY <1>0, <2>1, OthersUndisturbed
    <2>4. AbstractCtl(c) = "busy" /\ AbstractCtl(c)' = "done"
        BY <1>0, <2>1 DEF AbstractCtl, Committed
    <2>5. Ctl[c] = "busy" /\ Ctl' = [Ctl EXCEPT ![c] = "done"]
        BY <2>3, <2>4 DEF Ctl
    <2>6. /\ Abstract!After(AbstractObjs, call[c]) = AbstractObjs
          /\ Abstract!Answer(AbstractObjs, call[c]) = [call[c] EXCEPT !.val = Decoded[call[c].id]]
        BY <1>0, <2>1, <2>2, SameEffect
    <2>7. call' = [call EXCEPT ![c] = Abstract!Answer(AbstractObjs, @)]
        BY <1>0, <2>1, <2>6
    <2> QED
        BY <2>2, <2>5, <2>6, <2>7 DEF Abstract!Do, Ctl
<1>3. ASSUME NEW c \in Clients, BeginWrite(c) PROVE Stutter
    <2>1. /\ pc[c] = "called" /\ mu = NoClient /\ Readable /\ old' = Decoded /\ next' = 0
          /\ pc' = [pc EXCEPT ![c] = "write"] /\ UNCHANGED <<secrets, call>>
        BY <1>3 DEF BeginWrite, Acquire
    <2>2. Readable' = Readable /\ Decoded' = Decoded
        BY <2>1 DEF Readable, Decoded, Present, Encodes
    <2>3. AbstractObjs' = AbstractObjs
        BY <2>1, <2>2 DEF AbstractObjs
    <2>4. \A d \in Clients : d # c => pc[d] # "write" /\ pc'[d] = pc[d]
        BY <1>0, <2>1, SecretDBAssumption DEF OneAtWork
    <2>5. \A d \in Clients : AbstractCtl(d)' = AbstractCtl(d)
        BY <1>0, <2>1, <2>4 DEF AbstractCtl, Committed
    <2> QED
        BY <2>1, <2>3, <2>5 DEF Ctl
<1>4. ASSUME NEW c \in Clients, Panic(c) PROVE Stutter
    <2>1. UNCHANGED <<secrets, mu, pc, call, old, next>>
        BY <1>4 DEF Panic
    <2> QED
        BY <2>1 DEF Ctl, AbstractCtl, AbstractObjs, Committed, New, Readable, Decoded, Present, Encodes
<1>5. ASSUME NEW c \in Clients, WriteChunk(c) \/ DeleteChunk(c) PROVE Abstract!Do(c) \/ Stutter
    BY <1>5, LoopStep, EndStep
<1>6. ASSUME NEW c \in Clients, Return(c) PROVE Abstract!Return(c)
    <2>1. /\ pc[c] = "return" /\ pc' = [pc EXCEPT ![c] = "idle"]
          /\ UNCHANGED <<secrets, mu, call, old, next>>
        BY <1>6 DEF Return
    <2>2. \A d \in Clients : d # c => AbstractCtl(d)' = AbstractCtl(d)
        BY <1>0, <2>1, OthersUndisturbed
    <2>3. AbstractCtl(c) = "done" /\ AbstractCtl(c)' = "ready"
        BY <1>0, <2>1 DEF AbstractCtl, Committed
    <2>4. Ctl[c] = "done" /\ Ctl' = [Ctl EXCEPT ![c] = "ready"]
        BY <2>2, <2>3 DEF Ctl
    <2>5. AbstractObjs' = AbstractObjs
        BY <2>1, OtherSteps
    <2> QED
        BY <2>1, <2>4, <2>5 DEF Abstract!Return, Ctl
<1>7. CASE Crash
    <2>1. pc' = [c \in Clients |-> "idle"] /\ UNCHANGED <<secrets, call, old>>
        BY <1>7 DEF Crash
    <2>2. Ctl' = [c \in Clients |-> "ready"]
        BY <2>1 DEF Ctl, AbstractCtl
    <2>3. AbstractObjs' = AbstractObjs
        BY <2>1, OtherSteps
    <2>4. Abstract!Crash
        BY <2>1, <2>2, <2>3 DEF Abstract!Crash, Ctl
    <2> QED
        BY <2>4 DEF Abstract!Next
<1>8. CASE UNCHANGED vars
    <2>1. Stutter
        BY <1>8 DEF vars, Ctl, AbstractCtl, AbstractObjs, Committed, New, Readable, Decoded, Present, Encodes
    <2> QED
        BY <2>1 DEF Abstract!dbVars, Ctl
<1>9. ASSUME Stutter PROVE UNCHANGED Abstract!dbVars
    BY <1>9 DEF Abstract!dbVars, Ctl
<1> QED
    BY <1>1, <1>2, <1>3, <1>4, <1>5, <1>6, <1>7, <1>8, <1>9 DEF Next, Abstract!Next

\* The empty database is the abstract one's initial state.
LEMMA RefinementInit == Init => Abstract!Init
<1> SUFFICES ASSUME Init PROVE Abstract!Init
    OBVIOUS
<1>1. Present = {}
    BY DEF Init, Present
<1>2. AbstractObjs = [i \in Ids |-> NoValue]
    BY <1>1 DEF AbstractObjs, Readable, Decoded, EmptyDB
<1>3. Ctl = [c \in Clients |-> "ready"]
    BY DEF Init, Ctl, AbstractCtl
<1>4. call \in [Clients -> Abstract!Calls]
    BY DEF Init, Calls, Abstract!Calls
<1> QED
    BY <1>2, <1>3, <1>4 DEF Abstract!Init, Ctl

\* The database over Secrets implements db.DB for any clients and objects whose
\* chunks have one digit: a call takes effect at one instant, and a crash at any
\* API call leaves the old objects, the new ones, or a database that refuses to
\* serve (StupidDB, secretStore).
THEOREM Refinement == ASSUME FewChunks PROVE Spec => ImplementsObjectDB
<1>1. Init => Abstract!Init
    BY RefinementInit
<1>2. IInv /\ IInv' /\ [Next]_vars => [Abstract!Next]_(Abstract!dbVars)
    BY RefinementStep
<1> QED
    BY <1>1, <1>2, InvAlways, PTL DEF Spec, ImplementsObjectDB, Abstract!Spec
=============================================================================
