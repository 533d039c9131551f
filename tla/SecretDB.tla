------------------------------ MODULE SecretDB ------------------------------
(***************************************************************************)
(* StupidDB over Kubernetes Secrets (plugin/pkg/db/db.go, secretstore.go). *)
(* Every operation holds db.mu throughout.  Objects are encoded (protobuf, *)
(* gzip) as one blob, cut into chunks, and each chunk is stored as a       *)
(* Secret of its own by API calls between which the process may crash.     *)
(*                                                                         *)
(* A chunk is modelled by the objects it encodes and its position.  gzip's *)
(* checksum makes every other concatenation of chunks unreadable, which in *)
(* the code is a panic.                                                    *)
(***************************************************************************)
EXTENDS Integers, FiniteSets

CONSTANTS
    Clients, Ids, Values, NoValue,
    ChunkSize,  \* objects per chunk (maxChunkSize, 1 MiB, in the code)
    Base,       \* base of the chunk numbers in Secret names (10 in the code)
    Crashes,    \* whether the process may crash
    NoSecret, NoClient

ASSUME SecretDBAssumption ==
    /\ ChunkSize \in Nat \ {0}
    /\ Base \in Nat \ {0, 1}
    /\ Crashes \in BOOLEAN
    /\ NoValue \notin Values
    /\ NoClient \notin Clients

VARIABLES
    secrets,    \* the chunk Secrets, by number
    mu,         \* the client that holds db.mu
    pc,         \* per client: "idle", "called", "write" or "return"
    call,       \* per client: its call, with the answer of a Get
    old,        \* what the holder of db.mu has read
    next,       \* the number of the next Secret it writes or deletes
    panicked,   \* whether a read found the Secrets unreadable
    torn        \* whether the last write was cut short among several chunks

vars == <<secrets, mu, pc, call, old, next, panicked, torn>>

Objects == [Ids -> Values \cup {NoValue}]

EmptyDB == [i \in Ids |-> NoValue]

Calls ==
    [kind : {"put"}, id : Ids, val : Values]
    \cup [kind : {"get", "delete"}, id : Ids, val : {NoValue}]

\* Bound on the chunk numbers: names of at most two digits.
ChunkNumbers == 0..(Base * Base - 1)

ASSUME NoSecretAssumption == NoSecret \notin [of : Objects, part : ChunkNumbers]

\* How many chunks the encoding of objects o fills: the gzip frame takes room
\* too, so there is always one.
NumChunks(o) ==
    (Cardinality({i \in Ids : o[i] # NoValue}) + ChunkSize) \div ChunkSize

\* Secret names are compared as strings, digit by digit.
LeadingDigit(n) == IF n < Base THEN n ELSE n \div Base

NameLess(m, n) ==
    \/ LeadingDigit(m) < LeadingDigit(n)
    \/ (LeadingDigit(m) = LeadingDigit(n) /\ m < n)

Present == {n \in ChunkNumbers : secrets[n] # NoSecret}

\* Read finds the encoding of o: all its chunks and no other, in name order.
Encodes(o) ==
    /\ \A n \in Present : secrets[n].of = o
    /\ {secrets[n].part : n \in Present} = 0..(NumChunks(o) - 1)
    /\ \A m, n \in Present : NameLess(m, n) => secrets[m].part < secrets[n].part

Readable == Present = {} \/ \E n \in Present : Encodes(secrets[n].of)

\* secretStore.Read and the decoding in StupidDB.list; no Secret at all reads
\* as the empty list.
Decoded == IF Present = {} THEN EmptyDB ELSE secrets[CHOOSE n \in Present : TRUE].of

\* Mutant: an object that is put is added behind the one it should replace,
\* which Get then finds first.
UpdatedKeepsFirst(o, r) ==
    [o EXCEPT ![r.id] = IF r.kind = "put" THEN IF @ = NoValue THEN r.val ELSE @ ELSE NoValue]

\* What StupidDB.CreateOrUpdate and Delete make of the list they read.
Updated(o, r) == [o EXCEPT ![r.id] = IF r.kind = "put" THEN r.val ELSE NoValue]

TypeOK ==
    /\ secrets \in [ChunkNumbers -> [of : Objects, part : ChunkNumbers] \cup {NoSecret}]
    /\ mu \in Clients \cup {NoClient}
    /\ pc \in [Clients -> {"idle", "called", "write", "return"}]
    /\ call \in [Clients -> [kind : {"put", "get", "delete"}, id : Ids,
                             val : Values \cup {NoValue}]]
    /\ old \in Objects
    /\ next \in ChunkNumbers \cup {Base * Base}
    /\ panicked \in BOOLEAN /\ torn \in BOOLEAN

Init ==
    /\ secrets = [n \in ChunkNumbers |-> NoSecret]
    /\ mu = NoClient
    /\ pc = [c \in Clients |-> "idle"]
    /\ \E r \in Calls : call = [c \in Clients |-> r]
    /\ old = EmptyDB
    /\ next = 0
    /\ panicked = FALSE /\ torn = FALSE

Call(c) ==
    /\ pc[c] = "idle"
    /\ ~panicked
    /\ \E r \in Calls : call' = [call EXCEPT ![c] = r]
    /\ pc' = [pc EXCEPT ![c] = "called"]
    /\ UNCHANGED <<secrets, mu, old, next, panicked, torn>>

\* Every operation starts by taking db.mu and reading the whole store.
Acquire(c) == pc[c] = "called" /\ mu = NoClient /\ ~panicked

\* Get (and List, which is Get for every ID) answers from what it read.
Get(c) ==
    /\ Acquire(c)
    /\ Readable
    /\ call[c].kind = "get"
    /\ call' = [call EXCEPT ![c].val = Decoded[call[c].id]]
    /\ pc' = [pc EXCEPT ![c] = "return"]
    /\ UNCHANGED <<secrets, mu, old, next, panicked, torn>>

\* CreateOrUpdate and Delete go on to write.
BeginWrite(c) ==
    /\ Acquire(c)
    /\ Readable
    /\ call[c].kind # "get"
    /\ mu' = c
    /\ old' = Decoded
    /\ next' = 0
    /\ pc' = [pc EXCEPT ![c] = "write"]
    /\ torn' = FALSE
    /\ UNCHANGED <<secrets, call, panicked>>

\* An unreadable store makes list panic and takes the process down.
Panic(c) ==
    /\ Acquire(c)
    /\ ~Readable
    /\ panicked' = TRUE
    /\ UNCHANGED <<secrets, mu, pc, call, old, next, torn>>

New == Updated(old, call[mu])

\* One round of the first loop of secretStore.Write.
WriteChunk(c) ==
    /\ pc[c] = "write"
    /\ next < NumChunks(New)
    /\ secrets' = [secrets EXCEPT ![next] = [of |-> New, part |-> next]]
    /\ next' = next + 1
    /\ UNCHANGED <<mu, pc, call, old, panicked, torn>>

\* Mutant: chunks left over from a longer encoding are not deleted.
DeleteChunkForgotten(c) ==
    /\ pc[c] = "write"
    /\ next >= NumChunks(New)
    /\ mu' = NoClient
    /\ pc' = [pc EXCEPT ![c] = "return"]
    /\ UNCHANGED <<secrets, call, old, next, panicked, torn>>

\* Mutant: the loop over leftover chunks does not end at the first NotFound.
DeleteChunkEndless(c) ==
    /\ pc[c] = "write"
    /\ next >= NumChunks(New)
    /\ secrets' = [secrets EXCEPT ![next] = NoSecret]
    /\ next' = next + 1
    /\ UNCHANGED <<mu, pc, call, old, panicked, torn>>

\* One round of deleteChunksFrom, which ends at the first number without a
\* Secret; the operation then unlocks.
DeleteChunk(c) ==
    /\ pc[c] = "write"
    /\ next >= NumChunks(New)
    /\ IF next \in Present
       THEN /\ secrets' = [secrets EXCEPT ![next] = NoSecret]
            /\ next' = next + 1
            /\ UNCHANGED <<mu, pc>>
       ELSE /\ mu' = NoClient
            /\ pc' = [pc EXCEPT ![c] = "return"]
            /\ UNCHANGED <<secrets, next>>
    /\ UNCHANGED <<call, old, panicked, torn>>

Return(c) ==
    /\ pc[c] = "return"
    /\ pc' = [pc EXCEPT ![c] = "idle"]
    /\ UNCHANGED <<secrets, mu, call, old, next, panicked, torn>>

\* The process stops, by itself or because an API error made the database
\* panic, and starts again.
Crash ==
    /\ Crashes
    /\ mu' = NoClient
    /\ pc' = [c \in Clients |-> "idle"]
    /\ torn' = (torn \/ (mu # NoClient /\ (Cardinality(Present) > 1 \/ NumChunks(New) > 1)))
    /\ UNCHANGED <<secrets, call, old, next, panicked>>

Next ==
    \/ \E c \in Clients : \/ Call(c) \/ Get(c) \/ BeginWrite(c) \/ Panic(c)
                          \/ WriteChunk(c) \/ DeleteChunk(c) \/ Return(c)
    \/ Crash

Spec == Init /\ [][Next]_vars

-----------------------------------------------------------------------------
(* Properties.                                                             *)

\* The call in progress has taken effect: the Secrets encode its result.
Committed(c) ==
    \/ pc[c] = "return"
    \/ pc[c] = "write" /\ next > 0 /\ Readable /\ Decoded = New

AbstractCtl(c) ==
    IF pc[c] = "idle" THEN "ready" ELSE IF Committed(c) THEN "done" ELSE "busy"

\* While a write is under way the objects are the old ones.
AbstractObjs == IF Readable THEN Decoded ELSE old

Abstract == INSTANCE ObjectDB
              WITH objs <- AbstractObjs, ctl <- [c \in Clients |-> AbstractCtl(c)]

\* The database is the atomic map the services expect: every call takes effect
\* at one instant, whatever the number of chunks the objects fill before and
\* after it.  Under crashes between chunks it stops serving rather than serve
\* a mixture of two states.
ImplementsObjectDB == Abstract!Spec

\* The database finds its own Secrets unreadable only after the process was
\* stopped in the last write, and only if that write had several chunks to write
\* or to remove: whatever fits one Secret survives a crash at any API call.
PanicsOnlyWhenTorn == panicked => torn

\* What has been written can be read back, as the round trip in
\* secretstore_test.go asserts: with db.mu free the Secrets are readable.
RoundTrip == mu = NoClient => Readable
=============================================================================
