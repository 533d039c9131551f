------------------------- MODULE InstanceTypeCache -------------------------
(***************************************************************************)
(* The provider of Nebius instance types:                                  *)
(* karpenter/pkg/cloudproviders/nebius/instancetype (provider.go,          *)
(* offerings.go, platform.go).  Karpenter's goroutines ask it for the      *)
(* instance types of a NodeClass key; a miss lists the platforms, prices   *)
(* every preset and stores the result in an LRU cache, which a background  *)
(* goroutine resolves again every five minutes.  No lock is held from the  *)
(* lookup to the store, so resolutions of one key overlap.                 *)
(*                                                                         *)
(* What Nebius offers is a sequence of versions it moves through.  The     *)
(* prices of one listing are read in one step (the code reads ten at a     *)
(* time).                                                                  *)
(***************************************************************************)
EXTENDS Integers, Sequences, Functions

CONSTANTS
    Keys,           \* NodeClassKeys
    Callers,        \* goroutines of Karpenter that use the provider
    Refresher,      \* the goroutine of refreshLoop
    CacheSize,      \* capacity of the LRU cache (1000 in the code)
    Presets,        \* platform/preset pairs, by instance type name
    Preemptible,    \* the presets whose platform allows preemptibles
    Listing,        \* version -> the presets Nebius lists, in order
    HourlyCost,     \* version -> preset -> capacity type -> extractHourlyPrice:
                    \*   DefaultPrice for a cost that is empty or does not parse
    DefaultPrice,   \* defaultPrice
    Requirements,   \* what NodeClaims ask for
    None,           \* no entry, no answer
    Faults          \* failures of the Nebius API, and "stop", a run lets happen

CapacityTypes == {"on-demand", "spot"}

Versions == DOMAIN Listing

ASSUME KeysAssumption == Keys # {}
ASSUME CacheSizeAssumption == CacheSize \in Nat \ {0}
ASSUME ProcsAssumption == Refresher \notin Callers
ASSUME PresetsAssumption == Preemptible \subseteq Presets
ASSUME ListingAssumption ==
    /\ Listing \in Seq(Seq(Presets)) \ {<<>>}
    /\ HourlyCost \in [Versions -> [Presets -> [CapacityTypes -> Nat]]]
    /\ DefaultPrice \in Nat
ASSUME RequirementsAssumption ==
    Requirements \subseteq [names : SUBSET Presets, types : SUBSET CapacityTypes]
ASSUME FaultsAssumption == Faults \subseteq {"list", "price", "stop"}

\* The capacity types of a preset, its InstanceType, and the offerings in it.
TypesOf(p) == IF p \in Preemptible THEN CapacityTypes ELSE {"on-demand"}

AnyInstanceType ==
    LET Offerings(T) == [T -> [price : Nat, available : BOOLEAN]]
    IN  {it \in [name : Presets, offerings : Offerings(CapacityTypes) \cup Offerings({"on-demand"})] :
            DOMAIN it.offerings = TypesOf(it.name)}

AnyOffer == [name : Presets, type : CapacityTypes, price : Nat, available : BOOLEAN]

\* A cached entry: an InstanceType for each preset of some listing.
IsEntry(e) == \E v \in Versions : e \in [DOMAIN Listing[v] -> AnyInstanceType]

ASSUME NoneAssumption == None \notin AnyOffer /\ ~IsEntry(None)

Procs == Callers \cup {Refresher}

VARIABLES
    version,    \* what Nebius offers now
    cache,      \* the cached entry of a key, or None
    recent,     \* the keys in the cache, the most recently used first
    activeKeys, \* the keys refreshAll resolves again
    todo,       \* the keys refreshAll has yet to resolve
    pc,         \* where a goroutine is
    key,        \* the key it works on
    listed,     \* the version its listing comes from
    found,      \* the entry it has in hand
    asked,      \* the requirements it was called with
    scanned,    \* the number of instance types it has looked at for a launch
    answer      \* the launch settings, the best so far or returned, or None

vars == <<version, cache, recent, activeKeys, todo, pc, key, listed, found, asked, scanned, answer>>

-----------------------------------------------------------------------------
(* Entries.                                                                *)

\* What one EstimateBatch call leads to: the price in its answer, or an error.
Estimates(p, type) ==
    {[price |-> HourlyCost[version][p][type], err |-> FALSE]}
        \cup (IF "price" \in Faults THEN {[price |-> DefaultPrice, err |-> TRUE]} ELSE {})

\* GetPrices keeps one error per preset, so both offerings of a preset are
\* unavailable when either price is missing; the preemptible price is not
\* asked for after an error.
CreateOfferings(p, onDemand, spot) ==
    [type \in TypesOf(p) |->
        [price |-> IF type = "spot"
                   THEN IF onDemand.err THEN DefaultPrice ELSE spot.price
                   ELSE onDemand.price,
         available |-> ~onDemand.err /\ (p \in Preemptible => ~spot.err)]]

InstanceTypes(p) ==
    {[name |-> p, offerings |-> CreateOfferings(p, onDemand, spot)] :
        onDemand \in Estimates(p, "on-demand"), spot \in Estimates(p, "spot")}

\* The entries resolve can build from the listing of version v.
Resolutions(v) ==
    {e \in [DOMAIN Listing[v] -> UNION {InstanceTypes(p) : p \in Presets}] :
        \A i \in DOMAIN e : e[i] \in InstanceTypes(Listing[v][i])}

\* The entry that resolve builds when every call succeeds at once.
Current ==
    [i \in DOMAIN Listing[version] |->
        LET p == Listing[version][i]
            Paid(type) == [price |-> HourlyCost[version][p][type], err |-> FALSE]
        IN  [name |-> p, offerings |-> CreateOfferings(p, Paid("on-demand"), Paid("spot"))]]

\* An offering as the selection sees it.
Offer(it, type) ==
    [name |-> it.name, type |-> type,
     price |-> it.offerings[type].price, available |-> it.offerings[type].available]

\* The offerings of the instance types of an entry at the places in D.
Offered(e, D) == UNION {{Offer(e[i], type) : type \in DOMAIN e[i].offerings} : i \in D}

Eligible(o, req) == o.available /\ o.name \in req.names /\ o.type \in req.types

\* Mutant: an offering that is not available is a candidate too.
CheaperUnavailableToo(best, o, req) ==
    IF /\ o.name \in req.names /\ o.type \in req.types
       /\ IF best = None THEN TRUE ELSE o.price < best.price
    THEN o ELSE best

\* An offering replaces the best so far if it is eligible and cheaper.
Cheaper(best, o, req) ==
    IF Eligible(o, req) /\ (IF best = None THEN TRUE ELSE o.price < best.price)
    THEN o ELSE best

\* The inner loop of ResolvePlatformPresetFromNodeClaim: on-demand comes first.
Scan(best, it, req) ==
    LET onDemand == Cheaper(best, Offer(it, "on-demand"), req)
    IN  IF "spot" \in DOMAIN it.offerings THEN Cheaper(onDemand, Offer(it, "spot"), req)
                                          ELSE onDemand

-----------------------------------------------------------------------------
Init ==
    /\ version = 1
    /\ cache = [k \in Keys |-> None]
    /\ recent = <<>>
    /\ activeKeys = {}
    /\ todo = {}
    /\ pc = [q \in Procs |-> "idle"]
    /\ key = [q \in Procs |-> CHOOSE k \in Keys : TRUE]
    /\ listed = [q \in Procs |-> 1]
    /\ found = [q \in Procs |-> None]
    /\ asked = [q \in Procs |-> [names |-> {}, types |-> {}]]
    /\ scanned = [q \in Procs |-> 0]
    /\ answer = [q \in Procs |-> None]

Goto(q, step) == pc' = [pc EXCEPT ![q] = step]

\* lru.Cache.Get on a hit, and Add with its eviction of the least recent key.
Place(k) == IF k \in Range(recent) THEN CHOOSE i \in DOMAIN recent : recent[i] = k
                                   ELSE Len(recent) + 1

Touched(k) ==
    [i \in 1..(IF k \in Range(recent) THEN Len(recent) ELSE Len(recent) + 1) |->
        IF i = 1 THEN k ELSE IF i <= Place(k) THEN recent[i - 1] ELSE recent[i]]

CacheAdd(k, e) ==
    /\ recent' = SubSeq(Touched(k), 1, IF Len(Touched(k)) > CacheSize THEN CacheSize ELSE Len(Touched(k)))
    /\ cache' = [j \in Keys |->
                    IF j \notin Range(recent') THEN None ELSE IF j = k THEN e ELSE cache[j]]

-----------------------------------------------------------------------------
(* Calls of the provider.                                                  *)

\* ResolvePlatformPresetFromNodeClaim without an instance type requirement.
CallRefused(c, req) ==
    /\ pc[c] = "idle"
    /\ req.names = {}
    /\ asked' = [asked EXCEPT ![c] = req]
    /\ found' = [found EXCEPT ![c] = None]
    /\ answer' = [answer EXCEPT ![c] = None]
    /\ UNCHANGED <<version, cache, recent, activeKeys, todo, pc, key, listed, scanned>>

\* getOrResolveCachedEntry finds the key, or starts to resolve it.
Call(c, k, req) ==
    /\ pc[c] = "idle"
    /\ req.names # {}
    /\ key' = [key EXCEPT ![c] = k]
    /\ asked' = [asked EXCEPT ![c] = req]
    /\ answer' = [answer EXCEPT ![c] = None]
    /\ found' = [found EXCEPT ![c] = cache[k]]
    /\ IF cache[k] # None
       THEN Goto(c, "select") /\ recent' = Touched(k)
       ELSE Goto(c, "list") /\ UNCHANGED recent
    /\ UNCHANGED <<version, cache, activeKeys, todo, listed, scanned>>

\* listPlatformPresets.
List(q) ==
    /\ pc[q] = "list"
    /\ listed' = [listed EXCEPT ![q] = version]
    /\ Goto(q, "price")
    /\ UNCHANGED <<version, cache, recent, activeKeys, todo, key, found, asked, scanned, answer>>

\* Mutant: a failed listing is stored as a listing of nothing.
ListFailsEmpty(q) ==
    /\ pc[q] = "list"
    /\ "list" \in Faults
    /\ found' = [found EXCEPT ![q] = <<>>]
    /\ Goto(q, "add")
    /\ UNCHANGED <<version, cache, recent, activeKeys, todo, key, listed, asked, scanned, answer>>

\* A failed listing ends the call with an error; refreshAll goes on with the
\* next key and keeps the entry it has.
ListFails(q) ==
    /\ pc[q] = "list"
    /\ "list" \in Faults
    /\ Goto(q, IF q = Refresher THEN "next" ELSE "idle")
    /\ UNCHANGED <<version, cache, recent, activeKeys, todo, key, listed, found, asked, scanned, answer>>

\* GetPrices and the assembly of the InstanceTypes; nothing in it fails.
Price(q) ==
    /\ pc[q] = "price"
    /\ \E e \in Resolutions(listed[q]) : found' = [found EXCEPT ![q] = e]
    /\ Goto(q, "add")
    /\ UNCHANGED <<version, cache, recent, activeKeys, todo, key, listed, asked, scanned, answer>>

\* Mutant: an entry that is there already is kept.
AddIfAbsent(q) ==
    /\ pc[q] = "add"
    /\ IF cache[key[q]] = None THEN CacheAdd(key[q], found[q]) ELSE UNCHANGED <<cache, recent>>
    /\ Goto(q, IF q = Refresher THEN "next" ELSE "track")
    /\ UNCHANGED <<version, activeKeys, todo, key, listed, found, asked, scanned, answer>>

\* The cache takes the entry, whatever it holds by now.
Add(q) ==
    /\ pc[q] = "add"
    /\ CacheAdd(key[q], found[q])
    /\ Goto(q, IF q = Refresher THEN "next" ELSE "track")
    /\ UNCHANGED <<version, activeKeys, todo, key, listed, found, asked, scanned, answer>>

\* Mutant: the key is not recorded for the background refresh.
trackKeyForgotten(c) ==
    /\ pc[c] = "track"
    /\ Goto(c, "select")
    /\ UNCHANGED <<version, cache, recent, activeKeys, todo, key, listed, found, asked, scanned, answer>>

trackKey(c) ==
    /\ pc[c] = "track"
    /\ activeKeys' = activeKeys \cup {key[c]}
    /\ Goto(c, "select")
    /\ UNCHANGED <<version, cache, recent, todo, key, listed, found, asked, scanned, answer>>

\* One turn of the loop over the instance types of the entry in hand ...
Consider(c) ==
    /\ pc[c] = "select"
    /\ scanned[c] + 1 \in DOMAIN found[c]
    /\ answer' = [answer EXCEPT ![c] = Scan(@, found[c][scanned[c] + 1], asked[c])]
    /\ scanned' = [scanned EXCEPT ![c] = @ + 1]
    /\ UNCHANGED <<version, cache, recent, activeKeys, todo, pc, key, listed, found, asked>>

\* ... and the return of the best, or of an error.  (GetInstanceTypes returns the
\* entry itself.)
Select(c) ==
    /\ pc[c] = "select"
    /\ scanned[c] + 1 \notin DOMAIN found[c]
    /\ scanned' = [scanned EXCEPT ![c] = 0]
    /\ Goto(c, "idle")
    /\ UNCHANGED <<version, cache, recent, activeKeys, todo, key, listed, found, asked, answer>>

\* Get and List of the cloud provider look up the preset and the instance type of
\* a pool.  A hit makes the key recent, which decides what is evicted; on a miss
\* Nebius is asked and the answer is not stored.
getCachedOrListPresets(k) ==
    /\ cache[k] # None
    /\ recent' = Touched(k)
    /\ UNCHANGED <<version, cache, activeKeys, todo, pc, key, listed, found, asked, scanned, answer>>

GetPlatformPreset(k) == getCachedOrListPresets(k)

\* The instance type is looked up in the cache by itself: the entry the preset came
\* from may be gone by now.
GetInstanceTypeByPlatformPreset(k) ==
    /\ cache[k] # None
    /\ recent' = Touched(k)
    /\ UNCHANGED <<version, cache, activeKeys, todo, pc, key, listed, found, asked, scanned, answer>>

Lookup(k) == GetPlatformPreset(k) \/ GetInstanceTypeByPlatformPreset(k)

-----------------------------------------------------------------------------
(* The background refresh.                                                 *)

\* A tick of refreshLoop: refreshAll copies the keys under activeKeysMu.
RefreshStart ==
    /\ pc[Refresher] = "idle"
    /\ activeKeys # {}
    /\ todo' = activeKeys
    /\ Goto(Refresher, "next")
    /\ UNCHANGED <<version, cache, recent, activeKeys, key, listed, found, asked, scanned, answer>>

\* The next key, in any order (the keys come from a map) ...
RefreshNext(k) ==
    /\ pc[Refresher] = "next"
    /\ k \in todo
    /\ todo' = todo \ {k}
    /\ key' = [key EXCEPT ![Refresher] = k]
    /\ Goto(Refresher, "list")
    /\ UNCHANGED <<version, cache, recent, activeKeys, listed, found, asked, scanned, answer>>

\* ... until none is left.
RefreshEnd ==
    /\ pc[Refresher] = "next"
    /\ todo = {}
    /\ Goto(Refresher, "idle")
    /\ UNCHANGED <<version, cache, recent, activeKeys, todo, key, listed, found, asked, scanned, answer>>

\* Provider.Stop: the loop reads stopCh between two refreshes, for good.
Stop ==
    /\ pc[Refresher] = "idle"
    /\ "stop" \in Faults
    /\ Goto(Refresher, "stopped")
    /\ UNCHANGED <<version, cache, recent, activeKeys, todo, key, listed, found, asked, scanned, answer>>

\* Nebius changes its platforms or its prices.
Reprice ==
    /\ version + 1 \in Versions
    /\ version' = version + 1
    /\ UNCHANGED <<cache, recent, activeKeys, todo, pc, key, listed, found, asked, scanned, answer>>
-----------------------------------------------------------------------------
Refresh ==
    RefreshStart \/ (\E k \in Keys : RefreshNext(k)) \/ RefreshEnd

Resolve(q) == List(q) \/ Price(q) \/ Add(q)

Next ==
    \/ \E c \in Callers :
          \/ \E req \in Requirements : CallRefused(c, req) \/ \E k \in Keys : Call(c, k, req)
          \/ trackKey(c) \/ Consider(c) \/ Select(c)
    \/ \E q \in Procs : Resolve(q) \/ ListFails(q)
    \/ \E k \in Keys : Lookup(k)
    \/ Refresh \/ Stop \/ Reprice

Spec == Init /\ [][Next]_vars

\* Goroutines that work go on, the ticker ticks, and a call that the refresh
\* makes for a key again and again succeeds in the end, with every price.
PricedInFull == Price(Refresher) /\ found'[Refresher] = Current

Fairness ==
    /\ WF_vars(Refresh)
    /\ \A q \in Procs : WF_vars(Resolve(q))
    /\ \A c \in Callers : WF_vars(trackKey(c))
    /\ \A k \in Keys :
          /\ SF_vars(List(Refresher) /\ key[Refresher] = k)
          /\ SF_vars(PricedInFull /\ key[Refresher] = k)

FairSpec == Spec /\ Fairness

-----------------------------------------------------------------------------
(* Properties.                                                             *)

\* The types; and the keys in recent are exactly those with an entry, each once,
\* and no more of them than the cache holds.
TypeOK ==
    /\ version \in Versions
    /\ \A k \in Keys : cache[k] = None \/ IsEntry(cache[k])
    /\ recent \in Seq(Keys) /\ Len(recent) <= CacheSize /\ IsInjective(recent)
    /\ {k \in Keys : cache[k] # None} = Range(recent)
    /\ activeKeys \subseteq Keys /\ todo \subseteq activeKeys
    /\ pc \in [Procs -> {"idle", "list", "price", "add", "track", "select", "next", "stopped"}]
    /\ key \in [Procs -> Keys]
    /\ listed \in [Procs -> Versions]
    /\ \A q \in Procs : found[q] = None \/ IsEntry(found[q])
    /\ scanned \in [Procs -> Nat]

\* A cached entry is refreshed from then on: its key is recorded, or a call that
\* has stored an entry for it is about to record it (getOrResolveCachedEntry
\* stores first, so one refresh may miss the key, but not the next).
CachedKeysTracked ==
    \A k \in Keys : cache[k] # None =>
        k \in activeKeys \/ \E c \in Callers : pc[c] = "track" /\ key[c] = k

IsCheapest(a, S, req) ==
    LET E == {o \in S : Eligible(o, req)}
    IN  IF E = {} THEN a = None ELSE a \in E /\ \A o \in E : a.price <= o.price

\* A NodeClaim is launched on an offering it asks for, that is available and
\* that no other such offering undercuts; it is refused only when there is none
\* (ResolvePlatformPresetFromNodeClaim).
LaunchesCheapest ==
    \A c \in Callers : pc[c] = "idle" /\ found[c] # None =>
        IsCheapest(answer[c], Offered(found[c], DOMAIN found[c]), asked[c])

\* A key that is recorded shows what Nebius offers again and again, whatever
\* older resolutions overwrite and whichever calls fail in between.
CacheBecomesCurrent ==
    \A k \in Keys : k \in activeKeys ~> cache[k] = Current \/ pc[Refresher] = "stopped"
=============================================================================
