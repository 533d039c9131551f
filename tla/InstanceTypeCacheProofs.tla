---------------------- MODULE InstanceTypeCacheProofs ----------------------
(***************************************************************************)
(* Proofs about InstanceTypeCache, for any number of keys, callers and     *)
(* versions, any listings, prices and capacity of the cache and every set  *)
(* of failures.                                                            *)
(*                                                                         *)
(* CachedKeysTracked is not inductive: the refresh stores entries and      *)
(* records no key, so that the key it works on must be recorded already.   *)
(* Neither is LaunchesCheapest: it needs the invariant of the loop over    *)
(* the instance types, for a goroutine that is in it.                      *)
(***************************************************************************)
EXTENDS InstanceTypeCache, TLAPS

\* The part of the types the argument about the keys needs.
Shape ==
    /\ pc \in [Procs -> {"idle", "list", "price", "add", "track", "select", "next", "stopped"}]
    /\ key \in [Procs -> Keys]
    /\ cache = [k \in Keys |-> cache[k]]
    /\ activeKeys \subseteq Keys /\ todo \subseteq activeKeys

\* The refresh works on keys that are recorded, and no key is ever forgotten.
RefreshesTracked == pc[Refresher] \in {"list", "price", "add"} => key[Refresher] \in activeKeys

KInv == Shape /\ RefreshesTracked /\ CachedKeysTracked

-----------------------------------------------------------------------------
\* At first nothing is cached.
LEMMA InitInv == Init => KInv
BY KeysAssumption DEF Init, KInv, Shape, RefreshesTracked, CachedKeysTracked, Procs

\* Storing an entry adds the key it is stored for and may evict others.
LEMMA AddStores ==
    ASSUME NEW k \in Keys, NEW e, CacheAdd(k, e), NEW j \in Keys, cache'[j] # None, j # k
    PROVE  cache[j] # None
BY DEF CacheAdd

\* Callers record the key they store; the refresh stores recorded keys only.
LEMMA InvStep == KInv /\ [Next]_vars => KInv'
<1> SUFFICES ASSUME KInv, [Next]_vars PROVE KInv'
    OBVIOUS
<1> USE ProcsAssumption DEF KInv, Shape, RefreshesTracked, CachedKeysTracked, Procs, Goto
<1>1. ASSUME NEW c \in Callers, NEW req \in Requirements, CallRefused(c, req) PROVE KInv'
    BY <1>1 DEF CallRefused
<1>2. ASSUME NEW c \in Callers, NEW req \in Requirements, NEW k \in Keys, Call(c, k, req) PROVE KInv'
    BY <1>2 DEF Call
<1>3. ASSUME NEW c \in Callers, trackKey(c) PROVE KInv'
    BY <1>3 DEF trackKey
<1>4. ASSUME NEW c \in Callers, Consider(c) \/ Select(c) PROVE KInv'
    BY <1>4 DEF Consider, Select
<1>5. ASSUME NEW q \in Procs, List(q) PROVE KInv'
    BY <1>5 DEF List
<1>6. ASSUME NEW q \in Procs, Price(q) PROVE KInv'
    BY <1>6 DEF Price
<1>7. ASSUME NEW q \in Procs, Add(q) PROVE KInv'
    <2>1. pc' = [pc EXCEPT ![q] = IF q = Refresher THEN "next" ELSE "track"] /\ pc[q] = "add"
        BY <1>7 DEF Add
    <2>2. UNCHANGED <<activeKeys, todo, key>> /\ CacheAdd(key[q], found[q])
        BY <1>7 DEF Add
    <2>3. cache' = [j \in Keys |-> cache'[j]]
        BY <2>2 DEF CacheAdd
    <2>4. Shape' /\ RefreshesTracked'
        BY <2>1, <2>2, <2>3
    <2>5. ASSUME NEW k \in Keys, cache'[k] # None
          PROVE  k \in activeKeys' \/ \E c \in Callers : pc'[c] = "track" /\ key'[c] = k
        <3>1. CASE k = key[q] /\ q = Refresher
            BY <2>1, <2>2, <3>1
        <3>2. CASE k = key[q] /\ q # Refresher
            BY <2>1, <2>2, <3>2
        <3>3. CASE k # key[q]
            <4>1. cache[k] # None
                BY <2>2, <2>5, <3>3, AddStores
            <4>2. CASE k \in activeKeys
                BY <4>2, <2>2
            <4>3. CASE \E c \in Callers : pc[c] = "track" /\ key[c] = k
                BY <4>3, <2>1, <2>2
            <4> QED
                BY <4>1, <4>2, <4>3
        <3> QED
            BY <3>1, <3>2, <3>3
    <2> QED
        BY <2>4, <2>5
<1>8. ASSUME NEW q \in Procs, ListFails(q) PROVE KInv'
    BY <1>8 DEF ListFails
<1>9. ASSUME NEW k \in Keys, Lookup(k) PROVE KInv'
    BY <1>9 DEF Lookup, GetPlatformPreset, getCachedOrListPresets, GetInstanceTypeByPlatformPreset
<1>10. CASE RefreshStart
    BY <1>10 DEF RefreshStart
<1>11. ASSUME NEW k \in Keys, RefreshNext(k) PROVE KInv'
    BY <1>11 DEF RefreshNext
<1>12. CASE RefreshEnd
    BY <1>12 DEF RefreshEnd
<1>13. CASE Stop
    BY <1>13 DEF Stop
<1>14. CASE Reprice
    BY <1>14 DEF Reprice
<1>15. CASE UNCHANGED vars
    BY <1>15 DEF vars
<1> QED
    BY <1>1, <1>2, <1>3, <1>4, <1>5, <1>6, <1>7, <1>8, <1>9, <1>10, <1>11, <1>12, <1>13, <1>14, <1>15
       DEF Next, Resolve, Refresh

-----------------------------------------------------------------------------
\* However calls and refreshes of a key overlap, and whatever is evicted between
\* them, an entry in the cache is refreshed from then on: its key is recorded, or
\* is about to be (getOrResolveCachedEntry, refreshAll).
THEOREM KeysTracked == Spec => []CachedKeysTracked
<1>1. KInv => CachedKeysTracked
    BY DEF KInv
<1> QED
    BY <1>1, InitInv, InvStep, PTL DEF Spec

-----------------------------------------------------------------------------
(* The selection of an offering.                                           *)

\* The invariant of a launch: an entry is in hand from its pricing on, and while
\* the loop runs the best so far is the cheapest of what it has looked at.
Launches(q) ==
    /\ pc[q] \in {"add", "track", "select"} => found[q] # None
    /\ pc[q] # "select" => scanned[q] = 0
    /\ q \in Callers => pc[q] \notin {"next", "stopped"}
    /\ q \in Callers /\ pc[q] \in {"list", "price"} => found[q] = None
    /\ q \in Callers /\ pc[q] \in {"list", "price", "add", "track"} => answer[q] = None
    /\ q \in Callers /\ pc[q] = "select" =>
          /\ 1..scanned[q] \subseteq DOMAIN found[q]
          /\ IsCheapest(answer[q], Offered(found[q], 1..scanned[q]), asked[q])
    /\ q = Refresher => pc[q] \notin {"track", "select"}

Functional ==
    /\ found = [q \in Procs |-> found[q]]
    /\ asked = [q \in Procs |-> asked[q]]
    /\ answer = [q \in Procs |-> answer[q]]

\* An entry numbers its instance types from 1, as the listing it comes from.
LEMMA Entries ==
  ASSUME NEW e, IsEntry(e)
  PROVE  /\ e # None
         /\ \E m \in Nat : DOMAIN e = 1..m
         /\ \A i \in DOMAIN e : e[i] \in AnyInstanceType
<1>1. PICK v \in Versions : e \in [DOMAIN Listing[v] -> AnyInstanceType]
  BY DEF IsEntry
<1>2. Listing[v] \in Seq(Presets)
  BY ListingAssumption DEF Versions
<1>3. DOMAIN e = 1..Len(Listing[v]) /\ Len(Listing[v]) \in Nat
  BY <1>1, <1>2
<1>4. e # None
  BY NoneAssumption
<1> QED
  BY <1>1, <1>3, <1>4

\* The offerings of an instance type.
LEMMA InstanceTypeFacts ==
  ASSUME NEW it \in AnyInstanceType
  PROVE  /\ DOMAIN it.offerings = {"on-demand"} \/ DOMAIN it.offerings = {"on-demand", "spot"}
         /\ \A type \in DOMAIN it.offerings : Offer(it, type) \in AnyOffer
<1>1. it.name \in Presets /\ DOMAIN it.offerings = TypesOf(it.name)
  BY DEF AnyInstanceType
<1>2. DOMAIN it.offerings = {"on-demand"} \/ DOMAIN it.offerings = {"on-demand", "spot"}
  BY <1>1 DEF TypesOf, CapacityTypes
<1>3. \A type \in DOMAIN it.offerings : it.offerings[type] \in [price : Nat, available : BOOLEAN]
  BY DEF AnyInstanceType
<1>4. DOMAIN it.offerings \subseteq CapacityTypes
  BY <1>2 DEF CapacityTypes
<1> QED
  BY <1>1, <1>2, <1>3, <1>4 DEF Offer, AnyOffer

\* A turn of the inner loop keeps the cheapest so far.
LEMMA CheaperKeeps ==
  ASSUME NEW S \in SUBSET AnyOffer, NEW o \in AnyOffer, NEW a, NEW req, IsCheapest(a, S, req)
  PROVE  IsCheapest(Cheaper(a, o, req), S \cup {o}, req)
<1> DEFINE E == {x \in S : Eligible(x, req)}
           F == {x \in S \cup {o} : Eligible(x, req)}
<1>1. IF E = {} THEN a = None ELSE a \in E /\ \A x \in E : a.price <= x.price
  BY DEF IsCheapest
<1>2. \A x \in S \cup {o} : x # None /\ x.price \in Nat
  BY NoneAssumption DEF AnyOffer
<1>3. CASE ~Eligible(o, req)
  <2>1. F = E /\ Cheaper(a, o, req) = a
    BY <1>3 DEF Cheaper
  <2> QED
    BY <1>1, <2>1 DEF IsCheapest
<1>4. CASE Eligible(o, req)
  <2>1. F = E \cup {o}
    BY <1>4
  <2>2. CASE E = {}
    <3>1. Cheaper(a, o, req) = o
      BY <1>1, <1>4, <2>2 DEF Cheaper
    <3>2. F = {o} /\ o.price <= o.price
      BY <1>2, <2>1, <2>2
    <3> QED
      BY <3>1, <3>2 DEF IsCheapest
  <2>3. CASE E # {}
    <3>1. a \in E /\ a # None /\ a.price \in Nat /\ \A x \in E : a.price <= x.price /\ x.price \in Nat
      BY <1>1, <1>2, <2>3
    <3>2. o.price \in Nat
      BY <1>2
    <3>3. Cheaper(a, o, req) = IF o.price < a.price THEN o ELSE a
      BY <1>4, <3>1 DEF Cheaper
    <3>4. CASE o.price < a.price
      BY <2>1, <3>1, <3>2, <3>3, <3>4 DEF IsCheapest
    <3>5. CASE ~(o.price < a.price)
      BY <2>1, <3>1, <3>2, <3>3, <3>5 DEF IsCheapest
    <3> QED
      BY <3>4, <3>5
  <2> QED
    BY <2>2, <2>3
<1> QED
  BY <1>3, <1>4

\* And so does a turn of the outer one.
LEMMA ScanKeeps ==
  ASSUME NEW S \in SUBSET AnyOffer, NEW it \in AnyInstanceType, NEW a, NEW req, IsCheapest(a, S, req)
  PROVE  IsCheapest(Scan(a, it, req), S \cup {Offer(it, type) : type \in DOMAIN it.offerings}, req)
<1>1. PICK o : o = Offer(it, "on-demand")
  OBVIOUS
<1>2. PICK s : s = Offer(it, "spot")
  OBVIOUS
<1>3. PICK b : b = Cheaper(a, o, req)
  OBVIOUS
<1>4. o \in AnyOffer
  BY <1>1, InstanceTypeFacts
<1>5. IsCheapest(b, S \cup {o}, req)
  BY <1>3, <1>4, CheaperKeeps
<1>6. CASE DOMAIN it.offerings = {"on-demand"}
  <2>1. Scan(a, it, req) = b
    BY <1>1, <1>3, <1>6 DEF Scan
  <2>2. {Offer(it, type) : type \in DOMAIN it.offerings} = {o}
    BY <1>1, <1>6
  <2> QED
    BY <1>5, <2>1, <2>2
<1>7. CASE DOMAIN it.offerings = {"on-demand", "spot"}
  <2>1. Scan(a, it, req) = Cheaper(b, s, req)
    BY <1>1, <1>2, <1>3, <1>7 DEF Scan
  <2>2. s \in AnyOffer
    BY <1>2, <1>7, InstanceTypeFacts
  <2>3. IsCheapest(Cheaper(b, s, req), (S \cup {o}) \cup {s}, req)
    BY <1>4, <1>5, <2>2, CheaperKeeps
  <2>4. S \cup {Offer(it, type) : type \in DOMAIN it.offerings} = (S \cup {o}) \cup {s}
    BY <1>1, <1>2, <1>7
  <2> QED
    BY <2>1, <2>3, <2>4
<1> QED
  BY <1>6, <1>7, InstanceTypeFacts

\* All offerings of an entry are offers, also of a part of it.
LEMMA OfferedFacts ==
  ASSUME NEW e, IsEntry(e), NEW D \in SUBSET DOMAIN e
  PROVE  Offered(e, D) \in SUBSET AnyOffer
<1>1. ASSUME NEW i \in D, NEW type \in DOMAIN e[i].offerings PROVE Offer(e[i], type) \in AnyOffer
  <2>1. e[i] \in AnyInstanceType
    BY Entries
  <2> QED
    BY <2>1, InstanceTypeFacts
<1> QED
  BY <1>1 DEF Offered

\* The offerings at one more place.
LEMMA OfferedNext ==
  ASSUME NEW e, NEW D, NEW i, NEW C, C = D \cup {i}
  PROVE  Offered(e, C) = Offered(e, D) \cup {Offer(e[i], type) : type \in DOMAIN e[i].offerings}
<1> DEFINE G(j) == {Offer(e[j], type) : type \in DOMAIN e[j].offerings}
<1>1. Offered(e, C) = UNION {G(j) : j \in C} /\ Offered(e, D) = UNION {G(j) : j \in D}
  BY DEF Offered
<1> HIDE DEF G
<1>2. PICK U : U = Offered(e, C) /\ \A x : x \in U <=> \E j \in C : x \in G(j)
  BY <1>1
<1>3. PICK V : V = Offered(e, D) /\ \A x : x \in V <=> \E j \in D : x \in G(j)
  BY <1>1
<1>4. Offered(e, C) = Offered(e, D) \cup G(i)
  <2>1. U = V \cup G(i)
    BY <1>2, <1>3
  <2> QED
    BY <1>2, <1>3, <2>1
<1> QED
  BY <1>4, Zenon DEF G

\* What resolve builds is an entry, whichever prices fail.
LEMMA ResolutionsEntries ==
  ASSUME version \in Versions, NEW v \in Versions, NEW e \in Resolutions(v)
  PROVE  IsEntry(e)
<1>1. ASSUME NEW p \in Presets, NEW type \in CapacityTypes, NEW x \in Estimates(p, type)
      PROVE  x.price \in Nat /\ x.err \in BOOLEAN
  <2>1. HourlyCost[version][p][type] \in Nat /\ DefaultPrice \in Nat
    BY ListingAssumption
  <2>2. PICK c : c = HourlyCost[version][p][type]
    OBVIOUS
  <2>3. x = [price |-> c, err |-> FALSE] \/ x = [price |-> DefaultPrice, err |-> TRUE]
    BY <2>2, Zenon DEF Estimates
  <2>4. [price |-> c, err |-> FALSE].price = c /\ [price |-> c, err |-> FALSE].err = FALSE
    OBVIOUS
  <2>5. /\ [price |-> DefaultPrice, err |-> TRUE].price = DefaultPrice
        /\ [price |-> DefaultPrice, err |-> TRUE].err = TRUE
    OBVIOUS
  <2> QED
    BY <2>1, <2>2, <2>3, <2>4, <2>5, Zenon
<1>2. ASSUME NEW p \in Presets, NEW it \in InstanceTypes(p)
      PROVE  it \in AnyInstanceType
  <2>1. PICK x \in Estimates(p, "on-demand"), y \in Estimates(p, "spot") :
          it = [name |-> p, offerings |-> CreateOfferings(p, x, y)]
    BY DEF InstanceTypes
  <2>2. x.price \in Nat /\ x.err \in BOOLEAN /\ y.price \in Nat /\ y.err \in BOOLEAN
    BY <1>1 DEF CapacityTypes
  <2>3. CreateOfferings(p, x, y) \in [TypesOf(p) -> [price : Nat, available : BOOLEAN]]
    BY <2>2, ListingAssumption DEF CreateOfferings
  <2>4. TypesOf(p) = CapacityTypes \/ TypesOf(p) = {"on-demand"}
    BY DEF TypesOf
  <2>5. it.name = p /\ it.offerings = CreateOfferings(p, x, y)
    BY <2>1
  <2>6. DOMAIN it.offerings = TypesOf(it.name)
    BY <2>3, <2>5
  <2> QED
    BY <2>1, <2>3, <2>4, <2>5, <2>6 DEF AnyInstanceType
<1>3. \A i \in DOMAIN Listing[v] : Listing[v][i] \in Presets
  BY ListingAssumption DEF Versions
<1>4. e = [i \in DOMAIN Listing[v] |-> e[i]] /\ \A i \in DOMAIN e : e[i] \in InstanceTypes(Listing[v][i])
  BY DEF Resolutions
<1>5. \A i \in DOMAIN Listing[v] : e[i] \in AnyInstanceType
  BY <1>2, <1>3, <1>4
<1> QED
  BY <1>4, <1>5 DEF IsEntry

-----------------------------------------------------------------------------
(* The LRU order.                                                          *)

\* The order of the cache, with the keys that are in it.
Ordered(r) == r \in Seq(Keys) /\ IsInjective(r)

\* A key that is used comes to the front and stays there once.
LEMMA TouchedFacts ==
  ASSUME NEW k \in Keys, Ordered(recent)
  PROVE  /\ Ordered(Touched(k))
         /\ Len(Touched(k)) = IF k \in Range(recent) THEN Len(recent) ELSE Len(recent) + 1
         /\ Range(Touched(k)) = Range(recent) \cup {k}
         /\ Touched(k)[1] = k
<1>1. PICK n \in Nat : n = Len(recent)
  BY DEF Ordered
<1>2. recent = [i \in 1..n |-> recent[i]] /\ DOMAIN recent = 1..n /\ \A i \in 1..n : recent[i] \in Keys
  BY <1>1 DEF Ordered
<1>3. \A i, j \in 1..n : recent[i] = recent[j] => i = j
  BY <1>2 DEF Ordered, IsInjective
<1>4. Range(recent) = {recent[i] : i \in 1..n}
  BY <1>2 DEF Range
<1>5. PICK m : m = IF k \in Range(recent) THEN n ELSE n + 1
  OBVIOUS
<1>6. PICK p : p = Place(k)
  OBVIOUS
<1>7. /\ k \in Range(recent) => p \in 1..n /\ recent[p] = k
      /\ k \notin Range(recent) => p = n + 1
  BY <1>1, <1>2, <1>4, <1>6 DEF Place
<1>8. PICK t : t = Touched(k)
  OBVIOUS
<1>9. t = [i \in 1..m |-> IF i = 1 THEN k ELSE IF i <= p THEN recent[i - 1] ELSE recent[i]]
  BY <1>1, <1>5, <1>6, <1>8 DEF Touched
<1>10. m \in Nat /\ m >= 1 /\ p \in 1..m /\ (m = n \/ m = n + 1) /\ (m = n + 1 => p = m)
  BY <1>5, <1>7
<1>11. DOMAIN t = 1..m
  BY <1>9
<1>12. \A i \in 1..m : t[i] \in Keys
  BY <1>2, <1>9, <1>10
<1>13. t \in Seq(Keys) /\ Len(t) = m
  BY <1>9, <1>10, <1>11, <1>12
<1>14. ASSUME NEW i \in 1..m, NEW j \in 1..m, t[i] = t[j] PROVE i = j
  <2>1. \A x \in 1..m : x # 1 => t[x] # k
    <3>1. ASSUME NEW x \in 1..m, x # 1, x <= p PROVE t[x] # k
      <4>1. t[x] = recent[x - 1] /\ x - 1 \in 1..n /\ x - 1 # p
        BY <1>9, <1>10, <3>1
      <4> QED
        BY <1>3, <1>4, <1>7, <4>1
    <3>2. ASSUME NEW x \in 1..m, x # 1, ~(x <= p) PROVE t[x] # k
      <4>1. t[x] = recent[x] /\ x \in 1..n /\ x # p
        BY <1>9, <1>10, <3>2
      <4> QED
        BY <1>3, <1>4, <1>7, <4>1
    <3> QED
      BY <3>1, <3>2
  <2>2. CASE i = 1 \/ j = 1
    BY <1>9, <1>10, <1>14, <2>1, <2>2
  <2>3. CASE i # 1 /\ j # 1
    <3>1. PICK a \in 1..n : t[i] = recent[a] /\ a = IF i <= p THEN i - 1 ELSE i
      BY <1>9, <1>10, <2>3
    <3>2. PICK b \in 1..n : t[j] = recent[b] /\ b = IF j <= p THEN j - 1 ELSE j
      BY <1>9, <1>10, <2>3
    <3>3. a = b
      BY <1>3, <1>14, <3>1, <3>2
    <3>4. a # p /\ b # p
      BY <1>7, <2>1, <2>3, <3>1, <3>2, <1>10
    <3> QED
      BY <1>10, <3>1, <3>2, <3>3, <3>4
  <2> QED
    BY <2>2, <2>3
<1>15. IsInjective(t)
  BY <1>11, <1>14 DEF IsInjective
<1>16. t[1] = k
  BY <1>9, <1>10
<1>17. Range(t) = Range(recent) \cup {k}
  <2>1. Range(t) = {t[i] : i \in 1..m}
    BY <1>11 DEF Range
  <2>2. ASSUME NEW i \in 1..m PROVE t[i] \in Range(recent) \cup {k}
    BY <1>4, <1>9, <1>10
  <2>3. ASSUME NEW i \in 1..n PROVE \E j \in 1..m : t[j] = recent[i]
    <3>1. CASE i < p
      <4>1. i + 1 \in 1..m /\ i + 1 <= p /\ i + 1 # 1 /\ (i + 1) - 1 = i
        BY <1>10, <3>1
      <4>2. t[i + 1] = recent[i]
        BY <1>9, <4>1
      <4> QED
        BY <4>1, <4>2
    <3>2. CASE i = p
      <4>1. recent[i] = k
        BY <1>7, <1>10, <3>2
      <4> QED
        BY <1>10, <1>16, <4>1
    <3>3. CASE i > p
      <4>1. i \in 1..m /\ i # 1 /\ ~(i <= p)
        BY <1>10, <3>3
      <4>2. t[i] = recent[i]
        BY <1>9, <4>1
      <4> QED
        BY <4>1, <4>2
    <3> QED
      BY <1>10, <3>1, <3>2, <3>3
  <2> QED
    BY <1>4, <1>10, <1>16, <2>1, <2>2, <2>3
<1> QED
  BY <1>1, <1>5, <1>8, <1>13, <1>15, <1>16, <1>17 DEF Ordered

\* Eviction keeps a prefix.
LEMMA PrefixOrdered ==
  ASSUME NEW r, Ordered(r), NEW n \in Nat, n <= Len(r)
  PROVE  /\ Ordered(SubSeq(r, 1, n)) /\ Len(SubSeq(r, 1, n)) = n
         /\ Range(SubSeq(r, 1, n)) \subseteq Range(r)
         /\ n >= 1 => r[1] \in Range(SubSeq(r, 1, n))
<1>1. PICK t : t = SubSeq(r, 1, n)
  OBVIOUS
<1>2. t \in Seq(Keys) /\ Len(t) = n /\ DOMAIN t = 1..n /\ \A i \in 1..n : t[i] = r[i]
  BY <1>1 DEF Ordered
<1>3. DOMAIN r = 1..Len(r) /\ 1..n \subseteq DOMAIN r
  BY DEF Ordered
<1>4. IsInjective(t)
  BY <1>2, <1>3 DEF Ordered, IsInjective
<1>5. Range(t) \subseteq Range(r)
  BY <1>2, <1>3 DEF Range
<1>6. n >= 1 => r[1] \in Range(t)
  BY <1>2 DEF Range
<1> QED
  BY <1>1, <1>2, <1>4, <1>5, <1>6 DEF Ordered

\* The cache holds entries for the keys in the order, and no more than fit.
LRU ==
    /\ \A k \in Keys : cache[k] = None \/ IsEntry(cache[k])
    /\ Ordered(recent) /\ Len(recent) <= CacheSize
    /\ {k \in Keys : cache[k] # None} = Range(recent)

\* A lookup that finds its key only changes the order.
LEMMA TouchKeeps ==
  ASSUME LRU, NEW k \in Keys, cache[k] # None, recent' = Touched(k), UNCHANGED cache
  PROVE  LRU'
<1>1. k \in Range(recent)
  BY DEF LRU
<1>2. /\ Ordered(Touched(k)) /\ Len(Touched(k)) = Len(recent)
      /\ Range(Touched(k)) = Range(recent) \cup {k}
  BY <1>1, TouchedFacts DEF LRU
<1>3. Range(Touched(k)) = Range(recent)
  BY <1>1, <1>2
<1> QED
  BY <1>2, <1>3 DEF LRU

\* A store brings its key to the front and drops the least recent beyond the
\* capacity, with its entry.
LEMMA AddKeeps ==
  ASSUME LRU, NEW k \in Keys, NEW e, IsEntry(e), CacheAdd(k, e)
  PROVE  LRU'
<1>1. PICK t : t = Touched(k)
  OBVIOUS
<1>2. Ordered(t) /\ Range(t) = Range(recent) \cup {k} /\ t[1] = k
  BY <1>1, TouchedFacts DEF LRU
<1>3. Len(t) = IF k \in Range(recent) THEN Len(recent) ELSE Len(recent) + 1
  BY <1>1, TouchedFacts DEF LRU
<1>4. Len(recent) \in Nat /\ Len(t) \in Nat
  BY <1>2 DEF LRU, Ordered
<1>5. Len(t) >= 1
  <2>1. CASE k \in Range(recent)
    <3>1. Len(recent) # 0
      BY <2>1 DEF Range, LRU, Ordered
    <3> QED
      BY <1>3, <1>4, <2>1, <3>1
  <2> QED
    BY <1>3, <1>4, <2>1
<1>6. PICK n \in Nat : n = IF Len(t) > CacheSize THEN CacheSize ELSE Len(t)
  BY <1>4, CacheSizeAssumption
<1>7. n <= Len(t) /\ n <= CacheSize /\ n >= 1
  BY <1>4, <1>5, <1>6, CacheSizeAssumption
<1>8. recent' = SubSeq(t, 1, n)
  BY <1>1, <1>6 DEF CacheAdd
<1>9. /\ Ordered(recent') /\ Len(recent') = n
      /\ Range(recent') \subseteq Range(t)
      /\ k \in Range(recent')
  BY <1>2, <1>7, <1>8, PrefixOrdered
<1>10. cache' = [j \in Keys |-> IF j \notin Range(recent') THEN None ELSE IF j = k THEN e ELSE cache[j]]
  BY DEF CacheAdd
<1>11. e # None
  BY Entries
<1>12. ASSUME NEW j \in Keys
       PROVE  (cache'[j] = None \/ IsEntry(cache'[j])) /\ (cache'[j] # None <=> j \in Range(recent'))
  <2>1. CASE j \notin Range(recent')
    BY <1>10, <2>1
  <2>2. CASE j \in Range(recent') /\ j = k
    BY <1>10, <1>11, <2>2
  <2>3. CASE j \in Range(recent') /\ j # k
    <3>1. j \in Range(recent)
      BY <1>2, <1>9, <2>3
    <3>2. cache[j] # None /\ IsEntry(cache[j])
      BY <3>1 DEF LRU
    <3> QED
      BY <1>10, <2>3, <3>2
  <2> QED
    BY <2>1, <2>2, <2>3
<1>13. Range(recent') \subseteq Keys
  BY <1>9 DEF Range, Ordered
<1>14. {j \in Keys : cache'[j] # None} = Range(recent')
  BY <1>12, <1>13
<1> QED
  BY <1>7, <1>9, <1>12, <1>14 DEF LRU, Ordered

-----------------------------------------------------------------------------
(* The steps.                                                              *)

\* The types but for those of the cache.
Types ==
    /\ version \in Versions
    /\ activeKeys \subseteq Keys /\ todo \subseteq activeKeys
    /\ pc \in [Procs -> {"idle", "list", "price", "add", "track", "select", "next", "stopped"}]
    /\ key \in [Procs -> Keys]
    /\ listed \in [Procs -> Versions]
    /\ \A q \in Procs : found[q] = None \/ IsEntry(found[q])
    /\ scanned \in [Procs -> Nat]

\* TypeOK is the two of them.
LEMMA TypesSplit == TypeOK <=> Types /\ LRU
BY DEF TypeOK, Types, LRU, Ordered

\* And after a step.
LEMMA TypesSplitNext == TypeOK' <=> Types' /\ LRU'
BY DEF TypeOK, Types, LRU, Ordered

\* What a launch has and has found, per goroutine.
Answered(q) ==
    q \in Callers /\ pc[q] = "idle" /\ found[q] # None =>
        IsCheapest(answer[q], Offered(found[q], DOMAIN found[q]), asked[q])

LInv == Types /\ Functional /\ \A q \in Procs : Launches(q) /\ Answered(q)

\* At first nobody looks for an offering.
LEMMA InitLInv == Init => LInv
<1> SUFFICES ASSUME Init PROVE LInv
  OBVIOUS
<1>1. 1 \in Versions
  BY ListingAssumption DEF Versions
<1>2. Types
  BY <1>1, KeysAssumption DEF Init, Types, Procs
<1>3. Functional
  BY DEF Init, Functional
<1> QED
  BY <1>2, <1>3, ProcsAssumption DEF Init, LInv, Launches, Answered

\* Nothing has been looked at when the loop starts, and nothing is the cheapest
\* of nothing.
LEMMA NothingScanned ==
  ASSUME NEW e, NEW req
  PROVE  1..0 \subseteq DOMAIN e /\ IsCheapest(None, Offered(e, 1..0), req)
<1>1. 1..0 = {}
  OBVIOUS
<1>2. Offered(e, {}) = {}
  BY DEF Offered
<1> QED
  BY <1>1, <1>2 DEF IsCheapest

\* A goroutine that a step leaves alone keeps its part of the invariant.
LEMMA OthersLaunch ==
  ASSUME NEW q, Launches(q), Answered(q), pc'[q] = pc[q], found'[q] = found[q],
         scanned'[q] = scanned[q], answer'[q] = answer[q], asked'[q] = asked[q]
  PROVE  Launches(q)' /\ Answered(q)'
BY DEF Launches, Answered

\* Every step keeps the types, the order of the cache and the invariant of the
\* launches.
LEMMA LInvStep == LInv /\ LRU /\ [Next]_vars => LInv' /\ LRU'
<1> SUFFICES ASSUME LInv, LRU, [Next]_vars PROVE LInv' /\ LRU'
    OBVIOUS
<1>0. Types /\ Functional /\ \A q \in Procs : Launches(q) /\ Answered(q)
    BY DEF LInv
<1>1. ASSUME NEW q \in Callers, NEW req \in Requirements, CallRefused(q, req) PROVE LInv' /\ LRU'
    <2>1. Types' /\ Functional'
        BY <1>0, <1>1 DEF CallRefused, Goto, Types, Functional, Procs
    <2>2. Launches(q)' /\ Answered(q)'
        BY <1>0, <1>1, ProcsAssumption DEF CallRefused, Goto, Types, Functional, Launches, Answered, Procs
    <2>3. ASSUME NEW r \in Procs, r # q PROVE Launches(r)' /\ Answered(r)'
        <3>1. /\ pc'[r] = pc[r] /\ found'[r] = found[r] /\ scanned'[r] = scanned[r]
              /\ answer'[r] = answer[r] /\ asked'[r] = asked[r]
            BY <1>0, <1>1, <2>3 DEF CallRefused, Goto, Types, Functional
        <3> QED
            BY <1>0, <3>1, OthersLaunch
    <2>4. LRU'
        BY <1>0, <1>1 DEF CallRefused, LRU
    <2> QED
        BY <2>1, <2>2, <2>3, <2>4 DEF LInv
<1>2. ASSUME NEW q \in Callers, NEW req \in Requirements, NEW k \in Keys, Call(q, k, req) PROVE LInv' /\ LRU'
    <2>1. Types' /\ Functional'
        BY <1>0, <1>2 DEF Call, LRU, Goto, Types, Functional, Procs
    <2>2. Launches(q)' /\ Answered(q)'
        BY <1>0, <1>2, ProcsAssumption, NothingScanned DEF Call, Goto, Types, Functional, Launches, Answered, Procs
    <2>3. ASSUME NEW r \in Procs, r # q PROVE Launches(r)' /\ Answered(r)'
        <3>1. /\ pc'[r] = pc[r] /\ found'[r] = found[r] /\ scanned'[r] = scanned[r]
              /\ answer'[r] = answer[r] /\ asked'[r] = asked[r]
            BY <1>0, <1>2, <2>3 DEF Call, LRU, Goto, Types, Functional
        <3> QED
            BY <1>0, <3>1, OthersLaunch
    <2>4. LRU'
        <3>1. CASE cache[k] # None
            BY <1>2, <3>1, TouchKeeps DEF Call
        <3>2. CASE cache[k] = None
            BY <1>2, <3>2 DEF Call, LRU
        <3> QED
            BY <3>1, <3>2
    <2> QED
        BY <2>1, <2>2, <2>3, <2>4 DEF LInv
<1>3. ASSUME NEW q \in Callers, trackKey(q) PROVE LInv' /\ LRU'
    <2>1. Types' /\ Functional'
        BY <1>0, <1>3 DEF trackKey, Goto, Types, Functional, Procs
    <2>2. Launches(q)' /\ Answered(q)'
        <3>1. /\ q \in Procs /\ pc'[q] = "select" /\ scanned'[q] = 0 /\ answer'[q] = None
              /\ found'[q] = found[q] /\ found[q] # None
            BY <1>0, <1>3 DEF trackKey, Goto, Types, Functional, Launches, Procs
        <3>2. 1..0 \subseteq DOMAIN found'[q] /\ IsCheapest(None, Offered(found'[q], 1..0), asked'[q])
            BY NothingScanned
        <3> QED
            BY <1>3, <3>1, <3>2, ProcsAssumption DEF Launches, Answered
    <2>3. ASSUME NEW r \in Procs, r # q PROVE Launches(r)' /\ Answered(r)'
        <3>1. /\ pc'[r] = pc[r] /\ found'[r] = found[r] /\ scanned'[r] = scanned[r]
              /\ answer'[r] = answer[r] /\ asked'[r] = asked[r]
            BY <1>0, <1>3, <2>3 DEF trackKey, Goto, Types, Functional
        <3> QED
            BY <1>0, <3>1, OthersLaunch
    <2>4. LRU'
        BY <1>0, <1>3 DEF trackKey, LRU
    <2> QED
        BY <2>1, <2>2, <2>3, <2>4 DEF LInv
<1>4. ASSUME NEW q \in Callers, Consider(q) PROVE LInv' /\ LRU'
    <2>1. Types' /\ Functional'
        <3>1. q \in Procs /\ scanned[q] + 1 \in Nat
            BY <1>0, <1>4 DEF Types, Procs
        <3>2. scanned' \in [Procs -> Nat]
            BY <1>0, <1>4, <3>1 DEF Consider, Types
        <3> QED
            BY <1>0, <1>4, <3>1, <3>2 DEF Consider, Types, Functional
    <2>2. Launches(q)' /\ Answered(q)'
        <3>1. PICK e : e = found[q]
            OBVIOUS
        <3>2. PICK n : n = scanned[q]
            OBVIOUS
        <3>3. n \in Nat /\ n + 1 \in DOMAIN e /\ pc[q] = "select" /\ q \in Procs
            BY <1>0, <1>4, <3>1, <3>2 DEF Consider, Types, Procs
        <3>4. /\ IsEntry(e) /\ 1..n \subseteq DOMAIN e
              /\ IsCheapest(answer[q], Offered(e, 1..n), asked[q])
            BY <1>0, <1>4, <3>1, <3>2, <3>3 DEF Launches, Types
        <3>5. e[n + 1] \in AnyInstanceType
            BY <3>3, <3>4, Entries
        <3>6. Offered(e, 1..n) \in SUBSET AnyOffer
            BY <3>4, OfferedFacts
        <3>7. IsCheapest(Scan(answer[q], e[n + 1], asked[q]),
                         Offered(e, 1..n) \cup {Offer(e[n + 1], type) : type \in DOMAIN e[n + 1].offerings}, asked[q])
            BY <3>4, <3>5, <3>6, ScanKeeps
        <3>8. 1..(n + 1) = (1..n) \cup {n + 1}
            BY <3>3
        <3>9. Offered(e, 1..(n + 1)) =
                Offered(e, 1..n) \cup {Offer(e[n + 1], type) : type \in DOMAIN e[n + 1].offerings}
            <4>1. PICK C : C = 1..(n + 1)
                OBVIOUS
            <4>2. PICK D : D = 1..n
                OBVIOUS
            <4>3. PICK i : i = n + 1
                OBVIOUS
            <4>4. C = D \cup {i}
                BY <3>8, <4>1, <4>2, <4>3
            <4>5. Offered(e, C) = Offered(e, D) \cup {Offer(e[i], type) : type \in DOMAIN e[i].offerings}
                BY <4>4, OfferedNext, Zenon
            <4> QED
                BY <4>1, <4>2, <4>3, <4>5, Zenon
        <3>10. /\ pc'[q] = "select" /\ found'[q] = e /\ asked'[q] = asked[q] /\ scanned'[q] = n + 1
               /\ answer'[q] = Scan(answer[q], e[n + 1], asked[q])
            BY <1>0, <1>4, <3>1, <3>2, <3>3 DEF Consider, Types, Functional
        <3>11. 1..(n + 1) \subseteq DOMAIN e /\ e # None
            BY <3>3, <3>4, <3>8, Entries
        <3>12. IsCheapest(answer'[q], Offered(e, 1..(n + 1)), asked'[q])
            BY <3>7, <3>9, <3>10
        <3> QED
            BY <1>4, <3>10, <3>11, <3>12, ProcsAssumption DEF Launches, Answered
    <2>3. ASSUME NEW r \in Procs, r # q PROVE Launches(r)' /\ Answered(r)'
        <3>1. /\ pc'[r] = pc[r] /\ found'[r] = found[r] /\ scanned'[r] = scanned[r]
              /\ answer'[r] = answer[r] /\ asked'[r] = asked[r]
            BY <1>0, <1>4, <2>3 DEF Consider, Goto, Types, Functional
        <3> QED
            BY <1>0, <3>1, OthersLaunch
    <2>4. LRU'
        BY <1>0, <1>4 DEF Consider, LRU
    <2> QED
        BY <2>1, <2>2, <2>3, <2>4 DEF LInv
<1>5. ASSUME NEW q \in Callers, Select(q) PROVE LInv' /\ LRU'
    <2>1. Types' /\ Functional'
        BY <1>0, <1>5 DEF Select, Goto, Types, Functional, Procs
    <2>2. Launches(q)' /\ Answered(q)'
        <3>1. PICK e : e = found[q]
            OBVIOUS
        <3>2. PICK n : n = scanned[q]
            OBVIOUS
        <3>3. n \in Nat /\ n + 1 \notin DOMAIN e /\ pc[q] = "select" /\ q \in Procs
            BY <1>0, <1>5, <3>1, <3>2 DEF Select, Types, Procs
        <3>4. /\ IsEntry(e) /\ 1..n \subseteq DOMAIN e
              /\ IsCheapest(answer[q], Offered(e, 1..n), asked[q])
            BY <1>0, <1>5, <3>1, <3>2, <3>3 DEF Launches, Types
        <3>5. PICK m \in Nat : DOMAIN e = 1..m
            BY <3>4, Entries
        <3>6. 1..n = DOMAIN e
            BY <3>3, <3>4, <3>5
        <3>7. /\ pc'[q] = "idle" /\ found'[q] = e /\ asked'[q] = asked[q] /\ scanned'[q] = 0
              /\ answer'[q] = answer[q]
            BY <1>0, <1>5, <3>1, <3>2, <3>3 DEF Select, Goto, Types, Functional
        <3>8. IsCheapest(answer'[q], Offered(found'[q], DOMAIN found'[q]), asked'[q])
            BY <3>4, <3>6, <3>7
        <3> QED
            BY <1>5, <3>7, <3>8, ProcsAssumption DEF Launches, Answered
    <2>3. ASSUME NEW r \in Procs, r # q PROVE Launches(r)' /\ Answered(r)'
        <3>1. /\ pc'[r] = pc[r] /\ found'[r] = found[r] /\ scanned'[r] = scanned[r]
              /\ answer'[r] = answer[r] /\ asked'[r] = asked[r]
            BY <1>0, <1>5, <2>3 DEF Select, Goto, Types, Functional
        <3> QED
            BY <1>0, <3>1, OthersLaunch
    <2>4. LRU'
        BY <1>0, <1>5 DEF Select, LRU
    <2> QED
        BY <2>1, <2>2, <2>3, <2>4 DEF LInv
<1>6. ASSUME NEW q \in Procs, List(q) PROVE LInv' /\ LRU'
    <2>1. Types' /\ Functional'
        BY <1>0, <1>6 DEF List, Goto, Types, Functional, Procs
    <2>2. Launches(q)' /\ Answered(q)'
        BY <1>0, <1>6, ProcsAssumption DEF List, Goto, Types, Functional, Launches, Answered, Procs
    <2>3. ASSUME NEW r \in Procs, r # q PROVE Launches(r)' /\ Answered(r)'
        <3>1. /\ pc'[r] = pc[r] /\ found'[r] = found[r] /\ scanned'[r] = scanned[r]
              /\ answer'[r] = answer[r] /\ asked'[r] = asked[r]
            BY <1>0, <1>6, <2>3 DEF List, Goto, Types, Functional
        <3> QED
            BY <1>0, <3>1, OthersLaunch
    <2>4. LRU'
        BY <1>0, <1>6 DEF List, LRU
    <2> QED
        BY <2>1, <2>2, <2>3, <2>4 DEF LInv
<1>7. ASSUME NEW q \in Procs, Price(q) PROVE LInv' /\ LRU'
    <2>0. PICK e : IsEntry(e) /\ found' = [found EXCEPT ![q] = e]
        BY <1>0, <1>7, ResolutionsEntries DEF Price, Types
    <2>1. Types' /\ Functional'
        BY <1>0, <1>7, <2>0 DEF Price, Goto, Types, Functional, Procs
    <2>2. Launches(q)' /\ Answered(q)'
        BY <1>0, <1>7, <2>0, ProcsAssumption, Entries DEF Price, Goto, Types, Functional, Launches, Answered, Procs
    <2>3. ASSUME NEW r \in Procs, r # q PROVE Launches(r)' /\ Answered(r)'
        <3>1. /\ pc'[r] = pc[r] /\ found'[r] = found[r] /\ scanned'[r] = scanned[r]
              /\ answer'[r] = answer[r] /\ asked'[r] = asked[r]
            BY <1>0, <1>7, <2>3 DEF Price, Goto, Types, Functional
        <3> QED
            BY <1>0, <3>1, OthersLaunch
    <2>4. LRU'
        BY <1>0, <1>7 DEF Price, LRU
    <2> QED
        BY <2>1, <2>2, <2>3, <2>4 DEF LInv
<1>8. ASSUME NEW q \in Procs, Add(q) PROVE LInv' /\ LRU'
    <2>1. Types' /\ Functional'
        BY <1>0, <1>8 DEF Add, Goto, Types, Functional, Procs
    <2>2. Launches(q)' /\ Answered(q)'
        BY <1>0, <1>8, ProcsAssumption DEF Add, Goto, Types, Functional, Launches, Answered, Procs
    <2>3. ASSUME NEW r \in Procs, r # q PROVE Launches(r)' /\ Answered(r)'
        <3>1. /\ pc'[r] = pc[r] /\ found'[r] = found[r] /\ scanned'[r] = scanned[r]
              /\ answer'[r] = answer[r] /\ asked'[r] = asked[r]
            BY <1>0, <1>8, <2>3 DEF Add, Goto, Types, Functional
        <3> QED
            BY <1>0, <3>1, OthersLaunch
    <2>4. LRU'
        <3>1. IsEntry(found[q]) /\ key[q] \in Keys
            BY <1>0, <1>8 DEF Add, Types, Launches
        <3> QED
            BY <1>8, <3>1, AddKeeps DEF Add
    <2> QED
        BY <2>1, <2>2, <2>3, <2>4 DEF LInv
<1>9. ASSUME NEW q \in Procs, ListFails(q) PROVE LInv' /\ LRU'
    <2>1. Types' /\ Functional'
        BY <1>0, <1>9 DEF ListFails, Goto, Types, Functional, Procs
    <2>2. Launches(q)' /\ Answered(q)'
        BY <1>0, <1>9, ProcsAssumption DEF ListFails, Goto, Types, Functional, Launches, Answered, Procs
    <2>3. ASSUME NEW r \in Procs, r # q PROVE Launches(r)' /\ Answered(r)'
        <3>1. /\ pc'[r] = pc[r] /\ found'[r] = found[r] /\ scanned'[r] = scanned[r]
              /\ answer'[r] = answer[r] /\ asked'[r] = asked[r]
            BY <1>0, <1>9, <2>3 DEF ListFails, Goto, Types, Functional
        <3> QED
            BY <1>0, <3>1, OthersLaunch
    <2>4. LRU'
        BY <1>0, <1>9 DEF ListFails, LRU
    <2> QED
        BY <2>1, <2>2, <2>3, <2>4 DEF LInv
<1>10. ASSUME NEW k \in Keys, Lookup(k) PROVE LInv' /\ LRU'
    <2>1. LRU'
        BY <1>10, TouchKeeps DEF Lookup, GetPlatformPreset, getCachedOrListPresets,
                                 GetInstanceTypeByPlatformPreset
    <2>2. LInv'
        BY <1>0, <1>10 DEF Lookup, GetPlatformPreset, getCachedOrListPresets,
                           GetInstanceTypeByPlatformPreset, LInv, Types, Functional, Launches, Answered
    <2> QED
        BY <2>1, <2>2
<1>11. ASSUME NEW q, q = Refresher, RefreshStart PROVE LInv' /\ LRU'
    <2>1. Types' /\ Functional'
        BY <1>0, <1>11, ProcsAssumption DEF RefreshStart, Goto, Types, Functional, Procs
    <2>2. Launches(q)' /\ Answered(q)'
        BY <1>0, <1>11, ProcsAssumption DEF RefreshStart, Goto, Types, Functional, Launches, Answered, Procs
    <2>3. ASSUME NEW r \in Procs, r # q PROVE Launches(r)' /\ Answered(r)'
        <3>1. /\ pc'[r] = pc[r] /\ found'[r] = found[r] /\ scanned'[r] = scanned[r]
              /\ answer'[r] = answer[r] /\ asked'[r] = asked[r]
            BY <1>0, <1>11, <2>3 DEF RefreshStart, Goto, Types, Functional
        <3> QED
            BY <1>0, <3>1, OthersLaunch
    <2>4. LRU'
        BY <1>0, <1>11 DEF RefreshStart, LRU
    <2> QED
        BY <2>1, <2>2, <2>3, <2>4 DEF LInv
<1>12. ASSUME NEW q, q = Refresher, NEW k \in Keys, RefreshNext(k) PROVE LInv' /\ LRU'
    <2>1. Types' /\ Functional'
        BY <1>0, <1>12, ProcsAssumption DEF RefreshNext, Goto, Types, Functional, Procs
    <2>2. Launches(q)' /\ Answered(q)'
        BY <1>0, <1>12, ProcsAssumption DEF RefreshNext, Goto, Types, Functional, Launches, Answered, Procs
    <2>3. ASSUME NEW r \in Procs, r # q PROVE Launches(r)' /\ Answered(r)'
        <3>1. /\ pc'[r] = pc[r] /\ found'[r] = found[r] /\ scanned'[r] = scanned[r]
              /\ answer'[r] = answer[r] /\ asked'[r] = asked[r]
            BY <1>0, <1>12, <2>3 DEF RefreshNext, Goto, Types, Functional
        <3> QED
            BY <1>0, <3>1, OthersLaunch
    <2>4. LRU'
        BY <1>0, <1>12 DEF RefreshNext, LRU
    <2> QED
        BY <2>1, <2>2, <2>3, <2>4 DEF LInv
<1>13. ASSUME NEW q, q = Refresher, RefreshEnd PROVE LInv' /\ LRU'
    <2>1. Types' /\ Functional'
        BY <1>0, <1>13, ProcsAssumption DEF RefreshEnd, Goto, Types, Functional, Procs
    <2>2. Launches(q)' /\ Answered(q)'
        BY <1>0, <1>13, ProcsAssumption DEF RefreshEnd, Goto, Types, Functional, Launches, Answered, Procs
    <2>3. ASSUME NEW r \in Procs, r # q PROVE Launches(r)' /\ Answered(r)'
        <3>1. /\ pc'[r] = pc[r] /\ found'[r] = found[r] /\ scanned'[r] = scanned[r]
              /\ answer'[r] = answer[r] /\ asked'[r] = asked[r]
            BY <1>0, <1>13, <2>3 DEF RefreshEnd, Goto, Types, Functional
        <3> QED
            BY <1>0, <3>1, OthersLaunch
    <2>4. LRU'
        BY <1>0, <1>13 DEF RefreshEnd, LRU
    <2> QED
        BY <2>1, <2>2, <2>3, <2>4 DEF LInv
<1>14. ASSUME NEW q, q = Refresher, Stop PROVE LInv' /\ LRU'
    <2>1. Types' /\ Functional'
        BY <1>0, <1>14, ProcsAssumption DEF Stop, Goto, Types, Functional, Procs
    <2>2. Launches(q)' /\ Answered(q)'
        BY <1>0, <1>14, ProcsAssumption DEF Stop, Goto, Types, Functional, Launches, Answered, Procs
    <2>3. ASSUME NEW r \in Procs, r # q PROVE Launches(r)' /\ Answered(r)'
        <3>1. /\ pc'[r] = pc[r] /\ found'[r] = found[r] /\ scanned'[r] = scanned[r]
              /\ answer'[r] = answer[r] /\ asked'[r] = asked[r]
            BY <1>0, <1>14, <2>3 DEF Stop, Goto, Types, Functional
        <3> QED
            BY <1>0, <3>1, OthersLaunch
    <2>4. LRU'
        BY <1>0, <1>14 DEF Stop, LRU
    <2> QED
        BY <2>1, <2>2, <2>3, <2>4 DEF LInv
<1>15. CASE Reprice
    <2>1. LInv'
        BY <1>0, <1>15 DEF Reprice, LInv, Types, Functional, Launches, Answered
    <2>2. LRU'
        BY <1>15 DEF Reprice, LRU
    <2> QED
        BY <2>1, <2>2
<1>16. CASE UNCHANGED vars
    <2>1. LInv'
        BY <1>0, <1>16 DEF vars, LInv, Types, Functional, Launches, Answered
    <2>2. LRU'
        BY <1>16 DEF vars, LRU
    <2> QED
        BY <2>1, <2>2
<1> QED
    BY <1>1, <1>2, <1>3, <1>4, <1>5, <1>6, <1>7, <1>8, <1>9, <1>10, <1>11, <1>12, <1>13, <1>14, <1>15, <1>16
       DEF Next, Resolve, Refresh

\* The invariant in its parts.
LEMMA IInvSplit == KInv /\ LInv /\ LRU => TypeOK /\ LaunchesCheapest
<1> SUFFICES ASSUME KInv, LInv, LRU PROVE TypeOK /\ LaunchesCheapest
    OBVIOUS
<1>1. TypeOK
    BY TypesSplit DEF LInv
<1>2. LaunchesCheapest
    BY DEF LInv, Answered, LaunchesCheapest, Procs
<1> QED
    BY <1>1, <1>2

\* At first the cache is empty.
LEMMA InitLRU == Init => LRU
<1> SUFFICES ASSUME Init PROVE LRU
    OBVIOUS
<1>1. recent = <<>> /\ Len(recent) = 0 /\ DOMAIN recent = {} /\ recent \in Seq(Keys)
    BY DEF Init
<1>2. Range(recent) = {} /\ IsInjective(recent)
    BY <1>1 DEF Range, IsInjective
<1> QED
    BY <1>1, <1>2, CacheSizeAssumption DEF Init, LRU, Ordered

\* The types; and the cache and its LRU order have the same keys, each once and
\* no more than fit, through lookups, stores and evictions of any goroutine
\* (getOrResolveCachedEntry, refreshAll).
THEOREM TypeCorrect == Spec => []TypeOK
<1>1. Init => KInv /\ LInv /\ LRU
    BY InitInv, InitLInv, InitLRU
<1>2. KInv /\ LInv /\ LRU /\ [Next]_vars => (KInv /\ LInv /\ LRU)'
    BY InvStep, LInvStep
<1>3. KInv /\ LInv /\ LRU => TypeOK
    BY IInvSplit
<1> QED
    BY <1>1, <1>2, <1>3, PTL DEF Spec

\* For every listing, every price and every requirement, a launch gets the
\* cheapest of the available offerings it asks for in the entry it has in hand,
\* and is refused only when there is none (ResolvePlatformPresetFromNodeClaim).
THEOREM CheapestLaunched == Spec => []LaunchesCheapest
<1>1. Init => KInv /\ LInv /\ LRU
    BY InitInv, InitLInv, InitLRU
<1>2. KInv /\ LInv /\ LRU /\ [Next]_vars => (KInv /\ LInv /\ LRU)'
    BY InvStep, LInvStep
<1>3. KInv /\ LInv /\ LRU => LaunchesCheapest
    BY IInvSplit
<1> QED
    BY <1>1, <1>2, <1>3, PTL DEF Spec
=============================================================================
