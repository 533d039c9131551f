------------------------- MODULE IPAllocatorProofs -------------------------
(***************************************************************************)
(* Proofs about IPAllocator, for every number of NodeClasses and           *)
(* NodeClaims, every address width and every choice of CIDRs.              *)
(***************************************************************************)
EXTENDS IPAllocator, TLAPS

\* Where in its life cycle a NodeClaim can hold an address, and that the
\* places that show one show the same one.
Lifecycle(c) ==
    /\ launch[c].pc = "idle" <=> launch[c].ip = NoIP
    /\ launch[c].pc # "idle" => ~providerID[c] /\ Exists(c)
    /\ launch[c].pc = "started" => vm[c] # NoIP
    /\ ~providerID[c] /\ vm[c] = NoIP => nodeIP[c] = NoIP
    /\ cachedNodeIP[c] # NoIP => providerID[c]
    /\ nodeIP[c] # NoIP /\ vm[c] # NoIP => nodeIP[c] = vm[c]
    /\ labelled[c] => providerID[c] /\ nodeIP[c] # NoIP
    /\ cachedNodeIP[c] # NoIP /\ nodeIP[c] # NoIP => cachedNodeIP[c] = nodeIP[c]
    /\ cachedNodeIP[c] # NoIP /\ (vm[c] # NoIP \/ nodeIP[c] # NoIP) => labelled[c]
    /\ claim[c] = "absent" => vm[c] = NoIP /\ ~providerID[c]
    /\ claim[c] = "gone" /\ providerID[c] => vm[c] = NoIP /\ nodeIP[c] = NoIP
    /\ Exists(c) /\ (launch[c].pc # "idle" \/ vm[c] # NoIP \/ nodeIP[c] # NoIP) =>
            c \in cachedClaims

\* No address is held by two NodeClaims of one NodeClass.
HeldDisjoint ==
    \A c, d \in NodeClaims :
        c # d /\ SameClass(c, d) => Held(c) \cap Held(d) = {}

IInv ==
    /\ TypeOK
    /\ \A c \in NodeClaims : Lifecycle(c)
    /\ HeldAddressesAccounted
    /\ HeldDisjoint

-----------------------------------------------------------------------------
(* The address arithmetic stays within the address space.                  *)

\* There are addresses.
LEMMA ModulusPositive == Modulus \in Nat /\ Modulus > 0
  BY WidthAssumption, PowersAssumption DEF Modulus

\* AllocateRandomIP returns an address, and never one it was told is taken.
LEMMA FreeIPsFresh ==
  ASSUME NEW n \in NodeClasses, NEW T
  PROVE  /\ FreeIPs(WireguardPeerCIDR[n], T) \subseteq IPs
         /\ FreeIPs(WireguardPeerCIDR[n], T) \cap T = {}
<1> DEFINE cidr == WireguardPeerCIDR[n]
<1>1. cidr \in CIDRs
  BY ConstantsAssumption
<1>2. HostBits(cidr) \in 0..Width
  BY <1>1, WidthAssumption DEF CIDRs, HostBits
<1>3. NetworkAddr(cidr) \in Int
  <2>1. 2^HostBits(cidr) \in Nat /\ 2^HostBits(cidr) > 0
    BY <1>2, PowersAssumption
  <2>2. cidr.ip \in Int
    BY <1>1, ModulusPositive DEF CIDRs, IPs
  <2> QED
    BY <2>1, <2>2 DEF NetworkAddr
<1>4. ASSUME NEW o \in Offsets(cidr)
      PROVE  (NetworkAddr(cidr) + o) % Modulus \in IPs
  <2>1. o \in Int
    BY DEF Offsets
  <2> QED
    BY <1>3, <2>1, ModulusPositive DEF IPs
<1> QED
  BY <1>4 DEF FreeIPs

\* What AllocateIP must rely on: every address held in the NodeClass is taken.
LEMMA HeldTaken ==
  ASSUME IInv, NEW c \in NodeClaims
  PROVE  Held(c) \subseteq Taken(NodeClassRef[c])
  BY ConstantsAssumption
  DEF IInv, TypeOK, HeldAddressesAccounted, Accounted, Held, Exists, Taken, Reconciled, ConfirmedIPs,
      OptIP

\* At first no address is held.
LEMMA InitIInv == Init => IInv
  BY ConstantsAssumption
  DEF Init, IInv, TypeOK, OptIP, Idle, Lifecycle, HeldAddressesAccounted, Held, Exists, HeldDisjoint

-----------------------------------------------------------------------------
(* Types.                                                                  *)

\* Every step keeps the types.
LEMMA TypeStep == TypeOK /\ [Next]_vars => TypeOK'
<1> SUFFICES ASSUME TypeOK, [Next]_vars PROVE TypeOK'
  OBVIOUS
<1> USE ConstantsAssumption DEF TypeOK, OptIP
<1>1. ASSUME NEW c \in NodeClaims, AllocateIP(c) PROVE TypeOK'
  <2> DEFINE n == NodeClassRef[c]
  <2>1. PICK ip \in FreeIPs(WireguardPeerCIDR[n], Taken(n)) :
          /\ preAllocated' = [preAllocated EXCEPT ![n] = [Reconciled(n) EXCEPT ![ip] = c]]
          /\ launch' = [launch EXCEPT ![c] = [pc |-> "allocated", ip |-> ip]]
    BY <1>1 DEF AllocateIP
  <2>2. n \in NodeClasses /\ ip \in IPs
    BY <2>1, FreeIPsFresh
  <2>3. Reconciled(n) \in [IPs -> NodeClaims \cup {NoClaim}]
    BY <2>2 DEF Reconciled
  <2> QED
    BY <1>1, <2>1, <2>2, <2>3 DEF AllocateIP, kubeVars, cacheVars
<1>2. ASSUME NEW c \in NodeClaims, AllocateIPExhausted(c) PROVE TypeOK'
  BY <1>2 DEF AllocateIPExhausted, Reconciled, cacheVars
<1>3. ASSUME NEW c \in NodeClaims, StartVM(c) PROVE TypeOK'
  BY <1>3 DEF StartVM, kubeVars, cacheVars
<1>4. ASSUME NEW c \in NodeClaims, CreateReturns(c) PROVE TypeOK'
  BY <1>4 DEF CreateReturns, cacheVars, Idle
<1>5. ASSUME NEW c \in NodeClaims, CreateFails(c) PROVE TypeOK'
  BY <1>5 DEF CreateFails, cacheVars, Idle
<1>6. ASSUME NEW c \in NodeClaims, ClusterNext(c) PROVE TypeOK'
  BY <1>6 DEF ClusterNext, CreateClaim, DeleteClaim, NodeJoins, NodeRegistered, DeleteVM,
              RemoveNode, RemoveClaim, SyncClaim, SyncNode, kubeVars, cacheVars
<1>7. ASSUME NEW L \in SUBSET NodeClaims, cleanup(L) PROVE TypeOK'
  BY <1>7 DEF cleanup, kubeVars, cacheVars
<1>8. CASE UNCHANGED vars
  BY <1>8 DEF vars
<1> QED
  BY <1>1, <1>2, <1>3, <1>4, <1>5, <1>6, <1>7, <1>8 DEF Next, AllocatorNext, Cleanup

\* The state of the allocator and of everything around it keeps its type.
THEOREM TypeCorrect == Spec => []TypeOK
<1>1. Init => TypeOK
  BY InitIInv DEF IInv
<1> QED
  BY <1>1, TypeStep, PTL DEF Spec

-----------------------------------------------------------------------------
(* The life cycle of a NodeClaim.                                          *)

\* Every step keeps where in its life a NodeClaim can hold an address.
LEMMA LifecycleStep ==
  ASSUME IInv, Next, NEW d \in NodeClaims
  PROVE  Lifecycle(d)'
<1> USE ConstantsAssumption DEF IInv, TypeOK, OptIP, Lifecycle, Exists
<1>1. ASSUME NEW c \in NodeClaims, AllocateIP(c) PROVE Lifecycle(d)'
  <2> DEFINE n == NodeClassRef[c]
  <2>1. PICK ip \in FreeIPs(WireguardPeerCIDR[n], Taken(n)) :
          launch' = [launch EXCEPT ![c] = [pc |-> "allocated", ip |-> ip]]
    BY <1>1 DEF AllocateIP
  <2>2. ip \in IPs
    BY <2>1, FreeIPsFresh
  <2>3. /\ launch[c].pc = "idle" /\ ~providerID[c]
        /\ c \in cachedClaims /\ claim[c] = "live"
        /\ UNCHANGED <<claim, providerID, nodeIP, labelled, cachedClaims, cachedNodeIP, vm>>
    BY <1>1 DEF AllocateIP, Launching, kubeVars, cacheVars
  <2> QED
    BY <2>1, <2>2, <2>3
<1>2. ASSUME NEW c \in NodeClaims, AllocateIPExhausted(c) PROVE Lifecycle(d)'
  BY <1>2 DEF AllocateIPExhausted, Launching, cacheVars
<1>3. ASSUME NEW c \in NodeClaims, StartVM(c) PROVE Lifecycle(d)'
  BY <1>3 DEF StartVM, kubeVars, cacheVars
<1>4. ASSUME NEW c \in NodeClaims, CreateReturns(c) PROVE Lifecycle(d)'
  BY <1>4 DEF CreateReturns, cacheVars, Idle
<1>5. ASSUME NEW c \in NodeClaims, CreateFails(c) PROVE Lifecycle(d)'
  BY <1>5 DEF CreateFails, cacheVars, Idle
<1>6. ASSUME NEW c \in NodeClaims, CreateClaim(c) PROVE Lifecycle(d)'
  BY <1>6 DEF CreateClaim, cacheVars
<1>7. ASSUME NEW c \in NodeClaims, DeleteClaim(c) PROVE Lifecycle(d)'
  BY <1>7 DEF DeleteClaim, cacheVars
<1>8. ASSUME NEW c \in NodeClaims, NodeJoins(c) PROVE Lifecycle(d)'
  BY <1>8 DEF NodeJoins, cacheVars
<1>9. ASSUME NEW c \in NodeClaims, NodeRegistered(c) PROVE Lifecycle(d)'
  BY <1>9 DEF NodeRegistered, cacheVars
<1>10. ASSUME NEW c \in NodeClaims, DeleteVM(c) PROVE Lifecycle(d)'
  BY <1>10 DEF DeleteVM, kubeVars, cacheVars
<1>11. ASSUME NEW c \in NodeClaims, RemoveNode(c) PROVE Lifecycle(d)'
  BY <1>11 DEF RemoveNode, cacheVars
<1>12. ASSUME NEW c \in NodeClaims, RemoveClaim(c) PROVE Lifecycle(d)'
  BY <1>12 DEF RemoveClaim, cacheVars
<1>13. ASSUME NEW c \in NodeClaims, SyncClaim(c) PROVE Lifecycle(d)'
  BY <1>13 DEF SyncClaim, kubeVars
<1>14. ASSUME NEW c \in NodeClaims, SyncNode(c) PROVE Lifecycle(d)'
  BY <1>14 DEF SyncNode, kubeVars
<1>15. ASSUME NEW L \in SUBSET NodeClaims, cleanup(L) PROVE Lifecycle(d)'
  BY <1>15 DEF cleanup, kubeVars, cacheVars
<1> QED
  BY <1>1, <1>2, <1>3, <1>4, <1>5, <1>6, <1>7, <1>8, <1>9, <1>10, <1>11, <1>12, <1>13, <1>14, <1>15
  DEF Next, AllocatorNext, ClusterNext, Cleanup

-----------------------------------------------------------------------------
(* Held addresses stay accounted for and disjoint.                         *)

\* Only AllocateIP makes a NodeClaim hold a new address.
LEMMA HeldShrinks ==
  ASSUME IInv, NEW c \in NodeClaims, NEW d \in NodeClaims,
         \/ AllocateIPExhausted(c) \/ StartVM(c) \/ CreateReturns(c) \/ CreateFails(c)
         \/ ClusterNext(c)
  PROVE  Held(d)' \subseteq Held(d)
<1> USE ConstantsAssumption DEF IInv, TypeOK, OptIP, Lifecycle, Held, Exists
<1>1. CASE AllocateIPExhausted(c)
  BY <1>1 DEF AllocateIPExhausted, Launching, cacheVars
<1>2. CASE StartVM(c)
  BY <1>2 DEF StartVM, kubeVars, cacheVars
<1>3. CASE CreateReturns(c)
  BY <1>3 DEF CreateReturns, cacheVars, Idle
<1>4. CASE CreateFails(c)
  BY <1>4 DEF CreateFails, cacheVars, Idle
<1>5. CASE CreateClaim(c)
  BY <1>5 DEF CreateClaim, cacheVars
<1>6. CASE DeleteClaim(c)
  BY <1>6 DEF DeleteClaim, cacheVars
<1>7. CASE NodeJoins(c)
  BY <1>7 DEF NodeJoins, cacheVars
<1>8. CASE NodeRegistered(c)
  BY <1>8 DEF NodeRegistered, cacheVars
<1>9. CASE DeleteVM(c)
  BY <1>9 DEF DeleteVM, kubeVars, cacheVars
<1>10. CASE RemoveNode(c)
  BY <1>10 DEF RemoveNode, cacheVars
<1>11. CASE RemoveClaim(c)
  BY <1>11 DEF RemoveClaim, cacheVars
<1>12. CASE SyncClaim(c)
  BY <1>12 DEF SyncClaim, kubeVars
<1>13. CASE SyncNode(c)
  BY <1>13 DEF SyncNode, kubeVars
<1> QED
  BY <1>1, <1>2, <1>3, <1>4, <1>5, <1>6, <1>7, <1>8, <1>9, <1>10, <1>11, <1>12, <1>13 DEF ClusterNext

\* A step that adds no held address keeps the two global invariants, provided
\* it accounts for the addresses it leaves in place.
LEMMA DisjointFrame ==
  ASSUME HeldDisjoint, \A d \in NodeClaims : Held(d)' \subseteq Held(d)
  PROVE  HeldDisjoint'
  BY DEF HeldDisjoint, SameClass

\* Every step keeps held addresses accounted for: an entry is dropped only when
\* the cache shows its address on its own Node.
LEMMA AccountedStep ==
  ASSUME IInv, Next, NEW d \in NodeClaims, NEW a \in Held(d)'
  PROVE  Accounted(d, a)'
<1> USE ConstantsAssumption DEF IInv, TypeOK, OptIP
<1>1. ASSUME NEW c \in NodeClaims, AllocateIP(c) PROVE Accounted(d, a)'
  <2> DEFINE n == NodeClassRef[c]
  <2>1. PICK ip \in FreeIPs(WireguardPeerCIDR[n], Taken(n)) :
          /\ preAllocated' = [preAllocated EXCEPT ![n] = [Reconciled(n) EXCEPT ![ip] = c]]
          /\ launch' = [launch EXCEPT ![c] = [pc |-> "allocated", ip |-> ip]]
    BY <1>1 DEF AllocateIP
  <2>2. ip \in IPs /\ ip \notin Taken(n)
    BY <2>1, FreeIPsFresh
  <2>3. UNCHANGED <<claim, nodeIP, cachedNodeIP, vm>>
    BY <1>1 DEF AllocateIP, kubeVars, cacheVars
  <2>4. CASE d = c /\ a = ip
    BY <2>1, <2>2, <2>4 DEF Accounted, Reconciled
  <2>5. CASE ~(d = c /\ a = ip)
    <3>1. a \in Held(d)
      BY <2>1, <2>3, <2>5 DEF Held, Exists
    <3>2. a \in IPs /\ Accounted(d, a)
      BY <3>1 DEF Held, Exists, HeldAddressesAccounted
    <3>3. CASE cachedNodeIP[d] = a
      BY <2>3, <3>3 DEF Accounted
    <3>4. CASE cachedNodeIP[d] # a
      <4>1. preAllocated[NodeClassRef[d]][a] = d
        BY <3>2, <3>4 DEF Accounted
      <4>2. CASE NodeClassRef[d] # n
        BY <2>1, <4>1, <4>2 DEF Accounted
      <4>3. CASE NodeClassRef[d] = n
        <5>1. a # ip
          BY <2>2, <3>1, <4>3, HeldTaken
        <5>2. a \notin ConfirmedIPs(n)
          <6> SUFFICES ASSUME NEW e \in NodeClaims, NodeClassRef[e] = n, cachedNodeIP[e] = a
                       PROVE  FALSE
            BY DEF ConfirmedIPs
          <6>1. e # d
            BY <3>4
          <6>2. a \in Held(e)
            BY <3>2 DEF Held, Exists
          <6> QED
            BY <3>1, <4>3, <6>1, <6>2 DEF HeldDisjoint, SameClass
        <5> QED
          BY <2>1, <3>2, <4>1, <4>3, <5>1, <5>2 DEF Accounted, Reconciled
      <4> QED
        BY <4>2, <4>3
    <3> QED
      BY <3>3, <3>4
  <2> QED
    BY <2>4, <2>5
<1>2. ASSUME NEW c \in NodeClaims, AllocateIPExhausted(c) PROVE Accounted(d, a)'
  <2> DEFINE n == NodeClassRef[c]
  <2>1. a \in Held(d)
    BY <1>2, HeldShrinks
  <2>2. a \in IPs /\ Accounted(d, a)
    BY <2>1 DEF Held, Exists, HeldAddressesAccounted
  <2>3. cachedNodeIP' = cachedNodeIP
        /\ preAllocated' = [preAllocated EXCEPT ![n] = Reconciled(n)]
    BY <1>2 DEF AllocateIPExhausted, Launching, cacheVars
  <2>4. CASE cachedNodeIP[d] # a /\ NodeClassRef[d] = n
    <3>1. a \notin ConfirmedIPs(n)
      <4> SUFFICES ASSUME NEW e \in NodeClaims, NodeClassRef[e] = n, cachedNodeIP[e] = a
                   PROVE  FALSE
        BY DEF ConfirmedIPs
      <4>1. e # d /\ a \in Held(e)
        BY <2>2, <2>4 DEF Held, Exists
      <4> QED
        BY <2>1, <2>4, <4>1 DEF HeldDisjoint, SameClass
    <3> QED
      BY <2>2, <2>3, <2>4, <3>1 DEF Accounted, Reconciled
  <2>5. CASE ~(cachedNodeIP[d] # a /\ NodeClassRef[d] = n)
    BY <2>2, <2>3, <2>5 DEF Accounted
  <2> QED
    BY <2>4, <2>5
<1>3. ASSUME NEW c \in NodeClaims, SyncNode(c) PROVE Accounted(d, a)'
  BY <1>3 DEF SyncNode, kubeVars, Lifecycle, Held, Exists, HeldAddressesAccounted, Accounted
<1>4. ASSUME NEW c \in NodeClaims,
             \/ StartVM(c) \/ CreateReturns(c) \/ CreateFails(c)
             \/ ClusterNext(c) /\ ~SyncNode(c)
      PROVE  Accounted(d, a)'
  <2>1. a \in Held(d)
    BY <1>4, HeldShrinks
  <2>2. UNCHANGED <<preAllocated, cachedNodeIP>>
    BY <1>4 DEF StartVM, CreateReturns, CreateFails, ClusterNext, CreateClaim, DeleteClaim,
         NodeJoins, NodeRegistered, DeleteVM, RemoveNode, RemoveClaim, SyncClaim, cacheVars
  <2> QED
    BY <2>1, <2>2 DEF HeldAddressesAccounted, Accounted
<1>5. ASSUME NEW L \in SUBSET NodeClaims, cleanup(L) PROVE Accounted(d, a)'
  <2>1. UNCHANGED <<launch, claim, vm, nodeIP, cachedNodeIP, cachedClaims>>
    BY <1>5 DEF cleanup, kubeVars, cacheVars
  <2>2. a \in Held(d) /\ a \in IPs /\ Accounted(d, a)
    BY <2>1 DEF Held, Exists, HeldAddressesAccounted
  <2>3. CASE cachedNodeIP[d] = a
    BY <2>1, <2>3 DEF Accounted
  <2>4. CASE cachedNodeIP[d] # a
    <3>1. d \in cachedClaims
      BY <2>2, <2>4 DEF Held, Exists, Lifecycle
    <3> QED
      BY <1>5, <2>2, <2>4, <3>1 DEF Accounted, cleanup
  <2> QED
    BY <2>3, <2>4
<1> QED
  BY <1>1, <1>2, <1>3, <1>4, <1>5 DEF Next, AllocatorNext, ClusterNext, Cleanup

\* Every step keeps held addresses apart: only AllocateIP adds one, a fresh one.
LEMMA DisjointStep == IInv /\ Next => HeldDisjoint'
<1> SUFFICES ASSUME IInv, Next PROVE HeldDisjoint'
  OBVIOUS
<1>1. ASSUME NEW c \in NodeClaims, AllocateIP(c) PROVE HeldDisjoint'
  <2> DEFINE n == NodeClassRef[c]
  <2>1. PICK ip \in FreeIPs(WireguardPeerCIDR[n], Taken(n)) :
          launch' = [launch EXCEPT ![c] = [pc |-> "allocated", ip |-> ip]]
    BY <1>1 DEF AllocateIP
  <2>2. ip \notin Taken(n)
    BY <2>1, FreeIPsFresh, ConstantsAssumption
  <2>3. \A d \in NodeClaims : SameClass(c, d) => ip \notin Held(d)
    BY <2>2, HeldTaken DEF SameClass
  <2>4. \A d \in NodeClaims : d # c => Held(d)' = Held(d)
    BY <1>1, <2>1 DEF AllocateIP, kubeVars, cacheVars, Held, Exists, IInv, TypeOK
  <2>5. Held(c)' \subseteq Held(c) \cup {ip}
    BY <1>1, <2>1 DEF AllocateIP, kubeVars, cacheVars, Held, Exists, IInv, TypeOK
  <2> QED
    BY <2>3, <2>4, <2>5 DEF HeldDisjoint, IInv, SameClass
<1>2. ASSUME NEW c \in NodeClaims,
             \/ AllocateIPExhausted(c) \/ StartVM(c) \/ CreateReturns(c) \/ CreateFails(c)
             \/ ClusterNext(c)
      PROVE  HeldDisjoint'
  BY <1>2, HeldShrinks, DisjointFrame DEF IInv
<1>3. ASSUME NEW L \in SUBSET NodeClaims, cleanup(L) PROVE HeldDisjoint'
  BY <1>3 DEF cleanup, kubeVars, cacheVars, IInv, HeldDisjoint, Held, Exists, SameClass
<1> QED
  BY <1>1, <1>2, <1>3 DEF Next, AllocatorNext, Cleanup

-----------------------------------------------------------------------------
(* The theorems.                                                           *)

\* The invariant is inductive.
LEMMA IInvStep == IInv /\ [Next]_vars => IInv'
<1> SUFFICES ASSUME IInv, [Next]_vars PROVE IInv'
  OBVIOUS
<1>1. CASE Next
  <2>1. TypeOK'
    BY <1>1, TypeStep DEF IInv
  <2>2. (\A d \in NodeClaims : Lifecycle(d))'
    BY <1>1, LifecycleStep
  <2>3. HeldAddressesAccounted'
    BY <1>1, AccountedStep DEF HeldAddressesAccounted
  <2>4. HeldDisjoint'
    BY <1>1, DisjointStep
  <2> QED
    BY <2>1, <2>2, <2>3, <2>4 DEF IInv
<1>2. CASE UNCHANGED vars
  <2> USE <1>2 DEF vars, IInv
  <2>1. TypeOK'
    BY TypeStep
  <2>2. (\A d \in NodeClaims : Lifecycle(d))'
    BY DEF Lifecycle, Exists
  <2>3. HeldAddressesAccounted'
    BY DEF HeldAddressesAccounted, Held, Exists, Accounted
  <2>4. HeldDisjoint'
    BY DEF HeldDisjoint, Held, Exists, SameClass
  <2> QED
    BY <2>1, <2>2, <2>3, <2>4
<1> QED
  BY <1>1, <1>2

\* No address in use is ever unaccounted for, for every number of NodeClaims
\* and every interleaving of launches, informer deliveries and cleanup ticks.
THEOREM AccountingCorrect == Spec => []HeldAddressesAccounted
<1>1. IInv => HeldAddressesAccounted
  BY DEF IInv
<1> QED
  BY <1>1, InitIInv, IInvStep, PTL DEF Spec

\* Two machines of one NodeClass whose NodeClaims exist never run with the same
\* peer address, for every number of NodeClaims, every CIDR and every
\* interleaving of launches, failures, retries, deliveries and clean-ups.
THEOREM PeerIPsUnique == Spec => []UniquePeerIPs
<1>1. IInv => UniquePeerIPs
  BY DEF IInv, UniquePeerIPs, HeldDisjoint, Held, Exists
<1> QED
  BY <1>1, InitIInv, IInvStep, PTL DEF Spec

-----------------------------------------------------------------------------
(* AllocateRandomIP against the meaning of a CIDR.                         *)

\* Division by a positive number, with the remainder below it.
LEMMA DivMod ==
  ASSUME NEW x \in Int, NEW b \in Nat, b > 0
  PROVE  /\ x \div b \in Int
         /\ x % b \in 0..(b - 1)
         /\ x - (x % b) = b * (x \div b)
<1>1. x \div b \in Int
  OBVIOUS
<1>2. x % b \in 0..(b - 1)
  OBVIOUS
<1>3. x % b = x - b * (x \div b)
  OBVIOUS
<1>4. b * (x \div b) \in Int
  BY <1>1
<1> QED
  BY <1>1, <1>2, <1>3, <1>4

\* A quotient is told by the multiples of the divisor around the dividend.
LEMMA Quotient ==
  ASSUME NEW x \in Int, NEW b \in Nat, b > 0, NEW q \in Int
  PROVE  x \div b = q <=> b * q <= x /\ x < b * q + b
<1>1. ASSUME b * q <= x, x < b * q + b PROVE x \div b = q
  BY <1>1
<1>2. ASSUME x \div b = q PROVE b * q <= x /\ x < b * q + b
  <2>1. x - (x % b) = b * q /\ x % b \in 0..(b - 1)
    BY <1>2, DivMod
  <2>2. b * q \in Int
    OBVIOUS
  <2> QED
    BY <2>1, <2>2
<1> QED
  BY <1>1, <1>2

\* The size of a block: it divides the address space.
LEMMA BlockSize ==
  ASSUME NEW cidr \in CIDRs
  PROVE  LET h == HostBits(cidr)
             b == 2^h IN
         /\ h \in 0..Width /\ b \in Nat /\ b > 0
         /\ h = 0 => b = 1
         /\ h = 1 => b = 2
         /\ h >= 2 => b >= 4
         /\ h = Width => b = Modulus
         /\ h < Width => b < Modulus
         /\ \E k \in Nat : Modulus = b * k
<1> DEFINE h == HostBits(cidr)
<1>1. h \in 0..Width
  BY WidthAssumption DEF CIDRs, HostBits
<1>2. PICK b : b = 2^h
  OBVIOUS
<1>3. PICK k : k = 2^(Width - h)
  OBVIOUS
<1> HIDE DEF h
<1>4. /\ b \in Nat /\ b > 0
      /\ h = 0 => b = 1
      /\ h = 1 => b = 2
      /\ h >= 2 => b >= 4
      /\ 2^Width = b * k
  BY <1>1, <1>2, <1>3, PowersAssumption
<1>5. Width - h \in 0..Width
  BY <1>1, WidthAssumption
<1>6. k \in Nat /\ k > 0 /\ (h < Width => k >= 2)
  <2>1. k \in Nat /\ k > 0 /\ (Width - h >= 2 => k >= 4)
    BY <1>3, <1>5, PowersAssumption
  <2>2. Width - h = 1 => k = 2
    BY <1>3, PowersAssumption
  <2>3. h < Width => Width - h = 1 \/ Width - h >= 2
    BY <1>1, WidthAssumption
  <2> QED
    BY <2>1, <2>2, <2>3
<1>7. Modulus = b * k
  BY <1>4 DEF Modulus
<1>8. h < Width => b < Modulus
  <2>1. k >= 2 => b * k >= b * 2
    BY <1>4, <1>6
  <2>2. b * 2 > b /\ b * k \in Int
    BY <1>4, <1>6
  <2> QED
    BY <1>4, <1>6, <1>7, <2>1, <2>2
<1>9. h = Width => b = Modulus
  BY <1>2 DEF Modulus
<1> QED
  BY <1>1, <1>2, <1>4, <1>6, <1>7, <1>8, <1>9 DEF h

\* A block is the interval that starts at its network address.
LEMMA BlockInterval ==
  ASSUME NEW cidr \in CIDRs
  PROVE  LET b == 2^HostBits(cidr)
             n == NetworkAddr(cidr) IN
         /\ n \in Nat /\ n + b <= Modulus
         /\ Block(cidr) = n..(n + b - 1)
<1>1. PICK b : b = 2^HostBits(cidr)
  OBVIOUS
<1>2. b \in Nat /\ b > 0
  BY <1>1, BlockSize
<1>3. PICK k \in Nat : Modulus = b * k
  BY <1>1, BlockSize
<1>4. PICK ip : ip = cidr.ip
  OBVIOUS
<1>5. ip \in Nat /\ ip < Modulus
  BY <1>4, ModulusPositive DEF CIDRs, IPs
<1>6. PICK q \in Int : q = ip \div b
  BY <1>2, <1>5
<1>7. NetworkAddr(cidr) = b * q
  <2>1. ip \in Int
    BY <1>5
  <2>2. ip - (ip % b) = b * (ip \div b)
    BY <1>2, <2>1, DivMod
  <2>3. NetworkAddr(cidr) = ip - (ip % b)
    BY <1>1, <1>4 DEF NetworkAddr
  <2> QED
    BY <1>6, <2>2, <2>3, Zenon
<1>8. b * q <= ip /\ ip < b * q + b
  BY <1>2, <1>5, <1>6, Quotient
<1>9. q >= 0
  <2>1. ASSUME q <= -1 PROVE FALSE
    <3>1. b * q <= b * (-1)
      BY <1>2, <2>1
    <3>2. b * (-1) = -b /\ b * q \in Int
      BY <1>2
    <3> QED
      BY <1>2, <1>5, <1>8, <3>1, <3>2
  <2> QED
    BY <2>1
<1>10. q + 1 <= k
  <2>1. ASSUME k <= q PROVE FALSE
    <3>1. b * k <= b * q
      BY <1>2, <2>1
    <3>2. b * k \in Int /\ b * q \in Int
      BY <1>2
    <3> QED
      BY <1>3, <1>5, <1>8, <3>1, <3>2
  <2> QED
    BY <2>1
<1>11. b * q + b <= Modulus
  <2>1. b * (q + 1) <= b * k
    BY <1>2, <1>10
  <2>2. b * (q + 1) = b * q + b
    BY <1>2
  <2> QED
    BY <1>3, <2>1, <2>2
<1>12. PICK n : n = b * q
  OBVIOUS
<1>13. n \in Nat /\ n + b <= Modulus
  <2>1. b * q \in Nat
    BY <1>2, <1>9
  <2> QED
    BY <1>11, <1>12, <2>1
<1>14. ASSUME NEW x PROVE x \in Block(cidr) <=> x \in n..(n + b - 1)
  <2>1. x \in Block(cidr) <=> x \in IPs /\ x \div b = q
    BY <1>1, <1>4, <1>6 DEF Block
  <2>2. ASSUME x \in Int PROVE x \div b = q <=> n <= x /\ x < n + b
    BY <1>2, <1>12, <2>2, Quotient
  <2>3. x \in IPs <=> x \in Int /\ 0 <= x /\ x < Modulus
    BY ModulusPositive DEF IPs
  <2>4. x \in n..(n + b - 1) <=> x \in Int /\ n <= x /\ x < n + b
    BY <1>2, <1>13
  <2> QED
    BY <1>2, <1>13, <2>1, <2>2, <2>3, <2>4, ModulusPositive
<1> QED
  BY <1>1, <1>7, <1>12, <1>13, <1>14

\* The offsets of the loop, for each size of a block: also for the /0 block,
\* whose number of hosts wraps around to 0.
LEMMA LoopOffsets ==
  ASSUME NEW cidr \in CIDRs
  PROVE  LET b == 2^HostBits(cidr) IN
         /\ HostBits(cidr) <= 1 => StartOffset(cidr) = 0 /\ EndOffset(cidr) = b - 1 /\ b - 1 < Modulus - 1
         /\ HostBits(cidr) > 1 => StartOffset(cidr) = 1 /\ EndOffset(cidr) = b - 2 /\ b >= 4
<1>1. PICK h : h = HostBits(cidr)
  OBVIOUS
<1>2. PICK b : b = 2^h
  OBVIOUS
<1>3. /\ h \in 0..Width /\ b \in Nat /\ b > 0
      /\ h = 0 => b = 1
      /\ h = 1 => b = 2
      /\ h >= 2 => b >= 4
      /\ h = Width => b = Modulus
      /\ h < Width => b < Modulus
  BY <1>1, <1>2, BlockSize
<1>4. TotalHosts(cidr) = IF h = Width THEN 0 ELSE b
  BY <1>1, <1>2, <1>3, ModulusPositive, WidthAssumption DEF TotalHosts
<1>5. CASE h <= 1
  <2>1. h < Width /\ TotalHosts(cidr) = b /\ b < Modulus
    BY <1>3, <1>4, <1>5, WidthAssumption
  <2>2. EndOffset(cidr) = (b - 1) % Modulus
    BY <1>1, <1>5, <2>1 DEF EndOffset
  <2>3. (b - 1) % Modulus = b - 1
    BY <1>3, <2>1, ModulusPositive
  <2> QED
    BY <1>1, <1>2, <1>3, <1>5, <2>1, <2>2, <2>3, ModulusPositive, WidthAssumption DEF StartOffset
<1>6. CASE h > 1
  <2>1. b >= 4 /\ b <= Modulus
    <3>1. h >= 2 /\ (h = Width \/ h < Width)
      BY <1>3, <1>6, WidthAssumption
    <3>2. b \in Int /\ Modulus \in Int
      BY <1>3, ModulusPositive
    <3>3. b >= 4
      BY <1>3, <3>1
    <3>4. b = Modulus \/ b < Modulus
      BY <1>3, <3>1
    <3> QED
      BY <3>2, <3>3, <3>4
  <2>2. EndOffset(cidr) = (TotalHosts(cidr) - 2) % Modulus
    BY <1>1, <1>3, <1>6, WidthAssumption DEF EndOffset
  <2>3. CASE h = Width
    <3>1. EndOffset(cidr) = (0 - 2) % Modulus /\ b = Modulus
      BY <1>3, <1>4, <2>2, <2>3
    <3>2. (0 - 2) % Modulus = Modulus - 2
      BY <2>1, <3>1, ModulusPositive
    <3> QED
      BY <1>1, <1>2, <1>3, <1>6, <2>1, <3>1, <3>2, WidthAssumption DEF StartOffset
  <2>4. CASE h # Width
    <3>1. EndOffset(cidr) = (b - 2) % Modulus
      BY <1>4, <2>2, <2>4
    <3>2. (b - 2) % Modulus = b - 2
      BY <1>3, <2>1, ModulusPositive
    <3> QED
      BY <1>1, <1>2, <1>3, <1>6, <2>1, <3>1, <3>2, WidthAssumption DEF StartOffset
  <2> QED
    BY <2>3, <2>4
<1> QED
  BY <1>1, <1>2, <1>3, <1>5, <1>6, WidthAssumption

\* AllocateRandomIP returns what it should, for each CIDR and all taken addresses.
LEMMA UsableAddresses ==
  ASSUME NEW cidr \in CIDRs, NEW T
  PROVE  /\ LoopEnds(cidr)
         /\ FreeIPs(cidr, T) = {ip \in Block(cidr) \ T : Usable(cidr, ip)}
<1>1. PICK h : h = HostBits(cidr)
  OBVIOUS
<1>2. PICK b : b = 2^h
  OBVIOUS
<1>3. PICK n : n = NetworkAddr(cidr)
  OBVIOUS
<1>4. h \in 0..Width /\ b \in Nat /\ b > 0
  BY <1>1, <1>2, BlockSize
<1>5. n \in Nat /\ n + b <= Modulus /\ Block(cidr) = n..(n + b - 1)
  BY <1>1, <1>2, <1>3, BlockInterval
<1>6. PICK start : start = StartOffset(cidr)
  OBVIOUS
<1>7. PICK end : end = EndOffset(cidr)
  OBVIOUS
<1>8. /\ h <= 1 => start = 0 /\ end = b - 1 /\ b - 1 < Modulus - 1
      /\ h > 1 => start = 1 /\ end = b - 2 /\ b >= 4
  BY <1>1, <1>2, <1>6, <1>7, LoopOffsets
<1>9. start \in Nat /\ end \in Nat /\ start <= end /\ end < b /\ end < Modulus - 1
  BY <1>4, <1>5, <1>8, ModulusPositive, WidthAssumption
<1>10. LoopEnds(cidr)
  BY <1>6, <1>7, <1>9 DEF LoopEnds
<1>11. \A o \in start..end : (n + o) % Modulus = n + o
  <2>1. ASSUME NEW o \in start..end PROVE (n + o) % Modulus = n + o
    <3>1. n + o \in Nat /\ n + o < Modulus
      BY <1>4, <1>5, <1>9, ModulusPositive
    <3> QED
      BY <3>1, ModulusPositive
  <2> QED
    BY <2>1
<1>12. FreeIPs(cidr, T) = ((n + start)..(n + end)) \ T
  <2>1. FreeIPs(cidr, T) = {n + o : o \in start..end} \ T
    BY <1>3, <1>6, <1>7, <1>11 DEF FreeIPs, Offsets
  <2>2. {n + o : o \in start..end} = (n + start)..(n + end)
    <3>1. \A x \in (n + start)..(n + end) : x - n \in start..end /\ n + (x - n) = x
      BY <1>5, <1>9
    <3>2. \A o \in start..end : n + o \in (n + start)..(n + end)
      BY <1>5, <1>9
    <3> QED
      BY <3>1, <3>2
  <2> QED
    BY <2>1, <2>2
<1>13. ASSUME NEW ip \in n..(n + b - 1)
       PROVE  Usable(cidr, ip) <=> ip \in (n + start)..(n + end)
  <2>1. cidr.ones >= Width - 1 <=> h <= 1
    BY <1>1, WidthAssumption DEF HostBits, CIDRs
  <2>2. CASE h <= 1
    BY <1>4, <1>5, <1>8, <2>1, <2>2 DEF Usable
  <2>3. CASE h > 1
    <3>1. Usable(cidr, ip) <=> \E x, y \in n..(n + b - 1) : x < ip /\ ip < y
      <4>1. ~(cidr.ones >= Width - 1)
        BY <1>4, <2>1, <2>3, WidthAssumption
      <4>2. Block(cidr) = n..(n + b - 1)
        BY <1>5
      <4> QED
        BY <4>1, <4>2, Zenon DEF Usable
    <3>2. (\E x, y \in n..(n + b - 1) : x < ip /\ ip < y) <=> n < ip /\ ip < n + b - 1
      <4>1. n \in n..(n + b - 1) /\ n + b - 1 \in n..(n + b - 1)
        BY <1>4, <1>5
      <4> QED
        BY <1>4, <1>5, <4>1
    <3>3. start = 1 /\ end = b - 2 /\ b >= 4
      BY <1>8, <2>3
    <3>4. n + start = n + 1 /\ n + end = n + b - 2
      BY <1>4, <1>5, <3>3
    <3>5. ip \in (n + 1)..(n + b - 2) <=> n < ip /\ ip < n + b - 1
      BY <1>4, <1>5
    <3> QED
      BY <3>1, <3>2, <3>4, <3>5, Zenon
  <2> QED
    BY <1>4, <2>2, <2>3, WidthAssumption
<1>14. (n + start)..(n + end) \subseteq n..(n + b - 1)
  BY <1>4, <1>5, <1>9
<1> QED
  BY <1>5, <1>10, <1>12, <1>13, <1>14

\* AllocateRandomIP can return exactly the usable addresses of the block that are
\* not taken, and its loop over unsigned offsets ends, for every width of an
\* address and every CIDR.
THEOREM AddressesUsable == Spec => []ReturnsUsableAddresses
<1>1. ReturnsUsableAddresses
  BY UsableAddresses DEF ReturnsUsableAddresses
<1> QED
  BY <1>1, PTL
=============================================================================
