------------------------------ MODULE PeerCIDR ------------------------------
(***************************************************************************)
(* AllocateRandomIP (karpenter/pkg/utils/wireguard/allocator.go): which    *)
(* addresses of a WireGuard peer CIDR may be handed to a new node.         *)
(*                                                                         *)
(* An address is a number of Width bits (32 in the code) and every         *)
(* computation on offsets is done, as in the code, modulo 2^Width: the     *)
(* code uses uint32, so 1 << 32 is 0 and 0 - 2 wraps around.  A CIDR is a  *)
(* record [ip, ones]; parsing of the textual form is left out, the masking *)
(* that net.ParseCIDR does is not.                                         *)
(***************************************************************************)
EXTENDS Integers

CONSTANT Width      \* number of bits of an address

ASSUME WidthAssumption == Width \in Nat /\ Width >= 2

\* Facts of arithmetic: the provers know nothing of exponentiation.
ASSUME PowersAssumption ==
    /\ 2^0 = 1 /\ 2^1 = 2
    /\ \A k \in 0..Width :
          /\ 2^k \in Nat /\ 2^k > 0
          /\ k >= 2 => 2^k >= 4
          /\ 2^Width = 2^k * 2^(Width - k)

Modulus == 2^Width

IPs == 0..(Modulus - 1)

CIDRs == [ip : IPs, ones : 0..Width]

\* uint(bits - ones)
HostBits(cidr) == Width - cidr.ones

\* ipNet.IP: the address with its host bits cleared
NetworkAddr(cidr) == cidr.ip - (cidr.ip % 2^HostBits(cidr))

\* uint32(1) << hostBits
TotalHosts(cidr) == 2^HostBits(cidr) % Modulus

StartOffset(cidr) == IF HostBits(cidr) <= 1 THEN 0 ELSE 1

\* Mutant: the broadcast address is not skipped.
EndOffsetWithBroadcast(cidr) == (TotalHosts(cidr) - 1) % Modulus

EndOffset(cidr) ==
    IF HostBits(cidr) <= 1 THEN (TotalHosts(cidr) - 1) % Modulus
                           ELSE (TotalHosts(cidr) - 2) % Modulus

\* The offsets "for offset := start; offset <= end; offset++" visits.  The
\* loop stops only because end is never the largest uint32.
Offsets(cidr) == StartOffset(cidr)..EndOffset(cidr)

\* Mutant: offsets are added to the address as written, not to its network.
FreeIPsUnmasked(cidr, allocated) ==
    { cidr.ip + o : o \in Offsets(cidr) } \ allocated

\* The addresses AllocateRandomIP may return when those in allocated are
\* taken.  rand.IntN picks any of them; none left is the error "no free IP
\* addresses available".
FreeIPs(cidr, allocated) ==
    { (NetworkAddr(cidr) + o) % Modulus : o \in Offsets(cidr) } \ allocated

-----------------------------------------------------------------------------
(* What a call should return.                                              *)

\* The addresses of a block, by its meaning: those that agree with the written
\* address in the first cidr.ones bits.
Block(cidr) == {ip \in IPs : ip \div 2^HostBits(cidr) = cidr.ip \div 2^HostBits(cidr)}

Usable(cidr, ip) ==
    \/ cidr.ones >= Width - 1
    \/ \E x, y \in Block(cidr) : x < ip /\ ip < y

\* The loop over an unsigned offset ends: end is below the largest value, where
\* offset++ would wrap around to 0, and start is not above it.
LoopEnds(cidr) ==
    StartOffset(cidr) <= EndOffset(cidr) /\ EndOffset(cidr) < Modulus - 1
=============================================================================
