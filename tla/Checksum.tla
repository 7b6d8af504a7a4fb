------------------------------ MODULE Checksum ------------------------------
(***************************************************************************)
(* The checksums of a packet on its way: calc_checksum_16 (utils.c) over   *)
(* the IP header, an ICMP message and a TCP segment with its pseudo        *)
(* header, filled in by the sender and again by every node that forwards.  *)
(*                                                                         *)
(* A byte has Radix values, so that TLC can try all of them; a field of    *)
(* several bytes that is only summed is one byte.  Memory is a sequence of *)
(* bytes, and the machine is little endian.                                *)
(***************************************************************************)
EXTENDS Integers, Sequences, SequencesExt

CONSTANTS
  Radix,      \* 0x100
  MaxPayload, \* the longest payload of ICMP and TCP
  MaxTtl,     \* the initial time to live
  Interface,  \* the interfaces of the nodes on the way
  IfIp,       \* IF_IP
  NoIntf      \* skb->intf when the sender does not ask for an interface

Word == Radix * Radix    \* 0x10000
Byte == 0..(Radix - 1)

\* A payload is shorter than RECV_BUFFER_SIZE, 2048, hence far below 0x10000.
ASSUME ChecksumAssumption ==
  /\ Radix \in Nat /\ Radix >= 3
  /\ MaxPayload \in Nat /\ MaxPayload + 8 <= Word
  /\ MaxTtl \in 1..(Radix - 1)
  /\ IfIp \in [Interface -> Byte] /\ NoIntf \notin Interface

VARIABLES
  hdr,    \* the IP header: time to live, protocol, checksum, source, destination
  l4,     \* what follows it
  stage   \* "none", "output" by its sender or "forwarded"

packetVars == <<hdr, l4, stage>>

-----------------------------------------------------------------------------
(* utils.h, utils.c *)

\* A u16 in memory.
Load(buff, i) == buff[i] + Radix * buff[i + 1]

Store(buff, i, n) == [buff EXCEPT ![i] = n % Radix, ![i + 1] = n \div Radix]

HTONS(n) == (n \div Radix) + (n % Radix) * Radix

\* Defect: the last byte of an odd size is the low byte of its word.
OddByteLow(buff) == IF Len(buff) % 2 = 1 THEN buff[Len(buff)] ELSE 0

OddByte(buff) == IF Len(buff) % 2 = 1 THEN buff[Len(buff)] * Radix ELSE 0

Fold(n) == (n % Word) + (n \div Word)

\* Defect: one fold leaves a carry.
FoldsOnce(n) == Fold(n)

Folds2(n) == Fold(Fold(n))

\* The words of the buffer, in host order, added up.
WordSum(buff) ==
  LET sum[k \in 0..(Len(buff) \div 2)] ==
        IF k = 0 THEN 0 ELSE sum[k - 1] + HTONS(Load(buff, 2 * k - 1))
  IN  sum[Len(buff) \div 2]

CalcChecksum16(buff) ==
  LET result == (WordSum(buff) + OddByte(buff)) % (Word * Word)
  IN  (Word - 1 - Folds2(result)) % Word

-----------------------------------------------------------------------------
(* ip.c *)

PROTO_ICMP == 1
PROTO_TCP == 2

InitIpHdr == <<MaxTtl, 0, 0, 0, 0, 0>>

FillIpHcksum(h) == Store(h, 3, HTONS(CalcChecksum16(h)))

CheckIpHcksum(h) == CalcChecksum16(h) = 0

\* The part of ip_postroute that changes the header.  src is the address of
\* the interface that the route names.
IpPostrouteCksum(h, src) == FillIpHcksum([h EXCEPT ![5] = src])

\* Defect: the interface that the sender asks for is not looked at.
IntfMatchesIgnored(oif, rt_intf) == TRUE

\* The interface that the upper layer wants is the one of the route.
IntfMatches(oif, rt_intf) == oif \in {NoIntf, rt_intf}

\* A packet that ip_postroute refuses is not sent.  Its other steps leave the
\* bytes alone.
IpOutputCksum(dst, proto, oif, rt_intf) ==
  /\ IntfMatches(oif, rt_intf)
  /\ hdr' = IpPostrouteCksum([InitIpHdr EXCEPT ![6] = dst, ![2] = proto], IfIp[rt_intf])

\* ip_forward asks for no interface.
IpForward(rt_intf) ==
  /\ stage # "none"
  /\ hdr[1] # 0 /\ hdr[1] - 1 # 0
  /\ hdr' = IpPostrouteCksum([hdr EXCEPT ![1] = @ - 1], IfIp[rt_intf])
  /\ stage' = "forwarded"
  /\ UNCHANGED l4

-----------------------------------------------------------------------------
(* icmp.c, tcp.c *)

\* The buffer is zero when it is allocated; type and code share a byte each.
IcmpMsg(type, payload) ==
  LET msg == <<type, 0, 0, 0>> \o payload
  IN  Store(msg, 3, HTONS(CalcChecksum16(msg)))

CheckIcmpCksum(msg) == CalcChecksum16(msg) = 0

\* Defect: the protocol is forgotten.
PseudoHdrNoProto(seg, src, dst) == <<src, dst, 0, Len(seg) % Radix>>

\* Stands in front of the segment while its checksum is computed.
PseudoHdr(seg, src, dst) == <<src, dst, PROTO_TCP, Len(seg) % Radix>>

CalcTcpCksum(seg, src, dst) == CalcChecksum16(PseudoHdr(seg, src, dst) \o seg)

TcpSeg(port, payload, src, dst) ==
  LET seg == <<port, port, 0, 0>> \o payload
  IN  Store(seg, 3, HTONS(CalcTcpCksum(seg, src, dst)))

Payload == BoundedSeq(Byte, MaxPayload)

\* icmp_out asks for no interface.
IcmpOutCksum(type, payload, dst, rt_intf) ==
  /\ stage = "none"
  /\ l4' = IcmpMsg(type, payload)
  /\ IpOutputCksum(dst, PROTO_ICMP, NoIntf, rt_intf)
  /\ stage' = "output"

\* The segment is summed with local_ip, the address of the interface that
\* tcp_bind gave the socket; tcp_out asks ip_postroute for that interface.
TcpOutCksum(port, payload, dst, intf, rt_intf) ==
  /\ stage = "none"
  /\ l4' = TcpSeg(port, payload, IfIp[intf], dst)
  /\ IpOutputCksum(dst, PROTO_TCP, intf, rt_intf)
  /\ stage' = "output"

\* The packet arrives or is dropped.
Gone ==
  /\ stage # "none"
  /\ stage' = "none" /\ hdr' = InitIpHdr /\ l4' = <<>>

-----------------------------------------------------------------------------
CksumInit == stage = "none" /\ hdr = InitIpHdr /\ l4 = <<>>

CksumNext ==
  \/ \E dst \in Byte, payload \in Payload, rt_intf \in Interface :
       \/ \E type \in {0, Radix - 1} : IcmpOutCksum(type, payload, dst, rt_intf)
       \/ \E port \in {0, Radix - 1}, intf \in Interface :
            TcpOutCksum(port, payload, dst, intf, rt_intf)
  \/ \E rt_intf \in Interface : IpForward(rt_intf)
  \/ Gone

CksumSpec == CksumInit /\ [][CksumNext]_packetVars

-----------------------------------------------------------------------------
(* Properties. *)

\* What a host of another make computes: the one's complement of the one's
\* complement sum, with the carry added at each step, of big-endian words,
\* padded with a zero byte.
Reference(buff) ==
  LET padded == buff \o (IF Len(buff) % 2 = 1 THEN <<0>> ELSE <<>>)
      word(i) == padded[2 * i - 1] * Radix + padded[2 * i]
      plus(a, b) == IF a + b >= Word THEN a + b - Word + 1 ELSE a + b
      sum[k \in 0..(Len(padded) \div 2)] == IF k = 0 THEN 0 ELSE plus(sum[k - 1], word(k))
  IN  Word - 1 - sum[Len(padded) \div 2]

\* calc_checksum_16 agrees with the standard on every header and payload that
\* is sent, of odd size too and with every carry: two folds are enough.
SumIsStandard ==
  stage # "none" => /\ CalcChecksum16(hdr) = Reference(hdr)
                 /\ CalcChecksum16(l4) = Reference(l4)

\* What fill_ip_hcksum and fill_icmp_cksum write makes the standard's check
\* succeed at the receiver of a packet that was not forwarded, and the check
\* of an ICMP message that was.  The header of a forwarded packet is not
\* covered: ip_forward does not clear the old checksum, and the check fails
\* (FilledHeaderChecks).
SentPacketChecks ==
  /\ stage = "output" => Reference(hdr) = 0 /\ CheckIpHcksum(hdr)
  /\ stage # "none" /\ hdr[2] = PROTO_ICMP => Reference(l4) = 0 /\ CheckIcmpCksum(l4)

\* A TCP segment checks at the receiver, which uses the addresses of the IP
\* header.  tcp_out sums it with the address that the socket is bound to, and
\* ip_postroute writes the address of the interface that the route names
\* afterwards: the two agree because ip_postroute refuses a packet whose route
\* leads over another interface than the socket's.
SegmentChecks ==
  stage = "output" /\ hdr[2] = PROTO_TCP =>
    Reference(<<hdr[5], hdr[6], hdr[2], Len(l4) % Radix>> \o l4) = 0

\* After fill_ip_hcksum, check_ip_hcksum succeeds, as test_fill_ip_hcksum
\* asserts; also at the nodes that forward.
FilledHeaderChecks == stage # "none" => CheckIpHcksum(hdr)
=============================================================================
