------------------------------- MODULE Skbuff -------------------------------
(***************************************************************************)
(* The life of a sk_buff (skbuff.h) on its way through the stack: where    *)
(* its data lies in its allocation at every push, pull, put and reserve,   *)
(* and who frees it.                                                       *)
(*                                                                         *)
(* Buffers do not influence each other, so there is one at a time.  A call *)
(* hands it from layer to layer and returns true or false; on false some   *)
(* callers free it and others forget it.  Offsets are relative to head.    *)
(* An assertion of skbuff.h that fails ends the process ("abort").         *)
(* Sizes are not bounded by the model: the proofs hold for all of them.    *)
(***************************************************************************)
EXTENDS Integers

CONSTANTS
  Sizes,    \* sizes of payloads that applications send
  FrameLen  \* sizes of frames that arrive

ASSUME SkbuffAssumption == Sizes \subseteq Nat /\ FrameLen \subseteq Nat

BUFF_HEADROOM == 60
BUFF_TAILROOM == 46
RECV_BUFFER_SIZE == 2048
RECV_RESERVED_HEAD_ROOM == 4
MAX_UDP_PAYLOAD == 1446
MAX_TCP_PAYLOAD == 1446
ETH_HDR_SIZE == 14
ETH_MIN_SIZE == 60
ARP_HDR_SIZE == 28
IP_HDR_SIZE == 20
ICMP_HDR_SIZE == 4
UDP_HDR_SIZE == 8
TCP_HDR_SIZE == 20
PSEUDO_IP_HDR_SIZE == 12

VARIABLES
  skb,     \* data, tail, end and len of the buffer
  at,      \* what happens to it next
  caller,  \* the function that frees it or not when the call fails
  ret,     \* what the call returns
  frees,   \* how often free_skb was called on it
  frame    \* the size of the last frame sent; 0 if there is none

skbVars == <<skb, at, caller, ret, frees, frame>>

-----------------------------------------------------------------------------
(* skbuff.h *)

AllocSkb(size) == [data |-> 0, tail |-> 0, end |-> size, len |-> 0]

SkbReserve(b, n) == [data |-> b.data + n, tail |-> b.tail + n, end |-> b.end, len |-> b.len]

SkbPush(b, n) == [data |-> b.data - n, tail |-> b.tail, end |-> b.end, len |-> b.len + n]

SkbPull(b, n) == [data |-> b.data + n, tail |-> b.tail, end |-> b.end, len |-> b.len - n]

SkbPut(b, n) == [data |-> b.data, tail |-> b.tail + n, end |-> b.end, len |-> b.len + n]

SkbTailroom(b) == b.end - b.tail

-----------------------------------------------------------------------------
(* Where buffers come from. *)

\* A buffer for n bytes with room for headers and padding around them.
AllocForPayload(n) == SkbReserve(AllocSkb(BUFF_HEADROOM + BUFF_TAILROOM + n), BUFF_HEADROOM)

NewSkb(b, to, by) ==
  /\ at = "none"
  /\ skb' = b /\ at' = to /\ caller' = by /\ frees' = 0
  /\ UNCHANGED <<ret, frame>>

\* send_arp_broadcast_request and send_arp_reply_msg push their header.
ArpOut == \E by \in {"arp_request", "arp_reply"} :
  NewSkb(SkbPush(AllocForPayload(ARP_HDR_SIZE), ARP_HDR_SIZE), "ethernet_output", by)

\* A ping has no payload; an echo reply returns the payload of the request.
IcmpOut(size) ==
  /\ size + ICMP_HDR_SIZE + IP_HDR_SIZE + ETH_HDR_SIZE <= RECV_BUFFER_SIZE - RECV_RESERVED_HEAD_ROOM
  /\ NewSkb(SkbPut(AllocForPayload(ICMP_HDR_SIZE + size), ICMP_HDR_SIZE + size),
            "ip_output", "icmp_out")

UdpOut(size) ==
  /\ size <= MAX_UDP_PAYLOAD
  /\ NewSkb(SkbPut(SkbPut(AllocForPayload(UDP_HDR_SIZE + size), UDP_HDR_SIZE), size),
            "ip_output", "udp_out")

\* The checksum uses the bytes in front of the header.
TcpOut(size) ==
  /\ size <= MAX_TCP_PAYLOAD
  /\ NewSkb(SkbPut(SkbPut(AllocForPayload(TCP_HDR_SIZE + size), TCP_HDR_SIZE), size),
            "fill_tcp_cksum", "tcp_out")

FillTcpCksum ==
  /\ at = "fill_tcp_cksum"
  /\ at' = "ip_output"
  /\ UNCHANGED <<skb, caller, ret, frees, frame>>

\* recv_task reads at most the tailroom.
RecvFrame(n) ==
  LET b == SkbReserve(AllocSkb(RECV_BUFFER_SIZE), RECV_RESERVED_HEAD_ROOM)
  IN  /\ 0 < n /\ n <= SkbTailroom(b)
      /\ NewSkb(SkbPut(b, n), "ethernet_input", "recv_task")

-----------------------------------------------------------------------------
(* Calls from layer to layer. *)

HandOn(from, to, b) ==
  /\ at = from /\ at' = to /\ skb' = b
  /\ UNCHANGED <<caller, ret, frees, frame>>

\* skb_pull of a header on the way up.  Its assertion fails when the buffer
\* holds less.
PullHeader(from, to, n) ==
  /\ at = from /\ at' = IF skb.len >= n THEN to ELSE "abort"
  /\ skb' = SkbPull(skb, n)
  /\ UNCHANGED <<caller, ret, frees, frame>>

\* A call that ends: it has freed the buffer free times.
Return(from, ok, free) ==
  /\ at = from /\ at' = "return"
  /\ ret' = ok
  /\ frees' = frees + free
  /\ UNCHANGED <<skb, caller, frame>>

IpOutput == HandOn("ip_output", "ip_postroute", SkbPush(skb, IP_HDR_SIZE))

\* No route; to ourselves; waits for ARP; leaves.
IpPostroute ==
  \/ Return("ip_postroute", FALSE, 0)
  \/ \E to \in {"ip_input", "pending_pkts", "ethernet_output"} : HandOn("ip_postroute", to, skb)

\* arp_table_update_from_arp_reply sends what waited.
Flush ==
  /\ at = "pending_pkts"
  /\ at' = "ethernet_output" /\ caller' = "flush"
  /\ UNCHANGED <<skb, ret, frees, frame>>

\* Defect: the frame is never padded.
PadToMinimumNot(b) == b

PadToMinimum(b) == IF b.len < ETH_MIN_SIZE THEN SkbPut(b, ETH_MIN_SIZE - b.len) ELSE b

\* Defect: a frame that could not be sent is freed here and by the caller.
SendPktOutAlwaysFrees ==
  \E ok \in BOOLEAN : Return("send_pkt_out", ok, 1)

\* send_pkt_out frees the buffer if it was sent.
SendPktOut ==
  \E ok \in BOOLEAN : Return("send_pkt_out", ok, IF ok THEN 1 ELSE 0)

EthernetOutput ==
  LET b == PadToMinimum(SkbPush(skb, ETH_HDR_SIZE))
  IN  /\ at = "ethernet_output" /\ at' = "send_pkt_out"
      /\ skb' = b
      /\ frame' = b.len
      /\ UNCHANGED <<caller, ret, frees>>

\* Defect: the length is not tested.
LongEnoughIgnored(n) == TRUE

\* Ethernet and ARP look at the length before they use their header.
LongEnough(n) == skb.len >= n

\* Too short, wrong address, wrong type or interface without an address; ARP; IP.
EthernetInput ==
  \/ Return("ethernet_input", FALSE, 0)
  \/ /\ LongEnough(ETH_HDR_SIZE)
     /\ \E to \in {"arp_input", "ip_preroute"} : PullHeader("ethernet_input", to, ETH_HDR_SIZE)

ArpInput ==
  \/ Return("arp_input", FALSE, 0)
  \/ LongEnough(ARP_HDR_SIZE) /\ Return("arp_input", TRUE, 1)

\* Local; forwarding is off or the time to live is used up; forwarded.
IpPreroute ==
  \/ Return("ip_preroute", FALSE, 0)
  \/ \E to \in {"ip_input", "ip_postroute"} : HandOn("ip_preroute", to, skb)

\* The protocols that the header may name: a packet that the node sent to
\* itself has the one of its sender.
Protocol ==
  CASE caller = "icmp_out" -> {"icmp_input"}
    [] caller = "udp_out"  -> {"udp_input"}
    [] caller = "tcp_out"  -> {"tcp_input"}
    [] OTHER -> {"icmp_input", "udp_input", "tcp_input", "unknown"}

\* IP, UDP and TCP pull their header without looking at the length.
IpInput ==
  \/ "unknown" \in Protocol /\ Return("ip_input", FALSE, 0)
  \/ \E to \in Protocol \ {"unknown"} : PullHeader("ip_input", to, IP_HDR_SIZE)

IcmpInput ==
  \/ skb.len < ICMP_HDR_SIZE /\ Return("icmp_input", FALSE, 0)
  \/ skb.len >= ICMP_HDR_SIZE /\ Return("icmp_input", TRUE, 1)

UdpInput ==
  \/ Return("udp_input", FALSE, 0)
  \/ PullHeader("udp_input", "rx_skb", UDP_HDR_SIZE)

\* A segment that closes the connection is neither queued nor freed.
TcpInput ==
  \/ Return("tcp_input", FALSE, 0)
  \/ Return("tcp_input", TRUE, 0)
  \/ PullHeader("tcp_input", "rx_skb", TCP_HDR_SIZE)

\* Defect: the caller's size is not limited by what is left.
PortionUnlimited(size) == size

Portion(size) == IF skb.len < size THEN skb.len ELSE size

\* udp_recvfrom and tcp_recv; the buffer is freed when nothing is left.
Recvfrom(size) ==
  LET b == SkbPull(skb, Portion(size))
  IN  /\ at = "rx_skb"
      /\ skb' = b
      /\ IF b.len = 0 THEN at' = "return" /\ ret' = TRUE /\ frees' = frees + 1
                      ELSE UNCHANGED <<at, ret, frees>>
      /\ UNCHANGED <<caller, frame>>

\* send_arp_reply_msg, udp_out and tcp_out forget a buffer that was not sent.
Frees(by) == by \in {"recv_task", "icmp_out", "arp_request", "flush"}

CallerReturns ==
  /\ at = "return"
  /\ at' = "none"
  /\ frees' = IF ~ret /\ Frees(caller) THEN frees + 1 ELSE frees
  /\ frame' = 0
  /\ UNCHANGED <<skb, caller, ret>>

-----------------------------------------------------------------------------
SkbInit ==
  /\ skb = AllocSkb(0)
  /\ at = "none" /\ caller = "recv_task" /\ ret = TRUE
  /\ frees = 0 /\ frame = 0

SkbNext ==
  \/ ArpOut \/ FillTcpCksum \/ IpOutput \/ IpPostroute \/ Flush
  \/ \E size \in Sizes : IcmpOut(size) \/ UdpOut(size) \/ TcpOut(size) \/ Recvfrom(size)
  \/ \E n \in FrameLen : RecvFrame(n)
  \/ EthernetOutput \/ SendPktOut
  \/ EthernetInput \/ ArpInput \/ IpPreroute \/ IpInput
  \/ IcmpInput \/ UdpInput \/ TcpInput
  \/ CallerReturns

SkbSpec == SkbInit /\ [][SkbNext]_skbVars

-----------------------------------------------------------------------------
(* Properties. *)

\* The data lies within the allocation, and len is its length.
Within ==
  /\ 0 <= skb.data /\ skb.data <= skb.tail /\ skb.tail <= skb.end
  /\ skb.len = skb.tail - skb.data
  /\ at = "fill_tcp_cksum" => skb.data >= PSEUDO_IP_HDR_SIZE

\* What is in the buffer is a frame that came from outside, got past the
\* check of ethernet_input and is shorter than the minimum of Ethernet.
Runt ==
  /\ caller = "recv_task"
  /\ skb.tail >= RECV_RESERVED_HEAD_ROOM + ETH_HDR_SIZE
  /\ skb.tail < RECV_RESERVED_HEAD_ROOM + ETH_MIN_SIZE

\* The data stays within the allocation on every path, for payloads and
\* frames of any size, until an assertion of skbuff.h ends the process: the
\* room that is reserved is enough for the headers that are pushed and the
\* padding that is put, no reader takes more than there is, and the pseudo
\* header of the TCP checksum has its 12 bytes ("we assume we have 12 bytes
\* available before the start of the header").  The assertion that can fail is
\* the one of skb_pull, since ip_input, udp_input and tcp_input do not look at
\* the length before they pull; but it fails on runts from outside only:
\* frames of this stack are not that short (FrameFits), and what a node sends
\* to itself holds its headers.
InBounds == IF at = "abort" THEN Runt ELSE Within

\* Every frame that leaves has at least the minimum size of Ethernet and fits
\* into the buffer of the receiving end, so that recv_task does not cut it:
\* the largest echo reply just fits.
FrameFits ==
  frame # 0 => ETH_MIN_SIZE <= frame /\ frame <= RECV_BUFFER_SIZE - RECV_RESERVED_HEAD_ROOM

\* A buffer is freed at most once, however the call fails, and nobody touches
\* it, or holds it in a queue, once it is freed.
FreedOnce ==
  /\ frees <= 1
  /\ frees = 1 => at \in {"return", "none"}
=============================================================================
