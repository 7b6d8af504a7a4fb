------------------------------- MODULE IpArp -------------------------------
(***************************************************************************)
(* The Ethernet, ARP and IP layers of every simulated node (ethernet.c,    *)
(* arp.c, ip.c) and the point-to-point links between their interfaces      *)
(* (comm.c, comm_udp.c).                                                   *)
(*                                                                         *)
(* All nodes live in one process.  One receive thread (recv_task) serves   *)
(* the sockets of every interface, one frame at a time; application        *)
(* threads enter the stack from above through ip_output.  Nothing is       *)
(* locked, so whatever reads or writes an ARP table is a step of its own:  *)
(* in ip_postroute, which every thread runs, the lookup, the new entry,    *)
(* the test of resolved, the queueing, the request and the output; in the  *)
(* handling of an ARP reply the lookup, the two assignments, the start of  *)
(* the loop and each of its iterations.  An operation on a list is one     *)
(* step; LinkedList takes those apart, and shows what may happen to a list *)
(* that one thread adds to while another takes, as pending_pkts is.        *)
(*                                                                         *)
(* This module holds the state and the operations shared by the protocols  *)
(* above IP; a protocol module (Icmp) adds its own and the specification.  *)
(***************************************************************************)
EXTENDS Integers, Sequences, SequencesExt

CONSTANTS
  Node,       \* nodes of the graph
  Intf,       \* interfaces of all nodes
  NodeOf,     \* intf->node
  Nbr,        \* get_nbr_if: the other end of the interface's link
  IpAddr,     \* addresses; 0 is the address nobody configured
  MacAddr,    \* hardware addresses of interfaces
  IfIp,       \* IF_IP: 0 while node_set_intf_ip_addr was not called
  IfMac,      \* IF_MAC
  RtLookup,   \* rt_lookup_lpm on each node's (static) routing table
  App,        \* the application threads
  Receiver,   \* the thread that runs recv_task
  Payload,    \* what the protocol above IP carries
  InitTtl,    \* 64 in init_ip_hdr
  MaxLoss,    \* bound on the frames the operating system discards
  Broadcast,  \* ff:ff:ff:ff:ff:ff
  ZeroMac,    \* the address in an entry that none, or not all, was copied to
  NULL

Thread == App \cup {Receiver}

RtEntry == [next : IpAddr, intf : Intf]

ASSUME AddressAssumption ==
  /\ 0 \in IpAddr
  /\ IfIp \in [Intf -> IpAddr]
  /\ IfMac \in [Intf -> MacAddr]
  /\ Broadcast \notin MacAddr

ASSUME TopologyAssumption ==
  /\ NodeOf \in [Intf -> Node]
  /\ Nbr \in [Intf -> Intf]
  /\ \A i \in Intf : Nbr[Nbr[i]] = i

ASSUME RouteAssumption ==
  /\ RtLookup \in [Node -> [IpAddr -> RtEntry \cup {NULL}]]
  /\ NULL \notin RtEntry
  /\ \A n \in Node, a \in IpAddr :
       RtLookup[n][a] # NULL =>
         /\ NodeOf[RtLookup[n][a].intf] = n
         /\ IfIp[RtLookup[n][a].intf] # 0

ASSUME TtlAssumption == InitTtl \in Nat \ {0} /\ MaxLoss \in Nat

VARIABLES
  arp,                \* node -> address -> its ARP table entries, oldest first
  wire,               \* intf -> frames queued in that interface's socket
  call,               \* thread -> its place in ip_postroute, or NULL
  update,             \* recv_task's place in the handling of a reply, or NULL
  ip_forward_enable,
  lost                \* number of frames discarded so far

netvars == <<arp, wire, call, update, ip_forward_enable, lost>>

-----------------------------------------------------------------------------
(* Packets, frames and table entries. *)

Packet == [src : IpAddr, dst : IpAddr, ttl : Nat, pl : Payload]

\* A packet that ip_postroute sends, with the interface it was routed to.
Pending == [oif : Intf, pkt : Packet]

ArpEntry == [resolved : BOOLEAN,
             mac : MacAddr \cup {ZeroMac},
             pending_pkts : Seq(Pending)]

\* ip_postroute: the statement a thread is at and its local variables;
\* arp_entry is the place of the entry among those of the address, 0 for NULL.
Call == [at : {"add", "test", "queue", "request", "output"},
         node : Node, target_ip : IpAddr, arp_entry : Nat, skb : Pending]

\* arp_table_update_from_arp_reply, likewise; hw_addr is the reply's address
\* and left the number of packets that the loop has ahead of it.
Update == [at : {"resolve", "copy", "first", "flush"},
           node : Node, ip : IpAddr, arp_entry : Nat, hw_addr : MacAddr, left : Nat]

ASSUME ThreadAssumption == Receiver \notin App /\ NULL \notin Call \cup Update

ArpFrame == [type : {"ARP"}, dst_mac : MacAddr \cup {ZeroMac, Broadcast},
             opcode : {"REQUEST", "REPLY"}, sender_hw_addr : MacAddr,
             sender_proto_addr : IpAddr, target_proto_addr : IpAddr]

IpFrame == [type : {"IP"}, dst_mac : MacAddr \cup {ZeroMac, Broadcast},
            pkt : Packet]

Frame == ArpFrame \cup IpFrame

\* init_arp_entry
NewArpEntry == [resolved |-> FALSE, mac |-> ZeroMac, pending_pkts |-> <<>>]

\* The frame of send_arp_broadcast_request(intf, ip).
ArpRequest(i, ip) ==
  [type |-> "ARP", dst_mac |-> Broadcast, opcode |-> "REQUEST",
   sender_hw_addr |-> IfMac[i], sender_proto_addr |-> IfIp[i],
   target_proto_addr |-> ip]

\* Defect: the sender forgets its hardware address.
ArpReplyUnfilled(i, shdr) ==
  [type |-> "ARP", dst_mac |-> shdr.sender_hw_addr, opcode |-> "REPLY",
   sender_hw_addr |-> ZeroMac, sender_proto_addr |-> IfIp[i],
   target_proto_addr |-> shdr.sender_proto_addr]

\* The frame of send_arp_reply_msg(intf, shdr).
ArpReply(i, shdr) ==
  [type |-> "ARP", dst_mac |-> shdr.sender_hw_addr, opcode |-> "REPLY",
   sender_hw_addr |-> IfMac[i], sender_proto_addr |-> IfIp[i],
   target_proto_addr |-> shdr.sender_proto_addr]

\* ethernet_output of an IP packet.
IpPktFrame(mac, pkt) == [type |-> "IP", dst_mac |-> mac, pkt |-> pkt]

\* send_pkt_out: the frame lands in the socket of the other end of the link.
SendPktOut(w, i, frame) == [w EXCEPT ![Nbr[i]] = Append(@, frame)]

\* recv_bytes takes the oldest frame out of the interface's socket.
RecvBytes(i) == [wire EXCEPT ![i] = Tail(@)]

-----------------------------------------------------------------------------
(* Tests made by the handlers. *)

IsIntfL3Mode(i) == IfIp[i] # 0

\* pkt_receive hands the frame to ethernet_input, which accepts it.  An
\* interface without an address leads to switch_input, which drops everything.
EthernetInputQualify(i, frame) ==
  /\ IsIntfL3Mode(i)
  /\ frame.dst_mac \in {IfMac[i], Broadcast}

IsIpLocal(n, ip) == \E i \in Intf : NodeOf[i] = n /\ IfIp[i] = ip

\* ip_postroute finds a route, over the interface the caller insists on, if any.
Routable(n, ip, oif) ==
  /\ RtLookup[n][ip] # NULL
  /\ oif \in {NULL, RtLookup[n][ip].intf}

-----------------------------------------------------------------------------
(* Sending: ip_postroute in thread t. *)

\* arp_table_lookup.  The list starts at the newest entry.
ArpTableLookup(n, ip) == Len(arp[n][ip])

\* ip_postroute up to its return, its call of ip_input or its lookup of the
\* next hop's entry: the caller deals with a packet for the node itself.
IpPostroute(t, n, pkt, oif) ==
  LET rt        == RtLookup[n][pkt.dst]
      target_ip == IF rt.next = 0 THEN pkt.dst ELSE rt.next
      found     == ArpTableLookup(n, target_ip)
  IN  \/ /\ ~Routable(n, pkt.dst, oif)
         /\ UNCHANGED call
      \/ /\ Routable(n, pkt.dst, oif)
         /\ ~IsIpLocal(n, pkt.dst)
         /\ call' = [call EXCEPT ![t] =
              [at |-> IF found = 0 THEN "add" ELSE "test",
               node |-> n, target_ip |-> target_ip, arp_entry |-> found,
               skb |-> [oif |-> rt.intf,
                        pkt |-> [pkt EXCEPT !.src = IfIp[rt.intf]]]]]

\* ip_output builds the header (init_ip_hdr) and routes the packet.
IpOutput(t, n, ip, pl, oif) ==
  IpPostroute(t, n, [src |-> 0, dst |-> ip, ttl |-> InitTtl, pl |-> pl], oif)

At(t, place) == call[t] # NULL /\ call[t].at = place

Goto(t, place) == call' = [call EXCEPT ![t].at = place]

Return(t) == call' = [call EXCEPT ![t] = NULL]

\* *arp_entry, in thread t
EntryOf(t) == arp[call[t].node][call[t].target_ip][call[t].arp_entry]

\* arp_table_entry_add does not look whether the address has an entry by now.
EntryAdd(t) ==
  /\ At(t, "add")
  /\ LET n == call[t].node
         ip == call[t].target_ip
     IN  /\ arp' = [arp EXCEPT ![n][ip] = Append(@, NewArpEntry)]
         /\ call' = [call EXCEPT ![t].at = "test",
                                 ![t].arp_entry = Len(arp[n][ip]) + 1]
  /\ UNCHANGED <<wire, update, ip_forward_enable, lost>>

TestResolved(t) ==
  /\ At(t, "test")
  /\ Goto(t, IF EntryOf(t).resolved THEN "output" ELSE "queue")
  /\ UNCHANGED <<arp, wire, update, ip_forward_enable, lost>>

\* Defect: the packet is linked twice.
EnqueueTwice(entry, skb) == [entry EXCEPT !.pending_pkts = <<skb, skb>> \o @]

\* list_add puts the packet in front of the others.
Enqueue(entry, skb) == [entry EXCEPT !.pending_pkts = <<skb>> \o @]

QueuePacket(t) ==
  /\ At(t, "queue")
  /\ arp' = [arp EXCEPT ![call[t].node][call[t].target_ip][call[t].arp_entry] =
               Enqueue(EntryOf(t), call[t].skb)]
  /\ Goto(t, "request")
  /\ UNCHANGED <<wire, update, ip_forward_enable, lost>>

\* Defect: a packet that joins others asks no more: their reply is expected.
SendRequestOnce(t) ==
  /\ At(t, "request")
  /\ wire' = IF Len(EntryOf(t).pending_pkts) > 1 THEN wire
             ELSE SendPktOut(wire, call[t].skb.oif,
                             ArpRequest(call[t].skb.oif, call[t].target_ip))
  /\ Return(t)
  /\ UNCHANGED <<arp, update, ip_forward_enable, lost>>

\* send_arp_broadcast_request
SendRequest(t) ==
  /\ At(t, "request")
  /\ wire' = SendPktOut(wire, call[t].skb.oif,
                        ArpRequest(call[t].skb.oif, call[t].target_ip))
  /\ Return(t)
  /\ UNCHANGED <<arp, update, ip_forward_enable, lost>>

\* ethernet_output reads the hardware address only now.
Output(t) ==
  /\ At(t, "output")
  /\ wire' = SendPktOut(wire, call[t].skb.oif,
                        IpPktFrame(EntryOf(t).mac, call[t].skb.pkt))
  /\ Return(t)
  /\ UNCHANGED <<arp, update, ip_forward_enable, lost>>

\* A step of ip_postroute after its first lookup.
PostrouteStep(t) ==
  EntryAdd(t) \/ TestResolved(t) \/ QueuePacket(t) \/ SendRequest(t) \/ Output(t)

-----------------------------------------------------------------------------
(* Receiving.  recv_task reads a frame only when it has dealt with the     *)
(* previous one.                                                           *)

Readable(i) == update = NULL /\ call[Receiver] = NULL /\ wire[i] # <<>>

\* The packet of the next frame of interface i reaches ip_preroute.
IpPreroute(i) ==
  /\ Readable(i)
  /\ EthernetInputQualify(i, Head(wire[i]))
  /\ Head(wire[i]).type = "IP"

\* ethernet_input, or switch_input, refuses the frame: recv_task frees it.
RecvRefused(i) ==
  /\ Readable(i)
  /\ ~EthernetInputQualify(i, Head(wire[i]))
  /\ wire' = RecvBytes(i)
  /\ UNCHANGED <<arp, call, update, ip_forward_enable, lost>>

\* arp_input, process_arp_broadcast_request: only the owner of the address
\* answers; nothing is learnt from the sender's addresses.
RecvArpRequest(i) ==
  /\ Readable(i)
  /\ EthernetInputQualify(i, Head(wire[i]))
  /\ Head(wire[i]).type = "ARP"
  /\ Head(wire[i]).opcode = "REQUEST"
  /\ \/ /\ Head(wire[i]).target_proto_addr # IfIp[i]
        /\ wire' = RecvBytes(i)
     \/ /\ Head(wire[i]).target_proto_addr = IfIp[i]
        /\ wire' = SendPktOut(RecvBytes(i), i, ArpReply(i, Head(wire[i])))
  /\ UNCHANGED <<arp, call, update, ip_forward_enable, lost>>

\* arp_input, process_arp_reply_msg, and the lookup that
\* arp_table_update_from_arp_reply begins with: a reply nobody asked for is
\* ignored.
RecvArpReply(i) ==
  LET n     == NodeOf[i]
      ip    == Head(wire[i]).sender_proto_addr
      found == ArpTableLookup(n, ip)
  IN  /\ Readable(i)
      /\ EthernetInputQualify(i, Head(wire[i]))
      /\ Head(wire[i]).type = "ARP"
      /\ Head(wire[i]).opcode = "REPLY"
      /\ wire' = RecvBytes(i)
      /\ update' = IF found = 0 THEN NULL
                   ELSE [at |-> "resolve", node |-> n, ip |-> ip,
                         arp_entry |-> found,
                         hw_addr |-> Head(wire[i]).sender_hw_addr, left |-> 0]
      /\ UNCHANGED <<arp, call, ip_forward_enable, lost>>

UpdateAt(place) == update # NULL /\ update.at = place

UpdatedEntry == arp[update.node][update.ip][update.arp_entry]

\* The entry is resolved before its hardware address is there.
SetResolved ==
  /\ UpdateAt("resolve")
  /\ arp' = [arp EXCEPT ![update.node][update.ip][update.arp_entry].resolved = TRUE]
  /\ update' = [update EXCEPT !.at = "copy"]
  /\ UNCHANGED <<wire, call, ip_forward_enable, lost>>

\* Defect: the address is not copied.
SetMacSkipped ==
  /\ UpdateAt("copy")
  /\ update' = [update EXCEPT !.at = "first"]
  /\ UNCHANGED <<arp, wire, call, ip_forward_enable, lost>>

SetMac ==
  /\ UpdateAt("copy")
  /\ arp' = [arp EXCEPT ![update.node][update.ip][update.arp_entry].mac =
               update.hw_addr]
  /\ update' = [update EXCEPT !.at = "first"]
  /\ UNCHANGED <<wire, call, ip_forward_enable, lost>>

\* Defect: the pending packets are not sent.
FlushFirstNever ==
  /\ UpdateAt("first")
  /\ update' = NULL
  /\ UNCHANGED <<arp, wire, call, ip_forward_enable, lost>>

\* list_for_each_entry_safe takes the first packet; packets that are queued
\* from now on are in front of it, and the loop does not meet them.
FlushFirst ==
  /\ UpdateAt("first")
  /\ LET queue == UpdatedEntry.pending_pkts
     IN  update' = IF queue = <<>> THEN NULL
                   ELSE [update EXCEPT !.at = "flush", !.left = Len(queue)]
  /\ UNCHANGED <<arp, wire, call, ip_forward_enable, lost>>

\* One iteration of the loop of arp_table_update_from_arp_reply.
FlushPending ==
  /\ UpdateAt("flush")
  /\ LET queue == UpdatedEntry.pending_pkts
         pos   == Len(queue) - update.left + 1
     IN  /\ arp' = [arp EXCEPT ![update.node][update.ip][update.arp_entry].pending_pkts =
                      RemoveAt(queue, pos)]
         /\ wire' = SendPktOut(wire, queue[pos].oif,
                               IpPktFrame(UpdatedEntry.mac, queue[pos].pkt))
  /\ update' = IF update.left = 1 THEN NULL ELSE [update EXCEPT !.left = @ - 1]
  /\ UNCHANGED <<call, ip_forward_enable, lost>>

\* Defect: the time to live is not tested.
TtlLeftIgnored(pkt) == TRUE

\* ip_forward sends the packet on: this is not its last hop.
TtlLeft(pkt) == pkt.ttl > 1

\* Defect: the time to live is not decremented.
DecrementSkipped(pkt) == pkt

DecrementTtl(pkt) == [pkt EXCEPT !.ttl = @ - 1]

\* ip_preroute, ip_forward: a packet for another node.  It is dropped when
\* forwarding is disabled or its time to live runs out.
RecvForward(i) ==
  LET pkt == Head(wire[i]).pkt
  IN  /\ IpPreroute(i)
      /\ ~IsIpLocal(NodeOf[i], pkt.dst)
      /\ wire' = RecvBytes(i)
      /\ \/ /\ ~ip_forward_enable \/ ~TtlLeft(pkt)
            /\ UNCHANGED call
         \/ /\ ip_forward_enable /\ TtlLeft(pkt)
            /\ IpPostroute(Receiver, NodeOf[i], DecrementTtl(pkt), NULL)
      /\ UNCHANGED <<arp, update, ip_forward_enable, lost>>

-----------------------------------------------------------------------------
(* Other steps. *)

\* set_ip_forward
SetIpForward(val) ==
  /\ ip_forward_enable' = val
  /\ UNCHANGED <<arp, wire, call, update, lost>>

\* The operating system discards a datagram (a full socket buffer, or a
\* sendto that fails: udp_send_bytes reports neither, see send_pkt_out).
LoseFrame(i) ==
  /\ lost < MaxLoss
  /\ wire[i] # <<>>
  /\ wire' = RecvBytes(i)
  /\ lost' = lost + 1
  /\ UNCHANGED <<arp, call, update, ip_forward_enable>>

NetInit ==
  /\ arp = [n \in Node |-> [a \in IpAddr |-> <<>>]]
  /\ wire = [i \in Intf |-> <<>>]
  /\ call = [t \in Thread |-> NULL]
  /\ update = NULL
  /\ ip_forward_enable = TRUE
  /\ lost = 0

\* The steps of the receive thread below the protocols above IP.
NetRecv ==
  \/ SetResolved \/ SetMac \/ FlushFirst \/ FlushPending
  \/ PostrouteStep(Receiver)
  \/ \E i \in Intf : RecvRefused(i) \/ RecvArpRequest(i) \/ RecvArpReply(i)
                       \/ RecvForward(i)

\* Steps taken by an application thread or by the operating system.
NetEnvironment ==
  \/ \E val \in BOOLEAN : SetIpForward(val)
  \/ \E i \in Intf : LoseFrame(i)

-----------------------------------------------------------------------------
(* Properties of the layers, whatever protocol runs above them. *)

NetTypeOK ==
  /\ arp \in [Node -> [IpAddr -> Seq(ArpEntry)]]
  /\ wire \in [Intf -> Seq(Frame)]
  /\ call \in [Thread -> Call \cup {NULL}]
  /\ update \in Update \cup {NULL}
  /\ ip_forward_enable \in BOOLEAN
  /\ lost \in 0..MaxLoss

InFlight(i, frame) == frame \in Range(wire[i])

\* Node n sends packets for some address over interface k, with target_ip as
\* the address to resolve.
OnRoute(n, target_ip, k) ==
  \E a \in IpAddr :
    /\ RtLookup[n][a] # NULL
    /\ RtLookup[n][a].intf = k
    /\ target_ip = IF RtLookup[n][a].next = 0 THEN a ELSE RtLookup[n][a].next

\* The configuration is consistent: of a node's neighbours, only the one on
\* the interface the node would use has the address that it would resolve.
\* The ARP table is keyed by address alone, so this is needed.
RoutesOnLink ==
  \A n \in Node, ip \in IpAddr, k, j \in Intf :
    OnRoute(n, ip, k) /\ NodeOf[Nbr[j]] = n /\ IfIp[j] = ip => j = Nbr[k]

\* The request for ip sent over interface k, or the reply to it, is in flight.
RequestUnderWay(k, ip) ==
  \/ InFlight(Nbr[k], ArpRequest(k, ip))
  \/ InFlight(k, ArpReply(Nbr[k], ArpRequest(k, ip)))

\* A thread queued a packet and is about to send the request for it.
RequestDue(n, ip, k) ==
  \E t \in Thread : /\ At(t, "request")
                    /\ call[t].node = n
                    /\ call[t].target_ip = ip
                    /\ call[t].skb.oif = k

\* recv_task has the packet at place p of the queue ahead of it.
FlushAhead(n, ip, queue, p) ==
  /\ update # NULL
  /\ update.node = n
  /\ update.ip = ip
  /\ update.at = "flush" => p > Len(queue) - update.left

\* A packet on pending_pkts that waits for the address of the other end of
\* its link is covered, wherever the threads are in ip_postroute and in the
\* handling of a reply: the flush has it ahead of it, or the request that will
\* send it is due or, with its reply, under way.  So a packet that is queued
\* after the reply was handled leaves with the next one (ip_postroute asks for
\* every packet it queues; there is no timeout).  The two exceptions are a
\* lost frame, and an address for which two threads added an entry: only the
\* newer entry is found, and packets on the older one stay (ArpRace).
PendingCovered ==
  lost = 0 =>
    \A n \in Node, ip \in IpAddr :
      Len(arp[n][ip]) = 1 =>
        LET queue == arp[n][ip][1].pending_pkts
        IN  \A p \in DOMAIN queue :
              IfIp[Nbr[queue[p].oif]] = ip /\ IsIntfL3Mode(Nbr[queue[p].oif]) =>
                \/ FlushAhead(n, ip, queue, p)
                \/ RequestDue(n, ip, queue[p].oif)
                \/ RequestUnderWay(queue[p].oif, ip)

\* The time to live of every packet that is sent is live: ip_forward never
\* lets it run out or wrap.
TtlLive ==
  \A i \in Intf : \A frame \in Range(wire[i]) :
    frame.type = "IP" => frame.pkt.ttl \in 1..InitTtl

\* A thread sends to the entry that recv_task has marked resolved and not
\* given its hardware address yet.
SendsBeforeCopy ==
  /\ UpdateAt("copy")
  /\ \E t \in Thread : /\ At(t, "output")
                       /\ call[t].node = update.node
                       /\ call[t].target_ip = update.ip

\* An IP frame that the step sends is accepted where it arrives.
AcceptedOrRace ==
  \A i \in Intf : \A frame \in Range(wire'[i]) \ Range(wire[i]) :
    frame.type = "IP" => EthernetInputQualify(i, frame) \/ SendsBeforeCopy

\* What ip_postroute and the flush send carries the hardware address of the
\* interface it is sent to, so that ethernet_input_qualify accepts it, with one
\* exception: arp_table_update_from_arp_reply sets resolved before it copies
\* the address, and a packet that another thread sends in between is refused.
RefusedOnlyInRace == [][AcceptedOrRace]_wire
=============================================================================
