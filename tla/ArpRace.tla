------------------------------ MODULE ArpRace ------------------------------
(***************************************************************************)
(* ip_postroute (ip.c) against arp_table_update_from_arp_reply (arp.c),    *)
(* access by access, for the ARP table of one node and one address on one  *)
(* of its links.  IpArp has the same code in a network of nodes, with one  *)
(* application thread per node; here any number of threads send, and the   *)
(* history tells when every packet left.                                   *)
(*                                                                         *)
(* Every thread that sends runs ip_postroute; the receive thread does so   *)
(* too (it answers pings) when it is not busy with an ARP reply.  Nothing  *)
(* is locked.  An operation on a list is one step here.  In the code it is *)
(* not: ip.c:110 adds to pending_pkts beside arp.c:97, which deletes from  *)
(* it, the combination that LinkedList takes apart and that goes wrong     *)
(* there (MCLinkedList_flush.cfg).                                         *)
(***************************************************************************)
EXTENDS Naturals, Sequences, SequencesExt, FiniteSets

CONSTANTS
  Sender,     \* the threads that send to the address
  RecvTask,   \* the receive thread, a sender or not
  Packet,     \* the packets they send
  MaxLoss,    \* how many requests or replies are lost
  NULL

ASSUME ArpRaceAssumption ==
  IsFiniteSet(Packet) /\ NULL \notin Packet \cup Nat /\ MaxLoss \in Nat

\* Every call of ip_postroute adds at most one entry.
EntryId == 1..Cardinality(Packet)

VARIABLES
  entry,     \* the entries (struct arp_entry) of the address in the ARP table,
             \* oldest first; mac says whether the address was copied
  pc, skb,   \* a sender's place in ip_postroute, and its packet
  arp_entry, \* a sender's local variable
  arp_msgs,  \* requests and replies under way, and how many were lost: every
             \* request that is not lost is answered
  flush,     \* the receive thread's place in the update, with its locals
  frames     \* history: the IP frames sent, with whether their MAC was zero

vars == <<entry, pc, skb, arp_entry, arp_msgs, flush, frames>>

-----------------------------------------------------------------------------
(* The table. *)

InitArpEntry == [resolved |-> FALSE, mac |-> FALSE, pending_pkts |-> <<>>]

\* The list starts at the newest entry.
ArpTableLookup == IF entry = <<>> THEN NULL ELSE Len(entry)

Goto(t, from, to) == pc[t] = from /\ pc' = [pc EXCEPT ![t] = to]

EthernetOutput(e, p) == frames' = Append(frames, [pkt |-> p, mac |-> entry[e].mac])

-----------------------------------------------------------------------------
(* ip_postroute in thread t. *)

Unsent == Packet \ ({skb[t] : t \in Sender} \cup {frames[k].pkt : k \in DOMAIN frames}
                      \cup UNION {Range(entry[e].pending_pkts) : e \in DOMAIN entry})

\* The receive thread sends only between two frames.
Send(t) ==
  /\ Goto(t, "idle", "lookup")
  /\ t = RecvTask => flush.at = "idle"
  /\ \E p \in Unsent : skb' = [skb EXCEPT ![t] = p]
  /\ UNCHANGED <<entry, arp_entry, arp_msgs, flush, frames>>

Lookup(t) ==
  /\ Goto(t, "lookup", IF ArpTableLookup = NULL THEN "add" ELSE "test")
  /\ arp_entry' = [arp_entry EXCEPT ![t] = ArpTableLookup]
  /\ UNCHANGED <<entry, skb, arp_msgs, flush, frames>>

\* arp_table_entry_add does not look whether the address has an entry by now.
EntryAdd(t) ==
  /\ Goto(t, "add", "test")
  /\ entry' = Append(entry, InitArpEntry)
  /\ arp_entry' = [arp_entry EXCEPT ![t] = Len(entry) + 1]
  /\ UNCHANGED <<skb, arp_msgs, flush, frames>>

TestResolved(t) ==
  /\ Goto(t, "test", IF entry[arp_entry[t]].resolved THEN "output" ELSE "queue")
  /\ UNCHANGED <<entry, skb, arp_entry, arp_msgs, flush, frames>>

Queue(t) ==
  /\ Goto(t, "queue", "request")
  /\ entry' = [entry EXCEPT ![arp_entry[t]].pending_pkts = <<skb[t]>> \o @]
  /\ skb' = [skb EXCEPT ![t] = NULL]
  /\ UNCHANGED <<arp_entry, arp_msgs, flush, frames>>

\* Defect: a packet that joins others asks no more: their reply is expected.
RequestOnce(t) ==
  /\ Goto(t, "request", "idle")
  /\ arp_msgs' = IF Len(entry[arp_entry[t]].pending_pkts) > 1
                 THEN arp_msgs ELSE [arp_msgs EXCEPT !.n = @ + 1]
  /\ UNCHANGED <<entry, skb, arp_entry, flush, frames>>

\* send_arp_broadcast_request; the owner of the address will reply.
Request(t) ==
  /\ Goto(t, "request", "idle")
  /\ arp_msgs' = [arp_msgs EXCEPT !.n = @ + 1]
  /\ UNCHANGED <<entry, skb, arp_entry, flush, frames>>

Output(t) ==
  /\ Goto(t, "output", "idle")
  /\ EthernetOutput(arp_entry[t], skb[t])
  /\ skb' = [skb EXCEPT ![t] = NULL]
  /\ UNCHANGED <<entry, arp_entry, arp_msgs, flush>>

IpPostroute(t) ==
  \/ Lookup(t) \/ EntryAdd(t) \/ TestResolved(t)
  \/ Queue(t) \/ Request(t) \/ Output(t)

-----------------------------------------------------------------------------
(* arp_table_update_from_arp_reply in the receive thread. *)

Idle == [at |-> "idle", e |-> NULL, todo |-> <<>>]

Update(from) == flush.at = from /\ UNCHANGED <<pc, skb, arp_entry>>

\* A reply follows a request, which follows the creation of an entry.
UpdateLookup ==
  /\ Update("idle")
  /\ RecvTask \in Sender => pc[RecvTask] = "idle"
  /\ arp_msgs.n > 0
  /\ arp_msgs' = [arp_msgs EXCEPT !.n = @ - 1]
  /\ flush' = [Idle EXCEPT !.at = "found", !.e = ArpTableLookup]
  /\ UNCHANGED <<entry, frames>>

SetResolved ==
  /\ Update("found")
  /\ entry' = [entry EXCEPT ![flush.e].resolved = TRUE]
  /\ flush' = [flush EXCEPT !.at = "copy"]
  /\ UNCHANGED <<arp_msgs, frames>>

SetMac ==
  /\ Update("copy")
  /\ entry' = [entry EXCEPT ![flush.e].mac = TRUE]
  /\ flush' = [flush EXCEPT !.at = "first"]
  /\ UNCHANGED <<arp_msgs, frames>>

\* The walk starts at the newest packet.  Packets are added in front of it, so
\* it sees exactly those that were there when it started.
FlushStart ==
  /\ Update("first")
  /\ flush' = [flush EXCEPT !.at = "walk", !.todo = entry[flush.e].pending_pkts]
  /\ UNCHANGED <<entry, arp_msgs, frames>>

\* Defect: the packet stays on the queue.
FlushPacketKept ==
  /\ Update("walk")
  /\ flush.todo # <<>>
  /\ EthernetOutput(flush.e, Head(flush.todo))
  /\ flush' = [flush EXCEPT !.todo = Tail(@)]
  /\ UNCHANGED <<entry, arp_msgs>>

FlushPacket ==
  /\ Update("walk")
  /\ flush.todo # <<>>
  /\ entry' = [entry EXCEPT ![flush.e].pending_pkts = RemoveFirst(@, Head(flush.todo))]
  /\ EthernetOutput(flush.e, Head(flush.todo))
  /\ flush' = [flush EXCEPT !.todo = Tail(@)]
  /\ UNCHANGED arp_msgs

FlushEnd ==
  /\ Update("walk")
  /\ flush.todo = <<>>
  /\ flush' = Idle
  /\ UNCHANGED <<entry, arp_msgs, frames>>

ArpTableUpdate ==
  UpdateLookup \/ SetResolved \/ SetMac \/ FlushStart \/ FlushPacket \/ FlushEnd

\* A request or a reply is lost; nothing asks again.
Lose ==
  /\ arp_msgs.n > 0 /\ arp_msgs.lost < MaxLoss
  /\ arp_msgs' = [n |-> arp_msgs.n - 1, lost |-> arp_msgs.lost + 1]
  /\ UNCHANGED <<entry, pc, skb, arp_entry, flush, frames>>

-----------------------------------------------------------------------------
Init ==
  /\ entry = <<>>
  /\ pc = [t \in Sender |-> "idle"]
  /\ skb = [t \in Sender |-> NULL]
  /\ arp_entry = [t \in Sender |-> NULL]
  /\ arp_msgs = [n |-> 0, lost |-> 0]
  /\ flush = Idle
  /\ frames = <<>>

Next == ArpTableUpdate \/ Lose \/ \E t \in Sender : Send(t) \/ IpPostroute(t)

Spec == Init /\ [][Next]_vars

\* Every thread goes on with what it began; nothing makes an application send.
FairSpec == Spec /\ WF_vars(ArpTableUpdate) /\ \A t \in Sender : WF_vars(IpPostroute(t))

-----------------------------------------------------------------------------
(* Properties. *)

InFlight(p) == \E t \in Sender : skb[t] = p

Queued(p, e) == e \in DOMAIN entry /\ p \in Range(entry[e].pending_pkts)

\* Whatever the order in which the sender's accesses fall between those of
\* the update, a packet that waits in a queue is seen by a flush to come, as
\* long as no request or reply was lost: the flush of its entry has not passed
\* it, or a reply to a request that was sent after the packet was queued is
\* under way or about to be asked for.
WaitsForFlush ==
  arp_msgs.lost = 0 => \A p \in Packet, e \in DOMAIN entry : Queued(p, e) =>
    \/ e = ArpTableLookup /\ arp_msgs.n > 0
    \/ \E t \in Sender : e = ArpTableLookup /\ pc[t] = "request"
    \/ flush.e = e /\ (flush.at # "walk" \/ p \in Range(flush.todo))

\* A packet leaves once, and while it waits nobody else holds it: list_del
\* takes it off the queue before it is sent, although senders change the queue
\* in between.  This is about the order of whole list operations: a list_add
\* that runs beside a list_del can damage pending_pkts (MCLinkedList_flush.cfg).
SentOnce ==
  /\ \A j, k \in DOMAIN frames : frames[j].pkt = frames[k].pkt => j = k
  /\ \A k \in DOMAIN frames, e \in DOMAIN entry : ~Queued(frames[k].pkt, e)

\* Every packet given to ip_postroute leaves in the end ("process pending
\* packets to send"), unless a request or reply was lost.
EveryPacketSent ==
  \A p \in Packet :
    InFlight(p) ~> (arp_msgs.lost > 0 \/ \E k \in DOMAIN frames : frames[k].pkt = p)

\* There is no timer, but a packet that waits because a request or reply was
\* lost leaves with the next packet to the same address: ip_postroute asks
\* again for every packet it queues, and the reply flushes all of them.
NextPacketRescues ==
  \A p \in Packet, e \in EntryId :
    (/\ Queued(p, e) /\ e = ArpTableLookup
     /\ arp_msgs.lost = MaxLoss /\ \E t \in Sender : pc[t] = "request")
      ~> (\E k \in DOMAIN frames : frames[k].pkt = p)

\* A sender that finds the entry resolved finds its hardware address too: no
\* frame leaves with the zero address that init_arp_entry stored.
MacKnownWhenSent == \A k \in DOMAIN frames : frames[k].mac
=============================================================================
