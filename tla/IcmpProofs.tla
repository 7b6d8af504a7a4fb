----------------------------- MODULE IcmpProofs -----------------------------
(***************************************************************************)
(* Proofs about Icmp, for every topology, every routing table, every       *)
(* number of pings and of threads: types, the safety of ARP resolution and *)
(* of the packets that wait for it, with the tables read and written       *)
(* without a lock, and that no echo is duplicated.                         *)
(***************************************************************************)
EXTENDS Icmp, SequenceLemmas, FiniteSetTheorems

Wires == [Intf -> Seq(Frame)]

Tables == [Node -> [IpAddr -> Seq(ArpEntry)]]

-----------------------------------------------------------------------------
(* Sockets. *)

\* Sending over i adds the frame to the socket at the other end, only.
LEMMA SendWire ==
  ASSUME NEW w \in Wires, NEW i \in Intf, NEW frame \in Frame
  PROVE  /\ SendPktOut(w, i, frame) \in Wires
         /\ Range(SendPktOut(w, i, frame)[Nbr[i]]) = Range(w[Nbr[i]]) \cup {frame}
         /\ \A j \in Intf : j # Nbr[i] => SendPktOut(w, i, frame)[j] = w[j]
<1>1. Nbr[i] \in Intf
  BY TopologyAssumption
<1>2. w[Nbr[i]] \in Seq(Frame)
  BY <1>1 DEF Wires
<1>3. /\ Append(w[Nbr[i]], frame) \in Seq(Frame)
      /\ Range(Append(w[Nbr[i]], frame)) = Range(w[Nbr[i]]) \cup {frame}
  BY <1>2, AppendRange
<1>4. SendPktOut(w, i, frame) = [w EXCEPT ![Nbr[i]] = Append(w[Nbr[i]], frame)]
  BY DEF SendPktOut
<1>5. QED BY <1>1, <1>3, <1>4 DEF Wires

\* Reading a frame takes it out of that socket, only.
LEMMA TakeWire ==
  ASSUME wire \in Wires, NEW i \in Intf, wire[i] # << >>
  PROVE  /\ Head(wire[i]) \in Frame
         /\ RecvBytes(i) \in Wires
         /\ Range(wire[i]) = {Head(wire[i])} \cup Range(RecvBytes(i)[i])
         /\ \A j \in Intf : j # i => RecvBytes(i)[j] = wire[j]
<1>1. wire[i] \in Seq(Frame)
  BY DEF Wires
<1>2. /\ Head(wire[i]) \in Frame
      /\ Tail(wire[i]) \in Seq(Frame)
      /\ Range(wire[i]) = {Head(wire[i])} \cup Range(Tail(wire[i]))
  BY <1>1, TailRange
<1>3. QED BY <1>1, <1>2 DEF Wires, RecvBytes

-----------------------------------------------------------------------------
(* The inductive invariant of the layers below ICMP. *)

\* mac is the hardware address of a neighbour of n that has address ip.
Neighbour(n, ip, mac) ==
  \E j \in Intf : IfIp[j] = ip /\ IfIp[j] # 0 /\ mac = IfMac[j] /\ NodeOf[Nbr[j]] = n

\* recv_task is between the two assignments to the entry.
Copying(n, ip, e) ==
  UpdateAt("copy") /\ update.node = n /\ update.ip = ip /\ update.arp_entry = e

\* A call follows a route; it has an entry once it found or added one, which
\* is resolved if the call is about to send.
CallOK(t) ==
  call[t] # NULL =>
    /\ OnRoute(call[t].node, call[t].target_ip, call[t].skb.oif)
    /\ call[t].at # "add" =>
         call[t].arp_entry \in DOMAIN arp[call[t].node][call[t].target_ip]
    /\ call[t].at = "output" => EntryOf(t).resolved

CallsOK == \A t \in Thread : CallOK(t)

\* The update has an entry, a neighbour's address and, in its loop, packets
\* ahead of it.
UpdateOK ==
  update # NULL =>
    /\ Neighbour(update.node, update.ip, update.hw_addr)
    /\ update.arp_entry \in DOMAIN arp[update.node][update.ip]
    /\ update.at # "resolve" => UpdatedEntry.resolved
    /\ update.at = "flush" => update.left \in 1..Len(UpdatedEntry.pending_pkts)

\* ARP frames describe the interface that sent them, which has an address.
ArpFramesOK ==
  \A i \in Intf : \A frame \in Range(wire[i]) :
    frame.type = "ARP" =>
      /\ frame.sender_hw_addr = IfMac[Nbr[i]]
      /\ frame.sender_proto_addr = IfIp[Nbr[i]]
      /\ IfIp[Nbr[i]] # 0

\* A resolved entry holds the hardware address of a neighbour that has the
\* entry's address, or will in a moment, and packets wait on the entry of
\* their route's next hop.
EntryOK(n, ip, e) ==
  /\ arp[n][ip][e].resolved => Neighbour(n, ip, arp[n][ip][e].mac) \/ Copying(n, ip, e)
  /\ \A skb \in Range(arp[n][ip][e].pending_pkts) : OnRoute(n, ip, skb.oif)

EntriesOK ==
  \A n \in Node, ip \in IpAddr : \A e \in DOMAIN arp[n][ip] : EntryOK(n, ip, e)

NetInv ==
  /\ NetTypeOK
  /\ CallsOK
  /\ UpdateOK
  /\ ArpFramesOK
  /\ EntriesOK
  /\ PendingCovered

\* The packets on a wire, on a queue or in the hands of a thread.
OnWire(pkt) ==
  \E i \in Intf : \E frame \in Range(wire[i]) :
    frame.type = "IP" /\ frame.pkt = pkt

Waiting(pkt) ==
  \E n \in Node, ip \in IpAddr : \E e \in DOMAIN arp[n][ip] :
    \E skb \in Range(arp[n][ip][e].pending_pkts) : skb.pkt = pkt

Held(pkt) ==
  \E t \in Thread : call[t] # NULL /\ call[t].at # "request" /\ call[t].skb.pkt = pkt

InTransit == {pkt \in Packet : OnWire(pkt) \/ Waiting(pkt) \/ Held(pkt)}

\* PendingCovered, taken apart: the packet at place p of the only entry waits
\* for the other end of its link, and something covers it.
Waits(n, ip, p) ==
  /\ Len(arp[n][ip]) = 1
  /\ p \in DOMAIN arp[n][ip][1].pending_pkts
  /\ IfIp[Nbr[arp[n][ip][1].pending_pkts[p].oif]] = ip
  /\ IfIp[Nbr[arp[n][ip][1].pending_pkts[p].oif]] # 0

Covers(n, ip, p) ==
  \/ FlushAhead(n, ip, arp[n][ip][1].pending_pkts, p)
  \/ RequestDue(n, ip, arp[n][ip][1].pending_pkts[p].oif)
  \/ RequestUnderWay(arp[n][ip][1].pending_pkts[p].oif, ip)

-----------------------------------------------------------------------------
(* Frames and entries have the types of the model. *)

\* The interface of a route belongs to the node and has an address.
LEMMA RouteFacts ==
  ASSUME NEW n \in Node, NEW ip, NEW k, OnRoute(n, ip, k)
  PROVE  k \in Intf /\ NodeOf[k] = n /\ IfIp[k] # 0 /\ ip \in IpAddr
BY RouteAssumption DEF OnRoute, RtEntry

\* An ARP request is a frame.
LEMMA RequestFrame ==
  ASSUME NEW i \in Intf, NEW ip \in IpAddr
  PROVE  ArpRequest(i, ip) \in Frame
BY AddressAssumption DEF ArpRequest, Frame, ArpFrame

\* The reply to an ARP frame is a frame.
LEMMA ReplyFrame ==
  ASSUME NEW i \in Intf, NEW frame \in Frame, frame.type = "ARP"
  PROVE  ArpReply(i, frame) \in Frame
<1>1. frame \in ArpFrame
  BY DEF Frame, ArpFrame, IpFrame
<1>2. QED BY <1>1, AddressAssumption DEF ArpReply, Frame, ArpFrame

\* An IP packet with a hardware address is a frame.
LEMMA PktFrame ==
  ASSUME NEW mac \in MacAddr \cup {ZeroMac}, NEW pkt \in Packet
  PROVE  IpPktFrame(mac, pkt) \in Frame
BY DEF IpPktFrame, Frame, IpFrame

\* The fields of a frame, by its type.
LEMMA FrameKinds ==
  ASSUME NEW frame \in Frame
  PROVE  \/ frame.type = "ARP" /\ frame \in ArpFrame
         \/ frame.type = "IP" /\ frame \in IpFrame
BY DEF Frame, ArpFrame, IpFrame

-----------------------------------------------------------------------------
(* Tables. *)

\* An entry of the table, and its queue.
LEMMA EntryFacts ==
  ASSUME arp \in Tables, NEW n \in Node, NEW ip \in IpAddr, NEW e \in DOMAIN arp[n][ip]
  PROVE  /\ arp[n][ip][e] \in ArpEntry
         /\ arp[n][ip][e].pending_pkts \in Seq(Pending)
         /\ \A p \in DOMAIN arp[n][ip][e].pending_pkts :
              arp[n][ip][e].pending_pkts[p] \in Pending
         /\ e \in 1..Len(arp[n][ip]) /\ Len(arp[n][ip]) \in Nat
<1> DEFINE s == arp[n][ip]
<1>1. s \in Seq(ArpEntry)
  BY DEF Tables
<1>2. /\ Len(s) \in Nat /\ DOMAIN s = 1..Len(s) /\ s[e] \in ArpEntry
  <2>1. e \in DOMAIN s
    OBVIOUS
  <2> HIDE DEF s
  <2>2. QED BY <1>1, <2>1
<1>3. s[e].pending_pkts \in Seq(Pending)
  BY <1>2 DEF ArpEntry
<1> DEFINE q == s[e].pending_pkts
<1>4. \A p \in DOMAIN q : q[p] \in Pending
  <2>1. q \in Seq(Pending)
    BY <1>3
  <2> HIDE DEF q
  <2>2. QED BY <2>1
<1>5. QED BY <1>2, <1>3, <1>4

\* The lists of a table have lengths.
LEMMA TableFacts ==
  ASSUME arp \in Tables, NEW n \in Node, NEW ip \in IpAddr
  PROVE  Len(arp[n][ip]) \in Nat /\ DOMAIN arp[n][ip] = 1..Len(arp[n][ip])
<1>1. arp[n][ip] \in Seq(ArpEntry)
  BY DEF Tables
<1>2. QED BY <1>1

\* All lists have the length they had, and all entries but one are the same.
OneChanged(n, ip, e) ==
  /\ \A m \in Node, a \in IpAddr :
       Len(arp'[m][a]) = Len(arp[m][a]) /\ DOMAIN arp'[m][a] = DOMAIN arp[m][a]
  /\ \A m \in Node, a \in IpAddr : \A f \in DOMAIN arp[m][a] :
       m # n \/ a # ip \/ f # e => arp'[m][a][f] = arp[m][a][f]

\* One entry is changed.
LEMMA SetEntry ==
  ASSUME arp \in Tables, NEW n \in Node, NEW ip \in IpAddr, NEW e \in DOMAIN arp[n][ip],
         NEW y \in ArpEntry, arp' = [arp EXCEPT ![n][ip][e] = y]
  PROVE  arp' \in Tables /\ arp'[n][ip][e] = y /\ OneChanged(n, ip, e)
<1> DEFINE s == arp[n][ip]
           r == [s EXCEPT ![e] = y]
<1>1. s \in Seq(ArpEntry)
  BY DEF Tables
<1>2. /\ r \in Seq(ArpEntry) /\ Len(r) = Len(s) /\ DOMAIN r = DOMAIN s /\ r[e] = y
      /\ \A f \in DOMAIN s : f # e => r[f] = s[f]
  <2>1. e \in DOMAIN s
    OBVIOUS
  <2> HIDE DEF s
  <2>2. e \in 1..Len(s) /\ DOMAIN s = 1..Len(s)
    BY <1>1, <2>1
  <2>3. QED BY <1>1, <2>2, ExceptSeq
<1>3. arp' = [arp EXCEPT ![n] = [arp[n] EXCEPT ![ip] = r]]
  OBVIOUS
<1> HIDE DEF r
<1>4. arp'[n][ip] = r /\ arp' \in Tables
  BY <1>2, <1>3 DEF Tables
<1>5. \A m \in Node, a \in IpAddr : m # n \/ a # ip => arp'[m][a] = arp[m][a]
  BY <1>3 DEF Tables
<1>6. QED BY <1>2, <1>4, <1>5 DEF OneChanged

\* An entry is added.
LEMMA AddEntry ==
  ASSUME arp \in Tables, NEW n \in Node, NEW ip \in IpAddr,
         arp' = [arp EXCEPT ![n][ip] = Append(@, NewArpEntry)]
  PROVE  /\ arp' \in Tables
         /\ Len(arp'[n][ip]) = Len(arp[n][ip]) + 1
         /\ DOMAIN arp'[n][ip] = DOMAIN arp[n][ip] \cup {Len(arp[n][ip]) + 1}
         /\ Len(arp[n][ip]) + 1 \notin DOMAIN arp[n][ip]
         /\ arp'[n][ip][Len(arp[n][ip]) + 1] = NewArpEntry
         /\ \A f \in DOMAIN arp[n][ip] : arp'[n][ip][f] = arp[n][ip][f]
         /\ \A m \in Node, a \in IpAddr : m # n \/ a # ip => arp'[m][a] = arp[m][a]
<1> DEFINE s == arp[n][ip]
           r == Append(s, NewArpEntry)
<1>1. s \in Seq(ArpEntry) /\ NewArpEntry \in ArpEntry
  <2>1. NewArpEntry \in ArpEntry
    BY DEF NewArpEntry, ArpEntry
  <2>2. QED BY <2>1 DEF Tables
<1>2. /\ r \in Seq(ArpEntry) /\ Len(r) = Len(s) + 1
      /\ DOMAIN r = DOMAIN s \cup {Len(s) + 1} /\ Len(s) + 1 \notin DOMAIN s
      /\ r[Len(s) + 1] = NewArpEntry /\ \A f \in DOMAIN s : r[f] = s[f]
  <2> HIDE DEF s
  <2>1. Len(s) \in Nat /\ DOMAIN s = 1..Len(s)
    BY <1>1
  <2>2. r \in Seq(ArpEntry) /\ Len(r) = Len(s) + 1 /\ DOMAIN r = 1..(Len(s) + 1)
    BY <1>1
  <2>3. r[Len(s) + 1] = NewArpEntry /\ \A f \in 1..Len(s) : r[f] = s[f]
    BY <1>1
  <2>4. QED BY <2>1, <2>2, <2>3
<1>3. arp' = [arp EXCEPT ![n] = [arp[n] EXCEPT ![ip] = r]]
  OBVIOUS
<1> HIDE DEF r
<1>4. arp'[n][ip] = r /\ arp' \in Tables
  BY <1>2, <1>3 DEF Tables
<1>5. \A m \in Node, a \in IpAddr : m # n \/ a # ip => arp'[m][a] = arp[m][a]
  BY <1>3 DEF Tables
<1>6. QED BY <1>2, <1>4, <1>5

-----------------------------------------------------------------------------
(* What a step keeps. *)

\* The state of the layers has the types the lemmas ask for.
LEMMA NetFacts ==
  ASSUME NetInv
  PROVE  /\ arp \in Tables /\ wire \in Wires
         /\ call \in [Thread -> Call \cup {NULL}] /\ update \in Update \cup {NULL}
         /\ lost \in 0..MaxLoss /\ ip_forward_enable \in BOOLEAN
BY DEF NetInv, NetTypeOK, Tables, Wires

\* The fields of a call and of an update.
LEMMA CallFields ==
  ASSUME NetInv, NEW t \in Thread, call[t] # NULL
  PROVE  /\ call[t] \in Call /\ call[t].node \in Node /\ call[t].target_ip \in IpAddr
         /\ call[t].skb \in Pending /\ call[t].skb.oif \in Intf
         /\ call[t].skb.pkt \in Packet
<1>1. call[t] \in Call
  BY NetFacts
<1>2. call[t].node \in Node /\ call[t].target_ip \in IpAddr /\ call[t].skb \in Pending
  BY <1>1 DEF Call
<1>3. QED BY <1>1, <1>2 DEF Pending

LEMMA UpdateFields ==
  ASSUME NetInv, update # NULL
  PROVE  /\ update \in Update /\ update.node \in Node /\ update.ip \in IpAddr
         /\ update.hw_addr \in MacAddr /\ update.left \in Nat
         /\ update.arp_entry \in DOMAIN arp[update.node][update.ip]
<1>1. update \in Update
  BY NetFacts
<1>2. QED BY <1>1 DEF Update, NetInv, UpdateOK

\* A call's step that stays in ip_postroute.
LEMMA GotoType ==
  ASSUME NetInv, NEW t \in Thread, call[t] # NULL,
         NEW place \in {"add", "test", "queue", "request", "output"}, Goto(t, place)
  PROVE  /\ call' \in [Thread -> Call \cup {NULL}]
         /\ call'[t] # NULL /\ call'[t].at = place /\ call'[t].node = call[t].node
         /\ call'[t].target_ip = call[t].target_ip
         /\ call'[t].arp_entry = call[t].arp_entry /\ call'[t].skb = call[t].skb
         /\ \A s \in Thread : s # t => call'[s] = call[s]
<1> DEFINE c == [call[t] EXCEPT !.at = place]
<1>1. call[t] \in Call /\ call \in [Thread -> Call \cup {NULL}]
  BY NetFacts, CallFields
<1>2. /\ c \in Call /\ c.at = place /\ c.node = call[t].node
      /\ c.target_ip = call[t].target_ip
      /\ c.arp_entry = call[t].arp_entry /\ c.skb = call[t].skb
  BY <1>1 DEF Call
<1>3. call' = [call EXCEPT ![t] = c]
  BY DEF Goto
<1> HIDE DEF c
<1>4. c # NULL
  BY <1>2, ThreadAssumption
<1>5. QED BY <1>1, <1>2, <1>3, <1>4

\* A call that returns.
LEMMA ReturnType ==
  ASSUME NetInv, NEW t \in Thread, Return(t)
  PROVE  /\ call' \in [Thread -> Call \cup {NULL}] /\ call'[t] = NULL
         /\ \A s \in Thread : s # t => call'[s] = call[s]
BY NetFacts DEF Return

\* Entries stay, and stay resolved.
Grown ==
  \A m \in Node, a \in IpAddr : \A e \in DOMAIN arp[m][a] :
    e \in DOMAIN arp'[m][a] /\ (arp[m][a][e].resolved => arp'[m][a][e].resolved)

\* A call that the step leaves alone.
LEMMA CallKept ==
  ASSUME NetInv, Grown, NEW t \in Thread, call'[t] = call[t]
  PROVE  CallOK(t)'
<1>1. CASE call[t] = NULL
  BY <1>1 DEF CallOK
<1>2. CASE call[t] # NULL
  <2>1. call[t].node \in Node /\ call[t].target_ip \in IpAddr
    BY <1>2, CallFields
  <2>2. CallOK(t)
    BY DEF NetInv, CallsOK
  <2>3. QED BY <1>2, <2>1, <2>2 DEF CallOK, Grown, EntryOf
<1>3. QED BY <1>1, <1>2

\* All calls, when only that of t changes.
LEMMA CallsKept ==
  ASSUME NetInv, Grown, NEW t \in Thread, CallOK(t)',
         \A s \in Thread : s # t => call'[s] = call[s]
  PROVE  CallsOK'
<1>1. ASSUME NEW s \in Thread PROVE CallOK(s)'
  BY CallKept
<1>2. QED BY <1>1 DEF CallsOK

\* A request for ip over k is due, or it or its reply is under way.
Asked(n, ip, k) == RequestDue(n, ip, k) \/ RequestUnderWay(k, ip)

\* A thread that has a packet's request to send.
DueIn(t, n, ip, k) ==
  At(t, "request") /\ call[t].node = n /\ call[t].target_ip = ip /\ call[t].skb.oif = k

\* RequestDue names such a thread.
LEMMA DueDef ==
  ASSUME NEW n, NEW ip, NEW k
  PROVE  RequestDue(n, ip, k) <=> \E t \in Thread : DueIn(t, n, ip, k)
BY DEF RequestDue, DueIn

\* No request is forgotten: every thread that has one to send still has it.
DueStays ==
  \A s \in Thread : At(s, "request") => call'[s] = call[s]

\* The ARP frames are still there.
ArpStays ==
  \A i \in Intf : \A frame \in Range(wire[i]) :
    frame.type = "ARP" => frame \in Range(wire'[i])

\* A request that is due stays due.
LEMMA DueKept ==
  ASSUME DueStays, NEW n, NEW ip, NEW k, RequestDue(n, ip, k)
  PROVE  RequestDue(n, ip, k)'
<1>1. PICK t \in Thread : DueIn(t, n, ip, k)
  BY DueDef
<1>2. At(t, "request") /\ call'[t] = call[t]
  BY <1>1 DEF DueIn, DueStays
<1>3. QED BY <1>1, <1>2 DEF DueIn, RequestDue, At

\* A request that is under way stays so.
LEMMA UnderWayKept ==
  ASSUME ArpStays, NEW k \in Intf, NEW ip, RequestUnderWay(k, ip)
  PROVE  RequestUnderWay(k, ip)'
<1>1. Nbr[k] \in Intf
  BY TopologyAssumption
<1>2. /\ ArpRequest(k, ip).type = "ARP"
      /\ ArpReply(Nbr[k], ArpRequest(k, ip)).type = "ARP"
  BY DEF ArpRequest, ArpReply
<1>3. QED BY <1>1, <1>2 DEF ArpStays, RequestUnderWay, InFlight

\* Both together.
LEMMA AskedKept ==
  ASSUME DueStays, ArpStays, NEW n, NEW ip, NEW k \in Intf, Asked(n, ip, k)
  PROVE  Asked(n, ip, k)'
BY DueKept, UnderWayKept, SMTT(30) DEF Asked

\* PendingCovered says that what waits is covered.
LEMMA CoveredNow ==
  ASSUME NetInv, lost = 0, NEW n \in Node, NEW ip \in IpAddr, NEW p, Waits(n, ip, p)
  PROVE  Covers(n, ip, p)
BY DEF NetInv, PendingCovered, Waits, Covers, IsIntfL3Mode

LEMMA CoveredNext ==
  ASSUME lost' = 0 => \A n \in Node, ip \in IpAddr : \A p :
                        Waits(n, ip, p)' => Covers(n, ip, p)'
  PROVE  PendingCovered'
<1>1. SUFFICES ASSUME lost' = 0, NEW n \in Node, NEW ip \in IpAddr,
                      Len(arp'[n][ip]) = 1,
                      NEW p \in DOMAIN arp'[n][ip][1].pending_pkts,
                      IfIp[Nbr[arp'[n][ip][1].pending_pkts[p].oif]] = ip,
                      IfIp[Nbr[arp'[n][ip][1].pending_pkts[p].oif]] # 0
               PROVE  Covers(n, ip, p)'
  BY SMTT(30) DEF PendingCovered, Covers, IsIntfL3Mode
<1>2. Waits(n, ip, p)'
  BY <1>1 DEF Waits
<1>3. QED BY SMTT(30), <1>1, <1>2

\* A packet that waits follows the route of the entry's address.
LEMMA WaitsOnRoute ==
  ASSUME NetInv, NEW n \in Node, NEW ip \in IpAddr, NEW p, Waits(n, ip, p)
  PROVE  /\ 1 \in DOMAIN arp[n][ip]
         /\ OnRoute(n, ip, arp[n][ip][1].pending_pkts[p].oif)
         /\ arp[n][ip][1].pending_pkts[p].oif \in Intf
<1>1. Len(arp[n][ip]) = 1 /\ p \in DOMAIN arp[n][ip][1].pending_pkts
  BY DEF Waits
<1>2. 1 \in DOMAIN arp[n][ip]
  BY <1>1, NetFacts, TableFacts
<1>3. arp[n][ip][1].pending_pkts[p] \in Range(arp[n][ip][1].pending_pkts)
  BY <1>1 DEF Range
<1>4. OnRoute(n, ip, arp[n][ip][1].pending_pkts[p].oif)
  BY <1>2, <1>3 DEF NetInv, EntriesOK, EntryOK
<1>5. QED BY <1>2, <1>4, RouteFacts

\* The request for a neighbour's address is not forgotten.
AskedStays ==
  \A n \in Node, ip \in IpAddr, k \in Intf :
    OnRoute(n, ip, k) /\ IfIp[Nbr[k]] = ip /\ IfIp[Nbr[k]] # 0 /\ Asked(n, ip, k)
      => Asked(n, ip, k)'

\* A step that neither queues nor flushes.
LEMMA CoveredKept ==
  ASSUME NetInv, AskedStays, UNCHANGED <<arp, update>>, lost' = 0 => lost = 0
  PROVE  PendingCovered'
<1>1. ASSUME lost' = 0, NEW n \in Node, NEW ip \in IpAddr, NEW p, Waits(n, ip, p)'
      PROVE  Covers(n, ip, p)'
  <2>1. Waits(n, ip, p)
    BY <1>1 DEF Waits
  <2>2. Covers(n, ip, p)
    BY SMTT(30), <1>1, <2>1, CoveredNow
  <2> DEFINE k == arp[n][ip][1].pending_pkts[p].oif
  <2>3. k \in Intf /\ OnRoute(n, ip, k) /\ IfIp[Nbr[k]] = ip /\ IfIp[Nbr[k]] # 0
    BY <2>1, WaitsOnRoute DEF Waits
  <2>4. CASE FlushAhead(n, ip, arp[n][ip][1].pending_pkts, p)
    BY <2>4 DEF FlushAhead, Covers
  <2>5. CASE Asked(n, ip, k)
    <3>1. Asked(n, ip, k)'
      BY <2>3, <2>5 DEF AskedStays
    <3>2. QED BY <3>1, SMTT(30) DEF Asked, Covers
  <2>6. QED BY <2>2, <2>4, <2>5 DEF Covers, Asked
<1>2. QED BY <1>1, CoveredNext

\* Nothing is done to the tables: what is said of them stays.
LEMMA TablesKept ==
  ASSUME NetInv, UNCHANGED <<arp, update>>
  PROVE  UpdateOK' /\ EntriesOK' /\ Grown
<1>1. UpdateOK'
  BY DEF NetInv, UpdateOK, UpdatedEntry
<1>2. EntriesOK'
  BY DEF NetInv, EntriesOK, EntryOK, Copying, UpdateAt
<1>3. QED BY <1>1, <1>2 DEF Grown

\* A frame is sent.
LEMMA Sent ==
  ASSUME NetInv, NEW i \in Intf, NEW frame \in Frame, wire' = SendPktOut(wire, i, frame)
  PROVE  /\ wire' \in Wires /\ Nbr[i] \in Intf
         /\ frame \in Range(wire'[Nbr[i]])
         /\ \A j \in Intf : Range(wire[j]) \subseteq Range(wire'[j])
         /\ \A j \in Intf : \A f \in Range(wire'[j]) :
              f \in Range(wire[j]) \/ (f = frame /\ j = Nbr[i])
<1>1. wire \in Wires /\ Nbr[i] \in Intf
  BY NetFacts, TopologyAssumption
<1>2. /\ SendPktOut(wire, i, frame) \in Wires
      /\ Range(SendPktOut(wire, i, frame)[Nbr[i]]) = Range(wire[Nbr[i]]) \cup {frame}
      /\ \A j \in Intf : j # Nbr[i] => SendPktOut(wire, i, frame)[j] = wire[j]
  BY <1>1, SendWire
<1>3. /\ wire' \in Wires
      /\ Range(wire'[Nbr[i]]) = Range(wire[Nbr[i]]) \cup {frame}
      /\ \A j \in Intf : j # Nbr[i] => wire'[j] = wire[j]
  BY <1>2, Zenon
<1>4. QED BY <1>1, <1>3

\* At most an IP frame is taken out of a socket.
IpTaken(w) ==
  /\ w \in Wires
  /\ \A i \in Intf : Range(w[i]) \subseteq Range(wire[i])
  /\ \A i \in Intf : \A frame \in Range(wire[i]) :
       frame.type = "ARP" => frame \in Range(w[i])

-----------------------------------------------------------------------------
(* ip_postroute. *)

\* A packet that is dropped, or none: at most an IP frame is gone.
LEMMA DropInv ==
  ASSUME NetInv, IpTaken(wire'), UNCHANGED <<arp, call, update, lost>>,
         ip_forward_enable' \in BOOLEAN
  PROVE  NetInv' /\ InTransit' \subseteq InTransit
<1>1. NetTypeOK'
  BY DEF NetInv, NetTypeOK, IpTaken, Wires
<1>2. UpdateOK' /\ EntriesOK' /\ Grown
  BY TablesKept
<1>3. CallsOK'
  BY DEF NetInv, CallsOK, CallOK, EntryOf
<1>4. ArpFramesOK'
  BY DEF NetInv, ArpFramesOK, IpTaken
<1>5. DueStays /\ ArpStays
  BY DEF DueStays, ArpStays, IpTaken
<1>6. PendingCovered'
  BY <1>5, AskedKept, CoveredKept DEF AskedStays
<1>7. InTransit' \subseteq InTransit
  BY DEF InTransit, OnWire, Waiting, Held, IpTaken
<1>8. QED BY <1>1, <1>2, <1>3, <1>4, <1>6, <1>7 DEF NetInv

\* Up to the lookup: the packet that the thread holds from now on is the one
\* it was given, with its source rewritten.
LEMMA PostrouteInv ==
  ASSUME NetInv, NEW t \in Thread, call[t] = NULL, NEW n \in Node, NEW pkt \in Packet,
         NEW oif, IpPostroute(t, n, pkt, oif), IpTaken(wire'),
         UNCHANGED <<arp, update, ip_forward_enable, lost>>
  PROVE  /\ NetInv'
         /\ \A p \in InTransit' :
              p \in InTransit \/ \E ip \in IpAddr : p = [pkt EXCEPT !.src = ip]
<1> DEFINE rt == RtLookup[n][pkt.dst]
           target_ip == IF rt.next = 0 THEN pkt.dst ELSE rt.next
           found == ArpTableLookup(n, target_ip)
           skb == [oif |-> rt.intf, pkt |-> [pkt EXCEPT !.src = IfIp[rt.intf]]]
           place == IF found = 0 THEN "add" ELSE "test"
           c == [at |-> place, node |-> n, target_ip |-> target_ip,
                 arp_entry |-> found, skb |-> skb]
<1>1. CASE UNCHANGED call
  <2>1. ip_forward_enable' \in BOOLEAN
    BY NetFacts
  <2>2. QED BY <1>1, <2>1, DropInv
<1>2. CASE ~UNCHANGED call
  <2>1. Routable(n, pkt.dst, oif) /\ call' = [call EXCEPT ![t] = c]
    BY <1>2 DEF IpPostroute
  <2>2. pkt.dst \in IpAddr
    BY DEF Packet
  <2>3. OnRoute(n, target_ip, rt.intf)
    BY <2>1, <2>2 DEF Routable, OnRoute
  <2>4. rt.intf \in Intf /\ target_ip \in IpAddr
    BY <2>3, RouteFacts
  <2>5. IfIp[rt.intf] \in IpAddr
    BY <2>4, AddressAssumption
  <2>6. skb \in Pending /\ skb.pkt = [pkt EXCEPT !.src = IfIp[rt.intf]] /\ skb.oif = rt.intf
    BY <2>4, <2>5 DEF Packet, Pending
  <2> HIDE DEF target_ip, rt, skb
  <2>7. found \in Nat /\ (place # "add" => found \in DOMAIN arp[n][target_ip])
    BY <2>4, NetFacts, TableFacts DEF ArpTableLookup
  <2> HIDE DEF found
  <2>8. c \in Call /\ c # NULL
    <3>1. c \in Call
      BY <2>4, <2>6, <2>7 DEF Call
    <3>2. QED BY <3>1, ThreadAssumption
  <2>9. c.at \in {"add", "test"} /\ c.node = n /\ c.target_ip = target_ip
          /\ c.arp_entry = found /\ c.skb = skb /\ c.at = place
    OBVIOUS
  <2> HIDE DEF c, place
  <2>10. /\ call' \in [Thread -> Call \cup {NULL}] /\ call'[t] = c
         /\ \A s \in Thread : s # t => call'[s] = call[s]
    BY <2>1, <2>8, NetFacts
  <2>11. NetTypeOK'
    BY <2>10 DEF NetInv, NetTypeOK, IpTaken, Wires
  <2>12. UpdateOK' /\ EntriesOK' /\ Grown
    BY TablesKept
  <2>13. CallOK(t)'
    BY <2>3, <2>6, <2>7, <2>9, <2>10 DEF CallOK
  <2>14. CallsOK'
    BY <2>10, <2>12, <2>13, CallsKept
  <2>15. ArpFramesOK'
    BY DEF NetInv, ArpFramesOK, IpTaken
  <2>16. DueStays /\ ArpStays
    BY <2>10 DEF DueStays, At, ArpStays, IpTaken
  <2>17. PendingCovered'
    BY <2>16, AskedKept, CoveredKept DEF AskedStays
  <2>18. \A p \in Packet : Held(p)' => Held(p) \/ p = skb.pkt
    BY <2>9, <2>10 DEF Held
  <2>19. \A p \in Packet : (OnWire(p)' => OnWire(p)) /\ (Waiting(p)' => Waiting(p))
    BY DEF OnWire, Waiting, IpTaken
  <2>20. QED BY <2>5, <2>6, <2>11, <2>12, <2>14, <2>15, <2>17, <2>18, <2>19
         DEF NetInv, InTransit
<1>3. QED BY <1>1, <1>2

\* A new entry: it has no packets, and if there was an entry, there are two.
LEMMA EntryAddInv ==
  ASSUME NetInv, NEW t \in Thread, EntryAdd(t)
  PROVE  NetInv' /\ InTransit' \subseteq InTransit
<1> DEFINE n == call[t].node
           ip == call[t].target_ip
           new == Len(arp[n][ip]) + 1
           c == [call[t] EXCEPT !.at = "test", !.arp_entry = new]
<1>1. /\ At(t, "add") /\ UNCHANGED <<wire, update, ip_forward_enable, lost>>
      /\ arp' = [arp EXCEPT ![n][ip] = Append(@, NewArpEntry)]
  BY DEF EntryAdd
<1>2. call' = [call EXCEPT ![t] = c]
  BY DEF EntryAdd
<1>3. call[t] \in Call /\ n \in Node /\ ip \in IpAddr /\ call[t] # NULL
  BY <1>1, CallFields DEF At
<1>4. arp \in Tables /\ call \in [Thread -> Call \cup {NULL}]
  BY NetFacts
<1>5. new \in Nat
  BY <1>3, <1>4, TableFacts
<1>6. /\ c \in Call /\ c.at = "test" /\ c.node = n /\ c.target_ip = ip
      /\ c.arp_entry = new /\ c.skb = call[t].skb
  <2> HIDE DEF new
  <2>1. QED BY <1>3, <1>5 DEF Call
<1>7. c # NULL
  BY <1>6, ThreadAssumption
<1>8. OnRoute(n, ip, call[t].skb.oif)
  BY <1>3 DEF NetInv, CallsOK, CallOK
<1> HIDE DEF c
<1>9. /\ call' \in [Thread -> Call \cup {NULL}] /\ call'[t] = c
      /\ \A s \in Thread : s # t => call'[s] = call[s]
  BY <1>2, <1>4, <1>6
<1> HIDE DEF n, ip
<1>10. /\ arp' \in Tables
       /\ Len(arp'[n][ip]) = Len(arp[n][ip]) + 1
       /\ DOMAIN arp'[n][ip] = DOMAIN arp[n][ip] \cup {new}
       /\ new \notin DOMAIN arp[n][ip]
       /\ arp'[n][ip][new] = NewArpEntry
       /\ \A f \in DOMAIN arp[n][ip] : arp'[n][ip][f] = arp[n][ip][f]
       /\ \A m \in Node, a \in IpAddr : m # n \/ a # ip => arp'[m][a] = arp[m][a]
  BY <1>1, <1>3, <1>4, AddEntry
<1> HIDE DEF new
<1>11. /\ Grown
       /\ \A m \in Node, a \in IpAddr : \A e \in DOMAIN arp[m][a] :
            e \in DOMAIN arp'[m][a] /\ arp'[m][a][e] = arp[m][a][e]
       /\ \A m \in Node, a \in IpAddr : \A e \in DOMAIN arp'[m][a] :
            e \in DOMAIN arp[m][a] \/ arp'[m][a][e] = NewArpEntry
  <2>1. \A m \in Node, a \in IpAddr : \A e \in DOMAIN arp[m][a] :
          e \in DOMAIN arp'[m][a] /\ arp'[m][a][e] = arp[m][a][e]
    BY <1>10
  <2>2. \A m \in Node, a \in IpAddr : \A e \in DOMAIN arp'[m][a] :
          e \in DOMAIN arp[m][a] \/ arp'[m][a][e] = NewArpEntry
    BY <1>10
  <2>3. QED BY <2>1, <2>2 DEF Grown
<1>12. ~NewArpEntry.resolved /\ NewArpEntry.pending_pkts = << >> /\ Range(<< >>) = {}
  BY DEF NewArpEntry, Range
<1>13. NetTypeOK'
  BY <1>1, <1>9, <1>10 DEF NetInv, NetTypeOK, Tables
<1>14. CallsOK'
  <2>1. CallOK(t)'
    BY <1>6, <1>8, <1>9, <1>10 DEF CallOK
  <2>2. QED BY <1>9, <1>11, <2>1, CallsKept
<1>15. UpdateOK'
  <2>1. CASE update = NULL
    BY <1>1, <2>1 DEF UpdateOK
  <2>2. CASE update # NULL
    <3>1. /\ update.node \in Node /\ update.ip \in IpAddr
          /\ update.arp_entry \in DOMAIN arp[update.node][update.ip]
      BY <2>2, UpdateFields
    <3>2. update.arp_entry \in DOMAIN arp'[update.node][update.ip]
            /\ UpdatedEntry' = UpdatedEntry
      BY <1>1, <1>11, <3>1 DEF UpdatedEntry
    <3>3. QED BY <1>1, <2>2, <3>2 DEF NetInv, UpdateOK
  <2>3. QED BY <2>1, <2>2
<1>16. ArpFramesOK'
  BY <1>1 DEF NetInv, ArpFramesOK
<1>17. EntriesOK'
  <2>1. ASSUME NEW m \in Node, NEW a \in IpAddr, NEW e \in DOMAIN arp'[m][a]
        PROVE  EntryOK(m, a, e)'
    <3>1. CASE e \in DOMAIN arp[m][a]
      <4>1. EntryOK(m, a, e) /\ arp'[m][a][e] = arp[m][a][e]
        BY <1>11, <3>1 DEF NetInv, EntriesOK
      <4>2. QED BY <1>1, <4>1 DEF EntryOK, Copying, UpdateAt
    <3>2. CASE arp'[m][a][e] = NewArpEntry
      BY <1>12, <3>2 DEF EntryOK
    <3>3. QED BY <1>11, <3>1, <3>2
  <2>2. QED BY <2>1 DEF EntriesOK
<1>18. PendingCovered'
  <2>1. ASSUME lost' = 0, NEW m \in Node, NEW a \in IpAddr, NEW p, Waits(m, a, p)'
        PROVE  Covers(m, a, p)'
    <3>1. m # n \/ a # ip
      <4>1. SUFFICES ASSUME m = n, a = ip PROVE FALSE
        OBVIOUS
      <4>2. Len(arp[n][ip]) + 1 = 1
        BY <1>10, <2>1, <4>1 DEF Waits
      <4>3. new = 1
        BY <4>2 DEF new
      <4>4. arp'[n][ip][1] = NewArpEntry
        BY <1>10, <4>3
      <4>5. p \in DOMAIN << >>
        BY <1>12, <2>1, <4>1, <4>4 DEF Waits
      <4>6. QED BY <4>5
    <3>2. arp'[m][a] = arp[m][a]
      BY SMTT(30), <1>10, <3>1
    <3>3. Waits(m, a, p)
      BY <2>1, <3>2 DEF Waits
    <3>4. Covers(m, a, p)
      BY <1>1, <2>1, <3>3, CoveredNow
    <3> PICK k : k = arp[m][a][1].pending_pkts[p].oif
      OBVIOUS
    <3>5. CASE FlushAhead(m, a, arp[m][a][1].pending_pkts, p)
      BY <1>1, <3>2, <3>5 DEF FlushAhead, Covers
    <3>6. CASE Asked(m, a, k)
      <4>1. DueStays /\ ArpStays
        BY <1>1, <1>9 DEF DueStays, ArpStays, At
      <4>2. k \in Intf
        BY <3>3, WaitsOnRoute
      <4>3. Asked(m, a, k)'
        BY <3>6, <4>1, <4>2, AskedKept
      <4>4. QED BY <3>2, <4>3 DEF Asked, Covers
    <3>7. QED BY <3>4, <3>5, <3>6 DEF Covers, Asked
  <2>2. QED BY <2>1, CoveredNext
<1>19. InTransit' \subseteq InTransit
  <2>1. \A p \in Packet : OnWire(p)' => OnWire(p)
    BY <1>1 DEF OnWire
  <2>2. \A p \in Packet : Waiting(p)' => Waiting(p)
    BY <1>11, <1>12 DEF Waiting
  <2>3. \A p \in Packet : Held(p)' => Held(p)
    BY <1>1, <1>3, <1>6, <1>9 DEF Held, At
  <2>4. QED BY <2>1, <2>2, <2>3 DEF InTransit
<1>20. QED BY <1>13, <1>14, <1>15, <1>16, <1>17, <1>18, <1>19 DEF NetInv

\* The test of resolved decides, and what it saw stays so.
LEMMA TestInv ==
  ASSUME NetInv, NEW t \in Thread, TestResolved(t)
  PROVE  NetInv' /\ InTransit' \subseteq InTransit
<1> DEFINE place == IF EntryOf(t).resolved THEN "output" ELSE "queue"
<1>1. /\ At(t, "test") /\ Goto(t, place)
      /\ UNCHANGED <<arp, wire, update, ip_forward_enable, lost>>
  BY DEF TestResolved
<1>2. call[t] # NULL /\ call[t].at = "test"
  BY <1>1 DEF At
<1>3. place \in {"queue", "output"} /\ (place = "output" => EntryOf(t).resolved)
  OBVIOUS
<1> HIDE DEF place
<1>4. /\ call' \in [Thread -> Call \cup {NULL}]
      /\ call'[t] # NULL /\ call'[t].at = place /\ call'[t].node = call[t].node
      /\ call'[t].target_ip = call[t].target_ip
      /\ call'[t].arp_entry = call[t].arp_entry /\ call'[t].skb = call[t].skb
      /\ \A s \in Thread : s # t => call'[s] = call[s]
  BY <1>1, <1>2, <1>3, GotoType
<1>5. NetTypeOK'
  BY <1>1, <1>4 DEF NetInv, NetTypeOK
<1>6. UpdateOK' /\ EntriesOK' /\ Grown
  BY <1>1, TablesKept
<1>7. CallOK(t)'
  <2>1. CallOK(t)
    BY DEF NetInv, CallsOK
  <2>2. EntryOf(t)' = EntryOf(t)
    BY <1>1, <1>4 DEF EntryOf
  <2>3. QED BY <1>1, <1>2, <1>3, <1>4, <2>1, <2>2 DEF CallOK
<1>8. CallsOK'
  BY <1>4, <1>6, <1>7, CallsKept
<1>9. ArpFramesOK'
  BY <1>1 DEF NetInv, ArpFramesOK
<1>10. DueStays /\ ArpStays
  BY <1>1, <1>2, <1>4 DEF DueStays, ArpStays, At
<1>11. PendingCovered'
  BY <1>1, <1>10, AskedKept, CoveredKept DEF AskedStays
<1>12. InTransit' \subseteq InTransit
  <2>1. \A p \in Packet : Held(p)' => Held(p)
    BY <1>2, <1>4 DEF Held
  <2>2. QED BY <1>1, <2>1 DEF InTransit, OnWire, Waiting
<1>13. QED BY <1>5, <1>6, <1>8, <1>9, <1>11, <1>12 DEF NetInv

\* The entry of an address that has only one.
LEMMA OnlyEntry ==
  ASSUME arp \in Tables, NEW n \in Node, NEW ip \in IpAddr, Len(arp[n][ip]) = 1
  PROVE  1 \in DOMAIN arp[n][ip] /\ \A e \in DOMAIN arp[n][ip] : e = 1
<1>1. DOMAIN arp[n][ip] = 1..1
  BY TableFacts
<1>2. QED BY <1>1

\* One entry gets another queue, or is resolved: entries stay.
LEMMA GrownByOne ==
  ASSUME NEW n \in Node, NEW ip \in IpAddr, NEW e \in DOMAIN arp[n][ip], OneChanged(n, ip, e),
         arp[n][ip][e].resolved => arp'[n][ip][e].resolved
  PROVE  Grown
BY DEF OneChanged, Grown

\* A packet on an entry that stays as it was is covered as it was, provided
\* the flush still has it ahead.
LEMMA OthersCovered ==
  ASSUME NetInv, DueStays, ArpStays, lost = 0, NEW m \in Node, NEW a \in IpAddr,
         Len(arp'[m][a]) = 1 => Len(arp[m][a]) = 1 /\ arp'[m][a][1] = arp[m][a][1],
         NEW p, Waits(m, a, p)',
         FlushAhead(m, a, arp[m][a][1].pending_pkts, p)
           => FlushAhead(m, a, arp[m][a][1].pending_pkts, p)'
  PROVE  Covers(m, a, p)'
<1>1. Len(arp[m][a]) = 1 /\ arp'[m][a][1] = arp[m][a][1]
  BY SMTT(30) DEF Waits
<1>2. Waits(m, a, p)
  BY <1>1 DEF Waits
<1>3. Covers(m, a, p)
  BY <1>2, CoveredNow
<1>4. PICK k : k = arp[m][a][1].pending_pkts[p].oif
  OBVIOUS
<1>5. PICK q : q = arp[m][a][1].pending_pkts
  OBVIOUS
<1>6. CASE FlushAhead(m, a, q, p)
  <2>1. FlushAhead(m, a, q, p)'
    BY <1>1, <1>5, <1>6 DEF FlushAhead
  <2>2. QED BY <1>1, <1>5, <2>1 DEF Covers
<1>7. CASE Asked(m, a, k)
  <2>1. k \in Intf
    BY <1>2, <1>4, WaitsOnRoute
  <2>2. Asked(m, a, k)'
    BY <1>7, <2>1, AskedKept
  <2>3. QED BY <1>1, <1>4, <2>2 DEF Covers, Asked
<1>8. QED BY <1>3, <1>4, <1>5, <1>6, <1>7 DEF Covers, Asked

\* list_add: the packet in front is covered by the request that is due, and
\* those behind it as before, one place further.
LEMMA QueueInv ==
  ASSUME NetInv, NEW t \in Thread, QueuePacket(t)
  PROVE  NetInv' /\ InTransit' \subseteq InTransit
<1>a. PICK n, ip, e, skb : /\ n = call[t].node /\ ip = call[t].target_ip
                           /\ e = call[t].arp_entry /\ skb = call[t].skb
  OBVIOUS
<1>b. PICK x : x = arp[n][ip][e]
  OBVIOUS
<1>c. PICK y : y = Enqueue(x, skb)
  OBVIOUS
<1>1. /\ call[t] # NULL /\ call[t].at = "queue" /\ Goto(t, "request")
      /\ UNCHANGED <<wire, update, ip_forward_enable, lost>>
      /\ arp' = [arp EXCEPT ![n][ip][e] = y]
  BY <1>a, <1>b, <1>c DEF QueuePacket, At, EntryOf
<1>2. /\ n \in Node /\ ip \in IpAddr /\ skb \in Pending /\ skb.oif \in Intf
  BY <1>1, <1>a, CallFields
<1>3. OnRoute(n, ip, skb.oif) /\ e \in DOMAIN arp[n][ip]
  BY <1>1, <1>a DEF NetInv, CallsOK, CallOK
<1>4. arp \in Tables
  BY NetFacts
<1>5. /\ x \in ArpEntry /\ x.pending_pkts \in Seq(Pending)
      /\ e \in 1..Len(arp[n][ip]) /\ Len(arp[n][ip]) \in Nat
  BY <1>2, <1>3, <1>4, <1>b, EntryFacts
<1>d. PICK q : q = x.pending_pkts
  OBVIOUS
<1>e. PICK r : r = <<skb>> \o q
  OBVIOUS
<1>6. /\ r \in Seq(Pending) /\ Range(r) = Range(q) \cup {skb}
  BY <1>2, <1>5, <1>d, <1>e, PrependRange
<1>7. /\ Len(q) \in Nat /\ Len(r) = Len(q) + 1
      /\ DOMAIN q = 1..Len(q) /\ DOMAIN r = 1..(Len(q) + 1) /\ r[1] = skb
      /\ \A p \in 2..(Len(q) + 1) : r[p] = q[p - 1]
  BY <1>2, <1>5, <1>d, <1>e, PrependAt
<1>9. /\ y \in ArpEntry /\ y.pending_pkts = r /\ y.resolved = x.resolved /\ y.mac = x.mac
  <2>1. y = [x EXCEPT !.pending_pkts = r]
    BY <1>c, <1>d, <1>e DEF Enqueue
  <2>2. QED BY <1>5, <1>6, <2>1 DEF ArpEntry
<1>10. arp' \in Tables /\ arp'[n][ip][e] = y /\ OneChanged(n, ip, e)
  BY <1>1, <1>2, <1>3, <1>4, <1>9, SetEntry
<1>11. Grown
  BY <1>2, <1>3, <1>9, <1>10, <1>b, GrownByOne
<1>12. /\ call' \in [Thread -> Call \cup {NULL}]
       /\ call'[t] # NULL /\ call'[t].at = "request" /\ call'[t].node = n
       /\ call'[t].target_ip = ip /\ call'[t].arp_entry = e /\ call'[t].skb = skb
       /\ \A s \in Thread : s # t => call'[s] = call[s]
  <2>1. /\ call' \in [Thread -> Call \cup {NULL}]
        /\ call'[t] # NULL /\ call'[t].at = "request" /\ call'[t].node = call[t].node
        /\ call'[t].target_ip = call[t].target_ip
        /\ call'[t].arp_entry = call[t].arp_entry /\ call'[t].skb = call[t].skb
        /\ \A s \in Thread : s # t => call'[s] = call[s]
    BY <1>1, GotoType
  <2>2. QED BY <2>1, <1>a
<1>13. NetTypeOK'
  BY <1>1, <1>10, <1>12 DEF NetInv, NetTypeOK, Tables
<1>14. CallsOK'
  <2>1. CallOK(t)'
    BY <1>2, <1>3, <1>10, <1>12 DEF CallOK, OneChanged
  <2>2. QED BY <1>11, <1>12, <2>1, CallsKept
<1>15. UpdateOK'
  <2>1. CASE update = NULL
    BY <1>1, <2>1 DEF UpdateOK
  <2>2. CASE update # NULL
    <3>1. /\ update.node \in Node /\ update.ip \in IpAddr
          /\ update.arp_entry \in DOMAIN arp[update.node][update.ip]
      BY <2>2, UpdateFields
    <3>2. update.arp_entry \in DOMAIN arp'[update.node][update.ip]
      BY <1>10, <3>1 DEF OneChanged
    <3>3. CASE update.node # n \/ update.ip # ip \/ update.arp_entry # e
      <4>1. UpdatedEntry' = UpdatedEntry
        BY <1>1, <1>10, <3>1, <3>3 DEF UpdatedEntry, OneChanged
      <4>2. QED BY <1>1, <2>2, <3>2, <4>1 DEF NetInv, UpdateOK
    <3>4. CASE update.node = n /\ update.ip = ip /\ update.arp_entry = e
      <4>1. UpdatedEntry' = y /\ UpdatedEntry = x
        BY <1>1, <1>10, <1>b, <3>4 DEF UpdatedEntry
      <4>2. update.at = "flush" => update.left \in 1..Len(q)
        BY <2>2, <4>1, <1>d DEF NetInv, UpdateOK
      <4>3. update.at = "flush" => update.left \in 1..Len(r)
        BY <1>7, <4>2
      <4>4. QED BY <1>1, <1>9, <2>2, <3>2, <4>1, <4>3 DEF NetInv, UpdateOK
    <3>5. QED BY <3>3, <3>4
  <2>3. QED BY <2>1, <2>2
<1>16. ArpFramesOK'
  BY <1>1 DEF NetInv, ArpFramesOK
<1>17. EntriesOK'
  <2>1. ASSUME NEW m \in Node, NEW a \in IpAddr, NEW f \in DOMAIN arp'[m][a]
        PROVE  EntryOK(m, a, f)'
    <3>1. f \in DOMAIN arp[m][a]
      BY <1>10 DEF OneChanged
    <3>2. EntryOK(m, a, f)
      BY <3>1 DEF NetInv, EntriesOK
    <3>3. CASE m # n \/ a # ip \/ f # e
      <4>1. arp'[m][a][f] = arp[m][a][f]
        BY <1>10, <3>1, <3>3 DEF OneChanged
      <4>2. QED BY <1>1, <3>2, <4>1 DEF EntryOK, Copying, UpdateAt
    <3>4. CASE m = n /\ a = ip /\ f = e
      <4>1. \A s \in Range(r) : OnRoute(n, ip, s.oif)
        BY <1>3, <1>6, <1>b, <1>d, <3>2, <3>4 DEF EntryOK
      <4>2. QED BY <1>1, <1>9, <1>10, <1>b, <3>2, <3>4, <4>1 DEF EntryOK, Copying, UpdateAt
    <3>5. QED BY <3>3, <3>4
  <2>2. QED BY <2>1 DEF EntriesOK
<1>18. DueStays /\ ArpStays
  BY <1>1, <1>12 DEF DueStays, ArpStays, At
<1>19. PendingCovered'
  <2>1. ASSUME lost' = 0, NEW m \in Node, NEW a \in IpAddr, NEW p, Waits(m, a, p)'
        PROVE  Covers(m, a, p)'
    <3>1. Len(arp[m][a]) = 1 /\ Len(arp'[m][a]) = 1 /\ lost = 0
      BY <1>1, <1>10, <2>1 DEF Waits, OneChanged
    <3>2. 1 \in DOMAIN arp[m][a]
      BY <1>4, <3>1, OnlyEntry
    <3>3. CASE m # n \/ a # ip
      <4>1. arp'[m][a][1] = arp[m][a][1]
        BY <1>10, <3>2, <3>3 DEF OneChanged
      <4>2. FlushAhead(m, a, arp[m][a][1].pending_pkts, p)
              => FlushAhead(m, a, arp[m][a][1].pending_pkts, p)'
        BY <1>1, <4>1 DEF FlushAhead
      <4>3. QED BY <1>18, <2>1, <3>1, <4>1, <4>2, OthersCovered
    <3>4. CASE m = n /\ a = ip
      <4>1. e = 1
        BY <1>2, <1>3, <1>4, <3>1, <3>4, OnlyEntry
      <4>2. arp'[n][ip][1].pending_pkts = r /\ arp[n][ip][1].pending_pkts = q
        BY <1>9, <1>10, <1>b, <1>d, <4>1
      <4>3. p \in DOMAIN r
        BY <2>1, <3>4, <4>2 DEF Waits
      <4>4. CASE p = 1
        <5>1. RequestDue(n, ip, skb.oif)'
          BY <1>12 DEF RequestDue, At
        <5>2. r[p] = skb
          BY <1>7, <4>4
        <5>3. QED BY <3>4, <4>2, <5>1, <5>2 DEF Covers
      <4>5. CASE p # 1
        <5>1. p \in 2..(Len(q) + 1) /\ p - 1 \in DOMAIN q
          BY <1>7, <4>3, <4>5
        <5>2. r[p] = q[p - 1]
          BY <1>7, <5>1
        <5>3. Waits(n, ip, p - 1)
          BY <2>1, <3>1, <3>4, <4>2, <5>1, <5>2 DEF Waits
        <5>4. Covers(n, ip, p - 1)
          BY <1>2, <3>1, <5>3, CoveredNow
        <5>5. PICK k : k = q[p - 1].oif
          OBVIOUS
        <5>6. CASE FlushAhead(n, ip, q, p - 1)
          <6>1. update.at = "flush" => p - 1 > Len(q) - update.left
            BY <5>6 DEF FlushAhead
          <6>2. update # NULL /\ update.left \in Nat
            BY <5>6, UpdateFields DEF FlushAhead
          <6>3. update.at = "flush" => p > Len(r) - update.left
            BY <1>7, <5>1, <6>1, <6>2
          <6>4. FlushAhead(n, ip, r, p)'
            BY <1>1, <5>6, <6>3 DEF FlushAhead
          <6>5. QED BY <3>4, <4>2, <6>4 DEF Covers
        <5>7. CASE Asked(n, ip, k)
          <6>1. k \in Intf
            BY <1>2, <4>2, <5>3, <5>5, WaitsOnRoute
          <6>2. Asked(n, ip, k)'
            BY <1>18, <5>7, <6>1, AskedKept
          <6>3. QED BY <3>4, <4>2, <5>2, <5>5, <6>2 DEF Covers, Asked
        <5>8. QED BY <4>2, <5>4, <5>5, <5>6, <5>7 DEF Covers, Asked
      <4>6. QED BY <4>4, <4>5
    <3>5. QED BY SMTT(30), <3>3, <3>4
  <2>2. QED BY <2>1, CoveredNext
<1>20. InTransit' \subseteq InTransit
  <2>1. \A p \in Packet : OnWire(p)' => OnWire(p)
    BY <1>1 DEF OnWire
  <2>2. \A p \in Packet : Held(p)' => Held(p)
    BY <1>12 DEF Held
  <2>3. Held(skb.pkt)
    BY <1>1, <1>a DEF Held
  <2>4. ASSUME NEW p \in Packet, Waiting(p)' PROVE Waiting(p) \/ p = skb.pkt
    <3>1. PICK m \in Node, a \in IpAddr : \E f \in DOMAIN arp'[m][a] :
            \E s \in Range(arp'[m][a][f].pending_pkts) : s.pkt = p
      BY <2>4 DEF Waiting
    <3>2. PICK f \in DOMAIN arp'[m][a] :
            \E s \in Range(arp'[m][a][f].pending_pkts) : s.pkt = p
      BY <3>1
    <3>3. f \in DOMAIN arp[m][a]
      BY <1>10 DEF OneChanged
    <3>4. CASE m # n \/ a # ip \/ f # e
      <4>1. arp'[m][a][f] = arp[m][a][f]
        BY <1>10, <3>3, <3>4 DEF OneChanged
      <4>2. QED BY <3>2, <3>3, <4>1 DEF Waiting
    <3>5. CASE m = n /\ a = ip /\ f = e
      <4>1. \E s \in Range(q) \cup {skb} : s.pkt = p
        BY <1>6, <1>9, <1>10, <3>2, <3>5
      <4>2. QED BY <1>2, <1>3, <1>b, <1>d, <4>1 DEF Waiting
    <3>6. QED BY <3>4, <3>5
  <2>5. QED BY <2>1, <2>2, <2>3, <2>4 DEF InTransit
<1>21. QED BY <1>13, <1>14, <1>15, <1>16, <1>17, <1>19, <1>20 DEF NetInv

\* The request that was due is under way.
LEMMA SendRequestInv ==
  ASSUME NetInv, NEW t \in Thread, SendRequest(t)
  PROVE  NetInv' /\ InTransit' \subseteq InTransit
<1>a. PICK n, ip, k : n = call[t].node /\ ip = call[t].target_ip /\ k = call[t].skb.oif
  OBVIOUS
<1> DEFINE req == ArpRequest(k, ip)
<1>1. /\ call[t] # NULL /\ Return(t) /\ UNCHANGED <<arp, update, ip_forward_enable, lost>>
      /\ wire' = SendPktOut(wire, k, req)
  BY <1>a DEF SendRequest, At
<1>2. n \in Node /\ ip \in IpAddr /\ k \in Intf /\ OnRoute(n, ip, k)
  BY <1>1, <1>a, CallFields DEF NetInv, CallsOK, CallOK
<1>3. /\ req \in Frame /\ req.type = "ARP" /\ req.sender_hw_addr = IfMac[k]
      /\ req.sender_proto_addr = IfIp[k]
  BY <1>2, RequestFrame DEF ArpRequest
<1> HIDE DEF req
<1>4. /\ wire' \in Wires /\ Nbr[k] \in Intf
      /\ req \in Range(wire'[Nbr[k]])
      /\ \A j \in Intf : Range(wire[j]) \subseteq Range(wire'[j])
      /\ \A j \in Intf : \A f \in Range(wire'[j]) :
           f \in Range(wire[j]) \/ (f = req /\ j = Nbr[k])
  BY <1>1, <1>2, <1>3, Sent
<1>5. /\ call' \in [Thread -> Call \cup {NULL}] /\ call'[t] = NULL
      /\ \A s \in Thread : s # t => call'[s] = call[s]
  BY <1>1, ReturnType
<1>6. NetTypeOK'
  BY <1>1, <1>4, <1>5 DEF NetInv, NetTypeOK, Wires
<1>7. UpdateOK' /\ EntriesOK' /\ Grown
  BY <1>1, TablesKept
<1>8. CallsOK'
  <2>1. CallOK(t)'
    BY <1>5 DEF CallOK
  <2>2. QED BY <1>5, <1>7, <2>1, CallsKept
<1>9. ArpFramesOK'
  <2>1. Nbr[Nbr[k]] = k /\ IfIp[k] # 0
    BY <1>2, TopologyAssumption, RouteFacts
  <2>2. QED BY <1>3, <1>4, <2>1 DEF NetInv, ArpFramesOK
<1>10. AskedStays
  <2>1. ASSUME NEW m \in Node, NEW a \in IpAddr, NEW j \in Intf, RequestUnderWay(j, a)
        PROVE  RequestUnderWay(j, a)'
    BY <1>4, <2>1, UnderWayKept DEF ArpStays
  <2>2. ASSUME NEW m \in Node, NEW a \in IpAddr, NEW j \in Intf, RequestDue(m, a, j)
        PROVE  RequestDue(m, a, j)' \/ RequestUnderWay(j, a)'
    <3>1. PICK s \in Thread : DueIn(s, m, a, j)
      BY <2>2, DueDef
    <3>2. CASE s = t
      <4>1. a = ip /\ j = k
        BY <1>a, <3>1, <3>2 DEF DueIn
      <4>2. QED BY <1>4, <4>1 DEF RequestUnderWay, InFlight, req
    <3>3. CASE s # t
      <4>1. call'[s] = call[s]
        BY <1>5, <3>3
      <4>2. QED BY <3>1, <4>1 DEF DueIn, RequestDue, At
    <3>4. QED BY <3>2, <3>3
  <2>3. QED BY <2>1, <2>2 DEF AskedStays, Asked
<1>11. PendingCovered'
  BY <1>1, <1>10, CoveredKept
<1>12. InTransit' \subseteq InTransit
  <2>1. \A p \in Packet : OnWire(p)' => OnWire(p)
    BY <1>3, <1>4 DEF OnWire
  <2>2. \A p \in Packet : Held(p)' => Held(p)
    BY <1>5 DEF Held
  <2>3. QED BY <1>1, <2>1, <2>2 DEF InTransit, Waiting
<1>13. QED BY <1>6, <1>7, <1>8, <1>9, <1>11, <1>12 DEF NetInv

\* The packet that the thread held is on the wire.
LEMMA OutputInv ==
  ASSUME NetInv, NEW t \in Thread, Output(t)
  PROVE  NetInv' /\ InTransit' \subseteq InTransit
<1>a. PICK n, ip, e, skb : /\ n = call[t].node /\ ip = call[t].target_ip
                           /\ e = call[t].arp_entry /\ skb = call[t].skb
  OBVIOUS
<1> DEFINE frame == IpPktFrame(arp[n][ip][e].mac, skb.pkt)
<1>1. /\ call[t] # NULL /\ call[t].at = "output" /\ Return(t)
      /\ UNCHANGED <<arp, update, ip_forward_enable, lost>>
      /\ wire' = SendPktOut(wire, skb.oif, frame)
  BY <1>a, SMTT(30) DEF Output, At, EntryOf
<1>2. /\ n \in Node /\ ip \in IpAddr /\ skb.oif \in Intf /\ skb.pkt \in Packet
      /\ e \in DOMAIN arp[n][ip]
  BY <1>1, <1>a, CallFields DEF NetInv, CallsOK, CallOK
<1>3. frame \in Frame /\ frame.type = "IP" /\ frame.pkt = skb.pkt
  <2>1. arp[n][ip][e].mac \in MacAddr \cup {ZeroMac}
    BY <1>2, NetFacts, EntryFacts DEF ArpEntry
  <2>2. QED BY <1>2, <2>1, PktFrame DEF IpPktFrame
<1> HIDE DEF frame
<1>4. /\ wire' \in Wires /\ Nbr[skb.oif] \in Intf
      /\ \A j \in Intf : Range(wire[j]) \subseteq Range(wire'[j])
      /\ \A j \in Intf : \A f \in Range(wire'[j]) :
           f \in Range(wire[j]) \/ (f = frame /\ j = Nbr[skb.oif])
  BY <1>1, <1>2, <1>3, Sent
<1>5. /\ call' \in [Thread -> Call \cup {NULL}] /\ call'[t] = NULL
      /\ \A s \in Thread : s # t => call'[s] = call[s]
  BY <1>1, ReturnType
<1>6. NetTypeOK'
  BY <1>1, <1>4, <1>5 DEF NetInv, NetTypeOK, Wires
<1>7. UpdateOK' /\ EntriesOK' /\ Grown
  BY <1>1, TablesKept
<1>8. CallsOK'
  <2>1. CallOK(t)'
    BY <1>5 DEF CallOK
  <2>2. QED BY <1>5, <1>7, <2>1, CallsKept
<1>9. ArpFramesOK'
  BY <1>3, <1>4 DEF NetInv, ArpFramesOK
<1>10. DueStays /\ ArpStays
  BY <1>1, <1>4, <1>5 DEF DueStays, ArpStays, At
<1>11. PendingCovered'
  BY <1>1, <1>10, AskedKept, CoveredKept DEF AskedStays
<1>12. InTransit' \subseteq InTransit
  <2>1. Held(skb.pkt)
    BY <1>1, <1>a DEF Held
  <2>2. \A p \in Packet : OnWire(p)' => OnWire(p) \/ p = skb.pkt
    BY <1>3, <1>4 DEF OnWire
  <2>3. \A p \in Packet : Held(p)' => Held(p)
    BY <1>5 DEF Held
  <2>4. QED BY <1>1, <2>1, <2>2, <2>3 DEF InTransit, Waiting
<1>13. QED BY <1>6, <1>7, <1>8, <1>9, <1>11, <1>12 DEF NetInv

\* A step of ip_postroute.
LEMMA PostrouteStepInv ==
  ASSUME NetInv, NEW t \in Thread, PostrouteStep(t)
  PROVE  NetInv' /\ InTransit' \subseteq InTransit
BY EntryAddInv, TestInv, QueueInv, SendRequestInv, OutputInv DEF PostrouteStep

-----------------------------------------------------------------------------
(* Receiving and losing frames. *)

\* When a frame is taken, a request stays under way unless the frame is that
\* request or its reply.
LEMMA StillUnderWay ==
  ASSUME NetInv, NEW i \in Intf, wire[i] # << >>,
         \A j \in Intf : Range(RecvBytes(i)[j]) \subseteq Range(wire'[j]),
         NEW ip, NEW k \in Intf, RequestUnderWay(k, ip)
  PROVE  \/ RequestUnderWay(k, ip)'
         \/ i = Nbr[k] /\ Head(wire[i]) = ArpRequest(k, ip)
         \/ i = k /\ Head(wire[i]) = ArpReply(Nbr[k], ArpRequest(k, ip))
<1>1. wire \in Wires /\ Nbr[k] \in Intf
  BY NetFacts, TopologyAssumption
<1>2. \A j \in Intf : \A f \in Range(wire[j]) :
        f \in Range(wire'[j]) \/ (j = i /\ f = Head(wire[i]))
  BY <1>1, TakeWire
<1>3. QED BY <1>1, <1>2 DEF RequestUnderWay, InFlight

\* What does not depend on which frame was taken out of a socket.
LEMMA TakeInv ==
  ASSUME NetInv, NEW i \in Intf, wire[i] # << >>, wire' = RecvBytes(i),
         UNCHANGED <<arp, call, ip_forward_enable>>
  PROVE  /\ wire' \in Wires
         /\ \A j \in Intf : Range(wire'[j]) \subseteq Range(wire[j])
         /\ Grown /\ CallsOK' /\ ArpFramesOK' /\ InTransit' \subseteq InTransit
<1>1. wire \in Wires
  BY NetFacts
<1>2. /\ wire' \in Wires
      /\ \A j \in Intf : Range(wire'[j]) \subseteq Range(wire[j])
  BY <1>1, TakeWire
<1>3. Grown /\ CallsOK'
  BY DEF NetInv, Grown, CallsOK, CallOK, EntryOf
<1>4. ArpFramesOK'
  BY <1>2 DEF NetInv, ArpFramesOK
<1>5. InTransit' \subseteq InTransit
  BY <1>2 DEF InTransit, OnWire, Waiting, Held
<1>6. QED BY <1>2, <1>3, <1>4, <1>5

\* A frame that the operating system discards disturbs only the promise that
\* packets are covered, which is made for runs without loss.
LEMMA LoseInv ==
  ASSUME NetInv, NEW i \in Intf, LoseFrame(i)
  PROVE  NetInv' /\ InTransit' \subseteq InTransit
<1>1. /\ wire[i] # << >> /\ wire' = RecvBytes(i)
      /\ UNCHANGED <<arp, call, update, ip_forward_enable>>
  BY DEF LoseFrame
<1>2. lost' \in 0..MaxLoss /\ lost' # 0
  BY NetFacts, TtlAssumption DEF LoseFrame
<1>3. /\ wire' \in Wires /\ CallsOK' /\ ArpFramesOK' /\ InTransit' \subseteq InTransit
  BY <1>1, TakeInv
<1>4. NetTypeOK'
  BY <1>1, <1>2, <1>3 DEF NetInv, NetTypeOK, Wires
<1>5. UpdateOK' /\ EntriesOK'
  BY SMTT(30), <1>1, TablesKept
<1>6. PendingCovered'
  BY <1>2 DEF PendingCovered
<1>7. QED BY <1>3, <1>4, <1>5, <1>6 DEF NetInv

\* A frame that is refused was not the request or the reply that covers a
\* packet: those are addressed to the interface they are sent to.
LEMMA RefusedInv ==
  ASSUME NetInv, NEW i \in Intf, RecvRefused(i)
  PROVE  NetInv' /\ InTransit' \subseteq InTransit
<1>1. /\ wire[i] # << >> /\ wire' = RecvBytes(i)
      /\ UNCHANGED <<arp, call, update, ip_forward_enable, lost>>
  BY DEF RecvRefused, Readable
<1>2. /\ wire' \in Wires /\ CallsOK' /\ ArpFramesOK' /\ InTransit' \subseteq InTransit
  BY <1>1, TakeInv
<1>3. NetTypeOK'
  BY <1>1, <1>2 DEF NetInv, NetTypeOK, Wires
<1>4. UpdateOK' /\ EntriesOK'
  BY <1>1, TablesKept
<1>5. AskedStays
  <2>1. ASSUME NEW n \in Node, NEW ip \in IpAddr, NEW k \in Intf, OnRoute(n, ip, k),
               IfIp[Nbr[k]] # 0, RequestUnderWay(k, ip)
        PROVE  RequestUnderWay(k, ip)'
    <3>1. ~(i = Nbr[k] /\ Head(wire[i]) = ArpRequest(k, ip))
      BY <2>1 DEF RecvRefused, EthernetInputQualify, IsIntfL3Mode, ArpRequest
    <3>2. ~(i = k /\ Head(wire[i]) = ArpReply(Nbr[k], ArpRequest(k, ip)))
      BY <2>1, RouteFacts DEF RecvRefused, EthernetInputQualify, IsIntfL3Mode,
                              ArpReply, ArpRequest
    <3>3. QED BY <1>1, <2>1, <3>1, <3>2, StillUnderWay
  <2>2. DueStays
    BY <1>1 DEF DueStays
  <2>3. QED BY <2>1, <2>2, DueKept DEF AskedStays, Asked
<1>6. PendingCovered'
  BY <1>1, <1>5, CoveredKept
<1>7. QED BY <1>2, <1>3, <1>4, <1>6 DEF NetInv

\* The owner of the address puts its reply in the place of the request.
LEMMA ArpRequestInv ==
  ASSUME NetInv, NEW i \in Intf, RecvArpRequest(i)
  PROVE  NetInv' /\ InTransit' \subseteq InTransit
<1> DEFINE head == Head(wire[i])
           rep == ArpReply(i, head)
<1>1. /\ wire[i] # << >> /\ IfIp[i] # 0
      /\ head.type = "ARP" /\ head.opcode = "REQUEST"
      /\ UNCHANGED <<arp, call, update, ip_forward_enable, lost>>
  BY DEF RecvArpRequest, Readable, EthernetInputQualify, IsIntfL3Mode
<1>2. wire \in Wires
  BY NetFacts
<1>3. DueStays
  BY <1>1 DEF DueStays
<1>4. UpdateOK' /\ EntriesOK' /\ Grown
  BY <1>1, TablesKept
<1>5. CASE head.target_proto_addr # IfIp[i]
  <2>1. wire' = RecvBytes(i)
    BY <1>5 DEF RecvArpRequest
  <2>2. /\ wire' \in Wires /\ CallsOK' /\ ArpFramesOK' /\ InTransit' \subseteq InTransit
    BY <1>1, <2>1, TakeInv
  <2>3. NetTypeOK'
    BY <1>1, <2>2 DEF NetInv, NetTypeOK, Wires
  <2>4. ASSUME NEW n \in Node, NEW ip \in IpAddr, NEW k \in Intf, IfIp[Nbr[k]] = ip,
               RequestUnderWay(k, ip)
        PROVE  RequestUnderWay(k, ip)'
    <3>1. ~(i = Nbr[k] /\ head = ArpRequest(k, ip))
      BY <1>5, <2>4 DEF ArpRequest
    <3>2. ~(i = k /\ head = ArpReply(Nbr[k], ArpRequest(k, ip)))
      BY <1>1 DEF ArpReply
    <3>3. QED BY <1>1, <2>1, <2>4, <3>1, <3>2, StillUnderWay
  <2>5. PendingCovered'
    BY <1>1, <1>3, <2>4, DueKept, CoveredKept DEF AskedStays, Asked
  <2>6. QED BY <1>4, <2>2, <2>3, <2>5 DEF NetInv
<1>6. CASE head.target_proto_addr = IfIp[i]
  <2>1. wire' = SendPktOut(RecvBytes(i), i, rep)
    BY <1>6 DEF RecvArpRequest
  <2>2. /\ head \in Frame /\ RecvBytes(i) \in Wires
        /\ \A j \in Intf : Range(RecvBytes(i)[j]) \subseteq Range(wire[j])
    BY <1>1, <1>2, TakeWire
  <2>3. /\ rep \in Frame /\ rep.type = "ARP" /\ rep.sender_hw_addr = IfMac[i]
        /\ rep.sender_proto_addr = IfIp[i]
    BY <1>1, <2>2, ReplyFrame DEF ArpReply
  <2>4. Nbr[i] \in Intf /\ Nbr[Nbr[i]] = i
    BY TopologyAssumption
  <2>5. /\ wire' \in Wires
        /\ Range(wire'[Nbr[i]]) = Range(RecvBytes(i)[Nbr[i]]) \cup {rep}
        /\ \A j \in Intf : j # Nbr[i] => wire'[j] = RecvBytes(i)[j]
    <3> HIDE DEF rep
    <3>1. /\ SendPktOut(RecvBytes(i), i, rep) \in Wires
          /\ Range(SendPktOut(RecvBytes(i), i, rep)[Nbr[i]])
               = Range(RecvBytes(i)[Nbr[i]]) \cup {rep}
          /\ \A j \in Intf : j # Nbr[i] =>
               SendPktOut(RecvBytes(i), i, rep)[j] = RecvBytes(i)[j]
      BY <2>2, <2>3, SendWire
    <3>2. QED BY <2>1, <3>1, Zenon
  <2> HIDE DEF rep
  <2>6. \A j \in Intf : \A f \in Range(wire'[j]) :
          f \in Range(wire[j]) \/ (f = rep /\ j = Nbr[i])
    BY <2>2, <2>5
  <2>7. \A j \in Intf : Range(RecvBytes(i)[j]) \subseteq Range(wire'[j])
    BY <2>5
  <2>8. NetTypeOK'
    BY <1>1, <2>5 DEF NetInv, NetTypeOK, Wires
  <2>9. CallsOK'
    BY <1>1 DEF NetInv, CallsOK, CallOK, EntryOf
  <2>10. ArpFramesOK'
    BY <1>1, <2>3, <2>4, <2>6 DEF NetInv, ArpFramesOK
  <2>11. ASSUME NEW n \in Node, NEW ip \in IpAddr, NEW k \in Intf, RequestUnderWay(k, ip)
         PROVE  RequestUnderWay(k, ip)'
    <3>1. CASE i = Nbr[k] /\ head = ArpRequest(k, ip)
      <4>1. rep = ArpReply(Nbr[k], ArpRequest(k, ip))
        BY <3>1 DEF rep
      <4>2. k = Nbr[i]
        BY <3>1, TopologyAssumption
      <4>3. rep \in Range(wire'[k])
        BY <2>5, <4>2
      <4>4. QED BY <4>1, <4>3 DEF RequestUnderWay, InFlight
    <3>2. ~(i = k /\ head = ArpReply(Nbr[k], ArpRequest(k, ip)))
      BY <1>1 DEF ArpReply
    <3>3. \/ RequestUnderWay(k, ip)'
          \/ i = Nbr[k] /\ Head(wire[i]) = ArpRequest(k, ip)
          \/ i = k /\ Head(wire[i]) = ArpReply(Nbr[k], ArpRequest(k, ip))
      BY <1>1, <2>7, <2>11, StillUnderWay
    <3>4. QED BY <3>1, <3>2, <3>3
  <2>12. PendingCovered'
    BY <1>1, <1>3, <2>11, DueKept, CoveredKept DEF AskedStays, Asked
  <2>13. InTransit' \subseteq InTransit
    BY <1>1, <2>3, <2>6 DEF InTransit, OnWire, Waiting, Held
  <2>14. QED BY <1>4, <2>8, <2>9, <2>10, <2>12, <2>13 DEF NetInv
<1>7. QED BY <1>5, <1>6

\* A reply starts the update of the entry that the packets it covered wait on.
LEMMA ArpReplyInv ==
  ASSUME NetInv, NEW i \in Intf, RecvArpReply(i)
  PROVE  NetInv' /\ InTransit' \subseteq InTransit
<1> DEFINE head == Head(wire[i])
           n == NodeOf[i]
           ip == head.sender_proto_addr
           hw == head.sender_hw_addr
           found == ArpTableLookup(n, ip)
           u == [at |-> "resolve", node |-> n, ip |-> ip, arp_entry |-> found,
                 hw_addr |-> hw, left |-> 0]
<1>1. /\ wire[i] # << >> /\ update = NULL
      /\ head.type = "ARP" /\ head.opcode = "REPLY"
      /\ wire' = RecvBytes(i)
      /\ UNCHANGED <<arp, call, ip_forward_enable, lost>>
  BY DEF RecvArpReply, Readable
<1>2. update' = IF found = 0 THEN NULL ELSE u
  BY DEF RecvArpReply
<1>3. /\ wire' \in Wires /\ CallsOK' /\ ArpFramesOK' /\ InTransit' \subseteq InTransit
  BY <1>1, TakeInv
<1>4. head \in Frame /\ head \in Range(wire[i])
  BY <1>1, NetFacts, TakeWire
<1>5. n \in Node /\ ip \in IpAddr /\ hw \in MacAddr
  <2>1. head \in ArpFrame
    BY <1>1, <1>4, FrameKinds
  <2>2. QED BY <2>1, TopologyAssumption DEF ArpFrame
<1>6. hw = IfMac[Nbr[i]] /\ ip = IfIp[Nbr[i]] /\ ip # 0
  BY <1>1, <1>4 DEF NetInv, ArpFramesOK
<1>7. Nbr[i] \in Intf /\ Nbr[Nbr[i]] = i
  BY TopologyAssumption
<1>8. found \in Nat /\ found = Len(arp[n][ip]) /\ (found # 0 => found \in DOMAIN arp[n][ip])
  BY <1>5, NetFacts, TableFacts DEF ArpTableLookup
<1>9. Neighbour(n, ip, hw)
  BY <1>6, <1>7 DEF Neighbour
<1> HIDE DEF head, n, ip, hw, found
<1>10. /\ u \in Update /\ u.at = "resolve" /\ u.node = n /\ u.ip = ip
       /\ u.arp_entry = found /\ u.hw_addr = hw
  BY <1>5, <1>8 DEF Update
<1>11. u # NULL
  BY <1>10, ThreadAssumption
<1> HIDE DEF u
<1>12. NetTypeOK'
  <2>1. update' \in Update \cup {NULL}
    BY <1>2, <1>10
  <2>2. QED BY <1>1, <1>3, <2>1 DEF NetInv, NetTypeOK, Wires
<1>13. UpdateOK'
  BY <1>1, <1>2, <1>8, <1>9, <1>10 DEF UpdateOK
<1>14. EntriesOK'
  <2>1. ASSUME NEW m \in Node, NEW a \in IpAddr, NEW f \in DOMAIN arp[m][a]
        PROVE  EntryOK(m, a, f)'
    <3>1. EntryOK(m, a, f) /\ ~Copying(m, a, f)
      BY <1>1 DEF NetInv, EntriesOK, Copying, UpdateAt
    <3>2. QED BY <1>1, <3>1 DEF EntryOK
  <2>2. QED BY <1>1, <2>1 DEF EntriesOK
<1>15. PendingCovered'
  <2>1. ASSUME lost' = 0, NEW m \in Node, NEW a \in IpAddr, NEW p, Waits(m, a, p)'
        PROVE  Covers(m, a, p)'
    <3>1. Waits(m, a, p) /\ lost = 0
      BY <1>1, <2>1 DEF Waits
    <3>2. PICK k : k = arp[m][a][1].pending_pkts[p].oif
      OBVIOUS
    <3>3. k \in Intf /\ OnRoute(m, a, k)
      BY <3>1, <3>2, WaitsOnRoute
    <3>4. RequestDue(m, a, k) \/ RequestUnderWay(k, a)
      BY <1>1, <3>1, <3>2, CoveredNow DEF Covers, FlushAhead
    <3>5. CASE RequestDue(m, a, k)
      <4>1. RequestDue(m, a, k)'
        BY <1>1, <3>5, DueKept DEF DueStays
      <4>2. QED BY <1>1, <3>2, <4>1 DEF Covers
    <3>6. CASE RequestUnderWay(k, a)'
      BY <1>1, <3>2, <3>6 DEF Covers
    <3>7. CASE i = k /\ Head(wire[i]) = ArpReply(Nbr[k], ArpRequest(k, a))
      <4>1. ip = IfIp[Nbr[k]] /\ IfIp[Nbr[k]] = a
        BY <1>6, <3>1, <3>2, <3>7 DEF Waits
      <4>2. n = m
        BY <3>3, <3>7, RouteFacts DEF n
      <4>3. found # 0
        BY <1>8, <3>1, <4>1, <4>2 DEF Waits
      <4>4. update' = u
        BY <1>2, <4>3
      <4>5. FlushAhead(m, a, arp[m][a][1].pending_pkts, p)'
        BY <1>10, <1>11, <4>1, <4>2, <4>4 DEF FlushAhead
      <4>6. QED BY <4>5, SMTT(30) DEF Covers
    <3>8. ~(i = Nbr[k] /\ Head(wire[i]) = ArpRequest(k, a))
      BY <1>1 DEF ArpRequest, head
    <3>9. QED
      <4>1. CASE RequestUnderWay(k, a)
        <5>1. \/ RequestUnderWay(k, a)'
              \/ i = Nbr[k] /\ Head(wire[i]) = ArpRequest(k, a)
              \/ i = k /\ Head(wire[i]) = ArpReply(Nbr[k], ArpRequest(k, a))
          BY <1>1, <3>3, <4>1, StillUnderWay
        <5>2. QED BY <5>1, <3>6, <3>7, <3>8
      <4>2. QED BY <3>4, <3>5, <4>1
  <2>2. QED BY <2>1, CoveredNext
<1>16. QED BY <1>3, <1>12, <1>13, <1>14, <1>15 DEF NetInv

-----------------------------------------------------------------------------
(* The handling of a reply.  The entry is x before the step, y after it.   *)

\* What a change of the updated entry leaves as it was.  The queue may lose
\* packets, and the entry's hardware address is known or being copied.
LEMMA UpdateStep ==
  ASSUME NetInv, NEW n \in Node, NEW ip \in IpAddr, NEW e \in DOMAIN arp[n][ip],
         update # NULL, n = update.node, ip = update.ip, e = update.arp_entry,
         NEW y, arp'[n][ip][e] = y, OneChanged(n, ip, e),
         arp[n][ip][e].resolved => y.resolved,
         y.resolved => Neighbour(n, ip, y.mac) \/ Copying(n, ip, e)',
         Range(y.pending_pkts) \subseteq Range(arp[n][ip][e].pending_pkts),
         UNCHANGED <<call, ip_forward_enable, lost>>
  PROVE  /\ CallsOK' /\ EntriesOK'
         /\ \A p \in Packet : (Waiting(p)' => Waiting(p)) /\ (Held(p)' => Held(p))
<1>1. Grown
  BY GrownByOne
<1>2. CallsOK'
  <2>1. ASSUME NEW t \in Thread PROVE CallOK(t)'
    BY <1>1, CallKept
  <2>2. QED BY <2>1 DEF CallsOK
<1>3. EntriesOK'
  <2>1. ASSUME NEW m \in Node, NEW a \in IpAddr, NEW f \in DOMAIN arp'[m][a]
        PROVE  EntryOK(m, a, f)'
    <3>1. f \in DOMAIN arp[m][a]
      BY DEF OneChanged
    <3>2. EntryOK(m, a, f)
      BY <3>1 DEF NetInv, EntriesOK
    <3>3. CASE m # n \/ a # ip \/ f # e
      <4>1. arp'[m][a][f] = arp[m][a][f] /\ ~Copying(m, a, f)
        BY <3>1, <3>3, SMTT(30) DEF OneChanged, Copying
      <4>2. QED BY <3>2, <4>1 DEF EntryOK
    <3>4. CASE m = n /\ a = ip /\ f = e
      BY <3>2, <3>4 DEF EntryOK
    <3>5. QED BY <3>3, <3>4
  <2>2. QED BY <2>1 DEF EntriesOK
<1>4. ASSUME NEW p \in Packet, Waiting(p)' PROVE Waiting(p)
  <2>1. PICK m \in Node, a \in IpAddr : \E f \in DOMAIN arp'[m][a] :
          \E s \in Range(arp'[m][a][f].pending_pkts) : s.pkt = p
    BY <1>4 DEF Waiting
  <2>2. PICK f \in DOMAIN arp'[m][a] :
          \E s \in Range(arp'[m][a][f].pending_pkts) : s.pkt = p
    BY <2>1
  <2>3. f \in DOMAIN arp[m][a]
    BY DEF OneChanged
  <2>4. CASE m = n /\ a = ip /\ f = e
    <3>1. \E s \in Range(arp[n][ip][e].pending_pkts) : s.pkt = p
      BY <2>2, <2>4
    <3>2. QED BY <3>1, SMTT(30) DEF Waiting
  <2>5. CASE m # n \/ a # ip \/ f # e
    <3>1. arp'[m][a][f] = arp[m][a][f]
      BY <2>3, <2>5 DEF OneChanged
    <3>2. QED BY <2>2, <2>3, <3>1 DEF Waiting
  <2>6. QED BY <2>4, <2>5
<1>5. \A p \in Packet : Held(p)' => Held(p)
  BY DEF Held
<1>6. QED BY <1>2, <1>3, <1>4, <1>5

\* resolved = true, and the copy of the hardware address.
LEMMA AssignInv ==
  ASSUME NetInv, SetResolved \/ SetMac
  PROVE  NetInv' /\ InTransit' \subseteq InTransit
<1>a. PICK n, ip, e : n = update.node /\ ip = update.ip /\ e = update.arp_entry
  OBVIOUS
<1>b. PICK x : x = arp[n][ip][e]
  OBVIOUS
<1>c. PICK y, place :
        /\ place = IF update.at = "resolve" THEN "copy" ELSE "first"
        /\ y = IF update.at = "resolve" THEN [x EXCEPT !.resolved = TRUE]
                                        ELSE [x EXCEPT !.mac = update.hw_addr]
  OBVIOUS
<1>1. /\ update # NULL /\ update.at \in {"resolve", "copy"}
      /\ UNCHANGED <<wire, call, ip_forward_enable, lost>>
      /\ update' = [update EXCEPT !.at = place]
  BY <1>c DEF SetResolved, SetMac, UpdateAt
<1>2. arp' = [arp EXCEPT ![n][ip][e] = y]
  <2>1. CASE SetResolved
    <3>1. y = [x EXCEPT !.resolved = TRUE]
      BY <1>c, <2>1, SMTT(30) DEF SetResolved, UpdateAt
    <3>2. QED BY <1>a, <1>b, <2>1, <3>1 DEF SetResolved
  <2>2. CASE SetMac
    <3>1. y = [x EXCEPT !.mac = update.hw_addr]
      BY <1>c, <2>2 DEF SetMac, UpdateAt
    <3>2. QED BY <1>a, <1>b, <2>2, <3>1 DEF SetMac
  <2>3. QED BY SMTT(30), <2>1, <2>2
<1>3. /\ update \in Update /\ n \in Node /\ ip \in IpAddr /\ e \in DOMAIN arp[n][ip]
      /\ update.hw_addr \in MacAddr
  BY <1>1, <1>a, UpdateFields
<1>4. x \in ArpEntry /\ arp \in Tables
  BY <1>3, <1>b, NetFacts, EntryFacts
<1>5. /\ update.at = "copy" => x.resolved
      /\ Neighbour(n, ip, update.hw_addr)
  BY <1>1, <1>a, <1>b DEF NetInv, UpdateOK, UpdatedEntry
<1>6. /\ y \in ArpEntry /\ y.pending_pkts = x.pending_pkts
      /\ y.resolved /\ (update.at = "copy" => y.mac = update.hw_addr)
  BY <1>1, <1>3, <1>4, <1>5, <1>c DEF ArpEntry
<1>7. /\ update' \in Update /\ update'.at = place /\ update'.node = n /\ update'.ip = ip
      /\ update'.arp_entry = e /\ update'.hw_addr = update.hw_addr
      /\ place \in {"copy", "first"} /\ (update.at = "resolve" => place = "copy")
  BY <1>1, <1>3, <1>a, <1>c DEF Update
<1>8. update' # NULL
  BY <1>7, ThreadAssumption
<1>9. y.resolved => Neighbour(n, ip, y.mac) \/ Copying(n, ip, e)'
  <2>1. CASE update.at = "resolve"
    BY <1>7, <1>8, <2>1 DEF Copying, UpdateAt
  <2>2. CASE update.at = "copy"
    BY <1>5, <1>6, <2>2
  <2>3. QED BY <1>1, <2>1, <2>2
<1>10. /\ arp' \in Tables /\ arp'[n][ip][e] = y /\ OneChanged(n, ip, e)
       /\ CallsOK' /\ EntriesOK'
       /\ \A p \in Packet : (Waiting(p)' => Waiting(p)) /\ (Held(p)' => Held(p))
  <2>1. /\ arp[n][ip][e].resolved => y.resolved
        /\ Range(y.pending_pkts) \subseteq Range(arp[n][ip][e].pending_pkts)
    BY <1>6, <1>b
  <2>2. arp' \in Tables /\ arp'[n][ip][e] = y /\ OneChanged(n, ip, e)
    BY <1>2, <1>3, <1>4, <1>6, SetEntry
  <2>3. QED BY <1>1, <1>3, <1>9, <1>a, <2>1, <2>2, UpdateStep
<1>11. NetTypeOK'
  BY <1>1, <1>7, <1>10 DEF NetInv, NetTypeOK, Tables
<1>12. UpdateOK'
  <2>1. UpdatedEntry' = y
    BY <1>7, <1>10 DEF UpdatedEntry
  <2>2. e \in DOMAIN arp'[n][ip]
    BY <1>3, <1>10 DEF OneChanged
  <2>3. QED BY <1>5, <1>6, <1>7, <2>1, <2>2 DEF UpdateOK
<1>13. ArpFramesOK'
  BY <1>1 DEF NetInv, ArpFramesOK
<1>14. DueStays /\ ArpStays
  BY <1>1 DEF DueStays, ArpStays
<1>15. PendingCovered'
  <2>1. ASSUME lost' = 0, NEW m \in Node, NEW a \in IpAddr, NEW p, Waits(m, a, p)'
        PROVE  Covers(m, a, p)'
    <3>1. Len(arp[m][a]) = 1 /\ Len(arp'[m][a]) = 1 /\ lost = 0
      BY <1>1, <1>10, <2>1 DEF Waits, OneChanged
    <3>2. 1 \in DOMAIN arp[m][a]
      BY <1>4, <3>1, OnlyEntry
    <3>3. CASE m = n /\ a = ip
      <4>1. FlushAhead(m, a, arp[m][a][1].pending_pkts, p)'
        BY <1>7, <1>8, <3>3 DEF FlushAhead
      <4>2. e = 1
        BY <1>3, <1>4, <3>1, <3>3, OnlyEntry
      <4>3. arp'[m][a][1].pending_pkts = arp[m][a][1].pending_pkts
        BY <1>6, <1>10, <1>b, <3>3, <4>2
      <4>4. QED BY <4>1, <4>3 DEF Covers
    <3>4. CASE m # n \/ a # ip
      <4>1. arp'[m][a][1] = arp[m][a][1]
        BY <1>10, <3>2, <3>4 DEF OneChanged
      <4>2. ~FlushAhead(m, a, arp[m][a][1].pending_pkts, p)
        BY <1>a, <3>4 DEF FlushAhead
      <4>3. QED BY <1>14, <2>1, <3>1, <4>1, <4>2, OthersCovered
    <3>5. QED BY <3>3, <3>4
  <2>2. QED BY <2>1, CoveredNext
<1>16. InTransit' \subseteq InTransit
  BY <1>1, <1>10 DEF InTransit, OnWire
<1>17. QED BY <1>10, <1>11, <1>12, <1>13, <1>15, <1>16 DEF NetInv

\* The loop starts with all packets of the queue ahead of it.
LEMMA FlushFirstInv ==
  ASSUME NetInv, FlushFirst
  PROVE  NetInv' /\ InTransit' \subseteq InTransit
<1>a. PICK n, ip, e : n = update.node /\ ip = update.ip /\ e = update.arp_entry
  OBVIOUS
<1>b. PICK q : q = arp[n][ip][e].pending_pkts
  OBVIOUS
<1>c. PICK u : u = [update EXCEPT !.at = "flush", !.left = Len(q)]
  OBVIOUS
<1>1. /\ update # NULL /\ update.at = "first"
      /\ UNCHANGED <<arp, wire, call, ip_forward_enable, lost>>
      /\ update' = IF q = << >> THEN NULL ELSE u
  BY <1>a, <1>b, <1>c DEF FlushFirst, UpdateAt, UpdatedEntry
<1>2. update \in Update /\ n \in Node /\ ip \in IpAddr /\ e \in DOMAIN arp[n][ip]
  BY <1>1, <1>a, UpdateFields
<1>3. q \in Seq(Pending) /\ arp \in Tables
  BY <1>2, <1>b, NetFacts, EntryFacts
<1>4. Len(q) \in Nat /\ (q # << >> => Len(q) \in 1..Len(q)) /\ DOMAIN q = 1..Len(q)
  BY <1>3
<1>5. /\ u \in Update /\ u.at = "flush" /\ u.left = Len(q) /\ u.node = n /\ u.ip = ip
      /\ u.arp_entry = e /\ u.hw_addr = update.hw_addr
  BY <1>2, <1>4, <1>a, <1>c DEF Update
<1>6. u # NULL
  BY <1>5, ThreadAssumption
<1>7. NetTypeOK'
  BY <1>1, <1>5 DEF NetInv, NetTypeOK
<1>8. CallsOK'
  BY <1>1 DEF NetInv, CallsOK, CallOK, EntryOf
<1>9. UpdateOK'
  <2>1. CASE q = << >>
    BY <1>1, <2>1 DEF UpdateOK
  <2>2. CASE q # << >>
    <3>1. update' = u
      BY <1>1, <2>2
    <3>2. /\ Neighbour(n, ip, update.hw_addr) /\ e \in DOMAIN arp[n][ip]
          /\ arp[n][ip][e].resolved
      BY <1>1, <1>a DEF NetInv, UpdateOK, UpdatedEntry
    <3>3. UpdatedEntry' = arp[n][ip][e]
      BY <1>1, <1>5, <3>1 DEF UpdatedEntry
    <3>4. QED BY <1>1, <1>4, <1>5, <1>b, <2>2, <3>1, <3>2, <3>3 DEF UpdateOK
  <2>3. QED BY <2>1, <2>2
<1>10. ArpFramesOK'
  BY <1>1 DEF NetInv, ArpFramesOK
<1>11. EntriesOK'
  <2>1. ASSUME NEW m \in Node, NEW a \in IpAddr, NEW f \in DOMAIN arp[m][a]
        PROVE  EntryOK(m, a, f)'
    <3>1. EntryOK(m, a, f) /\ ~Copying(m, a, f)
      BY <1>1 DEF NetInv, EntriesOK, Copying, UpdateAt
    <3>2. QED BY <1>1, <3>1 DEF EntryOK
  <2>2. QED BY <1>1, <2>1 DEF EntriesOK
<1>12. DueStays /\ ArpStays
  BY <1>1 DEF DueStays, ArpStays
<1>13. PendingCovered'
  <2>1. ASSUME lost' = 0, NEW m \in Node, NEW a \in IpAddr, NEW p, Waits(m, a, p)'
        PROVE  Covers(m, a, p)'
    <3>1. Len(arp[m][a]) = 1 /\ lost = 0
      BY <1>1, <2>1 DEF Waits
    <3>2. CASE m = n /\ a = ip
      <4>1. e = 1
        BY <1>2, <1>3, <3>1, <3>2, OnlyEntry
      <4>2. arp[m][a][1].pending_pkts = q
        BY <1>b, <3>2, <4>1
      <4>3. p \in DOMAIN q
        BY <1>1, <2>1, <4>2 DEF Waits
      <4>4. q # << >>
        BY <4>3
      <4>5. p > Len(q) - Len(q)
        BY <1>4, <4>3
      <4>6. update' = u
        BY <1>1, <4>4
      <4>7. FlushAhead(m, a, q, p)'
        BY <1>5, <1>6, <3>2, <4>5, <4>6 DEF FlushAhead
      <4>8. QED BY <1>1, <4>2, <4>7 DEF Covers
    <3>3. CASE m # n \/ a # ip
      <4>1. ~FlushAhead(m, a, arp[m][a][1].pending_pkts, p)
        BY <1>a, <3>3 DEF FlushAhead
      <4>2. QED BY <1>1, <1>12, <2>1, <3>1, <4>1, OthersCovered
    <3>4. QED BY <3>2, <3>3
  <2>2. QED BY <2>1, CoveredNext
<1>14. InTransit' \subseteq InTransit
  BY <1>1 DEF InTransit, OnWire, Waiting, Held
<1>15. QED BY <1>7, <1>8, <1>9, <1>10, <1>11, <1>13, <1>14 DEF NetInv

\* What one iteration of the loop does: q is the queue, pos the place of the
\* packet it sends and x the entry.
FlushStep(n, ip, e, x, q, pos) ==
  /\ update # NULL /\ update.at = "flush" /\ UNCHANGED <<call, ip_forward_enable, lost>>
  /\ n = update.node /\ ip = update.ip /\ e = update.arp_entry
  /\ update \in Update /\ n \in Node /\ ip \in IpAddr /\ e \in DOMAIN arp[n][ip]
  /\ x = arp[n][ip][e] /\ x \in ArpEntry /\ x.resolved /\ Neighbour(n, ip, x.mac)
  /\ q = x.pending_pkts /\ q \in Seq(Pending)
  /\ Len(q) \in Nat /\ DOMAIN q = 1..Len(q)
  /\ update.left \in 1..Len(q) /\ pos = Len(q) - update.left + 1 /\ pos \in 1..Len(q)
  /\ q[pos] \in Pending /\ q[pos].oif \in Intf /\ q[pos].pkt \in Packet
  /\ q[pos] \in Range(q) /\ OnRoute(n, ip, q[pos].oif)
  /\ arp' = [arp EXCEPT ![n][ip][e] = [x EXCEPT !.pending_pkts = RemoveAt(q, pos)]]
  /\ wire' = SendPktOut(wire, q[pos].oif, IpPktFrame(x.mac, q[pos].pkt))
  /\ update' = IF update.left = 1 THEN NULL ELSE [update EXCEPT !.left = @ - 1]

\* The loop is where it should be.
LEMMA FlushFacts ==
  ASSUME NetInv, FlushPending
  PROVE  \E n, ip, e, x, q, pos : FlushStep(n, ip, e, x, q, pos)
<1>a. PICK n, ip, e : n = update.node /\ ip = update.ip /\ e = update.arp_entry
  OBVIOUS
<1>b. PICK x, q : x = arp[n][ip][e] /\ q = x.pending_pkts
  OBVIOUS
<1>c. PICK pos : pos = Len(q) - update.left + 1
  OBVIOUS
<1>1. /\ update # NULL /\ update.at = "flush" /\ UNCHANGED <<call, ip_forward_enable, lost>>
      /\ update' = IF update.left = 1 THEN NULL ELSE [update EXCEPT !.left = @ - 1]
  BY DEF FlushPending, UpdateAt
<1>2. UpdatedEntry = x
  BY <1>a, <1>b, SMTT(30) DEF UpdatedEntry
<1>3. wire' = SendPktOut(wire, q[pos].oif, IpPktFrame(x.mac, q[pos].pkt))
  BY <1>2, <1>b, <1>c DEF FlushPending
<1>4. arp' = [arp EXCEPT ![n][ip][e].pending_pkts = RemoveAt(q, pos)]
  BY <1>2, <1>a, <1>b, <1>c DEF FlushPending
<1>5. arp' = [arp EXCEPT ![n][ip][e] = [x EXCEPT !.pending_pkts = RemoveAt(q, pos)]]
  BY <1>4, <1>b
<1>6. update \in Update /\ n \in Node /\ ip \in IpAddr /\ e \in DOMAIN arp[n][ip]
  BY <1>1, <1>a, UpdateFields
<1>7. x \in ArpEntry /\ q \in Seq(Pending)
  BY <1>6, <1>b, NetFacts, EntryFacts
<1>8. x.resolved /\ update.left \in 1..Len(q)
  BY <1>1, <1>2, <1>b DEF NetInv, UpdateOK
<1>9. /\ Neighbour(n, ip, x.mac)
      /\ \A skb \in Range(q) : OnRoute(n, ip, skb.oif)
  <2>1. EntryOK(n, ip, e) /\ ~Copying(n, ip, e)
    BY <1>1, <1>6 DEF NetInv, EntriesOK, Copying, UpdateAt
  <2>2. QED BY <1>8, <1>b, <2>1 DEF EntryOK
<1>10. Len(q) \in Nat /\ DOMAIN q = 1..Len(q)
  BY <1>7
<1>11. pos \in 1..Len(q)
  BY <1>8, <1>10, <1>c
<1>12. q[pos] \in Pending /\ q[pos] \in Range(q)
  BY <1>7, <1>10, <1>11 DEF Range
<1>13. q[pos].oif \in Intf /\ q[pos].pkt \in Packet /\ OnRoute(n, ip, q[pos].oif)
  BY <1>9, <1>12, SMTT(30) DEF Pending
<1>14. FlushStep(n, ip, e, x, q, pos)
  BY <1>1, <1>3, <1>5, <1>6, <1>7, <1>8, <1>9, <1>10, <1>11, <1>12, <1>13, <1>a, <1>b, <1>c
  DEF FlushStep
<1>15. QED BY <1>14

\* The iteration sends one packet; the packets behind it are still ahead of
\* the loop, and those in front of it, which it never met, have a request.
LEMMA FlushInv ==
  ASSUME NetInv, FlushPending
  PROVE  NetInv' /\ InTransit' \subseteq InTransit
<1>a. PICK n, ip, e, x, q, pos : FlushStep(n, ip, e, x, q, pos)
  BY FlushFacts
<1>b. PICK r, y, skb, frame, u :
        /\ r = RemoveAt(q, pos) /\ y = [x EXCEPT !.pending_pkts = r]
        /\ skb = q[pos] /\ frame = IpPktFrame(x.mac, skb.pkt)
        /\ u = [update EXCEPT !.left = update.left - 1]
  OBVIOUS
<1>1. /\ arp' = [arp EXCEPT ![n][ip][e] = y]
      /\ wire' = SendPktOut(wire, skb.oif, frame)
      /\ update' = IF update.left = 1 THEN NULL ELSE u
      /\ update # NULL /\ update.at = "flush" /\ UNCHANGED <<call, ip_forward_enable, lost>>
      /\ n = update.node /\ ip = update.ip /\ e = update.arp_entry
  BY <1>a, <1>b DEF FlushStep
<1>2. /\ n \in Node /\ ip \in IpAddr /\ e \in DOMAIN arp[n][ip] /\ arp \in Tables
      /\ x = arp[n][ip][e] /\ x \in ArpEntry /\ x.resolved /\ Neighbour(n, ip, x.mac)
      /\ q = x.pending_pkts /\ q \in Seq(Pending)
      /\ skb.oif \in Intf /\ skb.pkt \in Packet /\ skb \in Range(q)
  BY <1>a, <1>b, NetFacts DEF FlushStep
<1>3. /\ Len(q) \in Nat /\ DOMAIN q = 1..Len(q) /\ update.left \in 1..Len(q)
      /\ pos = Len(q) - update.left + 1 /\ pos \in 1..Len(q)
  BY <1>a DEF FlushStep
<1>4. /\ r \in Seq(Pending) /\ Len(r) = Len(q) - 1
      /\ \A k \in 1..(Len(q) - 1) : r[k] = IF k < pos THEN q[k] ELSE q[k + 1]
  <2>1. r \in Seq(Pending) /\ Len(r) = Len(q) - 1 /\ WithoutAt(r, q, pos)
    BY <1>2, <1>3, <1>b, RemoveAtPlace
  <2>2. QED BY <2>1, SMTT(30) DEF WithoutAt
<1>5. DOMAIN r = 1..(Len(q) - 1)
  BY <1>4
<1>6. Range(r) \subseteq Range(q)
  <2>1. ASSUME NEW k \in 1..(Len(q) - 1) PROVE r[k] \in Range(q)
    <3>1. k \in 1..Len(q) /\ k + 1 \in 1..Len(q)
      BY <1>3
    <3>2. QED BY <1>3, <1>4, <3>1 DEF Range
  <2>2. QED BY <1>5, <2>1 DEF Range
<1>7. /\ y \in ArpEntry /\ y.pending_pkts = r /\ y.resolved = x.resolved /\ y.mac = x.mac
  <2>1. y = [x EXCEPT !.pending_pkts = r]
    BY <1>b
  <2>2. QED BY <1>2, <1>4, <2>1 DEF ArpEntry
<1>8. frame \in Frame /\ frame.type = "IP" /\ frame.pkt = skb.pkt
  <2>1. x.mac \in MacAddr \cup {ZeroMac}
    BY <1>2 DEF ArpEntry
  <2>2. QED BY <1>2, <1>b, <2>1, PktFrame DEF IpPktFrame
<1>9. /\ wire' \in Wires
      /\ \A j \in Intf : Range(wire[j]) \subseteq Range(wire'[j])
      /\ \A j \in Intf : \A f \in Range(wire'[j]) :
           f \in Range(wire[j]) \/ (f = frame /\ j = Nbr[skb.oif])
  BY <1>1, <1>2, <1>8, Sent
<1>10. /\ u \in Update /\ u.at = "flush" /\ u.left = update.left - 1 /\ u.node = n
       /\ u.ip = ip /\ u.arp_entry = e /\ u.hw_addr = update.hw_addr
  <2>1. update \in Update /\ (update.left # 1 => update.left - 1 \in Nat)
    BY <1>1, <1>3, UpdateFields
  <2>2. update.left - 1 \in Nat
    BY <1>3
  <2>3. QED BY <1>1, <1>b, <2>1, <2>2 DEF Update
<1>11. u # NULL
  BY <1>10, ThreadAssumption
<1>12. /\ arp' \in Tables /\ arp'[n][ip][e] = y /\ OneChanged(n, ip, e)
  <2>1. arp' = [arp EXCEPT ![n][ip][e] = y]
    BY <1>1
  <2>2. n \in Node /\ ip \in IpAddr /\ e \in DOMAIN arp[n][ip] /\ arp \in Tables
    BY <1>2
  <2>3. y \in ArpEntry
    BY <1>7
  <2>4. QED BY <2>1, <2>2, <2>3, SetEntry
<1>13. /\ CallsOK' /\ EntriesOK'
       /\ \A p \in Packet : (Waiting(p)' => Waiting(p)) /\ (Held(p)' => Held(p))
  <2>1. /\ arp[n][ip][e].resolved => y.resolved
        /\ y.resolved => Neighbour(n, ip, y.mac)
        /\ Range(y.pending_pkts) \subseteq Range(arp[n][ip][e].pending_pkts)
    BY <1>2, <1>6, <1>7
  <2>2. QED BY <1>1, <1>2, <1>12, <2>1, UpdateStep
<1>14. NetTypeOK'
  <2>1. update' \in Update \cup {NULL}
    BY <1>1, <1>10
  <2>2. QED BY <1>1, <1>9, <1>12, <2>1 DEF NetInv, NetTypeOK, Tables, Wires
<1>15. UpdateOK'
  <2>1. CASE update.left = 1
    BY <1>1, <2>1 DEF UpdateOK
  <2>2. CASE update.left # 1
    <3>1. update' = u
      BY <1>1, <2>2
    <3>2. UpdatedEntry' = y
      BY <1>10, <1>12, <3>1 DEF UpdatedEntry
    <3>3. e \in DOMAIN arp'[n][ip]
      BY <1>2, <1>12 DEF OneChanged
    <3>4. u.left \in 1..Len(r)
      BY <1>3, <1>4, <1>10, <2>2
    <3>5. Neighbour(n, ip, u.hw_addr)
      BY <1>1, <1>10 DEF NetInv, UpdateOK
    <3>6. QED BY <1>2, <1>7, <1>10, <3>1, <3>2, <3>3, <3>4, <3>5 DEF UpdateOK
  <2>3. QED BY <2>1, <2>2
<1>16. ArpFramesOK'
  BY <1>8, <1>9 DEF NetInv, ArpFramesOK
<1>17. DueStays /\ ArpStays
  BY <1>1, <1>9, SMTT(30) DEF DueStays, ArpStays
<1>18. PendingCovered'
  <2>1. ASSUME lost' = 0, NEW m \in Node, NEW a \in IpAddr, NEW p, Waits(m, a, p)'
        PROVE  Covers(m, a, p)'
    <3>1. Len(arp[m][a]) = 1 /\ Len(arp'[m][a]) = 1 /\ lost = 0
      BY <1>1, <1>12, <2>1 DEF Waits, OneChanged
    <3>2. 1 \in DOMAIN arp[m][a]
      BY <1>2, <3>1, OnlyEntry
    <3>3. CASE m # n \/ a # ip
      <4>1. arp'[m][a][1] = arp[m][a][1]
        BY <1>12, <3>2, <3>3 DEF OneChanged
      <4>2. ~FlushAhead(m, a, arp[m][a][1].pending_pkts, p)
        BY <1>1, <3>3 DEF FlushAhead
      <4>3. QED BY <1>17, <2>1, <3>1, <4>1, <4>2, OthersCovered
    <3>4. CASE m = n /\ a = ip
      <4>1. e = 1
        BY <1>2, <3>1, <3>4, OnlyEntry
      <4>2. arp'[n][ip][1].pending_pkts = r /\ arp[n][ip][1].pending_pkts = q
        BY <1>2, <1>7, <1>12, <4>1
      <4>3. p \in 1..(Len(q) - 1)
        BY <1>5, <2>1, <3>4, <4>2 DEF Waits
      <4>4. CASE p < pos
        <5>1. r[p] = q[p] /\ p \in DOMAIN q
          BY <1>3, <1>4, <4>3, <4>4
        <5>2. Waits(n, ip, p)
          BY <2>1, <3>1, <3>4, <4>2, <5>1 DEF Waits
        <5>3. PICK k : k = q[p].oif
          OBVIOUS
        <5>4. ~FlushAhead(n, ip, q, p)
          <6>1. ~(p > Len(q) - update.left)
            BY SMTT(30), <1>3, <4>3, <4>4
          <6>2. QED BY <1>1, <6>1 DEF FlushAhead
        <5>5. Asked(n, ip, k) /\ k \in Intf
          BY <1>2, <3>1, <4>2, <5>2, <5>3, <5>4, CoveredNow, WaitsOnRoute DEF Covers, Asked
        <5>6. Asked(n, ip, k)'
          BY <1>17, <5>5, AskedKept
        <5>7. QED BY <3>4, <4>2, <5>1, <5>3, <5>6 DEF Covers, Asked
      <4>5. CASE ~(p < pos)
        <5>1. update.left # 1 /\ p > Len(r) - (update.left - 1)
          BY <1>3, <1>4, <4>3, <4>5
        <5>2. update' = u
          BY <1>1, <5>1
        <5>3. FlushAhead(n, ip, r, p)'
          BY <1>10, <1>11, <5>1, <5>2 DEF FlushAhead
        <5>4. QED BY <3>4, <4>2, <5>3 DEF Covers
      <4>6. QED BY <4>4, <4>5
    <3>5. QED BY SMTT(30), <3>3, <3>4
  <2>2. QED BY <2>1, CoveredNext
<1>19. InTransit' \subseteq InTransit
  <2>1. Waiting(skb.pkt)
    BY <1>2 DEF Waiting
  <2>2. \A p \in Packet : OnWire(p)' => OnWire(p) \/ p = skb.pkt
    BY <1>8, <1>9 DEF OnWire
  <2>3. QED BY <1>13, <2>1, <2>2 DEF InTransit
<1>20. QED BY <1>13, <1>14, <1>15, <1>16, <1>18, <1>19 DEF NetInv

-----------------------------------------------------------------------------
(* Forwarding. *)

\* Reading the frame of an IP packet leaves what IpTaken asks for.
LEMMA PrerouteTaken ==
  ASSUME NetInv, NEW i \in Intf, IpPreroute(i)
  PROVE  /\ IpTaken(RecvBytes(i))
         /\ Head(wire[i]).pkt \in Packet
         /\ Head(wire[i]).pkt \in InTransit
<1>1. wire \in Wires /\ wire[i] # << >> /\ Head(wire[i]).type = "IP"
  BY NetFacts DEF IpPreroute, Readable
<1>2. /\ Head(wire[i]) \in Frame
      /\ RecvBytes(i) \in Wires
      /\ Range(wire[i]) = {Head(wire[i])} \cup Range(RecvBytes(i)[i])
      /\ \A j \in Intf : j # i => RecvBytes(i)[j] = wire[j]
  BY <1>1, TakeWire
<1>3. Head(wire[i]).pkt \in Packet
  <2>1. Head(wire[i]) \in IpFrame
    BY <1>1, <1>2, FrameKinds
  <2>2. QED BY <2>1 DEF IpFrame
<1>4. IpTaken(RecvBytes(i))
  BY <1>1, <1>2 DEF IpTaken
<1>5. QED BY <1>1, <1>2, <1>3, <1>4 DEF InTransit, OnWire

\* A forwarded packet has one hop less to live and another source.
Hop(pkt, p) == \E ip \in IpAddr : p = [pkt EXCEPT !.ttl = pkt.ttl - 1, !.src = ip]

\* ip_forward: what leaves is a hop of the packet that arrived.
LEMMA ForwardInv ==
  ASSUME NetInv, NEW i \in Intf, RecvForward(i)
  PROVE  /\ NetInv'
         /\ \A p \in InTransit' :
              p \in InTransit \/ \E pkt \in InTransit : pkt.ttl > 1 /\ Hop(pkt, p)
<1> DEFINE pkt == Head(wire[i]).pkt
           pkt1 == [pkt EXCEPT !.ttl = @ - 1]
<1>1. /\ IpPreroute(i) /\ wire' = RecvBytes(i) /\ call[Receiver] = NULL
      /\ UNCHANGED <<arp, update, ip_forward_enable, lost>>
  BY DEF RecvForward, IpPreroute, Readable
<1>2. IpTaken(wire') /\ pkt \in Packet /\ pkt \in InTransit
  BY <1>1, PrerouteTaken
<1>3. CASE UNCHANGED call
  <2>1. ip_forward_enable' \in BOOLEAN
    BY SMTT(30), <1>1, NetFacts
  <2>2. QED BY <1>1, <1>2, <1>3, <2>1, DropInv
<1>4. CASE pkt.ttl > 1 /\ IpPostroute(Receiver, NodeOf[i], pkt1, NULL)
  <2>1. pkt1 \in Packet
    BY <1>2, <1>4 DEF Packet
  <2>2. NodeOf[i] \in Node /\ Receiver \in Thread
    BY TopologyAssumption DEF Thread
  <2>3. /\ NetInv'
        /\ \A p \in InTransit' :
             p \in InTransit \/ \E ip \in IpAddr : p = [pkt1 EXCEPT !.src = ip]
    <3> HIDE DEF pkt1
    <3>1. QED BY <1>1, <1>2, <1>4, <2>1, <2>2, PostrouteInv
  <2>4. \A ip \in IpAddr :
          [pkt1 EXCEPT !.src = ip] = [pkt EXCEPT !.ttl = pkt.ttl - 1, !.src = ip]
    OBVIOUS
  <2>5. QED BY <1>2, <1>4, <2>3, <2>4 DEF Hop
<1>5. QED BY <1>3, <1>4 DEF RecvForward, TtlLeft, DecrementTtl

-----------------------------------------------------------------------------
(* The inductive invariant of the whole specification. *)

Answered(id) == \E m \in Node : <<m, id>> \in pinged /\ IsIpLocal(m, pings[id].ip)

\* A request goes to the address that was pinged, and a reply exists only
\* when the owner of that address received the request.
EchoOK(pkt) ==
  /\ pkt.ttl \in 1..InitTtl
  /\ pkt.pl.id \in 1..Len(pings)
  /\ pkt.pl.type = "ECHO_REQUEST" => pkt.dst = pings[pkt.pl.id].ip
  /\ pkt.pl.type = "ECHO_REPLY" => Answered(pkt.pl.id)

EchoesOK == \A pkt \in InTransit : EchoOK(pkt)

PongsOK == \A x \in ponged : x[2] \in 1..Len(pings) /\ Answered(x[2])

IInv == TypeOK /\ NetInv /\ EchoesOK /\ PongsOK

\* The types and the history that icmpvars keeps.
IcmpTypeOK ==
  /\ pings \in Seq([node : Node, ip : IpAddr])
  /\ Len(pings) <= MaxPings
  /\ pinged \subseteq Node \X (1..MaxPings)
  /\ ponged \subseteq Node \X (1..MaxPings)
  /\ crashed \in BOOLEAN

\* The type invariant is that of the layers and that of the histories.
LEMMA TypeSplit == TypeOK <=> NetTypeOK /\ IcmpTypeOK
BY DEF TypeOK, IcmpTypeOK

\* The fields of a packet.
LEMMA PacketFields ==
  ASSUME NEW pkt \in Packet
  PROVE  /\ pkt.src \in IpAddr /\ pkt.dst \in IpAddr /\ pkt.ttl \in Nat
         /\ pkt.pl \in IcmpPayload
         /\ pkt.pl.id \in 1..MaxPings
         /\ pkt.pl.type \in {"ECHO_REQUEST", "ECHO_REPLY"}
BY IcmpAssumption DEF Packet, IcmpPayload

\* A step that leaves the history alone.
LEMMA QuietInv ==
  ASSUME IInv, UNCHANGED icmpvars, NetInv', EchoesOK'
  PROVE  IInv'
<1>1. IcmpTypeOK' /\ NetTypeOK'
  BY TypeSplit DEF IInv, IcmpTypeOK, icmpvars, NetInv
<1>2. TypeOK'
  BY <1>1 DEF TypeOK, IcmpTypeOK
<1>3. PongsOK'
  BY DEF IInv, PongsOK, Answered, icmpvars
<1>4. QED BY <1>2, <1>3 DEF IInv

\* A step that leaves the histories alone keeps what they say of a packet.
LEMMA QuietEchoes ==
  ASSUME IInv, UNCHANGED icmpvars, InTransit' \subseteq InTransit
  PROVE  EchoesOK'
BY DEF IInv, EchoesOK, EchoOK, Answered, icmpvars

\* A step of ip_postroute in any thread.
LEMMA StepInv ==
  ASSUME IInv, NEW t \in Thread, PostrouteStep(t), UNCHANGED icmpvars
  PROVE  IInv'
<1>1. NetInv
  BY DEF IInv
<1>2. QED BY <1>1, PostrouteStepInv, QuietEchoes, QuietInv

\* The steps of the receive thread below ICMP.
LEMMA NetRecvInv ==
  ASSUME IInv, NetRecv, UNCHANGED icmpvars
  PROVE  IInv'
<1>1. NetInv
  BY DEF IInv
<1>2. CASE SetResolved \/ SetMac
  BY <1>1, <1>2, AssignInv, QuietEchoes, QuietInv
<1>3. CASE FlushFirst
  BY <1>1, <1>3, FlushFirstInv, QuietEchoes, QuietInv
<1>4. CASE FlushPending
  BY <1>1, <1>4, FlushInv, QuietEchoes, QuietInv
<1>5. CASE PostrouteStep(Receiver)
  <2>1. Receiver \in Thread
    BY DEF Thread
  <2>2. QED BY <1>5, <2>1, StepInv
<1>6. ASSUME NEW i \in Intf, RecvRefused(i) PROVE IInv'
  BY <1>1, <1>6, RefusedInv, QuietEchoes, QuietInv
<1>7. ASSUME NEW i \in Intf, RecvArpRequest(i) PROVE IInv'
  BY <1>1, <1>7, ArpRequestInv, QuietEchoes, QuietInv
<1>8. ASSUME NEW i \in Intf, RecvArpReply(i) PROVE IInv'
  BY <1>1, <1>8, ArpReplyInv, QuietEchoes, QuietInv
<1>9. ASSUME NEW i \in Intf, RecvForward(i) PROVE IInv'
  <2>1. NetInv'
    BY <1>1, <1>9, ForwardInv
  <2>2. ASSUME NEW p \in InTransit',
               NEW pkt \in InTransit, pkt.ttl > 1, Hop(pkt, p)
        PROVE  EchoOK(p)'
    <3>1. EchoOK(pkt) /\ pkt \in Packet
      BY DEF IInv, EchoesOK, InTransit
    <3>2. p.ttl = pkt.ttl - 1 /\ p.dst = pkt.dst /\ p.pl = pkt.pl
      BY <2>2, <3>1 DEF Hop, Packet
    <3>3. p.ttl \in 1..InitTtl
      BY <2>2, <3>1, <3>2, TtlAssumption DEF EchoOK
    <3>4. QED BY <3>1, <3>2, <3>3 DEF EchoOK, Answered, icmpvars
  <2>3. ASSUME NEW p \in InTransit', p \in InTransit PROVE EchoOK(p)'
    BY <2>3 DEF IInv, EchoesOK, EchoOK, Answered, icmpvars
  <2>4. EchoesOK'
    BY <1>1, <1>9, <2>2, <2>3, ForwardInv DEF EchoesOK
  <2>5. QED BY <2>1, <2>4, QuietInv
<1>10. QED BY <1>2, <1>3, <1>4, <1>5, <1>6, <1>7, <1>8, <1>9 DEF NetRecv

\* No step, or one that only writes ip_forward_enable.
LEMMA IdleInv ==
  ASSUME IInv, UNCHANGED <<arp, wire, call, update, lost>>, ip_forward_enable' \in BOOLEAN,
         UNCHANGED icmpvars
  PROVE  IInv'
<1>1. NetInv /\ IpTaken(wire')
  BY NetFacts DEF IInv, IpTaken
<1>2. NetInv' /\ InTransit' \subseteq InTransit
  BY <1>1, DropInv
<1>3. QED BY <1>2, QuietEchoes, QuietInv

\* Discarded frames and set_ip_forward.
LEMMA NetEnvironmentInv ==
  ASSUME IInv, NetEnvironment, UNCHANGED icmpvars
  PROVE  IInv'
<1>1. NetInv
  BY DEF IInv
<1>2. ASSUME NEW val \in BOOLEAN, SetIpForward(val) PROVE IInv'
  BY <1>2, IdleInv DEF SetIpForward
<1>3. ASSUME NEW i \in Intf, LoseFrame(i) PROVE IInv'
  BY <1>1, <1>3, LoseInv, QuietEchoes, QuietInv
<1>4. QED BY <1>2, <1>3 DEF NetEnvironment

\* What an application's call adds: a request for the address it gave.
LEMMA PingOutInv ==
  ASSUME IInv, NEW t \in Thread, NEW n \in Node, NEW ip \in IpAddr, PingOut(t, n, ip)
  PROVE  IInv'
<1> DEFINE id == Len(pings) + 1
           pl == [type |-> "ECHO_REQUEST", id |-> id]
           pkt == [src |-> 0, dst |-> ip, ttl |-> InitTtl, pl |-> pl]
<1>1. NetInv /\ IcmpTypeOK
  BY TypeSplit DEF IInv
<1>2. /\ Len(pings) < MaxPings /\ pings' = Append(pings, Ping(n, ip))
      /\ UNCHANGED <<arp, wire, update, ip_forward_enable, lost, pinged, ponged>>
      /\ call[t] = NULL
  BY DEF PingOut
<1>3. /\ pings' \in Seq([node : Node, ip : IpAddr]) /\ Len(pings') = id
      /\ Len(pings) \in Nat /\ id \in 1..MaxPings
      /\ pings'[id].ip = ip
      /\ \A k \in 1..Len(pings) : pings'[k] = pings[k]
  <2>1. pings \in Seq([node : Node, ip : IpAddr])
          /\ Ping(n, ip) \in [node : Node, ip : IpAddr]
    BY <1>1 DEF IcmpTypeOK, Ping
  <2>2. Ping(n, ip).ip = ip
    BY DEF Ping
  <2>3. Len(pings) \in Nat /\ MaxPings \in Nat
    BY <2>1, IcmpAssumption
  <2>4. pings' \in Seq([node : Node, ip : IpAddr]) /\ Len(pings') = id
          /\ pings'[id] = Ping(n, ip)
    BY <1>2, <2>1
  <2>5. \A k \in 1..Len(pings) : pings'[k] = pings[k]
    BY <1>2, <2>1
  <2>6. QED BY <1>2, <2>2, <2>3, <2>4, <2>5
<1>4. pkt \in Packet
  BY <1>3, AddressAssumption, TtlAssumption, IcmpAssumption DEF Packet, IcmpPayload
<1>5. IpTaken(wire') /\ ip_forward_enable' \in BOOLEAN
  BY <1>1, <1>2, NetFacts DEF IpTaken
<1>6. /\ NetInv'
      /\ \A p \in InTransit' :
           p \in InTransit \/ \E a \in IpAddr : p = [pkt EXCEPT !.src = a]
  <2>1. CASE UNCHANGED call
    BY <1>1, <1>2, <1>5, <2>1, DropInv
  <2>2. CASE IpOutput(t, n, ip, pl, NULL)
    <3>1. IpPostroute(t, n, pkt, NULL)
      BY <2>2 DEF IpOutput
    <3> HIDE DEF pkt
    <3>2. QED BY <1>1, <1>2, <1>4, <1>5, <3>1, PostrouteInv
  <2>3. QED BY <2>1, <2>2 DEF PingOut
<1>7. crashed' \in BOOLEAN
  BY <1>1 DEF PingOut, IcmpTypeOK
<1>8. IcmpTypeOK'
  BY <1>1, <1>2, <1>3, <1>7 DEF IcmpTypeOK
<1>9. \A k \in 1..Len(pings) : k \in 1..Len(pings') /\ (Answered(k) => Answered(k)')
  <2>1. ASSUME NEW k \in 1..Len(pings) PROVE k \in 1..Len(pings')
    BY <1>3
  <2>2. ASSUME NEW k \in 1..Len(pings), Answered(k) PROVE Answered(k)'
    <3>1. pings'[k] = pings[k]
      BY <1>3
    <3>2. QED BY <1>2, <2>2, <3>1 DEF Answered
  <2>3. QED BY <2>1, <2>2
<1>10. EchoesOK'
  <2>1. ASSUME NEW p \in InTransit', p \in InTransit PROVE EchoOK(p)'
    BY <1>3, <1>9, <2>1 DEF IInv, EchoesOK, EchoOK
  <2>2. ASSUME NEW p \in InTransit', NEW a \in IpAddr, p = [pkt EXCEPT !.src = a]
        PROVE  EchoOK(p)'
    <3>1. p.ttl = InitTtl /\ p.dst = ip /\ p.pl = pl
      BY <2>2
    <3>2. p.ttl \in 1..InitTtl
      BY <3>1, TtlAssumption
    <3>3. QED BY <1>3, <3>1, <3>2 DEF EchoOK
  <2>3. QED BY <1>6, <2>1, <2>2 DEF EchoesOK
<1>11. PongsOK'
  BY <1>2, <1>9 DEF IInv, PongsOK
<1>12. TypeOK'
  BY <1>6, <1>8 DEF TypeOK, IcmpTypeOK, NetInv
<1>13. QED BY <1>6, <1>10, <1>11, <1>12 DEF IInv

\* The owner of the pinged address answers.
LEMMA EchoRequestInv ==
  ASSUME IInv, NEW i \in Intf, RecvEchoRequest(i)
  PROVE  IInv'
<1> DEFINE n == NodeOf[i]
           pkt == Head(wire[i]).pkt
           pl == [pkt.pl EXCEPT !.type = "ECHO_REPLY"]
           reply == [src |-> 0, dst |-> pkt.src, ttl |-> InitTtl, pl |-> pl]
<1>0. PICK id : id = pkt.pl.id
  OBVIOUS
<1>1. NetInv /\ IcmpTypeOK
  BY TypeSplit DEF IInv
<1>2. /\ IpPreroute(i) /\ IsIpLocal(n, pkt.dst) /\ pkt.pl.type = "ECHO_REQUEST"
      /\ pinged' = pinged \cup {<<n, id>>} /\ wire' = RecvBytes(i) /\ call[Receiver] = NULL
      /\ UNCHANGED <<arp, update, ip_forward_enable, lost, pings, crashed>>
  BY <1>0 DEF RecvEchoRequest, IcmpInput, IpPreroute, Readable
<1>3. IpTaken(wire') /\ pkt \in Packet /\ pkt \in InTransit
  BY <1>1, <1>2, PrerouteTaken
<1>4. n \in Node
  BY TopologyAssumption
<1>5. EchoOK(pkt) /\ pkt.src \in IpAddr /\ id \in 1..MaxPings
  BY <1>0, <1>3, PacketFields DEF IInv, EchoesOK
<1>6. pl \in Payload /\ pl.id = id /\ pl.type = "ECHO_REPLY"
  <2>1. pkt.pl \in IcmpPayload
    BY <1>3, PacketFields
  <2>2. QED BY <1>0, <2>1, IcmpAssumption DEF IcmpPayload
<1> HIDE DEF pl
<1>7. /\ reply \in Packet /\ reply.pl = pl
      /\ \A a \in IpAddr : /\ [reply EXCEPT !.src = a].pl = pl
                           /\ [reply EXCEPT !.src = a].ttl = InitTtl
  BY <1>5, <1>6, AddressAssumption, TtlAssumption DEF Packet
<1>8. /\ ponged' \in {ponged, ponged \cup {<<n, id>>}}
      /\ UNCHANGED call \/ IpOutput(Receiver, n, pkt.src, pl, NULL)
  BY <1>0 DEF RecvEchoRequest, pl
<1>9. /\ NetInv'
      /\ \A p \in InTransit' :
           p \in InTransit \/ \E a \in IpAddr : p = [reply EXCEPT !.src = a]
  <2>1. CASE UNCHANGED call
    <3> HIDE DEF reply
    <3>1. ip_forward_enable' \in BOOLEAN
      BY <1>1, <1>2, NetFacts
    <3>2. QED BY <1>1, <1>2, <1>3, <2>1, <3>1, DropInv
  <2>2. CASE IpOutput(Receiver, n, pkt.src, pl, NULL)
    <3>1. IpPostroute(Receiver, n, reply, NULL) /\ Receiver \in Thread
      BY <2>2, SMTT(30) DEF IpOutput, Thread
    <3> HIDE DEF reply, n
    <3>2. QED BY <1>1, <1>2, <1>3, <1>4, <1>7, <3>1, PostrouteInv
  <2>3. QED BY <1>8, <2>1, <2>2
<1>10. Answered(id)' /\ id \in 1..Len(pings')
  BY <1>0, <1>2, <1>4, <1>5 DEF EchoOK, Answered
<1>11. \A k : Answered(k) => Answered(k)'
  BY <1>2 DEF Answered
<1>12. EchoesOK'
  <2>1. ASSUME NEW p \in InTransit', p \in InTransit PROVE EchoOK(p)'
    BY <1>2, <1>11, <2>1 DEF IInv, EchoesOK, EchoOK
  <2>2. ASSUME NEW p \in InTransit', NEW a \in IpAddr, p = [reply EXCEPT !.src = a]
        PROVE  EchoOK(p)'
    <3>1. p.ttl \in 1..InitTtl /\ p.pl = pl
      BY <1>7, <2>2, TtlAssumption
    <3>2. QED BY <1>6, <1>10, <3>1 DEF EchoOK
  <2>3. QED BY <1>9, <2>1, <2>2 DEF EchoesOK
<1>13. PongsOK'
  BY <1>2, <1>8, <1>10, <1>11 DEF IInv, PongsOK
<1>14. IcmpTypeOK'
  BY <1>1, <1>2, <1>4, <1>5, <1>8 DEF IcmpTypeOK
<1>15. TypeOK'
  BY <1>9, <1>14 DEF TypeOK, IcmpTypeOK, NetInv
<1>16. QED BY <1>9, <1>12, <1>13, <1>15 DEF IInv

\* The pong is recorded for a packet whose ping was answered.
LEMMA EchoReplyInv ==
  ASSUME IInv, NEW i \in Intf, RecvEchoReply(i)
  PROVE  IInv'
<1> DEFINE n == NodeOf[i]
           pkt == Head(wire[i]).pkt
           id == pkt.pl.id
<1>1. NetInv /\ IcmpTypeOK
  BY TypeSplit DEF IInv
<1>2. /\ IpPreroute(i) /\ pkt.pl.type = "ECHO_REPLY"
      /\ ponged' = ponged \cup {<<n, id>>}
      /\ wire' = RecvBytes(i)
      /\ UNCHANGED <<arp, call, update, ip_forward_enable, lost, pings, pinged, crashed>>
  BY DEF RecvEchoReply, IcmpInput
<1>3. /\ IpTaken(wire') /\ pkt \in Packet /\ pkt \in InTransit
      /\ ip_forward_enable' \in BOOLEAN
  BY <1>1, <1>2, PrerouteTaken, NetFacts
<1>4. NetInv' /\ InTransit' \subseteq InTransit
  BY <1>1, <1>2, <1>3, DropInv
<1>5. EchoOK(pkt) /\ id \in 1..MaxPings /\ n \in Node
  BY <1>3, PacketFields, TopologyAssumption DEF IInv, EchoesOK
<1>6. \A k : Answered(k) => Answered(k)'
  BY <1>2 DEF Answered
<1>7. EchoesOK'
  BY <1>2, <1>4, <1>6 DEF IInv, EchoesOK, EchoOK
<1>8. PongsOK'
  BY <1>2, <1>5, <1>6 DEF IInv, PongsOK, EchoOK
<1>9. IcmpTypeOK'
  BY <1>1, <1>2, <1>5 DEF IcmpTypeOK
<1>10. TypeOK'
  BY <1>4, <1>9 DEF TypeOK, IcmpTypeOK, NetInv
<1>11. QED BY <1>4, <1>7, <1>8, <1>10 DEF IInv

-----------------------------------------------------------------------------
(* The theorems. *)

\* Initially all tables, sockets and histories are empty.
LEMMA InitInv == Init => IInv
<1> SUFFICES ASSUME Init PROVE IInv
  OBVIOUS
<1>1. /\ \A n \in Node, a \in IpAddr : arp[n][a] = << >>
      /\ \A i \in Intf : wire[i] = << >> /\ Range(wire[i]) = {}
  BY DEF Init, NetInit, Range
<1>2. NetTypeOK
  BY TtlAssumption DEF Init, NetInit, NetTypeOK
<1>3. IcmpTypeOK
  <2>1. pings = << >> /\ Len(pings) = 0
    BY DEF Init
  <2>2. pings \in Seq([node : Node, ip : IpAddr])
    BY <2>1
  <2>3. Len(pings) <= MaxPings
    BY <2>1, IcmpAssumption
  <2>4. QED BY <2>2, <2>3 DEF Init, IcmpTypeOK
<1>4. CallsOK /\ UpdateOK /\ EntriesOK
  BY <1>1 DEF Init, NetInit, CallsOK, CallOK, UpdateOK, EntriesOK
<1>5. ArpFramesOK /\ PendingCovered
  <2>1. \A n \in Node, a \in IpAddr : Len(arp[n][a]) # 1
    BY <1>1
  <2>2. QED BY <1>1, <2>1 DEF ArpFramesOK, PendingCovered
<1>6. InTransit = {}
  BY <1>1 DEF InTransit, OnWire, Waiting, Held, Init, NetInit
<1>7. EchoesOK /\ PongsOK
  BY <1>6 DEF EchoesOK, PongsOK, Init
<1>8. QED BY <1>2, <1>3, <1>4, <1>5, <1>7, TypeSplit DEF IInv, NetInv

\* Every step of the receive thread, of an application or of the operating
\* system preserves the invariant.
LEMMA NextInv == IInv /\ [Next]_vars => IInv'
<1> SUFFICES ASSUME IInv, [Next]_vars PROVE IInv'
  OBVIOUS
<1>1. CASE NetRecv /\ UNCHANGED icmpvars
  BY <1>1, NetRecvInv
<1>2. ASSUME NEW i \in Intf, RecvEchoRequest(i) PROVE IInv'
  BY <1>2, EchoRequestInv
<1>3. ASSUME NEW i \in Intf, RecvEchoReply(i) PROVE IInv'
  BY <1>3, EchoReplyInv
<1>4. ASSUME NEW t \in App, NEW n \in Node, NEW ip \in PingTargets[n], PingOut(t, n, ip)
      PROVE  IInv'
  <2>1. ip \in IpAddr /\ t \in Thread
    BY IcmpAssumption DEF Thread
  <2>2. QED BY <1>4, <2>1, PingOutInv
<1>5. CASE NetEnvironment /\ UNCHANGED icmpvars
  BY <1>5, NetEnvironmentInv
<1>6. ASSUME NEW t \in App, PostrouteStep(t), UNCHANGED icmpvars PROVE IInv'
  <2>1. t \in Thread
    BY DEF Thread
  <2>2. QED BY <1>6, <2>1, StepInv
<1>7. CASE UNCHANGED vars
  <2>1. NetInv /\ UNCHANGED <<arp, wire, call, update, ip_forward_enable, lost>>
    BY <1>7 DEF vars, netvars, IInv
  <2>2. ip_forward_enable' \in BOOLEAN /\ UNCHANGED icmpvars
    BY <1>7, <2>1, NetFacts DEF vars
  <2>3. QED BY <2>1, <2>2, IdleInv
<1>8. QED BY <1>1, <1>2, <1>3, <1>4, <1>5, <1>6, <1>7 DEF Next, RecvTask, Application

\* The inductive invariant holds in every behaviour of the stack.
THEOREM Invariance == Spec => []IInv
BY InitInv, NextInv, PTL DEF Spec

\* Type correctness: tables, sockets and packets keep their shape; no action
\* reads a packet from an empty queue or an entry that does not exist.
THEOREM TypeCorrect == Spec => []TypeOK
<1>1. IInv => TypeOK
  BY DEF IInv
<1>2. QED BY <1>1, Invariance, PTL

\* Without loss, a packet that waits for the address of the other end of its
\* link, on the only entry of that address, always has the flush, or a request
\* or its reply, ahead of it, although no thread locks the table.
THEOREM NoPacketStranded == Spec => []PendingCovered
<1>1. IInv => PendingCovered
  BY DEF IInv, NetInv
<1>2. QED BY <1>1, Invariance, PTL

\* Every pong descends from a ping that the owner of the pinged address
\* received, over any topology and any routes.
THEOREM PongsAreAnswers == Spec => []PongAnswersPing
<1>1. IInv => PongAnswersPing
  BY DEF IInv, PongsOK, PongAnswersPing, Answered
<1>2. QED BY <1>1, Invariance, PTL

\* The time to live of every packet on a wire is between 1 and the one it was
\* sent with, over any routes: ip_forward drops a packet before it wraps.
THEOREM TtlStaysLive == Spec => []TtlLive
<1>1. IInv => TtlLive
  <2> SUFFICES ASSUME IInv, NEW i \in Intf, NEW frame \in Range(wire[i]),
                      frame.type = "IP"
               PROVE  frame.pkt.ttl \in 1..InitTtl
    BY DEF TtlLive
  <2>1. frame \in Frame
    BY DEF IInv, NetInv, NetTypeOK, Range
  <2>2. frame.pkt \in Packet
    BY <2>1, FrameKinds DEF IpFrame
  <2>3. frame.pkt \in InTransit
    BY <2>2 DEF InTransit, OnWire
  <2>4. QED BY <2>3 DEF IInv, EchoesOK, EchoOK
<1>2. QED BY <1>1, Invariance, PTL


-----------------------------------------------------------------------------
(* Which frames a neighbour refuses. *)

\* A frame with the address of a neighbour that has the route's next hop is
\* accepted at the other end of the route's interface.
LEMMA NeighbourAccepts ==
  ASSUME RoutesOnLink, NEW n \in Node, NEW ip \in IpAddr, NEW mac, Neighbour(n, ip, mac),
         NEW k \in Intf, OnRoute(n, ip, k), NEW pkt
  PROVE  EthernetInputQualify(Nbr[k], IpPktFrame(mac, pkt))
<1>1. PICK j \in Intf : IfIp[j] = ip /\ IfIp[j] # 0 /\ mac = IfMac[j] /\ NodeOf[Nbr[j]] = n
  BY DEF Neighbour
<1>2. j = Nbr[k]
  BY <1>1 DEF RoutesOnLink
<1>3. QED BY <1>1, <1>2 DEF EthernetInputQualify, IsIntfL3Mode, IpPktFrame

\* ethernet_output in ip_postroute.
LEMMA OutputAccepted ==
  ASSUME RoutesOnLink, NetInv, NEW t \in Thread, Output(t)
  PROVE  AcceptedOrRace
<1>a. PICK n, ip, e, skb : /\ n = call[t].node /\ ip = call[t].target_ip
                           /\ e = call[t].arp_entry /\ skb = call[t].skb
  OBVIOUS
<1>b. PICK mac : mac = arp[n][ip][e].mac
  OBVIOUS
<1>1. /\ call[t] # NULL /\ call[t].at = "output"
      /\ wire' = SendPktOut(wire, skb.oif, IpPktFrame(mac, skb.pkt))
  BY <1>a, <1>b DEF Output, At, EntryOf
<1>2. n \in Node /\ ip \in IpAddr /\ skb.oif \in Intf /\ skb.pkt \in Packet
  BY <1>1, <1>a, CallFields
<1>3. CallOK(t)
  BY DEF NetInv, CallsOK
<1>4. OnRoute(n, ip, skb.oif) /\ e \in DOMAIN arp[n][ip] /\ arp[n][ip][e].resolved
  BY <1>1, <1>3, <1>a DEF CallOK, EntryOf
<1>5. Neighbour(n, ip, mac) \/ Copying(n, ip, e)
  BY <1>2, <1>4, <1>b DEF NetInv, EntriesOK, EntryOK
<1>6. mac \in MacAddr \cup {ZeroMac}
  BY <1>2, <1>4, <1>b, NetFacts, EntryFacts DEF ArpEntry
<1>7. CASE Copying(n, ip, e)
  BY <1>1, <1>7, <1>a DEF Copying, SendsBeforeCopy, At, AcceptedOrRace
<1>8. CASE Neighbour(n, ip, mac)
  <2>1. EthernetInputQualify(Nbr[skb.oif], IpPktFrame(mac, skb.pkt))
    BY <1>2, <1>4, <1>8, NeighbourAccepts
  <2>2. PICK frame : frame = IpPktFrame(mac, skb.pkt)
    OBVIOUS
  <2>3. frame \in Frame /\ wire' = SendPktOut(wire, skb.oif, frame)
    BY <1>1, <1>2, <1>6, <2>2, PktFrame
  <2>4. \A j \in Intf : \A f \in Range(wire'[j]) :
          f \in Range(wire[j]) \/ (f = frame /\ j = Nbr[skb.oif])
    BY SMTT(30), <1>2, <2>3, Sent
  <2>5. QED BY <2>1, <2>2, <2>4 DEF AcceptedOrRace
<1>9. QED BY <1>5, <1>7, <1>8

\* ethernet_output in the flush.
LEMMA FlushAccepted ==
  ASSUME RoutesOnLink, NetInv, FlushPending
  PROVE  AcceptedOrRace
<1>a. PICK n, ip, e, x, q, pos : FlushStep(n, ip, e, x, q, pos)
  BY FlushFacts
<1>b. PICK skb, mac : skb = q[pos] /\ mac = x.mac
  OBVIOUS
<1>1. /\ n \in Node /\ ip \in IpAddr /\ Neighbour(n, ip, mac) /\ x \in ArpEntry
      /\ skb.oif \in Intf /\ skb.pkt \in Packet /\ OnRoute(n, ip, skb.oif)
      /\ wire' = SendPktOut(wire, skb.oif, IpPktFrame(mac, skb.pkt))
  BY <1>a, <1>b DEF FlushStep
<1>2. mac \in MacAddr \cup {ZeroMac}
  BY <1>1, <1>b DEF ArpEntry
<1>3. EthernetInputQualify(Nbr[skb.oif], IpPktFrame(mac, skb.pkt))
  BY <1>1, NeighbourAccepts
<1>4. PICK frame : frame = IpPktFrame(mac, skb.pkt)
  OBVIOUS
<1>5. frame \in Frame /\ wire' = SendPktOut(wire, skb.oif, frame)
  BY <1>1, <1>2, <1>4, PktFrame
<1>6. \A j \in Intf : \A f \in Range(wire'[j]) :
        f \in Range(wire[j]) \/ (f = frame /\ j = Nbr[skb.oif])
  BY <1>1, <1>5, Sent
<1>7. QED BY <1>3, <1>4, <1>6 DEF AcceptedOrRace

\* Steps that only take frames out of the sockets.
LEMMA TakenAccepted ==
  ASSUME NetInv, wire' = wire \/ \E i \in Intf : wire[i] # << >> /\ wire' = RecvBytes(i)
  PROVE  AcceptedOrRace
<1>1. ASSUME NEW i \in Intf, wire[i] # << >>, wire' = RecvBytes(i) PROVE AcceptedOrRace
  <2>1. /\ Range(wire[i]) = {Head(wire[i])} \cup Range(RecvBytes(i)[i])
        /\ \A j \in Intf : j # i => RecvBytes(i)[j] = wire[j]
    BY <1>1, NetFacts, TakeWire
  <2>2. \A j \in Intf : Range(wire'[j]) \subseteq Range(wire[j])
    BY <1>1, <2>1
  <2>3. QED BY <2>2 DEF AcceptedOrRace
<1>2. QED BY <1>1 DEF AcceptedOrRace

\* ARP frames are no IP frames.
LEMMA RequestAccepted ==
  ASSUME NetInv, NEW t \in Thread, SendRequest(t)
  PROVE  AcceptedOrRace
<1>a. PICK k, ip : k = call[t].skb.oif /\ ip = call[t].target_ip
  OBVIOUS
<1>1. call[t] # NULL /\ wire' = SendPktOut(wire, k, ArpRequest(k, ip))
  BY <1>a DEF SendRequest, At
<1>2. k \in Intf /\ ip \in IpAddr
  BY <1>1, <1>a, CallFields
<1>3. \A j \in Intf : \A f \in Range(wire'[j]) :
        f \in Range(wire[j]) \/ (f = ArpRequest(k, ip) /\ j = Nbr[k])
  BY <1>1, <1>2, RequestFrame, Sent
<1>4. ArpRequest(k, ip).type = "ARP"
  BY DEF ArpRequest
<1>5. QED BY <1>3, <1>4 DEF AcceptedOrRace

LEMMA ReplyAccepted ==
  ASSUME NetInv, NEW i \in Intf, RecvArpRequest(i)
  PROVE  AcceptedOrRace
<1>a. PICK head, rep : head = Head(wire[i]) /\ rep = ArpReply(i, head)
  OBVIOUS
<1>1. /\ wire[i] # << >> /\ head.type = "ARP"
      /\ wire' = RecvBytes(i) \/ wire' = SendPktOut(RecvBytes(i), i, rep)
  BY <1>a DEF RecvArpRequest, Readable
<1>2. /\ head \in Frame /\ RecvBytes(i) \in Wires
      /\ Range(wire[i]) = {head} \cup Range(RecvBytes(i)[i])
      /\ \A j \in Intf : j # i => RecvBytes(i)[j] = wire[j]
  BY <1>1, <1>a, NetFacts, TakeWire
<1>3. \A j \in Intf : Range(RecvBytes(i)[j]) \subseteq Range(wire[j])
  BY <1>2
<1>4. rep \in Frame /\ rep.type = "ARP"
  BY <1>1, <1>2, <1>a, ReplyFrame DEF ArpReply
<1>5. CASE wire' = RecvBytes(i)
  BY <1>3, <1>5 DEF AcceptedOrRace
<1>6. CASE wire' = SendPktOut(RecvBytes(i), i, rep)
  <2>1. PICK w, m : w = RecvBytes(i) /\ m = Nbr[i]
    OBVIOUS
  <2>2. w \in Wires /\ m \in Intf
    BY <1>2, <2>1, TopologyAssumption
  <2>3. /\ Range(SendPktOut(w, i, rep)[m]) = Range(w[m]) \cup {rep}
        /\ \A j \in Intf : j # m => SendPktOut(w, i, rep)[j] = w[j]
    BY SMTT(30), <1>4, <2>1, <2>2, SendWire
  <2>4. \A j \in Intf : \A f \in Range(wire'[j]) : f \in Range(w[j]) \/ f = rep
    BY <1>6, <2>1, <2>2, <2>3
  <2>5. QED BY <1>3, <1>4, <2>1, <2>4 DEF AcceptedOrRace
<1>7. QED BY <1>1, <1>5, <1>6

\* Every step.
LEMMA NextAccepted ==
  ASSUME RoutesOnLink, NetInv, [Next]_vars
  PROVE  AcceptedOrRace
<1> DEFINE Taken == wire' = wire \/ \E i \in Intf : wire[i] # << >> /\ wire' = RecvBytes(i)
<1>1. ASSUME NEW t \in Thread, PostrouteStep(t) PROVE AcceptedOrRace
  <2>1. CASE EntryAdd(t) \/ TestResolved(t) \/ QueuePacket(t)
    BY <2>1, TakenAccepted DEF EntryAdd, TestResolved, QueuePacket
  <2>2. QED BY <1>1, <2>1, RequestAccepted, OutputAccepted DEF PostrouteStep
<1>2. CASE NetRecv
  <2>1. CASE SetResolved \/ SetMac \/ FlushFirst
    BY <2>1, TakenAccepted DEF SetResolved, SetMac, FlushFirst
  <2>2. ASSUME NEW i \in Intf, RecvRefused(i) \/ RecvArpReply(i) \/ RecvForward(i)
        PROVE  AcceptedOrRace
    <3>1. wire[i] # << >> /\ wire' = RecvBytes(i)
      BY <2>2 DEF RecvRefused, RecvArpReply, RecvForward, IpPreroute, Readable
    <3>2. QED BY <3>1, TakenAccepted
  <2>3. Receiver \in Thread
    BY DEF Thread
  <2>4. QED BY <1>1, <1>2, <2>1, <2>2, <2>3, FlushAccepted, ReplyAccepted, SMTT(30) DEF NetRecv
<1>3. ASSUME NEW i \in Intf, RecvEchoRequest(i) \/ RecvEchoReply(i) PROVE AcceptedOrRace
  <2>1. wire[i] # << >> /\ wire' = RecvBytes(i)
    BY <1>3 DEF RecvEchoRequest, RecvEchoReply, IcmpInput, IpPreroute, Readable
  <2>2. QED BY <2>1, TakenAccepted
<1>4. CASE Application
  <2>1. ASSUME NEW t \in App, NEW n, NEW ip, PingOut(t, n, ip) PROVE AcceptedOrRace
    BY <2>1, TakenAccepted DEF PingOut
  <2>2. ASSUME NEW t \in App, PostrouteStep(t) PROVE AcceptedOrRace
    BY <1>1, <2>2 DEF Thread
  <2>3. QED BY <1>4, <2>1, <2>2 DEF Application
<1>5. CASE NetEnvironment
  <2>1. ASSUME NEW val, SetIpForward(val) PROVE AcceptedOrRace
    BY <2>1, TakenAccepted DEF SetIpForward
  <2>2. ASSUME NEW i \in Intf, LoseFrame(i) PROVE AcceptedOrRace
    BY <2>2, TakenAccepted DEF LoseFrame
  <2>3. QED BY <1>5, <2>1, <2>2 DEF NetEnvironment
<1>6. CASE UNCHANGED vars
  BY <1>6, TakenAccepted DEF vars, netvars
<1>7. QED BY <1>2, <1>3, <1>4, <1>5, <1>6 DEF Next, RecvTask

\* Over any consistent configuration, the only IP frame that its receiver
\* refuses for its hardware address is one sent between the two assignments
\* of arp_table_update_from_arp_reply, to the entry they are made to.
THEOREM RefusalsAreRaces == RoutesOnLink => (Spec => RefusedOnlyInRace)
<1> SUFFICES ASSUME RoutesOnLink PROVE Spec => RefusedOnlyInRace
  OBVIOUS
<1>1. IInv /\ [Next]_vars => [AcceptedOrRace]_wire
  BY NextAccepted DEF IInv
<1>2. QED BY <1>1, Invariance, PTL DEF Spec, RefusedOnlyInRace

-----------------------------------------------------------------------------
(* No duplicates.  The places of an echo are positions in the sockets w,   *)
(* positions in the queues of the tables a, the threads with a call in c   *)
(* that holds it, and the nodes of the set P that received its reply.      *)

\* The frames and the queued packets of one echo.
FrameOf(id) == {frame \in Frame : frame.type = "IP" /\ frame.pkt.pl.id = id}

SkbOf(id) == {skb \in Pending : skb.pkt.pl.id = id}

\* The queue of an entry; empty if there is none.
QueueOf(a, n, ip, e) ==
  IF e \in DOMAIN a[n][ip] THEN a[n][ip][e].pending_pkts ELSE << >>

WireHas(w, i, id) == Range(w[i]) \cap FrameOf(id) # {}

QueueHas(a, n, ip, e, id) == Range(QueueOf(a, n, ip, e)) \cap SkbOf(id) # {}

CallHas(c, t, id) == c[t] # NULL /\ c[t].at # "request" /\ c[t].skb.pkt.pl.id = id

NoneOnWires(w, id) == \A i \in Intf : ~WireHas(w, i, id)

NoneOnQueues(a, id) ==
  \A n \in Node, ip \in IpAddr, e \in Nat : ~QueueHas(a, n, ip, e, id)

NoneInCalls(c, id) == \A t \in Thread : ~CallHas(c, t, id)

NoPong(P, id) == \A n \in Node : <<n, id>> \notin P

OneOnWires(w, id) ==
  /\ \A i \in Intf : AtMostOnce(w[i], FrameOf(id))
  /\ \A i, j \in Intf : WireHas(w, i, id) /\ WireHas(w, j, id) => i = j

OneOnQueues(a, id) ==
  /\ \A n \in Node, ip \in IpAddr, e \in Nat : AtMostOnce(QueueOf(a, n, ip, e), SkbOf(id))
  /\ \A n, m \in Node, ip, jp \in IpAddr, e, f \in Nat :
       QueueHas(a, n, ip, e, id) /\ QueueHas(a, m, jp, f, id) => n = m /\ ip = jp /\ e = f

OneInCalls(c, id) == \A s, t \in Thread : CallHas(c, s, id) /\ CallHas(c, t, id) => s = t

OnePong(P, id) == \A n, m \in Node : <<n, id>> \in P /\ <<m, id>> \in P => n = m

Gone(w, a, c, P, id) ==
  NoneOnWires(w, id) /\ NoneOnQueues(a, id) /\ NoneInCalls(c, id) /\ NoPong(P, id)

Alone(w, a, c, P, id) ==
  /\ OneOnWires(w, id) /\ OneOnQueues(a, id) /\ OneInCalls(c, id) /\ OnePong(P, id)
  /\ NoneOnWires(w, id) \/ NoneOnQueues(a, id)
  /\ NoneOnWires(w, id) \/ NoneInCalls(c, id)
  /\ NoneOnWires(w, id) \/ NoPong(P, id)
  /\ NoneOnQueues(a, id) \/ NoneInCalls(c, id)
  /\ NoneOnQueues(a, id) \/ NoPong(P, id)
  /\ NoneInCalls(c, id) \/ NoPong(P, id)

\* The strengthening of NoDuplicate, by places instead of numbers.
EchoesAlone == \A id \in 1..MaxPings : Alone(wire, arp, call, ponged, id)

\* Reading a frame takes its echo off the wires.
LEMMA TakeAlone ==
  ASSUME wire \in Wires, NEW i \in Intf, wire[i] # << >>, NEW id, OneOnWires(wire, id)
  PROVE  /\ OneOnWires(RecvBytes(i), id)
         /\ NoneOnWires(wire, id) => NoneOnWires(RecvBytes(i), id)
         /\ Head(wire[i]) \in FrameOf(id) =>
              NoneOnWires(RecvBytes(i), id) /\ ~NoneOnWires(wire, id)
<1> DEFINE w == RecvBytes(i)
<1>1. wire[i] \in Seq(Frame)
  BY DEF Wires
<1>2. /\ Range(wire[i]) = {Head(wire[i])} \cup Range(w[i]) /\ w[i] = Tail(wire[i])
      /\ \A j \in Intf : j # i => w[j] = wire[j]
  BY <1>1, TailRange DEF RecvBytes, Wires
<1>3. /\ AtMostOnce(w[i], FrameOf(id))
      /\ Head(wire[i]) \in FrameOf(id) => Range(w[i]) \cap FrameOf(id) = {}
  BY <1>1, <1>2, TailOnce DEF OneOnWires
<1> HIDE DEF w
<1>4. \A j \in Intf : WireHas(w, j, id) => WireHas(wire, j, id)
  BY <1>2 DEF WireHas
<1>5. OneOnWires(w, id)
  BY <1>2, <1>3, <1>4 DEF OneOnWires
<1>6. NoneOnWires(wire, id) => NoneOnWires(w, id)
  BY <1>4 DEF NoneOnWires
<1>7. ASSUME Head(wire[i]) \in FrameOf(id)
      PROVE  NoneOnWires(w, id) /\ ~NoneOnWires(wire, id)
  <2>1. WireHas(wire, i, id) /\ ~WireHas(w, i, id)
    BY <1>2, <1>3, <1>7 DEF WireHas
  <2>2. QED BY <1>4, <2>1 DEF NoneOnWires, OneOnWires
<1>8. QED BY <1>5, <1>6, <1>7 DEF w

\* Sending a frame of another echo, of none, or of one that is on no wire.
LEMMA SendAlone ==
  ASSUME NEW w \in Wires, NEW i \in Intf, NEW frame \in Frame, NEW id, OneOnWires(w, id),
         frame \in FrameOf(id) => NoneOnWires(w, id)
  PROVE  /\ OneOnWires(SendPktOut(w, i, frame), id)
         /\ frame \notin FrameOf(id) /\ NoneOnWires(w, id) =>
              NoneOnWires(SendPktOut(w, i, frame), id)
<1> DEFINE v == SendPktOut(w, i, frame)
<1>1. PICK j : j = Nbr[i]
  OBVIOUS
<1>2. j \in Intf /\ w[j] \in Seq(Frame)
  BY <1>1, TopologyAssumption DEF Wires
<1>3. /\ Range(v[j]) = Range(w[j]) \cup {frame} /\ \A k \in Intf : k # j => v[k] = w[k]
  BY <1>1, SendWire
<1>4. v[j] = Append(w[j], frame)
  BY <1>1, <1>2 DEF SendPktOut, Wires
<1> HIDE DEF v
<1>5. AtMostOnce(v[j], FrameOf(id))
  <2>1. AtMostOnce(w[j], FrameOf(id))
    BY <1>2 DEF OneOnWires
  <2>2. frame \in FrameOf(id) => Range(w[j]) \cap FrameOf(id) = {}
    BY <1>2 DEF NoneOnWires, WireHas
  <2>3. QED BY <1>2, <1>4, <2>1, <2>2, AppendOnce
<1>6. \A k \in Intf : WireHas(v, k, id) => WireHas(w, k, id) \/ (k = j /\ frame \in FrameOf(id))
  BY <1>3 DEF WireHas
<1>7. OneOnWires(v, id)
  <2>1. \A k, l \in Intf : WireHas(v, k, id) /\ WireHas(v, l, id) => k = l
    BY <1>6 DEF OneOnWires, NoneOnWires
  <2>2. QED BY <1>3, <1>5, <2>1 DEF OneOnWires
<1>8. frame \notin FrameOf(id) /\ NoneOnWires(w, id) => NoneOnWires(v, id)
  BY <1>6 DEF NoneOnWires
<1>9. QED BY <1>7, <1>8 DEF v

\* All queues but that of one entry are the same.
SameElsewhere(a, b, n, ip, e) ==
  \A m \in Node, jp \in IpAddr, f \in Nat :
    m # n \/ jp # ip \/ f # e => QueueOf(b, m, jp, f) = QueueOf(a, m, jp, f)

\* One entry is changed.
LEMMA EntryQueue ==
  ASSUME arp \in Tables, NEW n \in Node, NEW ip \in IpAddr, NEW e \in DOMAIN arp[n][ip],
         OneChanged(n, ip, e)
  PROVE  /\ e \in Nat
         /\ QueueOf(arp, n, ip, e) = arp[n][ip][e].pending_pkts
         /\ QueueOf(arp', n, ip, e) = arp'[n][ip][e].pending_pkts
         /\ SameElsewhere(arp, arp', n, ip, e)
<1>1. e \in Nat
  BY EntryFacts
<1>2. QueueOf(arp, n, ip, e) = arp[n][ip][e].pending_pkts
  BY DEF QueueOf
<1>3. QueueOf(arp', n, ip, e) = arp'[n][ip][e].pending_pkts
  BY DEF QueueOf, OneChanged
<1>4. ASSUME NEW m \in Node, NEW jp \in IpAddr, NEW f \in Nat, m # n \/ jp # ip \/ f # e
      PROVE  QueueOf(arp', m, jp, f) = QueueOf(arp, m, jp, f)
  <2>1. DOMAIN arp'[m][jp] = DOMAIN arp[m][jp]
    BY DEF OneChanged
  <2>2. f \in DOMAIN arp[m][jp] => arp'[m][jp][f] = arp[m][jp][f]
    BY <1>4 DEF OneChanged
  <2>3. QED BY <2>1, <2>2 DEF QueueOf
<1>5. QED BY <1>1, <1>2, <1>3, <1>4 DEF SameElsewhere

\* A queue is a sequence of packets.
LEMMA QueueType ==
  ASSUME arp \in Tables, NEW n \in Node, NEW ip \in IpAddr, NEW e
  PROVE  QueueOf(arp, n, ip, e) \in Seq(Pending)
<1>1. CASE e \in DOMAIN arp[n][ip]
  BY <1>1, EntryFacts DEF QueueOf
<1>2. CASE e \notin DOMAIN arp[n][ip]
  BY <1>2 DEF QueueOf
<1>3. QED BY <1>1, <1>2

\* The queue holds what it held before, or less; or one packet more, of an
\* echo that is on no queue.
LEMMA QueueAlone ==
  ASSUME NEW a, NEW b, NEW n \in Node, NEW ip \in IpAddr, NEW e \in Nat, NEW id, OneOnQueues(a, id),
         AtMostOnce(QueueOf(b, n, ip, e), SkbOf(id)),
         SameElsewhere(a, b, n, ip, e),
         NoneOnQueues(a, id) \/ ~QueueHas(b, n, ip, e, id) \/ QueueHas(a, n, ip, e, id)
  PROVE  OneOnQueues(b, id)
<1>1. \A m \in Node, jp \in IpAddr, f \in Nat :
        m # n \/ jp # ip \/ f # e =>
          /\ AtMostOnce(QueueOf(b, m, jp, f), SkbOf(id))
          /\ QueueHas(b, m, jp, f, id) => QueueHas(a, m, jp, f, id)
  BY DEF OneOnQueues, QueueHas, SameElsewhere
<1>2. \A m \in Node, jp \in IpAddr, f \in Nat : AtMostOnce(QueueOf(b, m, jp, f), SkbOf(id))
  BY <1>1
<1>3. ASSUME NEW m \in Node, NEW jp \in IpAddr, NEW f \in Nat,
             NEW k \in Node, NEW kp \in IpAddr, NEW g \in Nat,
             QueueHas(b, m, jp, f, id), QueueHas(b, k, kp, g, id)
      PROVE  m = k /\ jp = kp /\ f = g
  <2>1. CASE ~QueueHas(b, n, ip, e, id) \/ QueueHas(a, n, ip, e, id)
    BY <1>1, <1>3, <2>1 DEF OneOnQueues
  <2>2. CASE NoneOnQueues(a, id)
    BY <1>1, <1>3, <2>2 DEF NoneOnQueues
  <2>3. QED BY <2>1, <2>2
<1>4. QED BY <1>2, <1>3 DEF OneOnQueues

\* list_add to pending_pkts.
LEMMA EnqueueAlone ==
  ASSUME NEW a, NEW b, NEW n \in Node, NEW ip \in IpAddr, NEW e \in Nat, NEW skb \in Pending,
         QueueOf(a, n, ip, e) \in Seq(Pending),
         QueueOf(b, n, ip, e) = <<skb>> \o QueueOf(a, n, ip, e),
         SameElsewhere(a, b, n, ip, e),
         NEW id, OneOnQueues(a, id), skb \in SkbOf(id) => NoneOnQueues(a, id)
  PROVE  /\ OneOnQueues(b, id)
         /\ skb \notin SkbOf(id) /\ NoneOnQueues(a, id) => NoneOnQueues(b, id)
<1> DEFINE q == QueueOf(a, n, ip, e)
<1>1. QueueOf(b, n, ip, e) = <<skb>> \o q /\ q \in Seq(Pending)
  OBVIOUS
<1>2. AtMostOnce(q, SkbOf(id)) /\ (skb \in SkbOf(id) => Range(q) \cap SkbOf(id) = {})
  BY DEF OneOnQueues, NoneOnQueues, QueueHas
<1> HIDE DEF q
<1>3. AtMostOnce(<<skb>> \o q, SkbOf(id)) /\ Range(<<skb>> \o q) = Range(q) \cup {skb}
  <2> DEFINE T == SkbOf(id)
  <2>1. AtMostOnce(q, T) /\ (skb \in T => Range(q) \cap T = {})
    BY <1>2
  <2> HIDE DEF T
  <2>2. AtMostOnce(<<skb>> \o q, T)
    BY <1>1, <2>1, PrependOnce
  <2>3. QED BY <1>1, <2>2, PrependRange DEF T
<1>4. skb \notin SkbOf(id) => (QueueHas(b, n, ip, e, id) => QueueHas(a, n, ip, e, id))
  BY <1>1, <1>3 DEF QueueHas, q
<1>5. OneOnQueues(b, id)
  <2>1. AtMostOnce(QueueOf(b, n, ip, e), SkbOf(id))
    BY <1>1, <1>3
  <2>2. NoneOnQueues(a, id) \/ ~QueueHas(b, n, ip, e, id) \/ QueueHas(a, n, ip, e, id)
    BY <1>4
  <2>3. QED BY <2>1, <2>2, QueueAlone
<1>6. ASSUME skb \notin SkbOf(id), NoneOnQueues(a, id) PROVE NoneOnQueues(b, id)
  <2>1. ASSUME NEW m \in Node, NEW jp \in IpAddr, NEW f \in Nat PROVE ~QueueHas(b, m, jp, f, id)
    <3>1. CASE m = n /\ jp = ip /\ f = e
      BY <1>4, <1>6, <3>1 DEF NoneOnQueues
    <3>2. CASE m # n \/ jp # ip \/ f # e
      BY <1>6, <3>2 DEF NoneOnQueues, QueueHas, SameElsewhere
    <3>3. QED BY <3>1, <3>2
  <2>2. QED BY <2>1 DEF NoneOnQueues
<1>7. QED BY <1>5, <1>6

\* The flush takes a packet off its queue.
LEMMA DequeueAlone ==
  ASSUME NEW a, NEW b, NEW n \in Node, NEW ip \in IpAddr, NEW e \in Nat,
         NEW q \in Seq(Pending), NEW pos \in 1..Len(q), QueueOf(a, n, ip, e) = q,
         QueueOf(b, n, ip, e) = RemoveAt(q, pos),
         SameElsewhere(a, b, n, ip, e),
         NEW id, OneOnQueues(a, id)
  PROVE  /\ OneOnQueues(b, id)
         /\ NoneOnQueues(a, id) => NoneOnQueues(b, id)
         /\ q[pos] \in SkbOf(id) => NoneOnQueues(b, id) /\ ~NoneOnQueues(a, id)
<1>1. AtMostOnce(q, SkbOf(id))
  BY DEF OneOnQueues
<1>2. /\ AtMostOnce(RemoveAt(q, pos), SkbOf(id)) /\ Range(RemoveAt(q, pos)) \subseteq Range(q)
      /\ q[pos] \in SkbOf(id) => Range(RemoveAt(q, pos)) \cap SkbOf(id) = {}
  <2> DEFINE T == SkbOf(id)
  <2>1. AtMostOnce(q, T)
    BY <1>1
  <2> HIDE DEF T
  <2>2. /\ AtMostOnce(RemoveAt(q, pos), T) /\ Range(RemoveAt(q, pos)) \subseteq Range(q)
        /\ q[pos] \in T => Range(RemoveAt(q, pos)) \cap T = {}
    BY <2>1, RemoveAtOnce
  <2>3. QED BY <2>2 DEF T
<1>3. q[pos] \in Range(q)
  <2>1. DOMAIN q = 1..Len(q)
    OBVIOUS
  <2>2. QED BY <2>1 DEF Range
<1>4. QueueHas(b, n, ip, e, id) => QueueHas(a, n, ip, e, id)
  BY <1>2 DEF QueueHas
<1>5. \A m \in Node, jp \in IpAddr, f \in Nat :
        QueueHas(b, m, jp, f, id) => QueueHas(a, m, jp, f, id)
  <2>1. ASSUME NEW m \in Node, NEW jp \in IpAddr, NEW f \in Nat, QueueHas(b, m, jp, f, id)
        PROVE  QueueHas(a, m, jp, f, id)
    <3>1. CASE m = n /\ jp = ip /\ f = e
      BY <1>4, <2>1, <3>1
    <3>2. CASE m # n \/ jp # ip \/ f # e
      BY <2>1, <3>2 DEF QueueHas, SameElsewhere
    <3>3. QED BY <3>1, <3>2
  <2>2. QED BY <2>1
<1>6. OneOnQueues(b, id)
  <2>1. AtMostOnce(QueueOf(b, n, ip, e), SkbOf(id))
    BY <1>2
  <2>2. NoneOnQueues(a, id) \/ ~QueueHas(b, n, ip, e, id) \/ QueueHas(a, n, ip, e, id)
    BY <1>4
  <2>3. QED BY <2>1, <2>2, QueueAlone
<1>7. NoneOnQueues(a, id) => NoneOnQueues(b, id)
  BY <1>5 DEF NoneOnQueues
<1>8. ASSUME q[pos] \in SkbOf(id) PROVE NoneOnQueues(b, id) /\ ~NoneOnQueues(a, id)
  <2>1. QueueHas(a, n, ip, e, id) /\ ~QueueHas(b, n, ip, e, id)
    BY <1>2, <1>3, <1>8 DEF QueueHas
  <2>2. QED BY <1>5, <2>1 DEF NoneOnQueues, OneOnQueues
<1>9. QED BY <1>6, <1>7, <1>8

\* The queues are the same, entry by entry.
LEMMA SameQueues ==
  ASSUME NEW a, NEW b, NEW id,
         \A m \in Node, jp \in IpAddr, f \in Nat : QueueOf(b, m, jp, f) = QueueOf(a, m, jp, f)
  PROVE  /\ OneOnQueues(a, id) => OneOnQueues(b, id)
         /\ NoneOnQueues(a, id) => NoneOnQueues(b, id)
<1>1. \A m \in Node, jp \in IpAddr, f \in Nat :
        QueueHas(b, m, jp, f, id) <=> QueueHas(a, m, jp, f, id)
  BY DEF QueueHas
<1>2. OneOnQueues(a, id) => OneOnQueues(b, id)
  BY <1>1 DEF OneOnQueues
<1>3. QED BY <1>1, <1>2 DEF NoneOnQueues

\* The call of t may hold the echo afterwards only if it did before, or no
\* other call does.
LEMMA CallAlone ==
  ASSUME NEW c, NEW d, NEW t \in Thread, \A s \in Thread : s # t => d[s] = c[s],
         NEW id, OneInCalls(c, id),
         CallHas(d, t, id) => CallHas(c, t, id) \/ NoneInCalls(c, id)
  PROVE  /\ OneInCalls(d, id)
         /\ ~CallHas(d, t, id) /\ NoneInCalls(c, id) => NoneInCalls(d, id)
         /\ ~CallHas(d, t, id) /\ CallHas(c, t, id) => NoneInCalls(d, id)
         /\ CallHas(c, t, id) => ~NoneInCalls(c, id)
<1>1. \A s \in Thread : s # t => (CallHas(d, s, id) <=> CallHas(c, s, id))
  BY DEF CallHas
<1>2. QED BY <1>1 DEF OneInCalls, NoneInCalls

-----------------------------------------------------------------------------
(* Every step keeps the echoes apart. *)

\* ip_postroute takes charge of a packet whose echo is nowhere, or drops it.
LEMMA PostrouteAlone ==
  ASSUME NetInv, NEW t \in Thread, call[t] = NULL, NEW n \in Node, NEW pkt \in Packet,
         NEW oif, IpPostroute(t, n, pkt, oif), NEW w, NEW P, NEW id,
         Alone(w, arp, call, P, id), pkt.pl.id = id => Gone(w, arp, call, P, id)
  PROVE  Alone(w, arp, call', P, id)
<1>1. CASE UNCHANGED call
  BY <1>1
<1>2. CASE ~UNCHANGED call
  <2>a. PICK rt : rt = RtLookup[n][pkt.dst]
    OBVIOUS
  <2> DEFINE target_ip == IF rt.next = 0 THEN pkt.dst ELSE rt.next
             found == ArpTableLookup(n, target_ip)
  <2>c. PICK c : c = [at |-> IF found = 0 THEN "add" ELSE "test", node |-> n,
                      target_ip |-> target_ip, arp_entry |-> found,
                      skb |-> [oif |-> rt.intf,
                               pkt |-> [pkt EXCEPT !.src = IfIp[rt.intf]]]]
    OBVIOUS
  <2>b. /\ call' = [call EXCEPT ![t] = c]
        /\ c.at \in {"add", "test"}
        /\ c.skb.pkt = [pkt EXCEPT !.src = IfIp[rt.intf]]
    BY <1>2, <2>a, <2>c DEF IpPostroute
  <2> HIDE DEF target_ip, found
  <2>1. c.skb.pkt.pl = pkt.pl
    BY <2>b DEF Packet
  <2>2. call'[t] = c /\ \A s \in Thread : s # t => call'[s] = call[s]
    BY <2>b, NetFacts
  <2>3. CallHas(call', t, id) => pkt.pl.id = id
    BY <2>1, <2>2 DEF CallHas
  <2>4. /\ OneInCalls(call', id)
        /\ pkt.pl.id # id /\ NoneInCalls(call, id) => NoneInCalls(call', id)
    <3>1. OneInCalls(call, id) /\ (CallHas(call', t, id) => NoneInCalls(call, id))
      BY <2>3 DEF Alone, Gone
    <3>2. QED BY <2>2, <2>3, <3>1, CallAlone
  <2>5. QED BY <2>4 DEF Alone, Gone
<1>3. QED BY <1>1, <1>2

\* A step of a thread that keeps the packet in its hands, and the queues.
LEMMA SameAlone ==
  ASSUME EchoesAlone, UNCHANGED <<wire, ponged>>,
         \A s \in Thread, id \in 1..MaxPings : CallHas(call', s, id) <=> CallHas(call, s, id),
         \A m \in Node, jp \in IpAddr, f \in Nat :
           QueueOf(arp', m, jp, f) = QueueOf(arp, m, jp, f)
  PROVE  EchoesAlone'
<1>1. ASSUME NEW id \in 1..MaxPings PROVE Alone(wire, arp', call', ponged, id)
  <2>1. Alone(wire, arp, call, ponged, id)
    BY DEF EchoesAlone
  <2>2. /\ OneOnQueues(arp, id) => OneOnQueues(arp', id)
        /\ NoneOnQueues(arp, id) => NoneOnQueues(arp', id)
    BY SameQueues
  <2>3. /\ OneInCalls(call, id) => OneInCalls(call', id)
        /\ NoneInCalls(call, id) => NoneInCalls(call', id)
    BY DEF OneInCalls, NoneInCalls
  <2>4. QED BY <2>1, <2>2, <2>3 DEF Alone
<1>2. QED BY <1>1 DEF EchoesAlone

\* A new entry has an empty queue.
LEMMA EntryAddAlone ==
  ASSUME NetInv, EchoesAlone, NEW t \in Thread, EntryAdd(t), ponged' = ponged
  PROVE  EchoesAlone'
<1>a. PICK n, ip : n = call[t].node /\ ip = call[t].target_ip
  OBVIOUS
<1>b. PICK new : new = Len(arp[n][ip]) + 1
  OBVIOUS
<1>1. /\ call[t] # NULL /\ call[t].at = "add" /\ wire' = wire
      /\ arp' = [arp EXCEPT ![n][ip] = Append(@, NewArpEntry)]
      /\ call' = [call EXCEPT ![t].at = "test", ![t].arp_entry = new]
  BY <1>a, <1>b DEF EntryAdd, At
<1>2. n \in Node /\ ip \in IpAddr /\ arp \in Tables /\ call[t] \in Call
  BY <1>1, <1>a, CallFields, NetFacts
<1>3. /\ DOMAIN arp'[n][ip] = DOMAIN arp[n][ip] \cup {new} /\ new \notin DOMAIN arp[n][ip]
      /\ arp'[n][ip][new] = NewArpEntry
      /\ \A f \in DOMAIN arp[n][ip] : arp'[n][ip][f] = arp[n][ip][f]
      /\ \A m \in Node, a \in IpAddr : m # n \/ a # ip => arp'[m][a] = arp[m][a]
  <2>1. arp' = [arp EXCEPT ![n][ip] = Append(@, NewArpEntry)]
    BY <1>1
  <2>2. n \in Node /\ ip \in IpAddr /\ arp \in Tables
    BY <1>2
  <2>3. /\ DOMAIN arp'[n][ip] = DOMAIN arp[n][ip] \cup {Len(arp[n][ip]) + 1}
        /\ Len(arp[n][ip]) + 1 \notin DOMAIN arp[n][ip]
        /\ arp'[n][ip][Len(arp[n][ip]) + 1] = NewArpEntry
        /\ \A f \in DOMAIN arp[n][ip] : arp'[n][ip][f] = arp[n][ip][f]
        /\ \A m \in Node, a \in IpAddr : m # n \/ a # ip => arp'[m][a] = arp[m][a]
    BY <2>1, <2>2, AddEntry
  <2>4. QED BY <1>b, <2>3
<1>4. ASSUME NEW m \in Node, NEW jp \in IpAddr, NEW f \in Nat
      PROVE  QueueOf(arp', m, jp, f) = QueueOf(arp, m, jp, f)
  <2>1. CASE m # n \/ jp # ip
    <3>1. arp'[m][jp] = arp[m][jp]
      BY <1>3, <2>1
    <3>2. QED BY <3>1 DEF QueueOf
  <2>2. CASE m = n /\ jp = ip
    <3>1. NewArpEntry.pending_pkts = << >>
      BY DEF NewArpEntry
    <3>2. QED BY <1>3, <2>2, <3>1 DEF QueueOf
  <2>3. QED BY <2>1, <2>2
<1>5. /\ call'[t] # NULL /\ call'[t].at = "test" /\ call'[t].skb = call[t].skb
      /\ \A s \in Thread : s # t => call'[s] = call[s]
  <2>a. PICK c : c = [call[t] EXCEPT !.at = "test", !.arp_entry = new]
    OBVIOUS
  <2>1. new \in Nat
    BY <1>2, <1>b, TableFacts
  <2>2. c \in Call /\ c.at = "test" /\ c.skb = call[t].skb
    BY <1>2, <2>a, <2>1 DEF Call
  <2>3. c # NULL
    BY <2>2, ThreadAssumption
  <2>4. call' = [call EXCEPT ![t] = c]
    BY <1>1, <2>a
  <2>5. QED BY <2>2, <2>3, <2>4, NetFacts
<1>6. \A s \in Thread, id \in 1..MaxPings : CallHas(call', s, id) <=> CallHas(call, s, id)
  BY <1>1, <1>5 DEF CallHas
<1>7. QED BY <1>1, <1>4, <1>6, SameAlone

\* The test of resolved.
LEMMA TestAlone ==
  ASSUME NetInv, EchoesAlone, NEW t \in Thread, TestResolved(t), ponged' = ponged
  PROVE  EchoesAlone'
<1>a. PICK place : place = IF EntryOf(t).resolved THEN "output" ELSE "queue"
  OBVIOUS
<1>1. /\ call[t] # NULL /\ call[t].at = "test" /\ Goto(t, place)
      /\ UNCHANGED <<arp, wire>>
  BY <1>a DEF TestResolved, At
<1>2. place \in {"output", "queue"}
  BY <1>a
<1>3. /\ call'[t] # NULL /\ call'[t].at = place /\ call'[t].skb = call[t].skb
      /\ \A s \in Thread : s # t => call'[s] = call[s]
  BY <1>1, <1>2, GotoType
<1>4. \A s \in Thread, id \in 1..MaxPings : CallHas(call', s, id) <=> CallHas(call, s, id)
  BY <1>1, <1>2, <1>3 DEF CallHas
<1>5. QED BY <1>1, <1>4, SameAlone

\* The packet moves from the thread's hands to the queue.
LEMMA QueueStepAlone ==
  ASSUME NetInv, EchoesAlone, NEW t \in Thread, QueuePacket(t), ponged' = ponged
  PROVE  EchoesAlone'
<1>a. PICK n, ip, e, skb : /\ n = call[t].node /\ ip = call[t].target_ip
                           /\ e = call[t].arp_entry /\ skb = call[t].skb
  OBVIOUS
<1>b. PICK x, q, y : /\ x = arp[n][ip][e] /\ q = x.pending_pkts
                     /\ y = [x EXCEPT !.pending_pkts = <<skb>> \o q]
  OBVIOUS
<1>1. /\ call[t] # NULL /\ call[t].at = "queue" /\ Goto(t, "request") /\ wire' = wire
      /\ arp' = [arp EXCEPT ![n][ip][e] = Enqueue(x, skb)]
  BY <1>a, <1>b DEF QueuePacket, At, EntryOf
<1>2. n \in Node /\ ip \in IpAddr /\ skb \in Pending /\ arp \in Tables
  BY <1>1, <1>a, CallFields, NetFacts
<1>3. e \in DOMAIN arp[n][ip]
  BY <1>1, <1>a DEF NetInv, CallsOK, CallOK
<1>4. x \in ArpEntry /\ q \in Seq(Pending)
  BY <1>2, <1>3, <1>b, EntryFacts
<1>5. Enqueue(x, skb) = y
  BY <1>b DEF Enqueue
<1>6. y \in ArpEntry /\ y.pending_pkts = <<skb>> \o q
  <2>1. <<skb>> \o q \in Seq(Pending)
    BY <1>2, <1>4, PrependRange
  <2>2. y = [x EXCEPT !.pending_pkts = <<skb>> \o q]
    BY <1>b
  <2>3. QED BY <1>4, <2>1, <2>2 DEF ArpEntry
<1>7. arp' \in Tables /\ arp'[n][ip][e] = y /\ OneChanged(n, ip, e)
  <2>1. arp' = [arp EXCEPT ![n][ip][e] = y]
    BY <1>1, <1>5
  <2>2. y \in ArpEntry
    BY <1>6
  <2>3. n \in Node /\ ip \in IpAddr /\ e \in DOMAIN arp[n][ip] /\ arp \in Tables
    BY <1>2, <1>3
  <2>4. QED BY <2>1, <2>2, <2>3, SetEntry
<1>8. /\ e \in Nat /\ QueueOf(arp, n, ip, e) = q /\ SameElsewhere(arp, arp', n, ip, e)
      /\ QueueOf(arp', n, ip, e) = <<skb>> \o q
  <2>1. /\ e \in Nat /\ SameElsewhere(arp, arp', n, ip, e)
        /\ QueueOf(arp, n, ip, e) = arp[n][ip][e].pending_pkts
        /\ QueueOf(arp', n, ip, e) = arp'[n][ip][e].pending_pkts
    BY <1>2, <1>3, <1>7, EntryQueue
  <2>2. QED BY <1>6, <1>7, <1>b, <2>1
<1>9. /\ call'[t] # NULL /\ call'[t].at = "request"
      /\ \A s \in Thread : s # t => call'[s] = call[s]
  BY <1>1, GotoType
<1>10. ASSUME NEW id \in 1..MaxPings PROVE Alone(wire, arp', call', ponged, id)
  <2>1. Alone(wire, arp, call, ponged, id)
    BY DEF EchoesAlone
  <2>2. ~CallHas(call', t, id) /\ (CallHas(call, t, id) <=> skb \in SkbOf(id))
    BY <1>1, <1>2, <1>9, <1>a DEF CallHas, SkbOf
  <2>3. /\ OneInCalls(call', id) /\ (NoneInCalls(call, id) => NoneInCalls(call', id))
        /\ skb \in SkbOf(id) => NoneInCalls(call', id) /\ ~NoneInCalls(call, id)
    <3>1. OneInCalls(call, id)
      BY <2>1 DEF Alone
    <3>2. QED BY <1>9, <2>2, <3>1, CallAlone
  <2>4. /\ OneOnQueues(arp', id)
        /\ skb \notin SkbOf(id) /\ NoneOnQueues(arp, id) => NoneOnQueues(arp', id)
    <3>1. OneOnQueues(arp, id) /\ (skb \in SkbOf(id) => NoneOnQueues(arp, id))
      BY <2>1, <2>3 DEF Alone
    <3>2. QED BY <1>2, <1>4, <1>8, <3>1, EnqueueAlone
  <2>5. QED BY <2>1, <2>3, <2>4 DEF Alone
<1>11. QED BY <1>1, <1>10 DEF EchoesAlone

\* Sending an ARP request moves no echo.
LEMMA SendRequestAlone ==
  ASSUME NetInv, EchoesAlone, NEW t \in Thread, SendRequest(t), ponged' = ponged
  PROVE  EchoesAlone'
<1>a. PICK k, ip : k = call[t].skb.oif /\ ip = call[t].target_ip
  OBVIOUS
<1>1. /\ call[t] # NULL /\ call[t].at = "request" /\ Return(t) /\ arp' = arp
      /\ wire' = SendPktOut(wire, k, ArpRequest(k, ip))
  BY <1>a DEF SendRequest, At
<1>2. k \in Intf /\ ip \in IpAddr /\ wire \in Wires
  BY <1>1, <1>a, CallFields, NetFacts
<1>b. PICK frame : frame = ArpRequest(k, ip)
  OBVIOUS
<1>3. frame \in Frame /\ \A id : frame \notin FrameOf(id)
  BY <1>2, <1>b, RequestFrame DEF ArpRequest, FrameOf
<1>4. call'[t] = NULL /\ \A s \in Thread : s # t => call'[s] = call[s]
  BY <1>1, ReturnType
<1>5. \A s \in Thread, id \in 1..MaxPings : CallHas(call', s, id) <=> CallHas(call, s, id)
  BY <1>1, <1>4 DEF CallHas
<1>6. ASSUME NEW id \in 1..MaxPings PROVE Alone(wire', arp, call', ponged, id)
  <2>1. Alone(wire, arp, call, ponged, id)
    BY DEF EchoesAlone
  <2>2. OneOnWires(wire', id) /\ (NoneOnWires(wire, id) => NoneOnWires(wire', id))
    BY <1>1, <1>2, <1>3, <1>b, <2>1, SendAlone DEF Alone
  <2>3. /\ OneInCalls(call, id) => OneInCalls(call', id)
        /\ NoneInCalls(call, id) => NoneInCalls(call', id)
    BY <1>5 DEF OneInCalls, NoneInCalls
  <2>4. QED BY <2>1, <2>2, <2>3 DEF Alone
<1>7. QED BY <1>1, <1>6 DEF EchoesAlone

\* The packet moves from the thread's hands to the wire.
LEMMA OutputAlone ==
  ASSUME NetInv, EchoesAlone, NEW t \in Thread, Output(t), ponged' = ponged
  PROVE  EchoesAlone'
<1>a. PICK n, ip, e, skb : /\ n = call[t].node /\ ip = call[t].target_ip
                           /\ e = call[t].arp_entry /\ skb = call[t].skb
  OBVIOUS
<1>b. PICK frame : frame = IpPktFrame(arp[n][ip][e].mac, skb.pkt)
  BY SMTT(30)
<1>1. /\ call[t] # NULL /\ call[t].at = "output" /\ Return(t) /\ arp' = arp
      /\ wire' = SendPktOut(wire, skb.oif, frame)
  BY <1>a, <1>b DEF Output, At, EntryOf
<1>2. /\ n \in Node /\ ip \in IpAddr /\ skb.oif \in Intf /\ skb.pkt \in Packet
      /\ e \in DOMAIN arp[n][ip] /\ wire \in Wires
  BY <1>1, <1>a, CallFields, NetFacts DEF NetInv, CallsOK, CallOK
<1>3. frame \in Frame /\ \A id : frame \in FrameOf(id) <=> skb.pkt.pl.id = id
  <2>1. arp[n][ip][e].mac \in MacAddr \cup {ZeroMac}
    BY <1>2, NetFacts, EntryFacts DEF ArpEntry
  <2>2. frame \in Frame /\ frame.type = "IP" /\ frame.pkt = skb.pkt
    BY <1>2, <1>b, <2>1, PktFrame DEF IpPktFrame
  <2>3. QED BY <2>2 DEF FrameOf
<1>4. call'[t] = NULL /\ \A s \in Thread : s # t => call'[s] = call[s]
  BY <1>1, ReturnType
<1>5. ASSUME NEW id \in 1..MaxPings PROVE Alone(wire', arp, call', ponged, id)
  <2>1. Alone(wire, arp, call, ponged, id)
    BY DEF EchoesAlone
  <2>2. ~CallHas(call', t, id) /\ (CallHas(call, t, id) <=> frame \in FrameOf(id))
    BY <1>1, <1>3, <1>4, <1>a DEF CallHas
  <2>3. /\ OneInCalls(call', id) /\ (NoneInCalls(call, id) => NoneInCalls(call', id))
        /\ frame \in FrameOf(id) => NoneInCalls(call', id) /\ ~NoneInCalls(call, id)
    <3>1. OneInCalls(call, id)
      BY <2>1 DEF Alone
    <3>2. QED BY <1>4, <2>2, <3>1, CallAlone
  <2>4. /\ OneOnWires(wire', id)
        /\ frame \notin FrameOf(id) /\ NoneOnWires(wire, id) => NoneOnWires(wire', id)
    <3>1. OneOnWires(wire, id) /\ (frame \in FrameOf(id) => NoneOnWires(wire, id))
      BY <2>1, <2>3 DEF Alone
    <3>2. QED BY <1>1, <1>2, <1>3, <3>1, SendAlone
  <2>5. QED BY <2>1, <2>3, <2>4 DEF Alone
<1>6. QED BY <1>1, <1>5 DEF EchoesAlone

\* A step of ip_postroute.
LEMMA PostrouteStepAlone ==
  ASSUME NetInv, EchoesAlone, NEW t \in Thread, PostrouteStep(t), ponged' = ponged
  PROVE  EchoesAlone'
BY EntryAddAlone, TestAlone, QueueStepAlone, SendRequestAlone, OutputAlone DEF PostrouteStep

\* The assignments to an entry leave its queue alone.
LEMMA AssignAlone ==
  ASSUME NetInv, EchoesAlone, SetResolved \/ SetMac, ponged' = ponged
  PROVE  EchoesAlone'
<1>a. PICK n, ip, e : n = update.node /\ ip = update.ip /\ e = update.arp_entry
  OBVIOUS
<1>b. PICK x : x = arp[n][ip][e]
  OBVIOUS
<1>1. update # NULL /\ UNCHANGED <<wire, call>>
  BY DEF SetResolved, SetMac, UpdateAt
<1>2. /\ n \in Node /\ ip \in IpAddr /\ e \in DOMAIN arp[n][ip] /\ arp \in Tables
      /\ update.hw_addr \in MacAddr
  BY <1>1, <1>a, UpdateFields, NetFacts
<1>3. x \in ArpEntry
  BY <1>2, <1>b, EntryFacts
<1>4. PICK y \in ArpEntry :
        y.pending_pkts = x.pending_pkts /\ arp' = [arp EXCEPT ![n][ip][e] = y]
  <2>1. CASE SetResolved
    <3>a. PICK y : y = [x EXCEPT !.resolved = TRUE]
      OBVIOUS
    <3>1. y \in ArpEntry /\ y.pending_pkts = x.pending_pkts
      BY <1>3, <3>a DEF ArpEntry
    <3>2. arp' = [arp EXCEPT ![n][ip][e] = y]
      BY <1>a, <1>b, <2>1, <3>a DEF SetResolved
    <3>3. QED BY <3>1, <3>2
  <2>2. CASE SetMac
    <3>a. PICK y : y = [x EXCEPT !.mac = update.hw_addr]
      OBVIOUS
    <3>1. y \in ArpEntry /\ y.pending_pkts = x.pending_pkts
      BY <1>2, <1>3, <3>a DEF ArpEntry
    <3>2. arp' = [arp EXCEPT ![n][ip][e] = y]
      BY <1>a, <1>b, <2>2, <3>a DEF SetMac
    <3>3. QED BY <3>1, <3>2
  <2>3. QED BY <2>1, <2>2
<1>5. arp' \in Tables /\ arp'[n][ip][e] = y /\ OneChanged(n, ip, e)
  <2>1. arp' = [arp EXCEPT ![n][ip][e] = y]
    BY <1>4
  <2>2. QED BY <1>2, <2>1, SetEntry
<1>6. /\ QueueOf(arp', n, ip, e) = QueueOf(arp, n, ip, e)
      /\ SameElsewhere(arp, arp', n, ip, e)
  <2>1. /\ SameElsewhere(arp, arp', n, ip, e)
        /\ QueueOf(arp, n, ip, e) = arp[n][ip][e].pending_pkts
        /\ QueueOf(arp', n, ip, e) = arp'[n][ip][e].pending_pkts
    BY <1>2, <1>5, EntryQueue
  <2>2. QED BY <1>4, <1>5, <1>b, <2>1
<1>7. \A m \in Node, jp \in IpAddr, f \in Nat :
        QueueOf(arp', m, jp, f) = QueueOf(arp, m, jp, f)
  BY <1>6 DEF SameElsewhere
<1>8. QED BY <1>1, <1>7, SameAlone

\* The flush moves a packet from its queue to a wire.
LEMMA FlushAlone ==
  ASSUME NetInv, EchoesAlone, FlushPending, ponged' = ponged
  PROVE  EchoesAlone'
<1>a. PICK n, ip, e, x, q, pos : FlushStep(n, ip, e, x, q, pos)
  BY FlushFacts
<1>b. PICK y, skb, frame :
        /\ y = [x EXCEPT !.pending_pkts = RemoveAt(q, pos)]
        /\ skb = q[pos] /\ frame = IpPktFrame(x.mac, skb.pkt)
  OBVIOUS
<1>1. /\ arp' = [arp EXCEPT ![n][ip][e] = y]
      /\ wire' = SendPktOut(wire, skb.oif, frame) /\ call' = call
  BY <1>a, <1>b DEF FlushStep
<1>2. /\ n \in Node /\ ip \in IpAddr /\ e \in DOMAIN arp[n][ip] /\ arp \in Tables
      /\ wire \in Wires /\ x = arp[n][ip][e] /\ x \in ArpEntry
      /\ q = x.pending_pkts /\ q \in Seq(Pending) /\ pos \in 1..Len(q)
      /\ skb \in Pending /\ skb.oif \in Intf /\ skb.pkt \in Packet
  BY <1>a, <1>b, NetFacts DEF FlushStep
<1>3. y \in ArpEntry /\ y.pending_pkts = RemoveAt(q, pos)
  <2>1. RemoveAt(q, pos) \in Seq(Pending)
    BY <1>2, RemoveAtPlace
  <2>2. y = [x EXCEPT !.pending_pkts = RemoveAt(q, pos)]
    BY <1>b
  <2>3. QED BY <1>2, <2>1, <2>2 DEF ArpEntry
<1>4. frame \in Frame /\ \A id : frame \in FrameOf(id) <=> skb \in SkbOf(id)
  <2>1. x.mac \in MacAddr \cup {ZeroMac}
    BY <1>2 DEF ArpEntry
  <2>2. frame \in Frame /\ frame.type = "IP" /\ frame.pkt = skb.pkt
    BY <1>2, <1>b, <2>1, PktFrame DEF IpPktFrame
  <2>3. QED BY <1>2, <2>2 DEF FrameOf, SkbOf
<1>5. arp' \in Tables /\ arp'[n][ip][e] = y /\ OneChanged(n, ip, e)
  <2>1. arp' = [arp EXCEPT ![n][ip][e] = y]
    BY <1>1
  <2>2. n \in Node /\ ip \in IpAddr /\ e \in DOMAIN arp[n][ip] /\ arp \in Tables
    BY <1>2
  <2>3. y \in ArpEntry
    BY <1>3
  <2>4. QED BY <2>1, <2>2, <2>3, SetEntry
<1>6. /\ e \in Nat /\ QueueOf(arp, n, ip, e) = q /\ SameElsewhere(arp, arp', n, ip, e)
      /\ QueueOf(arp', n, ip, e) = RemoveAt(q, pos)
  <2>1. /\ e \in Nat /\ SameElsewhere(arp, arp', n, ip, e)
        /\ QueueOf(arp, n, ip, e) = arp[n][ip][e].pending_pkts
        /\ QueueOf(arp', n, ip, e) = arp'[n][ip][e].pending_pkts
    BY <1>2, <1>5, EntryQueue
  <2>2. QED BY <1>2, <1>3, <1>5, <2>1
<1>7. ASSUME NEW id \in 1..MaxPings PROVE Alone(wire', arp', call, ponged, id)
  <2>1. Alone(wire, arp, call, ponged, id)
    BY DEF EchoesAlone
  <2>2. /\ OneOnQueues(arp', id)
        /\ NoneOnQueues(arp, id) => NoneOnQueues(arp', id)
        /\ skb \in SkbOf(id) => NoneOnQueues(arp', id) /\ ~NoneOnQueues(arp, id)
    <3>1. OneOnQueues(arp, id)
      BY <2>1 DEF Alone
    <3>2. skb = q[pos]
      BY <1>b
    <3>3. QED BY <1>2, <1>6, <3>1, <3>2, DequeueAlone
  <2>3. /\ OneOnWires(wire', id)
        /\ frame \notin FrameOf(id) /\ NoneOnWires(wire, id) => NoneOnWires(wire', id)
    <3>1. OneOnWires(wire, id) /\ (frame \in FrameOf(id) => NoneOnWires(wire, id))
      BY <1>4, <2>1, <2>2 DEF Alone
    <3>2. QED BY <1>1, <1>2, <1>4, <3>1, SendAlone
  <2>4. QED BY <1>4, <2>1, <2>2, <2>3 DEF Alone
<1>8. QED BY <1>1, <1>7 DEF EchoesAlone

\* A frame is read: its echo is nowhere any more.
LEMMA TakenAlone ==
  ASSUME NetInv, EchoesAlone, NEW i \in Intf, wire[i] # << >>, NEW id \in 1..MaxPings
  PROVE  /\ RecvBytes(i) \in Wires
         /\ Alone(RecvBytes(i), arp, call, ponged, id)
         /\ Head(wire[i]) \in FrameOf(id) => Gone(RecvBytes(i), arp, call, ponged, id)
<1>1. wire \in Wires /\ Alone(wire, arp, call, ponged, id)
  BY DEF NetInv, NetTypeOK, Wires, EchoesAlone
<1>2. RecvBytes(i) \in Wires
  BY <1>1, TakeWire
<1>3. /\ OneOnWires(RecvBytes(i), id)
      /\ NoneOnWires(wire, id) => NoneOnWires(RecvBytes(i), id)
      /\ Head(wire[i]) \in FrameOf(id) =>
           NoneOnWires(RecvBytes(i), id) /\ ~NoneOnWires(wire, id)
  BY <1>1, TakeAlone DEF Alone
<1>4. QED BY <1>1, <1>2, <1>3 DEF Alone, Gone

\* The packet of a frame that ip_preroute gets belongs to its echo.
LEMMA HeadOf ==
  ASSUME NetInv, NEW i \in Intf, IpPreroute(i)
  PROVE  /\ wire[i] # << >> /\ Head(wire[i]).pkt \in Packet
         /\ Head(wire[i]).pkt.pl.id \in 1..MaxPings
         /\ \A id : Head(wire[i]) \in FrameOf(id) <=> Head(wire[i]).pkt.pl.id = id
<1>1. wire \in Wires /\ wire[i] # << >> /\ Head(wire[i]).type = "IP"
  BY DEF IpPreroute, Readable, NetInv, NetTypeOK, Wires
<1>2. Head(wire[i]) \in Frame /\ Head(wire[i]).pkt \in Packet
  BY <1>1, TakeWire, PrerouteTaken
<1>3. QED BY <1>1, <1>2, PacketFields DEF FrameOf

\* A pong of an echo that is nowhere else.
LEMMA PongAlone ==
  ASSUME NEW w, NEW a, NEW c, NEW P, NEW id, NEW n \in Node, NEW k,
         Alone(w, a, c, P, id), k = id => Gone(w, a, c, P, id)
  PROVE  Alone(w, a, c, P \cup {<<n, k>>}, id)
<1>1. CASE k = id
  <2>1. \A m \in Node : <<m, id>> \in P \cup {<<n, k>>} => m = n
    BY <1>1 DEF Gone, NoPong
  <2>2. OnePong(P \cup {<<n, k>>}, id)
    BY <2>1 DEF OnePong
  <2>3. QED BY <1>1, <2>2 DEF Alone, Gone
<1>2. CASE k # id
  <2>1. \A m \in Node : <<m, id>> \in P \cup {<<n, k>>} <=> <<m, id>> \in P
    BY <1>2
  <2>2. OnePong(P \cup {<<n, k>>}, id) <=> OnePong(P, id)
    BY <2>1 DEF OnePong
  <2>3. NoPong(P \cup {<<n, k>>}, id) <=> NoPong(P, id)
    BY <2>1 DEF NoPong
  <2>4. QED BY <2>2, <2>3 DEF Alone
<1>3. QED BY <1>1, <1>2

\* Frames that are read and answered by at most an ARP frame.
LEMMA ReadAlone ==
  ASSUME NetInv, EchoesAlone, NEW i \in Intf, wire[i] # << >>,
         UNCHANGED <<arp, call, ponged>>, wire' = RecvBytes(i) \/ RecvArpRequest(i)
  PROVE  EchoesAlone'
<1>1. CASE wire' = RecvBytes(i)
  BY <1>1, TakenAlone DEF EchoesAlone
<1>2. CASE wire' # RecvBytes(i)
  <2>a. PICK frame : frame = ArpReply(i, Head(wire[i]))
    OBVIOUS
  <2>1. Head(wire[i]).type = "ARP" /\ wire' = SendPktOut(RecvBytes(i), i, frame)
    BY <1>2, <2>a DEF RecvArpRequest
  <2>2. Head(wire[i]) \in Frame
    BY NetFacts, TakeWire
  <2>3. frame \in Frame /\ \A id : frame \notin FrameOf(id)
    BY <2>1, <2>2, <2>a, ReplyFrame DEF ArpReply, FrameOf
  <2>4. ASSUME NEW id \in 1..MaxPings PROVE Alone(wire', arp, call, ponged, id)
    <3>1. RecvBytes(i) \in Wires /\ Alone(RecvBytes(i), arp, call, ponged, id)
      BY TakenAlone
    <3>2. /\ OneOnWires(wire', id)
          /\ NoneOnWires(RecvBytes(i), id) => NoneOnWires(wire', id)
      BY <2>1, <2>3, <3>1, SendAlone DEF Alone
    <3>3. QED BY <3>1, <3>2 DEF Alone
  <2>5. QED BY <2>4 DEF EchoesAlone
<1>3. QED BY <1>1, <1>2

\* A packet is forwarded.
LEMMA ForwardAlone ==
  ASSUME NetInv, EchoesAlone, NEW i \in Intf, RecvForward(i), ponged' = ponged
  PROVE  EchoesAlone'
<1> DEFINE pkt == Head(wire[i]).pkt
           pkt1 == [pkt EXCEPT !.ttl = @ - 1]
           n == NodeOf[i]
<1>1. /\ IpPreroute(i) /\ wire' = RecvBytes(i) /\ arp' = arp /\ call[Receiver] = NULL
  BY DEF RecvForward, IpPreroute, Readable
<1>2. /\ wire[i] # << >> /\ pkt \in Packet
      /\ \A id : Head(wire[i]) \in FrameOf(id) <=> pkt.pl.id = id
  BY <1>1, HeadOf
<1>3. UNCHANGED call \/ (pkt.ttl > 1 /\ IpPostroute(Receiver, n, pkt1, NULL))
  BY DEF RecvForward, TtlLeft, DecrementTtl
<1>4. pkt.ttl > 1 => pkt1 \in Packet /\ pkt1.pl = pkt.pl
  BY <1>2 DEF Packet
<1>5. n \in Node /\ Receiver \in Thread
  BY TopologyAssumption DEF Thread
<1> HIDE DEF pkt, pkt1, n
<1>6. ASSUME NEW id \in 1..MaxPings PROVE Alone(wire', arp, call', ponged, id)
  <2>1. /\ Alone(wire', arp, call, ponged, id)
        /\ pkt.pl.id = id => Gone(wire', arp, call, ponged, id)
    BY <1>1, <1>2, TakenAlone
  <2>2. CASE UNCHANGED call
    BY <2>1, <2>2
  <2>3. CASE pkt.ttl > 1 /\ IpPostroute(Receiver, n, pkt1, NULL)
    BY <1>1, <1>4, <1>5, <2>1, <2>3, PostrouteAlone
  <2>4. QED BY <1>3, <2>2, <2>3
<1>7. QED BY <1>1, <1>6 DEF EchoesAlone

\* A request becomes a reply, or at once a pong.
LEMMA EchoRequestAlone ==
  ASSUME NetInv, EchoesAlone, NEW i \in Intf, RecvEchoRequest(i)
  PROVE  EchoesAlone'
<1> DEFINE pkt == Head(wire[i]).pkt
           k == pkt.pl.id
           pl == [pkt.pl EXCEPT !.type = "ECHO_REPLY"]
           reply == [src |-> 0, dst |-> pkt.src, ttl |-> InitTtl, pl |-> pl]
           n == NodeOf[i]
<1>1. IpPreroute(i) /\ wire' = RecvBytes(i) /\ arp' = arp /\ call[Receiver] = NULL
  BY DEF RecvEchoRequest, IcmpInput, IpPreroute, Readable
<1>2. /\ wire[i] # << >> /\ pkt \in Packet
      /\ \A id : Head(wire[i]) \in FrameOf(id) <=> k = id
  BY <1>1, HeadOf
<1>3. \/ ponged' = ponged \cup {<<n, k>>} /\ call' = call
      \/ ponged' = ponged /\ IpPostroute(Receiver, n, reply, NULL)
  BY DEF RecvEchoRequest, IpOutput
<1>4. reply \in Packet /\ reply.pl.id = k
  <2>1. pkt.pl \in IcmpPayload /\ pkt.src \in IpAddr
    BY <1>2, PacketFields
  <2>2. pl \in IcmpPayload /\ pl.id = k
    BY <2>1 DEF IcmpPayload
  <2> HIDE DEF pl, k
  <2>3. QED BY <2>1, <2>2, AddressAssumption, TtlAssumption, IcmpAssumption DEF Packet
<1>5. n \in Node /\ Receiver \in Thread
  BY TopologyAssumption DEF Thread
<1> HIDE DEF pkt, k, pl, reply, n
<1>6. ASSUME NEW id \in 1..MaxPings PROVE Alone(wire', arp, call', ponged', id)
  <2>1. /\ Alone(wire', arp, call, ponged, id)
        /\ k = id => Gone(wire', arp, call, ponged, id)
    BY <1>1, <1>2, TakenAlone
  <2>2. CASE ponged' = ponged \cup {<<n, k>>} /\ call' = call
    BY <1>5, <2>1, <2>2, PongAlone
  <2>3. CASE ponged' = ponged /\ IpPostroute(Receiver, n, reply, NULL)
    BY <1>1, <1>4, <1>5, <2>1, <2>3, PostrouteAlone
  <2>4. QED BY <1>3, <2>2, <2>3
<1>7. QED BY <1>1, <1>6 DEF EchoesAlone

\* A reply becomes a pong.
LEMMA EchoReplyAlone ==
  ASSUME NetInv, EchoesAlone, NEW i \in Intf, RecvEchoReply(i)
  PROVE  EchoesAlone'
<1> DEFINE k == Head(wire[i]).pkt.pl.id
           n == NodeOf[i]
<1>1. /\ IpPreroute(i) /\ ponged' = ponged \cup {<<n, k>>}
      /\ wire' = RecvBytes(i) /\ UNCHANGED <<arp, call>>
  BY DEF RecvEchoReply, IcmpInput
<1>2. /\ wire[i] # << >> /\ n \in Node
      /\ \A id : Head(wire[i]) \in FrameOf(id) <=> k = id
  BY <1>1, HeadOf, TopologyAssumption
<1> HIDE DEF k, n
<1>3. ASSUME NEW id \in 1..MaxPings PROVE Alone(wire', arp, call, ponged', id)
  <2>1. /\ Alone(wire', arp, call, ponged, id)
        /\ k = id => Gone(wire', arp, call, ponged, id)
    BY <1>1, <1>2, TakenAlone
  <2>2. QED BY <1>1, <1>2, <2>1, PongAlone
<1>4. QED BY <1>1, <1>3 DEF EchoesAlone

\* An echo that no packet carries and no pong answered is nowhere.
LEMMA NewIsGone ==
  ASSUME IInv, NEW k, k \notin 1..Len(pings)
  PROVE  Gone(wire, arp, call, ponged, k)
<1>1. \A pkt \in InTransit : pkt.pl.id # k
  BY DEF IInv, EchoesOK, EchoOK
<1>2. NetInv
  BY DEF IInv
<1>3. NoneOnWires(wire, k)
  <2>1. ASSUME NEW i \in Intf, NEW frame \in Range(wire[i]), frame \in FrameOf(k) PROVE FALSE
    <3>1. frame \in Frame /\ frame.type = "IP" /\ frame.pkt.pl.id = k
      BY <2>1 DEF FrameOf
    <3>2. frame.pkt \in Packet
      BY <3>1, FrameKinds DEF IpFrame
    <3>3. frame.pkt \in InTransit
      BY <3>1, <3>2 DEF InTransit, OnWire
    <3>4. QED BY <1>1, <3>1, <3>3
  <2>2. QED BY <2>1 DEF NoneOnWires, WireHas
<1>4. NoneOnQueues(arp, k)
  <2>1. ASSUME NEW m \in Node, NEW jp \in IpAddr, NEW e \in Nat,
               NEW skb \in Range(QueueOf(arp, m, jp, e)), skb \in SkbOf(k)
        PROVE  FALSE
    <3>1. skb.pkt \in Packet /\ skb.pkt.pl.id = k
      BY <2>1 DEF SkbOf, Pending
    <3>2. e \in DOMAIN arp[m][jp]
      BY DEF QueueOf, Range
    <3>3. skb.pkt \in InTransit
      BY <3>1, <3>2 DEF InTransit, Waiting, QueueOf
    <3>4. QED BY <1>1, <3>1, <3>3
  <2>2. QED BY <2>1 DEF NoneOnQueues, QueueHas
<1>5. NoneInCalls(call, k)
  <2>1. ASSUME NEW t \in Thread, CallHas(call, t, k) PROVE FALSE
    <3>1. /\ call[t] # NULL /\ call[t].at # "request" /\ call[t].skb.pkt.pl.id = k
      BY <2>1 DEF CallHas
    <3>2. call[t].skb.pkt \in Packet
      BY <1>2, <3>1, CallFields
    <3>3. call[t].skb.pkt \in InTransit
      BY <3>1, <3>2 DEF InTransit, Held
    <3>4. QED BY <1>1, <3>1, <3>3
  <2>2. QED BY <2>1 DEF NoneInCalls
<1>6. NoPong(ponged, k)
  BY DEF IInv, PongsOK, NoPong
<1>7. QED BY <1>3, <1>4, <1>5, <1>6 DEF Gone

\* ping sends an echo that is new.
LEMMA PingOutAlone ==
  ASSUME IInv, EchoesAlone, NEW t \in Thread, NEW n \in Node, NEW ip \in IpAddr,
         PingOut(t, n, ip)
  PROVE  EchoesAlone'
<1> DEFINE k == Len(pings) + 1
           pkt == [src |-> 0, dst |-> ip, ttl |-> InitTtl,
                   pl |-> [type |-> "ECHO_REQUEST", id |-> k]]
<1>1. /\ Len(pings) < MaxPings /\ call[t] = NULL /\ UNCHANGED <<arp, wire, ponged>>
      /\ UNCHANGED call \/ IpPostroute(t, n, pkt, NULL)
  BY DEF PingOut, IpOutput
<1>2. Len(pings) \in Nat /\ k \in 1..MaxPings /\ k \notin 1..Len(pings)
  BY <1>1, IcmpAssumption DEF IInv, TypeOK
<1>3. pkt \in Packet /\ pkt.pl.id = k
  BY <1>2, AddressAssumption, TtlAssumption, IcmpAssumption DEF Packet, IcmpPayload
<1> HIDE DEF k, pkt
<1>4. Gone(wire, arp, call, ponged, k)
  BY <1>2, NewIsGone
<1>5. ASSUME NEW id \in 1..MaxPings PROVE Alone(wire, arp, call', ponged, id)
  <2>1. Alone(wire, arp, call, ponged, id) /\ NetInv
    BY DEF EchoesAlone, IInv
  <2>2. CASE UNCHANGED call
    BY <2>1, <2>2
  <2>3. CASE IpPostroute(t, n, pkt, NULL)
    BY <1>1, <1>3, <1>4, <2>1, <2>3, PostrouteAlone
  <2>4. QED BY <1>1, <2>2, <2>3
<1>6. QED BY <1>1, <1>5 DEF EchoesAlone

\* At first there is no echo.
LEMMA InitAlone == Init => EchoesAlone
<1> SUFFICES ASSUME Init, NEW id \in 1..MaxPings PROVE Alone(wire, arp, call, ponged, id)
  BY DEF EchoesAlone
<1>1. /\ \A n \in Node, ip \in IpAddr, e \in Nat : QueueOf(arp, n, ip, e) = << >>
      /\ \A i \in Intf : wire[i] = << >>
      /\ \A t \in Thread : call[t] = NULL
      /\ ponged = {}
  BY DEF Init, NetInit, QueueOf
<1>2. Range(<< >>) = {} /\ \A T : AtMostOnce(<< >>, T)
  BY DEF Range, AtMostOnce
<1>3. NoneOnWires(wire, id) /\ OneOnWires(wire, id)
  BY <1>1, <1>2 DEF NoneOnWires, OneOnWires, WireHas
<1>4. NoneOnQueues(arp, id) /\ OneOnQueues(arp, id)
  BY <1>1, <1>2 DEF NoneOnQueues, OneOnQueues, QueueHas
<1>5. NoPong(ponged, id) /\ OnePong(ponged, id)
  BY <1>1 DEF NoPong, OnePong
<1>6. NoneInCalls(call, id) /\ OneInCalls(call, id)
  BY <1>1 DEF NoneInCalls, OneInCalls, CallHas
<1>7. QED BY <1>3, <1>4, <1>5, <1>6 DEF Alone

\* Every step keeps the echoes apart.
LEMMA NextAlone == IInv /\ EchoesAlone /\ [Next]_vars => EchoesAlone'
<1> SUFFICES ASSUME IInv, EchoesAlone, [Next]_vars PROVE EchoesAlone'
  OBVIOUS
<1>1. NetInv
  BY DEF IInv
<1>2. CASE NetRecv /\ UNCHANGED icmpvars
  <2>1. ponged' = ponged
    BY <1>2 DEF icmpvars
  <2>2. CASE SetResolved \/ SetMac
    BY <1>1, <2>1, <2>2, AssignAlone
  <2>3. CASE FlushFirst
    BY <2>1, <2>3 DEF FlushFirst, EchoesAlone
  <2>4. CASE FlushPending
    BY <1>1, <2>1, <2>4, FlushAlone
  <2>5. CASE PostrouteStep(Receiver)
    BY <1>1, <2>1, <2>5, PostrouteStepAlone DEF Thread
  <2>6. ASSUME NEW i \in Intf, RecvRefused(i) \/ RecvArpRequest(i) \/ RecvArpReply(i)
        PROVE  EchoesAlone'
    <3>1. /\ wire[i] # << >> /\ UNCHANGED <<arp, call>>
          /\ wire' = RecvBytes(i) \/ RecvArpRequest(i)
      BY <2>6 DEF RecvRefused, RecvArpRequest, RecvArpReply, Readable
    <3>2. QED BY <1>1, <2>1, <3>1, ReadAlone
  <2>7. ASSUME NEW i \in Intf, RecvForward(i) PROVE EchoesAlone'
    BY <1>1, <2>1, <2>7, ForwardAlone
  <2>8. QED BY <1>2, <2>2, <2>3, <2>4, <2>5, <2>6, <2>7 DEF NetRecv
<1>3. ASSUME NEW i \in Intf, RecvEchoRequest(i) \/ RecvEchoReply(i) PROVE EchoesAlone'
  BY <1>1, <1>3, EchoRequestAlone, EchoReplyAlone
<1>4. ASSUME NEW t \in App, NEW n \in Node, NEW ip \in PingTargets[n], PingOut(t, n, ip)
      PROVE  EchoesAlone'
  <2>1. ip \in IpAddr /\ t \in Thread
    BY IcmpAssumption DEF Thread
  <2>2. QED BY <1>4, <2>1, PingOutAlone
<1>5. ASSUME NEW t \in App, PostrouteStep(t), UNCHANGED icmpvars PROVE EchoesAlone'
  <2>1. t \in Thread /\ ponged' = ponged
    BY <1>5 DEF Thread, icmpvars
  <2>2. QED BY <1>1, <1>5, <2>1, PostrouteStepAlone
<1>6. CASE NetEnvironment /\ UNCHANGED icmpvars
  <2>1. ponged' = ponged
    BY <1>6 DEF icmpvars
  <2>2. ASSUME NEW val \in BOOLEAN, SetIpForward(val) PROVE EchoesAlone'
    BY <2>1, <2>2 DEF SetIpForward, EchoesAlone
  <2>3. ASSUME NEW i \in Intf, LoseFrame(i) PROVE EchoesAlone'
    BY <1>1, <2>1, <2>3, ReadAlone DEF LoseFrame
  <2>4. QED BY <1>6, <2>2, <2>3 DEF NetEnvironment
<1>7. CASE UNCHANGED vars
  BY <1>7 DEF vars, netvars, icmpvars, EchoesAlone
<1>8. QED BY <1>2, <1>3, <1>4, <1>5, <1>6, <1>7 DEF Next, RecvTask, Application

\* A set whose elements are all the same has at most one.
LEMMA AtMostOneElement ==
  ASSUME NEW S, \A x, y \in S : x = y
  PROVE  Cardinality(S) \in {0, 1} /\ (S = {} => Cardinality(S) = 0)
<1>1. CASE S = {}
  BY <1>1, FS_EmptySet
<1>2. CASE S # {}
  <2>1. PICK x \in S : TRUE
    BY <1>2
  <2>2. S = {x}
    BY <2>1
  <2>3. QED BY <1>2, <2>2, FS_Singleton
<1>3. QED BY <1>1, <1>2

\* What PendingCopies counts are places of queues.
LEMMA PendingPlaces ==
  ASSUME NetInv, NEW id, NEW z \in PendingCopies(id)
  PROVE  \E n \in Node, ip \in IpAddr, e \in Nat : \E p \in DOMAIN QueueOf(arp, n, ip, e) :
           /\ z = <<<<n, ip>>, e, p>>
           /\ QueueOf(arp, n, ip, e)[p] \in SkbOf(id)
           /\ QueueHas(arp, n, ip, e, id)
<1>1. PICK x \in Node \X IpAddr : \E e \in DOMAIN arp[x[1]][x[2]] :
        \E p \in DOMAIN arp[x[1]][x[2]][e].pending_pkts :
          z = <<x, e, p>> /\ arp[x[1]][x[2]][e].pending_pkts[p].pkt.pl.id = id
  <2> DEFINE Q(x, e) == arp[x[1]][x[2]][e].pending_pkts
             R(x, e) == {<<x, e, p>> : p \in {q \in DOMAIN Q(x, e) : Q(x, e)[q].pkt.pl.id = id}}
             U(x) == UNION {R(x, e) : e \in DOMAIN arp[x[1]][x[2]]}
  <2>1. PendingCopies(id) = UNION {U(x) : x \in Node \X IpAddr}
    BY Zenon DEF PendingCopies
  <2> HIDE DEF U
  <2>2. PICK x \in Node \X IpAddr : z \in U(x)
    BY <2>1
  <2> HIDE DEF R
  <2>3. PICK e \in DOMAIN arp[x[1]][x[2]] : z \in R(x, e)
    BY <2>2 DEF U
  <2> HIDE DEF Q
  <2>4. PICK p \in DOMAIN Q(x, e) : z = <<x, e, p>> /\ Q(x, e)[p].pkt.pl.id = id
    BY <2>3 DEF R
  <2>5. QED BY <2>4 DEF Q
<1>a. PICK n, ip : n = x[1] /\ ip = x[2]
  OBVIOUS
<1>2. n \in Node /\ ip \in IpAddr /\ x = <<n, ip>>
  BY SMTT(30), <1>a
<1>3. PICK e \in DOMAIN arp[n][ip] : \E p \in DOMAIN arp[n][ip][e].pending_pkts :
        z = <<x, e, p>> /\ arp[n][ip][e].pending_pkts[p].pkt.pl.id = id
  BY <1>1, <1>a
<1>4. PICK p \in DOMAIN arp[n][ip][e].pending_pkts :
        z = <<x, e, p>> /\ arp[n][ip][e].pending_pkts[p].pkt.pl.id = id
  BY <1>3
<1>5. e \in Nat /\ arp[n][ip][e].pending_pkts[p] \in Pending
  BY <1>2, NetFacts, EntryFacts
<1>6. QueueOf(arp, n, ip, e) = arp[n][ip][e].pending_pkts
  BY DEF QueueOf
<1>7. QueueOf(arp, n, ip, e)[p] \in SkbOf(id) /\ p \in DOMAIN QueueOf(arp, n, ip, e)
  BY <1>4, <1>5, <1>6 DEF SkbOf
<1>8. QueueHas(arp, n, ip, e, id)
  BY <1>7 DEF QueueHas, Range
<1>9. QED BY SMTT(30), <1>2, <1>4, <1>5, <1>7, <1>8

\* No echo is ever in two places, over any topology, any routes, loops
\* included, any loss and any interleaving of the threads: no path through
\* ip_postroute, the queues, the flush and ip_forward copies a packet or keeps
\* one that it sent.
THEOREM NoEchoDuplicated == Spec => []NoDuplicate
<1>1. IInv /\ EchoesAlone => NoDuplicate
  <2> SUFFICES ASSUME IInv, EchoesAlone, NEW id \in 1..Len(pings)
               PROVE  Cardinality(InFlightCopies(id)) + Cardinality(PendingCopies(id))
                        + Cardinality(CallCopies(id))
                        + Cardinality({n \in Node : <<n, id>> \in ponged}) <= 1
    BY DEF NoDuplicate
  <2> DEFINE A == InFlightCopies(id)
             B == PendingCopies(id)
             C == {n \in Node : <<n, id>> \in ponged}
             D == CallCopies(id)
  <2>0. NetInv
    BY DEF IInv
  <2>1. Alone(wire, arp, call, ponged, id)
    <3>1. id \in 1..MaxPings
      BY IcmpAssumption DEF IInv, TypeOK
    <3>2. QED BY <3>1 DEF EchoesAlone
  <2>2. \A x \in A : \E i \in Intf : \E p \in DOMAIN wire[i] :
          x = <<i, p>> /\ wire[i][p] \in FrameOf(id) /\ WireHas(wire, i, id)
    <3>1. ASSUME NEW x \in A
          PROVE  \E i \in Intf : \E p \in DOMAIN wire[i] :
                   /\ x = <<i, p>> /\ wire[i][p].type = "IP" /\ wire[i][p].pkt.pl.id = id
      BY DEF InFlightCopies
    <3>2. \A i \in Intf : \A p \in DOMAIN wire[i] : wire[i][p] \in Frame
      BY DEF IInv, NetInv, NetTypeOK
    <3>3. QED BY <3>1, <3>2 DEF FrameOf, WireHas, Range
  <2>3. \A z \in B : \E n \in Node, ip \in IpAddr, e \in Nat :
          \E p \in DOMAIN QueueOf(arp, n, ip, e) :
            /\ z = <<<<n, ip>>, e, p>>
            /\ QueueOf(arp, n, ip, e)[p] \in SkbOf(id)
            /\ QueueHas(arp, n, ip, e, id)
    BY <2>0, PendingPlaces
  <2>4. \A x, y \in A : x = y
    BY <2>1, <2>2 DEF Alone, OneOnWires, AtMostOnce
  <2>5. \A x, y \in B : x = y
    BY <2>1, <2>3 DEF Alone, OneOnQueues, AtMostOnce
  <2>6. \A x, y \in C : x = y
    BY <2>1 DEF Alone, OnePong
  <2>7. \A x, y \in D : x = y
    BY <2>1 DEF Alone, OneInCalls, CallHas, CallCopies
  <2>8. /\ A = {} \/ B = {}
        /\ A = {} \/ C = {}
        /\ A = {} \/ D = {}
        /\ B = {} \/ C = {}
        /\ B = {} \/ D = {}
        /\ C = {} \/ D = {}
    <3>1. NoneOnWires(wire, id) => A = {}
      BY <2>2 DEF NoneOnWires
    <3>2. NoneOnQueues(arp, id) => B = {}
      BY <2>3 DEF NoneOnQueues
    <3>3. NoPong(ponged, id) => C = {}
      BY DEF NoPong
    <3>4. NoneInCalls(call, id) => D = {}
      BY DEF NoneInCalls, CallHas, CallCopies
    <3>5. QED BY <2>1, <3>1, <3>2, <3>3, <3>4 DEF Alone
  <2> HIDE DEF A, B, C, D
  <2>9. /\ Cardinality(A) \in {0, 1} /\ (A = {} => Cardinality(A) = 0)
        /\ Cardinality(B) \in {0, 1} /\ (B = {} => Cardinality(B) = 0)
    BY <2>4, <2>5, AtMostOneElement
  <2>10. /\ Cardinality(C) \in {0, 1} /\ (C = {} => Cardinality(C) = 0)
         /\ Cardinality(D) \in {0, 1} /\ (D = {} => Cardinality(D) = 0)
    BY <2>6, <2>7, AtMostOneElement
  <2>11. Cardinality(A) + Cardinality(B) + Cardinality(D) + Cardinality(C) <= 1
    BY <2>8, <2>9, <2>10
  <2>12. QED BY <2>11 DEF A, B, C, D
<1>2. QED BY <1>1, InitAlone, NextAlone, Invariance, PTL DEF Spec
=============================================================================
