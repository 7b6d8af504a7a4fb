--------------------------- MODULE ArpRaceProofs ---------------------------
(***************************************************************************)
(* Proofs about ArpRace: for any number of packets, and what is said of    *)
(* SentOnce for any number of threads that send.                           *)
(***************************************************************************)
EXTENDS ArpRace, SequenceLemmas

-----------------------------------------------------------------------------
(* The inductive invariant. *)

EntryRec == [resolved : BOOLEAN, mac : BOOLEAN, pending_pkts : Seq(Packet)]

Pc == {"idle", "lookup", "add", "test", "queue", "request", "output"}

FlushRec == [at : {"idle", "found", "copy", "first", "walk"}, e : Nat \cup {NULL},
             todo : Seq(Packet)]

FrameRec == [pkt : Packet, mac : BOOLEAN]

TypeOK ==
  /\ entry \in Seq(EntryRec)
  /\ pc \in [Sender -> Pc]
  /\ skb \in [Sender -> Packet \cup {NULL}]
  /\ arp_entry \in [Sender -> Nat \cup {NULL}]
  /\ arp_msgs \in [n : Nat, lost : Nat]
  /\ flush \in FlushRec
  /\ frames \in Seq(FrameRec)

\* The local variables point to entries of the table, and a reply finds one.
EntriesOK ==
  /\ \A t \in Sender :
       pc[t] \in {"test", "queue", "request", "output"} => arp_entry[t] \in DOMAIN entry
  /\ flush.at # "idle" => flush.e \in DOMAIN entry
  /\ arp_msgs.n > 0 => entry # <<>>

\* A packet that a thread holds is nowhere else.
HeldOK ==
  /\ \A t \in Sender : skb[t] = NULL <=> pc[t] \in {"idle", "request"}
  /\ \A t, u \in Sender : skb[t] = skb[u] => t = u \/ skb[t] = NULL
  /\ \A t \in Sender, k \in DOMAIN frames : frames[k].pkt # skb[t]
  /\ \A t \in Sender, e \in DOMAIN entry : skb[t] \notin Range(entry[e].pending_pkts)

\* A packet waits in one place.
QueuesOK ==
  /\ \A e \in DOMAIN entry : IsInjective(entry[e].pending_pkts)
  /\ \A e, f \in DOMAIN entry :
       e # f => Range(entry[e].pending_pkts) \cap Range(entry[f].pending_pkts) = {}

\* The walk is about packets that still wait.
WalkOK ==
  flush.at = "walk" =>
    IsInjective(flush.todo) /\ Range(flush.todo) \subseteq Range(entry[flush.e].pending_pkts)

IInv == TypeOK /\ EntriesOK /\ HeldOK /\ QueuesOK /\ WalkOK /\ SentOnce

-----------------------------------------------------------------------------
(* Steps. *)

\* One entry is changed.
LEMMA UpdateEntry ==
  ASSUME IInv, NEW e \in DOMAIN entry, NEW x \in EntryRec, entry' = [entry EXCEPT ![e] = x]
  PROVE  /\ entry' \in Seq(EntryRec) /\ Len(entry') = Len(entry) /\ DOMAIN entry' = DOMAIN entry
         /\ entry'[e] = x /\ \A f \in DOMAIN entry : f # e => entry'[f] = entry[f]
<1>1. entry \in Seq(EntryRec) /\ DOMAIN entry = 1..Len(entry)
  BY DEF IInv, TypeOK
<1>2. QED BY <1>1, ExceptSeq

\* The records of the table.
LEMMA EntryFacts ==
  ASSUME IInv, NEW e \in DOMAIN entry
  PROVE  /\ entry[e] \in EntryRec /\ entry[e].pending_pkts \in Seq(Packet)
         /\ IsInjective(entry[e].pending_pkts)
         /\ Range(entry[e].pending_pkts) \subseteq Packet
         /\ Len(entry) \in Nat /\ DOMAIN entry = 1..Len(entry) /\ e \in Nat
         /\ entry # << >> /\ Len(entry) \in DOMAIN entry
<1>1. entry \in Seq(EntryRec) /\ DOMAIN entry = 1..Len(entry) /\ Len(entry) \in Nat
  BY DEF IInv, TypeOK
<1>2. entry[e] \in EntryRec
  BY <1>1, ElementOfSeq
<1>3. entry[e].pending_pkts \in Seq(Packet)
  BY <1>2 DEF EntryRec
<1>4. Range(entry[e].pending_pkts) \subseteq Packet
  <2> DEFINE q == entry[e].pending_pkts
  <2>1. q \in Seq(Packet)
    BY <1>3
  <2> HIDE DEF q
  <2>2. Range(q) \subseteq Packet
    BY <2>1 DEF Range
  <2>3. QED BY <2>2 DEF q
<1>5. QED BY <1>1, <1>2, <1>3, <1>4 DEF IInv, QueuesOK

\* ip_postroute begins with a packet that nobody has seen.
LEMMA SendInv ==
  ASSUME IInv, NEW t \in Sender, Send(t)
  PROVE  IInv'
<1>1. PICK p \in Unsent : skb' = [skb EXCEPT ![t] = p]
  BY DEF Send
<1>2. /\ pc[t] = "idle" /\ pc' = [pc EXCEPT ![t] = "lookup"]
      /\ UNCHANGED <<entry, arp_entry, arp_msgs, flush, frames>>
  BY DEF Send, Goto
<1>3. /\ p \in Packet /\ p # NULL
      /\ \A u \in Sender : skb[u] # p
      /\ \A k \in DOMAIN frames : frames[k].pkt # p
      /\ \A e \in DOMAIN entry : p \notin Range(entry[e].pending_pkts)
  BY ArpRaceAssumption DEF Unsent
<1>4. /\ pc \in [Sender -> Pc] /\ skb \in [Sender -> Packet \cup {NULL}]
  BY DEF IInv, TypeOK
<1>5. /\ skb' \in [Sender -> Packet \cup {NULL}] /\ skb'[t] = p
      /\ \A u \in Sender : u # t => skb'[u] = skb[u]
      /\ pc' \in [Sender -> Pc] /\ pc'[t] = "lookup"
      /\ \A u \in Sender : u # t => pc'[u] = pc[u]
  BY <1>1, <1>2, <1>3, <1>4 DEF Pc
<1>6. TypeOK'
  BY <1>2, <1>5 DEF IInv, TypeOK
<1>7. EntriesOK'
  BY <1>2, <1>5 DEF IInv, EntriesOK
<1>8. HeldOK'
  BY <1>2, <1>3, <1>5 DEF IInv, HeldOK
<1>9. QueuesOK' /\ WalkOK' /\ SentOnce'
  BY <1>2 DEF IInv, QueuesOK, WalkOK, SentOnce, Queued
<1>10. QED BY <1>6, <1>7, <1>8, <1>9 DEF IInv

\* Steps of ip_postroute that only move on: the packet stays with the thread.
LEMMA MoveInv ==
  ASSUME IInv, NEW t \in Sender, NEW to \in {"add", "test", "queue", "output"},
         pc[t] \in {"lookup", "test"}, pc' = [pc EXCEPT ![t] = to],
         NEW e \in Nat \cup {NULL}, arp_entry' = [arp_entry EXCEPT ![t] = e],
         to # "add" => e \in DOMAIN entry,
         UNCHANGED <<entry, skb, arp_msgs, flush, frames>>
  PROVE  IInv'
<1>1. pc \in [Sender -> Pc] /\ arp_entry \in [Sender -> Nat \cup {NULL}]
  BY DEF IInv, TypeOK
<1>2. /\ pc' \in [Sender -> Pc] /\ pc'[t] = to /\ \A u \in Sender : u # t => pc'[u] = pc[u]
      /\ arp_entry' \in [Sender -> Nat \cup {NULL}] /\ arp_entry'[t] = e
      /\ \A u \in Sender : u # t => arp_entry'[u] = arp_entry[u]
  BY <1>1 DEF Pc
<1>3. TypeOK'
  BY <1>2 DEF IInv, TypeOK
<1>4. EntriesOK'
  BY <1>2 DEF IInv, EntriesOK
<1>5. HeldOK'
  BY <1>2 DEF IInv, HeldOK
<1>6. QueuesOK' /\ WalkOK' /\ SentOnce'
  BY DEF IInv, QueuesOK, WalkOK, SentOnce, Queued
<1>7. QED BY <1>3, <1>4, <1>5, <1>6 DEF IInv

\* arp_table_lookup in ip_postroute.
LEMMA LookupInv ==
  ASSUME IInv, NEW t \in Sender, Lookup(t)
  PROVE  IInv'
<1>1. /\ pc[t] = "lookup"
      /\ pc' = [pc EXCEPT ![t] = IF ArpTableLookup = NULL THEN "add" ELSE "test"]
      /\ arp_entry' = [arp_entry EXCEPT ![t] = ArpTableLookup]
      /\ UNCHANGED <<entry, skb, arp_msgs, flush, frames>>
  BY DEF Lookup, Goto
<1>2. CASE entry = << >>
  <2>1. ArpTableLookup = NULL
    BY <1>2 DEF ArpTableLookup
  <2>2. QED BY <1>1, <2>1, MoveInv
<1>3. CASE entry # << >>
  <2>1. Len(entry) \in Nat /\ Len(entry) \in DOMAIN entry
    BY <1>3 DEF IInv, TypeOK
  <2>2. ArpTableLookup = Len(entry) /\ Len(entry) # NULL
    BY <1>3, <2>1, ArpRaceAssumption DEF ArpTableLookup
  <2>3. QED BY <1>1, <2>1, <2>2, MoveInv
<1>4. QED BY <1>2, <1>3

\* The test of resolved.
LEMMA TestResolvedInv ==
  ASSUME IInv, NEW t \in Sender, TestResolved(t)
  PROVE  IInv'
<1>1. /\ pc[t] = "test"
      /\ pc' = [pc EXCEPT ![t] = IF entry[arp_entry[t]].resolved THEN "output" ELSE "queue"]
      /\ UNCHANGED <<entry, skb, arp_entry, arp_msgs, flush, frames>>
  BY DEF TestResolved, Goto
<1>2. arp_entry[t] \in DOMAIN entry /\ arp_entry[t] \in Nat \cup {NULL}
  BY <1>1 DEF IInv, EntriesOK, TypeOK
<1>3. arp_entry' = [arp_entry EXCEPT ![t] = arp_entry[t]]
  BY <1>1 DEF IInv, TypeOK
<1>4. PICK to \in {"queue", "output"} : pc' = [pc EXCEPT ![t] = to]
  BY <1>1
<1>5. QED BY <1>1, <1>2, <1>3, <1>4, MoveInv

\* arp_table_entry_add.
LEMMA EntryAddInv ==
  ASSUME IInv, NEW t \in Sender, EntryAdd(t)
  PROVE  IInv'
<1> DEFINE n == Len(entry)
<1>1. /\ pc[t] = "add" /\ pc' = [pc EXCEPT ![t] = "test"]
      /\ entry' = Append(entry, InitArpEntry)
      /\ arp_entry' = [arp_entry EXCEPT ![t] = n + 1]
      /\ UNCHANGED <<skb, arp_msgs, flush, frames>>
  BY DEF EntryAdd, Goto
<1>2. InitArpEntry \in EntryRec /\ InitArpEntry.pending_pkts = << >>
  BY DEF InitArpEntry, EntryRec
<1>3. entry \in Seq(EntryRec) /\ n \in Nat /\ DOMAIN entry = 1..n
  BY DEF IInv, TypeOK
<1>4. /\ entry' \in Seq(EntryRec) /\ Len(entry') = n + 1 /\ DOMAIN entry' = 1..(n + 1)
      /\ entry'[n + 1] = InitArpEntry /\ \A f \in 1..n : entry'[f] = entry[f]
  BY <1>1, <1>2, <1>3, AppendProperties
<1> HIDE DEF n
<1>5. /\ DOMAIN entry' = DOMAIN entry \cup {n + 1} /\ n + 1 \notin DOMAIN entry
      /\ n + 1 \in Nat /\ entry' # << >>
  BY <1>3, <1>4
<1>6. Range(<< >>) = {} /\ IsInjective(<< >>)
  BY DEF Range, IsInjective
<1>7. /\ \A f \in DOMAIN entry : entry'[f] = entry[f]
      /\ Range(entry'[n + 1].pending_pkts) = {} /\ IsInjective(entry'[n + 1].pending_pkts)
  BY <1>2, <1>3, <1>4, <1>6
<1>8. pc \in [Sender -> Pc] /\ arp_entry \in [Sender -> Nat \cup {NULL}]
  BY DEF IInv, TypeOK
<1>9. /\ pc' \in [Sender -> Pc] /\ pc'[t] = "test" /\ \A u \in Sender : u # t => pc'[u] = pc[u]
      /\ arp_entry' \in [Sender -> Nat \cup {NULL}] /\ arp_entry'[t] = n + 1
      /\ \A u \in Sender : u # t => arp_entry'[u] = arp_entry[u]
  BY <1>1, <1>5, <1>8 DEF Pc
<1>10. TypeOK'
  BY <1>1, <1>4, <1>9 DEF IInv, TypeOK
<1>11. EntriesOK'
  BY <1>1, <1>5, <1>9 DEF IInv, EntriesOK
<1>12. HeldOK'
  BY <1>1, <1>5, <1>7, <1>9 DEF IInv, HeldOK
<1>13. QueuesOK'
  BY <1>5, <1>7 DEF IInv, QueuesOK
<1>14. WalkOK'
  BY <1>1, <1>7 DEF IInv, WalkOK, EntriesOK
<1>15. SentOnce'
  BY <1>1, <1>5, <1>7 DEF IInv, SentOnce, Queued
<1>16. QED BY <1>10, <1>11, <1>12, <1>13, <1>14, <1>15 DEF IInv

\* The packet joins the queue.
LEMMA QueueInv ==
  ASSUME IInv, NEW t \in Sender, Queue(t)
  PROVE  IInv'
<1> DEFINE e == arp_entry[t]
           p == skb[t]
           q == entry[e].pending_pkts
           x == [entry[e] EXCEPT !.pending_pkts = <<p>> \o @]
<1>1. /\ pc[t] = "queue" /\ pc' = [pc EXCEPT ![t] = "request"]
      /\ entry' = [entry EXCEPT ![e].pending_pkts = <<p>> \o @]
      /\ skb' = [skb EXCEPT ![t] = NULL]
      /\ UNCHANGED <<arp_entry, arp_msgs, flush, frames>>
  BY DEF Queue, Goto
<1>2. e \in DOMAIN entry
  BY <1>1 DEF IInv, EntriesOK
<1>3. p \in Packet /\ p # NULL
  BY <1>1, ArpRaceAssumption DEF IInv, HeldOK, TypeOK
<1>4. /\ \A u \in Sender : u # t => skb[u] # p
      /\ \A k \in DOMAIN frames : frames[k].pkt # p
      /\ \A f \in DOMAIN entry : p \notin Range(entry[f].pending_pkts)
  BY <1>3 DEF IInv, HeldOK
<1>5. /\ entry[e] \in EntryRec /\ q \in Seq(Packet) /\ IsInjective(q) /\ p \notin Range(q)
  BY <1>2, <1>4, EntryFacts
<1>6. /\ <<p>> \o q \in Seq(Packet) /\ Range(<<p>> \o q) = Range(q) \cup {p}
      /\ IsInjective(<<p>> \o q)
  <2> HIDE DEF p, q
  <2>1. QED BY <1>3, <1>5, PrependRange, PrependInjective
<1> HIDE DEF p, e
<1>7. x \in EntryRec /\ x.pending_pkts = <<p>> \o q
  BY <1>5, <1>6 DEF EntryRec
<1>8. entry' = [entry EXCEPT ![e] = x]
  BY <1>1
<1> HIDE DEF x
<1>9. /\ entry' \in Seq(EntryRec) /\ DOMAIN entry' = DOMAIN entry
      /\ entry'[e] = x /\ \A f \in DOMAIN entry : f # e => entry'[f] = entry[f]
  BY <1>2, <1>7, <1>8, UpdateEntry
<1>10. /\ Range(entry'[e].pending_pkts) = Range(entry[e].pending_pkts) \cup {p}
       /\ IsInjective(entry'[e].pending_pkts)
       /\ \A f \in DOMAIN entry : f # e => entry'[f].pending_pkts = entry[f].pending_pkts
  BY <1>6, <1>7, <1>9
<1>11. pc \in [Sender -> Pc] /\ skb \in [Sender -> Packet \cup {NULL}]
  BY DEF IInv, TypeOK
<1>12. /\ pc' \in [Sender -> Pc] /\ pc'[t] = "request" /\ \A u \in Sender : u # t => pc'[u] = pc[u]
       /\ skb' \in [Sender -> Packet \cup {NULL}] /\ skb'[t] = NULL
       /\ \A u \in Sender : u # t => skb'[u] = skb[u]
  BY <1>1, <1>11 DEF Pc
<1>13. TypeOK'
  BY <1>1, <1>9, <1>12 DEF IInv, TypeOK
<1>14. EntriesOK'
  <2>1. entry' # << >>
    BY <1>2, <1>9
  <2>2. QED BY <1>1, <1>9, <1>12, <2>1 DEF IInv, EntriesOK
<1>15. HeldOK'
  <2>1. \A k \in DOMAIN frames : frames[k].pkt # NULL
    <3>1. \A k \in DOMAIN frames : frames[k] \in FrameRec
      BY DEF IInv, TypeOK
    <3>2. QED BY <3>1, ArpRaceAssumption DEF FrameRec
  <2>2. \A f \in DOMAIN entry : NULL \notin Range(entry'[f].pending_pkts)
    BY <1>3, <1>10, EntryFacts, ArpRaceAssumption
  <2>3. \A u \in Sender : skb'[u] = NULL <=> pc'[u] \in {"idle", "request"}
    BY <1>12 DEF IInv, HeldOK
  <2>4. \A u, v \in Sender : skb'[u] = skb'[v] => u = v \/ skb'[u] = NULL
    BY <1>12 DEF IInv, HeldOK
  <2>5. \A u \in Sender, k \in DOMAIN frames : frames[k].pkt # skb'[u]
    BY <1>12, <2>1 DEF IInv, HeldOK
  <2>6. \A u \in Sender, f \in DOMAIN entry : skb'[u] \notin Range(entry'[f].pending_pkts)
    BY <1>4, <1>10, <1>12, <2>2 DEF IInv, HeldOK
  <2>7. QED BY <1>1, <1>9, <2>3, <2>4, <2>5, <2>6 DEF HeldOK
<1>16. QueuesOK'
  <2>1. \A f \in DOMAIN entry : IsInjective(entry'[f].pending_pkts)
    BY <1>10 DEF IInv, QueuesOK
  <2>2. ASSUME NEW f \in DOMAIN entry, NEW g \in DOMAIN entry, f # g
        PROVE  Range(entry'[f].pending_pkts) \cap Range(entry'[g].pending_pkts) = {}
    <3>1. Range(entry[f].pending_pkts) \cap Range(entry[g].pending_pkts) = {}
      BY <2>2 DEF IInv, QueuesOK
    <3>2. p \notin Range(entry[f].pending_pkts) /\ p \notin Range(entry[g].pending_pkts)
      BY <1>4
    <3>3. CASE f = e
      <4>1. /\ Range(entry'[f].pending_pkts) = Range(entry[f].pending_pkts) \cup {p}
            /\ entry'[g].pending_pkts = entry[g].pending_pkts
        BY <1>10, <2>2, <3>3
      <4>2. QED BY <3>1, <3>2, <4>1
    <3>4. CASE g = e
      <4>1. /\ Range(entry'[g].pending_pkts) = Range(entry[g].pending_pkts) \cup {p}
            /\ entry'[f].pending_pkts = entry[f].pending_pkts
        BY <1>10, <2>2, <3>4
      <4>2. QED BY <3>1, <3>2, <4>1
    <3>5. CASE f # e /\ g # e
      BY <1>10, <3>1, <3>5
    <3>6. QED BY <3>3, <3>4, <3>5
  <2>3. QED BY <1>9, <2>1, <2>2 DEF QueuesOK
<1>17. WalkOK'
  BY <1>1, <1>10 DEF IInv, WalkOK, EntriesOK
<1>18. SentOnce'
  BY <1>1, <1>4, <1>9, <1>10 DEF IInv, SentOnce, Queued
<1>19. QED BY <1>13, <1>14, <1>15, <1>16, <1>17, <1>18 DEF IInv

\* send_arp_broadcast_request: the thread has given its packet away.
LEMMA RequestInv ==
  ASSUME IInv, NEW t \in Sender, Request(t)
  PROVE  IInv'
<1>1. /\ pc[t] = "request" /\ pc' = [pc EXCEPT ![t] = "idle"]
      /\ arp_msgs' = [arp_msgs EXCEPT !.n = @ + 1]
      /\ UNCHANGED <<entry, skb, arp_entry, flush, frames>>
  BY DEF Request, Goto
<1>2. pc \in [Sender -> Pc] /\ arp_msgs \in [n : Nat, lost : Nat]
  BY DEF IInv, TypeOK
<1>3. /\ pc' \in [Sender -> Pc] /\ pc'[t] = "idle" /\ \A u \in Sender : u # t => pc'[u] = pc[u]
      /\ arp_msgs' \in [n : Nat, lost : Nat]
  BY <1>1, <1>2 DEF Pc
<1>4. arp_entry[t] \in DOMAIN entry
  BY <1>1 DEF IInv, EntriesOK
<1>5. entry # << >>
  BY <1>4, EntryFacts
<1>6. TypeOK'
  BY <1>1, <1>3 DEF IInv, TypeOK
<1>7. EntriesOK'
  BY <1>1, <1>3, <1>5 DEF IInv, EntriesOK
<1>8. HeldOK'
  BY <1>1, <1>3 DEF IInv, HeldOK
<1>9. QueuesOK' /\ WalkOK' /\ SentOnce'
  BY <1>1 DEF IInv, QueuesOK, WalkOK, SentOnce, Queued
<1>10. QED BY <1>6, <1>7, <1>8, <1>9 DEF IInv

\* The packets of the frames when one more was sent.
LEMMA FrameSent ==
  ASSUME IInv, NEW e \in DOMAIN entry, NEW p \in Packet, EthernetOutput(e, p)
  PROVE  /\ frames' \in Seq(FrameRec)
         /\ DOMAIN frames' = DOMAIN frames \cup {Len(frames) + 1}
         /\ Len(frames) + 1 \notin DOMAIN frames
         /\ frames'[Len(frames) + 1].pkt = p
         /\ \A k \in DOMAIN frames : frames'[k] = frames[k]
<1> DEFINE x == [pkt |-> p, mac |-> entry[e].mac]
<1>1. entry[e].mac \in BOOLEAN
  BY EntryFacts DEF EntryRec
<1>2. x \in FrameRec /\ x.pkt = p
  BY <1>1 DEF FrameRec
<1>3. frames' = Append(frames, x)
  BY DEF EthernetOutput
<1> HIDE DEF x
<1>4. frames \in Seq(FrameRec) /\ Len(frames) \in Nat /\ DOMAIN frames = 1..Len(frames)
  BY DEF IInv, TypeOK
<1>5. /\ frames' \in Seq(FrameRec) /\ DOMAIN frames' = 1..(Len(frames) + 1)
      /\ frames'[Len(frames) + 1] = x /\ \A k \in 1..Len(frames) : frames'[k] = frames[k]
  BY <1>2, <1>3, <1>4, AppendProperties
<1>6. QED BY <1>2, <1>4, <1>5

\* No packet that is on no queue and in no frame is sent twice.
LEMMA SentOnceAppend ==
  ASSUME IInv, NEW p, NEW n,
         DOMAIN frames' = DOMAIN frames \cup {n}, n \notin DOMAIN frames,
         frames'[n].pkt = p, \A k \in DOMAIN frames : frames'[k] = frames[k],
         \A k \in DOMAIN frames : frames[k].pkt # p,
         DOMAIN entry' = DOMAIN entry,
         \A f \in DOMAIN entry : p \notin Range(entry'[f].pending_pkts),
         \A f \in DOMAIN entry :
           Range(entry'[f].pending_pkts) \subseteq Range(entry[f].pending_pkts)
  PROVE  SentOnce'
<1>1. \A j, k \in DOMAIN frames' : frames'[j].pkt = frames'[k].pkt => j = k
  BY DEF IInv, SentOnce
<1>2. ASSUME NEW k \in DOMAIN frames', NEW f \in DOMAIN entry
      PROVE  frames'[k].pkt \notin Range(entry'[f].pending_pkts)
  BY DEF IInv, SentOnce, Queued
<1>3. QED BY <1>1, <1>2 DEF SentOnce, Queued

\* ethernet_output in ip_postroute.
LEMMA OutputInv ==
  ASSUME IInv, NEW t \in Sender, Output(t)
  PROVE  IInv'
<1> DEFINE p == skb[t]
           n == Len(frames) + 1
<1>1. /\ pc[t] = "output" /\ pc' = [pc EXCEPT ![t] = "idle"]
      /\ EthernetOutput(arp_entry[t], p)
      /\ skb' = [skb EXCEPT ![t] = NULL]
      /\ UNCHANGED <<entry, arp_entry, arp_msgs, flush>>
  BY DEF Output, Goto
<1>2. arp_entry[t] \in DOMAIN entry
  BY <1>1 DEF IInv, EntriesOK
<1>3. p \in Packet /\ p # NULL
  BY <1>1, ArpRaceAssumption DEF IInv, HeldOK, TypeOK
<1>4. /\ \A u \in Sender : u # t => skb[u] # p
      /\ \A k \in DOMAIN frames : frames[k].pkt # p
      /\ \A f \in DOMAIN entry : p \notin Range(entry[f].pending_pkts)
  BY <1>3 DEF IInv, HeldOK
<1>5. /\ frames' \in Seq(FrameRec) /\ DOMAIN frames' = DOMAIN frames \cup {n}
      /\ n \notin DOMAIN frames /\ frames'[n].pkt = p
      /\ \A k \in DOMAIN frames : frames'[k] = frames[k]
  BY <1>1, <1>2, <1>3, FrameSent
<1> HIDE DEF p, n
<1>6. pc \in [Sender -> Pc] /\ skb \in [Sender -> Packet \cup {NULL}]
  BY DEF IInv, TypeOK
<1>7. /\ pc' \in [Sender -> Pc] /\ pc'[t] = "idle" /\ \A u \in Sender : u # t => pc'[u] = pc[u]
      /\ skb' \in [Sender -> Packet \cup {NULL}] /\ skb'[t] = NULL
      /\ \A u \in Sender : u # t => skb'[u] = skb[u]
  BY <1>1, <1>6 DEF Pc
<1>8. TypeOK'
  BY <1>1, <1>5, <1>7 DEF IInv, TypeOK
<1>9. EntriesOK'
  BY <1>1, <1>7 DEF IInv, EntriesOK
<1>10. HeldOK'
  <2>1. \A k \in DOMAIN frames : frames[k].pkt # NULL
    <3>1. \A k \in DOMAIN frames : frames[k] \in FrameRec
      BY DEF IInv, TypeOK
    <3>2. QED BY <3>1, ArpRaceAssumption DEF FrameRec
  <2>2. \A f \in DOMAIN entry : NULL \notin Range(entry[f].pending_pkts)
    BY EntryFacts, ArpRaceAssumption
  <2>3. \A u \in Sender : skb'[u] = NULL <=> pc'[u] \in {"idle", "request"}
    BY <1>7 DEF IInv, HeldOK
  <2>4. \A u, v \in Sender : skb'[u] = skb'[v] => u = v \/ skb'[u] = NULL
    BY <1>7 DEF IInv, HeldOK
  <2>5. \A u \in Sender, k \in DOMAIN frames' : frames'[k].pkt # skb'[u]
    BY <1>3, <1>4, <1>5, <1>7, <2>1 DEF IInv, HeldOK
  <2>6. \A u \in Sender, f \in DOMAIN entry : skb'[u] \notin Range(entry[f].pending_pkts)
    BY <1>7, <2>2 DEF IInv, HeldOK
  <2>7. QED BY <1>1, <2>3, <2>4, <2>5, <2>6 DEF HeldOK
<1>11. QueuesOK' /\ WalkOK'
  BY <1>1 DEF IInv, QueuesOK, WalkOK
<1>12. SentOnce'
  BY <1>1, <1>4, <1>5, SentOnceAppend
<1>13. QED BY <1>8, <1>9, <1>10, <1>11, <1>12 DEF IInv

\* Steps of the receive thread that send nothing and leave the queues alone.
LEMMA QueuesKeptInv ==
  ASSUME IInv, UNCHANGED <<pc, skb, arp_entry, frames>>,
         entry' \in Seq(EntryRec), DOMAIN entry' = DOMAIN entry,
         \A f \in DOMAIN entry : entry'[f].pending_pkts = entry[f].pending_pkts,
         arp_msgs' \in [n : Nat, lost : Nat], arp_msgs'.n <= arp_msgs.n,
         flush' \in FlushRec, flush'.at # "idle" => flush'.e \in DOMAIN entry,
         WalkOK'
  PROVE  IInv'
<1>1. TypeOK'
  BY DEF IInv, TypeOK
<1>2. EntriesOK'
  <2>1. arp_msgs'.n > 0 => arp_msgs.n > 0
    BY DEF IInv, TypeOK
  <2>2. entry # << >> => entry' # << >>
    <3>1. Len(entry) \in Nat /\ DOMAIN entry = 1..Len(entry)
      BY DEF IInv, TypeOK
    <3>2. Len(entry') \in Nat /\ DOMAIN entry' = 1..Len(entry')
      OBVIOUS
    <3>3. entry # << >> => 1 \in DOMAIN entry
      BY <3>1 DEF IInv, TypeOK
    <3>4. QED BY <3>2, <3>3
  <2>3. QED BY <2>1, <2>2 DEF IInv, EntriesOK
<1>3. HeldOK'
  BY DEF IInv, HeldOK
<1>4. QueuesOK'
  BY DEF IInv, QueuesOK
<1>5. SentOnce'
  BY DEF IInv, SentOnce, Queued
<1>6. QED BY <1>1, <1>2, <1>3, <1>4, <1>5 DEF IInv

\* arp_table_lookup in the update.
LEMMA UpdateLookupInv ==
  ASSUME IInv, UpdateLookup
  PROVE  IInv'
<1>1. /\ arp_msgs.n > 0 /\ arp_msgs' = [arp_msgs EXCEPT !.n = @ - 1]
      /\ flush' = [Idle EXCEPT !.at = "found", !.e = ArpTableLookup]
      /\ UNCHANGED <<entry, frames, pc, skb, arp_entry>>
  BY DEF UpdateLookup, Update
<1>2. entry # << >> /\ entry \in Seq(EntryRec) /\ arp_msgs \in [n : Nat, lost : Nat]
  BY <1>1 DEF IInv, EntriesOK, TypeOK
<1>3. ArpTableLookup = Len(entry) /\ Len(entry) \in Nat /\ Len(entry) \in DOMAIN entry
  BY <1>2 DEF ArpTableLookup
<1>4. /\ flush' \in FlushRec /\ flush'.at = "found" /\ flush'.e = Len(entry)
  <2>1. flush' = [at |-> "found", e |-> Len(entry), todo |-> << >>]
    BY <1>1, <1>3 DEF Idle
  <2>2. QED BY <1>3, <2>1 DEF FlushRec
<1>5. arp_msgs' \in [n : Nat, lost : Nat] /\ arp_msgs'.n <= arp_msgs.n
  BY <1>1, <1>2
<1>6. WalkOK'
  BY <1>4 DEF WalkOK
<1>7. QED BY <1>1, <1>2, <1>3, <1>4, <1>5, <1>6, QueuesKeptInv

\* resolved is set.
LEMMA SetResolvedInv ==
  ASSUME IInv, SetResolved
  PROVE  IInv'
<1> DEFINE e == flush.e
           x == [entry[e] EXCEPT !.resolved = TRUE]
<1>1. /\ flush.at = "found" /\ entry' = [entry EXCEPT ![e].resolved = TRUE]
      /\ flush' = [flush EXCEPT !.at = "copy"]
      /\ UNCHANGED <<arp_msgs, frames, pc, skb, arp_entry>>
  BY DEF SetResolved, Update
<1>2. e \in DOMAIN entry /\ flush \in FlushRec
  BY <1>1 DEF IInv, EntriesOK, TypeOK
<1>3. entry' = [entry EXCEPT ![e] = x]
  BY <1>1
<1>4. x \in EntryRec /\ x.pending_pkts = entry[e].pending_pkts
  BY <1>2, EntryFacts DEF EntryRec
<1>5. flush' \in FlushRec /\ flush'.at = "copy" /\ flush'.e = e
  BY <1>1, <1>2 DEF FlushRec
<1> HIDE DEF x, e
<1>6. /\ entry' \in Seq(EntryRec) /\ DOMAIN entry' = DOMAIN entry
      /\ entry'[e] = x /\ \A f \in DOMAIN entry : f # e => entry'[f] = entry[f]
  BY <1>2, <1>3, <1>4, UpdateEntry
<1>7. \A f \in DOMAIN entry : entry'[f].pending_pkts = entry[f].pending_pkts
  BY <1>4, <1>6
<1>8. WalkOK'
  BY <1>5 DEF WalkOK
<1>9. arp_msgs' \in [n : Nat, lost : Nat] /\ arp_msgs'.n <= arp_msgs.n
  BY <1>1 DEF IInv, TypeOK
<1>10. QED BY <1>1, <1>2, <1>5, <1>6, <1>7, <1>8, <1>9, QueuesKeptInv

\* The hardware address is copied.
LEMMA SetMacInv ==
  ASSUME IInv, SetMac
  PROVE  IInv'
<1> DEFINE e == flush.e
           x == [entry[e] EXCEPT !.mac = TRUE]
<1>1. /\ flush.at = "copy" /\ entry' = [entry EXCEPT ![e].mac = TRUE]
      /\ flush' = [flush EXCEPT !.at = "first"]
      /\ UNCHANGED <<arp_msgs, frames, pc, skb, arp_entry>>
  BY DEF SetMac, Update
<1>2. e \in DOMAIN entry /\ flush \in FlushRec
  BY <1>1 DEF IInv, EntriesOK, TypeOK
<1>3. entry' = [entry EXCEPT ![e] = x]
  BY <1>1
<1>4. x \in EntryRec /\ x.pending_pkts = entry[e].pending_pkts
  BY <1>2, EntryFacts DEF EntryRec
<1>5. flush' \in FlushRec /\ flush'.at = "first" /\ flush'.e = e
  BY <1>1, <1>2 DEF FlushRec
<1> HIDE DEF x, e
<1>6. /\ entry' \in Seq(EntryRec) /\ DOMAIN entry' = DOMAIN entry
      /\ entry'[e] = x /\ \A f \in DOMAIN entry : f # e => entry'[f] = entry[f]
  BY <1>2, <1>3, <1>4, UpdateEntry
<1>7. \A f \in DOMAIN entry : entry'[f].pending_pkts = entry[f].pending_pkts
  BY <1>4, <1>6
<1>8. WalkOK'
  BY <1>5 DEF WalkOK
<1>9. arp_msgs' \in [n : Nat, lost : Nat] /\ arp_msgs'.n <= arp_msgs.n
  BY <1>1 DEF IInv, TypeOK
<1>10. QED BY <1>1, <1>2, <1>5, <1>6, <1>7, <1>8, <1>9, QueuesKeptInv

\* The walk over the queue begins.
LEMMA FlushStartInv ==
  ASSUME IInv, FlushStart
  PROVE  IInv'
<1> DEFINE q == entry[flush.e].pending_pkts
<1>1. /\ flush.at = "first" /\ flush' = [flush EXCEPT !.at = "walk", !.todo = q]
      /\ UNCHANGED <<entry, arp_msgs, frames, pc, skb, arp_entry>>
  BY DEF FlushStart, Update
<1>2. flush.e \in DOMAIN entry /\ flush \in FlushRec
  BY <1>1 DEF IInv, EntriesOK, TypeOK
<1>3. q \in Seq(Packet) /\ IsInjective(q)
  BY <1>2, EntryFacts
<1>4. flush' \in FlushRec /\ flush'.e = flush.e /\ flush'.todo = q
  <2> HIDE DEF q
  <2>1. QED BY <1>1, <1>2, <1>3 DEF FlushRec
<1>5. WalkOK'
  BY <1>1, <1>3, <1>4 DEF WalkOK
<1>6. /\ entry \in Seq(EntryRec)
      /\ arp_msgs' \in [n : Nat, lost : Nat] /\ arp_msgs'.n <= arp_msgs.n
  BY <1>1 DEF IInv, TypeOK
<1>7. QED BY <1>1, <1>2, <1>4, <1>5, <1>6, QueuesKeptInv

\* One packet of the walk is unlinked and sent.
LEMMA FlushPacketInv ==
  ASSUME IInv, FlushPacket
  PROVE  IInv'
<1> DEFINE e == flush.e
           p == Head(flush.todo)
           q == entry[e].pending_pkts
           x == [entry[e] EXCEPT !.pending_pkts = RemoveFirst(@, p)]
           n == Len(frames) + 1
           todo == flush.todo
<1>1. /\ flush.at = "walk" /\ todo # << >>
      /\ entry' = [entry EXCEPT ![e].pending_pkts = RemoveFirst(@, p)]
      /\ EthernetOutput(e, p)
      /\ flush' = [flush EXCEPT !.todo = Tail(@)]
      /\ UNCHANGED <<arp_msgs, pc, skb, arp_entry>>
  BY DEF FlushPacket, Update
<1>2. /\ e \in DOMAIN entry /\ flush \in FlushRec
      /\ IsInjective(todo) /\ Range(todo) \subseteq Range(q)
  BY <1>1 DEF IInv, EntriesOK, TypeOK, WalkOK
<1>3. todo \in Seq(Packet)
  BY <1>2 DEF FlushRec
<1>4. /\ p \in Packet /\ Tail(todo) \in Seq(Packet) /\ Range(todo) = {p} \cup Range(Tail(todo))
      /\ IsInjective(Tail(todo)) /\ p \notin Range(Tail(todo))
  <2> HIDE DEF todo
  <2>1. QED BY <1>1, <1>2, <1>3, TailRange, TailInjective DEF todo
<1>5. /\ flush' \in FlushRec /\ flush'.at = "walk" /\ flush'.e = e /\ flush'.todo = Tail(todo)
  BY <1>1, <1>2, <1>4 DEF FlushRec
<1>6. entry[e] \in EntryRec /\ q \in Seq(Packet) /\ IsInjective(q)
  BY <1>2, EntryFacts
<1> HIDE DEF todo
<1>7. /\ frames' \in Seq(FrameRec) /\ DOMAIN frames' = DOMAIN frames \cup {n}
      /\ n \notin DOMAIN frames /\ frames'[n].pkt = p
      /\ \A k \in DOMAIN frames : frames'[k] = frames[k]
  BY <1>1, <1>2, <1>4, FrameSent
<1> HIDE DEF p, n, e
<1>8. /\ RemoveFirst(q, p) \in Seq(Packet) /\ Range(RemoveFirst(q, p)) = Range(q) \ {p}
      /\ IsInjective(RemoveFirst(q, p))
  <2> HIDE DEF q
  <2>1. QED BY <1>6, RemoveFirstRange
<1>9. x \in EntryRec /\ x.pending_pkts = RemoveFirst(q, p)
  BY <1>6, <1>8 DEF EntryRec
<1>10. entry' = [entry EXCEPT ![e] = x]
  BY <1>1
<1> HIDE DEF x
<1>11. /\ entry' \in Seq(EntryRec) /\ DOMAIN entry' = DOMAIN entry
       /\ entry'[e] = x /\ \A f \in DOMAIN entry : f # e => entry'[f] = entry[f]
  BY <1>2, <1>9, <1>10, UpdateEntry
<1>12. /\ Range(entry'[e].pending_pkts) = Range(entry[e].pending_pkts) \ {p}
       /\ IsInjective(entry'[e].pending_pkts)
       /\ \A f \in DOMAIN entry : f # e => entry'[f].pending_pkts = entry[f].pending_pkts
  BY <1>8, <1>9, <1>11
<1>13. \A f \in DOMAIN entry :
         Range(entry'[f].pending_pkts) \subseteq Range(entry[f].pending_pkts)
  BY <1>12
<1>14. p \in Range(entry[e].pending_pkts)
  BY <1>2, <1>4
<1>15. /\ \A f \in DOMAIN entry : p \notin Range(entry'[f].pending_pkts)
       /\ \A k \in DOMAIN frames : frames[k].pkt # p
       /\ \A u \in Sender : skb[u] # p
  <2>1. \A f \in DOMAIN entry : f # e => p \notin Range(entry[f].pending_pkts)
    BY <1>2, <1>14 DEF IInv, QueuesOK
  <2>2. \A f \in DOMAIN entry : p \notin Range(entry'[f].pending_pkts)
    BY <1>12, <2>1
  <2>3. QED BY <1>2, <1>14, <2>2 DEF IInv, SentOnce, Queued, HeldOK
<1>16. TypeOK'
  BY <1>1, <1>5, <1>7, <1>11 DEF IInv, TypeOK
<1>17. EntriesOK'
  <2>1. entry' # << >>
    BY <1>2, <1>11
  <2>2. QED BY <1>1, <1>2, <1>5, <1>11, <2>1 DEF IInv, EntriesOK
<1>18. HeldOK'
  <2>1. \A u \in Sender, k \in DOMAIN frames' : frames'[k].pkt # skb[u]
    BY <1>7, <1>15 DEF IInv, HeldOK
  <2>2. \A u \in Sender, f \in DOMAIN entry : skb[u] \notin Range(entry'[f].pending_pkts)
    BY <1>13 DEF IInv, HeldOK
  <2>3. QED BY <1>1, <1>11, <2>1, <2>2 DEF IInv, HeldOK
<1>19. QueuesOK'
  <2>1. \A f \in DOMAIN entry : IsInjective(entry'[f].pending_pkts)
    BY <1>12 DEF IInv, QueuesOK
  <2>2. ASSUME NEW f \in DOMAIN entry, NEW g \in DOMAIN entry, f # g
        PROVE  Range(entry'[f].pending_pkts) \cap Range(entry'[g].pending_pkts) = {}
    <3>1. Range(entry[f].pending_pkts) \cap Range(entry[g].pending_pkts) = {}
      BY <2>2 DEF IInv, QueuesOK
    <3>2. QED BY <1>13, <3>1
  <2>3. QED BY <1>11, <2>1, <2>2 DEF QueuesOK
<1>20. WalkOK'
  <2>1. Range(Tail(todo)) \subseteq Range(entry'[e].pending_pkts)
    BY <1>2, <1>4, <1>12
  <2>2. QED BY <1>4, <1>5, <2>1 DEF WalkOK
<1>21. SentOnce'
  BY <1>7, <1>11, <1>13, <1>15, SentOnceAppend
<1>22. QED BY <1>16, <1>17, <1>18, <1>19, <1>20, <1>21 DEF IInv

\* The walk ends.
LEMMA FlushEndInv ==
  ASSUME IInv, FlushEnd
  PROVE  IInv'
<1>1. /\ flush' = Idle
      /\ UNCHANGED <<entry, arp_msgs, frames, pc, skb, arp_entry>>
  BY DEF FlushEnd, Update
<1>2. flush' \in FlushRec /\ flush'.at = "idle"
  BY <1>1 DEF Idle, FlushRec
<1>3. WalkOK'
  BY <1>2 DEF WalkOK
<1>4. /\ entry \in Seq(EntryRec)
      /\ arp_msgs' \in [n : Nat, lost : Nat] /\ arp_msgs'.n <= arp_msgs.n
  BY <1>1 DEF IInv, TypeOK
<1>5. QED BY <1>1, <1>2, <1>3, <1>4, QueuesKeptInv

\* A request or a reply is lost.
LEMMA LoseInv ==
  ASSUME IInv, Lose
  PROVE  IInv'
<1>1. /\ arp_msgs.n > 0 /\ arp_msgs' = [n |-> arp_msgs.n - 1, lost |-> arp_msgs.lost + 1]
      /\ UNCHANGED <<entry, pc, skb, arp_entry, flush, frames>>
  BY DEF Lose
<1>2. /\ entry \in Seq(EntryRec) /\ flush \in FlushRec /\ arp_msgs \in [n : Nat, lost : Nat]
  BY DEF IInv, TypeOK
<1>3. arp_msgs' \in [n : Nat, lost : Nat] /\ arp_msgs'.n <= arp_msgs.n
  BY <1>1, <1>2
<1>4. WalkOK' /\ (flush'.at # "idle" => flush'.e \in DOMAIN entry)
  BY <1>1 DEF IInv, WalkOK, EntriesOK
<1>5. QED BY <1>1, <1>2, <1>3, <1>4, QueuesKeptInv

\* The invariant holds at first.
LEMMA InitInv ==
  ASSUME Init
  PROVE  IInv
<1>1. TypeOK
  <2>1. Idle \in FlushRec
    BY DEF Idle, FlushRec
  <2>2. QED BY <2>1 DEF Init, TypeOK, Pc
<1>2. EntriesOK /\ HeldOK /\ QueuesOK /\ WalkOK /\ SentOnce
  BY DEF Init, Idle, EntriesOK, HeldOK, QueuesOK, WalkOK, SentOnce
<1>3. QED BY <1>1, <1>2 DEF IInv

\* Every step preserves it.
LEMMA NextInv ==
  ASSUME IInv, [Next]_vars
  PROVE  IInv'
<1>1. CASE ArpTableUpdate
  BY <1>1, UpdateLookupInv, SetResolvedInv, SetMacInv, FlushStartInv, FlushPacketInv, FlushEndInv
     DEF ArpTableUpdate
<1>2. CASE Lose
  BY <1>2, LoseInv
<1>3. ASSUME NEW t \in Sender, Send(t) \/ IpPostroute(t)
      PROVE  IInv'
  BY <1>3, SendInv, LookupInv, EntryAddInv, TestResolvedInv, QueueInv, RequestInv, OutputInv
     DEF IpPostroute
<1>4. CASE UNCHANGED vars
  BY <1>4 DEF vars, IInv, TypeOK, EntriesOK, HeldOK, QueuesOK, WalkOK, SentOnce, Queued
<1>5. QED BY <1>1, <1>2, <1>3, <1>4 DEF Next

-----------------------------------------------------------------------------
(* Theorems. *)

\* The local variables of ip_postroute and of the update point to entries of
\* the table, and a packet is held by one thread, waits in one queue or was
\* sent, for any number of packets and threads.
THEOREM ArpRaceInvariant == Spec => []IInv
<1>1. Init => IInv
  BY InitInv
<1>2. IInv /\ [Next]_vars => IInv'
  BY NextInv
<1>3. QED BY <1>1, <1>2, PTL DEF Spec

\* No packet leaves twice, and none that left still waits, however many
\* threads change the queue while arp_table_update_from_arp_reply walks over
\* it, between its list operations.
THEOREM PacketsLeaveOnce == Spec => []SentOnce
<1>1. IInv => SentOnce
  BY DEF IInv
<1>2. QED BY <1>1, ArpRaceInvariant, PTL

-----------------------------------------------------------------------------
(* Nothing waits in vain while the address has one entry. *)

\* What arp_table_entry_add does not see to.
OneEntry == Len(entry) <= 1

\* With one entry, every queue is the one that a reply flushes.
LEMMA TheEntry ==
  ASSUME IInv, OneEntry, NEW e \in DOMAIN entry
  PROVE  e = ArpTableLookup
<1>1. Len(entry) \in Nat /\ DOMAIN entry = 1..Len(entry) /\ entry # << >> /\ e \in Nat
  BY EntryFacts
<1>2. QED BY <1>1 DEF OneEntry, ArpTableLookup

\* Steps that send no request, take no reply and put nothing on a queue.
LEMMA WaitKept ==
  ASSUME WaitsForFlush, UNCHANGED <<arp_msgs, flush>>, ArpTableLookup' = ArpTableLookup,
         \A u \in Sender : pc[u] = "request" => pc'[u] = "request",
         UNCHANGED entry
  PROVE  WaitsForFlush'
BY DEF WaitsForFlush, Queued

\* Steps of ip_postroute.
LEMMA SenderWaits ==
  ASSUME IInv, IInv', OneEntry', WaitsForFlush, NEW t \in Sender, Send(t) \/ IpPostroute(t)
  PROVE  WaitsForFlush'
<1>1. pc \in [Sender -> Pc]
  BY DEF IInv, TypeOK
<1>2. CASE Send(t) \/ Lookup(t) \/ TestResolved(t) \/ Output(t)
  <2>1. PICK from \in Pc \ {"request"}, to \in Pc : pc[t] = from /\ pc' = [pc EXCEPT ![t] = to]
    <3>1. CASE Send(t)  BY <3>1 DEF Send, Goto, Pc
    <3>2. CASE Lookup(t)  BY <3>2 DEF Lookup, Goto, Pc
    <3>3. CASE TestResolved(t)  BY <3>3 DEF TestResolved, Goto, Pc
    <3>4. CASE Output(t)  BY <3>4 DEF Output, Goto, Pc
    <3>5. QED BY <1>2, <3>1, <3>2, <3>3, <3>4
  <2>2. UNCHANGED <<entry, arp_msgs, flush>>
    BY <1>2 DEF Send, Lookup, TestResolved, Output
  <2>3. \A u \in Sender : pc[u] = "request" => pc'[u] = "request"
    BY <1>1, <2>1
  <2>4. ArpTableLookup' = ArpTableLookup
    BY <2>2 DEF ArpTableLookup
  <2>5. QED BY <2>2, <2>3, <2>4, WaitKept
<1>3. CASE EntryAdd(t)
  <2>1. entry' = Append(entry, InitArpEntry) /\ entry \in Seq(EntryRec)
    BY <1>3 DEF EntryAdd, IInv, TypeOK
  <2>2. InitArpEntry \in EntryRec /\ InitArpEntry.pending_pkts = << >>
    BY DEF InitArpEntry, EntryRec
  <2>3. /\ Len(entry) \in Nat /\ Len(entry') = Len(entry) + 1
        /\ DOMAIN entry' = 1..(Len(entry) + 1) /\ entry'[Len(entry) + 1] = InitArpEntry
    BY <2>1, <2>2, AppendProperties
  <2>4. \A e \in DOMAIN entry' : entry'[e] = InitArpEntry
    BY <2>3 DEF OneEntry
  <2>5. \A p \in Packet, e \in DOMAIN entry' : p \notin Range(entry'[e].pending_pkts)
    BY <2>2, <2>4 DEF Range
  <2>6. QED BY <2>5 DEF WaitsForFlush, Queued
<1>4. CASE Queue(t)
  <2>1. pc'[t] = "request"
    BY <1>1, <1>4 DEF Queue, Goto
  <2>2. \A e \in DOMAIN entry' : e = ArpTableLookup'
    <3>1. /\ Len(entry') \in Nat /\ DOMAIN entry' = 1..Len(entry')
          /\ entry' = << >> => Len(entry') = 0
      BY DEF IInv, TypeOK
    <3>2. QED BY <3>1 DEF OneEntry, ArpTableLookup
  <2>3. QED BY <2>1, <2>2 DEF WaitsForFlush
<1>5. CASE Request(t)
  <2>1. entry' = entry /\ arp_msgs' = [arp_msgs EXCEPT !.n = @ + 1] /\ arp_msgs.n \in Nat
    BY <1>5 DEF Request, IInv, TypeOK
  <2>2. arp_msgs'.n > 0
    BY <2>1 DEF IInv, TypeOK
  <2>3. \A e \in DOMAIN entry : e = ArpTableLookup
    BY <2>1, TheEntry DEF OneEntry
  <2>4. \A e \in DOMAIN entry' : e = ArpTableLookup'
    BY <2>1, <2>3 DEF ArpTableLookup
  <2>5. QED BY <2>2, <2>4 DEF WaitsForFlush
<1>6. QED BY <1>2, <1>3, <1>4, <1>5 DEF IpPostroute

\* Steps of the update.
LEMMA UpdateWaits ==
  ASSUME IInv, OneEntry, WaitsForFlush, ArpTableUpdate
  PROVE  WaitsForFlush'
<1>1. /\ flush \in FlushRec /\ entry \in Seq(EntryRec) /\ arp_msgs \in [n : Nat, lost : Nat]
      /\ flush.at # "idle" => flush.e \in DOMAIN entry
  BY DEF IInv, TypeOK, EntriesOK
<1>2. CASE UpdateLookup
  <2>1. /\ arp_msgs' = [arp_msgs EXCEPT !.n = @ - 1] /\ entry' = entry
        /\ flush' = [Idle EXCEPT !.at = "found", !.e = ArpTableLookup]
    BY <1>2 DEF UpdateLookup
  <2>2. flush'.at = "found" /\ flush'.e = ArpTableLookup
    BY <2>1 DEF Idle
  <2>3. \A e \in DOMAIN entry' : e = flush'.e
    BY <2>1, <2>2, TheEntry
  <2>4. QED BY <2>2, <2>3 DEF WaitsForFlush
<1>3. CASE SetResolved \/ SetMac \/ FlushStart
  <2>1. flush.at \in {"found", "copy", "first"}
    BY <1>3 DEF SetResolved, SetMac, FlushStart, Update
  <2>2. \A e \in DOMAIN entry : flush.e = e
    BY <1>1, <2>1, TheEntry
  <2>3. CASE SetResolved \/ SetMac
    <3>1. PICK a \in {"copy", "first"} : flush' = [flush EXCEPT !.at = a]
      BY <2>3 DEF SetResolved, SetMac
    <3>2. flush'.at = a /\ flush'.e = flush.e
      BY <1>1, <3>1 DEF FlushRec
    <3>3. DOMAIN entry' = DOMAIN entry
      BY <2>3 DEF SetResolved, SetMac
    <3>4. QED BY <2>2, <3>2, <3>3 DEF WaitsForFlush
  <2>4. CASE FlushStart
    <3>1. /\ entry' = entry
          /\ flush' = [flush EXCEPT !.at = "walk", !.todo = entry[flush.e].pending_pkts]
      BY <2>4 DEF FlushStart
    <3>2. flush'.e = flush.e /\ flush'.todo = entry[flush.e].pending_pkts
      BY <1>1, <3>1 DEF FlushRec
    <3>3. QED BY <2>2, <3>1, <3>2 DEF WaitsForFlush, Queued
  <2>5. QED BY <1>3, <2>3, <2>4
<1>4. CASE FlushPacket
  <2> DEFINE e == flush.e
             h == Head(flush.todo)
             q == entry[e].pending_pkts
             todo == flush.todo
  <2>1. /\ flush.at = "walk" /\ todo # << >> /\ arp_msgs' = arp_msgs /\ pc' = pc
        /\ entry' = [entry EXCEPT ![e].pending_pkts = RemoveFirst(@, h)]
        /\ flush' = [flush EXCEPT !.todo = Tail(@)]
    BY <1>4 DEF FlushPacket, Update
  <2>2. /\ flush'.e = e /\ flush'.todo = Tail(todo) /\ e \in DOMAIN entry
        /\ todo \in Seq(Packet)
    BY <1>1, <2>1 DEF FlushRec
  <2>3. q \in Seq(Packet) /\ IsInjective(q)
    BY <2>2, EntryFacts
  <2>4. Range(todo) = {h} \cup Range(Tail(todo))
    <3> HIDE DEF todo
    <3>1. QED BY <2>1, <2>2, TailRange DEF todo
  <2>5. entry'[e].pending_pkts = RemoveFirst(q, h) /\ DOMAIN entry' = DOMAIN entry
    <3>1. entry[e] \in EntryRec
      BY <2>2, EntryFacts
    <3>2. entry' = [entry EXCEPT ![e] = [entry[e] EXCEPT !.pending_pkts = RemoveFirst(q, h)]]
      BY <2>1
    <3>3. QED BY <2>2, <3>1, <3>2 DEF EntryRec
  <2> HIDE DEF q
  <2>6. Range(RemoveFirst(q, h)) = Range(q) \ {h}
    BY <2>3, RemoveFirstRange
  <2> HIDE DEF h, todo
  <2>7. \A f \in DOMAIN entry : f = e /\ f = ArpTableLookup
    BY <2>2, TheEntry
  <2> HIDE DEF e
  <2>8. ArpTableLookup' = ArpTableLookup
    <3>1. entry # << >> /\ entry' # << >>
      BY <2>2, <2>5
    <3>2. Len(entry') = Len(entry)
      BY <1>1, <2>1
    <3>3. QED BY <3>1, <3>2 DEF ArpTableLookup
  <2>9. ASSUME arp_msgs.lost = 0, NEW p \in Packet, p \in Range(entry'[e].pending_pkts)
        PROVE  \/ arp_msgs.n > 0
               \/ \E t \in Sender : pc[t] = "request"
               \/ p \in Range(Tail(todo))
    <3>1. p \in Range(q) /\ p # h
      BY <2>5, <2>6, <2>9
    <3>2. Queued(p, e)
      BY <2>2, <3>1 DEF Queued, q
    <3>3. arp_msgs.n > 0 \/ (\E t \in Sender : pc[t] = "request") \/ p \in Range(todo)
      BY <2>1, <2>2, <2>9, <3>2 DEF WaitsForFlush, todo
    <3>4. QED BY <2>4, <3>1, <3>3
  <2>10. QED BY <2>1, <2>2, <2>5, <2>7, <2>8, <2>9 DEF WaitsForFlush, Queued
<1>5. CASE FlushEnd
  <2>1. /\ flush.at = "walk" /\ flush.todo = << >>
        /\ UNCHANGED <<entry, arp_msgs, pc>>
    BY <1>5 DEF FlushEnd, Update
  <2>2. \A p : p \notin Range(flush.todo)
    BY <2>1 DEF Range
  <2>3. ArpTableLookup' = ArpTableLookup
    BY <2>1 DEF ArpTableLookup
  <2>4. QED BY <2>1, <2>2, <2>3 DEF WaitsForFlush, Queued
<1>6. QED BY <1>2, <1>3, <1>4, <1>5 DEF ArpTableUpdate

\* Every step while the table has at most one entry.
LEMMA NextWaits ==
  ASSUME IInv, IInv', OneEntry, OneEntry', WaitsForFlush, [Next]_vars
  PROVE  WaitsForFlush'
<1>1. CASE ArpTableUpdate
  BY <1>1, UpdateWaits
<1>2. CASE Lose
  <2>1. arp_msgs'.lost = arp_msgs.lost + 1 /\ arp_msgs.lost \in Nat
    BY <1>2 DEF Lose, IInv, TypeOK
  <2>2. QED BY <2>1 DEF WaitsForFlush
<1>3. ASSUME NEW t \in Sender, Send(t) \/ IpPostroute(t)
      PROVE  WaitsForFlush'
  BY <1>3, SenderWaits
<1>4. CASE UNCHANGED vars
  <2>1. ArpTableLookup' = ArpTableLookup
    BY <1>4 DEF vars, ArpTableLookup
  <2>2. QED BY <1>4, <2>1, WaitKept DEF vars
<1>5. QED BY <1>1, <1>2, <1>3, <1>4 DEF Next

\* However many threads send: as long as the address has at most one entry,
\* a packet that waits is ahead of a flush, of a reply or of a request.  So
\* the second entry that two threads can add is the only way to strand one.
THEOREM OneEntrySuffices == Spec /\ []OneEntry => []WaitsForFlush
<1>1. Init => WaitsForFlush
  BY DEF Init, WaitsForFlush
<1>2. IInv /\ IInv' /\ OneEntry /\ OneEntry' /\ WaitsForFlush /\ [Next]_vars => WaitsForFlush'
  BY NextWaits
<1>3. QED BY <1>1, <1>2, ArpRaceInvariant, PTL DEF Spec

\* One thread that sends adds an entry only when there is none.
SingleOK == OneEntry /\ \A t \in Sender : pc[t] = "add" => entry = << >>

\* One thread never adds a second entry.
LEMMA SingleEntry ==
  ASSUME \A s, t \in Sender : s = t
  PROVE  Spec => []SingleOK
<1>1. Init => SingleOK
  BY DEF Init, SingleOK, OneEntry
<1>2. ASSUME IInv, SingleOK, [Next]_vars
      PROVE  SingleOK'
  <2>1. pc \in [Sender -> Pc] /\ entry \in Seq(EntryRec)
    BY <1>2 DEF IInv, TypeOK
  <2>2. CASE ArpTableUpdate
    <3>1. pc' = pc
      BY <2>2 DEF ArpTableUpdate, UpdateLookup, SetResolved, SetMac, FlushStart, FlushPacket,
                  FlushEnd, Update
    <3>2. Len(entry') = Len(entry) /\ (entry = << >> => entry' = << >>)
      <4>1. CASE UpdateLookup \/ FlushStart \/ FlushEnd
        BY <4>1 DEF UpdateLookup, FlushStart, FlushEnd
      <4>2. CASE SetResolved \/ SetMac \/ FlushPacket
        <5>1. flush.e \in DOMAIN entry
          BY <1>2, <4>2 DEF IInv, EntriesOK, SetResolved, SetMac, FlushPacket, Update
        <5>2. entry # << >>
          BY <1>2, <5>1, EntryFacts
        <5>3. PICK x : entry' = [entry EXCEPT ![flush.e] = x]
          BY <4>2 DEF SetResolved, SetMac, FlushPacket
        <5>4. QED BY <2>1, <5>2, <5>3
      <4>3. QED BY <2>2, <4>1, <4>2 DEF ArpTableUpdate
    <3>3. QED BY <1>2, <3>1, <3>2 DEF SingleOK, OneEntry
  <2>3. CASE Lose \/ UNCHANGED vars
    BY <1>2, <2>3 DEF Lose, vars, SingleOK, OneEntry
  <2>4. ASSUME NEW t \in Sender, Send(t) \/ IpPostroute(t)
        PROVE  SingleOK'
    <3>1. CASE Lookup(t)
      <4>1. /\ pc' = [pc EXCEPT ![t] = IF ArpTableLookup = NULL THEN "add" ELSE "test"]
            /\ entry' = entry
        BY <3>1 DEF Lookup, Goto
      <4>2. ArpTableLookup = NULL => entry = << >>
        BY <2>1, ArpRaceAssumption DEF ArpTableLookup
      <4>3. pc'[t] = "add" => entry = << >>
        BY <2>1, <4>1, <4>2
      <4>4. QED BY <1>2, <4>1, <4>3 DEF SingleOK, OneEntry
    <3>2. CASE EntryAdd(t)
      <4>1. /\ entry = << >> /\ entry' = Append(entry, InitArpEntry)
            /\ pc' = [pc EXCEPT ![t] = "test"]
        BY <1>2, <3>2 DEF EntryAdd, Goto, SingleOK
      <4>2. Len(entry') = 1
        BY <4>1
      <4>3. pc'[t] = "test"
        BY <2>1, <4>1
      <4>4. QED BY <4>2, <4>3 DEF SingleOK, OneEntry
    <3>3. CASE Send(t) \/ TestResolved(t) \/ Request(t) \/ Output(t)
      <4>1. entry' = entry
        BY <3>3 DEF Send, TestResolved, Request, Output
      <4>2. pc'[t] # "add"
        <5>1. CASE Send(t)  BY <2>1, <5>1 DEF Send, Goto
        <5>2. CASE TestResolved(t)  BY <2>1, <5>2 DEF TestResolved, Goto
        <5>3. CASE Request(t)  BY <2>1, <5>3 DEF Request, Goto
        <5>4. CASE Output(t)  BY <2>1, <5>4 DEF Output, Goto
        <5>5. QED BY <3>3, <5>1, <5>2, <5>3, <5>4
      <4>3. QED BY <1>2, <4>1, <4>2 DEF SingleOK, OneEntry
    <3>4. CASE Queue(t)
      <4>1. /\ pc' = [pc EXCEPT ![t] = "request"]
            /\ entry' = [entry EXCEPT ![arp_entry[t]].pending_pkts = <<skb[t]>> \o @]
        BY <3>4 DEF Queue, Goto
      <4>2. pc'[t] = "request"
        BY <2>1, <4>1
      <4>3. Len(entry') = Len(entry)
        BY <2>1, <4>1
      <4>4. QED BY <1>2, <4>2, <4>3 DEF SingleOK, OneEntry
    <3>5. QED BY <2>4, <3>1, <3>2, <3>3, <3>4 DEF IpPostroute
  <2>5. QED BY <1>2, <2>2, <2>3, <2>4 DEF Next
<1>3. QED BY <1>1, <1>2, ArpRaceInvariant, PTL DEF Spec

\* With one thread that sends, the receive thread or another, nothing waits in
\* vain in a queue unless a request or a reply was lost, whatever the order
\* of its accesses and of those of arp_table_update_from_arp_reply.
THEOREM NothingWaitsInVain ==
  ASSUME \A s, t \in Sender : s = t
  PROVE  Spec => []WaitsForFlush
<1>1. SingleOK => OneEntry
  BY DEF SingleOK
<1>2. Spec => []SingleOK
  BY SingleEntry
<1>3. QED BY <1>1, <1>2, OneEntrySuffices, PTL
=============================================================================
