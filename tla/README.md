# Verification of simple_tcpip

simple_tcpip is a user-space TCP/IP stack. One process holds a *graph* of simulated nodes; the
interfaces of two nodes are joined by a link, which is a pair of UDP sockets on the loopback
device, and one receive thread serves the sockets of all interfaces. Applications call the stack
from their own threads. Nothing in the stack is protected by a lock.

This directory holds TLA+ models of the stack, TLC configurations for small instances,
and TLAPS proofs. `PROJECT.json` maps every definition to the source lines it models and lists the
runs, hazards, findings and theorems.

## 1. Inventory

| Component | State | Operations | Interacts with | Correct when |
|---|---|---|---|---|
| Ethernet (`ethernet.c`) | none | `ethernet_input`, `ethernet_output` | called by `recv_task` / by ARP and IP | accepts exactly the frames addressed to the interface |
| ARP (`arp.c`) | per node: list of entries (address, MAC, resolved, queue of packets) | request, reply, table update, flush of the queue | IP queues packets on entries; replies send them | no packet is stranded, duplicated, or sent to a wrong MAC |
| IP (`ip.c`) | per node: routing table; global forwarding switch | `ip_input`, `ip_preroute`, `ip_forward`, `ip_output`, `ip_postroute`, `rt_*` | Ethernet and ARP below, ICMP, UDP and TCP above | longest prefix wins; packets in a routing loop die |
| ICMP (`icmp.c`) | none | `ping`, `icmp_out`, `icmp_input` | IP | a pong answers a ping that was received, and reaches who asked |
| TCP (`tcp.c`) | descriptor tables, sockets, per-interface socket lists, connections | `tcp_socket` ... `tcp_send`, `tcp_input` | IP; shared by application and receive threads | bytes are read in order, once; the window is respected; lists agree with tables |
| UDP (`udp.c`) | as TCP, with datagram queues | `udp_socket` ... `udp_recvfrom`, `udp_input` | IP | datagrams are whole and in order |
| Communication (`comm.c`, `comm_udp.c`, `comm_tuntap.c`) | descriptor table, thread flags, sockets | open, close, send, receive, start and stop of `recv_task` | all layers | the thread serves every open interface until it is stopped |
| Switch (`switch.c`) | MAC table (unused) | `switch_input`, a stub | `pkt_receive` | - |
| Network properties, graph (`net.c`, `graph.c`) | nodes, interfaces, links, addresses | build, configure, destroy | own everything above | no component points to what was destroyed |
| Buffers, lists, utilities (`skbuff.h`, `list.h`, `utils.c`) | - | push, pull, put, reserve; add, delete; checksum, masks, conversions | used everywhere | a buffer never leaves its allocation; lists stay circular |

What is hard here: application threads and the receive thread meet in the ARP queues, the socket
lists and the connections; the queue of an ARP entry is emptied only by a reply, and there is no
timer; links lose frames silently; TCP segments arrive in any order, repeated and re-cut; routes
may loop; sockets are closed while connections still point to them; prefix and sequence arithmetic
has boundaries; buffers are freed by whoever the return value says; the receive thread is started and
stopped with a plain flag. The list `hazards` in `PROJECT.json` gives each at its line.

## 2. Modules

| Module | Models | Composed of |
|---|---|---|
| `IpArp` | links, Ethernet, ARP and IP of all nodes, with the accesses to the ARP tables as steps | - |
| `Icmp` | a network of nodes that ping each other: `IpArp` plus `icmp.c`; the specification | extends `IpArp` |
| `MCIcmp` | topologies for `Icmp`; the routes are looked up by `RouteTable` | extends `Icmp`, instantiates `RouteTable` |
| `SequenceLemmas` | lemmas about sequences and loops that the proofs share | - |
| `IcmpProofs` | theorems about `Icmp` | extends `Icmp`, `SequenceLemmas` |
| `ArpRace` | any number of threads in `ip_postroute` against the update of one address's ARP entries, access by access, with the history of every packet | - |
| `ArpRaceProofs` | theorems about `ArpRace` | extends `ArpRace`, `SequenceLemmas` |
| `RouteTable` | one routing table and `rt_lookup_lpm`, against a reference definition | - |
| `Tcp` | the sockets and connections of one node's TCP | instantiates `ByteStream` |
| `ByteStream` | abstract: what the receiving half of TCP promises | - |
| `MCTcp` | instances of `Tcp` | extends `Tcp` |
| `TcpProofs` | theorems about `Tcp`, the refinement of `ByteStream` included | extends `Tcp`, `SequenceLemmas` |
| `Udp`, `MCUdp` | UDP sockets, their lists and queues; instances | `MCUdp` extends `Udp` |
| `UdpProofs` | theorems about `Udp` | extends `Udp`, `SequenceLemmas` |
| `LinkedList` | the pointers of `list.h`, store by store, and the threads on a list | instantiates `Fifo` |
| `Fifo` | abstract: the sequence as which the other modules use a list | - |
| `Skbuff` | one buffer on every path through the stack | - |
| `Checksum`, `MCChecksum` | checksums of a packet on its way, against the standard's; instances | `MCChecksum` extends `Checksum` |
| `FoundationProofs` | theorems about `LinkedList`, with the refinement of `Fifo`, `RouteTable`, `Checksum` and `Skbuff`: what lies under the protocols | extends the four and `SequenceLemmas` |
| `Comm`, `MCComm` | descriptors, ports, and the receive thread's life; instances | `MCComm` extends `Comm` |
| `CommProofs` | theorems about `Comm` | extends `Comm`, `SequenceLemmas` |
| `Graph` | building and destroying the topology | - |
| `GraphProofs` | theorems about `Graph` | extends `Graph`, `SequenceLemmas` |

**IpArp and Icmp.** `arp[n][ip]` is the sequence of the entries for `ip` in node `n`'s table, oldest first (entries are never
removed while the node exists); the lookup finds the newest. `pending_pkts` is an entry's list, newest first, as `list_add` builds it.
`wire[i]` is the receive queue of interface `i`'s socket. The threads are the applications' (`App`) and the one that runs
`recv_task` (`Receiver`). `call[t]` is the place of thread `t` in `ip_postroute` with its local variables, `update` the place of the
receive thread in `arp_table_update_from_arp_reply`. Both run access by access: what `ip_postroute` does up to its lookup of the next
hop's entry touches nothing that another thread writes and is one step with the handler that calls it (`PingOut`, `RecvForward`, `RecvEchoRequest`);
then the new entry, the test of `resolved`, the queueing, the request and the output are steps of their own (`PostrouteStep`), and so are, for a reply, the lookup
(`RecvArpReply`), the two assignments (`SetResolved`, `SetMac`), the start of the flush (`FlushFirst`) and each of its iterations
(`FlushPending`). `recv_task` reads the next frame only when it is done with the previous one. `LoseFrame` is the operating system discarding a datagram, which also stands
for a failed `sendto`, since its result (`false`, 0) passes the test `>= 0` in `send_pkt_out`.
`pings`, `pinged`, `ponged` and the `id` of an echo are history: they record who called `ping` and
which nodes printed "Received ping" and "Received pong". `crashed` stands for the null
dereference of `icmp_input` on a packet that a node sent to itself. Interface addresses and routes are constants (the tests configure them
before the receive thread starts); `RtLookup` is any function in the theorems, and what
`RouteTable`'s lookup computes from real tables in the runs.

*Granularity.* The code takes no locks. In `IpArp` and `ArpRace` every access to an ARP table is a step, so a reply may be handled between the test of
`resolved` and the queueing, a packet may be sent between the two assignments, and two threads may both add an entry; the properties
name these cases where they matter. An operation on a list (`list_add`, `list_del`, the step of a walk) is one step in every module but
`LinkedList`. That is an idealisation where two threads change one list: `pending_pkts` (`ip.c:110` adds while `arp.c:97` deletes) and the two `rx_skb` (`udp.c`,
`tcp.c`). `LinkedList` shows that an adder beside a taker can damage the list (`MCLinkedList_race.cfg`, `MCLinkedList_flush.cfg`), and no passing run covers what happens then.

**ArpRace.** One node, one address. `pc[t]` is a sender's place in `ip_postroute`, `flush` that of the
receive thread in `arp_table_update_from_arp_reply`, both with their local variables. `entry` is the list
of the entries of the address, oldest first; the lookup returns the newest. Whoever owns the address answers every request
(`arp_msgs` counts requests and replies under way); `Lose` loses one. `IpArp` has the same steps among many nodes; here the number of senders is free and
`frames` records when every packet left. An operation on a list is one step, although `pending_pkts` is a list that one thread adds to while another takes.

**RouteTable.** Addresses are numbers as a little-endian machine loads them: the first octet is
the least significant. `IntIpMasked` is the macro `INT_IP_MASKED`, with the shift count taken modulo
the width, as x86 does. `LongestPrefix` is the reference, defined on the bits of the address as it
is written; it breaks ties as the loop does (newest of equal prefixes, oldest default route).

**Tcp.** The stack is only ever a server. A peer's stream is the bytes 1..`StreamLen`; byte `k` has
sequence number `Iss + k`. Any segment that a correct peer may have sent can arrive at any time,
any number of times, cut at any place, so loss, delay, duplication and reordering need no queue.
`rx_skb` holds the byte numbers of the queued segments. `snt.una` is never advanced by the code, so
the window is the one of the peer's SYN. `sent`, `reset` and `read` are history. `tcp_out` on a
connection whose socket was freed (`tcp_send` after `tcp_close`) sets `fault`, and nothing is said
of what follows. Segments that the code ignores change nothing and are not steps. `Stream` maps a
connection to the abstract `ByteStream`: what arrived is what was read and what is queued.

**Udp.** Sockets of all interfaces with an address, as `fd_to_sock` is global. A datagram has the size its sender gave
and the length with which it arrives, padding included; `net` holds those under way, which
may be lost or overtake each other. `udp_recvfrom` copies and pulls in one step (`UdpRecvfrom`) and deletes a
datagram that is used up in another (`UdpRecvfromDel`), since `udp_input` may add datagrams in between.
`arrived` and `got` are history.

**LinkedList.** Every store of `list_add` and `list_del` is a step of the adder or the taker; the walker
executes `list_for_each_entry`. The taker deletes the last element or all elements of a safe walk. `Concurrent` says
which of them may be at work together: the program has lists that are only used by one thread at a time, lists to which one thread adds
while another looks, and, wrongly, lists that two threads change: the queue of an ARP entry (`pending_pkts`) and the queues of received data (`rx_skb`). `Chain` reads the list along one direction; `Fifo` is implemented with `elems <- Chain(next)`.

**Skbuff.** `at` is the function that has the buffer, `caller` the one that frees it, or forgets it, when the call fails.
Whatever depends on contents (addresses, routes, protocols) is a free choice, except that a packet which a node sends to itself reaches
the handler of its own protocol. Frames that arrive have any size. `ethernet_input` and `arp_input` look at the length (`LongEnough`); IP, UDP and TCP pull their headers without
looking (`PullHeader`), and on a frame that is too short the assertion of `skb_pull` ends the process (`at = "abort"`, where the behaviour stops). `InBounds` says which frames can do that. A segment
that `tcp_out` refuses because the window is full is a buffer that is forgotten, as any that was not sent.

**Checksum.** A byte has `Radix` values, 256 in the code, and a word two bytes; a field of several bytes that is only summed is one
byte. `Reference` is the one's complement sum with the carry added at once, as the standard defines it.
`tcp_out` sums a segment with the address of the interface its socket is bound to, `ip_postroute` writes the address of the route's interface into the header afterwards; the two are
separate parameters, related by the test of `ip.c:80` (`IntfMatches`).

**Comm.** The operating system gives out the lowest descriptor, ports, and queues of one frame (later ones are dropped, which
UDP may do). A port number is `comm->port`; after the counter wrapped to 0 the system binds
some port that the stack does not know. The receive thread creates its epoll descriptor, scans the table, then waits and serves. As in all programs of
the repository comms are destroyed only while the receive thread does not run.

**Graph.** `Memory` is threaded through the operators that destroy: each access to an object that is not on the heap sets
`fault`. The loops over the slots and over the list of nodes are recursive functions, one value per turn. A link is one allocation with two interfaces, a tap's interface is one of its own. Running out of slots is an assertion that ends the
program, so it is a guard.

## 3. Runs

| Run | Checks | Bounds |
|---|---|---|
| `icmp` | `TypeOK`, `PendingCovered`, `TtlLive`, `NoDuplicate`, `PongAnswersPing`, `RefusedOnlyInRace`; `PingAnswered`, `FallsSilent` under `FairSpec` | the fixture's topology node1 - node0 - node2 with default routes, node0 and node1 each other's gateway; one application thread beside the receive thread; 2 pings, 1 lost frame, time to live 3 |
| `icmp_far` (violation) | `PongAtOrigin` | a ping from node1 to node2 |
| `route_table` | `LookupIsLpm` | all tables of at most 2 routes over three octets of two bits, prefixes on octet boundaries |
| `tcp` | `TypeOK`, `SocketsListed`, `ConnectionsListed`, `WithinWindow`, `StreamInOrder`, `IsByteStream` (refinement) | 2 sockets, one after the other under one descriptor, 2 peers (one unreachable), 2 connections, streams of 2 bytes and a FIN, 5 sequence numbers, 2 segments waiting, windows 3 and 0 |
| `arp_race` | `WaitsForFlush`, `SentOnce`; `EveryPacketSent`, `NextPacketRescues` under `FairSpec` | 1 application, 3 packets, 1 lost request or reply |
| `arp_two` (violation) | `EveryPacketSent` | an application and the receive thread send 1 packet each, no loss |
| `list` | `BackwardsToo`, `TakenIsGone`, `LookupSeesAll`, `ListIsSequence` (refinement) | 4 elements, adder beside walker, taker alone |
| `udp` | `ReadsWhatArrived`, `UdpSocketsListed`; `QueueDrains` under `FairSpec` | 2 interfaces, 3 sockets over 2 descriptors, 2 datagrams of 0 to 2 bytes, reads of 1 and 3 |
| `skbuff` | `InBounds`, `FrameFits`, `FreedOnce` | the code's sizes; payloads and frames at and beside every boundary, frames shorter than their headers included |
| `checksum` | `SumIsStandard`, `SentPacketChecks`, `SegmentChecks` | bytes of 4 values, payloads of up to 3 bytes, time to live 3; 3 interfaces, two of them with the same address |
| `comm` | `FdMapAgrees`, `FrameAtItsLink`, `ThreadGone`; `StopReturns`, `WatchedIsServed` under `FairSpec` | a link and a tap, 4 descriptors of which 2 fit the table, 4 port numbers, one event at a time, 2 threads |
| `graph` | `NoUseAfterFree`, `LinksConnect`, `NothingLeaks` | 3 nodes with 3 slots, 3 links, 2 taps; taps and links on different nodes |

*Why the bounds are enough to matter.* Two pings put two packets on one queue, or one on a queue while the other uses
the entry that the reply resolves, in both directions of a link, across a router or into a loop. One lost frame
is enough to lose a request, a reply or a packet at any point. Two threads are enough for both races on the ARP table: an echo reply or a forwarded
packet of the receive thread meets the ping of an application at a new address, and a ping falls between the two assignments. With 2 routes every tie and every
nesting of two prefixes occurs. With streams of 2 bytes a segment can overlap, precede or follow
what was received, and be read in portions; the sequence numbers of the first peer wrap within its stream. A second socket
takes the descriptor of the first when that is closed, while connections of the first remain.

Three packets let one be queued before, one during and one behind a flush. Four elements are an addition during each
step of a lookup over three. Two datagrams are one being read and one arriving. The sums of the small words produce
both carries and all last bytes. With four port numbers, the first of them 0, the counter wraps and meets used ports; of the four descriptors
two lie beyond the table, and a leaked epoll descriptor takes one away. Three links over two nodes make parallel links and loops and fill the slots.

*Fairness.* In `Icmp`, `FairSpec` assumes weak fairness of `RecvTask` as a whole: `recv_task` loops on
`epoll_wait` until it is told to stop, and each wake-up handles a frame of a readable socket.
It also assumes that an application's call of `ip_postroute`, which waits for nothing, runs to its end; no application has to
begin one. `epoll` serves the ready sockets in turn; the liveness
properties of `Icmp` do not need even that. In `ArpRace` each thread goes on with a call that it began; nobody has to
begin one. In `Udp` the application calls `udp_recvfrom` again and again on each of its sockets, as the loops of the tests do, and finishes each call. In
`Comm` both threads run, `pthread_join` returns once the thread has ended, and `epoll_wait` returns the ready descriptors in turn, as the kernel's ready list does
(`WatchedIsServed` needs this one).

*Deadlock* is checked in the runs of `Icmp`, `RouteTable` and `Checksum`. The behaviours of
the others may end: when the bounds are used up, when every descriptor is closed, after `fault`, when
`epoll_ctl` or an assertion of `init_interface` or of `skb_pull` ends the program, when the graph is destroyed.

Every property of a passing run has a *mutant*, a variant of one definition with a plausible
defect (`ArpReplyUnfilled`, `FitsWindowWithoutSize`, ...), which stands before the definition it
varies and is used nowhere else (its comment begins with "Defect"): with it in place of the definition, TLC finds the property violated.

### Findings

* `icmp_far`: `ip_postroute` rewrites the source address of forwarded packets, so the pong of a ping
  from beyond a router ends at the router.
* `arp_two`: two threads add two entries for one address; the packet of the hidden entry is never sent.

### Counterexample configurations

These configurations are kept for whoever works on the code: each states, in one property, what a
line of the repository leads one to expect, and `tlc -config <cfg> <module>` prints a behaviour of the
model that violates it. They are not runs of the project; once the code is changed, the property can
join the passing run of its module.

| Configuration | Module | Property | What the counterexample shows |
|---|---|---|---|
| `MCIcmp_self.cfg` | `MCIcmp` | `NoCrash` | A node that pings itself reaches `icmp_input` with a null `ip_hdr`, which only `ethernet_input` sets (`ip.c:90`, "it's sent to ourself"). |
| `MCRouteTable_odd.cfg` | `RouteTable` | `LookupIsLpm` | For a prefix that ends inside an octet the mask keeps the low bits of that octet (`ip.h:81`; `test_utils.c:19` expects the leading bits). |
| `MCRouteTable_host.cfg` | `RouteTable` | `LookupIsLpm` | `1<<32` is 1 on x86: a host route matches every address (`ip.h:81`). |
| `MCTcp_closed.cfg` | `MCTcp` | `NoSendAfterReset` | A connection closed "the rude way" (`tcp.c:97`) keeps its state, so `tcp_send` still transmits on it. |
| `MCArpRace_mac.cfg` | `ArpRace` | `MacKnownWhenSent` | `resolved` is set before the hardware address is copied (`arp.c:92`); a sender in between uses the zero address. |
| `MCLinkedList_race.cfg` | `LinkedList` | `TakerHoldsElement` | Beside `udp_input` or `tcp_input`, `list_last_entry` may return the list head as if it were a buffer (`udp.c:96`, `tcp.c:295`). |
| `MCLinkedList_flush.cfg` | `LinkedList` | `TakenIsGone` | A `list_add` that reads the first element before a `list_del` takes it off links it again: a flush of `pending_pkts` beside `ip_postroute` (`arp.c:97`, `ip.c:110`), or a read of `rx_skb`, later finds a buffer that was freed. |
| `MCUdp_padding.cfg` | `MCUdp` | `ReadsWhatWasSent` | Datagrams of less than 18 bytes are read with the padding of their frame (`udp.c:28`). |
| `MCChecksum_forward.cfg` | `MCChecksum` | `FilledHeaderChecks` | A forwarded header gets a checksum computed over the old one, and does not check (`ip.c:125`; `test_ip.c:40` expects that it does). |
| `MCGraph_tap.cfg` | `Graph` | `NoUseAfterFree` | Destroying a node with a tap and, in a later slot, a link reads the freed interface of the tap (`graph.c:44`). |

## 4. Proofs

`IcmpProofs` proves, for every topology, routing function, set of ping targets, initial time to live, and number
of application threads, pings and losses:

| Theorem | Statement |
|---|---|
| `TypeCorrect` | `Spec => []TypeOK` |
| `NoPacketStranded` | `Spec => []PendingCovered` |
| `PongsAreAnswers` | `Spec => []PongAnswersPing` |
| `NoEchoDuplicated` | `Spec => []NoDuplicate` |
| `TtlStaysLive` | `Spec => []TtlLive` |
| `RefusalsAreRaces` | `RoutesOnLink => (Spec => RefusedOnlyInRace)` |

*Assumptions* (named, in `IpArp` and `Icmp`; TLC evaluates them in every run of `MCIcmp`): links are
symmetric, a route leads over an interface of the node that has an address, addresses and MACs are
typed, the null value is none of the others, the receive thread is not an application's, and the initial time to live is positive.
`RefusalsAreRaces` also needs `RoutesOnLink`: the ARP table is keyed by the address alone, so a node with the same
address on two links could use the MAC of one on the other.

*The inductive invariant* `IInv`. `PendingCovered` alone is not inductive. That the reply under way
will find the right entry needs to know what ARP frames contain (`ArpFramesOK`) and that packets wait on the entry of their route's next hop
(`EntriesOK`); that a thread queues on an entry that exists, for the address that it then asks for, is `CallsOK`; that the flush never takes a packet from an
empty queue, and handles a neighbour's reply, is `UpdateOK`. With `NetTypeOK` and `PendingCovered` itself they make up `NetInv`. The argument for the race is in `QueueInv` and `SendRequestInv`: a packet
that is queued behind a flush has its own request due, then under way. It breaks down only when the address has a second entry, hence the
hypothesis in `PendingCovered` that there is one. `PongAnswersPing` needs that every packet on a wire, on a queue or in the hands of a thread
descends from a ping: requests are still addressed to what was pinged, however often their source was
rewritten, and replies exist only for pings that were received (`EchoesOK`, `PongsOK`). The proof
has a lemma per action (`EntryAddInv`, `QueueInv`, `AssignInv`, ...), over lemmas on what appending, taking and
prepending do to the range of a queue.

*Refusals.* `RefusedOnlyInRace` is an action property. A resolved entry holds the address of a neighbour, or the update is between its two assignments on
that very entry (`EntriesOK`); a thread at its output has an entry that is resolved (`CallsOK`), and so has the flush (`UpdateOK`). With `RoutesOnLink` the neighbour is the one at the other end
of the link.

*No duplicates.* `NoDuplicate` counts the copies of an echo, and no action says anything about counts. The strengthening
`EchoesAlone` speaks of places instead: an echo is at most once on a wire, on one wire, at most once on a queue, on one queue, in the hands of at most one thread, at most one node has
its pong, and two of the four never hold together. Each action first takes the echo from where it is (`Gone`: no place has it) and then
sends, queues or delivers it. `ping` sends an echo that has no place yet, because `EchoesOK` and `PongsOK` bound the ids in use by the
number of pings so far. The counts follow at the end, as a set whose elements are all equal has at most one.

`TcpProofs` proves, for any number of interfaces, ports, peers, sockets and connections, streams of any length and sequence
numbers of any width that is larger than a stream:

| Theorem | Statement |
|---|---|
| `TypesCorrect` | `Spec => []TypeOK` |
| `SocketsStayListed` | `Spec => []SocketsListed` |
| `ConnectionsStayListed` | `Spec => []ConnectionsListed` |
| `StreamStaysInOrder` | `Spec => []StreamInOrder` |
| `WindowRespected` | `Spec => []WithinWindow` |
| `ImplementsByteStream` | `Spec => IsByteStream`, a refinement |

*Assumptions* (`TcpAssumption`, `RecordAssumption`): a stream with its SYN and FIN is shorter than the sequence space (without it an old
segment is not distinguishable from a new one), a window is below it, and the values that stand for a null pointer and for
freed memory are not sockets.

*The inductive invariant*. `SocketsListed` needs that an interface is set exactly when a socket is bound (`BoundOK`): `tcp_close`
takes a socket off a list only then. `ConnectionsListed` is proved list by list (`ListsOK`), with `ParentsOK`: a socket that is opened has no
connections yet, not even those of an earlier one, since sockets are not reused. `StreamInOrder` alone is not inductive: it allows `rcv.nxt` to be one behind the FIN, and a connection in that
state would accept a byte too far. Such a connection is on the list of closed connections, where
`tcp_input` does not look, and every connection that is found expects the next byte (`ConnsOK`). From this and from arithmetic modulo the sequence
space (`ModUnique`), a segment in sequence starts exactly at the byte after those received. `WithinWindow` needs that `snt.nxt` counts at least the bytes
sent (`WindowOK`). The refinement maps every call to an arrival, to a portion taken, or to no step of the stream; the
case of `tcp_recv` needs what flattening does when the oldest segment is shortened or leaves.

`UdpProofs` proves, for any number of interfaces, sockets and datagrams of any size:

| Theorem | Statement |
|---|---|
| `UdpSocketsStayListed` | `Spec => []UdpSocketsListed` |
| `NothingLostInTheQueue` | `Spec => []ReadsWhatArrived` |

The invariant adds that an entry of a queue is never pulled beyond its length (`QueuesOK`), that between the two steps of `udp_recvfrom`
the datagram it copied from is still the oldest one (`ReadingOK`; only the reader takes datagrams off, new ones join at the other end), and
that a new socket has no history (`FreshOK`).

`CommProofs` proves, for any links and taps, and tables, ports and descriptors of any number:

| Theorem | Statement |
|---|---|
| `FdMapAlwaysAgrees` | `Spec => []FdMapAgrees` |
| `FramesStayAtTheirLink` | `Spec => []FrameAtItsLink` |
| `ThreadIsGone` | `Spec => []ThreadGone` |

A frame is at its link because no two open sockets have the same port and a port that a comm knows is that of its
own socket (`PortsOK`), which in turn needs that descriptors are not shared and that nothing is left of a closed one (`DescriptorsOK`).
`ThreadGone` needs that the request to quit exists only while `stop_recv_thread` waits (`ThreadOK`): a request left over
would end the next thread.

`ArpRaceProofs` proves, for any number of packets and losses:

| Theorem | Statement |
|---|---|
| `PacketsLeaveOnce` | `Spec => []SentOnce`, for any number of threads that send |
| `OneEntrySuffices` | `Spec /\ []OneEntry => []WaitsForFlush`, for any number of threads that send |
| `NothingWaitsInVain` | `Spec => []WaitsForFlush`, for one thread that sends |

`SentOnce` needs that a packet is in one place: with one thread (`HeldOK`), on one queue, once (`QueuesOK`), and that the packets ahead of
the walk are still on the queue that it walks (`WalkOK`), although others are added in front. `WaitsForFlush` is false for two threads (the run
`arp_two`): both may miss the entry and add one, and replies flush the newest only. `OneEntrySuffices` says that this is the only way to strand a
packet: as long as the table has at most one entry for the address (`OneEntry`), the step that queues is followed by a request and every
reply flushes the one queue. A single sender keeps `OneEntry`, since it adds an entry only when there is none.

`GraphProofs` proves, for any number of nodes, links, taps and slots, built and destroyed in any order:

| Theorem | Statement |
|---|---|
| `GraphFreed` | `Spec => []NothingLeaks` |
| `LinksStayConnected` | `Spec => []LinksConnect` |
| `NothingUsedAfterFree` | `Separate => (Spec => []NoUseAfterFree)`, where `Separate` says that no node has both links and taps |

*Assumptions* (`GraphAssumption`): the names of nodes, links and taps differ, as addresses of allocations do. Without `Separate` the third
statement is false (`MCGraph_tap.cfg`); the first two do not need it. The inductive invariant is `GraphOK`: an interface that exists is in a slot of
its node, which exists (`Owned`), in no two (`Once`), and the slots of a node hold nothing else (`SlotOK`). Inside `destroy_node` it does not hold, as
the slots of taps keep their pointers: the invariant of that loop, `Destroying`, says that the slots behind its index hold at most pointers to freed
taps, and its end gives `GraphOK` again once the node itself is freed. The loop of `destroy_graph` keeps `GraphOK` and has, after `k` turns,
the nodes after the `k`-th of the list; when there are none, `Owned` says that there are no links and no taps either. Both loops are reasoned about
with `LoopDef`, which gives the values after each turn, and by least counterexample.

`FoundationProofs` proves what the protocols build on, one structure after the other. Its modules share no state; they are in one
module because the arguments are of one kind, invariants of loops and of pointers.

*The linked list*, for any number of elements:

| Theorem | Statement |
|---|---|
| `ListReadsBackwards` | `TakerAlone => (Spec => []BackwardsToo)` |
| `TakenElementsAreGone` | `TakerAlone => (Spec => []TakenIsGone)` |
| `LookupsSeeAll` | `TakerAlone => (Spec => []LookupSeesAll)` |
| `ImplementsFifo` | `TakerAlone => (Spec => ListIsSequence)`, a refinement |

`TakerAlone` says that no thread works beside the one that takes elements off; an adder and a walker may work together. The hypothesis is needed:
TLC finds that an adder beside the taker breaks the first, the second and the fourth, and a walker beside it the third, on instances of three elements. In the code
the queues of ARP entries (`pending_pkts`) and of received data (`rx_skb`) are shared that way (`MCLinkedList_race.cfg`, `MCLinkedList_flush.cfg`; see the hazards). `LinkedListAssumption` says that there are finitely many elements
and that the base and the null pointer are not among them. The invariant `ListKept` is about the sequence `s` that the forward pointers spell: the cells of the ring
are the base, the elements of `s` and the base again (`At`), no element is there twice (`Ring`), every cell points forward to the next (`Forward`),
and back to the one before, with a gap at most at the place where `list_add` or `list_del` has a store left to do (`Backward`, `AdderOK`,
`TakerOK`). What the walker still has to see is ahead of its cursor (`Ahead`). `Chain` reads exactly `s` off such a ring (`ChainIs`), since `s` has at most
as many elements as there are (`RingLength`); read by the back pointers, a ring without a gap is the ring of the reversed sequence. Each store leaves `s`, prepends to it or removes from it, which is the refinement.

*The routing table*, for tables of any length and addresses and octets of any width:

| Theorem | Statement |
|---|---|
| `LookupReturnsLongestPrefix` | `OctetPrefixes => (RtSpec => []LookupIsLpm)` |

`OctetPrefixes` says that prefixes end with an octet and are shorter than an address; with others the statement is false
(`MCRouteTable_odd.cfg`, `MCRouteTable_host.cfg`). `INT_IP_MASKED` keeps the low bits of a little-endian number, and the reference compares the leading bits of
the address as it is written. Numbers agree modulo a power of two when their low bits agree (`LowBits`), and up to the end of an octet the low bits are the leading bits in another
order (`BitOrder`). The loop keeps `Found`: it holds the first of the longest prefixes and the last default route among the routes it has seen.

*The checksum*, for any number of values of a byte, all payloads up to any length that keeps the sum within 32 bits (`ChecksumAssumption`), and any number of hops:

| Theorem | Statement |
|---|---|
| `ChecksumIsStandard` | `CksumSpec => []SumIsStandard` |
| `SentPacketsCheck` | `CksumSpec => []SentPacketChecks` |
| `SegmentsCheck` | `CksumSpec => []SegmentChecks` |

`calc_checksum_16` adds everything up and folds twice, the standard adds each carry at once. Both give the number from 0 to `0xffff` that is congruent to the sum modulo `0xffff` and is 0 only if the sum is
(`Residue`), and there is only one (`ResidueUnique`). Two folds are enough because the sum is below `0x10000 * 0x10000` (`TotalBound`, `TwoFolds`). Replacing a word of zeros by the complement makes the sum
a multiple of `0xffff` that is not 0 (`FilledChecks`); the bytes are stored swapped and loaded swapped (`StoreWord`, `LoadedWord`). The word has to be zero before: `ip_forward` does not clear it, so a forwarded header does not check
(`MCChecksum_forward.cfg`). `SegmentsCheck` holds for any interfaces and addresses: the sum is taken with `local_ip`, and a packet whose route names another interface is refused, so the source
that `ip_postroute` writes is the address that was summed.

*The packet buffer*, for every set of payload and frame sizes:

| Theorem | Statement |
|---|---|
| `BuffersInBounds` | `SkbSpec => []InBounds` |
| `FramesFit` | `SkbSpec => []FrameFits` |
| `BuffersFreedOnce` | `SkbSpec => []FreedOnce` |

The only assumption is that sizes are natural numbers. The inductive invariant `BufferInv` is `BufferTyped`, `InBounds`, `Placed`, `Sized`, `FrameFits`, `Held` and `Announced`. A push
stays in the allocation because at each place the data starts at one of a few offsets (`Placed`): 60 for what the
stack allocates, 40 below IP, 18 for what was received. Padding fits because 46 bytes follow
the start of the data wherever Ethernet may still be ahead, and a frame fits the receiver because of the bound on
the length there (`Sized`): an echo reply is as long as its request and a forwarded packet does not grow. A buffer that a layer
holds is not freed, and a call that freed it returns true, so that its caller does not (`Held`). What goes up came from `recv_task`, and its headers start at fixed offsets, all within the minimum frame of Ethernet; or the node sent it to itself, and it holds the headers
of its protocol (`Announced`): hence only short frames from outside fail an assertion. There is a lemma per
group of actions: allocation, reception, the way down, the way up, reading, and return.

*Lemmas about sequences.* `SequenceLemmas` says what appending, prepending, removing, reversing and flattening do to the elements, their
order and their number. What `FlattenSeq` computes is proved by least counterexample (`LeastNat`, from the library's well-founded relation on the natural
numbers), as the induction rules of the library take an operator that the provers cannot instantiate.

*Only model-checked*: liveness (`PingAnswered`, `FallsSilent`, `EveryPacketSent`, `NextPacketRescues`, `QueueDrains`, `StopReturns`,
`WatchedIsServed`), which needs fairness. Every invariant, the action property and both refinements of the passing runs are stated by a theorem. Recursive functions over data
(`Chain`, `pow2`, the loops of `rt_lookup_lpm` and `calc_checksum_16`) are reasoned about with `LoopDef` and by least counterexample.

## 5. Not modelled

* IP options (the header size is fixed in the code) and TCP options (the code counts them as payload).
* What a list that two threads damaged leads to: `LinkedList` stops at showing the damage.
* The hash that chooses hardware addresses (`net.c`): a product over the characters of two names. The models take any addresses;
  `RefusedOnlyInRace` says that a frame carries the address of the interface at the other end, whichever it is, or was sent too early.
* Conversions between addresses and strings, the search by name, dumps, the callbacks of the tests.
* `send_pkt_flood` and `send_bytes_flood`, the search for an interface by subnet, the loopback address and the MAC table: nothing in the stack uses
  them; `switch_input` is a stub.
* The destruction of a part of a network while traffic runs: no program of the repository does it.
* Compiler reordering: `ArpRace` and `LinkedList` take the accesses in the order of the statements.

## 6. Plan

1. Done: `IpArp`, `Icmp`, `RouteTable`, `Tcp`; the proofs of `Icmp`.
2. Done: `ArpRace`, `LinkedList` with `Fifo`, `Udp`, `ByteStream`, `Skbuff` with its proofs, `Checksum`, `Comm`, `Graph`.
3. Done: the proofs of `Tcp`, with the refinement of `ByteStream`, of `Udp`, `Comm`, `ArpRace` and `Graph`; `NoDuplicate` of `Icmp`.
4. Done: the proofs of `LinkedList`, with the refinement of `Fifo`, of `RouteTable` and of `Checksum`.
   `IpArp` and `Icmp` access by access, with their proofs.
5. Open: a model of the destruction of nodes beside traffic, should a program begin to do it.
