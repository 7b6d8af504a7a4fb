-------------------------------- MODULE Udp --------------------------------
(***************************************************************************)
(* UDP (udp.c): the sockets of a node, the datagrams that they send and    *)
(* receive, and the calls of an application.                               *)
(*                                                                         *)
(* recv_task calls udp_input; one application thread calls the rest.       *)
(* udp_recvfrom is two steps, since it looks at the queue first and takes  *)
(* the datagram off when it has copied the data: datagrams arrive in       *)
(* between.  The other calls are one step.  Below IP datagrams may be lost *)
(* or overtake each other (an ARP queue is sent newest first).             *)
(***************************************************************************)
EXTENDS Naturals, Sequences, SequencesExt

CONSTANTS
  Intf,             \* interfaces with an address, of any node
  Port,
  Routed,           \* <<i, j>>: the route to j's address leads over i itself
  Sizes,            \* sizes that the application gives to the calls
  HostSizes,        \* sizes of the datagrams that another host sends through a tap
  MAX_UDP_SOCKS,
  MAX_UDP_PAYLOAD,
  MinPayload,       \* what is left of a padded frame of 60 bytes: 18 in the code
  MaxSocks,         \* bound on the calls of udp_socket
  MaxDatagrams,     \* bound on the datagrams ever sent
  NULL,
  FREED             \* the memory of a socket after udp_close

ASSUME UdpAssumption ==
  /\ Routed \subseteq Intf \X Intf
  /\ Sizes \subseteq Nat \ {0} /\ HostSizes \subseteq Nat
  /\ {MAX_UDP_SOCKS, MAX_UDP_PAYLOAD} \subseteq Nat \ {0}
  /\ {MinPayload, MaxSocks, MaxDatagrams} \subseteq Nat
  /\ NULL \notin Nat \cup Intf \cup {FREED}

SockFd == 0..(MAX_UDP_SOCKS - 1)

SockId == 1..MaxSocks

VARIABLES
  fd_to_sock,  \* fd -> socket
  sock,        \* socket -> struct udp_sock; NULL before it is allocated
  managers,    \* interface -> its udp_socks_manager, newest socket first
  reading,     \* the socket whose oldest datagram udp_recvfrom has just copied from
  dgram,       \* the datagrams ever sent: size in the header, len as it arrives
  net,         \* those that are under way
  arrived,     \* history: socket -> the datagrams that were queued on it
  got          \* history: socket -> the bytes that calls of udp_recvfrom returned

vars == <<fd_to_sock, sock, managers, reading, dgram, net, arrived, got>>

-----------------------------------------------------------------------------
(* Sockets. *)

\* rx_skb holds datagrams and how much of them was pulled, newest first.
SockRec == [bound : BOOLEAN, intf : Intf \cup {NULL}, local_port : Port \cup {NULL},
            rx_skb : Seq([d : Nat, pulled : Nat])]

\* A record is neither of the two values that stand for memory without one.
ASSUME RecordAssumption == {NULL, FREED} \cap SockRec = {}

NewSock == [bound |-> FALSE, intf |-> NULL, local_port |-> NULL, rx_skb |-> <<>>]

Live(s) == sock[s] \notin {NULL, FREED}

IsGoodUdpSock(fd) == fd_to_sock[fd] # NULL

IsBoundSock(fd) == IsGoodUdpSock(fd) /\ sock[fd_to_sock[fd]].bound

\* The first match from the newest socket on; NULL if there is none.
UdpSocksManagerFind(i, port) ==
  LET k == SelectInSeq(managers[i], LAMBDA s : sock[s].local_port = port)
  IN  IF k = 0 THEN NULL ELSE managers[i][k]

UdpSocket(fd) ==
  /\ fd_to_sock[fd] = NULL /\ \A k \in SockFd : k < fd => fd_to_sock[k] # NULL
  /\ \E s \in SockId :
       /\ sock[s] = NULL
       /\ \A t \in SockId : t < s => sock[t] # NULL
       /\ sock' = [sock EXCEPT ![s] = NewSock]
       /\ fd_to_sock' = [fd_to_sock EXCEPT ![fd] = s]
  /\ UNCHANGED <<managers, dgram, net, arrived, got>>

\* Defect: the socket is not taken off the list of its interface.
UdpCloseKeepsListed(fd) ==
  /\ IsGoodUdpSock(fd)
  /\ fd_to_sock' = [fd_to_sock EXCEPT ![fd] = NULL]
  /\ sock' = [sock EXCEPT ![fd_to_sock[fd]] = FREED]
  /\ UNCHANGED <<managers, dgram, net, arrived, got>>

\* The datagrams on the queue are lost with it.
UdpClose(fd) ==
  LET s == fd_to_sock[fd]
  IN  /\ IsGoodUdpSock(fd)
      /\ fd_to_sock' = [fd_to_sock EXCEPT ![fd] = NULL]
      /\ managers' = IF sock[s].bound
                       THEN [managers EXCEPT ![sock[s].intf] = RemoveFirst(@, s)]
                       ELSE managers
      /\ sock' = [sock EXCEPT ![s] = FREED]
      /\ UNCHANGED <<dgram, net, arrived, got>>

\* i is the interface that has the given address.
UdpBind(fd, i, port) ==
  LET s == fd_to_sock[fd]
  IN  /\ IsGoodUdpSock(fd)
      /\ ~sock[s].bound
      /\ sock' = [sock EXCEPT ![s].bound = TRUE, ![s].intf = i, ![s].local_port = port]
      /\ managers' = [managers EXCEPT ![i] = <<s>> \o @]
      /\ UNCHANGED <<fd_to_sock, dgram, net, arrived, got>>

-----------------------------------------------------------------------------
(* Datagrams. *)

MinOf(m, n) == IF m < n THEN m ELSE n

\* Ethernet pads what is shorter than its minimum, and nobody takes it off.
Padded(size) == IF size < MinPayload THEN MinPayload ELSE size

UdpOut(d) ==
  /\ Len(dgram) < MaxDatagrams
  /\ dgram' = Append(dgram, d)
  /\ net' = net \cup {Len(dgram) + 1}
  /\ UNCHANGED <<fd_to_sock, sock, managers, arrived, got>>

\* A call that finds no route, or one over another interface, sends nothing.
UdpSendto(fd, size, i, port) ==
  LET final_size == MinOf(size, MAX_UDP_PAYLOAD)
  IN  /\ IsBoundSock(fd)
      /\ <<sock[fd_to_sock[fd]].intf, i>> \in Routed
      /\ UdpOut([intf |-> i, port |-> port, size |-> final_size, len |-> Padded(final_size)])

HostSends(i, port, size) == UdpOut([intf |-> i, port |-> port, size |-> size, len |-> size])

UdpInput(d) ==
  LET s == UdpSocksManagerFind(dgram[d].intf, dgram[d].port)
  IN  /\ d \in net
      /\ net' = net \ {d}
      /\ IF s = NULL THEN UNCHANGED <<sock, arrived>>
         ELSE /\ sock' = [sock EXCEPT ![s].rx_skb = <<[d |-> d, pulled |-> 0]>> \o @]
              /\ arrived' = [arrived EXCEPT ![s] = Append(@, d)]
      /\ UNCHANGED <<fd_to_sock, managers, reading, dgram, got>>

\* Copy from the oldest datagram and pull what was copied.
UdpRecvfrom(fd, size) ==
  LET s   == fd_to_sock[fd]
      rx  == sock[s].rx_skb
      skb == Last(rx)
      n   == MinOf(dgram[skb.d].len - skb.pulled, size)
  IN  /\ IsBoundSock(fd)
      /\ rx # <<>>
      /\ sock' = [sock EXCEPT ![s].rx_skb[Len(rx)].pulled = @ + n]
      /\ got' = IF n = 0 THEN got
                ELSE [got EXCEPT ![s] = Append(@, [d |-> skb.d, first |-> skb.pulled + 1, n |-> n])]
      /\ reading' = s
      /\ UNCHANGED <<fd_to_sock, managers, dgram, net, arrived>>

\* Defect: the rest of the datagram is dropped.
UdpRecvfromDelAlways ==
  /\ sock' = [sock EXCEPT ![reading].rx_skb = Front(@)]
  /\ reading' = NULL
  /\ UNCHANGED <<fd_to_sock, managers, dgram, net, arrived, got>>

\* Defect: the datagram is never taken off.
UdpRecvfromDelNever ==
  /\ reading' = NULL
  /\ UNCHANGED <<fd_to_sock, sock, managers, dgram, net, arrived, got>>

\* Take the datagram off when it is used up.
UdpRecvfromDel ==
  LET skb == Last(sock[reading].rx_skb)
  IN  /\ sock' = IF skb.pulled = dgram[skb.d].len
                   THEN [sock EXCEPT ![reading].rx_skb = Front(@)] ELSE sock
      /\ reading' = NULL
      /\ UNCHANGED <<fd_to_sock, managers, dgram, net, arrived, got>>

-----------------------------------------------------------------------------
Init ==
  /\ fd_to_sock = [fd \in SockFd |-> NULL]
  /\ sock = [s \in SockId |-> NULL]
  /\ managers = [i \in Intf |-> <<>>]
  /\ reading = NULL
  /\ dgram = <<>> /\ net = {}
  /\ arrived = [s \in SockId |-> <<>>]
  /\ got = [s \in SockId |-> <<>>]

Recv(fd) == reading = NULL /\ \E size \in Sizes : UdpRecvfrom(fd, size)

RecvDel == reading # NULL /\ UdpRecvfromDel

Call(fd) ==
  /\ reading = NULL
  /\ reading' = NULL
  /\ \/ UdpSocket(fd) \/ UdpClose(fd)
     \/ \E i \in Intf, port \in Port :
          UdpBind(fd, i, port) \/ \E size \in Sizes : UdpSendto(fd, size, i, port)

Host ==
  /\ UNCHANGED reading
  /\ \E i \in Intf, port \in Port, size \in HostSizes : HostSends(i, port, size)

RecvTask == \E d \in net : UdpInput(d)

Next == RecvTask \/ Host \/ RecvDel \/ \E fd \in SockFd : Recv(fd) \/ Call(fd)

Spec == Init /\ [][Next]_vars

\* The application reads its sockets again and again, as the tests do.
FairSpec == Spec /\ WF_vars(RecvDel) /\ \A fd \in SockFd : WF_vars(Recv(fd))

-----------------------------------------------------------------------------
(* Properties. *)

Bytes(d, first, n) == [k \in 1..n |-> <<d, first + k - 1>>]

\* The bytes of a sequence of calls, of queue entries (oldest first) and of
\* whole datagrams.
Returned(calls) ==
  FlattenSeq([k \in DOMAIN calls |-> Bytes(calls[k].d, calls[k].first, calls[k].n)])

Rest(x, dg) == Bytes(x.d, x.pulled + 1, dg[x.d].len - x.pulled)

Left(queue, dg) == FlattenSeq([k \in DOMAIN queue |-> Rest(queue[k], dg)])

Whole(ds, dg) == FlattenSeq([k \in DOMAIN ds |-> Bytes(ds[k], 1, dg[ds[k]].len)])

\* Whatever arrives while udp_recvfrom is at work, and however the calls cut
\* the datagrams: what they returned, followed by what is still queued, is
\* what arrived, byte by byte and in the order of arrival, and no call mixes
\* two datagrams.  The list_add of udp_input and the list_del of udp_recvfrom
\* are single steps here; what they do to rx_skb when one runs beside the
\* other, unlocked, is LinkedList's question, and goes wrong there
\* (MCLinkedList_race.cfg).
ReadsWhatArrived ==
  \A s \in SockId : Live(s) =>
    Returned(got[s]) \o Left(Reverse(sock[s].rx_skb), dgram) = Whole(arrived[s], dgram)

\* The list of an interface, which udp_input walks, holds exactly the live
\* sockets bound to the interface, each once, over any sequence of
\* udp_socket, udp_bind and udp_close; every live socket has one descriptor.
UdpSocketsListed ==
  /\ \A i \in Intf :
       /\ IsInjective(managers[i])
       /\ Range(managers[i]) = {s \in SockId : Live(s) /\ sock[s].intf = i}
  /\ \A s \in SockId :
       Live(s) <=> \E fd \in SockFd : fd_to_sock[fd] = s
  /\ \A fd1, fd2 \in SockFd :
       fd_to_sock[fd1] = fd_to_sock[fd2] => fd1 = fd2 \/ fd_to_sock[fd1] = NULL

\* A queue is emptied by an application that keeps reading: a datagram leaves
\* it, an empty one too, unless the socket is closed.
QueueDrains ==
  \A s \in SockId, d \in 1..MaxDatagrams :
    (Live(s) /\ \E k \in DOMAIN sock[s].rx_skb : sock[s].rx_skb[k].d = d)
      ~> (~Live(s) \/ \A k \in DOMAIN sock[s].rx_skb : sock[s].rx_skb[k].d # d)

\* A receiver gets no more bytes of a datagram than its sender sent ("UDP
\* sent %ld bytes", "UDP received %ld bytes").
ReadsWhatWasSent ==
  \A s \in SockId : \A k \in DOMAIN got[s] :
    got[s][k].first + got[s][k].n - 1 <= dgram[got[s][k].d].size
=============================================================================
