-------------------------------- MODULE Tcp --------------------------------
(***************************************************************************)
(* The TCP server of a node (tcp.c): listening sockets, the connections    *)
(* that peers open to them, and the calls of the application.              *)
(*                                                                         *)
(* Two threads act: recv_task, which calls tcp_input for every segment,    *)
(* and the application, which calls the socket functions.  Each call is    *)
(* one step.  The peers are other hosts (the stack cannot open a           *)
(* connection itself): whatever they sent once may arrive at any time, any *)
(* number of times or never, and they cut their stream into segments as    *)
(* they like when they send it again.                                      *)
(***************************************************************************)
EXTENDS Integers, Sequences, SequencesExt

CONSTANTS
  Intf,                \* the node's interfaces
  Port,                \* local ports
  Peer,                \* remote endpoints: address and port
  Reachable,           \* the peers that ip_output finds a route to
  Iss,                 \* a peer's initial sequence number
  PeerWnd,             \* the window in a peer's SYN
  StreamLen,           \* bytes that a peer sends
  SeqSpace,              \* 2^32 in the code
  Sizes,               \* sizes that the application gives to the calls
  MAX_TCP_SOCKS,
  MAX_TCP_CONN_SOCKS,
  MAX_TCP_PAYLOAD,
  MaxSocks,            \* bound on the calls of tcp_socket
  MaxConns,            \* bound on the connections ever opened
  MaxRx,               \* bound on the segments waiting for tcp_recv
  NULL,
  FREED                \* the memory of a socket after tcp_close

ASSUME TcpAssumption ==
  /\ SeqSpace \in Nat \ {0}
  /\ Reachable \subseteq Peer
  /\ Iss \in [Peer -> 0..(SeqSpace - 1)]
  /\ PeerWnd \in [Peer -> 0..(SeqSpace - 1)]   \* 16 bits against 32
  /\ StreamLen \in Nat /\ StreamLen + 1 < SeqSpace
  /\ Sizes \subseteq Nat \ {0}
  /\ {MAX_TCP_SOCKS, MAX_TCP_CONN_SOCKS, MAX_TCP_PAYLOAD} \subseteq Nat \ {0}
  /\ {MaxSocks, MaxConns, MaxRx} \subseteq Nat
  /\ NULL \notin Nat \cup Intf \cup {FREED}

SockFd == 0..(MAX_TCP_SOCKS - 1)

ConnFd == 0..(MAX_TCP_CONN_SOCKS - 1)

SockId == 1..MaxSocks

ConnId == 1..MaxConns

VARIABLES
  fd_to_sock,       \* fd -> socket
  fd_conn_to_sock,  \* fd -> connection
  sock,             \* socket -> struct tcp_sock; NULL before it is allocated
  managers,         \* interface -> its tcp_socks_manager, newest socket first
  conn,             \* the connections ever allocated: none is ever freed
  fault             \* tcp_send used a freed socket: nothing is said of what follows

vars == <<fd_to_sock, fd_conn_to_sock, sock, managers, conn, fault>>

-----------------------------------------------------------------------------
(* The stream of a peer: byte k has the sequence number Iss + k; its SYN   *)
(* has Iss and its FIN follows the last byte.                              *)

\* The flags of the segments that a peer sends.
Flags == {{"SYN"}, {"ACK"}, {"FIN", "ACK"}, {"RST"}}

Segment == [intf : Intf, dst_port : Port, peer : Peer, flags : Flags,
            first : 0..(StreamLen + 1), len : 0..StreamLen]

SeqNum(peer, k) == (Iss[peer] + k) % SeqSpace

Bytes(seg) == [k \in 1..seg.len |-> seg.first + k - 1]

\* A peer sends anything but its SYN only in answer to a SYN|ACK.
Answered(peer) == peer \in Reachable /\ \E c \in DOMAIN conn : conn[c].peer = peer

CanArrive(seg) ==
  \/ seg.flags = {"SYN"} /\ seg.first = 0 /\ seg.len = 0
  \/ /\ Answered(seg.peer)
     /\ seg.first > 0
     /\ seg.first + seg.len <= StreamLen + 1
     /\ \/ seg.flags = {"ACK"}
        \/ seg.flags = {"FIN", "ACK"} /\ seg.first + seg.len = StreamLen + 1
        \/ seg.flags = {"RST"} /\ seg.len = 0

-----------------------------------------------------------------------------
(* Sockets. *)

SockRec == [bound : BOOLEAN, listening : BOOLEAN, intf : Intf \cup {NULL},
            local_port : Port \cup {NULL},
            conns : Seq(ConnId), closed_conns : Seq(ConnId)]

\* A record is neither of the two values that stand for memory without one.
ASSUME RecordAssumption == {NULL, FREED} \cap SockRec = {}

NewSock == [bound |-> FALSE, listening |-> FALSE, intf |-> NULL,
            local_port |-> NULL, conns |-> <<>>, closed_conns |-> <<>>]

Live(s) == sock[s] \notin {NULL, FREED}

IsGoodTcpSock(fd) == fd_to_sock[fd] # NULL

FirstFree(table, fd) == table[fd] = NULL /\ \A k \in DOMAIN table : k < fd => table[k] # NULL

\* The first match from the newest socket on; NULL if there is none.
TcpSocksManagerFind(i, port) ==
  LET k == SelectInSeq(managers[i], LAMBDA s : sock[s].local_port = port)
  IN  IF k = 0 THEN NULL ELSE managers[i][k]

\* Defect: connections in the handshake are overlooked.
FindEstablishedConnection(s, peer) ==
  LET k == SelectInSeq(sock[s].conns,
                       LAMBDA c : conn[c].peer = peer /\ conn[c].state = "estab")
  IN  IF k = 0 THEN NULL ELSE sock[s].conns[k]

FindMatchingConnection(s, peer) ==
  LET k == SelectInSeq(sock[s].conns, LAMBDA c : conn[c].peer = peer)
  IN  IF k = 0 THEN NULL ELSE sock[s].conns[k]

TcpSocket(fd) ==
  /\ ~fault
  /\ FirstFree(fd_to_sock, fd)
  /\ \E s \in SockId :
       /\ sock[s] = NULL
       /\ \A t \in SockId : t < s => sock[t] # NULL
       /\ sock' = [sock EXCEPT ![s] = NewSock]
       /\ fd_to_sock' = [fd_to_sock EXCEPT ![fd] = s]
  /\ UNCHANGED <<fd_conn_to_sock, managers, conn, fault>>

\* Defect: the socket is not taken off the list of its interface.
TcpCloseKeepsListed(fd) ==
  LET s == fd_to_sock[fd]
  IN  /\ ~fault
      /\ IsGoodTcpSock(fd)
      /\ fd_to_sock' = [fd_to_sock EXCEPT ![fd] = NULL]
      /\ sock' = [sock EXCEPT ![s] = FREED]
      /\ UNCHANGED <<fd_conn_to_sock, managers, conn, fault>>

\* The socket is freed; its connections are not, and keep their parent.
TcpClose(fd) ==
  LET s == fd_to_sock[fd]
  IN  /\ ~fault
      /\ IsGoodTcpSock(fd)
      /\ fd_to_sock' = [fd_to_sock EXCEPT ![fd] = NULL]
      /\ managers' = IF sock[s].bound
                       THEN [managers EXCEPT ![sock[s].intf] = RemoveFirst(@, s)]
                       ELSE managers
      /\ sock' = [sock EXCEPT ![s] = FREED]
      /\ UNCHANGED <<fd_conn_to_sock, conn, fault>>

\* i is the interface that has the given address.
TcpBind(fd, i, port) ==
  LET s == fd_to_sock[fd]
  IN  /\ ~fault
      /\ IsGoodTcpSock(fd)
      /\ ~sock[s].bound
      /\ sock' = [sock EXCEPT ![s].bound = TRUE, ![s].intf = i,
                              ![s].local_port = port]
      /\ managers' = [managers EXCEPT ![i] = <<s>> \o @]
      /\ UNCHANGED <<fd_to_sock, fd_conn_to_sock, conn, fault>>

TcpListen(fd) ==
  LET s == fd_to_sock[fd]
  IN  /\ ~fault
      /\ IsGoodTcpSock(fd)
      /\ sock[s].bound
      /\ sock' = [sock EXCEPT ![s].listening = TRUE]
      /\ UNCHANGED <<fd_to_sock, fd_conn_to_sock, managers, conn, fault>>

-----------------------------------------------------------------------------
(* Sending: tcp_out. *)

\* Defect: the size of the segment is not counted.
FitsWindowWithoutSize(c, size) == c.snt_nxt <= c.snt_wnd

\* The segment fits the window; snt.una is never assigned after the start, so
\* the window is the one of the SYN, counted from sequence number 0.
FitsWindow(c, size) == c.snt_nxt + size <= c.snt_wnd

\* tcp_out on connection record c.  It returns true when the window is full
\* (-1 as a bool), and what ip_output returns otherwise.
TcpOut(c, size, flags) ==
  IF FitsWindow(c, size)
    THEN [c EXCEPT !.snt_nxt = (@ + size + (IF "SYN" \in flags THEN 1 ELSE 0)) % SeqSpace,
                   !.sent = IF c.peer \in Reachable THEN @ + size ELSE @,
                   !.reset = @ \/ ("RST" \in flags /\ c.peer \in Reachable)]
    ELSE c

-----------------------------------------------------------------------------
(* Receiving: tcp_input and the handlers of the connection's state. *)

\* sent, reset and read are history: the bytes and the RST that left for the
\* peer, and the bytes that tcp_recv returned.
NewConn(s, seg) ==
  [parent |-> s, peer |-> seg.peer, state |-> "syn_sent",
   snt_nxt |-> 0, snt_wnd |-> PeerWnd[seg.peer],
   rcv_nxt |-> (SeqNum(seg.peer, seg.first) + 1) % SeqSpace,
   rx_skb |-> <<>>, sent |-> 0, reset |-> FALSE, read |-> <<>>]

HandleNewConnection(s, seg) ==
  /\ Len(conn) < MaxConns
  /\ conn' = Append(conn, TcpOut(NewConn(s, seg), 0, {"SYN", "ACK"}))
  /\ sock' = [sock EXCEPT ![s].conns = <<Len(conn) + 1>> \o @]

\* Defect: the sequence number is not compared.
InSequenceIgnored(c, seg) == TRUE

\* The segment starts where the stream received so far ends.
InSequence(c, seg) == SeqNum(seg.peer, seg.first) = conn[c].rcv_nxt

HandleSynSent(c, seg) ==
  /\ conn' = IF /\ "ACK" \in seg.flags
                /\ "SYN" \notin seg.flags
                /\ InSequence(c, seg)
               THEN [conn EXCEPT ![c].state = "estab"]
               ELSE conn
  /\ UNCHANGED sock

\* Defect: rcv.nxt is wider than 32 bits.
CloseConnectionUnwrapped(c, fin) ==
  LET s == conn[c].parent
  IN  /\ conn' = [conn EXCEPT ![c] =
                    TcpOut([conn[c] EXCEPT !.rcv_nxt = @ + fin], 0, {"RST", "ACK"})]
      /\ sock' = [sock EXCEPT ![s].conns = RemoveFirst(@, c),
                              ![s].closed_conns = <<c>> \o @]

\* Answer with RST|ACK and move the connection to closed_conns; its state
\* stays handle_estab.
CloseConnection(c, fin) ==
  LET s == conn[c].parent
  IN  /\ conn' = [conn EXCEPT ![c] =
                    TcpOut([conn[c] EXCEPT !.rcv_nxt = (@ + fin) % SeqSpace], 0, {"RST", "ACK"})]
      /\ sock' = [sock EXCEPT ![s].conns = RemoveFirst(@, c),
                              ![s].closed_conns = <<c>> \o @]

HandleEstab(c, seg) ==
  \/ /\ ~InSequence(c, seg)
     /\ UNCHANGED <<conn, sock>>
  \/ /\ InSequence(c, seg)
     /\ \/ "RST" \in seg.flags /\ CloseConnection(c, 0)
        \/ "RST" \notin seg.flags /\ "FIN" \in seg.flags /\ CloseConnection(c, 1)
        \/ /\ {"RST", "FIN"} \cap seg.flags = {}
           /\ Len(conn[c].rx_skb) < MaxRx
           /\ conn' = [conn EXCEPT ![c].rcv_nxt = (@ + seg.len) % SeqSpace,
                                   ![c].rx_skb = <<Bytes(seg)>> \o @]
           /\ UNCHANGED sock

\* A segment that finds neither a socket nor a connection, and does not open
\* one, changes nothing.
TcpInput(seg) ==
  LET s == TcpSocksManagerFind(seg.intf, seg.dst_port)
      c == FindMatchingConnection(s, seg.peer)
  IN  /\ ~fault
      /\ CanArrive(seg)
      /\ s # NULL
      /\ \/ c # NULL /\ conn[c].state = "syn_sent" /\ HandleSynSent(c, seg)
         \/ c # NULL /\ conn[c].state = "estab" /\ HandleEstab(c, seg)
         \/ /\ c = NULL /\ sock[s].listening
            /\ "SYN" \in seg.flags /\ "ACK" \notin seg.flags
            /\ HandleNewConnection(s, seg)
      /\ UNCHANGED <<fd_to_sock, fd_conn_to_sock, managers, fault>>

-----------------------------------------------------------------------------
(* The application's calls on connections. *)

\* The newest established connection; it is not marked as accepted.
TcpAccept(fd, connfd) ==
  LET s == fd_to_sock[fd]
      k == SelectInSeq(sock[s].conns, LAMBDA c : conn[c].state = "estab")
  IN  /\ ~fault
      /\ IsGoodTcpSock(fd)
      /\ sock[s].listening
      /\ k # 0
      /\ FirstFree(fd_conn_to_sock, connfd)
      /\ fd_conn_to_sock' = [fd_conn_to_sock EXCEPT ![connfd] = sock[s].conns[k]]
      /\ UNCHANGED <<fd_to_sock, sock, managers, conn, fault>>

IsGoodTcpConnectionSock(connfd) == fd_conn_to_sock[connfd] # NULL

\* Up to size bytes of the oldest segment, which is freed when it is used up.
TcpRecv(connfd, size) ==
  LET c    == fd_conn_to_sock[connfd]
      rx   == conn[c].rx_skb
      skb  == Last(rx)
      n    == IF Len(skb) < size THEN Len(skb) ELSE size
      rest == SubSeq(skb, n + 1, Len(skb))
  IN  /\ ~fault
      /\ IsGoodTcpConnectionSock(connfd)
      /\ conn[c].state = "estab"
      /\ rx # <<>>
      /\ conn' = [conn EXCEPT
                    ![c].read = @ \o SubSeq(skb, 1, n),
                    ![c].rx_skb = IF rest = <<>> THEN Front(@) ELSE Front(@) \o <<rest>>]
      /\ UNCHANGED <<fd_to_sock, fd_conn_to_sock, sock, managers, fault>>

\* tcp_out reads the parent of the connection, which tcp_close may have freed.
TcpSend(connfd, size) ==
  LET c == fd_conn_to_sock[connfd]
      n == IF size < MAX_TCP_PAYLOAD THEN size ELSE MAX_TCP_PAYLOAD
  IN  /\ ~fault
      /\ IsGoodTcpConnectionSock(connfd)
      /\ conn[c].state = "estab"
      /\ \/ /\ ~Live(conn[c].parent)
            /\ fault' = TRUE
            /\ UNCHANGED conn
         \/ /\ Live(conn[c].parent)
            /\ conn' = [conn EXCEPT ![c] = TcpOut(@, n, {"ACK"})]
            /\ UNCHANGED fault
      /\ UNCHANGED <<fd_to_sock, fd_conn_to_sock, sock, managers>>

-----------------------------------------------------------------------------
Init ==
  /\ fd_to_sock = [fd \in SockFd |-> NULL]
  /\ fd_conn_to_sock = [fd \in ConnFd |-> NULL]
  /\ sock = [s \in SockId |-> NULL]
  /\ managers = [i \in Intf |-> <<>>]
  /\ conn = <<>>
  /\ fault = FALSE

RecvTask == \E seg \in Segment : TcpInput(seg)

Application ==
  \/ \E fd \in SockFd : TcpSocket(fd) \/ TcpClose(fd) \/ TcpListen(fd)
  \/ \E fd \in SockFd, i \in Intf, port \in Port : TcpBind(fd, i, port)
  \/ \E fd \in SockFd, connfd \in ConnFd : TcpAccept(fd, connfd)
  \/ \E connfd \in ConnFd, size \in Sizes : TcpRecv(connfd, size) \/ TcpSend(connfd, size)

Next == RecvTask \/ Application

Spec == Init /\ [][Next]_vars

-----------------------------------------------------------------------------
(* Properties. *)

ConnRec == [parent : SockId, peer : Peer, state : {"syn_sent", "estab"},
            snt_nxt : 0..(SeqSpace - 1), snt_wnd : Nat, rcv_nxt : 0..(SeqSpace - 1),
            rx_skb : Seq(Seq(1..StreamLen)), sent : Nat, reset : BOOLEAN,
            read : Seq(1..StreamLen)]

TypeOK ==
  /\ fd_to_sock \in [SockFd -> SockId \cup {NULL}]
  /\ fd_conn_to_sock \in [ConnFd -> DOMAIN conn \cup {NULL}]
  /\ sock \in [SockId -> SockRec \cup {NULL, FREED}]
  /\ managers \in [Intf -> Seq(SockId)]
  /\ conn \in Seq(ConnRec) /\ Len(conn) <= MaxConns
  /\ fault \in BOOLEAN

\* The socket lists stay consistent over any sequence of tcp_socket, tcp_bind
\* and tcp_close: the list of an interface, which tcp_input walks, holds
\* exactly the live sockets bound to it, each once (never a freed one), and
\* every live socket has exactly one file descriptor.
SocketsListed ==
  /\ \A i \in Intf :
       /\ IsInjective(managers[i])
       /\ Range(managers[i]) = {s \in SockId : Live(s) /\ sock[s].intf = i}
  /\ \A s \in SockId :
       Live(s) <=> \E fd \in SockFd : fd_to_sock[fd] = s
  /\ \A fd1, fd2 \in SockFd :
       fd_to_sock[fd1] = fd_to_sock[fd2] => fd1 = fd2 \/ fd_to_sock[fd1] = NULL

\* A connection of a live socket is on exactly one of its two lists, and a
\* peer has at most one open connection to a socket, so that what
\* find_matching_connection returns does not depend on the order of the
\* list: a repeated SYN opens no second connection.
ConnectionsListed ==
  \A s \in SockId : Live(s) =>
    /\ IsInjective(sock[s].conns \o sock[s].closed_conns)
    /\ Range(sock[s].conns \o sock[s].closed_conns) =
         {c \in DOMAIN conn : conn[c].parent = s}
    /\ \A c, d \in Range(sock[s].conns) : conn[c].peer = conn[d].peer => c = d

\* The bytes that have arrived on connection record c, read or not.
Received(c) == c.read \o FlattenSeq(Reverse(c.rx_skb))

\* What the application has read and what waits in rx_skb is, in order and
\* without gap or repetition, a prefix of the peer's stream, and rcv.nxt is
\* the number that follows it (one more after a FIN): whatever arrives late,
\* twice or cut differently, across the wrap of the sequence numbers, and
\* however tcp_recv calls cut the segments.
StreamInOrder ==
  \A c \in DOMAIN conn :
    LET stream == Received(conn[c])
    IN  /\ \A k \in DOMAIN stream : stream[k] = k
        /\ conn[c].rcv_nxt \in {SeqNum(conn[c].peer, Len(stream) + 1),
                                 SeqNum(conn[c].peer, Len(stream) + 2)}

\* No more bytes are sent than the window that the peer offered in its SYN
\* (tcp_out), in whatever portions tcp_send is called.
WithinWindow == \A c \in DOMAIN conn : conn[c].sent <= PeerWnd[conn[c].peer]

\* Nothing is sent on a connection that was closed "the rude way", by a RST.
NoSendAfterReset ==
  [][\A c \in DOMAIN conn : conn[c].reset => conn'[c].sent = conn[c].sent]_vars

Arrived == [c \in ConnId |-> IF c \in DOMAIN conn THEN Len(Received(conn[c])) ELSE 0]

Taken == [c \in ConnId |-> IF c \in DOMAIN conn THEN conn[c].read ELSE <<>>]

Stream == INSTANCE ByteStream WITH
  Conn <- ConnId, Length <- StreamLen, arrived <- Arrived, taken <- Taken

\* The receiving half implements a reliable byte stream on each connection:
\* no step of tcp_input, tcp_recv or any other call brings a byte early or
\* twice, takes one that did not arrive, changes what was read, or touches
\* two connections.
IsByteStream == Stream!Spec
=============================================================================
