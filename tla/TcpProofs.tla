----------------------------- MODULE TcpProofs -----------------------------
(***************************************************************************)
(* Proofs about Tcp, for any number of interfaces, ports, peers, sockets   *)
(* and connections, any length of the streams and any size of the sequence *)
(* space that is larger than a stream.                                     *)
(***************************************************************************)
EXTENDS Tcp, SequenceLemmas

-----------------------------------------------------------------------------
(* The inductive invariant. *)

\* A socket has an interface exactly when it is bound.
BoundOK == \A s \in SockId : Live(s) => (sock[s].bound <=> sock[s].intf # NULL)

\* No connection belongs to a socket that was never opened.
ParentsOK == \A c \in DOMAIN conn : sock[conn[c].parent] # NULL

\* The two lists of a socket, one by one.
ListsOK ==
  \A s \in SockId : Live(s) =>
    /\ IsInjective(sock[s].conns) /\ IsInjective(sock[s].closed_conns)
    /\ Range(sock[s].conns) \cap Range(sock[s].closed_conns) = {}
    /\ Range(sock[s].conns) \cup Range(sock[s].closed_conns) =
         {c \in DOMAIN conn : conn[c].parent = s}
    /\ \A c, d \in Range(sock[s].conns) : conn[c].peer = conn[d].peer => c = d

\* What tcp_out keeps: the bytes sent are counted by snt.nxt and fit the window.
WindowOK(c) ==
  c.sent <= c.snt_nxt /\ c.sent <= c.snt_wnd /\ c.snt_wnd = PeerWnd[c.peer]

\* What has arrived is a prefix of the stream.
PrefixOK(c) ==
  /\ \A k \in DOMAIN Received(c) : Received(c)[k] = k
  /\ Len(Received(c)) <= StreamLen

\* The next number expected follows it, or also counts the FIN.
ExpectsNext(c) == c.rcv_nxt = SeqNum(c.peer, Len(Received(c)) + 1)

ExpectsAfterFin(c) == c.rcv_nxt = SeqNum(c.peer, Len(Received(c)) + 2)

\* A connection on which tcp_input finds the FIN counted is no longer found.
ConnsOK ==
  \A c \in DOMAIN conn :
    /\ WindowOK(conn[c]) /\ PrefixOK(conn[c])
    /\ ExpectsNext(conn[c]) \/ ExpectsAfterFin(conn[c])
    /\ \A s \in SockId : Live(s) /\ c \in Range(sock[s].conns) => ExpectsNext(conn[c])

IInv == TypeOK /\ SocketsListed /\ BoundOK /\ ParentsOK /\ ListsOK /\ ConnsOK

-----------------------------------------------------------------------------
(* Sequence numbers. *)

\* A quotient and a remainder are unique.
LEMMA ModUnique ==
  ASSUME NEW M \in Nat \ {0}, NEW a \in Nat, NEW b \in Nat, NEW q \in Int,
         a = q * M + b, b < M
  PROVE  a % M = b
OBVIOUS

\* Adding to a number that was reduced already.
LEMMA ModAdd ==
  ASSUME NEW M \in Nat \ {0}, NEW a \in 0..(2 * M - 1), NEW b \in 0..(M - 1)
  PROVE  ((a % M) + b) % M = (a + b) % M
<1>1. CASE a < M
  <2>1. a % M = a
    BY <1>1
  <2>2. QED BY <2>1
<1>2. CASE ~(a < M)
  <2> DEFINE x == a - M
  <2>1. x \in 0..(M - 1)
    BY <1>2
  <2>2. a % M = x
    BY <1>2
  <2>3. a + b = (x + b) + M
    OBVIOUS
  <2> HIDE DEF x
  <2>4. CASE x + b < M
    <3>1. (x + b) % M = x + b
      BY <2>1, <2>4
    <3>2. (a + b) % M = x + b
      BY <2>1, <2>3, <2>4
    <3>3. QED BY <3>1, <3>2, <2>2
  <2>5. CASE ~(x + b < M)
    <3> DEFINE y == (x + b) - M
    <3>1. y \in 0..(M - 1) /\ x + b = 1 * M + y /\ a + b = 2 * M + y
      BY <2>1, <2>3, <2>5
    <3> HIDE DEF y
    <3>2. (x + b) % M = y
      BY <3>1, <2>1
    <3>3. (a + b) % M = y
      BY <3>1, ModUnique
    <3>4. QED BY <3>2, <3>3, <2>2
  <2>6. QED BY <2>4, <2>5
<1>3. QED BY <1>1, <1>2

\* The numbers of the following bytes, across the wrap.
LEMMA SeqNumAdd ==
  ASSUME NEW peer \in Peer, NEW k \in 0..SeqSpace, NEW n \in 0..(SeqSpace - 1)
  PROVE  /\ SeqNum(peer, k) \in 0..(SeqSpace - 1)
         /\ (SeqNum(peer, k) + n) % SeqSpace = SeqNum(peer, k + n)
<1>1. SeqSpace \in Nat \ {0} /\ Iss[peer] \in 0..(SeqSpace - 1)
  BY TcpAssumption
<1> DEFINE a == Iss[peer] + k
<1>2. a \in 0..(2 * SeqSpace - 1) /\ a % SeqSpace \in 0..(SeqSpace - 1)
  BY <1>1
<1>3. Iss[peer] + (k + n) = a + n
  BY <1>1
<1> HIDE DEF a
<1>4. ((a % SeqSpace) + n) % SeqSpace = (a + n) % SeqSpace
  BY <1>1, <1>2, ModAdd
<1>5. SeqNum(peer, k) = a % SeqSpace /\ SeqNum(peer, k + n) = (a + n) % SeqSpace
  BY <1>3 DEF SeqNum, a
<1>6. QED BY <1>2, <1>4, <1>5

\* A stream is shorter than the sequence space: a number tells its byte.
LEMMA SeqNumInjective ==
  ASSUME NEW peer \in Peer, NEW j \in 0..(SeqSpace - 1), NEW k \in 0..(SeqSpace - 1),
         SeqNum(peer, j) = SeqNum(peer, k)
  PROVE  j = k
<1> DEFINE i == Iss[peer]
<1>1. SeqSpace \in Nat \ {0} /\ i \in 0..(SeqSpace - 1)
  BY TcpAssumption
<1>2. (i + j) % SeqSpace = (i + k) % SeqSpace
  BY DEF SeqNum
<1> HIDE DEF i
<1>3. ASSUME NEW x \in 0..(SeqSpace - 1)
      PROVE  (i + x) % SeqSpace = IF i + x < SeqSpace THEN i + x ELSE i + x - SeqSpace
  <2>1. CASE i + x < SeqSpace
    BY <1>1, <2>1
  <2>2. CASE ~(i + x < SeqSpace)
    BY <1>1, <2>2
  <2>3. QED BY <2>1, <2>2
<1>4. QED BY <1>1, <1>2, <1>3

-----------------------------------------------------------------------------
(* One connection. *)

\* The bytes of a connection record are a sequence of bytes of the stream.
LEMMA ReceivedType ==
  ASSUME NEW c \in ConnRec
  PROVE  /\ Reverse(c.rx_skb) \in Seq(Seq(1..StreamLen))
         /\ FlattenSeq(Reverse(c.rx_skb)) \in Seq(1..StreamLen)
         /\ Received(c) \in Seq(1..StreamLen)
         /\ Len(Received(c)) \in Nat /\ DOMAIN Received(c) = 1..Len(Received(c))
<1>1. c.rx_skb \in Seq(Seq(1..StreamLen)) /\ c.read \in Seq(1..StreamLen)
  BY DEF ConnRec
<1>2. Reverse(c.rx_skb) \in Seq(Seq(1..StreamLen))
  <2>1. << >> \in Seq(1..StreamLen)
    OBVIOUS
  <2>2. QED BY <1>1, <2>1, ReversePrepend
<1>3. FlattenSeq(Reverse(c.rx_skb)) \in Seq(1..StreamLen)
  BY <1>2, FlattenType
<1>4. Received(c) \in Seq(1..StreamLen)
  BY <1>1, <1>3, ConcatProperties DEF Received
<1>5. QED BY <1>2, <1>3, <1>4, LenProperties

\* tcp_out changes only what was sent, and stays within the window.
LEMMA TcpOutOK ==
  ASSUME NEW c \in ConnRec, WindowOK(c), NEW size \in Nat, NEW flags,
         "SYN" \in flags => c.snt_nxt = 0 /\ size = 0
  PROVE  LET d == TcpOut(c, size, flags)
         IN  /\ d \in ConnRec /\ WindowOK(d)
             /\ d.parent = c.parent /\ d.peer = c.peer /\ d.state = c.state
             /\ d.rcv_nxt = c.rcv_nxt /\ d.rx_skb = c.rx_skb /\ d.read = c.read
<1> DEFINE d == TcpOut(c, size, flags)
           syn == IF "SYN" \in flags THEN 1 ELSE 0
           nxt == (c.snt_nxt + size + syn) % SeqSpace
<1>1. /\ SeqSpace \in Nat \ {0} /\ SeqSpace > 1 /\ PeerWnd \in [Peer -> 0..(SeqSpace - 1)]
  BY TcpAssumption
<1>2. /\ c.sent \in Nat /\ c.snt_nxt \in 0..(SeqSpace - 1) /\ c.peer \in Peer
      /\ c.snt_wnd \in 0..(SeqSpace - 1)
  BY <1>1 DEF ConnRec, WindowOK
<1>3. CASE ~FitsWindow(c, size)
  BY <1>3 DEF TcpOut
<1>4. CASE FitsWindow(c, size)
  <2>1. c.snt_nxt + size <= c.snt_wnd
    BY <1>4 DEF FitsWindow
  <2>2. nxt = c.snt_nxt + size + syn
    <3>1. c.snt_nxt + size + syn \in 0..(SeqSpace - 1)
      BY <1>1, <1>2, <2>1
    <3>2. QED BY <1>1, <3>1
  <2>3. nxt \in 0..(SeqSpace - 1) /\ nxt >= c.snt_nxt + size
    BY <1>1, <1>2, <2>1, <2>2
  <2> HIDE DEF nxt
  <2>4. PICK sent \in {c.sent, c.sent + size}, reset \in BOOLEAN :
          d = [c EXCEPT !.snt_nxt = nxt, !.sent = sent, !.reset = reset]
    <3>1. c.reset \in BOOLEAN
      BY DEF ConnRec
    <3>2. (c.reset \/ ("RST" \in flags /\ c.peer \in Reachable)) \in BOOLEAN
      BY <3>1
    <3>3. QED BY <1>4, <3>2 DEF TcpOut, nxt
  <2>5. sent \in Nat /\ sent <= nxt /\ sent <= c.snt_wnd
    BY <1>2, <2>1, <2>3 DEF WindowOK
  <2>6. d \in ConnRec
    BY <2>3, <2>4, <2>5 DEF ConnRec
  <2>7. d.sent = sent /\ d.snt_nxt = nxt /\ d.snt_wnd = c.snt_wnd /\ d.peer = c.peer
    BY <2>4 DEF ConnRec
  <2>8. d.parent = c.parent /\ d.state = c.state
        /\ d.rcv_nxt = c.rcv_nxt /\ d.rx_skb = c.rx_skb /\ d.read = c.read
    BY <2>4 DEF ConnRec
  <2> HIDE DEF d
  <2>9. WindowOK(d)
    BY <2>5, <2>7 DEF WindowOK
  <2>10. QED BY <2>6, <2>7, <2>8, <2>9 DEF d
<1>5. QED BY <1>3, <1>4

\* A segment that is accepted is the next part of the stream.
LEMMA ArrivedOK ==
  ASSUME NEW c \in ConnRec, PrefixOK(c), ExpectsNext(c), NEW seg \in Segment, CanArrive(seg),
         seg.peer = c.peer, SeqNum(seg.peer, seg.first) = c.rcv_nxt
  PROVE  LET d == [c EXCEPT !.rcv_nxt = (@ + seg.len) % SeqSpace,
                            !.rx_skb = <<Bytes(seg)>> \o @]
         IN  /\ d \in ConnRec /\ PrefixOK(d) /\ ExpectsNext(d)
             /\ Len(Received(d)) = Len(Received(c)) + seg.len /\ d.read = c.read
<1> DEFINE d == [c EXCEPT !.rcv_nxt = (@ + seg.len) % SeqSpace,
                          !.rx_skb = <<Bytes(seg)>> \o @]
           L == Len(Received(c))
           b == Bytes(seg)
<1>1. /\ SeqSpace \in Nat \ {0} /\ StreamLen \in Nat /\ StreamLen + 1 < SeqSpace
      /\ seg.first \in 0..(StreamLen + 1) /\ seg.len \in 0..StreamLen /\ seg.peer \in Peer
      /\ Received(c) \in Seq(1..StreamLen) /\ L \in 0..StreamLen
      /\ c.rx_skb \in Seq(Seq(1..StreamLen)) /\ c.read \in Seq(1..StreamLen)
  <2>1. SeqSpace \in Nat \ {0} /\ StreamLen \in Nat /\ StreamLen + 1 < SeqSpace
    BY TcpAssumption
  <2>2. seg.first \in 0..(StreamLen + 1) /\ seg.len \in 0..StreamLen /\ seg.peer \in Peer
    BY DEF Segment
  <2>3. Received(c) \in Seq(1..StreamLen) /\ L \in Nat
    BY ReceivedType
  <2>4. L <= StreamLen
    BY DEF PrefixOK
  <2>5. c.rx_skb \in Seq(Seq(1..StreamLen)) /\ c.read \in Seq(1..StreamLen)
    BY DEF ConnRec
  <2> HIDE DEF L
  <2>6. QED BY <2>1, <2>2, <2>3, <2>4, <2>5
<1>2. seg.first = L + 1
  <2>1. SeqNum(seg.peer, seg.first) = SeqNum(seg.peer, L + 1)
    BY DEF ExpectsNext
  <2>2. seg.first \in 0..(SeqSpace - 1) /\ L + 1 \in 0..(SeqSpace - 1)
    BY <1>1
  <2> HIDE DEF L
  <2>3. QED BY <1>1, <2>1, <2>2, SeqNumInjective
<1>3. L + seg.len <= StreamLen
  BY <1>1, <1>2 DEF CanArrive
<1>4. b \in Seq(1..StreamLen) /\ Len(b) = seg.len /\ \A k \in 1..seg.len : b[k] = L + k
  <2>1. \A k \in 1..seg.len : seg.first + k - 1 = L + k /\ L + k \in 1..StreamLen
    BY <1>1, <1>2, <1>3
  <2>2. b = [k \in 1..seg.len |-> seg.first + k - 1]
    BY DEF Bytes
  <2> HIDE DEF b, L
  <2>3. \A k \in 1..seg.len : b[k] = L + k
    BY <2>1, <2>2
  <2>4. b \in [1..seg.len -> 1..StreamLen] /\ seg.len \in Nat
    BY <1>1, <2>1, <2>2
  <2>5. QED BY <2>3, <2>4, FunctionSeq
<1>5. (c.rcv_nxt + seg.len) % SeqSpace = SeqNum(c.peer, L + 1 + seg.len)
  <2>1. L + 1 \in 0..SeqSpace /\ seg.len \in 0..(SeqSpace - 1)
    BY <1>1
  <2> HIDE DEF L
  <2>2. c.rcv_nxt = SeqNum(c.peer, L + 1)
    BY DEF ExpectsNext, L
  <2>3. QED BY <1>1, <2>1, <2>2, SeqNumAdd
<1>6. (c.rcv_nxt + seg.len) % SeqSpace \in 0..(SeqSpace - 1)
  <2>1. c.rcv_nxt + seg.len \in Nat
    BY <1>1 DEF ConnRec
  <2>2. QED BY <1>1, <2>1
<1> HIDE DEF b
<1>7. <<b>> \o c.rx_skb \in Seq(Seq(1..StreamLen))
  BY <1>1, <1>4, PrependRange
<1>8. /\ d \in ConnRec /\ d.peer = c.peer /\ d.read = c.read
      /\ d.rcv_nxt = (c.rcv_nxt + seg.len) % SeqSpace /\ d.rx_skb = <<b>> \o c.rx_skb
  BY <1>6, <1>7 DEF ConnRec, b
<1> HIDE DEF d
<1>9. Received(d) = Received(c) \o b
  <2> DEFINE r == Reverse(c.rx_skb)
             f == FlattenSeq(r)
  <2>1. r \in Seq(Seq(1..StreamLen)) /\ f \in Seq(1..StreamLen)
    BY ReceivedType
  <2>2. Reverse(d.rx_skb) = Append(r, b)
    BY <1>1, <1>4, <1>8, ReversePrepend
  <2> HIDE DEF r
  <2>3. FlattenSeq(Reverse(d.rx_skb)) = f \o b
    BY <1>4, <2>1, <2>2, FlattenAppend
  <2>4. Received(c) = c.read \o f
    BY DEF Received, r
  <2> HIDE DEF f
  <2>5. (c.read \o f) \o b = c.read \o (f \o b)
    <3> DEFINE rd == c.read
    <3>1. rd \in Seq(1..StreamLen)
      BY <1>1
    <3> HIDE DEF rd
    <3>2. (rd \o f) \o b = rd \o (f \o b)
      BY <3>1, <1>4, <2>1, ConcatAssociative
    <3>3. QED BY <3>2 DEF rd
  <2>6. QED BY <1>8, <2>3, <2>4, <2>5 DEF Received
<1>10. /\ Len(Received(d)) = L + seg.len
       /\ \A k \in 1..(L + seg.len) : Received(d)[k] = k
  <2>1. /\ Len(Received(d)) = L + Len(b)
        /\ \A k \in 1..(L + Len(b)) :
             Received(d)[k] = IF k <= L THEN Received(c)[k] ELSE b[k - L]
    <3> DEFINE g == Received(c)
    <3>1. g \in Seq(1..StreamLen) /\ Received(d) = g \o b /\ L = Len(g)
      BY <1>1, <1>9
    <3> HIDE DEF g
    <3>2. QED BY <3>1, <1>4, ConcatProperties DEF g
  <2>2. \A k \in 1..L : Received(c)[k] = k
    BY ReceivedType DEF PrefixOK
  <2> HIDE DEF L
  <2>3. ASSUME NEW k \in 1..(L + seg.len) PROVE Received(d)[k] = k
    <3>1. CASE k <= L
      <4>1. k \in 1..L  BY <3>1
      <4>2. QED BY <2>1, <2>2, <1>4, <3>1, <4>1
    <3>2. CASE ~(k <= L)
      <4>1. k - L \in 1..seg.len /\ L + (k - L) = k  BY <1>1, <3>2
      <4>2. QED BY <2>1, <1>4, <3>2, <4>1
    <3>3. QED BY <3>1, <3>2
  <2>4. QED BY <2>1, <2>3, <1>4
<1>11. PrefixOK(d)
  BY <1>3, <1>8, <1>10, ReceivedType DEF PrefixOK
<1>12. ExpectsNext(d)
  <2>1. L + 1 + seg.len = Len(Received(d)) + 1
    <3> HIDE DEF L, d
    <3>1. L \in Nat /\ seg.len \in Nat
      BY <1>1
    <3>2. \A i, j \in Nat : i + 1 + j = (i + j) + 1
      OBVIOUS
    <3>3. L + 1 + seg.len = (L + seg.len) + 1
      BY <3>1, <3>2, Zenon
    <3>4. QED BY <1>10, <3>3, Zenon
  <2>2. QED BY <1>5, <1>8, <2>1 DEF ExpectsNext
<1>13. QED BY <1>8, <1>10, <1>11, <1>12 DEF d

\* tcp_recv moves bytes from the oldest segment to what was read.
LEMMA TakenOK ==
  ASSUME NEW c \in ConnRec, c.rx_skb # << >>, NEW n \in 0..Len(Last(c.rx_skb))
  PROVE  LET skb  == Last(c.rx_skb)
             rest == SubSeq(skb, n + 1, Len(skb))
             d    == [c EXCEPT !.read = @ \o SubSeq(skb, 1, n),
                               !.rx_skb = IF rest = << >> THEN Front(@) ELSE Front(@) \o <<rest>>]
         IN  /\ d \in ConnRec /\ Received(d) = Received(c)
             /\ SubSeq(skb, 1, n) \in Seq(1..StreamLen) /\ Len(SubSeq(skb, 1, n)) = n
             /\ d.read = c.read \o SubSeq(skb, 1, n)
<1> DEFINE skb  == Last(c.rx_skb)
           sub  == SubSeq(skb, 1, n)
           rest == SubSeq(skb, n + 1, Len(skb))
           fr   == Front(c.rx_skb)
           rx   == IF rest = << >> THEN fr ELSE fr \o <<rest>>
           d    == [c EXCEPT !.read = @ \o sub, !.rx_skb = rx]
           B    == 1..StreamLen
           rd   == c.read
           F    == FlattenSeq(Reverse(fr))
<1>0. \A r, t, u \in Seq(B) : (r \o t) \o u = r \o (t \o u)
  BY ConcatAssociative
<1>1. c.rx_skb \in Seq(Seq(B)) /\ rd \in Seq(B)
  BY DEF ConnRec
<1>2. fr \in Seq(Seq(B)) /\ skb \in Seq(B) /\ c.rx_skb = Append(fr, skb)
  BY <1>1, FrontLast
<1>3. n \in 0..Len(skb)
  OBVIOUS
<1> HIDE DEF skb, fr, B
<1>4. Len(skb) \in Nat
  BY <1>2
<1>5. sub \in Seq(B) /\ Len(sub) = n /\ rest \in Seq(B) /\ sub \o rest = skb
  <2>1. \A i \in 1..Len(skb) : skb[i] \in B
    BY <1>2, ElementOfSeq
  <2>2. sub \in Seq(B) /\ Len(sub) = n
    <3>1. n \in Nat /\ \A i \in 1..n : skb[i] \in B
      BY <1>3, <1>4, <2>1
    <3>2. sub \in Seq(B) /\ Len(sub) = IF 1 <= n THEN n - 1 + 1 ELSE 0
      BY <3>1, SubSeqProperties
    <3>3. QED BY <3>1, <3>2
  <2>3. rest \in Seq(B)
    <3>1. n + 1 \in Int /\ Len(skb) \in Int /\ \A i \in (n + 1)..Len(skb) : skb[i] \in B
      BY <1>3, <1>4, <2>1
    <3>2. QED BY <3>1, SubSeqProperties
  <2>4. sub \o rest = SubSeq(skb, 1, Len(skb))
    <3>1. 1 \in 1..(Len(skb) + 1) /\ n \in (1 - 1)..Len(skb) /\ Len(skb) \in n..Len(skb)
      BY <1>3, <1>4
    <3>2. QED BY <3>1, <1>2, ConcatAdjacentSubSeq
  <2>5. SubSeq(skb, 1, Len(skb)) = skb
    BY <1>2, SubSeqFull
  <2>6. QED BY <2>2, <2>3, <2>4, <2>5
<1> HIDE DEF sub, rest
<1>6. Reverse(fr) \in Seq(Seq(B)) /\ F \in Seq(B)
  <2>1. Reverse(fr) \in Seq(Seq(B))
    BY <1>2, ReversePrepend
  <2>2. QED BY <2>1, FlattenType
<1>7. FlattenSeq(Reverse(c.rx_skb)) = skb \o F
  <2>1. Reverse(c.rx_skb) = <<skb>> \o Reverse(fr)
    BY <1>2, ReversePrepend
  <2>2. QED BY <1>2, <1>6, <2>1, FlattenPrepend
<1>8. rx \in Seq(Seq(B)) /\ FlattenSeq(Reverse(rx)) = rest \o F
  <2>1. CASE rest = << >>
    <3>1. << >> \o F = F
      BY <1>6, ConcatEmptySeq
    <3>2. QED BY <1>2, <2>1, <3>1
  <2>2. CASE rest # << >>
    <3>1. fr \o <<rest>> = Append(fr, rest)
      BY <1>2, <1>5, AppendIsConcat
    <3>2. Append(fr, rest) \in Seq(Seq(B)) /\ Reverse(Append(fr, rest)) = <<rest>> \o Reverse(fr)
      BY <1>2, <1>5, AppendProperties, ReversePrepend
    <3>3. FlattenSeq(<<rest>> \o Reverse(fr)) = rest \o F
      BY <1>5, <1>6, FlattenPrepend
    <3>4. QED BY <2>2, <3>1, <3>2, <3>3
  <2>3. QED BY <2>1, <2>2
<1> HIDE DEF F, rx
<1>9. rd \o sub \in Seq(B)
  BY <1>1, <1>5, ConcatProperties
<1>10. d \in ConnRec /\ d.read = rd \o sub /\ d.rx_skb = rx
  BY <1>8, <1>9 DEF ConnRec, B
<1> HIDE DEF d, rd
<1>11. Received(d) = Received(c)
  <2>1. rd \in Seq(B) /\ sub \in Seq(B) /\ rest \in Seq(B) /\ F \in Seq(B)
    BY <1>1, <1>5, <1>6
  <2>2. (rd \o sub) \o (rest \o F) = rd \o ((sub \o rest) \o F)
    <3> DEFINE y == rest \o F
    <3>1. y \in Seq(B)
      BY <2>1, ConcatProperties
    <3>2. y = rest \o F
      OBVIOUS
    <3> HIDE DEF y
    <3>3. (rd \o sub) \o y = rd \o (sub \o y)
      BY <2>1, <3>1, <1>0
    <3>4. (sub \o rest) \o F = sub \o y
      BY <2>1, <3>2, <1>0
    <3>5. QED BY <3>2, <3>3, <3>4
  <2>3. QED BY <1>5, <1>7, <1>8, <1>10, <2>2 DEF Received, rd
<1>12. QED BY <1>5, <1>10, <1>11 DEF d, rx, rd, fr, skb, sub, rest, B

-----------------------------------------------------------------------------
(* Steps that change one connection and no list. *)

\* A connection is replaced by one of the same socket and peer.
LEMMA UpdateConnInv ==
  ASSUME IInv, NEW c \in DOMAIN conn, NEW r \in ConnRec,
         r.parent = conn[c].parent, r.peer = conn[c].peer,
         WindowOK(r), PrefixOK(r), ExpectsNext(r) \/ ExpectsAfterFin(r),
         ExpectsNext(conn[c]) => ExpectsNext(r),
         conn' = [conn EXCEPT ![c] = r], fault' \in BOOLEAN,
         UNCHANGED <<fd_to_sock, fd_conn_to_sock, sock, managers>>
  PROVE  IInv'
<1>1. conn \in Seq(ConnRec) /\ Len(conn) <= MaxConns /\ DOMAIN conn = 1..Len(conn)
  BY DEF IInv, TypeOK
<1>2. /\ conn' \in Seq(ConnRec) /\ Len(conn') = Len(conn) /\ DOMAIN conn' = DOMAIN conn
      /\ conn'[c] = r
      /\ \A d \in DOMAIN conn : d # c => conn'[d] = conn[d]
  BY <1>1, ExceptSeq
<1>3. \A d \in DOMAIN conn : conn'[d].parent = conn[d].parent /\ conn'[d].peer = conn[d].peer
  BY <1>2
<1>4. TypeOK'
  BY <1>1, <1>2 DEF IInv, TypeOK
<1>5. SocketsListed' /\ BoundOK'
  BY DEF IInv, SocketsListed, BoundOK, Live
<1>6. ParentsOK'
  BY <1>2, <1>3 DEF IInv, ParentsOK
<1>7. ListsOK'
  <2>1. ASSUME NEW s \in SockId, Live(s)
        PROVE  /\ {d \in DOMAIN conn' : conn'[d].parent = s} = {d \in DOMAIN conn : conn[d].parent = s}
               /\ \A d, e \in Range(sock[s].conns) : conn'[d].peer = conn'[e].peer => d = e
    <3>1. Range(sock[s].conns) \subseteq DOMAIN conn
      BY <2>1 DEF IInv, ListsOK
    <3>2. QED BY <2>1, <3>1, <1>2, <1>3 DEF IInv, ListsOK
  <2>2. QED BY <2>1 DEF IInv, ListsOK, Live
<1>8. ConnsOK'
  <2>1. ASSUME NEW d \in DOMAIN conn
        PROVE  /\ WindowOK(conn'[d]) /\ PrefixOK(conn'[d])
               /\ ExpectsNext(conn'[d]) \/ ExpectsAfterFin(conn'[d])
               /\ \A s \in SockId : Live(s) /\ d \in Range(sock[s].conns) => ExpectsNext(conn'[d])
    <3>1. CASE d = c
      BY <3>1, <1>2 DEF IInv, ConnsOK
    <3>2. CASE d # c
      BY <3>2, <1>2 DEF IInv, ConnsOK
    <3>3. QED BY <3>1, <3>2
  <2>2. QED BY <2>1, <1>2 DEF ConnsOK, Live
<1>9. QED BY <1>4, <1>5, <1>6, <1>7, <1>8 DEF IInv

\* What IInv says of one connection.
LEMMA ConnFacts ==
  ASSUME IInv, NEW c \in DOMAIN conn
  PROVE  /\ conn[c] \in ConnRec /\ c \in Nat /\ WindowOK(conn[c]) /\ PrefixOK(conn[c])
         /\ ExpectsNext(conn[c]) \/ ExpectsAfterFin(conn[c])
<1>1. conn \in Seq(ConnRec) /\ DOMAIN conn = 1..Len(conn)
  BY DEF IInv, TypeOK
<1>2. QED BY <1>1, ElementOfSeq DEF IInv, ConnsOK

-----------------------------------------------------------------------------
(* Steps of the byte stream. *)

\* A step of ByteStream or none.
StreamStep == [Stream!Next]_<<Arrived, Taken>>

\* The streams after a step of one connection.
LEMMA UpdateStream ==
  ASSUME IInv, NEW c \in DOMAIN conn, NEW r \in ConnRec, conn' = [conn EXCEPT ![c] = r]
  PROVE  /\ c \in ConnId
         /\ Arrived[c] = Len(Received(conn[c])) /\ Taken[c] = conn[c].read
         /\ Arrived' = [Arrived EXCEPT ![c] = Len(Received(r))]
         /\ Taken' = [Taken EXCEPT ![c] = r.read]
<1>1. /\ conn \in Seq(ConnRec) /\ DOMAIN conn = 1..Len(conn) /\ Len(conn) \in Nat
      /\ Len(conn) <= MaxConns /\ MaxConns \in Nat
  BY TcpAssumption DEF IInv, TypeOK
<1>2. c \in ConnId
  BY <1>1 DEF ConnId
<1>3. /\ DOMAIN conn' = DOMAIN conn /\ conn'[c] = r
      /\ \A d \in DOMAIN conn : d # c => conn'[d] = conn[d]
  BY <1>1, ExceptSeq
<1>4. Arrived' = [Arrived EXCEPT ![c] = Len(Received(r))]
  BY <1>2, <1>3 DEF Arrived
<1>5. Taken' = [Taken EXCEPT ![c] = r.read]
  BY <1>2, <1>3 DEF Taken
<1>6. QED BY <1>2, <1>4, <1>5 DEF Arrived, Taken

\* Nothing arrived and nothing was read.
LEMMA SameStream ==
  ASSUME IInv, NEW c \in DOMAIN conn, NEW r \in ConnRec, conn' = [conn EXCEPT ![c] = r],
         Received(r) = Received(conn[c]), r.read = conn[c].read
  PROVE  StreamStep
<1>1. /\ c \in ConnId /\ Arrived[c] = Len(Received(conn[c])) /\ Taken[c] = conn[c].read
      /\ Arrived' = [Arrived EXCEPT ![c] = Len(Received(r))]
      /\ Taken' = [Taken EXCEPT ![c] = r.read]
  BY UpdateStream
<1>2. /\ Arrived' = [Arrived EXCEPT ![c] = Arrived[c]]
      /\ Taken' = [Taken EXCEPT ![c] = Taken[c]]
  BY <1>1
<1>3. /\ Arrived = [d \in ConnId |-> Arrived[d]] /\ Taken = [d \in ConnId |-> Taken[d]]
  BY DEF Arrived, Taken
<1>4. Arrived' = Arrived /\ Taken' = Taken
  BY <1>1, <1>2, <1>3
<1>5. QED BY <1>4 DEF StreamStep

\* A segment brings the next n bytes.
LEMMA ArriveStep ==
  ASSUME IInv, NEW c \in DOMAIN conn, NEW r \in ConnRec, conn' = [conn EXCEPT ![c] = r],
         NEW n \in Nat, Len(Received(r)) = Len(Received(conn[c])) + n, r.read = conn[c].read,
         Len(Received(r)) <= StreamLen
  PROVE  StreamStep
<1>1. /\ c \in ConnId /\ Arrived[c] = Len(Received(conn[c])) /\ Taken[c] = conn[c].read
      /\ Arrived' = [Arrived EXCEPT ![c] = Len(Received(r))]
      /\ Taken' = [Taken EXCEPT ![c] = r.read]
  BY UpdateStream
<1>2. /\ Arrived = [d \in ConnId |-> Arrived[d]] /\ Taken = [d \in ConnId |-> Taken[d]]
  BY DEF Arrived, Taken
<1>3. Len(Received(conn[c])) \in Nat /\ StreamLen \in Nat
  BY TcpAssumption, ConnFacts, ReceivedType
<1>4. Arrived' = [Arrived EXCEPT ![c] = Arrived[c] + n] /\ Arrived[c] \in Nat
      /\ Arrived[c] + n <= StreamLen
  BY <1>1, <1>3
<1>5. Taken' = Taken
  BY <1>1, <1>2
<1>6. CASE n = 0
  <2>1. Arrived[c] + n = Arrived[c]
    BY <1>4, <1>6
  <2>2. Arrived' = Arrived
    BY <1>1, <1>2, <1>4, <2>1
  <2>3. QED BY <1>5, <2>2 DEF StreamStep
<1>7. CASE n # 0
  <2>1. n \in 1..(StreamLen - Arrived[c])
    BY <1>3, <1>4, <1>7
  <2>2. Stream!Arrive(c)
    BY <1>4, <1>5, <2>1 DEF Stream!Arrive
  <2>3. QED BY <1>1, <2>2 DEF StreamStep, Stream!Next
<1>8. QED BY <1>6, <1>7

\* tcp_recv takes the next n bytes that have arrived.
LEMMA TakeStep ==
  ASSUME IInv, NEW c \in DOMAIN conn, NEW r \in ConnRec, conn' = [conn EXCEPT ![c] = r],
         NEW sub \in Seq(1..StreamLen), Received(r) = Received(conn[c]),
         r.read = conn[c].read \o sub
  PROVE  StreamStep
<1> DEFINE q  == conn[c]
           rd == q.read
           f  == FlattenSeq(Reverse(r.rx_skb))
           n  == Len(sub)
           L  == Len(rd)
           nx == [k \in 1..n |-> L + k]
<1>1. /\ c \in ConnId /\ Arrived[c] = Len(Received(q)) /\ Taken[c] = rd
      /\ Arrived' = [Arrived EXCEPT ![c] = Len(Received(r))]
      /\ Taken' = [Taken EXCEPT ![c] = r.read]
  BY UpdateStream
<1>2. /\ Arrived = [d \in ConnId |-> Arrived[d]] /\ Taken = [d \in ConnId |-> Taken[d]]
  BY DEF Arrived, Taken
<1>3. Arrived' = Arrived
  BY <1>1, <1>2
<1>4. /\ q \in ConnRec /\ rd \in Seq(1..StreamLen) /\ f \in Seq(1..StreamLen)
      /\ \A k \in DOMAIN Received(q) : Received(q)[k] = k
      /\ Len(Received(q)) \in Nat /\ DOMAIN Received(q) = 1..Len(Received(q))
  <2>1. q \in ConnRec /\ PrefixOK(q)
    BY ConnFacts
  <2>2. rd \in Seq(1..StreamLen)
    BY <2>1 DEF ConnRec
  <2> HIDE DEF q, f
  <2>3. QED BY <2>1, <2>2, ReceivedType DEF PrefixOK, f
<1>5. Received(q) = (rd \o sub) \o f
  BY DEF Received
<1>6. n \in Nat /\ L \in Nat
  BY <1>4, LenProperties
<1> HIDE DEF q, rd, f
<1>7. /\ rd \o sub \in Seq(1..StreamLen) /\ Len(rd \o sub) = L + n
      /\ \A k \in 1..(L + n) : (rd \o sub)[k] = IF k <= L THEN rd[k] ELSE sub[k - L]
  BY <1>4, ConcatProperties
<1>8. /\ Len(Received(q)) = L + n + Len(f) /\ Len(f) \in Nat
      /\ \A k \in 1..(L + n) : Received(q)[k] = (rd \o sub)[k]
  <2> DEFINE g == rd \o sub
  <2>1. g \in Seq(1..StreamLen) /\ Len(g) = L + n
    BY <1>7
  <2> HIDE DEF g
  <2>2. /\ Len(g \o f) = Len(g) + Len(f) /\ Len(f) \in Nat
        /\ \A k \in 1..(Len(g) + Len(f)) : (g \o f)[k] = IF k <= Len(g) THEN g[k] ELSE f[k - Len(g)]
    <3>1. g \in Seq(1..StreamLen) /\ f \in Seq(1..StreamLen)
      BY <1>4, <2>1
    <3>2. Len(f) \in Nat
      BY <3>1, LenProperties
    <3>3. QED BY <3>1, <3>2, ConcatProperties
  <2> HIDE DEF n, L
  <2>3. \A k \in 1..(L + n) : k \in 1..(Len(g) + Len(f)) /\ k <= Len(g)
    BY <1>6, <2>1, <2>2
  <2>4. \A k \in 1..(L + n) : (g \o f)[k] = g[k]
    BY <2>2, <2>3
  <2>5. QED BY <1>5, <2>1, <2>2, <2>4 DEF g
<1>9. n <= Len(Received(q)) - L /\ 1..(L + n) \subseteq DOMAIN Received(q)
  BY <1>4, <1>6, <1>8
<1>10. \A k \in 1..n : sub[k] = L + k
  <2> HIDE DEF n, L
  <2>1. ASSUME NEW k \in 1..n PROVE sub[k] = L + k
    <3>1. L + k \in 1..(L + n) /\ ~(L + k <= L) /\ (L + k) - L = k
      BY <1>6
    <3>2. (rd \o sub)[L + k] = sub[k]
      BY <1>7, <3>1
    <3>3. (rd \o sub)[L + k] = L + k
      BY <1>4, <1>8, <1>9, <3>1
    <3>4. QED BY <3>2, <3>3
  <2>2. QED BY <2>1
<1>11. sub = nx
  <2>1. sub = [k \in 1..n |-> sub[k]]
    OBVIOUS
  <2> HIDE DEF n, L
  <2>2. QED BY <1>10, <2>1
<1>12. Taken' = [Taken EXCEPT ![c] = rd \o nx]
  BY <1>1, <1>11 DEF rd, q
<1>13. CASE n = 0
  <2>1. sub = << >>
    BY <1>13, EmptySeq
  <2>2. rd \o sub = rd
    BY <1>4, <2>1, ConcatEmptySeq
  <2>3. Taken' = [Taken EXCEPT ![c] = Taken[c]]
    BY <1>1, <1>11, <1>12, <2>2
  <2>4. Taken' = Taken
    BY <1>1, <1>2, <2>3
  <2>5. QED BY <1>3, <2>4 DEF StreamStep
<1>14. CASE n # 0
  <2>1. n \in 1..(Arrived[c] - Len(Taken[c]))
    <3> HIDE DEF n
    <3>1. QED BY <1>1, <1>4, <1>6, <1>9, <1>14
  <2>2. Taken' = [Taken EXCEPT ![c] = @ \o [k \in 1..n |-> Len(@) + k]]
    BY <1>1, <1>12
  <2> HIDE DEF n
  <2>3. Stream!Take(c)
    BY <1>3, <2>1, <2>2 DEF Stream!Take
  <2>4. QED BY <1>1, <2>3 DEF StreamStep, Stream!Next
<1>15. QED BY <1>13, <1>14

\* A new connection starts with nothing.
LEMMA NewStream ==
  ASSUME IInv, UNCHANGED conn \/
           /\ DOMAIN conn' = DOMAIN conn \cup {Len(conn) + 1}
           /\ Len(conn) + 1 \notin DOMAIN conn
           /\ \A d \in DOMAIN conn : conn'[d] = conn[d]
           /\ Received(conn'[Len(conn) + 1]) = << >> /\ conn'[Len(conn) + 1].read = << >>
  PROVE  StreamStep
<1>1. \A d \in ConnId : d \in DOMAIN conn => d \in DOMAIN conn' /\ conn'[d] = conn[d]
  OBVIOUS
<1>2. \A d \in ConnId : d \in DOMAIN conn' /\ d \notin DOMAIN conn
                          => Received(conn'[d]) = << >> /\ conn'[d].read = << >>
  OBVIOUS
<1>3. Arrived' = Arrived
  <2>1. Len(<< >>) = 0
    OBVIOUS
  <2>2. QED BY <1>1, <1>2, <2>1 DEF Arrived
<1>4. Taken' = Taken
  BY <1>1, <1>2 DEF Taken
<1>5. QED BY <1>3, <1>4 DEF StreamStep

-----------------------------------------------------------------------------
(* Steps of one connection. *)

\* handle_syn_sent.
LEMMA HandleSynSentInv ==
  ASSUME IInv, NEW c \in DOMAIN conn, NEW seg \in Segment, HandleSynSent(c, seg),
         UNCHANGED <<fd_to_sock, fd_conn_to_sock, managers, fault>>
  PROVE  IInv' /\ StreamStep
<1> DEFINE r == [conn[c] EXCEPT !.state = "estab"]
           q == conn[c]
<1>1. q \in ConnRec /\ WindowOK(q) /\ PrefixOK(q) /\ (ExpectsNext(q) \/ ExpectsAfterFin(q))
  BY ConnFacts
<1>2. /\ r \in ConnRec /\ r.parent = q.parent /\ r.peer = q.peer /\ r.snt_nxt = q.snt_nxt
      /\ r.snt_wnd = q.snt_wnd /\ r.sent = q.sent /\ r.rcv_nxt = q.rcv_nxt
      /\ r.rx_skb = q.rx_skb /\ r.read = q.read
  BY <1>1 DEF ConnRec
<1>3. conn' = [conn EXCEPT ![c] = r] \/ conn' = [conn EXCEPT ![c] = q]
  <2>1. conn \in Seq(ConnRec)
    BY DEF IInv, TypeOK
  <2>2. conn = [conn EXCEPT ![c] = conn[c]]
    BY <2>1
  <2>3. QED BY <2>1, <2>2 DEF HandleSynSent
<1>4. fault' \in BOOLEAN /\ UNCHANGED <<fd_to_sock, fd_conn_to_sock, sock, managers>>
  BY DEF IInv, TypeOK, HandleSynSent
<1> HIDE DEF r
<1>5. Received(r) = Received(q)
  BY <1>2 DEF Received
<1>6. /\ WindowOK(r) /\ PrefixOK(r) /\ (ExpectsNext(r) \/ ExpectsAfterFin(r))
      /\ (ExpectsNext(q) => ExpectsNext(r))
  BY <1>1, <1>2, <1>5 DEF WindowOK, PrefixOK, ExpectsNext, ExpectsAfterFin
<1>7. CASE conn' = [conn EXCEPT ![c] = r]
  BY <1>2, <1>4, <1>5, <1>6, <1>7, UpdateConnInv, SameStream
<1>8. CASE conn' = [conn EXCEPT ![c] = q]
  <2> HIDE DEF q
  <2>1. q = conn[c]
    BY DEF q
  <2>2. QED BY <1>1, <1>4, <1>8, <2>1, UpdateConnInv, SameStream
<1>9. QED BY <1>3, <1>7, <1>8

\* handle_estab: the segment is queued.
LEMMA SegmentQueuedInv ==
  ASSUME IInv, NEW c \in DOMAIN conn, NEW seg \in Segment, CanArrive(seg),
         seg.peer = conn[c].peer, InSequence(c, seg), ExpectsNext(conn[c]),
         conn' = [conn EXCEPT ![c].rcv_nxt = (@ + seg.len) % SeqSpace,
                              ![c].rx_skb = <<Bytes(seg)>> \o @],
         UNCHANGED <<fd_to_sock, fd_conn_to_sock, sock, managers, fault>>
  PROVE  IInv' /\ StreamStep
<1> DEFINE q == conn[c]
           r == [q EXCEPT !.rcv_nxt = (@ + seg.len) % SeqSpace,
                          !.rx_skb = <<Bytes(seg)>> \o @]
<1>1. q \in ConnRec /\ WindowOK(q) /\ PrefixOK(q) /\ ExpectsNext(q)
  BY ConnFacts
<1>2. SeqNum(seg.peer, seg.first) = q.rcv_nxt
  BY DEF InSequence
<1>3. /\ r \in ConnRec /\ PrefixOK(r) /\ ExpectsNext(r)
      /\ Len(Received(r)) = Len(Received(q)) + seg.len /\ r.read = q.read
  <2> HIDE DEF q
  <2>1. seg.peer = q.peer
    BY DEF q
  <2>2. QED BY <1>1, <1>2, <2>1, ArrivedOK
<1>4. /\ r.parent = q.parent /\ r.peer = q.peer /\ r.snt_nxt = q.snt_nxt
      /\ r.snt_wnd = q.snt_wnd /\ r.sent = q.sent
  BY <1>1 DEF ConnRec
<1>5. conn' = [conn EXCEPT ![c] = r]
  <2>1. conn \in Seq(ConnRec)
    BY DEF IInv, TypeOK
  <2>2. QED BY <2>1
<1>6. fault' \in BOOLEAN
  BY DEF IInv, TypeOK
<1> HIDE DEF r
<1>7. WindowOK(r)
  BY <1>1, <1>4 DEF WindowOK
<1>8. StreamStep
  <2>1. seg.len \in Nat
    BY TcpAssumption DEF Segment
  <2>2. Len(Received(r)) <= StreamLen
    BY <1>3 DEF PrefixOK
  <2>3. QED BY <1>3, <1>5, <2>1, <2>2, ArriveStep
<1>9. QED BY <1>3, <1>4, <1>5, <1>6, <1>7, <1>8, UpdateConnInv

\* A descriptor of a connection belongs to one.
LEMMA ConnOfFd ==
  ASSUME IInv, NEW connfd \in ConnFd, IsGoodTcpConnectionSock(connfd)
  PROVE  fd_conn_to_sock[connfd] \in DOMAIN conn
BY DEF IInv, TypeOK, IsGoodTcpConnectionSock

\* tcp_recv.
LEMMA TcpRecvInv ==
  ASSUME IInv, NEW connfd \in ConnFd, NEW size \in Sizes, TcpRecv(connfd, size)
  PROVE  IInv' /\ StreamStep
<1> DEFINE c    == fd_conn_to_sock[connfd]
           q    == conn[c]
           skb  == Last(q.rx_skb)
           n    == IF Len(skb) < size THEN Len(skb) ELSE size
           rest == SubSeq(skb, n + 1, Len(skb))
           r    == [q EXCEPT !.read = @ \o SubSeq(skb, 1, n),
                             !.rx_skb = IF rest = <<>> THEN Front(@) ELSE Front(@) \o <<rest>>]
<1>1. c \in DOMAIN conn /\ q.rx_skb # <<>>
  BY ConnOfFd DEF TcpRecv
<1>2. q \in ConnRec /\ WindowOK(q) /\ PrefixOK(q) /\ (ExpectsNext(q) \/ ExpectsAfterFin(q))
  BY <1>1, ConnFacts
<1>3. n \in 0..Len(skb)
  <2>1. q.rx_skb \in Seq(Seq(1..StreamLen))
    BY <1>2 DEF ConnRec
  <2>2. skb \in Seq(1..StreamLen)
    BY <1>1, <2>1, FrontLast
  <2>3. size \in Nat
    BY TcpAssumption
  <2> HIDE DEF skb
  <2>4. Len(skb) \in Nat
    BY <2>2
  <2>5. QED BY <2>3, <2>4
<1>4. /\ r \in ConnRec /\ Received(r) = Received(q)
      /\ SubSeq(skb, 1, n) \in Seq(1..StreamLen) /\ r.read = q.read \o SubSeq(skb, 1, n)
  <2> HIDE DEF q, n
  <2>1. QED BY <1>1, <1>2, <1>3, TakenOK
<1>5. /\ r.parent = q.parent /\ r.peer = q.peer /\ r.snt_nxt = q.snt_nxt
      /\ r.snt_wnd = q.snt_wnd /\ r.sent = q.sent /\ r.rcv_nxt = q.rcv_nxt
  BY <1>2 DEF ConnRec
<1>6. conn' = [conn EXCEPT ![c] = r]
  <2>1. conn \in Seq(ConnRec)
    BY DEF IInv, TypeOK
  <2>2. conn' = [conn EXCEPT ![c].read = @ \o SubSeq(skb, 1, n),
                   ![c].rx_skb = IF rest = <<>> THEN Front(@) ELSE Front(@) \o <<rest>>]
    BY DEF TcpRecv
  <2> HIDE DEF skb, rest, n
  <2>3. QED BY <1>1, <2>1, <2>2
<1>7. fault' \in BOOLEAN /\ UNCHANGED <<fd_to_sock, fd_conn_to_sock, sock, managers>>
  BY DEF IInv, TypeOK, TcpRecv
<1> HIDE DEF r
<1>8. /\ WindowOK(r) /\ PrefixOK(r) /\ (ExpectsNext(r) \/ ExpectsAfterFin(r))
      /\ (ExpectsNext(q) => ExpectsNext(r))
  BY <1>2, <1>4, <1>5 DEF WindowOK, PrefixOK, ExpectsNext, ExpectsAfterFin
<1> HIDE DEF c
<1>9. StreamStep
  <2> DEFINE sub == SubSeq(skb, 1, n)
  <2>1. sub \in Seq(1..StreamLen) /\ r.read = conn[c].read \o sub
    BY <1>4
  <2> HIDE DEF sub
  <2>2. QED BY <1>1, <1>4, <1>6, <2>1, TakeStep
<1>10. QED BY <1>1, <1>4, <1>5, <1>6, <1>7, <1>8, <1>9, UpdateConnInv

\* tcp_send.
LEMMA TcpSendInv ==
  ASSUME IInv, NEW connfd \in ConnFd, NEW size \in Sizes, TcpSend(connfd, size)
  PROVE  IInv' /\ StreamStep
<1> DEFINE c == fd_conn_to_sock[connfd]
           q == conn[c]
           n == IF size < MAX_TCP_PAYLOAD THEN size ELSE MAX_TCP_PAYLOAD
           o == TcpOut(q, n, {"ACK"})
<1>1. c \in DOMAIN conn
  BY ConnOfFd DEF TcpSend
<1>2. q \in ConnRec /\ WindowOK(q) /\ PrefixOK(q) /\ (ExpectsNext(q) \/ ExpectsAfterFin(q))
  BY <1>1, ConnFacts
<1>3. n \in Nat
  BY TcpAssumption
<1>4. /\ o \in ConnRec /\ WindowOK(o) /\ o.parent = q.parent /\ o.peer = q.peer
      /\ o.rcv_nxt = q.rcv_nxt /\ o.rx_skb = q.rx_skb /\ o.read = q.read
  <2> HIDE DEF q, n
  <2>1. QED BY <1>2, <1>3, TcpOutOK
<1>5. PICK r \in {q, o} : conn' = [conn EXCEPT ![c] = r]
  <2>1. conn \in Seq(ConnRec)
    BY DEF IInv, TypeOK
  <2>2. conn = [conn EXCEPT ![c] = conn[c]]
    BY <1>1, <2>1
  <2>3. QED BY <2>2 DEF TcpSend
<1>6. fault' \in BOOLEAN /\ UNCHANGED <<fd_to_sock, fd_conn_to_sock, sock, managers>>
  BY DEF IInv, TypeOK, TcpSend
<1> HIDE DEF o
<1>7. /\ r \in ConnRec /\ WindowOK(r) /\ r.parent = q.parent /\ r.peer = q.peer
      /\ r.rcv_nxt = q.rcv_nxt /\ r.rx_skb = q.rx_skb /\ r.read = q.read
  BY <1>2, <1>4, <1>5
<1>8. Received(r) = Received(q)
  BY <1>7 DEF Received
<1>9. /\ PrefixOK(r) /\ (ExpectsNext(r) \/ ExpectsAfterFin(r))
      /\ (ExpectsNext(q) => ExpectsNext(r))
  BY <1>2, <1>7, <1>8 DEF PrefixOK, ExpectsNext, ExpectsAfterFin
<1> HIDE DEF c
<1>10. QED BY <1>1, <1>5, <1>6, <1>7, <1>8, <1>9, UpdateConnInv, SameStream

-----------------------------------------------------------------------------
(* Looking up sockets and connections. *)

\* A record of a live socket.
LEMMA LiveSock ==
  ASSUME IInv, NEW s \in SockId, Live(s)
  PROVE  /\ sock[s] \in SockRec
         /\ sock[s].conns \in Seq(ConnId) /\ sock[s].closed_conns \in Seq(ConnId)
         /\ Range(sock[s].conns) \subseteq DOMAIN conn
<1>1. sock[s] \in SockRec
  BY DEF IInv, TypeOK, Live
<1>2. Range(sock[s].conns) \subseteq DOMAIN conn
  BY DEF IInv, ListsOK
<1>3. QED BY <1>1, <1>2 DEF SockRec

\* tcp_socks_manager_find returns a live socket.
LEMMA FoundSock ==
  ASSUME IInv, NEW i \in Intf, NEW port, TcpSocksManagerFind(i, port) # NULL
  PROVE  LET s == TcpSocksManagerFind(i, port) IN s \in SockId /\ Live(s)
<1> DEFINE m == managers[i]
           K == {k \in 1..Len(m) : sock[m[k]].local_port = port}
<1>1. m \in Seq(SockId)
  BY DEF IInv, TypeOK
<1>2. PICK k \in 1..Len(m) : TcpSocksManagerFind(i, port) = m[k]
  <2>1. K \in SUBSET Nat
    OBVIOUS
  <2>2. CASE K = {}
    BY <2>2 DEF TcpSocksManagerFind, SelectInSeq
  <2>3. CASE K # {}
    <3>1. Min(K) \in K
      <4> HIDE DEF K
      <4>1. QED BY <2>1, <2>3, MinIsLeast
    <3>2. Min(K) # 0 /\ Min(K) \in 1..Len(m)
      BY <3>1
    <3>3. TcpSocksManagerFind(i, port) = m[Min(K)]
      BY <2>3, <3>2 DEF TcpSocksManagerFind, SelectInSeq
    <3>4. QED BY <3>2, <3>3
  <2>4. QED BY <2>2, <2>3
<1>3. m[k] \in Range(m)
  BY <1>1 DEF Range
<1>4. QED BY <1>2, <1>3 DEF IInv, SocketsListed

\* find_matching_connection returns the open connection of the peer, if any.
LEMMA FoundConn ==
  ASSUME IInv, NEW s \in SockId, Live(s), NEW peer
  PROVE  LET c == FindMatchingConnection(s, peer)
         IN  /\ c # NULL => c \in Range(sock[s].conns) /\ conn[c].peer = peer
             /\ c = NULL => \A d \in Range(sock[s].conns) : conn[d].peer # peer
<1> DEFINE m == sock[s].conns
           K == {k \in 1..Len(m) : conn[m[k]].peer = peer}
<1>1. m \in Seq(ConnId) /\ DOMAIN m = 1..Len(m)
  BY LiveSock
<1>2. K \in SUBSET Nat
  OBVIOUS
<1>3. CASE K = {}
  <2>1. FindMatchingConnection(s, peer) = NULL
    BY <1>3 DEF FindMatchingConnection, SelectInSeq
  <2>2. QED BY <1>1, <1>3, <2>1 DEF Range
<1>4. CASE K # {}
  <2>1. PICK f \in K : f = Min(K)
    <3> HIDE DEF K
    <3>1. QED BY <1>2, <1>4, MinIsLeast
  <2>2. f # 0 /\ f \in 1..Len(m) /\ conn[m[f]].peer = peer
    OBVIOUS
  <2>3. FindMatchingConnection(s, peer) = m[f]
    BY <1>4, <2>1, <2>2 DEF FindMatchingConnection, SelectInSeq
  <2> HIDE DEF m, K
  <2>4. m[f] \in Range(m) /\ m[f] \in ConnId
    BY <1>1, <2>2 DEF Range
  <2>5. m[f] # NULL
    BY <2>4, TcpAssumption DEF ConnId
  <2>6. QED BY <2>2, <2>3, <2>4, <2>5 DEF m
<1>5. QED BY <1>3, <1>4

\* A socket keeps its address: the lists of the interfaces are not affected.
LEMMA SameAddress ==
  ASSUME IInv, NEW s \in SockId, Live(s), NEW x \in SockRec,
         x.intf = sock[s].intf, x.bound = sock[s].bound,
         sock' = [sock EXCEPT ![s] = x], UNCHANGED <<fd_to_sock, managers>>
  PROVE  /\ SocketsListed' /\ BoundOK'
         /\ sock' \in [SockId -> SockRec \cup {NULL, FREED}]
         /\ \A t \in SockId : Live(t)' <=> Live(t)
         /\ sock'[s] = x /\ \A t \in SockId : t # s => sock'[t] = sock[t]
<1>1. sock \in [SockId -> SockRec \cup {NULL, FREED}]
  BY DEF IInv, TypeOK
<1>2. /\ sock' \in [SockId -> SockRec \cup {NULL, FREED}]
      /\ sock'[s] = x /\ \A t \in SockId : t # s => sock'[t] = sock[t]
  BY <1>1
<1>3. x \notin {NULL, FREED}
  BY RecordAssumption
<1>4. \A t \in SockId : Live(t)' <=> Live(t)
  BY <1>2, <1>3 DEF Live
<1>5. \A t \in SockId : sock'[t] # sock[t] => t = s
  BY <1>2
<1>6. \A i \in Intf : {t \in SockId : Live(t)' /\ sock'[t].intf = i} = {t \in SockId : Live(t) /\ sock[t].intf = i}
  BY <1>2, <1>4
<1>7. SocketsListed'
  BY <1>4, <1>6 DEF IInv, SocketsListed
<1>8. BoundOK'
  BY <1>2, <1>4 DEF IInv, BoundOK
<1>9. QED BY <1>2, <1>4, <1>7, <1>8

-----------------------------------------------------------------------------
(* Opening and closing connections. *)

\* The record of a new connection.
LEMMA NewConnOK ==
  ASSUME NEW s \in SockId, NEW seg \in Segment, seg.first = 0
  PROVE  LET r == TcpOut(NewConn(s, seg), 0, {"SYN", "ACK"})
         IN  /\ r \in ConnRec /\ WindowOK(r) /\ PrefixOK(r) /\ ExpectsNext(r)
             /\ Received(r) = << >> /\ r.read = << >>
             /\ r.parent = s /\ r.peer = seg.peer
<1> DEFINE q == NewConn(s, seg)
           r == TcpOut(q, 0, {"SYN", "ACK"})
<1>1. /\ SeqSpace \in Nat \ {0} /\ StreamLen \in Nat /\ StreamLen + 1 < SeqSpace
      /\ PeerWnd \in [Peer -> 0..(SeqSpace - 1)]
  BY TcpAssumption
<1>2. seg.peer \in Peer
  BY DEF Segment
<1>3. (SeqNum(seg.peer, 0) + 1) % SeqSpace = SeqNum(seg.peer, 0 + 1)
  <2>1. 0 \in 0..SeqSpace /\ 1 \in 0..(SeqSpace - 1)
    BY <1>1
  <2>2. QED BY <1>2, <2>1, SeqNumAdd
<1>4. SeqNum(seg.peer, 1) \in 0..(SeqSpace - 1)
  <2>1. 1 \in 0..SeqSpace /\ 0 \in 0..(SeqSpace - 1)
    BY <1>1
  <2>2. QED BY <1>2, <2>1, SeqNumAdd
<1>5. /\ q.parent = s /\ q.peer = seg.peer /\ q.state = "syn_sent" /\ q.snt_nxt = 0
      /\ q.snt_wnd = PeerWnd[seg.peer] /\ q.rcv_nxt = SeqNum(seg.peer, 1)
      /\ q.rx_skb = << >> /\ q.sent = 0 /\ q.reset = FALSE /\ q.read = << >>
  BY <1>3 DEF NewConn
<1>6. q \in ConnRec
  <2>1. PeerWnd[seg.peer] \in Nat /\ 0 \in 0..(SeqSpace - 1) /\ 0 \in Nat
    BY <1>1, <1>2
  <2>2. << >> \in Seq(1..StreamLen) /\ << >> \in Seq(Seq(1..StreamLen))
    OBVIOUS
  <2>3. q = [parent |-> s, peer |-> seg.peer, state |-> "syn_sent", snt_nxt |-> 0,
             snt_wnd |-> PeerWnd[seg.peer], rcv_nxt |-> SeqNum(seg.peer, 1),
             rx_skb |-> << >>, sent |-> 0, reset |-> FALSE, read |-> << >>]
    <3>1. (SeqNum(seg.peer, seg.first) + 1) % SeqSpace = SeqNum(seg.peer, 1)
      BY <1>3
    <3>2. QED BY <3>1, Zenon DEF NewConn
  <2> HIDE DEF q
  <2>4. QED BY <1>2, <1>4, <2>1, <2>2, <2>3 DEF ConnRec
<1>7. WindowOK(q)
  <2>1. 0 <= PeerWnd[seg.peer]
    BY <1>1, <1>2
  <2> HIDE DEF q
  <2>2. QED BY <1>5, <2>1 DEF WindowOK
<1> HIDE DEF q
<1>8. /\ r \in ConnRec /\ WindowOK(r) /\ r.parent = q.parent /\ r.peer = q.peer
      /\ r.rcv_nxt = q.rcv_nxt /\ r.rx_skb = q.rx_skb /\ r.read = q.read
  BY <1>5, <1>6, <1>7, TcpOutOK
<1> HIDE DEF r
<1>9. Received(r) = << >>
  <2>1. Reverse(<< >>) = << >>
    BY DEF Reverse
  <2>2. FlattenSeq(<< >>) = << >>
    BY DEF FlattenSeq
  <2>3. << >> \o << >> = << >>
    OBVIOUS
  <2>4. QED BY <1>5, <1>8, <2>1, <2>2, <2>3 DEF Received
<1>10. PrefixOK(r) /\ ExpectsNext(r)
  <2>1. Len(<< >>) = 0 /\ DOMAIN << >> = {}
    OBVIOUS
  <2>2. QED BY <1>1, <1>5, <1>8, <1>9, <2>1 DEF PrefixOK, ExpectsNext
<1>11. QED BY <1>5, <1>8, <1>9, <1>10 DEF q, r

\* Appending a connection leaves the others as they are.
LEMMA AppendConn ==
  ASSUME IInv, NEW r \in ConnRec, Len(conn) < MaxConns, conn' = Append(conn, r)
  PROVE  /\ conn' \in Seq(ConnRec) /\ Len(conn') <= MaxConns
         /\ Len(conn) + 1 \in ConnId /\ Len(conn) + 1 \notin DOMAIN conn
         /\ DOMAIN conn' = DOMAIN conn \cup {Len(conn) + 1}
         /\ conn'[Len(conn) + 1] = r /\ \A d \in DOMAIN conn : conn'[d] = conn[d]
<1> DEFINE n == Len(conn)
<1>1. conn \in Seq(ConnRec) /\ n \in Nat /\ DOMAIN conn = 1..n /\ MaxConns \in Nat
  BY TcpAssumption DEF IInv, TypeOK
<1>2. /\ conn' \in Seq(ConnRec) /\ Len(conn') = n + 1
      /\ conn'[n + 1] = r /\ \A d \in 1..n : conn'[d] = conn[d]
  BY <1>1, AppendProperties
<1>3. DOMAIN conn' = 1..(n + 1)
  BY <1>2
<1> HIDE DEF n
<1>4. n + 1 \in 1..MaxConns /\ n + 1 \notin 1..n /\ n + 1 <= MaxConns
  BY <1>1 DEF n
<1>5. 1..(n + 1) = 1..n \cup {n + 1}
  BY <1>1
<1>6. QED BY <1>1, <1>2, <1>3, <1>4, <1>5 DEF n, ConnId

\* handle_new_connection: no connection of the peer was open.
LEMMA HandleNewConnectionInv ==
  ASSUME IInv, NEW s \in SockId, Live(s), NEW seg \in Segment, seg.first = 0,
         FindMatchingConnection(s, seg.peer) = NULL, HandleNewConnection(s, seg),
         UNCHANGED <<fd_to_sock, fd_conn_to_sock, managers, fault>>
  PROVE  IInv' /\ StreamStep
<1> DEFINE r == TcpOut(NewConn(s, seg), 0, {"SYN", "ACK"})
           n == Len(conn) + 1
           x == [sock[s] EXCEPT !.conns = <<n>> \o @]
<1>1. /\ r \in ConnRec /\ WindowOK(r) /\ PrefixOK(r) /\ ExpectsNext(r)
      /\ r.parent = s /\ r.peer = seg.peer /\ Received(r) = << >> /\ r.read = << >>
  BY NewConnOK
<1>2. Len(conn) < MaxConns /\ conn' = Append(conn, r) /\ sock' = [sock EXCEPT ![s].conns = <<n>> \o @]
  BY DEF HandleNewConnection
<1> HIDE DEF r
<1>3. /\ conn' \in Seq(ConnRec) /\ Len(conn') <= MaxConns
      /\ n \in ConnId /\ n \notin DOMAIN conn /\ DOMAIN conn' = DOMAIN conn \cup {n}
      /\ conn'[n] = r /\ \A d \in DOMAIN conn : conn'[d] = conn[d]
  BY <1>1, <1>2, AppendConn
<1> HIDE DEF n
<1>4. /\ sock[s] \in SockRec /\ sock[s].conns \in Seq(ConnId)
      /\ Range(sock[s].conns) \subseteq DOMAIN conn
  BY LiveSock
<1>5. /\ <<n>> \o sock[s].conns \in Seq(ConnId)
      /\ Range(<<n>> \o sock[s].conns) = Range(sock[s].conns) \cup {n}
      /\ IsInjective(<<n>> \o sock[s].conns)
  <2>1. IsInjective(sock[s].conns) /\ n \notin Range(sock[s].conns)
    BY <1>3, <1>4 DEF IInv, ListsOK
  <2>2. QED BY <1>3, <1>4, <2>1, PrependRange, PrependInjective
<1>6. /\ x \in SockRec /\ x.intf = sock[s].intf /\ x.bound = sock[s].bound
      /\ x.conns = <<n>> \o sock[s].conns /\ x.closed_conns = sock[s].closed_conns
  BY <1>4, <1>5 DEF SockRec
<1>7. sock' = [sock EXCEPT ![s] = x]
  BY <1>2
<1> HIDE DEF x
<1>8. /\ SocketsListed' /\ BoundOK'
      /\ sock' \in [SockId -> SockRec \cup {NULL, FREED}]
      /\ \A t \in SockId : Live(t)' <=> Live(t)
      /\ sock'[s] = x /\ \A t \in SockId : t # s => sock'[t] = sock[t]
  BY <1>6, <1>7, SameAddress
<1>9. TypeOK'
  BY <1>3, <1>8 DEF IInv, TypeOK
<1>10. ParentsOK'
  <2>1. sock'[s] # NULL
    BY <1>6, <1>8, RecordAssumption
  <2>2. \A d \in DOMAIN conn : conn[d].parent \in SockId
    BY ConnFacts DEF ConnRec
  <2>3. \A d \in DOMAIN conn : sock'[conn[d].parent] # NULL
    BY <1>8, <2>1, <2>2 DEF IInv, ParentsOK
  <2>4. QED BY <1>1, <1>3, <2>1, <2>3 DEF ParentsOK
<1>11. ListsOK'
  <2>1. ASSUME NEW t \in SockId, Live(t)
        PROVE  /\ IsInjective(sock'[t].conns) /\ IsInjective(sock'[t].closed_conns)
               /\ Range(sock'[t].conns) \cap Range(sock'[t].closed_conns) = {}
               /\ Range(sock'[t].conns) \cup Range(sock'[t].closed_conns) =
                    {c \in DOMAIN conn' : conn'[c].parent = t}
               /\ \A c, d \in Range(sock'[t].conns) : conn'[c].peer = conn'[d].peer => c = d
    <3>1. /\ IsInjective(sock[t].conns) /\ IsInjective(sock[t].closed_conns)
          /\ Range(sock[t].conns) \cap Range(sock[t].closed_conns) = {}
          /\ Range(sock[t].conns) \cup Range(sock[t].closed_conns) =
               {c \in DOMAIN conn : conn[c].parent = t}
          /\ \A c, d \in Range(sock[t].conns) : conn[c].peer = conn[d].peer => c = d
      BY <2>1 DEF IInv, ListsOK
    <3>2. CASE t # s
      <4>1. {c \in DOMAIN conn' : conn'[c].parent = t} = {c \in DOMAIN conn : conn[c].parent = t}
        BY <3>2, <1>1, <1>3
      <4>2. \A c \in Range(sock[t].conns) : conn'[c] = conn[c]
        BY <3>1, <1>3
      <4>3. sock'[t] = sock[t]
        BY <3>2, <1>8
      <4>4. QED BY <3>1, <4>1, <4>2, <4>3
    <3>3. CASE t = s
      <4>1. {c \in DOMAIN conn' : conn'[c].parent = s} = {c \in DOMAIN conn : conn[c].parent = s} \cup {n}
        BY <1>1, <1>3
      <4>2. \A d \in Range(sock[s].conns) : conn'[d] = conn[d] /\ conn'[d].peer # conn'[n].peer
        <5>1. \A d \in Range(sock[s].conns) : conn[d].peer # seg.peer
          BY FoundConn
        <5>2. QED BY <5>1, <1>1, <1>3, <1>4
      <4>3. n \notin Range(sock[s].closed_conns)
        BY <3>1, <3>3, <1>3
      <4>4. /\ sock'[s].conns = <<n>> \o sock[s].conns
            /\ sock'[s].closed_conns = sock[s].closed_conns
        BY <1>6, <1>8
      <4>5. \A c, d \in Range(sock'[s].conns) : conn'[c].peer = conn'[d].peer => c = d
        BY <1>5, <3>1, <3>3, <4>2, <4>4
      <4>6. QED BY <1>5, <3>1, <3>3, <4>1, <4>3, <4>4, <4>5
    <3>4. QED BY <3>2, <3>3
  <2>2. QED BY <2>1, <1>8 DEF ListsOK
<1>12. ConnsOK'
  <2>1. ASSUME NEW d \in DOMAIN conn'
        PROVE  /\ WindowOK(conn'[d]) /\ PrefixOK(conn'[d])
               /\ ExpectsNext(conn'[d]) \/ ExpectsAfterFin(conn'[d])
               /\ \A t \in SockId : Live(t) /\ d \in Range(sock'[t].conns) => ExpectsNext(conn'[d])
    <3>1. CASE d = n
      BY <3>1, <1>1, <1>3
    <3>2. CASE d # n
      <4>1. d \in DOMAIN conn /\ conn'[d] = conn[d]
        BY <2>1, <3>2, <1>3
      <4>2. \A t \in SockId : d \in Range(sock'[t].conns) => d \in Range(sock[t].conns)
        <5>1. Range(sock'[s].conns) = Range(sock[s].conns) \cup {n}
          BY <1>5, <1>6, <1>8
        <5>2. QED BY <5>1, <3>2, <1>8
      <4>3. QED BY <4>1, <4>2 DEF IInv, ConnsOK
    <3>3. QED BY <3>1, <3>2
  <2>2. QED BY <2>1, <1>8 DEF ConnsOK
<1>13. StreamStep
  BY <1>1, <1>3, NewStream DEF n
<1>14. QED BY <1>8, <1>9, <1>10, <1>11, <1>12, <1>13 DEF IInv

\* The record of a connection that is closed by a RST or a FIN.
LEMMA ClosedConnOK ==
  ASSUME NEW q \in ConnRec, WindowOK(q), PrefixOK(q), ExpectsNext(q), NEW fin \in {0, 1}
  PROVE  LET r == TcpOut([q EXCEPT !.rcv_nxt = (@ + fin) % SeqSpace], 0, {"RST", "ACK"})
         IN  /\ r \in ConnRec /\ WindowOK(r) /\ PrefixOK(r)
             /\ ExpectsNext(r) \/ ExpectsAfterFin(r)
             /\ Received(r) = Received(q) /\ r.read = q.read
             /\ r.parent = q.parent /\ r.peer = q.peer
<1> DEFINE p == [q EXCEPT !.rcv_nxt = (@ + fin) % SeqSpace]
           r == TcpOut(p, 0, {"RST", "ACK"})
           L == Len(Received(q))
<1>1. SeqSpace \in Nat \ {0} /\ StreamLen \in Nat /\ StreamLen + 1 < SeqSpace
  BY TcpAssumption
<1>2. L \in Nat /\ L <= StreamLen
  BY ReceivedType DEF PrefixOK
<1>3. q.peer \in Peer /\ q.rcv_nxt = SeqNum(q.peer, L + 1)
  BY DEF ConnRec, ExpectsNext
<1> HIDE DEF L
<1>4. /\ (q.rcv_nxt + fin) % SeqSpace = SeqNum(q.peer, L + 1 + fin)
      /\ (q.rcv_nxt + fin) % SeqSpace \in 0..(SeqSpace - 1)
  <2>1. L + 1 \in 0..SeqSpace /\ L + 1 + fin \in 0..SeqSpace /\ fin \in 0..(SeqSpace - 1)
        /\ 0 \in 0..(SeqSpace - 1)
    BY <1>1, <1>2
  <2>2. (q.rcv_nxt + fin) % SeqSpace = SeqNum(q.peer, L + 1 + fin)
    BY <1>3, <2>1, SeqNumAdd
  <2>3. SeqNum(q.peer, L + 1 + fin) \in 0..(SeqSpace - 1)
    BY <1>3, <2>1, SeqNumAdd
  <2>4. QED BY <2>2, <2>3
<1>5. /\ p \in ConnRec /\ p.parent = q.parent /\ p.peer = q.peer /\ p.snt_nxt = q.snt_nxt
      /\ p.snt_wnd = q.snt_wnd /\ p.sent = q.sent /\ p.rx_skb = q.rx_skb /\ p.read = q.read
      /\ p.rcv_nxt = (q.rcv_nxt + fin) % SeqSpace
  BY <1>4 DEF ConnRec
<1> HIDE DEF p
<1>6. WindowOK(p)
  BY <1>5 DEF WindowOK
<1>7. /\ r \in ConnRec /\ WindowOK(r) /\ r.parent = p.parent /\ r.peer = p.peer
      /\ r.rcv_nxt = p.rcv_nxt /\ r.rx_skb = p.rx_skb /\ r.read = p.read
  BY <1>5, <1>6, TcpOutOK
<1> HIDE DEF r
<1>8. Received(r) = Received(q)
  BY <1>5, <1>7 DEF Received
<1>9. PrefixOK(r)
  BY <1>8 DEF PrefixOK
<1>10. r.rcv_nxt = SeqNum(r.peer, L + 1 + fin)
  BY <1>4, <1>5, <1>7
<1>11. ExpectsNext(r) \/ ExpectsAfterFin(r)
  <2>1. CASE fin = 0
    <3>1. L + 1 + fin = Len(Received(r)) + 1
      BY <2>1, <1>2, <1>8 DEF L
    <3>2. QED BY <3>1, <1>10 DEF ExpectsNext
  <2>2. CASE fin = 1
    <3>1. L + 1 + fin = Len(Received(r)) + 2
      BY <2>2, <1>2, <1>8 DEF L
    <3>2. QED BY <3>1, <1>10 DEF ExpectsAfterFin
  <2>3. QED BY <2>1, <2>2
<1>12. QED BY <1>5, <1>7, <1>8, <1>9, <1>11 DEF r, p

\* close_connection moves the connection to the other list.
LEMMA CloseConnectionInv ==
  ASSUME IInv, NEW s \in SockId, Live(s), NEW c \in Range(sock[s].conns), NEW fin \in {0, 1},
         CloseConnection(c, fin), UNCHANGED <<fd_to_sock, fd_conn_to_sock, managers, fault>>
  PROVE  IInv' /\ StreamStep
<1> DEFINE q == conn[c]
           r == TcpOut([q EXCEPT !.rcv_nxt = (@ + fin) % SeqSpace], 0, {"RST", "ACK"})
           x == [sock[s] EXCEPT !.conns = RemoveFirst(@, c), !.closed_conns = <<c>> \o @]
<1>1. /\ sock[s] \in SockRec /\ sock[s].conns \in Seq(ConnId)
      /\ sock[s].closed_conns \in Seq(ConnId) /\ Range(sock[s].conns) \subseteq DOMAIN conn
  BY LiveSock
<1>2. /\ c \in DOMAIN conn /\ q.parent = s /\ ExpectsNext(q)
  BY <1>1 DEF IInv, ListsOK, ConnsOK
<1>3. q \in ConnRec /\ WindowOK(q) /\ PrefixOK(q)
  BY <1>2, ConnFacts
<1>4. /\ r \in ConnRec /\ WindowOK(r) /\ PrefixOK(r)
      /\ Received(r) = Received(q) /\ r.read = q.read
      /\ ExpectsNext(r) \/ ExpectsAfterFin(r)
      /\ r.parent = q.parent /\ r.peer = q.peer
  <2> HIDE DEF q
  <2>1. QED BY <1>2, <1>3, ClosedConnOK
<1>5. conn' = [conn EXCEPT ![c] = r]
  BY DEF CloseConnection
<1>6. sock' = [sock EXCEPT ![s].conns = RemoveFirst(@, c), ![s].closed_conns = <<c>> \o @]
  BY <1>2 DEF CloseConnection
<1> HIDE DEF r
<1>7. /\ conn' \in Seq(ConnRec) /\ Len(conn') = Len(conn) /\ DOMAIN conn' = DOMAIN conn
      /\ conn'[c] = r
      /\ \A d \in DOMAIN conn : d # c => conn'[d] = conn[d]
  <2>1. conn \in Seq(ConnRec) /\ DOMAIN conn = 1..Len(conn)
    BY DEF IInv, TypeOK
  <2>2. QED BY <1>2, <1>4, <1>5, <2>1, ExceptSeq
<1>8. \A d \in DOMAIN conn : conn'[d].parent = conn[d].parent /\ conn'[d].peer = conn[d].peer
  BY <1>4, <1>7
<1>9. /\ IsInjective(sock[s].conns) /\ IsInjective(sock[s].closed_conns)
      /\ c \notin Range(sock[s].closed_conns) /\ c \in ConnId
  <2>1. c \in ConnId
    BY <1>1 DEF Range
  <2>2. QED BY <2>1 DEF IInv, ListsOK
<1>10. /\ RemoveFirst(sock[s].conns, c) \in Seq(ConnId)
       /\ Range(RemoveFirst(sock[s].conns, c)) = Range(sock[s].conns) \ {c}
       /\ IsInjective(RemoveFirst(sock[s].conns, c))
  BY <1>1, <1>9, RemoveFirstRange
<1>11. /\ <<c>> \o sock[s].closed_conns \in Seq(ConnId)
       /\ Range(<<c>> \o sock[s].closed_conns) = Range(sock[s].closed_conns) \cup {c}
       /\ IsInjective(<<c>> \o sock[s].closed_conns)
  BY <1>1, <1>9, PrependRange, PrependInjective
<1>12. /\ x \in SockRec /\ x.intf = sock[s].intf /\ x.bound = sock[s].bound
       /\ x.conns = RemoveFirst(sock[s].conns, c)
       /\ x.closed_conns = <<c>> \o sock[s].closed_conns
  BY <1>1, <1>10, <1>11 DEF SockRec
<1>13. sock' = [sock EXCEPT ![s] = x]
  BY <1>6
<1> HIDE DEF x
<1>14. /\ SocketsListed' /\ BoundOK'
       /\ sock' \in [SockId -> SockRec \cup {NULL, FREED}]
       /\ \A t \in SockId : Live(t)' <=> Live(t)
       /\ sock'[s] = x /\ \A t \in SockId : t # s => sock'[t] = sock[t]
  BY <1>12, <1>13, SameAddress
<1>15. TypeOK'
  BY <1>7, <1>14 DEF IInv, TypeOK
<1>16. ParentsOK'
  <2>1. sock'[s] # NULL
    BY <1>12, <1>14, RecordAssumption
  <2>2. \A d \in DOMAIN conn : conn[d].parent \in SockId
    BY ConnFacts DEF ConnRec
  <2>3. \A d \in DOMAIN conn : sock'[conn[d].parent] # NULL
    BY <1>14, <2>1, <2>2 DEF IInv, ParentsOK
  <2>4. QED BY <1>7, <1>8, <2>3 DEF ParentsOK
<1>17. /\ Range(sock'[s].conns) = Range(sock[s].conns) \ {c}
       /\ Range(sock'[s].closed_conns) = Range(sock[s].closed_conns) \cup {c}
       /\ IsInjective(sock'[s].conns) /\ IsInjective(sock'[s].closed_conns)
  BY <1>10, <1>11, <1>12, <1>14
<1>18. ListsOK'
  <2>1. ASSUME NEW t \in SockId, Live(t)
        PROVE  /\ IsInjective(sock'[t].conns) /\ IsInjective(sock'[t].closed_conns)
               /\ Range(sock'[t].conns) \cap Range(sock'[t].closed_conns) = {}
               /\ Range(sock'[t].conns) \cup Range(sock'[t].closed_conns) =
                    {d \in DOMAIN conn' : conn'[d].parent = t}
               /\ \A d, e \in Range(sock'[t].conns) : conn'[d].peer = conn'[e].peer => d = e
    <3>1. /\ IsInjective(sock[t].conns) /\ IsInjective(sock[t].closed_conns)
          /\ Range(sock[t].conns) \cap Range(sock[t].closed_conns) = {}
          /\ Range(sock[t].conns) \cup Range(sock[t].closed_conns) =
               {d \in DOMAIN conn : conn[d].parent = t}
          /\ \A d, e \in Range(sock[t].conns) : conn[d].peer = conn[e].peer => d = e
      BY <2>1 DEF IInv, ListsOK
    <3>2. {d \in DOMAIN conn' : conn'[d].parent = t} = {d \in DOMAIN conn : conn[d].parent = t}
      BY <1>7, <1>8
    <3>3. \A d \in Range(sock[t].conns) : conn'[d].peer = conn[d].peer
      BY <3>1, <1>8
    <3>4. CASE t # s
      <4>1. sock'[t] = sock[t]
        BY <3>4, <1>14
      <4>2. QED BY <3>1, <3>2, <3>3, <4>1
    <3>5. CASE t = s
      <4>1. /\ Range(sock'[s].conns) \cap Range(sock'[s].closed_conns) = {}
            /\ Range(sock'[s].conns) \cup Range(sock'[s].closed_conns) =
                 Range(sock[s].conns) \cup Range(sock[s].closed_conns)
        BY <3>1, <3>5, <1>17
      <4>2. \A d, e \in Range(sock'[s].conns) : conn'[d].peer = conn'[e].peer => d = e
        BY <3>1, <3>3, <3>5, <1>17
      <4>3. QED BY <3>1, <3>2, <3>5, <4>1, <4>2, <1>17
    <3>6. QED BY <3>4, <3>5
  <2>2. QED BY <2>1, <1>14 DEF ListsOK
<1>19. ConnsOK'
  <2>1. ASSUME NEW t \in SockId, Live(t), c \in Range(sock'[t].conns)
        PROVE  FALSE
    <3>1. t # s
      BY <2>1, <1>17
    <3>2. c \in Range(sock[t].conns)
      BY <2>1, <3>1, <1>14
    <3>3. q.parent = t
      BY <3>2, <2>1 DEF IInv, ListsOK
    <3>4. QED BY <3>1, <3>3, <1>2
  <2>2. ASSUME NEW d \in DOMAIN conn
        PROVE  /\ WindowOK(conn'[d]) /\ PrefixOK(conn'[d])
               /\ ExpectsNext(conn'[d]) \/ ExpectsAfterFin(conn'[d])
               /\ \A t \in SockId : Live(t) /\ d \in Range(sock'[t].conns) => ExpectsNext(conn'[d])
    <3>1. CASE d = c
      BY <3>1, <2>1, <1>4, <1>7
    <3>2. CASE d # c
      <4>1. conn'[d] = conn[d]
        BY <3>2, <1>7
      <4>2. \A t \in SockId : d \in Range(sock'[t].conns) => d \in Range(sock[t].conns)
        BY <1>14, <1>17
      <4>3. QED BY <4>1, <4>2 DEF IInv, ConnsOK
    <3>3. QED BY <3>1, <3>2
  <2>3. QED BY <2>2, <1>7, <1>14 DEF ConnsOK
<1>20. StreamStep
  BY <1>2, <1>4, <1>5, SameStream
<1>21. QED BY <1>20, <1>14, <1>15, <1>16, <1>18, <1>19 DEF IInv

\* handle_estab.
LEMMA HandleEstabInv ==
  ASSUME IInv, NEW s \in SockId, Live(s), NEW c \in Range(sock[s].conns),
         NEW seg \in Segment, CanArrive(seg), seg.peer = conn[c].peer, HandleEstab(c, seg),
         UNCHANGED <<fd_to_sock, fd_conn_to_sock, managers, fault>>
  PROVE  IInv' /\ StreamStep
<1>1. c \in DOMAIN conn /\ ExpectsNext(conn[c])
  BY LiveSock DEF IInv, ConnsOK
<1>2. CASE UNCHANGED <<conn, sock>>
  BY <1>2, NewStream DEF IInv, TypeOK, SocketsListed, BoundOK, ParentsOK, ListsOK, ConnsOK, Live
<1>3. CASE CloseConnection(c, 0) \/ CloseConnection(c, 1)
  BY <1>3, CloseConnectionInv
<1>4. CASE /\ InSequence(c, seg)
           /\ conn' = [conn EXCEPT ![c].rcv_nxt = (@ + seg.len) % SeqSpace,
                                   ![c].rx_skb = <<Bytes(seg)>> \o @]
           /\ UNCHANGED sock
  BY <1>1, <1>4, SegmentQueuedInv
<1>5. QED BY <1>2, <1>3, <1>4 DEF HandleEstab

\* tcp_input.
LEMMA TcpInputInv ==
  ASSUME IInv, NEW seg \in Segment, TcpInput(seg)
  PROVE  IInv' /\ StreamStep
<1> DEFINE s == TcpSocksManagerFind(seg.intf, seg.dst_port)
           c == FindMatchingConnection(s, seg.peer)
<1>1. s # NULL /\ CanArrive(seg) /\ UNCHANGED <<fd_to_sock, fd_conn_to_sock, managers, fault>>
  BY DEF TcpInput
<1>2. s \in SockId /\ Live(s)
  <2>1. seg.intf \in Intf
    BY DEF Segment
  <2>2. QED BY <1>1, <2>1, FoundSock
<1>3. \/ c # NULL /\ HandleSynSent(c, seg)
      \/ c # NULL /\ HandleEstab(c, seg)
      \/ c = NULL /\ "SYN" \in seg.flags /\ HandleNewConnection(s, seg)
  BY DEF TcpInput
<1> HIDE DEF s
<1>4. /\ c # NULL => c \in Range(sock[s].conns) /\ conn[c].peer = seg.peer
      /\ Range(sock[s].conns) \subseteq DOMAIN conn
  BY <1>2, FoundConn, LiveSock
<1>5. CASE c # NULL /\ HandleSynSent(c, seg)
  BY <1>1, <1>4, <1>5, HandleSynSentInv
<1>6. CASE c # NULL /\ HandleEstab(c, seg)
  BY <1>1, <1>2, <1>4, <1>6, HandleEstabInv
<1>7. CASE c = NULL /\ "SYN" \in seg.flags /\ HandleNewConnection(s, seg)
  <2>1. seg.first = 0
    BY <1>1, <1>7 DEF CanArrive
  <2>2. QED BY <1>1, <1>2, <1>7, <2>1, HandleNewConnectionInv
<1>8. QED BY <1>3, <1>5, <1>6, <1>7

-----------------------------------------------------------------------------
(* The application's calls on sockets. *)

\* tcp_accept only gives a connection a descriptor.
LEMMA TcpAcceptInv ==
  ASSUME IInv, NEW fd \in SockFd, NEW connfd \in ConnFd, TcpAccept(fd, connfd)
  PROVE  IInv'
<1> DEFINE s == fd_to_sock[fd]
           m == sock[s].conns
           K == {k \in 1..Len(m) : conn[m[k]].state = "estab"}
           f == SelectInSeq(m, LAMBDA c : conn[c].state = "estab")
<1>1. /\ f # 0 /\ fd_conn_to_sock' = [fd_conn_to_sock EXCEPT ![connfd] = m[f]]
      /\ IsGoodTcpSock(fd) /\ UNCHANGED <<fd_to_sock, sock, managers, conn, fault>>
  BY DEF TcpAccept
<1>2. s \in SockId /\ Live(s)
  BY <1>1 DEF IInv, TypeOK, SocketsListed, IsGoodTcpSock
<1>3. m \in Seq(ConnId) /\ DOMAIN m = 1..Len(m) /\ Range(m) \subseteq DOMAIN conn
  BY <1>2, LiveSock
<1>4. K \in SUBSET Nat
  OBVIOUS
<1>5. f \in 1..Len(m)
  <2>1. K # {}
    BY <1>1 DEF SelectInSeq
  <2>2. PICK g \in K : g = Min(K)
    <3> HIDE DEF K
    <3>1. QED BY <1>4, <2>1, MinIsLeast
  <2>3. f = g
    BY <2>1, <2>2 DEF SelectInSeq
  <2> HIDE DEF f
  <2>4. QED BY <2>3
<1> HIDE DEF f
<1>6. m[f] \in DOMAIN conn
  BY <1>3, <1>5 DEF Range
<1> HIDE DEF m
<1>7. fd_conn_to_sock' \in [ConnFd -> DOMAIN conn \cup {NULL}]
  BY <1>1, <1>6 DEF IInv, TypeOK
<1>8. TypeOK'
  BY <1>1, <1>7 DEF IInv, TypeOK
<1>9. QED
  BY <1>1, <1>8 DEF IInv, SocketsListed, BoundOK, ParentsOK, ListsOK, ConnsOK, Live

\* What a call on a socket leaves alone when no connection is touched: the
\* lists of the sockets, which are empty for a new one.
LEMMA SameConns ==
  ASSUME IInv, UNCHANGED conn,
         \A t \in SockId : sock[t] # NULL => sock'[t] # NULL,
         \A t \in SockId : Live(t)' =>
           \/ /\ Live(t) /\ sock'[t].conns = sock[t].conns
              /\ sock'[t].closed_conns = sock[t].closed_conns
           \/ sock[t] = NULL /\ sock'[t].conns = << >> /\ sock'[t].closed_conns = << >>
  PROVE  ParentsOK' /\ ListsOK' /\ ConnsOK'
<1>1. ParentsOK'
  <2>1. \A d \in DOMAIN conn : conn[d].parent \in SockId
    BY ConnFacts DEF ConnRec
  <2>2. QED BY <2>1 DEF IInv, ParentsOK
<1>2. Range(<< >>) = {} /\ IsInjective(<< >>)
  BY DEF Range, IsInjective
<1>3. ListsOK'
  <2>1. ASSUME NEW t \in SockId, Live(t)'
        PROVE  /\ IsInjective(sock'[t].conns) /\ IsInjective(sock'[t].closed_conns)
               /\ Range(sock'[t].conns) \cap Range(sock'[t].closed_conns) = {}
               /\ Range(sock'[t].conns) \cup Range(sock'[t].closed_conns) =
                    {d \in DOMAIN conn : conn[d].parent = t}
               /\ \A d, e \in Range(sock'[t].conns) : conn[d].peer = conn[e].peer => d = e
    <3>1. CASE /\ Live(t) /\ sock'[t].conns = sock[t].conns
               /\ sock'[t].closed_conns = sock[t].closed_conns
      BY <3>1 DEF IInv, ListsOK
    <3>2. CASE /\ sock[t] = NULL /\ sock'[t].conns = << >> /\ sock'[t].closed_conns = << >>
      <4>1. {d \in DOMAIN conn : conn[d].parent = t} = {}
        BY <3>2 DEF IInv, ParentsOK
      <4>2. QED BY <3>2, <4>1, <1>2
    <3>3. QED BY <2>1, <3>1, <3>2
  <2>2. QED BY <2>1 DEF ListsOK
<1>4. ConnsOK'
  <2>1. \A t \in SockId, d \in DOMAIN conn :
          Live(t)' /\ d \in Range(sock'[t].conns) => Live(t) /\ d \in Range(sock[t].conns)
    BY <1>2
  <2>2. QED BY <2>1 DEF IInv, ConnsOK
<1>5. QED BY <1>1, <1>3, <1>4

\* tcp_socket.
LEMMA TcpSocketInv ==
  ASSUME IInv, NEW fd \in SockFd, TcpSocket(fd)
  PROVE  IInv'
<1>1. fd_to_sock[fd] = NULL /\ UNCHANGED <<fd_conn_to_sock, managers, conn, fault>>
  BY DEF TcpSocket, FirstFree
<1>2. PICK s \in SockId : /\ sock[s] = NULL
                          /\ sock' = [sock EXCEPT ![s] = NewSock]
                          /\ fd_to_sock' = [fd_to_sock EXCEPT ![fd] = s]
  BY DEF TcpSocket
<1>3. /\ fd_to_sock \in [SockFd -> SockId \cup {NULL}]
      /\ sock \in [SockId -> SockRec \cup {NULL, FREED}]
  BY DEF IInv, TypeOK
<1>4. NewSock \in SockRec /\ NewSock \notin {NULL, FREED}
  <2>1. NewSock \in SockRec
    BY DEF NewSock, SockRec
  <2>2. QED BY <2>1, RecordAssumption
<1>5. /\ sock' \in [SockId -> SockRec \cup {NULL, FREED}]
      /\ sock'[s] = NewSock /\ \A t \in SockId : t # s => sock'[t] = sock[t]
  BY <1>2, <1>3, <1>4
<1>6. /\ fd_to_sock' \in [SockFd -> SockId \cup {NULL}]
      /\ fd_to_sock'[fd] = s /\ \A k \in SockFd : k # fd => fd_to_sock'[k] = fd_to_sock[k]
  BY <1>2, <1>3
<1>7. /\ NewSock.intf = NULL /\ NewSock.bound = FALSE
      /\ NewSock.conns = << >> /\ NewSock.closed_conns = << >>
  BY DEF NewSock
<1>8. /\ \A t \in SockId : Live(t)' <=> Live(t) \/ t = s
      /\ ~Live(s)
  BY <1>2, <1>4, <1>5 DEF Live
<1>9. TypeOK'
  BY <1>1, <1>5, <1>6 DEF IInv, TypeOK
<1>10. SocketsListed'
  <2>1. NULL \notin Intf /\ NULL \notin SockId
    BY TcpAssumption DEF SockId
  <2>2. \A i \in Intf : {t \in SockId : Live(t)' /\ sock'[t].intf = i} =
                        {t \in SockId : Live(t) /\ sock[t].intf = i}
    BY <1>5, <1>7, <1>8, <2>1
  <2>3. \A t \in SockId : (\E k \in SockFd : fd_to_sock'[k] = t) <=>
                          t = s \/ \E k \in SockFd : fd_to_sock[k] = t
    BY <1>1, <1>6, <2>1
  <2>4. \A t \in SockId : Live(t)' <=> \E k \in SockFd : fd_to_sock'[k] = t
    BY <1>8, <2>3 DEF IInv, SocketsListed
  <2>5. ~\E k \in SockFd : fd_to_sock[k] = s
    BY <1>8 DEF IInv, SocketsListed
  <2>6. \A k, l \in SockFd : fd_to_sock'[k] = fd_to_sock'[l] => k = l \/ fd_to_sock'[k] = NULL
    BY <1>6, <2>5 DEF IInv, SocketsListed
  <2>7. QED BY <1>1, <2>2, <2>4, <2>6 DEF IInv, SocketsListed
<1>11. BoundOK'
  BY <1>5, <1>7, <1>8 DEF IInv, BoundOK
<1>12. ParentsOK' /\ ListsOK' /\ ConnsOK'
  <2>1. \A t \in SockId : sock[t] # NULL => sock'[t] # NULL
    BY <1>2, <1>5
  <2>2. QED BY <1>1, <1>2, <1>5, <1>7, <1>8, <2>1, SameConns
<1>13. QED BY <1>9, <1>10, <1>11, <1>12 DEF IInv

\* tcp_close.
LEMMA TcpCloseInv ==
  ASSUME IInv, NEW fd \in SockFd, TcpClose(fd)
  PROVE  IInv'
<1> DEFINE s == fd_to_sock[fd]
           i == sock[s].intf
<1>1. /\ s # NULL /\ fd_to_sock' = [fd_to_sock EXCEPT ![fd] = NULL]
      /\ managers' = IF sock[s].bound THEN [managers EXCEPT ![i] = RemoveFirst(@, s)]
                                      ELSE managers
      /\ sock' = [sock EXCEPT ![s] = FREED]
      /\ UNCHANGED <<fd_conn_to_sock, conn, fault>>
  BY DEF TcpClose, IsGoodTcpSock
<1>2. /\ fd_to_sock \in [SockFd -> SockId \cup {NULL}]
      /\ sock \in [SockId -> SockRec \cup {NULL, FREED}]
      /\ managers \in [Intf -> Seq(SockId)]
  BY DEF IInv, TypeOK
<1>3. s \in SockId /\ Live(s)
  BY <1>1, <1>2 DEF IInv, SocketsListed
<1>4. /\ sock[s] \in SockRec /\ i \in Intf \cup {NULL} /\ sock[s].bound <=> i # NULL
  BY <1>3, LiveSock DEF SockRec, IInv, BoundOK
<1> HIDE DEF s
<1>5. /\ sock' \in [SockId -> SockRec \cup {NULL, FREED}]
      /\ sock'[s] = FREED /\ \A t \in SockId : t # s => sock'[t] = sock[t]
  BY <1>1, <1>2, <1>3
<1>6. /\ fd_to_sock' \in [SockFd -> SockId \cup {NULL}]
      /\ fd_to_sock'[fd] = NULL /\ \A k \in SockFd : k # fd => fd_to_sock'[k] = fd_to_sock[k]
  BY <1>1, <1>2
<1>7. \A t \in SockId : Live(t)' <=> Live(t) /\ t # s
  BY <1>5 DEF Live
<1>8. NULL \notin Intf /\ NULL \notin SockId /\ NULL # FREED
  BY TcpAssumption DEF SockId
<1>9. \A j \in Intf : /\ managers'[j] \in Seq(SockId) /\ IsInjective(managers'[j])
                      /\ Range(managers'[j]) = Range(managers[j]) \ {s}
  <2>1. ASSUME NEW j \in Intf
        PROVE  /\ managers'[j] \in Seq(SockId) /\ IsInjective(managers'[j])
               /\ Range(managers'[j]) = Range(managers[j]) \ {s}
    <3>1. /\ managers[j] \in Seq(SockId) /\ IsInjective(managers[j])
          /\ Range(managers[j]) = {t \in SockId : Live(t) /\ sock[t].intf = j}
      BY <1>2 DEF IInv, SocketsListed
    <3>2. CASE i = j
      <4>1. managers'[j] = RemoveFirst(managers[j], s)
        BY <1>1, <1>2, <1>4, <1>8, <3>2
      <4>2. QED BY <3>1, <4>1, RemoveFirstRange
    <3>3. CASE i # j
      <4>1. managers'[j] = managers[j]
        BY <1>1, <1>2, <3>3
      <4>2. s \notin Range(managers[j])
        BY <3>1, <3>3
      <4>3. QED BY <3>1, <4>1, <4>2
    <3>4. QED BY <3>2, <3>3
  <2>2. QED BY <2>1
<1>10. managers' \in [Intf -> Seq(SockId)]
  <2>1. DOMAIN managers' = Intf /\ managers' = [j \in DOMAIN managers' |-> managers'[j]]
    BY <1>1, <1>2
  <2>2. QED BY <1>9, <2>1
<1>11. TypeOK'
  BY <1>1, <1>5, <1>6, <1>10 DEF IInv, TypeOK
<1>12. SocketsListed'
  <2>1. \A j \in Intf : Range(managers'[j]) = {t \in SockId : Live(t)' /\ sock'[t].intf = j}
    BY <1>5, <1>7, <1>9 DEF IInv, SocketsListed
  <2>2. fd_to_sock[fd] = s
    BY DEF s
  <2>3. \A t \in SockId : Live(t)' <=> \E k \in SockFd : fd_to_sock'[k] = t
    BY <1>1, <1>6, <1>7, <1>8, <2>2 DEF IInv, SocketsListed
  <2>4. \A k, l \in SockFd : fd_to_sock'[k] = fd_to_sock'[l] => k = l \/ fd_to_sock'[k] = NULL
    BY <1>6 DEF IInv, SocketsListed
  <2>5. QED BY <1>9, <2>1, <2>3, <2>4 DEF SocketsListed
<1>13. BoundOK'
  BY <1>5, <1>7 DEF IInv, BoundOK
<1>14. ParentsOK' /\ ListsOK' /\ ConnsOK'
  <2>1. \A t \in SockId : sock[t] # NULL => sock'[t] # NULL
    BY <1>5, <1>8
  <2>2. QED BY <1>1, <1>5, <1>7, <2>1, SameConns
<1>15. QED BY <1>11, <1>12, <1>13, <1>14 DEF IInv

\* tcp_bind puts the socket on the list of the interface.
LEMMA TcpBindInv ==
  ASSUME IInv, NEW fd \in SockFd, NEW i \in Intf, NEW port \in Port, TcpBind(fd, i, port)
  PROVE  IInv'
<1> DEFINE s == fd_to_sock[fd]
           x == [sock[s] EXCEPT !.bound = TRUE, !.intf = i, !.local_port = port]
<1>1. /\ s # NULL /\ ~sock[s].bound
      /\ sock' = [sock EXCEPT ![s].bound = TRUE, ![s].intf = i, ![s].local_port = port]
      /\ managers' = [managers EXCEPT ![i] = <<s>> \o @]
      /\ UNCHANGED <<fd_to_sock, fd_conn_to_sock, conn, fault>>
  BY DEF TcpBind, IsGoodTcpSock
<1>2. /\ fd_to_sock \in [SockFd -> SockId \cup {NULL}]
      /\ sock \in [SockId -> SockRec \cup {NULL, FREED}]
      /\ managers \in [Intf -> Seq(SockId)]
  BY DEF IInv, TypeOK
<1>3. s \in SockId /\ Live(s)
  BY <1>1, <1>2 DEF IInv, SocketsListed
<1>4. sock[s] \in SockRec /\ sock[s].intf = NULL
  BY <1>1, <1>3, LiveSock DEF IInv, BoundOK
<1> HIDE DEF s
<1>5. /\ x \in SockRec /\ x.bound = TRUE /\ x.intf = i
      /\ x.conns = sock[s].conns /\ x.closed_conns = sock[s].closed_conns
  BY <1>4 DEF SockRec
<1>6. x \notin {NULL, FREED}
  BY <1>5, RecordAssumption
<1>7. sock' = [sock EXCEPT ![s] = x]
  BY <1>1
<1> HIDE DEF x
<1>8. /\ sock' \in [SockId -> SockRec \cup {NULL, FREED}]
      /\ sock'[s] = x /\ \A t \in SockId : t # s => sock'[t] = sock[t]
  BY <1>2, <1>3, <1>5, <1>7
<1>9. \A t \in SockId : Live(t)' <=> Live(t)
  BY <1>3, <1>6, <1>8 DEF Live
<1>10. NULL \notin Intf
  BY TcpAssumption
<1>11. s \notin Range(managers[i])
  BY <1>4, <1>10 DEF IInv, SocketsListed
<1>12. /\ <<s>> \o managers[i] \in Seq(SockId) /\ IsInjective(<<s>> \o managers[i])
       /\ Range(<<s>> \o managers[i]) = Range(managers[i]) \cup {s}
  <2>1. managers[i] \in Seq(SockId) /\ IsInjective(managers[i])
    BY <1>2 DEF IInv, SocketsListed
  <2>2. QED BY <1>3, <1>11, <2>1, PrependRange, PrependInjective
<1>13. /\ managers' \in [Intf -> Seq(SockId)] /\ managers'[i] = <<s>> \o managers[i]
       /\ \A j \in Intf : j # i => managers'[j] = managers[j]
  BY <1>1, <1>2, <1>12
<1>14. TypeOK'
  BY <1>1, <1>8, <1>13 DEF IInv, TypeOK
<1>15. SocketsListed'
  <2>1. ASSUME NEW j \in Intf
        PROVE  /\ IsInjective(managers'[j])
               /\ Range(managers'[j]) = {t \in SockId : Live(t)' /\ sock'[t].intf = j}
    <3>1. CASE j = i
      <4>1. {t \in SockId : Live(t)' /\ sock'[t].intf = i} =
            {t \in SockId : Live(t) /\ sock[t].intf = i} \cup {s}
        BY <1>3, <1>5, <1>8, <1>9
      <4>2. QED BY <3>1, <4>1, <1>12, <1>13 DEF IInv, SocketsListed
    <3>2. CASE j # i
      <4>1. {t \in SockId : Live(t)' /\ sock'[t].intf = j} =
            {t \in SockId : Live(t) /\ sock[t].intf = j}
        BY <3>2, <1>4, <1>5, <1>8, <1>9, <1>10
      <4>2. QED BY <3>2, <4>1, <1>13 DEF IInv, SocketsListed
    <3>3. QED BY <3>1, <3>2
  <2>2. QED BY <1>1, <1>9, <2>1 DEF IInv, SocketsListed
<1>16. BoundOK'
  BY <1>5, <1>8, <1>9, <1>10 DEF IInv, BoundOK
<1>17. ParentsOK' /\ ListsOK' /\ ConnsOK'
  <2>1. \A t \in SockId : sock[t] # NULL => sock'[t] # NULL
    BY <1>6, <1>8
  <2>2. QED BY <1>1, <1>5, <1>8, <1>9, <2>1, SameConns
<1>18. QED BY <1>14, <1>15, <1>16, <1>17 DEF IInv

\* tcp_listen.
LEMMA TcpListenInv ==
  ASSUME IInv, NEW fd \in SockFd, TcpListen(fd)
  PROVE  IInv'
<1> DEFINE s == fd_to_sock[fd]
           x == [sock[s] EXCEPT !.listening = TRUE]
<1>1. /\ s # NULL /\ sock' = [sock EXCEPT ![s].listening = TRUE]
      /\ UNCHANGED <<fd_to_sock, fd_conn_to_sock, managers, conn, fault>>
  BY DEF TcpListen, IsGoodTcpSock
<1>2. s \in SockId /\ Live(s)
  BY <1>1 DEF IInv, TypeOK, SocketsListed
<1>3. sock[s] \in SockRec
  BY <1>2, LiveSock
<1> HIDE DEF s
<1>4. /\ x \in SockRec /\ x.bound = sock[s].bound /\ x.intf = sock[s].intf
      /\ x.conns = sock[s].conns /\ x.closed_conns = sock[s].closed_conns
  BY <1>3 DEF SockRec
<1>5. sock' = [sock EXCEPT ![s] = x]
  BY <1>1
<1> HIDE DEF x
<1>6. /\ SocketsListed' /\ BoundOK' /\ sock' \in [SockId -> SockRec \cup {NULL, FREED}]
      /\ \A t \in SockId : Live(t)' <=> Live(t)
      /\ sock'[s] = x /\ \A t \in SockId : t # s => sock'[t] = sock[t]
  BY <1>1, <1>2, <1>4, <1>5, SameAddress
<1>7. TypeOK'
  BY <1>1, <1>6 DEF IInv, TypeOK
<1>8. ParentsOK' /\ ListsOK' /\ ConnsOK'
  <2>1. x # NULL
    BY <1>4, RecordAssumption
  <2>2. \A t \in SockId : sock[t] # NULL => sock'[t] # NULL
    BY <1>6, <2>1
  <2>3. QED BY <1>1, <1>4, <1>6, <2>2, SameConns
<1>9. QED BY <1>6, <1>7, <1>8 DEF IInv

-----------------------------------------------------------------------------
(* The theorems. *)

\* The invariant holds when the node starts.
LEMMA InitInv == Init => IInv
<1> SUFFICES ASSUME Init PROVE IInv
  OBVIOUS
<1>1. /\ conn = << >> /\ Len(conn) = 0 /\ DOMAIN conn = {} /\ conn \in Seq(ConnRec)
      /\ \A i \in Intf : managers[i] = << >>
      /\ \A s \in SockId : ~Live(s)
  BY DEF Init, Live
<1>2. Range(<< >>) = {} /\ IsInjective(<< >>)
  BY DEF Range, IsInjective
<1>3. TypeOK
  <2>1. Len(conn) <= MaxConns
    BY <1>1, TcpAssumption
  <2>2. managers \in [Intf -> Seq(SockId)]
    <3>1. << >> \in Seq(SockId)
      OBVIOUS
    <3>2. QED BY <3>1 DEF Init
  <2>3. sock \in [SockId -> SockRec \cup {NULL, FREED}]
    BY DEF Init
  <2>4. fd_to_sock \in [SockFd -> SockId \cup {NULL}]
    BY DEF Init
  <2>5. fd_conn_to_sock \in [ConnFd -> DOMAIN conn \cup {NULL}] /\ fault \in BOOLEAN
    BY DEF Init
  <2>6. QED BY <1>1, <2>1, <2>2, <2>3, <2>4, <2>5 DEF TypeOK
<1>4. SocketsListed
  <2>1. NULL \notin SockId
    BY TcpAssumption DEF SockId
  <2>2. QED BY <1>1, <1>2, <2>1 DEF Init, SocketsListed
<1>5. QED BY <1>1, <1>3, <1>4 DEF IInv, BoundOK, ParentsOK, ListsOK, ConnsOK

\* Every call keeps the invariant and is a step of the byte stream, or none.
LEMMA NextInv ==
  ASSUME IInv, [Next]_vars
  PROVE  IInv' /\ StreamStep
<1>1. CASE RecvTask
  BY <1>1, TcpInputInv DEF RecvTask
<1>2. ASSUME NEW fd \in SockFd, TcpSocket(fd) \/ TcpClose(fd) \/ TcpListen(fd)
      PROVE  IInv' /\ StreamStep
  <2>1. UNCHANGED conn
    BY <1>2 DEF TcpSocket, TcpClose, TcpListen
  <2>2. QED BY <1>2, <2>1, NewStream, TcpSocketInv, TcpCloseInv, TcpListenInv
<1>3. ASSUME NEW fd \in SockFd, NEW i \in Intf, NEW port \in Port, TcpBind(fd, i, port)
      PROVE  IInv' /\ StreamStep
  <2>1. UNCHANGED conn
    BY <1>3 DEF TcpBind
  <2>2. QED BY <1>3, <2>1, NewStream, TcpBindInv
<1>4. ASSUME NEW fd \in SockFd, NEW connfd \in ConnFd, TcpAccept(fd, connfd)
      PROVE  IInv' /\ StreamStep
  <2>1. UNCHANGED conn
    BY <1>4 DEF TcpAccept
  <2>2. QED BY <1>4, <2>1, NewStream, TcpAcceptInv
<1>5. ASSUME NEW connfd \in ConnFd, NEW size \in Sizes,
             TcpRecv(connfd, size) \/ TcpSend(connfd, size)
      PROVE  IInv' /\ StreamStep
  BY <1>5, TcpRecvInv, TcpSendInv
<1>6. CASE Application
  BY <1>2, <1>3, <1>4, <1>5, <1>6 DEF Application
<1>7. CASE UNCHANGED vars
  <2>1. UNCHANGED conn
    BY <1>7 DEF vars
  <2>2. StreamStep
    BY <2>1, NewStream
  <2>3. QED
    BY <1>7, <2>2 DEF vars, IInv, TypeOK, SocketsListed, BoundOK, ParentsOK, ListsOK, ConnsOK, Live
<1>8. QED BY <1>1, <1>6, <1>7 DEF Next

\* The inductive invariant holds throughout.
THEOREM TcpInvariant == Spec => []IInv
<1>1. Init => IInv
  BY InitInv
<1>2. IInv /\ [Next]_vars => IInv'
  BY NextInv
<1>3. QED BY <1>1, <1>2, PTL DEF Spec

\* Types: in particular snt.nxt and rcv.nxt stay below 2^32, a descriptor of
\* a connection always belongs to one, and no queue holds a byte that is not
\* of the peer's stream.
THEOREM TypesCorrect == Spec => []TypeOK
<1>1. IInv => TypeOK
  BY DEF IInv
<1>2. QED BY <1>1, TcpInvariant, PTL

\* The list of an interface, which tcp_input walks, holds exactly the live
\* sockets bound to it, whatever sequence of tcp_socket, tcp_bind and
\* tcp_close is called.
THEOREM SocketsStayListed == Spec => []SocketsListed
<1>1. IInv => SocketsListed
  BY DEF IInv
<1>2. QED BY <1>1, TcpInvariant, PTL

\* handle_new_connection and close_connection keep every connection of a live
\* socket on exactly one of its two lists, and one open connection per peer.
THEOREM ConnectionsStayListed == Spec => []ConnectionsListed
<1>1. ASSUME IInv PROVE ConnectionsListed
  <2>1. ASSUME NEW s \in SockId, Live(s)
        PROVE  /\ IsInjective(sock[s].conns \o sock[s].closed_conns)
               /\ Range(sock[s].conns \o sock[s].closed_conns) =
                    {c \in DOMAIN conn : conn[c].parent = s}
               /\ \A c, d \in Range(sock[s].conns) : conn[c].peer = conn[d].peer => c = d
    <3> DEFINE a == sock[s].conns
               b == sock[s].closed_conns
    <3>1. a \in Seq(ConnId) /\ b \in Seq(ConnId)
      BY <1>1, <2>1, LiveSock
    <3>2. /\ IsInjective(a) /\ IsInjective(b) /\ Range(a) \cap Range(b) = {}
          /\ Range(a) \cup Range(b) = {c \in DOMAIN conn : conn[c].parent = s}
          /\ \A c, d \in Range(a) : conn[c].peer = conn[d].peer => c = d
      BY <1>1, <2>1 DEF IInv, ListsOK
    <3> HIDE DEF a, b
    <3>3. IsInjective(a \o b) /\ Range(a \o b) = Range(a) \cup Range(b)
      BY <3>1, <3>2, ConcatInjective, RangeConcatenation
    <3>4. QED BY <3>2, <3>3 DEF a, b
  <2>2. QED BY <2>1 DEF ConnectionsListed
<1>2. QED BY <1>1, TcpInvariant, PTL

\* What is read and queued is a prefix of the peer's stream, across the wrap
\* of the sequence numbers, and rcv.nxt is the number after it.
THEOREM StreamStaysInOrder == Spec => []StreamInOrder
<1>1. ASSUME IInv PROVE StreamInOrder
  <2>1. ASSUME NEW c \in DOMAIN conn
        PROVE  /\ \A k \in DOMAIN Received(conn[c]) : Received(conn[c])[k] = k
               /\ conn[c].rcv_nxt \in {SeqNum(conn[c].peer, Len(Received(conn[c])) + 1),
                                       SeqNum(conn[c].peer, Len(Received(conn[c])) + 2)}
    BY <1>1, ConnFacts DEF PrefixOK, ExpectsNext, ExpectsAfterFin
  <2>2. QED BY <2>1 DEF StreamInOrder
<1>2. QED BY <1>1, TcpInvariant, PTL

\* tcp_send, in whatever portions, sends no more than the peer's window.
THEOREM WindowRespected == Spec => []WithinWindow
<1>1. IInv => WithinWindow
  BY DEF IInv, ConnsOK, WindowOK, WithinWindow
<1>2. QED BY <1>1, TcpInvariant, PTL

\* The receiving half implements ByteStream: every call is one arrival, one
\* portion taken, or changes no stream.
THEOREM ImplementsByteStream == Spec => IsByteStream
<1>1. Init => Stream!Init
  <2> SUFFICES ASSUME Init PROVE Stream!Init
    OBVIOUS
  <2>1. DOMAIN conn = {}
    BY DEF Init
  <2>2. QED BY <2>1 DEF Stream!Init, Arrived, Taken
<1>2. IInv /\ [Next]_vars => [Stream!Next]_<<Arrived, Taken>>
  BY NextInv DEF StreamStep
<1>3. QED BY <1>1, <1>2, TcpInvariant, PTL DEF Spec, IsByteStream, Stream!Spec
=============================================================================
