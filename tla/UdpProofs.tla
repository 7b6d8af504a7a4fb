----------------------------- MODULE UdpProofs -----------------------------
(***************************************************************************)
(* Proofs about Udp, for any number of interfaces, ports, sockets and      *)
(* datagrams, and datagrams of any size.                                   *)
(***************************************************************************)
EXTENDS Udp, SequenceLemmas

-----------------------------------------------------------------------------
(* The inductive invariant. *)

DgramRec == [intf : Intf, port : Port, size : Nat, len : Nat]

GotRec == [d : Nat, first : Nat, n : Nat]

TypeOK ==
  /\ fd_to_sock \in [SockFd -> SockId \cup {NULL}]
  /\ sock \in [SockId -> SockRec \cup {NULL, FREED}]
  /\ managers \in [Intf -> Seq(SockId)]
  /\ reading \in SockId \cup {NULL}
  /\ dgram \in Seq(DgramRec) /\ net \subseteq DOMAIN dgram
  /\ arrived \in [SockId -> Seq(Nat)]
  /\ got \in [SockId -> Seq(GotRec)]

\* A socket has an interface exactly when it is bound.
BoundOK == \A s \in SockId : Live(s) => (sock[s].bound <=> sock[s].intf # NULL)

\* A queue entry refers to a datagram of which at most all was pulled.
EntryOK(x, dg) == x.d \in DOMAIN dg /\ x.pulled <= dg[x.d].len

QueuesOK ==
  \A s \in SockId : Live(s) =>
    /\ \A k \in DOMAIN sock[s].rx_skb : EntryOK(sock[s].rx_skb[k], dgram)
    /\ Range(arrived[s]) \subseteq DOMAIN dgram

\* The datagram that udp_recvfrom copied from is still there when it goes on:
\* nobody else takes datagrams off.
ReadingOK == reading # NULL => Live(reading) /\ sock[reading].rx_skb # <<>>

\* A socket starts without history.
FreshOK == \A s \in SockId : sock[s] = NULL => arrived[s] = <<>> /\ got[s] = <<>>

IInv ==
  /\ TypeOK /\ UdpSocketsListed /\ BoundOK /\ QueuesOK /\ ReadingOK /\ FreshOK
  /\ ReadsWhatArrived

-----------------------------------------------------------------------------
(* Bytes. *)

ByteOf == Nat \X Nat

\* Sequences of bytes are put together in any order.
LEMMA Associative ==
  \A u, v, w \in Seq(ByteOf) : (u \o v) \o w = u \o (v \o w)
BY ConcatAssociative

\* The bytes of one piece of a datagram.
LEMMA BytesType ==
  ASSUME NEW d \in Nat, NEW first \in Nat, NEW n \in Nat
  PROVE  /\ Bytes(d, first, n) \in Seq(ByteOf) /\ Len(Bytes(d, first, n)) = n
         /\ \A k \in 1..n : Bytes(d, first, n)[k] = <<d, first + k - 1>>
<1> DEFINE b == Bytes(d, first, n)
<1>1. \A k \in 1..n : first + k - 1 \in Nat
  OBVIOUS
<1>2. b \in [1..n -> ByteOf]
  BY <1>1 DEF Bytes, ByteOf
<1>3. \A k \in 1..n : b[k] = <<d, first + k - 1>>
  BY DEF Bytes
<1> HIDE DEF b
<1>4. QED BY <1>2, <1>3, FunctionSeq DEF b

\* An empty piece.
LEMMA NoBytes ==
  ASSUME NEW d, NEW first
  PROVE  Bytes(d, first, 0) = << >>
BY DEF Bytes

\* A piece is cut in two.
LEMMA BytesSplit ==
  ASSUME NEW d \in Nat, NEW first \in Nat, NEW m \in Nat, NEW n \in 0..m
  PROVE  Bytes(d, first, m) = Bytes(d, first, n) \o Bytes(d, first + n, m - n)
<1> DEFINE a == Bytes(d, first, n)
           b == Bytes(d, first + n, m - n)
           c == Bytes(d, first, m)
<1>0. n \in Nat
  OBVIOUS
<1>1. /\ a \in Seq(ByteOf) /\ Len(a) = n /\ \A k \in 1..n : a[k] = <<d, first + k - 1>>
      /\ c \in Seq(ByteOf) /\ Len(c) = m /\ \A k \in 1..m : c[k] = <<d, first + k - 1>>
  BY <1>0, BytesType
<1>2. /\ b \in Seq(ByteOf) /\ Len(b) = m - n
      /\ \A k \in 1..(m - n) : b[k] = <<d, (first + n) + k - 1>>
  <2> DEFINE l == m - n
             f == first + n
  <2>1. l \in Nat /\ f \in Nat
    OBVIOUS
  <2> HIDE DEF l, f
  <2>2. /\ Bytes(d, f, l) \in Seq(ByteOf) /\ Len(Bytes(d, f, l)) = l
        /\ \A k \in 1..l : Bytes(d, f, l)[k] = <<d, f + k - 1>>
    BY <2>1, BytesType
  <2>3. QED BY <2>2 DEF l, f
<1> HIDE DEF a, b, c
<1>3. /\ a \o b \in Seq(ByteOf) /\ Len(a \o b) = Len(a) + Len(b)
      /\ \A k \in 1..(Len(a) + Len(b)) : (a \o b)[k] = IF k <= Len(a) THEN a[k] ELSE b[k - Len(a)]
  BY <1>1, <1>2, ConcatProperties
<1>4. Len(a \o b) = m
  BY <1>1, <1>2, <1>3
<1>5. ASSUME NEW k \in 1..m PROVE (a \o b)[k] = c[k]
  <2>0. (a \o b)[k] = IF k <= n THEN a[k] ELSE b[k - n]
    <3>1. Len(a) = n /\ Len(a) + Len(b) = m
      BY <1>0, <1>1, <1>2
    <3>2. QED BY <1>3, <3>1
  <2>1. CASE k <= n
    <3>1. k \in 1..n
      BY <2>1, <1>0
    <3>2. QED BY <2>0, <2>1, <3>1, <1>1
  <2>2. CASE ~(k <= n)
    <3>1. k - n \in 1..(m - n) /\ (first + n) + (k - n) - 1 = first + k - 1
      BY <2>2, <1>5
    <3>2. b[k - n] = <<d, first + k - 1>>
      BY <3>1, <1>2
    <3>3. QED BY <2>0, <2>2, <3>2, <1>1, <1>5
  <2>3. QED BY <2>1, <2>2
<1>6. a \o b = c
  BY <1>1, <1>3, <1>4, <1>5, SeqEqual
<1>7. QED BY <1>6 DEF a, b, c

\* A further call.
LEMMA ReturnedAppend ==
  ASSUME NEW g \in Seq(GotRec), NEW x \in GotRec
  PROVE  /\ Returned(g) \in Seq(ByteOf)
         /\ Returned(Append(g, x)) = Returned(g) \o Bytes(x.d, x.first, x.n)
<1> DEFINE F(y) == Bytes(y.d, y.first, y.n)
           mg == [k \in DOMAIN g |-> F(g[k])]
           h  == Append(g, x)
           mh == [k \in DOMAIN h |-> F(h[k])]
<1>1. \A y \in GotRec : F(y) \in Seq(ByteOf)
  BY BytesType DEF GotRec
<1>2. /\ Len(g) \in Nat /\ DOMAIN g = 1..Len(g) /\ \A k \in 1..Len(g) : g[k] \in GotRec
      /\ h \in Seq(GotRec) /\ Len(h) = Len(g) + 1 /\ DOMAIN h = 1..(Len(g) + 1)
      /\ h[Len(g) + 1] = x /\ \A k \in 1..Len(g) : h[k] = g[k]
  BY AppendProperties
<1>3. Returned(g) = FlattenSeq(mg) /\ Returned(h) = FlattenSeq(mh)
  BY DEF Returned
<1> HIDE DEF F, h
<1>4. mg \in Seq(Seq(ByteOf)) /\ Len(mg) = Len(g) /\ \A k \in 1..Len(g) : mg[k] = F(g[k])
  <2>1. mg \in [1..Len(g) -> Seq(ByteOf)]
    BY <1>1, <1>2
  <2>2. QED BY <1>2, <2>1, FunctionSeq
<1>5. mh \in Seq(Seq(ByteOf)) /\ Len(mh) = Len(g) + 1 /\ \A k \in 1..(Len(g) + 1) : mh[k] = F(h[k])
  <2>1. mh \in [1..(Len(g) + 1) -> Seq(ByteOf)]
    BY <1>1, <1>2
  <2>2. Len(g) + 1 \in Nat
    BY <1>2
  <2>3. QED BY <1>2, <2>1, <2>2, FunctionSeq
<1> HIDE DEF mg, mh
<1>6. (\A k \in 1..Len(mg) : mh[k] = mg[k]) /\ mh[Len(mg) + 1] = F(x)
  BY <1>2, <1>4, <1>5
<1>7. FlattenSeq(mg) \in Seq(ByteOf) /\ FlattenSeq(mh) = FlattenSeq(mg) \o F(x)
  BY <1>4, <1>5, <1>6, FlattenType, FlattenLonger
<1>8. QED BY <1>3, <1>7 DEF F, h

SkbRec == [d : Nat, pulled : Nat]

\* What is left of the datagrams of a queue, one by one.
LEMMA LeftPieces ==
  ASSUME NEW dg \in Seq(DgramRec), NEW q \in Seq(SkbRec),
         \A k \in DOMAIN q : EntryOK(q[k], dg)
  PROVE  \E m \in Seq(Seq(ByteOf)) :
           /\ Len(m) = Len(q) /\ \A k \in 1..Len(q) : m[k] = Rest(q[k], dg)
           /\ Left(q, dg) = FlattenSeq(m)
<1> DEFINE m == [k \in DOMAIN q |-> Rest(q[k], dg)]
<1>1. Len(q) \in Nat /\ DOMAIN q = 1..Len(q) /\ \A k \in 1..Len(q) : q[k] \in SkbRec
  BY LenProperties, ElementOfSeq
<1>2. ASSUME NEW k \in 1..Len(q) PROVE Rest(q[k], dg) \in Seq(ByteOf)
  <2> DEFINE x == q[k]
  <2>1. x.d \in Nat /\ x.pulled \in Nat /\ EntryOK(x, dg)
    BY <1>1 DEF SkbRec
  <2> HIDE DEF x
  <2>2. dg[x.d].len \in Nat
    <3>1. dg[x.d] \in DgramRec
      BY <2>1, ElementOfSeq DEF EntryOK
    <3>2. QED BY <3>1 DEF DgramRec
  <2>3. x.pulled + 1 \in Nat /\ dg[x.d].len - x.pulled \in Nat
    BY <2>1, <2>2 DEF EntryOK
  <2>4. Rest(x, dg) \in Seq(ByteOf)
    BY <2>1, <2>3, BytesType DEF Rest
  <2>5. QED BY <2>4 DEF x
<1>3. m \in [1..Len(q) -> Seq(ByteOf)] /\ \A k \in 1..Len(q) : m[k] = Rest(q[k], dg)
  BY <1>1, <1>2
<1>4. Left(q, dg) = FlattenSeq(m)
  BY DEF Left
<1> HIDE DEF m
<1>5. m \in Seq(Seq(ByteOf)) /\ Len(m) = Len(q)
  BY <1>1, <1>3, FunctionSeq
<1>6. QED BY <1>3, <1>4, <1>5

\* The newest and the oldest datagram of a queue, which is given oldest first.
LEMMA LeftEnds ==
  ASSUME NEW dg \in Seq(DgramRec), NEW q \in Seq(SkbRec), NEW x \in SkbRec,
         EntryOK(x, dg), \A k \in DOMAIN q : EntryOK(q[k], dg)
  PROVE  /\ Left(q, dg) \in Seq(ByteOf) /\ Rest(x, dg) \in Seq(ByteOf)
         /\ Left(Append(q, x), dg) = Left(q, dg) \o Rest(x, dg)
         /\ Left(<<x>> \o q, dg) = Rest(x, dg) \o Left(q, dg)
<1> DEFINE a == Append(q, x)
           p == <<x>> \o q
           n == Len(q)
<1>1. n \in Nat /\ DOMAIN q = 1..n
  BY LenProperties
<1>2. /\ a \in Seq(SkbRec) /\ Len(a) = n + 1 /\ DOMAIN a = 1..(n + 1)
      /\ a[n + 1] = x /\ \A k \in 1..n : a[k] = q[k]
  BY AppendProperties
<1>3. /\ p \in Seq(SkbRec) /\ Len(p) = n + 1 /\ DOMAIN p = 1..(n + 1)
      /\ p[1] = x /\ \A k \in 1..n : p[k + 1] = q[k]
  OBVIOUS
<1>4. \A k \in 1..(n + 1) : k # 1 => k - 1 \in 1..n /\ p[k] = q[k - 1]
  <2> HIDE DEF p, n
  <2>1. \A k \in 1..(n + 1) : k # 1 => k - 1 \in 1..n /\ (k - 1) + 1 = k
    BY <1>1
  <2>2. QED BY <1>3, <2>1
<1> HIDE DEF a, p
<1>5. (\A k \in DOMAIN a : EntryOK(a[k], dg)) /\ (\A k \in DOMAIN p : EntryOK(p[k], dg))
  <2> HIDE DEF n
  <2>1. \A k \in 1..(n + 1) : k \in 1..n \/ k = n + 1
    BY <1>1
  <2>2. \A k \in 1..(n + 1) : EntryOK(a[k], dg)
    BY <1>1, <1>2, <2>1
  <2>3. \A k \in 1..(n + 1) : EntryOK(p[k], dg)
    BY <1>1, <1>3, <1>4
  <2>4. QED BY <1>2, <1>3, <2>2, <2>3
<1>6. PICK mq \in Seq(Seq(ByteOf)) :
        /\ Len(mq) = Len(q) /\ \A k \in 1..Len(q) : mq[k] = Rest(q[k], dg)
        /\ Left(q, dg) = FlattenSeq(mq)
  BY LeftPieces
<1>7. PICK ma \in Seq(Seq(ByteOf)) :
        /\ Len(ma) = Len(a) /\ \A k \in 1..Len(a) : ma[k] = Rest(a[k], dg)
        /\ Left(a, dg) = FlattenSeq(ma)
  BY <1>2, <1>5, LeftPieces
<1>8. PICK mp \in Seq(Seq(ByteOf)) :
        /\ Len(mp) = Len(p) /\ \A k \in 1..Len(p) : mp[k] = Rest(p[k], dg)
        /\ Left(p, dg) = FlattenSeq(mp)
  BY <1>3, <1>5, LeftPieces
<1>9. Left(q, dg) \in Seq(ByteOf)
  BY <1>6, FlattenType
<1>10. /\ Len(ma) = Len(mq) + 1 /\ ma[Len(mq) + 1] = Rest(x, dg)
       /\ \A k \in 1..Len(mq) : ma[k] = mq[k]
  BY <1>1, <1>2, <1>6, <1>7
<1>11. /\ Len(mp) = Len(mq) + 1 /\ mp[1] = Rest(x, dg)
       /\ \A k \in 1..Len(mq) : mp[k + 1] = mq[k]
  <2> HIDE DEF n
  <2>1. Len(q) = n /\ 1 \in 1..(n + 1) /\ \A k \in 1..n : k + 1 \in 1..(n + 1)
    BY <1>1 DEF n
  <2>2. QED BY <2>1, <1>3, <1>6, <1>8
<1>12. Rest(x, dg) \in Seq(ByteOf)
  <2>1. ma[Len(mq) + 1] \in Seq(ByteOf)
    BY <1>1, <1>6, <1>10, ElementOfSeq
  <2>2. QED BY <2>1, <1>10
<1>13. Left(a, dg) = Left(q, dg) \o Rest(x, dg)
  BY <1>6, <1>7, <1>10, FlattenLonger
<1>14. Left(p, dg) = Rest(x, dg) \o Left(q, dg)
  BY <1>6, <1>8, <1>11, FlattenLongerInFront
<1>15. QED BY <1>9, <1>12, <1>13, <1>14 DEF a, p

\* Whole datagrams, and one more.
LEMMA WholeAppend ==
  ASSUME NEW dg \in Seq(DgramRec), NEW ds \in Seq(Nat), Range(ds) \subseteq DOMAIN dg,
         NEW d \in DOMAIN dg
  PROVE  /\ Whole(ds, dg) \in Seq(ByteOf)
         /\ Whole(Append(ds, d), dg) = Whole(ds, dg) \o Bytes(d, 1, dg[d].len)
<1> DEFINE F(y) == Bytes(y, 1, dg[y].len)
           mg == [k \in DOMAIN ds |-> F(ds[k])]
           h  == Append(ds, d)
           mh == [k \in DOMAIN h |-> F(h[k])]
           n  == Len(ds)
<1>1. \A y \in DOMAIN dg : F(y) \in Seq(ByteOf) /\ y \in Nat
  <2>1. \A y \in DOMAIN dg : y \in Nat /\ dg[y] \in DgramRec
    BY LenProperties, ElementOfSeq
  <2>2. \A y \in DOMAIN dg : dg[y].len \in Nat
    BY <2>1 DEF DgramRec
  <2>3. QED BY <2>1, <2>2, BytesType
<1>2. /\ n \in Nat /\ DOMAIN ds = 1..n /\ \A k \in 1..n : ds[k] \in DOMAIN dg
      /\ Len(h) = n + 1 /\ DOMAIN h = 1..(n + 1)
      /\ h[n + 1] = d /\ \A k \in 1..n : h[k] = ds[k]
  BY <1>1, AppendProperties DEF Range
<1>3. Whole(ds, dg) = FlattenSeq(mg) /\ Whole(h, dg) = FlattenSeq(mh)
  BY DEF Whole
<1> HIDE DEF F, h, n
<1>4. mg \in Seq(Seq(ByteOf)) /\ Len(mg) = n /\ \A k \in 1..n : mg[k] = F(ds[k])
  <2>1. mg \in [1..n -> Seq(ByteOf)]
    BY <1>1, <1>2
  <2>2. QED BY <1>2, <2>1, FunctionSeq
<1>5. mh \in Seq(Seq(ByteOf)) /\ Len(mh) = n + 1 /\ \A k \in 1..(n + 1) : mh[k] = F(h[k])
  <2>1. \A k \in 1..(n + 1) : h[k] \in DOMAIN dg
    BY <1>2
  <2>2. mh \in [1..(n + 1) -> Seq(ByteOf)]
    BY <1>1, <1>2, <2>1
  <2>3. n + 1 \in Nat
    BY <1>2
  <2>4. QED BY <1>2, <2>2, <2>3, FunctionSeq
<1> HIDE DEF mg, mh
<1>6. (\A k \in 1..Len(mg) : mh[k] = mg[k]) /\ mh[Len(mg) + 1] = F(d)
  BY <1>2, <1>4, <1>5
<1>7. FlattenSeq(mg) \in Seq(ByteOf) /\ FlattenSeq(mh) = FlattenSeq(mg) \o F(d)
  BY <1>4, <1>5, <1>6, FlattenType, FlattenLonger
<1>8. QED BY <1>3, <1>7 DEF F, h

\* Further datagrams change nothing for those that there are.
LEMMA SameDatagrams ==
  ASSUME NEW dg \in Seq(DgramRec), NEW dg2,
         \A d \in DOMAIN dg : d \in DOMAIN dg2 /\ dg2[d] = dg[d],
         NEW q, \A k \in DOMAIN q : EntryOK(q[k], dg), NEW ds, Range(ds) \subseteq DOMAIN dg
  PROVE  Left(q, dg2) = Left(q, dg) /\ Whole(ds, dg2) = Whole(ds, dg)
<1>1. \A k \in DOMAIN q : Rest(q[k], dg2) = Rest(q[k], dg)
  BY DEF Rest, EntryOK
<1>2. \A k \in DOMAIN ds : dg2[ds[k]] = dg[ds[k]]
  BY DEF Range
<1>3. [k \in DOMAIN q |-> Rest(q[k], dg2)] = [k \in DOMAIN q |-> Rest(q[k], dg)]
  BY <1>1
<1>4. [k \in DOMAIN ds |-> Bytes(ds[k], 1, dg2[ds[k]].len)] =
      [k \in DOMAIN ds |-> Bytes(ds[k], 1, dg[ds[k]].len)]
  BY <1>2
<1>5. QED BY <1>3, <1>4 DEF Left, Whole

-----------------------------------------------------------------------------
(* Sockets and their queues. *)

\* Entries are the same in either order.
LEMMA ReverseEntries ==
  ASSUME NEW dg, NEW q \in Seq(SkbRec), \A k \in DOMAIN q : EntryOK(q[k], dg)
  PROVE  /\ Reverse(q) \in Seq(SkbRec)
         /\ \A k \in DOMAIN Reverse(q) : EntryOK(Reverse(q)[k], dg)
<1> DEFINE n == Len(q)
<1>1. n \in Nat /\ DOMAIN q = 1..n /\ \A k \in 1..n : q[k] \in SkbRec
  BY LenProperties, ElementOfSeq
<1>2. Reverse(q) = [k \in 1..n |-> q[n - k + 1]]
  BY DEF Reverse
<1> HIDE DEF n
<1>3. \A k \in 1..n : n - k + 1 \in 1..n
  BY <1>1
<1>4. Reverse(q) \in [1..n -> SkbRec] /\ \A k \in 1..n : Reverse(q)[k] = q[n - k + 1]
  BY <1>1, <1>2, <1>3
<1>5. Reverse(q) \in Seq(SkbRec) /\ DOMAIN Reverse(q) = 1..n
  <2> DEFINE r == Reverse(q)
  <2>1. r \in [1..n -> SkbRec]
    BY <1>4
  <2> HIDE DEF r
  <2>2. r \in Seq(SkbRec) /\ DOMAIN r = 1..n
    BY <1>1, <2>1, FunctionSeq
  <2>3. QED BY <2>2 DEF r
<1>6. QED BY <1>1, <1>3, <1>4, <1>5

\* A record of a live socket.
LEMMA LiveSock ==
  ASSUME IInv, NEW s \in SockId, Live(s)
  PROVE  /\ sock[s] \in SockRec /\ sock[s].rx_skb \in Seq(SkbRec)
         /\ \A k \in DOMAIN sock[s].rx_skb : EntryOK(sock[s].rx_skb[k], dgram)
         /\ Range(arrived[s]) \subseteq DOMAIN dgram
         /\ arrived[s] \in Seq(Nat) /\ got[s] \in Seq(GotRec) /\ dgram \in Seq(DgramRec)
         /\ Returned(got[s]) \o Left(Reverse(sock[s].rx_skb), dgram) = Whole(arrived[s], dgram)
<1>1. sock[s] \in SockRec
  BY DEF IInv, TypeOK, Live
<1>2. sock[s].rx_skb \in Seq(SkbRec)
  BY <1>1 DEF SockRec, SkbRec
<1>3. /\ \A k \in DOMAIN sock[s].rx_skb : EntryOK(sock[s].rx_skb[k], dgram)
      /\ Range(arrived[s]) \subseteq DOMAIN dgram
  BY DEF IInv, QueuesOK
<1>4. arrived[s] \in Seq(Nat) /\ got[s] \in Seq(GotRec) /\ dgram \in Seq(DgramRec)
  BY DEF IInv, TypeOK
<1>5. Returned(got[s]) \o Left(Reverse(sock[s].rx_skb), dgram) = Whole(arrived[s], dgram)
  BY DEF IInv, ReadsWhatArrived
<1>6. QED BY <1>1, <1>2, <1>3, <1>4, <1>5

\* udp_socks_manager_find returns a live socket.
LEMMA FoundSock ==
  ASSUME IInv, NEW i \in Intf, NEW port, UdpSocksManagerFind(i, port) # NULL
  PROVE  UdpSocksManagerFind(i, port) \in SockId /\ Live(UdpSocksManagerFind(i, port))
<1> DEFINE m == managers[i]
           K == {k \in 1..Len(m) : sock[m[k]].local_port = port}
<1>1. m \in Seq(SockId)
  BY DEF IInv, TypeOK
<1>2. PICK k \in 1..Len(m) : UdpSocksManagerFind(i, port) = m[k]
  <2>1. K \in SUBSET Nat
    OBVIOUS
  <2>2. CASE K = {}
    BY <2>2 DEF UdpSocksManagerFind, SelectInSeq
  <2>3. CASE K # {}
    <3>1. Min(K) \in K
      <4> HIDE DEF K
      <4>1. QED BY <2>1, <2>3, MinIsLeast
    <3>2. Min(K) # 0 /\ Min(K) \in 1..Len(m)
      BY <3>1
    <3>3. UdpSocksManagerFind(i, port) = m[Min(K)]
      BY <2>3, <3>2 DEF UdpSocksManagerFind, SelectInSeq
    <3>4. QED BY <3>2, <3>3
  <2>4. QED BY <2>2, <2>3
<1>3. m[k] \in Range(m)
  BY <1>1 DEF Range
<1>4. QED BY <1>2, <1>3 DEF IInv, UdpSocketsListed

\* A step on the queue of one socket.
LEMMA QueueStep ==
  ASSUME IInv, NEW s \in SockId, Live(s), NEW x \in SockRec,
         x.intf = sock[s].intf, x.bound = sock[s].bound, sock' = [sock EXCEPT ![s] = x],
         UNCHANGED <<fd_to_sock, managers, dgram>>, net' \subseteq net,
         NEW a \in Seq(Nat), arrived' = [arrived EXCEPT ![s] = a], Range(a) \subseteq DOMAIN dgram,
         NEW g \in Seq(GotRec), got' = [got EXCEPT ![s] = g],
         \A k \in DOMAIN x.rx_skb : EntryOK(x.rx_skb[k], dgram),
         Returned(g) \o Left(Reverse(x.rx_skb), dgram) = Whole(a, dgram),
         \/ reading' = NULL
         \/ reading' \in SockId /\ reading' = s /\ x.rx_skb # << >>
         \/ reading' = reading /\ x.rx_skb # << >>
  PROVE  IInv'
<1>1. /\ sock \in [SockId -> SockRec \cup {NULL, FREED}]
      /\ arrived \in [SockId -> Seq(Nat)] /\ got \in [SockId -> Seq(GotRec)]
      /\ reading \in SockId \cup {NULL}
  BY DEF IInv, TypeOK
<1>2. /\ sock' \in [SockId -> SockRec \cup {NULL, FREED}]
      /\ sock'[s] = x /\ \A t \in SockId : t # s => sock'[t] = sock[t]
  BY <1>1
<1>3. /\ arrived' \in [SockId -> Seq(Nat)] /\ got' \in [SockId -> Seq(GotRec)]
      /\ arrived'[s] = a /\ \A t \in SockId : t # s => arrived'[t] = arrived[t]
      /\ got'[s] = g /\ \A t \in SockId : t # s => got'[t] = got[t]
  BY <1>1
<1>4. x \notin {NULL, FREED}
  BY RecordAssumption
<1>5. \A t \in SockId : Live(t)' <=> Live(t)
  BY <1>2, <1>4 DEF Live
<1>6. TypeOK'
  <2>1. reading' \in SockId \cup {NULL}
    BY <1>1
  <2>2. QED BY <1>2, <1>3, <2>1 DEF IInv, TypeOK
<1>7. UdpSocketsListed'
  <2>1. \A i \in Intf : {t \in SockId : Live(t)' /\ sock'[t].intf = i} =
                        {t \in SockId : Live(t) /\ sock[t].intf = i}
    BY <1>2, <1>5
  <2>2. QED BY <1>5, <2>1 DEF IInv, UdpSocketsListed
<1>8. BoundOK'
  BY <1>2, <1>5 DEF IInv, BoundOK
<1>9. QueuesOK'
  BY <1>2, <1>3, <1>5 DEF IInv, QueuesOK
<1>10. ReadingOK'
  <2>1. CASE reading' = NULL
    BY <2>1 DEF ReadingOK
  <2>2. CASE reading' \in SockId /\ reading' = s /\ x.rx_skb # << >>
    BY <2>2, <1>2, <1>4 DEF ReadingOK, Live
  <2>3. CASE reading' = reading /\ x.rx_skb # << >>
    <3>1. CASE reading = NULL
      BY <2>3, <3>1 DEF ReadingOK
    <3>2. CASE reading = s
      BY <2>3, <3>2, <1>2, <1>4 DEF ReadingOK, Live
    <3>3. CASE reading # NULL /\ reading # s
      <4>1. reading \in SockId /\ sock'[reading] = sock[reading]
        BY <1>1, <1>2, <3>3
      <4>2. QED BY <2>3, <3>3, <4>1 DEF IInv, ReadingOK, Live
    <3>4. QED BY <3>1, <3>2, <3>3
  <2>4. QED BY <2>1, <2>2, <2>3
<1>11. FreshOK'
  BY <1>2, <1>3, <1>4 DEF IInv, FreshOK
<1>12. ReadsWhatArrived'
  <2>1. ASSUME NEW t \in SockId, Live(t)
        PROVE  Returned(got'[t]) \o Left(Reverse(sock'[t].rx_skb), dgram) = Whole(arrived'[t], dgram)
    <3>1. CASE t = s
      BY <3>1, <1>2, <1>3
    <3>2. CASE t # s
      BY <2>1, <3>2, <1>2, <1>3, LiveSock
    <3>3. QED BY <3>1, <3>2
  <2>2. QED BY <2>1, <1>5 DEF ReadsWhatArrived
<1>13. QED BY <1>6, <1>7, <1>8, <1>9, <1>10, <1>11, <1>12 DEF IInv

-----------------------------------------------------------------------------
(* Receiving. *)

\* udp_input.
LEMMA UdpInputInv ==
  ASSUME IInv, NEW d \in net, UdpInput(d)
  PROVE  IInv'
<1> DEFINE s == UdpSocksManagerFind(dgram[d].intf, dgram[d].port)
           e == [d |-> d, pulled |-> 0]
           q == sock[s].rx_skb
           r == Reverse(q)
           x == [sock[s] EXCEPT !.rx_skb = <<e>> \o @]
           a == Append(arrived[s], d)
<1>1. d \in DOMAIN dgram /\ d \in Nat /\ dgram \in Seq(DgramRec) /\ dgram[d] \in DgramRec
  <2>1. dgram \in Seq(DgramRec) /\ d \in DOMAIN dgram
    BY DEF IInv, TypeOK
  <2>2. QED BY <2>1, LenProperties, ElementOfSeq
<1>2. dgram[d].intf \in Intf /\ dgram[d].len \in Nat
  BY <1>1 DEF DgramRec
<1>3. net' \subseteq net /\ UNCHANGED <<fd_to_sock, managers, reading, dgram, got>>
  BY DEF UdpInput
<1>4. CASE s = NULL
  <2>1. UNCHANGED <<sock, arrived>>
    BY <1>4 DEF UdpInput
  <2>2. QED
    BY <1>3, <2>1 DEF IInv, TypeOK, UdpSocketsListed, BoundOK, QueuesOK, ReadingOK, FreshOK,
                      ReadsWhatArrived, Live
<1>5. CASE s # NULL
  <2>1. s \in SockId /\ Live(s)
    BY <1>2, <1>5, FoundSock
  <2>2. /\ sock' = [sock EXCEPT ![s].rx_skb = <<e>> \o @]
        /\ arrived' = [arrived EXCEPT ![s] = Append(@, d)]
    BY <1>5 DEF UdpInput
  <2> HIDE DEF s
  <2>3. /\ sock[s] \in SockRec /\ q \in Seq(SkbRec)
        /\ \A k \in DOMAIN q : EntryOK(q[k], dgram)
        /\ Range(arrived[s]) \subseteq DOMAIN dgram
        /\ arrived[s] \in Seq(Nat) /\ got[s] \in Seq(GotRec)
        /\ Returned(got[s]) \o Left(r, dgram) = Whole(arrived[s], dgram)
    BY <2>1, LiveSock
  <2>4. e \in SkbRec /\ EntryOK(e, dgram) /\ Rest(e, dgram) = Bytes(d, 1, dgram[d].len)
    <3>1. e.d = d /\ e.pulled = 0 /\ e \in SkbRec /\ 0 + 1 = 1
      BY <1>1 DEF SkbRec
    <3>2. dgram[d].len - 0 = dgram[d].len /\ 0 <= dgram[d].len
      BY <1>2
    <3> HIDE DEF e
    <3>3. QED BY <1>1, <3>1, <3>2 DEF EntryOK, Rest
  <2> HIDE DEF e
  <2>5. /\ <<e>> \o q \in Seq(SkbRec) /\ <<e>> \o q # << >>
        /\ Range(<<e>> \o q) = Range(q) \cup {e}
    <3> HIDE DEF q
    <3>1. QED BY <2>3, <2>4, PrependRange
  <2>6. \A k \in DOMAIN (<<e>> \o q) : EntryOK((<<e>> \o q)[k], dgram)
    <3>1. \A y \in Range(<<e>> \o q) : EntryOK(y, dgram)
      BY <2>3, <2>4, <2>5 DEF Range
    <3>2. QED BY <3>1 DEF Range
  <2>7. /\ x \in SockRec /\ x.intf = sock[s].intf /\ x.bound = sock[s].bound
        /\ x.rx_skb = <<e>> \o q
    BY <2>3, <2>5 DEF SockRec, SkbRec
  <2>8. sock' = [sock EXCEPT ![s] = x]
    BY <2>2
  <2>9. /\ arrived' = [arrived EXCEPT ![s] = a] /\ a \in Seq(Nat)
        /\ Range(a) \subseteq DOMAIN dgram
    <3> DEFINE ar == arrived[s]
    <3>1. ar \in Seq(Nat) /\ Range(ar) \subseteq DOMAIN dgram
      BY <2>3
    <3> HIDE DEF ar
    <3>2. Append(ar, d) \in Seq(Nat) /\ Range(Append(ar, d)) = Range(ar) \cup {d}
      BY <1>1, <3>1, AppendRange
    <3>3. QED BY <1>1, <2>2, <3>1, <3>2 DEF ar
  <2>10. got' = [got EXCEPT ![s] = got[s]]
    BY <1>3, <2>1 DEF IInv, TypeOK
  <2>11. Returned(got[s]) \o Left(Reverse(<<e>> \o q), dgram) = Whole(a, dgram)
    <3> DEFINE u == Returned(got[s])
               l == Left(r, dgram)
               b == Rest(e, dgram)
               w == Whole(arrived[s], dgram)
    <3>1. Reverse(<<e>> \o q) = Append(r, e)
      <4> HIDE DEF q
      <4>1. QED BY <2>3, <2>4, ReversePrepend
    <3>2. r \in Seq(SkbRec) /\ \A k \in DOMAIN r : EntryOK(r[k], dgram)
      <4> HIDE DEF q
      <4>1. QED BY <2>3, ReverseEntries
    <3>3. /\ l \in Seq(ByteOf) /\ b \in Seq(ByteOf) /\ Left(Append(r, e), dgram) = l \o b
      <4> HIDE DEF r
      <4>1. QED BY <1>1, <2>4, <3>2, LeftEnds
    <3>4. Whole(a, dgram) = w \o b
      BY <1>1, <2>3, <2>4, WholeAppend
    <3>5. u \in Seq(ByteOf)
      <4>1. [d |-> 0, first |-> 0, n |-> 0] \in GotRec
        BY DEF GotRec
      <4>2. QED BY <2>3, <4>1, ReturnedAppend
    <3>6. w = u \o l
      BY <2>3
    <3> HIDE DEF u, l, b, w
    <3>7. (u \o l) \o b = u \o (l \o b)
      BY <3>3, <3>5, Associative
    <3>8. QED BY <3>1, <3>3, <3>4, <3>6, <3>7 DEF u
  <2> HIDE DEF x, a, q
  <2>12. /\ x.rx_skb # << >> /\ \A k \in DOMAIN x.rx_skb : EntryOK(x.rx_skb[k], dgram)
         /\ Returned(got[s]) \o Left(Reverse(x.rx_skb), dgram) = Whole(a, dgram)
    BY <2>5, <2>6, <2>7, <2>11
  <2>13. PICK g \in Seq(GotRec) : g = got[s]
    BY <2>3
  <2>14. QED
    BY <1>3, <2>1, <2>7, <2>8, <2>9, <2>10, <2>12, <2>13, QueueStep
<1>6. QED BY <1>4, <1>5

\* The oldest datagram and the others.
LEMMA OldestEntry ==
  ASSUME IInv, NEW s \in SockId, Live(s), sock[s].rx_skb # << >>
  PROVE  LET q   == sock[s].rx_skb
             skb == Last(q)
             fr  == Front(q)
         IN  /\ q = Append(fr, skb) /\ fr \in Seq(SkbRec) /\ skb \in SkbRec
             /\ q[Len(q)] = skb /\ Len(q) \in DOMAIN q
             /\ EntryOK(skb, dgram) /\ \A k \in DOMAIN fr : EntryOK(fr[k], dgram)
             /\ dgram[skb.d].len \in Nat /\ skb.d \in Nat /\ skb.pulled \in Nat
             /\ skb.pulled <= dgram[skb.d].len
<1> DEFINE q   == sock[s].rx_skb
           skb == Last(q)
           fr  == Front(q)
<1>1. q \in Seq(SkbRec) /\ (\A k \in DOMAIN q : EntryOK(q[k], dgram)) /\ dgram \in Seq(DgramRec)
  BY LiveSock
<1>2. q # << >>
  OBVIOUS
<1> HIDE DEF q
<1>3. /\ fr \in Seq(SkbRec) /\ skb \in SkbRec
      /\ Len(q) \in Nat /\ Len(q) >= 1 /\ Len(fr) = Len(q) - 1
      /\ \A k \in 1..(Len(q) - 1) : fr[k] = q[k]
      /\ q = Append(fr, skb)
  BY <1>1, <1>2, FrontLast
<1>4. Len(q) \in 1..Len(q) /\ DOMAIN q = 1..Len(q) /\ DOMAIN fr = 1..(Len(q) - 1)
  BY <1>1, <1>3, LenProperties
<1>5. q[Len(q)] = skb
  BY DEF Last
<1> HIDE DEF skb, fr
<1>6. EntryOK(skb, dgram) /\ \A k \in DOMAIN fr : EntryOK(fr[k], dgram)
  <2>1. \A k \in 1..(Len(q) - 1) : k \in 1..Len(q)
    BY <1>3
  <2>2. QED BY <1>1, <1>3, <1>4, <1>5, <2>1
<1>7. dgram[skb.d].len \in Nat
  <2>1. dgram[skb.d] \in DgramRec
    BY <1>1, <1>6, ElementOfSeq DEF EntryOK
  <2>2. QED BY <2>1 DEF DgramRec
<1>8. skb.d \in Nat /\ skb.pulled \in Nat /\ skb.pulled <= dgram[skb.d].len
  BY <1>3, <1>6 DEF SkbRec, EntryOK
<1>9. QED BY <1>3, <1>4, <1>5, <1>6, <1>7, <1>8 DEF q, skb, fr

\* Pulling n bytes off the oldest datagram, in terms of bytes.
LEMMA PulledOK ==
  ASSUME NEW dg \in Seq(DgramRec), NEW fr \in Seq(SkbRec), NEW skb \in SkbRec,
         EntryOK(skb, dg), \A k \in DOMAIN fr : EntryOK(fr[k], dg), dg[skb.d].len \in Nat,
         NEW n \in 0..(dg[skb.d].len - skb.pulled),
         NEW y \in SkbRec, y.d = skb.d, y.pulled = skb.pulled + n
  PROVE  /\ EntryOK(y, dg)
         /\ Left(Reverse(Append(fr, y)), dg) \in Seq(ByteOf)
         /\ Bytes(skb.d, skb.pulled + 1, n) \in Seq(ByteOf)
         /\ Left(Reverse(Append(fr, skb)), dg) =
              Bytes(skb.d, skb.pulled + 1, n) \o Left(Reverse(Append(fr, y)), dg)
<1> DEFINE r == Reverse(fr)
           b == Bytes(skb.d, skb.pulled + 1, n)
           p == skb.pulled
           len == dg[skb.d].len
<1>1. skb.d \in Nat /\ p \in Nat /\ len \in Nat /\ n \in Nat /\ p + n <= len /\ p + n \in Nat
  BY DEF SkbRec
<1>2. y \in SkbRec /\ y.d = skb.d /\ y.pulled = p + n
  OBVIOUS
<1>3. EntryOK(y, dg)
  BY <1>1, <1>2 DEF EntryOK
<1>4. r \in Seq(SkbRec) /\ \A k \in DOMAIN r : EntryOK(r[k], dg)
  BY ReverseEntries
<1>5. Reverse(Append(fr, y)) = <<y>> \o r /\ Reverse(Append(fr, skb)) = <<skb>> \o r
  BY <1>2, ReversePrepend
<1> HIDE DEF r
<1>6. /\ Left(r, dg) \in Seq(ByteOf) /\ Rest(y, dg) \in Seq(ByteOf)
      /\ Left(<<y>> \o r, dg) = Rest(y, dg) \o Left(r, dg)
      /\ Left(<<skb>> \o r, dg) = Rest(skb, dg) \o Left(r, dg)
  BY <1>2, <1>3, <1>4, LeftEnds
<1>7. b \in Seq(ByteOf)
  <2>1. p + 1 \in Nat
    BY <1>1
  <2>2. QED BY <1>1, <2>1, BytesType
<1>8. Rest(skb, dg) = b \o Rest(y, dg)
  <2> DEFINE f == p + 1
             m == len - p
  <2>1. f \in Nat /\ m \in Nat /\ n \in 0..m /\ f + n = (p + n) + 1 /\ m - n = len - (p + n)
    <3>1. \A P, L, k \in Nat : P + k <= L =>
             /\ P + 1 \in Nat /\ L - P \in Nat /\ k \in 0..(L - P)
             /\ (P + 1) + k = (P + k) + 1 /\ (L - P) - k = L - (P + k)
      OBVIOUS
    <3> HIDE DEF p, len
    <3>2. QED BY <1>1, <3>1
  <2>2. Rest(skb, dg) = Bytes(skb.d, f, m) /\ b = Bytes(skb.d, f, n)
    BY DEF Rest
  <2> HIDE DEF f, m, b
  <2>3. Bytes(skb.d, f, m) = Bytes(skb.d, f, n) \o Bytes(skb.d, f + n, m - n)
    <3> DEFINE d == skb.d
    <3>1. d \in Nat
      BY <1>1
    <3> HIDE DEF d
    <3>2. Bytes(d, f, m) = Bytes(d, f, n) \o Bytes(d, f + n, m - n)
      BY <3>1, <2>1, BytesSplit
    <3>3. QED BY <3>2 DEF d
  <2>4. Rest(y, dg) = Bytes(skb.d, f + n, m - n)
    BY <1>2, <2>1 DEF Rest
  <2>5. QED BY <2>2, <2>3, <2>4
<1>9. Left(Reverse(Append(fr, skb)), dg) = b \o Left(Reverse(Append(fr, y)), dg)
  <2> DEFINE l == Left(r, dg)
             z == Rest(y, dg)
  <2>1. l \in Seq(ByteOf) /\ z \in Seq(ByteOf)
    BY <1>6
  <2> HIDE DEF l, z, b
  <2>2. (b \o z) \o l = b \o (z \o l)
    BY <1>7, <2>1, Associative
  <2>3. QED BY <1>5, <1>6, <1>8, <2>2 DEF l, z
<1>10. Left(Reverse(Append(fr, y)), dg) \in Seq(ByteOf)
  BY <1>5, <1>6, ConcatProperties
<1>11. QED BY <1>2, <1>3, <1>7, <1>9, <1>10

\* The first step of udp_recvfrom.
LEMMA UdpRecvfromInv ==
  ASSUME IInv, NEW fd \in SockFd, NEW size \in Sizes, reading = NULL, UdpRecvfrom(fd, size)
  PROVE  IInv'
<1> DEFINE s   == fd_to_sock[fd]
           q   == sock[s].rx_skb
           skb == Last(q)
           fr  == Front(q)
           len == dgram[skb.d].len
           n   == MinOf(len - skb.pulled, size)
           y   == [skb EXCEPT !.pulled = @ + n]
           q2  == Append(fr, y)
           x   == [sock[s] EXCEPT !.rx_skb = q2]
           c   == [d |-> skb.d, first |-> skb.pulled + 1, n |-> n]
<1>1. /\ IsBoundSock(fd) /\ q # << >>
      /\ sock' = [sock EXCEPT ![s].rx_skb[Len(q)].pulled = @ + n]
      /\ got' = IF n = 0 THEN got ELSE [got EXCEPT ![s] = Append(@, c)]
      /\ reading' = s /\ UNCHANGED <<fd_to_sock, managers, dgram, net, arrived>>
  BY DEF UdpRecvfrom
<1>2. s \in SockId /\ Live(s)
  BY <1>1 DEF IInv, TypeOK, UdpSocketsListed, IsBoundSock, IsGoodUdpSock
<1>3. /\ sock[s] \in SockRec /\ q \in Seq(SkbRec)
      /\ Range(arrived[s]) \subseteq DOMAIN dgram
      /\ arrived[s] \in Seq(Nat) /\ got[s] \in Seq(GotRec) /\ dgram \in Seq(DgramRec)
      /\ Returned(got[s]) \o Left(Reverse(q), dgram) = Whole(arrived[s], dgram)
  BY <1>2, LiveSock
<1>4. /\ q = Append(fr, skb) /\ fr \in Seq(SkbRec) /\ skb \in SkbRec
      /\ q[Len(q)] = skb /\ Len(q) \in DOMAIN q
      /\ EntryOK(skb, dgram) /\ \A k \in DOMAIN fr : EntryOK(fr[k], dgram)
      /\ len \in Nat /\ skb.d \in Nat /\ skb.pulled \in Nat
      /\ skb.pulled <= len
  BY <1>1, <1>2, OldestEntry
<1> HIDE DEF s
<1>5. n \in 0..(len - skb.pulled) /\ n \in Nat
  <2>1. size \in Nat
    BY UdpAssumption
  <2> HIDE DEF skb
  <2>2. QED BY <1>4, <2>1 DEF MinOf
<1> HIDE DEF n
<1>6. /\ y \in SkbRec /\ y.d = skb.d /\ y.pulled = skb.pulled + n /\ EntryOK(y, dgram)
      /\ Left(Reverse(q2), dgram) \in Seq(ByteOf)
      /\ Bytes(skb.d, skb.pulled + 1, n) \in Seq(ByteOf)
      /\ Left(Reverse(Append(fr, skb)), dgram) =
           Bytes(skb.d, skb.pulled + 1, n) \o Left(Reverse(q2), dgram)
  <2> HIDE DEF skb, fr
  <2>1. /\ dgram \in Seq(DgramRec) /\ fr \in Seq(SkbRec) /\ skb \in SkbRec
        /\ EntryOK(skb, dgram) /\ (\A k \in DOMAIN fr : EntryOK(fr[k], dgram))
        /\ dgram[skb.d].len \in Nat /\ n \in 0..(dgram[skb.d].len - skb.pulled)
    BY <1>3, <1>4, <1>5
  <2>2. y \in SkbRec /\ y.d = skb.d /\ y.pulled = skb.pulled + n
    BY <1>4, <1>5 DEF SkbRec
  <2> HIDE DEF y
  <2>3. QED BY <2>1, <2>2, PulledOK
<1>7. /\ q2 \in Seq(SkbRec) /\ q2 # << >> /\ q2 = [q EXCEPT ![Len(q)] = y]
      /\ \A k \in DOMAIN q2 : EntryOK(q2[k], dgram)
  <2> HIDE DEF y, fr, skb, q
  <2>1. Len(fr) \in Nat /\ DOMAIN fr = 1..Len(fr)
    BY <1>4, LenProperties
  <2>2. /\ q2 \in Seq(SkbRec) /\ Len(q2) = Len(fr) + 1 /\ DOMAIN q2 = 1..(Len(fr) + 1)
        /\ q2[Len(fr) + 1] = y /\ \A k \in 1..Len(fr) : q2[k] = fr[k]
    BY <1>4, <1>6, AppendProperties
  <2>3. /\ Len(q) = Len(fr) + 1 /\ \A k \in 1..Len(fr) : q[k] = fr[k]
    BY <1>4, AppendProperties
  <2> HIDE DEF q2
  <2>4. \A k \in 1..(Len(fr) + 1) : k \in 1..Len(fr) \/ k = Len(fr) + 1
    BY <2>1
  <2>5. \A k \in DOMAIN q2 : EntryOK(q2[k], dgram)
    BY <1>4, <1>6, <2>1, <2>2, <2>4
  <2>6. q2 = [q EXCEPT ![Len(q)] = y]
    <3> DEFINE z == [q EXCEPT ![Len(q)] = y]
    <3>1. Len(q) \in 1..Len(q)
      BY <1>3, <1>4, LenProperties
    <3>2. z \in Seq(SkbRec) /\ Len(z) = Len(q) /\ z[Len(q)] = y
          /\ \A k \in 1..Len(q) : k # Len(q) => z[k] = q[k]
      BY <1>3, <1>6, <3>1, ExceptSeq
    <3> HIDE DEF z
    <3>3. \A k \in 1..Len(z) : z[k] = q2[k]
      BY <2>1, <2>2, <2>3, <2>4, <3>2
    <3>4. z = q2
      BY <2>2, <2>3, <3>2, <3>3, SeqEqual
    <3>5. QED BY <3>4 DEF z
  <2>7. q2 # << >>
    BY <2>1, <2>2
  <2>8. QED BY <2>2, <2>5, <2>6, <2>7
<1>8. sock' = [sock EXCEPT ![s] = x]
  <2>1. y = [q[Len(q)] EXCEPT !.pulled = q[Len(q)].pulled + n]
    BY <1>4
  <2>2. sock \in [SockId -> SockRec \cup {NULL, FREED}]
    BY DEF IInv, TypeOK
  <2>3. x = [sock[s] EXCEPT !.rx_skb = [q EXCEPT ![Len(q)] = y]]
    BY <1>7
  <2> HIDE DEF y, q2, skb, x
  <2>4. QED BY <1>1, <2>1, <2>3
<1>9. /\ x \in SockRec /\ x.intf = sock[s].intf /\ x.bound = sock[s].bound /\ x.rx_skb = q2
  <2> HIDE DEF q2
  <2>1. QED BY <1>3, <1>7 DEF SockRec, SkbRec
<1>10. PICK a \in Seq(Nat) : /\ a = arrived[s] /\ arrived' = [arrived EXCEPT ![s] = a]
  BY <1>1, <1>2, <1>3 DEF IInv, TypeOK
<1>11. PICK g \in Seq(GotRec) :
         /\ got' = [got EXCEPT ![s] = g]
         /\ Returned(g) \o Left(Reverse(q2), dgram) = Whole(a, dgram)
  <2> DEFINE u == Returned(got[s])
             b == Bytes(skb.d, skb.pulled + 1, n)
             l == Left(Reverse(q2), dgram)
  <2>1. c \in GotRec /\ c.d = skb.d /\ c.first = skb.pulled + 1 /\ c.n = n
    <3> HIDE DEF skb
    <3>1. QED BY <1>4, <1>5 DEF GotRec
  <2>2. u \in Seq(ByteOf) /\ Returned(Append(got[s], c)) = u \o b
    <3> HIDE DEF c
    <3>1. QED BY <1>3, <2>1, ReturnedAppend
  <2>3. Append(got[s], c) \in Seq(GotRec)
    <3> HIDE DEF c
    <3>1. QED BY <1>3, <2>1, AppendProperties
  <2>4. u \o (b \o l) = Whole(a, dgram)
    BY <1>3, <1>4, <1>6, <1>10
  <2>5. b \in Seq(ByteOf) /\ l \in Seq(ByteOf)
    BY <1>6
  <2>6. CASE n = 0
    <3>1. b = << >>
      <4> HIDE DEF skb
      <4>1. QED BY <2>6, NoBytes
    <3>2. b \o l = l
      <4> HIDE DEF b, l
      <4>1. QED BY <2>5, <3>1, ConcatEmptySeq
    <3>3. got' = [got EXCEPT ![s] = got[s]]
      BY <1>1, <1>2, <2>6 DEF IInv, TypeOK
    <3> HIDE DEF b, l
    <3>4. QED BY <1>3, <2>4, <3>2, <3>3 DEF l
  <2>7. CASE n # 0
    <3>1. got' = [got EXCEPT ![s] = Append(got[s], c)]
      BY <1>1, <2>7
    <3> HIDE DEF u, b, l, c
    <3>2. (u \o b) \o l = u \o (b \o l)
      BY <2>2, <2>5, Associative
    <3>3. QED BY <2>2, <2>3, <2>4, <3>1, <3>2 DEF l
  <2>8. QED BY <2>6, <2>7
<1> HIDE DEF q2, x
<1>12. /\ x.rx_skb # << >> /\ \A k \in DOMAIN x.rx_skb : EntryOK(x.rx_skb[k], dgram)
       /\ Returned(g) \o Left(Reverse(x.rx_skb), dgram) = Whole(a, dgram)
       /\ Range(a) \subseteq DOMAIN dgram
  BY <1>3, <1>7, <1>9, <1>10, <1>11
<1>13. QED
  BY <1>1, <1>2, <1>8, <1>9, <1>10, <1>11, <1>12, QueueStep

\* The second step: a datagram that is used up is taken off.
LEMMA UdpRecvfromDelInv ==
  ASSUME IInv, reading # NULL, UdpRecvfromDel
  PROVE  IInv'
<1> DEFINE s   == reading
           q   == sock[s].rx_skb
           skb == Last(q)
           fr  == Front(q)
           len == dgram[skb.d].len
           x   == [sock[s] EXCEPT !.rx_skb = fr]
<1>1. /\ sock' = IF skb.pulled = len THEN [sock EXCEPT ![s].rx_skb = fr] ELSE sock
      /\ reading' = NULL /\ UNCHANGED <<fd_to_sock, managers, dgram, net, arrived, got>>
  BY DEF UdpRecvfromDel
<1>2. s \in SockId /\ Live(s) /\ q # << >>
  BY DEF IInv, TypeOK, ReadingOK
<1>3. CASE skb.pulled # len
  <2>1. sock' = sock
    BY <1>1, <1>3
  <2>2. /\ TypeOK' /\ ReadingOK'
    BY <1>1, <2>1 DEF IInv, TypeOK, ReadingOK
  <2>3. UdpSocketsListed' /\ BoundOK' /\ QueuesOK' /\ FreshOK' /\ ReadsWhatArrived'
    BY <1>1, <2>1 DEF IInv, UdpSocketsListed, BoundOK, QueuesOK, FreshOK, ReadsWhatArrived, Live
  <2>4. QED BY <2>2, <2>3 DEF IInv
<1>4. CASE skb.pulled = len
  <2>1. /\ sock[s] \in SockRec /\ q \in Seq(SkbRec)
        /\ Range(arrived[s]) \subseteq DOMAIN dgram
        /\ arrived[s] \in Seq(Nat) /\ got[s] \in Seq(GotRec) /\ dgram \in Seq(DgramRec)
        /\ Returned(got[s]) \o Left(Reverse(q), dgram) = Whole(arrived[s], dgram)
    BY <1>2, LiveSock
  <2>2. /\ q = Append(fr, skb) /\ fr \in Seq(SkbRec) /\ skb \in SkbRec
        /\ EntryOK(skb, dgram) /\ \A k \in DOMAIN fr : EntryOK(fr[k], dgram)
        /\ len \in Nat /\ skb.d \in Nat /\ skb.pulled \in Nat
    BY <1>2, OldestEntry
  <2>3. /\ x \in SockRec /\ x.intf = sock[s].intf /\ x.bound = sock[s].bound /\ x.rx_skb = fr
    <3> HIDE DEF fr
    <3>1. QED BY <2>1, <2>2 DEF SockRec, SkbRec
  <2>4. sock' = [sock EXCEPT ![s] = x]
    <3> HIDE DEF fr, skb
    <3>1. QED BY <1>1, <1>4
  <2>5. Left(Reverse(q), dgram) = Left(Reverse(fr), dgram)
    <3> DEFINE r == Reverse(fr)
               b == Rest(skb, dgram)
    <3> HIDE DEF q, fr, skb
    <3>1. r \in Seq(SkbRec) /\ (\A k \in DOMAIN r : EntryOK(r[k], dgram)) /\ Reverse(q) = <<skb>> \o r
      BY <2>2, ReverseEntries, ReversePrepend
    <3> HIDE DEF r
    <3>2. Left(r, dgram) \in Seq(ByteOf) /\ Left(<<skb>> \o r, dgram) = b \o Left(r, dgram)
      BY <2>1, <2>2, <3>1, LeftEnds
    <3>3. b = << >>
      <4>1. len - skb.pulled = 0
        BY <1>4, <2>2
      <4>2. QED BY <4>1, NoBytes DEF Rest
    <3> HIDE DEF b
    <3>4. QED BY <3>1, <3>2, <3>3, ConcatEmptySeq DEF r
  <2>6. PICK a \in Seq(Nat) : /\ a = arrived[s] /\ arrived' = [arrived EXCEPT ![s] = a]
    BY <1>1, <1>2, <2>1 DEF IInv, TypeOK
  <2>7. PICK g \in Seq(GotRec) : /\ g = got[s] /\ got' = [got EXCEPT ![s] = g]
    BY <1>1, <1>2, <2>1 DEF IInv, TypeOK
  <2> HIDE DEF x
  <2>8. /\ \A k \in DOMAIN x.rx_skb : EntryOK(x.rx_skb[k], dgram)
        /\ Returned(g) \o Left(Reverse(x.rx_skb), dgram) = Whole(a, dgram)
        /\ Range(a) \subseteq DOMAIN dgram
    BY <2>1, <2>2, <2>3, <2>5, <2>6, <2>7
  <2>9. QED BY <1>1, <1>2, <2>3, <2>4, <2>6, <2>7, <2>8, QueueStep
<1>5. QED BY <1>3, <1>4

-----------------------------------------------------------------------------
(* Sending. *)

\* A datagram leaves.
LEMMA UdpOutInv ==
  ASSUME IInv, NEW d \in DgramRec, UdpOut(d), UNCHANGED reading
  PROVE  IInv'
<1> DEFINE n == Len(dgram)
<1>1. /\ dgram' = Append(dgram, d) /\ net' = net \cup {n + 1}
      /\ UNCHANGED <<fd_to_sock, sock, managers, arrived, got>>
  BY DEF UdpOut
<1>2. dgram \in Seq(DgramRec) /\ n \in Nat /\ DOMAIN dgram = 1..n /\ net \subseteq DOMAIN dgram
  BY DEF IInv, TypeOK
<1>3. /\ dgram' \in Seq(DgramRec) /\ DOMAIN dgram' = 1..(n + 1)
      /\ \A k \in 1..n : dgram'[k] = dgram[k]
  BY <1>1, <1>2, AppendProperties
<1> HIDE DEF n
<1>4. \A k \in DOMAIN dgram : k \in DOMAIN dgram' /\ dgram'[k] = dgram[k]
  BY <1>2, <1>3
<1>5. TypeOK'
  <2>1. net' \subseteq DOMAIN dgram'
    BY <1>1, <1>2, <1>3, <1>4
  <2>2. QED BY <1>1, <1>3, <2>1 DEF IInv, TypeOK
<1>6. QueuesOK'
  <2>1. \A x : EntryOK(x, dgram) => EntryOK(x, dgram')
    BY <1>4 DEF EntryOK
  <2>2. QED BY <1>1, <1>4, <2>1 DEF IInv, QueuesOK, Live
<1>7. ReadsWhatArrived'
  <2>1. ASSUME NEW s \in SockId, Live(s)
        PROVE  Returned(got[s]) \o Left(Reverse(sock[s].rx_skb), dgram') = Whole(arrived[s], dgram')
    <3> DEFINE r == Reverse(sock[s].rx_skb)
    <3>1. (\A k \in DOMAIN r : EntryOK(r[k], dgram)) /\ Range(arrived[s]) \subseteq DOMAIN dgram
      BY <2>1, LiveSock, ReverseEntries
    <3>2. Returned(got[s]) \o Left(r, dgram) = Whole(arrived[s], dgram)
      BY <2>1, LiveSock
    <3> HIDE DEF r
    <3>3. Left(r, dgram') = Left(r, dgram) /\ Whole(arrived[s], dgram') = Whole(arrived[s], dgram)
      BY <1>2, <1>4, <3>1, SameDatagrams
    <3>4. QED BY <3>2, <3>3 DEF r
  <2>2. QED BY <1>1, <2>1 DEF ReadsWhatArrived, Live
<1>8. UdpSocketsListed' /\ BoundOK' /\ ReadingOK' /\ FreshOK'
  BY <1>1 DEF IInv, UdpSocketsListed, BoundOK, ReadingOK, FreshOK, Live
<1>9. QED BY <1>5, <1>6, <1>7, <1>8 DEF IInv

\* udp_sendto cuts the datagram to the largest payload.
LEMMA UdpSendtoInv ==
  ASSUME IInv, NEW fd \in SockFd, NEW size \in Sizes, NEW i \in Intf, NEW port \in Port,
         UdpSendto(fd, size, i, port), UNCHANGED reading
  PROVE  IInv'
<1> DEFINE n == MinOf(size, MAX_UDP_PAYLOAD)
           d == [intf |-> i, port |-> port, size |-> n, len |-> Padded(n)]
<1>1. n \in Nat
  BY UdpAssumption DEF MinOf
<1>2. UdpOut(d)
  BY DEF UdpSendto
<1> HIDE DEF n
<1>3. Padded(n) \in Nat
  BY <1>1, UdpAssumption DEF Padded
<1>4. d \in DgramRec
  BY <1>1, <1>3 DEF DgramRec
<1> HIDE DEF d
<1>5. QED BY <1>2, <1>4, UdpOutInv

\* Another host sends a datagram of any size.
LEMMA HostSendsInv ==
  ASSUME IInv, NEW i \in Intf, NEW port \in Port, NEW size \in HostSizes,
         HostSends(i, port, size), UNCHANGED reading
  PROVE  IInv'
<1> DEFINE d == [intf |-> i, port |-> port, size |-> size, len |-> size]
<1>1. UdpOut(d)
  BY DEF HostSends
<1>2. d \in DgramRec
  BY UdpAssumption DEF DgramRec
<1> HIDE DEF d
<1>3. QED BY <1>1, <1>2, UdpOutInv

-----------------------------------------------------------------------------
(* The application's calls on sockets. *)

\* A call that touches no queue: a new socket has none.
LEMMA SameQueues ==
  ASSUME IInv, reading' = NULL, UNCHANGED <<dgram, net, arrived, got>>,
         \A t \in SockId : sock[t] # NULL => sock'[t] # NULL,
         \A t \in SockId : Live(t)' =>
           \/ Live(t) /\ sock'[t].rx_skb = sock[t].rx_skb
           \/ sock[t] = NULL /\ sock'[t].rx_skb = << >>
  PROVE  QueuesOK' /\ ReadingOK' /\ FreshOK' /\ ReadsWhatArrived'
<1>1. ReadingOK' /\ FreshOK'
  BY DEF IInv, ReadingOK, FreshOK
<1>2. Range(<< >>) = {} /\ DOMAIN << >> = {} /\ Reverse(<< >>) = << >>
  BY DEF Range, Reverse
<1>3. Returned(<< >>) = << >> /\ Left(<< >>, dgram) = << >> /\ Whole(<< >>, dgram) = << >>
  BY DEF Returned, Left, Whole, FlattenSeq
<1>4. << >> \o << >> = << >>
  OBVIOUS
<1>5. ASSUME NEW t \in SockId, Live(t)'
      PROVE  /\ \A k \in DOMAIN sock'[t].rx_skb : EntryOK(sock'[t].rx_skb[k], dgram)
             /\ Range(arrived[t]) \subseteq DOMAIN dgram
             /\ Returned(got[t]) \o Left(Reverse(sock'[t].rx_skb), dgram) = Whole(arrived[t], dgram)
  <2>1. CASE Live(t) /\ sock'[t].rx_skb = sock[t].rx_skb
    BY <2>1, LiveSock
  <2>2. CASE sock[t] = NULL /\ sock'[t].rx_skb = << >>
    <3>1. arrived[t] = << >> /\ got[t] = << >>
      BY <2>2 DEF IInv, FreshOK
    <3>2. QED BY <2>2, <3>1, <1>2, <1>3, <1>4
  <2>3. QED BY <1>5, <2>1, <2>2
<1>6. QueuesOK' /\ ReadsWhatArrived'
  BY <1>5 DEF QueuesOK, ReadsWhatArrived
<1>7. QED BY <1>1, <1>6

\* udp_socket.
LEMMA UdpSocketInv ==
  ASSUME IInv, reading = NULL, reading' = NULL, NEW fd \in SockFd, UdpSocket(fd)
  PROVE  IInv'
<1>1. fd_to_sock[fd] = NULL /\ UNCHANGED <<managers, dgram, net, arrived, got>>
  BY DEF UdpSocket
<1>2. PICK s \in SockId : /\ sock[s] = NULL
                          /\ sock' = [sock EXCEPT ![s] = NewSock]
                          /\ fd_to_sock' = [fd_to_sock EXCEPT ![fd] = s]
  BY DEF UdpSocket
<1>3. /\ fd_to_sock \in [SockFd -> SockId \cup {NULL}]
      /\ sock \in [SockId -> SockRec \cup {NULL, FREED}]
  BY DEF IInv, TypeOK
<1>4. NewSock \in SockRec /\ NewSock \notin {NULL, FREED}
  <2>1. NewSock \in SockRec
    BY DEF NewSock, SockRec
  <2>2. QED BY <2>1, RecordAssumption
<1>5. /\ sock' \in [SockId -> SockRec \cup {NULL, FREED}]
      /\ sock'[s] = NewSock /\ \A t \in SockId : t # s => sock'[t] = sock[t]
  BY <1>2, <1>3, <1>4
<1>6. /\ fd_to_sock' \in [SockFd -> SockId \cup {NULL}]
      /\ fd_to_sock'[fd] = s /\ \A k \in SockFd : k # fd => fd_to_sock'[k] = fd_to_sock[k]
  BY <1>2, <1>3
<1>7. /\ NewSock.intf = NULL /\ NewSock.bound = FALSE /\ NewSock.rx_skb = << >>
  BY DEF NewSock
<1>8. /\ \A t \in SockId : Live(t)' <=> Live(t) \/ t = s
      /\ ~Live(s)
  BY <1>2, <1>4, <1>5 DEF Live
<1>9. TypeOK'
  BY <1>1, <1>5, <1>6 DEF IInv, TypeOK
<1>10. UdpSocketsListed'
  <2>1. NULL \notin Intf /\ NULL \notin SockId
    BY UdpAssumption DEF SockId
  <2>2. \A i \in Intf : {t \in SockId : Live(t)' /\ sock'[t].intf = i} =
                        {t \in SockId : Live(t) /\ sock[t].intf = i}
    BY <1>5, <1>7, <1>8, <2>1
  <2>3. \A t \in SockId : (\E k \in SockFd : fd_to_sock'[k] = t) <=>
                          t = s \/ \E k \in SockFd : fd_to_sock[k] = t
    BY <1>1, <1>6, <2>1
  <2>4. \A t \in SockId : Live(t)' <=> \E k \in SockFd : fd_to_sock'[k] = t
    BY <1>8, <2>3 DEF IInv, UdpSocketsListed
  <2>5. ~\E k \in SockFd : fd_to_sock[k] = s
    BY <1>8 DEF IInv, UdpSocketsListed
  <2>6. \A k, l \in SockFd : fd_to_sock'[k] = fd_to_sock'[l] => k = l \/ fd_to_sock'[k] = NULL
    BY <1>6, <2>5 DEF IInv, UdpSocketsListed
  <2>7. QED BY <1>1, <2>2, <2>4, <2>6 DEF IInv, UdpSocketsListed
<1>11. BoundOK'
  BY <1>5, <1>7, <1>8 DEF IInv, BoundOK
<1>12. QueuesOK' /\ ReadingOK' /\ FreshOK' /\ ReadsWhatArrived'
  <2>1. \A t \in SockId : sock[t] # NULL => sock'[t] # NULL
    BY <1>2, <1>5
  <2>2. QED BY <1>1, <1>2, <1>5, <1>7, <1>8, <2>1, SameQueues
<1>13. QED BY <1>9, <1>10, <1>11, <1>12 DEF IInv

\* udp_close.
LEMMA UdpCloseInv ==
  ASSUME IInv, reading = NULL, reading' = NULL, NEW fd \in SockFd, UdpClose(fd)
  PROVE  IInv'
<1> DEFINE s == fd_to_sock[fd]
           i == sock[s].intf
<1>1. /\ s # NULL /\ fd_to_sock' = [fd_to_sock EXCEPT ![fd] = NULL]
      /\ managers' = IF sock[s].bound THEN [managers EXCEPT ![i] = RemoveFirst(@, s)]
                                      ELSE managers
      /\ sock' = [sock EXCEPT ![s] = FREED]
      /\ UNCHANGED <<dgram, net, arrived, got>>
  BY DEF UdpClose, IsGoodUdpSock
<1>2. /\ fd_to_sock \in [SockFd -> SockId \cup {NULL}]
      /\ sock \in [SockId -> SockRec \cup {NULL, FREED}]
      /\ managers \in [Intf -> Seq(SockId)]
  BY DEF IInv, TypeOK
<1>3. s \in SockId /\ Live(s)
  BY <1>1, <1>2 DEF IInv, UdpSocketsListed
<1>4. /\ sock[s] \in SockRec /\ i \in Intf \cup {NULL} /\ sock[s].bound <=> i # NULL
  BY <1>3, LiveSock DEF SockRec, IInv, BoundOK
<1> HIDE DEF s
<1>5. /\ sock' \in [SockId -> SockRec \cup {NULL, FREED}]
      /\ sock'[s] = FREED /\ \A t \in SockId : t # s => sock'[t] = sock[t]
  BY <1>1, <1>2, <1>3
<1>6. /\ fd_to_sock' \in [SockFd -> SockId \cup {NULL}]
      /\ fd_to_sock'[fd] = NULL /\ \A k \in SockFd : k # fd => fd_to_sock'[k] = fd_to_sock[k]
  BY <1>1, <1>2
<1>7. \A t \in SockId : Live(t)' <=> Live(t) /\ t # s
  BY <1>5 DEF Live
<1>8. NULL \notin Intf /\ NULL \notin SockId /\ NULL # FREED
  BY UdpAssumption DEF SockId
<1>9. \A j \in Intf : /\ managers'[j] \in Seq(SockId) /\ IsInjective(managers'[j])
                      /\ Range(managers'[j]) = Range(managers[j]) \ {s}
  <2>1. ASSUME NEW j \in Intf
        PROVE  /\ managers'[j] \in Seq(SockId) /\ IsInjective(managers'[j])
               /\ Range(managers'[j]) = Range(managers[j]) \ {s}
    <3>1. /\ managers[j] \in Seq(SockId) /\ IsInjective(managers[j])
          /\ Range(managers[j]) = {t \in SockId : Live(t) /\ sock[t].intf = j}
      BY <1>2 DEF IInv, UdpSocketsListed
    <3>2. CASE i = j
      <4>1. managers'[j] = RemoveFirst(managers[j], s)
        BY <1>1, <1>2, <1>4, <1>8, <3>2
      <4>2. QED BY <3>1, <4>1, RemoveFirstRange
    <3>3. CASE i # j
      <4>1. managers'[j] = managers[j]
        BY <1>1, <1>2, <3>3
      <4>2. s \notin Range(managers[j])
        BY <3>1, <3>3
      <4>3. QED BY <3>1, <4>1, <4>2
    <3>4. QED BY <3>2, <3>3
  <2>2. QED BY <2>1
<1>10. managers' \in [Intf -> Seq(SockId)]
  <2>1. DOMAIN managers' = Intf /\ managers' = [j \in DOMAIN managers' |-> managers'[j]]
    BY <1>1, <1>2
  <2>2. QED BY <1>9, <2>1
<1>11. TypeOK'
  BY <1>1, <1>5, <1>6, <1>10 DEF IInv, TypeOK
<1>12. UdpSocketsListed'
  <2>1. \A j \in Intf : Range(managers'[j]) = {t \in SockId : Live(t)' /\ sock'[t].intf = j}
    BY <1>5, <1>7, <1>9 DEF IInv, UdpSocketsListed
  <2>2. fd_to_sock[fd] = s
    BY DEF s
  <2>3. \A t \in SockId : Live(t)' <=> \E k \in SockFd : fd_to_sock'[k] = t
    BY <1>1, <1>6, <1>7, <1>8, <2>2 DEF IInv, UdpSocketsListed
  <2>4. \A k, l \in SockFd : fd_to_sock'[k] = fd_to_sock'[l] => k = l \/ fd_to_sock'[k] = NULL
    BY <1>6 DEF IInv, UdpSocketsListed
  <2>5. QED BY <1>9, <2>1, <2>3, <2>4 DEF UdpSocketsListed
<1>13. BoundOK'
  BY <1>5, <1>7 DEF IInv, BoundOK
<1>14. QueuesOK' /\ ReadingOK' /\ FreshOK' /\ ReadsWhatArrived'
  <2>1. \A t \in SockId : sock[t] # NULL => sock'[t] # NULL
    BY <1>5, <1>8
  <2>2. QED BY <1>1, <1>5, <1>7, <2>1, SameQueues
<1>15. QED BY <1>11, <1>12, <1>13, <1>14 DEF IInv

\* udp_bind puts the socket on the list of the interface.
LEMMA UdpBindInv ==
  ASSUME IInv, reading = NULL, reading' = NULL, NEW fd \in SockFd, NEW i \in Intf, NEW port \in Port, UdpBind(fd, i, port)
  PROVE  IInv'
<1> DEFINE s == fd_to_sock[fd]
           x == [sock[s] EXCEPT !.bound = TRUE, !.intf = i, !.local_port = port]
<1>1. /\ s # NULL /\ ~sock[s].bound
      /\ sock' = [sock EXCEPT ![s].bound = TRUE, ![s].intf = i, ![s].local_port = port]
      /\ managers' = [managers EXCEPT ![i] = <<s>> \o @]
      /\ UNCHANGED <<fd_to_sock, dgram, net, arrived, got>>
  BY DEF UdpBind, IsGoodUdpSock
<1>2. /\ fd_to_sock \in [SockFd -> SockId \cup {NULL}]
      /\ sock \in [SockId -> SockRec \cup {NULL, FREED}]
      /\ managers \in [Intf -> Seq(SockId)]
  BY DEF IInv, TypeOK
<1>3. s \in SockId /\ Live(s)
  BY <1>1, <1>2 DEF IInv, UdpSocketsListed
<1>4. sock[s] \in SockRec /\ sock[s].intf = NULL
  BY <1>1, <1>3, LiveSock DEF IInv, BoundOK
<1> HIDE DEF s
<1>5. /\ x \in SockRec /\ x.bound = TRUE /\ x.intf = i /\ x.rx_skb = sock[s].rx_skb
  BY <1>4 DEF SockRec
<1>6. x \notin {NULL, FREED}
  BY <1>5, RecordAssumption
<1>7. sock' = [sock EXCEPT ![s] = x]
  BY <1>1
<1> HIDE DEF x
<1>8. /\ sock' \in [SockId -> SockRec \cup {NULL, FREED}]
      /\ sock'[s] = x /\ \A t \in SockId : t # s => sock'[t] = sock[t]
  BY <1>2, <1>3, <1>5, <1>7
<1>9. \A t \in SockId : Live(t)' <=> Live(t)
  BY <1>3, <1>6, <1>8 DEF Live
<1>10. NULL \notin Intf
  BY UdpAssumption
<1>11. s \notin Range(managers[i])
  BY <1>4, <1>10 DEF IInv, UdpSocketsListed
<1>12. /\ <<s>> \o managers[i] \in Seq(SockId) /\ IsInjective(<<s>> \o managers[i])
       /\ Range(<<s>> \o managers[i]) = Range(managers[i]) \cup {s}
  <2>1. managers[i] \in Seq(SockId) /\ IsInjective(managers[i])
    BY <1>2 DEF IInv, UdpSocketsListed
  <2>2. QED BY <1>3, <1>11, <2>1, PrependRange, PrependInjective
<1>13. /\ managers' \in [Intf -> Seq(SockId)] /\ managers'[i] = <<s>> \o managers[i]
       /\ \A j \in Intf : j # i => managers'[j] = managers[j]
  BY <1>1, <1>2, <1>12
<1>14. TypeOK'
  BY <1>1, <1>8, <1>13 DEF IInv, TypeOK
<1>15. UdpSocketsListed'
  <2>1. ASSUME NEW j \in Intf
        PROVE  /\ IsInjective(managers'[j])
               /\ Range(managers'[j]) = {t \in SockId : Live(t)' /\ sock'[t].intf = j}
    <3>1. CASE j = i
      <4>1. {t \in SockId : Live(t)' /\ sock'[t].intf = i} =
            {t \in SockId : Live(t) /\ sock[t].intf = i} \cup {s}
        BY <1>3, <1>5, <1>8, <1>9
      <4>2. QED BY <3>1, <4>1, <1>12, <1>13 DEF IInv, UdpSocketsListed
    <3>2. CASE j # i
      <4>1. {t \in SockId : Live(t)' /\ sock'[t].intf = j} =
            {t \in SockId : Live(t) /\ sock[t].intf = j}
        BY <3>2, <1>4, <1>5, <1>8, <1>9, <1>10
      <4>2. QED BY <3>2, <4>1, <1>13 DEF IInv, UdpSocketsListed
    <3>3. QED BY <3>1, <3>2
  <2>2. QED BY <1>1, <1>9, <2>1 DEF IInv, UdpSocketsListed
<1>16. BoundOK'
  BY <1>5, <1>8, <1>9, <1>10 DEF IInv, BoundOK
<1>17. QueuesOK' /\ ReadingOK' /\ FreshOK' /\ ReadsWhatArrived'
  <2>1. \A t \in SockId : sock[t] # NULL => sock'[t] # NULL
    BY <1>6, <1>8
  <2>2. QED BY <1>1, <1>5, <1>8, <1>9, <2>1, SameQueues
<1>18. QED BY <1>14, <1>15, <1>16, <1>17 DEF IInv

-----------------------------------------------------------------------------
(* The theorems. *)

\* The invariant holds when the node starts.
LEMMA InitInv == Init => IInv
<1> SUFFICES ASSUME Init PROVE IInv
  OBVIOUS
<1>1. /\ dgram = << >> /\ DOMAIN dgram = {} /\ net = {} /\ dgram \in Seq(DgramRec)
      /\ \A i \in Intf : managers[i] = << >>
      /\ \A s \in SockId : ~Live(s)
  BY DEF Init, Live
<1>2. Range(<< >>) = {} /\ IsInjective(<< >>)
  BY DEF Range, IsInjective
<1>3. TypeOK
  <2>1. managers \in [Intf -> Seq(SockId)]
    <3>1. << >> \in Seq(SockId)
      OBVIOUS
    <3>2. QED BY <3>1 DEF Init
  <2>2. sock \in [SockId -> SockRec \cup {NULL, FREED}]
    BY DEF Init
  <2>3. fd_to_sock \in [SockFd -> SockId \cup {NULL}] /\ reading \in SockId \cup {NULL}
    BY DEF Init
  <2>4. arrived \in [SockId -> Seq(Nat)]
    <3>1. << >> \in Seq(Nat)
      OBVIOUS
    <3>2. QED BY <3>1 DEF Init
  <2>5. got \in [SockId -> Seq(GotRec)]
    <3>1. << >> \in Seq(GotRec)
      OBVIOUS
    <3>2. QED BY <3>1 DEF Init
  <2>6. QED BY <1>1, <2>1, <2>2, <2>3, <2>4, <2>5 DEF TypeOK
<1>4. UdpSocketsListed
  <2>1. NULL \notin SockId
    BY UdpAssumption DEF SockId
  <2>2. QED BY <1>1, <1>2, <2>1 DEF Init, UdpSocketsListed
<1>5. BoundOK /\ QueuesOK /\ ReadsWhatArrived
  BY <1>1 DEF BoundOK, QueuesOK, ReadsWhatArrived
<1>6. ReadingOK /\ FreshOK
  BY DEF Init, ReadingOK, FreshOK
<1>7. QED BY <1>3, <1>4, <1>5, <1>6 DEF IInv

\* Every step of the application, of recv_task and of another host keeps it.
LEMMA NextInv ==
  ASSUME IInv, [Next]_vars
  PROVE  IInv'
<1>1. CASE RecvTask
  BY <1>1, UdpInputInv DEF RecvTask
<1>2. CASE Host
  BY <1>2, HostSendsInv DEF Host
<1>3. CASE RecvDel
  BY <1>3, UdpRecvfromDelInv DEF RecvDel
<1>4. ASSUME NEW fd \in SockFd, Recv(fd)
      PROVE  IInv'
  BY <1>4, UdpRecvfromInv DEF Recv
<1>5. ASSUME NEW fd \in SockFd, Call(fd)
      PROVE  IInv'
  <2>1. reading = NULL /\ reading' = NULL
    BY <1>5 DEF Call
  <2>2. CASE UdpSocket(fd) \/ UdpClose(fd)
    BY <2>1, <2>2, UdpSocketInv, UdpCloseInv
  <2>3. ASSUME NEW i \in Intf, NEW port \in Port,
               UdpBind(fd, i, port) \/ \E size \in Sizes : UdpSendto(fd, size, i, port)
        PROVE  IInv'
    BY <2>1, <2>3, UdpBindInv, UdpSendtoInv
  <2>4. QED BY <1>5, <2>2, <2>3 DEF Call
<1>6. CASE UNCHANGED vars
  BY <1>6 DEF vars, IInv, TypeOK, UdpSocketsListed, BoundOK, QueuesOK, ReadingOK, FreshOK,
              ReadsWhatArrived, Live
<1>7. QED BY <1>1, <1>2, <1>3, <1>4, <1>5, <1>6 DEF Next

\* The inductive invariant holds throughout.
THEOREM UdpInvariant == Spec => []IInv
<1>1. Init => IInv
  BY InitInv
<1>2. IInv /\ [Next]_vars => IInv'
  BY NextInv
<1>3. QED BY <1>1, <1>2, PTL DEF Spec

\* The list of an interface, which udp_input walks, holds exactly the live
\* sockets bound to it, whatever sequence of udp_socket, udp_bind and
\* udp_close is called.
THEOREM UdpSocketsStayListed == Spec => []UdpSocketsListed
<1>1. IInv => UdpSocketsListed
  BY DEF IInv
<1>2. QED BY <1>1, UdpInvariant, PTL

\* Whatever udp_input queues between the two halves of udp_recvfrom, and
\* however the calls cut the datagrams, no byte is lost, doubled or moved, as
\* long as no list_add runs beside a list_del on rx_skb.
THEOREM NothingLostInTheQueue == Spec => []ReadsWhatArrived
<1>1. IInv => ReadsWhatArrived
  BY DEF IInv
<1>2. QED BY <1>1, UdpInvariant, PTL
=============================================================================
