-------------------------- MODULE FoundationProofs --------------------------
(***************************************************************************)
(* What lies under the protocols does what they expect, for every size:    *)
(* the linked list (LinkedList) is a sequence, the routing table           *)
(* (RouteTable) finds the longest prefix, the checksum (Checksum) is the   *)
(* one of the standard, and the packet buffers (Skbuff) stay within their  *)
(* allocation.                                                             *)
(***************************************************************************)
EXTENDS LinkedList, RouteTable, Checksum, Skbuff, SequenceLemmas, FiniteSetTheorems

-----------------------------------------------------------------------------
(***************************************************************************)
(* THE LINKED LIST (list.h)                                                *)
(***************************************************************************)

\* The i-th cell of a ring: the base, then the elements of s, then the base.
At(s, i) == IF i \in 1..Len(s) THEN s[i] ELSE Base

Forward(f, s) == \A i \in 0..Len(s) : f[At(s, i)] = At(s, i + 1)

\* All back pointers but the one of the cell at gap.
Backward(f, s, gap) ==
  \A i \in 1..(Len(s) + 1) : i # gap => f[At(s, i)] = At(s, i - 1)

Ring(s) == s \in Seq(Element) /\ IsInjective(s)

\* f does what the recursive function of Chain does.
Walks(w, f, N) ==
  w = [k \in 0..N |-> IF k = 0 THEN f[Base]
                      ELSE IF w[k - 1] \in Element THEN f[w[k - 1]] ELSE Base]

TheWalk(f) ==
  CHOOSE w : w = [k \in 0..Cardinality(Element) |->
                    IF k = 0 THEN f[Base]
                    ELSE IF w[k - 1] \in Element THEN f[w[k - 1]] ELSE Base]

\* The cells of a ring.
LEMMA AtFacts ==
  ASSUME NEW s \in Seq(Element)
  PROVE  /\ Len(s) \in Nat /\ DOMAIN s = 1..Len(s)
         /\ At(s, 0) = Base /\ At(s, Len(s) + 1) = Base
         /\ \A i \in 1..Len(s) : At(s, i) = s[i] /\ s[i] \in Element
         /\ \A i : At(s, i) \in Cell
BY LinkedListAssumption DEF At, Cell

\* No cell is on the ring twice.
LEMMA AtDistinct ==
  ASSUME NEW s, Ring(s)
  PROVE  /\ \A i, j \in 0..Len(s) : At(s, i) = At(s, j) => i = j
         /\ \A i, j \in 1..(Len(s) + 1) : At(s, i) = At(s, j) => i = j
<1>1. s \in Seq(Element) /\ \A i, j \in 1..Len(s) : s[i] = s[j] => i = j
  BY AtFacts DEF Ring, IsInjective
<1>2. QED BY <1>1, AtFacts, LinkedListAssumption

\* A ring has at most as many elements as there are.
LEMMA RingLength ==
  ASSUME NEW s, Ring(s)
  PROVE  Cardinality(Element) \in Nat /\ Len(s) <= Cardinality(Element)
<1>1. IsFiniteSet(Element)
  BY LinkedListAssumption
<1>2. s \in Seq(Element) /\ Len(s) \in Nat /\ DOMAIN s = 1..Len(s)
  BY AtFacts DEF Ring
<1>3. s \in Injection(1..Len(s), Element)
  BY <1>2 DEF Injection, Ring, IsInjective
<1>4. Cardinality(1..Len(s)) <= Cardinality(Element)
  BY <1>1, <1>3, FS_Injection
<1>5. Cardinality(1..Len(s)) = Len(s)
  BY <1>2, FS_Interval
<1>6. Cardinality(Element) \in Nat
  BY <1>1, FS_CardinalityType
<1>7. QED BY <1>4, <1>5, <1>6

\* The definition, without its LET.
LEMMA ChainExpand ==
  ASSUME NEW f
  PROVE  Chain(f) = [k \in 1..Min({j \in 0..Cardinality(Element) : TheWalk(f)[j] \notin Element}
                                     \cup {Cardinality(Element)}) |-> TheWalk(f)[k - 1]]
BY DEF Chain, TheWalk

\* The recursive function of Chain is defined.
LEMMA WalkExists ==
  ASSUME NEW f \in [Cell -> Cell \cup {NULL}], NEW N \in Nat
  PROVE  \E w : Walks(w, f, N)
<1> DEFINE X == Cell \cup {NULL}
           turn == [c \in X |-> IF c \in Element THEN f[c] ELSE Base]
           step == [i \in 1..N |-> turn]
<1>1. Base \in Cell /\ Element \subseteq Cell /\ f[Base] \in X
  BY DEF Cell
<1>2. turn \in [X -> X]
  BY <1>1
<1>3. \A c \in X : turn[c] = IF c \in Element THEN f[c] ELSE Base
  OBVIOUS
<1> HIDE DEF turn, X
<1>4. step \in [1..N -> [X -> X]] /\ \A i \in 1..N : step[i] = turn
  BY <1>2
<1> HIDE DEF step
<1>5. \E w : LoopValues(w, X, f[Base], N, step)
  BY <1>1, <1>4, LoopDef
<1>6. PICK w : LoopValues(w, X, f[Base], N, step)
  BY <1>5
<1>7. w \in [0..N -> X] /\ w[0] = f[Base] /\ \A i \in 1..N : w[i] = step[i][w[i - 1]]
  BY <1>6 DEF LoopValues
<1>8. ASSUME NEW k \in 0..N
      PROVE  w[k] = IF k = 0 THEN f[Base]
                    ELSE IF w[k - 1] \in Element THEN f[w[k - 1]] ELSE Base
  <2>1. CASE k = 0
    BY <2>1, <1>7
  <2>2. CASE k # 0
    <3>1. k \in 1..N /\ k - 1 \in 0..N
      BY <2>2
    <3>2. w[k] = turn[w[k - 1]] /\ w[k - 1] \in X
      BY <3>1, <1>4, <1>7
    <3>3. QED BY <3>2, <1>3, <2>2
  <2>3. QED BY <2>1, <2>2
<1>9. Walks(w, f, N)
  BY <1>7, <1>8 DEF Walks
<1>10. QED BY <1>9

\* Chain reads off the elements of a ring.
LEMMA ChainIs ==
  ASSUME NEW f \in [Cell -> Cell \cup {NULL}], NEW s, Ring(s), Forward(f, s)
  PROVE  Chain(f) = s
<1> DEFINE N == Cardinality(Element)
           w == TheWalk(f)
           n == Len(s)
           T == {k \in 0..N : w[k] \notin Element} \cup {N}
           end == Min(T)
<1>1. Chain(f) = [k \in 1..end |-> w[k - 1]]
  BY ChainExpand
<1>2. N \in Nat /\ n <= N
  BY RingLength
<1>3. n \in Nat /\ s \in Seq(Element) /\ DOMAIN s = 1..n
  BY AtFacts DEF Ring
<1>4. Walks(w, f, N)
  <2>1. \E v : Walks(v, f, N)
    BY <1>2, WalkExists
  <2>2. QED BY <2>1, Zenon DEF TheWalk, Walks
<1> HIDE DEF n, N, w, end
<1>5. /\ w[0] = f[Base]
      /\ \A k \in 1..N : w[k] = IF w[k - 1] \in Element THEN f[w[k - 1]] ELSE Base
  BY <1>2, <1>4 DEF Walks
<1>6. /\ At(s, 0) = Base /\ At(s, n + 1) = Base /\ Base \notin Element
      /\ \A i \in 1..n : At(s, i) = s[i] /\ s[i] \in Element
      /\ \A i \in 0..n : f[At(s, i)] = At(s, i + 1)
  BY <1>3, AtFacts, LinkedListAssumption DEF Forward, n
<1>7. \A k \in 0..n : w[k] = At(s, k + 1)
  <2> DEFINE U == {k \in 0..n : w[k] # At(s, k + 1)}
  <2>1. SUFFICES ASSUME U # {} PROVE FALSE
    OBVIOUS
  <2>2. PICK k \in U : \A j \in U : k <= j
    <3>1. U \in SUBSET Nat
      BY <1>3
    <3> HIDE DEF U
    <3>2. QED BY <2>1, <3>1, LeastNat
  <2>3. CASE k = 0
    BY <2>3, <1>3, <1>5, <1>6
  <2>4. CASE k # 0
    <3>1. k \in 1..N /\ k \in 1..n /\ k - 1 \in 0..n /\ k - 1 < k /\ (k - 1) + 1 = k /\ k \in 0..n
      BY <2>4, <1>2, <1>3
    <3>2. w[k - 1] = At(s, k)
      BY <3>1, <2>2
    <3>3. w[k] = f[At(s, k)]
      BY <3>1, <3>2, <1>5, <1>6
    <3>4. QED BY <3>1, <3>3, <1>6
  <2>5. QED BY <2>3, <2>4
<1>8. end = n
  <2>1. T \in SUBSET Nat /\ T # {} /\ end = Min(T)
    BY <1>2 DEF end
  <2>2. end \in T /\ \A y \in T : end <= y
    <3> HIDE DEF T
    <3>1. QED BY <2>1, MinIsLeast
  <2>3. n \in T
    BY <1>2, <1>3, <1>6, <1>7
  <2>4. ASSUME NEW k \in T, k < n PROVE FALSE
    <3>1. k \in 0..n /\ k # N /\ k + 1 \in 1..n
      BY <2>4, <1>2, <1>3
    <3>2. w[k] \in Element
      BY <3>1, <1>6, <1>7
    <3>3. QED BY <3>1, <3>2
  <2>5. QED BY <2>1, <2>2, <2>3, <2>4, <1>3
<1>9. \A k \in 1..n : w[k - 1] = s[k]
  <2>1. SUFFICES ASSUME NEW k \in 1..n PROVE w[k - 1] = s[k]
    OBVIOUS
  <2>2. k - 1 \in 0..n /\ (k - 1) + 1 = k
    BY <1>3
  <2>3. QED BY <2>2, <1>6, <1>7
<1>10. s = [k \in 1..n |-> s[k]]
  BY <1>3
<1>11. QED BY <1>1, <1>8, <1>9, <1>10
-----------------------------------------------------------------------------
(* The invariant, about the sequence s of the elements on the list. *)

Label == {"idle", "add_next", "add_link", "add_back", "walk", "del_next", "del_prev", "look"}

ListTyped ==
  /\ next \in [Cell -> Cell \cup {NULL}] /\ prev \in [Cell -> Cell \cup {NULL}]
  /\ pc \in [Thread -> Label]
  /\ pc["adder"] \in {"idle", "add_next", "add_link", "add_back"}
  /\ pc["taker"] \in {"idle", "walk", "del_next", "del_prev"}
  /\ pc["walker"] \in {"idle", "look"}
  /\ freed \subseteq Element /\ cur \in Cell

\* The taker works alone.
TakerWorksAlone == pc["taker"] # "idle" => pc["adder"] = "idle" /\ pc["walker"] = "idle"

AdderOK(s) ==
  /\ pc["adder"] \in {"add_next", "add_link"} =>
       new \in Element /\ new \notin freed /\ new \notin Range(s) /\ prev[new] = Base
  /\ pc["adder"] = "add_link" => next[new] = next[Base]
  /\ pc["adder"] = "add_back" => s # <<>> /\ At(s, 1) = new /\ prev[At(s, 2)] = Base
                                  /\ Backward(prev, s, 2)

\* pos has left the ring at place p, and its successor still points back to it.
Unlinked(s, p) ==
  /\ Backward(prev, s, p)
  /\ prev[pos] = At(s, p - 1) /\ next[pos] = At(s, p)
  /\ tmp # NULL => p = 1 /\ tmp = next[pos]

TakerOK(s) ==
  /\ pc["taker"] = "walk" => pos = At(s, 1) /\ tmp = next[pos]
  /\ pc["taker"] = "del_next" => pos \in Range(s) /\ (tmp # NULL => pos = At(s, 1) /\ tmp = next[pos])
  /\ pc["taker"] = "del_prev" =>
       /\ pos \in Element /\ pos \notin freed /\ pos \notin Range(s)
       /\ \E p \in 1..(Len(s) + 1) : Unlinked(s, p)

\* What the walker still has to see is ahead of it.
Ahead(s, c) ==
  cur = At(s, c) /\ \A e \in due : e \in seen \/ \E j \in 1..Len(s) : c <= j /\ s[j] = e

WalkerOK(s) == pc["walker"] = "look" => \E c \in 1..(Len(s) + 1) : Ahead(s, c)

RingOK(s) ==
  /\ Ring(s) /\ Range(s) \cap freed = {}
  /\ Forward(next, s)
  /\ pc["adder"] # "add_back" /\ pc["taker"] # "del_prev" => Backward(prev, s, 0)

ListOK(s) == RingOK(s) /\ AdderOK(s) /\ TakerOK(s) /\ WalkerOK(s)

Kept(s) == ListTyped /\ TakerWorksAlone /\ ListOK(s)

\* No thread is at work beside the taker.
TakerAlone == \A group \in Concurrent : "taker" \in group => group \subseteq {"taker"}

-----------------------------------------------------------------------------
\* The elements on the list are the cells between the base and the base.
LEMMA RangeAt ==
  ASSUME NEW s \in Seq(Element), NEW e
  PROVE  e \in Range(s) <=> \E i \in 1..Len(s) : s[i] = e /\ At(s, i) = e
BY AtFacts DEF Range

\* A cell that is neither the base nor on the list is at no place.
LEMMA OffRing ==
  ASSUME NEW s \in Seq(Element), NEW e \in Element, e \notin Range(s)
  PROVE  \A i \in 0..(Len(s) + 1) : At(s, i) # e
<1>1. ASSUME NEW i \in 0..(Len(s) + 1), At(s, i) = e PROVE FALSE
  <2>1. i \in 1..Len(s)
    BY <1>1, AtFacts, LinkedListAssumption
  <2>2. QED BY <2>1, <1>1, RangeAt, AtFacts
<1>2. QED BY <1>1

\* Storing in such a cell leaves the ring alone.
LEMMA OffRingStore ==
  ASSUME NEW f \in [Cell -> Cell \cup {NULL}], NEW s \in Seq(Element), NEW e \in Element,
         e \notin Range(s), NEW v
  PROVE  /\ Forward(f, s) => Forward([f EXCEPT ![e] = v], s)
         /\ \A gap : Backward(f, s, gap) => Backward([f EXCEPT ![e] = v], s, gap)
<1> DEFINE g == [f EXCEPT ![e] = v]
<1>1. \A c \in Cell : c # e => g[c] = f[c]
  BY DEF Cell
<1>2. \A i \in 0..(Len(s) + 1) : g[At(s, i)] = f[At(s, i)]
  BY <1>1, OffRing, AtFacts
<1> HIDE DEF g
<1>3. Len(s) \in Nat
  BY AtFacts
<1>4. Forward(f, s) => Forward(g, s)
  BY <1>2, <1>3 DEF Forward
<1>5. ASSUME NEW gap, Backward(f, s, gap) PROVE Backward(g, s, gap)
  BY <1>2, <1>3, <1>5 DEF Backward
<1>6. QED BY <1>4, <1>5 DEF g

\* A ring with an element in front.
LEMMA Prepended ==
  ASSUME NEW s, Ring(s), NEW e \in Element, e \notin Range(s)
  PROVE  /\ Ring(<<e>> \o s) /\ Len(<<e>> \o s) = Len(s) + 1
         /\ Range(<<e>> \o s) = Range(s) \cup {e}
         /\ At(<<e>> \o s, 0) = Base /\ At(<<e>> \o s, 1) = e
         /\ \A i \in 1..(Len(s) + 1) : At(<<e>> \o s, i + 1) = At(s, i)
         /\ \A i \in 1..Len(s) : (<<e>> \o s)[i + 1] = s[i]
<1> DEFINE t == <<e>> \o s
<1>1. s \in Seq(Element) /\ Len(s) \in Nat
  BY AtFacts DEF Ring
<1>2. t \in Seq(Element) /\ Len(t) = Len(s) + 1 /\ t[1] = e /\ \A i \in 1..Len(s) : t[i + 1] = s[i]
  BY <1>1
<1>3. Range(t) = Range(s) \cup {e}
  BY <1>1, PrependRange
<1>4. Ring(t)
  BY <1>1, <1>2, PrependInjective DEF Ring
<1> HIDE DEF t
<1>5. At(t, 0) = Base /\ At(t, 1) = e
  BY <1>1, <1>2, AtFacts
<1>6. ASSUME NEW i \in 1..(Len(s) + 1) PROVE At(t, i + 1) = At(s, i)
  <2>1. CASE i = Len(s) + 1
    BY <2>1, <1>1, <1>2, AtFacts
  <2>2. CASE i # Len(s) + 1
    <3>1. i \in 1..Len(s) /\ i + 1 \in 1..Len(t)
      BY <2>2, <1>1, <1>2
    <3>2. QED BY <3>1, <1>1, <1>2, AtFacts
  <2>3. QED BY <2>1, <2>2
<1>7. QED BY <1>2, <1>3, <1>4, <1>5, <1>6 DEF t

\* A ring without its p-th element.
LEMMA Removed ==
  ASSUME NEW s, Ring(s), NEW e \in Range(s)
  PROVE  /\ Ring(RemoveFirst(s, e)) /\ Range(RemoveFirst(s, e)) = Range(s) \ {e}
         /\ Len(RemoveFirst(s, e)) = Len(s) - 1
         /\ \E p \in 1..Len(s) :
              /\ At(s, p) = e
              /\ \A i \in 0..Len(s) :
                   At(RemoveFirst(s, e), i) = IF i < p THEN At(s, i) ELSE At(s, i + 1)
<1> DEFINE r == RemoveFirst(s, e)
<1>1. s \in Seq(Element) /\ Len(s) \in Nat /\ IsInjective(s)
  BY AtFacts DEF Ring
<1>2. \E i \in 1..Len(s) : s[i] = e
  BY <1>1, RangeAt
<1>3. r \in Seq(Element) /\ Len(r) = Len(s) - 1
  BY <1>1, <1>2, RemoveFirstAt
<1>4. PICK p \in 1..Len(s) : s[p] = e /\ WithoutAt(r, s, p)
  BY <1>1, <1>2, RemoveFirstAt
<1>5. Ring(r) /\ Range(r) = Range(s) \ {e}
  BY <1>1, RemoveFirstRange DEF Ring
<1> HIDE DEF r
<1>6. ASSUME NEW i \in 0..Len(s)
      PROVE  At(r, i) = IF i < p THEN At(s, i) ELSE At(s, i + 1)
  <2>1. CASE i = 0
    BY <2>1, <1>1, <1>3, <1>4, AtFacts
  <2>2. CASE i = Len(s)
    BY <2>2, <1>1, <1>3, <1>4, AtFacts
  <2>3. CASE i # 0 /\ i # Len(s)
    <3>1. i \in 1..(Len(s) - 1) /\ i \in 1..Len(r) /\ i \in 1..Len(s) /\ i + 1 \in 1..Len(s)
      BY <2>3, <1>1, <1>3
    <3>2. At(r, i) = r[i] /\ At(s, i) = s[i] /\ At(s, i + 1) = s[i + 1]
      BY <3>1, <1>1, <1>3, AtFacts
    <3>3. QED BY <3>1, <3>2, <1>4 DEF WithoutAt
  <2>4. QED BY <2>1, <2>2, <2>3
<1>7. At(s, p) = e
  BY <1>1, <1>4, AtFacts
<1>8. QED BY <1>3, <1>5, <1>6, <1>7 DEF r
-----------------------------------------------------------------------------
(* The steps. *)

\* Who starts beside the taker, or as the taker beside others, is not allowed to.
LEMMA BeginAlone ==
  ASSUME TakerAlone, NEW t \in Thread, NEW to, Begin(t, to)
  PROVE  /\ pc[t] = "idle" /\ pc' = [pc EXCEPT ![t] = to]
         /\ t # "taker" => pc["taker"] = "idle"
         /\ t = "taker" => pc["adder"] = "idle" /\ pc["walker"] = "idle"
<1>1. PICK group \in Concurrent : {t} \cup {u \in Thread : pc[u] # "idle"} \subseteq group
  BY DEF Begin
<1>2. "adder" \in Thread /\ "taker" \in Thread /\ "walker" \in Thread
  BY DEF Thread
<1>3. "taker" \in group => group \subseteq {"taker"}
  BY DEF TakerAlone
<1>4. QED BY <1>1, <1>2, <1>3 DEF Begin

\* The invariant holds for the empty list.
LEMMA ListInit ==
  ASSUME Init
  PROVE  Kept(<<>>)
<1> DEFINE s == <<>>
<1>1. s \in Seq(Element) /\ Len(s) = 0 /\ Range(s) = {} /\ IsInjective(s)
  BY DEF Range, IsInjective
<1>2. Base \in Cell
  BY DEF Cell
<1>3. /\ next \in [Cell -> Cell \cup {NULL}] /\ prev \in [Cell -> Cell \cup {NULL}]
      /\ pc \in [Thread -> Label]
  BY <1>2 DEF Init, Label
<1>4. pc["adder"] = "idle" /\ pc["taker"] = "idle" /\ pc["walker"] = "idle"
  BY DEF Init, Thread
<1>5. next[Base] = Base /\ prev[Base] = Base
  BY <1>2 DEF Init
<1> HIDE DEF s
<1>6. At(s, 0) = Base /\ At(s, 1) = Base
  BY <1>1 DEF At
<1>7. Forward(next, s) /\ Backward(prev, s, 0)
  BY <1>1, <1>5, <1>6 DEF Forward, Backward
<1>8. ListOK(s)
  BY <1>1, <1>4, <1>7 DEF ListOK, RingOK, Ring, AdderOK, TakerOK, WalkerOK
<1>9. ListTyped /\ TakerWorksAlone
  BY <1>2, <1>3, <1>4 DEF Init, ListTyped, TakerWorksAlone
<1>10. QED BY <1>8, <1>9 DEF Kept, s

\* The sequence after a step.
Moves(s, t) ==
  \/ t = s
  \/ \E e \in Element : e \notin Range(s) /\ t = <<e>> \o s
  \/ \E e \in Range(s) : t = RemoveFirst(s, e)

\* list_add, new->prev = base: the new element is not on the ring yet.
LEMMA AddPrevInv ==
  ASSUME TakerAlone, NEW s \in Seq(Element), Kept(s), AddPrev
  PROVE  Kept(s)'
<1>1. PICK n \in Element : /\ n \notin freed /\ next[n] = NULL
                           /\ new' = n /\ prev' = [prev EXCEPT ![n] = Base]
  BY DEF AddPrev
<1>2. /\ next' = next /\ pos' = pos /\ tmp' = tmp /\ freed' = freed
      /\ cur' = cur /\ seen' = seen /\ due' = due
  BY DEF AddPrev, takerVars, walkerVars
<1>3. pc["adder"] = "idle" /\ pc["taker"] = "idle" /\ pc' = [pc EXCEPT !["adder"] = "add_next"]
  BY BeginAlone DEF AddPrev, Thread
<1>4. /\ pc' \in [Thread -> Label] /\ pc'["adder"] = "add_next"
      /\ pc'["taker"] = "idle" /\ pc'["walker"] = pc["walker"]
  BY <1>3, Zenon DEF Kept, ListTyped, Thread, Label
<1>5. n \notin Range(s)
  <2>1. SUFFICES ASSUME n \in Range(s) PROVE FALSE
    OBVIOUS
  <2>2. PICK i \in 1..Len(s) : At(s, i) = n
    BY <2>1, RangeAt
  <2>3. i \in 0..Len(s) /\ At(s, i + 1) \in Cell
    BY AtFacts
  <2>4. next[n] = At(s, i + 1)
    BY <2>2, <2>3 DEF Kept, ListOK, RingOK, Forward
  <2>5. QED BY <2>3, <2>4, <1>1, LinkedListAssumption
<1>6. prev' \in [Cell -> Cell \cup {NULL}] /\ prev'[n] = Base
  BY <1>1 DEF Kept, ListTyped, Cell
<1>7. ListTyped' /\ TakerWorksAlone'
  BY <1>2, <1>4, <1>6 DEF Kept, ListTyped, TakerWorksAlone
<1>8. RingOK(s)'
  <2>1. Backward(prev, s, 0)
    BY <1>3 DEF Kept, ListOK, RingOK
  <2>2. Backward(prev', s, 0)
    BY <1>1, <1>5, <2>1, OffRingStore DEF Kept, ListTyped
  <2>3. QED BY <1>2, <2>2 DEF Kept, ListOK, RingOK
<1>9. AdderOK(s)' /\ TakerOK(s)' /\ WalkerOK(s)'
  BY <1>1, <1>2, <1>4, <1>5, <1>6 DEF Kept, ListOK, AdderOK, TakerOK, WalkerOK, Ahead
<1>10. QED BY <1>7, <1>8, <1>9 DEF Kept, ListOK

\* list_add, new->next = base->next.
LEMMA AddNextInv ==
  ASSUME NEW s \in Seq(Element), Kept(s), AddNext
  PROVE  Kept(s)'
<1>1. /\ prev' = prev /\ new' = new /\ pos' = pos /\ tmp' = tmp /\ freed' = freed
      /\ cur' = cur /\ seen' = seen /\ due' = due /\ next' = [next EXCEPT ![new] = next[Base]]
  BY DEF AddNext, adderVars, takerVars, walkerVars
<1>2. pc["adder"] = "add_next" /\ pc' = [pc EXCEPT !["adder"] = "add_link"]
  BY DEF AddNext, Step
<1>3. pc["taker"] = "idle"
  BY <1>2 DEF Kept, TakerWorksAlone
<1>4. /\ pc' \in [Thread -> Label] /\ pc'["adder"] = "add_link"
      /\ pc'["taker"] = "idle" /\ pc'["walker"] = pc["walker"]
  BY <1>2, <1>3, Zenon DEF Kept, ListTyped, Thread, Label
<1>5. new \in Element /\ new \notin freed /\ new \notin Range(s) /\ prev[new] = Base
  BY <1>2 DEF Kept, ListOK, AdderOK
<1>6. /\ next' \in [Cell -> Cell \cup {NULL}] /\ next'[new] = next[Base] /\ next'[Base] = next[Base]
  BY <1>1, <1>5, LinkedListAssumption DEF Kept, ListTyped, Cell
<1>7. ListTyped' /\ TakerWorksAlone'
  BY <1>1, <1>4, <1>6 DEF Kept, ListTyped, TakerWorksAlone
<1>8. RingOK(s)'
  <2>1. Forward(next, s) /\ Backward(prev, s, 0)
    BY <1>2, <1>3 DEF Kept, ListOK, RingOK
  <2>2. Forward(next', s)
    BY <1>1, <1>5, <2>1, OffRingStore DEF Kept, ListTyped
  <2>3. QED BY <1>1, <2>1, <2>2 DEF Kept, ListOK, RingOK
<1>9. AdderOK(s)' /\ TakerOK(s)' /\ WalkerOK(s)'
  BY <1>1, <1>4, <1>5, <1>6 DEF Kept, ListOK, AdderOK, TakerOK, WalkerOK, Ahead
<1>10. QED BY <1>7, <1>8, <1>9 DEF Kept, ListOK

\* list_add, base->next = new: the element is on the list from here on.
LEMMA AddLinkInv ==
  ASSUME NEW s \in Seq(Element), Kept(s), AddLink
  PROVE  \E t : Moves(s, t) /\ Kept(t)'
<1>1. /\ prev' = prev /\ new' = new /\ pos' = pos /\ tmp' = tmp /\ freed' = freed
      /\ cur' = cur /\ seen' = seen /\ due' = due /\ next' = [next EXCEPT ![prev[new]] = new]
  BY DEF AddLink, adderVars, takerVars, walkerVars
<1>2. pc["adder"] = "add_link" /\ pc' = [pc EXCEPT !["adder"] = "add_back"]
  BY DEF AddLink, Step
<1>3. pc["taker"] = "idle"
  BY <1>2 DEF Kept, TakerWorksAlone
<1>4. /\ pc' \in [Thread -> Label] /\ pc'["adder"] = "add_back"
      /\ pc'["taker"] = "idle" /\ pc'["walker"] = pc["walker"]
  BY <1>2, <1>3, Zenon DEF Kept, ListTyped, Thread, Label
<1>5. PICK e \in Element : e = new /\ e \notin freed /\ e \notin Range(s) /\ prev[e] = Base
                           /\ next[e] = next[Base]
  BY <1>2 DEF Kept, ListOK, AdderOK
<1> DEFINE t == <<e>> \o s
<1>6. /\ next' \in [Cell -> Cell \cup {NULL}] /\ next'[Base] = e
      /\ \A c \in Cell : c # Base => next'[c] = next[c]
  BY <1>1, <1>5 DEF Kept, ListTyped, Cell
<1>7. ListTyped' /\ TakerWorksAlone'
  BY <1>1, <1>4, <1>6 DEF Kept, ListTyped, TakerWorksAlone
<1>8. Ring(s) /\ Range(s) \cap freed = {} /\ Forward(next, s) /\ Backward(prev, s, 0)
  BY <1>2, <1>3 DEF Kept, ListOK, RingOK
<1>9. /\ Ring(t) /\ Len(t) = Len(s) + 1 /\ Range(t) = Range(s) \cup {e}
      /\ At(t, 0) = Base /\ At(t, 1) = e
      /\ \A i \in 1..(Len(s) + 1) : At(t, i + 1) = At(s, i)
      /\ \A i \in 1..Len(s) : t[i + 1] = s[i]
  BY <1>5, <1>8, Prepended
<1>10. t \in Seq(Element)
  BY <1>9 DEF Ring
<1> HIDE DEF t
<1>11. /\ Len(s) \in Nat /\ At(s, 0) = Base /\ Base \notin Element
       /\ \A i \in 1..Len(s) : At(s, i) \in Element /\ At(s, i) \in Cell
  BY AtFacts, LinkedListAssumption
<1>12. Forward(next', t)
  <2>1. ASSUME NEW i \in 0..Len(t) PROVE next'[At(t, i)] = At(t, i + 1)
    <3>1. CASE i = 0
      BY <3>1, <1>6, <1>9
    <3>2. CASE i = 1
      <4>1. next'[e] = next[Base]
        BY <1>5, <1>6, LinkedListAssumption DEF Cell
      <4>2. next[Base] = At(s, 1)
        BY <1>8, <1>11 DEF Forward
      <4>3. 1 \in 1..(Len(s) + 1)
        BY <1>11
      <4>4. At(t, 2) = At(s, 1)
        BY <4>3, <1>9
      <4>5. QED BY <3>2, <4>1, <4>2, <4>4, <1>9
    <3>3. CASE i > 1
      <4>1. /\ i - 1 \in 1..Len(s) /\ i - 1 \in 0..Len(s) /\ (i - 1) + 1 = i
            /\ i - 1 \in 1..(Len(s) + 1) /\ i \in 1..(Len(s) + 1)
        BY <3>3, <1>9, <1>11
      <4>2. At(t, i) = At(s, i - 1) /\ At(t, i + 1) = At(s, i)
        BY <4>1, <1>9
      <4>3. next'[At(s, i - 1)] = next[At(s, i - 1)]
        BY <4>1, <1>6, <1>11
      <4>4. next[At(s, i - 1)] = At(s, i)
        BY <4>1, <1>8 DEF Forward
      <4>5. QED BY <4>2, <4>3, <4>4
    <3>4. QED BY <3>1, <3>2, <3>3, <1>9, <1>11
  <2>2. QED BY <2>1 DEF Forward
<1>13. Backward(prev', t, 2) /\ prev'[At(t, 2)] = Base
  <2>1. ASSUME NEW i \in 1..(Len(t) + 1), i # 2 PROVE prev[At(t, i)] = At(t, i - 1)
    <3>1. CASE i = 1
      BY <3>1, <1>5, <1>9
    <3>2. CASE i > 2
      <4>1. /\ i - 1 \in 1..(Len(s) + 1) /\ (i - 1) + 1 = i /\ i - 1 # 0
            /\ i - 2 \in 1..(Len(s) + 1) /\ (i - 2) + 1 = i - 1 /\ (i - 1) - 1 = i - 2
        BY <3>2, <1>9, <1>11
      <4>2. At(t, i) = At(s, i - 1) /\ At(t, i - 1) = At(s, i - 2)
        BY <4>1, <1>9
      <4>3. prev[At(s, i - 1)] = At(s, i - 2)
        BY <4>1, <1>8 DEF Backward
      <4>4. QED BY <4>2, <4>3
    <3>3. QED BY <3>1, <3>2, <2>1
  <2>2. prev[At(t, 2)] = Base
    <3>1. 1 \in 1..(Len(s) + 1) /\ 1 - 1 = 0 /\ 1 + 1 = 2
      BY <1>11
    <3>2. prev[At(s, 1)] = At(s, 0)
      BY <3>1, <1>8 DEF Backward
    <3>3. QED BY <3>1, <3>2, <1>9, <1>11
  <2>3. QED BY <2>1, <2>2, <1>1 DEF Backward
<1>14. RingOK(t)'
  BY <1>1, <1>4, <1>5, <1>8, <1>9, <1>12 DEF RingOK
<1>15. AdderOK(t)' /\ TakerOK(t)'
  <2>1. t # <<>>
    BY <1>9, <1>10, <1>11
  <2>2. QED BY <2>1, <1>1, <1>4, <1>5, <1>9, <1>13 DEF AdderOK, TakerOK
<1>16. WalkerOK(t)'
  <2>1. SUFFICES ASSUME pc["walker"] = "look" PROVE \E c \in 1..(Len(t) + 1) : Ahead(t, c)'
    BY <1>4 DEF WalkerOK
  <2>2. PICK c \in 1..(Len(s) + 1) : Ahead(s, c)
    BY <2>1 DEF Kept, ListOK, WalkerOK
  <2>3. c + 1 \in 1..(Len(t) + 1) /\ At(t, c + 1) = At(s, c)
    BY <1>9, <1>11
  <2>4. ASSUME NEW x \in due, x \notin seen PROVE \E j \in 1..Len(t) : c + 1 <= j /\ t[j] = x
    <3>1. PICK j \in 1..Len(s) : c <= j /\ s[j] = x
      BY <2>2, <2>4 DEF Ahead
    <3>2. j + 1 \in 1..Len(t) /\ c + 1 <= j + 1 /\ t[j + 1] = x
      BY <3>1, <1>9, <1>11
    <3>3. QED BY <3>2
  <2>5. Ahead(t, c + 1)'
    BY <1>1, <2>2, <2>3, <2>4 DEF Ahead
  <2>6. QED BY <2>3, <2>5
<1>17. Kept(t)'
  BY <1>7, <1>14, <1>15, <1>16 DEF Kept, ListOK
<1>18. Moves(s, t)
  BY <1>5 DEF Moves, t
<1>19. QED BY <1>17, <1>18

\* list_add, the back pointer of the element that was first.
LEMMA AddBackInv ==
  ASSUME NEW s \in Seq(Element), Kept(s), AddBack
  PROVE  Kept(s)'
<1>1. /\ next' = next /\ new' = new /\ pos' = pos /\ tmp' = tmp /\ freed' = freed
      /\ cur' = cur /\ seen' = seen /\ due' = due /\ prev' = [prev EXCEPT ![next[new]] = new]
  BY DEF AddBack, adderVars, takerVars, walkerVars
<1>2. pc["adder"] = "add_back" /\ pc' = [pc EXCEPT !["adder"] = "idle"]
  BY DEF AddBack, Step
<1>3. pc["taker"] = "idle"
  BY <1>2 DEF Kept, TakerWorksAlone
<1>4. /\ pc' \in [Thread -> Label] /\ pc'["adder"] = "idle"
      /\ pc'["taker"] = "idle" /\ pc'["walker"] = pc["walker"]
  BY <1>2, <1>3, Zenon DEF Kept, ListTyped, Thread, Label
<1>5. Ring(s) /\ Forward(next, s) /\ s # <<>> /\ At(s, 1) = new /\ Backward(prev, s, 2)
  BY <1>2 DEF Kept, ListOK, RingOK, AdderOK
<1>6. Len(s) \in Nat /\ Len(s) # 0 /\ \A i : At(s, i) \in Cell
  BY <1>5, AtFacts, EmptySeq
<1>7. next[new] = At(s, 2)
  <2>1. 1 \in 0..Len(s) /\ 1 + 1 = 2
    BY <1>6
  <2>2. QED BY <2>1, <1>5 DEF Forward
<1>8. /\ prev' \in [Cell -> Cell \cup {NULL}] /\ prev'[At(s, 2)] = At(s, 1)
      /\ \A c \in Cell : c # At(s, 2) => prev'[c] = prev[c]
  BY <1>1, <1>5, <1>6, <1>7 DEF Kept, ListTyped
<1>9. ListTyped' /\ TakerWorksAlone'
  BY <1>1, <1>4, <1>8 DEF Kept, ListTyped, TakerWorksAlone
<1>10. Backward(prev', s, 0)
  <2>1. ASSUME NEW i \in 1..(Len(s) + 1) PROVE prev'[At(s, i)] = At(s, i - 1)
    <3>1. CASE i = 2
      BY <3>1, <1>8
    <3>2. CASE i # 2
      <4>1. At(s, i) # At(s, 2)
        <5>1. 2 \in 1..(Len(s) + 1)
          BY <1>6
        <5>2. QED BY <5>1, <3>2, <1>5, AtDistinct
      <4>2. prev[At(s, i)] = At(s, i - 1)
        BY <3>2, <1>5 DEF Backward
      <4>3. QED BY <4>1, <4>2, <1>6, <1>8
    <3>3. QED BY <3>1, <3>2
  <2>2. QED BY <2>1 DEF Backward
<1>11. RingOK(s)'
  BY <1>1, <1>10 DEF Kept, ListOK, RingOK
<1>12. AdderOK(s)' /\ TakerOK(s)' /\ WalkerOK(s)'
  BY <1>1, <1>4 DEF Kept, ListOK, AdderOK, TakerOK, WalkerOK, Ahead
<1>13. QED BY <1>9, <1>11, <1>12 DEF Kept, ListOK

\* The last element is the one before the base.
LEMMA TakeLastInv ==
  ASSUME TakerAlone, NEW s \in Seq(Element), Kept(s), TakeLast
  PROVE  Kept(s)'
<1>1. /\ next' = next /\ prev' = prev /\ new' = new /\ freed' = freed
      /\ cur' = cur /\ seen' = seen /\ due' = due
      /\ pos' = prev[Base] /\ tmp' = NULL /\ next[Base] # Base
  BY DEF TakeLast, adderVars, walkerVars, ListEmpty
<1>2. /\ pc["taker"] = "idle" /\ pc["adder"] = "idle" /\ pc["walker"] = "idle"
      /\ pc' = [pc EXCEPT !["taker"] = "del_next"]
  BY BeginAlone DEF TakeLast, Thread
<1>3. /\ pc' \in [Thread -> Label] /\ pc'["adder"] = "idle"
      /\ pc'["taker"] = "del_next" /\ pc'["walker"] = "idle"
  BY <1>2, Zenon DEF Kept, ListTyped, Thread, Label
<1>4. ListTyped' /\ TakerWorksAlone'
  BY <1>1, <1>3 DEF Kept, ListTyped, TakerWorksAlone
<1>5. Forward(next, s) /\ Backward(prev, s, 0)
  BY <1>2 DEF Kept, ListOK, RingOK
<1>6. Len(s) \in Nat /\ At(s, 0) = Base /\ At(s, Len(s) + 1) = Base
  BY AtFacts
<1>7. Len(s) # 0
  <2>1. SUFFICES ASSUME Len(s) = 0 PROVE FALSE
    OBVIOUS
  <2>2. next[At(s, 0)] = At(s, 0 + 1) /\ 0 + 1 = Len(s) + 1
    BY <2>1, <1>5 DEF Forward
  <2>3. QED BY <2>2, <1>1, <1>6
<1>8. pos' \in Range(s)
  <2>1. Len(s) + 1 \in 1..(Len(s) + 1) /\ (Len(s) + 1) - 1 = Len(s) /\ Len(s) + 1 # 0
    BY <1>6
  <2>2. pos' = At(s, Len(s))
    BY <2>1, <1>1, <1>5, <1>6 DEF Backward
  <2>3. Len(s) \in 1..Len(s)
    BY <1>6, <1>7
  <2>4. QED BY <2>2, <2>3, RangeAt, AtFacts
<1>9. RingOK(s)' /\ AdderOK(s)' /\ TakerOK(s)' /\ WalkerOK(s)'
  BY <1>1, <1>3, <1>5, <1>8 DEF Kept, ListOK, RingOK, AdderOK, TakerOK, WalkerOK
<1>10. QED BY <1>4, <1>9 DEF Kept, ListOK

\* list_for_each_entry_safe starts at the first element.
LEMMA TakeAllInv ==
  ASSUME TakerAlone, NEW s \in Seq(Element), Kept(s), TakeAll
  PROVE  Kept(s)'
<1>1. /\ next' = next /\ prev' = prev /\ new' = new /\ freed' = freed
      /\ cur' = cur /\ seen' = seen /\ due' = due
      /\ pos' = next[Base] /\ tmp' = next[next[Base]]
  BY DEF TakeAll, adderVars, walkerVars
<1>2. /\ pc["taker"] = "idle" /\ pc["adder"] = "idle" /\ pc["walker"] = "idle"
      /\ pc' = [pc EXCEPT !["taker"] = "walk"]
  BY BeginAlone DEF TakeAll, Thread
<1>3. /\ pc' \in [Thread -> Label] /\ pc'["adder"] = "idle"
      /\ pc'["taker"] = "walk" /\ pc'["walker"] = "idle"
  BY <1>2, Zenon DEF Kept, ListTyped, Thread, Label
<1>4. ListTyped' /\ TakerWorksAlone'
  BY <1>1, <1>3 DEF Kept, ListTyped, TakerWorksAlone
<1>5. Forward(next, s) /\ Backward(prev, s, 0)
  BY <1>2 DEF Kept, ListOK, RingOK
<1>6. next[Base] = At(s, 1)
  <2>1. 0 \in 0..Len(s) /\ At(s, 0) = Base /\ 0 + 1 = 1
    BY AtFacts
  <2>2. QED BY <2>1, <1>5 DEF Forward
<1>7. RingOK(s)' /\ AdderOK(s)' /\ TakerOK(s)' /\ WalkerOK(s)'
  BY <1>1, <1>3, <1>5, <1>6 DEF Kept, ListOK, RingOK, AdderOK, TakerOK, WalkerOK
<1>8. QED BY <1>4, <1>7 DEF Kept, ListOK

\* It takes the element at its cursor, or is at the base and ends.
LEMMA WalkOnInv ==
  ASSUME NEW s \in Seq(Element), Kept(s), WalkOn
  PROVE  Kept(s)'
<1>1. /\ next' = next /\ prev' = prev /\ new' = new /\ freed' = freed /\ pos' = pos /\ tmp' = tmp
      /\ cur' = cur /\ seen' = seen /\ due' = due
  BY DEF WalkOn, adderVars, takerVars, walkerVars
<1>2. /\ pc["taker"] = "walk"
      /\ pc' = [pc EXCEPT !["taker"] = IF pos = Base THEN "idle" ELSE "del_next"]
  BY DEF WalkOn, Step
<1>3. pc["adder"] = "idle" /\ pc["walker"] = "idle"
  BY <1>2 DEF Kept, TakerWorksAlone
<1>4. /\ pc' \in [Thread -> Label] /\ pc'["adder"] = "idle" /\ pc'["walker"] = "idle"
      /\ pc'["taker"] = IF pos = Base THEN "idle" ELSE "del_next"
  BY <1>2, <1>3 DEF Kept, ListTyped, Thread, Label
<1>5. ListTyped' /\ TakerWorksAlone'
  BY <1>1, <1>4 DEF Kept, ListTyped, TakerWorksAlone
<1>6. pos = At(s, 1) /\ tmp = next[pos] /\ Backward(prev, s, 0)
  BY <1>2, <1>3 DEF Kept, ListOK, RingOK, TakerOK
<1>7. pos # Base => pos \in Range(s)
  <2>1. SUFFICES ASSUME At(s, 1) # Base PROVE At(s, 1) \in Range(s)
    BY <1>6
  <2>2. 1 \in 1..Len(s)
    BY <2>1 DEF At
  <2>3. QED BY <2>2, RangeAt, AtFacts
<1>8. RingOK(s)' /\ AdderOK(s)' /\ TakerOK(s)' /\ WalkerOK(s)'
  BY <1>1, <1>4, <1>6, <1>7 DEF Kept, ListOK, RingOK, AdderOK, TakerOK, WalkerOK
<1>9. QED BY <1>5, <1>8 DEF Kept, ListOK

\* list_del, the forward pointer: the element is off the list from here on.
LEMMA DelNextInv ==
  ASSUME NEW s \in Seq(Element), Kept(s), DelNext
  PROVE  \E t : Moves(s, t) /\ Kept(t)'
<1>1. /\ prev' = prev /\ new' = new /\ freed' = freed /\ pos' = pos /\ tmp' = tmp
      /\ cur' = cur /\ seen' = seen /\ due' = due
      /\ next' = [next EXCEPT ![prev[pos]] = next[pos]]
  BY DEF DelNext, adderVars, takerVars, walkerVars
<1>2. pc["taker"] = "del_next" /\ pc' = [pc EXCEPT !["taker"] = "del_prev"]
  BY DEF DelNext, Step
<1>3. pc["adder"] = "idle" /\ pc["walker"] = "idle"
  BY <1>2 DEF Kept, TakerWorksAlone
<1>4. /\ pc' \in [Thread -> Label] /\ pc'["adder"] = "idle" /\ pc'["walker"] = "idle"
      /\ pc'["taker"] = "del_prev"
  BY <1>2, <1>3, Zenon DEF Kept, ListTyped, Thread, Label
<1>5. /\ Ring(s) /\ Range(s) \cap freed = {} /\ Forward(next, s) /\ Backward(prev, s, 0)
      /\ tmp # NULL => pos = At(s, 1) /\ tmp = next[pos]
  BY <1>2, <1>3 DEF Kept, ListOK, RingOK, TakerOK
<1>6. PICK e \in Range(s) : e = pos
  BY <1>2 DEF Kept, ListOK, TakerOK
<1> DEFINE t == RemoveFirst(s, e)
<1>7. Ring(t) /\ Range(t) = Range(s) \ {e} /\ Len(t) = Len(s) - 1
  BY <1>5, Removed
<1>8. PICK p \in 1..Len(s) :
        At(s, p) = e /\ \A i \in 0..Len(s) : At(t, i) = IF i < p THEN At(s, i) ELSE At(s, i + 1)
  BY <1>5, Removed
<1> HIDE DEF t
<1>9. /\ Len(s) \in Nat /\ At(s, 0) = Base /\ Base \notin Element
      /\ \A i : At(s, i) \in Cell
  BY AtFacts, LinkedListAssumption
<1>10. e \in Element
  BY <1>8, AtFacts
<1>11. /\ p - 1 \in 0..Len(s) /\ p \in 0..Len(s) /\ p \in 1..(Len(s) + 1) /\ p # p - 1
       /\ p # 0 /\ p \in 1..(Len(t) + 1)
  BY <1>7, <1>8, <1>9
<1>12. prev[e] = At(s, p - 1) /\ next[e] = At(s, p + 1)
  BY <1>5, <1>8, <1>11 DEF Forward, Backward
<1>13. /\ next' \in [Cell -> Cell \cup {NULL}] /\ next'[At(s, p - 1)] = At(s, p + 1)
       /\ \A c \in Cell : c # At(s, p - 1) => next'[c] = next[c]
  BY <1>1, <1>6, <1>9, <1>12 DEF Kept, ListTyped
<1>14. ListTyped' /\ TakerWorksAlone'
  BY <1>1, <1>4, <1>13 DEF Kept, ListTyped, TakerWorksAlone
<1>15. \A i, j \in 0..Len(s) : At(s, i) = At(s, j) => i = j
  BY <1>5, AtDistinct
<1>16. ASSUME NEW i \in 0..Len(t) PROVE next'[At(t, i)] = At(t, i + 1)
  <2>1. /\ i \in 0..Len(s) /\ i + 1 \in 0..Len(s)
    BY <1>7, <1>9
  <2>2. CASE i = p - 1
    <3>1. At(t, i) = At(s, p - 1) /\ At(t, i + 1) = At(s, p + 1)
      BY <2>1, <2>2, <1>8, <1>11
    <3>2. QED BY <3>1, <1>13
  <2>3. CASE i < p - 1
    <3>1. At(t, i) = At(s, i) /\ At(t, i + 1) = At(s, i + 1) /\ i # p - 1
      BY <2>1, <2>3, <1>8, <1>11
    <3>2. At(s, i) # At(s, p - 1)
      BY <3>1, <2>1, <1>11, <1>15
    <3>3. next[At(s, i)] = At(s, i + 1)
      BY <2>1, <1>5 DEF Forward
    <3>4. QED BY <3>1, <3>2, <3>3, <1>9, <1>13
  <2>4. CASE i > p - 1
    <3>1. At(t, i) = At(s, i + 1) /\ At(t, i + 1) = At(s, (i + 1) + 1) /\ i + 1 # p - 1
      BY <2>1, <2>4, <1>8, <1>11
    <3>2. At(s, i + 1) # At(s, p - 1)
      BY <3>1, <2>1, <1>11, <1>15
    <3>3. next[At(s, i + 1)] = At(s, (i + 1) + 1)
      BY <2>1, <1>5 DEF Forward
    <3>4. QED BY <3>1, <3>2, <3>3, <1>9, <1>13
  <2>5. QED BY <2>1, <2>2, <2>3, <2>4, <1>11
<1>17. ASSUME NEW i \in 1..(Len(t) + 1), i # p PROVE prev[At(t, i)] = At(t, i - 1)
  <2>1. i \in 0..Len(s) /\ i - 1 \in 0..Len(s) /\ i \in 1..(Len(s) + 1) /\ i + 1 \in 1..(Len(s) + 1)
        /\ i # 0 /\ i + 1 # 0 /\ (i + 1) - 1 = i /\ (i - 1) + 1 = i
    BY <1>7, <1>9
  <2>2. CASE i < p
    <3>1. At(t, i) = At(s, i) /\ At(t, i - 1) = At(s, i - 1)
      BY <2>1, <2>2, <1>8, <1>11
    <3>2. prev[At(s, i)] = At(s, i - 1)
      BY <2>1, <1>5 DEF Backward
    <3>3. QED BY <3>1, <3>2
  <2>3. CASE i > p
    <3>1. At(t, i) = At(s, i + 1) /\ At(t, i - 1) = At(s, i)
      BY <2>1, <2>3, <1>8, <1>11
    <3>2. prev[At(s, i + 1)] = At(s, i)
      BY <2>1, <1>5 DEF Backward
    <3>3. QED BY <3>1, <3>2
  <2>4. QED BY <1>17, <2>1, <2>2, <2>3, <1>11
<1>18. Forward(next', t) /\ Backward(prev', t, p)
  BY <1>1, <1>16, <1>17 DEF Forward, Backward
<1>19. At(t, p - 1) = At(s, p - 1) /\ At(t, p) = At(s, p + 1)
  BY <1>8, <1>11
<1>20. next'[e] = At(s, p + 1)
  <2>1. At(s, p) # At(s, p - 1)
    BY <1>11, <1>15
  <2>2. QED BY <2>1, <1>8, <1>9, <1>12, <1>13
<1>21. tmp # NULL => p = 1 /\ tmp = next'[e]
  <2>1. SUFFICES ASSUME tmp # NULL PROVE p = 1 /\ tmp = next'[e]
    OBVIOUS
  <2>2. At(s, 1) = At(s, p) /\ tmp = next[e]
    BY <2>1, <1>5, <1>6, <1>8
  <2>3. 1 \in 0..Len(s)
    BY <1>8, <1>9
  <2>4. p = 1
    BY <2>2, <2>3, <1>11, <1>15
  <2>5. QED BY <2>2, <2>4, <1>12, <1>20
<1>22. Unlinked(t, p)'
  BY <1>1, <1>6, <1>12, <1>18, <1>19, <1>20, <1>21 DEF Unlinked
<1>23. RingOK(t)'
  BY <1>1, <1>4, <1>5, <1>7, <1>18 DEF RingOK
<1>24. AdderOK(t)' /\ WalkerOK(t)'
  BY <1>4 DEF AdderOK, WalkerOK
<1>25. TakerOK(t)'
  <2>1. pos' \in Element /\ pos' \notin freed' /\ pos' \notin Range(t)
    BY <1>1, <1>5, <1>6, <1>7, <1>10
  <2>2. \E q \in 1..(Len(t) + 1) : Unlinked(t, q)'
    BY <1>11, <1>22
  <2>3. QED BY <2>1, <2>2, <1>4 DEF TakerOK
<1>26. Kept(t)'
  BY <1>14, <1>23, <1>24, <1>25 DEF Kept, ListOK
<1>27. Moves(s, t)
  BY DEF Moves, t
<1>28. QED BY <1>26, <1>27

\* list_del, the back pointer; the element is clean and handed on.
LEMMA DelPrevInv ==
  ASSUME NEW s \in Seq(Element), Kept(s), DelPrev
  PROVE  Kept(s)'
<1>1. /\ next' = next /\ new' = new /\ freed' = freed \cup {pos}
      /\ cur' = cur /\ seen' = seen /\ due' = due
      /\ prev' = [prev EXCEPT ![next[pos]] = prev[pos]]
      /\ tmp # NULL => pos' = tmp /\ tmp' = next[tmp]
  BY DEF DelPrev, adderVars, walkerVars
<1>2. /\ pc["taker"] = "del_prev"
      /\ pc' = [pc EXCEPT !["taker"] = IF tmp = NULL THEN "idle" ELSE "walk"]
  BY DEF DelPrev, Step
<1>3. pc["adder"] = "idle" /\ pc["walker"] = "idle"
  BY <1>2 DEF Kept, TakerWorksAlone
<1>4. /\ pc' \in [Thread -> Label] /\ pc'["adder"] = "idle" /\ pc'["walker"] = "idle"
      /\ pc'["taker"] = IF tmp = NULL THEN "idle" ELSE "walk"
  BY <1>2, <1>3 DEF Kept, ListTyped, Thread, Label
<1>5. /\ Ring(s) /\ Range(s) \cap freed = {} /\ Forward(next, s)
      /\ pos \in Element /\ pos \notin Range(s)
  BY <1>2 DEF Kept, ListOK, RingOK, TakerOK
<1>6. PICK p \in 1..(Len(s) + 1) : Unlinked(s, p)
  BY <1>2 DEF Kept, ListOK, TakerOK
<1>7. /\ Backward(prev, s, p) /\ prev[pos] = At(s, p - 1) /\ next[pos] = At(s, p)
      /\ tmp # NULL => p = 1 /\ tmp = At(s, 1)
  BY <1>6 DEF Unlinked
<1>8. Len(s) \in Nat /\ \A i : At(s, i) \in Cell
  BY AtFacts
<1>9. /\ prev' \in [Cell -> Cell \cup {NULL}] /\ prev'[At(s, p)] = At(s, p - 1)
      /\ \A c \in Cell : c # At(s, p) => prev'[c] = prev[c]
  BY <1>1, <1>7, <1>8 DEF Kept, ListTyped
<1>10. Backward(prev', s, 0)
  <2>1. ASSUME NEW i \in 1..(Len(s) + 1) PROVE prev'[At(s, i)] = At(s, i - 1)
    <3>1. CASE i = p
      BY <3>1, <1>9
    <3>2. CASE i # p
      <4>1. At(s, i) # At(s, p)
        BY <3>2, <1>5, AtDistinct
      <4>2. prev[At(s, i)] = At(s, i - 1)
        BY <3>2, <1>7 DEF Backward
      <4>3. QED BY <4>1, <4>2, <1>8, <1>9
    <3>3. QED BY <3>1, <3>2
  <2>2. QED BY <2>1 DEF Backward
<1>11. ListTyped' /\ TakerWorksAlone'
  BY <1>1, <1>4, <1>5, <1>9 DEF Kept, ListTyped, TakerWorksAlone
<1>12. RingOK(s)'
  BY <1>1, <1>5, <1>10 DEF RingOK
<1>13. AdderOK(s)' /\ TakerOK(s)' /\ WalkerOK(s)'
  BY <1>1, <1>4, <1>7 DEF AdderOK, TakerOK, WalkerOK
<1>14. QED BY <1>11, <1>12, <1>13 DEF Kept, ListOK

\* list_for_each_entry starts: everything on the list is ahead of it.
LEMMA LookFirstInv ==
  ASSUME TakerAlone, NEW s \in Seq(Element), Kept(s), LookFirst
  PROVE  Kept(s)'
<1>1. /\ next' = next /\ prev' = prev /\ new' = new /\ freed' = freed /\ pos' = pos /\ tmp' = tmp
      /\ cur' = next[Base] /\ seen' = {} /\ due' = Range(Chain(next))
  BY DEF LookFirst, adderVars, takerVars
<1>2. pc["walker"] = "idle" /\ pc["taker"] = "idle" /\ pc' = [pc EXCEPT !["walker"] = "look"]
  BY BeginAlone DEF LookFirst, Thread
<1>3. /\ pc' \in [Thread -> Label] /\ pc'["adder"] = pc["adder"] /\ pc'["taker"] = "idle"
      /\ pc'["walker"] = "look"
  BY <1>2, Zenon DEF Kept, ListTyped, Thread, Label
<1>4. Ring(s) /\ Forward(next, s)
  BY DEF Kept, ListOK, RingOK
<1>5. due' = Range(s)
  BY <1>1, <1>4, ChainIs DEF Kept, ListTyped
<1>6. /\ Len(s) \in Nat /\ At(s, 0) = Base /\ At(s, 1) \in Cell
  BY AtFacts
<1>7. cur' = At(s, 1)
  <2>1. 0 \in 0..Len(s) /\ 0 + 1 = 1
    BY <1>6
  <2>2. QED BY <2>1, <1>1, <1>4, <1>6 DEF Forward
<1>8. ListTyped' /\ TakerWorksAlone'
  BY <1>1, <1>3, <1>6, <1>7 DEF Kept, ListTyped, TakerWorksAlone
<1>9. WalkerOK(s)'
  <2>1. ASSUME NEW e \in Range(s) PROVE \E j \in 1..Len(s) : 1 <= j /\ s[j] = e
    BY RangeAt
  <2>2. Ahead(s, 1)'
    BY <2>1, <1>5, <1>7 DEF Ahead
  <2>3. 1 \in 1..(Len(s) + 1)
    BY <1>6
  <2>4. QED BY <2>2, <2>3 DEF WalkerOK
<1>10. RingOK(s)' /\ AdderOK(s)' /\ TakerOK(s)'
  BY <1>1, <1>2, <1>3 DEF Kept, ListOK, RingOK, AdderOK, TakerOK
<1>11. QED BY <1>8, <1>9, <1>10 DEF Kept, ListOK

\* It moves on: what it leaves behind it has seen.
LEMMA LookNextInv ==
  ASSUME NEW s \in Seq(Element), Kept(s), LookNext
  PROVE  Kept(s)'
<1>1. /\ next' = next /\ prev' = prev /\ new' = new /\ freed' = freed /\ pos' = pos /\ tmp' = tmp
      /\ cur \in Element /\ cur' = next[cur] /\ seen' = seen \cup {cur} /\ due' = due
  BY DEF LookNext, adderVars, takerVars
<1>2. pc["walker"] = "look" /\ pc' = [pc EXCEPT !["walker"] = "look"]
  BY DEF LookNext, Step
<1>3. pc' = pc
  BY <1>2, Zenon DEF Kept, ListTyped, Thread
<1>4. Ring(s) /\ Forward(next, s)
  BY DEF Kept, ListOK, RingOK
<1>5. PICK c \in 1..(Len(s) + 1) : Ahead(s, c)
  BY <1>2 DEF Kept, ListOK, WalkerOK
<1>6. /\ Len(s) \in Nat /\ At(s, Len(s) + 1) = Base /\ Base \notin Element
      /\ At(s, c + 1) \in Cell
  BY AtFacts, LinkedListAssumption
<1>7. c \in 1..Len(s) /\ c \in 0..Len(s) /\ cur = s[c] /\ cur = At(s, c)
  <2>1. c # Len(s) + 1
    BY <1>1, <1>5, <1>6 DEF Ahead
  <2>2. c \in 1..Len(s) /\ c \in 0..Len(s)
    BY <2>1, <1>6
  <2>3. QED BY <2>2, <1>5, AtFacts DEF Ahead
<1>8. cur' = At(s, c + 1)
  BY <1>1, <1>4, <1>7 DEF Forward
<1>9. ListTyped' /\ TakerWorksAlone'
  BY <1>1, <1>3, <1>6, <1>8 DEF Kept, ListTyped, TakerWorksAlone
<1>10. WalkerOK(s)'
  <2>1. ASSUME NEW e \in due, e \notin seen, e # cur
        PROVE  \E j \in 1..Len(s) : c + 1 <= j /\ s[j] = e
    <3>1. PICK j \in 1..Len(s) : c <= j /\ s[j] = e
      BY <2>1, <1>5 DEF Ahead
    <3>2. j # c
      BY <3>1, <2>1, <1>7
    <3>3. c + 1 <= j
      BY <3>1, <3>2, <1>6
    <3>4. QED BY <3>1, <3>3
  <2>2. Ahead(s, c + 1)'
    BY <2>1, <1>1, <1>8 DEF Ahead
  <2>3. c + 1 \in 1..(Len(s) + 1)
    BY <1>6, <1>7
  <2>4. QED BY <2>2, <2>3 DEF WalkerOK
<1>11. RingOK(s)' /\ AdderOK(s)' /\ TakerOK(s)'
  BY <1>1, <1>3 DEF Kept, ListOK, RingOK, AdderOK, TakerOK, Unlinked
<1>12. QED BY <1>9, <1>10, <1>11 DEF Kept, ListOK

\* It ends.
LEMMA LookEndInv ==
  ASSUME NEW s \in Seq(Element), Kept(s), LookEnd
  PROVE  Kept(s)'
<1>1. /\ next' = next /\ prev' = prev /\ new' = new /\ freed' = freed /\ pos' = pos /\ tmp' = tmp
      /\ cur' = cur /\ seen' = seen /\ due' = due
  BY DEF LookEnd, adderVars, takerVars, walkerVars
<1>2. pc["walker"] = "look" /\ pc' = [pc EXCEPT !["walker"] = "idle"]
  BY DEF LookEnd, Step
<1>3. /\ pc' \in [Thread -> Label] /\ pc'["adder"] = pc["adder"] /\ pc'["taker"] = pc["taker"]
      /\ pc'["walker"] = "idle"
  BY <1>2, Zenon DEF Kept, ListTyped, Thread, Label
<1>4. pc["taker"] = "idle"
  BY <1>2 DEF Kept, TakerWorksAlone
<1>5. ListTyped' /\ TakerWorksAlone'
  BY <1>1, <1>3, <1>4 DEF Kept, ListTyped, TakerWorksAlone
<1>6. RingOK(s)' /\ AdderOK(s)' /\ TakerOK(s)' /\ WalkerOK(s)'
  BY <1>1, <1>3, <1>4 DEF Kept, ListOK, RingOK, AdderOK, TakerOK, WalkerOK
<1>7. QED BY <1>5, <1>6 DEF Kept, ListOK

\* A step that changes nothing.
LEMMA StutterInv ==
  ASSUME NEW s \in Seq(Element), Kept(s), UNCHANGED vars
  PROVE  Kept(s)'
<1>1. /\ next' = next /\ prev' = prev /\ pc' = pc /\ new' = new /\ pos' = pos /\ tmp' = tmp
      /\ freed' = freed /\ cur' = cur /\ seen' = seen /\ due' = due
  BY DEF vars
<1>2. ListTyped' /\ TakerWorksAlone'
  BY <1>1 DEF Kept, ListTyped, TakerWorksAlone
<1>3. RingOK(s)' /\ AdderOK(s)' /\ TakerOK(s)' /\ WalkerOK(s)'
  BY <1>1 DEF Kept, ListOK, RingOK, AdderOK, TakerOK, WalkerOK, Ahead, Unlinked
<1>4. QED BY <1>2, <1>3 DEF Kept, ListOK

\* Every step keeps the invariant, and changes the sequence as Fifo allows.
LEMMA ListStep ==
  ASSUME TakerAlone, NEW s \in Seq(Element), Kept(s), [Next]_vars
  PROVE  \E t : Moves(s, t) /\ Kept(t)'
<1>1. Kept(s)' => \E t : Moves(s, t) /\ Kept(t)'
  BY DEF Moves
<1>2. CASE AddPrev  BY <1>1, <1>2, AddPrevInv
<1>3. CASE AddNext  BY <1>1, <1>3, AddNextInv
<1>4. CASE AddLink  BY <1>4, AddLinkInv
<1>5. CASE AddBack  BY <1>1, <1>5, AddBackInv
<1>6. CASE TakeLast  BY <1>1, <1>6, TakeLastInv
<1>7. CASE TakeAll  BY <1>1, <1>7, TakeAllInv
<1>8. CASE WalkOn  BY <1>1, <1>8, WalkOnInv
<1>9. CASE DelNext  BY <1>9, DelNextInv
<1>10. CASE DelPrev  BY <1>1, <1>10, DelPrevInv
<1>11. CASE LookFirst  BY <1>1, <1>11, LookFirstInv
<1>12. CASE LookNext  BY <1>1, <1>12, LookNextInv
<1>13. CASE LookEnd  BY <1>1, <1>13, LookEndInv
<1>14. CASE UNCHANGED vars  BY <1>1, <1>14, StutterInv
<1>15. QED BY <1>2, <1>3, <1>4, <1>5, <1>6, <1>7, <1>8, <1>9, <1>10, <1>11, <1>12, <1>13, <1>14
  DEF Next
-----------------------------------------------------------------------------
(* What follows from the invariant. *)

\* A ring read against its direction.
LEMMA BackwardIsForward ==
  ASSUME NEW f, NEW s, Ring(s), Backward(f, s, 0)
  PROVE  Ring(Reverse(s)) /\ Forward(f, Reverse(s))
<1> DEFINE r == Reverse(s)
           n == Len(s)
<1>1. s \in Seq(Element) /\ n \in Nat /\ DOMAIN s = 1..n
  BY AtFacts DEF Ring
<1>2. \A i, j \in 1..n : s[i] = s[j] => i = j
  BY <1>1 DEF Ring, IsInjective
<1>3. /\ r \in Seq(Element) /\ Len(r) = n /\ DOMAIN r = 1..n
      /\ \A i \in 1..n : r[i] = s[(n - i) + 1]
  BY <1>1 DEF Reverse
<1> HIDE DEF r, n
<1>4. IsInjective(r)
  <2>1. ASSUME NEW i \in 1..n, NEW j \in 1..n, r[i] = r[j] PROVE i = j
    <3>1. (n - i) + 1 \in 1..n /\ (n - j) + 1 \in 1..n
      BY <1>1
    <3>2. (n - i) + 1 = (n - j) + 1
      BY <2>1, <3>1, <1>2, <1>3
    <3>3. QED BY <3>2, <1>1
  <2>2. QED BY <2>1, <1>3 DEF IsInjective
<1>5. /\ At(s, 0) = Base /\ At(s, n + 1) = Base /\ At(r, 0) = Base /\ At(r, n + 1) = Base
      /\ \A i \in 1..n : At(s, i) = s[i] /\ At(r, i) = r[i]
  BY <1>1, <1>3, AtFacts DEF n
<1>6. ASSUME NEW i \in 0..(n + 1) PROVE At(r, i) = At(s, (n + 1) - i)
  <2>1. CASE i = 0
    BY <2>1, <1>1, <1>5
  <2>2. CASE i = n + 1
    BY <2>2, <1>1, <1>5
  <2>3. CASE i # 0 /\ i # n + 1
    <3>1. i \in 1..n /\ (n - i) + 1 \in 1..n /\ (n + 1) - i = (n - i) + 1
      BY <2>3, <1>1
    <3>2. QED BY <3>1, <1>3, <1>5
  <2>4. QED BY <2>1, <2>2, <2>3
<1>7. ASSUME NEW i \in 0..n PROVE f[At(r, i)] = At(r, i + 1)
  <2>1. /\ i \in 0..(n + 1) /\ i + 1 \in 0..(n + 1) /\ (n + 1) - i \in 1..(n + 1)
        /\ (n + 1) - i # 0 /\ ((n + 1) - i) - 1 = (n + 1) - (i + 1)
    BY <1>1
  <2>2. f[At(s, (n + 1) - i)] = At(s, ((n + 1) - i) - 1)
    BY <2>1 DEF Backward, n
  <2>3. At(r, i) = At(s, (n + 1) - i) /\ At(r, i + 1) = At(s, (n + 1) - (i + 1))
    BY <2>1, <1>6
  <2>4. QED BY <2>1, <2>2, <2>3
<1>8. Ring(r) /\ Forward(f, r)
  BY <1>3, <1>4, <1>7 DEF Ring, Forward
<1>9. QED BY <1>8 DEF r

\* The sequence of the invariant is the one that Chain reads off.
LEMMA KeptChain ==
  ASSUME NEW s, Kept(s)
  PROVE  Chain(next) = s /\ s \in Seq(Element)
BY ChainIs DEF Kept, ListTyped, ListOK, RingOK, Ring

\* The invariant implies the properties.
LEMMA KeptBackwards ==
  ASSUME NEW s, Kept(s)
  PROVE  BackwardsToo
<1>1. SUFFICES ASSUME pc["adder"] = "idle", pc["taker"] = "idle"
               PROVE  Chain(prev) = Reverse(Chain(next))
  BY DEF BackwardsToo
<1>2. Ring(s) /\ Backward(prev, s, 0) /\ prev \in [Cell -> Cell \cup {NULL}]
  BY <1>1 DEF Kept, ListTyped, ListOK, RingOK
<1>3. Chain(prev) = Reverse(s)
  BY <1>2, BackwardIsForward, ChainIs
<1>4. QED BY <1>3, KeptChain

\* No element on the list, and not the one behind the base, was taken.
LEMMA KeptTaken ==
  ASSUME NEW s, Kept(s)
  PROVE  TakenIsGone
<1>1. SUFFICES ASSUME pc["taker"] = "idle"
               PROVE  Range(s) \cap freed = {} /\ prev[Base] \notin freed
  BY KeptChain DEF TakenIsGone
<1>2. s \in Seq(Element) /\ Ring(s) /\ Range(s) \cap freed = {} /\ freed \subseteq Element
  BY DEF Kept, ListTyped, ListOK, RingOK, Ring
<1>3. Base \notin freed
  BY <1>2, LinkedListAssumption
<1>4. Len(s) \in Nat /\ At(s, Len(s) + 1) = Base /\ At(s, 0) = Base
  BY <1>2, AtFacts
<1>5. At(s, Len(s)) \notin freed
  <2>1. CASE Len(s) = 0
    BY <2>1, <1>3, <1>4
  <2>2. CASE Len(s) # 0
    <3>1. Len(s) \in 1..Len(s)
      BY <2>2, <1>4
    <3>2. At(s, Len(s)) \in Range(s)
      BY <3>1, <1>2, RangeAt, AtFacts
    <3>3. QED BY <3>2, <1>2
  <2>3. QED BY <2>1, <2>2
<1>6. prev[Base] \in {Base, At(s, Len(s))}
  <2>1. /\ Len(s) + 1 \in 1..(Len(s) + 1) /\ (Len(s) + 1) - 1 = Len(s) /\ Len(s) + 1 # 0
    BY <1>4
  <2>2. CASE pc["adder"] # "add_back"
    <3>1. Backward(prev, s, 0)
      BY <2>2, <1>1 DEF Kept, ListOK, RingOK
    <3>2. prev[At(s, Len(s) + 1)] = At(s, (Len(s) + 1) - 1)
      BY <3>1, <2>1 DEF Backward
    <3>3. QED BY <3>2, <2>1, <1>4
  <2>3. CASE pc["adder"] = "add_back"
    <3>1. Backward(prev, s, 2) /\ prev[At(s, 2)] = Base
      BY <2>3 DEF Kept, ListOK, AdderOK
    <3>2. CASE Len(s) + 1 = 2
      BY <3>1, <3>2, <1>4
    <3>3. CASE Len(s) + 1 # 2
      <4>1. prev[At(s, Len(s) + 1)] = At(s, (Len(s) + 1) - 1)
        BY <3>1, <3>3, <2>1 DEF Backward
      <4>2. QED BY <4>1, <2>1, <1>4
    <3>4. QED BY <3>2, <3>3
  <2>4. QED BY <2>2, <2>3
<1>7. QED BY <1>2, <1>3, <1>5, <1>6

\* A walker at the end has nothing ahead of it, so it saw everything.
LEMMA KeptLookup ==
  ASSUME NEW s, Kept(s)
  PROVE  LookupSeesAll
<1>1. cur # NULL
  BY LinkedListAssumption DEF Kept, ListTyped
<1>2. ASSUME pc["walker"] = "look", cur = Base PROVE due \subseteq seen
  <2>1. s \in Seq(Element)
    BY DEF Kept, ListOK, RingOK, Ring
  <2>2. PICK c \in 1..(Len(s) + 1) : Ahead(s, c)
    BY <1>2 DEF Kept, ListOK, WalkerOK
  <2>3. c \notin 1..Len(s)
    BY <1>2, <2>1, <2>2, AtFacts, LinkedListAssumption DEF Ahead
  <2>4. ~\E j \in 1..Len(s) : c <= j
    BY <2>1, <2>3, AtFacts
  <2>5. QED BY <2>2, <2>4 DEF Ahead
<1>3. QED BY <1>1, <1>2 DEF LookupSeesAll

\* Kept, with the sequence that a reader of the list finds.
ListKept == Kept(Chain(next))

\* The invariant, of what Chain reads off the pointers.
LEMMA ListKeptInit == Init => ListKept
<1> SUFFICES ASSUME Init PROVE ListKept
  OBVIOUS
<1>1. PICK s : Kept(s)
  BY ListInit
<1>2. QED BY <1>1, KeptChain DEF ListKept

\* Every step keeps it and moves the sequence as Fifo does.
LEMMA ListKeptStep ==
  ASSUME TakerAlone, ListKept, [Next]_vars
  PROVE  ListKept' /\ Moves(Chain(next), Chain(next)')
<1>1. PICK s : s = Chain(next)
  OBVIOUS
<1>2. Kept(s) /\ s \in Seq(Element)
  BY <1>1, KeptChain DEF ListKept
<1>3. PICK t : Moves(s, t) /\ Kept(t)'
  BY <1>2, ListStep
<1>4. Chain(next)' = t
  <2>1. next' \in [Cell -> Cell \cup {NULL}] /\ Ring(t) /\ Forward(next', t)
    BY <1>3 DEF Kept, ListTyped, ListOK, RingOK
  <2>2. QED BY <2>1, ChainIs
<1>5. QED BY <1>1, <1>3, <1>4 DEF ListKept

\* The invariant holds in every state, if the taker works alone.
LEMMA ListInvariance == TakerAlone => (Spec => []ListKept)
<1> SUFFICES ASSUME TakerAlone PROVE Spec => []ListKept
  OBVIOUS
<1>1. ListKept /\ [Next]_vars => ListKept'
  BY ListKeptStep
<1>2. QED BY <1>1, ListKeptInit, PTL DEF Spec

-----------------------------------------------------------------------------
\* Whenever no list_add or list_del is under way, the prev pointers of the
\* list give the next pointers backwards, so that list_last_entry finds the
\* element that was added first: for every number of elements and of steps, of an
\* adder and a walker at work together, and of a taker that works alone.
THEOREM ListReadsBackwards == TakerAlone => (Spec => []BackwardsToo)
<1> SUFFICES ASSUME TakerAlone PROVE Spec => []BackwardsToo
  OBVIOUS
<1>1. ListKept => BackwardsToo
  BY KeptBackwards DEF ListKept
<1>2. QED BY <1>1, ListInvariance, PTL

\* While no element is being taken off, the elements that were taken off, and
\* that their takers send or free, are not on the list, nor does list_last_entry
\* find one of them: also between the statements of a list_add.
THEOREM TakenElementsAreGone == TakerAlone => (Spec => []TakenIsGone)
<1> SUFFICES ASSUME TakerAlone PROVE Spec => []TakenIsGone
  OBVIOUS
<1>1. ListKept => TakenIsGone
  BY KeptTaken DEF ListKept
<1>2. QED BY <1>1, ListInvariance, PTL

\* A lookup (list_for_each_entry) that ends has seen every element that was on
\* the list when it began, although list_add moves pointers under it.
THEOREM LookupsSeeAll == TakerAlone => (Spec => []LookupSeesAll)
<1> SUFFICES ASSUME TakerAlone PROVE Spec => []LookupSeesAll
  OBVIOUS
<1>1. ListKept => LookupSeesAll
  BY KeptLookup DEF ListKept
<1>2. QED BY <1>1, ListInvariance, PTL

\* The pointers of list.h implement the sequence of Fifo: every statement of
\* list_add, list_del and the walks is an addition at the front, a removal or a
\* stutter of the sequence.
THEOREM ImplementsFifo == TakerAlone => (Spec => ListIsSequence)
<1> SUFFICES ASSUME TakerAlone PROVE Spec => ListIsSequence
  OBVIOUS
<1>1. Init => AsSequence!Init
  <2> SUFFICES ASSUME Init PROVE Chain(next) = <<>>
    BY DEF AsSequence!Init
  <2>1. next[Base] = Base /\ next \in [Cell -> Cell \cup {NULL}]
    BY DEF Init, Cell
  <2> DEFINE s == <<>>
  <2>2. Ring(s) /\ Forward(next, s)
    BY <2>1 DEF Ring, IsInjective, Forward, At
  <2> HIDE DEF s
  <2>3. Chain(next) = s
    BY <2>1, <2>2, ChainIs
  <2>4. QED BY <2>3 DEF s
<1>2. ListKept /\ [Next]_vars => [AsSequence!Next]_(Chain(next))
  <2> SUFFICES ASSUME ListKept, [Next]_vars PROVE [AsSequence!Next]_(Chain(next))
    OBVIOUS
  <2>1. Moves(Chain(next), Chain(next)') /\ Chain(next) \in Seq(Element)
    BY ListKeptStep, KeptChain DEF ListKept
  <2>2. Range(Chain(next)) \subseteq Element
    BY <2>1 DEF Range
  <2>3. \A q : AsSequence!Range(q) = Range(q)
    BY DEF AsSequence!Range, Range
  <2>4. \A q, e : AsSequence!RemoveFirst(q, e) = RemoveFirst(q, e)
    BY DEF AsSequence!RemoveFirst, AsSequence!RemoveAt, AsSequence!SelectInSeq, AsSequence!Min,
           RemoveFirst, RemoveAt, SelectInSeq, Min
  <2>5. QED BY <2>1, <2>2, <2>3, <2>4 DEF Moves, AsSequence!Next, AsSequence!Add, AsSequence!Del
<1>3. QED BY <1>1, <1>2, ListInvariance, PTL DEF Spec, ListIsSequence, AsSequence!Spec

-----------------------------------------------------------------------------
(***************************************************************************)
(* THE ROUTING TABLE (ip.c)                                                *)
(***************************************************************************)
(* Division. *)

\* Quotient and remainder.
LEMMA DivMod ==
  ASSUME NEW a \in Nat, NEW d \in Nat \ {0}
  PROVE  a = d * (a \div d) + (a % d) /\ a % d \in 0..(d - 1) /\ a \div d \in Nat
OBVIOUS

\* A remainder is not larger than the number.
LEMMA ModAtMost ==
  ASSUME NEW a \in Nat, NEW d \in Nat \ {0}
  PROVE  a % d \in Nat /\ a % d <= a
<1> DEFINE x == a \div d
           y == a % d
<1>1. a = d * x + y /\ y \in 0..(d - 1) /\ x \in Nat
  BY DivMod
<1> HIDE DEF x, y
<1>2. d * x \in Nat
  BY <1>1
<1>3. QED BY <1>1, <1>2 DEF y

\* Multiples of d are at least d apart.
LEMMA MultiplesApart ==
  ASSUME NEW d \in Nat, NEW x \in Int, NEW y \in Int, x < y
  PROVE  d * x + d <= d * y
OBVIOUS

\* A quotient and a remainder are unique.
LEMMA DivUnique ==
  ASSUME NEW a \in Nat, NEW d \in Nat \ {0}, NEW q \in Int, NEW r \in 0..(d - 1), a = d * q + r
  PROVE  a % d = r /\ a \div d = q
<1> DEFINE x == a \div d
           y == a % d
<1>1. a = d * x + y /\ y \in 0..(d - 1) /\ x \in Nat
  BY DivMod
<1> HIDE DEF x, y
<1>2. ~(x < q)
  BY <1>1, MultiplesApart
<1>3. ~(q < x)
  BY <1>1, MultiplesApart
<1>4. x = q
  BY <1>1, <1>2, <1>3
<1>5. d * x = d * q /\ d * q \in Int
  BY <1>4
<1>6. y = r
  BY <1>1, <1>5
<1>7. QED BY <1>4, <1>6 DEF x, y

-----------------------------------------------------------------------------
(* Bits. *)

PowersOfTwo(f) == f = [k \in 0..AddrBits |-> IF k = 0 THEN 1 ELSE 2 * f[k - 1]]

\* The recursive function pow2 is defined and positive.
LEMMA Pow2Def ==
  /\ pow2 \in [0..AddrBits -> Nat \ {0}]
  /\ pow2[0] = 1 /\ \A k \in 1..AddrBits : pow2[k] = 2 * pow2[k - 1]
<1> DEFINE X == Nat \ {0}
           double == [x \in X |-> 2 * x]
           step == [i \in 1..AddrBits |-> double]
<1>0. AddrBits \in Nat
  BY RouteTableAssumption
<1>1. double \in [X -> X] /\ \A x \in X : double[x] = 2 * x
  OBVIOUS
<1>2. 1 \in X
  OBVIOUS
<1> HIDE DEF double, X
<1>3. step \in [1..AddrBits -> [X -> X]] /\ \A i \in 1..AddrBits : step[i] = double
  BY <1>1
<1> HIDE DEF step
<1>4. \E f : LoopValues(f, X, 1, AddrBits, step)
  BY <1>0, <1>2, <1>3, LoopDef
<1>5. PICK f : LoopValues(f, X, 1, AddrBits, step)
  BY <1>4
<1>6. f \in [0..AddrBits -> X] /\ f[0] = 1 /\ \A i \in 1..AddrBits : f[i] = step[i][f[i - 1]]
  BY <1>5 DEF LoopValues
<1>7. \A i \in 1..AddrBits : f[i] = 2 * f[i - 1]
  <2>1. SUFFICES ASSUME NEW i \in 1..AddrBits PROVE f[i] = 2 * f[i - 1]
    OBVIOUS
  <2>2. i - 1 \in 0..AddrBits
    BY <1>0
  <2>3. f[i - 1] \in X
    BY <2>2, <1>6
  <2>4. QED BY <2>3, <1>1, <1>3, <1>6
<1>8. PowersOfTwo(f)
  <2>1. \A k \in 0..AddrBits : f[k] = IF k = 0 THEN 1 ELSE 2 * f[k - 1]
    <3>1. SUFFICES ASSUME NEW k \in 0..AddrBits PROVE f[k] = IF k = 0 THEN 1 ELSE 2 * f[k - 1]
      OBVIOUS
    <3>2. k = 0 \/ k \in 1..AddrBits
      BY <1>0
    <3>3. QED BY <3>2, <1>6, <1>7
  <2>2. QED BY <2>1, <1>6 DEF PowersOfTwo
<1>9. PowersOfTwo(pow2)
  BY <1>8, Zenon DEF PowersOfTwo, pow2
<1>10. DOMAIN pow2 = 0..AddrBits /\ pow2[0] = 1 /\ \A k \in 1..AddrBits : pow2[k] = 2 * pow2[k - 1]
  <2>1. \A g : PowersOfTwo(g) => /\ DOMAIN g = 0..AddrBits
                                 /\ \A k \in 0..AddrBits : g[k] = IF k = 0 THEN 1 ELSE 2 * g[k - 1]
    BY DEF PowersOfTwo
  <2>2. /\ DOMAIN pow2 = 0..AddrBits
        /\ \A k \in 0..AddrBits : pow2[k] = IF k = 0 THEN 1 ELSE 2 * pow2[k - 1]
    BY <2>1, <1>9, Zenon
  <2>3. 0 \in 0..AddrBits /\ \A k \in 1..AddrBits : k \in 0..AddrBits /\ k # 0
    BY <1>0
  <2>4. QED BY <2>2, <2>3
<1>11. \A k \in 0..AddrBits : pow2[k] = f[k]
  <2> DEFINE U == {k \in 0..AddrBits : pow2[k] # f[k]}
  <2>1. SUFFICES ASSUME U # {} PROVE FALSE
    OBVIOUS
  <2>2. PICK k \in U : \A j \in U : k <= j
    <3>1. U \in SUBSET Nat
      BY <1>0
    <3> HIDE DEF U
    <3>2. QED BY <2>1, <3>1, LeastNat
  <2>3. CASE k = 0
    BY <2>3, <1>6, <1>10
  <2>4. CASE k # 0
    <3>1. k \in 1..AddrBits /\ k - 1 \in 0..AddrBits /\ k - 1 < k
      BY <2>4, <1>0
    <3>2. pow2[k - 1] = f[k - 1]
      BY <3>1, <2>2
    <3>3. QED BY <3>1, <3>2, <1>7, <1>10
  <2>5. QED BY <2>3, <2>4
<1>12. pow2 = [k \in 0..AddrBits |-> f[k]]
  BY <1>9, <1>11 DEF PowersOfTwo
<1>13. pow2 \in [0..AddrBits -> Nat \ {0}]
  BY <1>6, <1>12 DEF X
<1>14. QED BY <1>10, <1>13

Bit(a, j) == (a \div pow2[j]) % 2

\* One bit more of a remainder.
LEMMA OneBitMore ==
  ASSUME NEW a \in Nat, NEW k \in 0..(AddrBits - 1)
  PROVE  /\ a % pow2[k] \in 0..(pow2[k] - 1) /\ Bit(a, k) \in {0, 1}
         /\ a % pow2[k + 1] = (pow2[k] * Bit(a, k)) + (a % pow2[k])
<1> DEFINE p == pow2[k]
           x == a \div p
           r == a % p
           u == x \div 2
           v == x % 2
<1>1. k \in 0..AddrBits /\ k + 1 \in 1..AddrBits /\ (k + 1) - 1 = k
  BY RouteTableAssumption
<1>2. p \in Nat \ {0} /\ pow2[k + 1] = 2 * p
  BY <1>1, Pow2Def
<1> HIDE DEF p
<1>3. a = p * x + r /\ r \in 0..(p - 1) /\ x \in Nat
  BY <1>2, DivMod
<1> HIDE DEF x, r
<1>4. x = 2 * u + v /\ v \in {0, 1} /\ u \in Nat
  BY <1>3
<1> HIDE DEF u, v
<1>5. p * x = (2 * p) * u + p * v
  BY <1>2, <1>4
<1>6. p * v \in {0, p}
  BY <1>2, <1>4
<1>7. p * v + r \in 0..(2 * p - 1)
  BY <1>2, <1>3, <1>6
<1>8. a = (2 * p) * u + (p * v + r)
  BY <1>2, <1>3, <1>4, <1>5, <1>6
<1>9. a % (2 * p) = p * v + r
  <2>1. 2 * p \in Nat \ {0} /\ u \in Int
    BY <1>2, <1>4
  <2>2. QED BY <2>1, <1>7, <1>8, DivUnique
<1>10. Bit(a, k) = v
  BY DEF Bit, v, x, p
<1>11. QED BY <1>2, <1>3, <1>4, <1>9, <1>10 DEF p, r

SameBits(a, b, n) == \A j \in 0..(n - 1) : Bit(a, j) = Bit(b, j)

\* Numbers agree modulo a power of two when their low bits agree.
LEMMA LowBits ==
  ASSUME NEW a \in Nat, NEW b \in Nat, NEW n \in 0..AddrBits
  PROVE  a % pow2[n] = b % pow2[n] <=> SameBits(a, b, n)
<1> DEFINE Agree(m) == a % pow2[m] = b % pow2[m] <=> SameBits(a, b, m)
           U == {m \in 0..AddrBits : ~Agree(m)}
<1>0. AddrBits \in Nat
  BY RouteTableAssumption
<1> HIDE DEF Agree
<1>1. SUFFICES ASSUME U # {} PROVE FALSE
  BY DEF Agree
<1>2. PICK m \in U : \A j \in U : m <= j
  <2>1. U \in SUBSET Nat
    BY <1>0
  <2> HIDE DEF U
  <2>2. QED BY <1>1, <2>1, LeastNat
<1>3. CASE m = 0
  <2>1. a % pow2[0] = 0 /\ b % pow2[0] = 0
    BY Pow2Def
  <2>2. SameBits(a, b, 0)
    BY DEF SameBits
  <2>3. QED BY <2>1, <2>2, <1>3 DEF Agree
<1>4. CASE m # 0
  <2> DEFINE k == m - 1
  <2>1. k \in 0..AddrBits /\ k \in 0..(AddrBits - 1) /\ k + 1 = m /\ k < m /\ k \in Nat
    BY <1>0, <1>4
  <2>2. a % pow2[k] = b % pow2[k] <=> SameBits(a, b, k)
    BY <2>1, <1>2 DEF Agree
  <2> HIDE DEF k
  <2>3. SameBits(a, b, m) <=> SameBits(a, b, k) /\ Bit(a, k) = Bit(b, k)
    <3>1. \A j : j \in 0..(m - 1) <=> j \in 0..(k - 1) \/ j = k
      BY <2>1
    <3>2. QED BY <3>1 DEF SameBits
  <2>4. a % pow2[m] = b % pow2[m] <=> a % pow2[k] = b % pow2[k] /\ Bit(a, k) = Bit(b, k)
    <3> DEFINE p == pow2[k]
               x == a % p
               y == b % p
               v == Bit(a, k)
               w == Bit(b, k)
    <3>1. /\ x \in 0..(p - 1) /\ v \in {0, 1} /\ a % pow2[m] = (p * v) + x
      BY <2>1, OneBitMore
    <3>2. /\ y \in 0..(p - 1) /\ w \in {0, 1} /\ b % pow2[m] = (p * w) + y
      BY <2>1, OneBitMore
    <3>3. p \in Nat \ {0}
      BY <2>1, Pow2Def
    <3> HIDE DEF p, x, y, v, w
    <3>4. (p * v = IF v = 0 THEN 0 ELSE p) /\ (p * w = IF w = 0 THEN 0 ELSE p)
      BY <3>1, <3>2, <3>3
    <3>5. (p * v) + x = (p * w) + y <=> x = y /\ v = w
      BY <3>1, <3>2, <3>3, <3>4
    <3>6. QED BY <3>1, <3>2, <3>5 DEF x, y, v, w, p
  <2>5. QED BY <2>2, <2>3, <2>4 DEF Agree
<1>5. QED BY <1>3, <1>4
-----------------------------------------------------------------------------
(* Prefixes. *)

\* The prefixes end on octet boundaries and are shorter than an address.
OctetPrefixes == \A m \in Masks : m % OctetBits = 0 /\ m < AddrBits

\* The place of the k-th bit of an address as it is written.
BitPlace(k) == (k \div OctetBits) * OctetBits + (OctetBits - 1 - (k % OctetBits))

\* Within an octet the order of the bits is reversed, twice gives them back.
LEMMA BitOrder ==
  ASSUME NEW m \in Nat, m % OctetBits = 0, NEW k \in 0..(m - 1)
  PROVE  BitPlace(k) \in 0..(m - 1) /\ BitPlace(BitPlace(k)) = k
<1> DEFINE o == OctetBits
           q == k \div o
           r == k % o
           t == m \div o
           j == BitPlace(k)
<1>1. o \in Nat \ {0}
  BY RouteTableAssumption
<1>2. k \in Nat
  OBVIOUS
<1> HIDE DEF o
<1>3. k = o * q + r /\ r \in 0..(o - 1) /\ q \in Nat
  BY <1>1, <1>2, DivMod
<1>4. m = o * t /\ t \in Nat
  BY <1>1, DivMod DEF o
<1> HIDE DEF q, r, t
<1>5. q < t
  <2>1. SUFFICES ASSUME ~(q < t) PROVE FALSE
    OBVIOUS
  <2>2. o * t <= o * q
    BY <2>1, <1>1, <1>3, <1>4
  <2>3. QED BY <2>2, <1>1, <1>3, <1>4
<1>6. o * q + o <= m
  BY <1>1, <1>3, <1>4, <1>5, MultiplesApart
<1>7. q * o = o * q /\ o * q \in Nat
  BY <1>1, <1>3
<1>8. j = o * q + ((o - 1) - r)
  BY <1>1, <1>3, <1>7 DEF BitPlace, o, q, r
<1> HIDE DEF j
<1>9. j \in 0..(m - 1) /\ j \in Nat /\ (o - 1) - r \in 0..(o - 1)
  BY <1>1, <1>3, <1>6, <1>7, <1>8
<1>10. j % o = (o - 1) - r /\ j \div o = q
  BY <1>1, <1>3, <1>8, <1>9, DivUnique
<1>11. BitPlace(j) = (q * o) + ((o - 1) - ((o - 1) - r))
  BY <1>1, <1>3, <1>7, <1>10 DEF BitPlace, o
<1>12. BitPlace(j) = k
  BY <1>1, <1>3, <1>7, <1>11
<1>13. QED BY <1>9, <1>12 DEF j

\* A prefix that ends with an octet consists of the low bits of the number.
LEMMA PrefixIsLowBits ==
  ASSUME NEW a, NEW b, NEW m \in Nat, m % OctetBits = 0
  PROVE  SamePrefix(a, b, m) <=> SameBits(a, b, m)
<1>1. \A x, k : NetworkBit(x, k) = Bit(x, BitPlace(k))
  BY DEF NetworkBit, Bit, BitPlace
<1>2. ASSUME SamePrefix(a, b, m), NEW j \in 0..(m - 1) PROVE Bit(a, j) = Bit(b, j)
  <2>1. BitPlace(j) \in 0..(m - 1) /\ BitPlace(BitPlace(j)) = j
    BY BitOrder
  <2>2. NetworkBit(a, BitPlace(j)) = NetworkBit(b, BitPlace(j))
    BY <2>1, <1>2 DEF SamePrefix
  <2>3. QED BY <2>1, <2>2, <1>1
<1>3. ASSUME SameBits(a, b, m), NEW j \in 0..(m - 1) PROVE NetworkBit(a, j) = NetworkBit(b, j)
  <2>1. BitPlace(j) \in 0..(m - 1)
    BY BitOrder
  <2>2. QED BY <2>1, <1>1, <1>3 DEF SameBits
<1>4. QED BY <1>2, <1>3 DEF SamePrefix, SameBits

\* The comparison of masked addresses compares prefixes.
LEMMA NetEqIsPrefix ==
  ASSUME OctetPrefixes, NEW a \in Nat, NEW b \in Nat, NEW m \in Masks
  PROVE  IpNetEq(a, b, m) <=> SamePrefix(a, b, m)
<1>1. m \in Nat /\ m \in 0..AddrBits /\ m < AddrBits /\ m % OctetBits = 0 /\ AddrBits \in Nat \ {0}
  BY RouteTableAssumption DEF OctetPrefixes
<1>2. m % AddrBits = m
  BY <1>1
<1>3. IpNetEq(a, b, m) <=> a % pow2[m] = b % pow2[m]
  BY <1>2 DEF IpNetEq, IntIpMasked
<1>4. QED BY <1>1, <1>3, LowBits, PrefixIsLowBits
-----------------------------------------------------------------------------
(* The lookup. *)

Search == [max_mask : Nat, max_entry : Route \cup {NoRoute}, default_entry : Route \cup {NoRoute}]

NothingFound == [max_mask |-> 0, max_entry |-> NoRoute, default_entry |-> NoRoute]

TheSearch(table, ip) ==
  CHOOSE f : f = [k \in 0..Len(table) |->
                    IF k = 0 THEN NothingFound ELSE LookupStep(ip, f[k - 1], table[k])]

\* The definition, without its LET.
LEMMA LookupExpand ==
  ASSUME NEW table, NEW ip
  PROVE  RtLookupLpm(table, ip) =
           IF TheSearch(table, ip)[Len(table)].max_entry # NoRoute
             THEN TheSearch(table, ip)[Len(table)].max_entry
             ELSE TheSearch(table, ip)[Len(table)].default_entry
BY DEF RtLookupLpm, TheSearch, NothingFound

\* What the fields of a route hold.
LEMMA RouteFields ==
  /\ Masks \subseteq Nat /\ Addr \subseteq Nat
  /\ \A entry \in Route : /\ entry.dst \in Addr /\ entry.dst \in Nat
                           /\ entry.mask \in Masks /\ entry.mask \in Nat
                           /\ entry # NoRoute
<1>1. Masks \subseteq Nat
  BY RouteTableAssumption
<1>2. Addr \subseteq Nat
  BY DEF Addr
<1>3. \A entry \in Route : entry.dst \in Addr /\ entry.mask \in Masks
  BY DEF Route
<1>4. \A entry \in Route : entry # NoRoute
  BY NoRouteAssumption
<1>5. QED BY <1>1, <1>2, <1>3, <1>4

\* One turn of the loop.
LEMMA LookupTurn ==
  ASSUME NEW ip, NEW acc \in Search, NEW entry \in Route
  PROVE  /\ LookupStep(ip, acc, entry) \in Search
         /\ entry.dst = 0 =>
              /\ LookupStep(ip, acc, entry).default_entry = entry
              /\ LookupStep(ip, acc, entry).max_mask = acc.max_mask
              /\ LookupStep(ip, acc, entry).max_entry = acc.max_entry
         /\ entry.dst # 0 /\ IpNetEq(ip, entry.dst, entry.mask) /\ entry.mask > acc.max_mask =>
              /\ LookupStep(ip, acc, entry).default_entry = acc.default_entry
              /\ LookupStep(ip, acc, entry).max_mask = entry.mask
              /\ LookupStep(ip, acc, entry).max_entry = entry
         /\ entry.dst # 0 /\ ~(IpNetEq(ip, entry.dst, entry.mask) /\ entry.mask > acc.max_mask) =>
              LookupStep(ip, acc, entry) = acc
<1>1. entry.mask \in Nat
  BY RouteFields
<1>2. CASE entry.dst = 0
  <2>1. LookupStep(ip, acc, entry) = [acc EXCEPT !.default_entry = entry]
    BY <1>2 DEF LookupStep
  <2>2. QED BY <2>1, <1>2 DEF Search
<1>3. CASE entry.dst # 0 /\ IpNetEq(ip, entry.dst, entry.mask) /\ entry.mask > acc.max_mask
  <2>1. LookupStep(ip, acc, entry) = [acc EXCEPT !.max_mask = entry.mask, !.max_entry = entry]
    BY <1>3 DEF LookupStep
  <2>2. QED BY <2>1, <1>1, <1>3 DEF Search
<1>4. CASE entry.dst # 0 /\ ~(IpNetEq(ip, entry.dst, entry.mask) /\ entry.mask > acc.max_mask)
  <2>1. LookupStep(ip, acc, entry) = acc
    BY <1>4 DEF LookupStep
  <2>2. QED BY <2>1, <1>4
<1>5. QED BY <1>2, <1>3, <1>4

Searched(f, table, ip) ==
  /\ f \in [0..Len(table) -> Search] /\ f[0] = NothingFound
  /\ \A k \in 1..Len(table) : f[k] = LookupStep(ip, f[k - 1], table[k])

SearchRec(f, table, ip) ==
  f = [k \in 0..Len(table) |-> IF k = 0 THEN NothingFound ELSE LookupStep(ip, f[k - 1], table[k])]

\* The loop is defined for every table.
LEMMA SearchDef ==
  ASSUME NEW table \in Seq(Route), NEW ip
  PROVE  Searched(TheSearch(table, ip), table, ip)
<1> DEFINE n == Len(table)
           step == [i \in 1..n |-> [acc \in Search |-> LookupStep(ip, acc, table[i])]]
           h == TheSearch(table, ip)
<1>1. n \in Nat /\ \A i \in 1..n : table[i] \in Route
  BY ElementOfSeq
<1>2. NothingFound \in Search
  BY DEF NothingFound, Search
<1> HIDE DEF n
<1>3. \A i \in 1..n, acc \in Search : LookupStep(ip, acc, table[i]) \in Search
  BY <1>1, LookupTurn
<1>4. step \in [1..n -> [Search -> Search]]
  BY <1>3
<1>5. \A i \in 1..n, acc \in Search : step[i][acc] = LookupStep(ip, acc, table[i])
  OBVIOUS
<1> HIDE DEF step
<1>6. \E f : LoopValues(f, Search, NothingFound, n, step)
  BY <1>1, <1>2, <1>4, LoopDef
<1>7. PICK f : LoopValues(f, Search, NothingFound, n, step)
  BY <1>6
<1>8. f \in [0..n -> Search] /\ f[0] = NothingFound /\ \A i \in 1..n : f[i] = step[i][f[i - 1]]
  BY <1>7 DEF LoopValues
<1>9. \A k \in 1..n : f[k] = LookupStep(ip, f[k - 1], table[k])
  <2>1. SUFFICES ASSUME NEW k \in 1..n PROVE f[k] = LookupStep(ip, f[k - 1], table[k])
    OBVIOUS
  <2>2. k - 1 \in 0..n
    BY <1>1
  <2>3. f[k - 1] \in Search
    BY <2>2, <1>8
  <2>4. QED BY <2>3, <1>5, <1>8
<1>10. \A k \in 0..n : k = 0 \/ k \in 1..n
  BY <1>1
<1>11. SearchRec(f, table, ip)
  <2>1. \A k \in 0..n : f[k] = IF k = 0 THEN NothingFound ELSE LookupStep(ip, f[k - 1], table[k])
    BY <1>8, <1>9, <1>10
  <2>2. f = [k \in 0..n |-> f[k]]
    BY <1>8
  <2>3. QED BY <2>1, <2>2 DEF SearchRec, n
<1>12. SearchRec(h, table, ip)
  BY <1>11, Zenon DEF SearchRec, TheSearch
<1> HIDE DEF h
<1>13. /\ h = [k \in 0..n |-> h[k]] /\ h[0] = NothingFound
       /\ \A k \in 1..n : h[k] = LookupStep(ip, h[k - 1], table[k])
  <2>1. \A g : SearchRec(g, table, ip) =>
          /\ DOMAIN g = 0..n /\ g = [k \in 0..n |-> g[k]]
          /\ \A k \in 0..n : g[k] = IF k = 0 THEN NothingFound ELSE LookupStep(ip, g[k - 1], table[k])
    BY DEF SearchRec, n
  <2>2. /\ DOMAIN h = 0..n /\ h = [k \in 0..n |-> h[k]]
        /\ \A k \in 0..n : h[k] = IF k = 0 THEN NothingFound ELSE LookupStep(ip, h[k - 1], table[k])
    BY <2>1, <1>12, Zenon
  <2>3. 0 \in 0..n /\ \A k \in 1..n : k \in 0..n /\ k # 0
    BY <1>1
  <2>4. QED BY <2>2, <2>3
<1>14. \A k \in 0..n : h[k] = f[k]
  <2> DEFINE U == {k \in 0..n : h[k] # f[k]}
  <2>1. SUFFICES ASSUME U # {} PROVE FALSE
    OBVIOUS
  <2>2. PICK k \in U : \A j \in U : k <= j
    <3>1. U \in SUBSET Nat
      BY <1>1
    <3> HIDE DEF U
    <3>2. QED BY <2>1, <3>1, LeastNat
  <2>3. CASE k = 0
    BY <2>3, <1>8, <1>13
  <2>4. CASE k # 0
    <3>1. k \in 1..n /\ k - 1 \in 0..n /\ k - 1 < k
      BY <2>4, <1>1
    <3>2. h[k - 1] = f[k - 1]
      BY <3>1, <2>2
    <3>3. QED BY <3>1, <3>2, <1>9, <1>13
  <2>5. QED BY <2>3, <2>4
<1>15. h \in [0..n -> Search]
  BY <1>8, <1>13, <1>14
<1>16. QED BY <1>13, <1>15 DEF Searched, n, h

\* What the loop has found after k routes: the first of the longest prefixes
\* and the last default route among them.
Found(table, ip, k, acc) ==
  LET C == Candidates(table, ip)
      D == Defaults(table)
  IN  /\ acc \in Search
      /\ \A j \in C : j <= k => table[j].mask <= acc.max_mask
      /\ acc.max_entry = NoRoute => acc.max_mask = 0
      /\ acc.max_entry # NoRoute =>
           \E i \in C : /\ i <= k /\ table[i] = acc.max_entry /\ table[i].mask = acc.max_mask
                        /\ \A j \in C : j < i => table[j].mask < table[i].mask
      /\ acc.default_entry = NoRoute => \A j \in D : j > k
      /\ acc.default_entry # NoRoute =>
           \E i \in D : i <= k /\ table[i] = acc.default_entry /\ \A j \in D : j <= k => j <= i

\* One more route keeps that true.
LEMMA FoundTurn ==
  ASSUME OctetPrefixes, NEW table \in Seq(Route), NEW ip \in Addr, NEW k \in 1..Len(table),
         NEW acc, Found(table, ip, k - 1, acc)
  PROVE  Found(table, ip, k, LookupStep(ip, acc, table[k]))
<1> DEFINE C == Candidates(table, ip)
           D == Defaults(table)
           entry == table[k]
           r == LookupStep(ip, acc, entry)
<1>1. entry \in Route /\ Len(table) \in Nat /\ DOMAIN table = 1..Len(table) /\ k \in Nat
  BY ElementOfSeq
<1>2. /\ entry.dst \in Addr /\ entry.mask \in Masks /\ entry.mask \in Nat /\ entry # NoRoute
      /\ ip \in Nat /\ entry.dst \in Nat
  BY <1>1, RouteFields
<1>3. k \in C <=> entry.dst # 0 /\ entry.mask > 0 /\ IpNetEq(ip, entry.dst, entry.mask)
  BY <1>1, <1>2, NetEqIsPrefix DEF Candidates
<1>4. k \in D <=> entry.dst = 0
  BY <1>1 DEF Defaults
<1>5. C \subseteq 1..Len(table) /\ D \subseteq 1..Len(table)
  BY <1>1 DEF Candidates, Defaults
<1>6. \A j \in C : table[j].mask \in Nat
  BY <1>5, ElementOfSeq, RouteFields
<1>7. /\ acc \in Search /\ acc.max_mask \in Nat
      /\ \A j \in C : j <= k - 1 => table[j].mask <= acc.max_mask
      /\ acc.max_entry = NoRoute => acc.max_mask = 0
      /\ acc.max_entry # NoRoute =>
           \E i \in C : /\ i <= k - 1 /\ table[i] = acc.max_entry /\ table[i].mask = acc.max_mask
                        /\ \A j \in C : j < i => table[j].mask < table[i].mask
      /\ acc.default_entry = NoRoute => \A j \in D : j > k - 1
      /\ acc.default_entry # NoRoute =>
           \E i \in D : i <= k - 1 /\ table[i] = acc.default_entry /\ \A j \in D : j <= k - 1 => j <= i
  BY DEF Found, Search
<1>8. \A j \in C \cup D : j <= k <=> j <= k - 1 \/ j = k
  BY <1>1, <1>5
<1>9. \A j \in D : j > k - 1 <=> j > k \/ j = k
  BY <1>1, <1>5
<1> HIDE DEF C, D
<1>10. CASE entry.dst = 0
  <2>1. r \in Search /\ r.default_entry = entry /\ r.max_mask = acc.max_mask
        /\ r.max_entry = acc.max_entry
    BY <1>1, <1>7, <1>10, LookupTurn
  <2> HIDE DEF r
  <2>2. k \notin C /\ k \in D
    BY <1>3, <1>4, <1>10
  <2>3. \A j \in C : j <= k => table[j].mask <= r.max_mask
    BY <2>1, <2>2, <1>7, <1>8
  <2>4. r.max_entry # NoRoute =>
           \E i \in C : /\ i <= k /\ table[i] = r.max_entry /\ table[i].mask = r.max_mask
                        /\ \A j \in C : j < i => table[j].mask < table[i].mask
    BY <2>1, <1>7, <1>8
  <2>5. \E i \in D : i <= k /\ table[i] = r.default_entry /\ \A j \in D : j <= k => j <= i
    <3>1. k <= k /\ table[k] = r.default_entry
      BY <2>1, <1>1
    <3>2. QED BY <3>1, <2>2
  <2>6. QED BY <2>1, <2>3, <2>4, <2>5, <1>2, <1>7 DEF Found, r, C, D
<1>11. CASE entry.dst # 0 /\ IpNetEq(ip, entry.dst, entry.mask) /\ entry.mask > acc.max_mask
  <2>1. r \in Search /\ r.default_entry = acc.default_entry /\ r.max_mask = entry.mask
        /\ r.max_entry = entry
    BY <1>1, <1>7, <1>11, LookupTurn
  <2> HIDE DEF r
  <2>2. k \in C /\ k \notin D
    BY <1>2, <1>3, <1>4, <1>7, <1>11
  <2>3. \A j \in C : j <= k => table[j].mask <= r.max_mask
    BY <2>1, <1>2, <1>6, <1>7, <1>8, <1>11
  <2>4. \A j \in C : j < k => table[j].mask < entry.mask
    <3>1. SUFFICES ASSUME NEW j \in C, j < k PROVE table[j].mask < entry.mask
      OBVIOUS
    <3>2. j <= k - 1
      BY <3>1, <1>1, <1>5
    <3>3. table[j].mask <= acc.max_mask
      BY <3>2, <1>7
    <3>4. QED BY <3>3, <1>2, <1>6, <1>7, <1>11
  <2>5. \E i \in C : /\ i <= k /\ table[i] = r.max_entry /\ table[i].mask = r.max_mask
                     /\ \A j \in C : j < i => table[j].mask < table[i].mask
    <3>1. /\ k <= k /\ table[k] = r.max_entry /\ table[k].mask = r.max_mask
          /\ \A j \in C : j < k => table[j].mask < table[k].mask
      BY <2>1, <2>4, <1>1
    <3>2. QED BY <3>1, <2>2
  <2>6. r.default_entry = NoRoute => \A j \in D : j > k
    BY <2>1, <2>2, <1>7, <1>9
  <2>7. r.default_entry # NoRoute =>
           \E i \in D : i <= k /\ table[i] = r.default_entry /\ \A j \in D : j <= k => j <= i
    BY <2>1, <2>2, <1>7, <1>8
  <2>8. QED BY <2>1, <2>3, <2>5, <2>6, <2>7, <1>2 DEF Found, r, C, D
<1>12. CASE entry.dst # 0 /\ ~(IpNetEq(ip, entry.dst, entry.mask) /\ entry.mask > acc.max_mask)
  <2>1. r = acc
    BY <1>1, <1>7, <1>12, LookupTurn
  <2> HIDE DEF r
  <2>2. k \notin D
    BY <1>4, <1>12
  <2>3. k \in C => entry.mask <= acc.max_mask
    BY <1>2, <1>3, <1>7, <1>12
  <2>4. \A j \in C : j <= k => table[j].mask <= acc.max_mask
    BY <2>3, <1>7, <1>8
  <2>5. acc.max_entry # NoRoute =>
           \E i \in C : /\ i <= k /\ table[i] = acc.max_entry /\ table[i].mask = acc.max_mask
                        /\ \A j \in C : j < i => table[j].mask < table[i].mask
    BY <1>7, <1>8
  <2>6. acc.default_entry = NoRoute => \A j \in D : j > k
    BY <2>2, <1>7, <1>9
  <2>7. acc.default_entry # NoRoute =>
           \E i \in D : i <= k /\ table[i] = acc.default_entry /\ \A j \in D : j <= k => j <= i
    BY <2>2, <1>7, <1>8
  <2>8. QED BY <2>1, <2>4, <2>5, <2>6, <2>7, <1>7 DEF Found, r, C, D
<1>13. QED BY <1>10, <1>11, <1>12 DEF r

\* When the loop ends it has found the best of the whole table.
LEMMA FoundAtEnd ==
  ASSUME OctetPrefixes, NEW table \in Seq(Route), NEW ip \in Addr
  PROVE  Found(table, ip, Len(table), TheSearch(table, ip)[Len(table)])
<1> DEFINE n == Len(table)
           f == TheSearch(table, ip)
           U == {k \in 0..n : ~Found(table, ip, k, f[k])}
<1>1. Searched(f, table, ip) /\ n \in Nat
  BY SearchDef
<1>2. f[0] = NothingFound /\ \A k \in 1..n : f[k] = LookupStep(ip, f[k - 1], table[k])
  BY <1>1 DEF Searched
<1> HIDE DEF n, f
<1>3. SUFFICES ASSUME U # {} PROVE FALSE
  BY <1>1 DEF n, f
<1>4. PICK k \in U : \A j \in U : k <= j
  <2>1. U \in SUBSET Nat
    BY <1>1
  <2> HIDE DEF U
  <2>2. QED BY <1>3, <2>1, LeastNat
<1>5. CASE k = 0
  <2>1. DOMAIN table = 1..n
    BY DEF n
  <2>2. \A j \in Candidates(table, ip) \cup Defaults(table) : j > 0 /\ ~(j <= 0)
    BY <2>1, <1>1 DEF Candidates, Defaults
  <2>3. /\ NothingFound \in Search /\ NothingFound.max_mask = 0
        /\ NothingFound.max_entry = NoRoute /\ NothingFound.default_entry = NoRoute
    BY DEF NothingFound, Search
  <2>4. Found(table, ip, 0, NothingFound)
    BY <2>2, <2>3 DEF Found
  <2>5. QED BY <2>4, <1>2, <1>5
<1>6. CASE k # 0
  <2>1. k \in 1..n /\ k - 1 \in 0..n /\ k - 1 < k
    BY <1>1, <1>6
  <2>2. Found(table, ip, k - 1, f[k - 1])
    BY <2>1, <1>4
  <2>3. Found(table, ip, k, LookupStep(ip, f[k - 1], table[k]))
    BY <2>1, <2>2, FoundTurn DEF n
  <2>4. QED BY <2>1, <2>3, <1>2
<1>7. QED BY <1>5, <1>6

\* The lookup in any table finds the longest prefix.
LEMMA LookupFindsLongest ==
  ASSUME OctetPrefixes, NEW table \in Seq(Route), NEW ip \in Addr
  PROVE  RtLookupLpm(table, ip) = LongestPrefix(table, ip)
<1> DEFINE n == Len(table)
           C == Candidates(table, ip)
           D == Defaults(table)
           acc == TheSearch(table, ip)[n]
           First(k) == \A j \in C : \/ table[j].mask < table[k].mask
                                    \/ table[j].mask = table[k].mask /\ k <= j
           Oldest(k) == \A j \in D : j <= k
<1>1. Found(table, ip, n, acc)
  BY FoundAtEnd
<1>2. RtLookupLpm(table, ip) =
        IF acc.max_entry # NoRoute THEN acc.max_entry ELSE acc.default_entry
  BY LookupExpand
<1>3. n \in Nat /\ DOMAIN table = 1..n
  OBVIOUS
<1> HIDE DEF n, acc
<1>4. C \subseteq 1..n /\ D \subseteq 1..n
  BY <1>3 DEF Candidates, Defaults
<1>5. \A j \in C : table[j].mask \in Nat /\ table[j].mask > 0
  BY <1>4, ElementOfSeq, RouteFields DEF Candidates, n
<1>6. /\ \A j \in C : table[j].mask <= acc.max_mask
      /\ acc.max_entry = NoRoute => acc.max_mask = 0
      /\ acc.max_entry # NoRoute =>
           \E i \in C : /\ table[i] = acc.max_entry /\ table[i].mask = acc.max_mask
                        /\ \A j \in C : j < i => table[j].mask < table[i].mask
      /\ acc.default_entry = NoRoute => \A j \in D : j > n
      /\ acc.default_entry # NoRoute =>
           \E i \in D : table[i] = acc.default_entry /\ \A j \in D : j <= i
  BY <1>1, <1>3, <1>4 DEF Found
<1>7. LongestPrefix(table, ip) =
        CASE C # {} -> table[CHOOSE k \in C : First(k)]
          [] C = {} /\ D # {} -> table[CHOOSE k \in D : Oldest(k)]
          [] OTHER -> NoRoute
  BY DEF LongestPrefix
<1> HIDE DEF C, D
<1>8. CASE acc.max_entry # NoRoute
  <2>1. PICK i \in C : /\ table[i] = acc.max_entry /\ table[i].mask = acc.max_mask
                       /\ \A j \in C : j < i => table[j].mask < table[i].mask
    BY <1>6, <1>8
  <2>2. First(i)
    <3>1. SUFFICES ASSUME NEW j \in C
                   PROVE  \/ table[j].mask < table[i].mask
                          \/ table[j].mask = table[i].mask /\ i <= j
      OBVIOUS
    <3>2. table[j].mask <= table[i].mask /\ table[j].mask \in Nat /\ table[i].mask \in Nat
      BY <2>1, <1>5, <1>6
    <3>3. j < i => table[j].mask < table[i].mask
      BY <2>1
    <3>4. j \in Nat /\ i \in Nat
      BY <1>3, <1>4
    <3>5. QED BY <3>2, <3>3, <3>4
  <2>3. ASSUME NEW k \in C, First(k) PROVE k = i
    <3>1. table[k].mask < table[i].mask \/ (table[k].mask = table[i].mask /\ i <= k)
      BY <2>2
    <3>2. table[i].mask < table[k].mask \/ (table[i].mask = table[k].mask /\ k <= i)
      BY <2>3
    <3>3. table[k].mask \in Nat /\ table[i].mask \in Nat /\ k \in Nat /\ i \in Nat
      BY <1>3, <1>4, <1>5
    <3> HIDE DEF First
    <3>4. QED BY <3>1, <3>2, <3>3
  <2> HIDE DEF First
  <2>4. (CHOOSE k \in C : First(k)) = i
    BY <2>2, <2>3
  <2>5. LongestPrefix(table, ip) = table[i]
    BY <2>4, <1>7
  <2>6. QED BY <2>1, <2>5, <1>2, <1>8
<1>9. CASE acc.max_entry = NoRoute
  <2>1. C = {}
    BY <1>5, <1>6, <1>9
  <2>2. CASE acc.default_entry # NoRoute
    <3>1. PICK i \in D : table[i] = acc.default_entry /\ Oldest(i)
      BY <2>2, <1>6
    <3>2. \A k \in D : Oldest(k) => k = i
      BY <3>1, <1>3, <1>4
    <3> HIDE DEF Oldest
    <3>3. (CHOOSE k \in D : Oldest(k)) = i
      BY <3>1, <3>2
    <3>4. LongestPrefix(table, ip) = table[i]
      BY <3>3, <2>1, <1>7
    <3>5. QED BY <3>1, <3>4, <1>2, <1>9
  <2>3. CASE acc.default_entry = NoRoute
    <3>1. D = {}
      BY <2>3, <1>3, <1>4, <1>6
    <3>2. LongestPrefix(table, ip) = NoRoute
      BY <3>1, <2>1, <1>7
    <3>3. QED BY <3>2, <2>3, <1>2, <1>9
  <2>4. QED BY <2>2, <2>3
<1>10. QED BY <1>8, <1>9

-----------------------------------------------------------------------------
RtTypeOK == routes \in Seq(Route)

\* The table is a sequence of routes.
LEMMA RtTypeCorrect == RtSpec => []RtTypeOK
<1>1. RtInit => RtTypeOK
  BY DEF RtInit, RtTypeOK
<1>2. RtTypeOK /\ [RtNext]_routes => RtTypeOK'
  <2> SUFFICES ASSUME RtTypeOK, [RtNext]_routes PROVE RtTypeOK'
    OBVIOUS
  <2>1. ASSUME NEW dst \in Addr, NEW mask \in Masks, NEW hop \in NextHops, NEW intf \in Intf,
               RtTableAddRoute(dst, mask, hop, intf)
        PROVE  RtTypeOK'
    <3>1. PICK entry : entry = [dst |-> dst, mask |-> mask, next |-> hop, intf |-> intf]
      OBVIOUS
    <3>2. entry \in Route /\ routes' = <<entry>> \o routes
      BY <2>1, <3>1 DEF RtTableAddRoute, Route
    <3>3. QED BY <3>2 DEF RtTypeOK
  <2>2. ASSUME NEW ip \in Addr, NEW mask \in Masks, NEW intf \in Intf,
               AddConnectedRoute(ip, mask, intf)
        PROVE  RtTypeOK'
    <3>1. PICK dst : dst = IntIpMasked(ip, mask)
      OBVIOUS
    <3>2. dst \in Addr
      <4>1. mask % AddrBits \in 0..AddrBits
        BY RouteTableAssumption
      <4>2. PICK d \in Nat \ {0} : d = pow2[mask % AddrBits]
        BY <4>1, Pow2Def
      <4>3. PICK top \in Int : top = pow2[AddrBits] - 1
        BY Pow2Def, RouteTableAssumption
      <4>4. ip \in Nat /\ ip <= top
        BY <4>3 DEF Addr
      <4>5. ip % d \in Nat /\ ip % d <= ip
        BY <4>4, ModAtMost
      <4>6. dst = ip % d
        BY <3>1, <4>2 DEF IntIpMasked
      <4>7. dst \in 0..top
        BY <4>3, <4>4, <4>5, <4>6
      <4>8. QED BY <4>3, <4>7 DEF Addr
    <3>3. RtTableAddRoute(dst, mask, 0, intf)
      BY <2>2, <3>1 DEF AddConnectedRoute
    <3>4. 0 \in NextHops
      BY RouteTableAssumption
    <3>5. QED BY <2>1, <3>2, <3>3, <3>4
  <2>3. CASE DestroyRtTable
    BY <2>3 DEF DestroyRtTable, RtTypeOK
  <2>4. CASE UNCHANGED routes
    BY <2>4 DEF RtTypeOK
  <2>5. QED BY <2>1, <2>2, <2>3, <2>4 DEF RtNext
<1>3. QED BY <1>1, <1>2, PTL DEF RtSpec

\* rt_lookup_lpm returns, for every table that rt_table_add_route and
\* node_set_intf_ip_addr build and every address, the newest route with the
\* longest prefix of the address as it is written, else a default route: for
\* every width of addresses and octets, if prefixes end with an octet and are
\* shorter than an address.  With other prefixes INT_IP_MASKED compares the wrong
\* bits, and the lookup is not right.
THEOREM LookupReturnsLongestPrefix == OctetPrefixes => (RtSpec => []LookupIsLpm)
<1> SUFFICES ASSUME OctetPrefixes PROVE RtSpec => []LookupIsLpm
  OBVIOUS
<1>1. RtTypeOK => LookupIsLpm
  BY LookupFindsLongest DEF RtTypeOK, LookupIsLpm
<1>2. QED BY <1>1, RtTypeCorrect, PTL

-----------------------------------------------------------------------------
(***************************************************************************)
(* THE CHECKSUM (utils.c)                                                  *)
(***************************************************************************)
(* Sums. *)

\* The sizes of a byte and a word.
LEMMA WordSize ==
  Radix \in Nat /\ Radix >= 3 /\ Word \in Nat /\ Word >= 9 /\ Word = Radix * Radix
<1>1. Radix \in Nat /\ Radix >= 3
  BY ChecksumAssumption
<1>2. Radix * Radix \in Nat /\ Radix * Radix >= 9
  BY <1>1
<1>3. QED BY <1>1, <1>2 DEF Word

\* a is the one's complement sum of words whose sum is x.
Residue(x, a) ==
  /\ a \in 0..(Word - 1)
  /\ a = 0 <=> x = 0
  /\ \E q \in Nat : x = (Word - 1) * q + a

\* It is unique.
LEMMA ResidueUnique ==
  ASSUME NEW x, NEW a, NEW b, Residue(x, a), Residue(x, b)
  PROVE  a = b
<1>1. PICK m \in Nat : m = Word - 1 /\ m >= 8
  BY WordSize
<1>2. PICK p \in Nat : x = m * p + a
  BY <1>1 DEF Residue
<1>3. PICK q \in Nat : x = m * q + b
  BY <1>1 DEF Residue
<1>4. a \in 0..m /\ b \in 0..m /\ (a = 0 <=> b = 0)
  BY <1>1 DEF Residue
<1>5. m * p \in Nat /\ m * q \in Nat
  BY <1>1, <1>2, <1>3
<1>6. ~(p < q)
  BY <1>1, <1>2, <1>3, <1>4, <1>5, MultiplesApart
<1>7. ~(q < p)
  BY <1>1, <1>2, <1>3, <1>4, <1>5, MultiplesApart
<1>8. p = q
  BY <1>6, <1>7
<1>9. QED BY <1>2, <1>3, <1>4, <1>5, <1>8

\* One fold.
LEMMA FoldOnce ==
  ASSUME NEW x \in Nat
  PROVE  /\ Fold(x) \in Nat /\ (Fold(x) = 0 <=> x = 0)
         /\ x = (Word - 1) * (x \div Word) + Fold(x)
         /\ x \div Word \in Nat /\ x % Word \in 0..(Word - 1)
<1>1. PICK w \in Nat : w = Word /\ w >= 9
  BY WordSize
<1> DEFINE p == x \div w
           r == x % w
<1>2. x = w * p + r /\ p \in Nat /\ r \in 0..(w - 1)
  <2>1. w \in Nat \ {0}
    BY <1>1
  <2>2. QED BY <2>1, DivMod
<1>3. Fold(x) = r + p
  BY <1>1 DEF Fold
<1> HIDE DEF p, r
<1>4. w * p = (w - 1) * p + p /\ (w - 1) * p \in Nat /\ w * p \in Nat
  BY <1>1, <1>2
<1>5. p = 0 => w * p = 0
  BY <1>1, <1>2
<1>6. p # 0 => w * p > 0
  BY <1>1, <1>2
<1>7. QED BY <1>1, <1>2, <1>3, <1>4, <1>5, <1>6 DEF p, r

\* Two folds of 32 bits leave 16, and add the carries round.
LEMMA TwoFolds ==
  ASSUME NEW x \in Nat, x < Word * Word
  PROVE  Residue(x, Folds2(x))
<1>1. PICK w \in Nat : w = Word /\ w >= 9
  BY WordSize
<1> DEFINE y == Fold(x)
           z == Fold(y)
           p == x \div w
           q == y \div w
<1>2. /\ y \in Nat /\ (y = 0 <=> x = 0) /\ x = (w - 1) * p + y
      /\ p \in Nat /\ x % w \in 0..(w - 1) /\ y = (x % w) + p
  BY <1>1, FoldOnce DEF Fold
<1>3. /\ z \in Nat /\ (z = 0 <=> y = 0) /\ y = (w - 1) * q + z
      /\ q \in Nat /\ y % w \in 0..(w - 1) /\ z = (y % w) + q
  BY <1>1, <1>2, FoldOnce DEF Fold
<1>4. x = w * p + (x % w) /\ y = w * q + (y % w)
  BY <1>1, <1>2, DivMod
<1> HIDE DEF p, q, y, z
<1>5. p <= w - 1
  <2>1. SUFFICES ASSUME p >= w PROVE FALSE
    BY <1>1, <1>2
  <2>2. w * p >= w * w
    BY <2>1, <1>1, <1>2
  <2>3. QED BY <2>2, <1>1, <1>2, <1>4
<1>6. y <= (2 * w) - 2
  BY <1>1, <1>2, <1>5
<1>7. q \in {0, 1}
  <2>1. SUFFICES ASSUME q >= 2 PROVE FALSE
    BY <1>3
  <2>2. w * q >= w * 2
    BY <2>1, <1>1, <1>3
  <2>3. QED BY <2>2, <1>1, <1>3, <1>4, <1>6
<1>8. z \in 0..(w - 1)
  <2>1. CASE q = 0
    BY <2>1, <1>1, <1>3
  <2>2. CASE q = 1
    <3>1. w * q = w
      BY <2>2, <1>1
    <3>2. QED BY <2>2, <3>1, <1>1, <1>3, <1>4, <1>6
  <2>3. QED BY <2>1, <2>2, <1>7
<1>9. x = (w - 1) * (p + q) + z
  <2>1. (w - 1) * (p + q) = (w - 1) * p + (w - 1) * q
    BY <1>1, <1>2, <1>3
  <2>2. (w - 1) * p \in Nat /\ (w - 1) * q \in Nat
    BY <1>1, <1>2, <1>3
  <2>3. PICK u \in Nat : u = (w - 1) * p
    BY <2>2
  <2>4. PICK v \in Nat : v = (w - 1) * q
    BY <2>2
  <2>5. x = u + y /\ y = v + z /\ (w - 1) * (p + q) = u + v
    BY <2>1, <2>3, <2>4, <1>2, <1>3
  <2>6. QED BY <2>3, <2>4, <2>5, <1>2, <1>3
<1>10. Folds2(x) = z /\ p + q \in Nat
  BY <1>2, <1>3 DEF Folds2, z, y
<1>11. QED BY <1>1, <1>2, <1>3, <1>8, <1>9, <1>10 DEF Residue

\* The standard adds word by word, with the carry.
Plus(a, b) == IF a + b >= Word THEN a + b - Word + 1 ELSE a + b

\* Adding with the carry keeps it the one's complement sum.
LEMMA PlusResidue ==
  ASSUME NEW x \in Nat, NEW a, Residue(x, a), NEW v \in 0..(Word - 1)
  PROVE  Residue(x + v, Plus(a, v))
<1>1. PICK m \in Nat : m = Word - 1 /\ m >= 8 /\ Word = m + 1
  BY WordSize
<1>2. PICK q \in Nat : x = m * q + a
  BY <1>1 DEF Residue
<1>3. a \in 0..m /\ (a = 0 <=> x = 0)
  BY <1>1 DEF Residue
<1>4. m * q \in Nat /\ m * (q + 1) = (m * q) + m
  BY <1>1, <1>2
<1>5. CASE a + v >= Word
  <2>1. Plus(a, v) = a + v - m
    BY <1>1, <1>3, <1>5 DEF Plus
  <2>2. x + v = m * (q + 1) + (a + v - m)
    BY <1>1, <1>2, <1>3, <1>4
  <2>3. a + v - m \in 0..m /\ a + v - m # 0 /\ x + v # 0 /\ q + 1 \in Nat
    BY <1>1, <1>2, <1>3, <1>4, <1>5
  <2>4. QED BY <2>1, <2>2, <2>3, <1>1 DEF Residue
<1>6. CASE ~(a + v >= Word)
  <2>1. Plus(a, v) = a + v
    BY <1>6 DEF Plus
  <2>2. x + v = m * q + (a + v)
    BY <1>1, <1>2, <1>3, <1>4
  <2>3. a + v \in 0..m /\ (a + v = 0 <=> x + v = 0)
    BY <1>1, <1>2, <1>3, <1>4, <1>6
  <2>4. QED BY <2>1, <2>2, <2>3, <1>1 DEF Residue
<1>7. QED BY <1>5, <1>6
-----------------------------------------------------------------------------
(* The words of a buffer. *)

Count(b) == (Len(b) + 1) \div 2

\* A word in host order; the byte that an odd size leaves is its high byte.
WordAt(b, i) == b[2 * i - 1] * Radix + (IF 2 * i <= Len(b) THEN b[2 * i] ELSE 0)

\* The number of words.
LEMMA CountFacts ==
  ASSUME NEW b \in Seq(Byte)
  PROVE  /\ Len(b) \in Nat /\ Count(b) \in Nat /\ Len(b) \div 2 \in Nat
         /\ Len(b) % 2 = 0 => Count(b) = Len(b) \div 2 /\ Len(b) = 2 * Count(b)
         /\ Len(b) % 2 = 1 => Count(b) = (Len(b) \div 2) + 1 /\ Len(b) = 2 * Count(b) - 1
         /\ Len(b) % 2 \in {0, 1}
<1>1. Len(b) \in Nat
  OBVIOUS
<1>2. QED BY <1>1 DEF Count

\* The values of a byte.
LEMMA ByteRange == Byte \subseteq Nat /\ 0 \in Byte /\ \A x \in Byte : x <= Radix - 1
BY WordSize DEF Byte

\* Two bytes make a word.
LEMMA TwoBytes ==
  ASSUME NEW x \in Byte, NEW y \in Byte
  PROVE  x * Radix + y \in 0..(Word - 1)
<1>1. PICK r \in Nat : r = Radix /\ r >= 3 /\ Word = r * r
  BY WordSize
<1>2. x \in Nat /\ y \in Nat /\ x <= r - 1 /\ y <= r - 1
  BY <1>1, ByteRange
<1>3. r * x + r <= r * r
  BY <1>1, <1>2, MultiplesApart
<1>4. x * r = r * x /\ r * x \in Nat /\ r * r \in Nat
  BY <1>1, <1>2
<1>5. QED BY <1>1, <1>2, <1>3, <1>4

\* A word of a buffer is a word.
LEMMA WordAtRange ==
  ASSUME NEW b \in Seq(Byte), NEW i \in 1..Count(b)
  PROVE  WordAt(b, i) \in 0..(Word - 1)
<1>1. 2 * i - 1 \in 1..Len(b)
  BY CountFacts
<1>2. b[2 * i - 1] \in Byte
  BY <1>1, ElementOfSeq
<1>3. 2 * i <= Len(b) => b[2 * i] \in Byte
  BY CountFacts, ElementOfSeq
<1>4. (IF 2 * i <= Len(b) THEN b[2 * i] ELSE 0) \in Byte
  BY <1>3, ByteRange
<1>5. QED BY <1>2, <1>4, TwoBytes DEF WordAt

\* NTOHS of a word that was loaded is the word in host order.
LEMMA NtohsLoad ==
  ASSUME NEW x \in Byte, NEW y \in Byte
  PROVE  HTONS(x + Radix * y) = x * Radix + y
<1>1. PICK r \in Nat \ {0} : r = Radix
  BY WordSize
<1>2. x \in 0..(r - 1) /\ y \in Nat
  BY <1>1, ByteRange
<1>3. r * y + x \in Nat /\ x + r * y = r * y + x
  BY <1>1, <1>2
<1>4. (r * y + x) % r = x /\ (r * y + x) \div r = y
  BY <1>1, <1>2, <1>3, DivUnique
<1>5. HTONS(x + r * y) = y + x * r
  BY <1>1, <1>3, <1>4 DEF HTONS
<1>6. x * r \in Nat
  BY <1>1, <1>2
<1>7. QED BY <1>1, <1>2, <1>5, <1>6

\* What the loop of calc_checksum_16 adds is a word of the buffer.
LEMMA LoadedWord ==
  ASSUME NEW b \in Seq(Byte), NEW i \in 1..(Len(b) \div 2)
  PROVE  HTONS(Load(b, 2 * i - 1)) = WordAt(b, i) /\ i \in 1..Count(b)
<1>1. /\ 2 * i - 1 \in 1..Len(b) /\ 2 * i \in 1..Len(b) /\ i \in 1..Count(b)
      /\ (2 * i - 1) + 1 = 2 * i /\ 2 * i <= Len(b)
  BY CountFacts
<1>2. b[2 * i - 1] \in Byte /\ b[2 * i] \in Byte
  BY <1>1, ElementOfSeq
<1>3. Load(b, 2 * i - 1) = b[2 * i - 1] + Radix * b[2 * i]
  BY <1>1 DEF Load
<1>4. WordAt(b, i) = b[2 * i - 1] * Radix + b[2 * i]
  BY <1>1 DEF WordAt
<1>5. QED BY <1>1, <1>2, <1>3, <1>4, NtohsLoad

\* The sums of the first words.
Totals(t, b) ==
  /\ t \in [0..Count(b) -> Nat] /\ t[0] = 0
  /\ \A k \in 1..Count(b) : t[k] = t[k - 1] + WordAt(b, k)

\* They are defined.
LEMMA TotalsExist ==
  ASSUME NEW b \in Seq(Byte)
  PROVE  \E t : Totals(t, b)
<1> DEFINE n == Count(b)
           step == [k \in 1..n |-> [x \in Nat |-> x + WordAt(b, k)]]
<1>1. n \in Nat
  BY CountFacts
<1>2. \A k \in 1..n : WordAt(b, k) \in Nat
  BY WordAtRange, WordSize
<1> HIDE DEF n
<1>3. step \in [1..n -> [Nat -> Nat]]
  BY <1>2
<1>4. \A k \in 1..n, x \in Nat : step[k][x] = x + WordAt(b, k)
  OBVIOUS
<1> HIDE DEF step
<1>5. PICK t : LoopValues(t, Nat, 0, n, step)
  <2>1. \E t : LoopValues(t, Nat, 0, n, step)
    BY <1>1, <1>3, LoopDef
  <2>2. QED BY <2>1
<1>6. t \in [0..n -> Nat] /\ t[0] = 0 /\ \A k \in 1..n : t[k] = step[k][t[k - 1]]
  BY <1>5 DEF LoopValues
<1>7. ASSUME NEW k \in 1..n PROVE t[k] = t[k - 1] + WordAt(b, k)
  <2>1. k - 1 \in 0..n
    BY <1>1
  <2>2. t[k - 1] \in Nat
    BY <2>1, <1>6
  <2>3. QED BY <2>2, <1>4, <1>6
<1>8. Totals(t, b)
  BY <1>6, <1>7 DEF Totals, n
<1>9. QED BY <1>8

\* The sum of a buffer of up to 0x10000 words does not overflow 32 bits.
LEMMA TotalBound ==
  ASSUME NEW b \in Seq(Byte), NEW t, Totals(t, b), Count(b) <= Word
  PROVE  t[Count(b)] \in Nat /\ t[Count(b)] < Word * Word
<1> DEFINE n == Count(b)
           U == {k \in 0..n : ~(t[k] <= k * (Word - 1))}
<1>1. n \in Nat /\ Word \in Nat /\ Word >= 9
  BY CountFacts, WordSize
<1>2. t \in [0..n -> Nat] /\ t[0] = 0 /\ \A k \in 1..n : t[k] = t[k - 1] + WordAt(b, k)
  BY DEF Totals
<1>3. \A k \in 1..n : WordAt(b, k) \in 0..(Word - 1)
  BY WordAtRange
<1> HIDE DEF n
<1>4. U = {}
  <2>1. SUFFICES ASSUME U # {} PROVE FALSE
    OBVIOUS
  <2>2. PICK k \in U : \A j \in U : k <= j
    <3>1. U \in SUBSET Nat
      BY <1>1
    <3> HIDE DEF U
    <3>2. QED BY <2>1, <3>1, LeastNat
  <2>3. CASE k = 0
    BY <2>3, <1>1, <1>2
  <2>4. CASE k # 0
    <3>1. k \in 1..n /\ k - 1 \in 0..n /\ k - 1 < k /\ k \in Nat
      BY <2>4, <1>1
    <3>2. t[k - 1] <= (k - 1) * (Word - 1) /\ t[k - 1] \in Nat
      BY <3>1, <2>2, <1>2
    <3>3. (k - 1) * (Word - 1) + (Word - 1) = k * (Word - 1)
      BY <3>1, <1>1
    <3>4. t[k] = t[k - 1] + WordAt(b, k) /\ WordAt(b, k) \in 0..(Word - 1)
      BY <3>1, <1>2, <1>3
    <3>5. PICK u \in Nat : u = (k - 1) * (Word - 1)
      BY <3>1, <1>1
    <3>6. t[k] <= k * (Word - 1)
      BY <3>2, <3>3, <3>4, <3>5, <1>1
    <3>7. QED BY <3>6
  <2>5. QED BY <2>3, <2>4
<1>5. n \in 0..n /\ n <= Word
  BY <1>1 DEF n
<1>6. t[n] \in Nat /\ t[n] <= n * (Word - 1)
  BY <1>2, <1>4, <1>5
<1>7. n * (Word - 1) <= Word * (Word - 1) /\ n * (Word - 1) \in Nat
  BY <1>1, <1>5
<1>8. Word * (Word - 1) + Word = Word * Word /\ Word * (Word - 1) \in Nat
  BY <1>1
<1>9. t[n] < Word * Word
  BY <1>1, <1>6, <1>7, <1>8
<1>10. QED BY <1>6, <1>9 DEF n

\* The loop of calc_checksum_16, without its LET.
SumRec(f, b) ==
  f = [k \in 0..(Len(b) \div 2) |-> IF k = 0 THEN 0 ELSE f[k - 1] + HTONS(Load(b, 2 * k - 1))]

TheSum(b) ==
  CHOOSE f : f = [k \in 0..(Len(b) \div 2) |->
                    IF k = 0 THEN 0 ELSE f[k - 1] + HTONS(Load(b, 2 * k - 1))]

\* The definition, without its LET.
LEMMA WordSumExpand ==
  ASSUME NEW b
  PROVE  WordSum(b) = TheSum(b)[Len(b) \div 2]
BY DEF WordSum, TheSum

\* The code adds up the words of the buffer, also of one of odd size.
LEMMA WordSumIs ==
  ASSUME NEW b \in Seq(Byte), NEW t, Totals(t, b)
  PROVE  WordSum(b) + OddByte(b) = t[Count(b)]
<1> DEFINE m == Len(b) \div 2
           n == Count(b)
           h == TheSum(b)
           f == [k \in 0..m |-> t[k]]
<1>1. m \in Nat /\ n \in Nat /\ m <= n
  BY CountFacts
<1>2. t \in [0..n -> Nat] /\ t[0] = 0 /\ \A k \in 1..n : t[k] = t[k - 1] + WordAt(b, k)
  BY DEF Totals
<1>3. \A k \in 1..m : HTONS(Load(b, 2 * k - 1)) = WordAt(b, k)
  BY LoadedWord
<1> HIDE DEF m, n
<1>4. SumRec(f, b)
  <2>1. ASSUME NEW k \in 0..m
        PROVE  f[k] = IF k = 0 THEN 0 ELSE f[k - 1] + HTONS(Load(b, 2 * k - 1))
    <3>1. CASE k = 0
      BY <3>1, <1>1, <1>2
    <3>2. CASE k # 0
      <4>1. k \in 1..m /\ k \in 1..n /\ k - 1 \in 0..m
        BY <3>2, <1>1
      <4>2. f[k] = t[k] /\ f[k - 1] = t[k - 1]
        BY <4>1
      <4>3. QED BY <4>1, <4>2, <3>2, <1>2, <1>3
    <3>3. QED BY <3>1, <3>2
  <2>2. f = [k \in 0..m |-> f[k]]
    OBVIOUS
  <2> HIDE DEF f
  <2>3. QED BY <2>1, <2>2 DEF SumRec, m
<1>5. SumRec(h, b)
  <2>1. \E g : SumRec(g, b)
    BY <1>4
  <2>2. QED BY <2>1, Zenon DEF TheSum, SumRec
<1> HIDE DEF f, h
<1>6. /\ h[0] = 0
      /\ \A k \in 1..m : h[k] = h[k - 1] + WordAt(b, k)
  <2>1. \A g : SumRec(g, b) => \A k \in 0..m : g[k] = IF k = 0 THEN 0 ELSE g[k - 1] + HTONS(Load(b, 2 * k - 1))
    BY DEF SumRec, m
  <2>2. \A k \in 0..m : h[k] = IF k = 0 THEN 0 ELSE h[k - 1] + HTONS(Load(b, 2 * k - 1))
    BY <2>1, <1>5, Zenon
  <2>3. 0 \in 0..m /\ \A k \in 1..m : k \in 0..m /\ k # 0
    BY <1>1
  <2>4. QED BY <2>2, <2>3, <1>3
<1>7. \A k \in 0..m : h[k] = t[k]
  <2> DEFINE U == {k \in 0..m : h[k] # t[k]}
  <2>1. SUFFICES ASSUME U # {} PROVE FALSE
    OBVIOUS
  <2>2. PICK k \in U : \A j \in U : k <= j
    <3>1. U \in SUBSET Nat
      BY <1>1
    <3> HIDE DEF U
    <3>2. QED BY <2>1, <3>1, LeastNat
  <2>3. CASE k = 0
    BY <2>3, <1>2, <1>6
  <2>4. CASE k # 0
    <3>1. k \in 1..m /\ k \in 1..n /\ k - 1 \in 0..m /\ k - 1 < k
      BY <2>4, <1>1
    <3>2. h[k - 1] = t[k - 1]
      BY <3>1, <2>2
    <3>3. QED BY <3>1, <3>2, <1>2, <1>6
  <2>5. QED BY <2>3, <2>4
<1>8. WordSum(b) = t[m]
  BY <1>1, <1>7, WordSumExpand DEF h, m
<1>9. CASE Len(b) % 2 = 0
  <2>1. OddByte(b) = 0 /\ n = m
    BY <1>9, CountFacts DEF OddByte, n, m
  <2>2. t[m] \in Nat
    BY <1>1, <1>2
  <2>3. QED BY <2>1, <2>2, <1>8 DEF n
<1>10. CASE Len(b) % 2 = 1
  <2>1. n = m + 1 /\ Len(b) = 2 * n - 1 /\ n \in 1..n /\ n - 1 = m /\ ~(2 * n <= Len(b))
    BY <1>10, <1>1, CountFacts DEF n, m
  <2>2. b[Len(b)] \in Byte
    BY <2>1, ElementOfSeq
  <2>3. b[Len(b)] * Radix \in Nat
    <3>1. PICK x \in Nat : x = b[Len(b)]
      BY <2>2, ByteRange
    <3>2. x * Radix \in Nat
      BY WordSize
    <3>3. QED BY <3>1, <3>2
  <2>4. OddByte(b) = b[Len(b)] * Radix
    BY <1>10 DEF OddByte
  <2>5. WordAt(b, n) = b[Len(b)] * Radix
    BY <2>1, <2>3 DEF WordAt
  <2>6. t[n] = t[n - 1] + WordAt(b, n)
    BY <2>1, <1>2
  <2>7. QED BY <2>1, <2>4, <2>5, <2>6, <1>8 DEF n
<1>11. QED BY <1>9, <1>10, CountFacts

-----------------------------------------------------------------------------
(* The standard. *)

Padded(b) == b \o (IF Len(b) % 2 = 1 THEN <<0>> ELSE <<>>)

PaddedWord(b, k) == Padded(b)[2 * k - 1] * Radix + Padded(b)[2 * k]

StandardRec(f, b) ==
  f = [k \in 0..(Len(Padded(b)) \div 2) |-> IF k = 0 THEN 0 ELSE Plus(f[k - 1], PaddedWord(b, k))]

TheStandard(b) ==
  CHOOSE f : f = [k \in 0..(Len(Padded(b)) \div 2) |->
                    IF k = 0 THEN 0 ELSE Plus(f[k - 1], PaddedWord(b, k))]

\* The definition, without its LET.
LEMMA ReferenceExpand ==
  ASSUME NEW b
  PROVE  Reference(b) = Word - 1 - TheStandard(b)[Len(Padded(b)) \div 2]
BY DEF Reference, TheStandard, PaddedWord, Padded, Plus

\* The padded buffer has the same words.
LEMMA PaddedWords ==
  ASSUME NEW b \in Seq(Byte)
  PROVE  /\ Len(Padded(b)) \div 2 = Count(b)
         /\ \A k \in 1..Count(b) : PaddedWord(b, k) = WordAt(b, k)
<1> DEFINE p == Padded(b)
<1>1. CASE Len(b) % 2 = 0
  <2>1. p = b
    BY <1>1 DEF Padded
  <2>2. \A k \in 1..Count(b) : 2 * k <= Len(b)
    BY <1>1, CountFacts
  <2>3. QED BY <2>1, <2>2, <1>1, CountFacts DEF PaddedWord, WordAt
<1>2. CASE Len(b) % 2 = 1
  <2>1. p = Append(b, 0)
    BY <1>2 DEF Padded
  <2>2. Len(p) = Len(b) + 1 /\ p[Len(b) + 1] = 0 /\ \A i \in 1..Len(b) : p[i] = b[i]
    BY <2>1
  <2>3. Len(p) \div 2 = Count(b)
    BY <2>2 DEF Count
  <2> HIDE DEF p
  <2>4. ASSUME NEW k \in 1..Count(b) PROVE PaddedWord(b, k) = WordAt(b, k)
    <3>1. PaddedWord(b, k) = p[2 * k - 1] * Radix + p[2 * k]
      BY DEF PaddedWord, p
    <3>2. CASE k = Count(b)
      <4>1. 2 * k - 1 = Len(b) /\ 2 * k = Len(b) + 1 /\ ~(2 * k <= Len(b)) /\ 2 * k - 1 \in 1..Len(b)
        BY <3>2, <1>2, CountFacts
      <4>2. QED BY <4>1, <3>1, <2>2 DEF WordAt
    <3>3. CASE k # Count(b)
      <4>1. 2 * k - 1 \in 1..Len(b) /\ 2 * k \in 1..Len(b) /\ 2 * k <= Len(b)
        BY <3>3, <1>2, CountFacts
      <4>2. QED BY <4>1, <3>1, <2>2 DEF WordAt
    <3>4. QED BY <3>2, <3>3
  <2>5. QED BY <2>3, <2>4 DEF p
<1>3. QED BY <1>1, <1>2, CountFacts

\* A sum with the carry added is a word.
LEMMA PlusRange ==
  ASSUME NEW a \in 0..(Word - 1), NEW v \in 0..(Word - 1)
  PROVE  Plus(a, v) \in 0..(Word - 1)
<1>1. Word \in Nat
  BY WordSize
<1>2. QED BY <1>1 DEF Plus

\* The standard's sum is defined.
LEMMA StandardDef ==
  ASSUME NEW b \in Seq(Byte)
  PROVE  /\ TheStandard(b)[0] = 0
         /\ \A k \in 1..Count(b) :
              TheStandard(b)[k] = Plus(TheStandard(b)[k - 1], WordAt(b, k))
<1> DEFINE n == Count(b)
           X == 0..(Word - 1)
           step == [k \in 1..n |-> [x \in X |-> Plus(x, WordAt(b, k))]]
           h == TheStandard(b)
<1>1. n \in Nat
  BY CountFacts
<1>2. \A k \in 1..n, x \in X : Plus(x, WordAt(b, k)) \in X
  BY WordAtRange, PlusRange
<1>3. 0 \in X
  BY WordSize
<1>4. Len(Padded(b)) \div 2 = n /\ \A k \in 1..n : PaddedWord(b, k) = WordAt(b, k)
  BY PaddedWords
<1> HIDE DEF n, X
<1>5. step \in [1..n -> [X -> X]]
  BY <1>2
<1>6. \A k \in 1..n, x \in X : step[k][x] = Plus(x, WordAt(b, k))
  OBVIOUS
<1> HIDE DEF step
<1>7. PICK f : LoopValues(f, X, 0, n, step)
  <2>1. \E f : LoopValues(f, X, 0, n, step)
    BY <1>1, <1>3, <1>5, LoopDef
  <2>2. QED BY <2>1
<1>8. f \in [0..n -> X] /\ f[0] = 0 /\ \A k \in 1..n : f[k] = step[k][f[k - 1]]
  BY <1>7 DEF LoopValues
<1>9. StandardRec(f, b)
  <2>1. ASSUME NEW k \in 0..n
        PROVE  f[k] = IF k = 0 THEN 0 ELSE Plus(f[k - 1], PaddedWord(b, k))
    <3>1. CASE k = 0
      BY <3>1, <1>8
    <3>2. CASE k # 0
      <4>1. k \in 1..n /\ k - 1 \in 0..n
        BY <3>2, <1>1
      <4>2. f[k - 1] \in X
        BY <4>1, <1>8
      <4>3. QED BY <4>1, <4>2, <3>2, <1>4, <1>6, <1>8
    <3>3. QED BY <3>1, <3>2
  <2>2. f = [k \in 0..n |-> f[k]]
    BY <1>8
  <2>3. QED BY <2>1, <2>2, <1>4 DEF StandardRec
<1>10. StandardRec(h, b)
  <2>1. \E g : StandardRec(g, b)
    BY <1>9
  <2>2. QED BY <2>1, Zenon DEF TheStandard, StandardRec
<1> HIDE DEF h
<1>11. \A k \in 0..n : h[k] = IF k = 0 THEN 0 ELSE Plus(h[k - 1], PaddedWord(b, k))
  <2>1. \A g : StandardRec(g, b) =>
          \A k \in 0..n : g[k] = IF k = 0 THEN 0 ELSE Plus(g[k - 1], PaddedWord(b, k))
    BY <1>4 DEF StandardRec
  <2>2. QED BY <2>1, <1>10, Zenon
<1>12. 0 \in 0..n /\ \A k \in 1..n : k \in 0..n /\ k # 0
  BY <1>1
<1>13. QED BY <1>4, <1>11, <1>12 DEF n, h

\* It is the one's complement sum of the words.
LEMMA ReferenceIs ==
  ASSUME NEW b \in Seq(Byte), NEW t, Totals(t, b)
  PROVE  Residue(t[Count(b)], TheStandard(b)[Count(b)])
         /\ Reference(b) = Word - 1 - TheStandard(b)[Count(b)]
<1> DEFINE n == Count(b)
           h == TheStandard(b)
           U == {k \in 0..n : ~Residue(t[k], h[k])}
<1>1. n \in Nat /\ h[0] = 0 /\ \A k \in 1..n : h[k] = Plus(h[k - 1], WordAt(b, k))
  BY CountFacts, StandardDef
<1>2. t \in [0..n -> Nat] /\ t[0] = 0 /\ \A k \in 1..n : t[k] = t[k - 1] + WordAt(b, k)
  BY DEF Totals
<1>3. \A k \in 1..n : WordAt(b, k) \in 0..(Word - 1)
  BY WordAtRange
<1>4. Reference(b) = Word - 1 - h[n]
  BY ReferenceExpand, PaddedWords
<1> HIDE DEF n, h
<1>5. U = {}
  <2>1. SUFFICES ASSUME U # {} PROVE FALSE
    OBVIOUS
  <2>2. PICK k \in U : \A j \in U : k <= j
    <3>1. U \in SUBSET Nat
      BY <1>1
    <3> HIDE DEF U
    <3>2. QED BY <2>1, <3>1, LeastNat
  <2>3. CASE k = 0
    <3>1. 0 = (Word - 1) * 0 + 0 /\ 0 \in 0..(Word - 1)
      BY WordSize
    <3>2. Residue(0, 0)
      BY <3>1 DEF Residue
    <3>3. QED BY <3>2, <2>3, <1>1, <1>2
  <2>4. CASE k # 0
    <3>1. k \in 1..n /\ k - 1 \in 0..n /\ k - 1 < k
      BY <2>4, <1>1
    <3>2. Residue(t[k - 1], h[k - 1]) /\ t[k - 1] \in Nat
      BY <3>1, <2>2, <1>2
    <3>3. Residue(t[k - 1] + WordAt(b, k), Plus(h[k - 1], WordAt(b, k)))
      BY <3>1, <3>2, <1>3, PlusResidue
    <3>4. QED BY <3>1, <3>3, <1>1, <1>2
  <2>5. QED BY <2>3, <2>4
<1>6. n \in 0..n
  BY <1>1
<1>7. Residue(t[n], h[n])
  BY <1>5, <1>6
<1>8. QED BY <1>4, <1>7 DEF n, h

\* calc_checksum_16 is the complement of the same sum.
LEMMA CalcIs ==
  ASSUME NEW b \in Seq(Byte), NEW t, Totals(t, b), Count(b) <= Word
  PROVE  \E a : Residue(t[Count(b)], a) /\ CalcChecksum16(b) = Word - 1 - a
<1> DEFINE x == WordSum(b) + OddByte(b)
           a == Folds2(x)
<1>1. x = t[Count(b)] /\ x \in Nat /\ x < Word * Word
  BY WordSumIs, TotalBound
<1>2. PICK w \in Nat : w = Word /\ w >= 9
  BY WordSize
<1>3. CalcChecksum16(b) = (w - 1 - Folds2(x % (w * w))) % w
  BY <1>2 DEF CalcChecksum16
<1> HIDE DEF x
<1>4. x % (w * w) = x
  <2>1. PICK d \in Nat \ {0} : d = w * w
    BY <1>2
  <2>2. x \in 0..(d - 1)
    BY <2>1, <1>1, <1>2
  <2>3. QED BY <2>1, <2>2
<1>5. Residue(x, a)
  BY <1>1, TwoFolds
<1> HIDE DEF a
<1>6. a \in 0..(w - 1)
  BY <1>2, <1>5 DEF Residue
<1>7. (w - 1 - a) % w = w - 1 - a
  BY <1>2, <1>6
<1>8. CalcChecksum16(b) = Word - 1 - a
  BY <1>2, <1>3, <1>4, <1>7 DEF a
<1>9. QED BY <1>1, <1>5, <1>8

\* On every buffer of up to 0x10000 words calc_checksum_16 computes the
\* checksum of the standard.
LEMMA CalcIsReference ==
  ASSUME NEW b \in Seq(Byte), Count(b) <= Word
  PROVE  CalcChecksum16(b) = Reference(b) /\ Reference(b) \in 0..(Word - 1)
<1>1. PICK t : Totals(t, b)
  BY TotalsExist
<1>2. PICK a : Residue(t[Count(b)], a) /\ CalcChecksum16(b) = Word - 1 - a
  BY <1>1, CalcIs
<1>3. PICK c : Residue(t[Count(b)], c) /\ Reference(b) = Word - 1 - c
  BY <1>1, ReferenceIs
<1>4. a = c
  BY <1>2, <1>3, ResidueUnique
<1>5. c \in 0..(Word - 1)
  BY <1>3 DEF Residue
<1>6. QED BY <1>2, <1>3, <1>4, <1>5, WordSize

-----------------------------------------------------------------------------
(* Filling in a checksum. *)

\* HTONS swaps the bytes of a word.
LEMMA SwapBytes ==
  ASSUME NEW c \in 0..(Word - 1)
  PROVE  /\ HTONS(c) % Radix \in Byte /\ HTONS(c) \div Radix \in Byte
         /\ (HTONS(c) % Radix) * Radix + (HTONS(c) \div Radix) = c
<1>1. PICK r \in Nat \ {0} : r = Radix /\ r >= 3 /\ Word = r * r
  BY WordSize
<1> DEFINE x == c \div r
           y == c % r
<1>2. c \in Nat /\ c < r * r
  BY <1>1, WordSize
<1>3. c = r * x + y /\ y \in 0..(r - 1) /\ x \in Nat
  BY <1>1, <1>2, DivMod
<1>4. HTONS(c) = x + y * r
  BY <1>1 DEF HTONS
<1> HIDE DEF x, y
<1>5. x <= r - 1
  <2>1. SUFFICES ASSUME x >= r PROVE FALSE
    BY <1>1, <1>3
  <2>2. r * x >= r * r
    BY <2>1, <1>1, <1>3
  <2>3. QED BY <2>2, <1>1, <1>2, <1>3
<1>6. r * y + x \in Nat /\ x + y * r = r * y + x /\ x \in 0..(r - 1) /\ y \in Int
  BY <1>1, <1>3, <1>5
<1>7. (r * y + x) % r = x /\ (r * y + x) \div r = y
  BY <1>1, <1>3, <1>6, DivUnique
<1>8. HTONS(c) % Radix = x /\ HTONS(c) \div Radix = y
  BY <1>1, <1>4, <1>6, <1>7
<1>9. x * Radix + y = c
  BY <1>1, <1>3, <1>6
<1>10. x \in Byte /\ y \in Byte
  BY <1>1, <1>3, <1>6 DEF Byte
<1>11. QED BY <1>8, <1>9, <1>10

\* Storing the j-th word changes that word only.
LEMMA StoreWord ==
  ASSUME NEW b \in Seq(Byte), NEW j \in 1..(Len(b) \div 2), NEW c \in 0..(Word - 1)
  PROVE  LET d == Store(b, 2 * j - 1, HTONS(c))
         IN  /\ d \in Seq(Byte) /\ Len(d) = Len(b)
             /\ \A i \in 1..Len(b) : i # 2 * j - 1 /\ i # 2 * j => d[i] = b[i]
             /\ WordAt(d, j) = c
             /\ \A i \in 1..Count(b) : i # j => WordAt(d, i) = WordAt(b, i)
<1> DEFINE d == Store(b, 2 * j - 1, HTONS(c))
           x == HTONS(c) % Radix
           y == HTONS(c) \div Radix
           n == Len(b)
<1>1. x \in Byte /\ y \in Byte /\ x * Radix + y = c
  BY SwapBytes
<1>2. /\ 2 * j - 1 \in 1..n /\ 2 * j \in 1..n /\ (2 * j - 1) + 1 = 2 * j
      /\ j \in 1..Count(b) /\ n \in Nat /\ 2 * j # 2 * j - 1
  BY CountFacts
<1>3. d = [b EXCEPT ![2 * j - 1] = x, ![2 * j] = y]
  BY <1>2 DEF Store
<1> HIDE DEF x, y
<1>4. DOMAIN b = 1..n /\ b \in [1..n -> Byte]
  BY <1>2, ElementOfSeq
<1> HIDE DEF n
<1>5. d \in [1..n -> Byte]
  BY <1>1, <1>3, <1>4
<1>6. d[2 * j - 1] = x /\ d[2 * j] = y
  BY <1>2, <1>3, <1>4
<1>7. \A i \in 1..n : i # 2 * j - 1 /\ i # 2 * j => d[i] = b[i]
  BY <1>3, <1>4
<1> HIDE DEF d
<1>8. d \in Seq(Byte) /\ Len(d) = n
  BY <1>2, <1>5
<1>9. WordAt(d, j) = c
  BY <1>1, <1>2, <1>6, <1>8 DEF WordAt
<1>10. ASSUME NEW i \in 1..Count(b), i # j PROVE WordAt(d, i) = WordAt(b, i)
  <2>1. 2 * i - 1 \in 1..n /\ 2 * i - 1 # 2 * j - 1 /\ 2 * i - 1 # 2 * j
    BY <1>10, <1>2, CountFacts DEF n
  <2>2. d[2 * i - 1] = b[2 * i - 1]
    BY <2>1, <1>7
  <2>3. 2 * i <= n => 2 * i \in 1..n /\ 2 * i # 2 * j - 1 /\ 2 * i # 2 * j
    BY <1>10, <1>2, CountFacts DEF n
  <2>4. 2 * i <= n => d[2 * i] = b[2 * i]
    BY <2>3, <1>7
  <2>5. QED BY <2>2, <2>4, <1>8 DEF WordAt, n
<1>11. QED BY <1>7, <1>8, <1>9, <1>10 DEF d, n

\* The sum of a buffer in which a word of zeros is replaced.
LEMMA TotalWithWord ==
  ASSUME NEW b \in Seq(Byte), NEW d \in Seq(Byte), Len(d) = Len(b), NEW j \in 1..Count(b),
         WordAt(b, j) = 0, NEW c \in Nat, WordAt(d, j) = c,
         \A i \in 1..Count(b) : i # j => WordAt(d, i) = WordAt(b, i),
         NEW t, Totals(t, b)
  PROVE  \E u : Totals(u, d) /\ Count(d) = Count(b) /\ u[Count(d)] = t[Count(b)] + c
<1> DEFINE n == Count(b)
           u == [k \in 0..n |-> IF k < j THEN t[k] ELSE t[k] + c]
<1>1. Count(d) = n /\ n \in Nat
  BY CountFacts DEF Count
<1>2. t \in [0..n -> Nat] /\ t[0] = 0 /\ \A k \in 1..n : t[k] = t[k - 1] + WordAt(b, k)
  BY DEF Totals
<1> HIDE DEF n
<1>3. j \in 1..n /\ j \in Nat /\ 0 < j /\ ~(n < j) /\ n \in 0..n /\ 0 \in 0..n
  BY <1>1 DEF n
<1>4. u \in [0..n -> Nat]
  BY <1>2
<1>5. u[0] = 0 /\ u[n] = t[n] + c
  BY <1>2, <1>3
<1>6. ASSUME NEW k \in 1..n PROVE u[k] = u[k - 1] + WordAt(d, k)
  <2>1. k \in 0..n /\ k - 1 \in 0..n
    BY <1>1
  <2>2. t[k] \in Nat /\ t[k - 1] \in Nat /\ t[k] = t[k - 1] + WordAt(b, k)
    BY <2>1, <1>2
  <2>3. CASE k = j
    <3>1. u[k] = t[k] + c /\ u[k - 1] = t[k - 1]
      BY <2>1, <2>3, <1>3
    <3>2. QED BY <3>1, <2>2, <2>3
  <2>4. CASE k # j
    <3>1. WordAt(d, k) = WordAt(b, k)
      BY <2>4 DEF n
    <3>2. WordAt(b, k) \in Nat
      BY WordAtRange, WordSize DEF n
    <3>3. CASE k < j
      <4>1. u[k] = t[k] /\ u[k - 1] = t[k - 1]
        BY <2>1, <3>3, <1>3
      <4>2. QED BY <4>1, <3>1, <2>2
    <3>4. CASE ~(k < j)
      <4>1. u[k] = t[k] + c /\ u[k - 1] = t[k - 1] + c
        BY <2>1, <2>4, <3>4, <1>3
      <4>2. QED BY <4>1, <3>1, <3>2, <2>2
    <3>5. QED BY <3>3, <3>4
  <2>5. QED BY <2>3, <2>4
<1> HIDE DEF u
<1>7. Totals(u, d) /\ u[Count(d)] = t[Count(b)] + c
  BY <1>1, <1>4, <1>5, <1>6 DEF Totals, n
<1>8. QED BY <1>1, <1>7 DEF n

\* A buffer with the complement of its sum in place of a word of zeros checks.
LEMMA FilledChecks ==
  ASSUME NEW b \in Seq(Byte), Count(b) <= Word, NEW j \in 1..(Len(b) \div 2), WordAt(b, j) = 0
  PROVE  LET d == Store(b, 2 * j - 1, HTONS(CalcChecksum16(b)))
         IN  Reference(d) = 0 /\ CalcChecksum16(d) = 0
<1> DEFINE c == CalcChecksum16(b)
           d == Store(b, 2 * j - 1, HTONS(c))
           n == Count(b)
<1>1. PICK m \in Nat : m = Word - 1 /\ m >= 8 /\ Word = m + 1
  BY WordSize
<1>2. PICK t : Totals(t, b)
  BY TotalsExist
<1>3. PICK a : Residue(t[n], a) /\ c = m - a
  BY <1>1, <1>2, CalcIs
<1>4. a \in 0..m /\ (a = 0 <=> t[n] = 0)
  BY <1>1, <1>3 DEF Residue
<1>5. c \in 0..(Word - 1) /\ c \in Nat
  BY <1>1, <1>3, <1>4
<1> HIDE DEF c
<1>6. /\ d \in Seq(Byte) /\ Len(d) = Len(b) /\ WordAt(d, j) = c
      /\ \A i \in 1..n : i # j => WordAt(d, i) = WordAt(b, i)
  BY <1>5, StoreWord
<1>7. j \in 1..n
  BY CountFacts
<1> HIDE DEF d
<1>8. PICK u : Totals(u, d) /\ Count(d) = n /\ u[Count(d)] = t[n] + c
  BY <1>2, <1>5, <1>6, <1>7, TotalWithWord
<1>9. Residue(t[n] + c, m)
  <2>1. PICK q \in Nat : t[n] = m * q + a
    BY <1>1, <1>3 DEF Residue
  <2>2. m * q \in Nat
    BY <1>1, <2>1
  <2>3. t[n] + c = m * q + m /\ t[n] + c # 0
    BY <2>1, <2>2, <1>1, <1>3, <1>4
  <2>4. m \in 0..(Word - 1) /\ m # 0
    BY <1>1
  <2>5. QED BY <2>1, <2>3, <2>4, <1>1 DEF Residue
<1>10. Residue(u[Count(d)], TheStandard(d)[Count(d)]) /\ Reference(d) = Word - 1 - TheStandard(d)[Count(d)]
  BY <1>6, <1>8, ReferenceIs
<1>11. TheStandard(d)[Count(d)] = m
  BY <1>8, <1>9, <1>10, ResidueUnique
<1>12. Reference(d) = 0
  BY <1>1, <1>10, <1>11
<1>13. CalcChecksum16(d) = 0
  BY <1>6, <1>8, <1>12, CalcIsReference
<1>14. QED BY <1>12, <1>13 DEF d, c

-----------------------------------------------------------------------------
(* Packets. *)

PacketTyped ==
  /\ stage \in {"none", "output", "forwarded"}
  /\ hdr \in Seq(Byte) /\ Len(hdr) = 6
  /\ l4 \in Seq(Byte) /\ Len(l4) <= MaxPayload + 4

\* None of the buffers has too many words.
LEMMA FewWords ==
  ASSUME NEW b \in Seq(Byte), Len(b) <= MaxPayload + 8
  PROVE  Count(b) <= Word
<1>1. MaxPayload \in Nat /\ MaxPayload + 8 <= Word /\ Word \in Nat
  BY ChecksumAssumption, WordSize
<1>2. Len(b) \in Nat /\ Count(b) \in Nat /\ 2 * Count(b) <= Len(b) + 1
  BY CountFacts
<1>3. QED BY <1>1, <1>2

\* The values that the headers start with are bytes.
LEMMA SmallBytes == 0 \in Byte /\ 1 \in Byte /\ 2 \in Byte /\ MaxTtl \in Byte
BY ChecksumAssumption DEF Byte

\* A sequence is a function.
LEMMA SeqFunction ==
  ASSUME NEW b \in Seq(Byte)
  PROVE  DOMAIN b = 1..Len(b) /\ b \in [1..Len(b) -> Byte] /\ Len(b) \in Nat
BY ElementOfSeq

\* ip_postroute writes the source address and the checksum.
LEMMA PostrouteHdr ==
  ASSUME NEW h \in Seq(Byte), Len(h) = 6, NEW src \in Byte
  PROVE  LET g == IpPostrouteCksum(h, src)
         IN  /\ g \in Seq(Byte) /\ Len(g) = 6
             /\ g[2] = h[2] /\ g[5] = src /\ g[6] = h[6]
             /\ h[3] = 0 /\ h[4] = 0 => Reference(g) = 0 /\ CheckIpHcksum(g)
<1> DEFINE k == [h EXCEPT ![5] = src]
           c == CalcChecksum16(k)
           g == Store(k, 3, HTONS(c))
<1>1. PICK n \in Nat : n = Len(h) /\ n = 6
  OBVIOUS
<1>2. DOMAIN h = 1..n /\ h \in [1..n -> Byte]
  BY <1>1, SeqFunction
<1>3. k \in Seq(Byte) /\ Len(k) = 6
  <2>1. k \in [1..n -> Byte]
    BY <1>2
  <2> HIDE DEF k
  <2>2. k \in Seq(Byte) /\ Len(k) = n
    BY <2>1
  <2>3. QED BY <2>2, <1>1
<1>4. k[5] = src /\ k[6] = h[6] /\ k[2] = h[2] /\ k[3] = h[3] /\ k[4] = h[4]
  BY <1>1, <1>2
<1> HIDE DEF k
<1>5. Count(k) <= Word
  <2>1. MaxPayload \in Nat
    BY ChecksumAssumption
  <2>2. QED BY <2>1, <1>3, FewWords
<1>6. c \in 0..(Word - 1)
  BY <1>3, <1>5, CalcIsReference
<1>7. 2 \in 1..(Len(k) \div 2) /\ 2 * 2 - 1 = 3
  BY <1>3
<1>8. /\ g \in Seq(Byte) /\ Len(g) = Len(k)
      /\ \A i \in 1..Len(k) : i # 3 /\ i # 4 => g[i] = k[i]
  <2> HIDE DEF c
  <2>1. k \in Seq(Byte) /\ 2 \in 1..(Len(k) \div 2)
    BY <1>3, <1>7
  <2>2. g = Store(k, 2 * 2 - 1, HTONS(c))
    OBVIOUS
  <2> HIDE DEF g
  <2>3. /\ g \in Seq(Byte) /\ Len(g) = Len(k)
        /\ \A i \in 1..Len(k) : i # 2 * 2 - 1 /\ i # 2 * 2 => g[i] = k[i]
    BY <2>1, <2>2, <1>6, StoreWord
  <2>4. QED BY <2>3
<1>9. g[2] = k[2] /\ g[5] = k[5] /\ g[6] = k[6] /\ Len(g) = 6
  <2> HIDE DEF g
  <2>1. QED BY <1>3, <1>8
<1>10. ASSUME h[3] = 0, h[4] = 0 PROVE Reference(g) = 0 /\ CalcChecksum16(g) = 0
  <2>1. WordAt(k, 2) = 0 * Radix + 0
    BY <1>4, <1>3, <1>10 DEF WordAt
  <2>2. WordAt(k, 2) = 0
    BY <2>1, WordSize
  <2>3. QED BY <2>2, <1>3, <1>5, <1>7, FilledChecks
<1>11. IpPostrouteCksum(h, src) = g
  BY DEF IpPostrouteCksum, FillIpHcksum, k
<1> HIDE DEF g
<1>12. QED BY <1>4, <1>8, <1>9, <1>10, <1>11 DEF CheckIpHcksum

\* A payload is a sequence of bytes.
LEMMA PayloadSeq ==
  ASSUME NEW payload \in Payload
  PROVE  payload \in Seq(Byte) /\ Len(payload) \in 0..MaxPayload
<1>1. PICK m \in 0..MaxPayload : payload \in [1..m -> Byte]
  BY DEF Payload, BoundedSeq, SeqOf
<1>2. m \in Nat
  BY ChecksumAssumption
<1>3. QED BY <1>1, <1>2

\* Four bytes in front of a sequence.
LEMMA FourBytes ==
  ASSUME NEW p \in Byte, NEW q \in Byte, NEW r \in Byte, NEW s \in Byte, NEW b \in Seq(Byte)
  PROVE  LET d == <<p, q, r, s>> \o b
         IN  /\ d \in Seq(Byte) /\ Len(d) = Len(b) + 4
             /\ d[1] = p /\ d[2] = q /\ d[3] = r /\ d[4] = s
             /\ \A i \in 1..Len(b) : d[i + 4] = b[i]
<1> DEFINE a == <<p, q, r, s>>
<1>1. a \in Seq(Byte) /\ Len(a) = 4 /\ a[1] = p /\ a[2] = q /\ a[3] = r /\ a[4] = s
  OBVIOUS
<1> HIDE DEF a
<1>2. /\ a \o b \in Seq(Byte) /\ Len(a \o b) = Len(a) + Len(b) /\ Len(b) \in Nat
      /\ \A i \in 1..(Len(a) + Len(b)) :
           (a \o b)[i] = IF i <= Len(a) THEN a[i] ELSE b[i - Len(a)]
  <2>1. a \in Seq(Byte)
    BY <1>1
  <2>2. QED BY <2>1, ConcatProperties
<1>3. \A i \in 1..Len(b) : (a \o b)[i + 4] = b[i]
  <2>1. SUFFICES ASSUME NEW i \in 1..Len(b) PROVE (a \o b)[i + 4] = b[i]
    OBVIOUS
  <2>2. i + 4 \in 1..(Len(a) + Len(b)) /\ ~(i + 4 <= Len(a)) /\ (i + 4) - Len(a) = i
    BY <1>1, <1>2
  <2>3. QED BY <2>2, <1>2
<1>4. QED BY <1>1, <1>2, <1>3 DEF a

\* What fill_icmp_cksum writes checks.
LEMMA IcmpMsgChecks ==
  ASSUME NEW type \in Byte, NEW payload \in Payload
  PROVE  LET msg == IcmpMsg(type, payload)
         IN  /\ msg \in Seq(Byte) /\ Len(msg) <= MaxPayload + 4
             /\ Reference(msg) = 0 /\ CheckIcmpCksum(msg)
<1> DEFINE b == <<type, 0, 0, 0>> \o payload
           c == CalcChecksum16(b)
           d == Store(b, 3, HTONS(c))
<1>1. payload \in Seq(Byte) /\ Len(payload) \in 0..MaxPayload /\ MaxPayload \in Nat
  BY PayloadSeq, ChecksumAssumption
<1>2. b \in Seq(Byte) /\ Len(b) = Len(payload) + 4 /\ b[3] = 0 /\ b[4] = 0
  BY <1>1, SmallBytes, FourBytes
<1>3. IcmpMsg(type, payload) = d
  BY DEF IcmpMsg
<1> HIDE DEF b
<1>4. Count(b) <= Word
  BY <1>1, <1>2, FewWords
<1>5. 2 \in 1..(Len(b) \div 2) /\ 2 * 2 - 1 = 3 /\ 2 * 2 <= Len(b)
  BY <1>1, <1>2
<1>6. c \in 0..(Word - 1)
  BY <1>2, <1>4, CalcIsReference
<1>7. WordAt(b, 2) = 0
  <2>1. WordAt(b, 2) = 0 * Radix + 0
    BY <1>2, <1>5 DEF WordAt
  <2>2. QED BY <2>1, WordSize
<1>8. Reference(d) = 0 /\ CalcChecksum16(d) = 0
  BY <1>2, <1>4, <1>5, <1>7, FilledChecks
<1>9. d \in Seq(Byte) /\ Len(d) = Len(b)
  <2> HIDE DEF c
  <2>1. QED BY <1>2, <1>5, <1>6, StoreWord
<1>10. Len(d) <= MaxPayload + 4
  BY <1>1, <1>2, <1>9
<1>11. QED BY <1>3, <1>8, <1>9, <1>10 DEF CheckIcmpCksum

\* What fill_tcp_cksum writes checks together with the pseudo header.
LEMMA TcpSegChecks ==
  ASSUME NEW port \in Byte, NEW payload \in Payload, NEW src \in Byte, NEW dst \in Byte
  PROVE  LET seg == TcpSeg(port, payload, src, dst)
         IN  /\ seg \in Seq(Byte) /\ Len(seg) <= MaxPayload + 4
             /\ Reference(<<src, dst, PROTO_TCP, Len(seg) % Radix>> \o seg) = 0
<1> DEFINE s == <<port, port, 0, 0>> \o payload
           l == Len(s) % Radix
           b == <<src, dst, PROTO_TCP, l>> \o s
           c == CalcChecksum16(b)
           e == Store(s, 3, HTONS(c))
           d == Store(b, 7, HTONS(c))
           f == <<src, dst, PROTO_TCP, l>> \o e
<1>1. payload \in Seq(Byte) /\ Len(payload) \in 0..MaxPayload /\ MaxPayload \in Nat
  BY PayloadSeq, ChecksumAssumption
<1>2. s \in Seq(Byte) /\ Len(s) = Len(payload) + 4 /\ s[3] = 0 /\ s[4] = 0
  BY <1>1, SmallBytes, FourBytes
<1>3. TcpSeg(port, payload, src, dst) = e
  BY DEF TcpSeg, CalcTcpCksum, PseudoHdr
<1> HIDE DEF s
<1>4. l \in Byte /\ PROTO_TCP \in Byte
  BY <1>1, <1>2, SmallBytes, WordSize DEF Byte, PROTO_TCP
<1> HIDE DEF l
<1>5. /\ b \in Seq(Byte) /\ Len(b) = Len(s) + 4
      /\ b[1] = src /\ b[2] = dst /\ b[3] = PROTO_TCP /\ b[4] = l
      /\ \A i \in 1..Len(s) : b[i + 4] = s[i]
  BY <1>2, <1>4, FourBytes
<1> HIDE DEF b
<1>6. Count(b) <= Word
  BY <1>1, <1>2, <1>5, FewWords
<1>7. /\ 4 \in 1..(Len(b) \div 2) /\ 2 * 4 - 1 = 7 /\ 2 * 4 <= Len(b)
      /\ 2 \in 1..(Len(s) \div 2) /\ 2 * 2 - 1 = 3 /\ 3 \in 1..Len(s) /\ 4 \in 1..Len(s)
  BY <1>1, <1>2, <1>5
<1>8. c \in 0..(Word - 1)
  BY <1>5, <1>6, CalcIsReference
<1>9. WordAt(b, 4) = 0
  <2>1. b[3 + 4] = 0 /\ b[4 + 4] = 0
    BY <1>2, <1>5, <1>7
  <2>2. WordAt(b, 4) = 0 * Radix + 0
    BY <2>1, <1>7 DEF WordAt
  <2>3. QED BY <2>2, WordSize
<1>10. Reference(d) = 0
  BY <1>5, <1>6, <1>7, <1>9, FilledChecks
<1> HIDE DEF c
<1>11. /\ e \in Seq(Byte) /\ Len(e) = Len(s)
       /\ \A i \in 1..Len(s) : i # 3 /\ i # 4 => e[i] = s[i]
  BY <1>2, <1>7, <1>8, StoreWord
<1>12. /\ d \in Seq(Byte) /\ Len(d) = Len(b)
       /\ \A i \in 1..Len(b) : i # 7 /\ i # 8 => d[i] = b[i]
  BY <1>5, <1>7, <1>8, StoreWord
<1>13. e[3] = d[7] /\ e[4] = d[8]
  BY <1>1, <1>2, <1>5, <1>7 DEF Store
<1>14. /\ f \in Seq(Byte) /\ Len(f) = Len(e) + 4
       /\ f[1] = src /\ f[2] = dst /\ f[3] = PROTO_TCP /\ f[4] = l
       /\ \A i \in 1..Len(e) : f[i + 4] = e[i]
  BY <1>4, <1>11, FourBytes
<1> HIDE DEF d, e, f
<1>15. ASSUME NEW i \in 1..Len(b) PROVE f[i] = d[i]
  <2>1. CASE i \in 1..4
    <3>1. i = 1 \/ i = 2 \/ i = 3 \/ i = 4
      BY <2>1
    <3>2. d[i] = b[i]
      BY <2>1, <1>12
    <3>3. QED BY <3>1, <3>2, <1>5, <1>14
  <2>2. CASE i \notin 1..4
    <3>1. PICK j \in 1..Len(s) : i = j + 4
      <4>1. i - 4 \in 1..Len(s) /\ i = (i - 4) + 4
        BY <2>2, <1>2, <1>5
      <4>2. QED BY <4>1
    <3>2. f[i] = e[j] /\ b[i] = s[j]
      BY <3>1, <1>5, <1>11, <1>14
    <3>3. CASE j = 3 \/ j = 4
      BY <3>1, <3>2, <3>3, <1>13
    <3>4. CASE j # 3 /\ j # 4
      <4>1. i # 7 /\ i # 8
        BY <3>1, <3>4
      <4>2. QED BY <4>1, <3>1, <3>2, <3>4, <1>11, <1>12
    <3>5. QED BY <3>3, <3>4
  <2>3. QED BY <2>1, <2>2
<1>16. f = d
  <2>1. Len(f) = Len(d) /\ Len(f) = Len(b)
    BY <1>5, <1>11, <1>12, <1>14
  <2>2. QED BY <2>1, <1>12, <1>14, <1>15, SeqEqual
<1>17. Len(e) <= MaxPayload + 4 /\ Len(e) % Radix = l
  BY <1>1, <1>2, <1>11 DEF l
<1>18. QED BY <1>3, <1>10, <1>11, <1>16, <1>17 DEF f

-----------------------------------------------------------------------------
(* The invariant: what is sent checks, and forwarding leaves the message. *)

PacketInv == PacketTyped /\ SentPacketChecks /\ SegmentChecks

\* The header of a new packet.
LEMMA InitialHdr ==
  /\ InitIpHdr \in Seq(Byte) /\ Len(InitIpHdr) = 6
  /\ \A dst, proto \in Byte :
       LET h == [InitIpHdr EXCEPT ![6] = dst, ![2] = proto]
       IN  h \in Seq(Byte) /\ Len(h) = 6 /\ h[2] = proto /\ h[3] = 0 /\ h[4] = 0 /\ h[6] = dst
<1>1. InitIpHdr \in Seq(Byte) /\ Len(InitIpHdr) = 6
  BY SmallBytes DEF InitIpHdr
<1>2. ASSUME NEW dst \in Byte, NEW proto \in Byte
      PROVE  LET h == [InitIpHdr EXCEPT ![6] = dst, ![2] = proto]
             IN  h \in Seq(Byte) /\ Len(h) = 6 /\ h[2] = proto /\ h[3] = 0 /\ h[4] = 0 /\ h[6] = dst
  <2> DEFINE h == [InitIpHdr EXCEPT ![6] = dst, ![2] = proto]
  <2>1. h = <<MaxTtl, proto, 0, 0, 0, dst>>
    BY DEF InitIpHdr
  <2> HIDE DEF h
  <2>2. h \in Seq(Byte) /\ Len(h) = 6
    BY <2>1, SmallBytes
  <2>3. h[2] = proto /\ h[3] = 0 /\ h[4] = 0 /\ h[6] = dst
    BY <2>1
  <2>4. QED BY <2>2, <2>3 DEF h
<1>3. QED BY <1>1, <1>2

\* ip_output writes a header that checks.
LEMMA OutputHdr ==
  ASSUME NEW dst \in Byte, NEW proto \in Byte, NEW oif, NEW rt_intf \in Interface,
         IpOutputCksum(dst, proto, oif, rt_intf)
  PROVE  /\ hdr' \in Seq(Byte) /\ Len(hdr') = 6 /\ oif \in {NoIntf, rt_intf}
         /\ hdr'[2] = proto /\ hdr'[5] = IfIp[rt_intf] /\ hdr'[6] = dst
         /\ Reference(hdr') = 0 /\ CheckIpHcksum(hdr')
<1> DEFINE h == [InitIpHdr EXCEPT ![6] = dst, ![2] = proto]
<1>1. h \in Seq(Byte) /\ Len(h) = 6 /\ h[2] = proto /\ h[3] = 0 /\ h[4] = 0 /\ h[6] = dst
  BY InitialHdr
<1>2. hdr' = IpPostrouteCksum(h, IfIp[rt_intf]) /\ oif \in {NoIntf, rt_intf}
  BY DEF IpOutputCksum, IntfMatches
<1>3. IfIp[rt_intf] \in Byte
  BY ChecksumAssumption
<1> HIDE DEF h
<1>4. QED BY <1>1, <1>2, <1>3, PostrouteHdr

\* The invariant holds at first.
LEMMA PacketInit == CksumInit => PacketInv
<1> SUFFICES ASSUME CksumInit PROVE PacketInv
  OBVIOUS
<1>1. MaxPayload \in Nat
  BY ChecksumAssumption
<1>2. l4 \in Seq(Byte) /\ Len(l4) <= MaxPayload + 4
  BY <1>1 DEF CksumInit
<1>3. QED BY <1>2, InitialHdr DEF CksumInit, PacketInv, PacketTyped, SentPacketChecks, SegmentChecks

\* icmp_out
LEMMA IcmpOutInv ==
  ASSUME NEW type \in Byte, NEW payload \in Payload, NEW dst \in Byte,
         NEW rt_intf \in Interface, IcmpOutCksum(type, payload, dst, rt_intf)
  PROVE  PacketInv'
<1>1. /\ l4' = IcmpMsg(type, payload) /\ stage' = "output"
      /\ IpOutputCksum(dst, PROTO_ICMP, NoIntf, rt_intf)
  BY DEF IcmpOutCksum
<1>2. PROTO_ICMP \in Byte /\ PROTO_ICMP # PROTO_TCP
  BY SmallBytes DEF PROTO_ICMP, PROTO_TCP
<1>3. /\ hdr' \in Seq(Byte) /\ Len(hdr') = 6 /\ hdr'[2] = PROTO_ICMP
      /\ Reference(hdr') = 0 /\ CheckIpHcksum(hdr')
  BY <1>1, <1>2, OutputHdr
<1>4. /\ l4' \in Seq(Byte) /\ Len(l4') <= MaxPayload + 4
      /\ Reference(l4') = 0 /\ CheckIcmpCksum(l4')
  BY <1>1, IcmpMsgChecks
<1>5. PacketTyped' /\ SegmentChecks'
  BY <1>1, <1>2, <1>3, <1>4 DEF PacketTyped, SegmentChecks
<1>6. SentPacketChecks'
  BY <1>1, <1>3, <1>4 DEF SentPacketChecks, CheckIpHcksum, CheckIcmpCksum
<1>7. QED BY <1>5, <1>6 DEF PacketInv

\* tcp_out: a segment that ip_postroute sends was summed with the address of
\* the route's interface.
LEMMA TcpOutInv ==
  ASSUME NEW port \in Byte, NEW payload \in Payload, NEW dst \in Byte,
         NEW intf \in Interface, NEW rt_intf \in Interface,
         TcpOutCksum(port, payload, dst, intf, rt_intf)
  PROVE  PacketInv'
<1> DEFINE src == IfIp[intf]
<1>1. /\ l4' = TcpSeg(port, payload, src, dst) /\ stage' = "output"
      /\ IpOutputCksum(dst, PROTO_TCP, intf, rt_intf)
  BY DEF TcpOutCksum
<1>a. src \in Byte /\ intf # NoIntf
  BY ChecksumAssumption
<1>2. PROTO_TCP \in Byte /\ PROTO_ICMP # PROTO_TCP
  BY SmallBytes DEF PROTO_ICMP, PROTO_TCP
<1>3. /\ hdr' \in Seq(Byte) /\ Len(hdr') = 6
      /\ hdr'[2] = PROTO_TCP /\ hdr'[5] = src /\ hdr'[6] = dst
      /\ Reference(hdr') = 0 /\ CheckIpHcksum(hdr')
  BY <1>1, <1>2, <1>a, OutputHdr
<1> HIDE DEF src
<1>4. /\ l4' \in Seq(Byte) /\ Len(l4') <= MaxPayload + 4
      /\ Reference(<<src, dst, PROTO_TCP, Len(l4') % Radix>> \o l4') = 0
  BY <1>1, <1>a, TcpSegChecks
<1>5. PacketTyped'
  BY <1>1, <1>3, <1>4 DEF PacketTyped
<1>6. SentPacketChecks'
  BY <1>1, <1>2, <1>3 DEF SentPacketChecks, CheckIpHcksum
<1>7. SegmentChecks'
  BY <1>3, <1>4 DEF SegmentChecks
<1>8. QED BY <1>5, <1>6, <1>7 DEF PacketInv

\* A node that forwards writes the header only.
LEMMA ForwardInv ==
  ASSUME PacketInv, NEW rt_intf \in Interface, IpForward(rt_intf)
  PROVE  PacketInv'
<1> DEFINE h == [hdr EXCEPT ![1] = @ - 1]
           src == IfIp[rt_intf]
<1>1. /\ stage # "none" /\ stage' = "forwarded" /\ l4' = l4
      /\ hdr[1] # 0 /\ hdr' = IpPostrouteCksum(h, src)
  BY DEF IpForward
<1>2. hdr \in Seq(Byte) /\ Len(hdr) = 6
  BY DEF PacketInv, PacketTyped
<1>3. PICK n \in Nat : n = Len(hdr) /\ n = 6
  BY <1>2
<1>4. DOMAIN hdr = 1..n /\ hdr \in [1..n -> Byte] /\ 1 \in 1..n /\ 2 \in 1..n
  <2>1. DOMAIN hdr = 1..Len(hdr) /\ hdr \in [1..Len(hdr) -> Byte]
    <3>1. hdr \in Seq(Byte)
      BY <1>2
    <3>2. QED BY <3>1, SeqFunction
  <2>2. QED BY <2>1, <1>3
<1>5. hdr[1] - 1 \in Byte
  BY <1>1, <1>4, WordSize DEF Byte
<1>6. h \in [1..n -> Byte] /\ h[2] = hdr[2]
  BY <1>4, <1>5
<1>s. src \in Byte
  BY ChecksumAssumption
<1> HIDE DEF h, src
<1>7. h \in Seq(Byte) /\ Len(h) = n
  BY <1>6
<1>8. hdr' \in Seq(Byte) /\ Len(hdr') = 6 /\ hdr'[2] = hdr[2]
  BY <1>1, <1>3, <1>6, <1>7, <1>s, PostrouteHdr
<1>9. PacketTyped'
  BY <1>1, <1>8 DEF PacketInv, PacketTyped
<1>10. SentPacketChecks' /\ SegmentChecks'
  BY <1>1, <1>8 DEF PacketInv, SentPacketChecks, SegmentChecks
<1>11. QED BY <1>9, <1>10 DEF PacketInv

\* Every step keeps it.
LEMMA PacketStep == PacketInv /\ [CksumNext]_packetVars => PacketInv'
<1> SUFFICES ASSUME PacketInv, [CksumNext]_packetVars PROVE PacketInv'
  OBVIOUS
<1>1. 0 \in Byte /\ Radix - 1 \in Byte
  BY WordSize DEF Byte
<1>2. ASSUME NEW dst \in Byte, NEW payload \in Payload, NEW rt_intf \in Interface,
             NEW type \in {0, Radix - 1}, IcmpOutCksum(type, payload, dst, rt_intf)
      PROVE  PacketInv'
  BY <1>1, <1>2, IcmpOutInv
<1>3. ASSUME NEW dst \in Byte, NEW payload \in Payload, NEW rt_intf \in Interface,
             NEW port \in {0, Radix - 1}, NEW intf \in Interface,
             TcpOutCksum(port, payload, dst, intf, rt_intf)
      PROVE  PacketInv'
  BY <1>1, <1>3, TcpOutInv
<1>4. ASSUME NEW rt_intf \in Interface, IpForward(rt_intf) PROVE PacketInv'
  BY <1>4, ForwardInv
<1>5. CASE Gone
  <2>1. stage' = "none" /\ hdr' = InitIpHdr /\ l4' = <<>>
    BY <1>5 DEF Gone
  <2>2. l4' \in Seq(Byte) /\ Len(l4') <= MaxPayload + 4
    BY <2>1, ChecksumAssumption
  <2>3. QED BY <2>1, <2>2, InitialHdr DEF PacketInv, PacketTyped, SentPacketChecks, SegmentChecks
<1>6. CASE UNCHANGED packetVars
  BY <1>6 DEF packetVars, PacketInv, PacketTyped, SentPacketChecks, SegmentChecks, CheckIpHcksum,
              CheckIcmpCksum
<1>7. QED BY <1>2, <1>3, <1>4, <1>5, <1>6 DEF CksumNext

\* It holds in every state.
LEMMA PacketInvariance == CksumSpec => []PacketInv
<1>1. QED BY PacketInit, PacketStep, PTL DEF CksumSpec

-----------------------------------------------------------------------------
\* calc_checksum_16 computes the checksum of the standard, word for word with
\* end-around carry, of every header and message that is sent, also of odd size:
\* the 32-bit sum does not overflow and two folds are enough, for every number of
\* values of a byte and every payload that is short enough.
THEOREM ChecksumIsStandard == CksumSpec => []SumIsStandard
<1>1. PacketInv => SumIsStandard
  <2> SUFFICES ASSUME PacketInv PROVE SumIsStandard
    OBVIOUS
  <2>1. /\ hdr \in Seq(Byte) /\ Len(hdr) <= MaxPayload + 8
        /\ l4 \in Seq(Byte) /\ Len(l4) <= MaxPayload + 8
    <3>1. MaxPayload \in Nat
      BY ChecksumAssumption
    <3>2. QED BY <3>1 DEF PacketInv, PacketTyped
  <2>2. CalcChecksum16(hdr) = Reference(hdr) /\ CalcChecksum16(l4) = Reference(l4)
    BY <2>1, FewWords, CalcIsReference
  <2>3. QED BY <2>2 DEF SumIsStandard
<1>2. QED BY <1>1, PacketInvariance, PTL

\* What fill_ip_hcksum and fill_icmp_cksum write makes the check succeed at the
\* receiver: of every header as its sender wrote it, and of every ICMP message,
\* also when it was forwarded.
THEOREM SentPacketsCheck == CksumSpec => []SentPacketChecks
<1>1. PacketInv => SentPacketChecks
  BY DEF PacketInv
<1>2. QED BY <1>1, PacketInvariance, PTL

\* What tcp_out writes makes the check of the segment with its pseudo header
\* succeed at the receiver, with the addresses and the protocol of the IP header
\* that is written after the checksum: ip_postroute sends the segment only over
\* the interface whose address it was summed with.
THEOREM SegmentsCheck == CksumSpec => []SegmentChecks
<1>1. PacketInv => SegmentChecks
  BY DEF PacketInv
<1>2. QED BY <1>1, PacketInvariance, PTL

-----------------------------------------------------------------------------
(***************************************************************************)
(* THE PACKET BUFFER (skbuff.h)                                            *)
(***************************************************************************)

Buffer == [data : Int, tail : Int, end : Int, len : Int]

Place == {"none", "return", "fill_tcp_cksum", "ip_output", "ip_postroute", "pending_pkts",
          "ethernet_output", "send_pkt_out", "ethernet_input", "arp_input", "ip_preroute",
          "ip_input", "icmp_input", "udp_input", "tcp_input", "rx_skb", "abort"}

BufferTyped == skb \in Buffer /\ at \in Place /\ ret \in BOOLEAN /\ frees \in Nat /\ frame \in Int

\* Where the data starts at every place.  It lies in a buffer that was
\* allocated for a payload or in one of recv_task.
Placed ==
  /\ at \in {"ip_output", "fill_tcp_cksum"} => skb.data = 60
  /\ at \in {"ip_postroute", "ip_input"} => skb.data \in {18, 40}
  /\ at \in {"ethernet_output", "pending_pkts"} => skb.data \in {18, 32, 40}
  /\ at = "ethernet_input" => skb.data = 4
  /\ at \in {"arp_input", "ip_preroute"} => skb.data = 18

\* What remains behind the start of the data holds the padding, and the frame
\* that it will become fits the receiver.
Sized ==
  /\ at \in {"ip_output", "fill_tcp_cksum"} => skb.end - skb.data >= 46 /\ skb.len <= 2010
  /\ at \in {"ip_postroute", "ethernet_output", "pending_pkts", "ip_preroute"} =>
       skb.end - skb.data >= 46 /\ skb.len <= 2030
  /\ at = "ethernet_input" => skb.end = 2048 /\ skb.len <= 2044

\* A buffer that a layer holds is not freed; a call that freed it succeeds.
Held ==
  /\ at \notin {"none", "return"} => frees = 0
  /\ at = "return" /\ frees # 0 => frees = 1 /\ ret
  /\ frees <= 1

\* The header in front of the payload in what the stack itself sends.
HdrSize(by) ==
  IF by = "tcp_out" THEN TCP_HDR_SIZE ELSE IF by = "udp_out" THEN UDP_HDR_SIZE ELSE ICMP_HDR_SIZE

\* The handler of what a function of the stack sends.
InputOf(by) ==
  IF by = "tcp_out" THEN "tcp_input" ELSE IF by = "udp_out" THEN "udp_input" ELSE "icmp_input"

Own == {"icmp_out", "udp_out", "tcp_out"}

\* Packets that go up came from outside, and their headers start where they
\* should, or from the node itself, and hold the headers of their protocol.
Announced ==
  /\ at \in {"ip_output", "fill_tcp_cksum"} => caller \in Own /\ skb.len >= HdrSize(caller)
  /\ at \in {"ip_postroute", "ip_input"} =>
       \/ caller = "recv_task" /\ skb.data = 18
       \/ caller \in Own /\ skb.len >= IP_HDR_SIZE + HdrSize(caller)
  /\ at \in {"ethernet_input", "arp_input", "ip_preroute"} => caller = "recv_task"
  /\ at \in {"icmp_input", "udp_input", "tcp_input"} =>
       \/ caller = "recv_task" /\ skb.data = 38
       \/ caller \in Own /\ at = InputOf(caller) /\ skb.len >= HdrSize(caller)

BufferInv ==
  BufferTyped /\ InBounds /\ Placed /\ Sized /\ FrameFits /\ Held /\ Announced

-----------------------------------------------------------------------------
USE DEF BUFF_HEADROOM, BUFF_TAILROOM, RECV_BUFFER_SIZE, RECV_RESERVED_HEAD_ROOM,
  MAX_UDP_PAYLOAD, MAX_TCP_PAYLOAD, ETH_HDR_SIZE, ETH_MIN_SIZE, ARP_HDR_SIZE, IP_HDR_SIZE,
  ICMP_HDR_SIZE, UDP_HDR_SIZE, TCP_HDR_SIZE, PSEUDO_IP_HDR_SIZE

\* A buffer for a payload starts behind the headroom.
LEMMA PayloadFields ==
  ASSUME NEW n \in Int
  PROVE  LET c == AllocForPayload(n)
         IN  c \in Buffer /\ c.data = 60 /\ c.tail = 60 /\ c.end = 106 + n /\ c.len = 0
BY DEF AllocForPayload, AllocSkb, SkbReserve, Buffer

-----------------------------------------------------------------------------
LEMMA BufferInit == SkbInit => BufferInv
BY DEF SkbInit, AllocSkb, BufferInv, BufferTyped, Buffer, Place, InBounds, Within, Runt, Placed, Sized, FrameFits, Held,
      Announced, HdrSize, InputOf, Own

\* A new buffer whose size and place are right.
LEMMA NewInv ==
  ASSUME BufferInv, NEW b \in Buffer, NEW to, NEW by, NewSkb(b, to, by),
         0 <= b.data, b.data <= b.tail, b.tail <= b.end, b.len = b.tail - b.data,
         \/ /\ to \in {"ip_output", "fill_tcp_cksum"} /\ by \in Own
            /\ b.data = 60 /\ b.end - b.data >= 46 /\ b.len <= 2010 /\ b.len >= HdrSize(by)
         \/ to = "ethernet_output" /\ b.data = 32 /\ b.end - b.data >= 46 /\ b.len <= 2030
         \/ to = "ethernet_input" /\ by = "recv_task" /\ b.data = 4 /\ b.end = 2048 /\ b.len <= 2044
  PROVE  BufferInv'
<1>1. skb' = b /\ at' = to /\ caller' = by /\ frees' = 0 /\ ret' = ret /\ frame' = frame
  BY DEF NewSkb
<1>. USE DEF BufferInv, BufferTyped, Buffer, Place, InBounds, Within, Runt, Placed, Sized, FrameFits, Held,
      Announced, HdrSize, InputOf, Own
<1>. QED BY <1>1

\* Buffers that the stack allocates for what it sends.
LEMMA OutInv ==
  ASSUME BufferInv,
         \/ ArpOut
         \/ \E size \in Sizes : IcmpOut(size) \/ UdpOut(size) \/ TcpOut(size)
  PROVE  BufferInv'
<1>1. CASE ArpOut
  <2>. DEFINE a == AllocForPayload(28)
              b == SkbPush(a, 28)
  <2>1. a \in Buffer /\ a.data = 60 /\ a.tail = 60 /\ a.end = 134 /\ a.len = 0
    BY PayloadFields
  <2>. HIDE DEF a
  <2>2. b \in Buffer /\ b.data = 32 /\ b.tail = 60 /\ b.end = 134 /\ b.len = 28
    BY <2>1 DEF SkbPush, Buffer
  <2>3. \E by \in {"arp_request", "arp_reply"} : NewSkb(b, "ethernet_output", by)
    BY <1>1 DEF ArpOut, a
  <2>. HIDE DEF b
  <2>. QED BY <2>2, <2>3, NewInv
<1>2. ASSUME NEW size \in Sizes, IcmpOut(size) PROVE BufferInv'
  <2>. DEFINE a == AllocForPayload(4 + size)
              b == SkbPut(a, 4 + size)
  <2>0. size \in Nat
    BY SkbuffAssumption
  <2>1. a \in Buffer /\ a.data = 60 /\ a.tail = 60 /\ a.end = 110 + size /\ a.len = 0
    BY <2>0, PayloadFields
  <2>. HIDE DEF a
  <2>2. b \in Buffer /\ b.data = 60 /\ b.tail = 64 + size /\ b.end = 110 + size /\ b.len = 4 + size
    BY <2>0, <2>1 DEF SkbPut, Buffer
  <2>3. size <= 2006 /\ NewSkb(b, "ip_output", "icmp_out")
    BY <2>0, <1>2 DEF IcmpOut, a
  <2>. HIDE DEF b
  <2>. QED BY <2>0, <2>2, <2>3, NewInv DEF Own, HdrSize
<1>3. ASSUME NEW size \in Sizes, UdpOut(size) PROVE BufferInv'
  <2>. DEFINE a == AllocForPayload(8 + size)
              c == SkbPut(a, 8)
              b == SkbPut(c, size)
  <2>0. size \in Nat
    BY SkbuffAssumption
  <2>1. a \in Buffer /\ a.data = 60 /\ a.tail = 60 /\ a.end = 114 + size /\ a.len = 0
    BY <2>0, PayloadFields
  <2>. HIDE DEF a
  <2>2. c \in Buffer /\ c.data = 60 /\ c.tail = 68 /\ c.end = 114 + size /\ c.len = 8
    BY <2>0, <2>1 DEF SkbPut, Buffer
  <2>. HIDE DEF c
  <2>3. b \in Buffer /\ b.data = 60 /\ b.tail = 68 + size /\ b.end = 114 + size /\ b.len = 8 + size
    BY <2>0, <2>2 DEF SkbPut, Buffer
  <2>4. size <= 1446 /\ NewSkb(b, "ip_output", "udp_out")
    BY <1>3 DEF UdpOut, a, c
  <2>. HIDE DEF b
  <2>. QED BY <2>0, <2>3, <2>4, NewInv DEF Own, HdrSize
<1>4. ASSUME NEW size \in Sizes, TcpOut(size) PROVE BufferInv'
  <2>. DEFINE a == AllocForPayload(20 + size)
              c == SkbPut(a, 20)
              b == SkbPut(c, size)
  <2>0. size \in Nat
    BY SkbuffAssumption
  <2>1. a \in Buffer /\ a.data = 60 /\ a.tail = 60 /\ a.end = 126 + size /\ a.len = 0
    BY <2>0, PayloadFields
  <2>. HIDE DEF a
  <2>2. c \in Buffer /\ c.data = 60 /\ c.tail = 80 /\ c.end = 126 + size /\ c.len = 20
    BY <2>0, <2>1 DEF SkbPut, Buffer
  <2>. HIDE DEF c
  <2>3. b \in Buffer /\ b.data = 60 /\ b.tail = 80 + size /\ b.end = 126 + size /\ b.len = 20 + size
    BY <2>0, <2>2 DEF SkbPut, Buffer
  <2>4. size <= 1446 /\ NewSkb(b, "fill_tcp_cksum", "tcp_out")
    BY <1>4 DEF TcpOut, a, c
  <2>. HIDE DEF b
  <2>. QED BY <2>0, <2>3, <2>4, NewInv DEF Own, HdrSize
<1>. QED BY <1>1, <1>2, <1>3, <1>4

\* A buffer that recv_task fills.
LEMMA RecvFrameInv ==
  ASSUME BufferInv, NEW n \in FrameLen, RecvFrame(n) PROVE BufferInv'
<1>. DEFINE a == AllocSkb(2048)
            c == SkbReserve(a, 4)
            b == SkbPut(c, n)
<1>0. n \in Nat
  BY SkbuffAssumption
<1>1. a \in Buffer /\ a.data = 0 /\ a.tail = 0 /\ a.end = 2048 /\ a.len = 0
  BY DEF AllocSkb, Buffer
<1>. HIDE DEF a
<1>2. c \in Buffer /\ c.data = 4 /\ c.tail = 4 /\ c.end = 2048 /\ c.len = 0
  BY <1>1 DEF SkbReserve, Buffer
<1>. HIDE DEF c
<1>3. b \in Buffer /\ b.data = 4 /\ b.tail = 4 + n /\ b.end = 2048 /\ b.len = n
  BY <1>0, <1>2 DEF SkbPut, Buffer
<1>4. n <= SkbTailroom(c) /\ NewSkb(b, "ethernet_input", "recv_task")
  BY DEF RecvFrame, a, c
<1>5. n <= 2044
  BY <1>0, <1>2, <1>4 DEF SkbTailroom
<1>. HIDE DEF b
<1>. QED BY <1>0, <1>3, <1>4, <1>5, NewInv

\* A call that ends having freed the buffer at most once, and only if it
\* succeeds.
LEMMA ReturnInv ==
  ASSUME BufferInv, NEW from \in Place \ {"none", "return", "abort"}, NEW ok \in BOOLEAN, NEW free \in {0, 1},
         free = 1 => ok, Return(from, ok, free)
  PROVE  BufferInv'
<1>. USE DEF BufferInv, BufferTyped, Buffer, Place, InBounds, Within, Runt, Placed, Sized, FrameFits, Held,
      Announced, HdrSize, InputOf, Own
<1>. QED BY DEF Return

\* A call that fails has not freed the buffer.
LEMMA FailInv ==
  ASSUME BufferInv, NEW from \in Place \ {"none", "return", "abort"}, Return(from, FALSE, 0) PROVE BufferInv'
<1>1. ret' \in BOOLEAN
  BY DEF Return
<1>2. at = from /\ at' = "return" /\ frees' = frees + 0 /\ UNCHANGED <<skb, caller, frame>>
  BY DEF Return
<1>. QED BY <1>1, <1>2 DEF BufferInv, BufferTyped, Buffer, Place, InBounds, Within, Runt, Placed, Sized, FrameFits, Held,
      Announced, HdrSize, InputOf, Own

\* Down the stack.
LEMMA DownInv ==
  ASSUME BufferInv, FillTcpCksum \/ IpOutput \/ IpPostroute \/ Flush \/ EthernetOutput \/ SendPktOut
  PROVE  BufferInv'
<1>1. CASE FillTcpCksum
  BY <1>1 DEF FillTcpCksum, BufferInv, BufferTyped, Buffer, Place, InBounds, Within, Runt, Placed, Sized, FrameFits, Held,
      Announced, HdrSize, InputOf, Own
<1>2. CASE IpOutput
  <2>. DEFINE b == SkbPush(skb, 20)
  <2>1. /\ b \in Buffer
        /\ b.data = skb.data - 20 /\ b.tail = skb.tail /\ b.end = skb.end /\ b.len = skb.len + 20
    BY DEF SkbPush, Buffer, BufferInv, BufferTyped
  <2>2. at = "ip_output" /\ at' = "ip_postroute" /\ skb' = b /\ UNCHANGED <<caller, ret, frees, frame>>
    BY <1>2 DEF IpOutput, HandOn
  <2>. HIDE DEF b
  <2>. QED BY <2>1, <2>2 DEF BufferInv, BufferTyped, Buffer, Place, InBounds, Within, Runt, Placed, Sized, FrameFits, Held,
      Announced, HdrSize, InputOf, Own
<1>3. CASE IpPostroute
  <2>1. ASSUME Return("ip_postroute", FALSE, 0) PROVE BufferInv'
    BY <2>1, FailInv DEF Place
  <2>2. ASSUME NEW to \in {"ip_input", "pending_pkts", "ethernet_output"}, HandOn("ip_postroute", to, skb)
        PROVE  BufferInv'
    BY <2>2 DEF HandOn, BufferInv, BufferTyped, Buffer, Place, InBounds, Within, Runt, Placed, Sized, FrameFits, Held,
      Announced, HdrSize, InputOf, Own
  <2>. QED BY <1>3, <2>1, <2>2 DEF IpPostroute
<1>4. CASE Flush
  BY <1>4 DEF Flush, BufferInv, BufferTyped, Buffer, Place, InBounds, Within, Runt, Placed, Sized, FrameFits, Held,
      Announced, HdrSize, InputOf, Own
<1>5. CASE EthernetOutput
  <2>. DEFINE a == SkbPush(skb, 14)
              b == PadToMinimum(a)
  <2>1. /\ a \in Buffer
        /\ a.data = skb.data - 14 /\ a.tail = skb.tail /\ a.end = skb.end /\ a.len = skb.len + 14
    BY DEF SkbPush, Buffer, BufferInv, BufferTyped
  <2>2. /\ at = "ethernet_output" /\ at' = "send_pkt_out" /\ skb' = b /\ frame' = b.len
        /\ UNCHANGED <<caller, ret, frees>>
    BY <1>5 DEF EthernetOutput
  <2>. HIDE DEF a
  <2>3. CASE a.len < 60
    <3>1. /\ b \in Buffer
          /\ b.data = a.data /\ b.tail = a.tail + (60 - a.len) /\ b.end = a.end /\ b.len = 60
      BY <2>1, <2>3 DEF SkbPut, Buffer, PadToMinimum
    <3>. HIDE DEF b
    <3>. QED BY <2>1, <2>2, <2>3, <3>1
      DEF BufferInv, BufferTyped, Buffer, Place, InBounds, Within, Runt, Placed, Sized, FrameFits, Held,
      Announced, HdrSize, InputOf, Own
  <2>4. CASE ~(a.len < 60)
    <3>1. b = a
      BY <2>4 DEF PadToMinimum
    <3>. HIDE DEF b
    <3>. QED BY <2>1, <2>2, <2>4, <3>1
      DEF BufferInv, BufferTyped, Buffer, Place, InBounds, Within, Runt, Placed, Sized, FrameFits, Held,
      Announced, HdrSize, InputOf, Own
  <2>. QED BY <2>3, <2>4
<1>6. CASE SendPktOut
  BY <1>6, ReturnInv DEF SendPktOut, Place
<1>. QED BY <1>1, <1>2, <1>3, <1>4, <1>5, <1>6

\* A layer pulls its header: the buffer holds it, or the process ends.
LEMMA PullInv ==
  ASSUME BufferInv, NEW from, NEW to, NEW n \in Nat, PullHeader(from, to, n),
         \/ from = "ethernet_input" /\ to \in {"arp_input", "ip_preroute"} /\ n = 14 /\ skb.len >= 14
         \/ /\ from = "ip_input" /\ to \in {"icmp_input", "udp_input", "tcp_input"} /\ n = 20
            /\ caller \in Own => to = InputOf(caller)
         \/ from = "udp_input" /\ to = "rx_skb" /\ n = 8
         \/ from = "tcp_input" /\ to = "rx_skb" /\ n = 20
  PROVE  BufferInv'
<1>. DEFINE b == SkbPull(skb, n)
<1>1. /\ b \in Buffer
      /\ b.data = skb.data + n /\ b.tail = skb.tail /\ b.end = skb.end /\ b.len = skb.len - n
  BY DEF SkbPull, Buffer, BufferInv, BufferTyped
<1>2. /\ at = from /\ skb' = b /\ UNCHANGED <<caller, ret, frees, frame>>
      /\ at' = IF skb.len >= n THEN to ELSE "abort"
  BY DEF PullHeader
<1>. HIDE DEF b
<1>3. CASE skb.len >= n
  BY <1>1, <1>2, <1>3
    DEF BufferInv, BufferTyped, Buffer, Place, InBounds, Within, Runt, Placed, Sized, FrameFits, Held,
      Announced, HdrSize, InputOf, Own
<1>4. CASE ~(skb.len >= n)
  BY <1>1, <1>2, <1>4
    DEF BufferInv, BufferTyped, Buffer, Place, InBounds, Within, Runt, Placed, Sized, FrameFits, Held,
      Announced, HdrSize, InputOf, Own
<1>. QED BY <1>3, <1>4

\* Up the stack.
LEMMA UpInv ==
  ASSUME BufferInv,
         \/ EthernetInput \/ ArpInput \/ IpPreroute \/ IpInput
         \/ IcmpInput \/ UdpInput \/ TcpInput
  PROVE  BufferInv'
<1>1. CASE EthernetInput
  <2>1. ASSUME NEW to \in {"arp_input", "ip_preroute"}, LongEnough(ETH_HDR_SIZE),
               PullHeader("ethernet_input", to, ETH_HDR_SIZE)
        PROVE  BufferInv'
    BY <2>1, PullInv DEF LongEnough
  <2>. QED BY FailInv, <1>1, <2>1 DEF EthernetInput, Place
<1>2. CASE ArpInput
  BY FailInv, <1>2, ReturnInv DEF ArpInput, Place
<1>3. CASE IpPreroute
  <2>1. ASSUME NEW to \in {"ip_input", "ip_postroute"}, HandOn("ip_preroute", to, skb)
        PROVE  BufferInv'
    BY <2>1 DEF HandOn, BufferInv, BufferTyped, Buffer, Place, InBounds, Within, Runt, Placed, Sized, FrameFits, Held,
      Announced, HdrSize, InputOf, Own
  <2>. QED BY FailInv, <1>3, <2>1 DEF IpPreroute, Place
<1>4. CASE IpInput
  <2>1. ASSUME NEW to \in Protocol \ {"unknown"}, PullHeader("ip_input", to, IP_HDR_SIZE)
        PROVE  BufferInv'
    <3>1. to \in {"icmp_input", "udp_input", "tcp_input"} /\ (caller \in Own => to = InputOf(caller))
      BY DEF Protocol, Own, InputOf
    <3>. QED BY <2>1, <3>1, PullInv
  <2>. QED BY FailInv, <1>4, <2>1 DEF IpInput, Place
<1>5. CASE IcmpInput
  BY FailInv, <1>5, ReturnInv DEF IcmpInput, Place
<1>6. CASE UdpInput
  <2>1. ASSUME PullHeader("udp_input", "rx_skb", UDP_HDR_SIZE) PROVE BufferInv'
    BY <2>1, PullInv
  <2>. QED BY FailInv, <1>6, <2>1 DEF UdpInput, Place
<1>7. CASE TcpInput
  <2>1. ASSUME PullHeader("tcp_input", "rx_skb", TCP_HDR_SIZE) PROVE BufferInv'
    BY <2>1, PullInv
  <2>. QED BY FailInv, <1>7, <2>1, ReturnInv DEF TcpInput, Place
<1>. QED BY <1>1, <1>2, <1>3, <1>4, <1>5, <1>6, <1>7

\* The application reads a portion.
LEMMA RecvfromInv ==
  ASSUME BufferInv, NEW size \in Sizes, Recvfrom(size) PROVE BufferInv'
<1>. DEFINE n == Portion(size)
            b == SkbPull(skb, n)
<1>0. at = "rx_skb"
  BY DEF Recvfrom
<1>1. n \in Nat /\ n <= skb.len
  BY <1>0, SkbuffAssumption DEF Portion, BufferInv, BufferTyped, Buffer, InBounds, Within
<1>. HIDE DEF n
<1>2. /\ b \in Buffer
      /\ b.data = skb.data + n /\ b.tail = skb.tail /\ b.end = skb.end /\ b.len = skb.len - n
  BY <1>1 DEF SkbPull, Buffer, BufferInv, BufferTyped
<1>3. /\ at = "rx_skb" /\ skb' = b /\ UNCHANGED <<caller, frame>>
      /\ \/ at' = "return" /\ ret' = TRUE /\ frees' = frees + 1
         \/ UNCHANGED <<at, ret, frees>>
  BY DEF Recvfrom, n
<1>. HIDE DEF b
<1>4. CASE at' = "return" /\ ret' = TRUE /\ frees' = frees + 1
  BY <1>1, <1>2, <1>3, <1>4
    DEF BufferInv, BufferTyped, Buffer, Place, InBounds, Within, Runt, Placed, Sized, FrameFits, Held,
      Announced, HdrSize, InputOf, Own
<1>5. CASE UNCHANGED <<at, ret, frees>>
  BY <1>1, <1>2, <1>3, <1>5
    DEF BufferInv, BufferTyped, Buffer, Place, InBounds, Within, Runt, Placed, Sized, FrameFits, Held,
      Announced, HdrSize, InputOf, Own
<1>. QED BY <1>3, <1>4, <1>5

\* The caller frees a buffer that the call did not take.
LEMMA CallerInv == ASSUME BufferInv, CallerReturns PROVE BufferInv'
BY DEF CallerReturns, Frees, BufferInv, BufferTyped, Buffer, Place, InBounds, Within, Runt, Placed, Sized, FrameFits, Held,
      Announced, HdrSize, InputOf, Own

LEMMA BufferStep == BufferInv /\ [SkbNext]_skbVars => BufferInv'
<1>. SUFFICES ASSUME BufferInv, [SkbNext]_skbVars PROVE BufferInv'
  OBVIOUS
<1>1. CASE UNCHANGED skbVars
  BY <1>1 DEF skbVars, BufferInv, BufferTyped, Buffer, Place, InBounds, Within, Runt, Placed, Sized, FrameFits, Held,
      Announced, HdrSize, InputOf, Own
<1>2. CASE SkbNext
  BY <1>2, OutInv, RecvFrameInv, DownInv, UpInv, RecvfromInv, CallerInv DEF SkbNext
<1>. QED BY <1>1, <1>2

LEMMA BufferInvariance == SkbSpec => []BufferInv
BY BufferInit, BufferStep, PTL DEF SkbSpec

-----------------------------------------------------------------------------
\* BUFF_HEADROOM, BUFF_TAILROOM and RECV_RESERVED_HEAD_ROOM are enough for the
\* headers and the padding of every path, whatever the application sends and
\* whatever frame arrives; and the assertion of skb_pull fails on no path,
\* except for a frame from outside that is shorter than the minimum of Ethernet.
THEOREM BuffersInBounds == SkbSpec => []InBounds
<1>1. BufferInv => InBounds
  BY DEF BufferInv
<1>. QED BY <1>1, BufferInvariance, PTL

\* Every frame that leaves is neither too short for Ethernet nor too long for
\* the buffer of recv_task at the other end.
THEOREM FramesFit == SkbSpec => []FrameFits
<1>1. BufferInv => FrameFits
  BY DEF BufferInv
<1>. QED BY <1>1, BufferInvariance, PTL

\* No buffer is freed twice, or used after it was freed, on any path through
\* the layers and back.
THEOREM BuffersFreedOnce == SkbSpec => []FreedOnce
<1>1. BufferInv => FreedOnce
  BY DEF FreedOnce, BufferInv, BufferTyped, Place, Held
<1>. QED BY <1>1, BufferInvariance, PTL
=============================================================================
