---------------------------- MODULE GraphProofs -----------------------------
(***************************************************************************)
(* Proofs about Graph, for any number of nodes, links, taps and slots, and *)
(* for building and destroying them in any order.                          *)
(***************************************************************************)
EXTENDS Graph, SequenceLemmas, FiniteSetTheorems

\* No node has both links and taps.
Separate == LinkedNode \cap TapNode = {}

Memories == [intfs : [Node -> [Slot -> Intf \cup {NULL}]],
             heap  : SUBSET (Node \cup Link \cup Tap),
             fault : BOOLEAN]

\* Every interface that exists is in a slot of its node, which exists.
Owned(m) ==
  \A intf \in Intf : Object(intf) \in m.heap =>
    /\ nodeOf[intf] \in m.heap /\ nodeOf[intf] \in Node
    /\ nodeOf[intf] \in (IF intf[2] = 0 THEN TapNode ELSE LinkedNode)
    /\ \E i \in Slot : m.intfs[nodeOf[intf]][i] = intf

\* No interface is in two slots of a node.
Once(m) ==
  \A n \in m.heap \cap Node, i, j \in Slot :
    m.intfs[n][i] # NULL /\ m.intfs[n][i] = m.intfs[n][j] => i = j

\* A slot holds nothing, or an interface of its node that exists.
SlotOK(m, n, i) ==
  m.intfs[n][i] # NULL =>
    Object(m.intfs[n][i]) \in m.heap /\ nodeOf[m.intfs[n][i]] = n

NoFault(m) == Separate => m.fault = FALSE

GraphOK(m) ==
  /\ m \in Memories /\ Owned(m) /\ Once(m) /\ NoFault(m)
  /\ \A n \in m.heap \cap Node, i \in Slot : SlotOK(m, n, i)

\* The invariant of the loop of destroy_node: in the slots up to i there are
\* only pointers to taps that were freed.
Destroying(m, n, i) ==
  /\ m \in Memories /\ Owned(m) /\ Once(m) /\ NoFault(m)
  /\ n \in m.heap /\ n \in Node
  /\ \A x \in m.heap \cap Node, k \in Slot : x # n => SlotOK(m, x, k)
  /\ \A k \in Slot : k > i => SlotOK(m, n, k)
  /\ \A k \in Slot : k <= i /\ m.intfs[n][k] # NULL =>
       /\ m.intfs[n][k] \in Tap \X {0} /\ n \in TapNode
       /\ Object(m.intfs[n][k]) \notin m.heap

NodesOK ==
  /\ nodes = NULL => heap = {}
  /\ nodes # NULL => /\ nodes \in Seq(Node) /\ IsInjective(nodes)
                     /\ Range(nodes) = heap \cap Node

IInv ==
  /\ GraphOK(Memory)
  /\ NodesOK
  /\ nodeOf \in [Intf -> Node \cup {NULL}]
  /\ heap \subseteq used

-----------------------------------------------------------------------------
(* Memory. *)

LEMMA SlotFacts ==
  /\ Slot \subseteq Nat /\ MAX_INTFS_PER_NODE \in Nat /\ MAX_INTFS_PER_NODE \in Slot
  /\ \A i : i \in Slot <=> i \in Nat /\ i >= 1 /\ i <= MAX_INTFS_PER_NODE
BY GraphAssumption DEF Slot

\* An interface, by its object.
LEMMA IntfFacts ==
  /\ NULL \notin Intf
  /\ \A l \in Link : <<l, 1>> \in Intf /\ <<l, 2>> \in Intf
  /\ \A t \in Tap : <<t, 0>> \in Intf
  /\ \A intf \in Intf : /\ intf = <<Object(intf), intf[2]>>
                        /\ intf[2] = 0 => Object(intf) \in Tap /\ Object(intf) \notin Link
                        /\ intf[2] # 0 => Object(intf) \in Link /\ Object(intf) \notin Tap
                        /\ intf[2] \in {0, 1, 2}
                        /\ Object(intf) \notin Node
BY GraphAssumption DEF Intf, Object

\* Whether the loop of destroy_link reads something that was freed.
Dangling(m, n) ==
  \/ n \notin m.heap
  \/ \E i \in Slot : m.intfs[n][i] # NULL /\ Object(m.intfs[n][i]) \notin m.heap

\* The fields that a step changes.
LEMMA AccessFields ==
  ASSUME NEW m \in Memories, NEW o
  PROVE  /\ Access(m, o) \in Memories
         /\ Access(m, o).intfs = m.intfs /\ Access(m, o).heap = m.heap
         /\ o \in m.heap => Access(m, o).fault = m.fault
BY DEF Access, Memories

LEMMA FreeFields ==
  ASSUME NEW m \in Memories, NEW o
  PROVE  /\ Free(m, o) \in Memories
         /\ Free(m, o).intfs = m.intfs /\ Free(m, o).heap = m.heap \ {o}
         /\ o \in m.heap => Free(m, o).fault = m.fault
<1> DEFINE a == Access(m, o)
<1>1. /\ a \in Memories /\ a.intfs = m.intfs
      /\ o \in m.heap => a.fault = m.fault
  BY AccessFields
<1> HIDE DEF a
<1>2. Free(m, o) = [a EXCEPT !.heap = m.heap \ {o}] /\ m.heap \in SUBSET (Node \cup Link \cup Tap)
  BY DEF Free, a, Memories
<1>3. QED BY <1>1, <1>2 DEF Memories

LEMMA ReadSlotsFields ==
  ASSUME NEW m \in Memories, NEW n
  PROVE  /\ ReadSlots(m, n) \in Memories
         /\ ReadSlots(m, n).intfs = m.intfs /\ ReadSlots(m, n).heap = m.heap
         /\ ~Dangling(m, n) => ReadSlots(m, n).fault = m.fault
<1>1. /\ ReadSlots(m, n) = [m EXCEPT !.fault = m.fault \/ Dangling(m, n)]
      /\ Dangling(m, n) \in BOOLEAN
  BY Zenon DEF ReadSlots, Dangling
<1>2. QED BY <1>1 DEF Memories

LEMMA ClearSlotsFields ==
  ASSUME NEW m \in Memories, NEW l \in Link
  PROVE  /\ ClearSlots(m, l) \in Memories
         /\ ClearSlots(m, l).heap = m.heap /\ ClearSlots(m, l).fault = m.fault
         /\ \A n \in Node, i \in Slot :
              ClearSlots(m, l).intfs[n][i] =
                IF n \in {nodeOf[<<l, 1>>], nodeOf[<<l, 2>>]} /\ IsLinkOf(m.intfs[n][i], l)
                THEN NULL ELSE m.intfs[n][i]
<1> DEFINE c == [n \in Node |-> [i \in Slot |->
                  IF n \in {nodeOf[<<l, 1>>], nodeOf[<<l, 2>>]} /\ IsLinkOf(m.intfs[n][i], l)
                  THEN NULL ELSE m.intfs[n][i]]]
<1>1. ClearSlots(m, l) = [m EXCEPT !.intfs = c]
  BY DEF ClearSlots
<1>2. c \in [Node -> [Slot -> Intf \cup {NULL}]]
  BY DEF Memories
<1>3. \A n \in Node, i \in Slot : c[n][i] =
        IF n \in {nodeOf[<<l, 1>>], nodeOf[<<l, 2>>]} /\ IsLinkOf(m.intfs[n][i], l)
        THEN NULL ELSE m.intfs[n][i]
  OBVIOUS
<1> HIDE DEF c
<1>4. [m EXCEPT !.intfs = c] \in Memories /\ [m EXCEPT !.intfs = c].intfs = c
  BY <1>2 DEF Memories
<1>5. [m EXCEPT !.intfs = c].heap = m.heap /\ [m EXCEPT !.intfs = c].fault = m.fault
  BY DEF Memories
<1>6. QED BY <1>1, <1>3, <1>4, <1>5

\* What destroy_link does.
LEMMA LinkDestroyedFields ==
  ASSUME NEW m \in Memories, NEW l \in Link
  PROVE  /\ LinkDestroyed(m, l) \in Memories
         /\ LinkDestroyed(m, l).heap = m.heap \ {l}
         /\ \A n \in Node, i \in Slot :
              LinkDestroyed(m, l).intfs[n][i] =
                IF n \in {nodeOf[<<l, 1>>], nodeOf[<<l, 2>>]} /\ IsLinkOf(m.intfs[n][i], l)
                THEN NULL ELSE m.intfs[n][i]
         /\ l \in m.heap /\ ~Dangling(m, nodeOf[<<l, 1>>]) /\ ~Dangling(m, nodeOf[<<l, 2>>])
              => LinkDestroyed(m, l).fault = m.fault
<1> DEFINE a == Access(m, l)
           b == ReadSlots(a, nodeOf[<<l, 1>>])
           c == ReadSlots(b, nodeOf[<<l, 2>>])
           d == ClearSlots(c, l)
<1>1. /\ a \in Memories /\ a.intfs = m.intfs /\ a.heap = m.heap
      /\ l \in m.heap => a.fault = m.fault
  BY AccessFields
<1> HIDE DEF a
<1>2. /\ b \in Memories /\ b.intfs = m.intfs /\ b.heap = m.heap
      /\ ~Dangling(m, nodeOf[<<l, 1>>]) => b.fault = a.fault
  BY <1>1, ReadSlotsFields DEF Dangling
<1> HIDE DEF b
<1>3. /\ c \in Memories /\ c.intfs = m.intfs /\ c.heap = m.heap
      /\ ~Dangling(m, nodeOf[<<l, 2>>]) => c.fault = b.fault
  BY <1>2, ReadSlotsFields DEF Dangling
<1> HIDE DEF c
<1>4. /\ d \in Memories /\ d.heap = m.heap /\ d.fault = c.fault
      /\ \A n \in Node, i \in Slot : d.intfs[n][i] =
           IF n \in {nodeOf[<<l, 1>>], nodeOf[<<l, 2>>]} /\ IsLinkOf(m.intfs[n][i], l)
           THEN NULL ELSE m.intfs[n][i]
  BY <1>3, ClearSlotsFields
<1> HIDE DEF d
<1>5. LinkDestroyed(m, l) = Free(d, l)
  BY DEF LinkDestroyed, a, b, c, d
<1>6. QED BY <1>1, <1>2, <1>3, <1>4, <1>5, FreeFields

-----------------------------------------------------------------------------
(* Destroying. *)

\* destroy_link leaves the other interfaces alone.
LEMMA LinkGone ==
  ASSUME NEW m \in Memories, NEW l \in Link, l \in m.heap, Owned(m), Once(m)
  PROVE  /\ Owned(LinkDestroyed(m, l)) /\ Once(LinkDestroyed(m, l))
         /\ \A n \in m.heap \cap Node, i \in Slot :
              SlotOK(m, n, i) => SlotOK(LinkDestroyed(m, l), n, i)
<1> DEFINE d == LinkDestroyed(m, l)
<1>1. /\ d \in Memories /\ d.heap = m.heap \ {l}
      /\ \A n \in Node, i \in Slot : d.intfs[n][i] =
           IF n \in {nodeOf[<<l, 1>>], nodeOf[<<l, 2>>]} /\ IsLinkOf(m.intfs[n][i], l)
           THEN NULL ELSE m.intfs[n][i]
  BY LinkDestroyedFields
<1> HIDE DEF d
<1>2. Owned(d)
  <2> SUFFICES ASSUME NEW intf \in Intf, Object(intf) \in d.heap
               PROVE  /\ nodeOf[intf] \in d.heap /\ nodeOf[intf] \in Node
                      /\ nodeOf[intf] \in (IF intf[2] = 0 THEN TapNode ELSE LinkedNode)
                      /\ \E i \in Slot : d.intfs[nodeOf[intf]][i] = intf
    BY DEF Owned
  <2>1. Object(intf) \in m.heap /\ Object(intf) # l /\ intf # NULL
    BY <1>1, IntfFacts
  <2>2. /\ nodeOf[intf] \in m.heap /\ nodeOf[intf] \in Node
        /\ nodeOf[intf] \in (IF intf[2] = 0 THEN TapNode ELSE LinkedNode)
        /\ \E i \in Slot : m.intfs[nodeOf[intf]][i] = intf
    BY <2>1 DEF Owned
  <2>3. nodeOf[intf] # l
    BY <2>2, GraphAssumption
  <2>4. PICK i \in Slot : m.intfs[nodeOf[intf]][i] = intf
    BY <2>2
  <2>5. d.intfs[nodeOf[intf]][i] = intf
    BY <1>1, <2>1, <2>2, <2>4 DEF IsLinkOf
  <2>6. QED BY <1>1, <2>2, <2>3, <2>5
<1>3. \A n \in m.heap \cap Node, i \in Slot : d.intfs[n][i] # NULL => d.intfs[n][i] = m.intfs[n][i]
  BY <1>1
<1>4. Once(d)
  BY <1>1, <1>3 DEF Once
<1>5. ASSUME NEW n \in m.heap \cap Node, NEW i \in Slot, SlotOK(m, n, i), d.intfs[n][i] # NULL
      PROVE  Object(d.intfs[n][i]) \in d.heap /\ nodeOf[d.intfs[n][i]] = n
  <2>1. d.intfs[n][i] = m.intfs[n][i] /\ m.intfs[n][i] # NULL
    BY <1>3, <1>5
  <2>2. Object(m.intfs[n][i]) \in m.heap /\ nodeOf[m.intfs[n][i]] = n
    BY <1>5, <2>1 DEF SlotOK
  <2>3. m.intfs[n][i] \in Intf
    BY <2>1 DEF Memories
  <2>4. Object(m.intfs[n][i]) # l
    <3>1. SUFFICES ASSUME Object(m.intfs[n][i]) = l PROVE FALSE
      OBVIOUS
    <3>2. m.intfs[n][i] \in {<<l, 1>>, <<l, 2>>}
      BY <2>3, <3>1, IntfFacts
    <3>3. n \in {nodeOf[<<l, 1>>], nodeOf[<<l, 2>>]}
      BY <2>2, <3>2
    <3>4. d.intfs[n][i] = NULL
      BY <1>1, <2>1, <3>1, <3>3 DEF IsLinkOf
    <3>5. QED BY <1>5, <3>4
  <2>5. QED BY <1>1, <2>1, <2>2, <2>4
<1>6. QED BY <1>2, <1>4, <1>5 DEF SlotOK, d

\* A slot whose pointers are good is read without a fault.
LEMMA NotDangling ==
  ASSUME NEW m, NEW n, n \in m.heap, \A i \in Slot : SlotOK(m, n, i)
  PROVE  ~Dangling(m, n)
BY DEF Dangling, SlotOK

\* A turn of the loop of destroy_node at a link.
LEMMA LinkSlotDestroyed ==
  ASSUME NEW m, NEW n, NEW i \in Slot, Destroying(m, n, i - 1),
         m.intfs[n][i] # NULL, m.intfs[n][i][2] # 0
  PROVE  /\ Destroying(SlotDestroyed(m, n, i), n, i)
         /\ SlotDestroyed(m, n, i).heap \cap Node = m.heap \cap Node
         /\ SlotDestroyed(m, n, i).heap \subseteq m.heap
<1> DEFINE intf == m.intfs[n][i]
           l == Object(intf)
           a == Access(m, l)
           d == LinkDestroyed(a, l)
<1>1. /\ m \in Memories /\ Owned(m) /\ Once(m) /\ n \in m.heap /\ n \in Node
      /\ i \in Nat /\ i > i - 1
  BY SlotFacts DEF Destroying
<1>2. SlotOK(m, n, i)
  BY <1>1 DEF Destroying
<1>3. /\ intf \in Intf /\ intf \in {<<l, 1>>, <<l, 2>>} /\ l \in Link
      /\ l \in m.heap /\ nodeOf[intf] = n
  <2>1. intf \in Intf
    BY <1>1 DEF Memories
  <2>2. QED BY <1>2, <2>1, IntfFacts DEF SlotOK
<1>4. SlotDestroyed(m, n, i) = d
  BY DEF SlotDestroyed
<1>5. a \in Memories /\ a.intfs = m.intfs /\ a.heap = m.heap /\ a.fault = m.fault
  BY <1>1, <1>3, AccessFields
<1> HIDE DEF a
<1>6. /\ Owned(a) /\ Once(a)
      /\ \A x, k : SlotOK(a, x, k) <=> SlotOK(m, x, k)
      /\ \A x : Dangling(a, x) <=> Dangling(m, x)
  BY <1>1, <1>5 DEF Owned, Once, SlotOK, Dangling
<1>7. /\ Owned(d) /\ Once(d)
      /\ \A x \in m.heap \cap Node, k \in Slot : SlotOK(m, x, k) => SlotOK(d, x, k)
  BY <1>3, <1>5, <1>6, LinkGone
<1>8. /\ d \in Memories /\ d.heap = m.heap \ {l}
      /\ \A x \in Node, k \in Slot : d.intfs[x][k] =
           IF x \in {nodeOf[<<l, 1>>], nodeOf[<<l, 2>>]} /\ IsLinkOf(m.intfs[x][k], l)
           THEN NULL ELSE m.intfs[x][k]
      /\ ~Dangling(m, nodeOf[<<l, 1>>]) /\ ~Dangling(m, nodeOf[<<l, 2>>]) => d.fault = m.fault
  BY <1>3, <1>5, <1>6, LinkDestroyedFields
<1>9. l \notin Node
  BY <1>3, GraphAssumption
<1>10. d.intfs[n][i] = NULL
  BY <1>1, <1>3, <1>8 DEF IsLinkOf
<1> HIDE DEF d
<1>11. NoFault(d)
  <2> SUFFICES ASSUME Separate PROVE d.fault = FALSE
    BY DEF NoFault
  <2>1. /\ <<l, 1>> \in Intf /\ <<l, 2>> \in Intf
        /\ Object(<<l, 1>>) = l /\ Object(<<l, 2>>) = l
        /\ <<l, 1>>[2] # 0 /\ <<l, 2>>[2] # 0
    BY <1>3, IntfFacts DEF Object
  <2>2. \A x \in {nodeOf[<<l, 1>>], nodeOf[<<l, 2>>]} :
          x \in m.heap /\ x \in Node /\ x \in LinkedNode
    BY <1>1, <1>3, <2>1 DEF Owned
  <2>3. n \notin TapNode
    BY <1>3, <2>2 DEF Separate
  <2>4. \A k \in Slot : SlotOK(m, n, k)
    <3> SUFFICES ASSUME NEW k \in Slot, m.intfs[n][k] # NULL PROVE SlotOK(m, n, k)
      BY DEF SlotOK
    <3>1. ~(k <= i - 1)
      BY <2>3 DEF Destroying
    <3>2. k > i - 1
      BY <3>1, <1>1, SlotFacts
    <3>3. QED BY <3>2 DEF Destroying
  <2>5. \A x \in {nodeOf[<<l, 1>>], nodeOf[<<l, 2>>]} : \A k \in Slot : SlotOK(m, x, k)
    BY <2>2, <2>4 DEF Destroying
  <2>6. ~Dangling(m, nodeOf[<<l, 1>>]) /\ ~Dangling(m, nodeOf[<<l, 2>>])
    BY <2>2, <2>5, NotDangling
  <2>7. m.fault = FALSE
    BY DEF Destroying, NoFault
  <2>8. QED BY <1>8, <2>6, <2>7
<1>12. n \in d.heap
  BY <1>1, <1>8, <1>9
<1>13. \A x \in d.heap \cap Node, k \in Slot : x # n => SlotOK(d, x, k)
  BY <1>7, <1>8 DEF Destroying
<1>14. ASSUME NEW k \in Slot, k > i PROVE SlotOK(d, n, k)
  <2>1. k > i - 1
    BY <1>1, <1>14, SlotFacts
  <2>2. QED BY <1>1, <1>7, <2>1 DEF Destroying
<1>15. ASSUME NEW k \in Slot, k <= i, d.intfs[n][k] # NULL
       PROVE  /\ d.intfs[n][k] \in Tap \X {0} /\ n \in TapNode
              /\ Object(d.intfs[n][k]) \notin d.heap
  <2>1. k <= i - 1
    BY <1>1, <1>10, <1>15, SlotFacts
  <2>2. d.intfs[n][k] = m.intfs[n][k]
    BY <1>1, <1>8, <1>15
  <2>3. QED BY <1>8, <1>15, <2>1, <2>2 DEF Destroying
<1>16. Destroying(d, n, i)
  BY <1>1, <1>7, <1>8, <1>11, <1>12, <1>13, <1>14, <1>15 DEF Destroying
<1>17. QED BY <1>4, <1>8, <1>9, <1>16

\* A turn of the loop of destroy_node at a tap: its slot keeps the pointer.
LEMMA TapSlotDestroyed ==
  ASSUME NEW m, NEW n, NEW i \in Slot, Destroying(m, n, i - 1),
         m.intfs[n][i] # NULL, m.intfs[n][i][2] = 0
  PROVE  /\ Destroying(SlotDestroyed(m, n, i), n, i)
         /\ SlotDestroyed(m, n, i).heap \cap Node = m.heap \cap Node
         /\ SlotDestroyed(m, n, i).heap \subseteq m.heap
<1> DEFINE intf == m.intfs[n][i]
           t == Object(intf)
           a == Access(m, t)
           d == Free(a, t)
<1>1. /\ m \in Memories /\ Owned(m) /\ Once(m) /\ n \in m.heap /\ n \in Node
      /\ i \in Nat /\ i > i - 1
  BY SlotFacts DEF Destroying
<1>2. SlotOK(m, n, i)
  BY <1>1 DEF Destroying
<1>3. /\ intf \in Intf /\ intf = <<t, 0>> /\ t \in Tap
      /\ t \in m.heap /\ nodeOf[intf] = n
  <2>1. intf \in Intf
    BY <1>1 DEF Memories
  <2>2. QED BY <1>2, <2>1, IntfFacts DEF SlotOK
<1>4. SlotDestroyed(m, n, i) = d
  BY DEF SlotDestroyed
<1>5. a \in Memories /\ a.intfs = m.intfs /\ a.heap = m.heap /\ a.fault = m.fault
  BY <1>1, <1>3, AccessFields
<1> HIDE DEF a
<1>6. d \in Memories /\ d.intfs = m.intfs /\ d.heap = m.heap \ {t} /\ d.fault = m.fault
  BY <1>3, <1>5, FreeFields
<1> HIDE DEF d
<1>7. t \notin Node
  BY <1>3, GraphAssumption
<1>8. Owned(d)
  BY <1>1, <1>6, <1>7 DEF Owned
<1>9. Once(d)
  BY <1>1, <1>6 DEF Once
<1>10. NoFault(d)
  BY <1>6 DEF NoFault, Destroying
<1>11. ASSUME NEW x \in Node, NEW k \in Slot, x # n \/ k # i, x \in m.heap, SlotOK(m, x, k)
       PROVE  SlotOK(d, x, k)
  <2> SUFFICES ASSUME m.intfs[x][k] # NULL, Object(m.intfs[x][k]) = t PROVE FALSE
    BY <1>6, <1>11 DEF SlotOK
  <2>1. m.intfs[x][k] \in Intf
    BY <1>1 DEF Memories
  <2>2. m.intfs[x][k] = <<t, 0>>
    BY <1>3, <2>1, IntfFacts
  <2>3. x = n
    BY <1>3, <1>11, <2>2 DEF SlotOK
  <2>4. k = i
    BY <1>1, <1>3, <2>2, <2>3 DEF Once
  <2>5. QED BY <1>11, <2>3, <2>4
<1>12. \A x \in d.heap \cap Node, k \in Slot : x # n => SlotOK(d, x, k)
  BY <1>6, <1>11 DEF Destroying
<1>13. ASSUME NEW k \in Slot, k > i PROVE SlotOK(d, n, k)
  <2>1. k > i - 1 /\ k # i
    BY <1>1, <1>13, SlotFacts
  <2>2. QED BY <1>1, <1>11, <2>1 DEF Destroying
<1>14. ASSUME NEW k \in Slot, k <= i, d.intfs[n][k] # NULL
       PROVE  /\ d.intfs[n][k] \in Tap \X {0} /\ n \in TapNode
              /\ Object(d.intfs[n][k]) \notin d.heap
  <2>1. CASE k = i
    <3>1. t \notin d.heap
      BY <1>6
    <3>2. n \in TapNode
      BY <1>1, <1>3 DEF Owned
    <3>3. intf \in Tap \X {0}
      <4> HIDE DEF intf, t
      <4>1. QED BY <1>3
    <3>4. QED BY <1>6, <2>1, <3>1, <3>2, <3>3
  <2>2. CASE k # i
    <3>1. k <= i - 1
      BY <1>1, <1>14, <2>2, SlotFacts
    <3>2. QED BY <1>6, <1>14, <3>1 DEF Destroying
  <2>3. QED BY <2>1, <2>2
<1>15. Destroying(d, n, i)
  BY <1>1, <1>6, <1>7, <1>8, <1>9, <1>10, <1>12, <1>13, <1>14 DEF Destroying
<1>16. QED BY <1>4, <1>6, <1>7, <1>15

\* Every turn of the loop of destroy_node.
LEMMA SlotTurn ==
  ASSUME NEW m, NEW n, NEW i \in Slot, Destroying(m, n, i - 1)
  PROVE  /\ Destroying(SlotDestroyed(m, n, i), n, i)
         /\ SlotDestroyed(m, n, i).heap \cap Node = m.heap \cap Node
         /\ SlotDestroyed(m, n, i).heap \subseteq m.heap
<1>1. CASE m.intfs[n][i] = NULL
  <2>1. SlotDestroyed(m, n, i) = m
    BY <1>1 DEF SlotDestroyed
  <2>2. i \in Nat /\ \A k \in Slot : (k > i => k > i - 1) /\ (k <= i => k <= i - 1 \/ k = i)
    BY SlotFacts
  <2>3. QED BY <1>1, <2>1, <2>2 DEF Destroying
<1>2. QED BY <1>1, LinkSlotDestroyed, TapSlotDestroyed

\* A turn keeps the type of memory, whatever there is in the slot.
LEMMA SlotTurnType ==
  ASSUME NEW m \in Memories, NEW n \in Node, NEW i \in Slot
  PROVE  SlotDestroyed(m, n, i) \in Memories
<1> DEFINE intf == m.intfs[n][i]
           a == Access(m, Object(intf))
<1>1. CASE intf = NULL
  BY <1>1 DEF SlotDestroyed
<1>2. CASE intf # NULL
  <2>1. intf \in Intf
    BY <1>2 DEF Memories
  <2>2. a \in Memories
    BY AccessFields
  <2> HIDE DEF a
  <2>3. CASE intf[2] = 0
    <3>1. SlotDestroyed(m, n, i) = Free(a, Object(intf))
      BY <1>2, <2>3 DEF SlotDestroyed, a
    <3>2. QED BY <2>2, <3>1, FreeFields
  <2>4. CASE intf[2] # 0
    <3>1. SlotDestroyed(m, n, i) = LinkDestroyed(a, Object(intf))
      BY <1>2, <2>4 DEF SlotDestroyed, a
    <3>2. Object(intf) \in Link
      BY <2>1, <2>4, IntfFacts
    <3>3. QED BY <2>2, <3>1, <3>2, LinkDestroyedFields
  <2>5. QED BY <2>3, <2>4
<1>3. QED BY <1>1, <1>2

\* The loop, by the values of memory after each of its turns.
LEMMA SlotsDestroyedDef ==
  ASSUME NEW m \in Memories, NEW n \in Node
  PROVE  \E f : /\ f[0] = m
                /\ \A i \in Slot : f[i] = SlotDestroyed(f[i - 1], n, i)
                /\ SlotsDestroyed(m, n) = f[MAX_INTFS_PER_NODE]
<1> DEFINE max == MAX_INTFS_PER_NODE
           turn == [i \in 1..max |-> [mm \in Memories |-> SlotDestroyed(mm, n, i)]]
           Rec(h) == h = [i \in 0..max |-> IF i = 0 THEN m ELSE SlotDestroyed(h[i - 1], n, i)]
<1>1. max \in Nat /\ max \in 0..max /\ 0 \in 0..max /\ Slot = 1..max
  BY GraphAssumption DEF Slot
<1>2. turn \in [1..max -> [Memories -> Memories]]
  BY <1>1, SlotTurnType
<1> HIDE DEF turn, max
<1>3. PICK f \in [0..max -> Memories] : f[0] = m /\ \A i \in 1..max : f[i] = turn[i][f[i - 1]]
  <2>1. max \in Nat
    BY <1>1
  <2>2. \E f : LoopValues(f, Memories, m, max, turn)
    BY <1>2, <2>1, LoopDef
  <2>3. QED BY <2>2 DEF LoopValues
<1>4. ASSUME NEW i \in 1..max PROVE f[i] = SlotDestroyed(f[i - 1], n, i)
  <2>1. i - 1 \in 0..max
    BY <1>1
  <2>2. f[i - 1] \in Memories
    BY <1>3, <2>1
  <2>3. QED BY <1>3, <2>2 DEF turn
<1>5. Rec(f)
  <2>1. f = [i \in 0..max |-> f[i]]
    BY <1>3
  <2>2. \A i \in 0..max : f[i] = IF i = 0 THEN m ELSE SlotDestroyed(f[i - 1], n, i)
    <3>1. \A i \in 0..max : i # 0 => i \in 1..max
      BY <1>1
    <3>2. QED BY <1>3, <1>4, <3>1
  <2>3. QED BY <2>1, <2>2
<1> DEFINE h == CHOOSE g : Rec(g)
<1>6. Rec(h)
  BY <1>5
<1>7. SlotsDestroyed(m, n) = h[max]
  BY Zenon DEF SlotsDestroyed, max
<1> HIDE DEF h
<1>8. h[0] = m
  BY <1>1, <1>6
<1>9. ASSUME NEW i \in Slot PROVE h[i] = SlotDestroyed(h[i - 1], n, i)
  <2>1. i \in 0..max /\ i # 0
    BY <1>1
  <2>2. QED BY <1>6, <2>1
<1>10. QED BY <1>7, <1>8, <1>9 DEF max

\* destroy_node up to the end of its loop.
LEMMA SlotsGone ==
  ASSUME NEW m, NEW n, Destroying(m, n, 0)
  PROVE  /\ Destroying(SlotsDestroyed(m, n), n, MAX_INTFS_PER_NODE)
         /\ SlotsDestroyed(m, n).heap \cap Node = m.heap \cap Node
         /\ SlotsDestroyed(m, n).heap \subseteq m.heap
<1> DEFINE max == MAX_INTFS_PER_NODE
<1>1. PICK f : /\ f[0] = m
               /\ \A i \in Slot : f[i] = SlotDestroyed(f[i - 1], n, i)
               /\ SlotsDestroyed(m, n) = f[max]
  BY SlotsDestroyedDef DEF Destroying
<1> DEFINE Good(i) == /\ Destroying(f[i], n, i) /\ f[i].heap \cap Node = m.heap \cap Node
                      /\ f[i].heap \subseteq m.heap
           T == {i \in 0..max : ~Good(i)}
<1>2. max \in Nat /\ max \in 0..max
  BY SlotFacts
<1>3. Good(0)
  BY <1>1
<1>4. ASSUME NEW i \in Slot, Good(i - 1) PROVE Good(i)
  BY <1>1, <1>4, SlotTurn
<1> HIDE DEF Good, max
<1>5. SUFFICES ASSUME T # {} PROVE FALSE
  <2>1. Good(max)
    BY <1>2, <1>5
  <2>2. QED BY <1>1, <2>1 DEF Good, max
<1>6. PICK i \in T : \A k \in T : i <= k
  <2>1. T \in SUBSET Nat
    BY <1>2
  <2> HIDE DEF T
  <2>2. QED BY <1>5, <2>1, LeastNat
<1>7. i \in 0..max /\ ~Good(i) /\ i # 0
  BY <1>3
<1>8. i \in Slot /\ i - 1 \in 0..max /\ i - 1 < i
  BY <1>2, <1>7, SlotFacts DEF max
<1>9. Good(i - 1)
  BY <1>6, <1>8
<1>10. QED BY <1>4, <1>7, <1>8, <1>9

\* destroy_node takes a node and all its interfaces out of the graph.
LEMMA NodeGone ==
  ASSUME NEW m, GraphOK(m), NEW n \in Node, n \in m.heap
  PROVE  /\ GraphOK(NodeDestroyed(m, n))
         /\ NodeDestroyed(m, n).heap \cap Node = (m.heap \cap Node) \ {n}
         /\ NodeDestroyed(m, n).heap \subseteq m.heap
<1> DEFINE s == SlotsDestroyed(m, n)
           d == Free(s, n)
<1>1. Destroying(m, n, 0)
  BY SlotFacts DEF GraphOK, Destroying
<1>2. /\ Destroying(s, n, MAX_INTFS_PER_NODE)
      /\ s.heap \cap Node = m.heap \cap Node /\ s.heap \subseteq m.heap
  BY <1>1, SlotsGone
<1> HIDE DEF s
<1>3. s \in Memories /\ Owned(s) /\ Once(s) /\ NoFault(s) /\ n \in s.heap
  BY <1>2 DEF Destroying
<1>4. d \in Memories /\ d.intfs = s.intfs /\ d.heap = s.heap \ {n} /\ d.fault = s.fault
  BY <1>3, FreeFields
<1> HIDE DEF d
<1>5. \A i \in Slot : s.intfs[n][i] # NULL => Object(s.intfs[n][i]) \notin s.heap
  BY <1>2, SlotFacts DEF Destroying
<1>6. Owned(d)
  <2> SUFFICES ASSUME NEW intf \in Intf, Object(intf) \in d.heap
               PROVE  /\ nodeOf[intf] \in d.heap /\ nodeOf[intf] \in Node
                      /\ nodeOf[intf] \in (IF intf[2] = 0 THEN TapNode ELSE LinkedNode)
                      /\ \E i \in Slot : d.intfs[nodeOf[intf]][i] = intf
    BY DEF Owned
  <2>1. Object(intf) \in s.heap /\ intf # NULL
    BY <1>4, IntfFacts
  <2>2. /\ nodeOf[intf] \in s.heap /\ nodeOf[intf] \in Node
        /\ nodeOf[intf] \in (IF intf[2] = 0 THEN TapNode ELSE LinkedNode)
        /\ \E i \in Slot : s.intfs[nodeOf[intf]][i] = intf
    BY <1>3, <2>1 DEF Owned
  <2>3. nodeOf[intf] # n
    BY <1>5, <2>1, <2>2
  <2>4. QED BY <1>4, <2>2, <2>3
<1>7. Once(d)
  BY <1>3, <1>4 DEF Once
<1>8. NoFault(d)
  BY <1>3, <1>4 DEF NoFault
<1>9. ASSUME NEW x \in d.heap \cap Node, NEW i \in Slot PROVE SlotOK(d, x, i)
  <2>1. x \in s.heap \cap Node /\ x # n
    BY <1>4
  <2>2. SlotOK(s, x, i)
    BY <1>2, <2>1 DEF Destroying
  <2>3. s.intfs[x][i] # NULL => Object(s.intfs[x][i]) # n
    <3>1. s.intfs[x][i] # NULL => s.intfs[x][i] \in Intf
      BY <1>3, <2>1 DEF Memories
    <3>2. QED BY <3>1, IntfFacts
  <2>4. QED BY <1>4, <2>2, <2>3 DEF SlotOK
<1>10. NodeDestroyed(m, n) = d
  BY DEF NodeDestroyed, s, d
<1>11. QED BY <1>2, <1>4, <1>6, <1>7, <1>8, <1>9, <1>10 DEF GraphOK

\* destroy_node keeps the type of memory.
LEMMA SlotsDestroyedType ==
  ASSUME NEW m \in Memories, NEW n \in Node
  PROVE  SlotsDestroyed(m, n) \in Memories
<1> DEFINE max == MAX_INTFS_PER_NODE
<1>1. PICK f : /\ f[0] = m
               /\ \A i \in Slot : f[i] = SlotDestroyed(f[i - 1], n, i)
               /\ SlotsDestroyed(m, n) = f[max]
  BY SlotsDestroyedDef
<1> DEFINE T == {i \in 0..max : f[i] \notin Memories}
<1>2. max \in Nat /\ max \in 0..max
  BY SlotFacts
<1>3. SUFFICES ASSUME T # {} PROVE FALSE
  BY <1>1, <1>2
<1>4. PICK i \in T : \A k \in T : i <= k
  <2>1. T \in SUBSET Nat
    BY <1>2
  <2> HIDE DEF T
  <2>2. QED BY <1>3, <2>1, LeastNat
<1>5. i # 0
  BY <1>1
<1>6. i \in Slot /\ i - 1 \in 0..max /\ i - 1 < i
  BY <1>2, <1>5, SlotFacts
<1>7. f[i - 1] \in Memories
  BY <1>4, <1>6
<1>8. QED BY <1>1, <1>6, <1>7, SlotTurnType

\* The loop of destroy_graph, by the values of memory after each of its turns.
LEMMA NodesDestroyedDef ==
  ASSUME NEW m \in Memories, NEW list \in Seq(Node)
  PROVE  \E f : /\ f[0] = m
                /\ \A k \in 1..Len(list) : f[k] = NodeDestroyed(f[k - 1], list[k])
                /\ NodesDestroyed(m, list) = f[Len(list)]
<1> DEFINE max == Len(list)
           turn == [k \in 1..max |-> [mm \in Memories |-> NodeDestroyed(mm, list[k])]]
           Rec(h) == h = [k \in 0..max |-> IF k = 0 THEN m ELSE NodeDestroyed(h[k - 1], list[k])]
<1>1. max \in Nat /\ max \in 0..max /\ 0 \in 0..max
  OBVIOUS
<1>2. turn \in [1..max -> [Memories -> Memories]]
  <2>1. ASSUME NEW k \in 1..max, NEW mm \in Memories PROVE NodeDestroyed(mm, list[k]) \in Memories
    <3>1. list[k] \in Node
      BY ElementOfSeq
    <3>2. QED BY <3>1, SlotsDestroyedType, FreeFields DEF NodeDestroyed
  <2>2. QED BY <2>1
<1> HIDE DEF turn, max
<1>3. PICK f \in [0..max -> Memories] : f[0] = m /\ \A i \in 1..max : f[i] = turn[i][f[i - 1]]
  <2>1. max \in Nat
    BY <1>1
  <2>2. \E f : LoopValues(f, Memories, m, max, turn)
    BY <1>2, <2>1, LoopDef
  <2>3. QED BY <2>2 DEF LoopValues
<1>4. ASSUME NEW i \in 1..max PROVE f[i] = NodeDestroyed(f[i - 1], list[i])
  <2>1. i - 1 \in 0..max
    BY <1>1
  <2>2. f[i - 1] \in Memories
    BY <1>3, <2>1
  <2>3. QED BY <1>3, <2>2 DEF turn
<1>5. Rec(f)
  <2>1. f = [i \in 0..max |-> f[i]]
    BY <1>3
  <2>2. \A i \in 0..max : f[i] = IF i = 0 THEN m ELSE NodeDestroyed(f[i - 1], list[i])
    <3>1. \A i \in 0..max : i # 0 => i \in 1..max
      BY <1>1
    <3>2. QED BY <1>3, <1>4, <3>1
  <2>3. QED BY <2>1, <2>2
<1> DEFINE h == CHOOSE g : Rec(g)
<1>6. Rec(h)
  BY <1>5
<1>7. NodesDestroyed(m, list) = h[max]
  BY Zenon DEF NodesDestroyed, max
<1> HIDE DEF h
<1>8. h[0] = m
  BY <1>1, <1>6
<1>9. ASSUME NEW i \in 1..max PROVE h[i] = NodeDestroyed(h[i - 1], list[i])
  <2>1. i \in 0..max /\ i # 0
    BY <1>1
  <2>2. QED BY <1>6, <2>1
<1>10. QED BY <1>7, <1>8, <1>9 DEF max

\* destroy_graph leaves no node.
LEMMA NodesGone ==
  ASSUME NEW m, GraphOK(m), NEW list \in Seq(Node), IsInjective(list),
         Range(list) = m.heap \cap Node
  PROVE  /\ GraphOK(NodesDestroyed(m, list))
         /\ NodesDestroyed(m, list).heap \cap Node = {}
         /\ NodesDestroyed(m, list).heap \subseteq m.heap
<1> DEFINE max == Len(list)
<1>1. PICK f : /\ f[0] = m
               /\ \A k \in 1..max : f[k] = NodeDestroyed(f[k - 1], list[k])
               /\ NodesDestroyed(m, list) = f[max]
  BY NodesDestroyedDef DEF GraphOK
<1> DEFINE Left(k) == {list[j] : j \in (k + 1)..max}
           Good(k) == GraphOK(f[k]) /\ f[k].heap \cap Node = Left(k) /\ f[k].heap \subseteq m.heap
           T == {k \in 0..max : ~Good(k)}
<1>2. /\ max \in Nat /\ max \in 0..max
      /\ \A j \in 1..max : list[j] \in Node
      /\ \A j, k \in 1..max : list[j] = list[k] => j = k
      /\ Range(list) = {list[j] : j \in 1..max}
  <2>1. max \in Nat /\ max \in 0..max /\ DOMAIN list = 1..max /\ \A j \in 1..max : list[j] \in Node
    BY ElementOfSeq
  <2>2. QED BY <2>1 DEF IsInjective, Range
<1> HIDE DEF max
<1>3. Good(0)
  BY <1>1, <1>2
<1>4. ASSUME NEW k \in 1..max, Good(k - 1) PROVE Good(k)
  <2>1. /\ list[k] \in Left(k - 1) /\ Left(k) = Left(k - 1) \ {list[k]}
    <3>1. k - 1 + 1 = k /\ \A j : j \in k..max <=> j = k \/ j \in (k + 1)..max
      BY <1>2
    <3>2. \A j \in (k + 1)..max : j \in 1..max /\ j # k
      BY <1>2
    <3>3. QED BY <1>2, <3>1, <3>2
  <2> HIDE DEF Left
  <2>2. GraphOK(f[k - 1]) /\ list[k] \in f[k - 1].heap /\ list[k] \in Node
    BY <1>2, <1>4, <2>1
  <2>3. f[k] = NodeDestroyed(f[k - 1], list[k])
    BY <1>1
  <2>4. QED BY <1>4, <2>1, <2>2, <2>3, NodeGone
<1>5. Left(max) = {}
  BY <1>2
<1> HIDE DEF Good, Left
<1>6. SUFFICES ASSUME T # {} PROVE FALSE
  <2>1. Good(max)
    BY <1>2, <1>6
  <2>2. QED BY <1>1, <1>5, <2>1 DEF Good
<1>7. PICK k \in T : \A j \in T : k <= j
  <2>1. T \in SUBSET Nat
    BY <1>2
  <2> HIDE DEF T
  <2>2. QED BY <1>6, <2>1, LeastNat
<1>8. k \in 0..max /\ ~Good(k) /\ k # 0
  BY <1>3
<1>9. k \in 1..max /\ k - 1 \in 0..max /\ k - 1 < k
  BY <1>2, <1>8
<1>10. Good(k - 1)
  BY <1>7, <1>9
<1>11. QED BY <1>4, <1>8, <1>9, <1>10

-----------------------------------------------------------------------------
(* The actions. *)

LEMMA MemoryFields ==
  /\ Memory.intfs = intfs /\ Memory.heap = heap /\ Memory.fault = fault
  /\ Memory'.intfs = intfs' /\ Memory'.heap = heap' /\ Memory'.fault = fault'
  /\ Memory \in Memories <=> /\ intfs \in [Node -> [Slot -> Intf \cup {NULL}]]
                             /\ heap \in SUBSET (Node \cup Link \cup Tap)
                             /\ fault \in BOOLEAN
  /\ Memory' \in Memories <=> /\ intfs' \in [Node -> [Slot -> Intf \cup {NULL}]]
                              /\ heap' \in SUBSET (Node \cup Link \cup Tap)
                              /\ fault' \in BOOLEAN
BY DEF Memory, Memories

\* At first there is nothing.
LEMMA InitOK == Init => IInv
<1> SUFFICES ASSUME Init PROVE IInv
  OBVIOUS
<1>1. GraphOK(Memory)
  <2>1. Memory \in Memories
    <3>1. intfs \in [Node -> [Slot -> Intf \cup {NULL}]]
      BY DEF Init
    <3>2. heap \in SUBSET (Node \cup Link \cup Tap) /\ fault \in BOOLEAN
      BY DEF Init
    <3>3. QED BY <3>1, <3>2, MemoryFields
  <2>2. heap = {} /\ fault = FALSE
    BY DEF Init
  <2>3. QED BY <2>1, <2>2, MemoryFields DEF GraphOK, Owned, Once, NoFault
<1>2. NodesOK
  <2>1. nodes = << >> /\ heap = {}
    BY DEF Init
  <2>2. nodes \in Seq(Node) /\ IsInjective(nodes) /\ Range(nodes) = {}
    BY <2>1 DEF IsInjective, Range
  <2>3. QED BY <2>1, <2>2 DEF NodesOK
<1>3. QED BY <1>1, <1>2 DEF Init, IInv

\* create_graph_node
LEMMA CreateGraphNodeOK ==
  ASSUME IInv, NEW n \in Node, CreateGraphNode(n)
  PROVE  IInv'
<1>1. /\ nodes # NULL /\ n \notin heap
      /\ nodes' = <<n>> \o nodes
      /\ intfs' = [intfs EXCEPT ![n] = [i \in Slot |-> NULL]]
      /\ heap' = heap \cup {n} /\ used' = used \cup {n}
      /\ nodeOf' = nodeOf /\ fault' = fault
  BY DEF CreateGraphNode, IInv
<1>2. /\ intfs \in [Node -> [Slot -> Intf \cup {NULL}]]
      /\ heap \in SUBSET (Node \cup Link \cup Tap) /\ fault \in BOOLEAN
      /\ Owned(Memory) /\ Once(Memory) /\ NoFault(Memory)
      /\ \A x \in heap \cap Node, i \in Slot : SlotOK(Memory, x, i)
  BY MemoryFields DEF IInv, GraphOK
<1>3. \A x \in Node, i \in Slot : intfs'[x][i] = IF x = n THEN NULL ELSE intfs[x][i]
  BY <1>1, <1>2
<1>4. Memory' \in Memories
  <2>1. intfs' \in [Node -> [Slot -> Intf \cup {NULL}]]
    BY <1>1, <1>2
  <2>2. QED BY <1>1, <1>2, <2>1, MemoryFields
<1>5. Owned(Memory)'
  <2> SUFFICES ASSUME NEW intf \in Intf, Object(intf) \in heap'
               PROVE  /\ nodeOf[intf] \in heap' /\ nodeOf[intf] \in Node
                      /\ nodeOf[intf] \in (IF intf[2] = 0 THEN TapNode ELSE LinkedNode)
                      /\ \E i \in Slot : intfs'[nodeOf[intf]][i] = intf
    BY <1>1, MemoryFields DEF Owned
  <2>1. Object(intf) \in heap
    BY <1>1, IntfFacts
  <2>2. /\ nodeOf[intf] \in heap /\ nodeOf[intf] \in Node
        /\ nodeOf[intf] \in (IF intf[2] = 0 THEN TapNode ELSE LinkedNode)
        /\ \E i \in Slot : intfs[nodeOf[intf]][i] = intf
    BY <1>2, <2>1, MemoryFields DEF Owned
  <2>3. nodeOf[intf] # n
    BY <1>1, <2>2
  <2>4. QED BY <1>1, <1>3, <2>2, <2>3
<1>6. Once(Memory)'
  BY <1>1, <1>2, <1>3, MemoryFields DEF Once
<1>7. NoFault(Memory)'
  BY <1>1, <1>2, MemoryFields DEF NoFault
<1>8. \A x \in heap' \cap Node, i \in Slot : SlotOK(Memory, x, i)'
  BY <1>1, <1>2, <1>3, MemoryFields DEF SlotOK
<1>9. GraphOK(Memory)'
  BY <1>4, <1>5, <1>6, <1>7, <1>8, MemoryFields DEF GraphOK
<1>10. NodesOK'
  <2>1. nodes \in Seq(Node) /\ IsInjective(nodes) /\ Range(nodes) = heap \cap Node
    BY <1>1 DEF IInv, NodesOK
  <2>2. nodes' \in Seq(Node) /\ IsInjective(nodes') /\ Range(nodes') = heap' \cap Node
    BY <1>1, <2>1, PrependRange, PrependInjective
  <2>3. nodes' # NULL
    BY <2>2, GraphAssumption
  <2>4. QED BY <2>2, <2>3 DEF NodesOK
<1>11. QED BY <1>1, <1>9, <1>10 DEF IInv

\* new differs from the slots old in that slot s of n, free before, holds intf.
Placed(old, new, n, s, intf) ==
  /\ old[n][s] = NULL
  /\ \A x \in Node, i \in Slot : new[x][i] = IF x = n /\ i = s THEN intf ELSE old[x][i]

\* init_interface puts an interface into a slot that was free.
LEMMA InterfacePlaced ==
  ASSUME NEW slots \in [Node -> [Slot -> Intf \cup {NULL}]], NEW n \in Node, NEW intf \in Intf,
         AvailableSlot(slots[n]) # -1
  PROVE  /\ InitInterface(slots, n, intf) \in [Node -> [Slot -> Intf \cup {NULL}]]
         /\ \E s \in Slot : Placed(slots, InitInterface(slots, n, intf), n, s, intf)
<1> DEFINE free == {i \in Slot : slots[n][i] = NULL}
           s == AvailableSlot(slots[n])
<1>1. free # {} /\ s = Min(free)
  BY DEF AvailableSlot
<1>2. s \in free
  <2>1. free \in SUBSET Nat
    BY SlotFacts
  <2> HIDE DEF free, s
  <2>2. QED BY <1>1, <2>1, MinIsLeast
<1>3. s \in Slot /\ slots[n][s] = NULL
  BY <1>2
<1> HIDE DEF s
<1>4. InitInterface(slots, n, intf) = [slots EXCEPT ![n][s] = intf]
  BY DEF InitInterface, s
<1>5. QED BY <1>3, <1>4 DEF Placed

\* What init_interface does for a new link or tap keeps the graph.
LEMMA ObjectAdded ==
  ASSUME IInv, NEW o \in Link \cup Tap, o \notin used,
         intfs' \in [Node -> [Slot -> Intf \cup {NULL}]],
         heap' = heap \cup {o}, fault' = fault,
         \A x \in Node, i \in Slot :
           \/ intfs'[x][i] = intfs[x][i]
           \/ /\ intfs[x][i] = NULL /\ intfs'[x][i] \in Intf
              /\ Object(intfs'[x][i]) = o /\ nodeOf'[intfs'[x][i]] = x,
         \A x \in heap \cap Node, i, j \in Slot :
           intfs'[x][i] \in Intf /\ Object(intfs'[x][i]) = o /\ intfs'[x][i] = intfs'[x][j] => i = j,
         \A intf \in Intf : Object(intf) # o => nodeOf'[intf] = nodeOf[intf],
         \A intf \in Intf : Object(intf) = o =>
           /\ nodeOf'[intf] \in heap /\ nodeOf'[intf] \in Node
           /\ nodeOf'[intf] \in (IF intf[2] = 0 THEN TapNode ELSE LinkedNode)
           /\ \E i \in Slot : intfs'[nodeOf'[intf]][i] = intf
  PROVE  GraphOK(Memory)'
<1>1. /\ intfs \in [Node -> [Slot -> Intf \cup {NULL}]]
      /\ heap \in SUBSET (Node \cup Link \cup Tap) /\ fault \in BOOLEAN
      /\ Owned(Memory) /\ Once(Memory) /\ NoFault(Memory)
      /\ \A x \in heap \cap Node, i \in Slot : SlotOK(Memory, x, i)
      /\ o \notin heap /\ o \notin Node
  BY MemoryFields, GraphAssumption DEF IInv, GraphOK
<1>2. Memory' \in Memories
  BY <1>1, MemoryFields
<1>3. \A x \in Node, i \in Slot : intfs[x][i] # NULL => intfs'[x][i] = intfs[x][i]
  OBVIOUS
<1>4. Owned(Memory)'
  <2> SUFFICES ASSUME NEW intf \in Intf, Object(intf) \in heap'
               PROVE  /\ nodeOf'[intf] \in heap' /\ nodeOf'[intf] \in Node
                      /\ nodeOf'[intf] \in (IF intf[2] = 0 THEN TapNode ELSE LinkedNode)
                      /\ \E i \in Slot : intfs'[nodeOf'[intf]][i] = intf
    BY MemoryFields DEF Owned
  <2>1. CASE Object(intf) = o
    BY <2>1
  <2>2. CASE Object(intf) # o
    <3>1. nodeOf'[intf] = nodeOf[intf] /\ Object(intf) \in heap /\ intf # NULL
      BY <2>2, IntfFacts
    <3>2. /\ nodeOf[intf] \in heap /\ nodeOf[intf] \in Node
          /\ nodeOf[intf] \in (IF intf[2] = 0 THEN TapNode ELSE LinkedNode)
          /\ \E i \in Slot : intfs[nodeOf[intf]][i] = intf
      BY <1>1, <3>1, MemoryFields DEF Owned
    <3>3. QED BY <1>3, <3>1, <3>2
  <2>3. QED BY <2>1, <2>2
<1>5. ASSUME NEW x \in heap \cap Node, NEW i \in Slot, intfs[x][i] # NULL
      PROVE  /\ Object(intfs[x][i]) \in heap /\ Object(intfs[x][i]) # o
             /\ nodeOf'[intfs[x][i]] = x
  <2>1. Object(intfs[x][i]) \in heap /\ nodeOf[intfs[x][i]] = x
    BY <1>1, <1>5, MemoryFields DEF SlotOK
  <2>2. Object(intfs[x][i]) # o /\ intfs[x][i] \in Intf
    BY <1>1, <1>5, <2>1
  <2>3. QED BY <2>1, <2>2
<1>6. heap' \cap Node = heap \cap Node
  BY <1>1
<1>7. Once(Memory)'
  <2> SUFFICES ASSUME NEW x \in heap' \cap Node, NEW i \in Slot, NEW j \in Slot,
                      intfs'[x][i] # NULL, intfs'[x][i] = intfs'[x][j]
               PROVE  i = j
    BY MemoryFields DEF Once
  <2>1. x \in heap \cap Node /\ x \in Node /\ intfs'[x][i] \in Intf
    BY <1>6
  <2>2. CASE Object(intfs'[x][i]) = o
    BY <2>1, <2>2
  <2>3. CASE Object(intfs'[x][i]) # o
    <3>1. intfs'[x][i] = intfs[x][i] /\ intfs'[x][j] = intfs[x][j]
      BY <2>1, <2>3
    <3>2. \A k \in Slot : intfs[x][i] # NULL /\ intfs[x][i] = intfs[x][k] => i = k
      BY <1>1, <2>1, MemoryFields DEF Once
    <3>3. QED BY <3>1, <3>2
  <2>4. QED BY <2>2, <2>3
<1>8. NoFault(Memory)'
  BY <1>1, MemoryFields DEF NoFault
<1>9. \A x \in heap' \cap Node, i \in Slot : SlotOK(Memory, x, i)'
  <2> SUFFICES ASSUME NEW x \in heap' \cap Node, NEW i \in Slot, intfs'[x][i] # NULL
               PROVE  Object(intfs'[x][i]) \in heap' /\ nodeOf'[intfs'[x][i]] = x
    BY MemoryFields DEF SlotOK
  <2>1. x \in heap \cap Node /\ x \in Node
    BY <1>6
  <2>2. CASE intfs'[x][i] = intfs[x][i]
    BY <1>5, <2>1, <2>2
  <2>3. CASE intfs'[x][i] # intfs[x][i]
    BY <2>1, <2>3
  <2>4. QED BY <2>2, <2>3
<1>10. QED BY <1>2, <1>4, <1>7, <1>8, <1>9, MemoryFields DEF GraphOK

\* No slot holds an interface of an object that was never allocated.
LEMMA NewObject ==
  ASSUME IInv, NEW intf \in Intf, Object(intf) \notin used
  PROVE  \A x \in heap \cap Node, i \in Slot : intfs[x][i] # intf
BY IntfFacts, MemoryFields DEF IInv, GraphOK, SlotOK

\* The list of nodes when no node comes or goes.
LEMMA SameNodes ==
  ASSUME IInv, nodes' = nodes, heap' \cap Node = heap \cap Node, nodes # NULL
  PROVE  NodesOK'
BY DEF IInv, NodesOK

\* insert_tuntap_interface
LEMMA InsertTuntapInterfaceOK ==
  ASSUME IInv, NEW n \in Node, NEW t \in Tap, InsertTuntapInterface(n, t)
  PROVE  IInv'
<1>1. /\ n \in heap /\ n \in TapNode /\ t \notin used
      /\ AvailableSlot(intfs[n]) # -1
      /\ intfs' = InitInterface(intfs, n, <<t, 0>>)
      /\ nodeOf' = [nodeOf EXCEPT ![<<t, 0>>] = n]
      /\ used' = used \cup {t} /\ heap' = heap \cup {t}
      /\ nodes' = nodes /\ fault' = fault
  BY DEF InsertTuntapInterface
<1>2. /\ intfs \in [Node -> [Slot -> Intf \cup {NULL}]]
      /\ nodeOf \in [Intf -> Node \cup {NULL}]
      /\ <<t, 0>> \in Intf /\ Object(<<t, 0>>) = t /\ t \notin Node
      /\ \A intf \in Intf : Object(intf) = t <=> intf = <<t, 0>>
  BY MemoryFields, IntfFacts, GraphAssumption DEF IInv, GraphOK, Object
<1>3. intfs' \in [Node -> [Slot -> Intf \cup {NULL}]]
  BY <1>1, <1>2, InterfacePlaced
<1>4. PICK s \in Slot : Placed(intfs, intfs', n, s, <<t, 0>>)
  BY <1>1, <1>2, InterfacePlaced
<1>5. /\ nodeOf' \in [Intf -> Node \cup {NULL}] /\ nodeOf'[<<t, 0>>] = n
      /\ \A intf \in Intf : Object(intf) # t => nodeOf'[intf] = nodeOf[intf]
  BY <1>1, <1>2
<1>6. \A x \in Node, i \in Slot :
        \/ intfs'[x][i] = intfs[x][i]
        \/ /\ intfs[x][i] = NULL /\ intfs'[x][i] \in Intf
           /\ Object(intfs'[x][i]) = t /\ nodeOf'[intfs'[x][i]] = x
  BY <1>2, <1>4, <1>5 DEF Placed
<1>7. \A x \in heap \cap Node, i \in Slot : intfs[x][i] # <<t, 0>>
  BY <1>1, <1>2, NewObject
<1>8. \A x \in heap \cap Node, i, j \in Slot :
        intfs'[x][i] \in Intf /\ Object(intfs'[x][i]) = t /\ intfs'[x][i] = intfs'[x][j] => i = j
  <2>1. \A x \in heap \cap Node, i \in Slot : intfs'[x][i] = <<t, 0>> => i = s
    BY <1>4, <1>7 DEF Placed
  <2>2. QED BY <1>2, <2>1
<1>9. \A intf \in Intf : Object(intf) = t =>
        /\ nodeOf'[intf] \in heap /\ nodeOf'[intf] \in Node
        /\ nodeOf'[intf] \in (IF intf[2] = 0 THEN TapNode ELSE LinkedNode)
        /\ \E i \in Slot : intfs'[nodeOf'[intf]][i] = intf
  <2>1. intfs'[n][s] = <<t, 0>> /\ <<t, 0>>[2] = 0
    BY <1>4 DEF Placed
  <2>2. QED BY <1>1, <1>2, <1>5, <2>1
<1>10. GraphOK(Memory)'
  <2>1. t \in Link \cup Tap
    OBVIOUS
  <2>2. QED BY <1>1, <1>3, <1>5, <1>6, <1>8, <1>9, <2>1, ObjectAdded
<1>11. NodesOK'
  BY <1>1, <1>2, SameNodes DEF IInv, NodesOK
<1>12. QED BY <1>1, <1>5, <1>10, <1>11 DEF IInv

\* insert_link_between_two_nodes, also from a node to itself.
LEMMA InsertLinkOK ==
  ASSUME IInv, NEW n1 \in Node, NEW n2 \in Node, NEW l \in Link,
         InsertLinkBetweenTwoNodes(n1, n2, l)
  PROVE  IInv'
<1> DEFINE first == InitInterface(intfs, n1, <<l, 1>>)
<1>1. /\ n1 \in heap /\ n2 \in heap /\ n1 \in LinkedNode /\ n2 \in LinkedNode
      /\ l \notin used
      /\ AvailableSlot(intfs[n1]) # -1 /\ AvailableSlot(first[n2]) # -1
      /\ intfs' = InitInterface(first, n2, <<l, 2>>)
      /\ nodeOf' = [nodeOf EXCEPT ![<<l, 1>>] = n1, ![<<l, 2>>] = n2]
      /\ used' = used \cup {l} /\ heap' = heap \cup {l}
      /\ nodes' = nodes /\ fault' = fault
  BY DEF InsertLinkBetweenTwoNodes
<1>2. /\ intfs \in [Node -> [Slot -> Intf \cup {NULL}]]
      /\ nodeOf \in [Intf -> Node \cup {NULL}]
      /\ <<l, 1>> \in Intf /\ <<l, 2>> \in Intf
      /\ Object(<<l, 1>>) = l /\ Object(<<l, 2>>) = l /\ l \notin Node
      /\ <<l, 1>> # NULL /\ <<l, 2>> # NULL
  BY MemoryFields, IntfFacts, GraphAssumption DEF IInv, GraphOK, Object
<1>3. \A intf \in Intf : Object(intf) = l <=> intf \in {<<l, 1>>, <<l, 2>>}
  BY <1>2, IntfFacts, GraphAssumption
<1>4. first \in [Node -> [Slot -> Intf \cup {NULL}]]
  BY <1>1, <1>2, InterfacePlaced
<1>5. PICK s1 \in Slot : Placed(intfs, first, n1, s1, <<l, 1>>)
  BY <1>1, <1>2, InterfacePlaced
<1> HIDE DEF first
<1>6. intfs' \in [Node -> [Slot -> Intf \cup {NULL}]]
  BY <1>1, <1>2, <1>4, InterfacePlaced
<1>7. PICK s2 \in Slot : Placed(first, intfs', n2, s2, <<l, 2>>)
  BY <1>1, <1>2, <1>4, InterfacePlaced
<1>8. /\ intfs[n1][s1] = NULL /\ intfs[n2][s2] = NULL
      /\ n1 # n2 \/ s1 # s2
      /\ \A x \in Node, i \in Slot : intfs'[x][i] =
           IF x = n2 /\ i = s2 THEN <<l, 2>>
           ELSE IF x = n1 /\ i = s1 THEN <<l, 1>> ELSE intfs[x][i]
  <2>1. first[n2][s2] = NULL /\ first[n1][s1] = <<l, 1>> /\ intfs[n1][s1] = NULL
    BY <1>5, <1>7 DEF Placed
  <2>2. n1 # n2 \/ s1 # s2
    BY <1>2, <2>1
  <2>3. intfs[n2][s2] = NULL
    BY <1>5, <2>1, <2>2 DEF Placed
  <2>4. ASSUME NEW x \in Node, NEW i \in Slot
        PROVE  intfs'[x][i] = IF x = n2 /\ i = s2 THEN <<l, 2>>
                              ELSE IF x = n1 /\ i = s1 THEN <<l, 1>> ELSE intfs[x][i]
    <3>1. /\ first[x][i] = IF x = n1 /\ i = s1 THEN <<l, 1>> ELSE intfs[x][i]
          /\ intfs'[x][i] = IF x = n2 /\ i = s2 THEN <<l, 2>> ELSE first[x][i]
      BY <1>5, <1>7 DEF Placed
    <3>2. QED BY <3>1
  <2>5. QED BY <2>1, <2>2, <2>3, <2>4
<1>9. /\ nodeOf' \in [Intf -> Node \cup {NULL}]
      /\ nodeOf'[<<l, 1>>] = n1 /\ nodeOf'[<<l, 2>>] = n2
      /\ \A intf \in Intf : Object(intf) # l => nodeOf'[intf] = nodeOf[intf]
  BY <1>1, <1>2
<1>10. \A x \in Node, i \in Slot :
         \/ intfs'[x][i] = intfs[x][i]
         \/ /\ intfs[x][i] = NULL /\ intfs'[x][i] \in Intf
            /\ Object(intfs'[x][i]) = l /\ nodeOf'[intfs'[x][i]] = x
  <2> SUFFICES ASSUME NEW x \in Node, NEW i \in Slot
               PROVE  \/ intfs'[x][i] = intfs[x][i]
                      \/ /\ intfs[x][i] = NULL /\ intfs'[x][i] \in Intf
                         /\ Object(intfs'[x][i]) = l /\ nodeOf'[intfs'[x][i]] = x
    OBVIOUS
  <2>1. CASE x = n2 /\ i = s2
    BY <1>2, <1>8, <1>9, <2>1
  <2>2. CASE ~(x = n2 /\ i = s2) /\ x = n1 /\ i = s1
    <3>1. intfs'[x][i] = <<l, 1>>
      BY <1>8, <2>2
    <3>2. QED BY <1>2, <1>8, <1>9, <2>2, <3>1
  <2>3. CASE ~(x = n2 /\ i = s2) /\ ~(x = n1 /\ i = s1)
    BY <1>8, <2>3
  <2>4. QED BY <2>1, <2>2, <2>3
<1>11. \A x \in heap \cap Node, i \in Slot : intfs[x][i] # <<l, 1>> /\ intfs[x][i] # <<l, 2>>
  BY <1>1, <1>2, NewObject
<1>12. \A x \in heap \cap Node, i, j \in Slot :
         intfs'[x][i] \in Intf /\ Object(intfs'[x][i]) = l /\ intfs'[x][i] = intfs'[x][j] => i = j
  <2>1. \A x \in heap \cap Node, i \in Slot : /\ intfs'[x][i] = <<l, 1>> => i = s1
                                              /\ intfs'[x][i] = <<l, 2>> => i = s2
    BY <1>8, <1>11
  <2>2. QED BY <1>3, <2>1
<1>13. \A intf \in Intf : Object(intf) = l =>
         /\ nodeOf'[intf] \in heap /\ nodeOf'[intf] \in Node
         /\ nodeOf'[intf] \in (IF intf[2] = 0 THEN TapNode ELSE LinkedNode)
         /\ \E i \in Slot : intfs'[nodeOf'[intf]][i] = intf
  <2>1. intfs'[n1][s1] = <<l, 1>> /\ intfs'[n2][s2] = <<l, 2>>
    BY <1>8
  <2>2. <<l, 1>>[2] # 0 /\ <<l, 2>>[2] # 0
    OBVIOUS
  <2>3. QED BY <1>1, <1>3, <1>9, <2>1, <2>2
<1>14. GraphOK(Memory)'
  <2>1. l \in Link \cup Tap
    OBVIOUS
  <2>2. QED BY <1>1, <1>6, <1>9, <1>10, <1>12, <1>13, <2>1, ObjectAdded
<1>15. NodesOK'
  BY <1>1, <1>2, SameNodes DEF IInv, NodesOK
<1>16. QED BY <1>1, <1>9, <1>14, <1>15 DEF IInv

\* What Remember stores is the memory of the next state.
LEMMA Remembered ==
  ASSUME NEW m \in Memories, Remember(m), nodeOf' = nodeOf
  PROVE  (GraphOK(m) => GraphOK(Memory)') /\ heap' = m.heap
<1>1. intfs' = m.intfs /\ heap' = m.heap /\ fault' = m.fault
  BY DEF Remember
<1>2. Memory' \in Memories
  BY <1>1, MemoryFields DEF Memories
<1>3. Owned(m) => Owned(Memory)'
  BY <1>1, MemoryFields DEF Owned
<1>4. Once(m) => Once(Memory)'
  BY <1>1, MemoryFields DEF Once
<1>5. NoFault(m) => NoFault(Memory)'
  BY <1>1, MemoryFields DEF NoFault
<1>6. \A x, i : SlotOK(m, x, i) => SlotOK(Memory, x, i)'
  BY <1>1, MemoryFields DEF SlotOK
<1>7. QED BY <1>1, <1>2, <1>3, <1>4, <1>5, <1>6, MemoryFields DEF GraphOK

\* destroy_link
LEMMA DestroyLinkOK ==
  ASSUME IInv, NEW l \in Link, DestroyLink(l)
  PROVE  IInv'
<1> DEFINE d == LinkDestroyed(Memory, l)
<1>1. /\ l \in heap /\ Remember(d)
      /\ nodes' = nodes /\ nodeOf' = nodeOf /\ used' = used
  BY DEF DestroyLink
<1>2. /\ Memory \in Memories /\ Memory.heap = heap /\ Memory.intfs = intfs
      /\ Owned(Memory) /\ Once(Memory) /\ NoFault(Memory)
      /\ \A x \in heap \cap Node, i \in Slot : SlotOK(Memory, x, i)
      /\ l \notin Node
  BY MemoryFields, GraphAssumption DEF IInv, GraphOK
<1>3. /\ d \in Memories /\ d.heap = heap \ {l}
      /\ ~Dangling(Memory, nodeOf[<<l, 1>>]) /\ ~Dangling(Memory, nodeOf[<<l, 2>>])
           => d.fault = Memory.fault
  BY <1>1, <1>2, LinkDestroyedFields
<1>4. /\ Owned(d) /\ Once(d)
      /\ \A x \in heap \cap Node, i \in Slot : SlotOK(d, x, i)
  BY <1>1, <1>2, LinkGone
<1> HIDE DEF d
<1>5. NoFault(d)
  <2>1. /\ <<l, 1>> \in Intf /\ <<l, 2>> \in Intf
        /\ Object(<<l, 1>>) = l /\ Object(<<l, 2>>) = l
    BY IntfFacts DEF Object
  <2>2. \A x \in {nodeOf[<<l, 1>>], nodeOf[<<l, 2>>]} : x \in Memory.heap /\ x \in Node
    BY <1>1, <1>2, <2>1 DEF Owned
  <2>3. ~Dangling(Memory, nodeOf[<<l, 1>>]) /\ ~Dangling(Memory, nodeOf[<<l, 2>>])
    BY <1>2, <2>2, NotDangling
  <2>4. QED BY <1>2, <1>3, <2>3 DEF NoFault
<1>6. GraphOK(d)
  BY <1>3, <1>4, <1>5 DEF GraphOK
<1>7. GraphOK(Memory)' /\ heap' = heap \ {l}
  BY <1>1, <1>3, <1>6, Remembered
<1>8. NodesOK'
  <2>1. nodes # NULL
    BY <1>1 DEF IInv, NodesOK
  <2>2. QED BY <1>1, <1>2, <1>7, <2>1, SameNodes
<1>9. QED BY <1>1, <1>7, <1>8 DEF IInv

\* destroy_node
LEMMA DestroyNodeOK ==
  ASSUME IInv, NEW n \in Node, DestroyNode(n)
  PROVE  IInv'
<1> DEFINE d == NodeDestroyed(Memory, n)
<1>1. /\ n \in heap /\ Remember(d) /\ nodes' = RemoveFirst(nodes, n)
      /\ nodeOf' = nodeOf /\ used' = used
  BY DEF DestroyNode
<1>2. GraphOK(Memory) /\ Memory.heap = heap
  BY MemoryFields DEF IInv
<1>3. /\ GraphOK(d) /\ d.heap \cap Node = (heap \cap Node) \ {n} /\ d.heap \subseteq heap
      /\ d \in Memories
  BY <1>1, <1>2, NodeGone DEF GraphOK
<1> HIDE DEF d
<1>4. GraphOK(Memory)' /\ heap' \cap Node = (heap \cap Node) \ {n} /\ heap' \subseteq heap
  BY <1>1, <1>3, Remembered
<1>5. NodesOK'
  <2>1. nodes # NULL
    BY <1>1 DEF IInv, NodesOK
  <2>2. nodes \in Seq(Node) /\ IsInjective(nodes) /\ Range(nodes) = heap \cap Node
    BY <2>1 DEF IInv, NodesOK
  <2>3. nodes' \in Seq(Node) /\ IsInjective(nodes') /\ Range(nodes') = heap' \cap Node
    BY <1>1, <1>4, <2>2, RemoveFirstRange
  <2>4. nodes' # NULL
    BY <2>3, GraphAssumption
  <2>5. QED BY <2>3, <2>4 DEF NodesOK
<1>6. QED BY <1>1, <1>4, <1>5 DEF IInv

\* Without nodes there is nothing.
LEMMA NoNodes ==
  ASSUME NEW m \in Memories, Owned(m), m.heap \cap Node = {}
  PROVE  m.heap = {}
<1> SUFFICES ASSUME NEW o \in m.heap PROVE FALSE
  OBVIOUS
<1>1. o \in Link \cup Tap
  BY DEF Memories
<1>2. \E intf \in Intf : Object(intf) = o
  <2>1. CASE o \in Link
    BY <2>1, IntfFacts DEF Object
  <2>2. CASE o \in Tap
    BY <2>2, IntfFacts DEF Object
  <2>3. QED BY <1>1, <2>1, <2>2
<1>3. QED BY <1>2 DEF Owned

\* destroy_graph
LEMMA DestroyGraphOK == IInv /\ DestroyGraph => IInv'
<1> SUFFICES ASSUME IInv, DestroyGraph PROVE IInv'
  OBVIOUS
<1> DEFINE d == NodesDestroyed(Memory, nodes)
<1>1. /\ nodes # NULL /\ Remember(d) /\ nodes' = NULL
      /\ nodeOf' = nodeOf /\ used' = used
  BY DEF DestroyGraph
<1>2. /\ GraphOK(Memory) /\ Memory.heap = heap
      /\ nodes \in Seq(Node) /\ IsInjective(nodes) /\ Range(nodes) = heap \cap Node
  BY <1>1, MemoryFields DEF IInv, NodesOK
<1>3. GraphOK(d) /\ d.heap \cap Node = {}
  BY <1>2, NodesGone
<1> HIDE DEF d
<1>4. d \in Memories /\ Owned(d)
  BY <1>3 DEF GraphOK
<1>5. d.heap = {}
  BY <1>3, <1>4, NoNodes
<1>6. GraphOK(Memory)' /\ heap' = {}
  BY <1>1, <1>3, <1>4, <1>5, Remembered
<1>7. QED BY <1>1, <1>6 DEF IInv, NodesOK

\* Every step keeps the invariant.
LEMMA NextOK == IInv /\ [Next]_vars => IInv'
<1> SUFFICES ASSUME IInv, [Next]_vars PROVE IInv'
  OBVIOUS
<1>1. ASSUME NEW n \in Node, CreateGraphNode(n) \/ DestroyNode(n) PROVE IInv'
  BY <1>1, CreateGraphNodeOK, DestroyNodeOK
<1>2. ASSUME NEW n1 \in Node, NEW n2 \in Node, NEW l \in Link,
             InsertLinkBetweenTwoNodes(n1, n2, l)
      PROVE  IInv'
  BY <1>2, InsertLinkOK
<1>3. ASSUME NEW n \in Node, NEW t \in Tap, InsertTuntapInterface(n, t) PROVE IInv'
  BY <1>3, InsertTuntapInterfaceOK
<1>4. ASSUME NEW l \in Link, DestroyLink(l) PROVE IInv'
  BY <1>4, DestroyLinkOK
<1>5. CASE DestroyGraph
  BY <1>5, DestroyGraphOK
<1>6. CASE UNCHANGED vars
  BY <1>6 DEF vars, IInv, GraphOK, NodesOK, Memory, Owned, Once, NoFault, SlotOK
<1>7. QED BY <1>1, <1>2, <1>3, <1>4, <1>5, <1>6 DEF Next

LEMMA Invariance == Spec => []IInv
BY InitOK, NextOK, PTL DEF Spec

-----------------------------------------------------------------------------
(* Theorems. *)

\* destroy_graph leaves nothing allocated, whatever was built and destroyed
\* before it.
THEOREM GraphFreed == Spec => []NothingLeaks
<1>1. IInv => NothingLeaks
  BY DEF IInv, NodesOK, NothingLeaks
<1>2. QED BY <1>1, Invariance, PTL

\* The slots of the nodes and the ends of the links agree at all times, also
\* for links from a node to itself and for nodes with links and taps.
THEOREM LinksStayConnected == Spec => []LinksConnect
<1>1. IInv => LinksConnect
  <2> SUFFICES ASSUME IInv PROVE LinksConnect
    OBVIOUS
  <2>1. /\ intfs \in [Node -> [Slot -> Intf \cup {NULL}]]
        /\ Owned(Memory) /\ Once(Memory)
        /\ \A n \in heap \cap Node, i \in Slot : SlotOK(Memory, n, i)
    BY MemoryFields DEF IInv, GraphOK
  <2>2. \A intf \in Intf : Object(intf) \in heap =>
          /\ nodeOf[intf] \in heap /\ nodeOf[intf] \in Node
          /\ \E i \in Slot : intfs[nodeOf[intf]][i] = intf
    BY <2>1, MemoryFields DEF Owned
  <2>3. ASSUME NEW intf \in Intf, Object(intf) \in heap
        PROVE  Cardinality({i \in Slot : intfs[nodeOf[intf]][i] = intf}) = 1
    <3>1. PICK i \in Slot : intfs[nodeOf[intf]][i] = intf
      BY <2>2, <2>3
    <3>2. \A j \in Slot : intfs[nodeOf[intf]][j] = intf => j = i
      BY <2>1, <2>2, <2>3, <3>1, IntfFacts, MemoryFields DEF Once
    <3>3. {j \in Slot : intfs[nodeOf[intf]][j] = intf} = {i}
      BY <3>1, <3>2
    <3>4. QED BY <3>3, FS_Singleton
  <2>4. ASSUME NEW n \in heap \cap Node, NEW i \in Slot, intfs[n][i] # NULL,
               NEW nbr, nbr = GetNbrIf(intfs[n][i])
        PROVE  /\ Object(intfs[n][i]) \in heap /\ nodeOf[intfs[n][i]] = n
               /\ nbr # NULL => /\ nodeOf[nbr] \in heap
                                /\ \E j \in Slot : intfs[nodeOf[nbr]][j] = nbr
    <3>1. Object(intfs[n][i]) \in heap /\ nodeOf[intfs[n][i]] = n /\ intfs[n][i] \in Intf
      BY <2>1, <2>4, MemoryFields DEF SlotOK
    <3>2. nbr # NULL => nbr \in Intf /\ Object(nbr) = Object(intfs[n][i])
      BY <2>4, <3>1 DEF GetNbrIf, Intf, Object
    <3>3. QED BY <2>2, <3>1, <3>2
  <2>5. QED BY <2>3, <2>4 DEF LinksConnect
<1>2. QED BY <1>1, Invariance, PTL

\* If no node has both links and taps, nothing is used after it was freed or
\* freed twice.  Otherwise destroy_node frees a tap, keeps the pointer in its
\* slot, and destroy_link reads it.
THEOREM NothingUsedAfterFree == Separate => (Spec => []NoUseAfterFree)
<1> SUFFICES ASSUME Separate PROVE Spec => []NoUseAfterFree
  OBVIOUS
<1>1. IInv => NoUseAfterFree
  BY MemoryFields DEF IInv, GraphOK, NoFault, NoUseAfterFree
<1>2. QED BY <1>1, Invariance, PTL
=============================================================================
