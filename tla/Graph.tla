------------------------------- MODULE Graph --------------------------------
(***************************************************************************)
(* Building and destroying the topology (graph.c, graph.h): nodes with     *)
(* their slots for interfaces, links that hold the interfaces of both      *)
(* ends, tap interfaces that are allocated by themselves, and the frees    *)
(* that take them down in any order.                                       *)
(*                                                                         *)
(* An object that was freed is never allocated again under the same name,  *)
(* so that a pointer to it can be told from a pointer to a new one.        *)
(***************************************************************************)
EXTENDS Integers, FiniteSetsExt, SequencesExt

CONSTANTS
  Node, Link, Tap,     \* the objects that may be allocated
  NULL,
  LinkedNode,          \* the nodes that may be connected
  TapNode,             \* the nodes that may get a tap
  MAX_INTFS_PER_NODE

ASSUME GraphAssumption ==
  /\ Node \cap Link = {} /\ Node \cap Tap = {} /\ Link \cap Tap = {}
  /\ NULL \notin Node \cup (Link \X {1, 2}) \cup (Tap \X {0}) \cup Seq(Node)
  /\ LinkedNode \subseteq Node /\ TapNode \subseteq Node
  /\ MAX_INTFS_PER_NODE \in Nat \ {0}

\* The interfaces within a link, and those by themselves.
Intf == (Link \X {1, 2}) \cup (Tap \X {0})

\* The allocation that an interface is part of.
Object(intf) == intf[1]

Slot == 1..MAX_INTFS_PER_NODE

VARIABLES
  nodes,   \* the list of nodes; NULL if the graph does not exist
  intfs,   \* the slots of each node
  nodeOf,  \* the node member of each interface
  used,    \* the objects that were allocated
  heap,    \* the objects that are allocated
  fault    \* memory was accessed after it was freed, or freed twice

vars == <<nodes, intfs, nodeOf, used, heap, fault>>

-----------------------------------------------------------------------------
(* graph.h *)

GetNbrIf(intf) == IF intf[2] = 0 THEN NULL ELSE <<intf[1], 3 - intf[2]>>

\* The first free slot, or -1.
AvailableSlot(slots) ==
  LET free == {i \in Slot : slots[i] = NULL}
  IN  IF free = {} THEN -1 ELSE Min(free)

-----------------------------------------------------------------------------
(* Building. *)

\* init_interface; the assertion that there is a slot ends the program.
InitInterface(slots, n, intf) == [slots EXCEPT ![n][AvailableSlot(slots[n])] = intf]

CreateGraphNode(n) ==
  /\ nodes # NULL /\ n \notin used
  /\ nodes' = <<n>> \o nodes
  /\ intfs' = [intfs EXCEPT ![n] = [i \in Slot |-> NULL]]
  /\ used' = used \cup {n} /\ heap' = heap \cup {n}
  /\ UNCHANGED <<nodeOf, fault>>

\* Also from a node to itself, and several between two nodes.
InsertLinkBetweenTwoNodes(n1, n2, l) ==
  LET first == InitInterface(intfs, n1, <<l, 1>>)
  IN  /\ {n1, n2} \subseteq heap \cap LinkedNode /\ l \notin used
      /\ AvailableSlot(intfs[n1]) # -1 /\ AvailableSlot(first[n2]) # -1
      /\ intfs' = InitInterface(first, n2, <<l, 2>>)
      /\ nodeOf' = [nodeOf EXCEPT ![<<l, 1>>] = n1, ![<<l, 2>>] = n2]
      /\ used' = used \cup {l} /\ heap' = heap \cup {l}
      /\ UNCHANGED <<nodes, fault>>

InsertTuntapInterface(n, t) ==
  /\ n \in heap \cap TapNode /\ t \notin used
  /\ AvailableSlot(intfs[n]) # -1
  /\ intfs' = InitInterface(intfs, n, <<t, 0>>)
  /\ nodeOf' = [nodeOf EXCEPT ![<<t, 0>>] = n]
  /\ used' = used \cup {t} /\ heap' = heap \cup {t}
  /\ UNCHANGED <<nodes, fault>>

-----------------------------------------------------------------------------
(* Destroying: m has the slots, the heap and whether there was a fault. *)

Memory == [intfs |-> intfs, heap |-> heap, fault |-> fault]

Access(m, o) == [m EXCEPT !.fault = m.fault \/ o \notin m.heap]

Free(m, o) == [Access(m, o) EXCEPT !.heap = m.heap \ {o}]

IsLinkOf(intf, l) == intf # NULL /\ Object(intf) = l

\* Defect: the slots of the second end are not cleared.
ClearSlotsOfFirst(m, l) ==
  [m EXCEPT !.intfs[nodeOf[<<l, 1>>]] =
     [i \in Slot |-> IF IsLinkOf(@[i], l) THEN NULL ELSE @[i]]]

ClearSlots(m, l) ==
  [m EXCEPT !.intfs = [n \in Node |-> [i \in Slot |->
     IF n \in {nodeOf[<<l, 1>>], nodeOf[<<l, 2>>]} /\ IsLinkOf(m.intfs[n][i], l)
     THEN NULL ELSE m.intfs[n][i]]]]

\* The loop reads the link member of every interface of both nodes.
ReadSlots(m, n) ==
  [m EXCEPT !.fault = \/ m.fault
                      \/ n \notin m.heap
                      \/ \E i \in Slot : /\ m.intfs[n][i] # NULL
                                         /\ Object(m.intfs[n][i]) \notin m.heap]

LinkDestroyed(m, l) ==
  LET read == ReadSlots(ReadSlots(Access(m, l), nodeOf[<<l, 1>>]), nodeOf[<<l, 2>>])
  IN  Free(ClearSlots(read, l), l)

\* Defect: only links are destroyed.
SlotDestroyedIfLink(m, n, i) ==
  LET intf == m.intfs[n][i]
  IN  IF intf = NULL \/ intf[2] = 0 THEN m ELSE LinkDestroyed(Access(m, Object(intf)), Object(intf))

\* One turn of the loop of destroy_node: the slot of a tap keeps its pointer.
SlotDestroyed(m, n, i) ==
  LET intf == m.intfs[n][i]
  IN  IF intf = NULL THEN m
      ELSE LET read == Access(m, Object(intf))
           IN  IF intf[2] # 0 THEN LinkDestroyed(read, Object(intf)) ELSE Free(read, Object(intf))

\* The loop of destroy_node.
SlotsDestroyed(m, n) ==
  LET after[i \in 0..MAX_INTFS_PER_NODE] ==
        IF i = 0 THEN m ELSE SlotDestroyed(after[i - 1], n, i)
  IN  after[MAX_INTFS_PER_NODE]

NodeDestroyed(m, n) == Free(SlotsDestroyed(m, n), n)

\* The loop of destroy_graph over its list of nodes.
NodesDestroyed(m, list) ==
  LET after[k \in 0..Len(list)] ==
        IF k = 0 THEN m ELSE NodeDestroyed(after[k - 1], list[k])
  IN  after[Len(list)]

Remember(m) == intfs' = m.intfs /\ heap' = m.heap /\ fault' = m.fault

DestroyLink(l) ==
  /\ l \in heap
  /\ Remember(LinkDestroyed(Memory, l))
  /\ UNCHANGED <<nodes, nodeOf, used>>

DestroyNode(n) ==
  /\ n \in heap
  /\ nodes' = RemoveFirst(nodes, n)
  /\ Remember(NodeDestroyed(Memory, n))
  /\ UNCHANGED <<nodeOf, used>>

DestroyGraph ==
  /\ nodes # NULL
  /\ Remember(NodesDestroyed(Memory, nodes))
  /\ nodes' = NULL
  /\ UNCHANGED <<nodeOf, used>>

-----------------------------------------------------------------------------
\* create_new_graph
Init ==
  /\ nodes = <<>>
  /\ intfs = [n \in Node |-> [i \in Slot |-> NULL]]
  /\ nodeOf = [i \in Intf |-> NULL]
  /\ used = {} /\ heap = {} /\ fault = FALSE

Next ==
  \/ \E n \in Node : CreateGraphNode(n) \/ DestroyNode(n)
  \/ \E n1, n2 \in Node, l \in Link : InsertLinkBetweenTwoNodes(n1, n2, l)
  \/ \E n \in Node, t \in Tap : InsertTuntapInterface(n, t)
  \/ \E l \in Link : DestroyLink(l)
  \/ DestroyGraph

Spec == Init /\ [][Next]_vars

-----------------------------------------------------------------------------
(* Properties. *)

\* No node, link or interface is used after it was freed or freed twice, in
\* whatever order links, nodes and the graph are destroyed, as long as no node
\* has both taps and links.  A node with both goes wrong: destroy_node frees the
\* tap and keeps its pointer, which destroy_link then reads (MCGraph_tap.cfg).
NoUseAfterFree == ~fault

\* The slots of nodes and the ends of links agree: every interface that
\* exists is in exactly one slot, of the node it belongs to, every slot of a
\* node holds an interface that exists, and its neighbour is in a slot of a
\* node that exists: a frame sent over a link finds somebody at the other end.
LinksConnect ==
  /\ \A intf \in Intf : Object(intf) \in heap =>
       Cardinality({i \in Slot : intfs[nodeOf[intf]][i] = intf}) = 1
  /\ \A n \in heap \cap Node, i \in Slot : intfs[n][i] # NULL =>
       LET nbr == GetNbrIf(intfs[n][i])
       IN  /\ Object(intfs[n][i]) \in heap /\ nodeOf[intfs[n][i]] = n
           /\ nbr # NULL => /\ nodeOf[nbr] \in heap
                            /\ \E j \in Slot : intfs[nodeOf[nbr]][j] = nbr

\* destroy_graph frees everything: the ends of links, the taps, parallel
\* links and links from a node to itself.
NothingLeaks == nodes = NULL => heap = {}
=============================================================================
