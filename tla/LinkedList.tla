----------------------------- MODULE LinkedList -----------------------------
(***************************************************************************)
(* The intrusive, circular, doubly linked list of list.h, store by store.  *)
(*                                                                         *)
(* Three threads use one list: one adds elements (list_add), one takes     *)
(* them: single ones (list_del), the last one first as tcp_recv and        *)
(* udp_recvfrom do, or all of them in a walk (list_for_each_entry_safe,    *)
(* which flushes an ARP queue and destroys tables); one looks through the  *)
(* list (list_for_each_entry).  Nothing is locked: Concurrent says which   *)
(* threads run at the same time.  The program lets an adder run beside a   *)
(* walker (the tables and the lists of sockets), and an adder beside a     *)
(* taker on rx_skb (udp.c:29 and 107, tcp.c:120 and 302) and on            *)
(* pending_pkts (ip.c:110 and arp.c:97); this goes wrong, see              *)
(* MCLinkedList_race.cfg and MCLinkedList_flush.cfg.  The order of the     *)
(* stores is the one of the statements, which the unoptimised build keeps. *)
(***************************************************************************)
EXTENDS Naturals, Sequences, SequencesExt, FiniteSets

CONSTANTS
  Element,     \* the list_head fields of the elements
  Base,        \* the list_head that is the list
  Concurrent,  \* sets of threads that may be at work together
  NULL

Cell == Element \cup {Base}

Thread == {"adder", "taker", "walker"}

ASSUME LinkedListAssumption ==
  /\ IsFiniteSet(Element) /\ Base \notin Element /\ NULL \notin Cell
  /\ Concurrent \subseteq SUBSET Thread

VARIABLES
  next, prev,  \* the fields of every list_head
  pc,          \* thread -> the statement it executes next
  new,         \* the element that the adder adds
  pos, tmp,    \* the element that the taker takes, and the one after it in a walk
  cur,         \* the walker's cursor
  freed,       \* history: the elements that were taken off, and are sent or freed
  seen, due    \* history: what the walker saw, and what it has to see

vars == <<next, prev, pc, new, pos, tmp, cur, freed, seen, due>>

adderVars == <<new>>
takerVars == <<pos, tmp, freed>>
walkerVars == <<cur, seen, due>>

-----------------------------------------------------------------------------
(* Reading the list. *)

\* The cells met from the base on along f, without the base itself.
Chain(f) ==
  LET N == Cardinality(Element)
      walk[k \in 0..N] == IF k = 0 THEN f[Base]
                          ELSE IF walk[k - 1] \in Element THEN f[walk[k - 1]] ELSE Base
      end == Min({k \in 0..N : walk[k] \notin Element} \cup {N})
  IN  [k \in 1..end |-> walk[k - 1]]

ListEmpty == next[Base] = Base

Begin(t, to) ==
  /\ pc[t] = "idle"
  /\ \E group \in Concurrent : {t} \cup {u \in Thread : pc[u] # "idle"} \subseteq group
  /\ pc' = [pc EXCEPT ![t] = to]

Step(t, from, to) == pc[t] = from /\ pc' = [pc EXCEPT ![t] = to]

-----------------------------------------------------------------------------
(* list_add(new, Base). *)

\* The cells of new elements come from calloc; a taken element is not reused.
AddPrev ==
  /\ Begin("adder", "add_next")
  /\ \E n \in Element \ freed :
       /\ next[n] = NULL
       /\ new' = n
       /\ prev' = [prev EXCEPT ![n] = Base]
  /\ UNCHANGED <<next, takerVars, walkerVars>>

\* Defect: the base is redirected before the element has a successor.
AddNextLate ==
  /\ Step("adder", "add_next", "add_link")
  /\ next' = [next EXCEPT ![Base] = new]
  /\ UNCHANGED <<prev, adderVars, takerVars, walkerVars>>

AddNext ==
  /\ Step("adder", "add_next", "add_link")
  /\ next' = [next EXCEPT ![new] = next[Base]]
  /\ UNCHANGED <<prev, adderVars, takerVars, walkerVars>>

\* new->prev->next = new
AddLink ==
  /\ Step("adder", "add_link", "add_back")
  /\ next' = [next EXCEPT ![prev[new]] = new]
  /\ UNCHANGED <<prev, adderVars, takerVars, walkerVars>>

\* Defect: the old first element keeps its predecessor.
AddBackSkipped ==
  /\ Step("adder", "add_back", "idle")
  /\ UNCHANGED <<next, prev, adderVars, takerVars, walkerVars>>

\* new->next->prev = new
AddBack ==
  /\ Step("adder", "add_back", "idle")
  /\ prev' = [prev EXCEPT ![next[new]] = new]
  /\ UNCHANGED <<next, adderVars, takerVars, walkerVars>>

-----------------------------------------------------------------------------
(* list_del, of the last element or of each element of a safe walk. *)

TakeLast ==
  /\ Begin("taker", "del_next")
  /\ ~ListEmpty
  /\ pos' = prev[Base]
  /\ tmp' = NULL
  /\ UNCHANGED <<next, prev, freed, adderVars, walkerVars>>

TakeAll ==
  /\ Begin("taker", "walk")
  /\ pos' = next[Base]
  /\ tmp' = next[next[Base]]
  /\ UNCHANGED <<next, prev, freed, adderVars, walkerVars>>

WalkOn ==
  /\ Step("taker", "walk", IF pos = Base THEN "idle" ELSE "del_next")
  /\ UNCHANGED <<next, prev, takerVars, adderVars, walkerVars>>

\* entry->prev->next = entry->next
DelNext ==
  /\ Step("taker", "del_next", "del_prev")
  /\ next' = [next EXCEPT ![prev[pos]] = next[pos]]
  /\ UNCHANGED <<prev, takerVars, adderVars, walkerVars>>

\* Defect: the successor keeps its predecessor.
DelPrevSkipped ==
  /\ Step("taker", "del_prev", IF tmp = NULL THEN "idle" ELSE "walk")
  /\ freed' = freed \cup {pos}
  /\ IF tmp = NULL THEN UNCHANGED <<pos, tmp>> ELSE pos' = tmp /\ tmp' = next[tmp]
  /\ UNCHANGED <<next, prev, adderVars, walkerVars>>

\* entry->next->prev = entry->prev; the element is sent or freed, and a walk
\* goes on with pos = tmp, tmp = tmp->next.
DelPrev ==
  /\ Step("taker", "del_prev", IF tmp = NULL THEN "idle" ELSE "walk")
  /\ prev' = [prev EXCEPT ![next[pos]] = prev[pos]]
  /\ freed' = freed \cup {pos}
  /\ IF tmp = NULL THEN UNCHANGED <<pos, tmp>> ELSE pos' = tmp /\ tmp' = next[tmp]
  /\ UNCHANGED <<next, adderVars, walkerVars>>

-----------------------------------------------------------------------------
(* list_for_each_entry. *)

LookFirst ==
  /\ Begin("walker", "look")
  /\ cur' = next[Base]
  /\ seen' = {}
  /\ due' = Range(Chain(next))
  /\ UNCHANGED <<next, prev, adderVars, takerVars>>

LookNext ==
  /\ Step("walker", "look", "look")
  /\ cur \in Element
  /\ seen' = seen \cup {cur}
  /\ cur' = next[cur]
  /\ UNCHANGED <<next, prev, due, adderVars, takerVars>>

LookEnd ==
  /\ Step("walker", "look", "idle")
  /\ cur = Base
  /\ UNCHANGED <<next, prev, adderVars, takerVars, walkerVars>>

-----------------------------------------------------------------------------
\* INIT_LIST_HEAD(Base)
Init ==
  /\ next = [c \in Cell |-> IF c = Base THEN Base ELSE NULL]
  /\ prev = next
  /\ pc = [t \in Thread |-> "idle"]
  /\ new = NULL /\ pos = NULL /\ tmp = NULL /\ cur = Base
  /\ freed = {} /\ seen = {} /\ due = {}

Next ==
  \/ AddPrev \/ AddNext \/ AddLink \/ AddBack
  \/ TakeLast \/ TakeAll \/ WalkOn \/ DelNext \/ DelPrev
  \/ LookFirst \/ LookNext \/ LookEnd

Spec == Init /\ [][Next]_vars

-----------------------------------------------------------------------------
(* Properties. *)

\* The list, read forwards, is a sequence that list_add and list_del change
\* as Fifo says, in one step each and however their stores are spread.
AsSequence == INSTANCE Fifo WITH elems <- Chain(next)

ListIsSequence == AsSequence!Spec

\* Between two operations the list read backwards is the reverse of the list
\* read forwards: list_last_entry, with which tcp_recv and udp_recvfrom find
\* the oldest segment, agrees with the walks.
BackwardsToo ==
  pc["adder"] = "idle" /\ pc["taker"] = "idle" => Chain(prev) = Reverse(Chain(next))

\* What list_last_entry returns on a list that is not empty is one of its
\* elements: udp_recvfrom and tcp_recv read a segment.
TakerHoldsElement == pc["taker"] \in {"del_next", "del_prev"} => pos \in Element

\* What was taken off the list, and then sent or freed, is not on it any more:
\* neither a walk nor list_last_entry comes across it again.
TakenIsGone ==
  pc["taker"] = "idle" => freed \cap (Range(Chain(next)) \cup {prev[Base]}) = {}

\* A lookup that runs while another thread adds entries (arp_table_lookup,
\* rt_lookup_lpm, udp_socks_manager_find) never follows an uninitialised
\* pointer, and when it reaches the end it has seen every element that was on
\* the list when it began.
LookupSeesAll ==
  /\ cur # NULL
  /\ pc["walker"] = "look" /\ cur = Base => due \subseteq seen
=============================================================================
