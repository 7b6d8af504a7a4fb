-------------------------------- MODULE Fifo --------------------------------
(***************************************************************************)
(* What list.h promises to its users: a list is a sequence, newest element *)
(* first, to which an element is added in front and from which any element *)
(* is taken.  IpArp, ArpRace, Udp and Tcp use lists as such sequences;     *)
(* LinkedList implements this specification with pointers.                 *)
(***************************************************************************)
EXTENDS Naturals, Sequences, SequencesExt

CONSTANT Element

VARIABLE elems

Init == elems = <<>>

Add(n) == n \notin Range(elems) /\ elems' = <<n>> \o elems

Del(n) == n \in Range(elems) /\ elems' = RemoveFirst(elems, n)

Next == \E n \in Element : Add(n) \/ Del(n)

Spec == Init /\ [][Next]_elems
=============================================================================
