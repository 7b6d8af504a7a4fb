----------------------------- MODULE ByteStream -----------------------------
(***************************************************************************)
(* What the receiving half of TCP promises: on every connection the bytes  *)
(* 1, 2, ... of the peer's stream arrive once each and in order, and the   *)
(* application takes them in the same order, in portions of its choice.    *)
(***************************************************************************)
EXTENDS Integers, Sequences

CONSTANTS
  Conn,    \* connections
  Length   \* bytes of a stream

VARIABLES
  arrived, \* how many bytes have arrived on each connection
  taken    \* the bytes that the application has taken

Init == arrived = [c \in Conn |-> 0] /\ taken = [c \in Conn |-> <<>>]

Arrive(c) ==
  /\ \E n \in 1..(Length - arrived[c]) : arrived' = [arrived EXCEPT ![c] = @ + n]
  /\ UNCHANGED taken

Take(c) ==
  /\ \E n \in 1..(arrived[c] - Len(taken[c])) :
       taken' = [taken EXCEPT ![c] = @ \o [k \in 1..n |-> Len(@) + k]]
  /\ UNCHANGED arrived

Next == \E c \in Conn : Arrive(c) \/ Take(c)

Spec == Init /\ [][Next]_<<arrived, taken>>
=============================================================================
