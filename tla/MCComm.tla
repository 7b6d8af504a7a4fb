------------------------------- MODULE MCComm -------------------------------
(* Instances of Comm: a link and a tap. *)
EXTENDS Comm

CONSTANTS u1, u2, t1

LinkNbr == u1 :> u2 @@ u2 :> u1
=============================================================================
