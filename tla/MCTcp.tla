------------------------------- MODULE MCTcp -------------------------------
(***************************************************************************)
(* Instances of Tcp with two peers.                                        *)
(***************************************************************************)
EXTENDS Tcp

CONSTANTS a, b

\* The sequence numbers of a wrap around within its stream, those of b do not.
WrappingIss == (a :> SeqSpace - 2) @@ (b :> 0)

\* b opens its connections with a zero window.
ThePeerWnd == (a :> 3) @@ (b :> 0)

BothReachable == {a, b}

OneReachable == {a}
=============================================================================
