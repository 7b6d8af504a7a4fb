------------------------------- MODULE MCUdp -------------------------------
(***************************************************************************)
(* Instances of Udp with two interfaces at the ends of one link.           *)
(***************************************************************************)
EXTENDS Udp

CONSTANTS eth0, eth1

BothWays == {<<eth0, eth1>>, <<eth1, eth0>>}
=============================================================================
