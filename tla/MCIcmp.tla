------------------------------- MODULE MCIcmp -------------------------------
(***************************************************************************)
(* Topologies for Icmp.  Addresses have two octets of four bits: the       *)
(* network is the first, that is the low, octet.                           *)
(***************************************************************************)
EXTENDS Icmp

RT == INSTANCE RouteTable WITH
        AddrBits <- 8, OctetBits <- 4, Masks <- {0, 4}, NextHops <- {0},
        MaxRoutes <- 0, NoRoute <- NULL, routes <- <<>>

Host(net, host) == net + 16 * host

Connected(net, i) == [dst |-> net, mask |-> 4, next |-> 0, intf |-> i]

Default(next, i) == [dst |-> 0, mask |-> 0, next |-> next, intf |-> i]

\* What rt_lookup_lpm finds in the given tables, reduced to what
\* ip_postroute uses of a route.
Lookup(tables) ==
  [n \in DOMAIN tables |-> [ip \in IpAddr |->
     LET rt == RT!RtLookupLpm(tables[n], ip)
     IN  IF rt = NULL THEN NULL ELSE [next |-> rt.next, intf |-> rt.intf]]]

-----------------------------------------------------------------------------
(* The topology of the test fixture, node1 --- node0 --- node2, with       *)
(* default routes through node0.  node0 has node1 for its default gateway, *)
(* so that a packet to a network nobody has loops between the two.         *)

FixtureNode == {"node0", "node1", "node2"}

FixtureIntf == {"eth01", "eth10", "eth02", "eth20"}

FixtureNodeOf == [i \in FixtureIntf |->
  CASE i \in {"eth01", "eth02"} -> "node0"
    [] i = "eth10" -> "node1"
    [] i = "eth20" -> "node2"]

FixtureNbr == [i \in FixtureIntf |->
  CASE i = "eth01" -> "eth10"
    [] i = "eth10" -> "eth01"
    [] i = "eth02" -> "eth20"
    [] i = "eth20" -> "eth02"]

FixtureIfIp == [i \in FixtureIntf |->
  CASE i = "eth01" -> Host(1, 1)
    [] i = "eth10" -> Host(1, 2)
    [] i = "eth02" -> Host(2, 1)
    [] i = "eth20" -> Host(2, 2)]

\* An address of the first network that no interface has.
Nobody == Host(1, 3)

\* An address of a network that no node is connected to.
Nowhere == Host(3, 1)

FixtureIpAddr == {0, Nobody, Nowhere} \cup {FixtureIfIp[i] : i \in FixtureIntf}

FixtureIfMac == [i \in FixtureIntf |-> i]

FixtureRtLookup == Lookup(
  [n \in FixtureNode |->
     CASE n = "node0" -> <<Default(Host(1, 2), "eth01"),
                        Connected(2, "eth02"), Connected(1, "eth01")>>
       [] n = "node1" -> <<Default(Host(1, 1), "eth10"), Connected(1, "eth10")>>
       [] n = "node2" -> <<Default(Host(2, 1), "eth20"), Connected(2, "eth20")>>])

\* Every node pings its neighbours; node1 also pings node2, through node0,
\* and an address that does not exist, and node2 a network that does not.
FixtureTargets == [n \in FixtureNode |->
  CASE n = "node0" -> {Host(1, 2), Host(2, 2)}
    [] n = "node1" -> {Host(1, 1), Host(2, 2), Nobody}
    [] n = "node2" -> {Host(2, 1), Nowhere}]

FarTargets == [n \in FixtureNode |-> IF n = "node1" THEN {Host(2, 2)} ELSE {}]

SelfTargets == [n \in FixtureNode |-> IF n = "node1" THEN {Host(1, 2)} ELSE {}]

-----------------------------------------------------------------------------
ASSUME ConsistentRoutes == RoutesOnLink
=============================================================================
