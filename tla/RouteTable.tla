----------------------------- MODULE RouteTable -----------------------------
(***************************************************************************)
(* A node's routing table (ip.c): a list of routes, newest first, and the  *)
(* longest-prefix lookup over it.                                          *)
(*                                                                         *)
(* An address is the number that a little-endian machine loads from the    *)
(* address's octets in network order: the first octet is the least         *)
(* significant one.  AddrBits and OctetBits are 32 and 8 in the code.      *)
(***************************************************************************)
EXTENDS Integers, Sequences

CONSTANTS
  AddrBits,
  OctetBits,
  Masks,      \* prefix lengths given to rt_table_add_route
  NextHops,   \* gateways; 0 for a network that is directly connected
  Intf,
  MaxRoutes,  \* bound on the length of the table
  NoRoute     \* the null pointer that a lookup without a result returns

ASSUME RouteTableAssumption ==
  /\ AddrBits \in Nat \ {0}
  /\ OctetBits \in Nat \ {0}
  /\ AddrBits % OctetBits = 0
  /\ Masks \subseteq 0..AddrBits
  /\ NextHops \subseteq Nat /\ 0 \in NextHops

VARIABLE routes

\* Powers of two, for the bits of an address.
pow2[k \in 0..AddrBits] == IF k = 0 THEN 1 ELSE 2 * pow2[k - 1]

Addr == 0..(pow2[AddrBits] - 1)

Route == [dst : Addr, mask : Masks, next : NextHops, intf : Intf]

ASSUME NoRouteAssumption == NoRoute \notin Route

-----------------------------------------------------------------------------
\* INT_IP_MASKED: ip & ((1<<mask) - 1).  The shift count wraps at the width
\* of int, which is what the x86 shift instruction does with 1<<32.
IntIpMasked(ip, mask) == ip % pow2[mask % AddrBits]

IpNetEq(ip1, ip2, mask) == IntIpMasked(ip1, mask) = IntIpMasked(ip2, mask)

\* Defect: >= in place of >.
LookupStepOldest(ip, acc, entry) ==
  CASE entry.dst = 0 -> [acc EXCEPT !.default_entry = entry]
    [] entry.dst # 0 /\ IpNetEq(ip, entry.dst, entry.mask)
         /\ entry.mask >= acc.max_mask ->
         [acc EXCEPT !.max_mask = entry.mask, !.max_entry = entry]
    [] OTHER -> acc

\* One iteration of the loop of rt_lookup_lpm.
LookupStep(ip, acc, entry) ==
  CASE entry.dst = 0 -> [acc EXCEPT !.default_entry = entry]
    [] entry.dst # 0 /\ IpNetEq(ip, entry.dst, entry.mask)
         /\ entry.mask > acc.max_mask ->
         [acc EXCEPT !.max_mask = entry.mask, !.max_entry = entry]
    [] OTHER -> acc

RtLookupLpm(table, ip) ==
  LET found[k \in 0..Len(table)] ==
        IF k = 0 THEN [max_mask |-> 0, max_entry |-> NoRoute, default_entry |-> NoRoute]
        ELSE LookupStep(ip, found[k - 1], table[k])
      last == found[Len(table)]
  IN  IF last.max_entry # NoRoute THEN last.max_entry ELSE last.default_entry

\* rt_table_add_route
RtTableAddRoute(dst, mask, next, intf) ==
  /\ Len(routes) < MaxRoutes
  /\ routes' = <<[dst |-> dst, mask |-> mask, next |-> next, intf |-> intf]>>
                 \o routes

\* The route that node_set_intf_ip_addr adds for an interface's own network.
AddConnectedRoute(ip, mask, intf) ==
  /\ ip # 0
  /\ RtTableAddRoute(IntIpMasked(ip, mask), mask, 0, intf)

\* destroy_rt_table
DestroyRtTable == routes # <<>> /\ routes' = <<>>

RtInit == routes = <<>>

RtNext ==
  \/ \E dst \in Addr, mask \in Masks, next \in NextHops, intf \in Intf :
       RtTableAddRoute(dst, mask, next, intf)
  \/ \E ip \in Addr, mask \in Masks, intf \in Intf :
       AddConnectedRoute(ip, mask, intf)
  \/ DestroyRtTable

RtSpec == RtInit /\ [][RtNext]_routes

-----------------------------------------------------------------------------
(* The reference: prefixes of the addresses as they are written, octet by  *)
(* octet, most significant bit first.                                      *)

NetworkBit(ip, k) ==
  LET octet == k \div OctetBits
      bit   == OctetBits - 1 - (k % OctetBits)
  IN  (ip \div pow2[octet * OctetBits + bit]) % 2

SamePrefix(ip1, ip2, mask) ==
  \A k \in 0..(mask - 1) : NetworkBit(ip1, k) = NetworkBit(ip2, k)

Candidates(table, ip) ==
  {k \in DOMAIN table : /\ table[k].dst # 0
                        /\ table[k].mask > 0
                        /\ SamePrefix(ip, table[k].dst, table[k].mask)}

Defaults(table) == {k \in DOMAIN table : table[k].dst = 0}

\* The newest of the routes with the longest prefix of ip, else the oldest
\* default route.
LongestPrefix(table, ip) ==
  LET C == Candidates(table, ip)
      D == Defaults(table)
  IN  CASE C # {} ->
             table[CHOOSE k \in C : \A j \in C :
                     \/ table[j].mask < table[k].mask
                     \/ table[j].mask = table[k].mask /\ k <= j]
        [] C = {} /\ D # {} -> table[CHOOSE k \in D : \A j \in D : j <= k]
        [] OTHER -> NoRoute

\* rt_lookup_lpm returns the longest matching prefix, for every address and
\* every table that rt_table_add_route can build from prefixes that end with an
\* octet and are shorter than an address.  For other prefixes it does not:
\* MCRouteTable_odd.cfg and MCRouteTable_host.cfg.
LookupIsLpm ==
  \A ip \in Addr : RtLookupLpm(routes, ip) = LongestPrefix(routes, ip)
=============================================================================
