-------------------------------- MODULE Icmp --------------------------------
(***************************************************************************)
(* ICMP echo (icmp.c) over the ARP and IP layers: a network of nodes whose *)
(* applications ping each other.                                           *)
(***************************************************************************)
EXTENDS IpArp, FiniteSets

CONSTANTS
  PingTargets,  \* node -> addresses its application pings
  MaxPings      \* bound on the calls of ping()

\* type and code of the ICMP header; id is a history tag that says which call
\* of ping() the packet stems from (the code's echoes carry no identifier).
IcmpPayload == [type : {"ECHO_REQUEST", "ECHO_REPLY"}, id : 1..MaxPings]

ASSUME IcmpAssumption ==
  /\ Payload = IcmpPayload
  /\ MaxPings \in Nat
  /\ PingTargets \in [Node -> SUBSET IpAddr]

VARIABLES
  pings,    \* ping() calls so far: who called it, for which address
  pinged,   \* <<node, id>>: the node printed "Received ping"
  ponged,   \* <<node, id>>: the node printed "Received pong"
  crashed   \* the process dereferenced a null ip_hdr

icmpvars == <<pings, pinged, ponged, crashed>>

vars == <<netvars, icmpvars>>

Ping(n, ip) == [node |-> n, ip |-> ip]

-----------------------------------------------------------------------------
\* ping, icmp_out in thread t: an echo request.  One sent to the node itself
\* comes back through ip_input without an ip_hdr, which icmp_input then
\* dereferences.
PingOut(t, n, ip) ==
  /\ ~crashed
  /\ call[t] = NULL
  /\ Len(pings) < MaxPings
  /\ pings' = Append(pings, Ping(n, ip))
  /\ \/ /\ Routable(n, ip, NULL) /\ IsIpLocal(n, ip)
        /\ crashed' = TRUE
        /\ UNCHANGED call
     \/ /\ IpOutput(t, n, ip, [type |-> "ECHO_REQUEST", id |-> Len(pings) + 1], NULL)
        /\ UNCHANGED crashed
  /\ UNCHANGED <<arp, wire, update, ip_forward_enable, lost, pinged, ponged>>

\* Defect: packets for other nodes are taken, too.
IcmpInputNotLocal(i, type) ==
  /\ ~crashed
  /\ IpPreroute(i)
  /\ Head(wire[i]).pkt.pl.type = type

\* The next packet of interface i is for its node: ip_input, icmp_input.
IcmpInput(i, type) ==
  /\ ~crashed
  /\ IpPreroute(i)
  /\ IsIpLocal(NodeOf[i], Head(wire[i]).pkt.dst)
  /\ Head(wire[i]).pkt.pl.type = type

\* icmp_input of an echo request: the reply goes to the packet's source.  A
\* reply to the node itself comes back through ip_input at once.
RecvEchoRequest(i) ==
  LET n   == NodeOf[i]
      pkt == Head(wire[i]).pkt
  IN  /\ IcmpInput(i, "ECHO_REQUEST")
      /\ wire' = RecvBytes(i)
      /\ pinged' = pinged \cup {<<n, pkt.pl.id>>}
      /\ \/ /\ Routable(n, pkt.src, NULL) /\ IsIpLocal(n, pkt.src)
            /\ ponged' = ponged \cup {<<n, pkt.pl.id>>}
            /\ UNCHANGED call
         \/ /\ IpOutput(Receiver, n, pkt.src,
                        [pkt.pl EXCEPT !.type = "ECHO_REPLY"], NULL)
            /\ UNCHANGED ponged
      /\ UNCHANGED <<arp, update, ip_forward_enable, lost, pings, crashed>>

\* icmp_input of an echo reply
RecvEchoReply(i) ==
  /\ IcmpInput(i, "ECHO_REPLY")
  /\ ponged' = ponged \cup {<<NodeOf[i], Head(wire[i]).pkt.pl.id>>}
  /\ wire' = RecvBytes(i)
  /\ UNCHANGED <<arp, call, update, ip_forward_enable, lost, pings, pinged, crashed>>

-----------------------------------------------------------------------------
Init ==
  /\ NetInit
  /\ pings = <<>>
  /\ pinged = {}
  /\ ponged = {}
  /\ crashed = FALSE

\* recv_task
RecvTask ==
  \/ ~crashed /\ NetRecv /\ UNCHANGED icmpvars
  \/ \E i \in Intf : RecvEchoRequest(i) \/ RecvEchoReply(i)

\* An application thread calls ping, or goes on in a call.
Application ==
  \E t \in App :
    \/ \E n \in Node : \E ip \in PingTargets[n] : PingOut(t, n, ip)
    \/ ~crashed /\ PostrouteStep(t) /\ UNCHANGED icmpvars

Next ==
  \/ RecvTask
  \/ Application
  \/ ~crashed /\ NetEnvironment /\ UNCHANGED icmpvars

Spec == Init /\ [][Next]_vars

\* recv_task loops until it is asked to quit, so it keeps handling frames,
\* and an application's call, which waits for nothing, runs to its end.
FairSpec ==
  /\ Spec
  /\ WF_vars(RecvTask)
  /\ \A t \in App : WF_vars(PostrouteStep(t) /\ ~crashed /\ UNCHANGED icmpvars)

-----------------------------------------------------------------------------
TypeOK ==
  /\ NetTypeOK
  /\ pings \in Seq([node : Node, ip : IpAddr])
  /\ Len(pings) <= MaxPings
  /\ pinged \subseteq Node \X (1..MaxPings)
  /\ ponged \subseteq Node \X (1..MaxPings)
  /\ crashed \in BOOLEAN

InFlightCopies(id) ==
  UNION {{<<i, p>> : p \in {q \in DOMAIN wire[i] :
                              /\ wire[i][q].type = "IP"
                              /\ wire[i][q].pkt.pl.id = id}} : i \in Intf}

PendingCopies(id) ==
  UNION {UNION {LET queue == arp[x[1]][x[2]][e].pending_pkts
                IN  {<<x, e, p>> : p \in {q \in DOMAIN queue : queue[q].pkt.pl.id = id}} :
                  e \in DOMAIN arp[x[1]][x[2]]} : x \in Node \X IpAddr}

\* The threads that hold a packet of the echo: not queued, not sent yet.
CallCopies(id) ==
  {t \in Thread : /\ call[t] # NULL
                  /\ call[t].at # "request"
                  /\ call[t].skb.pkt.pl.id = id}

\* An echo is in at most one place, as a request or as a reply, in the hands
\* of a thread, on a wire or on a queue, and nowhere once its reply was
\* received: queueing, flushing and forwarding, however the threads
\* interleave, neither duplicate a packet nor keep one they sent.
NoDuplicate ==
  \A id \in 1..Len(pings) :
    Cardinality(InFlightCopies(id)) + Cardinality(PendingCopies(id))
      + Cardinality(CallCopies(id))
      + Cardinality({n \in Node : <<n, id>> \in ponged}) <= 1

\* Every pong answers a ping that the node with the pinged address received
\* (icmp_input), across any number of forwarding nodes.
PongAnswersPing ==
  \A x \in ponged :
    \E m \in Node : <<m, x[2]>> \in pinged /\ IsIpLocal(m, pings[x[2]].ip)

\* icmp_input never dereferences a null ip_hdr.
NoCrash == ~crashed

\* The pong of a ping comes back to the node that sent the ping.
PongAtOrigin == \A x \in ponged : pings[x[2]].node = x[1]

\* The pinged address is at the other end of a link of the node, and both
\* ends know it.
OnLink(n, ip) ==
  \E k \in Intf :
    /\ NodeOf[k] = n
    /\ IfIp[Nbr[k]] = ip
    /\ RtLookup[n][ip] = [next |-> 0, intf |-> k]
    /\ RtLookup[NodeOf[Nbr[k]]][IfIp[k]] = [next |-> 0, intf |-> Nbr[k]]

\* The echo was sent to an address that was not copied to its entry yet.
SentToZeroMac(id) ==
  \E i \in Intf : \E frame \in Range(wire[i]) :
    frame.type = "IP" /\ frame.pkt.pl.id = id /\ frame.dst_mac = ZeroMac

\* Two threads added an entry for the same address.
EntryDoubled == \E n \in Node, ip \in IpAddr : Len(arp[n][ip]) > 1

\* A ping to a neighbour is answered unless a frame was lost or a data race
\* hit: neither ARP resolution, at either end, nor a queue that is flushed
\* while a packet joins it, nor the traffic of the others, looping or not, can
\* keep the request or the reply for ever.  The two races that can are named:
\* a packet sent before its hardware address was copied (arp.c), and an
\* address with two entries (ip.c).
PingAnswered ==
  \A id \in 1..MaxPings :
    <>(Len(pings) >= id /\ OnLink(pings[id].node, pings[id].ip))
      => <>(\/ Len(pings) >= id /\ <<pings[id].node, id>> \in ponged
            \/ lost > 0
            \/ SentToZeroMac(id)
            \/ EntryDoubled)

\* The network falls silent: no packet is forwarded for ever, even around a
\* loop of routes, because ip_forward decrements ttl.
FallsSilent ==
  <>[](/\ update = NULL
       /\ \A t \in Thread : call[t] = NULL
       /\ \A i \in Intf : wire[i] = <<>>)
=============================================================================
