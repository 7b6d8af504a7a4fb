-------------------------------- MODULE Comm --------------------------------
(***************************************************************************)
(* The sockets of the interfaces (comm.c, comm_udp.c, comm_tuntap.c): the  *)
(* table from descriptors to interfaces, the ports that links are made of, *)
(* and the receive thread that is started, watches the descriptors that it *)
(* found and is stopped again.                                             *)
(*                                                                         *)
(* The operating system is external: it gives out the lowest free          *)
(* descriptor, gives out ports, and queues frames at sockets.  As in all   *)
(* programs of the repository one thread builds the graph, starts the      *)
(* receive thread, stops it and only then destroys the graph.              *)
(***************************************************************************)
EXTENDS Integers, FiniteSetsExt, SequencesExt

CONSTANTS
  UdpComm,    \* the comms of interfaces with a link
  TapComm,    \* the comms of interfaces with a tap
  Nbr,        \* the comm at the other end of the link
  NULL,
  MAX_COMMS,  \* the size of fd_to_comm_map
  MAX_EVENTS, \* the events that one epoll_wait returns
  MaxFd,      \* bound: the highest descriptor
  Ports,      \* the number of UDP ports, 2^16
  FirstPort,  \* 40000
  Foreign,    \* ports that other processes use
  MaxStarts   \* bound: how often the thread is started

Comm == UdpComm \cup TapComm

ASSUME CommAssumption ==
  /\ NULL \notin Comm /\ UdpComm \cap TapComm = {}
  /\ Nbr \in [UdpComm -> UdpComm]
  /\ {MAX_COMMS, MAX_EVENTS, MaxFd, Ports, MaxStarts} \subseteq Nat \ {0}
  /\ FirstPort \in 0..(Ports - 1) /\ Foreign \subseteq 1..(Ports - 1)

VARIABLES
  fd,          \* of each comm; 0 if it is closed
  port,        \* of each comm
  fdToComm,    \* fd_to_comm_map
  nextUdpPort,
  open,        \* the descriptors that the operating system gave out
  bound,       \* the port of each socket; 0 for what is not a bound socket
  queue,       \* the comms that frames waiting at each descriptor were sent to
  main,        \* "run", or "join" within stop_recv_thread
  started,     \* thread_started
  starts,      \* how often the thread was started
  wantQuit,    \* want_quit_recv_task
  pc,          \* what the receive thread does
  watched,     \* the descriptors it watches, the one served last at the end
  scan,        \* the next entry of the table that it looks at
  events       \* the descriptors that epoll_wait returned

commVars == <<fd, port, fdToComm, nextUdpPort, bound>>
threadVars == <<wantQuit, pc, watched, scan, events>>
vars == <<commVars, open, queue, main, started, starts, threadVars>>

Descriptor == 1..MaxFd

-----------------------------------------------------------------------------
(* The operating system. *)

\* Descriptor 0 stands for those that are open when the program starts.
LowestFd == Min(Descriptor \ open)

PortsInUse == Foreign \cup {bound[d] : d \in open}

FreePorts == (1..(Ports - 1)) \ PortsInUse

\* Port 0 asks the system to choose.
CanBind(p) == IF p = 0 THEN FreePorts # {} ELSE p \in FreePorts

Deliver(d, c) ==
  queue' = IF queue[d] = <<>> THEN [queue EXCEPT ![d] = <<c>>] ELSE queue

-----------------------------------------------------------------------------
(* comm.c, comm_udp.c, comm_tuntap.c *)

\* Defect: an entry that is taken is kept.
SetFdCommOnce(d, c) ==
  IF d \in 0..(MAX_COMMS - 1) /\ fdToComm[d] = NULL THEN [fdToComm EXCEPT ![d] = c] ELSE fdToComm

SetFdComm(d, c) == IF d \in 0..(MAX_COMMS - 1) THEN [fdToComm EXCEPT ![d] = c] ELSE fdToComm

\* Ports are tried one after the other; the counter wraps, and a socket bound
\* to port 0 gets a port that comm->port does not know.
UdpInitComm(c) ==
  LET try(k) == (nextUdpPort + k) % Ports
  IN  /\ main = "run" /\ fd[c] = 0 /\ open # Descriptor
      /\ \E k \in 0..(Ports - 1) :
           /\ CanBind(try(k)) /\ \A j \in 0..(k - 1) : ~CanBind(try(j))
           /\ nextUdpPort' = (try(k) + 1) % Ports
           /\ port' = [port EXCEPT ![c] = try(k)]
           /\ \E p \in IF try(k) = 0 THEN FreePorts ELSE {try(k)} :
                bound' = [bound EXCEPT ![LowestFd] = p]
      /\ fd' = [fd EXCEPT ![c] = LowestFd]
      /\ open' = open \cup {LowestFd}
      /\ fdToComm' = SetFdComm(LowestFd, c)
      /\ UNCHANGED <<queue, main, started, starts, threadVars>>

\* There may be no /dev/net/tun, or the device refuses: then its descriptor
\* stays open.  comm->fd is negative in both cases.
TuntapInitComm(c) ==
  /\ main = "run" /\ fd[c] = 0 /\ open # Descriptor
  /\ \/ /\ fd' = [fd EXCEPT ![c] = LowestFd] /\ fdToComm' = SetFdComm(LowestFd, c)
        /\ open' = open \cup {LowestFd}
     \/ /\ fd' = [fd EXCEPT ![c] = -1] /\ UNCHANGED fdToComm
        /\ open' \in {open, open \cup {LowestFd}}
  /\ UNCHANGED <<port, nextUdpPort, bound, queue, main, started, starts, threadVars>>

Close(d) ==
  /\ open' = open \ {d}
  /\ queue' = [e \in Descriptor |-> IF e = d THEN <<>> ELSE queue[e]]
  /\ bound' = [e \in Descriptor |-> IF e = d THEN 0 ELSE bound[e]]

\* Defect: the port of a closed comm is kept.
ForgetPortNot(c) == port

ForgetPort(c) == [port EXCEPT ![c] = 0]

\* udp_destroy_comm and tuntap_destroy_comm, once the thread is stopped.
DestroyComm(c) ==
  /\ main = "run" /\ ~started /\ fd[c] # 0
  /\ fdToComm' = SetFdComm(fd[c], NULL)
  /\ Close(fd[c])
  /\ fd' = [fd EXCEPT ![c] = 0]
  /\ port' = ForgetPort(c)
  /\ UNCHANGED <<nextUdpPort, main, started, starts, threadVars>>

\* sendto the port of the neighbour, in any thread.
UdpSendBytes(c) ==
  /\ port[Nbr[c]] # 0 /\ fd[c] # 0
  /\ \E d \in open : bound[d] = port[Nbr[c]] /\ Deliver(d, Nbr[c])
  /\ UNCHANGED <<commVars, open, main, started, starts, threadVars>>

\* A frame arrives at a tap from outside.
HostSends(c) ==
  /\ fd[c] > 0
  /\ Deliver(fd[c], c)
  /\ UNCHANGED <<commVars, open, main, started, starts, threadVars>>

-----------------------------------------------------------------------------
(* start_recv_thread, stop_recv_thread *)

StartRecvThread ==
  /\ main = "run" /\ ~started /\ starts < MaxStarts
  /\ started' = TRUE /\ starts' = starts + 1
  /\ pc' = "create" /\ watched' = <<>> /\ scan' = 0 /\ events' = <<>>
  /\ UNCHANGED <<commVars, open, queue, main, wantQuit>>

StopRecvThread ==
  /\ main = "run" /\ started
  /\ wantQuit' = TRUE
  /\ main' = "join"
  /\ UNCHANGED <<commVars, open, queue, started, starts, pc, watched, scan, events>>

\* Defect: the thread is detached.
JoinNot ==
  /\ main = "join"
  /\ main' = "run" /\ started' = FALSE
  /\ UNCHANGED <<commVars, open, queue, starts, threadVars>>

Join ==
  /\ main = "join" /\ pc = "done"
  /\ main' = "run" /\ started' = FALSE
  /\ UNCHANGED <<commVars, open, queue, starts, threadVars>>

-----------------------------------------------------------------------------
(* recv_task *)

Thread(from, to) ==
  /\ pc = from /\ pc' = to
  /\ UNCHANGED <<commVars, main, started, starts>>

\* The descriptor of epoll is never closed.
EpollCreate ==
  /\ Thread("create", "scan")
  /\ open # Descriptor /\ open' = open \cup {LowestFd}
  /\ UNCHANGED <<queue, wantQuit, watched, scan, events>>

\* epoll_ctl fails for a descriptor that is not open, and ends the program.
EpollAdd ==
  /\ Thread("scan", IF scan = MAX_COMMS - 1 THEN "loop" ELSE "scan")
  /\ fdToComm[scan] # NULL => scan \in open
  /\ scan' = (scan + 1) % MAX_COMMS
  /\ watched' = IF fdToComm[scan] # NULL THEN Append(watched, scan) ELSE watched
  /\ UNCHANGED <<open, queue, wantQuit, events>>

\* Defect: the request to quit is looked at only when nothing arrives.
QuitsWhenIdle == wantQuit /\ \A i \in DOMAIN watched : queue[watched[i]] = <<>>

Quits == wantQuit

Loop ==
  /\ Thread("loop", IF Quits THEN "exit" ELSE "wait")
  /\ UNCHANGED <<open, queue, wantQuit, watched, scan, events>>

\* The descriptors that are ready, in turn; none after the timeout.
EpollWait ==
  LET ready == SelectSeq(watched, LAMBDA d : queue[d] # <<>>)
      ev == SubSeq(ready, 1, Min({MAX_EVENTS, Len(ready)}))
  IN  /\ Thread("wait", "serve")
      /\ events' = ev
      /\ watched' = SelectSeq(watched, LAMBDA d : ~Contains(ev, d)) \o ev
      /\ UNCHANGED <<open, queue, wantQuit, scan>>

\* recv_bytes; reading from a tap would block if nothing was there.
Serve ==
  /\ events # <<>>
  /\ Thread("serve", "serve")
  /\ LET d == Head(events)
     IN  IF fdToComm[d] = NULL
         THEN UNCHANGED queue
         ELSE queue[d] # <<>> /\ queue' = [queue EXCEPT ![d] = Tail(@)]
  /\ events' = Tail(events)
  /\ UNCHANGED <<open, wantQuit, watched, scan>>

Served ==
  /\ events = <<>>
  /\ Thread("serve", "loop")
  /\ UNCHANGED <<open, queue, wantQuit, watched, scan, events>>

\* Defect: the flag stays set for the next thread.
QuitFlagKept == wantQuit

QuitFlag == FALSE

Exit ==
  /\ Thread("exit", "done")
  /\ wantQuit' = QuitFlag
  /\ UNCHANGED <<open, queue, watched, scan, events>>

RecvTask == EpollCreate \/ EpollAdd \/ Loop \/ EpollWait \/ Serve \/ Served \/ Exit

-----------------------------------------------------------------------------
Init ==
  /\ fd = [c \in Comm |-> 0] /\ port = [c \in Comm |-> 0]
  /\ fdToComm = [d \in 0..(MAX_COMMS - 1) |-> NULL]
  /\ nextUdpPort = FirstPort
  /\ open = {} /\ bound = [d \in Descriptor |-> 0] /\ queue = [d \in Descriptor |-> <<>>]
  /\ main = "run" /\ started = FALSE /\ starts = 0
  /\ wantQuit = FALSE /\ pc = "done" /\ watched = <<>> /\ scan = 0 /\ events = <<>>

Next ==
  \/ \E c \in UdpComm : UdpInitComm(c) \/ UdpSendBytes(c)
  \/ \E c \in TapComm : TuntapInitComm(c) \/ HostSends(c)
  \/ \E c \in Comm : DestroyComm(c)
  \/ StartRecvThread \/ StopRecvThread \/ Join
  \/ RecvTask

Spec == Init /\ [][Next]_vars

\* Both threads run; pthread_join returns once the other thread has ended.
FairSpec == Spec /\ WF_vars(RecvTask) /\ WF_vars(Join)

-----------------------------------------------------------------------------
(* Properties. *)

\* fd_to_comm_map holds exactly the comms that are open and whose descriptor
\* is small enough, under their own descriptors, although descriptors are
\* reused, comms fail to open and epoll descriptors leak: the receive thread
\* never follows a pointer to a comm that was destroyed.
FdMapAgrees ==
  /\ \A d \in DOMAIN fdToComm : fdToComm[d] # NULL => d \in open /\ fd[fdToComm[d]] = d
  /\ \A c \in Comm : fd[c] \in DOMAIN fdToComm \ {0} => fdToComm[fd[c]] = c

\* Frames wait only at the socket of the interface that they were sent to,
\* also when the port counter has wrapped and when ports are used again: no
\* frame reaches another link.
FrameAtItsLink ==
  \A d \in Descriptor : queue[d] # <<>> => fd[Head(queue[d])] = d

\* Once stop_recv_thread has returned, the receive thread does not run, so
\* that comms can be destroyed; there are never two of them.
ThreadGone == ~started => pc = "done" /\ ~wantQuit

\* stop_recv_thread returns, however much traffic there is and however early
\* it is called; where no descriptor is free, epoll_create1 fails in the new
\* thread, and recv_task ends the program instead.
StopReturns == (main = "join") ~> (main = "run" \/ open = Descriptor)

\* Each thread that is started, the second one too, receives what arrives at
\* the descriptors it watches until it is stopped, also when more of them are
\* ready than epoll_wait returns.
WatchedIsServed ==
  \A d \in Descriptor :
    (pc # "create" /\ Contains(watched, d) /\ queue[d] # <<>>)
      ~> (queue[d] = <<>> \/ main = "join" \/ ~started)
=============================================================================
