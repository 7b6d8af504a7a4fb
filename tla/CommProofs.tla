----------------------------- MODULE CommProofs -----------------------------
(***************************************************************************)
(* Proofs about Comm, for any links and taps, any sizes of the tables and  *)
(* any number of descriptors and ports.                                    *)
(***************************************************************************)
EXTENDS Comm, SequenceLemmas

-----------------------------------------------------------------------------
(* The inductive invariant. *)

Typed ==
  /\ fd \in [Comm -> -1..MaxFd]
  /\ port \in [Comm -> 0..(Ports - 1)]
  /\ fdToComm \in [0..(MAX_COMMS - 1) -> Comm \cup {NULL}]
  /\ nextUdpPort \in 0..(Ports - 1)
  /\ open \in SUBSET Descriptor
  /\ bound \in [Descriptor -> 0..(Ports - 1)]
  /\ queue \in [Descriptor -> Seq(Comm)]

\* A comm has a descriptor of its own, and nothing is left of a closed one.
DescriptorsOK ==
  /\ \A c \in Comm : fd[c] > 0 => fd[c] \in open
  /\ \A c, d \in Comm : fd[c] = fd[d] /\ fd[c] > 0 => c = d
  /\ \A d \in Descriptor : d \notin open => bound[d] = 0 /\ queue[d] = <<>>

\* A port that a comm knows is the port of its own socket, and only of that.
PortsOK ==
  /\ \A c \in Comm : port[c] # 0 => fd[c] > 0 /\ bound[fd[c]] = port[c]
  /\ \A d, e \in open : bound[d] = bound[e] /\ bound[d] # 0 => d = e

QueuesOK == \A d \in Descriptor :
  queue[d] # <<>> => Len(queue[d]) = 1 /\ fd[Head(queue[d])] = d

\* The request to quit is only there while stop_recv_thread waits for the
\* thread to see it.
ThreadOK ==
  /\ main \in {"run", "join"} /\ started \in BOOLEAN /\ wantQuit \in BOOLEAN
  /\ main = "join" => started
  /\ wantQuit => main = "join" /\ pc # "done"
  /\ pc = "exit" => main = "join"
  /\ ~started => pc = "done"
  /\ started /\ main = "run" => pc # "done"

DataInv == Typed /\ DescriptorsOK /\ PortsOK /\ QueuesOK /\ FdMapAgrees

IInv == DataInv /\ ThreadOK

-----------------------------------------------------------------------------
(* Opening and closing. *)

\* The operating system gives out a descriptor that is not open.
LEMMA LowestFdFree ==
  ASSUME open # Descriptor, open \in SUBSET Descriptor
  PROVE  LowestFd \in Descriptor /\ LowestFd \notin open
<1>1. Descriptor \ open # {}
  OBVIOUS
<1>2. Descriptor \ open \in SUBSET Nat
  BY CommAssumption DEF Descriptor
<1>3. QED BY <1>1, <1>2, MinIsLeast DEF LowestFd

\* A comm that was closed gets a descriptor that was not open; nothing else
\* changes in the table.
LEMMA OpenedInv ==
  ASSUME DataInv, NEW c \in Comm, NEW d \in Descriptor,
         d \notin open, fd[c] \notin open,
         fd' = [fd EXCEPT ![c] = d],
         open' = open \cup {d},
         fdToComm' = SetFdComm(d, c)
  PROVE  /\ fd' \in [Comm -> -1..MaxFd] /\ open' \in SUBSET Descriptor
         /\ fdToComm' \in [0..(MAX_COMMS - 1) -> Comm \cup {NULL}]
         /\ \A x \in Comm : fd'[x] > 0 => fd'[x] \in open'
         /\ \A x, y \in Comm : fd'[x] = fd'[y] /\ fd'[x] > 0 => x = y
         /\ FdMapAgrees'
<1> USE DEF DataInv, Typed, DescriptorsOK
<1>1. d \in 1..MaxFd /\ MaxFd \in Nat /\ NULL \notin Comm
  BY CommAssumption DEF Descriptor
<1>2. /\ fd' \in [Comm -> -1..MaxFd] /\ open' \in SUBSET Descriptor
      /\ fdToComm' \in [0..(MAX_COMMS - 1) -> Comm \cup {NULL}]
  BY <1>1 DEF SetFdComm
<1>3. \A x \in Comm : fd'[x] > 0 => fd'[x] \in open'
  OBVIOUS
<1>4. \A x, y \in Comm : fd'[x] = fd'[y] /\ fd'[x] > 0 => x = y
  OBVIOUS
<1>5. ASSUME NEW e \in DOMAIN fdToComm', fdToComm'[e] # NULL
      PROVE  e \in open' /\ fd'[fdToComm'[e]] = e
  <2>1. CASE e = d
    BY <2>1, <1>5, <1>1 DEF SetFdComm
  <2>2. CASE e # d
    <3>1. fdToComm'[e] = fdToComm[e] /\ e \in DOMAIN fdToComm
      BY <2>2, <1>5 DEF SetFdComm
    <3>2. e \in open /\ fd[fdToComm[e]] = e /\ fdToComm[e] \in Comm
      BY <3>1, <1>5 DEF FdMapAgrees
    <3>3. QED BY <3>1, <3>2
  <2>3. QED BY <2>1, <2>2
<1>6. ASSUME NEW x \in Comm, fd'[x] \in DOMAIN fdToComm' \ {0}
      PROVE  fdToComm'[fd'[x]] = x
  <2>1. CASE x = c
    BY <2>1, <1>6, <1>1 DEF SetFdComm
  <2>2. CASE x # c
    <3>1. fd'[x] = fd[x]
      BY <2>2
    <3>2. fd[x] \in DOMAIN fdToComm \ {0} /\ fd[x] > 0
      BY <3>1, <1>6 DEF SetFdComm
    <3>3. fd[x] \in open /\ fdToComm[fd[x]] = x
      BY <3>2 DEF FdMapAgrees
    <3>4. QED BY <3>1, <3>2, <3>3 DEF SetFdComm
  <2>3. QED BY <2>1, <2>2
<1>7. QED BY <1>2, <1>3, <1>4, <1>5, <1>6 DEF FdMapAgrees

\* udp_init_comm: a new socket with a port that no other has.
LEMMA UdpInitInv ==
  ASSUME DataInv, NEW c \in UdpComm, UdpInitComm(c)
  PROVE  DataInv'
<1> USE DEF DataInv
<1> DEFINE d == LowestFd
<1>1. d \in Descriptor /\ d \notin open
  BY LowestFdFree DEF Typed, UdpInitComm
<1>2. c \in Comm /\ fd[c] \notin open /\ fd[c] = 0
  BY DEF Typed, UdpInitComm, Descriptor, Comm
<1>3. /\ fd' \in [Comm -> -1..MaxFd] /\ open' \in SUBSET Descriptor
      /\ fdToComm' \in [0..(MAX_COMMS - 1) -> Comm \cup {NULL}]
      /\ \A x \in Comm : fd'[x] > 0 => fd'[x] \in open'
      /\ \A x, y \in Comm : fd'[x] = fd'[y] /\ fd'[x] > 0 => x = y
      /\ FdMapAgrees'
  <2> HIDE DEF d, DataInv
  <2>1. fd' = [fd EXCEPT ![c] = d] /\ open' = open \cup {d} /\ fdToComm' = SetFdComm(d, c)
    BY DEF UdpInitComm, d
  <2>2. QED BY <1>1, <1>2, <2>1, OpenedInv
<1>4. PICK t \in 0..(Ports - 1), p \in FreePorts :
        /\ nextUdpPort' = (t + 1) % Ports
        /\ port' = [port EXCEPT ![c] = t]
        /\ bound' = [bound EXCEPT ![d] = p]
        /\ t # 0 => p = t
  <2> HIDE DEF d
  <2>1. PICK k \in 0..(Ports - 1) :
          /\ CanBind((nextUdpPort + k) % Ports)
          /\ nextUdpPort' = (((nextUdpPort + k) % Ports) + 1) % Ports
          /\ port' = [port EXCEPT ![c] = (nextUdpPort + k) % Ports]
          /\ \E p \in IF (nextUdpPort + k) % Ports = 0 THEN FreePorts ELSE {(nextUdpPort + k) % Ports} :
                bound' = [bound EXCEPT ![d] = p]
    BY DEF UdpInitComm, d
  <2> DEFINE t == (nextUdpPort + k) % Ports
  <2>2. t \in 0..(Ports - 1)
    BY CommAssumption DEF Typed
  <2> HIDE DEF t
  <2>3. /\ CanBind(t)
        /\ nextUdpPort' = (t + 1) % Ports
        /\ port' = [port EXCEPT ![c] = t]
        /\ \E p \in IF t = 0 THEN FreePorts ELSE {t} : bound' = [bound EXCEPT ![d] = p]
    BY <2>1 DEF t
  <2>4. PICK p \in IF t = 0 THEN FreePorts ELSE {t} : bound' = [bound EXCEPT ![d] = p]
    BY <2>3
  <2>5. p \in FreePorts /\ (t # 0 => p = t)
    BY <2>3, <2>4 DEF CanBind
  <2>6. QED BY <2>2, <2>3, <2>4, <2>5
<1>5. p \in 1..(Ports - 1) /\ \A e \in open : bound[e] # p
  BY <1>4 DEF FreePorts, PortsInUse
<1>6. nextUdpPort' \in 0..(Ports - 1)
  BY <1>4, CommAssumption
<1> HIDE DEF d
<1>7. Typed'
  <2>1. queue' = queue
    BY DEF UdpInitComm
  <2>2. port \in [Comm -> 0..(Ports - 1)] /\ bound \in [Descriptor -> 0..(Ports - 1)]
    BY DEF Typed
  <2>3. port' \in [Comm -> 0..(Ports - 1)]
    BY <1>4, <2>2
  <2>4. p \in 0..(Ports - 1)
    BY <1>5
  <2>5. bound' \in [Descriptor -> 0..(Ports - 1)]
    BY <1>4, <2>2, <2>4
  <2>6. QED BY <1>3, <1>6, <2>1, <2>3, <2>5 DEF Typed
<1>8. DescriptorsOK'
  BY <1>1, <1>3, <1>4 DEF DescriptorsOK, Typed, UdpInitComm, d
<1>9. PortsOK'
  <2>1. ASSUME NEW x \in Comm, port'[x] # 0
        PROVE  fd'[x] > 0 /\ bound'[fd'[x]] = port'[x]
    <3>1. CASE x = c
      BY <3>1, <2>1, <1>1, <1>2, <1>4 DEF Typed, UdpInitComm, d, Descriptor
    <3>2. CASE x # c
      <4>1. port[x] # 0 /\ port'[x] = port[x] /\ fd'[x] = fd[x]
        BY <3>2, <2>1, <1>2, <1>4 DEF Typed, UdpInitComm
      <4>2. fd[x] > 0 /\ bound[fd[x]] = port[x] /\ fd[x] \in open
        BY <4>1 DEF PortsOK, DescriptorsOK
      <4>3. QED BY <4>1, <4>2, <1>1, <1>4 DEF Typed
    <3>3. QED BY <3>1, <3>2
  <2>2. ASSUME NEW e \in open', NEW f \in open', bound'[e] = bound'[f], bound'[e] # 0
        PROVE  e = f
    <3>1. open' = open \cup {d}
      BY DEF UdpInitComm, d
    <3>2. QED BY <3>1, <2>2, <1>1, <1>4, <1>5 DEF PortsOK, Typed
  <2>3. QED BY <2>1, <2>2 DEF PortsOK
<1>10. QueuesOK'
  <2>1. ASSUME NEW e \in Descriptor, queue'[e] # <<>>
        PROVE  Len(queue'[e]) = 1 /\ fd'[Head(queue'[e])] = e
    <3>1. queue' = queue
      BY DEF UdpInitComm
    <3>2. Len(queue[e]) = 1 /\ fd[Head(queue[e])] = e /\ queue[e] \in Seq(Comm)
      BY <2>1, <3>1 DEF QueuesOK, Typed
    <3>3. Head(queue[e]) \in Comm
      BY <3>2
    <3>4. Head(queue[e]) # c
      BY <1>2, <3>2 DEF Descriptor
    <3>5. QED BY <3>1, <3>2, <3>3, <3>4, <1>2 DEF UdpInitComm, Typed
  <2>2. QED BY <2>1 DEF QueuesOK
<1>11. QED BY <1>3, <1>7, <1>8, <1>9, <1>10

\* A descriptor that belongs to no comm is opened: by a tap that fails, or
\* for epoll.
LEMMA LeakedInv ==
  ASSUME DataInv, NEW d \in Descriptor, d \notin open, open' = open \cup {d},
         UNCHANGED <<port, fdToComm, nextUdpPort, bound, queue, fd>>
  PROVE  DataInv'
<1>1. Typed'
  BY DEF DataInv, Typed
<1>2. DescriptorsOK'
  BY DEF DataInv, DescriptorsOK
<1>3. PortsOK'
  BY DEF DataInv, PortsOK, DescriptorsOK
<1>4. QueuesOK' /\ FdMapAgrees'
  BY DEF DataInv, QueuesOK, FdMapAgrees
<1>5. QED BY <1>1, <1>2, <1>3, <1>4 DEF DataInv

\* Nothing of the table, the descriptors and the queues changes.
LEMMA SameDataInv ==
  ASSUME DataInv, UNCHANGED <<fd, port, fdToComm, nextUdpPort, open, bound, queue>>
  PROVE  DataInv'
BY DEF DataInv, Typed, DescriptorsOK, PortsOK, QueuesOK, FdMapAgrees

\* tuntap_init_comm, whether it succeeds or fails.
LEMMA TuntapInitInv ==
  ASSUME DataInv, NEW c \in TapComm, TuntapInitComm(c)
  PROVE  DataInv'
<1> DEFINE d == LowestFd
<1>1. d \in Descriptor /\ d \notin open
  BY LowestFdFree DEF DataInv, Typed, TuntapInitComm
<1>2. c \in Comm /\ fd[c] = 0 /\ fd[c] \notin open
  BY DEF DataInv, Typed, TuntapInitComm, Descriptor, Comm
<1>3. UNCHANGED <<port, nextUdpPort, bound, queue>>
  BY DEF TuntapInitComm
<1>4. CASE /\ fd' = [fd EXCEPT ![c] = d] /\ fdToComm' = SetFdComm(d, c)
           /\ open' = open \cup {d}
  <2> HIDE DEF d
  <2>1. /\ fd' \in [Comm -> -1..MaxFd] /\ open' \in SUBSET Descriptor
        /\ fdToComm' \in [0..(MAX_COMMS - 1) -> Comm \cup {NULL}]
        /\ \A x \in Comm : fd'[x] > 0 => fd'[x] \in open'
        /\ \A x, y \in Comm : fd'[x] = fd'[y] /\ fd'[x] > 0 => x = y
        /\ FdMapAgrees'
    BY <1>1, <1>2, <1>4, OpenedInv
  <2>2. Typed'
    BY <1>3, <2>1 DEF DataInv, Typed
  <2>3. DescriptorsOK'
    BY <1>3, <1>4, <2>1 DEF DataInv, DescriptorsOK
  <2>4. PortsOK'
    <3>1. \A x \in Comm : port[x] # 0 => x # c /\ fd'[x] = fd[x]
      BY <1>2, <1>4 DEF DataInv, PortsOK, Typed
    <3>2. bound[d] = 0
      BY <1>1 DEF DataInv, DescriptorsOK
    <3>3. QED BY <1>3, <1>4, <3>1, <3>2 DEF DataInv, PortsOK
  <2>5. QueuesOK'
    <3>1. ASSUME NEW e \in Descriptor, queue[e] # <<>>
          PROVE  Head(queue[e]) # c /\ Head(queue[e]) \in Comm
      BY <3>1, <1>2 DEF DataInv, QueuesOK, Typed, Descriptor
    <3>2. QED BY <3>1, <1>3, <1>4 DEF DataInv, QueuesOK, Typed
  <2>6. QED BY <2>1, <2>2, <2>3, <2>4, <2>5 DEF DataInv
<1>5. CASE /\ fd' = [fd EXCEPT ![c] = -1] /\ UNCHANGED fdToComm
           /\ open' \in {open, open \cup {d}}
  <2> HIDE DEF d
  <2>1. Typed'
    <3>1. -1 \in -1..MaxFd
      BY CommAssumption
    <3>2. fd' \in [Comm -> -1..MaxFd]
      BY <3>1, <1>5 DEF DataInv, Typed
    <3>3. open' \in SUBSET Descriptor
      BY <1>1, <1>5 DEF DataInv, Typed
    <3>4. QED BY <1>3, <1>5, <3>2, <3>3 DEF DataInv, Typed
  <2>2. DescriptorsOK'
    BY <1>3, <1>5, <1>2 DEF DataInv, DescriptorsOK, Typed
  <2>3. PortsOK'
    <3>1. \A x \in Comm : port[x] # 0 => x # c /\ fd'[x] = fd[x]
      BY <1>2, <1>5 DEF DataInv, PortsOK, Typed
    <3>2. bound[d] = 0
      BY <1>1 DEF DataInv, DescriptorsOK
    <3>3. QED BY <1>3, <1>5, <3>1, <3>2 DEF DataInv, PortsOK
  <2>4. QueuesOK'
    <3>1. ASSUME NEW e \in Descriptor, queue[e] # <<>>
          PROVE  Head(queue[e]) # c /\ Head(queue[e]) \in Comm
      BY <3>1, <1>2 DEF DataInv, QueuesOK, Typed, Descriptor
    <3>2. QED BY <3>1, <1>3, <1>5 DEF DataInv, QueuesOK, Typed
  <2>5. FdMapAgrees'
    <3>1. ASSUME NEW e \in DOMAIN fdToComm, fdToComm[e] # NULL
          PROVE  fdToComm[e] # c /\ fdToComm[e] \in Comm
      BY <3>1, <1>2 DEF DataInv, FdMapAgrees, Typed, Descriptor
    <3>2. QED BY <3>1, <1>5, <1>2 DEF DataInv, FdMapAgrees, Typed
  <2>6. QED BY <2>1, <2>2, <2>3, <2>4, <2>5 DEF DataInv
<1>6. QED BY <1>4, <1>5 DEF TuntapInitComm

\* udp_destroy_comm and tuntap_destroy_comm: descriptor, port and queue go,
\* and with them the entry of the table.
LEMMA DestroyInv ==
  ASSUME DataInv, NEW c \in Comm, DestroyComm(c)
  PROVE  DataInv'
<1> DEFINE d == fd[c]
<1>1. /\ fdToComm' = SetFdComm(d, NULL)
      /\ open' = open \ {d}
      /\ queue' = [e \in Descriptor |-> IF e = d THEN <<>> ELSE queue[e]]
      /\ bound' = [e \in Descriptor |-> IF e = d THEN 0 ELSE bound[e]]
      /\ fd' = [fd EXCEPT ![c] = 0] /\ port' = [port EXCEPT ![c] = 0]
      /\ nextUdpPort' = nextUdpPort /\ d # 0
  BY DEF DestroyComm, Close, ForgetPort
<1>2. \A x \in Comm : x # c => fd'[x] = fd[x] /\ (fd[x] > 0 => fd[x] # d)
  BY <1>1 DEF DataInv, Typed, DescriptorsOK
<1>3. fd'[c] = 0 /\ port'[c] = 0
  BY <1>1 DEF DataInv, Typed
<1>4. d \in -1..MaxFd /\ NULL \notin Comm
  BY CommAssumption DEF DataInv, Typed
<1> HIDE DEF d
<1>5. Typed'
  <2>1. queue' \in [Descriptor -> Seq(Comm)]
    BY <1>1 DEF DataInv, Typed
  <2>2. fdToComm' \in [0..(MAX_COMMS - 1) -> Comm \cup {NULL}]
    BY <1>1 DEF DataInv, Typed, SetFdComm
  <2>3. QED BY <1>1, <2>1, <2>2, CommAssumption DEF DataInv, Typed
<1>6. DescriptorsOK'
  BY <1>1, <1>2, <1>3 DEF DataInv, DescriptorsOK
<1>7. PortsOK'
  <2>1. ASSUME NEW x \in Comm, port'[x] # 0
        PROVE  fd'[x] > 0 /\ bound'[fd'[x]] = port'[x]
    <3>1. x # c
      BY <2>1, <1>3
    <3>2. port'[x] = port[x] /\ fd'[x] = fd[x] /\ fd[x] > 0 /\ bound[fd[x]] = port[x]
      BY <3>1, <2>1, <1>1, <1>2 DEF DataInv, PortsOK, Typed
    <3>3. fd[x] # d /\ fd[x] \in Descriptor
      BY <3>1, <3>2, <1>2 DEF DataInv, DescriptorsOK, Typed
    <3>4. QED BY <1>1, <3>2, <3>3
  <2>2. \A e, f \in open' : bound'[e] = bound'[f] /\ bound'[e] # 0 => e = f
    BY <1>1 DEF DataInv, PortsOK, Typed
  <2>3. QED BY <2>1, <2>2 DEF PortsOK
<1>8. QueuesOK'
  <2>1. ASSUME NEW e \in Descriptor, queue'[e] # <<>>
        PROVE  Len(queue'[e]) = 1 /\ fd'[Head(queue'[e])] = e
    <3>1. e # d /\ queue'[e] = queue[e]
      BY <2>1, <1>1
    <3>2. Len(queue[e]) = 1 /\ fd[Head(queue[e])] = e /\ Head(queue[e]) \in Comm
      BY <3>1, <2>1 DEF DataInv, QueuesOK, Typed
    <3>3. Head(queue[e]) # c
      BY <3>1, <3>2 DEF d
    <3>4. QED BY <3>1, <3>2, <3>3, <1>2
  <2>2. QED BY <2>1 DEF QueuesOK
<1>9. FdMapAgrees'
  <2>1. ASSUME NEW e \in DOMAIN fdToComm', fdToComm'[e] # NULL
        PROVE  e \in open' /\ fd'[fdToComm'[e]] = e
    <3>1. e # d /\ fdToComm'[e] = fdToComm[e] /\ e \in DOMAIN fdToComm
      BY <2>1, <1>1 DEF SetFdComm, DataInv, Typed
    <3>2. e \in open /\ fd[fdToComm[e]] = e /\ fdToComm[e] \in Comm
      BY <3>1, <2>1 DEF DataInv, FdMapAgrees, Typed
    <3>3. fdToComm[e] # c
      BY <3>1, <3>2 DEF d
    <3>4. QED BY <3>1, <3>2, <3>3, <1>1, <1>2
  <2>2. ASSUME NEW x \in Comm, fd'[x] \in DOMAIN fdToComm' \ {0}
        PROVE  fdToComm'[fd'[x]] = x
    <3>1. x # c
      BY <2>2, <1>3
    <3>2. DOMAIN fdToComm' = 0..(MAX_COMMS - 1) /\ DOMAIN fdToComm = 0..(MAX_COMMS - 1)
      BY <1>5 DEF DataInv, Typed
    <3>3. fd'[x] = fd[x] /\ fd[x] > 0 /\ fd[x] # d
      BY <3>1, <3>2, <2>2, <1>2, CommAssumption DEF DataInv, Typed
    <3>4. fdToComm[fd[x]] = x
      BY <3>2, <3>3, <2>2 DEF DataInv, FdMapAgrees
    <3>5. QED BY <3>2, <3>3, <3>4, <1>1 DEF SetFdComm, DataInv, Typed
  <2>3. QED BY <2>1, <2>2 DEF FdMapAgrees
<1>10. QED BY <1>5, <1>6, <1>7, <1>8, <1>9 DEF DataInv

-----------------------------------------------------------------------------
(* Frames. *)

\* A frame for c is queued at the descriptor of c.
LEMMA DeliveredInv ==
  ASSUME DataInv, NEW c \in Comm, fd[c] > 0, Deliver(fd[c], c),
         UNCHANGED <<fd, port, fdToComm, nextUdpPort, open, bound>>
  PROVE  DataInv'
<1> DEFINE d == fd[c]
<1>1. d \in Descriptor /\ d \in open
  BY DEF DataInv, Typed, DescriptorsOK
<1>2. \/ queue' = queue
      \/ queue' = [queue EXCEPT ![d] = <<c>>]
  BY DEF Deliver
<1>3. queue' \in [Descriptor -> Seq(Comm)]
  <2>1. <<c>> \in Seq(Comm) /\ queue \in [Descriptor -> Seq(Comm)]
    BY DEF DataInv, Typed
  <2>2. QED BY <1>2, <2>1
<1>4. \A e \in Descriptor : queue'[e] = queue[e] \/ (e = d /\ queue'[e] = <<c>>)
  BY <1>2 DEF DataInv, Typed
<1>5. Typed'
  BY <1>3 DEF DataInv, Typed
<1>6. DescriptorsOK' /\ PortsOK' /\ FdMapAgrees'
  BY <1>1, <1>4 DEF DataInv, DescriptorsOK, PortsOK, FdMapAgrees
<1>7. QueuesOK'
  <2>1. Len(<<c>>) = 1 /\ Head(<<c>>) = c
    OBVIOUS
  <2>2. QED BY <2>1, <1>4 DEF DataInv, QueuesOK
<1>8. QED BY <1>5, <1>6, <1>7 DEF DataInv

\* udp_send_bytes: the port of the neighbour is that of its own socket.
LEMMA UdpSendInv ==
  ASSUME DataInv, NEW c \in UdpComm, UdpSendBytes(c)
  PROVE  DataInv'
<1>1. Nbr[c] \in Comm
  BY CommAssumption DEF Comm
<1>2. PICK d \in open : bound[d] = port[Nbr[c]] /\ Deliver(d, Nbr[c])
  BY DEF UdpSendBytes
<1>3. /\ port[Nbr[c]] # 0
      /\ UNCHANGED <<fd, port, fdToComm, nextUdpPort, open, bound>>
  BY DEF UdpSendBytes, commVars
<1>4. fd[Nbr[c]] > 0 /\ d = fd[Nbr[c]]
  BY <1>1, <1>2, <1>3 DEF DataInv, PortsOK, DescriptorsOK
<1>5. QED BY <1>1, <1>2, <1>3, <1>4, DeliveredInv

\* A frame from outside.
LEMMA HostSendsInv ==
  ASSUME DataInv, NEW c \in TapComm, HostSends(c)
  PROVE  DataInv'
<1>1. c \in Comm /\ fd[c] > 0 /\ Deliver(fd[c], c)
  BY DEF HostSends, Comm
<1>2. UNCHANGED <<fd, port, fdToComm, nextUdpPort, open, bound>>
  BY DEF HostSends, commVars
<1>3. QED BY <1>1, <1>2, DeliveredInv

\* recv_bytes takes the frame off the queue.
LEMMA ServeInv ==
  ASSUME DataInv, Serve
  PROVE  DataInv'
<1> DEFINE d == Head(events)
<1>1. UNCHANGED <<fd, port, fdToComm, nextUdpPort, open, bound>>
  BY DEF Serve, Thread, commVars
<1>2. \/ queue' = queue
      \/ queue[d] # <<>> /\ queue' = [queue EXCEPT ![d] = Tail(@)]
  BY DEF Serve
<1> HIDE DEF d
<1>3. CASE queue' = queue
  BY <1>1, <1>3, SameDataInv
<1>4. CASE queue[d] # <<>> /\ queue' = [queue EXCEPT ![d] = Tail(@)]
  <2>1. \A e \in Descriptor : queue'[e] = queue[e] \/ queue'[e] = <<>>
    <3>1. SUFFICES ASSUME d \in Descriptor PROVE queue'[d] = <<>>
      BY <1>4 DEF DataInv, Typed
    <3>2. queue[d] \in Seq(Comm) /\ Len(queue[d]) = 1
      BY <1>4, <3>1 DEF DataInv, Typed, QueuesOK
    <3>3. Tail(queue[d]) = <<>>
      <4>1. Tail(queue[d]) \in Seq(Comm) /\ Len(Tail(queue[d])) = 0
        BY <3>2, <1>4
      <4>2. QED BY <4>1, EmptySeq
    <3>4. QED BY <3>1, <3>3, <1>4 DEF DataInv, Typed
  <2>2. queue' \in [Descriptor -> Seq(Comm)]
    <3>1. DOMAIN queue' = Descriptor /\ queue' = [e \in Descriptor |-> queue'[e]]
      BY <1>4 DEF DataInv, Typed
    <3>2. <<>> \in Seq(Comm) /\ \A e \in Descriptor : queue[e] \in Seq(Comm)
      BY DEF DataInv, Typed
    <3>3. \A e \in Descriptor : queue'[e] \in Seq(Comm)
      BY <2>1, <3>2
    <3>4. QED BY <3>1, <3>3
  <2>3. Typed'
    BY <1>1, <2>2 DEF DataInv, Typed
  <2>4. DescriptorsOK' /\ PortsOK' /\ FdMapAgrees'
    BY <1>1, <2>1 DEF DataInv, DescriptorsOK, PortsOK, FdMapAgrees
  <2>5. QueuesOK'
    BY <1>1, <2>1 DEF DataInv, QueuesOK
  <2>6. QED BY <2>3, <2>4, <2>5 DEF DataInv
<1>5. QED BY <1>2, <1>3, <1>4

-----------------------------------------------------------------------------
(* The two threads. *)

\* The receive thread takes a step other than its last.
LEMMA ThreadStepOK ==
  ASSUME ThreadOK, NEW from, NEW to, Thread(from, to), UNCHANGED wantQuit,
         from # "done", to # "done", to = "exit" => wantQuit
  PROVE  ThreadOK'
BY DEF ThreadOK, Thread

\* Only start_recv_thread, stop_recv_thread and recv_task change what is known
\* of the threads.
LEMMA ThreadInv ==
  ASSUME ThreadOK, Next
  PROVE  ThreadOK'
<1>1. ASSUME UNCHANGED <<main, started, starts, threadVars>>
      PROVE  ThreadOK'
  BY <1>1 DEF ThreadOK, threadVars
<1>2. ASSUME NEW c \in UdpComm, UdpInitComm(c) \/ UdpSendBytes(c)
      PROVE  ThreadOK'
  BY <1>1, <1>2 DEF UdpInitComm, UdpSendBytes
<1>3. ASSUME NEW c \in TapComm, TuntapInitComm(c) \/ HostSends(c)
      PROVE  ThreadOK'
  BY <1>1, <1>3 DEF TuntapInitComm, HostSends
<1>4. ASSUME NEW c \in Comm, DestroyComm(c)
      PROVE  ThreadOK'
  BY <1>1, <1>4 DEF DestroyComm
<1>5. CASE StartRecvThread
  BY <1>5 DEF ThreadOK, StartRecvThread
<1>6. CASE StopRecvThread
  BY <1>6 DEF ThreadOK, StopRecvThread
<1>7. CASE Join
  BY <1>7 DEF ThreadOK, Join, threadVars
<1>8. CASE EpollCreate
  BY <1>8, ThreadStepOK DEF EpollCreate
<1>9. CASE EpollAdd
  <2>1. PICK to \in {"loop", "scan"} : Thread("scan", to)
    BY <1>9 DEF EpollAdd
  <2>2. QED BY <1>9, <2>1, ThreadStepOK DEF EpollAdd
<1>10. CASE Loop
  <2>1. PICK to \in {"exit", "wait"} : Thread("loop", to) /\ (to = "exit" => wantQuit)
    BY <1>10 DEF Loop, Quits
  <2>2. QED BY <1>10, <2>1, ThreadStepOK DEF Loop
<1>11. CASE EpollWait
  BY <1>11, ThreadStepOK DEF EpollWait
<1>12. CASE Serve
  BY <1>12, ThreadStepOK DEF Serve
<1>13. CASE Served
  BY <1>13, ThreadStepOK DEF Served
<1>14. CASE Exit
  BY <1>14 DEF ThreadOK, Exit, Thread, QuitFlag
<1>15. QED
  BY <1>2, <1>3, <1>4, <1>5, <1>6, <1>7, <1>8, <1>9, <1>10, <1>11, <1>12, <1>13, <1>14
  DEF Next, RecvTask

-----------------------------------------------------------------------------
(* The theorems. *)

\* The table, the descriptors, the ports and the queues through every step.
LEMMA DataStep ==
  ASSUME DataInv, Next
  PROVE  DataInv'
<1>1. ASSUME NEW c \in UdpComm, UdpInitComm(c) \/ UdpSendBytes(c)
      PROVE  DataInv'
  BY <1>1, UdpInitInv, UdpSendInv
<1>2. ASSUME NEW c \in TapComm, TuntapInitComm(c) \/ HostSends(c)
      PROVE  DataInv'
  BY <1>2, TuntapInitInv, HostSendsInv
<1>3. ASSUME NEW c \in Comm, DestroyComm(c)
      PROVE  DataInv'
  BY <1>3, DestroyInv
<1>4. CASE StartRecvThread \/ StopRecvThread \/ Join
  BY <1>4, SameDataInv DEF StartRecvThread, StopRecvThread, Join, commVars
<1>5. CASE EpollCreate
  <2>1. LowestFd \in Descriptor /\ LowestFd \notin open
    BY <1>5, LowestFdFree DEF EpollCreate, DataInv, Typed
  <2>2. open' = open \cup {LowestFd} /\ UNCHANGED <<port, fdToComm, nextUdpPort, bound, queue, fd>>
    BY <1>5 DEF EpollCreate, Thread, commVars
  <2>3. QED BY <2>1, <2>2, LeakedInv
<1>6. CASE EpollAdd \/ Loop \/ EpollWait \/ Served \/ Exit
  <2>1. UNCHANGED <<fd, port, fdToComm, nextUdpPort, open, bound, queue>>
    BY <1>6 DEF EpollAdd, Loop, EpollWait, Served, Exit, Thread, commVars
  <2>2. QED BY <2>1, SameDataInv
<1>7. CASE Serve
  BY <1>7, ServeInv
<1>8. QED BY <1>1, <1>2, <1>3, <1>4, <1>5, <1>6, <1>7 DEF Next, RecvTask

\* IInv is an inductive invariant of everything that the program and its two
\* threads do with descriptors and ports.
THEOREM CommInvariant == Spec => []IInv
<1>1. Init => IInv
  <2> SUFFICES ASSUME Init PROVE IInv
    OBVIOUS
  <2>1. Typed
    <3>1. <<>> \in Seq(Comm) /\ 0 \in -1..MaxFd /\ 0 \in 0..(Ports - 1)
      BY CommAssumption
    <3>2. QED BY <3>1, CommAssumption DEF Init, Typed
  <2>2. DescriptorsOK /\ PortsOK /\ QueuesOK
    BY DEF Init, DescriptorsOK, PortsOK, QueuesOK
  <2>3. FdMapAgrees
    BY DEF Init, FdMapAgrees
  <2>4. ThreadOK
    BY DEF Init, ThreadOK
  <2>5. QED BY <2>1, <2>2, <2>3, <2>4 DEF IInv, DataInv
<1>2. IInv /\ [Next]_vars => IInv'
  <2> SUFFICES ASSUME IInv, [Next]_vars PROVE IInv'
    OBVIOUS
  <2>1. CASE Next
    BY <2>1, DataStep, ThreadInv DEF IInv
  <2>2. CASE UNCHANGED vars
    BY <2>2, SameDataInv DEF IInv, ThreadOK, vars, commVars, threadVars
  <2>3. QED BY <2>1, <2>2
<1>3. QED BY <1>1, <1>2, PTL DEF Spec

\* fd_to_comm_map agrees with the descriptors of the comms in every state.
THEOREM FdMapAlwaysAgrees == Spec => []FdMapAgrees
<1>1. IInv => FdMapAgrees
  BY DEF IInv, DataInv
<1>2. QED BY <1>1, CommInvariant, PTL

\* No frame ever waits at the socket of another link.
THEOREM FramesStayAtTheirLink == Spec => []FrameAtItsLink
<1>1. IInv => FrameAtItsLink
  BY DEF IInv, DataInv, QueuesOK, FrameAtItsLink
<1>2. QED BY <1>1, CommInvariant, PTL

\* Once stop_recv_thread has returned the receive thread has ended.
THEOREM ThreadIsGone == Spec => []ThreadGone
<1>1. IInv => ThreadGone
  BY DEF IInv, ThreadOK, ThreadGone
<1>2. QED BY <1>1, CommInvariant, PTL
=============================================================================
