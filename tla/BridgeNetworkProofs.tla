------------------------ MODULE BridgeNetworkProofs ------------------------
(***************************************************************************)
(* What the bridge does to a frame between two hosts, for any number of    *)
(* clients, addresses, faults and restarts.  A frame is one token that     *)
(* moves from queue to queue; only the network may double it.              *)
(***************************************************************************)
EXTENDS BridgeNetwork, FiniteSetTheorems, TLAPS

-----------------------------------------------------------------------------
(* The invariant.                                                          *)

Datagrams == [n: Nat \X Nat, from: Addrs, src: Macs, dst: Macs \cup Groups]
Written == [frame: Nat, at: Addrs]
Sent == [src: Macs, dst: Macs \cup Groups, life: Nat]
Copies == [d: Datagrams, to: Addrs]

ClientTypes ==
  /\ pc \in [Clients -> Locations]
  /\ running \in [Clients -> BOOLEAN]
  /\ evs \in [Clients -> Seq(Descriptors)]
  /\ address \in [Clients -> Addrs]
  /\ lives \in [Clients -> Nat]
  /\ tapq \in [Clients -> Seq(Nat)]
  /\ sockq \in [Clients -> Seq(Nat)]
  /\ out \in [Clients -> Seq(Written)]
  /\ up \subseteq [frame: Nat, from: Addrs]

ServerTypes ==
  /\ rx \subseteq Datagrams
  /\ loc \in [Macs -> Addrs \cup {NoAddr}]
  /\ members \subseteq Addrs
  /\ IsFiniteSet(routed)
  /\ due \subseteq Copies
  /\ wire \in Seq(Copies)
  /\ down \subseteq DOMAIN wire

Types ==
  /\ ClientTypes
  /\ ServerTypes
  /\ frames \in Seq(Sent)
  /\ duplicated \in Seq(Nat)

\* The events that are left are of queues that still hold something.
QueuesOf(c) ==
  /\ pc[c] = "event" <=> evs[c] # <<>>
  /\ \A x \in DOMAIN evs[c] : evs[c][x] \in Ready(c)
  /\ \A x, y \in DOMAIN evs[c] : evs[c][x] = evs[c][y] => x = y
  /\ pc[c] = "down" => tapq[c] = <<>> /\ sockq[c] = <<>>

Queues == \A c \in Clients : QueuesOf(c)

\* The client a frame came from, and whether it still runs under the address
\* it had then.
Own(n) == ClientOf[frames[n].src]
Current(n) == frames[n].life = lives[Own(n)]

\* A datagram that brings the frame to the server may come from a.
Sender(n, a) == n \in DOMAIN frames /\ (Current(n) => a = address[Own(n)])

\* The frame may be on its way to c's host.
Foreign(c, n) == n \in DOMAIN frames /\ (Own(n) = c => ~Current(n))

\* The frame is one of c's, sent since c was last started.
Fresh(c, n) == n \in DOMAIN frames /\ Own(n) = c /\ Current(n)

LivesPassed == \A n \in DOMAIN frames : frames[n].life <= lives[Own(n)]

TapOf(c) == \A x \in DOMAIN tapq[c] : Fresh(c, tapq[c][x])

TapOrigins == \A c \in Clients : TapOf(c)

ServerOrigins ==
  /\ \A p \in up : Sender(p.frame, p.from)
  /\ \A d \in rx : Sender(d.n[1], d.from)
  /\ \A y \in due : Sender(y.d.n[1], y.d.from) /\ y.to # y.d.from
  /\ \A x \in DOMAIN wire : Sender(FrameOf(x), wire[x].d.from) /\ wire[x].to # wire[x].d.from

ClientOrigins ==
  \A c \in Clients :
    /\ \A x \in DOMAIN sockq[c] : Foreign(c, sockq[c][x])
    /\ \A x \in DOMAIN out[c] : Foreign(c, out[c][x].frame)

Origins == LivesPassed /\ TapOrigins /\ ServerOrigins /\ ClientOrigins

Steady == Types /\ Queues /\ Origins

-----------------------------------------------------------------------------
\* At the first start nothing is anywhere.
LEMMA InitSteady == NetworkInit => Steady
<1> SUFFICES ASSUME NetworkInit PROVE Steady
  OBVIOUS
<1> USE DEF NetworkInit, Init, Server!Init
<1>1. ClientTypes
  BY BridgeClientAssumption DEF ClientTypes, Locations
<1>2. ServerTypes
  BY FS_EmptySet DEF ServerTypes
<1>3. Queues
  BY DEF Queues, QueuesOf
<1>4. Origins
  BY DEF Origins, LivesPassed, TapOrigins, TapOf, ServerOrigins, ClientOrigins
<1> QED
  BY <1>1, <1>2, <1>3, <1>4 DEF Steady, Types

-----------------------------------------------------------------------------
(* The steps of a client that move no frame, and the others.               *)

Idle(c) ==
  \/ Continue(c)
  \/ EpollEvent(c)
  \/ EpollTimeout(c)
  \/ ReadFails(c)
  \/ usr1_handler(c)
  \/ EpollError(c)

Rest == <<frames, rx, heard, server, down, duplicated>>

Takes(c) == Forward(c) \/ SendFails(c)

Ends(c) == Exit(c) \/ Killed(c)

Starts(c) == Start(c) \/ StartFails(c)

ClientStep(c) == (Idle(c) \/ Takes(c) \/ Ends(c) \/ Starts(c)) /\ UNCHANGED Rest

NetworkStep == Carry \/ Lose \/ Duplicate

\* Every step is one of five kinds.
LEMMA StepKinds ==
  ASSUME [Next]_vars
  PROVE  \/ UNCHANGED vars
         \/ \E m \in Macs : \E dst \in Destinations(m) : HostSends(m, dst)
         \/ \E c \in Clients : ClientStep(c)
         \/ ServerHandles
         \/ \E x \in due : ServerSends(x)
         \/ NetworkStep
BY DEF Next, runing, Signals, Works, ClientStep, Idle, Takes, Ends, Starts, Rest, NetworkStep
-----------------------------------------------------------------------------
(* Types.                                                                  *)

\* What an appended sequence holds.
LEMMA Appended ==
  ASSUME NEW S, NEW q \in Seq(S), NEW e \in S
  PROVE  Append(q, e) \in Seq(S)
OBVIOUS

\* Where an appended sequence holds what.
LEMMA AppendedAt ==
  ASSUME NEW S, NEW q \in Seq(S), NEW e \in S, NEW x \in DOMAIN Append(q, e)
  PROVE  Append(q, e)[x] = e \/ (x \in DOMAIN q /\ Append(q, e)[x] = q[x])
OBVIOUS

\* What is in a sequence over a set is in the set.
LEMMA Element ==
  ASSUME NEW S, NEW q \in Seq(S), NEW x \in DOMAIN q
  PROVE  q[x] \in S
OBVIOUS

\* A sequence is empty when its length is zero.
LEMMA EmptyIff ==
  ASSUME NEW S, NEW q \in Seq(S)
  PROVE  q = <<>> <=> Len(q) = 0
OBVIOUS

\* A step that changes nothing keeps the types.
LEMMA Unmoved ==
  ASSUME Types, UNCHANGED <<clientVars, server, rx, frames, down, duplicated>>
  PROVE  Types'
BY DEF Types, ClientTypes, ServerTypes, clientVars, server

\* The next event, or the head of the loop.
LEMMA NextEventTypes ==
  ASSUME Types, NEW c \in Clients, evs[c] # <<>>, NextEvent(c)
  PROVE  pc' \in [Clients -> Locations] /\ evs' \in [Clients -> Seq(Descriptors)]
BY DEF Types, ClientTypes, NextEvent, Locations

\* A client at an event has a frame to read from the queue the event is for.
LEMMA WaitingTypes ==
  ASSUME Types, Queues, NEW c \in Clients, pc[c] = "event"
  PROVE  /\ evs[c] # <<>> /\ Head(evs[c]) \in Descriptors
         /\ Head(evs[c]) = "tuntap_fd" => tapq[c] # <<>>
         /\ Head(evs[c]) = "udp_sock_fd" => sockq[c] # <<>>
         /\ Waiting(c) \in Nat
<1>1. evs[c] # <<>> /\ evs[c] \in Seq(Descriptors)
  BY DEF Queues, QueuesOf, Types, ClientTypes
<1>2. Head(evs[c]) \in Descriptors /\ Head(evs[c]) = evs[c][1] /\ 1 \in DOMAIN evs[c]
  BY <1>1
<1>3. Head(evs[c]) \in Ready(c)
  BY <1>2 DEF Queues, QueuesOf
<1>4. /\ Head(evs[c]) = "tuntap_fd" => tapq[c] # <<>>
      /\ Head(evs[c]) = "udp_sock_fd" => sockq[c] # <<>>
  BY <1>3 DEF Ready
<1>5. tapq[c] \in Seq(Nat) /\ sockq[c] \in Seq(Nat)
  BY DEF Types, ClientTypes
<1>6. Waiting(c) \in Nat
  BY <1>2, <1>4, <1>5 DEF Waiting, Descriptors
<1> QED
  BY <1>1, <1>2, <1>4, <1>6

\* What epoll_wait reports: some order of the queues that hold something.
LEMMA ReadyEvents ==
  ASSUME NEW c \in Clients, Ready(c) # {}, NEW s \in SetToSeqs(Ready(c))
  PROVE  /\ s \in Seq(Descriptors) /\ s # <<>>
         /\ \A x \in DOMAIN s : s[x] \in Ready(c)
         /\ \A x, y \in DOMAIN s : s[x] = s[y] => x = y
<1>1. IsFiniteSet(Descriptors)
  <2>1. Descriptors = ({} \cup {"tuntap_fd"}) \cup {"udp_sock_fd"}
    BY DEF Descriptors
  <2> QED
    BY <2>1, FS_EmptySet, FS_AddElement
<1>2. IsFiniteSet(Ready(c)) /\ Ready(c) \subseteq Descriptors
  BY <1>1, FS_Subset DEF Ready
<1>3. Cardinality(Ready(c)) \in Nat \ {0}
  BY <1>2, FS_CardinalityType, FS_EmptySet
<1>4. s \in [1 .. Cardinality(Ready(c)) -> Ready(c)]
      /\ \A x, y \in 1 .. Cardinality(Ready(c)) : x # y => s[x] # s[y]
  BY DEF SetToSeqs
<1> QED
  BY <1>2, <1>3, <1>4

\* The steps of a client keep the types.
LEMMA ClientTyped ==
  ASSUME Steady, NEW c \in Clients, ClientStep(c)
  PROVE  Types'
<1> USE DEF Steady
<1>1. ServerTypes' /\ (frames \in Seq(Sent))'
      /\ (duplicated \in Seq(Nat))'
  BY DEF ClientStep, Rest, server, Types, ServerTypes
<1>2. ClientTypes'
  <2> USE DEF Types, ClientTypes
  <2>1. CASE Idle(c)
    <3>1. CASE Continue(c) \/ EpollTimeout(c) \/ usr1_handler(c) \/ EpollError(c)
      BY <3>1 DEF Continue, EpollTimeout, usr1_handler, EpollError, process, Locations
    <3>2. CASE EpollEvent(c)
      <4> PICK s \in SetToSeqs(Ready(c)) : evs' = [evs EXCEPT ![c] = s]
        BY <3>2 DEF EpollEvent
      <4>1. s \in Seq(Descriptors)
        BY <3>2, ReadyEvents DEF EpollEvent
      <4> QED
        BY <3>2, <4>1 DEF EpollEvent, process, Locations
    <3>3. CASE ReadFails(c)
      <4>1. evs[c] # <<>>
        BY <3>3 DEF ReadFails, Queues, QueuesOf
      <4>2. pc' \in [Clients -> Locations] /\ evs' \in [Clients -> Seq(Descriptors)]
        BY <3>3, <4>1, NextEventTypes DEF ReadFails
      <4> QED
        BY <3>3, <4>2 DEF ReadFails, process
    <3> QED
      BY <2>1, <3>1, <3>2, <3>3 DEF Idle
  <2>2. CASE Takes(c)
    <3>1. Read(c) /\ pc[c] = "event" /\ NextEvent(c)
      BY <2>2 DEF Takes, Forward, SendFails, Read
    <3>2. evs[c] # <<>> /\ Waiting(c) \in Nat
          /\ (Head(evs[c]) = "tuntap_fd" => tapq[c] # <<>>)
          /\ (Head(evs[c]) = "udp_sock_fd" => sockq[c] # <<>>)
      BY <3>1, WaitingTypes
    <3>3. pc' \in [Clients -> Locations] /\ evs' \in [Clients -> Seq(Descriptors)]
      BY <3>1, <3>2, NextEventTypes
    <3>4. tapq' \in [Clients -> Seq(Nat)] /\ sockq' \in [Clients -> Seq(Nat)]
      <4>1. CASE Head(evs[c]) = "tuntap_fd" /\ tapq' = Taken(tapq, c) /\ UNCHANGED sockq
        <5>1. Tail(tapq[c]) \in Seq(Nat)
          BY <3>2, <4>1
        <5> QED
          BY <4>1, <5>1 DEF Taken
      <4>2. CASE Head(evs[c]) = "udp_sock_fd" /\ sockq' = Taken(sockq, c) /\ UNCHANGED tapq
        <5>1. Tail(sockq[c]) \in Seq(Nat)
          BY <3>2, <4>2
        <5> QED
          BY <4>2, <5>1 DEF Taken
      <4> QED
        BY <3>1, <4>1, <4>2 DEF Read
    <3>5. running' = running /\ address' = address /\ lives' = lives
      BY <2>2 DEF Takes, Forward, SendFails, process
    <3>6. (out' \in [Clients -> Seq(Written)])
          /\ up' \subseteq [frame: Nat, from: Addrs]
      <4> DEFINE o == [frame |-> Waiting(c), at |-> address[c]]
                 u == [frame |-> Waiting(c), from |-> address[c]]
      <4>1. o \in Written /\ u \in [frame: Nat, from: Addrs]
        BY <3>2 DEF Written
      <4>2. \/ up' = up \cup {u} /\ out' = out
            \/ up' = up /\ out' = [out EXCEPT ![c] = Append(@, o)]
            \/ up' = up /\ out' = out
        BY <2>2 DEF Takes, Forward, SendFails, send_data_use_udp, send_data_use_tuntap
      <4> HIDE DEF o, u
      <4>3. Append(out[c], o) \in Seq(Written)
        <5>1. out[c] \in Seq(Written)
          OBVIOUS
        <5> HIDE DEF Types, ClientTypes
        <5> QED
          BY <4>1, <5>1, Appended
      <4>4. [out EXCEPT ![c] = Append(@, o)] \in [Clients -> Seq(Written)]
        BY <4>3
      <4> QED
        BY <4>1, <4>2, <4>4
    <3> QED
      BY <3>3, <3>4, <3>5, <3>6
  <2>3. CASE Ends(c)
    <3>1. Destroyed(c)
      BY <2>3 DEF Ends, Exit, Killed
    <3>2. [pc EXCEPT ![c] = "down"] \in [Clients -> Locations]
      BY DEF Locations
    <3>3. /\ [tapq EXCEPT ![c] = <<>>] \in [Clients -> Seq(Nat)]
          /\ [sockq EXCEPT ![c] = <<>>] \in [Clients -> Seq(Nat)]
          /\ [evs EXCEPT ![c] = <<>>] \in [Clients -> Seq(Descriptors)]
      OBVIOUS
    <3> QED
      BY <3>1, <3>2, <3>3 DEF Destroyed, process
  <2>4. CASE Starts(c)
    <3>1. CASE Start(c)
      <4> PICK a \in Addrs : address' = [address EXCEPT ![c] = a]
        BY <3>1 DEF Start, FreeAddrs
      <4>1. /\ [address EXCEPT ![c] = a] \in [Clients -> Addrs]
            /\ [lives EXCEPT ![c] = @ + 1] \in [Clients -> Nat]
            /\ [running EXCEPT ![c] = TRUE] \in [Clients -> BOOLEAN]
            /\ [pc EXCEPT ![c] = "check"] \in [Clients -> Locations]
        BY DEF Locations
      <4> QED
        BY <3>1, <4>1 DEF Start
    <3>2. CASE StartFails(c)
      <4>1. [lives EXCEPT ![c] = @ + 1] \in [Clients -> Nat]
        OBVIOUS
      <4> QED
        BY <3>2, <4>1 DEF StartFails, loop
    <3> QED
      BY <2>4, <3>1, <3>2 DEF Starts
  <2> QED
    BY <2>1, <2>2, <2>3, <2>4 DEF ClientStep
<1> QED
  BY <1>1, <1>2 DEF Types

\* What the network carries to a client keeps its shape.
LEMMA DeliversTyped ==
  ASSUME Types, NEW x \in DOMAIN wire, Delivers(x)
  PROVE  sockq' \in [Clients -> Seq(Nat)]
<1>1. wire[x] \in Copies
  BY DEF Types, ServerTypes
<1>2. FrameOf(x) \in Nat
  BY <1>1 DEF FrameOf, Copies, Datagrams
<1>3. \A c \in Clients : sockq[c] \in Seq(Nat) /\ Append(sockq[c], FrameOf(x)) \in Seq(Nat)
  BY <1>2 DEF Types, ClientTypes
<1> QED
  BY <1>3 DEF Delivers

\* The server numbers what it receives, and keeps the frame and the sender.
LEMMA ReceivedTyped ==
  ASSUME Types, NEW p \in up, p.frame \in DOMAIN frames
  PROVE  /\ Received(p) \in Datagrams
         /\ Received(p).n[1] = p.frame
         /\ Received(p).from = p.from
<1> DEFINE earlier == {d \in routed : d.n[1] = p.frame}
<1>1. Cardinality(earlier) + 1 \in Nat
  <2>1. IsFiniteSet(routed)
    BY DEF Types, ServerTypes
  <2>2. IsFiniteSet(earlier)
    BY <2>1, FS_Subset
  <2> QED
    BY <2>2, FS_CardinalityType
<1>2. p.frame \in Nat /\ p.from \in Addrs
  BY DEF Types, ClientTypes
<1>3. frames[p.frame] \in Sent
  BY Element DEF Types
<1>4. Received(p) = [n |-> <<p.frame, Cardinality(earlier) + 1>>, from |-> p.from,
                     src |-> frames[p.frame].src, dst |-> frames[p.frame].dst]
  BY DEF Received
<1> HIDE DEF earlier
<1>5. Received(p) \in Datagrams
  BY <1>1, <1>2, <1>3, <1>4 DEF Datagrams, Sent
<1> QED
  BY <1>4, <1>5

\* A host that sends keeps the types.
LEMMA HostTyped ==
  ASSUME Steady, NEW m \in Macs, NEW dst \in Destinations(m), HostSends(m, dst)
  PROVE  Types'
<1> DEFINE c == ClientOf[m]
           f == [src |-> m, dst |-> dst, life |-> lives[c]]
<1>1. c \in Clients
  BY BridgeNetworkAssumption
<1>2. f \in Sent
  BY <1>1 DEF Sent, Destinations, Steady, Types, ClientTypes
<1>3. frames \in Seq(Sent) /\ frames' = Append(frames, f)
  BY DEF HostSends, Steady, Types
<1> HIDE DEF f
<1>4. frames' \in Seq(Sent) /\ Len(frames') \in Nat
  BY <1>2, <1>3
<1>5. Append(tapq[c], Len(frames')) \in Seq(Nat)
  BY <1>1, <1>4 DEF Steady, Types, ClientTypes
<1>6. tapq' \in [Clients -> Seq(Nat)]
  BY <1>1, <1>5 DEF HostSends, Steady, Types, ClientTypes
<1>7. ClientTypes' /\ ServerTypes' /\ (duplicated \in Seq(Nat))'
  BY <1>6 DEF HostSends, Steady, Types, ClientTypes, ServerTypes, loop, process, server
<1> QED
  BY <1>4, <1>7 DEF Types

\* The server keeps the types.
LEMMA ServerTyped ==
  ASSUME Steady, ServerHandles \/ \E x \in due : ServerSends(x)
  PROVE  Types'
<1> USE DEF Steady
<1>1. CASE ServerHandles
  <2> PICK d \in rx : \/ Server!Learn(d) /\ UNCHANGED rx
                      \/ Server!Enrol(d.from) /\ UNCHANGED rx
                      \/ Server!Route(d) /\ rx' = {}
    BY <1>1 DEF ServerHandles
  <2>1. d \in Datagrams
    BY DEF Types, ServerTypes
  <2>2. ServerTypes'
    <3>1. CASE Server!Learn(d) /\ UNCHANGED rx
      <4>1. d.from \in Addrs
        BY <2>1 DEF Datagrams
      <4> QED
        BY <1>1, <3>1, <4>1 DEF ServerHandles, Server!Learn, Types, ServerTypes
    <3>2. CASE Server!Enrol(d.from) /\ UNCHANGED rx
      <4>1. d.from \in Addrs
        BY <2>1 DEF Datagrams
      <4> QED
        BY <1>1, <3>2, <4>1 DEF ServerHandles, Server!Enrol, Types, ServerTypes
    <3>3. CASE Server!Route(d) /\ rx' = {}
      <4>1. Server!Recipients(d) \subseteq Addrs
        BY DEF Server!Recipients, Types, ServerTypes
      <4>2. due' \subseteq Copies
        BY <3>3, <4>1, <2>1 DEF Server!Route, Types, ServerTypes, Copies
      <4>3. IsFiniteSet(routed')
        BY <3>3, FS_AddElement DEF Server!Route, Types, ServerTypes
      <4> QED
        BY <1>1, <3>3, <4>2, <4>3 DEF ServerHandles, Server!Route, Types, ServerTypes
    <3> QED
      BY <3>1, <3>2, <3>3
  <2> QED
    BY <1>1, <2>2 DEF ServerHandles, clientVars, Types, ClientTypes
<1>2. ASSUME NEW x \in due, ServerSends(x) PROVE Types'
  <2>1. x \in Copies /\ wire \in Seq(Copies)
    BY DEF Types, ServerTypes
  <2>2. wire' \in Seq(Copies) /\ Len(wire') \in DOMAIN wire' /\ DOMAIN wire \subseteq DOMAIN wire'
    BY <1>2, <2>1 DEF ServerSends, Server!Transmit
  <2> QED
    BY <1>2, <2>2 DEF ServerSends, Server!Transmit, clientVars, Types, ClientTypes, ServerTypes
<1> QED
  BY <1>1, <1>2

\* The network keeps the types.
LEMMA NetworkTyped ==
  ASSUME Steady, NetworkStep
  PROVE  Types'
<1> USE DEF Steady
<1>1. \A p \in up : p.frame \in DOMAIN frames
  BY DEF Origins, ServerOrigins, Sender
<1>2. \A p \in up : Received(p) \in Datagrams /\ p.frame \in Nat
  BY <1>1, ReceivedTyped DEF Types, ClientTypes
<1>3. ASSUME NEW x \in down PROVE x \in DOMAIN wire /\ FrameOf(x) \in Nat
  <2>1. x \in DOMAIN wire /\ wire[x] \in Copies
    BY Element DEF Types, ServerTypes
  <2> QED
    BY <2>1 DEF FrameOf, Copies, Datagrams
<1>4. \A x \in down : Delivers(x) => sockq' \in [Clients -> Seq(Nat)]
  BY <1>3, DeliversTyped
<1>5. CASE Carry
  BY <1>2, <1>4, <1>5 DEF Carry, ServerReceives, Delivers, loop, process, server,
     Types, ClientTypes, ServerTypes
<1>6. CASE Lose
  BY <1>6 DEF Lose, loop, process, server, Types, ClientTypes, ServerTypes
<1>7. CASE Duplicate
  <2>1. duplicated' \in Seq(Nat)
    <3>1. PICK n \in Nat : duplicated' = Append(duplicated, n)
      BY <1>2, <1>3, <1>7 DEF Duplicate
    <3> QED
      BY <3>1, Appended DEF Types
  <2> QED
    BY <1>2, <1>4, <1>7, <2>1 DEF Duplicate, Delivers, loop, process, server,
       Types, ClientTypes, ServerTypes
<1> QED
  BY <1>5, <1>6, <1>7 DEF NetworkStep

\* Every step keeps the types.
LEMMA TypedStep ==
  ASSUME Steady, [Next]_vars
  PROVE  Types'
<1>1. CASE UNCHANGED vars
  BY <1>1, Unmoved DEF vars, Steady
<1> QED
  BY <1>1, StepKinds, HostTyped, ClientTyped, ServerTyped, NetworkTyped

-----------------------------------------------------------------------------
(* Queues.                                                                 *)

\* A client that a step leaves alone.
LEMMA QueuesUnmoved ==
  ASSUME Queues, NEW c \in Clients,
         pc'[c] = pc[c], evs'[c] = evs[c], tapq'[c] = tapq[c], sockq'[c] = sockq[c]
  PROVE  QueuesOf(c)'
BY DEF Queues, QueuesOf, Ready

\* A client whose queue grows while it handles its events.
LEMMA QueuesFed ==
  ASSUME Steady, NEW c \in Clients, pc[c] # "down",
         pc'[c] = pc[c], evs'[c] = evs[c],
         \/ tapq'[c] = tapq[c] /\ \E n \in Nat : sockq'[c] = Append(sockq[c], n)
         \/ sockq'[c] = sockq[c] /\ \E n \in Nat : tapq'[c] = Append(tapq[c], n)
  PROVE  QueuesOf(c)'
<1>1. tapq[c] \in Seq(Nat) /\ sockq[c] \in Seq(Nat)
  BY DEF Steady, Types, ClientTypes
<1>2. /\ tapq[c] # <<>> => tapq'[c] # <<>>
      /\ sockq[c] # <<>> => sockq'[c] # <<>>
  BY <1>1
<1>3. Ready(c) \subseteq Ready(c)'
  BY <1>2 DEF Ready
<1> QED
  BY <1>3 DEF Steady, Queues, QueuesOf

\* An event that is done with, and the queue it was for: the other event, if
\* there is one, is for the other queue, which still holds what it held.
LEMMA EventTaken ==
  ASSUME Steady, NEW c \in Clients, pc[c] = "event", NextEvent(c),
         \/ UNCHANGED <<tapq, sockq>>
         \/ Head(evs[c]) = "tuntap_fd" /\ UNCHANGED sockq
         \/ Head(evs[c]) = "udp_sock_fd" /\ UNCHANGED tapq
  PROVE  QueuesOf(c)'
<1>1. /\ evs[c] \in Seq(Descriptors) /\ evs[c] # <<>>
      /\ \A x \in DOMAIN evs[c] : evs[c][x] \in Ready(c)
      /\ \A x, y \in DOMAIN evs[c] : evs[c][x] = evs[c][y] => x = y
  BY DEF Steady, Types, ClientTypes, Queues, QueuesOf
<1>2. evs'[c] = Tail(evs[c]) /\ pc'[c] = IF Len(evs[c]) = 1 THEN "check" ELSE "event"
  BY DEF NextEvent, Steady, Types, ClientTypes
<1>3. evs'[c] # <<>> <=> Len(evs[c]) # 1
  <2>1. Tail(evs[c]) \in Seq(Descriptors) /\ Len(Tail(evs[c])) = Len(evs[c]) - 1
        /\ Len(evs[c]) \in Nat
    BY <1>1
  <2>2. Tail(evs[c]) = <<>> <=> Len(Tail(evs[c])) = 0
    BY <2>1, EmptyIff
  <2> QED
    BY <1>2, <2>1, <2>2
<1>4. ASSUME NEW x \in DOMAIN evs'[c]
      PROVE  x + 1 \in DOMAIN evs[c] /\ evs'[c][x] = evs[c][x + 1] /\ x \in Nat
             /\ evs'[c][x] # Head(evs[c])
  BY <1>1, <1>2
<1>5. \A x \in DOMAIN evs'[c] : evs'[c][x] \in Ready(c)'
  BY <1>1, <1>4 DEF Ready, Descriptors
<1>6. \A x, y \in DOMAIN evs'[c] : evs'[c][x] = evs'[c][y] => x = y
  BY <1>1, <1>4
<1> QED
  BY <1>2, <1>3, <1>5, <1>6 DEF QueuesOf

\* The events of a client stay true to its queues: it never reads a queue
\* that is empty.
LEMMA ClientQueues ==
  ASSUME Steady, NEW c \in Clients, ClientStep(c)
  PROVE  Queues'
<1>1. \A d \in Clients \ {c} : /\ pc'[d] = pc[d] /\ evs'[d] = evs[d]
                              /\ tapq'[d] = tapq[d] /\ sockq'[d] = sockq[d]
  <2> USE DEF Steady, Types, ClientTypes
  <2>1. CASE Idle(c)
    BY <2>1 DEF Idle, Continue, EpollEvent, EpollTimeout, ReadFails, usr1_handler,
       EpollError, NextEvent
  <2>2. CASE Takes(c)
    BY <2>2 DEF Takes, Forward, SendFails, Read, Taken, NextEvent
  <2>3. CASE Ends(c)
    BY <2>3 DEF Ends, Exit, Killed, Destroyed
  <2>4. CASE Starts(c)
    BY <2>4 DEF Starts, Start, StartFails, loop
  <2> QED
    BY <2>1, <2>2, <2>3, <2>4 DEF ClientStep
<1>2. QueuesOf(c)'
  <2>0. QueuesOf(c) /\ pc \in [Clients -> Locations] /\ evs \in [Clients -> Seq(Descriptors)]
        /\ tapq \in [Clients -> Seq(Nat)] /\ sockq \in [Clients -> Seq(Nat)]
    BY DEF Steady, Queues, Types, ClientTypes
  <2>1. CASE Continue(c) \/ EpollTimeout(c) \/ usr1_handler(c) \/ EpollError(c)
    BY <2>0, <2>1 DEF Continue, EpollTimeout, usr1_handler, EpollError, QueuesOf, Ready
  <2>2. CASE EpollEvent(c)
    <3> PICK s \in SetToSeqs(Ready(c)) : evs' = [evs EXCEPT ![c] = s]
      BY <2>2 DEF EpollEvent
    <3>1. s # <<>> /\ (\A x \in DOMAIN s : s[x] \in Ready(c))
          /\ \A x, y \in DOMAIN s : s[x] = s[y] => x = y
      BY <2>2, ReadyEvents DEF EpollEvent
    <3>2. Ready(c)' = Ready(c) /\ evs'[c] = s /\ pc'[c] = "event"
      BY <2>0, <2>2 DEF EpollEvent, Ready
    <3> QED
      BY <3>1, <3>2 DEF QueuesOf
  <2>3. CASE ReadFails(c)
    BY <2>3, EventTaken DEF ReadFails
  <2>4. CASE Takes(c)
    BY <2>4, EventTaken DEF Takes, Forward, SendFails, Read
  <2>5. CASE Ends(c)
    BY <2>0, <2>5 DEF Ends, Exit, Killed, Destroyed, QueuesOf
  <2>6. CASE Starts(c)
    BY <2>0, <2>6 DEF Starts, Start, StartFails, loop, QueuesOf, Ready
  <2> QED
    BY <2>1, <2>2, <2>3, <2>4, <2>5, <2>6 DEF ClientStep, Idle
<1> QED
  BY <1>1, <1>2, QueuesUnmoved DEF Queues, Steady

\* A host only adds to a queue.
LEMMA HostQueues ==
  ASSUME Steady, NEW m \in Macs, NEW dst, HostSends(m, dst)
  PROVE  Queues'
<1> DEFINE c == ClientOf[m]
<1>1. c \in Clients /\ pc[c] # "down"
  BY BridgeNetworkAssumption DEF HostSends
<1>2. UNCHANGED <<pc, evs, sockq>>
  BY DEF HostSends, loop
<1>3. Len(frames') \in Nat
  BY DEF HostSends, Steady, Types, Sent
<1>4. /\ tapq'[c] = Append(tapq[c], Len(frames'))
      /\ \A d \in Clients \ {c} : tapq'[d] = tapq[d]
  BY <1>1 DEF HostSends, Steady, Types, ClientTypes
<1> HIDE DEF c
<1>5. QueuesOf(c)'
  BY <1>1, <1>2, <1>3, <1>4, QueuesFed
<1>6. \A d \in Clients \ {c} : QueuesOf(d)'
  BY <1>2, <1>4, QueuesUnmoved DEF Steady
<1> QED
  BY <1>5, <1>6 DEF Queues

\* The network only adds to a queue, and only of a client that is up.
LEMMA NetworkQueues ==
  ASSUME Steady, NetworkStep
  PROVE  Queues'
<1>1. UNCHANGED <<pc, evs, tapq>>
  BY DEF NetworkStep, Carry, Lose, Duplicate, Delivers, loop
<1>2. CASE UNCHANGED sockq
  BY <1>1, <1>2, QueuesUnmoved DEF Queues, Steady
<1>3. CASE \E x \in down : Delivers(x)
  <2> PICK x \in down : Delivers(x)
    BY <1>3
  <2>1. FrameOf(x) \in Nat
    <3>1. wire[x] \in Copies
      BY Element DEF Steady, Types, ServerTypes
    <3> QED
      BY <3>1 DEF FrameOf, Copies, Datagrams
  <2>2. ASSUME NEW c \in Clients PROVE QueuesOf(c)'
    <3>1. CASE c \in Bound(wire[x].to)
      <4>1. pc[c] # "down" /\ sockq'[c] = Append(sockq[c], FrameOf(x))
        BY <3>1 DEF Delivers, Bound
      <4> QED
        BY <1>1, <2>1, <4>1, QueuesFed
    <3>2. CASE c \notin Bound(wire[x].to)
      BY <1>1, <3>2, QueuesUnmoved DEF Delivers, Steady
    <3> QED
      BY <3>1, <3>2
  <2> QED
    BY <2>2 DEF Queues
<1> QED
  BY <1>2, <1>3 DEF NetworkStep, Carry, Lose, Duplicate

\* Every step keeps the events true to the queues.
LEMMA QueuesStep ==
  ASSUME Steady, [Next]_vars
  PROVE  Queues'
<1>1. CASE UNCHANGED vars \/ ServerHandles \/ \E x \in due : ServerSends(x)
  <2>1. UNCHANGED <<pc, evs, tapq, sockq>>
    BY <1>1 DEF vars, clientVars, ServerHandles, ServerSends
  <2> QED
    BY <2>1, QueuesUnmoved DEF Queues, Steady
<1> QED
  BY <1>1, StepKinds, HostQueues, ClientQueues, NetworkQueues

-----------------------------------------------------------------------------
(* Origins.                                                                *)

\* A frame that was sent has a client.
LEMMA FrameSent ==
  ASSUME Types, NEW n \in DOMAIN frames
  PROVE  n \in Nat /\ frames[n].life \in Nat /\ Own(n) \in Clients
<1>1. frames[n] \in Sent /\ n \in Nat
  BY Element DEF Types
<1> QED
  BY <1>1, BridgeNetworkAssumption DEF Sent, Own

\* A step ends lives, but changes nobody's past.
LEMMA PastKept ==
  ASSUME Steady, [Next]_vars
  PROVE  /\ LivesPassed'
         /\ \A n, a : Sender(n, a) => Sender(n, a)'
         /\ \A n : \A c \in Clients : Foreign(c, n) => Foreign(c, n)'
<1>0. \A n \in DOMAIN frames : n \in Nat /\ frames[n].life \in Nat /\ Own(n) \in Clients
  BY FrameSent DEF Steady
<1>1. CASE UNCHANGED <<frames, lives, address>>
  BY <1>1 DEF Steady, Origins, LivesPassed, Sender, Foreign, Own, Current
<1>2. ASSUME NEW m \in Macs, NEW dst, HostSends(m, dst)
      PROVE  /\ LivesPassed'
             /\ \A n, a : Sender(n, a) => Sender(n, a)'
             /\ \A n : \A c \in Clients : Foreign(c, n) => Foreign(c, n)'
  <2> DEFINE f == [src |-> m, dst |-> dst, life |-> lives[ClientOf[m]]]
  <2>1. frames' = Append(frames, f) /\ lives' = lives /\ address' = address
    BY <1>2 DEF HostSends, process
  <2>2. f.src = m /\ f.life = lives[ClientOf[m]] /\ ClientOf[m] \in Clients
    BY BridgeNetworkAssumption
  <2> HIDE DEF f
  <2>3. /\ \A n \in DOMAIN frames : n \in DOMAIN frames' /\ frames'[n] = frames[n]
        /\ \A n \in DOMAIN frames' : n \in DOMAIN frames \/ frames'[n] = f
    BY <2>1 DEF Steady, Types
  <2>4. LivesPassed'
    <3> SUFFICES ASSUME NEW n \in DOMAIN frames'
                 PROVE  frames'[n].life <= lives[ClientOf[frames'[n].src]]
      BY <2>1 DEF LivesPassed, Own
    <3>1. CASE n \in DOMAIN frames
      BY <2>3, <3>1 DEF Steady, Origins, LivesPassed, Own
    <3>2. CASE frames'[n] = f
      BY <2>2, <3>2 DEF Steady, Types, ClientTypes
    <3> QED
      BY <2>3, <3>1, <3>2
  <2>5. \A n \in DOMAIN frames : (Own(n) = Own(n)') /\ (Current(n) = Current(n)')
    BY <2>1, <2>3 DEF Own, Current
  <2> QED
    BY <2>1, <2>3, <2>4, <2>5 DEF Sender, Foreign
<1>3. ASSUME NEW c \in Clients, Starts(c), UNCHANGED frames
      PROVE  /\ LivesPassed'
             /\ \A n, a : Sender(n, a) => Sender(n, a)'
             /\ \A n : \A d \in Clients : Foreign(d, n) => Foreign(d, n)'
  <2>1. /\ lives'[c] = lives[c] + 1 /\ lives[c] \in Nat
        /\ \A d \in Clients \ {c} : lives'[d] = lives[d] /\ address'[d] = address[d]
    BY <1>3 DEF Starts, Start, StartFails, Steady, Types, ClientTypes
  <2>2. ASSUME NEW n \in DOMAIN frames
        PROVE  /\ n \in DOMAIN frames' /\ Own(n)' = Own(n) /\ Own(n) \in Clients
               /\ frames'[n].life <= lives'[Own(n)]
               /\ Own(n) = c => ~Current(n)'
               /\ Own(n) # c => (Current(n)' = Current(n)) /\ address'[Own(n)] = address[Own(n)]
    <3>1. frames[n].life <= lives[Own(n)] /\ Own(n)' = Own(n)
      BY <1>3 DEF Steady, Origins, LivesPassed, Own
    <3> QED
      BY <1>0, <1>3, <2>1, <3>1 DEF Current
  <2> QED
    BY <1>3, <2>2 DEF LivesPassed, Sender, Foreign
<1>4. ASSUME NEW c \in Clients, ClientStep(c), ~Starts(c)
      PROVE  UNCHANGED <<frames, lives, address>>
  BY <1>4 DEF ClientStep, Rest, Idle, Continue, EpollEvent, EpollTimeout, ReadFails,
     usr1_handler, EpollError, Takes, Forward, SendFails, Ends, Exit, Killed, Destroyed, process
<1>5. ASSUME NEW c \in Clients, ClientStep(c)
      PROVE  UNCHANGED frames
  BY <1>5 DEF ClientStep, Rest
<1>6. CASE UNCHANGED vars \/ ServerHandles \/ (\E x \in due : ServerSends(x)) \/ NetworkStep
  <2>1. UNCHANGED <<frames, lives, address>>
    BY <1>6 DEF vars, clientVars, ServerHandles, ServerSends, NetworkStep, Carry, Lose,
       Duplicate, Delivers, ServerReceives, process
  <2> QED
    BY <1>1, <2>1
<1> QED
  BY <1>1, <1>2, <1>3, <1>4, <1>5, <1>6, StepKinds

\* What stays fresh: the frames of a client that is not started.
LEMMA FreshKept ==
  ASSUME Steady, NEW d \in Clients, lives'[d] = lives[d],
         \/ frames' = frames
         \/ \E f \in Sent : frames' = Append(frames, f)
  PROVE  \A n : Fresh(d, n) => Fresh(d, n)'
<1>0. frames \in Seq(Sent)
  BY DEF Steady, Types
<1>1. \A n \in DOMAIN frames : n \in DOMAIN frames' /\ frames'[n] = frames[n]
  <2>1. CASE frames' = frames
    BY <2>1
  <2>2. ASSUME NEW f \in Sent, frames' = Append(frames, f)
        PROVE  \A n \in DOMAIN frames : n \in DOMAIN frames' /\ frames'[n] = frames[n]
    BY <1>0, <2>2
  <2> QED
    BY <2>1, <2>2
<1> QED
  BY <1>1 DEF Fresh, Own, Current

\* The frames on the tap devices.
LEMMA TapStep ==
  ASSUME Steady, [Next]_vars
  PROVE  TapOrigins'
<1>0. TapOrigins /\ tapq \in [Clients -> Seq(Nat)] /\ lives \in [Clients -> Nat]
  BY DEF Steady, Origins, Types, ClientTypes
<1>1. ASSUME NEW d \in Clients, tapq'[d] = tapq[d], lives'[d] = lives[d], UNCHANGED frames
      PROVE  TapOf(d)'
  <2>1. \A n : Fresh(d, n) => Fresh(d, n)'
    BY <1>1, FreshKept
  <2>2. TapOf(d)
    BY <1>0 DEF TapOrigins
  <2> QED
    BY <1>1, <2>1, <2>2 DEF TapOf
<1>2. CASE UNCHANGED <<tapq, lives, frames>>
  <2>1. \A d \in Clients : TapOf(d)'
    BY <1>1, <1>2
  <2> QED
    BY <2>1 DEF TapOrigins
<1>3. ASSUME NEW m \in Macs, NEW dst \in Destinations(m), HostSends(m, dst)
      PROVE  TapOrigins'
  <2> PICK c : c = ClientOf[m]
    OBVIOUS
  <2> PICK f : f = [src |-> m, dst |-> dst, life |-> lives[c]]
    OBVIOUS
  <2>1. c \in Clients
    BY BridgeNetworkAssumption
  <2>2. f.src = m /\ f.life = lives[c] /\ f \in Sent
    BY <1>0, <2>1 DEF Sent, Destinations
  <2>3. /\ frames' = Append(frames, f) /\ lives' = lives
        /\ tapq' = [tapq EXCEPT ![c] = Append(@, Len(frames'))]
    BY <1>3 DEF HostSends, process
  <2> PICK k : k = Len(frames')
    OBVIOUS
  <2>4. k \in DOMAIN frames' /\ k \in Nat /\ frames'[k] = f
    BY <2>2, <2>3 DEF Steady, Types
  <2>5. Fresh(c, k)'
    BY <2>2, <2>3, <2>4 DEF Fresh, Own, Current
  <2>6. \A d \in Clients : \A n : Fresh(d, n) => Fresh(d, n)'
    BY <2>2, <2>3, FreshKept
  <2>7. TapOf(c)'
    <3>1. \A x \in DOMAIN tapq'[c] :
            tapq'[c][x] = k \/ (x \in DOMAIN tapq[c] /\ tapq'[c][x] = tapq[c][x])
      <4>1. tapq'[c] = Append(tapq[c], k) /\ tapq[c] \in Seq(Nat)
        BY <1>0, <2>1, <2>3
      <4> QED
        BY <2>4, <4>1
    <3>2. TapOf(c)
      BY <1>0, <2>1 DEF TapOrigins
    <3> QED
      BY <2>1, <2>5, <2>6, <3>1, <3>2 DEF TapOf
  <2>8. ASSUME NEW d \in Clients, d # c PROVE TapOf(d)'
    <3>1. tapq'[d] = tapq[d]
      BY <1>0, <2>1, <2>3, <2>8
    <3>2. TapOf(d)
      BY <1>0 DEF TapOrigins
    <3> QED
      BY <2>6, <3>1, <3>2 DEF TapOf
  <2> QED
    BY <2>7, <2>8 DEF TapOrigins
<1>4. ASSUME NEW c \in Clients, ClientStep(c)
      PROVE  TapOrigins'
  <2>0. UNCHANGED frames /\ pc \in [Clients -> Locations]
    BY <1>4 DEF ClientStep, Rest, Steady, Types, ClientTypes
  <2>1. CASE Idle(c)
    BY <1>2, <2>0, <2>1 DEF Idle, Continue, EpollEvent, EpollTimeout, ReadFails, usr1_handler,
       EpollError, process
  <2>2. CASE Takes(c)
    <3>1. UNCHANGED lives /\ pc[c] = "event"
      BY <2>2 DEF Takes, Forward, SendFails, Read, process
    <3>2. CASE Head(evs[c]) = "tuntap_fd" /\ tapq' = Taken(tapq, c)
      <4>1. tapq[c] # <<>>
        BY <3>1, <3>2, WaitingTypes DEF Steady
      <4>2. tapq'[c] = Tail(tapq[c]) /\ \A d \in Clients \ {c} : tapq'[d] = tapq[d]
        BY <1>0, <3>2 DEF Taken
      <4>3. \A x \in DOMAIN tapq'[c] : x + 1 \in DOMAIN tapq[c] /\ tapq'[c][x] = tapq[c][x + 1]
        BY <1>0, <4>1, <4>2
      <4>4. TapOf(c)'
        <5>1. \A n : Fresh(c, n) => Fresh(c, n)'
          BY <2>0, <3>1, FreshKept
        <5>2. TapOf(c)
          BY <1>0 DEF TapOrigins
        <5> QED
          BY <4>3, <5>1, <5>2 DEF TapOf
      <4> QED
        BY <1>1, <2>0, <3>1, <4>2, <4>4 DEF TapOrigins
    <3> QED
      BY <1>2, <2>0, <2>2, <3>1, <3>2 DEF Takes, Forward, SendFails, Read
  <2>3. CASE Ends(c)
    <3>1. tapq' = [tapq EXCEPT ![c] = <<>>] /\ UNCHANGED lives
      BY <2>3 DEF Ends, Exit, Killed, Destroyed, process
    <3>2. \A d \in Clients : IF d = c THEN DOMAIN tapq'[d] = {} ELSE tapq'[d] = tapq[d]
      BY <1>0, <3>1
    <3>3. TapOf(c)'
      BY <3>1, <3>2 DEF TapOf
    <3> QED
      BY <1>1, <2>0, <3>1, <3>2, <3>3 DEF TapOrigins
  <2>4. CASE Starts(c)
    <3>1. /\ tapq'= tapq /\ pc[c] = "down"
          /\ \A d \in Clients \ {c} : lives'[d] = lives[d]
      BY <1>0, <2>4 DEF Starts, Start, StartFails
    <3>2. tapq[c] = <<>>
      BY <3>1 DEF Steady, Queues, QueuesOf
    <3>3. TapOf(c)'
      BY <3>1, <3>2 DEF TapOf
    <3> QED
      BY <1>1, <2>0, <3>1, <3>2, <3>3 DEF TapOrigins
  <2> QED
    BY <1>4, <2>1, <2>2, <2>3, <2>4 DEF ClientStep
<1>5. CASE UNCHANGED vars \/ ServerHandles \/ (\E x \in due : ServerSends(x)) \/ NetworkStep
  <2>1. UNCHANGED <<frames, lives, tapq>>
    BY <1>5 DEF vars, clientVars, ServerHandles, ServerSends, NetworkStep, Carry, Lose,
       Duplicate, Delivers, ServerReceives, process
  <2> QED
    BY <1>2, <2>1
<1> QED
  BY <1>3, <1>4, <1>5, StepKinds

\* What a step does to the datagrams on either side of the server.
LEMMA UpGrows ==
  ASSUME Steady, [Next]_vars
  PROVE  \/ up' \subseteq up
         \/ \E c \in Clients :
              /\ Forward(c) /\ ClientStep(c) /\ Head(evs[c]) = "tuntap_fd"
              /\ up' = up \cup {[frame |-> Waiting(c), from |-> address[c]]}
<1>1. ASSUME NEW c \in Clients, ClientStep(c)
      PROVE  \/ up' \subseteq up
             \/ /\ Forward(c) /\ Head(evs[c]) = "tuntap_fd"
                /\ up' = up \cup {[frame |-> Waiting(c), from |-> address[c]]}
  <2>1. CASE Forward(c)
    BY <2>1 DEF Forward, Other, send_data_use_udp, send_data_use_tuntap
  <2>2. CASE ~Forward(c)
    BY <1>1, <2>2 DEF ClientStep, Idle, Continue, EpollEvent, EpollTimeout, ReadFails,
       usr1_handler, EpollError, Takes, SendFails, Ends, Exit, Killed, Destroyed,
       Starts, Start, StartFails
  <2> QED
    BY <2>1, <2>2
<1>2. ASSUME NEW m, NEW dst, HostSends(m, dst) PROVE up' = up
  BY <1>2 DEF HostSends
<1>3. CASE UNCHANGED vars \/ ServerHandles \/ (\E x \in due : ServerSends(x)) \/ NetworkStep
  BY <1>3 DEF vars, clientVars, ServerHandles, ServerSends, NetworkStep, Carry, Lose,
     Duplicate, Delivers, ServerReceives
<1> QED
  BY <1>1, <1>2, <1>3, StepKinds

\* The server receives what is on its way to it.
LEMMA RxChanges ==
  ASSUME Steady, [Next]_vars
  PROVE  \/ rx' \subseteq rx
         \/ \E p \in up : rx' = {Received(p)}
<1>1. ASSUME NEW c \in Clients, ClientStep(c) PROVE rx' = rx
  BY <1>1 DEF ClientStep, Rest
<1>2. ASSUME NEW m, NEW dst, HostSends(m, dst) PROVE rx' = rx
  BY <1>2 DEF HostSends
<1>3. CASE UNCHANGED vars \/ ServerHandles \/ (\E x \in due : ServerSends(x)) \/ NetworkStep
  BY <1>3 DEF vars, ServerHandles, ServerSends, NetworkStep, Carry, Lose,
     Duplicate, Delivers, ServerReceives
<1> QED
  BY <1>1, <1>2, <1>3, StepKinds

\* Copies are decided by Route and sent by ServerSends, and by nothing else.
LEMMA DueAndWire ==
  ASSUME Steady, [Next]_vars
  PROVE  \/ UNCHANGED <<due, wire>>
         \/ \E d \in rx : ServerHandles /\ Server!Route(d) /\ rx' = {}
         \/ \E x \in due : ServerSends(x)
<1>1. ASSUME NEW c \in Clients, ClientStep(c) PROVE UNCHANGED <<due, wire>>
  BY <1>1 DEF ClientStep, Rest, server
<1>2. ASSUME NEW m, NEW dst, HostSends(m, dst) PROVE UNCHANGED <<due, wire>>
  BY <1>2 DEF HostSends, server
<1>3. CASE UNCHANGED vars \/ ServerHandles \/ NetworkStep
  BY <1>3 DEF vars, ServerHandles, Server!Learn, Server!Enrol, NetworkStep,
     Carry, Lose, Duplicate, Delivers, ServerReceives, server
<1> QED
  BY <1>1, <1>2, <1>3, StepKinds

\* What the server is told, and what it tells.
LEMMA ServerStep ==
  ASSUME Steady, [Next]_vars
  PROVE  ServerOrigins'
<1>0. ServerOrigins /\ Types
  BY DEF Steady, Origins
<1>1. \A n, a : Sender(n, a) => Sender(n, a)'
  BY PastKept
<1>2. \A p \in up' : Sender(p.frame, p.from)'
  <2>1. CASE up' \subseteq up
    BY <1>0, <1>1, <2>1 DEF ServerOrigins
  <2>2. ASSUME NEW c \in Clients, ClientStep(c), Forward(c), Head(evs[c]) = "tuntap_fd",
               up' = up \cup {[frame |-> Waiting(c), from |-> address[c]]}
        PROVE  \A p \in up' : Sender(p.frame, p.from)'
    <3>1. tapq[c] # <<>> /\ Waiting(c) = Head(tapq[c])
      BY <2>2, WaitingTypes DEF Steady, Forward, Read, Waiting
    <3>2. 1 \in DOMAIN tapq[c] /\ Waiting(c) = tapq[c][1]
      BY <1>0, <3>1 DEF Types, ClientTypes
    <3>3. Fresh(c, Waiting(c))
      BY <3>2 DEF Steady, Origins, TapOrigins, TapOf
    <3>4. Sender(Waiting(c), address[c])
      BY <3>3 DEF Fresh, Sender
    <3> QED
      BY <1>0, <1>1, <2>2, <3>4 DEF ServerOrigins
  <2> QED
    BY <2>1, <2>2, UpGrows
<1>3. \A d \in rx' : Sender(d.n[1], d.from)'
  <2>1. CASE rx' \subseteq rx
    BY <1>0, <1>1, <2>1 DEF ServerOrigins
  <2>2. ASSUME NEW p \in up, rx' = {Received(p)}
        PROVE  \A d \in rx' : Sender(d.n[1], d.from)'
    <3>1. Sender(p.frame, p.from)
      BY <1>0 DEF ServerOrigins
    <3>2. Received(p).n[1] = p.frame /\ Received(p).from = p.from
      BY <1>0, <3>1, ReceivedTyped DEF Sender
    <3> PICK r : r = Received(p)
      OBVIOUS
    <3> QED
      BY <1>1, <2>2, <3>1, <3>2
  <2> QED
    BY <2>1, <2>2, RxChanges
<1>4. (\A y \in due : Sender(y.d.n[1], y.d.from) /\ y.to # y.d.from)'
  <2>1. CASE due' \subseteq due
    BY <1>0, <1>1, <2>1 DEF ServerOrigins
  <2>2. ASSUME NEW d \in rx, Server!Route(d)
        PROVE  (\A y \in due : Sender(y.d.n[1], y.d.from) /\ y.to # y.d.from)'
    <3>1. \A y \in due' : y \in due \/ (y.d = d /\ y.to # d.from)
      BY <2>2 DEF Server!Route, Server!Recipients
    <3>2. Sender(d.n[1], d.from)'
      BY <1>0, <1>1 DEF ServerOrigins
    <3> QED
      BY <1>0, <1>1, <3>1, <3>2 DEF ServerOrigins
  <2>3. ASSUME NEW x \in due, ServerSends(x) PROVE due' \subseteq due
    BY <2>3 DEF ServerSends, Server!Transmit
  <2> QED
    BY <2>1, <2>2, <2>3, DueAndWire
<1>5. (\A x \in DOMAIN wire : Sender(FrameOf(x), wire[x].d.from) /\ wire[x].to # wire[x].d.from)'
  <2>1. CASE wire' = wire
    BY <1>0, <1>1, <2>1 DEF ServerOrigins, FrameOf
  <2>2. ASSUME NEW y \in due, ServerSends(y)
        PROVE  (\A x \in DOMAIN wire : Sender(FrameOf(x), wire[x].d.from)
                                       /\ wire[x].to # wire[x].d.from)'
    <3>1. wire' = Append(wire, y) /\ wire \in Seq(Copies) /\ y \in Copies
      BY <1>0, <2>2 DEF ServerSends, Server!Transmit, Types, ServerTypes
    <3>2. \A x \in DOMAIN wire' : wire'[x] = y \/ (x \in DOMAIN wire /\ wire'[x] = wire[x])
      BY <3>1
    <3>3. Sender(y.d.n[1], y.d.from)' /\ y.to # y.d.from
      BY <1>0, <1>1 DEF ServerOrigins
    <3> QED
      BY <1>0, <1>1, <3>2, <3>3 DEF ServerOrigins, FrameOf
  <2> QED
    BY <2>1, <2>2, DueAndWire DEF Server!Route
<1> QED
  BY <1>2, <1>3, <1>4, <1>5 DEF ServerOrigins

\* What a step does to a client's socket and to what it has written.
LEMMA SockChanges ==
  ASSUME Steady, [Next]_vars, NEW d \in Clients
  PROVE  \/ sockq'[d] = sockq[d]
         \/ sockq'[d] = <<>>
         \/ sockq[d] # <<>> /\ sockq'[d] = Tail(sockq[d])
         \/ \E x \in down : /\ Delivers(x) /\ d \in Bound(wire[x].to)
                            /\ sockq'[d] = Append(sockq[d], FrameOf(x))
<1>0. sockq \in [Clients -> Seq(Nat)]
  BY DEF Steady, Types, ClientTypes
<1>1. ASSUME NEW c \in Clients, ClientStep(c)
      PROVE  \/ sockq'[d] = sockq[d]
             \/ sockq'[d] = <<>>
             \/ sockq[d] # <<>> /\ sockq'[d] = Tail(sockq[d])
  <2>1. CASE Idle(c) \/ Starts(c)
    BY <2>1 DEF Idle, Continue, EpollEvent, EpollTimeout, ReadFails, usr1_handler,
       EpollError, Starts, Start, StartFails
  <2>2. CASE Takes(c)
    <3>1. /\ pc[c] = "event"
          /\ sockq' = sockq \/ (Head(evs[c]) = "udp_sock_fd" /\ sockq' = Taken(sockq, c))
      BY <2>2 DEF Takes, Forward, SendFails, Read
    <3>2. sockq' = sockq \/ (sockq[c] # <<>> /\ sockq' = Taken(sockq, c))
      BY <3>1, WaitingTypes DEF Steady
    <3> QED
      BY <1>0, <3>2 DEF Taken
  <2>3. CASE Ends(c)
    BY <1>0, <2>3 DEF Ends, Exit, Killed, Destroyed
  <2> QED
    BY <1>1, <2>1, <2>2, <2>3 DEF ClientStep
<1>2. ASSUME NEW m, NEW dst, HostSends(m, dst) PROVE sockq' = sockq
  BY <1>2 DEF HostSends
<1>3. CASE UNCHANGED vars \/ ServerHandles \/ \E x \in due : ServerSends(x)
  BY <1>3 DEF vars, clientVars, ServerHandles, ServerSends
<1>4. CASE NetworkStep
  BY <1>4 DEF NetworkStep, Carry, Lose, Duplicate, Delivers
<1> QED
  BY <1>1, <1>2, <1>3, <1>4, StepKinds

\* A client writes to its tap device what it read from its socket.
LEMMA OutChanges ==
  ASSUME Steady, [Next]_vars, NEW d \in Clients
  PROVE  \/ out'[d] = out[d]
         \/ /\ Forward(d) /\ ClientStep(d) /\ Head(evs[d]) = "udp_sock_fd"
            /\ out'[d] = Append(out[d], [frame |-> Waiting(d), at |-> address[d]])
<1>1. ASSUME NEW c \in Clients, ClientStep(c)
      PROVE  \/ out'[d] = out[d]
             \/ /\ d = c /\ Forward(c) /\ Head(evs[c]) = "udp_sock_fd"
                /\ out'[d] = Append(out[d], [frame |-> Waiting(d), at |-> address[d]])
  <2>1. CASE Forward(c)
    <3>1. Head(evs[c]) \in Descriptors
      BY <2>1, WaitingTypes DEF Forward, Read, Steady
    <3> QED
      BY <2>1, <3>1 DEF Forward, Other, Descriptors, send_data_use_udp, send_data_use_tuntap,
         Steady, Types, ClientTypes
  <2>2. CASE ~Forward(c)
    BY <1>1, <2>2 DEF ClientStep, Idle, Continue, EpollEvent, EpollTimeout, ReadFails,
       usr1_handler, EpollError, Takes, SendFails, Ends, Exit, Killed, Destroyed,
       Starts, Start, StartFails
  <2> QED
    BY <2>1, <2>2
<1>2. ASSUME NEW m, NEW dst, HostSends(m, dst) PROVE out' = out
  BY <1>2 DEF HostSends
<1>3. CASE UNCHANGED vars \/ ServerHandles \/ (\E x \in due : ServerSends(x)) \/ NetworkStep
  BY <1>3 DEF vars, clientVars, ServerHandles, ServerSends, NetworkStep, Carry, Lose,
     Duplicate, Delivers, ServerReceives
<1> QED
  BY <1>1, <1>2, <1>3, StepKinds

\* A datagram is for a client that did not send it, unless it was slow.
LEMMA BoundIsForeign ==
  ASSUME Steady, NEW x \in down, NEW c \in Bound(wire[x].to)
  PROVE  Foreign(c, FrameOf(x))
<1>1. Sender(FrameOf(x), wire[x].d.from) /\ wire[x].to # wire[x].d.from
  BY DEF Steady, Types, ServerTypes, Origins, ServerOrigins
<1> QED
  BY <1>1 DEF Bound, Sender, Foreign

\* What reaches a client, and what it writes, is foreign to it.
LEMMA ClientsStep ==
  ASSUME Steady, [Next]_vars
  PROVE  ClientOrigins'
<1>0. ClientOrigins /\ Types
  BY DEF Steady, Origins
<1>1. \A n : \A c \in Clients : Foreign(c, n) => Foreign(c, n)'
  BY PastKept
<1>2. ASSUME NEW c \in Clients
      PROVE  (\A x \in DOMAIN sockq[c] : Foreign(c, sockq[c][x]))'
  <2>0. sockq[c] \in Seq(Nat) /\ \A x \in DOMAIN sockq[c] : Foreign(c, sockq[c][x])
    BY <1>0 DEF ClientOrigins, Types, ClientTypes
  <2>1. CASE sockq'[c] = sockq[c]
    BY <1>1, <2>0, <2>1
  <2>2. CASE sockq'[c] = <<>>
    BY <2>2
  <2>3. CASE sockq[c] # <<>> /\ sockq'[c] = Tail(sockq[c])
    <3>1. \A x \in DOMAIN sockq'[c] : x + 1 \in DOMAIN sockq[c] /\ sockq'[c][x] = sockq[c][x + 1]
      BY <2>0, <2>3
    <3> QED
      BY <1>1, <2>0, <3>1
  <2>4. ASSUME NEW y \in down, c \in Bound(wire[y].to), sockq'[c] = Append(sockq[c], FrameOf(y))
        PROVE  (\A x \in DOMAIN sockq[c] : Foreign(c, sockq[c][x]))'
    <3> PICK n : n = FrameOf(y)
      OBVIOUS
    <3>1. Foreign(c, n)'
      BY <1>1, <2>4, BoundIsForeign
    <3>2. \A x \in DOMAIN sockq'[c] :
            sockq'[c][x] = n \/ (x \in DOMAIN sockq[c] /\ sockq'[c][x] = sockq[c][x])
      BY <2>0, <2>4
    <3> QED
      BY <1>1, <2>0, <3>1, <3>2
  <2> QED
    BY <2>1, <2>2, <2>3, <2>4, SockChanges
<1>3. ASSUME NEW c \in Clients
      PROVE  (\A x \in DOMAIN out[c] : Foreign(c, out[c][x].frame))'
  <2>0. \A x \in DOMAIN out[c] : Foreign(c, out[c][x].frame)
    BY <1>0 DEF ClientOrigins
  <2>1. CASE out'[c] = out[c]
    BY <1>1, <2>0, <2>1
  <2>2. ASSUME Forward(c), Head(evs[c]) = "udp_sock_fd",
               out'[c] = Append(out[c], [frame |-> Waiting(c), at |-> address[c]])
        PROVE  (\A x \in DOMAIN out[c] : Foreign(c, out[c][x].frame))'
    <3> PICK n : n = Waiting(c)
      OBVIOUS
    <3>1. sockq[c] # <<>> /\ n = Head(sockq[c]) /\ n \in Nat
      BY <2>2, WaitingTypes DEF Steady, Forward, Read, Waiting
    <3>2. 1 \in DOMAIN sockq[c] /\ n = sockq[c][1]
      BY <1>0, <3>1 DEF Types, ClientTypes
    <3>3. Foreign(c, n)
      BY <1>0, <3>2 DEF ClientOrigins
    <3> DEFINE o == [frame |-> n, at |-> address[c]]
    <3>4. o.frame = n
      OBVIOUS
    <3>5. out'[c] = Append(out[c], o) /\ o \in Written
      BY <1>0, <2>2, <3>1 DEF Types, ClientTypes, Written
    <3> HIDE DEF o
    <3>6. \A x \in DOMAIN out'[c] :
            out'[c][x] = o \/ (x \in DOMAIN out[c] /\ out'[c][x] = out[c][x])
      <4>1. out[c] \in Seq(Written)
        BY <1>0 DEF Types, ClientTypes
      <4> QED
        BY <3>5, <4>1, AppendedAt
    <3> QED
      BY <1>1, <2>0, <3>3, <3>4, <3>6
  <2> QED
    BY <2>1, <2>2, OutChanges
<1> QED
  BY <1>2, <1>3 DEF ClientOrigins

\* The first part of the invariant.
THEOREM SteadyStep == Steady /\ [Next]_vars => Steady'
<1> SUFFICES ASSUME Steady, [Next]_vars PROVE Steady'
  OBVIOUS
<1> QED
  BY TypedStep, QueuesStep, PastKept, TapStep, ServerStep, ClientsStep DEF Steady, Origins

\* The first part of the invariant holds in every reachable state.
LEMMA SteadyAlways == NetworkSpec => []Steady
BY InitSteady, SteadyStep, PTL DEF NetworkSpec

\* A client gets its own frame back only when it was started again: what it
\* reads from its socket came from another address.
THEOREM NoEcho == NetworkSpec => []EchoOnlyAfterRestart
<1>1. Steady => EchoOnlyAfterRestart
  <2> SUFFICES ASSUME Steady, NEW c \in Clients, NEW x \in Range(out[c]),
                      ClientOf[frames[x.frame].src] = c
               PROVE  frames[x.frame].life < lives[c]
    BY DEF EchoOnlyAfterRestart
  <2>1. Foreign(c, x.frame)
    BY DEF Range, Steady, Origins, ClientOrigins
  <2>2. frames[x.frame].life # lives[c] /\ frames[x.frame].life <= lives[c]
    BY <2>1 DEF Foreign, Own, Current, Steady, Origins, LivesPassed
  <2>3. frames[x.frame].life \in Nat /\ lives[c] \in Nat
    BY <2>1, FrameSent DEF Foreign, Steady, Types, ClientTypes
  <2> QED
    BY <2>2, <2>3
<1> QED
  BY <1>1, SteadyAlways, PTL

-----------------------------------------------------------------------------
(* Counting: how often a frame is somewhere on its way.                    *)

Times(q, v) == Cardinality({x \in DOMAIN q : q[x] = v})

\* A sequence holds a value so and so often.
LEMMA TimesNat ==
  ASSUME NEW S, NEW q \in Seq(S), NEW v
  PROVE  /\ IsFiniteSet({x \in DOMAIN q : q[x] = v})
         /\ Times(q, v) \in Nat
<1>1. IsFiniteSet(1 .. Len(q))
  BY FS_Interval
<1>2. IsFiniteSet({x \in DOMAIN q : q[x] = v})
  BY <1>1, FS_Subset
<1> QED
  BY <1>2, FS_CardinalityType DEF Times

\* A value that is not there is there zero times.
LEMMA TimesNone ==
  ASSUME NEW q, NEW v, \A x \in DOMAIN q : q[x] # v
  PROVE  Times(q, v) = 0
<1>1. {x \in DOMAIN q : q[x] = v} = {}
  OBVIOUS
<1> QED
  BY <1>1, FS_EmptySet DEF Times

\* Appending a value adds one occurrence of it.
LEMMA TimesAppend ==
  ASSUME NEW S, NEW q \in Seq(S), NEW e \in S, NEW v
  PROVE  Times(Append(q, e), v) = Times(q, v) + (IF e = v THEN 1 ELSE 0)
<1> DEFINE P == {x \in DOMAIN q : q[x] = v}
           A == {x \in DOMAIN Append(q, e) : Append(q, e)[x] = v}
<1>1. IsFiniteSet(P) /\ Cardinality(P) \in Nat
  BY TimesNat DEF Times
<1>2. Len(q) + 1 \notin P
  OBVIOUS
<1>3. A = IF e = v THEN P \cup {Len(q) + 1} ELSE P
  <2>1. DOMAIN Append(q, e) = DOMAIN q \cup {Len(q) + 1} /\ Append(q, e)[Len(q) + 1] = e
        /\ \A x \in DOMAIN q : Append(q, e)[x] = q[x]
    OBVIOUS
  <2> QED
    BY <2>1
<1> HIDE DEF P, A
<1>4. Cardinality(A) = Cardinality(P) + (IF e = v THEN 1 ELSE 0)
  <2>1. CASE e = v
    <3>1. A = P \cup {Len(q) + 1}
      BY <1>3, <2>1
    <3>2. Cardinality(P \cup {Len(q) + 1}) = Cardinality(P) + 1
      BY <1>1, <1>2, FS_AddElement
    <3> QED
      BY <2>1, <3>1, <3>2
  <2>2. CASE e # v
    BY <1>1, <1>3, <2>2
  <2> QED
    BY <2>1, <2>2
<1> QED
  BY <1>4 DEF Times, A, P

\* Taking the head removes one occurrence of it.
LEMMA TimesTail ==
  ASSUME NEW S, NEW q \in Seq(S), q # <<>>, NEW v
  PROVE  Times(q, v) = Times(Tail(q), v) + (IF Head(q) = v THEN 1 ELSE 0)
<1> DEFINE P == {x \in DOMAIN q : q[x] = v}
           P1 == P \ {1}
           T == {x \in DOMAIN Tail(q) : Tail(q)[x] = v}
           f == [x \in T |-> x + 1]
<1>1. IsFiniteSet(P) /\ IsFiniteSet(T) /\ Cardinality(T) \in Nat
  <2>1. Tail(q) \in Seq(S)
    OBVIOUS
  <2> QED
    BY <2>1, TimesNat DEF Times
<1>2. \A x \in Nat : x \in T <=> x + 1 \in P1
  OBVIOUS
<1>3. T \subseteq Nat /\ \A x \in P1 : x - 1 \in Nat /\ (x - 1) + 1 = x
  OBVIOUS
<1>4. 1 \in P <=> Head(q) = v
  OBVIOUS
<1> HIDE DEF P, T
<1>5. f \in Bijection(T, P1)
  <2>1. f \in [T -> P1]
    BY <1>2, <1>3
  <2>2. \A x, y \in T : f[x] = f[y] => x = y
    BY <1>3
  <2>3. \A y \in P1 : \E x \in T : f[x] = y
    <3> TAKE y \in P1
    <3>1. y - 1 \in T
      BY <1>2, <1>3
    <3> QED
      BY <1>3, <3>1
  <2> HIDE DEF f
  <2> QED
    BY <2>1, <2>2, <2>3 DEF Bijection, Injection, Surjection, IsInjective
<1>6. Cardinality(P1) = Cardinality(T)
  BY <1>1, <1>5, FS_Bijection DEF ExistsBijection
<1>7. Cardinality(P) = Cardinality(T) + (IF 1 \in P THEN 1 ELSE 0)
  <2>1. Cardinality(P) \in Nat
    BY <1>1, FS_CardinalityType
  <2>2. Cardinality(P \ {1}) = IF 1 \in P THEN Cardinality(P) - 1 ELSE Cardinality(P)
    BY <1>1, FS_RemoveElement
  <2> QED
    BY <1>1, <1>6, <2>1, <2>2
<1> QED
  BY <1>4, <1>7 DEF Times, P, T

\* A set that grows by one element at most.
LEMMA SetGrows ==
  ASSUME NEW S, IsFiniteSet(S), NEW y, NEW T, T \subseteq S \cup {y}
  PROVE  /\ IsFiniteSet(T) /\ Cardinality(T) \in Nat /\ Cardinality(S) \in Nat
         /\ Cardinality(T) <= Cardinality(S) + 1
<1>0. Cardinality(S) \in Nat
  BY FS_CardinalityType
<1>1. IsFiniteSet(S \cup {y}) /\ Cardinality(S \cup {y}) <= Cardinality(S) + 1
  <2>1. /\ IsFiniteSet(S \cup {y})
        /\ Cardinality(S \cup {y}) = IF y \in S THEN Cardinality(S) ELSE Cardinality(S) + 1
    BY FS_AddElement
  <2> QED
    BY <1>0, <2>1
<1>2. IsFiniteSet(T) /\ Cardinality(T) <= Cardinality(S \cup {y})
  BY <1>1, FS_Subset
<1> QED
  BY <1>1, <1>2, FS_CardinalityType

\* A set that shrinks, by an element or more if it loses one.
LEMMA SetShrinks ==
  ASSUME NEW S, IsFiniteSet(S), NEW T, T \subseteq S
  PROVE  /\ IsFiniteSet(T) /\ Cardinality(T) \in Nat /\ Cardinality(S) \in Nat
         /\ Cardinality(T) <= Cardinality(S)
         /\ \A y \in S : y \notin T => Cardinality(T) <= Cardinality(S) - 1
<1>1. IsFiniteSet(T) /\ Cardinality(T) <= Cardinality(S)
      /\ (Cardinality(S) = Cardinality(T) => S = T)
  BY FS_Subset
<1>2. Cardinality(S) \in Nat /\ Cardinality(T) \in Nat
  BY <1>1, FS_CardinalityType
<1> QED
  BY <1>1, <1>2

-----------------------------------------------------------------------------
(* A frame n for the host of client c under address a, place by place.     *)

InUp(n) == {p \in up : p.frame = n}
InRx(n) == {d \in rx : d.n[1] = n}
InDue(n, a) == {y \in due : y.d.n[1] = n /\ y.to = a}
InDown(n, a) == {x \in down : FrameOf(x) = n /\ wire[x].to = a}

OnTap(n) == Times(tapq[Own(n)], n)
OnUp(n) == Cardinality(InUp(n))
OnRx(n) == Cardinality(InRx(n))
OnDue(n, a) == Cardinality(InDue(n, a))
OnDown(n, a) == Cardinality(InDown(n, a))
OnSock(c, n, a) == IF address[c] = a THEN Times(sockq[c], n) ELSE 0
OnOut(c, n, a) == Times(out[c], [frame |-> n, at |-> a])
Doubled(n) == Times(duplicated, n)

Tokens(c, n, a) ==
  OnTap(n) + OnUp(n) + OnRx(n) + OnDue(n, a) + OnDown(n, a) + OnSock(c, n, a) + OnOut(c, n, a)

Finite ==
  /\ IsFiniteSet(up) /\ IsFiniteSet(rx)
  /\ \A n, a : IsFiniteSet(InDue(n, a))

\* However it travels, a frame is in one place, once more for each time the
\* network doubled it.
Fits(c, n, a) == Tokens(c, n, a) <= 1 + Doubled(n)

OneToken == \A c \in Clients, n \in DOMAIN frames, a \in Addrs : Fits(c, n, a)

\* Finitely many datagrams are on their way to clients.
LEMMA DownFinite ==
  ASSUME Types
  PROVE  IsFiniteSet(down)
<1>1. IsFiniteSet(DOMAIN wire)
  BY FS_Interval DEF Types, ServerTypes
<1> QED
  BY <1>1, FS_Subset DEF Types, ServerTypes

\* The counts are numbers.
LEMMA Amounts ==
  ASSUME Types, Finite, NEW c \in Clients, NEW n, NEW a
  PROVE  /\ n \in DOMAIN frames => OnTap(n) \in Nat
         /\ OnUp(n) \in Nat /\ OnRx(n) \in Nat /\ OnDue(n, a) \in Nat /\ OnDown(n, a) \in Nat
         /\ OnSock(c, n, a) \in Nat /\ OnOut(c, n, a) \in Nat /\ Doubled(n) \in Nat
         /\ IsFiniteSet(InUp(n)) /\ IsFiniteSet(InRx(n)) /\ IsFiniteSet(InDue(n, a))
         /\ IsFiniteSet(InDown(n, a))
<1>1. IsFiniteSet(InUp(n)) /\ IsFiniteSet(InRx(n)) /\ IsFiniteSet(InDue(n, a))
  BY FS_Subset DEF Finite, InUp, InRx
<1>2. IsFiniteSet(InDown(n, a))
  BY DownFinite, FS_Subset DEF InDown
<1>3. OnUp(n) \in Nat /\ OnRx(n) \in Nat /\ OnDue(n, a) \in Nat /\ OnDown(n, a) \in Nat
  BY <1>1, <1>2, FS_CardinalityType DEF OnUp, OnRx, OnDue, OnDown
<1>4. \A d \in Clients : tapq[d] \in Seq(Nat) /\ sockq[d] \in Seq(Nat)
                       /\ out[d] \in Seq(Written)
  BY DEF Types, ClientTypes
<1>5. OnSock(c, n, a) \in Nat
  BY <1>4, TimesNat DEF OnSock
<1>6. OnOut(c, n, a) \in Nat
  BY <1>4, TimesNat DEF OnOut
<1>7. Doubled(n) \in Nat
  BY TimesNat DEF Doubled, Types
<1>8. n \in DOMAIN frames => OnTap(n) \in Nat
  BY <1>4, TimesNat, FrameSent DEF OnTap
<1> QED
  BY <1>1, <1>2, <1>3, <1>5, <1>6, <1>7, <1>8

\* Nothing is anywhere before it is sent.
LEMMA Unsent ==
  ASSUME Steady, NEW c \in Clients, NEW n, n \notin DOMAIN frames, NEW a
  PROVE  /\ Times(tapq[c], n) = 0 /\ OnSock(c, n, a) = 0 /\ OnOut(c, n, a) = 0
         /\ InUp(n) = {} /\ InRx(n) = {} /\ InDue(n, a) = {} /\ InDown(n, a) = {}
<1>1. Times(tapq[c], n) = 0
  BY TimesNone DEF Steady, Origins, TapOrigins, TapOf, Fresh
<1>2. Times(sockq[c], n) = 0
  BY TimesNone DEF Steady, Origins, ClientOrigins, Foreign
<1>3. \A x \in DOMAIN out[c] : out[c][x] # [frame |-> n, at |-> a]
  BY DEF Steady, Origins, ClientOrigins, Foreign
<1>4. OnOut(c, n, a) = 0
  BY <1>3, TimesNone DEF OnOut
<1>5. InUp(n) = {} /\ InRx(n) = {} /\ InDue(n, a) = {}
  BY DEF InUp, InRx, InDue, Steady, Origins, ServerOrigins, Sender
<1>6. InDown(n, a) = {}
  BY DEF InDown, Steady, Types, ServerTypes, Origins, ServerOrigins, Sender
<1> QED
  BY <1>1, <1>2, <1>4, <1>5, <1>6 DEF OnSock

\* Every step adds finitely many.
LEMMA FiniteStep ==
  ASSUME Steady, Finite, [Next]_vars
  PROVE  Finite'
<1>1. IsFiniteSet(up')
  <2>1. \/ up' \subseteq up
        \/ \E u : up' = up \cup {u}
    BY UpGrows
  <2> QED
    BY <2>1, FS_Subset, FS_AddElement DEF Finite
<1>2. IsFiniteSet(rx')
  <2>1. \A p : IsFiniteSet({p})
    BY FS_Singleton
  <2> QED
    BY <2>1, RxChanges, FS_Subset DEF Finite
<1>3. ASSUME NEW n, NEW a PROVE IsFiniteSet(InDue(n, a)')
  <2>0. IsFiniteSet(InDue(n, a))
    BY DEF Finite
  <2>1. CASE due' \subseteq due
    <3>1. InDue(n, a)' \subseteq InDue(n, a)
      BY <2>1 DEF InDue
    <3> QED
      BY <2>0, <3>1, FS_Subset
  <2>2. ASSUME NEW d \in rx, Server!Route(d) PROVE IsFiniteSet(InDue(n, a)')
    <3>1. InDue(n, a)' \subseteq InDue(n, a) \cup {[d |-> d, to |-> a]}
      BY <2>2 DEF InDue, Server!Route
    <3> QED
      BY <2>0, <3>1, SetGrows
  <2>3. ASSUME NEW x \in due, ServerSends(x) PROVE due' \subseteq due
    BY <2>3 DEF ServerSends, Server!Transmit
  <2> QED
    BY <2>1, <2>2, <2>3, DueAndWire
<1> QED
  BY <1>1, <1>2, <1>3 DEF Finite

\* A client moves a frame from its tap device to the network, or from its
\* socket to its tap device, or loses it.
LEMMA ClientTokens ==
  ASSUME Steady, Finite, NEW c \in Clients, NEW n \in DOMAIN frames, NEW a \in Addrs,
         Fits(c, n, a), NEW d \in Clients, ClientStep(d)
  PROVE  Fits(c, n, a)'
<1>0. /\ OnTap(n) \in Nat /\ OnUp(n) \in Nat /\ OnRx(n) \in Nat /\ OnDue(n, a) \in Nat
      /\ OnDown(n, a) \in Nat /\ OnSock(c, n, a) \in Nat /\ OnOut(c, n, a) \in Nat
      /\ Doubled(n) \in Nat /\ IsFiniteSet(InUp(n))
  BY Amounts DEF Steady
<1>00. /\ tapq \in [Clients -> Seq(Nat)] /\ sockq \in [Clients -> Seq(Nat)]
       /\ out \in [Clients -> Seq(Written)] /\ address \in [Clients -> Addrs]
       /\ Own(n) \in Clients /\ n \in Nat
  BY FrameSent DEF Steady, Types, ClientTypes
<1>1. /\ OnRx(n)' = OnRx(n) /\ OnDue(n, a)' = OnDue(n, a) /\ OnDown(n, a)' = OnDown(n, a)
      /\ Doubled(n)' = Doubled(n) /\ Own(n)' = Own(n)
  BY DEF ClientStep, Rest, server, OnRx, InRx, OnDue, InDue, OnDown, InDown, FrameOf, Doubled, Own
<1> SUFFICES OnTap(n)' + OnUp(n)' + OnSock(c, n, a)' + OnOut(c, n, a)'
               <= OnTap(n) + OnUp(n) + OnSock(c, n, a) + OnOut(c, n, a)
             /\ OnTap(n)' \in Nat /\ OnUp(n)' \in Nat /\ OnSock(c, n, a)' \in Nat
             /\ OnOut(c, n, a)' \in Nat
  BY <1>0, <1>1 DEF Fits, Tokens
<1>2. UNCHANGED tapq => OnTap(n)' = OnTap(n)
  BY <1>1 DEF OnTap
<1>3. UNCHANGED up => OnUp(n)' = OnUp(n)
  BY DEF OnUp, InUp
<1>4. UNCHANGED <<sockq, address>> => OnSock(c, n, a)' = OnSock(c, n, a)
  BY DEF OnSock
<1>5. UNCHANGED out => OnOut(c, n, a)' = OnOut(c, n, a)
  BY DEF OnOut
<1>6. CASE Idle(d)
  <2>1. UNCHANGED <<tapq, sockq, address, up, out>>
    BY <1>6 DEF Idle, Continue, EpollEvent, EpollTimeout, ReadFails, usr1_handler,
       EpollError, process
  <2> QED
    BY <1>0, <1>2, <1>3, <1>4, <1>5, <2>1
<1>7. CASE Takes(d)
  <2> PICK w : w = Waiting(d)
    OBVIOUS
  <2>1. pc[d] = "event" /\ UNCHANGED address
    BY <1>7 DEF Takes, Forward, SendFails, Read, process
  <2>2. CASE Head(evs[d]) = "tuntap_fd"
    <3>1. tapq[d] # <<>> /\ w = Head(tapq[d])
      BY <2>1, <2>2, WaitingTypes DEF Waiting, Steady
    <3>2. tapq' = [tapq EXCEPT ![d] = Tail(tapq[d])] /\ UNCHANGED <<sockq, out>>
          /\ up' \subseteq up \cup {[frame |-> w, from |-> address[d]]}
      BY <1>7, <2>2 DEF Takes, Forward, SendFails, Read, Taken, Other,
         send_data_use_udp, send_data_use_tuntap
    <3>3. Fresh(d, w)
      <4>1. 1 \in DOMAIN tapq[d] /\ w = tapq[d][1]
        BY <1>00, <3>1
      <4> QED
        BY <4>1 DEF Steady, Origins, TapOrigins, TapOf
    <3>4. OnTap(n) = OnTap(n)' + (IF w = n THEN 1 ELSE 0) /\ OnTap(n)' \in Nat
      <4>1. CASE Own(n) = d
        <5>1. tapq'[d] = Tail(tapq[d]) /\ Tail(tapq[d]) \in Seq(Nat)
          BY <1>00, <3>1, <3>2
        <5>2. Times(tapq[d], n) = Times(Tail(tapq[d]), n) + (IF w = n THEN 1 ELSE 0)
              /\ Times(Tail(tapq[d]), n) \in Nat
          BY <1>00, <3>1, <5>1, TimesTail, TimesNat
        <5> QED
          BY <1>1, <4>1, <5>1, <5>2 DEF OnTap
      <4>2. CASE Own(n) # d
        <5>1. tapq'[Own(n)] = tapq[Own(n)] /\ w # n
          BY <1>00, <3>2, <3>3, <4>2 DEF Fresh
        <5> QED
          BY <1>0, <1>1, <5>1 DEF OnTap
      <4> QED
        BY <4>1, <4>2
    <3>5. OnUp(n)' <= OnUp(n) + (IF w = n THEN 1 ELSE 0) /\ OnUp(n)' \in Nat
      <4>1. CASE w = n
        <5>1. InUp(n)' \subseteq InUp(n) \cup {[frame |-> w, from |-> address[d]]}
          BY <3>2 DEF InUp
        <5> QED
          BY <1>0, <4>1, <5>1, SetGrows DEF OnUp
      <4>2. CASE w # n
        <5>1. InUp(n)' \subseteq InUp(n)
          BY <3>2, <4>2 DEF InUp
        <5> QED
          BY <1>0, <4>2, <5>1, SetShrinks DEF OnUp
      <4> QED
        BY <4>1, <4>2
    <3>6. OnSock(c, n, a)' = OnSock(c, n, a) /\ OnOut(c, n, a)' = OnOut(c, n, a)
      BY <1>4, <1>5, <2>1, <3>2
    <3> QED
      BY <1>0, <3>4, <3>5, <3>6
  <2>3. CASE Head(evs[d]) = "udp_sock_fd"
    <3>1. sockq[d] # <<>> /\ w = Head(sockq[d]) /\ w \in Nat
      BY <2>1, <2>3, WaitingTypes DEF Waiting, Steady
    <3> DEFINE o == [frame |-> w, at |-> address[d]]
    <3>2. sockq' = [sockq EXCEPT ![d] = Tail(sockq[d])] /\ UNCHANGED <<tapq, up>>
          /\ (out' = out \/ out' = [out EXCEPT ![d] = Append(out[d], o)])
      BY <1>7, <2>3 DEF Takes, Forward, SendFails, Read, Taken, Other,
         send_data_use_udp, send_data_use_tuntap
    <3>3. o \in Written /\ (o = [frame |-> n, at |-> a] <=> w = n /\ address[d] = a)
      BY <1>00, <3>1 DEF Written
    <3> HIDE DEF o
    <3>4. CASE d # c
      <4>1. sockq'[c] = sockq[c] /\ out'[c] = out[c]
        BY <1>00, <3>2, <3>4
      <4>2. OnSock(c, n, a)' = OnSock(c, n, a) /\ OnOut(c, n, a)' = OnOut(c, n, a)
        BY <2>1, <4>1 DEF OnSock, OnOut
      <4> QED
        BY <1>0, <1>2, <1>3, <3>2, <4>2
    <3>5. CASE d = c
      <4>1. /\ sockq'[c] = Tail(sockq[c]) /\ sockq[c] \in Seq(Nat) /\ Tail(sockq[c]) \in Seq(Nat)
            /\ out'[c] = out[c] \/ out'[c] = Append(out[c], o)
            /\ out[c] \in Seq(Written)
        BY <1>00, <3>1, <3>2, <3>5
      <4>2. Times(sockq[c], n) = Times(sockq'[c], n) + (IF w = n THEN 1 ELSE 0)
            /\ Times(sockq'[c], n) \in Nat
        BY <3>1, <3>5, <4>1, TimesTail, TimesNat
      <4>3. OnSock(c, n, a) = OnSock(c, n, a)' + (IF w = n /\ address[c] = a THEN 1 ELSE 0)
            /\ OnSock(c, n, a)' \in Nat
        BY <2>1, <4>2 DEF OnSock
      <4>4. OnOut(c, n, a)' <= OnOut(c, n, a) + (IF w = n /\ address[c] = a THEN 1 ELSE 0)
            /\ OnOut(c, n, a)' \in Nat
        <5>1. Times(Append(out[c], o), [frame |-> n, at |-> a])
                = OnOut(c, n, a) + (IF w = n /\ address[c] = a THEN 1 ELSE 0)
          <6>1. Times(Append(out[c], o), [frame |-> n, at |-> a])
                  = Times(out[c], [frame |-> n, at |-> a])
                    + (IF o = [frame |-> n, at |-> a] THEN 1 ELSE 0)
            BY <3>3, <4>1, TimesAppend
          <6> QED
            BY <3>3, <3>5, <6>1 DEF OnOut
        <5>2. OnOut(c, n, a)' = OnOut(c, n, a)
              \/ OnOut(c, n, a)' = Times(Append(out[c], o), [frame |-> n, at |-> a])
          BY <4>1 DEF OnOut
        <5> HIDE DEF o
        <5> QED
          BY <1>0, <5>1, <5>2
      <4> QED
        BY <1>0, <1>2, <1>3, <3>2, <4>3, <4>4
    <3> QED
      BY <3>4, <3>5
  <2> QED
    BY <1>7, <2>2, <2>3 DEF Takes, Forward, SendFails, Read
<1>8. CASE Ends(d)
  <2>1. /\ UNCHANGED <<up, out, address>>
        /\ tapq' = [tapq EXCEPT ![d] = <<>>] /\ sockq' = [sockq EXCEPT ![d] = <<>>]
    BY <1>8 DEF Ends, Exit, Killed, Destroyed, process
  <2>2. Times(<<>>, n) = 0
    BY TimesNone
  <2>3. OnTap(n)' = OnTap(n) \/ OnTap(n)' = 0
    BY <1>00, <1>1, <2>1, <2>2 DEF OnTap
  <2>4. OnSock(c, n, a)' = OnSock(c, n, a) \/ OnSock(c, n, a)' = 0
    BY <1>00, <2>1, <2>2 DEF OnSock
  <2> QED
    BY <1>0, <1>3, <1>5, <2>1, <2>3, <2>4
<1>9. CASE Starts(d)
  <2>1. /\ UNCHANGED <<up, out, tapq, sockq>> /\ pc[d] = "down"
        /\ \A e \in Clients \ {d} : address'[e] = address[e]
    BY <1>00, <1>9 DEF Starts, Start, StartFails
  <2>2. sockq[d] = <<>>
    BY <2>1 DEF Steady, Queues, QueuesOf
  <2>3. OnSock(c, n, a)' = OnSock(c, n, a)
    <3>1. CASE c = d
      BY <2>1, <2>2, <3>1, TimesNone DEF OnSock
    <3>2. CASE c # d
      BY <2>1, <3>2 DEF OnSock
    <3> QED
      BY <3>1, <3>2
  <2> QED
    BY <1>0, <1>2, <1>3, <1>5, <2>1, <2>3
<1> QED
  BY <1>6, <1>7, <1>8, <1>9 DEF ClientStep

\* A host adds a frame that is nowhere yet.
LEMMA HostTokens ==
  ASSUME Steady, Finite, OneToken, NEW m \in Macs, NEW dst \in Destinations(m), HostSends(m, dst),
         NEW c \in Clients, NEW n \in DOMAIN frames', NEW a \in Addrs
  PROVE  Fits(c, n, a)'
<1> PICK d : d = ClientOf[m]
  OBVIOUS
<1> PICK f : f = [src |-> m, dst |-> dst, life |-> lives[d]]
  OBVIOUS
<1> PICK k : k = Len(frames) + 1
  OBVIOUS
<1>1. d \in Clients /\ f.src = m /\ f \in Sent
  BY BridgeNetworkAssumption DEF Sent, Destinations, Steady, Types, ClientTypes
<1>2. /\ frames' = Append(frames, f) /\ frames \in Seq(Sent)
      /\ UNCHANGED <<sockq, address, up, out, rx, due, wire, down, duplicated>>
      /\ tapq' = [tapq EXCEPT ![d] = Append(@, Len(frames'))]
  BY DEF HostSends, process, server, Steady, Types
<1>3. k \in Nat /\ k \notin DOMAIN frames /\ Len(frames') = k /\ frames'[k] = f
      /\ DOMAIN frames' = DOMAIN frames \cup {k}
      /\ \A i \in DOMAIN frames : frames'[i] = frames[i]
  BY <1>1, <1>2
<1>4. tapq \in [Clients -> Seq(Nat)] /\ tapq'[d] = Append(tapq[d], k)
      /\ \A e \in Clients \ {d} : tapq'[e] = tapq[e]
  BY <1>1, <1>2, <1>3 DEF Steady, Types, ClientTypes
<1>5. /\ OnUp(n)' = OnUp(n) /\ OnRx(n)' = OnRx(n) /\ OnDue(n, a)' = OnDue(n, a)
      /\ OnDown(n, a)' = OnDown(n, a) /\ OnSock(c, n, a)' = OnSock(c, n, a)
      /\ OnOut(c, n, a)' = OnOut(c, n, a) /\ Doubled(n)' = Doubled(n)
  BY <1>2 DEF OnUp, InUp, OnRx, InRx, OnDue, InDue, OnDown, InDown, FrameOf, OnSock, OnOut, Doubled
<1>6. tapq[d] \in Seq(Nat)
      /\ Times(tapq'[d], n) = Times(tapq[d], n) + (IF k = n THEN 1 ELSE 0)
  BY <1>1, <1>3, <1>4, TimesAppend
<1>7. CASE n \in DOMAIN frames
  <2>1. Own(n)' = Own(n) /\ n # k
    BY <1>3, <1>7 DEF Own
  <2>2. OnTap(n) \in Nat /\ Own(n) \in Clients
    BY <1>7, Amounts, FrameSent DEF Steady
  <2>3. Times(tapq[d], n) \in Nat
    BY <1>6, TimesNat
  <2>4. OnTap(n)' = OnTap(n)
    <3>1. CASE Own(n) = d
      BY <1>6, <2>1, <2>3, <3>1 DEF OnTap
    <3>2. CASE Own(n) # d
      BY <1>4, <2>1, <2>2, <3>2 DEF OnTap
    <3> QED
      BY <3>1, <3>2
  <2> QED
    BY <1>5, <1>7, <2>4 DEF OneToken, Fits, Tokens
<1>8. CASE n \notin DOMAIN frames
  <2>1. n = k /\ Own(n)' = d
    BY <1>1, <1>3, <1>8 DEF Own
  <2>2. /\ Times(tapq[d], n) = 0 /\ OnSock(c, n, a) = 0 /\ OnOut(c, n, a) = 0
        /\ InUp(n) = {} /\ InRx(n) = {} /\ InDue(n, a) = {} /\ InDown(n, a) = {}
    BY <1>1, <1>8, Unsent
  <2>3. OnUp(n) = 0 /\ OnRx(n) = 0 /\ OnDue(n, a) = 0 /\ OnDown(n, a) = 0
    BY <2>2, FS_EmptySet DEF OnUp, OnRx, OnDue, OnDown
  <2>4. OnTap(n)' = 1
    BY <1>6, <2>1, <2>2 DEF OnTap
  <2>5. Doubled(n) \in Nat
    BY Amounts DEF Steady
  <2> QED
    BY <1>5, <2>2, <2>3, <2>4, <2>5 DEF Fits, Tokens
<1> QED
  BY <1>7, <1>8

\* Route makes at most one copy of a frame for an address and gives the frame
\* up; ServerSends moves the copy to the wire.
LEMMA ServerTokens ==
  ASSUME Steady, Finite, NEW c \in Clients, NEW n \in DOMAIN frames, NEW a \in Addrs,
         Fits(c, n, a), ServerHandles \/ \E x \in due : ServerSends(x)
  PROVE  Fits(c, n, a)'
<1>0. /\ OnTap(n) \in Nat /\ OnUp(n) \in Nat /\ OnRx(n) \in Nat /\ OnDue(n, a) \in Nat
      /\ OnDown(n, a) \in Nat /\ OnSock(c, n, a) \in Nat /\ OnOut(c, n, a) \in Nat
      /\ Doubled(n) \in Nat /\ IsFiniteSet(InRx(n)) /\ IsFiniteSet(InDue(n, a))
      /\ IsFiniteSet(InDown(n, a))
  BY Amounts DEF Steady
<1>1. UNCHANGED <<tapq, sockq, address, up, out, frames, duplicated>>
  BY DEF ServerHandles, ServerSends, clientVars
<1>2. /\ OnTap(n)' = OnTap(n) /\ OnUp(n)' = OnUp(n) /\ OnSock(c, n, a)' = OnSock(c, n, a)
      /\ OnOut(c, n, a)' = OnOut(c, n, a) /\ Doubled(n)' = Doubled(n)
  BY <1>1 DEF OnTap, Own, OnUp, InUp, OnSock, OnOut, Doubled
<1>3. CASE ServerHandles
  <2>0. OnDown(n, a)' = OnDown(n, a)
    BY <1>3 DEF ServerHandles, Server!Learn, Server!Enrol, Server!Route, OnDown, InDown, FrameOf
  <2>1. CASE UNCHANGED <<rx, due>>
    BY <1>2, <2>0, <2>1 DEF Fits, Tokens, OnRx, InRx, OnDue, InDue
  <2>2. ASSUME NEW d \in rx, Server!Route(d), rx' = {} PROVE Fits(c, n, a)'
    <3>1. OnRx(n)' = 0
      BY <2>2, FS_EmptySet DEF OnRx, InRx
    <3>2. CASE d.n[1] = n
      <4>1. InDue(n, a)' \subseteq InDue(n, a) \cup {[d |-> d, to |-> a]}
        BY <2>2 DEF InDue, Server!Route
      <4>2. OnDue(n, a)' \in Nat /\ OnDue(n, a)' <= OnDue(n, a) + 1
        BY <1>0, <4>1, SetGrows DEF OnDue
      <4>3. OnRx(n) >= 1
        <5>1. d \in InRx(n)
          BY <3>2 DEF InRx
        <5> QED
          BY <1>0, <5>1, FS_EmptySet DEF OnRx
      <4> QED
        BY <1>0, <1>2, <2>0, <3>1, <4>2, <4>3 DEF Fits, Tokens
    <3>3. CASE d.n[1] # n
      <4>1. InDue(n, a)' = InDue(n, a)
        BY <2>2, <3>3 DEF InDue, Server!Route
      <4> QED
        BY <1>0, <1>2, <2>0, <3>1, <4>1 DEF Fits, Tokens, OnDue
    <3> QED
      BY <3>2, <3>3
  <2> QED
    BY <1>3, <2>1, <2>2 DEF ServerHandles, Server!Learn, Server!Enrol
<1>4. ASSUME NEW x \in due, ServerSends(x) PROVE Fits(c, n, a)'
  <2>1. /\ wire' = Append(wire, x) /\ due' = due \ {x} /\ down' = down \cup {Len(wire')}
        /\ UNCHANGED rx /\ wire \in Seq(Copies) /\ x \in Copies /\ down \subseteq DOMAIN wire
    BY <1>4 DEF ServerSends, Server!Transmit, Steady, Types, ServerTypes
  <2>2. Len(wire') \notin down /\ wire'[Len(wire')] = x /\ \A y \in down : wire'[y] = wire[y]
    BY <2>1
  <2>3. OnRx(n)' = OnRx(n)
    BY <2>1 DEF OnRx, InRx
  <2>4. CASE x.d.n[1] = n /\ x.to = a
    <3>1. InDown(n, a)' \subseteq InDown(n, a) \cup {Len(wire')}
      BY <2>1, <2>2 DEF InDown, FrameOf
    <3>2. OnDown(n, a)' \in Nat /\ OnDown(n, a)' <= OnDown(n, a) + 1
      BY <1>0, <3>1, SetGrows DEF OnDown
    <3>3. x \in InDue(n, a) /\ x \notin InDue(n, a)' /\ InDue(n, a)' \subseteq InDue(n, a)
      BY <2>1, <2>4 DEF InDue
    <3>4. OnDue(n, a)' \in Nat /\ OnDue(n, a)' <= OnDue(n, a) - 1
      BY <1>0, <3>3, SetShrinks DEF OnDue
    <3> QED
      BY <1>0, <1>2, <2>3, <3>2, <3>4 DEF Fits, Tokens
  <2>5. CASE ~(x.d.n[1] = n /\ x.to = a)
    <3>1. InDown(n, a)' = InDown(n, a) /\ InDue(n, a)' = InDue(n, a)
      BY <2>1, <2>2, <2>5 DEF InDown, FrameOf, InDue
    <3> QED
      BY <1>0, <1>2, <2>3, <3>1 DEF Fits, Tokens, OnDown, OnDue
  <2> QED
    BY <2>4, <2>5
<1> QED
  BY <1>3, <1>4

\* A datagram that arrives adds itself to one socket at most.
LEMMA DeliversTokens ==
  ASSUME Steady, Finite, NEW c \in Clients, NEW n, NEW a, NEW x \in down, Delivers(x)
  PROVE  /\ OnSock(c, n, a)' \in Nat
         /\ OnSock(c, n, a)' <= OnSock(c, n, a)
                                  + (IF FrameOf(x) = n /\ wire[x].to = a THEN 1 ELSE 0)
<1>0. OnSock(c, n, a) \in Nat
  BY Amounts DEF Steady
<1>1. sockq[c] \in Seq(Nat) /\ address' = address
  BY DEF Steady, Types, ClientTypes, Delivers, process
<1>2. FrameOf(x) \in Nat
  <2>1. wire[x] \in Copies
    BY Element DEF Steady, Types, ServerTypes
  <2> QED
    BY <2>1 DEF FrameOf, Copies, Datagrams
<1>3. CASE c \in Bound(wire[x].to)
  <2>1. address[c] = wire[x].to /\ sockq'[c] = Append(sockq[c], FrameOf(x))
    BY <1>3 DEF Bound, Delivers
  <2>2. Times(sockq'[c], n) = Times(sockq[c], n) + (IF FrameOf(x) = n THEN 1 ELSE 0)
        /\ Times(sockq[c], n) \in Nat
    <3>1. Times(Append(sockq[c], FrameOf(x)), n)
            = Times(sockq[c], n) + (IF FrameOf(x) = n THEN 1 ELSE 0)
      BY <1>1, <1>2, TimesAppend
    <3>2. Times(sockq[c], n) \in Nat
      BY <1>1, TimesNat
    <3> QED
      BY <2>1, <3>1, <3>2
  <2> QED
    BY <1>1, <2>1, <2>2 DEF OnSock
<1>4. CASE c \notin Bound(wire[x].to)
  <2>1. sockq'[c] = sockq[c]
    BY <1>4 DEF Delivers
  <2>2. OnSock(c, n, a)' = OnSock(c, n, a)
    BY <1>1, <2>1 DEF OnSock
  <2> QED
    BY <1>0, <2>2
<1> QED
  BY <1>3, <1>4

\* The server handles one datagram at a time.
LEMMA ReceivesTokens ==
  ASSUME Steady, Finite, NEW p \in up, NEW n, rx = {}, rx' = {Received(p)}
  PROVE  OnRx(n) = 0 /\ OnRx(n)' = IF p.frame = n THEN 1 ELSE 0
<1> PICK r : r = Received(p)
  OBVIOUS
<1>1. r.n[1] = p.frame
  BY ReceivedTyped DEF Steady, Origins, ServerOrigins, Sender
<1>2. InRx(n) = {} /\ InRx(n)' = IF p.frame = n THEN {r} ELSE {}
  BY <1>1 DEF InRx
<1>3. Cardinality({}) = 0 /\ Cardinality({r}) = 1
  BY FS_EmptySet, FS_Singleton
<1> QED
  BY <1>2, <1>3 DEF OnRx

\* The network moves a datagram, loses it, or doubles it and says so.
LEMMA NetworkTokens ==
  ASSUME Steady, Finite, NEW c \in Clients, NEW n \in DOMAIN frames, NEW a \in Addrs,
         Fits(c, n, a), NetworkStep
  PROVE  Fits(c, n, a)'
<1>0. /\ OnTap(n) \in Nat /\ OnUp(n) \in Nat /\ OnRx(n) \in Nat /\ OnDue(n, a) \in Nat
      /\ OnDown(n, a) \in Nat /\ OnSock(c, n, a) \in Nat /\ OnOut(c, n, a) \in Nat
      /\ Doubled(n) \in Nat /\ IsFiniteSet(InUp(n)) /\ IsFiniteSet(InDown(n, a))
  BY Amounts DEF Steady
<1>1. UNCHANGED <<tapq, address, out, frames, due, wire>>
  BY DEF NetworkStep, Carry, Lose, Duplicate, ServerReceives, Delivers, process, server
<1>2. /\ OnTap(n)' = OnTap(n) /\ OnDue(n, a)' = OnDue(n, a) /\ OnOut(c, n, a)' = OnOut(c, n, a)
      /\ Own(n)' = Own(n)
  BY <1>1 DEF OnTap, Own, OnDue, InDue, OnOut
<1>3. /\ UNCHANGED up => OnUp(n)' = OnUp(n)
      /\ UNCHANGED rx => OnRx(n)' = OnRx(n)
      /\ UNCHANGED down => OnDown(n, a)' = OnDown(n, a)
      /\ UNCHANGED sockq => OnSock(c, n, a)' = OnSock(c, n, a)
      /\ UNCHANGED duplicated => Doubled(n)' = Doubled(n)
  BY <1>1 DEF OnUp, InUp, OnRx, InRx, OnDown, InDown, FrameOf, OnSock, Doubled
<1>4. ASSUME NEW p \in up, up' = up \ {p}
      PROVE  OnUp(n)' \in Nat /\ OnUp(n)' <= OnUp(n) - (IF p.frame = n THEN 1 ELSE 0)
  <2>1. InUp(n)' \subseteq InUp(n) /\ (p.frame = n => p \in InUp(n) /\ p \notin InUp(n)')
    BY <1>4 DEF InUp
  <2> QED
    BY <1>0, <2>1, SetShrinks DEF OnUp
<1>5. ASSUME NEW x \in down, down' = down \ {x}
      PROVE  /\ OnDown(n, a)' \in Nat
             /\ OnDown(n, a)' <= OnDown(n, a) - (IF FrameOf(x) = n /\ wire[x].to = a THEN 1 ELSE 0)
  <2>1. InDown(n, a)' \subseteq InDown(n, a)
        /\ (FrameOf(x) = n /\ wire[x].to = a => x \in InDown(n, a) /\ x \notin InDown(n, a)')
    BY <1>1, <1>5 DEF InDown, FrameOf
  <2> QED
    BY <1>0, <2>1, SetShrinks DEF OnDown
<1>6. ASSUME NEW p \in up, ServerReceives(p), UNCHANGED <<sockq, duplicated>> PROVE Fits(c, n, a)'
  <2>1. rx = {} /\ rx' = {Received(p)} /\ up' = up \ {p} /\ UNCHANGED down
    BY <1>6 DEF ServerReceives
  <2>2. OnRx(n) = 0 /\ OnRx(n)' = IF p.frame = n THEN 1 ELSE 0
    BY <2>1, ReceivesTokens
  <2>3. OnUp(n)' \in Nat /\ OnUp(n)' <= OnUp(n) - (IF p.frame = n THEN 1 ELSE 0)
    BY <1>4, <2>1
  <2>4. /\ OnDown(n, a)' = OnDown(n, a) /\ OnSock(c, n, a)' = OnSock(c, n, a)
        /\ Doubled(n)' = Doubled(n)
    BY <1>3, <1>6, <2>1
  <2> QED
    BY <1>0, <1>2, <2>2, <2>3, <2>4 DEF Fits, Tokens
<1>7. ASSUME NEW x \in down, Delivers(x), down' = down \ {x}, UNCHANGED duplicated
      PROVE  Fits(c, n, a)'
  <2>1. UNCHANGED <<up, rx>>
    BY <1>7 DEF Delivers
  <2>2. OnSock(c, n, a)' \in Nat
        /\ OnSock(c, n, a)' <= OnSock(c, n, a) + (IF FrameOf(x) = n /\ wire[x].to = a THEN 1 ELSE 0)
    BY <1>7, DeliversTokens
  <2>3. OnUp(n)' = OnUp(n) /\ OnRx(n)' = OnRx(n) /\ Doubled(n)' = Doubled(n)
    BY <1>3, <1>7, <2>1
  <2>4. /\ OnDown(n, a)' \in Nat
        /\ OnDown(n, a)' <= OnDown(n, a) - (IF FrameOf(x) = n /\ wire[x].to = a THEN 1 ELSE 0)
    BY <1>5, <1>7
  <2> QED
    BY <1>0, <1>2, <2>2, <2>3, <2>4 DEF Fits, Tokens
<1>8. CASE Lose
  <2>1. UNCHANGED <<rx, sockq, duplicated>>
    BY <1>8 DEF Lose, server
  <2>2. /\ OnRx(n)' = OnRx(n) /\ OnSock(c, n, a)' = OnSock(c, n, a)
        /\ Doubled(n)' = Doubled(n)
    BY <1>3, <2>1
  <2>3. ASSUME NEW p \in up, up' = up \ {p}, UNCHANGED down PROVE Fits(c, n, a)'
    <3>1. /\ OnUp(n)' \in Nat /\ OnUp(n)' <= OnUp(n)
          /\ OnDown(n, a)' = OnDown(n, a)
      BY <1>0, <1>3, <1>4, <2>3
    <3> QED
      BY <1>0, <1>2, <2>2, <3>1 DEF Fits, Tokens
  <2>4. ASSUME NEW x \in down, down' = down \ {x}, UNCHANGED up PROVE Fits(c, n, a)'
    <3>1. /\ OnDown(n, a)' \in Nat /\ OnDown(n, a)' <= OnDown(n, a)
          /\ OnUp(n)' = OnUp(n)
      BY <1>0, <1>3, <1>5, <2>4
    <3> QED
      BY <1>0, <1>2, <2>2, <3>1 DEF Fits, Tokens
  <2> QED
    BY <1>8, <2>3, <2>4 DEF Lose
<1>9. ASSUME NEW k \in Nat, duplicated' = Append(duplicated, k)
      PROVE  Doubled(n)' = Doubled(n) + (IF k = n THEN 1 ELSE 0)
  BY <1>9, TimesAppend DEF Doubled, Steady, Types
<1>10. ASSUME NEW p \in up, rx = {}, rx' = {Received(p)}, duplicated' = Append(duplicated, p.frame),
              UNCHANGED <<sockq, up, down>>
       PROVE  Fits(c, n, a)'
  <2>1. OnRx(n) = 0 /\ OnRx(n)' = IF p.frame = n THEN 1 ELSE 0
    BY <1>10, ReceivesTokens
  <2>2. p.frame \in Nat
    BY DEF Steady, Types, ClientTypes
  <2>3. Doubled(n)' = Doubled(n) + (IF p.frame = n THEN 1 ELSE 0)
    BY <1>9, <1>10, <2>2
  <2>4. /\ OnUp(n)' = OnUp(n) /\ OnDown(n, a)' = OnDown(n, a)
        /\ OnSock(c, n, a)' = OnSock(c, n, a)
    BY <1>3, <1>10
  <2> QED
    BY <1>0, <1>2, <2>1, <2>3, <2>4 DEF Fits, Tokens
<1>11. ASSUME NEW x \in down, Delivers(x), duplicated' = Append(duplicated, FrameOf(x)),
              UNCHANGED down
       PROVE  Fits(c, n, a)'
  <2>1. UNCHANGED <<up, rx>>
    BY <1>11 DEF Delivers
  <2>2. OnSock(c, n, a)' \in Nat
        /\ OnSock(c, n, a)' <= OnSock(c, n, a) + (IF FrameOf(x) = n /\ wire[x].to = a THEN 1 ELSE 0)
    BY <1>11, DeliversTokens
  <2>3. FrameOf(x) \in Nat
    <3>1. wire[x] \in Copies
      BY Element DEF Steady, Types, ServerTypes
    <3> QED
      BY <3>1 DEF FrameOf, Copies, Datagrams
  <2>4. Doubled(n)' = Doubled(n) + (IF FrameOf(x) = n THEN 1 ELSE 0)
    BY <1>9, <1>11, <2>3
  <2>5. OnUp(n)' = OnUp(n) /\ OnRx(n)' = OnRx(n) /\ OnDown(n, a)' = OnDown(n, a)
    BY <1>3, <1>11, <2>1
  <2> QED
    BY <1>0, <1>2, <2>2, <2>4, <2>5 DEF Fits, Tokens
<1>12. CASE Carry
  BY <1>6, <1>7, <1>12 DEF Carry
<1>13. CASE Duplicate
  BY <1>10, <1>11, <1>13 DEF Duplicate
<1> QED
  BY <1>8, <1>12, <1>13 DEF NetworkStep

-----------------------------------------------------------------------------
NetworkInv == Steady /\ Finite /\ OneToken

\* No frame is anywhere at the start.
THEOREM TokenInit == NetworkInit => NetworkInv
<1> SUFFICES ASSUME NetworkInit PROVE Finite /\ OneToken
  BY InitSteady DEF NetworkInv
<1>1. up = {} /\ rx = {} /\ due = {} /\ frames = <<>>
  BY DEF NetworkInit, Init, Server!Init
<1>2. \A n, a : InDue(n, a) = {}
  BY <1>1 DEF InDue
<1>3. Finite
  BY <1>1, <1>2, FS_EmptySet DEF Finite
<1> QED
  BY <1>1, <1>3 DEF OneToken

\* Every step keeps the whole invariant.
THEOREM TokenStep == NetworkInv /\ [Next]_vars => NetworkInv'
<1> SUFFICES ASSUME Steady, Finite, OneToken, [Next]_vars
             PROVE  NetworkInv'
  BY DEF NetworkInv
<1>1. Steady' /\ Finite'
  BY SteadyStep, FiniteStep
<1>2. OneToken'
  <2>1. ASSUME NEW m \in Macs, NEW dst \in Destinations(m), HostSends(m, dst) PROVE OneToken'
    <3>1. \A c \in Clients, n \in DOMAIN frames', a \in Addrs : Fits(c, n, a)'
      BY <2>1, HostTokens
    <3> QED
      BY <3>1 DEF OneToken
  <2>2. ASSUME UNCHANGED frames,
               \A c \in Clients, n \in DOMAIN frames, a \in Addrs : Fits(c, n, a)'
        PROVE  OneToken'
    BY <2>2 DEF OneToken
  <2>3. CASE UNCHANGED vars
    BY <2>3 DEF vars, clientVars, server, OneToken, Fits, Tokens, OnTap, Own, OnUp, InUp, OnRx,
       InRx, OnDue, InDue, OnDown, InDown, FrameOf, OnSock, OnOut, Doubled
  <2>4. ASSUME NEW d \in Clients, ClientStep(d) PROVE OneToken'
    <3>1. UNCHANGED frames
      BY <2>4 DEF ClientStep, Rest
    <3> QED
      BY <2>2, <2>4, <3>1, ClientTokens DEF OneToken
  <2>5. CASE ServerHandles \/ \E x \in due : ServerSends(x)
    <3>1. UNCHANGED frames
      BY <2>5 DEF ServerHandles, ServerSends
    <3> QED
      BY <2>2, <2>5, <3>1, ServerTokens DEF OneToken
  <2>6. CASE NetworkStep
    <3>1. UNCHANGED frames
      BY <2>6 DEF NetworkStep, Carry, Lose, Duplicate, ServerReceives, Delivers
    <3> QED
      BY <2>2, <2>6, <3>1, NetworkTokens DEF OneToken
  <2> QED
    BY <2>1, <2>3, <2>4, <2>5, <2>6, StepKinds
<1> QED
  BY <1>1, <1>2 DEF NetworkInv

\* A host gets a frame once at an address, and once more at most for each
\* time the network doubled it: neither the loop of a client nor the server
\* sends again what it has sent.
THEOREM AtMostOnce == NetworkSpec => []OnceUnlessDuplicated
<1>1. NetworkInv => OnceUnlessDuplicated
  <2> SUFFICES ASSUME NetworkInv, NEW c \in Clients, NEW n \in Ids, NEW a \in Addrs
               PROVE  OnOut(c, n, a) <= 1 + Doubled(n)
    BY DEF OnceUnlessDuplicated, OnOut, Doubled, Times
  <2>1. /\ n \in DOMAIN frames => OnTap(n) \in Nat
        /\ OnUp(n) \in Nat /\ OnRx(n) \in Nat /\ OnDue(n, a) \in Nat /\ OnDown(n, a) \in Nat
        /\ OnSock(c, n, a) \in Nat /\ OnOut(c, n, a) \in Nat /\ Doubled(n) \in Nat
    BY Amounts DEF NetworkInv, Steady
  <2>2. CASE n \in DOMAIN frames
    BY <2>1, <2>2 DEF NetworkInv, OneToken, Fits, Tokens
  <2>3. CASE n \notin DOMAIN frames
    BY <2>1, <2>3, Unsent DEF NetworkInv
  <2> QED
    BY <2>2, <2>3
<1> QED
  BY <1>1, TokenInit, TokenStep, PTL DEF NetworkSpec

=============================================================================
