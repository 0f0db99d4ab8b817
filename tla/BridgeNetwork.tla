---------------------------- MODULE BridgeNetwork ----------------------------
(***************************************************************************)
(* The bridge as its stations see it: the clients of BridgeClient, the     *)
(* server as BridgeService, which WlanBridge implements, and UDP between   *)
(* them, which reorders, loses and duplicates datagrams.  Clients stop,    *)
(* are killed and start again with a new address.                          *)
(***************************************************************************)
EXTENDS BridgeClient, FiniteSets

CONSTANTS
  Macs,       \* the stations
  Groups,     \* multicast and broadcast addresses
  NoAddr,     \* the location of a station that was never heard
  ClientOf,   \* the client whose tap device a station is behind
  MaxFrames   \* bound: the frames that the stations send

ASSUME BridgeNetworkAssumption ==
  /\ ClientOf \in [Macs -> Clients]
  /\ MaxFrames \in Nat
  /\ Macs \cap Groups = {}
  /\ NoAddr \notin Addrs

VARIABLES
  frames,      \* history: source, destination and client's life of each frame
  rx,          \* the datagram the server handles, in a set of at most one
  heard,       \* history: the datagrams the server received
  loc,         \* the server's tables and output, see BridgeService
  members,
  routed,
  due,
  wire,
  down,        \* the positions in wire of the datagrams that are in flight
  duplicated,  \* history: the frames of the datagrams the network doubled
  dropped      \* history: the frames that something on their way lost

server == <<loc, members, routed, due, wire>>
vars == <<clientVars, frames, rx, heard, server, down, duplicated, dropped>>

Ids == 1 .. MaxFrames

\* The server tells the copies of a frame apart by when they came.
Server == INSTANCE BridgeService WITH
  Numbers <- Ids \X (Nat \ {0}),
  AllocMayFail <- FALSE,
  SendMayFail <- FALSE

NetworkInit ==
  /\ Init
  /\ frames = <<>>
  /\ rx = {}
  /\ Server!Init
  /\ down = {}
  /\ duplicated = <<>>
  /\ dropped = {}

-----------------------------------------------------------------------------
(* The hosts and the clients.                                              *)

\* A host sends a frame out of the tap device.
HostSends(m, dst) ==
  LET c == ClientOf[m] IN
  /\ pc[c] # "down"
  /\ Len(frames) < MaxFrames
  /\ frames' = Append(frames, [src |-> m, dst |-> dst, life |-> lives[c]])
  /\ tapq' = [tapq EXCEPT ![c] = Append(@, Len(frames'))]
  /\ UNCHANGED <<loop, sockq, process, up, out, faults, rx, heard, server, down, duplicated, dropped>>

\* What a client holds, and loses when it ends.
Held(c) == Range(tapq[c]) \cup Range(sockq[c])

runing(c) ==
  /\ \/ Works(c) /\ UNCHANGED dropped
     \/ SendFails(c) /\ dropped' = dropped \cup {Waiting(c)}
     \/ Exit(c) /\ dropped' = dropped \cup Held(c)
  /\ UNCHANGED <<frames, rx, heard, server, down, duplicated>>

Signals(c) ==
  /\ \/ (usr1_handler(c) \/ EpollError(c) \/ Start(c) \/ StartFails(c)) /\ UNCHANGED dropped
     \/ Killed(c) /\ dropped' = dropped \cup Held(c)
  /\ UNCHANGED <<frames, rx, heard, server, down, duplicated>>

-----------------------------------------------------------------------------
(* The server.                                                             *)

\* A datagram with the number it is given when it is received.
Received(p) ==
  LET earlier == {d \in routed : d.n[1] = p.frame}
  IN [n |-> <<p.frame, Cardinality(earlier) + 1>>, from |-> p.from,
      src |-> frames[p.frame].src, dst |-> frames[p.frame].dst]

ServerReceives(p) ==
  /\ rx = {}
  /\ rx' = {Received(p)}
  /\ heard' = heard \cup rx'
  /\ up' = up \ {p}
  /\ UNCHANGED <<frames, server, down, dropped>>

\* What is done with it, one table at a time.
ServerHandles ==
  /\ \E d \in rx :
       \/ Server!Learn(d) /\ UNCHANGED rx
       \/ /\ loc[d.src] = d.from /\ d.from \notin members
          /\ Server!Enrol(d.from)
          /\ UNCHANGED rx
       \/ Server!Route(d) /\ rx' = {}
  /\ UNCHANGED <<clientVars, frames, down, duplicated, dropped>>

ServerSends(x) ==
  /\ Server!Transmit(x)
  /\ down' = down \cup {Len(wire')}
  /\ UNCHANGED <<clientVars, frames, rx, duplicated, dropped>>

-----------------------------------------------------------------------------
(* The network.                                                            *)

\* The clients whose socket has the address; there is at most one.
Bound(a) == {c \in Clients : pc[c] # "down" /\ address[c] = a}

FrameOf(x) == wire[x].d.n[1]

Delivers(x) ==
  LET to == Bound(wire[x].to) IN
  /\ sockq' = [c \in Clients |-> IF c \in to THEN Append(sockq[c], FrameOf(x)) ELSE sockq[c]]
  /\ dropped' = IF to = {} THEN dropped \cup {FrameOf(x)} ELSE dropped
  /\ UNCHANGED <<loop, tapq, process, up, out, frames, rx, heard, server>>

\* One datagram to the server or to a client: it arrives, is lost, or
\* arrives and will arrive again.
Carry ==
  \/ \E p \in up :
       /\ ServerReceives(p)
       /\ UNCHANGED <<loop, tapq, sockq, process, out, faults, duplicated>>
  \/ \E x \in down :
       /\ Delivers(x)
       /\ down' = down \ {x}
       /\ UNCHANGED <<faults, duplicated>>

Lose ==
  /\ Fault
  /\ \/ \E p \in up :
          /\ up' = up \ {p}
          /\ dropped' = dropped \cup {p.frame}
          /\ UNCHANGED down
     \/ \E x \in down :
          /\ down' = down \ {x}
          /\ dropped' = dropped \cup {FrameOf(x)}
          /\ UNCHANGED up
  /\ UNCHANGED <<loop, tapq, sockq, process, out, frames, rx, heard, server, duplicated>>

Duplicate ==
  /\ Fault
  /\ \/ \E p \in up :
          /\ rx = {}
          /\ rx' = {Received(p)}
          /\ heard' = heard \cup rx'
          /\ duplicated' = Append(duplicated, p.frame)
          /\ UNCHANGED <<loop, tapq, sockq, process, up, out, frames, server, dropped>>
     \/ \E x \in down :
          /\ Delivers(x)
          /\ duplicated' = Append(duplicated, FrameOf(x))
  /\ UNCHANGED down

-----------------------------------------------------------------------------
Destinations(m) == {d \in Macs : ClientOf[d] # ClientOf[m]} \cup Groups

Next ==
  \/ \E m \in Macs : \E dst \in Destinations(m) : HostSends(m, dst)
  \/ \E c \in Clients : runing(c) \/ Signals(c)
  \/ ServerHandles
  \/ \E x \in due : ServerSends(x)
  \/ Carry
  \/ Lose
  \/ Duplicate

NetworkSpec == NetworkInit /\ [][Next]_vars

\* Processes run and the network carries; nobody must send, stop or start.
FairSpec ==
  /\ NetworkSpec
  /\ \A c \in Clients : WF_vars(runing(c))
  /\ WF_vars(ServerHandles)
  /\ WF_vars(\E x \in due : ServerSends(x))
  /\ WF_vars(Carry)

-----------------------------------------------------------------------------
TypeOK ==
  /\ pc \in [Clients -> Locations]
  /\ running \in [Clients -> BOOLEAN]
  /\ \A c \in Clients :
       /\ Range(evs[c]) \subseteq Descriptors /\ Len(evs[c]) <= 2
       /\ Held(c) \subseteq DOMAIN frames
       /\ pc[c] = "event" <=> evs[c] # <<>>
       /\ pc[c] = "event" => Head(evs[c]) \in Ready(c)
  /\ down \subseteq DOMAIN wire
  /\ rx \subseteq Server!Datagram
  /\ due \subseteq Server!Copy

\* A client may get its own frame back, but only one it sent before it was
\* last started: the server knows the sender by its address (the test of
\* pa->addr in wlan_br_flood), and a datagram that was slow finds the client
\* enrolled under the next one.
EchoOnlyAfterRestart ==
  \A c \in Clients : \A x \in Range(out[c]) :
    ClientOf[frames[x.frame].src] = c => frames[x.frame].life < lives[c]

\* A host gets a frame once, unless the network doubled a datagram or the
\* client moved to another address in between: neither loop sends again.
OnceUnlessDuplicated ==
  \A c \in Clients, n \in Ids, a \in Addrs :
    Cardinality({i \in DOMAIN out[c] : out[c][i] = [frame |-> n, at |-> a]})
      <= 1 + Cardinality({i \in DOMAIN duplicated : duplicated[i] = n})

\* The server would send a frame for dst to the client.
Reached(c, dst) ==
  IF dst \in Macs THEN loc[dst] = address[c] ELSE address[c] \in members

\* A frame that waits on one tap device comes out of the other, unless one
\* of the failures the code gives up on hit it or the client went down:
\* neither direction of the loop starves the other, and nothing is forgotten.
ArrivesUnlessLost ==
  \A c \in Clients, n \in Ids :
    ( /\ n \in DOMAIN frames
      /\ pc[c] # "down"
      /\ ClientOf[frames[n].src] # c
      /\ n \in Range(tapq[ClientOf[frames[n].src]])
      /\ Reached(c, frames[n].dst) )
    ~> ( \/ \E x \in Range(out[c]) : x.frame = n
         \/ n \in dropped
         \/ pc[c] = "down" )

\* SIGUSR1 ends a client wherever it falls, under traffic too: the loop tests
\* the flag after every batch of events, and a wait ends after two seconds.
ClientStops ==
  \A c \in Clients : (pc[c] # "down" /\ ~running[c]) ~> pc[c] = "down"
=============================================================================
