---------------------------- MODULE BridgeService ----------------------------
(***************************************************************************)
(* What the bridge server promises to the clients that tunnel Ethernet     *)
(* frames to it, without its lists, flags, arrays and bursts: a learning   *)
(* switch whose ports are the UDP addresses of the clients.  A station is  *)
(* located once, where a frame of its came from, and never moves; a frame  *)
(* that was received is routed once, to the located client or to every     *)
(* enrolled one, never back to its sender; each copy that is due is put on *)
(* the wire once or lost by the network stack.                             *)
(***************************************************************************)
EXTENDS Naturals, Sequences

CONSTANTS
  Addrs,        \* UDP addresses (IP and port) of the clients
  Macs,         \* unicast Ethernet addresses of the stations
  Groups,       \* multicast and broadcast Ethernet addresses
  NoAddr,       \* the location of a station that was never heard
  Numbers,      \* the numbers that identify received frames
  AllocMayFail, \* TRUE when memory for the tables may be refused
  SendMayFail   \* TRUE when the network stack may refuse a datagram

VARIABLES
  heard,   \* the frames received so far
  loc,     \* the client behind which each station was first heard
  members, \* the clients that receive flooded frames
  routed,  \* those of them that were routed
  due,     \* the copies decided but not yet handed to the network
  wire     \* the copies handed to the network, in order

vars == <<heard, loc, members, routed, due, wire>>

Datagram == [n: Numbers, from: Addrs, src: Macs, dst: Macs \cup Groups]
Copy == [d: Datagram, to: Addrs]

Located == {loc[m] : m \in Macs} \ {NoAddr}

\* A located station gets its frame alone; anything else goes to all members.
Recipients(d) ==
  (IF d.dst \in Macs /\ loc[d.dst] # NoAddr THEN {loc[d.dst]} ELSE members)
    \ {d.from}

Init ==
  /\ loc = [m \in Macs |-> NoAddr]
  /\ members = {}
  /\ routed = {}
  /\ due = {}
  /\ wire = <<>>
  /\ heard = {}

\* Frames arrive, one or many; each has a number of its own.
Receive ==
  /\ heard \subseteq heard'
  /\ heard' \in SUBSET Datagram
  /\ \A d, e \in heard' : d.n = e.n => d = e
  /\ UNCHANGED <<loc, members, routed, due, wire>>

Pending == heard \ routed

\* The sender of a frame that is not routed yet is located by it.
Learn(d) ==
  /\ loc[d.src] = NoAddr
  /\ loc' = [loc EXCEPT ![d.src] = d.from]
  /\ UNCHANGED <<members, routed, due, wire, heard>>

Enrol(a) ==
  /\ a \in Located
  /\ members' = members \cup {a}
  /\ UNCHANGED <<loc, routed, due, wire, heard>>

\* Unless memory ran out, the sender is located and every located client is
\* a member before the frame is routed.
Route(d) ==
  /\ AllocMayFail \/ (loc[d.src] # NoAddr /\ members = Located)
  /\ routed' = routed \cup {d}
  /\ due' = due \cup {[d |-> d, to |-> a] : a \in Recipients(d)}
  /\ UNCHANGED <<loc, members, wire, heard>>

Transmit(c) ==
  /\ wire' = Append(wire, c)
  /\ due' = due \ {c}
  /\ UNCHANGED <<loc, members, routed, heard>>

Lose ==
  /\ SendMayFail
  /\ due' \in SUBSET due
  /\ due' # due
  /\ UNCHANGED <<loc, members, routed, wire, heard>>

Settle == (\E c \in due : Transmit(c)) \/ Lose

Next ==
  \/ Receive
  \/ \E d \in Pending : Learn(d) \/ Route(d)
  \/ \E a \in Addrs : Enrol(a)
  \/ Settle

Spec == Init /\ [][Next]_vars

\* The server never sits on a copy: what is due is settled.
FairSpec == Spec /\ WF_vars(Settle)
=============================================================================
