---------------------------- MODULE BridgeClient ----------------------------
(***************************************************************************)
(* The clients of the bridge (wlan_br_client): each copies frames between  *)
(* a tap device and a UDP socket.  The loop of runing in main.c asks epoll *)
(* which of the two can be read, level-triggered, reads one frame from     *)
(* each, and hands it to the other; what cannot be read or sent is         *)
(* dropped.  SIGUSR1 clears a flag that the loop tests between two waits.  *)
(*                                                                         *)
(* A client keeps nothing when it stops: started again it has a socket     *)
(* with another port, and so another address.  Frames are told apart by    *)
(* identities, and opaque otherwise.                                       *)
(***************************************************************************)
EXTENDS Naturals, Sequences, SequencesExt

CONSTANTS
  Clients,     \* the processes that run wlan_br_client
  Addrs,       \* the UDP addresses their sockets may have
  FirstAddr,   \* the address each client has first
  MaxLives,    \* bound: how often each client is started
  MaxFaults    \* bound: failures of reads and sends, and of the network

ASSUME BridgeClientAssumption ==
  /\ FirstAddr \in [Clients -> Addrs]
  /\ \A c, d \in Clients : FirstAddr[c] = FirstAddr[d] => c = d
  /\ MaxLives \in [Clients -> Nat]
  /\ MaxFaults \in Nat

VARIABLES
  pc,        \* where each client is
  running,   \* rx_task_is_running
  tapq,      \* the frames that wait on the tap device
  sockq,     \* the datagrams that wait on the socket
  evs,       \* the descriptors epoll_wait reported, still to be handled
  address,   \* the address of the socket
  up,        \* the datagrams on their way to the server
  out,       \* the frames written to the tap device, and the address then
  lives,     \* how often the client was started
  faults     \* history: the failures so far

loop == <<pc, running, evs>>
process == <<address, lives>>
clientVars == <<pc, running, tapq, sockq, evs, address, up, out, lives, faults>>

Locations == {"down", "check", "wait", "event"}
Descriptors == {"tuntap_fd", "udp_sock_fd"}

\* The first start of every client: main has created tap and socket.
Init ==
  /\ pc = [c \in Clients |-> "check"]
  /\ running = [c \in Clients |-> TRUE]
  /\ tapq = [c \in Clients |-> <<>>]
  /\ sockq = [c \in Clients |-> <<>>]
  /\ evs = [c \in Clients |-> <<>>]
  /\ address = FirstAddr
  /\ up = {}
  /\ out = [c \in Clients |-> <<>>]
  /\ lives = [c \in Clients |-> 1]
  /\ faults = 0

Fault == faults < MaxFaults /\ faults' = faults + 1

-----------------------------------------------------------------------------
(* The loop.                                                               *)

usr1_handler(c) ==
  /\ pc[c] # "down"
  /\ running[c]
  /\ running' = [running EXCEPT ![c] = FALSE]
  /\ UNCHANGED <<pc, evs, tapq, sockq, process, up, out, faults>>

Continue(c) ==
  /\ pc[c] = "check"
  /\ running[c]
  /\ pc' = [pc EXCEPT ![c] = "wait"]
  /\ UNCHANGED <<running, evs, tapq, sockq, process, up, out, faults>>

\* Mutant: the socket is never added to the epoll instance.
TapOnly(c) == {fd \in {"tuntap_fd"} : tapq[c] # <<>>}

\* Level-triggered: a descriptor is reported as long as it can be read.
Ready(c) ==
  {fd \in Descriptors : IF fd = "tuntap_fd" THEN tapq[c] # <<>> ELSE sockq[c] # <<>>}

EpollEvent(c) ==
  /\ pc[c] = "wait"
  /\ Ready(c) # {}
  /\ \E s \in SetToSeqs(Ready(c)) : evs' = [evs EXCEPT ![c] = s]
  /\ pc' = [pc EXCEPT ![c] = "event"]
  /\ UNCHANGED <<running, tapq, sockq, process, up, out, faults>>

\* Mutant: a wait without a timeout.
EpollBlocks(c) == FALSE /\ UNCHANGED clientVars

\* nfds = 0 after two seconds.
EpollTimeout(c) ==
  /\ pc[c] = "wait"
  /\ Ready(c) = {}
  /\ pc' = [pc EXCEPT ![c] = "check"]
  /\ UNCHANGED <<running, evs, tapq, sockq, process, up, out, faults>>

\* EINTR: the signal fell into the wait.  Nothing says that it does: it may
\* have come between the test and the wait.
EpollError(c) ==
  /\ pc[c] = "wait"
  /\ ~running[c]
  /\ pc' = [pc EXCEPT ![c] = "check"]
  /\ UNCHANGED <<running, evs, tapq, sockq, process, up, out, faults>>

\* The event is done with: the next one, or the head of the loop.
NextEvent(c) ==
  /\ evs' = [evs EXCEPT ![c] = Tail(@)]
  /\ pc' = [pc EXCEPT ![c] = IF Len(evs[c]) = 1 THEN "check" ELSE "event"]

\* The head of the queue that the event is for is read into tuntap_buf or
\* udp_buf.
Waiting(c) == Head(IF Head(evs[c]) = "tuntap_fd" THEN tapq[c] ELSE sockq[c])

\* Mutant: what was read stays queued, as with MSG_PEEK.
Peeked(q, c) == q

Taken(q, c) == [q EXCEPT ![c] = Tail(@)]

Read(c) ==
  /\ pc[c] = "event"
  /\ \/ Head(evs[c]) = "tuntap_fd" /\ tapq' = Taken(tapq, c) /\ UNCHANGED sockq
     \/ Head(evs[c]) = "udp_sock_fd" /\ sockq' = Taken(sockq, c) /\ UNCHANGED tapq
  /\ NextEvent(c)

\* len <= 0: the frame stays where it is and is reported again.
ReadFails(c) ==
  /\ pc[c] = "event"
  /\ Fault
  /\ NextEvent(c)
  /\ UNCHANGED <<running, tapq, sockq, process, up, out>>

send_data_use_udp(c) ==
  /\ up' = up \cup {[frame |-> Waiting(c), from |-> address[c]]}
  /\ UNCHANGED out

send_data_use_tuntap(c) ==
  /\ out' = [out EXCEPT ![c] = Append(@, [frame |-> Waiting(c), at |-> address[c]])]
  /\ UNCHANGED up

\* Mutant: each frame goes back to where it was read from.
Same(fd) == fd

Other(fd) == IF fd = "tuntap_fd" THEN "udp_sock_fd" ELSE "tuntap_fd"

\* The buffer is the thread's own, so that reading and sending are one step.
Forward(c) ==
  /\ Read(c)
  /\ IF Other(Head(evs[c])) = "udp_sock_fd" THEN send_data_use_udp(c)
                                           ELSE send_data_use_tuntap(c)
  /\ UNCHANGED <<running, process, faults>>

\* send_len differs from what was read: the frame is dropped.
SendFails(c) ==
  /\ Read(c)
  /\ Fault
  /\ UNCHANGED <<running, process, up, out>>

\* destroy_tuntap and destroy_udp_client, or what the kernel does for a
\* process that is killed: nothing that was queued survives.
Destroyed(c) ==
  /\ pc' = [pc EXCEPT ![c] = "down"]
  /\ tapq' = [tapq EXCEPT ![c] = <<>>]
  /\ sockq' = [sockq EXCEPT ![c] = <<>>]
  /\ evs' = [evs EXCEPT ![c] = <<>>]
  /\ UNCHANGED <<running, process, up, out, faults>>

Exit(c) ==
  /\ pc[c] = "check"
  /\ ~running[c]
  /\ Destroyed(c)

Killed(c) ==
  /\ pc[c] # "down"
  /\ lives[c] < MaxLives[c]
  /\ Destroyed(c)

\* The addresses no socket is bound to.
FreeAddrs == Addrs \ {address[c] : c \in {d \in Clients : pc[d] # "down"}}

\* main: the kernel picks the port of the new socket when it first sends.
Start(c) ==
  /\ pc[c] = "down"
  /\ lives[c] < MaxLives[c]
  /\ lives' = [lives EXCEPT ![c] = @ + 1]
  /\ address' \in {[address EXCEPT ![c] = a] : a \in FreeAddrs}
  /\ running' = [running EXCEPT ![c] = TRUE]
  /\ pc' = [pc EXCEPT ![c] = "check"]
  /\ UNCHANGED <<evs, tapq, sockq, up, out, faults>>

\* main gives up when the tap device or the socket cannot be created.
StartFails(c) ==
  /\ pc[c] = "down"
  /\ lives[c] < MaxLives[c]
  /\ Fault
  /\ lives' = [lives EXCEPT ![c] = @ + 1]
  /\ UNCHANGED <<loop, tapq, sockq, address, up, out>>

\* One turn of the loop, but for what loses a frame: SendFails and Exit.
Works(c) ==
  \/ Continue(c)
  \/ EpollEvent(c)
  \/ EpollTimeout(c)
  \/ ReadFails(c)
  \/ Forward(c)
=============================================================================
