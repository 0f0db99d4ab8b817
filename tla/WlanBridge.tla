------------------------------ MODULE WlanBridge ------------------------------
(***************************************************************************)
(* The forwarding plane of wlan_br_server: the RX thread takes a burst of  *)
(* UDP datagrams, each an Ethernet frame tunnelled by a client, learns the *)
(* client behind each source MAC (wlan_fdb.c), keeps the circular list of  *)
(* flood targets and the peer_addr_info records its entries share          *)
(* (wlan_br_forward.c), floods group and unknown frames at once, defers    *)
(* the others to an array, and sends the array at the end of the burst     *)
(* with sendmmsg and one resend (udp.c).  The per-IP counters of           *)
(* statistics.c are updated on the way.                                    *)
(*                                                                         *)
(* Each C loop iteration, allocation and send is an action of its own, so  *)
(* that a failure may fall between any two of them.                        *)
(***************************************************************************)
EXTENDS Naturals, Sequences, FiniteSets

CONSTANTS
  Addrs,        \* UDP addresses (sockaddr_in: IP and port) of the clients
  Ips,          \* IP addresses
  IpOf,         \* the IP of each UDP address; clients behind a NAT share it
  Macs,         \* unicast Ethernet addresses
  Groups,       \* multicast and broadcast Ethernet addresses
  NoAddr,       \* HASH_FIND returned NULL
  MaxBurst,     \* MAX_NUM of main.c: datagrams per recvmmsg
  MaxFrames,    \* bound of the model: datagrams received in a behaviour
  CountMod,     \* range of peer_addr_info_t.count, an unsigned short
  AllocMayFail, \* TRUE when calloc may return NULL
  SendMayFail   \* TRUE when sendto and sendmmsg may fail

ASSUME BridgeAssumption ==
  /\ IpOf \in [Addrs -> Ips]
  /\ Macs \cap Groups = {}
  /\ NoAddr \notin Addrs
  /\ MaxBurst \in Nat \ {0}
  /\ MaxFrames \in Nat
  /\ CountMod \in Nat \ {0}
  /\ AllocMayFail \in BOOLEAN
  /\ SendMayFail \in BOOLEAN

VARIABLES
  pc,       \* where the RX thread is
  burst,    \* the datagrams of the current recvmmsg
  i,        \* index of the datagram being handled
  h_head,   \* the FDB hash: MAC to client address, or NoAddr
  l_head,   \* the circular list from its head: entries [mac, pa]
  pa_heap,  \* the peer_addr_info records, pa of an entry is an index in it
  cursor,   \* position of the flood loop in the list
  to_array, \* the deferred copies (to_buf, to_data_len, to_peer_addr)
  k,        \* the next message sendmmsg has to send
  errno,    \* the RX thread's errno, which a short sendmmsg leaves alone
  ip_stat,  \* the statistics hash: per IP, whether present, rx and tx
  log,      \* history: every datagram received, in order
  wire      \* history: every copy handed to the network, in order

tables == <<h_head, l_head, pa_heap>>
vars == <<pc, burst, i, tables, cursor, to_array, k, errno, ip_stat, log, wire>>

Header == [from: Addrs, src: Macs, dst: Macs \cup Groups]
Datagram == [n: Nat, from: Addrs, src: Macs, dst: Macs \cup Groups]
Copy == [d: Datagram, to: Addrs]
Entry == [mac: Macs, pa: Nat]
PeerAddrInfo == [addr: Addrs, count: 0 .. CountMod - 1, flood_flag: {0, 1}]
Counters == [present: BOOLEAN, rx: Nat, tx: Nat]
Errno == {"EAGAIN", "other"}
Locations == {"recv", "learn", "enlist", "route", "flood", "send", "resend"}

Frame == burst[i]
Peer(x) == pa_heap[l_head[x].pa]

Init ==
  /\ pc = "recv"
  /\ burst = <<>>
  /\ i = 1
  /\ h_head = [m \in Macs |-> NoAddr]
  /\ l_head = <<>>
  /\ pa_heap = <<>>
  /\ cursor = 1
  /\ to_array = <<>>
  /\ k = 1
  /\ errno = "other"
  /\ ip_stat = [ip \in Ips |-> [present |-> FALSE, rx |-> 0, tx |-> 0]]
  /\ log = <<>>
  /\ wire = <<>>

-----------------------------------------------------------------------------
(* Statistics: an IP is entered at its first update; when that allocation  *)
(* fails the update is not counted.                                        *)

\* Mutants: the update that enters an IP counts nothing; = in place of +=.
RxEntersOnly(st, ip) ==
  {[st EXCEPT ![ip].present = TRUE, ![ip].rx = IF st[ip].present THEN @ + 1 ELSE @]}

TxAssigns(st, ip) == {[st EXCEPT ![ip].present = TRUE, ![ip].tx = 1]}

wlan_ip_static_update_rx(st, ip) ==
  {[st EXCEPT ![ip].present = TRUE, ![ip].rx = @ + 1]}
    \cup IF AllocMayFail /\ ~st[ip].present THEN {st} ELSE {}

wlan_ip_static_update_tx(st, ip) ==
  {[st EXCEPT ![ip].present = TRUE, ![ip].tx = @ + 1]}
    \cup IF AllocMayFail /\ ~st[ip].present THEN {st} ELSE {}

-----------------------------------------------------------------------------
(* Receiving a burst.                                                      *)

RecvBurst ==
  /\ pc = "recv"
  /\ \E num \in 1 .. MaxBurst :
       /\ Len(log) + num <= MaxFrames
       /\ \E hdr \in [1 .. num -> Header] :
            /\ burst' = [x \in 1 .. num |->
                           [n |-> Len(log) + x, from |-> hdr[x].from,
                            src |-> hdr[x].src, dst |-> hdr[x].dst]]
            /\ log' = log \o burst'
  /\ i' = 1
  /\ pc' = "learn"
  /\ UNCHANGED <<tables, cursor, to_array, k, errno, ip_stat, wire>>

\* recvmmsg fails: EAGAIN when the socket is drained.
RecvFails ==
  /\ pc = "recv"
  /\ errno' \in Errno
  /\ UNCHANGED <<pc, burst, i, tables, cursor, to_array, k, ip_stat, log, wire>>

-----------------------------------------------------------------------------
(* Learning: wlan_fdb_update, then wlan_list_update when the MAC is new.   *)

FdbKnown ==
  /\ pc = "learn"
  /\ h_head[Frame.src] # NoAddr
  /\ pc' = "route"
  /\ UNCHANGED <<burst, i, tables, cursor, to_array, k, errno, ip_stat, log, wire>>

FdbInsert ==
  /\ pc = "learn"
  /\ h_head[Frame.src] = NoAddr
  /\ h_head' = [h_head EXCEPT ![Frame.src] = Frame.from]
  /\ pc' = "enlist"
  /\ UNCHANGED <<burst, i, l_head, pa_heap, cursor, to_array, k, errno, ip_stat,
                 log, wire>>

FdbNoMemory ==
  /\ pc = "learn"
  /\ h_head[Frame.src] = NoAddr
  /\ AllocMayFail
  /\ errno' = "other"
  /\ pc' = "route"
  /\ UNCHANGED <<burst, i, tables, cursor, to_array, k, ip_stat, log, wire>>

\* Mutant: the search never finds the client.
NoRecords(a) == {}

\* The peer_addr_info records the list search can find for an address.
RecordsOf(a) == {l_head[x].pa : x \in {y \in DOMAIN l_head : Peer(y).addr = a}}

\* Mutant: the entry is made and never linked.
PrependForgotten(p) == l_head

Prepend(p) == <<[mac |-> Frame.src, pa |-> p]>> \o l_head

\* Mutants: a count wider than its field, and one that sharing resets.
BumpWide(c) == c + 1
BumpReset(c) == 1 % CountMod

Bump(c) == (c + 1) % CountMod

SetFlag(r, f) == [r EXCEPT !.flood_flag = f]

Share(r) == SetFlag([r EXCEPT !.count = Bump(r.count)], 0)

ListShare ==
  /\ pc = "enlist"
  /\ \E p \in RecordsOf(Frame.from) :
       /\ pa_heap' = [pa_heap EXCEPT ![p] = Share(@)]
       /\ l_head' = Prepend(p)
  /\ pc' = "route"
  /\ UNCHANGED <<burst, i, h_head, cursor, to_array, k, errno, ip_stat, log, wire>>

ListNew ==
  /\ pc = "enlist"
  /\ RecordsOf(Frame.from) = {}
  /\ pa_heap' = Append(pa_heap, [addr |-> Frame.from, count |-> Bump(0),
                                 flood_flag |-> 0])
  /\ l_head' = Prepend(Len(pa_heap) + 1)
  /\ pc' = "route"
  /\ UNCHANGED <<burst, i, h_head, cursor, to_array, k, errno, ip_stat, log, wire>>

\* No memory for the entry or for its record: the FDB keeps the MAC.
ListNoMemory ==
  /\ pc = "enlist"
  /\ AllocMayFail
  /\ errno' = "other"
  /\ pc' = "route"
  /\ UNCHANGED <<burst, i, tables, cursor, to_array, k, ip_stat, log, wire>>

-----------------------------------------------------------------------------
(* Routing.  After the last datagram the array, when not empty, is sent.   *)

EndFrame(array) ==
  IF i < Len(burst)
  THEN /\ i' = i + 1
       /\ pc' = "learn"
       /\ UNCHANGED burst
  ELSE /\ i' = 1
       /\ burst' = <<>>
       /\ pc' = IF array = <<>> THEN "recv" ELSE "send"

\* Mutant: the table is never consulted, a hub.
TargetUnknown == NoAddr

Target == IF Frame.dst \in Macs THEN h_head[Frame.dst] ELSE NoAddr

\* The station is behind the sender itself: nothing is sent.
ForwardLocal ==
  /\ pc = "route"
  /\ Target # NoAddr
  /\ ip_stat' \in wlan_ip_static_update_rx(ip_stat, IpOf[Frame.from])
  /\ Target = Frame.from
  /\ EndFrame(to_array)
  /\ UNCHANGED <<tables, cursor, to_array, k, errno, log, wire>>

\* The copy is counted as transmitted now and sent at the end of the burst.
ForwardToArray ==
  /\ pc = "route"
  /\ Target # NoAddr
  /\ Target # Frame.from
  /\ to_array' = Append(to_array, [d |-> Frame, to |-> Target])
  /\ \E st \in wlan_ip_static_update_rx(ip_stat, IpOf[Frame.from]) :
       ip_stat' \in wlan_ip_static_update_tx(st, IpOf[Target])
  /\ EndFrame(to_array')
  /\ UNCHANGED <<tables, cursor, k, errno, log, wire>>

FloodStart ==
  /\ pc = "route"
  /\ Target = NoAddr
  /\ ip_stat' \in wlan_ip_static_update_rx(ip_stat, IpOf[Frame.from])
  /\ cursor' = 1
  /\ pc' = "flood"
  /\ UNCHANGED <<burst, i, tables, to_array, k, errno, log, wire>>

Flooding == pc = "flood" /\ cursor \in DOMAIN l_head

\* Mutants: each half of the test alone.
SkipSenderOnly == Peer(cursor).addr = Frame.from
SkipFlaggedOnly == Peer(cursor).flood_flag = 1

\* Already flooded through another MAC of the same client, or the sender.
SkipPeer == Peer(cursor).flood_flag = 1 \/ Peer(cursor).addr = Frame.from

FloodSkip ==
  /\ Flooding
  /\ SkipPeer
  /\ cursor' = cursor + 1
  /\ UNCHANGED <<pc, burst, i, tables, to_array, k, errno, ip_stat, log, wire>>

FloodSend ==
  /\ Flooding
  /\ ~SkipPeer
  /\ pa_heap' = [pa_heap EXCEPT ![l_head[cursor].pa] = SetFlag(@, 1)]
  /\ wire' = Append(wire, [d |-> Frame, to |-> Peer(cursor).addr])
  /\ ip_stat' \in wlan_ip_static_update_tx(ip_stat, IpOf[Peer(cursor).addr])
  /\ cursor' = cursor + 1
  /\ UNCHANGED <<pc, burst, i, h_head, l_head, to_array, k, errno, log>>

FloodSendFails ==
  /\ Flooding
  /\ ~SkipPeer
  /\ SendMayFail
  /\ pa_heap' = [pa_heap EXCEPT ![l_head[cursor].pa] = SetFlag(@, 1)]
  /\ errno' \in Errno
  /\ cursor' = cursor + 1
  /\ UNCHANGED <<pc, burst, i, h_head, l_head, to_array, k, ip_stat, log, wire>>

\* Mutant: the second loop is missing.
FlagsKept == pa_heap

\* The second loop clears the flag of every record the list reaches.
ClearFlags ==
  [p \in DOMAIN pa_heap |->
     IF \E x \in DOMAIN l_head : l_head[x].pa = p
     THEN SetFlag(pa_heap[p], 0) ELSE pa_heap[p]]

FloodEnd ==
  /\ pc = "flood"
  /\ cursor \notin DOMAIN l_head
  /\ pa_heap' = ClearFlags
  /\ cursor' = 1
  /\ EndFrame(to_array)
  /\ UNCHANGED <<h_head, l_head, to_array, k, errno, ip_stat, log, wire>>

-----------------------------------------------------------------------------
(* Sending the array.  sendmmsg sends the messages one by one and stops at *)
(* the first that fails; errno is set only when that is the first of all.  *)

SendOne ==
  /\ pc \in {"send", "resend"}
  /\ k \in DOMAIN to_array
  /\ wire' = Append(wire, to_array[k])
  /\ k' = k + 1
  /\ UNCHANGED <<pc, burst, i, tables, cursor, to_array, errno, ip_stat, log>>

SendDone ==
  /\ pc \in {"send", "resend"}
  /\ k \notin DOMAIN to_array
  /\ to_array' = <<>>
  /\ k' = 1
  /\ pc' = "recv"
  /\ UNCHANGED <<burst, i, tables, cursor, errno, ip_stat, log, wire>>

ShortSend ==
  /\ SendMayFail
  /\ k \in DOMAIN to_array
  /\ IF k = 1 THEN errno' \in Errno ELSE UNCHANGED errno

\* Mutants: the whole array again, and its rest from the end.
WholeArray == to_array
UnsentFromTheEnd ==
  [x \in 1 .. Len(to_array) + 1 - k |-> to_array[Len(to_array) + 1 - x]]

\* The messages whose msg_len is not their iov_len.
Unsent == SubSeq(to_array, k, Len(to_array))

SendRetry ==
  /\ pc = "send"
  /\ ShortSend
  /\ errno' = "EAGAIN"
  /\ to_array' = Unsent
  /\ k' = 1
  /\ pc' = "resend"
  /\ UNCHANGED <<burst, i, tables, cursor, ip_stat, log, wire>>

\* Mutant: the rest of the array is left for the next burst.
RestLeft ==
  /\ pc \in {"send", "resend"}
  /\ ShortSend
  /\ pc = "send" => errno' # "EAGAIN"
  /\ to_array' = Unsent
  /\ k' = 1
  /\ pc' = "recv"
  /\ UNCHANGED <<burst, i, tables, cursor, ip_stat, log, wire>>

\* Another errno, or a short resend: the rest of the array is dropped.
SendGiveUp ==
  /\ pc \in {"send", "resend"}
  /\ ShortSend
  /\ pc = "send" => errno' # "EAGAIN"
  /\ to_array' = <<>>
  /\ k' = 1
  /\ pc' = "recv"
  /\ UNCHANGED <<burst, i, tables, cursor, ip_stat, log, wire>>

-----------------------------------------------------------------------------

\* What the thread does once a burst is in hand.
Handle ==
  \/ FdbKnown \/ FdbInsert \/ FdbNoMemory
  \/ ListShare \/ ListNew \/ ListNoMemory
  \/ ForwardLocal \/ ForwardToArray
  \/ FloodStart \/ FloodSkip \/ FloodSend \/ FloodSendFails \/ FloodEnd
  \/ SendOne \/ SendDone \/ SendRetry \/ SendGiveUp

Next == RecvBurst \/ RecvFails \/ Handle

Spec == Init /\ [][Next]_vars

\* The thread is not stopped while it handles a burst.
FairSpec == Spec /\ WF_vars(Handle)

-----------------------------------------------------------------------------
(* What the forwarding plane must keep true.                               *)

\* Every variable stays in its C type; the share count of a record wraps.
TypeOK ==
  /\ pc \in Locations
  /\ burst \in Seq(Datagram)
  /\ i \in Nat \ {0}
  /\ h_head \in [Macs -> Addrs \cup {NoAddr}]
  /\ l_head \in Seq(Entry)
  /\ pa_heap \in Seq(PeerAddrInfo)
  /\ cursor \in Nat \ {0}
  /\ to_array \in Seq(Copy)
  /\ k \in Nat \ {0}
  /\ errno \in Errno
  /\ ip_stat \in [Ips -> Counters]
  /\ log \in Seq(Datagram)
  /\ wire \in Seq(Copy)

\* The two tables agree: the list has one entry per MAC, the record it points
\* to holds the address the FDB has for that MAC, and a client has one record
\* however many MACs are behind it (wlan_list_update's search).
ListAgreesWithFdb ==
  /\ \A x, y \in DOMAIN l_head : l_head[x].mac = l_head[y].mac => x = y
  /\ \A x \in DOMAIN l_head : /\ l_head[x].pa \in DOMAIN pa_heap
                              /\ Peer(x).addr = h_head[l_head[x].mac]
  /\ \A p, q \in DOMAIN pa_heap : pa_heap[p].addr = pa_heap[q].addr => p = q

\* The share count of a record is the number of its entries, modulo its width
\* (pa->count++ and pa->count = 1 in wlan_list_update).
ShareCount ==
  \A p \in DOMAIN pa_heap :
    pa_heap[p].count =
      Cardinality({x \in DOMAIN l_head : l_head[x].pa = p}) % CountMod

\* Unless memory ran out, a flood can reach every client that has a located
\* station: the FDB and the list are updated together (wlan_br_handle_burst).
LocatedIsFloodable ==
  ~AllocMayFail /\ pc # "enlist" =>
    \A m \in Macs : h_head[m] # NoAddr =>
      \E x \in DOMAIN l_head : Peer(x).addr = h_head[m]

\* A flood flag never outlives its flood, and within it marks only records
\* the loop has passed: a stale flag would silence a client (wlan_br_flood).
NoStaleFlag ==
  \A p \in DOMAIN pa_heap : pa_heap[p].flood_flag = 1 =>
    /\ pc = "flood"
    /\ \E x \in DOMAIN l_head : x < cursor /\ l_head[x].pa = p

\* No client gets a frame twice, whatever MACs it has, whatever was resent
\* (the flood flag, and the msg_len test of the resend in udp.c).
OneCopyPerClient ==
  \A p, q \in DOMAIN wire : wire[p] = wire[q] => p = q

\* No frame goes back to the client it came from.
NeverReflected == \A p \in DOMAIN wire : wire[p].to # wire[p].d.from

\* Frames from one client to one destination MAC reach a client in the order
\* they came, although some are flooded at once and others wait for the end
\* of the burst, and part of the array may be sent again.
Flow(c) == <<c.d.from, c.d.dst, c.to>>
FlowOrder ==
  \A p, q \in DOMAIN wire :
    p < q /\ Flow(wire[p]) = Flow(wire[q]) => wire[p].d.n < wire[q].d.n

\* Each received frame is counted once for the IP it came from, on whichever
\* path it takes: forward_to_array leaves an unknown station to the flood.
Handled ==
  Len(log) - (IF pc = "flood" THEN Len(burst) - i ELSE Len(burst) + 1 - i)
RxCountsEachFrame ==
  \A ip \in Ips :
    LET frames == Cardinality({x \in 1 .. Handled : IpOf[log[x].from] = ip})
    IN /\ ip_stat[ip].rx <= frames
       /\ ~AllocMayFail => ip_stat[ip].rx = frames

\* The transmit counter never misses a copy; it is exact unless a burst was
\* cut short, because the array is counted before it is sent.
TxCoversWire ==
  ~AllocMayFail =>
    \A ip \in Ips :
      LET out == Cardinality({x \in DOMAIN wire : IpOf[wire[x].to] = ip})
                 + Cardinality({x \in DOMAIN to_array :
                                  x >= k /\ IpOf[to_array[x].to] = ip})
      IN /\ ip_stat[ip].tx >= out
         /\ ~SendMayFail => ip_stat[ip].tx = out

-----------------------------------------------------------------------------
(* The forwarding plane implements the service of a learning switch.       *)

\* The frames received, and those of them that were routed.
Heard == {log[x] : x \in DOMAIN log}
Routed == {log[x] : x \in 1 .. Handled}

\* The clients a flood reaches.
Members == {Peer(x).addr : x \in DOMAIN l_head}

\* What the flood under way has yet to send.
InFlood ==
  {[d |-> Frame, to |-> Peer(x).addr] :
     x \in {y \in DOMAIN l_head :
              /\ y >= cursor
              /\ Peer(y).flood_flag = 0
              /\ Peer(y).addr # Frame.from}}

\* What the array has yet to send.
InArray == {to_array[x] : x \in {y \in DOMAIN to_array : y >= k}}

\* The copies decided and not yet handed to the network.
Due == InArray \cup IF pc = "flood" THEN InFlood ELSE {}

Service == INSTANCE BridgeService WITH
  Numbers <- 1 .. MaxFrames,
  heard <- Heard,
  loc <- h_head,
  members <- Members,
  routed <- Routed,
  due <- Due,
  wire <- wire

\* Every step of the RX thread is a step of the service or invisible to it,
\* whatever allocation and whatever send fails.
RefinesService == Service!Spec

\* And no copy it owes is left behind: each is sent or, where the network
\* stack refuses a datagram, dropped with the rest of its burst, for good.
ImplementsService == Service!FairSpec
=============================================================================
