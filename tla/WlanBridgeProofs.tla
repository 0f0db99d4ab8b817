--------------------------- MODULE WlanBridgeProofs ---------------------------
(***************************************************************************)
(* Proofs about the forwarding plane, for any number of clients, stations, *)
(* frames and any burst size, with or without failures.  First its tables: *)
(* what a step does to the learned addresses and the statistics of each    *)
(* IP.  Then what it puts on the wire: no copy twice, none back to its     *)
(* sender, each flow in order, through floods, deferred sends and the      *)
(* resend of a burst that was cut short; the counters of each client cover *)
(* what it sent and what is on the wire to it; and the whole implements    *)
(* the learning switch of BridgeService, each step of the RX thread a step *)
(* of the switch or none, whatever fails.                                  *)
(***************************************************************************)
EXTENDS WlanBridge, SequenceTheorems, FiniteSetTheorems, FunctionTheorems, TLAPS

-----------------------------------------------------------------------------
(* Operators.                                                              *)

\* The share count stays in its field: pa->count++ wraps (wlan_list_update).
LEMMA BumpRange ==
  ASSUME NEW c \in Nat
  PROVE  Bump(c) \in 0 .. CountMod - 1
  BY BridgeAssumption DEF Bump

\* Both updates of the statistics keep the table typed (statistics.c).
LEMMA StatRange ==
  ASSUME NEW st \in [Ips -> Counters], NEW ip \in Ips,
         NEW r \in wlan_ip_static_update_rx(st, ip)
                     \cup wlan_ip_static_update_tx(st, ip)
  PROVE  r \in [Ips -> Counters]
  BY DEF wlan_ip_static_update_rx, wlan_ip_static_update_tx, Counters

\* Replacing an element of a sequence.
LEMMA SeqUpdate ==
  ASSUME NEW S, NEW s \in Seq(S), NEW p \in DOMAIN s, NEW e \in S
  PROVE  /\ [s EXCEPT ![p] = e] \in Seq(S)
         /\ DOMAIN [s EXCEPT ![p] = e] = DOMAIN s
  OBVIOUS

\* One sequence after another.
LEMMA ConcatIs ==
  ASSUME NEW S, NEW s \in Seq(S), NEW t \in Seq(S)
  PROVE  /\ Len(s) \in Nat /\ DOMAIN s = 1 .. Len(s) /\ DOMAIN t = 1 .. Len(t)
         /\ Len(s \o t) = Len(s) + Len(t)
         /\ \A x \in 1 .. Len(s) : (s \o t)[x] = s[x]
         /\ \A x \in 1 .. Len(t) : (s \o t)[Len(s) + x] = t[x]
  OBVIOUS

\* Setting the flood flag of a record leaves its address and its count.
LEMMA SetFlagRecord ==
  ASSUME NEW r \in PeerAddrInfo, NEW f \in {0, 1}
  PROVE  /\ SetFlag(r, f) \in PeerAddrInfo
         /\ SetFlag(r, f).addr = r.addr
         /\ SetFlag(r, f).count = r.count
         /\ SetFlag(r, f).flood_flag = f
  BY DEF SetFlag, PeerAddrInfo

\* Sharing a record counts its new entry and resets its flag.
LEMMA ShareRecord ==
  ASSUME NEW r \in PeerAddrInfo
  PROVE  /\ Share(r) \in PeerAddrInfo
         /\ Share(r).addr = r.addr
         /\ Share(r).count = Bump(r.count)
         /\ Share(r).flood_flag = 0
<1> DEFINE b == [r EXCEPT !.count = Bump(r.count)]
<1>1. Bump(r.count) \in 0 .. CountMod - 1
  BY BumpRange, BridgeAssumption DEF PeerAddrInfo
<1>2. b \in PeerAddrInfo /\ b.addr = r.addr /\ b.count = Bump(r.count)
  BY <1>1 DEF PeerAddrInfo
<1> QED
  BY <1>2, SetFlagRecord DEF Share

-----------------------------------------------------------------------------
(* Typing.  An entry of the list points to a record, and a frame is in     *)
(* hand in the steps that use it.                                          *)

Handling == {"learn", "enlist", "route", "flood"}

InHand == pc \in Handling => i \in DOMAIN burst

Linked == \A x \in DOMAIN l_head : l_head[x].pa \in DOMAIN pa_heap

Typed == TypeOK /\ InHand /\ Linked

\* Where a frame is handled there is one: the index is inside the burst.
LEMMA FrameType ==
  ASSUME Typed, pc \in Handling
  PROVE  Frame \in Datagram
  BY DEF Typed, TypeOK, InHand, Frame

\* The pa of every list entry points to a record.
LEMMA PeerType ==
  ASSUME Typed, NEW x \in DOMAIN l_head
  PROVE  /\ l_head[x] \in Entry
         /\ Peer(x) \in PeerAddrInfo
<1>1. l_head \in Seq(Entry) /\ pa_heap \in Seq(PeerAddrInfo)
  BY DEF Typed, TypeOK
<1>2. l_head[x].pa \in DOMAIN pa_heap
  BY DEF Typed, Linked
<1> QED
  BY <1>1, <1>2 DEF Peer

\* Raising the flag of the record under the cursor, and clearing all flags.
LEMMA FlagUp ==
  ASSUME Typed, Flooding,
         pa_heap' = [pa_heap EXCEPT ![l_head[cursor].pa] = SetFlag(@, 1)]
  PROVE  /\ pa_heap' \in Seq(PeerAddrInfo)
         /\ DOMAIN pa_heap' = DOMAIN pa_heap
         /\ \A p \in DOMAIN pa_heap :
              /\ pa_heap'[p].addr = pa_heap[p].addr
              /\ pa_heap'[p].count = pa_heap[p].count
              /\ pa_heap'[p].flood_flag =
                   IF p = l_head[cursor].pa THEN 1 ELSE pa_heap[p].flood_flag
<1> DEFINE q == l_head[cursor].pa
<1>1. q \in DOMAIN pa_heap /\ pa_heap[q] \in PeerAddrInfo
  BY PeerType DEF Flooding, Typed, Linked, Peer
<1>2. pa_heap \in Seq(PeerAddrInfo)
  BY DEF Typed, TypeOK
<1> HIDE DEF q
<1>3. pa_heap' = [pa_heap EXCEPT ![q] = SetFlag(pa_heap[q], 1)]
  BY DEF q
<1>4. \A p \in DOMAIN pa_heap :
        pa_heap'[p] = IF p = q THEN SetFlag(pa_heap[q], 1) ELSE pa_heap[p]
  BY <1>2, <1>3
<1> QED
  BY <1>1, <1>2, <1>3, <1>4, SetFlagRecord, SeqUpdate DEF q

\* The second loop of wlan_br_flood clears each flag that the list reaches and
\* nothing else.
LEMMA FlagsDown ==
  ASSUME Typed
  PROVE  /\ ClearFlags \in Seq(PeerAddrInfo)
         /\ DOMAIN ClearFlags = DOMAIN pa_heap
         /\ \A p \in DOMAIN pa_heap :
              /\ ClearFlags[p].addr = pa_heap[p].addr
              /\ ClearFlags[p].count = pa_heap[p].count
              /\ (\E x \in DOMAIN l_head : l_head[x].pa = p) =>
                   ClearFlags[p].flood_flag = 0
<1>1. pa_heap \in Seq(PeerAddrInfo)
  BY DEF Typed, TypeOK
<1>2. \A p \in DOMAIN pa_heap :
        /\ pa_heap[p] \in PeerAddrInfo
        /\ ClearFlags[p] = IF \E x \in DOMAIN l_head : l_head[x].pa = p
                           THEN SetFlag(pa_heap[p], 0) ELSE pa_heap[p]
  BY <1>1 DEF ClearFlags
<1>3. \A p \in DOMAIN pa_heap : ClearFlags[p] \in PeerAddrInfo
  BY <1>2, SetFlagRecord
<1>4. ClearFlags \in [1 .. Len(pa_heap) -> PeerAddrInfo]
  BY <1>1, <1>3 DEF ClearFlags
<1> QED
  BY <1>1, <1>2, <1>4, SetFlagRecord DEF ClearFlags

\* EndFrame goes to the next frame of the burst, or leaves the burst.
LEMMA EndFrameStep ==
  ASSUME Typed, pc \in {"route", "flood"}, NEW array, EndFrame(array)
  PROVE  /\ burst' \in Seq(Datagram)
         /\ i' \in Nat \ {0}
         /\ pc' \in {"learn", "recv", "send"}
         /\ InHand'
<1>1. burst \in Seq(Datagram) /\ i \in DOMAIN burst
  BY DEF Typed, TypeOK, InHand, Handling
<1>2. CASE i < Len(burst)
  BY <1>1, <1>2 DEF EndFrame, InHand, Handling
<1>3. CASE ~(i < Len(burst))
  <2>1. i' = 1 /\ burst' = <<>> /\ pc' \in {"recv", "send"}
    BY <1>3 DEF EndFrame
  <2> QED
    BY <2>1 DEF InHand, Handling
<1> QED
  BY <1>2, <1>3

\* The static initialisers are typed.
THEOREM TypedInit == Init => Typed
  BY BridgeAssumption DEF Init, Typed, TypeOK, InHand, Linked, Handling,
     Locations, Errno, Counters

\* Every step keeps the types, and the index inside the burst.
THEOREM TypedStep == Typed /\ [Next]_vars => Typed'
<1> SUFFICES ASSUME Typed, [Next]_vars PROVE Typed'
  OBVIOUS
<1> USE BridgeAssumption
<1>1. CASE RecvBurst
  BY <1>1 DEF RecvBurst, Typed, TypeOK, InHand, Linked, Handling, Locations,
     Header, Datagram, tables
<1>2. CASE RecvFails
  BY <1>2 DEF RecvFails, Typed, TypeOK, InHand, Linked, Handling, tables
<1>3. CASE FdbKnown
  BY <1>3 DEF FdbKnown, Typed, TypeOK, InHand, Linked, Handling, Locations, tables
<1>4. CASE FdbInsert
  <2>1. Frame \in Datagram
    BY <1>4, FrameType DEF FdbInsert, Handling
  <2> QED
    BY <1>4, <2>1 DEF FdbInsert, Typed, TypeOK, InHand, Linked, Handling,
       Locations, Datagram
<1>5. CASE FdbNoMemory
  BY <1>5 DEF FdbNoMemory, Typed, TypeOK, InHand, Linked, Handling, Locations,
     Errno, tables
<1>6. CASE ListShare
  <2>1. Frame \in Datagram
    BY <1>6, FrameType DEF ListShare, Handling
  <2>2. PICK p \in RecordsOf(Frame.from) :
          /\ pa_heap' = [pa_heap EXCEPT ![p] = Share(@)]
          /\ l_head' = Prepend(p)
    BY <1>6 DEF ListShare
  <2>3. p \in DOMAIN pa_heap /\ p \in Nat
    BY DEF RecordsOf, Typed, Linked, TypeOK, Entry
  <2>4. pa_heap' \in Seq(PeerAddrInfo) /\ DOMAIN pa_heap' = DOMAIN pa_heap
    <3>1. pa_heap \in Seq(PeerAddrInfo) /\ pa_heap[p] \in PeerAddrInfo
      BY <2>3 DEF Typed, TypeOK
    <3> QED
      BY <2>2, <2>3, <3>1, ShareRecord, SeqUpdate
  <2>5. l_head' \in Seq(Entry)
    BY <2>1, <2>2, <2>3 DEF Prepend, Typed, TypeOK, Entry, Datagram
  <2>6. Linked'
    BY <2>2, <2>3, <2>4 DEF Prepend, Typed, TypeOK, Linked
  <2> QED
    BY <1>6, <2>4, <2>5, <2>6 DEF ListShare, Typed, TypeOK, InHand, Handling, Locations
<1>7. CASE ListNew
  <2>1. Frame \in Datagram
    BY <1>7, FrameType DEF ListNew, Handling
  <2>2. pa_heap' \in Seq(PeerAddrInfo) /\ DOMAIN pa_heap' = 1 .. Len(pa_heap) + 1
    <3>1. Bump(0) \in 0 .. CountMod - 1
      BY BumpRange
    <3> QED
      BY <1>7, <2>1, <3>1 DEF ListNew, Typed, TypeOK, PeerAddrInfo, Datagram
  <2>3. l_head' \in Seq(Entry)
    BY <1>7, <2>1 DEF ListNew, Prepend, Typed, TypeOK, Entry, Datagram
  <2>4. Linked'
    BY <1>7, <2>2 DEF ListNew, Prepend, Typed, TypeOK, Linked
  <2> QED
    BY <1>7, <2>2, <2>3, <2>4 DEF ListNew, Typed, TypeOK, InHand, Handling, Locations
<1>8. CASE ListNoMemory
  BY <1>8 DEF ListNoMemory, Typed, TypeOK, InHand, Linked, Handling, Locations,
     Errno, tables
<1>9. CASE ForwardLocal
  <2>1. Frame \in Datagram
    BY <1>9, FrameType DEF ForwardLocal, Handling
  <2>2. ip_stat' \in [Ips -> Counters]
    BY <1>9, <2>1, StatRange DEF ForwardLocal, Typed, TypeOK, Datagram
  <2> QED
    BY <1>9, <2>2, EndFrameStep DEF ForwardLocal, Typed, TypeOK, Linked, Locations, tables
<1>10. CASE ForwardToArray
  <2>1. Frame \in Datagram
    BY <1>10, FrameType DEF ForwardToArray, Handling
  <2>2. Target \in Addrs
    BY <1>10, <2>1 DEF ForwardToArray, Target, Typed, TypeOK
  <2>3. ip_stat' \in [Ips -> Counters]
    BY <1>10, <2>1, <2>2, StatRange DEF ForwardToArray, Typed, TypeOK, Datagram
  <2>4. to_array' \in Seq(Copy)
    BY <1>10, <2>1, <2>2 DEF ForwardToArray, Typed, TypeOK, Copy
  <2> QED
    BY <1>10, <2>3, <2>4, EndFrameStep
       DEF ForwardToArray, Typed, TypeOK, Linked, Locations, tables
<1>11. CASE FloodStart
  <2>1. Frame \in Datagram
    BY <1>11, FrameType DEF FloodStart, Handling
  <2>2. ip_stat' \in [Ips -> Counters]
    BY <1>11, <2>1, StatRange DEF FloodStart, Typed, TypeOK, Datagram
  <2> QED
    BY <1>11, <2>2 DEF FloodStart, Typed, TypeOK, InHand, Linked, Handling,
       Locations, tables
<1>12. CASE FloodSkip
  BY <1>12 DEF FloodSkip, Typed, TypeOK, InHand, Linked, Handling, tables
<1>13. CASE FloodSend
  <2>1. Frame \in Datagram /\ Peer(cursor) \in PeerAddrInfo
    BY <1>13, FrameType, PeerType DEF FloodSend, Flooding, Handling
  <2>2. pa_heap' \in Seq(PeerAddrInfo) /\ DOMAIN pa_heap' = DOMAIN pa_heap
    BY <1>13, FlagUp DEF FloodSend
  <2>3. ip_stat' \in [Ips -> Counters]
    BY <1>13, <2>1, StatRange DEF FloodSend, Typed, TypeOK, PeerAddrInfo
  <2>4. wire' \in Seq(Copy)
    BY <1>13, <2>1 DEF FloodSend, Typed, TypeOK, Copy, PeerAddrInfo
  <2> QED
    BY <1>13, <2>2, <2>3, <2>4
       DEF FloodSend, Typed, TypeOK, InHand, Linked, Handling
<1>14. CASE FloodSendFails
  <2>1. pa_heap' \in Seq(PeerAddrInfo) /\ DOMAIN pa_heap' = DOMAIN pa_heap
    BY <1>14, FlagUp DEF FloodSendFails
  <2> QED
    BY <1>14, <2>1 DEF FloodSendFails, Typed, TypeOK, InHand, Linked, Handling
<1>15. CASE FloodEnd
  <2>1. pa_heap' \in Seq(PeerAddrInfo) /\ DOMAIN pa_heap' = DOMAIN pa_heap
    BY <1>15, FlagsDown DEF FloodEnd
  <2> QED
    BY <1>15, <2>1, EndFrameStep DEF FloodEnd, Typed, TypeOK, Linked, Locations
<1>16. CASE SendOne
  BY <1>16 DEF SendOne, Typed, TypeOK, InHand, Linked, Handling, tables
<1>17. CASE SendDone
  BY <1>17 DEF SendDone, Typed, TypeOK, InHand, Linked, Handling, Locations, tables
<1>18. CASE SendRetry
  <2>1. to_array' \in Seq(Copy)
    BY <1>18, SubSeqProperties DEF SendRetry, ShortSend, Unsent, Typed, TypeOK
  <2> QED
    BY <1>18, <2>1 DEF SendRetry, ShortSend, Typed, TypeOK, InHand, Linked,
       Handling, Locations, Errno, tables
<1>19. CASE SendGiveUp
  BY <1>19 DEF SendGiveUp, ShortSend, Typed, TypeOK, InHand, Linked, Handling,
     Locations, tables
<1>20. CASE UNCHANGED vars
  BY <1>20 DEF vars, tables, Typed, TypeOK, InHand, Linked, Handling
<1> QED
  BY <1>1, <1>2, <1>3, <1>4, <1>5, <1>6, <1>7, <1>8, <1>9, <1>10, <1>11, <1>12,
     <1>13, <1>14, <1>15, <1>16, <1>17, <1>18, <1>19, <1>20 DEF Next, Handle

\* Every variable of the RX thread keeps its type, whatever the burst.
THEOREM TypeCorrect == Spec => []TypeOK
<1>1. Spec => []Typed
  BY TypedInit, TypedStep, PTL DEF Spec
<1>2. Typed => TypeOK
  BY DEF Typed
<1> QED
  BY <1>1, <1>2, PTL

-----------------------------------------------------------------------------
(* The two tables and the flood flags.  The three invariants of the runs   *)
(* become inductive with two facts: no record is without an entry, and     *)
(* while a MAC is being enlisted the FDB has it and the list has not.      *)

Referenced ==
  \A p \in DOMAIN pa_heap : \E x \in DOMAIN l_head : l_head[x].pa = p

Enlisting ==
  pc = "enlist" => /\ h_head[Frame.src] = Frame.from
                   /\ \A x \in DOMAIN l_head : l_head[x].mac # Frame.src

\* LocatedIsFloodable, but for the MAC that is being enlisted.
Floodable ==
  ~AllocMayFail =>
    \A m \in Macs :
      h_head[m] # NoAddr /\ (pc = "enlist" => m # Frame.src) =>
        \E x \in DOMAIN l_head : Peer(x).addr = h_head[m]

Tables ==
  /\ ListAgreesWithFdb
  /\ Referenced
  /\ Enlisting
  /\ Floodable

TablesInv == Typed /\ Tables /\ NoStaleFlag

\* Steps that leave the tables and the addresses of the records keep what the
\* tables must satisfy, unless they begin or end an enlisting.
LEMMA TablesKept ==
  ASSUME Tables, UNCHANGED <<h_head, l_head>>,
         DOMAIN pa_heap' = DOMAIN pa_heap,
         \A p \in DOMAIN pa_heap : pa_heap'[p].addr = pa_heap[p].addr,
         pc' # "enlist", pc # "enlist" \/ AllocMayFail
  PROVE  Tables'
<1>1. \A x \in DOMAIN l_head : l_head[x].pa \in DOMAIN pa_heap
  BY DEF Tables, ListAgreesWithFdb
<1>2. \A x \in DOMAIN l_head' : Peer(x)'.addr = Peer(x).addr
  BY <1>1 DEF Peer
<1>3. ListAgreesWithFdb'
  BY <1>2 DEF Tables, ListAgreesWithFdb
<1>4. Floodable'
  BY <1>2 DEF Tables, Floodable
<1> QED
  BY <1>3, <1>4 DEF Tables, Referenced, Enlisting

\* CDL_PREPEND moves each entry up by one place.
LEMMA PrependStep ==
  ASSUME Typed, pc = "enlist", NEW p \in Nat
  PROVE  /\ DOMAIN Prepend(p) = 1 .. Len(l_head) + 1
         /\ DOMAIN l_head = 1 .. Len(l_head)
         /\ Len(l_head) \in Nat
         /\ Prepend(p)[1] = [mac |-> Frame.src, pa |-> p]
         /\ \A x \in DOMAIN l_head : Prepend(p)[x + 1] = l_head[x]
         /\ \A x \in DOMAIN Prepend(p) :
              x # 1 => x - 1 \in DOMAIN l_head /\ Prepend(p)[x] = l_head[x - 1]
  BY DEF Typed, TypeOK, Prepend

\* An entry for the client of the frame is linked before the head: it points
\* to the one record with the client's address, and no other record moves.
LEMMA Enlisted ==
  ASSUME TablesInv, pc = "enlist", pc' = "route",
         NEW p \in DOMAIN pa_heap', p \in Nat, l_head' = Prepend(p),
         UNCHANGED h_head,
         DOMAIN pa_heap \subseteq DOMAIN pa_heap',
         \A q \in DOMAIN pa_heap' : q \in DOMAIN pa_heap \/ q = p,
         \A q \in DOMAIN pa_heap : pa_heap'[q].addr = pa_heap[q].addr,
         pa_heap'[p].addr = Frame.from,
         \A q \in DOMAIN pa_heap : pa_heap[q].addr = Frame.from => q = p
  PROVE  Tables'
<1> USE DEF TablesInv
<1> DEFINE n == Len(l_head)
<1>1. /\ DOMAIN l_head' = 1 .. n + 1
      /\ DOMAIN l_head = 1 .. n
      /\ n \in Nat
      /\ l_head'[1] = [mac |-> Frame.src, pa |-> p]
      /\ \A x \in DOMAIN l_head : l_head'[x + 1] = l_head[x]
      /\ \A x \in DOMAIN l_head' :
           x # 1 => x - 1 \in DOMAIN l_head /\ l_head'[x] = l_head[x - 1]
  BY PrependStep
<1> HIDE DEF n
<1>2. \A x \in DOMAIN l_head : l_head[x].pa \in DOMAIN pa_heap
  BY DEF Tables, ListAgreesWithFdb
<1>3. /\ h_head[Frame.src] = Frame.from
      /\ \A x \in DOMAIN l_head : l_head[x].mac # Frame.src
  BY DEF Tables, Enlisting
<1>4. \A x, y \in DOMAIN l_head' : l_head'[x].mac = l_head'[y].mac => x = y
  <2>1. \A x \in DOMAIN l_head' : x # 1 => l_head'[x].mac # Frame.src
    BY <1>1, <1>3
  <2>2. \A x, y \in DOMAIN l_head' :
          x # 1 /\ y # 1 /\ l_head'[x].mac = l_head'[y].mac => x - 1 = y - 1
    BY <1>1 DEF Tables, ListAgreesWithFdb
  <2>3. l_head'[1].mac = Frame.src
    BY <1>1
  <2> QED
    BY <1>1, <2>1, <2>2, <2>3
<1>5. \A x \in DOMAIN l_head' : l_head'[x].pa \in DOMAIN pa_heap'
  BY <1>1, <1>2
<1>6. \A x \in DOMAIN l_head' :
        Peer(x)'.addr = IF x = 1 THEN Frame.from ELSE Peer(x - 1).addr
  <2>1. Peer(1)'.addr = Frame.from
    BY <1>1 DEF Peer
  <2>2. ASSUME NEW x \in DOMAIN l_head', x # 1
        PROVE  Peer(x)'.addr = Peer(x - 1).addr
    BY <1>1, <1>2, <2>2 DEF Peer
  <2> QED
    BY <2>1, <2>2
<1>7. \A x \in DOMAIN l_head' : Peer(x)'.addr = h_head'[l_head'[x].mac]
  <2>1. ASSUME NEW x \in DOMAIN l_head', x # 1
        PROVE  Peer(x)'.addr = h_head'[l_head'[x].mac]
    <3>1. x - 1 \in DOMAIN l_head /\ l_head'[x] = l_head[x - 1]
      BY <1>1, <2>1
    <3>2. Peer(x - 1).addr = h_head[l_head[x - 1].mac]
      BY <3>1 DEF Tables, ListAgreesWithFdb
    <3> QED
      BY <1>6, <2>1, <3>1, <3>2
  <2>2. 1 \in DOMAIN l_head' => Peer(1)'.addr = h_head'[l_head'[1].mac]
    BY <1>1, <1>3, <1>6
  <2> QED
    BY <2>1, <2>2
<1>8. \A q, r \in DOMAIN pa_heap' : pa_heap'[q].addr = pa_heap'[r].addr => q = r
  BY DEF Tables, ListAgreesWithFdb
<1>9. ListAgreesWithFdb'
  BY <1>4, <1>5, <1>7, <1>8 DEF ListAgreesWithFdb
<1>10. Referenced'
  <2> SUFFICES ASSUME NEW q \in DOMAIN pa_heap'
               PROVE  \E x \in DOMAIN l_head' : l_head'[x].pa = q
    BY DEF Referenced
  <2>1. CASE q = p
    BY <1>1, <2>1
  <2>2. CASE q \in DOMAIN pa_heap
    <3>1. PICK x \in DOMAIN l_head : l_head[x].pa = q
      BY <2>2 DEF Tables, Referenced
    <3>2. x + 1 \in DOMAIN l_head' /\ l_head'[x + 1].pa = q
      BY <1>1, <3>1
    <3> QED
      BY <3>2
  <2> QED
    BY <2>1, <2>2
<1>11. Floodable'
  <2> SUFFICES ASSUME ~AllocMayFail, NEW m \in Macs, h_head[m] # NoAddr
               PROVE  \E x \in DOMAIN l_head' : Peer(x)'.addr = h_head[m]
    BY DEF Floodable
  <2>1. CASE m = Frame.src
    <3>1. 1 \in DOMAIN l_head' /\ Peer(1)'.addr = h_head[m]
      BY <1>1, <1>3, <1>6, <2>1
    <3> QED
      BY <3>1
  <2>2. CASE m # Frame.src
    <3>1. PICK x \in DOMAIN l_head : Peer(x).addr = h_head[m]
      BY <2>2 DEF Tables, Floodable
    <3>2. x + 1 \in DOMAIN l_head' /\ Peer(x + 1)'.addr = Peer(x).addr
      <4>1. x + 1 \in DOMAIN l_head' /\ x + 1 # 1 /\ (x + 1) - 1 = x
        BY <1>1
      <4> QED
        BY <1>6, <4>1
    <3> QED
      BY <3>1, <3>2
  <2> QED
    BY <2>1, <2>2
<1> QED
  BY <1>9, <1>10, <1>11 DEF Tables, Enlisting

\* The empty tables agree.
THEOREM TablesInit == Init => TablesInv
<1> SUFFICES ASSUME Init PROVE TablesInv
  OBVIOUS
<1>1. DOMAIN l_head = {} /\ DOMAIN pa_heap = {}
  BY DEF Init
<1> QED
  BY <1>1, TypedInit DEF Init, TablesInv, Tables, ListAgreesWithFdb, Referenced,
     Enlisting, Floodable, NoStaleFlag

\* The actions that leave the tables alone and are not about the enlisting.
Elsewhere ==
  \/ RecvBurst \/ RecvFails \/ FdbKnown \/ FdbNoMemory
  \/ ForwardLocal \/ ForwardToArray \/ FloodStart \/ FloodSkip
  \/ SendOne \/ SendDone \/ SendRetry \/ SendGiveUp

\* The steps that touch neither the tables nor the flags.
LEMMA ElsewhereStep ==
  ASSUME Elsewhere
  PROVE  /\ UNCHANGED tables
         /\ pc # "enlist" /\ pc' # "enlist"
         /\ pc = "flood" => pc' = "flood" /\ cursor' = cursor + 1
         /\ pc' = "flood" => pc \in {"flood", "route"}
  BY DEF Elsewhere, RecvBurst, RecvFails, FdbKnown, FdbNoMemory, ForwardLocal,
     ForwardToArray, FloodStart, FloodSkip, Flooding, SendOne, SendDone,
     SendRetry, SendGiveUp, EndFrame, tables

\* Every step keeps the tables in agreement and every flag within its flood.
THEOREM TablesStep == TablesInv /\ [Next]_vars => TablesInv'
<1> SUFFICES ASSUME TablesInv, [Next]_vars PROVE TablesInv'
  OBVIOUS
<1> USE BridgeAssumption DEF TablesInv
<1>0. Typed'
  BY TypedStep
<1>1. CASE Elsewhere
  <2>1. Tables'
    BY <1>1, ElsewhereStep, TablesKept DEF tables
  <2>2. NoStaleFlag'
    <3>1. cursor \in Nat
      BY DEF Typed, TypeOK
    <3>2. UNCHANGED tables
      BY <1>1, ElsewhereStep
    <3> SUFFICES ASSUME NEW p \in DOMAIN pa_heap, pa_heap[p].flood_flag = 1
                 PROVE  /\ pc' = "flood"
                        /\ \E x \in DOMAIN l_head : x < cursor' /\ l_head[x].pa = p
      BY <3>2 DEF NoStaleFlag, tables
    <3>3. pc = "flood" /\ \E x \in DOMAIN l_head : x < cursor /\ l_head[x].pa = p
      BY DEF NoStaleFlag
    <3>4. l_head \in Seq(Entry)
      BY DEF Typed, TypeOK
    <3>5. pc' = "flood" /\ cursor' = cursor + 1
      BY <1>1, <3>3, ElsewhereStep
    <3> QED
      BY <3>1, <3>3, <3>4, <3>5
  <2> QED
    BY <1>0, <2>1, <2>2
<1>2. CASE FdbInsert
  <2>1. Frame \in Datagram /\ Frame.src \in Macs /\ Frame.from \in Addrs
    BY <1>2, FrameType DEF FdbInsert, Handling, Datagram
  <2>2. /\ h_head' = [h_head EXCEPT ![Frame.src] = Frame.from]
        /\ h_head[Frame.src] = NoAddr
        /\ h_head \in [Macs -> Addrs \cup {NoAddr}]
        /\ UNCHANGED <<l_head, pa_heap, burst, i>>
        /\ pc = "learn" /\ pc' = "enlist"
    BY <1>2 DEF FdbInsert, Typed, TypeOK
  <2>3. \A x \in DOMAIN l_head : /\ l_head[x].mac \in Macs
                                 /\ Peer(x).addr \in Addrs
                                 /\ Peer(x).addr = h_head[l_head[x].mac]
    BY PeerType DEF Entry, PeerAddrInfo, Tables, ListAgreesWithFdb
  <2>4. \A x \in DOMAIN l_head : l_head[x].mac # Frame.src
    BY <2>2, <2>3
  <2>5. \A x \in DOMAIN l_head : Peer(x)' = Peer(x) /\ Frame' = Frame
    BY <2>2 DEF Peer, Frame
  <2>6. Frame' = Frame
    BY <2>2 DEF Frame
  <2>7. ListAgreesWithFdb'
    BY <2>2, <2>3, <2>4, <2>5 DEF Tables, ListAgreesWithFdb
  <2>8. Floodable'
    BY <2>2, <2>5, <2>6 DEF Tables, Floodable
  <2>9. Enlisting'
    BY <2>1, <2>2, <2>4, <2>6 DEF Enlisting
  <2>10. NoStaleFlag'
    BY <2>2 DEF NoStaleFlag
  <2> QED
    BY <1>0, <2>2, <2>7, <2>8, <2>9, <2>10 DEF Tables, Referenced
<1>3. CASE ListShare
  <2>1. PICK p \in RecordsOf(Frame.from) :
          /\ pa_heap' = [pa_heap EXCEPT ![p] = Share(@)]
          /\ l_head' = Prepend(p)
    BY <1>3 DEF ListShare
  <2>2. p \in DOMAIN pa_heap /\ p \in Nat /\ pa_heap[p].addr = Frame.from
    BY PeerType DEF RecordsOf, Typed, Linked, Entry, Peer
  <2>3. pa_heap \in Seq(PeerAddrInfo) /\ pa_heap[p] \in PeerAddrInfo
    BY <2>2 DEF Typed, TypeOK
  <2>4. /\ DOMAIN pa_heap' = DOMAIN pa_heap
        /\ \A q \in DOMAIN pa_heap :
             /\ pa_heap'[q].addr = pa_heap[q].addr
             /\ pa_heap'[q].flood_flag = 1 => pa_heap[q].flood_flag = 1
    <3>1. \A q \in DOMAIN pa_heap :
            pa_heap'[q] = IF q = p THEN Share(pa_heap[p]) ELSE pa_heap[q]
      BY <2>1, <2>2, <2>3
    <3>2. /\ Share(pa_heap[p]).addr = pa_heap[p].addr
          /\ Share(pa_heap[p]).flood_flag = 0
      BY <2>3, ShareRecord
    <3>3. DOMAIN pa_heap' = DOMAIN pa_heap
      BY <2>1
    <3> QED
      BY <3>1, <3>2, <3>3
  <2>5. \A q \in DOMAIN pa_heap : pa_heap[q].addr = Frame.from => q = p
    BY <2>2 DEF Tables, ListAgreesWithFdb
  <2>6. pc = "enlist" /\ pc' = "route" /\ UNCHANGED h_head
    BY <1>3 DEF ListShare
  <2>7. Tables'
    BY <2>1, <2>2, <2>4, <2>5, <2>6, Enlisted
  <2>8. NoStaleFlag'
    BY <2>4, <2>6 DEF NoStaleFlag
  <2> QED
    BY <1>0, <2>7, <2>8
<1>4. CASE ListNew
  <2> DEFINE p == Len(pa_heap) + 1
  <2>1. pa_heap \in Seq(PeerAddrInfo) /\ Len(pa_heap) \in Nat
    BY DEF Typed, TypeOK
  <2>2. /\ DOMAIN pa_heap' = DOMAIN pa_heap \cup {p}
        /\ p \in Nat
        /\ \A q \in DOMAIN pa_heap : pa_heap'[q] = pa_heap[q]
        /\ pa_heap'[p].addr = Frame.from
        /\ pa_heap'[p].flood_flag = 0
    BY <1>4, <2>1 DEF ListNew
  <2>3. l_head' = Prepend(p) /\ pc = "enlist" /\ pc' = "route" /\ UNCHANGED h_head
    BY <1>4 DEF ListNew
  <2> HIDE DEF p
  <2>4. ASSUME NEW q \in DOMAIN pa_heap, pa_heap[q].addr = Frame.from
        PROVE  FALSE
    <3>1. PICK x \in DOMAIN l_head : l_head[x].pa = q
      BY DEF Tables, Referenced
    <3>2. q \in RecordsOf(Frame.from)
      BY <2>4, <3>1 DEF RecordsOf, Peer
    <3> QED
      BY <1>4, <3>2 DEF ListNew
  <2>5. Tables'
    BY <2>2, <2>3, <2>4, Enlisted
  <2>6. NoStaleFlag'
    BY <2>2, <2>3 DEF NoStaleFlag
  <2> QED
    BY <1>0, <2>5, <2>6
<1>5. CASE ListNoMemory
  <2>1. Tables'
    BY <1>5, TablesKept DEF ListNoMemory, tables
  <2>2. NoStaleFlag'
    BY <1>5 DEF ListNoMemory, tables, NoStaleFlag
  <2> QED
    BY <1>0, <2>1, <2>2
<1>6. CASE FloodSend \/ FloodSendFails
  <2>1. /\ Flooding
        /\ pa_heap' = [pa_heap EXCEPT ![l_head[cursor].pa] = SetFlag(@, 1)]
        /\ cursor' = cursor + 1
        /\ UNCHANGED <<pc, h_head, l_head>>
    BY <1>6 DEF FloodSend, FloodSendFails
  <2>2. /\ DOMAIN pa_heap' = DOMAIN pa_heap
        /\ \A p \in DOMAIN pa_heap :
             /\ pa_heap'[p].addr = pa_heap[p].addr
             /\ pa_heap'[p].flood_flag =
                  IF p = l_head[cursor].pa THEN 1 ELSE pa_heap[p].flood_flag
    BY <2>1, FlagUp
  <2>3. Tables'
    BY <2>1, <2>2, TablesKept DEF Flooding
  <2>4. NoStaleFlag'
    <3> SUFFICES ASSUME NEW p \in DOMAIN pa_heap, pa_heap'[p].flood_flag = 1
                 PROVE  \E x \in DOMAIN l_head : x < cursor + 1 /\ l_head[x].pa = p
      BY <2>1, <2>2 DEF NoStaleFlag, Flooding
    <3>1. cursor \in Nat /\ cursor \in DOMAIN l_head /\ l_head \in Seq(Entry)
      BY <2>1 DEF Typed, TypeOK, Flooding
    <3>2. CASE p = l_head[cursor].pa
      BY <3>1, <3>2
    <3>3. CASE p # l_head[cursor].pa
      <4>1. PICK x \in DOMAIN l_head : x < cursor /\ l_head[x].pa = p
        BY <2>2, <3>3 DEF NoStaleFlag
      <4> QED
        BY <3>1, <4>1
    <3> QED
      BY <3>2, <3>3
  <2> QED
    BY <1>0, <2>3, <2>4
<1>7. CASE FloodEnd
  <2>1. /\ DOMAIN pa_heap' = DOMAIN pa_heap
        /\ \A p \in DOMAIN pa_heap :
             /\ pa_heap'[p].addr = pa_heap[p].addr
             /\ (\E x \in DOMAIN l_head : l_head[x].pa = p) =>
                  pa_heap'[p].flood_flag = 0
    BY <1>7, FlagsDown DEF FloodEnd
  <2>2. /\ pc = "flood" /\ pc' # "enlist"
        /\ UNCHANGED <<h_head, l_head>>
    BY <1>7 DEF FloodEnd, EndFrame
  <2>3. Tables'
    BY <2>1, <2>2, TablesKept
  <2>4. NoStaleFlag'
    BY <2>1 DEF NoStaleFlag, Tables, Referenced
  <2> QED
    BY <1>0, <2>3, <2>4
<1>8. CASE UNCHANGED vars
  BY <1>0, <1>8 DEF vars, tables, Tables, ListAgreesWithFdb, Referenced,
     Enlisting, Floodable, NoStaleFlag, Peer, Frame
<1> QED
  BY <1>1, <1>2, <1>3, <1>4, <1>5, <1>6, <1>7, <1>8 DEF Next, Handle, Elsewhere

\* The invariant of the tables holds in every state of the RX thread.
LEMMA TablesAlways == Spec => []TablesInv
  BY TablesInit, TablesStep, PTL DEF Spec

\* The list and the FDB agree for every number of stations and clients, also
\* when allocations fail in the middle of learning.
THEOREM ListCorrect == Spec => []ListAgreesWithFdb
<1>1. TablesInv => ListAgreesWithFdb
  BY DEF TablesInv, Tables
<1> QED
  BY <1>1, TablesAlways, PTL

\* No flag outlives its flood: the clearing loop of wlan_br_flood reaches
\* every record, because each has an entry.
THEOREM FlagsCorrect == Spec => []NoStaleFlag
<1>1. TablesInv => NoStaleFlag
  BY DEF TablesInv
<1> QED
  BY <1>1, TablesAlways, PTL

\* With memory, floods reach every client that has a located station.
THEOREM FloodReaches == Spec => []LocatedIsFloodable
<1>1. TablesInv => LocatedIsFloodable
  BY DEF TablesInv, Tables, Floodable, LocatedIsFloodable
<1> QED
  BY <1>1, TablesAlways, PTL

-----------------------------------------------------------------------------
(* The share counts.  Counting positions of the list, and counting in a    *)
(* field that wraps.                                                       *)

\* A set of positions of a sequence is finite.
LEMMA PositionsFinite ==
  ASSUME NEW n \in Nat, NEW S, S \subseteq 1 .. n
  PROVE  IsFiniteSet(S) /\ Cardinality(S) \in Nat
<1>1. IsFiniteSet(1 .. n)
  BY FS_Interval
<1>2. IsFiniteSet(S)
  BY <1>1, FS_Subset
<1> QED
  BY <1>2, FS_CardinalityType

\* Positions that all move by the same distance stay as many.
LEMMA PositionsShift ==
  ASSUME NEW S, S \subseteq Int, IsFiniteSet(S), NEW T, T \subseteq Int,
         \E d \in Int : \A x \in Int : x + d \in T <=> x \in S
  PROVE  IsFiniteSet(T) /\ Cardinality(T) = Cardinality(S)
<1> PICK d \in Int : \A x \in Int : x + d \in T <=> x \in S
  OBVIOUS
<1> DEFINE f == [x \in S |-> x + d]
<1>1. f \in Bijection(S, T)
  <2>1. f \in [S -> T]
    OBVIOUS
  <2>2. \A x, y \in S : f[x] = f[y] => x = y
    OBVIOUS
  <2>3. \A t \in T : \E x \in S : f[x] = t
    <3> TAKE t \in T
    <3>1. t - d \in Int /\ (t - d) + d = t
      OBVIOUS
    <3>2. t - d \in S
      BY <3>1
    <3> QED
      BY <3>1, <3>2
  <2> HIDE DEF f
  <2> QED
    BY <2>1, <2>2, <2>3 DEF Bijection, Injection, Surjection, IsInjective
<1>2. ExistsBijection(S, T)
  BY <1>1 DEF ExistsBijection
<1> QED
  BY <1>2, FS_Bijection

\* One more position.
LEMMA PositionAdded ==
  ASSUME NEW S, IsFiniteSet(S), NEW T, NEW y, y \notin S,
         T = S \/ T = S \cup {y}
  PROVE  /\ IsFiniteSet(T)
         /\ Cardinality(T) = Cardinality(S) + (IF y \in T THEN 1 ELSE 0)
<1>1. Cardinality(S) \in Nat
  BY FS_CardinalityType
<1> QED
  BY <1>1, FS_AddElement

\* The positions of what is kept when an entry is put before a list.
LEMMA PositionsPrepended ==
  ASSUME NEW S, S \subseteq Nat \ {0}, IsFiniteSet(S),
         NEW T, T \subseteq Nat \ {0},
         \A x \in Nat \ {0} : x + 1 \in T <=> x \in S
  PROVE  Cardinality(T) = Cardinality(S) + (IF 1 \in T THEN 1 ELSE 0)
<1> DEFINE U == T \ {1}
<1>0. U \subseteq Int
  OBVIOUS
<1>1. IsFiniteSet(U) /\ Cardinality(U) = Cardinality(S)
  <2>1. \A x \in Int : x + 1 \in U <=> x \in S
    OBVIOUS
  <2>2. S \subseteq Int
    OBVIOUS
  <2>3. \E d \in Int : \A x \in Int : x + d \in U <=> x \in S
    <3> HIDE DEF U
    <3> WITNESS 1 \in Int
    <3> QED
      BY <2>1
  <2> HIDE DEF U
  <2> QED
    BY <1>0, <2>2, <2>3, PositionsShift
<1>2. 1 \notin U /\ (T = U \/ T = U \cup {1})
  OBVIOUS
<1> HIDE DEF U
<1>3. Cardinality(T) = Cardinality(U) + (IF 1 \in T THEN 1 ELSE 0)
  BY <1>1, <1>2, PositionAdded
<1> QED
  BY <1>1, <1>3

\* Quotient and remainder are unique.
LEMMA RemainderUnique ==
  ASSUME NEW m \in Nat \ {0}, NEW q \in Int, NEW s \in Int,
         NEW r \in 0 .. m - 1, NEW t \in 0 .. m - 1, m * q + r = m * s + t
  PROVE  r = t
<1>1. m * (q - s) = t - r
  OBVIOUS
<1>2. CASE q > s
  <2>1. m * (q - s) >= m
    BY <1>2
  <2> QED
    BY <1>1, <2>1
<1>3. CASE q < s
  <2>1. m * (q - s) <= -m
    BY <1>3
  <2> QED
    BY <1>1, <2>1
<1> QED
  BY <1>2, <1>3

\* Counting in a field that wraps is counting and then wrapping.
LEMMA CountWraps ==
  ASSUME NEW c \in Nat, NEW m \in Nat \ {0}
  PROVE  ((c % m) + 1) % m = (c + 1) % m
<1> DEFINE q == c \div m
           r == c % m
           s == (c + 1) \div m
           t == (c + 1) % m
<1>1. c = m * q + r /\ q \in Int /\ r \in 0 .. m - 1
  OBVIOUS
<1>2. c + 1 = m * s + t /\ s \in Int /\ t \in 0 .. m - 1
  OBVIOUS
<1>3. (r + 1 < m => (r + 1) % m = r + 1) /\ m % m = 0
  OBVIOUS
<1> HIDE DEF q, r, s, t
<1>4. CASE r + 1 < m
  <2>1. r + 1 \in 0 .. m - 1 /\ m * q + (r + 1) = m * s + t
    BY <1>1, <1>2, <1>4
  <2>2. r + 1 = t
    BY <1>1, <1>2, <2>1, RemainderUnique
  <2> QED
    BY <1>3, <1>4, <2>2 DEF r, t
<1>5. CASE r + 1 = m
  <2>1. 0 \in 0 .. m - 1 /\ m * (q + 1) + 0 = m * s + t /\ q + 1 \in Int
    BY <1>1, <1>2, <1>5
  <2>2. t = 0
    BY <1>2, <2>1, RemainderUnique
  <2> QED
    BY <1>3, <1>5, <2>2 DEF r, t
<1> QED
  BY <1>1, <1>4, <1>5

\* The entries of the list that point to a record.
Sharing(p) == {x \in DOMAIN l_head : l_head[x].pa = p}

SharesInv == TablesInv /\ ShareCount

\* Linking an entry for the record p before the head adds it to the entries
\* of p, whether the record is shared or new (CDL_PREPEND in
\* wlan_list_update).
LEMMA SharingPrepended ==
  ASSUME Typed, pc = "enlist", NEW p \in Nat, l_head' = Prepend(p), NEW q
  PROVE  /\ Cardinality(Sharing(q)) \in Nat
         /\ Cardinality(Sharing(q)') =
              Cardinality(Sharing(q)) + (IF q = p THEN 1 ELSE 0)
<1> DEFINE n == Len(l_head)
<1>1. /\ DOMAIN l_head' = 1 .. n + 1
      /\ DOMAIN l_head = 1 .. n
      /\ n \in Nat
      /\ l_head'[1] = [mac |-> Frame.src, pa |-> p]
      /\ \A x \in DOMAIN l_head : l_head'[x + 1] = l_head[x]
  BY PrependStep
<1> HIDE DEF n
<1>2. /\ Sharing(q) \subseteq 1 .. n
      /\ Sharing(q) \subseteq Nat \ {0}
      /\ Sharing(q)' \subseteq Nat \ {0}
  BY <1>1 DEF Sharing
<1>3. \A x \in Nat \ {0} : x + 1 \in Sharing(q)' <=> x \in Sharing(q)
  BY <1>1 DEF Sharing
<1>4. 1 \in Sharing(q)' <=> q = p
  BY <1>1 DEF Sharing
<1>5. IsFiniteSet(Sharing(q)) /\ Cardinality(Sharing(q)) \in Nat
  BY <1>1, <1>2, PositionsFinite
<1>6. Cardinality(Sharing(q)') =
        Cardinality(Sharing(q)) + (IF 1 \in Sharing(q)' THEN 1 ELSE 0)
  <2> DEFINE S == Sharing(q)
             T == Sharing(q)'
  <2>1. /\ S \subseteq Nat \ {0} /\ T \subseteq Nat \ {0}
        /\ IsFiniteSet(S)
        /\ \A x \in Nat \ {0} : x + 1 \in T <=> x \in S
    BY <1>2, <1>3, <1>5
  <2> HIDE DEF S, T
  <2>2. Cardinality(T) = Cardinality(S) + (IF 1 \in T THEN 1 ELSE 0)
    BY <2>1, PositionsPrepended
  <2> QED
    BY <2>2 DEF S, T
<1> QED
  BY <1>4, <1>5, <1>6

\* Every step but the two that link an entry leaves the list, the records and
\* their counts.
LEMMA CountsKept ==
  ASSUME Typed, [Next]_vars, ~ListShare, ~ListNew
  PROVE  /\ UNCHANGED l_head
         /\ DOMAIN pa_heap' = DOMAIN pa_heap
         /\ \A p \in DOMAIN pa_heap : pa_heap'[p].count = pa_heap[p].count
<1>1. CASE Elsewhere
  BY <1>1, ElsewhereStep DEF tables
<1>2. CASE FdbInsert \/ ListNoMemory \/ UNCHANGED vars
  BY <1>2 DEF FdbInsert, ListNoMemory, vars, tables
<1>3. CASE FloodSend \/ FloodSendFails
  <2>1. /\ Flooding
        /\ pa_heap' = [pa_heap EXCEPT ![l_head[cursor].pa] = SetFlag(@, 1)]
        /\ UNCHANGED l_head
    BY <1>3 DEF FloodSend, FloodSendFails
  <2> QED
    BY <2>1, FlagUp
<1>4. CASE FloodEnd
  BY <1>4, FlagsDown DEF FloodEnd
<1> QED
  BY <1>1, <1>2, <1>3, <1>4 DEF Next, Handle, Elsewhere

\* Every step keeps each count equal, in its field, to the entries.
THEOREM SharesStep == SharesInv /\ [Next]_vars => SharesInv'
<1> SUFFICES ASSUME SharesInv, [Next]_vars PROVE ShareCount'
  BY TablesStep DEF SharesInv
<1> USE BridgeAssumption DEF SharesInv, TablesInv
<1>0. \A p \in DOMAIN pa_heap : pa_heap[p].count = Cardinality(Sharing(p)) % CountMod
  BY DEF ShareCount, Sharing
<1>1. CASE ListShare
  <2>1. PICK p \in RecordsOf(Frame.from) :
          /\ pa_heap' = [pa_heap EXCEPT ![p] = Share(@)]
          /\ l_head' = Prepend(p)
    BY <1>1 DEF ListShare
  <2>2. p \in DOMAIN pa_heap /\ p \in Nat /\ pc = "enlist"
    BY <1>1, PeerType DEF RecordsOf, Typed, Linked, Entry, Peer, ListShare
  <2>3. pa_heap \in Seq(PeerAddrInfo) /\ pa_heap[p] \in PeerAddrInfo
    BY <2>2 DEF Typed, TypeOK
  <2>4. /\ DOMAIN pa_heap' = DOMAIN pa_heap
        /\ \A q \in DOMAIN pa_heap :
             pa_heap'[q] = IF q = p THEN Share(pa_heap[p]) ELSE pa_heap[q]
    BY <2>1, <2>2, <2>3
  <2>5. \A q \in DOMAIN pa_heap :
          pa_heap'[q].count = IF q = p THEN Bump(pa_heap[p].count)
                                       ELSE pa_heap[q].count
    BY <2>3, <2>4, ShareRecord
  <2>6. ASSUME NEW q \in DOMAIN pa_heap
        PROVE  pa_heap'[q].count = Cardinality(Sharing(q)') % CountMod
    <3>1. /\ Cardinality(Sharing(q)) \in Nat
          /\ Cardinality(Sharing(q)') =
               Cardinality(Sharing(q)) + (IF q = p THEN 1 ELSE 0)
      BY <2>1, <2>2, SharingPrepended
    <3>2. CASE q = p
      <4>1. pa_heap'[q].count = ((Cardinality(Sharing(q)) % CountMod) + 1) % CountMod
        BY <1>0, <2>5, <3>2 DEF Bump
      <4>2. Cardinality(Sharing(q)') = Cardinality(Sharing(q)) + 1
        BY <3>1, <3>2
      <4> QED
        BY <3>1, <4>1, <4>2, CountWraps
    <3>3. CASE q # p
      <4>1. Cardinality(Sharing(q)') = Cardinality(Sharing(q))
        BY <3>1, <3>3
      <4> QED
        BY <1>0, <2>5, <3>3, <4>1
    <3> QED
      BY <3>2, <3>3
  <2> QED
    BY <2>4, <2>6 DEF ShareCount, Sharing
<1>2. CASE ListNew
  <2>0. PICK p : p = Len(pa_heap) + 1
    OBVIOUS
  <2>1. /\ pa_heap \in Seq(PeerAddrInfo)
        /\ Len(pa_heap) \in Nat
        /\ p \in Nat
        /\ DOMAIN pa_heap' = DOMAIN pa_heap \cup {p}
        /\ p \notin DOMAIN pa_heap
        /\ \A q \in DOMAIN pa_heap : pa_heap'[q] = pa_heap[q]
        /\ pa_heap'[p].count = Bump(0)
        /\ l_head' = Prepend(p)
        /\ pc = "enlist"
    BY <1>2, <2>0 DEF ListNew, Typed, TypeOK
  <2>2. \A q : /\ Cardinality(Sharing(q)) \in Nat
               /\ Cardinality(Sharing(q)') =
                    Cardinality(Sharing(q)) + (IF q = p THEN 1 ELSE 0)
    BY <2>1, SharingPrepended
  <2>3. Cardinality(Sharing(p)') = 1
    <3>1. Sharing(p) = {}
      BY <2>1 DEF Sharing, Typed, Linked
    <3>2. Cardinality(Sharing(p)) = 0
      BY <3>1, FS_EmptySet
    <3> QED
      BY <2>2, <3>2
  <2>4. \A q \in DOMAIN pa_heap : Cardinality(Sharing(q)') = Cardinality(Sharing(q))
    BY <2>1, <2>2
  <2>5. pa_heap'[p].count = Cardinality(Sharing(p)') % CountMod
    BY <2>1, <2>3 DEF Bump
  <2>6. \A q \in DOMAIN pa_heap :
          pa_heap'[q].count = Cardinality(Sharing(q)') % CountMod
    BY <1>0, <2>1, <2>4
  <2> QED
    BY <2>1, <2>5, <2>6 DEF ShareCount, Sharing
<1>3. CASE ~ListShare /\ ~ListNew
  <2>1. /\ UNCHANGED l_head
        /\ DOMAIN pa_heap' = DOMAIN pa_heap
        /\ \A p \in DOMAIN pa_heap : pa_heap'[p].count = pa_heap[p].count
    BY <1>3, CountsKept
  <2> QED
    BY <2>1 DEF ShareCount
<1> QED
  BY <1>1, <1>2, <1>3

\* The share count of a record is the number of its entries for any number of
\* stations behind a client, until its unsigned short wraps, and modulo that
\* after (pa->count in wlan_list_update).
THEOREM SharesCounted == Spec => []ShareCount
<1>1. Init => SharesInv
  BY TablesInit DEF Init, SharesInv, ShareCount
<1>2. SharesInv => ShareCount
  BY DEF SharesInv
<1> QED
  BY <1>1, <1>2, SharesStep, PTL DEF Spec

-----------------------------------------------------------------------------
(* The inductive invariant.                                                *)

\* The frames dealt with, not counting one that is being flooded.
Done == Len(log) - (Len(burst) + 1 - i)

\* The frames in hand are the last ones received; there are none, and no
\* index is left over, in the steps that have no use for them.
Numbered ==
  /\ Len(burst) <= Len(log)
  /\ \A x \in DOMAIN burst : burst[x].n = Len(log) - Len(burst) + x
  /\ pc \notin Handling => burst = <<>> /\ i = 1
  /\ pc \notin {"send", "resend"} => k = 1

\* A deferred copy goes to the located client, which is not the sender; what
\* is flooded has no located client.
Aimed ==
  /\ \A x \in DOMAIN to_array :
       /\ to_array[x].to # to_array[x].d.from
       /\ to_array[x].d.dst \in Macs
       /\ h_head[to_array[x].d.dst] = to_array[x].to
  /\ pc = "flood" => Target = NoAddr
  /\ NeverReflected

\* A copy of the frame being flooded, to a client whose flag is up.
InFlight(c) ==
  /\ pc = "flood"
  /\ c.d = Frame
  /\ \E q \in DOMAIN pa_heap :
       pa_heap[q].addr = c.to /\ pa_heap[q].flood_flag = 1

\* Copies are of frames dealt with, or of the one being flooded.
Behind ==
  /\ \A x \in DOMAIN to_array : to_array[x].d.n <= Done
  /\ \A p \in DOMAIN wire : wire[p].d.n <= Done \/ InFlight(wire[p])

\* The array is in the order of reception, one copy per frame.
Queued ==
  \A x, y \in DOMAIN to_array : x < y => to_array[x].d.n < to_array[y].d.n

\* What is still to be sent was not sent, and follows its flow.
Apart ==
  \A p \in DOMAIN wire, x \in DOMAIN to_array :
    x >= k => /\ wire[p].d.n # to_array[x].d.n
              /\ Flow(wire[p]) = Flow(to_array[x]) =>
                   wire[p].d.n < to_array[x].d.n

Delivery ==
  /\ Numbered
  /\ Aimed
  /\ Behind
  /\ Queued
  /\ Apart
  /\ OneCopyPerClient
  /\ FlowOrder

DeliveryInv == TablesInv /\ Delivery

-----------------------------------------------------------------------------
(* Types of what the invariant speaks about.                               *)

\* Lengths and numbers of the queues, the array and the wire are naturals.
LEMMA DeliveryTypes ==
  ASSUME Typed
  PROVE  /\ Len(log) \in Nat /\ Len(burst) \in Nat /\ i \in Nat /\ k \in Nat
         /\ i >= 1 /\ k >= 1
         /\ Done \in Int
         /\ burst \in Seq(Datagram) /\ DOMAIN burst = 1 .. Len(burst)
         /\ wire \in Seq(Copy) /\ to_array \in Seq(Copy)
         /\ \A p \in DOMAIN wire : /\ wire[p] \in Copy
                                   /\ wire[p].d \in Datagram
                                   /\ wire[p].d.n \in Nat
         /\ \A x \in DOMAIN to_array : /\ to_array[x] \in Copy
                                       /\ to_array[x].d.n \in Nat
                                       /\ to_array[x].to \in Addrs
<1>1. /\ log \in Seq(Datagram) /\ burst \in Seq(Datagram)
      /\ wire \in Seq(Copy) /\ to_array \in Seq(Copy)
      /\ i \in Nat \ {0} /\ k \in Nat \ {0}
  BY DEF Typed, TypeOK
<1>2. \A c \in Copy : c.d \in Datagram /\ c.d.n \in Nat /\ c.to \in Addrs
  BY DEF Copy, Datagram
<1>3. /\ \A p \in DOMAIN wire : wire[p] \in Copy
      /\ \A x \in DOMAIN to_array : to_array[x] \in Copy
  BY <1>1
<1>4. /\ Len(log) \in Nat /\ Len(burst) \in Nat
      /\ DOMAIN burst = 1 .. Len(burst)
  BY <1>1
<1>5. i \in Nat /\ k \in Nat /\ i >= 1 /\ k >= 1 /\ Done \in Int
  BY <1>1, <1>4 DEF Done
<1> QED
  BY <1>1, <1>2, <1>3, <1>4, <1>5

\* The frame being handled is the one after those dealt with (for-loop of
\* wlan_br_handle_burst).
LEMMA FrameNumber ==
  ASSUME Typed, Numbered, pc \in Handling
  PROVE  Frame.n = Done + 1
<1>1. i \in DOMAIN burst
  BY DEF Typed, InHand
<1> QED
  BY <1>1, DeliveryTypes DEF Numbered, Frame, Done

\* The last frame of a burst, and any other, leaves one more frame done.
LEMMA EndFrameDone ==
  ASSUME Typed, Numbered, pc \in {"route", "flood"}, NEW array,
         EndFrame(array), UNCHANGED <<log, k>>
  PROVE  Numbered' /\ Done' = Done + 1
<1>1. pc \in Handling /\ i \in DOMAIN burst /\ k = 1
  BY DEF Handling, Typed, InHand, Numbered
<1>2. CASE i < Len(burst)
  BY <1>1, <1>2, DeliveryTypes DEF EndFrame, Numbered, Done, Handling
<1>3. CASE ~(i < Len(burst))
  <2>1. i = Len(burst)
    BY <1>1, <1>3, DeliveryTypes
  <2>2. i' = 1 /\ burst' = <<>> /\ Len(burst') = 0 /\ DOMAIN burst' = {}
    BY <1>3 DEF EndFrame
  <2> QED
    BY <1>1, <2>1, <2>2, DeliveryTypes DEF Numbered, Done
<1> QED
  BY <1>2, <1>3

\* A send adds one copy at the end of the wire and leaves the others.
LEMMA WireAppend ==
  ASSUME Typed, NEW c, wire' = Append(wire, c)
  PROVE  /\ Len(wire) \in Nat
         /\ DOMAIN wire = 1 .. Len(wire)
         /\ DOMAIN wire' = 1 .. Len(wire) + 1
         /\ \A p \in DOMAIN wire : wire'[p] = wire[p]
         /\ wire'[Len(wire) + 1] = c
  BY DEF Typed, TypeOK

\* A copy may be put on the wire when its frame is later than what is there
\* of the same flow, and when it is not there.
LEMMA Transmitted ==
  ASSUME Typed, OneCopyPerClient, FlowOrder, NeverReflected,
         NEW c \in Copy, wire' = Append(wire, c),
         c.to # c.d.from,
         \A p \in DOMAIN wire : /\ wire[p] # c
                                /\ Flow(wire[p]) = Flow(c) => wire[p].d.n < c.d.n
  PROVE  (OneCopyPerClient /\ FlowOrder /\ NeverReflected)'
<1> DEFINE n == Len(wire)
<1>1. /\ n \in Nat
      /\ DOMAIN wire = 1 .. n
      /\ DOMAIN wire' = 1 .. n + 1
      /\ \A p \in DOMAIN wire : wire'[p] = wire[p]
      /\ wire'[n + 1] = c
  BY WireAppend
<1> HIDE DEF n
<1>2. OneCopyPerClient'
  BY <1>1 DEF OneCopyPerClient
<1>3. FlowOrder'
  <2> SUFFICES ASSUME NEW p \in DOMAIN wire', NEW q \in DOMAIN wire', p < q,
                      Flow(wire'[p]) = Flow(wire'[q])
               PROVE  wire'[p].d.n < wire'[q].d.n
    BY DEF FlowOrder, Flow
  <2>1. p \in DOMAIN wire
    BY <1>1
  <2>2. CASE q \in DOMAIN wire
    BY <1>1, <2>1, <2>2 DEF FlowOrder
  <2>3. CASE q = n + 1
    BY <1>1, <2>1, <2>3
  <2> QED
    BY <1>1, <2>2, <2>3
<1>4. NeverReflected'
  BY <1>1 DEF NeverReflected
<1> QED
  BY <1>2, <1>3, <1>4

-----------------------------------------------------------------------------
(* The steps, grouped by what they do to the frames and their copies.      *)

\* Steps about the tables, the flags and the cursor.
Inward ==
  \/ RecvFails \/ FdbKnown \/ FdbInsert \/ FdbNoMemory
  \/ ListShare \/ ListNew \/ ListNoMemory
  \/ FloodStart \/ FloodSkip \/ FloodSendFails

\* A location, once known, does not change; a flag raised in a flood stays up.
LEMMA InwardStep ==
  ASSUME TablesInv, Inward
  PROVE  /\ UNCHANGED <<burst, i, log, to_array, k, wire>>
         /\ \A m \in Macs : h_head[m] # NoAddr => h_head'[m] = h_head[m]
         /\ pc' \in Handling <=> pc \in Handling
         /\ pc' \in {"send", "resend"} <=> pc \in {"send", "resend"}
         /\ pc = "flood" =>
              /\ pc' = "flood"
              /\ UNCHANGED h_head
              /\ \A q \in DOMAIN pa_heap :
                   pa_heap[q].flood_flag = 1 =>
                     /\ q \in DOMAIN pa_heap'
                     /\ pa_heap'[q].addr = pa_heap[q].addr
                     /\ pa_heap'[q].flood_flag = 1
         /\ pc' = "flood" /\ pc # "flood" => Target = NoAddr /\ UNCHANGED h_head
<1>1. CASE RecvFails \/ FdbKnown \/ FdbNoMemory \/ ListNoMemory \/ FloodStart
             \/ FloodSkip
  BY <1>1 DEF RecvFails, FdbKnown, FdbNoMemory, ListNoMemory, FloodStart,
     FloodSkip, Flooding, Handling, tables
<1>2. CASE FdbInsert
  <2>1. Frame.src \in Macs
    BY <1>2, FrameType DEF FdbInsert, Handling, Datagram, TablesInv
  <2> QED
    BY <1>2, <2>1 DEF FdbInsert, Handling, TablesInv, Typed, TypeOK
<1>3. CASE ListShare \/ ListNew
  BY <1>3 DEF ListShare, ListNew, Handling
<1>4. CASE FloodSendFails
  <2>1. \A q \in DOMAIN pa_heap :
          pa_heap[q].flood_flag = 1 =>
            /\ q \in DOMAIN pa_heap'
            /\ pa_heap'[q].addr = pa_heap[q].addr
            /\ pa_heap'[q].flood_flag = 1
    BY <1>4, FlagUp DEF FloodSendFails, TablesInv
  <2> QED
    BY <1>4, <2>1 DEF FloodSendFails, Flooding, Handling
<1> QED
  BY <1>1, <1>2, <1>3, <1>4 DEF Inward

\* Learning, enlisting and skipping keep the delivery invariant: they touch no
\* copy (wlan_fdb_update, wlan_list_update).
LEMMA InwardDelivery ==
  ASSUME DeliveryInv, Inward
  PROVE  Delivery'
<1> USE DEF DeliveryInv
<1>1. /\ UNCHANGED <<burst, i, log, to_array, k, wire>>
      /\ UNCHANGED <<Frame, Done>>
  BY InwardStep DEF Frame, Done
<1>2. Numbered'
  BY <1>1, InwardStep DEF Delivery, Numbered
<1>3. Aimed'
  <2>1. \A x \in DOMAIN to_array :
          h_head[to_array[x].d.dst] # NoAddr /\ to_array[x].d.dst \in Macs
    BY DeliveryTypes, BridgeAssumption DEF TablesInv, Delivery, Aimed
  <2>2. pc' = "flood" => Target = NoAddr /\ UNCHANGED h_head
    BY InwardStep DEF Delivery, Aimed
  <2>3. pc' = "flood" => Target' = NoAddr
    BY <1>1, <2>2 DEF Target
  <2>4. NeverReflected'
    BY <1>1 DEF NeverReflected, Delivery, Aimed
  <2> QED
    BY <1>1, <2>1, <2>3, <2>4, InwardStep DEF Delivery, Aimed
<1>4. Behind'
  <2>1. \A p \in DOMAIN wire : InFlight(wire[p]) => InFlight(wire[p])'
    BY <1>1, InwardStep DEF InFlight
  <2> QED
    BY <1>1, <2>1 DEF Delivery, Behind
<1> QED
  BY <1>1, <1>2, <1>3, <1>4 DEF Delivery, Queued, Apart, Flow, OneCopyPerClient,
     FlowOrder

\* A new burst keeps the delivery invariant: its numbers follow the log's.
LEMMA RecvBurstDelivery ==
  ASSUME DeliveryInv, RecvBurst
  PROVE  Delivery'
<1> USE DEF DeliveryInv
<1>1. PICK num \in 1 .. MaxBurst :
        \E hdr \in [1 .. num -> Header] :
          /\ burst' = [x \in 1 .. num |->
                         [n |-> Len(log) + x, from |-> hdr[x].from,
                          src |-> hdr[x].src, dst |-> hdr[x].dst]]
          /\ log' = log \o burst'
  BY DEF RecvBurst
<1>2. /\ Len(burst') = num /\ DOMAIN burst' = 1 .. num
      /\ \A x \in 1 .. num : burst'[x].n = Len(log) + x
      /\ num \in Nat
  BY <1>1, BridgeAssumption
<1>3. Len(log') = Len(log) + num
  <2>1. log \in Seq(Datagram) /\ burst' \in Seq(Datagram)
    BY TypedStep DEF TablesInv, Next, Typed, TypeOK
  <2> QED
    BY <1>1, <1>2, <2>1
<1>4. /\ pc = "recv" /\ pc' = "learn" /\ i' = 1 /\ burst = <<>> /\ i = 1 /\ k = 1
      /\ UNCHANGED <<tables, to_array, k, wire>>
  BY DEF RecvBurst, Delivery, Numbered, Handling
<1>5. Done' = Done
  BY <1>2, <1>3, <1>4, DeliveryTypes DEF Done, TablesInv
<1>6. Numbered'
  BY <1>2, <1>3, <1>4, DeliveryTypes DEF Numbered, Handling, TablesInv
<1>7. Behind'
  BY <1>4, <1>5 DEF Delivery, Behind, InFlight
<1>8. Aimed'
  BY <1>4 DEF Delivery, Aimed, NeverReflected, tables
<1> QED
  BY <1>4, <1>6, <1>7, <1>8 DEF Delivery, Queued, Apart, Flow, OneCopyPerClient,
     FlowOrder

\* A frame for its own sender, or a flood that ended, leaves no copy behind.
LEMMA DoneDelivery ==
  ASSUME DeliveryInv, ForwardLocal \/ FloodEnd
  PROVE  Delivery'
<1> USE DEF DeliveryInv
<1>1. /\ pc \in {"route", "flood"} /\ pc' # "flood"
      /\ EndFrame(to_array)
      /\ UNCHANGED <<h_head, to_array, k, log, wire>>
  BY DEF ForwardLocal, FloodEnd, EndFrame, tables
<1>2. Numbered' /\ Done' = Done + 1
  BY <1>1, EndFrameDone DEF TablesInv, Delivery
<1>3. Behind'
  <2>1. Frame.n = Done + 1 /\ Done \in Int
    BY <1>1, FrameNumber, DeliveryTypes DEF TablesInv, Delivery, Handling
  <2>2. \A p \in DOMAIN wire : wire[p].d.n <= Done + 1
    BY <2>1, DeliveryTypes DEF TablesInv, Delivery, Behind, InFlight
  <2>3. \A x \in DOMAIN to_array : to_array[x].d.n <= Done + 1
    BY <2>1, DeliveryTypes DEF TablesInv, Delivery, Behind
  <2> QED
    BY <1>1, <1>2, <2>2, <2>3 DEF Behind
<1>4. Aimed'
  BY <1>1 DEF Delivery, Aimed, NeverReflected
<1> QED
  BY <1>1, <1>2, <1>3, <1>4 DEF Delivery, Queued, Apart, Flow, OneCopyPerClient,
     FlowOrder

\* The copy forward_to_array defers goes after the array, and its frame is new.
LEMMA ToArrayDelivery ==
  ASSUME DeliveryInv, ForwardToArray
  PROVE  Delivery'
<1> USE DEF DeliveryInv
<1> DEFINE n == Len(to_array)
           c == [d |-> Frame, to |-> Target]
<1>1. /\ pc = "route" /\ pc' # "flood"
      /\ Target # NoAddr /\ Target # Frame.from
      /\ to_array' = Append(to_array, c)
      /\ EndFrame(to_array')
      /\ UNCHANGED <<tables, k, log, wire>>
  BY DEF ForwardToArray, EndFrame
<1>2. Numbered' /\ Done' = Done + 1
  BY <1>1, EndFrameDone DEF TablesInv, Delivery
<1>3. Frame.n = Done + 1 /\ Done \in Int /\ k = 1
  BY <1>1, FrameNumber, DeliveryTypes DEF TablesInv, Delivery, Handling, Numbered
<1>4. /\ n \in Nat /\ DOMAIN to_array = 1 .. n /\ DOMAIN to_array' = 1 .. n + 1
      /\ \A x \in DOMAIN to_array : to_array'[x] = to_array[x]
      /\ to_array'[n + 1] = c
  BY <1>1, DeliveryTypes DEF TablesInv
<1>5. c.d = Frame /\ c.to = Target
  OBVIOUS
<1> HIDE DEF n, c
<1>6. /\ \A p \in DOMAIN wire : wire[p].d.n <= Done /\ wire[p].d.n \in Nat
      /\ \A x \in DOMAIN to_array : /\ to_array[x].d.n <= Done
                                    /\ to_array[x].d.n \in Nat
  BY <1>1, DeliveryTypes DEF TablesInv, Delivery, Behind, InFlight
<1>7. Aimed'
  <2>1. Frame.dst \in Macs /\ h_head[Frame.dst] = Target
    BY <1>1 DEF Target
  <2>2. \A x \in DOMAIN to_array' :
          /\ to_array'[x].to # to_array'[x].d.from
          /\ to_array'[x].d.dst \in Macs
          /\ h_head[to_array'[x].d.dst] = to_array'[x].to
    <3>1. ASSUME NEW x \in DOMAIN to_array
          PROVE  /\ to_array'[x].to # to_array'[x].d.from
                 /\ to_array'[x].d.dst \in Macs
                 /\ h_head[to_array'[x].d.dst] = to_array'[x].to
      BY <1>4 DEF Delivery, Aimed
    <3> QED
      BY <1>1, <1>4, <1>5, <2>1, <3>1
  <2> QED
    BY <1>1, <2>2 DEF Delivery, Aimed, NeverReflected, tables
<1>8. Behind'
  BY <1>1, <1>2, <1>3, <1>4, <1>5, <1>6 DEF Behind
<1>9. Queued'
  BY <1>3, <1>4, <1>5, <1>6 DEF Delivery, Queued
<1>10. Apart'
  BY <1>1, <1>3, <1>4, <1>5, <1>6 DEF Delivery, Apart, Flow
<1> QED
  BY <1>1, <1>2, <1>7, <1>8, <1>9, <1>10 DEF Delivery, OneCopyPerClient, FlowOrder, Flow

\* A flooded copy overtakes the array, but nothing of its own flow: what is
\* in the array has a located client, and what is flooded has not.
LEMMA FloodSendDelivery ==
  ASSUME DeliveryInv, FloodSend
  PROVE  Delivery'
<1> USE DEF DeliveryInv
<1>0. PICK q, c : /\ q = l_head[cursor].pa
                  /\ c = [d |-> Frame, to |-> Peer(cursor).addr]
  OBVIOUS
<1>1. /\ Flooding /\ pc = "flood" /\ ~SkipPeer
      /\ pa_heap' = [pa_heap EXCEPT ![q] = SetFlag(@, 1)]
      /\ wire' = Append(wire, c)
      /\ UNCHANGED <<pc, burst, i, h_head, l_head, to_array, k, log>>
  BY <1>0 DEF FloodSend, Flooding
<1>2. /\ Frame \in Datagram /\ Frame.dst \in Macs \cup Groups
      /\ Peer(cursor) \in PeerAddrInfo /\ Peer(cursor).addr \in Addrs
      /\ q \in DOMAIN pa_heap
  BY <1>0, <1>1, FrameType, PeerType
     DEF TablesInv, Flooding, Handling, Datagram, PeerAddrInfo, Typed, Linked
<1>3. c \in Copy /\ c.d = Frame /\ c.to = pa_heap[q].addr /\ c.to # Frame.from
  BY <1>0, <1>1, <1>2 DEF Copy, SkipPeer, Peer
<1>4. /\ pa_heap[q].flood_flag # 1
      /\ DOMAIN pa_heap' = DOMAIN pa_heap
      /\ \A r \in DOMAIN pa_heap : pa_heap'[r].addr = pa_heap[r].addr
      /\ \A r \in DOMAIN pa_heap :
           pa_heap[r].flood_flag = 1 => pa_heap'[r].flood_flag = 1
      /\ pa_heap'[q].flood_flag = 1
  BY <1>0, <1>1, <1>2, FlagUp DEF SkipPeer, Peer, TablesInv
<1>5. Frame.n = Done + 1 /\ Done \in Int /\ k = 1
  BY <1>1, FrameNumber, DeliveryTypes DEF TablesInv, Delivery, Handling, Numbered
<1>6. Frame' = Frame /\ Done' = Done /\ Target' = Target /\ Target = NoAddr
  BY <1>1 DEF Frame, Done, Target, Delivery, Aimed
<1>7. ASSUME NEW p \in DOMAIN wire
      PROVE  /\ wire[p] # c
             /\ Flow(wire[p]) = Flow(c) => wire[p].d.n < c.d.n
  <2>1. CASE wire[p].d.n <= Done
    BY <1>3, <1>5, <2>1, DeliveryTypes DEF TablesInv
  <2>2. CASE InFlight(wire[p])
    <3>1. PICK r \in DOMAIN pa_heap :
            pa_heap[r].addr = wire[p].to /\ pa_heap[r].flood_flag = 1
      BY <2>2 DEF InFlight
    <3>2. r # q
      BY <1>4, <3>1
    <3>3. wire[p].to # c.to
      BY <1>2, <1>3, <3>1, <3>2 DEF TablesInv, Tables, ListAgreesWithFdb
    <3> QED
      BY <3>3 DEF Flow
  <2> QED
    BY <2>1, <2>2 DEF Delivery, Behind
<1>8. (OneCopyPerClient /\ FlowOrder /\ NeverReflected)'
  BY <1>1, <1>3, <1>7, Transmitted DEF TablesInv, Delivery, Aimed
<1>9. /\ Len(wire) \in Nat
      /\ DOMAIN wire = 1 .. Len(wire)
      /\ DOMAIN wire' = 1 .. Len(wire) + 1
      /\ \A p \in DOMAIN wire : wire'[p] = wire[p]
      /\ wire'[Len(wire) + 1] = c
  BY <1>1, WireAppend DEF TablesInv
<1>10. Behind'
  <2>1. \A p \in DOMAIN wire : InFlight(wire[p]) => InFlight(wire[p])'
    BY <1>1, <1>4, <1>6, <1>9 DEF InFlight
  <2>2. InFlight(c)'
    BY <1>1, <1>2, <1>3, <1>4, <1>6 DEF InFlight
  <2>3. ASSUME NEW p \in DOMAIN wire'
        PROVE  wire'[p].d.n <= Done' \/ InFlight(wire[p])'
    <3>1. CASE p = Len(wire) + 1
      BY <1>9, <2>2, <3>1 DEF InFlight
    <3>2. CASE p \in DOMAIN wire
      <4>1. wire'[p] = wire[p] /\ (wire[p].d.n <= Done \/ InFlight(wire[p]))
        BY <1>9, <3>2 DEF Delivery, Behind
      <4> QED
        BY <1>6, <2>1, <3>2, <4>1
    <3> QED
      BY <1>9, <3>1, <3>2
  <2> QED
    BY <1>1, <1>6, <2>3 DEF Delivery, Behind
<1>11. Apart'
  <2> SUFFICES ASSUME NEW p \in DOMAIN wire', NEW x \in DOMAIN to_array, x >= k
               PROVE  /\ wire'[p].d.n # to_array[x].d.n
                      /\ Flow(wire'[p]) = Flow(to_array[x]) =>
                           wire'[p].d.n < to_array[x].d.n
    BY <1>1 DEF Apart, Flow
  <2>1. CASE p \in DOMAIN wire
    BY <1>9, <2>1 DEF Delivery, Apart
  <2>2. CASE p = Len(wire) + 1
    <3>1. wire'[p] = c
      BY <1>9, <2>2
    <3>2. to_array[x].d.n <= Done /\ to_array[x].d.n \in Nat
      BY DeliveryTypes DEF TablesInv, Delivery, Behind
    <3>3. to_array[x].d.dst \in Macs /\ h_head[to_array[x].d.dst] # NoAddr
      BY DeliveryTypes, BridgeAssumption DEF TablesInv, Delivery, Aimed
    <3>4. Frame.dst # to_array[x].d.dst
      BY <1>6, <3>3 DEF Target
    <3> QED
      BY <1>3, <1>5, <3>1, <3>2, <3>4 DEF Flow
  <2> QED
    BY <1>9, <2>1, <2>2
<1>12. Numbered' /\ Aimed' /\ Queued'
  BY <1>1, <1>6, <1>8 DEF Delivery, Numbered, Aimed, Queued
<1> QED
  BY <1>8, <1>10, <1>11, <1>12 DEF Delivery

\* The copy sendmmsg hands over is not on the wire yet and follows its flow.
LEMMA SendOneDelivery ==
  ASSUME DeliveryInv, SendOne
  PROVE  Delivery'
<1> USE DEF DeliveryInv
<1> DEFINE c == to_array[k]
<1>1. /\ pc \in {"send", "resend"} /\ k \in DOMAIN to_array
      /\ wire' = Append(wire, c)
      /\ k' = k + 1
      /\ UNCHANGED <<pc, burst, i, tables, to_array, log>>
  BY DEF SendOne
<1>2. /\ c \in Copy /\ c.d.n \in Nat /\ c.to # c.d.from /\ c.d.n <= Done
      /\ k \in Nat /\ Done \in Int
      /\ to_array \in Seq(Copy)
  BY <1>1, DeliveryTypes DEF TablesInv, Delivery, Aimed, Behind
<1>3. ASSUME NEW p \in DOMAIN wire
      PROVE  /\ wire[p] # c
             /\ wire[p].d.n # c.d.n
             /\ Flow(wire[p]) = Flow(c) => wire[p].d.n < c.d.n
  <2>1. /\ wire[p].d.n # c.d.n
        /\ Flow(wire[p]) = Flow(c) => wire[p].d.n < c.d.n
    BY <1>1, <1>2 DEF Delivery, Apart
  <2> QED
    BY <2>1
<1>4. \A x \in DOMAIN to_array : x >= k + 1 => c.d.n < to_array[x].d.n
  BY <1>1, <1>2 DEF Delivery, Queued
<1> HIDE DEF c
<1>5. (OneCopyPerClient /\ FlowOrder /\ NeverReflected)'
  BY <1>1, <1>2, <1>3, Transmitted DEF TablesInv, Delivery, Aimed
<1>6. /\ Len(wire) \in Nat
      /\ DOMAIN wire = 1 .. Len(wire)
      /\ DOMAIN wire' = 1 .. Len(wire) + 1
      /\ \A p \in DOMAIN wire : wire'[p] = wire[p]
      /\ wire'[Len(wire) + 1] = c
  BY <1>1, WireAppend DEF TablesInv
<1>7. Done' = Done /\ ~(pc = "flood") /\ ~(pc' = "flood")
  BY <1>1 DEF Done
<1>8. Behind'
  BY <1>1, <1>2, <1>6, <1>7 DEF Delivery, Behind, InFlight
<1>9. Apart'
  <2> SUFFICES ASSUME NEW p \in DOMAIN wire', NEW x \in DOMAIN to_array, x >= k + 1
               PROVE  /\ wire'[p].d.n # to_array[x].d.n
                      /\ Flow(wire'[p]) = Flow(to_array[x]) =>
                           wire'[p].d.n < to_array[x].d.n
    BY <1>1 DEF Apart, Flow
  <2>1. x >= k /\ to_array[x].d.n \in Nat /\ c.d.n < to_array[x].d.n
    <3>1. x \in Nat
      BY <1>2
    <3> QED
      BY <1>2, <1>4, <3>1, DeliveryTypes DEF TablesInv
  <2>2. CASE p \in DOMAIN wire
    BY <1>6, <2>1, <2>2 DEF Delivery, Apart
  <2>3. CASE p = Len(wire) + 1
    BY <1>2, <1>6, <2>1, <2>3
  <2> QED
    BY <1>6, <2>2, <2>3
<1>10. Numbered' /\ Aimed' /\ Queued'
  BY <1>1, <1>5 DEF Delivery, Numbered, Aimed, Queued, tables, Handling
<1> QED
  BY <1>5, <1>8, <1>9, <1>10 DEF Delivery

\* SendDone and SendGiveUp empty the array; SendRetry keeps what was not sent.
LEMMA ArrayCutDelivery ==
  ASSUME DeliveryInv, SendDone \/ SendRetry \/ SendGiveUp
  PROVE  Delivery'
<1> USE DEF DeliveryInv
<1>1. /\ pc \in {"send", "resend"} /\ pc' \in {"recv", "resend"}
      /\ k' = 1
      /\ UNCHANGED <<burst, i, tables, log, wire>>
  BY DEF SendDone, SendRetry, SendGiveUp, ShortSend
<1>2. Done' = Done /\ ~(pc = "flood") /\ ~(pc' = "flood")
  BY <1>1 DEF Done
<1>3. k \in Nat /\ k >= 1 /\ to_array \in Seq(Copy)
  BY DeliveryTypes DEF TablesInv
\* Each message that is left was there, at a place not yet reached.
<1>4. \A x \in DOMAIN to_array' : /\ x \in Nat /\ x >= 1
                                  /\ x + (k - 1) \in DOMAIN to_array
                                  /\ x + (k - 1) >= k
                                  /\ to_array'[x] = to_array[x + (k - 1)]
  <2>1. CASE SendDone \/ SendGiveUp
    <3>1. to_array' = <<>> /\ DOMAIN to_array' = {}
      BY <2>1 DEF SendDone, SendGiveUp
    <3> QED
      BY <3>1
  <2>2. CASE SendRetry
    <3>1. to_array' = SubSeq(to_array, k, Len(to_array)) /\ k \in DOMAIN to_array
      BY <2>2 DEF SendRetry, Unsent, ShortSend
    <3>2. Len(to_array) \in Nat /\ k \in 1 .. Len(to_array)
      BY <1>3, <3>1
    <3>3. /\ DOMAIN to_array' = 1 .. Len(to_array) - k + 1
          /\ \A x \in 1 .. Len(to_array) - k + 1 :
               to_array'[x] = to_array[x + (k - 1)]
      BY <1>3, <3>1, <3>2
    <3> QED
      BY <1>3, <3>2, <3>3
  <2> QED
    BY <2>1, <2>2
<1>5. Numbered'
  BY <1>1 DEF Delivery, Numbered, Handling
<1>6. Aimed'
  BY <1>1, <1>2, <1>4 DEF Delivery, Aimed, NeverReflected, tables
<1>7. Behind'
  BY <1>1, <1>2, <1>4 DEF Delivery, Behind, InFlight
<1>8. Queued'
  <2> SUFFICES ASSUME NEW x \in DOMAIN to_array', NEW y \in DOMAIN to_array', x < y
               PROVE  to_array'[x].d.n < to_array'[y].d.n
    BY DEF Queued
  <2>1. x + (k - 1) < y + (k - 1)
    BY <1>3, <1>4
  <2> QED
    BY <1>4, <2>1 DEF Delivery, Queued
<1>9. Apart'
  BY <1>1, <1>4 DEF Delivery, Apart, Flow
<1> QED
  BY <1>1, <1>5, <1>6, <1>7, <1>8, <1>9 DEF Delivery, OneCopyPerClient, FlowOrder, Flow

-----------------------------------------------------------------------------

\* Nothing was received or sent when the server starts.
THEOREM DeliveryInit == Init => DeliveryInv
<1> SUFFICES ASSUME Init PROVE DeliveryInv
  OBVIOUS
<1>1. /\ DOMAIN burst = {} /\ DOMAIN to_array = {} /\ DOMAIN wire = {}
      /\ Len(burst) = 0 /\ Len(log) = 0
  BY DEF Init
<1> QED
  BY <1>1, TablesInit DEF Init, DeliveryInv, Delivery, Numbered, Aimed, Behind,
     Queued, Apart, OneCopyPerClient, FlowOrder, NeverReflected

\* Every step of the RX thread keeps the delivery invariant.
THEOREM DeliveryStep == DeliveryInv /\ [Next]_vars => DeliveryInv'
<1> SUFFICES ASSUME DeliveryInv, [Next]_vars PROVE DeliveryInv'
  OBVIOUS
<1>1. TablesInv'
  BY TablesStep DEF DeliveryInv
<1>2. Delivery'
  <2>1. CASE UNCHANGED vars
    <3>1. UNCHANGED <<Frame, Done, Target>>
      BY <2>1 DEF vars, tables, Frame, Done, Target
    <3> QED
      BY <2>1, <3>1 DEF vars, tables, DeliveryInv, Delivery, Numbered, Aimed, Behind,
         InFlight, Queued, Apart, OneCopyPerClient, FlowOrder, Flow, NeverReflected
  <2> QED
    BY <2>1, InwardDelivery, RecvBurstDelivery, DoneDelivery, ToArrayDelivery,
       FloodSendDelivery, SendOneDelivery, ArrayCutDelivery
       DEF Next, Handle, Inward
<1> QED
  BY <1>1, <1>2 DEF DeliveryInv

\* The delivery invariant holds in every state of the RX thread.
LEMMA DeliveryAlways == Spec => []DeliveryInv
  BY DeliveryInit, DeliveryStep, PTL DEF Spec

\* No client gets a frame twice, for any number of clients and stations, any
\* burst and any pattern of send failures: neither a second MAC of a client
\* nor the resend of a short sendmmsg repeats a copy.
THEOREM NoDuplicates == Spec => []OneCopyPerClient
<1>1. DeliveryInv => OneCopyPerClient
  BY DEF DeliveryInv, Delivery
<1> QED
  BY <1>1, DeliveryAlways, PTL

\* Each flow reaches a client in the order of its frames, although floods
\* overtake the array.
THEOREM InOrder == Spec => []FlowOrder
<1>1. DeliveryInv => FlowOrder
  BY DEF DeliveryInv, Delivery
<1> QED
  BY <1>1, DeliveryAlways, PTL

\* No frame returns to the client it came from.
THEOREM NoReflection == Spec => []NeverReflected
<1>1. DeliveryInv => NeverReflected
  BY DEF DeliveryInv, Delivery, Aimed
<1> QED
  BY <1>1, DeliveryAlways, PTL

-----------------------------------------------------------------------------
(* The statistics.  What was counted is compared with sets of positions in *)
(* the histories and in the array.                                         *)

\* One more packet for one IP, unless its entry could not be allocated: the
\* receive half of wlan_ip_static_update_rx and _tx.
LEMMA RxUpdate ==
  ASSUME NEW st \in [Ips -> Counters], NEW ip \in Ips,
         NEW r \in wlan_ip_static_update_rx(st, ip), NEW j \in Ips
  PROVE  /\ r \in [Ips -> Counters]
         /\ r[j].tx = st[j].tx
         /\ \/ r[j].rx = st[j].rx + (IF j = ip THEN 1 ELSE 0)
            \/ AllocMayFail /\ r[j].rx = st[j].rx
  BY DEF wlan_ip_static_update_rx, Counters

\* The transmit half.
LEMMA TxUpdate ==
  ASSUME NEW st \in [Ips -> Counters], NEW ip \in Ips,
         NEW r \in wlan_ip_static_update_tx(st, ip), NEW j \in Ips
  PROVE  /\ r[j].rx = st[j].rx
         /\ r[j].tx = st[j].tx + (IF j = ip THEN 1 ELSE 0) \/ AllocMayFail
  BY DEF wlan_ip_static_update_tx, Counters

\* The frames counted so far that came from an IP.
From(ip) == {x \in 1 .. Handled : IpOf[log[x].from] = ip}

\* The frames in hand are the end of the log.
Logged == \A x \in DOMAIN burst : burst[x] = log[Len(log) - Len(burst) + x]

RxInv == DeliveryInv /\ Logged /\ RxCountsEachFrame

\* What has been counted is a prefix of the log, and until it is counted the
\* frame in hand is the next one.
LEMMA HandledRange ==
  ASSUME Typed, Numbered, Logged
  PROVE  /\ Handled \in 0 .. Len(log)
         /\ Handled = IF pc = "flood" THEN Done + 1 ELSE Done
         /\ pc \in {"learn", "enlist", "route"} =>
              Handled + 1 \in DOMAIN log /\ log[Handled + 1] = Frame
<1>1. /\ Len(log) \in Nat /\ Len(burst) \in Nat /\ i \in Nat
      /\ DOMAIN burst = 1 .. Len(burst) /\ DOMAIN log = 1 .. Len(log)
  BY DeliveryTypes DEF Typed, TypeOK
<1>2. Len(burst) <= Len(log)
  BY DEF Numbered
<1>3. pc \in Handling => i \in DOMAIN burst
  BY DEF Typed, InHand
<1>4. pc \notin Handling => Len(burst) = 0 /\ i = 1
  BY DEF Numbered
<1>5. Handled = IF pc = "flood" THEN Done + 1 ELSE Done
  BY <1>1 DEF Handled, Done
<1>6. Handled \in 0 .. Len(log)
  BY <1>1, <1>2, <1>3, <1>4 DEF Handled, Handling
<1>7. ASSUME pc \in {"learn", "enlist", "route"}
      PROVE  Handled + 1 \in DOMAIN log /\ log[Handled + 1] = Frame
  <2>1. i \in DOMAIN burst
    BY <1>3, <1>7 DEF Handling
  <2>2. Handled + 1 = Len(log) - Len(burst) + i
    <3>1. pc # "flood"
      BY <1>7
    <3> QED
      BY <1>1, <3>1 DEF Handled
  <2> QED
    BY <1>1, <1>2, <2>1, <2>2 DEF Logged, Frame
<1> QED
  BY <1>5, <1>6, <1>7

\* The prefix that is counted, and so the frames from an IP, stay.
LEMMA RxKept ==
  ASSUME RxCountsEachFrame, Handled \in Nat, Handled' = Handled,
         \A x \in 1 .. Handled : log'[x] = log[x],
         \A ip \in Ips : ip_stat'[ip].rx = ip_stat[ip].rx
  PROVE  RxCountsEachFrame'
<1>1. \A ip \in Ips : From(ip)' = From(ip)
  BY DEF From
<1>2. \A ip \in Ips : Cardinality(From(ip)') = Cardinality(From(ip))
  BY <1>1
<1> QED
  BY <1>2 DEF RxCountsEachFrame, From

\* The prefix grows by the frame in hand and its IP is counted.
LEMMA RxCounted ==
  ASSUME RxCountsEachFrame, Handled \in Nat, Handled' = Handled + 1,
         UNCHANGED log, ip_stat \in [Ips -> Counters],
         \A j \in Ips :
           \/ ip_stat'[j].rx =
                ip_stat[j].rx + (IF j = IpOf[log[Handled + 1].from] THEN 1 ELSE 0)
           \/ AllocMayFail /\ ip_stat'[j].rx = ip_stat[j].rx
  PROVE  RxCountsEachFrame'
<1> PICK h \in Nat : h = Handled
  OBVIOUS
<1>1. ASSUME NEW ip \in Ips
      PROVE  /\ Cardinality(From(ip)) \in Nat
             /\ Cardinality(From(ip)') =
                  Cardinality(From(ip)) + (IF IpOf[log[h + 1].from] = ip THEN 1 ELSE 0)
  <2>1. From(ip) \subseteq 1 .. h
    BY DEF From
  <2>2. /\ h + 1 \notin From(ip)
        /\ From(ip)' = From(ip) \/ From(ip)' = From(ip) \cup {h + 1}
        /\ h + 1 \in From(ip)' <=> IpOf[log[h + 1].from] = ip
    BY DEF From
  <2>3. IsFiniteSet(From(ip)) /\ Cardinality(From(ip)) \in Nat
    BY <2>1, PositionsFinite
  <2> QED
    BY <2>2, <2>3, PositionAdded
<1>2. ASSUME NEW ip \in Ips
      PROVE  /\ ip_stat'[ip].rx <= Cardinality(From(ip)')
             /\ ~AllocMayFail => ip_stat'[ip].rx = Cardinality(From(ip)')
  <2>1. /\ ip_stat[ip].rx <= Cardinality(From(ip))
        /\ ~AllocMayFail => ip_stat[ip].rx = Cardinality(From(ip))
    BY DEF RxCountsEachFrame, From
  <2>2. ip_stat[ip].rx \in Nat
    BY DEF Counters
  <2> QED
    BY <1>1, <2>1, <2>2
<1> QED
  BY <1>2 DEF RxCountsEachFrame, From

\* Every step counts a frame when it is routed, and no frame otherwise.
THEOREM RxStep == RxInv /\ [Next]_vars => RxInv'
<1> SUFFICES ASSUME RxInv, [Next]_vars PROVE Logged' /\ RxCountsEachFrame'
  BY DeliveryStep DEF RxInv
<1> USE BridgeAssumption DEF RxInv, DeliveryInv, TablesInv
<1>0. /\ Typed /\ Typed' /\ Numbered /\ Numbered'
      /\ ip_stat \in [Ips -> Counters]
  BY DeliveryStep DEF Delivery, Typed, TypeOK
<1>1. /\ Handled \in Nat /\ Handled <= Len(log)
      /\ Handled = IF pc = "flood" THEN Done + 1 ELSE Done
      /\ pc = "route" => Handled + 1 \in DOMAIN log /\ log[Handled + 1] = Frame
  BY <1>0, HandledRange, DeliveryTypes
<1>2. Logged' => Handled' = IF pc' = "flood" THEN Done' + 1 ELSE Done'
  <2> SUFFICES ASSUME Logged' PROVE Handled' = IF pc' = "flood" THEN Done' + 1 ELSE Done'
    OBVIOUS
  <2>1. /\ Len(log') \in Nat /\ Len(burst') \in Nat /\ i' \in Nat
    BY <1>0 DEF Typed, TypeOK
  <2> QED
    BY <2>1 DEF Handled, Done
<1>3. CASE RecvBurst
  <2>1. PICK num \in 1 .. MaxBurst :
          \E hdr \in [1 .. num -> Header] :
            /\ burst' = [x \in 1 .. num |->
                           [n |-> Len(log) + x, from |-> hdr[x].from,
                            src |-> hdr[x].src, dst |-> hdr[x].dst]]
            /\ log' = log \o burst'
    BY <1>3 DEF RecvBurst
  <2>2. /\ burst' \in Seq(Datagram) /\ Len(burst') = num /\ num \in Nat
        /\ DOMAIN burst' = 1 .. num
        /\ log \in Seq(Datagram) /\ Len(log) \in Nat
        /\ DOMAIN log = 1 .. Len(log)
        /\ Len(log') = Len(log) + num
        /\ \A x \in 1 .. Len(log) : log'[x] = log[x]
        /\ \A x \in 1 .. num : log'[Len(log) + x] = burst'[x]
    <3>1. /\ burst' \in Seq(Datagram) /\ log \in Seq(Datagram) /\ num \in Nat
          /\ log' = log \o burst'
      BY <1>0, <2>1 DEF Typed, TypeOK
    <3>2. Len(burst') = num
      BY <2>1, <3>1
    <3> HIDE DEF RxInv
    <3>3. /\ DOMAIN burst' = 1 .. Len(burst')
          /\ Len(log) \in Nat /\ DOMAIN log = 1 .. Len(log)
          /\ Len(log \o burst') = Len(log) + Len(burst')
          /\ \A x \in 1 .. Len(log) : (log \o burst')[x] = log[x]
          /\ \A x \in 1 .. Len(burst') : (log \o burst')[Len(log) + x] = burst'[x]
      BY <3>1, ConcatIs
    <3> QED
      BY <3>1, <3>2, <3>3
  <2>3. Logged'
    BY <2>2 DEF Logged
  <2>4. /\ pc = "recv" /\ pc' = "learn" /\ i' = 1
        /\ UNCHANGED ip_stat /\ Done = Len(log)
    BY <1>0, <1>3, <2>2 DEF RecvBurst, Numbered, Handling, Done
  <2>5. Handled' = Handled
    BY <1>1, <1>2, <2>2, <2>3, <2>4 DEF Done
  <2> QED
    BY <1>1, <2>2, <2>3, <2>4, <2>5, RxKept
<1>4. CASE Inward /\ ~FloodStart
  <2>1. /\ UNCHANGED <<burst, i, log, ip_stat>>
        /\ pc' = "flood" <=> pc = "flood"
    BY <1>4 DEF Inward, RecvFails, FdbKnown, FdbInsert, FdbNoMemory, ListShare,
       ListNew, ListNoMemory, FloodSkip, Flooding, FloodSendFails
  <2>2. Logged' /\ Handled' = Handled
    BY <2>1 DEF Logged, Handled
  <2> QED
    BY <1>1, <2>1, <2>2, RxKept
<1>5. CASE FloodSend \/ SendOne \/ SendDone \/ SendRetry \/ SendGiveUp
  <2>1. /\ UNCHANGED <<burst, i, log>>
        /\ pc' = "flood" <=> pc = "flood"
    BY <1>5 DEF FloodSend, Flooding, SendOne, SendDone, SendRetry, SendGiveUp
  <2>2. Logged' /\ Handled' = Handled
    BY <2>1 DEF Logged, Handled
  <2>3. ASSUME NEW ip \in Ips PROVE ip_stat'[ip].rx = ip_stat[ip].rx
    <3>1. CASE FloodSend
      <4>1. IpOf[Peer(cursor).addr] \in Ips
        BY <1>0, <3>1, PeerType DEF FloodSend, Flooding, PeerAddrInfo
      <4> QED
        BY <1>0, <3>1, <4>1, TxUpdate DEF FloodSend
    <3>2. CASE SendOne \/ SendDone \/ SendRetry \/ SendGiveUp
      BY <3>2 DEF SendOne, SendDone, SendRetry, SendGiveUp
    <3> QED
      BY <1>5, <3>1, <3>2
  <2> QED
    BY <1>1, <2>1, <2>2, <2>3, RxKept
<1>6. ASSUME EndFrame(to_array) \/ EndFrame(to_array'), pc \in {"route", "flood"},
             UNCHANGED <<log, k>>
      PROVE  Logged' /\ Handled' = Done + 1
  <2>1. Done' = Done + 1
    BY <1>0, <1>6, EndFrameDone
  <2>2. \/ UNCHANGED burst
        \/ burst' = <<>>
    BY <1>6 DEF EndFrame
  <2>3. Logged'
    <3>1. CASE UNCHANGED burst
      BY <1>6, <3>1 DEF Logged
    <3>2. CASE burst' = <<>>
      BY <3>2 DEF Logged
    <3> QED
      BY <2>2, <3>1, <3>2
  <2>4. pc' # "flood"
    BY <1>6 DEF EndFrame
  <2> QED
    BY <1>2, <2>1, <2>3, <2>4
<1>7. CASE FloodEnd
  <2>1. Logged' /\ Handled' = Handled
    BY <1>1, <1>6, <1>7 DEF FloodEnd
  <2> QED
    BY <1>1, <1>7, <2>1, RxKept DEF FloodEnd
<1>8. CASE ForwardLocal \/ ForwardToArray \/ FloodStart
  <2>1. /\ pc = "route" /\ UNCHANGED <<log, k>>
        /\ Frame \in Datagram /\ Frame.from \in Addrs /\ IpOf[Frame.from] \in Ips
    <3>1. pc = "route" /\ UNCHANGED <<log, k>>
      BY <1>8 DEF ForwardLocal, ForwardToArray, FloodStart
    <3>2. Frame \in Datagram
      BY <1>0, <3>1, FrameType DEF Handling
    <3> QED
      BY <3>1, <3>2 DEF Datagram
  <2>2. Logged' /\ Handled' = Handled + 1
    <3>1. CASE FloodStart
      <4>1. UNCHANGED <<burst, i, log>> /\ pc' = "flood"
        BY <3>1 DEF FloodStart
      <4>2. Logged' /\ Done' = Done
        BY <4>1 DEF Logged, Done
      <4> QED
        BY <1>1, <1>2, <2>1, <4>1, <4>2
    <3>2. CASE ForwardLocal \/ ForwardToArray
      BY <1>1, <1>6, <2>1, <3>2 DEF ForwardLocal, ForwardToArray
    <3> QED
      BY <1>8, <3>1, <3>2
  <2>3. ASSUME NEW j \in Ips
        PROVE  \/ ip_stat'[j].rx =
                    ip_stat[j].rx + (IF j = IpOf[Frame.from] THEN 1 ELSE 0)
               \/ AllocMayFail /\ ip_stat'[j].rx = ip_stat[j].rx
    <3>1. CASE ForwardLocal \/ FloodStart
      BY <1>0, <2>1, <3>1, RxUpdate DEF ForwardLocal, FloodStart
    <3>2. CASE ForwardToArray
      <4>1. PICK st \in wlan_ip_static_update_rx(ip_stat, IpOf[Frame.from]) :
              ip_stat' \in wlan_ip_static_update_tx(st, IpOf[Target])
        BY <3>2 DEF ForwardToArray
      <4>2. IpOf[Target] \in Ips
        BY <1>0, <2>1, <3>2 DEF ForwardToArray, Target, Typed, TypeOK
      <4>3. st \in [Ips -> Counters]
        BY <1>0, <2>1, RxUpdate
      <4>4. ip_stat'[j].rx = st[j].rx
        BY <4>1, <4>2, <4>3, TxUpdate
      <4> QED
        BY <1>0, <2>1, <4>4, RxUpdate
    <3> QED
      BY <1>8, <3>1, <3>2
  <2>4. log[Handled + 1] = Frame
    BY <1>1, <2>1
  <2> QED
    BY <1>0, <1>1, <2>1, <2>2, <2>3, <2>4, RxCounted
<1>9. CASE UNCHANGED vars
  <2>1. UNCHANGED <<burst, i, log, ip_stat, pc>>
    BY <1>9 DEF vars
  <2>2. Logged' /\ Handled' = Handled
    BY <2>1 DEF Logged, Handled
  <2> QED
    BY <1>1, <2>1, <2>2, RxKept
<1> QED
  BY <1>3, <1>4, <1>5, <1>7, <1>8, <1>9 DEF Next, Handle, Inward

\* Nothing is received or counted at the start.
LEMMA RxInit == Init => RxInv
<1> SUFFICES ASSUME Init PROVE Logged /\ RxCountsEachFrame
  BY DeliveryInit DEF RxInv
<1>1. /\ DOMAIN burst = {} /\ Len(log) = 0 /\ Len(burst) = 0 /\ i = 1
      /\ pc = "recv"
      /\ \A ip \in Ips : ip_stat[ip].rx = 0
  BY DEF Init
<1>2. Handled = 0
  BY <1>1 DEF Handled
<1>3. \A ip \in Ips : From(ip) = {}
  BY <1>2 DEF From
<1>4. \A ip \in Ips : Cardinality(From(ip)) = 0
  BY <1>3, FS_EmptySet
<1> QED
  BY <1>1, <1>4 DEF Logged, RxCountsEachFrame, From

\* Each received frame is counted once for the IP it came from, on whichever
\* of the paths of wlan_br_handle_burst it takes, for any bursts; and what a
\* failed allocation leaves out is never made up for.
THEOREM FramesCounted == Spec => []RxCountsEachFrame
<1>1. RxInv => RxCountsEachFrame
  BY DEF RxInv
<1> QED
  BY <1>1, RxInit, RxStep, PTL DEF Spec

\* The copies on the wire to an IP, and those the array still owes it.
Sent(ip) == {x \in DOMAIN wire : IpOf[wire[x].to] = ip}
Owed(ip) == {x \in DOMAIN to_array : x >= k /\ IpOf[to_array[x].to] = ip}

sent(ip) == Cardinality(Sent(ip))
owed(ip) == Cardinality(Owed(ip))

\* Both are finite, before and after a step.
LEMMA OutFinite ==
  ASSUME Typed, Typed', NEW ip
  PROVE  /\ IsFiniteSet(Sent(ip)) /\ sent(ip) \in Nat
         /\ IsFiniteSet(Owed(ip)) /\ owed(ip) \in Nat
         /\ IsFiniteSet(Owed(ip)') /\ owed(ip)' \in Nat
<1>1. /\ Len(wire) \in Nat /\ Sent(ip) \subseteq 1 .. Len(wire)
      /\ Len(to_array) \in Nat /\ Owed(ip) \subseteq 1 .. Len(to_array)
      /\ Len(to_array') \in Nat /\ Owed(ip)' \subseteq 1 .. Len(to_array')
  <2>1. wire \in Seq(Copy) /\ to_array \in Seq(Copy) /\ to_array' \in Seq(Copy)
    BY DEF Typed, TypeOK
  <2> QED
    BY <2>1 DEF Sent, Owed
<1> QED
  BY <1>1, PositionsFinite DEF sent, owed

\* TxCoversWire for one IP: what was counted against what is out.
Covered(counted, out) ==
  /\ counted >= out
  /\ ~SendMayFail => counted = out

\* The same, with the two sets named.
LEMMA TxCovered ==
  TxCoversWire <=>
    (~AllocMayFail =>
       \A ip \in Ips : Covered(ip_stat[ip].tx, sent(ip) + owed(ip)))
  BY DEF TxCoversWire, Covered, sent, owed, Sent, Owed

\* A copy handed to the network.
LEMMA SentGrows ==
  ASSUME Typed, Typed', NEW c, wire' = Append(wire, c), NEW ip
  PROVE  sent(ip)' = sent(ip) + (IF IpOf[c.to] = ip THEN 1 ELSE 0)
<1> PICK n \in Nat : n = Len(wire)
  BY DEF Typed, TypeOK
<1>1. /\ DOMAIN wire = 1 .. n
      /\ DOMAIN wire' = 1 .. n + 1
      /\ \A p \in DOMAIN wire : wire'[p] = wire[p]
      /\ wire'[n + 1] = c
  BY WireAppend
<1>2. /\ n + 1 \notin Sent(ip)
      /\ Sent(ip)' = Sent(ip) \/ Sent(ip)' = Sent(ip) \cup {n + 1}
      /\ n + 1 \in Sent(ip)' <=> IpOf[c.to] = ip
  BY <1>1 DEF Sent
<1> QED
  BY <1>2, OutFinite, PositionAdded DEF sent

TxInv == DeliveryInv /\ TxCoversWire

\* Every step that makes a copy or defers one counts it, no step counts
\* another, and only a failed send takes one away.
THEOREM TxStep == TxInv /\ [Next]_vars => TxInv'
<1> SUFFICES ASSUME TxInv, [Next]_vars, ~AllocMayFail, NEW ip \in Ips
             PROVE  Covered(ip_stat'[ip].tx, sent(ip)' + owed(ip)')
  BY DeliveryStep DEF TxInv, TxCoversWire, Covered, sent, owed, Sent, Owed
<1> USE BridgeAssumption DEF TxInv, DeliveryInv, TablesInv
<1>0. /\ Typed /\ Typed' /\ Numbered
      /\ ip_stat \in [Ips -> Counters] /\ ip_stat[ip].tx \in Nat
      /\ sent(ip) \in Nat /\ owed(ip) \in Nat /\ owed(ip)' \in Nat
      /\ IsFiniteSet(Sent(ip)) /\ IsFiniteSet(Owed(ip)) /\ IsFiniteSet(Owed(ip)')
      /\ Covered(ip_stat[ip].tx, sent(ip) + owed(ip))
  BY DeliveryStep, OutFinite, TxCovered DEF Delivery, Typed, TypeOK, Counters
<1>1. /\ to_array \in Seq(Copy) /\ Len(to_array) \in Nat
      /\ DOMAIN to_array = 1 .. Len(to_array) /\ k \in Nat \ {0}
  BY <1>0 DEF Typed, TypeOK
<1>2. ASSUME UNCHANGED <<wire, to_array, k>>, ip_stat'[ip].tx = ip_stat[ip].tx
      PROVE  Covered(ip_stat'[ip].tx, sent(ip)' + owed(ip)')
  BY <1>0, <1>2 DEF sent, owed, Sent, Owed
<1>3. CASE RecvBurst \/ (Inward /\ ~FloodStart) \/ FloodEnd \/ UNCHANGED vars
  <2>1. UNCHANGED <<wire, to_array, k, ip_stat>>
    BY <1>3 DEF RecvBurst, FloodEnd, vars, Inward, RecvFails, FdbKnown, FdbInsert,
       FdbNoMemory, ListShare, ListNew, ListNoMemory, FloodSkip, FloodSendFails
  <2> QED
    BY <1>2, <2>1
<1>4. CASE ForwardLocal \/ FloodStart
  <2>1. /\ UNCHANGED <<wire, to_array, k>> /\ pc = "route"
        /\ ip_stat' \in wlan_ip_static_update_rx(ip_stat, IpOf[Frame.from])
    BY <1>4 DEF ForwardLocal, FloodStart
  <2>2. IpOf[Frame.from] \in Ips
    BY <1>0, <2>1, FrameType DEF Handling, Datagram
  <2> QED
    BY <1>0, <1>2, <2>1, <2>2, RxUpdate
<1>5. CASE ForwardToArray
  <2>1. /\ pc = "route" /\ Target # NoAddr /\ UNCHANGED <<wire, k>>
        /\ to_array' = Append(to_array, [d |-> Frame, to |-> Target])
    BY <1>5 DEF ForwardToArray
  <2>2. k = 1 /\ IpOf[Frame.from] \in Ips /\ IpOf[Target] \in Ips
    BY <1>0, <2>1, FrameType DEF Numbered, Handling, Datagram, Target, Typed, TypeOK
  <2>3. ip_stat'[ip].tx = ip_stat[ip].tx + (IF ip = IpOf[Target] THEN 1 ELSE 0)
    <3>1. PICK st \in wlan_ip_static_update_rx(ip_stat, IpOf[Frame.from]) :
            ip_stat' \in wlan_ip_static_update_tx(st, IpOf[Target])
      BY <1>5 DEF ForwardToArray
    <3>2. st \in [Ips -> Counters] /\ st[ip].tx = ip_stat[ip].tx
      BY <1>0, <2>2, RxUpdate
    <3> QED
      BY <2>2, <3>1, <3>2, TxUpdate
  <2>4. owed(ip)' = owed(ip) + (IF ip = IpOf[Target] THEN 1 ELSE 0)
    <3> PICK n \in Nat : n = Len(to_array)
      BY <1>1
    <3>1. /\ n + 1 \notin Owed(ip)
          /\ Owed(ip)' = Owed(ip) \/ Owed(ip)' = Owed(ip) \cup {n + 1}
          /\ n + 1 \in Owed(ip)' <=> ip = IpOf[Target]
      BY <1>1, <2>1, <2>2 DEF Owed
    <3> QED
      BY <1>0, <3>1, PositionAdded DEF owed
  <2>5. sent(ip)' = sent(ip)
    BY <2>1 DEF sent, Sent
  <2> QED
    BY <1>0, <2>3, <2>4, <2>5 DEF Covered
<1>6. CASE FloodSend
  <2>1. /\ pc = "flood" /\ UNCHANGED <<to_array, k>>
        /\ wire' = Append(wire, [d |-> Frame, to |-> Peer(cursor).addr])
        /\ ip_stat' \in wlan_ip_static_update_tx(ip_stat, IpOf[Peer(cursor).addr])
    BY <1>6 DEF FloodSend, Flooding
  <2>2. IpOf[Peer(cursor).addr] \in Ips
    BY <1>0, <1>6, PeerType DEF FloodSend, Flooding, PeerAddrInfo
  <2>3. ip_stat'[ip].tx =
          ip_stat[ip].tx + (IF ip = IpOf[Peer(cursor).addr] THEN 1 ELSE 0)
    BY <1>0, <2>1, <2>2, TxUpdate
  <2>4. sent(ip)' = sent(ip) + (IF ip = IpOf[Peer(cursor).addr] THEN 1 ELSE 0)
    <3> PICK c : c = [d |-> Frame, to |-> Peer(cursor).addr]
      OBVIOUS
    <3>1. sent(ip)' = sent(ip) + (IF IpOf[c.to] = ip THEN 1 ELSE 0)
      BY <1>0, <2>1, SentGrows
    <3> QED
      BY <3>1
  <2>5. owed(ip)' = owed(ip)
    BY <2>1 DEF owed, Owed
  <2> QED
    BY <1>0, <2>3, <2>4, <2>5 DEF Covered
<1>7. CASE SendOne
  <2>1. /\ k \in DOMAIN to_array /\ k' = k + 1 /\ UNCHANGED <<to_array, ip_stat>>
        /\ wire' = Append(wire, to_array[k])
    BY <1>7 DEF SendOne
  <2>2. sent(ip)' = sent(ip) + (IF IpOf[to_array[k].to] = ip THEN 1 ELSE 0)
    <3> PICK c : c = to_array[k]
      OBVIOUS
    <3>1. sent(ip)' = sent(ip) + (IF IpOf[c.to] = ip THEN 1 ELSE 0)
      BY <1>0, <2>1, SentGrows
    <3> QED
      BY <3>1
  <2>3. owed(ip) = owed(ip)' + (IF IpOf[to_array[k].to] = ip THEN 1 ELSE 0)
    <3>1. /\ k \notin Owed(ip)'
          /\ Owed(ip) = Owed(ip)' \/ Owed(ip) = Owed(ip)' \cup {k}
          /\ k \in Owed(ip) <=> IpOf[to_array[k].to] = ip
      BY <1>1, <2>1 DEF Owed
    <3> QED
      BY <1>0, <3>1, PositionAdded DEF owed
  <2> QED
    BY <1>0, <2>1, <2>2, <2>3 DEF Covered
<1>8. CASE SendDone
  <2>1. k \notin DOMAIN to_array /\ to_array' = <<>> /\ UNCHANGED <<wire, ip_stat>>
    BY <1>8 DEF SendDone
  <2>2. Owed(ip) = {} /\ Owed(ip)' = {}
    BY <1>1, <2>1 DEF Owed
  <2>3. sent(ip)' = sent(ip) /\ owed(ip)' = owed(ip)
    BY <2>1, <2>2 DEF sent, owed, Sent
  <2> QED
    BY <1>0, <2>1, <2>3
<1>9. CASE SendRetry
  <2>1. /\ k \in DOMAIN to_array /\ k' = 1
        /\ to_array' = SubSeq(to_array, k, Len(to_array))
        /\ UNCHANGED <<wire, ip_stat>>
    BY <1>9 DEF SendRetry, ShortSend, Unsent
  <2>2. /\ DOMAIN to_array' = 1 .. Len(to_array) - k + 1
        /\ \A x \in 1 .. Len(to_array) - k + 1 : to_array'[x] = to_array[k + x - 1]
    BY <1>1, <2>1
  <2>3. sent(ip)' = sent(ip)
    BY <2>1 DEF sent, Sent
  <2>4. owed(ip)' = owed(ip)
    <3> PICK S, T, d : S = Owed(ip) /\ T = Owed(ip)' /\ d = 1 - k
      OBVIOUS
    <3>1. /\ d \in Int /\ S \subseteq Int /\ T \subseteq Int /\ IsFiniteSet(S)
      BY <1>0, <1>1, <2>2 DEF Owed
    <3>2. \A x \in Int : x + d \in T <=> x \in S
      <4> TAKE x \in Int
      <4>1. x + d \in T <=>
              /\ x + d \in 1 .. Len(to_array) - k + 1
              /\ IpOf[to_array[x].to] = ip
        BY <1>1, <2>1, <2>2 DEF Owed
      <4>2. x \in S <=>
              /\ x \in 1 .. Len(to_array) /\ x >= k
              /\ IpOf[to_array[x].to] = ip
        BY <1>1 DEF Owed
      <4> QED
        BY <1>1, <2>1, <4>1, <4>2
    <3>3. Cardinality(T) = Cardinality(S)
      BY <3>1, <3>2, PositionsShift
    <3> QED
      BY <3>1, <3>3 DEF owed
  <2> QED
    BY <1>0, <2>1, <2>3, <2>4
<1>10. CASE SendGiveUp
  <2>1. SendMayFail /\ to_array' = <<>> /\ UNCHANGED <<wire, ip_stat>>
    BY <1>10 DEF SendGiveUp, ShortSend
  <2>2. Owed(ip)' = {}
    BY <2>1 DEF Owed
  <2>3. sent(ip)' = sent(ip) /\ owed(ip)' = 0
    BY <2>1, <2>2, FS_EmptySet DEF sent, owed, Sent
  <2> QED
    BY <1>0, <2>1, <2>3 DEF Covered
<1> QED
  BY <1>3, <1>4, <1>5, <1>6, <1>7, <1>8, <1>9, <1>10 DEF Next, Handle, Inward

\* The transmit counters cover every copy on the wire and every copy still
\* owed, exactly unless sends fail, for any number of clients behind an IP.
THEOREM CopiesCounted == Spec => []TxCoversWire
<1>1. Init => TxInv
  <2> SUFFICES ASSUME Init PROVE TxCoversWire
    BY DeliveryInit DEF TxInv
  <2>1. \A ip \in Ips : ip_stat[ip].tx = 0 /\ Sent(ip) = {} /\ Owed(ip) = {}
    BY DEF Init, Sent, Owed
  <2>2. \A ip \in Ips : sent(ip) = 0 /\ owed(ip) = 0
    BY <2>1, FS_EmptySet DEF sent, owed
  <2> QED
    BY <2>1, <2>2, TxCovered DEF Covered
<1>2. TxInv => TxCoversWire
  BY DEF TxInv
<1> QED
  BY <1>1, <1>2, TxStep, PTL DEF Spec

-----------------------------------------------------------------------------
(* Three more facts: frames are numbered as they came, within the bound of *)
(* the model, and a frame is routed only after its sender was located.     *)

Ordered == \A x \in DOMAIN log : log[x].n = x

Bounded == Len(log) <= MaxFrames

Learned == pc = "route" /\ ~AllocMayFail => h_head[Frame.src] # NoAddr

RefinementInv == RxInv /\ Ordered /\ Bounded /\ Learned

\* Only a burst lengthens the log, in order and within the bound of the model.
LEMMA OrderedStep ==
  ASSUME DeliveryInv, Ordered, Bounded, [Next]_vars
  PROVE  Ordered' /\ Bounded'
<1>1. CASE RecvBurst
  <2>1. PICK num \in 1 .. MaxBurst :
          /\ Len(log) + num <= MaxFrames
          /\ \E hdr \in [1 .. num -> Header] :
               /\ burst' = [x \in 1 .. num |->
                              [n |-> Len(log) + x, from |-> hdr[x].from,
                               src |-> hdr[x].src, dst |-> hdr[x].dst]]
               /\ log' = log \o burst'
    BY <1>1 DEF RecvBurst
  <2>2. log \in Seq(Datagram) /\ burst' \in Seq(Datagram)
    BY TypedStep DEF DeliveryInv, TablesInv, Typed, TypeOK
  <2>3. Len(burst') = num /\ \A x \in 1 .. num : burst'[x].n = Len(log) + x
    BY <2>1, BridgeAssumption
  <2>4. /\ Len(log') = Len(log) + num /\ Len(log) \in Nat
        /\ \A x \in 1 .. Len(log) : log'[x] = log[x]
        /\ \A x \in 1 .. num : log'[Len(log) + x] = burst'[x]
    BY <2>1, <2>2, <2>3
  <2>5. \A x \in 1 .. Len(log) + num : log'[x].n = x
    <3> TAKE x \in 1 .. Len(log) + num
    <3>1. CASE x <= Len(log)
      BY <2>2, <2>4, <3>1 DEF Ordered
    <3>2. CASE x > Len(log)
      <4>1. x - Len(log) \in 1 .. num /\ Len(log) + (x - Len(log)) = x
        BY <2>4, <3>2
      <4> QED
        BY <2>3, <2>4, <4>1
    <3> QED
      BY <2>4, <3>1, <3>2
  <2>6. DOMAIN log' = 1 .. Len(log) + num
    BY <2>1, <2>2, <2>4
  <2> QED
    BY <2>1, <2>4, <2>5, <2>6 DEF Ordered, Bounded
<1>2. CASE UNCHANGED log
  BY <1>2 DEF Ordered, Bounded
<1>3. RecvBurst \/ UNCHANGED log
  BY DEF Next, Handle, RecvFails, FdbKnown, FdbInsert, FdbNoMemory, ListShare,
     ListNew, ListNoMemory, ForwardLocal, ForwardToArray, FloodStart, FloodSkip,
     FloodSend, FloodSendFails, FloodEnd, SendOne, SendDone, SendRetry,
     SendGiveUp, vars
<1> QED
  BY <1>1, <1>2, <1>3

\* Every way from learning to routing that has memory leaves the sender located
\* (wlan_fdb_update, wlan_list_update).
LEMMA LearnedStep ==
  ASSUME DeliveryInv, Learned, [Next]_vars
  PROVE  Learned'
<1> SUFFICES ASSUME pc' = "route", ~AllocMayFail
             PROVE  h_head'[Frame'.src] # NoAddr
  BY DEF Learned
<1>1. CASE FdbKnown
  BY <1>1 DEF FdbKnown, Frame, tables
<1>2. CASE ListShare \/ ListNew
  <2>1. pc = "enlist" /\ UNCHANGED <<h_head, burst, i>>
    BY <1>2 DEF ListShare, ListNew
  <2>2. h_head[Frame.src] = Frame.from /\ Frame.from \in Addrs
    BY <2>1, FrameType
       DEF Handling, Datagram, DeliveryInv, TablesInv, Tables, Enlisting
  <2> QED
    BY <2>1, <2>2, BridgeAssumption DEF Frame
<1>3. CASE UNCHANGED vars
  BY <1>3 DEF Learned, Frame, vars, tables
<1> QED
  BY <1>1, <1>2, <1>3
     DEF Next, Handle, RecvBurst, RecvFails, FdbInsert, FdbNoMemory,
         ListNoMemory, ForwardLocal, ForwardToArray, EndFrame, FloodStart,
         FloodSkip, Flooding, FloodSend, FloodSendFails, FloodEnd, SendOne,
         SendDone, SendRetry, SendGiveUp

\* Every step of the RX thread keeps the invariant of the refinement.
LEMMA RefinementStep == RefinementInv /\ [Next]_vars => RefinementInv'
  BY RxStep, OrderedStep, LearnedStep DEF RefinementInv, RxInv

-----------------------------------------------------------------------------
(* The refinement mapping.                                                 *)

\* The frames routed are those dealt with, and the one being flooded.
LEMMA HandledDone ==
  ASSUME Typed
  PROVE  /\ pc # "flood" => Handled = Done
         /\ pc = "flood" => Handled = Done + 1
  BY DeliveryTypes DEF Handled, Done

\* What was received and what was routed stay while no burst comes and no frame
\* is dealt with.
LEMMA FramesKept ==
  ASSUME UNCHANGED log, Handled' = Handled
  PROVE  Heard' = Heard /\ Routed' = Routed
  BY DEF Heard, Routed

\* Until it is routed, the frame in hand is received and not routed.
LEMMA FramePending ==
  ASSUME RefinementInv, pc \in {"learn", "enlist", "route"}
  PROVE  /\ Frame \in Service!Pending
         /\ Handled \in Nat /\ log[Handled + 1] = Frame
<1>1. Typed /\ Numbered /\ Logged /\ Ordered
  BY DEF RefinementInv, RxInv, DeliveryInv, TablesInv, Delivery
<1>2. /\ Handled \in 0 .. Len(log) /\ Handled + 1 \in DOMAIN log
      /\ log[Handled + 1] = Frame
  BY <1>1, HandledRange
<1>3. Len(log) \in Nat /\ DOMAIN log = 1 .. Len(log)
  BY <1>1, DeliveryTypes DEF Typed, TypeOK
<1>4. Frame \in Heard
  BY <1>2 DEF Heard
<1>5. Frame.n = Handled + 1 /\ \A x \in 1 .. Handled : log[x].n = x
  BY <1>1, <1>2, <1>3 DEF Ordered
<1>6. \A x \in 1 .. Handled : log[x] # Frame
  BY <1>2, <1>3, <1>5
<1>7. Frame \notin Routed
  BY <1>6 DEF Routed
<1> QED
  BY <1>2, <1>3, <1>4, <1>7 DEF Service!Pending

\* The flood reaches the same clients while the list and the addresses stay.
LEMMA MembersKept ==
  ASSUME TablesInv, UNCHANGED l_head,
         \A p \in DOMAIN pa_heap : pa_heap'[p].addr = pa_heap[p].addr
  PROVE  Members' = Members
<1>1. \A x \in DOMAIN l_head : l_head[x].pa \in DOMAIN pa_heap
  BY DEF TablesInv, Tables, ListAgreesWithFdb
<1> QED
  BY <1>1 DEF Members, Peer

\* Unless memory ran out, the members are the located clients when a frame is
\* routed, and its sender is one of them.
LEMMA RouteGuard ==
  ASSUME RefinementInv, pc = "route"
  PROVE  AllocMayFail \/ (h_head[Frame.src] # NoAddr /\ Members = Service!Located)
<1> SUFFICES ASSUME ~AllocMayFail
             PROVE  h_head[Frame.src] # NoAddr /\ Members = Service!Located
  OBVIOUS
<1> USE DEF RefinementInv, RxInv, DeliveryInv, TablesInv
<1>1. h_head[Frame.src] # NoAddr
  BY DEF Learned
<1>2. \A x \in DOMAIN l_head : /\ l_head[x].mac \in Macs
                               /\ Peer(x).addr \in Addrs
                               /\ Peer(x).addr = h_head[l_head[x].mac]
  BY PeerType DEF Entry, PeerAddrInfo, Tables, ListAgreesWithFdb
<1>3. \A m \in Macs : h_head[m] # NoAddr =>
        \E x \in DOMAIN l_head : Peer(x).addr = h_head[m]
  BY DEF Tables, Floodable
<1>4. Members \subseteq Service!Located
  BY <1>2, BridgeAssumption DEF Members, Service!Located
<1>5. Service!Located \subseteq Members
  BY <1>3 DEF Members, Service!Located
<1> QED
  BY <1>1, <1>4, <1>5

-----------------------------------------------------------------------------
(* Steps that the service does not see.                                    *)

\* The array owes the same copies while it and its index stay.
LEMMA ArrayKept ==
  ASSUME UNCHANGED <<to_array, k>>
  PROVE  InArray' = InArray
  BY DEF InArray

\* A step that changes nothing the mapping looks at is a stutter of the service.
LEMMA Invisible ==
  ASSUME RefinementInv, Members' = Members, Handled' = Handled, Due' = Due,
         UNCHANGED <<h_head, log, wire>>
  PROVE  UNCHANGED Service!vars
  BY FramesKept DEF Service!vars

\* Receiving nothing, learning nothing, and failing to enter a station.
LEMMA QuietStep ==
  ASSUME RefinementInv,
         RecvFails \/ FdbKnown \/ FdbNoMemory \/ ListNoMemory
  PROVE  UNCHANGED Service!vars
<1>1. /\ UNCHANGED <<h_head, l_head, pa_heap, burst, i, log, to_array, k, wire>>
      /\ pc # "flood" /\ pc' # "flood"
  BY DEF RecvFails, FdbKnown, FdbNoMemory, ListNoMemory, tables
<1>2. Members' = Members /\ Handled' = Handled
  BY <1>1 DEF Members, Peer, Handled
<1>3. Due' = Due
  BY <1>1, ArrayKept DEF Due
<1> QED
  BY <1>1, <1>2, <1>3, Invisible

\* A skipped entry owed nothing: its client was flooded or is the sender.
LEMMA FloodSkipStep ==
  ASSUME RefinementInv, FloodSkip
  PROVE  UNCHANGED Service!vars
<1>1. /\ pc = "flood" /\ pc' = "flood" /\ cursor' = cursor + 1
      /\ UNCHANGED <<h_head, l_head, pa_heap, burst, i, log, to_array, k, wire>>
      /\ SkipPeer
  BY DEF FloodSkip, Flooding, tables
<1>2. cursor \in Nat /\ DOMAIN l_head \subseteq Nat
  BY DEF RefinementInv, RxInv, DeliveryInv, TablesInv, Typed, TypeOK
<1>3. Members' = Members /\ Handled' = Handled
  BY <1>1 DEF Members, Peer, Handled
<1>4. \A y \in DOMAIN l_head :
        /\ y >= cursor + 1 => y >= cursor
        /\ y >= cursor /\ y # cursor => y >= cursor + 1
  BY <1>2
<1>5. InFlood' = InFlood
  <2>1. \A y \in DOMAIN l_head' : Peer(y)' = Peer(y)
    BY <1>1 DEF Peer
  <2>2. Frame' = Frame
    BY <1>1 DEF Frame
  <2>3. Peer(cursor).flood_flag = 0 => Peer(cursor).addr = Frame.from
    BY <1>1 DEF SkipPeer
  <2> QED
    BY <1>1, <1>4, <2>1, <2>2, <2>3 DEF InFlood
<1>6. Due' = Due
  BY <1>1, <1>5, ArrayKept DEF Due
<1> QED
  BY <1>1, <1>3, <1>6, Invisible

\* A frame that is dealt with: the next one is in hand, or none.
LEMMA FrameDealt ==
  ASSUME RefinementInv, pc \in {"route", "flood"}, NEW array, EndFrame(array),
         UNCHANGED <<log, k>>, Typed'
  PROVE  Handled' = Done + 1 /\ pc' # "flood"
<1>1. Typed /\ Numbered
  BY DEF RefinementInv, RxInv, DeliveryInv, TablesInv, Delivery
<1>2. Done' = Done + 1 /\ pc' # "flood"
  BY <1>1, EndFrameDone, EndFrameStep
<1>3. (pc # "flood" => Handled = Done)'
  BY HandledDone, DeliveryTypes DEF Handled, Done
<1> QED
  BY <1>2, <1>3

\* At its end a flood owes nothing; clearing the flags is invisible.
LEMMA FloodEndStep ==
  ASSUME RefinementInv, FloodEnd, Typed'
  PROVE  UNCHANGED Service!vars
<1> USE DEF RefinementInv, RxInv, DeliveryInv, TablesInv
<1>1. /\ pc = "flood" /\ cursor \notin DOMAIN l_head
      /\ EndFrame(to_array) /\ pa_heap' = ClearFlags
      /\ UNCHANGED <<h_head, l_head, to_array, k, log, wire>>
  BY DEF FloodEnd
<1>2. Handled' = Handled /\ pc' # "flood"
  BY <1>1, FrameDealt, HandledDone
<1>3. Members' = Members
  BY <1>1, FlagsDown, MembersKept
<1>4. \A y \in DOMAIN l_head : ~(y >= cursor)
  BY <1>1 DEF Typed, TypeOK
<1>5. InFlood = {}
  BY <1>4 DEF InFlood
<1>6. Due' = Due
  BY <1>1, <1>2, <1>5, ArrayKept DEF Due
<1> QED
  BY <1>1, <1>2, <1>3, <1>6, Invisible

\* What the steps of the array leave alone.
LEMMA ArrayStep ==
  ASSUME RefinementInv, SendOne \/ SendDone \/ SendRetry \/ SendGiveUp
  PROVE  /\ UNCHANGED h_head /\ Members' = Members /\ Handled' = Handled
         /\ UNCHANGED log /\ Due = InArray /\ Due' = InArray'
<1>1. /\ UNCHANGED <<h_head, l_head, pa_heap, burst, i, log>>
      /\ pc # "flood" /\ pc' # "flood"
  BY DEF SendOne, SendDone, SendRetry, SendGiveUp, tables
<1> QED
  BY <1>1 DEF Members, Peer, Handled, Due

\* At its end the array owes nothing; emptying it is invisible.
LEMMA SendDoneStep ==
  ASSUME RefinementInv, SendDone
  PROVE  UNCHANGED Service!vars
<1>1. k \notin DOMAIN to_array /\ to_array' = <<>> /\ wire' = wire
  BY DEF SendDone
<1>2. \A y \in DOMAIN to_array : ~(y >= k)
  BY <1>1 DEF RefinementInv, RxInv, DeliveryInv, TablesInv, Typed, TypeOK
<1>3. InArray = {} /\ InArray' = {}
  BY <1>1, <1>2 DEF InArray
<1> QED
  BY <1>1, <1>3, ArrayStep, Invisible

\* The resend has the copies that were not sent, all of them.
LEMMA SendRetryStep ==
  ASSUME RefinementInv, SendRetry
  PROVE  UNCHANGED Service!vars
<1>1. k \in DOMAIN to_array /\ to_array' = Unsent /\ k' = 1 /\ wire' = wire
  BY DEF SendRetry, ShortSend
<1> DEFINE n == Len(to_array)
<1>2. to_array \in Seq(Copy) /\ n \in Nat /\ k \in 1 .. n
  BY <1>1 DEF RefinementInv, RxInv, DeliveryInv, TablesInv, Typed, TypeOK
<1>3. /\ DOMAIN to_array = 1 .. n
      /\ DOMAIN to_array' = 1 .. n - k + 1
      /\ \A x \in 1 .. n - k + 1 : to_array'[x] = to_array[x + k - 1]
  BY <1>1, <1>2 DEF Unsent
<1> HIDE DEF n
<1>4. InArray' \subseteq InArray
  BY <1>1, <1>2, <1>3 DEF InArray
<1>5. InArray \subseteq InArray'
  <2> SUFFICES ASSUME NEW y \in DOMAIN to_array, y >= k
               PROVE  to_array[y] \in InArray'
    BY DEF InArray
  <2>1. y - k + 1 \in DOMAIN to_array' /\ to_array'[y - k + 1] = to_array[y]
        /\ y - k + 1 >= k'
    BY <1>1, <1>2, <1>3
  <2> QED
    BY <2>1 DEF InArray
<1> QED
  BY <1>1, <1>4, <1>5, ArrayStep, Invisible

-----------------------------------------------------------------------------
(* Steps of the service.                                                   *)

\* A burst is heard and none of it routed yet: the frames in hand are not
\* counted, and have numbers of their own (read_data_from_udp_client_burst).
LEMMA RecvBurstStep ==
  ASSUME RefinementInv, RefinementInv', RecvBurst
  PROVE  Service!Next
<1>1. /\ pc = "recv" /\ pc' = "learn" /\ i' = 1 /\ log' = log \o burst'
      /\ UNCHANGED <<h_head, l_head, pa_heap, to_array, k, wire>>
  BY DEF RecvBurst, tables
<1>2. Typed /\ Typed' /\ Numbered /\ Ordered' /\ Bounded'
  BY DEF RefinementInv, RxInv, DeliveryInv, TablesInv, Delivery
<1>3. burst = <<>> /\ i = 1
  BY <1>1, <1>2 DEF Numbered, Handling
<1>4. /\ log \in Seq(Datagram) /\ burst' \in Seq(Datagram) /\ log' \in Seq(Datagram)
      /\ Len(log) \in Nat /\ Len(log') \in Nat
      /\ DOMAIN log = 1 .. Len(log) /\ DOMAIN log' = 1 .. Len(log')
  BY <1>2 DEF Typed, TypeOK
<1>5. /\ Len(log') = Len(log) + Len(burst') /\ Len(burst') \in Nat
      /\ \A x \in 1 .. Len(log) : x \in DOMAIN log' /\ log'[x] = log[x]
  BY <1>1, <1>4
<1>6. Handled = Len(log) /\ Handled' = Len(log)
  BY <1>1, <1>3, <1>4, <1>5 DEF Handled
<1>7. Heard \subseteq Heard' /\ Routed' = Routed
  BY <1>4, <1>5, <1>6 DEF Heard, Routed
<1>8. \A x \in DOMAIN log' : log'[x] \in Service!Datagram /\ log'[x].n = x
  <2> TAKE x \in DOMAIN log'
  <2>1. log'[x] \in Datagram /\ log'[x].n = x
    BY <1>2, <1>4 DEF Ordered
  <2>2. x \in 1 .. MaxFrames
    BY <1>2, <1>4, BridgeAssumption DEF Bounded
  <2> QED
    BY <2>1, <2>2 DEF Datagram, Service!Datagram
<1>9. Heard' \in SUBSET Service!Datagram /\ \A d, e \in Heard' : d.n = e.n => d = e
  BY <1>8 DEF Heard
<1>10. Members' = Members
  BY <1>1 DEF Members, Peer
<1>11. Due' = Due
  BY <1>1, ArrayKept DEF Due
<1>12. Service!Receive
  BY <1>1, <1>7, <1>9, <1>10, <1>11 DEF Service!Receive
<1> QED
  BY <1>12 DEF Service!Next

\* A new entry of the FDB locates a station (wlan_fdb_update).
LEMMA LearnStep ==
  ASSUME RefinementInv, FdbInsert
  PROVE  Service!Next
<1>1. /\ h_head[Frame.src] = NoAddr
      /\ h_head' = [h_head EXCEPT ![Frame.src] = Frame.from]
      /\ UNCHANGED <<l_head, pa_heap, burst, i, log, to_array, k, wire>>
      /\ pc # "flood" /\ pc' # "flood"
  BY DEF FdbInsert
<1>2. Members' = Members /\ Handled' = Handled /\ Due' = Due
  BY <1>1, ArrayKept DEF Members, Peer, Handled, Due
<1>3. Service!Learn(Frame)
  BY <1>1, <1>2, FramesKept DEF Service!Learn
<1>4. Frame \in Service!Pending
  BY FramePending DEF FdbInsert
<1> QED
  BY <1>3, <1>4 DEF Service!Next

\* A new entry of the list enrols its client, whether it shares a record or
\* brings one, and keeps the others (wlan_list_update).
LEMMA EnrolStep ==
  ASSUME RefinementInv, ListShare \/ ListNew, Typed'
  PROVE  Service!Next
<1> USE DEF RefinementInv, RxInv, DeliveryInv, TablesInv
<1>1. /\ pc = "enlist" /\ pc' = "route"
      /\ UNCHANGED <<h_head, burst, i, log, to_array, k, wire>>
  BY DEF ListShare, ListNew
<1>2. Frame.src \in Macs /\ Frame.from \in Addrs
      /\ h_head[Frame.src] = Frame.from
  BY <1>1, FrameType DEF Handling, Datagram, Tables, Enlisting
<1>3. Frame.from \in Service!Located
  BY <1>2, BridgeAssumption DEF Service!Located
<1>4. Handled' = Handled /\ Due' = Due
  BY <1>1, ArrayKept DEF Handled, Due
<1>5. PICK p \in DOMAIN pa_heap' :
        /\ p \in Nat /\ l_head' = Prepend(p)
        /\ pa_heap'[p].addr = Frame.from
        /\ \A q \in DOMAIN pa_heap : pa_heap'[q].addr = pa_heap[q].addr
  <2>1. pa_heap \in Seq(PeerAddrInfo)
    BY DEF Typed, TypeOK
  <2>2. CASE ListShare
    <3>1. PICK p \in RecordsOf(Frame.from) :
            /\ pa_heap' = [pa_heap EXCEPT ![p] = Share(pa_heap[p])]
            /\ l_head' = Prepend(p)
      BY <2>2 DEF ListShare
    <3>2. p \in DOMAIN pa_heap /\ pa_heap[p].addr = Frame.from
      BY <3>1 DEF RecordsOf, Peer, Typed, Linked
    <3>3. pa_heap[p] \in PeerAddrInfo /\ p \in Nat
      BY <2>1, <3>2
    <3>4. Share(pa_heap[p]).addr = pa_heap[p].addr
      BY <3>3, ShareRecord
    <3> QED
      BY <2>1, <3>1, <3>2, <3>3, <3>4
  <2>3. CASE ListNew
    <3>1. /\ pa_heap' = Append(pa_heap, [addr |-> Frame.from, count |-> Bump(0),
                                         flood_flag |-> 0])
          /\ l_head' = Prepend(Len(pa_heap) + 1)
      BY <2>3 DEF ListNew
    <3>2. /\ Len(pa_heap) + 1 \in DOMAIN pa_heap'
          /\ Len(pa_heap) + 1 \in Nat
          /\ pa_heap'[Len(pa_heap) + 1].addr = Frame.from
          /\ \A q \in DOMAIN pa_heap : pa_heap'[q] = pa_heap[q]
      BY <2>1, <3>1
    <3> QED
      BY <3>1, <3>2
  <2> QED
    BY <2>2, <2>3
<1>6. Members' = Members \cup {Frame.from}
  <2> DEFINE n == Len(l_head)
  <2>1. /\ DOMAIN l_head' = 1 .. n + 1
        /\ DOMAIN l_head = 1 .. n
        /\ n \in Nat
        /\ l_head'[1].pa = p
        /\ \A x \in 1 .. n : l_head'[x + 1] = l_head[x]
        /\ \A x \in 1 .. n + 1 :
             x # 1 => x - 1 \in 1 .. n /\ l_head'[x] = l_head[x - 1]
    <3>1. Typed /\ pc = "enlist" /\ p \in Nat
      BY <1>1, <1>5
    <3>2. /\ DOMAIN Prepend(p) = 1 .. n + 1
          /\ DOMAIN l_head = 1 .. n
          /\ n \in Nat
          /\ Prepend(p)[1] = [mac |-> Frame.src, pa |-> p]
          /\ \A x \in DOMAIN l_head : Prepend(p)[x + 1] = l_head[x]
          /\ \A x \in DOMAIN Prepend(p) :
               x # 1 => x - 1 \in DOMAIN l_head /\ Prepend(p)[x] = l_head[x - 1]
      BY <3>1, PrependStep
    <3>3. l_head' = Prepend(p)
      BY <1>5
    <3> HIDE DEF n
    <3> QED
      BY <3>2, <3>3
  <2> HIDE DEF n
  <2>2. \A x \in 1 .. n : l_head[x].pa \in DOMAIN pa_heap
    BY <2>1 DEF Typed, Linked
  <2>3. Peer(1)'.addr = Frame.from
    BY <1>5, <2>1 DEF Peer
  <2>4. \A x \in 1 .. n : Peer(x + 1)'.addr = Peer(x).addr
    BY <1>5, <2>1, <2>2 DEF Peer
  <2>5. \A x \in 1 .. n + 1 : x # 1 => Peer(x)'.addr = Peer(x - 1).addr
    BY <1>5, <2>1, <2>2 DEF Peer
  <2>6. Members' \subseteq Members \cup {Frame.from}
    BY <2>1, <2>3, <2>5 DEF Members
  <2>7. \A x \in 1 .. n : \E y \in DOMAIN l_head' : Peer(y)'.addr = Peer(x).addr
    <3> TAKE x \in 1 .. n
    <3>1. x + 1 \in DOMAIN l_head'
      BY <2>1
    <3> QED
      BY <2>4, <3>1
  <2>8. Members \subseteq Members'
    <3> SUFFICES ASSUME NEW a \in Members PROVE a \in Members'
      OBVIOUS
    <3>1. PICK x \in DOMAIN l_head : a = Peer(x).addr
      BY DEF Members
    <3>2. PICK y \in DOMAIN l_head' : Peer(y)'.addr = a
      BY <2>1, <2>7, <3>1
    <3> QED
      BY <3>2 DEF Members
  <2>9. Frame.from \in Members'
    <3>1. 1 \in DOMAIN l_head'
      BY <2>1
    <3> QED
      BY <2>3, <3>1 DEF Members
  <2> QED
    BY <2>6, <2>8, <2>9
<1>7. Service!Enrol(Frame.from)
  BY <1>1, <1>3, <1>4, <1>6, FramesKept DEF Service!Enrol
<1> QED
  BY <1>2, <1>7 DEF Service!Next

\* A frame is routed when the copies that become due are for its recipients.
LEMMA RoutedStep ==
  ASSUME RefinementInv, pc = "route", Handled' = Done + 1,
         UNCHANGED <<h_head, log, wire>>, Members' = Members,
         Due' = Due \cup {[d |-> Frame, to |-> a] : a \in Service!Recipients(Frame)}
  PROVE  Service!Next
<1>1. Typed
  BY DEF RefinementInv, RxInv, DeliveryInv, TablesInv
<1>2. /\ Frame \in Service!Pending
      /\ Handled \in Nat /\ log[Handled + 1] = Frame
  BY FramePending
<1>3. Handled' = Handled + 1
  BY <1>1, HandledDone
<1>4. 1 .. Handled' = (1 .. Handled) \cup {Handled + 1}
  BY <1>2, <1>3
<1>5. Routed' = Routed \cup {Frame} /\ Heard' = Heard
  BY <1>2, <1>4 DEF Routed, Heard
<1>6. Service!Route(Frame)
  BY <1>5, RouteGuard DEF Service!Route
<1> QED
  BY <1>2, <1>6 DEF Service!Next

\* A frame for a station behind its sender is routed to nobody.
LEMMA ForwardLocalStep ==
  ASSUME RefinementInv, ForwardLocal, Typed'
  PROVE  Service!Next
<1>1. /\ pc = "route" /\ Target # NoAddr /\ Target = Frame.from
      /\ EndFrame(to_array)
      /\ UNCHANGED <<h_head, l_head, pa_heap, to_array, k, log, wire>>
  BY DEF ForwardLocal, tables
<1>2. Handled' = Done + 1 /\ pc' # "flood"
  BY <1>1, FrameDealt
<1>3. Members' = Members
  BY <1>1 DEF Members, Peer
<1>4. Due' = Due
  BY <1>1, <1>2, ArrayKept DEF Due
<1>5. Service!Recipients(Frame) = {}
  BY <1>1 DEF Service!Recipients, Target
<1> QED
  BY <1>1, <1>2, <1>3, <1>4, <1>5, RoutedStep

\* A deferred copy routes the frame to the located client.
LEMMA ForwardToArrayStep ==
  ASSUME RefinementInv, ForwardToArray, Typed'
  PROVE  Service!Next
<1> DEFINE c == [d |-> Frame, to |-> Target]
<1>1. /\ pc = "route" /\ Target # NoAddr /\ Target # Frame.from
      /\ to_array' = Append(to_array, c)
      /\ EndFrame(to_array')
      /\ UNCHANGED <<h_head, l_head, pa_heap, k, log, wire>>
  BY DEF ForwardToArray, tables
<1>2. Handled' = Done + 1 /\ pc' # "flood"
  BY <1>1, FrameDealt
<1>3. Members' = Members
  BY <1>1 DEF Members, Peer
<1>4. InArray' = InArray \cup {c}
  <2> DEFINE n == Len(to_array)
  <2>1. to_array \in Seq(Copy) /\ k = 1 /\ k' = 1
    BY <1>1 DEF RefinementInv, RxInv, DeliveryInv, TablesInv, Typed, TypeOK, Delivery,
       Numbered
  <2>2. /\ n \in Nat
        /\ DOMAIN to_array = 1 .. n
        /\ DOMAIN to_array' = 1 .. n + 1
        /\ \A x \in 1 .. n : to_array'[x] = to_array[x]
        /\ to_array'[n + 1] = c
    BY <1>1, <2>1
  <2> HIDE DEF n, c
  <2> QED
    BY <2>1, <2>2 DEF InArray
<1>5. Service!Recipients(Frame) = {Target}
  BY <1>1 DEF Service!Recipients, Target
<1>6. {[d |-> Frame, to |-> a] : a \in Service!Recipients(Frame)} = {c}
  BY <1>5
<1>7. Due' = Due \cup {c}
  BY <1>1, <1>2, <1>4 DEF Due
<1> QED
  BY <1>1, <1>2, <1>3, <1>6, <1>7, RoutedStep

\* No flag is up when a flood begins: it owes a copy to each member but one.
LEMMA FloodStartStep ==
  ASSUME RefinementInv, FloodStart, Typed'
  PROVE  Service!Next
<1> USE DEF RefinementInv, RxInv, DeliveryInv, TablesInv
<1>1. /\ pc = "route" /\ pc' = "flood" /\ Target = NoAddr /\ cursor' = 1
      /\ UNCHANGED <<h_head, l_head, pa_heap, burst, i, to_array, k, log, wire>>
  BY DEF FloodStart, tables
<1>2. Handled' = Done + 1
  BY <1>1, DeliveryTypes DEF Handled, Done
<1>3. Members' = Members
  BY <1>1 DEF Members, Peer
<1>4. Service!Recipients(Frame) = Members \ {Frame.from}
  BY <1>1 DEF Service!Recipients, Target
<1>5. \A y \in DOMAIN l_head : /\ Peer(y).flood_flag = 0
                               /\ y >= 1
  <2>1. l_head \in Seq(Entry)
    BY DEF Typed, TypeOK
  <2>2. ASSUME NEW y \in DOMAIN l_head
        PROVE  Peer(y).flood_flag = 0
    <3>1. l_head[y].pa \in DOMAIN pa_heap
      BY DEF Typed, Linked
    <3>2. Peer(y).flood_flag \in {0, 1}
      BY PeerType DEF PeerAddrInfo
    <3>3. Peer(y).flood_flag # 1
      BY <1>1, <3>1 DEF NoStaleFlag, Peer
    <3> QED
      BY <3>2, <3>3
  <2> QED
    BY <2>1, <2>2
<1>6. InFlood' = {[d |-> Frame, to |-> a] : a \in Members \ {Frame.from}}
  <2>1. Frame' = Frame /\ \A y \in DOMAIN l_head : Peer(y)' = Peer(y)
    BY <1>1 DEF Frame, Peer
  <2> QED
    BY <1>1, <1>5, <2>1 DEF InFlood, Members
<1>7. Due' = Due \cup InFlood'
  BY <1>1, ArrayKept DEF Due
<1> QED
  BY <1>1, <1>2, <1>3, <1>4, <1>6, <1>7, RoutedStep

\* One turn of the flood: raising the flag of a record takes one copy from
\* what the flood owes, because no other record has the same address.
LEMMA FloodTurn ==
  ASSUME RefinementInv, Flooding, ~SkipPeer,
         pa_heap' = [pa_heap EXCEPT ![l_head[cursor].pa] = SetFlag(@, 1)],
         cursor' = cursor + 1,
         UNCHANGED <<pc, burst, i, h_head, l_head, to_array, k, log>>
  PROVE  /\ Members' = Members /\ Handled' = Handled
         /\ [d |-> Frame, to |-> Peer(cursor).addr] \in Due
         /\ Due' = Due \ {[d |-> Frame, to |-> Peer(cursor).addr]}
<1> USE DEF RefinementInv, RxInv, DeliveryInv, TablesInv
<1> DEFINE CopyTo(a) == [d |-> Frame, to |-> a]
           q == l_head[cursor].pa
<1>1. /\ pc = "flood" /\ cursor \in DOMAIN l_head /\ cursor \in Nat
      /\ DOMAIN l_head \subseteq Nat
  BY DEF Flooding, Typed, TypeOK
<1>2. /\ q \in DOMAIN pa_heap
      /\ \A y \in DOMAIN l_head : l_head[y].pa \in DOMAIN pa_heap
  BY <1>1 DEF Typed, Linked
<1>3. /\ DOMAIN pa_heap' = DOMAIN pa_heap
      /\ \A p \in DOMAIN pa_heap :
           /\ pa_heap'[p].addr = pa_heap[p].addr
           /\ pa_heap'[p].flood_flag =
                IF p = q THEN 1 ELSE pa_heap[p].flood_flag
  BY FlagUp
<1>4. \A p \in DOMAIN pa_heap : pa_heap[p].addr = pa_heap[q].addr => p = q
  BY <1>2 DEF Tables, ListAgreesWithFdb
<1>5. Peer(cursor).flood_flag = 0 /\ Peer(cursor).addr # Frame.from
  BY <1>1, PeerType DEF SkipPeer, PeerAddrInfo
<1>6. Members' = Members
  BY <1>3, MembersKept
<1>7. Handled' = Handled
  BY DEF Handled
<1>8. \A y \in DOMAIN l_head :
        /\ Peer(y)'.addr = Peer(y).addr
        /\ Peer(y)'.flood_flag = 0 <=>
             Peer(y).flood_flag = 0 /\ Peer(y).addr # Peer(cursor).addr
  BY <1>2, <1>3, <1>4 DEF Peer
<1>9. \A y \in DOMAIN l_head :
        /\ y >= cursor + 1 => y >= cursor
        /\ y >= cursor /\ y # cursor => y >= cursor + 1
  BY <1>1
<1>10. CopyTo(Peer(cursor).addr) \in InFlood
  BY <1>1, <1>5 DEF InFlood
<1>11. InFlood' = InFlood \ {CopyTo(Peer(cursor).addr)}
  <2>1. Frame' = Frame
    BY DEF Frame
  <2>2. InFlood' \subseteq InFlood \ {CopyTo(Peer(cursor).addr)}
    BY <1>8, <1>9, <2>1 DEF InFlood
  <2>3. InFlood \ {CopyTo(Peer(cursor).addr)} \subseteq InFlood'
    BY <1>8, <1>9, <2>1 DEF InFlood
  <2> QED
    BY <2>2, <2>3
<1>12. CopyTo(Peer(cursor).addr) \notin InArray
  <2>1. Frame.n = Done + 1 /\ Done \in Int
    BY <1>1, FrameNumber, DeliveryTypes DEF Delivery, Handling
  <2>2. \A x \in DOMAIN to_array : to_array[x].d.n # Frame.n
    BY <2>1, DeliveryTypes DEF Delivery, Behind
  <2> QED
    BY <2>2 DEF InArray
<1>13. InArray' = InArray
  BY ArrayKept
<1> HIDE DEF CopyTo
<1>14. Due' = Due \ {CopyTo(Peer(cursor).addr)}
  BY <1>1, <1>11, <1>12, <1>13 DEF Due
<1>15. CopyTo(Peer(cursor).addr) \in Due
  BY <1>1, <1>10 DEF Due
<1> QED
  BY <1>6, <1>7, <1>14, <1>15 DEF CopyTo

\* A flooded copy that is sent is a transmission of what was due.
LEMMA FloodSendStep ==
  ASSUME RefinementInv, FloodSend
  PROVE  Service!Next
<1> DEFINE c == [d |-> Frame, to |-> Peer(cursor).addr]
<1>1. /\ Members' = Members /\ Handled' = Handled
      /\ c \in Due /\ Due' = Due \ {c}
  BY FloodTurn DEF FloodSend
<1>2. wire' = Append(wire, c) /\ UNCHANGED <<h_head, log>>
  BY DEF FloodSend
<1> HIDE DEF c
<1>3. Service!Transmit(c)
  BY <1>1, <1>2, FramesKept DEF Service!Transmit
<1> QED
  BY <1>1, <1>3 DEF Service!Next, Service!Settle

\* A flooded copy whose sendto fails is lost.
LEMMA FloodSendFailsStep ==
  ASSUME RefinementInv, FloodSendFails
  PROVE  Service!Next
<1> DEFINE c == [d |-> Frame, to |-> Peer(cursor).addr]
<1>1. /\ Members' = Members /\ Handled' = Handled
      /\ c \in Due /\ Due' = Due \ {c}
  BY FloodTurn DEF FloodSendFails
<1>2. SendMayFail /\ UNCHANGED <<h_head, log, wire>>
  BY DEF FloodSendFails
<1> HIDE DEF c
<1>3. Service!Lose
  BY <1>1, <1>2, FramesKept DEF Service!Lose
<1> QED
  BY <1>3 DEF Service!Next, Service!Settle

\* sendmmsg hands over one message of the array.
LEMMA SendOneStep ==
  ASSUME RefinementInv, SendOne
  PROVE  Service!Next
<1> USE DEF RefinementInv, RxInv, DeliveryInv, TablesInv
<1> DEFINE c == to_array[k]
<1>1. /\ k \in DOMAIN to_array /\ k' = k + 1
      /\ wire' = Append(wire, c)
      /\ UNCHANGED <<h_head, to_array>>
  BY DEF SendOne, tables
<1>2. DOMAIN to_array \subseteq Nat /\ k \in Nat
  BY DEF Typed, TypeOK
<1>3. \A y \in DOMAIN to_array :
        /\ y >= k + 1 => y >= k
        /\ y >= k /\ y # k => y >= k + 1
        /\ y >= k + 1 => k < y
        /\ k >= k
  BY <1>1, <1>2
<1>4. \A y \in DOMAIN to_array : k < y => to_array[y] # c
  BY <1>1, DeliveryTypes DEF Delivery, Queued
<1>5. c \in InArray
  BY <1>1, <1>3 DEF InArray
<1>6. InArray' = InArray \ {c}
  BY <1>1, <1>3, <1>4 DEF InArray
<1> HIDE DEF c
<1>7. Service!Transmit(c)
  BY <1>1, <1>6, ArrayStep, FramesKept DEF Service!Transmit
<1>8. c \in Due
  BY <1>5, ArrayStep
<1> QED
  BY <1>7, <1>8 DEF Service!Next, Service!Settle

\* What is dropped of an array cut short is lost (udp.c, the resend).
LEMMA SendGiveUpStep ==
  ASSUME RefinementInv, SendGiveUp
  PROVE  Service!Next
<1>1. /\ SendMayFail /\ k \in DOMAIN to_array /\ to_array' = <<>>
      /\ UNCHANGED wire
  BY DEF SendGiveUp, ShortSend
<1>2. k >= k
  BY <1>1 DEF RefinementInv, RxInv, DeliveryInv, TablesInv, Typed, TypeOK
<1>3. to_array[k] \in InArray /\ InArray' = {}
  BY <1>1, <1>2 DEF InArray
<1>4. Service!Lose
  BY <1>1, <1>3, ArrayStep, FramesKept DEF Service!Lose
<1> QED
  BY <1>4 DEF Service!Next, Service!Settle

-----------------------------------------------------------------------------

\* The server starts as a switch that knows no station.
THEOREM RefinementInit == Init => Service!Init /\ RefinementInv
<1> SUFFICES ASSUME Init PROVE Service!Init /\ RefinementInv
  OBVIOUS
<1>1. RxInv
  BY RxInit
<1>2. /\ log = <<>> /\ Len(log) = 0 /\ burst = <<>> /\ Len(burst) = 0 /\ i = 1
      /\ DOMAIN l_head = {} /\ DOMAIN to_array = {} /\ pc = "recv"
  BY DEF Init
<1>3. Ordered /\ Bounded
  BY <1>2, BridgeAssumption DEF Ordered, Bounded
<1>4. Learned
  BY <1>2 DEF Learned
<1>5. Heard = {} /\ Routed = {}
  <2>1. 1 .. Handled = {}
    BY <1>2 DEF Handled
  <2> QED
    BY <1>2, <2>1 DEF Heard, Routed
<1>6. Members = {} /\ Due = {}
  BY <1>2 DEF Members, Due, InArray
<1>7. Service!Init
  BY <1>5, <1>6 DEF Service!Init, Init
<1> QED
  BY <1>1, <1>3, <1>4, <1>7 DEF RefinementInv

\* Each step of the RX thread is a step of the switch, or none.
THEOREM RefinementNext ==
  RefinementInv /\ [Next]_vars => [Service!Next]_(Service!vars)
<1> SUFFICES ASSUME RefinementInv, [Next]_vars
             PROVE  Service!Next \/ UNCHANGED Service!vars
  OBVIOUS
<1>1. RefinementInv' /\ Typed'
  BY RefinementStep DEF RefinementInv, RxInv, DeliveryInv, TablesInv
<1>2. CASE RecvFails \/ FdbKnown \/ FdbNoMemory \/ ListNoMemory
  BY <1>2, QuietStep
<1>3. CASE UNCHANGED vars
  BY <1>3 DEF vars, tables, Service!vars, Heard, Routed, Members, Peer, Handled,
     Due, InArray, InFlood, Frame
<1> QED
  BY <1>1, <1>2, <1>3, RecvBurstStep, FloodSkipStep, FloodEndStep, SendDoneStep,
     SendRetryStep, LearnStep, EnrolStep, ForwardLocalStep, ForwardToArrayStep,
     FloodStartStep, FloodSendStep, FloodSendFailsStep, SendOneStep,
     SendGiveUpStep
     DEF Next, Handle

\* The forwarding plane is a learning switch, whatever allocation and whatever
\* send fails, for every number of clients, stations and frames.
THEOREM Refinement == Spec => RefinesService
  BY RefinementInit, RefinementStep, RefinementNext, PTL
     DEF Spec, RefinesService, Service!Spec
=============================================================================
