-------------------------------- MODULE IpStat --------------------------------
(***************************************************************************)
(* "show ip_stat": CLI sessions walk the per-IP statistics in the order    *)
(* the IPs were entered (wlan_ip_dump_static) and derive rates from the    *)
(* difference to a sample that the previous command left in the entry      *)
(* (show_throuthput), while the RX thread enters IPs and counts packets    *)
(* and bytes (statistics.c).  Nothing is locked.                           *)
(*                                                                         *)
(* HASH_ADD publishes an entry with one store, the link of the last entry  *)
(* or the head, after the entry's own link: the list is a sequence that    *)
(* grows at its end.  What it then does to the buckets, UtHash, only the   *)
(* RX thread sees.  A byte stands for the bytes of a packet.               *)
(***************************************************************************)
EXTENDS UtHash

CONSTANTS
  Sessions,   \* CLI sessions
  MaxPackets, \* bound of the model: packets the RX thread counts
  MaxShows    \* bound of the model: commands entered

ASSUME IpStatAssumption == MaxPackets \in Nat /\ MaxShows \in Nat

VARIABLES
  list,   \* h_ip_stat_head: the entries in application order
  tbl,    \* the table behind it
  curr,   \* curr_stat of each entry
  prev,   \* prev_stat of each entry, shared by the sessions
  rx,     \* the update the RX thread is making: the IP and what is to count
  cli,    \* the step of its entry, at pos, each session is at; 0 when idle
  diff,   \* the differences each session has computed for that entry
  arrived, \* how many packets the RX thread began to count
  shows,  \* how many commands were entered
  shown,  \* history: the sum of the differences shown, per IP and counter
  old,    \* history: per session, the IPs that were there at the start
  seen    \* history: per session, the IPs shown, in order

hist == <<shows, shown, old, seen>>
bounds == <<arrived, hist>>
vars == <<list, tbl, curr, prev, rx, cli, diff, bounds>>

Counters == {"rx_packets", "tx_packets", "rx_bytes", "tx_bytes"}
Zero == [c \in Counters |-> 0]

Init ==
  /\ list = <<>>
  /\ tbl = HASH_MAKE_TABLE
  /\ curr = [ip \in Keys |-> Zero]
  /\ prev = [ip \in Keys |-> Zero]
  /\ rx = <<>>
  /\ cli = [s \in Sessions |-> [step |-> 0, pos |-> 1]]
  /\ diff = [s \in Sessions |-> Zero]
  /\ arrived = 0
  /\ shows = 0
  /\ shown = [ip \in Keys |-> Zero]
  /\ old = [s \in Sessions |-> {}]
  /\ seen = [s \in Sessions |-> <<>>]

Entered == {list[x] : x \in DOMAIN list}

-----------------------------------------------------------------------------
(* wlan_ip_static_update_rx and _tx: enter the IP, count the packet, then  *)
(* its bytes.                                                              *)

Enter(ip) ==
  IF HASH_FIND(tbl, ip)
  THEN UNCHANGED <<list, tbl>>
  ELSE /\ list' = Append(list, ip)
       /\ tbl' = HASH_ADD_TO_TABLE(tbl, ip)

Update(ip, packets, bytes) ==
  /\ rx = <<>>
  /\ arrived < MaxPackets
  /\ arrived' = arrived + 1
  /\ Enter(ip)
  /\ rx' = <<[ip |-> ip, c |-> packets], [ip |-> ip, c |-> bytes]>>
  /\ UNCHANGED <<curr, prev, cli, diff, hist>>

wlan_ip_static_update_rx(ip) == Update(ip, "rx_packets", "rx_bytes")
wlan_ip_static_update_tx(ip) == Update(ip, "tx_packets", "tx_bytes")

Count ==
  /\ rx # <<>>
  /\ curr' = [curr EXCEPT ![Head(rx).ip][Head(rx).c] = @ + 1]
  /\ rx' = Tail(rx)
  /\ UNCHANGED <<list, tbl, prev, cli, diff, bounds>>

-----------------------------------------------------------------------------
(* A command: the sessions' walk, and show_throuthput at each entry.       *)

\* The steps of show_throuthput in order.
Steps ==
  << [op |-> "diff", c |-> "rx_packets"], [op |-> "diff", c |-> "tx_packets"],
     [op |-> "save", c |-> "rx_packets"], [op |-> "save", c |-> "tx_packets"],
     [op |-> "diff", c |-> "rx_bytes"], [op |-> "diff", c |-> "tx_bytes"],
     [op |-> "save", c |-> "rx_bytes"], [op |-> "save", c |-> "tx_bytes"] >>

\* Mutant: the bytes are saved as the packets are.
SavedInRx(c) ==
  CASE c = "tx_packets" -> "rx_packets"
    [] c = "tx_bytes" -> "rx_bytes"
    [] OTHER -> c

\* The field of prev_stat in which a counter is saved: the packets of both
\* directions go to rx_packets.
SavedIn(c) == IF c = "tx_packets" THEN "rx_packets" ELSE c

Ip(s) == list[cli[s].pos]
At(s, op) ==
  cli[s].step \in DOMAIN Steps /\ Steps[cli[s].step].op = op
Counter(s) == Steps[cli[s].step].c
Advance(s) == cli' = [cli EXCEPT ![s].step = @ + 1]

Start(s) ==
  /\ cli[s].step = 0
  /\ shows < MaxShows
  /\ list # <<>>
  /\ cli' = [cli EXCEPT ![s] = [step |-> 1, pos |-> 1]]
  /\ shows' = shows + 1
  /\ old' = [old EXCEPT ![s] = Entered]
  /\ seen' = [seen EXCEPT ![s] = <<>>]
  /\ UNCHANGED <<list, tbl, curr, prev, rx, diff, arrived, shown>>

Monus(a, b) == IF a > b THEN a - b ELSE 0

Diff(s) ==
  /\ At(s, "diff")
  /\ diff' = [diff EXCEPT ![s][Counter(s)] =
                Monus(curr[Ip(s)][Counter(s)], prev[Ip(s)][Counter(s)])]
  /\ Advance(s)
  /\ UNCHANGED <<list, tbl, curr, prev, rx, bounds>>

Save(s) ==
  /\ At(s, "save")
  /\ prev' = [prev EXCEPT ![Ip(s)][SavedIn(Counter(s))] =
                curr[Ip(s)][Counter(s)]]
  /\ Advance(s)
  /\ UNCHANGED <<list, tbl, curr, rx, diff, bounds>>

\* Mutant: the test for the end of the list comes one entry late.
MorePastEnd(s) == cli[s].pos <= Len(list)

More(s) == cli[s].pos < Len(list)

Show(s) ==
  /\ cli[s].step = Len(Steps) + 1
  /\ shown' = [shown EXCEPT ![Ip(s)] = [c \in Counters |-> @[c] + diff[s][c]]]
  /\ seen' = [seen EXCEPT ![s] = Append(@, Ip(s))]
  /\ diff' = [diff EXCEPT ![s] = Zero]
  /\ cli' = [cli EXCEPT ![s] =
               IF More(s)
               THEN [step |-> 1, pos |-> @.pos + 1]
               ELSE [step |-> 0, pos |-> 1]]
  /\ UNCHANGED <<list, tbl, curr, prev, rx, arrived, shows, old>>

-----------------------------------------------------------------------------

RxThread ==
  \/ \E ip \in Keys : wlan_ip_static_update_rx(ip) \/ wlan_ip_static_update_tx(ip)
  \/ Count

Session(s) == Start(s) \/ Diff(s) \/ Save(s) \/ Show(s)

Next == RxThread \/ \E s \in Sessions : Session(s)

Spec == Init /\ [][Next]_vars

-----------------------------------------------------------------------------

\* Counters are natural numbers; a session in an entry is at a step of it and
\* inside the list.
TypeOK ==
  /\ list \in Seq(Keys)
  /\ curr \in [Keys -> [Counters -> Nat]]
  /\ prev \in [Keys -> [Counters -> Nat]]
  /\ \A s \in Sessions :
       \/ cli[s].step = 0
       \/ cli[s].step \in 1 .. Len(Steps) + 1 /\ cli[s].pos \in DOMAIN list
  /\ diff \in [Sessions -> [Counters -> Nat]]
  /\ shown \in [Keys -> [Counters -> Nat]]

\* The table passes uthash's own check, and an IP is found if and only if it
\* was entered, whatever collides and however often the buckets double: a
\* station whose entry is not found is counted in another, listed again.
TableAgrees ==
  /\ HASH_FSCK(tbl, list)
  /\ \A ip \in Keys : HASH_FIND(tbl, ip) <=> ip \in Entered

\* A command shows every IP that was entered when it began, and none twice,
\* whatever is entered while it runs (wlan_ip_dump_static).
EachIpOnce ==
  \A s \in Sessions :
    /\ \A x, y \in DOMAIN seen[s] : seen[s][x] = seen[s][y] => x = y
    /\ cli[s].step = 0 => old[s] \subseteq {seen[s][x] : x \in DOMAIN seen[s]}

\* A byte is never in the difference of two intervals, although the sample is
\* saved after the difference was taken and bytes arrive in between; with one
\* session, for two of them share prev_stat.
ByteRateOnce ==
  Sessions # {} /\ (\A s, t \in Sessions : s = t) =>
    \A ip \in Keys, c \in {"rx_bytes", "tx_bytes"} :
      /\ shown[ip][c] <= prev[ip][c]
      /\ prev[ip][c] <= curr[ip][c]

\* "Rx-pps" and "Tx-pps" (statistics.c:97, 105) are rates of packets of the
\* interval: no packet is in two intervals.
PacketRateOnce ==
  \A ip \in Keys, c \in {"rx_packets", "tx_packets"} :
    shown[ip][c] <= curr[ip][c]
=============================================================================
