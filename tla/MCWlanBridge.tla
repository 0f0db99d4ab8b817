---------------------------- MODULE MCWlanBridge ----------------------------
(* Instances of WlanBridge for TLC. *)
EXTENDS WlanBridge, TLC, SequencesExt

CONSTANTS a1, a2, a3, p1, p2, m1, m2, g, none

\* Two of the three clients are behind one IP.
MCIpOf == [a \in Addrs |-> IF a = a3 THEN p2 ELSE p1]
MCOneIp == [a \in Addrs |-> p1]

\* Stations are interchangeable, and so are the clients that share an IP.
MCSymmetry == Permutations({m1, m2}) \cup Permutations({a1, a2})

-----------------------------------------------------------------------------
(* The FDB is a function in WlanBridge.  The table behind it finds exactly *)
(* what was entered, in whatever order, when four of five MACs hash to the *)
(* same value and uthash gives up on doubling the buckets.                 *)

Five == 1 .. 5
Skewed == INSTANCE UtHash WITH
  Keys <- Five,
  hashv <- [mac \in Five |-> IF mac = 5 THEN 3 ELSE 4],
  InitialLog2 <- 0,
  Thresh <- 1

Filled(order) ==
  FoldLeft(Skewed!HASH_ADD_TO_TABLE, Skewed!HASH_MAKE_TABLE, order)

ASSUME SkewedTableAgrees ==
  /\ \A order \in SetToSeqs(Five) :
       /\ Skewed!HASH_FSCK(Filled(order), order)
       /\ \A mac \in Five : Skewed!HASH_FIND(Filled(order), mac)
  /\ \E order \in SetToSeqs(Five) : Filled(order).noexpand
=============================================================================
