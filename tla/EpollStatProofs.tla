---------------------------- MODULE EpollStatProofs ----------------------------
(***************************************************************************)
(* The unlocked epoll counters stay within their bounds, for any number of *)
(* CLI sessions and of wakeups.                                            *)
(***************************************************************************)
EXTENDS EpollStat, TLAPS

\* The load of an increment is as good as the counter: until the store, only
\* a clean changes either, and it lowers what a counter must reach.
Within ==
  /\ WakeupsBounded
  /\ rx \in Fields => fresh[rx] <= reg /\ reg <= total[rx]

\* init_fun clears the counters before any thread runs.
LEMMA StatInit == Init => TypeOK /\ Within
  BY DEF Init, TypeOK, Within, WakeupsBounded, Zero, Fields,
         Commands

\* Every step keeps the types (main.c:87-97, cli.c:128-159).
LEMMA TypedStep == TypeOK /\ [Next]_vars => TypeOK'
<1> SUFFICES ASSUME TypeOK, [Next]_vars PROVE TypeOK'
  OBVIOUS
<1> USE DEF TypeOK
<1>1. ASSUME NEW f \in Fields, Load(f) PROVE TypeOK'
  BY <1>1 DEF Load
<1>2. ASSUME NEW f \in Fields, Store(f) PROVE TypeOK'
  <2>1. since' \in [Sessions -> [Fields -> Nat]]
    BY <1>2 DEF Store
  <2> QED
    BY <1>2, <2>1 DEF Store, Incremented
<1>3. ASSUME NEW s \in Sessions, NEW cmd \in Commands, Command(s, cmd)
      PROVE TypeOK'
  <2>1. since' \in [Sessions -> [Fields -> Nat]]
    BY <1>3 DEF Command, Zero
  <2> QED
    BY <1>3, <2>1 DEF Command
<1>4. ASSUME NEW s \in Sessions, NEW f \in Fields, Clear(s, f) PROVE TypeOK'
  BY <1>4 DEF Clear
<1>5. CASE UNCHANGED vars
  BY <1>5 DEF vars
<1> QED
  BY <1>1, <1>2, <1>3, <1>4, <1>5
     DEF Next, RxThread, Session, cmd_clean_epoll_stat, cmd_set_log_level,
         Commands

\* Every step keeps the bounds, the store of an increment included, whatever
\* was cleared since its load.
LEMMA WithinStep == TypeOK /\ Within /\ [Next]_vars => Within'
<1> SUFFICES ASSUME TypeOK, Within, [Next]_vars PROVE Within'
  OBVIOUS
<1> USE DEF TypeOK, Within, WakeupsBounded
<1>1. ASSUME NEW f \in Fields, Load(f) PROVE Within'
  BY <1>1 DEF Load
<1>2. ASSUME NEW f \in Fields, Store(f) PROVE Within'
  <2>1. fresh[f] <= reg /\ reg <= total[f]
    BY <1>2 DEF Store
  <2>2. "wait" \notin Fields
    BY DEF Fields
  <2>3. ASSUME NEW g \in Fields
        PROVE fresh'[g] <= stat'[g] /\ stat'[g] <= total'[g]
    BY <1>2, <2>1 DEF Store, Incremented
  <2> QED
    BY <1>2, <2>2, <2>3 DEF Store
<1>3. ASSUME NEW s \in Sessions, NEW cmd, Command(s, cmd) PROVE Within'
  BY <1>3 DEF Command
<1>4. ASSUME NEW s \in Sessions, NEW f \in Fields, Clear(s, f) PROVE Within'
  BY <1>4 DEF Clear
<1>5. CASE UNCHANGED vars
  BY <1>5 DEF vars
<1> QED
  BY <1>1, <1>2, <1>3, <1>4, <1>5
     DEF Next, RxThread, Session, cmd_clean_epoll_stat, cmd_set_log_level

\* A clean that races with an increment loses no later wakeup, and the race
\* counts none that did not happen.
THEOREM WakeupsCounted == Spec => []WakeupsBounded
<1>1. Within => WakeupsBounded
  BY DEF Within
<1> QED
  BY <1>1, StatInit, TypedStep, WithinStep, PTL DEF Spec
================================================================================
