----------------------------- MODULE RxLoopProofs -----------------------------
(***************************************************************************)
(* No wakeup is lost by the RX loop, for every buffer size, burst size and *)
(* read error.                                                             *)
(***************************************************************************)
EXTENDS RxLoop, TLAPS

\* Init establishes the types (the static initialisers of main.c).
LEMMA TypedInit == Init => TypeOK
<1> SUFFICES ASSUME Init PROVE TypeOK
  OBVIOUS
<1>1. queue \in 0 .. RcvBuf /\ mark \in 0 .. queue
  BY RxLoopAssumption, SMT DEF Init
<1>2. pc \in Locations
  BY DEF Init, Locations
<1>3. {running, ready, failed, quiet} \subseteq BOOLEAN
  BY Zenon DEF Init
<1> QED
  BY <1>1, <1>2, <1>3, Zenon DEF TypeOK

\* Every step keeps the types: a read takes no more than is queued, and the
\* datagram we follow moves up by as much (recvmmsg in the inner loop).
LEMMA TypedStep == TypeOK /\ [Next]_vars => TypeOK'
<1> SUFFICES ASSUME TypeOK, [Next]_vars PROVE TypeOK'
  OBVIOUS
<1> USE RxLoopAssumption DEF TypeOK, Locations
<1>1. CASE Arrive
  <2>1. queue' \in 0 .. RcvBuf /\ mark' \in 0 .. queue'
    BY <1>1, SMT DEF Arrive
  <2>2. pc' \in Locations /\ {running', ready', failed', quiet'} \subseteq BOOLEAN
    BY <1>1, Zenon DEF Arrive, env
  <2> QED
    BY <2>1, <2>2, Zenon
<1>2. CASE FallSilent
  BY <1>2 DEF FallSilent
<1>3. CASE usr1_handler
  BY <1>3 DEF usr1_handler
<1>4. CASE Continue \/ Exit
  BY <1>4 DEF Continue, Exit, env
<1>5. CASE EpollEvent \/ EpollNoEvent
  BY <1>5 DEF EpollEvent, EpollNoEvent, env
<1>6. CASE EpollTimeout \/ EpollError
  BY <1>6 DEF EpollTimeout, EpollError, env
<1>7. CASE Recv
  <2>1. PICK num \in 1 .. MaxBurst :
          /\ num <= queue
          /\ queue' = queue - num
          /\ mark' = IF mark > num THEN mark - num ELSE 0
    BY <1>7 DEF Recv
  <2>2. queue' \in 0 .. RcvBuf /\ mark' \in 0 .. queue'
    BY <2>1
  <2> QED
    BY <1>7, <2>2 DEF Recv, env
<1>8. CASE Handle \/ RecvAgain \/ RecvError
  BY <1>8 DEF Handle, RecvAgain, RecvError, env
<1>9. CASE Terminated \/ UNCHANGED vars
  BY <1>9 DEF Terminated, vars, env
<1> QED
  BY <1>1, <1>2, <1>3, <1>4, <1>5, <1>6, <1>7, <1>8, <1>9 DEF Next, Scheduled

\* The state of the loop keeps its types: it never reads below an empty
\* queue nor loses track of a datagram (server_runing_burst).
THEOREM TypeCorrect == Spec => []TypeOK
  BY TypedInit, TypedStep, PTL DEF Spec

\* Only the actions of the environment and of the two loops' ends reach a
\* sleeping state, and those that do leave nothing queued unannounced.
LEMMA WakeupStep == TypeOK /\ NoLostWakeup /\ [Next]_vars => NoLostWakeup'
<1> SUFFICES ASSUME TypeOK, NoLostWakeup, [Next]_vars PROVE NoLostWakeup'
  OBVIOUS
<1> USE DEF TypeOK, NoLostWakeup
<1>1. CASE Arrive
  BY <1>1 DEF Arrive, env
<1>2. CASE FallSilent \/ usr1_handler
  BY <1>2 DEF FallSilent, usr1_handler
<1>3. CASE Continue \/ Exit
  BY <1>3 DEF Continue, Exit, env
<1>4. CASE EpollEvent
  BY <1>4 DEF EpollEvent, env
<1>5. CASE EpollNoEvent
  BY <1>5 DEF EpollNoEvent, env
<1>6. CASE EpollTimeout \/ EpollError
  BY <1>6 DEF EpollTimeout, EpollError, env
<1>7. CASE Recv \/ Handle
  BY <1>7 DEF Recv, Handle, env
<1>8. CASE RecvAgain
  BY <1>8 DEF RecvAgain, env
<1>9. CASE RecvError
  BY <1>9 DEF RecvError, env
<1>10. CASE Terminated \/ UNCHANGED vars
  BY <1>10 DEF Terminated, vars, env
<1> QED
  BY <1>1, <1>2, <1>3, <1>4, <1>5, <1>6, <1>7, <1>8, <1>9, <1>10
     DEF Next, Scheduled

\* The thread never waits on datagrams that epoll will not report again, but
\* after a failed read (EPOLLET in main, the inner loop until EAGAIN).
THEOREM WakeupKept == Spec => []NoLostWakeup
<1>1. Init => NoLostWakeup
  BY DEF Init, NoLostWakeup
<1> QED
  BY <1>1, TypeCorrect, WakeupStep, PTL DEF Spec
===============================================================================
