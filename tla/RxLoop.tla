------------------------------- MODULE RxLoop -------------------------------
(***************************************************************************)
(* The loop of the RX thread of wlan_br_server (server_runing_burst in     *)
(* main.c): an edge-triggered epoll_wait with a one second timeout, an     *)
(* inner loop that reads bursts until recvmmsg has nothing left, and the   *)
(* flag that the SIGUSR1 handler clears to stop the thread.                *)
(*                                                                         *)
(* The kernel is modelled by what the loop relies on: the socket is put on *)
(* epoll's ready list when a datagram is queued, and taken off it when     *)
(* epoll_wait reports it or finds it empty.  What is done with a burst is  *)
(* WlanBridge; the counters of the wakeups are EpollStat.                  *)
(***************************************************************************)
EXTENDS Naturals

CONSTANTS
  MaxBurst,    \* MAX_NUM: datagrams per recvmmsg
  RcvBuf,      \* datagrams the socket's receive buffer holds
  RecvMayFail  \* TRUE when recvmmsg may fail with another errno than EAGAIN

ASSUME RxLoopAssumption ==
  /\ MaxBurst \in Nat \ {0}
  /\ RcvBuf \in Nat \ {0}
  /\ RecvMayFail \in BOOLEAN

VARIABLES
  pc,      \* where the RX thread is
  running, \* rx_task_is_running
  queue,   \* how many datagrams the socket holds
  ready,   \* TRUE when the socket is on epoll's ready list
  failed,  \* history: the last read failed and nothing arrived since
  mark,    \* history: position in the queue of one datagram we follow, or 0
  quiet    \* history: the clients have stopped sending

vars == <<pc, running, queue, ready, failed, mark, quiet>>
env == <<running, quiet>>

Locations == {"check", "wait", "recv", "handle", "exited"}

Init ==
  /\ pc = "check"
  /\ running = TRUE
  /\ queue = 0
  /\ ready = FALSE
  /\ failed = FALSE
  /\ mark = 0
  /\ quiet = FALSE

-----------------------------------------------------------------------------
(* The environment.                                                        *)

\* A datagram is queued; the one we follow may be this one.  When the buffer
\* is full a datagram is dropped and nobody is told.
Arrive ==
  /\ ~quiet
  /\ queue < RcvBuf
  /\ queue' = queue + 1
  /\ ready' = TRUE
  /\ failed' = FALSE
  /\ mark' \in IF mark = 0 THEN {0, queue'} ELSE {mark}
  /\ UNCHANGED <<pc, env>>

FallSilent ==
  /\ ~quiet
  /\ quiet' = TRUE
  /\ UNCHANGED <<pc, running, queue, ready, failed, mark>>

\* SIGUSR1: the handler may run between any two steps of the thread.
usr1_handler ==
  /\ running' = FALSE
  /\ UNCHANGED <<pc, queue, ready, failed, mark, quiet>>

-----------------------------------------------------------------------------
(* The outer loop.                                                         *)

Continue ==
  /\ pc = "check"
  /\ running
  /\ pc' = "wait"
  /\ UNCHANGED <<env, queue, ready, failed, mark>>

Exit ==
  /\ pc = "check"
  /\ ~running
  /\ pc' = "exited"
  /\ UNCHANGED <<env, queue, ready, failed, mark>>

EpollEvent ==
  /\ pc = "wait"
  /\ ready
  /\ queue > 0
  /\ ready' = FALSE
  /\ pc' = "recv"
  /\ UNCHANGED <<env, queue, failed, mark>>

\* The socket was read empty since it was put on the list: no event.
EpollNoEvent ==
  /\ pc = "wait"
  /\ ready
  /\ queue = 0
  /\ ready' = FALSE
  /\ UNCHANGED <<pc, env, queue, failed, mark>>

\* Mutant: a wait without a timeout.
EpollBlocks == FALSE /\ UNCHANGED vars

\* nfds = 0 after a second.
EpollTimeout ==
  /\ pc = "wait"
  /\ ~ready
  /\ pc' = "check"
  /\ UNCHANGED <<env, queue, ready, failed, mark>>

\* nfds < 0: EINTR, of SIGUSR1 or of any other interruption.
EpollError ==
  /\ pc = "wait"
  /\ ~ready
  /\ pc' = "check"
  /\ UNCHANGED <<env, queue, ready, failed, mark>>

-----------------------------------------------------------------------------
(* The inner loop.                                                         *)

\* Mutant: a full burst is assumed.
RecvFullBurst ==
  /\ pc = "recv"
  /\ queue > 0
  /\ queue' = queue - MaxBurst
  /\ mark' = 0
  /\ pc' = "handle"
  /\ UNCHANGED <<env, ready, failed>>

\* recvmmsg may return less than there is: its timeout is one millisecond.
Recv ==
  /\ pc = "recv"
  /\ \E num \in 1 .. MaxBurst :
       /\ num <= queue
       /\ queue' = queue - num
       /\ mark' = IF mark > num THEN mark - num ELSE 0
  /\ pc' = "handle"
  /\ UNCHANGED <<env, ready, failed>>

\* Mutant: one read per event, as with a level-triggered epoll.
HandleOnce ==
  /\ pc = "handle"
  /\ pc' = "check"
  /\ UNCHANGED <<env, queue, ready, failed, mark>>

Handle ==
  /\ pc = "handle"
  /\ pc' = "recv"
  /\ UNCHANGED <<env, queue, ready, failed, mark>>

RecvAgain ==
  /\ pc = "recv"
  /\ queue = 0
  /\ pc' = "check"
  /\ UNCHANGED <<env, queue, ready, failed, mark>>

\* Any other error leaves the inner loop too, whatever is still queued.
RecvError ==
  /\ pc = "recv"
  /\ RecvMayFail
  /\ failed' = TRUE
  /\ pc' = "check"
  /\ UNCHANGED <<env, queue, ready, mark>>

-----------------------------------------------------------------------------

Scheduled ==
  \/ Continue \/ Exit
  \/ EpollEvent \/ EpollNoEvent \/ EpollTimeout
  \/ Recv \/ Handle \/ RecvAgain

\* After the thread has left the loop, main returns and the process ends.
Terminated == pc = "exited" /\ UNCHANGED vars

Next ==
  \/ Scheduled \/ EpollError \/ RecvError
  \/ pc # "exited" /\ (Arrive \/ FallSilent \/ usr1_handler)
  \/ Terminated

Spec == Init /\ [][Next]_vars

\* The thread is scheduled and epoll_wait returns in the end; that clients
\* send, stop sending or signal the server is not assumed.
FairSpec == Spec /\ WF_vars(Scheduled)

-----------------------------------------------------------------------------

\* The variables keep their types: the queue is never read below empty and
\* the datagram we follow is in it.
TypeOK ==
  /\ pc \in Locations
  /\ running \in BOOLEAN
  /\ queue \in 0 .. RcvBuf
  /\ ready \in BOOLEAN
  /\ failed \in BOOLEAN
  /\ mark \in 0 .. queue
  /\ quiet \in BOOLEAN

\* The thread never goes to sleep on datagrams that epoll will not report
\* again, but after a read error: the inner loop reads until EAGAIN, and what
\* comes after that puts the socket on the ready list (EPOLLET).
NoLostWakeup ==
  pc \in {"check", "wait"} /\ queue > 0 /\ ~ready => failed

\* Every queued datagram is read, unless a read fails or the server is being
\* stopped: the inner loop goes on until recvmmsg finds nothing.
EveryDatagramRead == mark > 0 ~> (mark = 0 \/ failed \/ ~running)

\* Once SIGUSR1 was handled the thread leaves its loops, even when the signal
\* fell between the test of the flag and epoll_wait.  The inner loop does not
\* test the flag, so this needs the clients to pause.
StopsWhenQuiet == ~running /\ quiet ~> pc = "exited"
=============================================================================
