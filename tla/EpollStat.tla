------------------------------ MODULE EpollStat ------------------------------
(***************************************************************************)
(* epoll_stat_info of wlan_br_server: three counters that the RX thread    *)
(* increments after every return of epoll_wait (main.c) and that the CLI   *)
(* sessions read and clear (cli.c), without a lock and without atomic      *)
(* operations.  The server is built with -O0: an increment is a load and a *)
(* store, and the memset of the structure clears one 64-bit counter after  *)
(* the other.                                                              *)
(***************************************************************************)
EXTENDS Naturals

CONSTANTS
  Sessions,  \* the CLI sessions, one thread each
  MaxWakeups \* bound of the model: returns of epoll_wait per outcome

ASSUME EpollStatAssumption == MaxWakeups \in Nat

VARIABLES
  rx,      \* the RX thread: "wait", or the counter it is incrementing
  reg,     \* the register of that increment
  stat,    \* epoll_stat_info
  cli,     \* what each session is doing: [cmd, left], left to be cleared
  total,   \* history: the returns of epoll_wait counted so far
  fresh,   \* history: those counted since the counter was last cleared
  since    \* history: per session, those counted since its last command began

vars == <<rx, reg, stat, cli, total, fresh, since>>

Fields == {"epoll_timeout", "epoll_error", "epool_recv"}
Commands == {"none", "epoll_stat_clean", "log_level"}
Zero == [f \in Fields |-> 0]

Init ==
  /\ rx = "wait"
  /\ reg = 0
  /\ stat = Zero
  /\ cli = [s \in Sessions |-> [cmd |-> "none", left |-> {}]]
  /\ total = Zero
  /\ fresh = Zero
  /\ since = [s \in Sessions |-> Zero]

-----------------------------------------------------------------------------
(* The RX thread.  One socket is watched, so nfds is at most 1.            *)

Load(f) ==
  /\ rx = "wait"
  /\ total[f] < MaxWakeups
  /\ rx' = f
  /\ reg' = stat[f]
  /\ UNCHANGED <<stat, cli, total, fresh, since>>

\* Mutant: an increment that is lost.
Kept == reg

Incremented == reg + 1

Store(f) ==
  /\ rx = f
  /\ stat' = [stat EXCEPT ![f] = Incremented]
  /\ total' = [total EXCEPT ![f] = @ + 1]
  /\ fresh' = [fresh EXCEPT ![f] = @ + 1]
  /\ since' = [s \in Sessions |-> [since[s] EXCEPT ![f] = @ + 1]]
  /\ rx' = "wait"
  /\ UNCHANGED <<reg, cli>>

-----------------------------------------------------------------------------
(* A session: both commands begin with the memset, whatever the argument   *)
(* of log_level is.                                                        *)

Command(s, cmd) ==
  /\ cli[s].left = {}
  /\ cli' = [cli EXCEPT ![s] = [cmd |-> cmd, left |-> Fields]]
  /\ since' = [since EXCEPT ![s] = Zero]
  /\ UNCHANGED <<rx, reg, stat, total, fresh>>

cmd_clean_epoll_stat(s) == Command(s, "epoll_stat_clean")
cmd_set_log_level(s) == Command(s, "log_level")

Clear(s, f) ==
  /\ f \in cli[s].left
  /\ stat' = [stat EXCEPT ![f] = 0]
  /\ fresh' = [fresh EXCEPT ![f] = 0]
  /\ cli' = [cli EXCEPT ![s].left = @ \ {f}]
  /\ UNCHANGED <<rx, reg, total, since>>

-----------------------------------------------------------------------------

RxThread == \E f \in Fields : Load(f) \/ Store(f)

Session(s) ==
  \/ cmd_clean_epoll_stat(s)
  \/ cmd_set_log_level(s)
  \/ \E f \in Fields : Clear(s, f)

Next == RxThread \/ \E s \in Sessions : Session(s)

Spec == Init /\ [][Next]_vars

-----------------------------------------------------------------------------

\* Counters are natural numbers, and a session clears what is left to clear.
TypeOK ==
  /\ rx \in Fields \cup {"wait"}
  /\ reg \in Nat
  /\ stat \in [Fields -> Nat]
  /\ cli \in [Sessions -> [cmd : Commands, left : SUBSET Fields]]
  /\ total \in [Fields -> Nat]
  /\ fresh \in [Fields -> Nat]
  /\ since \in [Sessions -> [Fields -> Nat]]

\* A clean that races with an increment (main.c:88, cli.c:130) loses no later
\* wakeup and invents none: a counter is never below the returns of epoll_wait
\* counted since it was last cleared, and never above all of them.
WakeupsBounded ==
  \A f \in Fields : fresh[f] <= stat[f] /\ stat[f] <= total[f]

\* "clean success." (cmd_clean_epoll_stat): when the command has printed it, a
\* counter holds at most the wakeups counted since the command began.
CleanSuccess ==
  \A s \in Sessions :
    cli[s].cmd = "epoll_stat_clean" /\ cli[s].left = {} =>
      \A f \in Fields : stat[f] <= since[s][f]
=============================================================================
