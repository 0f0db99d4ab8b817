------------------------------- MODULE FdbDump -------------------------------
(***************************************************************************)
(* "show fdb" against learning: a CLI thread walks the circular list of    *)
(* wlan_br_forward.c (wlan_br_dump_fdb, CDL_FOREACH_SAFE of utlist.h)      *)
(* while the RX thread links new entries before its head (wlan_list_update,*)
(* CDL_PREPEND), without a lock.  Each load and store of a list pointer is *)
(* an action; they take effect in program order, as in the -O0 build on a  *)
(* machine that keeps the order of stores.                                 *)
(*                                                                         *)
(* Entries are numbered in the order they are allocated; entries are never *)
(* freed.                                                                  *)
(***************************************************************************)
EXTENDS Naturals

CONSTANT MaxEntries \* bound of the model: entries allocated

ASSUME FdbDumpAssumption == MaxEntries \in Nat

Entries == 1 .. MaxEntries
NULL == 0
Pointer == 0 .. MaxEntries

VARIABLES
  head,    \* l_head
  prev,    \* the links, NULL in an entry that calloc returned
  next,
  add,     \* the last entry allocated
  rx,      \* the store of CDL_PREPEND the RX thread is at, or "idle"
  cli,     \* the load of CDL_FOREACH_SAFE the CLI thread is at, or "idle"
  el,      \* the loop's entry, its last entry and the next one
  tmp1,
  tmp2,
  hd,      \* the head whose prev is loaded into tmp1
  printed, \* the entries printed so far
  twice,   \* TRUE when one was printed twice
  old,     \* history: the entries listed when the dump began
  overlap  \* history: the last entry was loaded while a prepend had linked
           \* the new entry to the head but not yet to the tail

list == <<head, prev, next, add>>
loop == <<cli, el, tmp1, tmp2, hd, printed, twice, old>>
vars == <<list, rx, loop, overlap>>

Init ==
  /\ head = NULL
  /\ prev = [e \in Entries |-> NULL]
  /\ next = [e \in Entries |-> NULL]
  /\ add = 0
  /\ rx = "idle"
  /\ cli = "idle"
  /\ el = NULL
  /\ tmp1 = NULL
  /\ tmp2 = NULL
  /\ hd = NULL
  /\ printed = {}
  /\ twice = FALSE
  /\ old = {}
  /\ overlap = FALSE

-----------------------------------------------------------------------------
(* CDL_PREPEND.                                                            *)

Allocate ==
  /\ rx = "idle"
  /\ add < MaxEntries
  /\ add' = add + 1
  /\ rx' = "add.prev"
  /\ UNCHANGED <<head, prev, next, loop, overlap>>

SetAddPrev ==
  /\ rx = "add.prev"
  /\ prev' = [prev EXCEPT ![add] = IF head = NULL THEN add ELSE prev[head]]
  /\ rx' = "add.next"
  /\ UNCHANGED <<head, next, add, loop, overlap>>

SetAddNext ==
  /\ rx = "add.next"
  /\ next' = [next EXCEPT ![add] = IF head = NULL THEN add ELSE head]
  /\ rx' = IF head = NULL THEN "head" ELSE "head.prev"
  /\ UNCHANGED <<head, prev, add, loop, overlap>>

SetHeadPrev ==
  /\ rx = "head.prev"
  /\ prev' = [prev EXCEPT ![head] = add]
  /\ rx' = "add.prev.next"
  /\ UNCHANGED <<head, next, add, loop, overlap>>

\* Mutant: the tail is not linked to the new entry.
SkipTailNext ==
  /\ rx = "add.prev.next"
  /\ rx' = "head"
  /\ UNCHANGED <<list, loop, overlap>>

SetTailNext ==
  /\ rx = "add.prev.next"
  /\ next' = [next EXCEPT ![prev[add]] = add]
  /\ rx' = "head"
  /\ UNCHANGED <<head, prev, add, loop, overlap>>

SetHead ==
  /\ rx = "head"
  /\ head' = add
  /\ rx' = "idle"
  /\ UNCHANGED <<prev, next, add, loop, overlap>>

Prepend ==
  \/ SetAddPrev \/ SetAddNext \/ SetHeadPrev \/ SetTailNext \/ SetHead

-----------------------------------------------------------------------------
(* CDL_FOREACH_SAFE.                                                       *)

\* The entries in the list, as the RX thread sees it: all but the one it is
\* linking.
Listed == 1 .. (IF rx = "idle" THEN add ELSE add - 1)

Start ==
  /\ cli = "idle"
  /\ el' = head
  /\ old' = Listed
  /\ printed' = {}
  /\ twice' = FALSE
  /\ overlap' = FALSE
  /\ cli' = "head"
  /\ UNCHANGED <<list, rx, tmp1, tmp2, hd>>

\* (head) ? (head)->prev : NULL reads the head once more, and again, and
\* then the prev of what it read.
TestHead ==
  /\ cli = "head"
  /\ IF head = NULL
     THEN /\ tmp1' = NULL
          /\ cli' = "test"
     ELSE /\ cli' = "head.again"
          /\ UNCHANGED tmp1
  /\ UNCHANGED <<list, rx, el, tmp2, hd, printed, twice, old, overlap>>

LoadHead ==
  /\ cli = "head.again"
  /\ hd' = head
  /\ cli' = "head.prev"
  /\ UNCHANGED <<list, rx, el, tmp1, tmp2, printed, twice, old, overlap>>

LoadTail ==
  /\ cli = "head.prev"
  /\ tmp1' = prev[hd]
  /\ overlap' = (rx = "add.prev.next")
  /\ cli' = "test"
  /\ UNCHANGED <<list, rx, el, tmp2, hd, printed, twice, old>>

Test ==
  /\ cli = "test"
  /\ el # NULL
  /\ tmp2' = next[el]
  /\ cli' = "body"
  /\ UNCHANGED <<list, rx, el, tmp1, hd, printed, twice, old, overlap>>

Body ==
  /\ cli = "body"
  /\ printed' = printed \cup {el}
  /\ twice' = (twice \/ el \in printed)
  /\ cli' = "advance"
  /\ UNCHANGED <<list, rx, el, tmp1, tmp2, hd, old, overlap>>

\* Mutants: the walk stops before its last entry, or runs past it.
StopEarly == IF tmp2 = tmp1 THEN NULL ELSE tmp2
NeverStop == tmp2

Following == IF el = tmp1 THEN NULL ELSE tmp2

Advance ==
  /\ cli = "advance"
  /\ el' = Following
  /\ cli' = "test"
  /\ UNCHANGED <<list, rx, tmp1, tmp2, hd, printed, twice, old, overlap>>

Finish ==
  /\ cli = "test"
  /\ el = NULL
  /\ cli' = "idle"
  /\ UNCHANGED <<list, rx, el, tmp1, tmp2, hd, printed, twice, old, overlap>>

Walk == TestHead \/ LoadHead \/ LoadTail \/ Test \/ Body \/ Advance \/ Finish

-----------------------------------------------------------------------------

Next == Allocate \/ Prepend \/ Start \/ Walk

Spec == Init /\ [][Next]_vars

\* Both threads are scheduled; new stations and commands need not come.
FairSpec == Spec /\ WF_vars(Prepend) /\ WF_vars(Walk)

-----------------------------------------------------------------------------

\* Between two prepends the list is the ring of all entries, newest first.
ListWellFormed ==
  rx = "idle" =>
    /\ head = add
    /\ \A e \in 1 .. add : /\ next[e] = IF e = 1 THEN add ELSE e - 1
                           /\ prev[e] = IF e = add THEN 1 ELSE e + 1

\* "show fdb" prints every entry that was in the list when it began, whatever
\* is learned while it runs.
PrintsAllOld == cli = "test" /\ el = NULL => old \subseteq printed

\* An entry is printed twice only when the dump loaded its last entry between
\* the two stores that link a new entry into the ring, the prev of the head
\* and the next of the tail: the walk may then miss its end and go round again.
TwiceOnlyInOverlap == twice => overlap

\* The dump ends, also when its last entry is one that is still being linked.
DumpEnds == cli # "idle" ~> cli = "idle"
=============================================================================
