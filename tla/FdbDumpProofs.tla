---------------------------- MODULE FdbDumpProofs ----------------------------
(***************************************************************************)
(* Proofs about FdbDump, for any number of entries: the prepends keep the  *)
(* ring, a dump misses nothing that was listed when it began, and prints   *)
(* an entry twice only when it loaded its last entry between two stores of *)
(* a prepend.                                                              *)
(***************************************************************************)
EXTENDS FdbDump, TLAPS

Stores == {"idle", "add.prev", "add.next", "head.prev", "add.prev.next", "head"}
Loads == {"idle", "head", "head.again", "head.prev", "test", "body", "advance"}

\* The walk never goes through NULL.
TypeOK ==
  /\ head \in Pointer
  /\ prev \in [Entries -> Pointer]
  /\ next \in [Entries -> Pointer]
  /\ add \in Pointer
  /\ rx \in Stores
  /\ cli \in Loads
  /\ el \in Pointer
  /\ tmp1 \in Pointer
  /\ tmp2 \in Pointer
  /\ hd \in Pointer
  /\ printed \subseteq Entries
  /\ twice \in BOOLEAN
  /\ old \subseteq Entries
  /\ overlap \in BOOLEAN
  /\ cli = "head.again" => head # NULL
  /\ cli = "head.prev" => hd # NULL
  /\ cli \in {"body", "advance"} => el # NULL

-----------------------------------------------------------------------------
(* The ring.                                                               *)

\* The entries that are linked in one direction and in the other.
Top == IF rx = "idle" THEN add ELSE add - 1
NextTop == IF rx = "head" THEN add ELSE Top
PrevTop == IF rx \in {"add.prev.next", "head"} THEN add ELSE Top

\* At every store of a prepend: the two directions grow one after the other,
\* and the entry under way points into the ring before anything points to it.
Ring ==
  /\ rx # "idle" => add # 0
  /\ head = Top
  /\ rx \in {"head.prev", "add.prev.next"} => add > 1
  /\ \A e \in 1 .. NextTop : next[e] = IF e = 1 THEN NextTop ELSE e - 1
  /\ \A e \in 1 .. PrevTop : prev[e] = IF e = PrevTop THEN 1 ELSE e + 1
  /\ rx \in {"add.next", "head.prev"} => prev[add] = 1
  /\ rx \in {"head.prev", "add.prev.next"} => next[add] = add - 1

RingInv == TypeOK /\ Ring

LEMMA InitRing == Init => RingInv
<1> SUFFICES ASSUME Init PROVE RingInv
  OBVIOUS
<1> USE FdbDumpAssumption DEF Init, Entries, NULL, Pointer
<1>1. TypeOK
  <2>1. /\ head \in Pointer /\ add \in Pointer /\ el \in Pointer
        /\ tmp1 \in Pointer /\ tmp2 \in Pointer /\ hd \in Pointer
    OBVIOUS
  <2>2. prev \in [Entries -> Pointer] /\ next \in [Entries -> Pointer]
    OBVIOUS
  <2>3. rx \in Stores /\ cli = "idle" /\ cli \in Loads
    BY DEF Stores, Loads
  <2>4. /\ printed \subseteq Entries /\ old \subseteq Entries
        /\ twice \in BOOLEAN /\ overlap \in BOOLEAN
    BY Zenon
  <2> QED
    BY <2>1, <2>2, <2>3, <2>4 DEF TypeOK
<1>2. Ring
  BY DEF Ring, Top, NextTop, PrevTop
<1> QED
  BY <1>1, <1>2 DEF RingInv

LEMMA TopIsNat == RingInv => Top \in Nat
  BY FdbDumpAssumption DEF RingInv, TypeOK, Pointer, Ring, Top

\* The walk changes no link.
LEMMA WalkKeepsTypes == TypeOK /\ (Start \/ Walk) => TypeOK'
<1> SUFFICES ASSUME TypeOK, Start \/ Walk PROVE TypeOK'
  OBVIOUS
<1> USE FdbDumpAssumption DEF TypeOK, Pointer, Entries, NULL, Stores, Loads, list
<1>1. CASE Start
  <2>1. Listed \subseteq Entries
    BY DEF Listed
  <2> QED
    BY <1>1, <2>1 DEF Start
<1>2. CASE TestHead
  BY <1>2 DEF TestHead
<1>3. CASE LoadHead
  BY <1>3 DEF LoadHead
<1>4. CASE LoadTail
  BY <1>4 DEF LoadTail
<1>5. CASE Test
  BY <1>5 DEF Test
<1>6. CASE Body
  BY <1>6 DEF Body
<1>7. CASE Advance
  BY <1>7 DEF Advance, Following
<1>8. CASE Finish
  BY <1>8 DEF Finish
<1> QED
  BY <1>1, <1>2, <1>3, <1>4, <1>5, <1>6, <1>7, <1>8 DEF Walk

LEMMA PrependKeepsTypes == RingInv /\ (Allocate \/ Prepend) => TypeOK'
<1> SUFFICES ASSUME RingInv, Allocate \/ Prepend PROVE TypeOK'
  OBVIOUS
<1> USE FdbDumpAssumption
    DEF RingInv, TypeOK, Pointer, Entries, NULL, Stores, Loads, loop, Ring, Top
<1>1. CASE Allocate
  BY <1>1 DEF Allocate
<1>2. CASE SetAddPrev
  BY <1>2 DEF SetAddPrev
<1>3. CASE SetAddNext
  BY <1>3 DEF SetAddNext
<1>4. CASE SetHeadPrev
  BY <1>4 DEF SetHeadPrev
<1>5. CASE SetTailNext
  BY <1>5 DEF SetTailNext
<1>6. CASE SetHead
  BY <1>6 DEF SetHead
<1> QED
  BY <1>1, <1>2, <1>3, <1>4, <1>5, <1>6 DEF Prepend

LEMMA PrependKeepsRing == RingInv /\ (Allocate \/ Prepend) => Ring'
<1> SUFFICES ASSUME RingInv, Allocate \/ Prepend PROVE Ring'
  OBVIOUS
<1> USE FdbDumpAssumption
    DEF RingInv, TypeOK, Pointer, Entries, NULL, Ring, Top, NextTop, PrevTop
<1>1. CASE Allocate
  BY <1>1 DEF Allocate
<1>2. CASE SetAddPrev
  BY <1>2 DEF SetAddPrev
<1>3. CASE SetAddNext
  BY <1>3 DEF SetAddNext
<1>4. CASE SetHeadPrev
  <2>1. /\ rx = "head.prev" /\ rx' = "add.prev.next"
        /\ UNCHANGED <<add, head, next>>
        /\ add > 1 /\ head = add - 1 /\ prev[add] = 1 /\ next[add] = add - 1
    BY <1>4 DEF SetHeadPrev
  <2>2. prev' = [prev EXCEPT ![add - 1] = add]
    BY <1>4, <2>1 DEF SetHeadPrev
  <2>3. \A e \in 1 .. add : prev'[e] = IF e = add THEN 1 ELSE e + 1
    <3>1. SUFFICES ASSUME NEW e \in 1 .. add
                   PROVE prev'[e] = IF e = add THEN 1 ELSE e + 1
      OBVIOUS
    <3>2. CASE e = add
      BY <2>1, <2>2, <3>2
    <3>3. CASE e # add
      <4>1. e \in 1 .. (add - 1) /\ e # add /\ e \in Entries
        BY <3>3
      <4>2. prev[e] = IF e = add - 1 THEN 1 ELSE e + 1
        BY <2>1, <4>1
      <4> QED
        BY <2>2, <3>3, <4>1, <4>2
    <3> QED
      BY <3>2, <3>3
  <2> QED
    BY <2>1, <2>3
<1>5. CASE SetTailNext
  <2>1. /\ rx = "add.prev.next" /\ rx' = "head"
        /\ add' = add /\ head' = head /\ prev' = prev
        /\ add > 1 /\ head = add - 1 /\ prev[add] = 1 /\ next[add] = add - 1
    BY <1>5 DEF SetTailNext
  <2>2. next' = [next EXCEPT ![1] = add]
    BY <1>5, <2>1 DEF SetTailNext
  <2>3. \A e \in 1 .. add : next'[e] = IF e = 1 THEN add ELSE e - 1
    <3>1. SUFFICES ASSUME NEW e \in 1 .. add
                   PROVE next'[e] = IF e = 1 THEN add ELSE e - 1
      OBVIOUS
    <3>2. e # 1 => next[e] = e - 1
      <4>1. CASE e = add
        BY <4>1, <2>1
      <4>2. CASE e # 1 /\ e # add
        BY <4>2, <2>1
      <4> QED
        BY <4>1, <4>2
    <3> QED
      BY <2>2, <3>2
  <2>4. \A e \in 1 .. add : prev'[e] = IF e = add THEN 1 ELSE e + 1
    BY <2>1
  <2> QED
    BY <2>1, <2>3, <2>4
<1>6. CASE SetHead
  BY <1>6 DEF SetHead
<1> QED
  BY <1>1, <1>2, <1>3, <1>4, <1>5, <1>6 DEF Prepend

LEMMA StepRing == RingInv /\ [Next]_vars => RingInv'
<1> SUFFICES ASSUME RingInv, [Next]_vars PROVE RingInv'
  OBVIOUS
<1>1. CASE Allocate \/ Prepend
  BY <1>1, PrependKeepsTypes, PrependKeepsRing DEF RingInv
<1>2. CASE Start \/ Walk
  <2>1. UNCHANGED <<list, rx>>
    BY <1>2 DEF Start, Walk, TestHead, LoadHead, LoadTail, Test, Body, Advance, Finish
  <2>2. Ring'
    BY <2>1 DEF RingInv, Ring, Top, NextTop, PrevTop, list
  <2> QED
    BY <1>2, <2>2, WalkKeepsTypes DEF RingInv
<1>3. CASE UNCHANGED vars
  BY <1>3 DEF RingInv, TypeOK, Ring, Top, NextTop, PrevTop, vars, list, loop
<1> QED
  BY <1>1, <1>2, <1>3 DEF Next

\* Between two prepends the list is the ring of all entries, newest first:
\* the four stores of CDL_PREPEND leave both directions whole.
THEOREM RingCorrect == Spec => []ListWellFormed
<1>1. RingInv => ListWellFormed
  BY DEF RingInv, Ring, Top, NextTop, PrevTop, ListWellFormed
<1> QED
  BY <1>1, InitRing, StepRing, PTL DEF Spec

-----------------------------------------------------------------------------
(* The walk.                                                               *)

Walking == cli \in {"test", "body", "advance"}

\* What was listed when the dump began is a bottom part of the ring.
OldListed == old \subseteq 1 .. Top /\ \A x \in old : 1 .. x \subseteq old

\* Before the last entry is known the walk is at the top of what was listed,
\* and the head whose prev it will load is at least that high in the ring.
AtTop ==
  cli \in {"head", "head.again", "head.prev"} =>
    /\ printed = {} /\ ~twice /\ ~overlap
    /\ \A x \in old : x <= el
    /\ el # NULL => el \in old
    /\ cli = "head.prev" => hd <= Top /\ \A x \in old : x <= hd

\* Down to the oldest entry, or round the ring again with all of old printed;
\* the last entry is the oldest or one that came later.
Onward ==
  Walking =>
    /\ \/ old \subseteq printed
       \/ /\ el \in old
          /\ \A x \in old : x > el \/ (x = el /\ cli = "advance") => x \in printed
    /\ el # NULL => tmp1 = 1 \/ tmp1 \notin old
    /\ cli # "test" /\ el \in old /\ el # 1 => tmp2 = el - 1

\* A last entry that was not loaded while the ring was half linked is on the
\* ring the walk follows, the oldest entry or one above all that was listed:
\* the walk ends on its way down, or on its second way down before it comes
\* to what it has printed.
Once ==
  ~overlap =>
    /\ ~twice
    /\ Walking /\ el # NULL =>
         /\ tmp1 \in 1 .. NextTop
         /\ tmp1 # 1 => \A x \in old : x < tmp1
         /\ el \in old => printed \subseteq old
         /\ el \notin old => tmp1 # 1 /\ el \in tmp1 .. NextTop
         /\ \A x \in printed :
              x > el \/ (x = el /\ cli = "advance") \/ (el \notin old /\ x \in old)
         /\ cli # "test" => IF el = 1 THEN tmp2 \in tmp1 .. NextTop ELSE tmp2 = el - 1

DumpInv == RingInv /\ OldListed /\ AtTop /\ Onward /\ Once

LEMMA InitDump == Init => DumpInv
<1> SUFFICES ASSUME Init PROVE DumpInv
  OBVIOUS
<1>1. OldListed /\ AtTop /\ Onward /\ Once
  BY DEF Init, OldListed, AtTop, Onward, Once, Walking
<1> QED
  BY <1>1, InitRing DEF DumpInv

\* The ring may grow above what was listed.
LEMMA PrependKeepsDump == DumpInv /\ (Allocate \/ Prepend) => DumpInv'
<1> SUFFICES ASSUME DumpInv, Allocate \/ Prepend PROVE DumpInv'
  OBVIOUS
<1>1. UNCHANGED <<loop, overlap>>
  BY DEF Allocate, Prepend, SetAddPrev, SetAddNext, SetHeadPrev, SetTailNext, SetHead
<1>2. RingInv'
  BY PrependKeepsTypes, PrependKeepsRing DEF DumpInv, RingInv
<1>3. Top' >= Top
  BY DEF DumpInv, RingInv, TypeOK, Pointer, Top, Allocate, Prepend, SetAddPrev,
     SetAddNext, SetHeadPrev, SetTailNext, SetHead, Entries
<1>4. OldListed'
  <2>1. Top \in Nat
    BY TopIsNat DEF DumpInv
  <2>2. Top' \in Nat
    <3>1. head' \in Nat /\ Top' = head'
      BY <1>2, FdbDumpAssumption DEF RingInv, TypeOK, Pointer, Ring
    <3> QED
      BY <3>1
  <2> QED
    BY <1>1, <1>3, <2>1, <2>2 DEF DumpInv, OldListed, loop
<1>5. AtTop' /\ Onward'
  <2>1. Onward'
    BY <1>1 DEF DumpInv, Onward, Walking, loop
  <2>2. Top \in Nat /\ Top' \in Nat /\ hd \in Nat
    BY <1>2, FdbDumpAssumption DEF DumpInv, RingInv, TypeOK, Pointer, Ring
  <2>3. AtTop'
    BY <1>1, <1>3, <2>2 DEF DumpInv, AtTop, loop
  <2> QED
    BY <2>1, <2>3
<1>6. NextTop \in Nat /\ NextTop' \in Nat /\ NextTop' >= NextTop
  BY FdbDumpAssumption DEF DumpInv, RingInv, TypeOK, Pointer, Top, NextTop, Ring, Allocate,
     Prepend, SetAddPrev, SetAddNext, SetHeadPrev, SetTailNext, SetHead, Entries
<1>7. Once'
  BY <1>1, <1>6, FdbDumpAssumption
  DEF DumpInv, RingInv, TypeOK, Pointer, Once, Walking, loop
<1> QED
  BY <1>2, <1>4, <1>5, <1>7 DEF DumpInv

LEMMA WalkKeepsDump == DumpInv /\ (Start \/ Walk) => DumpInv'
<1> SUFFICES ASSUME DumpInv, Start \/ Walk PROVE DumpInv'
  OBVIOUS
<1>1. RingInv'
  BY StepRing DEF DumpInv, Next
<1>2. OldListed' /\ AtTop' /\ Onward' /\ Once'
  <2> USE FdbDumpAssumption DEF DumpInv, RingInv, TypeOK, Pointer, Entries, NULL, list
  <2>1. CASE Start
    <3>1. Listed = 1 .. Top /\ head = Top /\ Top \in Nat
      BY DEF Listed, Ring, Top
    <3>2. old' = 1 .. Top /\ el' = Top /\ Top' = Top
      BY <2>1, <3>1 DEF Start, Top
    <3>3. OldListed'
      BY <3>1, <3>2 DEF OldListed
    <3>4. cli' = "head" /\ printed' = {} /\ ~twice'
      BY <2>1 DEF Start
    <3>5. AtTop'
      BY <2>1, <3>1, <3>2, <3>4 DEF AtTop, Start
    <3>6. Onward' /\ Once'
      BY <3>4 DEF Onward, Once, Walking
    <3> QED
      BY <3>3, <3>5, <3>6
  <2>2. CASE Walk
    <3>1. OldListed'
      BY <2>2 DEF Walk, TestHead, LoadHead, LoadTail, Test, Body, Advance, Finish, OldListed, Top
    <3>2. CASE TestHead
      BY <3>1, <3>2 DEF TestHead, Ring, OldListed, AtTop, Onward, Once, Walking, Top
    <3>3. CASE LoadHead
      BY <3>1, <3>3 DEF LoadHead, Ring, OldListed, AtTop, Onward, Once, Walking, Top
    <3>4. CASE LoadTail
      <4>1. hd \in 1 .. PrevTop /\ hd <= Top /\ PrevTop <= MaxEntries
        BY <3>4 DEF LoadTail, AtTop, Ring, Top, PrevTop
      <4>2. prev[hd] = IF hd = PrevTop THEN 1 ELSE hd + 1
        BY <4>1 DEF Ring
      <4>3. prev[hd] = 1 \/ (prev[hd] \in 2 .. PrevTop /\ \A x \in old : x < prev[hd])
        <5>1. CASE hd = PrevTop
          BY <4>2, <5>1
        <5>2. CASE hd # PrevTop
          <6>1. prev[hd] = hd + 1 /\ hd + 1 \in 2 .. PrevTop
            BY <4>1, <4>2, <5>2 DEF Top, PrevTop
          <6>2. \A x \in old : x \in Nat /\ x <= hd
            BY <3>4 DEF LoadTail, AtTop
          <6> QED
            BY <4>1, <6>1, <6>2
        <5> QED
          BY <5>1, <5>2
      <4>4. AtTop'
        BY <3>4 DEF LoadTail, AtTop
      <4>5. Onward'
        BY <3>4, <4>3 DEF LoadTail, AtTop, Onward, Walking
      <4>6. Once'
        <5>1. CASE rx = "add.prev.next"
          BY <3>4, <5>1 DEF LoadTail, Once
        <5>2. CASE rx # "add.prev.next"
          <6>1. PrevTop <= NextTop /\ NextTop' = NextTop /\ PrevTop \in Nat /\ NextTop \in Nat
            BY <3>4, <4>1, <5>2 DEF LoadTail, Ring, PrevTop, NextTop, Top
          <6>2. el # NULL => tmp1' \in 1 .. NextTop
            BY <3>4, <4>1, <4>3, <6>1 DEF LoadTail
          <6> QED
            BY <3>4, <4>3, <6>1, <6>2 DEF LoadTail, AtTop, Once, Walking
        <5> QED
          BY <5>1, <5>2
      <4> QED
        BY <3>1, <4>4, <4>5, <4>6
    <3>5. CASE Test
      <4>1. el \in old /\ el # 1 => next[el] = el - 1
        BY DEF Ring, Top, NextTop, OldListed
      <4>2. AtTop'
        BY <3>5 DEF Test, AtTop
      <4>3. Onward'
        BY <3>5, <4>1 DEF Test, Onward, Walking
      <4>4. NextTop' = NextTop /\ NextTop \in Nat /\ old \subseteq 1 .. NextTop
        BY <3>5 DEF Test, Ring, Top, NextTop, OldListed
      <4>5. el \in 1 .. NextTop => next[el] = IF el = 1 THEN NextTop ELSE el - 1
        BY DEF Ring
      <4>6. Once'
        BY <3>5, <4>4, <4>5 DEF Test, Once, Walking
      <4> QED
        BY <3>1, <4>2, <4>3, <4>6
    <3>6. CASE Body
      <4>1. AtTop'
        BY <3>6 DEF Body, AtTop
      <4>2. Onward'
        BY <3>6 DEF Body, Onward, Walking
      <4>3. NextTop' = NextTop
        BY <3>6 DEF Body, NextTop, Top
      <4>4. Once'
        <5>1. ~overlap => ~twice /\ el \notin printed
          BY <3>6 DEF Body, Once, Walking
        <5>2. /\ cli' = "advance" /\ printed' = printed \cup {el}
              /\ UNCHANGED <<el, tmp1, tmp2, old, overlap>>
              /\ twice' = (twice \/ el \in printed)
          BY <3>6 DEF Body
        <5>3. cli = "body" /\ el # NULL
          BY <3>6 DEF Body
        <5> QED
          BY <4>3, <5>1, <5>2, <5>3 DEF Once, Walking
      <4> QED
        BY <3>1, <4>1, <4>2, <4>4
    <3>7. CASE Advance
      <4>1. AtTop'
        BY <3>7 DEF Advance, AtTop
      <4>2. Onward'
        BY <3>7 DEF Advance, Following, Onward, Walking, OldListed
      <4>3. NextTop' = NextTop /\ NextTop \in Nat /\ old \subseteq 1 .. NextTop
        BY <3>7 DEF Advance, Ring, NextTop, Top, OldListed
      <4>4. Once'
        <5> SUFFICES ASSUME ~overlap, el # tmp1 PROVE Once'
          BY <3>7 DEF Advance, Following, Once, Walking
        <5>1. /\ cli = "advance" /\ el # NULL /\ cli' = "test" /\ el' = tmp2
              /\ UNCHANGED <<tmp1, tmp2, printed, twice, old, overlap>>
          BY <3>7 DEF Advance, Following
        <5>2. CASE el = 1
          <6>1. 1 \in old \/ (1 \notin old /\ tmp1 # 1 /\ 1 \in tmp1 .. NextTop)
            BY <5>1, <5>2 DEF Once, Walking
          <6>2. 1 \in old /\ printed \subseteq old /\ tmp1 # 1 /\ \A x \in old : x < tmp1
            BY <5>1, <5>2, <6>1, <4>3 DEF Once, Walking
          <6>3. tmp2 \in tmp1 .. NextTop /\ tmp2 \notin old
            BY <5>1, <5>2, <6>2, <4>3 DEF Once, Walking
          <6> QED
            BY <5>1, <5>2, <6>2, <6>3, <4>3 DEF Once, Walking
        <5>3. CASE el # 1
          <6>1. tmp2 = el - 1 /\ tmp1 \in 1 .. NextTop
            BY <5>1, <5>3 DEF Once, Walking
          <6>2. CASE el \in old
            <7>1. tmp2 \in old
              BY <5>1, <5>3, <6>1, <6>2 DEF OldListed
            <7> QED
              BY <5>1, <6>1, <6>2, <7>1, <4>3 DEF Once, Walking
          <6>3. CASE el \notin old
            <7>1. tmp1 # 1 /\ tmp2 \in tmp1 .. NextTop /\ \A x \in old : x < tmp1
              BY <5>1, <6>1, <6>3, <4>3 DEF Once, Walking
            <7>2. tmp2 \notin old
              BY <7>1, <4>3
            <7> QED
              BY <5>1, <6>1, <6>3, <7>1, <7>2, <4>3 DEF Once, Walking
          <6> QED
            BY <6>2, <6>3
        <5> QED
          BY <5>2, <5>3
      <4> QED
        BY <3>1, <4>1, <4>2, <4>4
    <3>8. CASE Finish
      <4>1. AtTop'
        BY <3>8 DEF Finish, AtTop
      <4>2. Onward'
        BY <3>8 DEF Finish, Onward, Walking
      <4>3. Once'
        BY <3>8 DEF Finish, Once, Walking
      <4> QED
        BY <3>1, <4>1, <4>2, <4>3
    <3> QED
      BY <2>2, <3>2, <3>3, <3>4, <3>5, <3>6, <3>7, <3>8 DEF Walk
  <2> QED
    BY <2>1, <2>2
<1> QED
  BY <1>1, <1>2 DEF DumpInv

LEMMA StepDump == DumpInv /\ [Next]_vars => DumpInv'
<1> SUFFICES ASSUME DumpInv, [Next]_vars PROVE DumpInv'
  OBVIOUS
<1>1. CASE UNCHANGED vars
  <2>1. RingInv'
    BY <1>1, StepRing DEF DumpInv
  <2>2. OldListed' /\ AtTop' /\ Onward' /\ Once'
    BY <1>1 DEF DumpInv, OldListed, AtTop, Onward, Once, Walking, Top, NextTop, vars, list, loop
  <2> QED
    BY <2>1, <2>2 DEF DumpInv
<1> QED
  BY <1>1, PrependKeepsDump, WalkKeepsDump DEF Next

\* "show fdb" prints every entry that was in the list when it began, however
\* many stations are learned while it runs.
THEOREM NothingMissed == Spec => []PrintsAllOld
<1>1. DumpInv => PrintsAllOld
  <2> SUFFICES ASSUME DumpInv, cli = "test", el = NULL PROVE old \subseteq printed
    BY DEF PrintsAllOld
  <2>1. NULL \notin old
    BY DEF DumpInv, OldListed, NULL
  <2> QED
    BY <2>1 DEF DumpInv, Onward, Walking
<1> QED
  BY <1>1, InitDump, StepDump, PTL DEF Spec

\* An entry is printed twice only by a dump that loaded its last entry between
\* the stores that link a new entry to the head and to the tail.
THEOREM TwiceExplained == Spec => []TwiceOnlyInOverlap
<1>1. DumpInv => TwiceOnlyInOverlap
  BY DEF DumpInv, Once, TwiceOnlyInOverlap
<1> QED
  BY <1>1, InitDump, StepDump, PTL DEF Spec
=============================================================================
