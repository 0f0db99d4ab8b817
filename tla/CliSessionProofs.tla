--------------------------- MODULE CliSessionProofs ---------------------------
(***************************************************************************)
(* The session of libcli, for any alphabet, length of the buffer and       *)
(* history: the buffer and the indices of cli_loop stay inside their       *)
(* ranges, the terminal shows the line that is edited and no more of a     *)
(* password than is typed inside it, Up and Down walk the history as a     *)
(* ring, and every key does what LineEditor promises.                      *)
(***************************************************************************)
EXTENDS CliSession, FiniteSetTheorems, SequenceTheorems, TLAPS

-----------------------------------------------------------------------------
(* Induction.                                                              *)

\* A set of natural numbers has a least element.
LEMMA NatMin ==
  ASSUME NEW S \in SUBSET Nat, S # {}
  PROVE  \E m \in S : \A k \in S : m <= k
<1> DEFINE R == OpToRel(<, Nat)
<1>1. IsWellFoundedOn(R, Nat)
  BY NatLessThanWellFounded
<1>2. PICK m \in S : \A k \in S : ~ (<<k, m>> \in R)
  <2> HIDE DEF R
  <2> QED
    BY <1>1, WFMin
<1>3. \A k \in S : k < m => <<k, m>> \in R
  BY DEF OpToRel
<1> HIDE DEF R
<1>4. \A k \in S : m <= k
  <2> TAKE k \in S
  <2>1. k \in Nat /\ m \in Nat
    OBVIOUS
  <2>2. ~ (k < m)
    BY <1>2, <1>3
  <2> QED
    BY <2>1, <2>2
<1> QED
  BY <1>4

\* Induction over a set: a first-order form of the principle.
LEMMA NatInd ==
  ASSUME NEW S, 0 \in S, \A n \in Nat : n \in S => n + 1 \in S
  PROVE  \A n \in Nat : n \in S
<1> SUFFICES ASSUME Nat \ S # {} PROVE FALSE
  OBVIOUS
<1>1. PICK m \in Nat \ S : \A k \in Nat \ S : m <= k
  BY NatMin
<1>2. m # 0
  OBVIOUS
<1>3. m - 1 \in Nat /\ m - 1 < m /\ (m - 1) + 1 = m
  BY <1>2
<1>4. m - 1 \in S
  BY <1>1, <1>3
<1> QED
  BY <1>3, <1>4

\* Induction up to a bound.
LEMMA BoundedInd ==
  ASSUME NEW m \in Nat, NEW S, 0 \in S, \A n \in 0 .. m - 1 : n \in S => n + 1 \in S
  PROVE  \A n \in 0 .. m : n \in S
<1> DEFINE T == {n \in Nat : n <= m => n \in S}
<1>1. 0 \in T
  OBVIOUS
<1>2. \A n \in Nat : n \in T => n + 1 \in T
  OBVIOUS
<1> HIDE DEF T
<1>3. \A n \in Nat : n \in T
  BY <1>1, <1>2, NatInd
<1> QED
  BY <1>3 DEF T

-----------------------------------------------------------------------------
(* The buffer and the terminal.                                            *)

Chars == Text \cup {NUL}

\* A buffer with a line of n characters and the cursor after c of them.
Valid(b, n, c) ==
  /\ b \in [1 .. MaxLine -> Chars]
  /\ n \in 0 .. Room /\ c \in 0 .. n
  /\ b[MaxLine] = NUL

\* Only the line is in the buffer.
Filled(b, n) == \A x \in 1 .. MaxLine : (b[x] = NUL) <=> (x > n)

\* The terminal shows the line.
Pictures(t, b, n, c) ==
  /\ t.at = c
  /\ \A x \in 1 .. MaxLine : t.cells[x] = IF x <= n THEN b[x] ELSE Blank

\* The cursor is after c cells.
At(t, c) == c \in Nat /\ t.at = c

\* u is t, but for the cells from c to m, that show b; the cursor is after m.
Written(u, t, b, c, m) ==
  /\ At(u, m)
  /\ \A x \in 1 .. MaxLine : u.cells[x] = IF c < x /\ x <= m THEN b[x] ELSE t.cells[x]

\* The same for blanks.
Blanked(u, t, c, m) ==
  \A x \in 1 .. MaxLine : u.cells[x] = IF c < x /\ x <= m THEN Blank ELSE t.cells[x]

IsScreen(t) == t = [cells |-> t.cells, at |-> t.at]

LEMMA Lengths ==
  /\ MaxLine \in Nat /\ Room \in Nat \ {0} /\ MaxLine = Room + 1
  /\ MaxLine \in 1 .. MaxLine
  /\ NUL \notin Text /\ Blank \in Text /\ Blank # NUL
BY SessionAssumption DEF Room, NUL, Text, Blank

LEMMA PutIs ==
  ASSUME NEW t, NEW s
  PROVE  /\ IsScreen(Put(t, s))
         /\ Put(t, s).at = t.at + Len(s)
         /\ \A x \in 1 .. MaxLine :
              Put(t, s).cells[x] = IF x \in t.at + 1 .. t.at + Len(s) THEN s[x - t.at]
                                   ELSE t.cells[x]
BY DEF Put, IsScreen

LEMMA PutOne ==
  ASSUME NEW t, NEW c, t.at \in Int
  PROVE  /\ IsScreen(Put(t, <<c>>))
         /\ Put(t, <<c>>).at = t.at + 1
         /\ \A x \in 1 .. MaxLine :
              Put(t, <<c>>).cells[x] = IF x = t.at + 1 THEN c ELSE t.cells[x]
<1>1. Len(<<c>>) = 1 /\ <<c>>[1] = c
  OBVIOUS
<1> PICK s : s = <<c>>
  OBVIOUS
<1>2. /\ IsScreen(Put(t, s)) /\ Put(t, s).at = t.at + Len(s)
      /\ \A x \in 1 .. MaxLine :
           Put(t, s).cells[x] = IF x \in t.at + 1 .. t.at + Len(s) THEN s[x - t.at]
                                ELSE t.cells[x]
  BY PutIs
<1>3. Len(s) = 1 /\ s[1] = c
  BY <1>1
<1> PICK at \in Int : at = t.at
  OBVIOUS
<1>4. \A x \in 1 .. MaxLine : Put(t, s).cells[x] = IF x = at + 1 THEN c ELSE t.cells[x]
  <2> TAKE x \in 1 .. MaxLine
  <2>1. x \in Int
    BY Lengths
  <2>2. x \in at + 1 .. at + 1 <=> x = at + 1
    BY <2>1
  <2>3. x = at + 1 => x - at = 1
    BY <2>1
  <2>4. Put(t, s).cells[x] = IF x \in at + 1 .. at + 1 THEN s[x - at] ELSE t.cells[x]
    BY <1>2, <1>3
  <2> QED
    BY <1>3, <2>2, <2>3, <2>4
<1> QED
  BY <1>2, <1>3, <1>4

LEMMA BackIs ==
  ASSUME NEW t, IsScreen(t), NEW n
  PROVE  /\ IsScreen(Back(t, n))
         /\ Back(t, n).at = t.at - n
         /\ Back(t, n).cells = t.cells
<1> PICK cells, at : t = [cells |-> cells, at |-> at]
  BY DEF IsScreen
<1> QED
  BY DEF Back, IsScreen

LEMMA FreshIs ==
  ASSUME NEW b
  PROVE  /\ IsScreen(Fresh) /\ Pictures(Fresh, b, 0, 0)
         /\ Fresh.at = 0 /\ 0 \in 0 .. MaxLine
BY Lengths DEF Fresh, Row, IsScreen, Pictures

\* s is the part of b that follows c characters and ends after m of them.
IsPart(s, b, c, m) ==
  /\ s \in Seq(Chars) /\ Len(s) = m - c
  /\ \A x \in 1 .. m - c : s[x] = b[c + x]

LEMMA PartIs ==
  ASSUME NEW b \in [1 .. MaxLine -> Chars], NEW c \in Nat, NEW m \in Nat,
         c <= m, m <= MaxLine
  PROVE  IsPart(SubSeq(b, c + 1, m), b, c, m)
<1>1. MaxLine \in Nat
  BY Lengths
<1> PICK s : s = SubSeq(b, c + 1, m)
  OBVIOUS
<1>2. Len(s) = m - c /\ \A x \in 1 .. m - c : s[x] = b[c + x] /\ s[x] \in Chars
  BY <1>1
<1>3. s = [x \in 1 .. m - c |-> s[x]]
  BY <1>1
<1>4. s \in Seq(Chars)
  <2>1. m - c \in Nat
    OBVIOUS
  <2>2. s \in [1 .. m - c -> Chars]
    BY <1>2, <1>3
  <2> QED
    BY <2>1, <2>2, SeqDef
<1> QED
  BY <1>2, <1>4 DEF IsPart

\* A part of the buffer is written in its place.
LEMMA PutPart ==
  ASSUME NEW t, NEW b, NEW c \in Nat, NEW m \in Nat, NEW s, IsPart(s, b, c, m), At(t, c)
  PROVE  IsScreen(Put(t, s)) /\ Written(Put(t, s), t, b, c, m)
<1>1. MaxLine \in Nat
  BY Lengths
<1>2. Len(s) = m - c /\ \A x \in 1 .. m - c : s[x] = b[c + x]
  BY DEF IsPart
<1>3. \A x \in c + 1 .. m : s[x - c] = b[x]
  <2> TAKE x \in c + 1 .. m
  <2>1. x - c \in 1 .. m - c /\ c + (x - c) = x
    BY <1>1
  <2> QED
    BY <1>2, <2>1
<1>4. c + Len(s) = m /\ t.at = c
  BY <1>1, <1>2 DEF At
<1>5. /\ IsScreen(Put(t, s)) /\ Put(t, s).at = t.at + Len(s)
      /\ \A x \in 1 .. MaxLine :
           Put(t, s).cells[x] = IF x \in t.at + 1 .. t.at + Len(s) THEN s[x - t.at]
                                ELSE t.cells[x]
  BY PutIs
<1>6. ASSUME NEW x \in 1 .. MaxLine
      PROVE  Put(t, s).cells[x] = IF c < x /\ x <= m THEN b[x] ELSE t.cells[x]
  <2>1. Put(t, s).cells[x] = IF x \in c + 1 .. m THEN s[x - c] ELSE t.cells[x]
    BY <1>4, <1>5
  <2>2. x \in c + 1 .. m <=> c < x /\ x <= m
    BY <1>1
  <2> QED
    BY <1>3, <2>1, <2>2
<1> QED
  BY <1>4, <1>5, <1>6 DEF At, Written

\* Written over itself it changes nothing but the cursor.
LEMMA PutOver ==
  ASSUME NEW t, NEW b, NEW n, NEW c, NEW m, NEW s, IsPart(s, b, c, m),
         n \in Nat, c \in Nat, m \in Nat, m <= n, Pictures(t, b, n, c)
  PROVE  IsScreen(Put(t, s)) /\ Pictures(Put(t, s), b, n, m)
<1> PICK u : u = Put(t, s)
  OBVIOUS
<1>1. At(t, c)
  BY DEF Pictures, At
<1>2. IsScreen(u) /\ Written(u, t, b, c, m)
  BY <1>1, PutPart
<1>3. ASSUME NEW x \in 1 .. MaxLine
      PROVE  u.cells[x] = IF x <= n THEN b[x] ELSE Blank
  <2>1. t.cells[x] = IF x <= n THEN b[x] ELSE Blank
    BY DEF Pictures
  <2>2. x <= m => x <= n
    BY Lengths
  <2> QED
    BY <1>2, <2>1, <2>2 DEF Written
<1> QED
  BY <1>2, <1>3 DEF Pictures, Written, At

-----------------------------------------------------------------------------
(* What the keys do to the buffer and the terminal.                        *)

LineOK == Valid(cmd, l, cursor) /\ (~Hidden => Filled(cmd, l))

Shows ==
  /\ IsScreen(screen)
  /\ Prompting => Pictures(screen, cmd, l, cursor)
  /\ Hidden => screen.at = 0
  /\ ~Prompting => screen.at \in 0 .. MaxLine

LEMMA Indices ==
  ASSUME LineOK
  PROVE  /\ l \in Nat /\ cursor \in Nat /\ cursor <= l /\ l <= Room
         /\ MaxLine \in Nat /\ MaxLine = Room + 1 /\ Room \in Nat
         /\ cmd \in [1 .. MaxLine -> Chars] /\ cmd[MaxLine] = NUL
BY Lengths DEF LineOK, Valid

\* A name or a password is asked for.
Asking == Hidden \/ state = "login"

LEMMA StateKept ==
  ASSUME state' = state
  PROVE  (Hidden' <=> Hidden) /\ (Prompting' <=> Prompting) /\ (Asking' <=> Asking)
BY DEF Hidden, Prompting, Asking

LEMMA EchoQuiet ==
  ASSUME NEW t, Shows, ~Prompting, Echo(t), state' = state
  PROVE  Shows'
<1>1. CASE Hidden
  <2>1. screen' = screen
    BY <1>1 DEF Echo
  <2> QED
    BY <1>1, <2>1, StateKept DEF Shows
<1>2. CASE ~Hidden
  <2>1. screen' = Fresh
    BY <1>2 DEF Echo
  <2> QED
    BY <1>2, <2>1, StateKept, FreshIs DEF Shows
<1> QED
  BY <1>1, <1>2

LEMMA EchoKeeps ==
  ASSUME NEW t, Shows, IsScreen(t), Echo(t), state' = state,
         Prompting => Pictures(t, cmd', l', cursor')
  PROVE  Shows'
<1>1. CASE Prompting
  BY <1>1, StateKept DEF Shows, Echo, Prompting, Hidden
<1> QED
  BY <1>1, EchoQuiet

\* Steps that leave the line and the terminal alone.
LEMMA Untouched ==
  ASSUME LineOK, Shows, UNCHANGED <<cmd, l, cursor, screen, state>>
  PROVE  LineOK' /\ Shows'
BY StateKept DEF LineOK, Shows

\* Steps after which a new line begins.
LEMMA Renewed ==
  ASSUME cmd' = EmptyBuffer, l' = 0, cursor' = 0, screen' = Fresh
  PROVE  LineOK' /\ Shows'
<1>1. Valid(EmptyBuffer, 0, 0) /\ Filled(EmptyBuffer, 0)
  BY Lengths DEF EmptyBuffer, Valid, Filled, Chars
<1> QED
  BY <1>1, FreshIs, Lengths DEF LineOK, Shows

LEMMA TypeAtEndKeeps ==
  ASSUME LineOK, Shows, NEW c \in Text, TypeAtEnd(c)
  PROVE  LineOK' /\ Shows'
<1>0. /\ cursor = l /\ l < Room /\ l' = l + 1 /\ cursor' = cursor + 1
      /\ cmd' = [cmd EXCEPT ![cursor + 1] = c] /\ state' = state
      /\ Echo(Put(screen, <<c>>))
  BY DEF TypeAtEnd, Edited, access
<1>1. /\ l \in Nat /\ cursor \in Nat /\ MaxLine \in Nat /\ MaxLine = Room + 1 /\ Room \in Nat
      /\ cmd \in [1 .. MaxLine -> Chars] /\ cmd[MaxLine] = NUL
      /\ c # NUL /\ c \in Chars
  BY Indices, Lengths DEF Chars
<1>2. /\ cmd' \in [1 .. MaxLine -> Chars]
      /\ \A x \in 1 .. MaxLine : cmd'[x] = IF x = l + 1 THEN c ELSE cmd[x]
  BY <1>0, <1>1
<1>3. Valid(cmd', l', cursor')
  BY <1>0, <1>1, <1>2 DEF Valid
<1>4. Filled(cmd, l) => Filled(cmd', l')
  BY <1>0, <1>1, <1>2 DEF Filled
<1>5. LineOK'
  BY <1>0, <1>3, <1>4, StateKept DEF LineOK
<1>6. ASSUME Prompting
      PROVE  Pictures(Put(screen, <<c>>), cmd', l', cursor')
  <2>1. screen.at = l /\ \A x \in 1 .. MaxLine : screen.cells[x] = IF x <= l THEN cmd[x] ELSE Blank
    BY <1>0, <1>6 DEF Shows, Pictures
  <2> PICK t : t = Put(screen, <<c>>)
    OBVIOUS
  <2>3. /\ t.at = l + 1
        /\ \A x \in 1 .. MaxLine : t.cells[x] = IF x = l + 1 THEN c ELSE screen.cells[x]
    BY <1>1, <2>1, PutOne
  <2>4. ASSUME NEW x \in 1 .. MaxLine
        PROVE  t.cells[x] = IF x <= l + 1 THEN cmd'[x] ELSE Blank
    <3>1. CASE x = l + 1
      BY <1>1, <1>2, <2>3, <3>1
    <3>2. CASE x # l + 1
      <4>1. x <= l <=> x <= l + 1
        BY <1>1, <3>2
      <4> QED
        BY <1>2, <2>1, <2>3, <3>2, <4>1
    <3> QED
      BY <3>1, <3>2
  <2> QED
    BY <1>0, <2>3, <2>4 DEF Pictures
<1>7. IsScreen(Put(screen, <<c>>))
  BY PutIs
<1>8. Shows'
  BY <1>0, <1>6, <1>7, EchoKeeps
<1> QED
  BY <1>5, <1>8

LEMMA TypeAtFullEndKeeps ==
  ASSUME LineOK, Shows, NEW c \in Text, TypeAtFullEnd(c)
  PROVE  LineOK' /\ Shows'
<1>1. cmd' = [cmd EXCEPT ![l + 1] = NUL] /\ UNCHANGED <<l, cursor, screen, state>> /\ l = Room
  BY DEF TypeAtFullEnd, Edited, access
<1>2. cmd' = cmd
  BY <1>1, Indices
<1> QED
  BY <1>1, <1>2, Untouched

\* The line b of n0 characters becomes b1 of n when a character is inserted
\* after c0 of them.
Inserted(b, b1, n0, n, c0, char) ==
  /\ n0 \in Nat /\ n \in Nat /\ c0 \in Nat /\ c0 < n0 /\ n0 <= n
  /\ b1[c0 + 1] = char
  /\ \A x \in 1 .. MaxLine : x <= c0 => b1[x] = b[x]

LEMMA InsertShows ==
  ASSUME NEW t0, NEW b, NEW b1, NEW n0, NEW n, NEW c0, NEW char, NEW rest,
         Pictures(t0, b, n0, c0), Inserted(b, b1, n0, n, c0, char), IsPart(rest, b1, c0, n)
  PROVE  Pictures(Put(Back(Put(t0, rest), Len(rest)), <<char>>), b1, n, c0 + 1)
<1>1. /\ n0 \in Nat /\ n \in Nat /\ c0 \in Nat /\ c0 < n0 /\ n0 <= n /\ MaxLine \in Nat
      /\ At(t0, c0)
  BY Lengths DEF Inserted, Pictures, At
<1> PICK t : t = Put(t0, rest)
  OBVIOUS
<1>2. /\ IsScreen(t) /\ At(t, n)
      /\ \A x \in 1 .. MaxLine :
           t.cells[x] = IF c0 < x /\ x <= n THEN b1[x] ELSE t0.cells[x]
  <2>1. IsScreen(t) /\ Written(t, t0, b1, c0, n)
    BY <1>1, PutPart
  <2> QED
    BY <2>1 DEF Written
<1> PICK u : u = Back(t, Len(rest))
  OBVIOUS
<1> PICK v : v = Put(u, <<char>>)
  OBVIOUS
<1>3. Len(rest) = n - c0
  BY DEF IsPart
<1>4. u.at = c0 /\ u.cells = t.cells
  <2>1. u.at = t.at - Len(rest) /\ u.cells = t.cells
    BY <1>2, BackIs
  <2> QED
    BY <1>1, <1>2, <1>3, <2>1 DEF At
<1>5. /\ v.at = c0 + 1
      /\ \A x \in 1 .. MaxLine : v.cells[x] = IF x = c0 + 1 THEN char ELSE t.cells[x]
  BY <1>1, <1>4, PutOne
<1>6. ASSUME NEW x \in 1 .. MaxLine
      PROVE  v.cells[x] = IF x <= n THEN b1[x] ELSE Blank
  <2>1. t0.cells[x] = IF x <= n0 THEN b[x] ELSE Blank
    BY DEF Pictures
  <2>2. CASE x = c0 + 1
    BY <1>1, <1>5, <2>2 DEF Inserted
  <2>3. CASE c0 + 1 < x
    <3>1. c0 < x /\ (x <= n0 => x <= n) /\ x # c0 + 1
      BY <1>1, <2>3
    <3> QED
      BY <1>2, <1>5, <2>1, <3>1
  <2>4. CASE x <= c0
    <3>1. ~(c0 < x) /\ x <= n0 /\ x <= n /\ x # c0 + 1
      BY <1>1, <2>4
    <3> QED
      BY <1>2, <1>5, <2>1, <2>4, <3>1 DEF Inserted
  <2> QED
    BY <1>1, <2>2, <2>3, <2>4
<1> QED
  BY <1>5, <1>6 DEF Pictures

LEMMA TypeInsideKeeps ==
  ASSUME LineOK, Shows, NEW c \in Text, TypeInside(c)
  PROVE  LineOK' /\ Shows'
<1> PICK n : n = LengthAfterInsert
  OBVIOUS
<1>0. cursor < l /\ l' = n /\ cursor' = cursor + 1 /\ state' = state
  BY DEF TypeInside, Edited, access
<1>1. /\ l \in Nat /\ cursor \in Nat /\ MaxLine \in Nat /\ MaxLine = Room + 1 /\ Room \in Nat
      /\ l <= Room /\ cmd \in [1 .. MaxLine -> Chars] /\ cmd[MaxLine] = NUL
      /\ c # NUL /\ c \in Chars /\ NUL \in Chars
  BY Indices, Lengths DEF Chars
<1>2. n \in Nat /\ n <= Room /\ l <= n /\ n <= l + 1 /\ (l = Room <=> n = l)
  BY <1>1 DEF LengthAfterInsert
<1>3. \A x \in 1 .. MaxLine :
        cmd'[x] = IF x = cursor + 1 THEN c
                  ELSE IF cursor + 2 <= x /\ x <= n THEN cmd[x - 1]
                  ELSE IF x = l + 1 /\ l = Room THEN NUL ELSE cmd[x]
  <2> TAKE x \in 1 .. MaxLine
  <2>1. x \in cursor + 2 .. n <=> cursor + 2 <= x /\ x <= n
    BY <1>1, <1>2
  <2>2. /\ x = cursor + 1 => ~(cursor + 2 <= x) /\ x # l + 1
        /\ cursor + 2 <= x /\ x <= n /\ x = l + 1 => l # Room
    BY <1>0, <1>1, <1>2
  <2>3. cmd'[x] = CASE x = cursor + 1 -> c
                    [] x \in cursor + 2 .. n -> cmd[x - 1]
                    [] x = l + 1 /\ l = Room -> NUL
                    [] OTHER -> cmd[x]
    BY DEF TypeInside
  <2> QED
    BY <2>1, <2>2, <2>3
<1>4. \A x \in 1 .. MaxLine : cursor + 2 <= x => x - 1 \in 1 .. MaxLine
  BY <1>1
<1>5. cmd' \in [1 .. MaxLine -> Chars]
  <2>1. cmd' = [x \in 1 .. MaxLine |-> cmd'[x]]
    BY DEF TypeInside
  <2>2. \A x \in 1 .. MaxLine : cmd'[x] \in Chars
    BY <1>1, <1>3, <1>4
  <2> QED
    BY <2>1, <2>2
<1>6. Valid(cmd', l', cursor')
  <2>1. MaxLine \in 1 .. MaxLine /\ MaxLine # cursor + 1 /\ ~(MaxLine <= n)
    BY <1>0, <1>1, <1>2
  <2>2. cmd'[MaxLine] = NUL
    BY <1>1, <1>3, <2>1
  <2> QED
    BY <1>0, <1>1, <1>2, <1>5, <2>2 DEF Valid
<1>7. Filled(cmd, l) => Filled(cmd', l')
  <2> SUFFICES ASSUME Filled(cmd, l), NEW x \in 1 .. MaxLine
               PROVE  (cmd'[x] = NUL) <=> (x > n)
    BY <1>0 DEF Filled
  <2>1. (cmd[x] = NUL) <=> (x > l)
    BY DEF Filled
  <2>2. cursor + 2 <= x => ((cmd[x - 1] = NUL) <=> (x - 1 > l))
    BY <1>4 DEF Filled
  <2> QED
    BY <1>0, <1>1, <1>2, <1>3, <2>1, <2>2
<1>8. LineOK'
  BY <1>0, <1>6, <1>7, StateKept DEF LineOK
<1> PICK rest :
      /\ IsPart(rest, cmd', cursor, n)
      /\ IF Hidden THEN screen' = Back(Put(screen, rest), Len(rest))
         ELSE Echo(Put(Back(Put(screen, rest), Len(rest)), <<c>>))
  <2> DEFINE r == SubSeq(cmd', cursor + 1, l')
  <2>1. cursor <= n /\ n <= MaxLine
    BY <1>0, <1>1, <1>2
  <2>2. IsPart(SubSeq(cmd', cursor + 1, n), cmd', cursor, n)
    BY <1>1, <1>2, <1>5, <2>1, PartIs
  <2>3. IF Hidden THEN screen' = Back(Put(screen, r), Len(r))
        ELSE Echo(Put(Back(Put(screen, r), Len(r)), <<c>>))
    BY DEF TypeInside
  <2>4. IsPart(r, cmd', cursor, n)
    BY <1>0, <2>2
  <2> HIDE DEF r
  <2> QED
    BY <2>3, <2>4
<1> PICK v : v = Put(Back(Put(screen, rest), Len(rest)), <<c>>)
  OBVIOUS
<1>9. IsScreen(v)
  BY DEF Put, IsScreen
<1>10. ASSUME Prompting
       PROVE  Pictures(v, cmd', l', cursor')
  <2>1. Pictures(screen, cmd, l, cursor)
    BY <1>10 DEF Shows
  <2>2. Inserted(cmd, cmd', l, n, cursor, c)
    <3>1. \A x \in 1 .. MaxLine : x <= cursor => cmd'[x] = cmd[x]
      <4> TAKE x \in 1 .. MaxLine
      <4>1. x <= cursor => x # cursor + 1 /\ ~(cursor + 2 <= x) /\ x # l + 1
        BY <1>0, <1>1
      <4> QED
        BY <1>3, <4>1
    <3>2. cursor + 1 \in 1 .. MaxLine /\ cmd'[cursor + 1] = c
      BY <1>0, <1>1, <1>3
    <3> QED
      BY <1>0, <1>1, <1>2, <3>1, <3>2 DEF Inserted
  <2>3. IsPart(rest, cmd', cursor, n)
    OBVIOUS
  <2>4. Pictures(v, cmd', n, cursor + 1)
    BY <2>1, <2>2, <2>3, InsertShows
  <2> QED
    BY <1>0, <2>4
<1>11. Shows'
  <2>1. CASE ~Hidden
    BY <1>0, <1>9, <1>10, <2>1, EchoKeeps
  <2>2. CASE Hidden
    <3> PICK t : t = Put(screen, rest)
      OBVIOUS
    <3> PICK u : u = Back(t, Len(rest))
      OBVIOUS
    <3>1. IsScreen(t) /\ t.at = screen.at + Len(rest)
      BY PutIs
    <3>2. IsScreen(u) /\ u.at = t.at - Len(rest)
      BY <3>1, BackIs
    <3>3. screen.at = 0 /\ Len(rest) \in Nat
      BY <2>2 DEF Shows, IsPart
    <3>4. screen' = u /\ u.at = 0
      BY <2>2, <3>1, <3>2, <3>3
    <3>5. ~Prompting'
      BY <1>0, <2>2, StateKept DEF Prompting, Hidden
    <3> QED
      BY <1>1, <3>2, <3>4, <3>5 DEF Shows
  <2> QED
    BY <2>1, <2>2
<1> QED
  BY <1>8, <1>11

-----------------------------------------------------------------------------
(* Clearing, and showing a line again.                                     *)

\* Blanks are written over the cells from the cursor on.
LEMMA PutBlanks ==
  ASSUME NEW t, NEW c \in Nat, NEW k \in Nat, At(t, c)
  PROVE  /\ IsScreen(Put(t, Blanks(k))) /\ At(Put(t, Blanks(k)), c + k)
         /\ Blanked(Put(t, Blanks(k)), t, c, c + k)
<1>1. t.at = c /\ Len(Blanks(k)) = k /\ \A x \in 1 .. k : Blanks(k)[x] = Blank
  BY DEF Blanks, At
<1> PICK s : s = Blanks(k)
  OBVIOUS
<1>2. /\ IsScreen(Put(t, s)) /\ Put(t, s).at = t.at + Len(s)
      /\ \A x \in 1 .. MaxLine :
           Put(t, s).cells[x] = IF x \in t.at + 1 .. t.at + Len(s) THEN s[x - t.at]
                                ELSE t.cells[x]
  BY PutIs
<1>3. ASSUME NEW x \in 1 .. MaxLine
      PROVE  Put(t, s).cells[x] = IF c < x /\ x <= c + k THEN Blank ELSE t.cells[x]
  <2>1. x \in Int
    BY Lengths
  <2>2. x \in c + 1 .. c + k <=> c < x /\ x <= c + k
    BY <2>1
  <2>3. c < x /\ x <= c + k => x - c \in 1 .. k
    BY <2>1
  <2>4. Put(t, s).cells[x] = IF x \in c + 1 .. c + k THEN s[x - c] ELSE t.cells[x]
    BY <1>1, <1>2
  <2> QED
    BY <1>1, <2>2, <2>3, <2>4
<1> QED
  BY <1>1, <1>2, <1>3 DEF At, Blanked

\* After the blanks the cursor goes back to where they began.
LEMMA BlankedIs ==
  ASSUME NEW t, NEW c \in Nat, NEW k \in Nat, At(t, c)
  PROVE  /\ IsScreen(Back(Put(t, Blanks(k)), k)) /\ At(Back(Put(t, Blanks(k)), k), c)
         /\ Blanked(Back(Put(t, Blanks(k)), k), t, c, c + k)
<1>1. /\ IsScreen(Put(t, Blanks(k))) /\ At(Put(t, Blanks(k)), c + k)
      /\ Blanked(Put(t, Blanks(k)), t, c, c + k)
  BY PutBlanks
<1> PICK u : u = Put(t, Blanks(k))
  OBVIOUS
<1>2. /\ IsScreen(Back(u, k)) /\ Back(u, k).at = u.at - k
      /\ Back(u, k).cells = u.cells
  BY <1>1, BackIs
<1> QED
  BY <1>1, <1>2 DEF At, Blanked

\* cli_clear_line leaves nothing of a line on the terminal.
LEMMA ClearedShows ==
  ASSUME LineOK, Shows, Prompting, NEW b
  PROVE  IsScreen(Cleared) /\ Pictures(Cleared, b, 0, 0)
<1>1. l \in Nat /\ cursor \in Nat /\ cursor <= l /\ MaxLine \in Nat
  BY Indices
<1>2. /\ IsScreen(screen) /\ screen.at = cursor
      /\ \A x \in 1 .. MaxLine : screen.cells[x] = IF x <= l THEN cmd[x] ELSE Blank
  BY DEF Shows, Pictures
<1>3. IsScreen(Back(screen, cursor)) /\ Back(screen, cursor).at = 0
      /\ Back(screen, cursor).cells = screen.cells
  BY <1>1, <1>2, BackIs
<1> PICK t : t = Back(screen, cursor)
  OBVIOUS
<1>4. /\ IsScreen(Back(Put(t, Blanks(l)), l)) /\ At(Back(Put(t, Blanks(l)), l), 0)
      /\ Blanked(Back(Put(t, Blanks(l)), l), t, 0, 0 + l)
  <2>1. At(t, 0)
    BY <1>3 DEF At
  <2> QED
    BY <1>1, <2>1, BlankedIs
<1> PICK u : u = Back(Put(t, Blanks(l)), l)
  OBVIOUS
<1>5. ASSUME NEW x \in 1 .. MaxLine
      PROVE  u.cells[x] = IF x <= 0 THEN b[x] ELSE Blank
  <2>1. 0 < x /\ ~(x <= 0) /\ 0 + l = l
    BY <1>1
  <2> QED
    BY <1>2, <1>3, <1>4, <2>1 DEF Blanked
<1>6. Cleared = u
  BY DEF Cleared
<1> QED
  BY <1>4, <1>5, <1>6 DEF Pictures, At

\* show_prompt and the line again, and the cursor where it was.
LEMMA RedrawnShows ==
  ASSUME NEW b, NEW n, NEW c, Valid(b, n, c)
  PROVE  IsScreen(Redrawn(b, n, c)) /\ Pictures(Redrawn(b, n, c), b, n, c)
<1>1. /\ n \in Nat /\ c \in Nat /\ c <= n /\ n <= MaxLine /\ MaxLine \in Nat
      /\ b \in [1 .. MaxLine -> Chars]
  BY Lengths DEF Valid
<1>2. 0 + 1 = 1 /\ 0 <= n
  BY <1>1
<1>3. IsPart(SubSeq(b, 0 + 1, n), b, 0, n)
  BY <1>1, <1>2, PartIs
<1>4. IsPart(SubSeq(b, 1, n), b, 0, n)
  BY <1>2, <1>3
<1> PICK s : s = SubSeq(b, 1, n) /\ IsPart(s, b, 0, n)
  BY <1>4
<1> PICK f : f = Fresh
  OBVIOUS
<1>5. At(f, 0) /\ \A x \in 1 .. MaxLine : f.cells[x] = Blank
  BY DEF Fresh, Row, At
<1>6. IsScreen(Put(f, s)) /\ Written(Put(f, s), f, b, 0, n)
  BY <1>1, <1>5, PutPart
<1> PICK t : t = Put(f, s)
  OBVIOUS
<1>7. /\ IsScreen(Back(t, n - c)) /\ Back(t, n - c).at = t.at - (n - c)
      /\ Back(t, n - c).cells = t.cells
  BY <1>6, BackIs
<1> PICK u : u = Back(t, n - c)
  OBVIOUS
<1>8. u.at = c
  BY <1>1, <1>6, <1>7 DEF Written, At
<1>9. ASSUME NEW x \in 1 .. MaxLine
      PROVE  u.cells[x] = IF x <= n THEN b[x] ELSE Blank
  <2>1. 0 < x
    BY <1>1
  <2> QED
    BY <1>5, <1>6, <1>7, <2>1 DEF Written
<1>10. Redrawn(b, n, c) = u
  BY DEF Redrawn
<1> QED
  BY <1>7, <1>8, <1>9, <1>10 DEF Pictures

\* A text put into the buffer is a line, with nothing after it.
LEMMA BufferIs ==
  ASSUME NEW s \in Seq(Text), Len(s) <= Room
  PROVE  /\ Len(s) \in Nat
         /\ Valid(Buffer(s), Len(s), Len(s)) /\ Filled(Buffer(s), Len(s))
         /\ \A x \in 1 .. Len(s) : Buffer(s)[x] = s[x]
<1>1. Len(s) \in Nat /\ \A x \in 1 .. Len(s) : s[x] \in Text
  OBVIOUS
<1> PICK n \in Nat : n = Len(s)
  BY <1>1
<1>2. /\ MaxLine \in Nat /\ Room \in Nat /\ MaxLine = Room + 1 /\ n <= Room
      /\ NUL \notin Text /\ MaxLine \in 1 .. MaxLine
  BY Lengths
<1>3. \A x \in 1 .. MaxLine : x \in Nat /\ Buffer(s)[x] = IF x <= n THEN s[x] ELSE NUL
  BY <1>2 DEF Buffer
<1>4. \A x \in 1 .. MaxLine : x <= n => s[x] \in Text
  BY <1>1, <1>2
<1> PICK b : b = Buffer(s)
  OBVIOUS
<1>5. b = [x \in 1 .. MaxLine |-> b[x]]
  BY DEF Buffer
<1>6. \A x \in 1 .. MaxLine : b[x] \in Chars
  BY <1>3, <1>4 DEF Chars
<1>7. b[MaxLine] = NUL /\ \A x \in 1 .. MaxLine : (b[x] = NUL) <=> (x > n)
  BY <1>2, <1>3, <1>4
<1>8. Valid(b, n, n)
  <2>1. b \in [1 .. MaxLine -> Chars]
    BY <1>5, <1>6
  <2>2. n \in 0 .. Room /\ n \in 0 .. n
    BY <1>2
  <2> QED
    BY <1>7, <2>1, <2>2 DEF Valid
<1>9. \A x \in 1 .. n : b[x] = s[x]
  BY <1>2, <1>3
<1> QED
  BY <1>7, <1>8, <1>9 DEF Filled

-----------------------------------------------------------------------------
(* The keys that move, clear, or show the line again.                      *)

\* Zeros in place of what the line had from c characters on.
LEMMA ZeroedIs ==
  ASSUME LineOK, NEW c \in Nat, c <= l
  PROVE  Valid(Zeroed(c + 1), c, c) /\ (Filled(cmd, l) => Filled(Zeroed(c + 1), c))
         /\ \A x \in 1 .. MaxLine : x <= c => Zeroed(c + 1)[x] = cmd[x]
<1>1. /\ l \in Nat /\ l <= Room /\ MaxLine \in Nat /\ MaxLine = Room + 1 /\ Room \in Nat
      /\ cmd \in [1 .. MaxLine -> Chars] /\ cmd[MaxLine] = NUL /\ NUL \in Chars
  BY Indices DEF Chars
<1> PICK b : b = Zeroed(c + 1)
  OBVIOUS
<1>2. /\ b = [x \in 1 .. MaxLine |-> b[x]]
      /\ \A x \in 1 .. MaxLine : b[x] = IF x \in c + 1 .. l THEN NUL ELSE cmd[x]
  BY DEF Zeroed
<1>3. \A x \in 1 .. MaxLine : x \in c + 1 .. l <=> c < x /\ x <= l
  BY <1>1
<1>4. b \in [1 .. MaxLine -> Chars] /\ b[MaxLine] = NUL
  BY <1>1, <1>2, Lengths
<1>5. Valid(b, c, c)
  BY <1>1, <1>4 DEF Valid
<1>6. Filled(cmd, l) => Filled(b, c)
  <2> SUFFICES ASSUME Filled(cmd, l), NEW x \in 1 .. MaxLine
               PROVE  (b[x] = NUL) <=> (x > c)
    BY DEF Filled
  <2>1. (cmd[x] = NUL) <=> (x > l)
    BY DEF Filled
  <2> QED
    BY <1>1, <1>2, <1>3, <2>1
<1>7. \A x \in 1 .. MaxLine : x <= c => b[x] = cmd[x]
  BY <1>1, <1>2, <1>3
<1> QED
  BY <1>5, <1>6, <1>7

\* The buffer is emptied up to the end of its line.
LEMMA ZeroedAll ==
  ASSUME LineOK
  PROVE  Valid(Zeroed(1), 0, 0) /\ (Filled(cmd, l) => Filled(Zeroed(1), 0))
<1>1. 0 \in Nat /\ 0 <= l /\ 0 + 1 = 1
  BY Indices
<1>2. Valid(Zeroed(0 + 1), 0, 0) /\ (Filled(cmd, l) => Filled(Zeroed(0 + 1), 0))
  BY <1>1, ZeroedIs
<1> QED
  BY <1>1, <1>2

LEMMA ClearLineKeeps ==
  ASSUME LineOK, Shows, ClearLine
  PROVE  LineOK' /\ Shows'
<1>1. cmd' = Zeroed(1) /\ l' = 0 /\ cursor' = 0 /\ state' = state /\ Echo(Cleared)
  BY DEF ClearLine, Edited, access
<1>2. LineOK'
  BY <1>1, ZeroedAll, StateKept DEF LineOK
<1>3. IsScreen(Cleared)
  <2>1. \A t, s : IsScreen(Put(t, s))
    BY PutIs
  <2>2. \A t, n : IsScreen(t) => IsScreen(Back(t, n))
    BY BackIs
  <2> QED
    BY <2>1, <2>2 DEF Cleared
<1>4. Prompting => Pictures(Cleared, cmd', l', cursor')
  BY <1>1, ClearedShows
<1>5. Shows'
  BY <1>1, <1>3, <1>4, EchoKeeps
<1> QED
  BY <1>2, <1>5

LEMMA KillToEndKeeps ==
  ASSUME LineOK, Shows, KillToEnd
  PROVE  LineOK' /\ Shows'
<1>1. /\ cmd' = Zeroed(cursor + 1) /\ l' = cursor /\ cursor' = cursor /\ state' = state
      /\ Echo(Back(Put(screen, Blanks(l - cursor)), l - cursor))
  BY DEF KillToEnd, Edited, access
<1>2. l \in Nat /\ cursor \in Nat /\ cursor <= l /\ MaxLine \in Nat
  BY Indices
<1>3. /\ Valid(cmd', l', cursor') /\ (Filled(cmd, l) => Filled(cmd', l'))
      /\ \A x \in 1 .. MaxLine : x <= cursor => cmd'[x] = cmd[x]
  BY <1>1, <1>2, ZeroedIs
<1>4. LineOK'
  BY <1>1, <1>3, StateKept DEF LineOK
<1> PICK k \in Nat : k = l - cursor
  BY <1>2
<1> PICK v : v = Back(Put(screen, Blanks(k)), k)
  OBVIOUS
<1>5. IsScreen(v)
  BY DEF Back, Put, IsScreen
<1>6. ASSUME Prompting
      PROVE  Pictures(v, cmd', l', cursor')
  <2>1. /\ At(screen, cursor)
        /\ \A x \in 1 .. MaxLine : screen.cells[x] = IF x <= l THEN cmd[x] ELSE Blank
    BY <1>2, <1>6 DEF Shows, Pictures, At
  <2>2. At(v, cursor) /\ Blanked(v, screen, cursor, cursor + k)
    BY <1>2, <2>1, BlankedIs
  <2>3. cursor + k = l
    BY <1>2
  <2>4. ASSUME NEW x \in 1 .. MaxLine
        PROVE  v.cells[x] = IF x <= cursor THEN cmd'[x] ELSE Blank
    <3>1. v.cells[x] = IF cursor < x /\ x <= l THEN Blank ELSE screen.cells[x]
      BY <2>2, <2>3 DEF Blanked
    <3> QED
      BY <1>2, <1>3, <2>1, <3>1
  <2> QED
    BY <1>1, <2>2, <2>4 DEF Pictures, At
<1>7. Shows'
  BY <1>1, <1>5, <1>6, EchoKeeps
<1> QED
  BY <1>4, <1>7

\* The cursor is moved inside the line.
LEMMA Moved ==
  ASSUME LineOK, Shows, NEW t, IsScreen(t), Echo(t), UNCHANGED <<cmd, l, state>>,
         cursor' \in Nat, cursor' <= l,
         Prompting => Pictures(t, cmd, l, cursor')
  PROVE  LineOK' /\ Shows'
<1>1. l \in Nat /\ Valid(cmd, l, cursor)
  BY Indices DEF LineOK
<1>2. Valid(cmd', l', cursor')
  BY <1>1 DEF Valid
<1>3. LineOK'
  BY <1>2, StateKept DEF LineOK, Filled
<1>4. Shows'
  BY EchoKeeps
<1> QED
  BY <1>3, <1>4

\* The cursor is moved back without a change of the cells.
LEMMA BackInside ==
  ASSUME NEW t, NEW b, NEW n, NEW c \in Nat, NEW k \in Nat, IsScreen(t), Pictures(t, b, n, c)
  PROVE  IsScreen(Back(t, k)) /\ Pictures(Back(t, k), b, n, c - k)
<1>1. IsScreen(Back(t, k)) /\ Back(t, k).at = t.at - k /\ Back(t, k).cells = t.cells
  BY BackIs
<1> QED
  BY <1>1 DEF Pictures

\* The part of the line from the cursor to m.
LEMMA PartAhead ==
  ASSUME LineOK, NEW m \in Nat, cursor <= m, m <= l
  PROVE  IsPart(SubSeq(cmd, cursor + 1, m), cmd, cursor, m)
BY Indices, PartIs

LEMMA MotionKeeps ==
  ASSUME LineOK, Shows, Motion
  PROVE  LineOK' /\ Shows'
<1>1. UNCHANGED <<cmd, l, state>>
  BY DEF Motion, Edited, access
<1>2. /\ l \in Nat /\ cursor \in Nat /\ cursor <= l
      /\ IsScreen(screen) /\ (Prompting => Pictures(screen, cmd, l, cursor))
  BY Indices DEF Shows
<1>3. ASSUME NEW m \in Nat, cursor' = m, cursor <= m, m <= l,
             Echo(Put(screen, SubSeq(cmd, cursor + 1, m)))
      PROVE  LineOK' /\ Shows'
  <2> PICK s : s = SubSeq(cmd, cursor + 1, m) /\ IsPart(s, cmd, cursor, m)
    BY <1>3, PartAhead
  <2>1. Echo(Put(screen, s)) /\ IsScreen(Put(screen, s))
    BY <1>3, PutIs
  <2>2. Prompting => Pictures(Put(screen, s), cmd, l, m)
    BY <1>2, <1>3, PutOver
  <2> QED
    BY <1>1, <1>3, <2>1, <2>2, Moved
<1>4. ASSUME NEW k \in Nat, k <= cursor, cursor' = cursor - k, Echo(Back(screen, k))
      PROVE  LineOK' /\ Shows'
  <2>1. /\ IsScreen(Back(screen, k))
        /\ Prompting => Pictures(Back(screen, k), cmd, l, cursor')
    BY <1>2, <1>4, BackIs, BackInside
  <2>2. cursor' \in Nat /\ cursor' <= l
    BY <1>2, <1>4
  <2> QED
    BY <1>1, <1>4, <2>1, <2>2, Moved
<1>5. CASE /\ cursor' = IF cursor > 0 THEN cursor - 1 ELSE 0
           /\ Echo(Back(screen, cursor - cursor'))
  <2> PICK k \in Nat : k = cursor - cursor' /\ k <= cursor /\ cursor' = cursor - k
    BY <1>2, <1>5
  <2> QED
    BY <1>4, <1>5
<1>6. CASE /\ cursor' = IF cursor < l THEN cursor + 1 ELSE cursor
           /\ Echo(Put(screen, SubSeq(cmd, cursor + 1, cursor')))
  <2>1. cursor' \in Nat /\ cursor <= cursor' /\ cursor' <= l
    BY <1>2, <1>6
  <2> QED
    BY <1>3, <1>6, <2>1
<1>7. CASE cursor' = 0 /\ Echo([screen EXCEPT !.at = 0])
  <2> PICK t : t = [screen EXCEPT !.at = 0]
    OBVIOUS
  <2> PICK cells, at : screen = [cells |-> cells, at |-> at]
    BY <1>2 DEF IsScreen
  <2>1. IsScreen(t) /\ t.at = 0 /\ t.cells = screen.cells
    BY DEF IsScreen
  <2>2. Prompting => Pictures(t, cmd, l, 0)
    BY <1>2, <2>1 DEF Pictures
  <2> QED
    BY <1>1, <1>2, <1>7, <2>1, <2>2, Moved
<1>8. CASE cursor' = l /\ Echo(Put(screen, Ahead))
  BY <1>2, <1>3, <1>8 DEF Ahead
<1> QED
  BY <1>5, <1>6, <1>7, <1>8 DEF Motion

LEMMA RedrawKeeps ==
  ASSUME LineOK, Shows, UNCHANGED <<cmd, l, cursor, state>>, Echo(Redrawn(cmd, l, cursor))
  PROVE  LineOK' /\ Shows'
<1>1. IsScreen(Redrawn(cmd, l, cursor)) /\ Pictures(Redrawn(cmd, l, cursor), cmd, l, cursor)
  BY RedrawnShows DEF LineOK
<1>2. LineOK'
  BY StateKept DEF LineOK
<1> PICK t : t = Redrawn(cmd, l, cursor)
  OBVIOUS
<1>3. Shows'
  BY <1>1, EchoKeeps
<1> QED
  BY <1>2, <1>3

-----------------------------------------------------------------------------
(* Erasing.                                                                *)

\* A set of natural numbers with an upper bound has a greatest element.
LEMMA NatMax ==
  ASSUME NEW n \in Nat, NEW S \in SUBSET (0 .. n), S # {}
  PROVE  \E m \in S : \A k \in S : k <= m
<1> DEFINE T == {k \in Nat : k <= n /\ n - k \in S}
<1>1. T \in SUBSET Nat /\ T # {}
  <2> PICK k \in S : TRUE
    OBVIOUS
  <2>1. n - k \in Nat /\ n - k <= n /\ n - (n - k) = k
    OBVIOUS
  <2> QED
    BY <2>1
<1>2. PICK j \in T : \A k \in T : j <= k
  <2> HIDE DEF T
  <2> QED
    BY <1>1, NatMin
<1>3. \A k \in S : n - k \in T
  <2> TAKE k \in S
  <2>1. n - k \in Nat /\ n - k <= n /\ n - (n - k) = k
    OBVIOUS
  <2> QED
    BY <2>1
<1>4. \A k \in S : k <= n - j
  <2> TAKE k \in S
  <2>1. j <= n - k
    BY <1>2, <1>3
  <2> QED
    BY <2>1
<1> QED
  BY <1>4

\* The last word of the c characters ends at e and begins after w.
WordEnds(c, e) ==
  /\ e \in 0 .. c
  /\ e = 0 \/ cmd[e] # Blank
  /\ \A y \in e + 1 .. c : cmd[y] = Blank
WordBegins(e, w) ==
  /\ w \in 0 .. e
  /\ w = 0 \/ cmd[w] = Blank
  /\ \A y \in w + 1 .. e : cmd[y] # Blank

\* The greatest of the positions that hold or are 0 is followed by others.
LEMMA LastOf ==
  ASSUME NEW n \in Nat, NEW P \in SUBSET (1 .. n)
  PROVE  \E m \in 0 .. n : (m = 0 \/ m \in P) /\ \A y \in m + 1 .. n : y \notin P
<1> DEFINE S == P \cup {0}
<1>1. S \in SUBSET (0 .. n) /\ S # {}
  OBVIOUS
<1>2. PICK m \in S : \A k \in S : k <= m
  <2> HIDE DEF S
  <2> QED
    BY <1>1, NatMax
<1>3. m \in 0 .. n /\ (m = 0 \/ m \in P)
  BY <1>1
<1>4. \A y \in m + 1 .. n : y \notin P
  <2> TAKE y \in m + 1 .. n
  <2>1. ~(y <= m)
    BY <1>3
  <2> QED
    BY <1>2, <2>1
<1> QED
  BY <1>3, <1>4

LEMMA WordStartBegins ==
  ASSUME LineOK
  PROVE  \E e : WordEnds(cursor, e) /\ WordBegins(e, WordStart)
<1> DEFINE End == CHOOSE x \in 0 .. cursor :
                    /\ x = 0 \/ cmd[x] # Blank
                    /\ \A y \in x + 1 .. cursor : ~(cmd[y] # Blank)
<1>1. cursor \in Nat
  BY Indices
<1>2. End \in 0 .. cursor /\ (End = 0 \/ cmd[End] # Blank)
      /\ \A y \in End + 1 .. cursor : ~(cmd[y] # Blank)
  <2> DEFINE P == {x \in 1 .. cursor : cmd[x] # Blank}
  <2>1. PICK m \in 0 .. cursor : (m = 0 \/ m \in P) /\ \A y \in m + 1 .. cursor : y \notin P
    <3>1. P \in SUBSET (1 .. cursor)
      OBVIOUS
    <3> HIDE DEF P
    <3> QED
      BY <1>1, <3>1, LastOf
  <2>2. \A y \in m + 1 .. cursor : y \in 1 .. cursor
    BY <1>1
  <2>3. /\ m = 0 \/ cmd[m] # Blank
        /\ \A y \in m + 1 .. cursor : ~(cmd[y] # Blank)
    BY <2>1, <2>2
  <2> QED
    BY <2>3
<1> DEFINE Start(z) == CHOOSE x \in 0 .. z :
                         /\ x = 0 \/ ~(cmd[x] # Blank)
                         /\ \A y \in x + 1 .. z : cmd[y] # Blank
<1>3. ASSUME NEW e \in Nat
      PROVE  /\ Start(e) \in 0 .. e /\ (Start(e) = 0 \/ ~(cmd[Start(e)] # Blank))
             /\ \A y \in Start(e) + 1 .. e : cmd[y] # Blank
  <2> DEFINE P == {x \in 1 .. e : cmd[x] = Blank}
  <2>1. PICK m \in 0 .. e : (m = 0 \/ m \in P) /\ \A y \in m + 1 .. e : y \notin P
    <3>1. P \in SUBSET (1 .. e)
      OBVIOUS
    <3> HIDE DEF P
    <3> QED
      BY <3>1, LastOf
  <2>2. \A y \in m + 1 .. e : y \in 1 .. e
    OBVIOUS
  <2>3. /\ m = 0 \/ ~(cmd[m] # Blank)
        /\ \A y \in m + 1 .. e : cmd[y] # Blank
    BY <2>1, <2>2
  <2> QED
    BY <2>3
<1>4. WordStart = Start(End)
  BY DEF WordStart
<1>5. WordEnds(cursor, End)
  <2> HIDE DEF End
  <2> QED
    BY <1>2 DEF WordEnds
<1>6. WordBegins(End, Start(End))
  <2> HIDE DEF End
  <2>1. End \in Nat
    BY <1>1, <1>2
  <2> HIDE DEF Start
  <2> QED
    BY <1>3, <2>1 DEF WordBegins
<1> HIDE DEF End, Start
<1> QED
  BY <1>4, <1>5, <1>6

\* The word before the cursor begins before it.
LEMMA WordStartIs ==
  ASSUME LineOK
  PROVE  WordStart \in 0 .. cursor /\ (cursor > 0 => WordStart < cursor)
<1>1. cursor \in Nat
  BY Indices
<1>2. PICK e : WordEnds(cursor, e) /\ WordBegins(e, WordStart)
  BY WordStartBegins
<1> PICK w : w = WordStart
  OBVIOUS
<1>3. e \in 0 .. cursor /\ w \in 0 .. e
  BY <1>2 DEF WordEnds, WordBegins
<1>4. e = 0 \/ w # e
  BY <1>2 DEF WordEnds, WordBegins
<1> QED
  BY <1>1, <1>3, <1>4

LEMMA ErasedIs ==
  ASSUME LineOK, NEW n \in Nat, n <= cursor
  PROVE  /\ Valid(Erased(n), l - n, cursor - n)
         /\ ~Hidden => Filled(Erased(n), l - n)
         /\ ~Hidden => \A x \in 1 .. MaxLine :
                         /\ x <= cursor - n => Erased(n)[x] = cmd[x]
                         /\ cursor - n < x /\ x <= l - n => Erased(n)[x] = cmd[x + n]
<1>1. /\ l \in Nat /\ cursor \in Nat /\ cursor <= l /\ l <= Room
      /\ MaxLine \in Nat /\ MaxLine = Room + 1 /\ Room \in Nat
      /\ cmd \in [1 .. MaxLine -> Chars] /\ cmd[MaxLine] = NUL /\ NUL \in Chars
  BY Indices DEF Chars
<1> PICK b : b = Erased(n)
  OBVIOUS
<1>2. ASSUME NEW x \in 1 .. MaxLine
      PROVE  b[x] = IF cursor < l /\ Hidden THEN cmd[x]
                    ELSE IF x <= cursor - n THEN cmd[x]
                    ELSE IF x <= l - n THEN cmd[x + n]
                    ELSE IF x <= l THEN NUL ELSE cmd[x]
  <2>1. /\ x \in cursor - n + 1 .. l - n <=> cursor - n < x /\ x <= l - n
        /\ x \in l - n + 1 .. l <=> l - n < x /\ x <= l
        /\ x <= cursor - n => x <= l - n
    BY <1>1
  <2>2. b[x] = IF cursor < l /\ Hidden THEN cmd[x]
               ELSE CASE x <= cursor - n -> cmd[x]
                      [] x \in cursor - n + 1 .. l - n -> cmd[x + n]
                      [] x \in l - n + 1 .. l -> NUL
                      [] OTHER -> cmd[x]
    BY DEF Erased
  <2>3. cursor - n \in Int /\ l - n \in Int /\ x \in Int /\ l \in Int
    BY <1>1
  <2>4. /\ ~(x <= cursor - n) <=> cursor - n < x
        /\ ~(x <= l - n) <=> l - n < x
    BY <2>3
  <2> QED
    BY <2>1, <2>2, <2>4
<1>3. \A x \in 1 .. MaxLine : x <= l - n => x + n \in 1 .. MaxLine
  BY <1>1
<1>4. b \in [1 .. MaxLine -> Chars]
  <2>1. b = [x \in 1 .. MaxLine |-> b[x]]
    BY DEF Erased
  <2>2. \A x \in 1 .. MaxLine : b[x] \in Chars
    BY <1>1, <1>2, <1>3
  <2> QED
    BY <2>1, <2>2
<1>5. b[MaxLine] = NUL
  <2>1. MaxLine \in 1 .. MaxLine /\ ~(MaxLine <= cursor - n) /\ ~(MaxLine <= l - n) /\ ~(MaxLine <= l)
    BY <1>1
  <2> QED
    BY <1>1, <1>2, <2>1
<1>6. Valid(b, l - n, cursor - n)
  <2>1. l - n \in 0 .. Room /\ cursor - n \in 0 .. l - n
    BY <1>1
  <2> QED
    BY <1>4, <1>5, <2>1 DEF Valid
<1>7. ASSUME ~Hidden PROVE Filled(b, l - n)
  <2> SUFFICES ASSUME NEW x \in 1 .. MaxLine
               PROVE  (b[x] = NUL) <=> (x > l - n)
    BY DEF Filled
  <2>1. (cmd[x] = NUL) <=> (x > l)
    BY <1>7 DEF LineOK, Filled
  <2>2. x <= l - n => ((cmd[x + n] = NUL) <=> (x + n > l))
    BY <1>3, <1>7 DEF LineOK, Filled
  <2>3. /\ x <= cursor - n => x <= l - n /\ x <= l
        /\ x <= l - n => ~(x + n > l)
        /\ x <= l - n <=> ~(x > l - n)
        /\ x <= l <=> ~(x > l)
        /\ x <= l - n => x <= l
    BY <1>1
  <2> QED
    BY <1>2, <1>7, <2>1, <2>2, <2>3
<1>8. ASSUME ~Hidden, NEW x \in 1 .. MaxLine
      PROVE  /\ x <= cursor - n => b[x] = cmd[x]
             /\ cursor - n < x /\ x <= l - n => b[x] = cmd[x + n]
  <2>1. cursor - n < x <=> ~(x <= cursor - n)
    BY <1>1
  <2> QED
    BY <1>2, <1>8, <2>1
<1> QED
  BY <1>6, <1>7, <1>8

\* The terminal after m rounds of erasing a character.
Shifted(t, m) ==
  /\ IsScreen(t)
  /\ At(t, cursor - m)
  /\ \A x \in 1 .. MaxLine :
       t.cells[x] = IF x <= cursor - m THEN cmd[x]
                    ELSE IF x <= l - m THEN cmd[x + m] ELSE Blank

\* A round: back, the rest of the line, a blank, and back.
Round(t) == Back(Put(Back(t, 1), Ahead \o <<Blank>>), Len(Ahead) + 1)

LEMMA RoundShifts ==
  ASSUME LineOK, NEW t, NEW m \in Nat, m < cursor, Shifted(t, m)
  PROVE  Shifted(Round(t), m + 1)
<1>1. /\ l \in Nat /\ cursor \in Nat /\ cursor <= l /\ l <= Room
      /\ MaxLine \in Nat /\ MaxLine = Room + 1 /\ Room \in Nat
  BY Indices
<1>2. IsPart(Ahead, cmd, cursor, l)
  BY <1>1, PartAhead DEF Ahead
<1> PICK rest : rest = Ahead
  OBVIOUS
<1>3. /\ Len(rest) = l - cursor /\ rest \in Seq(Chars)
      /\ \A x \in 1 .. l - cursor : rest[x] = cmd[cursor + x]
  BY <1>2 DEF IsPart
<1> PICK s : s = rest \o <<Blank>>
  OBVIOUS
<1>4. /\ Len(s) = l - cursor + 1 /\ s[l - cursor + 1] = Blank
      /\ \A x \in 1 .. l - cursor : s[x] = cmd[cursor + x]
  <2> PICK k \in Nat : k = l - cursor
    BY <1>1
  <2>1. Len(rest) = k /\ rest \in Seq(Chars) /\ <<Blank>> \in Seq(Chars) /\ Len(<<Blank>>) = 1
    BY <1>3, Lengths DEF Chars
  <2>2. Len(s) = k + 1
    BY <2>1
  <2>3. \A x \in 1 .. k + 1 : s[x] = IF x <= k THEN rest[x] ELSE <<Blank>>[x - k]
    BY <2>1
  <2>4. s[k + 1] = Blank
    <3>1. k + 1 \in 1 .. k + 1 /\ ~(k + 1 <= k) /\ (k + 1) - k = 1
      OBVIOUS
    <3>2. <<Blank>>[1] = Blank
      OBVIOUS
    <3> QED
      BY <2>3, <3>1, <3>2
  <2>5. \A x \in 1 .. k : s[x] = rest[x]
    <3> TAKE x \in 1 .. k
    <3>1. x \in 1 .. k + 1 /\ x <= k
      OBVIOUS
    <3> HIDE <2>1
    <3> QED
      BY <2>3, <3>1
  <2> QED
    BY <1>3, <2>2, <2>4, <2>5
<1> PICK u : u = Back(t, 1)
  OBVIOUS
<1>5. u.at = t.at - 1 /\ u.cells = t.cells
  BY BackIs DEF Shifted
<1>6. t.at = cursor - m
  BY DEF Shifted, At
<1> PICK d : d \in Nat /\ d = cursor - m - 1
  BY <1>1
<1>7. u.at = d
  BY <1>1, <1>5, <1>6
<1> PICK v : v = Put(u, s)
  OBVIOUS
<1>8. /\ IsScreen(v) /\ v.at = u.at + Len(s)
      /\ \A x \in 1 .. MaxLine :
           v.cells[x] = IF x \in u.at + 1 .. u.at + Len(s) THEN s[x - u.at] ELSE u.cells[x]
  BY PutIs
<1> PICK w : w = Back(v, l - cursor + 1)
  OBVIOUS
<1>9. IsScreen(w) /\ w.at = v.at - (l - cursor + 1) /\ w.cells = v.cells
  BY <1>8, BackIs
<1>10. w.at = d /\ d = cursor - (m + 1) /\ d + (l - cursor + 1) = l - m
  BY <1>1, <1>4, <1>7, <1>8, <1>9
<1>11. ASSUME NEW x \in 1 .. MaxLine
       PROVE  w.cells[x] = IF x <= d THEN cmd[x]
                           ELSE IF x <= l - (m + 1) THEN cmd[x + (m + 1)] ELSE Blank
  <2>1. w.cells[x] = IF x \in d + 1 .. l - m THEN s[x - d] ELSE t.cells[x]
    BY <1>4, <1>5, <1>7, <1>8, <1>9, <1>10
  <2>2. t.cells[x] = IF x <= cursor - m THEN cmd[x]
                     ELSE IF x <= l - m THEN cmd[x + m] ELSE Blank
    BY DEF Shifted
  <2>3. CASE x <= d
    <3>1. x \notin d + 1 .. l - m /\ x <= cursor - m
      BY <1>1, <2>3
    <3> QED
      BY <2>1, <2>2, <2>3, <3>1
  <2>4. CASE d < x /\ x <= l - (m + 1)
    <3>1. x \in d + 1 .. l - m /\ x - d \in 1 .. l - cursor /\ cursor + (x - d) = x + (m + 1)
      BY <1>1, <2>4
    <3>2. ~(x <= d)
      BY <1>1, <2>4
    <3> QED
      BY <1>4, <2>1, <2>4, <3>1, <3>2
  <2>5. CASE d < x /\ x = l - m
    <3>1. x \in d + 1 .. l - m /\ x - d = l - cursor + 1 /\ ~(x <= d) /\ ~(x <= l - (m + 1))
      BY <1>1, <2>5
    <3> QED
      BY <1>4, <2>1, <3>1
  <2>6. CASE l - m < x
    <3>1. x \notin d + 1 .. l - m /\ ~(x <= cursor - m) /\ ~(x <= l - m)
          /\ ~(x <= d) /\ ~(x <= l - (m + 1))
      BY <1>1, <2>6
    <3> QED
      BY <2>1, <2>2, <3>1
  <2> QED
    BY <1>1, <2>3, <2>4, <2>5, <2>6
<1>12. Shifted(w, m + 1)
  BY <1>9, <1>10, <1>11 DEF Shifted, At
<1>13. Round(t) = w
  BY <1>3 DEF Round
<1> QED
  BY <1>12, <1>13

\* The equation of the recursive function behind EraseEcho.
IsEcho(f, n) == f = [m \in 0 .. n |-> IF m = 0 THEN screen ELSE Round(f[m - 1])]

LEMMA EchoExists ==
  ASSUME NEW n \in Nat
  PROVE  \E f : IsEcho(f, n)
<1> DEFINE S == {k \in Nat : \E f : IsEcho(f, k)}
<1>1. 0 \in S
  <2> DEFINE f == [m \in 0 .. 0 |-> screen]
  <2>1. IsEcho(f, 0)
    BY DEF IsEcho
  <2> HIDE DEF f
  <2> QED
    BY <2>1
<1>2. ASSUME NEW k \in Nat, k \in S PROVE k + 1 \in S
  <2>1. PICK f : IsEcho(f, k)
    BY <1>2
  <2> DEFINE g == [m \in 0 .. k + 1 |-> IF m = k + 1 THEN Round(f[k]) ELSE f[m]]
  <2>2. \A m \in 0 .. k : m \in 0 .. k + 1 /\ g[m] = f[m]
    OBVIOUS
  <2>3. ASSUME NEW m \in 0 .. k + 1
        PROVE  g[m] = IF m = 0 THEN screen ELSE Round(g[m - 1])
    <3>1. CASE m = k + 1
      <4>1. m # 0 /\ m - 1 = k /\ k \in 0 .. k
        BY <3>1
      <4>2. g[m - 1] = f[k] /\ g[m] = Round(f[k])
        BY <2>2, <3>1, <4>1
      <4> HIDE DEF g
      <4> QED
        BY <4>1, <4>2
    <3>2. CASE m # k + 1
      <4>1. m \in 0 .. k /\ (m # 0 => m - 1 \in 0 .. k)
        BY <3>2
      <4>2. f[m] = IF m = 0 THEN screen ELSE Round(f[m - 1])
        BY <2>1, <4>1 DEF IsEcho
      <4> HIDE DEF g
      <4> QED
        BY <2>2, <4>1, <4>2
    <3> QED
      BY <3>1, <3>2
  <2>4. IsEcho(g, k + 1)
    <3>1. g = [m \in 0 .. k + 1 |-> g[m]]
      OBVIOUS
    <3> HIDE DEF g
    <3> QED
      BY <2>3, <3>1 DEF IsEcho
  <2> HIDE DEF g
  <2> QED
    BY <2>4
<1> HIDE DEF S
<1>3. \A k \in Nat : k \in S
  BY <1>1, <1>2, NatInd
<1> QED
  BY <1>3 DEF S

\* What the rounds write amounts to erasing n characters before the cursor.
LEMMA EraseEchoIs ==
  ASSUME LineOK, Shows, Prompting, NEW n \in Nat, n <= cursor
  PROVE  Shifted(EraseEcho(n), n)
<1>1. cursor \in Nat /\ l \in Nat /\ MaxLine \in Nat
  BY Indices
<1> DEFINE t == CHOOSE f : f = [m \in 0 .. n |->
                  IF m = 0 THEN screen
                  ELSE Back(Put(Back(f[m - 1], 1), Ahead \o <<Blank>>), Len(Ahead) + 1)]
<1>2. IsEcho(t, n)
  BY EchoExists DEF IsEcho, Round
<1>3. EraseEcho(n) = t[n]
  BY DEF EraseEcho
<1> HIDE DEF t
<1> DEFINE S == {m \in Nat : m <= n => Shifted(t[m], m)}
<1>4. 0 \in S
  <2>1. Shifted(screen, 0)
    <3>1. /\ IsScreen(screen) /\ screen.at = cursor
          /\ \A x \in 1 .. MaxLine : screen.cells[x] = IF x <= l THEN cmd[x] ELSE Blank
      BY DEF Shows, Pictures
    <3>2. cursor - 0 = cursor /\ l - 0 = l /\ \A x \in 1 .. MaxLine : x + 0 = x
      BY <1>1
    <3>3. \A x \in 1 .. MaxLine : x <= cursor => x <= l
      BY Indices
    <3> QED
      BY <1>1, <3>1, <3>2, <3>3 DEF Shifted, At
  <2>2. t[0] = screen
    BY <1>2 DEF IsEcho
  <2> QED
    BY <2>1, <2>2
<1>5. \A m \in Nat : m \in S => m + 1 \in S
  <2> SUFFICES ASSUME NEW m \in Nat, m \in S, m + 1 <= n
               PROVE  Shifted(t[m + 1], m + 1)
    OBVIOUS
  <2>1. Shifted(t[m], m) /\ m < cursor
    BY <1>1
  <2>2. m + 1 \in 0 .. n /\ m + 1 # 0 /\ (m + 1) - 1 = m
    OBVIOUS
  <2>3. t[m + 1] = Round(t[m])
    BY <1>2, <2>2 DEF IsEcho
  <2> QED
    BY <2>1, <2>3, RoundShifts
<1> HIDE DEF S
<1>6. \A m \in Nat : m \in S
  BY <1>4, <1>5, NatInd
<1>7. Shifted(t[n], n)
  BY <1>6 DEF S
<1> QED
  BY <1>3, <1>7

LEMMA EraseKeeps ==
  ASSUME LineOK, Shows, NEW k, Erase(k)
  PROVE  LineOK' /\ Shows'
<1> PICK n : n = IF k = "^W" THEN cursor - WordStart ELSE 1
  OBVIOUS
<1>1. /\ cursor > 0 /\ cmd' = Erased(n) /\ l' = l - n /\ cursor' = cursor - n
      /\ state' = state /\ Echo(EraseEcho(n))
  BY DEF Erase, Edited, access
<1>2. /\ l \in Nat /\ cursor \in Nat /\ cursor <= l /\ l <= Room
      /\ MaxLine \in Nat /\ MaxLine = Room + 1 /\ Room \in Nat
  BY Indices
<1>3. n \in Nat /\ n <= cursor
  BY <1>1, <1>2, WordStartIs
<1>4. LineOK'
  BY <1>1, <1>3, ErasedIs, StateKept DEF LineOK
<1> PICK t : t = EraseEcho(n)
  OBVIOUS
<1>5. ASSUME Prompting
      PROVE  IsScreen(t) /\ Pictures(t, cmd', l', cursor')
  <2>1. ~Hidden
    BY <1>5 DEF Prompting, Hidden
  <2>2. Shifted(t, n)
    BY <1>3, <1>5, EraseEchoIs
  <2>3. ASSUME NEW x \in 1 .. MaxLine
        PROVE  t.cells[x] = IF x <= l' THEN cmd'[x] ELSE Blank
    <3>1. t.cells[x] = IF x <= cursor - n THEN cmd[x]
                       ELSE IF x <= l - n THEN cmd[x + n] ELSE Blank
      BY <2>2 DEF Shifted
    <3>2. /\ x <= cursor - n => cmd'[x] = cmd[x]
          /\ cursor - n < x /\ x <= l - n => cmd'[x] = cmd[x + n]
      BY <1>1, <1>3, <2>1, ErasedIs
    <3>3. (x <= cursor - n => x <= l - n) /\ (cursor - n < x <=> ~(x <= cursor - n))
      BY <1>2, <1>3
    <3> QED
      BY <1>1, <3>1, <3>2, <3>3
  <2> QED
    BY <1>1, <2>2, <2>3 DEF Shifted, Pictures, At
<1>6. Shows'
  <2>1. CASE Prompting
    BY <1>1, <1>5, <2>1, EchoKeeps
  <2>2. CASE ~Prompting
    BY <1>1, <2>2, EchoQuiet
  <2> QED
    BY <2>1, <2>2
<1> QED
  BY <1>4, <1>6

-----------------------------------------------------------------------------
(* Lines, and the texts that replace one.                                  *)

LEMMA LinesAre ==
  ASSUME NEW s
  PROVE  s \in Lines <=> s \in Seq(Text) /\ Len(s) <= Room
<1>1. Room \in Nat
  BY Lengths
<1>2. ASSUME s \in Lines PROVE s \in Seq(Text) /\ Len(s) <= Room
  <2> PICK n \in 0 .. Room : s \in [1 .. n -> Text]
    BY <1>2 DEF Lines
  <2>1. n \in Nat /\ n <= Room
    BY <1>1
  <2>2. s \in Seq(Text)
    BY <2>1, SeqDef
  <2>3. Len(s) = n
    BY <2>1
  <2> QED
    BY <2>1, <2>2, <2>3
<1>3. ASSUME s \in Seq(Text), Len(s) <= Room PROVE s \in Lines
  <2> PICK n \in Nat : n = Len(s)
    BY <1>3
  <2>1. s \in [1 .. n -> Text] /\ n \in 0 .. Room
    BY <1>1, <1>3
  <2> QED
    BY <2>1 DEF Lines
<1> QED
  BY <1>2, <1>3

\* Outside a hidden entry the characters of the line are text.
LEMMA LineIsText ==
  ASSUME LineOK, ~Hidden, NEW x \in 1 .. l
  PROVE  x \in 1 .. MaxLine /\ cmd[x] \in Text
<1>1. x \in 1 .. MaxLine /\ ~(x > l) /\ cmd[x] \in Chars
  BY Indices
<1> QED
  BY <1>1 DEF LineOK, Filled, Chars

\* A sequence of characters without NUL is a text.
LEMMA TextOf ==
  ASSUME NEW s \in Seq(Chars), NEW n \in Nat, Len(s) = n, \A x \in 1 .. n : s[x] \in Text
  PROVE  s \in Seq(Text)
<1>1. s = [x \in 1 .. n |-> s[x]]
  <2>1. PICK k \in Nat : s \in [1 .. k -> Chars]
    BY SeqDef
  <2>2. Len(s) = k
    BY <2>1
  <2> QED
    BY <2>1, <2>2
<1>2. s \in [1 .. n -> Text]
  BY <1>1
<1> QED
  BY <1>2, SeqDef

\* A part of the line, as a text.
LEMMA PartIsText ==
  ASSUME LineOK, ~Hidden, NEW c \in Nat, NEW m \in Nat, c <= m, m <= l
  PROVE  /\ SubSeq(cmd, c + 1, m) \in Seq(Text) /\ Len(SubSeq(cmd, c + 1, m)) = m - c
         /\ \A x \in 1 .. m - c : SubSeq(cmd, c + 1, m)[x] = cmd[c + x]
<1>1. l \in Nat /\ m <= MaxLine /\ cmd \in [1 .. MaxLine -> Chars] /\ MaxLine \in Nat
  BY Indices
<1> PICK s : s = SubSeq(cmd, c + 1, m) /\ IsPart(s, cmd, c, m)
  BY <1>1, PartIs
<1>2. s \in Seq(Chars) /\ Len(s) = m - c /\ \A x \in 1 .. m - c : s[x] = cmd[c + x]
  BY DEF IsPart
<1> PICK n \in Nat : n = m - c
  OBVIOUS
<1>3. \A x \in 1 .. n : s[x] \in Text
  <2> TAKE x \in 1 .. n
  <2>1. c + x \in 1 .. l
    BY <1>1
  <2>2. cmd[c + x] \in Text
    BY <2>1, LineIsText
  <2> QED
    BY <1>2, <2>2
<1>4. s \in Seq(Text)
  BY <1>2, <1>3, TextOf
<1> QED
  BY <1>2, <1>4

LEMMA EnteredIs ==
  ASSUME LineOK
  PROVE  /\ Entered \in Lines
         /\ ~Hidden => Entered = SubSeq(cmd, 1, l)
<1> DEFINE P(x) == cmd[x] = NUL /\ \A y \in 1 .. x - 1 : cmd[y] # NUL
           end == CHOOSE x \in 1 .. MaxLine : P(x)
<1>1. /\ MaxLine \in Nat /\ MaxLine = Room + 1 /\ Room \in Nat /\ l \in Nat /\ l <= Room
      /\ cmd \in [1 .. MaxLine -> Chars] /\ cmd[MaxLine] = NUL
  BY Indices
<1>2. \E x \in 1 .. MaxLine : P(x)
  <2> DEFINE S == {x \in 1 .. MaxLine : cmd[x] = NUL}
  <2>1. S \in SUBSET Nat /\ MaxLine \in S
    BY <1>1, Lengths
  <2>2. PICK m \in S : \A k \in S : m <= k
    <3> HIDE DEF S
    <3> QED
      BY <2>1, NatMin
  <2>3. m \in 1 .. MaxLine /\ cmd[m] = NUL
    OBVIOUS
  <2>4. \A y \in 1 .. m - 1 : y \in 1 .. MaxLine /\ ~(m <= y)
    BY <1>1, <2>3
  <2>5. \A y \in 1 .. m - 1 : cmd[y] # NUL
    BY <2>2, <2>4
  <2> QED
    BY <2>3, <2>5
<1>3. end \in 1 .. MaxLine /\ P(end)
  <2> HIDE DEF P
  <2> QED
    BY <1>2
<1>4. Entered = SubSeq(cmd, 1, end - 1)
  BY DEF Entered
<1> HIDE DEF end
<1>5. \A y \in 1 .. end - 1 : y \in 1 .. MaxLine /\ cmd[y] # NUL
  BY <1>1, <1>3
<1>6. Entered \in Lines
  <2> PICK n \in Nat : n = end - 1
    BY <1>1, <1>3
  <2>1. n <= MaxLine /\ n <= Room /\ 0 + 1 = 1 /\ 0 <= n
    BY <1>1, <1>3
  <2>2. IsPart(SubSeq(cmd, 0 + 1, n), cmd, 0, n)
    BY <1>1, <2>1, PartIs
  <2> PICK s : s = SubSeq(cmd, 1, n) /\ IsPart(s, cmd, 0, n)
    BY <2>1, <2>2
  <2>3. s \in Seq(Chars) /\ Len(s) = n /\ \A x \in 1 .. n : s[x] = cmd[x]
    BY DEF IsPart
  <2>4. \A x \in 1 .. n : s[x] \in Text
    <3> TAKE x \in 1 .. n
    <3>1. s[x] = cmd[x] /\ cmd[x] # NUL /\ x \in 1 .. MaxLine
      BY <1>5, <2>3
    <3>2. cmd[x] \in Chars
      BY <1>1, <3>1
    <3> QED
      BY <3>1, <3>2 DEF Chars
  <2>5. s \in Seq(Text)
    BY <2>3, <2>4, TextOf
  <2>6. s \in Lines
    BY <2>1, <2>3, <2>5, LinesAre
  <2> QED
    BY <1>4, <2>6
<1>7. ASSUME ~Hidden PROVE Entered = SubSeq(cmd, 1, l)
  <2>1. \A x \in 1 .. MaxLine : (cmd[x] = NUL) <=> (x > l)
    BY <1>7 DEF LineOK, Filled
  <2>2. end > l
    BY <1>3, <2>1
  <2>3. l + 1 \in 1 .. MaxLine /\ cmd[l + 1] = NUL
    BY <1>1, <2>1
  <2>4. ~(l + 1 \in 1 .. end - 1)
    BY <1>5, <2>3
  <2>5. end - 1 = l
    BY <1>1, <1>3, <2>2, <2>4
  <2> QED
    BY <1>4, <2>5
<1> QED
  BY <1>6, <1>7

\* What is read back from a text that was put into the buffer.
LEMMA EnteredFromBuffer ==
  ASSUME LineOK, ~Hidden, NEW s \in Lines, cmd = Buffer(s), l = Len(s)
  PROVE  Entered = s
<1>1. s \in Seq(Text) /\ Len(s) <= Room
  BY LinesAre
<1>2. \A x \in 1 .. Len(s) : cmd[x] = s[x]
  BY <1>1, BufferIs
<1>3. l \in Nat /\ 0 \in Nat /\ 0 <= l /\ l <= l /\ 0 + 1 = 1
  BY Indices
<1>4. /\ SubSeq(cmd, 0 + 1, l) \in Seq(Text) /\ Len(SubSeq(cmd, 0 + 1, l)) = l - 0
      /\ \A x \in 1 .. l - 0 : SubSeq(cmd, 0 + 1, l)[x] = cmd[0 + x]
  BY <1>3, PartIsText
<1> PICK e : e = SubSeq(cmd, 0 + 1, l)
  OBVIOUS
<1>5. e \in Seq(Text) /\ Len(e) = l /\ \A x \in 1 .. l : e[x] = cmd[x]
  BY <1>3, <1>4
<1>6. \A x \in 1 .. l : e[x] = s[x]
  BY <1>2, <1>5
<1>7. e = s
  BY <1>1, <1>5, <1>6, SeqEqual
<1>8. Entered = SubSeq(cmd, 1, l)
  BY EnteredIs
<1> QED
  BY <1>3, <1>7, <1>8

-----------------------------------------------------------------------------
(* Completion, and the lines of the history.                               *)

\* w goes on after the first n characters of the line.
Continued(w, n) == SubSeq(cmd, 1, n) \o w

LEMMA ContinuedIs ==
  ASSUME LineOK, ~Hidden, NEW w \in Seq(Text), NEW start \in Nat, start <= l
  PROVE  /\ Continued(w, start) \in Seq(Text) /\ Len(Continued(w, start)) = start + Len(w)
         /\ \A x \in 1 .. start + Len(w) :
              Continued(w, start)[x] = IF x <= start THEN cmd[x] ELSE w[x - start]
<1>2. 0 \in Nat /\ 0 <= start /\ start <= l /\ 0 + 1 = 1
  OBVIOUS
<1>3. /\ SubSeq(cmd, 0 + 1, start) \in Seq(Text) /\ Len(SubSeq(cmd, 0 + 1, start)) = start - 0
      /\ \A x \in 1 .. start - 0 : SubSeq(cmd, 0 + 1, start)[x] = cmd[0 + x]
  BY <1>2, PartIsText
<1> PICK s : s = SubSeq(cmd, 1, start)
  OBVIOUS
<1>4. s \in Seq(Text) /\ Len(s) = start /\ \A x \in 1 .. start : s[x] = cmd[x]
  BY <1>2, <1>3
<1> PICK n \in Nat : n = Len(w)
  OBVIOUS
<1> PICK u : u = s \o w
  OBVIOUS
<1>5. u \in Seq(Text) /\ Len(u) = start + n
      /\ \A x \in 1 .. start + n : u[x] = IF x <= start THEN s[x] ELSE w[x - start]
  BY <1>4, ConcatProperties
<1>6. \A x \in 1 .. start + n : u[x] = IF x <= start THEN cmd[x] ELSE w[x - start]
  <2> TAKE x \in 1 .. start + n
  <2>1. x <= start => x \in 1 .. start
    OBVIOUS
  <2>2. u[x] = IF x <= start THEN s[x] ELSE w[x - start]
    BY <1>5
  <2> QED
    BY <1>4, <2>1, <2>2
<1>7. Continued(w, start) = u
  BY DEF Continued
<1> QED
  BY <1>5, <1>6, <1>7

\* A step that leaves the bounds of an array: nothing else is changed.
LEMMA OverrunKeeps ==
  ASSUME LineOK, Shows, ~Hidden, Overrun
  PROVE  LineOK' /\ Shows'
<1>1. UNCHANGED <<cmd, l, cursor, screen>> /\ state' = "overrun"
  BY DEF Overrun, line
<1>2. ~Hidden' /\ ~Prompting'
  BY <1>1 DEF Hidden, Prompting
<1>3. LineOK'
  BY <1>1, <1>2 DEF LineOK
<1>4. screen.at \in 0 .. MaxLine
  <2>1. CASE Prompting
    <3>1. screen.at = cursor
      BY <2>1 DEF Shows, Pictures
    <3> QED
      BY <3>1, Indices
  <2> QED
    BY <2>1 DEF Shows
<1>5. Shows'
  BY <1>1, <1>2, <1>4 DEF Shows
<1> QED
  BY <1>3, <1>5

LEMMA CompletedKeeps ==
  ASSUME LineOK, Shows, NEW w \in Seq(Text), NEW start \in 0 .. l,
         Prompting, cursor = l, Continues(w, start), Completed(w, start),
         start + Len(w) <= Room
  PROVE  LineOK' /\ Shows'
<1> PICK n \in Nat : n = Len(w)
  OBVIOUS
<1>1. /\ state' = state
      /\ cmd' = Buffer(Continued(w, start)) /\ l' = start + n /\ cursor' = l'
      /\ screen' = Put(Back(screen, l - start), w)
  <2>1. ~(start + Len(w) > Room)
    BY Indices
  <2> QED
    BY <2>1 DEF Completed, Continued, Edited, access
<1>2. ~Hidden
  BY DEF Prompting, Hidden
<1>3. /\ l \in Nat /\ MaxLine \in Nat /\ MaxLine = Room + 1 /\ Room \in Nat
      /\ start \in Nat /\ start <= l
  BY Indices
<1>5. l - start <= n /\ start + n <= Room
  BY DEF Continues
<1> PICK s : s = Continued(w, start)
  OBVIOUS
<1>6. /\ s \in Seq(Text) /\ Len(s) = start + n
      /\ \A x \in 1 .. start + n : s[x] = IF x <= start THEN cmd[x] ELSE w[x - start]
  BY <1>2, <1>3, ContinuedIs
<1>7. /\ Valid(cmd', l', cursor') /\ Filled(cmd', l')
      /\ \A x \in 1 .. start + n : cmd'[x] = s[x]
  BY <1>1, <1>5, <1>6, BufferIs
<1>8. LineOK'
  BY <1>7 DEF LineOK
<1>9. /\ IsScreen(screen) /\ screen.at = l
      /\ \A x \in 1 .. MaxLine : screen.cells[x] = IF x <= l THEN cmd[x] ELSE Blank
  BY <1>1 DEF Shows, Pictures
<1> PICK u : u = Back(screen, l - start)
  OBVIOUS
<1>10. u.at = start /\ u.cells = screen.cells
  <2>1. u.at = screen.at - (l - start) /\ u.cells = screen.cells
    BY <1>9, BackIs
  <2> QED
    BY <1>3, <1>9, <2>1
<1> PICK v : v = Put(u, w)
  OBVIOUS
<1>11. /\ IsScreen(v) /\ v.at = u.at + Len(w)
       /\ \A x \in 1 .. MaxLine :
            v.cells[x] = IF x \in u.at + 1 .. u.at + Len(w) THEN w[x - u.at] ELSE u.cells[x]
  BY PutIs
<1>12. ASSUME NEW x \in 1 .. MaxLine
       PROVE  v.cells[x] = IF x <= start + n THEN cmd'[x] ELSE Blank
  <2>1. v.cells[x] = IF x \in start + 1 .. start + n THEN w[x - start] ELSE screen.cells[x]
    BY <1>10, <1>11
  <2>2. screen.cells[x] = IF x <= l THEN cmd[x] ELSE Blank
    BY <1>9
  <2>3. CASE x <= start
    <3>1. x \notin start + 1 .. start + n /\ x <= l /\ x \in 1 .. start + n
      BY <1>3, <2>3
    <3>2. x <= start + n
      BY <3>1
    <3> QED
      BY <1>6, <1>7, <2>1, <2>2, <2>3, <3>1, <3>2
  <2>4. CASE start < x /\ x <= start + n
    <3>1. x \in start + 1 .. start + n /\ ~(x <= start) /\ x \in 1 .. start + n
      BY <1>3, <2>4
    <3> QED
      BY <1>6, <1>7, <2>1, <2>4, <3>1
  <2>5. CASE start + n < x
    <3>1. x \notin start + 1 .. start + n /\ ~(x <= l) /\ ~(x <= start + n)
      BY <1>3, <1>5, <2>5
    <3> QED
      BY <2>1, <2>2, <3>1
  <2> QED
    BY <1>3, <2>3, <2>4, <2>5
<1>13. IsScreen(v) /\ Pictures(v, cmd', l', cursor')
  BY <1>1, <1>10, <1>11, <1>12 DEF Pictures
<1>14. Shows'
  BY <1>1, <1>13, StateKept DEF Shows, Prompting, Hidden
<1> QED
  BY <1>8, <1>14

LEMMA ListedKeeps ==
  ASSUME LineOK, Shows, Listed
  PROVE  LineOK' /\ Shows'
<1>1. /\ Prompting /\ UNCHANGED <<cmd, l, cursor, state>>
      /\ screen' = Redrawn(cmd, l, cursor)
  BY DEF Listed, Edited, access, line
<1>2. Echo(Redrawn(cmd, l, cursor))
  BY <1>1 DEF Echo, Prompting, Hidden
<1> QED
  BY <1>1, <1>2, RedrawKeeps

LEMMA BellKeeps ==
  ASSUME LineOK, Shows, Bell
  PROVE  LineOK' /\ Shows'
<1>1. UNCHANGED <<cmd, l, cursor, screen, state>>
  BY DEF Bell, Edited, line, access
<1> QED
  BY <1>1, Untouched

\* The words that TAB writes.
LEMMA ContinuationIsText ==
  ASSUME NEW w \in Continuations
  PROVE  w \in Seq(Text)
<1> PICK v \in Completions, end \in {<<>>, <<Blank>>} : w = v \o end
  BY DEF Continuations
<1>1. v \in Seq(Text)
  <2>1. Letters \subseteq Text /\ v \in Seq(Letters)
    BY SessionAssumption DEF Text
  <2> QED
    BY <2>1, SeqMonotonic
<1>2. end \in Seq(Text)
  <2>1. <<>> \in Seq(Text) /\ <<Blank>> \in Seq(Text)
    BY Lengths
  <2> QED
    BY <2>1
<1> QED
  BY <1>1, <1>2, ConcatProperties

\* TAB rings the bell, shows a list, or completes: inside the line or not.
LEMMA CompleteIs ==
  ASSUME Complete, LineOK
  PROVE  \/ Bell \/ Listed
         \/ /\ ~Hidden /\ Overrun
            /\ cursor = l
            /\ \E w \in Continuations, n \in 0 .. l :
                 /\ \E ends \in Separators : Completing(n, ends)
                 /\ Continues(w, n) /\ n + Len(w) > Room
         \/ /\ Prompting /\ cursor = l
            /\ \E w \in Continuations, n \in 0 .. l :
                 /\ \E ends \in Separators : Completing(n, ends)
                 /\ Continues(w, n) /\ Completed(w, n) /\ n + Len(w) <= Room
<1> SUFFICES ASSUME ~Bell, ~Listed
             PROVE  \/ /\ ~Hidden /\ Overrun
                       /\ cursor = l
                       /\ \E w \in Continuations, n \in 0 .. l :
                            /\ \E ends \in Separators : Completing(n, ends)
                            /\ Continues(w, n) /\ n + Len(w) > Room
                    \/ /\ Prompting /\ cursor = l
                       /\ \E w \in Continuations, n \in 0 .. l :
                            /\ \E ends \in Separators : Completing(n, ends)
                            /\ Continues(w, n) /\ Completed(w, n) /\ n + Len(w) <= Room
  OBVIOUS
<1>1. Prompting /\ cursor = l /\ ~Hidden
  BY DEF Complete, Prompting, Hidden
<1> PICK w \in Continuations, n \in 0 .. l :
      /\ \E ends \in Separators : Completing(n, ends)
      /\ Continues(w, n) /\ Completed(w, n)
  BY DEF Complete
<1>2. n \in Nat /\ Len(w) \in Nat /\ Room \in Nat
  BY ContinuationIsText, Indices
<1>3. CASE n + Len(w) > Room
  <2>1. Overrun
    BY <1>3 DEF Completed
  <2> QED
    BY <1>1, <1>3, <2>1
<1>4. CASE n + Len(w) <= Room
  BY <1>1, <1>4
<1> QED
  BY <1>2, <1>3, <1>4

LEMMA CompleteKeeps ==
  ASSUME LineOK, Shows, Complete
  PROVE  LineOK' /\ Shows'
BY CompleteIs, BellKeeps, ListedKeeps, OverrunKeeps, CompletedKeeps, ContinuationIsText

\* A line of the history is put in place of the line.
LEMMA RecallKeeps ==
  ASSUME LineOK, Shows, NEW k, Prompting, Recalled(k), history \in Seq(Lines)
  PROVE  LineOK' /\ Shows'
<1>0. state' = state
  BY DEF Recalled, access
<1>1. CASE UNCHANGED <<cmd, l, cursor, screen>>
  BY <1>0, <1>1, Untouched
<1>2. ASSUME Prompting, in_history' \in 0 .. Newest,
             cmd' = Buffer(history[in_history' + 1]), l' = Len(history[in_history' + 1]),
             cursor' = l', screen' = Put(Cleared, history[in_history' + 1])
      PROVE  LineOK' /\ Shows'
  <2> PICK entry : entry = history[in_history' + 1]
    OBVIOUS
  <2>1. entry \in Seq(Text) /\ Len(entry) <= Room
    <3>1. \A n \in Nat : \A i \in 0 .. n - 1 : i + 1 \in 1 .. n
      OBVIOUS
    <3>2. Len(history) \in Nat
      OBVIOUS
    <3>3. in_history' + 1 \in 1 .. Len(history)
      BY <1>2, <3>1, <3>2 DEF Newest
    <3>4. entry \in Lines
      BY <3>3
    <3> QED
      BY <3>4, LinesAre
  <2>2. /\ Valid(cmd', l', cursor') /\ Filled(cmd', l') /\ Len(entry) \in Nat
        /\ \A x \in 1 .. Len(entry) : cmd'[x] = entry[x]
    BY <1>2, <2>1, BufferIs
  <2>3. LineOK'
    BY <2>2 DEF LineOK
  <2> PICK n \in Nat : n = Len(entry)
    BY <2>2
  <2> PICK t : t = Cleared
    OBVIOUS
  <2>4. IsScreen(t) /\ t.at = 0 /\ \A x \in 1 .. MaxLine : x > 0 => t.cells[x] = Blank
    <3>1. IsScreen(t) /\ Pictures(t, cmd, 0, 0)
      BY <1>2, ClearedShows
    <3> QED
      BY <3>1, Lengths DEF Pictures
  <2> PICK v : v = Put(t, entry)
    OBVIOUS
  <2>5. /\ IsScreen(v) /\ v.at = t.at + n
        /\ \A x \in 1 .. MaxLine :
             v.cells[x] = IF x \in t.at + 1 .. t.at + n THEN entry[x - t.at] ELSE t.cells[x]
    BY PutIs
  <2>6. ASSUME NEW x \in 1 .. MaxLine
        PROVE  v.cells[x] = IF x <= n THEN cmd'[x] ELSE Blank
    <3>1. x \in Nat /\ x > 0 /\ (x \in 0 + 1 .. 0 + n <=> x <= n) /\ x - 0 = x
      BY Lengths
    <3>2. v.cells[x] = IF x \in 0 + 1 .. 0 + n THEN entry[x - 0] ELSE t.cells[x]
      BY <2>4, <2>5
    <3>3. x <= n => cmd'[x] = entry[x]
      BY <2>2, <3>1
    <3> QED
      BY <2>4, <3>1, <3>2, <3>3
  <2>7. IsScreen(v) /\ Pictures(v, cmd', l', cursor')
    BY <1>2, <2>4, <2>5, <2>6 DEF Pictures
  <2>8. Shows'
    BY <1>0, <1>2, <2>7, StateKept DEF Shows, Prompting, Hidden
  <2> QED
    BY <2>3, <2>8
<1> QED
  BY <1>1, <1>2 DEF Recalled, line

-----------------------------------------------------------------------------
(* The rest of the session.                                                *)

States == {"login", "password", "normal", "enable_password", "enable", "closed", "overrun"}

Places ==
  /\ state \in States
  /\ Asking => mode = 0
  /\ privilege \in {0, 15} /\ mode \in 0 .. MaxMode
  /\ in_history \in -1 .. MaxIndex
  /\ is_telnet_option \in 0 .. 1 /\ esc \in 0 .. 2

Kept ==
  /\ history \in Seq(Lines) /\ Len(history) <= MaxHistory
  /\ username \in Lines

Moving == {"^P", "^N"}

\* in_history is the place in the ring that the presses lead to, and after a
\* press the line is the one that is kept there.
InTurn ==
  history # <<>> =>
    /\ in_history = presses /\ presses \in 0 .. Len(history) - 1
    /\ Prompting /\ key \in Moving =>
         cmd = Buffer(history[presses + 1]) /\ l = Len(history[presses + 1])

SessionInv == LineOK /\ Shows /\ Places /\ Kept /\ InTurn

LEMMA Bounds ==
  /\ MaxHistory \in Nat \ {0} /\ MaxMode \in Nat \ {0}
  /\ MaxIndex \in Nat /\ MaxIndex > MaxHistory
BY SessionAssumption

\* a is q times n and r.
Split(a, n, q, r) == a = n * q + r

\* Division is unique.
LEMMA Quotient ==
  ASSUME NEW n \in Nat \ {0}, NEW a \in Int, NEW q \in Int, NEW r \in 0 .. n - 1, Split(a, n, q, r)
  PROVE  a % n = r
<1> PICK k \in Int : k = a \div n
  OBVIOUS
<1> PICK m \in Int : m = a % n
  OBVIOUS
<1>1. a = n * k + m /\ 0 <= m /\ m < n
  <2>1. a = n * (a \div n) + (a % n)
    OBVIOUS
  <2> QED
    BY <2>1
<1>0. q - k \in Int
  OBVIOUS
<1> PICK d \in Int : d = q - k
  BY <1>0
<1>2. n * d = m - r
  BY <1>1 DEF Split
<1>3. -n < n * d /\ n * d < n
  BY <1>1, <1>2
<1>4. d = 0
  <2>1. d >= 1 => n * d >= n
    OBVIOUS
  <2>2. d <= -1 => n * d <= -n
    OBVIOUS
  <2> QED
    BY <1>3, <2>1, <2>2
<1> QED
  BY <1>2, <1>4

\* The neighbours of a place in a ring of n.
LEMMA Neighbours ==
  ASSUME NEW n \in Nat \ {0}, NEW a \in 0 .. n - 1
  PROVE  /\ (a + 1) % n = IF a = n - 1 THEN 0 ELSE a + 1
         /\ (a - 1) % n = IF a = 0 THEN n - 1 ELSE a - 1
<1>1. CASE a = n - 1
  <2>1. Split(a + 1, n, 1, 0) /\ 0 \in 0 .. n - 1 /\ a + 1 \in Int
    BY <1>1 DEF Split
  <2> QED
    BY <1>1, <2>1, Quotient
<1>2. CASE a # n - 1
  <2>1. Split(a + 1, n, 0, a + 1) /\ a + 1 \in 0 .. n - 1 /\ a + 1 \in Int
    BY <1>2 DEF Split
  <2> QED
    BY <1>2, <2>1, Quotient
<1>3. CASE a = 0
  <2>1. Split(a - 1, n, -1, n - 1) /\ n - 1 \in 0 .. n - 1 /\ a - 1 \in Int
    BY <1>3 DEF Split
  <2> QED
    BY <1>3, <2>1, Quotient
<1>4. CASE a # 0
  <2>1. Split(a - 1, n, 0, a - 1) /\ a - 1 \in 0 .. n - 1 /\ a - 1 \in Int
    BY <1>4 DEF Split
  <2> QED
    BY <1>4, <2>1, Quotient
<1> QED
  BY <1>1, <1>2, <1>3, <1>4

LEMMA NoLine == <<>> \in Lines
<1>1. <<>> \in Seq(Text) /\ Len(<<>>) = 0 /\ 0 <= Room
  BY Lengths, EmptySeq
<1> QED
  BY <1>1, LinesAre

\* A character is none of the keys that move in the history.
LEMMA TextIsNoMove == \A c \in Text : c \notin Moving
BY SessionAssumption DEF Text, Moving, Blank

\* What editing a line leaves alone.
LEMMA EditedKeeps ==
  ASSUME Places, Kept, InTurn, Edited, is_telnet_option' = 0, esc' = 0,
         ~Prompting \/ key' \notin Moving
  PROVE  Places' /\ Kept' /\ InTurn'
<1>1. UNCHANGED <<state, privilege, mode, username, in_history, history, presses>>
  BY DEF Edited, access
<1>2. Places'
  BY <1>1, StateKept DEF Places
<1>3. Kept'
  BY <1>1 DEF Kept
<1>4. InTurn'
  BY <1>1, StateKept DEF InTurn
<1> QED
  BY <1>2, <1>3, <1>4

\* A new line begins at the first line of the history.
LEMMA Begins ==
  ASSUME in_history' = 0, presses' = 0, history' \in Seq(Lines), key' \notin Moving
  PROVE  InTurn' /\ in_history' \in -1 .. MaxIndex
<1>1. 0 \in -1 .. MaxIndex
  BY Bounds
<1>2. history' # <<>> => 0 \in 0 .. Len(history') - 1
  BY EmptySeq
<1> QED
  BY <1>1, <1>2 DEF InTurn

LEMMA NewLineKeeps ==
  ASSUME NewLine, history' \in Seq(Lines), key' \notin Moving
  PROVE  LineOK' /\ Shows' /\ InTurn' /\ in_history' \in -1 .. MaxIndex
<1>1. /\ cmd' = EmptyBuffer /\ l' = 0 /\ cursor' = 0 /\ screen' = Fresh
      /\ in_history' = 0 /\ presses' = 0
  BY DEF NewLine, InHistory
<1> QED
  BY <1>1, Renewed, Begins

LEMMA LeaveKeeps ==
  ASSUME Leave, privilege' \in {0, 15}, mode' \in 0 .. MaxMode,
         is_telnet_option' \in 0 .. 1, esc' \in 0 .. 2
  PROVE  SessionInv'
<1>1. /\ cmd' = EmptyBuffer /\ l' = 0 /\ cursor' = 0 /\ screen' = Fresh
      /\ in_history' = 0 /\ state' = "closed" /\ history' = <<>> /\ username' = <<>>
  BY DEF Leave, InHistory
<1>2. LineOK' /\ Shows' /\ InTurn' /\ in_history' \in -1 .. MaxIndex
  <2>1. InTurn'
    BY <1>1 DEF InTurn
  <2>2. 0 \in -1 .. MaxIndex
    BY Bounds
  <2> QED
    BY <1>1, <2>1, <2>2, Renewed
<1>3. Places'
  <2>1. ~Asking' /\ state' \in States
    BY <1>1 DEF Hidden, Asking, States
  <2> QED
    BY <1>1, <1>2, <2>1 DEF Places
<1>4. <<>> \in Seq(Lines) /\ Len(<<>>) = 0
  OBVIOUS
<1>5. Kept'
  BY <1>1, <1>4, NoLine, Bounds DEF Kept
<1> QED
  BY <1>2, <1>3, <1>5 DEF SessionInv

\* The history has room for MaxHistory lines; the first one makes room.
LEMMA AddHistoryKeeps ==
  ASSUME Kept, NEW entry \in Lines, AddHistory(entry)
  PROVE  history' \in Seq(Lines) /\ Len(history') <= MaxHistory
<1> PICK n \in Nat : n = Len(history)
  BY DEF Kept
<1>1. history \in Seq(Lines) /\ n <= MaxHistory
  BY DEF Kept
<1>2. /\ Append(history, entry) \in Seq(Lines)
      /\ Len(Append(history, entry)) = n + 1
  BY <1>1
<1>3. CASE n = MaxHistory
  <2>0. Len(history) = MaxHistory
    BY <1>3
  <2>1. history' = Append(Tail(history), entry)
    BY <2>0 DEF AddHistory
  <2>2. history # <<>>
    BY <1>3, Bounds
  <2>3. Tail(history) \in Seq(Lines) /\ Len(Tail(history)) = n - 1
    BY <1>1, <2>2
  <2>4. Len(history') = (n - 1) + 1 /\ history' \in Seq(Lines)
    BY <2>1, <2>3
  <2> QED
    BY <1>3, <2>4, Bounds
<1>4. CASE n # MaxHistory
  <2>1. history' = history \/ history' = Append(history, entry)
    BY <1>4 DEF AddHistory
  <2>2. n + 1 <= MaxHistory
    BY <1>1, <1>4, Bounds
  <2> QED
    BY <1>1, <1>2, <2>1, <2>2
<1> QED
  BY <1>3, <1>4

\* What a command may do to the session.
LEMMA CommandKeeps ==
  ASSUME Places, Prompting, Command
  PROVE  /\ state' \in {state, "enable_password"}
         /\ Asking' => mode' = 0
         /\ privilege' \in {0, 15} /\ mode' \in 0 .. MaxMode /\ username' = username
<1>1. privilege \in {0, 15} /\ mode \in 0 .. MaxMode /\ MaxMode \in Nat \ {0}
  BY Bounds DEF Places
<1>2. 0 \in 0 .. MaxMode /\ 1 \in 0 .. MaxMode /\ (mode < MaxMode => mode + 1 \in 0 .. MaxMode)
  BY <1>1
<1>3. username' = username
  BY DEF Command
<1>0. ~Asking
  BY DEF Prompting, Hidden, Asking
<1>4. CASE NoChange
  BY <1>0, <1>1, <1>3, <1>4, StateKept DEF NoChange
<1>5. CASE Enable
  <2>1. CASE state' = state
    BY <1>0, <1>1, <1>2, <1>3, <1>5, <2>1, StateKept DEF Enable, SetPrivilege, SetConfigMode
  <2>2. CASE state' # state
    BY <1>1, <1>2, <1>3, <1>5, <2>2 DEF Enable, SetPrivilege, SetConfigMode
  <2> QED
    BY <2>1, <2>2
<1>6. CASE Disable
  BY <1>0, <1>1, <1>2, <1>3, <1>6, StateKept DEF Disable, SetPrivilege, SetConfigMode
<1>7. CASE ChangeMode
  <2>1. state' = state /\ ~Asking'
    BY <1>0, <1>7, StateKept DEF ChangeMode
  <2> QED
    BY <1>1, <1>2, <1>3, <1>7, <2>1 DEF ChangeMode, SetConfigMode
<1> QED
  BY <1>4, <1>5, <1>6, <1>7 DEF Command

LEMMA NoCommandKeeps ==
  ASSUME Places, NoCommand
  PROVE  /\ state' \in {state, "enable_password"} /\ (Asking' => mode' = 0)
         /\ privilege' \in {0, 15} /\ mode' \in 0 .. MaxMode /\ username' = username
BY StateKept DEF NoCommand, NoChange, Places

-----------------------------------------------------------------------------
(* Every step keeps the session as it should be.                           *)

LEMMA KeyReadIs ==
  ASSUME NEW k, KeyRead(k)
  PROVE  /\ is_telnet_option' = 0 /\ esc' = 0 /\ key' = k
         /\ state # "closed" /\ state # "overrun"
BY DEF KeyRead, Open

LEMMA StreamKeeps ==
  ASSUME SessionInv, Swallow, is_telnet_option' \in 0 .. 1, esc' \in 0 .. 2
  PROVE  SessionInv'
<1>1. UNCHANGED <<state, privilege, mode, username, cmd, l, cursor, in_history, history,
                  screen, presses>> /\ key' = "none"
  BY DEF Swallow, access, line
<1>2. LineOK' /\ Shows'
  BY <1>1, Untouched DEF SessionInv
<1>3. Places' /\ Kept'
  BY <1>1, StateKept DEF SessionInv, Places, Kept
<1>4. InTurn'
  BY <1>1, StateKept DEF SessionInv, InTurn, Moving
<1> QED
  BY <1>2, <1>3, <1>4 DEF SessionInv

LEMMA EditedInv ==
  ASSUME SessionInv, NEW k, KeyRead(k), Edited, LineOK', Shows',
         ~Prompting \/ k \notin Moving
  PROVE  SessionInv'
BY KeyReadIs, EditedKeeps DEF SessionInv

LEMMA TypeInv ==
  ASSUME SessionInv, NEW c \in Text, Type(c)
  PROVE  SessionInv'
<1>1. LineOK /\ Shows
  BY DEF SessionInv
<1>2. LineOK' /\ Shows'
  BY <1>1, TypeAtEndKeeps, TypeAtFullEndKeeps, TypeInsideKeeps DEF Type
<1>3. KeyRead(c) /\ Edited
  BY DEF Type, TypeAtEnd, TypeAtFullEnd, TypeInside
<1> QED
  BY <1>2, <1>3, TextIsNoMove, EditedInv

\* A step that leaves the bounds of an array.
LEMMA OverrunInv ==
  ASSUME SessionInv, ~Hidden, NEW k, KeyRead(k), Overrun
  PROVE  SessionInv'
<1>1. /\ UNCHANGED <<privilege, mode, username, in_history, history, presses>>
      /\ state' = "overrun"
  BY DEF Overrun
<1>2. LineOK' /\ Shows'
  BY OverrunKeeps DEF SessionInv
<1>3. ~Asking' /\ ~Prompting' /\ state' \in States
  BY <1>1 DEF Hidden, Asking, Prompting, States
<1>4. Places'
  BY <1>1, <1>3, KeyReadIs DEF SessionInv, Places
<1>5. Kept'
  BY <1>1 DEF SessionInv, Kept
<1>6. InTurn'
  BY <1>1, <1>3 DEF SessionInv, InTurn
<1> QED
  BY <1>2, <1>4, <1>5, <1>6 DEF SessionInv

\* The index of the line that Up or Down goes to.
LEMMA IndexIs ==
  ASSUME SessionInv, NEW k \in Moving
  PROVE  /\ Index(k) \in Int /\ Index(k) >= -1
         /\ history # <<>> => Index(k) = Turned(k) /\ Turned(k) \in 0 .. Len(history) - 1
<1> PICK n \in Nat : n = Len(history)
  BY DEF SessionInv, Kept
<1>1. in_history \in Int /\ in_history >= -1
  BY Bounds DEF SessionInv, Places
<1>2. Index(k) = IF k = "^P"
                 THEN IF in_history > 0 THEN in_history - 1 ELSE n - 1
                 ELSE IF in_history < n - 1 THEN in_history + 1
                 ELSE IF history # <<>> THEN 0 ELSE in_history + 1
  BY DEF Index, Newest
<1>3. Index(k) \in Int /\ Index(k) >= -1
  BY <1>1, <1>2
<1>4. ASSUME history # <<>>
      PROVE  Index(k) = Turned(k) /\ Turned(k) \in 0 .. Len(history) - 1
  <2>1. n # 0
    <3>1. history \in Seq(Lines)
      BY DEF SessionInv, Kept
    <3> QED
      BY <1>4, <3>1, EmptySeq
  <2> PICK a \in 0 .. n - 1 : a = presses /\ a = in_history
    BY <1>4 DEF SessionInv, InTurn
  <2>2. /\ (a + 1) % n = IF a = n - 1 THEN 0 ELSE a + 1
        /\ (a - 1) % n = IF a = 0 THEN n - 1 ELSE a - 1
    BY <2>1, Neighbours
  <2>3. CASE k = "^P"
    <3>1. Turned(k) = (a - 1) % n
      BY <1>4, <2>3 DEF Turned
    <3>2. Index(k) = IF a > 0 THEN a - 1 ELSE n - 1
      BY <1>2, <2>3
    <3> QED
      BY <2>1, <2>2, <3>1, <3>2
  <2>4. CASE k # "^P"
    <3>1. Turned(k) = (a + 1) % n
      BY <1>4, <2>4 DEF Turned
    <3>2. Index(k) = IF a < n - 1 THEN a + 1 ELSE 0
      BY <1>2, <1>4, <2>4
    <3> QED
      BY <2>1, <2>2, <3>1, <3>2
  <2> QED
    BY <2>3, <2>4
<1> QED
  BY <1>3, <1>4

LEMMA RecalledInv ==
  ASSUME SessionInv, NEW k \in Moving, KeyRead(k), Prompting, Recalled(k)
  PROVE  SessionInv'
<1>1. /\ LineOK /\ Shows /\ history \in Seq(Lines)
  BY DEF SessionInv, Kept
<1>2. LineOK' /\ Shows'
  BY <1>1, RecallKeeps
<1>3. /\ UNCHANGED <<state, privilege, mode, username, history>>
      /\ in_history' = Index(k) /\ in_history' <= MaxIndex /\ presses' = Turned(k)
  BY DEF Recalled, access
<1>4. Kept'
  BY <1>3 DEF SessionInv, Kept
<1>5. in_history' \in -1 .. MaxIndex
  BY <1>3, IndexIs, Bounds
<1>6. Places'
  BY <1>3, <1>5, KeyReadIs, StateKept DEF SessionInv, Places
<1>7. ASSUME history # <<>>
      PROVE  /\ in_history' = presses' /\ presses' \in 0 .. Len(history) - 1
             /\ cmd' = Buffer(history[presses' + 1]) /\ l' = Len(history[presses' + 1])
  <2>1. in_history' = presses' /\ presses' \in 0 .. Len(history) - 1
    BY <1>3, <1>7, IndexIs
  <2>2. in_history' \in 0 .. Newest
    BY <2>1 DEF Newest
  <2> QED
    BY <2>1, <2>2 DEF Recalled
<1>8. InTurn'
  BY <1>3, <1>7 DEF InTurn
<1> QED
  BY <1>2, <1>4, <1>6, <1>8 DEF SessionInv

LEMMA RecallInv ==
  ASSUME SessionInv, NEW k \in {"^P", "^N"}, Recall(k)
  PROVE  SessionInv'
<1>1. KeyRead(k) /\ k \in Moving
  BY DEF Recall, Moving
<1>2. CASE ~Prompting
  <2>1. Bell /\ Edited /\ LineOK /\ Shows
    BY <1>2 DEF Recall, Bell, SessionInv
  <2> QED
    BY <1>1, <1>2, <2>1, BellKeeps, EditedInv
<1>3. CASE Prompting
  <2>1. Overrun \/ Recalled(k)
    BY <1>3 DEF Recall
  <2>2. ~Hidden
    BY <1>3 DEF Prompting, Hidden
  <2> QED
    BY <1>1, <1>3, <2>1, <2>2, OverrunInv, RecalledInv
<1> QED
  BY <1>2, <1>3

LEMMA EditInv ==
  ASSUME SessionInv, Edit
  PROVE  SessionInv'
<1>0. LineOK /\ Shows
  BY DEF SessionInv
<1>1. ASSUME NEW c \in Text, Type(c) PROVE SessionInv'
  BY <1>1, TypeInv
<1>2. ASSUME NEW k \in {"^H", "^W"}, Erase(k) PROVE SessionInv'
  <2>1. KeyRead(k) /\ Edited
    BY <1>2 DEF Erase
  <2> QED
    BY <1>0, <1>2, <2>1, EraseKeeps, EditedInv DEF Moving
<1>3. ASSUME NEW k \in {"^H", "^W"}, EraseNothing(k) PROVE SessionInv'
  <2>1. KeyRead(k) /\ Bell /\ Edited
    BY <1>3 DEF EraseNothing, Bell
  <2> QED
    BY <1>0, <2>1, BellKeeps, EditedInv DEF Moving
<1>4. CASE ClearLine
  <2>1. KeyRead("^U") /\ Edited
    BY <1>4 DEF ClearLine
  <2> QED
    BY <1>0, <1>4, <2>1, ClearLineKeeps, EditedInv DEF Moving
<1>5. CASE KillToEnd
  <2>1. KeyRead("^K") /\ Edited
    BY <1>5 DEF KillToEnd
  <2> QED
    BY <1>0, <1>5, <2>1, KillToEndKeeps, EditedInv DEF Moving
<1>6. CASE Motion
  <2>1. (\E k \in {"^B", "^F", "^A", "^E"} : KeyRead(k)) /\ Edited
    BY <1>6 DEF Motion
  <2> QED
    BY <1>0, <1>6, <2>1, MotionKeeps, EditedInv DEF Moving
<1>7. CASE Redraw
  <2>1. /\ KeyRead("^L") /\ Edited /\ Echo(Redrawn(cmd, l, cursor))
        /\ UNCHANGED <<cmd, l, cursor, state>>
    BY <1>7 DEF Redraw, Edited, line, access
  <2> QED
    BY <1>0, <2>1, RedrawKeeps, EditedInv DEF Moving
<1>8. CASE Ignored
  <2>1. KeyRead("^C") /\ Bell /\ Edited
    BY <1>8 DEF Ignored, Bell
  <2> QED
    BY <1>0, <2>1, BellKeeps, EditedInv DEF Moving
<1>9. CASE Complete
  <2>1. KeyRead("^I")
    BY <1>9 DEF Complete
  <2>2. CASE Overrun /\ ~Hidden
    BY <2>1, <2>2, OverrunInv
  <2>3. CASE Edited
    BY <1>0, <1>9, <2>1, <2>3, CompleteKeeps, EditedInv DEF Moving
  <2>4. Edited \/ (Overrun /\ ~Hidden)
    BY <1>9 DEF Complete, Bell, Listed, Completed, Prompting, Hidden
  <2> QED
    BY <2>2, <2>3, <2>4
<1>10. CASE Help
  <2>1. KeyRead("?") /\ Edited /\ (Bell \/ Listed)
    BY <1>10 DEF Help, Bell, Listed
  <2> QED
    BY <1>0, <2>1, BellKeeps, ListedKeeps, EditedInv DEF Moving
<1>11. ASSUME NEW k \in {"^P", "^N"}, Recall(k) PROVE SessionInv'
  BY <1>11, RecallInv
<1> QED
  BY <1>1, <1>2, <1>3, <1>4, <1>5, <1>6, <1>7, <1>8, <1>9, <1>10, <1>11 DEF Edit

\* A new line with the rest as it should be.
LEMMA NewLineInv ==
  ASSUME NewLine, NEW k, KeyRead(k), k \notin Moving, Kept',
         state' \in States, Asking' => mode' = 0,
         privilege' \in {0, 15}, mode' \in 0 .. MaxMode
  PROVE  SessionInv'
<1>1. LineOK' /\ Shows' /\ InTurn' /\ in_history' \in -1 .. MaxIndex
  BY KeyReadIs, NewLineKeeps DEF Kept
<1>2. Places'
  BY <1>1, KeyReadIs DEF Places
<1> QED
  BY <1>1, <1>2 DEF SessionInv

LEMMA EnterNothingInv ==
  ASSUME SessionInv, EnterNothing
  PROVE  SessionInv'
<1>1. KeyRead("CR") /\ NewLine /\ UNCHANGED <<state, privilege, mode, username, history>>
  BY DEF EnterNothing, access
<1>2. /\ Kept' /\ state' \in States /\ (Asking' => mode' = 0)
      /\ privilege' \in {0, 15} /\ mode' \in 0 .. MaxMode
  BY <1>1, StateKept DEF SessionInv, Kept, Places
<1> QED
  BY <1>1, <1>2, NewLineInv DEF Moving

LEMMA LoginInv ==
  ASSUME SessionInv, Login
  PROVE  SessionInv'
<1>1. /\ KeyRead("CR") /\ NewLine /\ UNCHANGED <<privilege, mode, history>>
      /\ username' = Entered /\ state' = "password" /\ mode = 0
  BY DEF Login, SessionInv, Places, Asking
<1>2. Kept' /\ privilege' \in {0, 15} /\ mode' \in 0 .. MaxMode /\ mode' = 0
  BY <1>1, EnteredIs DEF SessionInv, Kept, Places
<1> QED
  BY <1>1, <1>2, NewLineInv DEF Moving, States

LEMMA PasswordInv ==
  ASSUME SessionInv, NEW k \in {"CR", "^D"}, Password(k)
  PROVE  SessionInv'
<1>1. /\ KeyRead(k) /\ NewLine /\ UNCHANGED <<privilege, mode, history>>
      /\ state' \in {"normal", "login"} /\ username' \in {username, <<>>}
  BY DEF Password
<1>2. Kept' /\ privilege' \in {0, 15} /\ mode' \in 0 .. MaxMode
  BY <1>1, NoLine DEF SessionInv, Kept, Places
<1>3. mode' = 0 /\ state' \in States
  <2>1. Asking
    BY DEF Password, Asking, Hidden
  <2> QED
    BY <1>1, <2>1 DEF States, SessionInv, Places
<1> QED
  BY <1>1, <1>2, <1>3, NewLineInv DEF Moving

LEMMA EnablePasswordInv ==
  ASSUME SessionInv, NEW k \in {"CR", "^D"}, EnablePassword(k)
  PROVE  SessionInv'
<1>1. /\ KeyRead(k) /\ NewLine /\ UNCHANGED <<mode, username, history>>
      /\ state' \in {"normal", "enable"} /\ privilege' \in {privilege, 15}
  BY DEF EnablePassword, SetPrivilege
<1>2. Kept' /\ privilege' \in {0, 15} /\ mode' \in 0 .. MaxMode
  BY <1>1 DEF SessionInv, Kept, Places
<1>3. ~Asking' /\ state' \in States
  BY <1>1 DEF Hidden, Asking, States
<1> QED
  BY <1>1, <1>2, <1>3, NewLineInv DEF Moving

LEMMA RunInv ==
  ASSUME SessionInv, Run
  PROVE  SessionInv'
<1>1. KeyRead("CR") /\ NewLine /\ Prompting /\ (Command \/ NoCommand)
      /\ (AddHistory(Entered) \/ UNCHANGED history)
  BY DEF Run
<1>2. /\ state' \in {state, "enable_password"} /\ (Asking' => mode' = 0)
      /\ privilege' \in {0, 15} /\ mode' \in 0 .. MaxMode /\ username' = username
  <2>1. ~Asking
    BY <1>1 DEF Prompting, Hidden, Asking
  <2>2. NoCommand => (Asking' => mode' = 0)
    BY <2>1, StateKept DEF NoCommand, NoChange
  <2> QED
    BY <1>1, <2>2, CommandKeeps, NoCommandKeeps DEF SessionInv
<1>3. history' \in Seq(Lines) /\ Len(history') <= MaxHistory
  BY <1>1, EnteredIs, AddHistoryKeeps DEF SessionInv, Kept
<1>4. Kept'
  BY <1>2, <1>3 DEF SessionInv, Kept
<1>5. state' \in States
  BY <1>2 DEF SessionInv, Places, States
<1> QED
  BY <1>1, <1>2, <1>4, <1>5, NewLineInv DEF Moving

LEMMA RunQuitInv ==
  ASSUME SessionInv, NEW k, RunQuit(k)
  PROVE  SessionInv'
<1>1. KeyRead(k) /\ Leave /\ privilege' = 0 /\ mode' = 0
  BY DEF RunQuit, Quit, SetPrivilege, SetConfigMode
<1>2. /\ is_telnet_option' \in 0 .. 1 /\ esc' \in 0 .. 2
      /\ privilege' \in {0, 15} /\ mode' \in 0 .. MaxMode
  BY <1>1, KeyReadIs, Bounds
<1> QED
  BY <1>1, <1>2, LeaveKeeps

LEMMA HelpRunsInv ==
  ASSUME SessionInv, HelpRuns
  PROVE  SessionInv'
<1>1. /\ KeyRead("?") /\ Prompting /\ Command
      /\ UNCHANGED <<cmd, l, cursor, history>> /\ in_history' = 0 /\ presses' = 0
      /\ screen' = IF state' = "enable_password" THEN Fresh ELSE Redrawn(cmd, l, cursor)
  BY DEF HelpRuns, line, InHistory
<1>2. /\ state' \in {state, "enable_password"} /\ (Asking' => mode' = 0)
      /\ privilege' \in {0, 15} /\ mode' \in 0 .. MaxMode /\ username' = username
  BY <1>1, CommandKeeps DEF SessionInv
<1>3. Valid(cmd, l, cursor) /\ Filled(cmd, l)
  BY <1>1 DEF SessionInv, LineOK, Prompting, Hidden
<1>4. LineOK'
  BY <1>1, <1>3 DEF LineOK, Valid, Filled
<1>5. Shows'
  <2>1. CASE state' = "enable_password"
    BY <1>1, <2>1, FreshIs, Lengths DEF Shows, Prompting
  <2>2. CASE state' # "enable_password"
    <3>1. state' = state /\ screen' = Redrawn(cmd, l, cursor)
      BY <1>1, <1>2, <2>2
    <3>2. IsScreen(Redrawn(cmd, l, cursor)) /\ Pictures(Redrawn(cmd, l, cursor), cmd, l, cursor)
      BY <1>3, RedrawnShows
    <3> QED
      BY <1>1, <3>1, <3>2, StateKept DEF Shows, Prompting, Hidden
  <2> QED
    BY <2>1, <2>2
<1>6. InTurn' /\ in_history' \in -1 .. MaxIndex
  BY <1>1, KeyReadIs, Begins DEF SessionInv, Kept, Moving
<1>7. Places'
  BY <1>1, <1>2, <1>6, KeyReadIs DEF SessionInv, Places, States
<1>8. Kept'
  BY <1>1, <1>2 DEF SessionInv, Kept
<1> QED
  BY <1>4, <1>5, <1>6, <1>7, <1>8 DEF SessionInv

LEMMA EndOfTextInv ==
  ASSUME SessionInv, EndOfText
  PROVE  SessionInv'
<1>1. KeyRead("^D") /\ LineOK /\ Shows
  BY DEF EndOfText, SessionInv
<1>2. CASE Bell
  BY <1>1, <1>2, BellKeeps, EditedInv DEF Bell, Moving
<1>3. CASE Leave /\ UNCHANGED <<privilege, mode>>
  <2>1. /\ is_telnet_option' \in 0 .. 1 /\ esc' \in 0 .. 2
        /\ privilege' \in {0, 15} /\ mode' \in 0 .. MaxMode
    BY <1>1, <1>3, KeyReadIs DEF SessionInv, Places
  <2> QED
    BY <1>3, <2>1, LeaveKeeps
<1> QED
  BY <1>2, <1>3 DEF EndOfText

LEMMA LeaveModeInv ==
  ASSUME SessionInv, LeaveMode
  PROVE  SessionInv'
<1>1. KeyRead("^Z") /\ LineOK /\ Shows
  BY DEF LeaveMode, SessionInv
<1>2. CASE Bell
  BY <1>1, <1>2, BellKeeps, EditedInv DEF Bell, Moving
<1>3. CASE ~Bell
  <2>1. /\ mode' = 0 /\ cmd' = Zeroed(1) /\ l' = 0 /\ cursor' = 0 /\ screen' = Fresh
        /\ UNCHANGED <<state, privilege, username, in_history, history, presses>>
    BY <1>3 DEF LeaveMode, SetConfigMode
  <2>2. LineOK'
    BY <1>1, <2>1, ZeroedAll, StateKept DEF LineOK
  <2>3. Shows'
    BY <2>1, FreshIs, Lengths DEF Shows
  <2>4. 0 \in 0 .. MaxMode
    BY Bounds
  <2>5. Places'
    BY <1>1, <2>1, <2>4, KeyReadIs, StateKept DEF SessionInv, Places
  <2>6. Kept'
    BY <2>1 DEF SessionInv, Kept
  <2>7. InTurn'
    BY <1>1, <2>1, KeyReadIs DEF SessionInv, InTurn, Moving
  <2> QED
    BY <2>2, <2>3, <2>5, <2>6, <2>7 DEF SessionInv
<1> QED
  BY <1>2, <1>3

LEMMA HangUpInv ==
  ASSUME SessionInv, HangUp
  PROVE  SessionInv'
<1>1. Leave /\ UNCHANGED <<privilege, mode, is_telnet_option, esc>>
  BY DEF HangUp, stream
<1>2. /\ is_telnet_option' \in 0 .. 1 /\ esc' \in 0 .. 2
      /\ privilege' \in {0, 15} /\ mode' \in 0 .. MaxMode
  BY <1>1 DEF SessionInv, Places
<1> QED
  BY <1>1, <1>2, LeaveKeeps

LEMMA SessionInit == Init => SessionInv
<1> SUFFICES ASSUME Init PROVE SessionInv
  OBVIOUS
<1>1. /\ state \in {"login", "normal"} /\ privilege = 0 /\ mode = 0
      /\ cmd = EmptyBuffer /\ l = 0 /\ cursor = 0 /\ in_history = 0 /\ history = <<>>
      /\ username = <<>> /\ is_telnet_option = 0 /\ esc = 0 /\ screen = Fresh
  BY DEF Init
<1>2. Valid(EmptyBuffer, 0, 0) /\ Filled(EmptyBuffer, 0)
  BY Lengths DEF EmptyBuffer, Valid, Filled, Chars
<1>3. LineOK /\ Shows
  BY <1>1, <1>2, FreshIs, Lengths DEF LineOK, Shows, Hidden
<1>4. 0 \in 0 .. MaxMode /\ 0 \in -1 .. MaxIndex
  BY Bounds
<1>5. Places
  BY <1>1, <1>4 DEF Places, States
<1>6. <<>> \in Seq(Lines) /\ Len(<<>>) = 0
  OBVIOUS
<1>7. Kept
  BY <1>1, <1>6, NoLine, Bounds DEF Kept
<1>8. InTurn
  BY <1>1 DEF InTurn
<1> QED
  BY <1>3, <1>5, <1>7, <1>8 DEF SessionInv

LEMMA SessionNext == SessionInv /\ [Next]_vars => SessionInv'
<1> SUFFICES ASSUME SessionInv, [Next]_vars PROVE SessionInv'
  OBVIOUS
<1>1. ASSUME NEW c, Negotiate(c) PROVE SessionInv'
  <2>1. Swallow /\ is_telnet_option' \in 0 .. 1 /\ esc' = esc
    BY <1>1 DEF Negotiate
  <2>2. esc' \in 0 .. 2
    BY <2>1 DEF SessionInv, Places
  <2> QED
    BY <2>1, <2>2, StreamKeeps
<1>2. ASSUME NEW c, Escape(c) PROVE SessionInv'
  <2>1. Swallow /\ is_telnet_option' = 0 /\ esc' \in 0 .. 2
    BY <1>2 DEF Escape
  <2> QED
    BY <2>1, StreamKeeps
<1>3. CASE Enter
  <2>1. ASSUME Login PROVE SessionInv'
    BY <2>1, LoginInv
  <2> QED
    BY <1>3, <2>1, EnterNothingInv, RunInv, HelpRunsInv, RunQuitInv, PasswordInv,
       EnablePasswordInv, EndOfTextInv, LeaveModeInv DEF Enter
<1>4. CASE UNCHANGED vars
  <2>1. UNCHANGED <<state, privilege, mode, username, cmd, l, cursor, in_history, history,
                    screen, key, presses, is_telnet_option, esc>>
    BY <1>4 DEF vars, access, line, stream
  <2>2. LineOK' /\ Shows'
    BY <2>1, Untouched DEF SessionInv
  <2>3. Places' /\ Kept'
    BY <2>1, StateKept DEF SessionInv, Places, Kept
  <2>4. InTurn'
    BY <2>1, StateKept DEF SessionInv, InTurn
  <2> QED
    BY <2>2, <2>3, <2>4 DEF SessionInv
<1> QED
  BY <1>1, <1>2, <1>3, <1>4, EditInv, HangUpInv DEF Next

LEMMA SessionAlways == Spec => []SessionInv
BY SessionInit, SessionNext, PTL DEF Spec

-----------------------------------------------------------------------------
(* The theorems.                                                           *)

\* Types: whatever is typed, the length and the cursor stay inside the
\* buffer of cli_loop, its last byte stays zero, what is beyond the line is
\* zero unless the entry is hidden, the history stays in its slots and the
\* index of the line shown is the index of one, up to the key that leaves the
\* bounds of an array.
THEOREM SessionTypes == Spec => []TypeOK
<1>1. SessionInv => TypeOK
  <2> SUFFICES ASSUME SessionInv PROVE TypeOK
    OBVIOUS
  <2>1. Valid(cmd, l, cursor) /\ (~Hidden => Filled(cmd, l))
    BY DEF SessionInv, LineOK
  <2>2. screen.at \in 0 .. MaxLine
    <3>1. CASE Prompting
      <4>1. screen.at = cursor
        BY <3>1 DEF SessionInv, Shows, Pictures
      <4> QED
        BY <4>1, Indices DEF SessionInv
    <3>2. CASE ~Prompting
      BY <3>2 DEF SessionInv, Shows
    <3> QED
      BY <3>1, <3>2
  <2>3. Places /\ Kept
    BY DEF SessionInv
  <2>4. \A x \in 1 .. Len(history) : history[x] \in Lines
    BY <2>3 DEF Kept
  <2>5. history # <<>> => in_history \in 0 .. Newest /\ presses \in 0 .. Newest
    BY DEF SessionInv, InTurn, Newest
  <2> QED
    BY <2>1, <2>2, <2>3, <2>4, <2>5
       DEF TypeOK, Valid, Filled, Places, Kept, Chars, States
<1> QED
  BY <1>1, SessionAlways, PTL

\* The terminal: at the prompts of a command it shows the line in the buffer
\* and the cursor at its place, whatever cli_loop wrote for the keys so far.
THEOREM SessionShows == Spec => []ScreenShowsLine
<1>1. SessionInv => ScreenShowsLine
  BY DEF SessionInv, Shows, Pictures, ScreenShowsLine
<1> QED
  BY <1>1, SessionAlways, PTL

\* The password prompts: in them no key but a character that is typed inside
\* the entry, in which cli_loop does not ask for the state, changes what the
\* terminal shows.
THEOREM PasswordHides == Spec => PasswordUnseen
<1>1. SessionInv /\ [Next]_vars =>
        [Hidden /\ state' = state /\ screen' # screen => cursor < l /\ key' \in Text]_vars
  <2> SUFFICES ASSUME SessionInv, Next, Hidden, state' = state, screen' # screen
               PROVE  cursor < l /\ key' \in Text
    BY DEF vars
  <2>1. ~Prompting /\ Open /\ ~(state' \in {"closed", "overrun"})
    BY DEF Hidden, Prompting, Open
  <2>2. ASSUME NEW t, Echo(t) PROVE screen' = screen
    BY <2>1, <2>2 DEF Echo
  <2>3. CASE \E c \in Bytes : Negotiate(c) \/ Escape(c)
    BY <2>3 DEF Negotiate, Escape, Swallow
  <2>4. CASE Edit
    <3>1. ASSUME NEW c \in Text, Type(c) PROVE cursor < l /\ key' \in Text
      <4>1. CASE TypeInside(c)
        BY <4>1 DEF TypeInside, KeyRead
      <4>2. CASE TypeAtEnd(c) \/ TypeAtFullEnd(c)
        BY <2>2, <4>2 DEF TypeAtEnd, TypeAtFullEnd
      <4> QED
        BY <3>1, <4>1, <4>2 DEF Type
    <3>2. ~Bell
      BY DEF Bell
    <3>3. ~Listed /\ ~Complete /\ ~Help
      BY <2>1, <3>2 DEF Listed, Complete, Help
    <3>4. ~ClearLine /\ ~KillToEnd /\ ~Motion /\ ~Redraw /\ ~Ignored
      BY <2>2, <3>2 DEF ClearLine, KillToEnd, Motion, Redraw, Ignored
    <3>5. \A k : ~Erase(k) /\ ~EraseNothing(k) /\ ~Recall(k)
      BY <2>1, <2>2, <3>2 DEF Erase, EraseNothing, Recall
    <3> QED
      BY <2>4, <3>1, <3>3, <3>4, <3>5 DEF Edit
  <2>5. CASE Enter
    <3>1. mode = 0
      BY DEF SessionInv, Places, Asking
    <3>2. ~LeaveMode
      BY <3>1 DEF LeaveMode, Bell
    <3>3. ~EnterNothing /\ ~Run /\ ~HelpRuns /\ ~EndOfText /\ ~Login
      BY <2>1 DEF EnterNothing, Run, HelpRuns, EndOfText, Login, Hidden
    <3>4. \A k : ~RunQuit(k) /\ ~Password(k) /\ ~EnablePassword(k)
      BY <2>1 DEF RunQuit, Password, EnablePassword, Hidden
    <3> QED
      BY <2>5, <3>2, <3>3, <3>4 DEF Enter
  <2>6. CASE HangUp
    BY <2>1, <2>6 DEF HangUp, Leave
  <2> QED
    BY <2>3, <2>4, <2>5, <2>6 DEF Next
<1> QED
  BY <1>1, SessionAlways, PTL DEF Spec, PasswordUnseen

\* The history: Up and Down go round the lines as round a ring, from the first
\* one when a line begins, whatever is typed between them.
THEOREM SessionRecalls == Spec => []RecallsInTurn
<1>1. SessionInv => RecallsInTurn
  <2> SUFFICES ASSUME SessionInv, Prompting, key \in Moving, history # <<>>
               PROVE  Entered = history[presses + 1]
    BY DEF RecallsInTurn, Moving
  <2> PICK entry : entry = history[presses + 1]
    OBVIOUS
  <2>1. LineOK /\ presses + 1 \in 1 .. Len(history) /\ cmd = Buffer(entry) /\ l = Len(entry)
    BY DEF SessionInv, InTurn
  <2>2. entry \in Lines
    <3>1. history \in Seq(Lines)
      BY DEF SessionInv, Kept
    <3> QED
      BY <2>1, <3>1
  <2>3. ~Hidden
    BY DEF Prompting, Hidden
  <2>4. Entered = entry
    BY <2>1, <2>2, <2>3, EnteredFromBuffer
  <2> QED
    BY <2>4
<1> QED
  BY <1>1, SessionAlways, PTL

-----------------------------------------------------------------------------
(* The editor that the operator sees.                                      *)

Visible == state # "closed" /\ ~Hidden
Before == IF Visible THEN SubSeq(cmd, 1, cursor) ELSE <<>>
After == IF Visible THEN SubSeq(cmd, cursor + 1, l) ELSE <<>>
Pressed == IF Visible THEN key ELSE "none"

\* The line of n characters in b is s, then the cursor, then t.
Parts(b, n, c, s, t) ==
  /\ n \in Nat /\ c \in Nat /\ c <= n
  /\ s \in Seq(Text) /\ Len(s) = c /\ \A x \in 1 .. c : s[x] = b[x]
  /\ t \in Seq(Text) /\ Len(t) = n - c /\ \A x \in 1 .. n - c : t[x] = b[c + x]

LEMMA PartIsTextOf ==
  ASSUME NEW b, NEW n \in Nat, NEW c \in Nat, NEW m \in Nat, c <= m, m <= n, n <= Room,
         b \in [1 .. MaxLine -> Chars], Filled(b, n)
  PROVE  /\ SubSeq(b, c + 1, m) \in Seq(Text) /\ Len(SubSeq(b, c + 1, m)) = m - c
         /\ \A x \in 1 .. m - c : SubSeq(b, c + 1, m)[x] = b[c + x]
<1>1. MaxLine \in Nat /\ MaxLine = Room + 1 /\ Room \in Nat
  BY Lengths
<1>2. m <= MaxLine
  BY <1>1
<1> PICK s : s = SubSeq(b, c + 1, m) /\ IsPart(s, b, c, m)
  BY <1>2, PartIs
<1>3. s \in Seq(Chars) /\ Len(s) = m - c /\ \A x \in 1 .. m - c : s[x] = b[c + x]
  BY DEF IsPart
<1> PICK k \in Nat : k = m - c
  OBVIOUS
<1>4. \A x \in 1 .. k : s[x] \in Text
  <2> TAKE x \in 1 .. k
  <2>1. c + x \in 1 .. MaxLine /\ ~(c + x > n)
    BY <1>1
  <2>2. b[c + x] \in Chars /\ b[c + x] # NUL
    BY <2>1 DEF Filled
  <2> QED
    BY <1>3, <2>2 DEF Chars
<1>5. s \in Seq(Text)
  BY <1>3, <1>4, TextOf
<1> QED
  BY <1>3, <1>5

LEMMA PartsAre ==
  ASSUME NEW b, NEW n, NEW c, Valid(b, n, c), Filled(b, n)
  PROVE  Parts(b, n, c, SubSeq(b, 1, c), SubSeq(b, c + 1, n))
<1>1. /\ n \in Nat /\ c \in Nat /\ c <= n /\ n <= Room /\ Room \in Nat
      /\ b \in [1 .. MaxLine -> Chars]
  BY Lengths DEF Valid
<1>0. n <= n
  BY <1>1
<1>2. /\ SubSeq(b, c + 1, n) \in Seq(Text) /\ Len(SubSeq(b, c + 1, n)) = n - c
      /\ \A x \in 1 .. n - c : SubSeq(b, c + 1, n)[x] = b[c + x]
  BY <1>0, <1>1, PartIsTextOf
<1> PICK t : t = SubSeq(b, c + 1, n)
  OBVIOUS
<1>3. 0 \in Nat /\ 0 <= c
  BY <1>1
<1>4. /\ SubSeq(b, 0 + 1, c) \in Seq(Text) /\ Len(SubSeq(b, 0 + 1, c)) = c - 0
      /\ \A x \in 1 .. c - 0 : SubSeq(b, 0 + 1, c)[x] = b[0 + x]
  BY <1>1, <1>3, PartIsTextOf
<1> PICK s : s = SubSeq(b, 0 + 1, c)
  OBVIOUS
<1>5. s \in Seq(Text) /\ Len(s) = c /\ \A x \in 1 .. c : s[x] = b[x]
  BY <1>1, <1>4
<1>6. s = SubSeq(b, 1, c)
  OBVIOUS
<1> QED
  BY <1>1, <1>2, <1>5, <1>6 DEF Parts

LEMMA Seen ==
  ASSUME LineOK, Visible
  PROVE  Parts(cmd, l, cursor, Before, After)
BY PartsAre DEF LineOK, Visible, Before, After

LEMMA SeenNext ==
  ASSUME LineOK', Visible'
  PROVE  Parts(cmd', l', cursor', Before', After')
BY PartsAre DEF LineOK, Visible, Before, After

\* The parts of a line are known by their characters.
LEMMA BeforeIs ==
  ASSUME NEW b, NEW n, NEW c, NEW s, NEW t, Parts(b, n, c, s, t),
         NEW u \in Seq(Text), Len(u) = c, \A x \in 1 .. c : u[x] = b[x]
  PROVE  s = u
<1>1. s \in Seq(Text) /\ Len(s) = Len(u) /\ \A x \in 1 .. Len(s) : s[x] = u[x]
  BY DEF Parts
<1> QED
  BY <1>1, SeqEqual

LEMMA AfterIs ==
  ASSUME NEW b, NEW n, NEW c, NEW s, NEW t, Parts(b, n, c, s, t),
         NEW u \in Seq(Text), Len(u) = n - c, \A x \in 1 .. n - c : u[x] = b[c + x]
  PROVE  t = u
<1>1. t \in Seq(Text) /\ Len(t) = Len(u) /\ \A x \in 1 .. Len(t) : t[x] = u[x]
  BY DEF Parts
<1> QED
  BY <1>1, SeqEqual

\* u spells what b has after c of n characters.
Ends(u, b, n, c) == u \in Seq(Text) /\ Len(u) = n - c /\ \A x \in 1 .. n - c : u[x] = b[c + x]

LEMMA AfterEnds ==
  ASSUME NEW b, NEW n, NEW c, NEW s, NEW t, Parts(b, n, c, s, t), NEW u, Ends(u, b, n, c)
  PROVE  t = u
BY AfterIs DEF Ends

\* Nothing before the cursor, or after it.
LEMMA NothingIs ==
  ASSUME NEW b, NEW n, NEW c, NEW s, NEW t, Parts(b, n, c, s, t)
  PROVE  (c = 0 <=> s = <<>>) /\ (n = c <=> t = <<>>)
<1>1. s \in Seq(Text) /\ Len(s) = c /\ t \in Seq(Text) /\ Len(t) = n - c /\ c \in Nat /\ n \in Nat
  BY DEF Parts
<1> QED
  BY <1>1, EmptySeq

\* A character is added to s.
LEMMA AppendIs ==
  ASSUME NEW b, NEW n, NEW c, NEW s, NEW t, Parts(b, n, c, s, t),
         NEW b2, NEW n2, NEW s2, NEW t2, Parts(b2, n2, c + 1, s2, t2),
         NEW char \in Text, b2[c + 1] = char, \A x \in 1 .. c : b2[x] = b[x]
  PROVE  s2 = Append(s, char)
<1>1. c \in Nat /\ s \in Seq(Text) /\ Len(s) = c /\ \A x \in 1 .. c : s[x] = b[x]
  BY DEF Parts
<1> PICK u : u = Append(s, char)
  OBVIOUS
<1>2. /\ u \in Seq(Text) /\ Len(u) = c + 1
      /\ \A x \in 1 .. c : u[x] = s[x]
      /\ u[c + 1] = char
  BY <1>1, AppendProperties
<1>3. \A x \in 1 .. c + 1 : u[x] = b2[x]
  <2> TAKE x \in 1 .. c + 1
  <2>1. x = c + 1 \/ x \in 1 .. c
    BY <1>1
  <2> QED
    BY <1>1, <1>2, <2>1
<1>4. s2 = u
  BY <1>2, <1>3, BeforeIs
<1> QED
  BY <1>4

\* What is left of s.
LEMMA PrefixIs ==
  ASSUME NEW b, NEW n, NEW c, NEW s, NEW t, Parts(b, n, c, s, t),
         NEW b2, NEW n2, NEW c2, NEW s2, NEW t2, Parts(b2, n2, c2, s2, t2),
         c2 <= c, \A x \in 1 .. c2 : b2[x] = b[x]
  PROVE  s2 = SubSeq(s, 1, c2)
<1>1. /\ c \in Nat /\ c2 \in Nat
      /\ s \in Seq(Text) /\ Len(s) = c /\ \A x \in 1 .. c : s[x] = b[x]
  BY DEF Parts
<1> PICK u : u = SubSeq(s, 1, c2)
  OBVIOUS
<1>2. u \in Seq(Text) /\ Len(u) = c2 /\ \A x \in 1 .. c2 : u[x] = s[x]
  BY <1>1, SubSeqProperties
<1>3. \A x \in 1 .. c2 : u[x] = b2[x]
  <2> TAKE x \in 1 .. c2
  <2>1. x \in 1 .. c
    BY <1>1
  <2> QED
    BY <1>1, <1>2, <2>1
<1>4. s2 = u
  BY <1>2, <1>3, BeforeIs
<1> QED
  BY <1>4

\* The text after the cursor is the same.
LEMMA RestIs ==
  ASSUME NEW b, NEW n, NEW c, NEW s, NEW t, Parts(b, n, c, s, t),
         NEW b2, NEW n2, NEW c2, NEW s2, NEW t2, Parts(b2, n2, c2, s2, t2),
         n2 - c2 = n - c, \A x \in 1 .. n - c : b2[c2 + x] = b[c + x]
  PROVE  t2 = t
<1>1. t \in Seq(Text) /\ Len(t) = n - c /\ \A x \in 1 .. n - c : t[x] = b[c + x]
  BY DEF Parts
<1>2. Len(t) = n2 - c2 /\ \A x \in 1 .. n2 - c2 : t[x] = b2[c2 + x]
  BY <1>1
<1> QED
  BY <1>1, <1>2, AfterIs

-----------------------------------------------------------------------------
(* The steps of the editor, in terms of the text that is seen.             *)

SeenLine == Before \o After

LEMMA Presses ==
  ASSUME Pressed' \in Editor!Keys, Editor!Press(Pressed')
  PROVE  Editor!Step
BY DEF Editor!Step

LEMMA Waits ==
  ASSUME Before' = Before, After' = After, Pressed' = "none"
  PROVE  Editor!Step
BY DEF Editor!Step, Editor!Wait, Editor!Unchanged, Before, After, Pressed, Visible, Shown, Ahead

\* For an entry that is not shown, or when the session is left.
LEMMA Hides ==
  ASSUME ~Visible'
  PROVE  Editor!Step
BY DEF Editor!Step, Editor!HangUp, Editor!Replace, Before, After, Pressed, Visible, Shown, Ahead

LEMMA Stays ==
  ASSUME Before' = Before, After' = After,
         Pressed' \in {"^C", "^D", "^I", "^L", "^P", "^N", "?", "^Z"}
  PROVE  Editor!Step
<1>1. Editor!Press(Pressed')
  BY DEF Editor!Press, Editor!Unchanged, Before, After, Pressed, Visible, Shown, Ahead
<1>2. Pressed' \in Editor!Keys
  BY DEF Editor!Keys
<1> QED
  BY <1>1, <1>2, Presses

LEMMA Empties ==
  ASSUME Before' = <<>>, After' = <<>>, Pressed' \in {"CR", "^D", "^U", "^Z"}
  PROVE  Editor!Step
<1>1. Editor!Press(Pressed')
  BY DEF Editor!Press, Editor!Replace, Before, After, Pressed, Visible, Shown, Ahead
<1>2. Pressed' \in Editor!Keys
  BY DEF Editor!Keys
<1> QED
  BY <1>1, <1>2, Presses

LEMMA Kills ==
  ASSUME Before' = Before, After' = <<>>, Pressed' = "^K"
  PROVE  Editor!Step
<1>1. Editor!Press(Pressed')
  BY DEF Editor!Press, Editor!Replace, Before, After, Pressed, Visible, Shown, Ahead
<1>2. Pressed' \in Editor!Keys
  BY DEF Editor!Keys
<1> QED
  BY <1>1, <1>2, Presses

LEMMA Inserts ==
  ASSUME NEW c \in Text, Pressed' = c, Before' = Append(Before, c),
         \/ Len(SeenLine) < Room /\ After' = After
         \/ Len(SeenLine) = Room /\ After # <<>> /\ After' = SubSeq(After, 1, Len(After) - 1)
  PROVE  Editor!Step
<1>1. Editor!Insert(c)
  BY DEF Editor!Insert, Editor!Line, Editor!Front, SeenLine, Before, After, Visible, Shown, Ahead
<1>2. Editor!Press(c)
  BY <1>1 DEF Editor!Press, Pressed, Visible
<1>3. c \in Editor!Keys
  BY DEF Editor!Keys
<1> QED
  BY <1>2, <1>3, Presses

LEMMA Refuses ==
  ASSUME NEW c \in Text, Pressed' = c, Before' = Before, After' = After,
         Len(SeenLine) = Room, After = <<>>
  PROVE  Editor!Step
<1>1. Editor!Insert(c)
  BY DEF Editor!Insert, Editor!Line, SeenLine, Before, After, Visible, Shown, Ahead
<1>2. Editor!Press(c)
  BY <1>1 DEF Editor!Press, Pressed, Visible
<1>3. c \in Editor!Keys
  BY DEF Editor!Keys
<1> QED
  BY <1>2, <1>3, Presses

LEMMA Erases ==
  ASSUME After' = After,
         \/ /\ Pressed' = "^H"
            /\ IF Before = <<>> THEN Before' = Before
               ELSE Before' = SubSeq(Before, 1, Len(Before) - 1)
         \/ /\ Pressed' = "^W"
            /\ Before' = SubSeq(Before, 1, Len(Before) - (Len(Before) - Editor!WordStart(Before)))
  PROVE  Editor!Step
<1>1. Editor!Press(Pressed')
  BY DEF Editor!Press, Editor!Erase, Editor!Unchanged, Before, After, Pressed, Visible, Shown, Ahead
<1>2. Pressed' \in Editor!Keys
  BY DEF Editor!Keys
<1> QED
  BY <1>1, <1>2, Presses

LEMMA Moves ==
  ASSUME NEW n, n \in 0 .. Len(SeenLine),
         Before' = SubSeq(SeenLine, 1, n), After' = SubSeq(SeenLine, n + 1, Len(SeenLine)),
         \/ Pressed' = "^B" /\ n = IF Before = <<>> THEN 0 ELSE Len(Before) - 1
         \/ Pressed' = "^F" /\ n = IF After = <<>> THEN Len(Before) ELSE Len(Before) + 1
         \/ Pressed' = "^A" /\ n = 0
         \/ Pressed' = "^E" /\ n = Len(SeenLine)
  PROVE  Editor!Step
<1>1. Editor!Move(n)
  BY DEF Editor!Move, Editor!Line, SeenLine, Before, After, Visible, Shown, Ahead
<1>2. CASE Pressed' = "^B" /\ n = IF Before = <<>> THEN 0 ELSE Len(Before) - 1
  BY <1>1, <1>2, Presses DEF Editor!Press, Editor!Keys, Before, Pressed, Visible, Shown
<1>3. CASE Pressed' = "^F" /\ n = IF After = <<>> THEN Len(Before) ELSE Len(Before) + 1
  BY <1>1, <1>3, Presses DEF Editor!Press, Editor!Keys, Before, After, Pressed, Visible, Shown, Ahead
<1>4. CASE Pressed' = "^A" /\ n = 0
  BY <1>1, <1>4, Presses DEF Editor!Press, Editor!Keys, Pressed, Visible
<1>5. CASE Pressed' = "^E" /\ n = Len(SeenLine)
  BY <1>1, <1>5, Presses DEF Editor!Press, Editor!Keys, Editor!Line, SeenLine, Before, After,
     Pressed, Visible, Shown, Ahead
<1> QED
  BY <1>2, <1>3, <1>4, <1>5

LEMMA Recalls ==
  ASSUME Before' \in Seq(Text), Len(Before') <= Room, After' = <<>>,
         Pressed' \in {"^P", "^N"}
  PROVE  Editor!Step
<1>1. Editor!Press(Pressed')
  BY DEF Editor!Press, Editor!Recall, Before, After, Pressed, Visible, Shown, Ahead
<1>2. Pressed' \in Editor!Keys
  BY DEF Editor!Keys
<1> QED
  BY <1>1, <1>2, Presses

\* What is seen ends with a part, after the first n characters, that w
\* begins with.
Continuing(w, n) ==
  /\ After = <<>>
  /\ \E ends \in Separators :
       /\ n > 0 => Before[n] \in ends
       /\ \A x \in n + 1 .. Len(Before) : Before[x] \notin ends
  /\ Len(Before) <= n + Len(w)
  /\ SubSeq(Before, n + 1, Len(Before)) = SubSeq(w, 1, Len(Before) - n)

LEMMA ContinuingIs ==
  ASSUME NEW w, NEW n, Continuing(w, n)
  PROVE  Editor!Continues(w, n)
BY DEF Continuing, Editor!Continues, Before, After, Visible, Shown, Ahead

LEMMA Completes ==
  ASSUME NEW w \in Continuations, NEW n \in 0 .. Len(Before), Continuing(w, n),
         n + Len(w) <= Room, Before' = SubSeq(Before, 1, n) \o w, After' = <<>>,
         Pressed' = "^I"
  PROVE  Editor!Step
<1>1. Editor!Continues(w, n)
  BY ContinuingIs
<1>2. Editor!Complete
  BY <1>1 DEF Editor!Complete, Editor!Replace, Before, After, Visible, Shown, Ahead
<1>3. Editor!Press("^I")
  BY <1>2 DEF Editor!Press, Pressed, Visible
<1> QED
  BY <1>3, Presses DEF Editor!Keys

-----------------------------------------------------------------------------
(* What each key does to the text that is seen.                            *)

LEMMA Views ==
  ASSUME SessionInv, SessionInv', Visible, NEW k, KeyRead(k), state' = state
  PROVE  /\ Visible' /\ Pressed' = k
         /\ Parts(cmd, l, cursor, Before, After)
         /\ Parts(cmd', l', cursor', Before', After')
<1>1. Visible'
  BY StateKept DEF Visible, Open
<1>2. Pressed' = k
  BY <1>1 DEF Pressed, KeyRead
<1> QED
  BY <1>1, <1>2, Seen, SeenNext DEF SessionInv

\* u is s, of c characters, and then t, of k.
Joined(u, s, t, c, k) ==
  Len(u) = c + k /\ \A i \in 1 .. c + k : u[i] = IF i <= c THEN s[i] ELSE t[i - c]

LEMMA JoinIs ==
  ASSUME NEW s \in Seq(Text), NEW t \in Seq(Text), NEW c \in Nat, NEW k \in Nat,
         Len(s) = c, Len(t) = k
  PROVE  s \o t \in Seq(Text) /\ Joined(s \o t, s, t, c, k)
<1>1. s \o t \in Seq(Text) /\ Len(s \o t) = c + k
  BY ConcatProperties
<1>2. \A i \in 1 .. c + k : (s \o t)[i] = IF i <= c THEN s[i] ELSE t[i - c]
  BY ConcatProperties
<1> QED
  BY <1>1, <1>2 DEF Joined

LEMMA LineLength ==
  ASSUME NEW b, NEW n, NEW c, Parts(b, n, c, Before, After)
  PROVE  /\ SeenLine \in Seq(Text) /\ Len(SeenLine) = n
         /\ \A x \in 1 .. n : SeenLine[x] = b[x]
<1> PICK s : s = Before
  OBVIOUS
<1> PICK t : t = After
  OBVIOUS
<1>1. /\ n \in Nat /\ c \in Nat /\ c <= n
      /\ s \in Seq(Text) /\ Len(s) = c /\ \A x \in 1 .. c : s[x] = b[x]
      /\ t \in Seq(Text) /\ Len(t) = n - c /\ \A x \in 1 .. n - c : t[x] = b[c + x]
  BY DEF Parts
<1> PICK u : u = s \o t
  OBVIOUS
<1>2. u \in Seq(Text) /\ Joined(u, s, t, c, n - c)
  <2>1. n - c \in Nat
    BY <1>1
  <2> QED
    BY <1>1, <2>1, JoinIs
<1>3. Len(u) = n /\ \A i \in 1 .. n : u[i] = IF i <= c THEN s[i] ELSE t[i - c]
  <2>1. c + (n - c) = n
    BY <1>1
  <2> QED
    BY <1>2, <2>1 DEF Joined
<1>4. ASSUME NEW x \in 1 .. n PROVE u[x] = b[x]
  <2>1. CASE x <= c
    BY <1>1, <1>3, <2>1
  <2>2. CASE ~(x <= c)
    <3>1. x - c \in 1 .. n - c /\ c + (x - c) = x
      BY <1>1, <2>2
    <3> QED
      BY <1>1, <1>3, <2>2, <3>1
  <2> QED
    BY <2>1, <2>2
<1> QED
  BY <1>2, <1>3, <1>4 DEF SeenLine

\* Nothing was changed.
LEMMA SameSeen ==
  ASSUME UNCHANGED <<cmd, l, cursor, state>>
  PROVE  Before' = Before /\ After' = After
BY StateKept DEF Before, After, Visible, Open

LEMMA TypeAtEndSteps ==
  ASSUME SessionInv, SessionInv', Visible, NEW c \in Text, TypeAtEnd(c)
  PROVE  Editor!Step
<1>1. /\ KeyRead(c) /\ state' = state /\ cursor = l /\ l < Room
      /\ cmd' = [cmd EXCEPT ![cursor + 1] = c] /\ l' = l + 1 /\ cursor' = cursor + 1
  BY DEF TypeAtEnd, Edited, access
<1>2. /\ Pressed' = c
      /\ Parts(cmd, l, cursor, Before, After) /\ Parts(cmd', l', cursor', Before', After')
  BY <1>1, Views
<1>3. /\ l \in Nat /\ cursor \in Nat /\ MaxLine = Room + 1 /\ Room \in Nat
      /\ cmd \in [1 .. MaxLine -> Chars]
  BY Indices DEF SessionInv
<1>4. cmd'[cursor + 1] = c /\ \A x \in 1 .. cursor : cmd'[x] = cmd[x]
  BY <1>1, <1>3
<1>5. Before' = Append(Before, c)
  <2>1. Parts(cmd', l', cursor + 1, Before', After')
    BY <1>1, <1>2
  <2> QED
    BY <1>2, <1>4, <2>1, AppendIs
<1>6. After = <<>> /\ After' = <<>>
  BY <1>1, <1>2, NothingIs
<1>7. Len(SeenLine) = l
  BY <1>2, LineLength
<1> QED
  BY <1>1, <1>2, <1>5, <1>6, <1>7, Inserts

LEMMA TypeAtFullEndSteps ==
  ASSUME SessionInv, SessionInv', Visible, NEW c \in Text, TypeAtFullEnd(c)
  PROVE  Editor!Step
<1>1. /\ KeyRead(c) /\ state' = state /\ cursor = l /\ l = Room
      /\ cmd' = [cmd EXCEPT ![l + 1] = NUL] /\ UNCHANGED <<l, cursor>>
  BY DEF TypeAtFullEnd, Edited, access
<1>2. cmd' = cmd
  BY <1>1, Indices DEF SessionInv
<1>3. Before' = Before /\ After' = After
  BY <1>1, <1>2, SameSeen
<1>4. Pressed' = c /\ Parts(cmd, l, cursor, Before, After)
  BY <1>1, Views
<1>5. Len(SeenLine) = l /\ After = <<>>
  BY <1>1, <1>4, LineLength, NothingIs
<1> QED
  BY <1>1, <1>3, <1>4, <1>5, Refuses

LEMMA TypeInsideSteps ==
  ASSUME SessionInv, SessionInv', Visible, NEW c \in Text, TypeInside(c)
  PROVE  Editor!Step
<1>1. /\ KeyRead(c) /\ state' = state /\ cursor < l
      /\ l' = LengthAfterInsert /\ cursor' = cursor + 1
  BY DEF TypeInside, Edited, access
<1>2. /\ Pressed' = c
      /\ Parts(cmd, l, cursor, Before, After) /\ Parts(cmd', l', cursor', Before', After')
  BY <1>1, Views
<1>3. /\ l \in Nat /\ cursor \in Nat /\ MaxLine \in Nat /\ MaxLine = Room + 1 /\ Room \in Nat
      /\ l <= Room
  BY Indices DEF SessionInv
<1> PICK n : n = LengthAfterInsert
  OBVIOUS
<1>4. n \in Nat /\ n <= Room /\ (l = Room => n = l) /\ (l # Room => n = l + 1)
  BY <1>3 DEF LengthAfterInsert
<1>5. ASSUME NEW x \in 1 .. MaxLine
      PROVE  /\ x <= cursor => cmd'[x] = cmd[x]
             /\ x = cursor + 1 => cmd'[x] = c
             /\ cursor + 2 <= x /\ x <= n => cmd'[x] = cmd[x - 1]
  <2>1. x \in cursor + 2 .. n <=> cursor + 2 <= x /\ x <= n
    BY <1>3, <1>4
  <2>2. /\ x <= cursor => x # cursor + 1 /\ ~(cursor + 2 <= x) /\ x # l + 1
        /\ x = cursor + 1 => ~(cursor + 2 <= x) /\ x # l + 1
        /\ cursor + 2 <= x /\ x <= n => x # cursor + 1 /\ ~(x = l + 1 /\ l = Room)
    BY <1>1, <1>3, <1>4
  <2>3. cmd'[x] = CASE x = cursor + 1 -> c
                    [] x \in cursor + 2 .. n -> cmd[x - 1]
                    [] x = l + 1 /\ l = Room -> NUL
                    [] OTHER -> cmd[x]
    BY DEF TypeInside
  <2> QED
    BY <2>1, <2>2, <2>3
<1>6. Before' = Append(Before, c)
  <2>1. Parts(cmd', l', cursor + 1, Before', After')
    BY <1>1, <1>2
  <2>2. cursor + 1 \in 1 .. MaxLine /\ \A x \in 1 .. cursor : x \in 1 .. MaxLine /\ x <= cursor
    BY <1>1, <1>3
  <2>3. cmd'[cursor + 1] = c /\ \A x \in 1 .. cursor : cmd'[x] = cmd[x]
    BY <1>5, <2>2
  <2> QED
    BY <1>2, <2>1, <2>3, AppendIs
<1>7. Len(SeenLine) = l /\ After # <<>>
  BY <1>1, <1>2, LineLength, NothingIs
<1>8. ASSUME NEW x \in 1 .. n - cursor - 1
      PROVE  cmd'[(cursor + 1) + x] = cmd[cursor + x]
  <2>1. /\ (cursor + 1) + x \in 1 .. MaxLine
        /\ cursor + 2 <= (cursor + 1) + x /\ (cursor + 1) + x <= n
        /\ ((cursor + 1) + x) - 1 = cursor + x
    BY <1>3, <1>4
  <2> QED
    BY <1>5, <2>1
<1>9. CASE l # Room
  <2>1. l' - cursor' = l - cursor /\ n - cursor - 1 = l - cursor
    BY <1>1, <1>3, <1>4, <1>9
  <2>2. \A x \in 1 .. l - cursor : cmd'[cursor' + x] = cmd[cursor + x]
    BY <1>1, <1>8, <2>1
  <2>3. After' = After
    BY <1>2, <2>1, <2>2, RestIs
  <2>4. Len(SeenLine) < Room
    BY <1>3, <1>7, <1>9
  <2> QED
    BY <1>2, <1>6, <2>3, <2>4, Inserts
<1>10. CASE l = Room
  <2> PICK t : t = After
    OBVIOUS
  <2>1. t \in Seq(Text) /\ Len(t) = l - cursor /\ \A x \in 1 .. l - cursor : t[x] = cmd[cursor + x]
    BY <1>2 DEF Parts
  <2> PICK k \in Nat : k = l - cursor - 1
    BY <1>1, <1>3
  <2>2. Len(t) = k + 1 /\ \A x \in 1 .. k : x \in 1 .. l - cursor
    BY <1>3, <2>1
  <2> PICK u : u = SubSeq(t, 1, k)
    OBVIOUS
  <2>3. u \in Seq(Text) /\ Len(u) = k /\ \A x \in 1 .. k : u[x] = t[x]
    BY <2>1, <2>2, SubSeqProperties
  <2>4. l' - cursor' = k /\ n - cursor - 1 = k
    BY <1>1, <1>3, <1>4, <1>10
  <2>5. \A x \in 1 .. l' - cursor' : u[x] = cmd'[cursor' + x]
    <3> TAKE x \in 1 .. l' - cursor'
    <3>1. x \in 1 .. k /\ x \in 1 .. n - cursor - 1 /\ x \in 1 .. l - cursor
      BY <2>2, <2>4
    <3>2. cmd'[(cursor + 1) + x] = cmd[cursor + x]
      BY <1>8, <3>1
    <3> QED
      BY <1>1, <2>1, <2>3, <3>1, <3>2
  <2>6. After' = u
    BY <1>2, <2>3, <2>4, <2>5, AfterIs
  <2>7. After' = SubSeq(After, 1, Len(After) - 1)
    <3>1. Len(t) - 1 = k
      BY <2>2
    <3> QED
      BY <2>6, <3>1
  <2>8. Len(SeenLine) = Room
    BY <1>7, <1>10
  <2> QED
    BY <1>2, <1>6, <1>7, <2>7, <2>8, Inserts
<1> QED
  BY <1>9, <1>10

\* The two definitions of where the last word begins agree.
LEMMA WordStartAgrees ==
  ASSUME SessionInv, Visible
  PROVE  Editor!WordStart(Before) = WordStart
<1> PICK s : s = Before
  OBVIOUS
<1> PICK w : w = WordStart
  OBVIOUS
<1>1. LineOK /\ cursor \in Nat /\ Len(s) = cursor /\ \A x \in 1 .. cursor : s[x] = cmd[x]
  BY Seen, Indices DEF SessionInv, Parts
<1>2. PICK e : WordEnds(cursor, e) /\ WordBegins(e, w)
  BY <1>1, WordStartBegins
<1>3. /\ e \in 0 .. cursor /\ (e = 0 \/ cmd[e] # Blank) /\ \A y \in e + 1 .. cursor : cmd[y] = Blank
      /\ w \in 0 .. e /\ (w = 0 \/ cmd[w] = Blank) /\ \A y \in w + 1 .. e : cmd[y] # Blank
  BY <1>2 DEF WordEnds, WordBegins
<1> DEFINE Precedes(y) == s[y] = Blank /\ \E z \in y .. Len(s) : s[z] # Blank
           Fits(x) == /\ x > 0 => Precedes(x)
                      /\ \A y \in x + 1 .. Len(s) : ~Precedes(y)
<1>4. w \in 0 .. cursor
  BY <1>1, <1>3
<1>5. w > 0 => Precedes(w)
  <2> SUFFICES ASSUME w > 0 PROVE Precedes(w)
    OBVIOUS
  <2>1. e > 0 /\ e \in 1 .. cursor /\ e \in w .. cursor /\ w \in 1 .. cursor
    BY <1>1, <1>3
  <2>2. s[e] # Blank /\ s[w] = Blank
    BY <1>1, <1>3, <2>1
  <2> QED
    BY <1>1, <2>1, <2>2
<1>6. ASSUME NEW y \in w + 1 .. cursor PROVE ~Precedes(y)
  <2>1. y \in 1 .. cursor
    BY <1>1, <1>4
  <2>2. CASE y <= e
    <3>1. y \in w + 1 .. e
      BY <1>1, <1>3, <2>2
    <3> QED
      BY <1>1, <1>3, <2>1, <3>1
  <2>3. CASE ~(y <= e)
    <3>1. \A z \in y .. cursor : z \in e + 1 .. cursor /\ z \in 1 .. cursor
      BY <1>1, <1>3, <2>1, <2>3
    <3>2. \A z \in y .. cursor : s[z] = Blank
      BY <1>1, <1>3, <3>1
    <3> QED
      BY <1>1, <3>2
  <2> QED
    BY <2>2, <2>3
<1>7. Fits(w)
  BY <1>1, <1>5, <1>6
<1>8. ASSUME NEW x \in 0 .. cursor, Fits(x) PROVE x = w
  <2> HIDE DEF Precedes
  <2>1. CASE x < w
    <3>1. w \in x + 1 .. cursor /\ w > 0
      BY <1>1, <1>4, <2>1
    <3> QED
      BY <1>1, <1>5, <1>8, <3>1
  <2>2. CASE w < x
    <3>1. x \in w + 1 .. cursor /\ x > 0
      BY <1>1, <1>4, <2>2
    <3> QED
      BY <1>6, <1>8, <3>1
  <2> QED
    BY <1>1, <1>4, <2>1, <2>2
<1>9. Editor!WordStart(s) = CHOOSE x \in 0 .. Len(s) : Fits(x)
  BY DEF Editor!WordStart, Editor!Blank, Blank
<1>10. (CHOOSE x \in 0 .. cursor : Fits(x)) = w
  <2> HIDE DEF Fits
  <2> QED
    BY <1>4, <1>7, <1>8
<1> QED
  BY <1>1, <1>9, <1>10

LEMMA EraseSteps ==
  ASSUME SessionInv, SessionInv', Visible, NEW k \in {"^H", "^W"}, Erase(k)
  PROVE  Editor!Step
<1> PICK n : n = IF k = "^W" THEN cursor - WordStart ELSE 1
  OBVIOUS
<1>1. /\ KeyRead(k) /\ state' = state /\ cursor > 0
      /\ cmd' = Erased(n) /\ l' = l - n /\ cursor' = cursor - n
  BY DEF Erase, Edited, access
<1>2. /\ Pressed' = k
      /\ Parts(cmd, l, cursor, Before, After) /\ Parts(cmd', l', cursor', Before', After')
  BY <1>1, Views
<1>3. /\ LineOK /\ ~Hidden /\ l \in Nat /\ cursor \in Nat /\ MaxLine \in Nat /\ MaxLine = Room + 1
      /\ Room \in Nat /\ l <= Room /\ cursor <= l
  BY Indices DEF SessionInv, Visible
<1>4. n \in Nat /\ n <= cursor
  BY <1>1, <1>3, WordStartIs
<1>5. ASSUME NEW x \in 1 .. MaxLine
      PROVE  /\ x <= cursor - n => cmd'[x] = cmd[x]
             /\ cursor - n < x /\ x <= l - n => cmd'[x] = cmd[x + n]
  BY <1>1, <1>3, <1>4, ErasedIs
<1>6. Before' = SubSeq(Before, 1, cursor - n)
  <2>1. \A x \in 1 .. cursor - n : x \in 1 .. MaxLine /\ x <= cursor - n
    BY <1>3, <1>4
  <2>2. \A x \in 1 .. cursor - n : cmd'[x] = cmd[x]
    BY <1>5, <2>1
  <2>3. cursor' <= cursor /\ \A x \in 1 .. cursor' : cmd'[x] = cmd[x]
    BY <1>1, <1>3, <1>4, <2>2
  <2>4. Before' = SubSeq(Before, 1, cursor')
    BY <1>2, <2>3, PrefixIs
  <2> QED
    BY <1>1, <2>4
<1>7. After' = After
  <2>1. l' - cursor' = l - cursor
    BY <1>1, <1>3, <1>4
  <2>2. ASSUME NEW x \in 1 .. l - cursor PROVE cmd'[cursor' + x] = cmd[cursor + x]
    <3> PICK y : y = cursor - n + x
      OBVIOUS
    <3>1. y \in 1 .. MaxLine /\ cursor - n < y /\ y <= l - n /\ y + n = cursor + x
      BY <1>3, <1>4
    <3>2. cmd'[y] = cmd[y + n]
      BY <1>5, <3>1
    <3> QED
      BY <1>1, <3>1, <3>2
  <2> QED
    BY <1>2, <2>1, <2>2, RestIs
<1>8. Len(Before) = cursor /\ Before # <<>>
  BY <1>1, <1>2, NothingIs DEF Parts
<1>9. CASE k = "^H"
  <2>1. n = 1
    BY <1>9
  <2> QED
    BY <1>2, <1>6, <1>7, <1>8, <1>9, <2>1, Erases
<1>10. CASE k = "^W"
  <2>1. n = cursor - Editor!WordStart(Before)
    BY <1>10, WordStartAgrees
  <2>2. Before' = SubSeq(Before, 1, Len(Before) - (Len(Before) - Editor!WordStart(Before)))
    BY <1>6, <1>8, <2>1
  <2> QED
    BY <1>2, <1>7, <1>10, <2>2, Erases
<1> QED
  BY <1>9, <1>10

LEMMA EraseNothingSteps ==
  ASSUME SessionInv, SessionInv', Visible, NEW k \in {"^H", "^W"}, EraseNothing(k)
  PROVE  Editor!Step
<1>1. KeyRead(k) /\ cursor = 0 /\ UNCHANGED <<cmd, l, cursor, state>>
  BY DEF EraseNothing, Bell, Edited, line, access
<1>2. Pressed' = k /\ Parts(cmd, l, cursor, Before, After)
  BY <1>1, Views
<1>3. Before' = Before /\ After' = After
  BY <1>1, SameSeen
<1>4. Before = <<>>
  BY <1>1, <1>2, NothingIs
<1>5. CASE k = "^H"
  BY <1>2, <1>3, <1>4, <1>5, Erases
<1>6. CASE k = "^W"
  <2>1. Editor!WordStart(Before) = 0
    <3>1. WordStart = 0
      BY <1>1, WordStartIs DEF SessionInv
    <3> QED
      BY <3>1, WordStartAgrees
  <2>2. Len(Before) = 0
    BY <1>4
  <2>3. SubSeq(<<>>, 1, 0 - (0 - 0)) = <<>>
    OBVIOUS
  <2>4. Before' = SubSeq(Before, 1, Len(Before) - (Len(Before) - Editor!WordStart(Before)))
    BY <1>3, <1>4, <2>1, <2>2, <2>3
  <2> QED
    BY <1>2, <1>3, <1>6, <2>4, Erases
<1> QED
  BY <1>5, <1>6

LEMMA ClearLineSteps ==
  ASSUME SessionInv, SessionInv', Visible, ClearLine
  PROVE  Editor!Step
<1>1. KeyRead("^U") /\ state' = state /\ l' = 0 /\ cursor' = 0
  BY DEF ClearLine, Edited, access
<1>2. Pressed' = "^U" /\ Parts(cmd', l', cursor', Before', After')
  BY <1>1, Views
<1>3. Before' = <<>> /\ After' = <<>>
  BY <1>1, <1>2, NothingIs
<1> QED
  BY <1>2, <1>3, Empties

LEMMA KillToEndSteps ==
  ASSUME SessionInv, SessionInv', Visible, KillToEnd
  PROVE  Editor!Step
<1>1. KeyRead("^K") /\ state' = state /\ cmd' = Zeroed(cursor + 1) /\ l' = cursor /\ cursor' = cursor
  BY DEF KillToEnd, Edited, access
<1>2. /\ Pressed' = "^K"
      /\ Parts(cmd, l, cursor, Before, After) /\ Parts(cmd', l', cursor', Before', After')
  BY <1>1, Views
<1>3. LineOK /\ l \in Nat /\ cursor \in Nat /\ cursor <= l /\ MaxLine \in Nat /\ l <= MaxLine
  BY Indices DEF SessionInv
<1>4. \A x \in 1 .. MaxLine : x <= cursor => cmd'[x] = cmd[x]
  BY <1>1, <1>3, ZeroedIs
<1>5. Before' = Before
  <2> PICK s : s = Before
    OBVIOUS
  <2>1. s \in Seq(Text) /\ Len(s) = cursor /\ \A x \in 1 .. cursor : s[x] = cmd[x]
    BY <1>2 DEF Parts
  <2>2. \A x \in 1 .. cursor : s[x] = cmd'[x]
    BY <1>3, <1>4, <2>1
  <2>3. Len(s) = cursor' /\ \A x \in 1 .. cursor' : s[x] = cmd'[x]
    BY <1>1, <2>1, <2>2
  <2>4. Before' = s
    BY <1>2, <2>1, <2>3, BeforeIs
  <2> QED
    BY <2>4
<1>6. After' = <<>>
  BY <1>1, <1>2, NothingIs
<1> QED
  BY <1>2, <1>5, <1>6, Kills

\* The characters of w are the first n of b.
Spelled(w, b, n) == w \in Seq(Text) /\ Len(w) = n /\ \A x \in 1 .. n : w[x] = b[x]

\* A line is cut at the cursor.
LEMMA SplitIs ==
  ASSUME NEW b, NEW n, NEW c, NEW s, NEW t, Parts(b, n, c, s, t), NEW w, Spelled(w, b, n)
  PROVE  s = SubSeq(w, 1, c) /\ t = SubSeq(w, c + 1, n)
<1>0. w \in Seq(Text) /\ Len(w) = n /\ \A x \in 1 .. n : w[x] = b[x]
  BY DEF Spelled
<1>1. n \in Nat /\ c \in Nat /\ c <= n
  BY DEF Parts
<1>2. s = SubSeq(w, 1, c)
  <2> PICK u : u = SubSeq(w, 1, c)
    OBVIOUS
  <2>1. u \in Seq(Text) /\ Len(u) = c /\ \A x \in 1 .. c : u[x] = w[x]
    BY <1>0, <1>1, SubSeqProperties
  <2>2. \A x \in 1 .. c : u[x] = b[x]
    BY <1>0, <1>1, <2>1
  <2>3. s = u
    BY <2>1, <2>2, BeforeIs
  <2> QED
    BY <2>3
<1>3. t = SubSeq(w, c + 1, n)
  <2> PICK u : u = SubSeq(w, c + 1, n)
    OBVIOUS
  <2>0. \A x \in c + 1 .. n : x \in 1 .. n /\ w[x] \in Text
    BY <1>0, <1>1
  <2>1. u \in Seq(Text) /\ Len(u) = n - c /\ \A x \in 1 .. n - c : u[x] = w[c + x]
    BY <1>0, <1>1, <2>0
  <2>2. \A x \in 1 .. n - c : u[x] = b[c + x]
    <3> TAKE x \in 1 .. n - c
    <3>1. c + x \in 1 .. n
      BY <1>1
    <3> QED
      BY <1>0, <2>1, <3>1
  <2>3. Ends(u, b, n, c)
    BY <2>1, <2>2 DEF Ends
  <2>4. \A v : Ends(v, b, n, c) => t = v
    BY AfterEnds
  <2>5. t = u
    BY <2>3, <2>4, Zenon
  <2> QED
    BY <2>5
<1> QED
  BY <1>2, <1>3

LEMMA MotionSteps ==
  ASSUME SessionInv, SessionInv', Visible, Motion
  PROVE  Editor!Step
<1>1. UNCHANGED <<cmd, l, state>>
  BY DEF Motion, Edited, access
<1> PICK k :
      /\ KeyRead(k)
      /\ \/ k = "^B" /\ cursor' = IF cursor > 0 THEN cursor - 1 ELSE 0
         \/ k = "^F" /\ cursor' = IF cursor < l THEN cursor + 1 ELSE cursor
         \/ k = "^A" /\ cursor' = 0
         \/ k = "^E" /\ cursor' = l
  BY DEF Motion
<1>2. /\ Pressed' = k
      /\ Parts(cmd, l, cursor, Before, After) /\ Parts(cmd', l', cursor', Before', After')
  BY <1>1, Views
<1>3. l \in Nat /\ cursor \in Nat /\ cursor <= l
  BY Indices DEF SessionInv
<1> PICK n : n = cursor'
  OBVIOUS
<1>4. n \in Nat /\ n <= l
  BY <1>3
<1>5. Parts(cmd, l, n, Before', After')
  BY <1>1, <1>2
<1> PICK w : w = SeenLine
  OBVIOUS
<1>6. w \in Seq(Text) /\ Len(w) = l /\ \A x \in 1 .. l : w[x] = cmd[x]
  BY <1>2, LineLength
<1>7. Before' = SubSeq(w, 1, n) /\ After' = SubSeq(w, n + 1, l)
  BY <1>5, <1>6, SplitIs DEF Spelled
<1>8. Before' = SubSeq(SeenLine, 1, n) /\ After' = SubSeq(SeenLine, n + 1, Len(SeenLine))
  BY <1>6, <1>7
<1>9. n \in 0 .. Len(SeenLine)
  BY <1>3, <1>4, <1>6
<1>10. /\ Len(Before) = cursor /\ Len(After) = l - cursor /\ Len(SeenLine) = l
       /\ (cursor = 0 <=> Before = <<>>) /\ (l = cursor <=> After = <<>>)
  BY <1>2, <1>6, NothingIs DEF Parts
<1>11. \/ k = "^B" /\ n = IF Before = <<>> THEN 0 ELSE Len(Before) - 1
       \/ k = "^F" /\ n = IF After = <<>> THEN Len(Before) ELSE Len(Before) + 1
       \/ k = "^A" /\ n = 0
       \/ k = "^E" /\ n = Len(SeenLine)
  BY <1>3, <1>10
<1> QED
  BY <1>2, <1>8, <1>9, <1>11, Moves

\* Keys that leave the text alone.
LEMMA UnchangedSteps ==
  ASSUME SessionInv, SessionInv', Visible, UNCHANGED <<cmd, l, cursor, state>>,
         NEW k \in {"^C", "^D", "^I", "^L", "^P", "^N", "?", "^Z"}, KeyRead(k)
  PROVE  Editor!Step
<1>1. Pressed' = k
  BY Views
<1>2. Before' = Before /\ After' = After
  BY SameSeen
<1> QED
  BY <1>1, <1>2, Stays

LEMMA BellSteps ==
  ASSUME SessionInv, SessionInv', Visible, Bell \/ Listed,
         NEW k \in {"^C", "^D", "^I", "^L", "^P", "^N", "?", "^Z"}, KeyRead(k)
  PROVE  Editor!Step
<1>1. UNCHANGED <<cmd, l, cursor, state>>
  BY DEF Bell, Listed, Edited, line, access
<1> QED
  BY <1>1, UnchangedSteps

\* The part of the line that TAB completes, as it is seen.
LEMMA PartSeen ==
  ASSUME LineOK, Visible, cursor = l, NEW w \in Seq(Text), NEW n \in 0 .. l,
         NEW ends \in Separators, Completing(n, ends), Continues(w, n)
  PROVE  Continuing(w, n) /\ Len(Before) = l
<1> PICK s : s = Before
  OBVIOUS
<1>1. /\ l \in Nat /\ MaxLine \in Nat /\ l <= MaxLine /\ n \in Nat /\ n <= l /\ ~Hidden
  BY Indices DEF Visible
<1>2. /\ s \in Seq(Text) /\ Len(s) = l /\ (\A x \in 1 .. l : s[x] = cmd[x]) /\ After = <<>>
  BY Seen, NothingIs DEF Parts
<1>3. n > 0 => s[n] \in ends
  BY <1>1, <1>2 DEF Completing
<1>4. \A x \in n + 1 .. l : s[x] \notin ends
  <2> TAKE x \in n + 1 .. l
  <2>1. x \in 1 .. l
    BY <1>1
  <2> QED
    BY <1>2, <2>1 DEF Completing
<1> PICK u : u = SubSeq(s, n + 1, l)
  OBVIOUS
<1> PICK v : v = SubSeq(cmd, n + 1, l)
  OBVIOUS
<1> PICK k \in Nat : k = l - n
  BY <1>1
<1>5. u \in Seq(Text) /\ Len(u) = k /\ \A x \in 1 .. k : u[x] = s[n + x]
  <2>1. \A x \in n + 1 .. l : s[x] \in Text
    BY <1>1, <1>2
  <2> QED
    BY <1>1, <1>2, <2>1, SubSeqProperties
<1>6. v \in Seq(Text) /\ Len(v) = k /\ \A x \in 1 .. k : v[x] = cmd[n + x]
  <2>1. l <= l
    BY <1>1
  <2> QED
    BY <1>1, <2>1, PartIsText
<1>7. \A x \in 1 .. k : u[x] = v[x]
  <2> TAKE x \in 1 .. k
  <2>1. n + x \in 1 .. l
    BY <1>1
  <2> QED
    BY <1>2, <1>5, <1>6, <2>1
<1>8. u = v
  BY <1>5, <1>6, <1>7, SeqEqual
<1>9. l <= n + Len(w) /\ SubSeq(w, 1, l - n) = v
  BY <1>1 DEF Continues
<1> QED
  BY <1>2, <1>3, <1>4, <1>8, <1>9 DEF Continuing

LEMMA CompletedSteps ==
  ASSUME SessionInv, SessionInv', Visible, KeyRead("^I"), Prompting, cursor = l,
         NEW w \in Continuations, NEW start \in 0 .. l,
         NEW ends \in Separators, Completing(start, ends),
         Continues(w, start), Completed(w, start), start + Len(w) <= Room
  PROVE  Editor!Step
<1>0. w \in Seq(Text)
  BY ContinuationIsText
<1> PICK n \in Nat : n = Len(w)
  BY <1>0
<1>1. /\ state' = state
      /\ cmd' = Buffer(Continued(w, start)) /\ l' = start + n /\ cursor' = l'
  <2>1. ~(start + Len(w) > Room)
    BY Indices DEF SessionInv
  <2> QED
    BY <2>1 DEF Completed, Continued, Edited, access
<1>2. /\ Pressed' = "^I"
      /\ Parts(cmd, l, cursor, Before, After) /\ Parts(cmd', l', cursor', Before', After')
  BY <1>1, Views
<1>3. /\ LineOK /\ ~Hidden /\ l \in Nat /\ MaxLine \in Nat /\ l <= MaxLine
      /\ start \in Nat /\ start <= l
  BY Indices DEF SessionInv, Visible
<1>4. Continuing(w, start) /\ Len(Before) = l
  BY <1>0, <1>3, PartSeen
<1> PICK s : s = Continued(w, start)
  OBVIOUS
<1>5. /\ s \in Seq(Text) /\ Len(s) = start + n
      /\ \A x \in 1 .. start + n : s[x] = IF x <= start THEN cmd[x] ELSE w[x - start]
  BY <1>0, <1>3, ContinuedIs
<1>6. \A x \in 1 .. start + n : cmd'[x] = s[x]
  BY <1>1, <1>5, BufferIs
<1>7. Before' = s
  <2>1. Len(s) = cursor' /\ \A x \in 1 .. cursor' : s[x] = cmd'[x]
    BY <1>1, <1>5, <1>6
  <2> QED
    BY <1>2, <1>5, <2>1, BeforeIs
<1>8. SubSeq(Before, 1, start) = SubSeq(cmd, 1, start)
  <2> PICK b : b = Before
    OBVIOUS
  <2>1. b \in Seq(Text) /\ Len(b) = l /\ \A x \in 1 .. l : b[x] = cmd[x]
    BY <1>2, <1>4 DEF Parts
  <2> PICK u : u = SubSeq(b, 1, start)
    OBVIOUS
  <2> PICK v : v = SubSeq(cmd, 0 + 1, start)
    OBVIOUS
  <2>2. u \in Seq(Text) /\ Len(u) = start /\ \A x \in 1 .. start : u[x] = b[x]
    BY <1>3, <2>1, SubSeqProperties
  <2>3. 0 \in Nat /\ 0 <= start
    BY <1>3
  <2>4. v \in Seq(Text) /\ Len(v) = start - 0 /\ \A x \in 1 .. start - 0 : v[x] = cmd[0 + x]
    BY <1>3, <2>3, PartIsText
  <2>5. \A x \in 1 .. start : u[x] = v[x]
    <3> TAKE x \in 1 .. start
    <3>1. x \in 1 .. l /\ x \in 1 .. start - 0 /\ 0 + x = x
      BY <1>3
    <3> QED
      BY <2>1, <2>2, <2>4, <3>1
  <2>6. Len(v) = Len(u)
    BY <1>3, <2>2, <2>4
  <2>7. u = v
    BY <2>2, <2>4, <2>5, <2>6, SeqEqual
  <2>8. v = SubSeq(cmd, 1, start)
    OBVIOUS
  <2> QED
    BY <2>7, <2>8
<1>9. Before' = SubSeq(Before, 1, start) \o w
  BY <1>7, <1>8 DEF Continued
<1>10. After' = <<>>
  BY <1>1, <1>2, NothingIs
<1>11. start \in 0 .. Len(Before)
  BY <1>3, <1>4
<1> QED
  BY <1>2, <1>4, <1>9, <1>10, <1>11, Completes

LEMMA CompleteSteps ==
  ASSUME SessionInv, SessionInv', Visible, Complete, state' # "overrun"
  PROVE  Editor!Step
<1>1. KeyRead("^I")
  BY DEF Complete
<1>2. CASE Bell \/ Listed
  BY <1>1, <1>2, BellSteps
<1>3. ~Overrun
  BY DEF Overrun
<1> QED
  BY <1>1, <1>2, <1>3, CompleteIs, CompletedSteps DEF SessionInv

LEMMA RecallSteps ==
  ASSUME SessionInv, SessionInv', Visible, NEW k \in {"^P", "^N"}, Recall(k), state' # "overrun"
  PROVE  Editor!Step
<1>1. KeyRead(k) /\ state' = state
  BY DEF Recall, Recalled, Bell, Edited, Overrun, access
<1>2. Pressed' = k /\ Parts(cmd', l', cursor', Before', After')
  BY <1>1, Views
<1>3. CASE UNCHANGED <<cmd, l, cursor>>
  BY <1>1, <1>3, UnchangedSteps
<1>4. CASE cursor' = l'
  <2>1. After' = <<>>
    BY <1>2, <1>4, NothingIs
  <2>2. Before' \in Seq(Text) /\ Len(Before') <= Room
    <3>1. cursor' <= Room
      BY <1>4, Lengths DEF SessionInv, LineOK, Valid
    <3> QED
      BY <1>2, <3>1 DEF Parts
  <2> QED
    BY <1>2, <2>1, <2>2, Recalls
<1> QED
  BY <1>3, <1>4 DEF Recall, Recalled, Bell, Overrun, line

\* The step that leaves the bounds of an array.
LEMMA OverrunLoses ==
  ASSUME SessionInv, SessionInv', Visible, state' = "overrun", Edit
  PROVE  Editor!Lose
<1>1. state # "overrun"
  BY DEF Edit, Type, TypeAtEnd, TypeAtFullEnd, TypeInside, Erase, EraseNothing, ClearLine,
     KillToEnd, Motion, Redraw, Ignored, Complete, Help, Recall, KeyRead, Open
<1>2. ~Edited
  BY <1>1 DEF Edited, access
<1>3. \A k : ~Recalled(k)
  BY <1>1 DEF Recalled, access
<1>4. \/ Complete /\ ~Bell /\ ~Listed
      \/ Recall("^P") /\ Overrun
  BY <1>2, <1>3 DEF Edit, Type, TypeAtEnd, TypeAtFullEnd, TypeInside, Erase, EraseNothing,
     ClearLine, KillToEnd, Motion, Redraw, Ignored, Help, Recall, Bell, Listed
<1>5. ASSUME Overrun PROVE Before' = Before /\ After' = After /\ Visible'
  <2>1. UNCHANGED <<cmd, l, cursor>>
    BY <1>5 DEF Overrun, line
  <2>2. Visible'
    BY DEF Visible, Hidden
  <2> QED
    BY <2>1, <2>2 DEF Before, After
<1>6. CASE Recall("^P") /\ Overrun
  <2>1. key' = "^P"
    BY <1>6 DEF Recall, KeyRead
  <2> QED
    BY <1>5, <1>6, <2>1 DEF Editor!Lose, Editor!Unchanged, Before, After, Visible, Shown, Ahead
<1>7. CASE Complete /\ ~Bell /\ ~Listed
  <2>1. key' = "^I" /\ LineOK
    BY <1>7 DEF Complete, KeyRead, SessionInv
  <2>2. ~(\E w \in Continuations, n \in 0 .. l : Completed(w, n) /\ n + Len(w) <= Room)
    <3> SUFFICES ASSUME NEW w \in Continuations, NEW n \in 0 .. l, Completed(w, n),
                        n + Len(w) <= Room
                 PROVE  FALSE
      OBVIOUS
    <3>1. ~(n + Len(w) > Room)
      BY <2>1, ContinuationIsText, Indices
    <3> QED
      BY <1>2, <3>1 DEF Completed
  <2>3. Overrun /\ cursor = l
    BY <1>7, <2>1, <2>2, CompleteIs
  <2> PICK w \in Continuations, n \in 0 .. l :
        /\ \E ends \in Separators : Completing(n, ends)
        /\ Continues(w, n) /\ n + Len(w) > Room
    BY <1>7, <2>1, <2>2, CompleteIs
  <2>4. Continuing(w, n) /\ Len(Before) = l
    BY <2>1, <2>3, ContinuationIsText, PartSeen
  <2>5. Editor!Continues(w, n)
    BY <2>4, ContinuingIs
  <2>6. n \in 0 .. Len(Before)
    BY <2>4
  <2> QED
    BY <1>5, <2>1, <2>3, <2>5, <2>6
       DEF Editor!Lose, Editor!Unchanged, Before, After, Visible, Shown, Ahead
<1> QED
  BY <1>4, <1>6, <1>7

\* A line is entered, or given up, and the next one is shown.
LEMMA EmptiedSteps ==
  ASSUME SessionInv', Visible', l' = 0, cursor' = 0,
         NEW k \in {"CR", "^D", "^U", "^Z"}, KeyRead(k)
  PROVE  Editor!Step
<1>1. Pressed' = k
  BY DEF Pressed, KeyRead
<1>2. Parts(cmd', l', cursor', Before', After')
  BY SeenNext DEF SessionInv
<1>3. Before' = <<>> /\ After' = <<>>
  BY <1>2, NothingIs
<1> QED
  BY <1>1, <1>3, Empties

LEMMA EditSteps ==
  ASSUME SessionInv, SessionInv', Visible, Edit, state' # "overrun"
  PROVE  Editor!Step
<1>1. ASSUME NEW c \in Text, Type(c) PROVE Editor!Step
  BY <1>1, TypeAtEndSteps, TypeAtFullEndSteps, TypeInsideSteps DEF Type
<1>2. ASSUME NEW k \in {"^H", "^W"}, Erase(k) \/ EraseNothing(k) PROVE Editor!Step
  BY <1>2, EraseSteps, EraseNothingSteps
<1>3. CASE Redraw
  <2>1. KeyRead("^L") /\ UNCHANGED <<cmd, l, cursor, state>>
    BY <1>3 DEF Redraw, Edited, line, access
  <2> QED
    BY <2>1, UnchangedSteps
<1>4. CASE Ignored
  BY <1>4, BellSteps DEF Ignored
<1>5. CASE Help
  BY <1>5, BellSteps DEF Help
<1>6. ASSUME NEW k \in {"^P", "^N"}, Recall(k) PROVE Editor!Step
  BY <1>6, RecallSteps
<1> QED
  BY <1>1, <1>2, <1>3, <1>4, <1>5, <1>6, ClearLineSteps, KillToEndSteps, MotionSteps,
     CompleteSteps DEF Edit

LEMMA EnterSteps ==
  ASSUME SessionInv, SessionInv', Visible', Enter
  PROVE  Editor!Step
<1>1. CASE EnterNothing \/ Login \/ Run
  <2>1. KeyRead("CR") /\ l' = 0 /\ cursor' = 0
    BY <1>1 DEF EnterNothing, Login, Run, NewLine
  <2> QED
    BY <2>1, EmptiedSteps
<1>2. ASSUME NEW k \in {"CR", "^D"}, Password(k) \/ EnablePassword(k) PROVE Editor!Step
  <2>1. KeyRead(k) /\ l' = 0 /\ cursor' = 0
    BY <1>2 DEF Password, EnablePassword, NewLine
  <2> QED
    BY <2>1, EmptiedSteps
<1>3. CASE HelpRuns
  <2>1. /\ KeyRead("?") /\ Prompting /\ Command /\ UNCHANGED <<cmd, l, cursor>>
    BY <1>3 DEF HelpRuns, line
  <2>2. state' \in {state, "enable_password"}
    BY <2>1, CommandKeeps DEF SessionInv
  <2>3. state' = state
    BY <2>2 DEF Visible, Hidden
  <2>4. Visible
    BY <2>1 DEF Visible, Prompting, Open, Hidden
  <2> QED
    BY <2>1, <2>3, <2>4, UnchangedSteps
<1>4. ASSUME Leave PROVE Editor!Step
  BY <1>4 DEF Leave, Visible, Open
<1>5. CASE EndOfText
  <2>1. KeyRead("^D") /\ Visible
    BY <1>5 DEF EndOfText, KeyRead, Visible, Open
  <2> QED
    BY <1>4, <1>5, <2>1, BellSteps DEF EndOfText
<1>6. CASE LeaveMode
  <2>1. KeyRead("^Z") /\ state' = state
    BY <1>6 DEF LeaveMode, Bell, Edited, access
  <2>2. Visible
    BY <2>1, StateKept DEF Visible, Open
  <2>3. CASE Bell
    BY <2>1, <2>2, <2>3, BellSteps
  <2>4. CASE l' = 0 /\ cursor' = 0
    BY <2>1, <2>4, EmptiedSteps
  <2> QED
    BY <1>6, <2>3, <2>4 DEF LeaveMode
<1>7. ASSUME NEW k, RunQuit(k) PROVE Editor!Step
  BY <1>4, <1>7 DEF RunQuit
<1> QED
  BY <1>1, <1>2, <1>3, <1>5, <1>6, <1>7 DEF Enter

LEMMA SessionSteps ==
  ASSUME SessionInv, SessionInv', [Next]_vars
  PROVE  [Editor!Next]_(Editor!vars)
<1>1. CASE UNCHANGED vars
  <2>1. UNCHANGED <<cmd, l, cursor, state, key>>
    BY <1>1 DEF vars, line, access
  <2> QED
    BY <2>1, StateKept DEF Editor!vars, Shown, Ahead, Open
<1>2. ASSUME Next PROVE state # "overrun"
  BY <1>2 DEF Next, Edit, Type, TypeAtEnd, TypeAtFullEnd, TypeInside, Erase, EraseNothing,
     ClearLine, KillToEnd, Motion, Redraw, Ignored, Complete, Help, Recall, Enter, EnterNothing,
     Login, Run, HelpRuns, RunQuit, Password, EnablePassword, EndOfText, LeaveMode, KeyRead,
     Negotiate, Escape, HangUp, Open
<1>3. ASSUME Editor!Step, state # "overrun", state' # "overrun" PROVE Editor!Next
  BY <1>3 DEF Editor!Next
<1>4. ASSUME Editor!Lose, state # "overrun" PROVE Editor!Next
  BY <1>4 DEF Editor!Next
<1>5. CASE Next /\ ~Visible'
  <2>1. state' # "overrun"
    BY <1>5 DEF Visible, Hidden
  <2> QED
    BY <1>2, <1>3, <1>5, <2>1, Hides
<1>6. CASE Next /\ Visible'
  <2>1. ASSUME NEW c, Negotiate(c) \/ Escape(c) PROVE Editor!Step /\ state' = state
    <3>1. UNCHANGED <<cmd, l, cursor, state>> /\ key' = "none"
      BY <2>1 DEF Negotiate, Escape, Swallow, line, access
    <3>2. Pressed' = "none"
      BY <3>1 DEF Pressed
    <3> QED
      BY <3>1, <3>2, SameSeen, Waits
  <2>2. CASE Edit
    <3>1. Visible
      <4>1. state' = state \/ (Prompting /\ state' = "overrun")
        BY <2>2 DEF Edit, Type, TypeAtEnd, TypeAtFullEnd, TypeInside, Erase, EraseNothing,
           ClearLine, KillToEnd, Motion, Redraw, Ignored, Complete, Completed, Listed, Help,
           Recall, Recalled, Overrun, Bell, Edited, access
      <4>2. Prompting => Visible
        BY DEF Prompting, Visible, Hidden
      <4> QED
        BY <1>6, <4>1, <4>2, StateKept DEF Visible
    <3>2. CASE state' = "overrun"
      BY <1>2, <1>4, <1>6, <2>2, <3>1, <3>2, OverrunLoses
    <3>3. CASE state' # "overrun"
      BY <1>2, <1>3, <1>6, <2>2, <3>1, <3>3, EditSteps
    <3> QED
      BY <3>2, <3>3
  <2>3. CASE Enter
    <3>1. state' # "overrun"
      <4>1. state # "overrun"
        BY <1>2, <1>6
      <4>2. ASSUME Command \/ NoCommand PROVE state' \in {state, "enable_password"}
        BY <4>2 DEF Command, NoCommand, NoChange, Enable, Disable, ChangeMode
      <4> QED
        BY <2>3, <4>1, <4>2 DEF Enter, EnterNothing, Login, Run, HelpRuns, RunQuit, Password,
           EnablePassword, EndOfText, LeaveMode, Leave, Bell, Edited, access
    <3> QED
      BY <1>2, <1>3, <1>6, <2>3, <3>1, EnterSteps
  <2>4. CASE HangUp
    BY <1>6, <2>4 DEF HangUp, Leave, Visible
  <2>5. ASSUME NEW c, Negotiate(c) \/ Escape(c) PROVE Editor!Next
    BY <1>2, <1>3, <1>6, <2>1, <2>5
  <2> QED
    BY <1>6, <2>2, <2>3, <2>4, <2>5 DEF Next
<1> QED
  BY <1>1, <1>5, <1>6

LEMMA SessionStarts == Init => Editor!Init
<1> SUFFICES ASSUME Init PROVE Editor!Init
  OBVIOUS
<1>1. cmd = EmptyBuffer /\ l = 0 /\ cursor = 0 /\ key = "none" /\ state \in {"login", "normal"}
  BY DEF Init
<1>2. LineOK
  BY SessionInit DEF SessionInv
<1>3. Visible
  BY <1>1 DEF Visible, Open, Hidden
<1>4. Parts(cmd, l, cursor, Before, After)
  BY <1>2, <1>3, Seen
<1>5. Before = <<>> /\ After = <<>>
  BY <1>1, <1>4, NothingIs
<1> QED
  BY <1>1, <1>3, <1>5 DEF Editor!Init, Before, After, Visible, Shown, Ahead

\* The editor: for any buffer, alphabet and history every key does to the text
\* before and after the cursor what LineEditor promises of it.
THEOREM SessionEdits == Spec => EditsLine
<1>1. SessionInv /\ SessionInv' /\ [Next]_vars => [Editor!Next]_(Editor!vars)
  BY SessionSteps
<1> QED
  BY <1>1, SessionStarts, SessionAlways, PTL DEF Spec, EditsLine, Editor!Spec
=============================================================================
