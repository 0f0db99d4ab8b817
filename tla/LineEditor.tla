------------------------------ MODULE LineEditor ------------------------------
(***************************************************************************)
(* What a command-line editor promises: a line is the text before the      *)
(* cursor and the text after it, and each key does to the two what the     *)
(* operator expects of it.  Nothing is said of buffers, indices or echo.   *)
(* A completion that makes the line too long, and a recall when there is   *)
(* nothing to recall, may be the end of it: the line is lost.              *)
(***************************************************************************)
EXTENDS Naturals, Sequences

CONSTANTS
  Text,         \* the characters of a line; " " separates words
  Room,         \* the longest line
  Completions,  \* what may replace a part that it begins with
  Separators    \* the sets of characters that such a part may follow

VARIABLES
  before, \* the text before the cursor
  after,  \* the text after it
  key,    \* the key that was read last
  lost    \* TRUE once nothing is promised any more

vars == <<before, after, key, lost>>

Blank == " "
Front(s) == SubSeq(s, 1, Len(s) - 1)
Line == before \o after

Init == before = <<>> /\ after = <<>> /\ key = "none" /\ lost = FALSE

\* At the end of a full line a character is refused; elsewhere the last one
\* makes room for it.
Insert(c) ==
  \/ /\ Len(Line) < Room
     /\ before' = Append(before, c)
     /\ after' = after
  \/ /\ Len(Line) = Room
     /\ after # <<>>
     /\ before' = Append(before, c)
     /\ after' = Front(after)
  \/ /\ Len(Line) = Room
     /\ after = <<>>
     /\ UNCHANGED <<before, after>>

Erase(n) == before' = SubSeq(before, 1, Len(before) - n) /\ after' = after

\* The end of the text that precedes the last word.
WordStart(s) ==
  CHOOSE x \in 0 .. Len(s) :
    LET Precedes(y) == s[y] = Blank /\ \E z \in y .. Len(s) : s[z] # Blank
    IN /\ x > 0 => Precedes(x)
       /\ \A y \in x + 1 .. Len(s) : ~Precedes(y)

Move(n) ==
  /\ n \in 0 .. Len(Line)
  /\ before' = SubSeq(Line, 1, n)
  /\ after' = SubSeq(Line, n + 1, Len(Line))

Replace(s) == before' = s /\ after' = <<>>

\* A line of history.
Recall == before' \in Seq(Text) /\ Len(before') <= Room /\ after' = <<>>

Unchanged == UNCHANGED <<before, after>>

\* The text after the first n characters begins w.
Continues(w, n) ==
  /\ after = <<>>
  /\ \E ends \in Separators :
       /\ n > 0 => before[n] \in ends
       /\ \A x \in n + 1 .. Len(before) : before[x] \notin ends
  /\ Len(before) <= n + Len(w)
  /\ SubSeq(before, n + 1, Len(before)) = SubSeq(w, 1, Len(before) - n)

Complete ==
  \E w \in Completions, n \in 0 .. Len(before) :
    /\ Continues(w, n)
    /\ n + Len(w) <= Room
    /\ Replace(SubSeq(before, 1, n) \o w)

Press(k) ==
  /\ key' = k
  /\ \/ k \in Text /\ Insert(k)
     \/ k = "^H" /\ IF before = <<>> THEN Unchanged ELSE Erase(1)
     \/ k = "^W" /\ Erase(Len(before) - WordStart(before))
     \/ k = "^U" /\ Replace(<<>>)
     \/ k = "^K" /\ Replace(before)
     \/ k = "^B" /\ Move(IF before = <<>> THEN 0 ELSE Len(before) - 1)
     \/ k = "^F" /\ Move(IF after = <<>> THEN Len(before) ELSE Len(before) + 1)
     \/ k = "^A" /\ Move(0)
     \/ k = "^E" /\ Move(Len(Line))
     \/ k \in {"^P", "^N"} /\ Recall
     \/ k = "^I" /\ Complete
     \/ k \in {"^C", "^D", "^I", "^L", "^P", "^N", "?"} /\ Unchanged
     \/ k = "^Z" /\ (Unchanged \/ Replace(<<>>))
     \/ k \in {"CR", "^D"} /\ Replace(<<>>)

\* What is read is no key.
Wait == key' = "none" /\ Unchanged

\* The editor is left without a key, or for an entry that is not shown.
HangUp == key' = "none" /\ Replace(<<>>)

Keys == Text \cup {"^H", "^W", "^U", "^K", "^B", "^F", "^A", "^E", "^P", "^N",
                   "^I", "^C", "^L", "?", "^Z", "CR", "^D"}

Step == Wait \/ HangUp \/ \E k \in Keys : Press(k)

\* TAB with a completion that has no room; Up.
Lose ==
  /\ \/ /\ key' = "^I"
        /\ \E w \in Completions, n \in 0 .. Len(before) :
             Continues(w, n) /\ n + Len(w) > Room
     \/ key' = "^P"
  /\ Unchanged
  /\ lost' = TRUE

Next == ~lost /\ ((Step /\ lost' = FALSE) \/ Lose)

Spec == Init /\ [][Next]_vars
=============================================================================
