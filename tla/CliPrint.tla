------------------------------- MODULE CliPrint -------------------------------
(***************************************************************************)
(* How what a command prints becomes lines: each call adds its text to a   *)
(* buffer, whose lines are given out one by one.  A buffered call keeps    *)
(* what has no end of line yet; any other gives it out as a line.  What    *)
(* the filters do with a line is in CliFilters.                            *)
(***************************************************************************)
EXTENDS Integers, Sequences

LOCAL INSTANCE SequencesExt

EndOfLine == "\n"

\* cli->buffer, and the lines given out.
NothingPrinted == [buffer |-> <<>>, lines |-> <<>>]

LineEnds(text) == {n \in DOMAIN text : text[n] = EndOfLine}

\* The text up to the next end of line, and what is after it.
NextLine(text) ==
  LET end == CHOOSE n \in LineEnds(text) : \A k \in LineEnds(text) : n <= k
  IN [line |-> SubSeq(text, 1, end - 1),
      rest |-> SubSeq(text, end + 1, Len(text))]

\* One turn of the loop over the buffer.
GiveOut(st, buffered) ==
  CASE st.over -> st
    [] ~st.over /\ LineEnds(st.buffer) # {} ->
         [st EXCEPT !.lines = Append(@, NextLine(st.buffer).line),
                    !.buffer = NextLine(st.buffer).rest]
    [] ~st.over /\ LineEnds(st.buffer) = {} /\ buffered -> [st EXCEPT !.over = TRUE]
    [] OTHER -> [st EXCEPT !.lines = Append(@, st.buffer), !.buffer = <<>>,
                           !.over = TRUE]

print(st, text, buffered) ==
  LET start == [buffer |-> st.buffer \o text, lines |-> st.lines, over |-> FALSE]
      given[n \in 0 .. Len(start.buffer) + 1] ==
        IF n = 0 THEN start ELSE GiveOut(given[n - 1], buffered)
      end == given[Len(start.buffer) + 1]
  IN [buffer |-> end.buffer, lines |-> end.lines]

cli_bufprint(st, text) == print(st, text, TRUE)
cli_print(st, text) == print(st, text, FALSE)

-----------------------------------------------------------------------------

Texts(n) == UNION {[1 .. k -> {"a", "b", EndOfLine}] : k \in 0 .. n}

\* The lines of a text, the last one without an end.
LinesIn(text) ==
  LET cuts == SelectSeq([n \in 1 .. Len(text) + 1 |-> n],
                        LAMBDA n : n = Len(text) + 1 \/ text[n] = EndOfLine)
  IN [i \in DOMAIN cuts |->
        SubSeq(text, IF i = 1 THEN 1 ELSE cuts[i - 1] + 1, cuts[i] - 1)]

\* The lines do not depend on how a text is spread over buffered calls, and
\* what they leave is what has no end of line.
ASSUME ChunksDoNotShow ==
  \A text \in Texts(5) : \A i, j \in 0 .. Len(text) :
    i <= j =>
      LET st == cli_bufprint(
                  cli_bufprint(
                    cli_bufprint(NothingPrinted, SubSeq(text, 1, i)),
                    SubSeq(text, i + 1, j)),
                  SubSeq(text, j + 1, Len(text)))
      IN st.lines = Front(LinesIn(text)) /\ st.buffer = Last(LinesIn(text))

\* cli_print gives out all there is, one line more than there are ends, and
\* begins with what a buffered call has left.
ASSUME PrintLeavesNothing ==
  \A left \in [1 .. 1 -> {"a", "b"}] \cup {<<>>}, text \in Texts(4) :
    LET st == cli_print(cli_bufprint(NothingPrinted, left), text)
    IN st.buffer = <<>> /\ st.lines = LinesIn(left \o text)

=============================================================================
