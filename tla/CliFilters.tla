------------------------------ MODULE CliFilters ------------------------------
(***************************************************************************)
(* What a command prints goes, line by line, through the filters of the    *)
(* pipeline; those that keep something give it out when they are torn      *)
(* down.  A line is the set of the patterns that it contains beside the    *)
(* empty one, which strstr finds in every line.                            *)
(***************************************************************************)
EXTENDS Integers, Sequences, FiniteSets

Contains(line, pattern) == pattern = <<>> \/ pattern \in line

Match(pattern, invert) ==
  [kind |-> "match", pattern |-> pattern, invert |-> invert]
\* to: the pattern that ends the range, or {} for "begin", which has none.
Span(from, to) == [kind |-> "range", from |-> from, to |-> to]
Count == [kind |-> "count"]

\* The data of a filter after cli_*_filter_init.
InitData(f) == CASE f.kind = "match" -> TRUE
                 [] f.kind = "range" -> FALSE
                 [] f.kind = "count" -> 0

\* What a filter does with a line: let it pass or not, and its data after.
cli_match_filter(f, line, data) ==
  [pass |-> Contains(line, f.pattern) # f.invert, data |-> data]

cli_range_filter(f, line, data) ==
  LET matched == data \/ Contains(line, f.from)
  IN [pass |-> matched,
      data |-> matched /\ \A to \in f.to : ~Contains(line, to)]

cli_count_filter(f, line, data) ==
  [pass |-> FALSE, data |-> IF line = {} THEN data ELSE data + 1]

Through(f, line, data) ==
  CASE f.kind = "match" -> cli_match_filter(f, line, data)
    [] f.kind = "range" -> cli_range_filter(f, line, data)
    [] f.kind = "count" -> cli_count_filter(f, line, data)

\* Mutant: the filters after the one that kept the line see it too.
GoesOn(print) == TRUE

\* _print: a line goes from filter to filter until one keeps it.
Goes(print) == print

PrintLine(chain, st, line) ==
  LET run[n \in 0 .. Len(chain)] ==
        IF n = 0 THEN [print |-> TRUE, data |-> st.data]
        ELSE LET before == run[n - 1]
                 now == Through(chain[n], line, before.data[n])
             IN IF Goes(before.print)
                THEN [print |-> before.print /\ now.pass,
                      data |-> [before.data EXCEPT ![n] = now.data]]
                ELSE before
      after == run[Len(chain)]
  IN [data |-> after.data,
      out |-> IF after.print THEN Append(st.out, line) ELSE st.out]

\* The command prints its text, and the filters are torn down in order: a
\* count is then given out, past the filters.
cli_int_execute_pipeline(chain, text) ==
  LET printed[n \in 0 .. Len(text)] ==
        IF n = 0
        THEN [data |-> [i \in DOMAIN chain |-> InitData(chain[i])],
              out |-> <<>>]
        ELSE PrintLine(chain, printed[n - 1], text[n])
      end == printed[Len(text)]
      torn[i \in 0 .. Len(chain)] ==
        IF i = 0 THEN <<>>
        ELSE IF chain[i].kind = "count" THEN Append(torn[i - 1], end.data[i])
        ELSE torn[i - 1]
  IN [lines |-> end.out, counts |-> torn[Len(chain)]]

-----------------------------------------------------------------------------
(* What a pipeline means: each filter applied to the whole of what the one *)
(* before it let through, and the counts after it.                         *)

\* The lines from one that has "from" to the next that has "to".
InRange(f, text, n) ==
  \E start \in 1 .. n :
    /\ Contains(text[start], f.from)
    /\ \A k \in start .. n - 1, to \in f.to : ~Contains(text[k], to)

Kept(f, text) ==
  LET Keep(n) == CASE f.kind = "match" -> Contains(text[n], f.pattern) # f.invert
                   [] f.kind = "range" -> InRange(f, text, n)
                   [] f.kind = "count" -> FALSE
      kept[n \in 0 .. Len(text)] ==
        IF n = 0 THEN <<>>
        ELSE IF Keep(n) THEN Append(kept[n - 1], text[n]) ELSE kept[n - 1]
  IN kept[Len(text)]

Meaning(chain, text) ==
  LET piped[n \in 0 .. Len(chain)] ==
        IF n = 0 THEN text ELSE Kept(chain[n], piped[n - 1])
      Number(s) == Cardinality({n \in DOMAIN s : s[n] # {}})
      counts[n \in 0 .. Len(chain)] ==
        IF n = 0 THEN <<>>
        ELSE IF chain[n].kind = "count"
        THEN Append(counts[n - 1], Number(piped[n - 1]))
        ELSE counts[n - 1]
  IN [lines |-> piped[Len(chain)], counts |-> counts[Len(chain)]]
=============================================================================
