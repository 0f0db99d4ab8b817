----------------------------- MODULE CliLineChecks -----------------------------
(***************************************************************************)
(* What words a line has, on lines of a bounded length: the cutting of     *)
(* libcli beside what its comments say, and beside what put the line       *)
(* together.                                                               *)
(***************************************************************************)
EXTENDS CliLine

LOCAL INSTANCE SequencesExt

LinesOf(chars, n) == UNION {[1 .. k -> chars] : k \in 0 .. n}

Joined(words) == FlattenSeq([n \in DOMAIN words |-> <<Space>> \o words[n]])
Built(words) == FoldLeft(cli_int_buildmode_extend_cmdline, <<>>, words)

\* The words of a line without quotes and backslashes: the longest runs of
\* characters that are neither blank nor bar, and the bars.
Runs(line) ==
  LET Plain(k) == line[k] \notin {Space, Bar}
      Starts(k) == \/ line[k] = Bar
                   \/ Plain(k) /\ (k = 1 \/ ~Plain(k - 1))
      Upto(k) == CHOOSE e \in k .. Len(line) :
                   /\ \A i \in k .. e : Plain(i)
                   /\ e = Len(line) \/ ~Plain(e + 1)
      starts == SelectSeq([k \in DOMAIN line |-> k], Starts)
  IN [n \in DOMAIN starts |->
        IF line[starts[n]] = Bar THEN <<Bar>>
        ELSE SubSeq(line, starts[n], Upto(starts[n]))]

\* A line that begins with a bar has an empty word before it.
BeginsWithBar(line) == Start(line).word_start # 0 /\ line[Start(line).p] = Bar

\* A line of plain characters is cut at its blanks and bars and nowhere else.
ASSUME PlainLinesCut ==
  \A line \in LinesOf({"a", "b", Space, Bar}, 5) :
    Words(line) = (IF BeginsWithBar(line) THEN <<<<>>>> ELSE <<>>) \o Runs(line)

\* Words that are put in quotes come back as they were, blanks, bars and the
\* other quote included; only a backslash cannot be written.
ASSUME QuotedWordsKept ==
  \A words \in LinesOf(LinesOf({"a", Space, Bar, "'"}, 2), 2) :
    Words(Joined([n \in DOMAIN words |-> <<"\"">> \o words[n] \o <<"\"">>]))
      = words

\* A line that a buildmode puts together of its settings is cut into these
\* again, blanks, quotes and empty ones included, but for those that CutAgain
\* names; and such a word is never kept.
ASSUME BuiltWordsKept ==
  LET values == LinesOf({"a", Space, Bar, "'", "\""}, 3)
      pairs == LinesOf(LinesOf({"a", Space, "'"}, 2), 2)
      Kept(words) ==
        /\ Words(Built(words)) = words
        /\ Bars(words) = {}
  IN /\ \A word \in values : Kept(<<word>>) <=> ~CutAgain(word)
     /\ \A words \in pairs : Kept(words)

\* No stage takes more than its words, and no word but a bar is lost.
ASSUME StagesKeepWords ==
  \A line \in LinesOf({"a", "'", Space, Bar}, 5) :
    FlattenSeq([n \in DOMAIN Stages(Words(line)) |-> Stages(Words(line))[n].words])
      = SelectSeq(Words(line), LAMBDA w : w = <<>> \/ w[1] # Bar)

\* A backslash inside a word keeps a blank, a bar or a quote in it.
ASSUME EscapesInside ==
  \A c \in Quotes \cup {Space, Bar} :
    Words(<<"a", Escaping, c, "b">>) = <<<<"a", c, "b">>>>

=============================================================================
