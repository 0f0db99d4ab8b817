------------------------------- MODULE CliLine -------------------------------
(***************************************************************************)
(* How libcli cuts a line into words: blanks, quotes, backslashes and the  *)
(* bars between the stages of a pipeline.  A line is a sequence of         *)
(* characters, and so is a word.                                           *)
(***************************************************************************)
EXTENDS Integers, Sequences

Space == " "
Bar == "|"
Escaping == "\\"
Quotes == {"'", "\""}
None == "none"

\* The end of the string is past its last character.
Char(line, p) == IF p <= Len(line) THEN line[p] ELSE None

\* cli_int_return_newword: every backslash goes, one that is escaped too.
newword(line, from, to) ==
  SelectSeq(SubSeq(line, from, to - 1), LAMBDA c : c # Escaping)

-----------------------------------------------------------------------------
(* The loop of cli_parse_line: p, word_start (0 for none), inquote, words. *)

\* The word so far, when one has begun.
EndWord(st, line, p) ==
  IF st.word_start = 0 THEN st.words
  ELSE Append(st.words, newword(line, st.word_start, p))

Ends(st, c) ==
  \/ c = None
  \/ st.inquote # None /\ c = st.inquote
  \/ st.word_start # 0 /\ st.inquote = None /\ c \in {Space, Bar}

AtEnd(st, line, p, c) ==
  [p |-> IF st.inquote # None /\ c # None THEN p + 1 ELSE p,
   word_start |-> 0, inquote |-> None,
   words |-> EndWord(st, line, p), done |-> c = None]

AtQuote(st, line, p, c) ==
  [p |-> p + 1, word_start |-> p + 1, inquote |-> c,
   words |-> IF st.word_start = p THEN st.words ELSE EndWord(st, line, p),
   done |-> FALSE]

Within(st, p, c) ==
  [st EXCEPT
     !.p = p + 1,
     !.word_start = IF @ = 0 /\ c \notin {Space, Bar} THEN p ELSE @,
     !.words = IF st.word_start = 0 /\ c = Bar THEN Append(@, <<Bar>>) ELSE @]

\* A backslash takes the next character past the tests, and past the place
\* where a word may begin.
Scan(st, line) ==
  LET p == IF Char(line, st.p) = Escaping /\ st.p < Len(line) THEN st.p + 2
           ELSE st.p
      c == Char(line, p)
  IN IF Ends(st, c) THEN AtEnd(st, line, p, c)
     ELSE IF st.inquote = None /\ c \in Quotes THEN AtQuote(st, line, p, c)
     ELSE Within(st, p, c)

\* The first word begins at the first character that is no blank, whatever
\* it is.
Start(line) ==
  LET others == {n \in DOMAIN line : line[n] # Space}
      first == CHOOSE n \in others : \A k \in others : n <= k
  IN [p |-> IF others = {} THEN Len(line) + 1 ELSE first,
      word_start |-> IF others = {} THEN 0 ELSE first,
      inquote |-> None, words |-> <<>>, done |-> FALSE]

\* At most max_words - 1 words; the rest of the line is not looked at.
ScanUpTo(st, line, max_words) ==
  IF st.done \/ Len(st.words) >= max_words - 1 THEN st ELSE Scan(st, line)

cli_parse_line(line, max_words) ==
  LET scanned[n \in 0 .. 2 * Len(line) + 2] ==
        IF n = 0 THEN Start(line)
        ELSE ScanUpTo(scanned[n - 1], line, max_words)
  IN scanned[2 * Len(line) + 2].words

CLI_MAX_LINE_WORDS == 128
Words(line) == cli_parse_line(line, CLI_MAX_LINE_WORDS)

-----------------------------------------------------------------------------
(* cli_int_generate_pipeline: a stage ends at a word that begins with a    *)
(* bar, be it quoted or not.  Its words lie in the array of all words: the *)
(* one that ended it comes next; after the last stage a null pointer does. *)

NoWord == <<>>
Bars(words) == {n \in DOMAIN words : words[n] # <<>> /\ words[n][1] = Bar}

EmptyStage == [words |-> <<>>, next |-> NoWord]
EndStage(stages, bar) ==
  Append([stages EXCEPT ![Len(stages)].next = bar], EmptyStage)
AddWord(stages, word) ==
  [stages EXCEPT ![Len(stages)].words = Append(@, word)]

Stages(words) ==
  LET stages[n \in 0 .. Len(words)] ==
        IF n = 0 THEN <<EmptyStage>>
        ELSE IF n \in Bars(words) THEN EndStage(stages[n - 1], words[n])
        ELSE AddWord(stages[n - 1], words[n])
  IN stages[Len(words)]

-----------------------------------------------------------------------------
(* The way back: a word is put behind a line, in quotes if it needs them.  *)

CharsOf(word) == {word[n] : n \in DOMAIN word}

\* The other quote than the first one in the word, or a double one round
\* blanks and round nothing.  A word has no backslash: newword leaves none.
QuotesFor(word) ==
  LET First(c) == \E n \in DOMAIN word :
                    word[n] = c /\ \A k \in 1 .. n - 1 : word[k] \notin Quotes
  IN CASE First("\"") -> <<"'">>
       [] First("'") -> <<"\"">>
       [] CharsOf(word) \cap Quotes = {} /\ (word = <<>> \/ Space \in CharsOf(word)) ->
            <<"\"">>
       [] OTHER -> <<>>

cli_int_buildmode_extend_cmdline(cmdline, word) ==
  cmdline \o <<Space>> \o QuotesFor(word) \o word \o QuotesFor(word)

\* What the quotes do not keep: a bar that has none round it or begins the
\* word, and both quotes in one word.
CutAgain(word) ==
  \/ Quotes \subseteq CharsOf(word)
  \/ Bar \in CharsOf(word) /\ QuotesFor(word) = <<>>
  \/ word # <<>> /\ word[1] = Bar

=============================================================================
