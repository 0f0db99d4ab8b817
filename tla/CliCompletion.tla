---------------------------- MODULE CliCompletion ----------------------------
(***************************************************************************)
(* What TAB and '?' offer at the end of a line: the names of the commands  *)
(* that its last word begins, or the options, values and arguments that    *)
(* may come there.  The words before it are parsed on the way, and what    *)
(* they set is recorded as it would be for a line that is entered.  The    *)
(* last word of a line that ends with a blank is a null pointer, NoWord.   *)
(***************************************************************************)
EXTENDS CliOptargs

\* "[text]" is optional, "<text>" stands for a value, and "plain" is text
\* that may be put in the line as it is.
Entry(text, delimiter) == [text |-> text, delimiter |-> delimiter]
Plainly(texts) == [n \in DOMAIN texts |-> Entry(texts[n], "plain")]

\* entries of the list; command and settings when the words before the last
\* name a command.
Nowhere(entries) ==
  [entries |-> entries, command |-> 0, found |-> <<>>, lost |-> FALSE]

-----------------------------------------------------------------------------
(* cli_get_completions: the walk along the words of the stage.             *)

\* A setting of a buildmode is offered until it was made, or for ever.
Made(opener, found, name) ==
  LET named == {j \in DOMAIN opener : opener[j].name = name}
  IN /\ named # {}
     /\ Has(found, name)
     /\ "multiple" \notin opener[Least(named)].flags

\* Mutant: a command that is not open to the operator is offered too.
BegunAnywhere(list, at, type, p, word) ==
  {i \in DOMAIN list :
     /\ list[i].parent = p /\ list[i].type = type
     /\ IsPrefixOf(word, list[i].name)
     /\ ~Made(at.opener, at.found, list[i].name)}

Begun(list, at, type, p, word) ==
  {i \in DOMAIN list :
     /\ list[i].parent = p /\ list[i].type = type
     /\ Visible(list[i], at.mode, at.privilege)
     /\ IsPrefixOf(word, list[i].name)
     /\ ~Made(at.opener, at.found, list[i].name)}

\* In buildmode, help shows in brackets what may be left out.
NameEntry(c, key) ==
  Entry(c.name, IF key = "help" /\ c.optional THEN "optional" ELSE "plain")

InOrder(S, n) == SelectSeq([i \in 1 .. n |-> i], LAMBDA i : i \in S)

Descend(list, at, type, words, key) ==
  LET begun(p, k) == Begun(list, at, type, p, words[k])
      named(p, k) == {i \in begun(p, k) : Abbreviates(words[k], list[i])}
      Offers(p, k) ==
        LET offered == InOrder(begun(p, k), Len(list))
        IN [command |-> 0, word |-> k,
            entries |-> [n \in DOMAIN offered |-> NameEntry(list[offered[n]], key)]]
      walk[k \in 1 .. Len(words)] ==
        [p \in 0 .. Len(list) |->
           IF k = Len(words) THEN Offers(p, k)
           ELSE IF named(p, k) = {} THEN [command |-> 0, word |-> k, entries |-> <<>>]
           ELSE IF \A j \in DOMAIN list : list[j].parent # Least(named(p, k))
           THEN [command |-> Least(named(p, k)), word |-> k + 1, entries |-> <<>>]
           ELSE walk[k + 1][Least(named(p, k))]]
  IN walk[1][0]

-----------------------------------------------------------------------------
(* cli_get_optarg_comphelp: what option o offers for a word, which is that *)
(* of its value when "valued".                                             *)

Begins(word, o) == word # NoWord /\ IsPrefixOf(word, o.name)

\* Mutant: an argument is shown as what may be left out.
Bracketed(o, word, valued) ==
  IF Begins(word, o) THEN "plain" ELSE "optional"

Delimiter(o, word, valued) ==
  CASE o.kind = "argument" -> "argument"
    [] o.kind = "hyphen" -> "optional"
    [] o.kind = "option" /\ valued ->
         IF "completor" \in o.flags THEN "plain" ELSE "argument"
    [] OTHER -> IF Begins(word, o) THEN "plain" ELSE "optional"

\* A completor is not asked for what is a name.
Completes(o, word, valued) ==
  /\ "completor" \in o.flags
  /\ CASE o.kind = "flag" -> Begins(word, o)
       [] o.kind = "option" -> valued
       [] OTHER -> TRUE

Spent(found, o) == Has(found, o.name) /\ "multiple" \notin o.flags

cli_get_optarg_comphelp(o, found, key, word, next, valued) ==
  LET own == Entry(o.name, Delimiter(o, word, valued))
  IN IF Spent(found, o) THEN <<>>
     ELSE IF key = "help" THEN <<own>>
     ELSE IF Completes(o, word, valued)
     THEN Plainly(SelectSeq(o.offers, LAMBDA v : IsPrefixOf(next, v)))
     ELSE IF IsPrefixOf(word, o.name) THEN <<own>>
     ELSE <<>>

-----------------------------------------------------------------------------
(* The parse of the options, up to the word that is to be completed.       *)

\* It is the last one, or the one whose value is the last.
AtName(o, words, k) == o.kind # "check" /\ k = Len(words)
AtValue(o, words, k) == o.kind = "option" /\ k = Len(words) - 1

OfferAt(o, st, words, key) ==
  LET word == words[st.word]
  IN IF AtName(o, words, st.word)
     THEN cli_get_optarg_comphelp(o, st.found, key, word, word, FALSE)
     ELSE cli_get_optarg_comphelp(o, st.found, key, word, words[st.word + 1],
                                  TRUE)

OffersOf(optargs, candidates, st, words, key) ==
  LET offers[n \in 0 .. Len(optargs)] ==
        IF n = 0 THEN <<>>
        ELSE IF n \in candidates
        THEN offers[n - 1] \o OfferAt(optargs[n], st, words, key)
        ELSE offers[n - 1]
  IN offers[Len(optargs)]

\* The rest of the line is joined, its null pointer included.
Loses(o, words) == "rest" \in o.flags /\ words[Len(words)] = NoWord

CompleteWord(st, optargs, words, key) ==
  IF st.done \/ st.left \/ st.word > Len(words) \/ st.optarg > Len(optargs)
  THEN st
  ELSE LET word == words[st.word]
           candidates == Candidates(optargs, st.optarg, st.ctx, word)
           here == {i \in candidates : AtName(optargs[i], words, st.word)
                                         \/ AtValue(optargs[i], words, st.word)}
       IN IF \E c \in Checks(optargs, st.optarg, st.ctx, word) :
               ~Passes(optargs[c], st.found)
          THEN Stop(st, "ERROR")
          ELSE IF candidates = {} THEN [st EXCEPT !.left = TRUE]
          ELSE IF st.word < Len(words) /\ \E a, b \in candidates : a # b
          THEN Stop(st, "AMBIGUOUS")
          ELSE IF here # {}
          THEN Stop([st EXCEPT !.entries =
                       OffersOf(optargs, here, st, words, key)], "OK")
          ELSE IF Loses(optargs[Least(candidates)], words)
          THEN Stop([st EXCEPT !.lost = TRUE], "ERROR")
          ELSE TakeWord(st, optargs, words, Least(candidates))

CompleteOptargs(optargs, words, first, found, ctx, key) ==
  LET start == [word |-> first, optarg |-> 1, found |-> found, ctx |-> ctx,
                status |-> "OK", done |-> FALSE, left |-> FALSE,
                last |-> FALSE, entries |-> <<>>, lost |-> FALSE]
      parsed[n \in 0 .. Len(words)] ==
        IF n = 0 THEN start
        ELSE CompleteWord(parsed[n - 1], optargs, words, key)
  IN parsed[Len(words)]

\* What is offered for the words of the last stage of a line: "at" has the
\* mode, the privilege, what was set in a buildmode and the options of the
\* command that opened it; optargsOf gives the options of each command.
cli_get_completions(list, at, type, words, optargsOf, key) ==
  LET w == Descend(list, at, type, words, key)
      ctx == [privilege |-> at.privilege, mode |-> at.mode,
              transient |-> at.mode, allow_buildmode |-> FALSE,
              next |-> NoWord]
      p == CompleteOptargs(optargsOf[w.command], words, w.word, at.found, ctx,
                           key)
  IN IF w.command = 0 THEN Nowhere(w.entries)
     ELSE [entries |-> p.entries, command |-> w.command, found |-> p.found,
           lost |-> p.lost]

=============================================================================
