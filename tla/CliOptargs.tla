------------------------------ MODULE CliOptargs ------------------------------
(***************************************************************************)
(* The arguments of a libcli command: how the words after it are taken for *)
(* its options, flags and arguments, how the pairs that are found are kept *)
(* and looked up, and how a command line is made of them again.            *)
(***************************************************************************)
EXTENDS CliCommands, CliLine

\* kind: "flag" (CLI_CMD_OPTIONAL_FLAG), "option" (CLI_CMD_OPTIONAL_ARGUMENT),
\* "argument" (CLI_CMD_ARGUMENT), "hyphen" (CLI_CMD_HYPHENATED_OPTION) or
\* "check" (CLI_CMD_SPOT_CHECK).  flags: "multiple", "build" (ALLOW_BUILDMODE),
\* "rest" (REMAINDER_OF_LINE), "unrecorded" (DO_NOT_RECORD).
\* accepts: the values its validator takes; of a check, the options of which
\* one must have been found.  enters: the transient mode each value sets.
\* offers: what its completor knows, when it has one (flag "completor").
Optarg(name, kind, flags, mode, accepts, enters) ==
  [name |-> name, kind |-> kind, flags |-> flags, mode |-> mode,
   privilege |-> 0, accepts |-> accepts, enters |-> enters, offers |-> <<>>]

AnyValue == {<<"any">>}
NoMode == [v \in {} |-> MODE_ANY]
Hyphen == "-"

Accepts(o, value) == o.accepts = AnyValue \/ value \in o.accepts

-----------------------------------------------------------------------------
(* cli->found_optargs: pairs in the order they were found.                 *)

Pair(name, value) == [name |-> name, value |-> value]

\* The pairs of a name, or all others.
PairsOf(found, name, own) ==
  LET kept[n \in 0 .. Len(found)] ==
        IF n = 0 THEN <<>>
        ELSE IF (found[n].name = name) = own THEN Append(kept[n - 1], found[n])
        ELSE kept[n - 1]
  IN kept[Len(found)]

ValuesOf(found, name) == PairsOf(found, name, TRUE)
Has(found, name) == ValuesOf(found, name) # <<>>

cli_set_optarg_value(found, name, value, multiple) ==
  IF Has(found, name) /\ ~multiple
  THEN LET first == Least({i \in DOMAIN found : found[i].name = name})
       IN [found EXCEPT ![first].value = value]
  ELSE Append(found, Pair(name, value))

cli_int_unset_optarg_value(found, name) ==
  PairsOf(found, name, FALSE)

\* The name of each value is looked for without case.
cli_get_optarg_value(found, name) == ValuesOf(found, name)[1].value

-----------------------------------------------------------------------------
(* Which options a word may stand for.                                     *)

Usable(o, ctx) ==
  /\ o.privilege <= ctx.privilege
  /\ o.mode \in {ctx.mode, ctx.transient, MODE_ANY}

\* Options are looked at from the current one to the next argument.
Scope(optargs, from, ctx) ==
  LET usable == {i \in from .. Len(optargs) : Usable(optargs[i], ctx)}
      arguments == {i \in usable : optargs[i].kind = "argument"}
  IN {i \in usable : \A a \in arguments : i <= a}

\* A hit that ends the search.
Exact(o, word) ==
  \/ o.kind = "hyphen" /\ word # <<>> /\ word[1] = Hyphen
  \/ o.kind = "flag" /\ IF o.accepts = AnyValue THEN word = o.name
                        ELSE word \in o.accepts
  \/ o.kind = "option" /\ word = o.name

Partly(o, word) == o.kind = "argument" \/ IsPrefixOf(word, o.name)

Candidates(optargs, from, ctx, word) ==
  LET scope == Scope(optargs, from, ctx)
      exact == {i \in scope : Exact(optargs[i], word)}
  IN IF exact # {} THEN {Least(exact)}
     ELSE LET partly == {i \in scope : Partly(optargs[i], word)}
          IN {i \in partly : optargs[i].kind = "check" =>
                               \E j \in partly : j < i /\ optargs[j].kind # "check"}

\* The checks met before there is a candidate.
Checks(optargs, from, ctx, word) ==
  LET scope == Scope(optargs, from, ctx)
      hits == {i \in scope : /\ optargs[i].kind # "check"
                             /\ Exact(optargs[i], word) \/ Partly(optargs[i], word)}
  IN {i \in scope : optargs[i].kind = "check" /\ \A h \in hits : i < h}

Passes(check, found) == \E name \in check.accepts : Has(found, name)

-----------------------------------------------------------------------------
(* cli_int_parse_optargs: ctx has privilege, mode, the transient mode,     *)
(* whether a buildmode may be entered, and the word that lies behind those *)
(* of the stage: the bar before the next one, or none.                     *)

Stop(st, status) == [st EXCEPT !.status = status, !.done = TRUE]

\* The words with a blank between them.
join_words(words) ==
  LET joined[n \in 0 .. Len(words)] ==
        IF n = 0 THEN <<>>
        ELSE joined[n - 1] \o (IF n = 1 THEN <<>> ELSE <<" ">>) \o words[n]
  IN joined[Len(words)]

\* The word taken for option o, and what is recorded.  The value of an option
\* is the next word of the line, of whatever stage.
Taken(o, words, k, next) ==
  CASE o.kind # "option" -> words[k]
    [] o.kind = "option" /\ k < Len(words) -> words[k + 1]
    [] OTHER -> next
Value(o, words, k, next) ==
  IF "rest" \in o.flags THEN join_words(SubSeq(words, k, Len(words)))
  ELSE Taken(o, words, k, next)

Record(st, o, value) ==
  LET found == cli_set_optarg_value(st.found, o.name, value,
                                    "multiple" \in o.flags /\ "rest" \notin o.flags)
      transient == IF value \in DOMAIN o.enters THEN o.enters[value]
                   ELSE st.ctx.transient
  IN [st EXCEPT !.found = found, !.ctx.transient = transient]

LastWord(o, words, k) ==
  \/ o.kind \in {"flag", "argument"} /\ k = Len(words)
  \/ o.kind = "option" /\ k = Len(words) - 1

TakeWord(st, optargs, words, i) ==
  LET o == optargs[i]
      k == st.word
      last == st.last \/ LastWord(o, words, k)
      next == st.ctx.next
      value == Value(o, words, k, next)
      kept == [Record(st, o, value) EXCEPT !.last = last]
  IN IF o.kind = "option" /\ k = Len(words) /\ next = NoWord
     THEN Stop(st, "MISSING_VALUE")
     ELSE IF ~Accepts(o, Taken(o, words, k, next)) THEN Stop(st, "ERROR")
     ELSE IF "unrecorded" \in o.flags THEN [st EXCEPT !.left = TRUE]
     ELSE IF o.enters # NoMode /\ value \notin DOMAIN o.enters
     THEN Stop(kept, "ERROR")
     ELSE IF "build" \in o.flags /\ last /\ st.ctx.allow_buildmode
     THEN Stop(kept, "BUILDMODE_START")
     ELSE [kept EXCEPT !.optarg = IF o.kind = "argument" THEN i + 1 ELSE @,
                       !.word = k + (IF o.kind = "option" THEN 2 ELSE 1)]

ParseWord(st, optargs, words) ==
  IF st.done \/ st.left \/ st.word > Len(words) \/ st.optarg > Len(optargs)
  THEN st
  ELSE LET word == words[st.word]
           candidates == Candidates(optargs, st.optarg, st.ctx, word)
       IN IF \E c \in Checks(optargs, st.optarg, st.ctx, word) :
               ~Passes(optargs[c], st.found)
          THEN Stop(st, "ERROR")
          ELSE IF candidates = {} THEN [st EXCEPT !.left = TRUE]
          ELSE IF \E a, b \in candidates : a # b THEN Stop(st, "AMBIGUOUS")
          ELSE TakeWord(st, optargs, words, Least(candidates))

\* An argument that was not given, when the words are used up.
Missing(st, optargs) ==
  \E i \in st.optarg .. Len(optargs) :
    /\ Usable(optargs[i], st.ctx)
    /\ optargs[i].kind = "argument"
    /\ "unrecorded" \notin optargs[i].flags

\* The words from "first" on; .word is first_unmatched at the end.
cli_int_parse_optargs(optargs, words, first, found, ctx) ==
  LET start == [word |-> first, optarg |-> 1, found |-> found, ctx |-> ctx,
                status |-> "OK", done |-> FALSE, left |-> FALSE,
                last |-> FALSE]
      parsed[n \in 0 .. Len(words)] ==
        IF n = 0 THEN start ELSE ParseWord(parsed[n - 1], optargs, words)
      end == parsed[Len(words)]
  IN IF ~end.done /\ Missing(end, optargs) THEN Stop(end, "MISSING_ARGUMENT")
     ELSE end

-----------------------------------------------------------------------------
(* cli_int_execute_buildmode: a command line with all that was set, in the *)
(* order in which the options are declared.                                *)

First(s) == SubSeq(s, 1, IF s = <<>> THEN 0 ELSE 1)

\* Mutant: only the first of many values goes back on the line.
FirstGiven(found, o) == First(ValuesOf(found, o.name))

ValuesGiven(found, o) ==
  IF "multiple" \in o.flags THEN ValuesOf(found, o.name)
  ELSE First(ValuesOf(found, o.name))

Extended(cmdline, o, values) ==
  LET Named(line) == IF o.kind \in {"flag", "argument"} THEN line
                     ELSE cli_int_buildmode_extend_cmdline(line, o.name)
      line[n \in 0 .. Len(values)] ==
        IF n = 0 THEN cmdline
        ELSE cli_int_buildmode_extend_cmdline(Named(line[n - 1]),
                                              values[n].value)
  IN line[Len(values)]

\* A required argument that may be given many times is looked for once more
\* after its last value, and is then missing.
Rebuild(cmdline, optargs, found, ctx) ==
  LET Needed(o) == o.kind = "argument" /\
                     (~Has(found, o.name) \/ "multiple" \in o.flags)
      rebuilt[i \in 0 .. Len(optargs)] ==
        IF i = 0 THEN [missing |-> FALSE, cmdline |-> cmdline]
        ELSE LET before == rebuilt[i - 1]
                 o == optargs[i]
             IN IF before.missing \/ ~Usable(o, ctx) THEN before
                ELSE IF Needed(o) THEN [before EXCEPT !.missing = TRUE]
                ELSE [before EXCEPT
                        !.cmdline = Extended(@, o, ValuesGiven(found, o))]
  IN rebuilt[Len(optargs)]

=============================================================================
