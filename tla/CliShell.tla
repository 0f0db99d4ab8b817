------------------------------- MODULE CliShell -------------------------------
(***************************************************************************)
(* What libcli does with the lines of a session: a line is split into the  *)
(* stages of a pipeline, each stage is looked up among the commands of its *)
(* type, its options are parsed, and the command runs, its output filtered *)
(* by the other stages.  A command may open a buildmode, in which each of  *)
(* its options is a command, until it is cancelled or executed.            *)
(***************************************************************************)
EXTENDS FiniteSets, CliCompletion, CliFilters

CONSTANTS
  Registered,  \* the commands in the order in which they are registered
  Lines,       \* the lines that are entered, cut into words
  Beginnings,  \* the lines at whose end TAB or '?' is pressed
  Text,        \* the lines that a command prints
  BadPatterns, \* what regcomp refuses
  MaxSettings  \* bound on the settings of a buildmode

VARIABLES
  commands,    \* cli->commands
  privilege,   \* cli->privilege
  mode,        \* cli->mode
  buildmode,   \* cli->buildmode; its command is 0 when there is none
  output,      \* what the last line gave out
  ran,         \* history: the command run last, and what it was to run with
  crashed      \* the program has followed a null pointer

vars == <<commands, privilege, mode, buildmode, output, ran, crashed>>

Nothing == [lines |-> <<>>, counts |-> <<>>]
\* What a line may contain, what every line does, and what none does.
Patterns == UNION {Text[n] : n \in DOMAIN Text} \cup {<<>>, <<"none">>}

NoBuildmode == [command |-> 0, mode |-> 0, transient |-> 0, found |-> <<>>]
NotRun == [executed |-> FALSE, command |-> 0, found |-> <<>>,
           filters |-> <<>>, infull |-> FALSE, meant |-> 0, settings |-> <<>>]

Building(bm) == bm.command # 0

\* The names are the words of the built-in commands of a buildmode.
CONSTANTS Cancel, Execute, Show, Unset, Setting
Own == {Cancel, Execute, Show, Unset}

IsSequence(s) == s \in Seq({s[n] : n \in DOMAIN s})

\* The filters that libcli has.
FilterActs ==
  {"include", "exclude", "grep", "egrep", "begin", "between", "count"}

\* A command is registered under its parent, which came before it.  A line
\* that is completed ends with a word, be it a null pointer.
ASSUME ShellAssumption ==
  /\ MaxSettings \in Nat
  /\ IsSequence(Registered)
  /\ \A i \in DOMAIN Registered :
       LET c == Registered[i]
       IN /\ c = [Command(c.parent, c.name, c.type, c.privilege, c.mode, c.act,
                          c.optargs) EXCEPT !.unique_len = c.unique_len,
                                            !.optional = c.optional]
          /\ c.parent \in 0 .. i - 1
          /\ c.type \in {"regular", "filter"}
          /\ c.type = "filter" => c.act \in FilterActs
          /\ IsSequence(c.name) /\ IsSequence(c.optargs)
          /\ \A j \in DOMAIN c.optargs : IsSequence(c.optargs[j].name)
  /\ \A name \in Own \cup {Setting} : IsSequence(name)
  /\ IsSequence(Text)
  /\ \A line \in Lines \cup Beginnings :
       /\ IsSequence(line)
       /\ \A n \in DOMAIN line : IsSequence(line[n])
  /\ \A line \in Beginnings :
       line # <<>> /\ Len(line) \notin Bars(line)

-----------------------------------------------------------------------------
(* Buildmode: the options from the one that opens it on become commands.   *)

Opener(optargs) ==
  Least({i \in DOMAIN optargs : "build" \in optargs[i].flags})

\* Its own commands would be defined twice.
Conflicts(optargs) ==
  \E i \in DOMAIN optargs : i >= Opener(optargs) /\ optargs[i].name \in Own

Offered(optargs, m, transient) ==
  LET Fits(i) == /\ i > Opener(optargs)
                 /\ "build" \notin optargs[i].flags
                 /\ optargs[i].kind # "check" /\ optargs[i].enters = NoMode
                 /\ optargs[i].mode \in {m, transient}
      offered[i \in 0 .. Len(optargs)] ==
        IF i = 0 THEN <<>>
        ELSE IF Fits(i) THEN Append(offered[i - 1], optargs[i])
        ELSE offered[i - 1]
  IN offered[Len(optargs)]

BuildCommand(o, m) ==
  LET valued == o.kind \in {"option", "argument"}
      own == [Optarg(o.name, "argument", o.flags \cap {"multiple", "completor"},
                     m, o.accepts, NoMode) EXCEPT !.offers = o.offers]
  IN [Command(0, o.name, "buildmode", o.privilege, m,
              IF valued THEN "setting" ELSE "flag",
              IF valued THEN <<own>> ELSE <<>>)
        EXCEPT !.optional = o.kind \in {"flag", "option"}]

\* The flag is recorded under its own name, once or each time.
RecordsMany(optargs, name) ==
  \E i \in DOMAIN optargs :
    optargs[i].name = name /\ "multiple" \in optargs[i].flags

Always(m) ==
  <<Command(0, Cancel, "buildmode", 0, m, "cancel", <<>>),
    Command(0, Execute, "buildmode", 0, m, "execute", <<>>),
    Command(0, Show, "buildmode", 0, m, "show", <<>>),
    Command(0, Unset, "buildmode", 0, m, "unset",
            <<Optarg(Setting, "argument", {"unrecorded", "completor"}, m, {},
                     NoMode)>>)>>

\* After an error the commands it had registered are gone again.
cli_int_enter_buildmode(r, i, p) ==
  LET optargs == r.commands[i].optargs
      offered == Offered(optargs, r.mode, p.ctx.transient)
  IN IF Conflicts(optargs) THEN [r EXCEPT !.rc = "BUILDMODE_ERROR"]
     ELSE [r EXCEPT
             !.rc = "BUILDMODE_START",
             !.buildmode = [command |-> i, mode |-> r.mode,
                            transient |-> p.ctx.transient, found |-> p.found],
             !.commands = @ \o [n \in DOMAIN offered |->
                                  BuildCommand(offered[n], r.mode)]
                            \o Always(r.mode)]

\* Mutant: the commands of the buildmode stay.
LeaveCommands(list) == list

FreeBuildmode(list) == cli_unregister_tree(list, "buildmode")

-----------------------------------------------------------------------------
(* A line, from its words to the commands and options of its stages.       *)

StageType(r, n) ==
  IF n > 1 THEN "filter" ELSE IF Building(r.buildmode) THEN "buildmode"
  ELSE "regular"

\* unset takes the name of what was set and is a command of the buildmode.
OptargsOf(r, c) ==
  IF c.act # "unset" THEN c.optargs
  ELSE LET set == SelectSeq(r.buildmode.found,
                            LAMBDA p : \E k \in DOMAIN r.commands :
                                         /\ r.commands[k].type = "buildmode"
                                         /\ r.commands[k].name = p.name)
       IN <<[c.optargs[1] EXCEPT
               !.accepts = {set[k].name : k \in DOMAIN set},
               !.offers = [k \in DOMAIN set |-> set[k].name]]>>

Chosen(i, p, words) ==
  [command |-> i, name |-> words[1], found |-> p.found,
   argv |-> SubSeq(words, p.word, Len(words))]

\* The stage after its command was found (w) and its options parsed (p).
Accepted(r, words, w, p) ==
  IF p.status = "BUILDMODE_START"
  THEN cli_int_enter_buildmode([r EXCEPT !.transient = p.ctx.transient],
                               w.command, p)
  ELSE [r EXCEPT
          !.rc = p.status,
          !.transient = p.ctx.transient,
          !.buildmode.found = IF Building(r.buildmode) THEN p.found ELSE @,
          !.chosen = Append(@, Chosen(w.command, p, words))]

Parsed(r, stage, w, allow) ==
  Accepted(r, stage.words, w,
           cli_int_parse_optargs(
             OptargsOf(r, r.commands[w.command]), stage.words, w.word + 1,
             IF Building(r.buildmode) THEN r.buildmode.found ELSE <<>>,
             [privilege |-> privilege, mode |-> r.mode,
              transient |-> r.transient,
              allow_buildmode |-> allow /\ ~Building(r.buildmode),
              next |-> stage.next]))

Located(r, stage, w, allow) ==
  LET Drop == IF ~w.dropped THEN r
              ELSE [r EXCEPT !.mode = MODE_CONFIG,
                             !.commands = cli_build_shortest(
                                            @, MODE_CONFIG, privilege)]
  IN IF w.rc # "OK" THEN [Drop EXCEPT !.rc = w.rc]
     ELSE Parsed(Drop, stage, w, allow)

\* One stage of cli_int_validate_pipeline.
Stage(r, stage, n, allow) ==
  CASE r.rc # "OK" -> r
    [] r.rc = "OK" /\ stage.words = <<>> -> [r EXCEPT !.rc = "ERROR"]
    [] OTHER -> Located(r, stage,
                        cli_int_locate_command(r.commands, r.mode, privilege,
                                               StageType(r, n), stage.words),
                        allow)

\* cli_int_generate_pipeline and cli_int_validate_pipeline
Interpret(list, m, bm, line, allow) ==
  LET stages == Stages(line)
      start == [rc |-> IF Building(bm) /\ Len(stages) > 1 THEN "ERROR" ELSE "OK",
                commands |-> list, mode |-> m, transient |-> m,
                buildmode |-> bm, chosen |-> <<>>]
      after[n \in 0 .. Len(stages)] ==
        IF n = 0 THEN start ELSE Stage(after[n - 1], stages[n], n, allow)
  IN after[Len(stages)]

-----------------------------------------------------------------------------
(* The filters of the pipeline.                                            *)

\* The names of the options of the filters; their values are got by them.
SearchFlags == <<"search_flags">>
SearchPattern == <<"search_pattern">>
RangeStart == <<"range_start">>
RangeEnd == <<"range_end">>

Value1(found, name) == IF Has(found, name) THEN cli_get_optarg_value(found, name) ELSE <<>>
Given(found, name) == IF Has(found, name) THEN {cli_get_optarg_value(found, name)} ELSE {}
Inverts(flags) == \E n \in DOMAIN flags : flags[n] = "v"

\* What the name of the filter and its options ask for.
FilterOf(act, found) ==
  LET pattern == Value1(found, SearchPattern)
  IN CASE act = "include" -> Match(pattern, FALSE)
       [] act = "exclude" -> Match(pattern, TRUE)
       [] act \in {"grep", "egrep"} ->
            Match(pattern, Inverts(Value1(found, SearchFlags)))
       [] act \in {"begin", "between"} ->
            Span(Value1(found, RangeStart), Given(found, RangeEnd))
       [] act = "count" -> Count

\* cli_match_filter_init compares the word that was typed with the names: a
\* filter that is abbreviated compiles a regular expression, and then looks
\* for the text that its bytes happen to be.
InFull(r, n) == r.chosen[n].name = r.commands[r.chosen[n].command].name
Misread(act, found, accident) ==
  IF act \in {"grep", "egrep"}
  THEN Match(accident, Inverts(Value1(found, SearchFlags)))
  ELSE Match(accident, FALSE)

\* The filters of the line; the n-th is the command of stage n + 1.
FilterAct(r, n) == r.commands[r.chosen[n + 1].command].act
Matches(r) ==
  {n \in 1 .. Len(r.chosen) - 1 :
     FilterAct(r, n) \in {"include", "exclude", "grep", "egrep"}}
Misreads(r) == {n \in Matches(r) : ~InFull(r, n + 1)}

Meant(r) ==
  [n \in 1 .. Len(r.chosen) - 1 |->
     FilterOf(FilterAct(r, n), r.chosen[n + 1].found)]

Filters(r, accident) ==
  [n \in 1 .. Len(r.chosen) - 1 |->
     IF n \in Misreads(r)
     THEN Misread(FilterAct(r, n), r.chosen[n + 1].found, accident[n])
     ELSE Meant(r)[n]]

\* count takes no arguments, and what is compiled must be an expression: else
\* the init of the filter fails, and the command does not run.
Compiles(r, n) ==
  \/ n \in Misreads(r)
  \/ n \in Matches(r) /\ FilterAct(r, n) \in {"grep", "egrep"}
Failing(r) ==
  {n \in 1 .. Len(r.chosen) - 1 :
     \/ FilterAct(r, n) = "count" /\ r.chosen[n + 1].argv # <<>>
     \/ /\ Compiles(r, n)
        /\ Value1(r.chosen[n + 1].found, SearchPattern) \in BadPatterns}
InitFails(r) == Failing(r) # {}

\* The filters before it are torn down all the same.
TornDown(r) ==
  [Nothing EXCEPT !.counts =
     [k \in 1 .. Cardinality({n \in 1 .. Least(Failing(r)) - 1 :
                               FilterAct(r, n) = "count"})
        |-> 0]]

-----------------------------------------------------------------------------

Init ==
  /\ commands = cli_build_shortest(Registered, MODE_EXEC, 0)
  /\ privilege = 0
  /\ mode = MODE_EXEC
  /\ buildmode = NoBuildmode
  /\ output = Nothing
  /\ ran = NotRun
  /\ crashed = FALSE

\* The session is left as interpreting the line left it.
Interpreted(r) ==
  /\ commands' = r.commands
  /\ mode' = r.mode
  /\ buildmode' = r.buildmode

Silent == output' = Nothing

\* Mutant: the abbreviations are not built for the new privilege.
KeepShortest(list, m, p) == list

\* The commands after a change of privilege.
cli_set_privilege(list, m, p) ==
  IF p # privilege THEN cli_build_shortest(list, m, p) ELSE list

\* cli_set_privilege and then cli_set_configmode
Set(r, p, m) ==
  LET list == cli_set_privilege(r.commands, r.mode, p)
  IN /\ privilege' = p
     /\ mode' = m
     /\ commands' = IF m # r.mode THEN cli_build_shortest(list, m, p) ELSE list
     /\ buildmode' = r.buildmode

\* by: what it is run by, when it is a buildmode that is executed.
Ran(r, by) ==
  ran' = [by EXCEPT !.command = r.chosen[1].command,
                    !.found = r.chosen[1].found,
                    !.filters = Meant(r),
                    !.infull = Misreads(r) = {}]

\* The callbacks of libcli's own commands and of its example.
Callback(r, act) ==
  \/ /\ act = "print"
     /\ \E accident \in [Misreads(r) -> Patterns] :
          output' = cli_int_execute_pipeline(Filters(r, accident), Text)
     /\ Interpreted(r)
     /\ UNCHANGED privilege
  \/ act = "enable" /\ Silent /\ Set(r, 15, MODE_EXEC)
  \/ act = "enable" /\ Silent /\ Interpreted(r) /\ UNCHANGED privilege
  \/ act = "disable" /\ Silent /\ Set(r, 0, MODE_EXEC)
  \/ act = "configure" /\ Silent /\ Set(r, privilege, MODE_CONFIG)
  \/ act = "interface" /\ Silent /\ Set(r, privilege, MODE_CONFIG + 1)
  \/ act = "exit" /\ Silent /\
       Set(r, IF r.mode = MODE_EXEC THEN 0 ELSE privilege,
           IF r.mode > MODE_CONFIG THEN MODE_CONFIG ELSE MODE_EXEC)

\* The callbacks of a buildmode; flags and settings are ignored, but kept,
\* when words are left over.
BuildCallback(r, act) ==
  LET c == r.commands[r.chosen[1].command]
      opener == r.commands[r.buildmode.command]
      many == RecordsMany(opener.optargs, c.name)
  IN \/ act = "setting" /\ Interpreted(r)
     \/ /\ act = "flag"
        /\ Interpreted([r EXCEPT !.buildmode.found =
                          cli_set_optarg_value(@, c.name, c.name, many)])
     \/ act = "show" /\ Interpreted(r)
     \/ /\ act = "unset"
        /\ Interpreted(IF r.chosen[1].argv = <<>> THEN r
                       ELSE [r EXCEPT !.buildmode.found =
                               cli_int_unset_optarg_value(
                                 @, r.chosen[1].argv[1])])
     \/ act \in {"cancel", "execute"} /\ r.chosen[1].argv # <<>> /\ Interpreted(r)
     \/ /\ act = "cancel" /\ r.chosen[1].argv = <<>>
        /\ commands' = FreeBuildmode(r.commands)
        /\ mode' = r.buildmode.mode
        /\ buildmode' = NoBuildmode

\* cli_command_name
FullName(list, i) ==
  LET name[k \in 0 .. Len(list)] ==
        CASE k = 0 -> <<>>
          [] k > 0 /\ list[k].parent = 0 -> list[k].name
          [] OTHER -> name[list[k].parent] \o <<Space>> \o list[k].name
  IN name[i]

\* The line that a buildmode stands for, cut into words again and looked up
\* after the buildmode is closed.
Executed(r) ==
  LET bm == r.buildmode
      list == FreeBuildmode(r.commands)
      built == Rebuild(FullName(r.commands, bm.command),
                       r.commands[bm.command].optargs, bm.found,
                       [privilege |-> privilege, mode |-> bm.mode,
                        transient |-> bm.transient])
  IN [missing |-> built.missing,
      r |-> Interpret(list, bm.mode, NoBuildmode, Words(built.cmdline), FALSE)]

\* The line names no command, a stage fails, or a buildmode is opened.
OnlyInterpreted(r, by) ==
  /\ \/ r.rc \notin {"OK", "BUILDMODE_ERROR"} /\ Silent
     \/ r.rc = "OK" /\ InitFails(r) /\ output' = TornDown(r)
  /\ Interpreted(r)
  /\ ran' = by
  /\ UNCHANGED <<privilege, crashed>>

RunCommand(r, by) ==
  /\ r.rc = "OK" /\ ~InitFails(r)
  /\ ~Building(r.buildmode)
  /\ Callback(r, r.commands[r.chosen[1].command].act)
  /\ Ran(r, by)
  /\ UNCHANGED crashed

RunBuildCommand(r) ==
  /\ r.rc = "OK"
  /\ Building(r.buildmode)
  /\ BuildCallback(r, r.commands[r.chosen[1].command].act)
  /\ Silent
  /\ ran' = NotRun
  /\ UNCHANGED <<privilege, crashed>>

\* A setting that is required is missing, or the line is run.
ExecuteBuildmode(r) ==
  /\ r.rc = "OK"
  /\ Building(r.buildmode)
  /\ r.commands[r.chosen[1].command].act = "execute"
  /\ r.chosen[1].argv = <<>>
  /\ \E e \in {Executed(r)} :
       LET by == [NotRun EXCEPT !.executed = TRUE,
                                !.meant = r.buildmode.command,
                                !.settings = r.buildmode.found]
       IN \/ /\ e.missing
             /\ Interpreted(r)
             /\ Silent
             /\ ran' = NotRun
             /\ UNCHANGED <<privilege, crashed>>
          \/ ~e.missing /\ (OnlyInterpreted(e.r, by) \/ RunCommand(e.r, by))

Crash ==
  /\ crashed' = TRUE
  /\ UNCHANGED <<commands, privilege, mode, buildmode, output, ran>>

\* The message names the buildmode that is gone.
FailToEnter(r) == r.rc = "BUILDMODE_ERROR" /\ Crash

cli_run_command(line) ==
  \E r \in {Interpret(commands, mode, buildmode, line, TRUE)} :
    /\ \/ OnlyInterpreted(r, NotRun)
       \/ RunCommand(r, NotRun)
       \/ RunBuildCommand(r)
       \/ ExecuteBuildmode(r)
       \/ FailToEnter(r)
    /\ Len(buildmode'.found) <= MaxSettings

\* ^Z
LeaveMode ==
  /\ mode # MODE_EXEC
  /\ commands' = cli_build_shortest(
                   IF Building(buildmode) THEN FreeBuildmode(commands)
                   ELSE commands, MODE_EXEC, privilege)
  /\ mode' = MODE_EXEC
  /\ buildmode' = NoBuildmode
  /\ Silent
  /\ ran' = NotRun
  /\ UNCHANGED <<privilege, crashed>>

\* The stage at the end of a line, and what is offered there.
LastStage(line) == Stages(line)[Len(Stages(line))].words

Offer(line, key) ==
  LET n == Len(Stages(line))
      optargsOf == [i \in DOMAIN commands |->
                      OptargsOf([commands |-> commands, buildmode |-> buildmode],
                                commands[i])]
      at == [mode |-> mode, privilege |-> privilege,
             found |-> IF Building(buildmode) THEN buildmode.found ELSE <<>>,
             opener |-> IF Building(buildmode)
                        THEN commands[buildmode.command].optargs ELSE <<>>]
  IN IF Building(buildmode) /\ n > 1 THEN Nowhere(<<>>)
     ELSE cli_get_completions(
            commands, at, StageType([buildmode |-> buildmode], n),
            LastStage(line), optargsOf, key)

\* TAB and '?': in a buildmode, what the words before the last one set is set.
Complete(line, key) ==
  \E offer \in {Offer(line, key)} :
    /\ ~offer.lost
    /\ buildmode' = IF Building(buildmode) /\ offer.command # 0
                    THEN [buildmode EXCEPT !.found = offer.found] ELSE buildmode
    /\ Len(buildmode'.found) <= MaxSettings
    /\ Silent
    /\ ran' = NotRun
    /\ UNCHANGED <<commands, privilege, mode, crashed>>

\* A null pointer is joined to the rest of the line.
LoseWord(line, key) == Offer(line, key).lost /\ Crash

Next ==
  /\ ~crashed
  /\ \/ \E line \in Lines : cli_run_command(line)
     \/ \E line \in Beginnings, key \in {"tab", "help"} :
          Complete(line, key) \/ LoseWord(line, key)
     \/ LeaveMode

Spec == Init /\ [][Next]_vars

-----------------------------------------------------------------------------
(* Properties.                                                             *)

\* An abbreviation that is accepted names one command: no other command of
\* its kind that is open at the same place goes on from it, whatever was
\* done to the mode and the privilege since the abbreviations were built.
\* The commands of a buildmode are no part of this: none is built for them,
\* their unique_len stays 0, and what several begin with names the first.
AbbreviationNamesOne ==
  \A i \in Reached(commands, mode, privilege) :
    (commands[i].type # "buildmode" /\ Visible(commands[i], mode, privilege)) =>
      \A n \in 1 .. Len(commands[i].name) - 1 :
        LET w == SubSeq(commands[i].name, 1, n)
        IN Abbreviates(w, commands[i]) =>
             \A j \in Rivals(commands, mode, privilege, i) :
               ~IsPrefixOf(w, commands[j].name)

\* A buildmode leaves no trace: its commands are there only while it is open,
\* those of the application stay in their order, and the mode it was opened
\* in is kept for it.
BuildmodeContained ==
  /\ \A i \in DOMAIN Registered :
       /\ commands[i].name = Registered[i].name
       /\ commands[i].type = Registered[i].type
  /\ \A i \in DOMAIN commands \ DOMAIN Registered :
       commands[i].type = "buildmode"
  /\ ~Building(buildmode) => DOMAIN commands = DOMAIN Registered
  /\ Building(buildmode) =>
       /\ mode = buildmode.mode
       /\ \E i \in DOMAIN commands : commands[i].act = "execute"

\* A value that is one word when it is cut again, and no abbreviation of an
\* option.
Plain(p, optargs) ==
  /\ ~CutAgain(p.value)
  /\ \/ p.value = p.name
     \/ \A i \in DOMAIN optargs : ~IsPrefixOf(p.value, optargs[i].name)

\* Executing a buildmode runs its command with the values it has collected,
\* none lost, added or taken for another option when the line that is made
\* of them is cut and parsed again.  But a value that begins an option's name
\* is taken for that option, and one with a bar or with both quotes is cut
\* in two.  Collected is, too, what was set by a line that the shell said it
\* ignored for its extra arguments.
ExecutesWhatWasBuilt ==
  LET settings == {ran.settings[k] : k \in DOMAIN ran.settings}
      found == {ran.found[k] : k \in DOMAIN ran.found}
  IN (/\ ran.executed
      /\ \A p \in settings : Plain(p, commands[ran.meant].optargs)) =>
        /\ ran.command = ran.meant
        /\ \A p \in found \cup settings :
             ValuesOf(ran.found, p.name) = ValuesOf(ran.settings, p.name)

\* The last stage of a line, entered.
Entered(words, n) ==
  Stage([rc |-> "OK", commands |-> commands, mode |-> mode, transient |-> mode,
         buildmode |-> buildmode, chosen |-> <<>>],
        [words |-> words, next |-> NoWord], n, TRUE)

ToPass(offer) ==
  \E i \in DOMAIN commands[offer.command].optargs :
    LET o == commands[offer.command].optargs[i]
    IN o.kind = "check" /\ ~Passes(o, offer.found)

Completed(words, text) == Append(SubSeq(words, 1, Len(words) - 1), text)

\* What TAB puts in a line is taken when the line is entered: a name names a
\* command, an option or a value is neither ambiguous nor refused, although
\* completion walks and parses the line by code of its own.  Where a check is
\* still to be passed it may be: completion looks past it.
CompletionIsTaken ==
  \A line \in Beginnings :
    LET words == LastStage(line)
        offer == Offer(line, "tab")
        Refusals == CASE offer.command = 0 -> {"ERROR_ARG"}
                      [] ToPass(offer) -> {"ERROR_ARG", "AMBIGUOUS"}
                      [] OTHER -> {"ERROR_ARG", "AMBIGUOUS", "ERROR"}
    IN \A n \in DOMAIN offer.entries :
         offer.entries[n].delimiter = "plain" =>
           Entered(Completed(words, offer.entries[n].text), Len(Stages(line))).rc
             \notin Refusals

\* Where '?' shows that the line may be entered as it is (<cr>), for all that
\* may follow is optional, nothing that is required is missing.  But after a
\* word with a hyphen it is always shown, with a pattern to follow or not, and
\* while a setting of a buildmode is named: that it may be left out says
\* nothing of the value it needs.
ReturnMeansComplete ==
  \A line \in Beginnings :
    LET words == LastStage(line)
        given == SelectSeq(words, LAMBDA w : w # NoWord)
        offer == Offer(line, "help")
    IN (/\ offer.entries # <<>>
        /\ ~IsPrefixOf(<<Hyphen>>, words[Len(words)])
        /\ Building(buildmode) => words[Len(words)] = NoWord
        /\ \A n \in DOMAIN offer.entries :
             offer.entries[n].delimiter = "optional") =>
         Entered(given, Len(Stages(line))).rc \notin {"ERROR_ARG", "MISSING_ARGUMENT"}

\* What is given out is what the pipeline means: filters keep their state
\* between lines, and see only what those before them let through.  The
\* filters that match are named in full: AbbreviatedFilters has the others.
OutputFiltered ==
  (ran.infull /\ ran.command # 0 /\ commands[ran.command].act = "print") =>
    output = Meaning(ran.filters, Text)

\* What README.md of libcli (line 40) says of the shortest way of entering
\* `show users | grep foobar`: "you can enter `sh us | g foobar`".
AbbreviatedFilters ==
  (ran.command # 0 /\ commands[ran.command].act = "print") =>
    output = Meaning(ran.filters, Text)
=============================================================================
