----------------------------- MODULE CliCommands -----------------------------
(***************************************************************************)
(* The commands of libcli: the list (a tree, through parents) in the order *)
(* of registration, the shortest abbreviation of each, and the walk that   *)
(* finds the command a line names.  A name is a sequence of letters; the   *)
(* comparison without case is that of one letter.                          *)
(***************************************************************************)
EXTENDS Integers, Sequences

MODE_ANY == -1
MODE_EXEC == 0
MODE_CONFIG == 1

\* What a command is, beside its name and its place; "none" is no callback.
Command(parent, name, type, privilege, mode, act, optargs) ==
  [parent |-> parent, name |-> name, type |-> type, privilege |-> privilege,
   mode |-> mode, act |-> act, optargs |-> optargs, unique_len |-> 0,
   optional |-> FALSE]

IsPrefixOf(w, name) == Len(w) <= Len(name) /\ SubSeq(name, 1, Len(w)) = w

Least(S) == CHOOSE x \in S : \A y \in S : x <= y
Greatest(S) == CHOOSE x \in S : \A y \in S : x >= y

\* The length of what two names begin with in common.
Common(a, b) ==
  Greatest({n \in 0 .. Len(a) :
              n <= Len(b) /\ SubSeq(a, 1, n) = SubSeq(b, 1, n)})

Visible(c, mode, privilege) ==
  /\ c.mode = MODE_ANY \/ c.mode = mode
  /\ c.privilege <= privilege

Siblings(commands, i) ==
  {j \in DOMAIN commands \ {i} : commands[j].parent = commands[i].parent}

Rivals(commands, mode, privilege, i) ==
  {j \in Siblings(commands, i) :
     /\ commands[j].type = commands[i].type
     /\ Visible(commands[j], mode, privilege)}

\* The walk goes down from a visible command only.
Reached(commands, mode, privilege) ==
  LET reached[i \in 0 .. Len(commands)] ==
        \/ i = 0
        \/ /\ reached[commands[i].parent]
           /\ commands[i].parent > 0 =>
                Visible(commands[commands[i].parent], mode, privilege)
  IN {i \in DOMAIN commands : reached[i]}

ShortestOf(commands, mode, privilege, i) ==
  IF Visible(commands[i], mode, privilege)
  THEN Greatest({1} \cup {Common(commands[i].name, commands[j].name) + 1 :
                            j \in Rivals(commands, mode, privilege, i)})
  ELSE Len(commands[i].name)

cli_build_shortest(commands, mode, privilege) ==
  [i \in DOMAIN commands |->
     IF i \in Reached(commands, mode, privilege)
     THEN [commands[i] EXCEPT
             !.unique_len = ShortestOf(commands, mode, privilege, i)]
     ELSE commands[i]]

Abbreviates(w, c) ==
  /\ IsPrefixOf(w, c.name)
  /\ Len(w) >= c.unique_len \/ w = c.name

-----------------------------------------------------------------------------
(* The walk along the words of a stage.  In an inner mode it may fall back *)
(* to the configuration mode, whose commands are then visible ("dropped"). *)

Walk(rc, i, word, dropped) ==
  [rc |-> rc, command |-> i, word |-> word, dropped |-> dropped]

cli_int_locate_command(commands, mode, privilege, type, words) ==
  LET InConfig == cli_build_shortest(commands, MODE_CONFIG, privilege)
      locate[k \in 1 .. Len(words)] ==
        [p \in 0 .. Len(commands) |-> [dropped \in BOOLEAN |->
          LET list == IF dropped THEN InConfig ELSE commands
              here == IF dropped THEN MODE_CONFIG ELSE mode
              Matches ==
                {i \in DOMAIN list :
                   /\ list[i].parent = p /\ list[i].type = type
                   /\ list[i].privilege <= privilege
                   /\ Abbreviates(words[k], list[i])}
              AnyMode == {i \in Matches : list[i].mode = MODE_ANY}
              \* The second command for any mode is taken at once.
              Found == {i \in Matches :
                          \/ list[i].mode = here
                          \/ i \in AnyMode /\ \E j \in AnyMode : j < i}
              OfConfig == {i \in Matches :
                             here > MODE_CONFIG /\ list[i].mode = MODE_CONFIG}
              Called(i) == list[i].act # "none"
              Take(i, d) ==
                IF \A j \in DOMAIN list : list[j].parent # i
                THEN Walk(IF Called(i) THEN "OK" ELSE "ERROR", i, k, d)
                ELSE IF k = Len(words)
                THEN Walk(IF Called(i) THEN "OK" ELSE "ERROR", i, k, d)
                ELSE LET r == locate[k + 1][i][d]
                     IN IF r.rc # "ERROR_ARG" THEN r
                        ELSE Walk(IF Called(i) THEN "OK" ELSE "ERROR",
                                  i, k, r.dropped)
          IN IF Found # {} THEN Take(Least(Found), dropped)
             ELSE IF OfConfig # {} THEN Take(Greatest(OfConfig), TRUE)
             ELSE IF AnyMode # {} THEN Take(Least(AnyMode), dropped)
             ELSE Walk("ERROR_ARG", 0, k, dropped)]]
  IN locate[1][0][FALSE]

-----------------------------------------------------------------------------
(* A command leaves with all of its type, as those of a buildmode do.      *)

cli_unregister_tree(commands, type) ==
  LET kept[n \in 0 .. Len(commands)] ==
        IF n = 0 THEN <<>>
        ELSE IF commands[n].type = type THEN kept[n - 1]
        ELSE Append(kept[n - 1], commands[n])
  IN kept[Len(commands)]

=============================================================================
