------------------------------ MODULE CliSession ------------------------------
(***************************************************************************)
(* One telnet session of libcli: cli_loop reads a byte at a time, takes    *)
(* telnet negotiation and escape sequences out of the stream, edits the    *)
(* line in a buffer while it echoes what it does to the terminal, recalls  *)
(* lines of the history, and gives the line that is entered to the login,  *)
(* to the enable prompt or to a command, by the state the session is in.   *)
(*                                                                         *)
(* Which command a line names is the matter of CliCommands: here a line    *)
(* may stand for any command that is open to the session.                  *)
(*                                                                         *)
(* Two places of cli_loop leave the bounds of an array: TAB copies a       *)
(* completion into the line without asking for room, and Up reads the      *)
(* history at an index that Down has taken past its end.  What the program *)
(* does after that is undefined: the session is "overrun", and nothing     *)
(* more is said of it.                                                     *)
(***************************************************************************)
EXTENDS Integers, Sequences

CONSTANTS
  Letters,      \* the characters that can be typed, other than " "
  MaxLine,      \* CLI_MAX_LINE_LENGTH, the size of the buffer
  MaxHistory,   \* MAX_HISTORY
  MaxIndex,     \* bound: how far Down takes an index of an empty history
  Recorded,     \* bound: the lines that go into the history
  Completions,  \* the words that TAB can complete to
  Accounts,     \* <<name, password>> pairs that check_auth accepts
  EnableWords,  \* the passwords that check_enable accepts
  AuthRequired, \* FALSE when there are no users and no auth callback
  MaxMode,      \* the innermost mode a command enters: 1 is configuration
  EnableFree    \* TRUE when there is no enable password and no callback

ASSUME SessionAssumption ==
  /\ Letters \cap {"nul", "^P", "^N"} = {}
  /\ Completions \subseteq Seq(Letters)
  /\ MaxLine \in Nat \ {0, 1}
  /\ MaxHistory \in Nat \ {0}
  /\ MaxIndex \in Nat /\ MaxIndex > MaxHistory
  /\ MaxMode \in Nat \ {0}
  /\ AuthRequired \in BOOLEAN
  /\ EnableFree \in BOOLEAN

VARIABLES
  state,      \* cli->state, or "closed" once cli_loop is left, or "overrun"
  privilege,  \* cli->privilege
  mode,       \* cli->mode
  cmd,        \* the buffer, from its first byte
  l,          \* the length of the line
  cursor,     \* the characters before the cursor
  in_history, \* index of the history line last shown
  history,    \* cli->history, whose slots fill from the first
  username,   \* the name entered at the login prompt
  is_telnet_option, \* 1 after IAC, or IAC and a verb
  esc,        \* 0, 1 after ESC, 2 after ESC [
  screen,     \* what the terminal shows after the prompt, and its cursor
  key,        \* history: the key the last byte was to the editor
  presses     \* history: presses of Down less those of Up since the line
              \* began, counted around the lines of the history

line == <<cmd, l, cursor>>
stream == <<is_telnet_option, esc>>
access == <<state, privilege, mode, username>>
vars == <<access, line, in_history, history, stream, screen, key, presses>>

NUL == "nul"
Blank == " "
Text == Letters \cup {Blank}
Room == MaxLine - 1
EmptyBuffer == [x \in 1 .. MaxLine |-> NUL]
Buffer(s) == [x \in 1 .. MaxLine |-> IF x <= Len(s) THEN s[x] ELSE NUL]

\* strdup(cmd): up to the first NUL.
Entered ==
  LET end == CHOOSE x \in 1 .. MaxLine :
               cmd[x] = NUL /\ \A y \in 1 .. x - 1 : cmd[y] # NUL
  IN SubSeq(cmd, 1, end - 1)

Hidden == state \in {"password", "enable_password"}
Prompting == state \in {"normal", "enable"}
Open == state \notin {"closed", "overrun"}

-----------------------------------------------------------------------------
(* The terminal: a row of cells and a cursor; "\b" moves back, anything    *)
(* else is written over the cell and moves on.  A name entered at login    *)
(* is not followed: "^A" and "^L" put another prompt before it there.      *)

Row == [x \in 1 .. MaxLine |-> Blank]
Fresh == [cells |-> Row, at |-> 0]
Back(t, n) == [t EXCEPT !.at = @ - n]
Put(t, s) ==
  [cells |-> [x \in 1 .. MaxLine |->
                IF x \in t.at + 1 .. t.at + Len(s) THEN s[x - t.at]
                ELSE t.cells[x]],
   at |-> t.at + Len(s)]
Blanks(n) == [x \in 1 .. n |-> Blank]

\* show_prompt and the line, with the cursor where it was.
Redrawn(buf, n, c) == Back(Put(Fresh, SubSeq(buf, 1, n)), n - c)

\* Mutant: what is typed is shown whatever is asked for.
EchoAlways(t) == screen' = t

\* What the tests for the two password states keep from the terminal.
Echo(t) ==
  screen' = CASE Hidden -> screen [] Prompting -> t [] OTHER -> Fresh

-----------------------------------------------------------------------------

Init ==
  /\ state = IF AuthRequired THEN "login" ELSE "normal"
  /\ privilege = 0
  /\ mode = 0
  /\ cmd = EmptyBuffer
  /\ l = 0
  /\ cursor = 0
  /\ in_history = 0
  /\ history = <<>>
  /\ username = <<>>
  /\ is_telnet_option = 0
  /\ esc = 0
  /\ screen = Fresh
  /\ key = "none"
  /\ presses = 0

-----------------------------------------------------------------------------
(* The stream: bytes that are not keys.                                    *)

IAC == "iac"
Verb == "verb"  \* WILL, WONT, DO, DONT
ESC == "esc"
Swallow ==
  /\ key' = "none"
  /\ UNCHANGED <<access, line, in_history, history, screen, presses>>

\* A byte that gets past the telnet layer; after IAC that is IAC itself.
Literal(c) == IF is_telnet_option = 0 THEN c # IAC ELSE c = IAC

Negotiate(c) ==
  /\ Open
  /\ ~Literal(c)
  /\ is_telnet_option' = IF is_telnet_option = 0 \/ c = Verb THEN 1 ELSE 0
  /\ UNCHANGED esc
  /\ Swallow

Escape(c) ==
  /\ Open
  /\ Literal(c)
  /\ esc # 0 \/ c = ESC
  /\ esc' = CASE esc = 0 -> 1
              [] esc = 1 /\ c = "[" -> 2
              [] OTHER -> 0
  /\ is_telnet_option' = 0
  /\ Swallow

Arrow == [A |-> "^P", B |-> "^N", C |-> "^F", D |-> "^B"]

\* A key reaches the editor: a byte, a doubled IAC that is a character like
\* another, or an arrow.
KeyRead(k) ==
  /\ Open
  /\ \/ esc = 0 /\ is_telnet_option = 0
     \/ esc = 0 /\ k \in Letters
     \/ esc = 2 /\ is_telnet_option = 0 /\ \E b \in DOMAIN Arrow : Arrow[b] = k
  /\ is_telnet_option' = 0
  /\ esc' = 0
  /\ key' = k

-----------------------------------------------------------------------------
(* Editing.                                                                *)

Edited == UNCHANGED <<access, in_history, history, presses>>

\* The key has left the bounds of an array.
Overrun ==
  /\ state' = "overrun"
  /\ UNCHANGED <<privilege, mode, username, line, in_history, history,
                 screen, presses>>

Ahead == SubSeq(cmd, cursor + 1, l)

Bell == UNCHANGED <<line, screen>> /\ Edited

TypeAtEnd(c) ==
  /\ KeyRead(c)
  /\ cursor = l /\ l < Room
  /\ cmd' = [cmd EXCEPT ![cursor + 1] = c]
  /\ l' = l + 1
  /\ cursor' = cursor + 1
  /\ Echo(Put(screen, <<c>>))
  /\ Edited

TypeAtFullEnd(c) ==
  /\ KeyRead(c)
  /\ cursor = l /\ l = Room
  /\ cmd' = [cmd EXCEPT ![cursor + 1] = NUL]
  /\ UNCHANGED <<l, cursor, screen>>
  /\ Edited

\* Mutant: the length of a full line goes on growing.
LengthTyped == l + 1

LengthAfterInsert == IF l = Room THEN l ELSE l + 1

TypeInside(c) ==
  /\ KeyRead(c)
  /\ cursor < l
  /\ cmd' = [x \in 1 .. MaxLine |->
               CASE x = cursor + 1 -> c
                 [] x \in cursor + 2 .. LengthAfterInsert -> cmd[x - 1]
                 [] x = l + 1 /\ l = Room -> NUL
                 [] OTHER -> cmd[x]]
  /\ l' = LengthAfterInsert
  /\ cursor' = cursor + 1
  /\ LET rest == SubSeq(cmd', cursor + 1, l')
         shown == Back(Put(screen, rest), Len(rest))
     IN IF Hidden THEN screen' = shown ELSE Echo(Put(shown, <<c>>))
  /\ Edited

\* The buffer after n characters before the cursor are erased.  In a hidden
\* entry the text is moved only when the cursor is at its end.
Erased(n) ==
  [x \in 1 .. MaxLine |->
     IF cursor < l /\ Hidden THEN cmd[x]
     ELSE CASE x <= cursor - n -> cmd[x]
            [] x \in cursor - n + 1 .. l - n -> cmd[x + n]
            [] x \in l - n + 1 .. l -> NUL
            [] OTHER -> cmd[x]]

\* "\b", the rest of the line, a blank, and back: once for each of n.
EraseEcho(n) ==
  LET t[m \in 0 .. n] ==
        IF m = 0 THEN screen
        ELSE Back(Put(Back(t[m - 1], 1), Ahead \o <<Blank>>), Len(Ahead) + 1)
  IN t[n]

\* Mutant: a word reaches to the start of the line.
LineStart == 0

\* The position of the word before the cursor.
WordStart ==
  LET Letter(x) == cmd[x] # Blank
      End == CHOOSE x \in 0 .. cursor :
               /\ x = 0 \/ Letter(x)
               /\ \A y \in x + 1 .. cursor : ~Letter(y)
  IN CHOOSE x \in 0 .. End :
       /\ x = 0 \/ ~Letter(x)
       /\ \A y \in x + 1 .. End : Letter(y)

Erase(k) ==
  /\ KeyRead(k)
  /\ cursor > 0
  /\ LET n == IF k = "^W" THEN cursor - WordStart ELSE 1
     IN /\ cmd' = Erased(n)
        /\ l' = l - n
        /\ cursor' = cursor - n
        /\ Echo(EraseEcho(n))
  /\ Edited

EraseNothing(k) == KeyRead(k) /\ cursor = 0 /\ Bell

\* Mutant: the blanks are written from the cursor on.
ClearedAhead == Back(Put(screen, Blanks(l)), l)

\* cli_clear_line
Cleared == Back(Put(Back(screen, cursor), Blanks(l)), l)
Zeroed(from) == [x \in 1 .. MaxLine |-> IF x \in from .. l THEN NUL ELSE cmd[x]]

ClearLine ==
  /\ KeyRead("^U")
  /\ cmd' = Zeroed(1)
  /\ l' = 0
  /\ cursor' = 0
  /\ Echo(Cleared)
  /\ Edited

KillToEnd ==
  /\ KeyRead("^K")
  /\ cmd' = Zeroed(cursor + 1)
  /\ l' = cursor
  /\ UNCHANGED cursor
  /\ Echo(Back(Put(screen, Blanks(l - cursor)), l - cursor))
  /\ Edited

Motion ==
  /\ \/ /\ KeyRead("^B")
        /\ cursor' = IF cursor > 0 THEN cursor - 1 ELSE 0
        /\ Echo(Back(screen, cursor - cursor'))
     \/ /\ KeyRead("^F")
        /\ cursor' = IF cursor < l THEN cursor + 1 ELSE cursor
        /\ Echo(Put(screen, SubSeq(cmd, cursor + 1, cursor')))
     \/ /\ KeyRead("^A")
        /\ cursor' = 0
        /\ Echo([screen EXCEPT !.at = 0])
     \/ /\ KeyRead("^E")
        /\ cursor' = l
        /\ Echo(Put(screen, Ahead))
  /\ UNCHANGED <<cmd, l>>
  /\ Edited

Redraw ==
  /\ KeyRead("^L")
  /\ UNCHANGED line
  /\ Echo(Redrawn(cmd, l, cursor))
  /\ Edited

Ignored == KeyRead("^C") /\ Bell

\* What TAB can write: a single completion has a blank after it.
Continuations == {w \o end : w \in Completions, end \in {<<>>, <<Blank>>}}

\* What ends the part of a line that TAB completes: "," does so for the
\* completions that are said to be comma separated.
Separators == {{Blank, "|"}, {Blank, "|", ","}}

\* The part after the first n characters is what TAB completes.
Completing(n, ends) ==
  /\ n > 0 => cmd[n] \in ends
  /\ \A x \in n + 1 .. l : cmd[x] \notin ends

\* The part is typed as its completions are written: without quotes, and in
\* their case.
Continues(w, n) == Len(w) >= l - n /\ SubSeq(w, 1, l - n) = SubSeq(cmd, n + 1, l)

Listed ==
  /\ Prompting /\ cursor = l
  /\ UNCHANGED line
  /\ screen' = Redrawn(cmd, l, cursor)
  /\ Edited

\* strcpy or strncpy over the part, and the blank after a single completion.
Completed(w, n) ==
  IF n + Len(w) > Room
  THEN Overrun
  ELSE /\ cmd' = Buffer(SubSeq(cmd, 1, n) \o w)
       /\ l' = n + Len(w)
       /\ cursor' = l'
       /\ screen' = Put(Back(screen, l - n), w)
       /\ Edited

\* TAB: nothing is found, a list is shown, or the part is replaced by its
\* completion or by what several have in common.
Complete ==
  /\ KeyRead("^I")
  /\ \/ Bell
     \/ Listed
     \/ /\ Prompting /\ cursor = l
        /\ \E w \in Continuations, n \in 0 .. l :
             /\ \E ends \in Separators : Completing(n, ends)
             /\ Continues(w, n)
             /\ Completed(w, n)

Help == KeyRead("?") /\ cursor = l /\ (Bell \/ Listed)

\* cli->history has a fixed number of slots; the filled ones come first.
Newest == Len(history) - 1

\* One line down or up in the history, around its end.
Turned(k) ==
  IF history = <<>> THEN presses
  ELSE (IF k = "^P" THEN presses - 1 ELSE presses + 1) % Len(history)

\* With an empty history every Down takes the index one further.
Index(k) ==
  IF k = "^P"
  THEN IF in_history > 0 THEN in_history - 1 ELSE Newest
  ELSE IF in_history < Newest THEN in_history + 1
  ELSE IF history # <<>> THEN 0 ELSE in_history + 1

Recalled(k) ==
  /\ in_history' = Index(k)
  /\ in_history' <= MaxIndex
  /\ presses' = Turned(k)
  /\ IF in_history' \in 0 .. Newest
     THEN LET entry == history[in_history' + 1]
          IN /\ cmd' = Buffer(entry)
             /\ l' = Len(entry)
             /\ cursor' = l'
             /\ screen' = Put(Cleared, entry)
     ELSE UNCHANGED <<line, screen>>
  /\ UNCHANGED <<access, history>>

Recall(k) ==
  /\ KeyRead(k)
  /\ IF ~Prompting THEN Bell
     ELSE IF k = "^P" /\ Index(k) >= MaxHistory THEN Overrun
     ELSE Recalled(k)

-----------------------------------------------------------------------------
(* The end of a line.                                                      *)

\* Mutant: a new line goes on where the last one was in the history.
KeepInHistory == in_history

InHistory == 0

\* The next line starts empty, with the prompt of the state.
NewLine ==
  /\ cmd' = EmptyBuffer
  /\ l' = 0
  /\ cursor' = 0
  /\ in_history' = InHistory
  /\ presses' = 0
  /\ screen' = Fresh

AddHistory(entry) ==
  history' =
    IF Len(history) = MaxHistory THEN Append(Tail(history), entry)
    ELSE IF history # <<>> /\ history[Len(history)] = entry THEN history
    ELSE Append(history, entry)

SetPrivilege(p) == privilege' = p
SetConfigMode(m) == mode' = m

\* A line entered where nothing is asked for is dropped.
EnterNothing ==
  /\ KeyRead("CR")
  /\ Open /\ ~Hidden /\ l = 0
  /\ NewLine
  /\ UNCHANGED <<access, history>>

Login ==
  /\ KeyRead("CR")
  /\ state = "login" /\ l > 0
  /\ username' = Entered
  /\ state' = "password"
  /\ NewLine
  /\ UNCHANGED <<privilege, mode, history>>

Password(k) ==
  /\ KeyRead(k)
  /\ state = "password"
  /\ LET allowed == <<username, Entered>> \in Accounts
     IN /\ state' = IF allowed THEN "normal" ELSE "login"
        /\ username' = IF allowed THEN username ELSE <<>>
  /\ NewLine
  /\ UNCHANGED <<privilege, mode, history>>

EnablePassword(k) ==
  /\ KeyRead(k)
  /\ state = "enable_password"
  /\ IF Entered \in EnableWords
     THEN state' = "enable" /\ SetPrivilege(15)
     ELSE state' = "normal" /\ UNCHANGED privilege
  /\ NewLine
  /\ UNCHANGED <<mode, username, history>>

\* cli_loop is left: the history and the name are freed.
Leave ==
  /\ state' = "closed"
  /\ history' = <<>>
  /\ username' = <<>>
  /\ cmd' = EmptyBuffer
  /\ l' = 0
  /\ cursor' = 0
  /\ in_history' = InHistory
  /\ presses' = 0
  /\ screen' = Fresh

\* The commands of libcli and of its example that change the session.
Enable ==
  /\ mode = 0
  /\ IF privilege = 15
     THEN UNCHANGED <<state, privilege, mode>>
     ELSE IF EnableFree
     THEN /\ SetPrivilege(15) /\ SetConfigMode(0)
          /\ UNCHANGED state
     ELSE state' = "enable_password" /\ UNCHANGED <<privilege, mode>>

Disable ==
  /\ privilege = 15 /\ mode = 0
  /\ SetPrivilege(0) /\ SetConfigMode(0)
  /\ UNCHANGED state

\* configure terminal, and an application's command for an inner mode; exit.
ChangeMode ==
  /\ \/ privilege = 15 /\ mode < MaxMode /\ SetConfigMode(mode + 1)
     \/ mode > 0 /\ SetConfigMode(IF mode > 1 THEN 1 ELSE 0)
  /\ UNCHANGED <<state, privilege>>

Quit ==
  /\ mode = 0
  /\ SetPrivilege(0) /\ SetConfigMode(0)

NoChange == UNCHANGED <<state, privilege, mode>>

Named == \E x \in 1 .. l : cmd[x] # Blank

Command ==
  /\ NoChange \/ (Named /\ (Enable \/ Disable \/ ChangeMode))
  /\ UNCHANGED <<username>>

NoCommand == NoChange /\ UNCHANGED username

\* "history" is not recorded, nor any line outside the bound.
Run ==
  /\ KeyRead("CR")
  /\ Prompting /\ l > 0
  /\ \/ Entered \in Recorded /\ AddHistory(Entered) /\ Command
     \/ UNCHANGED history /\ (IF Entered \in Recorded THEN NoCommand ELSE Command)
  /\ NewLine

\* quit, or exit in the first mode: by itself or with the "?" that asks for
\* its arguments.
RunQuit(k) ==
  /\ KeyRead(k)
  /\ Prompting /\ Named
  /\ k = "CR" \/ (cursor = l /\ l < Room /\ cmd[l] = Blank)
  /\ Quit
  /\ Leave

\* "?" after a command that takes no arguments runs it, and the line is
\* shown again without the "?".
HelpRuns ==
  /\ KeyRead("?")
  /\ Prompting /\ Named
  /\ cursor = l /\ l < Room /\ cmd[l] = Blank
  /\ Command
  /\ UNCHANGED <<line, history>>
  /\ in_history' = InHistory
  /\ presses' = 0
  /\ screen' = IF state' = "enable_password" THEN Fresh
               ELSE Redrawn(cmd, l, cursor)

EndOfText ==
  /\ KeyRead("^D")
  /\ ~Hidden
  /\ IF l > 0 THEN Bell
     ELSE Leave /\ UNCHANGED <<privilege, mode>>

LeaveMode ==
  /\ KeyRead("^Z")
  /\ IF mode = 0 THEN Bell
     ELSE /\ SetConfigMode(0)
          /\ cmd' = Zeroed(1)
          /\ l' = 0
          /\ cursor' = 0
          /\ screen' = Fresh
          /\ UNCHANGED <<state, privilege, username,
                         in_history, history, presses>>

\* The peer closes, read or select fails, the idle timeout or the regular
\* callback ends the session.
HangUp ==
  /\ Open
  /\ Leave
  /\ key' = "none"
  /\ UNCHANGED <<privilege, mode, stream>>

-----------------------------------------------------------------------------

Type(c) == TypeAtEnd(c) \/ TypeAtFullEnd(c) \/ TypeInside(c)

Edit ==
  \/ \E c \in Text : Type(c)
  \/ \E k \in {"^H", "^W"} : Erase(k) \/ EraseNothing(k)
  \/ ClearLine \/ KillToEnd
  \/ Motion
  \/ Redraw \/ Ignored \/ Complete \/ Help
  \/ \E k \in {"^P", "^N"} : Recall(k)

Enter ==
  \/ EnterNothing \/ Login \/ Run \/ HelpRuns
  \/ \E k \in {"CR", "?"} : RunQuit(k)
  \/ \E k \in {"CR", "^D"} : Password(k) \/ EnablePassword(k)
  \/ EndOfText \/ LeaveMode

Bytes == {IAC, Verb, ESC, "[", "~"}

Next ==
  \/ \E c \in Bytes : Negotiate(c) \/ Escape(c)
  \/ Edit
  \/ Enter
  \/ HangUp

Spec == Init /\ [][Next]_vars

-----------------------------------------------------------------------------
(* Properties.                                                             *)

Lines == UNION {[1 .. n -> Text] : n \in 0 .. Room}

\* Types of the variables; beyond the line the buffer holds no character
\* unless the entry is hidden.
TypeOK ==
  /\ state \in {"login", "password", "normal", "enable_password", "enable",
                "closed", "overrun"}
  /\ privilege \in {0, 15} /\ mode \in 0 .. MaxMode
  /\ cmd \in [1 .. MaxLine -> Text \cup {NUL}]
  /\ l \in 0 .. Room /\ cursor \in 0 .. l
  /\ cmd[MaxLine] = NUL
  /\ ~Hidden => \A x \in 1 .. MaxLine : (cmd[x] = NUL) <=> (x > l)
  /\ in_history \in -1 .. MaxIndex
  /\ history # <<>> => in_history \in 0 .. Newest /\ presses \in 0 .. Newest
  /\ Len(history) <= MaxHistory
  /\ \A x \in 1 .. Len(history) : history[x] \in Lines
  /\ username \in Lines
  /\ is_telnet_option \in 0 .. 1 /\ esc \in 0 .. 2
  /\ screen.at \in 0 .. MaxLine

\* A shown line is edited as an editor is expected to: the memmoves, the
\* terminating zeros and the indices of cli_loop implement LineEditor, at
\* the end of the buffer, through escape sequences, history, completion,
\* help that runs a command and logins, until a key leaves the bounds of an
\* array: TAB when its completion has no room in the line, or Up.
Shown(x) == IF state = "closed" \/ Hidden THEN <<>> ELSE x
Editor == INSTANCE LineEditor WITH
            Completions <- Continuations,
            before <- Shown(SubSeq(cmd, 1, cursor)),
            after <- Shown(Ahead),
            key <- IF state = "closed" \/ Hidden THEN "none" ELSE key,
            lost <- state = "overrun"
EditsLine == Editor!Spec

\* The operator sees the line that is edited, with the cursor at its place:
\* what every key writes amounts to what it does to the buffer.
ScreenShowsLine ==
  Prompting =>
    /\ screen.at = cursor
    /\ \A x \in 1 .. MaxLine :
         screen.cells[x] = IF x <= l THEN cmd[x] ELSE Blank

\* While a password is asked for the terminal goes on showing what it did,
\* unless a character is typed before the end of the entry: it and what
\* follows it are then shown, the one echo that does not ask for the state.
PasswordUnseen ==
  [][Hidden /\ state' = state /\ screen' # screen
       => cursor < l /\ key' \in Text]_vars

\* The lines of the history are a ring: whatever was pressed or typed since
\* the line began, Up shows the line before the one that Up or Down went to
\* last and Down the one after it, counted from the first.
RecallsInTurn ==
  (Prompting /\ key \in {"^P", "^N"} /\ history # <<>>) =>
    Entered = history[presses + 1]
=============================================================================
