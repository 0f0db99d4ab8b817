----------------------------- MODULE MCCliShell -----------------------------
(***************************************************************************)
(* A small application in the manner of clitest: commands in three modes,  *)
(* a command with options that opens a buildmode, and libcli's filters.    *)
(***************************************************************************)
EXTENDS CliShell

\* Words, with the letters that tell them apart.
Exit == <<"e", "x">>
Ena == <<"e", "n">>
Dis == <<"d", "i">>
Conf == <<"c", "o">>
Term == <<"t">>
Sho == <<"s", "h", "o">>
Shape == <<"s", "h", "a">>
SetVar == <<"s", "e">>
Reg == <<"r", "e">>
Run == <<"r", "u">>
Intf == <<"i", "n">>
Addr == <<"a">>
Peri == <<"p", "e">>
Str == <<"s", "t">>
Txt == <<"t", "x">>
Trans == <<"t", "r">>
Verb == <<"v">>
Col == <<"c", "l">>
Side == <<"s", "i">>
Build == <<"b">>
Incl == <<"i", "c">>
Betw == <<"b", "t">>
Cnt == <<"c", "n">>
Excl == <<"e", "c">>
Beg == <<"b", "g">>
Test == <<"t", "e">>
Wrong == <<"w">>

MCCancel == <<"c", "a">>
MCExecute == <<"e", "e">>
MCShow == <<"s", "o">>
MCUnset == <<"u">>
MCSetting == <<"g">>

P1 == <<"1">>
P2 == <<"2">>
PTri == <<"3">>
PRect == <<"4">>
Grep == <<"g", "r">>
FlagV == <<Hyphen, "v">>
Invalid == <<"[">>
MCBadPatterns == {Invalid}
Rest(name) == Optarg(name, "argument", {"rest"}, MODE_ANY, AnyValue, NoMode)
Arg(name) == Optarg(name, "argument", {}, MODE_ANY, AnyValue, NoMode)
Regular(parent, name, priv, m, act, optargs) ==
  Command(parent, name, "regular", priv, m, act, optargs)
Filter(name, act, optargs) ==
  Command(0, name, "filter", 0, MODE_ANY, act, optargs)

MODE_INT == MODE_CONFIG + 1
MODE_TRI == 20
MODE_RECT == 21

Completing(o, values) == [o EXCEPT !.offers = values]

PeriOptargs ==
  <<Optarg(Trans, "flag", {}, MODE_EXEC, AnyValue, NoMode),
    Completing(Optarg(Col, "option", {"completor"}, MODE_EXEC, {P1}, NoMode),
               <<P1>>),
    Optarg(<<"_">>, "check", {}, MODE_EXEC, {Trans, Col}, NoMode),
    Completing(Optarg(Shape, "argument", {"build", "completor"}, MODE_EXEC,
                      {PTri, PRect},
                      [v \in {PTri, PRect} |->
                         IF v = PTri THEN MODE_TRI ELSE MODE_RECT]),
               <<PTri, PRect>>),
    Optarg(Verb, "flag", {"multiple"}, MODE_EXEC, AnyValue, NoMode),
    Optarg(Side, "argument", {}, MODE_TRI, {P1, P2}, NoMode),
    Optarg(Side, "argument", {}, MODE_RECT, {P1, P2}, NoMode),
    Optarg(SetVar, "argument", {}, MODE_RECT, {P1}, NoMode)>>

StrOptargs ==
  <<Optarg(Build, "flag", {"build"}, MODE_CONFIG, AnyValue, NoMode),
    Optarg(Col, "option", {}, MODE_CONFIG, {P1}, NoMode),
    Optarg(Txt, "argument", {}, MODE_CONFIG, AnyValue, NoMode)>>

\* After its argument, all that may follow is optional.
TestOptargs ==
  <<Arg(Txt),
    Optarg(Verb, "flag", {}, MODE_ANY, AnyValue, NoMode),
    Optarg(Col, "option", {}, MODE_ANY, AnyValue, NoMode)>>

\* A buildmode with a command of the name of one of its own.
WrongOptargs ==
  <<Optarg(Build, "flag", {"build"}, MODE_ANY, AnyValue, NoMode),
    Optarg(MCShow, "flag", {}, MODE_ANY, AnyValue, NoMode)>>

MCRegistered ==
  <<Regular(0, Exit, 0, MODE_ANY, "exit", <<>>),
    Regular(0, Ena, 0, MODE_EXEC, "enable", <<>>),
    Regular(0, Dis, 15, MODE_EXEC, "disable", <<>>),
    Regular(0, Conf, 15, MODE_EXEC, "none", <<>>),
    Regular(4, Term, 15, MODE_EXEC, "configure", <<>>),
    Filter(Beg, "begin", <<Rest(RangeStart)>>),
    Filter(Betw, "between", <<Arg(RangeStart), Rest(RangeEnd)>>),
    Filter(Cnt, "count", <<>>),
    Filter(Excl, "exclude", <<Rest(SearchPattern)>>),
    Filter(Incl, "include", <<Rest(SearchPattern)>>),
    Filter(Grep, "grep",
           <<Optarg(SearchFlags, "hyphen", {}, MODE_ANY, {FlagV}, NoMode),
             Rest(SearchPattern)>>),
    Regular(0, SetVar, 15, MODE_EXEC, "print", <<>>),
    Regular(0, Sho, 0, MODE_EXEC, "none", <<>>),
    Regular(13, Reg, 0, MODE_EXEC, "print", <<>>),
    Regular(0, Intf, 15, MODE_CONFIG, "interface", <<>>),
    Regular(0, Exit, 15, MODE_INT, "exit", <<>>),
    Regular(0, Addr, 15, MODE_INT, "print", <<>>),
    Regular(0, Peri, 0, MODE_EXEC, "print", PeriOptargs),
    Regular(13, Run, 15, MODE_EXEC, "print", <<>>),
    Regular(0, Str, 15, MODE_CONFIG, "print", StrOptargs),
    Regular(0, Test, 0, MODE_EXEC, "print", TestOptargs),
    Regular(0, Wrong, 0, MODE_EXEC, "print", WrongOptargs)>>

\* The first letters of what is typed for a word.
S == <<"s">>
E1 == <<"e">>
X == P1
Y == P2
MCText == <<{}, {X}, {}, {Y}, {X, Y}, {Y}, {}>>

\* Values that are not only letters: nothing, a blank, a quote, and a bar.
Blank == <<"1", Space, "2">>
Quote == <<"1", "'">>
Pipe == <<"1", Bar, "c", "n">>
Piped(a, b) == a \o <<<<Bar>>>> \o b

Show1 == <<Sho, Reg>>
MCLines ==
  {<<w>> : w \in {Exit, Ena, Dis, SetVar, S, E1, Sho, Intf, Addr, Str,
                  MCCancel, MCExecute, MCShow, MCUnset, Verb, Side, Conf}}
  \cup {<<Conf, Term>>, <<<<"c">>, Term>>, <<Intf, P1>>, <<Wrong, Build>>}
  \cup {Show1, <<Sho, <<"r">>>>, <<Sho, P1>>, Piped(Show1, <<>>), <<Sho, Run>>}
  \cup {Piped(Show1, f) :
           f \in {<<Beg, P1>>, <<Betw, P1, P2>>, <<Betw, P1, <<>>>>, <<Cnt>>,
                  <<Cnt, P1>>, <<Excl, P2>>, <<Incl, P1>>, <<Incl, <<>>>>,
                  <<Incl>>, <<Incl, Invalid>>, <<E1, P2>>, <<E1, Invalid>>,
                  <<Grep, FlagV, P1>>, <<Grep, P2>>, <<Grep, Invalid>>,
                  <<<<"g">>, P1>>}}
  \cup {Piped(Piped(Show1, f), g) :
           f \in {<<Beg, P1>>, <<Betw, P1, P2>>, <<Incl, P2>>, <<Cnt>>},
           g \in {<<Cnt>>, <<Cnt, P1>>, <<Excl, P1>>, <<Betw, P2, P1>>}}
  \cup {<<Peri>> \o w : w \in {<<PTri>>, <<Col, P1, PTri>>, <<Trans, PRect>>,
                               <<<<"t">>, PTri, P1>>, <<Col>>, <<Col, P2>>,
                               <<Col, P1, PRect, P1, P1>>}}
  \cup {<<Test, P1, Verb>>, <<Test, P1, Col>>, Piped(<<Test, P1, Col>>, <<Cnt>>)}
  \cup {<<Str, Build>>, <<Str, P1>>}
  \cup {<<w, v>> : w \in {Side, SetVar, Txt, Col, S, MCUnset},
                   v \in {P1, P2, Side, Build}}
  \cup {<<Txt, v>> : v \in {<<>>, Blank, Quote, Pipe}}
  \cup {<<MCCancel, P1>>, <<MCExecute, P1>>, <<Verb, P1>>, <<MCUnset, Verb>>,
        <<Side, P1, P1>>, Piped(<<Verb>>, <<Cnt>>)}

\* Lines in the making; the last word is what was typed of it, if anything.
MCBeginnings ==
  {<<w>> : w \in {NoWord, <<"e">>, <<"d">>, <<"s">>, <<"p">>, <<"v">>, Col}}
  \cup {<<w, NoWord>> : w \in {<<"c">>, <<"s", "h">>, Side, SetVar, MCUnset,
                               Reg, Verb, Intf, Str, Test}}
  \cup {<<Sho, <<"r">>>>, <<Side, P1, NoWord>>, <<Str, <<"b">>>>,
        <<MCUnset, <<"s">>>>, <<Test, P1, NoWord>>, <<Test, P1, Verb, NoWord>>,
        <<Test, P1, Col, NoWord>>, <<Test, P1, Col, P2, NoWord>>}
  \cup {<<Peri>> \o w : w \in {<<NoWord>>, <<<<"t">>>>, <<<<"c">>>>,
           <<Col, NoWord>>, <<Col, P1>>, <<Col, P1, NoWord>>, <<Trans, <<"c">>>>,
           <<Col, P1, PTri, NoWord>>, <<Col, P1, PRect, P1, NoWord>>,
           <<Trans, PRect, <<"v">>>>, <<Trans, PTri, P2, NoWord>>}}
  \cup {Piped(Show1, f) :
           f \in {<<NoWord>>, <<<<"b">>>>, <<Incl, NoWord>>, <<Betw, P1, NoWord>>,
                  <<Incl, P1, NoWord>>, <<Cnt, NoWord>>, <<Grep, FlagV>>,
                  <<Grep, FlagV, NoWord>>}}
=============================================================================
