----------------------------- MODULE CliRegistry -----------------------------
(***************************************************************************)
(* The commands of libcli as they lie in memory: nodes that are linked to  *)
(* their neighbours, their parent and their first child, made and freed as *)
(* commands come and go.  CliCommands has them as a list; here that list   *)
(* is what the links must amount to.  A node that was freed is no longer   *)
(* in the heap, and no field of it can be read.                            *)
(***************************************************************************)
EXTENDS Integers, Sequences

LOCAL INSTANCE SequencesExt

NULL == 0

\* heap: the nodes by address; commands: the first of the top level.
Empty == [heap |-> <<>>, commands |-> NULL, last |-> 0]

Node(name, type, parent) ==
  [name |-> name, type |-> type, parent |-> parent, next |-> NULL,
   previous |-> NULL, children |-> NULL]

\* heap[i].field = v, where i is no null pointer.
Store(heap, i, field, v) ==
  IF i = NULL THEN heap ELSE [heap EXCEPT ![i] = [@ EXCEPT ![field] = v]]

\* The list from node p on, by its "next" links.
RECURSIVE Chain(_, _)
Chain(heap, p) == IF p = NULL THEN <<>> ELSE <<p>> \o Chain(heap, heap[p].next)

-----------------------------------------------------------------------------
(* A command comes at the end of the list of its parent.                   *)

cli_register_command_core(s, parent, name, type) ==
  LET c == s.last + 1
      heap == [i \in DOMAIN s.heap \cup {c} |->
                 IF i = c THEN Node(name, type, parent) ELSE s.heap[i]]
      first == IF parent = NULL THEN s.commands ELSE heap[parent].children
      p == IF first = NULL THEN NULL ELSE Last(Chain(heap, first))
      Linked == Store(Store(heap, p, "next", c), c, "previous", p)
  IN IF p # NULL THEN [s EXCEPT !.last = c, !.heap = Linked]
     ELSE IF parent = NULL
     THEN [s EXCEPT !.last = c, !.heap = heap, !.commands = c]
     ELSE [s EXCEPT !.last = c, !.heap = Store(heap, parent, "children", c)]

cli_register_command(s, parent, name) ==
  cli_register_command_core(s, parent, name, "regular")
\* Filters and the commands of a buildmode are at the top, always.
cli_register_filter(s, name) == cli_register_command_core(s, NULL, name, "filter")
cli_int_register_buildmode_command(s, name) ==
  cli_register_command_core(s, NULL, name, "buildmode")

\* cli_int_command_name: the names from the top down.
RECURSIVE cli_int_command_name(_, _)
cli_int_command_name(heap, c) ==
  IF c = NULL THEN <<>>
  ELSE Append(cli_int_command_name(heap, heap[c].parent), heap[c].name)

-----------------------------------------------------------------------------
(* A command goes with all that is under it.                               *)

Without(heap, c) == [i \in DOMAIN heap \ {c} |-> heap[i]]

\* The links that led to a node go around it.
Unlink(s, c) ==
  LET next == s.heap[c].next
      previous == s.heap[c].previous
      AsFirst == Store(Store(s.heap, next, "parent", NULL), next, "previous", NULL)
      Around == Store(Store(s.heap, previous, "next", next),
                      next, "previous", previous)
  IN IF c = s.commands
     THEN [s EXCEPT !.commands = next, !.heap = Without(AsFirst, c)]
     ELSE [s EXCEPT !.heap = Without(Around, c)]

RECURSIVE cli_free_command(_, _), FreeAll(_, _)
cli_free_command(s, c) == Unlink(FreeAll(s, s.heap[c].children), c)

\* The link to the next is read before a node is freed.
FreeAll(s, c) ==
  IF c = NULL THEN s ELSE FreeAll(cli_free_command(s, c), s.heap[c].next)

cli_int_unregister_command_core(s, name, type) ==
  LET named == SelectSeq(Chain(s.heap, s.commands),
                         LAMBDA i : s.heap[i].name = name /\ s.heap[i].type = type)
  IN IF named = <<>> THEN s ELSE cli_free_command(s, Head(named))

\* From the top of the list: the first is taken off it before it is freed.
RECURSIVE UnregisterFrom(_, _, _)
UnregisterFrom(s, c, types) ==
  LET Freed(t) == cli_free_command(
                    IF c = t.commands THEN [t EXCEPT !.commands = t.heap[c].next]
                    ELSE t, c)
  IN IF c = NULL THEN s
     ELSE UnregisterFrom(IF s.heap[c].type \in types THEN Freed(s) ELSE s,
                         s.heap[c].next, types)

cli_unregister_tree(s, types) == UnregisterFrom(s, s.commands, types)

\* cli_done
Types == {"regular", "filter", "buildmode"}
cli_done(s) == cli_unregister_tree(s, Types)

-----------------------------------------------------------------------------
(* The options of a command, and the users, are lists of their own.        *)

\* A name may come again for another mode or privilege.
Same(o, p) == o.name = p.name /\ o.mode = p.mode /\ o.privilege = p.privilege

Common(a, b) == Len(LongestCommonPrefix({a, b}))

cli_optarg_build_shortest(optargs) ==
  LET Longest(n) ==
        LET others == {Common(optargs[n].name, optargs[k].name) + 1 :
                         k \in DOMAIN optargs \ {n}}
        IN CHOOSE len \in others \cup {1} : \A m \in others : m <= len
  IN [n \in DOMAIN optargs |-> [optargs[n] EXCEPT !.unique_len = Longest(n)]]

\* A second option of that kind ends in the free of a null pointer's fields.
MayRegister(optargs, o) == \A n \in DOMAIN optargs : ~Same(optargs[n], o)
cli_register_optarg(optargs, o) == cli_optarg_build_shortest(Append(optargs, o))

RemoveFirstNamed(s, name) == RemoveFirstMatch(s, LAMBDA x : x.name = name)

cli_unregister_optarg(optargs, name) ==
  cli_optarg_build_shortest(RemoveFirstNamed(optargs, name))

\* A user may be allowed twice, and is then to be denied twice.
cli_allow_user(users, user) == Append(users, user)
cli_deny_user(users, name) == RemoveFirstNamed(users, name)

-----------------------------------------------------------------------------
(* The list that the links stand for, for every short life of a registry.  *)

\* The commands in the order in which they came, each with its parent.
Under(list, c) ==
  LET under[n \in 0 .. Len(list)] ==
        IF n = 0 THEN {c}
        ELSE IF list[n].parent \in under[n - 1] THEN under[n - 1] \cup {list[n].c}
        ELSE under[n - 1]
  IN under[Len(list)]

WithoutTrees(list, tops) ==
  LET gone == UNION {Under(list, c) : c \in tops}
  IN SelectSeq(list, LAMBDA x : x.c \notin gone)

Tops(list, types) ==
  {list[n].c : n \in {k \in DOMAIN list : list[k].parent = NULL
                                            /\ list[k].type \in types}}

FirstNamed(list, name, type) ==
  LET named == SelectSeq(list, LAMBDA x : x.parent = NULL /\ x.name = name
                                            /\ x.type = type)
  IN IF named = <<>> THEN {} ELSE {Head(named).c}

CONSTANT MaxCommands, MaxCalls
Names == {"a", "b"}

\* What is called, by an application or for a buildmode.
Registered(x) ==
  LET Listed(parent, name, type) ==
        Append(x.list, [c |-> x.s.last + 1, parent |-> parent, name |-> name,
                        type |-> type])
      regular == {c \in DOMAIN x.s.heap : x.s.heap[c].type = "regular"}
  IN {[s |-> cli_register_command(x.s, parent, name),
       list |-> Listed(parent, name, "regular")] :
        parent \in {NULL} \cup regular, name \in Names}
     \cup {[s |-> cli_register_filter(x.s, name),
            list |-> Listed(NULL, name, "filter")] : name \in Names}
     \cup {[s |-> cli_int_register_buildmode_command(x.s, name),
            list |-> Listed(NULL, name, "buildmode")] : name \in Names}

Unregistered(x) ==
  {[s |-> cli_int_unregister_command_core(x.s, name, type),
    list |-> WithoutTrees(x.list, FirstNamed(x.list, name, type))] :
     name \in Names, type \in {"regular", "filter"}}
  \cup
  {[s |-> cli_unregister_tree(x.s, {type}),
    list |-> WithoutTrees(x.list, Tops(x.list, {type}))] : type \in Types}

Lives ==
  LET After(xs) ==
        UNION {(IF x.s.last < MaxCommands THEN Registered(x) ELSE {})
                 \cup Unregistered(x) : x \in xs}
      lives[n \in 0 .. MaxCalls] ==
        IF n = 0 THEN {[s |-> Empty, list |-> <<>>]} ELSE After(lives[n - 1])
  IN UNION {lives[n] : n \in 0 .. MaxCalls}

FirstUnder(s, p) == IF p = NULL THEN s.commands ELSE s.heap[p].children

\* From every command, the links lead to its children in the order in which
\* they came and back, and nothing else is left in memory.
ASSUME LinksAreTheList ==
  \A x \in Lives :
    /\ DOMAIN x.s.heap = {x.list[n].c : n \in DOMAIN x.list}
    /\ \A p \in DOMAIN x.s.heap \cup {NULL} :
         LET chain == Chain(x.s.heap, FirstUnder(x.s, p))
             listed == SelectSeq(x.list, LAMBDA y : y.parent = p)
         IN /\ chain = [n \in DOMAIN listed |-> listed[n].c]
            /\ \A n \in DOMAIN chain :
                 /\ x.s.heap[chain[n]].previous = IF n = 1 THEN NULL ELSE chain[n - 1]
                 /\ x.s.heap[chain[n]].parent = p

\* What cli_done leaves of the commands is nothing.
ASSUME DoneFreesAll == \A x \in Lives : cli_done(x.s).heap = <<>>

\* The full name of a command begins with that of its parent.
ASSUME FullNames ==
  \A x \in Lives : \A c \in DOMAIN x.s.heap :
    LET parent == x.s.heap[c].parent
    IN cli_int_command_name(x.s.heap, c)
         = Append(IF parent = NULL THEN <<>>
                  ELSE cli_int_command_name(x.s.heap, parent), x.s.heap[c].name)

\* An abbreviation of an option is as short as it can be: one letter less is
\* no other option's, or there is no letter less.
ASSUME ShortestOptargs ==
  LET Option(name) == [name |-> name, mode |-> 0, privilege |-> 0, unique_len |-> 0]
      Given == {<<"a">>, <<"a", "b">>, <<"a", "c">>, <<"b", "a">>}
      Lists == {l \in [1 .. 3 -> Given] : \A i, j \in 1 .. 3 : l[i] = l[j] => i = j}
      Begins(w, l) == {k \in DOMAIN l : Len(w) <= Len(l[k]) /\ SubSeq(l[k], 1, Len(w)) = w}
  IN \A l \in Lists, gone \in Given :
       LET all == cli_register_optarg(
                    cli_register_optarg(
                      cli_register_optarg(<<>>, Option(l[1])), Option(l[2])),
                    Option(l[3]))
           optargs == cli_unregister_optarg(all, gone)
           names == [n \in DOMAIN optargs |-> optargs[n].name]
       IN \A n \in DOMAIN optargs :
            LET len == optargs[n].unique_len
            IN /\ len <= Len(names[n]) =>
                    Begins(SubSeq(names[n], 1, len), names) = {n}
               /\ len > 1 =>
                    Begins(SubSeq(names[n], 1, len - 1), names) # {n}

=============================================================================
