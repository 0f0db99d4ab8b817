# TLA+ specifications of wlan_bridge

wlan_bridge extends an Ethernet segment over UDP. A client (`wlan_br_client`)
copies the frames of a tap device into UDP datagrams to one server and back; the
server (`wlan_br_server`) is a learning switch whose ports are the UDP addresses
(IP and port) of the clients. Both are watched and set over telnet, through the
libcli that comes with them. These modules specify the server, the client, the two
over a network, and the command line, as the code has them; TLC checks them on
small instances, and TLAPS proves the main results for every value of the
constants.

Paths below are relative to the repository (`src/`).

## 1. The system

| Part | Where | State | Operations |
|---|---|---|---|
| RX loop | `wlan_br_server/main.c` | `rx_task_is_running`, `epoll_stat_info`, the edge-triggered epoll | `server_runing_burst`, `usr1_handler` |
| Forwarding plane | `wlan_br_server/wlan_br_forward.c` | `l_head`, the circular list of (MAC, `peer_addr_info_t*`); `count` and `flood_flag` of each record | `wlan_br_handle_burst`, `wlan_list_update`, `wlan_br_forward_to_array`, `wlan_br_flood`, `wlan_br_dump_fdb`; unused: `wlan_br_handle`, `wlan_br_forward` |
| FDB | `wlan_br_server/wlan_fdb.c` | `h_head`, a hash from MAC to UDP address | `wlan_br_find`, `wlan_fdb_update` |
| UDP transport | `wlan_br_server/udp.c` | the socket, `errno` | `read_data_from_udp_client_burst`, `send_data_to_udp_client`, `send_data_to_udp_client_burst` |
| Statistics | `wlan_br_server/statistics.c` | a hash from IP to `curr_stat` and `prev_stat` | `wlan_ip_static_update_rx`/`_tx`, `wlan_ip_dump_static`, `show_throuthput` |
| CLI | `wlan_br_server/cli.c` | a listening TCP socket, one thread per session | `show fdb`, `show ip_stat`, `show epoll_stat`, `set epoll_stat_clean`, `set log_level` |
| Client | `wlan_br_client/` | tap and UDP sockets, a level-triggered epoll, the same counters and CLI | `runing`, `create_tuntap`, `create_udp_client` |
| uthash (vendored) | `src_lib/uthash` | circular lists; hash tables with buckets that double | `CDL_PREPEND`, `CDL_FOREACH_SAFE`, `HASH_FIND`, `HASH_ADD` |
| libcli (vendored) | `src_lib/libcli` | per session: the line, the history, state, privilege and mode; the registered commands; a buildmode; the filters of the line that runs | `cli_loop`, `cli_run_command`, `cli_get_completions`, `cli_register_command` |

**How they interact.** The server has one RX thread and, created by `cli_main`
before the socket, one accept thread and a thread per CLI session. The RX thread
calls downwards: RX loop → transport (read) → forwarding plane → FDB, list,
statistics → transport (send). The sessions reach the same tables and counters
through globals, with no lock and no atomic operation: they walk the list
(`show fdb`) and the statistics hash (`show ip_stat`), read the epoll counters
and clear them. SIGUSR1 interrupts the RX thread and clears the loop's flag.

**What is hard.**

- *Two tables and shared records.* A MAC enters the FDB and then the list; an
  allocation may fail between the two, and the FDB entry stops any second try.
  The MACs of one client share a record, whose `flood_flag` keeps a flood from
  sending the frame once per MAC.
- *Two paths out.* A frame to a located station waits in an array for the end of
  its burst; a flooded one leaves at once. A station may be learned, or the array
  cut short and sent again, in between.
- *Sends that fail.* `sendmmsg` stops at the first message that fails and, when
  it has sent some, reports no error: `errno == EAGAIN` in
  `send_data_to_udp_client_burst` then tests what an earlier call left there, and
  decides between one resend and dropping the rest.
- *Edge-triggered epoll.* A wakeup lost is lost for good; the loop must read until
  `EAGAIN`, and leaves the inner loop on any other error too.
- *A network that loses, doubles and reorders.* Nothing numbers the frames, and the
  server tells clients apart by address only: a client that comes back under another
  port is another client, while its stations stay where they were.
- *A command line that is parsed twice.* TAB and `?` walk the commands with code of
  their own; abbreviations are computed ahead, for one privilege and mode; a
  buildmode adds commands, collects settings, and writes them out as a line to be
  parsed again; filters keep state from line to line.
- *Bytes that edit.* The editor changes a buffer and, separately, the terminal, by
  moves and blanks; the two may part.
- *Threads without locks.* The list, the statistics and the counters are read and
  cleared by the sessions while the RX thread changes them.

**What makes each part correct.**

- Forwarding plane and FDB: the two tables agree; every located client can be
  flooded; no client gets a frame twice, or its own back; frames of a flow stay in
  order; no flag outlives its flood. In one formula: it is a learning switch.
- Statistics: each received frame is counted once on whichever path it takes, each
  copy on the wire is counted, and a rate is a rate of its interval.
- RX loop: no datagram is left in the socket unannounced; a stop request ends the
  loop.
- CLI: a walk shows what was there when it began, once, and ends; a clean clears.
- Client and network: a frame arrives unless something that may lose it did, once
  unless something that may double it did, and never where it came from, but after
  a restart.
- uthash: the table finds what was entered, through every expansion.
- libcli: the buffer is what a line editor's would be, and the screen shows it; a
  line means what it says, in full or abbreviated, entered or completed, built or
  written; a mode that is left leaves nothing behind.

## 2. The modules

| Module | Models | Proved in |
|---|---|---|
| `BridgeService` | the promise: a learning switch over UDP addresses | |
| `WlanBridge` | the forwarding plane, FDB, burst transport and counters as `wlan_br_handle_burst` runs them | `WlanBridgeProofs` |
| `MCWlanBridge` | the instance of it for TLC | |
| `RxLoop` | `server_runing_burst` around it: epoll, drain, SIGUSR1 | `RxLoopProofs` |
| `EpollStat` | the epoll counters against the commands that clear them | `EpollStatProofs` |
| `FdbDump` | `show fdb` against `CDL_PREPEND`, pointer by pointer | `FdbDumpProofs` |
| `UtHash` | `HASH_FIND`, `HASH_ADD` and the doubling of the buckets | |
| `IpStat`, `MCIpStat` | `show ip_stat` against the updates, access by access, on a table of `UtHash` | `IpStatProofs` |
| `BridgeClient` | the client's `runing`: its waits, reads, sends, SIGUSR1, its end and its next start | |
| `BridgeNetwork`, `MCBridgeNetwork` | stations, clients, the server as `BridgeService`, and UDP between them | `BridgeNetworkProofs` |
| `TapSetup` | `create_tuntap`, `create_udp_client`: what each failing call leaves behind | |
| `LineEditor` | the promise of the editor: a line, a cursor and what a key may do to them | |
| `CliSession`, `MCCliSession` | `cli_loop`: telnet bytes, editing and echo, history, login and enable | `CliSessionProofs` |
| `CliCommands` | commands, abbreviations, `cli_int_locate_command` | |
| `CliOptargs` | optional arguments, `cli_int_parse_optargs` | |
| `CliCompletion` | TAB and `?`: `cli_get_completions` and the walk of the options behind it | |
| `CliFilters` | the filters of a pipeline and what they keep between lines | `CliShellProofs` |
| `CliShell`, `MCCliShell` | `cli_run_command` over them: pipelines, buildmode, modes and privilege | `CliShellProofs` |
| `CliLine`, `CliLineChecks` | `cli_parse_line`, the stages of a pipeline, and the line a buildmode makes of words: quotes, backslashes, pipes | |
| `CliPrint` | `_print`: how text becomes lines | |
| `CliRegistry` | registering and unregistering commands, options and users, node by node | |

They split the server where its parts share little: `RxLoop` hands bursts to
`WlanBridge` and keeps only how many datagrams there are; `WlanBridge` may receive
any burst at any time, which covers whatever `RxLoop` does; the CLI modules take
the RX thread's writes to the structure they are about and leave the rest out.
`WlanBridge` runs alone because the sessions write none of what it reads.
`BridgeNetwork` composes the clients with `BridgeService`, which stands for the
server because `WlanBridge` implements it (section 4). The command line is cut at
the entered line: `CliSession` makes it, and takes any command for any line;
`CliShell` runs it.

### WlanBridge

State: `h_head` (a function from MAC to address, `NoAddr` where `HASH_FIND` gives
NULL), `l_head` (the circular list as a sequence from its head), `pa_heap` (the
`peer_addr_info_t` records; an entry of the list holds an index, so that sharing
is explicit), `to_array` (the three parallel arrays), `k` and `errno` of
`sendmmsg`, `ip_stat`. `log` and `wire` are history: what was received and what
was handed to the network.

One action per branch of the code: `RecvBurst`/`RecvFails`; `FdbKnown`,
`FdbInsert`, `FdbNoMemory` (`wlan_fdb_update`); `ListShare`, `ListNew`,
`ListNoMemory` (`wlan_list_update`); `ForwardLocal`, `ForwardToArray`
(`wlan_br_forward_to_array`); `FloodStart`, `FloodSkip`, `FloodSend`,
`FloodSendFails`, `FloodEnd` (`wlan_br_flood`, one action per turn of its loop);
`SendOne`, `SendDone`, `SendRetry`, `SendGiveUp` (`sendmmsg` message by message,
and what `send_data_to_udp_client_burst` does when it stops).

Choices:

- A datagram is `[n, from, src, dst]`; `n` identifies it. Frames are assumed to
  hold a whole header, and sources to be unicast: the code checks neither, and a
  group address as a source would be learned and never looked up.
- `wlan_list_update` searches the list from its head; `ListShare` takes any record
  with the address, and `ListAgreesWithFdb` shows there is only one.
- `count` wraps at `CountMod`, which stands for 2^16 (an `unsigned short`).
- The second allocation of `wlan_list_update` fails only for a new client; a
  failure of either has the same effect on the tables (the entry leaks), so
  `ListNoMemory` is both. `HASH_ADD` ends the process when it has no memory for its
  table (`uthash_fatal`), which is not modelled.
- `sendmmsg` sets `errno` only when its first message fails. Logging between the
  calls is taken to leave `errno` alone.
- A deferred copy keeps its datagram: `to_buf` points into the receive buffers,
  which are not read into again before the array is sent.

`BridgeService` keeps the frames heard, locations, members (the clients a flood
reaches), the frames routed, the copies due and the wire. Only a frame that was heard
and not yet routed may teach a location or be routed, so the service can neither
invent a frame nor route one twice. `Service` in `WlanBridge` maps to it: `heard` is
the log, `routed` its part that is dealt with, `loc` is the FDB, `members` the
addresses of the list, `due` the unsent part of the array together with what the
flood under way still has to send. Receiving, learning, enrolling, routing,
transmitting and losing are then single steps of `RecvBurst`, `FdbInsert`,
`ListShare`/`ListNew`, `ForwardLocal`/`ForwardToArray`/`FloodStart`,
`FloodSend`/`SendOne` and `FloodSendFails`/`SendGiveUp`; the rest stutters.

### RxLoop

`queue` counts the datagrams in the socket, `ready` says whether the socket is on
epoll's ready list: set by an arrival, reset when `epoll_wait` reports the socket
or finds it empty. That much of the kernel is assumed (marked external).
`recvmmsg` may return fewer datagrams than there are. `EpollError` is `EINTR`,
possible at any wait; `RecvError` is any error of `recvmmsg` but `EAGAIN`. `mark`
follows one datagram through the queue.

### EpollStat

An increment is a load and a store (`-O0`, no atomics), and the memset of
`epoll_stat_info` clears its three counters one at a time in any order, which
covers a memset that clears two at once. Both commands that clear are there. The
client's counters work alike.

### FdbDump

Entries are numbered as they are allocated; `next` and `prev` are functions. Each
store of `CDL_PREPEND` and each load of `CDL_FOREACH_SAFE` is one action, in
program order, `(head) ? (head)->prev : NULL` being three loads (`TestHead`,
`LoadHead`, `LoadTail`), between which stations may be learned: the build is `-O0`, and x86 keeps the order of stores and of loads.
On a machine with weaker ordering, or built with optimisation, the results do not
carry over. A prepend stores `add->next` before anything leads to `add`, and the
dump takes its last entry once, as the `prev` of a head that may be an old one by
then: these two facts are what makes the walk safe. `overlap` says that this load
fell between the stores to the head's `prev` and to the tail's `next`.

### IpStat

The walk and `show_throuthput` are split at each read and write of `curr_stat` and
`prev_stat`. HASH_ADD publishes an entry by one store after the entry's own link,
so the application order is a sequence that grows at its end; the table of
`UtHash` behind it is what the RX thread finds entries by.

### UtHash

A table is a record of buckets (sequences of keys, newest first), their number, the
count of expansions that did not help, and `noexpand`; the operators follow the
macros. `ideal_chain_maxlen` and `nonideal_items` are computed as
`HASH_EXPAND_BUCKETS` does, and each item is moved in the order of its old bucket.
The hash function is a constant, the initial number of buckets and the threshold of
a chain (32 and 10 in `uthash.h`) are constants too, so that expansion and the
giving up on it happen with a few keys. Signatures, deletion and the allocation
failures of the table are left out.

### BridgeClient and BridgeNetwork

A client is at the test of `rx_task_is_running` (`check`), in `epoll_wait` (`wait`)
or in the loop over the events (`event`). `EpollEvent` takes the descriptors that
are readable, in either order; `Forward` is one turn of the loop, a read and a send
to the other side; `SendFails` is a turn whose read or send is refused or partial,
which drops the frame (main.c:86) and is one of the bounded faults. `Exit` closes
both sockets; `Start` is a new process with a port that nobody has, `StartFails`
one that `create_tuntap` or `create_udp_client` turned away, `Killed` any end
without a clean-up.

In `BridgeNetwork` a datagram on its way to the server is in `up`, one to a client
in `down`, both sets: UDP keeps no order. `Lose` and `Duplicate` count as faults as
well. `ServerReceives` gives a datagram a number of its own, and `ServerHandles` takes
the steps of `BridgeService` for it: the server is that service by definition here,
and `WlanBridge` is what implements it. A datagram is delivered to
the socket that has its address
when it arrives, which need not be the one it was sent to. `frames`, `duplicated`
and `dropped` are history, as is `heard` of the server.

### TapSetup

The system calls of the set-up in their order, each with what it creates and what
its error path closes. Any subset of them may be refused, with the tap device there
from an earlier client or not. Two calls are not checked (`TUNSETPERSIST`,
`socket`).

### LineEditor and CliSession

`cmd`, `l` and `cursor` are the buffer of `cli_loop`; `key` is the last key, `screen`
what the bytes of the echo make of a terminal's line: its cells and the place of
its cursor. Each action is a key with the whole of its branch: letters, erase, the
word and line kills, motion, redraw, `^P`/`^N` over the history, TAB, `?`, return,
`^D`, `^Z`, `^C`; `Negotiate` and `Escape` take telnet negotiation and escape
sequences apart. `Login`, `Password`, `EnablePassword` and `Run` give the line to the
state the session is in.
The letters of the alphabet are few: what a letter is does not matter, only whether
it is a blank, or a comma, after which TAB may begin. `LineEditor` keeps just the text
and the cursor and says, for each key, what they become; `Editor` in `CliSession` maps
the buffer to it. A wait that times out and the regular callback do nothing here, and
are left out.

Two keys leave the bounds of an array, and both are kept. TAB takes the line back to
the last blank, bar or (where the completor says so) comma, and copies its completion
there without asking for room (libcli.c:1472-1475, 1527-1529). `^N` counts
`in_history` up for ever while the history is empty (1588), and the next `^P` reads
`history[in_history]` past the end of the array (1584). What follows is
undefined: `Overrun` takes the session to the state `overrun`, in which nothing but a
hang-up is left, and `LineEditor` has `Lose` for it, which allows it to exactly these
two keys. `Completing`
and `Continues` say which part TAB completes: they take for granted that it is typed
as its completion is written, without quotes and in its case, and that what TAB offers
continues the word (`cli_get_completions`, in `CliCompletion`).

`Echo` is what the tests for the two password states let through; `TypeInside` writes
the new character and what follows it without that test (1691-1693), in a password too.

### CliCommands, CliOptargs, CliCompletion, CliFilters, CliShell

A command is a record of what `struct cli_command` holds that lookup uses: parent,
name, `unique_len`, privilege, mode, type, and the options (`Optarg`, with kind,
flags, the values it accepts and those it offers). Words are sequences of letters, so
that abbreviation is a prefix. `cli_build_shortest` computes the abbreviations as
the code does, for the privilege and mode it is called in, and `CliShell` calls it
where the code does. `cli_int_locate_command` and `cli_int_parse_optargs` walk as the
code walks, with the fall-back from an inner mode to the configuration mode,
ambiguity, the spot checks, transient modes, options that repeat, and those that
take the rest of the line. The value of an option is the next word of the *line*: at
the end of a stage, the bar (`next`, libcli.c:3489).

`CliShell` has one action per outcome of an entered line (`RunCommand`,
`RunBuildCommand`, `ExecuteBuildmode`, `OnlyInterpreted` for a line that is refused
or opens a buildmode, or whose filters do not start; `FailToEnter`), two for TAB and
`?` (`Complete`, `LoseWord`) and one for `^Z` (`LeaveMode`). In a buildmode,
`Complete` keeps what the words before the last one set, as `cli_int_parse_optargs`
does at its end. A buildmode is executed by the text that
`cli_int_buildmode_extend_cmdline` makes, character by character, of the name and the
settings (`Rebuild`), cut again (`Words`), split at bars (`Stages`) and parsed.
`FailToEnter` and `LoseWord` are the two places where the code follows a null pointer
(1781, 3517); `crashed` ends the session. A filter whose name is abbreviated looks for
whatever its compiled expression looks like: `accident` is any pattern. `BadPatterns`
are those that `regcomp` refuses. `ran` and `output` are history: the command, its
values and the lines that were given out. A command here prints a text, changes mode
or privilege, or fails: what an application does with a command is its own.

### CliLine, CliPrint, CliRegistry

Functions of the code, as operators. `CliLine` takes the turns of the loop of
`cli_parse_line` one after the other over the characters of a line, and has the way
back, from words to a line; `CliLineChecks` compares the two. `CliPrint`
adds text to `cli->buffer` and gives out its lines. `CliRegistry` has the heap of
nodes with parent, children, next and previous links, the options of a command and
the list of users, and every call on them.

## 3. What is checked

| Run | Module and cfg | Shows |
|---|---|---|
| `forward` | `MCWlanBridge_forward` | the ten invariants of `WlanBridge` with failing sends |
| `failures` | `MCWlanBridge_failures` | every step is a step of the learning switch when any allocation and any send may fail; of a burst that is cut short, sent again and cut short again, every copy is sent or dropped and none is left behind |
| `network` | `MCBridgeNetwork` | what the stations see, over a network that loses, doubles and reorders, with a client that is killed and comes back; every client that is told to stop stops |
| `rx_loop` | `MCRxLoop` | no lost wakeup, every datagram read, the stop flag |
| `counters` | `MCEpollStat_counters` | the counters are bounded in spite of the race |
| `clean` | `MCEpollStat_clean` | *violated*: a clean undone by an increment |
| `dump` | `MCFdbDump` | the dump is complete, single but in an overlap, and ends |
| `ip_stat` | `MCIpStat` | each IP shown once, no byte in two intervals, the hash table right through its expansions |
| `packet_rates` | `MCIpStat_packets` | *violated*: packets shown in every interval again |
| `cli_session` | `MCCliSession` | until a key overruns an array, the editor is a line editor inside its buffer; the screen shows the line, and of a password only what is typed inside it and what follows that; up and down go through the history in turn |
| `cli_commands` | `MCCliShell` | abbreviations name one command, a buildmode leaves nothing and runs what was set, what TAB and `?` offer is taken, filters filter what the pipeline means |
| `abbreviated` | `MCCliShell_abbreviated` | *violated*: a filter whose name is abbreviated does not filter as the one it names |

Algorithms without state are compared with what they should compute in named
assumptions, which TLC evaluates before the run of the module that extends them:

| With the run | Assumptions | Say |
|---|---|---|
| `forward`, `failures` | `SkewedTableAgrees` of `MCWlanBridge` | with four of five keys in one bucket, entered in any order, uthash finds each key; in some order it gives up expanding |
| `cli_session` | five of `CliLineChecks` | plain lines are cut at blanks and pipes; quoted words are kept whole; the line that a buildmode makes of words is cut into these words again exactly if `CutAgain` does not hold of them; the stages of a pipeline keep the words; a backslash inside a word keeps what follows it |
| `cli_session` | two of `CliPrint` | in how many pieces a text comes does not show; an unbuffered print leaves nothing behind |
| `cli_session` | four of `CliRegistry` | after any calls the links are those of the list of commands, in order and back; `cli_done` leaves no node; full names; abbreviations of options are as short as can be |
| `network` | two of `TapSetup` | a client starts only with everything set up, a failure leaves no descriptor of the set-up open; when the device stays |

**Findings.** (1) `set epoll_stat_clean` may be undone by the increment it races
with, after "clean success." was printed. (2) `show_throuthput` assigns
`ps->rx_packets` twice and `ps->tx_packets` never, so neither packet rate is one.
(3) An `include`, `exclude`, `grep` or `egrep` that is abbreviated is accepted and then
filters by something else, because `cli_match_filter_init` compares the word as typed
with the full names (libcli.c:1963-1976); `src_lib/libcli/README.md:40-42` says that
`show users | grep foobar` may be entered as `sh us | g foobar`.

Facts that the models make visible, and that no run is about.

- *The bridge.* A station keeps its first location for ever; a
  memory failure in `wlan_list_update` leaves a client without floods for that MAC;
  a message that fails drops the rest of the burst, for other clients too, and
  whether it is retried depends on an earlier call's `errno`; a read error leaves
  datagrams queued until the next arrival; the server does not stop while datagrams
  keep coming. `set log_level` clears the epoll statistics, even when it refuses its
  argument (cli.c:150). A start of the client that fails after `TUNSETPERSIST` leaves
  the device behind.
- *The editor.* TAB and, on an empty history, `^N` and then `^P` leave the bounds of
  an array (section 2). A character typed before the end of a password is shown with the part
  that follows it. The first `^N` of a line shows the second line of the history, if it has two.
- *Lines and options.* An option at the end of a stage takes the bar after it for its
  value. `<cr>` is shown after a word with a hyphen although a pattern is missing,
  and in a buildmode after the name of a setting that needs a value. A TAB after
  a blank, where the next option takes the rest of the line, joins a null pointer and
  ends the program. The empty pattern, in quotes, matches every line. Text printed
  without an end of line begins the output of the next command.
- *Buildmode.* A TAB sets what it parsed. Its commands have no shortest abbreviation
  (`unique_len` is 0 from `calloc`, 2535): whatever they begin with names the first of
  them. A setting with a word too many is set, against what is printed, "Extra arguments
  on command line, command ignored." (2701, 2713, 2729). A value that begins an option's name
  becomes that option on `execute`; one with a bar and without a blank or a quote, or
  one that begins with a bar, opens a pipeline, and one with both quotes becomes other words.
  An option named like `cancel`, `execute`, `show` or `unset` keeps the buildmode from
  opening, and the message about it is printed through a null pointer (1781).

These set the preconditions of six properties. `ExecutesWhatWasBuilt` is about
values that begin no option's name and are not cut in two (`Plain`), and counts as set
what the code has set; `AbbreviationNamesOne` is about commands outside a buildmode;
`OutputFiltered` about filters named in full, `AbbreviatedFilters` about all;
`CompletionIsTaken` looks past spot checks that are still to be passed, as
completion does; `ReturnMeansComplete` leaves out words with a hyphen and
settings of a buildmode that are being named;
`EchoOnlyAfterRestart` allows a frame to come back to a client only if it was sent
before the client's last start. `EditsLine` and `TypeOK` of `CliSession` hold up to the
key that leaves the bounds of an array, and `PasswordUnseen` excepts the character
typed before the end.

**Bounds.** `forward`: three clients, two of them behind one IP, two stations and
a group, bursts of up to three, four frames. Two stations behind one client need
two frames, a third client makes a flood with one recipient skipped and two
served, and the fourth frame is routed with tables the burst before it filled; an
array of three allows a short send with something sent before and two left. Two
stations wrap `CountMod = 2`. `failures` has three frames in bursts of two, three
clients of one IP and no group, for whose frames the code does what it does for a
station it has not learned, and no symmetry, because of its liveness: a burst of two
to known stations is cut short at its first or its second message, sent again and cut
short again, and any allocation may
fail. Larger bursts, groups and floods to more than one client are in `forward`, and the refinement is proved for
every size. Symmetry: stations are interchangeable, and clients of one IP are;
nothing else is. `network`: two clients with a station each, a third address to come
back with, two frames, one fault; a frame and the answer to it, or two of one flow,
meet every fault and the restart. There is no group: the server floods a frame to a
station it does not know in the same way. `RxLoop`: a buffer of
seven and bursts of three give full, partial and repeated reads. `EpollStat`: two
wakeups per outcome, one session with any number of commands; `FdbDump`: five
entries, so that a dump can meet two prepends and wrap round; `IpStat`: two IPs,
one session, two commands; two of three IPs hash alike, and one bucket with a
threshold of two makes the third entry expand the table; one IP for the violation.
`IpStat` and `BridgeNetwork` stop when packets, frames and commands are used up, a
session when it is left or has overrun an array, and a shell when the program has
followed a null pointer, so their deadlock check is off. `cli_session`: a buffer of
four bytes, so a line of three, a blank and one letter, which is a comma, a completion
of two letters, three lines of history
(`Recorded` bounds which lines go in: a full one and a short one that ends in a
blank), `in_history` up to one past the array (`MaxIndex`), one account; every branch
of the editor meets a full and an empty buffer, TAB overruns it, and the history
shifts. `cli_commands`: an application with commands that share beginnings, three modes
and two privileges, a command with options of every kind, two buildmodes and one that
cannot be entered, six of libcli's filters, in full and abbreviated, a pattern that does
not compile; values that are empty, or have a blank, a quote or a bar; the lines are
those that reach each branch, `Beginnings` those that TAB and `?` are pressed at, some
with all that is required given and only options to follow. `MaxSettings` bounds the settings
of a buildmode. `abbreviated` is the same instance. `CliLineChecks` takes
every line up to a few characters, `CliPrint` every short text in every cutting,
`CliRegistry` up to `MaxCommands` commands and `MaxCalls` calls.

**Fairness.** `WlanBridge`: weak fairness of the thread while it handles a burst
(nothing in it waits: the socket does not block, `usleep` returns), none of
`RecvBurst`. `RxLoop`: weak fairness of the thread's steps other than errors;
`epoll_wait` has a timeout. Nothing is assumed of arrivals, signals or errors, and
`StopsWhenQuiet` asks for clients that pause. `BridgeNetwork`: weak fairness of each
client's loop, which ends its wait by a timeout, of the server, and of the carriage
of a datagram, which is not fairness of the code but what losing is counted against:
a datagram that is not lost arrives. Nothing is assumed of stations, signals, starts
or faults. `FdbDump`: weak fairness of a prepend
that has begun and of a dump that has begun; none of commands and learning.

## 4. What is proved

TLAPS checks every step of the following, for all values of the constants: any
clients, stations, IPs, addresses, burst size, counter width, failures and restarts,
any number of CLI sessions and of entries of a list, any hash function and sizes of
the hash table, any buffer, alphabet and history of the editor, any application's
commands, lines and texts.

| Theorem | Module | Statement |
|---|---|---|
| `TypeCorrect` | `WlanBridgeProofs` | `Spec => []TypeOK` |
| `ListCorrect` | `WlanBridgeProofs` | `Spec => []ListAgreesWithFdb` |
| `FlagsCorrect` | `WlanBridgeProofs` | `Spec => []NoStaleFlag` |
| `FloodReaches` | `WlanBridgeProofs` | `Spec => []LocatedIsFloodable` |
| `SharesCounted` | `WlanBridgeProofs` | `Spec => []ShareCount` |
| `NoDuplicates` | `WlanBridgeProofs` | `Spec => []OneCopyPerClient` |
| `InOrder` | `WlanBridgeProofs` | `Spec => []FlowOrder` |
| `NoReflection` | `WlanBridgeProofs` | `Spec => []NeverReflected` |
| `FramesCounted` | `WlanBridgeProofs` | `Spec => []RxCountsEachFrame` |
| `CopiesCounted` | `WlanBridgeProofs` | `Spec => []TxCoversWire` |
| `Refinement` | `WlanBridgeProofs` | `Spec => RefinesService` |
| `NoEcho` | `BridgeNetworkProofs` | `NetworkSpec => []EchoOnlyAfterRestart` |
| `AtMostOnce` | `BridgeNetworkProofs` | `NetworkSpec => []OnceUnlessDuplicated` |
| `TypeCorrect` | `RxLoopProofs` | `Spec => []TypeOK` |
| `WakeupKept` | `RxLoopProofs` | `Spec => []NoLostWakeup` |
| `WakeupsCounted` | `EpollStatProofs` | `Spec => []WakeupsBounded` |
| `RingCorrect` | `FdbDumpProofs` | `Spec => []ListWellFormed` |
| `NothingMissed` | `FdbDumpProofs` | `Spec => []PrintsAllOld` |
| `TwiceExplained` | `FdbDumpProofs` | `Spec => []TwiceOnlyInOverlap` |
| `IpTypes` | `IpStatProofs` | `Spec => []TypeOK` |
| `TableFinds` | `IpStatProofs` | `Spec => []TableAgrees` |
| `EachIpShown` | `IpStatProofs` | `Spec => []EachIpOnce` |
| `BytesShownOnce` | `IpStatProofs` | `Spec => []ByteRateOnce` |
| `SessionTypes` | `CliSessionProofs` | `Spec => []TypeOK` |
| `SessionShows` | `CliSessionProofs` | `Spec => []ScreenShowsLine` |
| `SessionRecalls` | `CliSessionProofs` | `Spec => []RecallsInTurn` |
| `PasswordHides` | `CliSessionProofs` | `Spec => PasswordUnseen` |
| `SessionEdits` | `CliSessionProofs` | `Spec => EditsLine` |
| `FiltersMean` | `CliShellProofs` | `cli_int_execute_pipeline(chain, text) = Meaning(chain, text)` |
| `AbbreviationsAreOwn` | `CliShellProofs` | `Spec => []AbbreviationNamesOne` |
| `BuildmodeLeavesNoTrace` | `CliShellProofs` | `Spec => []BuildmodeContained` |
| `OutputAsMeant` | `CliShellProofs` | `Spec => []OutputFiltered` |

**Assumptions.** Only the named ones of the modules, which TLC evaluates for each
instance. `BridgeAssumption`: `IpOf` is total, group and unicast addresses differ,
`NoAddr` is no address, bounds are numbers. `RxLoopAssumption`: buffer and burst hold
at least one datagram. `BridgeClientAssumption`, `BridgeNetworkAssumption`: clients
start under different addresses, a station is behind one client. Those of `IpStat`
and `UtHash`: the hash is a number, there is a bucket to begin with. `SessionAssumption`:
the buffer has room for a character and the history for a line, no letter is the
terminating zero or the name of one of the two history keys, what completion puts in
is made of letters (names of commands and options), bounds are numbers.
`ShellAssumption`: a command is registered under a
parent that was registered before it; only the application's and libcli's own
commands, regular ones and the filters of `cli_init`, are there to begin with; names
and lines are sequences; a line at which TAB or `?` is pressed ends with a word or,
after a blank, with a null pointer, and not with a bar.

**The arguments.**

- *Typing* also needs that `i` is inside the burst wherever a frame is handled.
- *Tables.* The three invariants about tables are proved together. The list's MACs
  are distinct because an entry is made only for a MAC that was not in the FDB, so
  the invariant adds that every MAC of the list is located, and that a MAC being
  enlisted is in the FDB and not in the list. Records are one per address because
  `ListNew` runs only when the search finds none, so every record must be reachable
  from the list. Flags are clear outside a flood and, in one, set only behind the
  cursor, and the clearing loop reaches what the list reaches.
- *Shares.* A prepend shifts every entry by one, which is a bijection between the
  entries that share a record before and after; the new entry adds one, and the
  count, taken modulo its width, follows.
- *Delivery.* The three invariants about `wire` rest on one about the future: what
  is on the wire and what is still to go (the array from `k`, the flood from the
  cursor) never hold the same copy; the numbers in the array increase; and a frame
  that is flooded has a destination that is not located, so no copy of its flow is
  waiting in the array. The last is why a flood cannot overtake a deferred copy of
  its own flow, and it holds because a location, once learned, never changes.
- *Counters of an IP.* `RxInv` adds that the burst in hand is the end of the log, so
  that what has been counted is a prefix of it, one longer once a flood has begun.
  `TxInv` puts the copies on the wire together with those the array still holds: an
  IP's counter grows when a copy enters the array or leaves in a flood, a send moves
  one from the array to the wire, and only a failed send leaves one that was counted
  and not sent.
- *Refinement.* One lemma per action: receiving, learning,
  enrolling, routing, transmitting and losing map to the step of that name, the
  rest to none. A burst is received in one step of the service. That the frame in
  hand has been heard and not yet routed follows from the burst being the end of
  the log (`Logged`, in `RxInv`) and the frames of the log being numbered as they
  came (`Ordered`): what has been routed is the log before the frame in hand, and no
  two of its frames are equal. The delivery invariant is needed for most of them. A copy that is
  sent leaves `due` and nothing else does: in the array because its numbers
  increase, in a flood because a client has one record, so that raising the flag of
  one takes exactly one copy from what the flood owes; and a copy of the flood is
  not also in the array. A flood owes a copy to every member because no flag is up
  when it begins. The guard of the service's `Route` adds an invariant, that
  without memory failures the sender is located before its frame is routed
  (`Learned`), and the numbers of the service that frames stay within the bound of
  the model (`Bounded`).
- *No echo.* `Steady` follows each frame from its life on: a datagram of a frame
  that its client still knows comes from the address the client has now
  (`Sender`), so the server, which leaves out that address, can only send it to
  other sockets; and what waits for a client or was written by it is another's or
  from an earlier life (`Foreign`). A new life makes frames older, never younger.
- *At most once.* `OneToken` adds up the places where a frame may be for a client
  under an address: on the tap device it came from, on its way up, in the server, due,
  on its way down, in the socket, written. The sum is at most one more than the
  times the network doubled the frame, and each step of client, server and network
  moves tokens from one place to the next. The places are counted as sets, so
  `Finite` keeps them finite.
- *Wakeups.* `NoLostWakeup` is inductive as it stands once types are known: of the
  steps that lead to a wait, only a failed read leaves datagrams queued, and only
  `EpollEvent` and `EpollNoEvent` take the socket off the ready list.
- *Epoll counters.* The two bounds do not survive the store of an increment by
  themselves. The invariant adds that the register lies between the same bounds
  while an increment is under way: a clean in between only lowers the lower one.
- *The dump.* `Ring` says how far each direction of the ring has grown at each store
  of a prepend. On it rests what the walk relies on: below the entry that was the
  head when the dump began, `next` goes down one by one, whatever is prepended. Until
  all of these are printed the walk is among them with those above it printed
  (`Onward`); it can only stop at the oldest, or at an entry that came later, which it
  meets in a second round. The `prev` of the head that was loaded is the oldest entry
  as long as that head is the newest one, and an entry one newer afterwards: so the
  last entry is a later one only when `prev` was loaded after the store to it, and
  unless the tail's `next` had then been stored too, the walk may pass its end
  (`Once`).
- *The table.* `IpInv` is `Types`, `Listed`, `Walked` and `Covered`. `Listed` says
  that the table holds what the list holds, each key in the bucket of its hash and
  once. An expansion moves the items one by one; the proof follows the recursion of
  that move over the old buckets by induction: moved and unmoved items together are
  always what there was.
- *The walk.* `Walked`: a session in an entry has shown exactly the entries before
  it, in order, and the list grows only at its end. `Covered`: with one session what
  was in a rate of bytes is at most what `prev_stat` says was shown, and a session
  between reading and saving holds a value between that and `curr_stat`.
- *The session.* `SessionInv` is `LineOK` (the buffer holds the line, zeros after it,
  cursor and length in range), `Shows` (at a prompt that echoes the cells of the
  terminal are the line, its cursor the cursor), `Places` (state, mode, indices),
  `Kept` (the history holds lines) and `InTurn` (`in_history` is where the presses of
  up and down lead round the history, and after such a press the buffer holds that
  line). `LineOK` is not inductive
  without the state: a hidden entry keeps characters beyond its length, and the
  next prompt clears them. For `Shows` each key's echo is computed on the terminal:
  an erase or a kill writes a round of moves and blanks per character, a recursive
  function of which the proof shows by induction what n rounds do. Up and down move by
  modular arithmetic: a press takes `presses` to its neighbour modulo the length of
  the history. `PasswordUnseen` goes key by key: in a hidden entry each but the
  character typed inside keeps the screen, by `Echo`.
- *The line editor.* `SessionEdits` has one lemma per key that changes a line: what
  the loop of `cli_loop` does to the array, index by index, is what the key does to
  the text before the cursor and the text after it. The word kill needs that the
  backward scan for the start of a word in the array and the definition in
  `LineEditor` agree (`WordStartAgrees`). TAB replaces the same part of the text as of
  the array, or finds no room in both. Passwords and closed sessions map to an
  empty line, and their keys to none.
- *Filters.* Both sides are recursions, one over the lines and in it the filters, the
  other over the filters and in it the lines. The induction over the lines carries,
  for each filter, that its data say of the lines that came to it so far what the
  filter needs (`DataFor`: a range is open, so many were counted), and that what has
  been given out is what all filters together keep of the text so far; in it, the
  induction over the filters takes one line through them. Where all were named in
  full, the filters that run are those that were meant.
- *Abbreviations and buildmode.* `ShellInv` is `OutputFiltered` and `CommandsSound`:
  the first commands are the application's in all but `unique_len` (`Alike`), which
  is what `ShortestOf` gives for the present mode and privilege wherever a command is
  reached and visible (`Right`); the commands after them are those of the open
  buildmode, in its mode, `execute` among them, or there are none; what was set is a
  sequence of pairs. It has to hold between the stages of a line too (`StageGood`),
  as the walk may fall back to the configuration mode at any stage, and a line that
  is refused leaves the session at the stage that refused it. In a buildmode the walk
  never falls back: its commands have the mode in which it was opened. An executed
  buildmode may come back as any line, so the same lemmas are used for it with no
  buildmode open. That the recursive cutting, walk, parse, completion and rebuilding
  are defined at all is proved first, for parents come before children and words and
  characters are used up.

**Induction over data.** The library's induction theorems take an operator as a
parameter, which the installed provers cannot instantiate. What is proved about a
recursive function here uses a form with a set instead (`NatInd`, `BoundedInd`: a set
that holds 0 and the successors of what it holds has every number), which follows
from the least element of a set of numbers; that a recursive function exists is
proved the same way, by the functions on initial segments.

**Left to TLC.** Liveness, out of the prover's reach: `ImplementsService`,
`EveryDatagramRead`, `StopsWhenQuiet`, `DumpEnds`, `ArrivesUnlessLost`,
`ClientStops`. Three invariants of `CliShell` that compare two parses of a line:
`ExecutesWhatWasBuilt`, `CompletionIsTaken` and `ReturnMeansComplete`. They hold of
the application of `MCCliShell` and not of every one. For an option with a hyphen, the
buildmode writes its name before its value, and the name may be taken for the value;
what is offered for a word is taken only if the validator takes what the completor
offers, and if the name of no option begins another's. The code leaves all this to the
application, and a theorem would have to assume it of the options, kind by kind;
nothing in the repository states such an assumption. The server registers no options
of its own, only libcli's filters have some. And the named assumptions that compare
`CliLine`, `CliPrint`, `CliRegistry`, `UtHash` and `TapSetup` with references over
bounded inputs; `CliRegistry` declares RECURSIVE operators, for which there is no SMT
backend.

## 5. What is not modelled

- The one-frame path (`server_runing`, `wlan_br_handle`, `wlan_br_forward`), which
  `main` does not call, and the burst variants of the client, which nothing calls.
- The accept loop of `cli.c` and the hand-over of `connect_fd`: the session thread
  reads a parameter whose frame may be gone, and what it finds is the compiler's
  choice. Nothing in the repository says what should hold of it.
- The client's CLI, the server's over again on its own counters; the parsing of
  the client's options; the choice of a MAC address (`srand(time)`); the creation of
  the server's socket.
- The interval and units of the rates, logging.
- uthash beyond the macros that the server expands: deletion, sorting, selection,
  the other lists; the values of its hash functions.
- libcli: `cli_file`, the regular callback and the idle timeout, the wording and
  wrapping of messages and help, `clitest.c`; failing allocations, after most of which
  the code goes on with a null pointer.

## 6. Plan

1. *The command line.* What an application must keep to for `ExecutesWhatWasBuilt` and
   `CompletionIsTaken` to hold of every list of options: no value begins a name, names
   are no prefixes of each other, offers pass the validator.
2. *The one-frame path*, and that a burst of one is handled alike.
