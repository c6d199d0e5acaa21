# bnIRC in TLA+

bnIRC is an IRC client for a terminal, written in C: a core (`src/src`, `src/include`) and
plugins (`src/plugins`) for the terminal, the commands, the reactions to the server and
Python scripts. It is one thread. What happens at the same time as it runs, or in an order
nobody chose, is

* the signal SIGALRM, whose handler changes the lists of timed functions between any two
  instructions of the main thread;
* the servers, which send, close and reset connections, and answer later than they are asked;
* the user, who types while answers are on their way;
* callbacks that run inside a loop over a table or a list and change that very table or list.

The modules here model that, and the functions on text that the rest relies on; TLC checks them
on small instances, and TLAPS proves the safety of the timed functions, the connections, the nicks,
the windows, the input line and the plugins, and what the functions on text return, for all instances.
The repository has no tests.

## Modules

| module | models | used by |
|---|---|---|
| `Lists` | linked lists of `list.h` as sequences | `Timers`, `Registry`, `ListsProofs` |
| `Timers` | timed functions and the SIGALRM handler, `sigalrm.c` | `MCTimers`, `TimersProofs` |
| `AlarmService` | what the timed functions promise their callers; abstract, no code of its own | `Timers` (refinement) |
| `Connections` | the table of descriptors, the main loop, connecting, disconnecting, reconnecting: `poll.c`, `connect.c`, `irc.c` | `MCConnections` |
| `Session` | users, nicks and the channel, client and server exchanging lines: `user.c`, `irc.c`, `server_strings.c`, `irc_input.c` | `MCSession` |
| `Windows` | channels and windows, the driver's screen, queries, away: `channel.c`, `io.c`, `io_ncurses.c`, `irc.c`, `away.c` | `MCWindows` |
| `LineEditor` | the input line and who reads it: `io.c`, `history.c`, `python_parser` of `python.c` | `MCLineEditor` |
| `TextField` | what someone who types expects of an input line; abstract, no code of its own | `LineEditor` (refinement) |
| `Links` | linked lists of `list.h` with their two pointers per node | `Registry`, `Words` |
| `Registry` | plugins and what they and scripts register: `plugin.c`, `parse_input_string.c`, `parse_server_string.c`, `loop_hooks.c`, `tab_complete.c`, `python.c` | `MCRegistry` |
| `Regex` | regular expressions, `regex.c`, and what they mean | `TextCalls` |
| `Words` | arguments, lines of the server, search, aliases, completion: `support.c`, `parse_server_string.c`, `parse_input_string.c`, `tab_complete.c` | `TextCalls`, `WordsProofs` |
| `TextCalls` | a call of any function of `Words` or of `regex_search`: `parse_input_string.c` | `MCWords` |
| `ListsProofs` | no code: lemmas on sequences, lists, induction and recursive functions, and on lists given by their pointers | the proofs |
| `TimersProofs`, `ConnectionsProofs`, `SessionProofs`, `WindowsProofs`, `LineEditorProofs`, `RegistryProofs`, `WordsProofs` | no code: theorems on the module they are named after | |

`MC*` modules only add the values of constants and the symmetry sets for TLC.

## Inventory

Components, the state each keeps, and what makes it correct. "Hard" is what a test would hardly
reach; each such place is listed with its line under `hazards` in `PROJECT.json`.

**Timed functions** (`sigalrm.c`, modelled). State: the lists `queued` (sorted by time) and
`ready`, the timer, the disposition of SIGALRM. Operations: `add_timed_func`, `del_timed_func`,
`run_timed_funcs`, `sig_handler`. Hard: nothing is blocked while the main thread walks a list;
the timer is started before the handler is installed; a timed function may add and delete
others. Correct: never early, sorted, nothing lost or run twice, deletion complete, everything
runs in the end.

**Descriptor table and main loop** (`poll.c`, `bnirc.c`). State: `poll_pointers`, `fds`,
`slots_in_use`. Operations: `register_poll`, `unregister_poll`, `poll_loop_func`. Hard: the two
passes of the loop run callbacks that add slots, move slots down and reallocate the table.
Correct: each slot in use has its own live connection, each connection its slot, nobody starves.

**Connections** (`connect.c`, `irc.c`). State: the hash `connections`, the objects, `server_name`,
`poll.is_ssl`, flags of the streams. Operations: the constructors with their failures,
`line_callback`, `irc_connect`, `irc_disconnect`, `irc_reconnect`, `irc_pick_server`. Hard:
reconnecting inside the pass that noticed the loss; objects that are freed and looked at again;
half-made connections. Correct: table, hash and objects agree; a lost connection is replaced or
dropped; the server that is picked exists.

**Users** (`user.c`). State: `users_hash` keyed by nick and server; per user name, flags, queued
message, channels; `serv->user`. Operations: `find_user` (makes what it does not find),
`recv_nick`, `privmsg_print` with the delivery of queued messages, deletion on QUIT. Hard: name
and key of the own user differ until the server answers; nicks change hands while requests are
on their way; a refused nick names somebody else. Correct: the own user is never freed, client
and server agree on the nick, the people in a channel are known.

**Channels and windows** (`channel.c`, `io.c`, `io_ncurses.c`, `user.c`, modelled in `Windows`).
State: `channels_hash`, one list of channels per window, the active window, the flags of the others,
the depth of the block of output. Operations: join, part, set window, active channel, wall, rejoin,
say, query, `/window` and the function keys, the lines of servers. Hard: which channel is active after
a sequence of joins, parts and window changes on drivers that come and go; rejoining after a
reconnection; a refresh that was put off. Correct: a channel is in exactly one window's list while it
is joined, what is said goes where the user looks, what he has not seen is listed, the screen is up to
date when the program waits.

**Dispatch of server lines and of commands** (`parse_server_string.c`, `parse_input_string.c`).
State: lists of handler tables and hooks, the command hash, aliases, a stack of parsers,
`current_server_string`. Hard: handlers registered and removed by plugins while a line is
dispatched; early returns that leave state behind. Correct: after a plugin is unloaded none of its
handlers is reachable. (A command that it replaced is not given back: `unregister_command_list` removes
whatever goes by the name.)

**Plugins** (`plugin.c`). State: the list of plugins. Operations: load (with dependencies), reload,
unload, hooks. Hard: initialisation that fails half way, loading twice. Correct: registered exactly
while loaded.

**Input line, windows, history** (`io.c`, `history.c`). State: the buffer, its length and capacity,
the cursor, the place in the history, the saved line, drivers, the active window. Hard: keys in
any order, a cursor of an unsigned type, input that arrives in pieces, a completion that nobody measures. Correct: cursor within the
line, line within the buffer, the line that was being typed comes back after browsing.

**Away** (`away.c`, in `Windows`). State: `is_away`, the list of kept messages. Hard: the walk that
displays the list frees it behind itself. Correct: `/back` shows every message once, in order.

**Options** (`options.c`), **tab completion** (`tab_complete.c`, `user.c`), **loop hooks**
(`loop_hooks.c`): small lists and hashes. Hard: hooks that remove themselves while the list is walked;
lists of words that are joined. Correct: no hook of a plugin that is gone; each word offered once.

**Strings and regular expressions** (`support.c`, `regex.c`, in `Words` and `Regex`, called in
`TextCalls`): pure functions on strings; correct against a definition of what they compute.

**Python** (`python.c`, in `Registry` and `LineEditor`): commands, handlers, timers and polls of
scripts, an interpreter that reads lines. Correct: nothing of a script is called when the plugin is gone.

**DCC, CTCP, the small plugins, scripts**: effects on the outside, or on top of the functions above.

How they interact: the main loop calls the callback of a descriptor; for a server that is
`line_callback`, which hands complete lines to `parse_server_string`, which calls a handler of
`server_strings` (or of a plugin or script), which changes users, channels and windows and may write
to any server; for the terminal it is `io_get_input`, whose lines go through `parse_input_string` to a
handler of `irc_input`, which may connect, disconnect, write, and change users and channels. Each turn
of the loop ends with `run_timed_funcs`.

## Timed functions: `Timers`

A step of the main thread is one list operation or one comparison of a list walk; SIGALRM may be
delivered between any two steps. `queued` and `ready` are sequences; `pc` says where the main thread
is, and `cursor` is the pointer of the walk in progress. `NextNode` follows that pointer along
whichever list the alarm is on *now*: that is how the handler takes a walk off its list. `memory` is
malloc's view (`leaked`: unlinked by `del_timed_func`, which does not free). `timer` and `handler` are
ITIMER_REAL and the disposition of SIGALRM; the interval of the timer is never initialised
(`sigalrm.c:64`), so it may or may not expire again. Callbacks may add and delete alarms (`pc =
"callback"`): a script's timed function may unload the ncurses driver, whose `cleanup_hook` makes the one
call of `del_timed_func` there is. So nothing deletes the very function that is running (`Delete`). The stores inside one list operation are not interleaved: the single pointers are the
next refinement (see the plan).

| run | instance | shows |
|---|---|---|
| `timers_alarms` | 3 alarms, a function that is deleted (the refresher) and one that is not (a script's), delays 0-1, clock to 2 | `TypeOK`; `ReadyIsDue`: nothing is ready early; `QueueSorted`; `OnePlace`: no alarm lost, doubled or freed while listed; `DeleteIsComplete`; `ServiceSpec`: implements `AlarmService`; `AlarmRuns`: every alarm runs or is deleted, unless the main thread is stranded on the wrong list or the process was killed |
| `timers_promise` | 2 alarms, delays 0-2, clock to 3 | violated, see the findings |

Three alarms put one before, one under and one behind the pointer of a walk; delays of 0 and 1 from a moving
clock make alarms that are due at once, together, and apart. The clock is bounded only by `MaxClock`.

Fairness: the main thread goes on with what it began, a timed function comes to its end, time passes, and `run_timed_funcs` is called
again and again, as every turn of `poll_loop_func` ends with it and poll waits at most a second
(strong fairness: a turn may do other things first). Nothing is assumed of the signal.

### What is proved

`TimersProofs` proves, for every set of alarms and functions, all delays and every `MaxClock`, from
the one assumption `ConstantsOK` (sentinels and NULL differ from the alarms and from each other):

* `TypeCorrect`, `NeverEarly`, `Sorted`, `NothingLost`: the invariants of `timers_alarms`;
* `DeletesAll`: `Spec => DeleteIsComplete`, an action property;
* `Refinement`: `Spec => ServiceSpec`.

None of these invariants is inductive. `IInv` adds to them

* `PointersOK`, what each walk knows of its pointer: it is on one of the lists or a head; in front of
  the place of an insertion stands an alarm that is later than the new one; the alarm about to be
  moved is due by the local copy of the clock;
* `PassedOK`, what the scan of `list_ordered_insert` has established: the queued nodes behind which it
  has gone are not later than the new alarm. The handler takes alarms away from the front of the
  queue only, which keeps this, and an alarm that is inserted on the ready list is put in front of one
  that is due, so it is due itself.

`DeletesAll` needs the same of the search of `del_timed_func`: the queued nodes behind which it has gone are not
of the function (`SearchOK`). A search from within a callback passes the alarm whose function is running when
the handler leads it onto the ready list, and leaves it there, as it is not of the function (`PointersOK`). What has been passed when the pointer moves, and when the handler shortens the
list in front of it, are lemmas that both walks share (`PassedNext`, `PassedBefore`).

The proof that a step keeps `IInv` goes action by action; steps that leave the lists alone share the
lemmas `QuietInv`, `NoWalkInv` and `CursorInv`. The refinement maps `memory` and `running` to a phase;
almost every step is a stutter of the service.

It rests on `ListsProofs`, which has the facts about positions, insertion and removal in sequences
without repetition. That module also has what the other proofs use for definitions that recur over
numbers: `Induction` (what holds of 0 and is passed on holds up to N, from the least element of a set),
`Recursion` and `RecursionAll` (a recursive function exists and has its values), and `Passes`, what
becomes of a value when the elements of a list are applied to it one after the other.

Only model-checked: liveness, which is beyond the prover.

## Connections: `Connections`

`table` is `poll_pointers` with the `revents` of `fds` and `slots_in_use`; slots at and behind
`inUse` keep what they held, as in memory. A step is one iteration of one of the passes with the
callback it makes run to its end: `SlotQuiet`, `SlotEof`, `SlotError`, `Recheck*` (lines 164-175 after
an error callback, on whatever is in the slot by then), `Poll`, `NoEvent`, `StdinEvent`, `CharEvent`,
`LineEvent`, `ForgetEvent`, `LossEvent`. Between steps servers send, close and reset (`Server`). A
freed object may be handed out again, and reading it gives any value. The commands are run by the user
or by a script that handles a line. `known` is the one fact about users that connecting depends on:
whether `users_hash` has the nick the program starts with (`Session` has the rest).

| run | instance | shows |
|---|---|---|
| `connections_safety` | 2 servers, 3 objects, tables of 2 that grow, 1 refused attempt | `SlotsLive`, `ConnectionsKept`: slots, objects and hash agree under every callback |
| `connections_liveness` | 2 servers, 2 objects, no refusals, no SSL | `Heard`: who sends is served although slots move under the loop; `LossNoticed`: a plain connection that is lost is replaced or dropped |
| `connections_servername` | as for `connections_safety` | violated, see the findings |

Two servers are enough for one slot to move into another's place; three objects let a reconnection get
its own memory back or other memory; tables of two grow once. `Ssl` bounds the kinds of connection and
`MaxRefused` the attempts that fail (each leaks an object). Fairness: the main loop keeps running, as
it is `while (1)`; it may be blocked in `fgetc` on a slot with stale `revents` (`Blocked`), which the
liveness properties allow and name. They also allow that the program has stopped (`crashed`), which is
what a NULL pointer, a slot of a freed object or a failed assertion comes to: what the properties say is
said of the runs that go on. Two ways there that the model shows: after an error callback that could not
reconnect, the first pass reads the slot it has just given back (`RecheckGone`, `poll.c:164`); and an SSL
connection that its server closes sets no flag of a stream, so it stays in use for ever (`LossEvent`,
`connect.c:158`), which is why `LossNoticed` speaks of plain ones.

Taken for granted: stdin is registered before the loop starts, so the return for an empty table
(`poll.c:136`) never happens; descriptors are never closed, so a slot's descriptor identifies its
object; an interrupted poll reports nothing; a write error on a reset connection is seen by the read in
the same turn; SIGPIPE is ignored; leaving a channel makes none active, and coming back to it is the same
as joining it. Python's and DCC's own descriptors, and the buffer inside the SSL library, are left out.

### What is proved

`ConnectionsProofs` proves, for any servers, host names, objects and sizes of the table, from
`ConnectionsOK` (the sets are finite, with an object for each server and each attempt that fails; the table
begins with at least one slot; the special values are not members of the sets):

* `TypeCorrect`: the table has no other size than `alloc_free_slot` makes, and the passes stay in it;
* `SlotsStayLive`, `NoneForgotten`: `SlotsLive` and `ConnectionsKept`.

`IInv` is `NetOK /\ ChoiceOK /\ LoopOK /\ RecheckOK`. A disconnection finds the object by its name and
then gives back the slot that has the object, so `SlotsLive` needs that names and objects belong together
one to one (`StoreOK`), that a live object has exactly one slot, or none after a failed handshake
(`Linked`), and that no two slots in use hold the same (`TableOK`). A callback that reconnects does a
disconnection and a connection in one step; `NetOK(table, hash, objects)` is stated of any three
values, so that the lemma for each half can be applied to what the other leaves. `RecheckOK` says what
`poll_loop_func` still knows of slot `i` after an error callback (`poll.c:164`): it is in the array and
has held a connection, though it may no longer be in use. That the table grows only finitely often
(`Grown` for the sizes, `InUseBound`) makes `TypeOK`'s `Capacities` enough.

Only model-checked: `Heard` and `LossNoticed`.

## Users and nicks: `Session`

Client and server are two actors with two streams of lines between them that keep their order and may
break. The server's truth is `nickOf` and `members`; the client's belief is `users`, `self` (the key and
name of `serv->user`) and `channel`. `users` maps a nick to the user entered under it; every user but
the connection's own is called what its key says, as only `irc_snick` changes a name without the key.
Nicks are numbers, `n + 1` being what `bad_nick` makes of `n`. One server and one channel; `ignore` stands
for the flags a command sets, `op` for `USER_IS_OP`, which `names_hook` gives to nicks *without* a prefix.
Each handler and command is one action; the server's answers are `ServeNick`, `ServeJoin`, `ServePart`;
others come, rename, leave, quit, speak; the connection drops. Outcomes: `overflow` (a message queued for
the own user, `user.c:176-188`), `duplicate` and `not self` (failed assertions): a reconnection fails
the assertion of `hash_insert` unless the nick has changed since the first connection (`irc.c:414`).

Lines that print only, CTCP requests and a reconnection that is refused are left out (the last is in `Connections`).

`mishaps` is a history variable. It records the two situations in which the code does lose track, and in
which `SameNick` or `Roster` say nothing: the user asks for another nick before the first one is accepted
(the answers cross, and `bad_nick` gives the own user a key that is somebody else's nick; TLC finds the
client calling itself by a stranger's nick with 2 commands and 3 deeds), and the server refuses a nick to a
client that has one (`bad_nick` then renames the user who rightly has the refused nick).

| run | instance | shows |
|---|---|---|
| `session_safety` | 2 others, 4 nicks, 2 commands, 3 deeds | `SelfKept`: `serv->user` is never freed; `SameNick`: once all lines are read client and server agree on the nick; `Roster`: who is in the channel is known under the present nick; `GetsNick`: a connected client gets a nick, or runs out of them |
| `session_msgself` | 1 other, 3 nicks | violated, see the findings |

The bounds allow a nick to be refused, given up and taken by another while both streams have lines in
them, and a connection to be lost and made again. (With 3 commands and 3 deeds, 10.5 million states, the
invariants hold too.) Fairness: the client reads what it was sent, as `Heard` says of `Connections`, and the server
reads what the client wrote. The user and the others need not do anything.

### What is proved

`SessionProofs` proves, for any people, nicks, numbers of commands and deeds, from the module's
assumptions (`SessionOK`, and `NoUserOK`: a user is not the mark for none):

* `TypeCorrect`; `OwnUserKept`: `SelfKept`; `AgreeWhenSettled`: `SameNick`; `EveryoneKnown`: `Roster`.

`SameNick` and `Roster` speak of a client that has read all its lines, and say nothing of one that has
not. What is inductive is what the client *will* believe: `KeyEffect` and `ThereEffect` give what a line
does to the key of the own user and to the nicks taken to be in the channel, and `Passes` applies the
lines on their way one after the other. `NamesOK` says that the key comes to be the nick the server has,
and that the client's name does, or is asked for by the last request on its way (`Settles`), or a refusal
or an acceptance is still to be read; `RosterOK` that the nicks of who is in the channel come to be known.
A line the server sends is applied behind the others (`PassAppend`), and reading one takes the first
off (`PassTail`), so both keep the invariant. `StartOK` is the same before the first nick is accepted,
`ChannelOK`, `DownOK` and `NicksOK` say when no request can be on its way and that nicks differ. The
situations that `mishaps` records are exactly those where these parts would not be inductive.

Only model-checked: `GetsNick`.

## Channels, windows and the screen: `Windows`

A step is one command, one line of a server, or one lost connection. `shownIn` is the list of channels of
each window, `win` the window each channel was last put in, `state` its flags in `channels_hash`, as far as
anything sets them (`recv_join` and `recv_part` are never called, so a channel is never `JOINED`, and `wall`,
which asks for that, sends nothing). Of the screen there are the active window, `window_max`, the flags of
`my_window_flags`, the depth of the block of output and whether a refresh is due. Text is abstracted to
whether the user's nick is in it; a kept message is its number, counting those of channels, or 0 for a
private one. The driver may be loaded from the user's file, by a command inside a block, or not at all, and
unloaded again. A connection is made or not (`Connect`), a JOIN taken, refused or ignored (`JoinHook`,
`Rejoined`), the user kicked (`KickLine`).

History variables say what should be true: `unseen` (what each window got while it was not looked at),
`stale` (the screen is behind), `member` (the channels the servers have the user in), `denied` (those whose
last JOIN had no effect, or that he was kicked from), `owed` and `shown` (messages of channels since `/away`;
those displayed by this step), `said` (where this step's words went).

| run | instance | shows |
|---|---|---|
| `windows_safety` | 2 channels of 2 servers, 2 windows, 2 kept messages | `Placed`: each joined channel is in the list of exactly the window its lines are written to, others in none; `ShowsMembership`: the user is in every channel a window shows, after reconnections too, unless the server did not take the last JOIN or kicked him; `ListsUnseen`: the information line lists exactly the windows with unseen lines; `ScreenIsFresh`: nothing unrefreshed when the main loop waits; `SaidWhereShown`: what is said goes to the channel in front; `BackShowsAll`: `/back` shows the messages of channels with his nick once, in order |

Two channels in one window make the order in its list matter, and their servers make the one that is
picked differ from `server_name`; two windows make the active one and another. (3 channels, two of one
server, 4.7 million states, held as well.)

What the properties leave out is what the code does otherwise. The information line ends before the last
window, whose lines are never listed (`io_ncurses.c:425`). A driver loaded by a command inside a block sees
an end without a beginning, its depth is -1 from then on, and what is printed outside of blocks is not
refreshed (`counted`). `rejoin_channels` joins channels that the user has left, too: no window shows them.
Nothing looks at what becomes of a JOIN, and `kick_hook` takes the channel off the user's list only
(`server_strings.c:324`): the channel stays in its window when the user is not in it (`denied`), and what he
says there goes to a server that refuses it. A query answers in the active window, and goes to the server
that is picked, not to the one where it began.

A private message without the nick is not kept while the user is away (`user.c:150-160`), though the help says
that `/back` shows "msgs that contained your name or were sent to you" (`irc_input.c:414-415`);
`BackShowsAll` speaks of channels only.

Some steps stop (`stopped`). A command that goes to a server follows a NULL pointer when the active
channel's server is gone, after `/disconnect` or a failed reconnection. So does `refresh_info_line` in a
build with SSL, where it asks for the connection of that server, or of `server_name` in a window without
a channel, unless `hide_info_bar` is set (`io_ncurses.c:457`; `InfoFaults`): when the screen is refreshed
outside of a block, at the end of one, on loading the driver, and every second (`RefresherFunc`). One way
there is the loss of the very connection: `irc_disconnect` says so while the server is out of the hash.
The model may stop in each of these steps and may go on, as in the other builds. A connection that succeeds
to a server with a user left in the hash of users (`users`) fails the assertion of `hash_insert`, or goes
on if the nick had changed (`Session` tells these apart).

### What is proved

`WindowsProofs` proves all properties of `windows_safety` for any channels, servers, windows and kept
messages, from `WindowsOK`; it assumes that `MaxWindows` is 2 or more, as the program starts with
`window_max` 1 on an array of `MAX_WINDOWS` (10), and that a channel is none of the marks for a query and for
nobody. The theorems are `TypeCorrect`, `OneWindow` (`Placed`), `ShownIsMember` (`ShowsMembership`),
`UnseenIsListed` (`ListsUnseen`), `Fresh` (`ScreenIsFresh`), `DisplayedOnce` (`BackShowsAll`, an action
property) and `SaidThere` (`SaidWhereShown`).

`Placed` is not inductive: `remove_from_window` looks only in the window that the channel says it is in, so
the lists have to agree with `win` and be without repetitions (`ListsOK`), and a channel that is not
known has to be told window 0 (`UnknownOK`). `MembersOK` ties the lists to what the servers know or have
refused. The
screen is fresh because the depth of the block follows the phase of the main loop, less one for a driver
that was not told of a beginning (`DepthOK`), and because what is put off is noted and done at the end of the
block (`StaleOK`). `FlagsOK` is that the flags are the unseen lines; `KeptOK` that the list of kept
messages is, without the private ones, `1..owed`, from which `/back` showing each once follows.

## The input line: `LineEditor`

`io_get_input` is a coroutine: it returns NULL when there is no key, and whoever calls it next goes on. A step
is one key, or one such return; `caller` says who waits in it: `ask`, or `send_char_to_input` under the Python
interpreter (`script`); otherwise the main loop reads. The buffer is the string in it (up to the first 0), and
`buf_size`, `cursor_pos` (`% 2^w`) and `buf_alloced` are numbers of their own, since BACKSPACE and DELETE ask
for a line that is not empty instead of a character in front of the cursor, END and UP go by the string's
length, and a line that was handed out stays in the buffer with `buf_size` 0. `overrun` is set by a store
behind the end of a buffer. `repl`, `dontDie` and `indent` are the interpreter's.

| run | instance | shows |
|---|---|---|
| `editor_safety` | 2 characters, lines of 2 (3 with completion), 2 history entries, a slack of 2 | `InBounds`: only a completion that adds more than the slack to the last word stores behind the buffer; `TextFieldSteps`: until a key without an answer is hit, each step is one of `TextField` |

Lines of two characters let the cursor be before, between and behind; two entries let browsing stop on
both sides; the slack of 2 makes buffers grow at the second character (with a slack of 1 `InBounds` fails:
the code's slack of 0x20 is needed for more than one store per key). `ManyStrays` FALSE bounds the keys
that leave the text to the first; with TRUE, some three million states, everything holds as well. Of the two
words, one fits a buffer that has not grown and one does not (`TabOverrun`, where the model ends: what is
spoiled may be anything's). A capacity is 0x40 or twice a capacity with 0x20 more, so always a multiple of
0x40, and `alloced | 0x20` (`io.c:488`) is the sum that `Written` has. The user's file
may have started the interpreter, so that lines typed ahead reach it within the bounds: then
`send_char_to_input` gets a line and its assertion fails (`caller = "unwanted line"`, `io.c:418`).
Left out: completion of a line that is longer than its string, colours, the terminal's own editing, and that
TAB on an empty line reads the byte in front of the buffer (`io.c:301-304`), whose value makes no difference:
the loop ends at `pos` 0 whatever it is.

### What is proved

`LineEditorProofs` proves, for any characters, words, bounds and width of the cursor, from `LineEditorOK`
(finitely many words; a slack of 2 or more, the code's is 0x20):

* `TypeCorrect`: no line gets more than one character longer than the last that may be typed;
* `NeverOverrun`: `Spec => []InBounds`, for any words that come and go. The `strcpy` of the completion
  (`io.c:374`) is not preceded by a look at the capacity, as the FIXME at `io.c:294` fears; the theorem says
  that nothing else overruns a buffer, and that this does so only when the completion is longer than the
  word it completes by more than the slack (0x20 in the code).
* `KeepsThePromise`: `Spec => TextFieldSteps`. Until a key goes astray each step is one of `TextField`.

`InBounds` needs `MemoryOK`, up to such a completion (`Bounded`): what the code asks about is `buf_size`, but what it copies is the string in
the buffer, the saved line and the lines of the history. Each of them is as long as `buf_size` once was,
and the buffers never shrink, so each fits with the slack to spare; `buf_size` itself is further from the
capacity by one. For `TextFieldSteps` it is enough that, until a key goes astray, `buf_size` is the length
of the string or 0, with the last line still in the buffer, and the cursor is not behind it (`FieldOK`).
The refinement maps the line to the first `buf_size` characters and goes key by key.

## Plugins and what they register: `Registry`

`mapped` counts the handles of a plugin that are open: its code is there while the count is positive.
`commands` maps a name to whose handler it runs; `tables` and `drivers` are the doubly linked lists with
their pointers (`Links`), since a plugin that is loaded twice links the *same* driver in twice, and a
handler that unloads a plugin changes the list under `parse_server_string`'s walk (`HandlerPasses` goes on from
wherever the node's pointer leads by then). `call` is the code that runs; commands of the core and scripts
may load, unload and reload (one by one, or all, from a copy of the list) while they run. Scripts add
commands, a table for a line, timers and polls on top of the plugin for Python.

| run | instance | shows |
|---|---|---|
| `registry_safety` | 3 plugins (one with everything and one with a driver, which may fail, and Python), 2 commands, each opened twice, 3 times in all | `Backed`: what can be called is code that is mapped; `ExactlyWhileLoaded`: a plugin that neither failed nor was loaded twice is registered exactly while it is loaded; `CallsLand`: the only ways to code that is gone are a handler whose own table left the list while it ran, a command that a script registered again, and a timer or poll that outlived the plugin for Python |

Opening a plugin twice is a reload, or a second load beside the first; three openings let it happen to one
plugin with another one loaded before or between. Outcomes
that end the program: a call of code that is not mapped (`code gone`), a return to it (`own code gone`: a plugin
that has itself unloaded), a timer or poll of a script that finds the code where it was, but with a function
of an interpreter that was finalized (`object gone`), a command of a script that is not found, and a `clist` that `py_RegisterCommand` did not set when a command was registered a second time. `load_plugin`
does not notice that a plugin is loaded: it compares the name of the file with the name the plugin gives
itself (`plugin.c:254`), against its comment (`plugin.c:226`); `spoiled` has the plugins this happened to.

The three exceptions of `CallsLand` (`Excused`) are reached. For the first: a script handles a line, registers a new table for
it, which takes its own off the list (`python.c:509`), unloads the plugin that was behind it, and lets the line
pass: `list_next(sl)` (`parse_server_string.c:287`) follows the pointer of the node that was removed to the
table of the plugin that is gone. For the second: `goodbye` does not unregister a command that was registered
a second time, as nothing set the `clist` of its entry. For the third: `goodbye` removes neither the timed functions nor
the polls of scripts (`python.c:1051-1073`), and the main loop calls `py_timed_func` and `py_poll_callback`
where they were; if the plugin has been loaded again since, they may be elsewhere.

Left out: `startup.py`, which runs inside `plugin_init` (`python.c:1026-1040`, before the hooks are added), so
that its scripts register commands and load plugins in the middle of `Load(Python)`; in the model scripts
begin with the first call after it. That changes the order of the list of plugins, not what is on it.

### What is proved

`RegistryProofs` proves all properties of `registry_safety` for any plugins, commands, tables and numbers of
openings, from `RegistryOK` (there are finitely many plugins; no two of them have a command of the same name; the plugin
for Python has neither a table nor a driver of its own) and `SentinelOK`. The theorems are `TypeCorrect`,
`CodeIsThere` (`Backed`), `RegisteredWhileLoaded` (`ExactlyWhileLoaded`) and `CallsReachCode` (`CallsLand`, an
action property).

`Backed` is not inductive: nothing in it says whose code will be unmapped next. `HandlesOK` counts: a plugin
that neither failed nor was loaded twice is mapped exactly while it is loaded, and any other has a handle that
`unload_plugin` never closes (`Extra`). Whatever is registered belongs to a plugin of which one of the two is
true (`Stays`); when a plugin is unloaded without a handle to spare, nothing is left of it, because a name leads
to its own plugin or to the program, or to Python by a name of its own or one that a script has listed (`CommandsOK`);
because the one table of a script that is on the list is the one that `py_server_strings` knows (`TablesOK`); and because
the lists are in order. `loads` numbers the tables, so that a new one is not on the list yet.

That a list is in order is `Ring` in `ListsProofs`: its nodes and its sentinel follow each other, in both
directions, in the order of some sequence without repetition. `list_insert` behind the sentinel of a node that
is not on the list and `list_remove` of one that is keep a ring (`RingInsert`, `RingRemove`), a loop comes by exactly its nodes (`RingAhead`,
which needs that they are finitely many), and a loop that removes some leaves the others (`RingWithout`). A driver
that is linked in twice breaks its ring; for the list of drivers the invariant holds as long as no plugin with a driver
was loaded twice or failed. `Opens` and `MaxOpens` bound the instance and play no part in the proof.

## Functions on text: `Words`, `Regex` and `TextCalls`

A behaviour is a call, an input from a finite set and the result; each property compares it with a definition
of what is meant, for all inputs but those it names. So what it names is what the code gets wrong:

| property | leaves out |
|---|---|
| `RegexAgrees`: `regex_search` finds what the expression means | negated classes (and `.`) match the 0 that ends the text, and what is behind it in memory decides the rest: a match may go over the end, for anything that is there (`Behinds`); with something behind a group not all is tried. A class in brackets contains a blank, and a leading `^` and `$` mean nothing: not in the inputs |
| `ArgvSplits`: a command gets its words, up to `max_argc` | quotes that do not enclose single words: `argc` counts words, the loop quoted parts, and where these are more than `argc + 1` the array overflows (outcome `overflow`, as on a line that is just a quote) |
| `ArgumentsOfLine`: a handler gets prefix, command and parameters of a line, as many as it wants | lines that have a text of several words for a handler that wants more than there is in front of it: it is taken apart; lines with more parameters, the last argument getting all; quotes around words in front |
| `NickFound`: `strstr_nc` finds a nick in a line | a nick behind the beginning of one, as in "bbob" |
| `AliasInPlace`: the alias is replaced where the command is | a command character that begins the alias' name |
| `CompletionsOnce`: each completion at most once, all of the first function that finds any, some of every other | what is lost: `list_join` leads past all but one word of every other function. `AllOffered` says that none is, as the diagram of `list_join` has it, and fails |

The run `words_safety` has all expressions of up to two items, and with a smaller choice of three, of letters,
classes, negated classes, each quantifier, groups of two alternatives and groups in groups, on all texts of
up to 4 letters with any letter, or another 0, behind the end (two of them held as well, in twice the time); all lines of up to 5 characters of a letter, the blank and both quotes, with `max_argc` up to
4; all lines of a server of up to 6 characters of a letter, the blank, the colon and a quote, for handlers that
want 2 to 4 arguments; all nicks of up to 3 letters in all lines of up to 5; up to 3 words from each of 3 completing functions.
A quote that is not closed leads `make_max_argv` behind the end of the line, where any number of arguments may
be found. The handler of PING wants 2 arguments (`parse_server_string.c:94`), so the second is the whole line
without a prefix: the answer to "PING :x" is "PONG PING :x".

A loop of the code is a function of how often it went round (`Loop`, `FoundAfter`, `TabCompletesList`,
`FreeList`), and a round is an operator (`Round`, `Progress`, `Join`, `FreeNext`); the list of completions is
one of `Links`, with the pointers that `list_join` crosses. An expression is written out and compiled character
by character as `compile_regex` does (a stack that `reduce` rewrites), and `Ends` gives its meaning without
looking at how the matcher works. `TextCalls` puts both together: `TextNext` is `Next` of `Words`, or `Search`.

### What is proved

`WordsProofs` proves, from `WordsOK` (texts are sequences of characters, no nick is empty, and how many words
are found is a number), every property of `words_safety` but `RegexAgrees`, for texts of any length over any
characters, any `max_argc` and any number of completing functions with any number of words. The specification
is `Spec` of `Words`; the steps that `TextSpec` adds, a search in a call that is none of the others, have
results that no other property speaks of.

That a result is what the function called computes of its input (`IInv`) is inductive at once. What is hard is
what the functions compute:

* `Typed` (`TypeOK`) and `SplitsArguments` (`ArgvSplits`). The invariant of the loop of `make_max_argv` is
  that the arguments so far are the words that begin before the place it is at, in their order (`WordsTaken`,
  `RoundTakes`). A round takes one character at least, so it is over after as many rounds as there are characters
  (`LoopFacts`). A word's place in this order is how many words begin up to it (`Rank`); where quotes are
  around words, a quoted part ends where its word does (`QuotedWord`).
* `ReadsLines` (`ArgumentsOfLine`). The last parameter begins at the first word with a colon, or is the last
  word (`ParametersFacts`). A handler that wants just as many arguments gets it as the rest of the line; one that
  wants more gets it as a word, and then it must be one: without a blank in it, it is the last word of the line
  (`BlankBetween`), and a last word goes to the end of the line (`LastWord`). `Fits` has what the property assumes of a line, and `LineFits` shows that it says the same.
* `FindsNicks` (`NickFound`). What is found of the needle is always the end of what was looked at (`NeedleFound`), so a
  nick found is there; in front of a delimited place nothing can be found, and from there every character matches.
* `ReplacesInPlace` (`AliasInPlace`). The first word begins with the name, and there is nothing in front of it
  but the command character and blanks, so no place before it has the name (`AliasReplaced`).
* `OffersOnce` (`CompletionsOnce`). The list that is returned is no ring in both directions: `list_join` leaves
  backward pointers that lead past words. So the invariant of the joining speaks of what the forward pointers
  come by (`Chain`), and of the one backward pointer that has to be right, from the second node to the first:
  the words of the first function that finds any and the first word of every other one (`TabList`). A word
  that is lost is on no list, which is why none is freed twice. The loops that count, copy
  and free come by exactly these (`WordsAroundFacts`, `FreeListFacts`).

Only model-checked: `RegexAgrees`. Expressions are nested, and both `Compile` and `Ends` recur on their
structure; induction over such data is out of the prover's reach.

## Findings

Four of them are violation runs that quote the line they contradict:

* `timers_promise`: a walk over the queue may be led onto the ready list and never end (`sigalrm.c:152`,
  `list.h:146`).
* `connections_servername`: `server_name` outlives its server (`irc.c:489`).
* `session_msgself`: `/msg` between `/nick` and the answer aborts (`irc.c:421`, `irc_input.c:135`).
* `words_listjoin`: `list_join` loses all of the second list but one node, and completions with it (`list.h:98`,
  against the diagram above it). It runs `Spec` of `Words`, completions only.

The others are in the models as outcomes or exceptions, named in the sections above and under `hazards`: the
slot that is read past the table, SSL connections that are not reconnected, the user entered twice by a
reconnection, plugins that are loaded twice, lines typed ahead of the interpreter, and the exceptions of the
properties of `Windows` and `Words`.

## Plan

Done: `Timers` with `AlarmService`, `Connections`, `Session`, `Windows`, `LineEditor` with `TextField`,
`Registry` with `Links`, `Words` (checked and proved), `TextCalls` with `Regex` (checked). What is left, in
this order:

1. To model: that a queued message is delivered once; the rate limit and the timed pings of `irc.c`; the hash
   with its chains; `TimerLists`, the single pointers of `list_remove` and `list_insert` under the handler,
   refining `Timers` where it can.
2. To prove: `RegexAgrees`, when an expression's depth is a number that an induction can go by.

## Not modelled

Formatting, colours and wording; what the terminal driver draws; the bindings of Python that only call a
function of the core; DCC (`accept_dcc` returns before it connects); CTCP answers, which keep no state; options,
which are choices or fixed in the modules that read them; the rate limit and the pings of `irc.c`; files,
time stamps and `google` in `support.c`; what a group of an expression matched; `unload_all_plugins`, which runs when
the program exits; memory that is leaked, except where an address is used again. The components and
their status are in `PROJECT.json`.

## Running

`tlc -config X.cfg M` with the module and configuration of a run in `PROJECT.json`; `tlapm M.tla` for each of the
`*Proofs` modules. A definition marked "Mutant" is what a plausible mistake would
make of the definition that follows it: put in its place, the property named in `PROJECT.json` must fail.
No module uses one.
