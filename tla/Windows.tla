------------------------------ MODULE Windows ------------------------------
(***************************************************************************)
(* What the user sees and where what he enters goes: the channels and the   *)
(* windows they are in (src/src/channel.c), the active window and the       *)
(* output to the others (src/src/io.c), the driver for terminals            *)
(* (src/plugins/io_ncurses/io_ncurses.c), the choice of the server a        *)
(* command goes to, queries (src/src/irc.c), and the messages kept while    *)
(* the user is away (src/src/away.c).                                       *)
(*                                                                         *)
(* A step is a command, a line of a server or the loss of a connection; the *)
(* main loop handles losses outside, everything else inside of a block of   *)
(* output, that the driver shows at its end (src/src/poll.c).               *)
(***************************************************************************)
EXTENDS Integers, SequencesExt

CONSTANTS
  Channel,      \* the channels: a name and a server
  Server,       \* the servers' names
  ServerOf,     \* the server of each channel
  MaxWindows,   \* MAX_WINDOWS of the driver
  MaxMessages,  \* bound of the messages with the user's nick while he is away
  NoServer      \* no server_name

ASSUME WindowsOK ==
  /\ ServerOf \in [Channel -> Server]
  /\ MaxWindows \in Nat \ {0, 1}
  /\ MaxMessages \in Nat
  /\ NoServer \notin Server
  /\ Channel \cap {"nobody", "query"} = {}

Window == 0..(MaxWindows - 1)

VARIABLES
  connections,  \* the names in the hash of servers
  users,        \* the servers that the hash of users has somebody of
  serverName,   \* server_name
  state,        \* of each channel: "unknown" if it is not in channels_hash
  win,          \* the window each channel was last put in
  shownIn,      \* active_channels: the channels of each window, the first in front
  active,       \* active_window
  windowMax,    \* window_max
  driver,       \* io_ncurses is loaded
  flags,        \* my_window_flags
  depth,        \* io_block_stack
  ready,        \* io_ready
  query,        \* there is a query
  away,         \* is_away
  kept,         \* the list of messages that are kept, by the number of each
  phase,        \* "start", or the main loop's: "wait" until begin_io_block, "block"
  stopped,      \* an assertion failed or a NULL pointer was followed
  unseen,       \* history: what windows the user has not looked at got
  stale,        \* history: lines were put in the active window, not on the screen
  counted,      \* history: the driver was told of every block since it is loaded
  member,       \* history: the channels the user is in, as their servers know it
  denied,       \* history: those whose last JOIN had no effect, or that he was kicked from
  owed,         \* history: how many messages with his nick channels got since /away
  shown,        \* history: the messages that this step displayed
  said          \* history: server and target of what this step said

channels == <<state, win, shownIn, member, denied>>
screen == <<active, windowMax, driver, flags, depth, ready, unseen, stale, counted>>
aways == <<away, kept, owed>>
net == <<connections, users, serverName>>
vars == <<net, channels, screen, aways, query, phase, stopped, shown, said>>

Silent == [server |-> NoServer, target |-> "nobody"]

Quiet == said' = Silent /\ shown' = <<>>

\* What a window has, as a flag: nothing, output, output with the user's nick.
Flag == {"none", "output", "nick"}

Unflagged == [w \in Window |-> "none"]

Known(c) == state[c] # "unknown"

-----------------------------------------------------------------------------
(* Lists of channels.                                                      *)

\* The list without the nodes of channel c, which the loop takes off one by one.
Without(list, c) ==
  LET rest[n \in 0..Len(list)] ==
        IF n = 0 THEN <<>>
        ELSE IF list[n] = c THEN rest[n - 1] ELSE Append(rest[n - 1], list[n])
  IN rest[Len(list)]

\* remove_from_window: of the window the channel says it is in.
RemoveFromWindow(lists, c, w) == [lists EXCEPT ![w] = Without(@, c)]

\* Mutant: the channel is told its new window before it is removed from the old.
SetChannelWinEarly(lists, c, old, w) ==
  [RemoveFromWindow(lists, c, w) EXCEPT ![w] = <<c>> \o @]

\* set_channel_win: the channel comes to the front.
SetChannelWin(lists, c, old, w) ==
  [RemoveFromWindow(lists, c, old) EXCEPT ![w] = <<c>> \o @]

HasChannel == shownIn[active] # <<>>

ActiveChannel == Head(shownIn[active])

-----------------------------------------------------------------------------
(* Which server a command goes to (there is no force_server_respect).       *)

\* The connection of the active channel's server, NULL if it is gone.
PickFaults ==
  /\ serverName # NoServer
  /\ HasChannel
  /\ ServerOf[ActiveChannel] \notin connections

\* Mutant: the active channel is not looked at.
PickDefault == serverName

PickServer ==
  IF serverName # NoServer /\ HasChannel THEN ServerOf[ActiveChannel]
  ELSE serverName

-----------------------------------------------------------------------------
(* Output.                                                                 *)

\* refresh_info_line follows irc_pick_server_connection, where there is SSL, to say
\* whether it is secure: of the channel in front of window w, or of the server name.
InfoFaults(w, name, hash) ==
  /\ name # NoServer
  /\ (IF shownIn[w] # <<>> THEN ServerOf[Head(shownIn[w])] ELSE name) \notin hash

\* A refresh that is not put off.  A handler of a line has a connection in
\* current_line_client.
RefreshFaults(w, name, hash) == driver /\ depth = 0 /\ InfoFaults(w, name, hash)

\* What a fault interrupts is not told apart.  Whether there is SSL, and the option
\* hide_info_bar, decide whether it is one.
MayStop(faults) == stopped' \in {FALSE, faults}

\* REFRESH: in a block it is only noted that it is due.
Refresh ==
  IF depth # 0 THEN ready' = TRUE /\ stale' = TRUE
  ELSE UNCHANGED ready /\ stale' = FALSE

\* Text in the active window, ending a line.
PutActive == IF driver THEN Refresh ELSE UNCHANGED <<ready, stale>>

Worse(f, g) == IF "nick" \in {f, g} THEN "nick" ELSE "output"

\* Mutant: a window that is flagged already keeps its flag.
FlaggedOnce(w, kind) ==
  [flags EXCEPT ![w] = IF @ = "none" THEN kind ELSE @]

\* handle_window_status
Flagged(w, kind) == [flags EXCEPT ![w] = Worse(@, kind)]

\* wio_out and its kin: a line for the window w.
Output(w, kind) ==
  /\ IF w = active \/ ~driver THEN UNCHANGED <<flags, unseen>>
     ELSE /\ flags' = Flagged(w, kind)
          /\ unseen' = [unseen EXCEPT ![w] = Worse(@, kind)]
  /\ IF w = active THEN PutActive ELSE UNCHANGED <<ready, stale>>
  /\ UNCHANGED <<active, windowMax, driver, depth, counted>>

\* cio_out
CioOut == Output(active, "output")

-----------------------------------------------------------------------------
(* Commands.                                                               *)

\* Commands run at the start, from the user's file, and in a block.
Running == phase # "wait" /\ ~stopped

\* The command follows a NULL pointer, or irc_sout asserts that it has a server.
Stop ==
  /\ stopped' = TRUE
  /\ Quiet
  /\ UNCHANGED <<net, channels, screen, aways, query, phase>>

\* The window that join_hook asks for, before the join puts it in the active one.
JoinWindow == IF active <= windowMax /\ active > 0 THEN active ELSE 0

\* The server takes the JOIN, or refuses or ignores it.
JoinHook(c) ==
  /\ Running
  /\ serverName # NoServer
  /\ PickFaults \/ ServerOf[c] = PickServer
  /\ IF PickFaults \/ ServerOf[c] \notin connections THEN Stop
     ELSE LET made == IF Known(c) THEN shownIn ELSE SetChannelWin(shownIn, c, 0, 0)
              asked == SetChannelWin(made, c, win[c], JoinWindow)
          IN /\ shownIn' = SetChannelWin(asked, c, JoinWindow, active)
             /\ win' = [win EXCEPT ![c] = active]
             /\ state' = [state EXCEPT ![c] = "join sent"]
             /\ \/ member' = member \cup {c} /\ denied' = denied \ {c}
                \/ c \notin member /\ denied' = denied \cup {c} /\ UNCHANGED member
             /\ Quiet
             /\ UNCHANGED <<net, screen, aways, query, phase, stopped>>

\* part
Part(c) ==
  /\ shownIn' = RemoveFromWindow(shownIn, c, win[c])
  /\ state' = [state EXCEPT ![c] = "part sent"]
  /\ member' = member \ {c} /\ denied' = denied \ {c}
  /\ UNCHANGED win

PartHook(c) ==
  /\ Running
  /\ serverName # NoServer
  /\ PickFaults \/ (ServerOf[c] = PickServer /\ Known(c))
  /\ IF PickFaults \/ ServerOf[c] \notin connections THEN Stop
     ELSE /\ Part(c)
          /\ Quiet
          /\ UNCHANGED <<net, screen, aways, query, phase, stopped>>

\* privmsg_print, away_handle_msg: a message with the user's nick is kept while
\* he is away, his own ones as well.  Those of channels are numbered, the others 0.
Keep(kind, private) ==
  IF away /\ kind = "nick"
  THEN /\ Len(kept) < MaxMessages
       /\ owed' = IF private THEN owed ELSE owed + 1
       /\ kept' = Append(kept, IF private THEN 0 ELSE owed')
       /\ UNCHANGED away
  ELSE UNCHANGED aways

\* irc_say, with an active channel: a query goes to the server that is picked.
IrcSay(kind) ==
  /\ Running
  /\ HasChannel
  /\ IF ServerOf[ActiveChannel] \notin connections THEN Stop
     ELSE /\ said' = [server |-> PickServer,
                      target |-> IF query THEN "query" ELSE ActiveChannel]
          /\ shown' = <<>>
          /\ Keep(kind, query)
          /\ IF query THEN CioOut ELSE Output(win[ActiveChannel], kind)
          /\ UNCHANGED <<net, channels, query, phase, stopped>>

\* irc_say returns if the active window has no channel, query or not.
SayNowhere ==
  /\ Running
  /\ ~HasChannel
  /\ Quiet
  /\ UNCHANGED <<net, channels, screen, aways, query, phase, stopped>>

\* do_query, do_unquery
QueryHook ==
  /\ Running
  /\ \/ ~query /\ serverName # NoServer /\ ~PickFaults /\ query' = TRUE
     \/ query /\ query' = FALSE
  /\ Quiet
  /\ UNCHANGED <<net, channels, screen, aways, phase, stopped>>

AwayHook ==
  /\ Running
  /\ away' = TRUE
  /\ CioOut
  /\ MayStop(RefreshFaults(active, serverName, connections))
  /\ Quiet
  /\ UNCHANGED <<net, channels, kept, owed, query, phase>>

\* Mutant: the last message, behind which nothing is displayed, stays.
DisplayAllButLast(list) == <<list, IF list = <<>> THEN <<>> ELSE <<Last(list)>> >>

\* away_display_msgs: each node is displayed, and removed when the walk is at the
\* next one; the last is removed behind the walk.
DisplayMsgs(list) ==
  LET behind[n \in 0..Len(list)] ==
        IF n <= 1 THEN list ELSE Tail(behind[n - 1])
  IN <<list, IF list = <<>> THEN <<>> ELSE Front(behind[Len(list)])>>

BackHook ==
  /\ Running
  /\ away' = FALSE
  /\ shown' = DisplayMsgs(kept)[1]
  /\ kept' = DisplayMsgs(kept)[2]
  /\ owed' = 0
  /\ said' = Silent
  /\ CioOut
  /\ MayStop(RefreshFaults(active, serverName, connections))
  /\ UNCHANGED <<net, channels, query, phase>>

-----------------------------------------------------------------------------
(* Windows and the driver.                                                 *)

\* set_active_window_hook
ShowWindow(w) ==
  /\ active' = w
  /\ flags' = [flags EXCEPT ![w] = "none"]
  /\ unseen' = [unseen EXCEPT ![w] = "none"]
  /\ Refresh
  /\ MayStop(RefreshFaults(w, serverName, connections))
  /\ UNCHANGED <<windowMax, driver, depth, counted>>

\* /window takes numbers up to window_max, counted from 0.
WindowHook(w) ==
  /\ Running
  /\ IF w > windowMax
     THEN CioOut /\ MayStop(RefreshFaults(active, serverName, connections))
     ELSE IF driver /\ w \in Window THEN ShowWindow(w)
     ELSE UNCHANGED <<screen, stopped>>
  /\ Quiet
  /\ UNCHANGED <<net, channels, aways, query, phase>>

\* A function key takes any number that the driver has a window for.
FunctionKey(w) ==
  /\ Running
  /\ driver
  /\ ShowWindow(w)
  /\ Quiet
  /\ UNCHANGED <<net, channels, aways, query, phase>>

\* Mutant: the driver's init_hook has the last word.
WindowsOfInit == MaxWindows

\* What init_driver makes of window_max, after the driver's init_hook.
WindowsOfDriver == MaxWindows - 1

\* The plugin is loaded at the start, or in a block that it has not seen begin; its
\* init_hook refreshes the screen.
LoadDriver ==
  /\ Running /\ ~driver
  /\ driver' = TRUE
  /\ windowMax' = WindowsOfDriver
  /\ flags' = Unflagged
  /\ unseen' = Unflagged
  /\ depth' = 0 /\ ready' = FALSE /\ stale' = FALSE
  /\ counted' = (phase = "start")
  /\ MayStop(InfoFaults(active, serverName, connections))
  /\ Quiet
  /\ UNCHANGED <<net, channels, active, aways, query, phase>>

\* What is printed goes to the terminal; the active window stays.
UnloadDriver ==
  /\ Running /\ driver
  /\ driver' = FALSE
  /\ windowMax' = 0
  /\ flags' = Unflagged
  /\ unseen' = Unflagged
  /\ depth' = 0 /\ ready' = FALSE /\ stale' = FALSE
  /\ counted' = TRUE
  /\ Quiet
  /\ UNCHANGED <<net, channels, active, aways, query, phase, stopped>>

-----------------------------------------------------------------------------
(* Connections.                                                            *)

Elsewhere(cs, s) == {c \in cs : ServerOf[c] # s}

\* JOINs on a new connection: the server takes some of them.
Rejoined(s, asked) ==
  \E cs \in SUBSET asked :
    /\ member' = Elsewhere(member, s) \cup cs
    /\ denied' = Elsewhere(denied, s) \cup (asked \ cs)

\* Mutant: rejoin_channels looks for JOINED, as wall does.
RejoinJoined(s) ==
  Rejoined(s, {c \in Channel : state[c] = "joined" /\ ServerOf[c] = s})

\* rejoin_channels: all of the server's channels in the hash.
Rejoin(s) == Rejoined(s, {c \in Channel : Known(c) /\ ServerOf[c] = s})

\* Nobody is in a channel of a server that is not connected.
Disconnected(s) ==
  /\ connections' = connections \ {s}
  /\ member' = Elsewhere(member, s) /\ denied' = Elsewhere(denied, s)
  /\ UNCHANGED <<users, serverName>>

\* irc_connect of a server that is not in the hash prints what becomes of it.  The
\* connection is made or not; hash_insert asserts that nobody of the user's nick is
\* left in the hash of users from an earlier one.
Connect(s) ==
  LET faults == RefreshFaults(active, serverName, connections \ {s})
  IN \/ Disconnected(s) /\ MayStop(faults)
     \/ /\ connections' = connections \cup {s}
        /\ users' = users \cup {s}
        /\ serverName' = s
        /\ Rejoin(s)
        /\ MayStop(faults \/ s \in users)

IrcConnect(s) ==
  /\ Running
  /\ IF s \notin connections THEN Connect(s)
     ELSE /\ serverName' = s
          /\ MayStop(RefreshFaults(active, s, connections))
          /\ UNCHANGED <<connections, users, member, denied>>
  /\ CioOut
  /\ Quiet
  /\ UNCHANGED <<state, win, shownIn, aways, query, phase>>

\* irc_disconnect: the channels stay where they are.
IrcDisconnect(s) ==
  /\ Running
  /\ s \in connections
  /\ Disconnected(s)
  /\ MayStop(RefreshFaults(active, serverName, connections'))
  /\ CioOut
  /\ Quiet
  /\ UNCHANGED <<state, win, shownIn, aways, query, phase>>

\* A connection is lost; irc_reconnect, outside of the block, takes it out of the
\* hash, says so, and connects again.
IrcReconnect(s) ==
  /\ phase = "wait" /\ ~stopped
  /\ s \in connections
  /\ Connect(s)
  /\ CioOut
  /\ Quiet
  /\ UNCHANGED <<state, win, shownIn, aways, query, phase>>

-----------------------------------------------------------------------------
(* Lines of a server, which is current_line_client meanwhile.               *)

Handling == phase = "block" /\ ~stopped

\* A message to a channel, or a line about it.
ChannelLine(c, kind) ==
  /\ Handling
  /\ ServerOf[c] \in connections /\ Known(c)
  /\ Output(win[c], kind)
  /\ Keep(kind, FALSE)
  /\ Quiet
  /\ UNCHANGED <<net, channels, query, phase, stopped>>

\* kick_hook, when it is the user who is kicked: the channel stays in its window.
KickLine(c) ==
  /\ Handling
  /\ c \in member
  /\ Output(win[c], "nick")
  /\ member' = member \ {c} /\ denied' = denied \cup {c}
  /\ Quiet
  /\ UNCHANGED <<net, state, win, shownIn, aways, query, phase, stopped>>

\* A private message, or a line without a channel: in the active window.
PrivateLine(kind) ==
  /\ Handling
  /\ connections # {}
  /\ CioOut
  /\ Keep(kind, TRUE)
  /\ Quiet
  /\ UNCHANGED <<net, channels, query, phase, stopped>>

\* print_relevant_wins: each window that has one of the channels, once.
Relevant(cs) == {win[c] : c \in {d \in cs : Known(d)}}

NickLine(cs, kind) ==
  /\ Handling
  /\ \E s \in connections : \A c \in cs : ServerOf[c] = s
  /\ LET ws == Relevant(cs)
     IN /\ flags' = [w \in Window |->
             IF driver /\ w \in ws \ {active} THEN Worse(flags[w], kind) ELSE flags[w]]
        /\ unseen' = [w \in Window |->
             IF driver /\ w \in ws \ {active} THEN Worse(unseen[w], kind) ELSE unseen[w]]
        /\ IF active \in ws THEN PutActive ELSE UNCHANGED <<ready, stale>>
  /\ Quiet
  /\ UNCHANGED <<net, channels, active, windowMax, driver, depth, counted, aways,
                 query, phase, stopped>>

\* end_of_names_hook of a channel that is not known: one is made, in the first
\* window, written to, and deleted, with a PART to the server.
EndOfNames(c) ==
  /\ Handling
  /\ ServerOf[c] \in connections /\ ~Known(c)
  /\ Output(0, "output")
  /\ shownIn' = RemoveFromWindow(SetChannelWin(shownIn, c, 0, 0), c, 0)
  /\ Quiet
  /\ UNCHANGED <<net, state, win, member, denied, aways, query, phase, stopped>>

-----------------------------------------------------------------------------
(* The main loop.                                                          *)

Keeps == UNCHANGED <<net, channels, aways, query, active, windowMax, driver,
                     flags, unseen, counted>>

BeginIoBlock ==
  /\ phase # "block" /\ ~stopped
  /\ phase' = "block"
  /\ depth' = IF driver THEN depth + 1 ELSE depth
  /\ Quiet
  /\ Keeps /\ UNCHANGED <<ready, stale, stopped>>

\* Mutant: what became due in the block is refreshed before it ends.
EndIoBlockEarly ==
  /\ phase = "block" /\ ~stopped
  /\ phase' = "wait"
  /\ depth' = IF driver THEN depth - 1 ELSE depth
  /\ IF driver /\ ready THEN ready' = (depth # 0) /\ stale' = (stale /\ depth # 0)
     ELSE UNCHANGED <<ready, stale>>
  /\ MayStop(driver /\ ready /\ depth = 0 /\ InfoFaults(active, serverName, connections))
  /\ Quiet
  /\ Keeps

\* What is due is refreshed, unless another block is open: or one is missing.
EndIoBlock ==
  /\ phase = "block" /\ ~stopped
  /\ phase' = "wait"
  /\ depth' = IF driver THEN depth - 1 ELSE depth
  /\ IF driver /\ ready THEN ready' = (depth' # 0) /\ stale' = (stale /\ depth' # 0)
     ELSE UNCHANGED <<ready, stale>>
  /\ MayStop(driver /\ ready /\ depth' = 0 /\ InfoFaults(active, serverName, connections))
  /\ Quiet
  /\ Keeps

\* refresher_func, every second: the line of information is drawn in any case.
RefresherFunc ==
  /\ Handling
  /\ driver
  /\ InfoFaults(active, serverName, connections)
  /\ Stop

Init ==
  /\ connections = {} /\ users = {} /\ serverName = NoServer
  /\ state = [c \in Channel |-> "unknown"]
  /\ win = [c \in Channel |-> 0]
  /\ shownIn = [w \in Window |-> <<>>]
  /\ active = 0 /\ windowMax = 1
  /\ driver = FALSE
  /\ flags = Unflagged /\ unseen = Unflagged
  /\ depth = 0 /\ ready = FALSE /\ stale = FALSE /\ counted = TRUE
  /\ query = FALSE
  /\ away = FALSE /\ kept = <<>> /\ owed = 0 /\ shown = <<>>
  /\ phase = "start" /\ stopped = FALSE
  /\ member = {} /\ denied = {} /\ said = Silent

Command ==
  \/ \E c \in Channel : JoinHook(c) \/ PartHook(c)
  \/ \E kind \in {"output", "nick"} : IrcSay(kind)
  \/ SayNowhere \/ QueryHook \/ AwayHook \/ BackHook
  \/ \E w \in 0..MaxWindows : WindowHook(w)
  \/ \E w \in Window : FunctionKey(w)
  \/ LoadDriver \/ UnloadDriver
  \/ \E s \in Server : IrcConnect(s) \/ IrcDisconnect(s)

Line ==
  \/ \E c \in Channel, kind \in {"output", "nick"} : ChannelLine(c, kind)
  \/ \E kind \in {"output", "nick"} : PrivateLine(kind)
  \/ \E cs \in SUBSET Channel, kind \in {"output", "nick"} : NickLine(cs, kind)
  \/ \E c \in Channel : EndOfNames(c) \/ KickLine(c)

Next ==
  \/ Command
  \/ Line
  \/ \E s \in Server : IrcReconnect(s)
  \/ BeginIoBlock \/ RefresherFunc \/ EndIoBlock

Spec == Init /\ [][Next]_vars

-----------------------------------------------------------------------------
(* Properties.                                                             *)

TypeOK ==
  /\ connections \subseteq Server /\ users \subseteq Server
  /\ serverName \in Server \cup {NoServer}
  /\ state \in [Channel -> {"unknown", "join sent", "part sent"}]
  /\ win \in [Channel -> Window]
  /\ shownIn \in [Window -> Seq(Channel)]
  /\ active \in Window
  /\ windowMax \in Window
  /\ flags \in [Window -> Flag] /\ unseen \in [Window -> Flag]
  /\ depth \in -1..1
  /\ ready \in BOOLEAN /\ stale \in BOOLEAN /\ counted \in BOOLEAN
  /\ driver \in BOOLEAN /\ query \in BOOLEAN /\ away \in BOOLEAN
  /\ phase \in {"start", "wait", "block"} /\ stopped \in BOOLEAN
  /\ kept \in Seq(0..MaxMessages) /\ shown \in Seq(0..MaxMessages)
  /\ owed \in 0..MaxMessages
  /\ member \subseteq Channel /\ denied \subseteq Channel
  /\ said \in [server : Server \cup {NoServer},
               target : Channel \cup {"nobody", "query"}]

\* A channel that was joined and not left since is in the list of exactly one
\* window, once, and it is the window its lines are written to; no other channel is
\* in any list, neither one that was left nor one that was made for a moment.
Placed ==
  \A c \in Channel, w \in Window :
    Cardinality({n \in DOMAIN shownIn[w] : shownIn[w][n] = c})
      = IF state[c] = "join sent" /\ win[c] = w THEN 1 ELSE 0

\* While its server is connected, the user is in every channel that a window shows,
\* after a disconnection and a new connection, or a reconnection, as well; or the
\* server did not take the last JOIN for it, or kicked him since: nothing looks at
\* what became of a JOIN, and the channel stays in its window.
ShowsMembership ==
  \A w \in Window : \A c \in Range(shownIn[w]) :
    ServerOf[c] \in connections => c \in member \cup denied

\* The line of information (refresh_info_line, the windows below window_max) lists
\* every window, but the last one, that has lines the user did not see, as one with
\* his nick if they have it; the window he looks at is never listed.
ListsUnseen ==
  driver =>
    /\ \A w \in Window \cap 0..(windowMax - 1) : flags[w] = unseen[w]
    /\ flags[active] = "none"

\* When the main loop waits for input, the screen has what was printed, if the
\* driver was told when the block began in which it was loaded.
ScreenIsFresh == phase = "wait" /\ counted => ~stale

OfChannels(list) == Without(list, 0)

\* /back displays all the messages with his nick that channels got while the user was
\* away, in the order they came, and none that an earlier /back displayed.  Of
\* private messages nothing is said: the help for /back promises those "sent to you",
\* privmsg_print keeps the ones with his nick.
BackShowsAll ==
  [][owed' < owed \/ shown' # <<>> =>
       OfChannels(shown') = [n \in 1..owed |-> n]]_vars

\* What the user says goes to the server of the channel in front of the active
\* window, to somebody he queries or to a channel that he joined and did not leave.
SaidWhereShown ==
  [][said' # Silent =>
       /\ HasChannel /\ said'.server = ServerOf[ActiveChannel]
       /\ said'.target \in Channel => state[said'.target] = "join sent"]_vars
=============================================================================
