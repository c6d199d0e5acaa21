---------------------------- MODULE Connections ----------------------------
(***************************************************************************)
(* The network core of bnirc: the table of polled descriptors and the main  *)
(* loop over it (src/src/poll.c), the making of a connection                *)
(* (src/src/connect.c), and the connections to IRC servers: connect,        *)
(* disconnect, reconnect and the choice of the server a command goes to     *)
(* (src/src/irc.c).                                                         *)
(*                                                                         *)
(* The program is one thread.  A step is one iteration of one of the two    *)
(* passes of poll_loop_func, with the callback it makes run to its end; in  *)
(* between the servers send, close and reset.  A callback may register and  *)
(* unregister slots under the loop that runs it.  Memory and slots keep     *)
(* what they last held: what the code reads after a free or past            *)
(* slots_in_use is a choice among what may be there.                        *)
(***************************************************************************)
EXTENDS Integers, FiniteSetsExt, SequencesExt

CONSTANTS Host,          \* the servers' names
          Con,           \* the irc_server_t objects malloc can hand out
          Stdin,         \* stdin_poll of main(), always in the first slot
          Nil,           \* NULL
          InitialSlots,  \* INITIAL_SLOTS_ALLOC
          Ssl,           \* bound of the kinds of connection: TRUE with SSL
          MaxRefused     \* bound of the connection attempts that fail

ASSUME ConnectionsOK ==
  /\ InitialSlots \in Nat \ {0}
  /\ MaxRefused \in Nat
  /\ Ssl \subseteq BOOLEAN
  /\ IsFiniteSet(Host) /\ IsFiniteSet(Con)
  /\ Cardinality(Con) >= Cardinality(Host) + MaxRefused
  /\ Stdin \notin Con /\ Nil \notin Con /\ Nil \notin Host /\ Stdin # Nil

VARIABLES
  table,        \* poll_pointers, the revents of fds, and slots_in_use
  connections,  \* the hash of the servers by name
  object,       \* the irc_server_t object, see Object
  serverName,   \* the global server_name
  active,       \* the server of the active channel, Nil without one
  known,        \* users_hash has the nick the program starts with, on which servers
  pc,           \* which pass of poll_loop_func runs
  i             \* its loop variable, counted from 1

choice == <<serverName, active>>
vars == <<table, connections, object, choice, known, pc, i>>

\* memory: malloc's view of it; host: con.hostname; ssl: poll.is_ssl; stream:
\* the flags of poll.in and poll.out; socket: what there is to read, or why not.
Object == [memory : {"free", "live", "lost"},
           host   : Host \cup {Nil},
           ssl    : BOOLEAN,
           stream : {"open", "eof", "error"},
           socket : {"quiet", "data", "closed", "reset", "failed"}]

\* What a freed object still holds is not tracked: see RecheckGone.
Free == [memory |-> "free", host |-> Nil, ssl |-> FALSE, stream |-> "open",
         socket |-> "quiet"]

Live(c) == object[c].memory = "live"

-----------------------------------------------------------------------------
(* The slots.                                                              *)

\* unregister_poll: the slots behind c's move down; the last one in use keeps
\* its contents.  Descriptors are never closed, so none is in two slots.
Unregister(t, c) ==
  LET s == SelectInSeq(t.pointers, LAMBDA x : x = c)
      n == t.inUse
      moved == [x \in DOMAIN t.pointers |->
                  IF s <= x /\ x < n THEN x + 1 ELSE x]
  IN IF s \notin 1..n THEN t
     ELSE [inUse    |-> n - 1,
           pointers |-> [x \in DOMAIN moved |-> t.pointers[moved[x]]],
           revents  |-> [x \in DOMAIN moved |-> t.revents[moved[x]]]]

\* Mutant: the tables never grow.
WithRoomFixed(t) == {t}

\* alloc_free_slot: the tables as they may be with room for one more slot;
\* realloc leaves garbage in the new half.
WithRoom(t) ==
  LET n == Len(t.pointers)
  IN IF t.inUse < n THEN {t}
     ELSE {[t EXCEPT !.pointers = @ \o [x \in 1..n |-> Nil],
                     !.revents = @ \o g] : g \in [1..n -> BOOLEAN]}

\* register_poll: the revents of the slot stay as they were.
Register(t, c) ==
  {[r EXCEPT !.inUse = @ + 1, !.pointers[r.inUse + 1] = c] : r \in WithRoom(t)}

InUse == 1..table.inUse
Polled == {table.pointers[s] : s \in InUse}

-----------------------------------------------------------------------------
(* Connections to servers.                                                 *)

Lost == {c \in Con : object[c].memory = "lost"}

\* gethostbyname or connect fails: *con becomes NULL and the new object, all
\* zeroes, is neither used nor freed.  The SSL constructor goes on with *con.
Refused(t, conns, objs, s, next) ==
  /\ Cardinality(Lost) < MaxRefused
  /\ \E c \in Con :
       /\ objs[c].memory = "free"
       /\ object' = [objs EXCEPT ![c].memory = "lost"]
  /\ table' = t
  /\ connections' = conns
  /\ pc' = IF s THEN "crashed" ELSE next
  /\ UNCHANGED <<serverName, known>>

\* The connection c is made, entered in the hash, and the default server.
Entered(conns, objs, c, h, s, state) ==
  /\ objs[c].memory = "free"
  /\ object' = [objs EXCEPT ![c] = [Free EXCEPT !.memory = "live", !.host = h,
                                                !.ssl = s, !.socket = state]]
  /\ connections' = [conns EXCEPT ![h] = c]
  /\ serverName' = h

\* Mutant: the connection is not registered.
AcceptedUnpolled(t, conns, objs, h, s) ==
  /\ \E c \in Con : Entered(conns, objs, c, h, s, "quiet")
  /\ table' = t

Accepted(t, conns, objs, h, s) ==
  \E c \in Con :
    /\ Entered(conns, objs, c, h, s, "quiet")
    /\ table' \in Register(t, c)

\* SSL_connect fails: the slot is given back, but *con stays and irc_connect
\* goes on as after a success.
HandshakeFailed(t, conns, objs, h, s) ==
  /\ s
  /\ \E c \in Con :
       /\ Entered(conns, objs, c, h, s, "failed")
       /\ \E r \in Register(t, c) : table' = Unregister(r, c)

\* after_connect makes the user of the connection and enters it in users_hash,
\* which asserts that it is not there yet.
AfterConnect(h, next) ==
  /\ pc' = IF h \in known THEN "crashed" ELSE next
  /\ known' = known \cup {h}

\* irc_connect to h, where the table, the hash and the objects are t, conns and
\* objs by now; the main loop goes on at next.
Connect(t, conns, objs, h, s, next) ==
  \/ /\ conns[h] # Nil
     /\ serverName' = h
     /\ table' = t /\ connections' = conns /\ object' = objs /\ pc' = next
     /\ UNCHANGED known
  \/ conns[h] = Nil /\ Refused(t, conns, objs, s, next)
  \/ /\ conns[h] = Nil
     /\ Accepted(t, conns, objs, h, s) \/ HandshakeFailed(t, conns, objs, h, s)
     /\ AfterConnect(h, next)

\* Mutant: irc_disconnect without unregister_poll.
TableWithoutKept(h) == table

\* irc_disconnect(h): what is left of the table, the hash and the objects.
TableWithout(h) ==
  IF connections[h] = Nil THEN table ELSE Unregister(table, connections[h])

HashWithout(h) == [connections EXCEPT ![h] = Nil]

ObjectsWithout(h) ==
  [c \in Con |-> IF c = connections[h] THEN Free ELSE object[c]]

\* irc_reconnect: is_ssl is read from the object that irc_disconnect freed.
Reconnect(c, next) ==
  LET h == object[c].host
  IN \E s \in Ssl :
       Connect(TableWithout(h), HashWithout(h), ObjectsWithout(h), h, s, next)

-----------------------------------------------------------------------------
(* Commands, typed by the user (k = Nil) or run by a script that handles a  *)
(* line of the server k = current_line_client.                              *)

\* irc_pick_server reads the connection of the active channel's server: NULL,
\* if that server was disconnected.
PickFaults(k) ==
  serverName # Nil /\ k = Nil /\ active # Nil /\ connections[active] = Nil

PickServer(k) ==
  IF serverName = Nil THEN Nil
  ELSE IF k # Nil THEN object[k].host
  ELSE IF active # Nil THEN active
  ELSE serverName

Crash ==
  /\ pc' = "crashed"
  /\ UNCHANGED <<table, connections, object, choice, known>>

ConnectHook(h, s) ==
  /\ Connect(table, connections, object, h, s, pc)
  /\ UNCHANGED active

Disconnect(h) ==
  /\ table' = TableWithout(h)
  /\ connections' = HashWithout(h)
  /\ object' = ObjectsWithout(h)
  /\ UNCHANGED <<pc, choice, known>>

DisconnectPicked(k) ==
  IF PickFaults(k) THEN Crash
  ELSE IF PickServer(k) = Nil THEN UNCHANGED <<pc, table, connections, object, choice, known>>
  ELSE Disconnect(PickServer(k))

\* join_hook: the new channel is shown in the active window; irc_sout follows
\* a NULL pointer if the server is not connected.
Join(k) ==
  IF PickFaults(k) \/ PickServer(k) = Nil \/ connections[PickServer(k)] = Nil
  THEN Crash
  ELSE /\ active' = PickServer(k)
       /\ UNCHANGED <<pc, table, connections, object, serverName, known>>

\* /window, /part: no channel is active any more.  To come back to one is the
\* same as to join it.
Leave ==
  /\ active' = Nil
  /\ UNCHANGED <<pc, table, connections, object, serverName, known>>

\* A command that sends a line with irc_out.
Send(k) ==
  IF PickFaults(k) THEN Crash
  ELSE UNCHANGED <<pc, table, connections, object, choice, known>>

\* A command or a line about somebody with that nick: find_user makes the user.
Mention(k) ==
  IF PickFaults(k) \/ PickServer(k) = Nil THEN Crash
  ELSE /\ known' = known \cup {PickServer(k)}
       /\ UNCHANGED <<pc, table, connections, object, choice>>

Command(k) ==
  \/ \E h \in Host, s \in Ssl : ConnectHook(h, s)
  \/ \E h \in Host : Disconnect(h)
  \/ DisconnectPicked(k)
  \/ Join(k)
  \/ Leave
  \/ Send(k)
  \/ Mention(k)
-----------------------------------------------------------------------------
(* The first pass of poll_loop_func: errors and ends of file.               *)

Slot == table.pointers[i]

NextSlot == i' = i + 1

SlotQuiet ==
  /\ pc = "errors"
  /\ i \in InUse
  /\ Slot # Stdin => object[Slot].stream = "open"
  /\ NextSlot
  /\ UNCHANGED <<table, connections, object, choice, known, pc>>

\* Mutant: a lost connection is cleared like one without callbacks.
SlotEofCleared ==
  /\ pc = "errors"
  /\ i \in InUse
  /\ Slot # Stdin /\ object[Slot].stream = "eof"
  /\ object' = [object EXCEPT ![Slot].stream = "open"]
  /\ NextSlot
  /\ UNCHANGED <<table, connections, choice, known, pc>>

SlotEof ==
  /\ pc = "errors"
  /\ i \in InUse
  /\ Slot # Stdin /\ object[Slot].stream = "eof"
  /\ Reconnect(Slot, "errors")
  /\ NextSlot
  /\ UNCHANGED active

\* error_callback; feof is still to be asked of slot i, whatever is in it now.
SlotError ==
  /\ pc = "errors"
  /\ i \in InUse
  /\ Slot # Stdin /\ object[Slot].stream = "error"
  /\ Reconnect(Slot, "recheck")
  /\ UNCHANGED <<i, active>>

\* Lines 164-175, after an error callback, on the slot's present contents.
RecheckLive ==
  /\ pc = "recheck"
  /\ object[Slot].memory = "live"
  /\ \/ object[Slot].stream = "eof" /\ Reconnect(Slot, "errors")
     \/ /\ object[Slot].stream # "eof"
        /\ pc' = "errors"
        /\ UNCHANGED <<table, connections, object, serverName, known>>
  /\ NextSlot
  /\ UNCHANGED active

\* A freed object looks as it did, or does not; one that was zeroed by the
\* attempt to reconnect has NULL for its stream.
RecheckGone ==
  /\ pc = "recheck"
  /\ object[Slot].memory # "live"
  /\ \/ pc' = "errors" /\ object[Slot].memory = "free"
     \/ pc' = "crashed"
  /\ NextSlot
  /\ UNCHANGED <<table, connections, object, choice, known>>

ErrorsDone ==
  /\ pc = "errors"
  /\ i \notin InUse
  /\ pc' = "poll"
  /\ UNCHANGED <<table, connections, object, choice, known, i>>

-----------------------------------------------------------------------------
(* poll, and the second pass.                                              *)

Readable(c) == c # Stdin /\ object[c].socket # "quiet"

\* Mutant: poll is given one slot too few, once there are connections.
PollShort ==
  /\ pc = "poll"
  /\ \E typed \in BOOLEAN :
       table' = [table EXCEPT !.revents =
                   [s \in DOMAIN @ |->
                      IF s \notin (InUse \ {table.inUse}) \cup {1} THEN @[s]
                      ELSE IF table.pointers[s] = Stdin THEN typed
                      ELSE Readable(table.pointers[s])]]
  /\ pc' = "events"
  /\ i' = 1
  /\ UNCHANGED <<connections, object, choice, known>>

\* Input of the user may or may not be there.
Poll ==
  /\ pc = "poll"
  /\ \E typed \in BOOLEAN :
       table' = [table EXCEPT !.revents =
                   [s \in DOMAIN @ |->
                      IF s \notin InUse THEN @[s]
                      ELSE IF table.pointers[s] = Stdin THEN typed
                      ELSE Readable(table.pointers[s])]]
  /\ pc' = "events"
  /\ i' = 1
  /\ UNCHANGED <<connections, object, choice, known>>

NoEvent ==
  /\ pc = "events"
  /\ i \in InUse
  /\ ~table.revents[i]
  /\ NextSlot
  /\ UNCHANGED <<table, connections, object, choice, known, pc>>

\* One character is read; at the end of a line its command is run.
StdinEvent ==
  /\ pc = "events"
  /\ i \in InUse
  /\ table.revents[i] /\ Slot = Stdin
  /\ \/ Command(Nil)
     \/ UNCHANGED <<table, connections, object, choice, known, pc>>
  /\ NextSlot

\* line_callback: one character of a line that goes on.  With nothing to read
\* fgetc and SSL_read wait: the step has to wait as well.
CharEvent ==
  /\ pc = "events"
  /\ i \in InUse
  /\ table.revents[i] /\ Slot # Stdin
  /\ object[Slot].socket = "data"
  /\ \E left \in {"quiet", "data"} : object' = [object EXCEPT ![Slot].socket = left]
  /\ NextSlot
  /\ UNCHANGED <<table, connections, choice, known, pc>>

\* The character ends a line, and a script that handles it runs a command.
LineEvent ==
  /\ pc = "events"
  /\ i \in InUse
  /\ table.revents[i] /\ Slot # Stdin
  /\ object[Slot].socket = "data"
  /\ Command(Slot)
  /\ NextSlot

\* The line changes the nick of the one who has it, or ends with deleting it.
ForgetEvent ==
  /\ pc = "events"
  /\ i \in InUse
  /\ table.revents[i] /\ Slot # Stdin
  /\ object[Slot].socket = "data"
  /\ known' = known \ {object[Slot].host}
  /\ NextSlot
  /\ UNCHANGED <<table, connections, object, choice, pc>>

\* fgetc sets a flag of the stream; SSL_read sets none.
LossEvent ==
  /\ pc = "events"
  /\ i \in InUse
  /\ table.revents[i] /\ Slot # Stdin
  /\ object[Slot].socket \in {"closed", "reset"}
  /\ object' = [object EXCEPT ![Slot].stream =
                  IF object[Slot].ssl THEN @
                  ELSE IF object[Slot].socket = "closed" THEN "eof"
                  ELSE "error"]
  /\ NextSlot
  /\ UNCHANGED <<table, connections, choice, known, pc>>

\* run_timed_funcs, and the next turn of the main loop.
EventsDone ==
  /\ pc = "events"
  /\ i \notin InUse
  /\ pc' = "errors"
  /\ i' = 1
  /\ UNCHANGED <<table, connections, object, choice, known>>

-----------------------------------------------------------------------------
(* The servers.                                                            *)

Becomes(c, state) == object' = [object EXCEPT ![c].socket = state]

Speak(c) ==
  /\ Live(c) /\ object[c].socket = "quiet"
  /\ Becomes(c, "data")

\* An end of file comes behind the data, a reset discards it.
Hangup(c) ==
  /\ Live(c)
  /\ \/ object[c].socket = "quiet" /\ Becomes(c, "closed")
     \/ object[c].socket \in {"quiet", "data"} /\ Becomes(c, "reset")

Server ==
  /\ pc # "crashed"
  /\ \E c \in Con : Speak(c) \/ Hangup(c)
  /\ UNCHANGED <<table, connections, choice, known, pc, i>>

Init ==
  /\ table = [inUse    |-> 1,
              pointers |-> [s \in 1..InitialSlots |-> IF s = 1 THEN Stdin ELSE Nil],
              revents  |-> [s \in 1..InitialSlots |-> FALSE]]
  /\ connections = [h \in Host |-> Nil]
  /\ object = [c \in Con |-> Free]
  /\ serverName = Nil /\ active = Nil /\ known = {}
  /\ pc = "errors" /\ i = 1

ErrorPass ==
  \/ SlotQuiet \/ SlotEof \/ SlotError
  \/ RecheckLive \/ RecheckGone \/ ErrorsDone

EventPass ==
  \/ NoEvent \/ StdinEvent \/ CharEvent \/ LineEvent \/ ForgetEvent \/ LossEvent \/ EventsDone

MainLoop == ErrorPass \/ Poll \/ EventPass

Next == MainLoop \/ Server

Spec == Init /\ [][Next]_vars

FairSpec == Spec /\ WF_vars(MainLoop)

-----------------------------------------------------------------------------
(* Properties.                                                             *)

\* What the number of slots is after n calls of alloc_free_slot that found none.
Grown[n \in Nat] == IF n = 0 THEN InitialSlots ELSE 2 * Grown[n - 1]

Capacities == {Grown[n] : n \in 0..Cardinality(Con)}

TypeOK ==
  /\ Len(table.pointers) \in Capacities
  /\ table.pointers \in Seq(Con \cup {Stdin, Nil})
  /\ table.revents \in [DOMAIN table.pointers -> BOOLEAN]
  /\ table.inUse \in DOMAIN table.pointers
  /\ connections \in [Host -> Con \cup {Nil}]
  /\ object \in [Con -> Object]
  /\ serverName \in Host \cup {Nil}
  /\ active \in Host \cup {Nil}
  /\ known \subseteq Host
  /\ pc \in {"errors", "recheck", "poll", "events", "crashed"}
  /\ i \in 1..(Cardinality(Con) + 2)

\* Whatever callbacks connect, disconnect and reconnect under the loop that
\* runs them, every slot in use belongs to a connection of its own that is
\* still allocated and that its host name leads to, so that an answer to a
\* line goes back to the server that sent it; stdin keeps its slot.
SlotsLive ==
  /\ table.pointers[1] = Stdin
  /\ \A s, t \in InUse : table.pointers[s] = table.pointers[t] => s = t
  /\ \A c \in Polled \ {Stdin} :
       Live(c) /\ connections[object[c].host] = c

\* No connection that was made is forgotten: its object is reached from the
\* hash, under its own name only, and it is polled unless its handshake failed.
ConnectionsKept ==
  \A c \in Con :
    Live(c) =>
      /\ {h \in Host : connections[h] = c} = {object[c].host}
      /\ object[c].socket # "failed" => c \in Polled

\* The second pass waits for the server of a slot whose revents are left over
\* from a connection that had the slot before.
Blocked ==
  /\ pc = "events"
  /\ i \in InUse
  /\ table.revents[i] /\ Slot # Stdin
  /\ object[Slot].socket = "quiet"

\* The main loop does not run, or never gets on.
Stopped == pc = "crashed" \/ []Blocked

\* The callback of connection c is called.
Served(c) == pc = "events" /\ i \in InUse /\ table.revents[i] /\ Slot = c

\* Although an unregistered slot makes a pass skip the one behind it, a server
\* that sends something is served, unless its connection goes.
Heard ==
  \A c \in Con :
    [](object[c].socket = "data" => <>(Served(c) \/ ~Live(c) \/ Stopped))

\* A plain connection that its server closed or reset is replaced or dropped.
LossNoticed ==
  \A c \in Con :
    [](~object[c].ssl /\ Live(c) /\ object[c].socket \in {"closed", "reset"} =>
         <>(object[c].socket \notin {"closed", "reset"} \/ ~Live(c) \/ Stopped))

\* irc.c:176 and irc.c:206 say of server_name: "this should either be valid,
\* or NULL".
ServerNameValid == serverName = Nil \/ connections[serverName] # Nil
=============================================================================
