------------------------------- MODULE Session -------------------------------
(***************************************************************************)
(* What bnirc knows of the people it talks to, and how it keeps up with the *)
(* server: the users of the hash users_hash (src/src/user.c), the user of   *)
(* the connection itself (src/src/irc.c), the lines of the server that name *)
(* users (src/plugins/server_strings) and the commands that do              *)
(* (src/plugins/irc_input).                                                 *)
(*                                                                         *)
(* One server and one channel.  Client and server are two actors that       *)
(* exchange lines over a connection that keeps them in order and may break: *)
(* a nick in a line is the server's at the time it wrote the line, a nick   *)
(* in the client's table is the one it believes in.  A step is one line     *)
(* read, by the client or the server, one command of the user, or one deed  *)
(* of somebody else on the network.                                         *)
(***************************************************************************)
EXTENDS Integers, SequencesExt

CONSTANTS Other,      \* the other people on the network
          LastNick,   \* the nicks are 1..LastNick, see Nick
          Channel,    \* the name of the channel
          NoUser,     \* no entry in the hash under a nick
          Nil,        \* NULL
          MaxTyped,   \* bound of the commands the user types
          MaxDeeds    \* bound of what the others do, and of broken connections

ASSUME SessionOK ==
  /\ LastNick \in Nat \ {0}
  /\ MaxTyped \in Nat /\ MaxDeeds \in Nat
  /\ "Me" \notin Other /\ Nil \notin Other \cup Nat /\ Channel \notin Nat

\* Nick n + 1 is nick n with the last character that is no '_' replaced by
\* one; LastNick has only '_'.  Case does not count: hash_find_nc.
Nick == 1..LastNick

\* The nick that the program asks for first (default_nick).
DefaultNick == 1

Me == "Me"
Person == Other \cup {Me}

VARIABLES
  users,      \* users_hash: the user entered under each nick
  self,       \* the user of the connection: the key it is entered under, its name
  channel,    \* the channel_t: "none", "shown" in a window, or "parted"
  up,         \* the connection is there
  toServer,   \* lines on their way to the server
  toClient,   \* lines on their way to the client
  nickOf,     \* the server: everyone's nick, Nil if not on the network
  members,    \* the server: who is in the channel
  mishaps,    \* what has gone wrong with nicks, see Mishap
  outcome,    \* "running", or what stopped the program
  typed,      \* commands of the user so far
  deeds       \* deeds of others so far

table == <<users, self, channel>>
server == <<nickOf, members>>
lines == <<toServer, toClient>>
vars == <<table, up, lines, server, mishaps, outcome, typed, deeds>>

Flag == {"self", "ignore", "op"}

\* chlist holds the one channel or nothing; a user without flags, queue and
\* channel is what construct_user makes.
User == [flags : SUBSET Flag, queue : BOOLEAN, there : BOOLEAN]

NewUser == [flags |-> {}, queue |-> FALSE, there |-> FALSE]

ASSUME NoUserOK == NoUser \notin User

\* History: the user asked for a nick while the server had not accepted one
\* yet; the server refused one to a client that had another.
Mishap == {"early", "refused"}

\* The key of a user that recv_nick has taken out of the hash for another.
Unlinked == 0

Is(n, f) == f \in users[n].flags

-----------------------------------------------------------------------------
(* Users.                                                                  *)

\* The users after find_user(n), which makes the user it does not find.
FindUser(t, n) == IF t[n] = NoUser THEN [t EXCEPT ![n] = NewUser] ELSE t

\* recv_nick of the user under k: one that is entered under n goes.
RecvNick(t, k, n) == [t EXCEPT ![k] = NoUser, ![n] = t[k]]

\* The same for the user of the connection: k and n may both be its key.
SelfNick(s, k, n) ==
  IF s.key = k THEN [key |-> n, name |-> n]
  ELSE IF s.key = n THEN [s EXCEPT !.key = Unlinked]
  ELSE s

\* privmsg_print returns early.
Unheard(t, u, dest) ==
  \/ "ignore" \in t[u].flags
  \/ dest = Channel /\ channel = "none"

\* The users after privmsg_print(u, dest): one that was queued for u is sent by
\* irc_msg, which looks for the user of the connection by its name.
Printed(t, u, dest) ==
  LET seen == IF dest = Channel THEN t ELSE FindUser(t, dest)
  IN IF Unheard(t, u, dest) THEN t
     ELSE IF ~t[u].queue THEN seen
     ELSE [FindUser(seen, self.name) EXCEPT ![u].queue = FALSE]

\* irc_msg prints what it sends as said by the user of the connection; if there
\* is something queued for that one as well, irc_msg calls itself for ever.
Overflows(t, u, dest) ==
  LET me == Printed(t, u, dest)[self.name]
  IN /\ ~Unheard(t, u, dest)
     /\ t[u].queue
     /\ \/ u = self.name
        \/ me.queue /\ "ignore" \notin me.flags

PrivmsgPrint(t, u, dest) ==
  /\ users' = Printed(t, u, dest)
  /\ outcome' = IF Overflows(t, u, dest) THEN "overflow" ELSE "running"

\* The lines as they are when more is written; what is written to a broken
\* connection is lost.
Write(more) == IF up THEN toServer \o more ELSE toServer

Line(c, n) == [cmd |-> c, nick |-> n]

\* irc_snick: the name changes at once, the key when the server says so.
Snick(s, n) == [s EXCEPT !.name = n]

-----------------------------------------------------------------------------
(* The client reads a line of the server.                                  *)

Got == Head(toClient)

Reading(c) ==
  /\ outcome = "running"
  /\ toClient # <<>>
  /\ Got.cmd = c
  /\ toClient' = Tail(toClient)
  /\ UNCHANGED <<channel, up, server, mishaps, typed, deeds>>

NickHook ==
  /\ Reading("NICK")
  /\ users' = RecvNick(FindUser(users, Got.nick), Got.nick, Got.what)
  /\ self' = SelfNick(self, Got.nick, Got.what)
  /\ UNCHANGED <<toServer, outcome>>

\* Mutant: the next nick is not asked for.
BadNickSilent ==
  /\ Reading("433")
  /\ users' = FindUser(users, Got.nick)
  /\ UNCHANGED <<self, toServer, outcome>>

\* Mutant: '_' is appended for ever.
BadNickEndless ==
  /\ Reading("433")
  /\ LET n == Got.nick
         t == FindUser(users, n)
     IN /\ users' = (n + 1 :> t[n]) @@ [t EXCEPT ![n] = NoUser]
        /\ self' = SelfNick(Snick(self, n + 1), n, n + 1)
        /\ toServer' = Write(<<Line("NICK", n + 1)>>)
  /\ UNCHANGED outcome

\* The server refused a nick.  The user entered under it, whoever that is, is
\* given the next one; with only '_' left the client gives up.
BadNick ==
  /\ Reading("433")
  /\ LET n == Got.nick
         t == FindUser(users, n)
     IN IF n = LastNick
        THEN users' = t /\ UNCHANGED <<self, toServer>>
        ELSE /\ users' = RecvNick(t, n, n + 1)
             /\ self' = SelfNick(Snick(self, n + 1), n, n + 1)
             /\ toServer' = Write(<<Line("NICK", n + 1)>>)
  /\ UNCHANGED outcome

JoinHook ==
  /\ Reading("JOIN")
  /\ users' = IF channel = "none" THEN users
              ELSE [FindUser(users, Got.nick) EXCEPT ![Got.nick].there = TRUE]
  /\ UNCHANGED <<self, toServer, outcome>>

\* Mutant: only the users that are known already are entered.
NamesHookKnown ==
  /\ Reading("353")
  /\ users' = [n \in Nick |->
                 IF n \in Got.names /\ users[n] # NoUser
                 THEN [users[n] EXCEPT !.there = TRUE] ELSE users[n]]
  /\ UNCHANGED <<self, toServer, outcome>>

\* Who has neither '@' nor '+' in front is taken for an operator.
NamesHook ==
  /\ Reading("353")
  /\ users' = [n \in Nick |->
                 IF n \notin Got.names THEN users[n]
                 ELSE LET u == FindUser(users, n)[n]
                      IN [u EXCEPT !.there = TRUE,
                                   !.flags = @ \cup (IF n \in Got.plain
                                                     THEN {"op"} ELSE {})]]
  /\ UNCHANGED <<self, toServer, outcome>>

\* PART, and KICK with the nick of the one who has to go.
PartHook ==
  /\ Reading("PART")
  /\ users' = [FindUser(users, Got.nick) EXCEPT ![Got.nick].there = FALSE]
  /\ UNCHANGED <<self, toServer, outcome>>

\* Mutant: whoever quits is deleted.
QuitHookAny ==
  /\ Reading("QUIT")
  /\ users' = [users EXCEPT ![Got.nick] = NoUser]
  /\ UNCHANGED <<self, toServer, outcome>>

\* A user without flags is deleted, with its queue.
QuitHook ==
  /\ Reading("QUIT")
  /\ LET t == FindUser(users, Got.nick)
     IN users' = IF t[Got.nick].flags = {} THEN [t EXCEPT ![Got.nick] = NoUser]
                 ELSE [t EXCEPT ![Got.nick].there = FALSE]
  /\ UNCHANGED <<self, toServer, outcome>>

PrivmsgHook ==
  /\ Reading("PRIVMSG")
  /\ PrivmsgPrint(FindUser(users, Got.nick), Got.nick, Got.what)
  /\ UNCHANGED <<self, toServer>>

\* The end of the connection is read: irc_reconnect makes a new one, with a
\* user of its own; hash_insert wants to be the first with the key.
Reconnect ==
  /\ outcome = "running"
  /\ ~up /\ toClient = <<>>
  /\ IF users[DefaultNick] # NoUser
     THEN /\ outcome' = "duplicate"
          /\ UNCHANGED <<users, self, up, toServer, mishaps>>
     ELSE /\ users' = [users EXCEPT ![DefaultNick] =
                                      [NewUser EXCEPT !.flags = {"self"}]]
          /\ self' = [key |-> DefaultNick, name |-> DefaultNick]
          /\ up' = TRUE
          /\ toServer' = <<Line("NICK", DefaultNick)>> \o
                         (IF channel = "none" THEN <<>> ELSE <<Line("JOIN", Nil)>>)
          /\ mishaps' = {}
          /\ UNCHANGED outcome
  /\ UNCHANGED <<channel, toClient, nickOf, members, typed, deeds>>

ClientReads ==
  \/ NickHook \/ BadNick \/ JoinHook \/ NamesHook \/ PartHook \/ QuitHook
  \/ PrivmsgHook \/ Reconnect

-----------------------------------------------------------------------------
(* The user types a command.                                               *)

Typing ==
  /\ outcome = "running"
  /\ typed < MaxTyped
  /\ typed' = typed + 1
  /\ UNCHANGED <<up, toClient, server, deeds>>

NickCommand(n) ==
  /\ Typing
  /\ self' = Snick(self, n)
  /\ toServer' = Write(<<Line("NICK", n)>>)
  /\ mishaps' = IF up /\ nickOf[Me] = Nil THEN mishaps \cup {"early"} ELSE mishaps
  /\ UNCHANGED <<users, channel, outcome>>

JoinCommand ==
  /\ Typing
  /\ channel' = "shown"
  /\ toServer' = Write(<<Line("JOIN", Nil)>>)
  /\ UNCHANGED <<users, self, outcome, mishaps>>

PartCommand ==
  /\ Typing
  /\ channel # "none"
  /\ channel' = "parted"
  /\ toServer' = Write(<<Line("PART", Nil)>>)
  /\ UNCHANGED <<users, self, outcome, mishaps>>

\* msg_hook asserts that the user it finds under the name of the connection's
\* user is that one.
MsgCommand(n) ==
  /\ Typing
  /\ LET t == FindUser(users, self.name)
     IN IF "self" \in t[self.name].flags THEN PrivmsgPrint(t, self.name, n)
        ELSE users' = t /\ outcome' = "not self"
  /\ UNCHANGED <<self, channel, toServer, mishaps>>

\* irc_say, to the active channel.
Say ==
  /\ Typing
  /\ channel = "shown"
  /\ PrivmsgPrint(FindUser(users, self.name), self.name, Channel)
  /\ UNCHANGED <<self, channel, toServer, mishaps>>

\* The user that find_user finds or makes.
Found(n) == FindUser(users, n)[n]

\* A command that finds the user n and sets one of its fields.
SetUser(n, u) ==
  /\ Typing
  /\ users' = [users EXCEPT ![n] = u]
  /\ UNCHANGED <<self, channel, toServer, outcome, mishaps>>

Ignore(n) == SetUser(n, [Found(n) EXCEPT !.flags = @ \cup {"ignore"}])
Unignore(n) == SetUser(n, [Found(n) EXCEPT !.flags = @ \ {"ignore"}])
Queue(n) == SetUser(n, [Found(n) EXCEPT !.queue = TRUE])
Unqueue(n) == SetUser(n, [Found(n) EXCEPT !.queue = FALSE])

Command ==
  \/ JoinCommand \/ PartCommand \/ Say
  \/ \E n \in Nick :
       \/ NickCommand(n) \/ MsgCommand(n)
       \/ Ignore(n) \/ Unignore(n) \/ Queue(n) \/ Unqueue(n)

-----------------------------------------------------------------------------
(* The server.                                                             *)

Registered == nickOf[Me] # Nil

Taken(n, p) == \E q \in Person \ {p} : nickOf[q] = n

\* What the server writes to the client, if it writes to it at all.
Tell(told, more) == toClient' = IF told THEN toClient \o more ELSE toClient

Change(p, n) == [cmd |-> "NICK", nick |-> nickOf[p], what |-> n]

\* Those with '@' or '+' may be any.
Names(all, plain) == [cmd |-> "353", names |-> all, plain |-> plain]

Serving(c) ==
  /\ up
  /\ toServer # <<>>
  /\ Head(toServer).cmd = c
  /\ toServer' = Tail(toServer)
  /\ UNCHANGED <<table, up, outcome, typed, deeds>>

ServeNick ==
  /\ Serving("NICK")
  /\ LET n == Head(toServer).nick
     IN IF Taken(n, Me)
        THEN /\ Tell(TRUE, <<Line("433", n)>>)
             /\ mishaps' = IF Registered THEN mishaps \cup {"refused"} ELSE mishaps
             /\ UNCHANGED nickOf
        ELSE /\ nickOf' = [nickOf EXCEPT ![Me] = n]
             /\ Tell(Registered /\ nickOf[Me] # n, <<Change(Me, n)>>)
             /\ UNCHANGED mishaps
  /\ UNCHANGED members

\* To a client without a nick the server does not listen.
ServeJoin ==
  /\ Serving("JOIN")
  /\ LET all == {nickOf[p] : p \in members \cup {Me}}
         joined == Registered /\ Me \notin members
     IN /\ members' = IF joined THEN members \cup {Me} ELSE members
        /\ \E plain \in {{nickOf[Me]}, all} :
             Tell(joined, <<Line("JOIN", nickOf[Me]), Names(all, plain)>>)
  /\ UNCHANGED <<nickOf, mishaps>>

ServePart ==
  /\ Serving("PART")
  /\ members' = members \ {Me}
  /\ Tell(Me \in members, <<Line("PART", nickOf[Me])>>)
  /\ UNCHANGED <<nickOf, mishaps>>

ServerReads == ServeNick \/ ServeJoin \/ ServePart

-----------------------------------------------------------------------------
(* The others, and the network.                                            *)

Acting ==
  /\ outcome = "running"
  /\ deeds < MaxDeeds
  /\ deeds' = deeds + 1
  /\ UNCHANGED <<table, mishaps, outcome, typed>>

Sees(p) == {p, Me} \subseteq members

\* p comes to the network, and to the channel.
Comes(p, n) ==
  /\ Acting
  /\ nickOf[p] = Nil /\ ~Taken(n, p)
  /\ nickOf' = [nickOf EXCEPT ![p] = n]
  /\ members' = members \cup {p}
  /\ Tell(Me \in members, <<Line("JOIN", n)>>)
  /\ UNCHANGED <<up, toServer>>

Renames(p, n) ==
  /\ Acting
  /\ nickOf[p] \notin {Nil, n} /\ ~Taken(n, p)
  /\ nickOf' = [nickOf EXCEPT ![p] = n]
  /\ Tell(Sees(p), <<Change(p, n)>>)
  /\ UNCHANGED <<members, up, toServer>>

\* p leaves the channel, or is kicked.
Leaves(p) ==
  /\ Acting
  /\ p \in members
  /\ members' = members \ {p}
  /\ Tell(Sees(p), <<Line("PART", nickOf[p])>>)
  /\ UNCHANGED <<nickOf, up, toServer>>

Quits(p) ==
  /\ Acting
  /\ nickOf[p] # Nil
  /\ nickOf' = [nickOf EXCEPT ![p] = Nil]
  /\ members' = members \ {p}
  /\ Tell(Sees(p), <<Line("QUIT", nickOf[p])>>)
  /\ UNCHANGED <<up, toServer>>

\* p speaks in the channel, or to the user.
Speaks(p) ==
  /\ Acting
  /\ nickOf[p] # Nil /\ Registered
  /\ \E dest \in {nickOf[Me]} \cup (IF Sees(p) THEN {Channel} ELSE {}) :
       Tell(TRUE, <<[cmd |-> "PRIVMSG", nick |-> nickOf[p], what |-> dest]>>)
  /\ UNCHANGED <<nickOf, members, up, toServer>>

\* The connection ends; some servers send the one they drop its own QUIT.
Drops ==
  /\ Acting
  /\ up
  /\ up' = FALSE
  /\ toServer' = <<>>
  /\ nickOf' = [nickOf EXCEPT ![Me] = Nil]
  /\ members' = members \ {Me}
  /\ \E told \in BOOLEAN : Tell(told /\ Registered, <<Line("QUIT", nickOf[Me])>>)

Deed ==
  \/ Drops
  \/ \E p \in Other :
       \/ Leaves(p) \/ Quits(p) \/ Speaks(p)
       \/ \E n \in Nick : Comes(p, n) \/ Renames(p, n)

\* The program has connected; the others are not there yet.
Init ==
  /\ users = [n \in Nick |-> IF n = DefaultNick
                             THEN [NewUser EXCEPT !.flags = {"self"}] ELSE NoUser]
  /\ self = [key |-> DefaultNick, name |-> DefaultNick]
  /\ channel = "none"
  /\ up = TRUE
  /\ toServer = <<Line("NICK", DefaultNick)>>
  /\ toClient = <<>>
  /\ nickOf = [p \in Person |-> Nil]
  /\ members = {}
  /\ mishaps = {}
  /\ outcome = "running"
  /\ typed = 0 /\ deeds = 0

Next == ClientReads \/ Command \/ ServerReads \/ Deed

Spec == Init /\ [][Next]_vars

FairSpec == Spec /\ WF_vars(ClientReads) /\ WF_vars(ServerReads)

-----------------------------------------------------------------------------
(* Properties.                                                             *)

TypeOK ==
  /\ users \in [Nick -> User \cup {NoUser}]
  /\ self \in [key : Nick \cup {Unlinked}, name : Nick]
  /\ channel \in {"none", "shown", "parted"}
  /\ up \in BOOLEAN
  /\ \A x \in Range(toServer) : x.cmd \in {"NICK", "JOIN", "PART"}
  /\ \A x \in Range(toClient) :
       x.cmd \in {"NICK", "433", "JOIN", "353", "PART", "QUIT", "PRIVMSG"}
  /\ nickOf \in [Person -> Nick \cup {Nil}]
  /\ members \subseteq {p \in Person : nickOf[p] # Nil}
  /\ mishaps \subseteq Mishap
  /\ outcome \in {"running", "overflow", "duplicate", "not self"}
  /\ typed \in 0..MaxTyped /\ deeds \in 0..MaxDeeds

\* The user of the connection is never freed under serv->user, however nicks
\* change hands and whoever quits: it is in the hash under its key, marked as
\* the program's own, or it was taken out of the hash and left alone.
SelfKept == self.key # Unlinked => users[self.key] # NoUser /\ Is(self.key, "self")

\* Client and server have nothing left to say to one another.
Settled == up /\ outcome = "running" /\ toServer = <<>> /\ toClient = <<>>

\* Whatever nicks were asked for, refused, taken and given up in the meantime,
\* once all lines are read the client takes itself for who it is to the server,
\* unless it ran out of nicks to try.  Only a nick that the user asks for before
\* the first one is settled may make it mistake the others' changes for its own.
SameNick == Settled /\ Registered /\ "early" \notin mishaps => self.name \in {nickOf[Me], LastNick}

\* Once its lines are read a client in the channel knows everyone there, under
\* the nick they have now, unless it was refused a nick while it had another:
\* then it renames whoever has that nick.
Roster ==
  up /\ outcome = "running" /\ toClient = <<>> /\ Me \in members /\ mishaps = {} =>
    \A p \in members : users[nickOf[p]] # NoUser /\ users[nickOf[p]].there

\* A client that is connected gets a nick in the end, although others may take
\* the ones it asks for, unless it runs out of nicks or stops.
GetsNick ==
  [](up => <>(Registered \/ ~up \/ outcome # "running" \/ self.name = LastNick))

\* irc_input.c:135 asserts, of the user that msg_hook finds under the name of
\* the connection's own user: assert(u->flags & USER_IS_SELF).
MsgFromSelf == outcome # "not self"
=============================================================================
