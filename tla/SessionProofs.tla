--------------------------- MODULE SessionProofs ---------------------------
(***************************************************************************)
(* The safety of Session for any people, nicks, commands and deeds.         *)
(*                                                                         *)
(* What the client believes lags behind what the server knows by the lines  *)
(* on their way.  The invariant therefore speaks of what the client will    *)
(* believe when it has read them: the lines are applied, one after the      *)
(* other, to the key of the connection's user (KeyEffect) and to the nicks  *)
(* it takes to be in the channel (ThereEffect).  The server's next line is  *)
(* applied behind them, and the client's reading one takes the first off.   *)
(***************************************************************************)
EXTENDS Session, ListsProofs

Table == [Nick -> User \cup {NoUser}]

Self == [key : Nick \cup {Unlinked}, name : Nick]

Key == Nick \cup {Unlinked}

\* The lines of the server.
Told ==
  [cmd : {"NICK"}, nick : Nick, what : Nick]
  \cup [cmd : {"433", "JOIN", "PART", "QUIT"}, nick : Nick]
  \cup [cmd : {"353"}, names : SUBSET Nick, plain : SUBSET Nick]
  \cup [cmd : {"PRIVMSG"}, nick : Nick, what : Nick \cup {Channel}]

\* The lines of the client.
Asked == [cmd : {"NICK"}, nick : Nick] \cup [cmd : {"JOIN", "PART"}, nick : {Nil}]

\* The user of the connection is in the table, under its key.
Kept(t, s) == s.key # Unlinked => t[s.key] # NoUser /\ "self" \in t[s.key].flags

\* The nicks the table says are in the channel.
There(t) == {n \in Nick : t[n] # NoUser /\ t[n].there}

\* The key k when the user under old gets the nick new.
Rekeyed(k, old, new) == IF k = old THEN new ELSE IF k = new THEN Unlinked ELSE k

Moved(ns, old, new) == (ns \ {old, new}) \cup (IF old \in ns THEN {new} ELSE {})

Refuses(x) == x.cmd = "433" /\ x.nick # LastNick

KeyAfter(k, x) ==
  IF x.cmd = "NICK" THEN Rekeyed(k, x.nick, x.what)
  ELSE IF Refuses(x) THEN Rekeyed(k, x.nick, x.nick + 1)
  ELSE k

ThereAfter(ns, x) ==
  CASE x.cmd = "NICK"             -> Moved(ns, x.nick, x.what)
    [] Refuses(x)                 -> Moved(ns, x.nick, x.nick + 1)
    [] x.cmd = "JOIN"             -> ns \cup {x.nick}
    [] x.cmd = "353"              -> ns \cup x.names
    [] x.cmd \in {"PART", "QUIT"} -> ns \ {x.nick}
    [] OTHER                      -> ns

KeyEffect == [x \in Told |-> [k \in Key |-> KeyAfter(k, x)]]

ThereEffect == [x \in Told |-> [ns \in SUBSET Nick |-> ThereAfter(ns, x)]]

\* After the lines tc the key has been K[Len(tc)], the nicks T[Len(tc)].
Keys(K, tc, k) == Passes(K, tc, Key, k, KeyEffect)

Theres(T, tc, ns) == Passes(T, tc, SUBSET Nick, ns, ThereEffect)

-----------------------------------------------------------------------------
(* The parts of the inductive invariant.                                   *)

LinesOK == toServer \in Seq(Asked) /\ toClient \in Seq(Told)

NicksOK == \A p, q \in Person : p # q => nickOf[p] = Nil \/ nickOf[p] # nickOf[q]

DownOK == ~up => ~Registered /\ toServer = <<>>

ChannelOK ==
  channel = "none" =>
    Me \notin members /\ \A i \in DOMAIN toServer : toServer[i].cmd # "JOIN"

\* Line i asks the server for a nick; it is the last one that does.
Asks(ts, i) == i \in DOMAIN ts /\ ts[i].cmd = "NICK"

AsksLast(ts, i) == Asks(ts, i) /\ \A j \in DOMAIN ts : Asks(ts, j) => j <= i

NoneAsks(ts) == \A i \in DOMAIN ts : ~Asks(ts, i)

\* Before the server has accepted a nick there is one request on its way, or its
\* refusal, or the client gave up.
StartOK ==
  up /\ ~Registered /\ "early" \notin mishaps =>
    /\ self.key = self.name
    /\ \/ /\ toClient = <<>>
          /\ \E i : /\ Asks(toServer, i) /\ toServer[i].nick = self.name
                   /\ \A j : Asks(toServer, j) => j = i
       \/ NoneAsks(toServer) /\ toClient = <<Line("433", self.name)>>
       \/ NoneAsks(toServer) /\ toClient = <<>> /\ self.name = LastNick

\* Line i is the acceptance of a nick of the client's own.
Own(K, tc, i) ==
  i \in DOMAIN tc /\ tc[i].cmd = "NICK" /\ tc[i].nick = K[i - 1]

\* The name is what is asked for last, or k, the key that will be; or what the
\* server has.
Settles(ts, name, n, k) ==
  /\ \A i : AsksLast(ts, i) => name \in {ts[i].nick, k}
  /\ NoneAsks(ts) => name \in {n, LastNick}

\* To the server the client s is n.  When the lines tc are read, the key will be n,
\* or out of use.  If no refusal is among them that makes the client ask again,
\* then an acceptance is that the name will follow, or the name is settled.
Agrees(K, tc, ts, s, n) ==
  /\ Keys(K, tc, s.key)
  /\ K[Len(tc)] \in {n, Unlinked}
  /\ \A i \in DOMAIN tc : tc[i].cmd = "NICK" => tc[i].what # K[i - 1]
  /\ \/ \E i \in DOMAIN tc : Refuses(tc[i])
     \/ \E i : Own(K, tc, i)
     \/ Settles(ts, s.name, n, K[Len(tc)])

NamesOK ==
  up /\ Registered /\ "early" \notin mishaps =>
    \E K : Agrees(K, toClient, toServer, self, nickOf[Me])

\* When the lines tc are read, those of the nicks ns and more will be known.
Knows(T, tc, ns, all) == Theres(T, tc, ns) /\ all \subseteq T[Len(tc)]

\* Who is in the channel, by nick.
All == {nickOf[p] : p \in members}

\* Who is in the channel will be known to be.
RosterOK ==
  up /\ Me \in members /\ mishaps = {} => \E T : Knows(T, toClient, There(users), All)

IInv ==
  /\ TypeOK
  /\ SelfKept
  /\ LinesOK
  /\ NicksOK
  /\ DownOK
  /\ ChannelOK
  /\ StartOK
  /\ NamesOK
  /\ RosterOK

-----------------------------------------------------------------------------
(* Tables of users.                                                        *)

\* The constants.
LEMMA ConstantFacts ==
  /\ LastNick \in Nat /\ LastNick >= 1 /\ DefaultNick \in Nick
  /\ Unlinked \notin Nick /\ Nil \notin Nick /\ Channel \notin Nick
  /\ Me \notin Other /\ Me \in Person
  /\ NoUser \notin User /\ NewUser \in User
  /\ \A n \in Nick : n # LastNick => n + 1 \in Nick /\ n + 1 # n
<1>1. LastNick \in Nat /\ LastNick >= 1
  BY SessionOK
<1>2. \A n \in Nick : n \in Nat
  BY DEF Nick
<1>3. Nil \notin Nick /\ Channel \notin Nick
  BY <1>2, SessionOK
<1>4. Unlinked \notin Nick /\ DefaultNick \in Nick
  BY <1>1 DEF Nick, Unlinked, DefaultNick
<1>5. \A n \in Nick : n # LastNick => n + 1 \in Nick /\ n + 1 # n
  BY <1>1 DEF Nick
<1>6. NewUser \in User
  BY DEF NewUser, User
<1>7. QED BY <1>1, <1>3, <1>4, <1>5, <1>6, SessionOK, NoUserOK DEF Me, Person

\* find_user: the user is in the table then, and nothing else has changed.
LEMMA FindUserFacts ==
  ASSUME NEW t \in Table, NEW n \in Nick
  PROVE  /\ FindUser(t, n) \in Table
         /\ FindUser(t, n)[n] \in User
         /\ There(FindUser(t, n)) = There(t)
         /\ \A s \in Self : Kept(t, s) => Kept(FindUser(t, n), s)
<1>1. CASE t[n] # NoUser
  BY <1>1 DEF FindUser, Table
<1>2. CASE t[n] = NoUser
  <2>1. FindUser(t, n) = [t EXCEPT ![n] = NewUser]
    BY <1>2 DEF FindUser
  <2> DEFINE u == FindUser(t, n)
  <2>2. u \in Table /\ u[n] = NewUser /\ \A m \in Nick : m # n => u[m] = t[m]
    BY <2>1, ConstantFacts DEF Table
  <2> HIDE DEF u
  <2>3. There(u) = There(t)
    BY <1>2, <2>2 DEF There, NewUser
  <2>4. ASSUME NEW s \in Self, Kept(t, s) PROVE Kept(u, s)
    BY <1>2, <2>2, <2>4 DEF Kept, Self
  <2>5. QED BY <2>2, <2>3, <2>4, ConstantFacts DEF u
<1>3. QED BY <1>1, <1>2

\* A user that is in the table is given other fields: the table's, the channel's
\* and the program's own users stay, if those fields do not say so.
LEMMA ReplaceFacts ==
  ASSUME NEW t \in Table, NEW n \in Nick, NEW u \in User
  PROVE  /\ [t EXCEPT ![n] = u] \in Table
         /\ There([t EXCEPT ![n] = u]) = IF u.there THEN There(t) \cup {n} ELSE There(t) \ {n}
         /\ \A s \in Self : Kept(t, s) /\ ("self" \in u.flags \/ s.key # n)
                              => Kept([t EXCEPT ![n] = u], s)
<1> DEFINE v == [t EXCEPT ![n] = u]
<1>1. v \in Table /\ v[n] = u /\ \A m \in Nick : m # n => v[m] = t[m]
  BY DEF Table
<1> HIDE DEF v
<1>2. u # NoUser
  BY ConstantFacts
<1>3. There(v) = IF u.there THEN There(t) \cup {n} ELSE There(t) \ {n}
  BY <1>1, <1>2 DEF There
<1>4. ASSUME NEW s \in Self, Kept(t, s), "self" \in u.flags \/ s.key # n
      PROVE  Kept(v, s)
  BY <1>1, <1>2, <1>4 DEF Kept, Self
<1>5. QED BY <1>1, <1>3, <1>4 DEF v

\* recv_nick: the user goes to the new nick; whoever was there is taken out, be it
\* the user of the connection.
LEMMA RecvNickFacts ==
  ASSUME NEW t \in Table, NEW k \in Nick, NEW n \in Nick, t[k] \in User
  PROVE  /\ RecvNick(t, k, n) \in Table
         /\ There(RecvNick(t, k, n)) = Moved(There(t), k, n)
         /\ \A s \in Self :
              /\ SelfNick(s, k, n) \in Self
              /\ SelfNick(s, k, n).key = Rekeyed(s.key, k, n)
              /\ SelfNick(s, k, n).name = IF s.key = k THEN n ELSE s.name
              /\ Kept(t, s) => Kept(RecvNick(t, k, n), SelfNick(s, k, n))
<1> DEFINE r == RecvNick(t, k, n)
<1>1. /\ r \in Table /\ r[n] = t[k]
      /\ \A m \in Nick : m # n => r[m] = IF m = k THEN NoUser ELSE t[m]
  BY DEF RecvNick, Table
<1> HIDE DEF r
<1>2. t[k] # NoUser
  BY ConstantFacts
<1>3. There(r) = Moved(There(t), k, n)
  BY <1>1, <1>2 DEF There, Moved
<1>4. ASSUME NEW s \in Self
      PROVE  /\ SelfNick(s, k, n) \in Self
             /\ SelfNick(s, k, n).key = Rekeyed(s.key, k, n)
             /\ SelfNick(s, k, n).name = IF s.key = k THEN n ELSE s.name
             /\ Kept(t, s) => Kept(r, SelfNick(s, k, n))
  <2>1. CASE s.key = k
    <3>1. SelfNick(s, k, n) = [key |-> n, name |-> n]
      BY <2>1 DEF SelfNick
    <3>2. k # Unlinked
      BY ConstantFacts
    <3>3. Kept(t, s) => Kept(r, SelfNick(s, k, n))
      BY <1>1, <1>2, <2>1, <3>1, <3>2 DEF Kept
    <3>4. QED BY <2>1, <3>1, <3>3 DEF Self, Rekeyed
  <2>2. CASE s.key # k /\ s.key = n
    BY <2>2 DEF SelfNick, Self, Rekeyed, Kept, Unlinked
  <2>3. CASE s.key # k /\ s.key # n
    BY <1>1, <2>3 DEF SelfNick, Self, Rekeyed, Kept
  <2>4. QED BY <2>1, <2>2, <2>3
<1>5. QED BY <1>1, <1>3, <1>4 DEF r

\* privmsg_print: what was queued for the user may be gone, and users it looks for
\* are made.
LEMMA PrintedFacts ==
  ASSUME NEW t \in Table, NEW u \in Nick, t[u] \in User, NEW dest \in Nick \cup {Channel},
         self \in Self
  PROVE  /\ Printed(t, u, dest) \in Table
         /\ There(Printed(t, u, dest)) = There(t)
         /\ \A s \in Self : Kept(t, s) => Kept(Printed(t, u, dest), s)
<1> DEFINE seen == IF dest = Channel THEN t ELSE FindUser(t, dest)
           found == FindUser(seen, self.name)
           sent == [found[u] EXCEPT !.queue = FALSE]
<1>1. /\ seen \in Table /\ There(seen) = There(t) /\ seen[u] \in User
      /\ \A s \in Self : Kept(t, s) => Kept(seen, s)
  <2>1. CASE dest = Channel
    BY <2>1
  <2>2. CASE dest # Channel
    <3>1. dest \in Nick
      BY <2>2
    <3>2. FindUser(t, dest)[u] \in User
      BY <3>1, FindUserFacts, ConstantFacts DEF FindUser, Table
    <3>3. QED BY <2>2, <3>1, <3>2, FindUserFacts
  <2>3. QED BY <2>1, <2>2
<1> HIDE DEF seen
<1>2. self.name \in Nick
  BY DEF Self
<1>3. /\ found \in Table /\ There(found) = There(seen)
      /\ \A s \in Self : Kept(seen, s) => Kept(found, s)
  BY <1>1, <1>2, FindUserFacts
<1>4. found[u] \in User
  BY <1>1, <1>2, ConstantFacts DEF FindUser, Table
<1> HIDE DEF found
<1>5. sent \in User /\ sent.there = found[u].there /\ sent.flags = found[u].flags
  BY <1>4 DEF User
<1>6. [found EXCEPT ![u].queue = FALSE] = [found EXCEPT ![u] = sent]
  BY <1>3, <1>4 DEF Table
<1> HIDE DEF sent
<1> DEFINE v == [found EXCEPT ![u] = sent]
<1>7. v \in Table /\ There(v) = There(found)
  <2>1. v \in Table /\ There(v) = IF sent.there THEN There(found) \cup {u} ELSE There(found) \ {u}
    BY <1>3, <1>5, ReplaceFacts
  <2>2. u \in There(found) <=> sent.there
    BY <1>4, <1>5, ConstantFacts DEF There
  <2> HIDE DEF v
  <2>3. QED BY <2>1, <2>2
<1>8. ASSUME NEW s \in Self, Kept(found, s) PROVE Kept(v, s)
  <2>1. s.key # u \/ (s.key = u /\ u # Unlinked)
    BY ConstantFacts
  <2>2. s.key = u => "self" \in sent.flags
    BY <1>5, <1>8, <2>1 DEF Kept
  <2>3. QED BY <1>3, <1>5, <1>8, <2>2, ReplaceFacts
<1>9. Printed(t, u, dest) \in {t, seen, v}
  BY <1>6 DEF Printed, seen, found
<1> HIDE DEF v
<1>10. QED BY <1>1, <1>3, <1>7, <1>8, <1>9

\* A user that find_user finds or makes is given other fields.
LEMMA FoundFacts ==
  ASSUME NEW t \in Table, NEW n \in Nick, NEW u \in User,
         FindUser(t, n)[n].flags \cap {"self"} \subseteq u.flags,
         NEW w, w = [FindUser(t, n) EXCEPT ![n] = u]
  PROVE  /\ w \in Table
         /\ There(w) = IF u.there THEN There(t) \cup {n} ELSE There(t) \ {n}
         /\ \A s \in Self : Kept(t, s) => Kept(w, s)
<1> DEFINE f == FindUser(t, n)
<1>1. /\ f \in Table /\ f[n] \in User /\ There(f) = There(t)
      /\ \A s \in Self : Kept(t, s) => Kept(f, s)
  BY FindUserFacts
<1> HIDE DEF f
<1> DEFINE v == [f EXCEPT ![n] = u]
<1>2. /\ v \in Table
      /\ There(v) = IF u.there THEN There(f) \cup {n} ELSE There(f) \ {n}
      /\ \A s \in Self : Kept(f, s) /\ ("self" \in u.flags \/ s.key # n) => Kept(v, s)
  BY <1>1, ReplaceFacts
<1>3. w = v
  BY DEF f
<1>4. ASSUME NEW s \in Self, Kept(t, s) PROVE s.key = n => "self" \in u.flags
  BY <1>1, <1>4, ConstantFacts DEF Kept, f
<1> HIDE DEF v
<1>5. QED BY <1>1, <1>2, <1>3, <1>4

-----------------------------------------------------------------------------
(* Lines, and what becomes of a value as they are read.                    *)

\* A line of the server.
LEMMA ToldFacts ==
  ASSUME NEW x \in Told
  PROVE  /\ x.cmd \in {"NICK", "433", "JOIN", "353", "PART", "QUIT", "PRIVMSG"}
         /\ x.cmd \in {"NICK", "PRIVMSG"} => x.nick \in Nick
         /\ x.cmd = "NICK" => x.what \in Nick
         /\ x.cmd \in {"433", "JOIN", "PART", "QUIT"} => x.nick \in Nick
         /\ x.cmd = "353" => x.names \subseteq Nick
         /\ x.cmd = "PRIVMSG" => x.what \in Nick \cup {Channel}
         /\ Refuses(x) => x.nick + 1 \in Nick /\ x.nick + 1 # x.nick
<1>1. CASE x \in [cmd : {"NICK"}, nick : Nick, what : Nick]
  BY <1>1 DEF Refuses
<1>2. CASE x \in [cmd : {"433", "JOIN", "PART", "QUIT"}, nick : Nick]
  BY <1>2, ConstantFacts DEF Refuses
<1>3. CASE x \in [cmd : {"353"}, names : SUBSET Nick, plain : SUBSET Nick]
  BY <1>3 DEF Refuses
<1>4. CASE x \in [cmd : {"PRIVMSG"}, nick : Nick, what : Nick \cup {Channel}]
  BY <1>4 DEF Refuses
<1>5. QED BY <1>1, <1>2, <1>3, <1>4 DEF Told

\* What server and client write.
LEMMA LineFacts ==
  /\ \A n \in Nick, c \in {"433", "JOIN", "PART", "QUIT"} :
       Line(c, n) \in Told /\ Line(c, n).cmd = c /\ Line(c, n).nick = n
  /\ \A n \in Nick :
       Line("NICK", n) \in Asked /\ Line("NICK", n).cmd = "NICK" /\ Line("NICK", n).nick = n
  /\ \A c \in {"JOIN", "PART"} : Line(c, Nil) \in Asked /\ Line(c, Nil).cmd = c
  /\ \A x \in Asked : x.cmd \in {"NICK", "JOIN", "PART"} /\ (x.cmd = "NICK" => x.nick \in Nick)
  BY DEF Line, Told, Asked

\* What a line does to the key, and to the nicks in the channel.
LEMMA EffectFacts ==
  /\ KeyEffect \in [Told -> [Key -> Key]]
  /\ ThereEffect \in [Told -> [SUBSET Nick -> SUBSET Nick]]
  /\ \A x \in Told, k \in Key : KeyAfter(k, x) \in Key /\ KeyEffect[x][k] = KeyAfter(k, x)
  /\ \A x \in Told, ns \in SUBSET Nick :
       ThereAfter(ns, x) \in SUBSET Nick /\ ThereEffect[x][ns] = ThereAfter(ns, x)
<1>1. ASSUME NEW x \in Told, NEW k \in Key PROVE KeyAfter(k, x) \in Key
  BY ToldFacts DEF KeyAfter, Rekeyed, Key
<1>2. ASSUME NEW x \in Told, NEW ns \in SUBSET Nick
      PROVE  ThereAfter(ns, x) \in SUBSET Nick
  BY ToldFacts DEF ThereAfter, Moved
<1>3. QED BY <1>1, <1>2 DEF KeyEffect, ThereEffect

\* The lines that ask for a nick when the first line is taken off.
LEMMA AsksTail ==
  ASSUME NEW ts \in Seq(Asked), ts # <<>>
  PROVE  /\ Head(ts) \in Asked /\ Tail(ts) \in Seq(Asked)
         /\ \A i : Asks(Tail(ts), i) =>
              Asks(ts, i + 1) /\ ts[i + 1] = Tail(ts)[i] /\ i \in Nat /\ i >= 1
         /\ \A i \in Nat : i >= 1 /\ Asks(ts, i + 1) => Asks(Tail(ts), i)
         /\ Asks(ts, 1) <=> Head(ts).cmd = "NICK"
         /\ \A i : AsksLast(Tail(ts), i) => AsksLast(ts, i + 1) /\ ts[i + 1] = Tail(ts)[i]
         /\ NoneAsks(Tail(ts)) /\ Head(ts).cmd = "NICK" => AsksLast(ts, 1)
         /\ NoneAsks(Tail(ts)) /\ Head(ts).cmd # "NICK" => NoneAsks(ts)
<1> DEFINE t == Tail(ts)
<1>1. /\ Len(ts) \in Nat /\ Len(ts) >= 1 /\ Head(ts) = ts[1] /\ ts[1] \in Asked
      /\ t \in Seq(Asked) /\ Len(t) = Len(ts) - 1
      /\ \A i \in 1..(Len(ts) - 1) : t[i] = ts[i + 1]
      /\ DOMAIN ts = 1..Len(ts) /\ DOMAIN t = 1..(Len(ts) - 1)
  BY EmptySeq, HeadTailProperties
<1> HIDE DEF t
<1>2. ASSUME NEW i, Asks(t, i)
      PROVE  Asks(ts, i + 1) /\ ts[i + 1] = t[i] /\ i \in Nat /\ i >= 1
  BY <1>1, <1>2 DEF Asks
<1>3. ASSUME NEW i \in Nat, i >= 1, Asks(ts, i + 1) PROVE Asks(t, i)
  BY <1>1, <1>3 DEF Asks
<1>4. Asks(ts, 1) <=> Head(ts).cmd = "NICK"
  BY <1>1 DEF Asks
<1>5. ASSUME NEW i, AsksLast(t, i) PROVE AsksLast(ts, i + 1) /\ ts[i + 1] = t[i]
  <2>1. Asks(ts, i + 1) /\ i \in Nat /\ i >= 1
    BY <1>2, <1>5 DEF AsksLast
  <2>2. ASSUME NEW j \in DOMAIN ts, Asks(ts, j) PROVE j <= i + 1
    <3>1. CASE j = 1
      BY <2>1, <3>1
    <3>2. CASE j # 1
      <4>1. j - 1 \in Nat /\ j - 1 >= 1 /\ (j - 1) + 1 = j
        BY <1>1, <3>2
      <4>2. Asks(t, j - 1)
        BY <1>3, <2>2, <4>1
      <4>3. j - 1 <= i
        BY <1>5, <4>2 DEF AsksLast, Asks
      <4>4. QED BY <2>1, <4>1, <4>3
    <3>3. QED BY <3>1, <3>2
  <2>3. ts[i + 1] = t[i]
    BY <1>2, <1>5 DEF AsksLast
  <2>4. QED BY <2>1, <2>2, <2>3 DEF AsksLast
<1>6. ASSUME NoneAsks(t), NEW j \in DOMAIN ts, Asks(ts, j) PROVE j = 1
  <2>1. CASE j # 1
    <3>1. j - 1 \in Nat /\ j - 1 >= 1 /\ (j - 1) + 1 = j
      BY <1>1, <2>1
    <3>2. Asks(t, j - 1)
      BY <1>3, <1>6, <3>1
    <3>3. QED BY <1>6, <3>2 DEF NoneAsks, Asks
  <2>2. QED BY <2>1
<1>7. ASSUME NoneAsks(t), Head(ts).cmd = "NICK" PROVE AsksLast(ts, 1)
  <2>1. Asks(ts, 1)
    BY <1>4, <1>7
  <2>2. QED BY <1>6, <1>7, <2>1 DEF AsksLast
<1>8. ASSUME NoneAsks(t), Head(ts).cmd # "NICK" PROVE NoneAsks(ts)
  BY <1>4, <1>6, <1>8 DEF NoneAsks
<1> HIDE DEF Asks, AsksLast, NoneAsks
<1>9. QED BY <1>1, <1>2, <1>3, <1>4, <1>5, <1>7, <1>8 DEF t

\* The lines that ask for a nick when a line is written.
LEMMA AsksAppend ==
  ASSUME NEW ts \in Seq(Asked), NEW x \in Asked
  PROVE  /\ Append(ts, x) \in Seq(Asked)
         /\ x.cmd = "NICK" => /\ ~NoneAsks(Append(ts, x))
                              /\ \A i : AsksLast(Append(ts, x), i) => Append(ts, x)[i] = x
                              /\ Asks(Append(ts, x), Len(ts) + 1)
                              /\ Append(ts, x)[Len(ts) + 1] = x
                              /\ NoneAsks(ts) =>
                                   \A i : Asks(Append(ts, x), i) => i = Len(ts) + 1
         /\ x.cmd # "NICK" => /\ \A i : Asks(Append(ts, x), i) <=> Asks(ts, i)
                              /\ \A i : AsksLast(Append(ts, x), i) => AsksLast(ts, i)
                              /\ NoneAsks(Append(ts, x)) <=> NoneAsks(ts)
         /\ \A i : Asks(ts, i) => Append(ts, x)[i] = ts[i]
<1> DEFINE t == Append(ts, x)
           l == Len(ts)
<1>1. /\ l \in Nat /\ DOMAIN ts = 1..l /\ DOMAIN t = 1..(l + 1)
      /\ t \in Seq(Asked) /\ t # <<>>
      /\ \A i \in 1..l : t[i] = ts[i]
      /\ t[l + 1] = x
  BY AppendProperties
<1> HIDE DEF t, l
<1>3. \A i : Asks(ts, i) => Asks(t, i) /\ t[i] = ts[i] /\ i \in 1..l
  BY <1>1 DEF Asks
<1>4. \A i : Asks(t, i) => i \in 1..(l + 1) /\ (i # l + 1 => Asks(ts, i))
  BY <1>1 DEF Asks
<1>5. Asks(t, l + 1) <=> x.cmd = "NICK"
  BY <1>1 DEF Asks
<1>6. ASSUME x.cmd = "NICK"
      PROVE  /\ ~NoneAsks(t)
             /\ \A i : AsksLast(t, i) => t[i] = x
             /\ NoneAsks(ts) => \A i : Asks(t, i) => i = l + 1
  <2>1. ~NoneAsks(t)
    BY <1>5, <1>6 DEF NoneAsks, Asks
  <2>2. ASSUME NEW i, AsksLast(t, i) PROVE t[i] = x
    <3>1. l + 1 <= i /\ i \in 1..(l + 1)
      BY <1>4, <1>5, <1>6, <2>2 DEF AsksLast, Asks
    <3>2. QED BY <1>1, <3>1
  <2>3. NoneAsks(ts) => \A i : Asks(t, i) => i = l + 1
    BY <1>3, <1>4 DEF NoneAsks, Asks
  <2>4. QED BY <2>1, <2>2, <2>3
<1>7. ASSUME x.cmd # "NICK"
      PROVE  /\ \A i : Asks(t, i) <=> Asks(ts, i)
             /\ \A i : AsksLast(t, i) => AsksLast(ts, i)
             /\ NoneAsks(t) <=> NoneAsks(ts)
  <2>1. \A i : Asks(t, i) <=> Asks(ts, i)
    BY <1>3, <1>4, <1>5, <1>7
  <2>2. \A i : (Asks(t, i) => i \in DOMAIN t) /\ (Asks(ts, i) => i \in DOMAIN ts)
    BY DEF Asks
  <2>3. QED BY <2>1, <2>2 DEF AsksLast, NoneAsks
<1>8. QED BY <1>1, <1>3, <1>5, <1>6, <1>7 DEF t, l

\* If no line is refused, and none is about the key, the key stays.
LEMMA Steady ==
  ASSUME NEW tc \in Seq(Told), NEW k \in Key, NEW K, Keys(K, tc, k),
         \A i \in DOMAIN tc :
           /\ ~Refuses(tc[i]) /\ ~Own(K, tc, i)
           /\ tc[i].cmd = "NICK" => tc[i].what # K[i - 1]
  PROVE  K[Len(tc)] = k
<1> DEFINE N == Len(tc)
           T == {i \in 0..N : K[i] = k}
<1>1. /\ N \in Nat /\ DOMAIN tc = 1..N /\ \A i \in 1..N : tc[i] \in Told
      /\ K[0] = k /\ \A i \in 1..N : K[i] = KeyEffect[tc[i]][K[i - 1]]
  BY DEF Keys, Passes
<1>2. ASSUME NEW i \in 1..N, i - 1 \in T PROVE i \in T
  <2>1. K[i - 1] = k /\ i \in 0..N /\ tc[i] \in Told
    BY <1>1, <1>2
  <2>2. K[i] = KeyAfter(k, tc[i])
    BY <1>1, <2>1, EffectFacts
  <2>3. /\ ~Refuses(tc[i])
        /\ tc[i].cmd = "NICK" => tc[i].nick # k /\ tc[i].what # k
    BY <1>1, <2>1 DEF Own
  <2>4. KeyAfter(k, tc[i]) = k
    BY <2>3 DEF KeyAfter, Rekeyed
  <2>5. QED BY <2>1, <2>2, <2>4
<1>3. 0 \in T
  BY <1>1
<1>4. 0..N \subseteq T
  <2> HIDE DEF T, N
  <2>1. QED BY <1>1, <1>2, <1>3, Induction
<1>5. QED BY <1>1, <1>4

\* The name of s when the line x has been read, and what the client then writes.
NameAfter(s, x) ==
  IF x.cmd = "NICK" /\ x.nick = s.key THEN x.what
  ELSE IF Refuses(x) THEN x.nick + 1
  ELSE s.name

AskedAfter(ts, x) == IF Refuses(x) THEN Append(ts, Line("NICK", x.nick + 1)) ELSE ts

\* Client and server agree as before when a line has been read.
LEMMA AgreesRead ==
  ASSUME NEW tc \in Seq(Told), tc # <<>>, NEW ts \in Seq(Asked), NEW n \in Nick,
         NEW s \in Self, NEW K, Agrees(K, tc, ts, s, n),
         NEW s2 \in Self, s2.key = KeyAfter(s.key, Head(tc)),
         s2.name = NameAfter(s, Head(tc))
  PROVE  \E K2 : Agrees(K2, Tail(tc), AskedAfter(ts, Head(tc)), s2, n)
<1> DEFINE N == Len(tc)
           x == Head(tc)
           t == Tail(tc)
           a == AskedAfter(ts, x)
           L == [i \in 0..(N - 1) |-> K[i + 1]]
<1>1. /\ N \in Nat /\ N >= 1 /\ x = tc[1] /\ x \in Told /\ s.key \in Key
      /\ t \in Seq(Told) /\ Len(t) = N - 1
      /\ \A i \in 1..(N - 1) : t[i] = tc[i + 1]
      /\ DOMAIN tc = 1..N /\ DOMAIN t = 1..(N - 1)
  BY EmptySeq, HeadTailProperties DEF Self, Key
<1>2. /\ Keys(K, tc, s.key) /\ K[0] = s.key
      /\ K[N] \in {n, Unlinked}
      /\ \A i \in DOMAIN tc : tc[i].cmd = "NICK" => tc[i].what # K[i - 1]
      /\ \/ \E i \in DOMAIN tc : Refuses(tc[i])
         \/ \E i : Own(K, tc, i)
         \/ Settles(ts, s.name, n, K[N])
  BY DEF Agrees, Keys, Passes
<1>3. K[1] = s2.key /\ Keys(L, t, s2.key)
  <2>1. Passes(K, tc, Key, s.key, KeyEffect)
    BY <1>2 DEF Keys
  <2>2. K[1] = KeyEffect[x][s.key] /\ Passes(L, t, Key, K[1], KeyEffect)
    BY <2>1, PassTail
  <2>3. K[1] = s2.key
    BY <1>1, <2>2, EffectFacts
  <2>4. QED BY <2>2, <2>3 DEF Keys
<1>4. L[N - 1] = K[N] /\ \A i \in 1..(N - 1) : L[i - 1] = K[(i + 1) - 1]
  BY <1>1
<1> HIDE DEF L, t, x, N
<1>5. \A i \in DOMAIN t : t[i].cmd = "NICK" => t[i].what # L[i - 1]
  <2> SUFFICES ASSUME NEW i \in 1..(N - 1), t[i].cmd = "NICK" PROVE t[i].what # L[i - 1]
    BY <1>1
  <2>1. i + 1 \in DOMAIN tc /\ t[i] = tc[i + 1] /\ L[i - 1] = K[(i + 1) - 1]
    BY <1>1, <1>4
  <2>2. QED BY <1>2, <2>1
<1>6. \A i \in 1..N : i # 1 => i - 1 \in DOMAIN t /\ tc[i] = t[i - 1] /\ K[i - 1] = L[i - 2]
  <2> SUFFICES ASSUME NEW i \in 1..N, i # 1
               PROVE  i - 1 \in DOMAIN t /\ tc[i] = t[i - 1] /\ K[i - 1] = L[i - 2]
    OBVIOUS
  <2>1. i - 1 \in 1..(N - 1) /\ (i - 1) + 1 = i /\ (i - 1) - 1 = i - 2
    BY <1>1
  <2>2. QED BY <1>1, <1>4, <2>1
<1>7. ASSUME NEW i, Own(K, tc, i), i # 1 PROVE \E j : Own(L, t, j)
  <2>1. i \in 1..N /\ i - 1 \in DOMAIN t /\ tc[i] = t[i - 1] /\ K[i - 1] = L[(i - 1) - 1]
    BY <1>1, <1>6, <1>7 DEF Own
  <2>2. Own(L, t, i - 1)
    BY <1>7, <2>1 DEF Own
  <2>3. QED BY <2>2
<1>8. SUFFICES \/ \E i \in DOMAIN t : Refuses(t[i])
               \/ \E i : Own(L, t, i)
               \/ Settles(a, s2.name, n, L[N - 1])
  <2>1. Agrees(L, t, a, s2, n)
    BY <1>1, <1>2, <1>3, <1>4, <1>5, <1>8 DEF Agrees
  <2>2. QED BY <2>1 DEF t, a, x
<1>9. CASE Refuses(x)
  <2> DEFINE y == Line("NICK", x.nick + 1)
  <2>1. y \in Asked /\ y.cmd = "NICK" /\ y.nick = x.nick + 1
    BY <1>1, <1>9, ToldFacts, LineFacts
  <2>2. s2.name = y.nick
    BY <1>9, <2>1 DEF NameAfter, Refuses, x
  <2>3. a = Append(ts, y)
    BY <1>9 DEF AskedAfter
  <2> HIDE DEF a, y
  <2>4. ~NoneAsks(a) /\ \A i : AsksLast(a, i) => a[i] = y
    BY <2>1, <2>3, AsksAppend, ZenonT(30)
  <2>5. Settles(a, s2.name, n, L[N - 1])
    BY <2>2, <2>4 DEF Settles
  <2>6. QED BY <2>5
<1>10. CASE ~Refuses(x) /\ \E i \in DOMAIN tc : Refuses(tc[i])
  BY <1>1, <1>6, <1>10
<1>11. CASE (\A i \in DOMAIN tc : ~Refuses(tc[i])) /\ ~\E i : Own(L, t, i)
  <2>1. a = ts /\ ~Refuses(x)
    BY <1>1, <1>11 DEF AskedAfter
  <2>2. CASE Own(K, tc, 1)
    <3>1. x.cmd = "NICK" /\ x.nick = s.key
      BY <1>1, <1>2, <2>2 DEF Own
    <3>2. s2.name = x.what /\ s2.key = x.what /\ x.what \in Nick
      BY <1>1, <3>1, ToldFacts DEF NameAfter, KeyAfter, Rekeyed, x
    <3>3. ASSUME NEW i \in 1..(N - 1) PROVE ~Refuses(t[i])
      <4>1. i + 1 \in DOMAIN tc /\ t[i] = tc[i + 1]
        BY <1>1
      <4>2. QED BY <1>11, <4>1
    <3>4. s2.key \in Key
      BY DEF Self, Key
    <3>5. L[Len(t)] = s2.key
      BY <1>1, <1>3, <1>5, <1>11, <3>3, <3>4, Steady
    <3>6. s2.name = n /\ s2.name = L[N - 1]
      BY <1>1, <1>2, <1>4, <3>2, <3>5, ConstantFacts
    <3>7. Settles(a, s2.name, n, L[N - 1])
      BY <3>6 DEF Settles
    <3>8. QED BY <3>7
  <2>3. CASE ~Own(K, tc, 1)
    <3>1. ~\E i : Own(K, tc, i)
      BY <1>7, <1>11, <2>3
    <3>2. Settles(ts, s.name, n, K[N])
      BY <1>2, <1>11, <3>1
    <3>3. ~(x.cmd = "NICK" /\ x.nick = s.key)
      BY <1>1, <1>2, <2>3 DEF Own
    <3>4. s2.name = s.name
      BY <2>1, <3>3 DEF NameAfter, x
    <3>5. QED BY <1>4, <2>1, <3>2, <3>4
  <2>4. QED BY <2>2, <2>3
<1>12. QED BY <1>1, <1>9, <1>10, <1>11

\* Client and server agree when the server writes a line, and when it has read one.
LEMMA AgreesAdd ==
  ASSUME NEW tc \in Seq(Told), NEW ts, NEW ts2, NEW n \in Nick, NEW n2 \in Nick,
         NEW s \in Self, NEW K, Agrees(K, tc, ts, s, n), NEW x \in Told,
         \A k \in {n, Unlinked} :
           /\ KeyAfter(k, x) \in {n2, Unlinked}
           /\ x.cmd = "NICK" => x.what # k
           /\ \/ Refuses(x)
              \/ x.cmd = "NICK" /\ x.nick = k
              \/ Settles(ts, s.name, n, k) => Settles(ts2, s.name, n2, KeyAfter(k, x))
  PROVE  \E K2 : Agrees(K2, Append(tc, x), ts2, s, n2)
<1> DEFINE N == Len(tc)
           t == Append(tc, x)
           k == K[N]
           L == [i \in 0..(N + 1) |-> IF i <= N THEN K[i] ELSE KeyEffect[x][k]]
<1>1. /\ N \in Nat /\ DOMAIN tc = 1..N /\ DOMAIN t = 1..(N + 1) /\ Len(t) = N + 1
      /\ \A i \in 1..N : t[i] = tc[i]
      /\ t[N + 1] = x
  BY AppendProperties
<1>2. /\ Keys(K, tc, s.key)
      /\ k \in {n, Unlinked}
      /\ \A i \in DOMAIN tc : tc[i].cmd = "NICK" => tc[i].what # K[i - 1]
      /\ \/ \E i \in DOMAIN tc : Refuses(tc[i])
         \/ \E i : Own(K, tc, i)
         \/ Settles(ts, s.name, n, k)
  BY DEF Agrees
<1>3. Keys(L, t, s.key)
  <2>1. Passes(K, tc, Key, s.key, KeyEffect)
    BY <1>2 DEF Keys
  <2>2. KeyEffect \in [Told -> [Key -> Key]]
    BY EffectFacts
  <2>3. QED BY <2>1, <2>2, PassAppend, Zenon DEF Keys
<1>4. k \in Key /\ KeyEffect[x][k] = KeyAfter(k, x)
  <2>1. k \in Key
    BY <1>2 DEF Key
  <2>2. QED BY <2>1, EffectFacts
<1>5. /\ L[N + 1] = KeyAfter(k, x)
      /\ \A i \in 0..N : L[i] = K[i]
  BY <1>1, <1>4
<1> HIDE DEF L, t, N, k
<1>6. \A i \in 1..N : L[i - 1] = K[i - 1]
  <2> SUFFICES ASSUME NEW i \in 1..N PROVE L[i - 1] = K[i - 1]
    OBVIOUS
  <2>1. i - 1 \in 0..N
    BY <1>1
  <2>2. QED BY <1>5, <2>1
<1>7. L[(N + 1) - 1] = k
  BY <1>1, <1>5 DEF k, N
<1>8. \A i \in DOMAIN t : t[i].cmd = "NICK" => t[i].what # L[i - 1]
  <2> SUFFICES ASSUME NEW i \in 1..(N + 1), t[i].cmd = "NICK" PROVE t[i].what # L[i - 1]
    BY <1>1
  <2>1. CASE i \in 1..N
    BY <1>1, <1>2, <1>6, <2>1
  <2>2. CASE i = N + 1
    BY <1>1, <1>2, <1>7, <2>2
  <2>3. QED BY <1>1, <2>1, <2>2
<1>9. \A i \in DOMAIN tc : Refuses(tc[i]) => i \in DOMAIN t /\ Refuses(t[i])
  BY <1>1
<1>10. ASSUME NEW i, Own(K, tc, i) PROVE Own(L, t, i)
  BY <1>1, <1>6, <1>10 DEF Own
<1>11. x.cmd = "NICK" /\ x.nick = k => Own(L, t, N + 1)
  BY <1>1, <1>7 DEF Own
<1>12. Refuses(x) => N + 1 \in DOMAIN t /\ Refuses(t[N + 1])
  BY <1>1
<1>13. \/ \E i \in DOMAIN t : Refuses(t[i])
       \/ \E i : Own(L, t, i)
       \/ Settles(ts2, s.name, n2, L[N + 1])
  BY <1>2, <1>5, <1>9, <1>10, <1>11, <1>12
<1>14. Agrees(L, t, ts2, s, n2)
  BY <1>1, <1>2, <1>3, <1>5, <1>8, <1>13 DEF Agrees
<1>15. QED BY <1>14 DEF t

\* And when no line is written to the client.
LEMMA AgreesSame ==
  ASSUME NEW tc, NEW ts, NEW ts2, NEW n, NEW s, NEW s2, s2.key = s.key,
         NEW K, Agrees(K, tc, ts, s, n),
         \A k \in {n, Unlinked} :
           Settles(ts, s.name, n, k) => Settles(ts2, s2.name, n, k)
  PROVE  Agrees(K, tc, ts2, s2, n)
  BY DEF Agrees

\* Who will be known when a line has been read.
LEMMA KnowsRead ==
  ASSUME NEW tc \in Seq(Told), tc # <<>>, NEW ns \in SUBSET Nick, NEW all, NEW T,
         Knows(T, tc, ns, all)
  PROVE  \E T2 : Knows(T2, Tail(tc), ThereAfter(ns, Head(tc)), all)
<1> DEFINE N == Len(tc)
           U == [i \in 0..(N - 1) |-> T[i + 1]]
<1>1. /\ N \in Nat /\ N >= 1 /\ Head(tc) \in Told /\ Len(Tail(tc)) = N - 1
  BY EmptySeq, HeadTailProperties
<1>2. Passes(T, tc, SUBSET Nick, ns, ThereEffect) /\ all \subseteq T[N]
  BY DEF Knows, Theres
<1>3. T[1] = ThereEffect[Head(tc)][ns] /\ Passes(U, Tail(tc), SUBSET Nick, T[1], ThereEffect)
  BY <1>2, PassTail
<1>4. T[1] = ThereAfter(ns, Head(tc))
  BY <1>1, <1>3, EffectFacts
<1>5. U[N - 1] = T[N]
  BY <1>1
<1> HIDE DEF U, N
<1>6. Knows(U, Tail(tc), ThereAfter(ns, Head(tc)), all)
  BY <1>1, <1>2, <1>3, <1>4, <1>5 DEF Knows, Theres
<1>7. QED BY <1>6

\* Who will be known when the server writes a line.
LEMMA KnowsAdd ==
  ASSUME NEW tc \in Seq(Told), NEW ns \in SUBSET Nick, NEW all \in SUBSET Nick, NEW T,
         Knows(T, tc, ns, all), NEW x \in Told, NEW all2 \in SUBSET ThereAfter(all, x)
  PROVE  \E T2 : Knows(T2, Append(tc, x), ns, all2)
<1> DEFINE N == Len(tc)
           known == T[N]
           U == [i \in 0..(N + 1) |-> IF i <= N THEN T[i] ELSE ThereEffect[x][known]]
<1>1. N \in Nat /\ Len(Append(tc, x)) = N + 1
  BY AppendProperties
<1>2. Passes(T, tc, SUBSET Nick, ns, ThereEffect) /\ all \subseteq known
  BY DEF Knows, Theres
<1>3. known \in SUBSET Nick
  BY <1>1, <1>2 DEF Passes
<1>4. Passes(U, Append(tc, x), SUBSET Nick, ns, ThereEffect)
  <2> DEFINE V == SUBSET Nick
  <2>1. Passes(T, tc, V, ns, ThereEffect)
    BY <1>2
  <2>2. ThereEffect \in [Told -> [V -> V]]
    BY EffectFacts
  <2> HIDE DEF V
  <2>3. Passes(U, Append(tc, x), V, ns, ThereEffect)
    BY <2>1, <2>2, PassAppend, Zenon
  <2>4. QED BY <2>3 DEF V
<1>5. U[N + 1] = ThereAfter(known, x)
  BY <1>1, <1>3, EffectFacts
<1> HIDE DEF U, N, known
<1>6. ThereAfter(all, x) \subseteq ThereAfter(known, x)
  BY <1>2 DEF ThereAfter, Moved
<1>7. Knows(U, Append(tc, x), ns, all2)
  BY <1>1, <1>4, <1>5, <1>6 DEF Knows, Theres
<1>8. QED BY <1>7

-----------------------------------------------------------------------------
(* What a step of the client does.                                         *)

\* A line of the server is read.
LineRead ==
  /\ toClient # <<>>
  /\ toClient' = Tail(toClient)
  /\ users' \in Table /\ self' \in Self /\ Kept(users', self')
  /\ \/ There(users') = ThereAfter(There(users), Got)
     \/ channel = "none" /\ There(users') = There(users)
  /\ self'.key = KeyAfter(self.key, Got)
  /\ self'.name = NameAfter(self, Got)
  /\ toServer' = IF up THEN AskedAfter(toServer, Got) ELSE toServer
  /\ outcome' \in {"running", "overflow"}
  /\ UNCHANGED <<channel, up, nickOf, members, mishaps, typed, deeds>>

\* The user has typed a command: one that writes to the server, or another.
CommandGiven ==
  /\ users' \in Table /\ self' \in Self /\ Kept(users', self')
  /\ There(users') = There(users)
  /\ self'.key = self.key
  /\ \/ /\ \E n \in Nick : self'.name = n /\ toServer' = Write(<<Line("NICK", n)>>)
        /\ mishaps' = IF up /\ nickOf[Me] = Nil THEN mishaps \cup {"early"} ELSE mishaps
        /\ channel' = channel
     \/ /\ \E c \in {"JOIN", "PART"} : toServer' = Write(<<Line(c, Nil)>>)
        /\ self'.name = self.name /\ mishaps' = mishaps
        /\ channel' \in {"shown", "parted"}
     \/ /\ toServer' = toServer
        /\ self'.name = self.name /\ mishaps' = mishaps /\ channel' = channel
  /\ outcome' \in {"running", "overflow", "not self"}
  /\ typed' \in 0..MaxTyped
  /\ UNCHANGED <<up, toClient, nickOf, members, deeds>>

\* The client's state.
LEMMA ClientFacts ==
  ASSUME TypeOK, SelfKept
  PROVE  /\ users \in Table /\ self \in Self /\ Kept(users, self)
         /\ self.key \in Key /\ self.name \in Nick
         /\ There(users) \in SUBSET Nick
         /\ channel \in {"none", "shown", "parted"}
         /\ up \in BOOLEAN
         /\ mishaps \subseteq Mishap
         /\ outcome \in {"running", "overflow", "duplicate", "not self"}
         /\ typed \in 0..MaxTyped /\ deeds \in 0..MaxDeeds
<1>1. users \in Table /\ self \in Self
  BY DEF TypeOK, Table, Self
<1>2. Kept(users, self)
  BY DEF SelfKept, Kept, Is
<1>3. self.key \in Key /\ self.name \in Nick
  BY <1>1 DEF Self, Key
<1>4. There(users) \in SUBSET Nick
  BY DEF There
<1>5. QED BY <1>1, <1>2, <1>3, <1>4 DEF TypeOK

\* The line that is read.
LEMMA GotFacts ==
  ASSUME LinesOK, NEW c, Reading(c)
  PROVE  /\ toClient # <<>> /\ Got \in Told /\ Got.cmd = c
         /\ toClient' = Tail(toClient)
         /\ outcome = "running"
         /\ UNCHANGED <<channel, up, nickOf, members, mishaps, typed, deeds>>
<1>1. toClient \in Seq(Told) /\ toClient # <<>>
  BY DEF LinesOK, Reading
<1>2. Got \in Told
  BY <1>1, HeadTailProperties DEF Got
<1>3. QED BY <1>1, <1>2 DEF Reading, server

\* NICK.
LEMMA NickHookReads == ASSUME TypeOK, SelfKept, LinesOK, NickHook PROVE LineRead
<1> DEFINE t == FindUser(users, Got.nick)
<1>1. /\ toClient # <<>> /\ Got \in Told /\ Got.cmd = "NICK"
      /\ toClient' = Tail(toClient) /\ outcome = "running"
      /\ UNCHANGED <<channel, up, nickOf, members, mishaps, typed, deeds>>
  BY GotFacts DEF NickHook
<1>2. Got.nick \in Nick /\ Got.what \in Nick /\ ~Refuses(Got)
  BY <1>1, ToldFacts DEF Refuses
<1>3. users \in Table /\ self \in Self /\ Kept(users, self)
  BY ClientFacts
<1>4. t \in Table /\ t[Got.nick] \in User /\ There(t) = There(users) /\ Kept(t, self)
  BY <1>2, <1>3, FindUserFacts
<1> HIDE DEF t
<1>5. /\ users' = RecvNick(t, Got.nick, Got.what)
      /\ self' = SelfNick(self, Got.nick, Got.what)
      /\ toServer' = toServer /\ outcome' = outcome
  BY DEF NickHook, t
<1>6. /\ users' \in Table /\ self' \in Self /\ Kept(users', self')
      /\ There(users') = Moved(There(users), Got.nick, Got.what)
      /\ self'.key = Rekeyed(self.key, Got.nick, Got.what)
      /\ self'.name = IF self.key = Got.nick THEN Got.what ELSE self.name
  BY <1>2, <1>3, <1>4, <1>5, RecvNickFacts
<1>7. There(users') = ThereAfter(There(users), Got)
  BY <1>1, <1>2, <1>6 DEF ThereAfter
<1>8. self'.key = KeyAfter(self.key, Got) /\ self'.name = NameAfter(self, Got)
  BY <1>1, <1>2, <1>6 DEF KeyAfter, NameAfter
<1>9. toServer' = IF up THEN AskedAfter(toServer, Got) ELSE toServer
  BY <1>2, <1>5 DEF AskedAfter
<1>10. QED BY <1>1, <1>5, <1>6, <1>7, <1>8, <1>9 DEF LineRead

\* 433.
LEMMA BadNickReads == ASSUME TypeOK, SelfKept, LinesOK, BadNick PROVE LineRead
<1> DEFINE n == Got.nick
           t == FindUser(users, n)
           s == Snick(self, n + 1)
<1>1. /\ toClient # <<>> /\ Got \in Told /\ Got.cmd = "433"
      /\ toClient' = Tail(toClient) /\ outcome = "running"
      /\ UNCHANGED <<channel, up, nickOf, members, mishaps, typed, deeds>>
  BY GotFacts DEF BadNick
<1>2. n \in Nick /\ (Refuses(Got) <=> n # LastNick)
  BY <1>1, ToldFacts DEF Refuses
<1>3. users \in Table /\ self \in Self /\ Kept(users, self)
  BY ClientFacts
<1>4. t \in Table /\ t[n] \in User /\ There(t) = There(users) /\ Kept(t, self)
  BY <1>2, <1>3, FindUserFacts
<1>5. CASE n = LastNick
  <2>1. users' = t /\ self' = self /\ toServer' = toServer /\ outcome' = outcome
    BY <1>5 DEF BadNick
  <2>2. ~Refuses(Got)
    BY <1>2, <1>5
  <2>3. There(users') = ThereAfter(There(users), Got)
    BY <1>1, <1>4, <2>1, <2>2 DEF ThereAfter
  <2>4. self'.key = KeyAfter(self.key, Got) /\ self'.name = NameAfter(self, Got)
    BY <1>1, <2>1, <2>2 DEF KeyAfter, NameAfter
  <2>5. toServer' = IF up THEN AskedAfter(toServer, Got) ELSE toServer
    BY <2>1, <2>2 DEF AskedAfter
  <2>6. QED BY <1>1, <1>3, <1>4, <2>1, <2>3, <2>4, <2>5 DEF LineRead
<1>6. CASE n # LastNick
  <2>1. Refuses(Got) /\ n + 1 \in Nick
    BY <1>2, <1>6, ConstantFacts
  <2>2. s \in Self /\ s.key = self.key /\ s.name = n + 1
    BY <1>3, <2>1 DEF Snick, Self
  <2>3. Kept(t, s)
    BY <1>4, <2>2 DEF Kept
  <2>4. /\ users' = RecvNick(t, n, n + 1)
        /\ self' = SelfNick(s, n, n + 1)
        /\ toServer' = Write(<<Line("NICK", n + 1)>>) /\ outcome' = outcome
    BY <1>6 DEF BadNick
  <2> HIDE DEF t, s
  <2>5. /\ users' \in Table /\ self' \in Self /\ Kept(users', self')
        /\ There(users') = Moved(There(users), n, n + 1)
        /\ self'.key = Rekeyed(self.key, n, n + 1)
        /\ self'.name = n + 1
    BY <1>2, <1>4, <2>1, <2>2, <2>3, <2>4, RecvNickFacts
  <2>6. There(users') = ThereAfter(There(users), Got)
    BY <1>1, <2>1, <2>5 DEF ThereAfter
  <2>7. self'.key = KeyAfter(self.key, Got) /\ self'.name = NameAfter(self, Got)
    BY <1>1, <2>1, <2>5 DEF KeyAfter, NameAfter
  <2>8. toServer' = IF up THEN AskedAfter(toServer, Got) ELSE toServer
    <3>1. toServer \in Seq(Asked) /\ Line("NICK", n + 1) \in Asked
      BY <2>1, LineFacts DEF LinesOK
    <3>2. Append(toServer, Line("NICK", n + 1)) = toServer \o <<Line("NICK", n + 1)>>
      BY <3>1, AppendIsConcat
    <3>3. QED BY <2>1, <2>4, <3>2 DEF Write, AskedAfter
  <2>9. QED BY <1>1, <2>4, <2>5, <2>6, <2>7, <2>8 DEF LineRead
<1>7. QED BY <1>5, <1>6

\* A line that is about no nick changes neither the key nor the name.
LEMMA OtherLineReads ==
  ASSUME TypeOK, SelfKept, LinesOK, NEW c \in {"JOIN", "353", "PART", "QUIT", "PRIVMSG"},
         Reading(c), self' = self, toServer' = toServer, outcome' \in {"running", "overflow"},
         users' \in Table, Kept(users', self),
         \/ There(users') = ThereAfter(There(users), Got)
         \/ channel = "none" /\ There(users') = There(users)
  PROVE  LineRead
<1>1. /\ toClient # <<>> /\ Got \in Told /\ Got.cmd = c
      /\ toClient' = Tail(toClient)
      /\ UNCHANGED <<channel, up, nickOf, members, mishaps, typed, deeds>>
  BY GotFacts
<1>2. ~Refuses(Got) /\ Got.cmd # "NICK"
  BY <1>1 DEF Refuses
<1>3. self'.key = KeyAfter(self.key, Got) /\ self'.name = NameAfter(self, Got)
  BY <1>2 DEF KeyAfter, NameAfter
<1>4. toServer' = IF up THEN AskedAfter(toServer, Got) ELSE toServer
  BY <1>2 DEF AskedAfter
<1>5. self' \in Self
  BY ClientFacts
<1>6. QED BY <1>1, <1>3, <1>4, <1>5 DEF LineRead

\* JOIN.
LEMMA JoinHookReads == ASSUME TypeOK, SelfKept, LinesOK, JoinHook PROVE LineRead
<1>1. Reading("JOIN") /\ self' = self /\ toServer' = toServer /\ outcome' = "running"
  BY DEF JoinHook, Reading
<1>2. Got \in Told /\ Got.cmd = "JOIN" /\ Got.nick \in Nick
  BY <1>1, GotFacts, ToldFacts
<1>3. users \in Table /\ self \in Self /\ Kept(users, self)
  BY ClientFacts
<1>4. CASE channel = "none"
  BY <1>1, <1>3, <1>4, OtherLineReads DEF JoinHook
<1>5. CASE channel # "none"
  <2> DEFINE f == FindUser(users, Got.nick)
             u == [f[Got.nick] EXCEPT !.there = TRUE]
  <2>1. f \in Table /\ f[Got.nick] \in User
    BY <1>2, <1>3, FindUserFacts
  <2>2. u \in User /\ u.there /\ u.flags = f[Got.nick].flags
    BY <2>1 DEF User
  <2>3. users' = [f EXCEPT ![Got.nick] = u]
    BY <1>5, <2>1 DEF JoinHook, Table
  <2> HIDE DEF u
  <2>4. /\ users' \in Table /\ Kept(users', self)
        /\ There(users') = There(users) \cup {Got.nick}
    BY <1>2, <1>3, <2>2, <2>3, FoundFacts
  <2>5. There(users') = ThereAfter(There(users), Got)
    BY <1>2, <2>4 DEF ThereAfter, Refuses
  <2>6. QED BY <1>1, <2>4, <2>5, OtherLineReads
<1>6. QED BY <1>4, <1>5

\* 353.
LEMMA NamesHookReads == ASSUME TypeOK, SelfKept, LinesOK, NamesHook PROVE LineRead
<1> DEFINE U(n) == LET u == FindUser(users, n)[n]
                   IN [u EXCEPT !.there = TRUE,
                                !.flags = @ \cup (IF n \in Got.plain THEN {"op"} ELSE {})]
<1>1. Reading("353") /\ self' = self /\ toServer' = toServer /\ outcome' = "running"
  BY DEF NamesHook, Reading
<1>2. Got \in Told /\ Got.cmd = "353" /\ Got.names \subseteq Nick
  BY <1>1, GotFacts, ToldFacts
<1>3. users \in Table /\ self \in Self /\ Kept(users, self)
  BY ClientFacts
<1>4. users' = [n \in Nick |-> IF n \notin Got.names THEN users[n] ELSE U(n)]
  BY DEF NamesHook
<1>5. ASSUME NEW n \in Nick
      PROVE  U(n) \in User /\ U(n).there /\ FindUser(users, n)[n].flags \subseteq U(n).flags
  <2> DEFINE v == FindUser(users, n)[n]
  <2>1. v \in User
    BY <1>3, FindUserFacts
  <2> HIDE DEF v
  <2> SUFFICES LET w == [v EXCEPT !.there = TRUE,
                                  !.flags = @ \cup (IF n \in Got.plain THEN {"op"} ELSE {})]
               IN w \in User /\ w.there /\ v.flags \subseteq w.flags
    BY DEF v
  <2>2. QED BY <2>1 DEF User, Flag
<1> HIDE DEF U
<1>6. users' \in Table
  BY <1>3, <1>4, <1>5 DEF Table
<1>7. \A n \in Nick : FindUser(users, n)[n] = IF users[n] = NoUser THEN NewUser ELSE users[n]
  BY <1>3 DEF FindUser, Table
<1>8. There(users') = There(users) \cup Got.names
  <2>1. \A n \in Nick : n \in Got.names => users'[n] # NoUser /\ users'[n].there
    BY <1>4, <1>5, ConstantFacts
  <2>2. \A n \in Nick : n \notin Got.names => users'[n] = users[n]
    BY <1>4
  <2>3. QED BY <1>2, <2>1, <2>2 DEF There
<1>9. Kept(users', self)
  <2> SUFFICES ASSUME self.key # Unlinked
               PROVE  users'[self.key] # NoUser /\ "self" \in users'[self.key].flags
    BY DEF Kept
  <2>1. self.key \in Nick /\ users[self.key] # NoUser /\ "self" \in users[self.key].flags
    BY <1>3 DEF Kept, Self
  <2>2. CASE self.key \in Got.names
    BY <1>4, <1>5, <1>7, <2>1, <2>2, ConstantFacts
  <2>3. CASE self.key \notin Got.names
    BY <1>4, <2>1, <2>3
  <2>4. QED BY <2>2, <2>3
<1>10. There(users') = ThereAfter(There(users), Got)
  BY <1>2, <1>8 DEF ThereAfter, Refuses
<1>11. QED BY <1>1, <1>6, <1>9, <1>10, OtherLineReads

\* PART and KICK.
LEMMA PartHookReads == ASSUME TypeOK, SelfKept, LinesOK, PartHook PROVE LineRead
<1> DEFINE f == FindUser(users, Got.nick)
           u == [f[Got.nick] EXCEPT !.there = FALSE]
<1>1. Reading("PART") /\ self' = self /\ toServer' = toServer /\ outcome' = "running"
  BY DEF PartHook, Reading
<1>2. Got \in Told /\ Got.cmd = "PART" /\ Got.nick \in Nick
  BY <1>1, GotFacts, ToldFacts
<1>3. users \in Table /\ self \in Self /\ Kept(users, self)
  BY ClientFacts
<1>4. f \in Table /\ f[Got.nick] \in User
  BY <1>2, <1>3, FindUserFacts
<1>5. u \in User /\ ~u.there /\ u.flags = f[Got.nick].flags
  BY <1>4 DEF User
<1>6. users' = [f EXCEPT ![Got.nick] = u]
  BY <1>4 DEF PartHook, Table
<1> HIDE DEF u
<1>7. /\ users' \in Table /\ Kept(users', self)
      /\ There(users') = There(users) \ {Got.nick}
  BY <1>2, <1>3, <1>5, <1>6, FoundFacts
<1>8. There(users') = ThereAfter(There(users), Got)
  BY <1>2, <1>7 DEF ThereAfter, Refuses
<1>9. QED BY <1>1, <1>7, <1>8, OtherLineReads

\* QUIT.
LEMMA QuitHookReads == ASSUME TypeOK, SelfKept, LinesOK, QuitHook PROVE LineRead
<1> DEFINE f == FindUser(users, Got.nick)
           u == [f[Got.nick] EXCEPT !.there = FALSE]
<1>1. Reading("QUIT") /\ self' = self /\ toServer' = toServer /\ outcome' = "running"
  BY DEF QuitHook, Reading
<1>2. Got \in Told /\ Got.cmd = "QUIT" /\ Got.nick \in Nick
  BY <1>1, GotFacts, ToldFacts
<1>3. users \in Table /\ self \in Self /\ Kept(users, self)
  BY ClientFacts
<1>4. f \in Table /\ f[Got.nick] \in User /\ There(f) = There(users) /\ Kept(f, self)
  BY <1>2, <1>3, FindUserFacts
<1>5. /\ users' \in Table /\ Kept(users', self)
      /\ There(users') = There(users) \ {Got.nick}
  <2>1. CASE f[Got.nick].flags = {}
    <3>1. users' = [f EXCEPT ![Got.nick] = NoUser]
      BY <2>1 DEF QuitHook
    <3> HIDE DEF f
    <3>2. users' \in Table /\ \A n \in Nick : users'[n] = IF n = Got.nick THEN NoUser ELSE f[n]
      BY <1>4, <3>1 DEF Table
    <3>3. There(users') = There(f) \ {Got.nick}
      BY <3>2 DEF There
    <3>4. Kept(users', self)
      BY <1>3, <1>4, <2>1, <3>2 DEF Kept, Self
    <3>5. QED BY <1>4, <3>2, <3>3, <3>4
  <2>2. CASE f[Got.nick].flags # {}
    <3>1. u \in User /\ ~u.there /\ u.flags = f[Got.nick].flags
      BY <1>4 DEF User
    <3>2. users' = [f EXCEPT ![Got.nick] = u]
      BY <1>4, <2>2 DEF QuitHook, Table
    <3> HIDE DEF u
    <3>3. QED BY <1>2, <1>3, <3>1, <3>2, FoundFacts
  <2>3. QED BY <2>1, <2>2
<1>6. There(users') = ThereAfter(There(users), Got)
  BY <1>2, <1>5 DEF ThereAfter, Refuses
<1>7. QED BY <1>1, <1>5, <1>6, OtherLineReads

\* privmsg_print: who is there, and the user of the connection, stay.
LEMMA PrivmsgPrintFacts ==
  ASSUME TypeOK, SelfKept, NEW n \in Nick, NEW dest \in Nick \cup {Channel},
         PrivmsgPrint(FindUser(users, n), n, dest)
  PROVE  /\ users' \in Table /\ Kept(users', self) /\ There(users') = There(users)
         /\ outcome' \in {"running", "overflow"}
<1> DEFINE t == FindUser(users, n)
<1>1. users \in Table /\ self \in Self /\ Kept(users, self)
  BY ClientFacts
<1>2. t \in Table /\ t[n] \in User /\ There(t) = There(users) /\ Kept(t, self)
  BY <1>1, FindUserFacts
<1> HIDE DEF t
<1>3. users' = Printed(t, n, dest) /\ outcome' \in {"running", "overflow"}
  BY DEF PrivmsgPrint, t
<1>4. QED BY <1>1, <1>2, <1>3, PrintedFacts

\* PRIVMSG.
LEMMA PrivmsgHookReads == ASSUME TypeOK, SelfKept, LinesOK, PrivmsgHook PROVE LineRead
<1>1. Reading("PRIVMSG") /\ self' = self /\ toServer' = toServer
  BY DEF PrivmsgHook
<1>2. Got \in Told /\ Got.cmd = "PRIVMSG" /\ Got.nick \in Nick /\ Got.what \in Nick \cup {Channel}
  BY <1>1, GotFacts, ToldFacts
<1>3. /\ users' \in Table /\ Kept(users', self) /\ There(users') = There(users)
      /\ outcome' \in {"running", "overflow"}
  BY <1>2, PrivmsgPrintFacts DEF PrivmsgHook
<1>4. There(users') = ThereAfter(There(users), Got)
  BY <1>2, <1>3 DEF ThereAfter, Refuses
<1>5. QED BY <1>1, <1>3, <1>4, OtherLineReads

\* One line is written, or the connection is broken.
LEMMA WriteFacts ==
  ASSUME toServer \in Seq(Asked), NEW x \in Asked
  PROVE  Write(<<x>>) = IF up THEN Append(toServer, x) ELSE toServer
<1>1. Append(toServer, x) = toServer \o <<x>>
  BY AppendIsConcat
<1>2. QED BY <1>1 DEF Write

\* What all commands share.
LEMMA TypingFacts ==
  ASSUME TypeOK, SelfKept, Typing
  PROVE  /\ outcome = "running"
         /\ typed' \in 0..MaxTyped
         /\ UNCHANGED <<up, toClient, nickOf, members, deeds>>
<1>1. typed \in 0..MaxTyped /\ MaxTyped \in Nat
  BY ClientFacts, SessionOK
<1>2. QED BY <1>1 DEF Typing, server

\* /nick, /join and /part write to the server.
LEMMA WritingCommands ==
  ASSUME TypeOK, SelfKept,
         JoinCommand \/ PartCommand \/ \E n \in Nick : NickCommand(n)
  PROVE  CommandGiven
<1>1. users \in Table /\ self \in Self /\ Kept(users, self)
  BY ClientFacts
<1>2. Typing
  BY DEF JoinCommand, PartCommand, NickCommand
<1>3. /\ outcome = "running" /\ typed' \in 0..MaxTyped
      /\ UNCHANGED <<up, toClient, nickOf, members, deeds>>
  BY <1>2, TypingFacts
<1>4. CASE JoinCommand \/ PartCommand
  BY <1>1, <1>3, <1>4 DEF JoinCommand, PartCommand, CommandGiven
<1>5. ASSUME NEW n \in Nick, NickCommand(n) PROVE CommandGiven
  <2>1. self' = Snick(self, n) /\ users' = users
    BY <1>5 DEF NickCommand
  <2>2. self' \in Self /\ self'.key = self.key /\ self'.name = n
    BY <1>1, <2>1 DEF Snick, Self
  <2>3. Kept(users', self')
    BY <1>1, <2>1, <2>2 DEF Kept
  <2>4. QED BY <1>1, <1>3, <1>5, <2>1, <2>2, <2>3 DEF NickCommand, CommandGiven
<1>6. QED BY <1>4, <1>5

\* The others leave the connection alone.
LEMMA LocalCommand ==
  ASSUME TypeOK, SelfKept, Typing, UNCHANGED <<self, channel, toServer, mishaps>>,
         users' \in Table, Kept(users', self), There(users') = There(users),
         outcome' \in {"running", "overflow", "not self"}
  PROVE  CommandGiven
<1>1. self \in Self
  BY ClientFacts
<1>2. QED BY <1>1, TypingFacts DEF CommandGiven

\* /msg and what is said in the channel.
LEMMA SpeakingCommands ==
  ASSUME TypeOK, SelfKept, Say \/ \E n \in Nick : MsgCommand(n)
  PROVE  CommandGiven
<1>1. users \in Table /\ self \in Self /\ Kept(users, self) /\ self.name \in Nick
  BY ClientFacts
<1>2. ASSUME NEW n \in Nick, MsgCommand(n) PROVE CommandGiven
  <2> DEFINE t == FindUser(users, self.name)
  <2>1. CASE "self" \in t[self.name].flags
    <3>1. PrivmsgPrint(t, self.name, n)
      BY <1>2, <2>1 DEF MsgCommand
    <3>2. /\ users' \in Table /\ Kept(users', self) /\ There(users') = There(users)
          /\ outcome' \in {"running", "overflow"}
      BY <1>1, <3>1, PrivmsgPrintFacts
    <3>3. QED BY <1>2, <3>2, LocalCommand DEF MsgCommand
  <2>2. CASE "self" \notin t[self.name].flags
    <3>1. users' = t /\ outcome' = "not self"
      BY <1>2, <2>2 DEF MsgCommand
    <3>2. users' \in Table /\ Kept(users', self) /\ There(users') = There(users)
      BY <1>1, <3>1, FindUserFacts
    <3>3. QED BY <1>2, <3>1, <3>2, LocalCommand DEF MsgCommand
  <2>3. QED BY <2>1, <2>2
<1>3. ASSUME Say PROVE CommandGiven
  <2>1. PrivmsgPrint(FindUser(users, self.name), self.name, Channel)
    BY <1>3 DEF Say
  <2>2. /\ users' \in Table /\ Kept(users', self) /\ There(users') = There(users)
        /\ outcome' \in {"running", "overflow"}
    BY <1>1, <2>1, PrivmsgPrintFacts
  <2>3. QED BY <1>3, <2>2, LocalCommand DEF Say
<1>4. QED BY <1>2, <1>3

\* A user is found, or made, and one of its fields is set that does not say who it
\* is or where.
LEMMA SetUserGiven ==
  ASSUME TypeOK, SelfKept, NEW n \in Nick, NEW u \in User, SetUser(n, u),
         u.there = Found(n).there, Found(n).flags \cap {"self"} \subseteq u.flags
  PROVE  CommandGiven
<1> DEFINE f == FindUser(users, n)
<1>1. users \in Table /\ self \in Self /\ Kept(users, self)
  BY ClientFacts
<1>2. /\ f \in Table /\ f[n] \in User /\ There(f) = There(users)
      /\ \A m \in Nick : m # n => f[m] = users[m]
  BY <1>1, FindUserFacts, ConstantFacts DEF FindUser, Table
<1>3. f[n] = Found(n)
  BY DEF Found
<1> HIDE DEF f
<1>4. users' = [f EXCEPT ![n] = u]
  BY <1>1, <1>2 DEF SetUser, Table
<1>5. /\ users' \in Table /\ Kept(users', self)
      /\ There(users') = IF u.there THEN There(users) \cup {n} ELSE There(users) \ {n}
  <2>1. FindUser(users, n)[n].flags \cap {"self"} \subseteq u.flags
    BY <1>3 DEF f
  <2>2. users' = [FindUser(users, n) EXCEPT ![n] = u]
    BY <1>4 DEF f
  <2>3. users \in Table
    BY <1>1
  <2>4. /\ users' \in Table
        /\ There(users') = IF u.there THEN There(users) \cup {n} ELSE There(users) \ {n}
        /\ \A s \in Self : Kept(users, s) => Kept(users', s)
    BY <2>1, <2>2, <2>3, FoundFacts, Zenon
  <2>5. QED BY <1>1, <2>4
<1>6. n \in There(users) <=> u.there
  BY <1>2, <1>3, ConstantFacts DEF There
<1>7. There(users') = There(users)
  BY <1>5, <1>6
<1>8. Typing /\ UNCHANGED <<self, channel, toServer, mishaps>> /\ outcome' = "running"
  BY DEF SetUser, Typing
<1>9. QED BY <1>5, <1>7, <1>8, LocalCommand

\* /ignore, /unignore, and what is queued for a user.
LEMMA SettingCommands ==
  ASSUME TypeOK, SelfKept, NEW n \in Nick, Ignore(n) \/ Unignore(n) \/ Queue(n) \/ Unqueue(n)
  PROVE  CommandGiven
<1> DEFINE v == Found(n)
<1>1. v \in User
  BY ClientFacts, FindUserFacts DEF Found
<1> HIDE DEF v
<1>2. CASE Ignore(n)
  <2> DEFINE u == [v EXCEPT !.flags = @ \cup {"ignore"}]
  <2>1. u \in User /\ u.there = v.there /\ v.flags \cap {"self"} \subseteq u.flags
    BY <1>1 DEF User, Flag
  <2>2. SetUser(n, u)
    BY <1>2 DEF Ignore, v
  <2> HIDE DEF u
  <2>3. QED BY <2>1, <2>2, SetUserGiven DEF v
<1>3. CASE Unignore(n)
  <2> DEFINE u == [v EXCEPT !.flags = @ \ {"ignore"}]
  <2>1. u \in User /\ u.there = v.there /\ v.flags \cap {"self"} \subseteq u.flags
    BY <1>1 DEF User, Flag
  <2>2. SetUser(n, u)
    BY <1>3 DEF Unignore, v
  <2> HIDE DEF u
  <2>3. QED BY <2>1, <2>2, SetUserGiven DEF v
<1>4. CASE Queue(n)
  <2> DEFINE u == [v EXCEPT !.queue = TRUE]
  <2>1. u \in User /\ u.there = v.there /\ v.flags \cap {"self"} \subseteq u.flags
    BY <1>1 DEF User
  <2>2. SetUser(n, u)
    BY <1>4 DEF Queue, v
  <2> HIDE DEF u
  <2>3. QED BY <2>1, <2>2, SetUserGiven DEF v
<1>5. CASE Unqueue(n)
  <2> DEFINE u == [v EXCEPT !.queue = FALSE]
  <2>1. u \in User /\ u.there = v.there /\ v.flags \cap {"self"} \subseteq u.flags
    BY <1>1 DEF User
  <2>2. SetUser(n, u)
    BY <1>5 DEF Unqueue, v
  <2> HIDE DEF u
  <2>3. QED BY <2>1, <2>2, SetUserGiven DEF v
<1>6. QED BY <1>2, <1>3, <1>4, <1>5

\* Every command.
LEMMA CommandFacts == ASSUME TypeOK, SelfKept, Command PROVE CommandGiven
  BY WritingCommands, SpeakingCommands, SettingCommands DEF Command

-----------------------------------------------------------------------------
(* A line read keeps the invariant.                                        *)

\* The next state is of the right type if its parts are.
LEMMA NextTyped ==
  ASSUME users' \in Table, self' \in Self, channel' \in {"none", "shown", "parted"},
         up' \in BOOLEAN, toServer' \in Seq(Asked), toClient' \in Seq(Told),
         nickOf' \in [Person -> Nick \cup {Nil}],
         members' \subseteq {p \in Person : nickOf'[p] # Nil},
         mishaps' \subseteq Mishap,
         outcome' \in {"running", "overflow", "duplicate", "not self"},
         typed' \in 0..MaxTyped, deeds' \in 0..MaxDeeds
  PROVE  TypeOK'
<1>1. \A x \in Range(toServer') : x.cmd \in {"NICK", "JOIN", "PART"}
  BY RangeFacts, LineFacts
<1>2. \A x \in Range(toClient') :
        x.cmd \in {"NICK", "433", "JOIN", "353", "PART", "QUIT", "PRIVMSG"}
  <2>1. Range(toClient') \subseteq Told
    BY RangeFacts
  <2>2. QED BY <2>1, ToldFacts
<1>3. QED BY <1>1, <1>2 DEF TypeOK, Table, Self

\* The same, if the user of the connection and the server are left alone.
LEMMA SelfKeptNext == ASSUME Kept(users', self') PROVE SelfKept'
  BY DEF Kept, SelfKept, Is

\* Those in the channel have a nick, each their own.
LEMMA ServerFacts ==
  ASSUME TypeOK, NicksOK
  PROVE  /\ nickOf \in [Person -> Nick \cup {Nil}]
         /\ members \subseteq Person /\ \A p \in members : nickOf[p] \in Nick
         /\ Registered <=> nickOf[Me] \in Nick
         /\ Me \in members => Registered
         /\ All \in SUBSET Nick
         /\ \A p, q \in Person : p # q /\ nickOf[p] # Nil => nickOf[p] # nickOf[q]
<1>1. /\ nickOf \in [Person -> Nick \cup {Nil}]
      /\ members \subseteq {p \in Person : nickOf[p] # Nil}
  BY DEF TypeOK
<1>2. members \subseteq Person /\ \A p \in members : nickOf[p] \in Nick
  BY <1>1
<1>3. All \in SUBSET Nick
  BY <1>2 DEF All
<1>4. (Registered <=> nickOf[Me] \in Nick) /\ (Me \in members => Registered)
  BY <1>1, <1>2, ConstantFacts DEF Registered
<1>5. \A p, q \in Person : p # q /\ nickOf[p] # Nil => nickOf[p] # nickOf[q]
  BY DEF NicksOK
<1>6. QED BY <1>1, <1>2, <1>3, <1>4, <1>5

\* What the client writes when it reads a line: nothing, or a request for a nick.
LEMMA AskedAfterFacts ==
  ASSUME toServer \in Seq(Asked), NEW x \in Told, NEW ts,
         ts = IF up THEN AskedAfter(toServer, x) ELSE toServer
  PROVE  /\ ts \in Seq(Asked)
         /\ \A i \in DOMAIN ts : ts[i].cmd # "JOIN" \/ (i \in DOMAIN toServer /\ ts[i] = toServer[i])
         /\ ~up => ts = toServer
<1>1. CASE up /\ Refuses(x)
  <2> DEFINE y == Line("NICK", x.nick + 1)
  <2>1. y \in Asked /\ y.cmd = "NICK"
    BY <1>1, ToldFacts, LineFacts
  <2>2. ts = Append(toServer, y)
    BY <1>1 DEF AskedAfter
  <2> HIDE DEF y
  <2>3. /\ Len(toServer) \in Nat /\ DOMAIN toServer = 1..Len(toServer)
        /\ ts \in Seq(Asked) /\ DOMAIN ts = 1..(Len(toServer) + 1)
        /\ \A i \in 1..Len(toServer) : ts[i] = toServer[i]
        /\ ts[Len(toServer) + 1] = y
    BY <2>1, <2>2, AppendProperties
  <2>4. QED BY <1>1, <2>1, <2>3
<1>2. CASE ~(up /\ Refuses(x))
  BY <1>2 DEF AskedAfter
<1>3. QED BY <1>1, <1>2

\* The client has got no nick yet.
LEMMA ReadStart ==
  ASSUME LinesOK, TypeOK, SelfKept, StartOK, LineRead
  PROVE  StartOK'
<1> SUFFICES ASSUME up, ~Registered, "early" \notin mishaps
             PROVE  /\ self'.key = self'.name
                    /\ \/ /\ toClient' = <<>>
                          /\ \E i : /\ Asks(toServer', i) /\ toServer'[i].nick = self'.name
                                    /\ \A j : Asks(toServer', j) => j = i
                       \/ NoneAsks(toServer') /\ toClient' = <<>> /\ self'.name = LastNick
  BY DEF StartOK, LineRead, Registered
<1>1. /\ self.key = self.name /\ NoneAsks(toServer)
      /\ toClient = <<Line("433", self.name)>>
  BY DEF StartOK, LineRead
<1>2. self.name \in Nick
  BY ClientFacts
<1>3. /\ Got \in Told /\ Got.cmd = "433" /\ Got.nick = self.name
      /\ toClient' = <<>>
  BY <1>1, <1>2, LineFacts DEF Got, LineRead
<1>4. CASE Refuses(Got)
  <2> DEFINE n == self.name + 1
             y == Line("NICK", n)
  <2>1. n \in Nick /\ y \in Asked /\ y.cmd = "NICK" /\ y.nick = n
    BY <1>3, <1>4, ToldFacts, LineFacts
  <2>2. toServer' = Append(toServer, y)
    BY <1>3, <1>4 DEF LineRead, AskedAfter
  <2>3. self'.key = n /\ self'.name = n
    BY <1>1, <1>3, <1>4 DEF LineRead, KeyAfter, NameAfter, Rekeyed
  <2> HIDE DEF n, y
  <2>4. /\ Asks(toServer', Len(toServer) + 1) /\ toServer'[Len(toServer) + 1] = y
        /\ \A j : Asks(toServer', j) => j = Len(toServer) + 1
    BY <1>1, <2>1, <2>2, AsksAppend DEF LinesOK
  <2>5. QED BY <1>3, <2>1, <2>3, <2>4
<1>5. CASE ~Refuses(Got)
  <2>1. self.name = LastNick
    BY <1>3, <1>5 DEF Refuses
  <2>2. toServer' = toServer
    BY <1>5 DEF LineRead, AskedAfter
  <2>3. self'.key = self.key /\ self'.name = self.name
    BY <1>3, <1>5 DEF LineRead, KeyAfter, NameAfter
  <2>4. QED BY <1>1, <1>3, <2>1, <2>2, <2>3
<1>6. QED BY <1>4, <1>5

\* A line read keeps the invariant.
LEMMA ReadKeeps == ASSUME IInv, LineRead PROVE IInv'
<1>1. /\ TypeOK /\ SelfKept /\ LinesOK /\ NicksOK /\ DownOK /\ ChannelOK /\ StartOK
      /\ NamesOK /\ RosterOK
  BY DEF IInv
<1>2. /\ users' \in Table /\ self' \in Self /\ Kept(users', self')
      /\ toClient # <<>> /\ toClient' = Tail(toClient)
      /\ toServer' = IF up THEN AskedAfter(toServer, Got) ELSE toServer
      /\ outcome' \in {"running", "overflow"}
      /\ channel' = channel /\ up' = up /\ nickOf' = nickOf /\ members' = members
      /\ mishaps' = mishaps /\ typed' = typed /\ deeds' = deeds
  BY DEF LineRead
<1>3. /\ users \in Table /\ self \in Self /\ There(users) \in SUBSET Nick
      /\ channel \in {"none", "shown", "parted"} /\ up \in BOOLEAN
      /\ mishaps \subseteq Mishap /\ typed \in 0..MaxTyped /\ deeds \in 0..MaxDeeds
  BY <1>1, ClientFacts
<1>4. toServer \in Seq(Asked) /\ toClient \in Seq(Told)
  BY <1>1 DEF LinesOK
<1>5. Got \in Told /\ toClient' \in Seq(Told)
  BY <1>2, <1>4, HeadTailProperties DEF Got
<1>6. /\ toServer' \in Seq(Asked) /\ (~up => toServer' = toServer)
      /\ \A i \in DOMAIN toServer' :
           toServer'[i].cmd # "JOIN" \/ (i \in DOMAIN toServer /\ toServer'[i] = toServer[i])
  BY <1>2, <1>4, <1>5, AskedAfterFacts
<1>7. /\ nickOf \in [Person -> Nick \cup {Nil}]
      /\ members \subseteq {p \in Person : nickOf[p] # Nil}
  BY <1>1 DEF TypeOK
<1>8. TypeOK'
  BY <1>2, <1>3, <1>5, <1>6, <1>7, NextTyped
<1>9. SelfKept' /\ LinesOK'
  BY <1>2, <1>5, <1>6, SelfKeptNext DEF LinesOK
<1>10. NicksOK' /\ DownOK' /\ ChannelOK'
  BY <1>1, <1>2, <1>6 DEF NicksOK, DownOK, ChannelOK, Registered
<1>11. StartOK'
  BY <1>1, ReadStart
<1>12. NamesOK'
  <2> SUFFICES ASSUME up, Registered, "early" \notin mishaps
               PROVE  \E K : Agrees(K, toClient', toServer', self', nickOf[Me])
    BY <1>2 DEF NamesOK, Registered
  <2>1. PICK K : Agrees(K, toClient, toServer, self, nickOf[Me])
    BY <1>1 DEF NamesOK
  <2>2. nickOf[Me] \in Nick
    BY <1>1, ServerFacts
  <2>3. self'.key = KeyAfter(self.key, Head(toClient)) /\ self'.name = NameAfter(self, Head(toClient))
    BY DEF LineRead, Got
  <2>4. \E K2 : Agrees(K2, Tail(toClient), AskedAfter(toServer, Head(toClient)), self', nickOf[Me])
    BY <1>2, <1>3, <1>4, <2>1, <2>2, <2>3, AgreesRead
  <2>5. QED BY <1>2, <2>4 DEF Got
<1>13. RosterOK'
  <2> SUFFICES ASSUME up, Me \in members, mishaps = {}
               PROVE  \E T : Knows(T, toClient', There(users'), All)
    BY <1>2 DEF RosterOK, All
  <2>1. PICK T : Knows(T, toClient, There(users), All)
    BY <1>1 DEF RosterOK
  <2>2. There(users') = ThereAfter(There(users), Head(toClient))
    BY <1>1 DEF LineRead, ChannelOK, Got
  <2>3. QED BY <1>2, <1>3, <1>4, <2>1, <2>2, KnowsRead
<1>14. QED BY <1>8, <1>9, <1>10, <1>11, <1>12, <1>13 DEF IInv

-----------------------------------------------------------------------------
(* A command keeps the invariant.                                          *)

\* The name is settled when it has just been asked for.
LEMMA SettlesAsked ==
  ASSUME NEW ts \in Seq(Asked), NEW x \in Asked, x.cmd = "NICK", NEW n, NEW k
  PROVE  Settles(Append(ts, x), x.nick, n, k)
<1>1. /\ ~NoneAsks(Append(ts, x))
      /\ \A i : AsksLast(Append(ts, x), i) => Append(ts, x)[i] = x
  BY AsksAppend
<1>2. QED BY <1>1 DEF Settles

\* It stays so when something else is written.
LEMMA SettlesAppend ==
  ASSUME NEW ts \in Seq(Asked), NEW x \in Asked, x.cmd # "NICK",
         NEW name, NEW n, NEW k, Settles(ts, name, n, k)
  PROVE  Settles(Append(ts, x), name, n, k)
<1>1. /\ \A i : AsksLast(Append(ts, x), i) => AsksLast(ts, i)
      /\ NoneAsks(Append(ts, x)) => NoneAsks(ts)
      /\ \A i : Asks(ts, i) => Append(ts, x)[i] = ts[i]
  BY AsksAppend
<1>2. \A i : AsksLast(ts, i) => Asks(ts, i)
  BY DEF AsksLast
<1>3. QED BY <1>1, <1>2 DEF Settles

\* And when the server has read something else.
LEMMA SettlesTail ==
  ASSUME NEW ts \in Seq(Asked), ts # <<>>, Head(ts).cmd # "NICK",
         NEW name, NEW n, NEW k, Settles(ts, name, n, k)
  PROVE  Settles(Tail(ts), name, n, k)
<1>1. /\ \A i : AsksLast(Tail(ts), i) => AsksLast(ts, i + 1) /\ ts[i + 1] = Tail(ts)[i]
      /\ NoneAsks(Tail(ts)) => NoneAsks(ts)
  BY AsksTail
<1>2. QED BY <1>1 DEF Settles

\* When the server has read a nick, it is the one that is asked for last, or another
\* request follows.
LEMMA SettlesServed ==
  ASSUME NEW ts \in Seq(Asked), ts # <<>>, Head(ts).cmd = "NICK",
         NEW name \in Nick, NEW n, NEW k, Settles(ts, name, n, k),
         NEW n2, NEW k2, k2 = k \/ k = Unlinked,
         name \in {Head(ts).nick, k} => name \in {n2, LastNick}
  PROVE  Settles(Tail(ts), name, n2, k2)
<1>1. /\ \A i : AsksLast(Tail(ts), i) => AsksLast(ts, i + 1) /\ ts[i + 1] = Tail(ts)[i]
      /\ NoneAsks(Tail(ts)) => AsksLast(ts, 1)
  BY AsksTail
<1>2. name # Unlinked
  BY ConstantFacts
<1>3. Head(ts) = ts[1]
  OBVIOUS
<1>4. QED BY <1>1, <1>2, <1>3 DEF Settles

\* A command keeps the invariant.
LEMMA CommandKeeps == ASSUME IInv, CommandGiven PROVE IInv'
<1>1. /\ TypeOK /\ SelfKept /\ LinesOK /\ NicksOK /\ DownOK /\ ChannelOK /\ StartOK
      /\ NamesOK /\ RosterOK
  BY DEF IInv
<1>2. /\ users' \in Table /\ self' \in Self /\ Kept(users', self')
      /\ There(users') = There(users) /\ self'.key = self.key
      /\ outcome' \in {"running", "overflow", "not self"}
      /\ typed' \in 0..MaxTyped
      /\ up' = up /\ toClient' = toClient /\ nickOf' = nickOf /\ members' = members
      /\ deeds' = deeds
  BY DEF CommandGiven
<1>3. /\ users \in Table /\ self \in Self /\ self.name \in Nick
      /\ channel \in {"none", "shown", "parted"} /\ up \in BOOLEAN
      /\ mishaps \subseteq Mishap /\ deeds \in 0..MaxDeeds
  BY <1>1, ClientFacts
<1>4. /\ toServer \in Seq(Asked) /\ toClient \in Seq(Told)
      /\ nickOf \in [Person -> Nick \cup {Nil}]
      /\ members \subseteq {p \in Person : nickOf[p] # Nil}
  BY <1>1 DEF LinesOK, TypeOK
<1>5. SUFFICES /\ toServer' \in Seq(Asked) /\ mishaps \subseteq mishaps' /\ mishaps' \subseteq Mishap
               /\ channel' \in {"none", "shown", "parted"}
               /\ DownOK' /\ ChannelOK' /\ StartOK' /\ NamesOK'
  <2>1. TypeOK'
    BY <1>2, <1>3, <1>4, <1>5, NextTyped
  <2>2. SelfKept' /\ LinesOK'
    BY <1>2, <1>4, <1>5, SelfKeptNext DEF LinesOK
  <2>3. NicksOK'
    BY <1>1, <1>2 DEF NicksOK
  <2>4. RosterOK'
    BY <1>1, <1>2, <1>5 DEF RosterOK, All
  <2>5. QED BY <1>5, <2>1, <2>2, <2>3, <2>4 DEF IInv
<1>6. ASSUME NEW x \in Asked, toServer' = Write(<<x>>),
             /\ x.cmd # "NICK"
                /\ self'.name = self.name /\ mishaps' = mishaps
                /\ channel' \in {"shown", "parted"}
             \/ /\ x.cmd = "NICK"
                /\ self'.name = x.nick /\ channel' = channel
                /\ mishaps' = IF up /\ nickOf[Me] = Nil THEN mishaps \cup {"early"} ELSE mishaps
      PROVE  /\ toServer' \in Seq(Asked) /\ mishaps \subseteq mishaps' /\ mishaps' \subseteq Mishap
             /\ channel' \in {"none", "shown", "parted"}
             /\ DownOK' /\ ChannelOK' /\ StartOK' /\ NamesOK'
  <2>1. toServer' = IF up THEN Append(toServer, x) ELSE toServer
    BY <1>4, <1>6, WriteFacts
  <2>2. toServer' \in Seq(Asked)
    BY <1>4, <2>1, AppendProperties
  <2>3. mishaps \subseteq mishaps' /\ mishaps' \subseteq Mishap
    BY <1>3, <1>6 DEF Mishap
  <2>4. DownOK'
    BY <1>1, <1>2, <2>1 DEF DownOK, Registered
  <2>5. ChannelOK'
    <3> SUFFICES ASSUME channel' = "none"
                 PROVE  Me \notin members /\ \A i \in DOMAIN toServer' : toServer'[i].cmd # "JOIN"
      BY <1>2 DEF ChannelOK
    <3>1. /\ x.cmd = "NICK" /\ Me \notin members
          /\ \A j \in DOMAIN toServer : toServer[j].cmd # "JOIN"
      BY <1>1, <1>6 DEF ChannelOK
    <3>2. CASE up
      <4>1. /\ Len(toServer) \in Nat /\ DOMAIN toServer = 1..Len(toServer)
            /\ DOMAIN toServer' = 1..(Len(toServer) + 1)
            /\ \A j \in 1..Len(toServer) : toServer'[j] = toServer[j]
            /\ toServer'[Len(toServer) + 1] = x
        BY <1>4, <2>1, <3>2, AppendProperties
      <4>2. QED BY <3>1, <4>1
    <3>3. CASE ~up
      BY <2>1, <3>1, <3>3
    <3>4. QED BY <3>2, <3>3
  <2>6. StartOK'
    <3> SUFFICES ASSUME up, ~Registered, "early" \notin mishaps'
                 PROVE  /\ self'.key = self'.name
                        /\ \/ /\ toClient = <<>>
                              /\ \E i : /\ Asks(toServer', i) /\ toServer'[i].nick = self'.name
                                        /\ \A j : Asks(toServer', j) => j = i
                           \/ NoneAsks(toServer') /\ toClient = <<Line("433", self'.name)>>
                           \/ NoneAsks(toServer') /\ toClient = <<>> /\ self'.name = LastNick
      BY <1>2 DEF StartOK, Registered
    <3>1. x.cmd # "NICK" /\ self'.name = self.name /\ "early" \notin mishaps
      BY <1>6 DEF Registered
    <3>2. /\ \A i : Asks(Append(toServer, x), i) <=> Asks(toServer, i)
          /\ NoneAsks(Append(toServer, x)) <=> NoneAsks(toServer)
          /\ \A i : Asks(toServer, i) => Append(toServer, x)[i] = toServer[i]
      BY <1>4, <3>1, AsksAppend, ZenonT(30)
    <3>3. toServer' = Append(toServer, x)
      BY <2>1
    <3> DEFINE ts == toServer'
    <3>4. /\ \A i : Asks(ts, i) <=> Asks(toServer, i)
          /\ NoneAsks(ts) <=> NoneAsks(toServer)
          /\ \A i : Asks(toServer, i) => ts[i] = toServer[i]
      BY <3>2, <3>3
    <3> HIDE DEF ts
    <3>5. /\ self'.key = self'.name
          /\ \/ /\ toClient = <<>>
                /\ \E i : /\ Asks(ts, i) /\ ts[i].nick = self'.name
                          /\ \A j : Asks(ts, j) => j = i
             \/ NoneAsks(ts) /\ toClient = <<Line("433", self'.name)>>
             \/ NoneAsks(ts) /\ toClient = <<>> /\ self'.name = LastNick
      BY <1>1, <1>2, <3>1, <3>4 DEF StartOK
    <3>6. QED BY <3>5 DEF ts
  <2>7. NamesOK'
    <3> SUFFICES ASSUME up, Registered, "early" \notin mishaps'
                 PROVE  \E K : Agrees(K, toClient, toServer', self', nickOf[Me])
      BY <1>2 DEF NamesOK, Registered
    <3>1. PICK K : Agrees(K, toClient, toServer, self, nickOf[Me])
      BY <1>1, <2>3 DEF NamesOK
    <3>2. ASSUME NEW k, Settles(toServer, self.name, nickOf[Me], k)
          PROVE  Settles(toServer', self'.name, nickOf[Me], k)
      <4> DEFINE n == nickOf[Me]
      <4>1. toServer' = Append(toServer, x)
        BY <2>1
      <4>2. CASE x.cmd = "NICK"
        <5>1. Settles(Append(toServer, x), x.nick, n, k)
          BY <1>4, <4>2, SettlesAsked
        <5>2. self'.name = x.nick
          BY <1>6, <4>2
        <5>3. QED BY <4>1, <5>1, <5>2
      <4>3. CASE x.cmd # "NICK"
        <5>1. Settles(Append(toServer, x), self.name, n, k)
          BY <1>4, <3>2, <4>3, SettlesAppend
        <5>2. self'.name = self.name
          BY <1>6, <4>3
        <5>3. QED BY <4>1, <5>1, <5>2
      <4>4. QED BY <4>2, <4>3
    <3>3. Agrees(K, toClient, toServer', self', nickOf[Me])
      BY <1>2, <3>1, <3>2, AgreesSame
    <3>4. QED BY <3>3
  <2>8. QED BY <1>3, <1>6, <2>2, <2>3, <2>4, <2>5, <2>6, <2>7
<1>7. CASE /\ toServer' = toServer
           /\ self'.name = self.name /\ mishaps' = mishaps /\ channel' = channel
  <2>1. DownOK' /\ ChannelOK' /\ StartOK'
    BY <1>1, <1>2, <1>7 DEF DownOK, ChannelOK, StartOK, Registered
  <2>2. NamesOK'
    <3> SUFFICES ASSUME up, Registered, "early" \notin mishaps
                 PROVE  \E K : Agrees(K, toClient, toServer, self', nickOf[Me])
      BY <1>2, <1>7 DEF NamesOK, Registered
    <3>1. PICK K : Agrees(K, toClient, toServer, self, nickOf[Me])
      BY <1>1 DEF NamesOK
    <3>2. Agrees(K, toClient, toServer, self', nickOf[Me])
      BY <1>2, <1>7, <3>1, AgreesSame
    <3>3. QED BY <3>2
  <2>3. QED BY <1>3, <1>4, <1>7, <2>1, <2>2
<1>8. QED
  <2>1. ASSUME NEW n \in Nick
        PROVE  Line("NICK", n) \in Asked /\ Line("NICK", n).cmd = "NICK" /\ Line("NICK", n).nick = n
    BY LineFacts
  <2>2. ASSUME NEW c \in {"JOIN", "PART"} PROVE Line(c, Nil) \in Asked /\ Line(c, Nil).cmd # "NICK"
    BY LineFacts
  <2>3. QED BY <1>6, <1>7, <2>1, <2>2 DEF CommandGiven

-----------------------------------------------------------------------------
(* What the others do keeps the invariant.                                 *)

\* A step of the network that leaves the client's nick alone, and whether it is in
\* the channel: the lines that are told cover what has changed.
LEMMA OthersKeep ==
  ASSUME IInv, UNCHANGED <<users, self, channel, up, toServer, mishaps, outcome, typed>>,
         deeds' \in 0..MaxDeeds,
         nickOf' \in [Person -> Nick \cup {Nil}],
         members' \subseteq {p \in Person : nickOf'[p] # Nil},
         NicksOK', nickOf'[Me] = nickOf[Me], Me \in members' <=> Me \in members,
         \/ toClient' = toClient /\ (Me \in members => All' \subseteq All)
         \/ /\ Registered
            /\ \E x \in Told :
                 /\ toClient' = Append(toClient, x)
                 /\ x.cmd # "433"
                 /\ x.cmd = "NICK" => nickOf[Me] \notin {x.nick, x.what}
                 /\ Me \in members => All' \subseteq ThereAfter(All, x)
  PROVE  IInv'
<1>1. /\ TypeOK /\ SelfKept /\ LinesOK /\ NicksOK /\ DownOK /\ ChannelOK /\ StartOK
      /\ NamesOK /\ RosterOK
  BY DEF IInv
<1>2. /\ users \in Table /\ self \in Self /\ Kept(users, self) /\ There(users) \in SUBSET Nick
      /\ channel \in {"none", "shown", "parted"} /\ up \in BOOLEAN
      /\ mishaps \subseteq Mishap
      /\ outcome \in {"running", "overflow", "duplicate", "not self"}
      /\ typed \in 0..MaxTyped
  BY <1>1, ClientFacts
<1>3. toServer \in Seq(Asked) /\ toClient \in Seq(Told)
  BY <1>1 DEF LinesOK
<1>4. (Registered => nickOf[Me] \in Nick) /\ All \in SUBSET Nick
  BY <1>1, ServerFacts
<1>5. SUFFICES toClient' \in Seq(Told) /\ StartOK' /\ NamesOK' /\ RosterOK'
  <2>1. TypeOK'
    BY <1>2, <1>3, <1>5, NextTyped
  <2>2. SelfKept' /\ LinesOK'
    BY <1>2, <1>3, <1>5, SelfKeptNext DEF LinesOK
  <2>3. DownOK' /\ ChannelOK'
    BY <1>1 DEF DownOK, ChannelOK, Registered
  <2>4. QED BY <1>5, <2>1, <2>2, <2>3 DEF IInv
<1>6. CASE toClient' = toClient /\ (Me \in members => All' \subseteq All)
  <2>1. StartOK' /\ NamesOK'
    BY <1>1, <1>6 DEF StartOK, NamesOK, Registered
  <2>2. RosterOK'
    BY <1>1, <1>6 DEF RosterOK, Knows
  <2>3. QED BY <1>3, <1>6, <2>1, <2>2
<1>7. ASSUME Registered, NEW x \in Told, toClient' = Append(toClient, x), x.cmd # "433",
             x.cmd = "NICK" => nickOf[Me] \notin {x.nick, x.what},
             Me \in members => All' \subseteq ThereAfter(All, x)
      PROVE  toClient' \in Seq(Told) /\ StartOK' /\ NamesOK' /\ RosterOK'
  <2>1. toClient' \in Seq(Told)
    BY <1>3, <1>7, AppendProperties
  <2>2. StartOK'
    BY <1>7 DEF StartOK, Registered
  <2>3. NamesOK'
    <3> SUFFICES ASSUME up, "early" \notin mishaps
                 PROVE  \E K : Agrees(K, Append(toClient, x), toServer, self, nickOf[Me])
      BY <1>7 DEF NamesOK
    <3>1. PICK K : Agrees(K, toClient, toServer, self, nickOf[Me])
      BY <1>1, <1>7 DEF NamesOK
    <3>2. nickOf[Me] \in Nick
      BY <1>4, <1>7
    <3>3. ASSUME NEW k \in {nickOf[Me], Unlinked}
          PROVE  KeyAfter(k, x) = k /\ (x.cmd = "NICK" => x.what # k)
      <4>1. x.cmd = "NICK" => k \notin {x.nick, x.what}
        BY <1>7, ToldFacts, ConstantFacts
      <4>2. QED BY <1>7, <4>1 DEF KeyAfter, Rekeyed, Refuses
    <3> DEFINE n == nickOf[Me]
    <3>4. /\ n \in Nick /\ Agrees(K, toClient, toServer, self, n)
          /\ \A k \in {n, Unlinked} :
               /\ KeyAfter(k, x) \in {n, Unlinked}
               /\ x.cmd = "NICK" => x.what # k
               /\ \/ Refuses(x)
                  \/ x.cmd = "NICK" /\ x.nick = k
                  \/ Settles(toServer, self.name, n, k)
                       => Settles(toServer, self.name, n, KeyAfter(k, x))
      BY <3>1, <3>2, <3>3
    <3> HIDE DEF n
    <3>5. \E K2 : Agrees(K2, Append(toClient, x), toServer, self, n)
      BY <1>2, <1>3, <3>4, AgreesAdd
    <3>6. QED BY <3>5 DEF n
  <2>4. RosterOK'
    <3> SUFFICES ASSUME up, Me \in members, mishaps = {}
                 PROVE  \E T : Knows(T, Append(toClient, x), There(users), All')
      BY <1>7 DEF RosterOK, There
    <3>1. PICK T : Knows(T, toClient, There(users), All)
      BY <1>1 DEF RosterOK
    <3>2. QED BY <1>2, <1>3, <1>4, <1>7, <3>1, KnowsAdd
  <2>5. QED BY <2>1, <2>2, <2>3, <2>4
<1>8. QED BY <1>6, <1>7

\* The server tells one line.
LEMMA OneLine ==
  ASSUME toClient \in Seq(Told), NEW x \in Told
  PROVE  toClient \o <<x>> = Append(toClient, x)
  BY AppendIsConcat

\* What the others' deeds share.
LEMMA ActingFacts ==
  ASSUME TypeOK, SelfKept, Acting
  PROVE  /\ deeds' \in 0..MaxDeeds
         /\ UNCHANGED <<users, self, channel, mishaps, outcome, typed>>
<1>1. deeds \in 0..MaxDeeds /\ MaxDeeds \in Nat
  BY ClientFacts, SessionOK
<1>2. QED BY <1>1 DEF Acting, table

\* Somebody comes.
LEMMA ComesKeeps == ASSUME IInv, NEW p \in Other, NEW n \in Nick, Comes(p, n) PROVE IInv'
<1> DEFINE x == Line("JOIN", n)
<1>1. /\ TypeOK /\ SelfKept /\ NicksOK /\ toClient \in Seq(Told)
  BY DEF IInv, LinesOK
<1>2. /\ nickOf \in [Person -> Nick \cup {Nil}]
      /\ members \subseteq Person /\ \A q \in members : nickOf[q] \in Nick
      /\ Me \in members => Registered
      /\ \A q, r \in Person : q # r /\ nickOf[q] # Nil => nickOf[q] # nickOf[r]
  BY <1>1, ServerFacts
<1>3. /\ p \in Person /\ p # Me /\ Me \in Person /\ Nil \notin Nick
  BY ConstantFacts DEF Person
<1>4. /\ nickOf[p] = Nil /\ \A q \in Person : q # p => nickOf[q] # n
      /\ nickOf' = [nickOf EXCEPT ![p] = n] /\ members' = members \cup {p}
      /\ up' = up /\ toServer' = toServer
  BY DEF Comes, Taken
<1>5. /\ deeds' \in 0..MaxDeeds
      /\ UNCHANGED <<users, self, channel, mishaps, outcome, typed>>
  BY <1>1, ActingFacts DEF Comes
<1>6. /\ nickOf' \in [Person -> Nick \cup {Nil}] /\ nickOf'[p] = n
      /\ \A q \in Person : q # p => nickOf'[q] = nickOf[q]
  BY <1>2, <1>3, <1>4
<1>7. members' \subseteq {q \in Person : nickOf'[q] # Nil}
  BY <1>2, <1>3, <1>4, <1>6
<1>8. NicksOK'
  BY <1>2, <1>4, <1>6 DEF NicksOK
<1>9. x \in Told /\ x.cmd = "JOIN" /\ x.nick = n
  BY LineFacts
<1>10. toClient' = IF Me \in members THEN Append(toClient, x) ELSE toClient
  BY <1>1, <1>9, OneLine DEF Comes, Tell
<1>11. All' \subseteq All \cup {n}
  BY <1>2, <1>3, <1>4, <1>6 DEF All
<1>12. ThereAfter(All, x) = All \cup {n}
  BY <1>9 DEF ThereAfter, Refuses
<1> HIDE DEF x
<1>13. QED BY <1>2, <1>3, <1>4, <1>5, <1>6, <1>7, <1>8, <1>9, <1>10, <1>11, <1>12, OthersKeep

\* Somebody takes another nick.
LEMMA RenamesKeeps == ASSUME IInv, NEW p \in Other, NEW n \in Nick, Renames(p, n) PROVE IInv'
<1> DEFINE x == Change(p, n)
           old == nickOf[p]
<1>1. /\ TypeOK /\ SelfKept /\ NicksOK /\ toClient \in Seq(Told)
  BY DEF IInv, LinesOK
<1>2. /\ nickOf \in [Person -> Nick \cup {Nil}]
      /\ members \subseteq Person /\ \A q \in members : nickOf[q] \in Nick
      /\ Me \in members => Registered
      /\ \A q, r \in Person : q # r /\ nickOf[q] # Nil => nickOf[q] # nickOf[r]
  BY <1>1, ServerFacts
<1>3. /\ p \in Person /\ p # Me /\ Me \in Person /\ Nil \notin Nick
  BY ConstantFacts DEF Person
<1>4. /\ old \notin {Nil, n} /\ \A q \in Person : q # p => nickOf[q] # n
      /\ nickOf' = [nickOf EXCEPT ![p] = n] /\ members' = members
      /\ up' = up /\ toServer' = toServer
  BY DEF Renames, Taken
<1>5. /\ deeds' \in 0..MaxDeeds
      /\ UNCHANGED <<users, self, channel, mishaps, outcome, typed>>
  BY <1>1, ActingFacts DEF Renames
<1>6. /\ nickOf' \in [Person -> Nick \cup {Nil}] /\ nickOf'[p] = n
      /\ \A q \in Person : q # p => nickOf'[q] = nickOf[q]
  BY <1>2, <1>3, <1>4
<1>7. members' \subseteq {q \in Person : nickOf'[q] # Nil}
  BY <1>2, <1>3, <1>4, <1>6
<1>8. NicksOK'
  BY <1>2, <1>4, <1>6 DEF NicksOK
<1>9. old \in Nick /\ nickOf[Me] \notin {old, n}
  BY <1>2, <1>3, <1>4
<1>10. x \in Told /\ x.cmd = "NICK" /\ x.nick = old /\ x.what = n
  BY <1>9 DEF Change, Told
<1>11. toClient' = IF Sees(p) THEN Append(toClient, x) ELSE toClient
  BY <1>1, <1>10, OneLine DEF Renames, Tell
<1> HIDE DEF x
<1>12. CASE Sees(p)
  <2>1. p \in members /\ Me \in members
    BY <1>12 DEF Sees
  <2>2. All' \subseteq (All \ {old, n}) \cup {n} /\ old \in All
    BY <1>2, <1>3, <1>4, <1>6, <2>1 DEF All
  <2>3. ThereAfter(All, x) = (All \ {old, n}) \cup {n}
    BY <1>10, <2>2 DEF ThereAfter, Moved, Refuses
  <2> HIDE DEF old
  <2>4. QED BY <1>2, <1>4, <1>5, <1>6, <1>7, <1>8, <1>9, <1>10, <1>11, <1>12, <2>1, <2>2, <2>3,
               <1>3, OthersKeep
<1>13. CASE ~Sees(p)
  <2>1. Me \in members => p \notin members
    BY <1>13 DEF Sees
  <2>2. Me \in members => All' \subseteq All
    BY <1>2, <1>4, <1>6, <2>1 DEF All
  <2>3. QED BY <1>3, <1>4, <1>5, <1>6, <1>7, <1>8, <1>11, <1>13, <2>2, OthersKeep
<1>14. QED BY <1>12, <1>13

\* Somebody leaves the channel.
LEMMA LeavesKeeps == ASSUME IInv, NEW p \in Other, Leaves(p) PROVE IInv'
<1> DEFINE old == nickOf[p]
           x == Line("PART", old)
<1>1. /\ TypeOK /\ SelfKept /\ NicksOK /\ toClient \in Seq(Told)
  BY DEF IInv, LinesOK
<1>2. /\ nickOf \in [Person -> Nick \cup {Nil}]
      /\ members \subseteq Person /\ \A q \in members : nickOf[q] \in Nick
      /\ Me \in members => Registered
      /\ \A q, r \in Person : q # r /\ nickOf[q] # Nil => nickOf[q] # nickOf[r]
  BY <1>1, ServerFacts
<1>3. /\ p \in Person /\ p # Me /\ Me \in Person /\ Nil \notin Nick
  BY ConstantFacts DEF Person
<1>4. /\ p \in members /\ members' = members \ {p} /\ nickOf' = nickOf
      /\ up' = up /\ toServer' = toServer
  BY DEF Leaves
<1>5. /\ deeds' \in 0..MaxDeeds
      /\ UNCHANGED <<users, self, channel, mishaps, outcome, typed>>
  BY <1>1, ActingFacts DEF Leaves
<1>6. members' \subseteq {q \in Person : nickOf'[q] # Nil}
  BY <1>2, <1>3, <1>4
<1>7. NicksOK'
  BY <1>1, <1>4 DEF NicksOK
<1>8. old \in Nick
  BY <1>2, <1>4
<1>9. x \in Told /\ x.cmd = "PART" /\ x.nick = old
  BY <1>8, LineFacts
<1>10. toClient' = IF Sees(p) THEN Append(toClient, x) ELSE toClient
  BY <1>1, <1>9, OneLine DEF Leaves, Tell
<1>11. All' \subseteq All \ {old}
  BY <1>2, <1>3, <1>4 DEF All
<1>12. ThereAfter(All, x) = All \ {old}
  BY <1>9 DEF ThereAfter, Refuses
<1>13. Sees(p) => Registered
  BY <1>2 DEF Sees
<1> HIDE DEF x, old
<1>14. QED BY <1>2, <1>3, <1>4, <1>5, <1>6, <1>7, <1>9, <1>10, <1>11, <1>12, <1>13, OthersKeep

\* Somebody quits.
LEMMA QuitsKeeps == ASSUME IInv, NEW p \in Other, Quits(p) PROVE IInv'
<1> DEFINE old == nickOf[p]
           x == Line("QUIT", old)
<1>1. /\ TypeOK /\ SelfKept /\ NicksOK /\ toClient \in Seq(Told)
  BY DEF IInv, LinesOK
<1>2. /\ nickOf \in [Person -> Nick \cup {Nil}]
      /\ members \subseteq Person /\ \A q \in members : nickOf[q] \in Nick
      /\ Me \in members => Registered
      /\ \A q, r \in Person : q # r /\ nickOf[q] # Nil => nickOf[q] # nickOf[r]
  BY <1>1, ServerFacts
<1>3. /\ p \in Person /\ p # Me /\ Me \in Person /\ Nil \notin Nick
  BY ConstantFacts DEF Person
<1>4. /\ old # Nil /\ members' = members \ {p} /\ nickOf' = [nickOf EXCEPT ![p] = Nil]
      /\ up' = up /\ toServer' = toServer
  BY DEF Quits
<1>5. /\ deeds' \in 0..MaxDeeds
      /\ UNCHANGED <<users, self, channel, mishaps, outcome, typed>>
  BY <1>1, ActingFacts DEF Quits
<1>6. /\ nickOf' \in [Person -> Nick \cup {Nil}] /\ nickOf'[p] = Nil
      /\ \A q \in Person : q # p => nickOf'[q] = nickOf[q]
  BY <1>2, <1>3, <1>4
<1>7. members' \subseteq {q \in Person : nickOf'[q] # Nil}
  BY <1>2, <1>3, <1>4, <1>6
<1>8. NicksOK'
  BY <1>2, <1>6 DEF NicksOK
<1>9. old \in Nick
  BY <1>2, <1>3, <1>4
<1>10. x \in Told /\ x.cmd = "QUIT" /\ x.nick = old
  BY <1>9, LineFacts
<1>11. toClient' = IF Sees(p) THEN Append(toClient, x) ELSE toClient
  BY <1>1, <1>10, OneLine DEF Quits, Tell
<1>12. All' \subseteq All \ {old}
  BY <1>2, <1>3, <1>4, <1>6 DEF All
<1>13. ThereAfter(All, x) = All \ {old}
  BY <1>10 DEF ThereAfter, Refuses
<1>14. Sees(p) => Registered
  BY <1>2 DEF Sees
<1> HIDE DEF x, old
<1>15. QED BY <1>3, <1>4, <1>5, <1>6, <1>7, <1>8, <1>10, <1>11, <1>12, <1>13, <1>14, OthersKeep

\* Somebody speaks.
LEMMA SpeaksKeeps == ASSUME IInv, NEW p \in Other, Speaks(p) PROVE IInv'
<1>1. /\ TypeOK /\ SelfKept /\ NicksOK /\ toClient \in Seq(Told)
  BY DEF IInv, LinesOK
<1>2. /\ nickOf \in [Person -> Nick \cup {Nil}]
      /\ members \subseteq {q \in Person : nickOf[q] # Nil}
      /\ Registered => nickOf[Me] \in Nick
  BY <1>1, ServerFacts DEF TypeOK
<1>3. p \in Person /\ Nil \notin Nick
  BY ConstantFacts DEF Person
<1>4. /\ nickOf[p] # Nil /\ Registered /\ UNCHANGED <<nickOf, members, up, toServer>>
      /\ \E dest \in {nickOf[Me]} \cup (IF Sees(p) THEN {Channel} ELSE {}) :
           Tell(TRUE, <<[cmd |-> "PRIVMSG", nick |-> nickOf[p], what |-> dest]>>)
  BY DEF Speaks
<1>5. PICK dest \in {nickOf[Me], Channel} :
        Tell(TRUE, <<[cmd |-> "PRIVMSG", nick |-> nickOf[p], what |-> dest]>>)
  BY <1>4
<1> DEFINE x == [cmd |-> "PRIVMSG", nick |-> nickOf[p], what |-> dest]
<1>6. nickOf[p] \in Nick /\ dest \in Nick \cup {Channel}
  BY <1>2, <1>3, <1>4
<1>7. x \in Told /\ x.cmd = "PRIVMSG"
  BY <1>6 DEF Told
<1>8. toClient' = Append(toClient, x)
  BY <1>1, <1>5, <1>7, OneLine DEF Tell
<1>9. /\ deeds' \in 0..MaxDeeds
      /\ UNCHANGED <<users, self, channel, mishaps, outcome, typed>>
  BY <1>1, ActingFacts DEF Speaks
<1> HIDE DEF x
<1>10. All' = All /\ ThereAfter(All, x) = All
  BY <1>4, <1>7 DEF All, ThereAfter, Refuses
<1>11. NicksOK'
  BY <1>1, <1>4 DEF NicksOK
<1>12. QED BY <1>2, <1>4, <1>7, <1>8, <1>9, <1>10, <1>11, OthersKeep

\* The connection breaks.
LEMMA DropsKeeps == ASSUME IInv, Drops PROVE IInv'
<1>1. /\ TypeOK /\ SelfKept /\ NicksOK /\ toClient \in Seq(Told)
  BY DEF IInv, LinesOK
<1>2. /\ users \in Table /\ self \in Self /\ Kept(users, self)
      /\ channel \in {"none", "shown", "parted"}
      /\ mishaps \subseteq Mishap
      /\ outcome \in {"running", "overflow", "duplicate", "not self"}
      /\ typed \in 0..MaxTyped
  BY <1>1, ClientFacts
<1>3. /\ nickOf \in [Person -> Nick \cup {Nil}]
      /\ members \subseteq Person /\ \A q \in members : nickOf[q] \in Nick
      /\ Registered => nickOf[Me] \in Nick
      /\ \A q, r \in Person : q # r /\ nickOf[q] # Nil => nickOf[q] # nickOf[r]
  BY <1>1, ServerFacts
<1>4. Me \in Person /\ Nil \notin Nick
  BY ConstantFacts
<1>5. /\ up' = FALSE /\ toServer' = <<>> /\ members' = members \ {Me}
      /\ nickOf' = [nickOf EXCEPT ![Me] = Nil]
      /\ \E told \in BOOLEAN : Tell(told /\ Registered, <<Line("QUIT", nickOf[Me])>>)
  BY DEF Drops
<1>6. /\ deeds' \in 0..MaxDeeds
      /\ UNCHANGED <<users, self, channel, mishaps, outcome, typed>>
  BY <1>1, ActingFacts DEF Drops
<1>7. /\ nickOf' \in [Person -> Nick \cup {Nil}] /\ nickOf'[Me] = Nil
      /\ \A q \in Person : q # Me => nickOf'[q] = nickOf[q]
  BY <1>3, <1>4, <1>5
<1>8. members' \subseteq {q \in Person : nickOf'[q] # Nil}
  BY <1>3, <1>4, <1>5, <1>7
<1>9. NicksOK'
  BY <1>3, <1>7 DEF NicksOK
<1>10. toClient' \in Seq(Told)
  <2> DEFINE x == Line("QUIT", nickOf[Me])
  <2>1. CASE Registered
    <3>1. x \in Told
      BY <1>3, <2>1, LineFacts
    <3> HIDE DEF x
    <3>2. toClient' \in {Append(toClient, x), toClient}
      BY <1>1, <1>5, <3>1, OneLine DEF Tell, x
    <3>3. QED BY <1>1, <3>1, <3>2, AppendProperties
  <2>2. CASE ~Registered
    BY <1>1, <1>5, <2>2 DEF Tell
  <2>3. QED BY <2>1, <2>2
<1>11. toServer' \in Seq(Asked)
  BY <1>5, EmptySeq
<1>12. TypeOK'
  BY <1>2, <1>5, <1>6, <1>7, <1>8, <1>10, <1>11, NextTyped
<1>13. SelfKept' /\ LinesOK'
  BY <1>2, <1>6, <1>10, <1>11, SelfKeptNext DEF LinesOK
<1>14. DownOK' /\ ChannelOK' /\ StartOK' /\ NamesOK' /\ RosterOK'
  BY <1>5, <1>7 DEF DownOK, ChannelOK, StartOK, NamesOK, RosterOK, Registered
<1>15. QED BY <1>9, <1>12, <1>13, <1>14 DEF IInv

-----------------------------------------------------------------------------
(* What the server does keeps the invariant.                               *)

\* The line that the server reads.
LEMMA ServingFacts ==
  ASSUME IInv, NEW c, Serving(c)
  PROVE  /\ up /\ toServer \in Seq(Asked) /\ toServer # <<>>
         /\ Head(toServer) \in Asked /\ Head(toServer).cmd = c
         /\ toServer' = Tail(toServer) /\ toServer' \in Seq(Asked)
         /\ toClient \in Seq(Told)
         /\ UNCHANGED <<users, self, channel, up, outcome, typed, deeds>>
<1>1. up /\ toServer \in Seq(Asked) /\ toServer # <<>> /\ toClient \in Seq(Told)
  BY DEF IInv, LinesOK, Serving
<1>2. Head(toServer) \in Asked /\ Tail(toServer) \in Seq(Asked)
  BY <1>1, HeadTailProperties
<1>3. QED BY <1>1, <1>2 DEF Serving, table

\* What is left to show when the server reads a line.
LEMMA ServingKeeps ==
  ASSUME IInv, NEW c, Serving(c),
         toClient' \in Seq(Told),
         nickOf' \in [Person -> Nick \cup {Nil}],
         members' \subseteq {p \in Person : nickOf'[p] # Nil},
         mishaps' \subseteq Mishap,
         NicksOK', c = "JOIN" \/ (Me \in members' => Me \in members),
         StartOK', NamesOK', RosterOK'
  PROVE  IInv'
<1>1. TypeOK /\ SelfKept /\ ChannelOK
  BY DEF IInv
<1>2. /\ users \in Table /\ self \in Self /\ Kept(users, self)
      /\ channel \in {"none", "shown", "parted"} /\ up \in BOOLEAN
      /\ outcome \in {"running", "overflow", "duplicate", "not self"}
      /\ typed \in 0..MaxTyped /\ deeds \in 0..MaxDeeds
  BY <1>1, ClientFacts
<1>3. /\ up /\ toServer \in Seq(Asked) /\ toServer # <<>>
      /\ Head(toServer).cmd = c
      /\ toServer' = Tail(toServer) /\ toServer' \in Seq(Asked)
      /\ UNCHANGED <<users, self, channel, up, outcome, typed, deeds>>
  BY ServingFacts
<1>4. TypeOK'
  BY <1>2, <1>3, NextTyped
<1>5. SelfKept' /\ LinesOK' /\ DownOK'
  BY <1>2, <1>3, SelfKeptNext DEF LinesOK, DownOK
<1>6. ChannelOK'
  <2>1. /\ Len(toServer) \in Nat /\ DOMAIN toServer = 1..Len(toServer)
        /\ Head(toServer) = toServer[1] /\ 1 \in DOMAIN toServer
        /\ DOMAIN Tail(toServer) = 1..(Len(toServer) - 1)
        /\ \A i \in 1..(Len(toServer) - 1) :
             i + 1 \in DOMAIN toServer /\ Tail(toServer)[i] = toServer[i + 1]
    BY <1>3, EmptySeq, HeadTailProperties
  <2>2. CASE channel = "none"
    <3>1. Me \notin members /\ \A i \in DOMAIN toServer : toServer[i].cmd # "JOIN"
      BY <1>1, <2>2 DEF ChannelOK
    <3>2. \A i \in DOMAIN Tail(toServer) : Tail(toServer)[i].cmd # "JOIN"
      BY <2>1, <3>1
    <3>3. Me \notin members'
      BY <1>3, <2>1, <3>1
    <3>4. QED BY <1>3, <3>2, <3>3 DEF ChannelOK
  <2>3. CASE channel # "none"
    BY <1>3, <2>3 DEF ChannelOK
  <2>4. QED BY <2>2, <2>3
<1>7. QED BY <1>4, <1>5, <1>6 DEF IInv

\* The server refuses a nick.
LEMMA RefusalKeeps ==
  ASSUME IInv, ServeNick, Taken(Head(toServer).nick, Me)
  PROVE  IInv'
<1> DEFINE n == Head(toServer).nick
           x == Line("433", n)
           me == nickOf[Me]
<1>1. Serving("NICK") /\ TypeOK /\ SelfKept /\ NicksOK /\ StartOK /\ NamesOK /\ RosterOK
  BY DEF ServeNick, IInv
<1>2. /\ up /\ toServer \in Seq(Asked) /\ toServer # <<>>
      /\ Head(toServer) \in Asked /\ Head(toServer).cmd = "NICK"
      /\ toServer' = Tail(toServer) /\ toServer' \in Seq(Asked)
      /\ toClient \in Seq(Told)
      /\ UNCHANGED <<users, self, channel, up, outcome, typed, deeds>>
  BY <1>1, ServingFacts
<1>3. n \in Nick
  BY <1>2, LineFacts
<1>4. x \in Told /\ x.cmd = "433" /\ x.nick = n
  BY <1>3, LineFacts
<1>5. toClient' = Append(toClient, x)
  BY <1>2, <1>4, OneLine DEF ServeNick, Tell
<1>6. /\ mishaps' = IF Registered THEN mishaps \cup {"refused"} ELSE mishaps
      /\ nickOf' = nickOf /\ members' = members
  BY DEF ServeNick
<1>7. /\ users \in Table /\ self \in Self /\ self.name \in Nick
      /\ mishaps \subseteq Mishap
  BY <1>1, ClientFacts
<1>8. /\ nickOf \in [Person -> Nick \cup {Nil}]
      /\ members \subseteq {p \in Person : nickOf[p] # Nil}
  BY <1>1 DEF TypeOK
<1>9. toClient' \in Seq(Told)
  BY <1>2, <1>4, <1>5, AppendProperties
<1>10. n # me
  <2>1. PICK q \in Person \ {Me} : nickOf[q] = n
    BY DEF Taken
  <2>2. QED BY <1>1, <1>3, <2>1, ConstantFacts DEF NicksOK
<1>11. StartOK'
  <2> SUFFICES ASSUME ~Registered, "early" \notin mishaps
               PROVE  /\ self.key = self.name
                      /\ NoneAsks(Tail(toServer)) /\ toClient' = <<Line("433", self.name)>>
    BY <1>2, <1>6 DEF StartOK, Registered
  <2>1. Asks(toServer, 1) /\ toServer[1] = Head(toServer)
    BY <1>2, AsksTail
  <2>2. /\ self.key = self.name /\ toClient = <<>>
        /\ \A j : Asks(toServer, j) => j = 1
        /\ toServer[1].nick = self.name
    BY <1>1, <1>2, <2>1 DEF StartOK, NoneAsks, Asks
  <2>3. NoneAsks(Tail(toServer))
    <3>1. \A i : Asks(Tail(toServer), i) => Asks(toServer, i + 1) /\ i \in Nat /\ i >= 1
      BY <1>2, AsksTail
    <3>2. QED BY <2>2, <3>1 DEF NoneAsks
  <2>4. toClient' = <<Line("433", self.name)>>
    BY <1>5, <2>1, <2>2
  <2>5. QED BY <2>2, <2>3, <2>4
<1>12. NamesOK'
  <2> SUFFICES ASSUME Registered, "early" \notin mishaps
               PROVE  \E K : Agrees(K, Append(toClient, x), Tail(toServer), self, me)
    BY <1>2, <1>5, <1>6 DEF NamesOK, Registered
  <2>1. PICK K : Agrees(K, toClient, toServer, self, me)
    BY <1>1, <1>2 DEF NamesOK
  <2>2. me \in Nick
    BY <1>1, ServerFacts
  <2> HIDE DEF me, x, n
  <2>3. ASSUME NEW k \in {me, Unlinked} PROVE KeyAfter(k, x) \in {k, Unlinked}
    BY <1>3, <1>4, <1>10, ConstantFacts DEF KeyAfter, Rekeyed
  <2>4. ASSUME NEW k \in {me, Unlinked}, ~Refuses(x), Settles(toServer, self.name, me, k)
        PROVE  Settles(Tail(toServer), self.name, me, KeyAfter(k, x))
    <3>1. KeyAfter(k, x) = k
      BY <1>4, <2>4 DEF KeyAfter
    <3>2. n = LastNick
      BY <1>4, <2>4 DEF Refuses
    <3>3. self.name \in {n, k} => self.name \in {me, LastNick}
      BY <1>7, <3>2, ConstantFacts
    <3>4. QED BY <1>2, <1>7, <2>4, <3>1, <3>3, SettlesServed DEF n
  <2>5. \A k \in {me, Unlinked} :
          /\ KeyAfter(k, x) \in {me, Unlinked}
          /\ x.cmd = "NICK" => x.what # k
          /\ \/ Refuses(x)
             \/ x.cmd = "NICK" /\ x.nick = k
             \/ Settles(toServer, self.name, me, k)
                  => Settles(Tail(toServer), self.name, me, KeyAfter(k, x))
    BY <1>4, <2>3, <2>4
  <2>6. QED BY <1>2, <1>4, <1>7, <2>1, <2>2, <2>5, AgreesAdd
<1>13. RosterOK'
  <2>1. Me \in members => mishaps' # {}
    BY <1>1, <1>6, ServerFacts
  <2>2. QED BY <1>6, <2>1 DEF RosterOK
<1>14. NicksOK' /\ mishaps' \subseteq Mishap
  BY <1>1, <1>6, <1>7 DEF NicksOK, Mishap
<1>15. QED BY <1>1, <1>6, <1>8, <1>9, <1>11, <1>12, <1>13, <1>14, ServingKeeps

\* The server accepts the first nick.
LEMMA WelcomeKeeps ==
  ASSUME IInv, ServeNick, ~Taken(Head(toServer).nick, Me), ~Registered
  PROVE  IInv'
<1> DEFINE n == Head(toServer).nick
<1>1. Serving("NICK") /\ TypeOK /\ SelfKept /\ NicksOK /\ StartOK
  BY DEF ServeNick, IInv
<1>2. /\ up /\ toServer \in Seq(Asked) /\ toServer # <<>>
      /\ Head(toServer) \in Asked /\ Head(toServer).cmd = "NICK"
      /\ toServer' = Tail(toServer) /\ toClient \in Seq(Told)
      /\ UNCHANGED <<users, self, channel, up, outcome, typed, deeds>>
  BY <1>1, ServingFacts
<1>3. n \in Nick
  BY <1>2, LineFacts
<1>4. /\ nickOf' = [nickOf EXCEPT ![Me] = n] /\ members' = members
      /\ mishaps' = mishaps /\ toClient' = toClient
  BY DEF ServeNick, Tell
<1>5. /\ self \in Self /\ self.key \in Key /\ self.name \in Nick /\ mishaps \subseteq Mishap
  BY <1>1, ClientFacts
<1>6. /\ nickOf \in [Person -> Nick \cup {Nil}] /\ Me \in Person /\ Nil \notin Nick
      /\ members \subseteq {p \in Person : nickOf[p] # Nil} /\ Me \notin members
  BY <1>1, ConstantFacts DEF TypeOK, Registered
<1>7. /\ nickOf' \in [Person -> Nick \cup {Nil}] /\ nickOf'[Me] = n
      /\ \A q \in Person : q # Me => nickOf'[q] = nickOf[q] /\ nickOf[q] # n
  BY <1>3, <1>4, <1>6 DEF Taken
<1>8. members' \subseteq {p \in Person : nickOf'[p] # Nil}
  BY <1>4, <1>6, <1>7
<1>9. NicksOK'
  BY <1>1, <1>7 DEF NicksOK
<1>10. StartOK' /\ RosterOK'
  BY <1>3, <1>4, <1>6, <1>7 DEF StartOK, RosterOK, Registered
<1>11. NamesOK'
  <2> SUFFICES ASSUME "early" \notin mishaps
               PROVE  \E K : Agrees(K, <<>>, Tail(toServer), self, n)
    <3>1. NamesOK' <=> (/\ up' /\ Registered' /\ "early" \notin mishaps'
                        => \E K : Agrees(K, toClient', toServer', self', nickOf'[Me]))
      BY DEF NamesOK
    <3>2. "early" \notin mishaps => toClient = <<>>
      BY <1>1, <1>2, AsksTail DEF StartOK, NoneAsks, Asks
    <3>3. QED BY <1>2, <1>4, <1>7, <3>1, <3>2
  <2>1. Asks(toServer, 1) /\ toServer[1] = Head(toServer)
    BY <1>2, AsksTail
  <2>2. /\ self.key = self.name /\ self.name = n
        /\ \A j : Asks(toServer, j) => j = 1
    BY <1>1, <1>2, <2>1 DEF StartOK, NoneAsks, Asks
  <2>3. \A i : ~Asks(Tail(toServer), i)
    <3>1. \A i : Asks(Tail(toServer), i) => Asks(toServer, i + 1) /\ i \in Nat /\ i >= 1
      BY <1>2, AsksTail
    <3>2. QED BY <2>2, <3>1
  <2>4. Settles(Tail(toServer), self.name, n, self.key)
    BY <2>2, <2>3 DEF Settles, AsksLast
  <2> DEFINE K == [i \in 0..0 |-> self.key]
  <2>5. /\ Len(<<>>) = 0 /\ DOMAIN <<>> = {} /\ K[0] = self.key /\ K \in [0..0 -> Key]
    BY <1>5
  <2>6. Keys(K, <<>>, self.key)
    BY <2>5 DEF Keys, Passes
  <2> HIDE DEF K
  <2>7. Agrees(K, <<>>, Tail(toServer), self, n)
    BY <2>2, <2>4, <2>5, <2>6 DEF Agrees
  <2>8. QED BY <2>7
<1>12. QED BY <1>1, <1>2, <1>4, <1>5, <1>7, <1>8, <1>9, <1>10, <1>11, ServingKeeps

\* The server accepts the nick that the client has.
LEMMA SameNickKeeps ==
  ASSUME IInv, ServeNick, Registered, nickOf[Me] = Head(toServer).nick,
         ~Taken(Head(toServer).nick, Me)
  PROVE  IInv'
<1> DEFINE me == nickOf[Me]
<1>1. /\ Serving("NICK") /\ TypeOK /\ SelfKept /\ NicksOK /\ NamesOK /\ RosterOK
  BY DEF ServeNick, IInv
<1>2. /\ up /\ toServer \in Seq(Asked) /\ toServer # <<>>
      /\ Head(toServer).cmd = "NICK"
      /\ toServer' = Tail(toServer) /\ toClient \in Seq(Told)
      /\ UNCHANGED <<users, self, channel, up, outcome, typed, deeds>>
  BY <1>1, ServingFacts
<1>3. /\ nickOf' = [nickOf EXCEPT ![Me] = Head(toServer).nick]
      /\ members' = members /\ mishaps' = mishaps /\ toClient' = toClient
  BY DEF ServeNick, Tell
<1>4. /\ nickOf \in [Person -> Nick \cup {Nil}]
      /\ members \subseteq {p \in Person : nickOf[p] # Nil}
  BY <1>1 DEF TypeOK
<1>5. nickOf' = nickOf
  BY <1>3, <1>4
<1>6. self.name \in Nick /\ mishaps \subseteq Mishap
  BY <1>1, ClientFacts
<1>7. NicksOK' /\ StartOK'
  BY <1>1, <1>5 DEF NicksOK, StartOK, Registered
<1>8. RosterOK'
  BY <1>1, <1>2, <1>3, <1>5 DEF RosterOK, All
<1>9. NamesOK'
  <2> SUFFICES ASSUME "early" \notin mishaps
               PROVE  \E K : Agrees(K, toClient, Tail(toServer), self, me)
    BY <1>2, <1>3, <1>5 DEF NamesOK, Registered
  <2>1. PICK K : Agrees(K, toClient, toServer, self, me)
    BY <1>1, <1>2 DEF NamesOK
  <2>2. Head(toServer).nick = me
    OBVIOUS
  <2> HIDE DEF me
  <2>3. ASSUME NEW k \in {me, Unlinked}, Settles(toServer, self.name, me, k)
        PROVE  Settles(Tail(toServer), self.name, me, k)
    <3>1. self.name \in {Head(toServer).nick, k} => self.name \in {me, LastNick}
      BY <1>6, <2>2, ConstantFacts
    <3>2. QED BY <1>2, <1>6, <2>3, <3>1, SettlesServed
  <2>4. Agrees(K, toClient, Tail(toServer), self, me)
    BY <2>1, <2>3, AgreesSame
  <2>5. QED BY <2>4
<1>10. QED BY <1>1, <1>2, <1>3, <1>4, <1>5, <1>6, <1>7, <1>8, <1>9, ServingKeeps

\* The server accepts another nick.
LEMMA NewNickKeeps ==
  ASSUME IInv, ServeNick, Registered, nickOf[Me] # Head(toServer).nick,
         ~Taken(Head(toServer).nick, Me)
  PROVE  IInv'
<1> DEFINE n == Head(toServer).nick
           me == nickOf[Me]
           x == Change(Me, n)
<1>1. /\ Serving("NICK") /\ TypeOK /\ SelfKept /\ NicksOK /\ NamesOK /\ RosterOK
  BY DEF ServeNick, IInv
<1>2. /\ up /\ toServer \in Seq(Asked) /\ toServer # <<>>
      /\ Head(toServer) \in Asked /\ Head(toServer).cmd = "NICK"
      /\ toServer' = Tail(toServer) /\ toClient \in Seq(Told)
      /\ UNCHANGED <<users, self, channel, up, outcome, typed, deeds>>
  BY <1>1, ServingFacts
<1>3. n \in Nick /\ me \in Nick /\ me # n
  BY <1>1, <1>2, LineFacts, ServerFacts
<1>4. x \in Told /\ x.cmd = "NICK" /\ x.nick = me /\ x.what = n
  BY <1>3 DEF Change, Told
<1>5. toClient' = Append(toClient, x)
  <2>1. Tell(Registered /\ nickOf[Me] # n, <<x>>)
    BY DEF ServeNick
  <2>2. QED BY <1>2, <1>4, <2>1, OneLine DEF Tell
<1>6. /\ nickOf' = [nickOf EXCEPT ![Me] = n] /\ members' = members /\ mishaps' = mishaps
  BY DEF ServeNick
<1>7. /\ self \in Self /\ self.name \in Nick /\ mishaps \subseteq Mishap
      /\ There(users) \in SUBSET Nick
  BY <1>1, ClientFacts
<1>8. /\ nickOf \in [Person -> Nick \cup {Nil}] /\ Me \in Person /\ Nil \notin Nick
      /\ members \subseteq {p \in Person : nickOf[p] # Nil}
      /\ members \subseteq Person /\ All \in SUBSET Nick
      /\ \A q, r \in Person : q # r /\ nickOf[q] # Nil => nickOf[q] # nickOf[r]
  BY <1>1, ServerFacts, ConstantFacts DEF TypeOK
<1>9. /\ nickOf' \in [Person -> Nick \cup {Nil}] /\ nickOf'[Me] = n
      /\ \A q \in Person : q # Me => nickOf'[q] = nickOf[q] /\ nickOf[q] # n
  BY <1>3, <1>6, <1>8 DEF Taken
<1>10. members' \subseteq {p \in Person : nickOf'[p] # Nil}
  BY <1>3, <1>6, <1>8, <1>9
<1>11. NicksOK' /\ StartOK'
  BY <1>1, <1>3, <1>8, <1>9 DEF NicksOK, StartOK, Registered
<1>12. toClient' \in Seq(Told)
  BY <1>2, <1>4, <1>5, AppendProperties
<1>13. NamesOK'
  <2> SUFFICES ASSUME "early" \notin mishaps
               PROVE  \E K : Agrees(K, Append(toClient, x), Tail(toServer), self, n)
    BY <1>2, <1>5, <1>6, <1>9 DEF NamesOK
  <2>1. PICK K : Agrees(K, toClient, toServer, self, me)
    BY <1>1, <1>2 DEF NamesOK
  <2>2. Head(toServer).nick = n
    OBVIOUS
  <2> HIDE DEF me, x, n
  <2>3. ASSUME NEW k \in {me, Unlinked}
        PROVE  \/ k = me /\ KeyAfter(k, x) = n
               \/ k = Unlinked /\ KeyAfter(k, x) = Unlinked
    BY <1>3, <1>4, ConstantFacts DEF KeyAfter, Rekeyed
  <2>4. ASSUME NEW k, k = Unlinked, Settles(toServer, self.name, me, k)
        PROVE  Settles(Tail(toServer), self.name, n, k)
    <3>1. self.name \in {Head(toServer).nick, k} => self.name \in {n, LastNick}
      BY <1>7, <2>2, <2>4, ConstantFacts
    <3>2. QED BY <1>2, <1>7, <2>4, <3>1, SettlesServed
  <2>5. \A k \in {me, Unlinked} :
          /\ KeyAfter(k, x) \in {n, Unlinked}
          /\ x.cmd = "NICK" => x.what # k
          /\ \/ Refuses(x)
             \/ x.cmd = "NICK" /\ x.nick = k
             \/ Settles(toServer, self.name, me, k)
                  => Settles(Tail(toServer), self.name, n, KeyAfter(k, x))
    BY <1>3, <1>4, <2>3, <2>4, ConstantFacts
  <2>6. n \in Nick /\ me \in Nick /\ x \in Told /\ self \in Self /\ toClient \in Seq(Told)
    BY <1>2, <1>3, <1>4, <1>7
  <2> DEFINE ts == Tail(toServer)
  <2> HIDE DEF ts
  <2>7. \E K2 : Agrees(K2, Append(toClient, x), ts, self, n)
    BY <2>1, <2>5, <2>6, AgreesAdd, Zenon DEF ts
  <2>8. QED BY <2>7 DEF ts
<1>14. RosterOK'
  <2> SUFFICES ASSUME Me \in members, mishaps = {}
               PROVE  \E T : Knows(T, Append(toClient, x), There(users), All')
    BY <1>2, <1>5, <1>6 DEF RosterOK, There
  <2>1. PICK T : Knows(T, toClient, There(users), All)
    BY <1>1, <1>2 DEF RosterOK
  <2>2. All' \subseteq (All \ {me, n}) \cup {n} /\ me \in All
    BY <1>6, <1>8, <1>9 DEF All
  <2>3. ThereAfter(All, x) = (All \ {me, n}) \cup {n}
    BY <1>4, <2>2 DEF ThereAfter, Moved, Refuses
  <2> HIDE DEF x, me, n
  <2>4. QED BY <1>2, <1>4, <1>7, <1>8, <2>1, <2>2, <2>3, KnowsAdd
<1>15. QED BY <1>1, <1>6, <1>7, <1>9, <1>10, <1>11, <1>12, <1>13, <1>14, ServingKeeps

\* The server reads a line that asks for no nick, and tells the client nothing.
LEMMA NothingTold ==
  ASSUME IInv, NEW c \in {"JOIN", "PART"}, Serving(c), toClient' = toClient,
         nickOf' = nickOf, mishaps' = mishaps, members' \subseteq members,
         Me \in members' => members' = members
  PROVE  IInv'
<1> DEFINE ts == Tail(toServer)
           me == nickOf[Me]
<1>1. /\ TypeOK /\ SelfKept /\ NicksOK /\ StartOK /\ NamesOK /\ RosterOK
  BY DEF IInv
<1>2. /\ up /\ toServer \in Seq(Asked) /\ toServer # <<>>
      /\ Head(toServer).cmd # "NICK"
      /\ toServer' = ts /\ toClient \in Seq(Told)
      /\ UNCHANGED <<users, self, channel, up, outcome, typed, deeds>>
  BY ServingFacts
<1>3. /\ nickOf \in [Person -> Nick \cup {Nil}] /\ mishaps \subseteq Mishap
      /\ members \subseteq {p \in Person : nickOf[p] # Nil}
  BY <1>1 DEF TypeOK
<1>4. NicksOK'
  BY <1>1 DEF NicksOK
<1>5. StartOK'
  <2> SUFFICES ASSUME ~Registered, "early" \notin mishaps
               PROVE  /\ self.key = self.name
                      /\ \/ /\ toClient = <<>>
                            /\ \E i : /\ Asks(ts, i) /\ ts[i].nick = self.name
                                      /\ \A j : Asks(ts, j) => j = i
                         \/ NoneAsks(ts) /\ toClient = <<Line("433", self.name)>>
                         \/ NoneAsks(ts) /\ toClient = <<>> /\ self.name = LastNick
    BY <1>2 DEF StartOK, Registered
  <2>1. /\ ~Asks(toServer, 1)
        /\ \A i : Asks(ts, i) => Asks(toServer, i + 1) /\ toServer[i + 1] = ts[i]
        /\ \A i : Asks(ts, i) => i \in Nat
        /\ \A i \in Nat : i >= 1 /\ Asks(toServer, i + 1) => Asks(ts, i)
    BY <1>2, AsksTail
  <2> HIDE DEF ts
  <2>2. ASSUME NEW i, Asks(toServer, i), toServer[i].nick = self.name,
               \A j : Asks(toServer, j) => j = i
        PROVE  \E k : /\ Asks(ts, k) /\ ts[k].nick = self.name
                      /\ \A j : Asks(ts, j) => j = k
    <3>1. i \in Nat /\ i >= 1 /\ i # 1
      BY <1>2, <2>1, <2>2 DEF Asks
    <3>2. i - 1 \in Nat /\ i - 1 >= 1 /\ (i - 1) + 1 = i
      BY <3>1
    <3>3. Asks(ts, i - 1) /\ ts[i - 1].nick = self.name
      BY <2>1, <2>2, <3>2
    <3>4. ASSUME NEW j, Asks(ts, j) PROVE j = i - 1
      <4>1. j + 1 = i /\ j \in Nat
        BY <2>1, <2>2, <3>4
      <4>2. QED BY <3>1, <4>1
    <3>5. QED BY <3>3, <3>4
  <2>3. NoneAsks(toServer) => NoneAsks(ts)
    BY <2>1 DEF NoneAsks, Asks
  <2>4. QED BY <1>1, <1>2, <2>2, <2>3 DEF StartOK
<1>6. NamesOK'
  <2> SUFFICES ASSUME Registered, "early" \notin mishaps
               PROVE  \E K : Agrees(K, toClient, ts, self, me)
    BY <1>2 DEF NamesOK, Registered
  <2>1. PICK K : Agrees(K, toClient, toServer, self, me)
    BY <1>1, <1>2 DEF NamesOK
  <2>2. ASSUME NEW k, Settles(toServer, self.name, me, k)
        PROVE  Settles(ts, self.name, me, k)
    BY <1>2, <2>2, SettlesTail
  <2> HIDE DEF ts, me
  <2>3. Agrees(K, toClient, ts, self, me)
    BY <2>1, <2>2, AgreesSame
  <2>4. QED BY <2>3
<1>7. RosterOK'
  BY <1>1, <1>2 DEF RosterOK, All
<1>8. QED BY <1>2, <1>3, <1>4, <1>5, <1>6, <1>7, ServingKeeps

\* The client enters the channel, and is told who is there.
LEMMA ServeJoinKeeps == ASSUME IInv, ServeJoin PROVE IInv'
<1> DEFINE me == nickOf[Me]
           x == Line("JOIN", me)
           all == {nickOf[p] : p \in members \cup {Me}}
<1>1. /\ Serving("JOIN") /\ TypeOK /\ SelfKept /\ NicksOK /\ StartOK /\ NamesOK /\ RosterOK
  BY DEF ServeJoin, IInv
<1>2. /\ up /\ toServer \in Seq(Asked) /\ toServer # <<>>
      /\ Head(toServer) \in Asked /\ Head(toServer).cmd = "JOIN"
      /\ toServer' = Tail(toServer) /\ toClient \in Seq(Told)
      /\ UNCHANGED <<users, self, channel, up, outcome, typed, deeds>>
  BY <1>1, ServingFacts
<1>3. nickOf' = nickOf /\ mishaps' = mishaps
  BY DEF ServeJoin
<1>4. /\ self \in Self /\ mishaps \subseteq Mishap /\ There(users) \in SUBSET Nick
  BY <1>1, ClientFacts
<1>5. /\ nickOf \in [Person -> Nick \cup {Nil}] /\ Me \in Person
      /\ members \subseteq {p \in Person : nickOf[p] # Nil}
      /\ members \subseteq Person /\ \A p \in members : nickOf[p] \in Nick
      /\ Registered <=> me \in Nick
  BY <1>1, ServerFacts, ConstantFacts DEF TypeOK
<1>6. NicksOK'
  BY <1>1, <1>3 DEF NicksOK
<1>7. ASSUME NEW k, Settles(toServer, self.name, me, k)
      PROVE  Settles(Tail(toServer), self.name, me, k)
  BY <1>2, <1>7, SettlesTail
<1>8. CASE Registered /\ Me \notin members
  <2>1. members' = members \cup {Me} /\ StartOK'
    BY <1>3, <1>8 DEF ServeJoin, StartOK, Registered
  <2>2. PICK plain \in {{me}, all} : toClient' = toClient \o <<x, Names(all, plain)>>
    BY <1>8 DEF ServeJoin, Tell
  <2> DEFINE y == Names(all, plain)
             tc == Append(toClient, x)
  <2>3. all \in SUBSET Nick
    BY <1>5, <1>8
  <2>4. y \in Told /\ y.cmd = "353" /\ y.names = all
    BY <1>5, <1>8, <2>2, <2>3 DEF Names, Told
  <2>5. x \in Told /\ x.cmd = "JOIN" /\ x.nick = me
    BY <1>5, <1>8, LineFacts
  <2> HIDE DEF x, y, all
  <2>6. tc \in Seq(Told)
    BY <1>2, <2>5, AppendProperties
  <2>7. toClient \o <<x, y>> = Append(tc, y)
    BY <1>2, <2>4, <2>5
  <2>8. toClient' = Append(tc, y)
    BY <2>2, <2>7 DEF y
  <2> HIDE DEF tc
  <2>9. toClient' \in Seq(Told)
    BY <2>4, <2>6, <2>8, AppendProperties
  <2>10. members' \subseteq {p \in Person : nickOf'[p] # Nil}
    BY <1>3, <1>5, <1>8, <2>1 DEF Registered
  <2>11. NamesOK'
    <3> SUFFICES ASSUME "early" \notin mishaps
                 PROVE  \E K : Agrees(K, Append(tc, y), Tail(toServer), self, me)
      BY <1>2, <1>3, <1>8, <2>8 DEF NamesOK, Registered
    <3>1. PICK K : Agrees(K, toClient, toServer, self, me)
      BY <1>1, <1>2, <1>8 DEF NamesOK
    <3>2. \A k : KeyAfter(k, x) = k /\ KeyAfter(k, y) = k
      BY <2>4, <2>5 DEF KeyAfter, Refuses
    <3>3. me \in Nick
      BY <1>5, <1>8
    <3> HIDE DEF me
    <3>4. \A k \in {me, Unlinked} :
            /\ KeyAfter(k, x) \in {me, Unlinked}
            /\ x.cmd = "NICK" => x.what # k
            /\ \/ Refuses(x)
               \/ x.cmd = "NICK" /\ x.nick = k
               \/ Settles(toServer, self.name, me, k)
                    => Settles(Tail(toServer), self.name, me, KeyAfter(k, x))
      BY <1>7, <2>5, <3>2
    <3>5. PICK L : Agrees(L, tc, Tail(toServer), self, me)
      <4>1. x \in Told /\ self \in Self /\ toClient \in Seq(Told)
        BY <1>2, <1>4, <2>5
      <4>2. QED BY <3>1, <3>3, <3>4, <4>1, AgreesAdd, Zenon DEF tc
    <3>6. \A k \in {me, Unlinked} :
            /\ KeyAfter(k, y) \in {me, Unlinked}
            /\ y.cmd = "NICK" => y.what # k
            /\ \/ Refuses(y)
               \/ y.cmd = "NICK" /\ y.nick = k
               \/ Settles(Tail(toServer), self.name, me, k)
                    => Settles(Tail(toServer), self.name, me, KeyAfter(k, y))
      BY <2>4, <3>2
    <3>7. QED BY <1>4, <2>4, <2>6, <3>3, <3>5, <3>6, AgreesAdd
  <2>12. RosterOK'
    <3>1. PICK T : Theres(T, toClient, There(users))
      <4> DEFINE V == SUBSET Nick
      <4>1. ThereEffect \in [Told -> [V -> V]] /\ There(users) \in V
        BY <1>4, EffectFacts
      <4> HIDE DEF V
      <4>2. \E T : Passes(T, toClient, V, There(users), ThereEffect)
        BY <1>2, <4>1, PassExists
      <4>3. QED BY <4>2 DEF Theres, V
    <3>2. Knows(T, toClient, There(users), {})
      BY <3>1 DEF Knows
    <3>3. PICK U : Knows(U, tc, There(users), {})
      BY <1>2, <1>4, <2>5, <3>2, KnowsAdd DEF tc
    <3>4. all \subseteq ThereAfter({}, y)
      BY <2>4 DEF ThereAfter, Refuses
    <3>5. \E T2 : Knows(T2, Append(tc, y), There(users), all)
      BY <1>4, <2>4, <2>6, <3>3, <3>4, KnowsAdd
    <3>6. All' = all
      BY <1>3, <2>1 DEF All, all
    <3>7. QED BY <1>2, <2>8, <3>5, <3>6 DEF RosterOK
  <2>13. QED BY <1>1, <1>3, <1>4, <1>5, <1>6, <2>1, <2>9, <2>10, <2>11, <2>12, ServingKeeps
<1>9. CASE ~(Registered /\ Me \notin members)
  <2>1. members' = members /\ toClient' = toClient
    BY <1>9 DEF ServeJoin, Tell
  <2>2. QED BY <1>1, <1>3, <1>4, <1>5, <1>6, <2>1, NothingTold
<1>10. QED BY <1>8, <1>9

\* The client leaves the channel.
LEMMA ServePartKeeps == ASSUME IInv, ServePart PROVE IInv'
<1> DEFINE me == nickOf[Me]
           x == Line("PART", me)
<1>1. /\ Serving("PART") /\ TypeOK /\ SelfKept /\ NicksOK /\ NamesOK
      /\ nickOf' = nickOf /\ mishaps' = mishaps /\ members' = members \ {Me}
  BY DEF ServePart, IInv
<1>2. /\ up /\ toServer \in Seq(Asked) /\ toServer # <<>>
      /\ Head(toServer).cmd # "NICK"
      /\ toServer' = Tail(toServer) /\ toClient \in Seq(Told)
      /\ UNCHANGED <<users, self, channel, up, outcome, typed, deeds>>
  BY <1>1, ServingFacts
<1>3. /\ nickOf \in [Person -> Nick \cup {Nil}] /\ mishaps \subseteq Mishap
      /\ members \subseteq {p \in Person : nickOf[p] # Nil} /\ self \in Self
  BY <1>1, ClientFacts DEF TypeOK
<1>4. CASE Me \notin members
  <2>1. toClient' = toClient
    BY <1>4 DEF ServePart, Tell
  <2>2. QED BY <1>1, <1>4, <2>1, NothingTold
<1>5. CASE Me \in members
  <2>1. Registered /\ me \in Nick
    BY <1>1, <1>5, ServerFacts
  <2>2. x \in Told /\ x.cmd = "PART"
    BY <2>1, LineFacts
  <2>3. toClient' = Append(toClient, x)
    BY <1>2, <1>5, <2>2, OneLine DEF ServePart, Tell
  <2>4. toClient' \in Seq(Told)
    BY <1>2, <2>2, <2>3, AppendProperties
  <2>5. NicksOK' /\ StartOK' /\ RosterOK'
    BY <1>1, <2>1 DEF NicksOK, IInv, StartOK, RosterOK, Registered
  <2>6. NamesOK'
    <3> SUFFICES ASSUME "early" \notin mishaps
                 PROVE  \E K : Agrees(K, Append(toClient, x), Tail(toServer), self, me)
      BY <1>1, <1>2, <2>1, <2>3 DEF NamesOK, Registered
    <3>1. PICK K : Agrees(K, toClient, toServer, self, me)
      BY <1>1, <1>2, <2>1 DEF NamesOK
    <3>2. \A k : KeyAfter(k, x) = k
      BY <2>2 DEF KeyAfter, Refuses
    <3> DEFINE ts == Tail(toServer)
    <3>3. ASSUME NEW k, Settles(toServer, self.name, me, k)
          PROVE  Settles(ts, self.name, me, k)
      BY <1>2, <3>3, SettlesTail
    <3> HIDE DEF me, x, ts
    <3>4. \A k \in {me, Unlinked} :
            /\ KeyAfter(k, x) \in {me, Unlinked}
            /\ x.cmd = "NICK" => x.what # k
            /\ \/ Refuses(x)
               \/ x.cmd = "NICK" /\ x.nick = k
               \/ Settles(toServer, self.name, me, k)
                    => Settles(ts, self.name, me, KeyAfter(k, x))
      BY <2>2, <3>2, <3>3
    <3>5. toClient \in Seq(Told) /\ self \in Self
      BY <1>2, <1>3
    <3>6. \E K2 : Agrees(K2, Append(toClient, x), ts, self, me)
      BY <2>1, <2>2, <3>1, <3>4, <3>5, AgreesAdd
    <3>7. QED BY <3>6 DEF ts
  <2>7. QED BY <1>1, <1>3, <2>4, <2>5, <2>6, ServingKeeps
<1>6. QED BY <1>4, <1>5

\* A new connection is made.
LEMMA ReconnectKeeps == ASSUME IInv, Reconnect PROVE IInv'
<1>1. /\ TypeOK /\ SelfKept /\ LinesOK /\ NicksOK /\ DownOK /\ ChannelOK /\ StartOK
      /\ NamesOK /\ RosterOK
  BY DEF IInv
<1>2. /\ users \in Table /\ self \in Self /\ Kept(users, self)
      /\ channel \in {"none", "shown", "parted"}
      /\ mishaps \subseteq Mishap /\ up \in BOOLEAN
      /\ typed \in 0..MaxTyped /\ deeds \in 0..MaxDeeds
  BY <1>1, ClientFacts
<1>3. /\ ~up /\ toClient = <<>> /\ outcome = "running"
      /\ UNCHANGED <<channel, toClient, nickOf, members, typed, deeds>>
  BY DEF Reconnect
<1>4. /\ nickOf \in [Person -> Nick \cup {Nil}] /\ Me \notin members /\ ~Registered
      /\ members \subseteq {p \in Person : nickOf[p] # Nil}
  BY <1>1, <1>3 DEF TypeOK, DownOK, Registered
<1>5. toServer \in Seq(Asked) /\ toClient \in Seq(Told)
  BY <1>1 DEF LinesOK
<1>6. NicksOK' /\ RosterOK' /\ NamesOK'
  BY <1>1, <1>3, <1>4 DEF NicksOK, RosterOK, NamesOK, Registered
<1>7. CASE users[DefaultNick] # NoUser
  <2>1. /\ outcome' = "duplicate"
        /\ UNCHANGED <<users, self, up, toServer, mishaps>>
    BY <1>7 DEF Reconnect
  <2>2. TypeOK'
    BY <1>2, <1>3, <1>4, <1>5, <2>1, NextTyped
  <2>3. SelfKept' /\ LinesOK'
    BY <1>2, <1>3, <1>5, <2>1, SelfKeptNext DEF LinesOK
  <2>4. DownOK' /\ ChannelOK' /\ StartOK'
    BY <1>1, <1>3, <2>1 DEF DownOK, ChannelOK, StartOK, Registered
  <2>5. QED BY <1>6, <2>2, <2>3, <2>4 DEF IInv
<1>8. CASE users[DefaultNick] = NoUser
  <2> DEFINE u == [NewUser EXCEPT !.flags = {"self"}]
             x == Line("NICK", DefaultNick)
             y == Line("JOIN", Nil)
             s == [key |-> DefaultNick, name |-> DefaultNick]
  <2>1. /\ users' = [users EXCEPT ![DefaultNick] = u]
        /\ self' = s /\ up' = TRUE /\ mishaps' = {} /\ outcome' = outcome
        /\ toServer' = <<x>> \o (IF channel = "none" THEN <<>> ELSE <<y>>)
    BY <1>8 DEF Reconnect
  <2>2. u \in User /\ "self" \in u.flags
    BY DEF NewUser, User, Flag
  <2>3. s \in Self /\ s.key = DefaultNick /\ s.name = DefaultNick /\ DefaultNick \in Nick
    BY ConstantFacts DEF Self
  <2>4. x \in Asked /\ x.cmd = "NICK" /\ x.nick = DefaultNick /\ y \in Asked /\ y.cmd = "JOIN"
    BY <2>3, LineFacts
  <2> HIDE DEF u, x, y, s
  <2>5. users' \in Table /\ Kept(users', self')
    <3>1. users'[DefaultNick] = u /\ users' \in Table
      BY <1>2, <2>1, <2>2, <2>3 DEF Table
    <3>2. u # NoUser
      BY <2>2, ConstantFacts
    <3>3. QED BY <2>1, <2>2, <2>3, <3>1, <3>2 DEF Kept
  <2>6. /\ toServer' \in Seq(Asked) /\ DOMAIN toServer' \subseteq {1, 2}
        /\ 1 \in DOMAIN toServer' /\ toServer'[1] = x
        /\ 2 \in DOMAIN toServer' => toServer'[2] = y /\ channel # "none"
    <3>1. CASE channel = "none"
      <4>1. toServer' = <<x>>
        BY <2>1, <3>1
      <4>2. QED BY <2>4, <4>1
    <3>2. CASE channel # "none"
      <4>1. toServer' = <<x>> \o <<y>>
        BY <2>1, <3>2
      <4>2. <<x>> \in Seq(Asked) /\ Len(<<x>>) = 1 /\ <<x>>[1] = x
        BY <2>4
      <4> DEFINE z == <<x>>
      <4> HIDE DEF z
      <4>3. Append(z, y) = z \o <<y>>
        BY <2>4, <4>2, AppendIsConcat DEF z
      <4>4. /\ Append(z, y) \in Seq(Asked) /\ DOMAIN Append(z, y) = 1..2
            /\ Append(z, y)[1] = x /\ Append(z, y)[2] = y
        BY <2>4, <4>2, AppendProperties DEF z
      <4>5. QED BY <3>2, <4>1, <4>3, <4>4 DEF z
    <3>3. QED BY <3>1, <3>2
  <2>7. TypeOK'
    BY <1>2, <1>3, <1>4, <1>5, <2>1, <2>3, <2>5, <2>6, NextTyped
  <2>8. SelfKept' /\ LinesOK'
    BY <1>3, <1>5, <2>5, <2>6, SelfKeptNext DEF LinesOK
  <2>9. DownOK' /\ ChannelOK'
    BY <1>3, <1>4, <2>1, <2>4, <2>6 DEF DownOK, ChannelOK
  <2>10. StartOK'
    <3>1. Asks(toServer', 1) /\ \A j : Asks(toServer', j) => j = 1
      BY <2>4, <2>6 DEF Asks
    <3>2. toServer'[1].nick = self'.name /\ self'.key = self'.name /\ toClient' = <<>>
      BY <1>3, <2>1, <2>3, <2>4, <2>6
    <3>3. QED BY <3>1, <3>2 DEF StartOK
  <2>11. QED BY <1>6, <2>7, <2>8, <2>9, <2>10 DEF IInv
<1>9. QED BY <1>7, <1>8

-----------------------------------------------------------------------------
(* The theorems.                                                           *)

\* The program has connected, and asked for its nick.
LEMMA InitOK == ASSUME Init PROVE IInv
<1> DEFINE u == [NewUser EXCEPT !.flags = {"self"}]
           x == Line("NICK", DefaultNick)
<1>1. /\ users = [n \in Nick |-> IF n = DefaultNick THEN u ELSE NoUser]
      /\ self = [key |-> DefaultNick, name |-> DefaultNick]
      /\ toServer = <<x>>
  BY DEF Init
<1>2. /\ channel = "none" /\ up = TRUE /\ toClient = <<>>
      /\ nickOf = [p \in Person |-> Nil] /\ members = {} /\ mishaps = {}
      /\ outcome = "running" /\ typed = 0 /\ deeds = 0
  BY DEF Init
<1>3. /\ DefaultNick \in Nick /\ Me \in Person /\ Nil \notin Nick /\ Unlinked \notin Nick
      /\ MaxTyped \in Nat /\ MaxDeeds \in Nat
  BY ConstantFacts, SessionOK
<1>4. u \in User /\ "self" \in u.flags
  BY DEF NewUser, User, Flag
<1>5. x \in Asked /\ x.cmd = "NICK" /\ x.nick = DefaultNick
  BY <1>3, LineFacts
<1> HIDE DEF u, x
<1>6. users \in Table /\ users[DefaultNick] = u /\ u # NoUser
  BY <1>1, <1>3, <1>4, ConstantFacts DEF Table
<1>7. toServer \in Seq(Asked) /\ toClient \in Seq(Told)
  BY <1>1, <1>2, <1>5, EmptySeq
<1>8. /\ \A y \in Range(toServer) : y.cmd \in {"NICK", "JOIN", "PART"}
      /\ Range(toClient) = {}
  BY <1>2, <1>7, RangeFacts, LineFacts DEF Range
<1>9. TypeOK
  <2>1. users \in [Nick -> User \cup {NoUser}]
    BY <1>6 DEF Table
  <2>2. self \in [key : Nick \cup {Unlinked}, name : Nick]
    BY <1>1, <1>3
  <2>3. nickOf \in [Person -> Nick \cup {Nil}] /\ members \subseteq {p \in Person : nickOf[p] # Nil}
    BY <1>2
  <2>4. typed \in 0..MaxTyped /\ deeds \in 0..MaxDeeds
    BY <1>2, <1>3
  <2>5. QED BY <1>2, <1>8, <2>1, <2>2, <2>3, <2>4 DEF TypeOK, Mishap
<1>10. SelfKept
  BY <1>1, <1>4, <1>6 DEF SelfKept, Is
<1>11. /\ DOMAIN toServer = {1} /\ toServer[1] = x
  BY <1>1
<1>12. ChannelOK
  BY <1>2, <1>5, <1>11 DEF ChannelOK
<1>13. StartOK
  <2>1. Asks(toServer, 1) /\ \A j : Asks(toServer, j) => j = 1
    BY <1>5, <1>11 DEF Asks
  <2>2. toServer[1].nick = self.name /\ self.key = self.name
    BY <1>1, <1>5, <1>11
  <2>3. QED BY <1>2, <2>1, <2>2 DEF StartOK
<1>14. LinesOK /\ NicksOK /\ DownOK /\ NamesOK /\ RosterOK
  BY <1>2, <1>3, <1>7 DEF LinesOK, NicksOK, DownOK, NamesOK, RosterOK, Registered
<1>15. QED BY <1>9, <1>10, <1>12, <1>13, <1>14 DEF IInv

\* Every step keeps the invariant.
LEMMA NextStep == ASSUME IInv, [Next]_vars PROVE IInv'
<1>1. TypeOK /\ SelfKept /\ LinesOK
  BY DEF IInv
<1>2. ASSUME NickHook \/ BadNick \/ JoinHook \/ NamesHook \/ PartHook \/ QuitHook \/ PrivmsgHook
      PROVE  IInv'
  <2>1. LineRead
    BY <1>1, <1>2, NickHookReads, BadNickReads, JoinHookReads, NamesHookReads,
       PartHookReads, QuitHookReads, PrivmsgHookReads
  <2>2. QED BY <2>1, ReadKeeps
<1>3. ASSUME Command PROVE IInv'
  BY <1>1, <1>3, CommandFacts, CommandKeeps
<1>4. ASSUME ServerReads PROVE IInv'
  <2>1. ASSUME ServeNick PROVE IInv'
    <3>1. CASE Taken(Head(toServer).nick, Me)
      BY <2>1, <3>1, RefusalKeeps
    <3>2. CASE ~Taken(Head(toServer).nick, Me) /\ ~Registered
      BY <2>1, <3>2, WelcomeKeeps
    <3>3. CASE ~Taken(Head(toServer).nick, Me) /\ Registered
      BY <2>1, <3>3, SameNickKeeps, NewNickKeeps
    <3>4. QED BY <3>1, <3>2, <3>3
  <2>2. QED BY <1>4, <2>1, ServeJoinKeeps, ServePartKeeps DEF ServerReads
<1>5. ASSUME Deed PROVE IInv'
  BY <1>5, DropsKeeps, LeavesKeeps, QuitsKeeps, SpeaksKeeps, ComesKeeps, RenamesKeeps DEF Deed
<1>6. ASSUME UNCHANGED vars PROVE IInv'
  <2>1. UNCHANGED <<users, self, channel, up, toServer, toClient, nickOf, members, mishaps,
                    outcome, typed, deeds>>
    BY <1>6 DEF vars, table, lines, server
  <2>2. TypeOK' /\ SelfKept' /\ LinesOK' /\ NicksOK'
    BY <2>1 DEF IInv, TypeOK, SelfKept, Is, LinesOK, NicksOK
  <2>3. DownOK' /\ ChannelOK' /\ StartOK' /\ NamesOK' /\ RosterOK'
    BY <2>1 DEF IInv, DownOK, ChannelOK, StartOK, NamesOK, RosterOK, All, Registered
  <2>4. QED BY <2>2, <2>3 DEF IInv
<1>7. QED BY <1>2, <1>3, <1>4, <1>5, <1>6, ReconnectKeeps DEF Next, ClientReads

\* The invariant holds throughout.
THEOREM Inductive == Spec => []IInv
<1>1. Init => IInv
  BY InitOK
<1>2. IInv /\ [Next]_vars => IInv'
  BY NextStep
<1>3. QED BY <1>1, <1>2, PTL DEF Spec

\* Every variable keeps its type, for any number of people, nicks, commands and
\* deeds.
THEOREM TypeCorrect == Spec => []TypeOK
<1>1. IInv => TypeOK
  BY DEF IInv
<1>2. QED BY <1>1, Inductive, PTL

\* However nicks change hands, are refused, and whoever quits: the user of the
\* connection is in the hash under its key, and marked as the program's own, or was
\* taken out of the hash; recv_nick and quit_hook never free it under serv->user.
THEOREM OwnUserKept == Spec => []SelfKept
<1>1. IInv => SelfKept
  BY DEF IInv
<1>2. QED BY <1>1, Inductive, PTL

\* Once all lines are read, the client takes itself for who it is to the server, or
\* has run out of nicks: whatever was asked for, refused, taken by others and given
\* up in the meantime, unless the user asked for a nick before the first was settled.
THEOREM AgreeWhenSettled == Spec => []SameNick
<1>1. IInv => SameNick
  <2> SUFFICES ASSUME IInv, Settled, Registered, "early" \notin mishaps
               PROVE  self.name \in {nickOf[Me], LastNick}
    BY DEF SameNick
  <2>1. up /\ toServer = <<>> /\ toClient = <<>>
    BY DEF Settled
  <2>2. PICK K : Agrees(K, <<>>, <<>>, self, nickOf[Me])
    BY <2>1 DEF IInv, NamesOK
  <2>3. DOMAIN <<>> = {}
    OBVIOUS
  <2>4. Settles(<<>>, self.name, nickOf[Me], K[Len(<<>>)])
    BY <2>2, <2>3 DEF Agrees, Own
  <2>5. NoneAsks(<<>>)
    BY <2>3 DEF NoneAsks
  <2>6. QED BY <2>4, <2>5 DEF Settles
<1>2. QED BY <1>1, Inductive, PTL

\* A client that has read its lines knows everyone who is in the channel, under the
\* nick they have now, unless a nick was refused to it while it had another.
THEOREM EveryoneKnown == Spec => []Roster
<1>1. IInv => Roster
  <2> SUFFICES ASSUME IInv, up, toClient = <<>>, Me \in members, mishaps = {},
                      NEW p \in members
               PROVE  users[nickOf[p]] # NoUser /\ users[nickOf[p]].there
    BY DEF Roster
  <2>1. PICK T : Knows(T, <<>>, There(users), All)
    BY DEF IInv, RosterOK
  <2>2. Len(<<>>) = 0
    OBVIOUS
  <2>3. All \subseteq There(users)
    BY <2>1, <2>2 DEF Knows, Theres, Passes
  <2>4. nickOf[p] \in All
    BY DEF All
  <2>5. QED BY <2>3, <2>4 DEF There
<1>2. QED BY <1>1, Inductive, PTL
=============================================================================
