--------------------------- MODULE WindowsProofs ---------------------------
(***************************************************************************)
(* The safety of Windows for any channels, servers, windows and messages.   *)
(*                                                                         *)
(* Placed and ScreenIsFresh are not inductive: a channel is in one list     *)
(* only because remove_from_window looks in the window that the channel     *)
(* says it is in, which needs the lists to agree with win, without          *)
(* repetitions (ListsOK), and with the window a new channel is told         *)
(* (UnknownOK); the screen is fresh because the depth of the block follows  *)
(* the phase of the main loop (DepthOK) and a refresh that is put off is    *)
(* noted (StaleOK).                                                         *)
(***************************************************************************)
EXTENDS Windows, ListsProofs, FiniteSetTheorems

\* Lists without repetitions, one for each window.
ListsOfWindows == {l \in [Window -> Seq(Channel)] : \A w \in Window : IsInjective(l[w])}

In(l, c, w) == c \in Range(l[w])

ListsOK ==
  /\ shownIn \in ListsOfWindows
  /\ \A c \in Channel, w \in Window :
       In(shownIn, c, w) <=> state[c] = "join sent" /\ win[c] = w

UnknownOK == \A c \in Channel :
  /\ ~Known(c) => win[c] = 0
  /\ Known(c) => serverName # NoServer

MembersOK == \A c \in Channel :
  state[c] = "join sent" /\ ServerOf[c] \in connections => c \in member \cup denied

FlagsOK == flags = unseen /\ flags[active] = "none"

DepthOK ==
  /\ ~driver => counted
  /\ depth = IF driver THEN (IF phase = "block" THEN 1 ELSE 0) - (IF counted THEN 0 ELSE 1)
             ELSE 0

StaleOK == stale => ready /\ driver /\ (counted => phase = "block")

KeptOK == OfChannels(kept) = [n \in 1..owed |-> n] /\ owed <= Len(kept)

IInv ==
  /\ TypeOK
  /\ ListsOK
  /\ UnknownOK
  /\ MembersOK
  /\ FlagsOK
  /\ DepthOK
  /\ StaleOK
  /\ KeptOK

-----------------------------------------------------------------------------
(* Lists of channels.                                                      *)

\* g has the list that remove_from_window's loop leaves of the first n nodes of s.
LeavesOut(g, s, c) ==
  /\ g[0] = <<>>
  /\ \A n \in 1..Len(s) : g[n] = IF s[n] = c THEN g[n - 1] ELSE Append(g[n - 1], s[n])

\* The recursion of remove_from_window's loop is well-founded.
LEMMA WithoutLoop ==
  ASSUME NEW S, NEW s \in Seq(S), NEW c
  PROVE  \E g : LeavesOut(g, s, c) /\ Without(s, c) = g[Len(s)]
<1> DEFINE N == Len(s)
           nodes == Seq(S)
           empty == <<>>
           step == [n \in 1..N |-> [t \in nodes |->
                      IF s[n] = c THEN t ELSE Append(t, s[n])]]
           body(f) == [n \in 0..N |-> IF n = 0 THEN <<>>
                         ELSE IF s[n] = c THEN f[n - 1] ELSE Append(f[n - 1], s[n])]
<1>1. N \in Nat /\ empty \in nodes /\ \A n \in 1..N : s[n] \in S
  OBVIOUS
<1>2. step \in [1..N -> [nodes -> nodes]]
  BY <1>1, AppendProperties
<1>3. PICK f : Solves(f, N, nodes, empty, step)
  <2> HIDE DEF step, N, nodes, empty
  <2>1. QED BY <1>1, <1>2, Recursion
<1>4. f = body(f)
  <2>1. ASSUME NEW n \in 0..N PROVE f[n] = body(f)[n]
    <3>1. CASE n = 0
      BY <1>3, <3>1 DEF Solves
    <3>2. CASE n # 0
      <4>1. n \in 1..N /\ n - 1 \in 0..N
        BY <1>1, <3>2
      <4>2. f[n - 1] \in nodes /\ f[n] = step[n][f[n - 1]]
        BY <1>3, <4>1 DEF Solves
      <4> HIDE DEF nodes
      <4>3. QED BY <3>2, <4>1, <4>2
    <3>3. QED BY <3>1, <3>2
  <2>2. f \in [0..N -> nodes]
    BY <1>3 DEF Solves
  <2> HIDE DEF N, nodes, step
  <2>3. QED BY <2>1, <2>2
<1> DEFINE g == CHOOSE g : g = body(g)
<1>6. g = body(g)
  <2> HIDE DEF body
  <2>1. QED BY <1>4
<1>7. Without(s, c) = g[N]
  BY DEF Without
<1> HIDE DEF g, step
<1>8. ASSUME NEW n \in 1..N
      PROVE  g[n] = IF s[n] = c THEN g[n - 1] ELSE Append(g[n - 1], s[n])
  <2>1. n \in 0..N /\ n # 0
    BY <1>1
  <2>2. QED BY <1>6, <2>1, Zenon
<1>9. g[0] = <<>>
  BY <1>1, <1>6
<1>10. LeavesOut(g, s, c)
  BY <1>8, <1>9 DEF LeavesOut
<1>11. QED BY <1>7, <1>10

\* remove_from_window's loop takes all nodes of the channel off, and no other.
LEMMA WithoutFacts ==
  ASSUME NEW S, NEW s \in Seq(S), NEW c
  PROVE  /\ Without(s, c) \in Seq(S)
         /\ Range(Without(s, c)) = Range(s) \ {c}
         /\ IsInjective(s) => IsInjective(Without(s, c))
<1> DEFINE N == Len(s)
<1>1. N \in Nat /\ \A n \in 1..N : s[n] \in S
  OBVIOUS
<1>2. PICK g : LeavesOut(g, s, c) /\ Without(s, c) = g[N]
  BY WithoutLoop
<1> DEFINE Passed(n) == {s[i] : i \in 1..n}
           Good(n) == /\ g[n] \in Seq(S)
                      /\ Range(g[n]) = Passed(n) \ {c}
                      /\ IsInjective(s) => IsInjective(g[n])
<1>8. Good(0)
  BY <1>1, <1>2 DEF LeavesOut, Range, IsInjective
<1>9. ASSUME NEW n \in 1..N, Good(n - 1) PROVE Good(n)
  <2>1. g[n] = IF s[n] = c THEN g[n - 1] ELSE Append(g[n - 1], s[n])
    BY <1>2 DEF LeavesOut
  <2>2. Passed(n) = Passed(n - 1) \cup {s[n]}
    BY <1>1
  <2>3. CASE s[n] = c
    BY <1>9, <2>1, <2>2, <2>3
  <2>4. CASE s[n] # c
    <3>1. IsInjective(s) => s[n] \notin Passed(n - 1)
      BY <1>1 DEF IsInjective
    <3> HIDE DEF Passed
    <3>2. QED BY <1>1, <1>9, <2>1, <2>2, <2>4, <3>1, AppendFacts
  <2>5. QED BY <2>3, <2>4
<1>10. Good(N)
  <2> DEFINE T == {n \in 0..N : Good(n)}
  <2> HIDE DEF Good
  <2>1. 0 \in T
    BY <1>1, <1>8
  <2>2. \A n \in 1..N : n - 1 \in T => n \in T
    BY <1>9
  <2>3. 0..N \subseteq T
    <3> HIDE DEF T
    <3>1. QED BY <1>1, <2>1, <2>2, Induction
  <2>4. QED BY <1>1, <2>3
<1>11. Passed(N) = Range(s)
  BY <1>1 DEF Range
<1>12. QED BY <1>2, <1>10, <1>11

\* A new last node stays if it is of another channel.
LEMMA WithoutAppend ==
  ASSUME NEW S, NEW s \in Seq(S), NEW x \in S, NEW c
  PROVE  Without(Append(s, x), c) = IF x = c THEN Without(s, c) ELSE Append(Without(s, c), x)
<1> DEFINE N == Len(s)
           t == Append(s, x)
<1>1. /\ N \in Nat /\ t \in Seq(S) /\ Len(t) = N + 1 /\ t[N + 1] = x
      /\ \A n \in 1..N : t[n] = s[n]
  BY AppendProperties
<1> HIDE DEF t
<1>2. PICK g : LeavesOut(g, s, c) /\ Without(s, c) = g[N]
  BY WithoutLoop
<1>3. PICK h : LeavesOut(h, t, c) /\ Without(t, c) = h[N + 1]
  BY <1>1, WithoutLoop
<1>4. \A n \in 1..(N + 1) : h[n] = IF t[n] = c THEN h[n - 1] ELSE Append(h[n - 1], t[n])
  BY <1>1, <1>3 DEF LeavesOut
<1> DEFINE T == {n \in 0..N : h[n] = g[n]}
<1>5. 0 \in T
  BY <1>1, <1>2, <1>3 DEF LeavesOut
<1>6. ASSUME NEW n \in 1..N, n - 1 \in T PROVE n \in T
  <2>1. n \in 1..(N + 1) /\ n \in 0..N /\ t[n] = s[n] /\ h[n - 1] = g[n - 1]
    BY <1>1, <1>6
  <2>2. g[n] = IF s[n] = c THEN g[n - 1] ELSE Append(g[n - 1], s[n])
    BY <1>2 DEF LeavesOut
  <2>3. h[n] = g[n]
    BY <1>4, <2>1, <2>2
  <2>4. QED BY <2>1, <2>3
<1>7. 0..N \subseteq T
  <2> HIDE DEF T
  <2>1. QED BY <1>1, <1>5, <1>6, Induction
<1>8. h[N] = g[N] /\ N + 1 \in 1..(N + 1) /\ N + 1 - 1 = N
  BY <1>1, <1>7
<1>9. QED BY <1>1, <1>2, <1>3, <1>4, <1>8 DEF t

\* remove_from_window changes nothing for other windows, or for other channels.
LEMMA RemoveFromWindowFacts ==
  ASSUME NEW l \in ListsOfWindows, NEW c \in Channel, NEW w \in Window
  PROVE  /\ RemoveFromWindow(l, c, w) \in ListsOfWindows
         /\ \A d \in Channel, v \in Window :
              In(RemoveFromWindow(l, c, w), d, v) <=> In(l, d, v) /\ ~(d = c /\ v = w)
<1> DEFINE r == RemoveFromWindow(l, c, w)
<1>1. l \in [Window -> Seq(Channel)] /\ \A v \in Window : IsInjective(l[v])
  BY DEF ListsOfWindows
<1>2. /\ Without(l[w], c) \in Seq(Channel)
      /\ Range(Without(l[w], c)) = Range(l[w]) \ {c}
      /\ IsInjective(Without(l[w], c))
  BY <1>1, WithoutFacts
<1>3. /\ r \in [Window -> Seq(Channel)]
      /\ r[w] = Without(l[w], c)
      /\ \A v \in Window : v # w => r[v] = l[v]
  BY <1>1, <1>2 DEF RemoveFromWindow
<1> HIDE DEF r
<1>4. \A v \in Window : IsInjective(r[v])
  BY <1>1, <1>2, <1>3
<1>5. \A d \in Channel, v \in Window : In(r, d, v) <=> In(l, d, v) /\ ~(d = c /\ v = w)
  BY <1>2, <1>3 DEF In
<1>6. QED BY <1>3, <1>4, <1>5 DEF r, ListsOfWindows

\* A new first node.
LEMMA PrependFacts ==
  ASSUME NEW S, NEW s \in Seq(S), NEW c \in S
  PROVE  /\ <<c>> \o s \in Seq(S)
         /\ Range(<<c>> \o s) = Range(s) \cup {c}
         /\ IsInjective(s) /\ c \notin Range(s) => IsInjective(<<c>> \o s)
<1> DEFINE one == <<c>>
<1>1. one \in Seq(S) /\ Range(one) = {c} /\ IsInjective(one)
  BY DEF Range, IsInjective
<1> HIDE DEF one
<1>2. /\ one \o s \in Seq(S)
      /\ Range(one \o s) = Range(one) \cup Range(s)
      /\ IsInjective(one) /\ IsInjective(s) /\ Range(one) \cap Range(s) = {}
           => IsInjective(one \o s)
  BY <1>1, ConcatFacts
<1>3. QED BY <1>1, <1>2 DEF one

\* set_channel_win: the channel, if it was nowhere but where it says it is, is in
\* the list of its new window, and in no other.
LEMMA SetChannelWinFacts ==
  ASSUME NEW l \in ListsOfWindows, NEW c \in Channel, NEW old \in Window, NEW w \in Window,
         \A v \in Window : In(l, c, v) => v = old
  PROVE  /\ SetChannelWin(l, c, old, w) \in ListsOfWindows
         /\ \A d \in Channel, v \in Window :
              In(SetChannelWin(l, c, old, w), d, v) <=> IF d = c THEN v = w ELSE In(l, d, v)
<1> DEFINE r == RemoveFromWindow(l, c, old)
           n == SetChannelWin(l, c, old, w)
<1>1. /\ r \in ListsOfWindows
      /\ \A d \in Channel, v \in Window : In(r, d, v) <=> In(l, d, v) /\ ~(d = c /\ v = old)
  BY RemoveFromWindowFacts
<1>2. n = [r EXCEPT ![w] = <<c>> \o @]
  BY DEF SetChannelWin
<1> HIDE DEF r, n
<1>3. r \in [Window -> Seq(Channel)] /\ \A v \in Window : IsInjective(r[v]) /\ ~In(r, c, v)
  BY <1>1 DEF ListsOfWindows
<1>4. /\ <<c>> \o r[w] \in Seq(Channel)
      /\ Range(<<c>> \o r[w]) = Range(r[w]) \cup {c}
      /\ IsInjective(<<c>> \o r[w])
  BY <1>3, PrependFacts DEF In
<1>5. /\ n \in [Window -> Seq(Channel)]
      /\ n[w] = <<c>> \o r[w]
      /\ \A v \in Window : v # w => n[v] = r[v]
  BY <1>2, <1>3, <1>4
<1>6. \A v \in Window : IsInjective(n[v])
  BY <1>3, <1>4, <1>5
<1>7. \A d \in Channel, v \in Window : In(n, d, v) <=> IF d = c THEN v = w ELSE In(l, d, v)
  BY <1>1, <1>3, <1>4, <1>5 DEF In
<1>8. QED BY <1>5, <1>6, <1>7 DEF n, ListsOfWindows

\* away_display_msgs displays the whole list and leaves nothing of it: behind the
\* walk there is one node, the last, which is removed in the end.
LEMMA DisplayMsgsFacts ==
  ASSUME NEW S, NEW s \in Seq(S)
  PROVE  DisplayMsgs(s)[1] = s /\ DisplayMsgs(s)[2] = <<>>
<1> DEFINE N == Len(s)
           nodes == Seq(S)
           step == [n \in 1..N |-> [t \in nodes |->
                      IF n = 1 \/ t = <<>> THEN s ELSE Tail(t)]]
           body(f) == [n \in 0..N |-> IF n <= 1 THEN s ELSE Tail(f[n - 1])]
           Rest(h, n) == h[n] \in nodes /\ Len(h[n]) = IF n = 0 THEN N ELSE N - n + 1
           Behind(h, n) == h[n] = IF n = 1 THEN s ELSE Tail(h[n - 1])
<1>1. N \in Nat /\ s \in nodes /\ \A n \in 1..N : n \in 0..N /\ n - 1 \in 0..N
  OBVIOUS
<1>2. \A t \in nodes : t # <<>> => Tail(t) \in nodes /\ Len(Tail(t)) = Len(t) - 1
  BY HeadTailProperties
<1>3. \A t \in nodes : Len(t) > 0 => t # <<>>
  OBVIOUS
<1> HIDE DEF nodes
<1>4. ASSUME NEW h, h[0] = s, \A n \in 1..N : Rest(h, n - 1) => Behind(h, n)
      PROVE  \A n \in 0..N : Rest(h, n)
  <2> DEFINE T == {n \in 0..N : Rest(h, n)}
  <2>1. 0 \in T
    BY <1>1, <1>4
  <2>2. ASSUME NEW n \in 1..N, n - 1 \in T PROVE n \in T
    <3>1. Rest(h, n - 1) /\ Behind(h, n)
      BY <1>4, <2>2
    <3>2. CASE n = 1
      BY <1>1, <3>1, <3>2
    <3>3. CASE n # 1
      <4>1. h[n - 1] \in nodes /\ Len(h[n - 1]) = N - n + 2 /\ N - n + 2 > 0
        BY <1>1, <3>1, <3>3
      <4>2. Tail(h[n - 1]) \in nodes /\ Len(Tail(h[n - 1])) = N - n + 1
        BY <1>1, <1>2, <1>3, <4>1
      <4>3. h[n] = Tail(h[n - 1]) /\ n # 0
        BY <3>1, <3>3
      <4>4. QED BY <1>1, <4>2, <4>3
    <3>4. QED BY <3>2, <3>3
  <2>3. 0..N \subseteq T
    <3> HIDE DEF T, N
    <3>1. QED BY <1>1, <2>1, <2>2, Induction
  <2>4. QED BY <2>3
<1>5. step \in [1..N -> [nodes -> nodes]]
  BY <1>1, <1>2
<1>6. PICK f : Solves(f, N, nodes, s, step)
  <2> HIDE DEF step, N
  <2>1. QED BY <1>1, <1>5, Recursion
<1>7. ASSUME NEW n \in 1..N, Rest(f, n - 1) PROVE Behind(f, n)
  <2>1. f[n - 1] \in nodes /\ f[n] = step[n][f[n - 1]]
    BY <1>1, <1>6 DEF Solves
  <2>2. n # 1 => f[n - 1] # <<>>
    BY <1>1, <1>3, <1>7
  <2>3. QED BY <2>1, <2>2
<1>8. \A n \in 0..N : Rest(f, n)
  <2>1. f[0] = s
    BY <1>6 DEF Solves
  <2>2. QED BY <1>4, <1>7, <2>1
<1>9. f = body(f)
  <2>1. ASSUME NEW n \in 0..N PROVE f[n] = body(f)[n]
    <3>1. CASE n = 0
      BY <1>6, <3>1 DEF Solves
    <3>2. CASE n # 0
      <4>1. n \in 1..N /\ Rest(f, n - 1)
        BY <1>1, <1>8, <3>2
      <4>2. Behind(f, n) /\ (n <= 1 <=> n = 1)
        BY <1>7, <4>1
      <4>3. QED BY <4>2
    <3>3. QED BY <3>1, <3>2
  <2>2. f \in [0..N -> nodes]
    BY <1>6 DEF Solves
  <2> HIDE DEF N, step
  <2>3. QED BY <2>1, <2>2
<1> DEFINE g == CHOOSE g : g = body(g)
<1>10. g = body(g)
  <2> HIDE DEF body
  <2>1. QED BY <1>9
<1>11. DisplayMsgs(s) = <<s, IF s = <<>> THEN <<>> ELSE Front(g[N])>>
  BY DEF DisplayMsgs
<1> HIDE DEF g, step
<1>12. g[0] = s /\ \A n \in 1..N : Behind(g, n)
  <2>1. g[0] = s
    BY <1>1, <1>10
  <2>2. ASSUME NEW n \in 1..N PROVE Behind(g, n)
    <3>1. n \in 0..N /\ (n <= 1 <=> n = 1)
      BY <1>1
    <3>2. QED BY <1>10, <3>1, Zenon
  <2>3. QED BY <2>1, <2>2
<1>13. s # <<>> => Front(g[N]) = <<>>
  <2> SUFFICES ASSUME s # <<>> PROVE Front(g[N]) = <<>>
    OBVIOUS
  <2>1. N # 0 /\ N \in 0..N
    BY <1>1
  <2>2. Rest(g, N)
    BY <1>4, <1>12, <2>1
  <2>3. g[N] \in Seq(S) /\ Len(g[N]) = 1
    BY <1>1, <2>1, <2>2 DEF nodes
  <2> HIDE DEF N
  <2>4. QED BY <2>3 DEF Front
<1>14. QED BY <1>11, <1>13

-----------------------------------------------------------------------------
(* Every step keeps the invariant.                                         *)

ScreenOK == FlagsOK /\ DepthOK /\ StaleOK

PlacesOK == ListsOK /\ UnknownOK /\ MembersOK

\* What the driver keeps is of its type.
ScreenType ==
  /\ active \in Window
  /\ windowMax \in Window
  /\ flags \in [Window -> Flag] /\ unseen \in [Window -> Flag]
  /\ depth \in -1..1
  /\ ready \in BOOLEAN /\ stale \in BOOLEAN /\ counted \in BOOLEAN
  /\ driver \in BOOLEAN

\* A line for a window flags it, as unseen, unless it is the active one.
LEMMA OutputStep ==
  ASSUME ScreenType, ScreenOK, NEW w \in Window, NEW kind \in {"output", "nick"},
         Output(w, kind), UNCHANGED phase, phase \in {"start", "wait", "block"}
  PROVE  ScreenType' /\ ScreenOK'
<1>1. ScreenType'
  BY DEF ScreenType, ScreenOK, Output, PutActive, Refresh, Flagged, Worse, Flag, FlagsOK
<1>2. FlagsOK'
  BY DEF ScreenType, ScreenOK, Output, PutActive, Refresh, Flagged, Worse, Flag, FlagsOK
<1>3. DepthOK'
  BY DEF ScreenType, ScreenOK, Output, PutActive, Refresh, DepthOK
<1>4. StaleOK'
  <2>1. UNCHANGED <<driver, counted, phase>>
    BY DEF Output
  <2>2. CASE UNCHANGED <<ready, stale>>
    BY <2>1, <2>2 DEF ScreenOK, StaleOK
  <2>3. CASE driver /\ Refresh
    <3>1. stale' => ready' /\ depth # 0
      BY <2>3 DEF Refresh
    <3>2. depth # 0 => (counted => phase = "block")
      BY <2>3 DEF ScreenOK, DepthOK
    <3>3. QED BY <2>1, <2>3, <3>1, <3>2 DEF StaleOK
  <2>4. QED BY <2>2, <2>3 DEF Output, PutActive
<1>5. QED BY <1>1, <1>2, <1>3, <1>4 DEF ScreenOK

\* Output that nobody is to see: the driver and the main loop's phase stay.
LEMMA ScreenStutters ==
  ASSUME ScreenType, ScreenOK, UNCHANGED <<screen, phase>>
  PROVE  ScreenType' /\ ScreenOK'
  BY DEF ScreenType, ScreenOK, FlagsOK, DepthOK, StaleOK, screen

\* No messages are those of no channel.
LEMMA NoMessages == OfChannels(<<>>) = [n \in 1..0 |-> n]
<1> DEFINE S == {0}
<1>1. <<>> \in Seq(S) /\ Range(<<>>) = {}
  BY DEF Range
<1> HIDE DEF S
<1>2. OfChannels(<<>>) \in Seq(S) /\ Range(OfChannels(<<>>)) = {}
  <2>1. Without(<<>>, 0) \in Seq(S) /\ Range(Without(<<>>, 0)) = Range(<<>>) \ {0}
    BY <1>1, WithoutFacts, Zenon
  <2>2. QED BY <1>1, <2>1 DEF OfChannels
<1> DEFINE none == OfChannels(<<>>)
<1> HIDE DEF none
<1>3. none = <<>>
  <2>1. none \in Seq(S) /\ Range(none) = {}
    BY <1>2 DEF none
  <2>2. \A n \in DOMAIN none : none[n] \in Range(none)
    BY DEF Range
  <2>3. Len(none) \in Nat /\ DOMAIN none = 1..Len(none)
    BY <2>1
  <2>4. Len(none) = 0
    <3>1. DOMAIN none = {}
      BY <2>1, <2>2
    <3>2. Len(none) # 0 => 1 \in DOMAIN none
      BY <2>3
    <3>3. QED BY <3>1, <3>2
  <2>5. QED BY <2>1, <2>4
<1>4. <<>> = [n \in 1..0 |-> n]
  OBVIOUS
<1>5. QED BY <1>3, <1>4 DEF none

\* The numbers up to m + 1.
LEMMA CountFurther ==
  ASSUME NEW m \in Nat
  PROVE  Append([n \in 1..m |-> n], m + 1) = [n \in 1..(m + 1) |-> n]
<1> DEFINE u == [n \in 1..m |-> n]
           v == [n \in 1..(m + 1) |-> n]
           w == Append(u, m + 1)
<1>1. u \in Seq(Nat) /\ Len(u) = m /\ v \in Seq(Nat) /\ Len(v) = m + 1
  OBVIOUS
<1>2. /\ w \in Seq(Nat) /\ Len(w) = m + 1 /\ w[m + 1] = m + 1
      /\ \A n \in 1..m : w[n] = u[n]
  BY <1>1, AppendProperties
<1>3. \A n \in 1..(m + 1) : w[n] = v[n]
  BY <1>1, <1>2
<1> HIDE DEF u, v, w
<1>4. w = v
  BY <1>1, <1>2, <1>3, SeqEqual
<1>5. QED BY <1>4 DEF u, v, w

\* A message that is kept while the user is away goes behind the others; one of a
\* channel behind those of channels.
LEMMA KeepStep ==
  ASSUME TypeOK, KeptOK, NEW kind, NEW private \in BOOLEAN, Keep(kind, private)
  PROVE  /\ kept' \in Seq(0..MaxMessages) /\ owed' \in 0..MaxMessages
         /\ away' \in BOOLEAN
         /\ KeptOK'
         /\ ~(owed' < owed)
<1>0. /\ owed \in 0..MaxMessages /\ kept \in Seq(0..MaxMessages) /\ MaxMessages \in Nat
      /\ Len(kept) \in Nat /\ away \in BOOLEAN /\ owed <= Len(kept)
      /\ OfChannels(kept) = [n \in 1..owed |-> n]
  <2>1. /\ owed \in 0..MaxMessages /\ kept \in Seq(0..MaxMessages) /\ MaxMessages \in Nat
        /\ away \in BOOLEAN
    BY WindowsOK DEF TypeOK
  <2>2. owed <= Len(kept) /\ OfChannels(kept) = [n \in 1..owed |-> n]
    BY DEF KeptOK
  <2>3. QED BY <2>1, <2>2
<1>1. CASE away /\ kind = "nick" /\ private
  <2>1. kept' = Append(kept, 0) /\ owed' = owed /\ away' = away
    BY <1>1 DEF Keep
  <2>2. 0 \in 0..MaxMessages
    BY <1>0
  <2>3. kept' \in Seq(0..MaxMessages) /\ Len(kept') = Len(kept) + 1
    BY <1>0, <2>1, <2>2, AppendProperties
  <2>4. OfChannels(kept') = OfChannels(kept)
    <3>1. Without(Append(kept, 0), 0) = IF 0 = 0 THEN Without(kept, 0)
                                        ELSE Append(Without(kept, 0), 0)
      BY <1>0, <2>2, WithoutAppend
    <3>2. QED BY <2>1, <3>1, Zenon DEF OfChannels
  <2>5. OfChannels(kept') = [n \in 1..owed' |-> n] /\ owed' <= Len(kept')
    BY <1>0, <2>1, <2>3, <2>4
  <2>6. KeptOK'
    BY <2>5, Zenon DEF KeptOK, OfChannels
  <2>7. QED BY <1>0, <2>1, <2>3, <2>6
<1>2. CASE away /\ kind = "nick" /\ ~private
  <2>1. /\ Len(kept) < MaxMessages /\ owed' = owed + 1 /\ away' = away
        /\ kept' = Append(kept, owed')
    BY <1>2 DEF Keep
  <2>2. owed' \in 1..MaxMessages /\ owed' \in 0..MaxMessages /\ owed' # 0
    BY <1>0, <2>1
  <2>3. kept' \in Seq(0..MaxMessages) /\ Len(kept') = Len(kept) + 1
    BY <1>0, <2>1, <2>2, AppendProperties
  <2>4. OfChannels(kept') = Append(OfChannels(kept), owed')
    BY <1>0, <2>1, <2>2, WithoutAppend DEF OfChannels
  <2>5. Append([n \in 1..owed |-> n], owed + 1) = [n \in 1..(owed + 1) |-> n]
    BY <1>0, CountFurther
  <2>6. OfChannels(kept') = [n \in 1..owed' |-> n] /\ owed' <= Len(kept')
    <3>1. OfChannels(kept') = Append([n \in 1..owed |-> n], owed + 1)
      BY <1>0, <2>1, <2>4, Zenon
    <3>2. OfChannels(kept') = [n \in 1..owed' |-> n]
      BY <2>1, <2>5, <3>1, Zenon
    <3>3. QED BY <1>0, <2>1, <2>3, <3>2
  <2>7. KeptOK'
    BY <2>6, Zenon DEF KeptOK, OfChannels
  <2>8. QED BY <1>0, <2>1, <2>2, <2>3, <2>7
<1>3. CASE ~(away /\ kind = "nick")
  <2>1. kept' = kept /\ owed' = owed /\ away' = away
    BY <1>3 DEF Keep, aways
  <2>2. KeptOK'
    BY <2>1 DEF KeptOK
  <2>3. QED BY <1>0, <2>1, <2>2
<1>4. QED BY <1>1, <1>2, <1>3

\* Where the channels are does not change with what is put out.
LEMMA PlacesStutter ==
  ASSUME PlacesOK, UNCHANGED <<net, channels>>
  PROVE  PlacesOK'
  BY DEF PlacesOK, ListsOK, UnknownOK, MembersOK, In, Known, net, channels

\* What is left of the type once the screen's part is known to be kept.
LEMMA TypeParts ==
  ASSUME TypeOK
  PROVE  /\ ScreenType
         /\ phase \in {"start", "wait", "block"}
         /\ 0 \in Window /\ win \in [Channel -> Window]
         /\ MaxWindows \in Nat \ {0, 1}
<1>1. 0 \in Window
  BY WindowsOK DEF Window
<1>2. ScreenType
  BY DEF TypeOK, ScreenType
<1>3. QED BY <1>1, <1>2, WindowsOK DEF TypeOK

\* The type of the rest is kept by what leaves the connections, the channels, the
\* query and the main loop alone and says and displays nothing.
LEMMA TypeStutters ==
  ASSUME TypeOK, ScreenType', UNCHANGED <<net, channels, query>>, Quiet,
         phase' \in {"start", "wait", "block"}, stopped' \in BOOLEAN,
         kept' \in Seq(0..MaxMessages), owed' \in 0..MaxMessages, away' \in BOOLEAN
  PROVE  TypeOK'
<1>1. <<>> \in Seq(0..MaxMessages)
  OBVIOUS
<1>2. QED BY <1>1 DEF TypeOK, ScreenType, net, channels, Quiet, Silent

\* A step that only puts something out, and may keep a message.
LEMMA PutStep ==
  ASSUME IInv, NEW w \in Window, NEW kind \in {"output", "nick"},
         Output(w, kind), \/ \E k : \E p \in BOOLEAN : Keep(k, p)
                          \/ UNCHANGED <<kept, owed>> /\ away' \in BOOLEAN,
         UNCHANGED <<net, channels, query, phase>>, stopped' \in BOOLEAN, Quiet
  PROVE  IInv'
<1>1. TypeOK /\ ScreenType /\ ScreenOK /\ PlacesOK /\ KeptOK
  BY TypeParts DEF IInv, ScreenOK, PlacesOK
<1>2. phase \in {"start", "wait", "block"} /\ stopped' \in BOOLEAN
  BY <1>1 DEF TypeOK
<1>3. ScreenType' /\ ScreenOK'
  BY <1>1, <1>2, OutputStep
<1>4. PlacesOK'
  BY <1>1, PlacesStutter
<1>5. /\ kept' \in Seq(0..MaxMessages) /\ owed' \in 0..MaxMessages
      /\ away' \in BOOLEAN /\ KeptOK'
  <2>1. CASE \E k : \E p \in BOOLEAN : Keep(k, p)
    BY <1>1, <2>1, KeepStep
  <2>2. CASE UNCHANGED <<kept, owed>> /\ away' \in BOOLEAN
    BY <1>1, <2>2 DEF TypeOK, KeptOK
  <2>3. QED BY <2>1, <2>2
<1>6. TypeOK'
  BY <1>1, <1>2, <1>3, <1>5, TypeStutters
<1>7. QED BY <1>3, <1>4, <1>5, <1>6 DEF IInv, ScreenOK, PlacesOK

\* A step that shows something else on the screen, or nothing.
LEMMA ShowStep ==
  ASSUME IInv, ScreenType', ScreenOK', UNCHANGED <<net, channels, query, kept, owed, away>>,
         phase' \in {"start", "wait", "block"}, stopped' \in BOOLEAN, Quiet
  PROVE  IInv'
<1>1. TypeOK /\ PlacesOK /\ KeptOK
  BY DEF IInv, PlacesOK
<1>2. PlacesOK'
  BY <1>1, PlacesStutter
<1>3. KeptOK'
  BY <1>1 DEF KeptOK
<1>4. TypeOK'
  <2>1. kept' \in Seq(0..MaxMessages) /\ owed' \in 0..MaxMessages /\ away' \in BOOLEAN
    BY <1>1 DEF TypeOK
  <2>2. QED BY <1>1, <2>1, TypeStutters
<1>5. QED BY <1>2, <1>3, <1>4 DEF IInv, ScreenOK, PlacesOK

\* A step that moves channels or changes connections.
LEMMA MoveStep ==
  ASSUME IInv, PlacesOK', ScreenType', ScreenOK',
         UNCHANGED <<aways, query, phase>>, stopped' \in BOOLEAN, Quiet,
         connections' \subseteq Server, users' \subseteq Server,
         serverName' \in Server \cup {NoServer},
         state' \in [Channel -> {"unknown", "join sent", "part sent"}],
         win' \in [Channel -> Window], member' \subseteq Channel, denied' \subseteq Channel
  PROVE  IInv'
<1>1. TypeOK /\ KeptOK
  BY DEF IInv
<1>2. KeptOK'
  BY <1>1 DEF KeptOK, aways
<1>3. shownIn' \in [Window -> Seq(Channel)]
  <2>1. shownIn' \in ListsOfWindows
    BY DEF PlacesOK, ListsOK
  <2>2. QED BY <2>1 DEF ListsOfWindows
<1>4. <<>> \in Seq(0..MaxMessages)
  BY EmptySeq
<1>5. TypeOK'
  BY <1>1, <1>3, <1>4 DEF TypeOK, ScreenType, aways, Quiet, Silent
<1>6. QED BY <1>2, <1>5 DEF IInv, ScreenOK, PlacesOK

\* join_hook: the channel is taken from where it was, and put in front of the
\* active window.
LEMMA JoinStep ==
  ASSUME IInv, NEW c \in Channel, JoinHook(c)
  PROVE  IInv'
<1>1. CASE PickFaults \/ ServerOf[c] \notin connections
  <2>1. Stop
    BY <1>1 DEF JoinHook
  <2>2. ScreenType' /\ ScreenOK'
    BY <2>1, TypeParts, ScreenStutters DEF IInv, ScreenOK, Stop
  <2>3. QED BY <2>1, <2>2, ShowStep, TypeParts DEF IInv, Stop, aways
<1>2. CASE ~(PickFaults \/ ServerOf[c] \notin connections)
  <2> DEFINE made == IF Known(c) THEN shownIn ELSE SetChannelWin(shownIn, c, 0, 0)
             asked == SetChannelWin(made, c, win[c], JoinWindow)
             joined == SetChannelWin(asked, c, JoinWindow, active)
  <2>1. /\ shownIn' = joined
        /\ win' = [win EXCEPT ![c] = active]
        /\ state' = [state EXCEPT ![c] = "join sent"]
        /\ \/ member' = member \cup {c} /\ denied' = denied \ {c}
           \/ denied' = denied \cup {c} /\ member' = member
        /\ Quiet
        /\ UNCHANGED <<net, screen, aways, query, phase, stopped>>
        /\ serverName # NoServer
    BY <1>2 DEF JoinHook
  <2>2. TypeOK /\ ScreenType /\ ScreenOK /\ ListsOK /\ UnknownOK /\ MembersOK
    BY TypeParts DEF IInv, ScreenOK
  <2>3. /\ active \in Window /\ 0 \in Window /\ win \in [Channel -> Window]
        /\ JoinWindow \in Window
    BY <2>2, TypeParts DEF ScreenType, JoinWindow
  <2> DEFINE NotMoved(l) == \A d \in Channel, v \in Window :
                              d # c => (In(l, d, v) <=> In(shownIn, d, v))
  <2>4. /\ made \in ListsOfWindows /\ NotMoved(made)
        /\ \A v \in Window : In(made, c, v) => v = win[c]
    <3>1. CASE Known(c)
      BY <2>2, <3>1 DEF ListsOK
    <3>2. CASE ~Known(c)
      <4>1. \A v \in Window : ~In(shownIn, c, v)
        BY <2>2, <3>2 DEF ListsOK, Known
      <4>2. /\ made \in ListsOfWindows
            /\ \A d \in Channel, v \in Window :
                 In(made, d, v) <=> IF d = c THEN v = 0 ELSE In(shownIn, d, v)
        BY <2>2, <2>3, <3>2, <4>1, SetChannelWinFacts DEF ListsOK
      <4>3. win[c] = 0
        BY <2>2, <3>2 DEF UnknownOK
      <4> HIDE DEF made
      <4>4. QED BY <4>2, <4>3
    <3>3. QED BY <3>1, <3>2
  <2> HIDE DEF made
  <2>5. /\ asked \in ListsOfWindows
        /\ \A d \in Channel, v \in Window :
             In(asked, d, v) <=> IF d = c THEN v = JoinWindow ELSE In(made, d, v)
    BY <2>3, <2>4, SetChannelWinFacts
  <2> HIDE DEF asked
  <2>6. /\ joined \in ListsOfWindows
        /\ \A d \in Channel, v \in Window :
             In(joined, d, v) <=> IF d = c THEN v = active ELSE In(asked, d, v)
    BY <2>3, <2>5, SetChannelWinFacts
  <2> HIDE DEF joined
  <2>7. ListsOK'
    <3>1. ASSUME NEW d \in Channel, NEW v \in Window
          PROVE  In(joined, d, v) <=> state'[d] = "join sent" /\ win'[d] = v
      <4>1. CASE d = c
        BY <2>1, <2>2, <2>6, <4>1 DEF TypeOK
      <4>2. CASE d # c
        <5>1. In(joined, d, v) <=> In(shownIn, d, v)
          BY <2>4, <2>5, <2>6, <4>2
        <5>2. state'[d] = state[d] /\ win'[d] = win[d]
          BY <2>1, <2>2, <4>2 DEF TypeOK
        <5>3. QED BY <2>2, <5>1, <5>2 DEF ListsOK
      <4>3. QED BY <4>1, <4>2
    <3>2. QED BY <2>1, <2>6, <3>1 DEF ListsOK, In
  <2>8. UnknownOK'
    BY <2>1, <2>2 DEF UnknownOK, Known, TypeOK, net
  <2>9. MembersOK'
    <3>1. ASSUME NEW d \in Channel, state'[d] = "join sent", ServerOf[d] \in connections'
          PROVE  d \in member' \cup denied'
      <4>1. CASE d = c
        BY <2>1, <2>2, <3>1, <4>1 DEF TypeOK
      <4>2. CASE d # c
        <5>1. state[d] = "join sent" /\ ServerOf[d] \in connections
          BY <2>1, <2>2, <3>1, <4>2 DEF TypeOK, net
        <5>2. d \in member \cup denied
          BY <2>2, <5>1 DEF MembersOK
        <5>3. QED BY <2>1, <4>2, <5>2
      <4>3. QED BY <4>1, <4>2
    <3>2. QED BY <3>1 DEF MembersOK
  <2>10. ScreenType' /\ ScreenOK'
    BY <2>1, <2>2, ScreenStutters
  <2>11. connections' \subseteq Server /\ users' \subseteq Server /\ serverName' \in Server \cup {NoServer}
    BY <2>1, <2>2 DEF TypeOK, net
  <2>12. /\ state' \in [Channel -> {"unknown", "join sent", "part sent"}]
         /\ win' \in [Channel -> Window] /\ member' \subseteq Channel /\ denied' \subseteq Channel
         /\ stopped' \in BOOLEAN
    <3>1. /\ state \in [Channel -> {"unknown", "join sent", "part sent"}]
          /\ member \subseteq Channel /\ denied \subseteq Channel /\ stopped \in BOOLEAN
      BY <2>2 DEF TypeOK
    <3>2. state' \in [Channel -> {"unknown", "join sent", "part sent"}]
      BY <2>1, <3>1
    <3>3. win' \in [Channel -> Window]
      BY <2>1, <2>3
    <3>4. member' \subseteq Channel /\ denied' \subseteq Channel /\ stopped' \in BOOLEAN
      BY <2>1, <3>1
    <3>5. QED BY <3>2, <3>3, <3>4
  <2>13. PlacesOK'
    BY <2>7, <2>8, <2>9 DEF PlacesOK
  <2>14. QED BY <2>1, <2>10, <2>11, <2>12, <2>13, MoveStep
<1>3. QED BY <1>1, <1>2

\* part: the channel is taken from its window.
LEMMA PartStep ==
  ASSUME IInv, NEW c \in Channel, PartHook(c)
  PROVE  IInv'
<1>1. CASE PickFaults \/ ServerOf[c] \notin connections
  <2>1. Stop
    BY <1>1 DEF PartHook
  <2>2. ScreenType' /\ ScreenOK'
    BY <2>1, TypeParts, ScreenStutters DEF IInv, ScreenOK, Stop
  <2>3. QED BY <2>1, <2>2, ShowStep, TypeParts DEF IInv, Stop, aways
<1>2. CASE ~(PickFaults \/ ServerOf[c] \notin connections)
  <2> DEFINE left == RemoveFromWindow(shownIn, c, win[c])
  <2>1. /\ shownIn' = left
        /\ state' = [state EXCEPT ![c] = "part sent"]
        /\ member' = member \ {c} /\ denied' = denied \ {c}
        /\ Quiet
        /\ UNCHANGED <<net, win, screen, aways, query, phase, stopped>>
        /\ serverName # NoServer
    BY <1>2 DEF PartHook, Part
  <2>2. TypeOK /\ ScreenType /\ ScreenOK /\ ListsOK /\ UnknownOK /\ MembersOK
    BY TypeParts DEF IInv, ScreenOK
  <2>3. /\ left \in ListsOfWindows
        /\ \A d \in Channel, v \in Window :
             In(left, d, v) <=> In(shownIn, d, v) /\ ~(d = c /\ v = win[c])
    <3>1. shownIn \in ListsOfWindows /\ win[c] \in Window
      BY <2>2 DEF ListsOK, TypeOK
    <3>2. QED BY <3>1, RemoveFromWindowFacts
  <2> HIDE DEF left
  <2>4. ListsOK'
    <3>1. ASSUME NEW d \in Channel, NEW v \in Window
          PROVE  In(left, d, v) <=> state'[d] = "join sent" /\ win'[d] = v
      <4>1. CASE d = c
        <5>1. state'[d] = "part sent" /\ state'[d] # "join sent"
          BY <2>1, <2>2, <4>1 DEF TypeOK
        <5>2. In(shownIn, d, v) => v = win[c]
          BY <2>2, <4>1 DEF ListsOK
        <5>3. QED BY <2>3, <4>1, <5>1, <5>2
      <4>2. CASE d # c
        <5>1. state'[d] = state[d] /\ win'[d] = win[d]
          BY <2>1, <2>2, <4>2 DEF TypeOK
        <5>2. In(left, d, v) <=> In(shownIn, d, v)
          BY <2>3, <4>2
        <5>3. QED BY <2>2, <5>1, <5>2 DEF ListsOK
      <4>3. QED BY <4>1, <4>2
    <3>2. QED BY <2>1, <2>3, <3>1 DEF ListsOK, In
  <2>5. UnknownOK'
    BY <2>1, <2>2 DEF UnknownOK, Known, TypeOK, net
  <2>6. MembersOK'
    <3>1. ASSUME NEW d \in Channel, state'[d] = "join sent", ServerOf[d] \in connections'
          PROVE  d \in member' \cup denied'
      <4>1. CASE d = c
        <5>1. state'[d] = "part sent"
          BY <2>1, <2>2, <4>1 DEF TypeOK
        <5>2. QED BY <3>1, <5>1
      <4>2. CASE d # c
        <5>1. state[d] = "join sent" /\ ServerOf[d] \in connections
          BY <2>1, <2>2, <3>1, <4>2 DEF TypeOK, net
        <5>2. d \in member \cup denied
          BY <2>2, <5>1 DEF MembersOK
        <5>3. QED BY <2>1, <4>2, <5>2
      <4>3. QED BY <4>1, <4>2
    <3>2. QED BY <3>1 DEF MembersOK
  <2>7. ScreenType' /\ ScreenOK'
    BY <2>1, <2>2, ScreenStutters
  <2>8. QED
    BY <2>1, <2>2, <2>4, <2>5, <2>6, <2>7, MoveStep DEF PlacesOK, TypeOK, net
<1>3. QED BY <1>1, <1>2

\* end_of_names_hook: the channel that was made for a moment is in no list again.
LEMMA EndOfNamesStep ==
  ASSUME IInv, NEW c \in Channel, EndOfNames(c)
  PROVE  IInv'
<1> DEFINE made == SetChannelWin(shownIn, c, 0, 0)
           left == RemoveFromWindow(made, c, 0)
<1>1. /\ TypeOK /\ ScreenType /\ ScreenOK /\ ListsOK /\ UnknownOK /\ MembersOK
      /\ 0 \in Window /\ phase \in {"start", "wait", "block"}
  BY TypeParts DEF IInv, ScreenOK
<1>2. /\ ~Known(c) /\ Output(0, "output") /\ shownIn' = left /\ Quiet
      /\ UNCHANGED <<net, state, win, member, denied, aways, query, phase, stopped>>
  BY DEF EndOfNames
<1>3. \A v \in Window : ~In(shownIn, c, v)
  BY <1>1, <1>2 DEF ListsOK, Known
<1>4. /\ made \in ListsOfWindows
      /\ \A d \in Channel, v \in Window :
           In(made, d, v) <=> IF d = c THEN v = 0 ELSE In(shownIn, d, v)
  BY <1>1, <1>3, SetChannelWinFacts DEF ListsOK
<1> HIDE DEF made
<1>5. /\ left \in ListsOfWindows
      /\ \A d \in Channel, v \in Window :
           In(left, d, v) <=> In(made, d, v) /\ ~(d = c /\ v = 0)
  BY <1>1, <1>4, RemoveFromWindowFacts
<1> HIDE DEF left
<1>6. ListsOK'
  <2>1. \A d \in Channel, v \in Window : In(left, d, v) <=> In(shownIn, d, v)
    BY <1>3, <1>4, <1>5
  <2>2. \A d \in Channel, v \in Window : In(left, d, v) <=> state'[d] = "join sent" /\ win'[d] = v
    BY <1>1, <1>2, <2>1 DEF ListsOK
  <2>3. QED BY <1>2, <1>5, <2>2 DEF ListsOK, In
<1>7. UnknownOK' /\ MembersOK'
  BY <1>1, <1>2 DEF UnknownOK, MembersOK, Known, net
<1>8. ScreenType' /\ ScreenOK'
  BY <1>1, <1>2, OutputStep
<1>9. QED
  BY <1>1, <1>2, <1>6, <1>7, <1>8, MoveStep DEF PlacesOK, TypeOK, net

\* kick_hook: the user is out of a channel that stays where it is.
LEMMA KickStep ==
  ASSUME IInv, NEW c \in Channel, KickLine(c)
  PROVE  IInv'
<1>1. /\ TypeOK /\ ScreenType /\ ScreenOK /\ PlacesOK
      /\ phase \in {"start", "wait", "block"} /\ win[c] \in Window
  BY TypeParts DEF IInv, ScreenOK, PlacesOK
<1>2. /\ Output(win[c], "nick") /\ Quiet
      /\ member' = member \ {c} /\ denied' = denied \cup {c}
      /\ UNCHANGED <<net, state, win, shownIn, aways, query, phase, stopped>>
  BY DEF KickLine
<1>3. ScreenType' /\ ScreenOK'
  BY <1>1, <1>2, OutputStep
<1>4. PlacesOK'
  BY <1>1, <1>2 DEF PlacesOK, ListsOK, UnknownOK, MembersOK, In, Known, net
<1>5. /\ connections' \subseteq Server /\ users' \subseteq Server
      /\ serverName' \in Server \cup {NoServer} /\ stopped' \in BOOLEAN
      /\ state' \in [Channel -> {"unknown", "join sent", "part sent"}]
      /\ win' \in [Channel -> Window]
      /\ member' \subseteq Channel /\ denied' \subseteq Channel
  <2>1. /\ connections \subseteq Server /\ users \subseteq Server
        /\ serverName \in Server \cup {NoServer} /\ stopped \in BOOLEAN
        /\ state \in [Channel -> {"unknown", "join sent", "part sent"}]
        /\ win \in [Channel -> Window]
        /\ member \subseteq Channel /\ denied \subseteq Channel
    BY <1>1 DEF TypeOK
  <2>2. UNCHANGED <<connections, users, serverName, stopped, state, win>>
    BY <1>2 DEF net
  <2>3. QED BY <1>2, <2>1, <2>2
<1>6. QED BY <1>2, <1>3, <1>4, <1>5, MoveStep

\* A connection that is there, was lost or was made, and what follows for the channels.
NetMoves(s) ==
  \/ UNCHANGED <<connections, users, member, denied>>
  \/ connections' = connections \ {s} /\ users' = users
     /\ member' = Elsewhere(member, s) /\ denied' = Elsewhere(denied, s)
  \/ connections' = connections \cup {s} /\ users' = users \cup {s} /\ Rejoin(s)

\* rejoin_channels asks for every known channel of the server, and the server takes
\* the JOIN or does not.
LEMMA RejoinFacts ==
  ASSUME TypeOK, NEW s \in Server, Rejoin(s)
  PROVE  /\ member' \subseteq Channel /\ denied' \subseteq Channel
         /\ \A d \in member \cup denied : ServerOf[d] # s => d \in member' \cup denied'
         /\ \A d \in Channel : Known(d) /\ ServerOf[d] = s => d \in member' \cup denied'
<1> DEFINE asked == {c \in Channel : Known(c) /\ ServerOf[c] = s}
<1>1. Rejoined(s, asked)
  BY DEF Rejoin
<1>2. asked \subseteq Channel /\ \A d \in Channel : Known(d) /\ ServerOf[d] = s => d \in asked
  OBVIOUS
<1> HIDE DEF asked
<1>3. PICK cs \in SUBSET asked :
         member' = Elsewhere(member, s) \cup cs /\ denied' = Elsewhere(denied, s) \cup (asked \ cs)
  BY <1>1 DEF Rejoined
<1>4. member \subseteq Channel /\ denied \subseteq Channel
  BY DEF TypeOK
<1>5. QED BY <1>2, <1>3, <1>4 DEF Elsewhere

\* irc_connect, irc_disconnect, irc_reconnect: the channels stay where they are,
\* and a new connection joins those that are known.
LEMMA NetStep ==
  ASSUME IInv, UNCHANGED <<state, win, shownIn, aways, query, phase>>, Quiet,
         stopped' \in BOOLEAN, ScreenType', ScreenOK',
         serverName' \in Server \cup {NoServer},
         serverName' = serverName \/ serverName' # NoServer,
         NEW s \in Server, NetMoves(s)
  PROVE  IInv'
<1>1. TypeOK /\ ListsOK /\ UnknownOK /\ MembersOK
  BY DEF IInv
<1>2. ListsOK'
  BY <1>1 DEF ListsOK, In
<1>3. UnknownOK'
  BY <1>1 DEF UnknownOK, Known
<1>4. /\ connections' \subseteq Server /\ users' \subseteq Server
      /\ member' \subseteq Channel /\ denied' \subseteq Channel
  <2>1. /\ connections \subseteq Server /\ users \subseteq Server
        /\ member \subseteq Channel /\ denied \subseteq Channel
    BY <1>1 DEF TypeOK
  <2>2. CASE Rejoin(s) /\ connections' = connections \cup {s} /\ users' = users \cup {s}
    BY <1>1, <2>1, <2>2, RejoinFacts
  <2>3. QED BY <2>1, <2>2 DEF NetMoves, Elsewhere
<1>5. MembersOK'
  <2>1. ASSUME NEW d \in Channel, state'[d] = "join sent", ServerOf[d] \in connections'
        PROVE  d \in member' \cup denied'
    <3>1. state[d] = "join sent" /\ Known(d)
      BY <2>1 DEF Known
    <3>2. ServerOf[d] \in connections => d \in member \cup denied
      BY <1>1, <3>1 DEF MembersOK
    <3>3. CASE Rejoin(s) /\ connections' = connections \cup {s}
      <4>1. ServerOf[d] = s => d \in member' \cup denied'
        BY <1>1, <3>1, <3>3, RejoinFacts
      <4>2. ServerOf[d] # s => d \in member \cup denied
        BY <2>1, <3>2, <3>3
      <4>3. QED BY <1>1, <3>3, <4>1, <4>2, RejoinFacts
    <3>4. QED BY <2>1, <3>2, <3>3 DEF NetMoves, Elsewhere
  <2>2. QED BY <2>1 DEF MembersOK
<1>6. QED
  BY <1>1, <1>2, <1>3, <1>4, <1>5, MoveStep DEF PlacesOK, TypeOK

\* Whether the line of information finds its connection is true or false.
LEMMA FaultsAreBoolean ==
  ASSUME NEW w, NEW name, NEW hash
  PROVE  InfoFaults(w, name, hash) \in BOOLEAN /\ RefreshFaults(w, name, hash) \in BOOLEAN
  BY Zenon DEF InfoFaults, RefreshFaults

\* What a fault leaves.
LEMMA MayStopFacts ==
  ASSUME NEW faults \in BOOLEAN, MayStop(faults)
  PROVE  stopped' \in BOOLEAN
  BY DEF MayStop

\* A refresh follows the connection, or a NULL pointer.
LEMMA RefreshMayStop ==
  ASSUME NEW w, NEW name, NEW hash, MayStop(RefreshFaults(w, name, hash))
  PROVE  stopped' \in BOOLEAN
<1>1. RefreshFaults(w, name, hash) \in BOOLEAN
  BY FaultsAreBoolean
<1> HIDE DEF RefreshFaults
<1>2. QED BY <1>1, MayStopFacts

\* irc_connect makes the connection or not.
LEMMA ConnectFacts ==
  ASSUME TypeOK, NEW s \in Server, Connect(s)
  PROVE  /\ stopped' \in BOOLEAN
         /\ serverName' \in Server \cup {NoServer}
         /\ serverName' = serverName \/ serverName' # NoServer
         /\ NetMoves(s)
<1> DEFINE faults == RefreshFaults(active, serverName, connections \ {s})
<1>1. faults \in BOOLEAN
  BY FaultsAreBoolean
<1> HIDE DEF faults
<1>2. \/ Disconnected(s) /\ MayStop(faults)
      \/ /\ connections' = connections \cup {s} /\ users' = users \cup {s}
         /\ serverName' = s /\ Rejoin(s) /\ MayStop(faults \/ s \in users)
  BY Zenon DEF Connect, faults
<1>3. CASE Disconnected(s) /\ MayStop(faults)
  BY <1>1, <1>3, MayStopFacts DEF Disconnected, NetMoves, TypeOK
<1>4. CASE /\ connections' = connections \cup {s} /\ users' = users \cup {s}
           /\ serverName' = s /\ Rejoin(s) /\ MayStop(faults \/ s \in users)
  <2>1. stopped' \in BOOLEAN
    <3>1. (faults \/ s \in users) \in BOOLEAN
      OBVIOUS
    <3>2. QED BY <1>4, <3>1, MayStopFacts
  <2>2. NetMoves(s)
    BY <1>4 DEF NetMoves
  <2>3. s # NoServer
    BY WindowsOK
  <2>4. QED BY <1>4, <2>1, <2>2, <2>3
<1>5. QED BY <1>2, <1>3, <1>4

\* privmsg and /say: what is said has a server, and a channel or a nick.
LEMMA SayStep ==
  ASSUME IInv, NEW kind \in {"output", "nick"}, IrcSay(kind)
  PROVE  IInv'
<1>1. CASE ServerOf[ActiveChannel] \notin connections
  <2>1. Stop
    BY <1>1 DEF IrcSay
  <2>2. ScreenType' /\ ScreenOK'
    BY <2>1, TypeParts, ScreenStutters DEF IInv, ScreenOK, Stop
  <2>3. QED BY <2>1, <2>2, ShowStep, TypeParts DEF IInv, Stop, aways
<1>2. CASE ServerOf[ActiveChannel] \in connections
  <2>1. /\ TypeOK /\ ScreenType /\ ScreenOK /\ PlacesOK /\ KeptOK
        /\ phase \in {"start", "wait", "block"}
    BY TypeParts DEF IInv, ScreenOK, PlacesOK
  <2>2. /\ said' = [server |-> PickServer,
                    target |-> IF query THEN "query" ELSE ActiveChannel]
        /\ shown' = <<>>
        /\ Keep(kind, query)
        /\ IF query THEN CioOut ELSE Output(win[ActiveChannel], kind)
        /\ UNCHANGED <<net, channels, query, phase, stopped>>
        /\ HasChannel
    BY <1>2 DEF IrcSay
  <2>3. ActiveChannel \in Channel
    <3>1. shownIn[active] \in Seq(Channel) /\ shownIn[active] # <<>>
      BY <2>1, <2>2 DEF TypeOK, HasChannel
    <3>2. QED BY <3>1 DEF ActiveChannel
  <2>4. win[ActiveChannel] \in Window /\ active \in Window
    BY <2>1, <2>3 DEF TypeOK
  <2>5. ScreenType' /\ ScreenOK'
    BY <2>1, <2>2, <2>4, OutputStep DEF CioOut
  <2>6. PlacesOK'
    BY <2>1, <2>2, PlacesStutter
  <2>7. /\ kept' \in Seq(0..MaxMessages) /\ owed' \in 0..MaxMessages
        /\ away' \in BOOLEAN /\ KeptOK'
    <3>1. query \in BOOLEAN
      BY <2>1 DEF TypeOK
    <3>2. QED BY <2>1, <2>2, <3>1, KeepStep
  <2>8. PickServer \in Server \cup {NoServer}
    BY <2>1, <2>3, WindowsOK DEF PickServer, TypeOK
  <2>9. said' \in [server : Server \cup {NoServer}, target : Channel \cup {"nobody", "query"}]
    BY <2>2, <2>3, <2>8
  <2>10. shown' \in Seq(0..MaxMessages)
    BY <2>2, EmptySeq
  <2>11. TypeOK'
    BY <2>1, <2>2, <2>5, <2>7, <2>9, <2>10 DEF TypeOK, ScreenType, net, channels
  <2>12. QED BY <2>5, <2>6, <2>7, <2>11 DEF IInv, ScreenOK, PlacesOK
<1>3. QED BY <1>1, <1>2

\* /back: what is displayed is what was kept, and nothing is kept any more.
LEMMA BackStep ==
  ASSUME IInv, BackHook
  PROVE  IInv' /\ shown' = kept
<1>1. /\ TypeOK /\ ScreenType /\ ScreenOK /\ PlacesOK
      /\ phase \in {"start", "wait", "block"} /\ active \in Window
  BY TypeParts DEF IInv, ScreenOK, PlacesOK, ScreenType
<1>2. shown' = kept /\ kept' = <<>>
  BY <1>1, DisplayMsgsFacts DEF BackHook, TypeOK
<1>3. /\ away' = FALSE /\ owed' = 0 /\ said' = Silent /\ CioOut
      /\ UNCHANGED <<net, channels, query, phase>> /\ stopped' \in BOOLEAN
  BY RefreshMayStop DEF BackHook
<1>4. ScreenType' /\ ScreenOK'
  BY <1>1, <1>3, OutputStep DEF CioOut
<1>5. PlacesOK'
  BY <1>1, <1>3, PlacesStutter
<1>6. KeptOK'
  <2>1. OfChannels(<<>>) = [n \in 1..0 |-> n]
    BY NoMessages
  <2>2. OfChannels(kept') = [n \in 1..owed' |-> n] /\ owed' <= Len(kept')
    BY <1>2, <1>3, <2>1
  <2>3. QED BY <2>2, Zenon DEF KeptOK, OfChannels
<1>7. TypeOK'
  <2>1. kept' \in Seq(0..MaxMessages) /\ 0 \in 0..MaxMessages
    BY <1>2, EmptySeq, WindowsOK
  <2>2. QED BY <1>1, <1>2, <1>3, <1>4, <2>1 DEF TypeOK, ScreenType, net, channels, Silent
<1>8. QED BY <1>2, <1>4, <1>5, <1>6, <1>7 DEF IInv, ScreenOK, PlacesOK

\* The screen: a window that is shown is listed no more, and a block of output
\* that ends shows what was put off in it.
LEMMA ShowWindowStep ==
  ASSUME ScreenType, ScreenOK, driver, NEW w \in Window, ShowWindow(w), UNCHANGED phase
  PROVE  ScreenType' /\ ScreenOK'
<1>1. ScreenType'
  BY DEF ScreenType, ShowWindow, Refresh, Flag
<1>2. FlagsOK'
  BY DEF ScreenType, ScreenOK, FlagsOK, ShowWindow
<1>3. DepthOK'
  BY DEF ScreenOK, DepthOK, ShowWindow
<1>4. StaleOK'
  <2>1. stale' => ready' /\ depth # 0
    BY DEF ShowWindow, Refresh
  <2>2. depth # 0 => (counted => phase = "block")
    BY DEF ScreenOK, DepthOK
  <2>3. QED BY <2>1, <2>2 DEF ShowWindow, StaleOK
<1>5. QED BY <1>1, <1>2, <1>3, <1>4 DEF ScreenOK

\* print_relevant_wins: each of the windows that is not shown is flagged.
LEMMA NickLineStep ==
  ASSUME IInv, NEW cs \in SUBSET Channel, NEW kind \in {"output", "nick"}, NickLine(cs, kind)
  PROVE  IInv'
<1> DEFINE ws == Relevant(cs)
<1>1. TypeOK /\ ScreenType /\ ScreenOK /\ phase \in {"start", "wait", "block"}
  BY TypeParts DEF IInv, ScreenOK
<1>2. /\ flags' = [w \in Window |->
             IF driver /\ w \in ws \ {active} THEN Worse(flags[w], kind) ELSE flags[w]]
      /\ unseen' = [w \in Window |->
             IF driver /\ w \in ws \ {active} THEN Worse(unseen[w], kind) ELSE unseen[w]]
      /\ IF active \in ws THEN PutActive ELSE UNCHANGED <<ready, stale>>
      /\ UNCHANGED <<active, windowMax, driver, depth, counted, phase>>
  BY DEF NickLine
<1> HIDE DEF ws
<1>3. (\E w \in Window : w = active /\ PutActive) \/ UNCHANGED <<ready, stale>>
  BY <1>1, <1>2 DEF ScreenType
<1>4. ready' \in BOOLEAN /\ stale' \in BOOLEAN
  BY <1>1, <1>3 DEF ScreenType, PutActive, Refresh
<1>5. ScreenType'
  BY <1>1, <1>2, <1>4 DEF ScreenType, Worse, Flag
<1>6. FlagsOK'
  BY <1>1, <1>2 DEF ScreenType, ScreenOK, FlagsOK
<1>7. DepthOK'
  BY <1>1, <1>2 DEF ScreenOK, DepthOK
<1>8. StaleOK'
  <2>1. CASE UNCHANGED <<ready, stale>>
    BY <1>1, <1>2, <2>1 DEF ScreenOK, StaleOK
  <2>2. CASE driver /\ Refresh
    <3>1. stale' => ready' /\ depth # 0
      BY <2>2 DEF Refresh
    <3>2. depth # 0 => (counted => phase = "block")
      BY <1>1, <2>2 DEF ScreenOK, DepthOK
    <3>3. QED BY <1>2, <2>2, <3>1, <3>2 DEF StaleOK
  <2>3. QED BY <1>3, <2>1, <2>2 DEF PutActive
<1>9. QED
  BY <1>1, <1>2, <1>5, <1>6, <1>7, <1>8, ShowStep DEF NickLine, ScreenOK, aways, TypeOK

\* The driver is told of blocks from the one on that begins after it was loaded.
LEMMA DriverStep ==
  ASSUME IInv, LoadDriver \/ UnloadDriver
  PROVE  IInv'
<1>1. /\ TypeOK /\ ScreenType /\ phase \in {"start", "wait", "block"} /\ phase # "wait"
      /\ 0 \in Window /\ MaxWindows \in Nat \ {0, 1}
  BY TypeParts DEF IInv, LoadDriver, UnloadDriver, Running
<1>2. WindowsOfDriver \in Window
  BY <1>1 DEF WindowsOfDriver, Window
<1>3. Unflagged \in [Window -> Flag] /\ \A w \in Window : Unflagged[w] = "none"
  BY DEF Unflagged, Flag
<1>4. ScreenType'
  <2>1. flags' = Unflagged /\ unseen' = Unflagged /\ active' = active
    BY DEF LoadDriver, UnloadDriver
  <2>2. /\ windowMax' \in Window /\ depth' = 0
        /\ ready' \in BOOLEAN /\ stale' \in BOOLEAN /\ driver' \in BOOLEAN
    BY <1>1, <1>2, Zenon DEF LoadDriver, UnloadDriver
  <2>3. counted' \in BOOLEAN
    BY DEF LoadDriver, UnloadDriver
  <2>4. QED BY <1>1, <1>3, <2>1, <2>2, <2>3 DEF ScreenType
<1>5. FlagsOK'
  BY <1>1, <1>3 DEF ScreenType, FlagsOK, LoadDriver, UnloadDriver
<1>6. DepthOK'
  <2>1. CASE LoadDriver
    <3>1. driver' /\ depth' = 0 /\ phase' = phase /\ (counted' <=> phase # "block")
      BY <1>1, <2>1 DEF LoadDriver
    <3>2. QED BY <3>1 DEF DepthOK
  <2>2. CASE UnloadDriver
    <3>1. ~driver' /\ depth' = 0 /\ counted'
      BY <2>2 DEF UnloadDriver
    <3>2. QED BY <3>1 DEF DepthOK
  <2>3. QED BY <2>1, <2>2
<1>7. StaleOK'
  BY DEF StaleOK, LoadDriver, UnloadDriver
<1>8. stopped' \in BOOLEAN
  <2>1. CASE LoadDriver
    <3>1. MayStop(InfoFaults(active, serverName, connections))
      BY <2>1 DEF LoadDriver
    <3> HIDE DEF InfoFaults
    <3>2. QED BY <3>1, FaultsAreBoolean, MayStopFacts
  <2>2. CASE UnloadDriver
    BY <1>1, <2>2 DEF UnloadDriver, TypeOK
  <2>3. QED BY <2>1, <2>2
<1>9. QED
  BY <1>1, <1>4, <1>5, <1>6, <1>7, <1>8, ShowStep
     DEF LoadDriver, UnloadDriver, ScreenOK, aways

\* begin_io_block and end_io_block.
LEMMA BlockStep ==
  ASSUME IInv, BeginIoBlock \/ EndIoBlock
  PROVE  IInv'
<1>1. TypeOK /\ ScreenType /\ ScreenOK /\ phase \in {"start", "wait", "block"}
  BY TypeParts DEF IInv, ScreenOK
<1>2. /\ UNCHANGED <<active, windowMax, driver, flags, unseen, counted>>
      /\ UNCHANGED <<net, channels, aways, query>>
      /\ Quiet
      /\ phase' \in {"start", "wait", "block"}
  BY DEF BeginIoBlock, EndIoBlock, Keeps
<1>3. DepthOK'
  <2>1. CASE BeginIoBlock
    BY <1>1, <1>2, <2>1 DEF ScreenOK, DepthOK, BeginIoBlock
  <2>2. CASE EndIoBlock
    BY <1>1, <1>2, <2>2 DEF ScreenOK, DepthOK, EndIoBlock
  <2>3. QED BY <2>1, <2>2
<1>4. StaleOK'
  <2>1. CASE BeginIoBlock
    BY <1>1, <1>2, <2>1 DEF ScreenOK, StaleOK, BeginIoBlock
  <2>2. CASE EndIoBlock
    <3>1. phase' = "wait"
      BY <2>2 DEF EndIoBlock
    <3>2. driver /\ counted => depth' = 0
      <4>1. (driver <=> driver') /\ (counted <=> counted') /\ phase' # "block"
        BY <1>2, <3>1
      <4>2. driver' /\ counted' => depth' = 0 - 0
        BY <1>3, <4>1, Zenon DEF DepthOK
      <4>3. QED BY <4>1, <4>2
    <3>3. stale => ready /\ driver
      BY <1>1 DEF ScreenOK, StaleOK
    <3>4. stale' => stale /\ ready' = (depth' # 0) /\ depth' # 0
      BY <1>1, <2>2, <3>3 DEF EndIoBlock, ScreenType
    <3>5. QED BY <1>2, <3>2, <3>3, <3>4 DEF StaleOK
  <2>3. QED BY <2>1, <2>2
<1>5. ScreenType'
  <2>1. depth' \in -1..1
    BY <1>1, <1>2, <1>3 DEF DepthOK, ScreenType
  <2>2. ready' \in BOOLEAN /\ stale' \in BOOLEAN
    BY <1>1 DEF BeginIoBlock, EndIoBlock, ScreenType
  <2>3. QED BY <1>1, <1>2, <2>1, <2>2 DEF ScreenType
<1>6. FlagsOK'
  BY <1>1, <1>2 DEF ScreenOK, FlagsOK
<1>7. stopped' \in BOOLEAN
  <2>1. CASE BeginIoBlock
    BY <1>1, <2>1 DEF BeginIoBlock, TypeOK
  <2>2. CASE EndIoBlock
    <3> DEFINE faults == /\ driver /\ ready /\ depth' = 0
                         /\ InfoFaults(active, serverName, connections)
    <3>1. faults \in BOOLEAN /\ MayStop(faults)
      BY <2>2 DEF EndIoBlock
    <3> HIDE DEF faults
    <3>2. QED BY <3>1, MayStopFacts
  <2>3. QED BY <2>1, <2>2
<1>8. QED
  BY <1>1, <1>2, <1>3, <1>4, <1>5, <1>6, <1>7, ShowStep DEF ScreenOK, aways

-----------------------------------------------------------------------------
(* The theorems.                                                           *)

\* bnirc starts with nothing connected, known, shown or kept.
LEMMA InitOK == Init => IInv
<1> SUFFICES ASSUME Init PROVE IInv
  OBVIOUS
<1>1. /\ ServerOf \in [Channel -> Server] /\ MaxWindows \in Nat \ {0, 1}
      /\ MaxMessages \in Nat /\ NoServer \notin Server
  BY WindowsOK
<1>2. 0 \in Window /\ <<>> \in Seq(0..MaxMessages) /\ <<>> \in Seq(Channel)
  BY <1>1, EmptySeq DEF Window
<1>3. Unflagged \in [Window -> Flag] /\ \A w \in Window : Unflagged[w] = "none"
  BY DEF Unflagged, Flag
<1>4. \A w \in Window : shownIn[w] = <<>>
  BY DEF Init
<1>5. Range(<<>>) = {} /\ IsInjective(<<>>)
  BY DEF Range, IsInjective
<1>6. TypeOK
  <2>1. ScreenType
    <3>1. active = 0 /\ windowMax = 1 /\ depth = 0
      BY DEF Init
    <3>2. active \in Window /\ windowMax \in Window /\ depth \in -1..1
      BY <1>1, <3>1 DEF Window
    <3>3. flags \in [Window -> Flag] /\ unseen \in [Window -> Flag]
      BY <1>3 DEF Init
    <3>4. /\ ready \in BOOLEAN /\ stale \in BOOLEAN /\ counted \in BOOLEAN
          /\ driver \in BOOLEAN
      BY DEF Init
    <3>5. QED BY <3>2, <3>3, <3>4 DEF ScreenType
  <2>2. said \in [server : Server \cup {NoServer}, target : Channel \cup {"nobody", "query"}]
    BY DEF Init, Silent
  <2>3. owed \in 0..MaxMessages
    BY <1>1 DEF Init
  <2>4. /\ connections \subseteq Server /\ users \subseteq Server /\ serverName \in Server \cup {NoServer}
        /\ state \in [Channel -> {"unknown", "join sent", "part sent"}]
        /\ win \in [Channel -> Window]
        /\ shownIn \in [Window -> Seq(Channel)]
        /\ query \in BOOLEAN /\ away \in BOOLEAN /\ stopped \in BOOLEAN
        /\ phase \in {"start", "wait", "block"}
        /\ kept \in Seq(0..MaxMessages) /\ shown \in Seq(0..MaxMessages)
        /\ member \subseteq Channel /\ denied \subseteq Channel
    BY <1>2 DEF Init
  <2>5. QED BY <2>1, <2>2, <2>3, <2>4 DEF TypeOK, ScreenType
<1>7. ListsOK
  <2>1. shownIn \in ListsOfWindows
    BY <1>4, <1>5, <1>6 DEF ListsOfWindows, TypeOK
  <2>2. \A c \in Channel, w \in Window : ~In(shownIn, c, w) /\ state[c] = "unknown"
    BY <1>4, <1>5 DEF In, Init
  <2>3. QED BY <2>1, <2>2 DEF ListsOK
<1>8. UnknownOK /\ MembersOK
  BY DEF Init, UnknownOK, MembersOK, Known
<1>9. FlagsOK /\ DepthOK /\ StaleOK
  BY <1>2, <1>3 DEF Init, FlagsOK, DepthOK, StaleOK
<1>10. KeptOK
  <2>1. OfChannels(<<>>) = [n \in 1..0 |-> n]
    BY NoMessages
  <2>2. kept = <<>> /\ owed = 0 /\ Len(<<>>) = 0
    BY DEF Init
  <2>3. QED BY <2>1, <2>2 DEF KeptOK
<1>11. QED BY <1>6, <1>7, <1>8, <1>9, <1>10 DEF IInv

\* A command of the user.
LEMMA CommandStep == IInv /\ Command => IInv'
<1> SUFFICES ASSUME IInv, Command PROVE IInv'
  OBVIOUS
<1>0. /\ TypeOK /\ ScreenType /\ ScreenOK /\ active \in Window
      /\ phase \in {"start", "wait", "block"}
  BY TypeParts DEF IInv, ScreenOK, ScreenType
<1>1. ASSUME NEW c \in Channel, JoinHook(c) PROVE IInv'
  BY <1>1, JoinStep
<1>2. ASSUME NEW c \in Channel, PartHook(c) PROVE IInv'
  BY <1>2, PartStep
<1>3. ASSUME NEW kind \in {"output", "nick"}, IrcSay(kind) PROVE IInv'
  BY <1>3, SayStep
<1>4. CASE SayNowhere
  BY <1>0, <1>4, ScreenStutters, ShowStep DEF SayNowhere, aways, TypeOK
<1>5. CASE QueryHook
  <2>1. /\ UNCHANGED <<net, channels, screen, aways, phase, stopped>> /\ Quiet
        /\ query' \in BOOLEAN
    BY <1>5 DEF QueryHook
  <2>2. ScreenType' /\ ScreenOK'
    BY <1>0, <2>1, ScreenStutters
  <2>3. PlacesOK' /\ KeptOK'
    BY <2>1, PlacesStutter DEF IInv, PlacesOK, KeptOK, aways
  <2>4. <<>> \in Seq(0..MaxMessages)
    BY EmptySeq
  <2>5. TypeOK'
    BY <1>0, <2>1, <2>2, <2>4 DEF TypeOK, ScreenType, net, channels, aways, Quiet, Silent
  <2>6. QED BY <2>2, <2>3, <2>5 DEF IInv, ScreenOK, PlacesOK
<1>6. CASE AwayHook
  <2>1. away' \in BOOLEAN /\ Output(active, "output")
    BY <1>6 DEF AwayHook, CioOut
  <2>2. stopped' \in BOOLEAN
    BY <1>6, RefreshMayStop DEF AwayHook
  <2>3. QED BY <1>0, <1>6, <2>1, <2>2, PutStep DEF AwayHook
<1>7. CASE BackHook
  BY <1>7, BackStep
<1>8. ASSUME NEW w \in 0..MaxWindows, WindowHook(w) PROVE IInv'
  <2>1. /\ UNCHANGED <<net, channels, aways, query, phase>> /\ Quiet
        /\ \/ CioOut /\ MayStop(RefreshFaults(active, serverName, connections))
           \/ driver /\ w \in Window /\ ShowWindow(w)
           \/ UNCHANGED <<screen, stopped>>
    BY <1>8 DEF WindowHook
  <2>2. ScreenType' /\ ScreenOK'
    BY <1>0, <2>1, OutputStep, ShowWindowStep, ScreenStutters DEF CioOut
  <2>3. stopped' \in BOOLEAN
    BY <1>0, <2>1, RefreshMayStop DEF ShowWindow, TypeOK
  <2>4. QED BY <1>0, <2>1, <2>2, <2>3, ShowStep DEF aways
<1>9. ASSUME NEW w \in Window, FunctionKey(w) PROVE IInv'
  <2>1. /\ UNCHANGED <<net, channels, aways, query, phase>> /\ Quiet
        /\ driver /\ ShowWindow(w)
    BY <1>9 DEF FunctionKey
  <2>2. ScreenType' /\ ScreenOK'
    BY <1>0, <2>1, ShowWindowStep
  <2>3. stopped' \in BOOLEAN
    BY <2>1, RefreshMayStop DEF ShowWindow
  <2>4. QED BY <1>0, <2>1, <2>2, <2>3, ShowStep DEF aways
<1>10. CASE LoadDriver \/ UnloadDriver
  BY <1>10, DriverStep
<1>11. ASSUME NEW s \in Server, IrcConnect(s) PROVE IInv'
  <2>1. /\ Output(active, "output") /\ Quiet
        /\ UNCHANGED <<state, win, shownIn, aways, query, phase>>
    BY <1>11 DEF IrcConnect, CioOut
  <2>2. ScreenType' /\ ScreenOK'
    BY <1>0, <2>1, OutputStep
  <2>3. /\ stopped' \in BOOLEAN
        /\ serverName' \in Server \cup {NoServer}
        /\ serverName' = serverName \/ serverName' # NoServer
        /\ NetMoves(s)
    <3>1. CASE Connect(s)
      BY <1>0, <3>1, ConnectFacts
    <3>2. CASE s \in connections
      <4>1. /\ serverName' = s /\ UNCHANGED <<connections, users, member, denied>>
            /\ MayStop(RefreshFaults(active, s, connections))
        BY <1>11, <3>2 DEF IrcConnect
      <4>2. stopped' \in BOOLEAN
        BY <4>1, RefreshMayStop
      <4>3. s # NoServer
        BY WindowsOK
      <4>4. QED BY <4>1, <4>2, <4>3 DEF NetMoves
    <3>3. QED BY <1>11, <3>1, <3>2 DEF IrcConnect
  <2>4. QED BY <2>1, <2>2, <2>3, NetStep
<1>12. ASSUME NEW s \in Server, IrcDisconnect(s) PROVE IInv'
  <2>1. /\ Output(active, "output") /\ Quiet /\ Disconnected(s)
        /\ MayStop(RefreshFaults(active, serverName, connections'))
        /\ UNCHANGED <<state, win, shownIn, aways, query, phase>>
    BY <1>12 DEF IrcDisconnect, CioOut
  <2>2. ScreenType' /\ ScreenOK'
    BY <1>0, <2>1, OutputStep
  <2>3. stopped' \in BOOLEAN
    BY <2>1, RefreshMayStop
  <2>4. serverName' = serverName /\ serverName' \in Server \cup {NoServer} /\ NetMoves(s)
    BY <1>0, <2>1 DEF Disconnected, NetMoves, TypeOK
  <2>5. QED BY <2>1, <2>2, <2>3, <2>4, NetStep
<1>13. QED
  BY <1>1, <1>2, <1>3, <1>4, <1>5, <1>6, <1>7, <1>8, <1>9, <1>10, <1>11, <1>12 DEF Command

\* Every other step: a line of a server, the loss of a connection, the main loop.
LEMMA NextStep == IInv /\ [Next]_vars => IInv'
<1> SUFFICES ASSUME IInv, [Next]_vars PROVE IInv'
  OBVIOUS
<1>0. /\ TypeOK /\ ScreenType /\ ScreenOK /\ active \in Window
      /\ phase \in {"start", "wait", "block"}
  BY TypeParts DEF IInv, ScreenOK, ScreenType
<1>1. CASE Command
  BY <1>1, CommandStep
<1>2. ASSUME NEW c \in Channel, NEW kind \in {"output", "nick"}, ChannelLine(c, kind)
      PROVE  IInv'
  <2>1. win[c] \in Window /\ stopped \in BOOLEAN
    BY <1>0 DEF TypeOK
  <2>2. Keep(kind, FALSE) /\ stopped' = stopped
    BY <1>2 DEF ChannelLine
  <2>3. stopped' \in BOOLEAN /\ \E k : \E p \in BOOLEAN : Keep(k, p)
    BY <2>1, <2>2
  <2>4. QED BY <1>2, <2>1, <2>3, PutStep DEF ChannelLine
<1>3. ASSUME NEW kind \in {"output", "nick"}, PrivateLine(kind) PROVE IInv'
  <2>1. Output(active, "output") /\ Keep(kind, TRUE) /\ stopped' = stopped
    BY <1>3 DEF PrivateLine, CioOut
  <2>2. stopped' \in BOOLEAN /\ \E k : \E p \in BOOLEAN : Keep(k, p)
    BY <1>0, <2>1 DEF TypeOK
  <2>3. QED BY <1>0, <1>3, <2>1, <2>2, PutStep DEF PrivateLine
<1>4. ASSUME NEW cs \in SUBSET Channel, NEW kind \in {"output", "nick"}, NickLine(cs, kind)
      PROVE  IInv'
  BY <1>4, NickLineStep
<1>5. ASSUME NEW c \in Channel, EndOfNames(c) PROVE IInv'
  BY <1>5, EndOfNamesStep
<1>6. ASSUME NEW s \in Server, IrcReconnect(s) PROVE IInv'
  <2>1. /\ Output(active, "output") /\ Quiet /\ Connect(s)
        /\ UNCHANGED <<state, win, shownIn, aways, query, phase>>
    BY <1>6 DEF IrcReconnect, CioOut
  <2>2. ScreenType' /\ ScreenOK'
    BY <1>0, <2>1, OutputStep
  <2>3. QED BY <1>0, <2>1, <2>2, ConnectFacts, NetStep
<1>7. CASE BeginIoBlock \/ EndIoBlock
  BY <1>7, BlockStep
<1>7a. ASSUME NEW c \in Channel, KickLine(c) PROVE IInv'
  BY <1>7a, KickStep
<1>7b. CASE RefresherFunc
  <2>1. Stop
    BY <1>7b DEF RefresherFunc
  <2>2. ScreenType' /\ ScreenOK'
    BY <1>0, <2>1, ScreenStutters DEF Stop
  <2>3. QED BY <1>0, <2>1, <2>2, ShowStep DEF Stop, aways
<1>8. CASE UNCHANGED vars
  <2>1. PlacesOK' /\ KeptOK'
    BY <1>8, PlacesStutter DEF vars, IInv, PlacesOK, KeptOK, aways
  <2>2. ScreenType' /\ ScreenOK'
    BY <1>0, <1>8, ScreenStutters DEF vars
  <2>3. TypeOK'
    <3>1. /\ UNCHANGED <<net, channels, away, kept, owed>>
          /\ UNCHANGED <<query, phase, stopped, shown, said>>
      BY <1>8 DEF vars, aways
    <3>2. QED BY <1>0, <2>2, <3>1 DEF net, channels, TypeOK, ScreenType
  <2>4. QED BY <2>1, <2>2, <2>3 DEF IInv, ScreenOK, PlacesOK
<1>9. QED
  BY <1>1, <1>2, <1>3, <1>4, <1>5, <1>6, <1>7, <1>7a, <1>7b, <1>8 DEF Next, Line

\* The inductive invariant holds in every state that bnirc reaches.
THEOREM Inductive == Spec => []IInv
  BY InitOK, NextStep, PTL DEF Spec

\* Every part of the state is of its type: no window is out of the driver's array,
\* and the depth of the blocks never goes below -1, nor over 1.
THEOREM TypeCorrect == Spec => []TypeOK
<1>1. IInv => TypeOK
  BY DEF IInv
<1>2. QED BY <1>1, Inductive, PTL

\* A channel that was joined and not left since is in the list of exactly one
\* window, once, the one its lines are written to; no other channel is in any list.
THEOREM OneWindow == Spec => []Placed
<1>1. ASSUME IInv, NEW c \in Channel, NEW w \in Window
      PROVE  Cardinality({n \in DOMAIN shownIn[w] : shownIn[w][n] = c})
               = IF state[c] = "join sent" /\ win[c] = w THEN 1 ELSE 0
  <2> DEFINE nodes == {n \in DOMAIN shownIn[w] : shownIn[w][n] = c}
  <2>1. /\ IsInjective(shownIn[w])
        /\ c \in Range(shownIn[w]) <=> state[c] = "join sent" /\ win[c] = w
    BY <1>1 DEF IInv, ListsOK, ListsOfWindows, In
  <2>2. CASE c \in Range(shownIn[w])
    <3>1. PICK n \in DOMAIN shownIn[w] : shownIn[w][n] = c
      BY <2>2 DEF Range
    <3>2. nodes = {n}
      BY <2>1, <3>1 DEF IsInjective
    <3>3. Cardinality(nodes) = 1
      BY <3>2, FS_Singleton
    <3>4. QED BY <2>1, <2>2, <3>3
  <2>3. CASE c \notin Range(shownIn[w])
    <3>1. nodes = {}
      BY <2>3 DEF Range
    <3>2. Cardinality(nodes) = 0
      BY <3>1, FS_EmptySet
    <3>3. QED BY <2>1, <2>3, <3>2
  <2>4. QED BY <2>2, <2>3
<1>2. IInv => Placed
  BY <1>1 DEF Placed
<1>3. QED BY <1>2, Inductive, PTL

\* While its server is connected, the user is in every channel that a window shows,
\* after reconnections as well, or its server did not take the last JOIN for it or
\* kicked him since.
THEOREM ShownIsMember == Spec => []ShowsMembership
<1>1. IInv => ShowsMembership
  <2> SUFFICES ASSUME IInv, NEW w \in Window, NEW c \in Range(shownIn[w]),
                      ServerOf[c] \in connections
               PROVE  c \in member \cup denied
    BY DEF ShowsMembership
  <2>1. shownIn[w] \in Seq(Channel)
    BY DEF IInv, TypeOK
  <2>2. c \in Channel
    BY <2>1, RangeFacts
  <2>3. state[c] = "join sent"
    BY <2>2 DEF IInv, ListsOK, In
  <2>4. QED BY <2>2, <2>3 DEF IInv, MembersOK
<1>2. QED BY <1>1, Inductive, PTL

\* The line of information lists the windows that have lines the user did not see,
\* and never the window he looks at.
THEOREM UnseenIsListed == Spec => []ListsUnseen
<1>1. IInv => ListsUnseen
  BY DEF IInv, FlagsOK, ListsUnseen
<1>2. QED BY <1>1, Inductive, PTL

\* When the main loop waits, the screen has what was printed, if the driver was
\* told when the block began in which it was loaded.
THEOREM Fresh == Spec => []ScreenIsFresh
<1>1. IInv => ScreenIsFresh
  BY DEF IInv, StaleOK, ScreenIsFresh
<1>2. QED BY <1>1, Inductive, PTL

\* /back displays all the messages with his nick that channels got since /away, once,
\* in order; nothing else displays any.
THEOREM DisplayedOnce == Spec => BackShowsAll
<1> DEFINE P == owed' < owed \/ shown' # <<>> => OfChannels(shown') = [n \in 1..owed |-> n]
<1>1. ASSUME IInv, [Next]_vars PROVE P \/ UNCHANGED vars
  <2>1. CASE BackHook
    BY <1>1, <2>1, BackStep DEF IInv, KeptOK
  <2>2. owed \in Nat
    <3>1. owed \in 0..MaxMessages
      BY <1>1 DEF IInv, TypeOK
    <3>2. QED BY <3>1, WindowsOK
  <2> DEFINE None == shown' = <<>> /\ ~(owed' < owed)
  <2>3. \A kind : \A private \in BOOLEAN : Keep(kind, private) => ~(owed' < owed)
    BY <1>1, KeepStep DEF IInv
  <2>4. UNCHANGED aways => ~(owed' < owed)
    BY <2>2 DEF aways
  <2>5. ASSUME NEW c \in Channel, JoinHook(c) \/ PartHook(c) PROVE None
    BY <2>4, <2>5 DEF JoinHook, PartHook, Stop, Quiet
  <2>6. ASSUME NEW kind, IrcSay(kind) PROVE None
    <3>1. query \in BOOLEAN
      BY <1>1 DEF IInv, TypeOK
    <3>2. shown' = <<>> /\ (Keep(kind, query) \/ UNCHANGED aways)
      BY <2>6 DEF IrcSay, Stop, Quiet
    <3>3. QED BY <2>3, <2>4, <3>1, <3>2
  <2>7. CASE SayNowhere \/ QueryHook
    BY <2>4, <2>7 DEF SayNowhere, QueryHook, Quiet
  <2>8. CASE AwayHook
    BY <2>2, <2>8 DEF AwayHook, Quiet
  <2>9. ASSUME NEW w, WindowHook(w) \/ FunctionKey(w) PROVE None
    BY <2>4, <2>9 DEF WindowHook, FunctionKey, Quiet
  <2>10. CASE LoadDriver \/ UnloadDriver
    BY <2>4, <2>10 DEF LoadDriver, UnloadDriver, Quiet
  <2>11. ASSUME NEW s, IrcConnect(s) \/ IrcDisconnect(s) \/ IrcReconnect(s) PROVE None
    BY <2>4, <2>11 DEF IrcConnect, IrcDisconnect, IrcReconnect, Quiet
  <2>12. ASSUME NEW c, NEW kind, ChannelLine(c, kind) \/ PrivateLine(kind) PROVE None
    BY <2>3, <2>12 DEF ChannelLine, PrivateLine, Quiet
  <2>13. ASSUME NEW cs, NEW kind, NickLine(cs, kind) PROVE None
    BY <2>4, <2>13 DEF NickLine, Quiet
  <2>14. ASSUME NEW c, EndOfNames(c) \/ KickLine(c) PROVE None
    BY <2>4, <2>14 DEF EndOfNames, KickLine, Quiet
  <2>15. CASE BeginIoBlock \/ EndIoBlock \/ RefresherFunc
    BY <2>4, <2>15 DEF BeginIoBlock, EndIoBlock, RefresherFunc, Stop, Keeps, Quiet
  <2>16. None => P
    OBVIOUS
  <2> HIDE DEF None, P
  <2>17. QED
    BY <1>1, <2>1, <2>5, <2>6, <2>7, <2>8, <2>9, <2>10, <2>11, <2>12, <2>13, <2>14, <2>15,
       <2>16 DEF Next, Command, Line
<1>2. QED BY <1>1, Inductive, PTL DEF Spec, BackShowsAll

\* What the user says goes to the server of the channel in front of the active
\* window, to somebody he queries or to a channel that he joined and did not leave.
THEOREM SaidThere == Spec => SaidWhereShown
<1> DEFINE P == said' # Silent =>
                  /\ HasChannel /\ said'.server = ServerOf[ActiveChannel]
                  /\ said'.target \in Channel => state[said'.target] = "join sent"
<1>1. ASSUME IInv, [Next]_vars PROVE P \/ UNCHANGED vars
  <2>1. ASSUME NEW kind \in {"output", "nick"}, IrcSay(kind) PROVE P
    <3>1. CASE said' = Silent
      BY <3>1
    <3>2. CASE said' # Silent
      <4>1. /\ HasChannel
            /\ said' = [server |-> PickServer,
                        target |-> IF query THEN "query" ELSE ActiveChannel]
        BY <2>1, <3>2 DEF IrcSay, Stop, Quiet
      <4>2. shownIn[active] \in Seq(Channel) /\ shownIn[active] # <<>> /\ active \in Window
        BY <1>1, <4>1 DEF IInv, TypeOK, HasChannel
      <4>3. ActiveChannel \in Channel /\ ActiveChannel \in Range(shownIn[active])
        BY <4>2, RangeFacts DEF ActiveChannel
      <4>4. state[ActiveChannel] = "join sent"
        BY <1>1, <4>2, <4>3 DEF IInv, ListsOK, In
      <4>5. serverName # NoServer
        BY <1>1, <4>3, <4>4 DEF IInv, UnknownOK, Known
      <4>6. said'.server = ServerOf[ActiveChannel]
        BY <4>1, <4>5 DEF PickServer
      <4>7. said'.target \in Channel => said'.target = ActiveChannel
        BY <4>1, WindowsOK
      <4>8. QED BY <4>1, <4>4, <4>6, <4>7
    <3>3. QED BY <3>1, <3>2
  <2>2. CASE Next /\ ~(\E kind \in {"output", "nick"} : IrcSay(kind))
    <3>1. said' = Silent
      BY <2>2
         DEF Next, Command, Line, JoinHook, PartHook, SayNowhere, QueryHook, AwayHook,
             BackHook, WindowHook, FunctionKey, LoadDriver, UnloadDriver, IrcConnect,
             IrcDisconnect, Stop, ChannelLine, PrivateLine, NickLine, EndOfNames,
             KickLine, IrcReconnect, BeginIoBlock, EndIoBlock, RefresherFunc, Quiet
    <3>2. QED BY <3>1
  <2>3. QED BY <1>1, <2>1, <2>2
<1>2. QED BY <1>1, Inductive, PTL DEF Spec, SaidWhereShown
=============================================================================
