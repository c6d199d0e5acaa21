------------------------- MODULE ConnectionsProofs -------------------------
(***************************************************************************)
(* The safety of Connections for any servers, objects and sizes of the      *)
(* table of polled descriptors.                                            *)
(*                                                                         *)
(* SlotsLive and ConnectionsKept are each half of what is inductive: which  *)
(* slots are left after an unregister_poll follows from the object that     *)
(* goes having one slot or none (Linked), and the object that irc_disconnect *)
(* finds by name is the one the loop is at only because names and objects   *)
(* belong together one to one (StoreOK).  After an error callback the loop  *)
(* looks at its slot once more, whatever is in it now (RecheckOK).          *)
(*                                                                         *)
(* A callback disconnects and connects in one step: what holds of the state *)
(* is stated of any table t, hash conns and objects objs.                   *)
(***************************************************************************)
EXTENDS Connections, ListsProofs, FiniteSetTheorems

Pointer == Con \cup {Stdin, Nil}

Tables == [inUse : Nat, pointers : Seq(Pointer), revents : Seq(BOOLEAN)]

\* The connections that table t has a slot in use for.
SlotsOf(t) == {t.pointers[s] : s \in 2..t.inUse}

TableOK(t) ==
  /\ t \in Tables
  /\ Len(t.revents) = Len(t.pointers)
  /\ t.inUse \in 1..Len(t.pointers)
  /\ Len(t.pointers) \in Capacities
  /\ t.pointers[1] = Stdin
  /\ \A s \in 2..t.inUse : t.pointers[s] \in Con
  /\ \A s, r \in 1..t.inUse : t.pointers[s] = t.pointers[r] => s = r

StoreOK(conns, objs) ==
  /\ conns \in [Host -> Con \cup {Nil}]
  /\ objs \in [Con -> Object]
  /\ \A c \in Con : objs[c].memory = "live" =>
       objs[c].host \in Host /\ conns[objs[c].host] = c
  /\ \A h \in Host : conns[h] # Nil =>
       objs[conns[h]].memory = "live" /\ objs[conns[h]].host = h

Linked(t, objs) == \A c \in Con :
  c \in SlotsOf(t) <=> objs[c].memory = "live" /\ objs[c].socket # "failed"

NetOK(t, conns, objs) == TableOK(t) /\ StoreOK(conns, objs) /\ Linked(t, objs)

ChoiceOK ==
  /\ serverName \in Host \cup {Nil}
  /\ active \in Host \cup {Nil}
  /\ known \subseteq Host

LoopOK ==
  /\ pc \in {"errors", "recheck", "poll", "events", "crashed"}
  /\ i \in 1..(Cardinality(Con) + 2)

RecheckOK == pc = "recheck" =>
  /\ i \in 2..Len(table.pointers) /\ i < Cardinality(Con) + 2
  /\ table.pointers[i] \in Con

IInv == NetOK(table, connections, object) /\ ChoiceOK /\ LoopOK /\ RecheckOK

-----------------------------------------------------------------------------
(* The table.                                                              *)

\* The sizes of the table: a power of two times INITIAL_SLOTS_ALLOC, with more
\* slots than doublings, in alloc_free_slot.
LEMMA GrownFacts ==
  ASSUME NEW n \in Nat
  PROVE  /\ Grown[0] = InitialSlots
         /\ Grown[n + 1] = 2 * Grown[n]
         /\ Grown[n] \in Nat /\ Grown[n] > n
<1> DEFINE step == [k \in Nat |-> [v \in Nat |-> 2 * v]]
           body(f) == [k \in Nat |-> IF k = 0 THEN InitialSlots ELSE 2 * f[k - 1]]
<1>1. InitialSlots \in Nat /\ InitialSlots > 0
  BY ConnectionsOK
<1>2. step \in [Nat -> [Nat -> Nat]]
  OBVIOUS
<1>3. \E f : f = body(f)
  <2>1. PICK f : SolvesAll(f, Nat, InitialSlots, step)
    <3> HIDE DEF step
    <3>1. QED BY <1>1, <1>2, RecursionAll, Zenon
  <2>2. ASSUME NEW k \in Nat PROVE f[k] = IF k = 0 THEN InitialSlots ELSE 2 * f[k - 1]
    <3>1. CASE k = 0
      BY <2>1, <3>1 DEF SolvesAll
    <3>2. CASE k # 0
      <4>1. k - 1 \in Nat /\ (k - 1) + 1 = k
        BY <3>2
      <4>2. f[k] = step[k][f[k - 1]] /\ f[k - 1] \in Nat
        BY <2>1, <4>1 DEF SolvesAll
      <4>3. QED BY <3>2, <4>2
    <3>3. QED BY <3>1, <3>2
  <2>3. f \in [Nat -> Nat]
    BY <2>1 DEF SolvesAll
  <2>4. f = body(f)
    BY <2>2, <2>3
  <2>5. QED BY <2>4
<1>4. Grown = CHOOSE f : f = body(f)
  BY DEF Grown
<1>5. Grown = body(Grown)
  <2> HIDE DEF body
  <2>1. QED BY <1>3, <1>4
<1>6. \A k \in Nat : Grown[k] = IF k = 0 THEN InitialSlots ELSE 2 * Grown[k - 1]
  BY <1>5
<1>7. Grown[0] = InitialSlots /\ \A k \in Nat : Grown[k + 1] = 2 * Grown[k]
  <2>1. \A k \in Nat : k + 1 \in Nat /\ k + 1 # 0 /\ (k + 1) - 1 = k
    OBVIOUS
  <2>2. QED BY <1>6, <2>1
<1> DEFINE T == {k \in 0..n : Grown[k] \in Nat /\ Grown[k] > k}
<1>8. 0 \in T
  BY <1>1, <1>7
<1>9. ASSUME NEW k \in 1..n, k - 1 \in T PROVE k \in T
  <2>1. k - 1 \in Nat /\ (k - 1) + 1 = k
    OBVIOUS
  <2>2. Grown[k] = 2 * Grown[k - 1] /\ Grown[k - 1] \in Nat /\ Grown[k - 1] > k - 1
    BY <1>7, <1>9, <2>1
  <2>3. QED BY <2>2
<1>10. 0..n \subseteq T
  <2> HIDE DEF T
  <2>1. QED BY <1>8, <1>9, Induction
<1>11. QED BY <1>7, <1>10, n \in 0..n

\* A connection has at most one slot in use, and stdin has one: so many slots
\* are in use at most.
LEMMA InUseBound ==
  ASSUME NEW t, TableOK(t)
  PROVE  /\ Cardinality(Con) \in Nat
         /\ t.inUse <= Cardinality(Con) + 1
         /\ \A c \in Con \ SlotsOf(t) : t.inUse <= Cardinality(Con)
<1> DEFINE n == t.inUse
           f == [s \in 2..n |-> t.pointers[s]]
<1>1. IsFiniteSet(Con) /\ Cardinality(Con) \in Nat
  BY ConnectionsOK, FS_CardinalityType
<1>2. n \in Nat /\ n >= 1
  BY DEF TableOK, Tables
<1>3. IsFiniteSet(2..n) /\ Cardinality(2..n) = n - 1
  BY <1>2, FS_Interval, SMTT(30)
<1>4. /\ f \in [2..n -> Con]
      /\ \A a, b \in 2..n : f[a] = f[b] => a = b
  BY <1>2 DEF TableOK
<1>5. f \in Injection(2..n, Con)
  BY <1>4 DEF Injection, IsInjective
<1> HIDE DEF f, n
<1>6. n - 1 <= Cardinality(Con)
  BY <1>1, <1>3, <1>5, FS_Injection
<1>7. ASSUME NEW c \in Con \ SlotsOf(t), n - 1 = Cardinality(Con) PROVE FALSE
  <2>1. f \in Surjection(2..n, Con)
    BY <1>1, <1>3, <1>5, <1>7, FS_Injection
  <2>2. PICK s \in 2..n : f[s] = c
    BY <2>1 DEF Surjection
  <2>3. c \in SlotsOf(t)
    BY <2>2 DEF f, n, SlotsOf
  <2>4. QED BY <2>3, <1>7
<1>8. QED BY <1>1, <1>2, <1>6, <1>7 DEF n

\* What is in a table.
LEMMA TableFacts ==
  ASSUME NEW t, TableOK(t)
  PROVE  /\ t.pointers \in Seq(Pointer) /\ Len(t.pointers) \in Nat
         /\ t.revents \in Seq(BOOLEAN)
         /\ DOMAIN t.pointers = 1..Len(t.pointers)
         /\ DOMAIN t.revents = 1..Len(t.pointers)
         /\ t.inUse \in 1..Len(t.pointers)
         /\ \A s \in 1..Len(t.pointers) : t.pointers[s] \in Pointer
         /\ \A s \in 1..Len(t.pointers) : t.revents[s] \in BOOLEAN
         /\ \A s \in 1..t.inUse : t.pointers[s] \in Con \cup {Stdin}
         /\ t = [inUse |-> t.inUse, pointers |-> t.pointers, revents |-> t.revents]
<1>1. t \in Tables
  BY DEF TableOK
<1>2. /\ t.pointers \in Seq(Pointer) /\ t.revents \in Seq(BOOLEAN)
      /\ t = [inUse |-> t.inUse, pointers |-> t.pointers, revents |-> t.revents]
  BY <1>1 DEF Tables
<1>3. /\ Len(t.pointers) \in Nat /\ DOMAIN t.pointers = 1..Len(t.pointers)
      /\ \A s \in 1..Len(t.pointers) : t.pointers[s] \in Pointer
  <2> HIDE DEF Pointer
  <2>1. QED BY <1>2
<1>4. /\ DOMAIN t.revents = 1..Len(t.pointers)
      /\ \A s \in 1..Len(t.pointers) : t.revents[s] \in BOOLEAN
  BY <1>2 DEF TableOK
<1>5. /\ t.inUse \in 1..Len(t.pointers)
      /\ \A s \in 1..t.inUse : t.pointers[s] \in Con \cup {Stdin}
  <2>1. /\ t.inUse \in 1..Len(t.pointers) /\ t.pointers[1] = Stdin
        /\ \A s \in 2..t.inUse : t.pointers[s] \in Con
    BY DEF TableOK
  <2>2. \A s \in 1..t.inUse : s = 1 \/ s \in 2..t.inUse
    BY <1>3, <2>1
  <2>3. QED BY <2>1, <2>2
<1>6. QED BY <1>2, <1>3, <1>4, <1>5

\* The slot that unregister_poll finds: the one in use, if there is one.
LEMMA SlotFacts ==
  ASSUME NEW t, TableOK(t), NEW c \in Con
  PROVE  LET s == SelectInSeq(t.pointers, LAMBDA x : x = c)
         IN  /\ c \in SlotsOf(t) => s \in 2..t.inUse /\ t.pointers[s] = c
             /\ c \notin SlotsOf(t) => s \notin 1..t.inUse
<1> DEFINE I == {x \in 1..Len(t.pointers) : t.pointers[x] = c}
           s == IF I # {} THEN Min(I) ELSE 0
<1>1. s = SelectInSeq(t.pointers, LAMBDA x : x = c)
  BY DEF SelectInSeq
<1>2. /\ t.inUse \in 1..Len(t.pointers) /\ Len(t.pointers) \in Nat
      /\ t.pointers[1] = Stdin /\ Stdin \notin Con
  BY TableFacts, ConnectionsOK DEF TableOK
<1>3. I \subseteq Nat
  OBVIOUS
<1>4. I # {} => s \in I /\ \A y \in I : s <= y
  <2> HIDE DEF I
  <2>1. QED BY <1>3, MinFacts
<1>5. s \in I => s # 1
  BY <1>2
<1>6. ASSUME c \in SlotsOf(t) PROVE s \in 2..t.inUse /\ t.pointers[s] = c
  <2>1. PICK x \in 2..t.inUse : t.pointers[x] = c
    BY <1>6 DEF SlotsOf
  <2>2. x \in I
    BY <2>1, <1>2
  <2>3. s \in I /\ s <= x
    BY <2>2, <1>4
  <2>4. QED BY <2>1, <2>3, <1>2, <1>5, SMTT(30)
<1>7. ASSUME c \notin SlotsOf(t) PROVE s \notin 1..t.inUse
  <2>1. SUFFICES ASSUME s \in 1..t.inUse PROVE FALSE
    OBVIOUS
  <2>2. I # {}
    BY <2>1
  <2>3. s \in I /\ t.pointers[s] = c
    BY <2>2, <1>4
  <2>4. s \in 2..t.inUse
    BY <2>1, <2>3, <1>5, <1>2
  <2>5. QED BY <2>3, <2>4, <1>7 DEF SlotsOf
<1> HIDE DEF s
<1>8. QED BY <1>1, <1>6, <1>7

\* unregister_poll: the object has no slot in use any more, all others keep
\* theirs, and what is left behind the last one is still some connection.
LEMMA UnregisterFacts ==
  ASSUME NEW t, TableOK(t), NEW c \in Con
  PROVE  /\ TableOK(Unregister(t, c))
         /\ SlotsOf(Unregister(t, c)) = SlotsOf(t) \ {c}
         /\ Len(Unregister(t, c).pointers) = Len(t.pointers)
         /\ \A s \in 2..Len(t.pointers) :
              t.pointers[s] \in Con => Unregister(t, c).pointers[s] \in Con
<1> DEFINE s == SelectInSeq(t.pointers, LAMBDA x : x = c)
           n == t.inUse
           L == Len(t.pointers)
           moved == [x \in DOMAIN t.pointers |-> IF s <= x /\ x < n THEN x + 1 ELSE x]
           P == [x \in DOMAIN moved |-> t.pointers[moved[x]]]
           R == [x \in DOMAIN moved |-> t.revents[moved[x]]]
           u == [inUse |-> n - 1, pointers |-> P, revents |-> R]
<1>1. /\ c \in SlotsOf(t) => s \in 2..n /\ t.pointers[s] = c
      /\ c \notin SlotsOf(t) => s \notin 1..n
  BY SlotFacts
<1>2. CASE c \notin SlotsOf(t)
  <2>1. Unregister(t, c) = t
    BY <1>1, <1>2 DEF Unregister
  <2>2. QED BY <2>1, <1>2
<1>3. CASE c \in SlotsOf(t)
  <2>1. s \in 2..n /\ t.pointers[s] = c
    BY <1>1, <1>3
  <2> HIDE DEF s
  <2>2. /\ n \in 1..L /\ L \in Nat /\ s \in Nat
        /\ DOMAIN t.pointers = 1..L
        /\ \A x \in 1..L : t.pointers[x] \in Pointer
        /\ \A x \in 1..L : t.revents[x] \in BOOLEAN
    BY <2>1, TableFacts
  <2>3. Unregister(t, c) = u
    <3>1. s \in 1..n
      BY <2>1, <2>2
    <3>2. QED BY <3>1 DEF Unregister, s
  <2> HIDE DEF n, L
  <2>4. /\ moved \in [1..L -> 1..L]
        /\ \A x \in 1..L : moved[x] = IF s <= x /\ x < n THEN x + 1 ELSE x
    BY <2>2
  <2> HIDE DEF moved
  <2>5. /\ DOMAIN P = 1..L /\ \A x \in 1..L : P[x] = t.pointers[moved[x]] /\ P[x] \in Pointer
        /\ DOMAIN R = 1..L /\ \A x \in 1..L : R[x] = t.revents[moved[x]] /\ R[x] \in BOOLEAN
    BY <2>2, <2>4
  <2>6. P \in [1..L -> Pointer] /\ R \in [1..L -> BOOLEAN]
    BY <2>5
  <2> HIDE DEF P, R
  <2>7. P \in Seq(Pointer) /\ Len(P) = L /\ R \in Seq(BOOLEAN) /\ Len(R) = L
    <3>1. P \in Seq(Pointer)
      BY <2>2, <2>6, SeqDef
    <3>2. R \in Seq(BOOLEAN)
      BY <2>2, <2>6, SeqDef
    <3>3. QED BY <3>1, <3>2, <2>2, <2>5, LenProperties
  <2>8. P[1] = Stdin
    BY <2>1, <2>2, <2>4, <2>5 DEF TableOK
  <2>9. \A x \in 2..(n - 1) : P[x] \in Con
    <3>1. \A x \in 2..n : t.pointers[x] \in Con
      BY DEF TableOK, n
    <3>2. ASSUME NEW x \in 2..(n - 1) PROVE moved[x] \in 2..n /\ x \in 1..L
      <4>1. x \in 1..L
        BY <2>2
      <4>2. moved[x] = x \/ moved[x] = x + 1
        BY <4>1, <2>4
      <4>3. QED BY <4>1, <4>2, <2>2
    <3>3. QED BY <3>1, <3>2, <2>5
  <2>10. \A x, y \in 1..(n - 1) : P[x] = P[y] => x = y
    <3>1. \A x, y \in 1..n : t.pointers[x] = t.pointers[y] => x = y
      BY DEF TableOK, n
    <3>2. \A x \in 1..(n - 1) : moved[x] \in 1..n /\ x \in 1..L
      BY <2>1, <2>2, <2>4
    <3>3. \A x, y \in 1..(n - 1) : moved[x] = moved[y] => x = y
      BY <2>1, <2>2, <2>4
    <3>4. QED BY <3>1, <3>2, <3>3, <2>5
  <2>11. n - 1 \in 1..L /\ L \in Capacities
    BY <2>1, <2>2 DEF TableOK, L
  <2>12. TableOK(u)
    <3>1. u \in Tables
      BY <2>7, <2>11 DEF Tables
    <3>2. QED BY <3>1, <2>7, <2>8, <2>9, <2>10, <2>11 DEF TableOK
  <2>13. SlotsOf(u) = SlotsOf(t) \ {c}
    <3>1. ASSUME NEW x \in 2..(n - 1) PROVE P[x] \in SlotsOf(t) \ {c}
      <4>1. moved[x] \in 2..n /\ moved[x] # s /\ x \in 1..L
        <5>1. x \in 1..L
          BY <2>2
        <5>2. moved[x] = IF s <= x /\ x < n THEN x + 1 ELSE x
          BY <5>1, <2>4
        <5>3. QED BY <5>1, <5>2, <2>1, <2>2
      <4>2. t.pointers[moved[x]] # c
        <5>1. \A y, z \in 1..n : t.pointers[y] = t.pointers[z] => y = z
          BY DEF TableOK, n
        <5>2. moved[x] \in 1..n /\ s \in 1..n
          BY <4>1, <2>1, <2>2
        <5>3. QED BY <5>1, <5>2, <4>1, <2>1
      <4>3. QED BY <4>1, <4>2, <2>5 DEF SlotsOf, n
    <3>2. ASSUME NEW y \in 2..n, t.pointers[y] # c
          PROVE  \E x \in 2..(n - 1) : P[x] = t.pointers[y]
      <4>1. CASE y < s
        <5>1. y \in 2..(n - 1) /\ y \in 1..L /\ moved[y] = y
          BY <4>1, <2>1, <2>2, <2>4
        <5>2. QED BY <5>1, <2>5
      <4>2. CASE y > s
        <5>1. y - 1 \in 2..(n - 1) /\ y - 1 \in 1..L /\ moved[y - 1] = y
          BY <4>2, <2>1, <2>2, <2>4
        <5>2. QED BY <5>1, <2>5
      <4>3. QED BY <4>1, <4>2, <3>2, <2>1, <2>2
    <3>3. SlotsOf(u) = {P[x] : x \in 2..(n - 1)} /\ SlotsOf(t) = {t.pointers[x] : x \in 2..n}
      BY DEF SlotsOf, n
    <3>4. QED BY <3>1, <3>2, <3>3
  <2>14. \A x \in 2..L : t.pointers[x] \in Con => P[x] \in Con
    <3>1. \A x \in 2..n : t.pointers[x] \in Con
      BY DEF TableOK, n
    <3>2. \A x \in 2..L : x \in 1..L /\ (moved[x] = x \/ moved[x] \in 2..n)
      BY <2>1, <2>2, <2>4
    <3>3. QED BY <3>1, <3>2, <2>5
  <2>15. QED BY <2>3, <2>7, <2>12, <2>13, <2>14 DEF L
<1>4. QED BY <1>2, <1>3

\* alloc_free_slot makes room and touches no slot; there are never more
\* doublings than connections.
LEMMA RoomFacts ==
  ASSUME NEW t, TableOK(t), NEW c \in Con \ SlotsOf(t), NEW r \in WithRoom(t)
  PROVE  /\ TableOK(r)
         /\ r.inUse = t.inUse /\ r.inUse < Len(r.pointers)
         /\ Len(t.pointers) <= Len(r.pointers)
         /\ \A s \in 1..Len(t.pointers) : r.pointers[s] = t.pointers[s]
<1> DEFINE n == Len(t.pointers)
           nils == [x \in 1..n |-> Nil]
           P == t.pointers \o nils
<1>1. /\ n \in Nat /\ t.inUse \in 1..n
      /\ t.pointers \in Seq(Pointer) /\ t.revents \in Seq(BOOLEAN)
      /\ Len(t.revents) = n
      /\ t = [inUse |-> t.inUse, pointers |-> t.pointers, revents |-> t.revents]
  BY TableFacts DEF TableOK
<1>2. CASE t.inUse < n
  BY <1>1, <1>2 DEF WithRoom
<1>3. CASE ~(t.inUse < n)
  <2>1. t.inUse = n
    BY <1>1, <1>3
  <2>2. PICK g \in [1..n -> BOOLEAN] :
          r = [t EXCEPT !.pointers = @ \o nils, !.revents = @ \o g]
    BY <1>3 DEF WithRoom
  <2> DEFINE R == t.revents \o g
  <2>3. r = [inUse |-> t.inUse, pointers |-> P, revents |-> R]
    <3> HIDE DEF nils, n
    <3>1. QED BY <1>1, <2>2
  <2>4. nils \in [1..n -> Pointer] /\ nils \in Seq(Pointer) /\ g \in Seq(BOOLEAN)
    <3>1. nils \in [1..n -> Pointer]
      BY DEF Pointer
    <3> HIDE DEF nils
    <3>2. nils \in Seq(Pointer)
      BY <1>1, <3>1, SeqDef
    <3>3. g \in Seq(BOOLEAN)
      BY <1>1, <2>2, SeqDef
    <3>4. QED BY <3>1, <3>2, <3>3
  <2>5. Len(nils) = n /\ Len(g) = n
    <3>1. DOMAIN nils = 1..n /\ DOMAIN g = 1..n
      OBVIOUS
    <3> HIDE DEF nils
    <3>2. QED BY <1>1, <2>4, <3>1, LenProperties
  <2> DEFINE B == BOOLEAN
  <2> HIDE DEF nils, n, Pointer, B
  <2>6. /\ P \in Seq(Pointer) /\ Len(P) = n + n
        /\ \A s \in 1..(n + n) : P[s] = IF s <= n THEN t.pointers[s] ELSE nils[s - n]
    <3> HIDE DEF P
    <3>1. t.pointers \in Seq(Pointer) /\ nils \in Seq(Pointer)
      BY <1>1, <2>4
    <3>2. P = t.pointers \o nils /\ Len(t.pointers) = n
      BY DEF P, n
    <3>3. /\ P \in Seq(Pointer) /\ Len(P) = Len(t.pointers) + Len(nils)
          /\ \A s \in 1..(Len(t.pointers) + Len(nils)) :
               P[s] = IF s <= Len(t.pointers) THEN t.pointers[s] ELSE nils[s - Len(t.pointers)]
      BY <3>1, <3>2, ConcatProperties, Zenon
    <3>4. QED BY <2>5, <3>2, <3>3
  <2>7. R \in Seq(B) /\ Len(R) = n + n
    <3>1. t.revents \in Seq(B) /\ g \in Seq(B)
      BY <1>1, <2>4 DEF B
    <3> HIDE DEF R
    <3>2. R = t.revents \o g
      BY DEF R
    <3>3. R \in Seq(B) /\ Len(R) = Len(t.revents) + Len(g)
      BY <3>1, <3>2, ConcatProperties, Zenon
    <3>4. QED BY <1>1, <2>5, <3>3
  <2> HIDE DEF P, R
  <2>8. n + n \in Capacities
    <3>1. PICK k \in 0..Cardinality(Con) : n = Grown[k]
      BY DEF TableOK, Capacities, n
    <3>2. Cardinality(Con) \in Nat /\ n <= Cardinality(Con)
      BY <2>1, InUseBound
    <3>3. Grown[k + 1] = n + n /\ n > k
      BY <1>1, <3>1, <3>2, GrownFacts
    <3>4. k + 1 \in 0..Cardinality(Con)
      BY <1>1, <3>1, <3>2, <3>3
    <3>5. QED BY <3>3, <3>4 DEF Capacities
  <2>9. r.pointers = P /\ r.revents = R /\ r.inUse = n
    BY <2>1, <2>3
  <2>10. \A s \in 1..n : P[s] = t.pointers[s]
    BY <1>1, <2>6
  <2>11. TableOK(r)
    <3>1. r \in Tables
      BY <1>1, <2>1, <2>3, <2>6, <2>7 DEF Tables, B
    <3>2. \A s \in 1..n : r.pointers[s] = t.pointers[s]
      BY <2>9, <2>10
    <3>3. /\ r.pointers[1] = Stdin
          /\ \A s \in 2..n : r.pointers[s] \in Con
          /\ \A s, x \in 1..n : r.pointers[s] = r.pointers[x] => s = x
      <4>1. /\ t.pointers[1] = Stdin
            /\ \A s \in 2..n : t.pointers[s] \in Con
            /\ \A s, x \in 1..n : t.pointers[s] = t.pointers[x] => s = x
        BY <2>1 DEF TableOK
      <4>2. 1 \in 1..n /\ \A s \in 2..n : s \in 1..n
        BY <1>1, <2>1
      <4>3. QED BY <3>2, <4>1, <4>2
    <3>4. r.inUse \in 1..Len(r.pointers)
      BY <1>1, <2>1, <2>6, <2>9
    <3>5. QED BY <2>6, <2>7, <2>8, <2>9, <3>1, <3>3, <3>4 DEF TableOK
  <2>12. QED BY <1>1, <2>1, <2>6, <2>9, <2>10, <2>11 DEF n
<1>4. QED BY <1>2, <1>3

\* register_poll: the object gets a slot of its own, behind those in use.
LEMMA RegisterFacts ==
  ASSUME NEW t, TableOK(t), NEW c \in Con \ SlotsOf(t), NEW u \in Register(t, c)
  PROVE  /\ TableOK(u)
         /\ SlotsOf(u) = SlotsOf(t) \cup {c}
         /\ Len(t.pointers) <= Len(u.pointers)
         /\ \A s \in 2..Len(t.pointers) : t.pointers[s] \in Con => u.pointers[s] \in Con
<1>1. PICK r \in WithRoom(t) :
        u = [r EXCEPT !.inUse = @ + 1, !.pointers[r.inUse + 1] = c]
  BY DEF Register
<1>2. /\ TableOK(r)
      /\ r.inUse = t.inUse /\ r.inUse < Len(r.pointers)
      /\ Len(t.pointers) <= Len(r.pointers)
      /\ \A s \in 1..Len(t.pointers) : r.pointers[s] = t.pointers[s]
  BY RoomFacts
<1> DEFINE n == r.inUse
           L == Len(r.pointers)
           P == [r.pointers EXCEPT ![n + 1] = c]
<1>3. /\ r.pointers \in Seq(Pointer) /\ L \in Nat /\ n \in 1..L
      /\ r = [inUse |-> n, pointers |-> r.pointers, revents |-> r.revents]
      /\ r.revents \in Seq(BOOLEAN) /\ Len(r.revents) = L /\ L \in Capacities
      /\ r.pointers[1] = Stdin /\ \A s \in 2..n : r.pointers[s] \in Con
      /\ \A s, x \in 1..n : r.pointers[s] = r.pointers[x] => s = x
  BY <1>2, TableFacts DEF TableOK
<1>4. u = [inUse |-> n + 1, pointers |-> P, revents |-> r.revents]
  <2> HIDE DEF n
  <2>1. QED BY <1>1, <1>3 DEF n
<1>5. n + 1 \in 2..L /\ Len(t.pointers) \in Nat
  BY <1>2, <1>3, TableFacts
<1> HIDE DEF n, L
<1>6. /\ P \in Seq(Pointer) /\ Len(P) = L
      /\ \A s \in 1..L : P[s] = IF s = n + 1 THEN c ELSE r.pointers[s]
  <2>1. c \in Pointer
    BY DEF Pointer
  <2> HIDE DEF Pointer
  <2>2. QED BY <1>3, <1>5, <2>1, ExceptSeq DEF L
<1> HIDE DEF P
<1>7. \A s \in 1..n : s \in 1..L /\ P[s] = r.pointers[s]
  BY <1>3, <1>5, <1>6
<1>8. P[n + 1] = c /\ \A s \in 1..(n + 1) : s = n + 1 \/ s \in 1..n
  BY <1>3, <1>5, <1>6
<1>9. \A s \in 1..n : r.pointers[s] # c
  <2>1. \A s \in 1..n : r.pointers[s] = t.pointers[s]
    <3>1. t.inUse \in 1..Len(t.pointers)
      BY DEF TableOK
    <3>2. QED BY <1>2, <1>5, <3>1 DEF n
  <2>2. \A s \in 2..n : t.pointers[s] # c
    BY <1>2 DEF n, SlotsOf
  <2>3. r.pointers[1] # c
    BY <1>3, ConnectionsOK
  <2>4. \A s \in 1..n : s = 1 \/ s \in 2..n
    BY <1>3
  <2>5. QED BY <2>1, <2>2, <2>3, <2>4
<1>10. SlotsOf(u) = SlotsOf(t) \cup {c}
  <2>1. \A s \in 2..n : s \in 1..n /\ s \in 1..Len(t.pointers)
    <3>1. t.inUse \in 1..Len(t.pointers)
      BY DEF TableOK
    <3>2. QED BY <1>2, <1>3, <1>5, <3>1 DEF n
  <2>2. \A s \in 2..n : P[s] = t.pointers[s]
    BY <1>2, <1>7, <2>1
  <2>3. SlotsOf(u) = {P[s] : s \in 2..(n + 1)} /\ SlotsOf(t) = {t.pointers[s] : s \in 2..n}
    BY <1>2, <1>4 DEF SlotsOf, n
  <2>4. /\ \A s \in 2..(n + 1) : s = n + 1 \/ s \in 2..n
        /\ \A s \in 2..n : s \in 2..(n + 1)
        /\ n + 1 \in 2..(n + 1)
    BY <1>3, <1>5
  <2>5. QED BY <1>8, <2>2, <2>3, <2>4
<1>11. TableOK(u)
  <2>1. u \in Tables
    BY <1>3, <1>4, <1>5, <1>6 DEF Tables
  <2>2. P[1] = Stdin /\ \A s \in 2..(n + 1) : P[s] \in Con
    <3>1. \A s \in 2..n : s \in 1..n
      BY <1>3
    <3>2. \A s \in 2..(n + 1) : s = n + 1 \/ s \in 2..n
      BY <1>3
    <3>3. 1 \in 1..n
      BY <1>3
    <3>4. P[1] = Stdin
      BY <1>3, <1>7, <3>3
    <3>5. ASSUME NEW s \in 2..(n + 1) PROVE P[s] \in Con
      <4>1. CASE s = n + 1
        BY <1>8, <4>1
      <4>2. CASE s \in 2..n
        <5>1. P[s] = r.pointers[s] /\ r.pointers[s] \in Con
          BY <1>3, <1>7, <3>1, <4>2
        <5>2. QED BY <5>1
      <4>3. QED BY <3>2, <4>1, <4>2
    <3>6. QED BY <3>4, <3>5
  <2>3. \A s, x \in 1..(n + 1) : P[s] = P[x] => s = x
    BY <1>3, <1>7, <1>8, <1>9
  <2>4. n + 1 \in 1..L
    BY <1>3, <1>5
  <2>5. QED BY <1>3, <1>4, <1>6, <2>1, <2>2, <2>3, <2>4 DEF TableOK
<1>12. \A s \in 2..Len(t.pointers) : t.pointers[s] \in Con => u.pointers[s] \in Con
  <2>1. \A s \in 2..Len(t.pointers) : s \in 1..Len(t.pointers) /\ s \in 1..L
    BY <1>2, <1>3, <1>5 DEF L
  <2>2. QED BY <1>2, <1>4, <1>6, <2>1
<1>13. QED BY <1>2, <1>4, <1>6, <1>10, <1>11, <1>12 DEF L

-----------------------------------------------------------------------------
(* Connecting and disconnecting.                                           *)

\* What a callback that starts with table t may leave to the loop that runs it:
\* a table that has not become smaller, with a connection wherever one was.
Follows(t, u) ==
  /\ Len(t.pointers) <= Len(u.pointers)
  /\ \A s \in 2..Len(t.pointers) : t.pointers[s] \in Con => u.pointers[s] \in Con

\* irc_disconnect takes the object, its name and its slot.
LEMMA DisconnectFacts ==
  ASSUME NetOK(table, connections, object), NEW h \in Host
  PROVE  /\ NetOK(TableWithout(h), HashWithout(h), ObjectsWithout(h))
         /\ HashWithout(h)[h] = Nil
         /\ Follows(table, TableWithout(h))
<1>1. TableOK(table) /\ StoreOK(connections, object) /\ Linked(table, object)
  BY DEF NetOK
<1>2. /\ connections \in [Host -> Con \cup {Nil}]
      /\ object \in [Con -> Object]
      /\ Nil \notin Con
  BY <1>1, ConnectionsOK DEF StoreOK
<1>3. HashWithout(h) \in [Host -> Con \cup {Nil}] /\ HashWithout(h)[h] = Nil
  BY <1>2 DEF HashWithout
<1>4. Free \in Object /\ Free.memory = "free"
  BY DEF Free, Object
<1>5. CASE connections[h] = Nil
  <2>1. TableWithout(h) = table /\ HashWithout(h) = connections
    BY <1>2, <1>5 DEF TableWithout, HashWithout
  <2>2. ObjectsWithout(h) = object
    BY <1>2, <1>5 DEF ObjectsWithout
  <2>3. Len(table.pointers) \in Nat
    BY <1>1, TableFacts
  <2>4. QED BY <1>1, <1>3, <2>1, <2>2, <2>3 DEF NetOK, Follows
<1>6. CASE connections[h] # Nil
  <2> DEFINE c == connections[h]
             objs == ObjectsWithout(h)
             conns == HashWithout(h)
             t == TableWithout(h)
  <2>1. c \in Con /\ object[c].memory = "live" /\ object[c].host = h
    BY <1>1, <1>2, <1>6 DEF StoreOK
  <2>2. t = Unregister(table, c)
    BY <1>6 DEF TableWithout
  <2>3. /\ objs \in [Con -> Object]
        /\ objs[c].memory = "free"
        /\ \A d \in Con : d # c => objs[d] = object[d]
    BY <1>2, <1>4, <2>1 DEF ObjectsWithout
  <2>4. \A g \in Host : conns[g] = IF g = h THEN Nil ELSE connections[g]
    BY <1>2 DEF HashWithout
  <2> HIDE DEF objs, conns, t, c
  <2>5. /\ TableOK(t) /\ SlotsOf(t) = SlotsOf(table) \ {c}
        /\ Len(t.pointers) = Len(table.pointers)
        /\ \A s \in 2..Len(table.pointers) : table.pointers[s] \in Con => t.pointers[s] \in Con
    BY <1>1, <2>1, <2>2, UnregisterFacts
  <2>6. StoreOK(conns, objs)
    <3>1. ASSUME NEW d \in Con, objs[d].memory = "live"
          PROVE  objs[d].host \in Host /\ conns[objs[d].host] = d
      <4>1. d # c /\ objs[d] = object[d]
        BY <2>3, <3>1
      <4>2. object[d].host \in Host /\ connections[object[d].host] = d
        BY <1>1, <3>1, <4>1 DEF StoreOK
      <4>3. object[d].host # h
        BY <4>1, <4>2 DEF c
      <4>4. QED BY <2>4, <4>1, <4>2, <4>3
    <3>2. ASSUME NEW g \in Host, conns[g] # Nil
          PROVE  objs[conns[g]].memory = "live" /\ objs[conns[g]].host = g
      <4>1. g # h /\ conns[g] = connections[g]
        BY <2>4, <3>2
      <4>2. /\ object[connections[g]].memory = "live"
            /\ object[connections[g]].host = g
            /\ connections[g] \in Con
        BY <1>1, <1>2, <3>2, <4>1 DEF StoreOK
      <4>3. connections[g] # c
        BY <2>1, <4>1, <4>2
      <4>4. QED BY <2>3, <4>1, <4>2, <4>3
    <3>3. QED BY <1>3, <2>3, <3>1, <3>2 DEF StoreOK, conns
  <2>7. Linked(t, objs)
    BY <1>1, <2>3, <2>5 DEF Linked
  <2>8. Len(table.pointers) \in Nat
    BY <1>1, TableFacts
  <2>9. QED BY <1>3, <2>5, <2>6, <2>7, <2>8 DEF NetOK, Follows, t, conns, objs
<1>7. QED BY <1>5, <1>6

\* An attempt that fails: an object that nothing leads to.
LEMMA RefusedKeeps ==
  ASSUME NEW t, NEW conns, NEW objs, NetOK(t, conns, objs),
         NEW s \in BOOLEAN, NEW next, Refused(t, conns, objs, s, next)
  PROVE  NetOK(table', connections', object')
<1>1. PICK c \in Con : objs[c].memory = "free"
                       /\ object' = [objs EXCEPT ![c].memory = "lost"]
  BY DEF Refused
<1>2. TableOK(t) /\ StoreOK(conns, objs) /\ Linked(t, objs)
  BY DEF NetOK
<1>3. objs \in [Con -> Object]
  BY <1>2 DEF StoreOK
<1>4. /\ object' \in [Con -> Object]
      /\ object'[c].memory = "lost"
      /\ \A d \in Con : d # c => object'[d] = objs[d]
  BY <1>1, <1>3 DEF Object
<1>5. table' = t /\ connections' = conns
  BY DEF Refused
<1>6. StoreOK(conns, object')
  BY <1>1, <1>2, <1>4 DEF StoreOK
<1>7. Linked(t, object')
  BY <1>1, <1>2, <1>4 DEF Linked
<1>8. QED BY <1>2, <1>5, <1>6, <1>7 DEF NetOK

\* A connection that is entered leads to its object, and its object to it.
LEMMA EnteredFacts ==
  ASSUME NEW conns, NEW objs, StoreOK(conns, objs),
         NEW c \in Con, NEW h \in Host, conns[h] = Nil, NEW s \in BOOLEAN,
         NEW state \in {"quiet", "failed"}, Entered(conns, objs, c, h, s, state)
  PROVE  /\ StoreOK(connections', object')
         /\ objs[c].memory = "free"
         /\ object'[c].memory = "live" /\ object'[c].socket = state
         /\ \A d \in Con : d # c => object'[d] = objs[d]
         /\ serverName' = h
<1>1. objs \in [Con -> Object] /\ conns \in [Host -> Con \cup {Nil}] /\ Nil \notin Con
  BY ConnectionsOK DEF StoreOK
<1> DEFINE new == [Free EXCEPT !.memory = "live", !.host = h, !.ssl = s, !.socket = state]
<1>2. new \in Object /\ new.memory = "live" /\ new.socket = state /\ new.host = h
  BY DEF Object, Free
<1>3. /\ objs[c].memory = "free"
      /\ object' = [objs EXCEPT ![c] = new]
      /\ connections' = [conns EXCEPT ![h] = c]
      /\ serverName' = h
  BY DEF Entered
<1> HIDE DEF new
<1>4. /\ object' \in [Con -> Object] /\ object'[c] = new
      /\ \A d \in Con : d # c => object'[d] = objs[d]
  BY <1>1, <1>2, <1>3
<1>5. /\ connections' \in [Host -> Con \cup {Nil}] /\ connections'[h] = c
      /\ \A g \in Host : g # h => connections'[g] = conns[g]
  BY <1>1, <1>3
<1>6. ASSUME NEW d \in Con, object'[d].memory = "live"
      PROVE  object'[d].host \in Host /\ connections'[object'[d].host] = d
  <2>1. CASE d = c
    BY <1>2, <1>4, <1>5, <2>1
  <2>2. CASE d # c
    <3>1. objs[d].host \in Host /\ conns[objs[d].host] = d
      BY <1>4, <1>6, <2>2 DEF StoreOK
    <3>2. objs[d].host # h
      BY <1>1, <3>1
    <3>3. QED BY <1>4, <1>5, <2>2, <3>1, <3>2
  <2>3. QED BY <2>1, <2>2
<1>7. ASSUME NEW g \in Host, connections'[g] # Nil
      PROVE  object'[connections'[g]].memory = "live" /\ object'[connections'[g]].host = g
  <2>1. CASE g = h
    BY <1>2, <1>4, <1>5, <2>1
  <2>2. CASE g # h
    <3>1. /\ conns[g] \in Con /\ connections'[g] = conns[g]
          /\ objs[conns[g]].memory = "live" /\ objs[conns[g]].host = g
      BY <1>1, <1>5, <1>7, <2>2 DEF StoreOK
    <3>2. conns[g] # c
      BY <1>3, <3>1
    <3>3. QED BY <1>4, <3>1, <3>2
  <2>3. QED BY <2>1, <2>2
<1>8. QED BY <1>2, <1>3, <1>4, <1>5, <1>6, <1>7 DEF StoreOK

\* A connection that is made has a slot, one whose handshake fails gives it back.
LEMMA MadeKeeps ==
  ASSUME NEW t, NEW conns, NEW objs, NetOK(t, conns, objs),
         NEW h \in Host, conns[h] = Nil, NEW s \in BOOLEAN,
         Accepted(t, conns, objs, h, s) \/ HandshakeFailed(t, conns, objs, h, s)
  PROVE  NetOK(table', connections', object') /\ Follows(t, table') /\ serverName' = h
<1>1. TableOK(t) /\ StoreOK(conns, objs) /\ Linked(t, objs)
  BY DEF NetOK
<1>2. CASE Accepted(t, conns, objs, h, s)
  <2>1. PICK c \in Con : Entered(conns, objs, c, h, s, "quiet") /\ table' \in Register(t, c)
    BY <1>2 DEF Accepted
  <2>2. /\ StoreOK(connections', object')
        /\ objs[c].memory = "free"
        /\ object'[c].memory = "live" /\ object'[c].socket = "quiet"
        /\ \A d \in Con : d # c => object'[d] = objs[d]
        /\ serverName' = h
    BY <1>1, <2>1, EnteredFacts
  <2>3. c \in Con \ SlotsOf(t)
    BY <1>1, <2>2 DEF Linked
  <2>4. /\ TableOK(table') /\ SlotsOf(table') = SlotsOf(t) \cup {c}
        /\ Follows(t, table')
    BY <1>1, <2>1, <2>3, RegisterFacts DEF Follows
  <2>5. Linked(table', object')
    BY <1>1, <2>2, <2>4 DEF Linked
  <2>6. QED BY <2>2, <2>4, <2>5 DEF NetOK
<1>3. CASE HandshakeFailed(t, conns, objs, h, s)
  <2>1. PICK c \in Con :
          /\ Entered(conns, objs, c, h, s, "failed")
          /\ \E r \in Register(t, c) : table' = Unregister(r, c)
    BY <1>3 DEF HandshakeFailed
  <2>2. PICK r \in Register(t, c) : table' = Unregister(r, c)
    BY <2>1
  <2>3. /\ StoreOK(connections', object')
        /\ objs[c].memory = "free"
        /\ object'[c].memory = "live" /\ object'[c].socket = "failed"
        /\ \A d \in Con : d # c => object'[d] = objs[d]
        /\ serverName' = h
    BY <1>1, <2>1, EnteredFacts
  <2>4. c \in Con \ SlotsOf(t)
    BY <1>1, <2>3 DEF Linked
  <2>5. TableOK(r) /\ SlotsOf(r) = SlotsOf(t) \cup {c} /\ Follows(t, r)
    BY <1>1, <2>2, <2>4, RegisterFacts DEF Follows
  <2>6. /\ TableOK(table') /\ SlotsOf(table') = SlotsOf(r) \ {c}
        /\ Len(table'.pointers) = Len(r.pointers)
        /\ \A x \in 2..Len(r.pointers) : r.pointers[x] \in Con => table'.pointers[x] \in Con
    BY <2>2, <2>5, UnregisterFacts
  <2>7. Linked(table', object')
    BY <1>1, <2>3, <2>4, <2>5, <2>6 DEF Linked
  <2>8. Follows(t, table')
    <3>1. Len(t.pointers) \in Nat /\ Len(r.pointers) \in Nat
      BY <1>1, <2>5, TableFacts
    <3>2. \A x \in 2..Len(t.pointers) : x \in 2..Len(r.pointers)
      BY <2>5, <3>1 DEF Follows
    <3>3. QED BY <2>5, <2>6, <3>2 DEF Follows
  <2>9. QED BY <2>3, <2>6, <2>7, <2>8 DEF NetOK
<1>4. QED BY <1>2, <1>3

\* irc_connect.
LEMMA ConnectKeeps ==
  ASSUME NEW t, NEW conns, NEW objs, NetOK(t, conns, objs), ChoiceOK,
         NEW h \in Host, NEW s \in BOOLEAN, NEW next, Connect(t, conns, objs, h, s, next)
  PROVE  /\ NetOK(table', connections', object') /\ Follows(t, table')
         /\ serverName' \in Host \cup {Nil} /\ known' \subseteq Host
         /\ pc' \in {next, "crashed"}
<1>1. Follows(t, t)
  <2>1. Len(t.pointers) \in Nat
    BY TableFacts DEF NetOK
  <2>2. QED BY <2>1 DEF Follows
<1>2. CASE /\ conns[h] # Nil
           /\ serverName' = h
           /\ table' = t /\ connections' = conns /\ object' = objs /\ pc' = next
           /\ UNCHANGED known
  BY <1>1, <1>2 DEF ChoiceOK
<1>3. CASE conns[h] = Nil /\ Refused(t, conns, objs, s, next)
  <2>1. NetOK(table', connections', object')
    BY <1>3, RefusedKeeps
  <2>2. table' = t /\ serverName' = serverName /\ known' = known /\ pc' \in {next, "crashed"}
    BY <1>3 DEF Refused
  <2>3. QED BY <1>1, <2>1, <2>2 DEF ChoiceOK
<1>4. CASE /\ conns[h] = Nil
           /\ Accepted(t, conns, objs, h, s) \/ HandshakeFailed(t, conns, objs, h, s)
           /\ AfterConnect(h, next)
  <2>1. NetOK(table', connections', object') /\ Follows(t, table') /\ serverName' = h
    BY <1>4, MadeKeeps
  <2>2. pc' \in {next, "crashed"} /\ known' \subseteq Host
    BY <1>4 DEF AfterConnect, ChoiceOK
  <2>3. QED BY <2>1, <2>2
<1>5. QED BY <1>2, <1>3, <1>4 DEF Connect

\* irc_reconnect of a connection that is there.
LEMMA ReconnectKeeps ==
  ASSUME NetOK(table, connections, object), ChoiceOK,
         NEW c \in Con, Live(c), NEW next, Reconnect(c, next)
  PROVE  /\ NetOK(table', connections', object') /\ Follows(table, table')
         /\ serverName' \in Host \cup {Nil} /\ known' \subseteq Host
         /\ pc' \in {next, "crashed"}
<1> DEFINE h == object[c].host
<1>1. h \in Host
  BY DEF NetOK, StoreOK, Live
<1>2. PICK s \in Ssl :
        Connect(TableWithout(h), HashWithout(h), ObjectsWithout(h), h, s, next)
  BY DEF Reconnect
<1>3. s \in BOOLEAN
  BY ConnectionsOK
<1> HIDE DEF h
<1>4. /\ NetOK(TableWithout(h), HashWithout(h), ObjectsWithout(h))
      /\ Follows(table, TableWithout(h))
  BY <1>1, DisconnectFacts
<1>5. /\ NetOK(table', connections', object') /\ Follows(TableWithout(h), table')
      /\ serverName' \in Host \cup {Nil} /\ known' \subseteq Host
      /\ pc' \in {next, "crashed"}
  BY <1>1, <1>2, <1>3, <1>4, ConnectKeeps
<1>6. Follows(table, table')
  <2>1. Len(table.pointers) \in Nat /\ Len(TableWithout(h).pointers) \in Nat
        /\ Len(table'.pointers) \in Nat
    BY <1>4, <1>5, TableFacts DEF NetOK
  <2>2. \A x \in 2..Len(table.pointers) : x \in 2..Len(TableWithout(h).pointers)
    BY <1>4, <2>1 DEF Follows
  <2>3. QED BY <1>4, <1>5, <2>1, <2>2 DEF Follows
<1>7. QED BY <1>5, <1>6

-----------------------------------------------------------------------------
(* Commands.                                                               *)

\* irc_pick_server has a server, or NULL.
LEMMA PickFacts ==
  ASSUME StoreOK(connections, object), ChoiceOK,
         NEW k \in Con \cup {Nil}, k # Nil => Live(k)
  PROVE  PickServer(k) \in Host \cup {Nil}
BY DEF PickServer, StoreOK, ChoiceOK, Live

\* The step of a command of the user, or of a script for server k.
LEMMA CommandKeeps ==
  ASSUME NetOK(table, connections, object), ChoiceOK,
         NEW k \in Con \cup {Nil}, k # Nil => Live(k), Command(k)
  PROVE  /\ NetOK(table', connections', object') /\ Follows(table, table')
         /\ ChoiceOK' /\ pc' \in {pc, "crashed"}
<1>1. Follows(table, table)
  <2>1. Len(table.pointers) \in Nat
    BY TableFacts DEF NetOK
  <2>2. QED BY <2>1 DEF Follows
<1>2. PickServer(k) \in Host \cup {Nil}
  BY PickFacts DEF NetOK
<1>3. CASE Crash
  BY <1>1, <1>3 DEF Crash, choice, ChoiceOK
<1>4. CASE UNCHANGED <<pc, table, connections, object, choice, known>>
  BY <1>1, <1>4 DEF choice, ChoiceOK
<1>5. CASE \E h \in Host, s \in Ssl : ConnectHook(h, s)
  <2>1. PICK h \in Host, s \in Ssl : ConnectHook(h, s)
    BY <1>5
  <2>2. s \in BOOLEAN
    BY ConnectionsOK
  <2>3. Connect(table, connections, object, h, s, pc) /\ active' = active
    BY <2>1 DEF ConnectHook
  <2>4. /\ NetOK(table', connections', object') /\ Follows(table, table')
        /\ serverName' \in Host \cup {Nil} /\ known' \subseteq Host
        /\ pc' \in {pc, "crashed"}
    BY <2>2, <2>3, ConnectKeeps
  <2>5. QED BY <2>3, <2>4 DEF ChoiceOK
<1>6. ASSUME NEW h \in Host, Disconnect(h)
      PROVE  /\ NetOK(table', connections', object') /\ Follows(table, table')
             /\ ChoiceOK' /\ pc' \in {pc, "crashed"}
  <2>1. /\ table' = TableWithout(h) /\ connections' = HashWithout(h)
        /\ object' = ObjectsWithout(h)
        /\ pc' = pc /\ ChoiceOK'
    BY <1>6 DEF Disconnect, choice, ChoiceOK
  <2>2. /\ NetOK(TableWithout(h), HashWithout(h), ObjectsWithout(h))
        /\ Follows(table, TableWithout(h))
    BY DisconnectFacts
  <2>3. QED BY <2>1, <2>2
<1>7. CASE DisconnectPicked(k)
  <2>1. \/ Crash
        \/ UNCHANGED <<pc, table, connections, object, choice, known>>
        \/ PickServer(k) # Nil /\ Disconnect(PickServer(k))
    BY <1>7 DEF DisconnectPicked
  <2>2. CASE PickServer(k) # Nil /\ Disconnect(PickServer(k))
    BY <1>2, <1>6, <2>2
  <2>3. QED BY <1>3, <1>4, <2>1, <2>2
<1>8. CASE Join(k)
  <2>1. \/ Crash
        \/ /\ active' = PickServer(k)
           /\ UNCHANGED <<pc, table, connections, object, serverName, known>>
    BY <1>8 DEF Join
  <2>2. QED BY <1>1, <1>2, <1>3, <2>1 DEF ChoiceOK
<1>9. CASE Leave
  BY <1>1, <1>9 DEF Leave, ChoiceOK
<1>10. CASE Send(k)
  BY <1>3, <1>4, <1>10 DEF Send
<1>11. CASE Mention(k)
  <2>1. \/ Crash
        \/ /\ PickServer(k) # Nil /\ known' = known \cup {PickServer(k)}
           /\ UNCHANGED <<pc, table, connections, object, choice>>
    BY <1>11 DEF Mention
  <2>2. QED BY <1>1, <1>2, <1>3, <2>1 DEF ChoiceOK, choice
<1>12. QED BY <1>5, <1>6, <1>7, <1>8, <1>9, <1>10, <1>11 DEF Command

-----------------------------------------------------------------------------
(* The main loop.                                                          *)

\* What the slot of the loop is, while it is in use.
LEMMA SlotInUse ==
  ASSUME NetOK(table, connections, object), i \in InUse
  PROVE  /\ i \in 1..Len(table.pointers) /\ i < Cardinality(Con) + 2
         /\ Cardinality(Con) \in Nat
         /\ Slot # Stdin => i \in 2..Len(table.pointers) /\ Slot \in Con /\ Live(Slot)
<1>1. /\ TableOK(table) /\ Linked(table, object)
      /\ table.inUse \in 1..Len(table.pointers) /\ Len(table.pointers) \in Nat
      /\ table.pointers[1] = Stdin
      /\ \A s \in 2..table.inUse : table.pointers[s] \in Con
  BY TableFacts DEF NetOK, TableOK
<1>2. Cardinality(Con) \in Nat /\ table.inUse <= Cardinality(Con) + 1
  BY <1>1, InUseBound
<1>3. i \in 1..Len(table.pointers) /\ i < Cardinality(Con) + 2
  BY <1>1, <1>2 DEF InUse
<1>4. ASSUME Slot # Stdin
      PROVE  i \in 2..Len(table.pointers) /\ Slot \in Con /\ Live(Slot)
  <2>1. i # 1
    BY <1>1, <1>4 DEF Slot
  <2>2. i \in 2..table.inUse
    BY <1>1, <2>1 DEF InUse
  <2>3. Slot \in Con /\ Slot \in SlotsOf(table)
    BY <1>1, <2>2 DEF Slot, SlotsOf
  <2>4. i \in 2..Len(table.pointers)
    BY <1>1, <2>2
  <2>5. QED BY <1>1, <2>3, <2>4 DEF Linked, Live
<1>5. QED BY <1>2, <1>3, <1>4

\* A change of what there is to read, or of a stream, is none of the net.
LEMMA ObjectKeeps ==
  ASSUME NetOK(table, connections, object), NEW c \in Con, NEW new \in Object,
         new.memory = object[c].memory, new.host = object[c].host,
         new.socket = "failed" <=> object[c].socket = "failed",
         object' = [object EXCEPT ![c] = new],
         table' = table, connections' = connections
  PROVE  NetOK(table', connections', object')
<1>1. /\ object' \in [Con -> Object] /\ object'[c] = new
      /\ \A d \in Con : d # c => object'[d] = object[d]
  BY DEF NetOK, StoreOK
<1>2. \A d \in Con : /\ object'[d].memory = object[d].memory
                     /\ object'[d].host = object[d].host
                     /\ object'[d].socket = "failed" <=> object[d].socket = "failed"
  BY <1>1
<1>3. connections \in [Host -> Con \cup {Nil}]
  BY DEF NetOK, StoreOK
<1>4. StoreOK(connections, object')
  BY <1>1, <1>2, <1>3 DEF NetOK, StoreOK
<1>5. Linked(table, object')
  BY <1>2 DEF NetOK, Linked
<1>6. QED BY <1>4, <1>5 DEF NetOK

\* poll writes nothing but revents.
LEMMA PollKeeps ==
  ASSUME NetOK(table, connections, object), Poll
  PROVE  NetOK(table', connections', object')
<1>1. TableOK(table)
  BY DEF NetOK
<1> DEFINE R(typed) == [s \in DOMAIN table.revents |->
                          IF s \notin InUse THEN table.revents[s]
                          ELSE IF table.pointers[s] = Stdin THEN typed
                          ELSE Readable(table.pointers[s])]
<1>2. /\ DOMAIN table.revents = 1..Len(table.pointers)
      /\ Len(table.pointers) \in Nat
      /\ \A s \in 1..Len(table.pointers) : table.revents[s] \in BOOLEAN
      /\ table = [inUse |-> table.inUse, pointers |-> table.pointers,
                  revents |-> table.revents]
  BY <1>1, TableFacts
<1>3. PICK typed \in BOOLEAN : table' = [table EXCEPT !.revents = R(typed)]
  BY DEF Poll
<1>4. R(typed) \in [1..Len(table.pointers) -> BOOLEAN]
  BY <1>2 DEF Readable
<1>5. DOMAIN R(typed) = 1..Len(table.pointers)
  BY <1>2
<1> HIDE DEF R
<1>6. R(typed) \in Seq(BOOLEAN) /\ Len(R(typed)) = Len(table.pointers)
  <2>1. R(typed) \in Seq(BOOLEAN)
    BY <1>2, <1>4, SeqDef
  <2>2. QED BY <1>2, <1>5, <2>1, LenProperties
<1>7. table' = [inUse |-> table.inUse, pointers |-> table.pointers, revents |-> R(typed)]
  BY <1>2, <1>3
<1>8. table' \in Tables
  BY <1>1, <1>6, <1>7 DEF TableOK, Tables
<1>9. TableOK(table') /\ SlotsOf(table') = SlotsOf(table)
  BY <1>1, <1>6, <1>7, <1>8 DEF TableOK, SlotsOf
<1>10. connections' = connections /\ object' = object
  BY DEF Poll
<1>11. QED BY <1>9, <1>10 DEF NetOK, Linked

\* The program starts with stdin in the only slot, and nothing else.
LEMMA InitOK ==
  ASSUME Init
  PROVE  IInv
<1> DEFINE P == [s \in 1..InitialSlots |-> IF s = 1 THEN Stdin ELSE Nil]
           R == [s \in 1..InitialSlots |-> FALSE]
<1>1. /\ InitialSlots \in Nat /\ InitialSlots >= 1
      /\ Cardinality(Con) \in Nat
  BY ConnectionsOK, FS_CardinalityType
<1>2. P \in [1..InitialSlots -> Pointer] /\ R \in [1..InitialSlots -> BOOLEAN]
  BY DEF Pointer
<1>3. P[1] = Stdin /\ DOMAIN P = 1..InitialSlots /\ DOMAIN R = 1..InitialSlots
  BY <1>1
<1>4. table = [inUse |-> 1, pointers |-> P, revents |-> R]
  BY DEF Init
<1> HIDE DEF P, R
<1>5. P \in Seq(Pointer) /\ R \in Seq(BOOLEAN)
      /\ Len(P) = InitialSlots /\ Len(R) = InitialSlots
  <2>1. P \in Seq(Pointer)
    BY <1>1, <1>2, SeqDef
  <2>2. R \in Seq(BOOLEAN)
    BY <1>1, <1>2, SeqDef
  <2>3. QED BY <1>1, <1>3, <2>1, <2>2, LenProperties
<1>6. InitialSlots \in Capacities
  BY <1>1, GrownFacts DEF Capacities
<1>7. TableOK(table) /\ SlotsOf(table) = {}
  <2>1. table \in Tables
    BY <1>4, <1>5 DEF Tables
  <2>2. QED BY <1>1, <1>3, <1>4, <1>5, <1>6, <2>1 DEF TableOK, SlotsOf
<1>8. StoreOK(connections, object) /\ Linked(table, object)
  <2>1. Free \in Object /\ Free.memory = "free"
    BY DEF Free, Object
  <2>2. /\ connections = [h \in Host |-> Nil] /\ object = [c \in Con |-> Free]
    BY DEF Init
  <2>3. QED BY <1>7, <2>1, <2>2 DEF StoreOK, Linked
<1>9. ChoiceOK /\ LoopOK /\ RecheckOK
  BY <1>1 DEF Init, ChoiceOK, LoopOK, RecheckOK
<1>10. QED BY <1>7, <1>8, <1>9 DEF IInv, NetOK

\* Steps of the first pass.
LEMMA ErrorPassKeeps ==
  ASSUME IInv, ErrorPass
  PROVE  IInv'
<1>1. /\ NetOK(table, connections, object) /\ ChoiceOK /\ LoopOK /\ RecheckOK
      /\ Cardinality(Con) \in Nat
      /\ DOMAIN object = Con /\ object \in [Con -> Object]
  BY ConnectionsOK, FS_CardinalityType DEF IInv, NetOK, StoreOK
<1>2. ASSUME NetOK(table', connections', object'), ChoiceOK',
             pc' \in {"errors", "poll", "events", "crashed"},
             i' \in 1..(Cardinality(Con) + 2)
      PROVE  IInv'
  BY <1>2 DEF IInv, LoopOK, RecheckOK
<1>3. CASE SlotQuiet
  <2>1. i + 1 \in 1..(Cardinality(Con) + 2)
    BY <1>1, <1>3, SlotInUse DEF SlotQuiet, LoopOK
  <2>2. QED BY <1>1, <1>2, <1>3, <2>1 DEF SlotQuiet, NextSlot, choice, ChoiceOK
<1>4. CASE SlotEof
  <2>1. Slot \in Con /\ Live(Slot) /\ i + 1 \in 1..(Cardinality(Con) + 2)
    BY <1>1, <1>4, SlotInUse DEF SlotEof, LoopOK
  <2>2. Reconnect(Slot, "errors") /\ i' = i + 1 /\ active' = active
    BY <1>4 DEF SlotEof, NextSlot
  <2>3. /\ NetOK(table', connections', object')
        /\ serverName' \in Host \cup {Nil} /\ known' \subseteq Host
        /\ pc' \in {"errors", "crashed"}
    BY <1>1, <2>1, <2>2, ReconnectKeeps
  <2>4. QED BY <1>1, <1>2, <2>1, <2>2, <2>3 DEF ChoiceOK
<1>5. CASE SlotError
  <2>1. /\ Slot \in Con /\ Live(Slot) /\ i \in 2..Len(table.pointers)
        /\ i < Cardinality(Con) + 2
    BY <1>1, <1>5, SlotInUse DEF SlotError
  <2>2. Reconnect(Slot, "recheck") /\ i' = i /\ active' = active
    BY <1>5 DEF SlotError
  <2>3. /\ NetOK(table', connections', object') /\ Follows(table, table')
        /\ serverName' \in Host \cup {Nil} /\ known' \subseteq Host
        /\ pc' \in {"recheck", "crashed"}
    BY <1>1, <2>1, <2>2, ReconnectKeeps
  <2>4. RecheckOK'
    <3>1. Len(table.pointers) \in Nat /\ Len(table'.pointers) \in Nat
      BY <1>1, <2>3, TableFacts DEF NetOK
    <3>2. table'.pointers[i] \in Con
      BY <2>1, <2>3 DEF Follows, Slot
    <3>3. i \in 2..Len(table'.pointers)
      BY <2>1, <2>3, <3>1 DEF Follows
    <3>4. QED BY <2>1, <2>2, <3>2, <3>3 DEF RecheckOK
  <2>5. ChoiceOK' /\ LoopOK'
    BY <1>1, <2>2, <2>3 DEF ChoiceOK, LoopOK
  <2>6. QED BY <2>3, <2>4, <2>5 DEF IInv
<1>6. CASE RecheckLive
  <2>1. Slot \in Con /\ Live(Slot) /\ i + 1 \in 1..(Cardinality(Con) + 2)
    BY <1>1, <1>6 DEF RecheckLive, RecheckOK, LoopOK, Slot, Live
  <2>2. i' = i + 1 /\ active' = active
    BY <1>6 DEF RecheckLive, NextSlot
  <2>3. CASE Reconnect(Slot, "errors")
    <3>1. /\ NetOK(table', connections', object')
          /\ serverName' \in Host \cup {Nil} /\ known' \subseteq Host
          /\ pc' \in {"errors", "crashed"}
      BY <1>1, <2>1, <2>3, ReconnectKeeps
    <3>2. QED BY <1>1, <1>2, <2>1, <2>2, <3>1 DEF ChoiceOK
  <2>4. CASE /\ pc' = "errors"
             /\ UNCHANGED <<table, connections, object, serverName, known>>
    BY <1>1, <1>2, <2>1, <2>2, <2>4 DEF ChoiceOK
  <2>5. QED BY <1>6, <2>3, <2>4 DEF RecheckLive
<1>7. CASE RecheckGone
  <2>1. i + 1 \in 1..(Cardinality(Con) + 2)
    BY <1>1, <1>7 DEF RecheckGone, RecheckOK, LoopOK
  <2>2. /\ i' = i + 1 /\ pc' \in {"errors", "crashed"}
        /\ UNCHANGED <<table, connections, object, choice, known>>
    BY <1>7 DEF RecheckGone, NextSlot
  <2>3. QED BY <1>1, <1>2, <2>1, <2>2 DEF ChoiceOK, choice
<1>8. CASE ErrorsDone
  BY <1>1, <1>2, <1>8 DEF ErrorsDone, ChoiceOK, choice, LoopOK
<1>9. QED BY <1>3, <1>4, <1>5, <1>6, <1>7, <1>8 DEF ErrorPass

\* Steps of the second pass.
LEMMA EventPassKeeps ==
  ASSUME IInv, EventPass
  PROVE  IInv'
<1>1. /\ NetOK(table, connections, object) /\ ChoiceOK /\ LoopOK
      /\ Cardinality(Con) \in Nat
      /\ object \in [Con -> Object]
  BY ConnectionsOK, FS_CardinalityType DEF IInv, NetOK, StoreOK
<1>2. ASSUME NetOK(table', connections', object'), ChoiceOK',
             pc' \in {"errors", "events", "crashed"},
             i' \in 1..(Cardinality(Con) + 2)
      PROVE  IInv'
  BY <1>2 DEF IInv, LoopOK, RecheckOK
<1>3. ASSUME i \in InUse
      PROVE  /\ i + 1 \in 1..(Cardinality(Con) + 2)
             /\ Slot # Stdin => Slot \in Con /\ Live(Slot)
  BY <1>1, <1>3, SlotInUse
<1>4. CASE NoEvent
  <2>1. /\ i \in InUse /\ pc' = "events" /\ i' = i + 1
        /\ UNCHANGED <<table, connections, object, choice, known>>
    BY <1>4 DEF NoEvent, NextSlot
  <2>2. QED BY <1>1, <1>2, <1>3, <2>1 DEF ChoiceOK, choice
<1>5. CASE StdinEvent
  <2>1. i \in InUse /\ pc = "events" /\ i' = i + 1
    BY <1>5 DEF StdinEvent, NextSlot
  <2>2. CASE Command(Nil)
    <3>1. NetOK(table', connections', object') /\ ChoiceOK' /\ pc' \in {pc, "crashed"}
      BY <1>1, <2>2, CommandKeeps
    <3>2. QED BY <1>2, <1>3, <2>1, <3>1
  <2>3. CASE UNCHANGED <<table, connections, object, choice, known, pc>>
    BY <1>1, <1>2, <1>3, <2>1, <2>3 DEF ChoiceOK, choice
  <2>4. QED BY <1>5, <2>2, <2>3 DEF StdinEvent
<1>6. CASE CharEvent
  <2>1. /\ i \in InUse /\ pc' = "events" /\ i' = i + 1 /\ Slot # Stdin
        /\ object[Slot].socket = "data"
        /\ UNCHANGED <<table, connections, choice, known>>
    BY <1>6 DEF CharEvent, NextSlot
  <2>2. PICK left \in {"quiet", "data"} : object' = [object EXCEPT ![Slot].socket = left]
    BY <1>6 DEF CharEvent
  <2>3. Slot \in Con
    BY <1>3, <2>1
  <2> DEFINE new == [object[Slot] EXCEPT !.socket = left]
  <2>4. /\ new \in Object /\ new.memory = object[Slot].memory
        /\ new.host = object[Slot].host /\ new.socket # "failed"
        /\ object' = [object EXCEPT ![Slot] = new]
    BY <1>1, <2>2, <2>3 DEF Object
  <2> HIDE DEF new
  <2>5. NetOK(table', connections', object')
    BY <1>1, <2>1, <2>3, <2>4, ObjectKeeps
  <2>6. QED BY <1>1, <1>2, <1>3, <2>1, <2>5 DEF ChoiceOK, choice
<1>7. CASE LineEvent
  <2>1. i \in InUse /\ pc = "events" /\ i' = i + 1 /\ Slot # Stdin /\ Command(Slot)
    BY <1>7 DEF LineEvent, NextSlot
  <2>2. Slot \in Con /\ Live(Slot)
    BY <1>3, <2>1
  <2>3. NetOK(table', connections', object') /\ ChoiceOK' /\ pc' \in {pc, "crashed"}
    BY <1>1, <2>1, <2>2, CommandKeeps
  <2>4. QED BY <1>2, <1>3, <2>1, <2>3
<1>8. CASE ForgetEvent
  <2>1. /\ i \in InUse /\ pc' = "events" /\ i' = i + 1 /\ known' \subseteq known
        /\ UNCHANGED <<table, connections, object, choice>>
    BY <1>8 DEF ForgetEvent, NextSlot
  <2>2. QED BY <1>1, <1>2, <1>3, <2>1 DEF ChoiceOK, choice
<1>9. CASE LossEvent
  <2>1. /\ i \in InUse /\ pc' = "events" /\ i' = i + 1 /\ Slot # Stdin
        /\ UNCHANGED <<table, connections, choice, known>>
    BY <1>9 DEF LossEvent, NextSlot
  <2>2. Slot \in Con
    BY <1>3, <2>1
  <2> DEFINE stream == IF object[Slot].ssl THEN object[Slot].stream
                       ELSE IF object[Slot].socket = "closed" THEN "eof"
                       ELSE "error"
             new == [object[Slot] EXCEPT !.stream = stream]
  <2>3. object' = [object EXCEPT ![Slot].stream = stream]
    BY <1>9 DEF LossEvent
  <2>4. stream \in {"open", "eof", "error"}
    BY <1>1, <2>2 DEF Object
  <2> HIDE DEF stream
  <2>5. /\ new \in Object /\ new.memory = object[Slot].memory
        /\ new.host = object[Slot].host /\ new.socket = object[Slot].socket
        /\ object' = [object EXCEPT ![Slot] = new]
    BY <1>1, <2>2, <2>3, <2>4 DEF Object
  <2> HIDE DEF new
  <2>6. NetOK(table', connections', object')
    BY <1>1, <2>1, <2>2, <2>5, ObjectKeeps
  <2>7. QED BY <1>1, <1>2, <1>3, <2>1, <2>6 DEF ChoiceOK, choice
<1>10. CASE EventsDone
  BY <1>1, <1>2, <1>10 DEF EventsDone, ChoiceOK, choice
<1>11. QED BY <1>4, <1>5, <1>6, <1>7, <1>8, <1>9, <1>10 DEF EventPass

\* Every step.
LEMMA NextStep ==
  ASSUME IInv, [Next]_vars
  PROVE  IInv'
<1>1. /\ NetOK(table, connections, object) /\ ChoiceOK /\ LoopOK /\ RecheckOK
      /\ Cardinality(Con) \in Nat /\ object \in [Con -> Object]
  BY ConnectionsOK, FS_CardinalityType DEF IInv, NetOK, StoreOK
<1>2. CASE Poll
  <2>1. NetOK(table', connections', object')
    BY <1>1, <1>2, PollKeeps
  <2>2. pc' = "events" /\ i' = 1 /\ UNCHANGED <<choice, known>>
    BY <1>2 DEF Poll
  <2>3. QED BY <1>1, <2>1, <2>2 DEF IInv, ChoiceOK, choice, LoopOK, RecheckOK
<1>3. CASE Server
  <2>1. UNCHANGED <<table, connections, choice, known, pc, i>>
    BY <1>3 DEF Server
  <2>2. PICK c \in Con : Speak(c) \/ Hangup(c)
    BY <1>3 DEF Server
  <2>3. PICK state \in {"data", "closed", "reset"} :
          object' = [object EXCEPT ![c].socket = state] /\ object[c].socket # "failed"
    BY <2>2 DEF Speak, Hangup, Becomes
  <2> DEFINE new == [object[c] EXCEPT !.socket = state]
  <2>4. /\ new \in Object /\ new.memory = object[c].memory
        /\ new.host = object[c].host /\ new.socket # "failed"
        /\ object' = [object EXCEPT ![c] = new]
    BY <1>1, <2>3 DEF Object
  <2> HIDE DEF new
  <2>5. NetOK(table', connections', object')
    BY <1>1, <2>1, <2>3, <2>4, ObjectKeeps
  <2>6. QED BY <1>1, <2>1, <2>5 DEF IInv, ChoiceOK, choice, LoopOK, RecheckOK
<1>4. CASE UNCHANGED vars
  BY <1>4 DEF vars, choice, IInv, NetOK, ChoiceOK, LoopOK, RecheckOK
<1>5. QED BY <1>2, <1>3, <1>4, ErrorPassKeeps, EventPassKeeps DEF Next, MainLoop

-----------------------------------------------------------------------------
(* Theorems.                                                               *)

\* What holds of the table, the hash and the objects after every callback of
\* poll_loop_func, and in between.
THEOREM Inductive == Spec => []IInv
<1>1. Init => IInv
  BY InitOK
<1>2. IInv /\ [Next]_vars => IInv'
  BY NextStep
<1>3. QED BY <1>1, <1>2, PTL DEF Spec

\* The state stays of its type: the tables of poll.c grow to no other size than
\* alloc_free_slot makes, and the loop never runs away.
THEOREM TypeCorrect == Spec => []TypeOK
<1>1. IInv => TypeOK
  <2>1. SUFFICES ASSUME IInv PROVE TypeOK
    OBVIOUS
  <2>2. /\ TableOK(table) /\ StoreOK(connections, object) /\ ChoiceOK /\ LoopOK
    BY <2>1 DEF IInv, NetOK
  <2>3. /\ table.pointers \in Seq(Pointer) /\ Len(table.pointers) \in Capacities
        /\ DOMAIN table.pointers = 1..Len(table.pointers)
        /\ table.inUse \in 1..Len(table.pointers)
    BY <2>2, TableFacts DEF TableOK
  <2>4. table.revents \in [DOMAIN table.pointers -> BOOLEAN]
    <3>1. /\ table.revents \in Seq(BOOLEAN) /\ DOMAIN table.revents = 1..Len(table.pointers)
          /\ \A s \in 1..Len(table.pointers) : table.revents[s] \in BOOLEAN
      BY <2>2, TableFacts
    <3>2. table.revents = [s \in DOMAIN table.revents |-> table.revents[s]]
      BY <3>1
    <3>3. QED BY <2>3, <3>1, <3>2
  <2>5. QED BY <2>2, <2>3, <2>4 DEF TypeOK, Pointer, StoreOK, ChoiceOK, LoopOK
<1>2. QED BY <1>1, Inductive, PTL

\* Whatever callbacks of poll_loop_func connect, disconnect and reconnect under
\* it, every slot in use is stdin's or that of one connection which is still
\* allocated and which its host name leads to.
THEOREM SlotsStayLive == Spec => []SlotsLive
<1>1. IInv => SlotsLive
  <2>1. SUFFICES ASSUME IInv PROVE SlotsLive
    OBVIOUS
  <2>2. /\ TableOK(table) /\ StoreOK(connections, object) /\ Linked(table, object)
        /\ table.inUse \in 1..Len(table.pointers) /\ Len(table.pointers) \in Nat
    BY <2>1, TableFacts DEF IInv, NetOK
  <2>3. /\ table.pointers[1] = Stdin
        /\ \A s, t \in InUse : table.pointers[s] = table.pointers[t] => s = t
    BY <2>2 DEF TableOK, InUse
  <2>4. ASSUME NEW c \in Polled \ {Stdin}
        PROVE  Live(c) /\ connections[object[c].host] = c
    <3>1. PICK s \in InUse : c = table.pointers[s]
      BY DEF Polled
    <3>2. s \in 2..table.inUse
      BY <2>2, <2>3, <3>1 DEF InUse
    <3>3. c \in Con /\ c \in SlotsOf(table)
      BY <2>2, <3>1, <3>2 DEF TableOK, SlotsOf
    <3>4. QED BY <2>2, <3>3 DEF Linked, StoreOK, Live
  <2>5. QED BY <2>3, <2>4 DEF SlotsLive
<1>2. QED BY <1>1, Inductive, PTL

\* No connection that connect.c made is forgotten: irc_disconnect can find it by
\* its name, and the main loop polls it unless its handshake failed.
THEOREM NoneForgotten == Spec => []ConnectionsKept
<1>1. IInv => ConnectionsKept
  <2>1. SUFFICES ASSUME IInv, NEW c \in Con, Live(c)
        PROVE  /\ {h \in Host : connections[h] = c} = {object[c].host}
               /\ object[c].socket # "failed" => c \in Polled
    BY DEF ConnectionsKept
  <2>2. /\ TableOK(table) /\ StoreOK(connections, object) /\ Linked(table, object)
        /\ table.inUse \in 1..Len(table.pointers) /\ Len(table.pointers) \in Nat
    BY <2>1, TableFacts DEF IInv, NetOK
  <2>3. object[c].host \in Host /\ connections[object[c].host] = c
    BY <2>1, <2>2 DEF StoreOK, Live
  <2>4. \A h \in Host : connections[h] = c => h = object[c].host
    BY <2>2, ConnectionsOK DEF StoreOK
  <2>5. ASSUME object[c].socket # "failed" PROVE c \in Polled
    <3>1. PICK s \in 2..table.inUse : c = table.pointers[s]
      BY <2>1, <2>2, <2>5 DEF Linked, Live, SlotsOf
    <3>2. s \in InUse
      BY <2>2, <3>1 DEF InUse
    <3>3. QED BY <3>1, <3>2 DEF Polled
  <2>6. QED BY <2>3, <2>4, <2>5
<1>2. QED BY <1>1, Inductive, PTL
=============================================================================
