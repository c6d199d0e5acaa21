---------------------------- MODULE WordsProofs ----------------------------
(***************************************************************************)
(* What the functions of Words return, for texts of any length.  A loop is  *)
(* a recursive function of the rounds it made; an invariant of its rounds   *)
(* says which words are taken (arguments), how much of the needle is found  *)
(* (search), and which nodes follow each other on the joined list           *)
(* (completion).                                                           *)
(***************************************************************************)
EXTENDS Words, ListsProofs

Str == Seq(Char)

-----------------------------------------------------------------------------
(* Words and the places where they begin.                                  *)

\* strcspn: no character is in the set up to the one that is.
LEMMA SpanFacts ==
  ASSUME NEW str \in Str, NEW p \in 1..(Len(str) + 1), NEW set
  PROVE  /\ Span(str, p, set) \in 0..(Len(str) + 1 - p)
         /\ \A q \in p..(p + Span(str, p, set) - 1) : str[q] \notin set
         /\ p + Span(str, p, set) <= Len(str) => str[p + Span(str, p, set)] \in set
<1> DEFINE T == {q \in p..Len(str) : str[q] \in set} \cup {Len(str) + 1}
           m == Min(T)
<1>1. Len(str) \in Nat
  BY DEF Str
<1>2. T \subseteq Nat /\ Len(str) + 1 \in T
  BY <1>1
<1>3. m \in T /\ \A y \in T : m <= y
  <2> HIDE DEF T
  <2>1. QED BY <1>2, MinFacts
<1>4. Span(str, p, set) = m - p
  BY DEF Span
<1>5. m \in p..(Len(str) + 1)
  BY <1>1, <1>3
<1>6. ASSUME NEW q \in p..(m - 1) PROVE str[q] \notin set
  <2>1. q \in p..Len(str) /\ ~(m <= q)
    BY <1>1, <1>5
  <2>2. q \notin T
    BY <1>3, <2>1
  <2>3. QED BY <2>1, <2>2
<1>7. m <= Len(str) => str[m] \in set
  BY <1>1, <1>3
<1> HIDE DEF m
<1>8. p + (m - p) = m /\ m - p \in 0..(Len(str) + 1 - p)
  BY <1>1, <1>5
<1>9. QED BY <1>4, <1>6, <1>7, <1>8

\* Blanks are skipped.
LEMMA NextWordFacts ==
  ASSUME NEW str \in Str, NEW p \in 1..(Len(str) + 1)
  PROVE  /\ NextWord(str, p) \in p..(Len(str) + 1)
         /\ \A q \in p..(NextWord(str, p) - 1) : str[q] = Blank
         /\ NextWord(str, p) <= Len(str) => str[NextWord(str, p)] # Blank
<1> DEFINE T == {q \in p..Len(str) : str[q] # Blank} \cup {Len(str) + 1}
           m == Min(T)
<1>1. Len(str) \in Nat
  BY DEF Str
<1>2. T \subseteq Nat /\ Len(str) + 1 \in T
  BY <1>1
<1>3. m \in T /\ \A y \in T : m <= y
  <2> HIDE DEF T
  <2>1. QED BY <1>2, MinFacts
<1>4. NextWord(str, p) = m
  BY DEF NextWord
<1>5. m \in p..(Len(str) + 1)
  BY <1>1, <1>3
<1>6. ASSUME NEW q \in p..(m - 1) PROVE str[q] = Blank
  <2>1. q \in p..Len(str) /\ ~(m <= q)
    BY <1>1, <1>5
  <2>2. q \notin T
    BY <1>3, <2>1
  <2>3. QED BY <2>1, <2>2
<1>7. m <= Len(str) => str[m] # Blank
  BY <1>1, <1>3
<1> HIDE DEF m
<1>8. QED BY <1>4, <1>5, <1>6, <1>7

\* The words that begin before a place, and how many begin up to one.
Before(str, at) == {q \in WordStarts(str) : q < at}

Rank(str, p) == Cardinality({q \in WordStarts(str) : q <= p})

\* There are finitely many.
LEMMA StartsFinite ==
  ASSUME NEW str \in Str
  PROVE  /\ WordStarts(str) \subseteq 1..Len(str)
         /\ Len(str) \in Nat
         /\ \A S \in SUBSET WordStarts(str) : IsFiniteSet(S) /\ Cardinality(S) \in Nat
<1>1. WordStarts(str) \subseteq 1..Len(str) /\ Len(str) \in Nat
  BY DEF WordStarts, Str
<1>2. IsFiniteSet(1..Len(str))
  BY <1>1, FS_Interval
<1>3. ASSUME NEW S \in SUBSET WordStarts(str) PROVE IsFiniteSet(S) /\ Cardinality(S) \in Nat
  BY <1>1, <1>2, FS_Subset, FS_CardinalityType
<1>4. QED BY <1>1, <1>3

\* One word more begins before what is behind the beginning of a word.
LEMMA RankFacts ==
  ASSUME NEW str \in Str, NEW p \in WordStarts(str)
  PROVE  /\ Rank(str, p) = Cardinality(Before(str, p)) + 1
         /\ Cardinality(Before(str, p)) \in Nat
         /\ \A q \in Before(str, p) : Rank(str, q) \in 1..Cardinality(Before(str, p))
         /\ Rank(str, p) \in 1..Cardinality(WordStarts(str))
<1>1. p \in Nat /\ WordStarts(str) \subseteq Nat
  BY StartsFinite
<1>2. IsFiniteSet(Before(str, p)) /\ Cardinality(Before(str, p)) \in Nat
  BY StartsFinite DEF Before
<1>3. ASSUME NEW q \in WordStarts(str)
      PROVE  /\ {r \in WordStarts(str) : r <= q} = Before(str, q) \cup {q}
             /\ q \notin Before(str, q)
  BY <1>1 DEF Before
<1>4. ASSUME NEW q \in WordStarts(str)
      PROVE  Rank(str, q) = Cardinality(Before(str, q)) + 1
  <2>1. IsFiniteSet(Before(str, q))
    BY StartsFinite DEF Before
  <2>2. QED BY <1>3, <2>1, FS_AddElement DEF Rank
<1>5. ASSUME NEW q \in Before(str, p)
      PROVE  Rank(str, q) \in 1..Cardinality(Before(str, p))
  <2>1. q \in WordStarts(str) /\ q < p
    BY DEF Before
  <2>2. {r \in WordStarts(str) : r <= q} \subseteq Before(str, p)
    BY <1>1, <2>1 DEF Before
  <2>3. Rank(str, q) <= Cardinality(Before(str, p))
    BY <1>2, <2>2, FS_Subset DEF Rank
  <2>4. Cardinality(Before(str, q)) \in Nat
    BY StartsFinite DEF Before
  <2>5. QED BY <1>2, <1>4, <2>1, <2>3, <2>4
<1>6. Rank(str, p) \in 1..Cardinality(WordStarts(str))
  <2>1. {q \in WordStarts(str) : q <= p} \subseteq WordStarts(str)
    OBVIOUS
  <2>2. IsFiniteSet(WordStarts(str)) /\ Cardinality(WordStarts(str)) \in Nat
    BY StartsFinite
  <2>3. Rank(str, p) <= Cardinality(WordStarts(str))
    BY <2>1, <2>2, FS_Subset DEF Rank
  <2>4. QED BY <1>2, <1>4, <2>2, <2>3
<1>7. QED BY <1>2, <1>4, <1>5, <1>6

\* The ranks of the words tell them apart, and are in the order of the words.
LEMMA RankOrder ==
  ASSUME NEW str \in Str, NEW p \in WordStarts(str), NEW q \in WordStarts(str)
  PROVE  /\ p < q <=> Rank(str, p) < Rank(str, q)
         /\ p = q <=> Rank(str, p) = Rank(str, q)
<1>1. p \in Nat /\ q \in Nat
  BY StartsFinite
<1>2. /\ Rank(str, p) \in Nat /\ Rank(str, q) \in Nat
      /\ p < q => Rank(str, p) < Rank(str, q)
      /\ q < p => Rank(str, q) < Rank(str, p)
  <2>1. /\ Rank(str, p) = Cardinality(Before(str, p)) + 1
        /\ Rank(str, q) = Cardinality(Before(str, q)) + 1
        /\ Cardinality(Before(str, p)) \in Nat /\ Cardinality(Before(str, q)) \in Nat
    BY RankFacts
  <2>2. p < q => Rank(str, p) \in 1..Cardinality(Before(str, q))
    BY RankFacts DEF Before
  <2>3. q < p => Rank(str, q) \in 1..Cardinality(Before(str, p))
    BY RankFacts DEF Before
  <2>4. QED BY <2>1, <2>2, <2>3
<1>3. QED BY <1>1, <1>2

\* There is a word of every rank.
LEMMA RankExists ==
  ASSUME NEW str \in Str, NEW k \in 1..Cardinality(WordStarts(str))
  PROVE  \E p \in WordStarts(str) : Rank(str, p) = k
<1> DEFINE W == WordStarts(str)
           N == Cardinality(W)
           T == {j \in 0..N : j = 0 \/ \E p \in W : Rank(str, p) = j}
<1>1. W \subseteq Nat /\ IsFiniteSet(W) /\ N \in Nat
  BY StartsFinite
<1>2. 0 \in T
  BY <1>1
<1>3. ASSUME NEW j \in 1..N, j - 1 \in T PROVE j \in T
  <2>1. \E D \in SUBSET W : /\ Cardinality(D) = j - 1
                            /\ \A d \in D, w \in W : w <= d => w \in D
    <3>1. CASE j - 1 = 0
      BY <3>1, FS_EmptySet
    <3>2. CASE j - 1 # 0
      <4>1. PICK p \in W : Rank(str, p) = j - 1
        BY <1>3, <3>2
      <4> DEFINE D == {q \in W : q <= p}
      <4>2. Cardinality(D) = j - 1
        BY <4>1 DEF Rank
      <4>3. \A d \in D, w \in W : w <= d => w \in D
        BY <1>1
      <4>4. D \in SUBSET W
        OBVIOUS
      <4> HIDE DEF D
      <4>5. QED BY <4>2, <4>3, <4>4
    <3>3. QED BY <3>1, <3>2
  <2>2. PICK D \in SUBSET W : /\ Cardinality(D) = j - 1
                              /\ \A d \in D, w \in W : w <= d => w \in D
    BY <2>1
  <2> DEFINE R == W \ D
             m == Min(R)
  <2>3. R # {} /\ R \subseteq Nat
    <3>1. D # W
      BY <1>1, <2>2
    <3>2. QED BY <1>1, <3>1
  <2>4. m \in R /\ \A y \in R : m <= y
    <3> HIDE DEF R
    <3>1. QED BY <2>3, MinFacts
  <2> HIDE DEF m
  <2>5. Before(str, m) = D
    BY <1>1, <2>2, <2>4 DEF Before
  <2>6. Rank(str, m) = j
    BY <2>2, <2>4, <2>5, RankFacts
  <2>7. QED BY <2>4, <2>6
<1>4. 0..N \subseteq T
  <2> HIDE DEF T, N
  <2>1. QED BY <1>1, <1>2, <1>3, Induction
<1>5. QED BY <1>1, <1>4

\* The places where words begin, in order.
LEMMA StartsFacts ==
  ASSUME NEW str \in Str
  PROVE  /\ StartsInOrder(str) \in Seq(Nat)
         /\ Len(StartsInOrder(str)) = Cardinality(WordStarts(str))
         /\ DOMAIN StartsInOrder(str) = 1..Cardinality(WordStarts(str))
         /\ \A k \in 1..Cardinality(WordStarts(str)) :
              /\ StartsInOrder(str)[k] \in WordStarts(str)
              /\ Rank(str, StartsInOrder(str)[k]) = k
         /\ \A p \in WordStarts(str) : StartsInOrder(str)[Rank(str, p)] = p
<1> DEFINE W == WordStarts(str)
           N == Cardinality(W)
           s == StartsInOrder(str)
<1>1. W \subseteq Nat /\ N \in Nat
  BY StartsFinite
<1>2. ASSUME NEW k \in 1..N PROVE s[k] \in W /\ Rank(str, s[k]) = k
  <2>1. \E p \in W : Cardinality({q \in W : q <= p}) = k
    BY RankExists DEF Rank
  <2>2. s[k] = CHOOSE p \in W : Cardinality({q \in W : q <= p}) = k
    BY DEF StartsInOrder
  <2>3. QED BY <2>1, <2>2 DEF Rank
<1>3. DOMAIN s = 1..N /\ s = [k \in 1..N |-> s[k]]
  <2>1. /\ s = [k \in 1..N |-> CHOOSE p \in W : Cardinality({q \in W : q <= p}) = k]
        /\ DOMAIN s = 1..N
    BY DEF StartsInOrder
  <2> HIDE DEF s, N, W
  <2>2. QED BY <2>1
<1> HIDE DEF s
<1>4. s \in [1..N -> Nat]
  BY <1>1, <1>2, <1>3
<1>5. s \in Seq(Nat) /\ Len(s) = N
  BY <1>1, <1>3, <1>4
<1>6. ASSUME NEW p \in W PROVE s[Rank(str, p)] = p
  <2>1. Rank(str, p) \in 1..N
    BY RankFacts
  <2>2. s[Rank(str, p)] \in W /\ Rank(str, s[Rank(str, p)]) = Rank(str, p)
    BY <1>2, <2>1
  <2>3. QED BY <2>2, RankOrder
<1>7. QED BY <1>2, <1>3, <1>5, <1>6 DEF s

-----------------------------------------------------------------------------
(* The loop over the words of a line.                                      *)

Rounds == [at : Nat \ {0}, argv : Seq(Str)]

\* A round's place and arguments are of their type; not one is beyond upTo.
LEMMA RoundType ==
  ASSUME NEW str \in Str, NEW quotes, NEW upTo \in Nat, NEW r \in Rounds,
         Len(r.argv) <= upTo
  PROVE  LET s == Round(str, quotes, upTo, r)
         IN  /\ s \in Rounds
             /\ Len(s.argv) <= upTo
             /\ r.at <= Len(str) /\ Len(r.argv) < upTo => r.at < s.at
             /\ ~(r.at <= Len(str) /\ Len(r.argv) < upTo) => s = r
<1> DEFINE quoted == str[r.at] \in quotes
           from == IF quoted THEN r.at + 1 ELSE r.at
           size == Span(str, from, IF quoted THEN {str[r.at]} ELSE {Blank})
           word == SubSeq(str, from, from + size - 1)
           more == IF quoted THEN 1 ELSE 0
           to == from + size + more
           s == Round(str, quotes, upTo, r)
<1>1. /\ Len(str) \in Nat /\ r.at \in Nat \ {0} /\ r.argv \in Seq(Str)
      /\ Len(r.argv) \in Nat /\ r = [at |-> r.at, argv |-> r.argv]
  BY DEF Str, Rounds
<1>2. s = IF r.at > Len(str) \/ Len(r.argv) = upTo THEN r
          ELSE IF str[r.at] = Blank THEN [r EXCEPT !.at = @ + 1]
          ELSE [at |-> to, argv |-> Append(r.argv, word)]
  BY DEF Round
<1>3. CASE r.at > Len(str) \/ Len(r.argv) = upTo
  <2>1. s = r
    BY <1>2, <1>3
  <2> HIDE DEF s
  <2>2. QED BY <1>1, <1>3, <2>1 DEF s
<1>4. CASE ~(r.at > Len(str) \/ Len(r.argv) = upTo) /\ str[r.at] = Blank
  <2>1. s = [at |-> r.at + 1, argv |-> r.argv]
    BY <1>1, <1>2, <1>4
  <2> HIDE DEF s
  <2>2. s \in Rounds /\ s.at = r.at + 1 /\ s.argv = r.argv
    BY <1>1, <2>1 DEF Rounds
  <2>3. QED BY <1>1, <1>4, <2>2 DEF s
<1>5. CASE ~(r.at > Len(str) \/ Len(r.argv) = upTo) /\ str[r.at] # Blank
  <2>1. s = [at |-> to, argv |-> Append(r.argv, word)]
    BY <1>2, <1>5
  <2>2. from \in 1..(Len(str) + 1) /\ r.at <= from
    BY <1>1, <1>5
  <2>3. /\ size \in 0..(Len(str) + 1 - from)
        /\ ~quoted => size # 0
    <3> DEFINE set == IF quoted THEN {str[r.at]} ELSE {Blank}
    <3> HIDE DEF from
    <3>1. /\ Span(str, from, set) \in 0..(Len(str) + 1 - from)
          /\ from + Span(str, from, set) <= Len(str) => str[from + Span(str, from, set)] \in set
      <4> HIDE DEF set
      <4>1. QED BY <2>2, SpanFacts
    <3>2. ~quoted /\ size = 0 => str[r.at] = Blank
      BY <1>1, <1>5, <3>1 DEF from
    <3>3. QED BY <1>5, <3>1, <3>2
  <2> HIDE DEF size
  <2>4. word \in Str /\ to \in Nat \ {0} /\ r.at < to
    <3>1. from + size - 1 \in (from - 1)..Len(str)
      BY <1>1, <2>2, <2>3, SMTT(30)
    <3> HIDE DEF from
    <3>2. word \in Seq(Char)
      BY <2>2, <3>1, SubSeqProperties DEF Str
    <3>3. more \in 0..1 /\ (quoted => more = 1)
      OBVIOUS
    <3> HIDE DEF more, quoted
    <3>4. to \in Nat \ {0} /\ r.at < to
      BY <1>1, <2>2, <2>3, <3>3
    <3>5. QED BY <3>2, <3>4 DEF Str
  <2> HIDE DEF word, to, s
  <2>5. Append(r.argv, word) \in Seq(Str) /\ Len(Append(r.argv, word)) = Len(r.argv) + 1
    BY <1>1, <2>4, AppendProperties
  <2>6. s \in Rounds /\ s.at = to /\ s.argv = Append(r.argv, word)
    BY <2>1, <2>4, <2>5 DEF Rounds
  <2>7. QED BY <1>1, <1>5, <2>4, <2>5, <2>6 DEF s
<1>6. QED BY <1>3, <1>4, <1>5

\* after[k] is what the loop has after k rounds.
RoundsOf(after, str, quotes, upTo) ==
  /\ Loop(str, quotes, upTo) = after[Len(str)]
  /\ after[0] = [at |-> 1, argv |-> <<>>]
  /\ \A k \in Nat : /\ after[k] \in Rounds
                    /\ Len(after[k].argv) <= upTo
                    /\ after[k + 1] = Round(str, quotes, upTo, after[k])

\* The loop has its rounds.
LEMMA LoopRounds ==
  ASSUME NEW str \in Str, NEW quotes, NEW upTo \in Nat
  PROVE  \E after : RoundsOf(after, str, quotes, upTo)
<1> DEFINE V == {r \in Rounds : Len(r.argv) <= upTo}
           start == [at |-> 1, argv |-> <<>>]
           step == [k \in Nat |-> [v \in V |-> Round(str, quotes, upTo, v)]]
           body(f) == [k \in Nat |-> IF k = 0 THEN start
                                     ELSE Round(str, quotes, upTo, f[k - 1])]
           after == CHOOSE f : f = body(f)
<1>1. start \in V
  <2>1. <<>> \in Seq(Str) /\ Len(<<>>) = 0
    BY EmptySeq
  <2>2. QED BY <2>1 DEF Rounds
<1>2. \A v \in V : Round(str, quotes, upTo, v) \in V
  BY RoundType
<1>3. step \in [Nat -> [V -> V]]
  <2> HIDE DEF V
  <2>1. QED BY <1>2
<1>4. \E f : f = body(f)
  <2>1. PICK f : SolvesAll(f, V, start, step)
    <3> HIDE DEF step, V, start
    <3>1. QED BY <1>1, <1>3, RecursionAll, Zenon
  <2> HIDE DEF V, start
  <2>2. ASSUME NEW k \in Nat
        PROVE  f[k] = IF k = 0 THEN start ELSE Round(str, quotes, upTo, f[k - 1])
    <3>1. CASE k = 0
      BY <2>1, <3>1 DEF SolvesAll
    <3>2. CASE k # 0
      <4>1. k - 1 \in Nat /\ (k - 1) + 1 = k
        BY <3>2
      <4>2. f[k] = step[k][f[k - 1]] /\ f[k - 1] \in V
        BY <2>1, <4>1 DEF SolvesAll
      <4>3. step[k][f[k - 1]] = Round(str, quotes, upTo, f[k - 1])
        BY <4>2
      <4>4. QED BY <3>2, <4>2, <4>3
    <3>3. QED BY <3>1, <3>2
  <2>3. f \in [Nat -> V]
    BY <2>1 DEF SolvesAll
  <2>4. f = body(f)
    BY <2>2, <2>3
  <2>5. QED BY <2>4
<1>5. after = body(after)
  <2> HIDE DEF body
  <2>1. QED BY <1>4
<1>6. Loop(str, quotes, upTo) = after[Len(str)]
  BY DEF Loop
<1> HIDE DEF after
<1>7. \A k \in Nat : after[k] = IF k = 0 THEN start ELSE Round(str, quotes, upTo, after[k - 1])
  <2> HIDE DEF start
  <2>1. QED BY <1>5
<1>8. after[0] = start
  BY <1>7
<1>9. ASSUME NEW k \in Nat PROVE after[k + 1] = Round(str, quotes, upTo, after[k])
  <2>1. k + 1 \in Nat /\ k + 1 # 0 /\ (k + 1) - 1 = k
    OBVIOUS
  <2>2. QED BY <1>7, <2>1
<1>10. ASSUME NEW n \in Nat PROVE after[n] \in V
  <2> DEFINE T == {k \in 0..n : after[k] \in V}
  <2>1. 0 \in T
    BY <1>1, <1>8
  <2>2. ASSUME NEW k \in 1..n, k - 1 \in T PROVE k \in T
    <3>1. k - 1 \in Nat /\ (k - 1) + 1 = k
      OBVIOUS
    <3>2. after[k] = Round(str, quotes, upTo, after[k - 1]) /\ after[k - 1] \in V
      BY <1>9, <2>2, <3>1
    <3> HIDE DEF V
    <3>3. QED BY <1>2, <3>2
  <2>3. 0..n \subseteq T
    <3> HIDE DEF T
    <3>1. QED BY <2>1, <2>2, Induction
  <2>4. QED BY <2>3, n \in 0..n
<1>11. RoundsOf(after, str, quotes, upTo)
  BY <1>6, <1>8, <1>9, <1>10 DEF RoundsOf
<1>12. QED BY <1>11

\* The argument that the loop takes where a word begins: what is in the quotes, or the
\* word.
Quoted(str, quotes, q) == str[q] \in quotes

Taken(str, quotes, q) ==
  IF Quoted(str, quotes, q) THEN SubSeq(str, q + 1, q + Span(str, q, {Blank}) - 2)
  ELSE WordFrom(str, q)

\* A quote at the beginning of a word is closed at its end.
Regular(str, quotes, q) ==
  Quoted(str, quotes, q) =>
    LET end == q + Span(str, q, {Blank}) - 1
    IN q < end /\ str[end] = str[q] /\ \A r \in (q + 1)..(end - 1) : str[r] # str[q]

\* The words before the place that the loop is at are the arguments, in order.
WordsTaken(str, quotes, r) ==
  /\ r.at <= Len(str) + 1
  /\ r.at <= Len(str) /\ str[r.at] # Blank => r.at \in WordStarts(str)
  /\ Len(r.argv) = Cardinality(Before(str, r.at))
  /\ \A q \in Before(str, r.at) : r.argv[Rank(str, q)] = Taken(str, quotes, q)

\* Where a word of a line ends.
LEMMA WordFacts ==
  ASSUME NEW str \in Str, NEW q \in WordStarts(str)
  PROVE  LET next == q + Span(str, q, {Blank})
         IN  /\ q \in 1..Len(str) /\ next \in (q + 1)..(Len(str) + 1)
             /\ \A r \in q..(next - 1) : str[r] # Blank
             /\ next <= Len(str) => str[next] = Blank
             /\ Before(str, next) = Before(str, q) \cup {q}
             /\ WordFrom(str, q) \in Str
             /\ Len(WordFrom(str, q)) = Span(str, q, {Blank})
             /\ \A i \in 1..Span(str, q, {Blank}) : WordFrom(str, q)[i] = str[q + i - 1]
<1> DEFINE size == Span(str, q, {Blank})
           next == q + size
<1>1. q \in 1..Len(str) /\ Len(str) \in Nat /\ str[q] # Blank
  BY DEF WordStarts, Str
<1>2. /\ size \in 0..(Len(str) + 1 - q)
      /\ \A r \in q..(next - 1) : str[r] \notin {Blank}
      /\ next <= Len(str) => str[next] \in {Blank}
  <2>1. q \in 1..(Len(str) + 1)
    BY <1>1
  <2> DEFINE set == {Blank}
  <2>2. /\ Span(str, q, set) \in 0..(Len(str) + 1 - q)
        /\ \A r \in q..(q + Span(str, q, set) - 1) : str[r] \notin set
        /\ q + Span(str, q, set) <= Len(str) => str[q + Span(str, q, set)] \in set
    <3> HIDE DEF set
    <3>1. QED BY <2>1, SpanFacts
  <2> HIDE DEF size
  <2>3. /\ size \in 0..(Len(str) + 1 - q)
        /\ \A r \in q..(q + size - 1) : str[r] \notin {Blank}
        /\ q + size <= Len(str) => str[q + size] \in {Blank}
    BY <2>2 DEF size
  <2>4. q + size - 1 = next - 1
    BY <1>1, <2>3
  <2>5. QED BY <2>3, <2>4
<1> HIDE DEF size
<1>3. size # 0
  BY <1>1, <1>2
<1>4. Before(str, next) = Before(str, q) \cup {q}
  <2>1. ASSUME NEW r \in WordStarts(str), q < r PROVE ~(r < next)
    <3>1. r \in 1..Len(str) /\ str[r] # Blank /\ (r = 1 \/ str[r - 1] = Blank)
      BY DEF WordStarts, Str
    <3>2. r - 1 \in q..(next - 1) \/ ~(r < next)
      BY <1>1, <1>2, <2>1, <3>1
    <3>3. QED BY <1>1, <1>2, <2>1, <3>1, <3>2
  <2>2. q < next
    BY <1>1, <1>2, <1>3
  <2>3. WordStarts(str) \subseteq Nat
    BY StartsFinite
  <2>4. \A r \in WordStarts(str) : r < next <=> r < q \/ r = q
    BY <1>1, <1>2, <2>1, <2>2, <2>3
  <2>5. QED BY <2>4 DEF Before
<1>5. /\ WordFrom(str, q) \in Seq(Char) /\ Len(WordFrom(str, q)) = size
      /\ \A i \in 1..size : WordFrom(str, q)[i] = str[q + i - 1]
  <2>1. q + size - 1 \in (q - 1)..Len(str) /\ q \in 1..(Len(str) + 1)
        /\ (q + size - 1) - q + 1 = size
    BY <1>1, <1>2
  <2>2. WordFrom(str, q) = SubSeq(str, q, q + size - 1)
    BY DEF WordFrom, size
  <2>3. QED BY <2>1, <2>2, SubSeqProperties DEF Str
<1>6. next \in (q + 1)..(Len(str) + 1)
  BY <1>1, <1>2, <1>3
<1>7. /\ \A r \in q..(next - 1) : str[r] # Blank
      /\ next <= Len(str) => str[next] = Blank
  BY <1>2
<1>8. WordFrom(str, q) \in Str
  BY <1>5 DEF Str
<1>9. QED BY <1>1, <1>4, <1>5, <1>6, <1>7, <1>8 DEF size

\* The argument taken where a word begins, and where the loop goes on.
LEMMA RoundWord ==
  ASSUME NEW str \in Str, NEW quotes, NEW q \in WordStarts(str), Regular(str, quotes, q)
  PROVE  LET from == IF Quoted(str, quotes, q) THEN q + 1 ELSE q
             size == Span(str, from, IF Quoted(str, quotes, q) THEN {str[q]} ELSE {Blank})
         IN  /\ from + size + (IF Quoted(str, quotes, q) THEN 1 ELSE 0)
                  = q + Span(str, q, {Blank})
             /\ SubSeq(str, from, from + size - 1) = Taken(str, quotes, q)
             /\ Taken(str, quotes, q) \in Str
<1> DEFINE quoted == Quoted(str, quotes, q)
           length == Span(str, q, {Blank})
           end == q + length - 1
<1>1. /\ q \in 1..Len(str) /\ q + length \in (q + 1)..(Len(str) + 1)
      /\ Len(str) \in Nat /\ length \in Nat
  <2>1. q \in 1..Len(str) /\ q + length \in (q + 1)..(Len(str) + 1)
    BY WordFacts
  <2>2. q \in 1..(Len(str) + 1) /\ Len(str) \in Nat
    BY <2>1 DEF Str
  <2> DEFINE set == {Blank}
  <2> HIDE DEF set
  <2>3. Span(str, q, set) \in 0..(Len(str) + 1 - q)
    BY <2>2, SpanFacts
  <2>4. QED BY <2>1, <2>2, <2>3 DEF set
<1>2. CASE ~quoted
  <2> DEFINE size == Span(str, q, {Blank})
  <2>1. size = length /\ WordFrom(str, q) = SubSeq(str, q, q + size - 1)
    BY DEF WordFrom
  <2>2. Taken(str, quotes, q) = WordFrom(str, q) /\ WordFrom(str, q) \in Str
    BY <1>2, WordFacts DEF Taken
  <2>3. q + length + 0 = q + length
    BY <1>1
  <2>4. QED BY <1>2, <2>1, <2>2, <2>3
<1>3. CASE quoted
  <2> DEFINE set == {str[q]}
             size == Span(str, q + 1, set)
  <2>1. /\ q < end /\ str[end] = str[q]
        /\ \A r \in (q + 1)..(end - 1) : str[r] # str[q]
    BY <1>3 DEF Regular
  <2>2. q + 1 \in 1..(Len(str) + 1)
    BY <1>1
  <2>3. /\ size \in 0..(Len(str) + 1 - (q + 1))
        /\ \A r \in (q + 1)..(q + 1 + size - 1) : str[r] \notin set
        /\ q + 1 + size <= Len(str) => str[q + 1 + size] \in set
    <3> HIDE DEF set
    <3>1. QED BY <2>2, SpanFacts
  <2> HIDE DEF length, size
  <2>4. end \in (q + 1)..Len(str)
    BY <1>1, <2>1
  <2>5. end \notin (q + 1)..(q + 1 + size - 1)
    BY <2>1, <2>3
  <2>6. q + 1 + size <= Len(str) /\ q + 1 + size <= end
    BY <1>1, <2>3, <2>4, <2>5
  <2>7. q + 1 + size \notin (q + 1)..(end - 1)
    BY <2>1, <2>3, <2>6
  <2>8. q + 1 + size = end
    BY <1>1, <2>3, <2>4, <2>6, <2>7
  <2>9. q + 1 + size + 1 = q + length /\ q + 1 + size - 1 = q + length - 2
    BY <1>1, <2>3, <2>8
  <2>10. Taken(str, quotes, q) = SubSeq(str, q + 1, q + length - 2)
    BY <1>3 DEF Taken, length
  <2>11. SubSeq(str, q + 1, q + length - 2) \in Str
    <3>1. q + length - 2 \in q..Len(str) /\ (q + 1) - 1 = q
      BY <1>1, <2>4
    <3>2. q + length - 2 \in ((q + 1) - 1)..Len(str)
      BY <3>1
    <3>3. QED BY <2>2, <3>2, SubSeqProperties DEF Str
  <2>12. QED BY <1>3, <2>9, <2>10, <2>11 DEF length, size
<1>4. QED BY <1>2, <1>3

\* A round of the loop takes the next word, or a blank.
LEMMA RoundTakes ==
  ASSUME NEW str \in Str, NEW quotes, NEW upTo \in Nat, NEW r \in Rounds,
         Len(r.argv) <= upTo, WordsTaken(str, quotes, r),
         \A q \in WordStarts(str) : Rank(str, q) <= upTo => Regular(str, quotes, q)
  PROVE  WordsTaken(str, quotes, Round(str, quotes, upTo, r))
<1> DEFINE q == r.at
           quoted == Quoted(str, quotes, q)
           from == IF quoted THEN q + 1 ELSE q
           size == Span(str, from, IF quoted THEN {str[q]} ELSE {Blank})
           word == SubSeq(str, from, from + size - 1)
           to == from + size + (IF quoted THEN 1 ELSE 0)
           s == Round(str, quotes, upTo, r)
<1>1. /\ Len(str) \in Nat /\ q \in Nat \ {0} /\ r.argv \in Seq(Str)
      /\ Len(r.argv) \in Nat /\ r = [at |-> q, argv |-> r.argv]
  BY DEF Str, Rounds
<1>2. s = IF q > Len(str) \/ Len(r.argv) = upTo THEN r
          ELSE IF str[q] = Blank THEN [r EXCEPT !.at = @ + 1]
          ELSE [at |-> to, argv |-> Append(r.argv, word)]
  BY DEF Round, Quoted
<1>3. /\ q <= Len(str) + 1
      /\ q <= Len(str) /\ str[q] # Blank => q \in WordStarts(str)
      /\ Len(r.argv) = Cardinality(Before(str, q))
      /\ \A p \in Before(str, q) : r.argv[Rank(str, p)] = Taken(str, quotes, p)
  BY DEF WordsTaken
<1>4. CASE q > Len(str) \/ Len(r.argv) = upTo
  <2>1. s = r
    BY <1>2, <1>4
  <2> HIDE DEF s
  <2>2. QED BY <2>1 DEF s
<1>5. CASE ~(q > Len(str) \/ Len(r.argv) = upTo) /\ str[q] = Blank
  <2>1. s = [at |-> q + 1, argv |-> r.argv]
    BY <1>1, <1>2, <1>5
  <2> HIDE DEF s
  <2>2. s.at = q + 1 /\ s.argv = r.argv
    BY <2>1
  <2>3. Before(str, q + 1) = Before(str, q)
    <3>1. q \notin WordStarts(str) /\ WordStarts(str) \subseteq Nat
      BY <1>5, StartsFinite DEF WordStarts
    <3>2. \A p \in WordStarts(str) : p < q + 1 <=> p < q
      BY <1>1, <3>1
    <3>3. QED BY <3>2 DEF Before
  <2>4. q + 1 <= Len(str) /\ str[q + 1] # Blank => q + 1 \in WordStarts(str)
    <3>1. (q + 1) - 1 = q
      BY <1>1
    <3>2. QED BY <1>1, <1>5, <3>1 DEF WordStarts, Str
  <2>5. q + 1 <= Len(str) + 1
    BY <1>1, <1>5
  <2> HIDE DEF q
  <2>6. WordsTaken(str, quotes, s)
    BY <1>3, <2>2, <2>3, <2>4, <2>5 DEF WordsTaken
  <2>7. QED BY <2>6 DEF s
<1>6. CASE ~(q > Len(str) \/ Len(r.argv) = upTo) /\ str[q] # Blank
  <2> DEFINE next == q + Span(str, q, {Blank})
  <2>1. s = [at |-> to, argv |-> Append(r.argv, word)]
    BY <1>2, <1>6
  <2>2. q \in WordStarts(str)
    BY <1>1, <1>3, <1>6
  <2>3. /\ Rank(str, q) = Len(r.argv) + 1
        /\ \A p \in Before(str, q) : Rank(str, p) \in 1..Len(r.argv)
    BY <1>3, <2>2, RankFacts
  <2>4. Regular(str, quotes, q)
    BY <1>1, <1>6, <2>2, <2>3
  <2>5. to = next /\ word = Taken(str, quotes, q) /\ Taken(str, quotes, q) \in Str
    <3> HIDE DEF q
    <3>1. QED BY <2>2, <2>4, RoundWord, Zenon
  <2> HIDE DEF to, word, s
  <2>6. /\ q \in 1..Len(str) /\ next \in (q + 1)..(Len(str) + 1)
        /\ next <= Len(str) => str[next] = Blank
        /\ Before(str, next) = Before(str, q) \cup {q}
    BY <2>2, WordFacts
  <2>7. s.at = next /\ s.argv = Append(r.argv, Taken(str, quotes, q))
    BY <2>1, <2>5
  <2>8. /\ Len(s.argv) = Len(r.argv) + 1
        /\ \A i \in 1..Len(r.argv) : s.argv[i] = r.argv[i]
        /\ s.argv[Len(r.argv) + 1] = Taken(str, quotes, q)
    BY <1>1, <2>5, <2>7, AppendProperties
  <2>9. Cardinality(Before(str, next)) = Cardinality(Before(str, q)) + 1
    <3>1. q \notin Before(str, q) /\ IsFiniteSet(Before(str, q))
      BY <1>1, StartsFinite DEF Before
    <3>2. QED BY <2>6, <3>1, FS_AddElement
  <2>10. \A p \in Before(str, next) : s.argv[Rank(str, p)] = Taken(str, quotes, p)
    <3>1. ASSUME NEW p \in Before(str, q)
          PROVE  s.argv[Rank(str, p)] = Taken(str, quotes, p)
      BY <1>3, <2>3, <2>8
    <3>2. s.argv[Rank(str, q)] = Taken(str, quotes, q)
      BY <2>3, <2>8
    <3>3. QED BY <2>6, <3>1, <3>2
  <2> HIDE DEF q, next
  <2>11. WordsTaken(str, quotes, s)
    <3>1. s.at <= Len(str) + 1 /\ ~(s.at <= Len(str) /\ str[s.at] # Blank)
      BY <1>1, <2>6, <2>7
    <3>2. Len(s.argv) = Cardinality(Before(str, s.at))
      BY <1>3, <2>7, <2>8, <2>9
    <3>3. \A p \in Before(str, s.at) : s.argv[Rank(str, p)] = Taken(str, quotes, p)
      BY <2>7, <2>10
    <3>4. QED BY <3>1, <3>2, <3>3 DEF WordsTaken
  <2>12. QED BY <2>11 DEF s
<1>7. QED BY <1>4, <1>5, <1>6

\* The loop ends with all the words of the line as arguments, or with as many as it
\* may take.
LEMMA LoopFacts ==
  ASSUME NEW str \in Str, NEW quotes, NEW upTo \in Nat
  PROVE  LET r == Loop(str, quotes, upTo)
         IN  /\ r \in Rounds /\ Len(r.argv) <= upTo
             /\ r.at > Len(str) \/ Len(r.argv) = upTo
             /\ (\A q \in WordStarts(str) : Rank(str, q) <= upTo => Regular(str, quotes, q))
                  => WordsTaken(str, quotes, r)
<1> DEFINE N == Len(str)
           regular == \A q \in WordStarts(str) :
                        Rank(str, q) <= upTo => Regular(str, quotes, q)
<1>1. N \in Nat
  BY DEF Str
<1> PICK after : RoundsOf(after, str, quotes, upTo)
  BY LoopRounds
<1>2. /\ Loop(str, quotes, upTo) = after[N]
      /\ after[0] = [at |-> 1, argv |-> <<>>]
      /\ \A k \in Nat : /\ after[k] \in Rounds
                        /\ Len(after[k].argv) <= upTo
                        /\ after[k + 1] = Round(str, quotes, upTo, after[k])
  BY DEF RoundsOf
<1> DEFINE Ends(r) == r.at > N \/ Len(r.argv) = upTo
           T == {k \in 0..N : after[k].at >= k + 1 \/ Ends(after[k])}
           W == {k \in 0..N : WordsTaken(str, quotes, after[k])}
<1>3. 0 \in T
  <2>1. after[0].at = 1
    BY <1>2
  <2>2. QED BY <1>1, <2>1
<1>4. ASSUME NEW k \in 1..N, k - 1 \in T PROVE k \in T
  <2> DEFINE r == after[k - 1]
             s == after[k]
  <2>1. k - 1 \in Nat /\ (k - 1) + 1 = k
    OBVIOUS
  <2>2. r \in Rounds /\ s \in Rounds /\ Len(r.argv) <= upTo /\ Len(s.argv) <= upTo
        /\ s = Round(str, quotes, upTo, r)
    <3>1. k \in Nat
      OBVIOUS
    <3>2. s = Round(str, quotes, upTo, r)
      BY <1>2, <2>1
    <3>3. /\ r \in Rounds /\ Len(r.argv) <= upTo
          /\ s \in Rounds /\ Len(s.argv) <= upTo
      BY <1>2, <2>1, <3>1
    <3>4. QED BY <3>2, <3>3
  <2>3. /\ r.at \in Nat /\ s.at \in Nat /\ Len(r.argv) \in Nat /\ Len(s.argv) \in Nat
    BY <2>2 DEF Rounds
  <2>4. r.at >= k \/ Ends(r)
    BY <1>4, <2>1
  <2> HIDE DEF r, s
  <2>5. /\ r.at <= Len(str) /\ Len(r.argv) < upTo => r.at < s.at
        /\ ~(r.at <= Len(str) /\ Len(r.argv) < upTo) => s = r
    BY <2>2, RoundType
  <2>6. s.at >= k + 1 \/ Ends(s)
    BY <1>1, <2>2, <2>3, <2>4, <2>5
  <2>7. QED BY <2>6 DEF s
<1>5. Ends(after[N])
  <2>1. 0..N \subseteq T
    <3> HIDE DEF T, N
    <3>1. QED BY <1>1, <1>3, <1>4, Induction
  <2>2. N \in T
    BY <1>1, <2>1
  <2>3. after[N].at \in Nat
    BY <1>1, <1>2 DEF Rounds
  <2>4. QED BY <1>1, <2>2, <2>3
<1>6. ASSUME regular PROVE WordsTaken(str, quotes, after[N])
  <2>1. 0 \in W
    <3>1. Before(str, 1) = {}
      <4>1. WordStarts(str) \subseteq 1..Len(str) /\ Len(str) \in Nat
        BY StartsFinite
      <4>2. QED BY <4>1 DEF Before
    <3>2. Cardinality(Before(str, 1)) = 0 /\ Len(<<>>) = 0
      BY <3>1, FS_EmptySet, EmptySeq
    <3>3. 1 <= Len(str) /\ str[1] # Blank => 1 \in WordStarts(str)
      BY <1>1 DEF WordStarts, Str
    <3>4. WordsTaken(str, quotes, [at |-> 1, argv |-> <<>>])
      BY <1>1, <3>1, <3>2, <3>3 DEF WordsTaken
    <3>5. WordsTaken(str, quotes, after[0])
      BY <1>2, <3>4
    <3>6. QED BY <1>1, <3>5
  <2>2. ASSUME NEW k \in 1..N, k - 1 \in W PROVE k \in W
    <3>1. k - 1 \in Nat /\ (k - 1) + 1 = k
      OBVIOUS
    <3>2. /\ after[k - 1] \in Rounds /\ Len(after[k - 1].argv) <= upTo
          /\ after[k] = Round(str, quotes, upTo, after[k - 1])
      BY <1>2, <3>1
    <3>3. WordsTaken(str, quotes, after[k - 1])
      BY <2>2
    <3>4. WordsTaken(str, quotes, after[k])
      BY <1>6, <3>2, <3>3, RoundTakes
    <3>5. QED BY <3>4
  <2>3. 0..N \subseteq W
    <3> HIDE DEF W, N
    <3>1. QED BY <1>1, <2>1, <2>2, Induction
  <2>4. QED BY <1>1, <2>3
<1> HIDE DEF regular
<1>7. after[N] \in Rounds /\ Len(after[N].argv) <= upTo
  BY <1>1, <1>2
<1>8. QED BY <1>2, <1>5, <1>6, <1>7 DEF regular

\* The arguments of the loop by the ranks of their words.
LEMMA LoopWords ==
  ASSUME NEW str \in Str, NEW quotes, NEW upTo \in Nat,
         \A q \in WordStarts(str) : Rank(str, q) <= upTo => Regular(str, quotes, q)
  PROVE  LET r == Loop(str, quotes, upTo)
         IN  /\ r.at \in 1..(Len(str) + 1) /\ r.argv \in Seq(Str)
             /\ r.at <= Len(str) /\ str[r.at] # Blank => r.at \in WordStarts(str)
             /\ Len(r.argv) = Cardinality(WordStarts(str))
                  \/ (Len(r.argv) = upTo /\ upTo < Cardinality(WordStarts(str)))
             /\ \A p \in WordStarts(str) : p < r.at <=> Rank(str, p) <= Len(r.argv)
             /\ \A p \in WordStarts(str) :
                  Rank(str, p) <= Len(r.argv) => r.argv[Rank(str, p)] = Taken(str, quotes, p)
<1> DEFINE r == Loop(str, quotes, upTo)
           W == WordStarts(str)
           B == Before(str, r.at)
<1>1. /\ r \in Rounds /\ Len(r.argv) <= upTo
      /\ r.at > Len(str) \/ Len(r.argv) = upTo
      /\ WordsTaken(str, quotes, r)
  BY LoopFacts
<1> HIDE DEF r
<1>2. /\ r.at <= Len(str) + 1
      /\ r.at <= Len(str) /\ str[r.at] # Blank => r.at \in W
      /\ Len(r.argv) = Cardinality(B)
      /\ \A q \in B : r.argv[Rank(str, q)] = Taken(str, quotes, q)
  BY <1>1 DEF WordsTaken
<1>3. /\ r.at \in Nat \ {0} /\ r.argv \in Seq(Str) /\ Len(r.argv) \in Nat
  BY <1>1 DEF Rounds
<1>4. W \subseteq 1..Len(str) /\ Len(str) \in Nat /\ IsFiniteSet(W) /\ Cardinality(W) \in Nat
  BY StartsFinite
<1>5. r.at \in 1..(Len(str) + 1)
  BY <1>2, <1>3, <1>4
<1>6. B \subseteq W /\ Cardinality(B) <= Cardinality(W)
      /\ (Cardinality(B) = Cardinality(W) => B = W)
  BY <1>4, FS_Subset DEF Before
<1>7. r.at > Len(str) => B = W
  BY <1>3, <1>4 DEF Before
<1>8. Len(r.argv) = Cardinality(W) \/ (Len(r.argv) = upTo /\ upTo < Cardinality(W))
  BY <1>1, <1>2, <1>4, <1>6, <1>7
<1>9. ASSUME NEW p \in W PROVE p < r.at <=> Rank(str, p) <= Len(r.argv)
  <2>1. CASE p < r.at
    <3>1. {q \in W : q <= p} \subseteq B /\ IsFiniteSet(B)
      BY <1>3, <1>4, <1>6, <2>1, FS_Subset DEF Before
    <3>2. Cardinality({q \in W : q <= p}) <= Cardinality(B)
      BY <3>1, FS_Subset
    <3>3. QED BY <1>2, <2>1, <3>2 DEF Rank
  <2>2. CASE ~(p < r.at)
    <3>1. B \subseteq Before(str, p) /\ IsFiniteSet(Before(str, p))
      BY <1>3, <1>4, <2>2, FS_Subset DEF Before
    <3>2. Cardinality(B) <= Cardinality(Before(str, p))
      BY <3>1, FS_Subset
    <3>3. Rank(str, p) = Cardinality(Before(str, p)) + 1 /\ Cardinality(Before(str, p)) \in Nat
      BY RankFacts
    <3>4. QED BY <1>2, <1>3, <2>2, <3>2, <3>3
  <2>3. QED BY <2>1, <2>2
<1>10. ASSUME NEW p \in W, Rank(str, p) <= Len(r.argv)
       PROVE  r.argv[Rank(str, p)] = Taken(str, quotes, p)
  BY <1>2, <1>9, <1>10 DEF Before
<1>11. QED BY <1>2, <1>3, <1>5, <1>8, <1>9, <1>10 DEF r

\* make_argv: all the words of a text, in order.
LEMMA MakeArgvFacts ==
  ASSUME NEW str \in Str
  PROVE  /\ MakeArgv(str) \in Seq(Str)
         /\ Len(MakeArgv(str)) = Cardinality(WordStarts(str))
         /\ \A p \in WordStarts(str) : MakeArgv(str)[Rank(str, p)] = WordFrom(str, p)
<1> DEFINE r == Loop(str, {}, Len(str))
           W == WordStarts(str)
<1>1. W \subseteq 1..Len(str) /\ Len(str) \in Nat
  BY StartsFinite
<1>2. \A q \in W : ~Quoted(str, {}, q)
  BY DEF Quoted
<1>3. \A q \in W : Regular(str, {}, q) /\ Taken(str, {}, q) = WordFrom(str, q)
  BY <1>2 DEF Regular, Taken
<1>4. /\ r.argv \in Seq(Str)
      /\ Len(r.argv) = Cardinality(W) \/ (Len(r.argv) = Len(str) /\ Len(str) < Cardinality(W))
      /\ \A p \in W : Rank(str, p) <= Len(r.argv) => r.argv[Rank(str, p)] = Taken(str, {}, p)
  BY <1>1, <1>3, LoopWords
<1> HIDE DEF r
<1>5. Cardinality(W) <= Len(str)
  <2> DEFINE n == Len(str)
  <2>1. n \in Int /\ 1 \in Int
    BY <1>1
  <2> HIDE DEF n
  <2>2. IsFiniteSet(1..n) /\ Cardinality(1..n) = IF 1 > n THEN 0 ELSE n - 1 + 1
    BY <2>1, FS_Interval
  <2>3. Cardinality(1..n) <= n
    BY <1>1, <2>2 DEF n
  <2>4. Cardinality(W) <= Cardinality(1..n)
    BY <1>1, <2>2, FS_Subset DEF n
  <2>5. Cardinality(1..n) \in Nat /\ Cardinality(W) \in Nat
    BY <2>2, FS_CardinalityType, StartsFinite
  <2>6. QED BY <1>1, <2>3, <2>4, <2>5 DEF n
<1>6. Cardinality(W) \in Nat
  BY StartsFinite
<1>7. Len(r.argv) = Cardinality(W)
  BY <1>1, <1>4, <1>5, <1>6
<1>8. \A p \in W : Rank(str, p) <= Len(r.argv)
  BY <1>6, <1>7, RankFacts
<1>9. MakeArgv(str) = r.argv
  BY DEF MakeArgv, r
<1>10. QED BY <1>3, <1>4, <1>7, <1>8, <1>9

\* The lesser of two numbers.
LEMMA MinOfTwo ==
  ASSUME NEW a \in Nat, NEW b \in Nat
  PROVE  Min({a, b}) = IF a <= b THEN a ELSE b
<1> DEFINE T == {a, b}
<1>1. T \subseteq Nat /\ T # {}
  OBVIOUS
<1>2. Min(T) \in T /\ \A y \in T : Min(T) <= y
  <2> HIDE DEF T
  <2>1. QED BY <1>1, MinFacts
<1>3. (Min(T) = a \/ Min(T) = b) /\ Min(T) <= a /\ Min(T) <= b
  BY <1>2
<1> HIDE DEF T
<1>4. Min(T) = IF a <= b THEN a ELSE b
  BY <1>3
<1>5. QED BY <1>4 DEF T

\* How many arguments there may be.
LEMMA ArgcFacts ==
  ASSUME NEW str \in Str, NEW n \in Nat
  PROVE  LET N == Cardinality(WordStarts(str))
         IN  /\ N \in Nat
             /\ SingleWords(n) = n - 1
             /\ Argc(str, n) = IF N <= n THEN N ELSE n
<1>1. Cardinality(WordStarts(str)) \in Nat
  BY StartsFinite
<1>2. WordCount(str) = Cardinality(WordStarts(str))
  BY MakeArgvFacts DEF WordCount
<1>3. Min({WordCount(str), n}) = IF WordCount(str) <= n THEN WordCount(str) ELSE n
  BY <1>1, <1>2, MinOfTwo
<1>4. QED BY <1>1, <1>2, <1>3 DEF SingleWords, Argc

\* Blanks are skipped up to the next word.
LEMMA NextStart ==
  ASSUME NEW str \in Str, NEW p \in 1..(Len(str) + 1), NEW q \in WordStarts(str),
         p <= Len(str) /\ str[p] # Blank => p \in WordStarts(str),
         p <= q, \A r \in WordStarts(str) : r < q => r < p
  PROVE  NextWord(str, p) = q
<1> DEFINE m == NextWord(str, p)
<1>1. /\ m \in p..(Len(str) + 1)
      /\ \A r \in p..(m - 1) : str[r] = Blank
      /\ m <= Len(str) => str[m] # Blank
  BY NextWordFacts
<1> HIDE DEF m
<1>2. q \in 1..Len(str) /\ str[q] # Blank /\ Len(str) \in Nat
  BY DEF WordStarts, Str
<1>3. m <= q
  BY <1>1, <1>2
<1>4. m \in WordStarts(str)
  <2>1. CASE m = p
    BY <1>1, <1>2, <1>3, <2>1
  <2>2. CASE m # p
    BY <1>1, <1>2, <1>3, <2>2, m - 1 \in p..(m - 1) DEF WordStarts, Str
  <2>3. QED BY <2>1, <2>2
<1>5. ~(m < q)
  BY <1>1, <1>2, <1>3, <1>4
<1>6. QED BY <1>1, <1>2, <1>3, <1>5 DEF m

\* No more than n arguments are counted, and none is set beyond the n-th; the array
\* has room for those that are counted.
LEMMA ArgvType ==
  ASSUME NEW str \in Str, NEW n \in Nat \ {0}, NEW more \in Nat
  PROVE  /\ MakeMaxArgv(str, n, more).argc \in 0..n
         /\ DOMAIN MakeMaxArgv(str, n, more).argv \subseteq 1..n
         /\ MakeMaxArgv(str, n, more).is \in {"argv", "overflow"}
         /\ DOMAIN MakeMaxArgv(str, n, more).argv = 1..MakeMaxArgv(str, n, more).argc =>
              MakeMaxArgv(str, n, more).is = "argv"
<1> DEFINE upTo == SingleWords(n)
           argc == Argc(str, n)
           loop == Loop(str, Quotes, upTo)
           beyond == loop.at > Len(str) + 1
           extra == Min({more, upTo - Len(loop.argv)})
           argv == IF ~beyond THEN loop.argv ELSE loop.argv \o [k \in 1..extra |-> Garbage]
           rest == IF beyond THEN Garbage ELSE SubSeq(str, NextWord(str, loop.at), Len(str))
           m == MakeMaxArgv(str, n, more)
<1>1. upTo = n - 1 /\ argc \in 0..n
  BY ArgcFacts
<1> HIDE DEF upTo, argc
<1>2. n - 1 \in Nat /\ upTo \in Nat
  BY <1>1
<1>3. loop \in Rounds /\ Len(loop.argv) <= upTo
  BY <1>2, LoopFacts
<1> HIDE DEF loop
<1>4. loop.argv \in Seq(Str) /\ Len(loop.argv) \in Nat
  BY <1>3 DEF Rounds
<1>5. extra \in Nat /\ extra <= upTo - Len(loop.argv)
  BY <1>2, <1>3, <1>4, MinOfTwo
<1> HIDE DEF extra
<1>6. Len(argv) \in 0..(n - 1) /\ DOMAIN argv = 1..Len(argv)
  <2>1. CASE ~beyond
    BY <1>1, <1>2, <1>3, <1>4, <2>1
  <2>2. CASE beyond
    <3> DEFINE tail == [k \in 1..extra |-> Garbage]
    <3>1. Garbage \in Str
      BY WordsOK DEF Str
    <3>2. tail \in Seq(Str) /\ Len(tail) = extra
      BY <1>5, <3>1
    <3> HIDE DEF tail
    <3>3. /\ loop.argv \o tail \in Seq(Str)
          /\ Len(loop.argv \o tail) = Len(loop.argv) + extra
      BY <1>4, <3>2, ConcatProperties
    <3>4. argv = loop.argv \o tail
      BY <2>2 DEF tail
    <3> HIDE DEF argv
    <3>5. DOMAIN argv = 1..Len(argv) /\ Len(argv) = Len(loop.argv) + extra
      BY <3>3, <3>4
    <3>6. QED BY <1>1, <1>2, <1>3, <1>4, <1>5, <3>5
  <2>3. QED BY <2>1, <2>2
<1>7. m = [is |-> IF Len(argv) > argc + 1 THEN "overflow" ELSE "argv", argc |-> argc,
           argv |-> IF argc < n THEN argv
                    ELSE [k \in DOMAIN argv \cup {n} |-> IF k = n THEN rest ELSE argv[k]]]
  BY Zenon DEF MakeMaxArgv, upTo, argc, loop, extra
<1> HIDE DEF argv, rest, m
<1>8. DOMAIN m.argv \subseteq DOMAIN argv \cup {n}
  <2>1. m.argv = IF argc < n THEN argv
                 ELSE [k \in DOMAIN argv \cup {n} |-> IF k = n THEN rest ELSE argv[k]]
    BY <1>7
  <2>2. CASE argc < n
    BY <2>1, <2>2
  <2>3. CASE ~(argc < n)
    BY <2>1, <2>3
  <2>4. QED BY <2>2, <2>3
<1>9. /\ m.argc = argc
      /\ m.is = IF Len(argv) > argc + 1 THEN "overflow" ELSE "argv"
  BY <1>7
<1>10. ASSUME DOMAIN m.argv = 1..argc PROVE m.is = "argv"
  <2>1. Len(argv) <= argc + 1
    <3>1. CASE argc < n
      <4>1. m.argv = argv
        BY <1>7, <3>1
      <4>2. 1..Len(argv) = 1..argc
        BY <1>6, <1>10, <4>1
      <4>3. Len(argv) # 0 => Len(argv) \in 1..argc
        <5>1. Len(argv) # 0 => Len(argv) \in 1..Len(argv)
          BY <1>6
        <5>2. QED BY <4>2, <5>1
      <4>4. QED BY <1>1, <1>6, <4>3
    <3>2. CASE ~(argc < n)
      BY <1>1, <1>6, <3>2
    <3>3. QED BY <3>1, <3>2
  <2>2. QED BY <1>1, <1>6, <1>9, <2>1
<1>11. DOMAIN m.argv \subseteq 1..n
  BY <1>6, <1>8
<1>12. QED BY <1>1, <1>9, <1>10, <1>11 DEF m

\* make_max_argv, where no quote begins a word but those around one: the words are
\* the arguments, and the last of n is all that follows.
LEMMA ArgvWords ==
  ASSUME NEW str \in Str, NEW n \in Nat \ {0}, NEW more \in Nat,
         \A q \in WordStarts(str) : Rank(str, q) < n => Regular(str, Quotes, q)
  PROVE  LET m == MakeMaxArgv(str, n, more)
             N == Cardinality(WordStarts(str))
         IN  /\ m.argc = IF N <= n THEN N ELSE n
             /\ DOMAIN m.argv = 1..m.argc
             /\ m.argv = [k \in 1..m.argc |-> m.argv[k]]
             /\ \A p \in WordStarts(str) : Rank(str, p) < n =>
                  m.argv[Rank(str, p)] = Taken(str, Quotes, p)
             /\ \A p \in WordStarts(str) : Rank(str, p) = n =>
                  m.argv[n] = SubSeq(str, p, Len(str))
<1> DEFINE upTo == SingleWords(n)
           argc == Argc(str, n)
           loop == Loop(str, Quotes, upTo)
           argv == loop.argv
           rest == SubSeq(str, NextWord(str, loop.at), Len(str))
           m == MakeMaxArgv(str, n, more)
           W == WordStarts(str)
           N == Cardinality(W)
<1>1. /\ N \in Nat /\ upTo = n - 1
      /\ argc = IF N <= n THEN N ELSE n
  BY ArgcFacts
<1> HIDE DEF upTo, argc
<1>2. n - 1 \in Nat /\ upTo \in Nat /\ upTo < n
  BY <1>1
<1>3. \A q \in W : Rank(str, q) \in Nat
  BY <1>1, RankFacts
<1>4. \A q \in W : Rank(str, q) <= upTo => Regular(str, Quotes, q)
  BY <1>1, <1>2, <1>3
<1>5. /\ loop.at \in 1..(Len(str) + 1) /\ loop.argv \in Seq(Str)
      /\ loop.at <= Len(str) /\ str[loop.at] # Blank => loop.at \in W
      /\ Len(loop.argv) = N \/ (Len(loop.argv) = upTo /\ upTo < N)
      /\ \A p \in W : p < loop.at <=> Rank(str, p) <= Len(loop.argv)
      /\ \A p \in W :
           Rank(str, p) <= Len(loop.argv) => loop.argv[Rank(str, p)] = Taken(str, Quotes, p)
  BY <1>2, <1>4, LoopWords
<1>6. Len(loop.argv) <= upTo
  BY <1>2, LoopFacts
<1> HIDE DEF loop
<1>7. Len(str) \in Nat /\ ~(loop.at > Len(str) + 1) /\ DOMAIN argv = 1..Len(argv)
      /\ Len(argv) \in Nat /\ loop.at \in Nat
  BY <1>5 DEF Str
<1>8. /\ m.argc = argc
      /\ m.argv = IF argc < n THEN argv
                  ELSE [k \in DOMAIN argv \cup {n} |-> IF k = n THEN rest ELSE argv[k]]
  BY <1>7 DEF MakeMaxArgv, upTo, argc, loop
<1> HIDE DEF argv, rest, m
<1>9. m.argc = IF N <= n THEN N ELSE n
  BY <1>1, <1>8
<1>10. CASE N < n
  <2>1. m.argv = argv
    BY <1>1, <1>8, <1>10
  <2>2. Len(argv) = N /\ DOMAIN m.argv = 1..N
    BY <1>1, <1>2, <1>5, <1>6, <1>7, <1>10, <2>1 DEF argv
  <2>3. \A p \in W : Rank(str, p) \in 1..N
    BY RankFacts
  <2>4. \A p \in W : m.argv[Rank(str, p)] = Taken(str, Quotes, p)
    BY <1>1, <1>5, <1>7, <2>1, <2>2, <2>3 DEF argv
  <2>5. \A p \in W : Rank(str, p) # n
    BY <1>1, <1>10, <2>3
  <2>6. m.argc = N
    BY <1>1, <1>9, <1>10
  <2>7. m.argv = [k \in 1..m.argc |-> m.argv[k]]
    <3>1. argv = [k \in DOMAIN argv |-> argv[k]]
      BY <1>5, LenProperties DEF argv
    <3>2. QED BY <2>1, <2>2, <2>6, <3>1
  <2>8. QED BY <1>9, <2>2, <2>4, <2>5, <2>6, <2>7 DEF m
<1>11. CASE ~(N < n)
  <2>1. m.argv = [k \in DOMAIN argv \cup {n} |-> IF k = n THEN rest ELSE argv[k]]
    BY <1>1, <1>8, <1>11
  <2>2. Len(argv) = n - 1 /\ DOMAIN argv = 1..(n - 1)
    BY <1>1, <1>2, <1>5, <1>6, <1>7, <1>11 DEF argv
  <2>3. /\ DOMAIN m.argv = 1..n
        /\ m.argv[n] = rest
        /\ \A k \in 1..(n - 1) : m.argv[k] = argv[k]
    BY <1>2, <2>1, <2>2
  <2>4. ASSUME NEW p \in W, Rank(str, p) < n
        PROVE  m.argv[Rank(str, p)] = Taken(str, Quotes, p)
    <3>1. Rank(str, p) \in 1..N
      BY RankFacts
    <3>2. Rank(str, p) \in 1..(n - 1)
      BY <1>1, <2>4, <3>1
    <3>3. QED BY <1>5, <2>2, <2>3, <3>2 DEF argv
  <2>5. ASSUME NEW p \in W, Rank(str, p) = n
        PROVE  m.argv[n] = SubSeq(str, p, Len(str))
    <3>1. p \in Nat /\ W \subseteq Nat
      BY StartsFinite
    <3>2. loop.at <= p
      BY <1>5, <1>7, <2>2, <2>5, <3>1 DEF argv
    <3>3. ASSUME NEW r \in W, r < p PROVE r < loop.at
      <4>1. Rank(str, r) < n
        BY <2>5, <3>3, RankOrder
      <4>2. Rank(str, r) <= n - 1
        BY <1>3, <4>1
      <4>3. QED BY <1>5, <2>2, <4>2 DEF argv
    <3>4. NextWord(str, loop.at) = p
      BY <1>5, <3>2, <3>3, NextStart
    <3>5. QED BY <2>3, <3>4 DEF rest
  <2>6. m.argc = n
    BY <1>1, <1>9, <1>11
  <2>7. m.argv = [k \in 1..m.argc |-> m.argv[k]]
    BY <2>1, <2>3, <2>6
  <2>8. QED BY <1>9, <2>3, <2>4, <2>5, <2>6, <2>7 DEF m
<1>12. QED BY <1>10, <1>11

\* Two texts with the same characters are the same.
LEMMA SameText ==
  ASSUME NEW s \in Str, NEW t \in Str, Len(s) = Len(t), \A i \in 1..Len(s) : s[i] = t[i]
  PROVE  s = t
BY SeqEqual DEF Str

\* A part of a text, character by character.
LEMMA PartFacts ==
  ASSUME NEW str \in Str, NEW p \in 1..(Len(str) + 1), NEW q \in (p - 1)..Len(str)
  PROVE  /\ SubSeq(str, p, q) \in Str
         /\ Len(SubSeq(str, p, q)) = q - p + 1
         /\ \A i \in 1..(q - p + 1) : SubSeq(str, p, q)[i] = str[p + i - 1]
<1>1. Len(str) \in Nat /\ p \in Int /\ q \in Int
  BY DEF Str
<1>2. \A i \in p..q : str[i] \in Char
  BY <1>1, ElementOfSeq DEF Str
<1>3. /\ SubSeq(str, p, q) \in Seq(Char)
      /\ Len(SubSeq(str, p, q)) = IF p <= q THEN q - p + 1 ELSE 0
      /\ \A i \in 1..(q - p + 1) : SubSeq(str, p, q)[i] = str[p + i - 1]
  BY <1>1, <1>2, SubSeqProperties
<1>4. Len(SubSeq(str, p, q)) = q - p + 1
  BY <1>1, <1>3
<1>5. QED BY <1>3, <1>4 DEF Str

\* Quotes around words are taken off by the loop.
LEMMA QuotedWord ==
  ASSUME NEW str \in Str, QuotesAroundWords(str), NEW q \in WordStarts(str)
  PROVE  /\ Regular(str, Quotes, q)
         /\ Unquoted(WordFrom(str, q)) = Taken(str, Quotes, q)
<1> DEFINE size == Span(str, q, {Blank})
           last == q + size - 1
           word == WordFrom(str, q)
<1>1. /\ q \in 1..Len(str) /\ q + size \in (q + 1)..(Len(str) + 1)
      /\ word \in Str /\ Len(word) = size
      /\ \A i \in 1..size : word[i] = str[q + i - 1]
  BY WordFacts
<1>2. Len(str) \in Nat /\ size \in Nat
  BY <1>1, LenProperties DEF Str
<1>3. ASSUME Quoted(str, Quotes, q)
      PROVE  /\ q < last /\ str[last] = str[q]
             /\ \A r \in (q + 1)..(last - 1) : str[r] # str[q]
  <2>1. str[q] \in Quotes /\ q \in DOMAIN str
    BY <1>1, <1>3 DEF Quoted, Str
  <2>2. PICK p \in WordStarts(str) :
          LET end == p + Span(str, p, {Blank}) - 1
          IN  /\ q \in {p, end} /\ p < end
              /\ str[p] = str[end]
              /\ \A r \in (p + 1)..(end - 1) : str[r] \notin Quotes
    BY <2>1 DEF QuotesAroundWords
  <2> DEFINE length == Span(str, p, {Blank})
             end == p + length - 1
  <2>3. /\ q \in {p, end} /\ p < end /\ str[p] = str[end]
        /\ \A r \in (p + 1)..(end - 1) : str[r] \notin Quotes
    BY <2>2
  <2>4. /\ p \in 1..Len(str) /\ p + length \in (p + 1)..(Len(str) + 1)
        /\ \A r \in p..(p + length - 1) : str[r] # Blank
        /\ WordFrom(str, p) \in Str /\ Len(WordFrom(str, p)) = length
    <3>1. /\ p \in 1..Len(str) /\ p + length \in (p + 1)..(Len(str) + 1)
          /\ \A r \in p..((p + length) - 1) : str[r] # Blank
          /\ WordFrom(str, p) \in Str /\ Len(WordFrom(str, p)) = length
      BY WordFacts
    <3>2. length \in Nat
      BY <3>1, LenProperties DEF Str
    <3> HIDE DEF length
    <3>3. p + length - 1 = (p + length) - 1
      BY <3>1, <3>2
    <3>4. QED BY <3>1, <3>3
  <2>5. length \in Nat
    BY <2>4, LenProperties DEF Str
  <2>6. q = p
    <3> SUFFICES ASSUME q # p PROVE FALSE
      OBVIOUS
    <3> HIDE DEF length
    <3>1. q = end /\ q - 1 \in p..(p + length - 1)
      BY <1>1, <1>2, <2>3, <2>4, <2>5
    <3>2. str[q - 1] # Blank
      BY <2>4, <3>1
    <3>3. q # 1
      BY <1>1, <2>3, <2>4, <2>5, <3>1
    <3>4. QED BY <3>2, <3>3 DEF WordStarts
  <2>7. length = size
    BY <2>6
  <2>8. end = last
    BY <2>6
  <2> HIDE DEF end, last
  <2>9. QED BY <2>1, <2>3, <2>6, <2>8
<1>4. Regular(str, Quotes, q)
  BY <1>3 DEF Regular
<1> HIDE DEF size
<1>5. word[1] = str[q]
  BY <1>1, <1>2
<1> HIDE DEF word
<1>6. CASE ~Quoted(str, Quotes, q)
  BY <1>4, <1>5, <1>6 DEF Quoted, Unquoted, Taken, word
<1>7. CASE Quoted(str, Quotes, q)
  <2> DEFINE front == SubSeq(word, 1, size - 1)
             to == q + size - 2
             part == SubSeq(str, q + 1, to)
  <2>1. size \in Nat /\ 2 <= size /\ q + size <= Len(str) + 1
    BY <1>1, <1>2, <1>3, <1>7
  <2>2. /\ 1 \in 1..(Len(word) + 1) /\ size - 1 \in (1 - 1)..Len(word)
        /\ size - 1 - 1 + 1 = size - 1
    BY <1>1, <2>1
  <2>3. /\ front \in Str /\ Len(front) = size - 1
        /\ \A i \in 1..(size - 1) : front[i] = word[1 + i - 1]
    <3>1. /\ front \in Str /\ Len(front) = size - 1 - 1 + 1
          /\ \A i \in 1..(size - 1 - 1 + 1) : front[i] = word[1 + i - 1]
      BY <1>1, <2>2, PartFacts
    <3> HIDE DEF front
    <3>2. QED BY <2>2, <3>1
  <2>4. front = Front(word)
    BY <1>1 DEF Front
  <2> HIDE DEF front
  <2>5. front # <<>> /\ front \in Seq(Char)
    BY <2>1, <2>3 DEF Str
  <2>6. /\ Tail(front) \in Seq(Char) /\ Len(Tail(front)) = size - 2
        /\ \A i \in 1..(size - 2) : Tail(front)[i] = front[i + 1]
    <3>1. /\ Tail(front) \in Seq(Char) /\ Len(Tail(front)) = Len(front) - 1
          /\ \A i \in 1..Len(Tail(front)) : Tail(front)[i] = front[i + 1]
      BY <2>5, HeadTailProperties
    <3>2. Len(Tail(front)) = size - 2
      BY <2>1, <2>3, <3>1
    <3>3. QED BY <3>1, <3>2
  <2>7. /\ part \in Str /\ Len(part) = size - 2
        /\ \A i \in 1..(size - 2) : part[i] = str[q + 1 + i - 1]
    <3> DEFINE from == q + 1
    <3>1. /\ from \in 1..(Len(str) + 1) /\ to \in (from - 1)..Len(str)
          /\ to - from + 1 = size - 2
      BY <1>1, <1>2, <2>1
    <3> HIDE DEF from, to
    <3>2. /\ SubSeq(str, from, to) \in Str /\ Len(SubSeq(str, from, to)) = to - from + 1
          /\ \A i \in 1..(to - from + 1) : SubSeq(str, from, to)[i] = str[from + i - 1]
      BY <3>1, PartFacts
    <3> USE DEF from
    <3>3. QED BY <3>1, <3>2
  <2> HIDE DEF part
  <2>8. ASSUME NEW i \in 1..(size - 2) PROVE Tail(front)[i] = part[i]
    <3>1. Tail(front)[i] = front[i + 1] /\ part[i] = str[q + 1 + i - 1]
      BY <2>6, <2>7
    <3>2. i + 1 \in 1..(size - 1) /\ 1 + (i + 1) - 1 = i + 1 /\ i + 1 \in 1..size
      BY <2>1
    <3>3. front[i + 1] = word[i + 1]
      BY <2>3, <3>2
    <3>4. word[i + 1] = str[q + (i + 1) - 1]
      BY <1>1, <3>2
    <3>5. q + (i + 1) - 1 = q + 1 + i - 1
      BY <1>1
    <3>6. QED BY <3>1, <3>3, <3>4, <3>5
  <2>9. Tail(front) = part
    BY <2>6, <2>7, <2>8, SameText DEF Str
  <2>10. Taken(str, Quotes, q) = part
    BY <1>7 DEF Taken, size, part
  <2>11. Unquoted(word) = Tail(front)
    BY <1>5, <1>7, <2>4 DEF Unquoted, Quoted
  <2>12. QED BY <1>4, <2>9, <2>10, <2>11 DEF word
<1>8. QED BY <1>6, <1>7

\* The arguments of a command, as ArgvSplits has them.
LEMMA CommandArguments ==
  ASSUME NEW str \in Str, NEW n \in Nat \ {0}, NEW more \in Nat, QuotesAroundWords(str)
  PROVE  LET m == MakeMaxArgv(str, n, more)
             starts == StartsInOrder(str)
         IN  /\ m.is = "argv"
             /\ m.argc = Min({Len(starts), n})
             /\ m.argv = [k \in 1..m.argc |->
                           IF k = n THEN SubSeq(str, starts[k], Len(str))
                           ELSE Unquoted(WordFrom(str, starts[k]))]
<1> DEFINE m == MakeMaxArgv(str, n, more)
           starts == StartsInOrder(str)
           W == WordStarts(str)
           N == Cardinality(W)
<1>1. N \in Nat
  BY StartsFinite
<1>2. \A q \in W : Regular(str, Quotes, q) /\ Unquoted(WordFrom(str, q)) = Taken(str, Quotes, q)
  BY QuotedWord
<1>3. /\ m.argc = IF N <= n THEN N ELSE n
      /\ DOMAIN m.argv = 1..m.argc
      /\ m.argv = [k \in 1..m.argc |-> m.argv[k]]
      /\ \A p \in W : Rank(str, p) < n => m.argv[Rank(str, p)] = Taken(str, Quotes, p)
      /\ \A p \in W : Rank(str, p) = n => m.argv[n] = SubSeq(str, p, Len(str))
  BY <1>2, ArgvWords, ZenonT(60)
<1>3a. m.is = "argv"
  BY <1>3, ArgvType
<1>4. /\ Len(starts) = N
      /\ \A k \in 1..N : starts[k] \in W /\ Rank(str, starts[k]) = k
  BY StartsFacts
<1>5. m.argc = Min({Len(starts), n})
  BY <1>1, <1>3, <1>4, MinOfTwo
<1> HIDE DEF starts
<1>6. ASSUME NEW k \in 1..m.argc
      PROVE  m.argv[k] = IF k = n THEN SubSeq(str, starts[k], Len(str))
                         ELSE Unquoted(WordFrom(str, starts[k]))
  <2>1. k \in 1..N /\ k <= n /\ k \in Nat
    BY <1>1, <1>3
  <2>2. starts[k] \in W /\ Rank(str, starts[k]) = k
    BY <1>4, <2>1
  <2>3. CASE k = n
    BY <1>3, <2>2, <2>3
  <2>4. CASE k # n
    <3>1. Rank(str, starts[k]) < n
      BY <2>1, <2>2, <2>4
    <3>2. m.argv[k] = Taken(str, Quotes, starts[k])
      BY <1>3, <2>2, <3>1
    <3>3. QED BY <1>2, <2>2, <2>4, <3>2
  <2>5. QED BY <2>3, <2>4
<1> HIDE DEF m
<1>7. QED BY <1>3, <1>3a, <1>5, <1>6 DEF m, starts

-----------------------------------------------------------------------------
(* Search, and replacement.                                                *)

\* The recursion of FoundAfter.
LEMMA FoundFacts ==
  ASSUME NEW haystack, NEW needle \in Str
  PROVE  LET f == FoundAfter(haystack, needle)
         IN  /\ f[0] = 0
             /\ \A p \in Nat : f[p] \in 0..Len(needle)
             /\ \A p \in Nat \ {0} :
                  f[p] = IF f[p - 1] = Len(needle) THEN Len(needle)
                         ELSE Progress(needle, f[p - 1], haystack[p])
<1> DEFINE V == 0..Len(needle)
           next(v, p) == IF v = Len(needle) THEN v ELSE Progress(needle, v, haystack[p])
           step == [p \in Nat |-> [v \in V |-> next(v, p)]]
           body(f) == [p \in Nat |->
                        LET before == IF p = 0 THEN 0 ELSE f[p - 1]
                        IN IF p = 0 \/ before = Len(needle) THEN before
                           ELSE Progress(needle, before, haystack[p])]
           found == FoundAfter(haystack, needle)
<1>1. Len(needle) \in Nat /\ 0 \in V
  BY DEF Str
<1>2. \A v \in V, p \in Nat : next(v, p) \in V
  BY <1>1 DEF Progress
<1>3. step \in [Nat -> [V -> V]]
  <2> HIDE DEF V, next
  <2>1. QED BY <1>2
<1>4. \E f : f = body(f)
  <2>1. PICK f : SolvesAll(f, V, 0, step)
    <3> HIDE DEF step, V
    <3>1. QED BY <1>1, <1>3, RecursionAll, Zenon
  <2> HIDE DEF V
  <2>2. ASSUME NEW p \in Nat
        PROVE  f[p] = LET before == IF p = 0 THEN 0 ELSE f[p - 1]
                      IN IF p = 0 \/ before = Len(needle) THEN before
                         ELSE Progress(needle, before, haystack[p])
    <3>1. CASE p = 0
      BY <2>1, <3>1 DEF SolvesAll
    <3>2. CASE p # 0
      <4>1. p - 1 \in Nat /\ (p - 1) + 1 = p
        BY <3>2
      <4>2. f[p] = step[p][f[p - 1]] /\ f[p - 1] \in V
        BY <2>1, <4>1 DEF SolvesAll
      <4>3. step[p][f[p - 1]] = next(f[p - 1], p)
        BY <4>2
      <4>4. QED BY <3>2, <4>2, <4>3
    <3>3. QED BY <3>1, <3>2
  <2>3. f \in [Nat -> V]
    BY <2>1 DEF SolvesAll
  <2>4. f = body(f)
    BY <2>2, <2>3
  <2>5. QED BY <2>4
<1>5. found = CHOOSE f : f = body(f)
  BY DEF FoundAfter
<1>6. found = body(found)
  <2> HIDE DEF body, found
  <2>1. QED BY <1>4, <1>5
<1> HIDE DEF found
<1>7. found[0] = 0
  BY <1>6
<1>8. ASSUME NEW p \in Nat \ {0} PROVE found[p] = next(found[p - 1], p)
  BY <1>6
<1>9. ASSUME NEW n \in Nat PROVE found[n] \in V
  <2> DEFINE T == {k \in 0..n : found[k] \in V}
  <2>1. 0 \in T
    BY <1>1, <1>7
  <2>2. ASSUME NEW k \in 1..n, k - 1 \in T PROVE k \in T
    <3>1. k \in Nat \ {0}
      OBVIOUS
    <3>2. found[k] = next(found[k - 1], k) /\ found[k - 1] \in V
      BY <1>8, <2>2, <3>1
    <3> HIDE DEF V, next
    <3>3. QED BY <1>2, <3>1, <3>2
  <2>3. 0..n \subseteq T
    <3> HIDE DEF T
    <3>1. QED BY <2>1, <2>2, Induction
  <2>4. QED BY <2>3, n \in 0..n
<1>10. QED BY <1>7, <1>8, <1>9 DEF found

\* A place in front of which nothing of the needle can be found.
Delimited(haystack, needle, p) ==
  p = 1 \/ Lc(haystack[p - 1]) \notin {Lc(c) : c \in Range(needle)}

\* strstr_nc finds the needle only where it is, and finds it if it is at a place that
\* is delimited.
LEMMA NeedleFound ==
  ASSUME NEW haystack \in Str, NEW needle \in Str, needle # <<>>
  PROVE  LET at == StrstrNc(haystack, needle)
         IN  /\ at \in 0..Len(haystack)
             /\ at # 0 => OccursAt(haystack, needle, at)
             /\ (\E p \in DOMAIN haystack :
                   OccursAt(haystack, needle, p) /\ Delimited(haystack, needle, p)) => at # 0
<1> DEFINE N == Len(haystack)
           L == Len(needle)
           f == FoundAfter(haystack, needle)
           ends == {p \in DOMAIN haystack : f[p] = L}
           m == Min(ends)
           at == StrstrNc(haystack, needle)
<1>1. /\ N \in Nat /\ L \in Nat \ {0} /\ DOMAIN haystack = 1..N /\ DOMAIN needle = 1..L
  BY EmptySeq, LenProperties DEF Str
<1>2. /\ f[0] = 0
      /\ \A p \in Nat : f[p] \in 0..L
      /\ \A p \in Nat \ {0} :
           f[p] = IF f[p - 1] = L THEN L ELSE Progress(needle, f[p - 1], haystack[p])
  BY FoundFacts
<1>3. at = IF ends = {} THEN 0 ELSE m - (L - 1)
  BY DEF StrstrNc
<1>0. L = Len(needle) /\ N = Len(haystack)
  OBVIOUS
<1> HIDE DEF f, at, N, L
<1>4. CASE ends # {}
  <2>1. m \in ends /\ \A p \in ends : m <= p
    <3>1. ends \subseteq Nat
      BY <1>1
    <3> HIDE DEF ends
    <3>2. QED BY <1>4, <3>1, MinFacts
  <2>2. m \in 1..N /\ f[m] = L
    BY <1>1, <2>1
  <2> DEFINE Suffix(p) == \A k \in 1..f[p] : Lc(haystack[p - f[p] + k]) = Lc(needle[k])
             T == {p \in 0..m : f[p] <= p /\ Suffix(p)}
  <2>3. \A p \in 0..(m - 1) : f[p] # L
    <3>1. ASSUME NEW p \in 1..(m - 1) PROVE f[p] # L
      <4>1. p \in DOMAIN haystack /\ ~(m <= p)
        <5> HIDE DEF m
        <5>1. QED BY <1>1, <2>2
      <4>2. p \notin ends
        <5> HIDE DEF m, ends
        <5>1. QED BY <2>1, <4>1
      <4>3. QED BY <4>1, <4>2
    <3> HIDE DEF m, ends
    <3>2. QED BY <1>1, <1>2, <2>2, <3>1
  <2> HIDE DEF m, ends
  <2>4. 0 \in T
    BY <1>2, <2>2
  <2>5. ASSUME NEW p \in 1..m, p - 1 \in T PROVE p \in T
    <3> DEFINE v == f[p - 1]
    <3>1. p \in Nat \ {0} /\ p - 1 \in 0..(m - 1) /\ p - 1 \in Nat
      BY <2>2
    <3>2. v \in 0..L /\ v # L /\ f[p] = Progress(needle, v, haystack[p])
      BY <1>2, <2>3, <3>1
    <3>3. v <= p - 1 /\ \A k \in 1..v : Lc(haystack[p - 1 - v + k]) = Lc(needle[k])
      <4>1. v <= p - 1 /\ \A k \in 1..v : Lc(haystack[(p - 1) - v + k]) = Lc(needle[k])
        BY <2>5
      <4> HIDE DEF v
      <4>2. p - 1 - v = (p - 1) - v
        BY <3>1, <3>2
      <4>3. QED BY <4>1, <4>2
    <3> HIDE DEF v
    <3>4. CASE Lc(needle[v + 1]) = Lc(haystack[p])
      <4>1. f[p] = v + 1
        BY <3>2, <3>4 DEF Progress
      <4>2. ASSUME NEW k \in 1..(v + 1)
            PROVE  Lc(haystack[p - (v + 1) + k]) = Lc(needle[k])
        <5>0. p \in Nat /\ v \in Nat
          BY <1>1, <3>1, <3>2
        <5>1. CASE k = v + 1
          <6>1. p - (v + 1) + k = p
            BY <5>0, <5>1
          <6>2. QED BY <3>4, <5>1, <6>1
        <5>2. CASE k # v + 1
          <6>1. k \in 1..v /\ p - (v + 1) + k = p - 1 - v + k
            BY <5>0, <5>2
          <6>2. QED BY <3>3, <6>1
        <5>3. QED BY <5>1, <5>2
      <4>3. v + 1 <= p
        BY <1>1, <3>1, <3>2, <3>3
      <4>4. Suffix(p)
        BY <4>1, <4>2
      <4> HIDE DEF Suffix
      <4>5. QED BY <2>2, <4>1, <4>3, <4>4
    <3>5. CASE Lc(needle[v + 1]) # Lc(haystack[p])
      <4>1. f[p] = 0
        BY <3>2, <3>5 DEF Progress
      <4>2. QED BY <2>2, <4>1
    <3>6. QED BY <3>4, <3>5
  <2>6. 0..m \subseteq T
    <3>1. m \in Nat
      BY <2>2
    <3> HIDE DEF T
    <3>2. QED BY <2>4, <2>5, <3>1, Induction
  <2>7. L <= m /\ \A k \in 1..L : Lc(haystack[m - L + k]) = Lc(needle[k])
    <3>1. m \in 0..m
      BY <2>2
    <3>2. m \in T
      BY <2>6, <3>1
    <3>3. QED BY <2>2, <3>2
  <2>8. at = m - (L - 1)
    BY <1>3, <1>4 DEF m, ends
  <2>9. at \in 1..N /\ at + L - 1 <= N
    BY <1>1, <2>2, <2>7, <2>8
  <2>10. ASSUME NEW k \in DOMAIN needle PROVE Lc(haystack[at + k - 1]) = Lc(needle[k])
    <3>1. k \in 1..L /\ at + k - 1 = m - L + k
      BY <1>1, <2>2, <2>8
    <3>2. QED BY <2>7, <3>1
  <2>11. OccursAt(haystack, needle, at)
    BY <1>0, <2>9, <2>10 DEF OccursAt
  <2>12. at # 0 /\ at \in 0..N
    BY <2>9
  <2>13. QED BY <1>0, <2>11, <2>12 DEF at
<1>5. CASE ends = {}
  <2>1. at = 0 /\ at \in 0..N
    BY <1>1, <1>3, <1>5
  <2>2. ASSUME NEW p \in DOMAIN haystack, OccursAt(haystack, needle, p),
               Delimited(haystack, needle, p)
        PROVE  FALSE
    <3>1. p \in 1..N /\ p + L - 1 <= N
      BY <1>1, <2>2 DEF OccursAt
    <3>2. \A k \in 1..L : Lc(haystack[p + k - 1]) = Lc(needle[k])
      BY <1>1, <2>2 DEF OccursAt
    <3>3. \A q \in 0..N : f[q] # L
      BY <1>1, <1>2, <1>5, SMTT(30)
    <3>4. f[p - 1] = 0
      <4>1. CASE p = 1
        BY <1>2, <4>1
      <4>2. CASE p # 1
        <5> DEFINE q == p - 1
                   v == f[q - 1]
        <5>1. q \in Nat \ {0} /\ q - 1 \in 0..N /\ q - 1 \in Nat
          BY <1>1, <3>1, <4>2
        <5>2. v \in 0..L /\ v # L /\ f[q] = Progress(needle, v, haystack[q])
          BY <1>2, <3>3, <5>1
        <5> HIDE DEF v
        <5>3. v + 1 \in DOMAIN needle
          BY <1>1, <5>2
        <5>4. Lc(needle[v + 1]) # Lc(haystack[q])
          BY <2>2, <4>2, <5>3 DEF Delimited, Range
        <5>5. QED BY <5>2, <5>4 DEF Progress
      <4>3. QED BY <4>1, <4>2
    <3> DEFINE T == {j \in 0..L : f[p - 1 + j] = j}
    <3>5. 0 \in T
      BY <1>1, <3>1, <3>4
    <3>6. ASSUME NEW j \in 1..L, j - 1 \in T PROVE j \in T
      <4>1. /\ p - 1 + j \in Nat \ {0} /\ p - 1 + j - 1 \in 0..N
            /\ (p - 1 + j) - 1 = p - 1 + (j - 1) /\ p - 1 + j = p + j - 1
            /\ (j - 1) + 1 = j /\ j - 1 # L
        BY <1>1, <3>1
      <4>2. f[p - 1 + (j - 1)] = j - 1
        BY <3>6
      <4>3. f[p - 1 + j] = Progress(needle, j - 1, haystack[p - 1 + j])
        BY <1>2, <4>1, <4>2
      <4>4. Lc(needle[(j - 1) + 1]) = Lc(haystack[p - 1 + j])
        BY <3>2, <4>1
      <4>5. QED BY <4>1, <4>3, <4>4 DEF Progress
    <3>7. 0..L \subseteq T
      <4>1. L \in Nat
        BY <1>1
      <4> HIDE DEF T, L
      <4>2. QED BY <3>5, <3>6, <4>1, Induction
    <3>8. f[p - 1 + L] = L
      <4>1. L \in 0..L
        BY <1>1
      <4>2. QED BY <3>7, <4>1
    <3>9. p - 1 + L \in 0..N
      BY <1>1, <3>1
    <3>10. QED BY <3>3, <3>8, <3>9
  <2>3. QED BY <2>1, <2>2 DEF at
<1>6. QED BY <1>4, <1>5

-----------------------------------------------------------------------------
(* Aliases.                                                                *)

\* What is behind the first character.
LEMMA TailFacts ==
  ASSUME NEW str \in Str, str # <<>>
  PROVE  /\ Tail(str) \in Str
         /\ Len(str) \in Nat \ {0}
         /\ Len(Tail(str)) = Len(str) - 1
         /\ \A i \in 1..(Len(str) - 1) : Tail(str)[i] = str[i + 1]
         /\ Head(str) = str[1]
  BY DEF Str

\* One text behind the other.
LEMMA JoinedText ==
  ASSUME NEW s \in Str, NEW t \in Str
  PROVE  s \o t \in Str /\ Len(s \o t) = Len(s) + Len(t) /\ Len(t) \in Nat
  BY ConcatProperties, LenProperties DEF Str

\* The first word of a line begins behind its first blanks.
LEMMA FirstWord ==
  ASSUME NEW str \in Str, MakeArgv(str) # <<>>
  PROVE  LET p == NextWord(str, 1)
         IN  /\ p \in WordStarts(str)
             /\ MakeArgv(str)[1] = WordFrom(str, p)
<1> DEFINE N == Cardinality(WordStarts(str))
<1>1. N \in Nat /\ Len(str) \in Nat
  BY StartsFinite
<1>2. MakeArgv(str) \in Seq(Str) /\ Len(MakeArgv(str)) = N
  BY MakeArgvFacts
<1>3. N # 0
  <2> HIDE DEF N
  <2>1. QED BY <1>2, EmptySeq
<1>4. 1 \in 1..N
  <2> HIDE DEF N
  <2>1. QED BY <1>1, <1>3
<1>5. PICK p \in WordStarts(str) : Rank(str, p) = 1
  BY <1>4, RankExists
<1>6. MakeArgv(str)[1] = WordFrom(str, p)
  BY <1>5, MakeArgvFacts
<1>7. p \in 1..Len(str) /\ 1 \in 1..(Len(str) + 1)
  BY <1>1, StartsFinite
<1>8. ASSUME NEW r \in WordStarts(str), r < p PROVE r < 1
  <2>1. Rank(str, r) \in 1..N
    BY RankFacts
  <2>2. Rank(str, r) < 1
    BY <1>5, <1>8, RankOrder
  <2> HIDE DEF N
  <2>3. QED BY <1>1, <2>1, <2>2
<1>9. 1 <= Len(str) /\ str[1] # Blank => 1 \in WordStarts(str)
  <2>1. DOMAIN str = 1..Len(str)
    BY LenProperties DEF Str
  <2>2. QED BY <1>1, <2>1 DEF WordStarts
<1>10. NextWord(str, 1) = p
  BY <1>7, <1>8, <1>9, NextStart
<1>11. QED BY <1>6, <1>10

\* The command character in front moves the first word by one place.
LEMMA WordBehind ==
  ASSUME NEW line \in Str, line # <<>>, MakeArgv(Tail(line)) # <<>>
  PROVE  LET at   == NextWord(line, 2)
             name == MakeArgv(Tail(line))[1]
         IN  /\ at \in 2..Len(line)
             /\ \A q \in 2..(at - 1) : line[q] = Blank
             /\ line[at] # Blank
             /\ name \in Str /\ Len(name) \in Nat \ {0}
             /\ at + Len(name) - 1 <= Len(line)
             /\ \A i \in 1..Len(name) : name[i] = line[at + i - 1]
<1> DEFINE t == Tail(line)
           p == NextWord(t, 1)
           at == NextWord(line, 2)
           size == Span(t, p, {Blank})
           name == WordFrom(t, p)
<1>1. /\ t \in Str /\ Len(line) \in Nat \ {0} /\ Len(t) = Len(line) - 1
      /\ \A i \in 1..(Len(line) - 1) : t[i] = line[i + 1]
  BY TailFacts
<1>2. p \in WordStarts(t) /\ MakeArgv(t)[1] = name
  BY <1>1, FirstWord
<1>3. p \in 1..Len(t) /\ (p + size) \in (p + 1)..(Len(t) + 1)
  BY <1>1, <1>2, WordFacts
<1>4. name \in Str /\ Len(name) = size /\ \A i \in 1..size : name[i] = t[p + i - 1]
  BY <1>1, <1>2, WordFacts
<1>5. size \in Nat
  <2>1. p \in 1..(Len(t) + 1)
    BY <1>1, <1>3
  <2>2. size \in 0..(Len(t) + 1 - p)
    <3> HIDE DEF t, p
    <3>1. QED BY <1>1, <2>1, SpanFacts
  <2>3. QED BY <2>2
<1>6. (\A q \in 1..(p - 1) : t[q] = Blank) /\ t[p] # Blank
  <2>1. 1 \in 1..(Len(t) + 1)
    BY <1>1
  <2>2. p <= Len(t)
    BY <1>1, <1>3
  <2>3. QED BY <1>1, <2>1, <2>2, NextWordFacts
<1>7. /\ at \in 2..(Len(line) + 1)
      /\ \A q \in 2..(at - 1) : line[q] = Blank
      /\ at <= Len(line) => line[at] # Blank
  <2>1. 2 \in 1..(Len(line) + 1)
    BY <1>1
  <2>2. QED BY <2>1, NextWordFacts
<1> HIDE DEF t, p, at, size, name
<1>8. at = p + 1
  <2>1. line[p + 1] = t[p]
    BY <1>1, <1>3
  <2>2. ~(p + 1 < at)
    <3>1. SUFFICES ASSUME p + 1 < at PROVE FALSE
      OBVIOUS
    <3>2. p + 1 \in 2..(at - 1)
      BY <1>1, <1>3, <1>7, <3>1
    <3>3. QED BY <1>6, <1>7, <2>1, <3>2
  <2>3. ~(at < p + 1)
    <3>1. SUFFICES ASSUME at < p + 1 PROVE FALSE
      OBVIOUS
    <3>2. at - 1 \in 1..(p - 1) /\ at - 1 \in 1..(Len(line) - 1) /\ (at - 1) + 1 = at
          /\ at <= Len(line)
      BY <1>1, <1>3, <1>7, <3>1
    <3>3. t[at - 1] = line[at]
      BY <1>1, <3>2
    <3>4. QED BY <1>6, <1>7, <3>2, <3>3
  <2>4. QED BY <1>1, <1>3, <1>7, <2>2, <2>3
<1>9. at \in 2..Len(line) /\ size \in Nat \ {0} /\ at + size - 1 <= Len(line)
  BY <1>1, <1>3, <1>5, <1>8
<1>10. ASSUME NEW i \in 1..size PROVE name[i] = line[at + i - 1]
  <2>1. p + i - 1 \in 1..(Len(line) - 1) /\ (p + i - 1) + 1 = at + i - 1
    BY <1>1, <1>3, <1>5, <1>8
  <2>2. QED BY <1>1, <1>4, <2>1
<1>11. line[at] # Blank
  BY <1>1, <1>7, <1>9
<1>12. QED BY <1>2, <1>4, <1>7, <1>9, <1>10, <1>11 DEF t, at

\* string_replace puts the replacement at the first place, and the rest stays.
LEMMA AliasReplaced ==
  ASSUME NEW line \in Str, line # <<>>, NEW name \in Str, name # <<>>,
         NEW replacement \in Str, replacement # <<>>
  PROVE  LET argv == MakeArgv(Tail(line))
             at   == NextWord(line, 2)
             new  == ExpandAlias(line, name, replacement)
         IN  /\ Len(new) <= Len(line) + Len(replacement)
             /\ argv = <<>> \/ argv[1] # name => new = Tail(line)
             /\ argv # <<>> /\ argv[1] = name /\ Head(line) # Head(name) =>
                  new = SubSeq(line, 2, at - 1) \o replacement
                          \o SubSeq(line, at + Len(name), Len(line))
<1> DEFINE argv == MakeArgv(Tail(line))
           at   == NextWord(line, 2)
           new  == ExpandAlias(line, name, replacement)
           L == Len(name)
           N == Len(line)
           places == {p \in 1..N : p + L - 1 <= N /\ SubSeq(line, p, p + L - 1) = name}
           first == Min(places)
<1>1. /\ N \in Nat \ {0} /\ Tail(line) \in Str /\ Len(Tail(line)) = N - 1
      /\ Head(line) = line[1]
  BY TailFacts
<1>2. L \in Nat \ {0} /\ Head(name) = name[1] /\ Len(replacement) \in Nat \ {0}
  BY TailFacts
<1>3. CASE argv = <<>> \/ argv[1] # name
  <2>1. new = Tail(line)
    BY <1>3 DEF ExpandAlias
  <2>2. Len(new) <= N + Len(replacement)
    BY <1>1, <1>2, <2>1
  <2> HIDE DEF new
  <2>3. QED BY <1>3, <2>1, <2>2 DEF new
<1>4. CASE argv # <<>> /\ argv[1] = name
  <2>1. /\ at \in 2..N /\ line[at] # Blank /\ at + L - 1 <= N
        /\ \A q \in 2..(at - 1) : line[q] = Blank
        /\ \A i \in 1..L : name[i] = line[at + i - 1]
    BY <1>4, WordBehind
  <2> HIDE DEF at
  <2>2. at \in places
    <3>1. at \in 1..N /\ at \in 1..(N + 1) /\ at + L - 1 \in (at - 1)..N
      BY <1>1, <1>2, <2>1
    <3>2. at + L - 1 - at + 1 = L
      BY <1>1, <1>2, <2>1
    <3>3. /\ SubSeq(line, at, at + L - 1) \in Str
          /\ Len(SubSeq(line, at, at + L - 1)) = L
          /\ \A i \in 1..L : SubSeq(line, at, at + L - 1)[i] = line[at + i - 1]
      BY <3>1, <3>2, PartFacts
    <3>4. SubSeq(line, at, at + L - 1) = name
      BY <2>1, <3>3, SameText
    <3>5. QED BY <2>1, <3>1, <3>4
  <2>3. first \in places /\ \A p \in places : first <= p
    <3>1. places \subseteq 1..N
      OBVIOUS
    <3> HIDE DEF places, N
    <3>3. places \subseteq Nat /\ places # {}
      BY <2>2, <3>1
    <3>2. QED BY <3>3, MinFacts
  <2> DEFINE before == SubSeq(line, 1, first - 1)
             after  == SubSeq(line, first + L, N)
  <2>4. new = Tail(before \o replacement \o after)
    BY <1>4, <2>2 DEF ExpandAlias, StringReplace, Behind
  <2> HIDE DEF new
  <2>5. first \in 1..N /\ first + L - 1 <= N /\ SubSeq(line, first, first + L - 1) = name
    BY <2>3
  <2> HIDE DEF first, places
  <2>6. before \in Str /\ Len(before) = first - 1
    <3>1. 1 \in 1..(N + 1) /\ first - 1 \in (1 - 1)..N /\ (first - 1) - 1 + 1 = first - 1
      BY <1>1, <2>5
    <3>2. QED BY <3>1, PartFacts
  <2>7. after \in Str /\ Len(after) = N - (first + L) + 1
    <3>1. first + L \in 1..(N + 1) /\ N \in ((first + L) - 1)..N
      BY <1>1, <1>2, <2>5
    <3>2. QED BY <3>1, PartFacts
  <2>8. Len(new) <= N + Len(replacement)
    <3> HIDE DEF before, after
    <3>1. /\ before \o replacement \o after \in Str
          /\ Len(before \o replacement \o after)
               = (first - 1) + Len(replacement) + (N - (first + L) + 1)
      <4>1. /\ before \o replacement \in Str
            /\ Len(before \o replacement) = (first - 1) + Len(replacement)
        BY <2>6, JoinedText
      <4>2. /\ (before \o replacement) \o after \in Str
            /\ Len((before \o replacement) \o after)
                 = Len(before \o replacement) + Len(after)
        BY <2>7, <4>1, JoinedText
      <4>3. QED BY <2>7, <4>1, <4>2
    <3>2. before \o replacement \o after # <<>>
      BY <1>1, <1>2, <2>5, <3>1, EmptySeq
    <3>3. Len(new) = (first - 1) + Len(replacement) + (N - (first + L) + 1) - 1
      <4>1. Len(new) = Len(before \o replacement \o after) - 1
        BY <2>4, <3>1, <3>2, TailFacts
      <4>2. QED BY <1>1, <1>2, <2>5, <3>1, <4>1
    <3>4. QED BY <1>1, <1>2, <2>5, <3>3
  <2>9. ASSUME Head(line) # Head(name)
        PROVE  new = SubSeq(line, 2, at - 1) \o replacement \o SubSeq(line, at + L, N)
    <3>1. first = at
      <4>1. name[1] = line[first]
        <5>1. first \in 1..(N + 1) /\ first + L - 1 \in (first - 1)..N
          BY <1>1, <1>2, <2>5
        <5>2. 1 \in 1..(first + L - 1 - first + 1) /\ first + 1 - 1 = first
          BY <1>1, <1>2, <2>5
        <5>3. SubSeq(line, first, first + L - 1)[1] = line[first + 1 - 1]
          BY <5>1, <5>2, PartFacts
        <5>4. QED BY <2>5, <5>2, <5>3
      <4>2. name[1] = line[at]
        <5>1. 1 \in 1..L /\ at + 1 - 1 = at
          BY <1>2, <2>1
        <5>2. name[1] = line[at + 1 - 1]
          BY <2>1, <5>1
        <5>3. QED BY <5>1, <5>2
      <4>3. first # 1
        BY <1>1, <1>2, <2>9, <4>1
      <4>4. first \notin 2..(at - 1)
        BY <2>1, <4>1, <4>2
      <4>5. first <= at
        BY <2>2, <2>3
      <4>6. QED BY <1>1, <2>1, <2>5, <4>3, <4>4, <4>5
    <3>2. before # <<>> /\ Len(before) \in Nat
      BY <1>1, <2>1, <2>6, <3>1, EmptySeq
    <3>3. Tail(before) = SubSeq(line, 2, at - 1)
      <4>1. /\ Tail(before) \in Str /\ Len(Tail(before)) = at - 2
            /\ \A i \in 1..(at - 2) : Tail(before)[i] = line[i + 1]
        <5>1. /\ 1 \in 1..(N + 1) /\ at - 1 \in (1 - 1)..N /\ (at - 1) - 1 + 1 = at - 1
              /\ (at - 1) - 1 = at - 2
          BY <1>1, <2>1
        <5>2. \A i \in 1..(at - 1) : before[i] = line[1 + i - 1]
          BY <3>1, <5>1, PartFacts
        <5>3. /\ Tail(before) \in Str /\ Len(Tail(before)) = at - 2
              /\ \A i \in 1..(at - 2) : Tail(before)[i] = before[i + 1]
          <6> HIDE DEF before
          <6>1. QED BY <2>6, <3>1, <3>2, <5>1, TailFacts
        <5> HIDE DEF before
        <5>4. ASSUME NEW i \in 1..(at - 2) PROVE Tail(before)[i] = line[i + 1]
          <6>1. i + 1 \in 1..(at - 1) /\ 1 + (i + 1) - 1 = i + 1
            BY <1>1, <2>1
          <6>2. QED BY <5>2, <5>3, <6>1
        <5>5. QED BY <5>3, <5>4
      <4>2. /\ SubSeq(line, 2, at - 1) \in Str /\ Len(SubSeq(line, 2, at - 1)) = at - 2
            /\ \A i \in 1..(at - 2) : SubSeq(line, 2, at - 1)[i] = line[i + 1]
        <5>1. /\ 2 \in 1..(N + 1) /\ at - 1 \in (2 - 1)..N /\ at - 1 - 2 + 1 = at - 2
          BY <1>1, <2>1
        <5>2. \A i \in 1..(at - 2) : 2 + i - 1 = i + 1
          BY <1>1, <2>1
        <5>3. QED BY <5>1, <5>2, PartFacts
      <4> HIDE DEF before
      <4>3. QED BY <4>1, <4>2, SameText
    <3> HIDE DEF before, after
    <3>4. /\ before \o replacement \o after \in Str
          /\ Tail(before) \o replacement \o after \in Str
          /\ Tail(before \o replacement \o after) = Tail(before) \o replacement \o after
      BY <2>6, <2>7, <3>2 DEF Str
    <3>5. after = SubSeq(line, at + L, N)
      BY <3>1 DEF after
    <3>6. QED BY <2>4, <3>3, <3>4, <3>5
  <2>10. QED BY <1>4, <2>8, <2>9 DEF new, at
<1>5. QED BY <1>3, <1>4

-----------------------------------------------------------------------------
(* Completion: the lists.                                                  *)

\* There are finitely many words.
LEMMA NodesFacts ==
  ASSUME NEW F \in Nat, NEW found \in [1..F -> Nat]
  PROVE  /\ IsFiniteSet(Nodes(found))
         /\ \A f \in 1..F : \A k \in 1..found[f] : <<f, k>> \in Nodes(found)
         /\ \A n \in Nodes(found) : /\ n = <<n[1], n[2]>>
                                    /\ n[1] \in 1..F /\ n[2] \in 1..found[n[1]]
<1> DEFINE own(f) == {<<f, k>> : k \in 1..found[f]}
           all == {own(f) : f \in 1..F}
<1>1. Nodes(found) = UNION all
  BY DEF Nodes
<1>2. ASSUME NEW f \in 1..F PROVE IsFiniteSet(own(f))
  <2> DEFINE s == [k \in 1..found[f] |-> <<f, k>>]
  <2>1. found[f] \in Nat
    OBVIOUS
  <2>2. IsFiniteSet(1..found[f])
    BY <2>1, FS_Interval
  <2>3. s \in Surjection(1..found[f], own(f))
    BY DEF Surjection
  <2>4. QED BY <2>2, <2>3, FS_Surjection
<1>3. IsFiniteSet(all)
  <2> DEFINE s == [f \in 1..F |-> own(f)]
  <2>1. IsFiniteSet(1..F)
    BY FS_Interval
  <2>2. s \in Surjection(1..F, all)
    <3> HIDE DEF own
    <3>1. QED BY DEF Surjection
  <2>3. QED BY <2>1, <2>2, FS_Surjection
<1>4. IsFiniteSet(UNION all)
  <2>1. \A T \in all : IsFiniteSet(T)
    BY <1>2
  <2> HIDE DEF all
  <2>2. QED BY <1>3, <2>1, FS_UNION
<1>5. \A f \in 1..F : \A k \in 1..found[f] : <<f, k>> \in Nodes(found)
  BY DEF Nodes
<1>6. ASSUME NEW n \in Nodes(found)
      PROVE  n = <<n[1], n[2]>> /\ n[1] \in 1..F /\ n[2] \in 1..found[n[1]]
  <2>1. PICK f \in 1..F : n \in {<<f, k>> : k \in 1..found[f]}
    BY DEF Nodes
  <2>2. PICK k \in 1..found[f] : n = <<f, k>>
    BY <2>1
  <2>3. QED BY <2>2
<1>7. QED BY <1>1, <1>4, <1>5, <1>6

\* A list whose first node h stands for it: along next, the nodes of s come behind h,
\* and then h again.  Of prev, only the way back to h is in order.
IsChain(l, N, h, s) ==
  /\ l \in Pointers(N) /\ h \in N
  /\ s \in Seq(N \ {h}) /\ IsInjective(s)
  /\ \A i \in 0..Len(s) : l.next[Node(s, h, i)] = Node(s, h, i + 1)
  /\ l.prev[l.next[h]] = h

\* The nodes R are on the list.
Chain(l, N, h, R) == \E s : IsChain(l, N, h, s) /\ Range(s) = R

\* Pushed at the end of a ring.
LEMMA RingPush ==
  ASSUME NEW N, NEW l, NEW h, NEW s, IsRing(l, N, h, s), NEW x \in N, x # h, x \notin Range(s)
  PROVE  /\ IsRing(Push(l, h, x), N, h, Append(s, x))
         /\ \A n \in N \ (Range(s) \cup {h, x}) :
              /\ Push(l, h, x).next[n] = l.next[n]
              /\ Push(l, h, x).prev[n] = l.prev[n]
<1> DEFINE n == Len(s)
           b == l.prev[h]
           t == Append(s, x)
           m == Push(l, h, x)
           at(i) == Node(s, h, i)
<1>1. /\ l \in Pointers(N) /\ h \in N /\ s \in Seq(N \ {h}) /\ IsInjective(s)
      /\ n \in Nat /\ DOMAIN s = 1..n
      /\ \A i \in 0..n : l.next[at(i)] = at(i + 1) /\ l.prev[at(i + 1)] = at(i)
  BY LenProperties DEF IsRing
<1>2. /\ \A i \in Nat : at(i) \in N
      /\ \A i, j \in 0..n : at(i) = at(j) => i = j
      /\ \A i \in 1..n : at(i) = s[i] /\ s[i] # h
      /\ at(0) = h /\ at(n + 1) = h
  BY <1>1, NodeFacts
<1>3. \A i \in 0..(n + 1) : at(i) # x
  <2>1. \A i \in 1..n : s[i] # x
    BY <1>1 DEF Range
  <2>2. QED BY <1>1, <1>2, <2>1
<1>4. n \in 0..n /\ b = at(n) /\ l.next[b] = h /\ b \in N /\ x # b
  <2>1. n \in 0..n /\ n \in 0..(n + 1)
    BY <1>1
  <2>2. b = at(n) /\ l.next[at(n)] = at(n + 1)
    BY <1>1, <1>2, <2>1
  <2>3. QED BY <1>1, <1>2, <1>3, <2>1, <2>2
<1>5. /\ m \in Pointers(N)
      /\ \A k \in N :
           /\ m.next[k] = IF k = b THEN x ELSE IF k = x THEN h ELSE l.next[k]
           /\ m.prev[k] = IF k = h THEN x ELSE IF k = x THEN b ELSE l.prev[k]
  <2>1. l.next[b] # x
    BY <1>4
  <2>2. /\ ListInsert(l, b, x) \in Pointers(N)
        /\ \A k \in N :
             /\ ListInsert(l, b, x).next[k] =
                  IF k = b THEN x ELSE IF k = x THEN l.next[b] ELSE l.next[k]
             /\ ListInsert(l, b, x).prev[k] =
                  IF k = l.next[b] THEN x ELSE IF k = x THEN b ELSE l.prev[k]
    <3>1. l \in Pointers(N) /\ b \in N /\ x # b
      BY <1>1, <1>4
    <3> HIDE DEF b
    <3>2. QED BY <2>1, <3>1, InsertPointers
  <2>3. m = ListInsert(l, b, x)
    BY DEF Push
  <2> HIDE DEF m, b
  <2>4. QED BY <1>4, <2>2, <2>3
<1> HIDE DEF m, b
<1>6. /\ t \in Seq(N \ {h}) /\ IsInjective(t) /\ Len(t) = n + 1 /\ t[n + 1] = x
      /\ \A i \in 1..n : t[i] = s[i]
  <2>1. t \in Seq(N \ {h}) /\ IsInjective(t)
    BY <1>1, AppendFacts
  <2>2. Len(t) = n + 1 /\ t[n + 1] = x /\ \A i \in 1..n : t[i] = s[i]
    BY <1>1, AppendProperties
  <2>3. QED BY <2>1, <2>2
<1> HIDE DEF t
<1>7. /\ \A i \in 0..n : Node(t, h, i) = at(i)
      /\ Node(t, h, n + 1) = x /\ Node(t, h, n + 2) = h
  BY <1>1, <1>6 DEF Node
<1>8. ASSUME NEW i \in 0..(n + 1)
      PROVE  /\ m.next[Node(t, h, i)] = Node(t, h, i + 1)
             /\ m.prev[Node(t, h, i + 1)] = Node(t, h, i)
  <2>1. CASE i < n
    <3>1. i \in 0..n /\ i + 1 \in 0..n /\ i \in Nat /\ i + 1 \in Nat /\ i # n /\ i + 1 # 0
          /\ i + 1 \in 0..(n + 1) /\ i \in 0..(n + 1) /\ 0 \in 0..n
      BY <1>1, <2>1
    <3> HIDE DEF at
    <3>2. /\ at(i) \in N /\ at(i) # b /\ at(i) # x
          /\ at(i + 1) \in N /\ at(i + 1) # h /\ at(i + 1) # x
      BY <1>2, <1>3, <1>4, <3>1
    <3>3. l.next[at(i)] = at(i + 1) /\ l.prev[at(i + 1)] = at(i)
      BY <1>1, <3>1
    <3>4. QED BY <1>5, <1>7, <3>1, <3>2, <3>3
  <2>2. CASE i = n
    <3>1. Node(t, h, i) = b /\ Node(t, h, i + 1) = x
      BY <1>4, <1>7, <2>2
    <3>2. x # h
      OBVIOUS
    <3>3. QED BY <1>4, <1>5, <3>1, <3>2
  <2>3. CASE i = n + 1
    <3>1. Node(t, h, i) = x /\ Node(t, h, i + 1) = h
      <4>1. i + 1 = n + 2
        BY <1>1, <2>3
      <4>2. QED BY <1>7, <2>3, <4>1
    <3>2. QED BY <1>1, <1>4, <1>5, <3>1
  <2>4. i < n \/ i = n \/ i = n + 1
    <3>1. n \in Nat
      BY <1>1
    <3> HIDE DEF n
    <3>2. QED BY <3>1
  <2>5. QED BY <2>1, <2>2, <2>3, <2>4
<1>9. IsRing(m, N, h, t)
  BY <1>1, <1>5, <1>6, <1>8 DEF IsRing
<1>10. ASSUME NEW k \in N \ (Range(s) \cup {h, x})
       PROVE  m.next[k] = l.next[k] /\ m.prev[k] = l.prev[k]
  <2>1. b \in Range(s) \cup {h}
    <3>1. CASE n = 0
      BY <1>2, <1>4, <3>1
    <3>2. CASE n # 0
      <4>1. n \in 1..n
        BY <1>1, <3>2
      <4>2. b = s[n]
        BY <1>2, <1>4, <4>1
      <4>3. QED BY <1>1, <4>1, <4>2 DEF Range
    <3>3. QED BY <3>1, <3>2
  <2>2. k # b /\ k # h /\ k # x
    BY <2>1
  <2>3. QED BY <1>5, <2>2
<1>11. QED BY <1>9, <1>10 DEF m, t

\* The words of a function: a ring of all of them, and nothing else is changed.
LEMMA WordsPushed ==
  ASSUME NEW F \in Nat, NEW found \in [1..F -> Nat], NEW l \in Pointers(Nodes(found)),
         NEW f \in 1..F, found[f] > 0,
         \A n \in Nodes(found) : n[1] = f => l.next[n] = n /\ l.prev[n] = n
  PROVE  LET N == Nodes(found)
             h == <<f, 1>>
             m == WithWords(l, f, found[f])
         IN  \E s : /\ IsRing(m, N, h, s)
                    /\ Range(s) = {<<f, k>> : k \in 2..found[f]}
                    /\ \A n \in N : n[1] # f => m.next[n] = l.next[n] /\ m.prev[n] = l.prev[n]
<1> DEFINE N == Nodes(found)
           h == <<f, 1>>
           M == found[f]
           P == Pointers(N)
           step == [k \in 1..M |-> [v \in P |-> IF k < 2 THEN l ELSE Push(v, h, <<f, k>>)]]
           body(g) == [k \in 0..M |-> IF k < 2 THEN l ELSE Push(g[k - 1], h, <<f, k>>)]
           list == CHOOSE g : g = body(g)
<1>1. M \in Nat \ {0}
  OBVIOUS
<1>2. \A k \in 1..M : <<f, k>> \in N
  BY NodesFacts
<1>3. h \in N
  BY <1>1, <1>2
<1> HIDE DEF N, M
<1>4. ASSUME NEW v \in P, NEW k \in 1..M PROVE Push(v, h, <<f, k>>) \in P
  <2>1. v.prev[h] \in N /\ <<f, k>> \in N
    BY <1>2, <1>3 DEF Pointers
  <2> HIDE DEF h
  <2>2. QED BY <2>1, InsertPointers DEF Push
<1>5. step \in [1..M -> [P -> P]]
  <2> HIDE DEF h, P
  <2>1. l \in P
    BY DEF P, N
  <2>2. QED BY <1>4, <2>1
<1>6. \E g : g = body(g)
  <2>1. PICK g : Solves(g, M, P, l, step)
    <3>1. l \in P /\ M \in Nat
      BY <1>1 DEF N
    <3> HIDE DEF step, P
    <3>2. QED BY <1>5, <3>1, Recursion
  <2>2. g \in [0..M -> P] /\ g[0] = l /\ \A k \in 1..M : g[k] = step[k][g[k - 1]]
    <3> HIDE DEF step, P
    <3>1. QED BY <2>1 DEF Solves
  <2>3. ASSUME NEW k \in 0..M
        PROVE  g[k] = IF k < 2 THEN l ELSE Push(g[k - 1], h, <<f, k>>)
    <3>1. CASE k = 0
      BY <2>2, <3>1
    <3>2. CASE k # 0
      <4>1. k \in 1..M /\ k - 1 \in 0..M
        BY <1>1, <3>2
      <4>2. g[k] = step[k][g[k - 1]] /\ g[k - 1] \in P
        <5> HIDE DEF step, P
        <5>1. QED BY <2>2, <4>1
      <4> HIDE DEF P, h
      <4>3. QED BY <4>1, <4>2
    <3>3. QED BY <3>1, <3>2
  <2>4. g = body(g)
    <3> HIDE DEF P, h
    <3>1. QED BY <2>2, <2>3
  <2>5. QED BY <2>4
<1>7. WithWords(l, f, M) = list[M]
  BY DEF WithWords
<1>8. list = body(list)
  <2> HIDE DEF body, list
  <2>1. QED BY <1>6 DEF list
<1> HIDE DEF list
<1>9. \A k \in 0..M : list[k] = IF k < 2 THEN l ELSE Push(list[k - 1], h, <<f, k>>)
  <2> HIDE DEF h
  <2>1. QED BY <1>8
<1> DEFINE Good(k, s) == /\ IsRing(list[k], N, h, s)
                         /\ Range(s) = {<<f, i>> : i \in 2..k}
                         /\ \A n \in N : n[1] # f =>
                              list[k].next[n] = l.next[n] /\ list[k].prev[n] = l.prev[n]
           T == {k \in 0..M : \E s : Good(k, s)}
<1>10. ASSUME NEW k \in 0..M, k < 2 PROVE Good(k, <<>>)
  <2>1. list[k] = l
    BY <1>9, <1>10
  <2>2. l.next[h] = h /\ l.prev[h] = h
    BY <1>3 DEF N
  <2>3. IsRing(l, N, h, <<>>)
    <3>1. <<>> \in Seq(N \ {h}) /\ IsInjective(<<>>) /\ Len(<<>>) = 0 /\ 0..0 = {0}
      BY DEF IsInjective
    <3>2. Node(<<>>, h, 0) = h /\ Node(<<>>, h, 1) = h
      BY DEF Node
    <3>3. l \in Pointers(N)
      BY DEF N
    <3> HIDE DEF h
    <3>4. ASSUME NEW i \in 0..Len(<<>>)
          PROVE  /\ l.next[Node(<<>>, h, i)] = Node(<<>>, h, i + 1)
                 /\ l.prev[Node(<<>>, h, i + 1)] = Node(<<>>, h, i)
      <4>1. i = 0 /\ i + 1 = 1
        BY <3>1
      <4>2. QED BY <2>2, <3>2, <4>1
    <3>5. QED BY <1>3, <3>1, <3>3, <3>4 DEF IsRing
  <2>4. Range(<<>>) = {<<f, i>> : i \in 2..k}
    BY <1>10 DEF Range
  <2>5. QED BY <2>1, <2>3, <2>4
<1>11. 0 \in T
  <2> HIDE DEF Good
  <2>1. QED BY <1>1, <1>10
<1>12. ASSUME NEW k \in 1..M, k - 1 \in T PROVE k \in T
  <2>1. CASE k < 2
    <3> HIDE DEF Good
    <3>1. QED BY <1>10, <2>1
  <2>2. CASE k >= 2
    <3> DEFINE x == <<f, k>>
               p == list[k - 1]
    <3>1. PICK s : Good(k - 1, s)
      <4> HIDE DEF Good
      <4>1. QED BY <1>12
    <3>2. /\ IsRing(p, N, h, s) /\ Range(s) = {<<f, i>> : i \in 2..(k - 1)}
          /\ \A n \in N : n[1] # f => p.next[n] = l.next[n] /\ p.prev[n] = l.prev[n]
      BY <3>1
    <3>3. x \in N /\ x # h /\ x \notin Range(s)
      BY <1>2, <2>2, <3>2
    <3>4. list[k] = Push(p, h, x)
      <4> HIDE DEF h
      <4>1. QED BY <1>9, <2>2
    <3>5. /\ IsRing(list[k], N, h, Append(s, x))
          /\ \A n \in N \ (Range(s) \cup {h, x}) :
               list[k].next[n] = p.next[n] /\ list[k].prev[n] = p.prev[n]
      <4> HIDE DEF p, h, x
      <4>1. QED BY <3>2, <3>3, <3>4, RingPush
    <3>6. Range(Append(s, x)) = {<<f, i>> : i \in 2..k}
      <4>1. s \in Seq(N \ {h}) /\ x \in N \ {h}
        <5> HIDE DEF h, x
        <5>1. QED BY <3>2, <3>3 DEF IsRing
      <4>2. Range(Append(s, x)) = Range(s) \cup {x}
        <5> HIDE DEF h, x
        <5>1. QED BY <4>1, AppendFacts
      <4>3. 2..k = 2..(k - 1) \cup {k}
        BY <2>2
      <4>4. QED BY <3>2, <4>2, <4>3
    <3>7. ASSUME NEW n \in N, n[1] # f
          PROVE  list[k].next[n] = l.next[n] /\ list[k].prev[n] = l.prev[n]
      <4>1. n \notin Range(s) \cup {h, x}
        BY <3>2, <3>7
      <4>2. QED BY <3>2, <3>5, <3>7, <4>1
    <3>8. Good(k, Append(s, x))
      BY <3>5, <3>6, <3>7
    <3> HIDE DEF Good
    <3>9. QED BY <3>8
  <2> HIDE DEF T
  <2>3. QED BY <2>1, <2>2
<1>13. M \in T
  <2>1. M \in Nat /\ M \in 0..M
    BY <1>1
  <2> HIDE DEF T
  <2>2. 0..M \subseteq T
    BY <1>11, <1>12, <2>1, Induction
  <2>3. QED BY <2>1, <2>2
<1>14. PICK s : Good(M, s)
  <2> HIDE DEF Good
  <2>1. QED BY <1>13
<1>15. QED BY <1>7, <1>14 DEF M, N

\* The pointers after list_join.
LEMMA JoinPointers ==
  ASSUME NEW N, NEW l \in Pointers(N), NEW b \in N, NEW y \in N, y # b
  PROVE  LET m == ListJoin(l, b, y)
         IN  /\ m \in Pointers(N)
             /\ \A n \in N :
                  /\ m.next[n] = IF n = y THEN l.next[b] ELSE IF n = b THEN y ELSE l.next[n]
                  /\ m.prev[n] = IF n = y THEN b ELSE l.prev[n]
<1> DEFINE n1 == [l.next EXCEPT ![b] = y]
           p1 == [l.prev EXCEPT ![y] = b]
           a  == [next |-> n1, prev |-> p1]
           n2 == [n1 EXCEPT ![y] = l.next[b]]
<1>1. /\ l = [next |-> l.next, prev |-> l.prev]
      /\ l.next \in [N -> N] /\ l.prev \in [N -> N]
  BY DEF Pointers
<1>2. [l EXCEPT !.next[b] = y, !.prev[y] = b] = a
  <2>1. [l EXCEPT !.next[b] = y] = [next |-> n1, prev |-> l.prev]
    BY <1>1
  <2>2. [[next |-> n1, prev |-> l.prev] EXCEPT !.prev[y] = b] = a
    OBVIOUS
  <2>3. QED BY <2>1, <2>2
<1>3. [a EXCEPT !.next[y] = l.next[b]] = [next |-> n2, prev |-> p1]
  OBVIOUS
<1>4. ListJoin(l, b, y) = [next |-> n2, prev |-> p1]
  <2> HIDE DEF n1, p1, n2
  <2>1. QED BY <1>2, <1>3 DEF ListJoin
<1>5. n1 \in [N -> N] /\ p1 \in [N -> N] /\ n2 \in [N -> N]
  BY <1>1
<1>6. ASSUME NEW n \in N
      PROVE  /\ n2[n] = IF n = y THEN l.next[b] ELSE IF n = b THEN y ELSE l.next[n]
             /\ p1[n] = IF n = y THEN b ELSE l.prev[n]
  BY <1>1, <1>5
<1> HIDE DEF n1, p1, n2
<1>7. QED BY <1>4, <1>5, <1>6 DEF Pointers

\* A ring is a chain.
LEMMA RingIsChain ==
  ASSUME NEW N, NEW l, NEW h, NEW s, IsRing(l, N, h, s)
  PROVE  IsChain(l, N, h, s)
<1>1. /\ l \in Pointers(N) /\ h \in N /\ s \in Seq(N \ {h}) /\ IsInjective(s)
      /\ \A i \in 0..Len(s) : l.next[Node(s, h, i)] = Node(s, h, i + 1)
                              /\ l.prev[Node(s, h, i + 1)] = Node(s, h, i)
  BY DEF IsRing
<1>2. 0 \in 0..Len(s) /\ Node(s, h, 0) = h
  BY <1>1, NodeFacts
<1>3. l.prev[l.next[h]] = h
  BY <1>1, <1>2
<1>4. QED BY <1>1, <1>3 DEF IsChain

\* Nothing changes for a chain whose nodes keep their pointers.
LEMMA ChainKept ==
  ASSUME NEW N, NEW l, NEW h, NEW s, IsChain(l, N, h, s), NEW m \in Pointers(N),
         \A n \in Range(s) \cup {h} : m.next[n] = l.next[n] /\ m.prev[n] = l.prev[n]
  PROVE  IsChain(m, N, h, s)
<1>1. /\ l \in Pointers(N) /\ h \in N /\ s \in Seq(N \ {h}) /\ IsInjective(s)
      /\ Len(s) \in Nat /\ DOMAIN s = 1..Len(s)
      /\ \A i \in 0..Len(s) : l.next[Node(s, h, i)] = Node(s, h, i + 1)
      /\ l.prev[l.next[h]] = h
  BY LenProperties DEF IsChain
<1>2. \A i \in Nat : Node(s, h, i) \in Range(s) \cup {h}
  BY <1>1 DEF Node, Range
<1>3. Node(s, h, 0) = h /\ 0 \in 0..Len(s) /\ \A i \in 0..Len(s) : i \in Nat /\ i + 1 \in Nat
  BY <1>1, NodeFacts
<1>4. \A i \in 0..Len(s) : m.next[Node(s, h, i)] = Node(s, h, i + 1)
  BY <1>1, <1>2, <1>3
<1>5. m.prev[m.next[h]] = h
  <2>1. l.next[h] = Node(s, h, 0 + 1) /\ 0 + 1 \in Nat
    BY <1>1, <1>3
  <2>2. l.next[h] \in Range(s) \cup {h} /\ m.next[h] = l.next[h]
    BY <1>2, <2>1
  <2>3. QED BY <1>1, <2>2
<1>6. QED BY <1>1, <1>4, <1>5 DEF IsChain

\* list_join puts a node right behind the first one.
LEMMA ChainJoin ==
  ASSUME NEW N, NEW l, NEW h, NEW s, IsChain(l, N, h, s),
         NEW y \in N, y # h, y \notin Range(s)
  PROVE  IsChain(ListJoin(l, h, y), N, h, <<y>> \o s) /\ Range(<<y>> \o s) = Range(s) \cup {y}
<1> DEFINE n == Len(s)
           u == <<y>>
           t == u \o s
           m == ListJoin(l, h, y)
<1>1. /\ l \in Pointers(N) /\ h \in N /\ s \in Seq(N \ {h}) /\ IsInjective(s)
      /\ n \in Nat /\ DOMAIN s = 1..n
      /\ \A i \in 0..n : l.next[Node(s, h, i)] = Node(s, h, i + 1)
      /\ l.prev[l.next[h]] = h
  BY LenProperties DEF IsChain
<1>2. /\ m \in Pointers(N)
      /\ \A k \in N :
           /\ m.next[k] = IF k = y THEN l.next[h] ELSE IF k = h THEN y ELSE l.next[k]
           /\ m.prev[k] = IF k = y THEN h ELSE l.prev[k]
  BY <1>1, JoinPointers
<1>3. /\ u \in Seq(N \ {h}) /\ Len(u) = 1 /\ u[1] = y /\ Range(u) = {y} /\ IsInjective(u)
  BY DEF Range, IsInjective
<1> HIDE DEF u, m
<1>4. /\ t \in Seq(N \ {h}) /\ Len(t) = n + 1
      /\ \A i \in 1..(n + 1) : t[i] = IF i <= 1 THEN u[i] ELSE s[i - 1]
  <2> DEFINE S == N \ {h}
  <2>1. u \in Seq(S) /\ s \in Seq(S)
    BY <1>1, <1>3
  <2> HIDE DEF S
  <2>2. /\ t \in Seq(S) /\ Len(t) = Len(u) + Len(s)
        /\ \A i \in 1..(Len(u) + Len(s)) :
             t[i] = IF i <= Len(u) THEN u[i] ELSE s[i - Len(u)]
    BY <2>1, ConcatProperties
  <2>3. Len(u) = 1 /\ Len(s) = n /\ n \in Nat
    BY <1>1, <1>3
  <2> HIDE DEF t, n
  <2>4. Len(t) = n + 1 /\ \A i \in 1..(n + 1) : t[i] = IF i <= 1 THEN u[i] ELSE s[i - 1]
    BY <2>2, <2>3
  <2>5. QED BY <2>2, <2>4 DEF S
<1>5. Range(t) = Range(s) \cup {y} /\ IsInjective(t)
  <2>1. Range(u) \cap Range(s) = {}
    BY <1>3
  <2>2. QED BY <1>1, <1>3, <2>1, ConcatFacts
<1> HIDE DEF t
<1>6. /\ Node(t, h, 0) = h /\ Node(t, h, 1) = y
      /\ \A i \in 1..(n + 1) : Node(t, h, i + 1) = Node(s, h, i)
  <2>1. Node(t, h, 0) = h /\ Node(t, h, 1) = y
    BY <1>1, <1>3, <1>4 DEF Node
  <2>2. ASSUME NEW i \in 1..(n + 1) PROVE Node(t, h, i + 1) = Node(s, h, i)
    <3>1. CASE i = n + 1
      BY <1>1, <1>4, <3>1 DEF Node
    <3>2. CASE i # n + 1
      <4>1. i + 1 \in 1..(n + 1) /\ ~(i + 1 <= 1) /\ (i + 1) - 1 = i /\ i \in 1..n
        BY <1>1, <3>2
      <4>2. t[i + 1] = s[i]
        BY <1>4, <4>1
      <4>3. QED BY <1>4, <4>1, <4>2 DEF Node
    <3>3. QED BY <3>1, <3>2
  <2>3. QED BY <2>1, <2>2
<1>7. /\ \A i \in 1..n : Node(s, h, i) \in N \ {h, y}
      /\ Node(s, h, 0) = h
  <2>1. \A i \in 1..n : Node(s, h, i) = s[i] /\ s[i] # h /\ s[i] \in Range(s) /\ s[i] \in N
    <3>1. \A i \in 1..n : Node(s, h, i) = s[i] /\ s[i] # h
      BY <1>1, NodeFacts
    <3>2. Range(s) \subseteq N \ {h} /\ \A i \in 1..n : s[i] \in Range(s)
      BY <1>1, RangeFacts
    <3>3. QED BY <3>1, <3>2
  <2>2. QED BY <1>1, <2>1, NodeFacts
<1>8. ASSUME NEW i \in 0..(n + 1) PROVE m.next[Node(t, h, i)] = Node(t, h, i + 1)
  <2>1. CASE i = 0
    <3>1. Node(t, h, i) = h /\ Node(t, h, i + 1) = y
      BY <1>6, <2>1
    <3>2. QED BY <1>1, <1>2, <3>1
  <2>2. CASE i = 1
    <3>1. Node(t, h, i) = y /\ Node(t, h, i + 1) = Node(s, h, 1)
      BY <1>1, <1>6, <2>2
    <3>2. l.next[h] = Node(s, h, 1)
      <4>1. 0 \in 0..n /\ 0 + 1 = 1
        BY <1>1
      <4>2. QED BY <1>1, <1>7, <4>1
    <3>3. QED BY <1>2, <3>1, <3>2
  <2>3. CASE i > 1
    <3> DEFINE j == i - 1
    <3>1. j \in 1..n /\ j \in 1..(n + 1) /\ j + 1 = i /\ j \in 0..n /\ i \in 1..(n + 1)
          /\ j \in Nat
      BY <1>1, <2>3
    <3>2. Node(t, h, i) = Node(s, h, j) /\ Node(t, h, i + 1) = Node(s, h, i)
      BY <1>6, <3>1
    <3>3. l.next[Node(s, h, j)] = Node(s, h, i)
      BY <1>1, <3>1
    <3> HIDE DEF j
    <3>4. Node(s, h, j) \in N /\ Node(s, h, j) # h /\ Node(s, h, j) # y
      BY <1>7, <3>1
    <3>5. QED BY <1>2, <3>2, <3>3, <3>4
  <2>4. i = 0 \/ i = 1 \/ i > 1
    BY <1>1
  <2>5. QED BY <2>1, <2>2, <2>3, <2>4
<1>9. m.prev[m.next[h]] = h
  BY <1>1, <1>2
<1>10. IsChain(m, N, h, t)
  BY <1>1, <1>2, <1>4, <1>5, <1>8, <1>9 DEF IsChain
<1>11. QED BY <1>5, <1>10 DEF t, u, m

\* The first function that finds something.
LEMMA FinderFacts ==
  ASSUME NEW F \in Nat, NEW found \in [1..F -> Nat], NEW f \in 1..F, found[f] > 0
  PROVE  LET a == FirstFinder(found)
         IN  a \in 1..f /\ found[a] > 0 /\ \A g \in 1..F : g < a => found[g] = 0
<1> DEFINE T == {g \in 1..F : found[g] > 0}
           a == Min(T)
<1>1. T \subseteq 1..F /\ f \in T
  OBVIOUS
<1>2. a \in T /\ \A g \in T : a <= g
  <2>1. T \subseteq Nat /\ T # {}
    BY <1>1
  <2> HIDE DEF T
  <2>2. QED BY <2>1, MinFacts
<1>3. a \in 1..F /\ found[a] > 0 /\ a <= f
  BY <1>1, <1>2
<1>4. ASSUME NEW g \in 1..F, g < a PROVE found[g] = 0
  <2>1. g \notin T
    <3> HIDE DEF T
    <3>1. QED BY <1>2, <1>3, <1>4
  <2>2. found[g] \in Nat
    OBVIOUS
  <2>3. QED BY <2>1, <2>2
<1>5. FirstFinder(found) = a
  BY DEF FirstFinder
<1> HIDE DEF a
<1>6. QED BY <1>3, <1>4, <1>5

\* The words on the list with the functions up to f, without the first one.
Listed(found, f) ==
  LET a == FirstFinder(found)
  IN {n \in Nodes(found) : n[1] <= f /\ (n[1] = a \/ n[2] = 1)} \ {<<a, 1>>}

\* The list with the functions up to f: the words of the others are on no list.
TabList(l, found, f) ==
  /\ l \in Pointers(Nodes(found))
  /\ \A n \in Nodes(found) : n[1] > f => l.next[n] = n /\ l.prev[n] = n
  /\ (\E g \in 1..f : found[g] > 0) =>
       Chain(l, Nodes(found), <<FirstFinder(found), 1>>, Listed(found, f))

\* A function adds its words to the list.
LEMMA TabStep ==
  ASSUME NEW F \in Nat, NEW found \in [1..F -> Nat], NEW f \in 1..F, NEW l,
         TabList(l, found, f - 1)
  PROVE  TabList(Join(found, WithWords(l, f, found[f]), f), found, f)
<1> DEFINE N == Nodes(found)
           a == FirstFinder(found)
           h == <<a, 1>>
           w == WithWords(l, f, found[f])
           m == Join(found, w, f)
           y == <<f, 1>>
<1>1. /\ l \in Pointers(N)
      /\ \A n \in N : n[1] > f - 1 => l.next[n] = n /\ l.prev[n] = n
      /\ (\E g \in 1..(f - 1) : found[g] > 0) => Chain(l, N, h, Listed(found, f - 1))
  BY DEF TabList
<1>2. /\ IsFiniteSet(N)
      /\ \A g \in 1..F : \A k \in 1..found[g] : <<g, k>> \in N
      /\ \A n \in N : n = <<n[1], n[2]>> /\ n[1] \in 1..F /\ n[2] \in 1..found[n[1]]
  BY NodesFacts
<1>3. CASE found[f] = 0
  <2>1. m = w
    BY <1>3 DEF Join
  <2>2. w = l
    <3> DEFINE body(g) == [k \in 0..0 |-> IF k < 2 THEN l ELSE Push(g[k - 1], <<f, 1>>, <<f, k>>)]
               list == CHOOSE g : g = body(g)
               first == [k \in 0..0 |-> l]
    <3>1. first = body(first)
      OBVIOUS
    <3>2. w = list[0]
      BY <1>3 DEF WithWords
    <3>3. list = body(list)
      <4> HIDE DEF body, list, first
      <4>1. QED BY <3>1 DEF list
    <3> HIDE DEF list
    <3>4. QED BY <3>2, <3>3
  <2>3. \A n \in N : n[1] # f
    BY <1>2, <1>3
  <2>4. Listed(found, f) = Listed(found, f - 1)
    <3>1. \A n \in N : n[1] <= f <=> n[1] <= f - 1
      BY <1>2, <2>3
    <3>2. QED BY <3>1 DEF Listed
  <2>5. ASSUME NEW n \in N, n[1] > f PROVE n[1] > f - 1
    BY <1>2, <2>5
  <2>6. ASSUME NEW g \in 1..f, found[g] > 0 PROVE g \in 1..(f - 1)
    BY <1>3, <2>6
  <2> HIDE DEF N, m, w, h
  <2>7. m = l
    BY <2>1, <2>2
  <2>8. TabList(l, found, f)
    BY <1>1, <2>4, <2>5, <2>6 DEF TabList, N, h
  <2>9. QED BY <2>7, <2>8 DEF m, w
<1>4. CASE found[f] # 0
  <2>1. found[f] > 0 /\ found[f] \in Nat /\ y \in N
    BY <1>2, <1>4
  <2>2. a \in 1..f /\ found[a] > 0 /\ \A g \in 1..F : g < a => found[g] = 0
    BY <2>1, FinderFacts
  <2>3. h \in N
    BY <1>2, <2>2
  <2>4. PICK r : /\ IsRing(w, N, y, r)
                 /\ Range(r) = {<<f, k>> : k \in 2..found[f]}
                 /\ \A n \in N : n[1] # f => w.next[n] = l.next[n] /\ w.prev[n] = l.prev[n]
    <3>1. \A n \in N : n[1] = f => l.next[n] = n /\ l.prev[n] = n
      BY <1>1
    <3>2. QED BY <1>1, <2>1, <3>1, WordsPushed, ZenonT(30)
  <2>5. w \in Pointers(N)
    BY <2>4 DEF IsRing
  <2> HIDE DEF w, a
  <2>6. \A n \in N : n[1] > f => w.next[n] = n /\ w.prev[n] = n
    BY <1>1, <1>2, <2>4, SMTT(30)
  <2>7. CASE f = a
    <3>1. m = w
      BY <2>7 DEF Join, a
    <3>2. Range(r) = Listed(found, f)
      <4>1. ASSUME NEW k \in 2..found[f] PROVE <<f, k>> \in Listed(found, f)
        <5>1. <<f, k>> \in N /\ <<f, k>> # h
          BY <1>2, <2>1
        <5>2. QED BY <2>7, <5>1 DEF Listed, a
      <4>2. ASSUME NEW n \in Listed(found, f) PROVE \E k \in 2..found[f] : n = <<f, k>>
        <5>1. n \in N /\ n[1] <= f /\ (n[1] = a \/ n[2] = 1) /\ n # h
          BY DEF Listed, a
        <5>2. n[1] = f
          <6>1. found[n[1]] > 0 /\ n[1] \in 1..F
            BY <1>2, <5>1
          <6>2. QED BY <2>2, <2>7, <5>1, <6>1
        <5>3. n = <<f, n[2]>> /\ n[2] \in 1..found[f] /\ n[2] # 1
          BY <1>2, <2>7, <5>1, <5>2
        <5>4. QED BY <2>1, <5>3
      <4>3. QED BY <2>4, <4>1, <4>2
    <3>3. IsChain(w, N, h, r)
      <4>1. y = h
        BY <2>7
      <4>2. QED BY <2>4, <4>1, RingIsChain
    <3>4. Chain(w, N, h, Listed(found, f))
      BY <3>2, <3>3 DEF Chain
    <3> HIDE DEF N, m, h
    <3>5. TabList(w, found, f)
      BY <2>5, <2>6, <3>4 DEF TabList, N, h, a
    <3>6. QED BY <3>1, <3>5 DEF m, w
  <2>8. CASE f # a
    <3>1. m = ListJoin(w, h, y)
      BY <1>4, <2>8 DEF Join, a
    <3>2. a \in 1..(f - 1)
      BY <2>2, <2>8
    <3>3. PICK s : IsChain(l, N, h, s) /\ Range(s) = Listed(found, f - 1)
      BY <1>1, <2>2, <3>2 DEF Chain
    <3>4. \A n \in Range(s) \cup {h} : n \in N /\ n[1] <= f - 1 /\ n[1] # f
      BY <1>2, <2>3, <3>2, <3>3 DEF Listed
    <3>5. IsChain(w, N, h, s)
      <4>1. \A n \in Range(s) \cup {h} : w.next[n] = l.next[n] /\ w.prev[n] = l.prev[n]
        BY <2>4, <3>4
      <4> HIDE DEF N, h
      <4>2. QED BY <2>5, <3>3, <4>1, ChainKept
    <3>6. y # h /\ y \notin Range(s)
      BY <2>8, <3>4
    <3>7. IsChain(m, N, h, <<y>> \o s) /\ Range(<<y>> \o s) = Range(s) \cup {y}
      <4> HIDE DEF N, h, y, m
      <4>1. QED BY <2>1, <3>1, <3>5, <3>6, ChainJoin DEF N
    <3>8. Range(s) \cup {y} = Listed(found, f)
      <4>1. \A n \in N : n[1] <= f <=> (n[1] <= f - 1 \/ n[1] = f)
        BY <1>2
      <4>2. \A n \in N : n[1] = f /\ (n[1] = a \/ n[2] = 1) <=> n = y
        BY <1>2, <2>1, <2>8
      <4>3. y # h /\ y \in N
        BY <2>1, <3>6
      <4> HIDE DEF N, h, y
      <4>4. Listed(found, f) = {n \in N : n[1] <= f /\ (n[1] = a \/ n[2] = 1)} \ {h}
        BY DEF Listed, N, h, a
      <4>5. Range(s) = {n \in N : n[1] <= f - 1 /\ (n[1] = a \/ n[2] = 1)} \ {h}
        BY <3>3 DEF Listed, N, h, a
      <4>6. QED BY <4>1, <4>2, <4>3, <4>4, <4>5
    <3>9. \A n \in N : n[1] > f => m.next[n] = n /\ m.prev[n] = n
      <4>1. ASSUME NEW n \in N, n[1] > f PROVE n # y /\ n # h
        BY <1>2, <3>2, <4>1
      <4>2. \A n \in N :
              /\ m.next[n] = IF n = y THEN w.next[h] ELSE IF n = h THEN y ELSE w.next[n]
              /\ m.prev[n] = IF n = y THEN h ELSE w.prev[n]
        <5> HIDE DEF N, h, y, m
        <5>1. QED BY <2>1, <2>3, <2>5, <3>1, <3>6, JoinPointers
      <4> HIDE DEF m, N
      <4>3. QED BY <2>6, <4>1, <4>2
    <3>10. Chain(m, N, h, Listed(found, f)) /\ m \in Pointers(N)
      <4> HIDE DEF N, h, y, m
      <4>1. QED BY <3>7, <3>8 DEF Chain, IsChain
    <3> HIDE DEF N, m, h
    <3>11. TabList(m, found, f)
      BY <3>9, <3>10 DEF TabList, N, h, a
    <3>12. QED BY <3>11 DEF m, w
  <2>9. QED BY <2>7, <2>8
<1>5. QED BY <1>3, <1>4

\* get_tab_completes_list
LEMMA TabFacts ==
  ASSUME NEW F \in Nat, NEW found \in [1..F -> Nat]
  PROVE  TabList(TabCompletesList(found), found, F) /\ Len(found) = F
<1> DEFINE N == Nodes(found)
           P == Pointers(N)
           Following(v, f) == Join(found, WithWords(v, f, found[f]), f)
           step == [f \in 1..F |->
                     [v \in P |-> IF TabList(v, found, f - 1) THEN Following(v, f) ELSE v]]
           body(g) == [f \in 0..F |-> IF f = 0 THEN ListInit(N) ELSE Following(g[f - 1], f)]
           list == CHOOSE g : g = body(g)
<1>1. Len(found) = F
  <2>1. found \in Seq(Nat) /\ DOMAIN found = 1..F
    OBVIOUS
  <2>2. QED BY <2>1, LenProperties
<1>2. ListInit(N) \in P /\ TabList(ListInit(N), found, 0)
  <2>1. ListInit(N) \in Pointers(N)
    <3> HIDE DEF N
    <3>1. QED BY DEF ListInit, Pointers
  <2>2. \A n \in N : ListInit(N).next[n] = n /\ ListInit(N).prev[n] = n
    <3> HIDE DEF N
    <3>1. QED BY DEF ListInit
  <2>3. ~(\E g \in 1..0 : found[g] > 0)
    OBVIOUS
  <2>4. QED BY <2>1, <2>2, <2>3 DEF TabList
<1>3. ASSUME NEW f \in 1..F, NEW v \in P, TabList(v, found, f - 1)
      PROVE  Following(v, f) \in P /\ TabList(Following(v, f), found, f)
  <2>1. TabList(Following(v, f), found, f)
    BY <1>3, TabStep
  <2> HIDE DEF Following
  <2>2. QED BY <2>1 DEF TabList
<1> HIDE DEF Following
<1>4. step \in [1..F -> [P -> P]]
  <2> HIDE DEF P
  <2>1. QED BY <1>3
<1>5. PICK g : Solves(g, F, P, ListInit(N), step)
  <2> HIDE DEF step, P, N
  <2>1. QED BY <1>2, <1>4, Recursion
<1>6. g \in [0..F -> P] /\ g[0] = ListInit(N) /\ \A f \in 1..F : g[f] = step[f][g[f - 1]]
  <2> HIDE DEF step, P, N
  <2>1. QED BY <1>5 DEF Solves
<1> DEFINE T == {f \in 0..F : TabList(g[f], found, f)}
<1>7. ASSUME NEW f \in 1..F, f - 1 \in T
      PROVE  g[f] = Following(g[f - 1], f) /\ f \in T
  <2>1. f - 1 \in 0..F
    OBVIOUS
  <2> HIDE DEF P, N
  <2>2. g[f - 1] \in P /\ TabList(g[f - 1], found, f - 1)
    BY <1>6, <1>7, <2>1
  <2>3. g[f] = Following(g[f - 1], f)
    BY <1>6, <2>2
  <2>4. QED BY <1>3, <2>2, <2>3
<1>8. 0..F \subseteq T
  <2>1. 0 \in T
    BY <1>2, <1>6
  <2> HIDE DEF T
  <2>2. QED BY <1>7, <2>1, Induction
<1>9. g = body(g)
  <2>1. ASSUME NEW f \in 0..F
        PROVE  g[f] = IF f = 0 THEN ListInit(N) ELSE Following(g[f - 1], f)
    <3>1. CASE f = 0
      BY <1>6, <3>1
    <3>2. CASE f # 0
      <4>1. f \in 1..F /\ f - 1 \in 0..F
        BY <3>2
      <4> HIDE DEF T
      <4>2. QED BY <1>7, <1>8, <3>2, <4>1
    <3>3. QED BY <3>1, <3>2
  <2> HIDE DEF P, N
  <2>2. QED BY <1>6, <2>1
<1>10. TabCompletesList(found) = list[F]
  BY <1>1 DEF TabCompletesList, Following
<1>11. list = body(list)
  <2> HIDE DEF body, list
  <2>1. QED BY <1>9 DEF list
<1>12. ASSUME NEW h, h = body(h) PROVE \A f \in 0..F : TabList(h[f], found, f)
  <2> DEFINE U == {f \in 0..F : TabList(h[f], found, f)}
  <2>1. \A f \in 0..F : h[f] = IF f = 0 THEN ListInit(N) ELSE Following(h[f - 1], f)
    BY <1>12
  <2>2. 0 \in U
    <3>1. h[0] = ListInit(N)
      BY <2>1
    <3>2. QED BY <1>2, <3>1
  <2>3. ASSUME NEW f \in 1..F, f - 1 \in U PROVE f \in U
    <3>1. TabList(h[f - 1], found, f - 1) /\ h[f - 1] \in P
      BY <2>3 DEF TabList
    <3>2. h[f] = Following(h[f - 1], f)
      BY <2>1
    <3>3. QED BY <1>3, <3>1, <3>2
  <2>4. 0..F \subseteq U
    <3> HIDE DEF U
    <3>1. QED BY <2>2, <2>3, Induction
  <2>5. QED BY <2>4
<1>13. TabList(list[F], found, F)
  <2> HIDE DEF list, body
  <2>1. F \in 0..F
    OBVIOUS
  <2>2. QED BY <1>11, <1>12, <2>1
<1>14. QED BY <1>1, <1>10, <1>13

-----------------------------------------------------------------------------
(* Completion: what is done with the list.                                 *)

\* A walk along a chain.
LEMMA ChainWalk ==
  ASSUME NEW N, NEW l, NEW h, NEW s, IsChain(l, N, h, s)
  PROVE  \A k \in 0..(Len(s) + 1) : Walk(l, h)[k] = Node(s, h, k)
<1> DEFINE n == Len(s)
           at == Walk(l, h)
           T == {k \in 0..(n + 1) : at[k] = Node(s, h, k)}
<1>1. /\ l \in Pointers(N) /\ h \in N /\ s \in Seq(N \ {h}) /\ n \in Nat
      /\ \A i \in 0..n : l.next[Node(s, h, i)] = Node(s, h, i + 1)
  BY DEF IsChain
<1>2. at[0] = h /\ \A k \in Nat : at[k + 1] = l.next[at[k]]
  <2>1. l \in Pointers(N) /\ h \in N
    BY <1>1
  <2>2. /\ Walk(l, h)[0] = h
        /\ \A k \in Nat : /\ Walk(l, h)[k] \in N
                          /\ Walk(l, h)[k + 1] = l.next[Walk(l, h)[k]]
    BY <2>1, WalkFacts
  <2>3. QED BY <2>2
<1> HIDE DEF at
<1>3. 0 \in T
  BY <1>1, <1>2 DEF Node
<1>4. ASSUME NEW k \in 1..(n + 1), k - 1 \in T PROVE k \in T
  <2>1. k - 1 \in Nat /\ k - 1 \in 0..n /\ (k - 1) + 1 = k
    BY <1>1
  <2>2. at[k] = l.next[at[k - 1]] /\ at[k - 1] = Node(s, h, k - 1)
    BY <1>2, <1>4, <2>1
  <2>3. l.next[Node(s, h, k - 1)] = Node(s, h, k)
    BY <1>1, <2>1
  <2>4. QED BY <2>2, <2>3
<1>5. 0..(n + 1) \subseteq T
  <2>1. n + 1 \in Nat
    BY <1>1
  <2> HIDE DEF T, n
  <2>2. QED BY <1>3, <1>4, <2>1, Induction
<1>6. QED BY <1>5 DEF at

\* A chain with its first node has no more nodes than there are.
LEMMA ChainBound ==
  ASSUME NEW N, IsFiniteSet(N), NEW l, NEW h, NEW s, IsChain(l, N, h, s)
  PROVE  Len(s) \in Nat /\ Cardinality(N) \in Nat /\ Len(s) + 1 <= Cardinality(N)
<1>1. h \in N /\ s \in Seq(N \ {h}) /\ IsInjective(s) /\ Len(s) \in Nat
  BY DEF IsChain
<1>2. IsFiniteSet(N \ {h}) /\ Cardinality(N \ {h}) = Cardinality(N) - 1 /\ Cardinality(N) \in Nat
  BY <1>1, FS_RemoveElement, FS_CardinalityType
<1>3. Len(s) <= Cardinality(N \ {h}) /\ Cardinality(N \ {h}) \in Nat
  <2> DEFINE S == N \ {h}
  <2>1. s \in Seq(S) /\ IsFiniteSet(S)
    BY <1>1, <1>2
  <2> HIDE DEF S
  <2>2. Len(s) <= Cardinality(S) /\ Cardinality(S) \in Nat
    <3>1. Cardinality(Range(s)) = Len(s) /\ Cardinality(Range(s)) <= Cardinality(S)
          /\ Cardinality(S) \in Nat
      BY <1>1, <2>1, RangeCardinality
    <3>2. QED BY <3>1
  <2>3. QED BY <2>2 DEF S
<1>4. QED BY <1>1, <1>2, <1>3

\* get_tab_completes returns the words of the list, from the first on.
LEMMA WordsAroundFacts ==
  ASSUME NEW N, IsFiniteSet(N), NEW l, NEW h, NEW s, IsChain(l, N, h, s)
  PROVE  WordsAround(l, h) = [k \in 1..(Len(s) + 1) |-> IF k = 1 THEN h ELSE s[k - 1]]
<1> DEFINE n == Len(s)
           at == Walk(l, h)
           C == Cardinality(N)
           T == {k \in 1..C : at[k] = h}
<1>1. n \in Nat /\ C \in Nat /\ n + 1 <= C
  BY ChainBound
<1>2. l \in Pointers(N) /\ s \in Seq(N \ {h}) /\ IsInjective(s) /\ h \in N
  BY DEF IsChain
<1>3. \A k \in 0..(n + 1) : at[k] = Node(s, h, k)
  BY ChainWalk
<1>4. /\ Node(s, h, 0) = h /\ Node(s, h, n + 1) = h
      /\ \A i \in 1..n : Node(s, h, i) = s[i] /\ s[i] # h
  BY <1>2, NodeFacts
<1>5. DOMAIN l.next = N
  BY <1>2 DEF Pointers
<1> HIDE DEF at, C
<1>6. n + 1 \in T /\ \A k \in T : n + 1 <= k
  <2>1. n + 1 \in 0..(n + 1) /\ n + 1 \in 1..C
    BY <1>1
  <2>2. n + 1 \in T
    BY <1>3, <1>4, <2>1
  <2>3. ASSUME NEW k \in T, k < n + 1 PROVE FALSE
    <3>1. k \in 1..n /\ k \in 0..(n + 1) /\ at[k] = h
      BY <1>1, <2>3
    <3>2. QED BY <1>3, <1>4, <3>1
  <2>4. QED BY <1>1, <2>2, <2>3
<1>7. Min(T) = n + 1
  <2> DEFINE m == Min(T)
  <2>1. T \subseteq 1..C
    OBVIOUS
  <2>2. m \in T /\ \A k \in T : m <= k
    <3>1. T \subseteq Nat /\ T # {}
      BY <1>1, <1>6, <2>1
    <3> HIDE DEF T
    <3>2. QED BY <3>1, MinFacts
  <2> HIDE DEF m, T
  <2>3. m \in Nat /\ m <= n + 1 /\ n + 1 <= m
    BY <1>1, <1>6, <2>1, <2>2
  <2>4. QED BY <1>1, <2>3 DEF m
<1>8. WordsAround(l, h) = [k \in 1..(n + 1) |-> at[k - 1]]
  BY <1>5, <1>7 DEF WordsAround, at, C
<1>9. ASSUME NEW k \in 1..(n + 1) PROVE at[k - 1] = IF k = 1 THEN h ELSE s[k - 1]
  <2>1. k - 1 \in 0..(n + 1) /\ (k = 1 => k - 1 = 0) /\ (k # 1 => k - 1 \in 1..n)
    BY <1>1
  <2>2. QED BY <1>3, <1>4, <2>1
<1>10. QED BY <1>8, <1>9

\* A round of free_tab_completes_list takes the node behind the first one.
LEMMA ChainFree ==
  ASSUME NEW N, NEW r, NEW h, NEW t, IsChain(r.links, N, h, t), r.freed \in Seq(N)
  PROVE  /\ t = <<>> => FreeNext(h, r) = r
         /\ t # <<>> => /\ FreeNext(h, r).freed = Append(r.freed, Head(t))
                        /\ IsChain(FreeNext(h, r).links, N, h, Tail(t))
<1> DEFINE l == r.links
           n == Len(t)
           x == l.next[h]
           m == ListRemove(l, x)
           u == Tail(t)
<1>1. /\ l \in Pointers(N) /\ h \in N /\ t \in Seq(N \ {h}) /\ IsInjective(t)
      /\ n \in Nat /\ DOMAIN t = 1..n
      /\ \A i \in 0..n : l.next[Node(t, h, i)] = Node(t, h, i + 1)
      /\ l.prev[x] = h
  BY LenProperties DEF IsChain
<1>2. /\ \A i \in Nat : Node(t, h, i) \in N
      /\ \A i, j \in 0..n : Node(t, h, i) = Node(t, h, j) => i = j
      /\ \A i \in 1..n : Node(t, h, i) = t[i] /\ t[i] # h
      /\ Node(t, h, 0) = h /\ Node(t, h, n + 1) = h
  BY <1>1, NodeFacts
<1>3. x = Node(t, h, 1) /\ x \in N
  <2>1. 0 \in 0..n /\ 0 + 1 = 1 /\ 1 \in Nat
    BY <1>1
  <2>2. QED BY <1>1, <1>2, <2>1
<1>4. CASE t = <<>>
  <2>1. n = 0
    BY <1>4
  <2>2. x = h
    BY <1>2, <1>3, <2>1
  <2>3. QED BY <1>4, <2>2 DEF FreeNext
<1>5. CASE t # <<>>
  <2>1. n >= 1
    BY <1>1, <1>5, EmptySeq
  <2>2. x = t[1] /\ x # h /\ Head(t) = x
    <3>1. 1 \in 1..n
      BY <1>1, <2>1
    <3>2. x = t[1] /\ x # h
      BY <1>2, <1>3, <3>1
    <3>3. Head(t) = t[1]
      BY <1>1, <1>5
    <3>4. QED BY <3>2, <3>3
  <2>3. FreeNext(h, r) = [links |-> m, freed |-> Append(r.freed, x)]
    BY <2>2 DEF FreeNext
  <2>4. /\ m \in Pointers(N)
        /\ \A k \in N :
             /\ m.next[k] = IF k = h THEN l.next[x] ELSE l.next[k]
             /\ m.prev[k] = IF k = l.next[x] THEN h ELSE l.prev[k]
    <3>1. l \in Pointers(N) /\ l.prev[x] = h
      BY <1>1
    <3> HIDE DEF l, x
    <3>2. QED BY <1>3, <3>1, RemovePointers
  <2>5. /\ u \in Seq(N \ {h}) /\ Len(u) = n - 1
        /\ \A i \in 1..(n - 1) : u[i] = t[i + 1]
        /\ IsInjective(u)
    <3>1. /\ u \in Seq(N \ {h}) /\ Len(u) = n - 1
          /\ \A i \in 1..(n - 1) : u[i] = t[i + 1]
      <4> DEFINE S == N \ {h}
      <4>1. t \in Seq(S)
        BY <1>1
      <4> HIDE DEF S
      <4>2. Tail(t) \in Seq(S) /\ Len(Tail(t)) = Len(t) - 1
            /\ \A i \in 1..(Len(t) - 1) : Tail(t)[i] = t[i + 1]
        BY <1>5, <4>1, HeadTailProperties
      <4>3. QED BY <4>2 DEF S
    <3> HIDE DEF u
    <3>2. DOMAIN u = 1..(n - 1)
      BY <3>1, LenProperties
    <3>3. ASSUME NEW i \in 1..(n - 1), NEW j \in 1..(n - 1), u[i] = u[j] PROVE i = j
      <4>1. i + 1 \in 1..n /\ j + 1 \in 1..n /\ t[i + 1] = t[j + 1]
        BY <1>1, <3>1, <3>3
      <4>2. i + 1 = j + 1
        BY <1>1, <4>1 DEF IsInjective
      <4>3. QED BY <1>1, <4>2
    <3>4. QED BY <3>1, <3>2, <3>3 DEF IsInjective
  <2> HIDE DEF u, m, x
  <2>6. /\ Node(u, h, 0) = h
        /\ \A i \in 1..n : Node(u, h, i) = Node(t, h, i + 1)
    <3>1. Node(u, h, 0) = h
      BY <2>5 DEF Node
    <3>2. ASSUME NEW i \in 1..n PROVE Node(u, h, i) = Node(t, h, i + 1)
      <4>1. CASE i = n
        BY <1>1, <1>2, <2>1, <2>5, <4>1 DEF Node
      <4>2. CASE i # n
        <5>1. i \in 1..(n - 1) /\ i + 1 \in 1..n
          <6>1. n \in Nat
            BY <1>1
          <6> HIDE DEF n
          <6>2. QED BY <4>2, <6>1
        <5>2. QED BY <2>5, <5>1 DEF Node
      <4>3. QED BY <4>1, <4>2
    <3>3. QED BY <3>1, <3>2
  <2>7. l.next[x] = Node(t, h, 2)
    <3>1. 1 \in 0..n /\ 1 + 1 = 2
      BY <1>1, <2>1
    <3>2. QED BY <1>1, <1>3, <3>1
  <2>8. ASSUME NEW i \in 0..(n - 1) PROVE m.next[Node(u, h, i)] = Node(u, h, i + 1)
    <3>1. CASE i = 0
      <4>1. 1 \in 1..n /\ i + 1 = 1 /\ 1 + 1 = 2
        BY <1>1, <2>1, <3>1
      <4>2. Node(u, h, i + 1) = Node(t, h, 2)
        BY <2>6, <4>1
      <4>3. m.next[h] = l.next[x]
        BY <1>1, <2>4
      <4>4. QED BY <2>6, <2>7, <3>1, <4>2, <4>3
    <3>2. CASE i # 0
      <4>1. i \in 1..n /\ i + 1 \in 1..n /\ i + 1 \in 0..n /\ i + 1 \in Nat /\ i + 1 # 0 /\ 0 \in 0..n
        BY <1>1, <3>2
      <4>2. Node(u, h, i) = Node(t, h, i + 1) /\ Node(u, h, i + 1) = Node(t, h, i + 1 + 1)
        BY <2>6, <4>1
      <4>3. Node(t, h, i + 1) \in N /\ Node(t, h, i + 1) # h
        BY <1>2, <4>1
      <4>4. m.next[Node(t, h, i + 1)] = l.next[Node(t, h, i + 1)]
        BY <2>4, <4>3
      <4>5. QED BY <1>1, <4>1, <4>2, <4>4
    <3>3. QED BY <3>1, <3>2
  <2>9. m.prev[m.next[h]] = h
    <3>1. l.next[x] \in N
      BY <1>2, <2>7
    <3>2. QED BY <1>1, <2>4, <3>1
  <2>10. IsChain(m, N, h, u)
    BY <1>1, <2>4, <2>5, <2>8, <2>9 DEF IsChain
  <2>11. QED BY <1>5, <2>2, <2>3, <2>10 DEF u
<1>6. QED BY <1>4, <1>5

\* free_tab_completes_list frees the nodes behind the first one, and the first one.
LEMMA FreeListFacts ==
  ASSUME NEW N, IsFiniteSet(N), NEW l, NEW h, NEW s, IsChain(l, N, h, s)
  PROVE  FreeList(l, h) = Append(s, h)
<1> DEFINE n == Len(s)
           C == Cardinality(N)
           V == [links : Pointers(N), freed : Seq(N)]
           first == [links |-> l, freed |-> <<>>]
           step == [k \in Nat |-> [v \in V |-> FreeNext(h, v)]]
           body(g) == [k \in Nat |-> IF k = 0 THEN first ELSE FreeNext(h, g[k - 1])]
           after == CHOOSE g : g = body(g)
<1>1. n \in Nat /\ C \in Nat /\ n + 1 <= C
  BY ChainBound
<1>2. l \in Pointers(N) /\ s \in Seq(N \ {h}) /\ h \in N /\ s \in Seq(N)
  BY DEF IsChain
<1>3. ASSUME NEW v \in V PROVE FreeNext(h, v) \in V
  <2> DEFINE x == v.links.next[h]
  <2>1. v.links \in Pointers(N) /\ v.freed \in Seq(N) /\ x \in N
    BY <1>2 DEF Pointers
  <2>2. ListRemove(v.links, x) \in Pointers(N) /\ Append(v.freed, x) \in Seq(N)
    <3> HIDE DEF x
    <3>1. ListRemove(v.links, x) \in Pointers(N)
      BY <2>1, RemovePointers
    <3>2. Append(v.freed, x) \in Seq(N)
      BY <2>1
    <3>3. QED BY <3>1, <3>2
  <2>3. FreeNext(h, v) = IF x = h THEN v
                         ELSE [links |-> ListRemove(v.links, x), freed |-> Append(v.freed, x)]
    BY DEF FreeNext
  <2> HIDE DEF x
  <2>4. QED BY <2>2, <2>3
<1>4. first \in V
  BY <1>2
<1>5. \E g : g = body(g)
  <2>1. step \in [Nat -> [V -> V]]
    <3> HIDE DEF V
    <3>1. QED BY <1>3
  <2>2. PICK g : SolvesAll(g, V, first, step)
    <3> HIDE DEF step, V, first
    <3>1. QED BY <1>4, <2>1, RecursionAll, Zenon
  <2> HIDE DEF V, first
  <2>3. g \in [Nat -> V] /\ g[0] = first /\ \A k \in Nat : g[k + 1] = step[k + 1][g[k]]
    <3> HIDE DEF step
    <3>1. QED BY <2>2 DEF SolvesAll
  <2>4. ASSUME NEW k \in Nat PROVE g[k] = IF k = 0 THEN first ELSE FreeNext(h, g[k - 1])
    <3>1. CASE k = 0
      BY <2>3, <3>1
    <3>2. CASE k # 0
      <4>1. k - 1 \in Nat /\ (k - 1) + 1 = k
        BY <3>2
      <4>2. g[k] = step[k][g[k - 1]] /\ g[k - 1] \in V
        <5> HIDE DEF step
        <5>1. QED BY <2>3, <4>1
      <4>3. QED BY <3>2, <4>2
    <3>3. QED BY <3>1, <3>2
  <2>5. g = body(g)
    BY <2>3, <2>4
  <2>6. QED BY <2>5
<1>6. DOMAIN l.next = N
  BY <1>2 DEF Pointers
<1>7. FreeList(l, h) = Append(after[C].freed, h)
  BY <1>6 DEF FreeList
<1>8. after = body(after)
  <2> HIDE DEF body, after
  <2>1. QED BY <1>5 DEF after
<1> HIDE DEF after
<1>9. after[0] = first /\ \A k \in Nat : k # 0 => after[k] = FreeNext(h, after[k - 1])
  <2> HIDE DEF first
  <2>1. QED BY <1>8
<1> DEFINE Good(k, t) == /\ IsChain(after[k].links, N, h, t)
                         /\ after[k].freed \in Seq(N)
                         /\ after[k].freed \o t = s
                         /\ t = <<>> \/ Len(after[k].freed) = k
           T == {k \in 0..C : \E t : Good(k, t)}
<1>10. 0 \in T
  <2>1. after[0].links = l /\ after[0].freed = <<>>
    BY <1>9
  <2>2. <<>> \o s = s /\ <<>> \in Seq(N) /\ Len(<<>>) = 0
    BY <1>2, ConcatEmptySeq
  <2>3. Good(0, s)
    BY <2>1, <2>2
  <2> HIDE DEF Good
  <2>4. QED BY <1>1, <2>3
<1>11. ASSUME NEW k \in 1..C, k - 1 \in T PROVE k \in T
  <2> DEFINE r == after[k - 1]
  <2>1. PICK t : Good(k - 1, t)
    <3> HIDE DEF Good
    <3>1. QED BY <1>11
  <2>2. /\ IsChain(r.links, N, h, t) /\ r.freed \in Seq(N) /\ r.freed \o t = s
        /\ t = <<>> \/ Len(r.freed) = k - 1
    BY <2>1
  <2>3. after[k] = FreeNext(h, r)
    <3>1. k \in Nat /\ k # 0
      OBVIOUS
    <3>2. QED BY <1>9, <3>1
  <2>4. t \in Seq(N \ {h}) /\ t \in Seq(N)
    BY <2>2 DEF IsChain
  <2> HIDE DEF r
  <2>5. CASE t = <<>>
    <3>1. after[k] = r
      BY <2>2, <2>3, <2>5, ChainFree
    <3>2. Good(k, t)
      BY <2>2, <2>5, <3>1
    <3> HIDE DEF Good
    <3>3. QED BY <3>2
  <2>6. CASE t # <<>>
    <3>1. /\ after[k].freed = Append(r.freed, Head(t))
          /\ IsChain(after[k].links, N, h, Tail(t))
      <4>1. /\ FreeNext(h, r).freed = Append(r.freed, Head(t))
            /\ IsChain(FreeNext(h, r).links, N, h, Tail(t))
        BY <2>2, <2>6, ChainFree
      <4>2. QED BY <2>3, <4>1
    <3>2. Head(t) \in N /\ Tail(t) \in Seq(N) /\ <<Head(t)>> \in Seq(N)
          /\ t = <<Head(t)>> \o Tail(t)
      <4>1. Head(t) \in N /\ Tail(t) \in Seq(N)
        BY <2>4, <2>6, HeadTailProperties
      <4>2. <<Head(t)>> \in Seq(N)
        BY <4>1
      <4>3. t = <<Head(t)>> \o Tail(t)
        BY <2>4, <2>6
      <4>4. QED BY <4>1, <4>2, <4>3
    <3>3. after[k].freed \in Seq(N) /\ Len(after[k].freed) = k
      BY <2>2, <2>6, <3>1, <3>2, AppendProperties
    <3>4. after[k].freed \o Tail(t) = s
      <4>1. after[k].freed = r.freed \o <<Head(t)>>
        BY <2>2, <3>1, <3>2, AppendIsConcat
      <4>2. (r.freed \o <<Head(t)>>) \o Tail(t) = r.freed \o (<<Head(t)>> \o Tail(t))
        BY <2>2, <3>2, ConcatAssociative
      <4>3. QED BY <2>2, <3>2, <4>1, <4>2
    <3>5. Good(k, Tail(t))
      BY <3>1, <3>3, <3>4
    <3> HIDE DEF Good
    <3>6. QED BY <3>5
  <2> HIDE DEF T
  <2>7. QED BY <2>5, <2>6
<1>12. C \in T
  <2>1. C \in 0..C
    BY <1>1
  <2> HIDE DEF T, C
  <2>2. 0..C \subseteq T
    BY <1>1, <1>10, <1>11, Induction
  <2>3. QED BY <2>1, <2>2
<1>13. PICK t : Good(C, t)
  <2> HIDE DEF Good
  <2>1. QED BY <1>12
<1>14. after[C].freed = s
  <2> DEFINE q == after[C].freed
  <2>1. q \in Seq(N) /\ q \o t = s /\ (t = <<>> \/ Len(q) = C) /\ t \in Seq(N)
    BY <1>13 DEF IsChain
  <2> HIDE DEF q
  <2>2. Len(q) + Len(t) = n /\ Len(t) \in Nat /\ Len(q) \in Nat
    BY <2>1, ConcatProperties, LenProperties
  <2>3. t = <<>>
    BY <1>1, <2>1, <2>2
  <2>4. q = s
    BY <2>1, <2>3, ConcatEmptySeq
  <2>5. QED BY <2>4 DEF q
<1>15. QED BY <1>7, <1>14

\* How many words of a function are offered.
LEMMA WordsOffered ==
  ASSUME NEW F \in Nat, NEW found \in [1..F -> Nat], NEW f \in 1..F
  PROVE  LET a == FirstFinder(found)
             A == {n \in Nodes(found) : n[1] = a \/ n[2] = 1}
         IN  Cardinality({n \in A : n[1] = f})
               = IF found[f] = 0 \/ \A g \in 1..(f - 1) : found[g] = 0 THEN found[f] ELSE 1
<1> DEFINE N == Nodes(found)
           a == FirstFinder(found)
           own == {n \in {n \in N : n[1] = a \/ n[2] = 1} : n[1] = f}
<1>1. /\ IsFiniteSet(N)
      /\ \A g \in 1..F : \A k \in 1..found[g] : <<g, k>> \in N
      /\ \A n \in N : n = <<n[1], n[2]>> /\ n[1] \in 1..F /\ n[2] \in 1..found[n[1]]
  BY NodesFacts
<1>2. found[f] \in Nat
  OBVIOUS
<1>3. CASE found[f] = 0
  <2>1. own = {}
    BY <1>1, <1>3
  <2>2. QED BY <1>3, <2>1, FS_EmptySet
<1>4. CASE found[f] # 0
  <2>1. a \in 1..f /\ found[a] > 0 /\ \A g \in 1..F : g < a => found[g] = 0
    BY <1>2, <1>4, FinderFacts
  <2> HIDE DEF a, N
  <2>2. CASE f = a
    <3> DEFINE M == found[f]
               t == [k \in 1..M |-> <<f, k>>]
    <3>1. \A g \in 1..(f - 1) : found[g] = 0
      BY <2>1, <2>2
    <3>2. t \in Seq(N) /\ Len(t) = M /\ DOMAIN t = 1..M
      <4>1. \A k \in 1..M : <<f, k>> \in N
        BY <1>1
      <4>2. QED BY <1>2, <4>1
    <3>3. IsInjective(t)
      BY DEF IsInjective
    <3>4. Range(t) = own
      <4>1. Range(t) = {<<f, k>> : k \in 1..M}
        BY DEF Range
      <4>2. \A k \in 1..M : <<f, k>> \in own
        BY <1>1, <2>2
      <4>3. \A n \in own : n = <<f, n[2]>> /\ n[2] \in 1..M
        BY <1>1
      <4> HIDE DEF own, M
      <4>4. QED BY <4>1, <4>2, <4>3
    <3>5. Cardinality(Range(t)) = Len(t)
      <4> HIDE DEF t
      <4>1. QED BY <1>1, <3>2, <3>3, RangeCardinality
    <3>6. Cardinality(own) = M
      BY <3>2, <3>4, <3>5
    <3> HIDE DEF own
    <3>7. QED BY <3>1, <3>6 DEF own, a, N
  <2>3. CASE f # a
    <3>1. ~(\A g \in 1..(f - 1) : found[g] = 0)
      <4>1. a \in 1..(f - 1) /\ found[a] # 0
        BY <2>1, <2>3
      <4>2. QED BY <4>1
    <3>2. own = {<<f, 1>>}
      <4>1. <<f, 1>> \in own
        BY <1>1, <1>2, <1>4
      <4>2. \A n \in own : n = <<f, 1>>
        BY <1>1, <2>3
      <4>3. QED BY <4>1, <4>2
    <3>3. Cardinality(own) = 1
      BY <3>2, FS_Singleton
    <3> HIDE DEF own
    <3>4. QED BY <1>4, <3>1, <3>3 DEF own, a, N
  <2>4. QED BY <2>2, <2>3
<1>5. QED BY <1>3, <1>4

\* What get_tab_completes returns, and what is freed.
LEMMA WordsReturned ==
  ASSUME NEW F \in Nat, NEW found \in [1..F -> Nat]
  PROVE  LET r == GetTabCompletes(found)
             A == {n \in Nodes(found) : n[1] = FirstFinder(found) \/ n[2] = 1}
         IN  /\ IsInjective(r.argv) /\ IsInjective(r.freed)
             /\ Range(r.argv) = A /\ Range(r.freed) = A
<1> DEFINE N == Nodes(found)
           a == FirstFinder(found)
           h == <<a, 1>>
           A == {n \in N : n[1] = a \/ n[2] = 1}
           r == GetTabCompletes(found)
           l == TabCompletesList(found)
<1>1. /\ IsFiniteSet(N)
      /\ \A g \in 1..F : \A k \in 1..found[g] : <<g, k>> \in N
      /\ \A n \in N : n = <<n[1], n[2]>> /\ n[1] \in 1..F /\ n[2] \in 1..found[n[1]]
  BY NodesFacts
<1>2. CASE N = {}
  <2>1. r.argv = <<>> /\ r.freed = <<>>
    BY <1>2 DEF GetTabCompletes
  <2>2. Range(<<>>) = {} /\ IsInjective(<<>>)
    BY DEF Range, IsInjective
  <2> HIDE DEF r
  <2>3. QED BY <1>2, <2>1, <2>2 DEF r
<1>3. CASE N # {}
  <2>1. PICK f \in 1..F : found[f] > 0
    <3>1. PICK n \in N : TRUE
      BY <1>3
    <3>2. n[1] \in 1..F /\ n[2] \in 1..found[n[1]]
      BY <1>1
    <3>3. found[n[1]] > 0
      <4>1. found[n[1]] \in Nat
        BY <3>2
      <4>2. QED BY <3>2, <4>1
    <3>4. QED BY <3>2, <3>3
  <2>2. a \in 1..f /\ found[a] > 0 /\ found[a] \in Nat /\ a \in 1..F
    BY <2>1, FinderFacts
  <2>3. h \in N
    BY <1>1, <2>2
  <2>4. PICK s : IsChain(l, N, h, s) /\ Range(s) = Listed(found, F)
    <3>1. TabList(l, found, F)
      BY TabFacts
    <3> HIDE DEF l
    <3>2. QED BY <2>1, <3>1 DEF TabList, Chain
  <2>5. Listed(found, F) = A \ {h}
    <3>1. \A n \in N : n[1] <= F
      BY <1>1
    <3>2. QED BY <3>1 DEF Listed
  <2>6. r.argv = WordsAround(l, h) /\ r.freed = FreeList(l, h)
    BY <1>3 DEF GetTabCompletes
  <2> DEFINE n == Len(s)
             t == [k \in 1..(n + 1) |-> IF k = 1 THEN h ELSE s[k - 1]]
  <2>7. r.argv = t /\ r.freed = Append(s, h)
    <3> HIDE DEF N, l, h, r
    <3>1. WordsAround(l, h) = t /\ FreeList(l, h) = Append(s, h)
      BY <1>1, <2>4, WordsAroundFacts, FreeListFacts
    <3>2. QED BY <2>6, <3>1
  <2>8. h \in A /\ A \subseteq N
    BY <2>3
  <2> HIDE DEF r, l, A, h, N
  <2>9. s \in Seq(N \ {h}) /\ s \in Seq(N) /\ IsInjective(s) /\ n \in Nat /\ DOMAIN s = 1..n
    BY <2>4, LenProperties DEF IsChain
  <2>10. Range(s) = A \ {h}
    BY <2>4, <2>5
  <2>11. IsInjective(r.freed) /\ Range(r.freed) = A
    <3>1. Range(Append(s, h)) = Range(s) \cup {h} /\ IsInjective(Append(s, h))
      <4>1. h \notin Range(s)
        BY <2>10
      <4>2. QED BY <2>3, <2>9, <4>1, AppendFacts
    <3>2. QED BY <2>7, <2>8, <2>10, <3>1
  <2>12. IsInjective(t)
    <3>1. \A i \in 1..n : s[i] # h
      BY <2>9, <2>10 DEF Range
    <3>2. ASSUME NEW i \in 1..(n + 1), NEW j \in 1..(n + 1), t[i] = t[j] PROVE i = j
      <4>1. CASE i = 1 \/ j = 1
        <5>1. i # 1 => i - 1 \in 1..n
          BY <2>9
        <5>2. j # 1 => j - 1 \in 1..n
          BY <2>9
        <5>3. QED BY <3>1, <3>2, <4>1, <5>1, <5>2
      <4>2. CASE i # 1 /\ j # 1
        <5>1. i - 1 \in 1..n /\ j - 1 \in 1..n
          BY <2>9, <4>2
        <5>2. s[i - 1] = s[j - 1]
          BY <3>2, <4>2
        <5>3. i - 1 = j - 1
          BY <2>9, <5>1, <5>2 DEF IsInjective
        <5>4. QED BY <2>9, <5>3
      <4>3. QED BY <4>1, <4>2
    <3>3. DOMAIN t = 1..(n + 1)
      OBVIOUS
    <3> HIDE DEF t
    <3>4. QED BY <3>2, <3>3 DEF IsInjective
  <2>13. Range(t) = A
    <3>1. ASSUME NEW k \in 1..(n + 1) PROVE t[k] \in A
      <4>1. CASE k = 1
        BY <2>8, <4>1
      <4>2. CASE k # 1
        <5>1. k - 1 \in 1..n
          BY <2>9, <4>2
        <5>2. s[k - 1] \in Range(s)
          BY <2>9, <5>1 DEF Range
        <5>3. QED BY <2>10, <4>2, <5>2
      <4>3. QED BY <4>1, <4>2
    <3>2. ASSUME NEW x \in A PROVE \E k \in 1..(n + 1) : t[k] = x
      <4>1. CASE x = h
        <5>1. 1 \in 1..(n + 1) /\ t[1] = h
          BY <2>9
        <5>2. QED BY <4>1, <5>1
      <4>2. CASE x # h
        <5>1. PICK i \in 1..n : s[i] = x
          BY <2>9, <2>10, <4>2 DEF Range
        <5>2. i + 1 \in 1..(n + 1) /\ i + 1 # 1 /\ (i + 1) - 1 = i
          BY <2>9
        <5>3. t[i + 1] = x
          BY <5>1, <5>2
        <5>4. QED BY <5>2, <5>3
      <4>3. QED BY <4>1, <4>2
    <3>3. DOMAIN t = 1..(n + 1)
      OBVIOUS
    <3> HIDE DEF t
    <3>4. QED BY <3>1, <3>2, <3>3 DEF Range
  <2> HIDE DEF t
  <2>14. QED BY <2>7, <2>11, <2>12, <2>13 DEF r, A, N
<1>4. QED BY <1>2, <1>3

-----------------------------------------------------------------------------
(* Lines of the server.                                                    *)

\* Between two words, there is a blank.
LEMMA BlankBetween ==
  ASSUME NEW str \in Str, NEW p \in WordStarts(str), NEW q \in WordStarts(str), p < q
  PROVE  q - 1 \in (p + 1)..Len(str) /\ str[q - 1] = Blank
<1>1. p \in 1..Len(str) /\ q \in 1..Len(str) /\ Len(str) \in Nat
  BY StartsFinite
<1>2. str[p] # Blank /\ (q = 1 \/ str[q - 1] = Blank)
  BY DEF WordStarts
<1>3. q - 1 # p
  BY <1>1, <1>2
<1>4. QED BY <1>1, <1>2, <1>3

\* The last word goes to the end of a line that ends with one.
LEMMA LastWord ==
  ASSUME NEW str \in Str, NEW q \in WordStarts(str), str[Len(str)] # Blank,
         Rank(str, q) = Cardinality(WordStarts(str))
  PROVE  WordFrom(str, q) = SubSeq(str, q, Len(str))
<1> DEFINE next == q + Span(str, q, {Blank})
           W == WordStarts(str)
           N == Len(str)
<1>1. /\ q \in 1..N /\ next \in (q + 1)..(N + 1) /\ N \in Nat
      /\ next <= N => str[next] = Blank
  BY WordFacts, StartsFinite
<1>2. WordFrom(str, q) = SubSeq(str, q, next - 1)
  <2> DEFINE size == Span(str, q, {Blank})
  <2>1. size \in Nat /\ q \in Nat
    <3>1. q \in 1..(N + 1)
      BY <1>1
    <3>2. size \in 0..(N + 1 - q)
      BY <3>1, SpanFacts
    <3>3. QED BY <3>1, <3>2
  <2>2. WordFrom(str, q) = SubSeq(str, q, q + size - 1)
    BY DEF WordFrom
  <2> HIDE DEF size
  <2>3. q + size - 1 = (q + size) - 1
    BY <2>1
  <2>4. QED BY <2>2, <2>3 DEF size
<1> HIDE DEF next
<1>3. CASE next <= N
  <2> DEFINE p == NextWord(str, next)
  <2>1. next \in 1..(N + 1)
    BY <1>1
  <2>2. /\ p \in next..(N + 1)
        /\ \A r \in next..(p - 1) : str[r] = Blank
        /\ p <= N => str[p] # Blank
    BY <2>1, NextWordFacts
  <2> HIDE DEF p
  <2>3. p <= N
    <3>1. ~(N \in next..(p - 1))
      BY <2>2
    <3>2. QED BY <1>1, <1>3, <2>2, <3>1
  <2>4. p # next
    BY <1>1, <1>3, <2>2, <2>3
  <2>5. p - 1 \in next..(p - 1) /\ p \in 1..N /\ q < p
    BY <1>1, <2>2, <2>3, <2>4
  <2>6. p \in W
    <3>1. str[p - 1] = Blank /\ str[p] # Blank
      BY <2>2, <2>3, <2>5
    <3>2. DOMAIN str = 1..N
      BY LenProperties DEF Str
    <3>3. QED BY <2>5, <3>1, <3>2 DEF WordStarts
  <2>7. Rank(str, p) \in 1..Cardinality(W) /\ Rank(str, q) < Rank(str, p)
    BY <2>5, <2>6, RankFacts, RankOrder
  <2>8. Cardinality(W) \in Nat
    BY StartsFinite
  <2> HIDE DEF W
  <2>9. Rank(str, q) = Cardinality(W)
    BY DEF W
  <2>10. FALSE
    BY <2>7, <2>8, <2>9
  <2>11. QED BY <2>10
<1>4. CASE ~(next <= N)
  <2>1. next - 1 = N
    BY <1>1, <1>4
  <2>2. QED BY <1>2, <2>1
<1>5. QED BY <1>3, <1>4

\* The number of places in front of the words: 1 for the prefix that a line lacks.
Off(line) == IF Head(line) = ":" THEN 0 ELSE 1

\* The words that begin with a colon and are parameters, and the last parameter.
Trailing(line) ==
  {k \in (3 - Off(line))..Len(StartsInOrder(line)) : line[StartsInOrder(line)[k]] = ":"}

LastWordOf(line) ==
  IF Trailing(line) = {} THEN Len(StartsInOrder(line)) ELSE Min(Trailing(line))

\* Where the parameters are among the words.
LEMMA ParametersFacts ==
  ASSUME NEW line \in Str, line # <<>>, ~NoCommand(line)
  PROVE  LET starts == StartsInOrder(line)
             N == Cardinality(WordStarts(line))
             off == Off(line)
             last == LastWordOf(line)
         IN  /\ N \in Nat /\ off \in 0..1 /\ last \in 1..N /\ last \in (2 - off)..N
             /\ ParameterStarts(line) = SubSeq(starts, 3 - off, last)
             /\ \A j \in (3 - off)..(last - 1) : line[starts[j]] # ":"
             /\ last < N => last >= 3 - off /\ line[starts[last]] = ":"
<1> DEFINE starts == StartsInOrder(line)
           W == WordStarts(line)
           N == Cardinality(W)
           off == Off(line)
           last == LastWordOf(line)
           words == MakeArgv(line)
           T == Trailing(line)
<1>1. N \in Nat /\ Len(line) \in Nat /\ W \subseteq 1..Len(line)
  BY StartsFinite
<1>2. /\ words \in Seq(Str) /\ Len(words) = N
      /\ \A p \in W : words[Rank(line, p)] = WordFrom(line, p)
  BY MakeArgvFacts
<1>3. starts \in Seq(Nat) /\ Len(starts) = N
  BY StartsFacts
<1>4. off \in 0..1 /\ (off = 0 <=> Head(line) = ":")
  BY DEF Off
<1>5. N # 0
  <2>1. words # <<>>
    BY DEF NoCommand
  <2> HIDE DEF N, words
  <2>2. QED BY <1>2, <2>1, EmptySeq
<1>6. off = 0 => N # 1
  <2>1. SUFFICES ASSUME off = 0, N = 1 PROVE FALSE
    OBVIOUS
  <2>2. Head(line) = ":" /\ line[1] = ":" /\ 1 \in DOMAIN line
    <3>1. Head(line) = line[1] /\ Len(line) \in Nat \ {0}
      BY TailFacts
    <3>2. DOMAIN line = 1..Len(line)
      BY LenProperties DEF Str
    <3>3. QED BY <1>4, <2>1, <3>1, <3>2
  <2>3. 1 \in W
    BY <2>2 DEF WordStarts, Blank
  <2>4. Rank(line, 1) = 1
    <3>1. Rank(line, 1) \in 1..N
      BY <2>3, RankFacts
    <3> HIDE DEF N
    <3>2. QED BY <2>1, <3>1
  <2>5. words[1] = WordFrom(line, 1)
    BY <1>2, <2>3, <2>4
  <2>6. Head(words[1]) = ":"
    <3>1. /\ WordFrom(line, 1) \in Str
          /\ Len(WordFrom(line, 1)) = Span(line, 1, {Blank})
          /\ \A i \in 1..Span(line, 1, {Blank}) : WordFrom(line, 1)[i] = line[1 + i - 1]
          /\ 1 + Span(line, 1, {Blank}) \in (1 + 1)..(Len(line) + 1)
      BY <2>3, WordFacts
    <3>2. 1 \in 1..Span(line, 1, {Blank}) /\ 1 + 1 - 1 = 1
      <4>1. Span(line, 1, {Blank}) \in 0..(Len(line) + 1 - 1)
        <5>1. 1 \in 1..(Len(line) + 1)
          BY <1>1
        <5>2. QED BY <5>1, SpanFacts
      <4>2. QED BY <1>1, <3>1, <4>1
    <3>3. WordFrom(line, 1) # <<>>
      BY <3>1, <3>2, EmptySeq
    <3>4. Head(WordFrom(line, 1)) = WordFrom(line, 1)[1]
      BY <3>1, <3>3, TailFacts
    <3>5. WordFrom(line, 1)[1] = line[1]
      BY <3>1, <3>2
    <3>6. QED BY <2>2, <2>5, <3>4, <3>5
  <2> HIDE DEF words, N
  <2>7. Len(words) = 1
    BY <1>2, <2>1
  <2>8. NoCommand(line)
    BY <2>6, <2>7 DEF NoCommand, words
  <2>9. QED BY <2>8
<1>7. T = {k \in (3 - off)..N : line[starts[k]] = ":"}
  BY <1>3 DEF Trailing
<1>8. last = IF T = {} THEN N ELSE Min(T)
  BY <1>3 DEF LastWordOf
<1>9. ParameterStarts(line) = SubSeq(starts, 3 - off, last)
  <2>1. (IF Head(line) = ":" THEN 3 ELSE 2) = 3 - off
    BY <1>4
  <2>2. QED BY <2>1 DEF ParameterStarts, Trailing, LastWordOf
<1> HIDE DEF starts, W, N, off, last, T
<1>10. T # {} => last \in T /\ \A k \in T : last <= k
  <2>1. T \subseteq Nat
    BY <1>1, <1>4, <1>7
  <2>2. QED BY <1>8, <2>1, MinFacts
<1>11. last \in (2 - off)..N /\ last \in 1..N
  BY <1>1, <1>4, <1>5, <1>6, <1>7, <1>8, <1>10
<1>12. ASSUME NEW j \in (3 - off)..(last - 1) PROVE line[starts[j]] # ":"
  <2>1. j \in (3 - off)..N /\ ~(last <= j)
    BY <1>1, <1>4, <1>11
  <2>2. QED BY <1>7, <1>10, <2>1
<1>13. last < N => last >= 3 - off /\ line[starts[last]] = ":"
  BY <1>1, <1>4, <1>7, <1>8, <1>10, <1>11, SMTT(30)
<1>14. QED BY <1>1, <1>4, <1>9, <1>11, <1>12, <1>13 DEF starts, W, N, off, last

\* The arguments of a line: prefix, command and parameters.
Arguments(line, strip) ==
  LET words == MakeArgv(line)
      starts == ParameterStarts(line)
  IN (IF Head(line) = ":" THEN SubSeq(words, 1, 2) ELSE <<Picked, words[1]>>)
       \o [k \in DOMAIN starts |->
            IF line[starts[k]] = ":"
            THEN SubSeq(line, starts[k] + (IF strip THEN 1 ELSE 0), Len(line))
            ELSE WordFrom(line, starts[k])]

\* The word j of a line as an argument: a parameter with a colon goes to the end of
\* the line.
Argument(line, strip, j) ==
  LET p == StartsInOrder(line)[j]
  IN IF j >= 3 - Off(line) /\ line[p] = ":"
     THEN SubSeq(line, p + (IF strip THEN 1 ELSE 0), Len(line))
     ELSE WordFrom(line, p)

\* Word for word.
LEMMA ArgumentsFacts ==
  ASSUME NEW line \in Str, line # <<>>, ~NoCommand(line), NEW strip \in BOOLEAN
  PROVE  LET all == Arguments(line, strip)
             off == Off(line)
             last == LastWordOf(line)
         IN  /\ Len(all) = last + off /\ DOMAIN all = 1..(last + off)
             /\ \A j \in 1..last : all[j + off] = Argument(line, strip, j)
             /\ off = 1 => all[1] = Picked
<1> DEFINE starts == StartsInOrder(line)
           N == Cardinality(WordStarts(line))
           off == Off(line)
           last == LastWordOf(line)
           words == MakeArgv(line)
           params == ParameterStarts(line)
           two == IF Head(line) = ":" THEN SubSeq(words, 1, 2) ELSE <<Picked, words[1]>>
           text(p) == IF line[p] = ":"
                      THEN SubSeq(line, p + (IF strip THEN 1 ELSE 0), Len(line))
                      ELSE WordFrom(line, p)
           texts == [k \in DOMAIN params |-> text(params[k])]
           all == Arguments(line, strip)
           n == last + off - 2
<1>1. /\ N \in Nat /\ off \in 0..1 /\ last \in 1..N /\ last \in (2 - off)..N
      /\ params = SubSeq(starts, 3 - off, last)
      /\ \A j \in (3 - off)..(last - 1) : line[starts[j]] # ":"
      /\ last < N => last >= 3 - off /\ line[starts[last]] = ":"
  BY ParametersFacts
<1>2. /\ starts \in Seq(Nat) /\ Len(starts) = N
      /\ \A j \in 1..N : starts[j] \in WordStarts(line) /\ Rank(line, starts[j]) = j
  BY StartsFacts
<1>3. /\ words \in Seq(Str) /\ Len(words) = N
      /\ \A j \in 1..N : words[j] = WordFrom(line, starts[j])
  <2>1. /\ words \in Seq(Str) /\ Len(words) = N
        /\ \A p \in WordStarts(line) : words[Rank(line, p)] = WordFrom(line, p)
    BY MakeArgvFacts
  <2> HIDE DEF words, starts, N
  <2>2. QED BY <1>2, <2>1
<1>4. off \in 0..1 /\ (off = 0 <=> Head(line) = ":")
  BY DEF Off
<1>5. Len(line) \in Nat /\ WordStarts(line) \subseteq 1..Len(line)
  BY StartsFinite
<1>6. all = two \o texts
  BY DEF Arguments
<1> HIDE DEF all, texts, two, params, starts, N, words, last, off
<1>7. /\ params \in Seq(Nat) /\ Len(params) = n /\ DOMAIN params = 1..n /\ n \in Nat
      /\ \A k \in 1..n : params[k] = starts[k + 2 - off] /\ k + 2 - off \in (3 - off)..last
  <2>1. n \in Nat
    BY <1>1
  <2>2. /\ params \in Seq(Nat)
        /\ Len(params) = IF 3 - off <= last THEN last - (3 - off) + 1 ELSE 0
        /\ \A k \in 1..(last - (3 - off) + 1) : params[k] = starts[(3 - off) + k - 1]
    <3>1. 3 - off \in Int /\ last \in Int
      BY <1>1
    <3>2. \A i \in (3 - off)..last : starts[i] \in Nat
      <4>1. (3 - off)..last \subseteq 1..N
        BY <1>1
      <4>2. \A i \in 1..N : starts[i] \in Nat
        BY <1>2, ElementOfSeq
      <4>3. QED BY <4>1, <4>2
    <3> DEFINE b == 3 - off
    <3> HIDE DEF b
    <3>3. b \in Int /\ \A i \in b..last : starts[i] \in Nat
      BY <3>1, <3>2 DEF b
    <3>4. /\ SubSeq(starts, b, last) \in Seq(Nat)
          /\ Len(SubSeq(starts, b, last)) = IF b <= last THEN last - b + 1 ELSE 0
          /\ \A k \in 1..(last - b + 1) : SubSeq(starts, b, last)[k] = starts[b + k - 1]
      BY <3>1, <3>3, SubSeqProperties
    <3>5. QED BY <1>1, <3>4 DEF b
  <2>3. last - (3 - off) + 1 = n /\ \A k \in 1..n : (3 - off) + k - 1 = k + 2 - off
    BY <1>1
  <2>4. Len(params) = n
    BY <1>1, <2>2, <2>3
  <2>5. \A k \in 1..n : k + 2 - off \in (3 - off)..last
    BY <1>1
  <2>6. DOMAIN params = 1..n
    BY <2>2, <2>4, LenProperties
  <2>7. QED BY <2>1, <2>2, <2>3, <2>4, <2>5, <2>6
<1>8. texts \in Seq(Str) /\ Len(texts) = n /\ \A k \in 1..n : texts[k] = text(params[k])
  <2>1. ASSUME NEW k \in 1..n PROVE text(params[k]) \in Str
    <3>1. k + 2 - off \in 1..N
      BY <1>1, <1>7
    <3>2. params[k] \in WordStarts(line)
      BY <1>2, <1>7, <3>1
    <3> DEFINE p == params[k]
               q == p + (IF strip THEN 1 ELSE 0)
    <3>3. q \in 1..(Len(line) + 1) /\ Len(line) \in (q - 1)..Len(line)
      BY <1>5, <3>2
    <3>4. WordFrom(line, p) \in Str
      BY <3>2, WordFacts
    <3> HIDE DEF q
    <3>5. SubSeq(line, q, Len(line)) \in Str
      BY <3>3, PartFacts
    <3>6. QED BY <3>4, <3>5 DEF q
  <2> HIDE DEF text
  <2>2. texts = [k \in 1..n |-> text(params[k])]
    BY <1>7 DEF texts
  <2> HIDE DEF n
  <2>3. QED BY <1>7, <2>1, <2>2
<1>9. /\ two \in Seq(Str) /\ Len(two) = 2
      /\ off = 1 => two[1] = Picked /\ two[2] = words[1]
      /\ off = 0 => two[1] = words[1] /\ two[2] = words[2]
  <2>1. CASE off = 0
    <3>1. two = SubSeq(words, 1, 2)
      BY <1>4, <2>1 DEF two
    <3>2. N >= 2
      BY <1>1, <2>1
    <3>3. \A i \in 1..2 : words[i] \in Str
      <4>1. \A i \in 1..2 : i \in 1..Len(words)
        BY <1>1, <1>3, <3>2
      <4>2. QED BY <1>3, <4>1, ElementOfSeq
    <3>4. /\ SubSeq(words, 1, 2) \in Seq(Str)
          /\ Len(SubSeq(words, 1, 2)) = IF 1 <= 2 THEN 2 - 1 + 1 ELSE 0
          /\ \A i \in 1..(2 - 1 + 1) : SubSeq(words, 1, 2)[i] = words[1 + i - 1]
      BY <3>3, SubSeqProperties
    <3>5. QED BY <2>1, <3>1, <3>4
  <2>2. CASE off = 1
    <3>1. two = <<Picked, words[1]>>
      BY <1>4, <2>2 DEF two
    <3>2. Picked \in Str /\ words[1] \in Str
      <4>1. 1 \in 1..Len(words)
        BY <1>1, <1>3
      <4>2. QED BY <1>3, <4>1, ElementOfSeq, WordsOK DEF Str
    <3>3. QED BY <2>2, <3>1, <3>2
  <2>3. QED BY <1>4, <2>1, <2>2
<1>10. /\ all \in Seq(Str) /\ Len(all) = 2 + n
       /\ \A k \in 1..(2 + n) : all[k] = IF k <= 2 THEN two[k] ELSE texts[k - 2]
  <2> HIDE DEF n
  <2>1. /\ two \o texts \in Seq(Str) /\ Len(two \o texts) = Len(two) + Len(texts)
        /\ \A i \in 1..(Len(two) + Len(texts)) :
             (two \o texts)[i] = IF i <= Len(two) THEN two[i] ELSE texts[i - Len(two)]
    <3>1. two \in Seq(Str) /\ texts \in Seq(Str)
      BY <1>8, <1>9
    <3> HIDE DEF two, texts
    <3>2. QED BY <3>1, ConcatProperties
  <2>2. Len(two) = 2 /\ Len(texts) = n /\ n \in Nat
    BY <1>7, <1>8, <1>9
  <2>3. QED BY <1>6, <2>1, <2>2
<1>11. 2 + n = last + off /\ last + off \in Nat
  BY <1>1
<1>12. DOMAIN all = 1..(last + off)
  BY <1>10, <1>11, LenProperties
<1>13. ASSUME NEW j \in 1..last PROVE all[j + off] = Argument(line, strip, j)
  <2>1. j + off \in 1..(2 + n) /\ j \in 1..N
    BY <1>1
  <2>2. Argument(line, strip, j) = IF j >= 3 - off /\ line[starts[j]] = ":"
                                   THEN text(starts[j]) ELSE WordFrom(line, starts[j])
    BY DEF Argument, off, starts
  <2> HIDE DEF text
  <2>3. CASE j + off <= 2
    <3>1. ~(j >= 3 - off) /\ (j + off = 1 \/ j + off = 2)
      BY <1>1, <2>3
    <3>2. all[j + off] = two[j + off]
      BY <1>10, <2>1, <2>3
    <3>3. two[j + off] = words[j]
      <4>1. (off = 1 /\ j = 1) \/ (off = 0 /\ j = 1) \/ (off = 0 /\ j = 2)
        BY <1>1, <3>1
      <4>2. QED BY <1>9, <4>1
    <3>4. QED BY <1>3, <2>1, <2>2, <3>1, <3>2, <3>3
  <2>4. CASE ~(j + off <= 2)
    <3> DEFINE k == j + off - 2
    <3>1. k \in 1..n /\ j >= 3 - off /\ k + 2 - off = j /\ (j + off) - 2 = k
      BY <1>1, <2>4
    <3>2. all[j + off] = texts[(j + off) - 2]
      BY <1>10, <2>1, <2>4
    <3> HIDE DEF k, n
    <3>3. all[j + off] = text(starts[j])
      BY <1>7, <1>8, <3>1, <3>2
    <3>4. text(starts[j]) = IF line[starts[j]] = ":" THEN text(starts[j])
                            ELSE WordFrom(line, starts[j])
      BY DEF text
    <3>5. QED BY <2>2, <3>1, <3>3, <3>4
  <2>5. QED BY <2>3, <2>4
<1>14. off = 1 => all[1] = Picked
  <2>1. 1 \in 1..(2 + n) /\ 1 <= 2
    BY <1>7
  <2>2. all[1] = two[1]
    BY <1>10, <2>1
  <2>3. QED BY <1>9, <2>2
<1>15. QED BY <1>10, <1>11, <1>12, <1>13, <1>14 DEF all, off, last

\* The first character of a word, and of an argument.
LEMMA FirstOfWord ==
  ASSUME NEW str \in Str, NEW q \in WordStarts(str)
  PROVE  /\ WordFrom(str, q) \in Str /\ WordFrom(str, q) # <<>>
         /\ Head(WordFrom(str, q)) = str[q]
         /\ str[q] \in Range(WordFrom(str, q))
<1> DEFINE w == WordFrom(str, q)
           size == Span(str, q, {Blank})
<1>1. /\ w \in Str /\ Len(w) = size /\ q \in 1..Len(str)
      /\ q + size \in (q + 1)..(Len(str) + 1)
      /\ \A i \in 1..size : w[i] = str[q + i - 1]
  BY WordFacts
<1>2. Len(str) \in Nat
  BY StartsFinite
<1>3. size \in 0..(Len(str) + 1 - q)
  <2>1. q \in 1..(Len(str) + 1)
    BY <1>1, <1>2
  <2>2. QED BY <2>1, SpanFacts
<1> HIDE DEF w, size
<1>4. 1 \in 1..size /\ q + 1 - 1 = q
  BY <1>1, <1>2, <1>3
<1>5. w[1] = str[q]
  BY <1>1, <1>4
<1>6. w # <<>>
  BY <1>1, <1>4, EmptySeq
<1>7. Head(w) = w[1]
  BY <1>1, <1>6, TailFacts
<1>8. w[1] \in Range(w)
  <2>1. DOMAIN w = 1..size
    BY <1>1, LenProperties DEF Str
  <2>2. QED BY <1>4, <2>1 DEF Range
<1>9. QED BY <1>1, <1>5, <1>6, <1>7, <1>8 DEF w

\* A line fits a handler that wants n arguments: the last parameter is a single word or
\* the last argument that is wanted, no quote begins a word before that, and there is
\* no colon in front of the command.
Fits(line, strip, n) ==
  /\ line[Len(line)] # Blank
  /\ line[StartsInOrder(line)[2 - Off(line)]] # ":"
  /\ LastWordOf(line) + Off(line) <= n
  /\ LastWordOf(line) + Off(line) < n =>
       Blank \notin Range(Argument(line, strip, LastWordOf(line)))
  /\ \A j \in 1..LastWordOf(line) :
       j + Off(line) < n => Range(Argument(line, strip, j)) \cap Quotes = {}

\* The arguments of a line before the colon of the last one is stripped: nothing but
\* the words up to the last parameter.
LEMMA WordsGiven ==
  ASSUME NEW line \in Str, line # <<>>, ~NoCommand(line), NEW strip \in BOOLEAN,
         NEW n \in Nat, n >= 2, NEW more \in Nat, Fits(line, strip, n)
  PROVE  LET m == MakeMaxArgv(line, n - Off(line), more)
             last == LastWordOf(line)
         IN  /\ m.argc = last /\ DOMAIN m.argv = 1..last /\ m.is = "argv"
             /\ \A j \in 1..last : m.argv[j] = Argument(line, FALSE, j)
<1> DEFINE starts == StartsInOrder(line)
           W == WordStarts(line)
           N == Cardinality(W)
           L == Len(line)
           off == Off(line)
           last == LastWordOf(line)
           b == n - off
           m == MakeMaxArgv(line, b, more)
           colon(j) == j >= 3 - off /\ line[starts[j]] = ":"
           e == IF strip THEN 1 ELSE 0
<1>0. /\ line[L] # Blank /\ last + off <= n
      /\ last + off < n => Blank \notin Range(Argument(line, strip, last))
      /\ \A j \in 1..last : j + off < n => Range(Argument(line, strip, j)) \cap Quotes = {}
  BY DEF Fits
<1>1. /\ N \in Nat /\ off \in 0..1 /\ last \in 1..N /\ last \in (2 - off)..N
      /\ \A j \in (3 - off)..(last - 1) : line[starts[j]] # ":"
      /\ last < N => last >= 3 - off /\ line[starts[last]] = ":"
  BY ParametersFacts
<1>2. /\ \A j \in 1..N : starts[j] \in W /\ Rank(line, starts[j]) = j
      /\ \A p \in W : starts[Rank(line, p)] = p
  BY StartsFacts
<1>3. L \in Nat /\ W \subseteq 1..L
  BY StartsFinite
<1>4. b \in Nat \ {0} /\ \A j \in 1..last : j < b <=> j + off < n
  BY <1>1
<1>5. last <= b /\ (last < b <=> last + off < n)
  BY <1>0, <1>1
<1>6. \A j \in 1..last : Argument(line, strip, j) =
        IF colon(j) THEN SubSeq(line, starts[j] + e, L) ELSE WordFrom(line, starts[j])
  BY DEF Argument
<1>7. \A j \in 1..last : Argument(line, FALSE, j) =
        IF colon(j) THEN SubSeq(line, starts[j], L) ELSE WordFrom(line, starts[j])
  <2>1. ASSUME NEW j \in 1..last
        PROVE  Argument(line, FALSE, j) =
                 IF colon(j) THEN SubSeq(line, starts[j], L) ELSE WordFrom(line, starts[j])
    <3>1. starts[j] \in 1..L
      BY <1>1, <1>2, <1>3
    <3>2. starts[j] + 0 = starts[j]
      BY <1>3, <3>1
    <3>3. Argument(line, FALSE, j) =
            IF colon(j) THEN SubSeq(line, starts[j] + 0, L) ELSE WordFrom(line, starts[j])
      BY DEF Argument
    <3>4. QED BY <3>2, <3>3
  <2>2. QED BY <2>1
<1>8. last < b => last = N
  <2>1. SUFFICES ASSUME last < b, last < N PROVE FALSE
    BY <1>1
  <2> DEFINE p == starts[last]
             q == starts[last + 1]
  <2>2. p \in W /\ q \in W /\ Rank(line, p) = last /\ Rank(line, q) = last + 1
    <3>1. last + 1 \in 1..N
      BY <1>1, <2>1
    <3>2. QED BY <1>1, <1>2, <3>1
  <2>3. p < q
    BY <1>1, <2>2, RankOrder
  <2>4. q - 1 \in (p + 1)..L /\ line[q - 1] = Blank
    BY <2>2, <2>3, BlankBetween
  <2>5. colon(last)
    BY <1>1, <2>1
  <2>6. last \in 1..last
    BY <1>1
  <2>7. Argument(line, strip, last) = SubSeq(line, p + e, L)
    BY <1>6, <2>5, <2>6
  <2>8. p \in 1..L /\ q \in 1..L
    BY <1>3, <2>2
  <2>9. e \in 0..1
    OBVIOUS
  <2> DEFINE r == p + e
             i == q - r
  <2> HIDE DEF p, q, e
  <2>10. r \in 1..(L + 1) /\ L \in (r - 1)..L /\ i \in 1..(L - r + 1) /\ r + i - 1 = q - 1
    BY <1>3, <2>4, <2>8, <2>9
  <2> HIDE DEF r, i
  <2>11. /\ SubSeq(line, r, L) \in Str /\ Len(SubSeq(line, r, L)) = L - r + 1
         /\ \A k \in 1..(L - r + 1) : SubSeq(line, r, L)[k] = line[r + k - 1]
    BY <2>10, PartFacts
  <2>12. SubSeq(line, r, L)[i] = Blank
    BY <2>4, <2>10, <2>11
  <2>13. Blank \in Range(SubSeq(line, r, L))
    <3>1. DOMAIN SubSeq(line, r, L) = 1..(L - r + 1)
      BY <2>11, LenProperties DEF Str
    <3>2. QED BY <2>10, <2>12, <3>1 DEF Range
  <2>14. last + off < n
    BY <1>5, <2>1
  <2>15. QED BY <1>0, <2>7, <2>13, <2>14 DEF r
<1>9. ASSUME NEW j \in 1..last, j < b PROVE line[starts[j]] \notin Quotes
  <2>1. starts[j] \in W
    BY <1>1, <1>2
  <2>2. CASE colon(j)
    BY <2>2 DEF Quotes
  <2>3. CASE ~colon(j)
    <3>1. Range(WordFrom(line, starts[j])) \cap Quotes = {}
      BY <1>0, <1>4, <1>6, <1>9, <2>3
    <3>2. line[starts[j]] \in Range(WordFrom(line, starts[j]))
      BY <2>1, FirstOfWord
    <3>3. QED BY <3>1, <3>2
  <2>4. QED BY <2>2, <2>3
<1>10. ASSUME NEW q \in W, Rank(line, q) < b PROVE Regular(line, Quotes, q)
  <2>1. Rank(line, q) \in 1..N /\ starts[Rank(line, q)] = q
    BY <1>2, RankFacts
  <2>2. Rank(line, q) \in 1..last
    BY <1>1, <1>4, <1>5, <1>8, <1>10, <2>1
  <2>3. line[q] \notin Quotes
    BY <1>9, <1>10, <2>1, <2>2
  <2>4. QED BY <2>3 DEF Regular, Quoted
<1>11. /\ m.argc = IF N <= b THEN N ELSE b
       /\ DOMAIN m.argv = 1..m.argc
       /\ \A p \in W : Rank(line, p) < b => m.argv[Rank(line, p)] = Taken(line, Quotes, p)
       /\ \A p \in W : Rank(line, p) = b => m.argv[b] = SubSeq(line, p, L)
  <2>1. b \in Nat \ {0} /\ \A q \in W : Rank(line, q) < b => Regular(line, Quotes, q)
    BY <1>4, <1>10
  <2> HIDE DEF b
  <2>2. /\ m.argc = IF N <= b THEN N ELSE b
        /\ DOMAIN m.argv = 1..m.argc
        /\ m.argv = [k \in 1..m.argc |-> m.argv[k]]
        /\ \A p \in W : Rank(line, p) < b => m.argv[Rank(line, p)] = Taken(line, Quotes, p)
        /\ \A p \in W : Rank(line, p) = b => m.argv[b] = SubSeq(line, p, L)
    BY <2>1, ArgvWords, ZenonT(60)
  <2>3. QED BY <2>2
<1> HIDE DEF m, b, N, last, off
<1>12. m.argc = last
  BY <1>1, <1>4, <1>5, <1>8, <1>11
<1>13. ASSUME NEW j \in 1..last PROVE m.argv[j] = Argument(line, FALSE, j)
  <2> DEFINE p == starts[j]
  <2>1. p \in W /\ Rank(line, p) = j /\ j \in Nat /\ j <= b
    BY <1>1, <1>2, <1>4, <1>5
  <2>2. j < b => m.argv[j] = WordFrom(line, p)
    BY <1>9, <1>11, <2>1 DEF Taken, Quoted
  <2>3. j = b => m.argv[j] = SubSeq(line, p, L)
    BY <1>11, <2>1
  <2>4. Argument(line, FALSE, j) = IF colon(j) THEN SubSeq(line, p, L) ELSE WordFrom(line, p)
    BY <1>7
  <2>5. CASE j < last
    <3>1. j < b /\ ~colon(j)
      BY <1>1, <1>4, <1>5, <2>1, <2>5
    <3>2. QED BY <2>2, <2>4, <3>1
  <2>6. CASE j = last /\ last = N
    <3>1. WordFrom(line, p) = SubSeq(line, p, L)
      BY <1>0, <2>1, <2>6, LastWord DEF N
    <3>2. j < b \/ j = b
      BY <1>4, <2>1
    <3>3. m.argv[j] = SubSeq(line, p, L)
      BY <2>2, <2>3, <3>1, <3>2
    <3>4. Argument(line, FALSE, j) = SubSeq(line, p, L)
      BY <2>4, <3>1
    <3>5. QED BY <3>3, <3>4
  <2>7. CASE j = last /\ last # N
    <3>1. j = b /\ colon(j)
      BY <1>1, <1>4, <1>5, <1>8, <2>1, <2>7
    <3>2. QED BY <2>3, <2>4, <3>1
  <2>8. j < last \/ j = last
    BY <1>1
  <2>9. QED BY <2>5, <2>6, <2>7, <2>8
<1>14. m.is = "argv"
  <2>1. DOMAIN m.argv = 1..m.argc
    BY <1>11
  <2>2. \A a : m = MakeMaxArgv(line, a, more) /\ a \in Nat \ {0} => m.is = "argv"
    BY <2>1, ArgvType
  <2>3. m = MakeMaxArgv(line, b, more)
    BY DEF m
  <2>4. QED BY <1>4, <2>2, <2>3
<1>15. QED BY <1>11, <1>12, <1>13, <1>14 DEF m, b, last, off

\* What is put in front of the arguments.
LEMMA InFrontFacts ==
  ASSUME NEW first, NEW c \in Nat, NEW argv, DOMAIN argv \subseteq 1..c
  PROVE  /\ DOMAIN InFront(first, argv) \subseteq 1..(c + 1)
         /\ DOMAIN argv = 1..c => DOMAIN InFront(first, argv) = 1..(c + 1)
         /\ InFront(first, argv)[1] = first
<1> DEFINE D == {1} \cup {j + 1 : j \in DOMAIN argv}
           f == InFront(first, argv)
<1>1. f = [k \in D |-> IF k = 1 THEN first ELSE argv[k - 1]]
  BY DEF InFront
<1>2. DOMAIN f = D
  BY <1>1
<1>3. D \subseteq 1..(c + 1)
  OBVIOUS
<1>4. ASSUME DOMAIN argv = 1..c, NEW k \in 1..(c + 1) PROVE k \in D
  <2>1. k = 1 \/ (k - 1 \in 1..c /\ k = (k - 1) + 1)
    OBVIOUS
  <2>2. QED BY <1>4, <2>1
<1>5. f[1] = first
  <2>1. 1 \in D
    OBVIOUS
  <2> HIDE DEF f, D
  <2>2. QED BY <1>1, <2>1
<1> HIDE DEF f
<1>6. QED BY <1>2, <1>3, <1>4, <1>5 DEF f

\* The arguments of a handler: those of the line, without a colon, and empty ones.
LEMMA HandlerArguments ==
  ASSUME NEW line \in Str, line # <<>>, ~NoCommand(line), NEW strip \in BOOLEAN,
         NEW n \in Nat, n >= 2, NEW more \in Nat, Fits(line, strip, n)
  PROVE  LET all == Arguments(line, strip)
         IN  /\ HandlerArgv(line, n, strip, more)
                  = [k \in 1..n |-> IF k \in DOMAIN all THEN all[k] ELSE <<>>]
             /\ Given(line, n, more).is = "argv"
<1> DEFINE starts == StartsInOrder(line)
           N == Cardinality(WordStarts(line))
           off == Off(line)
           last == LastWordOf(line)
           c == last + off
           m == MakeMaxArgv(line, n - off, more)
           all == Arguments(line, strip)
           given == Given(line, n, more)
           p == starts[last]
<1>0. c <= n /\ line[starts[2 - off]] # ":"
  BY DEF Fits
<1>1. /\ N \in Nat /\ off \in 0..1 /\ last \in 1..N /\ last \in (2 - off)..N
      /\ \A j \in (3 - off)..(last - 1) : line[starts[j]] # ":"
  BY ParametersFacts
<1>2. \A j \in 1..N : starts[j] \in WordStarts(line)
  BY StartsFacts
<1>3. Len(line) \in Nat /\ WordStarts(line) \subseteq 1..Len(line)
  BY StartsFinite
<1>4. /\ m.argc = last /\ DOMAIN m.argv = 1..last /\ m.is = "argv"
      /\ \A j \in 1..last : m.argv[j] = Argument(line, FALSE, j)
  BY WordsGiven
<1>5. /\ DOMAIN all = 1..c
      /\ \A j \in 1..last : all[j + off] = Argument(line, strip, j)
      /\ off = 1 => all[1] = Picked
  BY ArgumentsFacts
<1>6. off = 0 <=> Head(line) = ":"
  BY DEF Off
<1>7. /\ given.argc = c /\ DOMAIN given.argv = 1..c /\ given.is = "argv"
      /\ \A j \in 1..last : given.argv[j + off] = Argument(line, FALSE, j)
      /\ off = 1 => given.argv[1] = Picked
  <2>1. CASE off = 0
    <3>1. given = MakeMaxArgv(line, n, more)
      BY <1>6, <2>1 DEF Given
    <3>2. n - off = n /\ c = last /\ \A j \in 1..last : j + off = j
      BY <1>1, <2>1
    <3> HIDE DEF given, last, off
    <3>3. given = m
      BY <3>1, <3>2
    <3> HIDE DEF m, c
    <3>4. \A j \in 1..last : given.argv[j + off] = Argument(line, FALSE, j)
      BY <1>4, <3>2, <3>3
    <3>5. given.argc = c /\ DOMAIN given.argv = 1..c /\ given.is = "argv"
      BY <1>4, <3>2, <3>3
    <3>6. off # 1
      BY <2>1
    <3>7. QED BY <3>4, <3>5, <3>6, Zenon
  <2>2. CASE off = 1
    <3>1. given = [is |-> m.is, argc |-> m.argc + 1, argv |-> InFront(Picked, m.argv)]
      <4>1. given = [is   |-> MakeMaxArgv(line, n - 1, more).is,
                     argc |-> MakeMaxArgv(line, n - 1, more).argc + 1,
                     argv |-> InFront(Picked, MakeMaxArgv(line, n - 1, more).argv)]
        BY <1>6, <2>2 DEF Given
      <4> HIDE DEF given, off
      <4>2. QED BY <2>2, <4>1
    <3> HIDE DEF m, given, last, off
    <3>2. /\ given.argc = m.argc + 1 /\ given.argv = InFront(Picked, m.argv)
          /\ given.is = m.is
      BY <3>1
    <3>3. last \in Nat
      BY <1>1
    <3>4. /\ DOMAIN InFront(Picked, m.argv) = 1..(last + 1)
          /\ InFront(Picked, m.argv)[1] = Picked
          /\ \A j \in 1..last : InFront(Picked, m.argv)[j + 1] = m.argv[j]
      <4> DEFINE argv == m.argv
      <4>1. DOMAIN argv = 1..last /\ DOMAIN argv \subseteq 1..last
        BY <1>4
      <4> HIDE DEF argv
      <4>2. /\ DOMAIN InFront(Picked, argv) = 1..(last + 1)
            /\ InFront(Picked, argv)[1] = Picked
            /\ \A j \in 1..last : InFront(Picked, argv)[j + 1] = argv[j]
        <5>1. /\ DOMAIN argv = 1..last => DOMAIN InFront(Picked, argv) = 1..(last + 1)
              /\ InFront(Picked, argv)[1] = Picked
              /\ \A j \in DOMAIN argv : InFront(Picked, argv)[j + 1] = argv[j]
          <6>1. DOMAIN argv \subseteq 1..last
            BY <4>1
          <6> HIDE DEF argv
          <6>2. DOMAIN argv = 1..last => DOMAIN InFront(Picked, argv) = 1..(last + 1)
            BY <3>3, <6>1, InFrontFacts
          <6>3. InFront(Picked, argv)[1] = Picked
            BY <3>3, <6>1, InFrontFacts
          <6>4. \A j \in 1..last : j \in DOMAIN argv => InFront(Picked, argv)[j + 1] = argv[j]
            <7>1. ASSUME NEW j \in 1..last PROVE InFront(Picked, argv)[j + 1] = argv[j]
              <8> DEFINE D == {1} \cup {i + 1 : i \in DOMAIN argv}
              <8>1. j + 1 \in D /\ j + 1 # 1 /\ (j + 1) - 1 = j
                <9>1. DOMAIN argv = 1..last
                  BY <4>1
                <9>2. D = {1} \cup {i + 1 : i \in 1..last}
                  BY <9>1
                <9> HIDE DEF D
                <9>3. QED BY <3>3, <9>2
              <8>2. InFront(Picked, argv) = [k \in D |-> IF k = 1 THEN Picked ELSE argv[k - 1]]
                BY DEF InFront
              <8> HIDE DEF D
              <8>3. QED BY <8>1, <8>2
            <7>2. QED BY <4>1, <7>1
          <6>5. QED BY <4>1, <6>2, <6>3, <6>4
        <5>2. QED BY <4>1, <5>1
      <4>3. QED BY <4>2 DEF argv
    <3>5. QED BY <1>4, <2>2, <3>2, <3>4
  <2>3. off = 0 \/ off = 1
    BY <1>1
  <2> HIDE DEF off, last, c, m, given
  <2>4. QED BY <2>1, <2>2, <2>3
<1>8. p \in WordStarts(line) /\ p \in 1..Len(line) /\ last \in 1..last
  BY <1>1, <1>2, <1>3
<1> DEFINE x == given.argv[c]
           stripped == strip /\ x # <<>> /\ Head(x) = ":"
           argv == IF stripped THEN [given.argv EXCEPT ![c] = Tail(@)] ELSE given.argv
<1>9. c \in 1..c /\ c \in Nat /\ c <= n
  BY <1>0, <1>1
<1>10. HandlerArgv(line, n, strip, more)
         = [k \in DOMAIN argv \cup (c + 1)..n |-> IF k > c THEN <<>> ELSE argv[k]]
  <2>1. c \in DOMAIN given.argv /\ given.argc = c
    BY <1>7, <1>9
  <2> DEFINE d == given.argc
             old == /\ strip
                    /\ d \in DOMAIN given.argv
                    /\ given.argv[d] # <<>> /\ Head(given.argv[d]) = ":"
             new == IF old THEN [given.argv EXCEPT ![d] = Tail(@)] ELSE given.argv
  <2>2. HandlerArgv(line, n, strip, more)
          = [k \in DOMAIN new \cup (d + 1)..n |-> IF k > d THEN <<>> ELSE new[k]]
    BY DEF HandlerArgv
  <2>3. d = c
    BY <2>1
  <2> HIDE DEF c, given, d
  <2>4. old <=> stripped
    BY <2>1, <2>3
  <2> HIDE DEF old, stripped
  <2>5. new = argv
    BY <2>3, <2>4
  <2> HIDE DEF new, argv
  <2>6. QED BY <2>2, <2>3, <2>5
<1>11. /\ x = IF last >= 3 - off /\ line[p] = ":" THEN SubSeq(line, p, Len(line))
              ELSE WordFrom(line, p)
       /\ x = Argument(line, FALSE, last)
  <2>1. x = Argument(line, FALSE, last)
    BY <1>7, <1>8
  <2>2. p + 0 = p
    BY <1>8
  <2>3. Argument(line, FALSE, last) =
          IF last >= 3 - off /\ line[p] = ":" THEN SubSeq(line, p + 0, Len(line))
          ELSE WordFrom(line, p)
    BY DEF Argument
  <2>4. QED BY <2>1, <2>2, <2>3
<1>12. Argument(line, strip, last)
         = IF last >= 3 - off /\ line[p] = ":"
           THEN SubSeq(line, p + (IF strip THEN 1 ELSE 0), Len(line)) ELSE WordFrom(line, p)
  BY DEF Argument
<1>13. ASSUME NEW j \in 1..last, j < last
       PROVE  Argument(line, FALSE, j) = Argument(line, strip, j)
  <2>1. ~(j >= 3 - off /\ line[starts[j]] = ":")
    BY <1>1, <1>13
  <2>2. QED BY <2>1 DEF Argument
<1>14. /\ stripped => Tail(x) = Argument(line, strip, last)
       /\ ~stripped => x = Argument(line, strip, last)
  <2>1. CASE last >= 3 - off /\ line[p] = ":"
    <3>1. x = SubSeq(line, p, Len(line))
      BY <1>11, <2>1
    <3>2. x # <<>> /\ Head(x) = ":"
      <4>1. p \in 1..(Len(line) + 1) /\ Len(line) \in (p - 1)..Len(line)
            /\ 1 \in 1..(Len(line) - p + 1) /\ p + 1 - 1 = p
        BY <1>3, <1>8
      <4>2. /\ SubSeq(line, p, Len(line)) \in Str
            /\ Len(SubSeq(line, p, Len(line))) = Len(line) - p + 1
            /\ \A i \in 1..(Len(line) - p + 1) : SubSeq(line, p, Len(line))[i] = line[p + i - 1]
        BY <4>1, PartFacts
      <4> HIDE DEF x, p
      <4> DEFINE L == Len(line) - p + 1
      <4>5. x \in Str /\ Len(x) = L /\ L # 0
        BY <3>1, <4>1, <4>2
      <4>6. x[1] = line[p + 1 - 1]
        BY <3>1, <4>1, <4>2
      <4> HIDE DEF L
      <4>3. x \in Str /\ x[1] = ":" /\ x # <<>>
        BY <2>1, <4>1, <4>5, <4>6, EmptySeq
      <4>4. QED BY <4>3, TailFacts
    <3>3. Tail(x) = SubSeq(line, p + 1, Len(line))
      <4>1. p \in 1..Len(line) /\ Len(line) \in p..Len(line) /\ line \in Seq(Char)
        BY <1>3, <1>8 DEF Str
      <4> HIDE DEF x, p
      <4>2. QED BY <3>1, <4>1, HeadTailOfSubSeq
    <3>4. p + 0 = p
      BY <1>8
    <3> HIDE DEF x
    <3>5. CASE strip = TRUE
      BY <1>12, <2>1, <3>2, <3>3, <3>5
    <3>6. CASE strip = FALSE
      BY <1>12, <2>1, <3>1, <3>4, <3>6
    <3>7. QED BY <3>5, <3>6
  <2>2. CASE ~(last >= 3 - off /\ line[p] = ":")
    <3>1. x = WordFrom(line, p) /\ x = Argument(line, strip, last)
      BY <1>11, <1>12, <2>2
    <3>2. line[p] # ":"
      <4>1. CASE last >= 3 - off
        BY <2>2, <4>1
      <4>2. CASE ~(last >= 3 - off)
        <5>1. last = 2 - off
          BY <1>1, <4>2
        <5>2. QED BY <1>0, <5>1
      <4>3. QED BY <4>1, <4>2
    <3>3. Head(WordFrom(line, p)) = line[p]
      BY <1>8, FirstOfWord
    <3> HIDE DEF x, p
    <3>4. QED BY <3>1, <3>2, <3>3
  <2>3. QED BY <2>1, <2>2
<1> HIDE DEF x, all, given, m, p
<1>15. DOMAIN argv = 1..c
  BY <1>7
<1>16. ASSUME NEW k \in 1..c PROVE argv[k] = all[k]
  <2>1. CASE k = c
    <3>1. all[k] = Argument(line, strip, last)
      BY <1>5, <1>8, <2>1
    <3>2. argv[k] = IF stripped THEN Tail(x) ELSE x
      BY <1>7, <2>1 DEF x
    <3> HIDE DEF stripped, argv
    <3>3. QED BY <1>14, <3>1, <3>2
  <2>2. CASE k # c
    <3>1. argv[k] = given.argv[k]
      BY <1>7, <2>2
    <3> HIDE DEF argv
    <3>2. CASE k - off \in 1..last
      <4> DEFINE j == k - off
      <4>1. j < last /\ j + off = k
        BY <1>1, <2>2, <3>2
      <4> HIDE DEF j
      <4>2. given.argv[j + off] = Argument(line, FALSE, j) /\ all[j + off] = Argument(line, strip, j)
        BY <1>5, <1>7, <3>2 DEF j
      <4>3. Argument(line, FALSE, j) = Argument(line, strip, j)
        BY <1>13, <3>2, <4>1 DEF j
      <4>4. QED BY <3>1, <4>1, <4>2, <4>3
    <3>3. CASE k - off \notin 1..last
      <4>1. k = 1 /\ off = 1
        BY <1>1, <3>3
      <4>2. QED BY <1>5, <1>7, <3>1, <4>1
    <3>4. QED BY <3>2, <3>3
  <2>3. QED BY <2>1, <2>2
<1> HIDE DEF argv, stripped
<1>17. 1..c \cup (c + 1)..n = 1..n
  <2> HIDE DEF c
  <2>1. QED BY <1>9
<1> HIDE DEF c
<1>18. ASSUME NEW k \in 1..n
       PROVE  (IF k > c THEN <<>> ELSE argv[k]) = IF k \in DOMAIN all THEN all[k] ELSE <<>>
  BY <1>5, <1>9, <1>16
<1>19. HandlerArgv(line, n, strip, more)
         = [k \in 1..n |-> IF k > c THEN <<>> ELSE argv[k]]
  BY <1>10, <1>15, <1>17
<1>20. QED BY <1>7, <1>18, <1>19 DEF all, given

\* No handler gets more arguments than it wants.
LEMMA HandlerType ==
  ASSUME NEW line \in Str, NEW n \in Nat, n >= 2, NEW strip \in BOOLEAN, NEW more \in Nat
  PROVE  DOMAIN HandlerArgv(line, n, strip, more) \subseteq 1..n
<1> DEFINE given == Given(line, n, more)
           d == given.argc
           stripped == /\ strip
                       /\ d \in DOMAIN given.argv
                       /\ given.argv[d] # <<>> /\ Head(given.argv[d]) = ":"
           argv == IF stripped THEN [given.argv EXCEPT ![d] = Tail(@)] ELSE given.argv
<1>1. d \in Nat /\ DOMAIN given.argv \subseteq 1..n
  <2>1. CASE Head(line) = ":"
    <3>1. given = MakeMaxArgv(line, n, more)
      BY <2>1 DEF Given
    <3>2. n \in Nat \ {0}
      OBVIOUS
    <3> HIDE DEF given
    <3>3. QED BY <3>1, <3>2, ArgvType
  <2>2. CASE Head(line) # ":"
    <3> DEFINE m == MakeMaxArgv(line, n - 1, more)
               b == n - 1
    <3>1. given = [is |-> m.is, argc |-> m.argc + 1, argv |-> InFront(Picked, m.argv)]
      BY <2>2 DEF Given
    <3>2. b \in Nat \ {0} /\ b \in Nat /\ b + 1 = n
      OBVIOUS
    <3>3. m.argc \in 0..b /\ DOMAIN m.argv \subseteq 1..b
      <4> HIDE DEF b
      <4>1. MakeMaxArgv(line, b, more).argc \in 0..b
            /\ DOMAIN MakeMaxArgv(line, b, more).argv \subseteq 1..b
        BY <3>2, ArgvType
      <4>2. QED BY <4>1 DEF b
    <3> HIDE DEF given, m, b
    <3>4. given.argc = m.argc + 1 /\ given.argv = InFront(Picked, m.argv)
      BY <3>1
    <3>5. DOMAIN InFront(Picked, m.argv) \subseteq 1..(b + 1)
      <4> DEFINE args == m.argv
      <4>1. DOMAIN args \subseteq 1..b
        BY <3>3
      <4> HIDE DEF args
      <4>2. DOMAIN InFront(Picked, args) \subseteq 1..(b + 1)
        BY <3>2, <4>1, InFrontFacts
      <4>3. QED BY <4>2 DEF args
    <3>6. given.argc \in Nat
      BY <3>2, <3>3, <3>4
    <3>7. QED BY <3>2, <3>4, <3>5, <3>6
  <2>3. QED BY <2>1, <2>2
<1>2. DOMAIN HandlerArgv(line, n, strip, more) = DOMAIN argv \cup (d + 1)..n
  <2>1. HandlerArgv(line, n, strip, more)
          = [k \in DOMAIN argv \cup (d + 1)..n |-> IF k > d THEN <<>> ELSE argv[k]]
    BY DEF HandlerArgv
  <2> HIDE DEF argv, d
  <2>2. QED BY <2>1
<1> HIDE DEF given, d
<1>3. DOMAIN argv = DOMAIN given.argv
  OBVIOUS
<1> HIDE DEF argv
<1>4. (d + 1)..n \subseteq 1..n
  BY <1>1
<1>5. QED BY <1>1, <1>2, <1>3, <1>4

\* The conditions of ArgumentsOfLine, word for word.
LEMMA LineFits ==
  ASSUME NEW line \in Str, line # <<>>, ~NoCommand(line), NEW strip \in BOOLEAN, NEW n \in Nat
  PROVE  LET words == MakeArgv(line)
             front == IF Head(line) = ":" THEN SubSeq(words, 1, 2) ELSE <<Picked, words[1]>>
             all == Arguments(line, strip)
         IN  /\ Last(line) # Blank /\ Head(front[2]) # ":"
             /\ Len(all) <= n
             /\ Len(all) < n => Blank \notin Range(Last(all))
             /\ \A k \in 1..(n - 1) \cap DOMAIN all : Range(all[k]) \cap Quotes = {}
             => Fits(line, strip, n)
<1> DEFINE words == MakeArgv(line)
           front == IF Head(line) = ":" THEN SubSeq(words, 1, 2) ELSE <<Picked, words[1]>>
           all == Arguments(line, strip)
           starts == StartsInOrder(line)
           N == Cardinality(WordStarts(line))
           off == Off(line)
           last == LastWordOf(line)
           c == last + off
<1>1. N \in Nat /\ off \in 0..1 /\ last \in 1..N /\ last \in (2 - off)..N
  BY ParametersFacts
<1>2. \A j \in 1..N : starts[j] \in WordStarts(line) /\ Rank(line, starts[j]) = j
  BY StartsFacts
<1>3. /\ words \in Seq(Str) /\ Len(words) = N
      /\ \A p \in WordStarts(line) : words[Rank(line, p)] = WordFrom(line, p)
  BY MakeArgvFacts
<1>4. /\ Len(all) = c /\ DOMAIN all = 1..c
      /\ \A j \in 1..last : all[j + off] = Argument(line, strip, j)
  BY ArgumentsFacts
<1>5. off = 0 <=> Head(line) = ":"
  BY DEF Off
<1> HIDE DEF all, off, last, N, words, starts
<1>6. 2 - off \in 1..N
  BY <1>1
<1>7. front[2] = words[2 - off]
  <2>1. CASE off = 0
    <3>1. front = SubSeq(words, 1, 2)
      BY <1>5, <2>1
    <3>2. \A i \in 1..2 : words[i] \in Str
      <4>1. \A i \in 1..2 : i \in 1..Len(words)
        BY <1>1, <1>3, <2>1
      <4>2. QED BY <1>3, <4>1, ElementOfSeq
    <3>3. \A i \in 1..(2 - 1 + 1) : SubSeq(words, 1, 2)[i] = words[1 + i - 1]
      BY <3>2, SubSeqProperties
    <3>4. SubSeq(words, 1, 2)[2] = words[2] /\ 2 - off = 2
      BY <2>1, <3>3
    <3> HIDE DEF front
    <3>5. QED BY <3>1, <3>4
  <2>2. CASE off = 1
    <3>1. front = <<Picked, words[1]>> /\ 2 - off = 1
      BY <1>5, <2>2
    <3> HIDE DEF front
    <3>2. QED BY <3>1
  <2>3. off = 0 \/ off = 1
    BY <1>1
  <2> HIDE DEF front
  <2>4. QED BY <2>1, <2>2, <2>3
<1>8. Head(front[2]) = line[starts[2 - off]]
  <2>1. words[2 - off] = WordFrom(line, starts[2 - off]) /\ starts[2 - off] \in WordStarts(line)
    <3> DEFINE j == 2 - off
    <3> HIDE DEF j
    <3>1. j \in 1..N
      BY <1>6 DEF j
    <3>2. starts[j] \in WordStarts(line) /\ Rank(line, starts[j]) = j
      BY <1>2, <3>1
    <3>3. words[j] = WordFrom(line, starts[j])
      BY <1>3, <3>2
    <3>4. QED BY <3>2, <3>3 DEF j
  <2>2. Head(WordFrom(line, starts[2 - off])) = line[starts[2 - off]]
    BY <2>1, FirstOfWord
  <2> HIDE DEF front
  <2>3. QED BY <1>7, <2>1, <2>2
<1> HIDE DEF front
<1>9. SUFFICES ASSUME Last(line) # Blank, Head(front[2]) # ":", Len(all) <= n,
                      Len(all) < n => Blank \notin Range(Last(all)),
                      \A k \in 1..(n - 1) \cap DOMAIN all : Range(all[k]) \cap Quotes = {}
               PROVE  Fits(line, strip, n)
  BY Zenon DEF all, front, words
<1>10. line[Len(line)] # Blank
  BY <1>9 DEF Last
<1>11. line[starts[2 - off]] # ":"
  BY <1>8, <1>9
<1>12. c <= n
  BY <1>4, <1>9
<1>13. c < n => Blank \notin Range(Argument(line, strip, last))
  <2>1. Last(all) = all[c]
    BY <1>4 DEF Last
  <2>2. last \in 1..last
    BY <1>1
  <2>3. all[c] = Argument(line, strip, last)
    BY <1>4, <2>2
  <2>4. QED BY <1>4, <1>9, <2>1, <2>3
<1>14. ASSUME NEW j \in 1..last, j + off < n
       PROVE  Range(Argument(line, strip, j)) \cap Quotes = {}
  <2>1. j + off \in 1..c /\ j + off \in 1..(n - 1)
    BY <1>1, <1>14
  <2>2. Range(all[j + off]) \cap Quotes = {}
    BY <1>4, <1>9, <2>1
  <2>3. QED BY <1>4, <2>2
<1>15. QED BY <1>10, <1>11, <1>12, <1>13, <1>14 DEF Fits, off, last, starts

-----------------------------------------------------------------------------
(* The calls, whatever they are given.                                     *)

\* What a call returns.
Answers(c, r) ==
  \/ c.of = "argv" /\ \E more \in 0..MaxArgc : r = MakeMaxArgv(c.line, c.n, more)
  \/ c.of = "server" /\ \E more \in 0..MaxArgc :
       r = ParseServerString(c.line, c.n, c.strip, more)
  \/ c.of = "strstr" /\ r = [is |-> "strstr", at |-> StrstrNc(c.haystack, c.needle)]
  \/ c.of = "alias"
     /\ r = [is |-> "alias", line |-> ExpandAlias(c.line, c.name, c.replacement)]
  \/ c.of = "tabs" /\ r = GetTabCompletes(c.found)

IInv ==
  /\ call \in Inputs
  /\ result # None => Answers(call, result)

\* No call changes what it was given, and all that it leaves is its result.
THEOREM Inductive == Spec => []IInv
<1>1. Init => IInv
  BY DEF Init, IInv
<1>2. IInv /\ [Next]_vars => IInv'
  <2>1. SUFFICES ASSUME IInv, [Next]_vars PROVE IInv'
    OBVIOUS
  <2>2. CASE UNCHANGED vars
    BY <2>1, <2>2, Zenon DEF IInv, vars, Answers
  <2>3. CASE SplitLine
    BY <2>1, <2>3, Zenon DEF IInv, SplitLine, Calls, Answers
  <2>4. CASE ReadLine
    BY <2>1, <2>4, Zenon DEF IInv, ReadLine, Calls, Answers
  <2>5. CASE FindNick
    BY <2>1, <2>5, Zenon DEF IInv, FindNick, Calls, Answers
  <2>6. CASE ReplaceAlias
    BY <2>1, <2>6, Zenon DEF IInv, ReplaceAlias, Calls, Answers
  <2>7. CASE Complete
    BY <2>1, <2>7, Zenon DEF IInv, Complete, Calls, Answers
  <2>8. QED BY <2>1, <2>2, <2>3, <2>4, <2>5, <2>6, <2>7 DEF Next
<1>3. QED BY <1>1, <1>2, PTL DEF Spec

\* A result is that of the function that was called, if its array had room.
LEMMA ResultIs ==
  ASSUME IInv, result # None
  PROVE  result.is \in {call.of, "overflow"} /\ call.of \in {"argv", "server", "strstr", "alias", "tabs"}
<1>1. CASE call.of = "argv"
  <2>1. PICK more \in 0..MaxArgc : result = MakeMaxArgv(call.line, call.n, more)
    BY <1>1 DEF IInv, Answers
  <2>2. QED BY <1>1, <2>1 DEF MakeMaxArgv
<1>2. CASE call.of = "server"
  <2>1. PICK more \in 0..MaxArgc :
          result = ParseServerString(call.line, call.n, call.strip, more)
    BY <1>2 DEF IInv, Answers
  <2>2. QED BY <1>2, <2>1 DEF ParseServerString
<1>3. CASE call.of = "strstr"
  <2>1. result = [is |-> "strstr", at |-> StrstrNc(call.haystack, call.needle)]
    BY <1>3 DEF IInv, Answers
  <2>2. QED BY <1>3, <2>1
<1>4. CASE call.of = "alias"
  <2>1. result = [is   |-> "alias",
                  line |-> ExpandAlias(call.line, call.name, call.replacement)]
    BY <1>4 DEF IInv, Answers
  <2>2. QED BY <1>4, <2>1
<1>5. CASE call.of = "tabs"
  <2>1. result = GetTabCompletes(call.found)
    BY <1>5 DEF IInv, Answers
  <2>2. QED BY <1>5, <2>1 DEF GetTabCompletes
<1>6. \/ call.of = "argv" \/ call.of = "server" \/ call.of = "strstr" \/ call.of = "alias"
      \/ call.of = "tabs"
  BY Zenon DEF IInv, Answers
<1>7. QED BY <1>1, <1>2, <1>3, <1>4, <1>5, <1>6

\* What make_max_argv is given, and what it returned.
LEMMA ArgvCall ==
  ASSUME IInv, call.of = "argv", result # None
  PROVE  /\ call.line \in Str /\ call.n \in Nat \ {0}
         /\ \E more \in Nat : result = MakeMaxArgv(call.line, call.n, more)
<1>1. call \in [of : {"argv"}, line : Lines, n : 1..MaxArgc]
  BY DEF IInv, Inputs
<1>2. call.line \in Str /\ call.n \in Nat \ {0}
  BY <1>1, WordsOK DEF Str
<1>3. PICK more \in 0..MaxArgc : result = MakeMaxArgv(call.line, call.n, more)
  BY DEF IInv, Answers
<1>4. more \in Nat
  BY WordsOK
<1>5. QED BY <1>2, <1>3, <1>4

\* What parse_server_string is given, and what it returned.
LEMMA ServerCall ==
  ASSUME IInv, call.of = "server", result # None
  PROVE  /\ call.line \in Str /\ call.n \in Nat /\ call.n >= 2 /\ call.strip \in BOOLEAN
         /\ \E more \in Nat :
              result = ParseServerString(call.line, call.n, call.strip, more)
<1>1. call \in [of : {"server"}, line : ServerLines, n : 2..MaxArgc, strip : BOOLEAN]
  BY DEF IInv, Inputs
<1>2. call.line \in Str /\ call.n \in Nat /\ call.n >= 2 /\ call.strip \in BOOLEAN
  BY <1>1, WordsOK DEF Str
<1>3. PICK more \in 0..MaxArgc :
        result = ParseServerString(call.line, call.n, call.strip, more)
  BY DEF IInv, Answers
<1>4. more \in Nat
  BY WordsOK
<1>5. QED BY <1>2, <1>3, <1>4

\* What strstr_nc is given, and what it returned.
LEMMA StrstrCall ==
  ASSUME IInv, result.is = "strstr"
  PROVE  /\ call.haystack \in Str /\ call.needle \in Str /\ call.needle # <<>>
         /\ result.at = StrstrNc(call.haystack, call.needle)
<1>1. result # None
  BY DEF None
<1>2. call.of = "strstr"
  BY <1>1, ResultIs
<1>3. call \in [of : {"strstr"}, haystack : Haystacks, needle : Needles]
  BY <1>2 DEF IInv, Inputs
<1>4. call.haystack \in Str /\ call.needle \in Str /\ call.needle # <<>>
  BY <1>3, WordsOK DEF Str
<1>5. result = [is |-> "strstr", at |-> StrstrNc(call.haystack, call.needle)]
  BY <1>1, <1>2 DEF IInv, Answers
<1>6. QED BY <1>4, <1>5

\* What an alias is replaced in, and with what.
LEMMA AliasCall ==
  ASSUME IInv, result.is = "alias"
  PROVE  /\ call.line \in Str /\ call.line # <<>>
         /\ call.name \in Str /\ call.name # <<>>
         /\ call.replacement \in Str /\ call.replacement # <<>>
         /\ result.line = ExpandAlias(call.line, call.name, call.replacement)
<1>1. result # None
  BY DEF None
<1>2. call.of = "alias"
  BY <1>1, ResultIs
<1>3. call \in [of : {"alias"}, line : Lines \ {<<>>}, name : Needles, replacement : Needles]
  BY <1>2 DEF IInv, Inputs
<1>4. /\ call.line \in Str /\ call.line # <<>>
      /\ call.name \in Str /\ call.name # <<>>
      /\ call.replacement \in Str /\ call.replacement # <<>>
  BY <1>3, WordsOK DEF Str
<1>5. result = [is   |-> "alias",
                line |-> ExpandAlias(call.line, call.name, call.replacement)]
  BY <1>1, <1>2 DEF IInv, Answers
<1>6. QED BY <1>4, <1>5

\* What the completing functions find, and what get_tab_completes made of it.
LEMMA TabsCall ==
  ASSUME IInv, result.is = "tabs"
  PROVE  call.found \in [1..Functions -> Nat] /\ result = GetTabCompletes(call.found)
<1>1. result # None
  BY DEF None
<1>2. call.of = "tabs"
  BY <1>1, ResultIs
<1>3. call \in [of : {"tabs"}, found : [1..Functions -> Found]]
  BY <1>2 DEF IInv, Inputs
<1>4. call.found \in [1..Functions -> Nat]
  BY <1>3, WordsOK
<1>5. result = GetTabCompletes(call.found)
  BY <1>1, <1>2 DEF IInv, Answers
<1>6. QED BY <1>4, <1>5

\* TypeOK: no argument past max_argc, no place outside of the text, and no word that
\* was not found, for lines of any length.
THEOREM Typed == Spec => []TypeOK
<1>1. IInv => TypeOK
  <2>1. SUFFICES ASSUME IInv PROVE TypeOK
    OBVIOUS
  <2>2. CASE result.is = "argv"
    <3>0. result # None /\ call.of = "argv"
      BY <2>1, <2>2, ResultIs DEF None
    <3>1. /\ call.line \in Str /\ call.n \in Nat \ {0}
          /\ \E more \in Nat : result = MakeMaxArgv(call.line, call.n, more)
      BY <2>1, <3>0, ArgvCall
    <3>2. result.argc \in 0..call.n /\ DOMAIN result.argv \subseteq 1..call.n
      BY <3>1, ArgvType
    <3>3. QED BY <2>2, <3>2 DEF TypeOK
  <2>3. CASE result.is = "server"
    <3>0. result # None /\ call.of = "server"
      BY <2>1, <2>3, ResultIs DEF None
    <3>1. /\ call.line \in Str /\ call.n \in Nat /\ call.n >= 2 /\ call.strip \in BOOLEAN
          /\ \E more \in Nat :
               result = ParseServerString(call.line, call.n, call.strip, more)
      BY <2>1, <3>0, ServerCall
    <3>2. PICK more \in Nat :
            result = ParseServerString(call.line, call.n, call.strip, more)
      BY <3>1
    <3>3. result.argv = IF NoCommand(call.line) THEN <<>>
                        ELSE HandlerArgv(call.line, call.n, call.strip, more)
      BY <2>3, <3>2 DEF ParseServerString
    <3>4. DOMAIN HandlerArgv(call.line, call.n, call.strip, more) \subseteq 1..call.n
      BY <3>1, HandlerType
    <3>5. DOMAIN <<>> = {}
      OBVIOUS
    <3>6. DOMAIN result.argv \subseteq 1..call.n
      BY <3>3, <3>4, <3>5
    <3>7. QED BY <2>3, <3>6 DEF TypeOK
  <2>4. CASE result.is = "strstr"
    <3>1. /\ call.haystack \in Str /\ call.needle \in Str /\ call.needle # <<>>
          /\ result.at = StrstrNc(call.haystack, call.needle)
      BY <2>1, <2>4, StrstrCall
    <3>2. result.at \in 0..Len(call.haystack)
      BY <3>1, NeedleFound
    <3>3. QED BY <2>4, <3>2 DEF TypeOK
  <2>5. CASE result.is = "alias"
    <3>1. /\ call.line \in Str /\ call.line # <<>>
          /\ call.name \in Str /\ call.name # <<>>
          /\ call.replacement \in Str /\ call.replacement # <<>>
          /\ result.line = ExpandAlias(call.line, call.name, call.replacement)
      BY <2>1, <2>5, AliasCall
    <3>2. Len(result.line) <= Len(call.line) + Len(call.replacement)
      BY <3>1, AliasReplaced
    <3>3. QED BY <2>5, <3>2 DEF TypeOK
  <2>6. CASE result.is = "tabs"
    <3>1. call.found \in [1..Functions -> Nat] /\ result = GetTabCompletes(call.found)
      BY <2>1, <2>6, TabsCall
    <3>2. Functions \in Nat
      BY WordsOK
    <3>3. Range(result.argv)
            = {n \in Nodes(call.found) : n[1] = FirstFinder(call.found) \/ n[2] = 1}
      BY <3>1, <3>2, WordsReturned
    <3>4. Range(result.argv) \subseteq Nodes(call.found)
      BY <3>3
    <3>5. QED BY <2>6, <3>4 DEF TypeOK
  <2>7. CASE result.is \notin {"argv", "server", "strstr", "alias", "tabs"}
    BY <2>7 DEF TypeOK
  <2>8. QED BY <2>2, <2>3, <2>4, <2>5, <2>6, <2>7
<1>2. QED BY <1>1, Inductive, PTL

\* ArgvSplits: the arguments of a command are the words of its line without quotes,
\* and the last of max_argc is the rest, for every line that has quotes around words.
THEOREM SplitsArguments == Spec => []ArgvSplits
<1>1. IInv => ArgvSplits
  <2>1. SUFFICES ASSUME IInv, call.of = "argv", result # None, QuotesAroundWords(call.line)
                 PROVE  LET starts == StartsInOrder(call.line)
                        IN /\ result.is = "argv"
                           /\ result.argc = Min({Len(starts), call.n})
                           /\ result.argv =
                                [k \in 1..result.argc |->
                                  IF k = call.n
                                  THEN SubSeq(call.line, starts[k], Len(call.line))
                                  ELSE Unquoted(WordFrom(call.line, starts[k]))]
    BY Zenon DEF ArgvSplits
  <2>2. /\ call.line \in Str /\ call.n \in Nat \ {0}
        /\ \E more \in Nat : result = MakeMaxArgv(call.line, call.n, more)
    BY <2>1, ArgvCall
  <2>3. PICK more \in Nat : result = MakeMaxArgv(call.line, call.n, more)
    BY <2>2
  <2>4. LET m == MakeMaxArgv(call.line, call.n, more)
            starts == StartsInOrder(call.line)
        IN  /\ m.is = "argv"
            /\ m.argc = Min({Len(starts), call.n})
            /\ m.argv = [k \in 1..m.argc |->
                          IF k = call.n THEN SubSeq(call.line, starts[k], Len(call.line))
                          ELSE Unquoted(WordFrom(call.line, starts[k]))]
    BY <2>1, <2>2, CommandArguments
  <2>5. QED BY <2>3, <2>4, Zenon
<1>2. QED BY <1>1, Inductive, PTL

\* ArgumentsOfLine: a handler gets the prefix, the command and the parameters of RFC
\* 2812, for every line that fits it and however many arguments it wants.
THEOREM ReadsLines == Spec => []ArgumentsOfLine
<1>1. IInv => ArgumentsOfLine
  <2> DEFINE line == call.line
             words == MakeArgv(line)
             front == IF Head(line) = ":" THEN SubSeq(words, 1, 2) ELSE <<Picked, words[1]>>
             all == Arguments(line, call.strip)
  <2>1. ASSUME IInv, call.of = "server", result # None, line # <<>>, ~NoCommand(line),
               Last(line) # Blank, Head(front[2]) # ":",
               Len(all) <= call.n,
               Len(all) < call.n => Blank \notin Range(Last(all)),
               \A k \in 1..(call.n - 1) \cap DOMAIN all : Range(all[k]) \cap Quotes = {}
        PROVE  /\ result.is = "server"
               /\ result.argv = [k \in 1..call.n |-> IF k \in DOMAIN all THEN all[k] ELSE <<>>]
    <3> HIDE DEF front, words, all
    <3>1. /\ line \in Str /\ call.n \in Nat /\ call.n >= 2 /\ call.strip \in BOOLEAN
          /\ \E more \in Nat : result = ParseServerString(line, call.n, call.strip, more)
      BY <2>1, ServerCall
    <3>2. Fits(line, call.strip, call.n)
      BY <2>1, <3>1, LineFits, Zenon DEF all, front, words
    <3>3. PICK more \in Nat : result = ParseServerString(line, call.n, call.strip, more)
      BY <3>1
    <3>4. line # <<>> /\ ~NoCommand(line)
      BY <2>1
    <3>5. /\ HandlerArgv(line, call.n, call.strip, more)
               = [k \in 1..call.n |-> IF k \in DOMAIN all THEN all[k] ELSE <<>>]
          /\ Given(line, call.n, more).is = "argv"
      BY <3>1, <3>2, <3>3, <3>4, HandlerArguments DEF all
    <3>6. result.is = "server" /\ result.argv = HandlerArgv(line, call.n, call.strip, more)
      <4>1. ~NoCommand(line) /\ Given(line, call.n, more).is # "overflow"
        BY <3>4, <3>5
      <4>2. ParseServerString(line, call.n, call.strip, more)
              = [is |-> "server", argv |-> HandlerArgv(line, call.n, call.strip, more)]
        BY <4>1 DEF ParseServerString
      <4>3. QED BY <3>3, <4>2
    <3>7. QED BY <3>5, <3>6, Zenon
  <2>2. QED BY <2>1, Zenon DEF ArgumentsOfLine, Arguments
<1>2. QED BY <1>1, Inductive, PTL

\* NickFound: a nick is found only where it is, and always if it is delimited, in
\* lines and for nicks of any length.
THEOREM FindsNicks == Spec => []NickFound
<1>1. IInv => NickFound
  <2>1. SUFFICES ASSUME IInv, result.is = "strstr"
                 PROVE  /\ result.at # 0 => OccursAt(call.haystack, call.needle, result.at)
                        /\ (\E p \in DOMAIN call.haystack :
                              /\ OccursAt(call.haystack, call.needle, p)
                              /\ Delimited(call.haystack, call.needle, p)) => result.at # 0
    BY Zenon DEF NickFound, Delimited
  <2>2. /\ call.haystack \in Str /\ call.needle \in Str /\ call.needle # <<>>
        /\ result.at = StrstrNc(call.haystack, call.needle)
    BY <2>1, StrstrCall
  <2>3. QED BY <2>2, NeedleFound, Zenon
<1>2. QED BY <1>1, Inductive, PTL

\* AliasInPlace: an alias is replaced where the command was, in lines of any length.
THEOREM ReplacesInPlace == Spec => []AliasInPlace
<1>1. IInv => AliasInPlace
  <2>1. SUFFICES ASSUME IInv, result.is = "alias"
                 PROVE  LET argv == MakeArgv(Tail(call.line))
                            at == NextWord(call.line, 2)
                        IN IF argv = <<>> \/ argv[1] # call.name
                           THEN result.line = Tail(call.line)
                           ELSE Head(call.line) # Head(call.name) =>
                                  result.line
                                    = SubSeq(call.line, 2, at - 1) \o call.replacement
                                      \o SubSeq(call.line, at + Len(call.name), Len(call.line))
    BY Zenon DEF AliasInPlace
  <2>2. /\ call.line \in Str /\ call.line # <<>>
        /\ call.name \in Str /\ call.name # <<>>
        /\ call.replacement \in Str /\ call.replacement # <<>>
        /\ result.line = ExpandAlias(call.line, call.name, call.replacement)
    BY <2>1, AliasCall
  <2>3. LET argv == MakeArgv(Tail(call.line))
            at == NextWord(call.line, 2)
        IN  /\ argv = <<>> \/ argv[1] # call.name => result.line = Tail(call.line)
            /\ argv # <<>> /\ argv[1] = call.name /\ Head(call.line) # Head(call.name) =>
                 result.line = SubSeq(call.line, 2, at - 1) \o call.replacement
                                 \o SubSeq(call.line, at + Len(call.name), Len(call.line))
    BY <2>2, AliasReplaced, Zenon
  <2>4. QED BY <2>3, Zenon
<1>2. QED BY <1>1, Inductive, PTL

\* CompletionsOnce: every word at most once, offered and freed, and something of every
\* function that finds any, for any number of functions and words.
THEOREM OffersOnce == Spec => []CompletionsOnce
<1>1. IInv => CompletionsOnce
  <2>1. SUFFICES ASSUME IInv, result.is = "tabs"
                 PROVE  /\ IsInjective(result.argv)
                        /\ IsInjective(result.freed)
                        /\ Range(result.freed) = Range(result.argv)
                        /\ \A f \in DOMAIN call.found :
                             LET offered == Cardinality({n \in Range(result.argv) : n[1] = f})
                             IN IF \A g \in 1..(f - 1) : call.found[g] = 0
                                THEN offered = call.found[f]
                                ELSE call.found[f] > 0 => offered > 0
    BY Zenon DEF CompletionsOnce
  <2> DEFINE found == call.found
             A == {n \in Nodes(found) : n[1] = FirstFinder(found) \/ n[2] = 1}
  <2>2. found \in [1..Functions -> Nat] /\ result = GetTabCompletes(found)
    BY <2>1, TabsCall
  <2>3. Functions \in Nat
    BY WordsOK
  <2>4. /\ IsInjective(result.argv) /\ IsInjective(result.freed)
        /\ Range(result.argv) = A /\ Range(result.freed) = A
    BY <2>2, <2>3, WordsReturned, Zenon
  <2>5. DOMAIN found = 1..Functions
    BY <2>2
  <2>6. ASSUME NEW f \in 1..Functions
        PROVE  Cardinality({n \in A : n[1] = f})
                 = IF found[f] = 0 \/ \A g \in 1..(f - 1) : found[g] = 0 THEN found[f] ELSE 1
    BY <2>2, <2>3, <2>6, WordsOffered, Zenon
  <2> HIDE DEF A
  <2>7. ASSUME NEW f \in 1..Functions
        PROVE  LET offered == Cardinality({n \in A : n[1] = f})
               IN IF \A g \in 1..(f - 1) : found[g] = 0 THEN offered = found[f]
                  ELSE found[f] > 0 => offered > 0
    <3> DEFINE offered == Cardinality({n \in A : n[1] = f})
               alone == \A g \in 1..(f - 1) : found[g] = 0
    <3>1. offered = IF found[f] = 0 \/ alone THEN found[f] ELSE 1
      BY <2>6
    <3> HIDE DEF offered, alone
    <3>2. IF alone THEN offered = found[f] ELSE found[f] > 0 => offered > 0
      BY <3>1
    <3>3. QED BY <3>2, Zenon DEF offered, alone
  <2>8. QED BY <2>4, <2>5, <2>7, Zenon
<1>2. QED BY <1>1, Inductive, PTL
=============================================================================
