-------------------------- MODULE LineEditorProofs --------------------------
(***************************************************************************)
(* The safety of LineEditor for any characters, words, bounds and slack.    *)
(*                                                                         *)
(* Nothing but a long completion is written behind the end of a buffer,     *)
(* although io_get_input looks at buf_size only: the string, the copy of    *)
(* the unfinished line and the lines of the history are all as long as      *)
(* buf_size once was, and the buffers never shrink (MemoryOK, Bounded).     *)
(* The line is what a text field would have as long as no key went astray:  *)
(* buf_size is then the length of the string, or 0 while the last line is   *)
(* still in the buffer (FieldOK).                                           *)
(***************************************************************************)
EXTENDS LineEditor, ListsProofs, FiniteSetTheorems

Letter == Char \cup {Newline}

\* What the buffers hold.
Lines == {s \in Seq(Letter) : Len(s) <= MaxLen + 2}

LinesOK ==
  /\ buf \in Lines /\ buf2 \in Lines /\ past \in Seq(Lines)
  /\ size \in 0..(MaxLen + 2)
  /\ cursor \in 0..(Word - 1)
  /\ entry \in 0..Len(past) /\ Len(past) <= MaxHistory

PythonOK ==
  /\ repl \in BOOLEAN /\ dontDie \in BOOLEAN /\ indent \in 0..(MaxLen + 2)

\* A string and its 0 fit in a buffer, with the slack behind it.
Fits(s) == Len(s) + Unit <= alloced

MemoryOK ==
  /\ alloced \in Nat /\ overrun = FALSE
  /\ size + Unit < alloced
  /\ Fits(buf) /\ Fits(buf2) /\ \A e \in 1..Len(past) : Fits(past[e])
  /\ size > 0 => Len(buf) + Unit < alloced

FieldOK == ~astray =>
  /\ size <= Len(buf) /\ cursor <= size
  /\ size > 0 => size = Len(buf)
  /\ \A e \in 1..Len(past) : past[e] # <<>>

Callers == {"none", "script", "ask", "unwanted line", "no newline", "overrun"}

OtherOK ==
  /\ caller \in Callers
  /\ overrun \in BOOLEAN /\ alloced \in Nat /\ astray \in BOOLEAN

IInv == LinesOK /\ PythonOK /\ OtherOK /\ FieldOK

-----------------------------------------------------------------------------
(* Strings and the cursor.                                                 *)

\* The cursor wraps around at most once.
LEMMA ModFacts ==
  ASSUME NEW n \in Nat \ {0}, NEW x \in 0..(2 * n - 1)
  PROVE  x % n = IF x < n THEN x ELSE x - n
  OBVIOUS

\* A string without one character.
LEMMA WithoutFacts ==
  ASSUME NEW S, NEW s \in Seq(S), NEW i \in Nat
  PROVE  /\ Without(s, i) \in Seq(S)
         /\ Len(Without(s, i)) = IF i < Len(s) THEN Len(s) - 1 ELSE Len(s)
<1>1. CASE i < Len(s)
  <2>1. i + 1 \in 1..Len(s)
    BY <1>1
  <2>2. Without(s, i) = RemoveAt(s, i + 1)
    BY <1>1 DEF Without
  <2> HIDE DEF Without
  <2>3. QED BY <1>1, <2>1, <2>2, RemoveAtFacts
<1>2. CASE ~(i < Len(s))
  BY <1>2 DEF Without
<1>3. QED BY <1>1, <1>2

\* What is inserted is where it was inserted.
LEMMA InsertAtPlace ==
  ASSUME NEW S, NEW s \in Seq(S), NEW c \in S, NEW i \in 1..Len(s)
  PROVE  InsertAt(s, i, c)[i] = c
<1>1. \A j \in 1..(Len(s) + 1) :
        InsertAt(s, i, c)[j] = IF j < i THEN s[j] ELSE IF j = i THEN c ELSE s[j - 1]
  BY InsertAtFacts
<1>2. i \in 1..(Len(s) + 1) /\ ~(i < i)
  OBVIOUS
<1>3. QED BY <1>1, <1>2

\* A string with one character more.
LEMMA WithFacts ==
  ASSUME NEW S, NEW s \in Seq(S), NEW i \in Nat, NEW c \in S
  PROVE  With(s, i, c) \in Seq(S) /\ Len(With(s, i, c)) = Len(s) + 1
<1>1. CASE i < Len(s)
  <2>1. i + 1 \in 1..Len(s)
    BY <1>1
  <2>2. With(s, i, c) = InsertAt(s, i + 1, c)
    BY <1>1 DEF With
  <2>3. QED BY <2>1, <2>2, InsertAtFacts
<1>2. CASE ~(i < Len(s))
  <2>1. With(s, i, c) = Append(s, c)
    BY <1>2 DEF With
  <2>2. QED BY <2>1, AppendProperties
<1>3. QED BY <1>1, <1>2

\* A string that a 0 may end.
LEMMA CutFacts ==
  ASSUME NEW S, NEW s \in Seq(S), NEW n \in Nat
  PROVE  /\ CutAt(s, n) \in Seq(S)
         /\ Len(CutAt(s, n)) = IF n < Len(s) THEN n ELSE Len(s)
<1>1. CASE n < Len(s)
  <2>1. \A i \in 1..n : s[i] \in S
    BY <1>1
  <2>2. SubSeq(s, 1, n) \in Seq(S) /\ Len(SubSeq(s, 1, n)) = n
    BY <2>1, SubSeqProperties
  <2>3. QED BY <1>1, <2>2 DEF CutAt
<1>2. CASE ~(n < Len(s))
  BY <1>2 DEF CutAt
<1>3. QED BY <1>1, <1>2

\* The beginning of a string.
LEMMA BeginningFacts ==
  ASSUME NEW S, NEW s \in Seq(S), NEW n \in Int, n <= Len(s)
  PROVE  /\ SubSeq(s, 1, n) \in Seq(S)
         /\ Len(SubSeq(s, 1, n)) = IF n < 0 THEN 0 ELSE n
         /\ \A i \in 1..n : SubSeq(s, 1, n)[i] = s[i]
<1>1. \A i \in 1..n : s[i] \in S
  OBVIOUS
<1>2. /\ SubSeq(s, 1, n) \in Seq(S)
      /\ Len(SubSeq(s, 1, n)) = IF 1 <= n THEN n - 1 + 1 ELSE 0
      /\ \A i \in 1..(n - 1 + 1) : SubSeq(s, 1, n)[i] = s[1 + i - 1]
  BY <1>1, SubSeqProperties
<1>3. QED BY <1>2

\* An entry of the history that is shown loses its newline, or is empty.
LEMMA ShownFacts ==
  ASSUME NEW S, NEW s \in Seq(S)
  PROVE  /\ Without(s, Len(s) - 1) \in Seq(S)
         /\ Len(Without(s, Len(s) - 1)) = IF s = <<>> THEN 0 ELSE Len(s) - 1
         /\ s # <<>> => Without(s, Len(s) - 1) = Front(s)
<1>1. CASE s = <<>>
  <2>1. Len(s) = 0
    BY <1>1
  <2>2. Without(s, Len(s) - 1) = SubSeq(s, 1, -2 + 1) \o SubSeq(s, 1, 0)
    BY <2>1 DEF Without, RemoveAt
  <2>3. SubSeq(s, 1, -2 + 1) = <<>> /\ SubSeq(s, 1, 0) = <<>>
    BY SubSeqEmpty
  <2>4. QED BY <1>1, <2>2, <2>3
<1>2. CASE s # <<>>
  <2>1. Len(s) \in Nat /\ Len(s) >= 1
    BY <1>2, EmptySeq
  <2>2. Without(s, Len(s) - 1) = SubSeq(s, 1, Len(s) - 1) \o SubSeq(s, Len(s) + 1, Len(s))
    BY <2>1 DEF Without, RemoveAt
  <2>3. SubSeq(s, Len(s) + 1, Len(s)) = <<>>
    BY <2>1, SubSeqEmpty
  <2>4. Front(s) \in Seq(S) /\ Len(Front(s)) = Len(s) - 1
    <3> DEFINE n == Len(s) - 1
    <3>1. n \in Int /\ n <= Len(s) /\ ~(n < 0)
      BY <2>1
    <3> HIDE DEF n
    <3>2. SubSeq(s, 1, n) \in Seq(S) /\ Len(SubSeq(s, 1, n)) = n
      BY <3>1, BeginningFacts
    <3>3. QED BY <3>2 DEF Front, n
  <2>5. Without(s, Len(s) - 1) = Front(s)
    BY <2>2, <2>3, <2>4, ConcatEmptySeq DEF Front
  <2>6. QED BY <1>2, <2>4, <2>5
<1>3. QED BY <1>1, <1>2

\* The largest of some numbers up to n.
LEMMA MaxFacts ==
  ASSUME NEW n \in Nat, NEW T \in SUBSET (0..n), T # {}
  PROVE  Max(T) \in T /\ \A y \in T : y <= Max(T)
<1> DEFINE U == {n - x : x \in T}
<1>1. U \subseteq Nat /\ U # {}
  <2>1. \A x \in T : x \in 0..n /\ n - x \in Nat
    OBVIOUS
  <2>2. QED BY <2>1
<1> HIDE DEF U
<1>2. Min(U) \in U /\ \A y \in U : Min(U) <= y
  BY <1>1, MinFacts
<1>3. PICK x \in T : Min(U) = n - x
  BY <1>2 DEF U
<1>4. ASSUME NEW y \in T PROVE x >= y
  <2>1. n - y \in U
    BY DEF U
  <2>2. QED BY <1>2, <1>3, <2>1
<1>5. \E z \in T : \A y \in T : z >= y
  BY <1>4
<1>6. Max(T) \in T /\ \A y \in T : Max(T) >= y
  BY <1>5 DEF Max
<1>7. QED BY <1>6

\* A prefix, character by character.
LEMMA PrefixFacts ==
  ASSUME NEW S, NEW s \in Seq(S), NEW t \in Seq(S)
  PROVE  /\ IsPrefix(s, t) <=> Len(s) <= Len(t) /\ \A i \in 1..Len(s) : s[i] = t[i]
         /\ s \in Prefixes(t) <=> IsPrefix(s, t)
<1>1. /\ Len(s) \in Nat /\ Len(t) \in Nat
      /\ SubSeq(s, 1, Len(s)) = s
  BY SubSeqFull
<1>2. ASSUME Len(s) <= Len(t)
      PROVE  (s = SubSeq(t, 1, Len(s))) <=> \A i \in 1..Len(s) : s[i] = t[i]
  <2>1. /\ SubSeq(t, 1, Len(s)) \in Seq(S)
        /\ Len(SubSeq(t, 1, Len(s))) = Len(s)
        /\ \A i \in 1..Len(s) : SubSeq(t, 1, Len(s))[i] = t[i]
    BY <1>1, <1>2, BeginningFacts
  <2>2. ASSUME \A i \in 1..Len(s) : s[i] = t[i] PROVE s = SubSeq(t, 1, Len(s))
    BY <2>1, <2>2, SeqEqual
  <2>3. QED BY <2>1, <2>2
<1>3. IsPrefix(s, t) <=> Len(s) <= Len(t) /\ \A i \in 1..Len(s) : s[i] = t[i]
  BY <1>1, <1>2 DEF IsPrefix
<1>4. ASSUME IsPrefix(s, t) PROVE s \in Prefixes(t)
  <2>1. Len(s) \in 0..Len(t) /\ s = SubSeq(t, 1, Len(s))
    BY <1>1, <1>4 DEF IsPrefix
  <2>2. QED BY <2>1 DEF Prefixes
<1>5. ASSUME s \in Prefixes(t) PROVE IsPrefix(s, t)
  <2>1. PICK l \in 0..Len(t) : s = SubSeq(t, 1, l)
    BY <1>5 DEF Prefixes
  <2>2. Len(s) = l
    BY <1>1, <2>1, BeginningFacts
  <2>3. QED BY <1>1, <2>1, <2>2 DEF IsPrefix
<1>6. QED BY <1>3, <1>4, <1>5

\* What all completions of a word agree in: a prefix of each of them, and the
\* word grows into it.
LEMMA CommonFacts ==
  ASSUME NEW S, NEW F \in SUBSET Seq(S), F # {}, NEW v \in Seq(S),
         \A w \in F : IsPrefix(v, w)
  PROVE  LET p == LongestCommonPrefix(F)
         IN  /\ p \in Seq(S)
             /\ \A w \in F : IsPrefix(p, w)
             /\ IsPrefix(v, p)
             /\ \A w \in F : F = {w} => p = w
<1> DEFINE C == CommonPrefixes(F)
           p == LongestCommonPrefix(F)
<1>1. PICK u \in F : TRUE
  OBVIOUS
<1>2. \A x \in C : x \in Seq(S) /\ \A w \in F : IsPrefix(x, w)
  <2>1. ASSUME NEW x \in C PROVE x \in Seq(S)
    <3>1. PICK w \in F : x \in Prefixes(w)
      BY DEF CommonPrefixes
    <3>2. PICK l \in 0..Len(w) : x = SubSeq(w, 1, l)
      BY <3>1 DEF Prefixes
    <3>3. w \in Seq(S)
      OBVIOUS
    <3>4. l \in Int /\ l <= Len(w)
      BY <3>3
    <3>5. QED BY <3>2, <3>3, <3>4, BeginningFacts
  <2>2. QED BY <2>1 DEF CommonPrefixes
<1>3. ASSUME NEW x \in Seq(S), \A w \in F : IsPrefix(x, w) PROVE x \in C
  <2>1. x \in Prefixes(u)
    BY <1>3, PrefixFacts
  <2>2. QED BY <1>1, <1>3, <2>1 DEF CommonPrefixes
<1>4. \E x \in C : \A y \in C : Len(y) <= Len(x)
  <2> DEFINE T == {Len(x) : x \in C}
  <2>1. Len(u) \in Nat /\ T \in SUBSET (0..Len(u))
    <3>1. u \in Seq(S) /\ Len(u) \in Nat
      OBVIOUS
    <3>2. ASSUME NEW x \in C PROVE Len(x) \in 0..Len(u)
      <4>1. x \in Seq(S) /\ IsPrefix(x, u)
        BY <1>2
      <4>2. Len(x) \in Nat /\ Len(x) <= Len(u)
        BY <4>1 DEF IsPrefix
      <4>3. QED BY <3>1, <4>2
    <3> HIDE DEF C
    <3>3. QED BY <3>1, <3>2
  <2>2. Len(v) \in T
    BY <1>3
  <2> HIDE DEF T
  <2>3. Max(T) \in T /\ \A y \in T : y <= Max(T)
    BY <2>1, <2>2, MaxFacts
  <2>4. QED BY <2>3 DEF T
<1>5. p \in C /\ \A y \in C : Len(y) <= Len(p)
  <2>1. p = CHOOSE longest \in C : \A other \in C : Len(other) <= Len(longest)
    BY DEF LongestCommonPrefix
  <2> HIDE DEF C, p
  <2>2. QED BY <1>4, <2>1
<1> HIDE DEF p
<1>6. p \in Seq(S) /\ \A w \in F : IsPrefix(p, w)
  BY <1>2, <1>5
<1>7. IsPrefix(v, p)
  <2>1. v \in C /\ Len(v) <= Len(p)
    BY <1>3, <1>5
  <2>2. /\ \A i \in 1..Len(v) : v[i] = u[i]
        /\ \A i \in 1..Len(p) : p[i] = u[i]
    BY <1>6, PrefixFacts
  <2>3. \A i \in 1..Len(v) : v[i] = p[i]
    BY <1>6, <2>1, <2>2
  <2>4. QED BY <1>6, <2>1, <2>3, PrefixFacts
<1>8. ASSUME NEW w \in F, F = {w} PROVE p = w
  <2>1. w \in Seq(S) /\ Len(w) \in Nat
    OBVIOUS
  <2>2. IsPrefix(w, w)
    BY <2>1, PrefixFacts
  <2>3. w \in C
    BY <1>3, <1>8, <2>1, <2>2
  <2>4. Len(w) <= Len(p) /\ IsPrefix(p, w)
    BY <1>5, <1>6, <2>3
  <2>5. Len(p) \in Nat /\ Len(p) = Len(w) /\ \A i \in 1..Len(p) : p[i] = w[i]
    BY <1>6, <2>1, <2>4, PrefixFacts
  <2>6. QED BY <1>6, <2>1, <2>5, SeqEqual
<1>9. QED BY <1>6, <1>7, <1>8 DEF p

\* The words, as strings in the buffer.
LEMMA WordFacts ==
  /\ Word \in Nat /\ MaxLen \in Nat /\ MaxHistory \in Nat /\ Word > 4 * (MaxLen + 2)
  /\ Unit \in Nat /\ Unit >= 2
  /\ Space \in Letter /\ Newline \in Letter /\ Char \subseteq Letter
  /\ Words \subseteq Seq(Letter) /\ IsFiniteSet(Words) /\ Trail \in Seq(Letter)
<1>1. Seq(Char) \subseteq Seq(Letter)
  BY SeqMonotonic DEF Letter
<1>2. QED BY <1>1, LineEditorOK DEF Letter, Char

\* The word that ends a line grows to more.
GrowsTo(word, more) ==
  /\ IsPrefix(word, more)
  /\ \E w \in Words : /\ IsPrefix(word, w)
                      /\ more \in Prefixes(w) \cup Prefixes(w \o Trail)
                      /\ Len(more) <= Len(w) + Len(Trail)

\* What bash_style_tab_complete makes of the line.
Completed(start, more) ==
  /\ GrowsTo(SubSeq(buf, start + 1, size), more)
  /\ size' = Len(buf) + Len(more) - (size - start)
  /\ size' <= MaxLen + 1 /\ size' < alloced
  /\ cursor' = size'
  /\ buf' = CutAt(SubSeq(buf, 1, start) \o more, size')
  /\ Written({start + Len(more), size'}, size')
  /\ Notice(Len(buf) # size)
  /\ UNCHANGED browse

\* It finds a last word, which is not empty, and something that it grows to.
LEMMA CompletionFacts ==
  ASSUME LinesOK, NEW more \in Completions
  PROVE  /\ size <= Len(buf) /\ LastBlank \in 0..(size - 1)
         /\ LastWord \in Seq(Letter) /\ Len(LastWord) = size - LastBlank
         /\ more \in Seq(Letter) /\ GrowsTo(LastWord, more)
<1> DEFINE blanks == {i \in 1..size : buf[i] = Space}
           start  == LastBlank
           word   == LastWord
<1>1. /\ size \in Nat /\ size <= Len(buf) /\ start # size
      /\ \E found \in Matches(word) : more = Grown(found)
  <2>1. size \in Nat /\ Len(buf) \in Nat
    BY WordFacts DEF LinesOK, Lines
  <2>2. ~(size > Len(buf) \/ LastBlank = size)
    BY DEF Completions
  <2>3. \E found \in Matches(LastWord) : more = Grown(found)
    <3>1. more \in {Grown(found) : found \in Matches(LastWord)}
      BY <2>2, Zenon DEF Completions
    <3>2. QED BY <3>1, Zenon
  <2>4. QED BY <2>1, <2>2, <2>3
<1>2. buf \in Seq(Letter)
  BY DEF LinesOK, Lines
<1>3. start \in 0..size
  <2> DEFINE T == blanks \cup {0}
  <2>1. T \in SUBSET (0..size) /\ T # {}
    BY <1>1
  <2>2. start = Max(T)
    BY Zenon DEF LastBlank
  <2> HIDE DEF T, start
  <2>3. Max(T) \in T
    BY <1>1, <2>1, MaxFacts
  <2>4. QED BY <2>1, <2>2, <2>3
<1>3a. word = SubSeq(buf, start + 1, size)
  BY Zenon DEF LastWord
<1> HIDE DEF start, word
<1>4. start \in 0..(size - 1)
  BY <1>1, <1>3
<1>5. word \in Seq(Letter) /\ Len(word) = size - start
  <2>1. \A i \in (start + 1)..size : buf[i] \in Letter
    <3>1. \A i \in (start + 1)..size : i \in 1..Len(buf)
      BY <1>1, <1>2, <1>3
    <3>2. QED BY <1>2, <3>1, ElementOfSeq
  <2>2. start + 1 \in Int /\ size \in Int /\ start + 1 <= size /\ size - (start + 1) + 1 = size - start
    BY <1>1, <1>3, <1>4
  <2>3. QED BY <1>3a, <2>1, <2>2, SubSeqProperties
<1>5a. PICK found \in Matches(word) : more = Grown(found)
  BY <1>1
<1> DEFINE common == LongestCommonPrefix(found)
<1>5b. more = IF Cardinality(found) = 1 THEN common \o Trail ELSE common
  BY <1>5a, Zenon DEF Grown
<1>6. /\ found \in SUBSET Words /\ found \in SUBSET Seq(Letter) /\ IsFiniteSet(found)
      /\ \A w \in found : IsPrefix(word, w)
  <2>1. found \in SUBSET Words /\ \A w \in found : IsPrefix(word, w)
    BY DEF Matches
  <2>2. QED BY <2>1, WordFacts, FS_Subset
<1>6a. found # {}
  BY DEF Matches
<1>7. /\ common \in Seq(Letter)
      /\ \A w \in found : IsPrefix(common, w)
      /\ IsPrefix(word, common)
      /\ \A w \in found : found = {w} => common = w
  BY <1>5, <1>6, <1>6a, CommonFacts
<1> HIDE DEF common
<1>8. more \in Seq(Letter) /\ GrowsTo(word, more)
  <2>1. CASE Cardinality(found) = 1
    <3>1. PICK w : found = {w}
      BY <1>6, <2>1, FS_Singleton
    <3>2. common = w /\ w \in Words /\ w \in Seq(Letter)
      BY <1>6, <1>7, <3>1
    <3> DEFINE m == w \o Trail
    <3>3. /\ m \in Seq(Letter) /\ Len(m) = Len(w) + Len(Trail)
          /\ \A i \in 1..(Len(w) + Len(Trail)) : m[i] = IF i <= Len(w) THEN w[i] ELSE Trail[i - Len(w)]
      BY <3>2, WordFacts, ConcatProperties
    <3> HIDE DEF m
    <3>4. /\ Len(word) <= Len(w) /\ \A i \in 1..Len(word) : word[i] = w[i]
          /\ Len(word) \in Nat /\ Len(w) \in Nat /\ Len(Trail) \in Nat
      BY <1>5, <1>7, <3>2, PrefixFacts, WordFacts
    <3>5. Len(word) <= Len(m) /\ \A i \in 1..Len(word) : word[i] = m[i]
      BY <3>3, <3>4
    <3>6. IsPrefix(word, m)
      BY <1>5, <3>3, <3>5, PrefixFacts
    <3>7. IsPrefix(m, m) /\ m \in Prefixes(m)
      BY <3>3, PrefixFacts
    <3>8. GrowsTo(word, m)
      BY <1>6, <3>1, <3>2, <3>3, <3>4, <3>6, <3>7 DEF GrowsTo, m
    <3>9. QED BY <1>5b, <2>1, <3>2, <3>3, <3>8 DEF m
  <2>2. CASE Cardinality(found) # 1
    <3>1. PICK w \in found : TRUE
      BY <1>6a
    <3>2. IsPrefix(common, w) /\ IsPrefix(word, w) /\ w \in Words /\ w \in Seq(Letter)
      BY <1>6, <1>7, <3>1
    <3>3. common \in Prefixes(w) /\ Len(common) <= Len(w)
      BY <1>7, <3>2, PrefixFacts
    <3>4. Len(common) \in Nat /\ Len(w) \in Nat /\ Len(Trail) \in Nat
      BY <1>7, <3>2, WordFacts
    <3>5. GrowsTo(word, common)
      BY <1>7, <3>2, <3>3, <3>4 DEF GrowsTo
    <3>6. QED BY <1>5b, <1>7, <2>2, <3>5
  <2>3. QED BY <2>1, <2>2
<1>9. QED BY <1>1, <1>4, <1>5, <1>8 DEF start, word

\* TAB stores one that fits.
LEMMA TabFacts ==
  ASSUME LinesOK, TabComplete
  PROVE  /\ size <= Len(buf)
         /\ \E start \in 0..(size - 1), more \in Seq(Letter) : Completed(start, more)
<1>1. PICK more \in Completions :
        LET n == CompletedSize(more)
        IN /\ n < alloced /\ n <= MaxLen + 1
           /\ size' = n /\ cursor' = n
           /\ buf' = CutAt(SubSeq(buf, 1, LastBlank) \o more, n)
           /\ Written({LastBlank + Len(more), n}, n)
           /\ Notice(Len(buf) # size)
           /\ UNCHANGED browse
  BY Zenon DEF TabComplete
<1>2. /\ size <= Len(buf) /\ LastBlank \in 0..(size - 1)
      /\ more \in Seq(Letter) /\ GrowsTo(LastWord, more)
  BY CompletionFacts
<1>3. LastWord = SubSeq(buf, LastBlank + 1, size)
  BY Zenon DEF LastWord
<1>4. CompletedSize(more) = Len(buf) + Len(more) - (size - LastBlank)
  BY Zenon DEF CompletedSize
<1> HIDE DEF LastWord, LastBlank, CompletedSize
<1>5. Completed(LastBlank, more)
  BY <1>1, <1>2, <1>3, <1>4 DEF Completed
<1>6. QED BY <1>2, <1>5

-----------------------------------------------------------------------------
(* Keys.                                                                   *)

\* What there is before a key.
LEMMA LinesFacts ==
  ASSUME LinesOK
  PROVE  /\ buf \in Seq(Letter) /\ Len(buf) \in Nat /\ Len(buf) <= MaxLen + 2
         /\ buf2 \in Seq(Letter) /\ Len(buf2) \in Nat /\ Len(buf2) <= MaxLen + 2
         /\ past \in Seq(Lines) /\ Len(past) \in Nat /\ DOMAIN past = 1..Len(past)
         /\ \A e \in 1..Len(past) : /\ past[e] \in Lines /\ past[e] \in Seq(Letter)
                                    /\ Len(past[e]) \in Nat /\ Len(past[e]) <= MaxLen + 2
         /\ size \in Nat /\ size <= MaxLen + 2
         /\ cursor \in Nat /\ cursor < Word
         /\ entry \in Nat /\ entry <= Len(past) /\ Len(past) <= MaxHistory
<1>1. /\ buf \in Lines /\ buf2 \in Lines /\ past \in Seq(Lines)
      /\ size \in 0..(MaxLen + 2) /\ cursor \in 0..(Word - 1)
      /\ entry \in 0..Len(past) /\ Len(past) <= MaxHistory
  BY DEF LinesOK
<1>2. \A s \in Lines : s \in Seq(Letter) /\ Len(s) \in Nat /\ Len(s) <= MaxLen + 2
  <2> DEFINE L == Letter
  <2>1. ASSUME NEW s \in Lines PROVE s \in Seq(L) /\ Len(s) <= MaxLen + 2
    BY DEF Lines
  <2> HIDE DEF L
  <2>2. \A s \in Seq(L) : Len(s) \in Nat
    OBVIOUS
  <2>3. QED BY <2>1, <2>2 DEF L
<1> DEFINE V == Lines
<1>3. V = Lines
  OBVIOUS
<1> HIDE DEF V
<1>4. past \in Seq(V) /\ Len(past) \in Nat /\ DOMAIN past = 1..Len(past)
      /\ \A e \in 1..Len(past) : past[e] \in V
  <2>1. past \in Seq(V)
    BY <1>1, <1>3
  <2>2. QED BY <2>1
<1>5. QED BY <1>1, <1>2, <1>3, <1>4, WordFacts

\* A line that is still short enough.
LEMMA IsLine ==
  ASSUME NEW s \in Seq(Letter), Len(s) <= MaxLen + 2
  PROVE  s \in Lines
BY DEF Lines

\* The buffers grow, if they do, to more than the new line needs; the places that
\* were written to are in the buffer, if they were in the smaller one.
LEMMA WrittenFacts ==
  ASSUME alloced \in Nat, overrun \in BOOLEAN, NEW places, NEW n \in Nat, Written(places, n)
  PROVE  /\ alloced' \in Nat /\ overrun' \in BOOLEAN
         /\ alloced <= alloced'
         /\ n <= alloced => n + Unit < alloced'
         /\ overrun = FALSE /\ (\A p \in places : ~(p >= alloced)) => overrun' = FALSE
<1>1. alloced' = IF alloced <= n + Unit THEN 2 * (alloced + Unit) ELSE alloced
  BY DEF Written
<1>2. /\ alloced' \in Nat /\ alloced <= alloced'
      /\ n <= alloced => n + Unit < alloced'
  BY <1>1, WordFacts
<1>3. overrun' = (overrun \/ \E p \in places : p >= alloced)
  BY DEF Written
<1>4. overrun' \in BOOLEAN
  BY <1>3
<1>5. ASSUME overrun = FALSE, \A p \in places : ~(p >= alloced)
      PROVE  overrun' = FALSE
  BY <1>3, <1>5
<1>6. QED BY <1>2, <1>4, <1>5

\* A mishap is noted for good.
LEMMA NoticeFacts ==
  ASSUME astray \in BOOLEAN, NEW mishap \in BOOLEAN, Notice(mishap)
  PROVE  /\ astray' \in BOOLEAN
         /\ ~astray' => ~astray /\ ~mishap
BY DEF Notice

\* What a key leaves to the next, when the history stays and nothing else is read.
LEMMA MemoryStays ==
  ASSUME LinesOK, MemoryOK, NEW places, NEW n \in Nat, Written(places, n),
         \A p \in places : ~(p >= alloced), n <= alloced, past' = past,
         size' \in Nat, size' <= n,
         Len(buf') \in Nat, Len(buf') <= n \/ (size' = 0 /\ Len(buf') + Unit <= alloced),
         Len(buf2') \in Nat, Len(buf2') + Unit <= alloced
  PROVE  MemoryOK'
<1>0. Unit \in Nat /\ Unit >= 2
  BY WordFacts
<1>1. /\ alloced \in Nat /\ overrun = FALSE
      /\ \A e \in 1..Len(past) : Len(past[e]) + Unit <= alloced /\ Len(past[e]) \in Nat
  BY LinesFacts DEF MemoryOK, Fits
<1>2. /\ alloced' \in Nat /\ overrun' = FALSE
      /\ alloced <= alloced' /\ n + Unit < alloced'
  BY <1>1, WrittenFacts
<1>3. size' + Unit < alloced'
  <2> DEFINE m == size'
  <2>1. m \in Nat /\ m <= n
    OBVIOUS
  <2> HIDE DEF m
  <2>2. m + Unit < alloced'
    BY <1>0, <1>2, <2>1
  <2>3. QED BY <2>2 DEF m
<1>4. Len(buf') + Unit <= alloced' /\ (size' > 0 => Len(buf') + Unit < alloced')
  BY <1>0, <1>1, <1>2
<1>5. Len(buf2') + Unit <= alloced'
  BY <1>0, <1>1, <1>2
<1>6. \A e \in 1..Len(past) : Len(past[e]) + Unit <= alloced'
  BY <1>0, <1>1, <1>2
<1>7. QED BY <1>2, <1>3, <1>4, <1>5, <1>6 DEF MemoryOK, Fits

\* What every key has to keep.
KeyKeeps ==
  /\ LinesOK' /\ FieldOK'
  /\ alloced' \in Nat /\ overrun' \in BOOLEAN /\ astray' \in BOOLEAN
  /\ MemoryOK => MemoryOK'

\* A character.
LEMMA InsertKeeps ==
  ASSUME LinesOK, OtherOK, FieldOK, NEW c \in Char, Insert(c)
  PROVE  KeyKeeps
<1>1. /\ size < MaxLen /\ size' = size + 1
      /\ buf' = CutAt(With(buf, cursor, c), size + 1)
      /\ cursor' = (cursor + 1) % Word
      /\ Written({Len(buf) + 1, size + 1}, size + 1)
      /\ UNCHANGED <<buf2, entry, past, astray>>
  BY DEF Insert, browse
<1>2. /\ buf \in Seq(Letter) /\ Len(buf) \in Nat
      /\ size \in Nat /\ cursor \in Nat /\ cursor < Word
      /\ alloced \in Nat /\ overrun \in BOOLEAN /\ astray \in BOOLEAN
      /\ c \in Letter
  BY LinesFacts, WordFacts DEF OtherOK
<1>3. With(buf, cursor, c) \in Seq(Letter) /\ Len(With(buf, cursor, c)) = Len(buf) + 1
  BY <1>2, WithFacts
<1>4. /\ buf' \in Seq(Letter) /\ Len(buf') \in Nat
      /\ Len(buf') = IF size + 1 < Len(buf) + 1 THEN size + 1 ELSE Len(buf) + 1
  <2>1. size + 1 \in Nat
    BY <1>2
  <2>2. /\ buf' \in Seq(Letter)
        /\ Len(buf') = IF size + 1 < Len(buf) + 1 THEN size + 1 ELSE Len(buf) + 1
    BY <1>1, <1>3, <2>1, CutFacts
  <2>3. QED BY <1>2, <2>2
<1>5. cursor' \in 0..(Word - 1) /\ (cursor + 1 < Word => cursor' = cursor + 1)
  <2> DEFINE x == cursor + 1
  <2>1. x \in 0..(2 * Word - 1) /\ Word \in Nat \ {0}
    BY <1>2, WordFacts
  <2>2. x % Word = IF x < Word THEN x ELSE x - Word
    <3> HIDE DEF x
    <3>1. QED BY <2>1, ModFacts
  <2>3. QED BY <1>1, <1>2, <2>2, WordFacts
<1>6. LinesOK'
  <2>1. size' \in 0..(MaxLen + 2) /\ Len(buf') <= MaxLen + 2
    BY <1>1, <1>2, <1>4, WordFacts
  <2>2. buf' \in Lines
    BY <1>4, <2>1, IsLine
  <2>3. QED BY <1>1, <1>5, <2>1, <2>2 DEF LinesOK
<1>7. FieldOK'
  <2>1. ASSUME ~astray
        PROVE  size' <= Len(buf') /\ cursor' <= size' /\ (size' > 0 => size' = Len(buf'))
    <3>1. size <= Len(buf) /\ cursor <= size
      BY <2>1 DEF FieldOK
    <3>2. cursor' = cursor + 1
      BY <1>1, <1>2, <1>5, <3>1, WordFacts
    <3>3. QED BY <1>1, <1>2, <1>4, <3>1, <3>2
  <2>2. QED BY <1>1, <2>1 DEF FieldOK
<1>8. alloced' \in Nat /\ overrun' \in BOOLEAN /\ astray' \in BOOLEAN
  <2>1. size + 1 \in Nat
    BY <1>2
  <2>2. QED BY <1>1, <1>2, <2>1, WrittenFacts
<1>9. ASSUME MemoryOK PROVE MemoryOK'
  <2>1. /\ size + Unit < alloced /\ Len(buf) + Unit <= alloced
        /\ Len(buf2) + Unit <= alloced /\ Len(buf2) \in Nat
    BY <1>9, LinesFacts DEF MemoryOK, Fits
  <2>2. /\ size + 1 \in Nat /\ size + 1 <= alloced
        /\ ~(Len(buf) + 1 >= alloced) /\ ~(size + 1 >= alloced)
    BY <1>2, <2>1, WordFacts
  <2>3. Len(buf') <= size + 1
    BY <1>2, <1>4
  <2>4. \A p \in {Len(buf) + 1, size + 1} : ~(p >= alloced)
    BY <2>2
  <2>5. size' \in Nat /\ size' <= size + 1
    BY <1>1, <1>2
  <2>6. Len(buf2') \in Nat /\ Len(buf2') + Unit <= alloced /\ past' = past
    BY <1>1, <2>1
  <2>7. QED BY <1>1, <1>4, <1>9, <2>2, <2>3, <2>4, <2>5, <2>6, MemoryStays
<1>10. QED BY <1>6, <1>7, <1>8, <1>9 DEF KeyKeeps

\* What BACKSPACE and DELETE have in common: one fewer, wherever in the string.
LEMMA ErasedKeeps ==
  ASSUME LinesOK, OtherOK, FieldOK, NEW i \in Nat, NEW mishap \in BOOLEAN,
         size > 0, size' = size - 1, cursor' = (cursor + Word - 1) % Word,
         buf' = Without(buf, i), Written({}, size'), Notice(mishap),
         UNCHANGED browse,
         ~mishap => cursor > 0 /\ i < Len(buf)
  PROVE  KeyKeeps
<1>1. /\ buf \in Seq(Letter) /\ Len(buf) \in Nat /\ Len(buf) <= MaxLen + 2
      /\ size \in Nat /\ size <= MaxLen + 2 /\ cursor \in Nat /\ cursor < Word
      /\ alloced \in Nat /\ overrun \in BOOLEAN /\ astray \in BOOLEAN
      /\ buf2' = buf2 /\ entry' = entry /\ past' = past
  BY LinesFacts DEF OtherOK, browse
<1>2. /\ buf' \in Seq(Letter) /\ Len(buf') \in Nat
      /\ Len(buf') = IF i < Len(buf) THEN Len(buf) - 1 ELSE Len(buf)
  <2>1. /\ buf' \in Seq(Letter)
        /\ Len(buf') = IF i < Len(buf) THEN Len(buf) - 1 ELSE Len(buf)
    BY <1>1, WithoutFacts
  <2>2. QED BY <1>1, <2>1
<1>3. cursor' \in 0..(Word - 1) /\ (cursor > 0 => cursor' = cursor - 1)
  <2> DEFINE x == cursor + Word - 1
  <2>1. x \in 0..(2 * Word - 1) /\ Word \in Nat \ {0}
    BY <1>1, WordFacts
  <2>2. x % Word = IF x < Word THEN x ELSE x - Word
    <3> HIDE DEF x
    <3>1. QED BY <2>1, ModFacts
  <2>3. QED BY <1>1, <2>2, WordFacts
<1>4. LinesOK'
  <2>1. size' \in 0..(MaxLen + 2) /\ Len(buf') <= MaxLen + 2
    BY <1>1, <1>2, WordFacts
  <2>2. buf' \in Lines
    BY <1>2, <2>1, IsLine
  <2>3. QED BY <1>1, <1>3, <2>1, <2>2 DEF LinesOK
<1>5. FieldOK'
  <2>1. ASSUME ~astray'
        PROVE  /\ ~astray
               /\ size' <= Len(buf') /\ cursor' <= size' /\ (size' > 0 => size' = Len(buf'))
    <3>1. ~astray /\ cursor > 0 /\ i < Len(buf)
      BY <1>1, <2>1, NoticeFacts
    <3>2. size = Len(buf) /\ cursor <= size
      BY <1>1, <3>1 DEF FieldOK
    <3>3. QED BY <1>1, <1>2, <1>3, <3>1, <3>2
  <2>2. QED BY <1>1, <2>1 DEF FieldOK
<1>6. alloced' \in Nat /\ overrun' \in BOOLEAN /\ astray' \in BOOLEAN
  <2>1. size - 1 \in Nat
    BY <1>1
  <2>2. Written({}, size - 1)
    OBVIOUS
  <2>3. QED BY <1>1, <2>1, <2>2, WrittenFacts, NoticeFacts
<1>7. ASSUME MemoryOK PROVE MemoryOK'
  <2>1. /\ size + Unit < alloced /\ Len(buf) + Unit < alloced
        /\ overrun = FALSE
    BY <1>1, <1>7 DEF MemoryOK, Fits
  <2>2. alloced' = alloced /\ overrun' = FALSE
    <3>1. ~(alloced <= size - 1 + Unit)
      BY <1>1, <2>1, WordFacts
    <3>2. QED BY <2>1, <3>1 DEF Written
  <2>3. size' + Unit < alloced' /\ Len(buf') + Unit < alloced'
    <3>1. size - 1 + Unit < alloced
      BY <1>1, <2>1, WordFacts
    <3>2. Len(buf') = Len(buf) \/ Len(buf') = Len(buf) - 1
      BY <1>2
    <3>3. Len(buf') + Unit < alloced
      BY <1>1, <2>1, <3>2, WordFacts
    <3>4. QED BY <2>2, <3>1, <3>3
  <2>4. Len(buf') + Unit <= alloced'
    BY <1>1, <1>2, <2>2, <2>3, WordFacts
  <2>5. QED BY <1>1, <1>7, <2>2, <2>3, <2>4 DEF MemoryOK, Fits
<1>8. QED BY <1>4, <1>5, <1>6, <1>7 DEF KeyKeeps

\* BACKSPACE
LEMMA BackspaceKeeps ==
  ASSUME LinesOK, OtherOK, FieldOK, Backspace
  PROVE  KeyKeeps
<1>1. /\ size > 0 /\ size' = size - 1 /\ cursor' = (cursor + Word - 1) % Word
      /\ buf' = Without(buf, cursor') /\ Written({}, size')
      /\ Notice(cursor = 0) /\ UNCHANGED browse
  BY DEF Backspace, Stray
<1>2. cursor \in Nat /\ cursor < Word /\ size \in Nat /\ astray \in BOOLEAN
  BY LinesFacts DEF OtherOK
<1>3. cursor' \in Nat /\ (cursor > 0 => cursor' = cursor - 1)
  <2> DEFINE x == cursor + Word - 1
  <2>1. x \in 0..(2 * Word - 1) /\ Word \in Nat \ {0}
    BY <1>2, WordFacts
  <2>2. x % Word = IF x < Word THEN x ELSE x - Word
    <3> HIDE DEF x
    <3>1. QED BY <2>1, ModFacts
  <2>3. QED BY <1>1, <1>2, <2>2, WordFacts
<1> DEFINE i == cursor'
           mishap == cursor = 0 \/ astray'
<1>4. Notice(mishap) /\ mishap \in BOOLEAN
  BY <1>1, <1>2 DEF Notice
<1>5. ~mishap => cursor > 0 /\ i < Len(buf)
  <2>1. ASSUME ~mishap PROVE cursor > 0 /\ cursor - 1 < Len(buf)
    <3>1. ~astray /\ cursor > 0
      BY <1>1, <1>2, <2>1 DEF Notice
    <3>2. cursor <= size /\ size = Len(buf)
      BY <1>1, <3>1 DEF FieldOK
    <3>3. QED BY <1>2, <3>1, <3>2
  <2>2. QED BY <1>2, <1>3, <2>1
<1> HIDE DEF i, mishap
<1>6. i \in Nat /\ buf' = Without(buf, i)
  BY <1>1, <1>3 DEF i
<1>7. QED BY <1>1, <1>4, <1>5, <1>6, ErasedKeeps

\* DELETE
LEMMA DeleteKeeps ==
  ASSUME LinesOK, OtherOK, FieldOK, Delete
  PROVE  KeyKeeps
<1> DEFINE mishap == cursor = 0 \/ cursor >= Len(buf)
<1>1. /\ size > 0 /\ size' = size - 1 /\ cursor' = (cursor + Word - 1) % Word
      /\ buf' = Without(buf, cursor) /\ Written({}, size')
      /\ Notice(mishap) /\ UNCHANGED browse
  BY DEF Delete, Stray
<1>2. cursor \in Nat /\ Len(buf) \in Nat
  BY LinesFacts
<1>3. mishap \in BOOLEAN /\ (~mishap => cursor > 0 /\ cursor < Len(buf))
  BY <1>2
<1> HIDE DEF mishap
<1>4. QED BY <1>1, <1>2, <1>3, ErasedKeeps

\* HOME, LEFT, RIGHT and END.
LEMMA MoveKeeps ==
  ASSUME LinesOK, OtherOK, FieldOK, MoveCursor
  PROVE  KeyKeeps
<1>1. /\ buf' = buf /\ size' = size /\ alloced' = alloced /\ overrun' = overrun
      /\ buf2' = buf2 /\ entry' = entry /\ past' = past
  BY DEF MoveCursor, memory, browse
<1>2. /\ Len(buf) \in Nat /\ Len(buf) <= MaxLen + 2
      /\ size \in Nat /\ size <= MaxLen + 2 /\ cursor \in Nat /\ cursor < Word
      /\ astray \in BOOLEAN
  BY LinesFacts DEF OtherOK
<1>3. /\ cursor' \in Nat /\ cursor' < Word /\ astray' \in BOOLEAN
      /\ ~astray' => ~astray /\ (cursor <= size => cursor' <= size)
  <2>1. CASE cursor' = 0 /\ UNCHANGED astray
    BY <1>2, <2>1, WordFacts
  <2>2. CASE cursor \in 1..MaxLen /\ cursor' = cursor - 1 /\ UNCHANGED astray
    <3>1. cursor >= 1 /\ cursor' = cursor - 1 /\ astray' = astray
      BY <1>2, <2>2, WordFacts
    <3>2. QED BY <1>2, <3>1, WordFacts
  <2>3. CASE cursor < size /\ cursor' = cursor + 1 /\ UNCHANGED astray
    BY <1>2, <2>3, WordFacts
  <2>4. CASE cursor' = Len(buf) /\ Notice(Len(buf) # size)
    <3>1. astray' \in BOOLEAN /\ (~astray' => ~astray /\ Len(buf) = size)
      BY <1>2, <2>4 DEF Notice
    <3>2. QED BY <1>2, <2>4, <3>1, WordFacts
  <2>5. QED BY <2>1, <2>2, <2>3, <2>4 DEF MoveCursor
<1>4. LinesOK'
  BY <1>1, <1>3, WordFacts DEF LinesOK
<1>5. FieldOK'
  BY <1>1, <1>3 DEF FieldOK
<1>6. MemoryOK => MemoryOK'
  BY <1>1 DEF MemoryOK, Fits
<1>7. QED BY <1>1, <1>3, <1>4, <1>5, <1>6 DEF KeyKeeps, OtherOK

\* UP and DOWN.
LEMMA ShownKeeps ==
  ASSUME LinesOK, OtherOK, FieldOK, NEW e \in Int, Shown(e)
  PROVE  KeyKeeps
<1> DEFINE saved == IF entry = 0 THEN buf ELSE buf2
           found == GetHistory(e) # 0
           text  == IF found THEN past[e] ELSE saved
<1>1. /\ entry' = GetHistory(e)
      /\ buf2' = IF found THEN saved ELSE <<>>
      /\ buf' = IF found THEN Without(text, Len(text) - 1) ELSE text
      /\ size' = Len(buf') /\ cursor' = Len(buf')
      /\ Written({Len(saved), Len(text)}, Len(text))
      /\ Notice(Len(buf) # size)
      /\ past' = past
  BY Zenon DEF Shown
<1>2. /\ saved \in Seq(Letter) /\ Len(saved) \in Nat /\ Len(saved) <= MaxLen + 2
      /\ astray \in BOOLEAN /\ alloced \in Nat /\ overrun \in BOOLEAN
  BY LinesFacts DEF OtherOK
<1>3. /\ found => e \in 1..Len(past)
      /\ GetHistory(e) \in 0..Len(past)
  BY LinesFacts DEF GetHistory
<1>4. text \in Seq(Letter) /\ Len(text) \in Nat /\ Len(text) <= MaxLen + 2
  BY <1>2, <1>3, LinesFacts
<1>5. MemoryOK => /\ Len(saved) + Unit <= alloced
                  /\ Len(text) + Unit <= alloced
  BY <1>3, LinesFacts DEF MemoryOK, Fits
<1> HIDE DEF saved, found, text
<1>6. buf' \in Seq(Letter) /\ Len(buf') \in Nat /\ Len(buf') <= Len(text)
  <2>1. CASE found
    <3>1. /\ Without(text, Len(text) - 1) \in Seq(Letter)
          /\ Len(Without(text, Len(text) - 1)) = IF text = <<>> THEN 0 ELSE Len(text) - 1
      BY <1>4, ShownFacts
    <3>2. text # <<>> => Len(text) >= 1
      BY <1>4, EmptySeq
    <3>3. /\ buf' \in Seq(Letter)
          /\ Len(buf') = IF text = <<>> THEN 0 ELSE Len(text) - 1
      BY <1>1, <2>1, <3>1
    <3>4. QED BY <1>4, <3>2, <3>3
  <2>2. CASE ~found
    BY <1>1, <1>4, <2>2
  <2>3. QED BY <2>1, <2>2
<1>7. buf2' \in Seq(Letter) /\ Len(buf2') \in Nat /\ Len(buf2') <= Len(saved)
  BY <1>1, <1>2, EmptySeq
<1> DEFINE n == Len(buf')
<1>8. n \in Nat /\ n <= Len(text) /\ size' = n /\ cursor' = n
  BY <1>1, <1>6
<1>9. LinesOK'
  <2>1. n <= MaxLen + 2 /\ Len(buf2') <= MaxLen + 2
    <3> HIDE DEF n
    <3>1. n <= MaxLen + 2
      BY <1>4, <1>8, WordFacts
    <3>2. Len(buf2') <= MaxLen + 2
      BY <1>2, <1>7, WordFacts
    <3>3. QED BY <3>1, <3>2
  <2>2. buf' \in Lines /\ buf2' \in Lines
    BY <1>6, <1>7, <2>1, IsLine
  <2> HIDE DEF n
  <2>3. n \in 0..(MaxLen + 2) /\ n \in 0..(Word - 1)
    BY <1>8, <2>1, WordFacts
  <2>4. size' \in 0..(MaxLen + 2) /\ cursor' \in 0..(Word - 1)
    BY <1>8, <2>3
  <2>5. /\ past' \in Seq(Lines) /\ Len(past') <= MaxHistory
        /\ entry' \in 0..Len(past')
    BY <1>1, <1>3, LinesFacts
  <2>6. QED BY <2>2, <2>4, <2>5 DEF LinesOK
<1>10. FieldOK'
  <2>1. ~astray' => ~astray
    BY <1>1, <1>2 DEF Notice
  <2>2. size' <= Len(buf') /\ cursor' <= size' /\ (size' > 0 => size' = Len(buf'))
    BY <1>8
  <2>3. QED BY <1>1, <2>1, <2>2 DEF FieldOK
<1>11. alloced' \in Nat /\ overrun' \in BOOLEAN /\ astray' \in BOOLEAN
  <2>1. astray' \in BOOLEAN
    BY <1>1, <1>2 DEF Notice
  <2>2. QED BY <1>1, <1>2, <1>4, <2>1, WrittenFacts
<1>12. ASSUME MemoryOK PROVE MemoryOK'
  <2>0. Unit \in Nat /\ Unit >= 2
    BY WordFacts
  <2>1. /\ Len(saved) + Unit <= alloced /\ Len(text) + Unit <= alloced
    BY <1>5, <1>12
  <2>2. ~(Len(saved) >= alloced) /\ ~(Len(text) >= alloced) /\ Len(text) <= alloced
    BY <1>2, <1>4, <2>0, <2>1
  <2>3. \A p \in {Len(saved), Len(text)} : ~(p >= alloced)
    BY <2>2
  <2>4. Len(buf2') + Unit <= alloced
    BY <1>2, <1>7, <2>0, <2>1
  <2>5. size' \in Nat /\ size' <= Len(text)
    BY <1>8
  <2>6. QED BY <1>1, <1>4, <1>6, <1>7, <1>12, <2>2, <2>3, <2>4, <2>5, MemoryStays
<1>13. QED BY <1>9, <1>10, <1>11, <1>12 DEF KeyKeeps

\* TAB, with a completion that fits.
LEMMA TabKeeps ==
  ASSUME LinesOK, OtherOK, FieldOK, TabComplete
  PROVE  KeyKeeps
<1>1. /\ buf \in Seq(Letter) /\ Len(buf) \in Nat /\ Len(buf) <= MaxLen + 2
      /\ buf2 \in Seq(Letter) /\ Len(buf2) \in Nat
      /\ size \in Nat
      /\ alloced \in Nat /\ overrun \in BOOLEAN /\ astray \in BOOLEAN
  BY LinesFacts DEF OtherOK
<1>2. size <= Len(buf)
  BY TabFacts
<1>3. PICK start \in 0..(size - 1), more \in Seq(Letter) : Completed(start, more)
  BY TabFacts
<1> DEFINE word == SubSeq(buf, start + 1, size)
           n == Len(buf) + Len(more) - (size - start)
<1>4. /\ GrowsTo(word, more)
      /\ size' = n /\ n <= MaxLen + 1 /\ n < alloced /\ cursor' = n
      /\ buf' = CutAt(SubSeq(buf, 1, start) \o more, n)
      /\ Written({start + Len(more), n}, n)
      /\ Notice(Len(buf) # size)
      /\ buf2' = buf2 /\ entry' = entry /\ past' = past
  BY <1>3 DEF Completed, browse
<1>5. start \in Nat /\ start < size /\ Len(more) \in Nat
  BY <1>1, <1>3
<1>6. Len(more) >= size - start
  <2>1. Len(word) = size - start
    <3>1. \A i \in (start + 1)..size : i \in 1..Len(buf)
      BY <1>1, <1>2, <1>5
    <3>2. \A i \in (start + 1)..size : buf[i] \in Letter
      BY <1>1, <3>1, ElementOfSeq
    <3>3. start + 1 \in Int /\ size \in Int /\ start + 1 <= size /\ size - (start + 1) + 1 = size - start
      BY <1>1, <1>5
    <3>4. QED BY <3>2, <3>3, SubSeqProperties
  <2>2. Len(word) <= Len(more)
    BY <1>4 DEF GrowsTo, IsPrefix
  <2>3. QED BY <1>5, <2>1, <2>2
<1> HIDE DEF word
<1>7. n \in Nat /\ n >= start + Len(more)
  BY <1>1, <1>2, <1>5, <1>6
<1>8. buf' \in Seq(Letter) /\ Len(buf') = start + Len(more)
  <2> DEFINE front == SubSeq(buf, 1, start)
  <2>1. start \in Int /\ start <= Len(buf) /\ ~(start < 0)
    BY <1>1, <1>2, <1>5
  <2>2. front \in Seq(Letter) /\ Len(front) = start
    BY <1>1, <2>1, BeginningFacts
  <2> HIDE DEF front
  <2>3. front \o more \in Seq(Letter) /\ Len(front \o more) = start + Len(more)
    BY <1>3, <2>2, ConcatProperties
  <2> HIDE DEF n
  <2>4. CutAt(front \o more, n) = front \o more
    <3>1. ~(n < Len(front \o more))
      BY <1>5, <1>7, <2>3
    <3>2. QED BY <3>1 DEF CutAt
  <2>5. QED BY <1>4, <2>3, <2>4 DEF front
<1>9. ~astray' => ~astray /\ n = start + Len(more)
  <2>1. ~astray' => ~astray /\ Len(buf) = size
    BY <1>1, <1>4 DEF Notice
  <2>2. QED BY <1>1, <1>5, <2>1, SMTT(30)
<1> HIDE DEF n
<1>11. LinesOK'
  <2>1. Len(buf') <= MaxLen + 2 /\ n \in 0..(MaxLen + 2) /\ n \in 0..(Word - 1)
    BY <1>4, <1>5, <1>7, <1>8, WordFacts
  <2>2. buf' \in Lines
    BY <1>8, <2>1, IsLine
  <2>3. QED BY <1>4, <2>1, <2>2 DEF LinesOK
<1>12. FieldOK'
  <2>1. ~astray' => /\ ~astray
                    /\ size' <= Len(buf') /\ cursor' <= size' /\ (size' > 0 => size' = Len(buf'))
    BY <1>4, <1>5, <1>7, <1>8, <1>9
  <2>2. QED BY <1>4, <2>1 DEF FieldOK
<1>13. alloced' \in Nat /\ overrun' \in BOOLEAN /\ astray' \in BOOLEAN
  <2>1. astray' \in BOOLEAN
    BY <1>1, <1>4 DEF Notice
  <2>2. QED BY <1>1, <1>4, <1>7, <2>1, WrittenFacts
<1>14. ASSUME MemoryOK PROVE MemoryOK'
  <2>1. n < alloced
    BY <1>4
  <2>2. n <= alloced /\ ~(n >= alloced) /\ ~(start + Len(more) >= alloced)
    BY <1>1, <1>5, <1>7, <2>1
  <2>3. \A p \in {start + Len(more), n} : ~(p >= alloced)
    BY <2>2
  <2>4. Len(buf') \in Nat /\ Len(buf') <= n
    BY <1>5, <1>7, <1>8
  <2>5. Len(buf2') \in Nat /\ Len(buf2') + Unit <= alloced
    BY <1>1, <1>4, <1>14 DEF MemoryOK, Fits
  <2>6. size' \in Nat /\ size' <= n
    BY <1>4, <1>7
  <2>7. QED BY <1>4, <1>7, <1>14, <2>2, <2>3, <2>4, <2>5, <2>6, MemoryStays
<1>15. QED BY <1>11, <1>12, <1>13, <1>14 DEF KeyKeeps

\* TAB, with one that does not: it adds more than the slack to the last word.
LEMMA OverrunIsLong ==
  ASSUME LinesOK, TabOverrun
  PROVE  /\ LinesOK' /\ FieldOK' /\ (PythonOK => PythonOK')
         /\ overrun' = TRUE /\ caller' = "overrun" /\ astray' = TRUE /\ alloced' = alloced
         /\ MemoryOK => LongCompletion'
<1>1. PICK more \in Completions : CompletedSize(more) >= alloced
  BY DEF TabOverrun
<1>2. /\ buf' = buf /\ size' = size /\ cursor' = cursor /\ alloced' = alloced
      /\ overrun' = TRUE /\ caller' = "overrun"
      /\ buf2' = buf2 /\ entry' = entry /\ past' = past
      /\ repl' = repl /\ dontDie' = dontDie /\ indent' = indent
  BY DEF TabOverrun, line, browse, python
<1>3. astray' = TRUE
  BY DEF TabOverrun, Notice
<1>4. ASSUME MemoryOK PROVE LongCompletion
  <2>1. /\ size <= Len(buf) /\ LastBlank \in 0..(size - 1)
        /\ LastWord \in Seq(Letter) /\ Len(LastWord) = size - LastBlank
        /\ more \in Seq(Letter) /\ GrowsTo(LastWord, more)
    BY CompletionFacts
  <2>2. CompletedSize(more) = Len(buf) + Len(more) - (size - LastBlank)
    BY Zenon DEF CompletedSize
  <2>3. PICK w \in Words : IsPrefix(LastWord, w) /\ Len(more) <= Len(w) + Len(Trail)
    BY <2>1, Zenon DEF GrowsTo
  <2> HIDE DEF LastWord, LastBlank, CompletedSize
  <2>4. w \in Seq(Letter) /\ Trail \in Seq(Letter) /\ Unit \in Nat
    BY WordFacts
  <2>5. /\ Len(w) \in Nat /\ Len(Trail) \in Nat /\ Len(more) \in Nat
        /\ Len(buf) \in Nat /\ size \in Nat /\ LastBlank \in Nat /\ LastBlank < size
    BY <2>1, <2>4, LinesFacts
  <2>6. size > 0
    BY <2>5
  <2>7. alloced \in Nat /\ Len(buf) + Unit < alloced
    BY <1>4, <2>6 DEF MemoryOK
  <2>8. Len(w) + Len(Trail) > Len(LastWord) + Unit
    BY <1>1, <2>1, <2>2, <2>3, <2>4, <2>5, <2>7
  <2>9. QED BY <2>3, <2>8 DEF LongCompletion
<1>5. MemoryOK => LongCompletion'
  BY <1>2, <1>4 DEF LongCompletion, LastWord, LastBlank
<1>6. LinesOK'
  BY <1>2 DEF LinesOK
<1>7. FieldOK'
  BY <1>3 DEF FieldOK
<1>8. PythonOK => PythonOK'
  BY <1>2 DEF PythonOK
<1>9. QED BY <1>2, <1>3, <1>5, <1>6, <1>7, <1>8

-----------------------------------------------------------------------------
(* Lines.                                                                  *)

\* Front, of any string: an empty one has none.
LEMMA FrontFacts ==
  ASSUME NEW S, NEW s \in Seq(S), s # <<>>
  PROVE  Front(s) \in Seq(S) /\ Len(Front(s)) = Len(s) - 1
BY ShownFacts

\* What ENTER makes of the buffer is one longer than buf_size, or the string.
LEMMA EnteredFacts ==
  ASSUME LinesOK, size <= MaxLen + 1
  PROVE  /\ Entered \in Seq(Letter) /\ Len(Entered) \in Nat /\ Len(Entered) <= MaxLen + 2
         /\ IF size <= Len(buf)
              THEN Entered # <<>> /\ Len(Entered) = size + 1
              ELSE Entered = buf
<1>1. /\ buf \in Seq(Letter) /\ Len(buf) \in Nat /\ Len(buf) <= MaxLen + 2
      /\ size \in Nat /\ Newline \in Letter
  BY LinesFacts, WordFacts
<1>2. CASE size <= Len(buf)
  <2> DEFINE s == SubSeq(buf, 1, size)
  <2>1. size \in Int /\ ~(size < 0)
    BY <1>1
  <2>2. s \in Seq(Letter) /\ Len(s) = size
    BY <1>1, <1>2, <2>1, BeginningFacts
  <2>3. Entered = Append(s, Newline)
    BY <1>2 DEF Entered
  <2> HIDE DEF s
  <2>4. Append(s, Newline) \in Seq(Letter) /\ Len(Append(s, Newline)) = size + 1
    BY <1>1, <2>2, AppendProperties
  <2>5. Append(s, Newline) # <<>>
    <3>1. Len(Append(s, Newline)) >= 1
      BY <1>1, <2>4
    <3>2. QED BY <2>4, <3>1, EmptySeq
  <2>6. QED BY <1>1, <1>2, <2>3, <2>4, <2>5, WordFacts
<1>3. CASE ~(size <= Len(buf))
  BY <1>1, <1>3 DEF Entered
<1>4. QED BY <1>2, <1>3

\* A line that is not blank begins with fewer spaces than it is long.
LEMMA LeadingFacts ==
  ASSUME NEW s \in Seq(Letter)
  PROVE  /\ LeadingSpaces(s) \in 0..Len(s)
         /\ ~Blank(s) => LeadingSpaces(s) < Len(s)
<1> DEFINE T == {n \in 0..Len(s) : \A i \in 1..n : s[i] = Space}
<1>1. Len(s) \in Nat /\ T \in SUBSET (0..Len(s)) /\ 0 \in T
  OBVIOUS
<1>2. Max(T) \in T
  <2> HIDE DEF T
  <2>1. QED BY <1>1, MaxFacts
<1>3. LeadingSpaces(s) = Max(T)
  BY DEF LeadingSpaces
<1>4. /\ LeadingSpaces(s) \in 0..Len(s)
      /\ \A i \in 1..LeadingSpaces(s) : s[i] = Space
  BY <1>2, <1>3
<1>5. ASSUME LeadingSpaces(s) = Len(s) PROVE Blank(s)
  <2>1. \A i \in 1..Len(s) : s[i] = Space
    BY <1>4, <1>5
  <2>2. QED BY <2>1 DEF Blank
<1>6. QED BY <1>1, <1>4, <1>5

\* Neither does a line without the spaces at its end.
LEMMA StrippedFacts ==
  ASSUME NEW s \in Seq(Letter)
  PROVE  Stripped(s) \in Seq(Letter) /\ Len(Stripped(s)) <= Len(s)
<1> DEFINE T == {0} \cup {i \in DOMAIN s : s[i] # Space}
           m == Max(T)
<1>1. Len(s) \in Nat /\ T \in SUBSET (0..Len(s)) /\ T # {}
  OBVIOUS
<1> HIDE DEF T
<1>2. m \in 0..Len(s)
  BY <1>1, MaxFacts
<1> HIDE DEF m
<1>3. m \in Int /\ m <= Len(s) /\ ~(m < 0)
  BY <1>1, <1>2
<1>4. SubSeq(s, 1, m) \in Seq(Letter) /\ Len(SubSeq(s, 1, m)) = m
  BY <1>3, BeginningFacts
<1>5. Stripped(s) = SubSeq(s, 1, m)
  BY DEF Stripped, m, T
<1>6. QED BY <1>3, <1>4, <1>5

\* Whoever gets the line leaves one in the buffer that is no longer.
LEMMA HandedOut ==
  ASSUME LinesOK, PythonOK, OtherOK, NEW s \in Seq(Letter),
         Len(s) <= MaxLen + 2, Reading, HandOut(s)
  PROVE  /\ PythonOK'
         /\ caller' \in Callers
         /\ buf' \in Seq(Letter) /\ Len(buf') \in Nat /\ Len(buf') <= Len(s)
<1>1. Len(s) \in Nat /\ MaxLen \in Nat
  BY WordFacts
<1>2. s # <<>> => Front(s) \in Seq(Letter) /\ Len(Front(s)) = Len(s) - 1
  BY FrontFacts
<1>3. caller = "script" => caller' = "unwanted line" /\ buf' = s /\ UNCHANGED python
  BY DEF HandOut
<1>4. caller = "ask" => /\ caller' \in {"none", "no newline"}
                        /\ buf' = IF s = <<>> THEN s ELSE Front(s)
                        /\ UNCHANGED python
  BY DEF HandOut
<1>5. caller = "none" => caller' = caller /\ StdinPoll(s)
  BY DEF HandOut
<1>6. caller \in {"none", "script", "ask"}
  BY DEF Reading
<1>7. ASSUME ParseInputString(s)
      PROVE  PythonOK' /\ buf' \in Seq(Letter) /\ Len(buf') \in Nat /\ Len(buf') <= Len(s)
  <2> DEFINE empty == s = <<>> \/ Head(s) = Newline
  <2>1. /\ buf' = IF empty THEN s ELSE Stripped(Front(s))
        /\ repl' \in (IF empty THEN {FALSE} ELSE BOOLEAN)
        /\ dontDie' = dontDie /\ indent' = indent
    BY <1>7 DEF ParseInputString
  <2>2. ~empty => s # <<>>
    OBVIOUS
  <2> HIDE DEF empty
  <2>3. PythonOK'
    BY <2>1 DEF PythonOK
  <2>4. ~empty => Stripped(Front(s)) \in Seq(Letter) /\ Len(Stripped(Front(s))) <= Len(s) - 1
    BY <1>2, <2>2, StrippedFacts
  <2>5. buf' \in Seq(Letter) /\ Len(buf') <= Len(s)
    BY <1>1, <2>1, <2>4
  <2>6. Len(buf') \in Nat
    BY <2>5
  <2>7. QED BY <2>3, <2>5, <2>6
<1>8. ASSUME PythonParser(s)
      PROVE  PythonOK' /\ buf' = s
  <2> DEFINE colon == Len(s) > 1 /\ s[Len(s) - 1] = Colon
             count == IF Blank(s) THEN 0 ELSE LeadingSpaces(s) + (IF colon THEN 1 ELSE 0)
             leave == Blank(s) /\ ~dontDie
  <2>1. /\ repl' = ~leave
        /\ indent' = IF leave THEN 0 ELSE count
        /\ dontDie' = IF leave THEN dontDie ELSE count > 0 /\ (colon \/ dontDie)
        /\ buf' = s
    BY <1>8, Zenon DEF PythonParser
  <2>2. count \in 0..(MaxLen + 2)
    <3>1. LeadingSpaces(s) \in 0..Len(s) /\ (~Blank(s) => LeadingSpaces(s) < Len(s))
      BY LeadingFacts
    <3> HIDE DEF colon
    <3>2. QED BY <1>1, <3>1
  <2>3. repl' \in BOOLEAN /\ dontDie' \in BOOLEAN
    <3> HIDE DEF count, colon
    <3>1. dontDie \in BOOLEAN
      BY DEF PythonOK
    <3>2. QED BY <2>1, <3>1
  <2> HIDE DEF count, colon, leave
  <2>4. indent' \in 0..(MaxLen + 2)
    BY <1>1, <2>1, <2>2
  <2>5. QED BY <2>1, <2>3, <2>4 DEF PythonOK
<1>9. UNCHANGED python => PythonOK'
  BY DEF python, PythonOK
<1>10. CASE caller = "script"
  <2>1. caller' = "unwanted line" /\ buf' = s /\ PythonOK'
    BY <1>3, <1>9, <1>10
  <2>2. buf' = s
    BY <2>1
  <2>3. buf' \in Seq(Letter) /\ Len(buf') \in Nat /\ Len(buf') <= Len(s)
    BY <1>1, <2>2
  <2>4. QED BY <2>1, <2>3 DEF Callers
<1>11. CASE caller = "ask"
  <2>1. /\ caller' \in {"none", "no newline"} /\ PythonOK'
        /\ buf' = IF s = <<>> THEN s ELSE Front(s)
    BY <1>4, <1>9, <1>11
  <2>2. buf' \in Seq(Letter) /\ Len(buf') \in Nat /\ Len(buf') <= Len(s)
    <3>1. CASE s = <<>>
      <4>1. buf' = s
        BY <2>1, <3>1
      <4>2. QED BY <1>1, <4>1
    <3>2. CASE s # <<>>
      <4> DEFINE f == Front(s)
      <4>1. f \in Seq(Letter) /\ Len(f) = Len(s) - 1 /\ buf' = f
        BY <1>2, <2>1, <3>2
      <4> HIDE DEF f
      <4>2. Len(f) \in Nat /\ Len(f) <= Len(s)
        BY <1>1, <4>1
      <4>3. QED BY <4>1, <4>2
    <3>3. QED BY <3>1, <3>2
  <2>3. QED BY <2>1, <2>2 DEF Callers
<1>12. CASE caller = "none"
  <2>1. caller' = caller /\ (PythonParser(s) \/ ParseInputString(s))
    BY <1>5, <1>12 DEF StdinPoll
  <2>2. QED BY <1>1, <1>7, <1>8, <1>12, <2>1 DEF Callers
<1>13. QED BY <1>6, <1>10, <1>11, <1>12

\* ENTER.
LEMMA EnterKeeps ==
  ASSUME LinesOK, PythonOK, OtherOK, FieldOK, Enter
  PROVE  /\ KeyKeeps /\ PythonOK'
         /\ caller' \in Callers
<1>1. /\ Len(past) < MaxHistory /\ size <= MaxLen + 1
      /\ size' = 0 /\ cursor' = 0 /\ entry' = 0 /\ buf2' = <<>>
      /\ past' = <<Entered>> \o past
      /\ HandOut(Entered)
      /\ Written({size + 1}, 0)
      /\ astray' = astray
  BY DEF Enter, AddHistory
<1>2. /\ buf \in Seq(Letter) /\ Len(buf) \in Nat
      /\ past \in Seq(Lines) /\ Len(past) \in Nat
      /\ size \in Nat /\ alloced \in Nat /\ overrun \in BOOLEAN /\ astray \in BOOLEAN
  BY LinesFacts DEF OtherOK
<1> DEFINE s == Entered
<1>3. /\ s \in Seq(Letter) /\ Len(s) \in Nat /\ Len(s) <= MaxLen + 2
      /\ IF size <= Len(buf) THEN s # <<>> /\ Len(s) = size + 1 ELSE s = buf
  BY <1>1, EnteredFacts
<1>4. HandOut(s) /\ past' = <<s>> \o past
  BY <1>1
<1> HIDE DEF s
<1>0. /\ PythonOK'
      /\ caller' \in Callers
      /\ buf' \in Seq(Letter) /\ Len(buf') \in Nat /\ Len(buf') <= Len(s)
  <2>1. Reading
    BY DEF Enter
  <2>2. QED BY <1>3, <1>4, <2>1, HandedOut
<1>5. buf' \in Seq(Letter) /\ Len(buf') \in Nat /\ Len(buf') <= Len(s)
  BY <1>0
<1>6. /\ past' \in Seq(Lines) /\ Len(past') = Len(past) + 1
      /\ past'[1] = s
      /\ \A e \in 2..Len(past') : past'[e] = past[e - 1]
  <2> DEFINE V == Lines
             one == <<s>>
  <2>1. one \in Seq(V) /\ Len(one) = 1 /\ one[1] = s
    <3>1. s \in V
      BY <1>3, IsLine
    <3> HIDE DEF V
    <3>2. QED BY <3>1
  <2> HIDE DEF one
  <2>2. past \in Seq(V)
    BY <1>2
  <2> HIDE DEF V
  <2>3. /\ one \o past \in Seq(V) /\ Len(one \o past) = 1 + Len(past)
        /\ \A i \in 1..(1 + Len(past)) : (one \o past)[i] = IF i <= 1 THEN one[i] ELSE past[i - 1]
    <3>1. /\ one \o past \in Seq(V) /\ Len(one \o past) = Len(one) + Len(past)
          /\ \A i \in 1..(Len(one) + Len(past)) :
               (one \o past)[i] = IF i <= Len(one) THEN one[i] ELSE past[i - Len(one)]
      BY <2>1, <2>2, ConcatProperties
    <3>2. QED BY <2>1, <3>1
  <2>4. past' = one \o past
    BY <1>4 DEF one
  <2>5. QED BY <1>2, <2>1, <2>3, <2>4 DEF V
<1>7. LinesOK'
  <2>1. <<>> \in Lines
    <3>1. <<>> \in Seq(Letter) /\ Len(<<>>) = 0
      BY EmptySeq
    <3>2. Len(<<>>) <= MaxLen + 2
      BY <3>1, WordFacts
    <3>3. QED BY <3>1, <3>2, IsLine
  <2>2. buf' \in Lines
    <3>1. Len(buf') <= MaxLen + 2
      BY <1>3, <1>5, WordFacts
    <3>2. QED BY <1>5, <3>1, IsLine
  <2>3. QED BY <1>1, <1>2, <1>6, <2>1, <2>2, WordFacts DEF LinesOK
<1>8. FieldOK'
  <2>1. ASSUME ~astray, NEW e \in 1..Len(past') PROVE past'[e] # <<>>
    <3>1. size <= Len(buf) /\ \A d \in 1..Len(past) : past[d] # <<>>
      BY <2>1 DEF FieldOK
    <3>2. CASE e = 1
      BY <1>3, <1>6, <3>1, <3>2
    <3>3. CASE e # 1
      <4>1. e \in 2..Len(past') /\ e - 1 \in 1..Len(past)
        BY <1>2, <1>6, <3>3
      <4>2. QED BY <1>6, <3>1, <4>1
    <3>4. QED BY <3>2, <3>3
  <2>2. 0 <= Len(buf') /\ ~(size' > 0) /\ size' = 0 /\ cursor' = 0
    <3>1. 0 <= Len(buf')
      BY <1>5
    <3>2. QED BY <1>1, <3>1
  <2>3. QED BY <1>1, <2>1, <2>2 DEF FieldOK
<1>9. alloced' \in Nat /\ overrun' \in BOOLEAN /\ astray' \in BOOLEAN
  BY <1>1, <1>2, WrittenFacts
<1>10. ASSUME MemoryOK PROVE MemoryOK'
  <2>0. Unit \in Nat /\ Unit >= 2
    BY WordFacts
  <2>1. /\ size + Unit < alloced /\ Len(buf) + Unit <= alloced /\ overrun = FALSE
        /\ \A e \in 1..Len(past) : Len(past[e]) + Unit <= alloced
    BY <1>10 DEF MemoryOK, Fits
  <2>2. alloced' = alloced /\ overrun' = FALSE
    <3>1. ~(alloced <= 0 + Unit) /\ ~(size + 1 >= alloced)
      BY <1>2, <2>0, <2>1
    <3>2. QED BY <1>1, <2>1, <3>1 DEF Written
  <2>3. Len(s) + Unit <= alloced
    BY <1>2, <1>3, <2>0, <2>1
  <2>4. Len(buf') + Unit <= alloced'
    BY <1>2, <1>3, <1>5, <2>0, <2>2, <2>3
  <2>5. size' + Unit < alloced' /\ Len(buf2') + Unit <= alloced' /\ ~(size' > 0)
    <3>1. 0 + Unit < alloced
      BY <1>2, <2>0, <2>1
    <3>2. size' = 0 /\ Len(buf2') = 0 /\ alloced' = alloced
      BY <1>1, <2>2, EmptySeq
    <3>3. QED BY <1>2, <2>0, <3>1, <3>2
  <2>6. \A e \in 1..Len(past') : Len(past'[e]) + Unit <= alloced'
    <3>1. ASSUME NEW e \in 1..Len(past') PROVE Len(past'[e]) + Unit <= alloced'
      <4>1. CASE e = 1
        BY <1>6, <2>2, <2>3, <4>1
      <4>2. CASE e # 1
        <5>1. e \in 2..Len(past') /\ e - 1 \in 1..Len(past)
          BY <1>2, <1>6, <4>2
        <5>2. QED BY <1>6, <2>1, <2>2, <5>1
      <4>3. QED BY <4>1, <4>2
    <3>2. QED BY <3>1
  <2>7. QED BY <1>2, <2>2, <2>4, <2>5, <2>6 DEF MemoryOK, Fits
<1>11. QED BY <1>0, <1>7, <1>8, <1>9, <1>10 DEF KeyKeeps

-----------------------------------------------------------------------------
(* Every state.                                                            *)

\* The program starts with two empty buffers.
LEMMA InitKeeps ==
  ASSUME Init
  PROVE  IInv /\ MemoryOK
<1>1. /\ buf = <<>> /\ size = 0 /\ cursor = 0
      /\ alloced = 2 * Unit /\ overrun = FALSE
      /\ buf2 = <<>> /\ entry = 0 /\ past = <<>>
      /\ caller = "none"
      /\ repl \in BOOLEAN /\ dontDie = FALSE /\ indent = 0
      /\ astray = FALSE
  BY DEF Init
<1>2. <<>> \in Seq(Letter) /\ Len(<<>>) = 0 /\ <<>> \in Seq(Lines)
  BY EmptySeq
<1>3. LinesOK
  <2>1. Len(<<>>) <= MaxLen + 2
    BY <1>2, WordFacts
  <2>2. <<>> \in Lines
    BY <1>2, <2>1, IsLine
  <2>3. QED BY <1>1, <1>2, <2>2, WordFacts DEF LinesOK
<1>4. PythonOK /\ OtherOK
  <2>1. alloced \in Nat /\ indent \in 0..(MaxLen + 2)
    BY <1>1, WordFacts
  <2>2. QED BY <1>1, <2>1 DEF PythonOK, OtherOK, Callers
<1>5. FieldOK
  BY <1>1, <1>2 DEF FieldOK
<1>6. MemoryOK
  BY <1>1, <1>2, WordFacts DEF MemoryOK, Fits
<1>7. QED BY <1>3, <1>4, <1>5, <1>6 DEF IInv

\* Either the buffers are large enough, or the program has ended in a completion
\* that was not.
Bounded ==
  \/ MemoryOK
  \/ overrun = TRUE /\ caller = "overrun" /\ LongCompletion

\* Every step keeps both.
LEMMA NextKeeps ==
  ASSUME IInv, [Next]_vars
  PROVE  IInv' /\ (MemoryOK => Bounded')
<1>1. LinesOK /\ PythonOK /\ OtherOK /\ FieldOK
  BY DEF IInv
<1>2. ASSUME KeyKeeps, PythonOK',
             caller' \in Callers
      PROVE  IInv' /\ (MemoryOK => Bounded')
  BY <1>2 DEF KeyKeeps, IInv, OtherOK, Bounded
<1>3. ASSUME UNCHANGED <<line, memory, browse, astray>> PROVE KeyKeeps
  <2>1. /\ buf' = buf /\ size' = size /\ cursor' = cursor
        /\ alloced' = alloced /\ overrun' = overrun
        /\ buf2' = buf2 /\ entry' = entry /\ past' = past /\ astray' = astray
    BY <1>3 DEF line, memory, browse
  <2>2. LinesOK'
    BY <1>1, <2>1 DEF LinesOK
  <2>3. FieldOK'
    BY <1>1, <2>1 DEF FieldOK
  <2>4. MemoryOK => MemoryOK'
    BY <2>1 DEF MemoryOK, Fits
  <2>5. alloced' \in Nat /\ overrun' \in BOOLEAN /\ astray' \in BOOLEAN
    BY <1>1, <2>1 DEF OtherOK
  <2>6. QED BY <2>2, <2>3, <2>4, <2>5 DEF KeyKeeps
<1>4. UNCHANGED python => PythonOK'
  BY <1>1 DEF python, PythonOK
<1>5. caller' = caller => caller' \in Callers
  BY <1>1 DEF OtherOK
<1>6. CASE Key
  <2>1. UNCHANGED python /\ caller' = caller
    BY <1>6 DEF Key
  <2>2. KeyKeeps
    <3>1. CASE \E c \in Char : Insert(c)
      BY <1>1, <3>1, InsertKeeps
    <3>2. CASE Backspace
      BY <1>1, <3>2, BackspaceKeeps
    <3>3. CASE Delete
      BY <1>1, <3>3, DeleteKeeps
    <3>4. CASE MoveCursor
      BY <1>1, <3>4, MoveKeeps
    <3>5. entry + 1 \in Int /\ entry - 1 \in Int
      BY <1>1, LinesFacts
    <3>6. CASE Older
      BY <1>1, <3>5, <3>6, ShownKeeps DEF Older
    <3>7. CASE Newer
      BY <1>1, <3>5, <3>7, ShownKeeps DEF Newer
    <3>8. CASE TabComplete
      BY <1>1, <3>8, TabKeeps
    <3>9. QED BY <1>6, <3>1, <3>2, <3>3, <3>4, <3>6, <3>7, <3>8 DEF Key
  <2>3. QED BY <1>2, <1>4, <1>5, <2>1, <2>2
<1>7. CASE Enter
  BY <1>1, <1>2, <1>7, EnterKeeps
<1>8. CASE NoChar
  <2>1. UNCHANGED <<line, memory, browse, astray>> /\ UNCHANGED python /\ caller' = "none"
    BY <1>8 DEF NoChar
  <2>2. QED BY <1>2, <1>3, <1>4, <2>1 DEF Callers
<1>9. CASE Ask
  <2>1. UNCHANGED <<line, memory, browse, astray>> /\ UNCHANGED python /\ caller' = "ask"
    BY <1>9 DEF Ask
  <2>2. QED BY <1>2, <1>3, <1>4, <2>1 DEF Callers
<1>10. CASE SendChar
  <2>1. /\ indent > 0 /\ indent' = indent - 1 /\ repl' = repl /\ dontDie' = dontDie
        /\ caller' = "script" /\ Insert(Space) /\ Space \in Char
    BY <1>10 DEF SendChar, Char
  <2>2. KeyKeeps
    BY <1>1, <2>1, InsertKeeps
  <2>3. PythonOK'
    <3>1. indent \in 0..(MaxLen + 2) /\ repl \in BOOLEAN /\ dontDie \in BOOLEAN
      BY <1>1 DEF PythonOK
    <3>2. indent' \in 0..(MaxLen + 2)
      BY <2>1, <3>1, WordFacts
    <3>3. QED BY <2>1, <3>1, <3>2 DEF PythonOK
  <2>4. QED BY <1>2, <2>1, <2>2, <2>3 DEF Callers
<1>11. CASE UNCHANGED vars
  <2>1. UNCHANGED <<line, memory, browse, astray>> /\ UNCHANGED python /\ caller' = caller
    BY <1>11 DEF vars
  <2>2. QED BY <1>2, <1>3, <1>4, <1>5, <2>1
<1>12. CASE TabOverrun
  <2>1. /\ LinesOK' /\ FieldOK' /\ PythonOK'
        /\ overrun' = TRUE /\ caller' = "overrun" /\ astray' = TRUE /\ alloced' = alloced
        /\ MemoryOK => LongCompletion'
    BY <1>1, <1>12, OverrunIsLong
  <2>2. OtherOK'
    BY <1>1, <2>1 DEF OtherOK, Callers
  <2>3. QED BY <2>1, <2>2 DEF IInv, Bounded
<1>13. QED BY <1>6, <1>7, <1>8, <1>9, <1>10, <1>11, <1>12 DEF Next

\* After such a completion there is no other step.
LEMMA BoundedKeeps ==
  ASSUME IInv, Bounded, [Next]_vars
  PROVE  Bounded'
<1>1. CASE MemoryOK
  BY <1>1, NextKeeps
<1>2. CASE overrun = TRUE /\ caller = "overrun" /\ LongCompletion
  <2>1. ~Next
    BY <1>2 DEF Next, Key, TabOverrun, Enter, NoChar, Ask, SendChar, Reading
  <2>2. UNCHANGED vars
    BY <2>1
  <2>3. buf' = buf /\ size' = size /\ overrun' = overrun /\ caller' = caller
    BY <2>2 DEF vars, line, memory
  <2>4. LongCompletion'
    BY <1>2, <2>3 DEF LongCompletion, LastWord, LastBlank
  <2>5. QED BY <1>2, <2>3, <2>4 DEF Bounded
<1>3. QED BY <1>1, <1>2 DEF Bounded

\* The line, the lines of the history and the interpreter stay in their bounds,
\* and as long as no key went astray buf_size is the length of the string or 0.
THEOREM Inductive == Spec => []IInv
<1>1. Init => IInv
  BY InitKeeps
<1>2. IInv /\ [Next]_vars => IInv'
  BY NextKeeps
<1>3. QED BY <1>1, <1>2, PTL DEF Spec

\* TypeOK: whatever keys are hit, wherever the cursor wraps to, and whoever reads
\* the line, it is at most one character longer than the last that may be typed.
THEOREM TypeCorrect == Spec => []TypeOK
<1>1. IInv => TypeOK
  <2> SUFFICES ASSUME IInv PROVE TypeOK
    OBVIOUS
  <2>1. LinesOK /\ PythonOK /\ OtherOK
    BY DEF IInv
  <2>2. /\ buf \in Seq(Char \cup {Newline}) /\ Len(buf) <= MaxLen + 2
        /\ buf2 \in Seq(Char \cup {Newline}) /\ Len(past) <= MaxHistory
    BY <2>1, LinesFacts DEF Letter
  <2>3. QED BY <2>1, <2>2 DEF TypeOK, LinesOK, PythonOK, OtherOK, Callers
<1>2. QED BY <1>1, Inductive, PTL

\* InBounds: io_get_input, which looks at buf_size once for a key and copies the
\* lines of the history without a look, writes nothing behind the end of a
\* buffer, for any slack of two characters or more and whatever words come and go,
\* until TAB completes a word with more than the slack; that one strcpy is what
\* the code's FIXME fears, and nothing before it has spoiled the memory.
THEOREM NeverOverrun == Spec => []InBounds
<1>1. Init => IInv /\ Bounded
  BY InitKeeps DEF Bounded
<1>2. (IInv /\ Bounded) /\ [Next]_vars => (IInv /\ Bounded)'
  BY NextKeeps, BoundedKeeps
<1>3. IInv /\ Bounded => InBounds
  BY DEF MemoryOK, Bounded, InBounds
<1>4. QED BY <1>1, <1>2, <1>3, PTL DEF Spec

-----------------------------------------------------------------------------
(* The promise of a text field, step by step.                              *)

\* What the state of the editor is to a text field.
Text == SubSeq(buf, 1, size)
Entries == [i \in DOMAIN past |-> Front(past[i])]

\* The text is the whole string, or nothing of it.
LEMMA TextFacts ==
  ASSUME LinesOK, FieldOK, ~astray
  PROVE  /\ Text \in Seq(Letter) /\ Len(Text) = size
         /\ size <= Len(buf) /\ cursor <= size
         /\ size > 0 => size = Len(buf)
         /\ size = Len(buf) => Text = buf
         /\ size = 0 => Text = <<>>
<1>1. /\ buf \in Seq(Letter) /\ Len(buf) \in Nat /\ size \in Nat
      /\ size <= Len(buf) /\ cursor <= size
      /\ size > 0 => size = Len(buf)
  BY LinesFacts DEF FieldOK
<1>2. size \in Int /\ ~(size < 0)
  BY <1>1
<1>3. Text \in Seq(Letter) /\ Len(Text) = size
  BY <1>1, <1>2, BeginningFacts DEF Text
<1>4. size = Len(buf) => Text = buf
  BY <1>1, SubSeqFull DEF Text
<1>5. size = 0 => Text = <<>>
  BY SubSeqEmpty DEF Text
<1>6. QED BY <1>1, <1>3, <1>4, <1>5

\* A character at the end of a string.
LEMMA InsertAtEnd ==
  ASSUME NEW S, NEW s \in Seq(S), NEW c \in S
  PROVE  InsertAt(s, Len(s) + 1, c) = Append(s, c)
<1>1. Len(s) \in Nat
  OBVIOUS
<1>2. SubSeq(s, 1, Len(s) + 1 - 1) = s
  BY <1>1, SubSeqFull
<1>3. SubSeq(s, Len(s) + 1, Len(s)) = <<>>
  BY <1>1, SubSeqEmpty
<1>4. InsertAt(s, Len(s) + 1, c) = (s \o <<c>>) \o <<>>
  <2> DEFINE n == Len(s) + 1
  <2>1. InsertAt(s, n, c) = SubSeq(s, 1, n - 1) \o <<c>> \o SubSeq(s, n, Len(s))
    BY DEF InsertAt
  <2>2. SubSeq(s, 1, n - 1) = s /\ SubSeq(s, n, Len(s)) = <<>>
    BY <1>2, <1>3
  <2> HIDE DEF n
  <2>3. InsertAt(s, n, c) = (s \o <<c>>) \o <<>>
    BY <2>1, <2>2
  <2>4. QED BY <2>3 DEF n
<1>5. Append(s, c) = s \o <<c>> /\ Append(s, c) \in Seq(S)
  BY AppendIsConcat, AppendProperties
<1>6. QED BY <1>4, <1>5, ConcatEmptySeq

\* A character at the cursor of a text: what is left of a longer string does not
\* come back.
LEMMA InsertedText ==
  ASSUME NEW S, NEW s \in Seq(S), NEW c \in S, NEW n \in 0..Len(s), NEW k \in 0..n,
         n > 0 => n = Len(s)
  PROVE  SubSeq(CutAt(With(s, k, c), n + 1), 1, n + 1) = InsertAt(SubSeq(s, 1, n), k + 1, c)
<1> DEFINE w == With(s, k, c)
<1>1. k \in Nat /\ n \in Nat /\ Len(s) \in Nat
  OBVIOUS
<1>2. w \in Seq(S) /\ Len(w) = Len(s) + 1
  BY <1>1, WithFacts
<1>3. CASE n = Len(s)
  <2>1. SubSeq(s, 1, n) = s
    BY <1>3, SubSeqFull
  <2>2. w = InsertAt(s, k + 1, c)
    <3>1. CASE k < Len(s)
      BY <3>1 DEF With
    <3>2. CASE ~(k < Len(s))
      <4>1. k = Len(s)
        BY <1>1, <1>3, <3>2
      <4>2. w = Append(s, c)
        BY <3>2 DEF With
      <4>3. QED BY <4>1, <4>2, InsertAtEnd
    <3>3. QED BY <3>1, <3>2
  <2> HIDE DEF w
  <2>3. CutAt(w, n + 1) = w
    <3>1. ~(n + 1 < Len(w))
      BY <1>1, <1>2, <1>3
    <3>2. QED BY <3>1 DEF CutAt
  <2>4. SubSeq(w, 1, n + 1) = w
    BY <1>2, <1>3, SubSeqFull
  <2>5. QED BY <2>1, <2>2, <2>3, <2>4 DEF w
<1>4. CASE n # Len(s)
  <2>1. n = 0 /\ k = 0 /\ Len(s) >= 1
    BY <1>1, <1>4
  <2>2. 1 \in 1..Len(s) /\ w = InsertAt(s, 1, c)
    BY <1>1, <2>1 DEF With
  <2>3. w[1] = c
    <3>1. InsertAt(s, 1, c)[1] = c
      BY <2>2, InsertAtPlace
    <3>2. QED BY <2>2, <3>1
  <2> HIDE DEF w
  <2> DEFINE one == SubSeq(w, 1, 1)
  <2>4. one \in Seq(S) /\ Len(one) = 1 /\ one[1] = c
    <3>1. 1 \in Int /\ 1 <= Len(w) /\ 1 \in 1..1
      BY <1>1, <1>2
    <3>2. one \in Seq(S) /\ Len(one) = 1 /\ \A i \in 1..1 : one[i] = w[i]
      BY <1>2, <3>1, BeginningFacts
    <3>3. QED BY <2>3, <3>1, <3>2
  <2>5. CutAt(w, n + 1) = one
    <3>1. n + 1 < Len(w) /\ n + 1 = 1
      BY <1>1, <1>2, <2>1
    <3>2. QED BY <3>1 DEF CutAt
  <2> HIDE DEF one
  <2>6. SubSeq(one, 1, n + 1) = one
    <3>1. n + 1 = Len(one)
      BY <2>1, <2>4
    <3>2. QED BY <2>4, <3>1, SubSeqFull
  <2>7. InsertAt(SubSeq(s, 1, n), k + 1, c) = Append(<<>>, c)
    <3>1. SubSeq(s, 1, n) = <<>>
      BY <2>1, SubSeqEmpty
    <3>2. <<>> \in Seq(S) /\ Len(<<>>) = 0
      BY EmptySeq
    <3>3. InsertAt(<<>>, Len(<<>>) + 1, c) = Append(<<>>, c)
      BY <3>2, InsertAtEnd
    <3>4. QED BY <2>1, <3>1, <3>2, <3>3
  <2>8. one = Append(<<>>, c)
    <3> DEFINE a == Append(<<>>, c)
    <3>1. <<>> \in Seq(S) /\ Len(<<>>) = 0
      BY EmptySeq
    <3>2. a \in Seq(S) /\ Len(a) = 1 /\ a[1] = c
      BY <3>1, AppendProperties
    <3> HIDE DEF a
    <3>3. \A i \in 1..Len(one) : one[i] = a[i]
      BY <2>4, <3>2
    <3>4. one = a
      BY <2>4, <3>2, <3>3, SeqEqual
    <3>5. QED BY <3>4 DEF a
  <2>9. QED BY <2>5, <2>6, <2>7, <2>8 DEF w
<1>5. QED BY <1>3, <1>4

\* Typing a character, by the user or for the user.
LEMMA TypeStep ==
  ASSUME LinesOK, FieldOK, ~astray, NEW c \in Char, Insert(c)
  PROVE  Field!Type(c)
<1>1. /\ size' = size + 1
      /\ buf' = CutAt(With(buf, cursor, c), size + 1)
      /\ cursor' = (cursor + 1) % Word
      /\ buf2' = buf2 /\ entry' = entry /\ past' = past
  BY DEF Insert, browse
<1>2. /\ buf \in Seq(Letter) /\ Len(buf) \in Nat /\ size \in Nat /\ size <= MaxLen + 2
      /\ cursor \in Nat /\ c \in Letter
      /\ size <= Len(buf) /\ cursor <= size /\ (size > 0 => size = Len(buf))
  BY LinesFacts, WordFacts, TextFacts
<1>3. cursor' = cursor + 1
  <2> DEFINE x == cursor + 1
  <2>1. x \in 0..(2 * Word - 1) /\ Word \in Nat \ {0} /\ x < Word
    BY <1>2, WordFacts
  <2>2. x % Word = x
    <3> HIDE DEF x
    <3>1. QED BY <2>1, ModFacts
  <2>3. QED BY <1>1, <2>2
<1>4. SubSeq(buf', 1, size') = InsertAt(SubSeq(buf, 1, size), cursor + 1, c)
  <2>1. size \in 0..Len(buf) /\ cursor \in 0..size
    BY <1>2
  <2>2. QED BY <1>1, <1>2, <2>1, InsertedText
<1>5. QED BY <1>1, <1>3, <1>4, Zenon DEF Field!Type, Field!InsertAt, InsertAt

\* BACKSPACE, with a character in front of the cursor.
LEMMA EraseStep ==
  ASSUME LinesOK, OtherOK, FieldOK, Backspace, ~astray'
  PROVE  Field!Erase
<1>1. /\ size > 0 /\ size' = size - 1 /\ cursor' = (cursor + Word - 1) % Word
      /\ buf' = Without(buf, cursor') /\ Notice(cursor = 0)
      /\ buf2' = buf2 /\ entry' = entry /\ past' = past
  BY DEF Backspace, Stray, browse
<1>2. /\ buf \in Seq(Letter) /\ Len(buf) \in Nat
      /\ cursor \in Nat /\ cursor < Word /\ size \in Nat /\ astray \in BOOLEAN
  BY LinesFacts DEF OtherOK
<1>3. ~astray /\ cursor > 0
  <2>1. ~astray /\ ~(cursor = 0)
    BY <1>1, Zenon DEF Notice
  <2>2. QED BY <1>2, <2>1
<1>4. size = Len(buf) /\ Text = buf /\ cursor <= Len(buf)
  BY <1>1, <1>2, <1>3, TextFacts
<1>5. cursor' = cursor - 1
  <2> DEFINE x == cursor + Word - 1
  <2>1. x \in 0..(2 * Word - 1) /\ Word \in Nat \ {0} /\ ~(x < Word) /\ x - Word = cursor - 1
    BY <1>2, <1>3, WordFacts
  <2>2. x % Word = x - Word
    <3> HIDE DEF x
    <3>1. QED BY <2>1, ModFacts
  <2>3. QED BY <1>1, <2>1, <2>2
<1>6. buf' = RemoveAt(buf, cursor)
  <2>1. cursor - 1 < Len(buf) /\ cursor - 1 + 1 = cursor
    BY <1>2, <1>4
  <2>2. buf' = Without(buf, cursor - 1)
    BY <1>1, <1>5
  <2>3. QED BY <2>1, <2>2 DEF Without
<1>7. SubSeq(buf', 1, size') = RemoveAt(SubSeq(buf, 1, size), cursor)
  <2> DEFINE r == RemoveAt(buf, cursor)
  <2>1. cursor \in 1..Len(buf)
    BY <1>2, <1>3, <1>4
  <2>2. r \in Seq(Letter) /\ Len(r) = size'
    BY <1>1, <1>2, <1>4, <2>1, RemoveAtFacts
  <2> HIDE DEF r
  <2>3. SubSeq(r, 1, size') = r
    BY <2>2, SubSeqFull
  <2>4. QED BY <1>4, <1>6, <2>3 DEF r, Text
<1>8. QED BY <1>1, <1>3, <1>5, <1>7, Zenon DEF Field!Erase, Field!RemoveAt, RemoveAt

\* DELETE, with a character under the cursor.
LEMMA EraseUnderStep ==
  ASSUME LinesOK, OtherOK, FieldOK, Delete, ~astray'
  PROVE  Field!EraseUnder
<1>1. /\ size > 0 /\ size' = size - 1 /\ cursor' = (cursor + Word - 1) % Word
      /\ buf' = Without(buf, cursor) /\ Notice(cursor = 0 \/ cursor >= Len(buf))
      /\ buf2' = buf2 /\ entry' = entry /\ past' = past
  BY DEF Delete, Stray, browse
<1>2. /\ buf \in Seq(Letter) /\ Len(buf) \in Nat
      /\ cursor \in Nat /\ cursor < Word /\ size \in Nat /\ astray \in BOOLEAN
  BY LinesFacts DEF OtherOK
<1>3. ~astray /\ cursor > 0 /\ cursor < Len(buf)
  <2>1. ~astray /\ ~(cursor = 0) /\ ~(cursor >= Len(buf))
    BY <1>1, Zenon DEF Notice
  <2>2. QED BY <1>2, <2>1
<1>4. size = Len(buf) /\ Text = buf
  BY <1>1, <1>2, <1>3, TextFacts
<1>5. cursor' = cursor - 1
  <2> DEFINE x == cursor + Word - 1
  <2>1. x \in 0..(2 * Word - 1) /\ Word \in Nat \ {0} /\ ~(x < Word) /\ x - Word = cursor - 1
    BY <1>2, <1>3, WordFacts
  <2>2. x % Word = x - Word
    <3> HIDE DEF x
    <3>1. QED BY <2>1, ModFacts
  <2>3. QED BY <1>1, <2>1, <2>2
<1>6. buf' = RemoveAt(buf, cursor + 1)
  BY <1>1, <1>3 DEF Without
<1>7. SubSeq(buf', 1, size') = RemoveAt(SubSeq(buf, 1, size), cursor + 1)
  <2> DEFINE r == RemoveAt(buf, cursor + 1)
  <2>1. cursor + 1 \in 1..Len(buf)
    BY <1>2, <1>3
  <2>2. r \in Seq(Letter) /\ Len(r) = size'
    BY <1>1, <1>2, <1>4, <2>1, RemoveAtFacts
  <2> HIDE DEF r
  <2>3. SubSeq(r, 1, size') = r
    BY <2>2, SubSeqFull
  <2>4. QED BY <1>4, <1>6, <2>3 DEF r, Text
<1>8. cursor < Len(SubSeq(buf, 1, size)) /\ cursor' \in {cursor - 1, cursor}
  BY <1>3, <1>4, <1>5 DEF Text
<1>9. QED BY <1>1, <1>3, <1>7, <1>8, Zenon DEF Field!EraseUnder, Field!RemoveAt, RemoveAt

\* HOME, LEFT, RIGHT and END; a line that is asked for, or a space sent for
\* nothing, moves nothing.
LEMMA MoveStep ==
  ASSUME LinesOK, OtherOK, FieldOK, ~astray',
         MoveCursor \/ (cursor' = cursor /\ astray' = astray /\ UNCHANGED <<buf, size, browse>>)
  PROVE  Field!Move
<1>1. /\ buf' = buf /\ size' = size
      /\ buf2' = buf2 /\ entry' = entry /\ past' = past
  BY DEF MoveCursor, browse
<1>2. /\ Len(buf) \in Nat /\ size \in Nat /\ cursor \in Nat /\ astray \in BOOLEAN
  BY LinesFacts DEF OtherOK
<1>3. ~astray
  BY Zenon DEF MoveCursor, Notice
<1>4. cursor <= size /\ size <= Len(buf) /\ Len(Text) = size
  BY <1>3, TextFacts
<1>5. cursor' \in 0..size
  <2>1. CASE cursor' = 0 \/ cursor' = cursor
    BY <1>2, <1>4, <2>1
  <2>2. CASE cursor \in 1..MaxLen /\ cursor' = cursor - 1
    <3>1. cursor >= 1
      BY <2>2, WordFacts
    <3>2. QED BY <1>2, <1>4, <2>2, <3>1
  <2>3. CASE cursor < size /\ cursor' = cursor + 1
    BY <1>2, <2>3
  <2>4. CASE cursor' = Len(buf) /\ Notice(Len(buf) # size)
    <3>1. Len(buf) = size
      BY <2>4, Zenon DEF Notice
    <3>2. QED BY <1>2, <2>4, <3>1
  <2>5. QED BY <2>1, <2>2, <2>3, <2>4, Zenon DEF MoveCursor
<1>6. cursor' \in 0..Len(SubSeq(buf, 1, size))
  BY <1>4, <1>5 DEF Text
<1>7. QED BY <1>1, <1>6, Zenon DEF Field!Move

\* UP and DOWN: the unfinished line comes back as it was.
LEMMA ShowStep ==
  ASSUME LinesOK, OtherOK, FieldOK, ~astray', NEW e \in Int, Shown(e)
  PROVE  Field!Show(e)
<1> DEFINE saved == IF entry = 0 THEN buf ELSE buf2
           found == GetHistory(e) # 0
           text  == IF found THEN past[e] ELSE saved
<1>1. /\ entry' = GetHistory(e)
      /\ buf2' = IF found THEN saved ELSE <<>>
      /\ buf' = IF found THEN Without(text, Len(text) - 1) ELSE text
      /\ size' = Len(buf') /\ cursor' = Len(buf')
      /\ Notice(Len(buf) # size)
      /\ past' = past
  BY Zenon DEF Shown
<1>2. ~astray /\ Len(buf) = size
  BY <1>1, Zenon DEF Notice
<1>3. SubSeq(buf, 1, size) = buf
  BY <1>2, TextFacts DEF Text
<1>4. found <=> e \in DOMAIN past
  BY LinesFacts DEF GetHistory
<1>5. entry' = IF e \in DOMAIN past THEN e ELSE 0
  BY <1>1 DEF GetHistory
<1>6. saved \in Seq(Letter)
  BY LinesFacts
<1>7. CASE found
  <2>1. /\ past[e] \in Seq(Letter) /\ past[e] # <<>>
    BY <1>2, <1>4, <1>7, LinesFacts DEF FieldOK
  <2>2. buf' = Front(past[e])
    <3>1. buf' = Without(past[e], Len(past[e]) - 1)
      BY <1>1, <1>7
    <3>2. QED BY <2>1, <3>1, ShownFacts
  <2>3. Front(past[e]) \in Seq(Letter)
    BY <2>1, FrontFacts
  <2>4. SubSeq(buf', 1, size') = Front(past[e])
    <3> DEFINE f == Front(past[e])
    <3>1. f \in Seq(Letter) /\ buf' = f /\ size' = Len(f)
      BY <1>1, <2>2, <2>3
    <3> HIDE DEF f
    <3>2. QED BY <3>1, SubSeqFull DEF f
  <2>5. cursor' = Len(SubSeq(buf', 1, size'))
    BY <1>1, <2>2, <2>4
  <2>6. buf2' = IF entry = 0 THEN SubSeq(buf, 1, size) ELSE buf2
    BY <1>1, <1>3, <1>7
  <2>7. e \in DOMAIN past /\ e \in DOMAIN [i \in DOMAIN past |-> Front(past[i])]
    BY <1>4, <1>7
  <2>8. [i \in DOMAIN past |-> Front(past[i])][e] = Front(past[e])
    BY <2>7
  <2>9. entry' = e
    BY <1>5, <2>7
  <2>10. QED
    BY <1>1, <2>4, <2>5, <2>6, <2>7, <2>8, <2>9 DEF Field!Show
<1>8. CASE ~found
  <2>1. buf' = saved /\ buf2' = <<>>
    BY <1>1, <1>8
  <2>2. SubSeq(buf', 1, size') = saved
    <3> HIDE DEF saved
    <3>1. size' = Len(saved) /\ buf' = saved
      BY <1>1, <2>1
    <3>2. QED BY <1>6, <3>1, SubSeqFull
  <2>3. saved = IF entry = 0 THEN SubSeq(buf, 1, size) ELSE buf2
    BY <1>3
  <2>4. e \notin DOMAIN past /\ DOMAIN [i \in DOMAIN past |-> Front(past[i])] = DOMAIN past
    BY <1>4, <1>8
  <2>5. entry' = 0
    BY <1>5, <2>4
  <2>6. cursor' = Len(SubSeq(buf', 1, size'))
    BY <1>1, <2>1, <2>2
  <2> HIDE DEF saved
  <2>7. QED
    BY <1>1, <2>1, <2>2, <2>3, <2>4, <2>5, <2>6 DEF Field!Show
<1>9. QED BY <1>7, <1>8

\* TAB.
LEMMA CompleteStep ==
  ASSUME LinesOK, OtherOK, FieldOK, ~astray', TabComplete
  PROVE  Field!Complete
<1>1. /\ buf \in Seq(Letter) /\ Len(buf) \in Nat /\ size \in Nat
  BY LinesFacts
<1>2. PICK start \in 0..(size - 1), more \in Seq(Letter) : Completed(start, more)
  BY TabFacts
<1> DEFINE word == SubSeq(buf, start + 1, size)
           n == Len(buf) + Len(more) - (size - start)
<1>3. /\ GrowsTo(word, more)
      /\ size' = n /\ cursor' = n
      /\ buf' = CutAt(SubSeq(buf, 1, start) \o more, n)
      /\ Notice(Len(buf) # size)
      /\ buf2' = buf2 /\ entry' = entry /\ past' = past
  BY <1>2 DEF Completed, browse
<1>4. ~astray /\ Len(buf) = size
  BY <1>3, Zenon DEF Notice
<1>5. SubSeq(buf, 1, size) = buf
  BY <1>4, TextFacts DEF Text
<1>6. start \in Nat /\ start < size /\ Len(more) \in Nat /\ n = start + Len(more)
  BY <1>1, <1>2, <1>4
<1> DEFINE t == SubSeq(buf, 1, start) \o more
<1>7. t \in Seq(Letter) /\ Len(t) = n
  <2> DEFINE front == SubSeq(buf, 1, start)
  <2>1. start \in Int /\ start <= Len(buf) /\ ~(start < 0)
    BY <1>1, <1>4, <1>6
  <2>2. front \in Seq(Letter) /\ Len(front) = start
    BY <1>1, <2>1, BeginningFacts
  <2> HIDE DEF front
  <2>3. front \o more \in Seq(Letter) /\ Len(front \o more) = start + Len(more)
    BY <1>2, <2>2, ConcatProperties
  <2>4. QED BY <1>6, <2>3 DEF front
<1>8. SubSeq(buf', 1, size') = t /\ cursor' = Len(SubSeq(buf', 1, size'))
  <2> HIDE DEF t, n
  <2>1. n \in Nat
    BY <1>7
  <2>2. CutAt(t, n) = t
    <3>1. ~(n < Len(t))
      BY <1>7, <2>1
    <3>2. QED BY <3>1 DEF CutAt
  <2>3. SubSeq(t, 1, n) = t
    BY <1>7, SubSeqFull
  <2>4. buf' = t
    BY <1>3, <2>2 DEF t
  <2>5. QED BY <1>3, <1>7, <2>3, <2>4
<1>9. PICK w \in Words : more \in Prefixes(w) \cup Prefixes(w \o Trail)
  BY <1>3 DEF GrowsTo
<1>10. PICK v \in Words \cup {u \o Trail : u \in Words} : more \in Prefixes(v)
  BY <1>9
<1>11. IsPrefix(word, more)
  BY <1>3 DEF GrowsTo
<1> DEFINE i == start + 1
<1>12. /\ i \in 1..Len(SubSeq(buf, 1, size))
       /\ SubSeq(SubSeq(buf, 1, size), i, Len(SubSeq(buf, 1, size))) = word
       /\ SubSeq(SubSeq(buf, 1, size), 1, i - 1) = SubSeq(buf, 1, start)
  <2>1. i \in 1..Len(buf) /\ i - 1 = start
    BY <1>1, <1>4, <1>6
  <2>2. QED BY <1>4, <1>5, <2>1
<1> HIDE DEF i, word
<1>13. /\ SubSeq(buf', 1, size') = SubSeq(SubSeq(buf, 1, size), 1, i - 1) \o more
       /\ IsPrefix(SubSeq(SubSeq(buf, 1, size), i, Len(SubSeq(buf, 1, size))), more)
  BY <1>8, <1>11, <1>12
<1>14. /\ Field!IsPrefix(SubSeq(SubSeq(buf, 1, size), i, Len(SubSeq(buf, 1, size))), more)
       /\ more \in Field!Prefixes(v)
  BY <1>10, <1>13 DEF Field!IsPrefix, IsPrefix, Field!Prefixes, Prefixes
<1>15. QED
  BY <1>3, <1>8, <1>10, <1>12, <1>13, <1>14, Zenon DEF Field!Complete

\* ENTER: what is entered is the text that is in the line.
LEMMA EnterStep ==
  ASSUME LinesOK, OtherOK, FieldOK, ~astray', Enter
  PROVE  Field!Enter
<1>1. /\ size <= MaxLen + 1
      /\ size' = 0 /\ cursor' = 0 /\ entry' = 0 /\ buf2' = <<>>
      /\ past' = <<Entered>> \o past
      /\ astray' = astray
  BY DEF Enter, AddHistory
<1>2. /\ Text \in Seq(Letter) /\ Len(Text) = size /\ size <= Len(buf)
      /\ size \in Nat /\ Newline \in Letter
      /\ past \in Seq(Lines) /\ Len(past) \in Nat /\ DOMAIN past = 1..Len(past)
      /\ \A e \in 1..Len(past) : past[e] \in Seq(Letter) /\ past[e] # <<>>
  <2>1. ~astray
    BY <1>1
  <2>2. QED BY <2>1, TextFacts, LinesFacts, WordFacts DEF FieldOK
<1> DEFINE s == Entered
<1>3. s \in Lines /\ Front(s) = Text
  <2>1. s = Append(Text, Newline)
    BY <1>2 DEF Entered, Text
  <2>2. s \in Seq(Letter) /\ Len(s) <= MaxLen + 2
    BY <1>1, EnteredFacts
  <2>3. Front(s) = Text
    <3> DEFINE f == SubSeq(s, 1, size)
    <3>1. Len(s) = size + 1 /\ \A i \in 1..size : s[i] = Text[i]
      BY <1>2, <2>1, AppendProperties
    <3>2. size \in Int /\ size <= Len(s) /\ ~(size < 0)
      BY <1>2, <3>1
    <3>3. f \in Seq(Letter) /\ Len(f) = size /\ \A i \in 1..size : f[i] = s[i]
      BY <2>2, <3>2, BeginningFacts
    <3> HIDE DEF f
    <3>4. \A i \in 1..Len(f) : f[i] = Text[i]
      BY <3>1, <3>3
    <3>5. f = Text
      BY <1>2, <3>3, <3>4, SeqEqual
    <3>6. Front(s) = f
      <4>1. Len(s) - 1 = size
        BY <1>2, <3>1
      <4>2. QED BY <4>1 DEF Front, f
    <3>7. QED BY <3>5, <3>6
  <2> HIDE DEF s
  <2>4. QED BY <2>2, <2>3, IsLine
<1>4. past' = <<s>> \o past
  BY <1>1
<1> HIDE DEF s
<1> DEFINE new == [i \in DOMAIN past' |-> Front(past'[i])]
           old == [i \in DOMAIN past |-> Front(past[i])]
<1>5. /\ past' \in Seq(Lines) /\ Len(past') = 1 + Len(past)
      /\ past'[1] = s
      /\ \A i \in 1..Len(past) : past'[i + 1] = past[i]
  <2> DEFINE V == Lines
             one == <<s>>
  <2>1. one \in Seq(V) /\ Len(one) = 1 /\ one[1] = s
    <3>1. s \in V
      BY <1>3
    <3> HIDE DEF V
    <3>2. QED BY <3>1
  <2> HIDE DEF one
  <2>2. past \in Seq(V)
    BY <1>2
  <2> HIDE DEF V
  <2>3. /\ one \o past \in Seq(V) /\ Len(one \o past) = 1 + Len(past)
        /\ \A i \in 1..(1 + Len(past)) : (one \o past)[i] = IF i <= 1 THEN one[i] ELSE past[i - 1]
    <3>1. /\ one \o past \in Seq(V) /\ Len(one \o past) = Len(one) + Len(past)
          /\ \A i \in 1..(Len(one) + Len(past)) :
               (one \o past)[i] = IF i <= Len(one) THEN one[i] ELSE past[i - Len(one)]
      BY <2>1, <2>2, ConcatProperties
    <3>2. QED BY <2>1, <3>1
  <2>4. past' = one \o past
    BY <1>4 DEF one
  <2>5. 1 \in 1..(1 + Len(past)) /\ \A i \in 1..Len(past) : i + 1 \in 1..(1 + Len(past)) /\ ~(i + 1 <= 1) /\ i + 1 - 1 = i
    BY <1>2
  <2>6. QED BY <2>1, <2>3, <2>4, <2>5 DEF V
<1>6. DOMAIN past' = 1..(1 + Len(past))
  <2> DEFINE V == Lines
  <2>1. past' \in Seq(V) /\ Len(past') = 1 + Len(past)
    BY <1>5
  <2> HIDE DEF V
  <2>2. QED BY <2>1
<1>7. new = <<Text>> \o old
  <2> DEFINE V == Seq(Letter)
             one == <<Text>>
  <2>1. one \in Seq(V) /\ Len(one) = 1 /\ one[1] = Text
    <3>1. Text \in V
      BY <1>2
    <3> HIDE DEF V
    <3>2. QED BY <3>1
  <2>2. old \in Seq(V) /\ Len(old) = Len(past) /\ \A i \in 1..Len(past) : old[i] = Front(past[i])
    <3>1. \A i \in 1..Len(past) : Front(past[i]) \in V
      BY <1>2, FrontFacts
    <3>2. old = [i \in 1..Len(past) |-> Front(past[i])]
      BY <1>2
    <3> HIDE DEF V, old
    <3>3. old \in [1..Len(past) -> V]
      BY <3>1, <3>2
    <3>4. old \in Seq(V)
      BY <1>2, <3>3, SeqDef
    <3>5. QED BY <1>2, <3>2, <3>3, <3>4, LenProperties
  <2>3. /\ new \in Seq(V) /\ Len(new) = 1 + Len(past)
        /\ \A i \in 1..(1 + Len(past)) : new[i] = Front(past'[i])
    <3>1. \A i \in 1..(1 + Len(past)) : Front(past'[i]) \in V
      <4>1. ASSUME NEW i \in 1..(1 + Len(past)) PROVE Front(past'[i]) \in V
        <5>1. CASE i = 1
          BY <1>2, <1>3, <1>5, <5>1
        <5>2. CASE i # 1
          <6>1. i - 1 \in 1..Len(past) /\ i - 1 + 1 = i
            BY <1>2, <5>2
          <6>2. past'[i] = past[i - 1]
            BY <1>5, <6>1
          <6>3. QED BY <1>2, <6>1, <6>2, FrontFacts
        <5>3. QED BY <5>1, <5>2
      <4>2. QED BY <4>1
    <3>2. new = [i \in 1..(1 + Len(past)) |-> Front(past'[i])]
      BY <1>6
    <3>3. 1 + Len(past) \in Nat
      BY <1>2
    <3> HIDE DEF V, new
    <3>4. new \in [1..(1 + Len(past)) -> V]
      BY <3>1, <3>2
    <3>5. new \in Seq(V)
      BY <3>3, <3>4, SeqDef
    <3>6. QED BY <3>2, <3>3, <3>4, <3>5, LenProperties
  <2> HIDE DEF V, new, old, one
  <2>4. /\ one \o old \in Seq(V) /\ Len(one \o old) = 1 + Len(past)
        /\ \A i \in 1..(1 + Len(past)) : (one \o old)[i] = IF i <= 1 THEN one[i] ELSE old[i - 1]
    <3>1. /\ one \o old \in Seq(V) /\ Len(one \o old) = Len(one) + Len(old)
          /\ \A i \in 1..(Len(one) + Len(old)) :
               (one \o old)[i] = IF i <= Len(one) THEN one[i] ELSE old[i - Len(one)]
      BY <2>1, <2>2, ConcatProperties
    <3>2. QED BY <2>1, <2>2, <3>1
  <2>5. \A i \in 1..Len(new) : new[i] = (one \o old)[i]
    <3>1. ASSUME NEW i \in 1..(1 + Len(past)) PROVE new[i] = (one \o old)[i]
      <4>1. CASE i = 1
        <5>1. new[1] = Text
          BY <1>3, <1>5, <2>3, <4>1
        <5>2. QED BY <2>1, <2>4, <4>1, <5>1
      <4>2. CASE i # 1
        <5>1. i - 1 \in 1..Len(past) /\ i - 1 + 1 = i /\ ~(i <= 1)
          BY <1>2, <4>2
        <5>2. past'[i] = past[i - 1]
          BY <1>5, <5>1
        <5>3. old[i - 1] = Front(past[i - 1])
          BY <2>2, <5>1
        <5>4. (one \o old)[i] = old[i - 1]
          BY <2>4, <5>1
        <5>5. QED BY <2>3, <5>2, <5>3, <5>4
      <4>3. QED BY <4>1, <4>2
    <3>2. QED BY <2>3, <3>1
  <2>6. new = one \o old
    BY <2>3, <2>4, <2>5, SeqEqual
  <2>7. QED BY <2>6 DEF one
<1>8. SubSeq(buf', 1, size') = <<>>
  BY <1>1, SubSeqEmpty
<1> HIDE DEF s
<1>9. QED BY <1>1, <1>7, <1>8 DEF Field!Enter, Text

\* Every step is one of the text field's, unless a key goes astray.
LEMMA NextPromises ==
  ASSUME IInv, Next, ~astray'
  PROVE  Field!FieldNext
<1>1. LinesOK /\ OtherOK /\ FieldOK
  BY DEF IInv
<1>2. ASSUME NEW c \in Char, Insert(c) PROVE Field!FieldNext
  <2>1. ~astray
    BY <1>2 DEF Insert
  <2>2. Field!Type(c)
    BY <1>1, <1>2, <2>1, TypeStep
  <2>3. QED BY <1>2, <2>2, Zenon DEF Field!FieldNext
<1>3. Field!Move => Field!FieldNext
  BY Zenon DEF Field!FieldNext
<1>4. CASE Key
  <2>1. CASE \E c \in Char : Insert(c)
    BY <1>2, <2>1
  <2>2. CASE Backspace
    BY <1>1, <2>2, EraseStep, Zenon DEF Field!FieldNext
  <2>3. CASE Delete
    BY <1>1, <2>3, EraseUnderStep, Zenon DEF Field!FieldNext
  <2>4. CASE MoveCursor
    BY <1>1, <1>3, <2>4, MoveStep
  <2>5. entry + 1 \in Int /\ entry - 1 \in Int
    BY <1>1, LinesFacts
  <2>6. CASE Older
    <3>1. Field!Show(entry + 1)
      BY <1>1, <2>5, <2>6, ShowStep DEF Older
    <3>2. QED BY <3>1, Zenon DEF Field!FieldNext
  <2>7. CASE Newer
    <3>1. Field!Show(entry - 1)
      BY <1>1, <2>5, <2>7, ShowStep DEF Newer
    <3>2. QED BY <3>1, Zenon DEF Field!FieldNext
  <2>8. CASE TabComplete
    BY <1>1, <2>8, CompleteStep, Zenon DEF Field!FieldNext
  <2>9. QED BY <1>4, <2>1, <2>2, <2>3, <2>4, <2>6, <2>7, <2>8 DEF Key
<1>5. CASE Enter
  BY <1>1, <1>5, EnterStep, Zenon DEF Field!FieldNext
<1>6. CASE NoChar \/ Ask
  <2>1. cursor' = cursor /\ astray' = astray /\ UNCHANGED <<buf, size, browse>>
    BY <1>6 DEF NoChar, Ask, line
  <2>2. QED BY <1>1, <1>3, <2>1, MoveStep
<1>7. CASE SendChar
  <2>1. Insert(Space) /\ Space \in Char
    BY <1>7 DEF SendChar, Char
  <2>2. QED BY <1>2, <2>1
<1>8. CASE TabOverrun
  BY <1>8 DEF TabOverrun, Notice
<1>9. QED BY <1>4, <1>5, <1>6, <1>7, <1>8 DEF Next

\* TextFieldSteps: as long as no key went astray, whatever was typed, erased,
\* completed and browsed, and whoever reads the line, is what a text field with a
\* history would have, for any words, lines and history.
THEOREM KeepsThePromise == Spec => TextFieldSteps
<1>1. IInv /\ [Next]_vars => [~astray' => Field!FieldNext]_vars
  BY NextPromises
<1>2. QED BY <1>1, Inductive, PTL DEF Spec, TextFieldSteps
=============================================================================
