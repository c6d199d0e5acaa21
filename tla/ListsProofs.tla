----------------------------- MODULE ListsProofs -----------------------------
(***************************************************************************)
(* What the operations of Lists do to a sequence without repetitions: its   *)
(* elements, and their order.  What those of Links do to a list that is in  *)
(* order: one whose nodes and sentinel form a ring, in both directions; it  *)
(* is known by the set of its nodes.                                       *)
(***************************************************************************)
EXTENDS Lists, Links, Integers, FiniteSetTheorems, SequenceTheorems,
        WellFoundedInduction, TLAPS

\* The elements of t occur in s in the same order.
InOrderOf(t, s) ==
  \A i, j \in DOMAIN t :
    i < j => \E k, l \in DOMAIN s : k < l /\ t[i] = s[k] /\ t[j] = s[l]

\* Place finds an element of the sequence.
LEMMA PlaceFacts ==
  ASSUME NEW S, NEW s \in Seq(S), NEW a \in Range(s)
  PROVE  Place(s, a) \in 1..Len(s) /\ s[Place(s, a)] = a
  BY DEF Range, Place

\* The nodes of a list.
LEMMA RangeFacts ==
  ASSUME NEW S, NEW s \in Seq(S)
  PROVE  /\ Range(s) \subseteq S
         /\ \A i \in 1..Len(s) : s[i] \in Range(s)
         /\ DOMAIN s = 1..Len(s)
         /\ s # <<>> => Head(s) = s[1] /\ Head(s) \in Range(s) /\ 1 \in 1..Len(s)
<1>1. DOMAIN s = 1..Len(s) /\ \A i \in 1..Len(s) : s[i] \in S
  BY ElementOfSeq
<1>2. s # <<>> => 1 \in 1..Len(s) /\ Head(s) = s[1]
  BY EmptySeq
<1>3. QED BY <1>1, <1>2 DEF Range

\* RemoveAt element by element.
LEMMA RemoveAtFacts ==
  ASSUME NEW S, NEW s \in Seq(S), NEW i \in 1..Len(s)
  PROVE  /\ RemoveAt(s, i) \in Seq(S)
         /\ Len(RemoveAt(s, i)) = Len(s) - 1
         /\ \A j \in 1..(Len(s) - 1) :
              RemoveAt(s, i)[j] = IF j < i THEN s[j] ELSE s[j + 1]
<1> DEFINE front == SubSeq(s, 1, i - 1)
           back  == SubSeq(s, i + 1, Len(s))
<1>1. /\ front \in Seq(S) /\ Len(front) = i - 1
      /\ \A j \in 1..(i - 1) : front[j] = s[j]
  BY SubSeqProperties
<1>2. /\ back \in Seq(S) /\ Len(back) = Len(s) - i
      /\ \A j \in 1..(Len(s) - i) : back[j] = s[i + j]
  BY SubSeqProperties
<1>3. RemoveAt(s, i) = front \o back
  BY DEF RemoveAt
<1> HIDE DEF front, back
<1>4. /\ front \o back \in Seq(S) /\ Len(front \o back) = Len(s) - 1
      /\ \A j \in 1..(Len(s) - 1) :
           (front \o back)[j] = IF j <= i - 1 THEN front[j] ELSE back[j - (i - 1)]
  BY <1>1, <1>2, ConcatProperties
<1>5. ASSUME NEW j \in 1..(Len(s) - 1)
      PROVE  (front \o back)[j] = IF j < i THEN s[j] ELSE s[j + 1]
  BY <1>1, <1>2, <1>4
<1>6. QED BY <1>3, <1>4, <1>5

\* InsertAt element by element.
LEMMA InsertAtFacts ==
  ASSUME NEW S, NEW s \in Seq(S), NEW i \in 1..Len(s), NEW e \in S
  PROVE  /\ InsertAt(s, i, e) \in Seq(S)
         /\ Len(InsertAt(s, i, e)) = Len(s) + 1
         /\ \A j \in 1..(Len(s) + 1) :
              InsertAt(s, i, e)[j] = IF j < i THEN s[j] ELSE
                                     IF j = i THEN e ELSE s[j - 1]
<1> DEFINE front == SubSeq(s, 1, i - 1)
           mid   == <<e>>
           back  == SubSeq(s, i, Len(s))
<1>1. /\ front \in Seq(S) /\ Len(front) = i - 1
      /\ \A j \in 1..(i - 1) : front[j] = s[j]
  BY SubSeqProperties
<1>2. /\ back \in Seq(S) /\ Len(back) = Len(s) - i + 1
      /\ \A j \in 1..(Len(s) - i + 1) : back[j] = s[i + j - 1]
  BY SubSeqProperties
<1>3. mid \in Seq(S) /\ Len(mid) = 1 /\ mid[1] = e
  OBVIOUS
<1>4. InsertAt(s, i, e) = (front \o mid) \o back
  BY DEF InsertAt
<1> HIDE DEF front, mid, back
<1>5. /\ front \o mid \in Seq(S) /\ Len(front \o mid) = i
      /\ \A j \in 1..i :
           (front \o mid)[j] = IF j <= i - 1 THEN front[j] ELSE mid[j - (i - 1)]
  <2>1. /\ front \o mid \in Seq(S) /\ Len(front \o mid) = Len(front) + Len(mid)
        /\ \A j \in 1..(Len(front) + Len(mid)) : (front \o mid)[j] =
             IF j <= Len(front) THEN front[j] ELSE mid[j - Len(front)]
    BY <1>1, <1>3, ConcatProperties
  <2>2. QED BY <2>1, <1>1, <1>3
<1>6. /\ (front \o mid) \o back \in Seq(S)
      /\ Len((front \o mid) \o back) = Len(s) + 1
      /\ \A j \in 1..(Len(s) + 1) :
           ((front \o mid) \o back)[j] =
             IF j <= i THEN (front \o mid)[j] ELSE back[j - i]
  <2> DEFINE start == front \o mid
  <2>1. start \in Seq(S) /\ Len(start) = i
    BY <1>5
  <2> HIDE DEF start
  <2>2. /\ start \o back \in Seq(S) /\ Len(start \o back) = Len(start) + Len(back)
        /\ \A j \in 1..(Len(start) + Len(back)) : (start \o back)[j] =
             IF j <= Len(start) THEN start[j] ELSE back[j - Len(start)]
    BY <1>2, <2>1, ConcatProperties
  <2>3. /\ start \o back \in Seq(S)
        /\ Len(start \o back) = Len(s) + 1
        /\ \A j \in 1..(Len(s) + 1) :
             (start \o back)[j] = IF j <= i THEN start[j] ELSE back[j - i]
    BY <2>1, <2>2, <1>2
  <2>4. QED BY <2>3 DEF start
<1>7. ASSUME NEW j \in 1..(Len(s) + 1)
      PROVE  ((front \o mid) \o back)[j] =
               IF j < i THEN s[j] ELSE IF j = i THEN e ELSE s[j - 1]
  BY <1>1, <1>2, <1>3, <1>5, <1>6
<1>8. QED BY <1>4, <1>6, <1>7

\* list_remove takes one node away and keeps the order of the others.
LEMMA UnlinkFacts ==
  ASSUME NEW S, NEW s \in Seq(S), NEW a, IsInjective(s)
  PROVE  /\ Unlink(s, a) \in Seq(S)
         /\ Range(Unlink(s, a)) = Range(s) \ {a}
         /\ IsInjective(Unlink(s, a))
         /\ InOrderOf(Unlink(s, a), s)
<1>1. CASE a \notin Range(s)
  BY <1>1 DEF Unlink, InOrderOf
<1>2. CASE a \in Range(s)
  <2> DEFINE p == Place(s, a)
             t == RemoveAt(s, p)
  <2>1. p \in 1..Len(s) /\ s[p] = a
    BY <1>2, PlaceFacts
  <2> HIDE DEF p
  <2>2. /\ t \in Seq(S) /\ Len(t) = Len(s) - 1
        /\ \A j \in 1..(Len(s) - 1) : t[j] = IF j < p THEN s[j] ELSE s[j + 1]
    BY <2>1, RemoveAtFacts
  <2>3. Unlink(s, a) = t
    BY <1>2 DEF Unlink, p
  <2> HIDE DEF t
  <2>4. ASSUME NEW x \in Range(t) PROVE x \in Range(s) \ {a}
    <3>1. PICK j \in 1..(Len(s) - 1) : t[j] = x
      BY <2>2 DEF Range
    <3>2. QED BY <3>1, <2>1, <2>2, SMTT(30) DEF Range, IsInjective
  <2>5. ASSUME NEW x \in Range(s) \ {a} PROVE x \in Range(t)
    <3>1. PICK j \in 1..Len(s) : s[j] = x
      BY DEF Range
    <3>2. j # p
      BY <3>1, <2>1
    <3>3. CASE j < p
      BY <3>1, <3>3, <2>1, <2>2 DEF Range
    <3>4. CASE j > p
      <4>1. j - 1 \in 1..(Len(s) - 1) /\ t[j - 1] = s[j]
        BY <3>4, <2>1, <2>2
      <4>2. QED BY <3>1, <4>1, <2>2 DEF Range
    <3>5. QED BY <3>2, <3>3, <3>4, <2>1
  <2> DEFINE from(n) == IF n < p THEN n ELSE n + 1
  <2>6. IsInjective(t)
    <3> SUFFICES ASSUME NEW i \in 1..(Len(s) - 1), NEW j \in 1..(Len(s) - 1), t[i] = t[j]
                 PROVE  i = j
      <4>1. DOMAIN t = 1..(Len(s) - 1)
        BY <2>2
      <4>2. QED BY <4>1 DEF IsInjective
    <3>1. /\ from(i) \in DOMAIN s /\ from(j) \in DOMAIN s
          /\ s[from(i)] = s[from(j)]
      BY <2>1, <2>2
    <3>2. from(i) = from(j)
      BY <3>1 DEF IsInjective
    <3>3. QED BY <3>2, <2>1
  <2>7. InOrderOf(t, s)
    <3> SUFFICES ASSUME NEW i \in 1..(Len(s) - 1), NEW j \in 1..(Len(s) - 1), i < j
                 PROVE  \E k, l \in DOMAIN s : k < l /\ t[i] = s[k] /\ t[j] = s[l]
      <4>1. DOMAIN t = 1..(Len(s) - 1)
        BY <2>2
      <4>2. QED BY <4>1 DEF InOrderOf
    <3>1. /\ from(i) \in DOMAIN s /\ from(j) \in DOMAIN s /\ from(i) < from(j)
          /\ t[i] = s[from(i)] /\ t[j] = s[from(j)]
      BY <2>1, <2>2
    <3>2. QED BY <3>1
  <2>8. QED BY <2>2, <2>3, <2>4, <2>5, <2>6, <2>7
<1>3. QED BY <1>1, <1>2

\* push(a, new) adds the node new in front of a and moves nothing else: a pair
\* in order in the new list is one of the old list, or new with a node that was
\* in front of a, or with a, or with a node behind a.
LEMMA LinkBeforeFacts ==
  ASSUME NEW S, NEW s \in Seq(S), NEW a \in Range(s), NEW new \in S,
         IsInjective(s), new \notin Range(s)
  PROVE  /\ LinkBefore(s, a, new) \in Seq(S)
         /\ Range(LinkBefore(s, a, new)) = Range(s) \cup {new}
         /\ IsInjective(LinkBefore(s, a, new))
         /\ \A i, j \in DOMAIN LinkBefore(s, a, new) : i < j =>
              \/ \E k, l \in DOMAIN s :
                   /\ k < l
                   /\ LinkBefore(s, a, new)[i] = s[k]
                   /\ LinkBefore(s, a, new)[j] = s[l]
              \/ /\ LinkBefore(s, a, new)[j] = new
                 /\ \E k, l \in DOMAIN s :
                      k < l /\ LinkBefore(s, a, new)[i] = s[k] /\ s[l] = a
              \/ /\ LinkBefore(s, a, new)[i] = new
                 /\ \E k, l \in DOMAIN s :
                      k <= l /\ s[k] = a /\ LinkBefore(s, a, new)[j] = s[l]
<1> DEFINE p == Place(s, a)
           t == InsertAt(s, p, new)
<1>1. p \in 1..Len(s) /\ s[p] = a
  BY PlaceFacts
<1> HIDE DEF p
<1>2. /\ t \in Seq(S) /\ Len(t) = Len(s) + 1
      /\ \A j \in 1..(Len(s) + 1) :
           t[j] = IF j < p THEN s[j] ELSE IF j = p THEN new ELSE s[j - 1]
  BY <1>1, InsertAtFacts
<1>DT. DOMAIN t = 1..(Len(s) + 1)
  BY <1>2
<1>3. LinkBefore(s, a, new) = t
  BY DEF LinkBefore, p
<1> HIDE DEF t
<1>4. Range(t) \subseteq Range(s) \cup {new}
  <2> SUFFICES ASSUME NEW j \in 1..(Len(s) + 1) PROVE t[j] \in Range(s) \cup {new}
    BY <1>2 DEF Range
  <2>1. CASE j < p
    BY <2>1, <1>1, <1>2 DEF Range
  <2>2. CASE j = p
    BY <2>2, <1>1, <1>2 DEF Range
  <2>3. CASE j > p
    <3>1. j - 1 \in 1..Len(s) /\ t[j] = s[j - 1]
      BY <2>3, <1>1, <1>2
    <3>2. QED BY <3>1 DEF Range
  <2>4. QED BY <2>1, <2>2, <2>3, <1>1
<1>5. new \in Range(t)
  BY <1>1, <1>2 DEF Range
<1>6. Range(s) \subseteq Range(t)
  <2> SUFFICES ASSUME NEW j \in 1..Len(s) PROVE s[j] \in Range(t)
    BY DEF Range
  <2>1. CASE j < p
    <3>1. j \in 1..(Len(s) + 1) /\ t[j] = s[j]
      BY <2>1, <1>1, <1>2
    <3>2. QED BY <3>1, <1>DT DEF Range
  <2>2. CASE j >= p
    <3>1. j + 1 \in 1..(Len(s) + 1) /\ t[j + 1] = s[j]
      BY <2>2, <1>1, <1>2
    <3>2. QED BY <3>1, <1>DT DEF Range
  <2>3. QED BY <2>1, <2>2, <1>1
<1>7. \A n \in 1..(Len(s) + 1) : n # p => t[n] # new
  <2> SUFFICES ASSUME NEW n \in 1..(Len(s) + 1), n # p PROVE t[n] # new
    OBVIOUS
  <2>1. \A j \in 1..Len(s) : s[j] # new
    BY DEF Range
  <2>2. CASE n < p
    BY <2>1, <2>2, <1>1, <1>2
  <2>3. CASE n > p
    <3>1. n - 1 \in 1..Len(s) /\ t[n] = s[n - 1]
      BY <2>3, <1>1, <1>2
    <3>2. QED BY <3>1, <2>1
  <2>4. QED BY <2>2, <2>3, <1>1
<1> DEFINE from(n) == IF n < p THEN n ELSE n - 1
<1>8. IsInjective(t)
  <2> SUFFICES ASSUME NEW i \in 1..(Len(s) + 1), NEW j \in 1..(Len(s) + 1), t[i] = t[j]
               PROVE  i = j
    <3>1. DOMAIN t = 1..(Len(s) + 1)
      BY <1>2
    <3>2. QED BY <3>1 DEF IsInjective
  <2>1. CASE i = p \/ j = p
    <3>1. t[i] = new /\ t[j] = new
      BY <2>1, <1>1, <1>2
    <3>2. i = p /\ j = p
      BY <3>1, <1>1, <1>2, <1>7
    <3>3. QED BY <3>2
  <2>2. CASE i # p /\ j # p
    <3>1. /\ from(i) \in DOMAIN s /\ from(j) \in DOMAIN s
          /\ s[from(i)] = s[from(j)]
      BY <2>2, <1>1, <1>2
    <3>2. from(i) = from(j)
      BY <3>1 DEF IsInjective
    <3>3. QED BY <3>2, <2>2, <1>1
  <2>3. QED BY <2>1, <2>2
<1>9. ASSUME NEW i \in 1..(Len(s) + 1), NEW j \in 1..(Len(s) + 1), i < j
      PROVE  \/ \E k, l \in DOMAIN s : k < l /\ t[i] = s[k] /\ t[j] = s[l]
             \/ t[j] = new /\ \E k, l \in DOMAIN s : k < l /\ t[i] = s[k] /\ s[l] = a
             \/ t[i] = new /\ \E k, l \in DOMAIN s : k <= l /\ s[k] = a /\ t[j] = s[l]
  <2>1. CASE j = p
    BY <2>1, <1>1, <1>2, <1>9
  <2>2. CASE i = p
    <3>1. from(j) \in DOMAIN s /\ t[j] = s[from(j)] /\ p <= from(j)
      BY <2>2, <1>1, <1>2, <1>9
    <3>2. QED BY <3>1, <2>2, <1>1, <1>2
  <2>3. CASE i # p /\ j # p
    <3>1. /\ from(i) \in DOMAIN s /\ from(j) \in DOMAIN s /\ from(i) < from(j)
          /\ t[i] = s[from(i)] /\ t[j] = s[from(j)]
      BY <2>3, <1>1, <1>2, <1>9
    <3>2. QED BY <3>1
  <2>4. QED BY <2>1, <2>2, <2>3
<1>10. QED BY <1>2, <1>3, <1>4, <1>5, <1>6, <1>8, <1>9

\* The least element of a set of naturals.
LEMMA MinFacts ==
  ASSUME NEW T, T \subseteq Nat, T # {}
  PROVE  Min(T) \in T /\ \A y \in T : Min(T) <= y
<1>1. PICK x \in T : \A y \in T : ~(<<y, x>> \in OpToRel(<, Nat))
  BY NatLessThanWellFounded, WFMin, Zenon
<1>2. ASSUME NEW y \in T PROVE x <= y
  <2>1. y < x => <<y, x>> \in OpToRel(<, Nat)
    <3>1. <<y, x>> \in Nat \X Nat
      OBVIOUS
    <3>2. QED BY <3>1 DEF OpToRel
  <2>2. ~(y < x)
    BY <1>1, <2>1
  <2>3. QED BY <2>2
<1>3. QED BY <1>2, x \in T DEF Min

\* push(head, new): new becomes the last node.
LEMMA AppendFacts ==
  ASSUME NEW S, NEW s \in Seq(S), NEW new \in S
  PROVE  /\ Append(s, new) \in Seq(S)
         /\ Range(Append(s, new)) = Range(s) \cup {new}
         /\ IsInjective(s) /\ new \notin Range(s) => IsInjective(Append(s, new))
<1> DEFINE t == Append(s, new)
<1>1. /\ t \in Seq(S) /\ DOMAIN t = 1..(Len(s) + 1)
      /\ \A i \in 1..Len(s) : t[i] = s[i]
      /\ t[Len(s) + 1] = new
  BY AppendProperties
<1> HIDE DEF t
<1>2. Range(t) = Range(s) \cup {new}
  <2>1. ASSUME NEW i \in 1..(Len(s) + 1) PROVE t[i] \in Range(s) \cup {new}
    BY <1>1 DEF Range
  <2>2. ASSUME NEW i \in 1..Len(s) PROVE s[i] \in Range(t)
    BY <1>1 DEF Range
  <2>3. new \in Range(t)
    BY <1>1 DEF Range
  <2>4. QED BY <1>1, <2>1, <2>2, <2>3 DEF Range
<1>3. IsInjective(s) /\ new \notin Range(s) => IsInjective(t)
  BY <1>1 DEF IsInjective, Range
<1>4. QED BY <1>1, <1>2, <1>3 DEF t

\* A list cut in two after its first n nodes.
LEMMA SplitFacts ==
  ASSUME NEW S, NEW s \in Seq(S), NEW n \in 0..Len(s), IsInjective(s)
  PROVE  LET front == SubSeq(s, 1, n)
             back  == SubSeq(s, n + 1, Len(s))
         IN  /\ front \in Seq(S) /\ back \in Seq(S)
             /\ \A i \in DOMAIN front : i \in 1..n /\ front[i] = s[i]
             /\ IsInjective(front) /\ IsInjective(back)
             /\ Range(front) \cup Range(back) = Range(s)
             /\ Range(front) \cap Range(back) = {}
             /\ InOrderOf(back, s)
<1> DEFINE front == SubSeq(s, 1, n)
           back  == SubSeq(s, n + 1, Len(s))
<1>1. /\ front \in Seq(S) /\ DOMAIN front = 1..n
      /\ \A i \in 1..n : front[i] = s[i]
  BY SubSeqProperties
<1>2. /\ back \in Seq(S) /\ DOMAIN back = 1..(Len(s) - n)
      /\ \A i \in 1..(Len(s) - n) : back[i] = s[n + i]
  BY SubSeqProperties
<1> HIDE DEF front, back
<1>3. IsInjective(front) /\ IsInjective(back)
  <2>1. ASSUME NEW i \in DOMAIN front, NEW j \in DOMAIN front, front[i] = front[j]
        PROVE  i = j
    <3>1. i \in DOMAIN s /\ j \in DOMAIN s /\ s[i] = s[j]
      BY <2>1, <1>1
    <3>2. QED BY <3>1 DEF IsInjective
  <2>2. ASSUME NEW i \in DOMAIN back, NEW j \in DOMAIN back, back[i] = back[j]
        PROVE  i = j
    <3>0. i \in 1..(Len(s) - n) /\ j \in 1..(Len(s) - n)
      BY <1>2
    <3>1. back[i] = s[n + i] /\ back[j] = s[n + j]
      BY <3>0, <1>2
    <3>2. n + i \in DOMAIN s /\ n + j \in DOMAIN s
      BY <3>0
    <3>3. n + i = n + j
      BY <3>1, <3>2, <2>2 DEF IsInjective
    <3>4. QED BY <3>0, <3>3
  <2>3. QED BY <2>1, <2>2 DEF IsInjective
<1>4. Range(front) \cup Range(back) = Range(s)
  <2>1. \A i \in 1..n : front[i] \in Range(s)
    BY <1>1 DEF Range
  <2>2. \A i \in 1..(Len(s) - n) : back[i] \in Range(s)
    BY <1>2 DEF Range
  <2>3. ASSUME NEW i \in 1..Len(s) PROVE s[i] \in Range(front) \cup Range(back)
    <3>1. CASE i <= n
      BY <3>1, <1>1 DEF Range
    <3>2. CASE i > n
      <4>1. i - n \in DOMAIN back /\ back[i - n] = s[i]
        BY <3>2, <1>2
      <4>2. QED BY <4>1 DEF Range
    <3>3. QED BY <3>1, <3>2
  <2>4. Range(front) \subseteq Range(s)
    <3> SUFFICES ASSUME NEW i \in DOMAIN front PROVE front[i] \in Range(s)
      BY DEF Range
    <3> QED BY <1>1, <2>1
  <2>5. Range(back) \subseteq Range(s)
    <3> SUFFICES ASSUME NEW i \in DOMAIN back PROVE back[i] \in Range(s)
      BY DEF Range
    <3> QED BY <1>2, <2>2
  <2>6. Range(s) \subseteq Range(front) \cup Range(back)
    BY <2>3 DEF Range
  <2>7. QED BY <2>4, <2>5, <2>6
<1>5. Range(front) \cap Range(back) = {}
  <2> SUFFICES ASSUME NEW i \in DOMAIN front, NEW j \in DOMAIN back, front[i] = back[j]
               PROVE  FALSE
    BY DEF Range
  <2>1. i \in DOMAIN s /\ n + j \in DOMAIN s /\ s[i] = s[n + j]
    BY <1>1, <1>2
  <2>2. i = n + j
    BY <2>1 DEF IsInjective
  <2>3. QED BY <2>2, <1>1, <1>2
<1>6. InOrderOf(back, s)
  <2> SUFFICES ASSUME NEW i \in DOMAIN back, NEW j \in DOMAIN back, i < j
               PROVE  \E k, l \in DOMAIN s : k < l /\ back[i] = s[k] /\ back[j] = s[l]
    BY DEF InOrderOf
  <2>1. /\ n + i \in DOMAIN s /\ n + j \in DOMAIN s /\ n + i < n + j
        /\ back[i] = s[n + i] /\ back[j] = s[n + j]
    BY <1>2
  <2>2. QED BY <2>1
<1>7. QED BY <1>1, <1>2, <1>3, <1>4, <1>5, <1>6 DEF front, back

\* A list and the nodes that are pushed behind it, one after the other.
LEMMA ConcatFacts ==
  ASSUME NEW S, NEW s \in Seq(S), NEW t \in Seq(S)
  PROVE  /\ s \o t \in Seq(S)
         /\ Range(s \o t) = Range(s) \cup Range(t)
         /\ IsInjective(s) /\ IsInjective(t) /\ Range(s) \cap Range(t) = {}
              => IsInjective(s \o t)
<1> DEFINE u == s \o t
<1>1. /\ u \in Seq(S) /\ DOMAIN u = 1..(Len(s) + Len(t))
      /\ \A i \in 1..(Len(s) + Len(t)) :
           u[i] = IF i <= Len(s) THEN s[i] ELSE t[i - Len(s)]
  BY ConcatProperties
<1> HIDE DEF u
<1>2. ASSUME NEW i \in 1..Len(s) PROVE s[i] \in Range(u)
  <2>1. i \in DOMAIN u /\ u[i] = s[i]
    BY <1>1
  <2>2. QED BY <2>1 DEF Range
<1>3. ASSUME NEW i \in 1..Len(t) PROVE t[i] \in Range(u)
  <2>1. Len(s) + i \in 1..(Len(s) + Len(t)) /\ (Len(s) + i) - Len(s) = i
    OBVIOUS
  <2>2. Len(s) + i \in DOMAIN u /\ u[Len(s) + i] = t[i]
    BY <2>1, <1>1
  <2>3. QED BY <2>2 DEF Range
<1>4. ASSUME NEW i \in DOMAIN u PROVE u[i] \in Range(s) \cup Range(t)
  <2>1. CASE i <= Len(s)
    BY <2>1, <1>1 DEF Range
  <2>2. CASE i > Len(s)
    <3>1. i - Len(s) \in DOMAIN t /\ u[i] = t[i - Len(s)]
      BY <2>2, <1>1
    <3>2. QED BY <3>1 DEF Range
  <2>3. QED BY <2>1, <2>2, <1>1
<1>5. Range(u) = Range(s) \cup Range(t)
  BY <1>2, <1>3, <1>4 DEF Range
<1>6. ASSUME IsInjective(s), IsInjective(t), Range(s) \cap Range(t) = {}
      PROVE  IsInjective(u)
  <2> SUFFICES ASSUME NEW i \in DOMAIN u, NEW j \in DOMAIN u, u[i] = u[j], i < j
               PROVE  FALSE
    BY <1>1 DEF IsInjective
  <2>1. CASE j <= Len(s)
    BY <2>1, <1>1, <1>6 DEF IsInjective
  <2>2. CASE i > Len(s)
    <3>1. /\ i - Len(s) \in DOMAIN t /\ j - Len(s) \in DOMAIN t
          /\ t[i - Len(s)] = t[j - Len(s)]
      BY <2>2, <1>1
    <3>2. QED BY <3>1, <1>6, <1>1 DEF IsInjective
  <2>3. CASE i <= Len(s) /\ j > Len(s)
    <3>1. i \in DOMAIN s /\ u[i] = s[i]
      BY <2>3, <1>1
    <3>2. j - Len(s) \in DOMAIN t /\ u[j] = t[j - Len(s)]
      BY <2>3, <1>1
    <3>3. QED BY <3>1, <3>2, <1>6 DEF Range
  <2>4. QED BY <2>1, <2>2, <2>3, <1>1
<1>7. QED BY <1>1, <1>5, <1>6 DEF u

\* What holds of 0, and of n if it holds of n - 1, holds up to N.
LEMMA Induction ==
  ASSUME NEW N \in Nat, NEW T, 0 \in T, \A n \in 1..N : n - 1 \in T => n \in T
  PROVE  0..N \subseteq T
<1> DEFINE B == {n \in 0..N : n \notin T}
<1> SUFFICES ASSUME B # {} PROVE FALSE
  OBVIOUS
<1> DEFINE m == Min(B)
<1>1. m \in B /\ \A n \in B : m <= n
  <2>1. B \subseteq Nat
    OBVIOUS
  <2> HIDE DEF B
  <2>2. QED BY <2>1, MinFacts
<1> HIDE DEF m
<1>2. m \in 0..N /\ m \notin T /\ m # 0
  BY <1>1
<1>3. m - 1 \in 0..N /\ m - 1 \notin B
  BY <1>1, <1>2
<1>4. QED BY <1>2, <1>3

\* A recursive definition along 0..N: a value for 0, and for each n the one that
\* step[n] makes of the value for n - 1.
Solves(f, N, V, first, step) ==
  /\ f \in [0..N -> V]
  /\ f[0] = first
  /\ \A n \in 1..N : f[n] = step[n][f[n - 1]]

\* It has a solution.
LEMMA Recursion ==
  ASSUME NEW N \in Nat, NEW V, NEW first \in V, NEW step \in [1..N -> [V -> V]]
  PROVE  \E f : Solves(f, N, V, first, step)
<1> DEFINE T == {k \in 0..N : \E f : Solves(f, k, V, first, step)}
<1>1. 0 \in T
  <2>1. Solves([n \in 0..0 |-> first], 0, V, first, step)
    BY DEF Solves
  <2>2. QED BY <2>1
<1>2. ASSUME NEW k \in 1..N, k - 1 \in T PROVE k \in T
  <2>1. PICK g : Solves(g, k - 1, V, first, step)
    BY <1>2
  <2> DEFINE f == [n \in 0..k |-> IF n = k THEN step[k][g[k - 1]] ELSE g[n]]
  <2>2. k - 1 \in 0..(k - 1) /\ g[k - 1] \in V /\ step[k][g[k - 1]] \in V
    BY <2>1 DEF Solves
  <2>3. f \in [0..k -> V] /\ f[0] = first
    BY <2>1, <2>2 DEF Solves
  <2>4. ASSUME NEW n \in 1..k PROVE f[n] = step[n][f[n - 1]]
    BY <2>1, n - 1 \in 0..k DEF Solves
  <2>5. Solves(f, k, V, first, step)
    BY <2>3, <2>4 DEF Solves
  <2> HIDE DEF f
  <2>6. QED BY <2>5
<1>3. 0..N \subseteq T
  <2> HIDE DEF T
  <2>1. QED BY <1>1, <1>2, Induction
<1>4. QED BY <1>3

\* And only one.
LEMMA RecursionUnique ==
  ASSUME NEW N \in Nat, NEW V, NEW first, NEW step, NEW f, NEW g,
         Solves(f, N, V, first, step), Solves(g, N, V, first, step)
  PROVE  \A n \in 0..N : f[n] = g[n]
<1> DEFINE T == {k \in 0..N : f[k] = g[k]}
<1>1. 0 \in T
  BY DEF Solves
<1>2. ASSUME NEW k \in 1..N, k - 1 \in T PROVE k \in T
  BY <1>2 DEF Solves
<1>3. 0..N \subseteq T
  <2> HIDE DEF T
  <2>1. QED BY <1>1, <1>2, Induction
<1>4. QED BY <1>3

\* A recursive definition along all of Nat.
SolvesAll(f, V, first, step) ==
  /\ f \in [Nat -> V]
  /\ f[0] = first
  /\ \A n \in Nat : f[n + 1] = step[n + 1][f[n]]

\* It has a solution: what recursive functions of natural numbers are.
LEMMA RecursionAll ==
  ASSUME NEW V, NEW first \in V, NEW step \in [Nat -> [V -> V]]
  PROVE  \E f : SolvesAll(f, V, first, step)
<1> DEFINE upTo(N) == CHOOSE f : Solves(f, N, V, first, step)
           f == [n \in Nat |-> upTo(n)[n]]
<1>1. ASSUME NEW N \in Nat PROVE Solves(upTo(N), N, V, first, step)
  <2> DEFINE steps == [n \in 1..N |-> step[n]]
  <2>1. steps \in [1..N -> [V -> V]]
    OBVIOUS
  <2> HIDE DEF steps
  <2>2. PICK g : Solves(g, N, V, first, steps)
    BY <2>1, Recursion
  <2>3. Solves(g, N, V, first, step)
    BY <2>2 DEF Solves, steps
  <2>4. QED BY <2>3
<1> HIDE DEF upTo
<1>2. ASSUME NEW n \in Nat PROVE f[n] \in V
  BY <1>1, n \in 0..n DEF Solves
<1>3. f[0] = first
  BY <1>1 DEF Solves
<1>4. ASSUME NEW n \in Nat PROVE f[n + 1] = step[n + 1][f[n]]
  <2> DEFINE g == [k \in 0..n |-> upTo(n + 1)[k]]
  <2>1. Solves(upTo(n + 1), n + 1, V, first, step)
    BY <1>1
  <2>2. Solves(g, n, V, first, step)
    <3>1. g \in [0..n -> V] /\ g[0] = first
      BY <2>1 DEF Solves
    <3>2. ASSUME NEW k \in 1..n PROVE g[k] = step[k][g[k - 1]]
      BY <2>1, k - 1 \in 0..n, k \in 1..(n + 1) DEF Solves
    <3>3. QED BY <3>1, <3>2 DEF Solves
  <2>3. Solves(upTo(n), n, V, first, step)
    BY <1>1
  <2>4. g[n] = upTo(n)[n] /\ g[n] = upTo(n + 1)[n]
    <3>1. n \in 0..n /\ g[n] = upTo(n + 1)[n]
      OBVIOUS
    <3> HIDE DEF g
    <3>2. g[n] = upTo(n)[n]
      BY <2>2, <2>3, <3>1, RecursionUnique
    <3>3. QED BY <3>1, <3>2
  <2>5. upTo(n + 1)[n + 1] = step[n + 1][upTo(n + 1)[n]]
    BY <2>1, n + 1 \in 1..(n + 1) DEF Solves
  <2>6. QED BY <2>4, <2>5
<1>5. SolvesAll(f, V, first, step)
  BY <1>2, <1>3, <1>4 DEF SolvesAll
<1> HIDE DEF f
<1>6. QED BY <1>5

\* What becomes of a value when the elements of a list are applied to it, one
\* after the other: f[i] is what it is after the first i.
Passes(f, s, V, first, effect) ==
  /\ f \in [0..Len(s) -> V]
  /\ f[0] = first
  /\ \A i \in 1..Len(s) : f[i] = effect[s[i]][f[i - 1]]

\* It becomes something.
LEMMA PassExists ==
  ASSUME NEW S, NEW s \in Seq(S), NEW V, NEW first \in V, NEW effect \in [S -> [V -> V]]
  PROVE  \E f : Passes(f, s, V, first, effect)
<1> DEFINE N == Len(s)
           step == [i \in 1..N |-> effect[s[i]]]
<1>1. N \in Nat /\ \A i \in 1..N : s[i] \in S
  OBVIOUS
<1>2. step \in [1..N -> [V -> V]]
  BY <1>1
<1>3. PICK f : Solves(f, N, V, first, step)
  <2> HIDE DEF step, N
  <2>1. QED BY <1>1, <1>2, Recursion
<1>4. Passes(f, s, V, first, effect)
  BY <1>3 DEF Solves, Passes
<1>5. QED BY <1>4

\* The first element of the list is applied before the others.
LEMMA PassTail ==
  ASSUME NEW S, NEW s \in Seq(S), s # <<>>, NEW V, NEW first, NEW effect, NEW f,
         Passes(f, s, V, first, effect)
  PROVE  /\ f[1] = effect[Head(s)][first]
         /\ Passes([i \in 0..(Len(s) - 1) |-> f[i + 1]], Tail(s), V, f[1], effect)
<1> DEFINE N == Len(s)
           g == [i \in 0..(N - 1) |-> f[i + 1]]
           t == Tail(s)
<1>1. /\ N \in Nat /\ N >= 1 /\ Head(s) = s[1]
      /\ t \in Seq(S) /\ Len(t) = N - 1
      /\ \A i \in 1..(N - 1) : t[i] = s[i + 1]
  BY EmptySeq, HeadTailProperties
<1>2. /\ f \in [0..N -> V] /\ f[0] = first
      /\ \A i \in 1..N : f[i] = effect[s[i]][f[i - 1]]
  BY DEF Passes
<1> HIDE DEF t, N
<1>3. f[1] = effect[Head(s)][first]
  BY <1>1, <1>2
<1>4. g \in [0..(N - 1) -> V]
  <2>1. \A i \in 0..(N - 1) : i + 1 \in 0..N
    BY <1>1
  <2>2. QED BY <1>2, <2>1
<1>5. ASSUME NEW i \in 1..(N - 1) PROVE g[i] = effect[t[i]][g[i - 1]]
  <2>1. /\ i \in 0..(N - 1) /\ i - 1 \in 0..(N - 1) /\ i + 1 \in 1..N
        /\ (i - 1) + 1 = i /\ (i + 1) - 1 = i
    BY <1>1
  <2>2. g[i] = f[i + 1] /\ g[i - 1] = f[i]
    BY <2>1
  <2>3. f[i + 1] = effect[s[i + 1]][f[i]]
    BY <1>2, <2>1
  <2>4. QED BY <1>1, <2>2, <2>3
<1>6. g[0] = f[1]
  BY <1>1
<1>7. Passes(g, t, V, f[1], effect)
  <2> HIDE DEF g
  <2>1. QED BY <1>1, <1>4, <1>5, <1>6 DEF Passes
<1>8. QED BY <1>3, <1>7 DEF t, N

\* A new last element is applied after the others.
LEMMA PassAppend ==
  ASSUME NEW S, NEW s \in Seq(S), NEW x \in S, NEW V, NEW first,
         NEW effect \in [S -> [V -> V]], NEW f, Passes(f, s, V, first, effect)
  PROVE  Passes([i \in 0..(Len(s) + 1) |-> IF i <= Len(s) THEN f[i] ELSE effect[x][f[Len(s)]]],
                Append(s, x), V, first, effect)
<1> DEFINE N == Len(s)
           t == Append(s, x)
           g == [i \in 0..(N + 1) |-> IF i <= N THEN f[i] ELSE effect[x][f[N]]]
<1>1. /\ N \in Nat /\ t \in Seq(S) /\ Len(t) = N + 1 /\ t[N + 1] = x
      /\ \A i \in 1..N : t[i] = s[i]
  BY AppendProperties
<1>2. /\ f \in [0..N -> V] /\ f[0] = first
      /\ \A i \in 1..N : f[i] = effect[s[i]][f[i - 1]]
  BY DEF Passes
<1> HIDE DEF t, N
<1>3. effect[x][f[N]] \in V
  BY <1>1, <1>2
<1>4. g \in [0..(N + 1) -> V]
  BY <1>1, <1>2, <1>3
<1>5. \A i \in 0..N : g[i] = f[i]
  BY <1>1
<1>6. g[N + 1] = effect[x][f[N]]
  BY <1>1
<1> HIDE DEF g
<1>7. ASSUME NEW i \in 1..(N + 1) PROVE g[i] = effect[t[i]][g[i - 1]]
  <2>1. CASE i <= N
    <3>1. i \in 1..N /\ i \in 0..N /\ i - 1 \in 0..N
      BY <1>1, <2>1
    <3>2. QED BY <1>1, <1>2, <1>5, <3>1
  <2>2. CASE i = N + 1
    <3>1. i - 1 = N /\ N \in 0..N
      BY <1>1, <2>2
    <3>2. QED BY <1>1, <1>5, <1>6, <2>2, <3>1
  <2>3. QED BY <1>1, <2>1, <2>2
<1>8. g[0] = first
  BY <1>1, <1>2, <1>5
<1>9. Passes(g, t, V, first, effect)
  BY <1>1, <1>4, <1>7, <1>8 DEF Passes
<1>10. QED BY <1>9 DEF g, t, N

-----------------------------------------------------------------------------
(* Lists pointer by pointer (Links).                                       *)

Pointers(N) == [next : [N -> N], prev : [N -> N]]

\* The nodes of s in the order of the ring, with the sentinel h on both ends.
Node(s, h, i) == IF i \in 1..Len(s) THEN s[i] ELSE h

IsRing(l, N, h, s) ==
  /\ l \in Pointers(N) /\ h \in N
  /\ s \in Seq(N \ {h}) /\ IsInjective(s)
  /\ \A i \in 0..Len(s) : /\ l.next[Node(s, h, i)] = Node(s, h, i + 1)
                          /\ l.prev[Node(s, h, i + 1)] = Node(s, h, i)

\* The list of the sentinel h is in order, with the nodes R on it.
Ring(l, N, h, R) == \E s : IsRing(l, N, h, s) /\ Range(s) = R

-----------------------------------------------------------------------------
(* Pointers.                                                               *)

\* The pointers after list_insert.
LEMMA InsertPointers ==
  ASSUME NEW N, NEW l \in Pointers(N), NEW b \in N, NEW x \in N
  PROVE  /\ ListInsert(l, b, x) \in Pointers(N)
         /\ x # b /\ l.next[b] # x =>
              \A n \in N :
                /\ ListInsert(l, b, x).next[n] =
                     IF n = b THEN x ELSE IF n = x THEN l.next[b] ELSE l.next[n]
                /\ ListInsert(l, b, x).prev[n] =
                     IF n = l.next[b] THEN x ELSE IF n = x THEN b ELSE l.prev[n]
<1> DEFINE c  == l.next[b]
           n1 == [l.next EXCEPT ![x] = c]
           p1 == [l.prev EXCEPT ![x] = b]
           a  == [next |-> n1, prev |-> p1]
           p2 == [p1 EXCEPT ![c] = x]
           d  == [next |-> n1, prev |-> p2]
           n3 == [n1 EXCEPT ![p2[x]] = x]
<1>1. /\ l = [next |-> l.next, prev |-> l.prev]
      /\ l.next \in [N -> N] /\ l.prev \in [N -> N]
  BY DEF Pointers
<1>2. [[l EXCEPT !.next[x] = l.next[b]] EXCEPT !.prev[x] = b] = a
  <2>1. [l EXCEPT !.next[x] = l.next[b]] = [next |-> n1, prev |-> l.prev]
    BY <1>1
  <2>2. [[next |-> n1, prev |-> l.prev] EXCEPT !.prev[x] = b] = a
    OBVIOUS
  <2>3. QED BY <2>1, <2>2
<1>3. n1 \in [N -> N] /\ p1 \in [N -> N] /\ c \in N
  BY <1>1
<1>4. n1[x] = c
  BY <1>1
<1>5. [a EXCEPT !.prev[a.next[x]] = x] = d
  BY <1>4
<1>6. p2 \in [N -> N] /\ p2[x] \in N
  BY <1>3
<1>7. [d EXCEPT !.next[d.prev[x]] = x] = [next |-> n3, prev |-> p2]
  OBVIOUS
<1>8. ListInsert(l, b, x) = [next |-> n3, prev |-> p2]
  <2> HIDE DEF c, n1, p1, p2, n3
  <2>1. QED BY <1>2, <1>5, <1>7 DEF ListInsert
<1>9. n3 \in [N -> N]
  BY <1>3, <1>6
<1>10. ListInsert(l, b, x) \in Pointers(N)
  BY <1>6, <1>8, <1>9 DEF Pointers
<1>11. ASSUME x # b, c # x, NEW n \in N
       PROVE  /\ n3[n] = IF n = b THEN x ELSE IF n = x THEN c ELSE l.next[n]
              /\ p2[n] = IF n = c THEN x ELSE IF n = x THEN b ELSE l.prev[n]
  <2>1. p1[x] = b /\ p2[x] = b
    BY <1>1, <1>3, <1>11
  <2>2. p2[n] = IF n = c THEN x ELSE IF n = x THEN b ELSE l.prev[n]
    BY <1>1, <1>3
  <2>3. n3[n] = IF n = b THEN x ELSE IF n = x THEN c ELSE l.next[n]
    BY <1>1, <1>3, <2>1
  <2>4. QED BY <2>2, <2>3
<1>12. ListInsert(l, b, x).next = n3 /\ ListInsert(l, b, x).prev = p2
  BY <1>8
<1> HIDE DEF n3, p2
<1>13. QED BY <1>10, <1>11, <1>12

\* The pointers after list_remove.
LEMMA RemovePointers ==
  ASSUME NEW N, NEW l \in Pointers(N), NEW x \in N
  PROVE  /\ ListRemove(l, x) \in Pointers(N)
         /\ \A n \in N :
              /\ ListRemove(l, x).next[n] = IF n = l.prev[x] THEN l.next[x] ELSE l.next[n]
              /\ ListRemove(l, x).prev[n] = IF n = l.next[x] THEN l.prev[x] ELSE l.prev[n]
<1> DEFINE c  == l.next[x]
           p  == l.prev[x]
           p1 == [l.prev EXCEPT ![c] = p]
           a  == [next |-> l.next, prev |-> p1]
           n1 == [l.next EXCEPT ![p] = c]
<1>1. /\ l = [next |-> l.next, prev |-> l.prev]
      /\ l.next \in [N -> N] /\ l.prev \in [N -> N]
  BY DEF Pointers
<1>2. c \in N /\ p \in N
  BY <1>1
<1>3. [l EXCEPT !.prev[l.next[x]] = l.prev[x]] = a
  BY <1>1
<1>4. p1[x] = p
  BY <1>1, <1>2
<1>5. [a EXCEPT !.next[a.prev[x]] = a.next[x]] = [next |-> n1, prev |-> p1]
  BY <1>4
<1>6. ListRemove(l, x) = [next |-> n1, prev |-> p1]
  <2> HIDE DEF p1, n1
  <2>1. QED BY <1>3, <1>5 DEF ListRemove
<1>7. n1 \in [N -> N] /\ p1 \in [N -> N]
  BY <1>1, <1>2
<1>8. ASSUME NEW n \in N
      PROVE  /\ n1[n] = IF n = p THEN c ELSE l.next[n]
             /\ p1[n] = IF n = c THEN p ELSE l.prev[n]
  BY <1>1, <1>2
<1>9. ListRemove(l, x).next = n1 /\ ListRemove(l, x).prev = p1
  BY <1>6
<1>10. ListRemove(l, x) \in Pointers(N)
  BY <1>6, <1>7 DEF Pointers
<1> HIDE DEF n1, p1
<1>11. QED BY <1>8, <1>9, <1>10

-----------------------------------------------------------------------------
(* Rings.                                                                  *)

\* The places of a ring are different nodes.
LEMMA NodeFacts ==
  ASSUME NEW N, NEW h \in N, NEW s \in Seq(N \ {h}), IsInjective(s)
  PROVE  /\ \A i \in Nat : Node(s, h, i) \in N
         /\ \A i, j \in 0..Len(s) : Node(s, h, i) = Node(s, h, j) => i = j
         /\ \A i \in 1..Len(s) : Node(s, h, i) = s[i] /\ s[i] # h
         /\ Node(s, h, 0) = h /\ Node(s, h, Len(s) + 1) = h
<1>1. DOMAIN s = 1..Len(s) /\ Len(s) \in Nat /\ \A i \in 1..Len(s) : s[i] \in N \ {h}
  BY ElementOfSeq
<1>2. \A i, j \in 1..Len(s) : s[i] = s[j] => i = j
  BY <1>1 DEF IsInjective
<1>3. \A i, j \in 0..Len(s) : Node(s, h, i) = Node(s, h, j) => i = j
  BY <1>1, <1>2 DEF Node
<1>4. QED BY <1>1, <1>3 DEF Node

\* A sentinel alone is a ring.
LEMMA RingInit ==
  ASSUME NEW N, NEW h \in N
  PROVE  Ring(ListInit(N), N, h, {})
<1> DEFINE l == ListInit(N)
<1>1. /\ l \in Pointers(N)
      /\ l.next[h] = h /\ l.prev[h] = h
  BY DEF ListInit, Pointers
<1>2. /\ <<>> \in Seq(N \ {h}) /\ Len(<<>>) = 0 /\ Range(<<>>) = {}
      /\ IsInjective(<<>>)
  BY EmptySeq DEF Range, IsInjective
<1>3. \A i \in 0..0 : Node(<<>>, h, i) = h /\ Node(<<>>, h, i + 1) = h
  BY <1>2 DEF Node
<1> HIDE DEF l
<1>4. IsRing(l, N, h, <<>>)
  BY <1>1, <1>2, <1>3 DEF IsRing
<1>5. QED BY <1>2, <1>4 DEF Ring, l

\* A ring's pointers and its nodes.
LEMMA RingType ==
  ASSUME NEW N, NEW l, NEW h, NEW R, Ring(l, N, h, R)
  PROVE  l \in Pointers(N) /\ h \in N /\ R \subseteq N \ {h}
<1>1. PICK s : IsRing(l, N, h, s) /\ Range(s) = R
  BY DEF Ring
<1>2. s \in Seq(N \ {h})
  BY <1>1 DEF IsRing
<1>3. QED BY <1>1, <1>2, RangeFacts DEF IsRing

\* list_insert behind the sentinel of a node that is not on the list.
LEMMA RingInsert ==
  ASSUME NEW N, NEW l, NEW h, NEW R, Ring(l, N, h, R), NEW x \in N, x # h, x \notin R
  PROVE  Ring(ListInsert(l, h, x), N, h, R \cup {x})
<1>1. PICK s : IsRing(l, N, h, s) /\ Range(s) = R
  BY DEF Ring
<1> DEFINE t == <<x>> \o s
           n == Len(s)
           c == l.next[h]
           m == ListInsert(l, h, x)
           at(i) == Node(s, h, i)
<1>2. /\ l \in Pointers(N) /\ h \in N /\ s \in Seq(N \ {h}) /\ IsInjective(s)
      /\ n \in Nat
      /\ \A i \in 0..n : l.next[at(i)] = at(i + 1) /\ l.prev[at(i + 1)] = at(i)
  BY <1>1 DEF IsRing
<1>3. /\ \A i \in Nat : at(i) \in N
      /\ \A i, j \in 0..n : at(i) = at(j) => i = j
      /\ \A i \in 1..n : at(i) = s[i] /\ s[i] # h
      /\ at(0) = h /\ at(n + 1) = h
  BY <1>2, NodeFacts
<1>4. \A i \in 0..(n + 1) : at(i) # x
  <2>1. \A i \in 1..n : s[i] # x
    BY <1>1, <1>2, RangeFacts
  <2>2. QED BY <1>2, <1>3, <2>1
<1>5. c = at(1) /\ c # x
  BY <1>2, <1>3, <1>4
<1>6. /\ m \in Pointers(N)
      /\ \A k \in N :
           /\ m.next[k] = IF k = h THEN x ELSE IF k = x THEN c ELSE l.next[k]
           /\ m.prev[k] = IF k = c THEN x ELSE IF k = x THEN h ELSE l.prev[k]
  BY <1>2, <1>5, InsertPointers
<1> HIDE DEF m, c
<1>7. /\ t \in Seq(N \ {h}) /\ Len(t) = n + 1 /\ t[1] = x
      /\ \A i \in 1..n : t[i + 1] = s[i]
      /\ Range(t) = R \cup {x}
      /\ IsInjective(t)
  <2>1. <<x>> \in Seq(N \ {h}) /\ Len(<<x>>) = 1 /\ <<x>>[1] = x
    OBVIOUS
  <2>2. Range(<<x>>) = {x} /\ IsInjective(<<x>>)
    BY DEF Range, IsInjective
  <2> DEFINE u == <<x>>
  <2>0. u \in Seq(N \ {h}) /\ Len(u) = 1 /\ u[1] = x /\ Range(u) = {x} /\ IsInjective(u)
    BY <2>1, <2>2
  <2> HIDE DEF u
  <2>3. /\ u \o s \in Seq(N \ {h}) /\ Len(u \o s) = n + 1
        /\ \A i \in 1..(n + 1) : (u \o s)[i] = IF i <= 1 THEN u[i] ELSE s[i - 1]
    <3> DEFINE v == u \o s
               S == N \ {h}
    <3>1. u \in Seq(S) /\ s \in Seq(S)
      BY <1>2, <2>0
    <3> HIDE DEF S
    <3>2. /\ v \in Seq(S) /\ Len(v) = Len(u) + Len(s)
          /\ \A i \in 1..(Len(u) + Len(s)) :
               v[i] = IF i <= Len(u) THEN u[i] ELSE s[i - Len(u)]
      BY <3>1, ConcatProperties
    <3>3. Len(u) = 1 /\ Len(s) = n /\ n \in Nat
      BY <1>2, <2>0
    <3> HIDE DEF v
    <3>4. Len(v) = n + 1 /\ \A i \in 1..(n + 1) : v[i] = IF i <= 1 THEN u[i] ELSE s[i - 1]
      BY <3>2, <3>3
    <3>5. QED BY <3>2, <3>4 DEF S, v
  <2>4. (u \o s)[1] = x /\ \A i \in 1..n : (u \o s)[i + 1] = s[i]
    BY <1>2, <2>0, <2>3
  <2>5. /\ Range(u \o s) = Range(u) \cup Range(s)
        /\ IsInjective(u) /\ IsInjective(s) /\ Range(u) \cap Range(s) = {}
             => IsInjective(u \o s)
    BY <1>2, <2>0, ConcatFacts
  <2>6. Range(u) \cap Range(s) = {}
    BY <1>1, <2>0
  <2>7. QED BY <1>1, <1>2, <2>0, <2>3, <2>4, <2>5, <2>6 DEF u
<1> HIDE DEF t
<1>8. /\ Node(t, h, 0) = h /\ Node(t, h, 1) = x
      /\ \A i \in 2..(n + 2) : Node(t, h, i) = at(i - 1)
  <2>1. \A i \in 2..(n + 1) : i - 1 \in 1..n /\ t[i] = s[i - 1]
    BY <1>2, <1>7
  <2>2. \A i \in 2..(n + 1) : Node(t, h, i) = at(i - 1)
    BY <1>2, <1>3, <1>7, <2>1 DEF Node
  <2>3. Node(t, h, n + 2) = h
    BY <1>2, <1>7 DEF Node
  <2>4. Node(t, h, 0) = h /\ Node(t, h, 1) = x
    BY <1>2, <1>7 DEF Node
  <2>5. QED BY <1>2, <1>3, <2>2, <2>3, <2>4
<1> DEFINE to(i) == Node(t, h, i)
<1>9. ASSUME NEW i \in 0..(n + 1)
      PROVE  m.next[to(i)] = to(i + 1) /\ m.prev[to(i + 1)] = to(i)
  <2>1. CASE i = 0
    BY <1>2, <1>4, <1>5, <1>6, <1>8, <2>1
  <2>2. CASE i = 1
    <3>1. to(1) = x /\ to(2) = c
      BY <1>2, <1>5, <1>8
    <3>2. c \in N
      BY <1>2, <1>3, <1>5
    <3>3. QED BY <1>5, <1>6, <2>2, <3>1, <3>2
  <2>3. CASE i > 1
    <3>1. /\ i - 1 \in 1..n /\ (i - 1) + 1 = i /\ i \in 1..(n + 1) /\ i + 1 \in 2..(n + 2)
          /\ i \in 2..(n + 2) /\ (i + 1) - 1 = i
      BY <1>2, <2>3
    <3>2. to(i) = at(i - 1) /\ to(i + 1) = at(i)
      BY <1>8, <3>1
    <3>3. at(i - 1) # h /\ at(i - 1) # x /\ at(i) # x
      BY <1>3, <1>4, <3>1
    <3>4. at(i) # c
      <4>1. CASE i = n + 1
        BY <1>3, <1>5, <3>1, <4>1
      <4>2. CASE i # n + 1
        BY <1>3, <1>5, <2>3, <3>1, <4>2
      <4>3. QED BY <4>1, <4>2
    <3>5. l.next[at(i - 1)] = at(i) /\ l.prev[at(i)] = at(i - 1)
      BY <1>2, <3>1
    <3>6. at(i - 1) \in N /\ at(i) \in N
      BY <1>3, <3>1
    <3>7. QED BY <1>6, <3>2, <3>3, <3>4, <3>5, <3>6
  <2>4. QED BY <1>2, <2>1, <2>2, <2>3
<1>10. IsRing(m, N, h, t)
  BY <1>2, <1>6, <1>7, <1>9 DEF IsRing
<1>11. QED BY <1>7, <1>10 DEF Ring, m

\* list_remove of a node that is on the list.
LEMMA RingRemove ==
  ASSUME NEW N, NEW l, NEW h, NEW R, Ring(l, N, h, R), NEW x \in R
  PROVE  Ring(ListRemove(l, x), N, h, R \ {x})
<1>1. PICK s : IsRing(l, N, h, s) /\ Range(s) = R
  BY DEF Ring
<1> DEFINE n == Len(s)
           q == Place(s, x)
           t == Unlink(s, x)
           m == ListRemove(l, x)
           at(i) == Node(s, h, i)
           to(i) == Node(t, h, i)
<1>2. /\ l \in Pointers(N) /\ h \in N /\ s \in Seq(N \ {h}) /\ IsInjective(s)
      /\ n \in Nat
      /\ \A i \in 0..n : l.next[at(i)] = at(i + 1) /\ l.prev[at(i + 1)] = at(i)
  BY <1>1 DEF IsRing
<1>3. /\ \A i \in Nat : at(i) \in N
      /\ \A i, j \in 0..n : at(i) = at(j) => i = j
      /\ \A i \in 1..n : at(i) = s[i] /\ s[i] # h
      /\ at(0) = h /\ at(n + 1) = h
  BY <1>2, NodeFacts
<1>4. q \in 1..n /\ s[q] = x /\ at(q) = x /\ x \in N
  <2>1. q \in 1..n /\ s[q] = x
    BY <1>1, <1>2, PlaceFacts
  <2> HIDE DEF q
  <2>2. QED BY <1>2, <1>3, <2>1
<1>5. t \in Seq(N \ {h}) /\ Range(t) = R \ {x} /\ IsInjective(t)
  BY <1>1, <1>2, UnlinkFacts
<1>6. Len(t) = n - 1 /\ \A j \in 1..(n - 1) : t[j] = IF j < q THEN s[j] ELSE s[j + 1]
  <2>1. t = RemoveAt(s, q)
    BY <1>1 DEF Unlink
  <2> HIDE DEF q, t
  <2>2. QED BY <1>2, <1>4, <2>1, RemoveAtFacts
<1> HIDE DEF q, t
<1>7. l.next[x] = at(q + 1) /\ l.prev[x] = at(q - 1)
  <2>1. q - 1 \in 0..n /\ q \in 0..n /\ (q - 1) + 1 = q
    BY <1>2, <1>4
  <2>2. QED BY <1>2, <1>4, <2>1
<1>8. /\ m \in Pointers(N)
      /\ \A k \in N : /\ m.next[k] = IF k = at(q - 1) THEN at(q + 1) ELSE l.next[k]
                      /\ m.prev[k] = IF k = at(q + 1) THEN at(q - 1) ELSE l.prev[k]
  <2>1. /\ m \in Pointers(N)
        /\ \A k \in N : /\ m.next[k] = IF k = l.prev[x] THEN l.next[x] ELSE l.next[k]
                        /\ m.prev[k] = IF k = l.next[x] THEN l.prev[x] ELSE l.prev[k]
    BY <1>2, <1>4, RemovePointers
  <2> HIDE DEF m
  <2>2. QED BY <1>7, <2>1
<1> HIDE DEF m
<1>9. \A i \in 0..n : to(i) = IF i < q THEN at(i) ELSE at(i + 1)
  <2>1. \A i \in 1..(n - 1) : to(i) = IF i < q THEN at(i) ELSE at(i + 1)
    BY <1>2, <1>3, <1>4, <1>6 DEF Node
  <2>2. to(0) = h /\ to(n) = h
    BY <1>2, <1>6 DEF Node
  <2>3. QED BY <1>2, <1>3, <1>4, <2>1, <2>2
<1> HIDE DEF to
<1>10. ASSUME NEW i \in 0..(n - 1)
       PROVE  m.next[to(i)] = to(i + 1) /\ m.prev[to(i + 1)] = to(i)
  <2> DEFINE p == at(q - 1)
             c == at(q + 1)
  <2>1. /\ i \in 0..n /\ i + 1 \in 0..n /\ i + 2 \in 0..(n + 1)
        /\ q - 1 \in 0..n /\ q + 1 \in 2..(n + 1)
    BY <1>2, <1>4
  <2>2. at(i) \in N /\ at(i + 1) \in N /\ at(i + 2) \in N
    BY <1>3, <2>1
  <2>3. CASE i + 1 < q
    <3>1. to(i) = at(i) /\ to(i + 1) = at(i + 1)
      BY <1>9, <2>1, <2>3, <1>4
    <3>2. at(i) # p
      BY <1>3, <2>1, <2>3, <1>4
    <3>3. at(i + 1) # c
      <4>1. CASE q + 1 = n + 1
        BY <1>3, <2>1, <4>1
      <4>2. CASE q + 1 # n + 1
        BY <1>3, <1>4, <2>1, <2>3, <4>2
      <4>3. QED BY <4>1, <4>2
    <3>4. QED BY <1>2, <1>8, <2>1, <2>2, <3>1, <3>2, <3>3
  <2>4. CASE i + 1 = q
    <3>1. to(i) = p /\ to(i + 1) = c
      BY <1>9, <2>1, <2>4, <1>4
    <3>2. p \in N /\ c \in N
      BY <1>3, <2>1
    <3>3. QED BY <1>8, <3>1, <3>2
  <2>5. CASE i + 1 > q
    <3>1. to(i) = at(i + 1) /\ to(i + 1) = at(i + 2)
      <4>1. (i + 1) + 1 = i + 2 /\ ~(i < q) /\ ~(i + 1 < q)
        BY <2>5, <1>4
      <4>2. QED BY <1>9, <2>1, <4>1
    <3>2. at(i + 1) # p
      BY <1>3, <2>1, <2>5, <1>4
    <3>3. at(i + 2) # c
      <4>1. CASE i + 2 = n + 1
        BY <1>2, <1>3, <1>4, <2>1, <2>5, <4>1
      <4>2. CASE i + 2 # n + 1
        <5>1. i + 2 \in 0..n /\ q + 1 \in 0..n /\ i + 2 # q + 1
          <6>1. n \in Nat /\ q \in 1..n
            BY <1>2, <1>4
          <6> HIDE DEF n
          <6>2. QED BY <2>5, <4>2, <6>1
        <5>2. QED BY <1>3, <5>1
      <4>3. QED BY <4>1, <4>2
    <3>4. (i + 1) + 1 = i + 2
      BY <2>1
    <3>5. l.next[at(i + 1)] = at(i + 2) /\ l.prev[at(i + 2)] = at(i + 1)
      BY <1>2, <2>1, <3>4
    <3>6. QED BY <1>8, <2>2, <3>1, <3>2, <3>3, <3>5
  <2>6. QED BY <1>4, <2>1, <2>3, <2>4, <2>5
<1>11. IsRing(m, N, h, t)
  <2>1. \A i \in 0..Len(t) : m.next[Node(t, h, i)] = Node(t, h, i + 1)
                             /\ m.prev[Node(t, h, i + 1)] = Node(t, h, i)
    BY <1>2, <1>6, <1>10 DEF to
  <2>2. QED BY <1>2, <1>5, <1>8, <2>1 DEF IsRing
<1>12. QED BY <1>5, <1>11 DEF Ring, m

-----------------------------------------------------------------------------
(* Walks.                                                                  *)

\* Following next, step by step.
LEMMA WalkFacts ==
  ASSUME NEW N, NEW l \in Pointers(N), NEW start \in N
  PROVE  /\ Walk(l, start)[0] = start
         /\ \A k \in Nat : /\ Walk(l, start)[k] \in N
                           /\ Walk(l, start)[k + 1] = l.next[Walk(l, start)[k]]
<1> DEFINE step == [k \in Nat |-> [v \in N |-> l.next[v]]]
           body(f) == [k \in Nat |-> IF k = 0 THEN start ELSE l.next[f[k - 1]]]
           at == Walk(l, start)
<1>1. l.next \in [N -> N]
  BY DEF Pointers
<1>2. step \in [Nat -> [N -> N]]
  BY <1>1
<1>3. \E f : f = body(f)
  <2>1. PICK f : SolvesAll(f, N, start, step)
    <3> HIDE DEF step
    <3>1. QED BY <1>2, RecursionAll, Zenon
  <2>2. ASSUME NEW k \in Nat PROVE f[k] = IF k = 0 THEN start ELSE l.next[f[k - 1]]
    <3>1. CASE k = 0
      BY <2>1, <3>1 DEF SolvesAll
    <3>2. CASE k # 0
      <4>1. k - 1 \in Nat /\ (k - 1) + 1 = k
        BY <3>2
      <4>2. f[k] = step[k][f[k - 1]] /\ f[k - 1] \in N
        BY <2>1, <4>1 DEF SolvesAll
      <4>3. QED BY <3>2, <4>2
    <3>3. QED BY <3>1, <3>2
  <2>3. f \in [Nat -> N]
    BY <2>1 DEF SolvesAll
  <2>4. f = body(f)
    BY <2>2, <2>3
  <2>5. QED BY <2>4
<1>4. at = CHOOSE f : f = body(f)
  BY DEF Walk
<1>5. at = body(at)
  <2> HIDE DEF body, at
  <2>1. QED BY <1>3, <1>4
<1> HIDE DEF at
<1>6. \A k \in Nat : at[k] = IF k = 0 THEN start ELSE l.next[at[k - 1]]
  BY <1>5
<1>7. at[0] = start /\ \A k \in Nat : at[k + 1] = l.next[at[k]]
  <2>1. \A k \in Nat : k + 1 \in Nat /\ k + 1 # 0 /\ (k + 1) - 1 = k
    OBVIOUS
  <2>2. QED BY <1>6, <2>1
<1>8. ASSUME NEW n \in Nat PROVE at[n] \in N
  <2> DEFINE T == {k \in 0..n : at[k] \in N}
  <2>1. 0 \in T
    BY <1>7
  <2>2. ASSUME NEW k \in 1..n, k - 1 \in T PROVE k \in T
    <3>1. k - 1 \in Nat /\ (k - 1) + 1 = k
      OBVIOUS
    <3>2. at[k] = l.next[at[k - 1]] /\ at[k - 1] \in N
      BY <1>7, <2>2, <3>1
    <3>3. QED BY <1>1, <3>2
  <2>3. 0..n \subseteq T
    <3> HIDE DEF T
    <3>1. QED BY <2>1, <2>2, Induction
  <2>4. QED BY <2>3, n \in 0..n
<1>9. QED BY <1>7, <1>8 DEF at

\* A walk along a ring.
LEMMA RingWalk ==
  ASSUME NEW N, NEW l, NEW h, NEW s, IsRing(l, N, h, s)
  PROVE  \A k \in 0..(Len(s) + 1) : Walk(l, h)[k] = Node(s, h, k)
<1> DEFINE n == Len(s)
           at == Walk(l, h)
           T == {k \in 0..(n + 1) : at[k] = Node(s, h, k)}
<1>1. /\ l \in Pointers(N) /\ h \in N /\ s \in Seq(N \ {h}) /\ n \in Nat
      /\ \A i \in 0..n : l.next[Node(s, h, i)] = Node(s, h, i + 1)
  BY DEF IsRing
<1>2. at[0] = h /\ \A k \in Nat : at[k + 1] = l.next[at[k]]
  <2>1. l \in Pointers(N) /\ h \in N
    BY <1>1
  <2>2. /\ Walk(l, h)[0] = h
        /\ \A k \in Nat : /\ Walk(l, h)[k] \in N
                          /\ Walk(l, h)[k + 1] = l.next[Walk(l, h)[k]]
    BY <2>1, WalkFacts
  <2>3. QED BY <2>2
<1> HIDE DEF at
<1>3. 0 \in T
  BY <1>1, <1>2 DEF Node
<1>4. ASSUME NEW k \in 1..(n + 1), k - 1 \in T PROVE k \in T
  <2>1. k - 1 \in Nat /\ k - 1 \in 0..n /\ (k - 1) + 1 = k
    BY <1>1
  <2>2. at[k] = l.next[at[k - 1]] /\ at[k - 1] = Node(s, h, k - 1)
    BY <1>2, <1>4, <2>1
  <2>3. l.next[Node(s, h, k - 1)] = Node(s, h, k)
    BY <1>1, <2>1
  <2>4. QED BY <2>2, <2>3
<1>5. 0..(n + 1) \subseteq T
  <2>1. n + 1 \in Nat
    BY <1>1
  <2> HIDE DEF T, n
  <2>2. QED BY <1>3, <1>4, <2>1, Induction
<1>6. QED BY <1>5 DEF at

\* A sequence without repetitions has as many elements as places.
LEMMA RangeCardinality ==
  ASSUME NEW S, IsFiniteSet(S), NEW s \in Seq(S), IsInjective(s)
  PROVE  /\ Cardinality(Range(s)) = Len(s)
         /\ Cardinality(Range(s)) <= Cardinality(S)
         /\ Cardinality(S) \in Nat
<1>1. Range(s) \subseteq S /\ DOMAIN s = 1..Len(s) /\ Len(s) \in Nat
  BY RangeFacts
<1>2. /\ IsFiniteSet(Range(s)) /\ Cardinality(Range(s)) <= Cardinality(S)
  BY <1>1, FS_Subset
<1>3. IsFiniteSet(1..Len(s)) /\ Cardinality(1..Len(s)) = Len(s)
  BY <1>1, FS_Interval
<1>4. s \in [1..Len(s) -> Range(s)]
  <2>1. \A i \in 1..Len(s) : s[i] \in Range(s)
    BY RangeFacts
  <2>2. s = [i \in 1..Len(s) |-> s[i]]
    BY <1>1
  <2>3. QED BY <2>1, <2>2
<1>5. s \in Injection(1..Len(s), Range(s))
  BY <1>1, <1>4 DEF Injection, IsInjective
<1>6. s \in Surjection(1..Len(s), Range(s))
  BY <1>1, <1>4 DEF Surjection, Range
<1>7. Cardinality(1..Len(s)) = Cardinality(Range(s))
  BY <1>2, <1>5, <1>6, FS_Injection
<1>8. QED BY <1>2, <1>3, <1>7, FS_CardinalityType

\* A walk along a list that is in order comes by its nodes.
LEMMA RingAhead ==
  ASSUME NEW N, IsFiniteSet(N), NEW l, NEW h, NEW R, Ring(l, N, h, R)
  PROVE  Ahead(l, h, h) = R
<1>1. PICK s : IsRing(l, N, h, s) /\ Range(s) = R
  BY DEF Ring
<1> DEFINE n == Len(s)
           at == Walk(l, h)
           steps == 1..Cardinality(N)
<1>2. /\ l \in Pointers(N) /\ h \in N /\ s \in Seq(N \ {h}) /\ IsInjective(s) /\ n \in Nat
  BY <1>1 DEF IsRing
<1>3. DOMAIN l.next = N
  BY <1>2 DEF Pointers
<1>4. \A k \in 1..n : at[k] = s[k] /\ s[k] # h
  <2>1. \A k \in 1..n : at[k] = Node(s, h, k)
    BY <1>1, <1>2, RingWalk
  <2>2. \A k \in 1..n : Node(s, h, k) = s[k] /\ s[k] # h
    BY <1>2, NodeFacts
  <2>3. QED BY <2>1, <2>2
<1>5. at[n + 1] = h
  <2>1. at[n + 1] = Node(s, h, n + 1)
    BY <1>1, <1>2, RingWalk
  <2>2. Node(s, h, n + 1) = h
    BY <1>2, NodeFacts
  <2>3. QED BY <2>1, <2>2
<1>6. 1..n \subseteq steps
  <2>1. s \in Seq(N)
    BY <1>2, SeqMonotonic
  <2>2. Cardinality(Range(s)) = n /\ Cardinality(Range(s)) <= Cardinality(N)
        /\ Cardinality(N) \in Nat
    BY <1>2, <2>1, RangeCardinality
  <2>3. QED BY <1>2, <2>2
<1>7. Ahead(l, h, h) = {at[k] : k \in {m \in steps : \A j \in 1..m : at[j] # h}}
  BY <1>3 DEF Ahead
<1>8. {m \in steps : \A j \in 1..m : at[j] # h} = 1..n
  <2> HIDE DEF at
  <2>1. ASSUME NEW m \in steps, \A j \in 1..m : at[j] # h PROVE m \in 1..n
    <3>1. n + 1 \notin 1..m
      BY <1>5, <2>1
    <3>2. m \in Nat /\ m >= 1
      OBVIOUS
    <3>3. QED BY <1>2, <3>1, <3>2
  <2>2. ASSUME NEW m \in 1..n, NEW j \in 1..m PROVE at[j] # h
    BY <1>2, <1>4
  <2>3. QED BY <1>6, <2>1, <2>2
<1>9. {at[k] : k \in 1..n} = Range(s)
  <2> HIDE DEF at
  <2>1. DOMAIN s = 1..n
    BY <1>2, RangeFacts
  <2>2. QED BY <1>4, <2>1 DEF Range
<1>10. QED BY <1>1, <1>7, <1>8, <1>9

\* A loop that removes some nodes leaves the others on the list, in order.
LEMMA RingWithout ==
  ASSUME NEW N, IsFiniteSet(N), NEW l, NEW h, NEW R, Ring(l, N, h, R), NEW nodes
  PROVE  Ring(ListWithout(l, h, nodes), N, h, R \ nodes)
<1>1. PICK s : IsRing(l, N, h, s) /\ Range(s) = R
  BY DEF Ring
<1> DEFINE n == Len(s)
           node == Walk(l, h)
           P == Pointers(N)
           effect(v, x) == IF x \in nodes THEN ListRemove(v, x) ELSE v
           step == [k \in Nat |-> [v \in P |-> effect(v, node[k])]]
           body(f) == [k \in Nat |-> IF k = 0 THEN l
                                     ELSE IF node[k] \in nodes
                                          THEN ListRemove(f[k - 1], node[k])
                                          ELSE f[k - 1]]
           left == CHOOSE f : f = body(f)
<1>2. /\ l \in P /\ h \in N /\ s \in Seq(N \ {h}) /\ IsInjective(s) /\ n \in Nat
  BY <1>1 DEF IsRing
<1>3. \A k \in Nat : node[k] \in N
  BY <1>2, WalkFacts
<1>4. \A k \in 1..n : node[k] = s[k]
  <2>1. \A k \in 1..n : node[k] = Node(s, h, k)
    BY <1>1, <1>2, RingWalk
  <2>2. \A k \in 1..n : Node(s, h, k) = s[k]
    BY <1>2, NodeFacts
  <2>3. QED BY <2>1, <2>2
<1>5. ListWithout(l, h, nodes) = left[n]
  <2>1. Cardinality(Ahead(l, h, h)) = n
    <3>1. Ahead(l, h, h) = Range(s)
      BY <1>1, RingAhead
    <3>2. s \in Seq(N)
      BY <1>2, SeqMonotonic
    <3>3. QED BY <1>2, <3>1, <3>2, RangeCardinality
  <2>2. ListWithout(l, h, nodes) = left[Cardinality(Ahead(l, h, h))]
    BY DEF ListWithout
  <2>3. QED BY <2>1, <2>2
<1> HIDE DEF node
<1>6. \E f : f = body(f)
  <2>1. step \in [Nat -> [P -> P]]
    <3> SUFFICES ASSUME NEW k \in Nat, NEW v \in P PROVE effect(v, node[k]) \in P
      OBVIOUS
    <3>1. QED BY <1>3, RemovePointers
  <2>2. PICK f : SolvesAll(f, P, l, step)
    <3> HIDE DEF step, P
    <3>1. QED BY <1>2, <2>1, RecursionAll, Zenon
  <2>3. ASSUME NEW k \in Nat, k # 0
        PROVE  f[k] = IF node[k] \in nodes THEN ListRemove(f[k - 1], node[k]) ELSE f[k - 1]
    <3>1. k - 1 \in Nat /\ (k - 1) + 1 = k
      BY <2>3
    <3>2. f[k] = step[k][f[k - 1]] /\ f[k - 1] \in P
      BY <2>2, <3>1 DEF SolvesAll
    <3>3. step[k][f[k - 1]] = effect(f[k - 1], node[k])
      BY <3>2
    <3>4. QED BY <3>2, <3>3
  <2>4. f \in [Nat -> P] /\ f[0] = l
    BY <2>2 DEF SolvesAll
  <2>5. f = [k \in Nat |-> f[k]]
    BY <2>4
  <2>6. f = body(f)
    BY <2>3, <2>4, <2>5
  <2>7. QED BY <2>6
<1>7. left = body(left)
  <2> HIDE DEF body
  <2>1. QED BY <1>6
<1> HIDE DEF left, P, step
<1>8. /\ left[0] = l
      /\ \A k \in 1..n :
           left[k] = IF node[k] \in nodes THEN ListRemove(left[k - 1], node[k])
                     ELSE left[k - 1]
  BY <1>7
<1> DEFINE gone(k) == {s[j] : j \in 1..k} \cap nodes
           T == {k \in 0..n : Ring(left[k], N, h, R \ gone(k))}
<1>9. 0 \in T
  <2>1. gone(0) = {}
    OBVIOUS
  <2>2. R \ gone(0) = R
    BY <2>1
  <2> HIDE DEF gone
  <2>3. Ring(left[0], N, h, R \ gone(0))
    BY <1>8, <2>2
  <2>4. QED BY <1>2, <2>3
<1>10. ASSUME NEW k \in 1..n, k - 1 \in T PROVE k \in T
  <2>1. Ring(left[k - 1], N, h, R \ gone(k - 1))
    BY <1>10
  <2>2. gone(k) = gone(k - 1) \cup ({s[k]} \cap nodes)
    <3>1. 1..k = (1..(k - 1)) \cup {k}
      BY <1>2
    <3>2. QED BY <3>1
  <2>3. CASE s[k] \in nodes
    <3>1. s[k] \in R \ gone(k - 1)
      <4>1. DOMAIN s = 1..n /\ s[k] \in R
        BY <1>1, <1>2, RangeFacts
      <4>2. \A j \in 1..(k - 1) : s[j] # s[k]
        BY <1>2, <4>1 DEF IsInjective
      <4>3. QED BY <4>1, <4>2
    <3>2. left[k] = ListRemove(left[k - 1], s[k])
      BY <1>4, <1>8, <2>3
    <3>3. (R \ gone(k - 1)) \ {s[k]} = R \ gone(k)
      <4> HIDE DEF gone
      <4>1. QED BY <2>2, <2>3
    <3> HIDE DEF gone
    <3>4. Ring(left[k], N, h, (R \ gone(k - 1)) \ {s[k]})
      BY <2>1, <3>1, <3>2, RingRemove
    <3>5. Ring(left[k], N, h, R \ gone(k))
      BY <3>3, <3>4
    <3>6. QED BY <3>5, <1>2
  <2>4. CASE s[k] \notin nodes
    <3>1. left[k] = left[k - 1]
      BY <1>4, <1>8, <2>4
    <3>2. gone(k) = gone(k - 1)
      <4> HIDE DEF gone
      <4>1. QED BY <2>2, <2>4
    <3> HIDE DEF gone
    <3>3. QED BY <1>2, <2>1, <3>1, <3>2
  <2>5. QED BY <2>3, <2>4
<1>11. n \in T
  <2> HIDE DEF T, n
  <2>1. 0..n \subseteq T
    BY <1>2, <1>9, <1>10, Induction
  <2>2. QED BY <1>2, <2>1
<1>12. gone(n) = R \cap nodes
  <2>1. {s[j] : j \in 1..n} = R
    <3>1. DOMAIN s = 1..n
      BY <1>2, RangeFacts
    <3>2. QED BY <1>1, <3>1 DEF Range
  <2>2. QED BY <2>1
<1>13. R \ gone(n) = R \ nodes
  BY <1>12
<1> HIDE DEF gone
<1>14. QED BY <1>5, <1>11, <1>13

\* Every walk comes by nodes of the list's, and not by the one where it ends.
LEMMA AheadType ==
  ASSUME NEW N, NEW l \in Pointers(N), NEW start \in N, NEW stop
  PROVE  Ahead(l, start, stop) \subseteq N \ {stop}
<1> DEFINE at == Walk(l, start)
           steps == 1..Cardinality(DOMAIN l.next)
<1>1. \A k \in Nat : at[k] \in N
  BY WalkFacts
<1>2. Ahead(l, start, stop) = {at[k] : k \in {m \in steps : \A j \in 1..m : at[j] # stop}}
  BY DEF Ahead
<1> HIDE DEF at
<1>3. ASSUME NEW k \in steps, \A j \in 1..k : at[j] # stop PROVE at[k] \in N \ {stop}
  <2>1. k \in Nat /\ k \in 1..k
    OBVIOUS
  <2>2. QED BY <1>1, <1>3, <2>1
<1>4. QED BY <1>2, <1>3

\* A walk from a node of a ring on comes by nodes of the ring.
LEMMA RingAheadFrom ==
  ASSUME NEW N, NEW l, NEW h, NEW R, Ring(l, N, h, R), NEW start \in R
  PROVE  Ahead(l, start, h) \subseteq R
<1>1. PICK s : IsRing(l, N, h, s) /\ Range(s) = R
  BY DEF Ring
<1> DEFINE n == Len(s)
           C == R \cup {h}
           at == Walk(l, start)
           steps == 1..Cardinality(DOMAIN l.next)
<1>2. /\ l \in Pointers(N) /\ h \in N /\ s \in Seq(N \ {h}) /\ IsInjective(s) /\ n \in Nat
      /\ \A i \in 0..n : l.next[Node(s, h, i)] = Node(s, h, i + 1)
  BY <1>1 DEF IsRing
<1>3. start \in N /\ R \subseteq N
  BY RingType
<1>4. \A i \in Nat : Node(s, h, i) \in C
  BY <1>1, <1>2, RangeFacts DEF Node
<1>5. ASSUME NEW v \in C PROVE l.next[v] \in C
  <2>1. PICK i \in 0..n : v = Node(s, h, i)
    <3>1. CASE v = h
      <4>1. 0 \in 0..n /\ Node(s, h, 0) = h
        BY <1>2 DEF Node
      <4>2. QED BY <3>1, <4>1
    <3>2. CASE v \in Range(s)
      <4>1. PICK i \in 1..n : v = s[i]
        BY <1>2, <3>2, RangeFacts DEF Range
      <4>2. i \in 0..n /\ Node(s, h, i) = v
        BY <1>2, <4>1 DEF Node
      <4>3. QED BY <4>2
    <3>3. QED BY <1>1, <1>5, <3>1, <3>2
  <2>2. l.next[v] = Node(s, h, i + 1) /\ i + 1 \in Nat
    BY <1>2, <2>1
  <2>3. QED BY <1>4, <2>2
<1>6. at[0] = start /\ \A k \in Nat : at[k + 1] = l.next[at[k]]
  <2>1. l \in Pointers(N)
    BY <1>2
  <2>2. QED BY <1>3, <2>1, WalkFacts
<1>7. Ahead(l, start, h) = {at[k] : k \in {m \in steps : \A j \in 1..m : at[j] # h}}
  BY DEF Ahead
<1> HIDE DEF at, C
<1>8. ASSUME NEW m \in Nat PROVE at[m] \in C
  <2> DEFINE T == {k \in 0..m : at[k] \in C}
  <2>1. 0 \in T
    BY <1>6 DEF C
  <2>2. ASSUME NEW k \in 1..m, k - 1 \in T PROVE k \in T
    <3>1. k - 1 \in Nat /\ (k - 1) + 1 = k
      OBVIOUS
    <3>2. at[k] = l.next[at[k - 1]] /\ at[k - 1] \in C
      BY <1>6, <2>2, <3>1
    <3>3. QED BY <1>5, <3>2
  <2>3. 0..m \subseteq T
    <3> HIDE DEF T
    <3>1. QED BY <2>1, <2>2, Induction
  <2>4. QED BY <2>3, m \in 0..m
<1>9. ASSUME NEW k \in steps, \A j \in 1..k : at[j] # h PROVE at[k] \in R
  <2>1. k \in Nat /\ k \in 1..k
    OBVIOUS
  <2>2. at[k] \in C /\ at[k] # h
    BY <1>8, <1>9, <2>1
  <2>3. QED BY <2>2 DEF C
<1>10. QED BY <1>7, <1>9
=============================================================================
