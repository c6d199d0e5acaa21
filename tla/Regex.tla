------------------------------- MODULE Regex -------------------------------
(***************************************************************************)
(* The regular expressions of src/src/regex.c, by which lines are ignored   *)
(* or highlighted: what compile_regex makes of a pattern, and what          *)
(* match_vector says of a text.  A pattern is a sequence of characters; of  *)
(* the escapes, which stand for classes, there is one, Letters.             *)
(***************************************************************************)
EXTENDS Integers, SequencesExt

CONSTANTS Letter,   \* the characters of texts
          Letters,  \* \a
          End       \* the character that ends a string

Operators == {"^", "[", "]", "(", ")", "|", "+", "*", "?", "$"}

-----------------------------------------------------------------------------
(* Compilation.                                                            *)

\* vectors: the alternatives of a group, each a sequence of tokens.
Token(type, class, flags) ==
  [type |-> type, class |-> class, flags |-> flags, vectors |-> <<>>]

\* lex__
Lex(c) ==
  CASE c = Letters       -> Token("class", Letter, {})
    [] c \in Operators   -> Token(c, {}, {})
    [] c = "."           -> Token("class", {"newline"}, {"negate"})
    [] OTHER             -> Token("class", {c}, {})

Bad == <<Token("error", {}, {})>>

Is(toks, n, type) == n >= 1 /\ toks[n].type = type

AddFlag(toks, n, flag) == [toks EXCEPT ![n].flags = @ \cup {flag}]

QuantifierFlag(type) ==
  CASE type = "+" -> "one or more" [] type = "*" -> "zero or more" [] OTHER -> "optional"

\* What a class and the next one in brackets become: string_cat puts a blank in
\* between.
JoinedClass(first, second) == first \cup {"blank"} \cup second

\* reduce: the token on top changes the ones below it, again and again.  What is
\* below the first one is taken for no token of interest.
RECURSIVE Reduce(_)

ReduceQuantifier(toks, i, operands) ==
  IF i < 2 \/ toks[i - 1].type \notin operands THEN Bad
  ELSE Reduce(AddFlag(Front(toks), i - 1, QuantifierFlag(toks[i].type)))

ReduceBracket(toks, i) ==
  IF i <= 2 \/ ~Is(toks, i - 1, "class") \/ ~Is(toks, i - 2, "[") THEN Bad
  ELSE Reduce(Append(SubSeq(toks, 1, i - 3),
                     [toks[i - 1] EXCEPT !.flags = @ \cup toks[i - 2].flags]))

\* Mutant: the tokens of an alternative go to the outermost group.
OpenOutermost(toks) == SelectInSeq(toks, LAMBDA t : t.type = "(")

\* The parenthesis that the top of the stack is in.
Open(toks) == SelectLastInSeq(toks, LAMBDA t : t.type = "(")

ReduceGroup(toks, i) ==
  LET j == Open(toks)
  IN IF j = 0 THEN Bad
     ELSE Reduce(Append(SubSeq(toks, 1, j - 1),
            [toks[j] EXCEPT !.vectors = Append(@, SubSeq(toks, j + 1, i - 1)),
                            !.type = IF toks[i].type = ")" THEN "vector" ELSE @]))

Reduce(toks) ==
  LET i == Len(toks)
      top == toks[i].type
  IN CASE top = "^" ->
            IF Is(toks, i - 1, "[") THEN Reduce(AddFlag(Front(toks), i - 1, "negate"))
            ELSE Bad
       [] top = "]"        -> ReduceBracket(toks, i)
       [] top \in {"+", "*"} -> ReduceQuantifier(toks, i, {"class"})
       [] top = "?"        -> ReduceQuantifier(toks, i, {"class", "vector"})
       [] top = "$"        -> IF i = 1 THEN Bad ELSE Reduce(AddFlag(Front(toks), i - 1, "at end"))
       [] top = "class" /\ Is(toks, i - 1, "class") /\ Is(toks, i - 2, "[") ->
            Reduce([Front(toks) EXCEPT ![i - 1].class = JoinedClass(@, toks[i].class)])
       [] top \in {"|", ")"} -> ReduceGroup(toks, i)
       [] OTHER            -> toks

\* check_regex_valid
RECURSIVE Valid(_)
Valid(toks) ==
  \A n \in DOMAIN toks :
    \/ toks[n].type = "class"
    \/ /\ toks[n].type = "vector"
       /\ \A m \in DOMAIN toks[n].vectors : Valid(toks[n].vectors[m])

\* compile_regex: Bad for NULL, as it is for an empty pattern.
Compile(pattern) ==
  LET push(toks, c) == IF toks = Bad THEN Bad ELSE Reduce(Append(toks, Lex(c)))
      toks == FoldLeft(push, <<>>, pattern)
  IN IF pattern # <<>> /\ Valid(toks) THEN toks ELSE Bad

-----------------------------------------------------------------------------
(* Matching.  What is behind the end of a text is some other data.          *)

Memory(text, behind) == text \o <<End>> \o behind

\* data[n], counted from 1.
At(data, n) == IF n <= Len(data) THEN data[n] ELSE End

\* charclass, and NEGATE: the end of the text is in no class, so that a negated
\* one has it.
InClass(c, tok) == (c \in tok.class) # ("negate" \in tok.flags)

\* match_class: how many of at most max characters from from on.
MatchClass(data, from, tok, max) ==
  LET misses == {n \in 0..(max - 1) : ~InClass(At(data, from + n), tok)}
  IN IF max <= 0 THEN 0 ELSE IF misses = {} THEN max ELSE Min(misses)

Skippable(tok) == tok.flags \cap {"zero or more", "optional"} # {}

\* match_min
RECURSIVE MatchMin(_)
MatchMin(vec) ==
  LET least(tok) ==
        IF Skippable(tok) THEN 0
        ELSE IF tok.type = "class" THEN 1
        ELSE Min({MatchMin(tok.vectors[m]) : m \in DOMAIN tok.vectors})
  IN FoldLeft(LAMBDA sum, tok : sum + least(tok), 0, vec)

\* How many characters the first token is tried with at first.
Limit(tok, max) ==
  IF tok.flags \cap {"zero or more", "one or more"} # {} \/ tok.type = "vector"
  THEN max ELSE 1

RECURSIVE MatchVector(_, _, _, _)

\* The loop: the first token with at most mymax characters, and the others behind
\* it; -1 if none of the attempts down to mymin succeeds.
RECURSIVE Attempts(_, _, _, _, _)
Attempts(data, from, vec, max, mymax) ==
  LET tok == Head(vec)
      me == IF tok.type = "class" THEN MatchClass(data, from, tok, mymax)
            ELSE Max({MatchVector(data, from, tok.vectors[m], mymax) :
                        m \in DOMAIN tok.vectors} \cup {-1})
      rest == IF Len(vec) = 1 THEN 0
              ELSE MatchVector(data, from + me, Tail(vec), max - me)
  IN IF me < MatchMin(<<tok>>) THEN -1
     ELSE IF rest >= 0 THEN me + rest
     ELSE IF mymax > MatchMin(<<tok>>) THEN Attempts(data, from, vec, max, mymax - 1)
     ELSE -1

\* match_vector: how many characters a vector of tokens matches, -1 if none.
MatchVector(data, from, vec, max) ==
  LET tok == Head(vec)
      mymax == Limit(tok, max)
      tried == IF mymax < MatchMin(<<tok>>) THEN -1
               ELSE Attempts(data, from, vec, max, mymax)
  IN IF tried >= 0 THEN tried
     ELSE IF mymax < MatchMin(<<tok>>) \/ MatchMin(<<tok>>) # 0 THEN -1
     ELSE IF Len(vec) = 1 THEN 0
     ELSE MatchVector(data, from, Tail(vec), max)

\* vregex on the text from from on.
Matches(toks, text, behind, from) ==
  toks # Bad /\ MatchVector(Memory(text, behind), from, toks, Len(text) - from + 1) >= 0

\* regex_search: no match in an empty text.
RegexSearch(toks, text, behind) ==
  \E from \in 1..Len(text) : Matches(toks, text, behind, from)

-----------------------------------------------------------------------------
(* What a pattern means.  An expression is a sequence of items: a class of   *)
(* letters, negated or not, or a group of expressions, and its quantifier.  *)

ClassItem(set, negated, quantifier) ==
  [set |-> set, negated |-> negated, alternatives |-> <<>>, quantifier |-> quantifier]

GroupItem(alternatives, quantifier) ==
  [set |-> {}, negated |-> FALSE, alternatives |-> alternatives, quantifier |-> quantifier]

IsGroup(item) == item.alternatives # <<>>

\* How an expression is written.
RECURSIVE Written(_)
WrittenItem(item) ==
  LET quantifier == IF item.quantifier = "" THEN <<>> ELSE <<item.quantifier>>
      or(text, e) == (IF text = <<>> THEN <<>> ELSE Append(text, "|")) \o Written(e)
      body == IF IsGroup(item) THEN <<"(">> \o FoldLeft(or, <<>>, item.alternatives) \o <<")">>
              ELSE IF item.negated /\ item.set = {} THEN <<".">>
              ELSE IF item.negated THEN <<"[", "^">> \o SetToSeq(item.set) \o <<"]">>
              ELSE IF Cardinality(item.set) = 1 THEN SetToSeq(item.set)
              ELSE <<"[">> \o SetToSeq(item.set) \o <<"]">>
  IN body \o quantifier
Written(e) == FoldLeft(LAMBDA text, item : text \o WrittenItem(item), <<>>, e)

\* The places where a match of the expression from p on can end.
RECURSIVE Ends(_, _, _)
OnceEnds(item, data, p) ==
  IF IsGroup(item) THEN UNION {Ends(item.alternatives[m], data, p) :
                                 m \in DOMAIN item.alternatives}
  ELSE IF p <= Len(data) /\ ((data[p] \in item.set) # item.negated) THEN {p + 1} ELSE {}

RECURSIVE RepeatedEnds(_, _, _)
RepeatedEnds(item, data, ps) ==
  LET more == ps \cup UNION {OnceEnds(item, data, p) : p \in ps}
  IN IF more = ps THEN ps ELSE RepeatedEnds(item, data, more)

ItemEnds(item, data, p) ==
  LET once == OnceEnds(item, data, p)
  IN CASE item.quantifier = ""  -> once
       [] item.quantifier = "?" -> once \cup {p}
       [] item.quantifier = "+" -> RepeatedEnds(item, data, once)
       [] OTHER                 -> RepeatedEnds(item, data, {p})

Ends(e, data, p) ==
  IF e = <<>> THEN {p}
  ELSE UNION {Ends(Tail(e), data, q) : q \in ItemEnds(Head(e), data, p)}

\* A part of the data that begins within the first n characters is one.
Means(e, data, n) == \E p \in 1..n : Ends(e, data, p) # {}
=============================================================================
