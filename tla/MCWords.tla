------------------------------ MODULE MCWords ------------------------------
(* TextCalls for TLC: expressions of up to three items, texts of up to four *)
(* letters, lines of up to five characters, six from a server.              *)
EXTENDS TextCalls

MCLetter == {"a", "b"}

MCTexts == UNION {[1..n -> MCLetter] : n \in 0..4}

MCBehinds == [1..1 -> MCLetter \cup {End}]

Quantifiers == {"", "?", "*", "+"}

Items == {ClassItem({"a"}, FALSE, q) : q \in Quantifiers}
           \cup {ClassItem({"b"}, FALSE, q) : q \in Quantifiers}
           \cup {ClassItem({"a", "b"}, FALSE, q) : q \in Quantifiers}
           \cup {ClassItem({"a"}, TRUE, q) : q \in Quantifiers}
           \cup {ClassItem({}, TRUE, q) : q \in Quantifiers}

FewItems == {ClassItem({"a"}, FALSE, q) : q \in Quantifiers}
              \cup {ClassItem({"b"}, FALSE, ""), ClassItem({}, TRUE, "*")}

A == ClassItem({"a"}, FALSE, "")
B == ClassItem({"b"}, FALSE, "")

Alternatives == {<<A>>, <<B>>, <<A, B>>, <<B, A, B>>, <<ClassItem({"a"}, FALSE, "*"), B>>,
                 <<ClassItem({"b"}, FALSE, "?")>>}

Groups == {GroupItem(<<x, y>>, q) : x, y \in Alternatives, q \in {"", "?"}}

Nested == {GroupItem(<<<<A, g>>, <<B>>>>, "") : g \in Groups}

MCExpressions ==
  {<<x>> : x \in Items \cup Groups \cup Nested} \cup (Items \X Items)
    \cup (FewItems \X Items \X Items)
    \cup (FewItems \X Groups) \cup (Groups \X FewItems)

MCChar == {"a", "b", "B", " ", "\"", "'", ":", "s", "end"}

MCGarbage == <<"end">>

MCLines == UNION {[1..n -> {"a", " ", "\"", "'"}] : n \in 0..5}

MCPicked == <<":", "s">>

MCServerLines == UNION {[1..n -> {"a", " ", ":", "'"}] : n \in 0..6}

MCHaystacks == UNION {[1..n -> {"a", "B", "b", " "}] : n \in 0..5}

MCNeedles == UNION {[1..n -> {"a", "b"}] : n \in 1..3}
=============================================================================
