----------------------------- MODULE TextCalls -----------------------------
(***************************************************************************)
(* The functions on text of Words together with the regular expressions of  *)
(* Regex: one call of any of them.  The operators of Regex are recursive,   *)
(* on expressions within expressions; those of Words are not.               *)
(***************************************************************************)
EXTENDS Words, Regex

CONSTANTS
  Expressions,  \* the regular expressions, as they are meant
  Texts,        \* the texts that they are searched in
  Behinds       \* what may be in memory behind the end of a text

TextInit ==
  \/ Init
  \/ call \in [of : {"regex"}, expression : Expressions] /\ result = None

Search ==
  \E behind \in Behinds :
    Calls("regex", LET toks == Compile(Written(call.expression))
                   IN [is     |-> "regex",
                       behind |-> behind,
                       found  |-> {t \in Texts : RegexSearch(toks, t, behind)}])

TextNext == Search \/ Next

TextSpec == TextInit /\ [][TextNext]_vars

-----------------------------------------------------------------------------
(* Properties.                                                             *)

\* Nothing follows a group, in its expression and around it.
RECURSIVE GroupsLast(_)
GroupsLast(e) ==
  \A k \in DOMAIN e :
    IsGroup(e[k]) => /\ k = Len(e)
                     /\ \A m \in DOMAIN e[k].alternatives : GroupsLast(e[k].alternatives[m])

\* A text that the matcher accepts has a part that the expression means, which may go
\* over its end, as that is in negated classes, into what is behind it; and whatever
\* is there, the matcher accepts every text with a part of its own that is meant, if
\* nothing follows a group (with something behind a group it does not try all that
\* the group could match).
RegexAgrees ==
  result.is = "regex" =>
    /\ \A t \in result.found : Means(call.expression, Memory(t, result.behind), Len(t))
    /\ GroupsLast(call.expression) =>
         \A t \in Texts : Means(call.expression, t, Len(t)) => t \in result.found
=============================================================================
