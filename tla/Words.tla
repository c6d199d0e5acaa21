------------------------------- MODULE Words -------------------------------
(***************************************************************************)
(* The functions on text that the rest of bnirc relies on, each on every    *)
(* input of a bounded set: the arguments of a command and the search for a  *)
(* nick in a line (src/src/support.c), the arguments of a handler for lines  *)
(* of the server (src/src/parse_server_string.c), aliases                   *)
(* (src/src/parse_input_string.c) and the words that complete what is typed  *)
(* (src/src/tab_complete.c).  TextCalls adds the search for regular          *)
(* expressions.                                                            *)
(*                                                                         *)
(* A behaviour is one call: an input, and the step that computes the        *)
(* result.  A loop is a function of how often it went round.                *)
(***************************************************************************)
EXTENDS Integers, SequencesExt, Links

CONSTANTS
  Char,         \* the characters
  Lines,        \* the lines that become arguments
  MaxArgc,      \* bound of max_argc of a command, and of argc of a handler
  ServerLines,  \* the lines of a server, without their newline
  Picked,       \* the prefix with the server that is picked
  Garbage,      \* what is found behind the end of a line
  Haystacks,    \* the lines that are searched for a nick
  Needles,      \* the nicks
  Functions,    \* how many functions for completion there are
  Found         \* how many words each of them may find

ASSUME WordsOK ==
  /\ Lines \cup ServerLines \cup Haystacks \cup Needles \cup {Picked, Garbage}
       \subseteq Seq(Char)
  /\ <<>> \notin Needles
  /\ MaxArgc \in Nat \ {0}
  /\ Functions \in Nat
  /\ Found \subseteq Nat

VARIABLES call,   \* the function and its input
          result  \* what it returns, None before

vars == <<call, result>>

None == [is |-> "none"]

Blank == " "
Quotes == {"\"", "'"}

-----------------------------------------------------------------------------
(* Arguments.                                                              *)

\* strcspn: how many characters from p on are not in the set.
Span(str, p, set) == Min({q \in p..Len(str) : str[q] \in set} \cup {Len(str) + 1}) - p

NextWord(str, p) == Min({q \in p..Len(str) : str[q] # Blank} \cup {Len(str) + 1})

\* A round of the loop that takes arguments from a line, at the place r.at with the
\* arguments r.argv.  A quote that is not closed leads past the 0 at the end.
Round(str, quotes, upTo, r) ==
  LET quoted == str[r.at] \in quotes
      from == IF quoted THEN r.at + 1 ELSE r.at
      size == Span(str, from, IF quoted THEN {str[r.at]} ELSE {Blank})
  IN IF r.at > Len(str) \/ Len(r.argv) = upTo THEN r
     ELSE IF str[r.at] = Blank THEN [r EXCEPT !.at = @ + 1]
     ELSE [at   |-> from + size + (IF quoted THEN 1 ELSE 0),
           argv |-> Append(r.argv, SubSeq(str, from, from + size - 1))]

\* Every round takes a character or more.
Loop(str, quotes, upTo) ==
  LET after[k \in Nat] == IF k = 0 THEN [at |-> 1, argv |-> <<>>]
                          ELSE Round(str, quotes, upTo, after[k - 1])
  IN after[Len(str)]

\* make_argv: there are no quotes, and no more words than characters.
MakeArgv(str) == Loop(str, {}, Len(str)).argv

\* word_count
WordCount(str) == Len(MakeArgv(str))

\* Mutant: one argument more is taken from the line than there is room for.
OneWordMore(n) == n

\* How many of the arguments are single words.
SingleWords(n) == n - 1

\* Mutant: more words than max_argc count as well.
Uncapped(str, n) == WordCount(str)

\* How many arguments there are.
Argc(str, n) == Min({WordCount(str), n})

\* make_max_argv: argc, and the arguments that are set.  The last of n is what is
\* left of the line; with less than n words nothing follows the loop.  Behind the
\* end of the line, more arguments may be found.  The array has room for argc + 1,
\* whatever the loop finds.
MakeMaxArgv(str, n, more) ==
  LET upTo == SingleWords(n)
      argc == Argc(str, n)
      loop == Loop(str, Quotes, upTo)
      beyond == loop.at > Len(str) + 1
      argv == IF ~beyond THEN loop.argv
              ELSE loop.argv \o [k \in 1..Min({more, upTo - Len(loop.argv)}) |-> Garbage]
      rest == IF beyond THEN Garbage ELSE SubSeq(str, NextWord(str, loop.at), Len(str))
  IN [is   |-> IF Len(argv) > argc + 1 THEN "overflow" ELSE "argv",
      argc |-> argc,
      argv |-> IF argc < n THEN argv
               ELSE [k \in DOMAIN argv \cup {n} |-> IF k = n THEN rest ELSE argv[k]]]

InFront(first, argv) ==
  [k \in {1} \cup {j + 1 : j \in DOMAIN argv} |-> IF k = 1 THEN first ELSE argv[k - 1]]

\* Mutant: the prefix that is put in front has no place of its own.
GivenFull(str, n, more) ==
  IF Head(str) = ":" THEN MakeMaxArgv(str, n, more)
  ELSE LET m == MakeMaxArgv(str, n, more)
       IN [is |-> m.is, argc |-> m.argc + 1, argv |-> InFront(Picked, m.argv)]

\* A line of a server as arguments; one without a prefix gets one.
Given(str, n, more) ==
  IF Head(str) = ":" THEN MakeMaxArgv(str, n, more)
  ELSE LET m == MakeMaxArgv(str, n - 1, more)
       IN [is |-> m.is, argc |-> m.argc + 1, argv |-> InFront(Picked, m.argv)]

\* The arguments of a handler that wants n: the colon of the last one goes, if
\* strip_colon, and empty ones make up for those that are missing.
HandlerArgv(str, n, strip, more) ==
  LET given == Given(str, n, more)
      last == given.argc
      colon == /\ strip
               /\ last \in DOMAIN given.argv
               /\ given.argv[last] # <<>> /\ Head(given.argv[last]) = ":"
      argv == IF colon THEN [given.argv EXCEPT ![last] = Tail(@)] ELSE given.argv
  IN [k \in DOMAIN given.argv \cup (last + 1)..n |-> IF k > last THEN <<>> ELSE argv[k]]

\* A line with words, but no command: an assertion fails.
NoCommand(str) ==
  LET argv == MakeArgv(str)
  IN \/ argv = <<>>
     \/ Len(argv) = 1 /\ Head(argv[1]) = ":"

\* parse_server_string, with a handler for the line's command.
ParseServerString(str, n, strip, more) ==
  CASE NoCommand(str) -> [is |-> "server", argv |-> <<>>]
    [] ~NoCommand(str) /\ Given(str, n, more).is = "overflow" -> [is |-> "overflow"]
    [] OTHER -> [is |-> "server", argv |-> HandlerArgv(str, n, strip, more)]

-----------------------------------------------------------------------------
(* Search, and replacement.                                                *)

Lc(c) == CASE c = "A" -> "a" [] c = "B" -> "b" [] OTHER -> c

\* Mutant: a mismatch does not start the needle again.
RestartNever(needle, found, c) == IF Lc(needle[found + 1]) = Lc(c) THEN found + 1 ELSE found

\* How much of the needle is found, once the character c is looked at.
Progress(needle, found, c) == IF Lc(needle[found + 1]) = Lc(c) THEN found + 1 ELSE 0

\* strstr_nc: how much of the needle is found with the first p characters.  With all
\* of it, the function has returned.
FoundAfter(haystack, needle) ==
  LET found[p \in Nat] ==
        LET before == IF p = 0 THEN 0 ELSE found[p - 1]
        IN IF p = 0 \/ before = Len(needle) THEN before
           ELSE Progress(needle, before, haystack[p])
  IN found

\* Where the needle begins, 0 if it is not found.
StrstrNc(haystack, needle) ==
  LET ends == {p \in DOMAIN haystack : FoundAfter(haystack, needle)[p] = Len(needle)}
  IN IF ends = {} THEN 0 ELSE Min(ends) - (Len(needle) - 1)

OccursAt(haystack, needle, p) ==
  /\ p + Len(needle) - 1 <= Len(haystack)
  /\ \A k \in DOMAIN needle : Lc(haystack[p + k - 1]) = Lc(needle[k])

\* Mutant: what is behind the needle is lost if there is no more than one character.
Behind1(str, p) == IF p < Len(str) THEN SubSeq(str, p, Len(str)) ELSE <<>>

Behind(str, p) == SubSeq(str, p, Len(str))

\* string_replace: the first place where the needle is.
StringReplace(str, needle, replacement) ==
  LET places == {p \in 1..Len(str) : p + Len(needle) - 1 <= Len(str)
                                     /\ SubSeq(str, p, p + Len(needle) - 1) = needle}
      first == Min(places)
  IN IF places = {} THEN str
     ELSE SubSeq(str, 1, first - 1) \o replacement \o Behind(str, first + Len(needle))

\* parse_input_string on a line with the alias name: what is left of it behind the
\* command character, here the first one.
ExpandAlias(line, name, replacement) ==
  LET argv == MakeArgv(Tail(line))
  IN IF argv # <<>> /\ argv[1] = name
     THEN Tail(StringReplace(line, name, replacement))
     ELSE Tail(line)

-----------------------------------------------------------------------------
(* Completion.                                                             *)

\* tablist_t: the words each function finds, numbered.
Nodes(found) == UNION {{<<f, k>> : k \in 1..found[f]} : f \in DOMAIN found}

\* tablist_add: the list of a function is a ring that its first word stands for.
WithWords(l, f, n) ==
  LET list[k \in 0..n] == IF k < 2 THEN l ELSE Push(list[k - 1], <<f, 1>>, <<f, k>>)
  IN list[n]

\* The first function that finds something.
FirstFinder(found) == Min({f \in DOMAIN found : found[f] > 0})

\* Mutant: the words so far are joined to the new ones.
JoinSwapped(found, l, f) ==
  IF found[f] = 0 \/ f = FirstFinder(found) THEN l
  ELSE ListJoin(l, <<f, 1>>, <<FirstFinder(found), 1>>)

\* The words of f are joined to the first word of the first function.
Join(found, l, f) ==
  IF found[f] = 0 \/ f = FirstFinder(found) THEN l
  ELSE ListJoin(l, <<FirstFinder(found), 1>>, <<f, 1>>)

\* get_tab_completes_list
TabCompletesList(found) ==
  LET list[f \in 0..Len(found)] ==
        IF f = 0 THEN ListInit(Nodes(found))
        ELSE Join(found, WithWords(list[f - 1], f, found[f]), f)
  IN list[Len(found)]

\* The loops of get_tab_completes: count, and the words of argv.
WordsAround(l, first) ==
  LET at == Walk(l, first)
      count == Min({k \in 1..Cardinality(DOMAIN l.next) : at[k] = first})
  IN [k \in 1..count |-> at[k - 1]]

\* A round of the loop of free_tab_completes_list, with the words that are freed.
FreeNext(first, r) ==
  LET p == r.links.next[first]
  IN IF p = first THEN r
     ELSE [links |-> ListRemove(r.links, p), freed |-> Append(r.freed, p)]

\* free_tab_completes_list: the first word goes last.
FreeList(l, first) ==
  LET after[k \in Nat] == IF k = 0 THEN [links |-> l, freed |-> <<>>]
                          ELSE FreeNext(first, after[k - 1])
  IN Append(after[Cardinality(DOMAIN l.next)].freed, first)

\* get_tab_completes
GetTabCompletes(found) ==
  LET list == TabCompletesList(found)
      first == <<FirstFinder(found), 1>>
  IN IF Nodes(found) = {} THEN [is |-> "tabs", argv |-> <<>>, freed |-> <<>>]
     ELSE [is    |-> "tabs",
           argv  |-> WordsAround(list, first),
           freed |-> FreeList(list, first)]

-----------------------------------------------------------------------------
(* The calls.                                                              *)

Inputs ==
  [of : {"argv"}, line : Lines, n : 1..MaxArgc]
    \cup [of : {"server"}, line : ServerLines, n : 2..MaxArgc, strip : BOOLEAN]
    \cup [of : {"strstr"}, haystack : Haystacks, needle : Needles]
    \cup [of : {"alias"}, line : Lines \ {<<>>}, name : Needles, replacement : Needles]
    \cup [of : {"tabs"}, found : [1..Functions -> Found]]

Init == call \in Inputs /\ result = None

Calls(function, r) ==
  /\ call.of = function
  /\ result = None
  /\ result' = r
  /\ UNCHANGED call

SplitLine ==
  \E more \in 0..MaxArgc : Calls("argv", MakeMaxArgv(call.line, call.n, more))

ReadLine ==
  \E more \in 0..MaxArgc :
    Calls("server", ParseServerString(call.line, call.n, call.strip, more))

FindNick ==
  Calls("strstr", [is |-> "strstr", at |-> StrstrNc(call.haystack, call.needle)])

ReplaceAlias ==
  Calls("alias",
        [is |-> "alias", line |-> ExpandAlias(call.line, call.name, call.replacement)])

Complete == Calls("tabs", GetTabCompletes(call.found))

Next == SplitLine \/ ReadLine \/ FindNick \/ ReplaceAlias \/ Complete

Spec == Init /\ [][Next]_vars

-----------------------------------------------------------------------------
(* Properties.                                                             *)

\* The places in a line where a word begins, and the words.
WordStarts(str) ==
  {p \in DOMAIN str : str[p] # Blank /\ (p = 1 \/ str[p - 1] = Blank)}

\* Every quote begins a word that ends with the same quote and has no other.
QuotesAroundWords(str) ==
  \A p \in DOMAIN str : str[p] \in Quotes =>
    \E q \in WordStarts(str) :
      LET end == q + Span(str, q, {Blank}) - 1
      IN /\ p \in {q, end} /\ q < end
         /\ str[q] = str[end]
         /\ \A r \in (q + 1)..(end - 1) : str[r] \notin Quotes

Unquoted(word) == IF word[1] \in Quotes THEN Tail(Front(word)) ELSE word

\* The k-th place has k places up to it.
StartsInOrder(str) ==
  [k \in 1..Cardinality(WordStarts(str)) |->
    CHOOSE p \in WordStarts(str) : Cardinality({q \in WordStarts(str) : q <= p}) = k]

WordFrom(str, p) == SubSeq(str, p, p + Span(str, p, {Blank}) - 1)

\* A command gets as many arguments as the line has words, up to its max_argc: each
\* a word, without the quotes around it, and the last one all that is left of the
\* line; when quotes are around single words, and only there.  Then the array has
\* room for them; it may not for the parts that other quotes make.
ArgvSplits ==
  call.of = "argv" /\ result # None /\ QuotesAroundWords(call.line) =>
    LET starts == StartsInOrder(call.line)
    IN /\ result.is = "argv"
       /\ result.argc = Min({Len(starts), call.n})
       /\ result.argv =
            [k \in 1..result.argc |->
               IF k = call.n THEN SubSeq(call.line, starts[k], Len(call.line))
               ELSE Unquoted(WordFrom(call.line, starts[k]))]

\* The parameters of a line by RFC 2812, where they begin: the first one with a colon
\* goes to the end of the line.
ParameterStarts(str) ==
  LET starts == StartsInOrder(str)
      first == IF Head(str) = ":" THEN 3 ELSE 2
      trailing == {k \in first..Len(starts) : str[starts[k]] = ":"}
  IN SubSeq(starts, first, IF trailing = {} THEN Len(starts) ELSE Min(trailing))

\* "parses a string sent from the server as described in RFC 2812": the handler gets
\* its n arguments, the prefix (or the server's), the command and the parameters,
\* the last one without its colon, and empty ones behind them.  If it wants as many
\* as there are, or more and the last one is a single word, and no quote is in front
\* of another one: a text for a handler that wants more is taken apart.
ArgumentsOfLine ==
  call.of = "server" /\ result # None /\ call.line # <<>> /\ ~NoCommand(call.line) =>
    LET line == call.line
        words == MakeArgv(line)
        front == IF Head(line) = ":" THEN SubSeq(words, 1, 2) ELSE <<Picked, words[1]>>
        starts == ParameterStarts(line)
        all == front \o [k \in DOMAIN starts |->
                 IF line[starts[k]] = ":"
                 THEN SubSeq(line, starts[k] + (IF call.strip THEN 1 ELSE 0), Len(line))
                 ELSE WordFrom(line, starts[k])]
    IN /\ Head(line) # Blank /\ Last(line) # Blank /\ Head(front[2]) # ":"
       /\ Len(all) <= call.n
       /\ Len(all) < call.n => Blank \notin Range(Last(all))
       /\ \A k \in 1..(call.n - 1) \cap DOMAIN all : Range(all[k]) \cap Quotes = {}
       => /\ result.is = "server"
          /\ result.argv = [k \in 1..call.n |-> IF k \in DOMAIN all THEN all[k] ELSE <<>>]

\* A nick is found only where it is, and always if the line begins with it or a
\* character that is not in it comes before (a search that fails half way goes on
\* behind, so that of "bbob" nothing is found of "bob").
NickFound ==
  result.is = "strstr" =>
    LET delimited(p) == p = 1 \/ Lc(call.haystack[p - 1])
                                   \notin {Lc(c) : c \in Range(call.needle)}
    IN /\ result.at # 0 => OccursAt(call.haystack, call.needle, result.at)
       /\ (\E p \in DOMAIN call.haystack :
             OccursAt(call.haystack, call.needle, p) /\ delimited(p)) => result.at # 0

\* An alias is replaced where the command was, whatever else the line has, if the
\* command character does not begin its name: the arguments stay as they are.
AliasInPlace ==
  result.is = "alias" =>
    LET argv == MakeArgv(Tail(call.line))
        at == NextWord(call.line, 2)
    IN IF argv = <<>> \/ argv[1] # call.name THEN result.line = Tail(call.line)
       ELSE Head(call.line) # Head(call.name) =>
              result.line = SubSeq(call.line, 2, at - 1) \o call.replacement
                            \o SubSeq(call.line, at + Len(call.name), Len(call.line))

\* Each word that completes what is typed is offered at most once, and freed as
\* often; none is lost of the first function that finds any, and every other one
\* that finds any has a word on the list.
CompletionsOnce ==
  result.is = "tabs" =>
    /\ IsInjective(result.argv)
    /\ IsInjective(result.freed)
    /\ Range(result.freed) = Range(result.argv)
    /\ \A f \in DOMAIN call.found :
         LET offered == Cardinality({n \in Range(result.argv) : n[1] = f})
         IN IF \A g \in 1..(f - 1) : call.found[g] = 0 THEN offered = call.found[f]
            ELSE call.found[f] > 0 => offered > 0

\* list_join is drawn as one ring of both lists, with "body(join)" and "last(join)" in
\* it: all words that are found are offered.
AllOffered == result.is = "tabs" => Range(result.argv) = Nodes(call.found)

\* What the functions return is of their type: no argc is past max_argc, no place
\* outside of the text, no word on a list but those that were found.
TypeOK ==
  CASE result.is = "argv"   -> /\ result.argc \in 0..call.n
                               /\ DOMAIN result.argv \subseteq 1..call.n
    [] result.is = "server" -> DOMAIN result.argv \subseteq 1..call.n
    [] result.is = "strstr" -> result.at \in 0..Len(call.haystack)
    [] result.is = "alias"  -> Len(result.line) <= Len(call.line) + Len(call.replacement)
    [] result.is = "tabs"   -> Range(result.argv) \subseteq Nodes(call.found)
    [] OTHER                -> TRUE
=============================================================================
