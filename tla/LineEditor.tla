----------------------------- MODULE LineEditor -----------------------------
(***************************************************************************)
(* The input line: io_get_input (src/src/io.c), the history                 *)
(* (src/src/history.c), and the three that read lines through it: the main  *)
(* loop (stdin_poll_func), ask, and the Python interpreter that types       *)
(* spaces for the user (send_char_to_input).                                *)
(*                                                                         *)
(* io_get_input is a coroutine: it returns NULL when the terminal has no    *)
(* key, and goes on there when it is called again, by whoever calls it.  A  *)
(* step is one key, or one such call or return.  The buffer is the string   *)
(* in it, up to the first 0; its length is counted apart from it, in        *)
(* buf_size, and every store behind the string ends it with a 0.            *)
(***************************************************************************)
EXTENDS Integers, SequencesExt

CONSTANTS Space, Colon,  \* the characters that can be typed
          Newline,       \* '\n'
          Words,         \* what tab completion completes
          Trail,         \* what /trailchar puts behind a word that is complete
          Unit,          \* the slack of the buffer, 0x20 in the code
          Word,          \* 2^w for a size_t of w bits
          MaxLen,        \* bound of the length of a line
          MaxHistory,    \* bound of the number of lines
          ManyStrays     \* bound: whether such keys are hit again after the first, see Stray

Char == {Space, Colon}

ASSUME LineEditorOK ==
  /\ Space # Colon /\ Newline \notin Char
  /\ Words \subseteq Seq(Char) /\ IsFiniteSet(Words) /\ Trail \in Seq(Char)
  /\ Unit \in Nat \ {0, 1} /\ MaxLen \in Nat /\ MaxHistory \in Nat /\ ManyStrays \in BOOLEAN
  /\ Word \in Nat /\ Word > 4 * (MaxLen + 2)

VARIABLES
  buf,       \* the string in the buffer
  size,      \* buf_size
  cursor,    \* cursor_pos, a size_t
  alloced,   \* buf_alloced
  overrun,   \* history: something was written behind the end of a buffer
  buf2,      \* the copy of the unfinished line, while an entry is shown
  entry,     \* the entry of the history that is shown, 0 for NULL
  past,      \* the history
  caller,    \* who waits in io_get_input, or what ended the program
  repl,      \* the Python interpreter is on the stack of parsers
  dontDie,   \* its dont_die: a blank line does not leave it
  indent,    \* the spaces that python_parser still has to send
  astray     \* history: a key was hit that a text field has no answer to

line == <<buf, size, cursor>>
memory == <<alloced, overrun>>
browse == <<buf2, entry, past>>
python == <<repl, dontDie, indent>>
vars == <<line, memory, browse, python, caller, astray>>

\* Who reads the next key: the main loop, which calls io_get_input when there is
\* one and gets NULL behind the last, unless a handler is still busy.
Reading == \/ caller \in {"script", "ask"}
           \/ caller = "none" /\ indent = 0

\* The string s without the character at index i, counted from 0.
Without(s, i) == IF i < Len(s) THEN RemoveAt(s, i + 1) ELSE s

\* add_char_to_str: behind the end of the string it appends.
With(s, i, c) == IF i < Len(s) THEN InsertAt(s, i + 1, c) ELSE Append(s, c)

\* A 0 at index i.
CutAt(s, i) == IF i < Len(s) THEN SubSeq(s, 1, i) ELSE s

\* Mutant: the buffers never grow.
WrittenFixed(places, newSize) ==
  /\ overrun' = (overrun \/ \E i \in places : i >= alloced)
  /\ UNCHANGED alloced

\* The places in a buffer are written to; both buffers grow before the next key is
\* read.  A capacity is a multiple of 0x40, so that alloced | 0x20 is a sum.
Written(places, newSize) ==
  /\ overrun' = (overrun \/ \E i \in places : i >= alloced)
  /\ alloced' = IF alloced <= newSize + Unit THEN 2 * (alloced + Unit) ELSE alloced

\* add_history: the latest line comes first.
AddHistory(s) == <<s>> \o past

\* get_next_history and get_prev_history: the entry at e, or NULL.
GetHistory(e) == IF e \in DOMAIN past THEN e ELSE 0

Notice(mishap) == astray' = (astray \/ mishap)

\* A key that may leave the text, as BACKSPACE at its beginning.  Bound: only the
\* first one, unless ManyStrays.
Stray(mishap) == (mishap => ~astray \/ ManyStrays) /\ Notice(mishap)

-----------------------------------------------------------------------------
(* Keys.                                                                   *)

Insert(c) ==
  /\ size < MaxLen
  /\ size' = size + 1
  /\ buf' = CutAt(With(buf, cursor, c), size + 1)
  /\ cursor' = (cursor + 1) % Word
  /\ Written({Len(buf) + 1, size + 1}, size + 1)
  /\ UNCHANGED <<browse, astray>>

\* Mutant: a cursor of a signed type.
BackspaceSigned ==
  /\ size > 0
  /\ size' = size - 1
  /\ cursor' = cursor - 1
  /\ buf' = Without(buf, cursor)
  /\ Written({}, size')
  /\ Stray(cursor = 0)
  /\ UNCHANGED browse

\* BACKSPACE asks for a line that is not empty, not for a character in front of
\* the cursor.
Backspace ==
  /\ size > 0
  /\ size' = size - 1
  /\ cursor' = (cursor + Word - 1) % Word
  /\ buf' = Without(buf, cursor')
  /\ Written({}, size')
  /\ Stray(cursor = 0)
  /\ UNCHANGED browse

\* So does DELETE; at the end of the line there is nothing under the cursor.
Delete ==
  /\ size > 0
  /\ size' = size - 1
  /\ cursor' = (cursor + Word - 1) % Word
  /\ buf' = Without(buf, cursor)
  /\ Written({}, size')
  /\ Stray(cursor = 0 \/ cursor >= Len(buf))
  /\ UNCHANGED browse

\* HOME, LEFT, RIGHT and END.  A cursor that has wrapped around is not moved
\* left until it is on the line again.
MoveCursor ==
  /\ \/ cursor' = 0 /\ UNCHANGED astray
     \/ cursor \in 1..MaxLen /\ cursor' = cursor - 1 /\ UNCHANGED astray
     \/ cursor < size /\ cursor' = cursor + 1 /\ UNCHANGED astray
     \/ cursor' = Len(buf) /\ Notice(Len(buf) # size)
  /\ UNCHANGED <<buf, size, memory, browse>>

\* Mutant: every UP and DOWN copies the line, not only the first.
ShownSaving(e) ==
  LET found == e \in DOMAIN past
      text  == IF found THEN past[e] ELSE buf
  IN /\ entry' = IF found THEN e ELSE 0
     /\ buf2' = IF found THEN buf ELSE <<>>
     /\ buf' = IF found THEN Without(text, Len(text) - 1) ELSE text
     /\ size' = Len(buf') /\ cursor' = Len(buf')
     /\ Written({Len(buf), Len(text)}, Len(text))
     /\ Notice(Len(buf) # size)
     /\ UNCHANGED past

\* UP and DOWN.  An entry ends with its newline, which the BACKSPACE removes that
\* is put back for getc to read next.
Shown(e) ==
  LET saved == IF entry = 0 THEN buf ELSE buf2
      found == GetHistory(e) # 0
      text  == IF found THEN past[e] ELSE saved
  IN /\ entry' = GetHistory(e)
     /\ buf2' = IF found THEN saved ELSE <<>>
     /\ buf' = IF found THEN Without(text, Len(text) - 1) ELSE text
     /\ size' = Len(buf') /\ cursor' = Len(buf')
     /\ Written({Len(saved), Len(text)}, Len(text))
     /\ Notice(Len(buf) # size)
     /\ UNCHANGED past

Older == Shown(entry + 1)

\* get_prev_history(NULL) is NULL.
Newer == Shown(entry - 1)

\* get_tab_completes: what begins with the word, of the words that there are at
\* the moment; nicks and channels come and go.
Matches(word) == (SUBSET {w \in Words : IsPrefix(word, w)}) \ {{}}

\* The last word of the line, and the blank in front of it.
LastBlank == Max({i \in 1..size : buf[i] = Space} \cup {0})
LastWord == SubSeq(buf, LastBlank + 1, size)

\* What the last word grows into: as far as all that it may become agree.
Grown(found) ==
  LET common == LongestCommonPrefix(found)
  IN IF Cardinality(found) = 1 THEN common \o Trail ELSE common

\* A line that is longer than its string is not completed here.
Completions ==
  IF size > Len(buf) \/ LastBlank = size THEN {}
  ELSE {Grown(found) : found \in Matches(LastWord)}

CompletedSize(more) == Len(buf) + Len(more) - (size - LastBlank)

\* bash_style_tab_complete, with a completion that fits in the buffer.
TabComplete ==
  \E more \in Completions :
    LET n == CompletedSize(more)
    IN /\ n < alloced /\ n <= MaxLen + 1
       /\ size' = n /\ cursor' = n
       /\ buf' = CutAt(SubSeq(buf, 1, LastBlank) \o more, n)
       /\ Written({LastBlank + Len(more), n}, n)
       /\ Notice(Len(buf) # size)
       /\ UNCHANGED browse

Key ==
  /\ Reading
  /\ \/ \E c \in Char : Insert(c)
     \/ Backspace \/ Delete \/ MoveCursor \/ Older \/ Newer \/ TabComplete
  /\ UNCHANGED <<caller, python>>

\* strcpy(i, complete) with one that does not fit: nothing looks at the capacity
\* before, and what it stores behind the buffer may be anything's.
TabOverrun ==
  /\ Reading
  /\ \E more \in Completions : CompletedSize(more) >= alloced
  /\ overrun' = TRUE
  /\ caller' = "overrun"
  /\ Notice(TRUE)
  /\ UNCHANGED <<line, alloced, browse, python>>

-----------------------------------------------------------------------------
(* Lines.                                                                  *)

\* What ENTER makes of the buffer: io_get_input hands it out and keeps it.
Entered == IF size <= Len(buf) THEN Append(SubSeq(buf, 1, size), Newline) ELSE buf

Blank(s) == \A i \in DOMAIN s : s[i] \in {Space, Newline}

\* How many spaces the string s begins with.
LeadingSpaces(s) == Max({n \in 0..Len(s) : \A i \in 1..n : s[i] = Space})

\* The string s without the spaces at its end.
Stripped(s) ==
  SubSeq(s, 1, Max({0} \cup {i \in DOMAIN s : s[i] # Space}))

\* parse_input_string strips the line where it is, unless it is empty.
ParseInputString(s) ==
  LET empty == s = <<>> \/ Head(s) = Newline
  IN /\ buf' = IF empty THEN s ELSE Stripped(Front(s))
     /\ repl' \in (IF empty THEN {FALSE} ELSE BOOLEAN)  \* /py:repl
     /\ UNCHANGED <<dontDie, indent>>

\* python_parser: a blank line leaves the interpreter, unless dont_die; as many
\* spaces as the line begins with, one more after a colon, are typed for the
\* next; a line that needs none is run.
PythonParser(s) ==
  LET colon == Len(s) > 1 /\ s[Len(s) - 1] = Colon
      count == IF Blank(s) THEN 0 ELSE LeadingSpaces(s) + (IF colon THEN 1 ELSE 0)
      leave == Blank(s) /\ ~dontDie
  IN /\ repl' = ~leave
     /\ indent' = IF leave THEN 0 ELSE count
     /\ dontDie' = IF leave THEN dontDie ELSE count > 0 /\ (colon \/ dontDie)
     /\ buf' = s

\* stdin_poll_func: the parser on top of the stack gets the line.
StdinPoll(s) == IF repl THEN PythonParser(s) ELSE ParseInputString(s)

\* The line goes to the one who called: send_char_to_input asserts that there is
\* none, ask that it ends with a newline.
HandOut(s) ==
  CASE caller = "script" -> caller' = "unwanted line" /\ buf' = s /\ UNCHANGED python
    [] caller = "ask"    -> /\ caller' = IF IsSuffix(<<Newline>>, s) THEN "none" ELSE "no newline"
                            /\ buf' = IF s = <<>> THEN s ELSE Front(s)
                            /\ UNCHANGED python
    [] caller = "none"   -> UNCHANGED caller /\ StdinPoll(s)

Enter ==
  /\ Reading
  /\ Len(past) < MaxHistory /\ size <= MaxLen + 1
  /\ size' = 0 /\ cursor' = 0 /\ entry' = 0 /\ buf2' = <<>>
  /\ past' = AddHistory(Entered)
  /\ HandOut(Entered)
  /\ Written({size + 1}, 0)
  /\ UNCHANGED astray

\* The terminal has no key: NULL.  ask tries again.
NoChar ==
  /\ caller = "script"
  /\ caller' = "none"
  /\ UNCHANGED <<line, memory, browse, python, astray>>

\* A script that handles the line, or anything else, asks the user.
Ask ==
  /\ caller = "none" /\ indent = 0
  /\ caller' = "ask"
  /\ UNCHANGED <<line, memory, browse, python, astray>>

\* send_char_to_input: one character, then whatever the terminal has.
SendChar ==
  /\ caller = "none" /\ indent > 0
  /\ caller' = "script"
  /\ indent' = indent - 1
  /\ Insert(Space)
  /\ UNCHANGED <<repl, dontDie>>

\* The script that is read at the start may have typed /py:repl.
Init ==
  /\ buf = <<>> /\ size = 0 /\ cursor = 0
  /\ alloced = 2 * Unit /\ overrun = FALSE
  /\ buf2 = <<>> /\ entry = 0 /\ past = <<>>
  /\ caller = "none"
  /\ repl \in BOOLEAN /\ dontDie = FALSE /\ indent = 0
  /\ astray = FALSE

Next == Key \/ TabOverrun \/ Enter \/ NoChar \/ Ask \/ SendChar

Spec == Init /\ [][Next]_vars

-----------------------------------------------------------------------------
(* Properties.                                                             *)

TypeOK ==
  /\ buf \in Seq(Char \cup {Newline}) /\ Len(buf) <= MaxLen + 2
  /\ size \in 0..MaxLen + 2
  /\ cursor \in 0..Word - 1
  /\ alloced \in Nat /\ overrun \in BOOLEAN
  /\ buf2 \in Seq(Char \cup {Newline})
  /\ entry \in 0..Len(past)
  /\ Len(past) <= MaxHistory
  /\ caller \in {"none", "script", "ask", "unwanted line", "no newline", "overrun"}
  /\ repl \in BOOLEAN /\ dontDie \in BOOLEAN /\ indent \in 0..MaxLen + 2
  /\ astray \in BOOLEAN

\* io_get_input checks the size of its buffers once for each key, by buf_size,
\* which is not the length of the string after some keys, and copies entries of
\* the history without a check ("if it's in history, we know it fits").  Still
\* nothing stores behind the end of a buffer but a completion that adds more than
\* the slack to the last word, as the FIXME above bash_style_tab_complete fears.
LongCompletion ==
  \E w \in Words : IsPrefix(LastWord, w) /\ Len(w) + Len(Trail) > Len(LastWord) + Unit

InBounds == overrun => caller = "overrun" /\ LongCompletion

\* As long as no key was hit that a text field has no answer to, the line is
\* as long as buf_size says, or it is the rest of the last one.
Field == INSTANCE TextField
  WITH text  <- SubSeq(buf, 1, size),
       at    <- cursor,
       saved <- buf2,
       past  <- [i \in DOMAIN past |-> Front(past[i])],
       Words <- Words \cup {w \o Trail : w \in Words}

\* Until then every step is one of a text field: what was typed, erased, completed
\* and browsed is what is entered, whoever reads the line, and the unfinished
\* line comes back from browsing.
TextFieldSteps == [][~astray' => Field!FieldNext]_vars
=============================================================================
