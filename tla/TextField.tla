----------------------------- MODULE TextField -----------------------------
(***************************************************************************)
(* What someone who types expects of an input line with a history: a text   *)
(* with a cursor in it, earlier lines to go back to, and the unfinished line *)
(* to come back to.  No code of its own; LineEditor.tla shows which keys of  *)
(* io_get_input (src/src/io.c) keep this promise.                           *)
(***************************************************************************)
EXTENDS Integers, SequencesExt

CONSTANTS Char,      \* what can be typed
          Newline,   \* what ends a line
          Words      \* the words that can be completed

VARIABLES text,     \* the line
          at,       \* the characters in front of the cursor
          saved,    \* the unfinished line, while an earlier one is shown
          entry,    \* which earlier line is shown, 0 for none
          past      \* the lines that were entered, latest first

fieldVars == <<text, at, saved, entry, past>>

FieldInit == text = <<>> /\ at = 0 /\ saved = <<>> /\ entry = 0 /\ past = <<>>

Type(c) ==
  /\ text' = InsertAt(text, at + 1, c)
  /\ at' = at + 1
  /\ UNCHANGED <<saved, entry, past>>

Erase ==
  /\ at > 0
  /\ text' = RemoveAt(text, at)
  /\ at' = at - 1
  /\ UNCHANGED <<saved, entry, past>>

\* The character under the cursor goes; the cursor may go one back.
EraseUnder ==
  /\ at > 0 /\ at < Len(text)
  /\ text' = RemoveAt(text, at + 1)
  /\ at' \in {at - 1, at}
  /\ UNCHANGED <<saved, entry, past>>

Move ==
  /\ at' \in 0..Len(text)
  /\ UNCHANGED <<text, saved, entry, past>>

\* The last word grows into the beginning of words that can be completed.
Complete ==
  /\ \E i \in 1..Len(text), w \in Words :
       \E more \in Prefixes(w) :
         /\ IsPrefix(SubSeq(text, i, Len(text)), more)
         /\ text' = SubSeq(text, 1, i - 1) \o more
  /\ at' = Len(text')
  /\ UNCHANGED <<saved, entry, past>>

\* Earlier and later lines; behind the earliest and before the latest comes the
\* unfinished one.
Show(e) ==
  LET unfinished == IF entry = 0 THEN text ELSE saved
      found      == e \in DOMAIN past
  IN /\ entry' = IF found THEN e ELSE 0
     /\ saved' = IF found THEN unfinished ELSE <<>>
     /\ text' = IF found THEN past[e] ELSE unfinished
     /\ at' = Len(text')
     /\ UNCHANGED past

Enter ==
  /\ past' = <<text>> \o past
  /\ text' = <<>> /\ at' = 0
  /\ saved' = <<>> /\ entry' = 0

FieldNext ==
  \/ \E c \in Char : Type(c)
  \/ Erase \/ EraseUnder \/ Move \/ Complete \/ Enter
  \/ Show(entry + 1) \/ Show(entry - 1)

FieldSpec == FieldInit /\ [][FieldNext]_fieldVars
=============================================================================
