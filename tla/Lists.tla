-------------------------------- MODULE Lists --------------------------------
(***************************************************************************)
(* The doubly linked lists of src/include/list.h.  A list with a head       *)
(* sentinel is the sequence of its nodes from bottom(head) on; a node is on *)
(* at most one list.                                                       *)
(***************************************************************************)
EXTENDS SequencesExt

\* Where node a is on the list s.
Place(s, a) == CHOOSE i \in DOMAIN s : s[i] = a

\* bottom(head), with the sentinel itself for the empty list.
First(s, head) == IF s = <<>> THEN head ELSE Head(s)

\* list_next(a), for a node a on the list.
Successor(s, head, a) ==
  IF Place(s, a) < Len(s) THEN s[Place(s, a) + 1] ELSE head

\* list_remove(a): a leaves the list, if this is the one that it is on.
Unlink(s, a) == IF a \in Range(s) THEN RemoveAt(s, Place(s, a)) ELSE s

\* push(a, new) goes in front of a, if this is the list that a is on.
LinkBefore(s, a, new) ==
  IF a \in Range(s) THEN InsertAt(s, Place(s, a), new) ELSE s
=============================================================================
