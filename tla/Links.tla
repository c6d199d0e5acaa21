------------------------------- MODULE Links -------------------------------
(***************************************************************************)
(* The doubly linked lists of src/include/list.h pointer by pointer, for    *)
(* those whose nodes are inserted twice, looked at after their removal, or  *)
(* joined: l.next and l.prev are the two pointers of every node.  A list is *)
(* named by its sentinel, or is a ring of nodes without one.  Lists.tla has *)
(* lists as sequences.                                                     *)
(***************************************************************************)
EXTENDS Naturals, FiniteSets

\* list_init of all nodes.
ListInit(nodes) ==
  [next |-> [n \in nodes |-> n], prev |-> [n \in nodes |-> n]]

\* list_insert(before, node), store by store.
ListInsert(l, before, node) ==
  LET a == [l EXCEPT !.next[node] = l.next[before]]
      b == [a EXCEPT !.prev[node] = before]
      c == [b EXCEPT !.prev[b.next[node]] = node]
  IN [c EXCEPT !.next[c.prev[node]] = node]

\* push(list, node)
Push(l, list, node) == ListInsert(l, l.prev[list], node)

\* list_remove(node): the node keeps its pointers.
ListRemove(l, node) ==
  LET a == [l EXCEPT !.prev[l.next[node]] = l.prev[node]]
  IN [a EXCEPT !.next[a.prev[node]] = a.next[node]]

\* list_join(before, join)
ListJoin(l, before, join) ==
  LET body == l.next[before]
      a == [l EXCEPT !.next[before] = join, !.prev[join] = before]
  IN [a EXCEPT !.next[join] = body]

\* The nodes that following next from start on leads to.
Walk(l, start) ==
  LET at[k \in Nat] == IF k = 0 THEN start ELSE l.next[at[k - 1]]
  IN at

\* The nodes that a walk along next comes by, from behind start on, until it is
\* at stop (or at a node it has seen).
Ahead(l, start, stop) ==
  LET steps == 1..Cardinality(DOMAIN l.next)
  IN {Walk(l, start)[k] : k \in {m \in steps : \A j \in 1..m : Walk(l, start)[j] # stop}}

\* A loop over the list, from its first node to its last, that removes some nodes.
ListWithout(l, list, nodes) ==
  LET node == Walk(l, list)
      left[k \in Nat] ==
        IF k = 0 THEN l
        ELSE IF node[k] \in nodes THEN ListRemove(left[k - 1], node[k])
        ELSE left[k - 1]
  IN left[Cardinality(Ahead(l, list, list))]
=============================================================================
