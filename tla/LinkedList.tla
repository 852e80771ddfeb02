------------------------------ MODULE LinkedList ------------------------------
(* The intrusive ring list of common/list.h.  A list is a record l with two  *)
(* pointer functions, l.next and l.prev, over the nodes and the list head; a *)
(* node that is on no list has Nil in both.  Other fields of the record      *)
(* (those of a tree that embeds the list) are left alone.                    *)

CONSTANTS Nodes,  \* everything that embeds a struct list_entity
          ListHead,   \* the list head
          Nil     \* the null pointer

ASSUME ListConstants == ListHead \notin Nodes /\ Nil \notin Nodes \cup {ListHead}

Entities == Nodes \cup {ListHead}

\* A list head that points to itself, with no node added anywhere.
list_init_head == [e \in Entities |-> IF e = ListHead THEN ListHead ELSE Nil]

\* __list_add(): link 'new' between two neighbours.
list_add(l, prev, next, new) ==
  [l EXCEPT !.next = [@ EXCEPT ![new] = next, ![prev] = new],
            !.prev = [@ EXCEPT ![new] = prev, ![next] = new]]

list_add_head(l, new) == list_add(l, ListHead, l.next[ListHead], new)
list_add_before(l, pos, new) == list_add(l, l.prev[pos], pos, new)
list_add_after(l, pos, new) == list_add(l, pos, l.next[pos], new)

\* list_remove(): bridge the gap and clear the node's own pointers.  The node
\* is cleared last, also when both neighbours are the head.
list_remove(l, e) ==
  [l EXCEPT !.next = [@ EXCEPT ![l.prev[e]] = l.next[e], ![e] = Nil],
            !.prev = [@ EXCEPT ![l.next[e]] = l.prev[e], ![e] = Nil]]

list_is_node_added(l, e) == l.next[e] # Nil /\ l.prev[e] # Nil
list_is_first(l, e) == l.next[ListHead] = e
list_is_last(l, e) == l.prev[ListHead] = e

(* The loop macros.  A forward loop over first..last ends when the element   *)
(* before the current one is 'last', a backward loop when the one after it   *)
(* is 'first': for a whole list both ends are read again on every turn.      *)
RangeMore(l, last, element) == l.prev[element] # last
RangeMoreReverse(l, first, element) == l.next[element] # first
Follow(l, dir, element) == IF dir = "forward" THEN l.next[element]
                                              ELSE l.prev[element]
=============================================================================
