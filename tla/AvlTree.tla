-------------------------------- MODULE AvlTree --------------------------------
(* The AVL tree of common/avl.c with its loops (common/avl.h).  Nodes with a  *)
(* new key are in the balanced tree; a node whose key is there already is a   *)
(* 'follower', only on the list, behind the tree node of that key.            *)
(* 'order' is the abstract container: the nodes sorted by key, those with the *)
(* same key in the order of their insertion.                                  *)
EXTENDS LinkedList, Integers, SequencesExt

CONSTANT Key    \* the key of every node, an integer

ASSUME KeyAssumption == Key \in [Nodes -> Int]

VARIABLES tree,   \* struct avl_tree with the fields of all nodes
          order,  \* the abstract content
          loop    \* the loop over the tree that is in progress

avlVars == <<tree, order, loop>>

Sides == {"left", "right"}
Other(s) == IF s = "left" THEN "right" ELSE "left"
Sign(s) == IF s = "left" THEN -1 ELSE 1

\* avl_init()
avl_init(dups) ==
  [root |-> Nil, count |-> 0, allow_dups |-> dups,
   next |-> list_init_head, prev |-> list_init_head,
   parent |-> [n \in Nodes |-> Nil],
   child |-> [s \in Sides |-> [n \in Nodes |-> Nil]],
   balance |-> [n \in Nodes |-> 0], follower |-> [n \in Nodes |-> FALSE]]

NoLoop == [kind |-> "none"]

-----------------------------------------------------------------------------
(* Lookups *)

RECURSIVE avl_find_rec(_, _, _)
avl_find_rec(t, n, k) ==
  LET s == IF k < Key[n] THEN "left" ELSE "right"
  IN IF k = Key[n] \/ t.child[s][n] = Nil THEN n
     ELSE avl_find_rec(t, t.child[s][n], k)

avl_find(t, k) ==
  IF t.root = Nil THEN Nil
  ELSE LET n == avl_find_rec(t, t.root, k)
       IN IF k = Key[n] THEN n ELSE Nil

\* The list walks that follow the tree lookup: back while the key is smaller,
\* then on as long as the next node is still not beyond the key.
RECURSIVE SkipBack(_, _, _), SkipOn(_, _, _), StepOn(_, _, _), StepBack(_, _, _)
SkipBack(t, n, k) ==
  IF k >= Key[n] THEN n
  ELSE IF list_is_first(t, n) THEN Nil ELSE SkipBack(t, t.prev[n], k)
StepOn(t, n, k) ==
  IF list_is_last(t, n) THEN n
  ELSE IF k >= Key[t.next[n]] THEN StepOn(t, t.next[n], k) ELSE n
SkipOn(t, n, k) ==
  IF k <= Key[n] THEN n
  ELSE IF list_is_last(t, n) THEN Nil ELSE SkipOn(t, t.next[n], k)
StepBack(t, n, k) ==
  IF list_is_first(t, n) THEN n
  ELSE IF k <= Key[t.prev[n]] THEN StepBack(t, t.prev[n], k) ELSE n

avl_find_lessequal(t, k) ==
  IF t.root = Nil THEN Nil
  ELSE LET n == SkipBack(t, avl_find_rec(t, t.root, k), k)
       IN IF n = Nil THEN Nil ELSE StepOn(t, n, k)

avl_find_greaterequal(t, k) ==
  IF t.root = Nil THEN Nil
  ELSE LET n == SkipOn(t, avl_find_rec(t, t.root, k), k)
       IN IF n = Nil THEN Nil ELSE StepBack(t, n, k)

-----------------------------------------------------------------------------
(* Rebalancing.  The source writes every case twice, once for each side; the *)
(* operators take the side as an argument.                                   *)

SideOf(t, p, n) == IF t.child["left"][p] = n THEN "left" ELSE "right"

\* Put 'new' where the parent p (or the root pointer) refers to 'old'.
Relink(t, p, old, new) ==
  IF p = Nil THEN [t EXCEPT !.root = new]
  ELSE [t EXCEPT !.child[SideOf(t, p, old)][p] = new]

Adopt(t, n, p) == IF n = Nil THEN t ELSE [t EXCEPT !.parent[n] = p]

\* Mutant: a rotation that forgets that the risen child may itself be heavy.
RotateLevel(t, n, s) ==
  LET c == t.child[s][n]
      p == t.parent[n]
      grand == t.child[Other(s)][c]
      u == Relink([t EXCEPT !.parent = [@ EXCEPT ![c] = p, ![n] = c]], p, n, c)
      v == [u EXCEPT !.child = [@ EXCEPT ![s][n] = grand, ![Other(s)][c] = n]]
  IN [Adopt(v, grand, n) EXCEPT !.balance = [@ EXCEPT ![n] = 0, ![c] = 0]]

\* _avl_rotate_right() for s = "left", _avl_rotate_left() for s = "right": the
\* child on side s rises to the place of n.
Rotate(t, n, s) ==
  LET c == t.child[s][n]
      p == t.parent[n]
      grand == t.child[Other(s)][c]
      u == Relink([t EXCEPT !.parent = [@ EXCEPT ![c] = p, ![n] = c]], p, n, c)
      v == [u EXCEPT !.child = [@ EXCEPT ![s][n] = grand, ![Other(s)][c] = n]]
      heavy == Sign(s) * t.balance[c] > 0
      bn == t.balance[n] - Sign(s) - (IF heavy THEN t.balance[c] ELSE 0)
      bc == t.balance[c] - Sign(s) + (IF Sign(s) * bn < 0 THEN bn ELSE 0)
  IN [Adopt(v, grand, n) EXCEPT !.balance = [@ EXCEPT ![n] = bn, ![c] = bc]]

\* _post_insert(): the subtree of n has grown.
RECURSIVE post_insert(_, _)
post_insert(t, n) ==
  LET p == t.parent[n]
      s == SideOf(t, p, n)
      b == t.balance[p] + Sign(s)
      u == [t EXCEPT !.balance[p] = b]
      v == Rotate(u, n, Other(s))
  IN IF p = Nil THEN t
     ELSE IF b = 0 THEN u
     ELSE IF b = Sign(s) THEN post_insert(u, p)
     ELSE IF t.balance[n] = Sign(s) THEN Rotate(u, p, s)
     ELSE Rotate(v, v.parent[v.parent[n]], s)

\* The part _avl_post_remove() and the leaf case of _avl_remove_worker() share:
\* the subtree on side s of p has become lower, and so may p itself.
RECURSIVE Shrunk(_, _, _)
Shrunk(t, p, s) ==
  LET b == t.balance[p] - Sign(s)
      u == [t EXCEPT !.balance[p] = b]
      sib == t.child[Other(s)][p]
      up(w, n) == IF w.parent[n] = Nil THEN w
                  ELSE Shrunk(w, w.parent[n], SideOf(w, w.parent[n], n))
      single == Rotate(u, p, Other(s))
      double == Rotate(Rotate(u, sib, s), p, Other(s))
  IN IF b = 0 THEN up(u, p)
     ELSE IF b = -Sign(s) THEN u
     ELSE IF t.balance[sib] = 0 THEN single
     ELSE IF t.balance[sib] = -Sign(s) THEN up(single, single.parent[p])
     ELSE up(double, double.parent[p])

avl_post_remove(t, n) ==
  IF t.parent[n] = Nil THEN t ELSE Shrunk(t, t.parent[n], SideOf(t, t.parent[n], n))

RECURSIVE avl_local_min(_, _)
avl_local_min(t, n) ==
  IF t.child["left"][n] = Nil THEN n ELSE avl_local_min(t, t.child["left"][n])

\* _avl_remove_worker(): a leaf, a node with one child, or a node with two,
\* whose place its successor takes.
RECURSIVE avl_remove_worker(_, _)
avl_remove_worker(t, n) ==
  LET p == t.parent[n]
      l == t.child["left"][n]
      r == t.child["right"][n]
      one == IF l = Nil THEN r ELSE l
      min == avl_local_min(t, r)
      u == avl_remove_worker(t, min)
      v == [u EXCEPT !.balance[min] = u.balance[n], !.parent[min] = u.parent[n],
                     !.child = [s \in Sides |-> [@[s] EXCEPT ![min] = u.child[s][n]]]]
  IN IF l = Nil /\ r = Nil
     THEN IF p = Nil THEN [t EXCEPT !.root = Nil]
          ELSE Shrunk(Relink(t, p, n, Nil), p, SideOf(t, p, n))
     ELSE IF l = Nil \/ r = Nil
     THEN avl_post_remove(Relink(Adopt(t, one, p), p, n, one), one)
     ELSE Relink(Adopt(Adopt(v, v.child["left"][min], min), v.child["right"][min], min),
                 u.parent[n], n, min)

-----------------------------------------------------------------------------
(* Insertion and removal *)

\* Mutant: the new node goes right behind the tree node of its key.
LastFollowerSkipped(t, n) == n

RECURSIVE LastFollower(_, _)
LastFollower(t, n) ==
  IF list_is_last(t, n) \/ ~ t.follower[t.next[n]] THEN n ELSE LastFollower(t, t.next[n])

Counted(t, d) == [t EXCEPT !.count = @ + d]

\* avl_insert(), 0 (the new tree) or -1 (the tree unchanged).
avl_insert(t, new) ==
  LET n == avl_find_rec(t, t.root, Key[new])
      last == LastFollower(t, n)
      s == IF Key[new] < Key[n] THEN "left" ELSE "right"
      linked == Counted(IF s = "left" THEN list_add_before(t, n, new)
                                      ELSE list_add_after(t, last, new), 1)
      placed == [linked EXCEPT !.parent[new] = n, !.child[s][n] = new,
                               !.balance[n] = @ + Sign(s)]
  IN IF t.root = Nil THEN [list_add_head(t, new) EXCEPT !.root = new, !.count = 1]
     ELSE IF Key[new] = Key[n]
     THEN IF t.allow_dups
          THEN [Counted(list_add_after(t, last, new), 1) EXCEPT !.follower[new] = TRUE]
          ELSE t
     ELSE IF placed.balance[n] = 0 THEN placed ELSE post_insert(placed, n)

\* The first follower takes over the tree position of the node it follows.
Promote(t, n, f) ==
  LET u == [t EXCEPT !.follower[f] = FALSE, !.balance[f] = t.balance[n],
                     !.parent[f] = t.parent[n],
                     !.child = [s \in Sides |-> [@[s] EXCEPT ![f] = t.child[s][n]]]]
      v == Relink(u, t.parent[n], n, f)
  IN Adopt(Adopt(v, t.child["left"][n], f), t.child["right"][n], f)

\* What a node that left the tree holds is dead: avl_insert() sets it again.
Cleared(t, n) ==
  [t EXCEPT !.parent[n] = Nil, !.balance[n] = 0, !.follower[n] = FALSE,
            !.child = [s \in Sides |-> [@[s] EXCEPT ![n] = Nil]]]

\* Mutant: the followers of a removed node are dropped from the tree with it.
PromoteNobody(t, n) ==
  Cleared(Counted(list_remove(IF t.follower[n] THEN t ELSE avl_remove_worker(t, n), n), -1), n)

avl_remove(t, n) ==
  LET hasFollower == t.allow_dups /\ ~ list_is_last(t, n) /\ t.follower[t.next[n]]
      u == IF t.follower[n] THEN t
           ELSE IF hasFollower THEN Promote(t, n, t.next[n])
           ELSE avl_remove_worker(t, n)
  IN Cleared(Counted(list_remove(u, n), -1), n)

-----------------------------------------------------------------------------
(* The steps of a program that uses the tree *)

Added == {n \in Nodes : list_is_node_added(tree, n)}

\* The abstract insertion: behind everything whose key is not larger.
Placed(n) ==
  LET le == Cardinality({i \in DOMAIN order : Key[order[i]] <= Key[n]})
      clash == \E i \in DOMAIN order : Key[order[i]] = Key[n]
  IN IF clash /\ ~ tree.allow_dups THEN order ELSE InsertAt(order, le + 1, n)

Insert(n) ==
  /\ loop = NoLoop /\ n \notin Added
  /\ tree' = avl_insert(tree, n)
  /\ order' = Placed(n)
  /\ UNCHANGED loop

RemoveNode(n) ==
  /\ loop = NoLoop /\ n \in Added
  /\ tree' = avl_remove(tree, n)
  /\ order' = Remove(order, n)
  /\ UNCHANGED loop

\* Loops that leave the tree alone: over all elements, from the first one to a
\* given one or from a given one to the last, forwards or backwards.
LoopOverRange(dir) ==
  /\ loop = NoLoop
  /\ \E i, j \in DOMAIN order \cup {0} :
       /\ IF order = <<>> THEN i = 0 /\ j = 0 ELSE 0 < i /\ i <= j /\ (i = 1 \/ j = Len(order))
       /\ LET at(k) == IF k = 0 THEN ListHead ELSE order[k]
              part == IF i = 0 THEN <<>> ELSE SubSeq(order, i, j)
          IN loop' = [kind |-> dir, first |-> at(i), last |-> at(j), seen |-> <<>>,
                      element |-> IF dir = "forward" THEN at(i) ELSE at(j),
                      ptr |-> Nil,
                      want |-> IF dir = "forward" THEN part ELSE Reverse(part)]
  /\ UNCHANGED <<tree, order>>

\* avl_for_each_elements_with_key(): 'first' remembers where it started.
LoopOverKey(k) ==
  /\ loop = NoLoop
  /\ LET n == avl_find(tree, k)
     IN loop' = [kind |-> "key", first |-> n, last |-> Nil, seen |-> <<>>,
                 element |-> n, ptr |-> Nil,
                 want |-> SelectSeq(order, LAMBDA m : Key[m] = k)]
  /\ UNCHANGED <<tree, order>>

\* avl_for_each_element_safe() and its reverse: the neighbour is remembered
\* before the body runs.
LoopSafe(dir) ==
  /\ loop = NoLoop
  /\ LET e == Follow(tree, dir, ListHead)
     IN loop' = [kind |-> dir \o "_safe", first |-> Nil, last |-> Nil, seen |-> <<>>,
                 element |-> e, ptr |-> Follow(tree, dir, e),
                 want |-> IF dir = "forward" THEN order ELSE Reverse(order)]
  /\ UNCHANGED <<tree, order>>

\* avl_remove_all_elements(): the tree is emptied at once, its nodes are then
\* handed to the body one after the other.
LoopRemoveAll ==
  /\ loop = NoLoop
  /\ LET e == tree.next[ListHead]
         u == [tree EXCEPT !.root = Nil, !.next[ListHead] = ListHead, !.prev[ListHead] = ListHead]
     IN /\ loop' = [kind |-> "remove_all", first |-> Nil, last |-> Nil, seen |-> <<>>,
                    element |-> e, ptr |-> tree.next[e], want |-> order]
        /\ tree' = u
  /\ order' = <<>>

\* The condition at the head of each loop.
More ==
  IF loop.kind = "forward" THEN RangeMore(tree, loop.last, loop.element)
  ELSE IF loop.kind = "reverse" THEN RangeMoreReverse(tree, loop.first, loop.element)
  ELSE IF loop.kind = "key"
  THEN /\ loop.element \notin {Nil, ListHead}
       /\ loop.element = loop.first \/ tree.follower[loop.element]
  ELSE IF loop.kind = "forward_safe" THEN RangeMore(tree, tree.prev[ListHead], loop.element)
  ELSE IF loop.kind = "reverse_safe" THEN RangeMoreReverse(tree, tree.next[ListHead], loop.element)
  ELSE tree.count > 0

\* A turn of a loop that does not change the tree.
LoopTurn ==
  /\ loop.kind \in {"forward", "reverse", "key"} /\ More
  /\ loop' = [loop EXCEPT !.seen = Append(@, loop.element),
                          !.element = Follow(tree, IF loop.kind = "reverse" THEN "reverse"
                                                   ELSE "forward", @)]
  /\ UNCHANGED <<tree, order>>

\* Mutant: the neighbour is looked up after the body, through the element.
SafeTurnLate(remove) ==
  /\ loop.kind \in {"forward_safe", "reverse_safe"} /\ More
  /\ LET dir == IF loop.kind = "forward_safe" THEN "forward" ELSE "reverse"
         t == IF remove THEN avl_remove(tree, loop.element) ELSE tree
     IN /\ tree' = t
        /\ order' = IF remove THEN Remove(order, loop.element) ELSE order
        /\ loop' = [loop EXCEPT !.seen = Append(@, loop.element),
                                !.element = IF remove THEN ListHead ELSE loop.ptr,
                                !.ptr = Follow(t, dir, loop.ptr)]

\* A turn of a safe loop, whose body may remove the current element.
SafeTurn(remove) ==
  /\ loop.kind \in {"forward_safe", "reverse_safe"} /\ More
  /\ LET dir == IF loop.kind = "forward_safe" THEN "forward" ELSE "reverse"
         t == IF remove THEN avl_remove(tree, loop.element) ELSE tree
     IN /\ tree' = t
        /\ order' = IF remove THEN Remove(order, loop.element) ELSE order
        /\ loop' = [loop EXCEPT !.seen = Append(@, loop.element),
                                !.element = loop.ptr,
                                !.ptr = Follow(t, dir, loop.ptr)]

\* A turn of avl_remove_all_elements(): the body frees the element.
RemoveAllTurn ==
  /\ loop.kind = "remove_all" /\ More
  /\ loop' = [loop EXCEPT !.seen = Append(@, loop.element), !.element = loop.ptr,
                          !.ptr = IF loop.ptr = ListHead THEN ListHead ELSE tree.next[loop.ptr]]
  /\ tree' = [Cleared(Counted(tree, -1), loop.element)
                EXCEPT !.next[loop.element] = Nil, !.prev[loop.element] = Nil]
  /\ UNCHANGED order

LoopEnds ==
  /\ loop # NoLoop /\ ~ More
  /\ loop' = NoLoop
  /\ UNCHANGED <<tree, order>>

AvlInit ==
  /\ \E dups \in BOOLEAN : tree = avl_init(dups)
  /\ order = <<>>
  /\ loop = NoLoop

AvlNext ==
  \/ \E n \in Nodes : Insert(n) \/ RemoveNode(n)
  \/ \E dir \in {"forward", "reverse"} : LoopOverRange(dir) \/ LoopSafe(dir)
  \/ \E k \in Range(Key) : LoopOverKey(k)
  \/ LoopRemoveAll \/ LoopTurn \/ RemoveAllTurn \/ LoopEnds
  \/ \E remove \in BOOLEAN : SafeTurn(remove)

-----------------------------------------------------------------------------
(* Properties *)

RECURSIVE Height(_, _), InOrder(_, _)
Height(t, n) ==
  IF n = Nil THEN 0
  ELSE LET l == Height(t, t.child["left"][n])
           r == Height(t, t.child["right"][n])
       IN 1 + (IF l > r THEN l ELSE r)
InOrder(t, n) ==
  IF n = Nil THEN <<>>
  ELSE InOrder(t, t.child["left"][n]) \o <<n>> \o InOrder(t, t.child["right"][n])

\* The tree holds exactly one node of every key, in order; every node is the
\* parent of its children; and the stored balance is the real difference of the
\* two heights, never more than one: what the rotations after an insertion or a
\* removal anywhere have to restore.
TreeIsBalanced ==
  LET t == tree IN
  /\ InOrder(t, t.root) = SelectSeq(order, LAMBDA n : ~ t.follower[n])
  /\ t.root # Nil => t.parent[t.root] = Nil
  /\ \A n \in Range(InOrder(t, t.root)) :
       /\ \A s \in Sides : t.child[s][n] # Nil => t.parent[t.child[s][n]] = n
       /\ t.balance[n] = Height(t, t.child["right"][n]) - Height(t, t.child["left"][n])
       /\ t.balance[n] \in -1 .. 1

\* Both rings of the list run through the nodes in the order of their keys, and
\* nodes with the same key in the order of their insertion; the count agrees.
ListIsOrdered ==
  LET ring == <<ListHead>> \o order \o <<ListHead>> IN
  /\ \A i \in 1 .. Len(ring) - 1 : /\ tree.next[ring[i]] = ring[i + 1]
                                   /\ tree.prev[ring[i + 1]] = ring[i]
  /\ loop.kind # "remove_all" => tree.count = Len(order) /\ Added = Range(order)

\* The three lookups find what the sorted sequence says: the first node with the
\* key, the last one that is not above it and the first that is not below it.
LookupsAgree ==
  \A k \in Range(Key) \cup {key + 1 : key \in Range(Key)} \cup {key - 1 : key \in Range(Key)} :
    LET pick(S, op(_)) == IF S = {} THEN Nil ELSE order[op(S)]
        is == {i \in DOMAIN order : Key[order[i]] = k}
        le == {i \in DOMAIN order : Key[order[i]] <= k}
        ge == {i \in DOMAIN order : Key[order[i]] >= k}
    IN /\ avl_find(tree, k) = pick(is, Min)
       /\ avl_find_lessequal(tree, k) = pick(le, Max)
       /\ avl_find_greaterequal(tree, k) = pick(ge, Min)

\* Every loop hands its body each element it is to visit exactly once and in
\* order, also when the body removes the current element or the whole tree is
\* taken apart under it.
LoopVisitsAll == (loop # NoLoop /\ ~ More) => loop.seen = loop.want
=============================================================================
