----------------------------- MODULE MCContainers -----------------------------
(* The containers and the memory classes, one after the other in one run:    *)
(* they share no state, so each behaviour exercises one of the two.          *)
EXTENDS AvlTree, OonfClass

VARIABLE part

MCKey == <<1, 2, 3, 4, 5, 6, 7, 4, 4>>
MCExtSize == [ext1 |-> 1, ext2 |-> 3, listener |-> 0]

allVars == <<avlVars, classVars, part>>

Init ==
  /\ AvlInit /\ ClassInit
  /\ \/ part = "tree" /\ size = Min(ClassSizes)
     \/ part = "class" /\ ~ tree.allow_dups

Next ==
  \/ part = "tree" /\ AvlNext /\ UNCHANGED <<classVars, part>>
  \/ part = "class" /\ ClassNext /\ UNCHANGED <<avlVars, part>>

Spec == Init /\ [][Next]_allVars
=============================================================================
