------------------------------ MODULE FatTree ------------------------------
(***************************************************************************)
(* Fat32 with the tree that clients see of the disk: the variable tree is  *)
(* a function of disk, computed once for each state.                       *)
(***************************************************************************)
EXTENDS Fat32

VARIABLE tree

TreeInit == Init /\ tree = Tree(disk)
TreeNext == Next /\ tree' = Tree(disk')
TreeSpec == TreeInit /\ [][TreeNext]_<<disk, tree>>

F == INSTANCE Files WITH Paths <- Known, files <- tree

(***************************************************************************)
(* The calls do what Files promises: a call changes nothing but what it    *)
(* names, and what it writes is what is found.                             *)
(***************************************************************************)
ImplementsFiles == F!Spec
=============================================================================
