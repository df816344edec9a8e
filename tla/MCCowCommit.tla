---------------------------- MODULE MCCowCommit ----------------------------
(***************************************************************************)
(* CowCommit on fifteen blocks for the safety run (the trees have at most  *)
(* seven, so a transaction that copies all of them fits) and on eleven for *)
(* the liveness run, where a transaction can run out of space.             *)
(***************************************************************************)
EXTENDS CowCommitInv

MCBlocks == 1 .. 15
MCFewBlocks == 1 .. 11
MCFsLeaves == {"f1", "f2"}
MCExtLeaves == {"e1", "e2"}
\* The second extent leaf holds few items, so that it comes and goes.
MCLeafOf == [b \in MCBlocks |-> IF b \in {3, 10} THEN "e2" ELSE "e1"]
MCFewLeafOf == [b \in MCFewBlocks |-> MCLeafOf[b]]
MCFirstLayout == [p \in {"root_tree", "extent_root", "fs_root", "f1", "e1"} |->
                    CASE p = "root_tree" -> 1 [] p = "extent_root" -> 2
                      [] p = "fs_root" -> 4 [] p = "f1" -> 5 [] p = "e1" -> 6]
=============================================================================
