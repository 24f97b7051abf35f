----------------------------- MODULE MCNodeTree -----------------------------
(* The root, a second directory and two files which can meet in either     *)
(* directory.  A list of children can have three members, so that the      *)
(* position of an iterator can have a predecessor and a successor.         *)
EXTENDS NodeTree, TLC

CONSTANTS root, dir, fileA, fileB, i1, i2

MCNodes == {root, dir, fileA, fileB}
MCDirs == {root, dir}
MCIters == {i1, i2}
MCMTime == root :> 1 @@ dir :> 1 @@ fileA :> 1 @@ fileB :> 2
MCNames == 1 .. 3
MCSymmetry == Permutations(MCIters)

\* Two iterators walk at the same time only through the root, and only while
\* the second directory is empty and the program holds at most two nodes.
MCBound == (Open(i1) /\ Open(i2)) => /\ node[dir].children = <<>>
                                    /\ iter[i1].dir = root /\ iter[i2].dir = root
                                    /\ Cardinality({n \in Nodes : held[n] > 0}) =< 2
=============================================================================
