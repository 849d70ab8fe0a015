--------------------------- MODULE MCAllexeOutput ---------------------------
(* Instances of AllexeOutput for TLC.                                      *)
EXTENDS AllexeOutput, TLC

AllPieces == Kinds \X (Handles \cup {Orig})

\* Processes and inodes are interchangeable.
Symmetry == Permutations(Handles) \cup Permutations(Inodes)
=============================================================================
