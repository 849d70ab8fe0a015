---------------------------- MODULE MCZipSource ----------------------------
(* Instances of ZipSource for TLC.                                         *)
EXTENDS ZipSource, TLC

\* Handles, inodes and pieces are interchangeable.
Symmetry == Permutations(Handles) \cup Permutations(Inodes)
=============================================================================
