------------------------ MODULE MCStaticBinaryCache ------------------------
(* Instances of StaticBinaryCache for TLC.                                 *)
EXTENDS StaticBinaryCache, TLC

\* Inodes are interchangeable, and so are processes, which all start alike.
Symmetry == Permutations(Procs) \cup Permutations(Inodes)

\* Liveness is checked without symmetry.
=============================================================================
