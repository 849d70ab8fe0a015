----------------------------- MODULE MCJITCache -----------------------------
(* Instances of JITCache for TLC.                                          *)
EXTENDS JITCache, TLC

\* Processes are interchangeable, and so are modules when none has an
\* extension.  Liveness is checked without symmetry.
Symmetry == Permutations(Procs) \cup Permutations(Modules)
=============================================================================
