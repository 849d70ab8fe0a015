---------------------------- MODULE AtomicOutput ----------------------------
(***************************************************************************)
(* What the tools that write an allexe promise about the file they write:  *)
(* somebody who looks at it sees no file, the file that was there before,  *)
(* or all of the archive that one writer put there, and never a part of    *)
(* one.  A writer replaces the output at most once, and the output goes    *)
(* away only when a writer that may truncate it ends without an archive.   *)
(***************************************************************************)
CONSTANTS
    Writers,     \* the processes that may write the output
    Archives,    \* Archives[w]: the contents w may put there
    Initial,     \* the contents that may be there to begin with
    Absent       \* there is no file

VARIABLES
    out,         \* what the output is
    replaced,    \* the writers that have replaced it
    truncating   \* the writers that were told to overwrite it

vars == <<out, replaced, truncating>>

Init ==
    /\ out \in Initial \cup {Absent}
    /\ replaced = {}
    /\ truncating \in SUBSET Writers

Replace(w) ==
    /\ w \notin replaced
    /\ out' \in Archives[w]
    /\ replaced' = replaced \cup {w}
    /\ UNCHANGED truncating

Remove(w) ==
    /\ w \in truncating \ replaced
    /\ out' = Absent
    /\ UNCHANGED <<replaced, truncating>>

Next == \E w \in Writers : Replace(w) \/ Remove(w)

Spec == Init /\ [][Next]_vars
=============================================================================
