----------------------------- MODULE ZipSource -----------------------------
(***************************************************************************)
(* libzip's file-backed data source: the zip_source_* calls and the        *)
(* read_file callback behind them.  A handle reads the file fname names    *)
(* when it is opened, and replaces that file by writing a temporary one    *)
(* next to it and renaming it over fname.                                  *)
(*                                                                         *)
(* Several handles, each in a process of its own, share one fname.  The    *)
(* content of a file is the set of pieces written to it; a piece is what   *)
(* one zip_source_write call passes, opaque here.  The build has no        *)
(* support for cloning files (config.h), so that path is left out.         *)
(***************************************************************************)
EXTENDS Naturals

CONSTANTS
    Handles,   \* the zip_source_t handles on fname
    Inodes,    \* the inodes of fname's file system
    NoInode,   \* an absent file, a null FILE pointer or name
    Pieces,    \* what may be written to a file
    MaxOpens   \* bound on a handle's open_count

ASSUME ZipNoInodeAssumption == NoInode \notin Inodes
ASSUME MaxOpensAssumption == MaxOpens \in Nat

VARIABLES
    target,    \* the inode fname names
    file,      \* the pieces in each inode
    torn,      \* the inodes that lost buffered data because fclose failed
    exec,      \* the inodes whose permissions allow execution
    ws,        \* src->write_state
    opens,     \* src->open_count
    rd,        \* ctx->f: the inode open for reading
    fout,      \* ctx->fout: the inode open for writing
    tmp,       \* the inode ctx->tmpname names
    renamed,   \* the handle is between the rename and the chmod of a commit
    orphans    \* temporary files whose name no handle knows any more

sourceVars == <<target, file, torn, exec, ws, opens, rd, fout, tmp, renamed,
                orphans>>

WriteStates == {"closed", "open", "failed", "removed"}

\* Type correctness of struct zip_source and struct read_file, per handle,
\* and of the files they name.
SourceTypeOK ==
    /\ target \in Inodes \cup {NoInode}
    /\ file \in [Inodes -> SUBSET Pieces]
    /\ torn \in SUBSET Inodes
    /\ exec \in SUBSET Inodes
    /\ ws \in [Handles -> WriteStates]
    /\ opens \in [Handles -> Nat]
    /\ rd \in [Handles -> Inodes \cup {NoInode}]
    /\ fout \in [Handles -> Inodes \cup {NoInode}]
    /\ tmp \in [Handles -> Inodes \cup {NoInode}]
    /\ renamed \in [Handles -> BOOLEAN]
    /\ orphans \in SUBSET Inodes

\* No handle is open; what fname names is left to the caller.
SourceInit ==
    /\ torn = {}
    /\ exec = {}
    /\ ws = [h \in Handles |-> "closed"]
    /\ opens = [h \in Handles |-> 0]
    /\ rd = [h \in Handles |-> NoInode]
    /\ fout = [h \in Handles |-> NoInode]
    /\ tmp = [h \in Handles |-> NoInode]
    /\ renamed = [h \in Handles |-> FALSE]
    /\ orphans = {}

-----------------------------------------------------------------------------
(* Reading.                                                                *)

\* A slip in SourceOpen: a removed source can be opened, for nothing.
SourceOpenRemoved(h) ==
    /\ \/ opens[h] > 0 /\ rd' = rd
       \/ opens[h] = 0 /\ rd' = [rd EXCEPT ![h] = target]
    /\ opens' = [opens EXCEPT ![h] = @ + 1]
    /\ UNCHANGED <<target, file, torn, exec, ws, fout, tmp, renamed, orphans>>

\* zip_source_open: the first open opens the file fname names at that time;
\* further ones share it.
SourceOpen(h) ==
    /\ ws[h] # "removed"
    /\ \/ opens[h] > 0 /\ rd' = rd
       \/ opens[h] = 0 /\ target # NoInode /\ rd' = [rd EXCEPT ![h] = target]
    /\ opens' = [opens EXCEPT ![h] = @ + 1]
    /\ UNCHANGED <<target, file, torn, exec, ws, fout, tmp, renamed, orphans>>

\* A slip in Closing: a source that is not open is closed all the same.
ClosingUnchecked(h) ==
    /\ opens' = [opens EXCEPT ![h] = @ - 1]
    /\ rd' = [rd EXCEPT ![h] = IF opens[h] <= 1 THEN NoInode ELSE @]

\* What zip_source_close does to open_count and ctx->f; nothing if the
\* source is not open for reading.
Closing(h) ==
    /\ opens' = [opens EXCEPT ![h] = IF @ = 0 THEN 0 ELSE @ - 1]
    /\ rd' = [rd EXCEPT ![h] = IF opens[h] <= 1 THEN NoInode ELSE @]

SourceClose(h) ==
    /\ opens[h] > 0
    /\ Closing(h)
    /\ UNCHANGED <<target, file, torn, exec, ws, fout, tmp, renamed, orphans>>

-----------------------------------------------------------------------------
(* Writing.                                                                *)

UnusedInode(i) ==
    /\ i # target
    /\ i \notin orphans
    /\ \A h \in Handles : i \notin {rd[h], fout[h], tmp[h]}

Orphaned(h) == {tmp[h]} \ {NoInode}

\* A slip in BeginWrite: the output is written in place.
BeginWriteInPlace(h) ==
    /\ ws[h] # "open"
    /\ target # NoInode
    /\ file' = [file EXCEPT ![target] = {}]
    /\ fout' = [fout EXCEPT ![h] = target]
    /\ tmp' = [tmp EXCEPT ![h] = target]
    /\ ws' = [ws EXCEPT ![h] = "open"]
    /\ UNCHANGED <<target, torn, exec, opens, rd, renamed, orphans>>

\* zip_source_begin_write: mkstemp makes a new file under a new name.  Only
\* a write in progress is refused; a name left from a failed commit is lost.
BeginWrite(h) ==
    /\ ws[h] # "open"
    /\ \E i \in Inodes :
          /\ UnusedInode(i)
          /\ file' = [file EXCEPT ![i] = {}]
          /\ torn' = torn \ {i}
          /\ exec' = exec \ {i}
          /\ tmp' = [tmp EXCEPT ![h] = i]
          /\ fout' = [fout EXCEPT ![h] = i]
    /\ orphans' = orphans \cup Orphaned(h)
    /\ ws' = [ws EXCEPT ![h] = "open"]
    /\ UNCHANGED <<target, opens, rd, renamed>>

\* zip_source_write: fwrite takes the piece, into its buffer at least.
Write(h, piece) ==
    /\ ws[h] = "open"
    /\ fout[h] # NoInode
    /\ file' = [file EXCEPT ![fout[h]] = @ \cup {piece}]
    /\ UNCHANGED <<target, torn, exec, ws, opens, rd, fout, tmp, renamed,
                   orphans>>

\* zip_source_commit_write up to the rename.  The source is closed for
\* reading, the temporary file is closed and renamed.  If fclose fails to
\* write out its buffer, the error is noted and the rename happens anyway.
CommitRename(h, flushed) ==
    /\ ws[h] = "open"
    /\ opens[h] <= 1
    /\ ~renamed[h]
    /\ Closing(h)
    /\ fout' = [fout EXCEPT ![h] = NoInode]
    /\ torn' = IF flushed THEN torn ELSE torn \cup {fout[h]}
    /\ target' = tmp[h]
    /\ tmp' = [tmp EXCEPT ![h] = NoInode]
    /\ renamed' = [renamed EXCEPT ![h] = TRUE]
    /\ UNCHANGED <<file, exec, ws, orphans>>

\* A slip in CommitChmod: the mode libzip would set, without ALLVM's change.
CommitChmodPlain(h) ==
    /\ renamed[h]
    /\ renamed' = [renamed EXCEPT ![h] = FALSE]
    /\ ws' = [ws EXCEPT ![h] = "closed"]
    /\ UNCHANGED <<target, file, torn, exec, opens, rd, fout, tmp, orphans>>

\* The rest of it: chmod of whatever fname names now, and the write is over.
CommitChmod(h) ==
    /\ renamed[h]
    /\ exec' = exec \cup ({target} \ {NoInode})
    /\ renamed' = [renamed EXCEPT ![h] = FALSE]
    /\ ws' = [ws EXCEPT ![h] = "closed"]
    /\ UNCHANGED <<target, file, torn, opens, rd, fout, tmp, orphans>>

\* The rename fails: the temporary file is closed and keeps its name.
CommitFails(h) ==
    /\ ws[h] = "open"
    /\ opens[h] <= 1
    /\ ~renamed[h]
    /\ Closing(h)
    /\ fout' = [fout EXCEPT ![h] = NoInode]
    /\ ws' = [ws EXCEPT ![h] = "failed"]
    /\ UNCHANGED <<target, file, torn, exec, tmp, renamed, orphans>>

\* What zip_source_rollback_write does: close and remove the temporary file.
RollingBack(h) ==
    /\ fout' = [fout EXCEPT ![h] = NoInode]
    /\ tmp' = [tmp EXCEPT ![h] = NoInode]

\* A slip in RollbackWrite: a source whose commit failed is left alone.
RollbackWriteForgets(h) ==
    /\ ws[h] \in {"open", "failed"}
    /\ fout' = [fout EXCEPT ![h] = NoInode]
    /\ ws' = [ws EXCEPT ![h] = "closed"]
    /\ UNCHANGED <<target, file, torn, exec, opens, rd, tmp, renamed, orphans>>

RollbackWrite(h) ==
    /\ ws[h] \in {"open", "failed"}
    /\ RollingBack(h)
    /\ ws' = [ws EXCEPT ![h] = "closed"]
    /\ UNCHANGED <<target, file, torn, exec, opens, rd, renamed, orphans>>

\* zip_source_remove: ends reading and writing, then removes fname; if there
\* is nothing to remove it fails, but has closed and rolled back all the same.
RemoveSource(h) ==
    /\ ws[h] # "removed"
    /\ Closing(h)
    /\ IF ws[h] \in {"open", "failed"} THEN RollingBack(h)
                                       ELSE UNCHANGED <<fout, tmp>>
    /\ target' = NoInode
    /\ ws' = [ws EXCEPT ![h] = IF target = NoInode THEN "closed" ELSE "removed"]
    /\ UNCHANGED <<file, torn, exec, renamed, orphans>>

\* zip_source_free: a write in progress is rolled back, a failed one is not.
FreeSource(h) ==
    /\ opens' = [opens EXCEPT ![h] = 0]
    /\ rd' = [rd EXCEPT ![h] = NoInode]
    /\ fout' = [fout EXCEPT ![h] = NoInode]
    /\ tmp' = [tmp EXCEPT ![h] = NoInode]
    /\ orphans' = IF ws[h] = "failed" THEN orphans \cup Orphaned(h) ELSE orphans
    /\ ws' = [ws EXCEPT ![h] = "closed"]
    /\ UNCHANGED <<target, file, torn, exec, renamed>>

-----------------------------------------------------------------------------
(* A handle used in any order the interface allows.                        *)

\* zip_source_free ends a handle; it is called between two commits only.
Call(h) ==
    \/ renamed[h] /\ CommitChmod(h)
    \/ /\ ~renamed[h]
       /\ \/ opens[h] < MaxOpens /\ SourceOpen(h)
          \/ SourceClose(h)
          \/ BeginWrite(h)
          \/ \E piece \in Pieces : Write(h, piece)
          \/ \E flushed \in BOOLEAN : CommitRename(h, flushed)
          \/ CommitFails(h)
          \/ RollbackWrite(h)
          \/ RemoveSource(h)
          \/ FreeSource(h)

SourceNext == \E h \in Handles : Call(h)

\* The interface on its own starts from any file at fname, or none.
AnyFileInit ==
    /\ SourceInit
    /\ target \in Inodes \cup {NoInode}
    /\ file = [i \in Inodes |-> {}]

SourceSpec == AnyFileInit /\ [][SourceNext]_sourceVars

-----------------------------------------------------------------------------
(* Properties.                                                             *)

\* A source that is being written, or whose commit failed, has the name of
\* its temporary file: zip_source_rollback_write has something to remove, and
\* ctx->fout is open exactly while data may be written.
RollbackHasTemp ==
    \A h \in Handles : ~renamed[h] =>
        /\ tmp[h] # NoInode <=> ws[h] \in {"open", "failed"}
        /\ fout[h] # NoInode <=> ws[h] = "open"

\* A source counts as open for reading exactly while ctx->f is open, through
\* every close that commit, remove and free do on their own.
ReadersHaveFile ==
    \A h \in Handles : opens[h] > 0 <=> rd[h] # NoInode

\* No file that somebody may still write to, and no temporary file, is ever
\* visible as fname: the rename comes after the fclose.
PublishedIsClosed ==
    \A h \in Handles : target # NoInode => target \notin {fout[h], tmp[h]}

-----------------------------------------------------------------------------
(* The inductive invariant behind these.                                   *)

\* Only tmpname's file is open for writing, and a commit is at its chmod with
\* neither.
OutputIsTemp ==
    \A h \in Handles :
        /\ fout[h] \in {NoInode, tmp[h]}
        /\ renamed[h] => tmp[h] = NoInode /\ ws[h] = "open"

\* mkstemp's names are new: a temporary file belongs to one handle, nobody
\* reads it, and one that has been lost is never published.
TempsApart ==
    /\ \A h \in Handles : tmp[h] # NoInode =>
        /\ tmp[h] \notin orphans
        /\ \A g \in Handles : tmp[g] = tmp[h] => g = h
        /\ \A g \in Handles : rd[g] # tmp[h]
    /\ target \notin orphans

\* What holds of the sources on one file name between any two calls, and
\* every zip_source_* call preserves.
SourceInv ==
    /\ SourceTypeOK
    /\ RollbackHasTemp
    /\ ReadersHaveFile
    /\ PublishedIsClosed
    /\ OutputIsTemp
    /\ TempsApart
=============================================================================
