---------------------------- MODULE AllexeOutput ----------------------------
(***************************************************************************)
(* The tools that write an allexe (bc2allvm, alltogether, allmux, allopt,  *)
(* wllvm-extract) and alley, which reads one, all on the same file name:   *)
(* Allexe::open, ZipArchive and libzip's zip_open and zip_close on top of  *)
(* the file source of ZipSource.  Each process has one handle of its own,  *)
(* runs once, and may be killed at any point.                              *)
(*                                                                         *)
(* An archive is the set of its pieces, each marked with who wrote it: the *)
(* "#!" prefix, the modules, and the central directory that comes last.    *)
(* The archive is written by the destructor of ZipArchive, which ignores   *)
(* the result of zip_close.                                                *)
(***************************************************************************)
EXTENDS ZipSource, FiniteSets

CONSTANTS
    Orig,          \* who wrote what was there before
    Tools,         \* the tools that run
    FlushFaults    \* whether fclose may fail to write out its buffer

ASSUME OrigAssumption == Orig \notin Handles
ASSUME HandlesAssumption == IsFiniteSet(Handles)
ASSUME FlushFaultsAssumption == FlushFaults \in BOOLEAN

VARIABLES
    pc,        \* where each process is
    job,       \* its tool and whether it was given -f
    seen,      \* what its stat in _zip_source_file_or_p found
    listed,    \* the modules the archive it opened has
    mods,      \* the modules it has added, or read
    err,       \* the processes whose tool has met an error of its own
    committed, \* history: the file each process has renamed into place
    leaky      \* history: the processes that returned with a temporary file

outputVars == <<pc, job, seen, listed, mods, err, committed, leaky>>
vars == <<sourceVars, outputVars>>

Over == {"succeeded", "failed", "killed"}
Running == {"start", "stat", "zip_open", "adding", "reading", "close", "prefix",
            "entries", "commit", "chmod", "rollback"}

Jobs == [tool : Tools, force : BOOLEAN]

ModuleKinds == {"main", "lib"}
Kinds == ModuleKinds \cup {"prefix", "cdir", "other"}
ASSUME PiecesAssumption == Pieces = Kinds \X (Handles \cup {Orig})

ModulesIn(S) == {x \in S : x[1] \in ModuleKinds}

\* What libzip can open: a file whose central directory is there.
Listable(i) == i \notin torn /\ \E x \in file[i] : x[1] = "cdir"

\* The contents that may be there at the start: an allexe, an empty file,
\* or something that is not an archive.
OrigContents == {{<<"prefix", Orig>>, <<"main", Orig>>, <<"lib", Orig>>,
                  <<"cdir", Orig>>},
                 {},
                 {<<"other", Orig>>}}

\* Type correctness of the tools' state on top of their zip sources.
OutputTypeOK ==
    /\ SourceTypeOK
    /\ pc \in [Handles -> Over \cup Running]
    /\ job \in [Handles -> Jobs]
    /\ seen \in [Handles -> {"absent", "empty", "file"}]
    /\ listed \in [Handles -> SUBSET Pieces]
    /\ mods \in [Handles -> SUBSET Pieces]
    /\ err \in SUBSET Handles
    /\ committed \in [Handles -> Inodes \cup {NoInode}]
    /\ leaky \in SUBSET Handles

OutputInit ==
    /\ SourceInit
    /\ target \in Inodes \cup {NoInode}
    /\ \E c \in OrigContents :
          file = [i \in Inodes |-> IF i = target THEN c ELSE {}]
    /\ pc = [p \in Handles |-> "start"]
    /\ job \in [Handles -> Jobs]
    /\ seen = [p \in Handles |-> "absent"]
    /\ listed = [p \in Handles |-> {}]
    /\ mods = [p \in Handles |-> {}]
    /\ err = {}
    /\ committed = [p \in Handles |-> NoInode]
    /\ leaky = {}

-----------------------------------------------------------------------------
(* Helpers.                                                                *)

Goto(p, from, to) ==
    /\ pc[p] = from
    /\ pc' = [pc EXCEPT ![p] = to]

\* The process is over with the exit status of its tool: the destructor has
\* no way to report what zip_close returned.
Exit(p) == pc' = [pc EXCEPT ![p] = IF p \in err THEN "failed" ELSE "succeeded"]

\* The process ends without freeing its source: the system closes its
\* descriptors, and its temporary file stays.
Abandon(p) ==
    /\ opens' = [opens EXCEPT ![p] = 0]
    /\ rd' = [rd EXCEPT ![p] = NoInode]
    /\ fout' = [fout EXCEPT ![p] = NoInode]
    /\ tmp' = [tmp EXCEPT ![p] = NoInode]
    /\ ws' = [ws EXCEPT ![p] = "closed"]
    /\ renamed' = [renamed EXCEPT ![p] = FALSE]
    /\ orphans' = orphans \cup Orphaned(p)
    /\ UNCHANGED <<target, file, torn, exec>>

-----------------------------------------------------------------------------
(* Opening the output.                                                     *)

\* Only bc2allvm looks for itself whether the output is there.
CheckExists(p) ==
    /\ Goto(p, "start",
            IF job[p].tool = "bc2allvm" /\ target # NoInode /\ ~job[p].force
            THEN "failed" ELSE "stat")
    /\ UNCHANGED <<sourceVars, job, seen, listed, mods, err, committed, leaky>>

\* zip_source_file_create: the size found here is used from now on.
Stat(p) ==
    /\ Goto(p, "stat", "zip_open")
    /\ seen' = [seen EXCEPT ![p] = IF target = NoInode THEN "absent"
                                   ELSE IF file[target] = {} THEN "empty"
                                   ELSE "file"]
    /\ UNCHANGED <<sourceVars, job, listed, mods, err, committed, leaky>>

Reader(p) == job[p].tool = "alley"

\* zip_open_from_source, with nothing to open: a new archive.  alley asks
\* for the archive to be created too, and then finds no module in it.
ZipOpenNew(p) ==
    /\ seen[p] = "absent"
    /\ Goto(p, "zip_open", IF Reader(p) THEN "failed" ELSE "adding")
    /\ UNCHANGED <<sourceVars, job, seen, listed, mods, err, committed, leaky>>

\* A slip in ZipOpenFile: ZIP_TRUNCATE is always passed.
ZipOpenFileTruncates(p) ==
    /\ seen[p] # "absent"
    /\ target # NoInode
    /\ Goto(p, "zip_open", IF ~Reader(p) THEN "adding" ELSE "close")
    /\ SourceOpen(p)
    /\ UNCHANGED <<job, seen, listed, mods, err, committed, leaky>>

\* With a file to open: ZIP_TRUNCATE and a size of 0 make a new archive of
\* it; otherwise its central directory is read.
ZipOpenFile(p) ==
    LET fresh == (job[p].force /\ ~Reader(p)) \/ seen[p] = "empty"
        found == IF fresh THEN {} ELSE ModulesIn(file[target])
    IN  /\ seen[p] # "absent"
        /\ target # NoInode
        /\ Goto(p, "zip_open", IF ~Reader(p) THEN "adding"
                               ELSE IF found = {} THEN "close" ELSE "reading")
        /\ fresh \/ Listable(target)
        /\ SourceOpen(p)
        /\ listed' = [listed EXCEPT ![p] = found]
        /\ err' = IF Reader(p) /\ found = {} THEN err \cup {p} ELSE err
        /\ UNCHANGED <<job, seen, mods, committed, leaky>>

\* The file has gone since, or it is no archive, or it is not the file whose
\* size was found and the seek from its end fails.
ZipOpenFails(p) ==
    /\ seen[p] # "absent"
    /\ Goto(p, "zip_open", "failed")
    /\ UNCHANGED <<sourceVars, job, seen, listed, mods, err, committed, leaky>>

-----------------------------------------------------------------------------
(* Adding modules, in memory.                                              *)

\* On an error, wllvm-extract returns and the destructor runs; the others
\* call exit.
ToolFails(p) ==
    /\ err' = err \cup {p}
    /\ IF job[p].tool = "wllvm-extract"
       THEN Goto(p, "adding", "close") /\ UNCHANGED sourceVars
       ELSE Goto(p, "adding", "failed") /\ Abandon(p)

\* A slip in InputError: every tool returns, and the destructor runs.
InputErrorReturns(p) ==
    /\ mods[p] = {} \/ job[p].tool \in {"bc2allvm", "allmux"}
    /\ err' = err \cup {p}
    /\ Goto(p, "adding", "close")
    /\ UNCHANGED <<sourceVars, job, seen, listed, mods, committed, leaky>>

\* The input cannot be read, linked or parsed, or two modules of it have one
\* name.  Only bc2allvm and allmux have more to read after the first.
InputError(p) ==
    /\ mods[p] = {} \/ job[p].tool \in {"bc2allvm", "allmux"}
    /\ ToolFails(p)
    /\ UNCHANGED <<job, seen, listed, mods, committed, leaky>>

\* addModule under the name main.bc: zip_file_add refuses a second one.
AddMain(p) ==
    /\ mods[p] = {}
    /\ IF listed[p] = {}
       THEN /\ pc[p] = "adding"
            /\ mods' = [mods EXCEPT ![p] = {<<"main", p>>}]
            /\ UNCHANGED <<sourceVars, pc, err>>
       ELSE ToolFails(p) /\ mods' = mods
    /\ UNCHANGED <<job, seen, listed, committed, leaky>>

\* bc2allvm and allmux add further modules.
AddLib(p) ==
    /\ pc[p] = "adding"
    /\ job[p].tool \in {"bc2allvm", "allmux"}
    /\ mods[p] = {<<"main", p>>}
    /\ mods' = [mods EXCEPT ![p] = @ \cup {<<"lib", p>>}]
    /\ UNCHANGED <<sourceVars, pc, job, seen, listed, err, committed, leaky>>

\* The Allexe goes out of scope.
Finish(p) ==
    /\ mods[p] # {}
    /\ Goto(p, "adding", "close")
    /\ UNCHANGED <<sourceVars, job, seen, listed, mods, err, committed, leaky>>

\* A slip in ReadModule: the archive is opened by its name again.
ReadModuleByName(p) ==
    /\ pc[p] = "reading"
    /\ target # NoInode
    /\ \E m \in ModulesIn(file[target]) \ mods[p] :
          mods' = [mods EXCEPT ![p] = @ \cup {m}]
    /\ listed' = [listed EXCEPT ![p] = ModulesIn(file[target]) \cup mods[p]]
    /\ UNCHANGED <<sourceVars, pc, job, seen, err, committed, leaky>>

\* alley reads a module through the descriptor it opened the archive with.
ReadModule(p) ==
    /\ pc[p] = "reading"
    /\ \E m \in listed[p] \ mods[p] :
          /\ m \in file[rd[p]]
          /\ mods' = [mods EXCEPT ![p] = @ \cup {m}]
    /\ UNCHANGED <<sourceVars, pc, job, seen, listed, err, committed, leaky>>

\* It has them all, and the program runs.
ReadAll(p) ==
    /\ mods[p] = listed[p]
    /\ Goto(p, "reading", "close")
    /\ UNCHANGED <<sourceVars, job, seen, listed, mods, err, committed, leaky>>

-----------------------------------------------------------------------------
(* zip_close, from the destructor of ZipArchive.                           *)

\* What alley read is no change; neither is the prefix, which
\* Allexe::open sets on every archive.
Changed(p) == ~Reader(p) /\ mods[p] # {}

Survivors(p) == listed[p] \cup mods[p]

\* Nothing has changed: zip_discard.
CloseUnchanged(p) ==
    /\ pc[p] = "close"
    /\ ~Changed(p)
    /\ Survivors(p) = {} => ~job[p].force \/ Reader(p)
    /\ FreeSource(p)
    /\ Exit(p)
    /\ UNCHANGED <<job, seen, listed, mods, err, committed, leaky>>

\* An archive that was to be truncated and has no entry is removed.
CloseEmpty(p) ==
    /\ pc[p] = "close"
    /\ Survivors(p) = {}
    /\ job[p].force /\ ~Reader(p)
    /\ RemoveSource(p)
    /\ Exit(p)
    /\ UNCHANGED <<job, seen, listed, mods, err, committed, leaky>>

CloseBegins(p) ==
    /\ Changed(p)
    /\ BeginWrite(p)
    /\ Goto(p, "close", "prefix")
    /\ UNCHANGED <<job, seen, listed, mods, err, committed, leaky>>

\* No temporary file can be made: zip_close returns -1, to nobody.
BeginFails(p) ==
    /\ pc[p] = "close"
    /\ Changed(p)
    /\ Abandon(p)
    /\ Exit(p)
    /\ UNCHANGED <<job, seen, listed, mods, err, committed, leaky>>

WritePrefix(p) ==
    /\ Write(p, <<"prefix", p>>)
    /\ Goto(p, "prefix", "entries")
    /\ UNCHANGED <<job, seen, listed, mods, err, committed, leaky>>

\* If that fails zip_close returns -1 at once, without a rollback.
PrefixFails(p) ==
    /\ pc[p] = "prefix"
    /\ Abandon(p)
    /\ Exit(p)
    /\ leaky' = leaky \cup {p}
    /\ UNCHANGED <<job, seen, listed, mods, err, committed>>

\* add_data writes each module's local header and data, in turn.
WriteEntry(p) ==
    /\ pc[p] = "entries"
    /\ \E m \in Survivors(p) \ file[fout[p]] : Write(p, m)
    /\ UNCHANGED outputVars

\* A slip in WriteCdir: the directory is written although entries failed.
WriteCdirEarly(p) ==
    /\ Goto(p, "entries", "commit")
    /\ Write(p, <<"cdir", p>>)
    /\ UNCHANGED <<job, seen, listed, mods, err, committed, leaky>>

\* write_cdir, when all are written.
WriteCdir(p) ==
    /\ Goto(p, "entries", "commit")
    /\ Survivors(p) \subseteq file[fout[p]]
    /\ Write(p, <<"cdir", p>>)
    /\ UNCHANGED <<job, seen, listed, mods, err, committed, leaky>>

\* A slip in WriteFails: zip_close returns without the rollback.
WriteFailsReturns(p) ==
    /\ pc[p] = "entries"
    /\ Abandon(p)
    /\ Exit(p)
    /\ UNCHANGED <<job, seen, listed, mods, err, committed, leaky>>

\* Writing an entry or the directory fails: zip_source_rollback_write.
WriteFails(p) ==
    /\ RollbackWrite(p)
    /\ pc[p] = "entries"
    /\ Exit(p)
    /\ UNCHANGED <<job, seen, listed, mods, err, committed, leaky>>

Commit(p) ==
    /\ \E flushed \in {TRUE, ~FlushFaults} : CommitRename(p, flushed)
    /\ Goto(p, "commit", "chmod")
    /\ committed' = [committed EXCEPT ![p] = target']
    /\ UNCHANGED <<job, seen, listed, mods, err, leaky>>

\* The rename fails; the rollback is the next step.
RenameFails(p) ==
    /\ CommitFails(p)
    /\ Goto(p, "commit", "rollback")
    /\ UNCHANGED <<job, seen, listed, mods, err, committed, leaky>>

Rollback(p) ==
    /\ pc[p] = "rollback"
    /\ RollbackWrite(p)
    /\ Exit(p)
    /\ UNCHANGED <<job, seen, listed, mods, err, committed, leaky>>

\* The chmod, and zip_discard.
Chmod(p) ==
    /\ pc[p] = "chmod"
    /\ CommitChmod(p)
    /\ Exit(p)
    /\ UNCHANGED <<job, seen, listed, mods, err, committed, leaky>>

-----------------------------------------------------------------------------

Kill(p) ==
    /\ pc[p] \in Running
    /\ Abandon(p)
    /\ pc' = [pc EXCEPT ![p] = "killed"]
    /\ UNCHANGED <<job, seen, listed, mods, err, committed, leaky>>

Step(p) ==
    \/ CheckExists(p) \/ Stat(p)
    \/ ZipOpenNew(p) \/ ZipOpenFile(p) \/ ZipOpenFails(p)
    \/ InputError(p) \/ AddMain(p) \/ AddLib(p) \/ Finish(p)
    \/ ReadModule(p) \/ ReadAll(p)
    \/ CloseUnchanged(p) \/ CloseEmpty(p) \/ CloseBegins(p) \/ BeginFails(p)
    \/ WritePrefix(p) \/ PrefixFails(p) \/ WriteEntry(p) \/ WriteCdir(p)
    \/ WriteFails(p) \/ Commit(p) \/ RenameFails(p) \/ Rollback(p) \/ Chmod(p)
    \/ Kill(p)

OutputNext == \E p \in Handles : Step(p)

Spec == OutputInit /\ [][OutputNext]_vars

-----------------------------------------------------------------------------
(* Properties.                                                             *)

\* What somebody who looks at the output finds there.
Absent == {<<"absent", Orig>>}

Visible ==
    IF target = NoInode THEN Absent
    ELSE file[target] \cup (IF target \in torn THEN {<<"torn", Orig>>} ELSE {})

\* An archive with nothing missing, except what fclose failed to write.
Archive(w, kinds) == {<<k, w>> : k \in kinds \cup {"prefix", "main", "cdir"}}

Outcomes(S) == {S} \cup (IF FlushFaults THEN {S \cup {<<"torn", Orig>>}} ELSE {})

Replacing == {p \in Handles : committed[p] # NoInode}

Truncating == {p \in Handles : job[p].force /\ ~Reader(p)}

Output == INSTANCE AtomicOutput WITH
    Writers <- Handles,
    Archives <- [w \in Handles |-> Outcomes(Archive(w, {}))
                                  \cup Outcomes(Archive(w, {"lib"}))],
    Initial <- OrigContents,
    out <- Visible,
    replaced <- Replacing,
    truncating <- Truncating

\* The tools implement AtomicOutput: whichever of them run at once, and
\* wherever they fail or are killed, the file at fname is never a part of an
\* archive nor a mixture of two.  The one exception is an archive whose
\* fclose failed to write out the last of its buffer, which
\* ZIP_SOURCE_COMMIT_WRITE renames into place all the same.
OutputAtomic == Output!Spec

\* Every temporary file that stays behind is there because a process of its
\* own was killed, or failed to write the prefix; every other error path of
\* zip_close, and exit in the tools, leaves none.
TempsAccounted ==
    Cardinality(orphans)
        <= Cardinality({p \in Handles : pc[p] = "killed"} \cup leaky)

\* A file with something in it that was there before is replaced or removed
\* by a tool that was given -f only, whatever the others did in between.
ForcelessKeepsOriginal ==
    [][target # NoInode /\ (\E k \in Kinds : <<k, Orig>> \in file[target])
            /\ target' # target
        => \E p \in Truncating : pc'[p] # pc[p]]_vars

\* Only wllvm-extract takes the output away without a new one in its place:
\* it returns where the other tools exit, and the destructor then closes an
\* archive that was opened with ZIP_TRUNCATE and has no entry.
OnlyExtractRemoves ==
    [][target # NoInode /\ target' = NoInode
        => \E p \in Truncating \cap err' :
              job[p].tool = "wllvm-extract" /\ pc'[p] = "failed"]_vars

\* alley gets all the modules of one archive, although that archive may be
\* replaced or removed between two reads.
ReaderSnapshot ==
    \A p \in Handles : Reader(p) /\ pc[p] = "succeeded" =>
        /\ <<"main", Orig>> \in mods[p] => mods[p] = {<<"main", Orig>>, <<"lib", Orig>>}
        /\ \E w \in Handles \cup {Orig} : <<"main", w>> \in mods[p]
                                         /\ mods[p] \subseteq ModuleKinds \X {w}

\* When nobody is between the rename and the chmod of a commit, and nobody
\* was killed there, an archive that a tool wrote is executable, even if its
\* writer's chmod hit the file of another.
OutputExecutable ==
    (\A p \in Handles : pc[p] \notin {"chmod", "killed"})
        /\ (\E p \in Handles : committed[p] = target /\ target # NoInode)
    => target \in exec

\* "If the archive was changed, this writes those changes now": a tool that
\* changed the archive and succeeded has written all of it.
SuccessMeansWritten ==
    \A p \in Handles : pc[p] = "succeeded" /\ Changed(p) =>
        committed[p] # NoInode /\ committed[p] \notin torn

\* "Reject file path if `-f` is not specified": bc2allvm replaces no file
\* that is there.
RejectsExisting ==
    [][\A p \in Handles :
         job[p].tool = "bc2allvm" /\ ~job[p].force /\ committed'[p] # committed[p]
         => target = NoInode]_vars

-----------------------------------------------------------------------------
(* The inductive invariant behind these.                                   *)

\* Where a process is says what state its source is in; nothing is committed,
\* and no temporary file lost, before the place where that happens.
Places ==
    \A p \in Handles :
        /\ pc[p] \in {"start", "stat", "zip_open", "adding", "reading", "close"}
              => ws[p] = "closed"
        /\ pc[p] \in {"start", "stat", "zip_open"}
              => opens[p] = 0 /\ mods[p] = {} /\ listed[p] = {}
        /\ pc[p] \in {"prefix", "entries", "commit"} => ws[p] = "open"
        /\ pc[p] = "rollback" => ws[p] = "failed"
        /\ pc[p] = "chmod" <=> renamed[p]
        /\ pc[p] \in Over => ws[p] \in {"closed", "removed"}
        /\ committed[p] # NoInode => pc[p] \in {"chmod"} \cup Over
        /\ p \in leaky => pc[p] \in Over
        /\ IF Reader(p) THEN pc[p] \notin {"adding", "prefix", "entries", "commit", "rollback",
                                           "chmod"}
                        ELSE pc[p] # "reading"

\* The modules of one archive: its writer's main module, and perhaps more.
ModuleSets(w) == {{<<"main", w>>}, {<<"main", w>>, <<"lib", w>>}}

WholeArchives(w) == {Archive(w, {}), Archive(w, {"lib"})}

\* A tool adds modules of its own only, to an archive that it found empty,
\* and its temporary file holds what it has written of that archive.
OwnArchives ==
    \A p \in Handles : ~Reader(p) =>
        /\ mods[p] \in {{}} \cup ModuleSets(p)
        /\ mods[p] # {} => listed[p] = {}
        /\ pc[p] \in {"prefix", "entries", "commit"} => mods[p] # {}
        /\ pc[p] = "prefix" => file[tmp[p]] = {}
        /\ pc[p] = "entries" => /\ <<"prefix", p>> \in file[tmp[p]]
                                /\ file[tmp[p]] \subseteq {<<"prefix", p>>} \cup mods[p]
        /\ pc[p] = "commit" => file[tmp[p]] = {<<"prefix", p>>, <<"cdir", p>>} \cup mods[p]

\* The output is what was there at first, or all that a tool wrote but for
\* what fclose lost.
PublishedWhole ==
    /\ target # NoInode => file[target] \in OrigContents \cup UNION {WholeArchives(w) : w \in Handles}
    /\ torn # {} => FlushFaults

\* alley reads the archive whose modules it listed, which no tool changes
\* any more, and is done with it only when it has them all.
Snapshots ==
    \A p \in Handles : Reader(p) =>
        /\ listed[p] \in {{}, {<<"main", Orig>>, <<"lib", Orig>>}}
                            \cup UNION {ModuleSets(w) : w \in Handles}
        /\ pc[p] = "reading" => /\ rd[p] # NoInode /\ listed[p] # {}
                                /\ listed[p] = ModulesIn(file[rd[p]])
        /\ pc[p] \in {"close", "succeeded"} => p \in err \/ (mods[p] = listed[p] /\ mods[p] # {})
        /\ pc[p] = "succeeded" => p \notin err

\* An archive in place that is not executable yet has its writer, or somebody
\* who was killed, to wait for.
ChmodPending ==
    (\E p \in Handles : committed[p] = target /\ target # NoInode)
    => target \in exec \/ \E p \in Handles : pc[p] \in {"chmod", "killed"}

\* Only wllvm-extract gets to zip_close without a module, after an error.
EmptyOnError ==
    \A p \in Handles : pc[p] = "close" /\ ~Reader(p) /\ mods[p] = {} =>
        p \in err /\ job[p].tool = "wllvm-extract"

\* As long as the file that was there before is still there, every stat has
\* found it, ...
OrigSeen ==
    target # NoInode /\ (\E k \in Kinds : <<k, Orig>> \in file[target]) =>
        \A p \in Handles : pc[p] \in Running \ {"start", "stat"} => seen[p] = "file"

\* ... and a tool without -f that found a file lists its modules.
ListedUnlessForced ==
    \A p \in Handles :
        pc[p] \in Running \ {"start", "stat", "zip_open"} /\ seen[p] = "file"
            /\ ~job[p].force /\ ~Reader(p)
        => listed[p] # {}

\* The temporary files left behind are as many as TempsAccounted allows.
OrphansCounted == IsFiniteSet(orphans) /\ TempsAccounted

\* What holds in every state of the tools, and every step of theirs preserves.
OutputInv ==
    /\ OutputTypeOK
    /\ SourceInv
    /\ Places
    /\ OwnArchives
    /\ PublishedWhole
    /\ Snapshots
    /\ ChmodPending
    /\ EmptyOnError
    /\ OrigSeen
    /\ ListedUnlessForced
    /\ OrphansCounted
=============================================================================
