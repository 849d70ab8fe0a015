------------------------- MODULE StaticBinaryCache -------------------------
(***************************************************************************)
(* The cache of statically compiled allexes and the programs that share    *)
(* it: any number of concurrent alley and allready processes that run the  *)
(* same single-module allexe look for its native binary under one name,    *)
(* CacheName, and fill the cache when it is missing.                       *)
(*                                                                         *)
(* Nothing synchronises the processes but the file system, so it is part   *)
(* of the state: two directory entries (CacheName and CacheName + ".tmp"), *)
(* the inodes they name, and the descriptors the processes hold.  A file's *)
(* content is the set of blocks of the binary present in it.  Two keys     *)
(* have two pairs of entries and never interact, so one key is modelled.   *)
(*                                                                         *)
(* The order of system calls is that of AOTCompileIfNeeded,                *)
(* notifyObjectCompiled, getObjectFileDesc and tryStaticExec.  A crash or  *)
(* an I/O error may strike a process at any point, MaxFaults times.        *)
(***************************************************************************)
EXTENDS Naturals, FiniteSets

CONSTANTS
    Procs,       \* the processes: invocations of alley and allready
    Inodes,      \* the inodes of the cache directory's file system
    NoInode,     \* a directory entry or descriptor that is absent
    NumBlocks,   \* the number of blocks copy_file copies
    MaxFaults    \* bound on the crashes and I/O errors of a behaviour

ASSUME NoInodeAssumption == NoInode \notin Inodes
ASSUME NumBlocksAssumption == NumBlocks \in Nat \ {0}
ASSUME MaxFaultsAssumption == MaxFaults \in Nat

VARIABLES
    pc,        \* where each process is
    tool,      \* what each process was invoked as
    tmpEnt,    \* the inode named CacheName + ".tmp"
    cacheEnt,  \* the inode named CacheName
    data,      \* the blocks present in each inode
    mode,      \* each inode's permissions: "rw" as created, "rx" after chmod
    wfd,       \* the inode copy_file has open for writing
    off,       \* how many blocks copy_file has written through wfd
    fd,        \* the inode of the descriptor given to fexecve
    temps,     \* the temporary files of each process that exist
    ran,       \* the blocks of the image a process has executed
    overlap,   \* history: two fills have been under way at the same time
    faults     \* history: crashes and I/O errors so far

vars == <<pc, tool, tmpEnt, cacheEnt, data, mode, wfd, off, fd, temps, ran,
          overlap, faults>>

Blocks == 1..NumBlocks

Tools == {"alley", "alley -force-static", "alley -noexec", "allready"}

\* The states a process can be in when it is over ("start": not yet begun).
Over == {"start", "executed", "jit", "noexec", "cached", "refused",
         "compile failed", "copy failed", "chmod failed", "rename failed",
         "exec failed", "assertion failed", "killed"}

\* The part of notifyObjectCompiled that works on the shared .tmp file.
Filling == {"write", "chmod", "rename"}

Running == {"aot", "codegen", "link", "open", "retrieve", "static", "fexecve"}
              \cup Filling

\* Type correctness of the cache's two names, the inodes, and each process's
\* place in the code, descriptors and temporary files.
TypeOK ==
    /\ pc \in [Procs -> Over \cup Running]
    /\ tool \in [Procs -> Tools]
    /\ tmpEnt \in Inodes \cup {NoInode}
    /\ cacheEnt \in Inodes \cup {NoInode}
    /\ data \in [Inodes -> SUBSET Blocks]
    /\ mode \in [Inodes -> {"rw", "rx"}]
    /\ wfd \in [Procs -> Inodes \cup {NoInode}]
    /\ off \in [Procs -> 0..NumBlocks]
    /\ fd \in [Procs -> Inodes \cup {NoInode}]
    /\ temps \in [Procs -> SUBSET {"aot", "obj"}]
    /\ ran \in [Procs -> SUBSET Blocks]
    /\ overlap \in BOOLEAN
    /\ faults \in 0..MaxFaults

Init ==
    /\ pc = [p \in Procs |-> "start"]
    /\ tool = [p \in Procs |-> "alley"]
    /\ tmpEnt = NoInode
    /\ cacheEnt = NoInode
    /\ data = [i \in Inodes |-> {}]
    /\ mode = [i \in Inodes |-> "rw"]
    /\ wfd = [p \in Procs |-> NoInode]
    /\ off = [p \in Procs |-> 0]
    /\ fd = [p \in Procs |-> NoInode]
    /\ temps = [p \in Procs |-> {}]
    /\ ran = [p \in Procs |-> {}]
    /\ overlap = FALSE
    /\ faults = 0

-----------------------------------------------------------------------------
(* Helpers.                                                                *)

files == <<tmpEnt, cacheEnt, data, mode>>

Move(p, from, to) ==
    /\ pc[p] = from
    /\ pc' = [pc EXCEPT ![p] = to]

\* An inode no directory entry and no descriptor refers to.
Unused(i) ==
    /\ i \notin {tmpEnt, cacheEnt}
    /\ \A q \in Procs : i \notin {wfd[q], fd[q]}

\* One more fault: a crash, or a system call that fails for want of space.
Fault ==
    /\ faults < MaxFaults
    /\ faults' = faults + 1

-----------------------------------------------------------------------------
(* The start of main in alley and allready.                                *)

\* A new process: a fresh one takes the place of one that is over.  With
\* more than one module, the static path refuses, and alley alone goes on
\* to the JIT without looking at this cache.
Invoke(p, t, numModules) ==
    /\ pc[p] \in Over
    /\ tool' = [tool EXCEPT ![p] = t]
    /\ pc' = [pc EXCEPT ![p] =
                IF t \in {"alley -force-static", "allready"}
                THEN IF numModules = 1 THEN "aot" ELSE "refused"
                ELSE IF numModules = 1 THEN "static" ELSE "jit"]
    /\ temps' = [temps EXCEPT ![p] = {}]
    /\ ran' = [ran EXCEPT ![p] = {}]
    /\ UNCHANGED <<files, wfd, off, fd, overlap, faults>>

-----------------------------------------------------------------------------
(* AOTCompileIfNeeded.                                                     *)

\* Where a process continues when AOTCompileIfNeeded has succeeded.
AfterAOT(p) == IF tool[p] = "allready" THEN "cached" ELSE "static"

\* The key is in the cache: nothing to do.
AOTHit(p) ==
    /\ cacheEnt # NoInode
    /\ Move(p, "aot", AfterAOT(p))
    /\ UNCHANGED <<tool, files, wfd, off, fd, temps, ran, overlap, faults>>

\* It is not: make a temporary file for the linker's output.
AOTMiss(p) ==
    /\ cacheEnt = NoInode
    /\ Move(p, "aot", "codegen")
    /\ temps' = [temps EXCEPT ![p] = {"aot"}]
    /\ UNCHANGED <<tool, files, wfd, off, fd, ran, overlap, faults>>

\* createTemporaryFile fails, and AOTCompileIfNeeded with it.
NoTempFile(p) ==
    /\ cacheEnt = NoInode
    /\ Fault
    /\ Move(p, "aot", "compile failed")
    /\ UNCHANGED <<tool, files, wfd, off, fd, temps, ran, overlap>>

\* compileAllexe writes the object file next to it and keeps it.
CodeGen(p) ==
    /\ Move(p, "codegen", "link")
    /\ temps' = [temps EXCEPT ![p] = @ \cup {"obj"}]
    /\ UNCHANGED <<tool, files, wfd, off, fd, ran, overlap, faults>>

\* A slip in CompileFails: the error return skips the remover.
CompileFailsKeepsObject(p) ==
    /\ pc[p] \in {"codegen", "link"}
    /\ pc' = [pc EXCEPT ![p] = "compile failed"]
    /\ UNCHANGED <<tool, files, wfd, off, fd, temps, ran, overlap, faults>>

\* Code generation or the linker fails: FileRemoverPlus removes the object
\* file, and AOTCompileIfNeeded returns at once.
CompileFails(p) ==
    /\ pc[p] \in {"codegen", "link"}
    /\ pc' = [pc EXCEPT ![p] = "compile failed"]
    /\ temps' = [temps EXCEPT ![p] = @ \ {"obj"}]
    /\ UNCHANGED <<tool, files, wfd, off, fd, ran, overlap, faults>>

\* The linker has written the binary; the object file goes.
Link(p) ==
    /\ Move(p, "link", "open")
    /\ temps' = [temps EXCEPT ![p] = @ \ {"obj"}]
    /\ UNCHANGED <<tool, files, wfd, off, fd, ran, overlap, faults>>

\* After notifyObjectCompiled: the temporary file is removed, the entry is
\* opened, and an assertion says that it is there.
Retrieve(p) ==
    /\ Move(p, "retrieve",
            IF cacheEnt = NoInode THEN "assertion failed" ELSE AfterAOT(p))
    /\ temps' = [temps EXCEPT ![p] = @ \ {"aot"}]
    /\ UNCHANGED <<tool, files, wfd, off, fd, ran, overlap, faults>>

-----------------------------------------------------------------------------
(* notifyObjectCompiled.  Every failure in it is exit(1).                  *)

\* A slip in OpenTmp: a stale entry is removed before the copy begins.
OpenTmpUnlinks(p) ==
    /\ Move(p, "open", "write")
    /\ \E i \in Inodes :
          /\ \/ tmpEnt = NoInode /\ Unused(i)
                /\ mode' = [mode EXCEPT ![i] = "rw"]
             \/ tmpEnt = i /\ mode[i] = "rw" /\ mode' = mode
          /\ tmpEnt' = i
          /\ data' = [data EXCEPT ![i] = {}]
          /\ wfd' = [wfd EXCEPT ![p] = i]
    /\ cacheEnt' = NoInode
    /\ off' = [off EXCEPT ![p] = 0]
    /\ overlap' = (overlap \/ \E q \in Procs : pc[q] \in Filling)
    /\ UNCHANGED <<tool, fd, temps, ran, faults>>

\* copy_file creates .tmp, or truncates the one that is there.
OpenTmp(p) ==
    /\ Move(p, "open", "write")
    /\ \E i \in Inodes :
          /\ \/ tmpEnt = NoInode /\ Unused(i)
                /\ mode' = [mode EXCEPT ![i] = "rw"]
             \/ tmpEnt = i /\ mode[i] = "rw" /\ mode' = mode
          /\ tmpEnt' = i
          /\ data' = [data EXCEPT ![i] = {}]
          /\ wfd' = [wfd EXCEPT ![p] = i]
    /\ off' = [off EXCEPT ![p] = 0]
    /\ overlap' = (overlap \/ \E q \in Procs : pc[q] \in Filling)
    /\ UNCHANGED <<tool, cacheEnt, fd, temps, ran, faults>>

\* A slip in OpenTmpDenied: the error path cleans up the .tmp of another.
OpenTmpDeniedUnlinks(p) ==
    /\ tmpEnt # NoInode
    /\ mode[tmpEnt] = "rx"
    /\ Move(p, "open", "copy failed")
    /\ tmpEnt' = NoInode
    /\ overlap' = (overlap \/ \E q \in Procs : pc[q] \in Filling)
    /\ UNCHANGED <<tool, cacheEnt, data, mode, wfd, off, fd, temps, ran, faults>>

\* The .tmp that is there is already read-only: EACCES.
OpenTmpDenied(p) ==
    /\ tmpEnt # NoInode
    /\ mode[tmpEnt] = "rx"
    /\ Move(p, "open", "copy failed")
    /\ overlap' = (overlap \/ \E q \in Procs : pc[q] \in Filling)
    /\ UNCHANGED <<tool, files, wfd, off, fd, temps, ran, faults>>

\* copy_file writes the next block through the descriptor it opened,
\* whatever name that inode has by now.
WriteBlock(p) ==
    /\ pc[p] = "write"
    /\ off[p] < NumBlocks
    /\ data' = [data EXCEPT ![wfd[p]] = @ \cup {off[p] + 1}]
    /\ off' = [off EXCEPT ![p] = @ + 1]
    /\ UNCHANGED <<pc, tool, tmpEnt, cacheEnt, mode, wfd, fd, temps, ran,
                   overlap, faults>>

\* A slip in CloseTmp: a short write ends the copy.
CloseTmpShort(p) ==
    /\ off[p] >= NumBlocks - 1
    /\ Move(p, "write", "chmod")
    /\ wfd' = [wfd EXCEPT ![p] = NoInode]
    /\ UNCHANGED <<tool, files, off, fd, temps, ran, overlap, faults>>

\* All blocks are written: copy_file closes and returns.
CloseTmp(p) ==
    /\ off[p] = NumBlocks
    /\ Move(p, "write", "chmod")
    /\ wfd' = [wfd EXCEPT ![p] = NoInode]
    /\ UNCHANGED <<tool, files, off, fd, temps, ran, overlap, faults>>

\* copy_file fails: no cache directory, or no space.  .tmp stays behind.
CopyFails(p) ==
    /\ pc[p] \in {"open", "write"}
    /\ Fault
    /\ pc' = [pc EXCEPT ![p] = "copy failed"]
    /\ wfd' = [wfd EXCEPT ![p] = NoInode]
    /\ UNCHANGED <<tool, files, off, fd, temps, ran, overlap>>

\* A slip in ChmodTmp: the permissions are left as they were created.
ChmodTmpNothing(p) ==
    /\ tmpEnt # NoInode
    /\ Move(p, "chmod", "rename")
    /\ UNCHANGED <<tool, files, wfd, off, fd, temps, ran, overlap, faults>>

\* chmod works on the name, not on the inode that was written.
ChmodTmp(p) ==
    /\ tmpEnt # NoInode
    /\ Move(p, "chmod", "rename")
    /\ mode' = [mode EXCEPT ![tmpEnt] = "rx"]
    /\ UNCHANGED <<tool, tmpEnt, cacheEnt, data, wfd, off, fd, temps, ran,
                   overlap, faults>>

ChmodFails(p) ==
    /\ tmpEnt = NoInode
    /\ Move(p, "chmod", "chmod failed")
    /\ UNCHANGED <<tool, files, wfd, off, fd, temps, ran, overlap, faults>>

\* So does rename, which publishes whatever inode .tmp names now.
RenameTmp(p) ==
    /\ tmpEnt # NoInode
    /\ Move(p, "rename", "retrieve")
    /\ cacheEnt' = tmpEnt
    /\ tmpEnt' = NoInode
    /\ UNCHANGED <<tool, data, mode, wfd, off, fd, temps, ran, overlap, faults>>

RenameFails(p) ==
    /\ tmpEnt = NoInode
    /\ Move(p, "rename", "rename failed")
    /\ UNCHANGED <<tool, files, wfd, off, fd, temps, ran, overlap, faults>>

-----------------------------------------------------------------------------
(* tryStaticExec.                                                          *)

\* A miss is not an error: the caller goes on to the JIT.
StaticMiss(p) ==
    /\ cacheEnt = NoInode
    /\ Move(p, "static", "jit")
    /\ UNCHANGED <<tool, files, wfd, off, fd, temps, ran, overlap, faults>>

\* A hit: a descriptor on the inode, taken before it is executed.
StaticHit(p) ==
    /\ cacheEnt # NoInode
    /\ IF tool[p] = "alley -noexec"
       THEN Move(p, "static", "noexec") /\ fd' = fd
       ELSE Move(p, "static", "fexecve")
              /\ fd' = [fd EXCEPT ![p] = cacheEnt]
    /\ UNCHANGED <<tool, files, wfd, off, temps, ran, overlap, faults>>

\* What the kernel requires of fexecve: the file is executable, and no
\* process has it open for writing (ETXTBSY).
MayExecute(i) ==
    /\ mode[i] = "rx"
    /\ \A q \in Procs : wfd[q] # i

Fexecve(p) ==
    /\ pc[p] = "fexecve"
    /\ IF MayExecute(fd[p])
       THEN /\ pc' = [pc EXCEPT ![p] = "executed"]
            /\ ran' = [ran EXCEPT ![p] = data[fd[p]]]
       ELSE /\ pc' = [pc EXCEPT ![p] = "exec failed"]
            /\ ran' = ran
    /\ fd' = [fd EXCEPT ![p] = NoInode]
    /\ UNCHANGED <<tool, files, wfd, off, temps, overlap, faults>>

-----------------------------------------------------------------------------
(* A process is killed: its descriptors are closed, its files remain.      *)

Crash(p) ==
    /\ pc[p] \in Running
    /\ Fault
    /\ pc' = [pc EXCEPT ![p] = "killed"]
    /\ wfd' = [wfd EXCEPT ![p] = NoInode]
    /\ fd' = [fd EXCEPT ![p] = NoInode]
    /\ UNCHANGED <<tool, files, off, temps, ran, overlap>>

-----------------------------------------------------------------------------

\* What a process does once it has been started.
Step(p) ==
    \/ AOTHit(p) \/ AOTMiss(p) \/ CodeGen(p) \/ CompileFails(p) \/ Link(p)
    \/ OpenTmp(p) \/ OpenTmpDenied(p) \/ WriteBlock(p) \/ CloseTmp(p)
    \/ ChmodTmp(p) \/ ChmodFails(p) \/ RenameTmp(p) \/ RenameFails(p)
    \/ Retrieve(p) \/ StaticMiss(p) \/ StaticHit(p) \/ Fexecve(p)

Next ==
    \E p \in Procs :
        \/ \E t \in Tools, n \in {1, 2} : Invoke(p, t, n)
        \/ Step(p)
        \/ NoTempFile(p)
        \/ CopyFails(p)
        \/ Crash(p)

Spec == Init /\ [][Next]_vars

\* Every process that is running keeps running: the code never waits.
FairSpec == Spec /\ \A p \in Procs : WF_vars(Step(p))
-----------------------------------------------------------------------------
(* Properties.                                                             *)

Whole(i) == data[i] = Blocks

\* The assertion of AOTCompileIfNeeded, "Failed to retrieve native code from
\* cache!", never fires: once a process has renamed its file into place, the
\* entry is there when it comes back for it, whatever the others do.
RetrieveSucceeds == \A p \in Procs : pc[p] # "assertion failed"

\* As long as no process has crashed and no write has failed, no process
\* ever executes an incomplete binary, although fills that overlap write
\* into the same .tmp and may publish a file another one has just truncated.
ExecutesWholeBinary ==
    faults = 0 => \A p \in Procs : pc[p] = "executed" => ran[p] = Blocks

\* As long as no two fills have been under way at the same time, what
\* CacheName names is complete and executable, wherever crashes and write
\* errors have struck: rename publishes whole files only.
LoneFillsPublishWhole ==
    ~overlap /\ cacheEnt # NoInode => Whole(cacheEnt) /\ mode[cacheEnt] = "rx"

\* Without overlap and without faults a fill never fails half-way: the
\* exit(1) paths of notifyObjectCompiled are only for races and errors.
LoneFillsSucceed ==
    ~overlap /\ faults = 0 =>
        \A p \in Procs : pc[p] \notin {"copy failed", "chmod failed",
                                       "rename failed", "exec failed"}

\* compileAndLinkAllexe leaves no object file behind on any path, error
\* returns included, unless the process is killed in it.
ObjectFileRemoved ==
    \A p \in Procs : "obj" \in temps[p] => pc[p] \in {"link", "killed"}

\* The entry of a key is never taken away again, so that a process that saw
\* a hit and looks a second time (alley -force-static looks twice) hits.
EntryStays == [][cacheEnt # NoInode => cacheEnt' # NoInode]_vars

\* When several processes fill the cache and none meets a fault, the ones
\* that lose the race exit(1), but one of them always publishes.
SomeFillPublishes ==
    (\E p \in Procs : pc[p] = "open") ~> (cacheEnt # NoInode \/ faults > 0)

\* "Copy binary code from an executable file to the cache location": when no
\* fill is under way, what the location holds is a copy that can be executed.
CacheHoldsExecutable ==
    (\A p \in Procs : pc[p] \notin Filling) /\ cacheEnt # NoInode
        => Whole(cacheEnt) /\ mode[cacheEnt] = "rx"
-----------------------------------------------------------------------------
(* The inductive invariant behind the safety properties.                   *)

\* A process holds a descriptor exactly while it uses it, and the inode .tmp
\* names is never one that is published or about to be executed.
Descriptors ==
    /\ \A p \in Procs : wfd[p] # NoInode <=> pc[p] = "write"
    /\ \A p \in Procs : fd[p] # NoInode <=> pc[p] = "fexecve"
    /\ tmpEnt # NoInode => /\ tmpEnt # cacheEnt
                           /\ \A p \in Procs : fd[p] # tmpEnt

Published == \A p \in Procs : pc[p] = "retrieve" => cacheEnt # NoInode

\* The inodes a name or a descriptor for execution refers to.
Reachable(i) == i \in {tmpEnt, cacheEnt} \/ \E q \in Procs : fd[q] = i

\* Process p has written everything up to its offset since i was truncated.
Completes(p, i) == wfd[p] = i /\ 1..off[p] \subseteq data[i]

\* A file with blocks missing has a writer that will supply them all.
TornHasWriter ==
    faults = 0 =>
        \A i \in Inodes :
            Reachable(i) => Whole(i) \/ \E p \in Procs : Completes(p, i)

\* Without overlap the one fill under way owns .tmp.
LoneFill ==
    ~overlap =>
        /\ \A p, q \in Procs : pc[p] \in Filling /\ pc[q] \in Filling => p = q
        /\ \A p \in Procs :
              /\ pc[p] \in Filling => tmpEnt # NoInode
              /\ pc[p] = "write" => Completes(p, tmpEnt)
              /\ pc[p] \in {"chmod", "rename"} => Whole(tmpEnt)
              /\ pc[p] = "rename" => mode[tmpEnt] = "rx"
              /\ pc[p] = "fexecve" => mode[fd[p]] = "rx"
        /\ faults = 0 /\ tmpEnt # NoInode => \E p \in Procs : pc[p] \in Filling

\* The inductive invariant of notifyObjectCompiled, AOTCompileIfNeeded and
\* tryStaticExec: the properties, and what is needed to prove them.
Inv ==
    /\ TypeOK
    /\ Descriptors
    /\ Published
    /\ TornHasWriter
    /\ LoneFill
    /\ RetrieveSucceeds
    /\ ExecutesWholeBinary
    /\ LoneFillsPublishWhole
    /\ LoneFillsSucceed
    /\ ObjectFileRemoved
=============================================================================
