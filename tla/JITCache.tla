------------------------------ MODULE JITCache ------------------------------
(***************************************************************************)
(* The cache of objects compiled by the JIT: alley processes that run      *)
(* allexes with doJITExec.  A process loads its modules, materialises the  *)
(* ones the cache has no object for, and later asks the cache again for    *)
(* each object; what is missing then is compiled and written straight to   *)
(* the file other processes read, without a temporary file.                *)
(*                                                                         *)
(* A module stands for its name and CRC; two modules differ in their CRC.  *)
(* An object has NumBlocks blocks, each marked with the module it is code  *)
(* of.  MCJIT, which calls getObject and notifyObjectCompiled, and         *)
(* raw_fd_ostream, which ends the program when a write has failed, are     *)
(* external and modelled from how they use the cache.                      *)
(***************************************************************************)
EXTENDS Naturals

CONSTANTS
    Procs,       \* the alley processes
    Modules,     \* the modules of the allexes they run
    Dotted,      \* the modules whose name has an extension
    Hole,        \* a block nobody has written
    NoDot,       \* what a name cut at the directory's last dot becomes
    NumBlocks,   \* the number of blocks of an object
    MaxFaults    \* bound on the crashes and I/O errors of a behaviour

ASSUME DottedAssumption == Dotted \subseteq Modules
ASSUME NamesAssumption == Hole \notin Modules /\ NoDot \notin Modules
ASSUME BlocksAssumption == NumBlocks \in Nat \ {0} /\ MaxFaults \in Nat

VARIABLES
    dirDotted, \* whether the path of the cache directory has a dot in it
    pc,        \* where each process is
    exe,       \* the modules of the allexe each process runs
    loaded,    \* the modules added to its execution engine
    mat,       \* the ones of them that have been materialised
    cached,    \* the names under which the cache has a file
    block,     \* what each block of each file holds
    cur,       \* the module a process is writing to the cache
    off,       \* how many blocks of it have been written
    got,       \* the object each process uses for each of its modules
    compiled,  \* the modules each process has compiled
    overlap,   \* history: a file was opened while another process wrote it
    faults     \* history: crashes and I/O errors so far

vars == <<dirDotted, pc, exe, loaded, mat, cached, block, cur, off, got, compiled, overlap,
          faults>>

Blocks == 1..NumBlocks
Names == Modules \cup {NoDot}
Objects == [Blocks -> Modules \cup {Hole}]
NoObject == [b \in Blocks |-> Hole]
ObjectOf(m) == [b \in Blocks |-> m]

Over == {"start", "run", "killed", "aborted"}

\* Type correctness of the object cache's files and of every process's place
\* in doJITExec.
JITTypeOK ==
    /\ dirDotted \in BOOLEAN
    /\ pc \in [Procs -> Over \cup {"load", "emit", "compile", "write"}]
    /\ exe \in [Procs -> SUBSET Modules]
    /\ loaded \in [Procs -> SUBSET Modules]
    /\ mat \in [Procs -> SUBSET Modules]
    /\ cached \in SUBSET Names
    /\ block \in [Names -> Objects]
    /\ cur \in [Procs -> Modules \cup {Hole}]
    /\ off \in [Procs -> 0..NumBlocks]
    /\ got \in [Procs -> [Modules -> Objects]]
    /\ compiled \in [Procs -> SUBSET Modules]
    /\ overlap \in BOOLEAN
    /\ faults \in 0..MaxFaults

Init ==
    /\ dirDotted \in BOOLEAN
    /\ pc = [p \in Procs |-> "start"]
    /\ exe = [p \in Procs |-> {}]
    /\ loaded = [p \in Procs |-> {}]
    /\ mat = [p \in Procs |-> {}]
    /\ cached = {}
    /\ block = [n \in Names |-> NoObject]
    /\ cur = [p \in Procs |-> Hole]
    /\ off = [p \in Procs |-> 0]
    /\ got = [p \in Procs |-> [m \in Modules |-> NoObject]]
    /\ compiled = [p \in Procs |-> {}]
    /\ overlap = FALSE
    /\ faults = 0

Fault ==
    /\ faults < MaxFaults
    /\ faults' = faults + 1

-----------------------------------------------------------------------------
(* getCacheFilename: the directory, the CRC and the module's name, with    *)
(* everything from the last dot on replaced by ".o".  If the module's name *)
(* has no dot, the last one may be in the directory, and the CRC goes too; *)
(* if that has none either, std::string::replace throws.                   *)

CacheName(m) == IF m \in Dotted THEN m ELSE NoDot

Throws(m) == m \notin Dotted /\ ~dirDotted

\* Somebody else is writing the file that module m is looked up under.
BeingWritten(m) ==
    \E q \in Procs : pc[q] = "write" /\ CacheName(cur[q]) = CacheName(m)

-----------------------------------------------------------------------------
(* doJITExec.                                                              *)

\* alley starts on an allexe with these modules.
Start(p, ms) ==
    /\ pc[p] \in Over
    /\ pc' = [pc EXCEPT ![p] = "load"]
    /\ exe' = [exe EXCEPT ![p] = ms]
    /\ loaded' = [loaded EXCEPT ![p] = {}]
    /\ mat' = [mat EXCEPT ![p] = {}]
    /\ got' = [got EXCEPT ![p] = [m \in Modules |-> NoObject]]
    /\ compiled' = [compiled EXCEPT ![p] = {}]
    /\ UNCHANGED <<dirDotted, cached, block, cur, off, overlap, faults>>

\* LoadModule and hasObjectFor: the module is materialised, and libc++abi
\* patched, only if there is no object for it.
LoadModule(p, m) ==
    /\ pc[p] = "load"
    /\ m \in exe[p] \ loaded[p]
    /\ ~Throws(m)
    /\ loaded' = [loaded EXCEPT ![p] = @ \cup {m}]
    /\ mat' = [mat EXCEPT ![p] = IF CacheName(m) \in cached THEN @ ELSE @ \cup {m}]
    /\ pc' = [pc EXCEPT ![p] = IF loaded'[p] = exe[p] THEN "emit" ELSE @]
    /\ UNCHANGED <<dirDotted, exe, cached, block, cur, off, got, compiled,
                   overlap, faults>>

NameThrows(p, m) ==
    /\ pc[p] = "load"
    /\ m \in exe[p] \ loaded[p]
    /\ Throws(m)
    /\ pc' = [pc EXCEPT ![p] = "aborted"]
    /\ UNCHANGED <<dirDotted, exe, loaded, mat, cached, block, cur, off, got,
                   compiled, overlap, faults>>

-----------------------------------------------------------------------------
(* MCJIT: one object for each module.                                      *)

Pending(p) == {m \in exe[p] : got[p][m] = NoObject /\ m \notin compiled[p]}

\* getObject finds a file and copies what is in it.  An empty one is an
\* object too, for all the cache knows: MCJIT then fails to load it.
GetObject(p, m) ==
    /\ pc[p] = "emit"
    /\ m \in Pending(p)
    /\ CacheName(m) \in cached
    /\ IF block[CacheName(m)] = NoObject
       THEN pc' = [pc EXCEPT ![p] = "aborted"] /\ got' = got
       ELSE pc' = pc /\ got' = [got EXCEPT ![p][m] = block[CacheName(m)]]
    /\ overlap' = (overlap \/ BeingWritten(m))
    /\ UNCHANGED <<dirDotted, exe, loaded, mat, cached, block, cur, off,
                   compiled, faults>>

\* It finds none, and MCJIT compiles the module.
Compile(p, m) ==
    /\ pc[p] = "emit"
    /\ m \in Pending(p)
    /\ CacheName(m) \notin cached
    /\ pc' = [pc EXCEPT ![p] = "compile"]
    /\ got' = [got EXCEPT ![p][m] = ObjectOf(m)]
    /\ compiled' = [compiled EXCEPT ![p] = @ \cup {m}]
    /\ cur' = [cur EXCEPT ![p] = m]
    /\ UNCHANGED <<dirDotted, exe, loaded, mat, cached, block, off, overlap,
                   faults>>

\* notifyObjectCompiled makes the directories and opens the file, truncating
\* what others may have put there meanwhile.
OpenObject(p) ==
    /\ pc[p] = "compile"
    /\ pc' = [pc EXCEPT ![p] = "write"]
    /\ cached' = cached \cup {CacheName(cur[p])}
    /\ block' = [block EXCEPT ![CacheName(cur[p])] = NoObject]
    /\ off' = [off EXCEPT ![p] = 0]
    /\ overlap' = (overlap \/ BeingWritten(cur[p]))
    /\ UNCHANGED <<dirDotted, exe, loaded, mat, cur, got, compiled, faults>>

\* A slip in OpenFails: the file that could not be opened is removed.
OpenFailsUnlinks(p) ==
    /\ pc[p] = "compile"
    /\ pc' = [pc EXCEPT ![p] = "emit"]
    /\ cached' = cached \ {CacheName(cur[p])}
    /\ cur' = [cur EXCEPT ![p] = Hole]
    /\ UNCHANGED <<dirDotted, exe, loaded, mat, block, off, got, compiled,
                   overlap, faults>>

\* Another: the object is thrown away with the error.
OpenFailsForgets(p) ==
    /\ pc[p] = "compile"
    /\ pc' = [pc EXCEPT ![p] = "emit"]
    /\ got' = [got EXCEPT ![p][cur[p]] = NoObject]
    /\ compiled' = [compiled EXCEPT ![p] = @ \ {cur[p]}]
    /\ cur' = [cur EXCEPT ![p] = Hole]
    /\ UNCHANGED <<dirDotted, exe, loaded, mat, cached, block, off, overlap,
                   faults>>

\* The file cannot be opened: the error is ignored.
OpenFails(p) ==
    /\ pc[p] = "compile"
    /\ pc' = [pc EXCEPT ![p] = "emit"]
    /\ cur' = [cur EXCEPT ![p] = Hole]
    /\ UNCHANGED <<dirDotted, exe, loaded, mat, cached, block, off, got,
                   compiled, overlap, faults>>

\* A slip in WriteBlock: it writes past the end of the object.
WriteBlockBeyond(p) ==
    /\ pc[p] = "write"
    /\ block' = [block EXCEPT ![CacheName(cur[p])][off[p] + 1] = cur[p]]
    /\ off' = [off EXCEPT ![p] = @ + 1]
    /\ UNCHANGED <<dirDotted, pc, exe, loaded, mat, cached, cur, got, compiled,
                   overlap, faults>>

WriteBlock(p) ==
    /\ pc[p] = "write"
    /\ off[p] < NumBlocks
    /\ block' = [block EXCEPT ![CacheName(cur[p])][off[p] + 1] = cur[p]]
    /\ off' = [off EXCEPT ![p] = @ + 1]
    /\ UNCHANGED <<dirDotted, pc, exe, loaded, mat, cached, cur, got, compiled,
                   overlap, faults>>

\* A slip in CloseObject: a short write ends the copy.
CloseObjectShort(p) ==
    /\ pc[p] = "write"
    /\ off[p] >= NumBlocks - 1
    /\ pc' = [pc EXCEPT ![p] = "emit"]
    /\ cur' = [cur EXCEPT ![p] = Hole]
    /\ UNCHANGED <<dirDotted, exe, loaded, mat, cached, block, off, got,
                   compiled, overlap, faults>>

CloseObject(p) ==
    /\ pc[p] = "write"
    /\ off[p] = NumBlocks
    /\ pc' = [pc EXCEPT ![p] = "emit"]
    /\ cur' = [cur EXCEPT ![p] = Hole]
    /\ UNCHANGED <<dirDotted, exe, loaded, mat, cached, block, off, got,
                   compiled, overlap, faults>>

\* A write fails: raw_fd_ostream ends the program, and the file stays.
WriteFails(p) ==
    /\ pc[p] = "write"
    /\ Fault
    /\ pc' = [pc EXCEPT ![p] = "aborted"]
    /\ cur' = [cur EXCEPT ![p] = Hole]
    /\ UNCHANGED <<dirDotted, exe, loaded, mat, cached, block, off, got,
                   compiled, overlap>>

\* runHosted: every module has its object, and the program starts.
Run(p) ==
    /\ pc[p] = "emit"
    /\ Pending(p) = {}
    /\ pc' = [pc EXCEPT ![p] = "run"]
    /\ UNCHANGED <<dirDotted, exe, loaded, mat, cached, block, cur, off, got,
                   compiled, overlap, faults>>

Crash(p) ==
    /\ pc[p] \in {"load", "emit", "compile", "write"}
    /\ Fault
    /\ pc' = [pc EXCEPT ![p] = "killed"]
    /\ cur' = [cur EXCEPT ![p] = Hole]
    /\ UNCHANGED <<dirDotted, exe, loaded, mat, cached, block, off, got,
                   compiled, overlap>>

-----------------------------------------------------------------------------

Step(p) ==
    \/ \E m \in exe[p] : \/ LoadModule(p, m) \/ NameThrows(p, m)
                         \/ GetObject(p, m) \/ Compile(p, m)
    \/ OpenObject(p) \/ OpenFails(p)
    \/ WriteBlock(p) \/ CloseObject(p) \/ Run(p)

Next ==
    \E p \in Procs :
        \/ \E ms \in SUBSET Modules \ {{}} : Start(p, ms)
        \/ Step(p)
        \/ WriteFails(p)
        \/ Crash(p)

Spec == Init /\ [][Next]_vars

\* A process that is running keeps running: nothing in it waits.
FairSpec == Spec /\ \A p \in Procs : WF_vars(Step(p))

-----------------------------------------------------------------------------
(* Properties.                                                             *)

\* No module is compiled before it is materialised, although the decision
\* to materialise was taken on an earlier look at the cache than the one to
\* compile: an object that was there for hasObjectFor is there for getObject.
CompilesMaterialised == \A p \in Procs : compiled[p] \subseteq mat[p]

\* No other module is looked up under the name of this one.
Unshared(m) == \A n \in Modules : CacheName(n) = CacheName(m) => n = m

\* Without faults, and as long as nobody opens a file that another is
\* writing, every program runs with the whole object of each of its modules
\* that getCacheFilename gives a name of their own.
LoneObjectsWhole ==
    faults = 0 /\ ~overlap =>
        \A p \in Procs : pc[p] = "run" =>
            \A m \in exe[p] : Unshared(m) => got[p][m] = ObjectOf(m)

\* "We only even add the 'Name' part for human readability": the CRC alone
\* tells objects apart, and no block of another module's object is used.
CRCIdentifiesObject ==
    \A p \in Procs, m \in Modules :
        \A b \in Blocks : got[p][m][b] \in {m, Hole}

\* A process that has loaded its modules comes to run its program, even if
\* no file of the cache can be opened for writing, unless two processes have
\* met in the cache or there was a fault.
RunsUnlessRaced ==
    \A p \in Procs : (pc[p] = "emit") ~> (pc[p] = "run" \/ overlap \/ faults > 0)

-----------------------------------------------------------------------------
(* The inductive invariant behind CompilesMaterialised and                 *)
(* LoneObjectsWhole.                                                       *)

\* A process has a current module from the compilation to the end of
\* notifyObjectCompiled, and asks for objects only when all is loaded.
Progress ==
    \A p \in Procs :
        /\ cur[p] # Hole <=> pc[p] \in {"compile", "write"}
        /\ pc[p] \in {"emit", "compile", "write"} => loaded[p] = exe[p]
        /\ pc[p] = "run" => Pending(p) = {}

\* A module was left unmaterialised only because the cache has a file for it:
\* no file of the cache is ever removed.
LoadedFromCache ==
    \A p \in Procs : \A m \in loaded[p] : m \in mat[p] \/ CacheName(m) \in cached

\* Whatever crashes and races there are, a module with a name of its own
\* never finds another module's code there.
OwnBlocks ==
    \A m \in Modules : Unshared(m) =>
        /\ \A b \in Blocks : block[CacheName(m)][b] \in {m, Hole}
        /\ \A p \in Procs, b \in Blocks : got[p][m][b] \in {m, Hole}

\* Two processes write one file only after the second has opened it.
LoneWriter ==
    ~overlap =>
        \A p, q \in Procs :
            pc[p] = "write" /\ pc[q] = "write" /\ CacheName(cur[p]) = CacheName(cur[q])
                => p = q

\* Without faults and overlaps, a file is whole or its writer is at work on
\* the rest of it, ...
FilesWhole ==
    faults = 0 /\ ~overlap =>
        \A m \in Modules : Unshared(m) /\ CacheName(m) \in cached =>
            \/ block[CacheName(m)] = ObjectOf(m)
            \/ \E q \in Procs : /\ pc[q] = "write" /\ cur[q] = m
                                /\ \A b \in 1..off[q] : block[CacheName(m)][b] = m

\* ... and so an object is taken whole or not at all.
ObjectsWhole ==
    faults = 0 /\ ~overlap =>
        \A p \in Procs, m \in Modules : Unshared(m) =>
            /\ got[p][m] \in {NoObject, ObjectOf(m)}
            /\ m \in compiled[p] => got[p][m] = ObjectOf(m)

\* What holds in every state of the object cache, and every step of doJITExec
\* preserves.
JITInv ==
    /\ JITTypeOK
    /\ Progress
    /\ LoadedFromCache
    /\ CompilesMaterialised
    /\ OwnBlocks
    /\ LoneWriter
    /\ FilesWhole
    /\ ObjectsWhole
=============================================================================
