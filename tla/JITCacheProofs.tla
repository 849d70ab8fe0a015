--------------------------- MODULE JITCacheProofs ---------------------------
(***************************************************************************)
(* Proofs about JITCache, for any number of processes, modules, blocks and *)
(* faults.  The theorems at the end rest on the inductive invariant        *)
(* JITInv; there is a lemma for each of its parts and, in it, a step for   *)
(* each action.                                                            *)
(***************************************************************************)
EXTENDS JITCache, TLAPS

\* A fault keeps the count within its bound, and makes it positive.
LEMMA FaultCounts ==
    faults \in 0..MaxFaults /\ Fault => faults' \in 0..MaxFaults /\ faults' # 0
BY BlocksAssumption DEF Fault

\* getCacheFilename gives every module one of the names of the cache, and a
\* name with the module's CRC in it is the module's alone.
LEMMA CacheNames ==
    \A m \in Modules : CacheName(m) \in Names /\ (CacheName(m) # NoDot => CacheName(m) = m)
BY DEF CacheName, Names

\* Every step keeps the types.
LEMMA TypePreserved ==
    JITTypeOK /\ Progress /\ [Next]_vars => JITTypeOK'
<1> SUFFICES ASSUME JITTypeOK, Progress, [Next]_vars
             PROVE  JITTypeOK'
    OBVIOUS
<1> USE DottedAssumption, NamesAssumption, BlocksAssumption
<1>1. ASSUME NEW p \in Procs, NEW ms \in SUBSET Modules, Start(p, ms)
      PROVE  JITTypeOK'
  <2>1. [x \in Modules |-> NoObject] \in [Modules -> Objects]
    BY DEF NoObject, Objects
  <2>2. got' \in [Procs -> [Modules -> Objects]]
    BY <1>1, <2>1 DEF Start, JITTypeOK
  <2>3. QED
    BY <1>1, <2>2 DEF Start, JITTypeOK, Over
<1>2. ASSUME NEW p \in Procs, NEW m \in exe[p], LoadModule(p, m)
      PROVE  JITTypeOK'
  <2>1. m \in Modules
    BY DEF JITTypeOK
  <2>2. /\ loaded' \in [Procs -> SUBSET Modules]
        /\ mat' \in [Procs -> SUBSET Modules]
    BY <1>2, <2>1 DEF LoadModule, JITTypeOK
  <2>3. pc' \in [Procs -> Over \cup {"load", "emit", "compile", "write"}]
    BY <1>2 DEF LoadModule, JITTypeOK
  <2>4. QED
    BY <1>2, <2>2, <2>3 DEF LoadModule, JITTypeOK
<1>3. ASSUME NEW p \in Procs, NEW m \in exe[p], NameThrows(p, m)
      PROVE  JITTypeOK'
    BY <1>3 DEF NameThrows, JITTypeOK, Over
<1>4. ASSUME NEW p \in Procs, NEW m \in exe[p], GetObject(p, m)
      PROVE  JITTypeOK'
  <2>1. m \in Modules /\ CacheName(m) \in Names
    BY <1>4, CacheNames DEF JITTypeOK
  <2>2. block[CacheName(m)] \in Objects
    BY <2>1 DEF JITTypeOK
  <2>3. got' \in [Procs -> [Modules -> Objects]]
    <3>1. got' = got \/ got' = [got EXCEPT ![p][m] = block[CacheName(m)]]
      BY <1>4 DEF GetObject
    <3>2. got \in [Procs -> [Modules -> Objects]]
      BY DEF JITTypeOK
    <3>3. QED
      BY <2>1, <2>2, <3>1, <3>2
  <2>4. pc' \in [Procs -> Over \cup {"load", "emit", "compile", "write"}]
    BY <1>4 DEF GetObject, JITTypeOK, Over
  <2>5. overlap' \in BOOLEAN
    BY <1>4 DEF GetObject
  <2>6. QED
    BY <1>4, <2>3, <2>4, <2>5 DEF GetObject, JITTypeOK
<1>5. ASSUME NEW p \in Procs, NEW m \in exe[p], Compile(p, m)
      PROVE  JITTypeOK'
  <2>1. m \in Modules /\ ObjectOf(m) \in Objects
    BY <1>5 DEF JITTypeOK, ObjectOf, Objects
  <2>2. got' \in [Procs -> [Modules -> Objects]]
    BY <1>5, <2>1 DEF Compile, JITTypeOK
  <2>3. /\ pc' \in [Procs -> Over \cup {"load", "emit", "compile", "write"}]
        /\ cur' \in [Procs -> Modules \cup {Hole}]
        /\ compiled' \in [Procs -> SUBSET Modules]
    BY <1>5, <2>1 DEF Compile, JITTypeOK
  <2>4. QED
    BY <1>5, <2>2, <2>3 DEF Compile, JITTypeOK
<1>6. ASSUME NEW p \in Procs, OpenObject(p)
      PROVE  JITTypeOK'
  <2>1. cur[p] \in Modules /\ CacheName(cur[p]) \in Names
    BY <1>6, CacheNames DEF OpenObject, JITTypeOK, Progress
  <2>2. NoObject \in Objects
    BY DEF NoObject, Objects
  <2>3. block' \in [Names -> Objects] /\ cached' \in SUBSET Names
    BY <1>6, <2>1, <2>2 DEF OpenObject, JITTypeOK
  <2>4. pc' \in [Procs -> Over \cup {"load", "emit", "compile", "write"}]
    BY <1>6 DEF OpenObject, JITTypeOK
  <2>5. overlap' \in BOOLEAN /\ off' \in [Procs -> 0..NumBlocks]
    BY <1>6 DEF OpenObject, JITTypeOK
  <2>6. QED
    BY <1>6, <2>3, <2>4, <2>5 DEF OpenObject, JITTypeOK
<1>7. ASSUME NEW p \in Procs, OpenFails(p)
      PROVE  JITTypeOK'
    BY <1>7 DEF OpenFails, JITTypeOK, Over
<1>8. ASSUME NEW p \in Procs, WriteBlock(p)
      PROVE  JITTypeOK'
  <2>1. cur[p] \in Modules /\ CacheName(cur[p]) \in Names
    BY <1>8, CacheNames DEF WriteBlock, JITTypeOK, Progress
  <2>2. off[p] + 1 \in Blocks /\ off' \in [Procs -> 0..NumBlocks]
    BY <1>8 DEF WriteBlock, JITTypeOK, Blocks
  <2>3. block[CacheName(cur[p])] \in [Blocks -> Modules \cup {Hole}]
    BY <2>1 DEF JITTypeOK, Objects
  <2>4. [block[CacheName(cur[p])] EXCEPT ![off[p] + 1] = cur[p]] \in Objects
    BY <2>1, <2>2, <2>3 DEF Objects
  <2>5. block' \in [Names -> Objects]
    BY <1>8, <2>1, <2>4 DEF WriteBlock, JITTypeOK
  <2>6. QED
    BY <1>8, <2>2, <2>5 DEF WriteBlock, JITTypeOK
<1>9. ASSUME NEW p \in Procs, CloseObject(p)
      PROVE  JITTypeOK'
    BY <1>9 DEF CloseObject, JITTypeOK, Over
<1>10. ASSUME NEW p \in Procs, WriteFails(p)
      PROVE  JITTypeOK'
  <2>1. faults' \in 0..MaxFaults
    BY <1>10, FaultCounts DEF WriteFails, JITTypeOK
  <2>2. QED
    BY <1>10, <2>1 DEF WriteFails, JITTypeOK, Over
<1>11. ASSUME NEW p \in Procs, Run(p)
      PROVE  JITTypeOK'
    BY <1>11 DEF Run, JITTypeOK, Over
<1>12. ASSUME NEW p \in Procs, Crash(p)
      PROVE  JITTypeOK'
  <2>1. faults' \in 0..MaxFaults
    BY <1>12, FaultCounts DEF Crash, JITTypeOK
  <2>2. QED
    BY <1>12, <2>1 DEF Crash, JITTypeOK, Over
<1>13. CASE UNCHANGED vars
    BY <1>13 DEF vars, JITTypeOK, Over
<1>14. QED
    BY <1>1, <1>2, <1>3, <1>4, <1>5, <1>6, <1>7, <1>8, <1>9, <1>10,
        <1>11, <1>12, <1>13 DEF Next, Step

\* Every step keeps a process's current module and its modules in step with
\* its place in doJITExec.
LEMMA ProgressPreserved ==
    JITTypeOK /\ Progress /\ [Next]_vars => Progress'
<1> SUFFICES ASSUME JITTypeOK, Progress, [Next]_vars
             PROVE  Progress'
    OBVIOUS
<1> USE DottedAssumption, NamesAssumption, BlocksAssumption
<1>1. ASSUME NEW p \in Procs, NEW ms \in SUBSET Modules, Start(p, ms)
      PROVE  Progress'
    BY <1>1 DEF Start, JITTypeOK, Over, Progress, Pending
<1>2. ASSUME NEW p \in Procs, NEW m \in exe[p], LoadModule(p, m)
      PROVE  Progress'
    BY <1>2 DEF LoadModule, JITTypeOK, Over, Progress, Pending
<1>3. ASSUME NEW p \in Procs, NEW m \in exe[p], NameThrows(p, m)
      PROVE  Progress'
    BY <1>3 DEF NameThrows, JITTypeOK, Over, Progress, Pending
<1>4. ASSUME NEW p \in Procs, NEW m \in exe[p], GetObject(p, m)
      PROVE  Progress'
    BY <1>4 DEF GetObject, JITTypeOK, Over, Progress, Pending
<1>5. ASSUME NEW p \in Procs, NEW m \in exe[p], Compile(p, m)
      PROVE  Progress'
    BY <1>5 DEF Compile, JITTypeOK, Over, Progress, Pending
<1>6. ASSUME NEW p \in Procs, OpenObject(p)
      PROVE  Progress'
    BY <1>6 DEF OpenObject, JITTypeOK, Over, Progress, Pending
<1>7. ASSUME NEW p \in Procs, OpenFails(p)
      PROVE  Progress'
    BY <1>7 DEF OpenFails, JITTypeOK, Over, Progress, Pending
<1>8. ASSUME NEW p \in Procs, WriteBlock(p)
      PROVE  Progress'
    BY <1>8 DEF WriteBlock, JITTypeOK, Over, Progress, Pending
<1>9. ASSUME NEW p \in Procs, CloseObject(p)
      PROVE  Progress'
    BY <1>9 DEF CloseObject, JITTypeOK, Over, Progress, Pending
<1>10. ASSUME NEW p \in Procs, WriteFails(p)
      PROVE  Progress'
    BY <1>10 DEF WriteFails, Fault, JITTypeOK, Over, Progress, Pending
<1>11. ASSUME NEW p \in Procs, Run(p)
      PROVE  Progress'
    BY <1>11 DEF Run, JITTypeOK, Over, Progress, Pending
<1>12. ASSUME NEW p \in Procs, Crash(p)
      PROVE  Progress'
    BY <1>12 DEF Crash, Fault, JITTypeOK, Over, Progress, Pending
<1>13. CASE UNCHANGED vars
    BY <1>13 DEF vars, JITTypeOK, Over, Progress, Pending
<1>14. QED
    BY <1>1, <1>2, <1>3, <1>4, <1>5, <1>6, <1>7, <1>8, <1>9, <1>10,
        <1>11, <1>12, <1>13 DEF Next, Step

\* A file that hasObjectFor saw stays in the cache.
LEMMA LoadedPreserved ==
    JITTypeOK /\ LoadedFromCache /\ [Next]_vars => LoadedFromCache'
<1> SUFFICES ASSUME JITTypeOK, LoadedFromCache, [Next]_vars
             PROVE  LoadedFromCache'
    OBVIOUS
<1> USE DottedAssumption, NamesAssumption, BlocksAssumption
<1>1. ASSUME NEW p \in Procs, NEW ms \in SUBSET Modules, Start(p, ms)
      PROVE  LoadedFromCache'
    BY <1>1 DEF Start, JITTypeOK, LoadedFromCache
<1>2. ASSUME NEW p \in Procs, NEW m \in exe[p], LoadModule(p, m)
      PROVE  LoadedFromCache'
    BY <1>2 DEF LoadModule, JITTypeOK, LoadedFromCache
<1>3. ASSUME NEW p \in Procs, NEW m \in exe[p], NameThrows(p, m)
      PROVE  LoadedFromCache'
    BY <1>3 DEF NameThrows, JITTypeOK, LoadedFromCache
<1>4. ASSUME NEW p \in Procs, NEW m \in exe[p], GetObject(p, m)
      PROVE  LoadedFromCache'
    BY <1>4 DEF GetObject, JITTypeOK, LoadedFromCache
<1>5. ASSUME NEW p \in Procs, NEW m \in exe[p], Compile(p, m)
      PROVE  LoadedFromCache'
    BY <1>5 DEF Compile, JITTypeOK, LoadedFromCache
<1>6. ASSUME NEW p \in Procs, OpenObject(p)
      PROVE  LoadedFromCache'
    BY <1>6 DEF OpenObject, JITTypeOK, LoadedFromCache
<1>7. ASSUME NEW p \in Procs, OpenFails(p)
      PROVE  LoadedFromCache'
    BY <1>7 DEF OpenFails, JITTypeOK, LoadedFromCache
<1>8. ASSUME NEW p \in Procs, WriteBlock(p)
      PROVE  LoadedFromCache'
    BY <1>8 DEF WriteBlock, JITTypeOK, LoadedFromCache
<1>9. ASSUME NEW p \in Procs, CloseObject(p)
      PROVE  LoadedFromCache'
    BY <1>9 DEF CloseObject, JITTypeOK, LoadedFromCache
<1>10. ASSUME NEW p \in Procs, WriteFails(p)
      PROVE  LoadedFromCache'
    BY <1>10 DEF WriteFails, Fault, JITTypeOK, LoadedFromCache
<1>11. ASSUME NEW p \in Procs, Run(p)
      PROVE  LoadedFromCache'
    BY <1>11 DEF Run, JITTypeOK, LoadedFromCache
<1>12. ASSUME NEW p \in Procs, Crash(p)
      PROVE  LoadedFromCache'
    BY <1>12 DEF Crash, Fault, JITTypeOK, LoadedFromCache
<1>13. CASE UNCHANGED vars
    BY <1>13 DEF vars, JITTypeOK, LoadedFromCache
<1>14. QED
    BY <1>1, <1>2, <1>3, <1>4, <1>5, <1>6, <1>7, <1>8, <1>9, <1>10,
        <1>11, <1>12, <1>13 DEF Next, Step

\* A module getObject has nothing for was already missing when hasObjectFor
\* looked, and has been materialised.
LEMMA CompilesPreserved ==
    JITTypeOK /\ Progress /\ LoadedFromCache /\ CompilesMaterialised /\
    [Next]_vars => CompilesMaterialised'
<1> SUFFICES ASSUME JITTypeOK, Progress, LoadedFromCache,
                      CompilesMaterialised, [Next]_vars
             PROVE  CompilesMaterialised'
    OBVIOUS
<1> USE DottedAssumption, NamesAssumption, BlocksAssumption
<1>1. ASSUME NEW p \in Procs, NEW ms \in SUBSET Modules, Start(p, ms)
      PROVE  CompilesMaterialised'
    BY <1>1 DEF Start, JITTypeOK, CompilesMaterialised
<1>2. ASSUME NEW p \in Procs, NEW m \in exe[p], LoadModule(p, m)
      PROVE  CompilesMaterialised'
    BY <1>2 DEF LoadModule, JITTypeOK, CompilesMaterialised
<1>3. ASSUME NEW p \in Procs, NEW m \in exe[p], NameThrows(p, m)
      PROVE  CompilesMaterialised'
    BY <1>3 DEF NameThrows, JITTypeOK, CompilesMaterialised
<1>4. ASSUME NEW p \in Procs, NEW m \in exe[p], GetObject(p, m)
      PROVE  CompilesMaterialised'
    BY <1>4 DEF GetObject, JITTypeOK, CompilesMaterialised
<1>5. ASSUME NEW p \in Procs, NEW m \in exe[p], Compile(p, m)
      PROVE  CompilesMaterialised'
  <2>1. m \in loaded[p] /\ CacheName(m) \notin cached
    BY <1>5 DEF Compile, Progress
  <2>2. m \in mat[p]
    BY <2>1 DEF LoadedFromCache
  <2>3. QED
    BY <1>5, <2>2 DEF Compile, JITTypeOK, CompilesMaterialised
<1>6. ASSUME NEW p \in Procs, OpenObject(p)
      PROVE  CompilesMaterialised'
    BY <1>6 DEF OpenObject, JITTypeOK, CompilesMaterialised
<1>7. ASSUME NEW p \in Procs, OpenFails(p)
      PROVE  CompilesMaterialised'
    BY <1>7 DEF OpenFails, JITTypeOK, CompilesMaterialised
<1>8. ASSUME NEW p \in Procs, WriteBlock(p)
      PROVE  CompilesMaterialised'
    BY <1>8 DEF WriteBlock, JITTypeOK, CompilesMaterialised
<1>9. ASSUME NEW p \in Procs, CloseObject(p)
      PROVE  CompilesMaterialised'
    BY <1>9 DEF CloseObject, JITTypeOK, CompilesMaterialised
<1>10. ASSUME NEW p \in Procs, WriteFails(p)
      PROVE  CompilesMaterialised'
    BY <1>10 DEF WriteFails, Fault, JITTypeOK, CompilesMaterialised
<1>11. ASSUME NEW p \in Procs, Run(p)
      PROVE  CompilesMaterialised'
    BY <1>11 DEF Run, JITTypeOK, CompilesMaterialised
<1>12. ASSUME NEW p \in Procs, Crash(p)
      PROVE  CompilesMaterialised'
    BY <1>12 DEF Crash, Fault, JITTypeOK, CompilesMaterialised
<1>13. CASE UNCHANGED vars
    BY <1>13 DEF vars, JITTypeOK, CompilesMaterialised
<1>14. QED
    BY <1>1, <1>2, <1>3, <1>4, <1>5, <1>6, <1>7, <1>8, <1>9, <1>10,
        <1>11, <1>12, <1>13 DEF Next, Step

\* A file with a name of its own is only ever written with its own module's
\* code.
LEMMA OwnBlocksPreserved ==
    JITTypeOK /\ Progress /\ OwnBlocks /\ [Next]_vars => OwnBlocks'
<1> SUFFICES ASSUME JITTypeOK, Progress, OwnBlocks, [Next]_vars
             PROVE  OwnBlocks'
    OBVIOUS
<1> USE DottedAssumption, NamesAssumption, BlocksAssumption
<1>1. ASSUME NEW p \in Procs, NEW ms \in SUBSET Modules, Start(p, ms)
      PROVE  OwnBlocks'
    BY <1>1 DEF Start, NoObject, Objects, JITTypeOK, OwnBlocks, Unshared,
        CacheName, Names
<1>2. ASSUME NEW p \in Procs, NEW m \in exe[p], LoadModule(p, m)
      PROVE  OwnBlocks'
    BY <1>2 DEF LoadModule, JITTypeOK, OwnBlocks, Unshared, CacheName,
        Names
<1>3. ASSUME NEW p \in Procs, NEW m \in exe[p], NameThrows(p, m)
      PROVE  OwnBlocks'
    BY <1>3 DEF NameThrows, JITTypeOK, OwnBlocks, Unshared, CacheName,
        Names
<1>4. ASSUME NEW p \in Procs, NEW m \in exe[p], GetObject(p, m)
      PROVE  OwnBlocks'
  <2>1. m \in Modules /\ CacheName(m) \in Names
    BY CacheNames DEF JITTypeOK
  <2>2. got' = got \/ got' = [got EXCEPT ![p][m] = block[CacheName(m)]]
    BY <1>4 DEF GetObject
  <2>3. ASSUME NEW n \in Modules, Unshared(n), NEW q \in Procs, NEW b \in Blocks
        PROVE  got'[q][n][b] \in {n, Hole}
    <3>1. got \in [Procs -> [Modules -> Objects]]
      BY DEF JITTypeOK
    <3>2. \/ got'[q][n] = got[q][n]
          \/ q = p /\ n = m /\ got'[q][n] = block[CacheName(n)]
      BY <2>1, <2>2, <3>1
    <3>3. QED
      BY <2>3, <3>2 DEF OwnBlocks
  <2>4. QED
    BY <1>4, <2>3 DEF GetObject, OwnBlocks, Unshared, CacheName
<1>5. ASSUME NEW p \in Procs, NEW m \in exe[p], Compile(p, m)
      PROVE  OwnBlocks'
    BY <1>5, ZenonT(30) DEF Compile, ObjectOf, Objects, JITTypeOK, OwnBlocks,
        Unshared, CacheName, Names
<1>6. ASSUME NEW p \in Procs, OpenObject(p)
      PROVE  OwnBlocks'
  <2>1. cur[p] \in Modules /\ CacheName(cur[p]) \in Names
    BY <1>6, CacheNames DEF OpenObject, JITTypeOK, Progress
  <2>2. \A n \in Names : block'[n] \in {block[n], NoObject}
    BY <1>6, <2>1 DEF OpenObject, JITTypeOK
  <2>3. ASSUME NEW m \in Modules, Unshared(m)
        PROVE  \A b \in Blocks : block'[CacheName(m)][b] \in {m, Hole}
    BY <2>2, <2>3, CacheNames DEF OwnBlocks, NoObject
  <2>4. QED
    BY <1>6, <2>3 DEF OpenObject, OwnBlocks, Unshared, CacheName
<1>7. ASSUME NEW p \in Procs, OpenFails(p)
      PROVE  OwnBlocks'
    BY <1>7 DEF OpenFails, JITTypeOK, OwnBlocks, Unshared, CacheName,
        Names
<1>8. ASSUME NEW p \in Procs, WriteBlock(p)
      PROVE  OwnBlocks'
  <2>1. cur[p] \in Modules /\ CacheName(cur[p]) \in Names
    BY <1>8, CacheNames DEF WriteBlock, JITTypeOK, Progress
  <2>2. ASSUME NEW m \in Modules, Unshared(m)
        PROVE  \A b \in Blocks : block'[CacheName(m)][b] \in {m, Hole}
    <3>1. CacheName(m) \in Names
      BY CacheNames
    <3>2. CASE CacheName(m) # CacheName(cur[p])
      BY <1>8, <2>1, <2>2, <3>1, <3>2 DEF WriteBlock, JITTypeOK, OwnBlocks
    <3>3. CASE CacheName(m) = CacheName(cur[p])
      <4>1. cur[p] = m
        BY <2>1, <2>2, <3>3 DEF Unshared
      <4>2. block'[CacheName(m)] = [block[CacheName(m)] EXCEPT ![off[p] + 1] = m]
        BY <1>8, <3>1, <3>3, <4>1 DEF WriteBlock, JITTypeOK
      <4>3. block[CacheName(m)] \in [Blocks -> Modules \cup {Hole}]
        BY <3>1 DEF JITTypeOK, Objects
      <4>4. QED
        BY <2>2, <4>2, <4>3 DEF OwnBlocks
    <3>4. QED
      BY <3>2, <3>3
  <2>3. QED
    BY <1>8, <2>2 DEF WriteBlock, OwnBlocks, Unshared, CacheName
<1>9. ASSUME NEW p \in Procs, CloseObject(p)
      PROVE  OwnBlocks'
    BY <1>9 DEF CloseObject, JITTypeOK, OwnBlocks, Unshared, CacheName,
        Names
<1>10. ASSUME NEW p \in Procs, WriteFails(p)
      PROVE  OwnBlocks'
    BY <1>10 DEF WriteFails, Fault, JITTypeOK, OwnBlocks, Unshared,
        CacheName, Names
<1>11. ASSUME NEW p \in Procs, Run(p)
      PROVE  OwnBlocks'
    BY <1>11 DEF Run, JITTypeOK, OwnBlocks, Unshared, CacheName, Names
<1>12. ASSUME NEW p \in Procs, Crash(p)
      PROVE  OwnBlocks'
    BY <1>12 DEF Crash, Fault, JITTypeOK, OwnBlocks, Unshared, CacheName,
        Names
<1>13. CASE UNCHANGED vars
    BY <1>13 DEF vars, JITTypeOK, OwnBlocks, Unshared, CacheName, Names
<1>14. QED
    BY <1>1, <1>2, <1>3, <1>4, <1>5, <1>6, <1>7, <1>8, <1>9, <1>10,
        <1>11, <1>12, <1>13 DEF Next, Step

\* A second process that opens a file makes an overlap.
LEMMA WriterPreserved ==
    JITTypeOK /\ Progress /\ LoneWriter /\ [Next]_vars => LoneWriter'
<1> SUFFICES ASSUME JITTypeOK, Progress, LoneWriter, [Next]_vars
             PROVE  LoneWriter'
    OBVIOUS
<1> USE DottedAssumption, NamesAssumption, BlocksAssumption
<1>1. ASSUME NEW p \in Procs, NEW ms \in SUBSET Modules, Start(p, ms)
      PROVE  LoneWriter'
    BY <1>1 DEF Start, JITTypeOK, LoneWriter, BeingWritten, CacheName
<1>2. ASSUME NEW p \in Procs, NEW m \in exe[p], LoadModule(p, m)
      PROVE  LoneWriter'
    BY <1>2 DEF LoadModule, JITTypeOK, LoneWriter, BeingWritten,
        CacheName
<1>3. ASSUME NEW p \in Procs, NEW m \in exe[p], NameThrows(p, m)
      PROVE  LoneWriter'
    BY <1>3 DEF NameThrows, JITTypeOK, LoneWriter, BeingWritten,
        CacheName
<1>4. ASSUME NEW p \in Procs, NEW m \in exe[p], GetObject(p, m)
      PROVE  LoneWriter'
    BY <1>4 DEF GetObject, JITTypeOK, LoneWriter, BeingWritten, CacheName
<1>5. ASSUME NEW p \in Procs, NEW m \in exe[p], Compile(p, m)
      PROVE  LoneWriter'
    BY <1>5 DEF Compile, JITTypeOK, LoneWriter, BeingWritten, CacheName
<1>6. ASSUME NEW p \in Procs, OpenObject(p)
      PROVE  LoneWriter'
    BY <1>6 DEF OpenObject, JITTypeOK, LoneWriter, BeingWritten,
        CacheName
<1>7. ASSUME NEW p \in Procs, OpenFails(p)
      PROVE  LoneWriter'
    BY <1>7 DEF OpenFails, JITTypeOK, LoneWriter, BeingWritten, CacheName
<1>8. ASSUME NEW p \in Procs, WriteBlock(p)
      PROVE  LoneWriter'
    BY <1>8 DEF WriteBlock, JITTypeOK, LoneWriter, BeingWritten,
        CacheName
<1>9. ASSUME NEW p \in Procs, CloseObject(p)
      PROVE  LoneWriter'
    BY <1>9 DEF CloseObject, JITTypeOK, LoneWriter, BeingWritten,
        CacheName
<1>10. ASSUME NEW p \in Procs, WriteFails(p)
      PROVE  LoneWriter'
    BY <1>10 DEF WriteFails, Fault, JITTypeOK, LoneWriter, BeingWritten,
        CacheName
<1>11. ASSUME NEW p \in Procs, Run(p)
      PROVE  LoneWriter'
    BY <1>11 DEF Run, JITTypeOK, LoneWriter, BeingWritten, CacheName
<1>12. ASSUME NEW p \in Procs, Crash(p)
      PROVE  LoneWriter'
    BY <1>12 DEF Crash, Fault, JITTypeOK, LoneWriter, BeingWritten,
        CacheName
<1>13. CASE UNCHANGED vars
    BY <1>13 DEF vars, JITTypeOK, LoneWriter, BeingWritten, CacheName
<1>14. QED
    BY <1>1, <1>2, <1>3, <1>4, <1>5, <1>6, <1>7, <1>8, <1>9, <1>10,
        <1>11, <1>12, <1>13 DEF Next, Step

\* A step that neither touches the files nor takes their writers away leaves
\* them as whole as they were.
LEMMA FilesUntouched ==
    ASSUME FilesWhole, UNCHANGED <<faults, cached, block, off>>, overlap => overlap',
           \A q \in Procs : pc[q] = "write" => pc'[q] = "write" /\ cur'[q] = cur[q]
    PROVE  FilesWhole'
<1> SUFFICES ASSUME faults' = 0, ~overlap', NEW m \in Modules, Unshared(m),
                    CacheName(m) \in cached'
             PROVE  \/ block'[CacheName(m)] = ObjectOf(m)
                    \/ \E q \in Procs :
                          /\ pc'[q] = "write" /\ cur'[q] = m
                          /\ \A b \in 1..off'[q] : block'[CacheName(m)][b] = m
    BY DEF FilesWhole, Unshared, CacheName, ObjectOf
<1>1. \/ block[CacheName(m)] = ObjectOf(m)
      \/ \E q \in Procs : /\ pc[q] = "write" /\ cur[q] = m
                          /\ \A b \in 1..off[q] : block[CacheName(m)][b] = m
    BY DEF FilesWhole
<1>2. QED
    BY <1>1

\* Without faults and overlaps, only the writer of a file changes it, and
\* leaves it when the last block is in.
LEMMA FilesPreserved ==
    JITTypeOK /\ Progress /\ LoneWriter /\ FilesWhole /\ [Next]_vars => FilesWhole'
<1> SUFFICES ASSUME JITTypeOK, Progress, LoneWriter, FilesWhole,
                      [Next]_vars
             PROVE  FilesWhole'
    OBVIOUS
<1> USE DottedAssumption, NamesAssumption, BlocksAssumption
<1>1. ASSUME NEW p \in Procs, NEW ms \in SUBSET Modules, Start(p, ms)
      PROVE  FilesWhole'
    BY <1>1, FilesUntouched DEF Start, JITTypeOK, Over
<1>2. ASSUME NEW p \in Procs, NEW m \in exe[p], LoadModule(p, m)
      PROVE  FilesWhole'
    BY <1>2, FilesUntouched DEF LoadModule, JITTypeOK, Over
<1>3. ASSUME NEW p \in Procs, NEW m \in exe[p], NameThrows(p, m)
      PROVE  FilesWhole'
    BY <1>3, FilesUntouched DEF NameThrows, JITTypeOK, Over
<1>4. ASSUME NEW p \in Procs, NEW m \in exe[p], GetObject(p, m)
      PROVE  FilesWhole'
    BY <1>4, FilesUntouched DEF GetObject, JITTypeOK, Over
<1>5. ASSUME NEW p \in Procs, NEW m \in exe[p], Compile(p, m)
      PROVE  FilesWhole'
    BY <1>5, FilesUntouched DEF Compile, JITTypeOK, Over
<1>6. ASSUME NEW p \in Procs, OpenObject(p)
      PROVE  FilesWhole'
  <2> SUFFICES ASSUME faults' = 0, ~overlap', NEW m \in Modules, Unshared(m),
                      CacheName(m) \in cached'
               PROVE  \/ block'[CacheName(m)] = ObjectOf(m)
                      \/ \E q \in Procs :
                            /\ pc'[q] = "write" /\ cur'[q] = m
                            /\ \A b \in 1..off'[q] : block'[CacheName(m)][b] = m
    BY DEF FilesWhole, Unshared, CacheName, ObjectOf
  <2>1. cur[p] \in Modules /\ CacheName(cur[p]) \in Names /\ CacheName(m) \in Names
    BY <1>6, CacheNames DEF OpenObject, JITTypeOK, Progress
  <2>2. CASE cur[p] = m
    <3>1. pc'[p] = "write" /\ cur'[p] = m /\ off'[p] = 0
      BY <1>6, <2>2 DEF OpenObject, JITTypeOK
    <3>2. QED
      BY <3>1
  <2>3. CASE cur[p] # m
    <3>1. CacheName(cur[p]) # CacheName(m)
      BY <2>1, <2>3 DEF Unshared
    <3>2. block'[CacheName(m)] = block[CacheName(m)] /\ CacheName(m) \in cached
      BY <1>6, <2>1, <3>1 DEF OpenObject, JITTypeOK
    <3>3. faults = 0 /\ ~overlap
      BY <1>6 DEF OpenObject
    <3>4. CASE block[CacheName(m)] = ObjectOf(m)
      BY <3>2, <3>4
    <3>5. ASSUME NEW q \in Procs, pc[q] = "write", cur[q] = m,
                 \A b \in 1..off[q] : block[CacheName(m)][b] = m
          PROVE  /\ pc'[q] = "write" /\ cur'[q] = m
                 /\ \A b \in 1..off'[q] : block'[CacheName(m)][b] = m
      BY <1>6, <3>2, <3>5 DEF OpenObject, JITTypeOK
    <3>6. QED
      BY <3>2, <3>3, <3>4, <3>5 DEF FilesWhole
  <2>4. QED
    BY <2>2, <2>3
<1>7. ASSUME NEW p \in Procs, OpenFails(p)
      PROVE  FilesWhole'
    BY <1>7, FilesUntouched DEF OpenFails, JITTypeOK, Over
<1>8. ASSUME NEW p \in Procs, WriteBlock(p)
      PROVE  FilesWhole'
  <2> SUFFICES ASSUME faults' = 0, ~overlap', NEW m \in Modules, Unshared(m),
                      CacheName(m) \in cached'
               PROVE  \/ block'[CacheName(m)] = ObjectOf(m)
                      \/ \E q \in Procs :
                            /\ pc'[q] = "write" /\ cur'[q] = m
                            /\ \A b \in 1..off'[q] : block'[CacheName(m)][b] = m
    BY DEF FilesWhole, Unshared, CacheName, ObjectOf
  <2>1. cur[p] \in Modules /\ CacheName(cur[p]) \in Names /\ CacheName(m) \in Names
    BY <1>8, CacheNames DEF WriteBlock, JITTypeOK, Progress
  <2>2. faults = 0 /\ ~overlap /\ CacheName(m) \in cached
    BY <1>8 DEF WriteBlock
  <2>3. CASE cur[p] = m
    <3>1. block[CacheName(m)] \in [Blocks -> Modules \cup {Hole}] /\ off[p] + 1 \in Blocks
      BY <1>8, <2>1 DEF WriteBlock, JITTypeOK, Objects, Blocks
    <3>2. block'[CacheName(m)] = [block[CacheName(m)] EXCEPT ![off[p] + 1] = m]
      BY <1>8, <2>1, <2>3 DEF WriteBlock, JITTypeOK
    <3>3. CASE block[CacheName(m)] = ObjectOf(m)
      <4>1. \A b \in Blocks : block'[CacheName(m)][b] = m
        BY <3>1, <3>2, <3>3 DEF ObjectOf
      <4>2. QED
        BY <3>1, <3>2, <4>1 DEF ObjectOf
    <3>4. ASSUME NEW q \in Procs, pc[q] = "write", cur[q] = m,
                 \A b \in 1..off[q] : block[CacheName(m)][b] = m
          PROVE  \E r \in Procs :
                            /\ pc'[r] = "write" /\ cur'[r] = m
                            /\ \A b \in 1..off'[r] : block'[CacheName(m)][b] = m
      <4>1. q = p
        BY <1>8, <2>2, <2>3, <3>4 DEF WriteBlock, LoneWriter
      <4>2. pc'[p] = "write" /\ cur'[p] = m /\ off'[p] = off[p] + 1 /\ off[p] \in Nat
        BY <1>8, <2>3 DEF WriteBlock, JITTypeOK
      <4>3. \A b \in 1..off'[p] : block'[CacheName(m)][b] = m
        BY <3>1, <3>2, <3>4, <4>1, <4>2 DEF Blocks
      <4>4. QED
        BY <4>2, <4>3
    <3>5. QED
      BY <2>2, <3>3, <3>4 DEF FilesWhole
  <2>4. CASE cur[p] # m
    <3>1. CacheName(cur[p]) # CacheName(m)
      BY <2>1, <2>4 DEF Unshared
    <3>2. block'[CacheName(m)] = block[CacheName(m)]
      BY <1>8, <2>1, <3>1 DEF WriteBlock, JITTypeOK
    <3>3. CASE block[CacheName(m)] = ObjectOf(m)
      BY <3>2, <3>3
    <3>4. ASSUME NEW q \in Procs, pc[q] = "write", cur[q] = m,
                 \A b \in 1..off[q] : block[CacheName(m)][b] = m
          PROVE  /\ pc'[q] = "write" /\ cur'[q] = m
                 /\ \A b \in 1..off'[q] : block'[CacheName(m)][b] = m
      BY <1>8, <2>4, <3>2, <3>4 DEF WriteBlock, JITTypeOK
    <3>5. QED
      BY <2>2, <3>3, <3>4 DEF FilesWhole
  <2>5. QED
    BY <2>3, <2>4
<1>9. ASSUME NEW p \in Procs, CloseObject(p)
      PROVE  FilesWhole'
  <2> SUFFICES ASSUME faults' = 0, ~overlap', NEW m \in Modules, Unshared(m),
                      CacheName(m) \in cached'
               PROVE  \/ block'[CacheName(m)] = ObjectOf(m)
                      \/ \E q \in Procs :
                            /\ pc'[q] = "write" /\ cur'[q] = m
                            /\ \A b \in 1..off'[q] : block'[CacheName(m)][b] = m
    BY DEF FilesWhole, Unshared, CacheName, ObjectOf
  <2>1. UNCHANGED <<faults, overlap, cached, block, off>>
    BY <1>9 DEF CloseObject
  <2>2. CASE block[CacheName(m)] = ObjectOf(m)
    BY <2>1, <2>2
  <2>3. ASSUME NEW q \in Procs, pc[q] = "write", cur[q] = m,
               \A b \in 1..off[q] : block[CacheName(m)][b] = m
        PROVE  \/ block[CacheName(m)] = ObjectOf(m)
               \/ pc'[q] = "write" /\ cur'[q] = m
    <3>1. CASE q = p
      <4>1. \A b \in Blocks : block[CacheName(m)][b] = m
        BY <1>9, <2>3, <3>1 DEF CloseObject, Blocks
      <4>2. block[CacheName(m)] \in [Blocks -> Modules \cup {Hole}]
        BY CacheNames DEF JITTypeOK, Objects
      <4>3. QED
        BY <4>1, <4>2 DEF ObjectOf
    <3>2. CASE q # p
      BY <1>9, <2>3, <3>2 DEF CloseObject, JITTypeOK
    <3>3. QED
      BY <3>1, <3>2
  <2>4. QED
    BY <2>1, <2>2, <2>3 DEF FilesWhole
<1>10. ASSUME NEW p \in Procs, WriteFails(p)
      PROVE  FilesWhole'
    BY <1>10, FaultCounts DEF WriteFails, JITTypeOK, FilesWhole
<1>11. ASSUME NEW p \in Procs, Run(p)
      PROVE  FilesWhole'
    BY <1>11, FilesUntouched DEF Run, JITTypeOK, Over
<1>12. ASSUME NEW p \in Procs, Crash(p)
      PROVE  FilesWhole'
    BY <1>12, FaultCounts DEF Crash, JITTypeOK, FilesWhole
<1>13. CASE UNCHANGED vars
    BY <1>13 DEF vars, JITTypeOK, Over, FilesWhole, Unshared, CacheName
<1>14. QED
    BY <1>1, <1>2, <1>3, <1>4, <1>5, <1>6, <1>7, <1>8, <1>9, <1>10,
        <1>11, <1>12, <1>13 DEF Next, Step

\* What getObject copies when nobody writes the file is the whole object.
LEMMA ObjectsPreserved ==
    JITTypeOK /\ Progress /\ FilesWhole /\ ObjectsWhole /\ [Next]_vars => ObjectsWhole'
<1> SUFFICES ASSUME JITTypeOK, Progress, FilesWhole, ObjectsWhole,
                      [Next]_vars
             PROVE  ObjectsWhole'
    OBVIOUS
<1> USE DottedAssumption, NamesAssumption, BlocksAssumption
<1>1. ASSUME NEW p \in Procs, NEW ms \in SUBSET Modules, Start(p, ms)
      PROVE  ObjectsWhole'
  <2> SUFFICES ASSUME faults' = 0, ~overlap', NEW q \in Procs, NEW n \in Modules,
                      Unshared(n)
               PROVE  /\ got'[q][n] \in {NoObject, ObjectOf(n)}
                      /\ n \in compiled'[q] => got'[q][n] = ObjectOf(n)
    BY DEF ObjectsWhole, Unshared, CacheName, ObjectOf, NoObject
  <2>1. faults = 0 /\ ~overlap
    BY <1>1 DEF Start
  <2>2. CASE q = p
    <3>1. got'[q][n] = NoObject /\ compiled'[q] = {}
      BY <1>1, <2>2 DEF Start, JITTypeOK
    <3>2. QED
      BY <3>1
  <2>3. CASE q # p
    <3>1. got'[q] = got[q] /\ compiled'[q] = compiled[q]
      BY <1>1, <2>3 DEF Start, JITTypeOK
    <3>2. QED
      BY <2>1, <3>1 DEF ObjectsWhole
  <2>4. QED
    BY <2>2, <2>3
<1>2. ASSUME NEW p \in Procs, NEW m \in exe[p], LoadModule(p, m)
      PROVE  ObjectsWhole'
    BY <1>2 DEF LoadModule, ObjectsWhole, Unshared, CacheName, NoObject,
        ObjectOf
<1>3. ASSUME NEW p \in Procs, NEW m \in exe[p], NameThrows(p, m)
      PROVE  ObjectsWhole'
    BY <1>3 DEF NameThrows, ObjectsWhole, Unshared, CacheName, NoObject,
        ObjectOf
<1>4. ASSUME NEW p \in Procs, NEW m \in exe[p], GetObject(p, m)
      PROVE  ObjectsWhole'
  <2> SUFFICES ASSUME faults' = 0, ~overlap', NEW q \in Procs, NEW n \in Modules,
                      Unshared(n)
               PROVE  /\ got'[q][n] \in {NoObject, ObjectOf(n)}
                      /\ n \in compiled'[q] => got'[q][n] = ObjectOf(n)
    BY DEF ObjectsWhole, Unshared, CacheName, ObjectOf, NoObject
  <2>1. faults = 0 /\ ~overlap /\ ~BeingWritten(m) /\ compiled' = compiled
    BY <1>4 DEF GetObject
  <2>2. m \in Modules /\ CacheName(m) \in cached /\ got[p][m] = NoObject /\ m \notin compiled[p]
    BY <1>4 DEF GetObject, Pending, JITTypeOK
  <2>3. got' = got \/ got' = [got EXCEPT ![p][m] = block[CacheName(m)]]
    BY <1>4 DEF GetObject
  <2>4. \/ got'[q][n] = got[q][n]
        \/ q = p /\ n = m /\ got'[q][n] = block[CacheName(n)]
    <3>1. got \in [Procs -> [Modules -> Objects]]
      BY DEF JITTypeOK
    <3>2. QED
      BY <2>2, <2>3, <3>1
  <2>5. CASE got'[q][n] = got[q][n]
    BY <2>1, <2>5 DEF ObjectsWhole
  <2>6. CASE q = p /\ n = m /\ got'[q][n] = block[CacheName(n)]
    <3>1. block[CacheName(n)] = ObjectOf(n)
      BY <2>1, <2>2, <2>6 DEF FilesWhole, BeingWritten
    <3>2. QED
      BY <2>1, <2>2, <2>6, <3>1
  <2>7. QED
    BY <2>4, <2>5, <2>6
<1>5. ASSUME NEW p \in Procs, NEW m \in exe[p], Compile(p, m)
      PROVE  ObjectsWhole'
  <2> SUFFICES ASSUME faults' = 0, ~overlap', NEW q \in Procs, NEW n \in Modules,
                      Unshared(n)
               PROVE  /\ got'[q][n] \in {NoObject, ObjectOf(n)}
                      /\ n \in compiled'[q] => got'[q][n] = ObjectOf(n)
    BY DEF ObjectsWhole, Unshared, CacheName, ObjectOf, NoObject
  <2>1. faults = 0 /\ ~overlap /\ m \in Modules
    BY <1>5 DEF Compile, JITTypeOK
  <2>2. CASE q = p /\ n = m
    <3>1. got'[q][n] = ObjectOf(n)
      BY <1>5, <2>1, <2>2 DEF Compile, JITTypeOK
    <3>2. QED
      BY <3>1
  <2>3. CASE ~(q = p /\ n = m)
    <3>1. got'[q][n] = got[q][n] /\ (n \in compiled'[q] => n \in compiled[q])
      BY <1>5, <2>1, <2>3 DEF Compile, JITTypeOK
    <3>2. QED
      BY <2>1, <3>1 DEF ObjectsWhole
  <2>4. QED
    BY <2>2, <2>3
<1>6. ASSUME NEW p \in Procs, OpenObject(p)
      PROVE  ObjectsWhole'
    BY <1>6 DEF OpenObject, ObjectsWhole, Unshared, CacheName, NoObject, ObjectOf
<1>7. ASSUME NEW p \in Procs, OpenFails(p)
      PROVE  ObjectsWhole'
    BY <1>7 DEF OpenFails, ObjectsWhole, Unshared, CacheName, NoObject,
        ObjectOf
<1>8. ASSUME NEW p \in Procs, WriteBlock(p)
      PROVE  ObjectsWhole'
    BY <1>8 DEF WriteBlock, ObjectsWhole, Unshared, CacheName, NoObject,
        ObjectOf
<1>9. ASSUME NEW p \in Procs, CloseObject(p)
      PROVE  ObjectsWhole'
    BY <1>9 DEF CloseObject, ObjectsWhole, Unshared, CacheName, NoObject,
        ObjectOf
<1>10. ASSUME NEW p \in Procs, WriteFails(p)
      PROVE  ObjectsWhole'
    BY <1>10, FaultCounts DEF WriteFails, JITTypeOK, ObjectsWhole
<1>11. ASSUME NEW p \in Procs, Run(p)
      PROVE  ObjectsWhole'
    BY <1>11 DEF Run, ObjectsWhole, Unshared, CacheName, NoObject,
        ObjectOf
<1>12. ASSUME NEW p \in Procs, Crash(p)
      PROVE  ObjectsWhole'
    BY <1>12, FaultCounts DEF Crash, JITTypeOK, ObjectsWhole
<1>13. CASE UNCHANGED vars
    BY <1>13, ZenonT(30) DEF vars, JITTypeOK, ObjectsWhole, Unshared, CacheName,
        NoObject, ObjectOf
<1>14. QED
    BY <1>1, <1>2, <1>3, <1>4, <1>5, <1>6, <1>7, <1>8, <1>9, <1>10,
        <1>11, <1>12, <1>13 DEF Next, Step

-----------------------------------------------------------------------------

\* JITInv holds of the empty cache.
LEMMA JITInvInit == Init => JITInv
<1> SUFFICES ASSUME Init PROVE JITInv
    OBVIOUS
<1> USE DottedAssumption, NamesAssumption, BlocksAssumption
<1>1. JITTypeOK
  <2>1. NoObject \in Objects
    BY DEF NoObject, Objects
  <2>2. QED
    <3>1. /\ block \in [Names -> Objects]
          /\ got \in [Procs -> [Modules -> Objects]]
      BY <2>1 DEF Init
    <3>2. QED
      BY <3>1, 0 \in 0..NumBlocks, 0 \in 0..MaxFaults DEF Init, JITTypeOK, Over
<1>2. Progress /\ LoadedFromCache /\ CompilesMaterialised
    BY DEF Init, Progress, LoadedFromCache, CompilesMaterialised
<1>3. OwnBlocks
    BY CacheNames DEF Init, OwnBlocks, NoObject
<1>4. LoneWriter /\ FilesWhole /\ ObjectsWhole
    BY DEF Init, LoneWriter, FilesWhole, ObjectsWhole
<1>5. QED
    BY <1>1, <1>2, <1>3, <1>4 DEF JITInv

\* The invariant of the object cache: types, the order of doJITExec, and what
\* the files hold with and without faults and overlapping writers.
THEOREM JITInvariance == Spec => []JITInv
<1>1. JITInv /\ [Next]_vars => JITInv'
    BY TypePreserved, ProgressPreserved, LoadedPreserved, CompilesPreserved,
        OwnBlocksPreserved, WriterPreserved, FilesPreserved, ObjectsPreserved
        DEF JITInv
<1>2. QED
    BY JITInvInit, <1>1, PTL DEF Spec

\* No module is compiled before LoadModule has materialised it, although the
\* cache is asked twice and other processes write to it in between.
THEOREM MaterialisedBeforeCompiled == Spec => []CompilesMaterialised
<1>1. JITInv => CompilesMaterialised
    BY DEF JITInv
<1>2. QED
    BY JITInvariance, <1>1, PTL

\* Without faults, and unless a file is opened while another process writes
\* it, a program that runHosted starts has the whole object of each module
\* whose cache name is its own.
THEOREM LoneProgramsWhole == Spec => []LoneObjectsWhole
<1>1. ASSUME JITInv
      PROVE  LoneObjectsWhole
  <2> SUFFICES ASSUME faults = 0, ~overlap, NEW p \in Procs, pc[p] = "run",
                      NEW m \in exe[p], Unshared(m)
               PROVE  got[p][m] = ObjectOf(m)
    BY DEF LoneObjectsWhole
  <2>1. m \in Modules /\ m \notin Pending(p)
    BY <1>1 DEF JITInv, JITTypeOK, Progress
  <2>2. got[p][m] # NoObject \/ m \in compiled[p]
    BY <2>1 DEF Pending
  <2>3. QED
    BY <1>1, <2>1, <2>2 DEF JITInv, ObjectsWhole
<1>2. QED
    BY JITInvariance, <1>1, PTL

\* The CRC in a name of its own identifies the object even when crashes and
\* racing writers have left the file short: a module is never given a block
\* of another module's code.
THEOREM UnsharedIdentified == Spec => []OwnBlocks
<1>1. JITInv => OwnBlocks
    BY DEF JITInv
<1>2. QED
    BY JITInvariance, <1>1, PTL
=============================================================================
