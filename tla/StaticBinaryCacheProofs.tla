---------------------- MODULE StaticBinaryCacheProofs ----------------------
(***************************************************************************)
(* Proofs about StaticBinaryCache, for any number of processes, blocks,    *)
(* inodes and faults.  The theorems at the end rest on one inductive       *)
(* invariant, Inv; there is a lemma for each of its parts and, in it, a    *)
(* step for each action.                                                   *)
(***************************************************************************)
EXTENDS StaticBinaryCache, TLAPS

\* A fault keeps the count within its bound, and makes it positive.
LEMMA FaultCounts ==
    faults \in 0..MaxFaults /\ Fault => faults' \in 0..MaxFaults /\ faults' # 0
BY MaxFaultsAssumption DEF Fault

\* Every step keeps the types.
LEMMA TypePreserved ==
    TypeOK /\ Descriptors /\ [Next]_vars => TypeOK'
<1> SUFFICES ASSUME TypeOK, Descriptors, [Next]_vars
             PROVE  TypeOK'
    OBVIOUS
<1> USE NoInodeAssumption, NumBlocksAssumption, MaxFaultsAssumption
<1>1. ASSUME NEW p \in Procs, NEW t \in Tools, NEW n \in {1, 2},
              Invoke(p, t, n)
      PROVE  TypeOK'
    BY <1>1 DEF Invoke, files, TypeOK, Blocks, Tools, Over, Filling,
        Running
<1>2. ASSUME NEW p \in Procs, AOTHit(p)
      PROVE  TypeOK'
    BY <1>2 DEF AOTHit, Move, AfterAOT, files, TypeOK, Blocks, Tools,
        Over, Filling, Running
<1>3. ASSUME NEW p \in Procs, AOTMiss(p)
      PROVE  TypeOK'
    BY <1>3 DEF AOTMiss, Move, files, TypeOK, Blocks, Tools, Over,
        Filling, Running
<1>4. ASSUME NEW p \in Procs, NoTempFile(p)
      PROVE  TypeOK'
  <2>1. faults' \in 0..MaxFaults
    BY <1>4, FaultCounts DEF NoTempFile, TypeOK
  <2>2. QED
    BY <1>4, <2>1 DEF NoTempFile, Move, files, TypeOK, Blocks, Tools,
        Over, Filling, Running
<1>5. ASSUME NEW p \in Procs, CodeGen(p)
      PROVE  TypeOK'
    BY <1>5 DEF CodeGen, Move, files, TypeOK, Blocks, Tools, Over,
        Filling, Running
<1>6. ASSUME NEW p \in Procs, CompileFails(p)
      PROVE  TypeOK'
    BY <1>6 DEF CompileFails, files, TypeOK, Blocks, Tools, Over,
        Filling, Running
<1>7. ASSUME NEW p \in Procs, Link(p)
      PROVE  TypeOK'
    BY <1>7 DEF Link, Move, files, TypeOK, Blocks, Tools, Over, Filling,
        Running
<1>8. ASSUME NEW p \in Procs, OpenTmp(p)
      PROVE  TypeOK'
  <2>1. PICK i \in Inodes :
            /\ \/ tmpEnt = NoInode /\ Unused(i)
                  /\ mode' = [mode EXCEPT ![i] = "rw"]
               \/ tmpEnt = i /\ mode[i] = "rw" /\ mode' = mode
            /\ tmpEnt' = i
            /\ data' = [data EXCEPT ![i] = {}]
            /\ wfd' = [wfd EXCEPT ![p] = i]
    BY <1>8 DEF OpenTmp
  <2>2. /\ pc' \in [Procs -> Over \cup Running]
        /\ off' \in [Procs -> 0..NumBlocks]
    <3>1. /\ pc' = [pc EXCEPT ![p] = "write"]
          /\ off' = [off EXCEPT ![p] = 0]
      BY <1>8 DEF OpenTmp, Move
    <3>2. QED
      BY <3>1 DEF TypeOK, Filling, Running
  <2>3. /\ tmpEnt' \in Inodes \cup {NoInode}
        /\ data' \in [Inodes -> SUBSET Blocks]
        /\ mode' \in [Inodes -> {"rw", "rx"}]
        /\ wfd' \in [Procs -> Inodes \cup {NoInode}]
    BY <2>1 DEF TypeOK
  <2>4. overlap' \in BOOLEAN
    BY <1>8 DEF OpenTmp
  <2>5. QED
    BY <1>8, <2>2, <2>3, <2>4 DEF OpenTmp, TypeOK
<1>9. ASSUME NEW p \in Procs, OpenTmpDenied(p)
      PROVE  TypeOK'
    BY <1>9 DEF OpenTmpDenied, Move, files, TypeOK, Blocks, Tools, Over,
        Filling, Running
<1>10. ASSUME NEW p \in Procs, WriteBlock(p)
      PROVE  TypeOK'
  <2>1. off' \in [Procs -> 0..NumBlocks]
    BY <1>10 DEF WriteBlock, TypeOK
  <2>2. off[p] + 1 \in Blocks
    BY <1>10 DEF WriteBlock, TypeOK, Blocks
  <2>3. data' \in [Inodes -> SUBSET Blocks]
    BY <1>10, <2>2 DEF WriteBlock, TypeOK
  <2>4. QED
    BY <1>10, <2>1, <2>3 DEF WriteBlock, TypeOK
<1>11. ASSUME NEW p \in Procs, CloseTmp(p)
      PROVE  TypeOK'
    BY <1>11 DEF CloseTmp, Move, files, TypeOK, Blocks, Tools, Over,
        Filling, Running
<1>12. ASSUME NEW p \in Procs, CopyFails(p)
      PROVE  TypeOK'
  <2>1. faults' \in 0..MaxFaults
    BY <1>12, FaultCounts DEF CopyFails, TypeOK
  <2>2. QED
    BY <1>12, <2>1 DEF CopyFails, files, TypeOK, Blocks, Tools,
        Over, Filling, Running
<1>13. ASSUME NEW p \in Procs, ChmodTmp(p)
      PROVE  TypeOK'
    BY <1>13 DEF ChmodTmp, Move, files, TypeOK, Blocks, Tools, Over,
        Filling, Running
<1>14. ASSUME NEW p \in Procs, ChmodFails(p)
      PROVE  TypeOK'
    BY <1>14 DEF ChmodFails, Move, files, TypeOK, Blocks, Tools, Over,
        Filling, Running
<1>15. ASSUME NEW p \in Procs, RenameTmp(p)
      PROVE  TypeOK'
    BY <1>15 DEF RenameTmp, Move, files, TypeOK, Blocks, Tools, Over,
        Filling, Running
<1>16. ASSUME NEW p \in Procs, RenameFails(p)
      PROVE  TypeOK'
    BY <1>16 DEF RenameFails, Move, files, TypeOK, Blocks, Tools, Over,
        Filling, Running
<1>17. ASSUME NEW p \in Procs, Retrieve(p)
      PROVE  TypeOK'
    BY <1>17 DEF Retrieve, Move, AfterAOT, files, TypeOK, Blocks, Tools,
        Over, Filling, Running
<1>18. ASSUME NEW p \in Procs, StaticMiss(p)
      PROVE  TypeOK'
    BY <1>18 DEF StaticMiss, Move, files, TypeOK, Blocks, Tools, Over,
        Filling, Running
<1>19. ASSUME NEW p \in Procs, StaticHit(p)
      PROVE  TypeOK'
  <2>1. pc' \in [Procs -> Over \cup Running]
    BY <1>19, ZenonT(30) DEF StaticHit, Move, TypeOK, Over, Running
  <2>2. fd' \in [Procs -> Inodes \cup {NoInode}]
    BY <1>19 DEF StaticHit, TypeOK
  <2>3. QED
    BY <1>19, <2>1, <2>2 DEF StaticHit, files, TypeOK
<1>20. ASSUME NEW p \in Procs, Fexecve(p)
      PROVE  TypeOK'
  <2>1. pc' \in [Procs -> Over \cup Running]
    BY <1>20, ZenonT(30) DEF Fexecve, TypeOK, Over, Running
  <2>2. CASE fd[p] \in Inodes
    <3>1. ran' \in [Procs -> SUBSET Blocks]
      BY <1>20, <2>2 DEF Fexecve, TypeOK
    <3>2. QED
      BY <1>20, <2>1, <3>1 DEF Fexecve, files, TypeOK
  <2>3. QED
    BY <1>20, <2>2 DEF Fexecve, Descriptors, TypeOK
<1>21. ASSUME NEW p \in Procs, Crash(p)
      PROVE  TypeOK'
  <2>1. faults' \in 0..MaxFaults
    BY <1>21, FaultCounts DEF Crash, TypeOK
  <2>2. QED
    BY <1>21, <2>1 DEF Crash, files, TypeOK, Blocks, Tools,
        Over, Filling, Running
<1>22. CASE UNCHANGED vars
    BY <1>22 DEF vars, TypeOK, Blocks, Tools, Over, Filling, Running
<1>23. QED
    BY <1>1, <1>2, <1>3, <1>4, <1>5, <1>6, <1>7, <1>8, <1>9, <1>10,
        <1>11, <1>12, <1>13, <1>14, <1>15, <1>16, <1>17, <1>18, <1>19, <1>20,
        <1>21, <1>22 DEF Next, Step

\* Descriptors are held only while in use, and .tmp is never published.
LEMMA DescriptorsPreserved ==
    TypeOK /\ Descriptors /\ [Next]_vars => Descriptors'
<1> SUFFICES ASSUME TypeOK, Descriptors, [Next]_vars
             PROVE  Descriptors'
    OBVIOUS
<1> USE NoInodeAssumption, NumBlocksAssumption, MaxFaultsAssumption
<1>1. ASSUME NEW p \in Procs, NEW t \in Tools, NEW n \in {1, 2},
              Invoke(p, t, n)
      PROVE  Descriptors'
    BY <1>1 DEF Invoke, files, Descriptors, TypeOK, Blocks, Tools, Over,
        Filling, Running
<1>2. ASSUME NEW p \in Procs, AOTHit(p)
      PROVE  Descriptors'
    BY <1>2 DEF AOTHit, Move, AfterAOT, files, Descriptors, TypeOK,
        Blocks, Tools, Over, Filling, Running
<1>3. ASSUME NEW p \in Procs, AOTMiss(p)
      PROVE  Descriptors'
    BY <1>3 DEF AOTMiss, Move, files, Descriptors, TypeOK, Blocks, Tools,
        Over, Filling, Running
<1>4. ASSUME NEW p \in Procs, NoTempFile(p)
      PROVE  Descriptors'
    BY <1>4 DEF NoTempFile, Move, Fault, files, Descriptors, TypeOK,
        Blocks, Tools, Over, Filling, Running
<1>5. ASSUME NEW p \in Procs, CodeGen(p)
      PROVE  Descriptors'
    BY <1>5 DEF CodeGen, Move, files, Descriptors, TypeOK, Blocks, Tools,
        Over, Filling, Running
<1>6. ASSUME NEW p \in Procs, CompileFails(p)
      PROVE  Descriptors'
    BY <1>6 DEF CompileFails, files, Descriptors, TypeOK, Blocks, Tools,
        Over, Filling, Running
<1>7. ASSUME NEW p \in Procs, Link(p)
      PROVE  Descriptors'
    BY <1>7 DEF Link, Move, files, Descriptors, TypeOK, Blocks, Tools,
        Over, Filling, Running
<1>8. ASSUME NEW p \in Procs, OpenTmp(p)
      PROVE  Descriptors'
  <2>1. PICK i \in Inodes :
            /\ \/ tmpEnt = NoInode /\ Unused(i)
               \/ tmpEnt = i
            /\ tmpEnt' = i
            /\ wfd' = [wfd EXCEPT ![p] = i]
    BY <1>8 DEF OpenTmp
  <2>2. i # cacheEnt /\ \A q \in Procs : fd[q] # i
    BY <2>1 DEF Unused, Descriptors
  <2>3. \A q \in Procs : wfd'[q] # NoInode <=> pc'[q] = "write"
    BY <1>8, <2>1 DEF OpenTmp, Move, Descriptors, TypeOK
  <2>4. \A q \in Procs : fd'[q] # NoInode <=> pc'[q] = "fexecve"
    BY <1>8 DEF OpenTmp, Move, Descriptors, TypeOK
  <2>5. QED
    BY <1>8, <2>1, <2>2, <2>3, <2>4 DEF OpenTmp, Descriptors
<1>9. ASSUME NEW p \in Procs, OpenTmpDenied(p)
      PROVE  Descriptors'
    BY <1>9 DEF OpenTmpDenied, Move, files, Descriptors, TypeOK, Blocks,
        Tools, Over, Filling, Running
<1>10. ASSUME NEW p \in Procs, WriteBlock(p)
      PROVE  Descriptors'
    BY <1>10 DEF WriteBlock, files, Descriptors, TypeOK, Blocks, Tools,
        Over, Filling, Running
<1>11. ASSUME NEW p \in Procs, CloseTmp(p)
      PROVE  Descriptors'
    BY <1>11 DEF CloseTmp, Move, files, Descriptors, TypeOK, Blocks,
        Tools, Over, Filling, Running
<1>12. ASSUME NEW p \in Procs, CopyFails(p)
      PROVE  Descriptors'
    BY <1>12 DEF CopyFails, Fault, files, Descriptors, TypeOK, Blocks,
        Tools, Over, Filling, Running
<1>13. ASSUME NEW p \in Procs, ChmodTmp(p)
      PROVE  Descriptors'
    BY <1>13 DEF ChmodTmp, Move, files, Descriptors, TypeOK, Blocks,
        Tools, Over, Filling, Running
<1>14. ASSUME NEW p \in Procs, ChmodFails(p)
      PROVE  Descriptors'
    BY <1>14 DEF ChmodFails, Move, files, Descriptors, TypeOK, Blocks,
        Tools, Over, Filling, Running
<1>15. ASSUME NEW p \in Procs, RenameTmp(p)
      PROVE  Descriptors'
    BY <1>15 DEF RenameTmp, Move, files, Descriptors, TypeOK, Blocks,
        Tools, Over, Filling, Running
<1>16. ASSUME NEW p \in Procs, RenameFails(p)
      PROVE  Descriptors'
    BY <1>16 DEF RenameFails, Move, files, Descriptors, TypeOK, Blocks,
        Tools, Over, Filling, Running
<1>17. ASSUME NEW p \in Procs, Retrieve(p)
      PROVE  Descriptors'
    BY <1>17 DEF Retrieve, Move, AfterAOT, files, Descriptors, TypeOK,
        Blocks, Tools, Over, Filling, Running
<1>18. ASSUME NEW p \in Procs, StaticMiss(p)
      PROVE  Descriptors'
    BY <1>18 DEF StaticMiss, Move, files, Descriptors, TypeOK, Blocks,
        Tools, Over, Filling, Running
<1>19. ASSUME NEW p \in Procs, StaticHit(p)
      PROVE  Descriptors'
  <2>1. cacheEnt \in Inodes /\ tmpEnt # cacheEnt
    BY <1>19 DEF StaticHit, Descriptors, TypeOK
  <2>2. CASE tool[p] = "alley -noexec"
    BY <1>19, <2>2 DEF StaticHit, Move, files, Descriptors, TypeOK
  <2>3. CASE tool[p] # "alley -noexec"
    <3>1. /\ pc' = [pc EXCEPT ![p] = "fexecve"]
          /\ fd' = [fd EXCEPT ![p] = cacheEnt]
          /\ pc[p] = "static"
          /\ UNCHANGED <<tmpEnt, cacheEnt, wfd>>
      BY <1>19, <2>3 DEF StaticHit, Move, files
    <3>2. QED
      BY <2>1, <3>1 DEF Descriptors, TypeOK
  <2>4. QED
    BY <2>2, <2>3
<1>20. ASSUME NEW p \in Procs, Fexecve(p)
      PROVE  Descriptors'
    BY <1>20, ZenonT(30) DEF Fexecve, files, Descriptors, TypeOK, Blocks, Tools,
        Over, Filling, Running
<1>21. ASSUME NEW p \in Procs, Crash(p)
      PROVE  Descriptors'
    BY <1>21 DEF Crash, Fault, files, Descriptors, TypeOK, Blocks, Tools,
        Over, Filling, Running
<1>22. CASE UNCHANGED vars
    BY <1>22 DEF vars, Descriptors, TypeOK, Blocks, Tools, Over, Filling,
        Running
<1>23. QED
    BY <1>1, <1>2, <1>3, <1>4, <1>5, <1>6, <1>7, <1>8, <1>9, <1>10,
        <1>11, <1>12, <1>13, <1>14, <1>15, <1>16, <1>17, <1>18, <1>19, <1>20,
        <1>21, <1>22 DEF Next, Step

\* A process that has renamed its file finds the entry.
LEMMA PublishedPreserved ==
    TypeOK /\ Published /\ [Next]_vars => Published'
<1> SUFFICES ASSUME TypeOK, Published, [Next]_vars
             PROVE  Published'
    OBVIOUS
<1> USE NoInodeAssumption, NumBlocksAssumption, MaxFaultsAssumption
<1>1. ASSUME NEW p \in Procs, NEW t \in Tools, NEW n \in {1, 2},
              Invoke(p, t, n)
      PROVE  Published'
    BY <1>1 DEF Invoke, files, Published, TypeOK, Blocks, Tools, Over,
        Filling, Running
<1>2. ASSUME NEW p \in Procs, AOTHit(p)
      PROVE  Published'
    BY <1>2 DEF AOTHit, Move, AfterAOT, files, Published, TypeOK, Blocks,
        Tools, Over, Filling, Running
<1>3. ASSUME NEW p \in Procs, AOTMiss(p)
      PROVE  Published'
    BY <1>3 DEF AOTMiss, Move, files, Published, TypeOK, Blocks, Tools,
        Over, Filling, Running
<1>4. ASSUME NEW p \in Procs, NoTempFile(p)
      PROVE  Published'
    BY <1>4 DEF NoTempFile, Move, Fault, files, Published, TypeOK,
        Blocks, Tools, Over, Filling, Running
<1>5. ASSUME NEW p \in Procs, CodeGen(p)
      PROVE  Published'
    BY <1>5 DEF CodeGen, Move, files, Published, TypeOK, Blocks, Tools,
        Over, Filling, Running
<1>6. ASSUME NEW p \in Procs, CompileFails(p)
      PROVE  Published'
    BY <1>6 DEF CompileFails, files, Published, TypeOK, Blocks, Tools,
        Over, Filling, Running
<1>7. ASSUME NEW p \in Procs, Link(p)
      PROVE  Published'
    BY <1>7 DEF Link, Move, files, Published, TypeOK, Blocks, Tools,
        Over, Filling, Running
<1>8. ASSUME NEW p \in Procs, OpenTmp(p)
      PROVE  Published'
    BY <1>8 DEF OpenTmp, Move, files, Published, TypeOK, Blocks, Tools,
        Over, Filling, Running
<1>9. ASSUME NEW p \in Procs, OpenTmpDenied(p)
      PROVE  Published'
    BY <1>9 DEF OpenTmpDenied, Move, files, Published, TypeOK, Blocks,
        Tools, Over, Filling, Running
<1>10. ASSUME NEW p \in Procs, WriteBlock(p)
      PROVE  Published'
    BY <1>10 DEF WriteBlock, files, Published, TypeOK, Blocks, Tools,
        Over, Filling, Running
<1>11. ASSUME NEW p \in Procs, CloseTmp(p)
      PROVE  Published'
    BY <1>11 DEF CloseTmp, Move, files, Published, TypeOK, Blocks, Tools,
        Over, Filling, Running
<1>12. ASSUME NEW p \in Procs, CopyFails(p)
      PROVE  Published'
    BY <1>12 DEF CopyFails, Fault, files, Published, TypeOK, Blocks,
        Tools, Over, Filling, Running
<1>13. ASSUME NEW p \in Procs, ChmodTmp(p)
      PROVE  Published'
    BY <1>13 DEF ChmodTmp, Move, files, Published, TypeOK, Blocks, Tools,
        Over, Filling, Running
<1>14. ASSUME NEW p \in Procs, ChmodFails(p)
      PROVE  Published'
    BY <1>14 DEF ChmodFails, Move, files, Published, TypeOK, Blocks,
        Tools, Over, Filling, Running
<1>15. ASSUME NEW p \in Procs, RenameTmp(p)
      PROVE  Published'
    BY <1>15 DEF RenameTmp, Move, files, Published, TypeOK, Blocks,
        Tools, Over, Filling, Running
<1>16. ASSUME NEW p \in Procs, RenameFails(p)
      PROVE  Published'
    BY <1>16 DEF RenameFails, Move, files, Published, TypeOK, Blocks,
        Tools, Over, Filling, Running
<1>17. ASSUME NEW p \in Procs, Retrieve(p)
      PROVE  Published'
    BY <1>17 DEF Retrieve, Move, AfterAOT, files, Published, TypeOK,
        Blocks, Tools, Over, Filling, Running
<1>18. ASSUME NEW p \in Procs, StaticMiss(p)
      PROVE  Published'
    BY <1>18 DEF StaticMiss, Move, files, Published, TypeOK, Blocks,
        Tools, Over, Filling, Running
<1>19. ASSUME NEW p \in Procs, StaticHit(p)
      PROVE  Published'
    BY <1>19 DEF StaticHit, Move, files, Published, TypeOK, Blocks,
        Tools, Over, Filling, Running
<1>20. ASSUME NEW p \in Procs, Fexecve(p)
      PROVE  Published'
    BY <1>20, ZenonT(30) DEF Fexecve, files, Published, TypeOK, Blocks, Tools, Over,
        Filling, Running
<1>21. ASSUME NEW p \in Procs, Crash(p)
      PROVE  Published'
    BY <1>21 DEF Crash, Fault, files, Published, TypeOK, Blocks, Tools,
        Over, Filling, Running
<1>22. CASE UNCHANGED vars
    BY <1>22 DEF vars, Published, TypeOK, Blocks, Tools, Over, Filling,
        Running
<1>23. QED
    BY <1>1, <1>2, <1>3, <1>4, <1>5, <1>6, <1>7, <1>8, <1>9, <1>10,
        <1>11, <1>12, <1>13, <1>14, <1>15, <1>16, <1>17, <1>18, <1>19, <1>20,
        <1>21, <1>22 DEF Next, Step

\* Steps that touch neither files nor descriptors keep TornHasWriter.
LEMMA TornUnchanged ==
    /\ TornHasWriter
    /\ UNCHANGED <<tmpEnt, cacheEnt, data, wfd, off, fd, faults>>
    => TornHasWriter'
BY DEF TornHasWriter, Reachable, Whole, Completes

\* So does a fault, which only has to be counted.
LEMMA TornAfterFault ==
    TypeOK /\ Fault => TornHasWriter'
BY FaultCounts DEF TornHasWriter, TypeOK

\* While there has been no fault, a file with blocks missing has a writer.
LEMMA TornPreserved ==
    TypeOK /\ Descriptors /\ TornHasWriter /\ [Next]_vars => TornHasWriter'
<1> SUFFICES ASSUME TypeOK, Descriptors, TornHasWriter, [Next]_vars
             PROVE  TornHasWriter'
    OBVIOUS
<1> USE NoInodeAssumption, NumBlocksAssumption, MaxFaultsAssumption
<1>1. ASSUME NEW p \in Procs, NEW t \in Tools, NEW n \in {1, 2},
              Invoke(p, t, n)
      PROVE  TornHasWriter'
    BY <1>1, TornUnchanged DEF Invoke, files
<1>2. ASSUME NEW p \in Procs, AOTHit(p)
      PROVE  TornHasWriter'
    BY <1>2, TornUnchanged DEF AOTHit, files
<1>3. ASSUME NEW p \in Procs, AOTMiss(p)
      PROVE  TornHasWriter'
    BY <1>3, TornUnchanged DEF AOTMiss, files
<1>4. ASSUME NEW p \in Procs, NoTempFile(p)
      PROVE  TornHasWriter'
    BY <1>4, TornAfterFault DEF NoTempFile
<1>5. ASSUME NEW p \in Procs, CodeGen(p)
      PROVE  TornHasWriter'
    BY <1>5, TornUnchanged DEF CodeGen, files
<1>6. ASSUME NEW p \in Procs, CompileFails(p)
      PROVE  TornHasWriter'
    BY <1>6, TornUnchanged DEF CompileFails, files
<1>7. ASSUME NEW p \in Procs, Link(p)
      PROVE  TornHasWriter'
    BY <1>7, TornUnchanged DEF Link, files
<1>8. ASSUME NEW p \in Procs, OpenTmp(p)
      PROVE  TornHasWriter'
  <2>1. PICK i \in Inodes :
            /\ tmpEnt' = i
            /\ data' = [data EXCEPT ![i] = {}]
            /\ wfd' = [wfd EXCEPT ![p] = i]
    BY <1>8 DEF OpenTmp
  <2>2. /\ off' = [off EXCEPT ![p] = 0]
        /\ UNCHANGED <<cacheEnt, fd, faults>>
        /\ pc[p] # "write"
    BY <1>8 DEF OpenTmp, Move
  <2>3. wfd[p] = NoInode
    BY <2>2 DEF Descriptors
  <2>4. SUFFICES ASSUME faults = 0, NEW j \in Inodes, Reachable(j)'
                 PROVE  Whole(j)' \/ \E q \in Procs : Completes(q, j)'
    BY <2>2 DEF TornHasWriter
  <2>5. CASE j = i
    <3>1. 1..off'[p] = {}
      BY <2>2 DEF TypeOK
    <3>2. wfd'[p] = i
      BY <2>1 DEF TypeOK
    <3>3. Completes(p, j)'
      BY <2>5, <3>1, <3>2 DEF Completes
    <3>4. QED
      BY <3>3
  <2>6. CASE j # i
    <3>1. Reachable(j)
      BY <2>1, <2>2, <2>4, <2>6 DEF Reachable
    <3>2. data'[j] = data[j]
      BY <2>1, <2>6 DEF TypeOK
    <3>3. CASE Whole(j)
      BY <3>2, <3>3 DEF Whole
    <3>4. CASE \E q \in Procs : Completes(q, j)
      <4>1. PICK q \in Procs : Completes(q, j)
        BY <3>4
      <4>2. q # p
        BY <2>3, <4>1 DEF Completes
      <4>3. wfd'[q] = wfd[q] /\ off'[q] = off[q]
        BY <2>1, <2>2, <4>2 DEF TypeOK
      <4>4. Completes(q, j)'
        BY <3>2, <4>1, <4>3 DEF Completes
      <4>5. QED
        BY <4>4
    <3>5. QED
      BY <2>4, <3>1, <3>3, <3>4 DEF TornHasWriter
  <2>7. QED
    BY <2>5, <2>6
<1>9. ASSUME NEW p \in Procs, OpenTmpDenied(p)
      PROVE  TornHasWriter'
    BY <1>9, TornUnchanged DEF OpenTmpDenied, files
<1>10. ASSUME NEW p \in Procs, WriteBlock(p)
      PROVE  TornHasWriter'
  <2>1. /\ pc[p] = "write"
        /\ off[p] < NumBlocks
        /\ data' = [data EXCEPT ![wfd[p]] = @ \cup {off[p] + 1}]
        /\ off' = [off EXCEPT ![p] = @ + 1]
        /\ UNCHANGED <<tmpEnt, cacheEnt, wfd, fd, faults>>
    BY <1>10 DEF WriteBlock
  <2>2. wfd[p] \in Inodes /\ off[p] + 1 \in Blocks /\ off[p] \in Nat
    BY <2>1 DEF Descriptors, TypeOK, Blocks
  <2>3. SUFFICES ASSUME faults = 0, NEW j \in Inodes, Reachable(j)
                 PROVE  Whole(j)' \/ \E q \in Procs : Completes(q, j)'
    BY <2>1 DEF TornHasWriter, Reachable
  <2>4. data[j] \subseteq data'[j] /\ data'[j] \subseteq Blocks
    BY <2>1, <2>2 DEF TypeOK
  <2>5. CASE Whole(j)
    BY <2>4, <2>5 DEF Whole
  <2>6. CASE \E q \in Procs : Completes(q, j)
    <3>1. PICK q \in Procs : Completes(q, j)
      BY <2>6
    <3>2. CASE q = p
      <4>1. off[p] + 1 \in data'[j]
        BY <2>1, <2>2, <3>1, <3>2 DEF Completes, TypeOK
      <4>2. off'[p] = off[p] + 1
        BY <2>1 DEF TypeOK
      <4>3. 1..(off[p] + 1) = (1..off[p]) \cup {off[p] + 1}
        BY <2>2
      <4>4. 1..off'[p] \subseteq data'[j]
        BY <2>4, <3>1, <3>2, <4>1, <4>2, <4>3 DEF Completes
      <4>5. QED
        BY <2>1, <3>1, <3>2, <4>4 DEF Completes
    <3>3. CASE q # p
      <4>1. off'[q] = off[q]
        BY <2>1, <3>3 DEF TypeOK
      <4>2. Completes(q, j)'
        BY <2>1, <2>4, <3>1, <4>1 DEF Completes
      <4>3. QED
        BY <4>2
    <3>4. QED
      BY <3>2, <3>3
  <2>7. QED
    BY <2>3, <2>5, <2>6 DEF TornHasWriter
<1>11. ASSUME NEW p \in Procs, CloseTmp(p)
      PROVE  TornHasWriter'
  <2>1. /\ off[p] = NumBlocks
        /\ wfd' = [wfd EXCEPT ![p] = NoInode]
        /\ UNCHANGED <<tmpEnt, cacheEnt, data, off, fd, faults>>
    BY <1>11 DEF CloseTmp, files
  <2>2. SUFFICES ASSUME faults = 0, NEW j \in Inodes, Reachable(j)
                 PROVE  Whole(j)' \/ \E q \in Procs : Completes(q, j)'
    BY <2>1 DEF TornHasWriter, Reachable
  <2>3. CASE Whole(j)
    BY <2>1, <2>3 DEF Whole
  <2>4. CASE \E q \in Procs : Completes(q, j)
    <3>1. PICK q \in Procs : Completes(q, j)
      BY <2>4
    <3>2. CASE q = p
      <4>1. Blocks \subseteq data[j] /\ data[j] \subseteq Blocks
        BY <2>1, <3>1, <3>2 DEF Completes, Blocks, TypeOK
      <4>2. QED
        BY <2>1, <4>1 DEF Whole
    <3>3. CASE q # p
      <4>1. wfd'[q] = wfd[q]
        BY <2>1, <3>3 DEF TypeOK
      <4>2. Completes(q, j)'
        BY <2>1, <3>1, <4>1 DEF Completes
      <4>3. QED
        BY <4>2
    <3>4. QED
      BY <3>2, <3>3
  <2>5. QED
    BY <2>2, <2>3, <2>4 DEF TornHasWriter
<1>12. ASSUME NEW p \in Procs, CopyFails(p)
      PROVE  TornHasWriter'
    BY <1>12, TornAfterFault DEF CopyFails
<1>13. ASSUME NEW p \in Procs, ChmodTmp(p)
      PROVE  TornHasWriter'
    BY <1>13, TornUnchanged DEF ChmodTmp, files
<1>14. ASSUME NEW p \in Procs, ChmodFails(p)
      PROVE  TornHasWriter'
    BY <1>14, TornUnchanged DEF ChmodFails, files
<1>15. ASSUME NEW p \in Procs, RenameTmp(p)
      PROVE  TornHasWriter'
  <2>1. /\ cacheEnt' = tmpEnt
        /\ tmpEnt' = NoInode
        /\ UNCHANGED <<data, wfd, off, fd, faults>>
    BY <1>15 DEF RenameTmp, files
  <2>2. \A j \in Inodes : Reachable(j)' => Reachable(j)
    BY <2>1, NoInodeAssumption DEF Reachable, TypeOK
  <2>3. \A j \in Inodes : /\ Whole(j)' <=> Whole(j)
                          /\ \A q \in Procs : Completes(q, j)' <=> Completes(q, j)
    BY <2>1 DEF Whole, Completes
  <2>4. QED
    BY <2>1, <2>2, <2>3 DEF TornHasWriter
<1>16. ASSUME NEW p \in Procs, RenameFails(p)
      PROVE  TornHasWriter'
    BY <1>16, TornUnchanged DEF RenameFails, files
<1>17. ASSUME NEW p \in Procs, Retrieve(p)
      PROVE  TornHasWriter'
    BY <1>17, TornUnchanged DEF Retrieve, files
<1>18. ASSUME NEW p \in Procs, StaticMiss(p)
      PROVE  TornHasWriter'
    BY <1>18, TornUnchanged DEF StaticMiss, files
<1>19. ASSUME NEW p \in Procs, StaticHit(p)
      PROVE  TornHasWriter'
  <2>1. /\ fd' = fd \/ fd' = [fd EXCEPT ![p] = cacheEnt]
        /\ UNCHANGED <<tmpEnt, cacheEnt, data, wfd, off, faults>>
    BY <1>19 DEF StaticHit, files
  <2>2. \A j \in Inodes : Reachable(j)' => Reachable(j)
    BY <2>1, NoInodeAssumption DEF Reachable, TypeOK
  <2>3. \A j \in Inodes : /\ Whole(j)' <=> Whole(j)
                          /\ \A q \in Procs : Completes(q, j)' <=> Completes(q, j)
    BY <2>1 DEF Whole, Completes
  <2>4. QED
    BY <2>1, <2>2, <2>3 DEF TornHasWriter
<1>20. ASSUME NEW p \in Procs, Fexecve(p)
      PROVE  TornHasWriter'
  <2>1. /\ fd' = [fd EXCEPT ![p] = NoInode]
        /\ UNCHANGED <<tmpEnt, cacheEnt, data, wfd, off, faults>>
    BY <1>20 DEF Fexecve, files
  <2>2. \A j \in Inodes : Reachable(j)' => Reachable(j)
    BY <2>1, NoInodeAssumption DEF Reachable, TypeOK
  <2>3. \A j \in Inodes : /\ Whole(j)' <=> Whole(j)
                          /\ \A q \in Procs : Completes(q, j)' <=> Completes(q, j)
    BY <2>1 DEF Whole, Completes
  <2>4. QED
    BY <2>1, <2>2, <2>3 DEF TornHasWriter
<1>21. ASSUME NEW p \in Procs, Crash(p)
      PROVE  TornHasWriter'
    BY <1>21, TornAfterFault DEF Crash
<1>22. CASE UNCHANGED vars
    BY <1>22, TornUnchanged DEF vars
<1>23. QED
    BY <1>1, <1>2, <1>3, <1>4, <1>5, <1>6, <1>7, <1>8, <1>9, <1>10,
        <1>11, <1>12, <1>13, <1>14, <1>15, <1>16, <1>17, <1>18, <1>19, <1>20,
        <1>21, <1>22 DEF Next, Step

\* Without overlap only whole, executable files are published.
LEMMA LonePublishPreserved ==
    TypeOK /\ Descriptors /\ LoneFill /\ LoneFillsPublishWhole /\ [Next]_vars => LoneFillsPublishWhole'
<1> SUFFICES ASSUME TypeOK, Descriptors, LoneFill, LoneFillsPublishWhole, [Next]_vars
             PROVE  LoneFillsPublishWhole'
    OBVIOUS
<1> USE NoInodeAssumption, NumBlocksAssumption, MaxFaultsAssumption
<1>1. ASSUME NEW p \in Procs, NEW t \in Tools, NEW n \in {1, 2},
              Invoke(p, t, n)
      PROVE  LoneFillsPublishWhole'
    BY <1>1 DEF Invoke, files, LoneFillsPublishWhole, LoneFill, Filling,
        Whole, Completes, TypeOK
<1>2. ASSUME NEW p \in Procs, AOTHit(p)
      PROVE  LoneFillsPublishWhole'
    BY <1>2 DEF AOTHit, Move, AfterAOT, files, LoneFillsPublishWhole,
        LoneFill, Filling, Whole, Completes, TypeOK
<1>3. ASSUME NEW p \in Procs, AOTMiss(p)
      PROVE  LoneFillsPublishWhole'
    BY <1>3 DEF AOTMiss, Move, files, LoneFillsPublishWhole, LoneFill,
        Filling, Whole, Completes, TypeOK
<1>4. ASSUME NEW p \in Procs, NoTempFile(p)
      PROVE  LoneFillsPublishWhole'
    BY <1>4 DEF NoTempFile, Move, Fault, files, LoneFillsPublishWhole,
        LoneFill, Filling, Whole, Completes, TypeOK
<1>5. ASSUME NEW p \in Procs, CodeGen(p)
      PROVE  LoneFillsPublishWhole'
    BY <1>5 DEF CodeGen, Move, files, LoneFillsPublishWhole, LoneFill,
        Filling, Whole, Completes, TypeOK
<1>6. ASSUME NEW p \in Procs, CompileFails(p)
      PROVE  LoneFillsPublishWhole'
    BY <1>6 DEF CompileFails, files, LoneFillsPublishWhole, LoneFill,
        Filling, Whole, Completes, TypeOK
<1>7. ASSUME NEW p \in Procs, Link(p)
      PROVE  LoneFillsPublishWhole'
    BY <1>7 DEF Link, Move, files, LoneFillsPublishWhole, LoneFill,
        Filling, Whole, Completes, TypeOK
<1>8. ASSUME NEW p \in Procs, OpenTmp(p)
      PROVE  LoneFillsPublishWhole'
    BY <1>8 DEF OpenTmp, Move, files, Unused, LoneFillsPublishWhole,
        LoneFill, Filling, Whole, Completes, TypeOK
<1>9. ASSUME NEW p \in Procs, OpenTmpDenied(p)
      PROVE  LoneFillsPublishWhole'
    BY <1>9 DEF OpenTmpDenied, Move, files, LoneFillsPublishWhole,
        LoneFill, Filling, Whole, Completes, TypeOK
<1>10. ASSUME NEW p \in Procs, WriteBlock(p)
      PROVE  LoneFillsPublishWhole'
    BY <1>10 DEF WriteBlock, files, Descriptors, LoneFillsPublishWhole,
        LoneFill, Filling, Whole, Completes, TypeOK
<1>11. ASSUME NEW p \in Procs, CloseTmp(p)
      PROVE  LoneFillsPublishWhole'
    BY <1>11 DEF CloseTmp, Move, files, LoneFillsPublishWhole, LoneFill,
        Filling, Whole, Completes, TypeOK
<1>12. ASSUME NEW p \in Procs, CopyFails(p)
      PROVE  LoneFillsPublishWhole'
    BY <1>12 DEF CopyFails, Fault, files, LoneFillsPublishWhole,
        LoneFill, Filling, Whole, Completes, TypeOK
<1>13. ASSUME NEW p \in Procs, ChmodTmp(p)
      PROVE  LoneFillsPublishWhole'
    BY <1>13 DEF ChmodTmp, Move, files, Descriptors,
        LoneFillsPublishWhole, LoneFill, Filling, Whole, Completes, TypeOK
<1>14. ASSUME NEW p \in Procs, ChmodFails(p)
      PROVE  LoneFillsPublishWhole'
    BY <1>14 DEF ChmodFails, Move, files, LoneFillsPublishWhole,
        LoneFill, Filling, Whole, Completes, TypeOK
<1>15. ASSUME NEW p \in Procs, RenameTmp(p)
      PROVE  LoneFillsPublishWhole'
    BY <1>15 DEF RenameTmp, Move, files, LoneFillsPublishWhole, LoneFill,
        Filling, Whole, Completes, TypeOK
<1>16. ASSUME NEW p \in Procs, RenameFails(p)
      PROVE  LoneFillsPublishWhole'
    BY <1>16 DEF RenameFails, Move, files, LoneFillsPublishWhole,
        LoneFill, Filling, Whole, Completes, TypeOK
<1>17. ASSUME NEW p \in Procs, Retrieve(p)
      PROVE  LoneFillsPublishWhole'
    BY <1>17 DEF Retrieve, Move, AfterAOT, files, LoneFillsPublishWhole,
        LoneFill, Filling, Whole, Completes, TypeOK
<1>18. ASSUME NEW p \in Procs, StaticMiss(p)
      PROVE  LoneFillsPublishWhole'
    BY <1>18 DEF StaticMiss, Move, files, LoneFillsPublishWhole,
        LoneFill, Filling, Whole, Completes, TypeOK
<1>19. ASSUME NEW p \in Procs, StaticHit(p)
      PROVE  LoneFillsPublishWhole'
    BY <1>19 DEF StaticHit, Move, files, LoneFillsPublishWhole, LoneFill,
        Filling, Whole, Completes, TypeOK
<1>20. ASSUME NEW p \in Procs, Fexecve(p)
      PROVE  LoneFillsPublishWhole'
    BY <1>20 DEF Fexecve, files, LoneFillsPublishWhole, LoneFill,
        Filling, Whole, Completes, TypeOK
<1>21. ASSUME NEW p \in Procs, Crash(p)
      PROVE  LoneFillsPublishWhole'
    BY <1>21 DEF Crash, Fault, files, LoneFillsPublishWhole, LoneFill,
        Filling, Whole, Completes, TypeOK
<1>22. CASE UNCHANGED vars
    BY <1>22 DEF vars, LoneFillsPublishWhole, LoneFill, Filling, Whole,
        Completes, TypeOK
<1>23. QED
    BY <1>1, <1>2, <1>3, <1>4, <1>5, <1>6, <1>7, <1>8, <1>9, <1>10,
        <1>11, <1>12, <1>13, <1>14, <1>15, <1>16, <1>17, <1>18, <1>19, <1>20,
        <1>21, <1>22 DEF Next, Step

\* Without overlap and faults no fill and no fexecve fails.
LEMMA LoneSucceedPreserved ==
    TypeOK /\ Descriptors /\ LoneFill /\ LoneFillsSucceed /\ [Next]_vars => LoneFillsSucceed'
<1> SUFFICES ASSUME TypeOK, Descriptors, LoneFill, LoneFillsSucceed, [Next]_vars
             PROVE  LoneFillsSucceed'
    OBVIOUS
<1> USE NoInodeAssumption, NumBlocksAssumption, MaxFaultsAssumption
<1>1. ASSUME NEW p \in Procs, NEW t \in Tools, NEW n \in {1, 2},
              Invoke(p, t, n)
      PROVE  LoneFillsSucceed'
    BY <1>1 DEF Invoke, files, Over, LoneFillsSucceed, LoneFill, Filling,
        Whole, Completes, TypeOK
<1>2. ASSUME NEW p \in Procs, AOTHit(p)
      PROVE  LoneFillsSucceed'
    BY <1>2 DEF AOTHit, Move, AfterAOT, files, LoneFillsSucceed,
        LoneFill, Filling, Whole, Completes, TypeOK
<1>3. ASSUME NEW p \in Procs, AOTMiss(p)
      PROVE  LoneFillsSucceed'
    BY <1>3 DEF AOTMiss, Move, files, LoneFillsSucceed, LoneFill,
        Filling, Whole, Completes, TypeOK
<1>4. ASSUME NEW p \in Procs, NoTempFile(p)
      PROVE  LoneFillsSucceed'
  <2>1. faults' # 0
    BY <1>4, FaultCounts DEF NoTempFile, TypeOK
  <2>2. QED
    BY <1>4, <2>1 DEF NoTempFile, Move, LoneFillsSucceed
<1>5. ASSUME NEW p \in Procs, CodeGen(p)
      PROVE  LoneFillsSucceed'
    BY <1>5 DEF CodeGen, Move, files, LoneFillsSucceed, LoneFill,
        Filling, Whole, Completes, TypeOK
<1>6. ASSUME NEW p \in Procs, CompileFails(p)
      PROVE  LoneFillsSucceed'
    BY <1>6 DEF CompileFails, files, LoneFillsSucceed, LoneFill, Filling,
        Whole, Completes, TypeOK
<1>7. ASSUME NEW p \in Procs, Link(p)
      PROVE  LoneFillsSucceed'
    BY <1>7 DEF Link, Move, files, LoneFillsSucceed, LoneFill, Filling,
        Whole, Completes, TypeOK
<1>8. ASSUME NEW p \in Procs, OpenTmp(p)
      PROVE  LoneFillsSucceed'
    BY <1>8 DEF OpenTmp, Move, files, Unused, LoneFillsSucceed, LoneFill,
        Filling, Whole, Completes, TypeOK
<1>9. ASSUME NEW p \in Procs, OpenTmpDenied(p)
      PROVE  LoneFillsSucceed'
    BY <1>9 DEF OpenTmpDenied, Move, files, LoneFillsSucceed, LoneFill,
        Filling, Whole, Completes, TypeOK
<1>10. ASSUME NEW p \in Procs, WriteBlock(p)
      PROVE  LoneFillsSucceed'
    BY <1>10 DEF WriteBlock, files, LoneFillsSucceed, LoneFill, Filling,
        Whole, Completes, TypeOK
<1>11. ASSUME NEW p \in Procs, CloseTmp(p)
      PROVE  LoneFillsSucceed'
    BY <1>11 DEF CloseTmp, Move, files, LoneFillsSucceed, LoneFill,
        Filling, Whole, Completes, TypeOK
<1>12. ASSUME NEW p \in Procs, CopyFails(p)
      PROVE  LoneFillsSucceed'
  <2>1. faults' # 0
    BY <1>12, FaultCounts DEF CopyFails, TypeOK
  <2>2. QED
    BY <1>12, <2>1 DEF CopyFails, LoneFillsSucceed
<1>13. ASSUME NEW p \in Procs, ChmodTmp(p)
      PROVE  LoneFillsSucceed'
    BY <1>13 DEF ChmodTmp, Move, files, LoneFillsSucceed, LoneFill,
        Filling, Whole, Completes, TypeOK
<1>14. ASSUME NEW p \in Procs, ChmodFails(p)
      PROVE  LoneFillsSucceed'
    BY <1>14 DEF ChmodFails, Move, files, LoneFillsSucceed, LoneFill,
        Filling, Whole, Completes, TypeOK
<1>15. ASSUME NEW p \in Procs, RenameTmp(p)
      PROVE  LoneFillsSucceed'
    BY <1>15 DEF RenameTmp, Move, files, LoneFillsSucceed, LoneFill,
        Filling, Whole, Completes, TypeOK
<1>16. ASSUME NEW p \in Procs, RenameFails(p)
      PROVE  LoneFillsSucceed'
    BY <1>16 DEF RenameFails, Move, files, LoneFillsSucceed, LoneFill,
        Filling, Whole, Completes, TypeOK
<1>17. ASSUME NEW p \in Procs, Retrieve(p)
      PROVE  LoneFillsSucceed'
    BY <1>17 DEF Retrieve, Move, AfterAOT, files, LoneFillsSucceed,
        LoneFill, Filling, Whole, Completes, TypeOK
<1>18. ASSUME NEW p \in Procs, StaticMiss(p)
      PROVE  LoneFillsSucceed'
    BY <1>18 DEF StaticMiss, Move, files, LoneFillsSucceed, LoneFill,
        Filling, Whole, Completes, TypeOK
<1>19. ASSUME NEW p \in Procs, StaticHit(p)
      PROVE  LoneFillsSucceed'
    BY <1>19 DEF StaticHit, Move, files, LoneFillsSucceed, LoneFill,
        Filling, Whole, Completes, TypeOK
<1>20. ASSUME NEW p \in Procs, Fexecve(p)
      PROVE  LoneFillsSucceed'
  <2>1. SUFFICES ASSUME ~overlap, faults = 0
                 PROVE  MayExecute(fd[p])
    BY <1>20 DEF Fexecve, LoneFillsSucceed, TypeOK
  <2>2. mode[fd[p]] = "rx"
    BY <1>20, <2>1 DEF Fexecve, LoneFill
  <2>3. \A q \in Procs : wfd[q] # fd[p]
    <3>1. fd[p] # NoInode /\ fd[p] # tmpEnt
      BY <1>20 DEF Fexecve, Descriptors
    <3>2. ASSUME NEW q \in Procs, wfd[q] # NoInode
          PROVE  wfd[q] = tmpEnt
      BY <2>1, <3>2 DEF Descriptors, LoneFill, Completes
    <3>3. QED
      BY <3>1, <3>2
  <2>4. QED
    BY <2>2, <2>3 DEF MayExecute
<1>21. ASSUME NEW p \in Procs, Crash(p)
      PROVE  LoneFillsSucceed'
  <2>1. faults' # 0
    BY <1>21, FaultCounts DEF Crash, TypeOK
  <2>2. QED
    BY <1>21, <2>1 DEF Crash, LoneFillsSucceed
<1>22. CASE UNCHANGED vars
    BY <1>22 DEF vars, LoneFillsSucceed, LoneFill, Filling, Whole,
        Completes, TypeOK
<1>23. QED
    BY <1>1, <1>2, <1>3, <1>4, <1>5, <1>6, <1>7, <1>8, <1>9, <1>10,
        <1>11, <1>12, <1>13, <1>14, <1>15, <1>16, <1>17, <1>18, <1>19, <1>20,
        <1>21, <1>22 DEF Next, Step

\* Without overlap the fill under way owns .tmp.
LEMMA LoneFillPreserved ==
    TypeOK /\ Descriptors /\ LoneFill /\ LoneFillsPublishWhole /\ [Next]_vars => LoneFill'
<1> SUFFICES ASSUME TypeOK, Descriptors, LoneFill, LoneFillsPublishWhole, [Next]_vars
             PROVE  LoneFill'
    OBVIOUS
<1> USE NoInodeAssumption, NumBlocksAssumption, MaxFaultsAssumption
<1>1. ASSUME NEW p \in Procs, NEW t \in Tools, NEW n \in {1, 2},
              Invoke(p, t, n)
      PROVE  LoneFill'
    BY <1>1, ZenonT(30) DEF Invoke, files, Over, LoneFill, Filling, Whole, Completes,
        TypeOK
<1>2. ASSUME NEW p \in Procs, AOTHit(p)
      PROVE  LoneFill'
    BY <1>2 DEF AOTHit, Move, AfterAOT, files, LoneFill, Filling, Whole,
        Completes, TypeOK
<1>3. ASSUME NEW p \in Procs, AOTMiss(p)
      PROVE  LoneFill'
    BY <1>3 DEF AOTMiss, Move, files, LoneFill, Filling, Whole,
        Completes, TypeOK
<1>4. ASSUME NEW p \in Procs, NoTempFile(p)
      PROVE  LoneFill'
  <2>1. faults' # 0
    BY <1>4, FaultCounts DEF NoTempFile, TypeOK
  <2>2. QED
    BY <1>4, <2>1 DEF NoTempFile, Move, files, LoneFill, Filling, Whole,
        Completes, TypeOK
<1>5. ASSUME NEW p \in Procs, CodeGen(p)
      PROVE  LoneFill'
    BY <1>5 DEF CodeGen, Move, files, LoneFill, Filling, Whole,
        Completes, TypeOK
<1>6. ASSUME NEW p \in Procs, CompileFails(p)
      PROVE  LoneFill'
    BY <1>6 DEF CompileFails, files, LoneFill, Filling, Whole, Completes,
        TypeOK
<1>7. ASSUME NEW p \in Procs, Link(p)
      PROVE  LoneFill'
    BY <1>7 DEF Link, Move, files, LoneFill, Filling, Whole, Completes,
        TypeOK
<1>8. ASSUME NEW p \in Procs, OpenTmp(p)
      PROVE  LoneFill'
  <2>1. SUFFICES ASSUME ~overlap'
                 PROVE  LoneFill'
    BY DEF LoneFill
  <2>2. ~overlap /\ \A q \in Procs : pc[q] \notin Filling
    BY <1>8, <2>1 DEF OpenTmp
  <2>3. PICK i \in Inodes :
            /\ \/ tmpEnt = NoInode /\ Unused(i)
                  /\ mode' = [mode EXCEPT ![i] = "rw"]
               \/ tmpEnt = i /\ mode[i] = "rw" /\ mode' = mode
            /\ tmpEnt' = i
            /\ wfd' = [wfd EXCEPT ![p] = i]
    BY <1>8 DEF OpenTmp
  <2>4. /\ pc' = [pc EXCEPT ![p] = "write"]
        /\ off' = [off EXCEPT ![p] = 0]
        /\ UNCHANGED <<fd, faults>>
    BY <1>8 DEF OpenTmp, Move
  <2>5. Completes(p, i)'
    <3>1. wfd'[p] = i /\ 1..off'[p] = {}
      BY <2>3, <2>4 DEF TypeOK
    <3>2. QED
      BY <3>1 DEF Completes
  <2>6. \A q \in Procs : pc'[q] \in Filling => q = p
    BY <2>2, <2>4 DEF TypeOK
  <2>7. pc'[p] = "write"
    BY <2>4 DEF TypeOK
  <2>8. ASSUME NEW q \in Procs, pc'[q] = "fexecve"
        PROVE  mode'[fd'[q]] = "rx"
    <3>1. pc[q] = "fexecve" /\ mode[fd[q]] = "rx" /\ fd'[q] = fd[q]
      BY <2>2, <2>4, <2>8 DEF LoneFill, TypeOK
    <3>2. fd[q] \in Inodes /\ (tmpEnt = NoInode => fd[q] # i)
      BY <2>3, <3>1 DEF Descriptors, Unused, TypeOK
    <3>3. QED
      BY <2>3, <3>1, <3>2 DEF TypeOK
  <2>9. tmpEnt' # NoInode /\ tmpEnt' = i
    BY <2>3, NoInodeAssumption
  <2>10. \A q \in Procs : pc'[q] \in {"chmod", "rename"} => FALSE
    BY <2>6, <2>7 DEF Filling
  <2>11. \A q \in Procs : pc'[q] = "write" => Completes(q, tmpEnt)'
    BY <2>5, <2>6, <2>9 DEF Filling, Completes
  <2>12. \E q \in Procs : pc'[q] \in Filling
    BY <2>7 DEF Filling
  <2>13. QED
    BY <2>6, <2>8, <2>9, <2>10, <2>11, <2>12 DEF LoneFill
<1>9. ASSUME NEW p \in Procs, OpenTmpDenied(p)
      PROVE  LoneFill'
    BY <1>9 DEF OpenTmpDenied, Move, files, LoneFill, Filling, Whole,
        Completes, TypeOK
<1>10. ASSUME NEW p \in Procs, WriteBlock(p)
      PROVE  LoneFill'
    BY <1>10 DEF WriteBlock, files, LoneFill, Filling, Whole, Completes,
        TypeOK
<1>11. ASSUME NEW p \in Procs, CloseTmp(p)
      PROVE  LoneFill'
  <2>1. SUFFICES ASSUME ~overlap
                 PROVE  LoneFill'
    BY <1>11 DEF CloseTmp, LoneFill
  <2>2. /\ pc[p] = "write" /\ pc' = [pc EXCEPT ![p] = "chmod"]
        /\ off[p] = NumBlocks
        /\ UNCHANGED <<files, fd, overlap, faults>>
    BY <1>11 DEF CloseTmp, Move
  <2>3. \A q \in Procs : pc[q] \in Filling => q = p
    BY <2>1, <2>2 DEF LoneFill, Filling
  <2>4. tmpEnt \in Inodes /\ Completes(p, tmpEnt)
    BY <2>1, <2>2 DEF LoneFill, Filling, TypeOK
  <2>5. Whole(tmpEnt)
    BY <2>2, <2>4 DEF Completes, Whole, Blocks, TypeOK
  <2>6. QED
    BY <2>1, <2>2, <2>3, <2>4, <2>5
       DEF LoneFill, Filling, Whole, files, TypeOK
<1>12. ASSUME NEW p \in Procs, CopyFails(p)
      PROVE  LoneFill'
  <2>1. faults' # 0
    BY <1>12, FaultCounts DEF CopyFails, TypeOK
  <2>2. QED
    BY <1>12, <2>1 DEF CopyFails, files, LoneFill, Filling, Whole,
        Completes, TypeOK
<1>13. ASSUME NEW p \in Procs, ChmodTmp(p)
      PROVE  LoneFill'
    BY <1>13 DEF ChmodTmp, Move, files, LoneFill, Filling, Whole,
        Completes, TypeOK
<1>14. ASSUME NEW p \in Procs, ChmodFails(p)
      PROVE  LoneFill'
    BY <1>14 DEF ChmodFails, Move, files, LoneFill, Filling, Whole,
        Completes, TypeOK
<1>15. ASSUME NEW p \in Procs, RenameTmp(p)
      PROVE  LoneFill'
    BY <1>15 DEF RenameTmp, Move, files, LoneFill, Filling, Whole,
        Completes, TypeOK
<1>16. ASSUME NEW p \in Procs, RenameFails(p)
      PROVE  LoneFill'
    BY <1>16 DEF RenameFails, Move, files, LoneFill, Filling, Whole,
        Completes, TypeOK
<1>17. ASSUME NEW p \in Procs, Retrieve(p)
      PROVE  LoneFill'
    BY <1>17 DEF Retrieve, Move, AfterAOT, files, LoneFill, Filling,
        Whole, Completes, TypeOK
<1>18. ASSUME NEW p \in Procs, StaticMiss(p)
      PROVE  LoneFill'
    BY <1>18 DEF StaticMiss, Move, files, LoneFill, Filling, Whole,
        Completes, TypeOK
<1>19. ASSUME NEW p \in Procs, StaticHit(p)
      PROVE  LoneFill'
  <2>1. SUFFICES ASSUME ~overlap
                 PROVE  LoneFill'
    BY <1>19 DEF StaticHit, LoneFill
  <2>2. /\ pc[p] = "static"
        /\ UNCHANGED <<files, wfd, off, overlap, faults>>
        /\ \/ pc' = [pc EXCEPT ![p] = "noexec"] /\ fd' = fd
           \/ /\ pc' = [pc EXCEPT ![p] = "fexecve"]
              /\ fd' = [fd EXCEPT ![p] = cacheEnt]
    BY <1>19 DEF StaticHit, Move
  <2>3. mode[cacheEnt] = "rx"
    BY <1>19, <2>1 DEF StaticHit, LoneFillsPublishWhole
  <2>4. \A q \in Procs : \A s \in Filling : pc'[q] = s <=> pc[q] = s
    BY <2>2 DEF Filling, TypeOK
  <2>5. \A q \in Procs : pc'[q] = "fexecve" => mode'[fd'[q]] = "rx"
    BY <2>1, <2>2, <2>3 DEF LoneFill, files, TypeOK
  <2>6. QED
    BY <2>1, <2>2, <2>4, <2>5 DEF LoneFill, Filling, Whole, Completes, files
<1>20. ASSUME NEW p \in Procs, Fexecve(p)
      PROVE  LoneFill'
  <2>1. SUFFICES ASSUME ~overlap
                 PROVE  LoneFill'
    BY <1>20 DEF Fexecve, LoneFill
  <2>2. /\ pc[p] = "fexecve"
        /\ UNCHANGED <<files, wfd, off, overlap, faults>>
        /\ \/ pc' = [pc EXCEPT ![p] = "executed"]
           \/ pc' = [pc EXCEPT ![p] = "exec failed"]
        /\ fd' = [fd EXCEPT ![p] = NoInode]
    BY <1>20 DEF Fexecve
  <2>3. \A q \in Procs : \A s \in Filling : pc'[q] = s <=> pc[q] = s
    BY <2>2 DEF Filling, TypeOK
  <2>4. \A q \in Procs : pc'[q] = "fexecve" => pc[q] = "fexecve" /\ fd'[q] = fd[q]
    BY <2>2 DEF TypeOK
  <2>5. \A q \in Procs : pc'[q] \in Filling <=> pc[q] \in Filling
    BY <2>3
  <2>6. \A q \in Procs : pc'[q] = "fexecve" => mode'[fd'[q]] = "rx"
    BY <2>1, <2>2, <2>4 DEF LoneFill, files
  <2>7. QED
    BY <2>1, <2>2, <2>3, <2>5, <2>6
       DEF LoneFill, Filling, Whole, Completes, files
<1>21. ASSUME NEW p \in Procs, Crash(p)
      PROVE  LoneFill'
  <2>1. faults' # 0
    BY <1>21, FaultCounts DEF Crash, TypeOK
  <2>2. QED
    BY <1>21, <2>1 DEF Crash, files, LoneFill, Filling, Whole, Completes,
        TypeOK
<1>22. CASE UNCHANGED vars
    BY <1>22 DEF vars, LoneFill, Filling, Whole, Completes, TypeOK
<1>23. QED
    BY <1>1, <1>2, <1>3, <1>4, <1>5, <1>6, <1>7, <1>8, <1>9, <1>10,
        <1>11, <1>12, <1>13, <1>14, <1>15, <1>16, <1>17, <1>18, <1>19, <1>20,
        <1>21, <1>22 DEF Next, Step

\* The assertion does not fire.
LEMMA RetrieveSucceedsPreserved ==
    TypeOK /\ Published /\ RetrieveSucceeds /\ [Next]_vars => RetrieveSucceeds'
<1> SUFFICES ASSUME TypeOK, Published, RetrieveSucceeds, [Next]_vars
             PROVE  RetrieveSucceeds'
    OBVIOUS
<1> USE NoInodeAssumption, NumBlocksAssumption, MaxFaultsAssumption
<1>1. ASSUME NEW p \in Procs, NEW t \in Tools, NEW n \in {1, 2},
              Invoke(p, t, n)
      PROVE  RetrieveSucceeds'
    BY <1>1 DEF Invoke, files, RetrieveSucceeds, Published, TypeOK
<1>2. ASSUME NEW p \in Procs, AOTHit(p)
      PROVE  RetrieveSucceeds'
    BY <1>2 DEF AOTHit, Move, AfterAOT, files, RetrieveSucceeds,
        Published, TypeOK
<1>3. ASSUME NEW p \in Procs, AOTMiss(p)
      PROVE  RetrieveSucceeds'
    BY <1>3 DEF AOTMiss, Move, files, RetrieveSucceeds, Published, TypeOK
<1>4. ASSUME NEW p \in Procs, NoTempFile(p)
      PROVE  RetrieveSucceeds'
    BY <1>4 DEF NoTempFile, Move, Fault, files, RetrieveSucceeds,
        Published, TypeOK
<1>5. ASSUME NEW p \in Procs, CodeGen(p)
      PROVE  RetrieveSucceeds'
    BY <1>5 DEF CodeGen, Move, files, RetrieveSucceeds, Published, TypeOK
<1>6. ASSUME NEW p \in Procs, CompileFails(p)
      PROVE  RetrieveSucceeds'
    BY <1>6 DEF CompileFails, files, RetrieveSucceeds, Published, TypeOK
<1>7. ASSUME NEW p \in Procs, Link(p)
      PROVE  RetrieveSucceeds'
    BY <1>7 DEF Link, Move, files, RetrieveSucceeds, Published, TypeOK
<1>8. ASSUME NEW p \in Procs, OpenTmp(p)
      PROVE  RetrieveSucceeds'
    BY <1>8 DEF OpenTmp, Move, files, RetrieveSucceeds, Published, TypeOK
<1>9. ASSUME NEW p \in Procs, OpenTmpDenied(p)
      PROVE  RetrieveSucceeds'
    BY <1>9 DEF OpenTmpDenied, Move, files, RetrieveSucceeds, Published,
        TypeOK
<1>10. ASSUME NEW p \in Procs, WriteBlock(p)
      PROVE  RetrieveSucceeds'
    BY <1>10 DEF WriteBlock, files, RetrieveSucceeds, Published, TypeOK
<1>11. ASSUME NEW p \in Procs, CloseTmp(p)
      PROVE  RetrieveSucceeds'
    BY <1>11 DEF CloseTmp, Move, files, RetrieveSucceeds, Published,
        TypeOK
<1>12. ASSUME NEW p \in Procs, CopyFails(p)
      PROVE  RetrieveSucceeds'
    BY <1>12 DEF CopyFails, Fault, files, RetrieveSucceeds, Published,
        TypeOK
<1>13. ASSUME NEW p \in Procs, ChmodTmp(p)
      PROVE  RetrieveSucceeds'
    BY <1>13 DEF ChmodTmp, Move, files, RetrieveSucceeds, Published,
        TypeOK
<1>14. ASSUME NEW p \in Procs, ChmodFails(p)
      PROVE  RetrieveSucceeds'
    BY <1>14 DEF ChmodFails, Move, files, RetrieveSucceeds, Published,
        TypeOK
<1>15. ASSUME NEW p \in Procs, RenameTmp(p)
      PROVE  RetrieveSucceeds'
    BY <1>15 DEF RenameTmp, Move, files, RetrieveSucceeds, Published,
        TypeOK
<1>16. ASSUME NEW p \in Procs, RenameFails(p)
      PROVE  RetrieveSucceeds'
    BY <1>16 DEF RenameFails, Move, files, RetrieveSucceeds, Published,
        TypeOK
<1>17. ASSUME NEW p \in Procs, Retrieve(p)
      PROVE  RetrieveSucceeds'
    BY <1>17 DEF Retrieve, Move, AfterAOT, files, RetrieveSucceeds,
        Published, TypeOK
<1>18. ASSUME NEW p \in Procs, StaticMiss(p)
      PROVE  RetrieveSucceeds'
    BY <1>18 DEF StaticMiss, Move, files, RetrieveSucceeds, Published,
        TypeOK
<1>19. ASSUME NEW p \in Procs, StaticHit(p)
      PROVE  RetrieveSucceeds'
    BY <1>19 DEF StaticHit, Move, files, RetrieveSucceeds, Published,
        TypeOK
<1>20. ASSUME NEW p \in Procs, Fexecve(p)
      PROVE  RetrieveSucceeds'
    BY <1>20 DEF Fexecve, files, RetrieveSucceeds, Published, TypeOK
<1>21. ASSUME NEW p \in Procs, Crash(p)
      PROVE  RetrieveSucceeds'
    BY <1>21 DEF Crash, Fault, files, RetrieveSucceeds, Published, TypeOK
<1>22. CASE UNCHANGED vars
    BY <1>22 DEF vars, RetrieveSucceeds, Published, TypeOK
<1>23. QED
    BY <1>1, <1>2, <1>3, <1>4, <1>5, <1>6, <1>7, <1>8, <1>9, <1>10,
        <1>11, <1>12, <1>13, <1>14, <1>15, <1>16, <1>17, <1>18, <1>19, <1>20,
        <1>21, <1>22 DEF Next, Step

\* What is executed is whole.
LEMMA ExecutesWholePreserved ==
    TypeOK /\ Descriptors /\ TornHasWriter /\ ExecutesWholeBinary /\ [Next]_vars => ExecutesWholeBinary'
<1> SUFFICES ASSUME TypeOK, Descriptors, TornHasWriter, ExecutesWholeBinary, [Next]_vars
             PROVE  ExecutesWholeBinary'
    OBVIOUS
<1> USE NoInodeAssumption, NumBlocksAssumption, MaxFaultsAssumption
<1>1. ASSUME NEW p \in Procs, NEW t \in Tools, NEW n \in {1, 2},
              Invoke(p, t, n)
      PROVE  ExecutesWholeBinary'
    BY <1>1 DEF Invoke, files, ExecutesWholeBinary, TypeOK
<1>2. ASSUME NEW p \in Procs, AOTHit(p)
      PROVE  ExecutesWholeBinary'
    BY <1>2 DEF AOTHit, Move, AfterAOT, files, ExecutesWholeBinary,
        TypeOK
<1>3. ASSUME NEW p \in Procs, AOTMiss(p)
      PROVE  ExecutesWholeBinary'
    BY <1>3 DEF AOTMiss, Move, files, ExecutesWholeBinary, TypeOK
<1>4. ASSUME NEW p \in Procs, NoTempFile(p)
      PROVE  ExecutesWholeBinary'
  <2>1. faults' # 0
    BY <1>4, FaultCounts DEF NoTempFile, TypeOK
  <2>2. QED
    BY <1>4, <2>1 DEF NoTempFile, Move, ExecutesWholeBinary
<1>5. ASSUME NEW p \in Procs, CodeGen(p)
      PROVE  ExecutesWholeBinary'
    BY <1>5 DEF CodeGen, Move, files, ExecutesWholeBinary, TypeOK
<1>6. ASSUME NEW p \in Procs, CompileFails(p)
      PROVE  ExecutesWholeBinary'
    BY <1>6 DEF CompileFails, files, ExecutesWholeBinary, TypeOK
<1>7. ASSUME NEW p \in Procs, Link(p)
      PROVE  ExecutesWholeBinary'
    BY <1>7 DEF Link, Move, files, ExecutesWholeBinary, TypeOK
<1>8. ASSUME NEW p \in Procs, OpenTmp(p)
      PROVE  ExecutesWholeBinary'
    BY <1>8 DEF OpenTmp, Move, files, ExecutesWholeBinary, TypeOK
<1>9. ASSUME NEW p \in Procs, OpenTmpDenied(p)
      PROVE  ExecutesWholeBinary'
    BY <1>9 DEF OpenTmpDenied, Move, files, ExecutesWholeBinary, TypeOK
<1>10. ASSUME NEW p \in Procs, WriteBlock(p)
      PROVE  ExecutesWholeBinary'
    BY <1>10 DEF WriteBlock, files, ExecutesWholeBinary, TypeOK
<1>11. ASSUME NEW p \in Procs, CloseTmp(p)
      PROVE  ExecutesWholeBinary'
    BY <1>11 DEF CloseTmp, Move, files, ExecutesWholeBinary, TypeOK
<1>12. ASSUME NEW p \in Procs, CopyFails(p)
      PROVE  ExecutesWholeBinary'
  <2>1. faults' # 0
    BY <1>12, FaultCounts DEF CopyFails, TypeOK
  <2>2. QED
    BY <1>12, <2>1 DEF CopyFails, ExecutesWholeBinary
<1>13. ASSUME NEW p \in Procs, ChmodTmp(p)
      PROVE  ExecutesWholeBinary'
    BY <1>13 DEF ChmodTmp, Move, files, ExecutesWholeBinary, TypeOK
<1>14. ASSUME NEW p \in Procs, ChmodFails(p)
      PROVE  ExecutesWholeBinary'
    BY <1>14 DEF ChmodFails, Move, files, ExecutesWholeBinary, TypeOK
<1>15. ASSUME NEW p \in Procs, RenameTmp(p)
      PROVE  ExecutesWholeBinary'
    BY <1>15 DEF RenameTmp, Move, files, ExecutesWholeBinary, TypeOK
<1>16. ASSUME NEW p \in Procs, RenameFails(p)
      PROVE  ExecutesWholeBinary'
    BY <1>16 DEF RenameFails, Move, files, ExecutesWholeBinary, TypeOK
<1>17. ASSUME NEW p \in Procs, Retrieve(p)
      PROVE  ExecutesWholeBinary'
    BY <1>17 DEF Retrieve, Move, AfterAOT, files, ExecutesWholeBinary,
        TypeOK
<1>18. ASSUME NEW p \in Procs, StaticMiss(p)
      PROVE  ExecutesWholeBinary'
    BY <1>18 DEF StaticMiss, Move, files, ExecutesWholeBinary, TypeOK
<1>19. ASSUME NEW p \in Procs, StaticHit(p)
      PROVE  ExecutesWholeBinary'
    BY <1>19 DEF StaticHit, Move, files, ExecutesWholeBinary, TypeOK
<1>20. ASSUME NEW p \in Procs, Fexecve(p)
      PROVE  ExecutesWholeBinary'
  <2>1. SUFFICES ASSUME faults = 0, MayExecute(fd[p])
                 PROVE  data[fd[p]] = Blocks
    BY <1>20 DEF Fexecve, ExecutesWholeBinary, TypeOK
  <2>2. fd[p] \in Inodes /\ Reachable(fd[p])
    BY <1>20 DEF Fexecve, Descriptors, Reachable, TypeOK
  <2>3. ~ \E q \in Procs : Completes(q, fd[p])
    BY <2>1 DEF MayExecute, Completes
  <2>4. QED
    BY <2>1, <2>2, <2>3 DEF TornHasWriter, Whole
<1>21. ASSUME NEW p \in Procs, Crash(p)
      PROVE  ExecutesWholeBinary'
  <2>1. faults' # 0
    BY <1>21, FaultCounts DEF Crash, TypeOK
  <2>2. QED
    BY <1>21, <2>1 DEF Crash, ExecutesWholeBinary
<1>22. CASE UNCHANGED vars
    BY <1>22 DEF vars, ExecutesWholeBinary, TypeOK
<1>23. QED
    BY <1>1, <1>2, <1>3, <1>4, <1>5, <1>6, <1>7, <1>8, <1>9, <1>10,
        <1>11, <1>12, <1>13, <1>14, <1>15, <1>16, <1>17, <1>18, <1>19, <1>20,
        <1>21, <1>22 DEF Next, Step

\* The object file is removed on every path out of code generation.
LEMMA ObjectRemovedPreserved ==
    TypeOK /\ ObjectFileRemoved /\ [Next]_vars => ObjectFileRemoved'
<1> SUFFICES ASSUME TypeOK, ObjectFileRemoved, [Next]_vars
             PROVE  ObjectFileRemoved'
    OBVIOUS
<1> USE NoInodeAssumption, NumBlocksAssumption, MaxFaultsAssumption
<1>1. ASSUME NEW p \in Procs, NEW t \in Tools, NEW n \in {1, 2},
              Invoke(p, t, n)
      PROVE  ObjectFileRemoved'
    BY <1>1 DEF Invoke, files, Over, ObjectFileRemoved, TypeOK
<1>2. ASSUME NEW p \in Procs, AOTHit(p)
      PROVE  ObjectFileRemoved'
    BY <1>2 DEF AOTHit, Move, AfterAOT, files, ObjectFileRemoved, TypeOK
<1>3. ASSUME NEW p \in Procs, AOTMiss(p)
      PROVE  ObjectFileRemoved'
    BY <1>3 DEF AOTMiss, Move, files, ObjectFileRemoved, TypeOK
<1>4. ASSUME NEW p \in Procs, NoTempFile(p)
      PROVE  ObjectFileRemoved'
    BY <1>4 DEF NoTempFile, Move, Fault, files, ObjectFileRemoved, TypeOK
<1>5. ASSUME NEW p \in Procs, CodeGen(p)
      PROVE  ObjectFileRemoved'
    BY <1>5 DEF CodeGen, Move, files, ObjectFileRemoved, TypeOK
<1>6. ASSUME NEW p \in Procs, CompileFails(p)
      PROVE  ObjectFileRemoved'
    BY <1>6 DEF CompileFails, files, ObjectFileRemoved, TypeOK
<1>7. ASSUME NEW p \in Procs, Link(p)
      PROVE  ObjectFileRemoved'
    BY <1>7 DEF Link, Move, files, ObjectFileRemoved, TypeOK
<1>8. ASSUME NEW p \in Procs, OpenTmp(p)
      PROVE  ObjectFileRemoved'
    BY <1>8 DEF OpenTmp, Move, files, ObjectFileRemoved, TypeOK
<1>9. ASSUME NEW p \in Procs, OpenTmpDenied(p)
      PROVE  ObjectFileRemoved'
    BY <1>9 DEF OpenTmpDenied, Move, files, ObjectFileRemoved, TypeOK
<1>10. ASSUME NEW p \in Procs, WriteBlock(p)
      PROVE  ObjectFileRemoved'
    BY <1>10 DEF WriteBlock, files, ObjectFileRemoved, TypeOK
<1>11. ASSUME NEW p \in Procs, CloseTmp(p)
      PROVE  ObjectFileRemoved'
    BY <1>11 DEF CloseTmp, Move, files, ObjectFileRemoved, TypeOK
<1>12. ASSUME NEW p \in Procs, CopyFails(p)
      PROVE  ObjectFileRemoved'
    BY <1>12 DEF CopyFails, Fault, files, ObjectFileRemoved, TypeOK
<1>13. ASSUME NEW p \in Procs, ChmodTmp(p)
      PROVE  ObjectFileRemoved'
    BY <1>13 DEF ChmodTmp, Move, files, ObjectFileRemoved, TypeOK
<1>14. ASSUME NEW p \in Procs, ChmodFails(p)
      PROVE  ObjectFileRemoved'
    BY <1>14 DEF ChmodFails, Move, files, ObjectFileRemoved, TypeOK
<1>15. ASSUME NEW p \in Procs, RenameTmp(p)
      PROVE  ObjectFileRemoved'
    BY <1>15 DEF RenameTmp, Move, files, ObjectFileRemoved, TypeOK
<1>16. ASSUME NEW p \in Procs, RenameFails(p)
      PROVE  ObjectFileRemoved'
    BY <1>16 DEF RenameFails, Move, files, ObjectFileRemoved, TypeOK
<1>17. ASSUME NEW p \in Procs, Retrieve(p)
      PROVE  ObjectFileRemoved'
    BY <1>17 DEF Retrieve, Move, AfterAOT, files, ObjectFileRemoved,
        TypeOK
<1>18. ASSUME NEW p \in Procs, StaticMiss(p)
      PROVE  ObjectFileRemoved'
    BY <1>18 DEF StaticMiss, Move, files, ObjectFileRemoved, TypeOK
<1>19. ASSUME NEW p \in Procs, StaticHit(p)
      PROVE  ObjectFileRemoved'
    BY <1>19 DEF StaticHit, Move, files, ObjectFileRemoved, TypeOK
<1>20. ASSUME NEW p \in Procs, Fexecve(p)
      PROVE  ObjectFileRemoved'
    BY <1>20 DEF Fexecve, files, ObjectFileRemoved, TypeOK
<1>21. ASSUME NEW p \in Procs, Crash(p)
      PROVE  ObjectFileRemoved'
    BY <1>21 DEF Crash, Fault, files, ObjectFileRemoved, TypeOK
<1>22. CASE UNCHANGED vars
    BY <1>22 DEF vars, ObjectFileRemoved, TypeOK
<1>23. QED
    BY <1>1, <1>2, <1>3, <1>4, <1>5, <1>6, <1>7, <1>8, <1>9, <1>10,
        <1>11, <1>12, <1>13, <1>14, <1>15, <1>16, <1>17, <1>18, <1>19, <1>20,
        <1>21, <1>22 DEF Next, Step

-----------------------------------------------------------------------------

\* The inductive invariant holds initially.
LEMMA InitInv == Init => Inv
<1> SUFFICES ASSUME Init
             PROVE  Inv
    OBVIOUS
<1> USE NoInodeAssumption, NumBlocksAssumption, MaxFaultsAssumption
<1>1. TypeOK
  <2>1. /\ off \in [Procs -> 0..NumBlocks]
        /\ faults \in 0..MaxFaults
    BY DEF Init
  <2>2. /\ pc \in [Procs -> Over \cup Running]
        /\ tool \in [Procs -> Tools]
    BY DEF Init, Tools, Over
  <2>3. QED
    BY <2>1, <2>2 DEF Init, TypeOK
<1>2. Descriptors /\ Published
    BY DEF Init, Descriptors, Published
<1>3. TornHasWriter
    BY DEF Init, TornHasWriter, Reachable
<1>4. LoneFill /\ LoneFillsPublishWhole /\ LoneFillsSucceed
    BY DEF Init, LoneFill, LoneFillsPublishWhole, LoneFillsSucceed, Filling
<1>5. RetrieveSucceeds /\ ExecutesWholeBinary /\ ObjectFileRemoved
    BY DEF Init, RetrieveSucceeds, ExecutesWholeBinary, ObjectFileRemoved
<1>6. QED
    BY <1>1, <1>2, <1>3, <1>4, <1>5 DEF Inv

\* Every step keeps it.
LEMMA NextInv == Inv /\ [Next]_vars => Inv'
BY TypePreserved, DescriptorsPreserved, PublishedPreserved, TornPreserved,
   LonePublishPreserved, LoneSucceedPreserved, LoneFillPreserved,
   RetrieveSucceedsPreserved, ExecutesWholePreserved, ObjectRemovedPreserved
   DEF Inv

\* So it holds in every reachable state.
THEOREM Invariance == Spec => []Inv
BY InitInv, NextInv, PTL DEF Spec

\* The types of StaticBinaryCache's state.
THEOREM TypeCorrect == Spec => []TypeOK
BY Invariance, PTL DEF Inv

\* The assertion in AOTCompileIfNeeded never fires, for any number of
\* processes, crashes and write errors.
THEOREM AssertionHolds == Spec => []RetrieveSucceeds
BY Invariance, PTL DEF Inv

\* While there has been no crash and no write error, fexecve never runs an
\* incomplete binary, however many processes fill the cache at once.
THEOREM ExecutionSafe == Spec => []ExecutesWholeBinary
BY Invariance, PTL DEF Inv

\* While no two fills have overlapped, CacheName is whole and executable
\* after any number of crashes and write errors.
THEOREM PublicationAtomic == Spec => []LoneFillsPublishWhole
BY Invariance, PTL DEF Inv

\* While no two fills have overlapped and there has been no fault, no fill
\* and no fexecve fails.
THEOREM LoneFillWorks == Spec => []LoneFillsSucceed
BY Invariance, PTL DEF Inv

\* A published entry is never withdrawn.
THEOREM EntryNeverRemoved == Spec => EntryStays
<1>1. Inv /\ [Next]_vars => [cacheEnt # NoInode => cacheEnt' # NoInode]_vars
  <2> SUFFICES ASSUME [Next]_vars, cacheEnt # NoInode
               PROVE  cacheEnt' # NoInode \/ UNCHANGED vars
    OBVIOUS
  <2>1. ASSUME NEW p \in Procs, RenameTmp(p)
        PROVE  cacheEnt' # NoInode
    BY <2>1 DEF RenameTmp
  <2>2. ASSUME Next, \A p \in Procs : ~RenameTmp(p)
        PROVE  cacheEnt' = cacheEnt
    BY <2>2 DEF Next, Step, files, Invoke, AOTHit, AOTMiss, NoTempFile,
        CodeGen, CompileFails, Link, OpenTmp, OpenTmpDenied, WriteBlock,
        CloseTmp, CopyFails, ChmodTmp, ChmodFails, RenameFails, Retrieve,
        StaticMiss, StaticHit, Fexecve, Crash
  <2>3. QED
    BY <2>1, <2>2
<1>2. QED
    BY Invariance, <1>1, PTL DEF Spec, EntryStays
=============================================================================
