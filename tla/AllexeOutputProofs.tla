------------------------- MODULE AllexeOutputProofs -------------------------
(***************************************************************************)
(* Proofs about AllexeOutput, for any number of tools and inodes: the      *)
(* tools implement AtomicOutput, and keep the other promises of the runs.  *)
(* The theorems at the end rest on the inductive invariant OutputInv;      *)
(* there is a lemma for each of its parts.                                 *)
(***************************************************************************)
EXTENDS AllexeOutput, ZipSourceProofs, FiniteSetTheorems

\* A process that ends without freeing its source leaves the others' alone.
LEMMA AbandonKeeps ==
    ASSUME NEW h \in Handles, SourceInv, Abandon(h)
    PROVE  SourceInv'
<1> USE ZipNoInodeAssumption
<1>1. SourceTypeOK'
    BY DEF Abandon, Orphaned, SourceInv, SourceTypeOK, WriteStates
<1>2. RollbackHasTemp' /\ ReadersHaveFile' /\ OutputIsTemp'
    BY DEF Abandon, SourceInv, RollbackHasTemp, ReadersHaveFile, OutputIsTemp, SourceTypeOK
<1>3. PublishedIsClosed' /\ TempsApart'
    BY DEF Abandon, Orphaned, SourceInv, PublishedIsClosed, TempsApart, SourceTypeOK
<1>4. QED
    BY <1>1, <1>2, <1>3 DEF SourceInv

\* A step that leaves the sources alone leaves their invariant alone.
LEMMA SourceUntouched == SourceInv /\ UNCHANGED sourceVars => SourceInv'
BY DEF sourceVars, SourceInv, SourceTypeOK, RollbackHasTemp, ReadersHaveFile,
    PublishedIsClosed, OutputIsTemp, TempsApart

\* A piece that a process writes is one of the pieces of files.
LEMMA OwnPieces ==
    \A w \in Handles \cup {Orig}, k \in Kinds : <<k, w>> \in Pieces
BY PiecesAssumption

\* Every tool uses its source as the interface asks for.
LEMMA SourcePreserved ==
    OutputTypeOK /\ SourceInv /\ Places /\ [OutputNext]_vars => SourceInv'
<1> SUFFICES ASSUME OutputTypeOK, SourceInv, Places, [OutputNext]_vars
             PROVE  SourceInv'
    OBVIOUS
<1>1. ASSUME NEW p \in Handles, CheckExists(p)
      PROVE  SourceInv'
    BY <1>1, SourceUntouched DEF CheckExists
<1>2. ASSUME NEW p \in Handles, Stat(p)
      PROVE  SourceInv'
    BY <1>2, SourceUntouched DEF Stat
<1>3. ASSUME NEW p \in Handles, ZipOpenNew(p)
      PROVE  SourceInv'
    BY <1>3, SourceUntouched DEF ZipOpenNew
<1>4. ASSUME NEW p \in Handles, ZipOpenFile(p)
      PROVE  SourceInv'
    BY <1>4, SourceOpenKeeps DEF ZipOpenFile
<1>5. ASSUME NEW p \in Handles, ZipOpenFails(p)
      PROVE  SourceInv'
    BY <1>5, SourceUntouched DEF ZipOpenFails
<1>6. ASSUME NEW p \in Handles, InputError(p)
      PROVE  SourceInv'
    BY <1>6, AbandonKeeps, SourceUntouched DEF InputError, ToolFails
<1>7. ASSUME NEW p \in Handles, AddMain(p)
      PROVE  SourceInv'
    BY <1>7, AbandonKeeps, SourceUntouched DEF AddMain, ToolFails
<1>8. ASSUME NEW p \in Handles, AddLib(p)
      PROVE  SourceInv'
    BY <1>8, SourceUntouched DEF AddLib
<1>9. ASSUME NEW p \in Handles, Finish(p)
      PROVE  SourceInv'
    BY <1>9, SourceUntouched DEF Finish
<1>10. ASSUME NEW p \in Handles, ReadModule(p)
      PROVE  SourceInv'
    BY <1>10, SourceUntouched DEF ReadModule
<1>11. ASSUME NEW p \in Handles, ReadAll(p)
      PROVE  SourceInv'
    BY <1>11, SourceUntouched DEF ReadAll
<1>12. ASSUME NEW p \in Handles, CloseUnchanged(p)
      PROVE  SourceInv'
    BY <1>12, FreeSourceKeeps DEF CloseUnchanged, Places
<1>13. ASSUME NEW p \in Handles, CloseEmpty(p)
      PROVE  SourceInv'
    BY <1>13, RemoveSourceKeeps DEF CloseEmpty, Places
<1>14. ASSUME NEW p \in Handles, CloseBegins(p)
      PROVE  SourceInv'
    BY <1>14, BeginWriteKeeps DEF CloseBegins
<1>15. ASSUME NEW p \in Handles, BeginFails(p)
      PROVE  SourceInv'
    BY <1>15, AbandonKeeps DEF BeginFails
<1>16. ASSUME NEW p \in Handles, WritePrefix(p)
      PROVE  SourceInv'
  <2>1. <<"prefix", p>> \in Pieces
    BY OwnPieces DEF Kinds
  <2>2. QED
    BY <1>16, <2>1, WriteKeeps DEF WritePrefix
<1>17. ASSUME NEW p \in Handles, PrefixFails(p)
      PROVE  SourceInv'
    BY <1>17, AbandonKeeps DEF PrefixFails
<1>18. ASSUME NEW p \in Handles, WriteEntry(p)
      PROVE  SourceInv'
  <2>1. PICK m \in Survivors(p) : Write(p, m)
    BY <1>18 DEF WriteEntry
  <2>2. m \in Pieces
    BY <2>1 DEF Survivors, OutputTypeOK
  <2>3. QED
    BY <2>1, <2>2, WriteKeeps
<1>19. ASSUME NEW p \in Handles, WriteCdir(p)
      PROVE  SourceInv'
  <2>1. <<"cdir", p>> \in Pieces
    BY OwnPieces DEF Kinds
  <2>2. QED
    BY <1>19, <2>1, WriteKeeps DEF WriteCdir
<1>20. ASSUME NEW p \in Handles, WriteFails(p)
      PROVE  SourceInv'
    BY <1>20, RollbackWriteKeeps DEF WriteFails, Places
<1>21. ASSUME NEW p \in Handles, Commit(p)
      PROVE  SourceInv'
    BY <1>21, CommitRenameKeeps, FlushFaultsAssumption DEF Commit
<1>22. ASSUME NEW p \in Handles, RenameFails(p)
      PROVE  SourceInv'
    BY <1>22, CommitFailsKeeps DEF RenameFails
<1>23. ASSUME NEW p \in Handles, Rollback(p)
      PROVE  SourceInv'
    BY <1>23, RollbackWriteKeeps DEF Rollback, Places
<1>24. ASSUME NEW p \in Handles, Chmod(p)
      PROVE  SourceInv'
    BY <1>24, CommitChmodKeeps DEF Chmod
<1>25. ASSUME NEW p \in Handles, Kill(p)
      PROVE  SourceInv'
    BY <1>25, AbandonKeeps DEF Kill
<1>26. CASE UNCHANGED vars
    BY <1>26, SourceUntouched DEF vars
<1>27. QED
    BY <1>1, <1>2, <1>3, <1>4, <1>5, <1>6, <1>7, <1>8, <1>9, <1>10,
        <1>11, <1>12, <1>13, <1>14, <1>15, <1>16, <1>17, <1>18, <1>19, <1>20,
        <1>21, <1>22, <1>23, <1>24, <1>25, <1>26 DEF OutputNext, Step

\* Every step keeps the types of the tools' state.
LEMMA TypePreserved ==
    OutputTypeOK /\ SourceInv' /\ [OutputNext]_vars => OutputTypeOK'
<1> SUFFICES ASSUME OutputTypeOK, SourceInv', [OutputNext]_vars
             PROVE  OutputTypeOK'
    OBVIOUS
<1>1. ASSUME NEW p \in Handles, CheckExists(p)
      PROVE  OutputTypeOK'
    BY <1>1 DEF CheckExists, Goto, OutputTypeOK, SourceInv, Over, Running
<1>2. ASSUME NEW p \in Handles, Stat(p)
      PROVE  OutputTypeOK'
    BY <1>2 DEF Stat, Goto, OutputTypeOK, SourceInv, Over, Running
<1>3. ASSUME NEW p \in Handles, ZipOpenNew(p)
      PROVE  OutputTypeOK'
    BY <1>3 DEF ZipOpenNew, Goto, OutputTypeOK, SourceInv, Over, Running
<1>4. ASSUME NEW p \in Handles, ZipOpenFile(p)
      PROVE  OutputTypeOK'
  <2>1. ModulesIn(file[target]) \subseteq Pieces
    BY <1>4 DEF ZipOpenFile, ModulesIn, OutputTypeOK, SourceTypeOK
  <2>2. listed' \in [Handles -> SUBSET Pieces] /\ err' \in SUBSET Handles
    BY <1>4, <2>1 DEF ZipOpenFile, OutputTypeOK
  <2>3. pc' \in [Handles -> Over \cup Running]
    BY <1>4 DEF ZipOpenFile, Goto, OutputTypeOK, Over, Running
  <2>4. QED
    BY <1>4, <2>2, <2>3 DEF ZipOpenFile, OutputTypeOK, SourceInv
<1>5. ASSUME NEW p \in Handles, ZipOpenFails(p)
      PROVE  OutputTypeOK'
    BY <1>5 DEF ZipOpenFails, Goto, OutputTypeOK, SourceInv, Over,
        Running
<1>6. ASSUME NEW p \in Handles, InputError(p)
      PROVE  OutputTypeOK'
    BY <1>6 DEF InputError, ToolFails, Goto, OutputTypeOK, SourceInv,
        Over, Running
<1>7. ASSUME NEW p \in Handles, AddMain(p)
      PROVE  OutputTypeOK'
  <2>1. <<"main", p>> \in Pieces
    BY OwnPieces DEF Kinds, ModuleKinds
  <2>2. mods' \in [Handles -> SUBSET Pieces] /\ err' \in SUBSET Handles
    BY <1>7, <2>1 DEF AddMain, ToolFails, OutputTypeOK
  <2>3. pc' \in [Handles -> Over \cup Running]
    BY <1>7 DEF AddMain, ToolFails, Goto, OutputTypeOK, Over, Running
  <2>4. QED
    BY <1>7, <2>2, <2>3 DEF AddMain, OutputTypeOK, SourceInv
<1>8. ASSUME NEW p \in Handles, AddLib(p)
      PROVE  OutputTypeOK'
  <2>1. <<"lib", p>> \in Pieces
    BY OwnPieces DEF Kinds, ModuleKinds
  <2>2. QED
    BY <1>8, <2>1 DEF AddLib, OutputTypeOK, SourceInv
<1>9. ASSUME NEW p \in Handles, Finish(p)
      PROVE  OutputTypeOK'
    BY <1>9 DEF Finish, Goto, OutputTypeOK, SourceInv, Over, Running
<1>10. ASSUME NEW p \in Handles, ReadModule(p)
      PROVE  OutputTypeOK'
    BY <1>10 DEF ReadModule, OutputTypeOK, SourceInv, Over, Running
<1>11. ASSUME NEW p \in Handles, ReadAll(p)
      PROVE  OutputTypeOK'
    BY <1>11 DEF ReadAll, Goto, OutputTypeOK, SourceInv, Over, Running
<1>12. ASSUME NEW p \in Handles, CloseUnchanged(p)
      PROVE  OutputTypeOK'
    BY <1>12 DEF CloseUnchanged, Exit, OutputTypeOK, SourceInv, Over,
        Running
<1>13. ASSUME NEW p \in Handles, CloseEmpty(p)
      PROVE  OutputTypeOK'
    BY <1>13 DEF CloseEmpty, Exit, OutputTypeOK, SourceInv, Over, Running
<1>14. ASSUME NEW p \in Handles, CloseBegins(p)
      PROVE  OutputTypeOK'
    BY <1>14 DEF CloseBegins, Goto, OutputTypeOK, SourceInv, Over,
        Running
<1>15. ASSUME NEW p \in Handles, BeginFails(p)
      PROVE  OutputTypeOK'
    BY <1>15 DEF BeginFails, Exit, OutputTypeOK, SourceInv, Over, Running
<1>16. ASSUME NEW p \in Handles, WritePrefix(p)
      PROVE  OutputTypeOK'
    BY <1>16 DEF WritePrefix, Goto, OutputTypeOK, SourceInv, Over,
        Running
<1>17. ASSUME NEW p \in Handles, PrefixFails(p)
      PROVE  OutputTypeOK'
    BY <1>17 DEF PrefixFails, Exit, OutputTypeOK, SourceInv, Over,
        Running
<1>18. ASSUME NEW p \in Handles, WriteEntry(p)
      PROVE  OutputTypeOK'
    BY <1>18 DEF WriteEntry, outputVars, OutputTypeOK, SourceInv, Over,
        Running
<1>19. ASSUME NEW p \in Handles, WriteCdir(p)
      PROVE  OutputTypeOK'
    BY <1>19 DEF WriteCdir, Goto, OutputTypeOK, SourceInv, Over, Running
<1>20. ASSUME NEW p \in Handles, WriteFails(p)
      PROVE  OutputTypeOK'
    BY <1>20 DEF WriteFails, Exit, OutputTypeOK, SourceInv, Over, Running
<1>21. ASSUME NEW p \in Handles, Commit(p)
      PROVE  OutputTypeOK'
  <2>1. committed' \in [Handles -> Inodes \cup {NoInode}]
    BY <1>21 DEF Commit, OutputTypeOK, SourceInv, SourceTypeOK
  <2>2. QED
    BY <1>21, <2>1 DEF Commit, Goto, OutputTypeOK, SourceInv, Running
<1>22. ASSUME NEW p \in Handles, RenameFails(p)
      PROVE  OutputTypeOK'
    BY <1>22 DEF RenameFails, Goto, OutputTypeOK, SourceInv, Over,
        Running
<1>23. ASSUME NEW p \in Handles, Rollback(p)
      PROVE  OutputTypeOK'
    BY <1>23 DEF Rollback, Exit, OutputTypeOK, SourceInv, Over, Running
<1>24. ASSUME NEW p \in Handles, Chmod(p)
      PROVE  OutputTypeOK'
    BY <1>24 DEF Chmod, Exit, OutputTypeOK, SourceInv, Over, Running
<1>25. ASSUME NEW p \in Handles, Kill(p)
      PROVE  OutputTypeOK'
    BY <1>25 DEF Kill, OutputTypeOK, SourceInv, Over, Running
<1>26. CASE UNCHANGED vars
    BY <1>26 DEF vars, sourceVars, outputVars, OutputTypeOK, SourceInv,
        Over, Running
<1>27. QED
    BY <1>1, <1>2, <1>3, <1>4, <1>5, <1>6, <1>7, <1>8, <1>9, <1>10,
        <1>11, <1>12, <1>13, <1>14, <1>15, <1>16, <1>17, <1>18, <1>19, <1>20,
        <1>21, <1>22, <1>23, <1>24, <1>25, <1>26 DEF OutputNext, Step

\* Every step leaves the source of its process in the state that belongs to
\* the place it goes to.
LEMMA PlacesPreserved ==
    OutputTypeOK /\ SourceInv /\ Places /\ [OutputNext]_vars => Places'
<1> SUFFICES ASSUME OutputTypeOK, SourceInv, Places, [OutputNext]_vars
             PROVE  Places'
    OBVIOUS
<1>1. ASSUME NEW p \in Handles, CheckExists(p)
      PROVE  Places'
    BY <1>1 DEF CheckExists, Goto, sourceVars, OutputTypeOK,
        SourceTypeOK, Places, Reader, Over, Running
<1>2. ASSUME NEW p \in Handles, Stat(p)
      PROVE  Places'
    BY <1>2 DEF Stat, Goto, sourceVars, OutputTypeOK, SourceTypeOK,
        Places, Reader, Over, Running
<1>3. ASSUME NEW p \in Handles, ZipOpenNew(p)
      PROVE  Places'
    BY <1>3 DEF ZipOpenNew, Goto, sourceVars, OutputTypeOK, SourceTypeOK,
        Places, Reader, Over, Running
<1>4. ASSUME NEW p \in Handles, ZipOpenFile(p)
      PROVE  Places'
    BY <1>4 DEF ZipOpenFile, SourceOpen, Goto, OutputTypeOK,
        SourceTypeOK, Places, Reader, Over, Running
<1>5. ASSUME NEW p \in Handles, ZipOpenFails(p)
      PROVE  Places'
    BY <1>5 DEF ZipOpenFails, Goto, sourceVars, OutputTypeOK,
        SourceTypeOK, Places, Reader, Over, Running
<1>6. ASSUME NEW p \in Handles, InputError(p)
      PROVE  Places'
    BY <1>6 DEF InputError, ToolFails, Abandon, Goto, sourceVars,
        OutputTypeOK, SourceTypeOK, Places, Reader, Over, Running
<1>7. ASSUME NEW p \in Handles, AddMain(p)
      PROVE  Places'
    BY <1>7 DEF AddMain, ToolFails, Abandon, Goto, sourceVars,
        OutputTypeOK, SourceTypeOK, Places, Reader, Over, Running
<1>8. ASSUME NEW p \in Handles, AddLib(p)
      PROVE  Places'
    BY <1>8 DEF AddLib, sourceVars, OutputTypeOK, SourceTypeOK, Places,
        Reader, Over, Running
<1>9. ASSUME NEW p \in Handles, Finish(p)
      PROVE  Places'
    BY <1>9 DEF Finish, Goto, sourceVars, OutputTypeOK, SourceTypeOK,
        Places, Reader, Over, Running
<1>10. ASSUME NEW p \in Handles, ReadModule(p)
      PROVE  Places'
    BY <1>10 DEF ReadModule, sourceVars, OutputTypeOK, SourceTypeOK,
        Places, Reader, Over, Running
<1>11. ASSUME NEW p \in Handles, ReadAll(p)
      PROVE  Places'
    BY <1>11 DEF ReadAll, Goto, sourceVars, OutputTypeOK, SourceTypeOK,
        Places, Reader, Over, Running
<1>12. ASSUME NEW p \in Handles, CloseUnchanged(p)
      PROVE  Places'
    BY <1>12 DEF CloseUnchanged, FreeSource, Exit, OutputTypeOK,
        SourceTypeOK, Places, Reader, Over, Running
<1>13. ASSUME NEW p \in Handles, CloseEmpty(p)
      PROVE  Places'
    BY <1>13 DEF CloseEmpty, RemoveSource, Closing, RollingBack, Exit,
        OutputTypeOK, SourceTypeOK, Places, Reader, Over, Running
<1>14. ASSUME NEW p \in Handles, CloseBegins(p)
      PROVE  Places'
    BY <1>14 DEF CloseBegins, BeginWrite, Goto, Changed, OutputTypeOK,
        SourceTypeOK, Places, Reader, Over, Running
<1>15. ASSUME NEW p \in Handles, BeginFails(p)
      PROVE  Places'
    BY <1>15 DEF BeginFails, Abandon, Exit, OutputTypeOK, SourceTypeOK,
        Places, Reader, Over, Running
<1>16. ASSUME NEW p \in Handles, WritePrefix(p)
      PROVE  Places'
    BY <1>16 DEF WritePrefix, Write, Goto, OutputTypeOK, SourceTypeOK,
        Places, Reader, Over, Running
<1>17. ASSUME NEW p \in Handles, PrefixFails(p)
      PROVE  Places'
    BY <1>17 DEF PrefixFails, Abandon, Exit, OutputTypeOK, SourceTypeOK,
        Places, Reader, Over, Running
<1>18. ASSUME NEW p \in Handles, WriteEntry(p)
      PROVE  Places'
    BY <1>18 DEF WriteEntry, Write, outputVars, OutputTypeOK,
        SourceTypeOK, Places, Reader, Over, Running
<1>19. ASSUME NEW p \in Handles, WriteCdir(p)
      PROVE  Places'
    BY <1>19 DEF WriteCdir, Write, Goto, OutputTypeOK, SourceTypeOK,
        Places, Reader, Over, Running
<1>20. ASSUME NEW p \in Handles, WriteFails(p)
      PROVE  Places'
    BY <1>20 DEF WriteFails, RollbackWrite, RollingBack, Exit, SourceInv,
        RollbackHasTemp, OutputTypeOK, SourceTypeOK, Places, Reader, Over,
        Running
<1>21. ASSUME NEW p \in Handles, Commit(p)
      PROVE  Places'
    BY <1>21, ZipNoInodeAssumption DEF Commit, CommitRename, Closing,
        Goto, OutputTypeOK, SourceTypeOK, Places, Reader, Over, Running
<1>22. ASSUME NEW p \in Handles, RenameFails(p)
      PROVE  Places'
    BY <1>22, ZipNoInodeAssumption DEF RenameFails, CommitFails, Closing,
        Goto, OutputTypeOK, SourceTypeOK, Places, Reader, Over, Running
<1>23. ASSUME NEW p \in Handles, Rollback(p)
      PROVE  Places'
    BY <1>23 DEF Rollback, RollbackWrite, RollingBack, Exit,
        OutputTypeOK, SourceTypeOK, Places, Reader, Over, Running
<1>24. ASSUME NEW p \in Handles, Chmod(p)
      PROVE  Places'
    BY <1>24, ZipNoInodeAssumption DEF Chmod, CommitChmod, Exit,
        OutputTypeOK, SourceTypeOK, Places, Reader, Over, Running
<1>25. ASSUME NEW p \in Handles, Kill(p)
      PROVE  Places'
    BY <1>25 DEF Kill, Abandon, OutputTypeOK, SourceTypeOK, Places,
        Reader, Over, Running
<1>26. CASE UNCHANGED vars
    BY <1>26 DEF vars, sourceVars, outputVars, OutputTypeOK,
        SourceTypeOK, Places, Reader, Over, Running
<1>27. QED
    BY <1>1, <1>2, <1>3, <1>4, <1>5, <1>6, <1>7, <1>8, <1>9, <1>10,
        <1>11, <1>12, <1>13, <1>14, <1>15, <1>16, <1>17, <1>18, <1>19, <1>20,
        <1>21, <1>22, <1>23, <1>24, <1>25, <1>26 DEF OutputNext, Step

-----------------------------------------------------------------------------
(* What a step may do to the files.                                        *)

\* Only the temporary file of a process that writes changes, and only a
\* rename makes a file of others incomplete.
LEMMA OnlyTempsWritten ==
    OutputTypeOK /\ SourceInv /\ [OutputNext]_vars =>
        \A i \in Inodes : \/ /\ file'[i] = file[i]
                             /\ (i \in torn' <=> i \in torn) \/ \E p \in Handles : Commit(p)
                          \/ \E p \in Handles : tmp'[p] = i
<1> DEFINE Goal == \A i \in Inodes :
                        \/ /\ file'[i] = file[i]
                           /\ (i \in torn' <=> i \in torn) \/ \E p \in Handles : Commit(p)
                        \/ \E p \in Handles : tmp'[p] = i
<1> SUFFICES ASSUME OutputTypeOK, SourceInv, [OutputNext]_vars
             PROVE  Goal
    OBVIOUS
<1>1. ASSUME NEW p \in Handles,
              CheckExists(p) \/ Stat(p) \/ ZipOpenNew(p) \/ ZipOpenFails(p)
              \/ AddLib(p) \/ Finish(p) \/ ReadModule(p) \/ ReadAll(p)
      PROVE  Goal
    BY <1>1 DEF CheckExists, Stat, ZipOpenNew, ZipOpenFails, AddLib,
        Finish, ReadModule, ReadAll, sourceVars
<1>2. ASSUME NEW p \in Handles,
              ZipOpenFile(p) \/ InputError(p) \/ AddMain(p) \/ BeginFails(p)
              \/ PrefixFails(p) \/ Kill(p)
      PROVE  Goal
    BY <1>2 DEF ZipOpenFile, InputError, AddMain, BeginFails,
        PrefixFails, Kill, SourceOpen, ToolFails, Abandon, sourceVars
<1>3. ASSUME NEW p \in Handles,
              CloseUnchanged(p) \/ CloseEmpty(p) \/ WriteFails(p) \/
              RenameFails(p) \/ Rollback(p) \/ Chmod(p)
      PROVE  Goal
    BY <1>3 DEF CloseUnchanged, CloseEmpty, WriteFails, RenameFails,
        Rollback, Chmod, FreeSource, RemoveSource, RollbackWrite,
        CommitFails, CommitChmod
<1>4. ASSUME NEW p \in Handles,
              CloseBegins(p)
      PROVE  Goal
  <2>1. PICK j \in Inodes : /\ file' = [file EXCEPT ![j] = {}]
                            /\ torn' = torn \ {j}
                            /\ tmp' = [tmp EXCEPT ![p] = j]
    BY <1>4 DEF CloseBegins, BeginWrite
  <2>2. tmp'[p] = j
    BY <2>1 DEF OutputTypeOK, SourceTypeOK
  <2>3. QED
    BY <2>1, <2>2 DEF OutputTypeOK, SourceTypeOK
<1>5. ASSUME NEW p \in Handles,
              WritePrefix(p) \/ WriteEntry(p) \/ WriteCdir(p)
      PROVE  Goal
  <2>1. PICK m : Write(p, m)
    BY <1>5 DEF WritePrefix, WriteEntry, WriteCdir
  <2>2. fout[p] = tmp'[p]
    BY <2>1 DEF Write, SourceInv, OutputIsTemp
  <2>3. \A i \in Inodes : i # fout[p] => file'[i] = file[i]
    BY <2>1 DEF Write, OutputTypeOK, SourceTypeOK
  <2>4. QED
    BY <2>1, <2>2, <2>3 DEF Write
<1>6. ASSUME NEW p \in Handles,
              Commit(p)
      PROVE  Goal
    BY <1>6 DEF Commit, CommitRename
<1>7. CASE UNCHANGED vars
    BY <1>7 DEF vars, sourceVars
<1>8. QED
    BY <1>1, <1>2, <1>3, <1>4, <1>5, <1>6, <1>7 DEF OutputNext, Step

\* The file the output's name stands for changes in a rename and in the
\* removal of an empty archive only.
LEMMA TargetChanges ==
    [OutputNext]_vars /\ target' # target =>
        \E p \in Handles : Commit(p) \/ CloseEmpty(p)
<1> DEFINE Goal == target' = target
<1> SUFFICES ASSUME [OutputNext]_vars
             PROVE  target' = target \/ \E p \in Handles : Commit(p) \/ CloseEmpty(p)
    OBVIOUS
<1>1. ASSUME NEW p \in Handles,
              CheckExists(p) \/ Stat(p) \/ ZipOpenNew(p) \/ ZipOpenFails(p)
              \/ AddLib(p) \/ Finish(p) \/ ReadModule(p) \/ ReadAll(p)
      PROVE  Goal
    BY <1>1 DEF CheckExists, Stat, ZipOpenNew, ZipOpenFails, AddLib,
        Finish, ReadModule, ReadAll, sourceVars
<1>2. ASSUME NEW p \in Handles,
              ZipOpenFile(p) \/ InputError(p) \/ AddMain(p) \/ BeginFails(p)
              \/ PrefixFails(p) \/ Kill(p) \/ CloseUnchanged(p)
      PROVE  Goal
    BY <1>2 DEF ZipOpenFile, InputError, AddMain, BeginFails,
        PrefixFails, Kill, CloseUnchanged, SourceOpen, ToolFails, Abandon,
        sourceVars, FreeSource
<1>3. ASSUME NEW p \in Handles,
              WriteFails(p) \/ RenameFails(p) \/ Rollback(p) \/ Chmod(p)
      PROVE  Goal
    BY <1>3 DEF WriteFails, RenameFails, Rollback, Chmod, RollbackWrite,
        CommitFails, CommitChmod
<1>4. ASSUME NEW p \in Handles,
              CloseBegins(p) \/ WritePrefix(p) \/ WriteEntry(p) \/
              WriteCdir(p)
      PROVE  Goal
    BY <1>4 DEF CloseBegins, WritePrefix, WriteEntry, WriteCdir,
        BeginWrite, Write
<1>5. CASE UNCHANGED vars
    BY <1>5 DEF vars, sourceVars
<1>6. QED
    BY <1>1, <1>2, <1>3, <1>4, <1>5 DEF OutputNext, Step

\* Between those, what is seen of it stays as it is.
LEMMA OutputStays ==
    ASSUME OutputTypeOK, SourceInv, SourceInv', [OutputNext]_vars,
           ~ \E p \in Handles : Commit(p) \/ CloseEmpty(p)
    PROVE  /\ target' = target
           /\ target # NoInode =>
                file'[target] = file[target] /\ (target \in torn' <=> target \in torn)
<1>1. target' = target
    BY TargetChanges
<1>2. target # NoInode => target \in Inodes /\ \A p \in Handles : tmp'[p] # target
    BY <1>1 DEF OutputTypeOK, SourceTypeOK, SourceInv, PublishedIsClosed
<1>3. QED
    BY <1>1, <1>2, OnlyTempsWritten

\* A piece goes to the temporary file of the tool that writes it, and to no
\* other tool's.
LEMMA WriteToOwnTemp ==
    ASSUME OutputTypeOK, SourceInv, Places, NEW p \in Handles, NEW m, Write(p, m)
    PROVE  /\ tmp' = tmp
           /\ file'[tmp[p]] = file[tmp[p]] \cup {m}
           /\ \A q \in Handles \ {p} : pc[q] \in {"prefix", "entries", "commit"}
                                       => file'[tmp[q]] = file[tmp[q]]
<1>1. tmp' = tmp /\ tmp[p] = fout[p] /\ tmp[p] \in Inodes
    BY DEF Write, SourceInv, OutputIsTemp, OutputTypeOK, SourceTypeOK
<1>2. \A q \in Handles \ {p} : pc[q] \in {"prefix", "entries", "commit"}
                               => tmp[q] \in Inodes /\ tmp[q] # tmp[p]
    BY <1>1, ZipNoInodeAssumption
       DEF Places, SourceInv, RollbackHasTemp, TempsApart, OutputTypeOK, SourceTypeOK
<1>3. QED
    BY <1>1, <1>2 DEF Write, OutputTypeOK, SourceTypeOK

\* Every step of a tool keeps its modules its own and its temporary file in
\* step with them; other tools do not touch either.
LEMMA ArchivesPreserved ==
    OutputTypeOK /\ SourceInv /\ Places /\ OwnArchives /\ [OutputNext]_vars => OwnArchives'
<1> SUFFICES ASSUME OutputTypeOK, SourceInv, Places, OwnArchives,
                      [OutputNext]_vars
             PROVE  OwnArchives'
    OBVIOUS
<1>1. ASSUME NEW p \in Handles, CheckExists(p)
      PROVE  OwnArchives'
    BY <1>1 DEF CheckExists, Goto, sourceVars, OutputTypeOK,
        SourceTypeOK, OwnArchives, Reader, Over
<1>2. ASSUME NEW p \in Handles, Stat(p)
      PROVE  OwnArchives'
    BY <1>2 DEF Stat, Goto, sourceVars, OutputTypeOK, SourceTypeOK,
        OwnArchives, Reader, Over
<1>3. ASSUME NEW p \in Handles, ZipOpenNew(p)
      PROVE  OwnArchives'
    BY <1>3 DEF ZipOpenNew, Goto, sourceVars, OutputTypeOK, SourceTypeOK,
        OwnArchives, Reader, Over
<1>4. ASSUME NEW p \in Handles, ZipOpenFile(p)
      PROVE  OwnArchives'
    BY <1>4 DEF ZipOpenFile, SourceOpen, Goto, Places, OutputTypeOK,
        SourceTypeOK, OwnArchives, Reader, Over
<1>5. ASSUME NEW p \in Handles, ZipOpenFails(p)
      PROVE  OwnArchives'
    BY <1>5 DEF ZipOpenFails, Goto, sourceVars, OutputTypeOK,
        SourceTypeOK, OwnArchives, Reader, Over
<1>6. ASSUME NEW p \in Handles, InputError(p)
      PROVE  OwnArchives'
    BY <1>6 DEF InputError, ToolFails, Abandon, Goto, sourceVars,
        OutputTypeOK, SourceTypeOK, OwnArchives, Reader, Over
<1>7. ASSUME NEW p \in Handles, AddMain(p)
      PROVE  OwnArchives'
  <2>1. file' = file /\ job' = job /\ listed' = listed
    BY <1>7 DEF AddMain, ToolFails, Abandon, Goto, sourceVars
  <2>2. \A q \in Handles \ {p} : mods'[q] = mods[q] /\ pc'[q] = pc[q] /\ tmp'[q] = tmp[q]
    BY <1>7 DEF AddMain, ToolFails, Abandon, Goto, sourceVars, OutputTypeOK, SourceTypeOK
  <2>3. /\ pc'[p] \notin {"prefix", "entries", "commit"}
        /\ mods'[p] \in {{}} \cup ModuleSets(p)
        /\ mods'[p] # {} => listed[p] = {}
    BY <1>7 DEF AddMain, ToolFails, Goto, ModuleSets, OutputTypeOK
  <2>4. QED
    BY <2>1, <2>2, <2>3 DEF OwnArchives, Reader
<1>8. ASSUME NEW p \in Handles, AddLib(p)
      PROVE  OwnArchives'
  <2>1. ~Reader(p) /\ mods' = [mods EXCEPT ![p] = {<<"main", p>>, <<"lib", p>>}]
    BY <1>8 DEF AddLib, Places
  <2>2. mods'[p] \in ModuleSets(p) /\ listed[p] = {} /\ pc[p] = "adding"
    <3>1. pc[p] = "adding" /\ mods[p] # {}
      BY <1>8 DEF AddLib
    <3>2. listed[p] = {}
      BY <2>1, <3>1 DEF OwnArchives
    <3>3. mods'[p] = {<<"main", p>>, <<"lib", p>>}
      BY <2>1 DEF OutputTypeOK
    <3>4. mods'[p] \in ModuleSets(p)
      BY <3>3 DEF ModuleSets
    <3>5. QED
      BY <3>1, <3>2, <3>4
  <2>3. file' = file /\ tmp' = tmp /\ pc' = pc /\ job' = job /\ listed' = listed
    BY <1>8 DEF AddLib, sourceVars
  <2>4. \A q \in Handles \ {p} : mods'[q] = mods[q]
    BY <2>1 DEF OutputTypeOK
  <2>5. QED
    BY <2>2, <2>3, <2>4 DEF OwnArchives, Reader
<1>9. ASSUME NEW p \in Handles, Finish(p)
      PROVE  OwnArchives'
    BY <1>9 DEF Finish, Goto, sourceVars, OutputTypeOK, SourceTypeOK,
        OwnArchives, Reader, Over
<1>10. ASSUME NEW p \in Handles, ReadModule(p)
      PROVE  OwnArchives'
    BY <1>10 DEF ReadModule, sourceVars, Places, OutputTypeOK,
        SourceTypeOK, OwnArchives, Reader, Over
<1>11. ASSUME NEW p \in Handles, ReadAll(p)
      PROVE  OwnArchives'
    BY <1>11 DEF ReadAll, Goto, sourceVars, OutputTypeOK, SourceTypeOK,
        OwnArchives, Reader, Over
<1>12. ASSUME NEW p \in Handles, CloseUnchanged(p)
      PROVE  OwnArchives'
    BY <1>12 DEF CloseUnchanged, FreeSource, Exit, OutputTypeOK,
        SourceTypeOK, OwnArchives, Reader, Over
<1>13. ASSUME NEW p \in Handles, CloseEmpty(p)
      PROVE  OwnArchives'
    BY <1>13 DEF CloseEmpty, RemoveSource, Closing, RollingBack, Exit,
        OutputTypeOK, SourceTypeOK, OwnArchives, Reader, Over
<1>14. ASSUME NEW p \in Handles, CloseBegins(p)
      PROVE  OwnArchives'
    BY <1>14 DEF CloseBegins, BeginWrite, Goto, UnusedInode, Changed,
        OutputTypeOK, SourceTypeOK, OwnArchives, Reader, Over
<1>15. ASSUME NEW p \in Handles, BeginFails(p)
      PROVE  OwnArchives'
    BY <1>15 DEF BeginFails, Abandon, Exit, OutputTypeOK, SourceTypeOK,
        OwnArchives, Reader, Over
<1>16. ASSUME NEW p \in Handles, WritePrefix(p)
      PROVE  OwnArchives'
  <2>1. Write(p, <<"prefix", p>>)
    BY <1>16 DEF WritePrefix
  <2>2. /\ tmp' = tmp
        /\ file'[tmp[p]] = file[tmp[p]] \cup {<<"prefix", p>>}
        /\ \A q \in Handles \ {p} : pc[q] \in {"prefix", "entries", "commit"}
                                    => file'[tmp[q]] = file[tmp[q]]
    BY <2>1, WriteToOwnTemp
  <2>3. /\ job' = job /\ listed' = listed /\ mods' = mods
        /\ pc[p] = "prefix" /\ pc'[p] = "entries"
        /\ \A q \in Handles \ {p} : pc'[q] = pc[q]
    BY <1>16 DEF WritePrefix, Goto, OutputTypeOK
  <2>4. ~Reader(p) => /\ mods[p] # {}
                      /\ file'[tmp'[p]] = {<<"prefix", p>>}
    BY <2>2, <2>3 DEF OwnArchives
  <2>5. QED
    BY <2>2, <2>3, <2>4 DEF OwnArchives, Reader
<1>17. ASSUME NEW p \in Handles, PrefixFails(p)
      PROVE  OwnArchives'
    BY <1>17 DEF PrefixFails, Abandon, Exit, OutputTypeOK, SourceTypeOK,
        OwnArchives, Reader, Over
<1>18. ASSUME NEW p \in Handles, WriteEntry(p)
      PROVE  OwnArchives'
  <2>1. PICK m \in Survivors(p) : Write(p, m)
    BY <1>18 DEF WriteEntry
  <2>2. /\ tmp' = tmp
        /\ file'[tmp[p]] = file[tmp[p]] \cup {m}
        /\ \A q \in Handles \ {p} : pc[q] \in {"prefix", "entries", "commit"}
                                    => file'[tmp[q]] = file[tmp[q]]
    BY <2>1, WriteToOwnTemp
  <2>3. ~Reader(p) => m \in mods[p]
    BY <1>18, <2>1 DEF WriteEntry, OwnArchives, Survivors
  <2>4. QED
    BY <1>18, <2>2, <2>3 DEF WriteEntry, outputVars, OwnArchives, Reader
<1>19. ASSUME NEW p \in Handles, WriteCdir(p)
      PROVE  OwnArchives'
  <2>1. Write(p, <<"cdir", p>>)
    BY <1>19 DEF WriteCdir
  <2>2. /\ tmp' = tmp
        /\ file'[tmp[p]] = file[tmp[p]] \cup {<<"cdir", p>>}
        /\ \A q \in Handles \ {p} : pc[q] \in {"prefix", "entries", "commit"}
                                    => file'[tmp[q]] = file[tmp[q]]
    BY <2>1, WriteToOwnTemp
  <2>3. ~Reader(p) => /\ pc'[p] = "commit"
                       /\ file'[tmp'[p]] = {<<"prefix", p>>, <<"cdir", p>>} \cup mods[p]
    <3>1. SUFFICES ASSUME ~Reader(p)
                   PROVE  file[tmp[p]] = {<<"prefix", p>>} \cup mods[p] /\ pc'[p] = "commit"
      BY <2>2, <3>1
    <3>2. pc[p] = "entries" /\ pc'[p] = "commit" /\ Survivors(p) \subseteq file[fout[p]]
      BY <1>19 DEF WriteCdir, Goto, OutputTypeOK
    <3>3. fout[p] = tmp[p]
      BY <2>1 DEF Write, SourceInv, OutputIsTemp
    <3>4. mods[p] \subseteq file[tmp[p]]
      BY <3>2, <3>3 DEF Survivors
    <3>5. /\ <<"prefix", p>> \in file[tmp[p]]
          /\ file[tmp[p]] \subseteq {<<"prefix", p>>} \cup mods[p]
      BY <3>1, <3>2 DEF OwnArchives
    <3>6. QED
      BY <3>2, <3>4, <3>5
  <2>4. /\ pc[p] = "entries" /\ pc' = [pc EXCEPT ![p] = "commit"]
        /\ UNCHANGED <<job, listed, mods>>
    BY <1>19 DEF WriteCdir, Goto
  <2>5. QED
    BY <2>2, <2>3, <2>4 DEF OwnArchives, OutputTypeOK, Reader
<1>20. ASSUME NEW p \in Handles, WriteFails(p)
      PROVE  OwnArchives'
    BY <1>20 DEF WriteFails, RollbackWrite, RollingBack, Exit,
        OutputTypeOK, SourceTypeOK, OwnArchives, Reader, Over
<1>21. ASSUME NEW p \in Handles, Commit(p)
      PROVE  OwnArchives'
    BY <1>21 DEF Commit, CommitRename, Closing, Goto, OutputTypeOK,
        SourceTypeOK, OwnArchives, Reader, Over
<1>22. ASSUME NEW p \in Handles, RenameFails(p)
      PROVE  OwnArchives'
    BY <1>22 DEF RenameFails, CommitFails, Closing, Goto, OutputTypeOK,
        SourceTypeOK, OwnArchives, Reader, Over
<1>23. ASSUME NEW p \in Handles, Rollback(p)
      PROVE  OwnArchives'
    BY <1>23 DEF Rollback, RollbackWrite, RollingBack, Exit,
        OutputTypeOK, SourceTypeOK, OwnArchives, Reader, Over
<1>24. ASSUME NEW p \in Handles, Chmod(p)
      PROVE  OwnArchives'
    BY <1>24 DEF Chmod, CommitChmod, Exit, OutputTypeOK, SourceTypeOK,
        OwnArchives, Reader, Over
<1>25. ASSUME NEW p \in Handles, Kill(p)
      PROVE  OwnArchives'
    BY <1>25 DEF Kill, Abandon, OutputTypeOK, SourceTypeOK, OwnArchives,
        Reader, Over
<1>26. CASE UNCHANGED vars
    BY <1>26 DEF vars, sourceVars, outputVars, OutputTypeOK,
        SourceTypeOK, OwnArchives, Reader, Over
<1>27. QED
    BY <1>1, <1>2, <1>3, <1>4, <1>5, <1>6, <1>7, <1>8, <1>9, <1>10,
        <1>11, <1>12, <1>13, <1>14, <1>15, <1>16, <1>17, <1>18, <1>19, <1>20,
        <1>21, <1>22, <1>23, <1>24, <1>25, <1>26 DEF OutputNext, Step

\* What an archive's modules are.
LEMMA ArchiveFacts ==
    \A w \in Handles \cup {Orig} :
        /\ \A S \in ModuleSets(w) :
              {<<"prefix", w>>, <<"cdir", w>>} \cup S \in WholeArchives(w)
        /\ \A A \in WholeArchives(w) : ModulesIn(A) \in ModuleSets(w)
<1> SUFFICES ASSUME NEW w \in Handles \cup {Orig}
             PROVE  /\ \A S \in ModuleSets(w) :
                          {<<"prefix", w>>, <<"cdir", w>>} \cup S \in WholeArchives(w)
                    /\ \A A \in WholeArchives(w) : ModulesIn(A) \in ModuleSets(w)
    OBVIOUS
<1>1. Archive(w, {}) = {<<"prefix", w>>, <<"cdir", w>>, <<"main", w>>}
    BY DEF Archive
<1>2. Archive(w, {"lib"}) = {<<"prefix", w>>, <<"cdir", w>>, <<"main", w>>, <<"lib", w>>}
    BY DEF Archive
<1>3. ModulesIn(Archive(w, {})) = {<<"main", w>>}
    BY <1>1 DEF ModulesIn, ModuleKinds
<1>4. ModulesIn(Archive(w, {"lib"})) = {<<"main", w>>, <<"lib", w>>}
    BY <1>2 DEF ModulesIn, ModuleKinds
<1>5. QED
    BY <1>1, <1>2, <1>3, <1>4 DEF ModuleSets, WholeArchives

\* What libzip can open has the modules of one archive in it.
LEMMA ListableModules ==
    ASSUME OutputTypeOK, PublishedWhole, target # NoInode, Listable(target)
    PROVE  ModulesIn(file[target]) \in {{<<"main", Orig>>, <<"lib", Orig>>}}
                                          \cup UNION {ModuleSets(w) : w \in Handles}
<1>1. CASE file[target] \in OrigContents
  <2>1. file[target] = {<<"prefix", Orig>>, <<"main", Orig>>, <<"lib", Orig>>, <<"cdir", Orig>>}
    BY <1>1 DEF OrigContents, Listable
  <2>2. QED
    BY <2>1 DEF ModulesIn, ModuleKinds
<1>2. ASSUME NEW w \in Handles, file[target] \in WholeArchives(w)
      PROVE  ModulesIn(file[target]) \in ModuleSets(w)
    BY <1>2, ArchiveFacts
<1>3. QED
    BY <1>1, <1>2 DEF PublishedWhole

\* A rename puts a whole archive of its tool in place.
LEMMA CommitPublishes ==
    ASSUME OutputTypeOK, SourceInv, Places, OwnArchives, NEW p \in Handles, Commit(p)
    PROVE  /\ target' = tmp[p] /\ tmp[p] \in Inodes
           /\ file'[target'] \in WholeArchives(p)
           /\ mods[p] # {} /\ listed[p] = {} /\ ~Reader(p)
<1>1. pc[p] = "commit" /\ target' = tmp[p] /\ file' = file
    BY DEF Commit, CommitRename, Goto
<1>2. ~Reader(p) /\ ws[p] = "open" /\ ~renamed[p]
    BY <1>1 DEF Places
<1>3. tmp[p] \in Inodes
    BY <1>2, ZipNoInodeAssumption DEF SourceInv, RollbackHasTemp, OutputTypeOK, SourceTypeOK
<1>4. /\ mods[p] \in ModuleSets(p) /\ mods[p] # {} /\ listed[p] = {}
      /\ file[tmp[p]] = {<<"prefix", p>>, <<"cdir", p>>} \cup mods[p]
    BY <1>1, <1>2 DEF OwnArchives
<1>5. QED
    BY <1>1, <1>2, <1>3, <1>4, ArchiveFacts

\* Without faults of fclose no file is torn.
LEMMA TornOnlyByFlush ==
    ASSUME torn # {} => FlushFaults, [OutputNext]_vars
    PROVE  torn' # {} => FlushFaults
<1> DEFINE Goal == torn' \subseteq torn
<1>1. ASSUME NEW p \in Handles,
              CheckExists(p) \/ Stat(p) \/ ZipOpenNew(p) \/ ZipOpenFails(p)
              \/ AddLib(p) \/ Finish(p) \/ ReadModule(p) \/ ReadAll(p)
      PROVE  Goal
    BY <1>1 DEF CheckExists, Stat, ZipOpenNew, ZipOpenFails, AddLib,
        Finish, ReadModule, ReadAll, sourceVars
<1>2. ASSUME NEW p \in Handles,
              ZipOpenFile(p) \/ InputError(p) \/ AddMain(p) \/ BeginFails(p)
              \/ PrefixFails(p) \/ Kill(p)
      PROVE  Goal
    BY <1>2 DEF ZipOpenFile, InputError, AddMain, BeginFails,
        PrefixFails, Kill, SourceOpen, ToolFails, Abandon, sourceVars
<1>3. ASSUME NEW p \in Handles,
              CloseUnchanged(p) \/ CloseEmpty(p) \/ WriteFails(p) \/
              RenameFails(p) \/ Rollback(p) \/ Chmod(p)
      PROVE  Goal
    BY <1>3 DEF CloseUnchanged, CloseEmpty, WriteFails, RenameFails,
        Rollback, Chmod, FreeSource, RemoveSource, RollbackWrite,
        CommitFails, CommitChmod
<1>4. ASSUME NEW p \in Handles,
              CloseBegins(p) \/ WritePrefix(p) \/ WriteEntry(p) \/
              WriteCdir(p)
      PROVE  Goal
    BY <1>4 DEF CloseBegins, WritePrefix, WriteEntry, WriteCdir,
        BeginWrite, Write
<1>5. ASSUME NEW p \in Handles, Commit(p), ~FlushFaults
      PROVE  Goal
    BY <1>5 DEF Commit, CommitRename
<1>6. CASE UNCHANGED vars
    BY <1>6 DEF vars, sourceVars
<1>7. QED
    BY <1>1, <1>2, <1>3, <1>4, <1>5, <1>6, FlushFaultsAssumption DEF
        OutputNext, Step

\* The output stays what was there at first or the whole archive of a tool.
LEMMA PublishedPreserved ==
    OutputTypeOK /\ SourceInv /\ SourceInv' /\ Places /\ OwnArchives /\ PublishedWhole
        /\ [OutputNext]_vars => PublishedWhole'
<1> SUFFICES ASSUME OutputTypeOK, SourceInv, SourceInv', Places, OwnArchives,
                    PublishedWhole, [OutputNext]_vars
             PROVE  PublishedWhole'
    OBVIOUS
<1> DEFINE Whole == OrigContents \cup UNION {WholeArchives(w) : w \in Handles}
<1>1. torn' # {} => FlushFaults
    BY TornOnlyByFlush DEF PublishedWhole
<1>2. target' # NoInode => file'[target'] \in Whole
  <2>1. CASE \E p \in Handles : Commit(p)
    BY <2>1, CommitPublishes
  <2>2. CASE \E p \in Handles : CloseEmpty(p)
    BY <2>2 DEF CloseEmpty, RemoveSource
  <2>3. CASE ~ \E p \in Handles : Commit(p) \/ CloseEmpty(p)
    BY <2>3, OutputStays DEF PublishedWhole
  <2>4. QED
    BY <2>1, <2>2, <2>3
<1>3. QED
    BY <1>1, <1>2 DEF PublishedWhole, OrigContents, WholeArchives, Archive

\* The file a process has open for reading stays as it was when opened.
LEMMA ReadFilesStay ==
    ASSUME OutputTypeOK, SourceInv, SourceInv', [OutputNext]_vars,
           NEW q \in Handles, rd[q] # NoInode, rd'[q] = rd[q]
    PROVE  file'[rd[q]] = file[rd[q]]
<1>1. rd[q] \in Inodes
    BY DEF OutputTypeOK, SourceTypeOK
<1>2. ASSUME NEW p \in Handles, tmp'[p] = rd[q]
      PROVE  FALSE
    BY <1>1, <1>2, ZipNoInodeAssumption DEF SourceInv, TempsApart
<1>3. QED
    BY <1>1, <1>2, OnlyTempsWritten

\* alley's archive keeps the modules it listed, and alley keeps to them.
LEMMA SnapshotsPreserved ==
    OutputTypeOK /\ SourceInv /\ SourceInv' /\ Places /\ PublishedWhole /\
    Snapshots /\ [OutputNext]_vars => Snapshots'
<1> SUFFICES ASSUME OutputTypeOK, SourceInv, SourceInv', Places,
                      PublishedWhole, Snapshots, [OutputNext]_vars
             PROVE  Snapshots'
    OBVIOUS
<1>0. \A q \in Handles : rd[q] # NoInode /\ rd'[q] = rd[q] => file'[rd[q]] = file[rd[q]]
    BY ReadFilesStay
<1>1. ASSUME NEW p \in Handles, CheckExists(p)
      PROVE  Snapshots'
    BY <1>1, <1>0 DEF CheckExists, Goto, sourceVars, Places,
        OutputTypeOK, SourceTypeOK, Snapshots, Reader, Over
<1>2. ASSUME NEW p \in Handles, Stat(p)
      PROVE  Snapshots'
    BY <1>2, <1>0 DEF Stat, Goto, sourceVars, Places, OutputTypeOK,
        SourceTypeOK, Snapshots, Reader, Over
<1>3. ASSUME NEW p \in Handles, ZipOpenNew(p)
      PROVE  Snapshots'
    BY <1>3, <1>0 DEF ZipOpenNew, Goto, sourceVars, Places, OutputTypeOK,
        SourceTypeOK, Snapshots, Reader, Over
<1>4. ASSUME NEW p \in Handles, ZipOpenFile(p)
      PROVE  Snapshots'
  <2> DEFINE Lists == {{<<"main", Orig>>, <<"lib", Orig>>}}
                          \cup UNION {ModuleSets(w) : w \in Handles}
  <2>1. /\ file' = file /\ job' = job /\ mods' = mods
        /\ opens[p] = 0 /\ rd' = [rd EXCEPT ![p] = target] /\ target # NoInode
    BY <1>4 DEF ZipOpenFile, SourceOpen, Goto, Places
  <2>2. PICK found :
            /\ found = {} \/ (found = ModulesIn(file[target]) /\ found \in Lists)
            /\ listed' = [listed EXCEPT ![p] = found]
            /\ err' = IF Reader(p) /\ found = {} THEN err \cup {p} ELSE err
            /\ pc' = [pc EXCEPT ![p] = IF ~Reader(p) THEN "adding"
                                       ELSE IF found = {} THEN "close" ELSE "reading"]
    <3> DEFINE fresh == (job[p].force /\ ~Reader(p)) \/ seen[p] = "empty"
               found == IF fresh THEN {} ELSE ModulesIn(file[target])
    <3>1. found = {} \/ (found = ModulesIn(file[target]) /\ found \in Lists)
      <4>1. CASE fresh
        BY <4>1
      <4>2. CASE ~fresh
        <5>1. target # NoInode /\ Listable(target)
          BY <1>4, <4>2 DEF ZipOpenFile
        <5>2. ModulesIn(file[target]) \in Lists
          BY <5>1, ListableModules
        <5>3. QED
          BY <4>2, <5>2
      <4>3. QED
        BY <4>1, <4>2
    <3>2. /\ listed' = [listed EXCEPT ![p] = found]
          /\ err' = IF Reader(p) /\ found = {} THEN err \cup {p} ELSE err
          /\ pc' = [pc EXCEPT ![p] = IF ~Reader(p) THEN "adding"
                                     ELSE IF found = {} THEN "close" ELSE "reading"]
      BY <1>4 DEF ZipOpenFile, Goto
    <3>3. QED
      BY <3>1, <3>2
  <2>3. Reader(p) => /\ listed'[p] \in {{}} \cup Lists
                     /\ pc'[p] = "reading" => /\ rd'[p] # NoInode /\ listed'[p] # {}
                                              /\ listed'[p] = ModulesIn(file'[rd'[p]])
                     /\ pc'[p] = "close" => p \in err'
                     /\ pc'[p] # "succeeded"
    BY <2>1, <2>2 DEF OutputTypeOK, SourceTypeOK
  <2>4. \A q \in Handles \ {p} :
            /\ listed'[q] = listed[q] /\ pc'[q] = pc[q] /\ rd'[q] = rd[q]
            /\ mods'[q] = mods[q] /\ (q \in err' <=> q \in err)
    BY <2>1, <2>2 DEF OutputTypeOK, SourceTypeOK
  <2>5. QED
    BY <2>1, <2>3, <2>4 DEF Snapshots, Reader, ModulesIn, ModuleSets
<1>5. ASSUME NEW p \in Handles, ZipOpenFails(p)
      PROVE  Snapshots'
    BY <1>5, <1>0 DEF ZipOpenFails, Goto, sourceVars, Places,
        OutputTypeOK, SourceTypeOK, Snapshots, Reader, Over
<1>6. ASSUME NEW p \in Handles, InputError(p)
      PROVE  Snapshots'
    BY <1>6, <1>0 DEF InputError, ToolFails, Abandon, Goto, sourceVars,
        Places, OutputTypeOK, SourceTypeOK, Snapshots, Reader, Over
<1>7. ASSUME NEW p \in Handles, AddMain(p)
      PROVE  Snapshots'
  <2>1. file' = file /\ job' = job /\ listed' = listed /\ ~Reader(p)
    BY <1>7 DEF AddMain, ToolFails, Abandon, Goto, sourceVars, Places
  <2>2. \A q \in Handles \ {p} : /\ mods'[q] = mods[q] /\ pc'[q] = pc[q]
                                 /\ rd'[q] = rd[q] /\ (q \in err' <=> q \in err)
    BY <1>7 DEF AddMain, ToolFails, Abandon, Goto, sourceVars, OutputTypeOK, SourceTypeOK
  <2>3. QED
    BY <2>1, <2>2 DEF Snapshots, Reader
<1>8. ASSUME NEW p \in Handles, AddLib(p)
      PROVE  Snapshots'
    BY <1>8, <1>0 DEF AddLib, sourceVars, Places, OutputTypeOK,
        SourceTypeOK, Snapshots, Reader, Over
<1>9. ASSUME NEW p \in Handles, Finish(p)
      PROVE  Snapshots'
    BY <1>9, <1>0 DEF Finish, Goto, sourceVars, Places, OutputTypeOK,
        SourceTypeOK, Snapshots, Reader, Over
<1>10. ASSUME NEW p \in Handles, ReadModule(p)
      PROVE  Snapshots'
    BY <1>10, <1>0 DEF ReadModule, sourceVars, Places, OutputTypeOK,
        SourceTypeOK, Snapshots, Reader, Over
<1>11. ASSUME NEW p \in Handles, ReadAll(p)
      PROVE  Snapshots'
    BY <1>11, <1>0 DEF ReadAll, Goto, sourceVars, OutputTypeOK,
        SourceTypeOK, Snapshots, Reader, Over
<1>12. ASSUME NEW p \in Handles, CloseUnchanged(p)
      PROVE  Snapshots'
    BY <1>12, <1>0 DEF CloseUnchanged, FreeSource, Exit, Places,
        OutputTypeOK, SourceTypeOK, Snapshots, Reader, Over
<1>13. ASSUME NEW p \in Handles, CloseEmpty(p)
      PROVE  Snapshots'
    BY <1>13, <1>0 DEF CloseEmpty, RemoveSource, Closing, RollingBack,
        Exit, Places, OutputTypeOK, SourceTypeOK, Snapshots, Reader, Over
<1>14. ASSUME NEW p \in Handles, CloseBegins(p)
      PROVE  Snapshots'
    BY <1>14, <1>0 DEF CloseBegins, BeginWrite, Goto, Places,
        OutputTypeOK, SourceTypeOK, Snapshots, Reader, Over
<1>15. ASSUME NEW p \in Handles, BeginFails(p)
      PROVE  Snapshots'
    BY <1>15, <1>0 DEF BeginFails, Abandon, Exit, Places, OutputTypeOK,
        SourceTypeOK, Snapshots, Reader, Over
<1>16. ASSUME NEW p \in Handles, WritePrefix(p)
      PROVE  Snapshots'
  <2>1. UNCHANGED <<job, listed, mods, err, rd>>
    BY <1>16 DEF WritePrefix, Write
  <2>2. pc[p] = "prefix" /\ pc' = [pc EXCEPT ![p] = "entries"] /\ ~Reader(p)
    BY <1>16 DEF WritePrefix, Goto, Places
  <2>3. QED
    BY <1>0, <2>1, <2>2 DEF OutputTypeOK, Snapshots, Reader
<1>17. ASSUME NEW p \in Handles, PrefixFails(p)
      PROVE  Snapshots'
    BY <1>17, <1>0 DEF PrefixFails, Abandon, Exit, Places, OutputTypeOK,
        SourceTypeOK, Snapshots, Reader, Over
<1>18. ASSUME NEW p \in Handles, WriteEntry(p)
      PROVE  Snapshots'
    BY <1>18, <1>0 DEF WriteEntry, Write, outputVars, Places,
        OutputTypeOK, SourceTypeOK, Snapshots, Reader, Over
<1>19. ASSUME NEW p \in Handles, WriteCdir(p)
      PROVE  Snapshots'
  <2>1. UNCHANGED <<job, listed, mods, err, rd>>
    BY <1>19 DEF WriteCdir, Write
  <2>2. pc[p] = "entries" /\ pc' = [pc EXCEPT ![p] = "commit"] /\ ~Reader(p)
    BY <1>19 DEF WriteCdir, Goto, Places
  <2>3. QED
    BY <1>0, <2>1, <2>2 DEF OutputTypeOK, Snapshots, Reader
<1>20. ASSUME NEW p \in Handles, WriteFails(p)
      PROVE  Snapshots'
    BY <1>20, <1>0 DEF WriteFails, RollbackWrite, RollingBack, Exit,
        Places, OutputTypeOK, SourceTypeOK, Snapshots, Reader, Over
<1>21. ASSUME NEW p \in Handles, Commit(p)
      PROVE  Snapshots'
    BY <1>21, <1>0 DEF Commit, CommitRename, Closing, Goto, Places,
        OutputTypeOK, SourceTypeOK, Snapshots, Reader, Over
<1>22. ASSUME NEW p \in Handles, RenameFails(p)
      PROVE  Snapshots'
    BY <1>22, <1>0 DEF RenameFails, CommitFails, Closing, Goto, Places,
        OutputTypeOK, SourceTypeOK, Snapshots, Reader, Over
<1>23. ASSUME NEW p \in Handles, Rollback(p)
      PROVE  Snapshots'
    BY <1>23, <1>0 DEF Rollback, RollbackWrite, RollingBack, Exit,
        Places, OutputTypeOK, SourceTypeOK, Snapshots, Reader, Over
<1>24. ASSUME NEW p \in Handles, Chmod(p)
      PROVE  Snapshots'
    BY <1>24, <1>0 DEF Chmod, CommitChmod, Exit, Places, OutputTypeOK,
        SourceTypeOK, Snapshots, Reader, Over
<1>25. ASSUME NEW p \in Handles, Kill(p)
      PROVE  Snapshots'
    BY <1>25, <1>0 DEF Kill, Abandon, Places, OutputTypeOK, SourceTypeOK,
        Snapshots, Reader, Over
<1>26. CASE UNCHANGED vars
    BY <1>26 DEF vars, sourceVars, outputVars, OutputTypeOK,
        SourceTypeOK, Snapshots, Reader, Over
<1>27. QED
    BY <1>1, <1>2, <1>3, <1>4, <1>5, <1>6, <1>7, <1>8, <1>9, <1>10,
        <1>11, <1>12, <1>13, <1>14, <1>15, <1>16, <1>17, <1>18, <1>19, <1>20,
        <1>21, <1>22, <1>23, <1>24, <1>25, <1>26 DEF OutputNext, Step

\* An archive is made executable by whoever is at the chmod, its writer or
\* another tool that came before it.
LEMMA ChmodPreserved ==
    OutputTypeOK /\ SourceInv /\ ChmodPending /\ [OutputNext]_vars => ChmodPending'
<1> SUFFICES ASSUME OutputTypeOK, SourceInv, ChmodPending,
                      [OutputNext]_vars
             PROVE  ChmodPending'
    OBVIOUS
<1>1. ASSUME NEW p \in Handles, CheckExists(p)
      PROVE  ChmodPending'
    BY <1>1 DEF CheckExists, Goto, sourceVars, OutputTypeOK,
        SourceTypeOK, ChmodPending, Over, Running
<1>2. ASSUME NEW p \in Handles, Stat(p)
      PROVE  ChmodPending'
    BY <1>2 DEF Stat, Goto, sourceVars, OutputTypeOK, SourceTypeOK,
        ChmodPending, Over, Running
<1>3. ASSUME NEW p \in Handles, ZipOpenNew(p)
      PROVE  ChmodPending'
    BY <1>3 DEF ZipOpenNew, Goto, sourceVars, OutputTypeOK, SourceTypeOK,
        ChmodPending, Over, Running
<1>4. ASSUME NEW p \in Handles, ZipOpenFile(p)
      PROVE  ChmodPending'
    BY <1>4 DEF ZipOpenFile, SourceOpen, Goto, OutputTypeOK,
        SourceTypeOK, ChmodPending, Over, Running
<1>5. ASSUME NEW p \in Handles, ZipOpenFails(p)
      PROVE  ChmodPending'
    BY <1>5 DEF ZipOpenFails, Goto, sourceVars, OutputTypeOK,
        SourceTypeOK, ChmodPending, Over, Running
<1>6. ASSUME NEW p \in Handles, InputError(p)
      PROVE  ChmodPending'
    BY <1>6 DEF InputError, ToolFails, Abandon, Goto, sourceVars,
        OutputTypeOK, SourceTypeOK, ChmodPending, Over, Running
<1>7. ASSUME NEW p \in Handles, AddMain(p)
      PROVE  ChmodPending'
    BY <1>7 DEF AddMain, ToolFails, Abandon, Goto, sourceVars,
        OutputTypeOK, SourceTypeOK, ChmodPending, Over, Running
<1>8. ASSUME NEW p \in Handles, AddLib(p)
      PROVE  ChmodPending'
    BY <1>8 DEF AddLib, sourceVars, OutputTypeOK, SourceTypeOK,
        ChmodPending, Over, Running
<1>9. ASSUME NEW p \in Handles, Finish(p)
      PROVE  ChmodPending'
    BY <1>9 DEF Finish, Goto, sourceVars, OutputTypeOK, SourceTypeOK,
        ChmodPending, Over, Running
<1>10. ASSUME NEW p \in Handles, ReadModule(p)
      PROVE  ChmodPending'
    BY <1>10 DEF ReadModule, sourceVars, OutputTypeOK, SourceTypeOK,
        ChmodPending, Over, Running
<1>11. ASSUME NEW p \in Handles, ReadAll(p)
      PROVE  ChmodPending'
    BY <1>11 DEF ReadAll, Goto, sourceVars, OutputTypeOK, SourceTypeOK,
        ChmodPending, Over, Running
<1>12. ASSUME NEW p \in Handles, CloseUnchanged(p)
      PROVE  ChmodPending'
    BY <1>12 DEF CloseUnchanged, FreeSource, Exit, OutputTypeOK,
        SourceTypeOK, ChmodPending, Over, Running
<1>13. ASSUME NEW p \in Handles, CloseEmpty(p)
      PROVE  ChmodPending'
    BY <1>13 DEF CloseEmpty, RemoveSource, Closing, RollingBack, Exit,
        OutputTypeOK, SourceTypeOK, ChmodPending, Over, Running
<1>14. ASSUME NEW p \in Handles, CloseBegins(p)
      PROVE  ChmodPending'
    BY <1>14 DEF CloseBegins, BeginWrite, Goto, UnusedInode,
        OutputTypeOK, SourceTypeOK, ChmodPending, Over, Running
<1>15. ASSUME NEW p \in Handles, BeginFails(p)
      PROVE  ChmodPending'
    BY <1>15 DEF BeginFails, Abandon, Exit, OutputTypeOK, SourceTypeOK,
        ChmodPending, Over, Running
<1>16. ASSUME NEW p \in Handles, WritePrefix(p)
      PROVE  ChmodPending'
    BY <1>16 DEF WritePrefix, Write, Goto, OutputTypeOK, SourceTypeOK,
        ChmodPending, Over, Running
<1>17. ASSUME NEW p \in Handles, PrefixFails(p)
      PROVE  ChmodPending'
    BY <1>17 DEF PrefixFails, Abandon, Exit, OutputTypeOK, SourceTypeOK,
        ChmodPending, Over, Running
<1>18. ASSUME NEW p \in Handles, WriteEntry(p)
      PROVE  ChmodPending'
    BY <1>18 DEF WriteEntry, Write, outputVars, OutputTypeOK,
        SourceTypeOK, ChmodPending, Over, Running
<1>19. ASSUME NEW p \in Handles, WriteCdir(p)
      PROVE  ChmodPending'
    BY <1>19 DEF WriteCdir, Write, Goto, OutputTypeOK, SourceTypeOK,
        ChmodPending, Over, Running
<1>20. ASSUME NEW p \in Handles, WriteFails(p)
      PROVE  ChmodPending'
    BY <1>20 DEF WriteFails, RollbackWrite, RollingBack, Exit,
        OutputTypeOK, SourceTypeOK, ChmodPending, Over, Running
<1>21. ASSUME NEW p \in Handles, Commit(p)
      PROVE  ChmodPending'
    BY <1>21 DEF Commit, CommitRename, Closing, Goto, OutputTypeOK,
        SourceTypeOK, ChmodPending, Over, Running
<1>22. ASSUME NEW p \in Handles, RenameFails(p)
      PROVE  ChmodPending'
    BY <1>22 DEF RenameFails, CommitFails, Closing, Goto, OutputTypeOK,
        SourceTypeOK, ChmodPending, Over, Running
<1>23. ASSUME NEW p \in Handles, Rollback(p)
      PROVE  ChmodPending'
    BY <1>23 DEF Rollback, RollbackWrite, RollingBack, Exit,
        OutputTypeOK, SourceTypeOK, ChmodPending, Over, Running
<1>24. ASSUME NEW p \in Handles, Chmod(p)
      PROVE  ChmodPending'
    BY <1>24 DEF Chmod, CommitChmod, Exit, OutputTypeOK, SourceTypeOK,
        ChmodPending, Over, Running
<1>25. ASSUME NEW p \in Handles, Kill(p)
      PROVE  ChmodPending'
    BY <1>25 DEF Kill, Abandon, OutputTypeOK, SourceTypeOK, ChmodPending,
        Over, Running
<1>26. CASE UNCHANGED vars
    BY <1>26 DEF vars, sourceVars, outputVars, OutputTypeOK,
        SourceTypeOK, ChmodPending, Over, Running
<1>27. QED
    BY <1>1, <1>2, <1>3, <1>4, <1>5, <1>6, <1>7, <1>8, <1>9, <1>10,
        <1>11, <1>12, <1>13, <1>14, <1>15, <1>16, <1>17, <1>18, <1>19, <1>20,
        <1>21, <1>22, <1>23, <1>24, <1>25, <1>26 DEF OutputNext, Step

\* A tool that gets to zip_close without a module has failed before.
LEMMA ErrorPreserved ==
    OutputTypeOK /\ Places /\ EmptyOnError /\ [OutputNext]_vars => EmptyOnError'
<1> SUFFICES ASSUME OutputTypeOK, Places, EmptyOnError, [OutputNext]_vars
             PROVE  EmptyOnError'
    OBVIOUS
<1>1. ASSUME NEW p \in Handles, CheckExists(p)
      PROVE  EmptyOnError'
    BY <1>1 DEF CheckExists, Goto, sourceVars, OutputTypeOK,
        EmptyOnError, Over, Reader
<1>2. ASSUME NEW p \in Handles, Stat(p)
      PROVE  EmptyOnError'
    BY <1>2 DEF Stat, Goto, sourceVars, OutputTypeOK, EmptyOnError, Over,
        Reader
<1>3. ASSUME NEW p \in Handles, ZipOpenNew(p)
      PROVE  EmptyOnError'
    BY <1>3 DEF ZipOpenNew, Goto, sourceVars, OutputTypeOK, EmptyOnError,
        Over, Reader
<1>4. ASSUME NEW p \in Handles, ZipOpenFile(p)
      PROVE  EmptyOnError'
    BY <1>4 DEF ZipOpenFile, SourceOpen, Goto, OutputTypeOK,
        EmptyOnError, Over, Reader
<1>5. ASSUME NEW p \in Handles, ZipOpenFails(p)
      PROVE  EmptyOnError'
    BY <1>5 DEF ZipOpenFails, Goto, sourceVars, OutputTypeOK,
        EmptyOnError, Over, Reader
<1>6. ASSUME NEW p \in Handles, InputError(p)
      PROVE  EmptyOnError'
    BY <1>6 DEF InputError, ToolFails, Abandon, Goto, sourceVars,
        OutputTypeOK, EmptyOnError, Over, Reader
<1>7. ASSUME NEW p \in Handles, AddMain(p)
      PROVE  EmptyOnError'
    BY <1>7 DEF AddMain, ToolFails, Abandon, Goto, sourceVars,
        OutputTypeOK, EmptyOnError, Over, Reader
<1>8. ASSUME NEW p \in Handles, AddLib(p)
      PROVE  EmptyOnError'
    BY <1>8 DEF AddLib, sourceVars, Places, OutputTypeOK, EmptyOnError,
        Over, Reader
<1>9. ASSUME NEW p \in Handles, Finish(p)
      PROVE  EmptyOnError'
    BY <1>9 DEF Finish, Goto, sourceVars, OutputTypeOK, EmptyOnError,
        Over, Reader
<1>10. ASSUME NEW p \in Handles, ReadModule(p)
      PROVE  EmptyOnError'
    BY <1>10 DEF ReadModule, sourceVars, OutputTypeOK, EmptyOnError,
        Over, Reader
<1>11. ASSUME NEW p \in Handles, ReadAll(p)
      PROVE  EmptyOnError'
    BY <1>11 DEF ReadAll, Goto, sourceVars, Places, OutputTypeOK,
        EmptyOnError, Over, Reader
<1>12. ASSUME NEW p \in Handles, CloseUnchanged(p)
      PROVE  EmptyOnError'
    BY <1>12 DEF CloseUnchanged, FreeSource, Exit, OutputTypeOK,
        EmptyOnError, Over, Reader
<1>13. ASSUME NEW p \in Handles, CloseEmpty(p)
      PROVE  EmptyOnError'
    BY <1>13 DEF CloseEmpty, RemoveSource, Closing, RollingBack, Exit,
        OutputTypeOK, EmptyOnError, Over, Reader
<1>14. ASSUME NEW p \in Handles, CloseBegins(p)
      PROVE  EmptyOnError'
    BY <1>14 DEF CloseBegins, BeginWrite, Goto, OutputTypeOK,
        EmptyOnError, Over, Reader
<1>15. ASSUME NEW p \in Handles, BeginFails(p)
      PROVE  EmptyOnError'
    BY <1>15 DEF BeginFails, Abandon, Exit, OutputTypeOK, EmptyOnError,
        Over, Reader
<1>16. ASSUME NEW p \in Handles, WritePrefix(p)
      PROVE  EmptyOnError'
    BY <1>16 DEF WritePrefix, Write, Goto, OutputTypeOK, EmptyOnError,
        Over, Reader
<1>17. ASSUME NEW p \in Handles, PrefixFails(p)
      PROVE  EmptyOnError'
    BY <1>17 DEF PrefixFails, Abandon, Exit, OutputTypeOK, EmptyOnError,
        Over, Reader
<1>18. ASSUME NEW p \in Handles, WriteEntry(p)
      PROVE  EmptyOnError'
    BY <1>18 DEF WriteEntry, Write, outputVars, OutputTypeOK,
        EmptyOnError, Over, Reader
<1>19. ASSUME NEW p \in Handles, WriteCdir(p)
      PROVE  EmptyOnError'
    BY <1>19 DEF WriteCdir, Write, Goto, OutputTypeOK, EmptyOnError,
        Over, Reader
<1>20. ASSUME NEW p \in Handles, WriteFails(p)
      PROVE  EmptyOnError'
    BY <1>20 DEF WriteFails, RollbackWrite, RollingBack, Exit,
        OutputTypeOK, EmptyOnError, Over, Reader
<1>21. ASSUME NEW p \in Handles, Commit(p)
      PROVE  EmptyOnError'
    BY <1>21 DEF Commit, CommitRename, Closing, Goto, OutputTypeOK,
        EmptyOnError, Over, Reader
<1>22. ASSUME NEW p \in Handles, RenameFails(p)
      PROVE  EmptyOnError'
    BY <1>22 DEF RenameFails, CommitFails, Closing, Goto, OutputTypeOK,
        EmptyOnError, Over, Reader
<1>23. ASSUME NEW p \in Handles, Rollback(p)
      PROVE  EmptyOnError'
    BY <1>23 DEF Rollback, RollbackWrite, RollingBack, Exit,
        OutputTypeOK, EmptyOnError, Over, Reader
<1>24. ASSUME NEW p \in Handles, Chmod(p)
      PROVE  EmptyOnError'
    BY <1>24 DEF Chmod, CommitChmod, Exit, OutputTypeOK, EmptyOnError,
        Over, Reader
<1>25. ASSUME NEW p \in Handles, Kill(p)
      PROVE  EmptyOnError'
    BY <1>25 DEF Kill, Abandon, OutputTypeOK, EmptyOnError, Over, Reader
<1>26. CASE UNCHANGED vars
    BY <1>26 DEF vars, sourceVars, outputVars, OutputTypeOK,
        EmptyOnError, Over, Reader
<1>27. QED
    BY <1>1, <1>2, <1>3, <1>4, <1>5, <1>6, <1>7, <1>8, <1>9, <1>10,
        <1>11, <1>12, <1>13, <1>14, <1>15, <1>16, <1>17, <1>18, <1>19, <1>20,
        <1>21, <1>22, <1>23, <1>24, <1>25, <1>26 DEF OutputNext, Step

\* A tool gets past its stat in Stat only, and keeps what it found there.
LEMMA SeenOnlyInStat ==
    ASSUME OutputTypeOK, [OutputNext]_vars, NEW q \in Handles,
           pc'[q] \in Running \ {"start", "stat"}
    PROVE  \/ pc[q] \in Running \ {"start", "stat"} /\ seen'[q] = seen[q]
           \/ Stat(q) /\ UNCHANGED sourceVars
<1> DEFINE Goal == pc[q] \in Running \ {"start", "stat"} /\ seen'[q] = seen[q]
<1>1. ASSUME NEW p \in Handles,
              CheckExists(p) \/ ZipOpenNew(p) \/ ZipOpenFile(p) \/
              ZipOpenFails(p)
      PROVE  Goal
    BY <1>1 DEF CheckExists, ZipOpenNew, ZipOpenFile, ZipOpenFails, Goto,
        OutputTypeOK, Running, Over
<1>2. ASSUME NEW p \in Handles,
              InputError(p) \/ AddMain(p) \/ AddLib(p) \/ Finish(p) \/
              ReadModule(p) \/ ReadAll(p)
      PROVE  Goal
    BY <1>2 DEF InputError, AddMain, AddLib, Finish, ReadModule, ReadAll,
        ToolFails, Goto, OutputTypeOK, Running, Over
<1>3. ASSUME NEW p \in Handles,
              CloseUnchanged(p) \/ CloseEmpty(p) \/ BeginFails(p) \/
              PrefixFails(p) \/ WriteFails(p)
      PROVE  Goal
    BY <1>3 DEF CloseUnchanged, CloseEmpty, BeginFails, PrefixFails,
        WriteFails, Exit, OutputTypeOK, Running, Over
<1>4. ASSUME NEW p \in Handles,
              CloseBegins(p) \/ WritePrefix(p) \/ WriteEntry(p) \/
              WriteCdir(p)
      PROVE  Goal
    BY <1>4 DEF CloseBegins, WritePrefix, WriteEntry, WriteCdir, Goto,
        outputVars, OutputTypeOK, Running, Over
<1>5. ASSUME NEW p \in Handles,
              Commit(p) \/ RenameFails(p) \/ Rollback(p) \/ Chmod(p) \/
              Kill(p)
      PROVE  Goal
    BY <1>5 DEF Commit, RenameFails, Rollback, Chmod, Kill, Goto, Exit,
        OutputTypeOK, Running, Over
<1>6. ASSUME NEW p \in Handles, Stat(p)
      PROVE  Goal \/ (p = q /\ UNCHANGED sourceVars)
    BY <1>6 DEF Stat, Goto, OutputTypeOK, Running
<1>7. CASE UNCHANGED vars
    BY <1>7 DEF vars, outputVars
<1>8. QED
    BY <1>1, <1>2, <1>3, <1>4, <1>5, <1>6, <1>7 DEF OutputNext, Step

\* While the file that was there before is still the output, nothing else has
\* been since the start, and every stat finds it.
LEMMA OrigSeenPreserved ==
    OutputTypeOK /\ SourceInv /\ SourceInv' /\ Places /\ OwnArchives /\ OrigSeen
        /\ [OutputNext]_vars => OrigSeen'
<1> SUFFICES ASSUME OutputTypeOK, SourceInv, SourceInv', Places, OwnArchives, OrigSeen,
                    [OutputNext]_vars, target' # NoInode,
                    NEW k \in Kinds, <<k, Orig>> \in file'[target'],
                    NEW q \in Handles, pc'[q] \in Running \ {"start", "stat"}
             PROVE  seen'[q] = "file"
    BY DEF OrigSeen, Kinds, ModuleKinds, Running
<1>1. ASSUME NEW p \in Handles, Commit(p)
      PROVE  FALSE
  <2>1. file'[target'] \in WholeArchives(p)
    BY <1>1, CommitPublishes
  <2>2. QED
    BY <2>1, OrigAssumption DEF WholeArchives, Archive
<1>2. ASSUME NEW p \in Handles, CloseEmpty(p)
      PROVE  FALSE
    BY <1>2 DEF CloseEmpty, RemoveSource
<1>3. target' = target /\ file'[target] = file[target]
    BY <1>1, <1>2, OutputStays, TargetChanges
<1>4. CASE pc[q] \in Running \ {"start", "stat"} /\ seen'[q] = seen[q]
    BY <1>3, <1>4 DEF OrigSeen
<1>5. CASE Stat(q) /\ UNCHANGED sourceVars
    BY <1>3, <1>5 DEF Stat, OutputTypeOK
<1>6. QED
    BY <1>4, <1>5, SeenOnlyInStat

\* A tool without -f that found a file has listed its modules.
LEMMA ListedPreserved ==
    OutputTypeOK /\ PublishedWhole /\ ListedUnlessForced /\ [OutputNext]_vars => ListedUnlessForced'
<1> SUFFICES ASSUME OutputTypeOK, PublishedWhole, ListedUnlessForced,
                      [OutputNext]_vars
             PROVE  ListedUnlessForced'
    OBVIOUS
<1>1. ASSUME NEW p \in Handles, CheckExists(p)
      PROVE  ListedUnlessForced'
    BY <1>1 DEF CheckExists, Goto, OutputTypeOK, ListedUnlessForced,
        Running, Over, Reader
<1>2. ASSUME NEW p \in Handles, Stat(p)
      PROVE  ListedUnlessForced'
    BY <1>2 DEF Stat, Goto, OutputTypeOK, ListedUnlessForced, Running,
        Over, Reader
<1>3. ASSUME NEW p \in Handles, ZipOpenNew(p)
      PROVE  ListedUnlessForced'
    BY <1>3 DEF ZipOpenNew, Goto, OutputTypeOK, ListedUnlessForced,
        Running, Over, Reader
<1>4. ASSUME NEW p \in Handles, ZipOpenFile(p)
      PROVE  ListedUnlessForced'
  <2>1. seen[p] = "file" /\ ~job[p].force /\ ~Reader(p) => listed'[p] # {}
    <3>1. SUFFICES ASSUME seen[p] = "file", ~job[p].force, ~Reader(p)
                   PROVE  listed'[p] # {}
      BY <3>1
    <3>2. /\ target # NoInode /\ Listable(target)
          /\ listed' = [listed EXCEPT ![p] = ModulesIn(file[target])]
      BY <1>4, <3>1 DEF ZipOpenFile
    <3>3. ModulesIn(file[target]) # {}
      <4>1. \A w \in Handles : \A S \in ModuleSets(w) : <<"main", w>> \in S
        BY DEF ModuleSets
      <4>2. QED
        BY <3>2, <4>1, ListableModules
    <3>4. QED
      BY <3>2, <3>3 DEF OutputTypeOK
  <2>2. /\ pc[p] = "zip_open"
        /\ \A q \in Handles \ {p} : pc'[q] = pc[q] /\ listed'[q] = listed[q]
        /\ job' = job /\ seen' = seen
    BY <1>4 DEF ZipOpenFile, Goto, OutputTypeOK
  <2>3. QED
    BY <2>1, <2>2 DEF ListedUnlessForced, Reader
<1>5. ASSUME NEW p \in Handles, ZipOpenFails(p)
      PROVE  ListedUnlessForced'
    BY <1>5 DEF ZipOpenFails, Goto, OutputTypeOK, ListedUnlessForced,
        Running, Over, Reader
<1>6. ASSUME NEW p \in Handles, InputError(p)
      PROVE  ListedUnlessForced'
    BY <1>6 DEF InputError, ToolFails, Goto, OutputTypeOK,
        ListedUnlessForced, Running, Over, Reader
<1>7. ASSUME NEW p \in Handles, AddMain(p)
      PROVE  ListedUnlessForced'
    BY <1>7 DEF AddMain, ToolFails, Goto, OutputTypeOK,
        ListedUnlessForced, Running, Over, Reader
<1>8. ASSUME NEW p \in Handles, AddLib(p)
      PROVE  ListedUnlessForced'
    BY <1>8 DEF AddLib, OutputTypeOK, ListedUnlessForced, Running, Over,
        Reader
<1>9. ASSUME NEW p \in Handles, Finish(p)
      PROVE  ListedUnlessForced'
    BY <1>9 DEF Finish, Goto, OutputTypeOK, ListedUnlessForced, Running,
        Over, Reader
<1>10. ASSUME NEW p \in Handles, ReadModule(p)
      PROVE  ListedUnlessForced'
    BY <1>10 DEF ReadModule, OutputTypeOK, ListedUnlessForced, Running,
        Over, Reader
<1>11. ASSUME NEW p \in Handles, ReadAll(p)
      PROVE  ListedUnlessForced'
    BY <1>11 DEF ReadAll, Goto, OutputTypeOK, ListedUnlessForced,
        Running, Over, Reader
<1>12. ASSUME NEW p \in Handles, CloseUnchanged(p)
      PROVE  ListedUnlessForced'
    BY <1>12 DEF CloseUnchanged, Exit, OutputTypeOK, ListedUnlessForced,
        Running, Over, Reader
<1>13. ASSUME NEW p \in Handles, CloseEmpty(p)
      PROVE  ListedUnlessForced'
    BY <1>13 DEF CloseEmpty, Exit, OutputTypeOK, ListedUnlessForced,
        Running, Over, Reader
<1>14. ASSUME NEW p \in Handles, CloseBegins(p)
      PROVE  ListedUnlessForced'
    BY <1>14 DEF CloseBegins, Goto, OutputTypeOK, ListedUnlessForced,
        Running, Over, Reader
<1>15. ASSUME NEW p \in Handles, BeginFails(p)
      PROVE  ListedUnlessForced'
    BY <1>15 DEF BeginFails, Exit, OutputTypeOK, ListedUnlessForced,
        Running, Over, Reader
<1>16. ASSUME NEW p \in Handles, WritePrefix(p)
      PROVE  ListedUnlessForced'
    BY <1>16 DEF WritePrefix, Goto, OutputTypeOK, ListedUnlessForced,
        Running, Over, Reader
<1>17. ASSUME NEW p \in Handles, PrefixFails(p)
      PROVE  ListedUnlessForced'
    BY <1>17 DEF PrefixFails, Exit, OutputTypeOK, ListedUnlessForced,
        Running, Over, Reader
<1>18. ASSUME NEW p \in Handles, WriteEntry(p)
      PROVE  ListedUnlessForced'
    BY <1>18 DEF WriteEntry, outputVars, OutputTypeOK,
        ListedUnlessForced, Running, Over, Reader
<1>19. ASSUME NEW p \in Handles, WriteCdir(p)
      PROVE  ListedUnlessForced'
    BY <1>19 DEF WriteCdir, Goto, OutputTypeOK, ListedUnlessForced,
        Running, Over, Reader
<1>20. ASSUME NEW p \in Handles, WriteFails(p)
      PROVE  ListedUnlessForced'
    BY <1>20 DEF WriteFails, Exit, OutputTypeOK, ListedUnlessForced,
        Running, Over, Reader
<1>21. ASSUME NEW p \in Handles, Commit(p)
      PROVE  ListedUnlessForced'
    BY <1>21 DEF Commit, Goto, OutputTypeOK, ListedUnlessForced, Running,
        Over, Reader
<1>22. ASSUME NEW p \in Handles, RenameFails(p)
      PROVE  ListedUnlessForced'
    BY <1>22 DEF RenameFails, Goto, OutputTypeOK, ListedUnlessForced,
        Running, Over, Reader
<1>23. ASSUME NEW p \in Handles, Rollback(p)
      PROVE  ListedUnlessForced'
    BY <1>23 DEF Rollback, Exit, OutputTypeOK, ListedUnlessForced,
        Running, Over, Reader
<1>24. ASSUME NEW p \in Handles, Chmod(p)
      PROVE  ListedUnlessForced'
    BY <1>24 DEF Chmod, Exit, OutputTypeOK, ListedUnlessForced, Running,
        Over, Reader
<1>25. ASSUME NEW p \in Handles, Kill(p)
      PROVE  ListedUnlessForced'
    BY <1>25 DEF Kill, OutputTypeOK, ListedUnlessForced, Running, Over,
        Reader
<1>26. CASE UNCHANGED vars
    BY <1>26 DEF vars, sourceVars, outputVars, OutputTypeOK,
        ListedUnlessForced, Running, Over, Reader
<1>27. QED
    BY <1>1, <1>2, <1>3, <1>4, <1>5, <1>6, <1>7, <1>8, <1>9, <1>10,
        <1>11, <1>12, <1>13, <1>14, <1>15, <1>16, <1>17, <1>18, <1>19, <1>20,
        <1>21, <1>22, <1>23, <1>24, <1>25, <1>26 DEF OutputNext, Step

-----------------------------------------------------------------------------
(* Temporary files left behind.                                            *)

\* The processes that have left, or may have left, a temporary file behind.
Lost == {p \in Handles : pc[p] = "killed"} \cup leaky

\* A step leaves a temporary file behind only if it kills its process or fails
\* to write the prefix, and then one at most.
LEMMA OrphansGrow ==
    ASSUME OutputTypeOK, SourceInv, Places, [OutputNext]_vars
    PROVE  \/ orphans' = orphans /\ Lost \subseteq Lost'
           \/ \E p \in Handles : /\ p \notin Lost /\ Lost' = Lost \cup {p}
                                 /\ orphans' \subseteq orphans \cup {tmp[p]}
<1> DEFINE Goal == orphans' = orphans /\ Lost \subseteq Lost'
<1>1. ASSUME NEW p \in Handles,
              CheckExists(p) \/ Stat(p) \/ ZipOpenNew(p) \/ ZipOpenFile(p) \/
              ZipOpenFails(p)
      PROVE  Goal
    BY <1>1 DEF CheckExists, Stat, ZipOpenNew, ZipOpenFile, ZipOpenFails,
        SourceOpen, Goto, sourceVars, Lost, OutputTypeOK, Over
<1>2. ASSUME NEW p \in Handles,
              InputError(p) \/ AddMain(p) \/ BeginFails(p)
      PROVE  Goal
  <2>1. leaky' = leaky /\ pc[p] \in {"adding", "close"}
    BY <1>2 DEF InputError, AddMain, BeginFails, ToolFails, Goto
  <2>2. tmp[p] = NoInode
    BY <2>1 DEF SourceInv, RollbackHasTemp, Places
  <2>3. orphans' = orphans
    BY <1>2, <2>2 DEF InputError, AddMain, BeginFails, ToolFails, Abandon, Orphaned,
        sourceVars
  <2>4. \A q \in Handles \ {p} : pc'[q] = pc[q]
    BY <1>2 DEF InputError, AddMain, BeginFails, ToolFails, Goto, Exit, OutputTypeOK
  <2>5. QED
    BY <2>1, <2>3, <2>4 DEF Lost
<1>3. ASSUME NEW p \in Handles,
              AddLib(p) \/ Finish(p) \/ ReadModule(p) \/ ReadAll(p)
      PROVE  Goal
    BY <1>3 DEF AddLib, Finish, ReadModule, ReadAll, Goto, sourceVars,
        Lost, OutputTypeOK, Over
<1>4. ASSUME NEW p \in Handles,
              CloseUnchanged(p) \/ CloseEmpty(p) \/ CloseBegins(p)
      PROVE  Goal
  <2>1. leaky' = leaky /\ pc[p] = "close"
    BY <1>4 DEF CloseUnchanged, CloseEmpty, CloseBegins, Goto
  <2>2. tmp[p] = NoInode
    BY <2>1 DEF SourceInv, RollbackHasTemp, Places
  <2>3. orphans' = orphans
    BY <1>4, <2>2 DEF CloseUnchanged, CloseEmpty, CloseBegins, FreeSource, RemoveSource,
        BeginWrite, Orphaned
  <2>4. \A q \in Handles \ {p} : pc'[q] = pc[q]
    BY <1>4 DEF CloseUnchanged, CloseEmpty, CloseBegins, Goto, Exit, OutputTypeOK
  <2>5. QED
    BY <2>1, <2>3, <2>4 DEF Lost
<1>5. ASSUME NEW p \in Handles,
              WritePrefix(p) \/ WriteEntry(p) \/ WriteCdir(p) \/
              WriteFails(p)
      PROVE  Goal
    BY <1>5 DEF WritePrefix, WriteEntry, WriteCdir, WriteFails, Write,
        RollbackWrite, Goto, Exit, outputVars, Lost, OutputTypeOK, Over
<1>6. ASSUME NEW p \in Handles,
              Commit(p) \/ RenameFails(p) \/ Rollback(p) \/ Chmod(p)
      PROVE  Goal
    BY <1>6 DEF Commit, RenameFails, Rollback, Chmod, CommitRename,
        CommitFails, RollbackWrite, CommitChmod, Goto, Exit, Lost,
        OutputTypeOK, Over
<1>7. ASSUME NEW p \in Handles, PrefixFails(p)
      PROVE  /\ p \notin Lost /\ Lost' = Lost \cup {p}
             /\ orphans' \subseteq orphans \cup {tmp[p]}
  <2>1. pc[p] = "prefix" /\ p \notin leaky
    BY <1>7 DEF PrefixFails, Places, Over
  <2>2. pc' = [pc EXCEPT ![p] = IF p \in err THEN "failed" ELSE "succeeded"]
    BY <1>7 DEF PrefixFails, Exit
  <2>3. QED
    BY <1>7, <2>1, <2>2 DEF PrefixFails, Abandon, Orphaned, Lost, OutputTypeOK
<1>8. ASSUME NEW p \in Handles, Kill(p)
      PROVE  /\ p \notin Lost /\ Lost' = Lost \cup {p}
             /\ orphans' \subseteq orphans \cup {tmp[p]}
  <2>1. pc[p] \in Running /\ pc[p] # "killed" /\ p \notin leaky
    BY <1>8 DEF Kill, Places, Over, Running
  <2>2. QED
    BY <1>8, <2>1 DEF Kill, Abandon, Orphaned, Lost, OutputTypeOK
<1>9. CASE UNCHANGED vars
    BY <1>9 DEF vars, sourceVars, outputVars, Lost
<1>10. QED
    BY <1>1, <1>2, <1>3, <1>4, <1>5, <1>6, <1>7, <1>8, <1>9 DEF
        OutputNext, Step

\* There are no more of them than processes that account for one.
LEMMA OrphansPreserved ==
    OutputTypeOK /\ OutputTypeOK' /\ SourceInv /\ Places /\ OrphansCounted
        /\ [OutputNext]_vars => OrphansCounted'
<1> SUFFICES ASSUME OutputTypeOK, OutputTypeOK', SourceInv, Places, OrphansCounted,
                    [OutputNext]_vars
             PROVE  OrphansCounted'
    OBVIOUS
<1>1. IsFiniteSet(orphans) /\ Cardinality(orphans) <= Cardinality(Lost)
    BY DEF OrphansCounted, TempsAccounted, Lost
<1>2. IsFiniteSet(Lost) /\ IsFiniteSet(Lost')
    BY HandlesAssumption, FS_Subset DEF Lost, OutputTypeOK
<1>3. /\ Cardinality(orphans) \in Nat
      /\ Cardinality(Lost) \in Nat /\ Cardinality(Lost') \in Nat
    BY <1>1, <1>2, FS_CardinalityType
<1>4. SUFFICES IsFiniteSet(orphans') /\ Cardinality(orphans') <= Cardinality(Lost')
    BY DEF OrphansCounted, TempsAccounted, Lost
<1>5. CASE orphans' = orphans /\ Lost \subseteq Lost'
  <2>1. Cardinality(Lost) <= Cardinality(Lost')
    BY <1>2, <1>5, FS_Subset
  <2>2. QED
    BY <1>1, <1>3, <1>5, <2>1
<1>6. ASSUME NEW p \in Handles, p \notin Lost, Lost' = Lost \cup {p},
             orphans' \subseteq orphans \cup {tmp[p]}
      PROVE  IsFiniteSet(orphans') /\ Cardinality(orphans') <= Cardinality(Lost')
  <2>1. Cardinality(Lost') = Cardinality(Lost) + 1
    BY <1>2, <1>6, FS_AddElement
  <2>2. /\ IsFiniteSet(orphans \cup {tmp[p]})
        /\ Cardinality(orphans \cup {tmp[p]}) <= Cardinality(orphans) + 1
        /\ Cardinality(orphans \cup {tmp[p]}) \in Nat
    <3>1. /\ IsFiniteSet(orphans \cup {tmp[p]})
          /\ Cardinality(orphans \cup {tmp[p]}) =
                IF tmp[p] \in orphans THEN Cardinality(orphans) ELSE Cardinality(orphans) + 1
      BY <1>1, FS_AddElement
    <3>2. QED
      BY <1>3, <3>1
  <2>3. /\ IsFiniteSet(orphans')
        /\ Cardinality(orphans') <= Cardinality(orphans \cup {tmp[p]})
    BY <1>6, <2>2, FS_Subset
  <2>4. Cardinality(orphans') \in Nat
    BY <2>3, FS_CardinalityType
  <2>5. QED
    BY <1>1, <1>3, <2>1, <2>2, <2>3, <2>4
<1>7. QED
    BY <1>5, <1>6, OrphansGrow

-----------------------------------------------------------------------------
(* The invariant, and what follows from it.                                *)

\* OutputInv holds before any tool has started.
LEMMA OutputInvInit == OutputInit => OutputInv
<1> SUFFICES ASSUME OutputInit PROVE OutputInv
    OBVIOUS
<1>1. PICK c \in OrigContents : file = [i \in Inodes |-> IF i = target THEN c ELSE {}]
    BY DEF OutputInit
<1>2. c \in SUBSET Pieces
  <2>1. \A k \in {"prefix", "main", "lib", "cdir", "other"} : <<k, Orig>> \in Pieces
    BY OwnPieces DEF Kinds, ModuleKinds
  <2>2. QED
    BY <2>1 DEF OrigContents
<1>3. target \in Inodes \cup {NoInode} /\ file \in [Inodes -> SUBSET Pieces]
    BY <1>1, <1>2 DEF OutputInit
<1>4. SourceInv
    BY <1>3, SourceInvInit DEF OutputInit
<1>5. OutputTypeOK
    BY <1>4 DEF OutputInit, OutputTypeOK, SourceInv, Running
<1>6. Places
    BY DEF OutputInit, SourceInit, Places, Over
<1>7. OwnArchives /\ Snapshots
    BY DEF OutputInit, OwnArchives, Snapshots
<1>8. PublishedWhole
    BY <1>1, <1>3 DEF OutputInit, SourceInit, PublishedWhole
<1>9. ChmodPending /\ EmptyOnError /\ OrigSeen /\ ListedUnlessForced
    BY DEF OutputInit, ChmodPending, EmptyOnError, OrigSeen, ListedUnlessForced
<1>10. OrphansCounted
  <2>1. orphans = {} /\ {p \in Handles : pc[p] = "killed"} \cup leaky = {}
    BY DEF OutputInit, SourceInit
  <2>2. QED
    BY <2>1, FS_EmptySet DEF OrphansCounted, TempsAccounted
<1>11. QED
    BY <1>4, <1>5, <1>6, <1>7, <1>8, <1>9, <1>10 DEF OutputInv

\* Every step of every tool preserves it.
LEMMA OutputInvNext == OutputInv /\ [OutputNext]_vars => OutputInv'
<1> SUFFICES ASSUME OutputInv, [OutputNext]_vars PROVE OutputInv'
    OBVIOUS
<1> USE DEF OutputInv
<1>1. SourceInv'
    BY SourcePreserved
<1>2. OutputTypeOK'
    BY <1>1, TypePreserved
<1>3. Places' /\ OwnArchives'
    BY PlacesPreserved, ArchivesPreserved
<1>4. PublishedWhole' /\ Snapshots' /\ OrigSeen'
    BY <1>1, PublishedPreserved, SnapshotsPreserved, OrigSeenPreserved
<1>5. ChmodPending' /\ EmptyOnError' /\ ListedUnlessForced'
    BY ChmodPreserved, ErrorPreserved, ListedPreserved
<1>6. OrphansCounted'
    BY <1>2, OrphansPreserved
<1>7. QED
    BY <1>1, <1>2, <1>3, <1>4, <1>5, <1>6

\* The invariant of the tools that write and read one allexe.
THEOREM OutputInvariance == Spec => []OutputInv
BY OutputInvInit, OutputInvNext, PTL DEF Spec

\* Killed tools and failed prefixes account for every temporary file that
\* zip_close and exit leave behind.
THEOREM NoUnaccountedTemps == Spec => []TempsAccounted
<1>1. OutputInv => TempsAccounted
    BY DEF OutputInv, OrphansCounted
<1>2. QED
    BY OutputInvariance, <1>1, PTL

\* alley runs with all the modules of one archive, whatever the tools do to
\* the output while it reads.
THEOREM ReadersSeeOneArchive == Spec => []ReaderSnapshot
<1>1. ASSUME OutputInv
      PROVE  ReaderSnapshot
  <2> SUFFICES ASSUME NEW p \in Handles, Reader(p), pc[p] = "succeeded"
               PROVE  /\ <<"main", Orig>> \in mods[p]
                            => mods[p] = {<<"main", Orig>>, <<"lib", Orig>>}
                      /\ \E w \in Handles \cup {Orig} :
                            /\ <<"main", w>> \in mods[p]
                            /\ mods[p] \subseteq ModuleKinds \X {w}
    BY DEF ReaderSnapshot
  <2>1. \/ mods[p] = {<<"main", Orig>>, <<"lib", Orig>>}
        \/ \E w \in Handles : mods[p] \in ModuleSets(w)
    BY <1>1 DEF OutputInv, Snapshots
  <2>2. CASE mods[p] = {<<"main", Orig>>, <<"lib", Orig>>}
    BY <2>2 DEF ModuleKinds
  <2>3. ASSUME NEW w \in Handles, mods[p] \in ModuleSets(w)
        PROVE  /\ <<"main", Orig>> \notin mods[p]
               /\ <<"main", w>> \in mods[p]
               /\ mods[p] \subseteq ModuleKinds \X {w}
    BY <2>3, OrigAssumption DEF ModuleSets, ModuleKinds
  <2>4. QED
    BY <2>1, <2>2, <2>3
<1>2. QED
    BY OutputInvariance, <1>1, PTL

\* A tool's archive in place is executable once nobody is left at the chmod.
THEOREM ArchivesExecutable == Spec => []OutputExecutable
<1>1. OutputInv => OutputExecutable
    BY DEF OutputInv, ChmodPending, OutputExecutable
<1>2. QED
    BY OutputInvariance, <1>1, PTL

\* Only wllvm-extract, after an error and with -f, takes the output away.
THEOREM RemovalsExplained == Spec => OnlyExtractRemoves
<1> DEFINE Removal == target # NoInode /\ target' = NoInode
                        => \E p \in Truncating \cap err' :
                              job[p].tool = "wllvm-extract" /\ pc'[p] = "failed"
<1>1. OutputInv /\ [OutputNext]_vars => [Removal]_vars
  <2> SUFFICES ASSUME OutputInv, [OutputNext]_vars, target # NoInode, target' = NoInode
               PROVE  \E p \in Truncating \cap err' :
                          job[p].tool = "wllvm-extract" /\ pc'[p] = "failed"
    OBVIOUS
  <2>1. ASSUME NEW p \in Handles, Commit(p)
        PROVE  FALSE
    BY <2>1, CommitPublishes, ZipNoInodeAssumption DEF OutputInv
  <2>2. PICK p \in Handles : CloseEmpty(p)
    BY <2>1, TargetChanges
  <2>3. pc[p] = "close" /\ mods[p] = {} /\ job[p].force /\ ~Reader(p)
    BY <2>2 DEF CloseEmpty, Survivors
  <2>4. p \in err /\ job[p].tool = "wllvm-extract"
    BY <2>3 DEF OutputInv, EmptyOnError
  <2>5. err' = err /\ pc'[p] = "failed"
    BY <2>2, <2>4 DEF CloseEmpty, Exit, OutputInv, OutputTypeOK
  <2>6. QED
    BY <2>3, <2>4, <2>5 DEF Truncating
<1>2. QED
    BY OutputInvariance, <1>1, PTL DEF Spec, OnlyExtractRemoves

\* A file with something in it that was there before the tools started is
\* replaced or removed by a tool with -f only.
THEOREM OriginalsKept == Spec => ForcelessKeepsOriginal
<1> DEFINE Kept == target # NoInode /\ (\E k \in Kinds : <<k, Orig>> \in file[target])
                        /\ target' # target
                     => \E p \in Truncating : pc'[p] # pc[p]
<1>1. OutputInv /\ [OutputNext]_vars => [Kept]_vars
  <2> SUFFICES ASSUME OutputInv, [OutputNext]_vars, target # NoInode, target' # target,
                      NEW k \in Kinds, <<k, Orig>> \in file[target]
               PROVE  \E p \in Truncating : pc'[p] # pc[p]
    OBVIOUS
  <2>1. PICK p \in Handles : Commit(p) \/ CloseEmpty(p)
    BY TargetChanges
  <2>2. CASE CloseEmpty(p)
    <3>1. p \in Truncating /\ pc[p] = "close" /\ pc'[p] \in {"failed", "succeeded"}
      BY <2>2 DEF CloseEmpty, Exit, Truncating, OutputInv, OutputTypeOK
    <3>2. QED
      BY <3>1
  <2>3. CASE Commit(p)
    <3>1. pc[p] = "commit" /\ pc'[p] = "chmod"
      BY <2>3 DEF Commit, Goto, OutputInv, OutputTypeOK
    <3>2. seen[p] = "file"
      BY <3>1 DEF OutputInv, OrigSeen, Running
    <3>3. listed[p] = {} /\ ~Reader(p)
      BY <2>3, CommitPublishes DEF OutputInv
    <3>4. job[p].force
      BY <3>1, <3>2, <3>3 DEF OutputInv, ListedUnlessForced, Running
    <3>5. QED
      BY <3>1, <3>3, <3>4 DEF Truncating
  <2>4. QED
    BY <2>1, <2>2, <2>3
<1>2. QED
    BY OutputInvariance, <1>1, PTL DEF Spec, ForcelessKeepsOriginal

-----------------------------------------------------------------------------
(* The tools implement AtomicOutput.                                       *)

\* A rename is a Replace of the abstract specification.
LEMMA CommitReplaces ==
    ASSUME OutputInv, OutputInv', NEW p \in Handles, Commit(p)
    PROVE  Output!Replace(p)
<1>1. pc[p] = "commit" /\ job' = job /\ committed' = [committed EXCEPT ![p] = target']
    BY DEF Commit, Goto
<1>2. target' \in Inodes /\ file'[target'] \in WholeArchives(p)
    BY CommitPublishes DEF OutputInv
<1>3. Visible' \in Outcomes(file'[target'])
    BY <1>2, ZipNoInodeAssumption DEF Visible, Outcomes, OutputInv, PublishedWhole
<1>4. p \notin Replacing /\ Replacing' = Replacing \cup {p}
    BY <1>1, <1>2, ZipNoInodeAssumption
       DEF Replacing, OutputInv, OutputTypeOK, Places, Over
<1>5. Truncating' = Truncating
    BY <1>1 DEF Truncating, Reader
<1>6. Visible' \in Outcomes(Archive(p, {})) \cup Outcomes(Archive(p, {"lib"}))
    BY <1>2, <1>3 DEF WholeArchives
<1>7. QED
    BY <1>4, <1>5, <1>6 DEF Output!Replace

\* The removal of an empty archive is a Remove.
LEMMA CloseEmptyRemoves ==
    ASSUME OutputInv, NEW p \in Handles, CloseEmpty(p)
    PROVE  Output!Remove(p)
<1>1. pc[p] = "close" /\ job[p].force /\ ~Reader(p) /\ UNCHANGED <<job, committed>>
    BY DEF CloseEmpty
<1>2. target' = NoInode
    BY DEF CloseEmpty, RemoveSource
<1>3. p \in Truncating \ Replacing
    BY <1>1 DEF Truncating, Replacing, OutputInv, Places, Over
<1>4. Visible' = Absent
    BY <1>2 DEF Visible
<1>5. Replacing' = Replacing /\ Truncating' = Truncating
    BY <1>1 DEF Replacing, Truncating, Reader
<1>6. QED
    BY <1>3, <1>4, <1>5 DEF Output!Remove

\* No other step can be told from a stutter.
LEMMA OthersStutter ==
    ASSUME OutputInv, OutputInv', [OutputNext]_vars,
           ~ \E p \in Handles : Commit(p) \/ CloseEmpty(p)
    PROVE  UNCHANGED Output!vars
<1>1. Visible' = Visible
    BY OutputStays DEF Visible, OutputInv
<1>2. UNCHANGED <<job, committed>>
    BY DEF OutputNext, Step, CheckExists, Stat, ZipOpenNew, ZipOpenFile, ZipOpenFails,
        InputError, AddMain, AddLib, Finish, ReadModule, ReadAll, CloseUnchanged,
        CloseBegins, BeginFails, WritePrefix, PrefixFails, WriteEntry, WriteCdir,
        WriteFails, RenameFails, Rollback, Chmod, Kill, outputVars, vars
<1>3. QED
    BY <1>1, <1>2 DEF Replacing, Truncating, Reader, Output!vars

\* The tools implement AtomicOutput: at every moment the output is absent, the
\* file that was there before, or one tool's whole archive, put there by one
\* rename; what fclose could not write is the one exception.
THEOREM OutputIsAtomic == Spec => OutputAtomic
<1>1. OutputInit => Output!Init
  <2> SUFFICES ASSUME OutputInit PROVE Output!Init
    OBVIOUS
  <2>1. target # NoInode => file[target] \in OrigContents
    BY DEF OutputInit
  <2>2. torn = {}
    BY DEF OutputInit, SourceInit
  <2>3. Visible \in OrigContents \cup {Absent}
    BY <2>1, <2>2 DEF Visible
  <2>4. Replacing = {} /\ Truncating \in SUBSET Handles
    BY DEF OutputInit, Replacing, Truncating
  <2>5. QED
    BY <2>3, <2>4 DEF Output!Init
<1>2. OutputInv /\ OutputInv' /\ [OutputNext]_vars => [Output!Next]_(Output!vars)
    BY CommitReplaces, CloseEmptyRemoves, OthersStutter DEF Output!Next
<1>3. QED
    BY OutputInvariance, <1>1, <1>2, PTL DEF Spec, OutputAtomic, Output!Spec
=============================================================================
