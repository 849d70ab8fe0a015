--------------------------- MODULE ZipSourceProofs ---------------------------
(***************************************************************************)
(* Proofs about ZipSource, for any number of handles, inodes and pieces.   *)
(* SourceInv is preserved by each zip_source_* call; there is a lemma for  *)
(* each call, so that programs that make the calls in an order of their    *)
(* own can use it, and the theorems are about any order the interface      *)
(* allows.                                                                 *)
(***************************************************************************)
EXTENDS ZipSource, TLAPS

\* zip_source_open: the file it opens is no temporary file.
LEMMA SourceOpenKeeps ==
    ASSUME NEW h \in Handles, SourceInv, SourceOpen(h)
    PROVE  SourceInv'
<1> USE ZipNoInodeAssumption, MaxOpensAssumption
<1>1. SourceTypeOK'
    BY DEF SourceOpen, SourceInv, SourceTypeOK, WriteStates
<1>2. RollbackHasTemp'
    BY DEF SourceOpen, SourceInv, RollbackHasTemp, OutputIsTemp,
        SourceTypeOK
<1>3. ReadersHaveFile'
    BY DEF SourceOpen, SourceInv, ReadersHaveFile, SourceTypeOK
<1>4. PublishedIsClosed'
    BY DEF SourceOpen, SourceInv, PublishedIsClosed, RollbackHasTemp,
        OutputIsTemp, TempsApart, SourceTypeOK
<1>5. OutputIsTemp'
    BY DEF SourceOpen, SourceInv, OutputIsTemp, RollbackHasTemp,
        SourceTypeOK
<1>6. TempsApart'
    BY DEF SourceOpen, SourceInv, TempsApart, PublishedIsClosed,
        OutputIsTemp, SourceTypeOK
<1>7. QED
    BY <1>1, <1>2, <1>3, <1>4, <1>5, <1>6 DEF SourceInv

\* zip_source_close.
LEMMA SourceCloseKeeps ==
    ASSUME NEW h \in Handles, SourceInv, SourceClose(h)
    PROVE  SourceInv'
<1> USE ZipNoInodeAssumption, MaxOpensAssumption
<1>1. SourceTypeOK'
    BY DEF SourceClose, Closing, SourceInv, SourceTypeOK, WriteStates
<1>2. RollbackHasTemp'
    BY DEF SourceClose, Closing, SourceInv, RollbackHasTemp,
        OutputIsTemp, SourceTypeOK
<1>3. ReadersHaveFile'
    BY DEF SourceClose, Closing, SourceInv, ReadersHaveFile, SourceTypeOK
<1>4. PublishedIsClosed'
    BY DEF SourceClose, Closing, SourceInv, PublishedIsClosed,
        RollbackHasTemp, OutputIsTemp, TempsApart, SourceTypeOK
<1>5. OutputIsTemp'
    BY DEF SourceClose, Closing, SourceInv, OutputIsTemp,
        RollbackHasTemp, SourceTypeOK
<1>6. TempsApart'
    BY DEF SourceClose, Closing, SourceInv, TempsApart,
        PublishedIsClosed, OutputIsTemp, SourceTypeOK
<1>7. QED
    BY <1>1, <1>2, <1>3, <1>4, <1>5, <1>6 DEF SourceInv

\* zip_source_begin_write: the new file is nobody else's, and a name left
\* from a failed commit is nobody's any more.
LEMMA BeginWriteKeeps ==
    ASSUME NEW h \in Handles, SourceInv, BeginWrite(h)
    PROVE  SourceInv'
<1> USE ZipNoInodeAssumption, MaxOpensAssumption
<1>1. SourceTypeOK'
    BY DEF BeginWrite, UnusedInode, Orphaned, SourceInv, SourceTypeOK,
        WriteStates
<1>2. RollbackHasTemp'
    BY DEF BeginWrite, UnusedInode, Orphaned, SourceInv, RollbackHasTemp,
        OutputIsTemp, SourceTypeOK
<1>3. ReadersHaveFile'
    BY DEF BeginWrite, UnusedInode, Orphaned, SourceInv, ReadersHaveFile,
        SourceTypeOK
<1>4. PublishedIsClosed'
    BY DEF BeginWrite, UnusedInode, Orphaned, SourceInv,
        PublishedIsClosed, RollbackHasTemp, OutputIsTemp, TempsApart,
        SourceTypeOK
<1>5. OutputIsTemp'
    BY DEF BeginWrite, UnusedInode, Orphaned, SourceInv, OutputIsTemp,
        RollbackHasTemp, SourceTypeOK
<1>6. TempsApart'
    BY DEF BeginWrite, UnusedInode, Orphaned, SourceInv, TempsApart,
        PublishedIsClosed, OutputIsTemp, SourceTypeOK
<1>7. QED
    BY <1>1, <1>2, <1>3, <1>4, <1>5, <1>6 DEF SourceInv

\* zip_source_write.
LEMMA WriteKeeps ==
    ASSUME NEW h \in Handles, NEW piece \in Pieces, SourceInv, Write(h,
           piece)
    PROVE  SourceInv'
<1> USE ZipNoInodeAssumption, MaxOpensAssumption
<1>1. SourceTypeOK'
    BY DEF Write, SourceInv, SourceTypeOK, WriteStates
<1>2. RollbackHasTemp'
    BY DEF Write, SourceInv, RollbackHasTemp, OutputIsTemp, SourceTypeOK
<1>3. ReadersHaveFile'
    BY DEF Write, SourceInv, ReadersHaveFile, SourceTypeOK
<1>4. PublishedIsClosed'
    BY DEF Write, SourceInv, PublishedIsClosed, RollbackHasTemp,
        OutputIsTemp, TempsApart, SourceTypeOK
<1>5. OutputIsTemp'
    BY DEF Write, SourceInv, OutputIsTemp, RollbackHasTemp, SourceTypeOK
<1>6. TempsApart'
    BY DEF Write, SourceInv, TempsApart, PublishedIsClosed, OutputIsTemp,
        SourceTypeOK
<1>7. QED
    BY <1>1, <1>2, <1>3, <1>4, <1>5, <1>6 DEF SourceInv

\* The rename of zip_source_commit_write: what becomes visible has been
\* closed, and is no longer anybody's temporary file.
LEMMA CommitRenameKeeps ==
    ASSUME NEW h \in Handles, NEW flushed \in BOOLEAN, SourceInv,
           CommitRename(h, flushed)
    PROVE  SourceInv'
<1> USE ZipNoInodeAssumption, MaxOpensAssumption
<1>1. SourceTypeOK'
  <2>1. fout[h] \in Inodes
    BY DEF CommitRename, SourceInv, SourceTypeOK, RollbackHasTemp
  <2>2. opens' \in [Handles -> Nat]
    BY DEF CommitRename, Closing, SourceInv, SourceTypeOK
  <2>3. QED
    BY <2>1, <2>2 DEF CommitRename, Closing, SourceInv, SourceTypeOK
<1>2. RollbackHasTemp'
    BY DEF CommitRename, Closing, SourceInv, RollbackHasTemp,
        OutputIsTemp, SourceTypeOK
<1>3. ReadersHaveFile'
    BY DEF CommitRename, Closing, SourceInv, ReadersHaveFile,
        SourceTypeOK
<1>4. PublishedIsClosed'
    BY DEF CommitRename, Closing, SourceInv, PublishedIsClosed,
        RollbackHasTemp, OutputIsTemp, TempsApart, SourceTypeOK
<1>5. OutputIsTemp'
    BY DEF CommitRename, Closing, SourceInv, OutputIsTemp,
        RollbackHasTemp, SourceTypeOK
<1>6. TempsApart'
    BY DEF CommitRename, Closing, SourceInv, TempsApart,
        PublishedIsClosed, OutputIsTemp, SourceTypeOK
<1>7. QED
    BY <1>1, <1>2, <1>3, <1>4, <1>5, <1>6 DEF SourceInv

\* The chmod of zip_source_commit_write.
LEMMA CommitChmodKeeps ==
    ASSUME NEW h \in Handles, SourceInv, CommitChmod(h)
    PROVE  SourceInv'
<1> USE ZipNoInodeAssumption, MaxOpensAssumption
<1>1. SourceTypeOK'
    BY DEF CommitChmod, SourceInv, SourceTypeOK, WriteStates
<1>2. RollbackHasTemp'
    BY DEF CommitChmod, SourceInv, RollbackHasTemp, OutputIsTemp,
        SourceTypeOK
<1>3. ReadersHaveFile'
    BY DEF CommitChmod, SourceInv, ReadersHaveFile, SourceTypeOK
<1>4. PublishedIsClosed'
    BY DEF CommitChmod, SourceInv, PublishedIsClosed, RollbackHasTemp,
        OutputIsTemp, TempsApart, SourceTypeOK
<1>5. OutputIsTemp'
    BY DEF CommitChmod, SourceInv, OutputIsTemp, RollbackHasTemp,
        SourceTypeOK
<1>6. TempsApart'
    BY DEF CommitChmod, SourceInv, TempsApart, PublishedIsClosed,
        OutputIsTemp, SourceTypeOK
<1>7. QED
    BY <1>1, <1>2, <1>3, <1>4, <1>5, <1>6 DEF SourceInv

\* A failed rename leaves the name for the rollback.
LEMMA CommitFailsKeeps ==
    ASSUME NEW h \in Handles, SourceInv, CommitFails(h)
    PROVE  SourceInv'
<1> USE ZipNoInodeAssumption, MaxOpensAssumption
<1>1. SourceTypeOK'
    BY DEF CommitFails, Closing, SourceInv, SourceTypeOK, WriteStates
<1>2. RollbackHasTemp'
    BY DEF CommitFails, Closing, SourceInv, RollbackHasTemp,
        OutputIsTemp, SourceTypeOK
<1>3. ReadersHaveFile'
    BY DEF CommitFails, Closing, SourceInv, ReadersHaveFile, SourceTypeOK
<1>4. PublishedIsClosed'
    BY DEF CommitFails, Closing, SourceInv, PublishedIsClosed,
        RollbackHasTemp, OutputIsTemp, TempsApart, SourceTypeOK
<1>5. OutputIsTemp'
    BY DEF CommitFails, Closing, SourceInv, OutputIsTemp,
        RollbackHasTemp, SourceTypeOK
<1>6. TempsApart'
    BY DEF CommitFails, Closing, SourceInv, TempsApart,
        PublishedIsClosed, OutputIsTemp, SourceTypeOK
<1>7. QED
    BY <1>1, <1>2, <1>3, <1>4, <1>5, <1>6 DEF SourceInv

\* zip_source_rollback_write.
LEMMA RollbackWriteKeeps ==
    ASSUME NEW h \in Handles, SourceInv, RollbackWrite(h), ~renamed[h]
    PROVE  SourceInv'
<1> USE ZipNoInodeAssumption, MaxOpensAssumption
<1>1. SourceTypeOK'
    BY DEF RollbackWrite, RollingBack, SourceInv, SourceTypeOK,
        WriteStates
<1>2. RollbackHasTemp'
    BY DEF RollbackWrite, RollingBack, SourceInv, RollbackHasTemp,
        OutputIsTemp, SourceTypeOK
<1>3. ReadersHaveFile'
    BY DEF RollbackWrite, RollingBack, SourceInv, ReadersHaveFile,
        SourceTypeOK
<1>4. PublishedIsClosed'
    BY DEF RollbackWrite, RollingBack, SourceInv, PublishedIsClosed,
        RollbackHasTemp, OutputIsTemp, TempsApart, SourceTypeOK
<1>5. OutputIsTemp'
    BY DEF RollbackWrite, RollingBack, SourceInv, OutputIsTemp,
        RollbackHasTemp, SourceTypeOK
<1>6. TempsApart'
    BY DEF RollbackWrite, RollingBack, SourceInv, TempsApart,
        PublishedIsClosed, OutputIsTemp, SourceTypeOK
<1>7. QED
    BY <1>1, <1>2, <1>3, <1>4, <1>5, <1>6 DEF SourceInv

\* zip_source_remove.
LEMMA RemoveSourceKeeps ==
    ASSUME NEW h \in Handles, SourceInv, RemoveSource(h), ~renamed[h]
    PROVE  SourceInv'
<1> USE ZipNoInodeAssumption, MaxOpensAssumption
<1>1. SourceTypeOK'
    BY DEF RemoveSource, Closing, RollingBack, SourceInv, SourceTypeOK,
        WriteStates
<1>2. RollbackHasTemp'
    BY DEF RemoveSource, Closing, RollingBack, SourceInv,
        RollbackHasTemp, OutputIsTemp, SourceTypeOK
<1>3. ReadersHaveFile'
    BY DEF RemoveSource, Closing, RollingBack, SourceInv,
        ReadersHaveFile, SourceTypeOK
<1>4. PublishedIsClosed'
    BY DEF RemoveSource, Closing, RollingBack, SourceInv,
        PublishedIsClosed, RollbackHasTemp, OutputIsTemp, TempsApart,
        SourceTypeOK
<1>5. OutputIsTemp'
    BY DEF RemoveSource, Closing, RollingBack, SourceInv, OutputIsTemp,
        RollbackHasTemp, SourceTypeOK
<1>6. TempsApart'
    BY DEF RemoveSource, Closing, RollingBack, SourceInv, TempsApart,
        PublishedIsClosed, OutputIsTemp, SourceTypeOK
<1>7. QED
    BY <1>1, <1>2, <1>3, <1>4, <1>5, <1>6 DEF SourceInv

\* zip_source_free: a file left from a failed commit is lost with its handle.
LEMMA FreeSourceKeeps ==
    ASSUME NEW h \in Handles, SourceInv, FreeSource(h), ~renamed[h]
    PROVE  SourceInv'
<1> USE ZipNoInodeAssumption, MaxOpensAssumption
<1>1. SourceTypeOK'
    BY DEF FreeSource, Orphaned, SourceInv, SourceTypeOK, WriteStates
<1>2. RollbackHasTemp'
    BY DEF FreeSource, Orphaned, SourceInv, RollbackHasTemp,
        OutputIsTemp, SourceTypeOK
<1>3. ReadersHaveFile'
    BY DEF FreeSource, Orphaned, SourceInv, ReadersHaveFile, SourceTypeOK
<1>4. PublishedIsClosed'
    BY DEF FreeSource, Orphaned, SourceInv, PublishedIsClosed,
        RollbackHasTemp, OutputIsTemp, TempsApart, SourceTypeOK
<1>5. OutputIsTemp'
    BY DEF FreeSource, Orphaned, SourceInv, OutputIsTemp,
        RollbackHasTemp, SourceTypeOK
<1>6. TempsApart'
    BY DEF FreeSource, Orphaned, SourceInv, TempsApart,
        PublishedIsClosed, OutputIsTemp, SourceTypeOK
<1>7. QED
    BY <1>1, <1>2, <1>3, <1>4, <1>5, <1>6 DEF SourceInv

-----------------------------------------------------------------------------

\* SourceInv holds when no handle is open.
LEMMA SourceInvInit ==
    ASSUME SourceInit, target \in Inodes \cup {NoInode}, file \in [Inodes -> SUBSET Pieces]
    PROVE  SourceInv
BY ZipNoInodeAssumption DEF SourceInit, SourceInv, SourceTypeOK, WriteStates, RollbackHasTemp,
    ReadersHaveFile, PublishedIsClosed, OutputIsTemp, TempsApart

\* The invariant of libzip's file sources, whatever calls their handles make.
THEOREM SourceInvariance == SourceSpec => []SourceInv
<1>1. AnyFileInit => SourceInv
    BY SourceInvInit DEF AnyFileInit
<1>2. SourceInv /\ [SourceNext]_sourceVars => SourceInv'
  <2> SUFFICES ASSUME SourceInv, [SourceNext]_sourceVars
               PROVE  SourceInv'
    OBVIOUS
  <2>1. ASSUME NEW h \in Handles, Call(h)
        PROVE  SourceInv'
    BY <2>1, SourceOpenKeeps, SourceCloseKeeps, BeginWriteKeeps, WriteKeeps,
        CommitRenameKeeps, CommitChmodKeeps, CommitFailsKeeps,
        RollbackWriteKeeps, RemoveSourceKeeps, FreeSourceKeeps DEF Call
  <2>2. CASE UNCHANGED sourceVars
    BY <2>2 DEF sourceVars, SourceInv, SourceTypeOK, RollbackHasTemp,
        ReadersHaveFile, PublishedIsClosed, OutputIsTemp, TempsApart
  <2>3. QED
    BY <2>1, <2>2 DEF SourceNext
<1>3. QED
    BY <1>1, <1>2, PTL DEF SourceSpec

\* A source that is being written or whose commit failed can be rolled back.
THEOREM RollbackPossible == SourceSpec => []RollbackHasTemp
<1>1. SourceInv => RollbackHasTemp
    BY DEF SourceInv
<1>2. QED
    BY SourceInvariance, <1>1, PTL

\* open_count and ctx->f agree, whichever call closed the source.
THEOREM OpenCountExact == SourceSpec => []ReadersHaveFile
<1>1. SourceInv => ReadersHaveFile
    BY DEF SourceInv
<1>2. QED
    BY SourceInvariance, <1>1, PTL

\* The file fname names is nobody's temporary file and nobody writes to it.
THEOREM NothingOpenPublished == SourceSpec => []PublishedIsClosed
<1>1. SourceInv => PublishedIsClosed
    BY DEF SourceInv
<1>2. QED
    BY SourceInvariance, <1>1, PTL
==============================================================================
