# TLA+ models of allvm-tools

allvm-tools packages programs as *allexes*: zip archives of LLVM bitcode with a
`#!` prefix that names `alley`, the program that runs them. This directory
models the parts of it that keep state: the two caches of compiled code and the
tools that share an allexe, which meet in the file system, and the archive
library (libzip, which ALLVM keeps in `libs/archive-rw`): its entries and table
of names, the zip format it writes and reads, and the stacks of sources data
passes through. Nothing in the code locks. Between processes all coordination
is by the order of system calls; within the library it is by flags, counts and
positions that several calls share. Both are hard to test.

## The system

| Part | State | Operations | Talks to |
|---|---|---|---|
| `alley`, `allready` | none of their own | run an allexe; compile it ahead of time | both caches, `Allexe` |
| `StaticBinaryCache` | one file per key, and `key.tmp` while it is filled | `getObjectFileDesc`, `notifyObjectCompiled` | file system, all other processes |
| `AOTCompile`, `StaticCodeGen`, `ALLVMLinker` | temporary object and binary | `AOTCompileIfNeeded`, `compileAndLinkAllexe` | the cache, a linker process |
| `ExecutionYengine` | loaded modules | `tryStaticExec`, `doJITExec`, `runHosted` | caches, MCJIT, the kernel |
| `JITCache` | one object file per module | `hasObjectFor`, `getObject`, `notifyObjectCompiled` | MCJIT, file system |
| `Allexe`, `ZipArchive` | list of entry names, buffers to be written | open, add, update, read; written by the destructor | libzip |
| libzip: file source | a read handle, a write state, an open count, a temporary file | `zip_source_open` to `zip_source_commit_write` | file system |
| libzip: entries and names | per entry the record read, a changed clone, a source of new data; a hash table of names | `zip_file_add`, `_replace`, `_rename`, `zip_delete`, `zip_unchange*`, setters of method, time, attributes | `zip_close` |
| libzip: format | directory records, ZIP64 and extra fields, end records | `zip_open`, `zip_close`, `zip_file_extra_field_*` | file source, data sources |
| libzip: data sources | window, decompressor or compressor, CRC, memory, stacked | `zip_fopen`, `zip_fread`, `zip_fseek`, `zip_source_zip`, `zip_fclose`, `zip_discard` | the one file source they share |
| `bc2allvm`, `alltogether`, `allmux`, `allopt`, `wllvm-extract` | temporary bitcode files | write an allexe | `Allexe` |
| `all-info`, `alld`, `wllvm-dump`, `DeInlineAsm`, `ResourcePaths` | none | print, link, rewrite, build paths | LLVM |

What is hard: processes that fill one cache entry at the same time under one
temporary name; checks by name whose answer is old when it is used (the
existence test of `bc2allvm`, the `stat` in libzip, `hasObjectFor`); a crash or
a failing system call between two steps of a replacement; an error in a
destructor, which has nobody to report to; calls that update an entry and the
table of names in several steps, each of which may return early; values at the
limits of 16 and 32 bit fields, and headers written before their values are
known; readers that take turns on one file position and one error state. What
makes each part correct:

- caches: no process executes or loads incomplete code; an entry that was seen
  stays; a fill that nobody disturbs is atomic and succeeds; some fill wins;
- the zip source: its write state, its open count and its handles agree after
  any sequence of calls; nothing that is still being written is visible;
- entries and names: the table finds exactly the entries that are there, an
  original name stays locatable, what is written is what was asked for last, and
  reverting restores the archive;
- the format: what was written is what is read, for sizes and counts on either
  side of every limit, and a file that lost its end is refused;
- reading: each reader gets the data at its own place; the end of the data means
  that all of it was there and sound; sound data is not refused; a source is
  closed by the last that uses it;
- the tools' output: the visible file is an old one or a whole new one; an
  existing file is replaced only with `-f`; temporary files do not pile up; a
  reader gets one archive; the result can be executed.

PROJECT.json lists the hazards with their lines, and the properties that would
catch each going wrong.

## Modules

| Module | Models |
|---|---|
| `StaticBinaryCache` | the static cache, `AOTCompileIfNeeded`, `tryStaticExec`, the mains of `alley` and `allready` |
| `JITCache` | the object cache, `doJITExec`, the naming of cache files |
| `ZipSource` | libzip's file source: `zip_source_*` and `read_file` |
| `AllexeOutput` | extends `ZipSource` with the tools, `Allexe::open`, `zip_open` and `zip_close` |
| `AtomicOutput` | what the tools promise about their output; `AllexeOutput` implements it |
| `ZipEntries` | entries, the hash table of names, the calls that change them, and `ZipArchive`'s own list of names |
| `ZipFormat` | what `zip_close` writes and `zip_open` reads: headers, directory, end records, ZIP64, extra fields |
| `ZipRead` | the stacks of data sources: windows, inflate and deflate, CRC, memory, the shared file source |
| `StaticBinaryCacheProofs`, `JITCacheProofs`, `ZipSourceProofs`, `AllexeOutputProofs`, `ZipEntriesProofs`, `ZipFormatProofs` | the theorems about these modules |
| `ExtraFieldProofs` | lemmas about lists of extra fields and loops over lists, for the two below |
| `ZipRoundTripProofs` | the theorems that `zip_open` finds what `zip_close` wrote; extends `ZipFormatProofs` |
| `MC*` | instances for TLC |

**StaticBinaryCache.** The state is the file system as the processes see it:
the inodes named `CacheName` (`cacheEnt`) and `CacheName.tmp` (`tmpEnt`), the
blocks present in each inode and its permissions, the descriptor `copy_file`
writes through, the one `fexecve` gets. Each action is one system call, or a
computation between two: `OpenTmp`, `WriteBlock`, `CloseTmp`, `ChmodTmp` and
`RenameTmp` are `notifyObjectCompiled`; `AOTHit` to `Retrieve` are
`AOTCompileIfNeeded`; `StaticMiss`, `StaticHit` and `Fexecve` are
`tryStaticExec`. `chmod` and `rename` act on the name, `write` on the inode:
most of what can go wrong comes from that difference. `CopyFails`, `NoTempFile`
and `Crash` are faults; compile errors are not, they may always happen. One key
is modelled: the files of two keys never meet. `overlap` and `faults` are
history variables for stating what holds when.

**JITCache.** A process loads modules (`LoadModule` materialises those without
an object), then MCJIT asks for each object (`GetObject`) or compiles it
(`Compile`, external), and `OpenObject`, `WriteBlock`, `CloseObject` write it
straight to its final name. `CacheName` is what the cut at the last dot does:
modules without an extension lose their CRC, or make `replace` throw.
Reading a file is one step; a read that is itself interrupted by a writer would
see a mixture of the states this model lets it see.

**ZipSource.** One handle per process, with `write_state`, `open_count`, `ctx->f`
(`rd`), `ctx->fout` and `ctx->tmpname` (`tmp`). File content is a set of opaque
pieces. A commit is two steps, the rename and the chmod, since another process
may come between; `CommitRename(h, FALSE)` is the fclose that fails and is
followed by the rename all the same. Cloning is not compiled in (`config.h`).

**AllexeOutput.** A process has a tool and perhaps `-f`. It checks (only
`bc2allvm` does), stats, opens, adds modules in memory, and writes when the
`Allexe` goes out of scope: `CloseBegins`, `WritePrefix`, `WriteEntry`,
`WriteCdir`, `Commit`, `Chmod`, with the failure of each. `Exit` gives the exit
status of the tool, which never depends on `zip_close`. A tool that meets an
error calls `exit`, and no destructor runs, except in `wllvm-extract`. Entries
that were in the archive are never rewritten by these tools: `Allexe::open`
requires the first to be `main.bc`, and adding another `main.bc` is refused.
An existing file that cannot be opened or read fails the run (`ZipOpenFails`).

**ZipEntries.** `entry` is `za->entry`: each has the name it was read with, the
clone with the set of changed fields, whether it has a source, whether it is
deleted. `hash` is `za->names`: each key has its original and current index and
the bucket it is linked into, so that a resize that forgets a chain makes a key
unfindable. One action per library call. `SetName` (with `Renamed`), `Replaced`
and `AddFile` are what the calls have in common, with what a refused call leaves behind; `Written`
is the record and data `zip_close` writes of an entry, `Changed` its test
whether to write at all. `AddEntry`, `UpdateEntry` and `UpdateEntryAs` are the
calls of `ZipArchive`, which keeps `files` next to it. `asked`, `allOK` and
`touched` are history: what the successful calls asked for, whether all of the
wrapper's calls returned true, whether a deleted entry was acted on. `Opened` is
the table after the loop of `_zip_open`, in closed form; `MCZipEntries` assumes,
and so checks on its archives, that adding the names one by one makes the same
table.

**ZipFormat.** A file is a sequence of cells: one for each fixed record, name,
extra field, value in one, and unit of data. `M16` and `M32` stand for the
largest values of 16 and 32 bit fields, so small files cross them. `StartClose`
to `WriteCdir` are the steps of `zip_close` (`WriteHead`, `CopySource`,
`WriteFinal` are `add_data`, with the header written twice; `CopyEntry` copies
an entry that has not changed). `Tear` loses the end of the file. `Open` is
`zip_open`, with and without `ZIP_CHECKCONS`: the search for an end record among
everything that looks like one (`FindCentralDir`), the directory, the choice of
the best candidate. `ExtraFieldSet` and `ExtraFieldDelete` edit the fields of an
entry before `zip_close`. Names carry an encoding, which is guessed as in
`_zip_guess_encoding`, since it decides on flags and extra fields.

**ZipRead.** `base` is the file source of the archive, with its position, open
count and references; each reader in `rd` has a stack of layers, each with the
fields of `struct zip_source` and of its own context. A call runs through the
stack in one step: `SourceOpen`, `SourceRead`, `SourceSeek`, `SourceClose` are
recursive in the layer as the code is. A read of the file may fail, the first or
the second of a call (`Faults`). File data are cells that say where they belong
and whether they are sound; a CRC is the sequence of cells it was computed over.
zlib is external and modelled by what it does with cells: `Inflate` makes two
out of one and stops at junk, `Deflate` gives out its stream at the end or, in
other scenarios, as input comes. `told` is the answer of the last call, which is
what the properties speak of. `GetEntry` is `ZipArchive::getEntry`, from
`zip_fopen_index` to `zip_fclose`. `crash` marks undefined behaviour: a null
dereference in `getEntry`, a seek in an empty buffer. A scenario is a file
(whole, damaged or cut off) and what each reader may do.

Each module also has *slips*: variants of an action with a plausible mistake,
used to show that every property can be broken by a change of the code.

## Runs

| Run | Shows |
|---|---|
| `static_cache` | two processes on one key, four inodes, two blocks, one fault: `RetrieveSucceeds`, `ExecutesWholeBinary`, `LoneFillsPublishWhole`, `LoneFillsSucceed`, `EntryStays`, the invariant `Inv` of the proofs, which holds the types and `ObjectFileRemoved`, and `SomeFillPublishes`: racing fills do not all lose |
| `static_publish` | violated: three racing fills can leave an entry that cannot be executed, with no fault at all |
| `zip_source` | two handles, any calls: `RollbackHasTemp`, `ReadersHaveFile`, `PublishedIsClosed` |
| `allexe_output` | any two of the six tools, any file to begin with, failing flushes included: `OutputInv`, the invariant of the proofs, `TempsAccounted`, `ReaderSnapshot`, `OutputExecutable`, `ForcelessKeepsOriginal`, `OnlyExtractRemoves`, and `OutputAtomic`: the tools implement `AtomicOutput` if fclose writes its buffer |
| `allexe_success` | violated: success is reported although nothing was written |
| `allexe_reject` | violated: two `bc2allvm` without `-f` overwrite each other |
| `jit_cache` | two processes, two modules, two blocks, one fault: `JITInv`, the invariant of the proofs, `CompilesMaterialised`, `LoneObjectsWhole`, `RunsUnlessRaced`: an unwritable cache does not keep a program from running |
| `jit_name` | violated: the CRC does not identify the object |
| `zip_entries` | every sequence of calls on archives of up to three entries: `EntriesInv`, the invariant of the proofs, `NamesAgree`, `WrittenAsAsked`, `NothingLost`, `UnchangeAllRestores`, and for the wrapper `FilesAgree` |
| `zip_format` | archives at the limits of every field, whole or torn at every point: `RoundTrip`, `NotRefused`, `TornRefused`, `NoMismatch`, `FieldsFit`, `OtherKindStays` |
| `zip64_boundary` | violated: at a size of exactly 2^32 - 1 the local ZIP64 field lacks the sizes |
| `zip_read` | readers of entries, ranges and memory in every order, on sound, damaged and truncated files, with a failing read: `ReadsInPlace`, `EofIsEnd`, `EofIsIntact`, `NoSpuriousErrors`, `Lifetimes`, `CompressorFaithful`, `GetEntryWhole` |

**Bounds.** Two processes are enough for every conflict the passing properties
are about: a writer and one that disturbs it. A process that is over may start
again in the cache models, so histories are not bounded by the number of
processes; in `AllexeOutput` each runs once. The one outcome that needs three
(`static_publish`: one truncates, one makes the file read-only, one renames) has
a run with three. Inodes: one per name plus one per descriptor that may be held,
so that a new file can always be created. Two blocks, or the prefix, the modules
and the directory of an archive, suffice for "some but not all". `MaxFaults`
bounds crashes and I/O errors of a behaviour where processes restart; `MaxOpens`
bounds the open count. Symmetry is used
for safety only.

`zip_entries` has three names, one of them a directory's, and up to three
entries, opened or added: a name can be taken, free, or the original name of an
entry that has another one now. The table starts with two buckets and two names
share one until it grows. The calls are not bounded: the state is finite. Each
behaviour sets one of method, time, attributes and comment besides names and
data; setting several at once adds no case to the code, which treats them apart.
`zip_format` has `M16 = 5` and `M32 = 14` and sizes, counts and offsets at, just
below and just above the limits, sizes that are unknown or wrong at first, old
compressed sizes and versions that matter only at a limit, and comments and data
that contain an end record. `zip_read` has two readers, four
entries (stored, deflated, one larger in the directory than in the file, empty),
a buffer of two cells so that the loops of the code turn more than once, one
failing read, and reads and seeks chosen per scenario; reading and seeking go on
for as long as readers like.

**Fairness.** `FairSpec` asks that a process that is running takes its next
step: the code never waits for another process, takes no lock and retries
nothing, so the scheduler of the operating system gives exactly this. Nothing
is assumed of `Invoke`, of crashes or of I/O errors; the two liveness properties
promise nothing once a fault has happened. The models of libzip are of
synchronous calls that a caller need not make, so they state no fairness.

**Deadlock** is checked in the caches. The other runs do not check it: handles
may be used up, every tool ends, a file is written and opened once, and an
archive that has been discarded has no more calls.

## What the runs found

- All fills share one `.tmp` name. Overlapping fills never execute incomplete
  code (this is proved), because the file stays open for writing until its last
  block is there and the kernel refuses to execute it; but the file that gets
  published may have missed its chmod, and then stays unusable.
- `~ZipArchive` drops the error of `zip_close`: "Successfully wrote to" may be
  printed, with exit status 0, when nothing was written.
- `bc2allvm` refuses an existing output by a test at its start only.
- A module name without a dot makes `JITCache::getCacheFilename` cut the path
  in the directory part, so different modules share an object.
- An entry whose stored size is exactly 2^32 - 1 gets a local header that
  announces ZIP64 sizes and an extra field without them: `_zip_dirent_write`
  tests with `>` (zip_dirent.c:801) what is tested with `>=` elsewhere.

In the model, and harmless to the tools because `zip_close` always rolls back:
`zip_source_begin_write` accepts a source whose commit failed, which loses the
name of its temporary file, although zipint.h:325 allows only a rollback.

`AOTCompileIfNeeded` returns on a compile error (AOTCompile.cpp:43) before it
keeps or removes its temporary file; the model has this in `temps`, and
`ObjectFileRemoved` speaks of the object file only.

Two more effects are part of the model and stated as properties of the code as it is:
`wllvm-extract -f` removes the existing output when its input cannot be linked
(`OnlyExtractRemoves`), and a failure to write the prefix is the one error of
`zip_close` that leaves its temporary file (`TempsAccounted`).

In libzip, the following is behaviour of the code that the models contain and
the properties name as exceptions; no text of the repository says otherwise.

- *Entries.* Setting a time or method back to the original's while other changes
  of the entry remain clears the mark and leaves the value, which is written
  (`Stale`). A setter, rename or replacement on a deleted entry gives it a
  changed record without giving it its name in the table back (`touched`). An
  added entry that is unchanged stays as an entry without record and data
  (`Ghost`), and a later `zip_close` fails with `ZIP_ER_INTERNAL`.
  `ZipArchive::updateEntry` with a name returns the opposite of what the rename
  did. The comment at zip_hash.c:46 about the size of the table does not hold
  after `_zip_hash_reserve_capacity`.
- *Format.* Replacing an entry whose compressed size was 4 GiB or more by
  deflated data fails with `ZIP_ER_INTERNAL`, since the old size asks for a ZIP64
  header the new one does not need (`NoMismatch`). Data that turns out to have
  another size than the 2^32 - 1 it announced makes the second header longer or
  shorter than the first, and so does deflated data whose size was announced
  wrong when it replaces an entry with a compressed size of exactly 2^32 - 1
  (`ResizedAtBoundary`). An entry that is copied and needs version 46 or 63, and
  whose offset alone needs ZIP64, gets version 45 in its central header
  (zip_dirent.c:873) and keeps its own in the local one; `_zip_headercomp`
  (zip_open.c:508) then refuses the archive under `ZIP_CHECKCONS`
  (`VersionLowered`). The last two came up in the proof of the round trip, which
  did not go through without them; the runs have entries of both kinds since. A directory of 4 GiB or more
  gets no ZIP64 end record of its own (`CdirTooLarge`). The 16-bit sum of the
  extra fields is not checked together with the fields libzip adds
  (`FieldsOverflow`), and the length of a replaced field is computed for one kind
  when the replacement is for both (`lopsided`). Consistency checks inside
  `_zip_read_eocd` look at `za->flags`, which does not have `ZIP_CHECKCONS` then.
  If the end of a file is lost and its data or comment holds another end record,
  that one is opened (`Decoy`).
- *Reading.* `getEntry` reads exactly the size of the entry, so it never sees
  the end of the data and the CRC is never compared; it ignores the result of
  `zip_fread`, and passes the null pointer of a failed `zip_fopen_index` to
  `zip_fclose`. An error of one reader marks the file source that all share and
  fails the others until one is opened again. A refused seek or tell makes the
  error of a `zip_file_t` stick. A deflated stream that stops early is no error of
  the decompressor: the CRC or the window above finds it. An entry with
  compressed size 0 is read as empty whatever its size says. Seeking in empty
  memory reads outside a table; an empty fragment among others makes
  `buffer_new` fill that table wrongly (excluded by `InputsAssumption`).

## What is proved

Every safety property that the runs check of six of the seven models is a
theorem, for every value of the constants. None of the properties is inductive.
Each model states its inductive invariant as a conjunction of named parts, and
the proofs have a lemma for each part or each call, and in it a step for each
action or part that could break it. The runs check `Inv`, `JITInv`, `OutputInv`
(with `SourceInv` in it) and `EntriesInv` as well.

**StaticBinaryCache** (`Inv`). Assumed: `NoInode` is no inode, `NumBlocks > 0`,
`MaxFaults` is a natural number. Theorems: `Invariance`, and from it
`TypeCorrect`, `AssertionHolds` (`RetrieveSucceeds`), `ExecutionSafe`
(`ExecutesWholeBinary`), `PublicationAtomic` (`LoneFillsPublishWhole`),
`LoneFillWorks` (`LoneFillsSucceed`), `EntryNeverRemoved` (`EntryStays`). `Inv`
adds:

- `Descriptors`: a descriptor is held exactly while it is used, and the inode
  `.tmp` names is neither published nor about to be executed;
- `Published`: who has renamed finds an entry;
- `TornHasWriter`, the heart of `ExecutesWholeBinary`: without faults, every
  inode that can be reached by a name or by a descriptor for execution is whole, or some
  process has it open and has written all blocks up to its offset since it was
  last truncated. Truncating an inode makes the truncating process that writer;
  a process that closes has written all blocks; a rename moves names only; so a
  file that is missing a block always has a writer, and `fexecve` refuses it;
- `LoneFill`: without overlap one process at most is filling, it owns `.tmp`,
  and the file has what its place in the code says it has.

**JITCache** (`JITInv`). Assumed: the stand-ins `Hole` and `NoDot` are no
modules, `NumBlocks > 0`. Theorems: `JITInvariance`,
`MaterialisedBeforeCompiled` (`CompilesMaterialised`), `LoneProgramsWhole`
(`LoneObjectsWhole`), `UnsharedIdentified` (`OwnBlocks`). The first rests on
`LoadedFromCache`: a module is left without bodies only if the cache has a file
for it, and no file is ever removed. The second rests on `FilesWhole`: without
faults and overlap a file is whole, or its one writer (`LoneWriter`) has written
it up to its offset; so what `getObject` takes is whole (`ObjectsWhole`). The
proof showed that `LoneObjectsWhole` must be restricted to modules that have
their cache name for themselves (`Unshared`): two modules without a dot in their
names overwrite each other without ever meeting. For all others, `OwnBlocks`
holds through any crash and race: the CRC does identify the object there, which
is the part of the comment in JITCache.cpp that is true.

**ZipSource** (`SourceInv`). Assumed: `NoInode` is no inode, `MaxOpens` is a
natural number. Theorems: `SourceInvariance`, `RollbackPossible`
(`RollbackHasTemp`), `OpenCountExact` (`ReadersHaveFile`), `NothingOpenPublished`
(`PublishedIsClosed`). The parts that make it inductive: the file written
through `ctx->fout` is the one `ctx->tmpname` names (`OutputIsTemp`), and no two
handles have the same (`TempsApart`). There is one lemma per `zip_source_*` call, which
`AllexeOutputProofs` uses again.

**AllexeOutput** (`OutputInv`). Assumed: the processes are a finite set
(`HandlesAssumption`, needed to count files), `Orig` is none of them, and pieces
are pairs of a kind and an author. Theorems: `OutputInvariance`,
`NoUnaccountedTemps`, `ReadersSeeOneArchive`, `ArchivesExecutable`,
`RemovalsExplained`, `OriginalsKept`, and `OutputIsAtomic`, the refinement
`Spec => Output!Spec`. `OutputInv` has `SourceInv`, ties the place of a process
to the state of its source (`Places`) and the pieces in its temporary file to
its place in `zip_close` (`OwnArchives`), so that what a commit renames is all
that the tool wrote but for what fclose lost (`PublishedWhole`); says that the
file a reader has open is of one author and no longer changes (`Snapshots`);
and that while the original file is in place every `stat` has found it
(`OrigSeen`), so that a tool without `-f` has listed its modules
(`ListedUnlessForced`) and cannot commit. In the refinement a commit whose
fclose succeeds is `Replace`, closing with no entries is `Remove`, and every
other step stutters (`CommitReplaces`, `CloseEmptyRemoves`, `OthersStutter`).

**ZipEntries** (`EntriesInv`). Assumed: finitely many names, `NoName` is none of
them, `HashOf` is any function of names to numbers, an archive has at most
`MaxEntries` entries with names of their own when it is opened. Theorems:
`EntriesInvariance`, `NamesFaithful` (`NamesAgree`), `WritesFaithful`
(`WrittenAsAsked`), `UnchangedIsNothing` (`NothingLost`), `RevertRestores`
(`UnchangeAllRestores`), `ListsAgree` (`FilesAgree`). The argument has three
layers:

- *the table*: what `Lookup` and `OrigOf` say of a name after `HashAdd`,
  `HashDelete`, `HashRevert` and `Resize` (`AddKeeps`, `DeleteKeeps`,
  `RevertKeeps`, `ResizeKeeps`), from `HashType`: each key is in the bucket where
  it will be looked for. These hold for every size, so the arithmetic of the
  resizes does not matter to what is found; that the table keeps a positive size
  when there are keys is not needed, and is only seen by TLC, which would fail
  to evaluate a remainder by zero;
- *one entry*: each call keeps `MarksExact` (a field that is put back together
  with its value is marked exactly if it differs: freeing a clone without marks
  then loses nothing) and `AsAsked` (an unmarked field was last asked to be the
  original's). `WrittenAsAsked` and `NothingLost` follow;
- *both*: `OrigsKeyed` (the key of an original name stays and points to its
  entry) is what makes `zip_unchange_all` work whatever was done before.
  `NamesFound` (a name is looked up to an entry exactly if the entry is there
  and has it) needs that a deleted entry has no changes (`DataAsAsked`), and is
  lost when something is done to one (`touched`), until the next
  `zip_unchange_all`. `ArchiveOnlyGrows`: `ZipArchive` never gets there.

**ZipFormat** (`FormatInv`, `FieldsInv`, `TornInv`, `LayoutInv`). Assumed: the
widths are natural numbers, `M32 > 1` and `2 * Growth < M32`, as for 32 bits and
what zlib adds at most; extra fields hold sequences (`ValuesAssumption`). Of what
is written (`ScenariosAssumption`): the entries are records of `zip_dirent`'s
form, and one that gets new data has the compressed size it was cloned with;
their texts are what `_zip_string_new` accepts; their fields come from headers
and the comment from an end record, so that 16 bits hold their lengths; the
comment consists of bytes, some of which may be an empty archive. Nothing bounds
the number of entries, fields and edits, or any size.

- `HeadersMatch` (`NoMismatch`): `add_data` finds its two headers to be of one
  form, for every size of the data and every length it may deflate to.
  `HeadFollowsStat` says what the first header promised, from the size
  `zip_source_stat` gave; `DataSized`, what `copy_source` found; `RecordsKept`,
  that no step before disturbs the record. `SameForm` is the arithmetic: a size
  up to `MaxSize` cannot grow to `M32`. The exception for replaced entries is
  needed: the compressed size of the old data is still in the record when the
  first header is written.
- `FieldsAlwaysFit` (`FieldsFit`) and `EditsOneKind` (`OtherKindStays`), from
  `FieldsInv`: what `zip_file_extra_field_set` and `_delete` make of a list of
  fields (`SetMakes`, `DeleteWritten`). The check of the length is made for the
  longer of the lists of both kinds less the one that is replaced; that this
  bounds both is true exactly when the one that is replaced is of all kinds that
  are set, else the edit is `lopsided`.
- `TornFilesRefused` (`TornRefused`), from `TornInv`: unless something else looks
  like one, there is no end record before the directory is written, then one
  with its comment right behind it, and in a torn file none that has all of its
  comment; and then no candidate of `_zip_find_central_dir` is left.
- `LayoutInvariance`: what is in the file. Each entry that is written has its
  header and data at its offset (`StoredTo`), the one being written has its first
  header at `start` (`FirstForm` is the record as it was then, and `HeaderStays`
  says that the second header has the length of the first, so that it overwrites
  nothing else), and behind the entries is the directory with its end records
  (`DirectoryAt`). TLC has checked `LayoutInv` on the instance of `zip_format`.
- `RoundTrips` (`RoundTrip`) and `NeverRefused` (`NotRefused`), from all of
  these. `HeaderParsed` and `DirentReadBack`: a header that is in the file is read
  as the record it was written from, with its ZIP64 field and those for UTF-8
  texts. `DirectoryRead`: the loop over the directory reads entry after entry and
  stops at the last. `LastRead`: the end record of the file, with the ZIP64 ones
  if they are there, leads to that directory. `EndsAreDecoys`: every other end
  record in the file is that of an empty archive in data or comment.
  `Settling` and `DirectoryFound`: such a decoy may be the first candidate, but
  the directory spans more of the file and takes its place, and none behind
  takes the place of the directory; with no entries there is no data for a
  decoy before it. `MergedContents`: `_zip_ef_merge` shows of each kind what the
  two headers had. `DataReadBack`: the data starts where `_zip_file_get_offset`
  says. The exceptions in `Irregular` and `CdirTooLarge` are the limits described
  above, and each is used.

The operators of `ZipFormat` walk along lists, and what they compute is by
induction on the list. The induction theorems of the library cannot be used for
that, so `ExtraFieldProofs` has its own, which speak of the *set* of what
satisfies a statement: `Least` (from the well-founded order of finite sets),
`UpTo` for positions, `ListInduction` for lists, and `LoopExists`, that a loop
over positions computes something. `Picked` takes the place of `SelectSeq`, whose
definition the provers do not have.

**Only model-checked.** Liveness (`SomeFillPublishes`, `RunsUnlessRaced`) is out
of the prover's reach. So is `ZipRead`, which is written with recursive
operators, as the calls it models recurse through layers. That a resize leaves
the table of names a positive size is only seen by TLC, too (see `ZipEntries`).

## Not modelled

Code generation, linking, MCJIT and the transformation of bitcode (LLVM's);
zlib itself; encryption (no tool uses it, and `zip_source_pkware.c` is one more
layer of the kind `ZipRead` has); comments of single entries in `ZipEntries`,
which are set like the other fields; failing allocations; the writing side of
the memory source, which no tool uses; archives in which two entries have one
name, when they are opened to be changed; time zones and dates; `all-info`,
`alld` and `wllvm-dump`, which keep no state. The key of the static cache is a
constant, so that it leaves out the linker and libnone is a hazard without a
property.

## Plan

1. `CacheKeys`: what the two `generateName` and `getCacheFilename` keep of their
   input, and what a cached binary depends on.
2. `Allmux`: symbols, constructors and the removal of duplicate modules.
3. `WLLVMSection`, the parsing of the section of bitcode paths, and
   `DeInlineAsm`, as operators against a reference.
4. The temporary files of `allopt` and `alltogether`, and the other two outputs
   of `wllvm-extract`.
