----------------------------- MODULE ZipEntries -----------------------------
(***************************************************************************)
(* The entries of an open archive in libzip (za->entry), the hash table of *)
(* their names (za->names), the calls that change them before zip_close,   *)
(* and ALLVM's ZipArchive, which keeps a list of names of its own.         *)
(*                                                                         *)
(* An entry has the directory record it was read with (orig), a clone of   *)
(* it with the changed fields marked (changes), and a source of new data.  *)
(* A call updates the table and the entry in several steps; what a failing *)
(* call has done by then stays done.  Indices start at 1 here and 0 stands *)
(* for libzip's -1.  malloc is taken to succeed.                           *)
(***************************************************************************)
EXTENDS Naturals, Sequences, FiniteSets

CONSTANTS
    Names,       \* the names of entries
    Dirs,        \* the ones of them that end in "/"
    NoName,      \* no record, or a record without a name
    HashOf,      \* hash_string
    MinSize,     \* HASH_MIN_SIZE
    MaxEntries,  \* bound on the entries of an archive
    Archives,    \* the archives that may be opened: the names of their entries
    Callers      \* who uses the archive, calling libzip or ZipArchive (api),
                 \* and what it sets besides names and data (sets)

\* A name has at most 65535 bytes.
ASSUME NamesAssumption == /\ NoName \notin Names /\ Dirs \subseteq Names
                          /\ IsFiniteSet(Names)
ASSUME HashAssumption == HashOf \in [Names -> Nat] /\ MinSize \in Nat \ {0}
ASSUME MaxEntriesAssumption == MaxEntries \in Nat
ASSUME ArchivesAssumption ==
    \A ns \in Archives : /\ ns \in Seq(Names) /\ Len(ns) <= MaxEntries
                         /\ \A i, j \in DOMAIN ns : ns[i] = ns[j] => i = j
ASSUME CallersAssumption ==
    Callers \subseteq [api : {"libzip", "ZipArchive"},
                       sets : SUBSET {"method", "mtime", "attr", "comment"}]

VARIABLES
    caller,   \* who uses the archive
    entry,    \* za->entry
    hash,     \* za->names
    chFlags,  \* whether za->ch_flags and za->flags have ZIP_AFL_RDONLY
    comment,  \* whether za->comment_changed
    files,    \* ZipArchive::files
    allOK,    \* history: every call of ZipArchive has returned true
    touched,  \* history: something was done to an entry after its deletion
    asked     \* history: what the calls that succeeded asked of each entry

vars == <<caller, entry, hash, chFlags, comment, files, allOK, touched, asked>>

Indices == 1..Len(entry)

\* The values of a field, the one in the archive first.
Methods == {"default", "deflate", "store", "replaced"}
Bits == {"name", "method", "mtime", "attr"}
NoChanges == [bits |-> {}]
ChangesType == [bits : SUBSET Bits, name : Names \cup {NoName}, method : Methods,
                mtime : {0, 1}, attr : {0, 1}]
EntryType == [orig : Names \cup {NoName}, changes : ChangesType \cup {NoChanges},
              source : BOOLEAN, deleted : BOOLEAN]

-----------------------------------------------------------------------------
(* The hash table.  A key has the entry that had the name when the archive *)
(* was opened, the one that has it now, and the bucket it is linked into.  *)

\* Every key is linked into the bucket where it will be looked for.
HashType(h) ==
    /\ h = [size |-> h.size, ent |-> h.ent]
    /\ DOMAIN h.ent \subseteq Names
    /\ \A n \in DOMAIN h.ent :
          h.ent[n] \in [orig : 0..MaxEntries, cur : 0..MaxEntries,
                        at : {HashOf[n] % h.size}]

Count(h) == Cardinality(DOMAIN h.ent)

Found(h, n) ==
    /\ Count(h) > 0
    /\ n \in DOMAIN h.ent
    /\ h.ent[n].at = HashOf[n] % h.size

\* hash_resize links every key into its new bucket.
Resize(h, size) ==
    [size |-> size,
     ent |-> [n \in DOMAIN h.ent |-> [h.ent[n] EXCEPT !.at = HashOf[n] % size]]]

\* size_for_capacity: a power of two, at least capacity / .75 rounded down.
SizeFor(capacity) ==
    CHOOSE s \in {2^k : k \in 0..capacity} :
        /\ s >= (4 * capacity) \div 3
        /\ s > 1 => s \div 2 < (4 * capacity) \div 3

Grown(h) == IF 4 * Count(h) > 3 * h.size THEN Resize(h, 2 * h.size) ELSE h

Sparse(h, size) == 100 * Count(h) < size /\ size > MinSize

Shrunk(h) == IF Sparse(h, h.size) THEN Resize(h, h.size \div 2) ELSE h

Lookup(h, n) == IF Found(h, n) THEN h.ent[n].cur ELSE 0

\* _zip_hash_add fails when the name is taken.
CanAdd(h, n) == Lookup(h, n) = 0

Linked(h, n, i, unchanged) ==
    LET t == IF h.size = 0 THEN Resize(h, MinSize) ELSE h
        key == [orig |-> IF unchanged THEN i ELSE 0, cur |-> i,
                at |-> HashOf[n] % t.size]
    IN  [size |-> t.size,
         ent |-> [m \in DOMAIN h.ent \cup {n} |-> IF m = n THEN key ELSE t.ent[m]]]

HashAdd(h, n, i, unchanged) ==
    IF Found(h, n)
    THEN [h EXCEPT !.ent[n].cur = i,
                   !.ent[n].orig = IF unchanged THEN i ELSE @]
    ELSE Grown(Linked(h, n, i, unchanged))

\* _zip_hash_delete keeps the key if the archive had the name when opened.
HashDelete(h, n) ==
    IF ~Found(h, n) THEN h
    ELSE IF h.ent[n].orig # 0 THEN [h EXCEPT !.ent[n].cur = 0]
    ELSE Shrunk([h EXCEPT !.ent = [m \in DOMAIN h.ent \ {n} |-> h.ent[m]]])

HashRevert(h) ==
    LET kept == {n \in DOMAIN h.ent : h.ent[n].orig # 0}
        h1 == [h EXCEPT !.ent =
                  [n \in kept |-> [h.ent[n] EXCEPT !.cur = h.ent[n].orig]]]
        sizes == {h.size \div 2^k : k \in 1..h.size}
    IN  IF Sparse(h1, h.size)
        THEN Resize(h1, CHOOSE s \in sizes :
                            /\ ~Sparse(h1, s)
                            /\ \A t \in sizes : t > s => Sparse(h1, t))
        ELSE h1

-----------------------------------------------------------------------------
(* Records.                                                                *)

OrigMethod(e) == IF e.orig = NoName THEN "default" ELSE "deflate"

\* _zip_dirent_clone
Clone(e) ==
    [bits |-> {}, name |-> e.orig, method |-> OrigMethod(e), mtime |-> 0,
     attr |-> 0]

Changes(e) == IF e.changes = NoChanges THEN Clone(e) ELSE e.changes

\* A clone that differs in nothing is freed.
Settled(ch) == IF ch.bits = {} THEN NoChanges ELSE ch

\* A field is set to something else than the original's.
Mark(e, f, v) ==
    [e EXCEPT !.changes = [Changes(e) EXCEPT !.bits = @ \cup {f}, ![f] = v]]

\* A field is set back to the original's: the mark goes, the value stays.
Unmark(e, f) ==
    IF e.changes = NoChanges THEN e
    ELSE [e EXCEPT !.changes = Settled([e.changes EXCEPT !.bits = @ \ {f}])]

\* _zip_get_dirent: without changes, a deleted entry has no record.
HasDirent(e) == e.changes # NoChanges \/ (e.orig # NoName /\ ~e.deleted)

CurName(e) == Changes(e).name

\* _zip_name_locate for the flags that cannot use the table: the first entry
\* whose record has the name.
Scan(n) ==
    LET S == {i \in Indices : HasDirent(entry[i]) /\ CurName(entry[i]) = n}
    IN  IF S = {} THEN 0 ELSE CHOOSE i \in S : \A j \in S : i <= j

\* A slip in HasChanges: only data and deletion count.
HasChangesOfData(e) == e.source \/ e.deleted

HasChanges(e) == e.source \/ e.deleted \/ e.changes # NoChanges

\* _zip_changed
Changed ==
    \/ comment
    \/ chFlags.ch # chFlags.orig
    \/ \E i \in Indices : HasChanges(entry[i])

\* _zip_unchange_data: the new data goes, and with it the method that
\* replacing the data had set.
UnchangeData(e) ==
    LET e1 == [e EXCEPT !.source = FALSE, !.deleted = FALSE]
    IN  IF e.changes # NoChanges /\ "method" \in e.changes.bits
             /\ e.changes.method = "replaced"
        THEN Unmark(e1, "method") ELSE e1

ReadOnly == chFlags.ch

-----------------------------------------------------------------------------
(* The names.                                                              *)

\* A slip in SetName: the table keeps the old name.
SetNameKeepsOld(i, n, es, h) ==
    [e |-> [es EXCEPT ![i] = IF n = @.orig THEN Unmark(@, "name")
                             ELSE Mark(@, "name", n)],
     h |-> HashAdd(h, n, i, FALSE)]

\* The end of _zip_set_name: the record gets the name; if that is the
\* original one, the mark goes.
Renamed(e, n) ==
    IF n # e.orig THEN Mark(e, "name", n)
    ELSE IF "name" \in e.changes.bits
    THEN Unmark([e EXCEPT !.changes.name = n], "name")
    ELSE e

\* _zip_set_name, when nobody has the name: first it is added to the table,
\* then the old one removed from it, then the record is brought up to date.
SetName(i, n, es, h) ==
    LET old == CurName(es[i])
        h1 == HashAdd(h, n, i, FALSE)
    IN  [e |-> [es EXCEPT ![i] = Renamed(@, n)],
         h |-> IF old = NoName THEN h1 ELSE HashDelete(h1, old)]

\* The rest of _zip_file_replace: old data out, new data in.
Replaced(e) ==
    LET e1 == UnchangeData(e)
        keeps == e1.orig = NoName \/ "method" \in e1.changes.bits
    IN  [(IF keeps THEN e1 ELSE Mark(e1, "method", "replaced"))
            EXCEPT !.source = TRUE]

NewEntry == [orig |-> NoName, changes |-> NoChanges, source |-> FALSE,
             deleted |-> FALSE]

\* A slip in AddFile: za->nentry is not set back when the name is refused.
AddFileKeepsEntry(n, overwrite) ==
    [idx |-> 0, e |-> Append(entry, NewEntry), h |-> hash]

\* The outcome of _zip_file_replace for a name: the entries and the table,
\* and the index, 0 if the name is taken and may not be overwritten.
AddFile(n, overwrite) ==
    LET there == Lookup(hash, n)
        idx == IF overwrite /\ there # 0 THEN there ELSE Len(entry) + 1
        named == IF idx = there THEN [e |-> entry, h |-> hash]
                 ELSE SetName(idx, n, Append(entry, NewEntry), hash)
    IN  IF there # 0 /\ ~overwrite
        THEN [idx |-> 0, e |-> entry, h |-> hash]
        ELSE [idx |-> idx, h |-> named.h,
              e |-> [named.e EXCEPT ![idx] = Replaced(@)]]

-----------------------------------------------------------------------------
(* What was asked of an entry, and what zip_close will write of it.        *)

NothingAsked(n) == [name |-> n, data |-> "orig", method |-> "deflate",
                    mtime |-> 0, attr |-> 0]

AskedOfNew(n) == [name |-> n, data |-> "new", method |-> "default",
                  mtime |-> 0, attr |-> 0]

Forgotten(e) == IF e.orig = NoName THEN AskedOfNew(NoName) ELSE NothingAsked(e.orig)

\* ZIP_CM_ACTUAL
Actual(m) == IF m \in {"default", "replaced"} THEN "deflate" ELSE m

NewData(e) == e.source \/ "method" \in e.changes.bits

\* The time at which zip_close runs.
Now == 2

\* zip_close writes the record it has; data that is not new is copied as it
\* is in the archive, deflated, and other data is encoded as the record says
\* and, unless the time is marked, gets the time of its source.
Written(e) ==
    [name |-> Changes(e).name,
     data |-> IF e.source THEN "new" ELSE "orig",
     method |-> Actual(Changes(e).method),
     encoding |-> IF NewData(e) THEN Actual(Changes(e).method) ELSE "deflate",
     mtime |-> IF ~NewData(e) \/ "mtime" \in e.changes.bits THEN Changes(e).mtime
               ELSE IF e.source THEN Now ELSE 0,
     attr |-> Changes(e).attr]

\* The entries zip_close writes.  One that was added and then unchanged has
\* neither a record nor data left: zip_close fails on it.
Ghost(e) == e.orig = NoName /\ e.changes = NoChanges /\ ~e.source

Survivors == {i \in Indices : ~entry[i].deleted}

-----------------------------------------------------------------------------
(* Opening.                                                                *)

\* A table with room for the entries is made, and each name added to it.  It
\* has as many buckets as the rounding left it: the last name may make it
\* grow, and no other can.
Opened(ns) ==
    LET size == IF ns = <<>> THEN 0 ELSE SizeFor(Len(ns))
        index(n) == CHOOSE i \in DOMAIN ns : ns[i] = n
        key(n) == [orig |-> index(n), cur |-> index(n), at |-> HashOf[n] % size]
    IN  Grown([size |-> size, ent |-> [n \in {ns[i] : i \in DOMAIN ns} |-> key(n)]])

Init ==
    /\ caller \in Callers
    /\ \E ns \in Archives :
          /\ entry = [i \in DOMAIN ns |-> [NewEntry EXCEPT !.orig = ns[i]]]
          /\ hash = Opened(ns)
          /\ files = IF caller.api = "ZipArchive" THEN ns ELSE <<>>
          /\ asked = [i \in DOMAIN ns |-> NothingAsked(ns[i])]
    /\ \E ro \in BOOLEAN :
          chFlags = [orig |-> ro /\ caller.api = "libzip", ch |-> ro /\ caller.api = "libzip"]
    /\ comment = FALSE
    /\ allOK = TRUE
    /\ touched = FALSE

-----------------------------------------------------------------------------
(* The calls of libzip.  A call that fails before it has changed anything  *)
(* is not enabled.                                                         *)

Direct == caller.api = "libzip"

\* zip_file_add
FileAdd(n, overwrite) ==
    /\ Direct /\ ~ReadOnly
    /\ Len(entry) < MaxEntries
    /\ LET r == AddFile(n, overwrite)
           new == IF r.idx > Len(entry) THEN Append(asked, AskedOfNew(n))
                  ELSE [asked EXCEPT ![r.idx].data = "new"]
       IN  /\ r.idx # 0
           /\ entry' = r.e
           /\ hash' = r.h
           /\ asked' = new
    /\ UNCHANGED <<caller, chFlags, comment, files, allOK, touched>>

\* zip_dir_add, which sets the attributes of a directory as well.
DirAdd(n, overwrite) ==
    /\ Direct /\ ~ReadOnly
    /\ n \in Dirs
    /\ Len(entry) < MaxEntries
    /\ LET r == AddFile(n, overwrite)
           new == IF r.idx > Len(entry) THEN Append(asked, AskedOfNew(n))
                  ELSE [asked EXCEPT ![r.idx].data = "new"]
       IN  /\ r.idx # 0
           /\ entry' = [r.e EXCEPT ![r.idx] = Mark(@, "attr", 1)]
           /\ hash' = r.h
           /\ asked' = [new EXCEPT ![r.idx].attr = 1]
    /\ UNCHANGED <<caller, chFlags, comment, files, allOK, touched>>

\* zip_file_replace, of a deleted entry too.
FileReplace(i) ==
    /\ Direct /\ ~ReadOnly
    /\ entry' = [entry EXCEPT ![i] = Replaced(@)]
    /\ asked' = [asked EXCEPT ![i].data = "new"]
    /\ touched' = (touched \/ entry[i].deleted \/ Ghost(entry[i]))
    /\ UNCHANGED <<caller, hash, chFlags, comment, files, allOK>>

\* zip_file_rename
FileRename(i, n) ==
    /\ Direct /\ ~ReadOnly
    /\ HasDirent(entry[i])
    /\ (n \in Dirs) = (CurName(entry[i]) \in Dirs)
    /\ Lookup(hash, n) = 0
    /\ LET r == SetName(i, n, entry, hash)
       IN  /\ entry' = r.e
           /\ hash' = r.h
    /\ asked' = [asked EXCEPT ![i].name = n]
    /\ touched' = (touched \/ entry[i].deleted)
    /\ UNCHANGED <<caller, chFlags, comment, files, allOK>>

\* zip_delete: the name goes first, then the changes.
Delete(i) ==
    /\ Direct /\ ~ReadOnly
    /\ HasDirent(entry[i])
    /\ Found(hash, CurName(entry[i]))
    /\ hash' = HashDelete(hash, CurName(entry[i]))
    /\ entry' = [entry EXCEPT ![i].changes = NoChanges, ![i].source = FALSE,
                              ![i].deleted = TRUE]
    /\ asked' = [asked EXCEPT ![i] = Forgotten(entry[i])]
    /\ touched' = (touched \/ entry[i].deleted)
    /\ UNCHANGED <<caller, chFlags, comment, files, allOK>>

\* zip_unchange: it swaps the names in the table if the entry was renamed,
\* unless the original name is taken; a deleted entry's name it leaves out.
Unchange(i) ==
    /\ Direct
    /\ LET e == entry[i]
           renamed == "name" \in e.changes.bits
           there == IF e.orig = NoName THEN 0 ELSE Lookup(hash, e.orig)
           h1 == IF e.orig = NoName THEN hash
                 ELSE HashAdd(hash, e.orig, i, FALSE)
       IN  /\ HasChanges(e)
           /\ renamed => there = 0 /\ Found(h1, CurName(e))
           /\ hash' = IF renamed THEN HashDelete(h1, CurName(e)) ELSE hash
           /\ entry' = [entry EXCEPT ![i] =
                           UnchangeData([e EXCEPT !.changes = NoChanges])]
           /\ asked' = [asked EXCEPT ![i] = Forgotten(e)]
           /\ touched' = (touched \/ e.deleted)
    /\ UNCHANGED <<caller, chFlags, comment, files, allOK>>

\* A slip in UnchangeAll: the table is left as it is.
UnchangeAllEntries ==
    /\ Direct
    /\ entry' = [i \in Indices |->
                    UnchangeData([entry[i] EXCEPT !.changes = NoChanges])]
    /\ asked' = [i \in Indices |-> Forgotten(entry[i])]
    /\ comment' = FALSE
    /\ chFlags' = [chFlags EXCEPT !.ch = chFlags.orig]
    /\ touched' = FALSE
    /\ UNCHANGED <<caller, hash, files, allOK>>

\* zip_unchange_all reverts the table as a whole.
UnchangeAll ==
    /\ Direct
    /\ hash' = HashRevert(hash)
    /\ entry' = [i \in Indices |->
                    UnchangeData([entry[i] EXCEPT !.changes = NoChanges])]
    /\ asked' = [i \in Indices |-> Forgotten(entry[i])]
    /\ comment' = FALSE
    /\ chFlags' = [chFlags EXCEPT !.ch = chFlags.orig]
    /\ touched' = FALSE
    /\ UNCHANGED <<caller, files, allOK>>

\* zip_set_file_compression does not ask whether the entry has a record.
SetCompression(i, m) ==
    /\ Direct /\ ~ReadOnly
    /\ "method" \in caller.sets
    /\ entry' = [entry EXCEPT ![i] = IF m = OrigMethod(@) THEN Unmark(@, "method")
                                     ELSE Mark(@, "method", m)]
    /\ asked' = [asked EXCEPT ![i].method = m]
    /\ touched' = (touched \/ entry[i].deleted \/ Ghost(entry[i]))
    /\ UNCHANGED <<caller, hash, chFlags, comment, files, allOK>>

\* zip_file_set_mtime
SetMtime(i, t) ==
    /\ Direct /\ ~ReadOnly
    /\ "mtime" \in caller.sets
    /\ HasDirent(entry[i])
    /\ entry' = [entry EXCEPT ![i] = IF @.orig = NoName \/ t # 0
                                     THEN Mark(@, "mtime", t)
                                     ELSE Unmark(@, "mtime")]
    /\ asked' = [asked EXCEPT ![i].mtime = t]
    /\ UNCHANGED <<caller, hash, chFlags, comment, files, allOK, touched>>

\* A slip in SetAttributes: as for the others, the value stays.
SetAttributesUnmarks(i, a) ==
    /\ Direct /\ ~ReadOnly
    /\ "attr" \in caller.sets
    /\ HasDirent(entry[i])
    /\ entry' = [entry EXCEPT ![i] = IF a # 0 THEN Mark(@, "attr", a)
                                     ELSE Unmark(@, "attr")]
    /\ asked' = [asked EXCEPT ![i].attr = a]
    /\ UNCHANGED <<caller, hash, chFlags, comment, files, allOK, touched>>

\* zip_file_set_external_attributes: here the value is put back as well.
SetAttributes(i, a) ==
    /\ Direct /\ ~ReadOnly
    /\ "attr" \in caller.sets
    /\ HasDirent(entry[i])
    /\ entry' = [entry EXCEPT ![i] =
                    IF a # 0 THEN Mark(@, "attr", a)
                    ELSE IF @.changes = NoChanges THEN @
                    ELSE Unmark([@ EXCEPT !.changes.attr = 0], "attr")]
    /\ asked' = [asked EXCEPT ![i].attr = a]
    /\ UNCHANGED <<caller, hash, chFlags, comment, files, allOK, touched>>

\* zip_set_archive_comment, to another one than the original or back to it.
SetComment(c) ==
    /\ Direct /\ ~ReadOnly
    /\ "comment" \in caller.sets
    /\ comment' = c
    /\ UNCHANGED <<caller, entry, hash, chFlags, files, allOK, touched, asked>>

\* zip_set_archive_flag for ZIP_AFL_RDONLY; it cannot be taken back.
SetReadOnly ==
    /\ Direct /\ ~ReadOnly
    /\ ~Changed
    /\ chFlags' = [chFlags EXCEPT !.ch = TRUE]
    /\ UNCHANGED <<caller, entry, hash, comment, files, allOK, touched, asked>>

-----------------------------------------------------------------------------
(* ZipArchive.                                                             *)

\* A slip in AddEntry: ZIP_FL_OVERWRITE is passed, and the name is listed
\* a second time.
AddEntryOverwrites(n) ==
    /\ caller.api = "ZipArchive"
    /\ Len(files) < MaxEntries
    /\ files' = Append(files, n)
    /\ LET r == AddFile(n, TRUE)
       IN  /\ entry' = r.e
           /\ hash' = r.h
           /\ allOK' = allOK
           /\ asked' = IF r.idx <= Len(entry)
                       THEN [asked EXCEPT ![r.idx].data = "new"]
                       ELSE Append(asked, AskedOfNew(n))
    /\ UNCHANGED <<caller, chFlags, comment, touched>>

\* addEntry lists the name before it knows whether zip_file_add takes it.
AddEntry(n) ==
    /\ caller.api = "ZipArchive"
    /\ Len(files) < MaxEntries
    /\ files' = Append(files, n)
    /\ LET r == AddFile(n, FALSE)
       IN  /\ entry' = r.e
           /\ hash' = r.h
           /\ allOK' = (allOK /\ r.idx # 0)
           /\ asked' = IF r.idx = 0 THEN asked ELSE Append(asked, AskedOfNew(n))
    /\ UNCHANGED <<caller, chFlags, comment, touched>>

\* updateEntry without a new name.
UpdateEntry(i) ==
    /\ caller.api = "ZipArchive"
    /\ entry' = [entry EXCEPT ![i] = Replaced(@)]
    /\ asked' = [asked EXCEPT ![i].data = "new"]
    /\ UNCHANGED <<caller, hash, chFlags, comment, files, allOK, touched>>

\* updateEntry with one: zip_file_rename returns 0 for success, which is
\* taken for false, and the list keeps the old name.
UpdateEntryAs(i, n) ==
    /\ caller.api = "ZipArchive"
    /\ LET es == [entry EXCEPT ![i] = Replaced(@)]
           there == Lookup(hash, n)
           fails == there \notin {0, i} \/ (n \in Dirs) # (CurName(entry[i]) \in Dirs)
           r == IF fails \/ there = i THEN [e |-> es, h |-> hash]
                ELSE SetName(i, n, es, hash)
       IN  /\ entry' = r.e
           /\ hash' = r.h
           /\ allOK' = (allOK /\ fails)
           /\ asked' = [asked EXCEPT ![i].data = "new",
                                     ![i].name = IF fails THEN @ ELSE n]
    /\ UNCHANGED <<caller, chFlags, comment, files, touched>>

-----------------------------------------------------------------------------

Next ==
    \/ \E n \in Names, o \in BOOLEAN : FileAdd(n, o) \/ DirAdd(n, o)
    \/ \E i \in Indices :
          \/ FileReplace(i) \/ Delete(i) \/ Unchange(i)
          \/ \E n \in Names : FileRename(i, n)
          \/ \E m \in Methods \ {"replaced"} : SetCompression(i, m)
          \/ \E v \in {0, 1} : SetMtime(i, v) \/ SetAttributes(i, v)
    \/ UnchangeAll
    \/ \E c \in BOOLEAN : SetComment(c)
    \/ SetReadOnly
    \/ \E n \in Names : AddEntry(n)
    \/ \E i \in Indices : UpdateEntry(i) \/ \E n \in Names : UpdateEntryAs(i, n)

Spec == Init /\ [][Next]_vars

-----------------------------------------------------------------------------
(* Properties.                                                             *)

\* Type correctness of za->entry, za->names, the flags of the archive and the
\* list of ZipArchive; each entry has its record of what was asked.
EntriesTypeOK ==
    /\ caller \in Callers
    /\ entry \in Seq(EntryType) /\ Len(entry) <= MaxEntries
    /\ HashType(hash)
    /\ chFlags \in [orig : BOOLEAN, ch : BOOLEAN]
    /\ comment \in BOOLEAN /\ allOK \in BOOLEAN /\ touched \in BOOLEAN
    /\ files \in Seq(Names)
    /\ Len(asked) = Len(entry)

Named(i) == ~entry[i].deleted /\ CurName(entry[i]) # NoName

\* _zip_name_locate finds an entry under a name exactly if the entry is
\* there and has the name, through every sequence of adding, renaming,
\* deleting and reverting and every resize of the table; so no two entries
\* share a name, and searching the table and the entries gives the same.  It
\* fails once something is done to an entry that was deleted: nothing puts
\* its name back.  With ZIP_FL_UNCHANGED it always finds what the archive had:
\* the key of an original name stays in its place.
NamesAgree ==
    /\ ~touched => \A n \in Names :
          /\ Lookup(hash, n) = Scan(n)
          /\ \A i \in 1..MaxEntries :
                Lookup(hash, n) = i
                  <=> i \in Indices /\ Named(i) /\ CurName(entry[i]) = n
    /\ \A i \in Indices : entry[i].orig # NoName =>
          Found(hash, entry[i].orig) /\ hash.ent[entry[i].orig].orig = i

\* zip_unchange_all restores the archive that was opened, whatever was done
\* before, to deleted entries as well: every original name finds its entry,
\* and zip_close would write nothing.
UnchangeAllRestores ==
    [][touched /\ ~touched' =>
        /\ ~Changed'
        /\ \A i \in Indices : entry[i].orig # NoName =>
              Lookup(hash', entry[i].orig) = i /\ Written(entry'[i]).name = entry[i].orig]_vars

\* A value that differs from the original's although it is not marked.
Stale(e, f) ==
    /\ e.changes # NoChanges
    /\ f \notin e.changes.bits
    /\ e.changes[f] # Clone(e)[f]

\* zip_close writes what the calls asked for last, and the method in the
\* record is the one the data is encoded with.  Two fields are exempt while
\* other changes of the entry remain: setting the method or the time back to
\* the original's only takes the mark away, and the value stays.
WrittenAsAsked ==
    \A i \in Survivors :
        LET w == Written(entry[i]) a == asked[i] IN
        /\ Stale(entry[i], "method") \/ w.method = w.encoding
        /\ ~touched /\ ~Ghost(entry[i]) =>
              /\ w.name = a.name
              /\ w.data = a.data
              /\ w.attr = a.attr
              /\ \/ w.mtime = a.mtime \/ Stale(entry[i], "mtime")
                 \/ w.mtime = Now /\ a.mtime = 0
              /\ w.method = Actual(a.method) \/ Stale(entry[i], "method")

\* When zip_close finds nothing changed, nothing was asked that is not in
\* the archive already.
NothingLost ==
    ~Changed /\ ~touched => \A i \in Indices :
        ~Ghost(entry[i]) => /\ asked[i].name = entry[i].orig
                            /\ asked[i].data = "orig"
                            /\ asked[i].mtime = 0 /\ asked[i].attr = 0
                            /\ Actual(asked[i].method) = "deflate"

\* As long as ZipArchive's calls have returned true, its list of names is
\* that of libzip's entries: getEntry(name) gets the entry of that name.
FilesAgree ==
    caller.api = "ZipArchive" /\ allOK =>
        /\ Len(files) = Len(entry)
        /\ \A i \in Indices : files[i] = CurName(entry[i])

-----------------------------------------------------------------------------
(* The inductive invariant behind these.                                   *)

AskedType == [name : Names \cup {NoName}, data : {"orig", "new"},
              method : Methods \ {"replaced"}, mtime : {0, 1}, attr : {0, 1}]

\* The marks of the fields that are put back with their values are exact, so
\* that freeing a clone without marks loses nothing.
MarksExact(e) ==
    e.changes # NoChanges =>
        /\ "name" \in e.changes.bits <=> e.changes.name # e.orig
        /\ "attr" \in e.changes.bits <=> e.changes.attr # 0

\* An unmarked field was last asked to be the original's.
AsAsked(e, a) ==
    /\ CurName(e) = a.name
    /\ Changes(e).attr = a.attr
    /\ a.mtime = IF "mtime" \in e.changes.bits THEN e.changes.mtime ELSE 0
    /\ Actual(a.method) = IF "method" \in e.changes.bits
                          THEN Actual(e.changes.method) ELSE "deflate"

EntryOK(e, a) ==
    e \in EntryType /\ a \in AskedType /\ MarksExact(e) /\ AsAsked(e, a)

EntriesOK(es, qs) ==
    /\ es \in Seq(EntryType) /\ Len(es) <= MaxEntries
    /\ qs \in Seq(AskedType) /\ Len(qs) = Len(es)
    /\ \A i \in 1..Len(es) : EntryOK(es[i], qs[i])

\* The table never points outside the entries.
KeysInside(es, h) == \A n \in Names : Lookup(h, n) <= Len(es)

\* The entry a name had when the archive was opened.
OrigOf(h, n) == IF n \in DOMAIN h.ent THEN h.ent[n].orig ELSE 0

\* The keys of the original names stay: zip_unchange_all finds them all, and
\* no other.
OrigsKeyed(es, h) ==
    /\ \A i \in 1..Len(es) : es[i].orig # NoName => OrigOf(h, es[i].orig) = i
    /\ \A n \in Names : OrigOf(h, n) # 0 =>
          OrigOf(h, n) \in 1..Len(es) /\ es[OrigOf(h, n)].orig = n

NamesFound(es, h) ==
    \A n \in Names, i \in 1..MaxEntries :
        Lookup(h, n) = i <=> i \in 1..Len(es) /\ ~es[i].deleted /\ CurName(es[i]) = n

\* As long as nothing is done to a deleted entry it has neither changes nor
\* data; and an entry has new data if that was asked, unless it is a ghost.
DataAsAsked(e, a) ==
    /\ e.deleted => e.changes = NoChanges /\ ~e.source
    /\ ~Ghost(e) => (e.source <=> a.data = "new")

\* ZipArchive deletes nothing, and lists at least what it has added.
ArchiveOnlyGrows ==
    caller.api = "ZipArchive" =>
        /\ ~touched
        /\ Len(entry) <= Len(files)
        /\ \A i \in Indices : ~entry[i].deleted

\* The archive as libzip and ZipArchive keep it between two calls: the types,
\* what each entry will be written as, and the table of names.
EntriesInv ==
    /\ EntriesTypeOK
    /\ EntriesOK(entry, asked)
    /\ KeysInside(entry, hash)
    /\ OrigsKeyed(entry, hash)
    /\ ~touched => /\ NamesFound(entry, hash)
                   /\ \A i \in Indices : DataAsAsked(entry[i], asked[i])
    /\ ArchiveOnlyGrows
    /\ FilesAgree
=============================================================================
