----------------------------- MODULE ZipFormat -----------------------------
(***************************************************************************)
(* The zip file that zip_close writes and zip_open reads back: local       *)
(* headers with their data, the central directory and its end records,     *)
(* with the ZIP64 extensions where a value does not fit its field, and the *)
(* extra fields of entries, which a caller may edit before zip_close.      *)
(*                                                                         *)
(* A file is a sequence of cells.  A fixed-size record, a name, the head   *)
(* of an extra field and each value in it take one cell, and so does each  *)
(* unit of data.  Offsets count from 0.  Fields of 16 and 32 bits hold     *)
(* values up to M16 and M32, so that small files reach their limits.       *)
(* Encryption is not modelled, nor are the time and the CRC of an entry,   *)
(* which the central and the local header get from the same record.        *)
(***************************************************************************)
EXTENDS Integers, Sequences, SequencesExt

CONSTANTS
    M16, M32,    \* ZIP_UINT16_MAX, ZIP_UINT32_MAX
    Growth,      \* how much longer deflated data may be
    Values,      \* what an extra field may hold
    MaxFields,   \* bound on the extra fields of an entry
    Scenarios    \* what is written: entries, archive comment, edits

ASSUME WidthsAssumption == {M16, M32, Growth, MaxFields} \subseteq Nat
ASSUME GrowthAssumption == 2 * Growth < M32 /\ M32 > 1

VARIABLES
    phase,    \* where zip_close, or zip_open after it, is
    ents,     \* the records of the entries that are written
    comment,  \* the cells of the archive comment
    edits,    \* the calls of the extra field functions still to come
    asked,    \* history: the kinds of extra field the last of them was for
    lopsided, \* history: a field of one kind was replaced by one of both
    cur,      \* the entry being written
    file,     \* what has been written
    start,    \* offstart: where its local header is
    is64,     \* what _zip_dirent_write returned for that header
    torn,     \* the end of the file has been lost
    found     \* the directory zip_open has read

vars == <<phase, ents, comment, edits, asked, lopsided, cur, file, start, is64, torn, found>>

-----------------------------------------------------------------------------

\* The elements of a list at the positions in P, in order: what remains of
\* it in a loop that skips the others.
Picked(s, P) ==
    LET upto[k \in 0..Len(s)] ==
            IF k = 0 THEN <<>>
            ELSE IF k \in P THEN Append(upto[k - 1], s[k]) ELSE upto[k - 1]
    IN  upto[Len(s)]

-----------------------------------------------------------------------------
(* Extra fields.  Each is for local headers, the central directory or both. *)

Flags == {{"local"}, {"central"}, {"local", "central"}}
Internal == {"zip64", "uname", "ucomment"}

\* ZIP_EXTRA_FIELD_ALL in place of a position; a size that is not known.
All == 0
Unknown == -1

EfCells(ef) ==
    <<[k |-> "ef", id |-> ef.id, n |-> Len(ef.vals)]>>
        \o [i \in DOMAIN ef.vals |-> [k |-> "val", v |-> ef.vals[i]]]

EfFor(efs, flags) == Picked(efs, {i \in DOMAIN efs : efs[i].for \cap flags # {}})

\* _zip_ef_write
EfWrite(efs, flags) ==
    LET es == EfFor(efs, flags) IN FlattenSeq([i \in DOMAIN es |-> EfCells(es[i])])

\* _zip_ef_size, of 16 bits
EfSize(efs, flags) == Len(EfWrite(efs, flags)) % (M16 + 1)

\* The positions of the fields with an id, or of all, of a kind.
EfPlaces(efs, ids, flags) ==
    Picked([i \in DOMAIN efs |-> i],
           {i \in DOMAIN efs : efs[i].id \in ids /\ efs[i].for \cap flags # {}})

\* The value in a cell; what was not written as one is no value that was.
EfValue(cell) == IF cell.k = "val" THEN cell.v ELSE Unknown

\* _zip_ef_parse
EfParse(cells, flags) ==
    LET from[k \in 0..Len(cells)] ==
            IF k = Len(cells) THEN [ok |-> TRUE, efs |-> <<>>]
            ELSE LET c == cells[k + 1] IN
                 IF c.k # "ef" THEN [ok |-> FALSE, efs |-> <<>>]
                 ELSE IF k + 1 + c.n > Len(cells) THEN [ok |-> FALSE, efs |-> <<>>]
                 ELSE LET rest == from[k + 1 + c.n]
                          vals == [i \in 1..c.n |-> EfValue(cells[k + 1 + i])]
                          ef == [id |-> c.id, vals |-> vals, for |-> flags]
                      IN  [rest EXCEPT !.efs = <<ef>> \o @]
    IN  from[0]

\* _zip_ef_get_by_id, for the first field of that id.
EfGet(efs, id, flags) == LET ps == EfPlaces(efs, {id}, flags) IN efs[ps[1]].vals
EfHas(efs, id, flags) == EfPlaces(efs, {id}, flags) # <<>>

\* _zip_ef_remove_internal
EfRemoveInternal(efs) == Picked(efs, {i \in DOMAIN efs : efs[i].id \notin Internal})

\* _zip_ef_merge: a field that is there already is marked as being of both
\* kinds, another one is appended.
EfMerge(to, from) ==
    LET same(a, b) == a.id = b.id /\ a.vals = b.vals
        upto[k \in 0..Len(from)] ==
            IF k = 0 THEN to
            ELSE LET t == upto[k - 1]
                     S == {i \in DOMAIN t : same(t[i], from[k])}
                     first == CHOOSE i \in S : \A j \in S : i <= j
                 IN  IF S = {} THEN Append(t, from[k])
                     ELSE [t EXCEPT ![first].for = @ \cup from[k].for]
    IN  IF to = <<>> THEN from ELSE upto[Len(from)]

\* A slip in EfDelete: the other kind of a field goes as well.
EfDeleteWhole(efs, ids, which, flags) ==
    LET ps == EfPlaces(efs, ids, flags)
        hit == {ps[i] : i \in {i \in DOMAIN ps : which \in {All, i}}}
        left == [i \in DOMAIN efs |-> IF i \in hit THEN [efs[i] EXCEPT !.for = {}]
                                      ELSE efs[i]]
    IN  Picked(left, {i \in DOMAIN left : left[i].for # {}})

\* _zip_ef_delete_by_id: the kinds asked for are taken from the fields hit,
\* and a field that has none left is removed.
EfDelete(efs, ids, which, flags) ==
    LET ps == EfPlaces(efs, ids, flags)
        hit == {ps[i] : i \in {i \in DOMAIN ps : which \in {All, i}}}
        cut(ef) == [ef EXCEPT !.for = @ \ flags]
        left == [i \in DOMAIN efs |-> IF i \in hit THEN cut(efs[i]) ELSE efs[i]]
    IN  Picked(left, {i \in DOMAIN left : left[i].for # {}})

\* zip_file_extra_field_set replaces the field at a place among those of its
\* id and kind, splitting it if it is of another kind too, or appends one.
EfSet(efs, id, which, vals, flags) ==
    LET ps == EfPlaces(efs, {id}, flags)
        new == [id |-> id, vals |-> vals, for |-> flags]
    IN  IF which \notin DOMAIN ps THEN Append(efs, new)
        ELSE IF efs[ps[which]].for = flags THEN [efs EXCEPT ![ps[which]] = new]
        ELSE InsertAt([efs EXCEPT ![ps[which]].for = @ \ flags], ps[which] + 1, new)

\* A slip in EfNewLen: only local headers are looked at.
EfNewLenLocal(efs, id, which, vals, flags) ==
    LET ps == EfPlaces(efs, {id}, flags)
        gone == IF which \in DOMAIN ps THEN Len(efs[ps[which]].vals) + 1 ELSE 0
    IN  EfSize(efs, {"local"}) + Len(vals) + 1 - gone

\* The length it allows: the longer of the lists it changes, as it will be.
EfNewLen(efs, id, which, vals, flags) ==
    LET ps == EfPlaces(efs, {id}, flags)
        len(f) == IF f \in flags THEN EfSize(efs, {f}) ELSE 0
        longer == IF len("local") > len("central") THEN len("local") ELSE len("central")
        gone == IF which \in DOMAIN ps THEN Len(efs[ps[which]].vals) + 1 ELSE 0
    IN  longer + Len(vals) + 1 - gone

-----------------------------------------------------------------------------
(* Texts: bytes, each of a class ("a" for ASCII, 2, 3 and 4 for the first  *)
(* byte of a UTF-8 sequence of that length, "c" for one that continues it, *)
(* "x" for any other), and what is known of their encoding.                *)

NoText == [v |-> <<>>, enc |-> "ascii"]
Lead == [b \in {"2", "3", "4"} |-> CASE b = "2" -> 1 [] b = "3" -> 2 [] b = "4" -> 3]

\* What the bytes are, in _zip_guess_encoding: ASCII, CP437, or something
\* that may be UTF-8.
Guess(v) ==
    LET sequence(i) ==
            /\ v[i] \in DOMAIN Lead
            /\ i + Lead[v[i]] <= Len(v)
            /\ \A j \in i + 1..i + Lead[v[i]] : v[j] = "c"
        from[i \in 1..Len(v) + 1] ==
            IF i > Len(v) THEN "ascii"
            ELSE IF v[i] = "a" THEN from[i + 1]
            ELSE IF ~sequence(i) \/ from[i + Lead[v[i]] + 1] = "cp437" THEN "cp437"
            ELSE "guessed"
    IN  from[1]

\* _zip_guess_encoding: the encoding a text has, "error" if it is not the
\* one expected.
GuessEncoding(t, expected) ==
    LET enc == IF t.enc = "unknown" THEN Guess(t.v) ELSE t.enc
        now == IF expected = "utf8" /\ enc = "guessed" THEN "utf8" ELSE enc
    IN  IF expected \notin {"unknown", now} /\ now # "ascii" THEN "error" ELSE now

\* _zip_string_new; nothing is known of a text that is just read.
StringNew(v, expected) ==
    IF v = <<>> THEN NoText
    ELSE [v |-> v, enc |-> IF expected = "unknown" THEN "unknown"
                           ELSE GuessEncoding([v |-> v, enc |-> "unknown"], expected)]

-----------------------------------------------------------------------------
(* _zip_dirent_write.                                                      *)

IsLocal(flags) == "local" \in flags

\* _zip_dirent_needs_zip64
NeedsZip64(de, flags) ==
    de.uncomp >= M32 \/ de.comp >= M32 \/ (~IsLocal(flags) /\ de.offset >= M32)

Exceeds(de, flags) ==
    de.uncomp > M32 \/ de.comp > M32 \/ (~IsLocal(flags) /\ de.offset > M32)

WritesZip64(de, flags) == (IsLocal(flags) /\ de.force) \/ NeedsZip64(de, flags)

\* The values of the ZIP64 field.  It stays empty when a value is exactly
\* M32 and none exceeds it.
Zip64Values(de, flags) ==
    LET all == <<de.uncomp, de.comp, de.offset>>
    IN  IF IsLocal(flags)
        THEN IF de.force \/ Exceeds(de, flags) THEN <<de.uncomp, de.comp>> ELSE <<>>
        ELSE IF Exceeds(de, flags) THEN Picked(all, {i \in 1..3 : all[i] >= M32})
        ELSE <<>>

\* Bit 11 says that name and comment are UTF-8; when it cannot be set for
\* both, a field of its own holds the one that is.
Encodings(de) == {GuessEncoding(de.name, "unknown"), GuessEncoding(de.comment, "unknown")}

Utf8Bit(de) == "utf8" \in Encodings(de) /\ Encodings(de) \subseteq {"ascii", "utf8"}

\* _zip_ef_utf8: the text once more, and what it was made from.
EfUtf8(id, t, flags) == <<[id |-> id, vals |-> <<t.v, t.v>>, for |-> flags]>>

Utf8Fields(de, flags) ==
    IF Utf8Bit(de) THEN <<>>
    ELSE (IF de.comment.enc = "utf8" /\ ~IsLocal(flags)
          THEN EfUtf8("ucomment", de.comment, flags) ELSE <<>>)
         \o (IF de.name.enc = "utf8" THEN EfUtf8("uname", de.name, flags) ELSE <<>>)

InternalFields(de, flags) ==
    (IF WritesZip64(de, flags)
     THEN <<[id |-> "zip64", vals |-> Zip64Values(de, flags), for |-> flags]>>
     ELSE <<>>) \o Utf8Fields(de, flags)

Capped(x) == IF x < M32 THEN x ELSE M32

SizeFields(de, flags) ==
    IF IsLocal(flags) /\ (de.comp >= M32 \/ de.uncomp >= M32)
    THEN [comp |-> M32, uncomp |-> M32]
    ELSE [comp |-> Capped(de.comp), uncomp |-> Capped(de.uncomp)]

\* _zip_string_write: the bytes, in one cell.
StringWrite(t) == IF t.v = <<>> THEN <<>> ELSE <<[k |-> "text", v |-> t.v]>>

\* The cells of a header: its fixed part, whose length fields wrap at 16 bits,
\* the name (a cell even when it is empty), the extra fields and the comment.
HeaderFields(de, flags) ==
    EfWrite(InternalFields(de, flags), flags) \o EfWrite(de.efs, flags)

HeaderComment(de, flags) == IF IsLocal(flags) THEN <<>> ELSE StringWrite(de.comment)

HeaderStart(de, flags) ==
    LET sizes == SizeFields(de, flags)
        eflen == (EfSize(InternalFields(de, flags), flags) + EfSize(de.efs, flags))
                     % (M16 + 1)
    IN  [k |-> IF IsLocal(flags) THEN "local" ELSE "central",
         comp |-> sizes.comp, uncomp |-> sizes.uncomp,
         offset |-> IF IsLocal(flags) THEN 0 ELSE Capped(de.offset),
         ver |-> IF NeedsZip64(de, flags) THEN 45 ELSE de.ver,
         utf8 |-> Utf8Bit(de), eflen |-> eflen, comlen |-> Len(HeaderComment(de, flags))]

Header(de, flags) ==
    <<HeaderStart(de, flags)>> \o <<[k |-> "text", v |-> de.name.v]>>
        \o HeaderFields(de, flags) \o HeaderComment(de, flags)

Local == {"local"}
Central == {"central"}

-----------------------------------------------------------------------------
(* Writing.                                                                *)

TextRecords ==
    [v : Seq({"a", "2", "3", "4", "c", "x"}),
     enc : {"unknown", "ascii", "cp437", "guessed", "utf8"}]

\* The records of entries: kind says whether there is data to add, stat and
\* actual what zip_source_stat says of its size and how long it is.
Dirents ==
    [kind : {"add", "copy"}, stat : Nat \cup {Unknown}, actual : Nat,
     method : {"store", "deflate"}, stale : Nat, comp : Nat, uncomp : Nat, offset : Nat,
     name : TextRecords, comment : TextRecords,
     efs : Seq([id : {"x", "y"}, vals : Values, for : Flags]),
     ver : Nat, force : BOOLEAN, nested : BOOLEAN]

\* What an archive without entries consists of, and may end other data.
EmptyEnd == [k |-> "eocd", n |-> 0, size |-> 0, offset |-> 0, comlen |-> 0]

IsList(s) == Len(s) \in Nat /\ s = [i \in 1..Len(s) |-> s[i]]

\* A text as _zip_string_new makes it.
Accepted(t) ==
    t.enc # "error" /\ \E e \in {"unknown", "utf8", "cp437"} : t = StringNew(t.v, e)

\* What the values of extra fields consist of.
Units == UNION {Range(v) : v \in Values}

ASSUME ValuesAssumption == Values \subseteq Seq(Units)

\* The record of an entry that gets new data was cloned from that of the old,
\* with its compressed size.  Extra fields come from headers, where 16 bits
\* give their length, and so they do for the comment.  Texts are what
\* _zip_string_new has accepted.
ASSUME ScenariosAssumption ==
    \A s \in Scenarios :
        /\ s.ents \in Seq(Dirents)
        /\ s.comment \in Seq({[k |-> "byte"], EmptyEnd}) /\ Len(s.comment) <= M16
        /\ \A i \in DOMAIN s.ents :
              /\ s.ents[i].kind = "add" => s.ents[i].comp = s.ents[i].stale
              /\ \A k \in {"local", "central"} : Len(EfWrite(s.ents[i].efs, {k})) <= M16
              /\ Accepted(s.ents[i].name) /\ Accepted(s.ents[i].comment)

Init ==
    /\ phase = "edit"
    /\ \E s \in Scenarios :
          ents = s.ents /\ comment = s.comment /\ edits = s.edits
    /\ asked = {}
    /\ lopsided = FALSE
    /\ cur = 1
    /\ file = <<[k |-> "prefix"]>>
    /\ start = 0
    /\ is64 = FALSE
    /\ torn = FALSE
    /\ found = <<>>

\* zip_file_extra_field_set on the first entry, at a place or as a new one.
ExtraFieldSet(id, which, vals, flags) ==
    LET efs == ents[1].efs
        ps == EfPlaces(efs, {id}, flags)
    IN  /\ phase = "edit" /\ edits > 0
        /\ Len(efs) < MaxFields
        /\ which \in 1..Len(ps) + 1
        /\ EfNewLen(efs, id, which, vals, flags) <= M16
        /\ ents' = [ents EXCEPT ![1].efs = EfSet(efs, id, which, vals, flags)]
        /\ asked' = flags
        /\ lopsided' = \/ lopsided
                       \/ /\ which \in DOMAIN ps
                          /\ flags = {"local", "central"} /\ flags # efs[ps[which]].for
        /\ edits' = edits - 1
        /\ UNCHANGED <<phase, comment, cur, file, start, is64, torn, found>>

\* zip_file_extra_field_delete_by_id, and zip_file_extra_field_delete for
\* every id; of both kinds only all at once.
ExtraFieldDelete(ids, which, flags) ==
    /\ phase = "edit" /\ edits > 0
    /\ flags = {"local", "central"} => which = All
    /\ ents' = [ents EXCEPT ![1].efs = EfDelete(@, ids, which, flags)]
    /\ asked' = flags
    /\ edits' = edits - 1
    /\ UNCHANGED <<phase, comment, lopsided, cur, file, start, is64, torn, found>>

\* zip_close is called, and has something to write.
StartClose ==
    /\ phase = "edit"
    /\ phase' = "head"
    /\ UNCHANGED <<ents, comment, edits, asked, lopsided, cur, file, start, is64, torn, found>>

\* max_size in add_data: what deflates to less than M32 whatever it is.
MaxSize(method) == IF method = "deflate" THEN M32 - 1 - Growth ELSE M32

\* A slip in Prepared: the size is compared with M32, not with what the data
\* may grow to.
PreparedNoGrowth(de) ==
    [de EXCEPT !.uncomp = IF de.stat = Unknown THEN @ ELSE de.stat,
               !.comp = IF de.stat # Unknown /\ de.method = "store" THEN de.stat ELSE @,
               !.force = IF de.stat = Unknown THEN TRUE ELSE de.stat > M32]

\* add_data before the data is written: sizes as far as they are known, and
\* whether the header must have room for larger ones.  A compressed size
\* that is not known stays what the record was cloned with.
Prepared(de) ==
    LET known == de.stat # Unknown
    IN  [de EXCEPT
            !.uncomp = IF known THEN de.stat ELSE @,
            !.comp = IF known /\ de.method = "store" THEN de.stat ELSE @,
            !.force = IF ~known THEN TRUE
                      ELSE de.method = "deflate" /\ de.stat > MaxSize(de.method)]

\* add_data writes a preliminary header.
WriteHead ==
    /\ phase = "head"
    /\ cur <= Len(ents)
    /\ ents[cur].kind = "add"
    /\ LET de == [Prepared(ents[cur]) EXCEPT !.offset = Len(file)]
       IN  /\ ents' = [ents EXCEPT ![cur] = de]
           /\ start' = Len(file)
           /\ is64' = WritesZip64(de, Local)
           /\ file' = file \o Header(de, Local)
    /\ phase' = "data"
    /\ UNCHANGED <<comment, edits, asked, lopsided, cur, torn, found>>

DataCells(i, n) == [j \in 1..n |-> [k |-> "data", v |-> i]]

\* Stored data that is itself such an archive ends like one.
DataOf(i, n) ==
    IF ents[i].nested /\ n > 0 THEN Append(DataCells(i, n - 1), EmptyEnd)
    ELSE DataCells(i, n)

\* What zlib may make of data.
Lengths(de) == IF de.method = "store" THEN {de.actual} ELSE 1..de.actual + Growth

\* copy_source: deflated data is shorter or longer than what it is made of.
CopySource ==
    /\ phase = "data"
    /\ \E n \in Lengths(ents[cur]) :
          /\ file' = file \o DataOf(cur, n)
          /\ ents' = [ents EXCEPT ![cur].comp = n, ![cur].uncomp = ents[cur].actual]
    /\ phase' = "final"
    /\ UNCHANGED <<comment, edits, asked, lopsided, cur, start, is64, torn, found>>

\* _zip_dirent_set_version_needed
Versioned(de) ==
    [de EXCEPT !.ver = IF de.force \/ NeedsZip64(de, Local) THEN 45
                       ELSE IF de.method = "deflate" THEN 20 ELSE 10]

\* zip_source_write at an offset in the middle of the file.
Overwrite(f, at, cells) ==
    [i \in 1..Len(f) |-> IF i \in at + 1..at + Len(cells) THEN cells[i - at] ELSE f[i]]

\* A slip in WriteFinal: the two headers are not compared.
WriteFinalAnyway ==
    /\ phase = "final"
    /\ LET de == Versioned(ents[cur])
       IN  /\ ents' = [ents EXCEPT ![cur] = de]
           /\ file' = Overwrite(file, start, Header(de, Local))
    /\ phase' = "head"
    /\ cur' = cur + 1
    /\ UNCHANGED <<comment, edits, asked, lopsided, start, is64, torn, found>>

\* add_data writes the header once more over the first, and only then finds
\* out whether it has the same form.
WriteFinal ==
    /\ phase = "final"
    /\ LET de == Versioned(ents[cur])
       IN  /\ ents' = [ents EXCEPT ![cur] = de]
           /\ file' = Overwrite(file, start, Header(de, Local))
           /\ phase' = IF WritesZip64(de, Local) = is64 THEN "head" ELSE "failed"
    /\ cur' = cur + 1
    /\ UNCHANGED <<comment, edits, asked, lopsided, start, is64, torn, found>>

\* An entry whose data stays is copied with its sizes known.
CopyEntry ==
    /\ phase = "head"
    /\ cur <= Len(ents)
    /\ ents[cur].kind = "copy"
    /\ LET de == [ents[cur] EXCEPT !.offset = Len(file)]
       IN  /\ ents' = [ents EXCEPT ![cur] = de]
           /\ file' = file \o Header(de, Local) \o DataOf(cur, de.comp)
    /\ cur' = cur + 1
    /\ UNCHANGED <<phase, comment, edits, asked, lopsided, start, is64, torn, found>>

\* A slip in EndRecords: the number of entries alone asks for no ZIP64.
EndRecordsByOffset(n, offset, size) ==
    LET any64 == offset > M32 \/ \E i \in DOMAIN ents : WritesZip64(ents[i], Central)
    IN  (IF any64
         THEN <<[k |-> "eocd64", n |-> n, size |-> size, offset |-> offset],
                [k |-> "loc64", at |-> offset + size]>>
         ELSE <<>>)
        \o <<[k |-> "eocd", n |-> IF n < M16 THEN n ELSE M16, size |-> Capped(size),
              offset |-> Capped(offset), comlen |-> Len(comment)]>>

\* The end of _zip_cdir_write.
EndRecords(n, offset, size) ==
    LET any64 == \/ offset > M32 \/ n > M16
                 \/ \E i \in DOMAIN ents : WritesZip64(ents[i], Central)
    IN  (IF any64
         THEN <<[k |-> "eocd64", n |-> n, size |-> size, offset |-> offset],
                [k |-> "loc64", at |-> offset + size]>>
         ELSE <<>>)
        \o <<[k |-> "eocd", n |-> IF n < M16 THEN n ELSE M16, size |-> Capped(size),
              offset |-> Capped(offset), comlen |-> Len(comment)]>>

\* _zip_cdir_write
WriteCdir ==
    /\ phase = "head"
    /\ cur > Len(ents)
    /\ LET cdir == FlattenSeq([i \in DOMAIN ents |-> Header(ents[i], Central)])
       IN  file' = file \o cdir \o EndRecords(Len(ents), Len(file), Len(cdir)) \o comment
    /\ phase' = "written"
    /\ UNCHANGED <<ents, comment, edits, asked, lopsided, cur, start, is64, torn, found>>

\* The end of the file is lost: fclose failed, and the file was kept.
Tear(n) ==
    /\ phase = "written"
    /\ ~torn
    /\ file' = SubSeq(file, 1, n)
    /\ torn' = TRUE
    /\ UNCHANGED <<phase, ents, comment, edits, asked, lopsided, cur, start, is64, found>>

-----------------------------------------------------------------------------
(* Reading.                                                                *)

NoZip == [ok |-> FALSE]

Cell(at) == IF at < Len(file) THEN file[at + 1] ELSE [k |-> "end"]

\* Whether the cells from at on are there, and which they are.
Within(at, n, end) == at + n <= end /\ end <= Len(file)
Cells(at, n) == SubSeq(file, at + 1, at + n)

\* A field that holds M32 gets its value from the ZIP64 field, where they
\* are in order; in a local header both sizes are there.  The header is
\* refused if there is no such field, or values are missing or left over.
Zip64Taken(h, v, flags) ==
    LET first == IF IsLocal(flags) \/ h.uncomp = M32 THEN 1 ELSE 0
        second == IF h.comp = M32 THEN first + 1 ELSE first
        third == IF ~IsLocal(flags) /\ h.offset = M32 THEN second + 1 ELSE second
    IN  IF Len(v) # third THEN NoZip
        ELSE [ok |-> TRUE,
              uncomp |-> IF h.uncomp = M32 THEN v[first] ELSE h.uncomp,
              comp |-> IF h.comp = M32 THEN v[second] ELSE h.comp,
              offset |-> IF ~IsLocal(flags) /\ h.offset = M32 THEN v[third] ELSE h.offset]

Zip64Read(h, efs, flags) ==
    IF M32 \notin {h.uncomp, h.comp, h.offset}
    THEN [ok |-> TRUE, uncomp |-> h.uncomp, comp |-> h.comp, offset |-> h.offset]
    ELSE IF ~EfHas(efs, "zip64", flags) THEN NoZip
    ELSE Zip64Taken(h, EfGet(efs, "zip64", flags), flags)

\* _zip_dirent_process_ef_utf_8: the field counts if it was made from the
\* text it stands next to.
ProcessUtf8(t, efs, id, flags) ==
    IF EfHas(efs, id, flags) /\ EfGet(efs, id, flags)[1] = t.v
    THEN StringNew(EfGet(efs, id, flags)[2], "utf8")
    ELSE t

\* _zip_read_string, and the check of a text that is marked as UTF-8.
ReadString(v, bit) ==
    IF bit THEN [v |-> v, enc |-> GuessEncoding([v |-> v, enc |-> "unknown"], "utf8")]
    ELSE StringNew(v, "unknown")

\* The parts of _zip_dirent_read: its texts and fields once they are read,
\* the parts of variable length, and the fixed part, from a buffer that ends
\* at end.
DirentMade(h, name, com, efs, z, flags) ==
    IF ~z.ok \/ "error" \in {name.enc, com.enc} THEN NoZip
    ELSE [ok |-> TRUE, len |-> 2 + h.eflen + h.comlen, ver |-> h.ver,
          uncomp |-> z.uncomp, comp |-> z.comp, offset |-> z.offset,
          name |-> ProcessUtf8(name, efs, "uname", flags),
          comment |-> ProcessUtf8(com, efs, "ucomment", flags),
          efs |-> EfRemoveInternal(efs)]

DirentFields(h, name, com, ef, flags) ==
    IF ~ef.ok \/ name.k # "text" \/ (h.comlen > 0 /\ com.k # "text") THEN NoZip
    ELSE DirentMade(h, ReadString(name.v, h.utf8),
                    IF h.comlen = 0 THEN NoText ELSE ReadString(com.v, h.utf8), ef.efs,
                    Zip64Read(h, ef.efs, flags), flags)

DirentVariable(h, at, flags, end) ==
    IF ~Within(at, 2 + h.eflen + h.comlen, end) THEN NoZip
    ELSE DirentFields(h, Cell(at + 1), Cell(at + 2 + h.eflen),
                      EfParse(Cells(at + 2, h.eflen), flags), flags)

DirentRead(at, flags, end) ==
    IF at >= end \/ Cell(at).k # (IF IsLocal(flags) THEN "local" ELSE "central") THEN NoZip
    ELSE DirentVariable(Cell(at), at, flags, end)

\* CDBUFSIZE: how much of its end is searched, and where that starts.
BufSize == (M16 + 1) + 2
BufOffset == IF Len(file) < BufSize THEN 0 ELSE Len(file) - BufSize

\* The directory an end record claims.
Claimed(e, limit, zip64) ==
    IF e.offset + e.size > limit THEN NoZip
    ELSE [ok |-> TRUE, n |-> e.n, size |-> e.size, offset |-> e.offset, zip64 |-> zip64]

\* _zip_read_eocd; and _zip_read_eocd64, whose limit has the offset of the
\* buffer added once too often.
ReadEocd(at) == Claimed(Cell(at), at, FALSE)

ReadEocd64(at) ==
    IF Cell(at).at + 1 > at \/ Cell(Cell(at).at).k # "eocd64" THEN NoZip
    ELSE Claimed(Cell(Cell(at).at), BufOffset + Cell(at).at, TRUE)

\* One more entry of a directory.  Finding more than the end record says is
\* InfoZIP's way of counting modulo 2^16: there have to be that many more.
ReadOne(s, d) ==
    IF ~d.ok THEN [s EXCEPT !.ok = FALSE]
    ELSE [s EXCEPT !.at = @ + d.len, !.es = Append(@, d),
                   !.n = IF Len(s.es) = s.n THEN @ + M16 + 1 ELSE @]

ReadMore(s, cd, end) ==
    IF ~s.ok \/ s.at = end \/ (Len(s.es) = s.n /\ cd.zip64) THEN s
    ELSE ReadOne(s, DirentRead(s.at, Central, end))

EntriesOf(cd, all) ==
    IF all.ok /\ Len(all.es) = all.n /\ all.at = cd.offset + cd.size
    THEN [ok |-> TRUE, offset |-> cd.offset, es |-> all.es] ELSE NoZip

\* The entries of a directory, until its size is used up.
ReadEntries(cd) ==
    LET upto[i \in 0..cd.size] ==
            IF i = 0 THEN [ok |-> TRUE, at |-> cd.offset, es |-> <<>>, n |-> cd.n]
            ELSE ReadMore(upto[i - 1], cd, cd.offset + cd.size)
    IN  EntriesOf(cd, upto[cd.size])

ReadClaimed(cd, at, tail, comlen, check) ==
    IF ~cd.ok THEN NoZip
    ELSE IF cd.offset + cd.size > at THEN NoZip
    ELSE IF tail < comlen \/ (check /\ tail # comlen) THEN NoZip
    ELSE ReadEntries(cd)

\* A slip in ReadCdir: a comment that is not all there is taken as it is.
ReadCdirNoTail(at, check) ==
    ReadClaimed(IF at >= 1 /\ Cell(at - 1).k = "loc64" THEN ReadEocd64(at - 1)
                ELSE ReadEocd(at), at, Cell(at).comlen, Cell(at).comlen, check)

\* _zip_read_cdir, for an end record; check is ZIP_CHECKCONS.
ReadCdir(at, check) ==
    ReadClaimed(IF at >= 1 /\ Cell(at - 1).k = "loc64" THEN ReadEocd64(at - 1)
                ELSE ReadEocd(at), at, Len(file) - (at + 1), Cell(at).comlen, check)

\* _zip_headercomp
HeaderComp(c, l) ==
    /\ l.ok
    /\ c.ver >= l.ver
    /\ c.name.v = l.name.v
    /\ c.comp = l.comp /\ c.uncomp = l.uncomp

\* _zip_read_local_ef looks at nothing but the lengths and the fields.
LocalEf(d) ==
    IF Cell(d.offset).k # "local" THEN [ok |-> FALSE, efs |-> <<>>]
    ELSE IF ~Within(d.offset + 2, Cell(d.offset).eflen, Len(file))
    THEN [ok |-> FALSE, efs |-> <<>>]
    ELSE EfParse(Cells(d.offset + 2, Cell(d.offset).eflen), Local)

\* _zip_file_get_offset: where the data of an entry starts.
FileGetOffset(d) == d.offset + 2 + Cell(d.offset).eflen

\* _zip_checkcons: how much of the file the entries span, 0 if they do not
\* agree with their local headers (libzip's -1 and up, from 0 here).
CheckCons(cd) ==
    LET starts == {e.offset : e \in Range(cd.es)}
        ends == {e.offset + e.comp + 2 : e \in Range(cd.es)}
    IN  IF /\ \A x \in ends : x <= cd.offset
           /\ \A e \in Range(cd.es) : HeaderComp(e, DirentRead(e.offset, Local, Len(file)))
        THEN IF cd.es = <<>> THEN 1 ELSE 1 + Max(ends) - Min(starts)
        ELSE 0

Best(s, best, new, a) == IF best < a THEN [best |-> a, cd |-> new] ELSE [s EXCEPT !.best = best]

\* Of several directories the one that spans most of the file consistently
\* is taken; a single one is only checked if that is asked for.
Candidate(s, new, check) ==
    IF ~new.ok THEN s
    ELSE IF ~s.cd.ok THEN [best |-> IF check THEN CheckCons(new) ELSE 1, cd |-> new]
    ELSE Best(s, IF s.best <= 1 THEN CheckCons(s.cd) ELSE s.best, new, CheckCons(new))

\* _zip_find_central_dir: every end record in the last BufSize cells that
\* reads as a directory is a candidate.
FindCentralDir(check) ==
    LET lo == IF Len(file) < BufSize THEN 0 ELSE BufOffset + 1
        ends == Picked([i \in 1..Len(file) |-> i - 1],
                       {i \in 1..Len(file) : i - 1 >= lo /\ Cell(i - 1).k = "eocd"})
        pick[k \in 0..Len(ends)] ==
            IF k = 0 THEN [best |-> 0, cd |-> NoZip]
            ELSE Candidate(pick[k - 1], ReadCdir(ends[k], check), check)
    IN  pick[Len(ends)]

\* zip_open.  _zip_checkcons, or _zip_read_local_ef when they are asked for,
\* adds the fields of local headers to the others.
Open(check) ==
    /\ phase = "written"
    /\ \E r \in {FindCentralDir(check)} :
          IF r.best = 0 THEN phase' = "rejected" /\ found' = <<>>
          ELSE /\ phase' = "opened"
               /\ found' = [i \in DOMAIN r.cd.es |->
                     [r.cd.es[i] EXCEPT
                         !.efs = EfMerge(@, EfRemoveInternal(LocalEf(r.cd.es[i]).efs))]]
    /\ UNCHANGED <<ents, comment, edits, asked, lopsided, cur, file, start, is64, torn>>

-----------------------------------------------------------------------------

Next ==
    \/ \E id \in {"x", "y"}, which \in 1..2, vals \in Values, f \in Flags :
          ExtraFieldSet(id, which, vals, f)
    \/ \E ids \in {{"x"}, {"x", "y"}}, which \in {All, 1, 2}, f \in Flags :
          ExtraFieldDelete(ids, which, f)
    \/ StartClose \/ WriteHead \/ CopySource \/ WriteFinal \/ CopyEntry \/ WriteCdir
    \/ \E n \in 0..Len(file) - 1 : Tear(n)
    \/ \E check \in BOOLEAN : Open(check)

Spec == Init /\ [][Next]_vars

-----------------------------------------------------------------------------
(* Properties.                                                             *)

\* The record a caller sees of one kind: what is in each field, in any order.
Seen(efs, kind) == {<<ef.id, ef.vals>> : ef \in Range(EfFor(efs, {kind}))}

\* A value is exactly M32 and none is greater: the ZIP64 field is empty.
AtBoundary(de, flags) ==
    /\ WritesZip64(de, flags)
    /\ Zip64Values(de, flags) = <<>>

\* A field of both kinds took the place of a larger one of one kind, or the
\* fields libzip adds itself do not fit next to those of the caller.
FieldsOverflow(de, flags) ==
    Len(EfWrite(InternalFields(de, flags), flags)) + Len(EfWrite(de.efs, flags)) > M16

\* Data that is not as long as it was said to be, when that was M32, or when
\* the old compressed size was: the first header has an empty ZIP64 field and
\* the second a full one, without is_zip64 changing.
ResizedAtBoundary(de) ==
    /\ de.kind = "add" /\ de.stat \notin {Unknown, de.actual}
    /\ IF de.method = "store" THEN de.stat = M32 ELSE de.stale = M32

\* An entry that is copied needs a later version than ZIP64 does, and only
\* its central header needs ZIP64: that one names the earlier version.
VersionLowered(de) == de.ver > 45 /\ NeedsZip64(de, Central) /\ ~NeedsZip64(de, Local)

Irregular(de) ==
    \/ ResizedAtBoundary(de)
    \/ VersionLowered(de)
    \/ \E flags \in {Local, Central} : AtBoundary(de, flags) \/ FieldsOverflow(de, flags)

\* A central directory that is too large while nothing else asks for ZIP64.
CdirTooLarge ==
    /\ \A i \in DOMAIN ents : ~WritesZip64(ents[i], Central)
    /\ \E i \in DOMAIN file :
          file[i].k = "eocd" /\ file[i].size = M32 /\ file[i].offset + M32 < i - 1

Regular == ~CdirTooLarge /\ \A i \in DOMAIN ents : ~Irregular(ents[i])

\* Something in the file that looks like the end of another archive.
Decoy ==
    \/ \E i \in DOMAIN ents : ents[i].nested
    \/ \E i \in DOMAIN comment : comment[i].k = "eocd"

\* What zip_close wrote is what zip_open finds: the same entries, in order,
\* with their sizes, names, comments and extra fields, and the data of each
\* where its local header ends, with and without ZIP64, and whatever in the
\* data or in the archive comment looks like the end of an archive.
RoundTrip ==
    phase = "opened" /\ ~torn /\ Regular =>
        /\ Len(found) = Len(ents)
        /\ \A i \in DOMAIN ents :
              LET d == found[i]
                  de == ents[i]
                  at == FileGetOffset(d)
              IN  /\ <<d.comp, d.uncomp, d.offset>> = <<de.comp, de.uncomp, de.offset>>
                  /\ \A t \in {<<d.name, de.name>>, <<d.comment, de.comment>>} :
                        /\ t[1].v = t[2].v
                        /\ t[2].enc = "utf8" => t[1].enc = "utf8"
                  /\ \A k \in {"local", "central"} : Seen(d.efs, k) = Seen(de.efs, k)
                  /\ \A j \in 0..de.comp - 1 :
                        LET c == Cell(at + j) IN
                        IF de.nested /\ j = de.comp - 1 THEN c.k = "eocd"
                        ELSE c.k = "data" /\ c.v = i

\* zip_open, consistency check included, takes every file zip_close has
\* finished, unless a value hits a limit that the code does not handle.
NotRefused == phase = "rejected" /\ ~torn => ~Regular

\* A file that has lost its end, be it one byte of its comment, is refused.
TornRefused == phase = "opened" /\ torn => Decoy

\* add_data gives up because the header changed its form only if the data
\* was not what zip_source_stat said, or if it replaces data so large that
\* the compressed size in the cloned record asked for ZIP64.
NoMismatch ==
    phase = "failed" =>
        LET de == ents[cur - 1] IN
        \/ de.stat # de.actual
        \/ de.method = "deflate" /\ de.stale >= M32

\* The extra fields a caller may set fit a header of either kind.
FieldsFit ==
    ~lopsided => \A i \in DOMAIN ents, k \in {"local", "central"} :
                    Len(EfWrite(ents[i].efs, {k})) <= M16

\* Setting or deleting extra fields of one kind leaves those of the other.
OtherKindStays ==
    [][\A k \in {"local", "central"} \ asked' :
          ents # <<>> => EfWrite(ents'[1].efs, {k}) = EfWrite(ents[1].efs, {k})]_ents

\* What a comment in _zip_dirent_write says: a ZIP64 field in a local header
\* has both sizes.
LocalZip64Complete ==
    phase = "written" => \A i \in DOMAIN file :
        file[i].k = "local" /\ file[i].eflen > 0 /\ Cell(i + 1).k = "ef"
            => (Cell(i + 1).id = "zip64" => Cell(i + 1).n = 2)

-----------------------------------------------------------------------------
(* What the proofs need: how the record that is being written, and is64, go *)
(* together while add_data is at work.                                      *)

SizedRecord(de) ==
    /\ {"kind", "stat", "actual", "method", "stale", "comp", "uncomp", "offset", "name",
        "comment", "efs", "ver", "force", "nested"} \subseteq DOMAIN de
    /\ de.stat \in Nat \cup {Unknown}
    /\ {de.actual, de.stale, de.comp, de.uncomp} \subseteq Nat
    /\ de.method \in {"store", "deflate"}
    /\ de.force \in BOOLEAN

\* The entries are records, and the ones still to be written have the
\* compressed size that they were cloned with.
RecordsKept ==
    /\ cur \in Nat \ {0} /\ is64 \in BOOLEAN
    /\ Len(ents) \in Nat /\ DOMAIN ents = 1..Len(ents)
    /\ \A i \in DOMAIN ents :
          /\ SizedRecord(ents[i])
          /\ ents[i].kind = "add" /\ (i > cur \/ (i = cur /\ phase \in {"edit", "head"}))
                => ents[i].comp = ents[i].stale

\* The force flag and the form of the first header are what the size that
\* zip_source_stat gave, and the compressed size before, ask for.
HeadFollowsStat ==
    phase \in {"data", "final"} =>
        /\ cur \in DOMAIN ents
        /\ LET de == ents[cur] IN
           de.stat # Unknown =>
              /\ de.force <=> de.method = "deflate" /\ de.stat > MaxSize("deflate")
              /\ is64 <=> \/ de.force \/ de.stat >= M32
                          \/ de.method = "deflate" /\ de.stale >= M32

\* The sizes copy_source found.
DataSized ==
    phase = "final" =>
        ents[cur].uncomp = ents[cur].actual /\ ents[cur].comp \in Lengths(ents[cur])

FormatInv == RecordsKept /\ HeadFollowsStat /\ DataSized /\ NoMismatch

\* The fields of an entry are a list of fields.  One that is of no kind any
\* more may stay in it: EfSet takes the kind of a field without removing it.
Kinds == {"local", "central"}
Fields(I, V) == [id : I, vals : Seq(V), for : SUBSET Kinds]
FieldsKept == \A i \in DOMAIN ents : ents[i].efs \in Seq(Fields({"x", "y"}, Units))

FieldsInv == FieldsKept /\ FieldsFit

\* Where nothing else looks like an end record, there is none before the
\* directory is written, then one with its comment behind it, and when the
\* end of the file is lost one whose comment is not all there, or none.
FileKept == IsList(file) /\ IsList(comment) /\ start \in Nat

EndIsLast ==
    ~Decoy =>
        /\ phase \in {"edit", "head", "data", "final"} =>
              ~torn /\ \A i \in DOMAIN file : file[i].k # "eocd"
        /\ \A i \in DOMAIN file : file[i].k = "eocd" =>
              /\ file[i].comlen \in Nat
              /\ IF torn THEN i + file[i].comlen > Len(file)
                 ELSE i + file[i].comlen = Len(file)

TornInv == FileKept /\ EndIsLast /\ TornRefused

\* What else does not change, or only to what it may be.
PartsKept ==
    /\ comment \in Seq({[k |-> "byte"], EmptyEnd}) /\ Len(comment) <= M16
    /\ \A i \in DOMAIN ents :
          /\ ents[i].offset \in Nat /\ ents[i].ver \in Nat
          /\ Accepted(ents[i].name) /\ Accepted(ents[i].comment)

\* The file has these cells from an offset on.
Holds(f, at, cells) ==
    at + Len(cells) <= Len(f) /\ \A i \in 1..Len(cells) : f[at + i] = cells[i]

\* An entry is before some offset, its header and its data where its record
\* says, and all that are written are, unless a limit was hit.
Stored(i, limit) ==
    LET de == ents[i]
        at == de.offset + Len(Header(de, Local))
    IN  /\ at + de.comp <= limit
        /\ Holds(file, de.offset, Header(de, Local))
        /\ Holds(file, at, DataOf(i, de.comp))

StoredTo(limit) ==
    \A i \in DOMAIN ents : i < cur /\ ~Irregular(ents[i]) => Stored(i, limit)

\* The record as it was when its first header was written.
FirstForm(de) ==
    IF de.stat = Unknown THEN de
    ELSE [de EXCEPT !.uncomp = de.stat,
                    !.comp = IF de.method = "store" THEN de.stat ELSE de.stale]

\* No end record but the one of an archive inside an entry.
NoEnds(limit) ==
    \A i \in 1..limit :
        file[i].k # "loc64" /\ (file[i].k = "eocd" => file[i] = EmptyEnd /\ Len(ents) > 0)

\* The entries so far, and the one that is being written behind them.
WrittenSoFar ==
    /\ phase = "edit" => cur = 1
    /\ phase \in {"edit", "head", "data", "final"} =>
          /\ ~torn /\ NoEnds(Len(file))
          /\ StoredTo(IF phase \in {"data", "final"} THEN start ELSE Len(file))
    /\ phase \in {"data", "final"} =>
          LET de == ents[cur]
              at == start + Len(Header(FirstForm(de), Local))
          IN  /\ de.kind = "add" /\ de.offset = start
              /\ de.stat = Unknown => de.force
              /\ phase = "data" => Len(file) = at
              /\ phase = "final" => Len(file) = at + de.comp /\ Holds(file, at, DataOf(cur, de.comp))

Cdir == FlattenSeq([i \in DOMAIN ents |-> Header(ents[i], Central)])

\* Behind the entries is the directory, its end records and the comment.
DirectoryAt(n) ==
    LET recs == EndRecords(Len(ents), n, Len(Cdir))
        at == n + Len(Cdir)
    IN  /\ Len(file) = at + Len(recs) + Len(comment)
        /\ Holds(file, n, Cdir) /\ Holds(file, at, recs) /\ Holds(file, at + Len(recs), comment)
        /\ StoredTo(n) /\ NoEnds(n)

WrittenAll ==
    phase \in {"written", "opened", "rejected"} /\ ~torn =>
        cur > Len(ents) /\ \E n \in 0..Len(file) : DirectoryAt(n)

LayoutInv == PartsKept /\ WrittenSoFar /\ WrittenAll
=============================================================================
