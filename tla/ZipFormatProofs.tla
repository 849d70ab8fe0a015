-------------------------- MODULE ZipFormatProofs --------------------------
(***************************************************************************)
(* Proofs about what zip_close writes, for archives of any number of       *)
(* entries of any sizes and for every width of the fields: the second      *)
(* local header has the form of the first wherever NoMismatch says so,     *)
(* edits of extra fields stay within their kind and length, and a file     *)
(* that has lost its end is refused.                                       *)
(***************************************************************************)
EXTENDS ZipFormat, ExtraFieldProofs, TLAPS

\* A list one of whose records is replaced is a list of the same length.
LEMMA Updated ==
    ASSUME NEW s, Len(s) \in Nat, DOMAIN s = 1..Len(s), NEW i, NEW r,
           NEW t, t = [s EXCEPT ![i] = r]
    PROVE  /\ Len(t) = Len(s) /\ DOMAIN t = DOMAIN s
           /\ \A j \in DOMAIN s : t[j] = IF j = i THEN r ELSE s[j]
<1> DEFINE n == Len(s)
           S == {t[j] : j \in 1..n}
<1>1. DOMAIN t = 1..n /\ \A j \in DOMAIN s : t[j] = IF j = i THEN r ELSE s[j]
    OBVIOUS
<1>2. t \in [1..n -> S]
    BY <1>1, Zenon
<1>3. n \in Nat
    OBVIOUS
<1> HIDE DEF n, S
<1>4. t \in Seq(S) /\ Len(t) = n
    BY ONLY <1>2, <1>3
<1>5. QED
    BY <1>1, <1>4 DEF n

-----------------------------------------------------------------------------
(* The first state.                                                        *)

LEMMA InitFormat == Init => FormatInv
<1> SUFFICES ASSUME Init PROVE FormatInv
    OBVIOUS
<1>1. PICK s \in Scenarios : ents = s.ents
    BY DEF Init
<1>2. /\ ents \in Seq(Dirents)
      /\ \A i \in DOMAIN ents : ents[i].kind = "add" => ents[i].comp = ents[i].stale
    BY <1>1, ScenariosAssumption
<1>3. Len(ents) \in Nat /\ DOMAIN ents = 1..Len(ents)
    BY <1>2
<1>4. ASSUME NEW i \in DOMAIN ents PROVE SizedRecord(ents[i])
  <2>1. ents[i] \in Dirents
    BY <1>2, <1>3
  <2>2. QED
    BY <2>1 DEF Dirents, SizedRecord
<1>5. phase = "edit" /\ cur = 1
    BY DEF Init
<1>6. is64 \in BOOLEAN
    BY Zenon DEF Init
<1>7. RecordsKept
    BY <1>2, <1>3, <1>4, <1>5, <1>6 DEF RecordsKept
<1>8. QED
    BY <1>5, <1>7 DEF FormatInv, HeadFollowsStat, DataSized, NoMismatch

-----------------------------------------------------------------------------
(* What each step does to the records.                                     *)

\* The extra field functions change one record, in its fields only.
LEMMA EditFormat ==
    ASSUME FormatInv, NEW efs, phase = "edit", phase' = "edit", cur' = cur, is64' = is64,
           ents' = [ents EXCEPT ![1].efs = efs]
    PROVE  FormatInv'
<1> DEFINE r == [ents[1] EXCEPT !.efs = efs]
<1>1. ents' = [ents EXCEPT ![1] = r]
    OBVIOUS
<1>2. Len(ents) \in Nat /\ DOMAIN ents = 1..Len(ents)
    BY DEF FormatInv, RecordsKept
<1>3. /\ Len(ents') = Len(ents) /\ DOMAIN ents' = DOMAIN ents
      /\ \A j \in DOMAIN ents : ents'[j] = IF j = 1 THEN r ELSE ents[j]
  <2> HIDE DEF r
  <2>1. QED
    BY ONLY <1>1, <1>2, Updated
<1>4. 1 \in DOMAIN ents => /\ SizedRecord(r) /\ r.kind = ents[1].kind
                           /\ r.comp = ents[1].comp /\ r.stale = ents[1].stale
    BY DEF FormatInv, RecordsKept, SizedRecord
<1> HIDE DEF r
<1>5. RecordsKept'
    BY <1>2, <1>3, <1>4 DEF FormatInv, RecordsKept
<1>6. QED
    BY <1>5 DEF FormatInv, HeadFollowsStat, DataSized, NoMismatch

\* The first header is written: the record says what zip_source_stat said.
LEMMA WriteHeadFormat ==
    ASSUME FormatInv, WriteHead
    PROVE  FormatInv'
<1> DEFINE d == ents[cur]
           r == [Prepared(d) EXCEPT !.offset = Len(file)]
<1>1. /\ ents' = [ents EXCEPT ![cur] = r] /\ cur' = cur /\ phase = "head" /\ phase' = "data"
      /\ is64' = WritesZip64(r, Local) /\ cur <= Len(ents) /\ d.kind = "add"
    BY DEF WriteHead
<1>2. /\ Len(ents) \in Nat /\ DOMAIN ents = 1..Len(ents) /\ cur \in DOMAIN ents
      /\ SizedRecord(d) /\ d.comp = d.stale
    BY <1>1 DEF FormatInv, RecordsKept
<1>3. /\ Len(ents') = Len(ents) /\ DOMAIN ents' = DOMAIN ents
      /\ \A j \in DOMAIN ents : ents'[j] = IF j = cur THEN r ELSE ents[j]
  <2> HIDE DEF r
  <2>1. QED
    BY ONLY <1>1, <1>2, Updated
<1>4. /\ DOMAIN r = DOMAIN d
      /\ r.stat = d.stat /\ r.actual = d.actual /\ r.method = d.method /\ r.stale = d.stale
      /\ r.uncomp = IF d.stat # Unknown THEN d.stat ELSE d.uncomp
      /\ r.comp = IF d.stat # Unknown /\ d.method = "store" THEN d.stat ELSE d.comp
      /\ r.force = IF d.stat = Unknown THEN TRUE
                   ELSE d.method = "deflate" /\ d.stat > MaxSize(d.method)
    BY <1>2 DEF Prepared, SizedRecord
<1> HIDE DEF r
<1>5. SizedRecord(r)
    BY <1>2, <1>4 DEF SizedRecord, Unknown
<1>6. r.stat # Unknown =>
          /\ r.force <=> r.method = "deflate" /\ r.stat > MaxSize("deflate")
          /\ WritesZip64(r, Local) <=> \/ r.force \/ r.stat >= M32
                                       \/ r.method = "deflate" /\ r.stale >= M32
    BY <1>2, <1>4 DEF WritesZip64, NeedsZip64, IsLocal, Local, SizedRecord
<1>7. RecordsKept'
  <2>1. is64' \in BOOLEAN
    BY <1>1 DEF WritesZip64, NeedsZip64, IsLocal, Local
  <2>2. QED
    BY <1>1, <1>2, <1>3, <1>5, <2>1 DEF FormatInv, RecordsKept
<1>8. HeadFollowsStat'
    BY <1>1, <1>2, <1>3, <1>6 DEF HeadFollowsStat, MaxSize
<1>9. QED
    BY <1>1, <1>7, <1>8 DEF FormatInv, DataSized, NoMismatch

\* The data is written, and the record has its sizes.
LEMMA CopySourceFormat ==
    ASSUME FormatInv, CopySource
    PROVE  FormatInv'
<1> DEFINE d == ents[cur]
<1>1. /\ phase = "data" /\ phase' = "final" /\ cur' = cur /\ is64' = is64
    BY DEF CopySource
<1>2. PICK n \in Lengths(d) :
          ents' = [ents EXCEPT ![cur].comp = n, ![cur].uncomp = d.actual]
    BY DEF CopySource
<1> DEFINE r == [d EXCEPT !.comp = n, !.uncomp = d.actual]
<1>3. /\ Len(ents) \in Nat /\ DOMAIN ents = 1..Len(ents) /\ cur \in DOMAIN ents
      /\ SizedRecord(d) /\ cur \in Nat
    BY <1>1 DEF FormatInv, RecordsKept, HeadFollowsStat
<1>4. ents' = [ents EXCEPT ![cur] = r]
    BY <1>2, <1>3
<1>5. /\ Len(ents') = Len(ents) /\ DOMAIN ents' = DOMAIN ents
      /\ \A j \in DOMAIN ents : ents'[j] = IF j = cur THEN r ELSE ents[j]
  <2> HIDE DEF r
  <2>1. QED
    BY ONLY <1>3, <1>4, Updated
<1>6. /\ DOMAIN r = DOMAIN d
      /\ r.stat = d.stat /\ r.actual = d.actual /\ r.method = d.method /\ r.stale = d.stale
      /\ r.force = d.force /\ r.comp = n /\ r.uncomp = d.actual
    BY <1>3 DEF SizedRecord
<1>7. n \in Nat
    BY <1>2, <1>3, WidthsAssumption DEF SizedRecord, Lengths
<1> HIDE DEF r
<1>8. SizedRecord(r)
    BY <1>3, <1>6, <1>7 DEF SizedRecord
<1>9. RecordsKept'
    BY <1>1, <1>3, <1>5, <1>8 DEF FormatInv, RecordsKept
<1>10. HeadFollowsStat'
    BY <1>1, <1>3, <1>5, <1>6 DEF FormatInv, HeadFollowsStat
<1>11. DataSized'
    BY <1>1, <1>2, <1>3, <1>5, <1>6 DEF DataSized, Lengths
<1>12. QED
    BY <1>1, <1>9, <1>10, <1>11 DEF FormatInv, NoMismatch

\* The sizes that the data of an entry can have, if it is as long as
\* zip_source_stat said, ask for ZIP64 exactly when the first header did.
LEMMA SameForm ==
    ASSUME NEW de, SizedRecord(de), de.stat = de.actual,
           ~(de.method = "deflate" /\ de.stale >= M32),
           de.force <=> de.method = "deflate" /\ de.stat > MaxSize("deflate"),
           de.uncomp = de.actual, de.comp \in Lengths(de)
    PROVE  WritesZip64(de, Local) <=> de.force \/ de.stat >= M32
<1>1. M32 \in Nat /\ Growth \in Nat /\ M32 > 1
    BY WidthsAssumption, GrowthAssumption
<1>2. WritesZip64(de, Local) <=> de.force \/ de.uncomp >= M32 \/ de.comp >= M32
    BY DEF WritesZip64, NeedsZip64, IsLocal, Local
<1>3. CASE de.method = "store"
    BY <1>2, <1>3 DEF Lengths
<1>4. CASE de.method = "deflate"
  <2>1. ~de.force => de.stat + Growth < M32
    BY <1>1, <1>4 DEF MaxSize, SizedRecord
  <2>2. ~de.force => de.comp < M32
    BY <1>1, <1>4, <2>1 DEF SizedRecord, Lengths
  <2>3. QED
    BY <1>1, <1>2, <2>2 DEF SizedRecord
<1>5. QED
    BY <1>3, <1>4 DEF SizedRecord

\* The second header has the form of the first, or the data was not as long
\* as was said, or the old data was large.
LEMMA WriteFinalFormat ==
    ASSUME FormatInv, WriteFinal
    PROVE  FormatInv'
<1> DEFINE d == ents[cur]
           r == Versioned(d)
<1>1. /\ ents' = [ents EXCEPT ![cur] = r] /\ cur' = cur + 1 /\ phase = "final" /\ is64' = is64
      /\ phase' = IF WritesZip64(r, Local) = is64 THEN "head" ELSE "failed"
    BY DEF WriteFinal
<1>2. /\ Len(ents) \in Nat /\ DOMAIN ents = 1..Len(ents) /\ cur \in DOMAIN ents
      /\ SizedRecord(d) /\ cur \in Nat \ {0}
    BY <1>1 DEF FormatInv, RecordsKept, HeadFollowsStat
<1>3. /\ Len(ents') = Len(ents) /\ DOMAIN ents' = DOMAIN ents
      /\ \A j \in DOMAIN ents : ents'[j] = IF j = cur THEN r ELSE ents[j]
  <2> HIDE DEF r
  <2>1. QED
    BY ONLY <1>1, <1>2, Updated
<1>4. /\ DOMAIN r = DOMAIN d
      /\ r.stat = d.stat /\ r.actual = d.actual /\ r.method = d.method /\ r.stale = d.stale
      /\ r.force = d.force /\ r.comp = d.comp /\ r.uncomp = d.uncomp
    BY <1>2 DEF SizedRecord, Versioned
<1> HIDE DEF r
<1>5. SizedRecord(r)
    BY <1>2, <1>4 DEF SizedRecord
<1>6. RecordsKept'
    BY <1>1, <1>2, <1>3, <1>5 DEF FormatInv, RecordsKept
<1>7. ASSUME r.stat = r.actual, ~(r.method = "deflate" /\ r.stale >= M32)
      PROVE  WritesZip64(r, Local) = is64
  <2>1. r.stat # Unknown
    BY <1>5, <1>7 DEF SizedRecord, Unknown
  <2>2. /\ r.force <=> r.method = "deflate" /\ r.stat > MaxSize("deflate")
        /\ is64 <=> r.force \/ r.stat >= M32
    BY <1>1, <1>4, <1>7, <2>1 DEF FormatInv, HeadFollowsStat
  <2>3. r.uncomp = r.actual /\ r.comp \in Lengths(r)
    BY <1>1, <1>4 DEF FormatInv, DataSized, Lengths
  <2>4. WritesZip64(r, Local) <=> r.force \/ r.stat >= M32
    BY <1>5, <1>7, <2>2, <2>3, SameForm
  <2>5. is64 \in BOOLEAN /\ WritesZip64(r, Local) \in BOOLEAN
    BY DEF FormatInv, RecordsKept, WritesZip64, NeedsZip64, IsLocal, Local
  <2>6. QED
    BY <2>2, <2>4, <2>5
<1>8. NoMismatch'
  <2>1. cur' - 1 = cur /\ ents'[cur' - 1] = r
    BY <1>1, <1>2, <1>3
  <2>2. QED
    BY <1>1, <1>7, <2>1 DEF NoMismatch
<1>9. QED
    BY <1>1, <1>6, <1>8 DEF FormatInv, HeadFollowsStat, DataSized

\* An entry that is copied keeps its sizes.
LEMMA CopyEntryFormat ==
    ASSUME FormatInv, CopyEntry
    PROVE  FormatInv'
<1> DEFINE d == ents[cur]
           r == [d EXCEPT !.offset = Len(file)]
<1>1. /\ ents' = [ents EXCEPT ![cur] = r] /\ cur' = cur + 1 /\ phase = "head"
      /\ phase' = phase /\ is64' = is64 /\ cur <= Len(ents)
    BY DEF CopyEntry
<1>2. /\ Len(ents) \in Nat /\ DOMAIN ents = 1..Len(ents) /\ cur \in DOMAIN ents
      /\ SizedRecord(d) /\ cur \in Nat \ {0}
    BY <1>1 DEF FormatInv, RecordsKept
<1>3. /\ Len(ents') = Len(ents) /\ DOMAIN ents' = DOMAIN ents
      /\ \A j \in DOMAIN ents : ents'[j] = IF j = cur THEN r ELSE ents[j]
  <2> HIDE DEF r
  <2>1. QED
    BY ONLY <1>1, <1>2, Updated
<1>4. SizedRecord(r)
    BY <1>2 DEF SizedRecord
<1> HIDE DEF r
<1>5. RecordsKept'
    BY <1>1, <1>2, <1>3, <1>4 DEF FormatInv, RecordsKept
<1>6. QED
    BY <1>1, <1>5 DEF FormatInv, HeadFollowsStat, DataSized, NoMismatch

\* Every step keeps the records, and what is known of the one being written.
LEMMA NextFormat == FormatInv /\ [Next]_vars => FormatInv'
<1> SUFFICES ASSUME FormatInv, [Next]_vars PROVE FormatInv'
    OBVIOUS
<1>1. ASSUME NEW id \in {"x", "y"}, NEW which \in 1..2, NEW vals \in Values, NEW f \in Flags,
             ExtraFieldSet(id, which, vals, f)
      PROVE  FormatInv'
  <2>1. PICK efs : /\ phase = "edit" /\ phase' = "edit" /\ cur' = cur /\ is64' = is64
                   /\ ents' = [ents EXCEPT ![1].efs = efs]
    BY <1>1 DEF ExtraFieldSet
  <2>2. QED
    BY <2>1, EditFormat
<1>2. ASSUME NEW ids \in {{"x"}, {"x", "y"}}, NEW which \in {All, 1, 2}, NEW f \in Flags,
             ExtraFieldDelete(ids, which, f)
      PROVE  FormatInv'
  <2>1. PICK efs : /\ phase = "edit" /\ phase' = "edit" /\ cur' = cur /\ is64' = is64
                   /\ ents' = [ents EXCEPT ![1].efs = efs]
    BY <1>2 DEF ExtraFieldDelete
  <2>2. QED
    BY <2>1, EditFormat
<1>3. CASE WriteHead
    BY <1>3, WriteHeadFormat
<1>4. CASE CopySource
    BY <1>4, CopySourceFormat
<1>5. CASE WriteFinal
    BY <1>5, WriteFinalFormat
<1>6. CASE CopyEntry
    BY <1>6, CopyEntryFormat
<1>7. CASE StartClose
  <2>1. phase = "edit" /\ phase' = "head" /\ cur' = cur /\ ents' = ents /\ is64' = is64
    BY <1>7 DEF StartClose
  <2>2. QED
    BY <2>1 DEF FormatInv, RecordsKept, HeadFollowsStat, DataSized, NoMismatch
<1>8. ASSUME WriteCdir \/ (\E n \in 0..Len(file) - 1 : Tear(n))
                       \/ \E check \in BOOLEAN : Open(check)
      PROVE  FormatInv'
  <2>1. /\ phase \in {"head", "written"} /\ phase' \in {"written", "opened", "rejected"}
        /\ cur' = cur /\ ents' = ents /\ is64' = is64
    BY <1>8 DEF WriteCdir, Tear, Open
  <2>2. QED
    BY <2>1 DEF FormatInv, RecordsKept, HeadFollowsStat, DataSized, NoMismatch
<1>9. CASE UNCHANGED vars
    BY <1>9 DEF vars, FormatInv, RecordsKept, HeadFollowsStat, DataSized, NoMismatch
<1>10. QED
    BY <1>1, <1>2, <1>3, <1>4, <1>5, <1>6, <1>7, <1>8, <1>9 DEF Next

-----------------------------------------------------------------------------
(* The extra fields.                                                       *)

\* Writing changes no extra field, nor what the data is.
SameFields ==
    /\ DOMAIN ents' = DOMAIN ents
    /\ \A i \in DOMAIN ents : ents'[i].efs = ents[i].efs /\ ents'[i].nested = ents[i].nested

\* A new record with the fields of the old one changes no fields.
LEMMA RecordFields ==
    ASSUME FormatInv, NEW r, cur \in DOMAIN ents, ents' = [ents EXCEPT ![cur] = r],
           r.efs = ents[cur].efs, r.nested = ents[cur].nested
    PROVE  SameFields
<1>1. Len(ents) \in Nat /\ DOMAIN ents = 1..Len(ents)
    BY DEF FormatInv, RecordsKept
<1>2. /\ DOMAIN ents' = DOMAIN ents
      /\ \A j \in DOMAIN ents : ents'[j] = IF j = cur THEN r ELSE ents[j]
    BY ONLY <1>1, ents' = [ents EXCEPT ![cur] = r], Updated
<1>3. QED
    BY <1>2 DEF SameFields

\* No step of zip_close changes the fields of an entry.
LEMMA WritingFields ==
    ASSUME FormatInv, WriteHead \/ CopySource \/ WriteFinal \/ CopyEntry
    PROVE  SameFields
<1>1. CASE WriteHead
  <2> DEFINE r == [Prepared(ents[cur]) EXCEPT !.offset = Len(file)]
  <2>1. ents' = [ents EXCEPT ![cur] = r] /\ cur \in DOMAIN ents /\ SizedRecord(ents[cur])
    BY <1>1 DEF WriteHead, FormatInv, RecordsKept
  <2>2. r.efs = ents[cur].efs /\ r.nested = ents[cur].nested
    BY <2>1 DEF Prepared, SizedRecord
  <2> HIDE DEF r
  <2>3. QED
    BY <2>1, <2>2, RecordFields
<1>2. CASE CopySource
  <2>1. PICK n : ents' = [ents EXCEPT ![cur].comp = n, ![cur].uncomp = ents[cur].actual]
    BY <1>2 DEF CopySource
  <2> DEFINE r == [ents[cur] EXCEPT !.comp = n, !.uncomp = ents[cur].actual]
  <2>2. cur \in DOMAIN ents /\ SizedRecord(ents[cur])
    BY <1>2 DEF CopySource, FormatInv, RecordsKept, HeadFollowsStat
  <2>3. /\ ents' = [ents EXCEPT ![cur] = r]
        /\ r.efs = ents[cur].efs /\ r.nested = ents[cur].nested
    BY <2>1, <2>2 DEF SizedRecord
  <2> HIDE DEF r
  <2>4. QED
    BY <2>2, <2>3, RecordFields
<1>3. CASE WriteFinal
  <2> DEFINE r == Versioned(ents[cur])
  <2>1. ents' = [ents EXCEPT ![cur] = r] /\ cur \in DOMAIN ents /\ SizedRecord(ents[cur])
    BY <1>3 DEF WriteFinal, FormatInv, RecordsKept, HeadFollowsStat
  <2>2. r.efs = ents[cur].efs /\ r.nested = ents[cur].nested
    BY <2>1 DEF Versioned, SizedRecord
  <2> HIDE DEF r
  <2>3. QED
    BY <2>1, <2>2, RecordFields
<1>4. CASE CopyEntry
  <2> DEFINE r == [ents[cur] EXCEPT !.offset = Len(file)]
  <2>1. ents' = [ents EXCEPT ![cur] = r] /\ cur \in DOMAIN ents /\ SizedRecord(ents[cur])
    BY <1>4 DEF CopyEntry, FormatInv, RecordsKept
  <2>2. r.efs = ents[cur].efs /\ r.nested = ents[cur].nested
    BY <2>1 DEF SizedRecord
  <2> HIDE DEF r
  <2>3. QED
    BY <2>1, <2>2, RecordFields
<1>5. QED
    BY <1>1, <1>2, <1>3, <1>4

\* An edit changes the fields of the first entry, and no others.
FieldsOfFirst(efs) ==
    /\ DOMAIN ents' = DOMAIN ents
    /\ \A i \in DOMAIN ents : /\ ents'[i].efs = IF i = 1 THEN efs ELSE ents[i].efs
                              /\ ents'[i].nested = ents[i].nested

\* The edits change the first entry and nothing else.
LEMMA EditedFields ==
    ASSUME FormatInv, NEW efs, ents' = [ents EXCEPT ![1].efs = efs]
    PROVE  FieldsOfFirst(efs)
<1> DEFINE r == [ents[1] EXCEPT !.efs = efs]
<1>1. ents' = [ents EXCEPT ![1] = r]
    OBVIOUS
<1>2. Len(ents) \in Nat /\ DOMAIN ents = 1..Len(ents)
    BY DEF FormatInv, RecordsKept
<1>3. 1 \in DOMAIN ents => r.efs = efs /\ r.nested = ents[1].nested
    BY DEF FormatInv, RecordsKept, SizedRecord
<1> HIDE DEF r
<1>4. /\ DOMAIN ents' = DOMAIN ents
      /\ \A j \in DOMAIN ents : ents'[j] = IF j = 1 THEN r ELSE ents[j]
    BY ONLY <1>1, <1>2, Updated
<1>5. QED
    BY <1>3, <1>4 DEF FieldsOfFirst

\* The length of 16 bits is the length of what fits.
LEMMA SmallRest ==
    ASSUME NEW m \in Nat, NEW a \in Nat, a <= m
    PROVE  a % (m + 1) = a
    OBVIOUS

\* The kinds of field that an edit is for.
LEMMA FlagsKinds ==
    ASSUME NEW f \in Flags
    PROVE  f \in SUBSET Kinds /\ f # {} /\ (f # Kinds => \E k \in Kinds : f = {k})
    BY DEF Flags, Kinds

\* What is written of some kinds fits 16 bits.
Fit(efs, f) == \A k \in f : Len(EfWrite(efs, {k})) <= M16

\* zip_file_extra_field_set has computed the length that the lists it changes
\* will have at most, as long as it replaces no field of one kind by one of
\* both: then the list that had no such field grows by more than it allows for.
LEMMA SetFits ==
    ASSUME NEW I, NEW V, NEW efs \in Seq(Fields(I, V)), NEW id \in I, NEW vals \in Seq(V),
           NEW f \in Flags, NEW which, M16 \in Nat,
           NEW new, new = EfSet(efs, id, which, vals, f),
           NEW ps, ps = EfPlaces(efs, {id}, f),
           EfNewLen(efs, id, which, vals, f) <= M16,
           ~(which \in DOMAIN ps /\ f = Kinds /\ f # efs[ps[which]].for),
           Fit(efs, Kinds)
    PROVE  Fit(new, f)
<1> DEFINE L(k) == Len(EfWrite(efs, {k}))
           part(k) == IF k \in f THEN EfSize(efs, {k}) ELSE 0
           longer == IF part("local") > part("central") THEN part("local") ELSE part("central")
           gone == IF which \in DOMAIN ps THEN Len(efs[ps[which]].vals) + 1 ELSE 0
           given(k) == Given(efs, ps, which, k)
<1>1. longer + Len(vals) + 1 - gone <= M16
    BY DEF EfNewLen
<1>2. ASSUME NEW k \in Kinds PROVE L(k) \in Nat /\ EfSize(efs, {k}) = L(k)
  <2>1. L(k) \in Nat /\ L(k) <= M16
    BY EfWriteType DEF Fit
  <2> HIDE DEF L
  <2>2. L(k) % (M16 + 1) = L(k)
    BY <2>1, SmallRest
  <2>3. QED
    BY <2>1, <2>2 DEF EfSize, L
<1>3. f \in SUBSET Kinds /\ Len(vals) \in Nat
    BY FlagsKinds
<1>4. ASSUME NEW k \in f PROVE L(k) <= longer /\ longer \in Nat
  <2> HIDE DEF L
  <2>1. k \in {"local", "central"} /\ part("local") \in Nat /\ part("central") \in Nat
    BY <1>2, <1>3 DEF Kinds
  <2>2. part(k) = L(k)
    BY <1>2, <1>3
  <2> HIDE DEF part
  <2>3. CASE k = "local"
    BY <2>1, <2>2, <2>3
  <2>4. CASE k = "central"
    BY <2>1, <2>2, <2>4
  <2>5. QED
    BY <2>1, <2>3, <2>4
<1>5. ASSUME NEW k \in f PROVE given(k) = gone /\ gone \in Nat
  <2>1. CASE which \in DOMAIN ps
    <3>1. ps[which] \in 1..Len(efs) /\ efs[ps[which]].for \cap f # {}
      <4>1. efs \in Seq(Fields(I, V)) /\ which \in DOMAIN EfPlaces(efs, {id}, f)
        BY <2>1
      <4>2. QED
        BY ONLY <4>1, PlacesMatch, ps = EfPlaces(efs, {id}, f)
    <3>2. efs[ps[which]] \in Fields(I, V)
      BY <3>1
    <3>3. k \in efs[ps[which]].for
      <4>1. CASE f = Kinds
        BY <2>1, <4>1
      <4>2. CASE f # Kinds
        <5>1. f = {k}
          BY <4>2, FlagsKinds
        <5>2. QED
          BY <3>1, <5>1
      <4>3. QED
        BY <4>1, <4>2
    <3>4. Len(efs[ps[which]].vals) \in Nat
      BY <3>2 DEF Fields
    <3>5. QED
      BY <2>1, <3>3, <3>4 DEF Given, Weight
  <2>2. CASE which \notin DOMAIN ps
    BY <2>2 DEF Given
  <2>3. QED
    BY <2>1, <2>2
<1>6. \A k \in f : Len(EfWrite(new, {k})) = L(k) - given(k) + (Len(vals) + 1)
  <2> HIDE DEF L, given
  <2>1. HasSet(EfSet(efs, id, which, vals, f), Fields(I, V), efs,
               EfPlaces(efs, {id}, f), which, vals, f)
    BY <1>3, SetMakes
  <2>2. QED
    BY <2>1 DEF HasSet, L, given
<1> HIDE DEF L, given, longer, gone
<1>7. ASSUME NEW k \in f PROVE Len(EfWrite(new, {k})) <= M16
  <2>1. /\ Len(EfWrite(new, {k})) = L(k) - gone + (Len(vals) + 1) /\ L(k) <= longer
        /\ L(k) \in Nat /\ longer \in Nat /\ gone \in Nat /\ Len(vals) \in Nat
    BY <1>2, <1>3, <1>4, <1>5, <1>6
  <2>2. QED
    BY ONLY <2>1, <1>1, M16 \in Nat
<1>8. QED
    BY <1>7 DEF Fit

\* What an edit leaves of the other kind.
OthersLeft(f) ==
    \A k \in Kinds \ f : 1 \in DOMAIN ents =>
        EfWrite(ents'[1].efs, {k}) = EfWrite(ents[1].efs, {k})

\* zip_file_extra_field_set keeps the fields of every entry within 16 bits,
\* and those of the other kind as they are.
LEMMA SetFields ==
    ASSUME FormatInv, FieldsInv, NEW id \in {"x", "y"}, NEW which, NEW vals \in Values,
           NEW f \in Flags, ExtraFieldSet(id, which, vals, f)
    PROVE  FieldsInv' /\ OthersLeft(f)
<1> DEFINE efs == ents[1].efs
           ps == EfPlaces(efs, {id}, f)
           new == EfSet(efs, id, which, vals, f)
<1>1. FieldsOfFirst(new)
    BY EditedFields DEF ExtraFieldSet
<1>2. /\ EfNewLen(efs, id, which, vals, f) <= M16
      /\ ~lopsided' => ~lopsided /\ ~(which \in DOMAIN ps /\ f = Kinds /\ f # efs[ps[which]].for)
    BY DEF ExtraFieldSet, Kinds
<1>3. M16 \in Nat /\ vals \in Seq(Units) /\ f \in SUBSET Kinds
    BY WidthsAssumption, ValuesAssumption, FlagsKinds
<1>4. 1 \in DOMAIN ents => efs \in Seq(Fields({"x", "y"}, Units))
    BY DEF FieldsInv, FieldsKept
<1> HIDE DEF efs, ps, new
<1>5. ASSUME 1 \in DOMAIN ents
      PROVE  /\ new \in Seq(Fields({"x", "y"}, Units))
             /\ \A k \in Kinds \ f : EfWrite(new, {k}) = EfWrite(efs, {k})
  <2>1. HasSet(EfSet(efs, id, which, vals, f), Fields({"x", "y"}, Units), efs,
               EfPlaces(efs, {id}, f), which, vals, f)
    BY <1>3, <1>4, <1>5, SetMakes
  <2>2. QED
    BY <2>1 DEF HasSet, new
<1>6. FieldsKept'
    BY <1>1, <1>5 DEF FieldsInv, FieldsKept, FieldsOfFirst
<1>7. OthersLeft(f)
    BY <1>1, <1>5 DEF OthersLeft, FieldsOfFirst, efs
<1>8. ASSUME ~lopsided', 1 \in DOMAIN ents, NEW k \in Kinds
      PROVE  Len(EfWrite(new, {k})) <= M16
  <2>1. Fit(efs, Kinds)
    BY <1>2, <1>8 DEF FieldsInv, FieldsFit, Fit, Kinds, efs
  <2>2. CASE k \notin f
    BY <1>5, <1>8, <2>1, <2>2 DEF Fit
  <2>3. CASE k \in f
    <3>1. /\ efs \in Seq(Fields({"x", "y"}, Units)) /\ new = EfSet(efs, id, which, vals, f)
          /\ ps = EfPlaces(efs, {id}, f)
          /\ ~(which \in DOMAIN ps /\ f = Kinds /\ f # efs[ps[which]].for)
      BY <1>2, <1>4, <1>8 DEF new, ps
    <3>2. Fit(new, f)
      BY <1>2, <1>3, <2>1, <3>1, SetFits
    <3>3. QED
      BY <2>3, <3>2 DEF Fit
  <2>4. QED
    BY <2>2, <2>3
<1>9. FieldsFit'
    BY <1>1, <1>2, <1>8 DEF FieldsInv, FieldsFit, FieldsOfFirst, Kinds
<1>10. QED
    BY <1>6, <1>7, <1>9 DEF FieldsInv

\* And so does zip_file_extra_field_delete.
LEMMA DeleteFields ==
    ASSUME FormatInv, FieldsInv, NEW ids, NEW which, NEW f \in Flags,
           ExtraFieldDelete(ids, which, f)
    PROVE  FieldsInv' /\ OthersLeft(f)
<1> DEFINE efs == ents[1].efs
           new == EfDelete(efs, ids, which, f)
<1>1. FieldsOfFirst(new)
  <2>1. 1 \in DOMAIN ents => "efs" \in DOMAIN ents[1]
    BY DEF FormatInv, RecordsKept, SizedRecord
  <2>2. ents' = [ents EXCEPT ![1].efs = new]
    BY <2>1 DEF ExtraFieldDelete
  <2> HIDE DEF new
  <2>3. QED
    BY <2>2, EditedFields
<1>2. lopsided' = lopsided /\ f \in SUBSET Kinds
    BY FlagsKinds DEF ExtraFieldDelete
<1>3. 1 \in DOMAIN ents => efs \in Seq(Fields({"x", "y"}, Units))
    BY DEF FieldsInv, FieldsKept
<1> HIDE DEF efs, new
<1>4. ASSUME 1 \in DOMAIN ents
      PROVE  /\ new \in Seq(Fields({"x", "y"}, Units))
             /\ \A k \in Kinds \ f : EfWrite(new, {k}) = EfWrite(efs, {k})
             /\ \A k \in Kinds : Len(EfWrite(new, {k})) <= Len(EfWrite(efs, {k}))
    BY <1>2, <1>3, <1>4, DeleteWritten DEF new
<1>5. FieldsKept'
    BY <1>1, <1>4 DEF FieldsInv, FieldsKept, FieldsOfFirst
<1>6. OthersLeft(f)
    BY <1>1, <1>4 DEF OthersLeft, FieldsOfFirst, efs
<1>7. ASSUME ~lopsided, 1 \in DOMAIN ents, NEW k \in Kinds
      PROVE  Len(EfWrite(new, {k})) <= M16
  <2>1. Len(EfWrite(efs, {k})) <= M16 /\ Len(EfWrite(new, {k})) <= Len(EfWrite(efs, {k}))
    BY <1>4, <1>7 DEF FieldsInv, FieldsFit, Kinds, efs
  <2>2. /\ Len(EfWrite(efs, {k})) \in Nat /\ Len(EfWrite(new, {k})) \in Nat /\ M16 \in Nat
    BY <1>3, <1>4, <1>7, EfWriteType, WidthsAssumption
  <2>3. QED
    BY ONLY <2>1, <2>2
<1>8. FieldsFit'
    BY <1>1, <1>2, <1>7 DEF FieldsInv, FieldsFit, FieldsOfFirst, Kinds
<1>9. QED
    BY <1>5, <1>6, <1>8 DEF FieldsInv

-----------------------------------------------------------------------------

\* While add_data is at work, the record it writes and the form of the header
\* it has written go together with what zip_source_stat said.
THEOREM FormatInvariance == Spec => []FormatInv
<1>1. QED
    BY InitFormat, NextFormat, PTL DEF Spec

\* add_data never gives up on data that is as long as zip_source_stat said,
\* unless it is deflated and replaces an entry whose compressed size was not
\* below M32: whatever the size of the data, however much longer it becomes
\* when it is deflated, the room reserved in the first header is enough, and
\* never room that the second one does not use.
THEOREM HeadersMatch == Spec => []NoMismatch
<1>1. FormatInv => NoMismatch
    BY DEF FormatInv
<1>2. QED
    BY <1>1, FormatInvariance, PTL

\* The extra fields of every entry are lists of fields, and what is written
\* of each kind fits the 16 bits a header has for its length, whatever calls
\* a program makes to set and delete fields, unless a field of both kinds took
\* the place of one of a single kind.
THEOREM FieldsInvariance == Spec => []FieldsInv
<1>1. Init => FieldsInv
  <2> SUFFICES ASSUME Init PROVE FieldsInv
    OBVIOUS
  <2>1. PICK s \in Scenarios : ents = s.ents
    BY DEF Init
  <2>2. /\ ents \in Seq(Dirents)
        /\ \A i \in DOMAIN ents, k \in Kinds : Len(EfWrite(ents[i].efs, {k})) <= M16
    BY <2>1, ScenariosAssumption DEF Kinds
  <2>3. ASSUME NEW i \in DOMAIN ents PROVE ents[i].efs \in Seq(Fields({"x", "y"}, Units))
    <3> DEFINE S == [id : {"x", "y"}, vals : Values, for : Flags]
               T == Fields({"x", "y"}, Units)
    <3>1. ents[i] \in Dirents
      BY <2>2
    <3>2. ents[i].efs \in Seq(S)
      BY <3>1 DEF Dirents
    <3>3. S \subseteq T
      BY ValuesAssumption DEF Fields, Flags, Kinds
    <3> HIDE DEF S
    <3>4. QED
      BY ONLY <3>2, <3>3, SeqMonotonic
  <2>4. QED
    BY <2>2, <2>3 DEF FieldsInv, FieldsKept, FieldsFit, Kinds
<1>2. FieldsInv /\ FormatInv /\ [Next]_vars => FieldsInv'
  <2> SUFFICES ASSUME FieldsInv, FormatInv, [Next]_vars PROVE FieldsInv'
    OBVIOUS
  <2>1. ASSUME NEW id \in {"x", "y"}, NEW which \in 1..2, NEW vals \in Values, NEW f \in Flags,
               ExtraFieldSet(id, which, vals, f)
        PROVE  FieldsInv'
    BY <2>1, SetFields
  <2>2. ASSUME NEW ids \in {{"x"}, {"x", "y"}}, NEW which \in {All, 1, 2}, NEW f \in Flags,
               ExtraFieldDelete(ids, which, f)
        PROVE  FieldsInv'
    BY <2>2, DeleteFields
  <2>3. CASE WriteHead \/ CopySource \/ WriteFinal \/ CopyEntry
    <3>1. SameFields
      BY <2>3, WritingFields
    <3>2. lopsided' = lopsided
      BY <2>3 DEF WriteHead, CopySource, WriteFinal, CopyEntry
    <3>3. QED
      BY <3>1, <3>2 DEF SameFields, FieldsInv, FieldsKept, FieldsFit
  <2>4. ASSUME \/ StartClose \/ WriteCdir \/ \E n \in 0..Len(file) - 1 : Tear(n)
               \/ (\E check \in BOOLEAN : Open(check)) \/ UNCHANGED vars
        PROVE  FieldsInv'
    <3>1. ents' = ents /\ lopsided' = lopsided
      BY <2>4 DEF StartClose, WriteCdir, Tear, Open, vars
    <3>2. QED
      BY <3>1 DEF FieldsInv, FieldsKept, FieldsFit
  <2>5. QED
    BY <2>1, <2>2, <2>3, <2>4 DEF Next
<1>3. QED
    BY <1>1, <1>2, FormatInvariance, PTL DEF Spec

\* zip_file_extra_field_set refuses whatever would make the fields of an entry
\* longer than a header can say: the length it computes from 16-bit sizes, for
\* the longer of two lists, is never too small.  The exception is the one that
\* FieldsFit names.
THEOREM FieldsAlwaysFit == Spec => []FieldsFit
<1>1. FieldsInv => FieldsFit
    BY DEF FieldsInv
<1>2. QED
    BY <1>1, FieldsInvariance, PTL

\* Setting or deleting extra fields of one kind leaves every byte that is
\* written for the other kind: fields of both kinds are split, not changed.
THEOREM EditsOneKind == Spec => OtherKindStays
<1> DEFINE A == \A k \in {"local", "central"} \ asked' :
                    ents # <<>> => EfWrite(ents'[1].efs, {k}) = EfWrite(ents[1].efs, {k})
<1>1. FieldsInv /\ FormatInv /\ [Next]_vars => [A]_ents
  <2> SUFFICES ASSUME FieldsInv, FormatInv, [Next]_vars, ents' # ents PROVE A
    OBVIOUS
  <2>1. ents # <<>> => 1 \in DOMAIN ents
    <3>1. Len(ents) \in Nat /\ DOMAIN ents = 1..Len(ents)
      BY DEF FormatInv, RecordsKept
    <3>2. Len(ents) = 0 => ents = <<>>
      BY <3>1
    <3>3. QED
      BY <3>1, <3>2
  <2>2. ASSUME NEW id \in {"x", "y"}, NEW which \in 1..2, NEW vals \in Values, NEW f \in Flags,
               ExtraFieldSet(id, which, vals, f)
        PROVE  A
    <3>1. OthersLeft(f) /\ asked' = f
      BY <2>2, SetFields DEF ExtraFieldSet
    <3>2. QED
      BY <2>1, <3>1 DEF OthersLeft, Kinds
  <2>3. ASSUME NEW ids \in {{"x"}, {"x", "y"}}, NEW which \in {All, 1, 2}, NEW f \in Flags,
               ExtraFieldDelete(ids, which, f)
        PROVE  A
    <3>1. OthersLeft(f) /\ asked' = f
      BY <2>3, DeleteFields DEF ExtraFieldDelete
    <3>2. QED
      BY <2>1, <3>1 DEF OthersLeft, Kinds
  <2>4. CASE WriteHead \/ CopySource \/ WriteFinal \/ CopyEntry
    <3>1. SameFields
      BY <2>4, WritingFields
    <3>2. QED
      BY <2>1, <3>1 DEF SameFields
  <2>5. ASSUME \/ StartClose \/ WriteCdir \/ \E n \in 0..Len(file) - 1 : Tear(n)
               \/ (\E check \in BOOLEAN : Open(check)) \/ UNCHANGED vars
        PROVE  FALSE
    BY <2>5 DEF StartClose, WriteCdir, Tear, Open, vars
  <2>6. QED
    BY <2>2, <2>3, <2>4, <2>5 DEF Next
<1>2. QED
    BY <1>1, FieldsInvariance, FormatInvariance, PTL DEF Spec, OtherKindStays

-----------------------------------------------------------------------------
(* Lists of cells, and the end records in them.                            *)

Elements(s) == {s[i] : i \in 1..Len(s)}

\* A list is a sequence over its elements, and every sequence is a list.
LEMMA ListSeq ==
    ASSUME NEW s, IsList(s)
    PROVE  s \in Seq(Elements(s)) /\ Len(s) \in Nat /\ DOMAIN s = 1..Len(s)
<1> DEFINE n == Len(s)
           S == Elements(s)
<1>1. n \in Nat /\ s = [i \in 1..n |-> s[i]] /\ \A i \in 1..n : s[i] \in S
    BY DEF IsList, Elements
<1> HIDE DEF n, S
<1>2. s \in [1..n -> S]
    BY ONLY <1>1
<1>3. s \in Seq(S) /\ DOMAIN s = 1..n
    BY ONLY <1>1, <1>2
<1>4. QED
    BY <1>1, <1>3 DEF n, S

\* Every sequence is a list in this sense.
LEMMA SeqList ==
    ASSUME NEW S, NEW s \in Seq(S)
    PROVE  IsList(s)
<1>1. Len(s) \in Nat /\ s \in [1..Len(s) -> S]
    BY LenProperties
<1>2. QED
    BY <1>1 DEF IsList

\* A list that is joined from two.
Joined(u, s, t) ==
    /\ IsList(u) /\ Len(u) = Len(s) + Len(t) /\ Len(s) \in Nat /\ Len(t) \in Nat
    /\ \A i \in 1..Len(s) : u[i] = s[i]
    /\ \A i \in 1..Len(t) : u[Len(s) + i] = t[i]

\* Where the elements of two lists are when they are joined.
LEMMA JoinedList ==
    ASSUME NEW s, NEW t, IsList(s), IsList(t)
    PROVE  Joined(s \o t, s, t)
<1> DEFINE S == Elements(s) \cup Elements(t)
<1>1. s \in Seq(Elements(s)) /\ t \in Seq(Elements(t))
    BY ListSeq
<1>2. s \in Seq(S) /\ t \in Seq(S)
  <2>1. Elements(s) \subseteq S /\ Elements(t) \subseteq S
    OBVIOUS
  <2> HIDE DEF S
  <2>2. QED
    BY <1>1, <2>1, SeqMonotonic
<1> HIDE DEF S
<1>3. /\ s \o t \in Seq(S) /\ Len(s \o t) = Len(s) + Len(t) /\ Len(s) \in Nat /\ Len(t) \in Nat
      /\ \A i \in 1..Len(s) + Len(t) :
            (s \o t)[i] = IF i <= Len(s) THEN s[i] ELSE t[i - Len(s)]
    BY <1>2, ConcatProperties, LenProperties
<1>4. IsList(s \o t)
    BY <1>3, SeqList
<1>5. ASSUME NEW i \in 1..Len(s) PROVE (s \o t)[i] = s[i]
    BY <1>3
<1>6. ASSUME NEW i \in 1..Len(t) PROVE (s \o t)[Len(s) + i] = t[i]
  <2>1. Len(s) + i \in 1..Len(s) + Len(t) /\ ~(Len(s) + i <= Len(s)) /\ (Len(s) + i) - Len(s) = i
    BY <1>3
  <2>2. QED
    BY <1>3, <2>1
<1>7. QED
    BY <1>3, <1>4, <1>5, <1>6 DEF Joined

\* Lists with no end record, and with one as their last cell, for a comment
\* of c cells.
Ordinary(s) == IsList(s) /\ \A i \in 1..Len(s) : s[i].k # "eocd"

Ending(s, c) ==
    IsList(s) /\ \A i \in 1..Len(s) : s[i].k = "eocd" => i = Len(s) /\ s[i].comlen = c

\* Where a cell of a joined list comes from.
LEMMA JoinedCell ==
    ASSUME NEW u, NEW s, NEW t, Joined(u, s, t), NEW i \in 1..Len(u)
    PROVE  \/ i \in 1..Len(s) /\ u[i] = s[i]
           \/ /\ i - Len(s) \in 1..Len(t) /\ i = Len(s) + (i - Len(s)) /\ u[i] = t[i - Len(s)]
<1>1. CASE i <= Len(s)
    BY <1>1 DEF Joined
<1>2. CASE ~(i <= Len(s))
  <2>1. i - Len(s) \in 1..Len(t) /\ i = Len(s) + (i - Len(s))
    BY <1>2 DEF Joined
  <2>2. QED
    BY <2>1 DEF Joined
<1>3. QED
    BY <1>1, <1>2

\* Cells without end records, joined.
LEMMA OrdinaryJoined ==
    ASSUME NEW s, NEW t, Ordinary(s), Ordinary(t)
    PROVE  Ordinary(s \o t)
<1> DEFINE u == s \o t
<1>1. Joined(u, s, t)
    BY JoinedList DEF Ordinary
<1> HIDE DEF u
<1>2. ASSUME NEW i \in 1..Len(u) PROVE u[i].k # "eocd"
    BY <1>1, JoinedCell DEF Ordinary
<1>3. QED
    BY <1>1, <1>2 DEF Ordinary, Joined, u

\* Nothing but the last cell of the second part is an end record.
LEMMA EndingJoined ==
    ASSUME NEW s, NEW t, NEW c, Ordinary(s), Ending(t, c)
    PROVE  Ending(s \o t, c)
<1> DEFINE u == s \o t
<1>1. Joined(u, s, t)
    BY JoinedList DEF Ordinary, Ending
<1> HIDE DEF u
<1>2. ASSUME NEW i \in 1..Len(u), u[i].k = "eocd" PROVE i = Len(u) /\ u[i].comlen = c
  <2>1. /\ i - Len(s) \in 1..Len(t) /\ i = Len(s) + (i - Len(s)) /\ u[i] = t[i - Len(s)]
    BY <1>1, <1>2, JoinedCell DEF Ordinary
  <2>2. i - Len(s) = Len(t) /\ t[i - Len(s)].comlen = c
    BY <1>2, <2>1 DEF Ending
  <2>3. QED
    BY <1>1, <2>1, <2>2 DEF Joined
<1>3. QED
    BY <1>1, <1>2 DEF Ending, Joined, u

\* No cell of an extra field, of a text or of a header is an end record.
LEMMA WrittenOrdinary ==
    ASSUME NEW I, NEW V, NEW efs \in Seq(Fields(I, V)), NEW flags
    PROVE  Ordinary(EfWrite(efs, flags))
<1> DEFINE w == EfWrite(efs, flags)
<1>1. w \in Seq(FieldCells(I, V))
    BY EfWriteType
<1> HIDE DEF w
<1>2. IsList(w)
    BY <1>1, SeqList
<1>3. ASSUME NEW i \in 1..Len(w) PROVE w[i].k # "eocd"
  <2>1. w[i] \in FieldCells(I, V)
    BY <1>1
  <2>2. QED
    BY <2>1 DEF FieldCells
<1>4. QED
    BY <1>2, <1>3 DEF Ordinary, w

LEMMA OneOrdinary ==
    ASSUME NEW c, c.k # "eocd"
    PROVE  Ordinary(<<c>>)
<1>1. <<c>> \in Seq({c}) /\ Len(<<c>>) = 1 /\ <<c>>[1] = c
    OBVIOUS
<1>2. IsList(<<c>>)
    BY <1>1, SeqList
<1>3. QED
    BY <1>1, <1>2 DEF Ordinary

LEMMA NoneOrdinary == Ordinary(<<>>)
<1>1. <<>> \in Seq({}) /\ Len(<<>>) = 0
    OBVIOUS
<1>2. IsList(<<>>)
    BY <1>1, SeqList
<1>3. QED
    BY <1>1, <1>2 DEF Ordinary

LEMMA TextOrdinary ==
    ASSUME NEW t
    PROVE  Ordinary(StringWrite(t))
<1>1. CASE t.v = <<>>
    BY <1>1, NoneOrdinary DEF StringWrite
<1>2. CASE t.v # <<>>
  <2> DEFINE c == [k |-> "text", v |-> t.v]
  <2>1. StringWrite(t) = <<c>> /\ c.k # "eocd"
    BY <1>2 DEF StringWrite
  <2> HIDE DEF c
  <2>2. QED
    BY <2>1, OneOrdinary
<1>3. QED
    BY <1>1, <1>2

\* The fields that libzip adds itself.
Held(de) == {de.uncomp, de.comp, de.offset, de.name.v, de.comment.v}

\* The ZIP64 field holds values of the record.
LEMMA Zip64ValuesType ==
    ASSUME NEW de, NEW flags
    PROVE  Zip64Values(de, flags) \in Seq(Held(de))
<1> DEFINE all == <<de.uncomp, de.comp, de.offset>>
           P == {i \in 1..3 : all[i] >= M32}
           H == Held(de)
<1>1. all \in Seq(H) /\ <<de.uncomp, de.comp>> \in Seq(H) /\ <<>> \in Seq(H)
    BY DEF Held
<1>2. Zip64Values(de, flags) \in {<<de.uncomp, de.comp>>, <<>>, Picked(all, P)}
    BY DEF Zip64Values
<1> HIDE DEF all, P, H
<1>3. Picked(all, P) \in Seq(H)
    BY <1>1, PickedType
<1>4. QED
    BY <1>1, <1>2, <1>3 DEF H

\* The fields libzip adds are fields, with ids of their own.
LEMMA InternalType ==
    ASSUME NEW de, NEW flags \in SUBSET Kinds
    PROVE  InternalFields(de, flags) \in Seq(Fields(Internal, Held(de)))
<1> DEFINE F == Fields(Internal, Held(de))
           z == [id |-> "zip64", vals |-> Zip64Values(de, flags), for |-> flags]
           c == [id |-> "ucomment", vals |-> <<de.comment.v, de.comment.v>>, for |-> flags]
           m == [id |-> "uname", vals |-> <<de.name.v, de.name.v>>, for |-> flags]
<1>1. z \in F
    BY Zip64ValuesType DEF Fields, Internal
<1>2. c \in F /\ m \in F
  <2>1. <<de.comment.v, de.comment.v>> \in Seq(Held(de)) /\ <<de.name.v, de.name.v>> \in Seq(Held(de))
    BY DEF Held
  <2>2. QED
    BY <2>1 DEF Fields, Internal
<1>3. InternalFields(de, flags) =
          (IF WritesZip64(de, flags) THEN <<z>> ELSE <<>>)
          \o (IF Utf8Bit(de) THEN <<>>
              ELSE (IF de.comment.enc = "utf8" /\ ~IsLocal(flags) THEN <<c>> ELSE <<>>)
                   \o (IF de.name.enc = "utf8" THEN <<m>> ELSE <<>>))
    BY DEF InternalFields, Utf8Fields, EfUtf8
<1> HIDE DEF z, c, m, F
<1>4. <<z>> \in Seq(F) /\ <<c>> \in Seq(F) /\ <<m>> \in Seq(F) /\ <<>> \in Seq(F)
    BY <1>1, <1>2
<1>5. QED
    BY <1>3, <1>4 DEF F

\* No header looks like an end record.
LEMMA HeaderOrdinary ==
    ASSUME NEW I, NEW V, NEW de, de.efs \in Seq(Fields(I, V)), NEW flags \in {Local, Central}
    PROVE  Ordinary(Header(de, flags))
<1> DEFINE head == HeaderStart(de, flags)
           name == [k |-> "text", v |-> de.name.v]
           fields == HeaderFields(de, flags)
           com == HeaderComment(de, flags)
<1>1. /\ head.k # "eocd"
      /\ Header(de, flags) = <<head>> \o <<name>> \o fields \o com
    BY DEF Header, HeaderStart
<1>2. flags \in SUBSET Kinds
    BY DEF Local, Central, Kinds
<1>3. Ordinary(fields)
  <2>1. Ordinary(EfWrite(InternalFields(de, flags), flags))
    BY <1>2, InternalType, WrittenOrdinary
  <2>2. Ordinary(EfWrite(de.efs, flags))
    BY WrittenOrdinary
  <2>3. QED
    BY <2>1, <2>2, OrdinaryJoined DEF HeaderFields
<1>4. Ordinary(com)
    BY NoneOrdinary, TextOrdinary DEF HeaderComment
<1>5. name.k # "eocd"
    OBVIOUS
<1> HIDE DEF head, name, fields, com
<1>6. Ordinary(<<head>> \o <<name>>)
    BY <1>1, <1>5, OneOrdinary, OrdinaryJoined
<1>7. Ordinary(<<head>> \o <<name>> \o fields)
    BY <1>3, <1>6, OrdinaryJoined
<1>8. QED
    BY <1>1, <1>4, <1>7, OrdinaryJoined

-----------------------------------------------------------------------------
(* Files that have lost their end.                                         *)

\* What looks like an end record in the data or the comment stays what it is.
LEMMA DecoyStays ==
    ASSUME FormatInv, [Next]_vars
    PROVE  comment' = comment /\ (Decoy' <=> Decoy)
<1>1. comment' = comment
  <2>1. ASSUME Next PROVE comment' = comment
    BY <2>1 DEF Next, ExtraFieldSet, ExtraFieldDelete, StartClose, WriteHead, CopySource,
                WriteFinal, CopyEntry, WriteCdir, Tear, Open
  <2>2. QED
    BY <2>1 DEF vars
<1>2. DOMAIN ents' = DOMAIN ents /\ \A i \in DOMAIN ents : ents'[i].nested = ents[i].nested
  <2>1. ASSUME NEW id \in {"x", "y"}, NEW which \in 1..2, NEW vals \in Values, NEW f \in Flags,
               ExtraFieldSet(id, which, vals, f)
        PROVE  \E efs : FieldsOfFirst(efs)
    <3>1. ents' = [ents EXCEPT ![1].efs = EfSet(ents[1].efs, id, which, vals, f)]
      BY <2>1 DEF ExtraFieldSet
    <3>2. QED
      BY <3>1, EditedFields
  <2>2. ASSUME NEW ids \in {{"x"}, {"x", "y"}}, NEW which \in {All, 1, 2}, NEW f \in Flags,
               ExtraFieldDelete(ids, which, f)
        PROVE  \E efs : FieldsOfFirst(efs)
    <3>1. ents' = [ents EXCEPT ![1].efs = EfDelete(ents[1].efs, ids, which, f)]
      BY <2>2 DEF ExtraFieldDelete, FormatInv, RecordsKept, SizedRecord
    <3>2. QED
      BY <3>1, EditedFields
  <2>3. CASE WriteHead \/ CopySource \/ WriteFinal \/ CopyEntry
    BY <2>3, WritingFields DEF SameFields
  <2>4. ASSUME \/ StartClose \/ WriteCdir \/ \E n \in 0..Len(file) - 1 : Tear(n)
               \/ (\E check \in BOOLEAN : Open(check)) \/ UNCHANGED vars
        PROVE  ents' = ents
    BY <2>4 DEF StartClose, WriteCdir, Tear, Open, vars
  <2>5. ASSUME NEW efs, FieldsOfFirst(efs)
        PROVE  DOMAIN ents' = DOMAIN ents /\ \A i \in DOMAIN ents : ents'[i].nested = ents[i].nested
    BY <2>5 DEF FieldsOfFirst
  <2>6. QED
    BY <2>1, <2>2, <2>3, <2>4, <2>5 DEF Next
<1>3. QED
    BY <1>1, <1>2 DEF Decoy

Early == {"edit", "head", "data", "final"}

\* While entries are written, only ordinary cells are.
LEMMA WritesOrdinary ==
    ASSUME TornInv, comment' = comment, Decoy' <=> Decoy, phase \in Early,
           phase' \in Early \cup {"failed"}, torn' = torn, start' \in Nat,
           IsList(file'), ~Decoy /\ Ordinary(file) => Ordinary(file')
    PROVE  TornInv'
<1>1. FileKept'
    BY DEF TornInv, FileKept
<1>2. ~Decoy => Ordinary(file) /\ ~torn
  <2>1. IsList(file) /\ DOMAIN file = 1..Len(file)
    BY ListSeq DEF TornInv, FileKept
  <2>2. QED
    BY <2>1 DEF TornInv, EndIsLast, Early, Ordinary
<1>3. DOMAIN file' = 1..Len(file')
    BY ListSeq
<1>4. EndIsLast'
    BY <1>2, <1>3 DEF EndIsLast, Ordinary
<1>5. TornRefused'
    BY DEF TornRefused, Early
<1>6. QED
    BY <1>1, <1>4, <1>5 DEF TornInv

\* The same, for cells that are added at the end.
LEMMA AppendsOrdinary ==
    ASSUME TornInv, comment' = comment, Decoy' <=> Decoy, phase \in Early, phase' \in Early,
           torn' = torn, start' \in Nat, NEW x, file' = file \o x, IsList(x),
           ~Decoy => Ordinary(x)
    PROVE  TornInv'
<1>1. IsList(file)
    BY DEF TornInv, FileKept
<1>2. Joined(file \o x, file, x)
    BY <1>1, JoinedList
<1>3. IsList(file')
    BY <1>2 DEF Joined
<1>4. ASSUME ~Decoy, Ordinary(file) PROVE Ordinary(file')
    BY <1>4, OrdinaryJoined
<1>5. QED
    BY <1>3, <1>4, WritesOrdinary

\* The data of an entry.
LEMMA DataCellsOrdinary ==
    ASSUME NEW i, NEW n \in Nat
    PROVE  Ordinary(DataCells(i, n))
<1> DEFINE c == [k |-> "data", v |-> i]
           d == DataCells(i, n)
<1>1. d = [j \in 1..n |-> c]
    BY DEF DataCells
<1>2. c.k # "eocd"
    OBVIOUS
<1> HIDE DEF c
<1>3. d \in [1..n -> {c}]
    BY <1>1
<1> HIDE DEF d
<1>4. d \in Seq({c}) /\ Len(d) = n
    BY ONLY <1>3, n \in Nat
<1>5. QED
    BY <1>1, <1>2, <1>4, SeqList DEF Ordinary, d

\* Data looks like an end record only if it holds an archive.
LEMMA DataOrdinary ==
    ASSUME NEW i \in DOMAIN ents, NEW n \in Nat
    PROVE  IsList(DataOf(i, n)) /\ (~Decoy => Ordinary(DataOf(i, n)))
<1>1. CASE ents[i].nested /\ n > 0
  <2> DEFINE d == DataCells(i, n - 1)
  <2>1. DataOf(i, n) = Append(d, EmptyEnd)
    BY <1>1 DEF DataOf
  <2>2. n - 1 \in Nat
    BY <1>1
  <2>3. IsList(d)
    BY <2>2, DataCellsOrdinary DEF Ordinary
  <2> HIDE DEF d
  <2>4. d \in Seq(Elements(d) \cup {EmptyEnd})
    BY <2>3, ListSeq, SeqMonotonic
  <2>5. Append(d, EmptyEnd) \in Seq(Elements(d) \cup {EmptyEnd})
    BY <2>4
  <2>6. Decoy
    BY <1>1 DEF Decoy
  <2>7. QED
    BY <2>1, <2>5, <2>6, SeqList
<1>2. CASE ~(ents[i].nested /\ n > 0)
  <2>1. DataOf(i, n) = DataCells(i, n)
    BY <1>2 DEF DataOf
  <2>2. QED
    BY <2>1, DataCellsOrdinary DEF Ordinary
<1>3. QED
    BY <1>1, <1>2

\* add_data and copy_data write headers and data.
LEMMA WritingTorn ==
    ASSUME FormatInv, FieldsInv, TornInv, comment' = comment, Decoy' <=> Decoy,
           WriteHead \/ CopySource \/ CopyEntry
    PROVE  TornInv'
<1>1. IsList(file) /\ Len(file) \in Nat /\ start \in Nat
    BY DEF TornInv, FileKept, IsList
<1>2. CASE WriteHead
  <2> DEFINE r == [Prepared(ents[cur]) EXCEPT !.offset = Len(file)]
             x == Header(r, Local)
  <2>1. /\ file' = file \o x /\ start' = Len(file) /\ torn' = torn
        /\ phase = "head" /\ phase' = "data" /\ cur \in DOMAIN ents
    BY <1>2 DEF WriteHead, FormatInv, RecordsKept
  <2>2. r.efs = ents[cur].efs
    BY <2>1 DEF Prepared, FormatInv, RecordsKept, SizedRecord
  <2>3. r.efs \in Seq(Fields({"x", "y"}, Units))
    BY <2>1, <2>2 DEF FieldsInv, FieldsKept
  <2> HIDE DEF r
  <2>4. Ordinary(x)
    BY <2>3, HeaderOrdinary
  <2> HIDE DEF x
  <2>5. QED
    BY <1>1, <2>1, <2>4, AppendsOrdinary DEF Early, Ordinary
<1>3. CASE CopySource
  <2>1. PICK n \in Lengths(ents[cur]) : file' = file \o DataOf(cur, n)
    BY <1>3 DEF CopySource
  <2>2. /\ start' = start /\ torn' = torn /\ phase = "data" /\ phase' = "final"
        /\ cur \in DOMAIN ents
    BY <1>3 DEF CopySource, FormatInv, HeadFollowsStat
  <2>3. n \in Nat
    BY <2>1, <2>2, WidthsAssumption DEF FormatInv, RecordsKept, SizedRecord, Lengths
  <2>4. IsList(DataOf(cur, n)) /\ (~Decoy => Ordinary(DataOf(cur, n)))
    BY <2>2, <2>3, DataOrdinary
  <2>5. QED
    BY <1>1, <2>1, <2>2, <2>4, AppendsOrdinary DEF Early
<1>4. CASE CopyEntry
  <2> DEFINE r == [ents[cur] EXCEPT !.offset = Len(file)]
             h == Header(r, Local)
             d == DataOf(cur, r.comp)
  <2>1. /\ file' = file \o h \o d /\ start' = start /\ torn' = torn
        /\ phase = "head" /\ phase' = "head" /\ cur \in DOMAIN ents
    BY <1>4 DEF CopyEntry, FormatInv, RecordsKept
  <2>2. r.efs = ents[cur].efs /\ r.comp \in Nat
    BY <2>1 DEF FormatInv, RecordsKept, SizedRecord
  <2>3. r.efs \in Seq(Fields({"x", "y"}, Units))
    BY <2>1, <2>2 DEF FieldsInv, FieldsKept
  <2> HIDE DEF r
  <2>4. Ordinary(h)
    BY <2>3, HeaderOrdinary
  <2>5. IsList(d) /\ (~Decoy => Ordinary(d))
    BY <2>1, <2>2, DataOrdinary
  <2> HIDE DEF h, d
  <2>6. IsList(h) /\ IsList(file)
    BY <1>1, <2>4 DEF Ordinary
  <2>7. IsList(file \o h)
    BY <2>6, JoinedList DEF Joined
  <2>8. IsList(file')
    BY <2>1, <2>5, <2>7, JoinedList DEF Joined
  <2>9. ASSUME ~Decoy, Ordinary(file) PROVE Ordinary(file')
    <3>1. Ordinary(file \o h)
      BY <2>4, <2>9, OrdinaryJoined
    <3>2. QED
      BY <2>1, <2>5, <2>9, <3>1, OrdinaryJoined
  <2>10. QED
    BY <1>1, <2>1, <2>8, <2>9, WritesOrdinary DEF Early
<1>5. QED
    BY <1>2, <1>3, <1>4

\* add_data writes its header once more.
LEMMA OverwriteOrdinary ==
    ASSUME NEW f, NEW at \in Nat, NEW cells, IsList(f), IsList(cells)
    PROVE  /\ IsList(Overwrite(f, at, cells)) /\ Len(Overwrite(f, at, cells)) = Len(f)
           /\ Ordinary(f) /\ Ordinary(cells) => Ordinary(Overwrite(f, at, cells))
<1> DEFINE o == Overwrite(f, at, cells)
           n == Len(f)
           S == {o[i] : i \in 1..n}
<1>1. /\ n \in Nat /\ Len(cells) \in Nat
      /\ o = [i \in 1..n |-> IF i \in at + 1..at + Len(cells) THEN cells[i - at] ELSE f[i]]
    BY DEF Overwrite, IsList
<1>2. o \in [1..n -> S]
    BY <1>1, Zenon
<1> HIDE DEF o, S, n
<1>3. o \in Seq(S) /\ Len(o) = n
    BY ONLY <1>1, <1>2
<1>4. IsList(o)
    BY <1>3, SeqList
<1>5. ASSUME Ordinary(f), Ordinary(cells), NEW i \in 1..n PROVE o[i].k # "eocd"
  <2>1. CASE i \in at + 1..at + Len(cells)
    <3>1. i - at \in 1..Len(cells) /\ o[i] = cells[i - at]
      BY <1>1, <2>1
    <3>2. QED
      BY <1>5, <3>1 DEF Ordinary
  <2>2. CASE i \notin at + 1..at + Len(cells)
    BY <1>1, <1>5, <2>2 DEF Ordinary, n
  <2>3. QED
    BY <2>1, <2>2
<1>6. QED
    BY <1>3, <1>4, <1>5 DEF Ordinary, o, n

\* Overwriting a header puts no end record in its place.
LEMMA WriteFinalTorn ==
    ASSUME FormatInv, FieldsInv, TornInv, comment' = comment, Decoy' <=> Decoy, WriteFinal
    PROVE  TornInv'
<1> DEFINE r == Versioned(ents[cur])
           h == Header(r, Local)
<1>1. /\ file' = Overwrite(file, start, h) /\ start' = start /\ torn' = torn
      /\ phase = "final" /\ phase' \in {"head", "failed"} /\ cur \in DOMAIN ents
    BY DEF WriteFinal, FormatInv, HeadFollowsStat
<1>2. r.efs = ents[cur].efs
    BY <1>1 DEF Versioned, FormatInv, RecordsKept, SizedRecord
<1>3. r.efs \in Seq(Fields({"x", "y"}, Units))
    BY <1>1, <1>2 DEF FieldsInv, FieldsKept
<1> HIDE DEF r
<1>4. Ordinary(h)
    BY <1>3, HeaderOrdinary
<1> HIDE DEF h
<1>5. IsList(file) /\ start \in Nat /\ IsList(h)
    BY <1>4 DEF TornInv, FileKept, Ordinary
<1>6. IsList(file') /\ (Ordinary(file) => Ordinary(file'))
    BY <1>1, <1>4, <1>5, OverwriteOrdinary
<1>7. QED
    BY <1>1, <1>5, <1>6, WritesOrdinary DEF Early

\* The central directory is a list of headers.
LEMMA CdirOrdinary ==
    ASSUME FormatInv, FieldsInv
    PROVE  Ordinary(FlattenSeq([i \in DOMAIN ents |-> Header(ents[i], Central)]))
<1> DEFINE n == Len(ents)
           h(i) == Header(ents[i], Central)
           hs == [i \in DOMAIN ents |-> h(i)]
           S == {c \in UNION {Elements(h(i)) : i \in 1..n} : c.k # "eocd"}
<1>1. n \in Nat /\ DOMAIN ents = 1..n
    BY DEF FormatInv, RecordsKept
<1>2. ASSUME NEW i \in 1..n PROVE h(i) \in Seq(S)
  <2>1. ents[i].efs \in Seq(Fields({"x", "y"}, Units))
    BY <1>1 DEF FieldsInv, FieldsKept
  <2>2. Ordinary(h(i))
    BY <2>1, HeaderOrdinary
  <2>3. h(i) \in Seq(Elements(h(i)))
    BY <2>2, ListSeq DEF Ordinary
  <2>4. Elements(h(i)) \subseteq S
    BY <2>2 DEF Elements, Ordinary
  <2> HIDE DEF h, S
  <2>5. QED
    BY <2>3, <2>4, SeqMonotonic
<1>3. hs \in [1..n -> Seq(S)]
  <2> HIDE DEF h, S, n
  <2>1. QED
    BY <1>1, <1>2
<1>4. \A c \in S : c.k # "eocd"
    OBVIOUS
<1> DEFINE w == FlattenSeq(hs)
<1>5. w \in Seq(S)
  <2> HIDE DEF hs, S, n
  <2>1. hs \in Seq(Seq(S))
    BY ONLY <1>1, <1>3
  <2>2. QED
    BY <2>1, FlattenType
<1> HIDE DEF w, S
<1>6. IsList(w) /\ \A i \in 1..Len(w) : w[i] \in S
    BY <1>5, SeqList
<1>7. Ordinary(w)
    BY <1>4, <1>6 DEF Ordinary
<1>8. QED
    BY <1>7 DEF w

\* The end records end with the one that gives the length of the comment.
LEMMA EndRecordsEnd ==
    ASSUME NEW n, NEW offset, NEW size
    PROVE  Ending(EndRecords(n, offset, size), Len(comment))
<1> DEFINE e == [k |-> "eocd", n |-> IF n < M16 THEN n ELSE M16, size |-> Capped(size),
                 offset |-> Capped(offset), comlen |-> Len(comment)]
           a == [k |-> "eocd64", n |-> n, size |-> size, offset |-> offset]
           b == [k |-> "loc64", at |-> offset + size]
<1>1. EndRecords(n, offset, size) \in {<<a, b>> \o <<e>>, <<>> \o <<e>>}
    BY DEF EndRecords
<1>2. a.k # "eocd" /\ b.k # "eocd" /\ e.comlen = Len(comment)
    OBVIOUS
<1> HIDE DEF a, b, e
<1>3. Ordinary(<<a, b>>)
  <2>1. <<a, b>> \in Seq({a, b}) /\ Len(<<a, b>>) = 2 /\ <<a, b>>[1] = a /\ <<a, b>>[2] = b
    OBVIOUS
  <2>2. IsList(<<a, b>>)
    BY <2>1, SeqList
  <2>3. QED
    BY <1>2, <2>1, <2>2 DEF Ordinary
<1>4. Ending(<<e>>, Len(comment))
  <2>1. <<e>> \in Seq({e}) /\ Len(<<e>>) = 1 /\ <<e>>[1] = e
    OBVIOUS
  <2>2. IsList(<<e>>)
    BY <2>1, SeqList
  <2>3. QED
    BY <1>2, <2>1, <2>2 DEF Ending
<1>5. Ending(<<a, b>> \o <<e>>, Len(comment)) /\ Ending(<<>> \o <<e>>, Len(comment))
    BY <1>3, <1>4, NoneOrdinary, EndingJoined
<1>6. QED
    BY <1>1, <1>5

\* The directory ends with the one end record, and its comment behind it.
LEMMA WriteCdirTorn ==
    ASSUME FormatInv, FieldsInv, TornInv, comment' = comment, Decoy' <=> Decoy, WriteCdir
    PROVE  TornInv'
<1> DEFINE cdir == FlattenSeq([i \in DOMAIN ents |-> Header(ents[i], Central)])
           ends == EndRecords(Len(ents), Len(file), Len(cdir))
           most == file \o cdir \o ends
<1>1. /\ file' = most \o comment /\ start' = start /\ torn' = torn
      /\ phase = "head" /\ phase' = "written"
    BY DEF WriteCdir
<1>2. Ordinary(cdir) /\ Ending(ends, Len(comment))
    BY CdirOrdinary, EndRecordsEnd
<1>3. IsList(file) /\ IsList(comment) /\ start \in Nat
    BY DEF TornInv, FileKept
<1> HIDE DEF cdir, ends
<1>4. IsList(file \o cdir) /\ IsList(most)
    BY <1>2, <1>3, JoinedList DEF Joined, Ordinary, Ending
<1>5. ASSUME ~Decoy PROVE Ending(most, Len(comment)) /\ Ordinary(comment) /\ ~torn
  <2>1. DOMAIN file = 1..Len(file) /\ DOMAIN comment = 1..Len(comment)
    BY <1>3, ListSeq
  <2>2. Ordinary(file) /\ ~torn
    BY <1>1, <1>3, <1>5, <2>1 DEF TornInv, EndIsLast, Ordinary
  <2>3. Ordinary(comment)
    BY <1>3, <1>5, <2>1 DEF Decoy, Ordinary
  <2>4. Ordinary(file \o cdir)
    BY <1>2, <2>2, OrdinaryJoined
  <2>5. QED
    BY <1>2, <2>2, <2>3, <2>4, EndingJoined
<1> HIDE DEF most
<1>6. Joined(file', most, comment)
    BY <1>1, <1>3, <1>4, JoinedList
<1>7. IsList(file') /\ DOMAIN file' = 1..Len(file')
    BY <1>6, ListSeq DEF Joined
<1>8. ASSUME ~Decoy, NEW i \in 1..Len(file'), file'[i].k = "eocd"
      PROVE  file'[i].comlen \in Nat /\ i + file'[i].comlen = Len(file')
  <2>1. i \in 1..Len(most) /\ file'[i] = most[i]
    BY <1>5, <1>6, <1>8, JoinedCell DEF Ordinary
  <2>2. i = Len(most) /\ file'[i].comlen = Len(comment)
    BY <1>5, <1>8, <2>1 DEF Ending
  <2>3. QED
    BY <1>6, <2>2 DEF Joined
<1>9. EndIsLast'
    BY <1>1, <1>5, <1>7, <1>8 DEF EndIsLast
<1>10. QED
    BY <1>1, <1>3, <1>7, <1>9 DEF TornInv, FileKept, TornRefused

\* Losing the end of the file: of a comment something is missing.
LEMMA TearTorn ==
    ASSUME TornInv, comment' = comment, Decoy' <=> Decoy, NEW n \in 0..Len(file) - 1, Tear(n)
    PROVE  TornInv'
<1>1. /\ file' = SubSeq(file, 1, n) /\ torn' = TRUE /\ ~torn /\ phase' = "written"
      /\ phase = "written" /\ start' = start
    BY DEF Tear
<1>2. IsList(file) /\ IsList(comment) /\ start \in Nat
    BY DEF TornInv, FileKept
<1>3. Len(file) \in Nat /\ DOMAIN file = 1..Len(file)
    BY <1>2, ListSeq
<1>4. n \in Nat /\ n < Len(file)
    BY <1>3
<1>5. file' \in Seq(Elements(file)) /\ Len(file') = n /\ \A i \in 1..n : file'[i] = file[i]
  <2>1. \A i \in 1..n : file[i] \in Elements(file)
    BY <1>3 DEF Elements
  <2>2. QED
    BY <1>1, <1>4, <2>1, SubSeqProperties
<1>6. IsList(file') /\ DOMAIN file' = 1..n
    BY <1>5, SeqList
<1>7. ASSUME ~Decoy, NEW i \in 1..n, file'[i].k = "eocd"
      PROVE  file'[i].comlen \in Nat /\ i + file'[i].comlen > Len(file')
  <2>1. file'[i] = file[i] /\ i \in DOMAIN file
    BY <1>3, <1>5
  <2>2. file[i].comlen \in Nat /\ i + file[i].comlen = Len(file)
    BY <1>1, <1>7, <2>1 DEF TornInv, EndIsLast
  <2>3. QED
    BY <1>4, <1>5, <2>1, <2>2
<1>8. EndIsLast'
    BY <1>1, <1>6, <1>7 DEF EndIsLast
<1>9. QED
    BY <1>1, <1>2, <1>6, <1>8 DEF TornInv, FileKept, TornRefused

\* _zip_find_central_dir takes no directory when the comment behind each end
\* record is too short.
LEMMA TornNotFound ==
    ASSUME IsList(file), NEW check,
           \A i \in 1..Len(file) : file[i].k = "eocd" =>
               file[i].comlen \in Nat /\ i + file[i].comlen > Len(file)
    PROVE  FindCentralDir(check).best = 0
<1> DEFINE n == Len(file)
           lo == IF Len(file) < BufSize THEN 0 ELSE BufOffset + 1
           at == [i \in 1..Len(file) |-> i - 1]
           P == {i \in 1..Len(file) : i - 1 >= lo /\ Cell(i - 1).k = "eocd"}
           ends == Picked(at, P)
           none == [best |-> 0, cd |-> NoZip]
           Loop(f) == f = [k \in 0..Len(ends) |->
                              IF k = 0 THEN none
                              ELSE Candidate(f[k - 1], ReadCdir(ends[k], check), check)]
<1>1. n \in Nat
    BY DEF IsList
<1>2. at \in Seq(Int) /\ Len(at) = n
  <2>1. at \in [1..n -> Int]
    OBVIOUS
  <2> HIDE DEF at, n
  <2>2. QED
    BY ONLY <1>1, <2>1
<1>3. ASSUME NEW i \in P PROVE ~ReadCdir(i - 1, check).ok
  <2>1. i \in 1..n /\ i - 1 < n /\ (i - 1) + 1 = i
    BY <1>1
  <2>2. Cell(i - 1) = file[i] /\ file[i].k = "eocd"
    BY <2>1 DEF Cell
  <2>3. file[i].comlen \in Nat /\ i + file[i].comlen > Len(file)
    BY <2>1, <2>2
  <2>4. n - ((i - 1) + 1) < file[i].comlen
    BY <1>1, <2>1, <2>3
  <2>5. \E cd : ReadCdir(i - 1, check) = ReadClaimed(cd, i - 1, n - ((i - 1) + 1), file[i].comlen, check)
    BY <2>2 DEF ReadCdir
  <2>6. QED
    BY <2>4, <2>5 DEF ReadClaimed, NoZip
<1>4. ASSUME NEW k \in 1..Len(ends) PROVE ~ReadCdir(ends[k], check).ok
  <2> DEFINE X == {at[i] : i \in {i \in 1..Len(at) : i \in P}}
  <2> HIDE DEF at, P
  <2>1. ends \in Seq(X)
    BY ONLY <1>2, PickedFrom
  <2>2. ends[k] \in X
    <3> HIDE DEF ends, X
    <3>1. QED
      BY <2>1
  <2>3. PICK i \in P : ends[k] = at[i]
    BY <2>2
  <2>4. ends[k] = i - 1
    BY <2>3 DEF at, P
  <2>5. QED
    BY <1>3, <2>4
<1>5. Len(ends) \in Nat
  <2> HIDE DEF at, P
  <2>1. ends \in Seq(Int)
    BY <1>2, PickedType
  <2>2. QED
    BY <2>1
<1> DEFINE m == Len(ends)
           f == CHOOSE f : Loop(f)
<1>6. FindCentralDir(check) = f[m]
    BY DEF FindCentralDir
<1> HIDE DEF ends
<1>7. ASSUME NEW k \in 1..m PROVE Candidate(none, ReadCdir(ends[k], check), check) = none
    BY <1>4 DEF Candidate
<1> HIDE DEF none, m
<1>8. Loop([k \in 0..m |-> none])
  <2>1. \A k \in 0..m : k # 0 => k \in 1..m /\ k - 1 \in 0..m
    BY <1>5 DEF m
  <2>2. QED
    BY <1>7, <2>1 DEF m
<1>9. Loop(f)
    BY <1>8
<1> HIDE DEF f
<1> DEFINE T == {k \in 0..m : f[k] = none}
<1>10. 0 \in T /\ \A k \in 0..m - 1 : k \in T => k + 1 \in T
  <2>0. m \in Nat
    BY <1>5 DEF m
  <2>1. 0 \in T
    BY <1>9, <2>0 DEF m
  <2>2. ASSUME NEW k \in 0..m - 1, k \in T PROVE k + 1 \in T
    <3>1. k + 1 \in 0..m /\ k + 1 \in 1..m /\ k + 1 # 0 /\ (k + 1) - 1 = k
      BY <2>0
    <3>2. f[k + 1] = Candidate(f[k], ReadCdir(ends[k + 1], check), check)
      BY <1>9, <3>1 DEF m
    <3>3. QED
      BY <1>7, <2>2, <3>1, <3>2
  <2>3. QED
    BY <2>1, <2>2
<1>11. f[m] = none
  <2> HIDE DEF T
  <2>1. m \in Nat /\ \A k \in 0..m : k \in T
    BY <1>5, <1>10, UpTo DEF m
  <2>2. QED
    BY <2>1 DEF T
<1>12. QED
    BY <1>6, <1>11 DEF none

\* zip_open finds nothing in a torn file.
LEMMA OpenTorn ==
    ASSUME TornInv, comment' = comment, Decoy' <=> Decoy, NEW check, Open(check)
    PROVE  TornInv'
<1>1. /\ file' = file /\ torn' = torn /\ start' = start /\ phase = "written"
      /\ phase' \in {"opened", "rejected"} /\ (FindCentralDir(check).best = 0 => phase' = "rejected")
    BY DEF Open
<1>2. IsList(file) /\ DOMAIN file = 1..Len(file)
    BY ListSeq DEF TornInv, FileKept
<1>3. ASSUME torn, ~Decoy PROVE phase' = "rejected"
  <2>1. \A i \in 1..Len(file) : file[i].k = "eocd" =>
            file[i].comlen \in Nat /\ i + file[i].comlen > Len(file)
    BY <1>2, <1>3 DEF TornInv, EndIsLast
  <2>2. QED
    BY <1>1, <1>2, <2>1, TornNotFound
<1>4. FileKept' /\ EndIsLast'
    BY <1>1 DEF TornInv, FileKept, EndIsLast
<1>5. TornRefused'
    BY <1>1, <1>3 DEF TornRefused
<1>6. QED
    BY <1>4, <1>5 DEF TornInv

\* The end records of a file that zip_close has written, whole or not.
THEOREM TornInvariance == Spec => []TornInv
<1>1. Init => TornInv
  <2> SUFFICES ASSUME Init PROVE TornInv
    OBVIOUS
  <2>1. /\ file = <<[k |-> "prefix"]>> /\ start = 0 /\ ~torn /\ phase = "edit"
    BY DEF Init
  <2>2. IsList(comment)
    BY ScenariosAssumption, SeqList DEF Init
  <2>3. Ordinary(file)
    BY <2>1, OneOrdinary
  <2>4. DOMAIN file = 1..Len(file)
    BY <2>3, ListSeq DEF Ordinary
  <2>5. QED
    BY <2>1, <2>2, <2>3, <2>4 DEF TornInv, FileKept, EndIsLast, TornRefused, Ordinary
<1>2. TornInv /\ FormatInv /\ FieldsInv /\ [Next]_vars => TornInv'
  <2> SUFFICES ASSUME TornInv, FormatInv, FieldsInv, [Next]_vars PROVE TornInv'
    OBVIOUS
  <2>1. comment' = comment /\ (Decoy' <=> Decoy)
    BY DecoyStays
  <2>2. ASSUME \/ \E id \in {"x", "y"}, which \in 1..2, vals \in Values, f \in Flags :
                     ExtraFieldSet(id, which, vals, f)
               \/ \E ids \in {{"x"}, {"x", "y"}}, which \in {All, 1, 2}, f \in Flags :
                     ExtraFieldDelete(ids, which, f)
               \/ StartClose
        PROVE  TornInv'
    <3>1. /\ phase = "edit" /\ phase' \in {"edit", "head"} /\ file' = file /\ torn' = torn
          /\ start' = start
      BY <2>2 DEF ExtraFieldSet, ExtraFieldDelete, StartClose
    <3>2. QED
      BY <2>1, <3>1 DEF TornInv, FileKept, EndIsLast, TornRefused
  <2>3. CASE WriteHead \/ CopySource \/ CopyEntry
    BY <2>1, <2>3, WritingTorn
  <2>4. CASE WriteFinal
    BY <2>1, <2>4, WriteFinalTorn
  <2>5. CASE WriteCdir
    BY <2>1, <2>5, WriteCdirTorn
  <2>6. ASSUME NEW n \in 0..Len(file) - 1, Tear(n) PROVE TornInv'
    BY <2>1, <2>6, TearTorn
  <2>7. ASSUME NEW check \in BOOLEAN, Open(check) PROVE TornInv'
    BY <2>1, <2>7, OpenTorn
  <2>8. CASE UNCHANGED vars
    BY <2>1, <2>8 DEF vars, TornInv, FileKept, EndIsLast, TornRefused
  <2>9. QED
    BY <2>2, <2>3, <2>4, <2>5, <2>6, <2>7, <2>8 DEF Next
<1>3. QED
    BY <1>1, <1>2, FormatInvariance, FieldsInvariance, PTL DEF Spec

\* zip_open refuses every file that has lost its end, be it one byte of the
\* archive comment, unless data or comment hold what looks like the end of
\* an archive: whatever the entries, wherever the file was cut.
THEOREM TornFilesRefused == Spec => []TornRefused
<1>1. TornInv => TornRefused
    BY DEF TornInv
<1>2. QED
    BY <1>1, TornInvariance, PTL
=============================================================================
