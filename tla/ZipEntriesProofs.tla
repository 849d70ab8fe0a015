-------------------------- MODULE ZipEntriesProofs --------------------------
(***************************************************************************)
(* The proofs about ZipEntries: what the hash table of names finds after   *)
(* each operation, whatever its size; what each call does to one entry;    *)
(* and the inductive invariant EntriesInv with the properties that follow. *)
(***************************************************************************)
EXTENDS ZipEntries, FiniteSetTheorems, SequenceTheorems, TLAPS

-----------------------------------------------------------------------------
(* The hash table.                                                         *)

\* A key is found exactly if it is in the table: it is in its bucket.
LEMMA FoundKey ==
    ASSUME NEW h, HashType(h), NEW n
    PROVE  Found(h, n) <=> n \in DOMAIN h.ent
<1>1. IsFiniteSet(DOMAIN h.ent)
    BY NamesAssumption, FS_Subset DEF HashType
<1>2. n \in DOMAIN h.ent => Count(h) > 0
    BY <1>1, FS_CardinalityType, FS_EmptySet DEF Count
<1>3. n \in DOMAIN h.ent => h.ent[n].at = HashOf[n] % h.size
    BY DEF HashType
<1>4. QED
    BY <1>2, <1>3 DEF Found

\* What a key says, without its bucket.
LEMMA LookupKey ==
    ASSUME NEW h, HashType(h), NEW n
    PROVE  /\ Lookup(h, n) = IF n \in DOMAIN h.ent THEN h.ent[n].cur ELSE 0
           /\ Lookup(h, n) \in 0..MaxEntries
           /\ OrigOf(h, n) \in 0..MaxEntries
<1>1. Lookup(h, n) = IF n \in DOMAIN h.ent THEN h.ent[n].cur ELSE 0
    BY FoundKey DEF Lookup
<1>2. n \in DOMAIN h.ent => h.ent[n].cur \in 0..MaxEntries /\ h.ent[n].orig \in 0..MaxEntries
    BY DEF HashType
<1>3. 0 \in 0..MaxEntries
    BY MaxEntriesAssumption
<1>4. QED
    BY <1>1, <1>2, <1>3 DEF OrigOf

\* Two tables that say the same of a name.
SameKey(g, h, m) == Lookup(g, m) = Lookup(h, m) /\ OrigOf(g, m) = OrigOf(h, m)

\* hash_resize moves keys between buckets and loses none, whatever the size.
LEMMA ResizeKeeps ==
    ASSUME NEW h, NEW s,
           DOMAIN h.ent \subseteq Names,
           \A n \in DOMAIN h.ent : \E b :
              h.ent[n] \in [orig : 0..MaxEntries, cur : 0..MaxEntries, at : {b}]
    PROVE  /\ HashType(Resize(h, s))
           /\ DOMAIN Resize(h, s).ent = DOMAIN h.ent
           /\ \A n \in DOMAIN h.ent : /\ Resize(h, s).ent[n].cur = h.ent[n].cur
                                      /\ Resize(h, s).ent[n].orig = h.ent[n].orig
<1> DEFINE k(n) == [h.ent[n] EXCEPT !.at = HashOf[n] % s]
           f == [n \in DOMAIN h.ent |-> k(n)]
<1>1. Resize(h, s) = [size |-> s, ent |-> f]
    BY DEF Resize
<1>2. ASSUME NEW n \in DOMAIN h.ent
      PROVE  /\ f[n] = k(n)
             /\ k(n) \in [orig : 0..MaxEntries, cur : 0..MaxEntries, at : {HashOf[n] % s}]
             /\ k(n).cur = h.ent[n].cur /\ k(n).orig = h.ent[n].orig
  <2>1. PICK b : h.ent[n] \in [orig : 0..MaxEntries, cur : 0..MaxEntries, at : {b}]
      OBVIOUS
  <2>2. QED
      BY <2>1
<1>3. DOMAIN f = DOMAIN h.ent
    OBVIOUS
<1> HIDE DEF f, k
<1>4. QED
    BY <1>1, <1>2, <1>3 DEF HashType

\* Growing and shrinking lose nothing.
LEMMA GrownShrunkKeep ==
    ASSUME NEW h, HashType(h)
    PROVE  /\ HashType(Grown(h)) /\ HashType(Shrunk(h))
           /\ \A m : SameKey(Grown(h), h, m) /\ SameKey(Shrunk(h), h, m)
<1>1. \A n \in DOMAIN h.ent : \E b :
              h.ent[n] \in [orig : 0..MaxEntries, cur : 0..MaxEntries, at : {b}]
    BY DEF HashType
<1>2. ASSUME NEW s
      PROVE  HashType(Resize(h, s)) /\ \A m : SameKey(Resize(h, s), h, m)
  <2>0. DOMAIN h.ent \subseteq Names
      BY DEF HashType
  <2>1. /\ HashType(Resize(h, s))
        /\ DOMAIN Resize(h, s).ent = DOMAIN h.ent
        /\ \A n \in DOMAIN h.ent : /\ Resize(h, s).ent[n].cur = h.ent[n].cur
                                   /\ Resize(h, s).ent[n].orig = h.ent[n].orig
      BY ResizeKeeps, <1>1, <2>0
  <2>2. QED
      BY <2>1, LookupKey DEF SameKey, OrigOf
<1>3. QED
    BY <1>2 DEF Grown, Shrunk, SameKey

\* _zip_hash_add points the name to the entry and leaves every other name, and
\* what the archive had, alone.
LEMMA AddKeeps ==
    ASSUME NEW h, HashType(h), NEW n \in Names, NEW i \in 0..MaxEntries
    PROVE  /\ HashType(HashAdd(h, n, i, FALSE))
           /\ Lookup(HashAdd(h, n, i, FALSE), n) = i
           /\ \A m : OrigOf(HashAdd(h, n, i, FALSE), m) = OrigOf(h, m)
           /\ \A m : m # n => Lookup(HashAdd(h, n, i, FALSE), m) = Lookup(h, m)
<1>1. CASE n \in DOMAIN h.ent
  <2> DEFINE k == [orig |-> h.ent[n].orig, cur |-> i, at |-> h.ent[n].at]
             f == [m \in DOMAIN h.ent |-> IF m = n THEN k ELSE h.ent[m]]
             g == [size |-> h.size, ent |-> f]
  <2>1. h.ent[n] \in [orig : 0..MaxEntries, cur : 0..MaxEntries, at : {HashOf[n] % h.size}]
      BY <1>1 DEF HashType
  <2>2. HashAdd(h, n, i, FALSE) = [h EXCEPT !.ent[n].cur = i, !.ent[n].orig = @]
      BY <1>1, FoundKey DEF HashAdd
  <2>3. h = [size |-> h.size, ent |-> h.ent]
      BY DEF HashType
  <2>4. [h EXCEPT !.ent[n].cur = i, !.ent[n].orig = @]
          = [h EXCEPT !.ent = [h.ent EXCEPT ![n] = [h.ent[n] EXCEPT !.cur = i]]]
      BY <2>3, <2>1, <1>1
  <2>5. [h.ent[n] EXCEPT !.cur = i] = k
      BY <2>1
  <2>6. [h.ent EXCEPT ![n] = [h.ent[n] EXCEPT !.cur = i]] = f
      BY <2>5, <1>1
  <2>7. HashAdd(h, n, i, FALSE) = g
      BY <2>2, <2>3, <2>4, <2>6
  <2>8. HashType(g)
      BY <2>1, <1>1 DEF HashType
  <2>9. /\ DOMAIN g.ent = DOMAIN h.ent
        /\ g.ent[n].cur = i /\ g.ent[n].orig = h.ent[n].orig
        /\ \A m \in DOMAIN h.ent : m # n => g.ent[m] = h.ent[m]
      BY <1>1
  <2> HIDE DEF g, f, k
  <2>10. /\ Lookup(g, n) = i
         /\ \A m : m # n => Lookup(g, m) = Lookup(h, m)
      BY <1>1, <2>8, <2>9, LookupKey
  <2>11. \A m : OrigOf(g, m) = OrigOf(h, m)
      BY <2>9 DEF OrigOf
  <2>12. QED
      BY <2>7, <2>8, <2>10, <2>11
<1>2. CASE n \notin DOMAIN h.ent
  <2> DEFINE t == IF h.size = 0 THEN Resize(h, MinSize) ELSE h
             key == [orig |-> 0, cur |-> i, at |-> HashOf[n] % t.size]
             f == [m \in DOMAIN h.ent \cup {n} |-> IF m = n THEN key ELSE t.ent[m]]
             g == [size |-> t.size, ent |-> f]
  <2>1. g = Linked(h, n, i, FALSE)
      BY DEF Linked
  <2>2. /\ \A m \in DOMAIN h.ent : \E b :
              h.ent[m] \in [orig : 0..MaxEntries, cur : 0..MaxEntries, at : {b}]
        /\ DOMAIN h.ent \subseteq Names
      BY DEF HashType
  <2>3. /\ HashType(t)
        /\ DOMAIN t.ent = DOMAIN h.ent
        /\ \A m \in DOMAIN h.ent : /\ t.ent[m].cur = h.ent[m].cur
                                   /\ t.ent[m].orig = h.ent[m].orig
      BY <2>2, ResizeKeeps
  <2> HIDE DEF t
  <2>4. 0 \in 0..MaxEntries
      BY MaxEntriesAssumption
  <2>5. HashType(g)
      BY <2>2, <2>3, <2>4 DEF HashType
  <2>6. /\ DOMAIN g.ent = DOMAIN h.ent \cup {n}
        /\ g.ent[n].cur = i /\ g.ent[n].orig = 0
        /\ \A m \in DOMAIN h.ent : m # n => g.ent[m] = t.ent[m]
      OBVIOUS
  <2>7. HashAdd(h, n, i, FALSE) = Grown(g)
      BY <1>2, <2>1, FoundKey DEF HashAdd
  <2> HIDE DEF g
  <2>8. /\ Lookup(g, n) = i
        /\ \A m : OrigOf(g, m) = OrigOf(h, m)
        /\ \A m : m # n => Lookup(g, m) = Lookup(h, m)
      BY <1>2, <2>3, <2>5, <2>6, LookupKey DEF OrigOf
  <2>9. QED
      BY <2>5, <2>7, <2>8, GrownShrunkKeep DEF SameKey
<1>3. QED
    BY <1>1, <1>2

\* _zip_hash_delete takes one name out, and leaves what the archive had.
LEMMA DeleteKeeps ==
    ASSUME NEW h, HashType(h), NEW n
    PROVE  /\ HashType(HashDelete(h, n))
           /\ Lookup(HashDelete(h, n), n) = 0
           /\ \A m : OrigOf(HashDelete(h, n), m) = OrigOf(h, m)
           /\ \A m : m # n => Lookup(HashDelete(h, n), m) = Lookup(h, m)
<1>0. 0 \in 0..MaxEntries
    BY MaxEntriesAssumption
<1>1. CASE n \notin DOMAIN h.ent
    BY <1>1, FoundKey, LookupKey DEF HashDelete
<1>2. CASE n \in DOMAIN h.ent /\ h.ent[n].orig # 0
  <2> DEFINE k == [orig |-> h.ent[n].orig, cur |-> 0, at |-> h.ent[n].at]
             f == [m \in DOMAIN h.ent |-> IF m = n THEN k ELSE h.ent[m]]
             g == [size |-> h.size, ent |-> f]
  <2>1. h.ent[n] \in [orig : 0..MaxEntries, cur : 0..MaxEntries, at : {HashOf[n] % h.size}]
      BY <1>2 DEF HashType
  <2>2. HashDelete(h, n) = [h EXCEPT !.ent[n].cur = 0]
      BY <1>2, FoundKey DEF HashDelete
  <2>3. h = [size |-> h.size, ent |-> h.ent]
      BY DEF HashType
  <2>4. [h.ent[n] EXCEPT !.cur = 0] = k
      BY <2>1
  <2>5. [h.ent EXCEPT ![n] = [h.ent[n] EXCEPT !.cur = 0]] = f
      BY <2>4, <1>2
  <2>6. HashDelete(h, n) = g
      BY <2>2, <2>3, <2>5
  <2>7. HashType(g)
      BY <2>1, <1>2, <1>0 DEF HashType
  <2>8. DOMAIN g.ent = DOMAIN h.ent /\ g.ent[n] = k
        /\ \A m \in DOMAIN h.ent : m # n => g.ent[m] = h.ent[m]
      BY <1>2
  <2> HIDE DEF g, f
  <2>9. QED
      BY <1>2, <2>6, <2>7, <2>8, LookupKey DEF OrigOf
<1>3. CASE n \in DOMAIN h.ent /\ h.ent[n].orig = 0
  <2> DEFINE f == [m \in DOMAIN h.ent \ {n} |-> h.ent[m]]
             g == [size |-> h.size, ent |-> f]
  <2>1. HashDelete(h, n) = Shrunk([h EXCEPT !.ent = f])
      BY <1>3, FoundKey DEF HashDelete
  <2>2. h = [size |-> h.size, ent |-> h.ent]
      BY DEF HashType
  <2>3. HashDelete(h, n) = Shrunk(g)
      BY <2>1, <2>2
  <2>4. HashType(g)
      BY DEF HashType
  <2>5. /\ DOMAIN g.ent = DOMAIN h.ent \ {n}
        /\ \A m \in DOMAIN h.ent : m # n => g.ent[m] = h.ent[m]
      OBVIOUS
  <2> HIDE DEF g, f
  <2>6. /\ Lookup(g, n) = 0
        /\ \A m : OrigOf(g, m) = OrigOf(h, m)
        /\ \A m : m # n => Lookup(g, m) = Lookup(h, m)
      BY <1>3, <2>4, <2>5, LookupKey DEF OrigOf
  <2>7. QED
      BY <2>3, <2>4, <2>6, GrownShrunkKeep DEF SameKey
<1>4. QED
    BY <1>1, <1>2, <1>3

\* _zip_hash_revert: every name finds the entry it had in the archive.
LEMMA RevertKeeps ==
    ASSUME NEW h, HashType(h)
    PROVE  LET g == HashRevert(h) IN
           /\ HashType(g)
           /\ \A m : OrigOf(g, m) = OrigOf(h, m) /\ Lookup(g, m) = OrigOf(h, m)
<1> DEFINE kept == {n \in DOMAIN h.ent : h.ent[n].orig # 0}
           f == [n \in kept |-> [orig |-> h.ent[n].orig, cur |-> h.ent[n].orig,
                                 at |-> h.ent[n].at]]
           g == [size |-> h.size, ent |-> f]
           h1 == [h EXCEPT !.ent =
                    [n \in kept |-> [h.ent[n] EXCEPT !.cur = h.ent[n].orig]]]
<1>1. h = [size |-> h.size, ent |-> h.ent]
    BY DEF HashType
<1>2. \A n \in kept : [h.ent[n] EXCEPT !.cur = h.ent[n].orig]
                        = [orig |-> h.ent[n].orig, cur |-> h.ent[n].orig, at |-> h.ent[n].at]
    BY DEF HashType
<1>3. [n \in kept |-> [h.ent[n] EXCEPT !.cur = h.ent[n].orig]] = f
    BY <1>2
<1>4. h1 = g
    BY <1>1, <1>3
<1>5. HashType(g)
    BY DEF HashType
<1>6. \A m : OrigOf(g, m) = OrigOf(h, m)
    BY DEF OrigOf
<1>7. DOMAIN g.ent = kept /\ \A n \in kept : g.ent[n].cur = h.ent[n].orig
    OBVIOUS
<1>8. \A m : Lookup(g, m) = OrigOf(h, m)
    BY <1>5, <1>7, LookupKey DEF OrigOf
<1>9. \E s : HashRevert(h) \in {g, Resize(g, s)}
    BY <1>4 DEF HashRevert
<1> HIDE DEF g
<1>10. ASSUME NEW s
       PROVE  HashType(Resize(g, s)) /\ \A m : SameKey(Resize(g, s), g, m)
  <2>0. /\ DOMAIN g.ent \subseteq Names
        /\ \A n \in DOMAIN g.ent : \E b :
              g.ent[n] \in [orig : 0..MaxEntries, cur : 0..MaxEntries, at : {b}]
      BY <1>5 DEF HashType
  <2>1. /\ HashType(Resize(g, s))
        /\ DOMAIN Resize(g, s).ent = DOMAIN g.ent
        /\ \A n \in DOMAIN g.ent : /\ Resize(g, s).ent[n].cur = g.ent[n].cur
                                   /\ Resize(g, s).ent[n].orig = g.ent[n].orig
      BY ResizeKeeps, <2>0
  <2>2. QED
      BY <2>1, <1>5, LookupKey DEF SameKey, OrigOf
<1>11. QED
    BY <1>5, <1>6, <1>8, <1>9, <1>10 DEF SameKey

-----------------------------------------------------------------------------
(* One entry.                                                              *)

\* A record of changes is not the absence of one.
LEMMA ChangesTyped ==
    ASSUME NEW e \in EntryType
    PROVE  /\ NoChanges \notin ChangesType
           /\ e.changes # NoChanges => e.changes \in ChangesType
           /\ Changes(e) \in ChangesType
           /\ NoChanges.bits = {}
<1>1. NoChanges \notin ChangesType
  <2>1. "name" \notin DOMAIN NoChanges
      BY DEF NoChanges
  <2>2. \A c \in ChangesType : "name" \in DOMAIN c
      BY DEF ChangesType
  <2>3. QED
      BY <2>1, <2>2
<1>2. Clone(e) \in ChangesType
    BY DEF Clone, ChangesType, EntryType, OrigMethod, Methods
<1>3. e.changes # NoChanges => e.changes \in ChangesType
    BY DEF EntryType
<1>4. NoChanges.bits = {}
    BY DEF NoChanges
<1>5. QED
    BY <1>1, <1>2, <1>3, <1>4 DEF Changes

\* The fields of a record of changes.
Record(b, n, m, t, a) == [bits |-> b, name |-> n, method |-> m, mtime |-> t, attr |-> a]

With(e, c) == [orig |-> e.orig, changes |-> c, source |-> e.source, deleted |-> e.deleted]

\* What EXCEPT does to the changes of an entry.
LEMMA WithExcept ==
    ASSUME NEW e \in EntryType
    PROVE  /\ e = With(e, e.changes)
           /\ \A r : [e EXCEPT !.changes = r] = With(e, r)
<1>1. e = With(e, e.changes)
    BY DEF EntryType, With
<1>2. ASSUME NEW o, NEW c, NEW s, NEW d, NEW r
      PROVE  [[orig |-> o, changes |-> c, source |-> s, deleted |-> d] EXCEPT !.changes = r]
               = [orig |-> o, changes |-> r, source |-> s, deleted |-> d]
    OBVIOUS
<1>3. QED
    BY <1>1, <1>2 DEF With

\* A record of changes has these fields.
LEMMA RecordEta ==
    ASSUME NEW c \in ChangesType
    PROVE  c = Record(c.bits, c.name, c.method, c.mtime, c.attr)
BY DEF ChangesType, Record

\* What Mark does to each of the fields.
LEMMA MarkFields ==
    ASSUME NEW e \in EntryType, NEW v
    PROVE  LET c == Changes(e) IN
           /\ Mark(e, "name", v)
                = With(e, Record(c.bits \cup {"name"}, v, c.method, c.mtime, c.attr))
           /\ Mark(e, "method", v)
                = With(e, Record(c.bits \cup {"method"}, c.name, v, c.mtime, c.attr))
           /\ Mark(e, "mtime", v)
                = With(e, Record(c.bits \cup {"mtime"}, c.name, c.method, v, c.attr))
           /\ Mark(e, "attr", v)
                = With(e, Record(c.bits \cup {"attr"}, c.name, c.method, c.mtime, v))
<1> DEFINE c == Changes(e)
<1>1. c \in ChangesType
    BY ChangesTyped
<1> HIDE DEF c
<1>2. ASSUME NEW f
      PROVE  Mark(e, f, v) = With(e, [c EXCEPT !.bits = @ \cup {f}, ![f] = v])
    BY WithExcept, Zenon DEF Mark, c
<1>3. PICK b, n, m, t, a : c = Record(b, n, m, t, a)
    BY <1>1, RecordEta
<1>0. b = c.bits /\ n = c.name /\ m = c.method /\ t = c.mtime /\ a = c.attr
    BY <1>3 DEF Record
<1>4. Mark(e, "name", v) = With(e, Record(b \cup {"name"}, v, m, t, a))
  <2>1. [c EXCEPT !.bits = @ \cup {"name"}, !["name"] = v]
          = [[c EXCEPT !.bits = b \cup {"name"}] EXCEPT !.name = v]
      BY <1>0
  <2>2. [c EXCEPT !.bits = b \cup {"name"}] = Record(b \cup {"name"}, n, m, t, a)
      BY <1>3 DEF Record
  <2>3. [Record(b \cup {"name"}, n, m, t, a) EXCEPT !.name = v] = Record(b \cup {"name"}, v, m, t, a)
      BY DEF Record
  <2>4. QED
      BY <1>2, <2>1, <2>2, <2>3
<1>5. Mark(e, "method", v) = With(e, Record(b \cup {"method"}, n, v, t, a))
  <2>1. [c EXCEPT !.bits = @ \cup {"method"}, !["method"] = v]
          = [[c EXCEPT !.bits = b \cup {"method"}] EXCEPT !.method = v]
      BY <1>0
  <2>2. [c EXCEPT !.bits = b \cup {"method"}] = Record(b \cup {"method"}, n, m, t, a)
      BY <1>3 DEF Record
  <2>3. [Record(b \cup {"method"}, n, m, t, a) EXCEPT !.method = v] = Record(b \cup {"method"}, n, v, t, a)
      BY DEF Record
  <2>4. QED
      BY <1>2, <2>1, <2>2, <2>3
<1>6. Mark(e, "mtime", v) = With(e, Record(b \cup {"mtime"}, n, m, v, a))
  <2>1. [c EXCEPT !.bits = @ \cup {"mtime"}, !["mtime"] = v]
          = [[c EXCEPT !.bits = b \cup {"mtime"}] EXCEPT !.mtime = v]
      BY <1>0
  <2>2. [c EXCEPT !.bits = b \cup {"mtime"}] = Record(b \cup {"mtime"}, n, m, t, a)
      BY <1>3 DEF Record
  <2>3. [Record(b \cup {"mtime"}, n, m, t, a) EXCEPT !.mtime = v] = Record(b \cup {"mtime"}, n, m, v, a)
      BY DEF Record
  <2>4. QED
      BY <1>2, <2>1, <2>2, <2>3
<1>7. Mark(e, "attr", v) = With(e, Record(b \cup {"attr"}, n, m, t, v))
  <2>1. [c EXCEPT !.bits = @ \cup {"attr"}, !["attr"] = v]
          = [[c EXCEPT !.bits = b \cup {"attr"}] EXCEPT !.attr = v]
      BY <1>0
  <2>2. [c EXCEPT !.bits = b \cup {"attr"}] = Record(b \cup {"attr"}, n, m, t, a)
      BY <1>3 DEF Record
  <2>3. [Record(b \cup {"attr"}, n, m, t, a) EXCEPT !.attr = v] = Record(b \cup {"attr"}, n, m, t, v)
      BY DEF Record
  <2>4. QED
      BY <1>2, <2>1, <2>2, <2>3
<1>8. QED
    BY <1>0, <1>4, <1>5, <1>6, <1>7 DEF c

\* What Unmark does.
LEMMA UnmarkFields ==
    ASSUME NEW e \in EntryType, NEW f
    PROVE  Unmark(e, f) =
             IF e.changes = NoChanges THEN e
             ELSE LET c == e.changes
                  IN  With(e, IF c.bits \ {f} = {} THEN NoChanges
                              ELSE Record(c.bits \ {f}, c.name, c.method, c.mtime, c.attr))
<1> DEFINE c == e.changes
<1>1. CASE c # NoChanges
  <2>1. c \in ChangesType
      BY <1>1, ChangesTyped
  <2> HIDE DEF c
  <2>2. PICK b, n, m, t, a : c = Record(b, n, m, t, a)
      BY <2>1, RecordEta
  <2>0. b = c.bits /\ n = c.name /\ m = c.method /\ t = c.mtime /\ a = c.attr
      BY <2>2 DEF Record
  <2>3. [c EXCEPT !.bits = b \ {f}] = Record(b \ {f}, n, m, t, a)
      BY <2>2 DEF Record
  <2>4. Record(b \ {f}, n, m, t, a).bits = b \ {f}
      BY DEF Record
  <2>5. Settled([c EXCEPT !.bits = b \ {f}])
          = IF b \ {f} = {} THEN NoChanges ELSE Record(b \ {f}, n, m, t, a)
      BY <2>3, <2>4 DEF Settled
  <2>6. Unmark(e, f) = [e EXCEPT !.changes = Settled([c EXCEPT !.bits = b \ {f}])]
    <3>1. Unmark(e, f) = [e EXCEPT !.changes =
                             Settled([e.changes EXCEPT !.bits = e.changes.bits \ {f}])]
        BY <1>1, Zenon DEF Unmark, c
    <3>2. e.changes.bits = b /\ e.changes = c
        BY <2>0 DEF c
    <3>3. QED
        BY <3>1, <3>2, Zenon
  <2>7. QED
      BY <1>1, <2>0, <2>5, <2>6, WithExcept DEF c
<1>2. CASE c = NoChanges
    BY <1>2 DEF Unmark
<1>3. QED
    BY <1>1, <1>2

\* What an operation that is not about deletion or data leaves of an entry.
SameState(x, e) == x.orig = e.orig /\ x.source = e.source /\ x.deleted = e.deleted

\* An entry with a record of changes.
LEMMA WithRecord ==
    ASSUME NEW e \in EntryType, NEW c \in ChangesType
    PROVE  /\ With(e, c) \in EntryType /\ SameState(With(e, c), e)
           /\ With(e, c).changes = c /\ With(e, c).changes # NoChanges
           /\ Changes(With(e, c)) = c /\ CurName(With(e, c)) = c.name
<1> DEFINE x == With(e, c)
<1>1. x \in EntryType
    BY DEF With, EntryType
<1>2. SameState(x, e) /\ x.changes = c
    BY DEF With, SameState
<1> HIDE DEF x
<1>3. c # NoChanges
    BY ChangesTyped
<1>4. QED
    BY <1>1, <1>2, <1>3 DEF CurName, Changes, x

\* An entry without changes has the fields of the archive.
LEMMA WithoutRecord ==
    ASSUME NEW e \in EntryType, e.changes = NoChanges
    PROVE  /\ e.changes.bits = {}
           /\ CurName(e) = e.orig /\ Changes(e).attr = 0
           /\ Changes(e).bits = {} /\ Changes(e).name = e.orig
           /\ Changes(e).mtime = 0 /\ Changes(e).method = OrigMethod(e)
BY DEF CurName, Changes, Clone, NoChanges

\* An entry with changes has theirs.
LEMMA ChangedRecord ==
    ASSUME NEW e \in EntryType, e.changes # NoChanges
    PROVE  /\ Changes(e) = e.changes /\ CurName(e) = e.changes.name
           /\ e.changes.bits \in SUBSET Bits /\ e.changes.name \in Names \cup {NoName}
           /\ e.changes.method \in Methods
           /\ e.changes.mtime \in {0, 1} /\ e.changes.attr \in {0, 1}
<1>1. e.changes \in ChangesType
    BY ChangesTyped
<1>2. QED
    BY <1>1 DEF CurName, Changes, ChangesType

\* Without its changes an entry is as the archive has it.
LEMMA DropRecord ==
    ASSUME NEW e \in EntryType
    PROVE  /\ With(e, NoChanges) \in EntryType
           /\ With(e, NoChanges).changes = NoChanges
           /\ SameState(With(e, NoChanges), e)
BY DEF With, EntryType, SameState

\* Renaming an entry.
LEMMA RenamedKeeps ==
    ASSUME NEW e, NEW a, EntryOK(e, a), NEW n \in Names
    PROVE  /\ EntryOK(Renamed(e, n), [a EXCEPT !.name = n])
           /\ SameState(Renamed(e, n), e)
           /\ CurName(Renamed(e, n)) = n
<1> DEFINE c == Changes(e)
           a2 == [a EXCEPT !.name = n]
<1>0. /\ e \in EntryType /\ a \in AskedType /\ c \in ChangesType
      /\ MarksExact(e) /\ AsAsked(e, a)
    BY ChangesTyped DEF EntryOK
<1>1. /\ a2 \in AskedType
      /\ a2.name = n /\ a2.method = a.method /\ a2.mtime = a.mtime /\ a2.attr = a.attr
    BY <1>0 DEF AskedType
<1>2. /\ c.bits \in SUBSET Bits /\ c.method \in Methods /\ c.name \in Names \cup {NoName}
      /\ c.mtime \in {0, 1} /\ c.attr \in {0, 1}
    BY <1>0 DEF ChangesType
<1> HIDE DEF a2
<1>3. CASE n # e.orig
  <2> DEFINE r == Record(c.bits \cup {"name"}, n, c.method, c.mtime, c.attr)
             x == With(e, r)
  <2>1. Renamed(e, n) = x
      BY <1>0, <1>3, MarkFields DEF Renamed
  <2>2. /\ r \in ChangesType /\ r.bits = c.bits \cup {"name"} /\ r.name = n
        /\ r.method = c.method /\ r.mtime = c.mtime /\ r.attr = c.attr
      BY <1>2 DEF Record, ChangesType, Bits
  <2> HIDE DEF r
  <2>3. /\ x \in EntryType /\ SameState(x, e) /\ x.changes = r /\ r # NoChanges
        /\ CurName(x) = n /\ Changes(x) = r
      BY <1>0, <2>2, WithRecord
  <2> HIDE DEF x
  <2>4. c.bits = e.changes.bits /\ (e.changes # NoChanges => c = e.changes)
      BY <1>0, WithoutRecord, ChangedRecord
  <2>5. "attr" \in c.bits <=> c.attr # 0
      BY <1>0, <2>4, WithoutRecord DEF MarksExact
  <2>6. MarksExact(x)
      BY <1>3, <2>2, <2>3, <2>5 DEF MarksExact, SameState
  <2>7. AsAsked(x, a2)
      BY <1>0, <1>1, <2>2, <2>3, <2>4, ChangesTyped DEF AsAsked
  <2>8. QED
      BY <1>1, <2>1, <2>3, <2>6, <2>7 DEF EntryOK, a2
<1>4. CASE n = e.orig /\ "name" \notin e.changes.bits
  <2>1. Renamed(e, n) = e
      BY <1>4 DEF Renamed
  <2>2. CurName(e) = e.orig
      BY <1>0, <1>4, WithoutRecord, ChangedRecord DEF MarksExact
  <2>3. AsAsked(e, a2)
      BY <1>0, <1>1, <1>4, <2>2 DEF AsAsked
  <2>4. QED
      BY <1>0, <1>1, <1>4, <2>1, <2>2, <2>3 DEF EntryOK, SameState, a2
<1>5. CASE n = e.orig /\ "name" \in e.changes.bits
  <2>1. e.changes # NoChanges /\ c = e.changes
      BY <1>5, <1>0, ChangesTyped, ChangedRecord
  <2>2. PICK b, o, m, t, v : c = Record(b, o, m, t, v)
      BY <1>0, RecordEta
  <2>3. b = c.bits /\ o = c.name /\ m = c.method /\ t = c.mtime /\ v = c.attr
      BY <2>2 DEF Record
  <2>4. [c EXCEPT !.name = n] = Record(b, n, m, t, v)
      BY <2>2 DEF Record
  <2> DEFINE r == Record(b, n, m, t, v)
             y == With(e, r)
  <2>5. [e EXCEPT !.changes.name = n] = y
    <3>1. [e EXCEPT !.changes.name = n] = [e EXCEPT !.changes = [e.changes EXCEPT !.name = n]]
        OBVIOUS
    <3>2. QED
        BY <1>0, <2>1, <2>4, <3>1, WithExcept
  <2>6. /\ y \in EntryType /\ SameState(y, e) /\ y.changes # NoChanges
        /\ y.changes.bits = b /\ y.changes.name = n /\ y.changes.method = m
        /\ y.changes.mtime = t /\ y.changes.attr = v
    <3>1. /\ r \in ChangesType /\ r.bits = b /\ r.name = n
          /\ r.method = m /\ r.mtime = t /\ r.attr = v
        BY <1>2, <2>3 DEF Record, ChangesType
    <3> HIDE DEF r
    <3>2. QED
        BY <1>0, <3>1, WithRecord
  <2> HIDE DEF y
  <2> DEFINE x == Unmark(y, "name")
  <2>7. Renamed(e, n) = x
      BY <1>5, <2>5 DEF Renamed
  <2>8. CASE b \ {"name"} = {}
    <3>1. x = With(y, NoChanges)
        BY <2>6, <2>8, UnmarkFields
    <3>2. x \in EntryType /\ x.changes = NoChanges /\ SameState(x, e)
        BY <2>6, <3>1, DropRecord DEF SameState
    <3> HIDE DEF x
    <3>3. "attr" \notin b /\ "mtime" \notin b /\ "method" \notin b
        BY <2>8
    <3>4. v = 0
        BY <1>0, <2>1, <2>3, <3>3 DEF MarksExact
    <3>5. /\ x.changes.bits = {}
          /\ CurName(x) = n /\ Changes(x).attr = 0
        BY <1>5, <3>2, WithoutRecord DEF SameState
    <3>6. QED
        BY <1>0, <1>1, <2>1, <2>3, <2>7, <3>2, <3>3, <3>4, <3>5
            DEF EntryOK, MarksExact, AsAsked, a2, x
  <2>9. CASE b \ {"name"} # {}
    <3> DEFINE q == Record(b \ {"name"}, n, m, t, v)
    <3>1. x = With(y, q)
        BY <2>6, <2>9, UnmarkFields
    <3>0. /\ q \in ChangesType /\ q.bits = b \ {"name"} /\ q.name = n
          /\ q.method = m /\ q.mtime = t /\ q.attr = v
        BY <1>2, <2>3 DEF Record, ChangesType
    <3> HIDE DEF x, q
    <3>2. /\ x \in EntryType /\ SameState(x, e)
          /\ x.changes # NoChanges /\ CurName(x) = n /\ Changes(x).attr = v
          /\ x.changes.bits = b \ {"name"} /\ x.changes.name = n
          /\ x.changes.method = m /\ x.changes.mtime = t /\ x.changes.attr = v
        BY <2>6, <3>0, <3>1, WithRecord DEF SameState
    <3>3. MarksExact(x)
        BY <1>0, <1>5, <2>1, <2>3, <3>2 DEF MarksExact, SameState
    <3>4. AsAsked(x, a2)
        BY <1>0, <1>1, <2>1, <2>3, <3>2 DEF AsAsked
    <3>5. QED
        BY <1>1, <2>7, <3>2, <3>3, <3>4 DEF EntryOK, a2, x
  <2>10. QED
      BY <2>8, <2>9
<1>6. QED
    BY <1>3, <1>4, <1>5

\* A record that says what was asked, with the marks that go with it.
Says(e, r, a) ==
    /\ r \in ChangesType /\ a \in AskedType
    /\ "name" \in r.bits <=> r.name # e.orig
    /\ "attr" \in r.bits <=> r.attr # 0
    /\ r.name = a.name /\ r.attr = a.attr
    /\ a.mtime = IF "mtime" \in r.bits THEN r.mtime ELSE 0
    /\ Actual(a.method) = IF "method" \in r.bits THEN Actual(r.method) ELSE "deflate"

\* The changes of an entry say so, the clone that stands for no changes too.
LEMMA ChangesSay ==
    ASSUME NEW e, NEW a, EntryOK(e, a)
    PROVE  Says(e, Changes(e), a) /\ Changes(e).bits = e.changes.bits
<1>0. e \in EntryType /\ a \in AskedType /\ MarksExact(e) /\ AsAsked(e, a)
    BY DEF EntryOK
<1>1. Changes(e) \in ChangesType
    BY <1>0, ChangesTyped
<1>2. CASE e.changes = NoChanges
    BY <1>0, <1>1, <1>2, WithoutRecord DEF Says, AsAsked
<1>3. CASE e.changes # NoChanges
    BY <1>0, <1>1, <1>3, ChangedRecord DEF Says, AsAsked, MarksExact
<1>4. QED
    BY <1>2, <1>3

\* An entry that gets such a record is in order.
LEMMA SetRecord ==
    ASSUME NEW e \in EntryType, NEW r, NEW a, Says(e, r, a)
    PROVE  /\ EntryOK(With(e, r), a) /\ SameState(With(e, r), e)
           /\ CurName(With(e, r)) = r.name
<1> DEFINE x == With(e, r)
<1>1. /\ x \in EntryType /\ SameState(x, e) /\ x.changes = r /\ r # NoChanges
      /\ Changes(x) = r /\ CurName(x) = r.name
    BY WithRecord DEF Says
<1> HIDE DEF x
<1>2. MarksExact(x)
    BY <1>1 DEF Says, MarksExact, SameState
<1>3. AsAsked(x, a)
    BY <1>1 DEF Says, AsAsked
<1>4. QED
    BY <1>1, <1>2, <1>3 DEF EntryOK, Says, x

\* So is one whose record had no marks left and was freed: the values that
\* go with it are the original's.
LEMMA FreeRecord ==
    ASSUME NEW e \in EntryType, NEW r, NEW a, Says(e, r, a), r.bits = {}
    PROVE  /\ EntryOK(With(e, NoChanges), a) /\ SameState(With(e, NoChanges), e)
           /\ CurName(With(e, NoChanges)) = r.name
<1> DEFINE x == With(e, NoChanges)
<1>1. x \in EntryType /\ SameState(x, e) /\ x.changes = NoChanges
    BY DropRecord
<1> HIDE DEF x
<1>2. x.changes.bits = {} /\ CurName(x) = e.orig /\ Changes(x).attr = 0
    BY <1>1, WithoutRecord DEF SameState
<1>3. AsAsked(x, a)
    BY <1>2 DEF Says, AsAsked
<1>4. QED
    BY <1>1, <1>2, <1>3 DEF EntryOK, MarksExact, Says, x

\* Marking the method.
LEMMA MarkMethodKeeps ==
    ASSUME NEW e, NEW a, EntryOK(e, a), NEW v \in Methods, NEW a2 \in AskedType,
           a2.name = a.name /\ a2.mtime = a.mtime /\ a2.attr = a.attr, Actual(a2.method) = Actual(v)
    PROVE  /\ EntryOK(Mark(e, "method", v), a2) /\ SameState(Mark(e, "method", v), e)
           /\ CurName(Mark(e, "method", v)) = CurName(e)
           /\ Mark(e, "method", v).changes # NoChanges
<1> DEFINE c == Changes(e)
           r == Record(c.bits \cup {"method"}, c.name, v, c.mtime, c.attr)
<1>1. e \in EntryType /\ Says(e, c, a)
    BY ChangesSay DEF EntryOK
<1>2. Mark(e, "method", v) = With(e, r)
    BY <1>1, MarkFields
<1> HIDE DEF c
<1>3. /\ r \in ChangesType /\ r.bits = c.bits \cup {"method"}
      /\ r.name = c.name /\ r.method = v /\ r.mtime = c.mtime /\ r.attr = c.attr
    BY <1>1 DEF Record, Says, ChangesType, Bits
<1> HIDE DEF r
<1>4. Says(e, r, a2)
    BY <1>1, <1>3 DEF Says
<1>5. CurName(e) = r.name
    BY <1>3 DEF CurName, c
<1>6. With(e, r).changes # NoChanges
    BY <1>1, <1>3, WithRecord
<1>7. QED
    BY <1>1, <1>2, <1>4, <1>5, <1>6, SetRecord

\* Marking the time.
LEMMA MarkMtimeKeeps ==
    ASSUME NEW e, NEW a, EntryOK(e, a), NEW v \in {0, 1}, NEW a2 \in AskedType,
           a2.name = a.name /\ a2.method = a.method /\ a2.attr = a.attr, a2.mtime = v
    PROVE  /\ EntryOK(Mark(e, "mtime", v), a2) /\ SameState(Mark(e, "mtime", v), e)
           /\ CurName(Mark(e, "mtime", v)) = CurName(e)
           /\ Mark(e, "mtime", v).changes # NoChanges
<1> DEFINE c == Changes(e)
           r == Record(c.bits \cup {"mtime"}, c.name, c.method, v, c.attr)
<1>1. e \in EntryType /\ Says(e, c, a)
    BY ChangesSay DEF EntryOK
<1>2. Mark(e, "mtime", v) = With(e, r)
    BY <1>1, MarkFields
<1> HIDE DEF c
<1>3. /\ r \in ChangesType /\ r.bits = c.bits \cup {"mtime"}
      /\ r.name = c.name /\ r.method = c.method /\ r.mtime = v /\ r.attr = c.attr
    BY <1>1 DEF Record, Says, ChangesType, Bits
<1> HIDE DEF r
<1>4. Says(e, r, a2)
    BY <1>1, <1>3 DEF Says
<1>5. CurName(e) = r.name
    BY <1>3 DEF CurName, c
<1>6. With(e, r).changes # NoChanges
    BY <1>1, <1>3, WithRecord
<1>7. QED
    BY <1>1, <1>2, <1>4, <1>5, <1>6, SetRecord

\* Marking the attributes, which are then not the original's.
LEMMA MarkAttrKeeps ==
    ASSUME NEW e, NEW a, EntryOK(e, a), NEW v \in {1}, NEW a2 \in AskedType,
           a2.name = a.name /\ a2.method = a.method /\ a2.mtime = a.mtime, a2.attr = v
    PROVE  /\ EntryOK(Mark(e, "attr", v), a2) /\ SameState(Mark(e, "attr", v), e)
           /\ CurName(Mark(e, "attr", v)) = CurName(e)
           /\ Mark(e, "attr", v).changes # NoChanges
<1> DEFINE c == Changes(e)
           r == Record(c.bits \cup {"attr"}, c.name, c.method, c.mtime, v)
<1>1. e \in EntryType /\ Says(e, c, a)
    BY ChangesSay DEF EntryOK
<1>2. Mark(e, "attr", v) = With(e, r)
    BY <1>1, MarkFields
<1> HIDE DEF c
<1>3. /\ r \in ChangesType /\ r.bits = c.bits \cup {"attr"}
      /\ r.name = c.name /\ r.method = c.method /\ r.mtime = c.mtime /\ r.attr = v
    BY <1>1 DEF Record, Says, ChangesType, Bits
<1> HIDE DEF r
<1>4. Says(e, r, a2)
    BY <1>1, <1>3 DEF Says
<1>5. CurName(e) = r.name
    BY <1>3 DEF CurName, c
<1>6. With(e, r).changes # NoChanges
    BY <1>1, <1>3, WithRecord
<1>7. QED
    BY <1>1, <1>2, <1>4, <1>5, <1>6, SetRecord

\* Taking the mark from the method.
LEMMA UnmarkMethodKeeps ==
    ASSUME NEW e, NEW a, EntryOK(e, a), NEW a2 \in AskedType,
           a2.name = a.name, a2.mtime = a.mtime, a2.attr = a.attr, Actual(a2.method) = "deflate"
    PROVE  /\ EntryOK(Unmark(e, "method"), a2) /\ SameState(Unmark(e, "method"), e)
           /\ CurName(Unmark(e, "method")) = CurName(e)
           /\ "method" \notin Unmark(e, "method").changes.bits
<1> DEFINE c == e.changes
           r == Record(c.bits \ {"method"}, c.name, c.method, c.mtime, c.attr)
<1>1. e \in EntryType /\ Says(e, Changes(e), a)
    BY ChangesSay DEF EntryOK
<1>2. CASE c = NoChanges
  <2>1. Unmark(e, "method") = e
      BY <1>1, <1>2, UnmarkFields
  <2>2. MarksExact(e)
      BY <1>2 DEF MarksExact
  <2>3. e.changes.bits = {}
      BY <1>1, <1>2, ChangesTyped
  <2>4. AsAsked(e, a2)
      BY <2>3 DEF AsAsked, EntryOK
  <2>5. QED
      BY <1>1, <2>1, <2>2, <2>3, <2>4 DEF EntryOK, SameState
<1>3. CASE c # NoChanges
  <2>1. Unmark(e, "method") = With(e, IF c.bits \ {"method"} = {} THEN NoChanges ELSE r)
      BY <1>1, <1>3, UnmarkFields
  <2>2. Changes(e) = c /\ CurName(e) = c.name
      BY <1>1, <1>3, ChangedRecord
  <2> HIDE DEF c
  <2>3. /\ r \in ChangesType /\ r.bits = c.bits \ {"method"}
        /\ r.name = c.name /\ r.method = c.method /\ r.mtime = c.mtime /\ r.attr = c.attr
      BY <1>1, <2>2 DEF Record, Says, ChangesType
  <2> HIDE DEF r
  <2>4. Says(e, r, a2)
      BY <1>1, <2>2, <2>3 DEF Says
  <2>5. CASE r.bits = {}
    <3>1. Unmark(e, "method") = With(e, NoChanges)
        BY <2>1, <2>3, <2>5
    <3>2. With(e, NoChanges).changes.bits = {}
        BY <1>1, DropRecord, ChangesTyped
    <3>3. QED
        BY <1>1, <2>2, <2>3, <2>4, <2>5, <3>1, <3>2, FreeRecord
  <2>6. CASE r.bits # {}
    <3>1. Unmark(e, "method") = With(e, r)
        BY <2>1, <2>3, <2>6
    <3>2. With(e, r).changes = r
        BY <1>1, <2>3, WithRecord
    <3>3. QED
        BY <1>1, <2>2, <2>3, <2>4, <3>1, <3>2, SetRecord
  <2>7. QED
      BY <2>5, <2>6
<1>4. QED
    BY <1>2, <1>3

\* Taking the mark from the time.
LEMMA UnmarkMtimeKeeps ==
    ASSUME NEW e, NEW a, EntryOK(e, a), NEW a2 \in AskedType,
           a2.name = a.name, a2.method = a.method, a2.attr = a.attr, a2.mtime = 0
    PROVE  /\ EntryOK(Unmark(e, "mtime"), a2) /\ SameState(Unmark(e, "mtime"), e)
           /\ CurName(Unmark(e, "mtime")) = CurName(e)
           /\ "mtime" \notin Unmark(e, "mtime").changes.bits
<1> DEFINE c == e.changes
           r == Record(c.bits \ {"mtime"}, c.name, c.method, c.mtime, c.attr)
<1>1. e \in EntryType /\ Says(e, Changes(e), a)
    BY ChangesSay DEF EntryOK
<1>2. CASE c = NoChanges
  <2>1. Unmark(e, "mtime") = e
      BY <1>1, <1>2, UnmarkFields
  <2>2. MarksExact(e)
      BY <1>2 DEF MarksExact
  <2>3. e.changes.bits = {}
      BY <1>1, <1>2, ChangesTyped
  <2>4. AsAsked(e, a2)
      BY <2>3 DEF AsAsked, EntryOK
  <2>5. QED
      BY <1>1, <2>1, <2>2, <2>3, <2>4 DEF EntryOK, SameState
<1>3. CASE c # NoChanges
  <2>1. Unmark(e, "mtime") = With(e, IF c.bits \ {"mtime"} = {} THEN NoChanges ELSE r)
      BY <1>1, <1>3, UnmarkFields
  <2>2. Changes(e) = c /\ CurName(e) = c.name
      BY <1>1, <1>3, ChangedRecord
  <2> HIDE DEF c
  <2>3. /\ r \in ChangesType /\ r.bits = c.bits \ {"mtime"}
        /\ r.name = c.name /\ r.method = c.method /\ r.mtime = c.mtime /\ r.attr = c.attr
      BY <1>1, <2>2 DEF Record, Says, ChangesType
  <2> HIDE DEF r
  <2>4. Says(e, r, a2)
      BY <1>1, <2>2, <2>3 DEF Says
  <2>5. CASE r.bits = {}
    <3>1. Unmark(e, "mtime") = With(e, NoChanges)
        BY <2>1, <2>3, <2>5
    <3>2. With(e, NoChanges).changes.bits = {}
        BY <1>1, DropRecord, ChangesTyped
    <3>3. QED
        BY <1>1, <2>2, <2>3, <2>4, <2>5, <3>1, <3>2, FreeRecord
  <2>6. CASE r.bits # {}
    <3>1. Unmark(e, "mtime") = With(e, r)
        BY <2>1, <2>3, <2>6
    <3>2. With(e, r).changes = r
        BY <1>1, <2>3, WithRecord
    <3>3. QED
        BY <1>1, <2>2, <2>3, <2>4, <3>1, <3>2, SetRecord
  <2>7. QED
      BY <2>5, <2>6
<1>4. QED
    BY <1>2, <1>3

\* The data of an entry and its deletion are not in its records.
Stated(e, s, d) == [orig |-> e.orig, changes |-> e.changes, source |-> s, deleted |-> d]

LEMMA StatedExcept ==
    ASSUME NEW e \in EntryType
    PROVE  /\ [e EXCEPT !.source = FALSE, !.deleted = FALSE] = Stated(e, FALSE, FALSE)
           /\ [e EXCEPT !.source = TRUE] = Stated(e, TRUE, e.deleted)
<1>1. e = Stated(e, e.source, e.deleted)
    BY DEF EntryType, Stated
<1>2. PICK o, c, s, d : e = [orig |-> o, changes |-> c, source |-> s, deleted |-> d]
    BY <1>1 DEF Stated
<1>3. e.orig = o /\ e.changes = c /\ e.source = s /\ e.deleted = d
    BY <1>2
<1>4. ASSUME NEW v
      PROVE  [e EXCEPT !.source = v] = [orig |-> o, changes |-> c, source |-> v, deleted |-> d]
    BY <1>2
<1>5. [e EXCEPT !.source = FALSE] = [orig |-> o, changes |-> c, source |-> FALSE, deleted |-> d]
      /\ [e EXCEPT !.source = TRUE] = [orig |-> o, changes |-> c, source |-> TRUE, deleted |-> d]
    BY <1>4, Zenon
<1>6. [[orig |-> o, changes |-> c, source |-> FALSE, deleted |-> d] EXCEPT !.deleted = FALSE]
        = [orig |-> o, changes |-> c, source |-> FALSE, deleted |-> FALSE]
  <2>1. ASSUME NEW u, NEW v
        PROVE  [[orig |-> o, changes |-> c, source |-> u, deleted |-> d] EXCEPT !.deleted = v]
                 = [orig |-> o, changes |-> c, source |-> u, deleted |-> v]
      OBVIOUS
  <2>2. QED
      BY <2>1, Zenon
<1>7. [e EXCEPT !.source = FALSE, !.deleted = FALSE]
        = [[e EXCEPT !.source = FALSE] EXCEPT !.deleted = FALSE]
    OBVIOUS
<1>8. QED
    BY <1>3, <1>5, <1>6, <1>7, Zenon DEF Stated

LEMMA StatedKeeps ==
    ASSUME NEW e, NEW a, EntryOK(e, a), NEW s \in BOOLEAN, NEW d \in BOOLEAN
    PROVE  /\ EntryOK(Stated(e, s, d), a)
           /\ Stated(e, s, d).orig = e.orig /\ Stated(e, s, d).changes = e.changes
           /\ Stated(e, s, d).source = s /\ Stated(e, s, d).deleted = d
           /\ CurName(Stated(e, s, d)) = CurName(e)
<1> DEFINE x == Stated(e, s, d)
<1>0. e \in EntryType /\ a \in AskedType /\ MarksExact(e) /\ AsAsked(e, a)
    BY DEF EntryOK
<1>1. x \in EntryType
    BY <1>0 DEF Stated, EntryType
<1>2. x.orig = e.orig /\ x.changes = e.changes /\ x.source = s /\ x.deleted = d
    BY DEF Stated
<1> HIDE DEF x
<1>3. Changes(x) = Changes(e) /\ CurName(x) = CurName(e)
    BY <1>2 DEF CurName, Changes, Clone, OrigMethod
<1>4. MarksExact(x) /\ AsAsked(x, a)
    BY <1>0, <1>2, <1>3 DEF MarksExact, AsAsked
<1>5. QED
    BY <1>0, <1>1, <1>2, <1>3, <1>4 DEF EntryOK, x

\* _zip_unchange_data frees the data and forgets the method it had set.
LEMMA UnchangeDataKeeps ==
    ASSUME NEW e, NEW a, EntryOK(e, a)
    PROVE  LET x == UnchangeData(e) IN
           /\ EntryOK(x, a) /\ CurName(x) = CurName(e) /\ x.orig = e.orig
           /\ x.source = FALSE /\ x.deleted = FALSE
<1> DEFINE e1 == Stated(e, FALSE, FALSE)
<1>0. e \in EntryType /\ a \in AskedType /\ AsAsked(e, a)
    BY DEF EntryOK
<1>1. /\ EntryOK(e1, a) /\ e1.changes = e.changes /\ CurName(e1) = CurName(e)
      /\ e1.orig = e.orig /\ e1.source = FALSE /\ e1.deleted = FALSE
    BY <1>0, StatedKeeps
<1>2. [e EXCEPT !.source = FALSE, !.deleted = FALSE] = e1
    BY <1>0, StatedExcept
<1> HIDE DEF e1
<1>3. CASE /\ e.changes # NoChanges /\ "method" \in e.changes.bits
           /\ e.changes.method = "replaced"
  <2>1. UnchangeData(e) = Unmark(e1, "method")
      BY <1>2, <1>3 DEF UnchangeData
  <2>2. Actual(a.method) = "deflate"
      BY <1>0, <1>3 DEF AsAsked, Actual
  <2>3. QED
      BY <1>0, <1>1, <2>1, <2>2, UnmarkMethodKeeps DEF SameState
<1>4. CASE ~(/\ e.changes # NoChanges /\ "method" \in e.changes.bits
             /\ e.changes.method = "replaced")
  <2>1. UnchangeData(e) = e1
      BY <1>2, <1>4 DEF UnchangeData
  <2>2. QED
      BY <1>1, <2>1
<1>5. QED
    BY <1>3, <1>4

\* New data for an entry: it is there again, with the name it had.
LEMMA ReplacedKeeps ==
    ASSUME NEW e, NEW a, EntryOK(e, a)
    PROVE  LET x == Replaced(e) IN
           /\ EntryOK(x, [a EXCEPT !.data = "new"])
           /\ CurName(x) = CurName(e) /\ x.orig = e.orig
           /\ x.source = TRUE /\ x.deleted = FALSE
<1> DEFINE e1 == UnchangeData(e)
           a2 == [a EXCEPT !.data = "new"]
           e2 == IF e1.orig = NoName \/ "method" \in e1.changes.bits THEN e1
                 ELSE Mark(e1, "method", "replaced")
<1>0. a \in AskedType
    BY DEF EntryOK
<1>1. /\ EntryOK(e1, a) /\ CurName(e1) = CurName(e) /\ e1.orig = e.orig
      /\ e1.source = FALSE /\ e1.deleted = FALSE
    BY UnchangeDataKeeps
<1>2. /\ a2 \in AskedType /\ a2.name = a.name /\ a2.method = a.method
      /\ a2.mtime = a.mtime /\ a2.attr = a.attr
    BY <1>0 DEF AskedType
<1>3. Replaced(e) = [e2 EXCEPT !.source = TRUE]
    BY DEF Replaced
<1> HIDE DEF e1, a2
<1>4. /\ EntryOK(e2, a) /\ CurName(e2) = CurName(e) /\ e2.orig = e.orig
      /\ e2.deleted = FALSE
  <2>1. CASE e1.orig = NoName \/ "method" \in e1.changes.bits
      BY <1>1, <2>1
  <2>2. CASE ~(e1.orig = NoName \/ "method" \in e1.changes.bits)
    <3>1. "replaced" \in Methods /\ Actual("replaced") = "deflate"
        BY DEF Methods, Actual
    <3>2. Actual(a.method) = "deflate"
        BY <1>1, <2>2 DEF EntryOK, AsAsked
    <3>3. QED
        BY <1>0, <1>1, <2>2, <3>1, <3>2, MarkMethodKeeps DEF SameState
  <2>3. QED
      BY <2>1, <2>2
<1> HIDE DEF e2
<1>5. e2 \in EntryType
    BY <1>4 DEF EntryOK
<1>6. Replaced(e) = Stated(e2, TRUE, FALSE)
    BY <1>3, <1>4, <1>5, StatedExcept
<1> DEFINE x == Stated(e2, TRUE, FALSE)
<1>7. /\ EntryOK(x, a) /\ CurName(x) = CurName(e2) /\ x.orig = e2.orig
      /\ x.source = TRUE /\ x.deleted = FALSE
    BY <1>4, StatedKeeps
<1> HIDE DEF x
<1>8. EntryOK(x, a2)
    BY <1>2, <1>7 DEF EntryOK, AsAsked
<1>9. QED
    BY <1>4, <1>6, <1>7, <1>8 DEF a2, x

\* What zip_unchange and zip_unchange_all leave of an entry, and what was
\* asked of it.
LEMMA ForgottenKeeps ==
    ASSUME NEW e \in EntryType, NEW s \in BOOLEAN, NEW d \in BOOLEAN
    PROVE  LET x == [orig |-> e.orig, changes |-> NoChanges, source |-> s, deleted |-> d] IN
           /\ EntryOK(x, Forgotten(e)) /\ CurName(x) = e.orig
           /\ e.orig # NoName => Forgotten(e).data = "orig"
<1> DEFINE x == [orig |-> e.orig, changes |-> NoChanges, source |-> s, deleted |-> d]
<1>1. x \in EntryType /\ x.orig = e.orig /\ x.changes = NoChanges
    BY DEF EntryType
<1> HIDE DEF x
<1>2. x.changes.bits = {} /\ CurName(x) = e.orig /\ Changes(x).attr = 0
    BY <1>1, WithoutRecord
<1>3. /\ Forgotten(e) \in AskedType /\ Forgotten(e).name = e.orig
      /\ Forgotten(e).attr = 0 /\ Forgotten(e).mtime = 0
      /\ Actual(Forgotten(e).method) = "deflate"
      /\ e.orig # NoName => Forgotten(e).data = "orig"
    BY DEF Forgotten, AskedOfNew, NothingAsked, AskedType, Methods, Actual, EntryType
<1>4. QED
    BY <1>1, <1>2, <1>3 DEF EntryOK, MarksExact, AsAsked, x

LEMMA UnchangedEntry ==
    ASSUME NEW e \in EntryType
    PROVE  UnchangeData([e EXCEPT !.changes = NoChanges])
             = [orig |-> e.orig, changes |-> NoChanges, source |-> FALSE, deleted |-> FALSE]
<1> DEFINE x == With(e, NoChanges)
<1>1. [e EXCEPT !.changes = NoChanges] = x
    BY WithExcept
<1>2. x \in EntryType /\ x.changes = NoChanges /\ x.orig = e.orig
    BY DropRecord DEF SameState
<1> HIDE DEF x
<1>3. UnchangeData(x) = Stated(x, FALSE, FALSE)
    BY <1>2, StatedExcept DEF UnchangeData
<1>4. QED
    BY <1>1, <1>2, <1>3 DEF Stated

LEMMA DeletedEntry ==
    ASSUME NEW e \in EntryType
    PROVE  [e EXCEPT !.changes = NoChanges, !.source = FALSE, !.deleted = TRUE]
             = [orig |-> e.orig, changes |-> NoChanges, source |-> FALSE, deleted |-> TRUE]
<1>1. e = Stated(e, e.source, e.deleted)
    BY DEF EntryType, Stated
<1>2. PICK o, c, s, d : e = [orig |-> o, changes |-> c, source |-> s, deleted |-> d]
    BY <1>1 DEF Stated
<1>3. e.orig = o
    BY <1>2
<1>4. [e EXCEPT !.changes = NoChanges]
        = [orig |-> o, changes |-> NoChanges, source |-> s, deleted |-> d]
    BY <1>2
<1>5. ASSUME NEW u, NEW v
      PROVE  [[orig |-> o, changes |-> NoChanges, source |-> s, deleted |-> d]
                 EXCEPT !.source = u]
               = [orig |-> o, changes |-> NoChanges, source |-> u, deleted |-> d]
    OBVIOUS
<1>6. ASSUME NEW u, NEW v
      PROVE  [[orig |-> o, changes |-> NoChanges, source |-> u, deleted |-> d]
                 EXCEPT !.deleted = v]
               = [orig |-> o, changes |-> NoChanges, source |-> u, deleted |-> v]
    OBVIOUS
<1>7. [e EXCEPT !.changes = NoChanges, !.source = FALSE, !.deleted = TRUE]
        = [[[e EXCEPT !.changes = NoChanges] EXCEPT !.source = FALSE] EXCEPT !.deleted = TRUE]
    OBVIOUS
<1>8. [[e EXCEPT !.changes = NoChanges] EXCEPT !.source = FALSE]
        = [orig |-> o, changes |-> NoChanges, source |-> FALSE, deleted |-> d]
    BY <1>4, <1>5, Zenon
<1>9. [[orig |-> o, changes |-> NoChanges, source |-> FALSE, deleted |-> d]
           EXCEPT !.deleted = TRUE]
        = [orig |-> o, changes |-> NoChanges, source |-> FALSE, deleted |-> TRUE]
    BY <1>6, Zenon
<1>10. QED
    BY <1>3, <1>7, <1>8, <1>9, Zenon

\* zip_file_set_external_attributes back to the original's: value and mark.
LEMMA ResetAttrKeeps ==
    ASSUME NEW e, NEW a, EntryOK(e, a), NEW a2 \in AskedType,
           a2.name = a.name, a2.method = a.method, a2.mtime = a.mtime, a2.attr = 0
    PROVE  LET x == IF e.changes = NoChanges THEN e
                    ELSE Unmark([e EXCEPT !.changes.attr = 0], "attr")
           IN  EntryOK(x, a2) /\ SameState(x, e) /\ CurName(x) = CurName(e)
<1> DEFINE c == e.changes
<1>1. e \in EntryType /\ Says(e, Changes(e), a)
    BY ChangesSay DEF EntryOK
<1>2. CASE c = NoChanges
  <2>1. MarksExact(e)
      BY <1>2 DEF MarksExact
  <2>2. AsAsked(e, a2)
      BY <1>1, <1>2, WithoutRecord DEF AsAsked, EntryOK
  <2>3. QED
      BY <1>1, <1>2, <2>1, <2>2 DEF EntryOK, SameState
<1>3. CASE c # NoChanges
  <2>1. Changes(e) = c /\ CurName(e) = c.name /\ c \in ChangesType
      BY <1>1, <1>3, ChangedRecord, ChangesTyped
  <2>2. PICK b, n, m, t, v : c = Record(b, n, m, t, v)
      BY <2>1, RecordEta
  <2>3. b = c.bits /\ n = c.name /\ m = c.method /\ t = c.mtime /\ v = c.attr
      BY <2>2 DEF Record
  <2> DEFINE r == Record(b, n, m, t, 0)
             y == With(e, r)
             q == Record(b \ {"attr"}, n, m, t, 0)
  <2>4. [e EXCEPT !.changes.attr = 0] = y
    <3>1. [e EXCEPT !.changes.attr = 0] = [e EXCEPT !.changes = [c EXCEPT !.attr = 0]]
        OBVIOUS
    <3>2. [c EXCEPT !.attr = 0] = r
        BY <2>2 DEF Record
    <3>3. QED
        BY <1>1, <3>1, <3>2, WithExcept
  <2>5. /\ r \in ChangesType /\ r.bits = b /\ r.name = n
        /\ r.method = m /\ r.mtime = t /\ r.attr = 0
      BY <2>1, <2>3 DEF Record, ChangesType
  <2>6. /\ q \in ChangesType /\ q.bits = b \ {"attr"} /\ q.name = n
        /\ q.method = m /\ q.mtime = t /\ q.attr = 0
      BY <2>1, <2>3 DEF Record, ChangesType
  <2>7. r.bits \ {"attr"} = b \ {"attr"} /\ Record(r.bits \ {"attr"}, r.name, r.method, r.mtime, r.attr) = q
      BY <2>5
  <2> HIDE DEF r, q
  <2>8. y \in EntryType /\ SameState(y, e) /\ y.changes = r /\ y.changes # NoChanges
      BY <1>1, <2>5, WithRecord
  <2> HIDE DEF y
  <2>9. Unmark(y, "attr") = With(y, IF b \ {"attr"} = {} THEN NoChanges ELSE q)
      BY <2>7, <2>8, UnmarkFields
  <2>10. Says(y, q, a2)
      BY <1>1, <2>1, <2>3, <2>6, <2>8 DEF Says, SameState
  <2>11. CASE b \ {"attr"} = {}
      BY <1>3, <2>1, <2>3, <2>4, <2>6, <2>8, <2>9, <2>10, <2>11, FreeRecord DEF SameState
  <2>12. CASE b \ {"attr"} # {}
      BY <1>3, <2>1, <2>3, <2>4, <2>6, <2>8, <2>9, <2>10, <2>12, SetRecord DEF SameState
  <2>13. QED
      BY <2>11, <2>12
<1>4. QED
    BY <1>2, <1>3

-----------------------------------------------------------------------------
(* The entries and the table together.                                     *)

\* One element of a sequence is replaced, or added at its end.
LEMMA SeqSet ==
    ASSUME NEW S, NEW s \in Seq(S), NEW i \in 1..Len(s), NEW x \in S
    PROVE  /\ [s EXCEPT ![i] = x] \in Seq(S) /\ Len([s EXCEPT ![i] = x]) = Len(s)
           /\ \A j \in 1..Len(s) : [s EXCEPT ![i] = x][j] = IF j = i THEN x ELSE s[j]
OBVIOUS

LEMMA SeqAppend ==
    ASSUME NEW S, NEW s \in Seq(S), NEW x \in S
    PROVE  /\ Append(s, x) \in Seq(S) /\ Len(Append(s, x)) = Len(s) + 1
           /\ \A j \in 1..Len(s) : Append(s, x)[j] = s[j]
           /\ Append(s, x)[Len(s) + 1] = x
           /\ Len(s) \in Nat
OBVIOUS

\* One entry, and what was asked of it, changes.
LEMMA SetEntry ==
    ASSUME NEW es, NEW qs, EntriesOK(es, qs), NEW i \in 1..Len(es),
           NEW x, NEW y, EntryOK(x, y)
    PROVE  EntriesOK([es EXCEPT ![i] = x], [qs EXCEPT ![i] = y])
<1>1. /\ es \in Seq(EntryType) /\ qs \in Seq(AskedType) /\ Len(qs) = Len(es)
      /\ x \in EntryType /\ y \in AskedType
      /\ \A j \in 1..Len(es) : EntryOK(es[j], qs[j])
    BY DEF EntriesOK, EntryOK
<1> DEFINE es2 == [es EXCEPT ![i] = x]
           qs2 == [qs EXCEPT ![i] = y]
<1>2. /\ es2 \in Seq(EntryType) /\ Len(es2) = Len(es)
      /\ qs2 \in Seq(AskedType) /\ Len(qs2) = Len(qs)
      /\ \A j \in 1..Len(es) : /\ es2[j] = IF j = i THEN x ELSE es[j]
                               /\ qs2[j] = IF j = i THEN y ELSE qs[j]
  <2>1. i \in 1..Len(qs)
      BY <1>1
  <2>2. /\ es2 \in Seq(EntryType) /\ Len(es2) = Len(es)
        /\ \A j \in 1..Len(es) : es2[j] = IF j = i THEN x ELSE es[j]
    <3>1. es \in Seq(EntryType) /\ x \in EntryType
        BY <1>1
    <3>2. QED
        BY <3>1, SeqSet
  <2>3. /\ qs2 \in Seq(AskedType) /\ Len(qs2) = Len(qs)
        /\ \A j \in 1..Len(qs) : qs2[j] = IF j = i THEN y ELSE qs[j]
    <3>1. qs \in Seq(AskedType) /\ y \in AskedType
        BY <1>1
    <3>2. QED
        BY <2>1, <3>1, SMT
  <2> HIDE DEF es2, qs2
  <2>4. QED
      BY <1>1, <2>2, <2>3
<1> HIDE DEF es2, qs2
<1>3. QED
    BY <1>1, <1>2 DEF EntriesOK, es2, qs2

\* An entry is added.
LEMMA AppendEntry ==
    ASSUME NEW es, NEW qs, EntriesOK(es, qs), Len(es) < MaxEntries,
           NEW x, NEW y, EntryOK(x, y)
    PROVE  EntriesOK(Append(es, x), Append(qs, y))
<1>1. /\ es \in Seq(EntryType) /\ qs \in Seq(AskedType) /\ Len(qs) = Len(es)
      /\ x \in EntryType /\ y \in AskedType
      /\ \A j \in 1..Len(es) : EntryOK(es[j], qs[j])
    BY DEF EntriesOK, EntryOK
<1> DEFINE es2 == Append(es, x)
           qs2 == Append(qs, y)
<1>2. /\ es2 \in Seq(EntryType) /\ Len(es2) = Len(es) + 1
      /\ qs2 \in Seq(AskedType) /\ Len(qs2) = Len(es) + 1
      /\ \A j \in 1..Len(es) : es2[j] = es[j] /\ qs2[j] = qs[j]
      /\ es2[Len(es) + 1] = x /\ qs2[Len(es) + 1] = y
  <2>1. /\ es2 \in Seq(EntryType) /\ Len(es2) = Len(es) + 1
        /\ \A j \in 1..Len(es) : es2[j] = es[j]
        /\ es2[Len(es) + 1] = x
    <3>1. es \in Seq(EntryType) /\ x \in EntryType
        BY <1>1
    <3>2. QED
        BY <3>1, SeqAppend
  <2>2. /\ qs2 \in Seq(AskedType) /\ Len(qs2) = Len(qs) + 1
        /\ \A j \in 1..Len(qs) : qs2[j] = qs[j]
        /\ qs2[Len(qs) + 1] = y
    <3>1. qs \in Seq(AskedType) /\ y \in AskedType
        BY <1>1
    <3>2. QED
        BY <3>1, SMT
  <2> HIDE DEF es2, qs2
  <2>3. QED
      BY <1>1, <2>1, <2>2
<1>3. Len(es) \in Nat
    BY <1>1
<1> HIDE DEF es2, qs2
<1>4. ASSUME NEW j \in 1..Len(es2) PROVE EntryOK(es2[j], qs2[j])
  <2>1. j \in 1..Len(es) \/ j = Len(es) + 1
      BY <1>2, <1>3
  <2>2. QED
      BY <1>1, <1>2, <2>1
<1>5. Len(es2) <= MaxEntries
    BY <1>2, <1>3, MaxEntriesAssumption
<1>6. QED
    BY <1>2, <1>4, <1>5 DEF EntriesOK, es2, qs2

TableOK(es, h) == HashType(h) /\ KeysInside(es, h) /\ OrigsKeyed(es, h)

\* Two sequences of entries that were read from the same archive.
SameOrigs(es2, es) ==
    /\ Len(es2) = Len(es)
    /\ \A i \in 1..Len(es) : es2[i].orig = es[i].orig

\* No entry is added and the table is not touched.
LEMMA KeepTable ==
    ASSUME NEW es, NEW es2, NEW h, TableOK(es, h), SameOrigs(es2, es)
    PROVE  TableOK(es2, h)
BY DEF TableOK, KeysInside, OrigsKeyed, SameOrigs

\* A new entry without a name yet.
LEMMA AppendTable ==
    ASSUME NEW es \in Seq(EntryType), NEW h, TableOK(es, h), NEW x \in EntryType,
           x.orig = NoName
    PROVE  TableOK(Append(es, x), h)
<1> DEFINE es2 == Append(es, x)
<1>1. /\ Len(es) \in Nat /\ Len(es2) = Len(es) + 1
      /\ \A j \in 1..Len(es) : es2[j] = es[j]
      /\ es2[Len(es) + 1] = x
    OBVIOUS
<1> HIDE DEF es2
<1>2. \A n \in Names : Lookup(h, n) \in 0..MaxEntries /\ OrigOf(h, n) \in 0..MaxEntries
    BY LookupKey DEF TableOK
<1>3. KeysInside(es2, h)
    BY <1>1, <1>2 DEF TableOK, KeysInside
<1>4. OrigsKeyed(es2, h)
    BY <1>1, <1>2 DEF TableOK, OrigsKeyed
<1>5. QED
    BY <1>3, <1>4 DEF TableOK, es2

\* A name is added to the table, taken out of it, or all are put back.
LEMMA AddTable ==
    ASSUME NEW es, NEW h, TableOK(es, h), NEW n \in Names, NEW i \in 1..Len(es),
           Len(es) \in 0..MaxEntries
    PROVE  TableOK(es, HashAdd(h, n, i, FALSE))
<1>1. i \in 0..MaxEntries /\ i <= Len(es)
    BY MaxEntriesAssumption
<1> DEFINE g == HashAdd(h, n, i, FALSE)
<1>2. /\ HashType(g) /\ Lookup(g, n) = i
      /\ \A m : OrigOf(g, m) = OrigOf(h, m)
      /\ \A m : m # n => Lookup(g, m) = Lookup(h, m)
    BY <1>1, AddKeeps DEF TableOK
<1> HIDE DEF g
<1>3. QED
    BY <1>1, <1>2 DEF TableOK, KeysInside, OrigsKeyed, g

LEMMA DeleteTable ==
    ASSUME NEW es, NEW h, TableOK(es, h), NEW n, Len(es) \in Nat
    PROVE  TableOK(es, HashDelete(h, n))
BY DeleteKeeps DEF TableOK, KeysInside, OrigsKeyed

LEMMA RevertTable ==
    ASSUME NEW es, NEW h, TableOK(es, h), Len(es) \in Nat
    PROVE  TableOK(es, HashRevert(h))
BY RevertKeeps DEF TableOK, KeysInside, OrigsKeyed

\* Which entry has a name, as NamesFound puts it.
Has(e, n) == ~e.deleted /\ CurName(e) = n

\* An entry changes in other ways than its name.
LEMMA NameKept ==
    ASSUME NEW es, NEW es2, NEW h, NamesFound(es, h), Len(es2) = Len(es),
           \A i \in 1..Len(es) : \A n \in Names : Has(es2[i], n) <=> Has(es[i], n)
    PROVE  NamesFound(es2, h)
BY DEF NamesFound, Has

\* _zip_set_name of an entry that is there: the table finds it under the new
\* name and under no other.
LEMMA NameSet ==
    ASSUME NEW es \in Seq(EntryType), Len(es) <= MaxEntries,
           NEW h, HashType(h), NamesFound(es, h),
           NEW i \in 1..Len(es), ~es[i].deleted,
           NEW n \in Names, Lookup(h, n) = 0,
           NEW x, ~x.deleted, CurName(x) = n
    PROVE  LET old == CurName(es[i])
               g == HashAdd(h, n, i, FALSE)
           IN  NamesFound([es EXCEPT ![i] = x], IF old = NoName THEN g ELSE HashDelete(g, old))
<1> DEFINE old == CurName(es[i])
           g == HashAdd(h, n, i, FALSE)
           k == IF old = NoName THEN g ELSE HashDelete(g, old)
           es2 == [es EXCEPT ![i] = x]
<1>1. Len(es) \in Nat /\ i \in 1..MaxEntries /\ i \in 0..MaxEntries
    BY MaxEntriesAssumption
<1>2. /\ HashType(g) /\ Lookup(g, n) = i
      /\ \A m : m # n => Lookup(g, m) = Lookup(h, m)
  <2>1. HashType(h) /\ n \in Names /\ i \in 0..MaxEntries
      BY <1>1
  <2>2. QED
      BY ONLY <2>1, AddKeeps
<1>3. old # n
  <2>1. old = n => Lookup(h, n) = i
      BY <1>1 DEF NamesFound
  <2>2. QED
      BY <1>1, <2>1
<1> HIDE DEF g
<1>4. /\ HashType(k) /\ Lookup(k, n) = i
      /\ \A m \in Names : m # n => Lookup(k, m) = IF m = old THEN 0 ELSE Lookup(h, m)
  <2>1. CASE old = NoName
      BY <1>2, <2>1, NamesAssumption
  <2>2. CASE old # NoName
      BY <1>2, <1>3, <2>2, DeleteKeeps
  <2>3. QED
      BY <2>1, <2>2
<1> HIDE DEF k
<1>5. Len(es2) = Len(es) /\ es2[i] = x /\ \A j \in 1..Len(es) : j # i => es2[j] = es[j]
    OBVIOUS
<1> HIDE DEF es2
<1>6. ASSUME NEW m \in Names, NEW j \in 1..MaxEntries
      PROVE  Lookup(k, m) = j
               <=> j \in 1..Len(es2) /\ ~es2[j].deleted /\ CurName(es2[j]) = m
  <2>1. Lookup(h, m) = j <=> j \in 1..Len(es) /\ ~es[j].deleted /\ CurName(es[j]) = m
      BY DEF NamesFound
  <2>2. CASE m = n
    <3>1. j # i => ~(j \in 1..Len(es) /\ ~es[j].deleted /\ CurName(es[j]) = n)
        BY <2>1, <2>2, <1>1
    <3>2. QED
        BY <1>4, <1>5, <2>2, <3>1
  <2>3. CASE m # n /\ m = old
    <3>1. Lookup(h, m) = i
        BY <1>1, <2>3 DEF NamesFound
    <3>2. Lookup(k, m) = 0
        BY <1>4, <2>3
    <3>3. QED
        BY <1>1, <1>5, <2>1, <2>3, <3>1, <3>2
  <2>4. CASE m # n /\ m # old
    <3>1. Lookup(k, m) = Lookup(h, m)
        BY <1>4, <2>4
    <3>2. Lookup(h, m) # i
        BY <1>1, <2>4 DEF NamesFound
    <3>3. QED
        BY <1>1, <1>5, <2>1, <2>4, <3>1, <3>2
  <2>5. QED
      BY <2>2, <2>3, <2>4
<1>7. QED
    BY <1>6 DEF NamesFound, k, g, es2

\* A new entry is found under its name.
LEMMA NameAdded ==
    ASSUME NEW es \in Seq(EntryType), Len(es) < MaxEntries,
           NEW h, HashType(h), NamesFound(es, h),
           NEW n \in Names, Lookup(h, n) = 0,
           NEW x \in EntryType, ~x.deleted, CurName(x) = n
    PROVE  NamesFound(Append(es, x), HashAdd(h, n, Len(es) + 1, FALSE))
<1> DEFINE i == Len(es) + 1
           g == HashAdd(h, n, i, FALSE)
           es2 == Append(es, x)
<1>1. Len(es) \in Nat /\ i \in 1..MaxEntries /\ i \in 0..MaxEntries
    BY MaxEntriesAssumption
<1>2. /\ Lookup(g, n) = i
      /\ \A m : m # n => Lookup(g, m) = Lookup(h, m)
  <2>1. HashType(h) /\ n \in Names /\ i \in 0..MaxEntries
      BY <1>1
  <2> HIDE DEF i
  <2>2. QED
      BY ONLY <2>1, AddKeeps
<1> HIDE DEF g
<1>3. Len(es2) = i /\ es2[i] = x /\ \A j \in 1..Len(es) : es2[j] = es[j]
    OBVIOUS
<1> HIDE DEF es2
<1>4. ASSUME NEW m \in Names, NEW j \in 1..MaxEntries
      PROVE  Lookup(g, m) = j
               <=> j \in 1..Len(es2) /\ ~es2[j].deleted /\ CurName(es2[j]) = m
  <2>1. Lookup(h, m) = j <=> j \in 1..Len(es) /\ ~es[j].deleted /\ CurName(es[j]) = m
      BY DEF NamesFound
  <2>2. j \in 1..Len(es2) <=> j \in 1..Len(es) \/ j = i
      BY <1>1, <1>3
  <2>3. i \notin 1..Len(es)
      BY <1>1
  <2>4. CASE m = n
      BY <1>2, <1>3, <2>1, <2>2, <2>3, <2>4
  <2>5. CASE m # n
      BY <1>2, <1>3, <2>1, <2>2, <2>3, <2>5
  <2>6. QED
      BY <2>4, <2>5
<1>5. QED
    BY <1>4 DEF NamesFound, g, es2

\* The entry that had a name gives it up and takes no other.
LEMMA NameGone ==
    ASSUME NEW es \in Seq(EntryType), Len(es) <= MaxEntries,
           NEW h, HashType(h), NamesFound(es, h),
           NEW i \in 1..Len(es), ~es[i].deleted, CurName(es[i]) \in Names,
           NEW x, x.deleted \/ CurName(x) \notin Names
    PROVE  NamesFound([es EXCEPT ![i] = x], HashDelete(h, CurName(es[i])))
<1> DEFINE old == CurName(es[i])
           k == HashDelete(h, old)
           es2 == [es EXCEPT ![i] = x]
<1>1. Len(es) \in Nat /\ i \in 1..MaxEntries
    BY MaxEntriesAssumption
<1>2. /\ Lookup(k, old) = 0
      /\ \A m : m # old => Lookup(k, m) = Lookup(h, m)
    BY DeleteKeeps
<1> HIDE DEF k
<1>3. Len(es2) = Len(es) /\ es2[i] = x /\ \A j \in 1..Len(es) : j # i => es2[j] = es[j]
    OBVIOUS
<1> HIDE DEF es2
<1>4. ASSUME NEW m \in Names, NEW j \in 1..MaxEntries
      PROVE  Lookup(k, m) = j
               <=> j \in 1..Len(es2) /\ ~es2[j].deleted /\ CurName(es2[j]) = m
  <2>1. Lookup(h, m) = j <=> j \in 1..Len(es) /\ ~es[j].deleted /\ CurName(es[j]) = m
      BY DEF NamesFound
  <2>2. Lookup(h, m) = i <=> m = old
      BY <1>1 DEF NamesFound
  <2>3. CASE m = old
      BY <1>1, <1>2, <1>3, <2>1, <2>2, <2>3
  <2>4. CASE m # old
      BY <1>1, <1>2, <1>3, <2>1, <2>2, <2>4
  <2>5. QED
      BY <2>3, <2>4
<1>5. QED
    BY <1>4 DEF NamesFound, k, es2

\* After zip_unchange_all the original names are found.
LEMMA NamesReverted ==
    ASSUME NEW es, NEW h, TableOK(es, h), NEW es2, SameOrigs(es2, es),
           \A i \in 1..Len(es) : ~es2[i].deleted /\ CurName(es2[i]) = es[i].orig
    PROVE  NamesFound(es2, HashRevert(h))
<1> DEFINE g == HashRevert(h)
<1>1. \A m : Lookup(g, m) = OrigOf(h, m)
    BY RevertKeeps DEF TableOK
<1> HIDE DEF g
<1>2. ASSUME NEW m \in Names, NEW j \in 1..MaxEntries
      PROVE  Lookup(g, m) = j
               <=> j \in 1..Len(es2) /\ ~es2[j].deleted /\ CurName(es2[j]) = m
  <2>1. OrigOf(h, m) = j => j \in 1..Len(es) /\ es[j].orig = m
      BY DEF TableOK, OrigsKeyed
  <2>2. j \in 1..Len(es) /\ es[j].orig = m => OrigOf(h, m) = j
      BY NamesAssumption DEF TableOK, OrigsKeyed
  <2>3. QED
      BY <1>1, <2>1, <2>2 DEF SameOrigs
<1>3. QED
    BY <1>2 DEF NamesFound, g

StateOK(es, qs, h) == EntriesOK(es, qs) /\ TableOK(es, h)

\* What holds as long as nothing was done to a deleted entry.
Clean(es, qs, h) ==
    NamesFound(es, h) /\ \A i \in 1..Len(es) : DataAsAsked(es[i], qs[i])

\* The types of the parts.
LEMMA StateTypes ==
    ASSUME NEW es, NEW qs, NEW h, StateOK(es, qs, h)
    PROVE  /\ es \in Seq(EntryType) /\ qs \in Seq(AskedType) /\ Len(qs) = Len(es)
           /\ Len(es) \in Nat /\ Len(es) <= MaxEntries
           /\ HashType(h) /\ TableOK(es, h) /\ EntriesOK(es, qs)
           /\ \A i \in 1..Len(es) : /\ EntryOK(es[i], qs[i])
                                    /\ es[i] \in EntryType /\ qs[i] \in AskedType
BY DEF StateOK, EntriesOK, TableOK, EntryOK

\* A call changes one entry and no name.
LEMMA ChangeOne ==
    ASSUME NEW es, NEW qs, NEW h, StateOK(es, qs, h), NEW i \in 1..Len(es),
           NEW x, NEW y, EntryOK(x, y), x.orig = es[i].orig
    PROVE  StateOK([es EXCEPT ![i] = x], [qs EXCEPT ![i] = y], h)
<1> DEFINE es2 == [es EXCEPT ![i] = x]
<1>1. EntriesOK(es2, [qs EXCEPT ![i] = y])
    BY SetEntry, StateTypes
<1>2. es \in Seq(EntryType) /\ x \in EntryType
    BY StateTypes DEF EntryOK
<1>3. SameOrigs(es2, es)
    BY <1>2 DEF SameOrigs
<1> HIDE DEF es2
<1>4. TableOK(es2, h)
    BY <1>3, KeepTable, StateTypes
<1>5. QED
    BY <1>1, <1>4 DEF StateOK, es2

LEMMA CleanOne ==
    ASSUME NEW es, NEW qs, NEW h, StateOK(es, qs, h), Clean(es, qs, h), NEW i \in 1..Len(es),
           NEW x, NEW y, \A n \in Names : Has(x, n) <=> Has(es[i], n), DataAsAsked(x, y)
    PROVE  Clean([es EXCEPT ![i] = x], [qs EXCEPT ![i] = y], h)
<1> DEFINE es2 == [es EXCEPT ![i] = x]
           qs2 == [qs EXCEPT ![i] = y]
<1>1. /\ Len(es2) = Len(es)
      /\ \A j \in 1..Len(es) : es2[j] = IF j = i THEN x ELSE es[j]
  <2>1. es \in Seq(EntryType)
      BY StateTypes
  <2>2. QED
      BY <2>1
<1>2. \A j \in 1..Len(es) : qs2[j] = IF j = i THEN y ELSE qs[j]
  <2>1. qs \in Seq(AskedType) /\ Len(qs) = Len(es)
      BY StateTypes
  <2>2. QED
      BY <2>1
<1> HIDE DEF es2, qs2
<1>3. NamesFound(es2, h)
    BY <1>1, NameKept DEF Clean
<1>4. QED
    BY <1>1, <1>2, <1>3 DEF Clean, es2, qs2

\* _zip_set_name.
LEMMA SetNameOK ==
    ASSUME NEW es, NEW qs, NEW h, StateOK(es, qs, h), NEW i \in 1..Len(es), NEW n \in Names
    PROVE  /\ SetName(i, n, es, h).e = [es EXCEPT ![i] = Renamed(es[i], n)]
           /\ StateOK(SetName(i, n, es, h).e, [qs EXCEPT ![i] = [qs[i] EXCEPT !.name = n]],
                      SetName(i, n, es, h).h)
<1> DEFINE x == Renamed(es[i], n)
           y == [qs[i] EXCEPT !.name = n]
           es2 == [es EXCEPT ![i] = x]
           old == CurName(es[i])
           g == HashAdd(h, n, i, FALSE)
           k == IF old = NoName THEN g ELSE HashDelete(g, old)
<1>1. SetName(i, n, es, h).e = es2 /\ SetName(i, n, es, h).h = k
    BY DEF SetName
<1>2. EntryOK(es[i], qs[i])
    BY StateTypes
<1>3. EntryOK(x, y) /\ x.orig = es[i].orig
    BY <1>2, RenamedKeeps DEF SameState
<1> HIDE DEF x, y
<1>4. StateOK(es2, [qs EXCEPT ![i] = y], h)
    BY <1>3, ChangeOne
<1>5. Len(es2) = Len(es) /\ Len(es2) \in 0..MaxEntries
  <2>1. es \in Seq(EntryType) /\ Len(es) \in Nat /\ Len(es) <= MaxEntries
      BY StateTypes
  <2>2. Len(es2) = Len(es)
      BY <2>1
  <2>3. QED
      BY <2>1, <2>2, MaxEntriesAssumption
<1> HIDE DEF es2
<1>6. TableOK(es2, g)
  <2>1. TableOK(es2, h) /\ i \in 1..Len(es2) /\ Len(es2) \in 0..MaxEntries /\ n \in Names
      BY <1>4, <1>5, StateTypes
  <2>2. QED
      BY ONLY <2>1, AddTable
<1> HIDE DEF g
<1>7. TableOK(es2, k)
    BY <1>5, <1>6, DeleteTable
<1>8. QED
    BY <1>1, <1>4, <1>7 DEF StateOK, es2, x, y

LEMMA SetNameFound ==
    ASSUME NEW es, NEW qs, NEW h, StateOK(es, qs, h), NamesFound(es, h),
           NEW i \in 1..Len(es), NEW n \in Names, ~es[i].deleted, Lookup(h, n) = 0
    PROVE  NamesFound(SetName(i, n, es, h).e, SetName(i, n, es, h).h)
<1> DEFINE x == Renamed(es[i], n)
           old == CurName(es[i])
           g == HashAdd(h, n, i, FALSE)
           k == IF old = NoName THEN g ELSE HashDelete(g, old)
<1>1. SetName(i, n, es, h).e = [es EXCEPT ![i] = x] /\ SetName(i, n, es, h).h = k
    BY DEF SetName
<1>2. EntryOK(es[i], qs[i]) /\ es \in Seq(EntryType) /\ Len(es) <= MaxEntries /\ HashType(h)
    BY StateTypes
<1>3. x.deleted = es[i].deleted /\ CurName(x) = n
    BY <1>2, RenamedKeeps DEF SameState
<1> HIDE DEF x
<1>4. NamesFound([es EXCEPT ![i] = x], k)
    BY <1>2, <1>3, NameSet
<1>5. QED
    BY <1>1, <1>4

\* The entry _zip_add_entry makes and _zip_file_replace names and fills.
FirstOf(n) == Replaced(Renamed(NewEntry, n))

LEMMA NewNamed ==
    ASSUME NEW n \in Names
    PROVE  /\ NewEntry \in EntryType /\ CurName(NewEntry) = NoName
           /\ Renamed(NewEntry, n) \in EntryType
           /\ EntryOK(FirstOf(n), AskedOfNew(n))
           /\ FirstOf(n).orig = NoName /\ CurName(FirstOf(n)) = n
           /\ FirstOf(n).source = TRUE /\ FirstOf(n).deleted = FALSE
<1>1. NewEntry \in EntryType /\ NewEntry.orig = NoName /\ NewEntry.changes = NoChanges
    BY DEF NewEntry, EntryType
<1>2. Forgotten(NewEntry) = AskedOfNew(NoName)
    BY <1>1 DEF Forgotten
<1>3. EntryOK(NewEntry, AskedOfNew(NoName)) /\ CurName(NewEntry) = NoName
  <2>1. [orig |-> NewEntry.orig, changes |-> NoChanges, source |-> FALSE, deleted |-> FALSE]
          = NewEntry
      BY DEF NewEntry
  <2>2. QED
      BY <1>1, <1>2, <2>1, ForgottenKeeps
<1> DEFINE x == Renamed(NewEntry, n)
           y == [AskedOfNew(NoName) EXCEPT !.name = n]
<1>4. EntryOK(x, y) /\ x.orig = NoName /\ CurName(x) = n
    BY <1>1, <1>3, RenamedKeeps DEF SameState
<1>5. [y EXCEPT !.data = "new"] = AskedOfNew(n)
  <2>1. y = AskedOfNew(n)
      BY DEF AskedOfNew
  <2>2. [AskedOfNew(n) EXCEPT !.data = "new"] = AskedOfNew(n)
      BY DEF AskedOfNew
  <2>3. QED
      BY <2>1, <2>2
<1> HIDE DEF x, y
<1> DEFINE z == Replaced(x)
<1>6. EntryOK(z, AskedOfNew(n)) /\ z.orig = NoName /\ CurName(z) = n
      /\ z.source = TRUE /\ z.deleted = FALSE
  <2>1. EntryOK(x, y)
      BY <1>4
  <2>2. /\ EntryOK(z, [y EXCEPT !.data = "new"]) /\ CurName(z) = CurName(x)
        /\ z.orig = x.orig /\ z.source = TRUE /\ z.deleted = FALSE
      BY ONLY <2>1, ReplacedKeeps
  <2> HIDE DEF z
  <2>3. QED
      BY <1>4, <1>5, <2>2
<1> HIDE DEF z
<1>7. QED
    BY <1>1, <1>3, <1>4, <1>6 DEF EntryOK, x, z, FirstOf

LEMMA AppendExcept ==
    ASSUME NEW S, NEW s \in Seq(S), NEW x \in S, NEW y \in S
    PROVE  [Append(s, x) EXCEPT ![Len(s) + 1] = y] = Append(s, y)
<1> DEFINE t == [Append(s, x) EXCEPT ![Len(s) + 1] = y]
           u == Append(s, y)
<1>1. Len(s) \in Nat /\ DOMAIN t = 1..(Len(s) + 1) /\ DOMAIN u = 1..(Len(s) + 1)
    OBVIOUS
<1>2. ASSUME NEW j \in 1..(Len(s) + 1) PROVE t[j] = u[j]
  <2>1. CASE j = Len(s) + 1
      BY <2>1
  <2>2. CASE j \in 1..Len(s)
    <3>1. Append(s, x)[j] = s[j] /\ Append(s, y)[j] = s[j] /\ j # Len(s) + 1
        BY <2>2
    <3>2. DOMAIN Append(s, x) = 1..(Len(s) + 1)
        OBVIOUS
    <3>3. QED
        BY <3>1, <3>2, Zenon
  <2>3. QED
      BY <2>1, <2>2
<1>3. t \in Seq(S) /\ u \in Seq(S) /\ Len(t) = Len(u)
    OBVIOUS
<1> HIDE DEF t, u
<1>4. t = u
    BY <1>1, <1>2, <1>3, SeqEqual
<1>5. QED
    BY <1>4 DEF t, u

-----------------------------------------------------------------------------
(* Adding an entry, or new data to the one that has the name.              *)

LEMMA AddFileNew ==
    ASSUME entry \in Seq(EntryType), NEW n \in Names, NEW o \in BOOLEAN, Lookup(hash, n) = 0
    PROVE  /\ AddFile(n, o).idx = Len(entry) + 1
           /\ AddFile(n, o).h = HashAdd(hash, n, Len(entry) + 1, FALSE)
           /\ AddFile(n, o).e = Append(entry, FirstOf(n))
<1> DEFINE i == Len(entry) + 1
           es == Append(entry, NewEntry)
           named == SetName(i, n, es, hash)
<1>1. Len(entry) \in Nat /\ es[i] = NewEntry /\ i # 0
    BY NewNamed
<1>2. AddFile(n, o) = [idx |-> i, h |-> named.h,
                      e |-> [named.e EXCEPT ![i] = Replaced(@)]]
    BY <1>1 DEF AddFile
<1>3. CurName(NewEntry) = NoName
    BY NewNamed
<1>4. named.h = HashAdd(hash, n, i, FALSE)
    BY <1>1, <1>3 DEF SetName
<1>5. named.e = [es EXCEPT ![i] = Renamed(NewEntry, n)]
    BY <1>1 DEF SetName
<1>6. named.e = Append(entry, Renamed(NewEntry, n))
  <2>1. NewEntry \in EntryType /\ Renamed(NewEntry, n) \in EntryType
      BY NewNamed
  <2>2. entry \in Seq(EntryType)
      OBVIOUS
  <2>3. [es EXCEPT ![i] = Renamed(NewEntry, n)] = Append(entry, Renamed(NewEntry, n))
      BY ONLY <2>1, <2>2, AppendExcept
  <2>4. QED
      BY <1>5, <2>3
<1> DEFINE x == Renamed(NewEntry, n)
<1>7. x \in EntryType /\ Replaced(x) \in EntryType /\ FirstOf(n) = Replaced(x)
    BY NewNamed DEF FirstOf, EntryOK
<1> HIDE DEF x, named
<1>8. Append(entry, x)[i] = x
    BY <1>1, <1>7
<1>9. [Append(entry, x) EXCEPT ![i] = Replaced(@)] = Append(entry, Replaced(x))
    BY <1>7, <1>8, AppendExcept
<1>10. QED
    BY <1>2, <1>4, <1>6, <1>7, <1>9 DEF x

LEMMA AddFileOver ==
    ASSUME NEW n \in Names, Lookup(hash, n) # 0
    PROVE  /\ AddFile(n, TRUE).idx = Lookup(hash, n)
           /\ AddFile(n, TRUE).h = hash
           /\ AddFile(n, TRUE).e
                = [entry EXCEPT ![Lookup(hash, n)] = Replaced(entry[Lookup(hash, n)])]
BY DEF AddFile

LEMMA AddFileRefused ==
    ASSUME NEW n \in Names, Lookup(hash, n) # 0
    PROVE  /\ AddFile(n, FALSE).idx = 0
           /\ AddFile(n, FALSE).h = hash
           /\ AddFile(n, FALSE).e = entry
BY DEF AddFile

\* What was asked, after zip_file_add has succeeded.
AskedAfter(n, idx) ==
    IF idx > Len(entry) THEN Append(asked, AskedOfNew(n))
    ELSE [asked EXCEPT ![idx].data = "new"]

\* The entries and the table as they are between two calls.
Core == StateOK(entry, asked, hash) /\ (~touched => Clean(entry, asked, hash))

LEMMA AddFileAppends ==
    ASSUME Core, Len(entry) < MaxEntries, NEW n \in Names, NEW o \in BOOLEAN,
           Lookup(hash, n) = 0
    PROVE  LET r == AddFile(n, o)
               qs == Append(asked, AskedOfNew(n))
           IN  /\ r.idx = Len(entry) + 1 /\ r.idx \in 1..Len(r.e)
               /\ StateOK(r.e, qs, r.h)
               /\ ~touched => Clean(r.e, qs, r.h)
               /\ ~r.e[r.idx].deleted /\ r.e[r.idx].source /\ qs[r.idx].data = "new"
<1> DEFINE i == Len(entry) + 1
           x == FirstOf(n)
           y == AskedOfNew(n)
           es == Append(entry, x)
           qs == Append(asked, y)
           g == HashAdd(hash, n, i, FALSE)
<1>1. /\ entry \in Seq(EntryType) /\ asked \in Seq(AskedType) /\ Len(asked) = Len(entry)
      /\ Len(entry) \in Nat /\ HashType(hash) /\ TableOK(entry, hash)
      /\ EntriesOK(entry, asked)
    BY StateTypes DEF Core
<1>2. /\ AddFile(n, o).idx = i /\ AddFile(n, o).h = g /\ AddFile(n, o).e = es
    BY <1>1, AddFileNew
<1>3. /\ EntryOK(x, y) /\ x \in EntryType /\ y \in AskedType
      /\ x.orig = NoName /\ CurName(x) = n /\ x.source = TRUE /\ x.deleted = FALSE
    BY NewNamed DEF EntryOK
<1>4. y.data = "new"
    BY DEF AskedOfNew
<1> HIDE DEF x, y
<1>5. EntriesOK(es, qs)
    BY <1>1, <1>3, AppendEntry
<1>6. /\ Len(es) = i /\ es[i] = x
      /\ \A j \in 1..Len(entry) : es[j] = entry[j]
    BY <1>1, <1>3, SeqAppend
<1>7. qs[i] = y /\ \A j \in 1..Len(entry) : qs[j] = asked[j]
  <2>1. asked \in Seq(AskedType) /\ y \in AskedType /\ Len(asked) = Len(entry)
      BY <1>1, <1>3
  <2>2. QED
      BY <2>1, SMT
<1>8. TableOK(es, hash)
    BY <1>1, <1>3, AppendTable
<1>9. ~touched => NamesFound(es, g)
    BY <1>1, <1>3, NameAdded DEF Core, Clean
<1> HIDE DEF es, qs
<1>10. i \in 1..Len(es) /\ Len(es) \in 0..MaxEntries
    BY <1>1, <1>6, MaxEntriesAssumption
<1>11. TableOK(es, g)
  <2>1. TableOK(es, hash) /\ n \in Names /\ i \in 1..Len(es) /\ Len(es) \in 0..MaxEntries
      BY <1>8, <1>10
  <2> HIDE DEF i
  <2>2. QED
      BY ONLY <2>1, AddTable
<1> HIDE DEF g
<1>12. ASSUME ~touched PROVE Clean(es, qs, g)
  <2>1. DataAsAsked(x, y)
      BY <1>3, <1>4 DEF DataAsAsked
  <2>2. ASSUME NEW j \in 1..Len(es) PROVE DataAsAsked(es[j], qs[j])
    <3>1. j \in 1..Len(entry) \/ j = i
        BY <1>1, <1>6
    <3>2. QED
        BY <1>6, <1>7, <1>12, <2>1, <3>1 DEF Core, Clean
  <2>3. QED
      BY <1>9, <1>12, <2>2 DEF Clean
<1>13. StateOK(es, qs, g)
    BY <1>5, <1>11 DEF StateOK
<1>14. QED
    BY <1>2, <1>3, <1>4, <1>6, <1>7, <1>10, <1>12, <1>13 DEF qs, y

LEMMA AddFileReplaces ==
    ASSUME Core, NEW n \in Names, Lookup(hash, n) # 0
    PROVE  LET r == AddFile(n, TRUE)
               qs == [asked EXCEPT ![r.idx] = [asked[r.idx] EXCEPT !.data = "new"]]
           IN  /\ r.idx \in 1..Len(entry) /\ r.idx \in 1..Len(r.e)
               /\ StateOK(r.e, qs, r.h)
               /\ ~touched => Clean(r.e, qs, r.h)
               /\ ~r.e[r.idx].deleted /\ r.e[r.idx].source /\ qs[r.idx].data = "new"
<1> DEFINE i == Lookup(hash, n)
           x == Replaced(entry[i])
           y == [asked[i] EXCEPT !.data = "new"]
           es == [entry EXCEPT ![i] = x]
           qs == [asked EXCEPT ![i] = y]
<1>1. /\ entry \in Seq(EntryType) /\ asked \in Seq(AskedType) /\ Len(asked) = Len(entry)
      /\ Len(entry) \in Nat /\ Len(entry) <= MaxEntries
      /\ HashType(hash) /\ TableOK(entry, hash)
      /\ \A j \in 1..Len(entry) : EntryOK(entry[j], asked[j]) /\ asked[j] \in AskedType
    BY StateTypes DEF Core
<1>2. i \in 1..Len(entry) /\ i \in 1..MaxEntries
  <2>1. i \in 0..MaxEntries /\ i <= Len(entry)
      BY <1>1, LookupKey DEF TableOK, KeysInside
  <2>2. QED
      BY <1>1, <2>1, MaxEntriesAssumption
<1>3. /\ AddFile(n, TRUE).idx = i /\ AddFile(n, TRUE).h = hash /\ AddFile(n, TRUE).e = es
    BY AddFileOver
<1>4. ~touched => Has(entry[i], n)
    BY <1>2 DEF Core, Clean, NamesFound, Has
<1> HIDE DEF i
<1>5. /\ EntryOK(x, y) /\ CurName(x) = CurName(entry[i]) /\ x.orig = entry[i].orig
      /\ x.source = TRUE /\ x.deleted = FALSE
    BY <1>1, <1>2, ReplacedKeeps
<1>6. y.data = "new"
    BY <1>1, <1>2 DEF AskedType
<1> HIDE DEF x, y
<1>7. StateOK(es, qs, hash)
    BY <1>2, <1>5, ChangeOne DEF Core
<1>8. ASSUME ~touched PROVE Clean(es, qs, hash)
  <2>1. \A m \in Names : Has(x, m) <=> Has(entry[i], m)
      BY <1>4, <1>5, <1>8 DEF Has
  <2>2. DataAsAsked(x, y)
      BY <1>5, <1>6 DEF DataAsAsked
  <2>3. QED
      BY <1>2, <1>8, <2>1, <2>2, CleanOne DEF Core
<1>9. Len(es) = Len(entry) /\ es[i] = x
    BY <1>1, <1>2
<1>10. qs[i] = y
    BY <1>1, <1>2
<1> HIDE DEF es, qs
<1>11. QED
    BY <1>2, <1>3, <1>5, <1>6, <1>7, <1>8, <1>9, <1>10 DEF qs, y

\* zip_file_add and the first half of zip_dir_add.
LEMMA AddFileOK ==
    ASSUME Core, Len(entry) < MaxEntries, NEW n \in Names, NEW o \in BOOLEAN,
           AddFile(n, o).idx # 0
    PROVE  LET r == AddFile(n, o)
               qs == AskedAfter(n, r.idx)
           IN  /\ r.idx \in 1..Len(r.e)
               /\ StateOK(r.e, qs, r.h)
               /\ ~touched => Clean(r.e, qs, r.h)
               /\ ~r.e[r.idx].deleted /\ r.e[r.idx].source /\ qs[r.idx].data = "new"
<1> DEFINE r == AddFile(n, o)
<1>0. Len(entry) \in Nat
    BY StateTypes DEF Core
<1>1. CASE Lookup(hash, n) = 0
  <2>1. r.idx = Len(entry) + 1
      BY <1>1, AddFileAppends
  <2>2. AskedAfter(n, r.idx) = Append(asked, AskedOfNew(n))
      BY <1>0, <2>1 DEF AskedAfter
  <2>3. QED
      BY <1>1, <2>2, AddFileAppends
<1>2. CASE Lookup(hash, n) # 0
  <2>1. o = TRUE
      BY <1>2, AddFileRefused
  <2>2. r.idx \in 1..Len(entry)
      BY <1>2, <2>1, AddFileReplaces
  <2>3. AskedAfter(n, r.idx)
          = [asked EXCEPT ![r.idx] = [asked[r.idx] EXCEPT !.data = "new"]]
    <3>1. ~(r.idx > Len(entry))
        BY <1>0, <2>2
    <3>2. QED
        BY <3>1 DEF AskedAfter
  <2>4. QED
      BY <1>2, <2>1, <2>3, AddFileReplaces
<1>3. QED
    BY <1>1, <1>2

-----------------------------------------------------------------------------
(* Each call keeps the entries and the table in order.                     *)

LEMMA FileAddCore ==
    ASSUME Core, NEW n \in Names, NEW o \in BOOLEAN, FileAdd(n, o)
    PROVE  Core'
<1> DEFINE r == AddFile(n, o)
<1>1. /\ Len(entry) < MaxEntries /\ r.idx # 0
      /\ entry' = r.e /\ hash' = r.h /\ asked' = AskedAfter(n, r.idx) /\ touched' = touched
    BY DEF FileAdd, AskedAfter
<1>2. /\ StateOK(r.e, AskedAfter(n, r.idx), r.h)
      /\ ~touched => Clean(r.e, AskedAfter(n, r.idx), r.h)
    BY <1>1, AddFileOK
<1> HIDE DEF r
<1>3. QED
    BY <1>1, <1>2 DEF Core

LEMMA DirAddCore ==
    ASSUME Core, NEW n \in Names, NEW o \in BOOLEAN, DirAdd(n, o)
    PROVE  Core'
<1> DEFINE r == AddFile(n, o)
           qs == AskedAfter(n, r.idx)
           x == Mark(r.e[r.idx], "attr", 1)
           y == [qs[r.idx] EXCEPT !.attr = 1]
<1>1. /\ Len(entry) < MaxEntries /\ r.idx # 0
      /\ entry' = [r.e EXCEPT ![r.idx] = x] /\ hash' = r.h
      /\ asked' = [qs EXCEPT ![r.idx] = y] /\ touched' = touched
    BY DEF DirAdd, AskedAfter
<1>2. /\ r.idx \in 1..Len(r.e) /\ StateOK(r.e, qs, r.h)
      /\ ~touched => Clean(r.e, qs, r.h)
      /\ ~r.e[r.idx].deleted /\ r.e[r.idx].source /\ qs[r.idx].data = "new"
    BY <1>1, AddFileOK
<1> HIDE DEF r, qs
<1>3. EntryOK(r.e[r.idx], qs[r.idx]) /\ qs[r.idx] \in AskedType
    BY <1>2, StateTypes
<1>4. /\ y \in AskedType /\ y.name = qs[r.idx].name /\ y.method = qs[r.idx].method
      /\ y.mtime = qs[r.idx].mtime /\ y.attr = 1 /\ y.data = qs[r.idx].data
    BY <1>3 DEF AskedType
<1> HIDE DEF y
<1>5. EntryOK(x, y) /\ SameState(x, r.e[r.idx]) /\ CurName(x) = CurName(r.e[r.idx])
    BY <1>3, <1>4, MarkAttrKeeps
<1> HIDE DEF x
<1>6. StateOK(entry', asked', hash')
    BY <1>1, <1>2, <1>5, ChangeOne DEF SameState
<1>7. ASSUME ~touched PROVE Clean(entry', asked', hash')
  <2>1. \A m \in Names : Has(x, m) <=> Has(r.e[r.idx], m)
      BY <1>5 DEF SameState, Has
  <2>2. DataAsAsked(x, y)
      BY <1>2, <1>4, <1>5 DEF DataAsAsked, SameState
  <2>3. QED
      BY <1>1, <1>2, <1>7, <2>1, <2>2, CleanOne
<1>8. QED
    BY <1>1, <1>6, <1>7 DEF Core

\* A call changes one entry and no name; t says whether something has been
\* done to a deleted entry by then.
LEMMA OneCore ==
    ASSUME Core, NEW i \in Indices, NEW t, NEW x, NEW y,
           EntryOK(x, y), x.orig = entry[i].orig,
           ~t => /\ ~touched
                 /\ \A m \in Names : Has(x, m) <=> Has(entry[i], m)
                 /\ DataAsAsked(x, y)
    PROVE  /\ StateOK([entry EXCEPT ![i] = x], [asked EXCEPT ![i] = y], hash)
           /\ ~t => Clean([entry EXCEPT ![i] = x], [asked EXCEPT ![i] = y], hash)
<1>1. /\ StateOK(entry, asked, hash) /\ i \in 1..Len(entry)
      /\ EntryOK(x, y) /\ x.orig = entry[i].orig
    BY DEF Core, Indices
<1>2. StateOK([entry EXCEPT ![i] = x], [asked EXCEPT ![i] = y], hash)
    BY ONLY <1>1, ChangeOne
<1>3. ASSUME ~t
      PROVE  Clean([entry EXCEPT ![i] = x], [asked EXCEPT ![i] = y], hash)
  <2>1. /\ StateOK(entry, asked, hash) /\ i \in 1..Len(entry)
        /\ Clean(entry, asked, hash) /\ DataAsAsked(x, y)
        /\ \A m \in Names : Has(x, m) <=> Has(entry[i], m)
      BY <1>1, <1>3 DEF Core
  <2>2. QED
      BY ONLY <2>1, CleanOne
<1>4. QED
    BY <1>2, <1>3

\* New data for one entry, by zip_file_replace and updateEntry.
LEMMA ReplaceOne ==
    ASSUME Core, NEW i \in Indices, NEW t, ~t => ~touched /\ ~entry[i].deleted
    PROVE  LET es == [entry EXCEPT ![i] = Replaced(entry[i])]
               qs == [asked EXCEPT ![i] = [asked[i] EXCEPT !.data = "new"]]
           IN  StateOK(es, qs, hash) /\ (~t => Clean(es, qs, hash))
<1> DEFINE x == Replaced(entry[i])
           y == [asked[i] EXCEPT !.data = "new"]
<1>1. i \in 1..Len(entry) /\ EntryOK(entry[i], asked[i]) /\ asked[i] \in AskedType
    BY StateTypes DEF Core, Indices
<1>2. /\ EntryOK(x, y) /\ CurName(x) = CurName(entry[i]) /\ x.orig = entry[i].orig
      /\ x.source = TRUE /\ x.deleted = FALSE
    BY <1>1, ReplacedKeeps
<1>3. y.data = "new"
    BY <1>1 DEF AskedType
<1> HIDE DEF x, y
<1>4. ~t => \A m \in Names : Has(x, m) <=> Has(entry[i], m)
    BY <1>2 DEF Has
<1>5. DataAsAsked(x, y)
    BY <1>2, <1>3 DEF DataAsAsked
<1>6. /\ Core /\ i \in Indices /\ EntryOK(x, y) /\ x.orig = entry[i].orig
      /\ ~t => /\ ~touched
               /\ \A m \in Names : Has(x, m) <=> Has(entry[i], m)
               /\ DataAsAsked(x, y)
    BY <1>2, <1>4, <1>5
<1>7. /\ StateOK([entry EXCEPT ![i] = x], [asked EXCEPT ![i] = y], hash)
      /\ ~t => Clean([entry EXCEPT ![i] = x], [asked EXCEPT ![i] = y], hash)
    BY ONLY <1>6, OneCore
<1>8. QED
    BY <1>7 DEF x, y

LEMMA FileReplaceCore ==
    ASSUME Core, NEW i \in Indices, FileReplace(i), touched \in BOOLEAN
    PROVE  Core'
<1> DEFINE es == [entry EXCEPT ![i] = Replaced(entry[i])]
           qs == [asked EXCEPT ![i] = [asked[i] EXCEPT !.data = "new"]]
<1>1. /\ entry' = es /\ asked' = qs /\ hash' = hash
      /\ ~touched' => ~touched /\ ~entry[i].deleted
    BY DEF FileReplace
<1>2. StateOK(es, qs, hash) /\ (~touched' => Clean(es, qs, hash))
  <2>1. Core /\ i \in Indices /\ (~touched' => ~touched /\ ~entry[i].deleted)
      BY <1>1
  <2>2. QED
      BY ONLY <2>1, ReplaceOne
<1> HIDE DEF es, qs
<1>3. QED
    BY <1>1, <1>2 DEF Core

\* A field of one entry, other than its name, is set.
LEMMA FieldCore ==
    ASSUME Core, NEW i \in Indices, NEW x, NEW y, EntryOK(x, y), SameState(x, entry[i]),
           CurName(x) = CurName(entry[i]), y.data = asked[i].data,
           ~touched' => ~touched /\ ~entry[i].deleted /\ ~Ghost(entry[i]),
           entry' = [entry EXCEPT ![i] = x], asked' = [asked EXCEPT ![i] = y],
           hash' = hash
    PROVE  Core'
<1>1. ASSUME ~touched' PROVE DataAsAsked(x, y)
  <2>1. DataAsAsked(entry[i], asked[i])
      BY <1>1 DEF Core, Clean, Indices
  <2>2. QED
      BY <1>1, <2>1 DEF DataAsAsked, SameState
<1>2. /\ Core /\ i \in Indices /\ EntryOK(x, y) /\ x.orig = entry[i].orig
      /\ ~touched' => /\ ~touched
                      /\ \A m \in Names : Has(x, m) <=> Has(entry[i], m)
                      /\ DataAsAsked(x, y)
    BY <1>1 DEF SameState, Has
<1>3. /\ StateOK([entry EXCEPT ![i] = x], [asked EXCEPT ![i] = y], hash)
      /\ ~touched' => Clean([entry EXCEPT ![i] = x], [asked EXCEPT ![i] = y], hash)
    BY ONLY <1>2, OneCore
<1>4. QED
    BY <1>3 DEF Core

\* An entry that is looked at through its record is not deleted.
LEMMA DirentThere ==
    ASSUME Core, NEW i \in Indices, HasDirent(entry[i])
    PROVE  ~Ghost(entry[i]) /\ (~touched => ~entry[i].deleted)
<1>1. ~touched => DataAsAsked(entry[i], asked[i])
    BY DEF Core, Clean, Indices
<1>2. QED
    BY <1>1 DEF HasDirent, Ghost, DataAsAsked

LEMMA FileRenameCore ==
    ASSUME Core, NEW i \in Indices, NEW n \in Names, FileRename(i, n), touched \in BOOLEAN
    PROVE  Core'
<1> DEFINE r == SetName(i, n, entry, hash)
           y == [asked[i] EXCEPT !.name = n]
<1>1. /\ Lookup(hash, n) = 0 /\ entry' = r.e /\ hash' = r.h
      /\ asked' = [asked EXCEPT ![i] = y]
      /\ ~touched' => ~touched /\ ~entry[i].deleted
      /\ HasDirent(entry[i])
    BY DEF FileRename
<1>2. i \in 1..Len(entry) /\ EntryOK(entry[i], asked[i]) /\ asked[i] \in AskedType
    BY StateTypes DEF Core, Indices
<1>3. StateOK(r.e, [asked EXCEPT ![i] = y], r.h) /\ r.e = [entry EXCEPT ![i] = Renamed(entry[i], n)]
    BY <1>2, SetNameOK DEF Core
<1>4. ASSUME ~touched' PROVE Clean(entry', asked', hash')
  <2>1. NamesFound(r.e, r.h)
      BY <1>1, <1>2, <1>4, SetNameFound DEF Core, Clean
  <2> HIDE DEF r
  <2> DEFINE x == Renamed(entry[i], n)
  <2>2. SameState(x, entry[i])
      BY <1>2, RenamedKeeps
  <2>3. y.data = asked[i].data
      BY <1>2 DEF AskedType
  <2>4. ~Ghost(entry[i])
      BY <1>1 DEF Ghost, HasDirent
  <2>5. DataAsAsked(entry[i], asked[i])
      BY <1>1, <1>2, <1>4 DEF Core, Clean
  <2> HIDE DEF x, y
  <2>6. DataAsAsked(x, y)
      BY <1>1, <1>4, <2>2, <2>3, <2>4, <2>5 DEF DataAsAsked, SameState
  <2>7. ASSUME NEW j \in 1..Len(entry')
        PROVE  DataAsAsked(entry'[j], asked'[j])
    <3>1. Len(entry') = Len(entry) /\ \A k \in 1..Len(entry) : entry'[k] = IF k = i THEN x ELSE entry[k]
      <4>1. entry \in Seq(EntryType) /\ entry' = [entry EXCEPT ![i] = x]
          BY <1>1, <1>3, StateTypes DEF Core, x
      <4>2. QED
          BY <1>2, <4>1
    <3>2. \A k \in 1..Len(entry) : asked'[k] = IF k = i THEN y ELSE asked[k]
      <4>1. asked \in Seq(AskedType) /\ Len(asked) = Len(entry)
          BY StateTypes DEF Core
      <4>2. QED
          BY <1>1, <4>1
    <3>3. QED
        BY <1>1, <1>4, <2>6, <3>1, <3>2 DEF Core, Clean
  <2>8. QED
      BY <1>1, <2>1, <2>7 DEF Clean
<1>5. QED
    BY <1>1, <1>3, <1>4 DEF Core

LEMMA SetCompressionCore ==
    ASSUME Core, NEW i \in Indices, NEW m \in Methods \ {"replaced"}, SetCompression(i, m),
           touched \in BOOLEAN
    PROVE  Core'
<1> DEFINE e == entry[i]
           x == IF m = OrigMethod(e) THEN Unmark(e, "method") ELSE Mark(e, "method", m)
           y == [asked[i] EXCEPT !.method = m]
<1>1. /\ entry' = [entry EXCEPT ![i] = x] /\ asked' = [asked EXCEPT ![i] = y] /\ hash' = hash
      /\ ~touched' => ~touched /\ ~entry[i].deleted /\ ~Ghost(entry[i])
    BY DEF SetCompression
<1>2. EntryOK(e, asked[i]) /\ asked[i] \in AskedType
    BY StateTypes DEF Core, Indices
<1>3. /\ y \in AskedType /\ y.name = asked[i].name /\ y.method = m
      /\ y.mtime = asked[i].mtime /\ y.attr = asked[i].attr /\ y.data = asked[i].data
    BY <1>2 DEF AskedType
<1> HIDE DEF y
<1>4. EntryOK(x, y) /\ SameState(x, e) /\ CurName(x) = CurName(e)
  <2>1. CASE m = OrigMethod(e)
    <3>1. Actual(y.method) = "deflate"
        BY <1>3, <2>1 DEF OrigMethod, Actual
    <3>2. /\ EntryOK(e, asked[i]) /\ y \in AskedType /\ Actual(y.method) = "deflate"
          /\ y.name = asked[i].name /\ y.mtime = asked[i].mtime /\ y.attr = asked[i].attr
        BY <1>2, <1>3, <3>1
    <3>3. EntryOK(Unmark(e, "method"), y) /\ SameState(Unmark(e, "method"), e)
          /\ CurName(Unmark(e, "method")) = CurName(e)
        BY ONLY <3>2, UnmarkMethodKeeps
    <3>4. QED
        BY <2>1, <3>3
  <2>2. CASE m # OrigMethod(e)
    <3>1. /\ EntryOK(e, asked[i]) /\ y \in AskedType /\ Actual(y.method) = Actual(m)
          /\ y.name = asked[i].name /\ y.mtime = asked[i].mtime /\ y.attr = asked[i].attr
          /\ m \in Methods
        BY <1>2, <1>3
    <3>2. EntryOK(Mark(e, "method", m), y) /\ SameState(Mark(e, "method", m), e)
          /\ CurName(Mark(e, "method", m)) = CurName(e)
        BY ONLY <3>1, MarkMethodKeeps
    <3>3. QED
        BY <2>2, <3>2
  <2>3. QED
      BY <2>1, <2>2
<1> HIDE DEF x
<1>5. QED
    BY <1>1, <1>3, <1>4, FieldCore

LEMMA SetMtimeCore ==
    ASSUME Core, NEW i \in Indices, NEW t \in {0, 1}, SetMtime(i, t)
    PROVE  Core'
<1> DEFINE e == entry[i]
           x == IF e.orig = NoName \/ t # 0 THEN Mark(e, "mtime", t) ELSE Unmark(e, "mtime")
           y == [asked[i] EXCEPT !.mtime = t]
<1>1. /\ entry' = [entry EXCEPT ![i] = x] /\ asked' = [asked EXCEPT ![i] = y] /\ hash' = hash
      /\ touched' = touched /\ HasDirent(entry[i])
    BY DEF SetMtime
<1>2. EntryOK(e, asked[i]) /\ asked[i] \in AskedType
    BY StateTypes DEF Core, Indices
<1>3. /\ y \in AskedType /\ y.name = asked[i].name /\ y.method = asked[i].method
      /\ y.mtime = t /\ y.attr = asked[i].attr /\ y.data = asked[i].data
    BY <1>2 DEF AskedType
<1> HIDE DEF y
<1>4. EntryOK(x, y) /\ SameState(x, e) /\ CurName(x) = CurName(e)
  <2>1. CASE e.orig = NoName \/ t # 0
    <3>1. /\ EntryOK(e, asked[i]) /\ y \in AskedType /\ y.mtime = t /\ t \in {0, 1}
          /\ y.name = asked[i].name /\ y.method = asked[i].method /\ y.attr = asked[i].attr
        BY <1>2, <1>3
    <3>2. EntryOK(Mark(e, "mtime", t), y) /\ SameState(Mark(e, "mtime", t), e)
          /\ CurName(Mark(e, "mtime", t)) = CurName(e)
        BY ONLY <3>1, MarkMtimeKeeps
    <3>3. QED
        BY <2>1, <3>2
  <2>2. CASE ~(e.orig = NoName \/ t # 0)
    <3>1. /\ EntryOK(e, asked[i]) /\ y \in AskedType /\ y.mtime = 0
          /\ y.name = asked[i].name /\ y.method = asked[i].method /\ y.attr = asked[i].attr
        BY <1>2, <1>3, <2>2
    <3>2. EntryOK(Unmark(e, "mtime"), y) /\ SameState(Unmark(e, "mtime"), e)
          /\ CurName(Unmark(e, "mtime")) = CurName(e)
        BY ONLY <3>1, UnmarkMtimeKeeps
    <3>3. QED
        BY <2>2, <3>2
  <2>3. QED
      BY <2>1, <2>2
<1> HIDE DEF x
<1>5. ~touched' => ~touched /\ ~entry[i].deleted /\ ~Ghost(entry[i])
    BY <1>1, DirentThere
<1>6. QED
    BY <1>1, <1>3, <1>4, <1>5, FieldCore

LEMMA SetAttributesCore ==
    ASSUME Core, NEW i \in Indices, NEW v \in {0, 1}, SetAttributes(i, v)
    PROVE  Core'
<1> DEFINE e == entry[i]
           z == IF e.changes = NoChanges THEN e
                ELSE Unmark([e EXCEPT !.changes.attr = 0], "attr")
           x == IF v # 0 THEN Mark(e, "attr", v) ELSE z
           y == [asked[i] EXCEPT !.attr = v]
<1>1. /\ entry' = [entry EXCEPT ![i] = x] /\ asked' = [asked EXCEPT ![i] = y] /\ hash' = hash
      /\ touched' = touched /\ HasDirent(entry[i])
    BY DEF SetAttributes
<1>2. EntryOK(e, asked[i]) /\ asked[i] \in AskedType
    BY StateTypes DEF Core, Indices
<1>3. /\ y \in AskedType /\ y.name = asked[i].name /\ y.method = asked[i].method
      /\ y.mtime = asked[i].mtime /\ y.attr = v /\ y.data = asked[i].data
    BY <1>2 DEF AskedType
<1> HIDE DEF y
<1>4. EntryOK(x, y) /\ SameState(x, e) /\ CurName(x) = CurName(e)
  <2>1. CASE v # 0
    <3>1. /\ EntryOK(e, asked[i]) /\ y \in AskedType /\ y.attr = v /\ v \in {1}
          /\ y.name = asked[i].name /\ y.method = asked[i].method /\ y.mtime = asked[i].mtime
        BY <1>2, <1>3, <2>1
    <3>2. EntryOK(Mark(e, "attr", v), y) /\ SameState(Mark(e, "attr", v), e)
          /\ CurName(Mark(e, "attr", v)) = CurName(e)
        BY ONLY <3>1, MarkAttrKeeps
    <3>3. QED
        BY <2>1, <3>2
  <2>2. CASE v = 0
    <3>1. /\ EntryOK(e, asked[i]) /\ y \in AskedType /\ y.attr = 0
          /\ y.name = asked[i].name /\ y.method = asked[i].method /\ y.mtime = asked[i].mtime
        BY <1>2, <1>3, <2>2
    <3>2. EntryOK(z, y) /\ SameState(z, e) /\ CurName(z) = CurName(e)
        BY ONLY <3>1, ResetAttrKeeps
    <3>3. QED
        BY <2>2, <3>2
  <2>3. QED
      BY <2>1, <2>2
<1> HIDE DEF x
<1>5. ~touched' => ~touched /\ ~entry[i].deleted /\ ~Ghost(entry[i])
    BY <1>1, DirentThere
<1>6. QED
    BY <1>1, <1>3, <1>4, <1>5, FieldCore

\* An entry as zip_delete or zip_unchange leaves it.
Emptied(e, d) == [orig |-> e.orig, changes |-> NoChanges, source |-> FALSE, deleted |-> d]

LEMMA EmptiedKeeps ==
    ASSUME NEW e \in EntryType, NEW d \in BOOLEAN
    PROVE  /\ EntryOK(Emptied(e, d), Forgotten(e)) /\ Emptied(e, d) \in EntryType
           /\ Emptied(e, d).orig = e.orig /\ Emptied(e, d).deleted = d
           /\ CurName(Emptied(e, d)) = e.orig
           /\ DataAsAsked(Emptied(e, d), Forgotten(e))
<1> DEFINE x == Emptied(e, d)
<1>1. EntryOK(x, Forgotten(e)) /\ CurName(x) = e.orig /\ (e.orig # NoName => Forgotten(e).data = "orig")
    BY ForgottenKeeps DEF Emptied
<1>2. x.orig = e.orig /\ x.deleted = d /\ x.source = FALSE /\ x.changes = NoChanges
    BY DEF Emptied
<1>3. x \in EntryType
    BY <1>1 DEF EntryOK
<1> HIDE DEF x
<1>4. DataAsAsked(x, Forgotten(e))
    BY <1>1, <1>2 DEF DataAsAsked, Ghost
<1>5. QED
    BY <1>1, <1>2, <1>3, <1>4 DEF x

\* The data of the other entries is not touched.
LEMMA DataOne ==
    ASSUME NEW es, NEW qs, NEW h, StateOK(es, qs, h), NEW i \in 1..Len(es),
           \A j \in 1..Len(es) : DataAsAsked(es[j], qs[j]),
           NEW x, NEW y, DataAsAsked(x, y)
    PROVE  \A j \in 1..Len([es EXCEPT ![i] = x]) :
              DataAsAsked([es EXCEPT ![i] = x][j], [qs EXCEPT ![i] = y][j])
<1> DEFINE es2 == [es EXCEPT ![i] = x]
           qs2 == [qs EXCEPT ![i] = y]
<1>1. /\ Len(es2) = Len(es)
      /\ \A j \in 1..Len(es) : es2[j] = IF j = i THEN x ELSE es[j]
  <2>1. es \in Seq(EntryType)
      BY StateTypes
  <2>2. QED
      BY <2>1
<1>2. \A j \in 1..Len(es) : qs2[j] = IF j = i THEN y ELSE qs[j]
  <2>1. qs \in Seq(AskedType) /\ Len(qs) = Len(es)
      BY StateTypes
  <2>2. QED
      BY <2>1
<1> HIDE DEF es2, qs2
<1>3. QED
    BY <1>1, <1>2 DEF es2, qs2

\* zip_delete and zip_unchange: what becomes of the entry, and of a table h
\* that is right for the entries.
LEMMA EmptyOne ==
    ASSUME Core, NEW i \in Indices, NEW d \in BOOLEAN
    PROVE  LET es == [entry EXCEPT ![i] = Emptied(entry[i], d)]
               qs == [asked EXCEPT ![i] = Forgotten(entry[i])]
           IN  /\ StateOK(es, qs, hash)
               /\ ~touched => \A j \in 1..Len(es) : DataAsAsked(es[j], qs[j])
<1> DEFINE x == Emptied(entry[i], d)
           y == Forgotten(entry[i])
<1>1. StateOK(entry, asked, hash) /\ i \in 1..Len(entry) /\ entry[i] \in EntryType
    BY StateTypes DEF Core, Indices
<1>2. EntryOK(x, y) /\ x.orig = entry[i].orig /\ DataAsAsked(x, y)
    BY <1>1, EmptiedKeeps
<1> HIDE DEF x, y
<1>3. StateOK([entry EXCEPT ![i] = x], [asked EXCEPT ![i] = y], hash)
    BY ONLY <1>1, <1>2, ChangeOne
<1>4. ASSUME ~touched
      PROVE  \A j \in 1..Len([entry EXCEPT ![i] = x]) :
                DataAsAsked([entry EXCEPT ![i] = x][j], [asked EXCEPT ![i] = y][j])
  <2>1. \A j \in 1..Len(entry) : DataAsAsked(entry[j], asked[j])
      BY <1>4 DEF Core, Clean
  <2>2. QED
      BY ONLY <1>1, <1>2, <2>1, DataOne
<1>5. QED
    BY <1>3, <1>4 DEF x, y

LEMMA DeleteCore ==
    ASSUME Core, NEW i \in Indices, Delete(i), touched \in BOOLEAN
    PROVE  Core'
<1> DEFINE e == entry[i]
           x == Emptied(e, TRUE)
           es == [entry EXCEPT ![i] = x]
           qs == [asked EXCEPT ![i] = Forgotten(e)]
           k == HashDelete(hash, CurName(e))
<1>1. /\ entry \in Seq(EntryType) /\ e \in EntryType /\ i \in 1..Len(entry)
      /\ Len(entry) \in Nat /\ Len(entry) <= MaxEntries /\ HashType(hash)
    BY StateTypes DEF Core, Indices
<1>2. entry' = es
  <2>1. entry' = [entry EXCEPT ![i].changes = NoChanges, ![i].source = FALSE,
                               ![i].deleted = TRUE]
      BY DEF Delete
  <2>2. entry' = [entry EXCEPT ![i] = [e EXCEPT !.changes = NoChanges, !.source = FALSE,
                                                !.deleted = TRUE]]
      BY <1>1, <2>1
  <2>3. QED
      BY <1>1, <2>2, DeletedEntry DEF Emptied
<1>3. /\ hash' = k /\ asked' = qs /\ Found(hash, CurName(e))
      /\ ~touched' => ~touched /\ ~e.deleted
    BY DEF Delete
<1>4. CurName(e) \in Names
    BY <1>1, <1>3, FoundKey DEF HashType
<1>5. StateOK(es, qs, hash) /\ (~touched => \A j \in 1..Len(es) : DataAsAsked(es[j], qs[j]))
  <2>1. Core /\ i \in Indices /\ TRUE \in BOOLEAN
      OBVIOUS
  <2>2. QED
      BY ONLY <2>1, EmptyOne
<1>6. ~touched' => NamesFound(es, k)
  <2>1. ASSUME ~touched' PROVE NamesFound(es, k)
    <3>1. /\ entry \in Seq(EntryType) /\ Len(entry) <= MaxEntries /\ HashType(hash)
          /\ NamesFound(entry, hash) /\ i \in 1..Len(entry) /\ ~entry[i].deleted
          /\ CurName(entry[i]) \in Names
          /\ (x.deleted \/ CurName(x) \notin Names)
        BY <1>1, <1>3, <1>4, <2>1, EmptiedKeeps DEF Core, Clean
    <3> HIDE DEF x
    <3>2. QED
        BY ONLY <3>1, NameGone
  <2>2. QED
      BY <2>1
<1>7. StateOK(es, qs, k)
  <2>1. TableOK(es, hash) /\ Len(es) \in Nat /\ EntriesOK(es, qs)
      BY <1>5, StateTypes
  <2> HIDE DEF es, qs
  <2>2. TableOK(es, k)
      BY ONLY <2>1, DeleteTable
  <2>3. QED
      BY <2>1, <2>2 DEF StateOK
<1> HIDE DEF es, qs, k
<1>8. QED
    BY <1>2, <1>3, <1>5, <1>6, <1>7 DEF Core, Clean

LEMMA UnchangeCore ==
    ASSUME Core, NEW i \in Indices, Unchange(i), touched \in BOOLEAN
    PROVE  Core'
<1> DEFINE e == entry[i]
           old == CurName(e)
           x == Emptied(e, FALSE)
           es == [entry EXCEPT ![i] = x]
           qs == [asked EXCEPT ![i] = Forgotten(e)]
           renamed == "name" \in e.changes.bits
           h1 == IF e.orig = NoName THEN hash ELSE HashAdd(hash, e.orig, i, FALSE)
           k == IF renamed THEN HashDelete(h1, old) ELSE hash
<1>1. /\ entry \in Seq(EntryType) /\ e \in EntryType /\ i \in 1..Len(entry)
      /\ Len(entry) \in Nat /\ Len(entry) <= MaxEntries /\ HashType(hash)
      /\ EntryOK(e, asked[i])
    BY StateTypes DEF Core, Indices
<1>2. entry' = es
    BY <1>1, UnchangedEntry DEF Unchange, Emptied
<1>3. /\ hash' = k /\ asked' = qs
      /\ renamed => Found(h1, old) /\ (e.orig # NoName => Lookup(hash, e.orig) = 0)
      /\ ~touched' => ~touched /\ ~e.deleted
    BY DEF Unchange
<1>4. e.orig # NoName => e.orig \in Names
    BY <1>1 DEF EntryType
<1>5. StateOK(es, qs, hash) /\ (~touched => \A j \in 1..Len(es) : DataAsAsked(es[j], qs[j]))
  <2>1. Core /\ i \in Indices /\ FALSE \in BOOLEAN
      OBVIOUS
  <2>2. QED
      BY ONLY <2>1, EmptyOne
<1>6. x.deleted = FALSE /\ CurName(x) = e.orig
    BY <1>1, EmptiedKeeps
<1>7. TableOK(es, h1) /\ HashType(h1) /\ Len(es) \in Nat /\ EntriesOK(es, qs) /\ TableOK(es, hash)
  <2>1. /\ TableOK(es, hash) /\ Len(es) \in Nat /\ EntriesOK(es, qs)
        /\ Len(es) <= MaxEntries
      BY <1>5, StateTypes
  <2>2. Len(es) = Len(entry)
      BY <1>1
  <2> HIDE DEF es, qs
  <2>3. CASE e.orig = NoName
      BY <2>1, <2>3 DEF TableOK
  <2>4. CASE e.orig # NoName
    <3>1. TableOK(es, hash) /\ e.orig \in Names /\ i \in 1..Len(es) /\ Len(es) \in 0..MaxEntries
        BY <1>1, <1>4, <2>1, <2>2, <2>4, MaxEntriesAssumption
    <3> HIDE DEF e
    <3>2. TableOK(es, HashAdd(hash, e.orig, i, FALSE))
        BY ONLY <3>1, AddTable
    <3>3. QED
        BY <2>1, <2>4, <3>2 DEF TableOK
  <2>5. QED
      BY <2>3, <2>4
<1>8. renamed => old \in Names
    BY <1>3, <1>7, FoundKey DEF HashType
<1>9. ASSUME ~touched' PROVE NamesFound(es, k)
  <2>1. /\ entry \in Seq(EntryType) /\ Len(entry) <= MaxEntries /\ HashType(hash)
        /\ NamesFound(entry, hash) /\ i \in 1..Len(entry) /\ ~entry[i].deleted
      BY <1>1, <1>3, <1>9 DEF Core, Clean
  <2>2. CASE renamed /\ e.orig # NoName
    <3>1. /\ e.orig \in Names /\ Lookup(hash, e.orig) = 0 /\ ~x.deleted /\ CurName(x) = e.orig
        BY <1>3, <1>4, <1>6, <2>2
    <3>2. old # NoName
        BY <1>8, <2>2, NamesAssumption
    <3>3. NamesFound([entry EXCEPT ![i] = x],
                     IF CurName(entry[i]) = NoName THEN HashAdd(hash, e.orig, i, FALSE)
                     ELSE HashDelete(HashAdd(hash, e.orig, i, FALSE), CurName(entry[i])))
      <4> HIDE DEF x, e
      <4>1. QED
          BY ONLY <2>1, <3>1, NameSet
    <3>4. QED
        BY <2>2, <3>2, <3>3
  <2>3. CASE renamed /\ e.orig = NoName
    <3>1. CurName(entry[i]) \in Names /\ (x.deleted \/ CurName(x) \notin Names)
        BY <1>6, <1>8, <2>3, NamesAssumption
    <3>2. NamesFound([entry EXCEPT ![i] = x], HashDelete(hash, CurName(entry[i])))
      <4> HIDE DEF x
      <4>1. QED
          BY ONLY <2>1, <3>1, NameGone
    <3>3. QED
        BY <2>3, <3>2
  <2>4. CASE ~renamed
    <3>1. CurName(e) = e.orig
        BY <1>1, <2>4 DEF EntryOK, MarksExact, CurName, Changes, Clone
    <3>2. /\ Len(es) = Len(entry)
          /\ \A j \in 1..Len(entry) : \A n \in Names : Has(es[j], n) <=> Has(entry[j], n)
      <4>1. Len(es) = Len(entry) /\ \A j \in 1..Len(entry) : es[j] = IF j = i THEN x ELSE entry[j]
        <5> HIDE DEF x
        <5>1. QED
            BY <1>1
      <4> HIDE DEF x, es
      <4>2. QED
          BY <1>6, <2>1, <3>1, <4>1 DEF Has
    <3>3. NamesFound(es, hash)
      <4> HIDE DEF es
      <4>1. QED
          BY ONLY <2>1, <3>2, NameKept
    <3>4. QED
        BY <2>4, <3>3
  <2>5. QED
      BY <2>2, <2>3, <2>4
<1>10. StateOK(es, qs, k)
  <2> HIDE DEF es, qs, h1, renamed
  <2>1. TableOK(es, HashDelete(h1, old))
      BY <1>7, DeleteTable
  <2>2. QED
      BY <1>7, <2>1 DEF StateOK
<1> HIDE DEF es, qs, k
<1>11. QED
    BY <1>2, <1>3, <1>5, <1>9, <1>10 DEF Core, Clean

LEMMA UnchangeAllCore ==
    ASSUME Core, UnchangeAll
    PROVE  Core'
<1> DEFINE es == [i \in Indices |-> Emptied(entry[i], FALSE)]
           qs == [i \in Indices |-> Forgotten(entry[i])]
<1>1. /\ entry \in Seq(EntryType) /\ Len(entry) \in Nat /\ Len(entry) <= MaxEntries
      /\ Indices = 1..Len(entry) /\ TableOK(entry, hash)
      /\ \A i \in Indices : entry[i] \in EntryType
    BY StateTypes DEF Core, Indices
<1>2. entry' = es /\ asked' = qs /\ hash' = HashRevert(hash) /\ touched' = FALSE
    BY <1>1, UnchangedEntry DEF UnchangeAll, Emptied
<1>3. ASSUME NEW i \in Indices
      PROVE  /\ EntryOK(es[i], qs[i]) /\ es[i] \in EntryType /\ qs[i] \in AskedType
             /\ es[i].orig = entry[i].orig /\ ~es[i].deleted
             /\ CurName(es[i]) = entry[i].orig /\ DataAsAsked(es[i], qs[i])
    BY <1>1, EmptiedKeeps DEF EntryOK
<1>4. es \in Seq(EntryType) /\ Len(es) = Len(entry)
  <2>1. Len(entry) \in Nat /\ es \in [1..Len(entry) -> EntryType]
    <3>1. \A i \in Indices : Emptied(entry[i], FALSE) \in EntryType
        BY <1>3
    <3>2. QED
        BY <1>1, <3>1, Zenon
  <2> HIDE DEF es
  <2>2. QED
      BY ONLY <2>1
<1>5. qs \in Seq(AskedType) /\ Len(qs) = Len(entry)
  <2>1. \A i \in Indices : Forgotten(entry[i]) \in AskedType
      BY <1>3
  <2>2. QED
      BY <1>1, <2>1
<1> HIDE DEF es, qs
<1>6. EntriesOK(es, qs)
    BY <1>1, <1>3, <1>4, <1>5 DEF EntriesOK
<1>7. SameOrigs(es, entry)
    BY <1>1, <1>3, <1>4 DEF SameOrigs
<1>8. TableOK(es, HashRevert(hash))
  <2>1. TableOK(es, hash)
      BY <1>1, <1>7, KeepTable
  <2>2. QED
      BY <1>1, <1>4, <2>1, RevertTable
<1>9. NamesFound(es, HashRevert(hash))
  <2>1. /\ TableOK(entry, hash) /\ SameOrigs(es, entry)
        /\ \A i \in 1..Len(entry) : ~es[i].deleted /\ CurName(es[i]) = entry[i].orig
      BY <1>1, <1>3, <1>7
  <2>2. QED
      BY ONLY <2>1, NamesReverted
<1>10. \A i \in 1..Len(es) : DataAsAsked(es[i], qs[i])
    BY <1>1, <1>3, <1>4
<1>11. QED
    BY <1>2, <1>6, <1>8, <1>9, <1>10 DEF Core, Clean, StateOK

LEMMA AddEntryCore ==
    ASSUME Core, NEW n \in Names, AddEntry(n), Len(entry) <= Len(files), Len(files) \in Nat
    PROVE  Core'
<1> DEFINE r == AddFile(n, FALSE)
<1>1. /\ entry' = r.e /\ hash' = r.h /\ touched' = touched
      /\ asked' = IF r.idx = 0 THEN asked ELSE Append(asked, AskedOfNew(n))
      /\ Len(files) < MaxEntries
    BY DEF AddEntry
<1>2. Len(entry) \in Nat
    BY StateTypes DEF Core
<1>3. Len(entry) < MaxEntries
    BY <1>1, <1>2, MaxEntriesAssumption
<1>4. CASE Lookup(hash, n) = 0
  <2>1. Core /\ Len(entry) < MaxEntries /\ n \in Names /\ FALSE \in BOOLEAN /\ Lookup(hash, n) = 0
      BY <1>3, <1>4
  <2>2. /\ r.idx = Len(entry) + 1
        /\ StateOK(r.e, Append(asked, AskedOfNew(n)), r.h)
        /\ ~touched => Clean(r.e, Append(asked, AskedOfNew(n)), r.h)
      BY ONLY <2>1, AddFileAppends
  <2> HIDE DEF r
  <2>3. QED
      BY <1>1, <1>2, <2>2 DEF Core
<1>5. CASE Lookup(hash, n) # 0
  <2>1. r.idx = 0 /\ r.h = hash /\ r.e = entry
      BY <1>5, AddFileRefused
  <2> HIDE DEF r
  <2>2. QED
      BY <1>1, <2>1 DEF Core
<1>6. QED
    BY <1>4, <1>5

LEMMA UpdateEntryCore ==
    ASSUME Core, NEW i \in Indices, UpdateEntry(i), ~touched, ~entry[i].deleted
    PROVE  Core'
<1> DEFINE es == [entry EXCEPT ![i] = Replaced(entry[i])]
           qs == [asked EXCEPT ![i] = [asked[i] EXCEPT !.data = "new"]]
<1>1. entry' = es /\ asked' = qs /\ hash' = hash /\ touched' = touched
    BY DEF UpdateEntry
<1>2. StateOK(es, qs, hash) /\ (~touched => Clean(es, qs, hash))
  <2>1. Core /\ i \in Indices /\ (~touched => ~touched /\ ~entry[i].deleted)
      OBVIOUS
  <2>2. QED
      BY ONLY <2>1, ReplaceOne
<1> HIDE DEF es, qs
<1>3. QED
    BY <1>1, <1>2 DEF Core

\* updateEntry with a new name: the data is replaced even if the name is not.
UpdateFails(i, n) ==
    Lookup(hash, n) \notin {0, i} \/ (n \in Dirs) # (CurName(entry[i]) \in Dirs)

LEMMA UpdateEntryAsCore ==
    ASSUME Core, NEW i \in Indices, NEW n \in Names, UpdateEntryAs(i, n),
           ~touched, ~entry[i].deleted
    PROVE  Core'
<1> DEFINE e == entry[i]
           y == [asked[i] EXCEPT !.data = "new"]
           es == [entry EXCEPT ![i] = Replaced(e)]
           qs == [asked EXCEPT ![i] = y]
           there == Lookup(hash, n)
           fails == UpdateFails(i, n)
           r == SetName(i, n, es, hash)
<1>1. /\ entry \in Seq(EntryType) /\ asked \in Seq(AskedType) /\ Len(asked) = Len(entry)
      /\ i \in 1..Len(entry) /\ i \in 1..Len(asked) /\ EntryOK(e, asked[i]) /\ asked[i] \in AskedType
      /\ Len(entry) \in Nat /\ Len(entry) <= MaxEntries
    BY StateTypes DEF Core, Indices
<1>2. /\ entry' = IF fails \/ there = i THEN es ELSE r.e
      /\ hash' = IF fails \/ there = i THEN hash ELSE r.h
      /\ touched' = touched
      /\ asked' = [asked EXCEPT ![i].data = "new", ![i].name = IF fails THEN @ ELSE n]
    BY DEF UpdateEntryAs, UpdateFails
<1>3. /\ y \in AskedType /\ y.name = asked[i].name /\ y.data = "new"
    BY <1>1 DEF AskedType
<1>4. asked' = [asked EXCEPT ![i] = [y EXCEPT !.name = IF fails THEN y.name ELSE n]]
    BY <1>1, <1>2
<1>5. [y EXCEPT !.name = y.name] = y
    BY <1>3 DEF AskedType
<1>6. StateOK(es, qs, hash) /\ Clean(es, qs, hash)
  <2>1. Core /\ i \in Indices /\ (~touched => ~touched /\ ~entry[i].deleted)
      OBVIOUS
  <2>2. StateOK(es, qs, hash) /\ (~touched => Clean(es, qs, hash))
      BY ONLY <2>1, ReplaceOne
  <2>3. QED
      BY <2>2
<1>7. /\ Len(es) = Len(entry) /\ es[i] = Replaced(e) /\ qs[i] = y
    BY <1>1
<1>8. EntryOK(Replaced(e), y) /\ Replaced(e).source = TRUE /\ Replaced(e).deleted = FALSE
    BY <1>1, ReplacedKeeps
<1>9. CASE fails
  <2>1. asked' = qs
      BY <1>4, <1>5, <1>9
  <2>2. entry' = es /\ hash' = hash
      BY <1>2, <1>9
  <2> HIDE DEF es, qs
  <2>3. QED
      BY <1>2, <1>6, <2>1, <2>2 DEF Core
<1>10. CASE ~fails /\ there = i
  <2>1. CurName(e) = n
    <3>1. i \in 1..MaxEntries
        BY <1>1, MaxEntriesAssumption
    <3>2. QED
        BY <1>10, <3>1 DEF Core, Clean, NamesFound
  <2>2. y.name = n
      BY <1>1, <1>3, <2>1 DEF EntryOK, AsAsked
  <2>3. asked' = qs
      BY <1>4, <1>5, <1>10, <2>2
  <2>4. entry' = es /\ hash' = hash
      BY <1>2, <1>10
  <2> HIDE DEF es, qs
  <2>5. QED
      BY <1>2, <1>6, <2>3, <2>4 DEF Core
<1>11. CASE ~fails /\ there # i
  <2>0. Lookup(hash, n) = 0
      BY <1>11 DEF UpdateFails
  <2>1. entry' = r.e /\ hash' = r.h
      BY <1>2, <1>11
  <2>2. asked' = [qs EXCEPT ![i] = [qs[i] EXCEPT !.name = n]]
    <3>1. asked' = [asked EXCEPT ![i] = [y EXCEPT !.name = n]]
        BY <1>4, <1>11
    <3> HIDE DEF y
    <3>2. [[asked EXCEPT ![i] = y] EXCEPT ![i] = [y EXCEPT !.name = n]]
            = [asked EXCEPT ![i] = [y EXCEPT !.name = n]]
        BY <1>1
    <3>3. QED
        BY <1>7, <3>1, <3>2
  <2>3. /\ StateOK(es, qs, hash) /\ i \in 1..Len(es) /\ n \in Names /\ NamesFound(es, hash)
        /\ ~es[i].deleted /\ Lookup(hash, n) = 0
        /\ \A j \in 1..Len(es) : DataAsAsked(es[j], qs[j])
      BY <1>1, <1>6, <1>7, <1>8, <2>0 DEF Clean
  <2> DEFINE x == Renamed(es[i], n)
             z == [qs[i] EXCEPT !.name = n]
  <2>4. EntryOK(es[i], qs[i]) /\ es[i].source = TRUE /\ es[i].deleted = FALSE /\ qs[i].data = "new"
        /\ qs[i] \in AskedType
      BY <1>3, <1>7, <1>8
  <2> HIDE DEF es, qs
  <2>5. /\ r.e = [es EXCEPT ![i] = x]
        /\ StateOK(r.e, [qs EXCEPT ![i] = z], r.h)
      BY ONLY <2>3, SetNameOK
  <2>6. NamesFound(r.e, r.h)
      BY ONLY <2>3, SetNameFound
  <2>7. DataAsAsked(x, z)
    <3>1. SameState(x, es[i])
        BY <2>4, RenamedKeeps
    <3>2. z.data = "new"
        BY <2>4 DEF AskedType
    <3> HIDE DEF x, z
    <3>3. QED
        BY <2>4, <3>1, <3>2 DEF DataAsAsked, SameState
  <2> HIDE DEF x, z
  <2>8. \A j \in 1..Len([es EXCEPT ![i] = x]) :
              DataAsAsked([es EXCEPT ![i] = x][j], [qs EXCEPT ![i] = z][j])
      BY ONLY <2>3, <2>7, DataOne
  <2> HIDE DEF r
  <2>9. QED
      BY <1>2, <2>1, <2>2, <2>5, <2>6, <2>8 DEF Core, Clean, z
<1>12. QED
    BY <1>9, <1>10, <1>11

-----------------------------------------------------------------------------
(* The list of ZipArchive, and the rest of the state.                      *)

Rest ==
    /\ caller \in Callers
    /\ chFlags \in [orig : BOOLEAN, ch : BOOLEAN]
    /\ comment \in BOOLEAN /\ allOK \in BOOLEAN /\ touched \in BOOLEAN
    /\ files \in Seq(Names)

LEMMA InvParts == EntriesInv <=> Core /\ Rest /\ ArchiveOnlyGrows /\ FilesAgree
BY DEF EntriesInv, EntriesTypeOK, Core, Rest, StateOK, TableOK, Clean, EntriesOK, Indices

LEMMA RestNext ==
    ASSUME Rest, Next
    PROVE  Rest'
<1>1. ASSUME NEW n \in Names, NEW o \in BOOLEAN, FileAdd(n, o) \/ DirAdd(n, o)
      PROVE  Rest'
    BY <1>1 DEF Rest, FileAdd, DirAdd
<1>2. ASSUME NEW i \in Indices,
             \/ FileReplace(i) \/ Delete(i) \/ Unchange(i)
             \/ \E n \in Names : FileRename(i, n)
             \/ \E m \in Methods \ {"replaced"} : SetCompression(i, m)
             \/ \E v \in {0, 1} : SetMtime(i, v) \/ SetAttributes(i, v)
      PROVE  Rest'
  <2>1. /\ UNCHANGED <<caller, chFlags, comment, files, allOK>>
        /\ touched' = touched \/ touched' \in BOOLEAN
      BY <1>2 DEF FileReplace, Delete, Unchange, FileRename, SetCompression, SetMtime,
                  SetAttributes
  <2>2. QED
      BY <2>1 DEF Rest
<1>3. CASE UnchangeAll
    BY <1>3 DEF Rest, UnchangeAll
<1>4. ASSUME NEW c \in BOOLEAN, SetComment(c) PROVE Rest'
    BY <1>4 DEF Rest, SetComment
<1>5. CASE SetReadOnly
    BY <1>5 DEF Rest, SetReadOnly
<1>6. ASSUME NEW n \in Names, AddEntry(n) PROVE Rest'
  <2>1. /\ files' = Append(files, n) /\ allOK' \in BOOLEAN
        /\ UNCHANGED <<caller, chFlags, comment, touched>>
      BY <1>6 DEF AddEntry
  <2>2. QED
      BY <2>1 DEF Rest
<1>7. ASSUME NEW i \in Indices, UpdateEntry(i) \/ \E n \in Names : UpdateEntryAs(i, n)
      PROVE  Rest'
  <2>1. /\ allOK' = allOK \/ allOK' \in BOOLEAN
        /\ UNCHANGED <<caller, chFlags, comment, files, touched>>
      BY <1>7 DEF UpdateEntry, UpdateEntryAs
  <2>2. QED
      BY <2>1 DEF Rest
<1>8. QED
    BY <1>1, <1>2, <1>3, <1>4, <1>5, <1>6, <1>7 DEF Next

\* A caller of libzip has no list.
LEMMA DirectNoFiles ==
    ASSUME Direct, caller' = caller
    PROVE  ArchiveOnlyGrows' /\ FilesAgree'
BY DEF Direct, ArchiveOnlyGrows, FilesAgree

LEMMA AddEntryFiles ==
    ASSUME Core, Rest, ArchiveOnlyGrows, FilesAgree, NEW n \in Names, AddEntry(n)
    PROVE  ArchiveOnlyGrows' /\ FilesAgree'
<1> DEFINE r == AddFile(n, FALSE)
<1>1. /\ caller.api = "ZipArchive" /\ caller' = caller /\ touched' = touched
      /\ files' = Append(files, n) /\ entry' = r.e
      /\ allOK' => allOK /\ r.idx # 0
    BY DEF AddEntry, Rest
<1>2. /\ entry \in Seq(EntryType) /\ Len(entry) \in Nat /\ files \in Seq(Names)
    BY StateTypes DEF Core, Rest
<1>3. /\ Len(files) \in Nat /\ Len(files') = Len(files) + 1 /\ files'[Len(files) + 1] = n
      /\ \A j \in 1..Len(files) : files'[j] = files[j]
  <2>1. files \in Seq(Names) /\ n \in Names /\ files' = Append(files, n)
      BY <1>1, <1>2
  <2>2. QED
      BY ONLY <2>1, SeqAppend
<1>4. /\ ~touched /\ Len(entry) <= Len(files) /\ \A j \in 1..Len(entry) : ~entry[j].deleted
    BY <1>1 DEF ArchiveOnlyGrows, Indices
<1>5. CASE Lookup(hash, n) # 0
  <2>1. r.idx = 0 /\ r.e = entry
      BY <1>5, AddFileRefused
  <2> HIDE DEF r
  <2>2. QED
      BY <1>1, <1>2, <1>3, <1>4, <2>1 DEF ArchiveOnlyGrows, FilesAgree, Indices
<1>6. CASE Lookup(hash, n) = 0
  <2>1. r.e = Append(entry, FirstOf(n))
      BY <1>2, <1>6, AddFileNew
  <2> HIDE DEF r
  <2> DEFINE x == FirstOf(n)
  <2>2. x \in EntryType /\ x.deleted = FALSE /\ CurName(x) = n
      BY NewNamed DEF EntryOK
  <2> HIDE DEF x
  <2>3. /\ Len(entry') = Len(entry) + 1 /\ entry'[Len(entry) + 1] = x
        /\ \A j \in 1..Len(entry) : entry'[j] = entry[j]
    <3>1. entry \in Seq(EntryType) /\ x \in EntryType /\ entry' = Append(entry, x)
        BY <1>1, <1>2, <2>1, <2>2 DEF x
    <3>2. QED
        BY ONLY <3>1, SeqAppend
  <2>4. ArchiveOnlyGrows'
    <3>1. ASSUME NEW j \in 1..Len(entry') PROVE ~entry'[j].deleted
      <4>1. j \in 1..Len(entry) \/ j = Len(entry) + 1
          BY <1>2, <2>3
      <4>2. QED
          BY <1>4, <2>2, <2>3, <4>1
    <3>2. QED
        BY <1>1, <1>2, <1>3, <1>4, <2>3, <3>1 DEF ArchiveOnlyGrows, Indices
  <2>5. ASSUME allOK' PROVE Len(files') = Len(entry')
                            /\ \A j \in 1..Len(entry') : files'[j] = CurName(entry'[j])
    <3>1. Len(files) = Len(entry) /\ \A j \in 1..Len(entry) : files[j] = CurName(entry[j])
        BY <1>1, <2>5 DEF FilesAgree, Indices
    <3>2. ASSUME NEW j \in 1..Len(entry') PROVE files'[j] = CurName(entry'[j])
      <4>1. j \in 1..Len(entry) \/ j = Len(entry) + 1
          BY <1>2, <2>3
      <4>2. QED
          BY <1>3, <2>2, <2>3, <3>1, <4>1
    <3>3. QED
        BY <1>3, <2>3, <3>1, <3>2
  <2>6. FilesAgree'
      BY <2>5 DEF FilesAgree, Indices
  <2>7. QED
      BY <2>4, <2>6
<1>7. QED
    BY <1>5, <1>6

\* One entry gets new data and perhaps a new name.
LEMMA UpdateFiles ==
    ASSUME Core, ArchiveOnlyGrows, FilesAgree, NEW i \in Indices, NEW x,
           caller.api = "ZipArchive", caller' = caller, files' = files, touched' = touched,
           entry' = [entry EXCEPT ![i] = x], ~x.deleted,
           allOK' => allOK /\ CurName(x) = CurName(entry[i])
    PROVE  ArchiveOnlyGrows' /\ FilesAgree'
<1>1. entry \in Seq(EntryType) /\ i \in 1..Len(entry)
    BY StateTypes DEF Core, Indices
<1>2. Len(entry') = Len(entry) /\ \A j \in 1..Len(entry) : entry'[j] = IF j = i THEN x ELSE entry[j]
    BY <1>1
<1>3. ArchiveOnlyGrows'
    BY <1>1, <1>2 DEF ArchiveOnlyGrows, Indices
<1>4. FilesAgree'
    BY <1>1, <1>2 DEF FilesAgree, Indices
<1>5. QED
    BY <1>3, <1>4

LEMMA UpdateEntryFiles ==
    ASSUME Core, ArchiveOnlyGrows, FilesAgree, NEW i \in Indices, UpdateEntry(i)
    PROVE  ArchiveOnlyGrows' /\ FilesAgree'
<1> DEFINE x == Replaced(entry[i])
<1>1. /\ caller.api = "ZipArchive" /\ caller' = caller /\ files' = files /\ touched' = touched
      /\ entry' = [entry EXCEPT ![i] = x] /\ allOK' = allOK
    BY DEF UpdateEntry
<1>2. ~x.deleted /\ CurName(x) = CurName(entry[i])
  <2>1. EntryOK(entry[i], asked[i])
      BY StateTypes DEF Core, Indices
  <2>2. QED
      BY <2>1, ReplacedKeeps
<1> HIDE DEF x
<1>3. QED
    BY <1>1, <1>2, UpdateFiles

LEMMA UpdateEntryAsFiles ==
    ASSUME Core, Rest, ArchiveOnlyGrows, FilesAgree, NEW i \in Indices, NEW n \in Names,
           UpdateEntryAs(i, n)
    PROVE  ArchiveOnlyGrows' /\ FilesAgree'
<1> DEFINE z == Replaced(entry[i])
           es == [entry EXCEPT ![i] = z]
           fails == UpdateFails(i, n)
           there == Lookup(hash, n)
           x == IF fails \/ there = i THEN z ELSE Renamed(z, n)
<1>1. /\ caller.api = "ZipArchive" /\ caller' = caller /\ files' = files /\ touched' = touched
      /\ entry' = IF fails \/ there = i THEN es ELSE SetName(i, n, es, hash).e
      /\ allOK' => allOK /\ fails
    BY DEF UpdateEntryAs, UpdateFails, Rest
<1>2. entry \in Seq(EntryType) /\ i \in 1..Len(entry) /\ EntryOK(entry[i], asked[i])
    BY StateTypes DEF Core, Indices
<1>3. /\ EntryOK(z, [asked[i] EXCEPT !.data = "new"]) /\ z.deleted = FALSE
      /\ CurName(z) = CurName(entry[i])
    BY <1>2, ReplacedKeeps
<1> HIDE DEF z
<1>4. Renamed(z, n).deleted = FALSE
    BY <1>3, RenamedKeeps DEF SameState
<1>5. SetName(i, n, es, hash).e = [entry EXCEPT ![i] = Renamed(z, n)]
  <2>1. es[i] = z /\ SetName(i, n, es, hash).e = [es EXCEPT ![i] = Renamed(es[i], n)]
      BY <1>2 DEF SetName
  <2>2. [es EXCEPT ![i] = Renamed(z, n)] = [entry EXCEPT ![i] = Renamed(z, n)]
      BY <1>2
  <2>3. QED
      BY <2>1, <2>2
<1>6. /\ entry' = [entry EXCEPT ![i] = x] /\ ~x.deleted
      /\ allOK' => allOK /\ CurName(x) = CurName(entry[i])
    BY <1>1, <1>3, <1>4, <1>5
<1> HIDE DEF x, es
<1>7. QED
    BY <1>1, <1>6, UpdateFiles

-----------------------------------------------------------------------------
(* Opening an archive.                                                     *)

\* The table of an archive that was opened has each name with its index,
\* whatever the size the rounding gave it.
LEMMA OpenedFinds ==
    ASSUME NEW ns \in Archives
    PROVE  /\ HashType(Opened(ns))
           /\ \A i \in 1..Len(ns) : /\ Lookup(Opened(ns), ns[i]) = i
                                    /\ OrigOf(Opened(ns), ns[i]) = i
           /\ \A n : (\A i \in 1..Len(ns) : ns[i] # n)
                        => Lookup(Opened(ns), n) = 0 /\ OrigOf(Opened(ns), n) = 0
<1> DEFINE size == IF ns = <<>> THEN 0 ELSE SizeFor(Len(ns))
           index(n) == CHOOSE i \in DOMAIN ns : ns[i] = n
           key(n) == [orig |-> index(n), cur |-> index(n), at |-> HashOf[n] % size]
           D == {ns[i] : i \in DOMAIN ns}
           f == [n \in D |-> key(n)]
           t == [size |-> size, ent |-> f]
<1>1. Opened(ns) = Grown(t)
    BY DEF Opened
<1>2. /\ ns \in Seq(Names) /\ Len(ns) \in Nat /\ Len(ns) <= MaxEntries /\ DOMAIN ns = 1..Len(ns)
      /\ \A i, j \in 1..Len(ns) : ns[i] = ns[j] => i = j
    BY ArchivesAssumption
<1>3. ASSUME NEW i \in 1..Len(ns) PROVE ns[i] \in D /\ index(ns[i]) = i
    BY <1>2
<1>4. ASSUME NEW n \in D PROVE n \in Names /\ \E i \in 1..Len(ns) : ns[i] = n
    BY <1>2
<1>5. ASSUME NEW n \in D PROVE index(n) \in 0..MaxEntries
  <2>1. PICK i \in 1..Len(ns) : ns[i] = n
      BY <1>4
  <2>2. index(n) = i
      BY <1>3, <2>1
  <2> HIDE DEF index
  <2>3. QED
      BY <1>2, <2>2, MaxEntriesAssumption
<1> HIDE DEF size, index, D
<1>6. t.size = size /\ t.ent = f /\ DOMAIN f = D /\ \A n \in D : f[n] = key(n)
    OBVIOUS
<1>7. HashType(t)
  <2>1. t = [size |-> t.size, ent |-> t.ent]
      BY <1>6
  <2>2. \A n \in D : key(n) \in [orig : 0..MaxEntries, cur : 0..MaxEntries, at : {HashOf[n] % size}]
      BY <1>5
  <2> HIDE DEF key, f, t
  <2>3. QED
      BY <1>4, <1>6, <2>1, <2>2 DEF HashType
<1>8. \A n \in D : key(n).cur = index(n) /\ key(n).orig = index(n)
    OBVIOUS
<1> HIDE DEF key, f, t
<1>9. /\ \A n \in D : Lookup(t, n) = index(n) /\ OrigOf(t, n) = index(n)
      /\ \A n : n \notin D => Lookup(t, n) = 0 /\ OrigOf(t, n) = 0
    BY <1>6, <1>7, <1>8, LookupKey DEF OrigOf
<1>10. HashType(Grown(t)) /\ \A m : SameKey(Grown(t), t, m)
    BY <1>7, GrownShrunkKeep
<1>11. ASSUME NEW i \in 1..Len(ns)
       PROVE  Lookup(Grown(t), ns[i]) = i /\ OrigOf(Grown(t), ns[i]) = i
    BY <1>3, <1>9, <1>10 DEF SameKey
<1>12. ASSUME NEW n, \A i \in 1..Len(ns) : ns[i] # n
       PROVE  Lookup(Grown(t), n) = 0 /\ OrigOf(Grown(t), n) = 0
  <2>1. n \notin D
      BY <1>4, <1>12
  <2>2. QED
      BY <1>9, <1>10, <2>1 DEF SameKey
<1>13. QED
    BY <1>1, <1>10, <1>11, <1>12

LEMMA InitInv == Init => EntriesInv
<1> SUFFICES ASSUME Init PROVE EntriesInv
    OBVIOUS
<1>1. PICK ns \in Archives :
          /\ entry = [i \in DOMAIN ns |-> [NewEntry EXCEPT !.orig = ns[i]]]
          /\ hash = Opened(ns)
          /\ files = IF caller.api = "ZipArchive" THEN ns ELSE <<>>
          /\ asked = [i \in DOMAIN ns |-> NothingAsked(ns[i])]
    BY DEF Init
<1>2. /\ ns \in Seq(Names) /\ Len(ns) \in Nat /\ Len(ns) <= MaxEntries /\ DOMAIN ns = 1..Len(ns)
      /\ \A i, j \in 1..Len(ns) : ns[i] = ns[j] => i = j
      /\ \A i \in 1..Len(ns) : ns[i] \in Names /\ ns[i] # NoName
    BY ArchivesAssumption, NamesAssumption
<1> DEFINE x(i) == [orig |-> ns[i], changes |-> NoChanges, source |-> FALSE, deleted |-> FALSE]
<1>3. ASSUME NEW i \in 1..Len(ns)
      PROVE  /\ entry[i] = x(i) /\ entry[i] \in EntryType
             /\ entry[i].orig = ns[i] /\ entry[i].deleted = FALSE
             /\ CurName(entry[i]) = ns[i]
             /\ EntryOK(entry[i], asked[i]) /\ asked[i] \in AskedType
             /\ DataAsAsked(entry[i], asked[i])
  <2>1. entry[i] = x(i) /\ asked[i] = NothingAsked(ns[i])
      BY <1>1, <1>2 DEF NewEntry
  <2>2. x(i) \in EntryType /\ x(i).orig = ns[i]
      BY <1>2 DEF EntryType
  <2>3. Emptied(x(i), FALSE) = x(i)
      BY DEF Emptied
  <2>4. Forgotten(x(i)) = NothingAsked(ns[i])
      BY <1>2, <2>2 DEF Forgotten
  <2> HIDE DEF x
  <2>5. x(i) \in EntryType /\ FALSE \in BOOLEAN
      BY <2>2
  <2>6. /\ EntryOK(Emptied(x(i), FALSE), Forgotten(x(i)))
        /\ Emptied(x(i), FALSE).deleted = FALSE
        /\ CurName(Emptied(x(i), FALSE)) = x(i).orig
        /\ DataAsAsked(Emptied(x(i), FALSE), Forgotten(x(i)))
      BY ONLY <2>5, EmptiedKeeps
  <2>7. QED
      BY <2>1, <2>2, <2>3, <2>4, <2>6 DEF EntryOK
<1>4. entry \in Seq(EntryType) /\ Len(entry) = Len(ns)
  <2>1. Len(ns) \in Nat /\ entry \in [1..Len(ns) -> EntryType]
      BY <1>1, <1>2, <1>3, Zenon
  <2>2. QED
      BY ONLY <2>1
<1>5. asked \in Seq(AskedType) /\ Len(asked) = Len(ns)
  <2>1. Len(ns) \in Nat /\ asked \in [1..Len(ns) -> AskedType]
      BY <1>1, <1>2, <1>3, Zenon
  <2>2. QED
      BY ONLY <2>1
<1>6. EntriesOK(entry, asked)
    BY <1>2, <1>3, <1>4, <1>5 DEF EntriesOK
<1>7. /\ HashType(hash)
      /\ \A i \in 1..Len(ns) : Lookup(hash, ns[i]) = i /\ OrigOf(hash, ns[i]) = i
      /\ \A n : (\A i \in 1..Len(ns) : ns[i] # n) => Lookup(hash, n) = 0 /\ OrigOf(hash, n) = 0
    BY <1>1, OpenedFinds
<1>8. TableOK(entry, hash)
  <2>1. KeysInside(entry, hash)
    <3>1. ASSUME NEW n \in Names PROVE Lookup(hash, n) <= Len(entry)
      <4>1. CASE \A i \in 1..Len(ns) : ns[i] # n
          BY <1>2, <1>4, <1>7, <4>1
      <4>2. CASE \E i \in 1..Len(ns) : ns[i] = n
          BY <1>2, <1>4, <1>7, <4>2
      <4>3. QED
          BY <4>1, <4>2
    <3>2. QED
        BY <3>1 DEF KeysInside
  <2>2. OrigsKeyed(entry, hash)
      BY <1>2, <1>3, <1>4, <1>7, ZenonT(30) DEF OrigsKeyed
  <2>3. QED
      BY <1>7, <2>1, <2>2 DEF TableOK
<1>9. NamesFound(entry, hash)
  <2>1. ASSUME NEW n \in Names, NEW i \in 1..MaxEntries
        PROVE  Lookup(hash, n) = i <=>
                  i \in 1..Len(entry) /\ ~entry[i].deleted /\ CurName(entry[i]) = n
    <3>1. CASE \A j \in 1..Len(ns) : ns[j] # n
      <4>1. Lookup(hash, n) = 0 /\ i # 0
          BY <1>7, <3>1
      <4>2. i \in 1..Len(entry) => CurName(entry[i]) # n
          BY <1>3, <1>4, <3>1
      <4>3. QED
          BY <4>1, <4>2
    <3>2. ASSUME NEW j \in 1..Len(ns), ns[j] = n
          PROVE  Lookup(hash, n) = i <=>
                    i \in 1..Len(entry) /\ ~entry[i].deleted /\ CurName(entry[i]) = n
      <4>1. Lookup(hash, n) = j
          BY <1>7, <3>2
      <4>2. i \in 1..Len(entry) /\ CurName(entry[i]) = n => i = j
          BY <1>2, <1>3, <1>4, <3>2
      <4>3. j \in 1..Len(entry) /\ ~entry[j].deleted /\ CurName(entry[j]) = n
          BY <1>3, <1>4, <3>2
      <4>4. QED
          BY <4>1, <4>2, <4>3
    <3>3. QED
        BY <3>1, <3>2
  <2>2. QED
      BY <2>1 DEF NamesFound
<1>10. Core
    BY <1>3, <1>4, <1>6, <1>8, <1>9 DEF Core, StateOK, Clean
<1>11. Rest
  <2>1. caller \in Callers /\ comment = FALSE /\ allOK = TRUE /\ touched = FALSE
      BY DEF Init
  <2>2. files \in Seq(Names)
      BY <1>1, <1>2
  <2>3. chFlags \in [orig : BOOLEAN, ch : BOOLEAN]
    <3>1. PICK ro \in BOOLEAN :
              chFlags = [orig |-> ro /\ caller.api = "libzip", ch |-> ro /\ caller.api = "libzip"]
        BY DEF Init
    <3>2. (ro /\ caller.api = "libzip") \in BOOLEAN
        OBVIOUS
    <3>3. QED
        BY <3>1, <3>2
  <2>4. QED
      BY <2>1, <2>2, <2>3 DEF Rest
<1>12. ArchiveOnlyGrows
  <2>1. ~touched
      BY DEF Init
  <2>2. caller.api = "ZipArchive" => Len(entry) <= Len(files)
      BY <1>1, <1>2, <1>4
  <2>3. \A i \in Indices : ~entry[i].deleted
      BY <1>3, <1>4 DEF Indices
  <2>4. QED
      BY <2>1, <2>2, <2>3 DEF ArchiveOnlyGrows
<1>13. FilesAgree
    BY <1>1, <1>3, <1>4 DEF FilesAgree, Indices
<1>14. QED
    BY <1>10, <1>11, <1>12, <1>13, InvParts

-----------------------------------------------------------------------------
(* The invariant.                                                          *)

LEMMA CoreNext ==
    ASSUME Core, Rest, ArchiveOnlyGrows, Next
    PROVE  Core'
<1>0. touched \in BOOLEAN /\ Len(files) \in Nat
    BY DEF Rest
<1>1. ASSUME NEW n \in Names, NEW o \in BOOLEAN, FileAdd(n, o) PROVE Core'
    BY <1>1, FileAddCore
<1>2. ASSUME NEW n \in Names, NEW o \in BOOLEAN, DirAdd(n, o) PROVE Core'
    BY <1>2, DirAddCore
<1>3. ASSUME NEW i \in Indices, FileReplace(i) PROVE Core'
    BY <1>0, <1>3, FileReplaceCore
<1>4. ASSUME NEW i \in Indices, Delete(i) PROVE Core'
    BY <1>0, <1>4, DeleteCore
<1>5. ASSUME NEW i \in Indices, Unchange(i) PROVE Core'
    BY <1>0, <1>5, UnchangeCore
<1>6. ASSUME NEW i \in Indices, NEW n \in Names, FileRename(i, n) PROVE Core'
    BY <1>0, <1>6, FileRenameCore
<1>7. ASSUME NEW i \in Indices, NEW m \in Methods \ {"replaced"}, SetCompression(i, m)
      PROVE  Core'
    BY <1>0, <1>7, SetCompressionCore
<1>8. ASSUME NEW i \in Indices, NEW v \in {0, 1}, SetMtime(i, v) PROVE Core'
    BY <1>8, SetMtimeCore
<1>9. ASSUME NEW i \in Indices, NEW v \in {0, 1}, SetAttributes(i, v) PROVE Core'
    BY <1>9, SetAttributesCore
<1>10. CASE UnchangeAll
    BY <1>10, UnchangeAllCore
<1>11. ASSUME NEW c \in BOOLEAN, SetComment(c) PROVE Core'
    BY <1>11 DEF Core, SetComment
<1>12. CASE SetReadOnly
    BY <1>12 DEF Core, SetReadOnly
<1>13. ASSUME NEW n \in Names, AddEntry(n) PROVE Core'
  <2>1. Len(entry) <= Len(files)
      BY <1>13 DEF ArchiveOnlyGrows, AddEntry
  <2>2. QED
      BY <1>0, <1>13, <2>1, AddEntryCore
<1>14. ASSUME NEW i \in Indices, UpdateEntry(i) PROVE Core'
  <2>1. ~touched /\ ~entry[i].deleted
      BY <1>14 DEF ArchiveOnlyGrows, UpdateEntry
  <2>2. QED
      BY <1>14, <2>1, UpdateEntryCore
<1>15. ASSUME NEW i \in Indices, NEW n \in Names, UpdateEntryAs(i, n) PROVE Core'
  <2>1. ~touched /\ ~entry[i].deleted
      BY <1>15 DEF ArchiveOnlyGrows, UpdateEntryAs
  <2>2. QED
      BY <1>15, <2>1, UpdateEntryAsCore
<1>16. QED
    BY <1>1, <1>2, <1>3, <1>4, <1>5, <1>6, <1>7, <1>8, <1>9, <1>10, <1>11, <1>12, <1>13,
       <1>14, <1>15 DEF Next

LEMMA FilesNext ==
    ASSUME Core, Rest, ArchiveOnlyGrows, FilesAgree, Next
    PROVE  ArchiveOnlyGrows' /\ FilesAgree'
<1>1. ASSUME NEW n \in Names, AddEntry(n) PROVE ArchiveOnlyGrows' /\ FilesAgree'
    BY <1>1, AddEntryFiles
<1>2. ASSUME NEW i \in Indices, UpdateEntry(i) PROVE ArchiveOnlyGrows' /\ FilesAgree'
    BY <1>2, UpdateEntryFiles
<1>3. ASSUME NEW i \in Indices, NEW n \in Names, UpdateEntryAs(i, n)
      PROVE  ArchiveOnlyGrows' /\ FilesAgree'
    BY <1>3, UpdateEntryAsFiles
<1>4. \/ \E n \in Names : AddEntry(n)
      \/ \E i \in Indices : UpdateEntry(i) \/ \E n \in Names : UpdateEntryAs(i, n)
      \/ Direct /\ caller' = caller
    BY ZenonT(30) DEF Next, FileAdd, DirAdd, FileReplace, Delete, Unchange, FileRename, SetCompression,
           SetMtime, SetAttributes, UnchangeAll, SetComment, SetReadOnly
<1>5. QED
    BY <1>1, <1>2, <1>3, <1>4, DirectNoFiles

LEMMA NextInv == EntriesInv /\ [Next]_vars => EntriesInv'
<1> SUFFICES ASSUME EntriesInv, [Next]_vars PROVE EntriesInv'
    OBVIOUS
<1>1. Core /\ Rest /\ ArchiveOnlyGrows /\ FilesAgree
    BY InvParts
<1>2. CASE Next
  <2>1. Core' /\ Rest' /\ ArchiveOnlyGrows' /\ FilesAgree'
      BY <1>1, <1>2, CoreNext, RestNext, FilesNext
  <2>2. EntriesInv' <=> Core' /\ Rest' /\ ArchiveOnlyGrows' /\ FilesAgree'
      BY DEF EntriesInv, EntriesTypeOK, Core, Rest, StateOK, TableOK, Clean, EntriesOK, Indices
  <2>3. QED
      BY <2>1, <2>2
<1>3. CASE UNCHANGED vars
    BY <1>3 DEF vars, EntriesInv, EntriesTypeOK, ArchiveOnlyGrows, FilesAgree, Indices
<1>4. QED
    BY <1>2, <1>3

\* Through every sequence of calls, by a program that uses libzip or by
\* ZipArchive: the types, the marks of each entry, what it will be written
\* as, and the table of names fit together.
THEOREM EntriesInvariance == Spec => []EntriesInv
<1>1. QED
    BY InitInv, NextInv, PTL DEF Spec

\* ZipArchive's list of names is that of libzip's entries, as long as its
\* calls have returned true.
THEOREM ListsAgree == Spec => []FilesAgree
<1>1. EntriesInv => FilesAgree
    BY DEF EntriesInv
<1>2. QED
    BY <1>1, EntriesInvariance, PTL

\* _zip_name_locate finds an entry under a name exactly if it has it, in the
\* table as among the entries, until something is done to a deleted entry;
\* the names the archive had when it was opened it always finds.
THEOREM NamesFaithful == Spec => []NamesAgree
<1>1. ASSUME EntriesInv PROVE NamesAgree
  <2>1. StateOK(entry, asked, hash) /\ (~touched => Clean(entry, asked, hash))
      BY <1>1, InvParts DEF Core
  <2>2. /\ HashType(hash) /\ Len(entry) \in Nat /\ Len(entry) <= MaxEntries
        /\ OrigsKeyed(entry, hash) /\ KeysInside(entry, hash)
        /\ \A i \in 1..Len(entry) : entry[i] \in EntryType
      BY <2>1, StateTypes DEF TableOK
  <2>3. ASSUME ~touched, NEW n \in Names
        PROVE  /\ Lookup(hash, n) = Scan(n)
               /\ \A i \in 1..MaxEntries :
                     Lookup(hash, n) = i <=> i \in Indices /\ Named(i) /\ CurName(entry[i]) = n
    <3> DEFINE S == {i \in Indices : HasDirent(entry[i]) /\ CurName(entry[i]) = n}
    <3>1. n # NoName
        BY NamesAssumption
    <3>2. \A i \in 1..MaxEntries :
             Lookup(hash, n) = i <=> i \in Indices /\ ~entry[i].deleted /\ CurName(entry[i]) = n
        BY <2>1, <2>3 DEF Clean, NamesFound, Indices
    <3>3. ASSUME NEW i \in Indices, CurName(entry[i]) = n
          PROVE  HasDirent(entry[i]) <=> ~entry[i].deleted
      <4>1. entry[i].deleted => entry[i].changes = NoChanges
          BY <2>1, <2>3 DEF Clean, DataAsAsked, Indices
      <4>2. entry[i].changes = NoChanges => entry[i].orig = n
          BY <3>3 DEF CurName, Changes, Clone
      <4>3. QED
          BY <3>1, <4>1, <4>2 DEF HasDirent
    <3>4. \A i \in 1..MaxEntries : i \in S <=> Lookup(hash, n) = i
        BY <3>2, <3>3
    <3>5. S \subseteq 1..MaxEntries /\ Lookup(hash, n) \in 0..MaxEntries
        BY <2>2, LookupKey, MaxEntriesAssumption DEF Indices
    <3>6. Scan(n) = IF S = {} THEN 0 ELSE CHOOSE i \in S : \A j \in S : i <= j
        BY DEF Scan
    <3> HIDE DEF S
    <3>7. CASE Lookup(hash, n) = 0
      <4>1. S = {}
          BY <3>4, <3>5, <3>7
      <4>2. QED
          BY <3>2, <3>1, <3>6, <3>7, <4>1 DEF Named
    <3>8. CASE Lookup(hash, n) # 0
      <4>1. S = {Lookup(hash, n)} /\ Lookup(hash, n) \in Nat
        <5>1. Lookup(hash, n) \in 1..MaxEntries
            BY <3>5, <3>8, MaxEntriesAssumption
        <5>2. Lookup(hash, n) \in Nat
            BY <5>1, MaxEntriesAssumption
        <5>3. Lookup(hash, n) \in S /\ \A i \in S : i = Lookup(hash, n)
            BY <3>4, <3>5, <5>1
        <5>4. QED
            BY <5>2, <5>3
      <4>2. Scan(n) = Lookup(hash, n)
          BY <3>6, <4>1
      <4>3. QED
          BY <3>2, <3>1, <4>2 DEF Named
    <3>9. QED
        BY <3>7, <3>8
  <2>4. ASSUME NEW i \in Indices, entry[i].orig # NoName
        PROVE  Found(hash, entry[i].orig) /\ hash.ent[entry[i].orig].orig = i
    <3>1. OrigOf(hash, entry[i].orig) = i /\ i # 0
        BY <2>2, <2>4 DEF OrigsKeyed, Indices
    <3>2. entry[i].orig \in DOMAIN hash.ent /\ hash.ent[entry[i].orig].orig = i
        BY <3>1 DEF OrigOf
    <3>3. QED
        BY <2>2, <3>2, FoundKey
  <2>5. QED
      BY <2>3, <2>4 DEF NamesAgree
<1>2. QED
    BY <1>1, EntriesInvariance, PTL

\* What zip_close would write of an entry that has no mark on a field.
LEMMA Unmarked ==
    ASSUME NEW e \in EntryType
    PROVE  /\ "method" \notin e.changes.bits =>
                 Stale(e, "method") \/ Actual(Changes(e).method) = "deflate"
           /\ "mtime" \notin e.changes.bits => Stale(e, "mtime") \/ Changes(e).mtime = 0
           /\ \A f \in Bits : f \in e.changes.bits => Changes(e) = e.changes
<1>1. Clone(e).method = OrigMethod(e) /\ Clone(e).mtime = 0
    BY DEF Clone
<1>2. Actual(OrigMethod(e)) = "deflate"
    BY DEF Actual, OrigMethod
<1>3. e.changes = NoChanges => Changes(e) = Clone(e) /\ e.changes.bits = {}
    BY DEF Changes, NoChanges
<1>4. e.changes # NoChanges => Changes(e) = e.changes
    BY DEF Changes
<1>5. /\ e.changes["method"] = e.changes.method /\ e.changes["mtime"] = e.changes.mtime
      /\ Clone(e)["method"] = Clone(e).method /\ Clone(e)["mtime"] = Clone(e).mtime
    OBVIOUS
<1>6. ASSUME "method" \notin e.changes.bits
      PROVE  Stale(e, "method") \/ Actual(Changes(e).method) = "deflate"
    BY <1>1, <1>2, <1>3, <1>4, <1>5, <1>6, Zenon DEF Stale
<1>7. ASSUME "mtime" \notin e.changes.bits
      PROVE  Stale(e, "mtime") \/ Changes(e).mtime = 0
    BY <1>1, <1>3, <1>4, <1>5, <1>7, Zenon DEF Stale
<1>8. QED
    BY <1>3, <1>4, <1>6, <1>7

\* zip_close writes of each entry what was asked last.
THEOREM WritesFaithful == Spec => []WrittenAsAsked
<1>1. ASSUME EntriesInv PROVE WrittenAsAsked
  <2> SUFFICES ASSUME NEW i \in Survivors
               PROVE  LET w == Written(entry[i]) a == asked[i] IN
                      /\ Stale(entry[i], "method") \/ w.method = w.encoding
                      /\ ~touched /\ ~Ghost(entry[i]) =>
                            /\ w.name = a.name
                            /\ w.data = a.data
                            /\ w.attr = a.attr
                            /\ \/ w.mtime = a.mtime \/ Stale(entry[i], "mtime")
                               \/ w.mtime = Now /\ a.mtime = 0
                            /\ w.method = Actual(a.method) \/ Stale(entry[i], "method")
      BY DEF WrittenAsAsked
  <2> DEFINE e == entry[i]
             a == asked[i]
             w == Written(e)
  <2>1. Core
      BY <1>1, InvParts
  <2>2. i \in 1..Len(entry) /\ EntryOK(e, a) /\ e \in EntryType /\ a \in AskedType
      BY <2>1, StateTypes DEF Core, Survivors, Indices
  <2>3. ~touched => DataAsAsked(e, a)
      BY <2>1, <2>2 DEF Core, Clean
  <2>4. AsAsked(e, a) /\ a.data \in {"orig", "new"} /\ e.source \in BOOLEAN
      BY <2>2 DEF EntryOK, AskedType, EntryType
  <2> HIDE DEF e, a
  <2>5. /\ w.name = Changes(e).name
        /\ w.data = IF e.source THEN "new" ELSE "orig"
        /\ w.method = Actual(Changes(e).method)
        /\ w.encoding = IF NewData(e) THEN Actual(Changes(e).method) ELSE "deflate"
        /\ w.mtime = IF ~NewData(e) \/ "mtime" \in e.changes.bits THEN Changes(e).mtime
                     ELSE IF e.source THEN Now ELSE 0
        /\ w.attr = Changes(e).attr
      BY DEF Written
  <2> HIDE DEF w
  <2>6. /\ "method" \notin e.changes.bits =>
              Stale(e, "method") \/ Actual(Changes(e).method) = "deflate"
        /\ "mtime" \notin e.changes.bits => Stale(e, "mtime") \/ Changes(e).mtime = 0
        /\ \A f \in Bits : f \in e.changes.bits => Changes(e) = e.changes
      BY <2>2, Unmarked
  <2>7. Stale(e, "method") \/ w.method = w.encoding
      BY <2>5, <2>6 DEF NewData
  <2>8. ASSUME ~touched, ~Ghost(e)
        PROVE  /\ w.name = a.name /\ w.data = a.data /\ w.attr = a.attr
               /\ \/ w.mtime = a.mtime \/ Stale(e, "mtime")
                  \/ w.mtime = Now /\ a.mtime = 0
               /\ w.method = Actual(a.method) \/ Stale(e, "method")
    <3>1. w.name = a.name /\ w.attr = a.attr
        BY <2>4, <2>5 DEF AsAsked, CurName
    <3>2. w.data = a.data
        BY <2>3, <2>4, <2>5, <2>8 DEF DataAsAsked
    <3>3. \/ w.mtime = a.mtime \/ Stale(e, "mtime")
          \/ w.mtime = Now /\ a.mtime = 0
      <4>1. CASE "mtime" \in e.changes.bits
          BY <2>4, <2>5, <2>6, <4>1 DEF AsAsked, Bits
      <4>2. CASE "mtime" \notin e.changes.bits
          BY <2>4, <2>5, <2>6, <4>2 DEF AsAsked
      <4>3. QED
          BY <4>1, <4>2
    <3>4. w.method = Actual(a.method) \/ Stale(e, "method")
      <4>1. CASE "method" \in e.changes.bits
          BY <2>4, <2>5, <2>6, <4>1 DEF AsAsked, Bits
      <4>2. CASE "method" \notin e.changes.bits
          BY <2>4, <2>5, <2>6, <4>2 DEF AsAsked
      <4>3. QED
          BY <4>1, <4>2
    <3>5. QED
        BY <3>1, <3>2, <3>3, <3>4
  <2>9. QED
      BY <2>7, <2>8 DEF e, a, w
<1>2. QED
    BY <1>1, EntriesInvariance, PTL

\* When zip_close finds nothing changed and so writes nothing, nothing that
\* was asked is lost.
THEOREM UnchangedIsNothing == Spec => []NothingLost
<1>1. ASSUME EntriesInv PROVE NothingLost
  <2> SUFFICES ASSUME ~Changed, ~touched, NEW i \in Indices, ~Ghost(entry[i])
               PROVE  /\ asked[i].name = entry[i].orig
                      /\ asked[i].data = "orig"
                      /\ asked[i].mtime = 0 /\ asked[i].attr = 0
                      /\ Actual(asked[i].method) = "deflate"
      BY DEF NothingLost
  <2> DEFINE e == entry[i]
             a == asked[i]
  <2>1. Core
      BY <1>1, InvParts
  <2>2. EntryOK(e, a) /\ a \in AskedType /\ DataAsAsked(e, a)
      BY <2>1, StateTypes DEF Core, Clean, Indices
  <2>3. e.changes = NoChanges /\ ~e.source
      BY DEF Changed, HasChanges
  <2>4. e.changes.bits = {} /\ CurName(e) = e.orig /\ Changes(e).attr = 0
      BY <2>3 DEF NoChanges, CurName, Changes, Clone
  <2>5. AsAsked(e, a) /\ a.data \in {"orig", "new"} /\ ~Ghost(e)
      BY <2>2 DEF EntryOK, AskedType
  <2> HIDE DEF e, a
  <2>6. a.name = e.orig /\ a.mtime = 0 /\ a.attr = 0 /\ Actual(a.method) = "deflate"
      BY <2>4, <2>5 DEF AsAsked
  <2>7. a.data = "orig"
      BY <2>2, <2>3, <2>5 DEF DataAsAsked
  <2>8. QED
      BY <2>6, <2>7 DEF e, a
<1>2. QED
    BY <1>1, EntriesInvariance, PTL

\* zip_unchange_all puts back the archive that was opened, whatever was done
\* to deleted entries before.
THEOREM RevertRestores == Spec => UnchangeAllRestores
<1> DEFINE Restores == touched /\ ~touched' =>
               /\ ~Changed'
               /\ \A i \in Indices : entry[i].orig # NoName =>
                     Lookup(hash', entry[i].orig) = i
                     /\ Written(entry'[i]).name = entry[i].orig
<1>1. ASSUME EntriesInv, [Next]_vars PROVE Restores
  <2> SUFFICES ASSUME touched, ~touched'
               PROVE  /\ ~Changed'
                      /\ \A i \in Indices : entry[i].orig # NoName =>
                            Lookup(hash', entry[i].orig) = i
                            /\ Written(entry'[i]).name = entry[i].orig
      OBVIOUS
  <2>1. UnchangeAll
      BY <1>1 DEF Next, vars, FileAdd, DirAdd, FileReplace, Delete, Unchange, FileRename,
                  SetCompression, SetMtime, SetAttributes, SetComment, SetReadOnly, AddEntry,
                  UpdateEntry, UpdateEntryAs
  <2>2. Core /\ Rest
      BY <1>1, InvParts
  <2>3. /\ Len(entry) \in Nat /\ HashType(hash) /\ OrigsKeyed(entry, hash)
        /\ \A i \in Indices : entry[i] \in EntryType
      BY <2>2, StateTypes DEF Core, TableOK, Indices
  <2>4. entry' = [i \in Indices |-> Emptied(entry[i], FALSE)]
      BY <2>1, <2>3, UnchangedEntry DEF UnchangeAll, Emptied
  <2>5. /\ comment' = FALSE /\ chFlags' = [chFlags EXCEPT !.ch = chFlags.orig]
        /\ hash' = HashRevert(hash)
      BY <2>1 DEF UnchangeAll
  <2>6. chFlags'.ch = chFlags'.orig
      BY <2>2, <2>5 DEF Rest
  <2>7. Len(entry') = Len(entry)
      BY <2>3, <2>4 DEF Indices
  <2>8. ASSUME NEW i \in Indices
        PROVE  /\ ~entry'[i].source /\ ~entry'[i].deleted /\ entry'[i].changes = NoChanges
               /\ entry'[i].orig = entry[i].orig
      BY <2>4 DEF Emptied
  <2>9. ~Changed'
      BY <2>5, <2>6, <2>7, <2>8 DEF Changed, HasChanges, Indices
  <2>10. ASSUME NEW i \in Indices, entry[i].orig # NoName
         PROVE  Lookup(hash', entry[i].orig) = i /\ Written(entry'[i]).name = entry[i].orig
    <3>1. OrigOf(hash, entry[i].orig) = i
        BY <2>3, <2>10 DEF OrigsKeyed, Indices
    <3>2. Lookup(hash', entry[i].orig) = i
        BY <2>3, <2>5, <3>1, RevertKeeps
    <3>3. Written(entry'[i]).name = entry[i].orig
        BY <2>8 DEF Written, Changes, Clone
    <3>4. QED
        BY <3>2, <3>3
  <2>11. QED
      BY <2>9, <2>10
<1>2. QED
    BY <1>1, EntriesInvariance, PTL DEF Spec, UnchangeAllRestores

=============================================================================
