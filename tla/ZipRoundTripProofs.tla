------------------------ MODULE ZipRoundTripProofs ------------------------
(***************************************************************************)
(* Proofs that zip_open finds what zip_close wrote, for archives of any    *)
(* number of entries of any sizes and for every width of the fields.  In   *)
(* order: fields, texts and sizes are read from a header as they were      *)
(* written; the file has the layout that LayoutInv says; the directory in  *)
(* such a file is read as its entries; _zip_find_central_dir settles on    *)
(* that directory; and each entry, with its local fields, is the record    *)
(* that it was written from.                                               *)
(***************************************************************************)
EXTENDS ZipFormatProofs

-----------------------------------------------------------------------------
(* Where the parts of a flattened list are.                                *)

\* p[j] is where part j of ss ends in c, the parts one after the other.
PlacedAt(p, ss, c) ==
    /\ p \in [0..Len(ss) -> Nat] /\ p[0] = 0 /\ p[Len(ss)] = Len(c)
    /\ \A j \in 1..Len(ss) :
          /\ p[j] = p[j - 1] + Len(ss[j])
          /\ p[j] <= Len(c)
          /\ \A i \in 1..Len(ss[j]) : c[p[j - 1] + i] = ss[j][i]

\* One more part at the end.
LEMMA PlacedAppend ==
    ASSUME NEW S, NEW ss \in Seq(Seq(S)), NEW x \in Seq(S), NEW c \in Seq(S),
           NEW p, PlacedAt(p, ss, c)
    PROVE  \E q : PlacedAt(q, Append(ss, x), c \o x)
<1> DEFINE n == Len(ss)
           t == Append(ss, x)
           d == c \o x
           m == Len(d)
           q == [j \in 0..n + 1 |-> IF j = n + 1 THEN m ELSE p[j]]
<1>1. /\ n \in Nat /\ Len(t) = n + 1 /\ t[n + 1] = x /\ \A j \in 1..n : t[j] = ss[j]
      /\ \A j \in 1..n : ss[j] \in Seq(S)
    BY AppendProperties
<1>2. /\ m = Len(c) + Len(x) /\ Len(c) \in Nat /\ Len(x) \in Nat /\ m \in Nat
      /\ \A i \in 1..Len(c) : d[i] = c[i]
      /\ \A i \in 1..Len(x) : d[Len(c) + i] = x[i]
    BY ConcatProperties
<1>3. /\ p \in [0..n -> Nat] /\ p[0] = 0 /\ p[n] = Len(c)
      /\ \A j \in 1..n :
            /\ p[j] = p[j - 1] + Len(ss[j])
            /\ p[j] <= Len(c)
            /\ \A i \in 1..Len(ss[j]) : c[p[j - 1] + i] = ss[j][i]
    BY DEF PlacedAt
<1> HIDE DEF t, d, m
<1>4. q \in [0..n + 1 -> Nat] /\ q[0] = 0 /\ q[n + 1] = m /\ q[n] = p[n]
    BY <1>1, <1>2, <1>3
<1>5. ASSUME NEW j \in 1..n + 1
      PROVE  /\ q[j] = q[j - 1] + Len(t[j])
             /\ q[j] <= m
             /\ \A i \in 1..Len(t[j]) : d[q[j - 1] + i] = t[j][i]
  <2>1. CASE j = n + 1
    <3>1. t[j] = x /\ q[j - 1] = Len(c) /\ q[j] = m
      BY <1>1, <1>3, <1>4, <2>1
    <3>2. q[j] = q[j - 1] + Len(t[j]) /\ q[j] <= m
      <4> HIDE DEF q
      <4>1. QED
        BY ONLY <1>2, <3>1
    <3>3. \A i \in 1..Len(t[j]) : d[q[j - 1] + i] = t[j][i]
      BY <1>2, <3>1
    <3>4. QED
      BY <3>2, <3>3
  <2>2. CASE j \in 1..n
    <3>1. j \in 0..n + 1 /\ j - 1 \in 0..n + 1 /\ j # n + 1 /\ j - 1 # n + 1 /\ j - 1 \in 0..n
      BY <1>1, <2>2
    <3>2. q[j] = p[j] /\ q[j - 1] = p[j - 1] /\ t[j] = ss[j] /\ p[j - 1] \in Nat
      BY <1>1, <1>3, <2>2, <3>1
    <3>3. Len(ss[j]) \in Nat
      BY <1>1, <2>2
    <3>4. /\ p[j] = p[j - 1] + Len(ss[j]) /\ p[j] <= Len(c)
          /\ \A i \in 1..Len(ss[j]) : c[p[j - 1] + i] = ss[j][i]
      BY <1>3, <2>2
    <3>5. ASSUME NEW i \in 1..Len(ss[j]) PROVE d[p[j - 1] + i] = ss[j][i]
      <4>1. p[j - 1] + i \in 1..Len(c)
        <5>1. /\ i \in 1..Len(ss[j]) /\ Len(ss[j]) \in Nat /\ p[j - 1] \in Nat /\ Len(c) \in Nat
              /\ p[j - 1] + Len(ss[j]) <= Len(c)
          BY <1>2, <3>2, <3>3, <3>4
        <5> DEFINE a == p[j - 1]
                   b == Len(ss[j])
                   e == Len(c)
        <5>2. i \in 1..b /\ b \in Nat /\ a \in Nat /\ e \in Nat /\ a + b <= e
          BY ONLY <5>1
        <5> HIDE DEF a, b, e
        <5>3. a + i \in 1..e
          BY ONLY <5>2
        <5>4. QED
          BY <5>3 DEF a, e
      <4>2. QED
        BY <1>2, <3>4, <4>1
    <3>6. p[j] <= m
      BY <1>2, <3>2, <3>3, <3>4
    <3>7. QED
      BY <3>2, <3>4, <3>5, <3>6
  <2>3. j = n + 1 \/ j \in 1..n
    <3>1. j \in 1..n + 1 /\ n \in Nat
      BY <1>1
    <3> HIDE DEF n
    <3>2. QED
      BY ONLY <3>1
  <2>4. QED
    BY <2>1, <2>2, <2>3
<1> HIDE DEF q
<1>6. PlacedAt(q, t, d)
    BY <1>1, <1>4, <1>5 DEF PlacedAt, m
<1>7. QED
    BY <1>6 DEF t, d

\* Every list of lists has such places in the list they make.
LEMMA FlattenPlaced ==
    ASSUME NEW S, NEW ss \in Seq(Seq(S))
    PROVE  \E p : PlacedAt(p, ss, FlattenSeq(ss))
<1> DEFINE T == {t \in Seq(Seq(S)) : \E p : PlacedAt(p, t, FlattenSeq(t))}
<1>1. <<>> \in T
  <2> DEFINE p == [j \in 0..0 |-> 0]
  <2>1. PlacedAt(p, <<>>, <<>>)
    BY DEF PlacedAt
  <2> HIDE DEF p
  <2>2. QED
    BY <2>1, FlattenNil
<1>2. ASSUME NEW t \in Seq(Seq(S)), NEW x \in Seq(S), t \in T PROVE Append(t, x) \in T
  <2>1. PICK p : PlacedAt(p, t, FlattenSeq(t))
    BY <1>2
  <2>2. FlattenSeq(t) \in Seq(S) /\ FlattenSeq(Append(t, x)) = FlattenSeq(t) \o x
    BY FlattenType, FlattenAppend
  <2>3. \E q : PlacedAt(q, Append(t, x), FlattenSeq(Append(t, x)))
    BY <2>1, <2>2, PlacedAppend
  <2>4. Append(t, x) \in Seq(Seq(S))
    BY AppendProperties
  <2>5. QED
    BY <2>3, <2>4
<1> HIDE DEF T
<1>3. Seq(Seq(S)) \subseteq T
    BY <1>1, <1>2, ListInduction
<1>4. QED
    BY <1>3 DEF T

-----------------------------------------------------------------------------
(* What _zip_ef_parse makes of cells, one field at a time.                 *)

\* The field whose head is the cell after the first k, and where it ends.
FieldAt(cells, flags, k) ==
    [id |-> cells[k + 1].id, vals |-> [i \in 1..cells[k + 1].n |-> EfValue(cells[k + 1 + i])],
     for |-> flags]
FieldEnd(cells, k) == k + 1 + cells[k + 1].n

\* A step of EfParse, given a table t of what it makes of the cells after it.
ParseStep(cells, flags, t, k) ==
    IF k = Len(cells) THEN [ok |-> TRUE, efs |-> <<>>]
    ELSE IF cells[k + 1].k # "ef" THEN [ok |-> FALSE, efs |-> <<>>]
    ELSE IF FieldEnd(cells, k) > Len(cells) THEN [ok |-> FALSE, efs |-> <<>>]
    ELSE [t[FieldEnd(cells, k)] EXCEPT !.efs = <<FieldAt(cells, flags, k)>> \o @]

\* Only what comes later in the table matters.
LEMMA ParseStepLater ==
    ASSUME NEW I, NEW V, NEW cells \in Seq(FieldCells(I, V)), NEW flags,
           NEW k \in 0..Len(cells), NEW t, NEW u, \A j \in k + 1..Len(cells) : t[j] = u[j]
    PROVE  ParseStep(cells, flags, t, k) = ParseStep(cells, flags, u, k)
<1> DEFINE n == Len(cells)
           e == FieldEnd(cells, k)
<1>1. CASE k # n /\ cells[k + 1].k = "ef" /\ ~(e > n)
  <2>1. n \in Nat /\ k + 1 \in 1..n
    BY <1>1
  <2>2. cells[k + 1] \in FieldCells(I, V)
    BY <2>1
  <2>3. cells[k + 1].n \in Nat
    BY <1>1, <2>2 DEF FieldCells
  <2>4. e \in k + 1..n
    BY <1>1, <2>1, <2>3 DEF FieldEnd
  <2>5. t[e] = u[e]
    BY <2>4
  <2>6. QED
    BY <2>5 DEF ParseStep
<1>2. CASE ~(k # n /\ cells[k + 1].k = "ef" /\ ~(e > n))
    BY <1>2 DEF ParseStep
<1>3. QED
    BY <1>1, <1>2

ParseLoop(f, cells, flags) ==
    /\ EfParse(cells, flags) = f[0]
    /\ \A k \in 0..Len(cells) : f[k] = ParseStep(cells, flags, f, k)

\* _zip_ef_parse goes along the cells, from the end in this form.
LEMMA ParseExists ==
    ASSUME NEW I, NEW V, NEW cells \in Seq(FieldCells(I, V)), NEW flags
    PROVE  \E f : ParseLoop(f, cells, flags)
<1> DEFINE n == Len(cells)
           Step(t, k) == ParseStep(cells, flags, t, k)
           Table(t, m) == \A k \in n - m..n : t[k] = Step(t, k)
           T == {m \in 0..n : \E t : Table(t, m)}
<1>1. n \in Nat
    OBVIOUS
<1>2. ASSUME NEW k \in 0..n, NEW t, NEW u, \A j \in k + 1..n : t[j] = u[j]
      PROVE  Step(t, k) = Step(u, k)
    BY <1>2, ParseStepLater
<1> HIDE DEF Step, n
<1>3. 0 \in T
  <2> DEFINE t == [k \in 0..n |-> Step(<<>>, k)]
  <2>1. n \in 0..n /\ n - 0 = n /\ (n - 0)..n = {n} /\ n + 1..n = {} /\ 0 \in 0..n
    BY <1>1
  <2>2. t[n] = Step(<<>>, n)
    BY <2>1
  <2> HIDE DEF t
  <2>3. Step(<<>>, n) = Step(t, n)
    BY <1>2, <2>1
  <2>4. Table(t, 0)
    BY <2>1, <2>2, <2>3
  <2>5. QED
    BY <2>1, <2>4
<1>4. ASSUME NEW m \in 0..n - 1, m \in T PROVE m + 1 \in T
  <2>1. PICK t : Table(t, m)
    BY <1>4
  <2> DEFINE x == n - (m + 1)
             u == [k \in 0..n |-> IF k = x THEN Step(t, k) ELSE t[k]]
  <2>2. x \in 0..n /\ x + 1 = n - m /\ m + 1 \in 0..n
    BY <1>1
  <2>3. \A j \in 0..n : j # x => u[j] = t[j]
    OBVIOUS
  <2>4. u[x] = Step(t, x)
    BY <2>2
  <2> HIDE DEF x, u
  <2>5. ASSUME NEW k \in x..n PROVE u[k] = Step(u, k)
    <3>1. k \in 0..n /\ \A j \in k + 1..n : j \in 0..n /\ j # x
      BY <1>1, <2>2
    <3>2. \A j \in k + 1..n : t[j] = u[j]
      BY <2>3, <3>1
    <3>3. Step(t, k) = Step(u, k)
      BY <1>2, <3>1, <3>2
    <3>4. CASE k = x
      BY <2>4, <3>3, <3>4
    <3>5. CASE k # x
      <4>1. k \in n - m..n
        BY <1>1, <2>2, <3>5
      <4>2. t[k] = Step(t, k)
        BY <2>1, <4>1
      <4>3. QED
        BY <2>3, <3>1, <3>3, <3>5, <4>2
    <3>6. QED
      BY <3>4, <3>5
  <2>6. Table(u, m + 1)
    BY <2>5 DEF x
  <2>7. QED
    BY <2>2, <2>6
<1> HIDE DEF T
<1>5. n \in T
  <2>1. \A m \in 0..n : m \in T
    BY ONLY <1>1, <1>3, <1>4, UpTo
  <2>2. QED
    BY <1>1, <2>1
<1>6. PICK t : Table(t, n)
    BY <1>5 DEF T
<1> DEFINE h == [k \in 0..n |-> t[k]]
           Loop(f) == f = [k \in 0..n |-> Step(f, k)]
<1>7. Loop(h)
  <2>1. ASSUME NEW k \in 0..n PROVE h[k] = Step(h, k)
    <3>1. n - n = 0 /\ \A j \in k + 1..n : j \in 0..n
      BY <1>1
    <3>2. \A j \in k + 1..n : t[j] = h[j]
      BY <3>1
    <3>3. t[k] = Step(t, k)
      BY <1>6, <3>1
    <3> HIDE DEF h
    <3>4. Step(t, k) = Step(h, k)
      BY <1>2, <3>2
    <3>5. h[k] = t[k]
      BY DEF h
    <3>6. QED
      BY <3>3, <3>4, <3>5
  <2>2. QED
    BY <2>1
<1> DEFINE f == CHOOSE f : Loop(f)
<1>8. Loop(f)
    BY <1>7
<1>9. EfParse(cells, flags) = f[0]
    BY DEF EfParse, Step, ParseStep, FieldAt, FieldEnd, n
<1> HIDE DEF f
<1>10. \A k \in 0..n : f[k] = Step(f, k)
    BY <1>8
<1>11. ParseLoop(f, cells, flags)
    BY <1>9, <1>10 DEF ParseLoop, Step, n
<1>12. QED
    BY <1>11

\* Fields as they are read from a header.
Marked(es, flags) == [i \in DOMAIN es |-> [id |-> es[i].id, vals |-> es[i].vals, for |-> flags]]

\* What has been read is again a list of fields.
LEMMA MarkedType ==
    ASSUME NEW I, NEW V, NEW es \in Seq(Fields(I, V)), NEW flags \in SUBSET Kinds
    PROVE  Marked(es, flags) \in Seq(Fields(I, V)) /\ Len(Marked(es, flags)) = Len(es)
<1> DEFINE n == Len(es)
           F == Fields(I, V)
           m == Marked(es, flags)
<1>1. n \in Nat /\ DOMAIN es = 1..n /\ \A i \in 1..n : es[i] \in F
    OBVIOUS
<1>2. \A i \in 1..n : [id |-> es[i].id, vals |-> es[i].vals, for |-> flags] \in F
    BY <1>1 DEF Fields
<1>3. m = [i \in 1..n |-> [id |-> es[i].id, vals |-> es[i].vals, for |-> flags]]
    BY <1>1 DEF Marked
<1> HIDE DEF n, F, m
<1>4. m \in [1..n -> F]
    BY <1>2, <1>3
<1>5. m \in Seq(F) /\ Len(m) = n
    BY ONLY <1>1, <1>4
<1>6. QED
    BY <1>5 DEF n, F, m

\* The elements of a list from one on are this one and those after it.
LEMMA FirstOfRest ==
    ASSUME NEW S, NEW s \in Seq(S), NEW j \in 1..Len(s)
    PROVE  SubSeq(s, j, Len(s)) = <<s[j]>> \o SubSeq(s, j + 1, Len(s))
<1> DEFINE n == Len(s)
           a == SubSeq(s, j, n)
           r == SubSeq(s, j + 1, n)
           b == <<s[j]>> \o r
<1>1. n \in Nat /\ s[j] \in S /\ j \in 1..n
    OBVIOUS
<1>2. /\ a \in Seq(S) /\ Len(a) = n - j + 1
      /\ \A i \in 1..n - j + 1 : a[i] = s[j + i - 1]
    BY <1>1
<1>3. /\ r \in Seq(S) /\ Len(r) = n - j
      /\ \A i \in 1..n - j : r[i] = s[j + i]
    BY <1>1
<1> HIDE DEF n, a, r
<1>4. /\ b \in Seq(S) /\ Len(b) = n - j + 1 /\ b[1] = s[j]
      /\ \A i \in 1..n - j : b[i + 1] = r[i]
  <2> DEFINE h == <<s[j]>>
  <2>1. h \in Seq(S) /\ Len(h) = 1 /\ h[1] = s[j] /\ b = h \o r
    BY <1>1
  <2> HIDE DEF h, b
  <2>2. /\ b \in Seq(S) /\ Len(b) = 1 + (n - j)
        /\ \A i \in 1..1 + (n - j) : b[i] = IF i <= 1 THEN h[i] ELSE r[i - 1]
    <3>1. /\ b \in Seq(S) /\ Len(b) = Len(h) + Len(r)
          /\ \A i \in 1..Len(h) + Len(r) : b[i] = IF i <= Len(h) THEN h[i] ELSE r[i - Len(h)]
      BY ONLY <1>3, <2>1, ConcatProperties
    <3>2. QED
      BY <1>3, <2>1, <3>1
  <2>3. 1 \in 1..1 + (n - j) /\ n - j + 1 = 1 + (n - j)
    BY <1>1
  <2>4. \A i \in 1..n - j : i + 1 \in 1..1 + (n - j) /\ ~(i + 1 <= 1) /\ (i + 1) - 1 = i
    BY <1>1
  <2>5. QED
    BY <2>1, <2>2, <2>3, <2>4
<1>5. \A i \in 1..n - j + 1 : a[i] = b[i]
  <2> SUFFICES ASSUME NEW i \in 1..n - j + 1 PROVE a[i] = b[i]
    OBVIOUS
  <2>1. CASE i = 1
    <3>1. j + i - 1 = j
      BY <1>1, <2>1
    <3>2. a[i] = s[j]
      BY <1>2, <3>1
    <3>3. QED
      BY <1>4, <2>1, <3>2
  <2>2. CASE i # 1
    <3>1. i - 1 \in 1..n - j /\ (i - 1) + 1 = i /\ j + i - 1 = j + (i - 1)
      BY <1>1, <2>2
    <3>2. b[i] = r[i - 1] /\ r[i - 1] = s[j + (i - 1)]
      BY <1>3, <1>4, <3>1
    <3>3. QED
      BY <1>2, <3>1, <3>2
  <2>3. QED
    BY <2>1, <2>2
<1> HIDE DEF b
<1>6. a = b
    BY <1>2, <1>4, <1>5
<1>7. QED
    BY <1>6 DEF a, b, r, n

\* A field among the cells of a header is read as it was written.
LEMMA ReadOneField ==
    ASSUME NEW I, NEW V, NEW ef \in Fields(I, V), NEW cells \in Seq(FieldCells(I, V)),
           NEW flags, NEW k \in Nat, k + Len(EfCells(ef)) <= Len(cells),
           \A i \in 1..Len(EfCells(ef)) : cells[k + i] = EfCells(ef)[i]
    PROVE  /\ k \in 0..Len(cells) /\ k # Len(cells)
           /\ cells[k + 1].k = "ef" /\ FieldEnd(cells, k) = k + Len(EfCells(ef))
           /\ FieldAt(cells, flags, k) = [id |-> ef.id, vals |-> ef.vals, for |-> flags]
<1> DEFINE m == Len(ef.vals)
           c == EfCells(ef)
<1>1. ef.vals \in Seq(V) /\ m \in Nat /\ DOMAIN ef.vals = 1..m
    BY DEF Fields
<1>2. /\ Len(c) = m + 1 /\ c[1] = [k |-> "ef", id |-> ef.id, n |-> m]
      /\ \A i \in 1..m : c[i + 1] = [k |-> "val", v |-> ef.vals[i]]
    BY EfCellsType
<1>3. Len(cells) \in Nat
    OBVIOUS
<1> HIDE DEF m, c
<1>4. k + (m + 1) <= Len(cells) /\ \A i \in 1..m + 1 : cells[k + i] = c[i]
    BY <1>2 DEF c
<1>5. cells[k + 1] = [k |-> "ef", id |-> ef.id, n |-> m]
    BY <1>1, <1>2, <1>4
<1>6. ASSUME NEW i \in 1..m PROVE EfValue(cells[k + 1 + i]) = ef.vals[i]
  <2>1. i + 1 \in 1..m + 1 /\ k + 1 + i = k + (i + 1)
    BY <1>1
  <2>2. cells[k + 1 + i] = [k |-> "val", v |-> ef.vals[i]]
    BY <1>2, <1>4, <2>1
  <2>3. QED
    BY <2>2 DEF EfValue
<1>7. ef.vals = [i \in 1..m |-> ef.vals[i]]
    BY <1>1
<1>8. [i \in 1..m |-> EfValue(cells[k + 1 + i])] = ef.vals
    BY <1>6, <1>7
<1>9. FieldAt(cells, flags, k) = [id |-> ef.id, vals |-> ef.vals, for |-> flags]
  <2>1. cells[k + 1].n = m /\ cells[k + 1].id = ef.id
    BY <1>5
  <2>2. FieldAt(cells, flags, k) =
            [id |-> ef.id, vals |-> [i \in 1..m |-> EfValue(cells[k + 1 + i])], for |-> flags]
    BY <2>1, Zenon DEF FieldAt
  <2>3. QED
    BY <1>8, <2>2, Zenon
<1>10. FieldEnd(cells, k) = k + Len(c) /\ k \in 0..Len(cells) /\ k # Len(cells)
    BY <1>1, <1>2, <1>3, <1>4, <1>5 DEF FieldEnd
<1>11. QED
    BY <1>5, <1>9, <1>10 DEF c

\* What was written of a list of fields is read as that list.
LEMMA FieldsParsed ==
    ASSUME NEW I, NEW V, NEW es \in Seq(Fields(I, V)), NEW flags \in SUBSET Kinds
    PROVE  EfParse(FlattenSeq([i \in DOMAIN es |-> EfCells(es[i])]), flags) =
              [ok |-> TRUE, efs |-> Marked(es, flags)]
<1> DEFINE F == Fields(I, V)
           C == FieldCells(I, V)
           n == Len(es)
           ss == [i \in DOMAIN es |-> EfCells(es[i])]
           cells == FlattenSeq(ss)
           mk == Marked(es, flags)
           N == Len(cells)
<1>1. n \in Nat /\ DOMAIN es = 1..n /\ \A i \in 1..n : es[i] \in F
    OBVIOUS
<1>2. ss \in Seq(Seq(C)) /\ \A i \in 1..n : ss[i] = EfCells(es[i])
    BY <1>1, CellListType
<1>3. Len(ss) = n
  <2>1. DOMAIN ss = 1..n
    BY <1>1
  <2> HIDE DEF ss, n, C
  <2>2. QED
    BY ONLY <1>1, <1>2, <2>1
<1>4. cells \in Seq(C) /\ N \in Nat
  <2> HIDE DEF ss, C
  <2>1. cells \in Seq(C)
    BY <1>2, FlattenType
  <2>2. QED
    BY <2>1
<1>5. PICK p : PlacedAt(p, ss, cells)
    BY <1>2, FlattenPlaced
<1> HIDE DEF ss, cells
<1>6. /\ p \in [0..n -> Nat] /\ p[0] = 0 /\ p[n] = N
      /\ \A j \in 1..n :
            /\ p[j] = p[j - 1] + Len(ss[j])
            /\ p[j] <= N
            /\ \A i \in 1..Len(ss[j]) : cells[p[j - 1] + i] = ss[j][i]
    BY <1>3, <1>5 DEF PlacedAt
<1>7. PICK f : ParseLoop(f, cells, flags)
    BY <1>4, ParseExists
<1>8. mk \in Seq(F) /\ Len(mk) = n
      /\ \A i \in 1..n : mk[i] = [id |-> es[i].id, vals |-> es[i].vals, for |-> flags]
  <2>1. mk \in Seq(F) /\ Len(mk) = n
    BY <1>1, MarkedType
  <2>2. DOMAIN es = 1..n
    BY <1>1
  <2>3. QED
    BY <2>1, <2>2 DEF Marked
<1> HIDE DEF mk
<1> DEFINE T == {m \in 0..n : f[p[n - m]] = [ok |-> TRUE, efs |-> SubSeq(mk, n - m + 1, n)]}
<1>9. 0 \in T
  <2>1. f[N] = ParseStep(cells, flags, f, N)
    BY <1>4, <1>7 DEF ParseLoop
  <2>2. f[N] = [ok |-> TRUE, efs |-> <<>>]
    BY <2>1 DEF ParseStep
  <2>3. SubSeq(mk, n + 1, n) = <<>>
    BY <1>1, <1>8
  <2>4. n - 0 = n /\ 0 \in 0..n
    BY <1>1
  <2>5. QED
    BY <1>6, <2>2, <2>3, <2>4
<1>10. ASSUME NEW m \in 0..n - 1, m \in T PROVE m + 1 \in T
  <2> DEFINE j == n - m
             k == p[j - 1]
             ef == es[j]
  <2>1. j \in 1..n /\ j - 1 = n - (m + 1) /\ j - 1 \in 0..n /\ m + 1 \in 0..n /\ (j - 1) + 1 = j
    BY <1>1
  <2>2. f[p[j]] = [ok |-> TRUE, efs |-> SubSeq(mk, j + 1, n)]
    BY <1>10
  <2> HIDE DEF j
  <2>3. k \in Nat /\ ef \in F /\ ss[j] = EfCells(ef)
    BY <1>1, <1>2, <1>6, <2>1
  <2>4. /\ p[j] = k + Len(EfCells(ef)) /\ k + Len(EfCells(ef)) <= N
        /\ \A i \in 1..Len(EfCells(ef)) : cells[k + i] = EfCells(ef)[i]
    BY <1>6, <2>1, <2>3
  <2>5. mk[j] = [id |-> ef.id, vals |-> ef.vals, for |-> flags]
    BY <1>8, <2>1
  <2> HIDE DEF k, ef, C, F
  <2>6. /\ k \in 0..N /\ k # N
        /\ cells[k + 1].k = "ef" /\ FieldEnd(cells, k) = p[j]
        /\ FieldAt(cells, flags, k) = mk[j]
    BY <1>4, <2>3, <2>4, <2>5, ReadOneField DEF C, F
  <2>7. f[k] = ParseStep(cells, flags, f, k)
    BY <1>7, <2>6 DEF ParseLoop
  <2>8. f[k] = [f[p[j]] EXCEPT !.efs = <<mk[j]>> \o @]
    BY <1>4, <2>4, <2>6, <2>7 DEF ParseStep
  <2>9. f[k] = [ok |-> TRUE, efs |-> <<mk[j]>> \o SubSeq(mk, j + 1, n)]
    <3> DEFINE x == mk[j]
               y == SubSeq(mk, j + 1, n)
               r == f[p[j]]
    <3>1. r = [ok |-> TRUE, efs |-> y] /\ f[k] = [r EXCEPT !.efs = <<x>> \o @]
      BY <2>2, <2>8
    <3> HIDE DEF x, y, r
    <3>2. f[k] = [ok |-> TRUE, efs |-> <<x>> \o y]
      BY ONLY <3>1
    <3>3. QED
      BY <3>2 DEF x, y
  <2>10. SubSeq(mk, j, n) = <<mk[j]>> \o SubSeq(mk, j + 1, n)
    BY <1>8, <2>1, FirstOfRest
  <2>11. f[p[n - (m + 1)]] = [ok |-> TRUE, efs |-> SubSeq(mk, n - (m + 1) + 1, n)]
    BY <2>1, <2>9, <2>10 DEF k
  <2>12. QED
    BY <2>1, <2>11
<1> HIDE DEF T
<1>11. n \in T
  <2>1. \A m \in 0..n : m \in T
    <3> HIDE DEF n
    <3>1. QED
      BY ONLY <1>1, <1>9, <1>10, UpTo
  <2>2. QED
    BY <1>1, <2>1
<1>12. f[0] = [ok |-> TRUE, efs |-> SubSeq(mk, 1, n)]
  <2>1. n - n = 0 /\ n - n + 1 = 1
    BY <1>1
  <2>2. QED
    BY <1>6, <1>11, <2>1 DEF T
<1>13. SubSeq(mk, 1, n) = mk
    BY <1>1, <1>8
<1>14. QED
    BY <1>7, <1>12, <1>13 DEF ParseLoop, cells, ss, mk

-----------------------------------------------------------------------------
(* Lists of fields that are joined, picked from and searched.              *)

\* The last element of what is joined.
LEMMA JoinAppend ==
    ASSUME NEW S, NEW a \in Seq(S), NEW b \in Seq(S), NEW x \in S
    PROVE  a \o Append(b, x) = Append(a \o b, x)
<1> DEFINE s == <<x>>
<1>1. s \in Seq(S)
    OBVIOUS
<1>2. Append(b, x) = b \o s /\ Append(a \o b, x) = (a \o b) \o s
    BY AppendIsConcat, ConcatProperties
<1> HIDE DEF s
<1>3. QED
    BY <1>1, <1>2, ConcatAssociative

\* It does not matter how three lists are joined.
Regrouped(a, b, c) == (a \o b) \o c = a \o (b \o c)

\* Joining lists is associative.
LEMMA JoinRegrouped ==
    ASSUME NEW S, NEW a \in Seq(S), NEW b \in Seq(S), NEW c \in Seq(S)
    PROVE  Regrouped(a, b, c)
    BY ConcatAssociative DEF Regrouped

\* FlattenSeq of two lists of lists.
LEMMA FlattenJoined ==
    ASSUME NEW S, NEW a \in Seq(Seq(S)), NEW b \in Seq(Seq(S))
    PROVE  FlattenSeq(a \o b) = FlattenSeq(a) \o FlattenSeq(b)
<1> DEFINE T == {t \in Seq(Seq(S)) : FlattenSeq(a \o t) = FlattenSeq(a) \o FlattenSeq(t)}
<1>1. <<>> \in T
  <2>1. a \o <<>> = a /\ FlattenSeq(a) \in Seq(S)
    BY FlattenType
  <2>2. FlattenSeq(a) \o <<>> = FlattenSeq(a)
    BY <2>1
  <2>3. <<>> \in Seq(Seq(S))
    OBVIOUS
  <2>4. QED
    BY <2>1, <2>2, <2>3, FlattenNil
<1>2. ASSUME NEW t \in Seq(Seq(S)), NEW x \in Seq(S), t \in T PROVE Append(t, x) \in T
  <2> DEFINE A == FlattenSeq(a)
             B == FlattenSeq(t)
  <2>1. A \in Seq(S) /\ B \in Seq(S)
    BY FlattenType
  <2>2. a \o Append(t, x) = Append(a \o t, x) /\ a \o t \in Seq(Seq(S))
    BY JoinAppend, ConcatProperties
  <2>3. FlattenSeq(Append(a \o t, x)) = FlattenSeq(a \o t) \o x
    BY <2>2, FlattenAppend
  <2>4. FlattenSeq(Append(t, x)) = B \o x
    BY FlattenAppend
  <2>5. FlattenSeq(a \o t) = A \o B
    BY <1>2
  <2>6. Append(t, x) \in Seq(Seq(S))
    BY AppendProperties
  <2> HIDE DEF A, B
  <2>7. (A \o B) \o x = A \o (B \o x)
    <3>1. x \in Seq(S)
      OBVIOUS
    <3>2. QED
      <4>1. Regrouped(A, B, x)
        BY ONLY <2>1, <3>1, JoinRegrouped
      <4>2. QED
        BY ONLY <4>1 DEF Regrouped
  <2>8. QED
    BY <2>2, <2>3, <2>4, <2>5, <2>6, <2>7 DEF A
<1> HIDE DEF T
<1>3. Seq(Seq(S)) \subseteq T
    BY <1>1, <1>2, ListInduction
<1>4. QED
    BY <1>3 DEF T

\* What is written of two lists of fields is written of the joined list.
CellLists(es) == [i \in DOMAIN es |-> EfCells(es[i])]

\* The cells of two lists of fields, one after the other.
LEMMA CellListsJoined ==
    ASSUME NEW I, NEW V, NEW a \in Seq(Fields(I, V)), NEW b \in Seq(Fields(I, V))
    PROVE  FlattenSeq(CellLists(a \o b)) = FlattenSeq(CellLists(a)) \o FlattenSeq(CellLists(b))
<1> DEFINE F == Fields(I, V)
           C == FieldCells(I, V)
           ca == CellLists(a)
           cb == CellLists(b)
           c == CellLists(a \o b)
           m == Len(a)
           n == Len(b)
<1>1. /\ m \in Nat /\ n \in Nat /\ DOMAIN a = 1..m /\ DOMAIN b = 1..n
      /\ a \o b \in Seq(F) /\ DOMAIN (a \o b) = 1..m + n
      /\ \A i \in 1..m + n : (a \o b)[i] = IF i <= m THEN a[i] ELSE b[i - m]
    BY ConcatProperties
<1>2. ca \in Seq(Seq(C)) /\ cb \in Seq(Seq(C)) /\ c \in Seq(Seq(C))
    BY <1>1, CellListType DEF CellLists
<1>3. /\ DOMAIN ca = 1..m /\ \A i \in 1..m : ca[i] = EfCells(a[i])
      /\ DOMAIN cb = 1..n /\ \A i \in 1..n : cb[i] = EfCells(b[i])
      /\ DOMAIN c = 1..m + n /\ \A i \in 1..m + n : c[i] = EfCells((a \o b)[i])
    BY <1>1 DEF CellLists
<1> HIDE DEF ca, cb, c, m, n, C, F
<1>4. Len(ca) = m /\ Len(cb) = n /\ Len(c) = m + n
    BY ONLY <1>1, <1>2, <1>3
<1>5. /\ ca \o cb \in Seq(Seq(C)) /\ Len(ca \o cb) = m + n
      /\ \A i \in 1..m + n : (ca \o cb)[i] = IF i <= m THEN ca[i] ELSE cb[i - m]
    BY ONLY <1>2, <1>4, ConcatProperties
<1>6. ASSUME NEW i \in 1..m + n PROVE c[i] = (ca \o cb)[i]
  <2>1. CASE i <= m
    <3>1. i \in 1..m
      BY <1>1, <2>1
    <3>2. QED
      BY <1>1, <1>3, <1>5, <2>1, <3>1
  <2>2. CASE ~(i <= m)
    <3>1. i - m \in 1..n
      BY <1>1, <2>2
    <3>2. QED
      BY <1>1, <1>3, <1>5, <2>2, <3>1
  <2>3. QED
    BY <2>1, <2>2
<1>7. c = ca \o cb
  <2> DEFINE u == ca \o cb
  <2>1. u \in Seq(Seq(C)) /\ Len(u) = m + n /\ \A i \in 1..m + n : c[i] = u[i]
    BY <1>5, <1>6
  <2> HIDE DEF u
  <2>2. c = u
    BY <1>2, <1>4, <2>1
  <2>3. QED
    BY <2>2 DEF u
<1>8. FlattenSeq(ca \o cb) = FlattenSeq(ca) \o FlattenSeq(cb)
    BY <1>2, FlattenJoined
<1>9. QED
    BY <1>7, <1>8 DEF c, ca, cb

\* All of a list is picked, or, in RemoveInternal, all but what comes first.
LEMMA EfForAll ==
    ASSUME NEW S, NEW flags, NEW s \in Seq(S), \A i \in 1..Len(s) : s[i].for \cap flags # {}
    PROVE  EfFor(s, flags) = s
<1> DEFINE T == {t \in Seq(S) : (\A i \in 1..Len(t) : t[i].for \cap flags # {})
                                    => EfFor(t, flags) = t}
<1>1. <<>> \in T
  <2>1. EfFor(<<>>, flags) = <<>>
    BY PickedNil DEF EfFor
  <2>2. QED
    BY <2>1
<1>2. ASSUME NEW t \in Seq(S), NEW x \in S, t \in T PROVE Append(t, x) \in T
  <2> DEFINE u == Append(t, x)
             n == Len(t)
  <2>1. n \in Nat /\ u \in Seq(S) /\ Len(u) = n + 1 /\ u[n + 1] = x /\ \A i \in 1..n : u[i] = t[i]
    BY AppendProperties
  <2> HIDE DEF u
  <2>2. SUFFICES ASSUME \A i \in 1..n + 1 : u[i].for \cap flags # {} PROVE EfFor(u, flags) = u
    BY <2>1 DEF u
  <2>3. x.for \cap flags # {} /\ \A i \in 1..n : t[i].for \cap flags # {}
    <3>1. n + 1 \in 1..n + 1 /\ \A i \in 1..n : i \in 1..n + 1
      BY <2>1
    <3>2. QED
      BY <2>1, <2>2, <3>1, Zenon
  <2>4. EfFor(t, flags) = t
    BY <1>2, <2>3
  <2>5. QED
    BY <2>3, <2>4, EfForAppend DEF u
<1> HIDE DEF T
<1>3. Seq(S) \subseteq T
    BY <1>1, <1>2, ListInduction
<1>4. QED
    BY <1>3 DEF T

\* One more field stays unless it is internal.
LEMMA RemoveInternalAppend ==
    ASSUME NEW S, NEW s \in Seq(S), NEW x \in S
    PROVE  EfRemoveInternal(Append(s, x)) =
              IF x.id \notin Internal THEN Append(EfRemoveInternal(s), x) ELSE EfRemoveInternal(s)
<1> DEFINE t == Append(s, x)
           P == {i \in DOMAIN t : t[i].id \notin Internal}
           Q == {i \in DOMAIN s : s[i].id \notin Internal}
           n == Len(s)
<1>1. /\ n \in Nat /\ DOMAIN s = 1..n /\ DOMAIN t = 1..n + 1
      /\ t[n + 1] = x /\ \A i \in 1..n : t[i] = s[i]
    OBVIOUS
<1>2. \A i \in 1..n : i \in P <=> i \in Q
    BY <1>1
<1>3. n + 1 \in P <=> x.id \notin Internal
    BY <1>1
<1> HIDE DEF P, Q
<1>4. Picked(t, P) = IF n + 1 \in P THEN Append(Picked(s, Q), x) ELSE Picked(s, Q)
    BY <1>2, PickedAppend
<1>5. EfRemoveInternal(t) = Picked(t, P) /\ EfRemoveInternal(s) = Picked(s, Q)
    BY DEF EfRemoveInternal, P, Q
<1>6. QED
    BY <1>3, <1>4, <1>5

\* The fields libzip adds come first, and nothing else is removed.
LEMMA InternalFirst ==
    ASSUME NEW S, NEW a \in Seq(S), NEW b \in Seq(S),
           \A i \in 1..Len(a) : a[i].id \in Internal,
           \A i \in 1..Len(b) : b[i].id \notin Internal
    PROVE  EfRemoveInternal(a \o b) = b
<1> DEFINE T == {t \in Seq(S) : (\A i \in 1..Len(t) : t[i].id \in Internal)
                                    => EfRemoveInternal(t) = <<>>}
           U == {t \in Seq(S) : (\A i \in 1..Len(t) : t[i].id \notin Internal)
                                    => EfRemoveInternal(a \o t) = t}
<1>1. <<>> \in T
    BY PickedNil DEF EfRemoveInternal
<1>2. ASSUME NEW t \in Seq(S), NEW x \in S, t \in T PROVE Append(t, x) \in T
  <2> DEFINE u == Append(t, x)
             n == Len(t)
  <2>1. n \in Nat /\ u \in Seq(S) /\ Len(u) = n + 1 /\ u[n + 1] = x /\ \A i \in 1..n : u[i] = t[i]
    BY AppendProperties
  <2> HIDE DEF u
  <2>2. SUFFICES ASSUME \A i \in 1..n + 1 : u[i].id \in Internal
                 PROVE  EfRemoveInternal(u) = <<>>
    BY <2>1 DEF u
  <2>3. x.id \in Internal /\ \A i \in 1..n : t[i].id \in Internal
    <3>1. n + 1 \in 1..n + 1 /\ \A i \in 1..n : i \in 1..n + 1
      BY <2>1
    <3>2. QED
      BY <2>1, <2>2, <3>1, Zenon
  <2>4. EfRemoveInternal(t) = <<>>
    BY <1>2, <2>3
  <2>5. QED
    BY <2>3, <2>4, RemoveInternalAppend DEF u
<1>3. EfRemoveInternal(a) = <<>>
  <2> HIDE DEF T
  <2>1. Seq(S) \subseteq T
    BY <1>1, <1>2, ListInduction
  <2>2. QED
    BY <2>1 DEF T
<1>4. <<>> \in U
    BY <1>3
<1>5. ASSUME NEW t \in Seq(S), NEW x \in S, t \in U PROVE Append(t, x) \in U
  <2> DEFINE u == Append(t, x)
             n == Len(t)
  <2>1. n \in Nat /\ u \in Seq(S) /\ Len(u) = n + 1 /\ u[n + 1] = x /\ \A i \in 1..n : u[i] = t[i]
    BY AppendProperties
  <2>2. a \o u = Append(a \o t, x) /\ a \o t \in Seq(S)
    BY JoinAppend, ConcatProperties
  <2> HIDE DEF u
  <2>3. SUFFICES ASSUME \A i \in 1..n + 1 : u[i].id \notin Internal
                 PROVE  EfRemoveInternal(a \o u) = u
    BY <2>1 DEF u
  <2>4. x.id \notin Internal /\ \A i \in 1..n : t[i].id \notin Internal
    <3>1. n + 1 \in 1..n + 1 /\ \A i \in 1..n : i \in 1..n + 1
      BY <2>1
    <3>2. QED
      BY <2>1, <2>3, <3>1, Zenon
  <2>5. EfRemoveInternal(a \o t) = t
    BY <1>5, <2>4
  <2>6. QED
    BY <2>2, <2>4, <2>5, RemoveInternalAppend DEF u
<1> HIDE DEF T, U
<1>6. Seq(S) \subseteq U
    BY <1>4, <1>5, ListInduction
<1>7. QED
    BY <1>6 DEF U

\* Something is picked if there is something to pick.
LEMMA PickedSome ==
    ASSUME NEW S, NEW s \in Seq(S), NEW P \in SUBSET Nat, NEW p \in 1..Len(s), p \in P
    PROVE  Picked(s, P) # <<>>
<1> DEFINE T == {t \in Seq(S) : (\E i \in 1..Len(t) : i \in P) => Picked(t, P) # <<>>}
<1>1. <<>> \in T
    OBVIOUS
<1>2. ASSUME NEW t \in Seq(S), NEW x \in S, t \in T PROVE Append(t, x) \in T
  <2> DEFINE u == Append(t, x)
             n == Len(t)
  <2>1. n \in Nat /\ u \in Seq(S) /\ Len(u) = n + 1
    BY AppendProperties
  <2>2. Picked(u, P) = IF n + 1 \in P THEN Append(Picked(t, P), x) ELSE Picked(t, P)
    BY PickedAppend
  <2>3. Picked(t, P) \in Seq(S)
    BY PickedType
  <2> HIDE DEF u
  <2>4. SUFFICES ASSUME NEW i \in 1..n + 1, i \in P PROVE Picked(u, P) # <<>>
    BY <2>1 DEF u
  <2>5. CASE n + 1 \in P
    <3>1. Append(Picked(t, P), x) # <<>>
      BY <2>3, AppendProperties
    <3>2. QED
      BY <2>2, <2>5, <3>1
  <2>6. CASE n + 1 \notin P
    <3>1. i \in 1..n
      BY <2>1, <2>4, <2>6
    <3>2. Picked(t, P) # <<>>
      BY <1>2, <2>4, <3>1
    <3>3. QED
      BY <2>2, <2>6, <3>2
  <2>7. QED
    BY <2>5, <2>6
<1> HIDE DEF T
<1>3. Seq(S) \subseteq T
    BY <1>1, <1>2, ListInduction
<1>4. QED
    BY <1>3 DEF T

\* A field that is there once is the one that is found, and one that is not
\* there is not.
OnlyAt(efs, id, flags, p) ==
    /\ efs[p].id = id /\ efs[p].for \cap flags # {}
    /\ \A j \in 1..Len(efs) : efs[j].id = id => j = p

\* A field that is there once is the one that is found.
LEMMA FoundOnce ==
    ASSUME NEW S, NEW efs \in Seq(S), NEW id, NEW flags, NEW p \in 1..Len(efs),
           OnlyAt(efs, id, flags, p)
    PROVE  EfHas(efs, id, flags) /\ EfGet(efs, id, flags) = efs[p].vals
<1> USE DEF OnlyAt
<1> DEFINE n == Len(efs)
           at == [i \in DOMAIN efs |-> i]
           P == {i \in DOMAIN efs : efs[i].id \in {id} /\ efs[i].for \cap flags # {}}
           ps == EfPlaces(efs, {id}, flags)
<1>1. n \in Nat /\ DOMAIN efs = 1..n
    OBVIOUS
<1>2. at \in [1..n -> 1..n] /\ P \in SUBSET Nat /\ p \in P /\ ps = Picked(at, P)
    BY <1>1 DEF EfPlaces
<1> HIDE DEF at, P
<1>3. at \in Seq(1..n) /\ Len(at) = n
  <2> HIDE DEF n
  <2>1. QED
    BY ONLY <1>1, <1>2
<1>4. ps # <<>> /\ ps \in Seq(1..n)
    BY <1>2, <1>3, PickedSome, PickedType
<1> HIDE DEF ps
<1>5. 1 \in DOMAIN ps
    BY <1>4
<1>6. ps[1] \in 1..n /\ efs[ps[1]].id \in {id}
    BY <1>5, PlacesMatch DEF ps
<1>7. ps[1] = p
    BY <1>6
<1>8. QED
    BY <1>4, <1>7 DEF EfHas, EfGet, ps

\* A field that is not there is not found.
LEMMA FoundNot ==
    ASSUME NEW S, NEW efs \in Seq(S), NEW id, NEW flags,
           \A j \in 1..Len(efs) : efs[j].id # id
    PROVE  ~EfHas(efs, id, flags)
<1> DEFINE n == Len(efs)
           at == [i \in DOMAIN efs |-> i]
           ps == EfPlaces(efs, {id}, flags)
<1>1. n \in Nat /\ DOMAIN efs = 1..n
    OBVIOUS
<1>2. at \in [1..n -> 1..n]
    BY <1>1
<1>3. at \in Seq(1..n)
  <2> HIDE DEF n, at
  <2>1. QED
    BY ONLY <1>1, <1>2
<1>4. ps \in Seq(1..n)
    BY <1>3, PickedType DEF EfPlaces
<1> HIDE DEF ps
<1>5. ASSUME ps # <<>> PROVE FALSE
  <2>1. 1 \in DOMAIN ps
    BY <1>4, <1>5
  <2>2. ps[1] \in 1..n /\ efs[ps[1]].id \in {id}
    BY <2>1, PlacesMatch DEF ps
  <2>3. QED
    BY <2>2
<1>6. QED
    BY <1>5 DEF EfHas, ps

-----------------------------------------------------------------------------
(* The fields that _zip_dirent_write adds.                                 *)

Opt(b, x) == IF b THEN <<x>> ELSE <<>>
One(b) == IF b THEN 1 ELSE 0

LEMMA OptType ==
    ASSUME NEW S, NEW x \in S, NEW b \in BOOLEAN
    PROVE  Opt(b, x) \in Seq(S) /\ Len(Opt(b, x)) = One(b) /\ (b => Opt(b, x)[1] = x)
<1>1. CASE b
  <2>1. Opt(b, x) = <<x>> /\ One(b) = 1
    BY <1>1 DEF Opt, One
  <2>2. QED
    BY <2>1
<1>2. CASE ~b
  <2>1. Opt(b, x) = <<>> /\ One(b) = 0
    BY <1>2 DEF Opt, One
  <2>2. QED
    BY <1>2, <2>1
<1>3. QED
    BY <1>1, <1>2

\* Where the elements of a list are that has at most three.
AtMostThree(s, a, x, b, y, c, z) ==
    /\ Len(s) = One(a) + One(b) + One(c)
    /\ a => 1 \in 1..Len(s) /\ s[1] = x
    /\ b => One(a) + 1 \in 1..Len(s) /\ s[One(a) + 1] = y
    /\ c => One(a) + One(b) + 1 \in 1..Len(s) /\ s[One(a) + One(b) + 1] = z
    /\ \A i \in 1..Len(s) : \/ a /\ i = 1
                            \/ b /\ i = One(a) + 1
                            \/ c /\ i = One(a) + One(b) + 1

\* A list of at most three, each there or not, and where each of them is.
LEMMA ThreeJoined ==
    ASSUME NEW S, NEW x \in S, NEW y \in S, NEW z \in S,
           NEW a \in BOOLEAN, NEW b \in BOOLEAN, NEW c \in BOOLEAN
    PROVE  AtMostThree(Opt(a, x) \o (Opt(b, y) \o Opt(c, z)), a, x, b, y, c, z)
<1> DEFINE p == Opt(a, x)
           q == Opt(b, y)
           r == Opt(c, z)
           t == q \o r
           s == p \o t
           A == One(a)
           B == One(b)
           C == One(c)
<1>1. /\ p \in Seq(S) /\ Len(p) = A /\ (a => p[1] = x)
      /\ q \in Seq(S) /\ Len(q) = B /\ (b => q[1] = y)
      /\ r \in Seq(S) /\ Len(r) = C /\ (c => r[1] = z)
    BY OptType
<1>2. /\ A \in {0, 1} /\ (a <=> A = 1)
      /\ B \in {0, 1} /\ (b <=> B = 1)
      /\ C \in {0, 1} /\ (c <=> C = 1)
    BY DEF One
<1> HIDE DEF p, q, r, A, B, C
<1>3. /\ t \in Seq(S) /\ Len(t) = B + C
      /\ \A i \in 1..B + C : t[i] = IF i <= B THEN q[i] ELSE r[i - B]
    BY ONLY <1>1, ConcatProperties
<1> HIDE DEF t
<1>4. /\ s \in Seq(S) /\ Len(s) = A + (B + C)
      /\ \A i \in 1..A + (B + C) : s[i] = IF i <= A THEN p[i] ELSE t[i - A]
  <2>1. p \in Seq(S) /\ t \in Seq(S)
    BY <1>1, <1>3
  <2>2. /\ s \in Seq(S) /\ Len(s) = Len(p) + Len(t)
        /\ \A i \in 1..Len(p) + Len(t) : s[i] = IF i <= Len(p) THEN p[i] ELSE t[i - Len(p)]
    BY ONLY <2>1, ConcatProperties
  <2> HIDE DEF s
  <2>3. Len(p) = A /\ Len(t) = B + C
    BY <1>1, <1>3
  <2>4. QED
    BY ONLY <2>2, <2>3
<1> HIDE DEF s
<1>5. Len(s) = A + B + C
    BY <1>2, <1>4
<1>6. ASSUME a PROVE 1 \in 1..Len(s) /\ s[1] = x
    BY <1>1, <1>2, <1>4, <1>6
<1>7. ASSUME b PROVE A + 1 \in 1..Len(s) /\ s[A + 1] = y
  <2>1. A + 1 \in 1..A + (B + C) /\ ~(A + 1 <= A) /\ (A + 1) - A = 1 /\ 1 \in 1..B + C /\ 1 <= B
    BY <1>2, <1>7
  <2>2. s[A + 1] = t[1] /\ t[1] = q[1]
    BY <1>3, <1>4, <2>1
  <2>3. QED
    BY <1>1, <1>4, <1>7, <2>1, <2>2
<1>8. ASSUME c PROVE A + B + 1 \in 1..Len(s) /\ s[A + B + 1] = z
  <2>1. /\ A + B + 1 \in 1..A + (B + C) /\ ~(A + B + 1 <= A) /\ (A + B + 1) - A = B + 1
        /\ B + 1 \in 1..B + C /\ ~(B + 1 <= B) /\ (B + 1) - B = 1
    BY <1>2, <1>8
  <2>2. s[A + B + 1] = t[B + 1] /\ t[B + 1] = r[1]
    BY <1>3, <1>4, <2>1
  <2>3. QED
    BY <1>1, <1>4, <1>8, <2>1, <2>2
<1>9. \A i \in 1..Len(s) : (a /\ i = 1) \/ (b /\ i = A + 1) \/ (c /\ i = A + B + 1)
    BY <1>2, <1>5
<1>10. AtMostThree(s, a, x, b, y, c, z)
    BY <1>5, <1>6, <1>7, <1>8, <1>9 DEF AtMostThree, A, B, C
<1>11. QED
    BY <1>10 DEF s, t, p, q, r

\* When a text is given a field of its own.
NameField(de) == ~Utf8Bit(de) /\ de.name.enc = "utf8"
CommentField(de, flags) == ~Utf8Bit(de) /\ de.comment.enc = "utf8" /\ ~IsLocal(flags)

\* Each of the fields is there at most once, and if it is needed.
InternalIs(s, de, flags) ==
    /\ \A i \in 1..Len(s) :
          /\ s[i].id \in Internal /\ s[i].for = flags
          /\ s[i].id = "zip64" => WritesZip64(de, flags) /\ s[i].vals = Zip64Values(de, flags)
          /\ s[i].id = "uname" => NameField(de) /\ s[i].vals = <<de.name.v, de.name.v>>
          /\ s[i].id = "ucomment" =>
                CommentField(de, flags) /\ s[i].vals = <<de.comment.v, de.comment.v>>
    /\ \A i, j \in 1..Len(s) : s[i].id = s[j].id => i = j
    /\ WritesZip64(de, flags) => \E i \in 1..Len(s) : s[i].id = "zip64"
    /\ NameField(de) => \E i \in 1..Len(s) : s[i].id = "uname"
    /\ CommentField(de, flags) => \E i \in 1..Len(s) : s[i].id = "ucomment"

\* Which fields libzip adds, each at most once, and what they hold.
LEMMA InternalFieldsAre ==
    ASSUME NEW de, NEW flags \in SUBSET Kinds
    PROVE  InternalIs(InternalFields(de, flags), de, flags)
<1> DEFINE S == Fields(Internal, Held(de))
           x == [id |-> "zip64", vals |-> Zip64Values(de, flags), for |-> flags]
           y == [id |-> "ucomment", vals |-> <<de.comment.v, de.comment.v>>, for |-> flags]
           z == [id |-> "uname", vals |-> <<de.name.v, de.name.v>>, for |-> flags]
           a == WritesZip64(de, flags)
           b == CommentField(de, flags)
           c == NameField(de)
           s == InternalFields(de, flags)
           T == {x, y, z}
<1>1. a \in BOOLEAN /\ b \in BOOLEAN /\ c \in BOOLEAN /\ x \in T /\ y \in T /\ z \in T
    BY Zenon DEF WritesZip64, CommentField, NameField
<1>2. s = Opt(a, x) \o (Opt(b, y) \o Opt(c, z))
  <2>1. <<>> \o <<>> = <<>>
    OBVIOUS
  <2>2. QED
    BY <2>1 DEF InternalFields, Utf8Fields, EfUtf8, Opt, CommentField, NameField
<1>3. /\ x.id = "zip64" /\ x.vals = Zip64Values(de, flags) /\ x.for = flags
      /\ y.id = "ucomment" /\ y.vals = <<de.comment.v, de.comment.v>> /\ y.for = flags
      /\ z.id = "uname" /\ z.vals = <<de.name.v, de.name.v>> /\ z.for = flags
    OBVIOUS
<1> HIDE DEF x, y, z, a, b, c, s, T
<1>4. AtMostThree(s, a, x, b, y, c, z)
    BY <1>1, <1>2, ThreeJoined
<1> DEFINE A == One(a)
           B == One(b)
<1>5. A \in Nat /\ B \in Nat /\ (a => A = 1) /\ (b => B = 1)
    BY DEF One
<1>6. /\ a => 1 \in 1..Len(s) /\ s[1] = x
      /\ b => A + 1 \in 1..Len(s) /\ s[A + 1] = y
      /\ c => A + B + 1 \in 1..Len(s) /\ s[A + B + 1] = z
      /\ \A i \in 1..Len(s) : (a /\ i = 1) \/ (b /\ i = A + 1) \/ (c /\ i = A + B + 1)
    BY <1>4 DEF AtMostThree
<1> HIDE DEF A, B
<1>7. \A i \in 1..Len(s) :
          \/ a /\ i = 1 /\ s[i] = x
          \/ b /\ i = A + 1 /\ s[i] = y
          \/ c /\ i = A + B + 1 /\ s[i] = z
    BY <1>6
<1>8. ASSUME NEW i \in 1..Len(s)
      PROVE  /\ s[i].id \in Internal /\ s[i].for = flags
             /\ s[i].id = "zip64" => a /\ s[i].vals = Zip64Values(de, flags)
             /\ s[i].id = "uname" => c /\ s[i].vals = <<de.name.v, de.name.v>>
             /\ s[i].id = "ucomment" => b /\ s[i].vals = <<de.comment.v, de.comment.v>>
    BY <1>3, <1>7 DEF Internal
<1>9. ASSUME NEW i \in 1..Len(s), NEW j \in 1..Len(s), s[i].id = s[j].id PROVE i = j
    BY <1>3, <1>7, <1>9
<1>10. /\ a => \E i \in 1..Len(s) : s[i].id = "zip64"
       /\ c => \E i \in 1..Len(s) : s[i].id = "uname"
       /\ b => \E i \in 1..Len(s) : s[i].id = "ucomment"
    BY <1>3, <1>6
<1>11. InternalIs(s, de, flags)
    BY <1>8, <1>9, <1>10 DEF InternalIs, a, b, c
<1>12. QED
    BY <1>11 DEF s

\* Lists of fields over more ids and values.
LEMMA FieldsGrow ==
    ASSUME NEW I, NEW V, NEW J, NEW W, I \subseteq J, V \subseteq W, NEW s \in Seq(Fields(I, V))
    PROVE  s \in Seq(Fields(J, W))
<1>1. Seq(V) \subseteq Seq(W)
    BY SeqMonotonic
<1>2. Fields(I, V) \subseteq Fields(J, W)
    BY <1>1 DEF Fields
<1>3. QED
    BY <1>2, SeqMonotonic

\* What reading the fields of a header gives.
FieldsRead(efs, de, flags) ==
    /\ EfHas(efs, "zip64", flags) <=> WritesZip64(de, flags)
    /\ WritesZip64(de, flags) => EfGet(efs, "zip64", flags) = Zip64Values(de, flags)
    /\ EfHas(efs, "uname", flags) <=> NameField(de)
    /\ NameField(de) => EfGet(efs, "uname", flags) = <<de.name.v, de.name.v>>
    /\ EfHas(efs, "ucomment", flags) <=> CommentField(de, flags)
    /\ CommentField(de, flags) => EfGet(efs, "ucomment", flags) = <<de.comment.v, de.comment.v>>
    /\ EfRemoveInternal(efs) = Marked(EfFor(de.efs, flags), flags)

\* What is found of one id, in the internal fields a followed by others.
FoundAs(efs, id, flags, wanted, vals) ==
    (EfHas(efs, id, flags) <=> wanted) /\ (wanted => EfGet(efs, id, flags) = vals)

AmongFirst(efs, id, flags, m, wanted, vals) ==
    /\ m \in Nat /\ m <= Len(efs) /\ wanted \in BOOLEAN
    /\ \A i \in 1..Len(efs) : efs[i].for = flags
    /\ \A i \in 1..Len(efs) : i > m => efs[i].id # id
    /\ \A i, j \in 1..m : efs[i].id = efs[j].id => i = j
    /\ wanted => \E i \in 1..m : efs[i].id = id
    /\ \A i \in 1..m : efs[i].id = id => wanted /\ efs[i].vals = vals

\* Such a field is found exactly if it was written.
LEMMA FoundInternal ==
    ASSUME NEW S, NEW efs \in Seq(S), NEW id, NEW flags, flags # {}, NEW m,
           NEW wanted, NEW vals, AmongFirst(efs, id, flags, m, wanted, vals)
    PROVE  FoundAs(efs, id, flags, wanted, vals)
<1> USE DEF AmongFirst
<1>1. Len(efs) \in Nat
    OBVIOUS
<1>2. CASE wanted
  <2>1. PICK p \in 1..m : efs[p].id = id
    BY <1>2
  <2>2. p \in 1..Len(efs) /\ efs[p].for \cap flags # {} /\ efs[p].vals = vals
    BY <1>1, <2>1
  <2>3. ASSUME NEW j \in 1..Len(efs), efs[j].id = id PROVE j = p
    <3>1. j \in 1..m
      BY <1>1, <2>3
    <3>2. QED
      BY <2>1, <2>3, <3>1
  <2>4. OnlyAt(efs, id, flags, p)
    BY <2>1, <2>2, <2>3 DEF OnlyAt
  <2>5. EfHas(efs, id, flags) /\ EfGet(efs, id, flags) = efs[p].vals
    BY <2>2, <2>4, FoundOnce
  <2>6. QED
    BY <1>2, <2>2, <2>5 DEF FoundAs
<1>3. CASE ~wanted
  <2>1. ASSUME NEW j \in 1..Len(efs) PROVE efs[j].id # id
    <3>1. CASE j > m
      BY <3>1
    <3>2. CASE ~(j > m)
      <4>1. j \in 1..m
        BY <1>1, <3>2
      <4>2. QED
        BY <1>3, <4>1
    <3>3. QED
      BY <3>1, <3>2
  <2>2. ~EfHas(efs, id, flags)
    BY <2>1, FoundNot
  <2>3. QED
    BY <1>3, <2>2 DEF FoundAs
<1>4. QED
    BY <1>2, <1>3

\* The fields of a header are read as they were written: those libzip added
\* are found, those of the caller are left.
LEMMA HeaderParsed ==
    ASSUME NEW de, de.efs \in Seq(Fields({"x", "y"}, Units)), NEW flags \in {Local, Central}
    PROVE  \E efs : /\ EfParse(HeaderFields(de, flags), flags) = [ok |-> TRUE, efs |-> efs]
                    /\ FieldsRead(efs, de, flags)
<1> DEFINE I == Internal \cup {"x", "y"}
           V == Held(de) \cup Units
           F == Fields(I, V)
           a == InternalFields(de, flags)
           b == EfFor(de.efs, flags)
           s == a \o b
           L == Marked(s, flags)
           m == Len(a)
           n == Len(s)
<1>1. flags \in SUBSET Kinds /\ flags # {}
    BY DEF Local, Central, Kinds
<1>2. a \in Seq(Fields(Internal, Held(de))) /\ b \in Seq(Fields({"x", "y"}, Units))
    BY <1>1, InternalType, EfForType
<1>3. a \in Seq(F) /\ b \in Seq(F)
  <2>1. /\ Internal \subseteq I /\ {"x", "y"} \subseteq I
        /\ Held(de) \subseteq V /\ Units \subseteq V
    OBVIOUS
  <2> HIDE DEF I, V, a, b
  <2>2. QED
    BY <1>2, <2>1, FieldsGrow
<1>4. InternalIs(a, de, flags)
    BY <1>1, InternalFieldsAre
<1>5. ASSUME NEW i \in 1..Len(b) PROVE b[i].id \in {"x", "y"}
  <2>1. b[i] \in Fields({"x", "y"}, Units)
    BY <1>2
  <2>2. QED
    BY <2>1 DEF Fields
<1>6. EfFor(a, flags) = a
  <2>1. \A i \in 1..Len(a) : a[i].for \cap flags # {}
    BY <1>1, <1>4 DEF InternalIs
  <2> HIDE DEF a, F
  <2>2. QED
    BY <1>3, <2>1, EfForAll
<1>7. EfParse(HeaderFields(de, flags), flags) = [ok |-> TRUE, efs |-> L]
  <2>1. HeaderFields(de, flags) = FlattenSeq(CellLists(a)) \o FlattenSeq(CellLists(b))
    BY <1>6 DEF HeaderFields, EfWrite, CellLists
  <2> HIDE DEF a, b, I, V
  <2>2. HeaderFields(de, flags) = FlattenSeq(CellLists(s))
    BY <1>3, <2>1, CellListsJoined
  <2>3. s \in Seq(F)
    BY <1>3, ConcatProperties
  <2> HIDE DEF s
  <2>4. QED
    BY <1>1, <2>2, <2>3, FieldsParsed DEF CellLists
<1>8. /\ s \in Seq(F) /\ n = m + Len(b) /\ m \in Nat /\ Len(b) \in Nat
      /\ \A i \in 1..m + Len(b) : s[i] = IF i <= m THEN a[i] ELSE b[i - m]
  <2> HIDE DEF a, b, F
  <2>1. QED
    BY ONLY <1>3, ConcatProperties, LenProperties
<1> HIDE DEF a, b, s, I, V
<1>9. L \in Seq(F) /\ Len(L) = n
    BY <1>1, <1>8, MarkedType
<1>10. \A i \in 1..n : L[i].id = s[i].id /\ L[i].vals = s[i].vals /\ L[i].for = flags
  <2>1. DOMAIN s = 1..n
    BY <1>8
  <2>2. QED
    BY <2>1 DEF Marked
<1>11. ASSUME NEW i \in 1..m
       PROVE  i \in 1..n /\ L[i].id = a[i].id /\ L[i].vals = a[i].vals
  <2>1. i \in 1..n /\ i \in 1..m + Len(b) /\ i <= m
    BY <1>8
  <2>2. s[i] = a[i]
    BY <1>8, <2>1
  <2>3. QED
    BY <1>10, <2>1, <2>2
<1>12. ASSUME NEW i \in 1..n, i > m PROVE L[i].id \in {"x", "y"}
  <2>1. i \in 1..m + Len(b) /\ ~(i <= m) /\ i - m \in 1..Len(b)
    BY <1>8, <1>12
  <2>2. s[i] = b[i - m]
    BY <1>8, <2>1
  <2>3. QED
    BY <1>5, <1>10, <2>1, <2>2
<1> HIDE DEF L, F, n, m
<1>13. m <= n /\ m \in Nat
    BY <1>8
<1>14. \A i, j \in 1..m : L[i].id = L[j].id => i = j
    BY <1>4, <1>11 DEF InternalIs, m
<1>15. ASSUME NEW id \in Internal, NEW wanted \in BOOLEAN, NEW vals,
              wanted => \E i \in 1..m : a[i].id = id,
              \A i \in 1..m : a[i].id = id => wanted /\ a[i].vals = vals
       PROVE  FoundAs(L, id, flags, wanted, vals)
  <2>1. \A i \in 1..Len(L) : i > m => L[i].id # id
    BY <1>9, <1>12 DEF Internal
  <2>2. wanted => \E i \in 1..m : L[i].id = id
    BY <1>11, <1>15
  <2>3. \A i \in 1..m : L[i].id = id => wanted /\ L[i].vals = vals
    BY <1>11, <1>15
  <2>4. \A i \in 1..Len(L) : L[i].for = flags
    BY <1>9, <1>10
  <2>5. m <= Len(L)
    BY <1>9, <1>13
  <2>6. AmongFirst(L, id, flags, m, wanted, vals)
    BY <1>13, <1>14, <2>1, <2>2, <2>3, <2>4, <2>5 DEF AmongFirst
  <2>7. QED
    BY <1>1, <1>9, <2>6, FoundInternal
<1>16. FoundAs(L, "zip64", flags, WritesZip64(de, flags), Zip64Values(de, flags))
  <2>1. WritesZip64(de, flags) \in BOOLEAN /\ "zip64" \in Internal
    BY Zenon DEF WritesZip64, Internal
  <2>2. QED
    BY <1>4, <1>15, <2>1 DEF InternalIs, m
<1>17. FoundAs(L, "uname", flags, NameField(de), <<de.name.v, de.name.v>>)
  <2>1. NameField(de) \in BOOLEAN /\ "uname" \in Internal
    BY Zenon DEF NameField, Internal
  <2>2. QED
    BY <1>4, <1>15, <2>1 DEF InternalIs, m
<1>18. FoundAs(L, "ucomment", flags, CommentField(de, flags), <<de.comment.v, de.comment.v>>)
  <2>1. CommentField(de, flags) \in BOOLEAN /\ "ucomment" \in Internal
    BY Zenon DEF CommentField, Internal
  <2>2. QED
    BY <1>4, <1>15, <2>1 DEF InternalIs, m
<1>19. EfRemoveInternal(L) = Marked(b, flags)
  <2> DEFINE p == Marked(a, flags)
             q == Marked(b, flags)
  <2>1. p \in Seq(F) /\ Len(p) = m /\ q \in Seq(F) /\ Len(q) = Len(b)
    BY <1>1, <1>3, MarkedType DEF F, m
  <2>2. DOMAIN a = 1..m /\ DOMAIN b = 1..Len(b) /\ DOMAIN s = 1..n
    BY <1>3, <1>8 DEF m, n
  <2>3. /\ \A i \in 1..m : p[i] = [id |-> a[i].id, vals |-> a[i].vals, for |-> flags]
        /\ \A i \in 1..Len(b) : q[i] = [id |-> b[i].id, vals |-> b[i].vals, for |-> flags]
        /\ \A i \in 1..n : L[i] = [id |-> s[i].id, vals |-> s[i].vals, for |-> flags]
    BY <2>2 DEF Marked, L
  <2> HIDE DEF p, q
  <2>4. /\ p \o q \in Seq(F) /\ Len(p \o q) = n
        /\ \A i \in 1..n : (p \o q)[i] = IF i <= m THEN p[i] ELSE q[i - m]
    BY <1>8, <2>1, ConcatProperties
  <2>5. ASSUME NEW i \in 1..n PROVE L[i] = (p \o q)[i]
    <3>1. CASE i <= m
      <4>1. i \in 1..m /\ s[i] = a[i]
        BY <1>8, <3>1
      <4>2. QED
        BY <2>3, <2>4, <3>1, <4>1
    <3>2. CASE ~(i <= m)
      <4>1. i - m \in 1..Len(b) /\ s[i] = b[i - m]
        BY <1>8, <3>2
      <4>2. QED
        BY <2>3, <2>4, <3>2, <4>1
    <3>3. QED
      BY <3>1, <3>2
  <2>6. L = p \o q
    <3> DEFINE u == p \o q
    <3>1. u \in Seq(F) /\ Len(u) = n /\ \A i \in 1..n : L[i] = u[i]
      BY <2>4, <2>5
    <3> HIDE DEF u
    <3>2. L = u
      BY <1>9, <3>1
    <3>3. QED
      BY <3>2 DEF u
  <2>7. \A i \in 1..Len(p) : p[i].id \in Internal
    <3>1. ASSUME NEW i \in 1..m PROVE p[i].id = a[i].id
      <4>1. p[i] = [id |-> a[i].id, vals |-> a[i].vals, for |-> flags]
        BY ONLY <2>3
      <4>2. QED
        BY ONLY <4>1
    <3>2. \A i \in 1..m : a[i].id \in Internal
      BY <1>4 DEF InternalIs, m
    <3>3. QED
      BY ONLY <2>1, <3>1, <3>2
  <2>8. \A i \in 1..Len(q) : q[i].id \notin Internal
    <3>1. ASSUME NEW i \in 1..Len(b) PROVE q[i].id = b[i].id
      <4>1. q[i] = [id |-> b[i].id, vals |-> b[i].vals, for |-> flags]
        BY ONLY <2>3
      <4>2. QED
        BY ONLY <4>1
    <3>2. \A i \in 1..Len(b) : b[i].id \notin Internal
      BY <1>5 DEF Internal
    <3>3. QED
      BY ONLY <2>1, <3>1, <3>2
  <2>9. EfRemoveInternal(p \o q) = q
    BY <2>1, <2>7, <2>8, InternalFirst
  <2>10. QED
    BY <2>6, <2>9 DEF q
<1>20. FieldsRead(L, de, flags)
    BY <1>16, <1>17, <1>18, <1>19 DEF FoundAs, FieldsRead, b
<1>21. QED
    BY <1>7, <1>20

\* Texts.  Nothing is ASCII.
LEMMA GuessNil == Guess(<<>>) = "ascii"
<1> DEFINE v == <<>>
           seq(i) == /\ v[i] \in DOMAIN Lead
                     /\ i + Lead[v[i]] <= Len(v)
                     /\ \A j \in i + 1..i + Lead[v[i]] : v[j] = "c"
           Loop(f) == f = [i \in 1..Len(v) + 1 |->
                            IF i > Len(v) THEN "ascii"
                            ELSE IF v[i] = "a" THEN f[i + 1]
                            ELSE IF ~seq(i) \/ f[i + Lead[v[i]] + 1] = "cp437" THEN "cp437"
                            ELSE "guessed"]
           e == [i \in 1..1 |-> "ascii"]
           f == CHOOSE f : Loop(f)
<1>1. Len(v) = 0 /\ Len(v) + 1 = 1
    OBVIOUS
<1>2. Guess(v) = f[1]
    BY DEF Guess
<1>3. \A i \in 1..Len(v) + 1 : i > Len(v)
    BY <1>1
<1> HIDE DEF v, seq
<1>4. Loop(e)
    BY <1>1, <1>3
<1>5. Loop(f)
    BY <1>4
<1> HIDE DEF f
<1>6. 1 \in 1..Len(v) + 1
    BY <1>1
<1>7. f[1] = "ascii"
    BY <1>3, <1>5, <1>6
<1>8. QED
    BY <1>2, <1>7 DEF v

\* A text that may be written under bit 11 is read under it, as UTF-8 if it
\* was known to be.
TextRead(t, r) == r.v = t.v /\ r.enc # "error" /\ (t.enc = "utf8" => r.enc = "utf8")

\* What is known of a text that _zip_string_new has accepted.
LEMMA AcceptedText ==
    ASSUME NEW t, Accepted(t)
    PROVE  /\ t.v = <<>> => t.enc = "ascii"
           /\ t.enc = "utf8" => GuessEncoding([v |-> t.v, enc |-> "unknown"], "utf8") = "utf8"
           /\ t.enc = "ascii" => Guess(t.v) = "ascii"
<1>1. PICK e \in {"unknown", "utf8", "cp437"} : t = StringNew(t.v, e)
    BY DEF Accepted
<1>2. CASE t.v = <<>>
  <2>1. t.enc = "ascii"
    BY <1>1, <1>2 DEF StringNew, NoText
  <2>2. QED
    BY <1>2, <2>1, GuessNil
<1>3. CASE t.v # <<>>
  <2>1. t.enc = IF e = "unknown" THEN "unknown"
                ELSE GuessEncoding([v |-> t.v, enc |-> "unknown"], e)
    BY <1>1, <1>3 DEF StringNew
  <2>2. QED
    BY <1>1, <1>3, <2>1 DEF GuessEncoding
<1>4. QED
    BY <1>2, <1>3

\* A text that is marked as UTF-8 is read as what it was.
LEMMA ReadUnderBit ==
    ASSUME NEW t, Accepted(t), GuessEncoding(t, "unknown") \in {"ascii", "utf8"}
    PROVE  TextRead(t, ReadString(t.v, TRUE))
<1>1. /\ t.v = <<>> => t.enc = "ascii"
      /\ t.enc = "utf8" => GuessEncoding([v |-> t.v, enc |-> "unknown"], "utf8") = "utf8"
      /\ t.enc = "ascii" => Guess(t.v) = "ascii"
    BY AcceptedText
<1>2. GuessEncoding([v |-> t.v, enc |-> "unknown"], "utf8") # "error"
  <2>1. CASE t.enc = "utf8"
    BY <1>1, <2>1
  <2>2. CASE t.enc = "ascii"
    BY <1>1, <2>2 DEF GuessEncoding
  <2>3. CASE t.enc \notin {"ascii", "utf8"}
    BY <2>3 DEF GuessEncoding
  <2>4. QED
    BY <2>1, <2>2, <2>3
<1>3. QED
    BY <1>1, <1>2 DEF TextRead, ReadString

\* Without it nothing is known, unless there is a field for the text.
LEMMA ReadPlain ==
    ASSUME NEW v
    PROVE  ReadString(v, FALSE).v = v /\ ReadString(v, FALSE).enc # "error"
BY DEF ReadString, StringNew, NoText

\* The values of a central ZIP64 field.
ThreePicked(x, y, z, P) ==
    Picked(<<x, y, z>>, P) = Opt(1 \in P, x) \o (Opt(2 \in P, y) \o Opt(3 \in P, z))

\* The choice among the three values of a ZIP64 field.
LEMMA PickedThree ==
    ASSUME NEW S, NEW x \in S, NEW y \in S, NEW z \in S, NEW P
    PROVE  ThreePicked(x, y, z, P)
<1> DEFINE s1 == Append(<<>>, x)
           s2 == Append(s1, y)
           s3 == Append(s2, z)
<1>1. <<>> \in Seq(S) /\ s1 \in Seq(S) /\ s2 \in Seq(S)
    OBVIOUS
<1>2. Len(s1) = 1 /\ Len(s2) = 2 /\ Len(<<>>) = 0
    OBVIOUS
<1>3. <<x, y, z>> = s3
    OBVIOUS
<1> DEFINE Next1(t, s, k, u) ==
              Picked(t, P) = IF k \in P THEN Append(Picked(s, P), u) ELSE Picked(s, P)
<1>20. ASSUME NEW s \in Seq(S), NEW u \in S PROVE Next1(Append(s, u), s, Len(s) + 1, u)
    BY PickedAppend
<1>21. Next1(s1, <<>>, Len(<<>>) + 1, x) /\ Next1(s2, s1, Len(s1) + 1, y) /\ Next1(s3, s2, Len(s2) + 1, z)
  <2> HIDE DEF Next1
  <2>1. QED
    BY <1>1, <1>20
<1>22. Len(<<>>) + 1 = 1 /\ Len(s1) + 1 = 2 /\ Len(s2) + 1 = 3
    BY <1>2
<1> HIDE DEF s1, s2, s3
<1>4. Picked(s3, P) = IF 3 \in P THEN Append(Picked(s2, P), z) ELSE Picked(s2, P)
    BY ONLY <1>21, <1>22
<1>5. Picked(s2, P) = IF 2 \in P THEN Append(Picked(s1, P), y) ELSE Picked(s1, P)
    BY ONLY <1>21, <1>22
<1>6. Picked(s1, P) = IF 1 \in P THEN Append(<<>>, x) ELSE <<>>
  <2>1. Picked(s1, P) = IF 1 \in P THEN Append(Picked(<<>>, P), x) ELSE Picked(<<>>, P)
    BY ONLY <1>21, <1>22
  <2>2. QED
    BY ONLY <2>1, PickedNil, Zenon
<1>7. Append(<<>>, x) = <<x>> /\ Append(<<>>, y) = <<y>> /\ Append(<<>>, z) = <<z>>
    OBVIOUS
<1>8. /\ Append(<<x>>, y) = <<x>> \o <<y>> /\ Append(<<x>>, z) = <<x>> \o <<z>>
      /\ Append(<<y>>, z) = <<y>> \o <<z>>
      /\ Append(<<x>> \o <<y>>, z) = <<x>> \o (<<y>> \o <<z>>)
  <2>1. <<x>> \in Seq(S) /\ <<y>> \in Seq(S) /\ <<z>> \in Seq(S)
    OBVIOUS
  <2>2. \A s \in Seq(S), u \in S : Append(s, u) = s \o <<u>>
    BY AppendIsConcat
  <2>3. <<x>> \o <<y>> \in Seq(S)
    BY <2>1, ConcatProperties
  <2>4. Regrouped(<<x>>, <<y>>, <<z>>)
    BY <2>1, JoinRegrouped
  <2>5. QED
    BY ONLY <2>1, <2>2, <2>3, <2>4, x \in S, y \in S, z \in S DEF Regrouped
<1>9. \A s \in Seq(S) : <<>> \o s = s /\ s \o <<>> = s
    BY ConcatEmptySeq
<1>10. <<x>> \in Seq(S) /\ <<y>> \in Seq(S) /\ <<z>> \in Seq(S) /\ <<y>> \o <<z>> \in Seq(S)
    BY ConcatProperties
<1>11. Picked(s3, P) = Opt(1 \in P, x) \o (Opt(2 \in P, y) \o Opt(3 \in P, z))
  <2>1. CASE 1 \in P
    <3>1. Picked(s1, P) = <<x>> /\ Opt(1 \in P, x) = <<x>>
      BY <1>6, <1>7, <2>1, Zenon DEF Opt
    <3>2. CASE 2 \in P
      <4>1. Picked(s2, P) = <<x>> \o <<y>> /\ Opt(2 \in P, y) = <<y>>
        BY <1>5, <1>8, <3>1, <3>2, Zenon DEF Opt
      <4>2. QED
        BY <1>4, <1>8, <1>9, <1>10, <3>1, <4>1, Zenon DEF Opt
    <3>3. CASE 2 \notin P
      <4>1. Picked(s2, P) = <<x>> /\ Opt(2 \in P, y) = <<>>
        BY <1>5, <3>1, <3>3, Zenon DEF Opt
      <4>2. QED
        BY <1>1, <1>4, <1>8, <1>9, <1>10, <3>1, <4>1, Zenon DEF Opt
    <3>4. QED
      BY <3>2, <3>3
  <2>2. CASE 1 \notin P
    <3>1. Picked(s1, P) = <<>> /\ Opt(1 \in P, x) = <<>>
      BY <1>6, <2>2, Zenon DEF Opt
    <3>2. CASE 2 \in P
      <4>1. Picked(s2, P) = <<y>> /\ Opt(2 \in P, y) = <<y>>
        BY <1>5, <1>7, <3>1, <3>2, Zenon DEF Opt
      <4>2. QED
        BY <1>4, <1>8, <1>9, <1>10, <3>1, <4>1, Zenon DEF Opt
    <3>3. CASE 2 \notin P
      <4>1. Picked(s2, P) = <<>> /\ Opt(2 \in P, y) = <<>>
        BY <1>5, <3>1, <3>3, Zenon DEF Opt
      <4>2. QED
        BY <1>1, <1>4, <1>7, <1>9, <1>10, <3>1, <4>1, Zenon DEF Opt
    <3>4. QED
      BY <3>2, <3>3
  <2>3. QED
    BY <2>1, <2>2
<1>12. QED
    BY <1>3, <1>11, Zenon DEF ThreePicked

\* Sizes and offset are read from the header or from its ZIP64 field.
Nats(de) == {de.uncomp, de.comp, de.offset} \subseteq Nat

SizesRead(z, de, flags) ==
    z = [ok |-> TRUE, uncomp |-> de.uncomp, comp |-> de.comp,
         offset |-> IF IsLocal(flags) THEN 0 ELSE de.offset]

\* Sizes below the limit are read from the fixed part.
LEMMA SmallSizes ==
    ASSUME NEW de, Nats(de), NEW flags, NEW efs, ~NeedsZip64(de, flags)
    PROVE  SizesRead(Zip64Read(HeaderStart(de, flags), efs, flags), de, flags)
<1> DEFINE h == HeaderStart(de, flags)
<1>1. M32 \in Nat /\ M32 > 1
    BY WidthsAssumption, GrowthAssumption
<1>2. de.uncomp \in Nat /\ de.comp \in Nat /\ de.offset \in Nat
    BY DEF Nats
<1>3. de.uncomp < M32 /\ de.comp < M32 /\ (~IsLocal(flags) => de.offset < M32)
    BY <1>1, <1>2 DEF NeedsZip64
<1>4. SizeFields(de, flags) = [comp |-> de.comp, uncomp |-> de.uncomp]
    BY <1>1, <1>2, <1>3 DEF SizeFields, Capped
<1>5. /\ h.uncomp = de.uncomp /\ h.comp = de.comp
      /\ h.offset = IF IsLocal(flags) THEN 0 ELSE de.offset
    BY <1>3, <1>4 DEF HeaderStart, Capped
<1> HIDE DEF h
<1>6. M32 \notin {h.uncomp, h.comp, h.offset}
    BY <1>1, <1>2, <1>3, <1>5
<1>7. SizesRead(Zip64Read(h, efs, flags), de, flags)
    BY <1>5, <1>6 DEF SizesRead, Zip64Read
<1>8. QED
    BY <1>7 DEF h

\* A local header with ZIP64 gives both sizes.
LEMMA LargeLocal ==
    ASSUME NEW de, Nats(de), NEW efs, FieldsRead(efs, de, Local), NeedsZip64(de, Local),
           ~AtBoundary(de, Local)
    PROVE  SizesRead(Zip64Read(HeaderStart(de, Local), efs, Local), de, Local)
<1> DEFINE h == HeaderStart(de, Local)
           v == EfGet(efs, "zip64", Local)
<1>1. M32 \in Nat /\ M32 > 1 /\ IsLocal(Local)
    BY WidthsAssumption, GrowthAssumption DEF IsLocal, Local
<1>2. de.uncomp \in Nat /\ de.comp \in Nat
    BY DEF Nats
<1>3. WritesZip64(de, Local)
    BY DEF WritesZip64
<1>4. EfHas(efs, "zip64", Local) /\ v = Zip64Values(de, Local)
    BY <1>3 DEF FieldsRead
<1>5. Zip64Values(de, Local) = <<de.uncomp, de.comp>>
    BY <1>1, <1>3 DEF AtBoundary, Zip64Values
<1>6. SizeFields(de, Local) = [comp |-> M32, uncomp |-> M32]
    BY <1>1 DEF SizeFields, NeedsZip64
<1>7. h.uncomp = M32 /\ h.comp = M32 /\ h.offset = 0
    BY <1>1, <1>6 DEF HeaderStart
<1>8. Len(v) = 2 /\ v[1] = de.uncomp /\ v[2] = de.comp
    BY <1>4, <1>5
<1> HIDE DEF h, v
<1>9. Zip64Taken(h, v, Local) =
          [ok |-> TRUE, uncomp |-> de.uncomp, comp |-> de.comp, offset |-> 0]
  <2> DEFINE first == IF IsLocal(Local) \/ h.uncomp = M32 THEN 1 ELSE 0
             second == IF h.comp = M32 THEN first + 1 ELSE first
             third == IF ~IsLocal(Local) /\ h.offset = M32 THEN second + 1 ELSE second
  <2>1. first = 1 /\ second = 2 /\ third = 2
    BY <1>1, <1>7
  <2>2. Zip64Taken(h, v, Local) =
            IF Len(v) # third THEN NoZip
            ELSE [ok |-> TRUE,
                  uncomp |-> IF h.uncomp = M32 THEN v[first] ELSE h.uncomp,
                  comp |-> IF h.comp = M32 THEN v[second] ELSE h.comp,
                  offset |-> IF ~IsLocal(Local) /\ h.offset = M32 THEN v[third] ELSE h.offset]
    BY DEF Zip64Taken
  <2> HIDE DEF first, second, third
  <2>3. QED
    BY <1>1, <1>7, <1>8, <2>1, <2>2
<1>10. Zip64Read(h, efs, Local) = Zip64Taken(h, v, Local)
    BY <1>4, <1>7 DEF Zip64Read, v
<1>11. QED
    BY <1>1, <1>9, <1>10 DEF SizesRead, h

\* A central header gives the values that did not fit, in their order.
LEMMA LargeCentral ==
    ASSUME NEW de, Nats(de), NEW efs, FieldsRead(efs, de, Central), NeedsZip64(de, Central),
           ~AtBoundary(de, Central)
    PROVE  SizesRead(Zip64Read(HeaderStart(de, Central), efs, Central), de, Central)
<1> DEFINE h == HeaderStart(de, Central)
           v == EfGet(efs, "zip64", Central)
           all == <<de.uncomp, de.comp, de.offset>>
           P == {i \in 1..3 : all[i] >= M32}
           a == de.uncomp >= M32
           b == de.comp >= M32
           c == de.offset >= M32
<1>1. M32 \in Nat /\ M32 > 1 /\ ~IsLocal(Central)
    BY WidthsAssumption, GrowthAssumption DEF IsLocal, Central
<1>2. de.uncomp \in Nat /\ de.comp \in Nat /\ de.offset \in Nat
    BY DEF Nats
<1>3. WritesZip64(de, Central)
    BY DEF WritesZip64
<1>4. EfHas(efs, "zip64", Central) /\ v = Zip64Values(de, Central)
    BY <1>3 DEF FieldsRead
<1>5. v = Picked(all, P)
    BY <1>1, <1>3, <1>4 DEF AtBoundary, Zip64Values
<1>6. (1 \in P <=> a) /\ (2 \in P <=> b) /\ (3 \in P <=> c)
    OBVIOUS
<1>7. a \in BOOLEAN /\ b \in BOOLEAN /\ c \in BOOLEAN
    BY <1>1, <1>2
<1>8. v = Opt(a, de.uncomp) \o (Opt(b, de.comp) \o Opt(c, de.offset))
  <2> HIDE DEF P, v, a, b, c
  <2>1. v = Opt(1 \in P, de.uncomp) \o (Opt(2 \in P, de.comp) \o Opt(3 \in P, de.offset))
    <3>1. Picked(all, P) =
              Opt(1 \in P, de.uncomp) \o (Opt(2 \in P, de.comp) \o Opt(3 \in P, de.offset))
      <4>1. ThreePicked(de.uncomp, de.comp, de.offset, P)
        BY ONLY <1>2, PickedThree
      <4>2. QED
        BY <4>1, Zenon DEF ThreePicked
    <3>2. QED
      BY <1>5, <3>1, Zenon
  <2>2. QED
    BY <1>6, <2>1, Zenon DEF Opt
<1>9. AtMostThree(v, a, de.uncomp, b, de.comp, c, de.offset)
  <2> HIDE DEF v, a, b, c
  <2>1. QED
    BY <1>2, <1>7, <1>8, ThreeJoined
<1>10. SizeFields(de, Central) = [comp |-> Capped(de.comp), uncomp |-> Capped(de.uncomp)]
    BY <1>1 DEF SizeFields
<1>11. /\ h.uncomp = Capped(de.uncomp) /\ h.comp = Capped(de.comp)
       /\ h.offset = Capped(de.offset)
    BY <1>1, <1>10 DEF HeaderStart
<1> HIDE DEF h, v
<1>12. /\ h.uncomp = IF a THEN M32 ELSE de.uncomp
       /\ h.comp = IF b THEN M32 ELSE de.comp
       /\ h.offset = IF c THEN M32 ELSE de.offset
    BY <1>1, <1>2, <1>11 DEF Capped
<1>13. (h.uncomp = M32 <=> a) /\ (h.comp = M32 <=> b) /\ (h.offset = M32 <=> c)
    BY <1>1, <1>2, <1>12
<1>14. a \/ b \/ c
    BY DEF NeedsZip64
<1> HIDE DEF a, b, c
<1>15. /\ Len(v) = One(a) + One(b) + One(c)
       /\ a => v[1] = de.uncomp
       /\ b => v[One(a) + 1] = de.comp
       /\ c => v[One(a) + One(b) + 1] = de.offset
    BY <1>9 DEF AtMostThree
<1>16. Zip64Taken(h, v, Central) =
          [ok |-> TRUE, uncomp |-> de.uncomp, comp |-> de.comp, offset |-> de.offset]
  <2> DEFINE first == IF IsLocal(Central) \/ h.uncomp = M32 THEN 1 ELSE 0
             second == IF h.comp = M32 THEN first + 1 ELSE first
             third == IF ~IsLocal(Central) /\ h.offset = M32 THEN second + 1 ELSE second
  <2>1. first = One(a) /\ second = One(a) + One(b) /\ third = One(a) + One(b) + One(c)
    BY <1>1, <1>7, <1>13 DEF One
  <2>2. Zip64Taken(h, v, Central) =
            IF Len(v) # third THEN NoZip
            ELSE [ok |-> TRUE,
                  uncomp |-> IF h.uncomp = M32 THEN v[first] ELSE h.uncomp,
                  comp |-> IF h.comp = M32 THEN v[second] ELSE h.comp,
                  offset |-> IF ~IsLocal(Central) /\ h.offset = M32 THEN v[third] ELSE h.offset]
    BY DEF Zip64Taken
  <2> HIDE DEF first, second, third
  <2>3. Len(v) = third
    BY <1>15, <2>1
  <2>4. (IF h.uncomp = M32 THEN v[first] ELSE h.uncomp) = de.uncomp
    BY <1>12, <1>13, <1>15, <2>1 DEF One
  <2>5. (IF h.comp = M32 THEN v[second] ELSE h.comp) = de.comp
    BY <1>12, <1>13, <1>15, <2>1 DEF One
  <2>6. (IF ~IsLocal(Central) /\ h.offset = M32 THEN v[third] ELSE h.offset) = de.offset
    BY <1>1, <1>12, <1>13, <1>15, <2>1 DEF One
  <2>7. QED
    BY <2>2, <2>3, <2>4, <2>5, <2>6
<1>17. Zip64Read(h, efs, Central) = Zip64Taken(h, v, Central)
  <2>1. M32 \in {h.uncomp, h.comp, h.offset}
    BY <1>13, <1>14
  <2>2. QED
    BY <1>4, <2>1 DEF Zip64Read, v
<1>18. QED
    BY <1>1, <1>16, <1>17 DEF SizesRead, h

\* Sizes and offset are read as they were written.
LEMMA SizesReadBack ==
    ASSUME NEW de, Nats(de), NEW flags \in {Local, Central}, NEW efs, FieldsRead(efs, de, flags),
           ~AtBoundary(de, flags)
    PROVE  SizesRead(Zip64Read(HeaderStart(de, flags), efs, flags), de, flags)
<1>1. CASE ~NeedsZip64(de, flags)
    BY <1>1, SmallSizes
<1>2. CASE NeedsZip64(de, flags) /\ flags = Local
    BY <1>2, LargeLocal
<1>3. CASE NeedsZip64(de, flags) /\ flags = Central
    BY <1>3, LargeCentral
<1>4. QED
    BY <1>1, <1>2, <1>3

\* Where the parts of a header are.
LaidOut(H, E, C, de, flags) ==
    /\ IsList(H) /\ IsList(E) /\ Len(E) \in Nat /\ Len(C) \in Nat
    /\ Len(H) = 2 + Len(E) + Len(C)
    /\ H[1] = HeaderStart(de, flags) /\ H[2] = [k |-> "text", v |-> de.name.v]
    /\ \A i \in 1..Len(E) : H[2 + i] = E[i]
    /\ Len(C) = One(~IsLocal(flags) /\ de.comment.v # <<>>)
    /\ Len(C) = 1 => H[3 + Len(E)] = [k |-> "text", v |-> de.comment.v]

LEMMA OneCell ==
    ASSUME NEW c
    PROVE  IsList(<<c>>) /\ Len(<<c>>) = 1 /\ <<c>>[1] = c
<1>1. <<c>> \in Seq({c})
    OBVIOUS
<1>2. QED
    BY <1>1, SeqList

LEMMA NoCell == IsList(<<>>) /\ Len(<<>>) = 0
<1>1. <<>> \in Seq({})
    OBVIOUS
<1>2. QED
    BY <1>1, SeqList

\* Where the parts of a header are.
LEMMA HeaderLaidOut ==
    ASSUME NEW de, de.efs \in Seq(Fields({"x", "y"}, Units)), NEW flags \in {Local, Central}
    PROVE  LaidOut(Header(de, flags), HeaderFields(de, flags), HeaderComment(de, flags), de, flags)
<1> DEFINE head == HeaderStart(de, flags)
           name == [k |-> "text", v |-> de.name.v]
           com == [k |-> "text", v |-> de.comment.v]
           E == HeaderFields(de, flags)
           C == HeaderComment(de, flags)
           A == <<head>> \o <<name>>
           B == A \o E
           H == B \o C
<1>1. Header(de, flags) = H
    BY DEF Header
<1>2. IsList(E)
  <2>1. Ordinary(EfWrite(InternalFields(de, flags), flags)) /\ Ordinary(EfWrite(de.efs, flags))
    <3>1. flags \in SUBSET Kinds
      BY DEF Local, Central, Kinds
    <3>2. QED
      BY <3>1, InternalType, WrittenOrdinary
  <2>2. QED
    BY <2>1, OrdinaryJoined DEF HeaderFields, Ordinary
<1>3. C = Opt(~IsLocal(flags) /\ de.comment.v # <<>>, com)
    BY DEF HeaderComment, StringWrite, Opt
<1>4. /\ IsList(C) /\ Len(C) = One(~IsLocal(flags) /\ de.comment.v # <<>>)
      /\ Len(C) \in Nat /\ (Len(C) = 1 => C[1] = com)
    BY <1>3, OneCell, NoCell DEF Opt, One
<1>5. IsList(<<head>>) /\ Len(<<head>>) = 1 /\ <<head>>[1] = head
    BY OneCell
<1>6. IsList(<<name>>) /\ Len(<<name>>) = 1 /\ <<name>>[1] = name
    BY OneCell
<1> HIDE DEF head, name, E, C
<1>7. Joined(A, <<head>>, <<name>>)
    BY <1>5, <1>6, JoinedList
<1>8. Joined(B, A, E)
    BY <1>2, <1>7, JoinedList DEF Joined
<1> HIDE DEF A, B
<1>9. Joined(H, B, C)
  <2>1. IsList(B)
    BY <1>8 DEF Joined
  <2>2. QED
    BY <1>4, <2>1, JoinedList
<1> HIDE DEF H
<1>10. Len(A) = 2 /\ A[1] = head /\ A[2] = name
  <2>1. 1 \in 1..1 /\ 1 + 1 = 2
    OBVIOUS
  <2>2. QED
    BY <1>5, <1>6, <1>7, <2>1 DEF Joined
<1>11. /\ Len(B) = 2 + Len(E) /\ Len(E) \in Nat /\ B[1] = head /\ B[2] = name
       /\ \A i \in 1..Len(E) : B[2 + i] = E[i]
    BY <1>8, <1>10 DEF Joined
<1>12. /\ IsList(H) /\ Len(H) = 2 + Len(E) + Len(C) /\ H[1] = head /\ H[2] = name
       /\ \A i \in 1..Len(E) : H[2 + i] = E[i]
    <2>1. /\ IsList(H) /\ Len(H) = Len(B) + Len(C)
          /\ \A i \in 1..Len(B) : H[i] = B[i]
      BY <1>9 DEF Joined
    <2>2. 1 \in 1..Len(B) /\ 2 \in 1..Len(B) /\ \A i \in 1..Len(E) : 2 + i \in 1..Len(B)
      BY <1>11
    <2>3. QED
      BY <1>11, <2>1, <2>2
<1>13. ASSUME Len(C) = 1 PROVE H[3 + Len(E)] = com
  <2>1. 1 \in 1..Len(C) /\ Len(B) + 1 = 3 + Len(E)
    BY <1>11, <1>13
  <2>2. H[Len(B) + 1] = C[1]
    BY <1>9, <2>1 DEF Joined
  <2>3. QED
    BY <1>4, <1>13, <2>1, <2>2
<1>14. LaidOut(H, E, C, de, flags)
    BY <1>2, <1>4, <1>11, <1>12, <1>13 DEF LaidOut, head, name
<1>15. QED
    BY <1>1, <1>14 DEF E, C

\* What a header says of its own length, when it can.
LEMMA HeaderLengths ==
    ASSUME NEW de, de.efs \in Seq(Fields({"x", "y"}, Units)), NEW flags \in {Local, Central},
           ~FieldsOverflow(de, flags)
    PROVE  /\ HeaderStart(de, flags).eflen = Len(HeaderFields(de, flags))
           /\ HeaderStart(de, flags).comlen = Len(HeaderComment(de, flags))
           /\ HeaderStart(de, flags).k = IF IsLocal(flags) THEN "local" ELSE "central"
           /\ HeaderStart(de, flags).utf8 = Utf8Bit(de)
<1> DEFINE a == EfWrite(InternalFields(de, flags), flags)
           b == EfWrite(de.efs, flags)
<1>1. M16 \in Nat
    BY WidthsAssumption
<1>2. flags \in SUBSET Kinds
    BY DEF Local, Central, Kinds
<1>3. a \in Seq(FieldCells(Internal, Held(de))) /\ b \in Seq(FieldCells({"x", "y"}, Units))
    BY <1>2, InternalType, EfWriteType
<1>4. HeaderFields(de, flags) = a \o b
    BY DEF HeaderFields
<1>5. Len(a) + Len(b) <= M16
  <2>1. Len(a) \in Nat /\ Len(b) \in Nat
    BY <1>3, LenProperties
  <2> HIDE DEF a, b
  <2>2. ~(Len(a) + Len(b) > M16)
    BY DEF FieldsOverflow, a, b
  <2>3. QED
    BY <1>1, <2>1, <2>2
<1>6. HeaderStart(de, flags).eflen = ((Len(a) % (M16 + 1)) + (Len(b) % (M16 + 1))) % (M16 + 1)
  <2>1. EfSize(InternalFields(de, flags), flags) = Len(a) % (M16 + 1)
    BY Zenon DEF EfSize
  <2>2. EfSize(de.efs, flags) = Len(b) % (M16 + 1)
    BY Zenon DEF EfSize
  <2> HIDE DEF a, b
  <2>3. HeaderStart(de, flags).eflen =
            (EfSize(InternalFields(de, flags), flags) + EfSize(de.efs, flags)) % (M16 + 1)
    BY DEF HeaderStart
  <2>4. QED
    BY ONLY <2>1, <2>2, <2>3
<1> HIDE DEF a, b
<1>7. Len(a) \in Nat /\ Len(b) \in Nat /\ Len(a \o b) = Len(a) + Len(b)
  <2>1. IsList(a) /\ IsList(b)
    BY <1>3, SeqList
  <2>2. QED
    BY <2>1, JoinedList DEF Joined
<1>8. Len(a) % (M16 + 1) = Len(a) /\ Len(b) % (M16 + 1) = Len(b)
    BY <1>1, <1>5, <1>7, SmallRest
<1>9. (Len(a) + Len(b)) % (M16 + 1) = Len(a) + Len(b)
    BY <1>1, <1>5, <1>7, SmallRest
<1>10. HeaderStart(de, flags).eflen = Len(HeaderFields(de, flags))
    BY <1>4, <1>6, <1>7, <1>8, <1>9
<1>11. QED
    BY <1>10 DEF HeaderStart

\* Both texts are read back, from where they stand or from their field.
LEMMA NameRead ==
    ASSUME NEW de, Accepted(de.name), NEW flags, NEW efs, FieldsRead(efs, de, flags)
    PROVE  /\ ReadString(de.name.v, Utf8Bit(de)).enc # "error"
           /\ TextRead(de.name, ProcessUtf8(ReadString(de.name.v, Utf8Bit(de)), efs, "uname", flags))
<1> DEFINE t == ReadString(de.name.v, Utf8Bit(de))
<1>1. CASE Utf8Bit(de)
  <2>1. GuessEncoding(de.name, "unknown") \in {"ascii", "utf8"}
    BY <1>1 DEF Utf8Bit, Encodings
  <2>2. t = ReadString(de.name.v, TRUE)
    BY <1>1 DEF ReadString
  <2>3. TextRead(de.name, t)
    BY <2>1, <2>2, ReadUnderBit
  <2>4. ~EfHas(efs, "uname", flags)
    BY <1>1 DEF FieldsRead, NameField
  <2>5. QED
    BY <2>3, <2>4 DEF ProcessUtf8, TextRead
<1>2. CASE ~Utf8Bit(de)
  <2>1. t = ReadString(de.name.v, FALSE)
    BY <1>2 DEF ReadString
  <2>2. t.v = de.name.v /\ t.enc # "error"
    BY <2>1, ReadPlain
  <2> HIDE DEF t
  <2>3. CASE de.name.enc = "utf8"
    <3>1. EfHas(efs, "uname", flags) /\ EfGet(efs, "uname", flags) = <<de.name.v, de.name.v>>
      BY <1>2, <2>3 DEF FieldsRead, NameField
    <3>2. ProcessUtf8(t, efs, "uname", flags) = StringNew(de.name.v, "utf8")
      BY <2>2, <3>1 DEF ProcessUtf8
    <3>3. /\ de.name.v # <<>>
          /\ GuessEncoding([v |-> de.name.v, enc |-> "unknown"], "utf8") = "utf8"
      BY <2>3, AcceptedText
    <3>4. QED
      BY <2>2, <3>2, <3>3 DEF StringNew, TextRead, t
  <2>4. CASE de.name.enc # "utf8"
    <3>1. ~EfHas(efs, "uname", flags)
      BY <2>4 DEF FieldsRead, NameField
    <3>2. QED
      BY <2>2, <2>4, <3>1 DEF ProcessUtf8, TextRead, t
  <2>5. QED
    BY <2>3, <2>4
<1>3. QED
    BY <1>1, <1>2

CommentRead(de, flags) ==
    IF HeaderStart(de, flags).comlen = 0 THEN NoText ELSE ReadString(de.comment.v, Utf8Bit(de))

\* The comment of an entry, with the field that holds it as UTF-8 or
\* without.
LEMMA CommentReadBack ==
    ASSUME NEW de, Accepted(de.comment), NEW flags, ~IsLocal(flags), NEW efs,
           FieldsRead(efs, de, flags),
           HeaderStart(de, flags).comlen = One(de.comment.v # <<>>)
    PROVE  /\ CommentRead(de, flags).enc # "error"
           /\ TextRead(de.comment, ProcessUtf8(CommentRead(de, flags), efs, "ucomment", flags))
<1> DEFINE t == CommentRead(de, flags)
<1>1. CASE de.comment.v = <<>>
  <2>1. t = NoText /\ de.comment.enc = "ascii"
    BY <1>1, AcceptedText DEF CommentRead, One
  <2>2. ~EfHas(efs, "ucomment", flags)
    BY <2>1 DEF FieldsRead, CommentField
  <2>3. QED
    BY <1>1, <2>1, <2>2 DEF ProcessUtf8, TextRead, NoText
<1>2. CASE de.comment.v # <<>> /\ Utf8Bit(de)
  <2>1. GuessEncoding(de.comment, "unknown") \in {"ascii", "utf8"}
    BY <1>2 DEF Utf8Bit, Encodings
  <2>2. t = ReadString(de.comment.v, TRUE)
    BY <1>2 DEF ReadString, CommentRead, One
  <2>3. TextRead(de.comment, t)
    BY <2>1, <2>2, ReadUnderBit
  <2>4. ~EfHas(efs, "ucomment", flags)
    BY <1>2 DEF FieldsRead, CommentField
  <2>5. QED
    BY <2>3, <2>4 DEF ProcessUtf8, TextRead
<1>3. CASE de.comment.v # <<>> /\ ~Utf8Bit(de)
  <2>1. t = ReadString(de.comment.v, FALSE)
    BY <1>3 DEF ReadString, CommentRead, One
  <2>2. t.v = de.comment.v /\ t.enc # "error"
    BY <2>1, ReadPlain
  <2> HIDE DEF t
  <2>3. CASE de.comment.enc = "utf8"
    <3>1. EfHas(efs, "ucomment", flags)
          /\ EfGet(efs, "ucomment", flags) = <<de.comment.v, de.comment.v>>
      BY <1>3, <2>3 DEF FieldsRead, CommentField
    <3>2. ProcessUtf8(t, efs, "ucomment", flags) = StringNew(de.comment.v, "utf8")
      BY <2>2, <3>1 DEF ProcessUtf8
    <3>3. GuessEncoding([v |-> de.comment.v, enc |-> "unknown"], "utf8") = "utf8"
      BY <2>3, AcceptedText
    <3>4. QED
      BY <1>3, <2>2, <3>2, <3>3 DEF StringNew, TextRead, t
  <2>4. CASE de.comment.enc # "utf8"
    <3>1. ~EfHas(efs, "ucomment", flags)
      BY <2>4 DEF FieldsRead, CommentField
    <3>2. QED
      BY <2>2, <2>4, <3>1 DEF ProcessUtf8, TextRead, t
  <2>5. QED
    BY <2>3, <2>4
<1>4. QED
    BY <1>1, <1>2, <1>3

\* What a header is read as.
ReadBack(r, de, flags) ==
    /\ {"uncomp", "comp", "offset", "name", "comment", "efs"} \subseteq DOMAIN r
    /\ r.ok /\ r.len = Len(Header(de, flags)) /\ r.ver = HeaderStart(de, flags).ver
    /\ r.uncomp = de.uncomp /\ r.comp = de.comp
    /\ r.offset = IF IsLocal(flags) THEN 0 ELSE de.offset
    /\ TextRead(de.name, r.name)
    /\ ~IsLocal(flags) => TextRead(de.comment, r.comment)
    /\ r.efs = Marked(EfFor(de.efs, flags), flags)

\* A record with which nothing goes wrong.
Fine(de, flags) ==
    /\ Nats(de) /\ de.efs \in Seq(Fields({"x", "y"}, Units))
    /\ Accepted(de.name) /\ Accepted(de.comment)
    /\ ~AtBoundary(de, flags) /\ ~FieldsOverflow(de, flags)

\* The record that is made of the parts that were read.
LEMMA MadeBack ==
    ASSUME NEW de, NEW flags \in {Local, Central}, Fine(de, flags), NEW efs,
           FieldsRead(efs, de, flags), NEW h, h = HeaderStart(de, flags),
           NEW com, com = CommentRead(de, flags)
    PROVE  ReadBack(DirentMade(h, ReadString(de.name.v, Utf8Bit(de)), com, efs,
                               Zip64Read(h, efs, flags), flags), de, flags)
<1> DEFINE t == ReadString(de.name.v, Utf8Bit(de))
           z == Zip64Read(h, efs, flags)
           E == HeaderFields(de, flags)
           C == HeaderComment(de, flags)
           r == DirentMade(h, t, com, efs, z, flags)
<1>1. h.eflen = Len(E) /\ h.comlen = Len(C)
    BY HeaderLengths DEF Fine
<1>2. LaidOut(Header(de, flags), E, C, de, flags)
    BY HeaderLaidOut DEF Fine
<1>3. Len(Header(de, flags)) = 2 + h.eflen + h.comlen
    BY <1>1, <1>2 DEF LaidOut
<1>4. SizesRead(z, de, flags)
    BY SizesReadBack DEF Fine
<1>5. t.enc # "error" /\ TextRead(de.name, ProcessUtf8(t, efs, "uname", flags))
    BY NameRead DEF Fine
<1>6. /\ com.enc # "error"
      /\ ~IsLocal(flags) => TextRead(de.comment, ProcessUtf8(com, efs, "ucomment", flags))
  <2>1. CASE IsLocal(flags)
    BY <1>1, <1>2, <2>1 DEF LaidOut, One, CommentRead, NoText
  <2>2. CASE ~IsLocal(flags)
    <3>1. h.comlen = One(de.comment.v # <<>>)
      BY <1>1, <1>2, <2>2 DEF LaidOut, One
    <3>2. QED
      BY <2>2, <3>1, CommentReadBack DEF Fine
  <2>3. QED
    BY <2>1, <2>2
<1> HIDE DEF t, z, E, C
<1>7. r = [ok |-> TRUE, len |-> 2 + h.eflen + h.comlen, ver |-> h.ver,
           uncomp |-> z.uncomp, comp |-> z.comp, offset |-> z.offset,
           name |-> ProcessUtf8(t, efs, "uname", flags),
           comment |-> ProcessUtf8(com, efs, "ucomment", flags),
           efs |-> EfRemoveInternal(efs)]
  <2>1. z.ok
    BY <1>4 DEF SizesRead
  <2>2. "error" \notin {t.enc, com.enc}
    BY <1>5, <1>6
  <2>3. QED
    BY <2>1, <2>2, Zenon DEF DirentMade
<1> HIDE DEF r
<1>8. EfRemoveInternal(efs) = Marked(EfFor(de.efs, flags), flags)
    BY DEF FieldsRead
<1>9. /\ z.uncomp = de.uncomp /\ z.comp = de.comp
      /\ z.offset = IF IsLocal(flags) THEN 0 ELSE de.offset
    BY <1>4 DEF SizesRead
<1>10. {"uncomp", "comp", "offset", "name", "comment", "efs"} \subseteq DOMAIN r
    BY <1>7
<1>11. ReadBack(r, de, flags)
    BY <1>3, <1>5, <1>6, <1>7, <1>8, <1>9, <1>10 DEF ReadBack
<1>12. QED
    BY <1>11 DEF r, t, z

\* A list that is part of another.
LEMMA HeldSubSeq ==
    ASSUME NEW f, NEW s, IsList(f), IsList(s), NEW a \in Nat, a + Len(s) <= Len(f),
           \A i \in 1..Len(s) : f[a + i] = s[i]
    PROVE  SubSeq(f, a + 1, a + Len(s)) = s
<1> DEFINE n == Len(s)
           u == SubSeq(f, a + 1, a + n)
<1>1. f \in Seq(Elements(f)) /\ Len(f) \in Nat /\ n \in Nat
    BY ListSeq
<1>2. s = [i \in 1..n |-> s[i]]
    BY DEF IsList
<1>3. u = [i \in 1..n |-> f[a + i]]
  <2> HIDE DEF n
  <2>1. u = [i \in 1..(a + n) - (a + 1) + 1 |-> f[i + (a + 1) - 1]]
    BY <1>1
  <2>2. (a + n) - (a + 1) + 1 = n /\ \A i \in 1..n : i + (a + 1) - 1 = a + i
    BY <1>1
  <2>3. QED
    BY <2>1, <2>2
<1> HIDE DEF u, n
<1>4. u = s
  <2>1. \A i \in 1..n : f[a + i] = s[i]
    BY DEF n
  <2>2. QED
    BY ONLY <1>2, <1>3, <2>1
<1>5. QED
    BY <1>4 DEF u, n

\* The parts of a header in the file.
HeaderThere(at, de, flags) ==
    LET h == HeaderStart(de, flags) IN
    /\ at < Len(file) /\ Cell(at) = h /\ Cell(at + 1) = [k |-> "text", v |-> de.name.v]
    /\ h.eflen \in Nat /\ h.comlen \in Nat /\ Len(Header(de, flags)) = 2 + h.eflen + h.comlen
    /\ Cells(at + 2, h.eflen) = HeaderFields(de, flags)
    /\ h.comlen # 0 => Cell(at + 2 + h.eflen) = [k |-> "text", v |-> de.comment.v]

\* A header that is in the file is found at its offset.
LEMMA HeaderFound ==
    ASSUME IsList(file), NEW de, NEW flags \in {Local, Central}, Fine(de, flags),
           NEW at \in Nat, Holds(file, at, Header(de, flags))
    PROVE  HeaderThere(at, de, flags)
<1> DEFINE H == Header(de, flags)
           E == HeaderFields(de, flags)
           C == HeaderComment(de, flags)
           h == HeaderStart(de, flags)
           F == Len(file)
           e == Len(E)
           c == Len(C)
           com == [k |-> "text", v |-> de.comment.v]
<1>1. h.eflen = e /\ h.comlen = c
    BY HeaderLengths DEF Fine
<1>2. LaidOut(H, E, C, de, flags)
    BY HeaderLaidOut DEF Fine
<1>3. F \in Nat
    BY DEF IsList
<1> HIDE DEF H, E, C, h, F
<1>4. /\ IsList(H) /\ IsList(E) /\ e \in Nat /\ c \in Nat /\ Len(H) = 2 + e + c
      /\ H[1] = h /\ H[2] = [k |-> "text", v |-> de.name.v]
      /\ \A i \in 1..e : H[2 + i] = E[i]
      /\ c = 1 => H[3 + e] = com
      /\ c # 0 => c = 1
    BY <1>2 DEF LaidOut, h, One
<1>5. at + Len(H) <= F /\ \A i \in 1..Len(H) : file[at + i] = H[i]
    BY DEF Holds, H, F
<1> HIDE DEF e, c, com
<1>6. at < F /\ at + 1 < F /\ 1 \in 1..Len(H) /\ 2 \in 1..Len(H) /\ (at + 1) + 1 = at + 2
    BY <1>3, <1>4, <1>5
<1>7. Cell(at) = h /\ Cell(at + 1) = [k |-> "text", v |-> de.name.v]
    BY <1>4, <1>5, <1>6 DEF Cell, F
<1>8. Cells(at + 2, e) = E
  <2> DEFINE a == at + 2
  <2>1. a \in Nat /\ a + e <= F
    BY <1>3, <1>4, <1>5
  <2>2. ASSUME NEW i \in 1..e PROVE file[a + i] = E[i]
    <3>1. 2 + i \in 1..Len(H) /\ at + (2 + i) = a + i
      BY <1>4
    <3>2. QED
      BY <1>4, <1>5, <3>1
  <2> HIDE DEF a
  <2>3. SubSeq(file, a + 1, a + e) = E
    BY <1>4, <2>1, <2>2, HeldSubSeq DEF e, F
  <2>4. QED
    BY <2>3 DEF Cells, a
<1>9. ASSUME c # 0 PROVE Cell(at + 2 + e) = com
  <2>1. /\ at + 2 + e < F /\ (at + 2 + e) + 1 = at + (3 + e) /\ 3 + e \in 1..Len(H)
    <3>1. c = 1 /\ Len(H) = 3 + e /\ at + (3 + e) <= F
      BY <1>4, <1>5, <1>9
    <3>2. at \in Nat /\ e \in Nat /\ F \in Nat
      BY <1>3, <1>4
    <3>3. QED
      BY ONLY <3>1, <3>2
  <2>2. QED
    BY <1>4, <1>5, <1>9, <2>1 DEF Cell, F
<1>10. QED
    BY <1>1, <1>4, <1>6, <1>7, <1>8, <1>9 DEF HeaderThere, H, E, F, h, com

\* What _zip_dirent_write wrote is what _zip_dirent_read reads.
LEMMA DirentReadBack ==
    ASSUME IsList(file), NEW de, NEW flags \in {Local, Central}, Fine(de, flags),
           NEW at \in Nat, NEW end \in Nat, end <= Len(file),
           at + Len(Header(de, flags)) <= end, Holds(file, at, Header(de, flags))
    PROVE  ReadBack(DirentRead(at, flags, end), de, flags)
<1> DEFINE h == HeaderStart(de, flags)
           name == [k |-> "text", v |-> de.name.v]
           C == Cell(at + 2 + h.eflen)
<1>1. HeaderThere(at, de, flags)
    BY HeaderFound
<1>2. Len(file) \in Nat
    BY DEF IsList
<1>3. /\ Cell(at) = h /\ Cell(at + 1) = name /\ h.eflen \in Nat /\ h.comlen \in Nat
      /\ Len(Header(de, flags)) = 2 + h.eflen + h.comlen
      /\ Cells(at + 2, h.eflen) = HeaderFields(de, flags)
      /\ h.comlen # 0 => C = [k |-> "text", v |-> de.comment.v]
    BY <1>1, Zenon DEF HeaderThere
<1>4. h.k = (IF IsLocal(flags) THEN "local" ELSE "central") /\ h.utf8 = Utf8Bit(de)
    BY HeaderLengths DEF Fine
<1>5. PICK efs : /\ EfParse(HeaderFields(de, flags), flags) = [ok |-> TRUE, efs |-> efs]
                 /\ FieldsRead(efs, de, flags)
    BY HeaderParsed DEF Fine
<1> DEFINE ef == EfParse(HeaderFields(de, flags), flags)
           com == CommentRead(de, flags)
<1> HIDE DEF h, C
<1>6. at < end /\ Within(at, 2 + h.eflen + h.comlen, end)
    BY <1>2, <1>3 DEF Within
<1>7. DirentRead(at, flags, end) = DirentVariable(h, at, flags, end)
  <2>1. ~(at >= end)
    BY <1>6
  <2>2. QED
    BY <1>3, <1>4, <2>1, Zenon DEF DirentRead
<1>8. DirentVariable(h, at, flags, end) = DirentFields(h, name, C, ef, flags)
    BY <1>3, <1>6, Zenon DEF DirentVariable, C
<1>9. DirentFields(h, name, C, ef, flags) =
          DirentMade(h, ReadString(name.v, h.utf8),
                     IF h.comlen = 0 THEN NoText ELSE ReadString(C.v, h.utf8), ef.efs,
                     Zip64Read(h, ef.efs, flags), flags)
  <2>1. ef.ok /\ name.k = "text" /\ (h.comlen > 0 => C.k = "text")
    BY <1>3, <1>5
  <2> HIDE DEF ef, name
  <2>2. QED
    BY <2>1, Zenon DEF DirentFields
<1>10. /\ ef.efs = efs /\ name.v = de.name.v
       /\ (IF h.comlen = 0 THEN NoText ELSE ReadString(C.v, h.utf8)) = com
  <2>1. ef.efs = efs /\ name.v = de.name.v
    BY <1>5
  <2>2. h.comlen # 0 => C.v = de.comment.v
    BY <1>3
  <2>3. QED
    BY <1>4, <2>1, <2>2, Zenon DEF CommentRead, h
<1> HIDE DEF ef, name, com
<1>11. DirentRead(at, flags, end) =
          DirentMade(h, ReadString(de.name.v, Utf8Bit(de)), com, efs, Zip64Read(h, efs, flags), flags)
    BY <1>4, <1>7, <1>8, <1>9, <1>10, Zenon
<1>12. QED
    BY <1>5, <1>11, MadeBack DEF h, com

-----------------------------------------------------------------------------
(* Where zip_close puts what it writes.                                    *)

\* The length of a header is that of its parts.
AllFor(s, flags) == \A i \in 1..Len(s) : s[i].for \cap flags # {}
WrittenJoined(a, b, flags) == EfWrite(a \o b, flags) = EfWrite(a, flags) \o EfWrite(b, flags)

\* What is written of two lists of fields, one after the other.
LEMMA EfWriteJoined ==
    ASSUME NEW I, NEW V, NEW a \in Seq(Fields(I, V)), NEW b \in Seq(Fields(I, V)), NEW flags,
           AllFor(a, flags), AllFor(b, flags)
    PROVE  WrittenJoined(a, b, flags)
<1> USE DEF AllFor
<1> DEFINE F == Fields(I, V)
           s == a \o b
<1>0. a \in Seq(F) /\ b \in Seq(F)
    OBVIOUS
<1>1. EfFor(a, flags) = a /\ EfFor(b, flags) = b
    BY EfForAll
<1>2. s \in Seq(F) /\ \A i \in 1..Len(s) : s[i].for \cap flags # {}
  <2> HIDE DEF F
  <2>1. /\ s \in Seq(F) /\ Len(s) = Len(a) + Len(b) /\ Len(a) \in Nat /\ Len(b) \in Nat
        /\ \A i \in 1..Len(a) + Len(b) : s[i] = IF i <= Len(a) THEN a[i] ELSE b[i - Len(a)]
    BY ONLY <1>0, ConcatProperties, LenProperties
  <2> HIDE DEF s
  <2>2. ASSUME NEW i \in 1..Len(s) PROVE s[i].for \cap flags # {}
    <3>1. CASE i <= Len(a)
      <4>1. i \in 1..Len(a) /\ s[i] = a[i]
        BY <2>1, <3>1
      <4>2. QED
        BY <4>1
    <3>2. CASE ~(i <= Len(a))
      <4>1. i - Len(a) \in 1..Len(b) /\ s[i] = b[i - Len(a)]
        BY <2>1, <3>2
      <4>2. QED
        BY <4>1
    <3>3. QED
      BY <3>1, <3>2
  <2>3. QED
    BY <2>1, <2>2
<1> HIDE DEF F
<1>3. EfFor(s, flags) = s
  <2> HIDE DEF s
  <2>1. QED
    BY <1>2, EfForAll
<1>4. FlattenSeq(CellLists(s)) = FlattenSeq(CellLists(a)) \o FlattenSeq(CellLists(b))
    BY CellListsJoined
<1> HIDE DEF s
<1>5. EfWrite(s, flags) = EfWrite(a, flags) \o EfWrite(b, flags)
    BY <1>1, <1>3, <1>4, Zenon DEF EfWrite, CellLists
<1>6. QED
    BY <1>5 DEF s, WrittenJoined

\* What is written of one field.
LEMMA EfWriteOne ==
    ASSUME NEW I, NEW V, NEW x \in Fields(I, V), NEW flags, x.for \cap flags # {}
    PROVE  EfWrite(<<x>>, flags) = EfCells(x)
<1>1. <<>> \in Seq(Fields(I, V)) /\ Append(<<>>, x) = <<x>>
    OBVIOUS
<1>2. EfWrite(Append(<<>>, x), flags) = EfWrite(<<>>, flags) \o EfCells(x)
  <2> DEFINE s == <<>>
  <2>1. s \in Seq(Fields(I, V))
    BY <1>1
  <2> HIDE DEF s
  <2>2. EfWrite(Append(s, x), flags) =
            IF x.for \cap flags # {} THEN EfWrite(s, flags) \o EfCells(x) ELSE EfWrite(s, flags)
    BY ONLY <2>1, x \in Fields(I, V), EfWriteAppend
  <2>3. EfWrite(Append(s, x), flags) = EfWrite(s, flags) \o EfCells(x)
    BY <2>2
  <2>4. QED
    BY <2>3 DEF s
<1>3. EfCells(x) \in Seq(FieldCells(I, V))
    BY EfCellsType
<1>4. <<>> \o EfCells(x) = EfCells(x)
    BY <1>3, ConcatEmptySeq
<1>5. QED
    BY <1>1, <1>2, <1>4, EfWriteNil

\* The fields beside the ZIP64 field.
LEMMA InternalLength ==
    ASSUME NEW de, NEW flags \in {Local, Central}, WritesZip64(de, flags)
    PROVE  /\ Len(EfWrite(InternalFields(de, flags), flags)) =
                 Len(Zip64Values(de, flags)) + 1 + Len(EfWrite(Utf8Fields(de, flags), flags))
           /\ Len(EfWrite(Utf8Fields(de, flags), flags)) \in Nat
           /\ Len(Zip64Values(de, flags)) \in Nat
<1> DEFINE F == Fields(Internal, Held(de))
           x == [id |-> "zip64", vals |-> Zip64Values(de, flags), for |-> flags]
           U == Utf8Fields(de, flags)
<1>1. flags \in SUBSET Kinds /\ flags # {}
    BY DEF Local, Central, Kinds
<1>2. x \in F
  <2>1. Zip64Values(de, flags) \in Seq(Held(de))
    BY Zip64ValuesType
  <2>2. QED
    BY <1>1, <2>1 DEF Fields, Internal
<1>3. U \in Seq(F) /\ \A i \in 1..Len(U) : U[i].for \cap flags # {}
  <2> DEFINE y == [id |-> "ucomment", vals |-> <<de.comment.v, de.comment.v>>, for |-> flags]
             z == [id |-> "uname", vals |-> <<de.name.v, de.name.v>>, for |-> flags]
             T == {y, z}
             b == CommentField(de, flags)
             c == NameField(de)
  <2>1. b \in BOOLEAN /\ c \in BOOLEAN /\ FALSE \in BOOLEAN /\ y \in T /\ z \in T
    BY Zenon DEF CommentField, NameField
  <2>2. y \in F /\ z \in F
    <3>1. de.comment.v \in Held(de) /\ de.name.v \in Held(de)
      BY DEF Held
    <3>2. <<de.comment.v, de.comment.v>> \in Seq(Held(de)) /\ <<de.name.v, de.name.v>> \in Seq(Held(de))
      BY <3>1
    <3>3. QED
      BY <1>1, <3>2 DEF Fields, Internal
  <2>3. U = Opt(b, y) \o Opt(c, z)
    <3>1. <<>> \o <<>> = <<>>
      OBVIOUS
    <3>2. QED
      BY <3>1 DEF Utf8Fields, EfUtf8, Opt, CommentField, NameField
  <2>4. y.for = flags /\ z.for = flags
    OBVIOUS
  <2> HIDE DEF y, z, b, c, F, U, T
  <2>5. Opt(b, y) \in Seq(T) /\ Opt(c, z) \in Seq(T)
    BY <2>1, OptType
  <2>6. U \in Seq(T)
    BY <2>3, <2>5, ConcatProperties
  <2>7. T \subseteq F
    BY <2>2 DEF T
  <2>8. U \in Seq(F)
    BY <2>6, <2>7, SeqMonotonic
  <2>9. ASSUME NEW i \in 1..Len(U) PROVE U[i].for \cap flags # {}
    <3>1. U[i] \in T
      BY <2>6
    <3>2. QED
      BY <1>1, <2>4, <3>1 DEF T
  <2>10. QED
    BY <2>8, <2>9
<1>4. InternalFields(de, flags) = <<x>> \o U
    BY DEF InternalFields
<1>5. x.for = flags /\ x.vals = Zip64Values(de, flags)
    OBVIOUS
<1> HIDE DEF x, U, F
<1>6. <<x>> \in Seq(F) /\ AllFor(<<x>>, flags) /\ AllFor(U, flags)
  <2>1. <<x>> \in Seq(F) /\ Len(<<x>>) = 1 /\ <<x>>[1] = x
    BY <1>2
  <2>2. QED
    BY <1>1, <1>3, <1>5, <2>1 DEF AllFor
<1>7. EfWrite(<<x>> \o U, flags) = EfWrite(<<x>>, flags) \o EfWrite(U, flags)
  <2> DEFINE y == <<x>>
  <2>1. y \in Seq(Fields(Internal, Held(de))) /\ U \in Seq(Fields(Internal, Held(de)))
        /\ AllFor(y, flags) /\ AllFor(U, flags)
    BY <1>3, <1>6 DEF F
  <2> HIDE DEF y
  <2>2. WrittenJoined(y, U, flags)
    BY ONLY <2>1, EfWriteJoined
  <2>3. QED
    BY <2>2 DEF WrittenJoined, y
<1>8. EfWrite(<<x>>, flags) = EfCells(x)
    BY <1>1, <1>2, <1>5, EfWriteOne DEF F
<1>9. /\ EfCells(x) \in Seq(FieldCells(Internal, Held(de)))
      /\ Len(EfCells(x)) = Len(x.vals) + 1 /\ Len(x.vals) \in Nat
  <2>1. x.vals \in Seq(Held(de))
    BY <1>5, Zip64ValuesType
  <2>2. x \in Fields(Internal, Held(de))
    BY <1>2 DEF F
  <2>3. Len(x.vals) \in Nat
    BY <2>1, LenProperties
  <2>4. QED
    BY ONLY <2>2, <2>3, EfCellsType
<1>10. EfWrite(U, flags) \in Seq(FieldCells(Internal, Held(de))) /\ Len(EfWrite(U, flags)) \in Nat
    BY <1>3, EfWriteType DEF F
<1>11. Len(EfCells(x) \o EfWrite(U, flags)) = Len(EfCells(x)) + Len(EfWrite(U, flags))
    BY <1>9, <1>10, ConcatProperties
<1>12. QED
    BY <1>4, <1>5, <1>7, <1>8, <1>9, <1>10, <1>11 DEF U

\* Records that differ in their sizes only, with ZIP64 fields of one length.
FormedAlike(a, b) ==
    /\ b.efs = a.efs /\ b.name = a.name /\ b.comment = a.comment
    /\ WritesZip64(a, Local) <=> WritesZip64(b, Local)
    /\ WritesZip64(a, Local) => Len(Zip64Values(a, Local)) = Len(Zip64Values(b, Local))

LEMMA SameLength ==
    ASSUME NEW a, NEW b, a.efs \in Seq(Fields({"x", "y"}, Units)), FormedAlike(a, b)
    PROVE  Len(Header(a, Local)) = Len(Header(b, Local))
<1>1. Local \in {Local, Central} /\ IsLocal(Local) /\ Local \in SUBSET Kinds
    BY DEF IsLocal, Local, Kinds
<1>2. b.efs = a.efs
    BY DEF FormedAlike
<1>3. /\ LaidOut(Header(a, Local), HeaderFields(a, Local), HeaderComment(a, Local), a, Local)
      /\ LaidOut(Header(b, Local), HeaderFields(b, Local), HeaderComment(b, Local), b, Local)
    BY <1>1, <1>2, HeaderLaidOut
<1>4. /\ Len(Header(a, Local)) = 2 + Len(HeaderFields(a, Local)) + 0
      /\ Len(Header(b, Local)) = 2 + Len(HeaderFields(b, Local)) + 0
    BY <1>1, <1>3 DEF LaidOut, One
<1>5. Utf8Fields(a, Local) = Utf8Fields(b, Local)
    BY DEF FormedAlike, Utf8Fields, Utf8Bit, Encodings
<1>6. Len(EfWrite(InternalFields(a, Local), Local)) = Len(EfWrite(InternalFields(b, Local), Local))
  <2>1. CASE WritesZip64(a, Local)
    <3>1. WritesZip64(b, Local) /\ Len(Zip64Values(a, Local)) = Len(Zip64Values(b, Local))
      BY <2>1 DEF FormedAlike
    <3>2. Len(EfWrite(InternalFields(a, Local), Local)) =
              Len(Zip64Values(a, Local)) + 1 + Len(EfWrite(Utf8Fields(a, Local), Local))
      BY <1>1, <2>1, InternalLength
    <3>3. Len(EfWrite(InternalFields(b, Local), Local)) =
              Len(Zip64Values(b, Local)) + 1 + Len(EfWrite(Utf8Fields(b, Local), Local))
      BY <1>1, <3>1, InternalLength
    <3>4. QED
      BY <1>5, <3>1, <3>2, <3>3
  <2>2. CASE ~WritesZip64(a, Local)
    <3>1. ~WritesZip64(b, Local)
      BY <2>2 DEF FormedAlike
    <3>2. InternalFields(a, Local) = InternalFields(b, Local)
      BY <1>5, <2>2, <3>1, Zenon DEF InternalFields
    <3>3. QED
      BY <3>2
  <2>3. QED
    BY <2>1, <2>2
<1>7. ASSUME NEW d, d.efs = a.efs
      PROVE  Len(HeaderFields(d, Local)) =
                Len(EfWrite(InternalFields(d, Local), Local)) + Len(EfWrite(a.efs, Local))
  <2> DEFINE p == EfWrite(InternalFields(d, Local), Local)
             q == EfWrite(a.efs, Local)
  <2>1. IsList(p) /\ IsList(q)
    BY <1>1, InternalType, WrittenOrdinary DEF Ordinary
  <2>2. HeaderFields(d, Local) = p \o q
    BY <1>7, Zenon DEF HeaderFields
  <2> HIDE DEF p, q
  <2>3. Joined(p \o q, p, q)
    BY <2>1, JoinedList
  <2>4. Len(HeaderFields(d, Local)) = Len(p) + Len(q)
    BY <2>2, <2>3 DEF Joined
  <2>5. QED
    BY <2>4 DEF p, q
<1>8. Len(HeaderFields(a, Local)) = Len(HeaderFields(b, Local))
    BY <1>2, <1>6, <1>7
<1>9. QED
    BY <1>4, <1>8

\* The second header of an entry is as long as the first, unless a limit is
\* hit: the room that add_data has left is what it needs.
LEMMA SecondFits ==
    ASSUME NEW de, SizedRecord(de), de.efs \in Seq(Fields({"x", "y"}, Units)),
           de.stat = Unknown => de.force,
           de.stat # Unknown => (de.force <=> de.method = "deflate" /\ de.stat > MaxSize("deflate")),
           de.uncomp = de.actual, de.comp \in Lengths(de), de.kind = "add",
           WritesZip64(FirstForm(de), Local) <=> WritesZip64(de, Local),
           ~AtBoundary(de, Local), ~ResizedAtBoundary(de)
    PROVE  Len(Header(FirstForm(de), Local)) = Len(Header(de, Local))
<1> DEFINE p == FirstForm(de)
<1>1. /\ M32 \in Nat /\ M32 > 1 /\ Growth \in Nat /\ 2 * Growth < M32 /\ IsLocal(Local)
    BY WidthsAssumption, GrowthAssumption DEF IsLocal, Local
<1>2. /\ {"kind", "stat", "actual", "method", "stale", "comp", "uncomp", "offset", "name",
          "comment", "efs", "ver", "force", "nested"} \subseteq DOMAIN de
      /\ de.stat \in Nat \cup {Unknown} /\ de.actual \in Nat /\ de.stale \in Nat
      /\ de.comp \in Nat /\ de.uncomp \in Nat
      /\ de.method \in {"store", "deflate"} /\ de.force \in BOOLEAN
    BY DEF SizedRecord
<1>3. /\ p.efs = de.efs /\ p.name = de.name /\ p.comment = de.comment /\ p.force = de.force
      /\ p.uncomp = IF de.stat = Unknown THEN de.uncomp ELSE de.stat
      /\ p.comp = IF de.stat = Unknown THEN de.comp
                  ELSE IF de.method = "store" THEN de.stat ELSE de.stale
    BY <1>2 DEF FirstForm
<1> HIDE DEF p
<1>4. ASSUME WritesZip64(de, Local) PROVE Len(Zip64Values(p, Local)) = Len(Zip64Values(de, Local))
  <2>1. Zip64Values(de, Local) # <<>>
    BY <1>4 DEF AtBoundary
  <2>2. Zip64Values(de, Local) = <<de.uncomp, de.comp>> /\ (de.force \/ Exceeds(de, Local))
    BY <1>1, <2>1, Zenon DEF Zip64Values
  <2>3. p.force \/ Exceeds(p, Local)
    <3>1. CASE de.force
      BY <1>3, <3>1
    <3>2. CASE ~de.force
      <4>1. de.stat \in Nat /\ de.stat # Unknown
        BY <1>2, <3>2
      <4>2. SUFFICES ASSUME ~Exceeds(p, Local) PROVE FALSE
        OBVIOUS
      <4>3. p.uncomp <= M32 /\ p.comp <= M32 /\ (p.uncomp >= M32 \/ p.comp >= M32)
        <5>1. p.uncomp \in Nat /\ p.comp \in Nat
          BY <1>2, <1>3, <4>1
        <5>2. WritesZip64(p, Local)
          BY <1>4 DEF p
        <5>3. QED
          BY <1>1, <1>3, <3>2, <4>2, <5>1, <5>2 DEF Exceeds, WritesZip64, NeedsZip64
      <4>4. CASE de.method = "store"
        <5>1. de.stat = M32 /\ de.comp = de.actual
          BY <1>1, <1>3, <4>1, <4>3, <4>4 DEF Lengths
        <5>2. de.stat = de.actual
          BY <4>1, <4>4, <5>1 DEF ResizedAtBoundary
        <5>3. QED
          BY <1>1, <1>2, <2>2, <3>2, <5>1, <5>2 DEF Exceeds
      <4>5. CASE de.method = "deflate"
        <5>1. de.stat <= M32 - 1 - Growth
          <6>1. ~(de.stat > MaxSize("deflate"))
            BY <3>2, <4>1, <4>5
          <6>2. QED
            BY <1>1, <4>1, <6>1 DEF MaxSize
        <5>2. de.stale = M32
          BY <1>1, <1>2, <1>3, <4>1, <4>3, <4>5, <5>1
        <5>3. de.stat = de.actual
          BY <4>1, <4>5, <5>2 DEF ResizedAtBoundary
        <5>4. de.comp <= de.actual + Growth
          BY <1>1, <1>2, <4>5 DEF Lengths
        <5>5. QED
          BY <1>1, <1>2, <2>2, <3>2, <5>1, <5>3, <5>4 DEF Exceeds
      <4>6. QED
        BY <1>2, <4>4, <4>5
    <3>3. QED
      BY <1>2, <3>1, <3>2
  <2>4. Zip64Values(p, Local) = <<p.uncomp, p.comp>>
    BY <1>1, <2>3, Zenon DEF Zip64Values
  <2>5. QED
    BY <2>2, <2>4
<1>5. FormedAlike(p, de)
    BY <1>3, <1>4 DEF FormedAlike, p
<1>6. QED
    BY <1>3, <1>5, SameLength DEF p

\* The cells of a header and of data.
Harmless(s) ==
    /\ IsList(s)
    /\ \A i \in 1..Len(s) : s[i].k # "loc64" /\ (s[i].k = "eocd" => s[i] = EmptyEnd)

\* Cells without misleading end records, joined.
LEMMA HarmlessJoined ==
    ASSUME NEW s, NEW t, Harmless(s), Harmless(t)
    PROVE  Harmless(s \o t)
<1>1. IsList(s) /\ IsList(t)
    BY DEF Harmless
<1>2. Joined(s \o t, s, t)
    BY <1>1, JoinedList
<1> DEFINE u == s \o t
<1>3. ASSUME NEW i \in 1..Len(u)
      PROVE  u[i].k # "loc64" /\ (u[i].k = "eocd" => u[i] = EmptyEnd)
  <2> HIDE DEF u
  <2>1. \/ i \in 1..Len(s) /\ u[i] = s[i]
        \/ i - Len(s) \in 1..Len(t) /\ u[i] = t[i - Len(s)]
    BY <1>2, JoinedCell DEF u
  <2>2. QED
    BY <2>1 DEF Harmless
<1>4. QED
    BY <1>2, <1>3 DEF Harmless, Joined

\* No header holds an end record or a locator.
LEMMA HeaderHarmless ==
    ASSUME NEW de, de.efs \in Seq(Fields({"x", "y"}, Units)), NEW flags \in {Local, Central}
    PROVE  Harmless(Header(de, flags)) /\ Len(Header(de, flags)) \in Nat
                 /\ Len(Header(de, flags)) >= 2
<1> DEFINE H == Header(de, flags)
           E == HeaderFields(de, flags)
           C == HeaderComment(de, flags)
           p == EfWrite(InternalFields(de, flags), flags)
           q == EfWrite(de.efs, flags)
<1>1. LaidOut(H, E, C, de, flags)
    BY HeaderLaidOut
<1>2. \A i \in 1..Len(E) : E[i].k \in {"ef", "val"}
  <2>1. flags \in SUBSET Kinds
    BY DEF Local, Central, Kinds
  <2>2. p \in Seq(FieldCells(Internal, Held(de))) /\ q \in Seq(FieldCells({"x", "y"}, Units))
    BY <2>1, InternalType, EfWriteType
  <2>3. E = p \o q
    BY DEF HeaderFields
  <2> HIDE DEF p, q
  <2>4. \A i \in 1..Len(p) : p[i].k \in {"ef", "val"}
    BY <2>2 DEF FieldCells
  <2>5. \A i \in 1..Len(q) : q[i].k \in {"ef", "val"}
    BY <2>2 DEF FieldCells
  <2>6. IsList(p) /\ IsList(q)
    BY <2>2, SeqList
  <2> DEFINE u == p \o q
  <2>7. Joined(u, p, q)
    BY <2>6, JoinedList
  <2> HIDE DEF u
  <2>8. ASSUME NEW i \in 1..Len(u) PROVE u[i].k \in {"ef", "val"}
    <3>1. \/ i \in 1..Len(p) /\ u[i] = p[i]
          \/ i - Len(p) \in 1..Len(q) /\ u[i] = q[i - Len(p)]
      BY <2>7, JoinedCell
    <3>2. QED
      BY <2>4, <2>5, <3>1
  <2>9. QED
    BY <2>3, <2>8 DEF u
<1> HIDE DEF H, E, C
<1>3. /\ IsList(H) /\ Len(E) \in Nat /\ Len(C) \in {0, 1} /\ Len(H) = 2 + Len(E) + Len(C)
      /\ H[1] = HeaderStart(de, flags) /\ H[2] = [k |-> "text", v |-> de.name.v]
      /\ \A i \in 1..Len(E) : H[2 + i] = E[i]
      /\ Len(C) = 1 => H[3 + Len(E)] = [k |-> "text", v |-> de.comment.v]
    BY <1>1 DEF LaidOut, One
<1>4. H[1].k \in {"local", "central"}
    BY <1>3 DEF HeaderStart
<1>5. ASSUME NEW i \in 1..Len(H) PROVE H[i].k \in {"local", "central", "text", "ef", "val"}
  <2>1. \/ i = 1 \/ i = 2 \/ (i - 2 \in 1..Len(E) /\ i = 2 + (i - 2))
        \/ (Len(C) = 1 /\ i = 3 + Len(E))
    <3> DEFINE e == Len(E)
               c == Len(C)
    <3>1. e \in Nat /\ c \in {0, 1} /\ Len(H) = 2 + e + c /\ i \in 1..Len(H)
      BY <1>3
    <3> HIDE DEF e, c
    <3>2. i = 1 \/ i = 2 \/ (i - 2 \in 1..e /\ i = 2 + (i - 2)) \/ (c = 1 /\ i = 3 + e)
      BY ONLY <3>1
    <3>3. QED
      BY ONLY <3>2 DEF e, c
  <2>2. CASE i = 1
    BY <1>4, <2>2
  <2>3. CASE i = 2
    BY <1>3, <2>3
  <2>4. CASE i - 2 \in 1..Len(E) /\ i = 2 + (i - 2)
    <3>1. H[i] = E[i - 2]
      BY <1>3, <2>4
    <3>2. QED
      BY <1>2, <2>4, <3>1
  <2>5. CASE Len(C) = 1 /\ i = 3 + Len(E)
    BY <1>3, <2>5
  <2>6. QED
    BY <2>1, <2>2, <2>3, <2>4, <2>5
<1>6. \A i \in 1..Len(H) : H[i].k # "loc64" /\ H[i].k # "eocd"
    BY <1>5
<1>7. Len(H) \in Nat /\ Len(H) >= 2
    BY <1>3
<1>8. Harmless(H)
    BY <1>3, <1>6 DEF Harmless
<1>9. QED
    BY <1>7, <1>8 DEF H

\* The cells of an entry, whether it holds an archive or not.
LEMMA DataIs ==
    ASSUME NEW i, NEW n \in Nat
    PROVE  /\ IsList(DataOf(i, n)) /\ Len(DataOf(i, n)) = n
           /\ \A j \in 1..n : DataOf(i, n)[j] = IF ents[i].nested /\ j = n THEN EmptyEnd
                                               ELSE [k |-> "data", v |-> i]
<1> DEFINE c == [k |-> "data", v |-> i]
           S == {c, EmptyEnd}
<1>1. ASSUME NEW m \in Nat
      PROVE  /\ DataCells(i, m) \in Seq(S) /\ Len(DataCells(i, m)) = m
             /\ \A j \in 1..m : DataCells(i, m)[j] = c
  <2> DEFINE d == [j \in 1..m |-> c]
  <2>1. DataCells(i, m) = d
    BY DEF DataCells
  <2> HIDE DEF c
  <2>2. d \in [1..m -> S]
    OBVIOUS
  <2>3. d \in Seq(S) /\ Len(d) = m
    BY <2>2
  <2>4. \A j \in 1..m : d[j] = c
    OBVIOUS
  <2>5. QED
    BY <2>1, <2>3, <2>4
<1> HIDE DEF c
<1>2. CASE ents[i].nested /\ n > 0
  <2> DEFINE a == DataCells(i, n - 1)
             u == Append(a, EmptyEnd)
  <2>1. DataOf(i, n) = u
    BY <1>2 DEF DataOf
  <2>2. n - 1 \in Nat
    BY <1>2
  <2>3. a \in Seq(S) /\ Len(a) = n - 1 /\ \A j \in 1..n - 1 : a[j] = c
    BY <1>1, <2>2
  <2> HIDE DEF a
  <2>4. EmptyEnd \in S
    OBVIOUS
  <2> HIDE DEF S
  <2>5. /\ u \in Seq(S) /\ Len(u) = Len(a) + 1 /\ u[Len(a) + 1] = EmptyEnd
        /\ \A j \in 1..Len(a) : u[j] = a[j]
    BY <2>3, <2>4, AppendProperties
  <2> HIDE DEF u
  <2>6. Len(a) + 1 = n
    BY <2>3
  <2>7. ASSUME NEW j \in 1..n PROVE u[j] = IF j = n THEN EmptyEnd ELSE c
    <3>1. CASE j = n
      BY <2>5, <2>6, <3>1
    <3>2. CASE j # n
      <4>1. j \in 1..n - 1 /\ j \in 1..Len(a)
        BY <2>3, <3>2
      <4>2. QED
        BY <2>3, <2>5, <3>2, <4>1
    <3>3. QED
      BY <3>1, <3>2
  <2>8. IsList(u) /\ Len(u) = n
    BY <2>5, <2>6, SeqList
  <2>9. QED
    BY <1>2, <2>1, <2>7, <2>8 DEF c
<1>3. CASE ~(ents[i].nested /\ n > 0)
  <2>1. DataOf(i, n) = DataCells(i, n)
    BY <1>3 DEF DataOf
  <2>2. ASSUME NEW j \in 1..n PROVE ~(ents[i].nested /\ j = n)
    BY <1>3
  <2>3. IsList(DataCells(i, n))
    BY <1>1, SeqList
  <2>4. QED
    BY <1>1, <2>1, <2>2, <2>3 DEF c
<1>4. QED
    BY <1>2, <1>3

LEMMA DataLength ==
    ASSUME NEW i, NEW n \in Nat
    PROVE  IsList(DataOf(i, n)) /\ Len(DataOf(i, n)) = n
BY DataIs

\* Data holds no end record but that of an empty archive.
LEMMA DataHarmless ==
    ASSUME NEW i, NEW n \in Nat
    PROVE  Harmless(DataOf(i, n))
<1> DEFINE d == DataOf(i, n)
<1>1. /\ IsList(d) /\ Len(d) = n
      /\ \A j \in 1..n : d[j] = IF ents[i].nested /\ j = n THEN EmptyEnd
                               ELSE [k |-> "data", v |-> i]
    BY DataIs
<1> HIDE DEF d
<1>2. ASSUME NEW j \in 1..n PROVE d[j].k # "loc64" /\ (d[j].k = "eocd" => d[j] = EmptyEnd)
  <2>1. d[j] = EmptyEnd \/ d[j] = [k |-> "data", v |-> i]
    BY <1>1
  <2>2. QED
    BY <2>1 DEF EmptyEnd
<1>3. QED
    BY <1>1, <1>2 DEF Harmless, d

\* What is known of a record.
LEMMA KnownRecord ==
    ASSUME FormatInv, FieldsInv, PartsKept, NEW i \in DOMAIN ents
    PROVE  /\ SizedRecord(ents[i]) /\ Nats(ents[i]) /\ ents[i].ver \in Nat
           /\ ents[i].comp \in Nat /\ ents[i].offset \in Nat
           /\ ents[i].efs \in Seq(Fields({"x", "y"}, Units))
           /\ Accepted(ents[i].name) /\ Accepted(ents[i].comment)
BY DEF FormatInv, RecordsKept, FieldsInv, FieldsKept, PartsKept, SizedRecord, Nats

\* Files that agree up to some length.
Agrees(g, f, n) == n <= Len(f) /\ n <= Len(g) /\ \A j \in 1..n : g[j] = f[j]

\* What a file has before an offset, one that agrees with it up to there
\* has too.
LEMMA HoldsKept ==
    ASSUME NEW f, NEW g, NEW n \in Nat, Agrees(g, f, n), NEW s, Len(s) \in Nat, NEW at \in Nat,
           at + Len(s) <= n, Holds(f, at, s), Len(g) \in Nat
    PROVE  Holds(g, at, s)
<1>1. at + Len(s) <= Len(g)
    BY DEF Agrees
<1>2. ASSUME NEW i \in 1..Len(s) PROVE g[at + i] = s[i]
  <2>1. at + i \in 1..n
    OBVIOUS
  <2>2. QED
    BY <2>1 DEF Agrees, Holds
<1>3. QED
    BY <1>1, <1>2 DEF Holds

\* An entry stays stored when nothing before the limit changes.
LEMMA StoredKept ==
    ASSUME FormatInv, FieldsInv, PartsKept, NEW i \in DOMAIN ents, ents'[i] = ents[i],
           NEW n \in Nat, NEW m \in Nat, n <= m, Agrees(file', file, n), Len(file') \in Nat,
           Stored(i, n)
    PROVE  Stored(i, m)'
<1> DEFINE de == ents[i]
           H == Header(de, Local)
           D == DataOf(i, de.comp)
           at == de.offset + Len(H)
<1>1. de.comp \in Nat /\ de.offset \in Nat /\ de.efs \in Seq(Fields({"x", "y"}, Units))
    BY KnownRecord
<1>2. Len(H) \in Nat
    BY <1>1, HeaderHarmless
<1>3. Len(D) = de.comp
    BY <1>1, DataLength
<1>4. DataOf(i, de.comp)' = D
    BY DEF DataOf, DataCells
<1> HIDE DEF H, D
<1>5. at + de.comp <= n /\ Holds(file, de.offset, H) /\ Holds(file, at, D)
    BY DEF Stored, H, D
<1>6. Holds(file', de.offset, H)
  <2>1. de.offset + Len(H) <= n
    BY <1>1, <1>2, <1>5
  <2>2. QED
    BY <1>1, <1>2, <1>5, <2>1, HoldsKept
<1>7. Holds(file', at, D)
  <2>1. at \in Nat /\ at + Len(D) <= n
    BY <1>1, <1>2, <1>3, <1>5
  <2> HIDE DEF at
  <2>2. QED
    BY <1>1, <1>3, <1>5, <2>1, HoldsKept
<1>8. at + de.comp <= m
    BY <1>1, <1>2, <1>5
<1>9. QED
    BY <1>4, <1>6, <1>7, <1>8 DEF Stored, H

\* The entries before the current one stay where they are.
StoredStill(m) == \A i \in DOMAIN ents' : i < cur /\ ~Irregular(ents'[i]) => Stored(i, m)'

LEMMA StoredIs ==
    ASSUME NEW m, StoredStill(m), cur' = cur
    PROVE  /\ start' = m => StoredTo(start)'
           /\ Len(file') = m => StoredTo(Len(file))'
BY DEF StoredStill, StoredTo, Stored

\* And so does the one that is now finished.
StoredNow(c, m) == c \in DOMAIN ents' /\ ~Irregular(ents'[c]) => Stored(c, m)'

\* The entry that was being written is now one of those that are.
LEMMA StoredNext ==
    ASSUME NEW c \in Nat, c = cur, NEW m, StoredStill(m), StoredNow(c, m), cur' = cur + 1,
           Len(file') = m, DOMAIN ents' \subseteq Nat
    PROVE  StoredTo(Len(file))'
<1>1. ASSUME NEW i \in DOMAIN ents', i < cur', ~Irregular(ents'[i]) PROVE Stored(i, m)'
  <2>1. i < c \/ i = c
    BY <1>1
  <2>2. QED
    BY <1>1, <2>1 DEF StoredStill, StoredNow
<1>2. QED
    BY <1>1 DEF StoredTo, Stored

BeforeKept ==
    DOMAIN ents' = DOMAIN ents /\ \A i \in DOMAIN ents : i < cur => ents'[i] = ents[i]

\* The entries that are written stay, whatever is written behind them.
LEMMA StoredToKept ==
    ASSUME FormatInv, FieldsInv, PartsKept, BeforeKept, NEW n \in Nat, NEW m \in Nat,
           n <= m, Agrees(file', file, n), Len(file') \in Nat, StoredTo(n)
    PROVE  StoredStill(m)
<1>1. ASSUME NEW i \in DOMAIN ents', i < cur, ~Irregular(ents'[i]) PROVE Stored(i, m)'
  <2>1. i \in DOMAIN ents /\ ents'[i] = ents[i]
    BY <1>1 DEF BeforeKept
  <2>2. Stored(i, n)
    BY <1>1, <2>1 DEF StoredTo
  <2>3. QED
    BY <2>1, <2>2, StoredKept
<1>2. QED
    BY <1>1 DEF StoredStill

\* A file that gets longer.
LEMMA Longer ==
    ASSUME NEW f, NEW x, IsList(f), IsList(x)
    PROVE  /\ IsList(f \o x) /\ Len(f \o x) = Len(f) + Len(x) /\ Len(f) \in Nat /\ Len(x) \in Nat
           /\ Agrees(f \o x, f, Len(f)) /\ Holds(f \o x, Len(f), x)
<1>1. Joined(f \o x, f, x)
    BY JoinedList
<1>2. QED
    BY <1>1 DEF Joined, Agrees, Holds

\* More cells that are no end records.
LEMMA NoEndsMore ==
    ASSUME IsList(file), NEW x, Harmless(x), file' = file \o x, NoEnds(Len(file)),
           Len(ents) > 0, Len(ents') > 0
    PROVE  NoEnds(Len(file))'
<1>1. Harmless(file)
    BY DEF NoEnds, Harmless
<1>2. Harmless(file')
    BY <1>1, HarmlessJoined
<1>3. QED
    BY <1>2 DEF NoEnds, Harmless

\* One record changes, but not its texts.
LEMMA PartsUpdated ==
    ASSUME FormatInv, PartsKept, comment' = comment, NEW i, NEW r,
           ents' = [ents EXCEPT ![i] = r],
           i \in DOMAIN ents => /\ r.offset \in Nat /\ r.ver \in Nat
                                /\ r.name = ents[i].name /\ r.comment = ents[i].comment
    PROVE  PartsKept'
<1>1. Len(ents) \in Nat /\ DOMAIN ents = 1..Len(ents)
    BY DEF FormatInv, RecordsKept
<1>2. /\ DOMAIN ents' = DOMAIN ents
      /\ \A j \in DOMAIN ents : ents'[j] = IF j = i THEN r ELSE ents[j]
    BY <1>1, Updated
<1>3. ASSUME NEW j \in DOMAIN ents'
      PROVE  /\ ents'[j].offset \in Nat /\ ents'[j].ver \in Nat
             /\ Accepted(ents'[j].name) /\ Accepted(ents'[j].comment)
  <2>1. CASE j = i
    <3>1. ents'[j] = r /\ i \in DOMAIN ents
      BY <1>2, <2>1
    <3>2. QED
      BY <3>1 DEF PartsKept
  <2>2. CASE j # i
    BY <1>2, <2>2 DEF PartsKept
  <2>3. QED
    BY <2>1, <2>2
<1>4. QED
    BY <1>3 DEF PartsKept

\* Texts, versions and the comment stay what they may be.
LEMMA NextParts ==
    ASSUME FormatInv, PartsKept, Len(file) \in Nat, [Next]_vars
    PROVE  PartsKept'
<1>1. comment' = comment
    BY DecoyStays
<1>2. \A i \in DOMAIN ents : SizedRecord(ents[i]) /\ ents[i].offset \in Nat /\ ents[i].ver \in Nat
    BY DEF FormatInv, RecordsKept, PartsKept
<1>3. ASSUME NEW efs, ents' = [ents EXCEPT ![1].efs = efs] PROVE PartsKept'
  <2> DEFINE r == [ents[1] EXCEPT !.efs = efs]
  <2>1. ents' = [ents EXCEPT ![1] = r]
    BY <1>3
  <2>2. 1 \in DOMAIN ents => /\ r.offset \in Nat /\ r.ver \in Nat
                             /\ r.name = ents[1].name /\ r.comment = ents[1].comment
    BY <1>2 DEF SizedRecord
  <2> HIDE DEF r
  <2>3. QED
    BY <1>1, <2>1, <2>2, PartsUpdated
<1>4. ASSUME ents' = ents PROVE PartsKept'
    BY <1>1, <1>4 DEF PartsKept
<1>5. ASSUME NEW id, NEW which, NEW vals, NEW f, ExtraFieldSet(id, which, vals, f) PROVE PartsKept'
    BY <1>3, <1>5 DEF ExtraFieldSet
<1>6. ASSUME NEW ids, NEW which, NEW f, ExtraFieldDelete(ids, which, f) PROVE PartsKept'
    BY <1>3, <1>6 DEF ExtraFieldDelete
<1>7. CASE WriteHead
  <2> DEFINE r == [Prepared(ents[cur]) EXCEPT !.offset = Len(file)]
  <2>1. ents' = [ents EXCEPT ![cur] = r]
    BY <1>7 DEF WriteHead
  <2>2. cur \in DOMAIN ents => /\ r.offset \in Nat /\ r.ver \in Nat
                               /\ r.name = ents[cur].name /\ r.comment = ents[cur].comment
    BY <1>2 DEF SizedRecord, Prepared
  <2> HIDE DEF r
  <2>3. QED
    BY <1>1, <2>1, <2>2, PartsUpdated
<1>8. CASE CopySource
  <2>1. PICK n \in Lengths(ents[cur]) :
            ents' = [ents EXCEPT ![cur].comp = n, ![cur].uncomp = ents[cur].actual]
    BY <1>8 DEF CopySource
  <2> DEFINE r == [ents[cur] EXCEPT !.comp = n, !.uncomp = ents[cur].actual]
  <2>2. cur \in DOMAIN ents
    BY <1>8 DEF CopySource, FormatInv, HeadFollowsStat
  <2>3. ents' = [ents EXCEPT ![cur] = r]
    BY <2>1, <2>2
  <2>4. cur \in DOMAIN ents => /\ r.offset \in Nat /\ r.ver \in Nat
                               /\ r.name = ents[cur].name /\ r.comment = ents[cur].comment
    BY <1>2 DEF SizedRecord
  <2> HIDE DEF r
  <2>5. QED
    BY <1>1, <2>3, <2>4, PartsUpdated
<1>9. CASE WriteFinal
  <2> DEFINE r == Versioned(ents[cur])
  <2>1. ents' = [ents EXCEPT ![cur] = r]
    BY <1>9 DEF WriteFinal
  <2>2. cur \in DOMAIN ents => /\ r.offset \in Nat /\ r.ver \in Nat
                               /\ r.name = ents[cur].name /\ r.comment = ents[cur].comment
    BY <1>2 DEF SizedRecord, Versioned
  <2> HIDE DEF r
  <2>3. QED
    BY <1>1, <2>1, <2>2, PartsUpdated
<1>10. CASE CopyEntry
  <2> DEFINE r == [ents[cur] EXCEPT !.offset = Len(file)]
  <2>1. ents' = [ents EXCEPT ![cur] = r]
    BY <1>10 DEF CopyEntry
  <2>2. cur \in DOMAIN ents => /\ r.offset \in Nat /\ r.ver \in Nat
                               /\ r.name = ents[cur].name /\ r.comment = ents[cur].comment
    BY <1>2 DEF SizedRecord
  <2> HIDE DEF r
  <2>3. QED
    BY <1>1, <2>1, <2>2, PartsUpdated
<1>11. ASSUME \/ StartClose \/ WriteCdir \/ (\E n \in 0..Len(file) - 1 : Tear(n))
              \/ (\E check \in BOOLEAN : Open(check)) \/ UNCHANGED vars
       PROVE  PartsKept'
  <2>1. ents' = ents
    BY <1>11 DEF StartClose, WriteCdir, Tear, Open, vars
  <2>2. QED
    BY <1>4, <2>1
<1>12. QED
    BY <1>5, <1>6, <1>7, <1>8, <1>9, <1>10, <1>11 DEF Next

\* The first header of an entry is written behind the others.
LEMMA WriteHeadLayout ==
    ASSUME FormatInv, FieldsInv, TornInv, LayoutInv, IsList(file'), WriteHead
    PROVE  WrittenSoFar' /\ WrittenAll'
<1> DEFINE d == ents[cur]
           r == [Prepared(d) EXCEPT !.offset = Len(file)]
           x == Header(r, Local)
           N == Len(file)
<1>1. /\ ents' = [ents EXCEPT ![cur] = r] /\ cur' = cur /\ phase = "head" /\ phase' = "data"
      /\ file' = file \o x /\ start' = N /\ torn' = torn /\ cur <= Len(ents) /\ d.kind = "add"
    BY DEF WriteHead
<1>2. /\ Len(ents) \in Nat /\ DOMAIN ents = 1..Len(ents) /\ cur \in DOMAIN ents
      /\ SizedRecord(d) /\ d.comp = d.stale /\ d.efs \in Seq(Fields({"x", "y"}, Units))
    BY <1>1 DEF FormatInv, RecordsKept, FieldsInv, FieldsKept
<1>3. /\ Len(ents') = Len(ents) /\ DOMAIN ents' = DOMAIN ents
      /\ \A j \in DOMAIN ents : ents'[j] = IF j = cur THEN r ELSE ents[j]
  <2> HIDE DEF r
  <2>1. QED
    BY ONLY <1>1, <1>2, Updated
<1>4. /\ r.kind = d.kind /\ r.offset = N /\ r.efs = d.efs /\ (r.stat = Unknown => r.force)
      /\ SizedRecord(r)
      /\ r.stat # Unknown =>
            r.uncomp = r.stat /\ r.comp = IF r.method = "store" THEN r.stat ELSE r.stale
  <2>1. SizedRecord(r)
    BY <1>2 DEF Prepared, SizedRecord, Unknown
  <2>2. QED
    BY <1>2, <2>1 DEF Prepared, SizedRecord
<1>5. PartsKept /\ WrittenSoFar /\ IsList(file)
    BY DEF LayoutInv, TornInv, FileKept
<1> HIDE DEF r
<1>6. Harmless(x) /\ Len(x) \in Nat
    BY <1>2, <1>4, HeaderHarmless
<1>7. /\ Len(file') = N + Len(x) /\ N \in Nat /\ Agrees(file', file, N)
    BY <1>1, <1>5, <1>6, Longer DEF Harmless
<1>8. NoEnds(N) /\ StoredTo(N) /\ ~torn
    BY <1>1, <1>5 DEF WrittenSoFar
<1>9. NoEnds(Len(file))'
  <2>1. Len(ents) > 0 /\ Len(ents') > 0
    BY <1>2, <1>3
  <2> HIDE DEF x
  <2>2. QED
    BY <1>1, <1>5, <1>6, <1>8, <2>1, NoEndsMore
<1>10. PICK n \in Nat : n = N
    BY <1>7
<1>11. StoredTo(start)'
  <2>1. BeforeKept
    <3>1. ASSUME NEW i \in DOMAIN ents, i < cur PROVE ents'[i] = ents[i]
      <4>1. i # cur
        BY <1>2, <3>1
      <4>2. QED
        BY <1>3, <4>1
    <3>2. QED
      BY <1>3, <3>1 DEF BeforeKept
  <2>2. n <= n /\ Len(file') \in Nat /\ start' = n /\ cur' = cur
    BY <1>1, <1>6, <1>7, <1>10
  <2>3. StoredStill(n)
    <3>1. Agrees(file', file, n) /\ StoredTo(n)
      BY <1>7, <1>8, <1>10
    <3>2. QED
      BY <1>5, <2>1, <2>2, <3>1, StoredToKept
  <2>4. QED
    BY <2>2, <2>3, StoredIs
<1>12. Len(Header(FirstForm(r), Local)) = Len(x)
  <2> DEFINE p == FirstForm(r)
  <2>1. /\ p.efs = r.efs /\ p.name = r.name /\ p.comment = r.comment /\ p.force = r.force
        /\ p.uncomp = r.uncomp /\ p.comp = r.comp
    BY <1>4 DEF FirstForm, SizedRecord
  <2> HIDE DEF p
  <2>2. FormedAlike(p, r)
    BY <2>1 DEF FormedAlike, WritesZip64, NeedsZip64, Zip64Values, Exceeds, IsLocal, Local
  <2>3. QED
    BY <1>2, <1>4, <2>1, <2>2, SameLength DEF p
<1>13. ents'[cur'] = r
    BY <1>1, <1>2, <1>3
<1>14. WrittenSoFar'
    BY <1>1, <1>4, <1>7, <1>8, <1>9, <1>11, <1>12, <1>13 DEF WrittenSoFar
<1>15. QED
    BY <1>1, <1>14 DEF WrittenAll

\* The first form of a record does not depend on the sizes that are found.
LEMMA FirstFormStays ==
    ASSUME NEW d, NEW r, NEW n \in Nat, SizedRecord(d), d.efs \in Seq(Fields({"x", "y"}, Units)),
           r = [d EXCEPT !.comp = n, !.uncomp = d.actual], d.stat = Unknown => d.force
    PROVE  Len(Header(FirstForm(d), Local)) = Len(Header(FirstForm(r), Local))
<1> DEFINE a == FirstForm(d)
           b == FirstForm(r)
<1>1. SizedRecord(r) /\ r.stat = d.stat /\ r.force = d.force /\ r.efs = d.efs /\ r.name = d.name
      /\ r.comment = d.comment /\ r.offset = d.offset /\ r.stale = d.stale /\ r.method = d.method
    BY DEF SizedRecord
<1>2. /\ a.efs = d.efs /\ a.name = d.name /\ a.comment = d.comment /\ a.force = d.force
      /\ d.stat # Unknown =>
            a.uncomp = d.stat /\ a.comp = IF d.method = "store" THEN d.stat ELSE d.stale
    BY DEF FirstForm, SizedRecord
<1>3. /\ b.efs = d.efs /\ b.name = d.name /\ b.comment = d.comment /\ b.force = d.force
      /\ d.stat # Unknown =>
            b.uncomp = d.stat /\ b.comp = IF d.method = "store" THEN d.stat ELSE d.stale
    BY <1>1 DEF FirstForm, SizedRecord
<1> HIDE DEF a, b
<1>4. FormedAlike(a, b)
  <2>1. CASE d.stat = Unknown
    <3>1. a.force /\ b.force
      BY <1>2, <1>3, <2>1
    <3>2. WritesZip64(a, Local) /\ WritesZip64(b, Local)
      BY <3>1 DEF WritesZip64, IsLocal, Local
    <3>3. /\ Zip64Values(a, Local) = <<a.uncomp, a.comp>>
          /\ Zip64Values(b, Local) = <<b.uncomp, b.comp>>
      BY <3>1 DEF Zip64Values, IsLocal, Local
    <3>4. QED
      BY <1>2, <1>3, <3>2, <3>3 DEF FormedAlike
  <2>2. CASE d.stat # Unknown
    <3>1. a.uncomp = b.uncomp /\ a.comp = b.comp /\ a.force = b.force
      BY <1>2, <1>3, <2>2
    <3>2. QED
      BY <1>2, <1>3, <3>1
         DEF FormedAlike, WritesZip64, NeedsZip64, Zip64Values, Exceeds, IsLocal, Local
  <2>3. QED
    BY <2>1, <2>2
<1>5. QED
    BY <1>2, <1>4, SameLength DEF a, b

\* Its data follows.
LEMMA CopySourceLayout ==
    ASSUME FormatInv, FieldsInv, TornInv, LayoutInv, IsList(file'), CopySource
    PROVE  WrittenSoFar' /\ WrittenAll'
<1> DEFINE d == ents[cur]
           N == Len(file)
<1>1. PICK n \in Lengths(d) :
         /\ file' = file \o DataOf(cur, n)
         /\ ents' = [ents EXCEPT ![cur].comp = n, ![cur].uncomp = d.actual]
    BY DEF CopySource
<1> DEFINE r == [d EXCEPT !.comp = n, !.uncomp = d.actual]
           x == DataOf(cur, n)
           at == start + Len(Header(FirstForm(d), Local))
<1>2. cur' = cur /\ phase = "data" /\ phase' = "final" /\ start' = start /\ torn' = torn
    BY DEF CopySource
<1>3. PartsKept /\ WrittenSoFar /\ IsList(file) /\ start \in Nat
    BY DEF LayoutInv, TornInv, FileKept
<1>4. /\ Len(ents) \in Nat /\ DOMAIN ents = 1..Len(ents) /\ cur \in DOMAIN ents
      /\ SizedRecord(d) /\ d.efs \in Seq(Fields({"x", "y"}, Units))
    BY <1>2 DEF FormatInv, RecordsKept, HeadFollowsStat, FieldsInv, FieldsKept
<1>5. n \in Nat
    BY <1>4, WidthsAssumption DEF Lengths, SizedRecord
<1>6. ents' = [ents EXCEPT ![cur] = r]
    BY <1>1, <1>4
<1>7. /\ r.offset = d.offset /\ r.stat = d.stat /\ r.force = d.force /\ r.comp = n
      /\ r.nested = d.nested /\ r.kind = d.kind
    BY <1>4 DEF SizedRecord
<1>8. Len(Header(FirstForm(d), Local)) = Len(Header(FirstForm(r), Local))
  <2>1. d.stat = Unknown => d.force
    BY <1>2, <1>3 DEF WrittenSoFar
  <2> HIDE DEF d
  <2>2. QED
    BY <1>4, <1>5, <2>1, FirstFormStays
<1>9. /\ Len(ents') = Len(ents) /\ DOMAIN ents' = DOMAIN ents
      /\ \A j \in DOMAIN ents : ents'[j] = IF j = cur THEN r ELSE ents[j]
  <2> HIDE DEF r
  <2>1. QED
    BY ONLY <1>4, <1>6, Updated
<1>10. ents'[cur'] = r
    BY <1>2, <1>4, <1>9
<1>11. /\ NoEnds(N) /\ StoredTo(start) /\ ~torn /\ N = at
       /\ d.kind = "add" /\ d.offset = start /\ (d.stat = Unknown => d.force)
    BY <1>2, <1>3 DEF WrittenSoFar
<1>12. Harmless(x) /\ Len(x) = n /\ IsList(x)
    BY <1>5, DataHarmless, DataLength
<1> HIDE DEF r
<1>13. /\ Len(file') = N + n /\ N \in Nat /\ Agrees(file', file, N)
       /\ Holds(file', N, x)
    BY <1>1, <1>3, <1>12, Longer
<1>14. NoEnds(Len(file))'
  <2>1. Len(ents) > 0 /\ Len(ents') > 0
    BY <1>4, <1>9
  <2> HIDE DEF x
  <2>2. QED
    BY <1>1, <1>3, <1>11, <1>12, <2>1, NoEndsMore DEF x
<1>15. Len(Header(FirstForm(d), Local)) \in Nat
  <2>1. FirstForm(d).efs = d.efs
    BY <1>4 DEF FirstForm, SizedRecord
  <2>2. QED
    BY <1>4, <2>1, HeaderHarmless
<1>16. PICK m \in Nat : m = start
    BY <1>3
<1>17. StoredTo(start)'
  <2>1. BeforeKept
    <3>1. ASSUME NEW i \in DOMAIN ents, i < cur PROVE ents'[i] = ents[i]
      <4>1. i # cur
        BY <1>4, <3>1
      <4>2. QED
        BY <1>9, <4>1
    <3>2. QED
      BY <1>9, <3>1 DEF BeforeKept
  <2>2. m <= m /\ Len(file') \in Nat /\ start' = m /\ cur' = cur
    BY <1>2, <1>5, <1>13, <1>16
  <2>3. StoredStill(m)
    <3>1. m <= N /\ Agrees(file', file, m) /\ StoredTo(m)
      <4>1. m <= N
        BY <1>11, <1>15, <1>16
      <4>2. QED
        BY <1>11, <1>13, <1>16, <4>1 DEF Agrees
    <3>2. QED
      BY <1>3, <2>1, <2>2, <3>1, StoredToKept
  <2>4. QED
    BY <2>2, <2>3, StoredIs
<1>18. DataOf(cur, ents[cur].comp)' = x
  <2>1. ents'[cur'].comp = n /\ ents'[cur'].nested = d.nested
    BY <1>7, <1>10
  <2>2. QED
    BY <1>2, <2>1 DEF DataOf, DataCells
<1>19. Len(Header(FirstForm(ents[cur]), Local))' = Len(Header(FirstForm(d), Local))
    BY <1>8, <1>10
<1>20. WrittenSoFar'
  <2>1. Len(file') = (start + Len(Header(FirstForm(ents[cur]), Local)))' + ents'[cur'].comp
    BY <1>2, <1>7, <1>10, <1>11, <1>13, <1>19
  <2>2. Holds(file', (start + Len(Header(FirstForm(ents[cur]), Local)))', DataOf(cur, ents[cur].comp)')
    BY <1>2, <1>11, <1>13, <1>18, <1>19
  <2>3. /\ ents'[cur'].kind = "add" /\ ents'[cur'].offset = start'
        /\ (ents'[cur'].stat = Unknown => ents'[cur'].force)
    BY <1>2, <1>7, <1>10, <1>11
  <2>4. ~torn' /\ phase' = "final"
    BY <1>2, <1>11
  <2>5. QED
    BY <1>14, <1>17, <2>1, <2>2, <2>3, <2>4 DEF WrittenSoFar
<1>21. QED
    BY <1>2, <1>20 DEF WrittenAll

\* What an overwritten file holds.
LEMMA Overwritten ==
    ASSUME NEW f, IsList(f), NEW at \in Nat, NEW s, IsList(s), at <= Len(f)
    PROVE  /\ IsList(Overwrite(f, at, s)) /\ Len(Overwrite(f, at, s)) = Len(f)
           /\ Agrees(Overwrite(f, at, s), f, at)
           /\ \A i \in 1..Len(f) : Overwrite(f, at, s)[i] =
                 IF i \in at + 1..at + Len(s) THEN s[i - at] ELSE f[i]
<1> DEFINE g == Overwrite(f, at, s)
           v(i) == IF i \in at + 1..at + Len(s) THEN s[i - at] ELSE f[i]
<1>1. Len(f) \in Nat /\ Len(s) \in Nat
    BY DEF IsList
<1>2. g = [i \in 1..Len(f) |-> v(i)]
    BY DEF Overwrite
<1> HIDE DEF v
<1>3. IsList(g) /\ Len(g) = Len(f) /\ \A i \in 1..Len(f) : g[i] = v(i)
  <2>1. Len(g) = Len(f)
    BY <1>1, <1>2
  <2>2. QED
    BY <1>1, <1>2, <2>1 DEF IsList
<1> HIDE DEF g
<1>4. ASSUME NEW i \in 1..at PROVE g[i] = f[i]
    BY <1>1, <1>3 DEF v
<1>5. Agrees(g, f, at)
    BY <1>1, <1>3, <1>4 DEF Agrees
<1>6. QED
    BY <1>3, <1>5 DEF g, v

\* The second header of an entry has the length of the first.
LEMMA HeaderStays ==
    ASSUME FormatInv, FieldsInv, LayoutInv, WriteFinal, phase' = "head",
           NEW r, r = Versioned(ents[cur]), ~Irregular(r), ents[cur].kind = "add"
    PROVE  Len(Header(FirstForm(ents[cur]), Local)) = Len(Header(r, Local))
<1> DEFINE d == ents[cur]
<1>1. /\ phase = "final" /\ (WritesZip64(r, Local) = is64)
    BY DEF WriteFinal
<1>2. /\ cur \in DOMAIN ents /\ SizedRecord(d) /\ d.efs \in Seq(Fields({"x", "y"}, Units))
      /\ is64 \in BOOLEAN
    BY <1>1 DEF FormatInv, RecordsKept, HeadFollowsStat, FieldsInv, FieldsKept
<1>3. d.stat = Unknown => d.force
    BY <1>1 DEF LayoutInv, WrittenSoFar
<1>4. /\ d.stat # Unknown =>
            /\ d.force <=> d.method = "deflate" /\ d.stat > MaxSize("deflate")
            /\ is64 <=> \/ d.force \/ d.stat >= M32
                        \/ d.method = "deflate" /\ d.stale >= M32
      /\ d.uncomp = d.actual /\ d.comp \in Lengths(d)
    BY <1>1 DEF FormatInv, HeadFollowsStat, DataSized
<1> HIDE DEF d
<1>5. /\ r.kind = d.kind /\ r.stat = d.stat /\ r.actual = d.actual /\ r.method = d.method
      /\ r.stale = d.stale /\ r.comp = d.comp /\ r.uncomp = d.uncomp /\ r.efs = d.efs
      /\ r.name = d.name /\ r.comment = d.comment /\ r.force = d.force /\ r.offset = d.offset
      /\ SizedRecord(r)
    BY <1>2 DEF SizedRecord, Versioned, d
<1>6. /\ FirstForm(r).efs = FirstForm(d).efs /\ FirstForm(r).name = FirstForm(d).name
      /\ FirstForm(r).comment = FirstForm(d).comment /\ FirstForm(r).force = FirstForm(d).force
      /\ FirstForm(r).uncomp = FirstForm(d).uncomp /\ FirstForm(r).comp = FirstForm(d).comp
      /\ FirstForm(d).efs = d.efs /\ FirstForm(r).force = d.force
      /\ d.stat # Unknown => /\ FirstForm(r).uncomp = d.stat
                             /\ FirstForm(r).comp = IF d.method = "store" THEN d.stat ELSE d.stale
    BY <1>2, <1>5 DEF FirstForm, SizedRecord
<1>7. FormedAlike(FirstForm(d), FirstForm(r))
  <2> DEFINE a == FirstForm(d)
             b == FirstForm(r)
  <2>1. /\ a.efs = b.efs /\ a.name = b.name /\ a.comment = b.comment /\ a.force = b.force
        /\ a.uncomp = b.uncomp /\ a.comp = b.comp
    BY <1>6
  <2> HIDE DEF a, b
  <2>2. FormedAlike(a, b)
    BY <2>1 DEF FormedAlike, WritesZip64, NeedsZip64, Zip64Values, Exceeds, IsLocal, Local
  <2>3. QED
    BY <2>2 DEF a, b
<1>8. Len(Header(FirstForm(d), Local)) = Len(Header(FirstForm(r), Local))
    BY <1>2, <1>6, <1>7, SameLength
<1>9. WritesZip64(FirstForm(r), Local) <=> WritesZip64(r, Local)
  <2>1. CASE d.stat = Unknown
    BY <1>3, <1>5, <1>6, <2>1 DEF WritesZip64, IsLocal, Local
  <2>2. CASE d.stat # Unknown
    <3>1. is64 <=> WritesZip64(FirstForm(r), Local)
      <4> DEFINE b == FirstForm(r)
      <4>1. /\ b.force = d.force /\ b.uncomp = d.stat
            /\ b.comp = IF d.method = "store" THEN d.stat ELSE d.stale
        BY <1>6, <2>2
      <4>2. d.method \in {"store", "deflate"}
        BY <1>2 DEF SizedRecord
      <4> HIDE DEF b
      <4>3. is64 <=> WritesZip64(b, Local)
        BY <1>4, <2>2, <4>1, <4>2 DEF WritesZip64, NeedsZip64, IsLocal, Local
      <4>4. QED
        BY <4>3 DEF b
    <3>2. QED
      BY <1>1, <3>1
  <2>3. QED
    BY <2>1, <2>2
<1>10. Len(Header(FirstForm(r), Local)) = Len(Header(r, Local))
  <2>1. ~AtBoundary(r, Local) /\ ~ResizedAtBoundary(r)
    BY DEF Irregular
  <2>2. r.comp \in Lengths(r) /\ r.kind = "add"
    BY <1>4, <1>5 DEF Lengths, d
  <2>3. QED
    BY <1>2, <1>3, <1>4, <1>5, <1>9, <2>1, <2>2, SecondFits
<1>11. QED
    BY <1>8, <1>10 DEF d

\* The header is written once more, over the first.
LEMMA WriteFinalLayout ==
    ASSUME FormatInv, FieldsInv, TornInv, LayoutInv, IsList(file'), WriteFinal
    PROVE  WrittenSoFar' /\ WrittenAll'
<1> DEFINE d == ents[cur]
           r == Versioned(d)
           H == Header(r, Local)
           A == Len(Header(FirstForm(d), Local))
           N == Len(file)
<1>1. /\ phase = "final" /\ cur' = cur + 1 /\ torn' = torn
      /\ ents' = [ents EXCEPT ![cur] = r] /\ file' = Overwrite(file, start, H)
      /\ phase' = "head" \/ phase' = "failed"
    BY DEF WriteFinal
<1>2. CASE phase' = "failed"
    BY <1>2 DEF WrittenSoFar, WrittenAll
<1>3. CASE phase' = "head"
  <2>1. PartsKept /\ WrittenSoFar /\ IsList(file) /\ start \in Nat
    BY DEF LayoutInv, TornInv, FileKept
  <2>2. /\ Len(ents) \in Nat /\ DOMAIN ents = 1..Len(ents) /\ cur \in DOMAIN ents
        /\ SizedRecord(d) /\ d.efs \in Seq(Fields({"x", "y"}, Units)) /\ d.comp \in Nat
    BY <1>1 DEF FormatInv, RecordsKept, HeadFollowsStat, FieldsInv, FieldsKept, SizedRecord
  <2>3. /\ r.offset = d.offset /\ r.comp = d.comp /\ r.nested = d.nested /\ r.efs = d.efs
    BY <2>2 DEF SizedRecord, Versioned
  <2>4. FirstForm(d).efs = d.efs
    BY <2>2 DEF FirstForm, SizedRecord
  <2>5. /\ NoEnds(N) /\ StoredTo(start) /\ ~torn /\ N = (start + A) + d.comp
        /\ d.kind = "add" /\ d.offset = start /\ Holds(file, start + A, DataOf(cur, d.comp))
    BY <1>1, <2>1 DEF WrittenSoFar
  <2>6. /\ Len(ents') = Len(ents) /\ DOMAIN ents' = DOMAIN ents
        /\ \A j \in DOMAIN ents : ents'[j] = IF j = cur THEN r ELSE ents[j]
    <3> HIDE DEF r
    <3>1. QED
      BY ONLY <1>1, <2>2, Updated
  <2>7. ents'[cur] = r
    BY <2>2, <2>6
  <2>8. ~Irregular(r) => A = Len(H)
    BY <1>3, <2>5, HeaderStays
  <2> HIDE DEF r
  <2>9. Harmless(H) /\ Len(H) \in Nat /\ IsList(H)
    BY <2>2, <2>3, HeaderHarmless DEF Harmless
  <2>10. A \in Nat
    BY <2>2, <2>4, HeaderHarmless
  <2> HIDE DEF A, H
  <2>11. N \in Nat /\ start <= N
    BY <2>1, <2>2, <2>5, <2>10
  <2>12. /\ Len(file') = N /\ Agrees(file', file, start)
         /\ \A i \in 1..N : file'[i] =
               IF i \in start + 1..start + Len(H) THEN H[i - start] ELSE file[i]
    BY <1>1, <2>1, <2>9, <2>11, Overwritten
  <2>13. NoEnds(Len(file))'
    <3>1. Len(ents') > 0
      BY <2>2, <2>6
    <3>2. ASSUME NEW i \in 1..N
          PROVE  file'[i].k # "loc64" /\ (file'[i].k = "eocd" => file'[i] = EmptyEnd)
      <4>1. CASE i \in start + 1..start + Len(H)
        <5>1. file'[i] = H[i - start] /\ i - start \in 1..Len(H)
          BY <2>1, <2>9, <2>12, <4>1
        <5>2. QED
          BY <2>9, <5>1 DEF Harmless
      <4>2. CASE ~(i \in start + 1..start + Len(H))
        BY <2>5, <2>12, <4>2 DEF NoEnds
      <4>3. QED
        BY <4>1, <4>2
    <3>3. QED
      BY <2>12, <3>1, <3>2 DEF NoEnds
  <2>14. PICK c \in Nat : c = cur
    BY <2>2
  <2>15. PICK m \in Nat : m = N
    BY <2>11
  <2>16. PICK n \in Nat : n = start
    BY <2>1
  <2>17. StoredStill(m)
    <3>1. BeforeKept
      <4>1. ASSUME NEW i \in DOMAIN ents, i < cur PROVE ents'[i] = ents[i]
        <5>1. i # cur
          BY <2>2, <4>1
        <5>2. QED
          BY <2>6, <5>1
      <4>2. QED
        BY <2>6, <4>1 DEF BeforeKept
    <3>2. n <= m /\ Len(file') \in Nat /\ Agrees(file', file, n) /\ StoredTo(n)
      BY <2>5, <2>11, <2>12, <2>15, <2>16
    <3>3. QED
      BY <2>1, <3>1, <3>2, StoredToKept
  <2>18. StoredNow(c, m)
    <3>1. SUFFICES ASSUME ~Irregular(r) PROVE Stored(c, m)'
      BY <2>7, <2>14 DEF StoredNow
    <3>2. A = Len(H)
      BY <2>8, <3>1
    <3>3. ASSUME NEW i \in 1..Len(H) PROVE file'[start + i] = H[i]
      <4>1. start + i \in 1..N /\ start + i \in start + 1..start + Len(H) /\ (start + i) - start = i
        BY <2>1, <2>2, <2>5, <2>9, <3>2
      <4>2. QED
        BY <2>12, <4>1
    <3>4. Holds(file', start, H)
      <4>1. start + Len(H) <= N
        BY <2>1, <2>2, <2>5, <2>9, <3>2
      <4>2. QED
        BY <2>12, <3>3, <4>1 DEF Holds
    <3>5. Len(DataOf(cur, d.comp)) = d.comp
      BY <2>2, DataLength
    <3> DEFINE D == DataOf(cur, d.comp)
    <3>6. DataOf(c, d.comp) = D
      BY <2>14
    <3> HIDE DEF D
    <3>7. ASSUME NEW i \in 1..Len(D) PROVE file'[(start + A) + i] = D[i]
      <4>1. /\ (start + A) + i \in 1..N /\ (start + A) + i \notin start + 1..start + Len(H)
        BY <2>1, <2>2, <2>5, <2>10, <3>2, <3>5 DEF D
      <4>2. file'[(start + A) + i] = file[(start + A) + i]
        BY <2>12, <4>1
      <4>3. QED
        BY <2>5, <4>2 DEF Holds, D
    <3>8. Holds(file', start + A, D)
      <4>1. (start + A) + Len(D) <= N
        BY <2>5, <3>5 DEF D
      <4>2. QED
        BY <2>12, <3>7, <4>1 DEF Holds
    <3>9. ents'[c] = r /\ r.offset = start /\ r.comp = d.comp /\ r.nested = d.nested
      BY <2>3, <2>5, <2>7, <2>14
    <3>10. DataOf(c, ents[c].comp)' = D
      <4>1. ents'[c].comp = d.comp /\ ents'[c].nested = ents[c].nested
        BY <2>14, <3>9
      <4>2. QED
        BY <3>6, <4>1 DEF DataOf, DataCells
    <3>11. Header(ents[c], Local)' = H
      BY <3>9 DEF H
    <3>12. (start + A) + d.comp <= m
      BY <2>2, <2>5, <2>11, <2>15
    <3>13. QED
      BY <3>2, <3>4, <3>8, <3>9, <3>10, <3>11, <3>12 DEF Stored
  <2>19. StoredTo(Len(file))'
    <3>1. DOMAIN ents' \subseteq Nat /\ Len(file') = m
      BY <2>2, <2>6, <2>12, <2>15
    <3>2. QED
      BY <1>1, <2>14, <2>17, <2>18, <3>1, StoredNext
  <2>20. WrittenSoFar'
    BY <1>1, <1>3, <2>5, <2>13, <2>19 DEF WrittenSoFar
  <2>21. QED
    BY <1>3, <2>20 DEF WrittenAll
<1>4. QED
    BY <1>1, <1>2, <1>3

\* An entry whose data stays is copied behind the others.
LEMMA CopyEntryLayout ==
    ASSUME FormatInv, FieldsInv, TornInv, LayoutInv, IsList(file'), CopyEntry
    PROVE  WrittenSoFar' /\ WrittenAll'
<1> DEFINE d == ents[cur]
           N == Len(file)
           r == [d EXCEPT !.offset = N]
           H == Header(r, Local)
           D == DataOf(cur, d.comp)
<1>1. PartsKept /\ WrittenSoFar /\ IsList(file)
    BY DEF LayoutInv, TornInv, FileKept
<1>2. /\ phase = "head" /\ phase' = "head" /\ cur' = cur + 1 /\ torn' = torn /\ cur <= Len(ents)
      /\ ents' = [ents EXCEPT ![cur] = r] /\ file' = file \o H \o DataOf(cur, r.comp)
    BY DEF CopyEntry
<1>3. /\ Len(ents) \in Nat /\ DOMAIN ents = 1..Len(ents) /\ cur \in DOMAIN ents
      /\ SizedRecord(d) /\ d.efs \in Seq(Fields({"x", "y"}, Units)) /\ d.comp \in Nat
    BY <1>2 DEF FormatInv, RecordsKept, FieldsInv, FieldsKept, SizedRecord
<1>4. r.offset = N /\ r.comp = d.comp /\ r.nested = d.nested /\ r.efs = d.efs
    BY <1>3 DEF SizedRecord
<1>5. /\ Len(ents') = Len(ents) /\ DOMAIN ents' = DOMAIN ents
      /\ \A j \in DOMAIN ents : ents'[j] = IF j = cur THEN r ELSE ents[j]
  <2> HIDE DEF r
  <2>1. QED
    BY ONLY <1>2, <1>3, Updated
<1>6. ents'[cur] = r
    BY <1>3, <1>5
<1>7. NoEnds(N) /\ StoredTo(N) /\ ~torn
    BY <1>1, <1>2 DEF WrittenSoFar
<1> HIDE DEF r
<1>8. Harmless(H) /\ Len(H) \in Nat /\ IsList(H)
    BY <1>3, <1>4, HeaderHarmless DEF Harmless
<1>9. Harmless(D) /\ Len(D) = d.comp /\ IsList(D)
    BY <1>3, DataHarmless, DataLength
<1>10. DataOf(cur, r.comp) = D
    BY <1>4
<1> HIDE DEF H, D
<1> DEFINE x == H \o D
           g == file \o H
<1>11. file' = g \o D
    BY <1>2, <1>10
<1>12. /\ IsList(g) /\ Len(g) = N + Len(H) /\ N \in Nat /\ Agrees(g, file, N) /\ Holds(g, N, H)
    BY <1>1, <1>8, Longer
<1> HIDE DEF g
<1>13. /\ Len(file') = Len(g) + d.comp /\ Agrees(file', g, Len(g)) /\ Holds(file', Len(g), D)
    BY <1>9, <1>11, <1>12, Longer
<1>14. Holds(file', N, H) /\ Holds(file', N + Len(H), D) /\ Len(file') = (N + Len(H)) + d.comp
       /\ Len(file') \in Nat
  <2>1. Len(file') \in Nat
    BY <1>3, <1>8, <1>12, <1>13
  <2>2. N + Len(H) <= Len(g) /\ Len(g) \in Nat
    BY <1>8, <1>12
  <2>3. Holds(file', N, H)
    BY <1>8, <1>12, <1>13, <2>1, <2>2, HoldsKept
  <2>4. QED
    BY <1>12, <1>13, <2>1, <2>3
<1>15. Agrees(file', file, N)
  <2>1. N <= Len(file')
    BY <1>3, <1>8, <1>12, <1>14
  <2>2. ASSUME NEW j \in 1..N PROVE file'[j] = file[j]
    <3>1. j \in 1..Len(g)
      BY <1>8, <1>12
    <3>2. QED
      BY <1>12, <1>13, <3>1 DEF Agrees
  <2>3. QED
    BY <1>12, <2>1, <2>2 DEF Agrees
<1>16. NoEnds(Len(file))'
  <2>1. Len(ents) > 0 /\ Len(ents') > 0
    BY <1>3, <1>5
  <2>2. Harmless(file)
    BY <1>1, <1>7 DEF NoEnds, Harmless
  <2>3. Harmless(file')
    BY <1>8, <1>9, <1>11, <2>2, HarmlessJoined DEF g
  <2>4. QED
    BY <2>1, <2>3 DEF NoEnds, Harmless
<1>17. PICK c \in Nat : c = cur
    BY <1>3
<1>18. PICK m \in Nat : m = Len(file')
    BY <1>14
<1>19. PICK n \in Nat : n = N
    BY <1>12
<1>20. StoredStill(m)
  <2>1. BeforeKept
    <3>1. ASSUME NEW i \in DOMAIN ents, i < cur PROVE ents'[i] = ents[i]
      <4>1. i # cur
        BY <1>3, <3>1
      <4>2. QED
        BY <1>5, <4>1
    <3>2. QED
      BY <1>5, <3>1 DEF BeforeKept
  <2>2. n <= m /\ Len(file') \in Nat /\ Agrees(file', file, n) /\ StoredTo(n)
    <3>1. n <= m
      BY <1>3, <1>8, <1>12, <1>14, <1>18, <1>19
    <3>2. QED
      BY <1>7, <1>14, <1>15, <1>19, <3>1
  <2>3. QED
    BY <1>1, <2>1, <2>2, StoredToKept
<1>21. StoredNow(c, m)
  <2>1. SUFFICES Stored(c, m)'
    BY DEF StoredNow
  <2>2. ents'[c] = r /\ r.offset = N /\ r.comp = d.comp /\ r.nested = d.nested
    BY <1>4, <1>6, <1>17
  <2>3. DataOf(c, ents[c].comp)' = D
    <3>1. ents'[c].comp = d.comp /\ ents'[c].nested = ents[c].nested
      BY <1>17, <2>2
    <3>2. DataOf(c, d.comp) = D
      BY <1>17 DEF D
    <3>3. QED
      BY <3>1, <3>2 DEF DataOf, DataCells
  <2>4. Header(ents[c], Local)' = H
    BY <2>2 DEF H
  <2>5. (N + Len(H)) + d.comp <= m
    BY <1>3, <1>8, <1>12, <1>14, <1>18
  <2>6. QED
    BY <1>14, <2>2, <2>3, <2>4, <2>5 DEF Stored
<1>22. StoredTo(Len(file))'
  <2>1. DOMAIN ents' \subseteq Nat /\ Len(file') = m
    BY <1>3, <1>5, <1>18
  <2>2. QED
    BY <1>2, <1>17, <1>20, <1>21, <2>1, StoredNext
<1>23. WrittenSoFar'
    BY <1>2, <1>7, <1>16, <1>22 DEF WrittenSoFar
<1>24. QED
    BY <1>2, <1>23 DEF WrittenAll

\* The directory, its end records and the comment come last.
LEMMA WriteCdirLayout ==
    ASSUME FormatInv, FieldsInv, TornInv, LayoutInv, IsList(file'), WriteCdir
    PROVE  WrittenSoFar' /\ WrittenAll'
<1> DEFINE N == Len(file)
           C == Cdir
           S == Len(C)
           R == EndRecords(Len(ents), N, S)
<1>1. PartsKept /\ WrittenSoFar /\ IsList(file) /\ IsList(comment)
    BY DEF LayoutInv, TornInv, FileKept
<1>2. /\ phase = "head" /\ phase' = "written" /\ cur > Len(ents) /\ cur' = cur /\ ents' = ents
      /\ torn' = torn /\ comment' = comment /\ file' = file \o C \o R \o comment
    BY DEF WriteCdir, Cdir
<1>3. IsList(C) /\ IsList(R)
    BY CdirOrdinary, EndRecordsEnd DEF Cdir, Ordinary, Ending
<1>4. NoEnds(N) /\ StoredTo(N) /\ ~torn
    BY <1>1, <1>2 DEF WrittenSoFar
<1> HIDE DEF C, R
<1> DEFINE f1 == file \o C
           f2 == f1 \o R
<1>5. /\ IsList(f1) /\ Len(f1) = N + S /\ N \in Nat /\ S \in Nat /\ Agrees(f1, file, N)
      /\ Holds(f1, N, C)
    BY <1>1, <1>3, Longer
<1> HIDE DEF f1
<1>6. /\ IsList(f2) /\ Len(f2) = N + S + Len(R) /\ Len(R) \in Nat
      /\ Agrees(f2, f1, N + S) /\ Holds(f2, N + S, R)
    BY <1>3, <1>5, Longer
<1> HIDE DEF f2
<1>7. file' = f2 \o comment
    BY <1>2 DEF f1, f2
<1>8. /\ Len(file') = N + S + Len(R) + Len(comment) /\ Len(comment) \in Nat
      /\ Agrees(file', f2, N + S + Len(R)) /\ Holds(file', N + S + Len(R), comment)
    BY <1>1, <1>6, <1>7, Longer
<1>9. Len(file') \in Nat /\ N + S \in Nat /\ N + S + Len(R) \in Nat
    BY <1>5, <1>6, <1>8
<1>10. Holds(file', N + S, R)
  <2>1. Len(R) \in Nat /\ Len(f2) \in Nat
    BY <1>6, <1>9
  <2> DEFINE a == N + S
             b == N + S + Len(R)
  <2>2. a \in Nat /\ b \in Nat /\ a + Len(R) <= b /\ Holds(f2, a, R) /\ Agrees(file', f2, b)
    BY <1>5, <1>6, <1>8, <1>9
  <2> HIDE DEF a, b
  <2>3. Holds(file', a, R)
    BY <1>9, <2>1, <2>2, HoldsKept
  <2>4. QED
    BY <2>3 DEF a
<1>11. Holds(file', N, C) /\ Agrees(file', file, N)
  <2> DEFINE a == N + S
             b == N + S + Len(R)
  <2>1. a \in Nat /\ b \in Nat /\ a <= b /\ N + Len(C) <= a /\ Agrees(file', f2, b)
        /\ Agrees(f2, f1, a) /\ Len(file') \in Nat /\ N <= a
    BY <1>5, <1>6, <1>8, <1>9
  <2> HIDE DEF a, b
  <2>2. ASSUME NEW j \in 1..a PROVE file'[j] = f1[j]
    <3>1. j \in 1..b
      BY <2>1
    <3>2. QED
      BY <2>1, <3>1 DEF Agrees
  <2>3. Agrees(file', f1, a)
    <3>1. a <= Len(f1) /\ b <= Len(file')
      BY <2>1 DEF Agrees
    <3>2. a <= Len(file')
      BY <2>1, <3>1
    <3>3. QED
      BY <2>2, <3>1, <3>2 DEF Agrees
  <2>4. Holds(file', N, C)
    BY <1>5, <2>1, <2>3, HoldsKept
  <2>5. ASSUME NEW j \in 1..N PROVE file'[j] = file[j]
    <3>1. j \in 1..a
      BY <1>5, <2>1
    <3>2. QED
      BY <1>5, <2>3, <3>1 DEF Agrees
  <2>6. N <= Len(file')
    BY <1>5, <2>1, <2>3 DEF Agrees
  <2>7. QED
    BY <1>5, <2>4, <2>5, <2>6 DEF Agrees
<1>12. PICK n \in Nat : n = N
    BY <1>5
<1>13. StoredTo(n)'
  <2>1. BeforeKept
    BY <1>2 DEF BeforeKept
  <2>2. n <= n /\ Agrees(file', file, n) /\ StoredTo(n)
    BY <1>4, <1>11, <1>12
  <2>3. StoredStill(n)
    BY <1>1, <1>9, <2>1, <2>2, StoredToKept
  <2>4. QED
    BY <1>2, <2>3 DEF StoredStill, StoredTo
<1>14. NoEnds(n)'
    BY <1>2, <1>4, <1>11, <1>12 DEF NoEnds, Agrees
<1>15. Cdir' = C /\ EndRecords(Len(ents), n, Len(Cdir))' = R
  <2>1. Cdir' = C
    BY <1>2 DEF Cdir, C
  <2>2. EndRecords(Len(ents), n, Len(Cdir))' = EndRecords(Len(ents), n, Len(Cdir))
    BY <1>2, <2>1 DEF EndRecords, C
  <2>3. QED
    BY <1>12, <2>1, <2>2 DEF R, C
<1>16. DirectoryAt(n)'
    BY <1>2, <1>8, <1>10, <1>11, <1>12, <1>13, <1>14, <1>15 DEF DirectoryAt
<1>17. n \in 0..Len(file')
    BY <1>5, <1>8, <1>9, <1>12
<1>18. WrittenAll'
  <2>1. cur' > Len(ents')
    BY <1>2
  <2>2. QED
    BY <1>16, <1>17, <2>1 DEF WrittenAll
<1>19. QED
    BY <1>2, <1>18 DEF WrittenSoFar

\* The caller edits extra fields, then calls zip_close.
LEMMA EditLayout ==
    ASSUME FormatInv, LayoutInv, phase = "edit", phase' \in {"edit", "head"},
           cur' = cur, file' = file, torn' = torn, DOMAIN ents' = DOMAIN ents,
           Len(ents') = Len(ents)
    PROVE  WrittenSoFar' /\ WrittenAll'
<1>1. WrittenSoFar /\ DOMAIN ents' \subseteq 1..Len(ents) /\ Len(ents) \in Nat
    BY DEF LayoutInv, FormatInv, RecordsKept
<1>2. cur = 1 /\ ~torn /\ NoEnds(Len(file))
    BY <1>1 DEF WrittenSoFar
<1>3. NoEnds(Len(file))'
    BY <1>2 DEF NoEnds
<1>4. StoredTo(Len(file))'
  <2>1. ASSUME NEW i \in DOMAIN ents' PROVE ~(i < cur')
    BY <1>1, <1>2
  <2>2. QED
    BY <2>1 DEF StoredTo
<1>5. WrittenSoFar'
    BY <1>2, <1>3, <1>4 DEF WrittenSoFar
<1>6. QED
    BY <1>5 DEF WrittenAll

\* Nothing that the invariant is about changes.
LEMMA SameLayout ==
    ASSUME WrittenAll, ents' = ents, comment' = comment, cur' = cur, file' = file, torn' = torn,
           phase \in {"written", "opened", "rejected"}
    PROVE  WrittenAll'
<1>1. ASSUME ~torn PROVE cur' > Len(ents') /\ \E n \in 0..Len(file') : DirectoryAt(n)'
  <2>1. PICK n \in 0..Len(file) : DirectoryAt(n)
    BY <1>1 DEF WrittenAll
  <2>2. DirectoryAt(n)'
    BY <2>1 DEF DirectoryAt, Cdir, EndRecords, StoredTo, Stored, DataOf, DataCells, NoEnds
  <2>3. QED
    BY <1>1, <2>2 DEF WrittenAll
<1>2. QED
    BY <1>1 DEF WrittenAll

\* Every step keeps the layout.
LEMMA NextLayout ==
    ASSUME FormatInv, FieldsInv, TornInv, LayoutInv, IsList(file'), [Next]_vars
    PROVE  LayoutInv'
<1>1. Len(file) \in Nat /\ PartsKept
    BY DEF TornInv, FileKept, IsList, LayoutInv
<1>2. PartsKept'
    BY <1>1, NextParts
<1>3. SUFFICES WrittenSoFar' /\ WrittenAll'
    BY <1>2 DEF LayoutInv
<1>4. /\ comment' = comment
      /\ Len(ents) \in Nat /\ DOMAIN ents = 1..Len(ents)
    BY DecoyStays DEF FormatInv, RecordsKept
<1>5. ASSUME NEW efs, ents' = [ents EXCEPT ![1].efs = efs]
      PROVE  DOMAIN ents' = DOMAIN ents /\ Len(ents') = Len(ents)
  <2> DEFINE r == [ents[1] EXCEPT !.efs = efs]
  <2>1. ents' = [ents EXCEPT ![1] = r]
    BY <1>5
  <2> HIDE DEF r
  <2>2. QED
    BY <1>4, <2>1, Updated
<1>6. ASSUME NEW id, NEW which, NEW vals, NEW f, ExtraFieldSet(id, which, vals, f)
      PROVE  WrittenSoFar' /\ WrittenAll'
  <2>1. PICK efs : ents' = [ents EXCEPT ![1].efs = efs]
    BY <1>6 DEF ExtraFieldSet
  <2>2. phase = "edit" /\ phase' = "edit" /\ cur' = cur /\ file' = file /\ torn' = torn
    BY <1>6 DEF ExtraFieldSet
  <2>3. QED
    BY <1>5, <2>1, <2>2, EditLayout
<1>7. ASSUME NEW ids, NEW which, NEW f, ExtraFieldDelete(ids, which, f)
      PROVE  WrittenSoFar' /\ WrittenAll'
  <2>1. PICK efs : ents' = [ents EXCEPT ![1].efs = efs]
    BY <1>7 DEF ExtraFieldDelete
  <2>2. phase = "edit" /\ phase' = "edit" /\ cur' = cur /\ file' = file /\ torn' = torn
    BY <1>7 DEF ExtraFieldDelete
  <2>3. QED
    BY <1>5, <2>1, <2>2, EditLayout
<1>8. CASE StartClose
  <2>1. /\ phase = "edit" /\ phase' = "head" /\ cur' = cur /\ file' = file /\ torn' = torn
        /\ ents' = ents
    BY <1>8 DEF StartClose
  <2>2. QED
    BY <2>1, EditLayout
<1>9. CASE WriteHead
    BY <1>9, WriteHeadLayout
<1>10. CASE CopySource
    BY <1>10, CopySourceLayout
<1>11. CASE WriteFinal
    BY <1>11, WriteFinalLayout
<1>12. CASE CopyEntry
    BY <1>12, CopyEntryLayout
<1>13. CASE WriteCdir
    BY <1>13, WriteCdirLayout
<1>14. ASSUME NEW n, Tear(n) PROVE WrittenSoFar' /\ WrittenAll'
    BY <1>14 DEF Tear, WrittenSoFar, WrittenAll
<1>15. ASSUME NEW check, Open(check) PROVE WrittenSoFar' /\ WrittenAll'
  <2>1. /\ phase = "written" /\ phase' \in {"opened", "rejected"} /\ ents' = ents
        /\ cur' = cur /\ file' = file /\ torn' = torn
    BY <1>15 DEF Open
  <2>2. WrittenAll'
    BY <1>4, <2>1, SameLayout DEF LayoutInv
  <2>3. QED
    BY <2>1, <2>2 DEF WrittenSoFar
<1>16. CASE UNCHANGED vars
  <2>1. /\ phase' = phase /\ ents' = ents /\ comment' = comment /\ cur' = cur /\ file' = file
        /\ torn' = torn /\ start' = start
    BY <1>16 DEF vars
  <2>2. WrittenAll'
    <3>1. CASE phase \in {"written", "opened", "rejected"}
      BY <2>1, <3>1, SameLayout DEF LayoutInv
    <3>2. CASE phase \notin {"written", "opened", "rejected"}
      BY <2>1, <3>2 DEF WrittenAll
    <3>3. QED
      BY <3>1, <3>2
  <2>3. WrittenSoFar'
    BY <2>1 DEF LayoutInv, WrittenSoFar, NoEnds, StoredTo, Stored, DataOf, DataCells
  <2>4. QED
    BY <2>2, <2>3
<1>17. QED
    BY <1>6, <1>7, <1>8, <1>9, <1>10, <1>11, <1>12, <1>13, <1>14, <1>15, <1>16 DEF Next

LEMMA InitLayout == Init => LayoutInv
<1> SUFFICES ASSUME Init PROVE LayoutInv
    OBVIOUS
<1>1. PICK s \in Scenarios : ents = s.ents /\ comment = s.comment
    BY DEF Init
<1>2. /\ s.ents \in Seq(Dirents) /\ s.comment \in Seq({[k |-> "byte"], EmptyEnd})
      /\ Len(s.comment) <= M16
      /\ \A i \in DOMAIN s.ents : Accepted(s.ents[i].name) /\ Accepted(s.ents[i].comment)
    BY <1>1, ScenariosAssumption
<1>3. ASSUME NEW i \in DOMAIN ents PROVE ents[i].offset \in Nat /\ ents[i].ver \in Nat
  <2>1. ents[i] \in Dirents
    BY <1>1, <1>2
  <2>2. QED
    BY <2>1 DEF Dirents
<1>4. PartsKept
    BY <1>1, <1>2, <1>3 DEF PartsKept
<1>5. phase = "edit" /\ cur = 1 /\ ~torn /\ file = <<[k |-> "prefix"]>>
    BY DEF Init
<1>6. NoEnds(Len(file))
  <2>1. Len(file) = 1 /\ file[1].k = "prefix"
    BY <1>5
  <2>2. QED
    BY <2>1 DEF NoEnds
<1>7. StoredTo(Len(file))
  <2>1. ASSUME NEW i \in DOMAIN ents PROVE ~(i < cur)
    BY <1>1, <1>2, <1>5
  <2>2. QED
    BY <2>1 DEF StoredTo
<1>8. WrittenSoFar /\ WrittenAll
    BY <1>5, <1>6, <1>7 DEF WrittenSoFar, WrittenAll
<1>9. QED
    BY <1>4, <1>8 DEF LayoutInv

\* What zip_close writes is where the records say it is: the header and the
\* data of every entry at its offset, unless a limit was hit, then the
\* directory, its end records and the comment, and before them no end record
\* but those of archives inside of entries.
THEOREM LayoutInvariance == Spec => []LayoutInv
<1>1. Init => LayoutInv
    BY InitLayout
<1>2. TornInv' => IsList(file')
    BY DEF TornInv, FileKept
<1>3. /\ FormatInv /\ FieldsInv /\ TornInv /\ TornInv' /\ LayoutInv /\ [Next]_vars
      => LayoutInv'
    BY <1>2, NextLayout
<1>4. QED
    BY <1>1, <1>3, FormatInvariance, FieldsInvariance, TornInvariance, PTL DEF Spec

-----------------------------------------------------------------------------
(* The directory of a file that zip_close has finished is read back.       *)

\* What is known of such a file: its directory is at N.
Whole(N) ==
    /\ FormatInv /\ FieldsInv /\ PartsKept /\ IsList(file) /\ IsList(comment) /\ Regular
    /\ cur > Len(ents) /\ N \in Nat /\ N <= Len(file) /\ DirectoryAt(N)

CentralHeaders == [i \in DOMAIN ents |-> Header(ents[i], Central)]

\* Where the headers of the directory are.
Spots(p, N) ==
    /\ p \in [0..Len(ents) -> Nat] /\ p[0] = 0 /\ p[Len(ents)] = Len(Cdir)
    /\ \A j \in 1..Len(ents) :
          /\ p[j] = p[j - 1] + Len(Header(ents[j], Central))
          /\ p[j] <= Len(Cdir)
          /\ Holds(file, N + p[j - 1], Header(ents[j], Central))

\* Where each central header is in the directory.
LEMMA CdirPlaced ==
    ASSUME FormatInv, FieldsInv
    PROVE  /\ Len(CentralHeaders) = Len(ents)
           /\ \E p : PlacedAt(p, CentralHeaders, Cdir)
           /\ IsList(Cdir)
<1> DEFINE n == Len(ents)
           h(i) == Header(ents[i], Central)
           hs == [i \in DOMAIN ents |-> h(i)]
           S == UNION {Elements(h(i)) : i \in 1..n}
<1>1. n \in Nat /\ DOMAIN ents = 1..n
    BY DEF FormatInv, RecordsKept
<1>2. ASSUME NEW i \in 1..n PROVE h(i) \in Seq(S)
  <2>1. ents[i].efs \in Seq(Fields({"x", "y"}, Units))
    BY <1>1 DEF FieldsInv, FieldsKept
  <2>2. IsList(h(i))
    BY <2>1, HeaderHarmless DEF Harmless
  <2>3. h(i) \in Seq(Elements(h(i)))
    BY <2>2, ListSeq
  <2>4. Elements(h(i)) \subseteq S
    OBVIOUS
  <2> HIDE DEF h, S
  <2>5. QED
    BY <2>3, <2>4, SeqMonotonic
<1>3. hs \in [1..n -> Seq(S)]
  <2> HIDE DEF h, S, n
  <2>1. QED
    BY <1>1, <1>2
<1> HIDE DEF S, n
<1>4. hs = CentralHeaders
    BY DEF CentralHeaders
<1>5. Cdir = FlattenSeq(CentralHeaders)
    BY DEF Cdir, CentralHeaders
<1> HIDE DEF hs
<1>6. CentralHeaders \in Seq(Seq(S)) /\ Len(CentralHeaders) = n
    BY <1>1, <1>3, <1>4
<1>7. \E p : PlacedAt(p, CentralHeaders, Cdir)
    BY <1>5, <1>6, FlattenPlaced
<1>8. IsList(Cdir)
    BY <1>5, <1>6, FlattenType, SeqList
<1>9. QED
    BY <1>6, <1>7, <1>8 DEF n

\* Where each central header is in the file.
LEMMA SpotsExist ==
    ASSUME NEW N \in Nat, Whole(N)
    PROVE  \E p : Spots(p, N)
<1>1. /\ FormatInv /\ FieldsInv /\ IsList(file) /\ Len(ents) \in Nat /\ DOMAIN ents = 1..Len(ents)
      /\ Holds(file, N, Cdir) /\ Len(file) \in Nat
    BY DEF Whole, FormatInv, RecordsKept, DirectoryAt, IsList
<1>2. Len(CentralHeaders) = Len(ents) /\ IsList(Cdir)
    BY <1>1, CdirPlaced
<1>3. PICK p : PlacedAt(p, CentralHeaders, Cdir)
    BY <1>1, CdirPlaced
<1>4. p \in [0..Len(ents) -> Nat] /\ p[0] = 0 /\ p[Len(ents)] = Len(Cdir)
    BY <1>2, <1>3 DEF PlacedAt
<1>5. ASSUME NEW j \in 1..Len(ents)
      PROVE  /\ p[j] = p[j - 1] + Len(Header(ents[j], Central))
             /\ p[j] <= Len(Cdir)
             /\ Holds(file, N + p[j - 1], Header(ents[j], Central))
  <2> DEFINE H == Header(ents[j], Central)
  <2>1. CentralHeaders[j] = H
    BY <1>1 DEF CentralHeaders
  <2>2. ents[j].efs \in Seq(Fields({"x", "y"}, Units))
    BY <1>1 DEF FieldsInv, FieldsKept
  <2>3. Len(H) \in Nat
    BY <2>2, HeaderHarmless
  <2> HIDE DEF H
  <2>4. /\ p[j] = p[j - 1] + Len(H) /\ p[j] <= Len(Cdir)
        /\ \A i \in 1..Len(H) : Cdir[p[j - 1] + i] = H[i]
    BY <1>2, <1>3, <2>1 DEF PlacedAt
  <2>5. p[j - 1] \in Nat /\ p[j] \in Nat /\ Len(Cdir) \in Nat
    <3>1. j - 1 \in 0..Len(ents) /\ j \in 0..Len(ents)
      BY <1>1
    <3>2. QED
      BY <1>2, <1>4, <3>1 DEF IsList
  <2> DEFINE a == p[j - 1]
  <2>6. a \in Nat /\ a + Len(H) <= Len(Cdir) /\ \A i \in 1..Len(H) : Cdir[a + i] = H[i]
    BY <2>4, <2>5
  <2> HIDE DEF a
  <2>7. ASSUME NEW i \in 1..Len(H) PROVE file[(N + a) + i] = H[i]
    <3>1. a + i \in 1..Len(Cdir) /\ (N + a) + i = N + (a + i)
      BY <2>3, <2>5, <2>6
    <3>2. QED
      BY <1>1, <2>6, <3>1 DEF Holds
  <2>8. (N + a) + Len(H) <= Len(file)
    BY <1>1, <2>3, <2>5, <2>6 DEF Holds
  <2>9. Holds(file, N + a, H)
    BY <2>7, <2>8 DEF Holds
  <2>10. QED
    BY <2>4, <2>9 DEF a, H
<1>6. QED
    BY <1>4, <1>5 DEF Spots

\* A list, one longer.
LEMMA OneMore ==
    ASSUME NEW e, NEW j \in Nat
    PROVE  Append([i \in 1..j |-> e[i]], e[j + 1]) = [i \in 1..j + 1 |-> e[i]]
<1> DEFINE s == [i \in 1..j |-> e[i]]
           t == [i \in 1..j + 1 |-> e[i]]
           S == {e[i] : i \in 1..j + 1}
           x == e[j + 1]
<1>1. s \in Seq(S) /\ Len(s) = j /\ x \in S /\ t \in Seq(S) /\ Len(t) = j + 1
  <2>1. s \in [1..j -> S] /\ t \in [1..j + 1 -> S] /\ x \in S /\ j + 1 \in Nat
    OBVIOUS
  <2> HIDE DEF s, t, S, x
  <2>2. QED
    BY <2>1
<1> DEFINE u == Append(s, x)
<1>2. /\ u \in Seq(S) /\ Len(u) = j + 1 /\ u[j + 1] = x /\ \A i \in 1..j : u[i] = s[i]
  <2> HIDE DEF s, t, S, x
  <2>1. QED
    BY <1>1, AppendProperties
<1> HIDE DEF u
<1>3. ASSUME NEW i \in 1..j + 1 PROVE u[i] = t[i]
  <2>1. CASE i = j + 1
    BY <1>2, <2>1
  <2>2. CASE i # j + 1
    <3>1. i \in 1..j
      BY <2>2
    <3>2. QED
      BY <1>2, <3>1
  <2>3. QED
    BY <2>1, <2>2
<1> HIDE DEF s, t, S, x
<1>4. u = t
    BY <1>1, <1>2, <1>3
<1>5. QED
    BY <1>4 DEF u, s, t, x

LEMMA ReadLength ==
    ASSUME NEW r, NEW de, NEW flags, ReadBack(r, de, flags)
    PROVE  r.ok /\ r.len = Len(Header(de, flags))
BY DEF ReadBack

\* The entry at a place in the directory, and the entries before it.
EntryAt(p, N, i) == DirentRead(N + p[i - 1], Central, N + Len(Cdir))
EntriesRead(p, N, j) ==
    [ok |-> TRUE, at |-> N + p[j], es |-> [i \in 1..j |-> EntryAt(p, N, i)], n |-> Len(ents)]

\* Each of them is read as the record it was written from.
LEMMA EntryReadBack ==
    ASSUME NEW N \in Nat, Whole(N), NEW p, Spots(p, N), NEW j \in 1..Len(ents)
    PROVE  /\ ReadBack(EntryAt(p, N, j), ents[j], Central)
           /\ N + p[j - 1] < N + Len(Cdir) /\ p[j] \in Nat /\ p[j - 1] \in Nat
           /\ p[j] = p[j - 1] + EntryAt(p, N, j).len /\ Len(Cdir) \in Nat
           /\ p[j] >= p[j - 1] + 2
<1> DEFINE de == ents[j]
           H == Header(de, Central)
<1>1. /\ FormatInv /\ FieldsInv /\ PartsKept /\ IsList(file) /\ DOMAIN ents = 1..Len(ents)
      /\ Len(ents) \in Nat /\ Regular /\ Holds(file, N, Cdir) /\ Len(file) \in Nat
    BY DEF Whole, FormatInv, RecordsKept, DirectoryAt, IsList
<1>2. j \in DOMAIN ents
    BY <1>1
<1>3. Fine(de, Central)
    BY <1>1, <1>2, KnownRecord DEF Fine, Regular, Irregular
<1>4. Len(H) \in Nat /\ Len(H) >= 2
    BY <1>3, HeaderHarmless DEF Fine
<1>5. IsList(Cdir)
    BY <1>1, CdirPlaced
<1>6. Len(Cdir) \in Nat /\ N + Len(Cdir) \in Nat /\ N + Len(Cdir) <= Len(file)
    BY <1>1, <1>5 DEF IsList, Holds
<1>7. p[j] \in Nat /\ p[j - 1] \in Nat
  <2>1. j - 1 \in 0..Len(ents) /\ j \in 0..Len(ents)
    BY <1>1
  <2>2. QED
    BY <2>1 DEF Spots
<1>8. p[j] = p[j - 1] + Len(H) /\ p[j] <= Len(Cdir) /\ Holds(file, N + p[j - 1], H)
    BY DEF Spots
<1>9. N + p[j - 1] \in Nat /\ (N + p[j - 1]) + Len(H) <= N + Len(Cdir)
    BY <1>4, <1>6, <1>7, <1>8
<1>10. ReadBack(EntryAt(p, N, j), de, Central)
  <2> DEFINE a == N + p[j - 1]
             b == N + Len(Cdir)
  <2>1. a \in Nat /\ b \in Nat /\ b <= Len(file) /\ a + Len(H) <= b /\ Holds(file, a, H)
    BY <1>6, <1>8, <1>9
  <2> HIDE DEF a, b, de
  <2>2. ReadBack(DirentRead(a, Central, b), de, Central)
    BY <1>1, <1>3, <2>1, DirentReadBack
  <2>3. QED
    BY <2>2 DEF EntryAt, a, b
<1>11. EntryAt(p, N, j).len = Len(H)
    BY ONLY <1>10, ReadLength
<1>12. N + p[j - 1] < N + Len(Cdir) /\ p[j] >= p[j - 1] + 2
  <2> DEFINE a == p[j - 1]
             h == Len(H)
             c == Len(Cdir)
  <2>1. a \in Nat /\ h \in Nat /\ c \in Nat /\ h >= 2 /\ p[j] = a + h /\ p[j] <= c
    BY <1>4, <1>6, <1>7, <1>8
  <2> HIDE DEF a, h, c
  <2>2. N + a < N + c /\ p[j] >= a + 2
    BY <2>1
  <2>3. QED
    BY <2>2 DEF a, c
<1>13. p[j] = p[j - 1] + EntryAt(p, N, j).len
    BY ONLY <1>8, <1>11
<1>14. QED
    BY ONLY <1>6, <1>7, <1>10, <1>12, <1>13

Stage(a, e, n) == [ok |-> TRUE, at |-> a, es |-> e, n |-> n]
MovedTo(s, b, f, m) == [s EXCEPT !.at = b, !.es = f, !.n = m] = Stage(b, f, m)

\* The state of the loop after one more entry.
LEMMA Moved ==
    ASSUME NEW s, NEW a, NEW e, NEW n, NEW b, NEW f, NEW m, s = Stage(a, e, n)
    PROVE  MovedTo(s, b, f, m)
<1> DEFINE F == {"ok", "at", "es", "n"}
           t == [s EXCEPT !.at = b, !.es = f, !.n = m]
           u == [ok |-> TRUE, at |-> b, es |-> f, n |-> m]
<1>1. DOMAIN s = F
    BY DEF Stage
<1>2. t = [x \in F |-> t[x]] /\ u = [x \in F |-> u[x]]
  <2>1. DOMAIN t = F /\ DOMAIN u = F
    BY <1>1
  <2>2. t = [x \in DOMAIN t |-> t[x]] /\ u = [x \in DOMAIN u |-> u[x]]
    OBVIOUS
  <2>3. QED
    BY <2>1, <2>2
<1>3. t["ok"] = u["ok"] /\ t["at"] = u["at"] /\ t["es"] = u["es"] /\ t["n"] = u["n"]
    BY <1>1 DEF Stage
<1> HIDE DEF t, u
<1>4. t = u
    BY <1>2, <1>3
<1>5. QED
    BY <1>4 DEF t, u, MovedTo, Stage

\* One more entry is read until there are no more.
LEMMA NextEntryRead ==
    ASSUME NEW N \in Nat, Whole(N), NEW p, Spots(p, N), NEW cd, NEW j \in 0..Len(ents),
           NEW end, end = N + Len(Cdir)
    PROVE  /\ j < Len(ents) => ReadMore(EntriesRead(p, N, j), cd, end) = EntriesRead(p, N, j + 1)
           /\ j = Len(ents) => ReadMore(EntriesRead(p, N, j), cd, end) = EntriesRead(p, N, j)
<1> DEFINE s == EntriesRead(p, N, j)
           e == [i \in 1..j + 1 |-> EntryAt(p, N, i)]
           es == [i \in 1..j |-> EntryAt(p, N, i)]
<1>1. s = [ok |-> TRUE, at |-> N + p[j], es |-> es, n |-> Len(ents)]
    BY DEF EntriesRead
<1>2. CASE j = Len(ents)
  <2>1. s.at = end
    BY <1>1, <1>2 DEF Spots
  <2>2. QED
    BY <1>2, <2>1 DEF ReadMore
<1>3. CASE j < Len(ents)
  <2>1. j \in Nat /\ j + 1 \in 1..Len(ents) /\ (j + 1) - 1 = j /\ Len(ents) \in Nat
    BY <1>3 DEF Whole, FormatInv, RecordsKept
  <2> DEFINE d == EntryAt(p, N, j + 1)
  <2>2. /\ ReadBack(d, ents[j + 1], Central)
        /\ N + p[j] < N + Len(Cdir) /\ p[j] \in Nat /\ p[j + 1] = p[j] + d.len
        /\ p[j + 1] \in Nat
    BY <2>1, EntryReadBack
  <2>3. d.ok /\ d.len \in Nat
    <3>1. d.len = Len(Header(ents[j + 1], Central)) /\ d.ok
      BY <2>2, ReadLength
    <3>2. ents[j + 1].efs \in Seq(Fields({"x", "y"}, Units))
      BY <2>1 DEF Whole, FormatInv, RecordsKept, FieldsInv, FieldsKept
    <3>3. QED
      BY <3>1, <3>2, HeaderHarmless
  <2>4. d = DirentRead(N + p[j], Central, end)
    BY <2>1 DEF EntryAt
  <2>5. Len(es) = j
    BY <2>1
  <2>6. s.ok /\ s.at # end /\ s.at = N + p[j] /\ Len(s.es) # s.n /\ s.es = es
    <3>1. N + p[j] # end /\ j # Len(ents)
      BY <1>3, <2>1, <2>2
    <3> HIDE DEF es
    <3>2. QED
      BY <1>1, <2>5, <3>1
  <2>7. Append(es, d) = [i \in 1..j + 1 |-> EntryAt(p, N, i)]
    <3>1. Append([i \in 1..j |-> e[i]], e[j + 1]) = [i \in 1..j + 1 |-> e[i]]
      <4> HIDE DEF e
      <4>1. QED
        BY <2>1, OneMore
    <3>2. e[j + 1] = d /\ [i \in 1..j |-> e[i]] = es /\ [i \in 1..j + 1 |-> e[i]] = e
      BY <2>1
    <3>3. QED
      BY <3>1, <3>2
  <2> HIDE DEF d, s, es
  <2>8. ReadMore(s, cd, end) = ReadOne(s, d)
    BY <2>4, <2>6 DEF ReadMore
  <2>9. ReadOne(s, d) = [s EXCEPT !.at = @ + d.len, !.es = Append(@, d), !.n = @]
    BY <2>3, <2>6 DEF ReadOne
  <2>10. (N + p[j]) + d.len = N + p[j + 1]
    BY <2>2, <2>3
  <2>11. [s EXCEPT !.at = @ + d.len, !.es = Append(@, d), !.n = @] =
             [ok |-> TRUE, at |-> N + p[j + 1], es |-> Append(es, d), n |-> Len(ents)]
    <3> DEFINE a == N + p[j]
               b == N + p[j + 1]
    <3>1. a + d.len = b /\ s = [ok |-> TRUE, at |-> a, es |-> es, n |-> Len(ents)]
      BY <1>1, <2>10
    <3> HIDE DEF a, b
    <3>2. [s EXCEPT !.at = @ + d.len, !.es = Append(@, d), !.n = @] =
             [ok |-> TRUE, at |-> b, es |-> Append(es, d), n |-> Len(ents)]
      <4>1. s.at = a /\ s.es = es /\ s.n = Len(ents)
        BY ONLY <3>1
      <4> DEFINE x == Append(es, d)
                 m == Len(ents)
      <4>2. [s EXCEPT !.at = @ + d.len, !.es = Append(@, d), !.n = @] =
                [s EXCEPT !.at = b, !.es = x, !.n = m]
        BY ONLY <3>1, <4>1
      <4> HIDE DEF x, m
      <4>3. [s EXCEPT !.at = b, !.es = x, !.n = m] = [ok |-> TRUE, at |-> b, es |-> x, n |-> m]
        <5>1. s = Stage(a, es, Len(ents))
          BY ONLY <3>1 DEF Stage
        <5>2. MovedTo(s, b, x, m)
          BY ONLY <5>1, Moved
        <5>3. QED
          BY ONLY <5>2 DEF MovedTo, Stage
      <4>4. QED
        BY <4>2, <4>3 DEF x, m
    <3>3. QED
      BY <3>2 DEF b
  <2>12. ReadMore(s, cd, end) = EntriesRead(p, N, j + 1)
    BY <2>7, <2>8, <2>9, <2>11 DEF EntriesRead
  <2>13. QED
    BY <1>3, <2>1, <2>12 DEF s
<1>4. QED
    BY <1>2, <1>3

\* What a directory that was read back is.
Directory(r, N) ==
    /\ r = [ok |-> TRUE, offset |-> N, es |-> r.es]
    /\ IsList(r.es) /\ Len(r.es) = Len(ents)
    /\ \A i \in 1..Len(ents) : ReadBack(r.es[i], ents[i], Central)

\* A claim that is right is read as the entries, all of them and in order.
LEMMA DirectoryRead ==
    ASSUME NEW N \in Nat, Whole(N), NEW cd, cd.ok, cd.n = Len(ents), cd.size = Len(Cdir),
           cd.offset = N
    PROVE  Directory(ReadEntries(cd), N)
<1>1. PICK p : Spots(p, N)
    BY SpotsExist
<1> DEFINE K == Len(ents)
           S == Len(Cdir)
           end == N + S
           st(j) == EntriesRead(p, N, j)
           first == [ok |-> TRUE, at |-> cd.offset, es |-> <<>>, n |-> cd.n]
           Loop(f) == f = [i \in 0..cd.size |->
                              IF i = 0 THEN first
                              ELSE ReadMore(f[i - 1], cd, cd.offset + cd.size)]
           least(i) == IF i < K THEN i ELSE K
           g == [i \in 0..S |-> st(least(i))]
           f == CHOOSE f : Loop(f)
<1>2. K \in Nat /\ S \in Nat
    BY CdirPlaced DEF Whole, FormatInv, RecordsKept, IsList
<1>3. \A j \in 0..K : /\ j < K => ReadMore(st(j), cd, end) = st(j + 1)
                      /\ j = K => ReadMore(st(j), cd, end) = st(j)
    BY <1>1, NextEntryRead
<1>4. st(0) = first
  <2>1. p[0] = 0 /\ N + 0 = N
    BY <1>1 DEF Spots
  <2>2. [i \in 1..0 |-> EntryAt(p, N, i)] = <<>>
    OBVIOUS
  <2>3. QED
    BY <2>1, <2>2 DEF EntriesRead
<1>5. K <= S
  <2> DEFINE T == {k \in 0..K : k <= p[k]}
  <2>1. 0 \in T
    BY <1>1, <1>2 DEF Spots
  <2>2. ASSUME NEW k \in 0..K - 1, k \in T PROVE k + 1 \in T
    <3>1. k + 1 \in 1..K /\ (k + 1) - 1 = k /\ k + 1 \in 0..K
      BY <1>2
    <3>2. p[k + 1] \in Nat /\ p[k] \in Nat /\ p[k + 1] >= p[k] + 2
      BY <1>1, <3>1, EntryReadBack
    <3>3. k + 1 <= p[k + 1]
      BY <2>2, <3>2
    <3>4. QED
      BY <3>1, <3>3
  <2> HIDE DEF T
  <2>3. \A k \in 0..K : k \in T
    BY <1>2, <2>1, <2>2, UpTo
  <2>4. K \in T /\ p[K] = S
    BY <1>1, <1>2, <2>3 DEF Spots
  <2>5. QED
    BY <2>4 DEF T
<1>6. ReadEntries(cd) = EntriesOf(cd, f[S])
    BY DEF ReadEntries
<1> HIDE DEF st, first, K, S
<1>7. ASSUME NEW i \in 0..S, i # 0 PROVE g[i] = ReadMore(g[i - 1], cd, end)
  <2>1. i - 1 \in 0..S
    BY <1>2, <1>7
  <2>2. g[i] = st(least(i)) /\ g[i - 1] = st(least(i - 1))
    BY <2>1
  <2>3. CASE i <= K
    <3>1. least(i) = i /\ least(i - 1) = i - 1 /\ i - 1 \in 0..K /\ i - 1 < K /\ (i - 1) + 1 = i
      BY <1>2, <1>7, <2>3
    <3>2. QED
      BY <1>3, <2>2, <3>1
  <2>4. CASE i > K
    <3>1. least(i) = K /\ least(i - 1) = K /\ K \in 0..K
      BY <1>2, <1>7, <2>4
    <3>2. QED
      BY <1>3, <2>2, <3>1
  <2>5. QED
    BY <1>2, <2>3, <2>4
<1>8. Loop(g)
  <2>1. g[0] = first
    BY <1>2, <1>4
  <2>2. cd.size = S /\ cd.offset + cd.size = end
    BY DEF S
  <2>3. g = [i \in 0..S |-> g[i]]
    OBVIOUS
  <2> HIDE DEF g, end
  <2>4. QED
    BY <1>7, <2>1, <2>2, <2>3
<1>9. Loop(f)
    BY <1>8
<1> HIDE DEF f, g
<1>10. ASSUME NEW i \in 0..S
       PROVE f[i] = IF i = 0 THEN first ELSE ReadMore(f[i - 1], cd, end)
  <2>1. cd.size = S /\ cd.offset + cd.size = end
    BY DEF S
  <2>2. QED
    BY <1>9, <2>1
<1>11. ASSUME NEW i \in 0..S
       PROVE g[i] = IF i = 0 THEN first ELSE ReadMore(g[i - 1], cd, end)
  <2>1. cd.size = S /\ cd.offset + cd.size = end
    BY DEF S
  <2>2. QED
    BY <1>8, <2>1
<1> HIDE DEF Loop
<1>12. f[S] = g[S]
  <2> DEFINE T == {k \in 0..S : f[k] = g[k]}
  <2>1. 0 \in T
    BY <1>2, <1>10, <1>11
  <2>2. ASSUME NEW k \in 0..S - 1, k \in T PROVE k + 1 \in T
    <3>1. k + 1 \in 0..S /\ k + 1 # 0 /\ (k + 1) - 1 = k
      BY <1>2
    <3>2. QED
      BY <1>10, <1>11, <2>2, <3>1
  <2> HIDE DEF T
  <2>3. \A k \in 0..S : k \in T
    BY <1>2, <2>1, <2>2, UpTo
  <2>4. QED
    BY <1>2, <2>3 DEF T
<1>13. g[S] = st(K)
  <2>1. S \in 0..S /\ least(S) = K
    BY <1>2, <1>5
  <2>2. QED
    BY <2>1 DEF g
<1>14. ReadEntries(cd) = EntriesOf(cd, st(K))
    BY <1>6, <1>12, <1>13
<1> DEFINE es == [i \in 1..K |-> EntryAt(p, N, i)]
<1>15. st(K) = [ok |-> TRUE, at |-> end, es |-> es, n |-> K]
    BY <1>1 DEF st, EntriesRead, Spots, K, S
<1>16. Len(es) = K /\ IsList(es)
    BY <1>2 DEF IsList
<1>17. ASSUME NEW i \in 1..K PROVE ReadBack(es[i], ents[i], Central)
    BY <1>1, <1>17, EntryReadBack DEF K
<1> HIDE DEF es
<1>18. ReadEntries(cd) = [ok |-> TRUE, offset |-> N, es |-> es]
  <2> DEFINE all == st(K)
  <2>1. all.ok /\ Len(all.es) = all.n /\ all.at = cd.offset + cd.size /\ all.es = es
    BY <1>15, <1>16 DEF S
  <2> HIDE DEF all
  <2>2. EntriesOf(cd, all) = [ok |-> TRUE, offset |-> N, es |-> es]
    BY <2>1 DEF EntriesOf
  <2>3. QED
    BY <1>14, <2>2 DEF all
<1>19. ReadEntries(cd).es = es
    BY <1>18
<1>20. QED
    BY <1>16, <1>17, <1>18, <1>19 DEF Directory, K

-----------------------------------------------------------------------------
(* The end records of the file, and what each leads to.                    *)

\* The directory of an archive without entries.
Nothing == [ok |-> TRUE, offset |-> 0, es |-> <<>>]

\* The claim of an empty archive is read as no entries.
LEMMA NothingRead ==
    ASSUME NEW cd, cd.n = 0, cd.size = 0, cd.offset = 0
    PROVE  ReadEntries(cd) = Nothing
<1> DEFINE first == [ok |-> TRUE, at |-> cd.offset, es |-> <<>>, n |-> cd.n]
           Loop(f) == f = [i \in 0..cd.size |->
                              IF i = 0 THEN first
                              ELSE ReadMore(f[i - 1], cd, cd.offset + cd.size)]
           f == CHOOSE f : Loop(f)
           g == [i \in 0..0 |-> first]
<1>1. ReadEntries(cd) = EntriesOf(cd, f[0])
    BY DEF ReadEntries
<1>2. first.ok /\ first.at = 0 /\ first.es = <<>> /\ first.n = 0
    OBVIOUS
<1> HIDE DEF first
<1>3. Loop(g)
    OBVIOUS
<1>4. Loop(f)
    BY <1>3
<1> HIDE DEF f
<1>5. f[0] = first
    BY <1>4
<1>6. EntriesOf(cd, first) = Nothing
    BY <1>2 DEF EntriesOf, Nothing
<1>7. QED
    BY <1>1, <1>5, <1>6

\* An end record that is not the file's own leads to such a directory.
LEMMA DecoyRead ==
    ASSUME IsList(file), NEW at \in 0..Len(file) - 1, Cell(at) = EmptyEnd,
           ~(at >= 1 /\ Cell(at - 1).k = "loc64"), NEW check \in BOOLEAN
    PROVE  ReadCdir(at, check) \in {NoZip, Nothing} /\ (check /\ at + 1 # Len(file) =>
               ReadCdir(at, check) = NoZip)
<1> DEFINE cd == [ok |-> TRUE, n |-> 0, size |-> 0, offset |-> 0, zip64 |-> FALSE]
           tail == Len(file) - (at + 1)
<1>1. Len(file) \in Nat /\ tail \in Nat /\ at \in Nat
    BY DEF IsList
<1>2. EmptyEnd.n = 0 /\ EmptyEnd.size = 0 /\ EmptyEnd.offset = 0 /\ EmptyEnd.comlen = 0
    BY DEF EmptyEnd
<1>3. ReadEocd(at) = cd
  <2>1. ~(0 + 0 > at)
    BY <1>1
  <2>2. QED
    BY <1>2, <2>1 DEF ReadEocd, Claimed
<1>4. ReadCdir(at, check) = ReadClaimed(cd, at, tail, 0, check)
    BY <1>2, <1>3 DEF ReadCdir
<1>5. ReadEntries(cd) = Nothing
    BY NothingRead
<1>6. ReadClaimed(cd, at, tail, 0, check) = IF check /\ tail # 0 THEN NoZip ELSE Nothing
  <2>1. cd.ok /\ cd.offset = 0 /\ cd.size = 0 /\ ~(0 + 0 > at) /\ ~(tail < 0)
    BY <1>1
  <2> HIDE DEF cd, tail
  <2>2. QED
    BY <1>5, <2>1 DEF ReadClaimed
<1>7. at + 1 # Len(file) => tail # 0
    BY <1>1
<1>8. QED
    BY <1>4, <1>6, <1>7

\* A bounded set of numbers has a greatest and a least one.
LEMMA Extremes ==
    ASSUME NEW T, T \subseteq Nat, T # {}, NEW b \in Nat, \A x \in T : x <= b
    PROVE  /\ Max(T) \in T /\ \A y \in T : Max(T) >= y
           /\ Min(T) \in T /\ \A y \in T : Min(T) <= y
<1>1. \E x \in T : \A y \in T : x <= y
    BY Least
<1>2. Min(T) \in T /\ \A y \in T : Min(T) <= y
    BY <1>1 DEF Min
<1> DEFINE U == {b - x : x \in T}
<1>3. U \subseteq Nat /\ U # {}
  <2>1. ASSUME NEW x \in T PROVE b - x \in Nat
    OBVIOUS
  <2>2. PICK x \in T : TRUE
    OBVIOUS
  <2>3. b - x \in U
    BY <2>2
  <2>4. QED
    BY <2>1, <2>3
<1>4. \E u \in U : \A w \in U : u <= w
  <2> HIDE DEF U
  <2>1. QED
    BY <1>3, Least
<1>5. PICK x \in T : \A w \in U : b - x <= w
    BY <1>4
<1>6. ASSUME NEW y \in T PROVE x >= y
  <2>1. b - y \in U
    OBVIOUS
  <2>2. b - x <= b - y /\ x \in Nat /\ y \in Nat
    BY <1>5, <2>1
  <2>3. QED
    BY <2>2
<1>7. Max(T) \in T /\ \A y \in T : Max(T) >= y
    BY <1>6 DEF Max
<1>8. QED
    BY <1>2, <1>7

\* The local header of an entry, and its agreement with the central one.
LEMMA LocalReadBack ==
    ASSUME NEW N \in Nat, Whole(N), NEW i \in 1..Len(ents)
    PROVE  /\ Stored(i, N) /\ Fine(ents[i], Local)
           /\ ReadBack(DirentRead(ents[i].offset, Local, Len(file)), ents[i], Local)
           /\ ents[i].offset \in Nat /\ ents[i].comp \in Nat
           /\ Len(Header(ents[i], Local)) \in Nat /\ Len(Header(ents[i], Local)) >= 2
<1> DEFINE de == ents[i]
           H == Header(de, Local)
<1>1. /\ FormatInv /\ FieldsInv /\ PartsKept /\ IsList(file) /\ DOMAIN ents = 1..Len(ents)
      /\ Len(ents) \in Nat /\ cur \in Nat /\ Regular /\ StoredTo(N) /\ Len(file) \in Nat
      /\ cur > Len(ents)
    BY DEF Whole, FormatInv, RecordsKept, DirectoryAt, IsList
<1>2. i \in DOMAIN ents /\ i < cur
    BY <1>1
<1>3. Fine(de, Local) /\ ~Irregular(de) /\ de.offset \in Nat /\ de.comp \in Nat
    BY <1>1, <1>2, KnownRecord DEF Fine, Regular, Irregular
<1>4. Stored(i, N)
    BY <1>1, <1>2, <1>3 DEF StoredTo
<1>5. Len(H) \in Nat /\ Len(H) >= 2
    BY <1>3, HeaderHarmless DEF Fine
<1>6. Holds(file, de.offset, H)
    BY <1>4 DEF Stored
<1>7. de.offset + Len(H) <= Len(file)
    BY <1>6 DEF Holds
<1>8. ReadBack(DirentRead(de.offset, Local, Len(file)), de, Local)
  <2>1. Len(file) <= Len(file)
    BY <1>1
  <2> HIDE DEF de
  <2>2. QED
    BY <1>1, <1>3, <1>6, <1>7, <2>1, DirentReadBack
<1>9. QED
    BY <1>3, <1>4, <1>5, <1>8

\* _zip_headercomp accepts the two headers of one record.
LEMMA HeadersAgree ==
    ASSUME NEW de, SizedRecord(de), Nats(de), de.ver \in Nat, ~VersionLowered(de),
           NEW c, ReadBack(c, de, Central), NEW l, ReadBack(l, de, Local)
    PROVE  HeaderComp(c, l)
<1>1. c.ver = HeaderStart(de, Central).ver /\ l.ver = HeaderStart(de, Local).ver
    BY DEF ReadBack
<1>2. /\ HeaderStart(de, Central).ver = (IF NeedsZip64(de, Central) THEN 45 ELSE de.ver)
      /\ HeaderStart(de, Local).ver = (IF NeedsZip64(de, Local) THEN 45 ELSE de.ver)
    BY DEF HeaderStart
<1>3. NeedsZip64(de, Local) => NeedsZip64(de, Central)
    BY DEF NeedsZip64, IsLocal, Local, Central
<1>4. c.ver >= l.ver
    BY <1>1, <1>2, <1>3 DEF VersionLowered
<1>5. /\ l.ok /\ c.name.v = de.name.v /\ l.name.v = de.name.v
      /\ c.comp = de.comp /\ l.comp = de.comp /\ c.uncomp = de.uncomp /\ l.uncomp = de.uncomp
    BY DEF ReadBack, TextRead
<1>6. QED
    BY <1>4, <1>5 DEF HeaderComp

\* _zip_checkcons finds the directory consistent.
LEMMA Consistent ==
    ASSUME NEW N \in Nat, Whole(N), NEW r, Directory(r, N)
    PROVE  CheckCons(r) \in Nat /\ IF Len(ents) = 0 THEN CheckCons(r) = 1 ELSE CheckCons(r) > 1
<1> DEFINE K == Len(ents)
           es == r.es
           R == Range(es)
           starts == {e.offset : e \in R}
           ends == {e.offset + e.comp + 2 : e \in R}
<1>1. K \in Nat /\ DOMAIN ents = 1..K
    BY DEF Whole, FormatInv, RecordsKept
<1>2. IsList(es) /\ Len(es) = K /\ r.offset = N /\ \A i \in 1..K : ReadBack(es[i], ents[i], Central)
    BY DEF Directory
<1>3. DOMAIN es = 1..K
    BY <1>2, ListSeq
<1>4. R = {es[i] : i \in 1..K}
    BY <1>3 DEF Range
<1> HIDE DEF es, R
<1>5. ASSUME NEW i \in 1..K
      PROVE  /\ es[i].offset = ents[i].offset /\ es[i].comp = ents[i].comp
             /\ es[i].offset \in Nat /\ es[i].comp \in Nat
             /\ es[i].offset + es[i].comp + 2 <= N
             /\ HeaderComp(es[i], DirentRead(es[i].offset, Local, Len(file)))
  <2> DEFINE c == es[i]
             de == ents[i]
             l == DirentRead(de.offset, Local, Len(file))
             h == Len(Header(de, Local))
  <2>1. /\ Stored(i, N) /\ ReadBack(l, de, Local) /\ de.offset \in Nat /\ de.comp \in Nat
        /\ h \in Nat /\ h >= 2
    BY <1>5, LocalReadBack
  <2>2. ReadBack(c, de, Central)
    BY <1>2
  <2>3. ~IsLocal(Central)
    BY DEF IsLocal, Central
  <2>4. c.offset = de.offset /\ c.comp = de.comp
    BY <2>2, <2>3 DEF ReadBack
  <2>5. (de.offset + h) + de.comp <= N
    BY <2>1 DEF Stored
  <2>6. SizedRecord(de) /\ Nats(de) /\ de.ver \in Nat /\ ~VersionLowered(de)
    BY <1>1, KnownRecord DEF Whole, Regular, Irregular
  <2>7. HeaderComp(c, l)
    BY <2>1, <2>2, <2>6, HeadersAgree
  <2> HIDE DEF h
  <2>8. de.offset + de.comp + 2 <= N
    BY <2>1, <2>5
  <2>9. QED
    BY <2>1, <2>4, <2>7, <2>8
<1>6. /\ \A x \in ends : x <= N
      /\ \A e \in R : HeaderComp(e, DirentRead(e.offset, Local, Len(file)))
    BY <1>4, <1>5
<1>7. CheckCons(r) = IF es = <<>> THEN 1 ELSE 1 + Max(ends) - Min(starts)
    BY <1>2, <1>6 DEF CheckCons, es, R
<1>8. es = <<>> <=> K = 0
  <2>1. es = <<>> => K = 0
    BY <1>2
  <2>2. K = 0 => es = <<>>
    BY <1>2 DEF IsList
  <2>3. QED
    BY <2>1, <2>2
<1>9. ASSUME K # 0 PROVE 1 + Max(ends) - Min(starts) > 1 /\ 1 + Max(ends) - Min(starts) \in Nat
  <2>1. 1 \in 1..K
    BY <1>1, <1>9
  <2> DEFINE a == es[1].offset
             b == es[1].comp
  <2>2. es[1] \in R /\ a \in Nat /\ b \in Nat
    BY <1>4, <1>5, <2>1
  <2>3. a \in starts /\ a + b + 2 \in ends
    BY <2>2
  <2>4. starts \subseteq Nat /\ \A x \in starts : x <= N
    <3>1. ASSUME NEW i \in 1..K PROVE es[i].offset \in Nat /\ es[i].offset <= N
      <4> DEFINE o == es[i].offset
                 q == es[i].comp
      <4>1. o \in Nat /\ q \in Nat /\ o + q + 2 <= N
        BY <1>5
      <4> HIDE DEF o, q
      <4>2. o <= N
        BY <4>1
      <4>3. QED
        BY <4>1, <4>2 DEF o
    <3>2. QED
      BY <1>4, <3>1
  <2>5. ends \subseteq Nat
    <3>1. ASSUME NEW i \in 1..K PROVE es[i].offset + es[i].comp + 2 \in Nat
      BY <1>5
    <3>2. QED
      BY <1>4, <3>1
  <2> HIDE DEF a, b, starts, ends
  <2>6. Max(ends) \in ends /\ Max(ends) >= a + b + 2
    BY <1>6, <2>3, <2>5, Extremes
  <2>7. Min(starts) \in starts /\ Min(starts) <= a
    BY <2>3, <2>4, Extremes
  <2>8. Max(ends) \in Nat /\ Min(starts) \in Nat
    BY <2>4, <2>5, <2>6, <2>7
  <2>9. QED
    BY <2>2, <2>6, <2>7, <2>8
<1>10. QED
    BY <1>7, <1>8, <1>9

\* An empty directory spans nothing, and is consistent.
LEMMA NothingConsistent == CheckCons(Nothing) = 1
<1>1. Nothing.es = <<>> /\ Range(Nothing.es) = {}
    BY DEF Nothing, Range
<1>2. QED
    BY <1>1 DEF CheckCons

\* The directory itself holds no end records.
LEMMA CdirPlain ==
    ASSUME FormatInv, FieldsInv
    PROVE  /\ IsList(Cdir) /\ Len(Cdir) \in Nat
           /\ \A i \in 1..Len(Cdir) : Cdir[i].k # "loc64" /\ Cdir[i].k # "eocd"
<1> DEFINE n == Len(ents)
           h(i) == Header(ents[i], Central)
           hs == [i \in DOMAIN ents |-> h(i)]
           S == {c \in UNION {Elements(h(i)) : i \in 1..n} : c.k # "loc64"}
<1>1. n \in Nat /\ DOMAIN ents = 1..n
    BY DEF FormatInv, RecordsKept
<1>2. ASSUME NEW i \in 1..n PROVE h(i) \in Seq(S)
  <2>1. ents[i].efs \in Seq(Fields({"x", "y"}, Units))
    BY <1>1 DEF FieldsInv, FieldsKept
  <2>2. IsList(h(i)) /\ \A j \in 1..Len(h(i)) : h(i)[j].k # "loc64"
    BY <2>1, HeaderHarmless DEF Harmless
  <2>3. h(i) \in Seq(Elements(h(i)))
    BY <2>2, ListSeq
  <2>4. Elements(h(i)) \subseteq S
    BY <2>2 DEF Elements
  <2> HIDE DEF h, S
  <2>5. QED
    BY <2>3, <2>4, SeqMonotonic
<1>3. hs \in [1..n -> Seq(S)]
  <2> HIDE DEF h, S, n
  <2>1. QED
    BY <1>1, <1>2
<1>4. \A c \in S : c.k # "loc64"
    OBVIOUS
<1>5. Cdir = FlattenSeq(hs)
    BY DEF Cdir
<1>6. Cdir \in Seq(S)
  <2> HIDE DEF hs, S, n
  <2>1. hs \in Seq(Seq(S))
    BY ONLY <1>1, <1>3
  <2>2. QED
    BY <1>5, <2>1, FlattenType
<1> HIDE DEF S, hs
<1>7. IsList(Cdir) /\ Len(Cdir) \in Nat /\ \A i \in 1..Len(Cdir) : Cdir[i] \in S
    BY <1>6, SeqList
<1>8. Ordinary(Cdir)
    BY CdirOrdinary DEF Cdir
<1>9. QED
    BY <1>4, <1>7, <1>8 DEF Ordinary

\* Whether the end of the directory has the records of ZIP64, and what they are.
Any64(N) == \/ N > M32 \/ Len(ents) > M16
            \/ \E i \in DOMAIN ents : WritesZip64(ents[i], Central)

Extra(N) == IF Any64(N) THEN 2 ELSE 0

LastRecord(N) ==
    [k |-> "eocd", n |-> IF Len(ents) < M16 THEN Len(ents) ELSE M16, size |-> Capped(Len(Cdir)),
     offset |-> Capped(N), comlen |-> Len(comment)]

EndsWith(R, N) ==
    /\ Len(R) = Extra(N) + 1 /\ R[Extra(N) + 1] = LastRecord(N)
    /\ Any64(N) =>
          /\ R[1] = [k |-> "eocd64", n |-> Len(ents), size |-> Len(Cdir), offset |-> N]
          /\ R[2] = [k |-> "loc64", at |-> N + Len(Cdir)]

\* The end records, with those of ZIP64 if something needs them.
LEMMA EndRecordsAre ==
    ASSUME NEW N
    PROVE  EndsWith(EndRecords(Len(ents), N, Len(Cdir)), N)
<1> DEFINE R == EndRecords(Len(ents), N, Len(Cdir))
           x == [k |-> "eocd64", n |-> Len(ents), size |-> Len(Cdir), offset |-> N]
           y == [k |-> "loc64", at |-> N + Len(Cdir)]
           z == LastRecord(N)
<1>1. R = (IF Any64(N) THEN <<x, y>> ELSE <<>>) \o <<z>>
    BY DEF EndRecords, Any64, LastRecord
<1> HIDE DEF R, x, y, z
<1>2. CASE Any64(N)
  <2>1. R = <<x, y>> \o <<z>>
    BY <1>1, <1>2
  <2>2. IsList(<<x, y>>) /\ Len(<<x, y>>) = 2 /\ IsList(<<z>>) /\ Len(<<z>>) = 1
    BY DEF IsList
  <2>3. Joined(R, <<x, y>>, <<z>>)
    BY <2>1, <2>2, JoinedList
  <2>4. Len(R) = 3 /\ R[1] = x /\ R[2] = y /\ R[3] = z
    <3>1. 1 \in 1..2 /\ 2 \in 1..2 /\ 1 \in 1..1 /\ 2 + 1 = 3
      OBVIOUS
    <3>2. R[1] = <<x, y>>[1] /\ R[2] = <<x, y>>[2] /\ R[2 + 1] = <<z>>[1] /\ Len(R) = 2 + 1
      BY <2>2, <2>3, <3>1 DEF Joined
    <3>3. QED
      BY <3>1, <3>2
  <2>5. QED
    BY <1>2, <2>4 DEF EndsWith, Extra, R, x, y, z
<1>3. CASE ~Any64(N)
  <2>1. R = <<>> \o <<z>>
    BY <1>1, <1>3
  <2>2. Len(R) = 1 /\ R[1] = z
    BY <2>1
  <2>3. QED
    BY <1>3, <2>2 DEF EndsWith, Extra, R, z
<1>4. QED
    BY <1>2, <1>3

\* Where the end record of the file is, and which cells are around it.
LastAt(N) == N + Len(Cdir) + Extra(N)

Around(N) ==
    /\ LastAt(N) \in Nat /\ Len(comment) \in Nat /\ Len(comment) <= M16 /\ Len(Cdir) \in Nat
    /\ Len(file) = LastAt(N) + 1 + Len(comment) /\ file[LastAt(N) + 1] = LastRecord(N)
    /\ \A i \in 1..LastAt(N) :
          /\ file[i].k = "eocd" => file[i] = EmptyEnd /\ Len(ents) > 0
          /\ file[i].k = "loc64" => Any64(N) /\ i = LastAt(N)
    /\ \A i \in LastAt(N) + 2..Len(file) :
          file[i].k # "loc64" /\ (file[i].k = "eocd" => file[i] = EmptyEnd)
    /\ Any64(N) => /\ file[LastAt(N) - 1] = [k |-> "eocd64", n |-> Len(ents),
                                            size |-> Len(Cdir), offset |-> N]
                   /\ file[LastAt(N)] = [k |-> "loc64", at |-> N + Len(Cdir)]

\* What is before and behind the end record of a whole file.
LEMMA WholeAround ==
    ASSUME NEW N \in Nat, Whole(N)
    PROVE  Around(N)
<1> DEFINE S == Len(Cdir)
           X == Extra(N)
           T == LastAt(N)
           R == EndRecords(Len(ents), N, S)
           c == Len(comment)
           e == N + S
<1>1. /\ FormatInv /\ FieldsInv /\ PartsKept /\ IsList(file) /\ IsList(comment)
      /\ comment \in Seq({[k |-> "byte"], EmptyEnd}) /\ c <= M16 /\ c \in Nat /\ Len(file) \in Nat
      /\ NoEnds(N)
    BY DEF Whole, PartsKept, IsList, DirectoryAt
<1>2. S \in Nat /\ \A i \in 1..S : Cdir[i].k # "loc64" /\ Cdir[i].k # "eocd"
    BY <1>1, CdirPlain
<1>3. /\ Len(R) = X + 1 /\ R[X + 1] = LastRecord(N)
      /\ Any64(N) => /\ R[1] = [k |-> "eocd64", n |-> Len(ents), size |-> S, offset |-> N]
                     /\ R[2] = [k |-> "loc64", at |-> N + S]
    BY EndRecordsAre DEF EndsWith
<1>4. X \in {0, 2} /\ (Any64(N) <=> X = 2) /\ e \in Nat
    BY <1>2 DEF Extra
<1>5. /\ Len(file) = e + Len(R) + c /\ Holds(file, N, Cdir) /\ Holds(file, e, R)
      /\ Holds(file, e + Len(R), comment)
    BY DEF Whole, DirectoryAt
<1>6. T = e + X
    BY DEF LastAt
<1> HIDE DEF T, R, X, c
<1>7. /\ \A i \in 1..S : file[N + i] = Cdir[i]
      /\ \A i \in 1..Len(R) : file[e + i] = R[i]
      /\ \A i \in 1..c : file[e + Len(R) + i] = comment[i]
    BY <1>5 DEF Holds, c
<1> HIDE DEF S, e
<1>8. T \in Nat /\ Len(file) = T + 1 + c /\ e + Len(R) = T + 1
    BY <1>1, <1>3, <1>4, <1>5, <1>6
<1>9. file[T + 1] = LastRecord(N)
  <2>1. X + 1 \in 1..Len(R) /\ e + (X + 1) = T + 1
    BY <1>3, <1>4, <1>6
  <2>2. QED
    BY <1>3, <1>7, <2>1
<1>10. ASSUME Any64(N)
       PROVE /\ file[T - 1] = [k |-> "eocd64", n |-> Len(ents), size |-> S, offset |-> N]
             /\ file[T] = [k |-> "loc64", at |-> N + S] /\ T = e + 2
  <2>1. X = 2 /\ 1 \in 1..Len(R) /\ 2 \in 1..Len(R) /\ e + 1 = T - 1 /\ e + 2 = T
    BY <1>3, <1>4, <1>6, <1>10
  <2>2. QED
    BY <1>3, <1>7, <1>10, <2>1
<1>11. ASSUME NEW i \in 1..T
       PROVE  /\ file[i].k = "eocd" => file[i] = EmptyEnd /\ Len(ents) > 0
              /\ file[i].k = "loc64" => Any64(N) /\ i = T
  <2>1. CASE i <= N
    <3>1. i \in 1..N
      BY <2>1
    <3>2. QED
      BY <1>1, <3>1 DEF NoEnds
  <2>2. CASE i > N /\ i <= e
    <3>1. i - N \in 1..S /\ N + (i - N) = i
      BY <1>2, <2>2 DEF e, S
    <3>2. file[i] = Cdir[i - N]
      BY <1>7, <3>1
    <3>3. QED
      BY <1>2, <3>1, <3>2
  <2>3. CASE i > e
    <3>1. X = 2 /\ Any64(N)
      BY <1>4, <1>6, <1>8, <2>3
    <3>2. T = e + 2 /\ (i = T - 1 \/ i = T)
      BY <1>4, <1>8, <1>10, <2>3, <3>1
    <3>3. file[T - 1].k = "eocd64" /\ file[T].k = "loc64"
      BY <1>10, <3>1
    <3>4. QED
      BY <3>1, <3>2, <3>3
  <2>4. QED
    BY <1>4, <1>8, <2>1, <2>2, <2>3
<1>12. ASSUME NEW i \in T + 2..Len(file)
       PROVE  file[i].k # "loc64" /\ (file[i].k = "eocd" => file[i] = EmptyEnd)
  <2>1. i - (T + 1) \in 1..c /\ (T + 1) + (i - (T + 1)) = i
    BY <1>1, <1>8
  <2>2. file[i] = comment[i - (T + 1)]
    BY <1>7, <1>8, <2>1
  <2>3. comment[i - (T + 1)] \in {[k |-> "byte"], EmptyEnd}
    BY <1>1, <2>1 DEF c
  <2>4. QED
    BY <2>2, <2>3 DEF EmptyEnd
<1>13. QED
    BY <1>1, <1>2, <1>8, <1>9, <1>10, <1>11, <1>12 DEF Around, T, S, c

\* The end record of the file leads to its directory.
LEMMA LastRead ==
    ASSUME NEW N \in Nat, Whole(N), NEW check \in BOOLEAN
    PROVE  Directory(ReadCdir(LastAt(N), check), N)
<1> DEFINE T == LastAt(N)
           S == Len(Cdir)
           K == Len(ents)
           c == Len(comment)
<1>1. /\ T \in Nat /\ c \in Nat /\ S \in Nat /\ Len(file) = T + 1 + c
      /\ file[T + 1] = LastRecord(N)
      /\ \A i \in 1..T : file[i].k = "loc64" => Any64(N) /\ i = T
      /\ Any64(N) => /\ file[T - 1] = [k |-> "eocd64", n |-> K, size |-> S, offset |-> N]
                     /\ file[T] = [k |-> "loc64", at |-> N + S]
    BY WholeAround DEF Around
<1>2. T = N + S + Extra(N) /\ K \in Nat /\ M16 \in Nat /\ M32 \in Nat
    BY WidthsAssumption DEF LastAt, Whole, FormatInv, RecordsKept
<1>3. /\ LastRecord(N).n = IF K < M16 THEN K ELSE M16
      /\ LastRecord(N).size = Capped(S) /\ LastRecord(N).offset = Capped(N)
      /\ LastRecord(N).comlen = c /\ LastRecord(N).k = "eocd"
    BY DEF LastRecord
<1>4. DOMAIN file = 1..Len(file) /\ ~CdirTooLarge
    BY ListSeq DEF Whole, Regular
<1> HIDE DEF T, S, K, c
<1>5. Cell(T) = LastRecord(N) /\ Len(file) - (T + 1) = c
    BY <1>1 DEF Cell
<1>6. \E cd : /\ cd.ok /\ cd.n = K /\ cd.size = S /\ cd.offset = N
              /\ ReadCdir(T, check) = ReadClaimed(cd, T, c, c, check)
  <2>1. CASE Any64(N)
    <3> DEFINE x == [k |-> "eocd64", n |-> K, size |-> S, offset |-> N]
               y == [k |-> "loc64", at |-> N + S]
               cd == [ok |-> TRUE, n |-> K, size |-> S, offset |-> N, zip64 |-> TRUE]
    <3>1. T = N + S + 2
      BY <1>2, <2>1 DEF Extra
    <3>2. T >= 1 /\ T - 1 < Len(file) /\ (T - 1) + 1 = T /\ N + S < Len(file) /\ (N + S) + 1 = T - 1
      BY <1>1, <3>1
    <3>3. Cell(T - 1) = y /\ Cell(N + S) = x
      BY <1>1, <2>1, <3>2 DEF Cell
    <3>4. y.k = "loc64" /\ y.at = N + S /\ x.k = "eocd64" /\ x.n = K /\ x.size = S /\ x.offset = N
      OBVIOUS
    <3> HIDE DEF x, y
    <3>5. ~(y.at + 1 > T - 1)
      BY <1>1, <3>2, <3>4
    <3>6. ReadEocd64(T - 1) = Claimed(x, BufOffset + (N + S), TRUE)
      BY <3>3, <3>4, <3>5 DEF ReadEocd64
    <3>7. BufOffset \in Nat
      BY <1>1, <1>2 DEF BufOffset, BufSize
    <3>8. ~(N + S > BufOffset + (N + S))
      BY <1>1, <3>7
    <3>9. Claimed(x, BufOffset + (N + S), TRUE) = cd
      BY <3>4, <3>8 DEF Claimed
    <3>10. ReadCdir(T, check) = ReadClaimed(cd, T, c, c, check)
      BY <1>3, <1>5, <3>2, <3>3, <3>4, <3>6, <3>9 DEF ReadCdir
    <3>11. QED
      BY <3>10
  <2>2. CASE ~Any64(N)
    <3> DEFINE z == LastRecord(N)
               cd == [ok |-> TRUE, n |-> K, size |-> S, offset |-> N, zip64 |-> FALSE]
    <3>1. T = N + S /\ N <= M32 /\ K <= M16
      BY <1>1, <1>2, <2>2 DEF Extra, Any64, K
    <3>2. z.n = K /\ z.offset = N
      BY <1>2, <1>3, <3>1 DEF Capped
    <3>3. z.size = S
      <4>1. SUFFICES ASSUME S > M32 PROVE FALSE
        BY <1>1, <1>2, <1>3 DEF Capped
      <4>2. z.size = M32 /\ z.k = "eocd"
        BY <1>1, <1>2, <1>3, <4>1 DEF Capped
      <4>3. T + 1 \in DOMAIN file /\ (T + 1) - 1 = T /\ N + M32 < T
        BY <1>1, <1>2, <1>4, <3>1, <4>1
      <4>4. \A i \in DOMAIN ents : ~WritesZip64(ents[i], Central)
        BY <2>2 DEF Any64
      <4> HIDE DEF z
      <4>5. CdirTooLarge
        BY <1>1, <3>2, <4>2, <4>3, <4>4 DEF CdirTooLarge, z
      <4>6. QED
        BY <1>4, <4>5
    <3> HIDE DEF z
    <3>4. ~(N + S > T)
      BY <1>1, <3>1
    <3>5. ReadEocd(T) = cd
      BY <1>5, <3>2, <3>3, <3>4 DEF ReadEocd, Claimed, z
    <3>6. ~(T >= 1 /\ Cell(T - 1).k = "loc64")
      <4>1. SUFFICES ASSUME T >= 1 PROVE Cell(T - 1).k # "loc64"
        OBVIOUS
      <4>2. T - 1 < Len(file) /\ (T - 1) + 1 = T /\ T \in 1..T
        BY <1>1, <4>1
      <4>3. Cell(T - 1) = file[T]
        BY <4>2 DEF Cell
      <4>4. QED
        BY <1>1, <2>2, <4>2, <4>3
    <3>7. ReadCdir(T, check) = ReadClaimed(cd, T, c, c, check)
      BY <1>3, <1>5, <3>5, <3>6 DEF ReadCdir
    <3>8. QED
      BY <3>7
  <2>3. QED
    BY <2>1, <2>2
<1>7. PICK cd : /\ cd.ok /\ cd.n = K /\ cd.size = S /\ cd.offset = N
                /\ ReadCdir(T, check) = ReadClaimed(cd, T, c, c, check)
    BY <1>6
<1>8. ~(N + S > T)
    BY <1>1, <1>2 DEF Extra
<1>9. ReadClaimed(cd, T, c, c, check) = ReadEntries(cd)
    BY <1>1, <1>7, <1>8 DEF ReadClaimed
<1>10. Directory(ReadEntries(cd), N)
    BY <1>7, DirectoryRead DEF K, S
<1>11. QED
    BY <1>7, <1>9, <1>10 DEF T

\* The end records that are found are in order: some before that of the file,
\* some behind it.
InOrder(s, T, q) ==
    /\ q \in 1..Len(s) /\ s[q] = T
    /\ \A j \in 1..Len(s) : (j < q => s[j] < T) /\ (j > q => s[j] > T)

\* One more, greater than the others.
LEMMA MoreInOrder ==
    ASSUME NEW s \in Seq(Int), NEW T \in Int, NEW q, InOrder(s, T, q), NEW x \in Int, x > T
    PROVE  InOrder(Append(s, x), T, q)
<1> DEFINE u == Append(s, x)
<1>1. /\ Len(s) \in Nat /\ Len(u) = Len(s) + 1 /\ u[Len(s) + 1] = x
      /\ \A j \in 1..Len(s) : u[j] = s[j]
    BY AppendProperties
<1> HIDE DEF u
<1>2. q \in 1..Len(s) /\ s[q] = T
    BY DEF InOrder
<1>3. ASSUME NEW j \in 1..Len(u) PROVE (j < q => u[j] < T) /\ (j > q => u[j] > T)
  <2>1. CASE j = Len(s) + 1
    BY <1>1, <1>2, <2>1
  <2>2. CASE j # Len(s) + 1
    <3>1. j \in 1..Len(s)
      BY <1>1, <2>2
    <3>2. QED
      BY <1>1, <3>1 DEF InOrder
  <2>3. QED
    BY <2>1, <2>2
<1>4. q \in 1..Len(u) /\ u[q] = T
    BY <1>1, <1>2
<1>5. QED
    BY <1>3, <1>4 DEF InOrder, u

\* The positions that are picked are in order.
LEMMA PickedInOrder ==
    ASSUME NEW n \in Nat, NEW P, NEW T \in 0..n - 1, T + 1 \in P
    PROVE  \E q : InOrder(Picked([i \in 1..n |-> i - 1], P), T, q)
<1> DEFINE at == [i \in 1..n |-> i - 1]
<1>1. at \in Seq(Int) /\ Len(at) = n /\ \A i \in 1..n : at[i] = i - 1
  <2>1. at \in [1..n -> Int] /\ \A i \in 1..n : at[i] = i - 1
    OBVIOUS
  <2> HIDE DEF at
  <2>2. QED
    BY <2>1
<1> HIDE DEF at
<1>2. PICK f : PickLoop(f, Int, at, P)
    BY <1>1, PickedLoop
<1>3. /\ f \in [0..n -> Seq(Int)] /\ f[0] = <<>> /\ Picked(at, P) = f[n]
      /\ \A k \in 1..n : f[k] = IF k \in P THEN Append(f[k - 1], k - 1) ELSE f[k - 1]
    BY <1>1, <1>2 DEF PickLoop
<1> DEFINE Below(s) == \A j \in 1..Len(s) : s[j] < T
           A == {k \in 0..T : Below(f[k])}
<1>4. 0 \in A
    BY <1>3
<1>5. ASSUME NEW k \in 0..T - 1, k \in A PROVE k + 1 \in A
  <2>1. k + 1 \in 0..T /\ k + 1 \in 1..n /\ (k + 1) - 1 = k /\ k \in 0..n /\ k < T /\ k \in Int
    OBVIOUS
  <2>2. f[k] \in Seq(Int) /\ Below(f[k])
    BY <1>3, <1>5, <2>1
  <2>3. f[k + 1] = Append(f[k], k) \/ f[k + 1] = f[k]
    BY <1>3, <2>1
  <2> DEFINE s == f[k]
             u == Append(s, k)
  <2>4. /\ Len(s) \in Nat /\ Len(u) = Len(s) + 1 /\ u[Len(s) + 1] = k
        /\ \A j \in 1..Len(s) : u[j] = s[j]
    BY <2>1, <2>2, AppendProperties
  <2> HIDE DEF s, u
  <2>5. ASSUME NEW j \in 1..Len(u) PROVE u[j] < T
    <3>1. CASE j = Len(s) + 1
      BY <2>1, <2>4, <3>1
    <3>2. CASE j # Len(s) + 1
      <4>1. j \in 1..Len(s)
        BY <2>4, <3>2
      <4>2. QED
        BY <2>2, <2>4, <4>1 DEF s
    <3>3. QED
      BY <3>1, <3>2
  <2>6. Below(f[k + 1])
    BY <2>2, <2>3, <2>5 DEF s, u
  <2>7. QED
    BY <2>1, <2>6
<1> HIDE DEF A
<1>6. T \in A
  <2>1. \A k \in 0..T : k \in A
    BY <1>4, <1>5, UpTo
  <2>2. QED
    BY <2>1
<1> DEFINE s == f[T]
           q == Len(s) + 1
           m == n - (T + 1)
<1>7. s \in Seq(Int) /\ Below(s) /\ Len(s) \in Nat
    BY <1>3, <1>6 DEF A
<1>8. f[T + 1] = Append(s, T)
  <2>1. T + 1 \in 1..n /\ (T + 1) - 1 = T
    OBVIOUS
  <2>2. QED
    BY <1>3, <2>1
<1>9. InOrder(f[T + 1], T, q)
  <2> DEFINE u == Append(s, T)
  <2> HIDE DEF s
  <2>1. /\ Len(u) = Len(s) + 1 /\ u[Len(s) + 1] = T
        /\ \A j \in 1..Len(s) : u[j] = s[j]
    BY <1>7, AppendProperties
  <2> HIDE DEF u
  <2>2. ASSUME NEW j \in 1..Len(u) PROVE (j < q => u[j] < T) /\ (j > q => u[j] > T)
    <3>1. ~(j > q) /\ (j < q => j \in 1..Len(s))
      BY <1>7, <2>1
    <3>2. QED
      BY <1>7, <2>1, <3>1
  <2>3. q \in 1..Len(u) /\ u[q] = T
    BY <1>7, <2>1
  <2>4. InOrder(u, T, q)
    BY <2>2, <2>3 DEF InOrder
  <2>5. QED
    BY <1>8, <2>4 DEF u
<1> HIDE DEF q, s
<1> DEFINE B == {k \in 0..m : InOrder(f[T + 1 + k], T, q)}
<1>10. m \in Nat
    OBVIOUS
<1>11. 0 \in B
    BY <1>9
<1>12. ASSUME NEW k \in 0..m - 1, k \in B PROVE k + 1 \in B
  <2> DEFINE j == T + 1 + k
  <2>1. /\ k + 1 \in 0..m /\ j \in 0..n /\ j + 1 \in 1..n /\ (j + 1) - 1 = j
        /\ T + 1 + (k + 1) = j + 1 /\ j > T /\ j \in Int
    OBVIOUS
  <2> HIDE DEF j
  <2>2. f[j] \in Seq(Int) /\ InOrder(f[j], T, q)
    BY <1>3, <1>12, <2>1 DEF j
  <2>3. f[j + 1] = Append(f[j], j) \/ f[j + 1] = f[j]
    BY <1>3, <2>1
  <2>4. InOrder(Append(f[j], j), T, q)
    BY <2>1, <2>2, MoreInOrder
  <2>5. InOrder(f[j + 1], T, q)
    BY <2>2, <2>3, <2>4
  <2>6. QED
    BY <2>1, <2>5
<1> HIDE DEF B, m
<1>13. m \in B
    BY <1>10, <1>11, <1>12, UpTo
<1>14. InOrder(f[n], T, q)
  <2>1. T + 1 + m = n
    BY DEF m
  <2>2. QED
    BY <1>13, <2>1 DEF B
<1>15. QED
    BY <1>3, <1>14 DEF at

\* Choosing among them, as pairs of a value and a directory.
Choice(b, c) == [best |-> b, cd |-> c]

LEMMA Revalued ==
    ASSUME NEW a, NEW b, NEW c, NEW s, s = Choice(a, c), NEW t, t = [s EXCEPT !.best = b]
    PROVE  t = Choice(b, c)
<1> DEFINE F == {"best", "cd"}
           u == Choice(b, c)
<1>1. DOMAIN s = F
    BY DEF Choice
<1>2. t = [x \in F |-> t[x]] /\ u = [x \in F |-> u[x]]
  <2>1. DOMAIN t = F /\ DOMAIN u = F
    BY <1>1 DEF Choice
  <2>2. t = [x \in DOMAIN t |-> t[x]] /\ u = [x \in DOMAIN u |-> u[x]]
    BY DEF Choice
  <2>3. QED
    BY <2>1, <2>2
<1>3. t["best"] = u["best"] /\ t["cd"] = u["cd"]
    BY <1>1 DEF Choice
<1> HIDE DEF u
<1>4. t = u
    BY <1>2, <1>3
<1>5. QED
    BY <1>4 DEF u

\* What a candidate changes.
LEMMA CandidateIs ==
    ASSUME NEW b, NEW c, NEW x, NEW check
    PROVE  /\ ~x.ok => Candidate(Choice(b, c), x, check) = Choice(b, c)
           /\ x.ok /\ ~c.ok =>
                 Candidate(Choice(b, c), x, check) = Choice(IF check THEN CheckCons(x) ELSE 1, x)
           /\ x.ok /\ c.ok =>
                 LET v == IF b <= 1 THEN CheckCons(c) ELSE b
                 IN  Candidate(Choice(b, c), x, check) =
                        IF v < CheckCons(x) THEN Choice(CheckCons(x), x) ELSE Choice(v, c)
<1> DEFINE s == Choice(b, c)
           v == IF b <= 1 THEN CheckCons(c) ELSE b
<1>1. s.best = b /\ s.cd = c
    BY DEF Choice
<1> HIDE DEF s, v
<1>2. [s EXCEPT !.best = v] = Choice(v, c)
  <2>1. s = Choice(b, c)
    BY DEF s
  <2> DEFINE t == [s EXCEPT !.best = v]
  <2>2. t = [s EXCEPT !.best = v]
    OBVIOUS
  <2> HIDE DEF t
  <2>3. t = Choice(v, c)
    BY ONLY <2>1, <2>2, Revalued
  <2>4. QED
    BY <2>2, <2>3
<1>3. ~x.ok => Candidate(s, x, check) = s
    BY DEF Candidate
<1>4. x.ok /\ ~c.ok => Candidate(s, x, check) = Choice(IF check THEN CheckCons(x) ELSE 1, x)
    BY <1>1 DEF Candidate, Choice
<1>5. ASSUME x.ok, c.ok
      PROVE Candidate(s, x, check) = IF v < CheckCons(x) THEN Choice(CheckCons(x), x) ELSE Choice(v, c)
  <2>1. Candidate(s, x, check) = Best(s, v, x, CheckCons(x))
    BY <1>1, <1>5 DEF Candidate, v
  <2>2. QED
    BY <1>2, <2>1 DEF Best, Choice
<1>6. QED
    BY <1>3, <1>4, <1>5 DEF s, v

\* Before the end record of the file has been looked at, and after.
Unsettled(s, check) ==
    s = Choice(0, NoZip) \/ (Len(ents) > 0 /\ ~check /\ s = Choice(1, Nothing))
Settled(s, d) == \E b \in {1, CheckCons(d)} : s = Choice(b, d)

\* A decoy before the end record may be a candidate, but the directory
\* takes its place, and no decoy behind it takes that of the directory.
LEMMA Settling ==
    ASSUME NEW N \in Nat, Whole(N), NEW d, Directory(d, N), NEW check \in BOOLEAN, NEW s, NEW x
    PROVE  /\ Unsettled(s, check) /\ Len(ents) > 0 /\ x \in {NoZip, Nothing}
                 /\ (check => x = NoZip) => Unsettled(Candidate(s, x, check), check)
           /\ Unsettled(s, check) => Settled(Candidate(s, d, check), d)
           /\ Settled(s, d) /\ x \in {NoZip, Nothing} => Settled(Candidate(s, x, check), d)
<1> DEFINE V == CheckCons(d)
<1>1. d.ok
  <2>1. d = [ok |-> TRUE, offset |-> N, es |-> d.es]
    BY DEF Directory
  <2>2. QED
    BY <2>1
<1>2. Nothing.ok /\ ~NoZip.ok /\ CheckCons(Nothing) = 1
    BY NothingConsistent DEF Nothing, NoZip
<1>3. V \in Nat /\ V >= 1 /\ (Len(ents) > 0 => V > 1)
  <2>1. V \in Nat /\ IF Len(ents) = 0 THEN V = 1 ELSE V > 1
    BY Consistent
  <2>2. QED
    BY <2>1
<1> HIDE DEF V
<1>4. ASSUME Unsettled(s, check), Len(ents) > 0, x \in {NoZip, Nothing}, check => x = NoZip
      PROVE  Unsettled(Candidate(s, x, check), check)
  <2>1. CASE x = NoZip
    <3>1. Candidate(s, x, check) = s
      BY <1>2, <1>4, <2>1, CandidateIs DEF Unsettled
    <3>2. QED
      BY <1>4, <3>1
  <2>2. CASE x = Nothing
    <3>1. ~check /\ x.ok /\ CheckCons(x) = 1
      BY <1>2, <1>4, <2>2 DEF Nothing, NoZip
    <3>2. CASE s = Choice(0, NoZip)
      <4>1. Candidate(s, x, check) = Choice(1, x)
        BY <1>2, <3>1, <3>2, CandidateIs
      <4>2. QED
        BY <1>4, <2>2, <3>1, <4>1 DEF Unsettled
    <3>3. CASE s = Choice(1, Nothing)
      <4>1. Candidate(s, x, check) = Choice(1, Nothing)
        <5>1. 1 <= 1 /\ ~(1 < 1)
          OBVIOUS
        <5>2. QED
          BY <1>2, <3>1, <3>3, <5>1, CandidateIs
      <4>2. QED
        BY <1>4, <3>1, <4>1 DEF Unsettled
    <3>4. QED
      BY <1>4, <3>2, <3>3 DEF Unsettled
  <2>3. QED
    BY <1>4, <2>1, <2>2
<1>5. ASSUME Unsettled(s, check) PROVE Settled(Candidate(s, d, check), d)
  <2>1. CASE s = Choice(0, NoZip)
    <3>1. Candidate(s, d, check) = Choice(IF check THEN V ELSE 1, d)
      BY <1>1, <1>2, <2>1, CandidateIs DEF V
    <3>2. QED
      BY <3>1 DEF Settled, V
  <2>2. CASE Len(ents) > 0 /\ s = Choice(1, Nothing)
    <3>1. 1 < V /\ 1 <= 1
      BY <1>3, <2>2
    <3>2. Candidate(s, d, check) = Choice(V, d)
      BY <1>1, <1>2, <2>2, <3>1, CandidateIs DEF V
    <3>3. QED
      BY <3>2 DEF Settled, V
  <2>3. QED
    BY <1>5, <2>1, <2>2 DEF Unsettled
<1>6. ASSUME Settled(s, d), x \in {NoZip, Nothing} PROVE Settled(Candidate(s, x, check), d)
  <2>1. PICK b \in {1, V} : s = Choice(b, d)
    BY <1>6 DEF Settled, V
  <2>2. CASE x = NoZip
    <3>1. Candidate(s, x, check) = s
      BY <1>2, <2>1, <2>2, CandidateIs
    <3>2. QED
      BY <1>6, <3>1
  <2>3. CASE x = Nothing
    <3>1. (IF b <= 1 THEN V ELSE b) = V /\ ~(V < 1)
      BY <1>3, <2>1
    <3>2. Candidate(s, x, check) = Choice(V, d)
      BY <1>1, <1>2, <2>1, <2>3, <3>1, CandidateIs DEF V
    <3>3. QED
      BY <3>2 DEF Settled, V
  <2>4. QED
    BY <1>6, <2>2, <2>3
<1>7. QED
    BY <1>4, <1>5, <1>6

\* The loop over the end records.
CandidateLoop(f, ends, check) ==
    /\ FindCentralDir(check) = f[Len(ends)] /\ f[0] = Choice(0, NoZip)
    /\ \A k \in 1..Len(ends) : f[k] = Candidate(f[k - 1], ReadCdir(ends[k], check), check)

EndsFound ==
    LET lo == IF Len(file) < BufSize THEN 0 ELSE BufOffset + 1
    IN  Picked([i \in 1..Len(file) |-> i - 1],
               {i \in 1..Len(file) : i - 1 >= lo /\ Cell(i - 1).k = "eocd"})

\* _zip_find_central_dir is such a loop over the end records.
LEMMA CandidateLoopExists ==
    ASSUME NEW check, Len(EndsFound) \in Nat
    PROVE  \E f : CandidateLoop(f, EndsFound, check)
<1> DEFINE ends == EndsFound
           m == Len(ends)
           none == Choice(0, NoZip)
           cd(k) == ReadCdir(ends[k], check)
           Loop(f) == f = [k \in 0..m |-> IF k = 0 THEN none ELSE Candidate(f[k - 1], cd(k), check)]
           f == CHOOSE f : Loop(f)
           C == {NoZip} \cup {cd(k) : k \in 1..m}
           B == {0, 1} \cup {CheckCons(x) : x \in C}
           S == {Choice(b, c) : b \in B, c \in C}
           g == [z \in (1..m) \X S |-> Candidate(z[2], cd(z[1]), check)]
<1>1. FindCentralDir(check) = f[m]
    BY DEF FindCentralDir, EndsFound, Choice
<1>2. none \in S
    OBVIOUS
<1>3. ASSUME NEW k \in 1..m, NEW s \in S PROVE Candidate(s, cd(k), check) \in S
  <2> DEFINE x == cd(k)
  <2>1. PICK b \in B, c \in C : s = Choice(b, c)
    OBVIOUS
  <2>2. x \in C /\ CheckCons(x) \in B /\ CheckCons(c) \in B /\ 1 \in B
    OBVIOUS
  <2> HIDE DEF x, B, C
  <2> DEFINE v == IF b <= 1 THEN CheckCons(c) ELSE b
  <2>3. v \in B
    BY <2>2
  <2>4. \A y \in B, w \in C : Choice(y, w) \in S
    OBVIOUS
  <2>5. Candidate(s, x, check) \in {Choice(b, c), Choice(CheckCons(x), x), Choice(1, x), Choice(v, c)}
    BY <2>1, CandidateIs
  <2> HIDE DEF v, S
  <2>6. Candidate(s, x, check) \in S
    BY <2>1, <2>2, <2>3, <2>4, <2>5
  <2>7. QED
    BY <2>6 DEF x
<1> HIDE DEF S, none, cd
<1>4. g \in [(1..m) \X S -> S]
    BY <1>3
<1>5. m \in Nat
    OBVIOUS
<1> HIDE DEF g, m
<1>6. PICK h : LoopOf(h, m, S, none, g)
    BY <1>2, <1>4, <1>5, LoopExists
<1>7. h \in [0..m -> S] /\ h[0] = none /\ \A k \in 1..m : h[k] = g[<<k, h[k - 1]>>]
    BY <1>6 DEF LoopOf
<1>8. ASSUME NEW k \in 0..m, k # 0 PROVE h[k] = Candidate(h[k - 1], cd(k), check)
  <2>1. k \in 1..m /\ k - 1 \in 0..m
    BY <1>5, <1>8
  <2>2. h[k - 1] \in S
    BY <1>7, <2>1
  <2>3. g[<<k, h[k - 1]>>] = Candidate(h[k - 1], cd(k), check)
    BY <2>1, <2>2 DEF g
  <2>4. QED
    BY <1>7, <2>1, <2>3
<1>9. Loop(h)
  <2>1. h = [k \in 0..m |-> h[k]]
    BY <1>7
  <2>2. QED
    BY <1>7, <1>8, <2>1
<1>10. Loop(f)
    BY <1>9
<1> HIDE DEF f
<1>11. f[0] = none
    BY <1>5, <1>10
<1>12. ASSUME NEW k \in 1..m PROVE f[k] = Candidate(f[k - 1], cd(k), check)
  <2>1. k \in 0..m /\ k # 0
    BY <1>5
  <2>2. QED
    BY <1>10, <2>1
<1>13. CandidateLoop(f, ends, check)
  <2> HIDE DEF ends
  <2>1. QED
    BY <1>1, <1>11, <1>12 DEF CandidateLoop, none, cd, m
<1>14. QED
    BY <1>13

\* Each of them is that of the file or a decoy.
Decoyed(at, N, check) ==
    /\ ReadCdir(at, check) \in {NoZip, Nothing}
    /\ at < LastAt(N) => Len(ents) > 0 /\ (check => ReadCdir(at, check) = NoZip)

\* Every end record but the last is that of an empty archive, or none at
\* all.
LEMMA EndsAreDecoys ==
    ASSUME NEW N \in Nat, Whole(N), NEW check \in BOOLEAN, NEW at \in 0..Len(file) - 1,
           Cell(at).k = "eocd", at # LastAt(N)
    PROVE  Decoyed(at, N, check)
<1> DEFINE T == LastAt(N)
<1>1. /\ T \in Nat /\ Len(comment) \in Nat /\ Len(file) = T + 1 + Len(comment)
      /\ file[T + 1] = LastRecord(N)
      /\ \A i \in 1..T : /\ file[i].k = "eocd" => file[i] = EmptyEnd /\ Len(ents) > 0
                         /\ file[i].k = "loc64" => i = T
      /\ \A i \in T + 2..Len(file) :
            file[i].k # "loc64" /\ (file[i].k = "eocd" => file[i] = EmptyEnd)
    BY WholeAround DEF Around
<1>2. IsList(file)
    BY DEF Whole
<1> HIDE DEF T
<1>3. Cell(at) = file[at + 1] /\ at \in Nat /\ at + 1 \in 1..Len(file)
    BY <1>1 DEF Cell
<1>4. at < T => at + 1 \in 1..T /\ at + 1 # Len(file)
    BY <1>1, <1>3
<1>5. at > T => at + 1 \in T + 2..Len(file)
    BY <1>1, <1>3
<1>6. at < T \/ at > T
    BY <1>1, <1>3 DEF T
<1>7. Cell(at) = EmptyEnd /\ (at < T => Len(ents) > 0)
    BY <1>1, <1>3, <1>4, <1>5, <1>6
<1>8. ~(at >= 1 /\ Cell(at - 1).k = "loc64")
  <2>1. SUFFICES ASSUME at >= 1 PROVE Cell(at - 1).k # "loc64"
    OBVIOUS
  <2>2. Cell(at - 1) = file[at] /\ at \in 1..Len(file)
    BY <1>1, <1>3, <2>1 DEF Cell
  <2>3. CASE at < T
    BY <1>1, <2>2, <2>3
  <2>4. CASE at = T + 1
    BY <1>1, <2>2, <2>4 DEF LastRecord
  <2>5. CASE at > T + 1
    <3>1. at \in T + 2..Len(file)
      BY <1>1, <2>2, <2>5
    <3>2. QED
      BY <1>1, <2>2, <3>1
  <2>6. QED
    BY <1>1, <1>3, <1>6, <2>3, <2>4, <2>5
<1>9. /\ ReadCdir(at, check) \in {NoZip, Nothing}
      /\ (check /\ at + 1 # Len(file) => ReadCdir(at, check) = NoZip)
    BY <1>2, <1>7, <1>8, DecoyRead
<1>10. QED
    BY <1>4, <1>7, <1>9 DEF Decoyed, T

\* zip_open finds the directory that zip_close wrote.
LEMMA DirectoryFound ==
    ASSUME NEW N \in Nat, Whole(N), NEW check \in BOOLEAN
    PROVE  FindCentralDir(check).best # 0 /\ Directory(FindCentralDir(check).cd, N)
<1> DEFINE n == Len(file)
           T == LastAt(N)
           lo == IF Len(file) < BufSize THEN 0 ELSE BufOffset + 1
           at == [i \in 1..Len(file) |-> i - 1]
           P == {i \in 1..Len(file) : i - 1 >= lo /\ Cell(i - 1).k = "eocd"}
           ends == EndsFound
           d == ReadCdir(T, check)
<1>1. /\ T \in Nat /\ Len(comment) \in Nat /\ Len(comment) <= M16 /\ n = T + 1 + Len(comment)
      /\ file[T + 1] = LastRecord(N) /\ n \in Nat
    BY WholeAround DEF Around, Whole, IsList
<1>2. Directory(d, N)
    BY LastRead
<1>3. ends = Picked(at, P)
    BY DEF EndsFound
<1> HIDE DEF ends
<1>4. T + 1 \in P
  <2>1. Cell(T) = file[T + 1] /\ (T + 1) - 1 = T /\ T + 1 \in 1..n
    BY <1>1 DEF Cell
  <2>2. file[T + 1].k = "eocd"
    BY <1>1 DEF LastRecord
  <2>3. T >= lo
    BY <1>1, WidthsAssumption DEF BufSize, BufOffset
  <2>4. QED
    BY <2>1, <2>2, <2>3
<1>5. T \in 0..n - 1
    BY <1>1
<1>6. PICK q : InOrder(ends, T, q)
  <2> HIDE DEF P, T
  <2>1. QED
    BY <1>1, <1>3, <1>4, <1>5, PickedInOrder
<1>7. at \in Seq(Int) /\ Len(at) = n
  <2>1. at \in [1..n -> Int]
    OBVIOUS
  <2> HIDE DEF at, n
  <2>2. QED
    BY ONLY <1>1, <2>1
<1> DEFINE m == Len(ends)
<1>8. m \in Nat /\ q \in 1..m
  <2> HIDE DEF at, P
  <2>1. ends \in Seq(Int)
    BY <1>3, <1>7, PickedType
  <2>2. QED
    BY <1>6, <2>1 DEF InOrder
<1>9. ASSUME NEW k \in 1..m PROVE ends[k] \in 0..n - 1 /\ Cell(ends[k]).k = "eocd"
  <2> DEFINE X == {at[i] : i \in {i \in 1..Len(at) : i \in P}}
  <2> HIDE DEF at, P
  <2>1. ends \in Seq(X)
    BY ONLY <1>3, <1>7, PickedFrom
  <2>2. ends[k] \in X
    <3> HIDE DEF X
    <3>1. QED
      BY <2>1
  <2>3. PICK i \in P : ends[k] = at[i]
    BY <2>2
  <2>4. ends[k] = i - 1 /\ i \in 1..n /\ Cell(i - 1).k = "eocd"
    BY <2>3 DEF at, P
  <2>5. QED
    BY <1>1, <2>4
<1>10. ASSUME NEW k \in 1..m
       PROVE  /\ k < q => Decoyed(ends[k], N, check) /\ ends[k] < T
              /\ k = q => ends[k] = T
              /\ k > q => Decoyed(ends[k], N, check)
  <2>1. (k < q => ends[k] < T) /\ (k > q => ends[k] > T) /\ (k = q => ends[k] = T)
    BY <1>6 DEF InOrder
  <2>2. ends[k] \in 0..n - 1 /\ Cell(ends[k]).k = "eocd"
    BY <1>9
  <2>3. ends[k] # T => Decoyed(ends[k], N, check)
    BY <2>2, EndsAreDecoys
  <2>4. k # q => ends[k] # T
    BY <1>1, <1>8, <2>1, <2>2
  <2>5. QED
    BY <1>8, <2>1, <2>3, <2>4
<1>11. PICK f : CandidateLoop(f, ends, check)
    BY <1>8, CandidateLoopExists DEF ends
<1> HIDE DEF P, at, d
<1> DEFINE A == {k \in 0..m : (k < q => Unsettled(f[k], check)) /\ (k >= q => Settled(f[k], d))}
<1>12. 0 \in A
    BY <1>8, <1>11 DEF CandidateLoop, Unsettled
<1>13. ASSUME NEW k \in 0..m - 1, k \in A PROVE k + 1 \in A
  <2>1. k + 1 \in 1..m /\ k + 1 \in 0..m /\ (k + 1) - 1 = k
    BY <1>8
  <2> DEFINE x == ReadCdir(ends[k + 1], check)
  <2>2. f[k + 1] = Candidate(f[k], x, check)
    BY <1>11, <2>1 DEF CandidateLoop
  <2>3. CASE k + 1 < q
    <3>1. Unsettled(f[k], check)
      BY <1>8, <1>13, <2>3
    <3>2. Decoyed(ends[k + 1], N, check) /\ ends[k + 1] < T
      BY <1>10, <2>1, <2>3
    <3>3. x \in {NoZip, Nothing} /\ Len(ents) > 0 /\ (check => x = NoZip)
      BY <3>2 DEF Decoyed
    <3> HIDE DEF x
    <3>4. Unsettled(f[k + 1], check)
      BY <1>2, <2>2, <3>1, <3>3, Settling
    <3>5. QED
      BY <1>8, <2>1, <2>3, <3>4
  <2>4. CASE k + 1 = q
    <3>1. Unsettled(f[k], check)
      BY <1>8, <1>13, <2>4
    <3>2. x = d
      BY <1>10, <2>1, <2>4 DEF d
    <3> HIDE DEF x
    <3>3. Settled(f[k + 1], d)
      BY <1>2, <2>2, <3>1, <3>2, Settling
    <3>4. QED
      BY <1>8, <2>1, <2>4, <3>3
  <2>5. CASE k + 1 > q
    <3>1. Settled(f[k], d)
      BY <1>8, <1>13, <2>5
    <3>2. x \in {NoZip, Nothing}
      BY <1>10, <2>1, <2>5 DEF Decoyed
    <3> HIDE DEF x
    <3>3. Settled(f[k + 1], d)
      BY <1>2, <2>2, <3>1, <3>2, Settling
    <3>4. QED
      BY <1>8, <2>1, <2>5, <3>3
  <2>6. QED
    BY <1>8, <2>3, <2>4, <2>5
<1>14. m \in A
  <2>1. m \in Nat
    BY <1>8
  <2> HIDE DEF A, m
  <2>2. \A k \in 0..m : k \in A
    BY ONLY <2>1, <1>12, <1>13, UpTo
  <2>3. m \in 0..m
    BY <2>1
  <2>4. QED
    BY ONLY <2>2, <2>3
<1>15. Settled(f[m], d) /\ FindCentralDir(check) = f[m]
    BY <1>8, <1>11, <1>14 DEF CandidateLoop
<1>16. PICK b \in {1, CheckCons(d)} : FindCentralDir(check) = Choice(b, d)
    BY <1>15 DEF Settled
<1>17. CheckCons(d) # 0
  <2>1. CheckCons(d) \in Nat /\ IF Len(ents) = 0 THEN CheckCons(d) = 1 ELSE CheckCons(d) > 1
    BY <1>2, Consistent
  <2>2. QED
    BY <2>1
<1>18. FindCentralDir(check).best = b /\ FindCentralDir(check).cd = d
    BY <1>16 DEF Choice
<1>19. QED
    BY <1>2, <1>16, <1>17, <1>18

-----------------------------------------------------------------------------
(* What a caller sees of the fields, once those of both headers are merged. *)

Shown(ef) == <<ef.id, ef.vals>>
Contents(s, k) == {Shown(s[i]) : i \in {i \in 1..Len(s) : k \in s[i].for}}
ShownFor(x, k) == IF k \in x.for THEN {Shown(x)} ELSE {}

\* One more field is seen, if it is of the kind.
LEMMA ContentsAppend ==
    ASSUME NEW S, NEW s \in Seq(S), NEW x \in S, NEW k
    PROVE  Contents(Append(s, x), k) = Contents(s, k) \cup ShownFor(x, k)
<1> DEFINE t == Append(s, x)
           n == Len(s)
<1>1. n \in Nat /\ Len(t) = n + 1 /\ t[n + 1] = x /\ \A i \in 1..n : t[i] = s[i]
    OBVIOUS
<1>2. 1..n + 1 = 1..n \cup {n + 1} /\ n + 1 \in 1..n + 1 /\ 1..n \subseteq 1..n + 1
    BY <1>1
<1> HIDE DEF t, n
<1>3. Contents(t, k) = {Shown(t[i]) : i \in {i \in 1..n + 1 : k \in t[i].for}}
    BY <1>1 DEF Contents
<1>4. Contents(s, k) = {Shown(s[i]) : i \in {i \in 1..n : k \in s[i].for}}
    BY DEF Contents, n
<1> HIDE DEF Shown
<1>5. Contents(t, k) = Contents(s, k) \cup ShownFor(x, k)
  <2>1. ASSUME NEW y \in Contents(t, k) PROVE y \in Contents(s, k) \cup ShownFor(x, k)
    <3>1. PICK i \in 1..n + 1 : k \in t[i].for /\ y = Shown(t[i])
      BY <1>3, <2>1
    <3>2. CASE i = n + 1
      BY <1>1, <3>1, <3>2 DEF ShownFor
    <3>3. CASE i \in 1..n
      BY <1>1, <1>4, <3>1, <3>3
    <3>4. QED
      BY <1>2, <3>2, <3>3
  <2>2. ASSUME NEW y \in Contents(s, k) PROVE y \in Contents(t, k)
    <3>1. PICK i \in 1..n : k \in s[i].for /\ y = Shown(s[i])
      BY <1>4, <2>2
    <3>2. i \in 1..n + 1 /\ t[i] = s[i]
      BY <1>1, <1>2, <3>1
    <3>3. QED
      BY <1>3, <3>1, <3>2
  <2>3. ASSUME NEW y \in ShownFor(x, k) PROVE y \in Contents(t, k)
    <3>1. k \in x.for /\ y = Shown(x)
      BY <2>3 DEF ShownFor
    <3>2. QED
      BY <1>1, <1>2, <1>3, <3>1
  <2>4. QED
    BY <2>1, <2>2, <2>3
<1>6. QED
    BY <1>5 DEF t

LEMMA ContentsNil == ASSUME NEW k PROVE Contents(<<>>, k) = {}
    BY DEF Contents

\* All that EfFor leaves is of the kind.
LEMMA SeenIs ==
    ASSUME NEW S, NEW efs \in Seq(S), NEW k
    PROVE  Seen(efs, k) = Contents(efs, k)
<1> DEFINE Listed(s) == {Shown(s[i]) : i \in 1..Len(s)}
           T == {s \in Seq(S) : Listed(EfFor(s, {k})) = Contents(s, k)}
<1>1. <<>> \in T
  <2>1. EfFor(<<>>, {k}) = <<>>
    BY PickedNil DEF EfFor
  <2>2. Listed(<<>>) = {}
    OBVIOUS
  <2>3. QED
    BY <2>1, <2>2, ContentsNil
<1>2. ASSUME NEW s \in Seq(S), NEW x \in S, s \in T PROVE Append(s, x) \in T
  <2> DEFINE e == EfFor(s, {k})
             f == EfFor(Append(s, x), {k})
  <2>1. e \in Seq(S) /\ f = IF x.for \cap {k} # {} THEN Append(e, x) ELSE e
    BY EfForType, EfForAppend
  <2>2. x.for \cap {k} # {} <=> k \in x.for
    OBVIOUS
  <2> HIDE DEF e, f
  <2>3. Listed(Append(e, x)) = Listed(e) \cup {Shown(x)}
    <3> DEFINE t == Append(e, x)
               n == Len(e)
    <3>1. n \in Nat /\ Len(t) = n + 1 /\ t[n + 1] = x /\ \A i \in 1..n : t[i] = e[i]
      BY <2>1
    <3>2. 1..n + 1 = 1..n \cup {n + 1} /\ n + 1 \in 1..n + 1 /\ 1..n \subseteq 1..n + 1
      BY <3>1
    <3>3. Listed(t) = {Shown(t[i]) : i \in 1..n + 1} /\ Listed(e) = {Shown(e[i]) : i \in 1..n}
      BY <3>1
    <3> HIDE DEF t, n, Shown, Listed
    <3>4. Listed(t) = Listed(e) \cup {Shown(x)}
      BY <3>1, <3>2, <3>3
    <3>5. QED
      BY <3>4 DEF t
  <2>4. Listed(e) = Contents(s, k)
    BY <1>2 DEF e
  <2>5. Contents(Append(s, x), k) = Contents(s, k) \cup ShownFor(x, k)
    BY ContentsAppend
  <2>6. Listed(f) = Contents(Append(s, x), k)
    <3> HIDE DEF Listed
    <3>1. QED
      BY <2>1, <2>2, <2>3, <2>4, <2>5 DEF ShownFor
  <2>7. Append(s, x) \in Seq(S)
    OBVIOUS
  <2> HIDE DEF Listed
  <2>8. QED
    BY <2>6, <2>7 DEF f
<1> HIDE DEF T
<1>3. Seq(S) \subseteq T
    BY ONLY <1>1, <1>2, ListInduction
<1>4. Listed(EfFor(efs, {k})) = Contents(efs, k)
    BY <1>3 DEF T
<1>5. Seen(efs, k) = Listed(EfFor(efs, {k}))
  <2>1. EfFor(efs, {k}) \in Seq(S)
    BY EfForType
  <2> DEFINE e == EfFor(efs, {k})
  <2>2. DOMAIN e = 1..Len(e)
    BY <2>1
  <2> HIDE DEF e
  <2>3. {<<ef.id, ef.vals>> : ef \in Range(e)} = {<<e[i].id, e[i].vals>> : i \in 1..Len(e)}
    BY <2>2 DEF Range
  <2>4. QED
    BY <2>3 DEF Seen, Shown, e
<1>6. QED
    BY <1>4, <1>5

Equals(t, x) == {i \in DOMAIN t : t[i].id = x.id /\ t[i].vals = x.vals}
FirstOf(S) == CHOOSE i \in S : \A j \in S : i <= j
MergeStep(t, x) ==
    IF Equals(t, x) = {} THEN Append(t, x)
    ELSE [t EXCEPT ![FirstOf(Equals(t, x))].for = @ \cup x.for]

Adding(u, t, x, S) ==
    u \in Seq(S) /\ \A k : Contents(u, k) = Contents(t, k) \cup ShownFor(x, k)

\* Merging a field makes it seen of its kinds, and changes nothing else
\* that is seen.
LEMMA MergeStepAdds ==
    ASSUME NEW I, NEW V, NEW t \in Seq(Fields(I, V)), NEW x \in Fields(I, V)
    PROVE  Adding(MergeStep(t, x), t, x, Fields(I, V))
<1> DEFINE S == Fields(I, V)
           A == Equals(t, x)
           p == FirstOf(A)
<1>1. CASE A = {}
  <2>1. MergeStep(t, x) = Append(t, x)
    BY <1>1 DEF MergeStep
  <2>2. Append(t, x) \in Seq(S)
    BY AppendProperties
  <2>3. ASSUME NEW k PROVE Contents(Append(t, x), k) = Contents(t, k) \cup ShownFor(x, k)
    BY ContentsAppend
  <2>4. QED
    BY <2>1, <2>2, <2>3 DEF Adding
<1>2. CASE A # {}
  <2>1. A \subseteq Nat /\ DOMAIN t = 1..Len(t) /\ Len(t) \in Nat
    BY DEF Equals
  <2>2. p \in A
    <3> HIDE DEF A
    <3>1. \E i \in A : \A j \in A : i <= j
      BY <1>2, <2>1, Least
    <3>2. QED
      BY <3>1 DEF FirstOf
  <2>3. p \in 1..Len(t) /\ t[p].id = x.id /\ t[p].vals = x.vals
    BY <2>1, <2>2 DEF Equals
  <2> HIDE DEF p, A
  <2> DEFINE y == [t[p] EXCEPT !.for = @ \cup x.for]
             u == [t EXCEPT ![p] = y]
  <2>4. MergeStep(t, x) = u
    BY <1>2 DEF MergeStep, A, p
  <2>5. t[p] \in S
    BY <2>3
  <2>6. y \in S /\ y.id = x.id /\ y.vals = x.vals /\ y.for = t[p].for \cup x.for
    BY <2>3, <2>5 DEF Fields
  <2> HIDE DEF y
  <2>7. HasReplaced(u, S, t, p, y)
    BY <2>3, <2>6, ReplacedType
  <2> HIDE DEF u
  <2>8. u \in Seq(S) /\ Len(u) = Len(t) /\ \A i \in 1..Len(t) : u[i] = IF i = p THEN y ELSE t[i]
    BY <2>7 DEF HasReplaced
  <2>9. ASSUME NEW k PROVE Contents(u, k) = Contents(t, k) \cup ShownFor(x, k)
    <3>1. Shown(y) = Shown(x) /\ Shown(t[p]) = Shown(x)
      BY <2>3, <2>6 DEF Shown
    <3>2. Contents(u, k) = {Shown(u[i]) : i \in {i \in 1..Len(t) : k \in u[i].for}}
      BY <2>8 DEF Contents
    <3>3. Contents(t, k) = {Shown(t[i]) : i \in {i \in 1..Len(t) : k \in t[i].for}}
      BY DEF Contents
    <3> HIDE DEF Shown
    <3>4. ASSUME NEW z \in Contents(u, k) PROVE z \in Contents(t, k) \cup ShownFor(x, k)
      <4>1. PICK i \in 1..Len(t) : k \in u[i].for /\ z = Shown(u[i])
        BY <3>2, <3>4
      <4>2. CASE i = p
        <5>1. z = Shown(x) /\ (k \in t[p].for \/ k \in x.for)
          BY <2>6, <2>8, <3>1, <4>1, <4>2
        <5>2. QED
          BY <2>3, <3>1, <3>3, <5>1 DEF ShownFor
      <4>3. CASE i # p
        BY <2>8, <3>3, <4>1, <4>3
      <4>4. QED
        BY <4>2, <4>3
    <3>5. ASSUME NEW z \in Contents(t, k) PROVE z \in Contents(u, k)
      <4>1. PICK i \in 1..Len(t) : k \in t[i].for /\ z = Shown(t[i])
        BY <3>3, <3>5
      <4>2. k \in u[i].for /\ z = Shown(u[i])
        BY <2>6, <2>8, <3>1, <4>1
      <4>3. QED
        BY <3>2, <4>2
    <3>6. ASSUME NEW z \in ShownFor(x, k) PROVE z \in Contents(u, k)
      <4>1. k \in x.for /\ z = Shown(x)
        BY <3>6 DEF ShownFor
      <4>2. k \in u[p].for /\ z = Shown(u[p])
        BY <2>3, <2>6, <2>8, <3>1, <4>1
      <4>3. QED
        BY <2>3, <3>2, <4>2
    <3>7. QED
      BY <3>4, <3>5, <3>6
  <2>10. QED
    BY <2>4, <2>8, <2>9 DEF Adding
<1>3. QED
    BY <1>1, <1>2

MergeLoop(f, S, to, from) ==
    /\ f \in [0..Len(from) -> Seq(S)] /\ f[0] = to
    /\ EfMerge(to, from) = IF to = <<>> THEN from ELSE f[Len(from)]
    /\ \A k \in 1..Len(from) : f[k] = MergeStep(f[k - 1], from[k])

\* _zip_ef_merge is such a loop over the fields to add.
LEMMA MergeLoopExists ==
    ASSUME NEW I, NEW V, NEW to \in Seq(Fields(I, V)), NEW from \in Seq(Fields(I, V))
    PROVE  \E f : MergeLoop(f, Fields(I, V), to, from)
<1> DEFINE S == Fields(I, V)
           n == Len(from)
           g == [x \in (1..n) \X Seq(S) |-> MergeStep(x[2], from[x[1]])]
           Loop(f) == f = [k \in 0..n |-> IF k = 0 THEN to ELSE MergeStep(f[k - 1], from[k])]
<1>1. n \in Nat /\ to \in Seq(S)
    OBVIOUS
<1>2. ASSUME NEW k \in 1..n, NEW t \in Seq(S) PROVE MergeStep(t, from[k]) \in Seq(S)
    BY MergeStepAdds DEF Adding
<1>3. g \in [(1..n) \X Seq(S) -> Seq(S)]
  <2> HIDE DEF n, S
  <2>1. QED
    BY <1>2
<1>4. PICK e : e \in [0..n -> Seq(S)]
                   /\ e[0] = to /\ \A k \in 1..n : e[k] = g[<<k, e[k - 1]>>]
  <2> HIDE DEF g, n, S
  <2>1. \E e : LoopOf(e, n, Seq(S), to, g)
    BY ONLY <1>1, <1>3, LoopExists, Zenon
  <2>2. QED
    BY <2>1 DEF LoopOf
<1>5. ASSUME NEW k \in 1..n, NEW t \in Seq(S) PROVE g[<<k, t>>] = MergeStep(t, from[k])
    OBVIOUS
<1>6. ASSUME NEW k \in 1..n PROVE e[k] = MergeStep(e[k - 1], from[k])
  <2>1. e[k - 1] \in Seq(S)
    BY <1>1, <1>4
  <2> HIDE DEF g
  <2>2. QED
    BY <1>4, <1>5, <2>1
<1> HIDE DEF g
<1>7. Loop(e)
  <2>1. \A k \in 0..n : k # 0 => k \in 1..n
    BY <1>1
  <2> HIDE DEF n
  <2>2. QED
    BY <1>4, <1>6, <2>1
<1> DEFINE f == CHOOSE f : Loop(f)
<1>8. EfMerge(to, from) = IF to = <<>> THEN from ELSE f[n]
    BY DEF EfMerge, MergeStep, Equals, FirstOf
<1>9. Loop(f)
    BY <1>7
<1> HIDE DEF f
<1>10. DOMAIN f = 0..n /\ f[0] = to /\ \A k \in 1..n : f[k] = MergeStep(f[k - 1], from[k])
  <2>1. 0 \in 0..n /\ \A k \in 1..n : k \in 0..n /\ k # 0
    BY <1>1
  <2> HIDE DEF n
  <2>2. QED
    BY <1>9, <2>1
<1> DEFINE T == {k \in 0..n : f[k] \in Seq(S)}
<1>11. 0 \in T
    BY <1>1, <1>10
<1>12. ASSUME NEW k \in 0..n - 1, k \in T PROVE k + 1 \in T
  <2>1. k + 1 \in 1..n /\ k + 1 \in 0..n /\ (k + 1) - 1 = k /\ f[k] \in Seq(S)
    BY <1>1, <1>12
  <2>2. f[k + 1] = MergeStep(f[k], from[k + 1])
    BY <1>10, <2>1
  <2>3. MergeStep(f[k], from[k + 1]) \in Seq(S)
    BY <1>2, <2>1
  <2>4. QED
    BY <2>1, <2>2, <2>3
<1>13. \A k \in 0..n : f[k] \in Seq(S)
  <2> HIDE DEF T
  <2>1. \A k \in 0..n : k \in T
    BY ONLY <1>1, <1>11, <1>12, UpTo
  <2>2. QED
    BY <2>1 DEF T
<1>14. f \in [0..n -> Seq(S)]
  <2>1. f = [k \in 0..n |-> f[k]]
    BY <1>9
  <2> HIDE DEF n, S
  <2>2. QED
    BY <1>13, <2>1, Zenon
<1>15. MergeLoop(f, S, to, from)
    BY <1>8, <1>10, <1>14 DEF MergeLoop
<1>16. QED
    BY <1>15

\* A caller sees of either kind what the two lists have of it.
LEMMA MergedContents ==
    ASSUME NEW I, NEW V, NEW to \in Seq(Fields(I, V)), NEW from \in Seq(Fields(I, V)), NEW k
    PROVE  /\ EfMerge(to, from) \in Seq(Fields(I, V))
           /\ Contents(EfMerge(to, from), k) = Contents(to, k) \cup Contents(from, k)
<1> DEFINE S == Fields(I, V)
           n == Len(from)
<1>1. PICK f : MergeLoop(f, S, to, from)
    BY MergeLoopExists
<1>2. /\ f \in [0..n -> Seq(S)] /\ f[0] = to
      /\ EfMerge(to, from) = IF to = <<>> THEN from ELSE f[n]
      /\ \A j \in 1..n : f[j] = MergeStep(f[j - 1], from[j])
    BY <1>1 DEF MergeLoop
<1>3. n \in Nat
    OBVIOUS
<1> DEFINE part(j) == {Shown(from[i]) : i \in {i \in 1..j : k \in from[i].for}}
           T == {j \in 0..n : Contents(f[j], k) = Contents(to, k) \cup part(j)}
<1>4. 0 \in T
  <2>1. part(0) = {}
    OBVIOUS
  <2> HIDE DEF part
  <2>2. QED
    BY <1>2, <1>3, <2>1
<1>5. ASSUME NEW j \in 0..n - 1, j \in T PROVE j + 1 \in T
  <2>1. j \in Nat /\ j + 1 \in 1..n /\ j + 1 \in 0..n /\ j \in 0..n /\ (j + 1) - 1 = j
    BY <1>3
  <2>2. f[j + 1] = MergeStep(f[j], from[j + 1]) /\ f[j] \in Seq(S) /\ from[j + 1] \in S
    BY <1>2, <2>1
  <2>3. Adding(f[j + 1], f[j], from[j + 1], S)
    BY <2>2, MergeStepAdds
  <2>4. Contents(f[j + 1], k) = Contents(f[j], k) \cup ShownFor(from[j + 1], k)
    BY <2>3 DEF Adding
  <2>5. part(j + 1) = part(j) \cup ShownFor(from[j + 1], k)
    <3>1. 1..j + 1 = 1..j \cup {j + 1}
      BY <2>1
    <3> HIDE DEF Shown
    <3>2. QED
      BY <3>1 DEF ShownFor
  <2>6. Contents(f[j], k) = Contents(to, k) \cup part(j)
    BY <1>5
  <2> HIDE DEF part
  <2>7. QED
    BY <2>1, <2>4, <2>5, <2>6
<1>6. Contents(f[n], k) = Contents(to, k) \cup part(n)
  <2> HIDE DEF T
  <2>1. \A j \in 0..n : j \in T
    BY ONLY <1>3, <1>4, <1>5, UpTo
  <2>2. n \in T
    BY <1>3, <2>1
  <2>3. QED
    BY <2>2 DEF T
<1>7. part(n) = Contents(from, k)
    BY DEF Contents
<1> HIDE DEF part
<1>8. f[n] \in Seq(S)
    BY <1>2, <1>3
<1>9. CASE to = <<>>
    BY <1>2, <1>9, ContentsNil
<1>10. CASE to # <<>>
    BY <1>2, <1>6, <1>7, <1>8, <1>10
<1>11. QED
    BY <1>9, <1>10

\* What was read from a header of one kind is what was there of it.
LEMMA MarkedSeen ==
    ASSUME NEW I, NEW V, NEW efs \in Seq(Fields(I, V)), NEW k \in Kinds, NEW j
    PROVE  /\ Marked(EfFor(efs, {k}), {k}) \in Seq(Fields(I, V))
           /\ Contents(Marked(EfFor(efs, {k}), {k}), j) = IF j = k THEN Seen(efs, k) ELSE {}
<1> DEFINE e == EfFor(efs, {k})
           m == Marked(e, {k})
<1>1. e \in Seq(Fields(I, V))
    BY EfForType
<1>2. Seen(efs, k) = {<<ef.id, ef.vals>> : ef \in Range(e)}
    BY DEF Seen
<1> HIDE DEF e
<1>3. m \in Seq(Fields(I, V)) /\ Len(m) = Len(e)
    BY <1>1, MarkedType
<1>4. DOMAIN e = 1..Len(e)
    BY <1>1
<1>5. ASSUME NEW i \in 1..Len(e) PROVE m[i].for = {k} /\ Shown(m[i]) = Shown(e[i])
  <2>1. m[i] = [id |-> e[i].id, vals |-> e[i].vals, for |-> {k}]
    BY <1>4 DEF Marked
  <2> HIDE DEF m
  <2>2. QED
    BY <2>1 DEF Shown
<1> HIDE DEF m
<1>6. Seen(efs, k) = {Shown(e[i]) : i \in 1..Len(e)}
    BY <1>2, <1>4 DEF Range, Shown
<1>7. Contents(m, j) = {Shown(m[i]) : i \in {i \in 1..Len(e) : j \in m[i].for}}
    BY <1>3 DEF Contents
<1> HIDE DEF Shown
<1>8. Contents(m, j) = IF j = k THEN Seen(efs, k) ELSE {}
  <2>1. CASE j = k
    <3>1. ASSUME NEW z \in Contents(m, j) PROVE z \in Seen(efs, k)
      BY <1>5, <1>6, <1>7, <3>1
    <3>2. ASSUME NEW z \in Seen(efs, k) PROVE z \in Contents(m, j)
      <4>1. PICK i \in 1..Len(e) : z = Shown(e[i])
        BY <1>6, <3>2
      <4>2. z = Shown(m[i]) /\ j \in m[i].for
        BY <1>5, <2>1, <4>1
      <4>3. QED
        BY <1>7, <4>2
    <3>3. QED
      BY <2>1, <3>1, <3>2
  <2>2. CASE j # k
    <3>1. ASSUME NEW i \in 1..Len(e) PROVE j \notin m[i].for
      BY <1>5, <2>2
    <3>2. QED
      BY <1>7, <2>2, <3>1
  <2>3. QED
    BY <2>1, <2>2
<1>9. QED
    BY <1>3, <1>8 DEF m, e

\* What _zip_read_local_ef and _zip_file_get_offset find for an entry.
LocalFound(d, de) ==
    /\ EfRemoveInternal(LocalEf(d).efs) = Marked(EfFor(de.efs, Local), Local)
    /\ FileGetOffset(d) = de.offset + Len(Header(de, Local))

\* They find the fields and the end of the local header.
LEMMA LocalFoundFor ==
    ASSUME NEW N \in Nat, Whole(N), NEW i \in 1..Len(ents), NEW d, d.offset = ents[i].offset
    PROVE  LocalFound(d, ents[i])
<1> DEFINE de == ents[i]
           at == de.offset
           h == HeaderStart(de, Local)
<1>1. /\ Stored(i, N) /\ Fine(de, Local) /\ at \in Nat
      /\ Len(Header(de, Local)) \in Nat
    BY LocalReadBack
<1>2. IsList(file) /\ Len(file) \in Nat
    BY DEF Whole, IsList
<1>3. Holds(file, at, Header(de, Local))
    BY <1>1 DEF Stored
<1> HIDE DEF de
<1>4. HeaderThere(at, de, Local)
    BY <1>1, <1>2, <1>3, HeaderFound
<1> HIDE DEF h
<1>5. /\ at < Len(file) /\ Cell(at) = h /\ h.eflen \in Nat /\ h.comlen \in Nat
      /\ Len(Header(de, Local)) = 2 + h.eflen + h.comlen
      /\ Cells(at + 2, h.eflen) = HeaderFields(de, Local)
    BY <1>4 DEF HeaderThere, h
<1>6. h.comlen = 0 /\ h.k = "local"
    BY DEF h, HeaderStart, HeaderComment, IsLocal, Local
<1>7. at + Len(Header(de, Local)) <= Len(file)
    BY <1>3 DEF Holds
<1>8. PICK efs : /\ EfParse(HeaderFields(de, Local), Local) = [ok |-> TRUE, efs |-> efs]
                 /\ FieldsRead(efs, de, Local)
    BY <1>1, HeaderParsed DEF Fine
<1>9. d.offset = at /\ Cell(d.offset) = h
    BY <1>5 DEF de
<1>10. LocalEf(d) = EfParse(HeaderFields(de, Local), Local)
  <2>1. Within(d.offset + 2, h.eflen, Len(file))
    BY <1>1, <1>2, <1>5, <1>6, <1>7, <1>9 DEF Within
  <2>2. Cells(d.offset + 2, h.eflen) = HeaderFields(de, Local)
    BY <1>5, <1>9
  <2>3. QED
    BY <1>6, <1>9, <2>1, <2>2 DEF LocalEf
<1>11. LocalEf(d).efs = efs
    BY <1>8, <1>10
<1>12. EfRemoveInternal(LocalEf(d).efs) = Marked(EfFor(de.efs, Local), Local)
    BY <1>8, <1>11 DEF FieldsRead
<1>13. FileGetOffset(d) = at + Len(Header(de, Local))
  <2>1. FileGetOffset(d) = at + 2 + h.eflen
    BY <1>9 DEF FileGetOffset
  <2>2. QED
    BY <1>1, <1>5, <1>6, <2>1
<1>14. QED
    BY <1>12, <1>13 DEF LocalFound, de

\* The data of an entry, from an offset on.
DataThere(i, at) ==
    \A j \in 0..ents[i].comp - 1 :
        IF ents[i].nested /\ j = ents[i].comp - 1 THEN Cell(at + j).k = "eocd"
        ELSE Cell(at + j).k = "data" /\ Cell(at + j).v = i

\* The data of an entry is where its local header ends.
LEMMA DataReadBack ==
    ASSUME NEW N \in Nat, Whole(N), NEW i \in 1..Len(ents), NEW at,
           at = ents[i].offset + Len(Header(ents[i], Local))
    PROVE  DataThere(i, at)
<1> DEFINE n == ents[i].comp
           D == DataOf(i, n)
<1>1. /\ Stored(i, N) /\ ents[i].offset \in Nat /\ n \in Nat
      /\ Len(Header(ents[i], Local)) \in Nat
    BY LocalReadBack
<1>2. at \in Nat /\ Len(file) \in Nat
    BY <1>1 DEF Whole, IsList
<1>3. Holds(file, at, D)
    BY <1>1 DEF Stored
<1>4. /\ Len(D) = n
      /\ \A j \in 1..n : D[j] = IF ents[i].nested /\ j = n THEN EmptyEnd
                                ELSE [k |-> "data", v |-> i]
    BY <1>1, DataIs
<1> HIDE DEF D
<1>5. at + n <= Len(file) /\ \A j \in 1..n : file[at + j] = D[j]
    BY <1>3, <1>4 DEF Holds
<1>6. ASSUME NEW j \in 0..n - 1
      PROVE  IF ents[i].nested /\ j = n - 1 THEN Cell(at + j).k = "eocd"
             ELSE Cell(at + j).k = "data" /\ Cell(at + j).v = i
  <2>1. j + 1 \in 1..n /\ (at + j) + 1 = at + (j + 1) /\ at + j < Len(file)
        /\ (j = n - 1 <=> j + 1 = n)
    <3> DEFINE L == Len(file)
    <3>1. n \in Nat /\ at \in Nat /\ L \in Nat /\ at + n <= L
      BY <1>1, <1>2, <1>5
    <3> HIDE DEF n, L
    <3>2. j + 1 \in 1..n /\ (at + j) + 1 = at + (j + 1) /\ at + j < L /\ (j = n - 1 <=> j + 1 = n)
      BY ONLY <3>1, j \in 0..n - 1
    <3>3. QED
      BY <3>2 DEF L
  <2>2. Cell(at + j) = D[j + 1]
    BY <1>5, <2>1 DEF Cell
  <2>3. D[j + 1] = IF ents[i].nested /\ j + 1 = n THEN EmptyEnd ELSE [k |-> "data", v |-> i]
    BY <1>4, <2>1
  <2>4. EmptyEnd.k = "eocd" /\ [k |-> "data", v |-> i].k = "data" /\ [k |-> "data", v |-> i].v = i
    BY DEF EmptyEnd
  <2>5. QED
    BY <2>1, <2>2, <2>3, <2>4
<1>7. QED
    BY <1>6 DEF DataThere

\* What RoundTrip says of an entry.
EntryKept(d, i) ==
    LET de == ents[i]
        at == FileGetOffset(d)
    IN  /\ <<d.comp, d.uncomp, d.offset>> = <<de.comp, de.uncomp, de.offset>>
        /\ \A t \in {<<d.name, de.name>>, <<d.comment, de.comment>>} :
              /\ t[1].v = t[2].v
              /\ t[2].enc = "utf8" => t[1].enc = "utf8"
        /\ \A k \in {"local", "central"} : Seen(d.efs, k) = Seen(de.efs, k)
        /\ \A j \in 0..de.comp - 1 :
              LET c == Cell(at + j) IN
              IF de.nested /\ j = de.comp - 1 THEN c.k = "eocd"
              ELSE c.k = "data" /\ c.v = i

WithLocal(c) == [c EXCEPT !.efs = EfMerge(@, EfRemoveInternal(LocalEf(c).efs))]

\* An entry that is read, with its local fields, is the one that was
\* written.
LEMMA EntryRoundTrip ==
    ASSUME NEW N \in Nat, Whole(N), NEW i \in 1..Len(ents), NEW c,
           ReadBack(c, ents[i], Central)
    PROVE  EntryKept(WithLocal(c), i)
<1> DEFINE de == ents[i]
           S == Fields({"x", "y"}, Units)
           a == Marked(EfFor(de.efs, Central), Central)
           b == Marked(EfFor(de.efs, Local), Local)
           d == WithLocal(c)
<1>1. /\ {"uncomp", "comp", "offset", "name", "comment", "efs"} \subseteq DOMAIN c
      /\ c.uncomp = de.uncomp /\ c.comp = de.comp /\ c.offset = de.offset
      /\ TextRead(de.name, c.name) /\ TextRead(de.comment, c.comment) /\ c.efs = a
    BY DEF ReadBack, IsLocal, Central
<1>2. LocalFound(c, de)
    BY <1>1, LocalFoundFor
<1>3. EfRemoveInternal(LocalEf(c).efs) = b
      /\ FileGetOffset(c) = de.offset + Len(Header(de, Local))
    BY <1>2 DEF LocalFound
<1>4. de.efs \in Seq(S)
  <2>1. i \in DOMAIN ents
    BY DEF Whole, FormatInv, RecordsKept
  <2>2. QED
    BY <2>1, KnownRecord DEF Whole
<1> HIDE DEF de, S, a, b
<1>5. d = [c EXCEPT !.efs = EfMerge(a, b)]
    BY <1>1, <1>3 DEF WithLocal
<1> HIDE DEF d
<1>6. /\ d.uncomp = de.uncomp /\ d.comp = de.comp /\ d.offset = de.offset
      /\ d.name = c.name /\ d.comment = c.comment /\ d.efs = EfMerge(a, b)
    BY <1>1, <1>5
<1>7. ASSUME NEW k \in {"local", "central"} PROVE Seen(d.efs, k) = Seen(de.efs, k)
  <2>1. /\ a \in Seq(S) /\ Contents(a, k) = IF k = "central" THEN Seen(de.efs, "central") ELSE {}
    BY <1>4, MarkedSeen DEF Kinds, Central, a, S
  <2>2. /\ b \in Seq(S) /\ Contents(b, k) = IF k = "local" THEN Seen(de.efs, "local") ELSE {}
    BY <1>4, MarkedSeen DEF Kinds, Local, b, S
  <2>3. EfMerge(a, b) \in Seq(S) /\ Contents(EfMerge(a, b), k) = Contents(a, k) \cup Contents(b, k)
    BY <2>1, <2>2, MergedContents DEF S
  <2>4. Seen(d.efs, k) = Contents(EfMerge(a, b), k)
    BY <1>6, <2>3, SeenIs
  <2>5. CASE k = "local"
    <3>1. Contents(a, k) = {} /\ Contents(b, k) = Seen(de.efs, k)
      BY <2>1, <2>2, <2>5
    <3>2. QED
      BY <2>3, <2>4, <3>1
  <2>6. CASE k = "central"
    <3>1. Contents(b, k) = {} /\ Contents(a, k) = Seen(de.efs, k)
      BY <2>1, <2>2, <2>6
    <3>2. QED
      BY <2>3, <2>4, <3>1
  <2>7. QED
    BY <2>5, <2>6
<1>8. FileGetOffset(d) = de.offset + Len(Header(de, Local))
    BY <1>1, <1>3, <1>6 DEF FileGetOffset
<1>9. DataThere(i, FileGetOffset(d))
  <2>1. FileGetOffset(d) = ents[i].offset + Len(Header(ents[i], Local))
    BY <1>8 DEF de
  <2>2. QED
    BY <2>1, DataReadBack
<1>10. \A t \in {<<d.name, de.name>>, <<d.comment, de.comment>>} :
          /\ t[1].v = t[2].v
          /\ t[2].enc = "utf8" => t[1].enc = "utf8"
    BY <1>1, <1>6 DEF TextRead
<1>11. <<d.comp, d.uncomp, d.offset>> = <<de.comp, de.uncomp, de.offset>>
    BY <1>6
<1>12. EntryKept(d, i)
    BY <1>7, <1>9, <1>10, <1>11 DEF EntryKept, DataThere, de
<1>13. QED
    BY <1>12 DEF d

\* What zip_open makes of a directory.
Merged(es) == [i \in DOMAIN es |-> WithLocal(es[i])]
AllKept(es) == Len(es) = Len(ents) /\ \A i \in DOMAIN ents : EntryKept(es[i], i)

\* zip_open finds all entries of a whole file.
LEMMA OpenKeeps ==
    ASSUME NEW N \in Nat, Whole(N), NEW check \in BOOLEAN
    PROVE  FindCentralDir(check).best # 0 /\ AllKept(Merged(FindCentralDir(check).cd.es))
<1> DEFINE r == FindCentralDir(check)
           es == r.cd.es
<1>1. r.best # 0 /\ Directory(r.cd, N)
    BY DirectoryFound
<1> HIDE DEF r
<1>2. /\ IsList(es) /\ Len(es) = Len(ents)
      /\ \A i \in 1..Len(ents) : ReadBack(es[i], ents[i], Central)
    BY <1>1 DEF Directory
<1>3. Len(ents) \in Nat /\ DOMAIN ents = 1..Len(ents)
    BY DEF Whole, FormatInv, RecordsKept
<1> HIDE DEF es
<1>4. DOMAIN es = 1..Len(ents)
    BY <1>2, ListSeq
<1> DEFINE m == Merged(es)
<1>5. /\ m = [i \in 1..Len(ents) |-> WithLocal(es[i])]
    BY <1>4 DEF Merged
<1> HIDE DEF m
<1>6. Len(m) = Len(ents)
  <2> DEFINE n == Len(ents)
  <2>1. m = [i \in 1..n |-> WithLocal(es[i])] /\ n \in Nat
    BY <1>3, <1>5
  <2> HIDE DEF n
  <2>2. m \in Seq({WithLocal(es[i]) : i \in 1..n}) /\ DOMAIN m = 1..n
    BY <2>1
  <2>3. Len(m) = n
    BY <2>1, <2>2
  <2>4. QED
    BY <2>3 DEF n
<1>7. ASSUME NEW i \in DOMAIN ents PROVE EntryKept(m[i], i)
  <2>1. i \in 1..Len(ents) /\ m[i] = WithLocal(es[i]) /\ ReadBack(es[i], ents[i], Central)
    BY <1>2, <1>3, <1>5
  <2>2. EntryKept(WithLocal(es[i]), i)
    BY <2>1, EntryRoundTrip
  <2>3. QED
    BY <2>1, <2>2
<1>8. AllKept(m)
    BY <1>6, <1>7 DEF AllKept
<1>9. QED
    BY <1>1, <1>8 DEF m, es, r

OpenInv == RoundTrip /\ NotRefused

\* The one step that the two properties are about.
LEMMA OpenStep ==
    ASSUME FormatInv, FieldsInv, TornInv, LayoutInv, NEW check \in BOOLEAN, Open(check)
    PROVE  OpenInv'
<1>1. /\ phase = "written" /\ ents' = ents /\ file' = file /\ torn' = torn /\ comment' = comment
      /\ IF FindCentralDir(check).best = 0 THEN phase' = "rejected" /\ found' = <<>>
         ELSE phase' = "opened" /\ found' = Merged(FindCentralDir(check).cd.es)
    BY DEF Open, Merged, WithLocal
<1>2. Regular' <=> Regular
    BY <1>1 DEF Regular, CdirTooLarge
<1>3. CASE torn \/ ~Regular
    BY <1>1, <1>2, <1>3 DEF OpenInv, RoundTrip, NotRefused
<1>4. CASE ~torn /\ Regular
  <2>1. cur > Len(ents) /\ \E n \in 0..Len(file) : DirectoryAt(n)
    BY <1>1, <1>4 DEF LayoutInv, WrittenAll
  <2>2. PICK N \in 0..Len(file) : DirectoryAt(N)
    BY <2>1
  <2>3. Whole(N) /\ N \in Nat
    BY <1>4, <2>1, <2>2 DEF Whole, TornInv, FileKept, LayoutInv, IsList
  <2>4. FindCentralDir(check).best # 0 /\ AllKept(Merged(FindCentralDir(check).cd.es))
    BY <2>3, OpenKeeps
  <2>5. PICK F : F = found'
    OBVIOUS
  <2>6. phase' = "opened" /\ AllKept(F)
    BY <1>1, <2>4, <2>5
  <2>7. RoundTrip'
    BY <1>1, <2>5, <2>6 DEF RoundTrip, AllKept, EntryKept, FileGetOffset, Cell
  <2>8. NotRefused'
    BY <2>6 DEF NotRefused
  <2>9. QED
    BY <2>7, <2>8 DEF OpenInv
<1>5. QED
    BY <1>3, <1>4

\* No other step gets to a file that is opened or refused.
LEMMA NextOpen ==
    ASSUME FormatInv, FieldsInv, TornInv, LayoutInv, OpenInv, [Next]_vars
    PROVE  OpenInv'
<1>1. ASSUME phase' \notin {"opened", "rejected"} PROVE OpenInv'
    BY <1>1 DEF OpenInv, RoundTrip, NotRefused
<1>2. ASSUME NEW check \in BOOLEAN, Open(check) PROVE OpenInv'
    BY <1>2, OpenStep
<1>3. CASE UNCHANGED vars
  <2>1. phase' = phase /\ ents' = ents /\ file' = file /\ torn' = torn /\ found' = found
    BY <1>3 DEF vars
  <2>2. Regular' <=> Regular
    BY <2>1 DEF Regular, CdirTooLarge
  <2>3. NotRefused'
    BY <2>1, <2>2 DEF OpenInv, NotRefused
  <2>4. RoundTrip'
    BY <2>1, <2>2 DEF OpenInv, RoundTrip, FileGetOffset, Cell
  <2>5. QED
    BY <2>3, <2>4 DEF OpenInv
<1>4. ASSUME NEW id, NEW which, NEW vals, NEW f, ExtraFieldSet(id, which, vals, f)
      PROVE  OpenInv'
    BY <1>1, <1>4 DEF ExtraFieldSet
<1>5. ASSUME NEW ids, NEW which, NEW f, ExtraFieldDelete(ids, which, f) PROVE OpenInv'
    BY <1>1, <1>5 DEF ExtraFieldDelete
<1>6. CASE StartClose \/ WriteHead \/ CopySource \/ WriteFinal \/ CopyEntry \/ WriteCdir
  <2>1. phase' \in {"head", "data", "final", "failed", "written"}
    BY <1>6 DEF StartClose, WriteHead, CopySource, WriteFinal, CopyEntry, WriteCdir
  <2>2. QED
    BY <1>1, <2>1
<1>7. ASSUME NEW n, Tear(n) PROVE OpenInv'
    BY <1>1, <1>7 DEF Tear
<1>8. QED
    BY <1>2, <1>3, <1>4, <1>5, <1>6, <1>7 DEF Next

\* What zip_open takes and what it finds, together: only its own step gets to
\* a state of which either property says anything, and from there on nothing
\* changes.
THEOREM OpenInvariance == Spec => []OpenInv
<1>1. Init => OpenInv
    BY DEF Init, OpenInv, RoundTrip, NotRefused
<1>2. FormatInv /\ FieldsInv /\ TornInv /\ LayoutInv /\ OpenInv /\ [Next]_vars => OpenInv'
    BY NextOpen
<1>3. QED
    BY <1>1, <1>2, FormatInvariance, FieldsInvariance, TornInvariance, LayoutInvariance, PTL
       DEF Spec

\* What zip_close wrote is what zip_open finds: as many entries, with their
\* sizes, names, comments and extra fields of either kind, and their data
\* where _zip_file_get_offset says, whatever their number and sizes are,
\* with and without ZIP64 and the consistency check, and even if data or the
\* archive comment look like the end of an archive.
THEOREM RoundTrips == Spec => []RoundTrip
<1>1. OpenInv => RoundTrip
    BY DEF OpenInv
<1>2. QED
    BY <1>1, OpenInvariance, PTL

\* zip_open takes every file that zip_close has finished and that is whole,
\* with and without ZIP_CHECKCONS, unless one of the limits named in Irregular
\* and CdirTooLarge is hit.
THEOREM NeverRefused == Spec => []NotRefused
<1>1. OpenInv => NotRefused
    BY DEF OpenInv
<1>2. QED
    BY <1>1, OpenInvariance, PTL
=============================================================================
