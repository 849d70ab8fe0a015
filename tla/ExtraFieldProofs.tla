------------------------- MODULE ExtraFieldProofs -------------------------
(***************************************************************************)
(* What the lists of extra fields and their cells are, for lists of any    *)
(* length.  The definitions walk along a list, so the proofs are by        *)
(* induction: on the positions of a list, and from that on the list.       *)
(***************************************************************************)
EXTENDS ZipFormat, SequenceTheorems, FiniteSetTheorems, WellFoundedInduction, TLAPS

-----------------------------------------------------------------------------
(* Induction, with the set of what satisfies the statement.                *)

\* A set of numbers has a least one: intervals 1..n are finite sets, and
\* strict inclusion of finite sets is well founded.
LEMMA Least ==
    ASSUME NEW T, T \subseteq Nat, T # {}
    PROVE  \E x \in T : \A y \in T : x <= y
<1> DEFINE R == StrictSubsetOrdering(Nat)
           F == FiniteSubsetsOf(Nat)
           U == {1..n : n \in T}
<1>1. U # {}
    OBVIOUS
<1>2. U \subseteq F
  <2>1. ASSUME NEW n \in T PROVE 1..n \subseteq Nat /\ IsFiniteSet(1..n)
    BY FS_Interval
  <2>2. QED
    BY <2>1 DEF FiniteSubsetsOf
<1>3. IsWellFoundedOn(R, F)
    BY FS_StrictSubsetOrderingWellFounded
<1>4. PICK u \in U : \A v \in U : ~(<<v, u>> \in R)
  <2> HIDE DEF R, F, U
  <2>1. QED
    BY <1>1, <1>2, <1>3, WFMin, Zenon
<1>5. PICK x \in T : u = 1..x
    OBVIOUS
<1>6. ASSUME NEW y \in T, ~(x <= y) PROVE FALSE
  <2>1. x \in 1..x /\ x \notin 1..y
    BY <1>6
  <2>2. 1..y \subseteq 1..x /\ 1..y # 1..x
    BY <1>6, <2>1
  <2>3. 1..y \in SUBSET Nat /\ 1..x \in SUBSET Nat
    BY <1>5, <1>6
  <2>4. <<1..y, u>> \in R
    BY <2>3, <1>5, <2>2 DEF StrictSubsetOrdering
  <2>5. QED
    BY <1>4, <2>4
<1>7. QED
    BY <1>6

\* Induction up to n.
LEMMA UpTo ==
    ASSUME NEW n \in Nat, NEW T, 0 \in T, \A k \in 0..n - 1 : k \in T => k + 1 \in T
    PROVE  \A k \in 0..n : k \in T
<1> DEFINE M == {k \in 0..n : k \notin T}
<1>1. ASSUME M # {} PROVE FALSE
  <2>1. M \subseteq Nat
    OBVIOUS
  <2>2. PICK x \in M : \A y \in M : x <= y
    BY <1>1, <2>1, Least
  <2>3. x # 0 /\ x - 1 \in 0..n - 1 /\ x - 1 \notin M
    BY <2>2
  <2>4. QED
    BY <2>3
<1>2. QED
    BY <1>1

\* Induction on lists, one element at the end at a time.
LEMMA ListInduction ==
    ASSUME NEW S, NEW T, <<>> \in T, \A s \in Seq(S), x \in S : s \in T => Append(s, x) \in T
    PROVE  Seq(S) \subseteq T
<1> SUFFICES ASSUME NEW s \in Seq(S) PROVE s \in T
    OBVIOUS
<1> DEFINE K == {k \in Nat : \A t \in Seq(S) : Len(t) = k => t \in T}
<1>1. 0 \in K
    OBVIOUS
<1>2. ASSUME NEW k \in Nat, k \in K PROVE k + 1 \in K
  <2>1. SUFFICES ASSUME NEW t \in Seq(S), Len(t) = k + 1 PROVE t \in T
    OBVIOUS
  <2>2. t # <<>>
    BY <2>1
  <2>3. PICK u \in Seq(S), x \in S : t = Append(u, x)
    BY <2>2, SequenceEmptyOrAppend
  <2>4. Len(u) = k
    BY <2>1, <2>3, AppendProperties
  <2>5. QED
    BY <1>2, <2>3, <2>4
<1>3. Len(s) \in Nat
    OBVIOUS
<1> HIDE DEF K
<1>4. \A k \in 0..Len(s) - 1 : k \in K => k + 1 \in K
    BY <1>2, <1>3
<1>5. Len(s) \in K
  <2>1. \A k \in 0..Len(s) : k \in K
    BY ONLY <1>1, <1>3, <1>4, UpTo
  <2>2. QED
    BY <1>3, <2>1
<1>6. QED
    BY <1>5 DEF K

\* What a loop over 1..n computes, step by step, exists.
LoopOf(f, n, S, a, g) ==
    /\ f \in [0..n -> S] /\ f[0] = a
    /\ \A k \in 1..n : f[k] = g[<<k, f[k - 1]>>]

\* Any step function has such a loop.
LEMMA LoopExists ==
    ASSUME NEW n \in Nat, NEW S, NEW a \in S, NEW g \in [(1..n) \X S -> S]
    PROVE  \E f : LoopOf(f, n, S, a, g)
<1> DEFINE Run(f, m) == f \in [0..m -> S] /\ f[0] = a
                            /\ \A k \in 1..m : f[k] = g[<<k, f[k - 1]>>]
           T == {m \in 0..n : \E f : Run(f, m)}
<1>1. 0 \in T
  <2>1. Run([i \in 0..0 |-> a], 0)
    OBVIOUS
  <2> HIDE DEF Run
  <2>2. QED
    BY <2>1
<1>2. ASSUME NEW m \in 0..n - 1, m \in T PROVE m + 1 \in T
  <2>1. PICK f : Run(f, m)
    BY <1>2
  <2> DEFINE h == [i \in 0..m + 1 |-> IF i = m + 1 THEN g[<<m + 1, f[m]>>] ELSE f[i]]
  <2>2. m + 1 \in 1..n /\ f[m] \in S
    BY <2>1
  <2>3. g[<<m + 1, f[m]>>] \in S
    BY <2>2
  <2>4. h \in [0..m + 1 -> S]
    BY <2>1, <2>3
  <2>5. h[0] = a
    BY <2>1
  <2>6. ASSUME NEW k \in 1..m + 1 PROVE h[k] = g[<<k, h[k - 1]>>]
    <3>1. k - 1 \in 0..m + 1 /\ h[k - 1] = f[k - 1]
      BY <2>1
    <3>2. CASE k = m + 1
      <4>1. h[k - 1] = f[m]
        BY <3>1, <3>2
      <4>2. h[k] = g[<<k, f[m]>>]
        BY <3>2
      <4>3. QED
        BY <4>1, <4>2
    <3>3. CASE k \in 1..m
      BY <3>1, <3>3, <2>1
    <3>4. QED
      BY <3>2, <3>3
  <2>7. Run(h, m + 1)
    BY <2>4, <2>5, <2>6
  <2>8. m + 1 \in 0..n
    OBVIOUS
  <2>9. QED
    BY <2>7, <2>8
<1> HIDE DEF T
<1>3. n \in T
    BY <1>1, <1>2, UpTo
<1>4. PICK f : Run(f, n)
    BY <1>3 DEF T
<1>5. LoopOf(f, n, S, a, g)
    BY <1>4 DEF LoopOf
<1>6. QED
    BY <1>5

-----------------------------------------------------------------------------
(* Picked, one element at a time.                                          *)

PickLoop(f, S, s, P) ==
    /\ f \in [0..Len(s) -> Seq(S)] /\ f[0] = <<>> /\ Picked(s, P) = f[Len(s)]
    /\ \A k \in 1..Len(s) : f[k] = IF k \in P THEN Append(f[k - 1], s[k]) ELSE f[k - 1]

\* The loop of Picked computes lists.
LEMMA PickedLoop ==
    ASSUME NEW S, NEW s \in Seq(S), NEW P
    PROVE  \E f : PickLoop(f, S, s, P)
<1> DEFINE n == Len(s)
           g == [x \in (1..n) \X Seq(S) |-> IF x[1] \in P THEN Append(x[2], s[x[1]]) ELSE x[2]]
           Loop(f) == f = [k \in 0..n |->
                            IF k = 0 THEN <<>>
                            ELSE IF k \in P THEN Append(f[k - 1], s[k]) ELSE f[k - 1]]
<1>1. n \in Nat /\ g \in [(1..n) \X Seq(S) -> Seq(S)] /\ <<>> \in Seq(S)
    OBVIOUS
<1>2. PICK e : e \in [0..n -> Seq(S)]
                   /\ e[0] = <<>> /\ \A k \in 1..n : e[k] = g[<<k, e[k - 1]>>]
  <2> HIDE DEF g, n
  <2>1. \E e : LoopOf(e, n, Seq(S), <<>>, g)
    BY ONLY <1>1, LoopExists, Zenon
  <2>2. QED
    BY <2>1 DEF LoopOf
<1>3. ASSUME NEW k \in 1..n, NEW t \in Seq(S)
      PROVE  g[<<k, t>>] = IF k \in P THEN Append(t, s[k]) ELSE t
    OBVIOUS
<1>4. ASSUME NEW k \in 1..n
      PROVE  e[k] = IF k \in P THEN Append(e[k - 1], s[k]) ELSE e[k - 1]
  <2>1. e[k - 1] \in Seq(S)
    BY <1>1, <1>2
  <2> HIDE DEF g
  <2>2. QED
    BY <1>2, <1>3, <2>1
<1> HIDE DEF g
<1>5. Loop(e)
  <2>1. \A k \in 0..n : k # 0 => k \in 1..n
    BY <1>1
  <2> HIDE DEF n
  <2>2. QED
    BY <1>2, <1>4, <2>1
<1> DEFINE f == CHOOSE f : Loop(f)
<1>6. Picked(s, P) = f[n]
    BY DEF Picked
<1>7. Loop(f)
    BY <1>5
<1> HIDE DEF f
<1>8. DOMAIN f = 0..n /\ f[0] = <<>>
      /\ \A k \in 1..n : f[k] = IF k \in P THEN Append(f[k - 1], s[k]) ELSE f[k - 1]
  <2>1. 0 \in 0..n /\ \A k \in 1..n : k \in 0..n /\ k # 0
    BY <1>1
  <2> HIDE DEF n
  <2>2. QED
    BY <1>7, <2>1
<1> DEFINE T == {k \in 0..n : f[k] \in Seq(S)}
<1>9. 0 \in T /\ \A k \in 0..n - 1 : k \in T => k + 1 \in T
  <2>1. 0 \in T
    <3>1. f[0] \in Seq(S)
      BY <1>1, <1>8, Zenon
    <3>2. QED
      BY <1>1, <3>1
  <2>2. ASSUME NEW k \in 0..n - 1, k \in T PROVE k + 1 \in T
    <3>1. k + 1 \in 1..n /\ f[k] \in Seq(S) /\ s[k + 1] \in S
      BY <1>1, <2>2
    <3>2. f[k + 1] = IF k + 1 \in P THEN Append(f[k], s[k + 1]) ELSE f[k]
      BY <1>8, <3>1
    <3>3. Append(f[k], s[k + 1]) \in Seq(S)
      BY <3>1, AppendProperties
    <3>4. f[k + 1] \in Seq(S)
      BY <3>1, <3>2, <3>3, Zenon
    <3>5. QED
      BY <3>1, <3>4
  <2>3. QED
    BY <2>1, <2>2
<1>10. \A k \in 0..n : f[k] \in Seq(S)
  <2> HIDE DEF T
  <2>1. \A k \in 0..n : k \in T
    BY ONLY <1>1, <1>9, UpTo
  <2>2. QED
    BY <2>1 DEF T
<1>11. f \in [0..n -> Seq(S)]
  <2>1. f = [k \in 0..n |-> f[k]]
    BY <1>7
  <2> HIDE DEF n
  <2>2. QED
    BY <1>10, <2>1, Zenon
<1>12. PickLoop(f, S, s, P)
    BY <1>6, <1>8, <1>11 DEF PickLoop
<1>13. QED
    BY <1>12

LEMMA PickedNil == ASSUME NEW P PROVE Picked(<<>>, P) = <<>>
<1>1. <<>> \in Seq({})
    OBVIOUS
<1>2. PICK f : PickLoop(f, {}, <<>>, P)
    BY <1>1, PickedLoop
<1>3. QED
    BY <1>2 DEF PickLoop

\* One more element is picked or is not, and the ones before are not
\* affected.
LEMMA PickedAppend ==
    ASSUME NEW S, NEW s \in Seq(S), NEW x \in S, NEW P, NEW Q,
           \A i \in 1..Len(s) : i \in P <=> i \in Q
    PROVE  Picked(Append(s, x), P) =
              IF Len(s) + 1 \in P THEN Append(Picked(s, Q), x) ELSE Picked(s, Q)
<1> DEFINE n == Len(s)
           t == Append(s, x)
<1>1. /\ n \in Nat /\ t \in Seq(S) /\ Len(t) = n + 1 /\ s \in Seq(S)
      /\ t[n + 1] = x /\ \A i \in 1..n : t[i] = s[i]
    OBVIOUS
<1> HIDE DEF t
<1>2. PICK f : /\ f \in [0..Len(t) -> Seq(S)] /\ f[0] = <<>> /\ Picked(t, P) = f[Len(t)]
               /\ \A k \in 1..Len(t) :
                     f[k] = IF k \in P THEN Append(f[k - 1], t[k]) ELSE f[k - 1]
  <2>1. PICK f : PickLoop(f, S, t, P)
    BY <1>1, PickedLoop
  <2>2. QED
    BY <2>1 DEF PickLoop
<1>3. PICK g : /\ g \in [0..Len(s) -> Seq(S)] /\ g[0] = <<>> /\ Picked(s, Q) = g[Len(s)]
               /\ \A k \in 1..Len(s) :
                     g[k] = IF k \in Q THEN Append(g[k - 1], s[k]) ELSE g[k - 1]
  <2>1. PICK g : PickLoop(g, S, s, Q)
    BY <1>1, PickedLoop
  <2>2. QED
    BY <2>1 DEF PickLoop
<1> DEFINE T == {k \in 0..n : f[k] = g[k]}
<1>4. 0 \in T /\ \A k \in 0..n - 1 : k \in T => k + 1 \in T
  <2>1. 0 \in T
    BY <1>1, <1>2, <1>3
  <2>2. ASSUME NEW k \in 0..n - 1, k \in T PROVE k + 1 \in T
    <3>1. k + 1 \in 1..n /\ f[k] = g[k] /\ t[k + 1] = s[k + 1] /\ (k + 1 \in P <=> k + 1 \in Q)
      BY <1>1, <2>2
    <3>2. f[k + 1] = IF k + 1 \in P THEN Append(f[k], t[k + 1]) ELSE f[k]
      BY <1>1, <1>2, <3>1
    <3>3. g[k + 1] = IF k + 1 \in Q THEN Append(g[k], s[k + 1]) ELSE g[k]
      BY <1>3, <3>1
    <3>4. QED
      BY <1>1, <3>1, <3>2, <3>3
  <2>3. QED
    BY <2>1, <2>2
<1>5. f[n] = g[n]
  <2> HIDE DEF T
  <2>1. \A k \in 0..n : k \in T
    BY ONLY <1>1, <1>4, UpTo
  <2>2. QED
    BY <1>1, <2>1 DEF T
<1>6. f[n + 1] = IF n + 1 \in P THEN Append(f[n], x) ELSE f[n]
    BY <1>1, <1>2
<1>7. QED
    BY <1>1, <1>2, <1>3, <1>5, <1>6 DEF t

LEMMA PickedType ==
    ASSUME NEW S, NEW s \in Seq(S), NEW P
    PROVE  Picked(s, P) \in Seq(S)
<1>1. PICK f : PickLoop(f, S, s, P)
    BY PickedLoop
<1>2. QED
    BY <1>1 DEF PickLoop

-----------------------------------------------------------------------------
(* FlattenSeq, one list at a time.                                         *)

FlatLoop(f, S, ss) ==
    /\ f \in [1..Len(ss) -> Seq(S)] /\ f[1] = ss[1] /\ FlattenSeq(ss) = f[Len(ss)]
    /\ \A k \in 2..Len(ss) : f[k] = f[k - 1] \o ss[k]

\* FlattenSeq is such a loop over the lists.
LEMMA FlattenLoop ==
    ASSUME NEW S, NEW ss \in Seq(Seq(S)), ss # <<>>
    PROVE  \E f : FlatLoop(f, S, ss)
<1> DEFINE n == Len(ss)
           g == [x \in (1..n) \X Seq(S) |-> x[2] \o ss[x[1]]]
           Loop(f) == f = [i \in 1..n |-> IF i = 1 THEN ss[i] ELSE f[i - 1] \o ss[i]]
<1>1. n \in Nat /\ n # 0 /\ g \in [(1..n) \X Seq(S) -> Seq(S)] /\ <<>> \in Seq(S)
    OBVIOUS
<1>2. PICK e : e \in [0..n -> Seq(S)]
                   /\ e[0] = <<>> /\ \A k \in 1..n : e[k] = g[<<k, e[k - 1]>>]
  <2> HIDE DEF g, n
  <2>1. \E e : LoopOf(e, n, Seq(S), <<>>, g)
    BY ONLY <1>1, LoopExists, Zenon
  <2>2. QED
    BY <2>1 DEF LoopOf
<1>3. ASSUME NEW k \in 1..n, NEW t \in Seq(S)
      PROVE  g[<<k, t>>] = t \o ss[k]
    OBVIOUS
<1>4. ASSUME NEW k \in 1..n PROVE e[k] = e[k - 1] \o ss[k] /\ e[k - 1] \in Seq(S)
  <2>1. e[k - 1] \in Seq(S)
    <3>1. k - 1 \in 0..n
      BY <1>1
    <3>2. QED
      BY ONLY <1>2, <3>1
  <2> HIDE DEF g
  <2>2. QED
    BY <1>2, <1>3, <2>1
<1> HIDE DEF g
<1> DEFINE d == [i \in 1..n |-> e[i]]
<1>5. Loop(d)
  <2>1. e[1] = ss[1]
    <3>1. 1 \in 1..n /\ 1 - 1 = 0 /\ ss[1] \in Seq(S)
      BY <1>1
    <3>2. e[1] = <<>> \o ss[1]
      BY <1>2, <1>4, <3>1
    <3>3. QED
      BY <3>1, <3>2, ConcatEmptySeq
  <2>2. ASSUME NEW i \in 1..n, i # 1 PROVE d[i] = d[i - 1] \o ss[i]
    <3>1. i - 1 \in 1..n
      BY <1>1, <2>2
    <3>2. d[i] = e[i] /\ d[i - 1] = e[i - 1]
      BY <3>1
    <3>3. QED
      BY <1>4, <3>2
  <2>3. \A i \in 1..n : d[i] = IF i = 1 THEN ss[i] ELSE d[i - 1] \o ss[i]
    BY <1>1, <2>1, <2>2
  <2>4. QED
    BY <2>3
<1> DEFINE f == CHOOSE f : Loop(f)
<1>6. FlattenSeq(ss) = f[n]
    BY <1>1 DEF FlattenSeq
<1>7. Loop(f)
    BY <1>5
<1> HIDE DEF f, d
<1>8. DOMAIN f = 1..n /\ f[1] = ss[1] /\ \A k \in 2..n : f[k] = f[k - 1] \o ss[k]
  <2>1. 1 \in 1..n /\ \A k \in 2..n : k \in 1..n /\ k # 1
    BY <1>1
  <2> HIDE DEF n
  <2>2. QED
    BY <1>7, <2>1
<1> DEFINE T == {k \in 0..n : k > 0 => f[k] \in Seq(S)}
<1>9. 0 \in T /\ \A k \in 0..n - 1 : k \in T => k + 1 \in T
  <2>1. 0 \in T
    BY <1>1
  <2>2. ASSUME NEW k \in 0..n - 1, k \in T PROVE k + 1 \in T
    <3>1. k + 1 \in 1..n /\ ss[k + 1] \in Seq(S)
      BY <1>1, <2>2
    <3>2. CASE k = 0
      BY <1>8, <3>1, <3>2
    <3>3. CASE k > 0
      <4>1. k + 1 \in 2..n /\ (k + 1) - 1 = k
        BY <1>1, <3>3
      <4>2. f[k + 1] = f[k] \o ss[k + 1]
        BY <1>8, <4>1
      <4>3. f[k] \in Seq(S)
        BY <2>2, <3>3
      <4>4. f[k + 1] \in Seq(S)
        BY <3>1, <4>2, <4>3, ConcatProperties
      <4>5. QED
        BY <4>1, <4>4
    <3>4. QED
      BY <3>2, <3>3
  <2>3. QED
    BY <2>1, <2>2
<1>10. \A k \in 1..n : f[k] \in Seq(S)
  <2> HIDE DEF T
  <2>1. \A k \in 0..n : k \in T
    BY ONLY <1>1, <1>9, UpTo
  <2>2. QED
    BY <2>1 DEF T
<1>11. f \in [1..n -> Seq(S)]
  <2>1. f = [k \in 1..n |-> f[k]]
    BY <1>7
  <2> HIDE DEF n
  <2>2. QED
    BY <1>10, <2>1, Zenon
<1>12. FlatLoop(f, S, ss)
    BY <1>6, <1>8, <1>11 DEF FlatLoop
<1>13. QED
    BY <1>12

LEMMA FlattenNil == FlattenSeq(<<>>) = <<>>
    BY DEF FlattenSeq

LEMMA FlattenType ==
    ASSUME NEW S, NEW ss \in Seq(Seq(S))
    PROVE  FlattenSeq(ss) \in Seq(S)
<1>1. CASE ss = <<>>
  <2>1. <<>> \in Seq(S)
    OBVIOUS
  <2>2. QED
    BY <1>1, <2>1, FlattenNil, Zenon
<1>2. CASE ss # <<>>
  <2>1. PICK f : f \in [1..Len(ss) -> Seq(S)] /\ FlattenSeq(ss) = f[Len(ss)]
    BY <1>2, FlattenLoop DEF FlatLoop
  <2>2. Len(ss) \in 1..Len(ss)
    BY <1>2
  <2>3. QED
    BY <2>1, <2>2
<1>3. QED
    BY <1>1, <1>2

\* One more list comes behind the others.
LEMMA FlattenAppend ==
    ASSUME NEW S, NEW ss \in Seq(Seq(S)), NEW c \in Seq(S)
    PROVE  FlattenSeq(Append(ss, c)) = FlattenSeq(ss) \o c
<1> DEFINE n == Len(ss)
           t == Append(ss, c)
<1>1. /\ n \in Nat /\ t \in Seq(Seq(S)) /\ t # <<>> /\ Len(t) = n + 1
      /\ t[n + 1] = c /\ \A i \in 1..n : t[i] = ss[i]
    BY AppendProperties
<1> HIDE DEF t
<1>2. PICK f : /\ f \in [1..Len(t) -> Seq(S)] /\ f[1] = t[1] /\ FlattenSeq(t) = f[Len(t)]
               /\ \A k \in 2..Len(t) : f[k] = f[k - 1] \o t[k]
  <2>1. PICK f : FlatLoop(f, S, t)
    BY <1>1, FlattenLoop
  <2>2. QED
    BY <2>1 DEF FlatLoop
<1>3. CASE ss = <<>>
  <2>1. n = 0
    BY <1>3
  <2>2. FlattenSeq(t) = c
    BY <1>1, <1>2, <2>1
  <2>3. QED
    BY <1>3, <2>2, FlattenNil DEF t
<1>4. CASE ss # <<>>
  <2>1. PICK g : /\ g \in [1..Len(ss) -> Seq(S)] /\ g[1] = ss[1] /\ FlattenSeq(ss) = g[Len(ss)]
                 /\ \A k \in 2..Len(ss) : g[k] = g[k - 1] \o ss[k]
    BY <1>4, FlattenLoop DEF FlatLoop
  <2>2. n > 0
    BY <1>4
  <2> DEFINE T == {k \in 0..n : k > 0 => f[k] = g[k]}
  <2>3. 0 \in T /\ \A k \in 0..n - 1 : k \in T => k + 1 \in T
    <3>1. 0 \in T
      BY <1>1
    <3>2. ASSUME NEW k \in 0..n - 1, k \in T PROVE k + 1 \in T
      <4>1. CASE k = 0
        BY <1>1, <1>2, <2>1, <2>2, <4>1
      <4>2. CASE k > 0
        <5>1. k + 1 \in 2..n /\ k + 1 \in 2..Len(t) /\ (k + 1) - 1 = k
          BY <1>1, <4>2
        <5>2. t[k + 1] = ss[k + 1] /\ f[k] = g[k]
          <6>1. k + 1 \in 1..n
            BY <1>1, <3>2
          <6>2. t[k + 1] = ss[k + 1]
            BY ONLY <1>1, <6>1
          <6>3. k > 0 => f[k] = g[k]
            BY <3>2
          <6>4. QED
            BY <4>2, <6>2, <6>3
        <5>3. f[k + 1] = f[k] \o t[k + 1]
          BY <1>2, <5>1
        <5>4. g[k + 1] = g[k] \o ss[k + 1]
          BY <2>1, <5>1
        <5>5. f[k + 1] = g[k + 1]
          BY <5>2, <5>3, <5>4
        <5>6. QED
          BY <5>1, <5>5
      <4>3. QED
        BY <4>1, <4>2
    <3>3. QED
      BY <3>1, <3>2
  <2>4. f[n] = g[n]
    <3> HIDE DEF T
    <3>1. \A k \in 0..n : k \in T
      BY ONLY <1>1, <2>3, UpTo
    <3>2. QED
      BY <1>1, <2>2, <3>1 DEF T
  <2>5. f[n + 1] = f[n] \o c
    <3>1. n + 1 \in 2..Len(t) /\ (n + 1) - 1 = n
      BY <1>1, <2>2
    <3>2. f[n + 1] = f[n] \o t[n + 1]
      BY <1>2, <3>1
    <3>3. QED
      BY <1>1, <3>2
  <2>6. QED
    BY <1>1, <1>2, <2>1, <2>4, <2>5 DEF t
<1>5. QED
    BY <1>3, <1>4

-----------------------------------------------------------------------------
(* Fields with ids in I and values in V, of any kinds, and their cells.    *)

FieldCells(I, V) == [k : {"ef"}, id : I, n : Nat] \cup [k : {"val"}, v : V]

\* The cells of a field: its head, then its values.
LEMMA EfCellsType ==
    ASSUME NEW I, NEW V, NEW ef \in Fields(I, V)
    PROVE  /\ EfCells(ef) \in Seq(FieldCells(I, V))
           /\ Len(EfCells(ef)) = Len(ef.vals) + 1
           /\ EfCells(ef)[1] = [k |-> "ef", id |-> ef.id, n |-> Len(ef.vals)]
           /\ \A i \in 1..Len(ef.vals) : EfCells(ef)[i + 1] = [k |-> "val", v |-> ef.vals[i]]
<1> DEFINE n == Len(ef.vals)
           C == FieldCells(I, V)
           h == [k |-> "ef", id |-> ef.id, n |-> n]
           v == [i \in DOMAIN ef.vals |-> [k |-> "val", v |-> ef.vals[i]]]
<1>1. ef.id \in I /\ ef.vals \in Seq(V) /\ n \in Nat /\ DOMAIN ef.vals = 1..n
    BY DEF Fields
<1>2. h \in C
    BY <1>1 DEF FieldCells
<1>3. v \in [1..n -> C]
    BY <1>1 DEF FieldCells
<1>4. \A i \in 1..n : v[i] = [k |-> "val", v |-> ef.vals[i]]
    BY <1>1
<1>5. EfCells(ef) = <<h>> \o v
    BY DEF EfCells
<1> HIDE DEF C, h, v, n
<1>6. v \in Seq(C) /\ Len(v) = n
    BY ONLY <1>1, <1>3
<1>7. /\ <<h>> \o v \in Seq(C) /\ Len(<<h>> \o v) = n + 1
      /\ (<<h>> \o v)[1] = h /\ \A i \in 1..n : (<<h>> \o v)[i + 1] = v[i]
    BY <1>1, <1>2, <1>6
<1>8. QED
    BY <1>4, <1>5, <1>7 DEF C, n, h

\* The fields of a kind, of a list with one more field.
LEMMA EfForAppend ==
    ASSUME NEW S, NEW s \in Seq(S), NEW x \in S, NEW flags
    PROVE  EfFor(Append(s, x), flags) =
              IF x.for \cap flags # {} THEN Append(EfFor(s, flags), x) ELSE EfFor(s, flags)
<1> DEFINE t == Append(s, x)
           P == {i \in DOMAIN t : t[i].for \cap flags # {}}
           Q == {i \in DOMAIN s : s[i].for \cap flags # {}}
           n == Len(s)
<1>1. /\ n \in Nat /\ DOMAIN s = 1..n /\ DOMAIN t = 1..n + 1
      /\ t[n + 1] = x /\ \A i \in 1..n : t[i] = s[i]
    OBVIOUS
<1>2. \A i \in 1..n : i \in P <=> i \in Q
    BY <1>1
<1>3. n + 1 \in P <=> x.for \cap flags # {}
    BY <1>1
<1> HIDE DEF P, Q
<1>4. Picked(t, P) = IF n + 1 \in P THEN Append(Picked(s, Q), x) ELSE Picked(s, Q)
    BY <1>2, PickedAppend
<1>5. EfFor(t, flags) = Picked(t, P) /\ EfFor(s, flags) = Picked(s, Q)
    BY DEF EfFor, P, Q
<1>6. QED
    BY <1>3, <1>4, <1>5

LEMMA EfForType ==
    ASSUME NEW S, NEW s \in Seq(S), NEW flags
    PROVE  EfFor(s, flags) \in Seq(S)
    BY PickedType DEF EfFor

\* The cells of a list of fields.
LEMMA CellListType ==
    ASSUME NEW I, NEW V, NEW es \in Seq(Fields(I, V))
    PROVE  [i \in DOMAIN es |-> EfCells(es[i])] \in Seq(Seq(FieldCells(I, V)))
<1> DEFINE C == Seq(FieldCells(I, V))
           n == Len(es)
           c == [i \in DOMAIN es |-> EfCells(es[i])]
<1>1. n \in Nat /\ DOMAIN es = 1..n /\ \A i \in 1..n : es[i] \in Fields(I, V)
    OBVIOUS
<1>2. \A i \in 1..n : EfCells(es[i]) \in C
    BY <1>1, EfCellsType
<1> HIDE DEF C, n
<1>3. c \in [1..n -> C]
    BY <1>1, <1>2
<1> HIDE DEF c
<1>4. c \in Seq(C)
    BY ONLY <1>1, <1>3
<1>5. QED
    BY <1>4 DEF c, C

LEMMA EfWriteNil == ASSUME NEW flags PROVE EfWrite(<<>>, flags) = <<>>
<1>1. EfFor(<<>>, flags) = <<>>
    BY PickedNil DEF EfFor
<1>2. [i \in DOMAIN <<>> |-> EfCells(<<>>[i])] = <<>>
    OBVIOUS
<1>3. QED
    BY <1>1, <1>2, FlattenNil DEF EfWrite

\* What is written of a list of fields is cells of fields.
LEMMA EfWriteType ==
    ASSUME NEW I, NEW V, NEW efs \in Seq(Fields(I, V)), NEW flags
    PROVE  /\ EfWrite(efs, flags) \in Seq(FieldCells(I, V))
           /\ Len(EfWrite(efs, flags)) \in Nat
<1> DEFINE es == EfFor(efs, flags)
<1>1. es \in Seq(Fields(I, V))
    BY EfForType
<1> HIDE DEF es
<1>2. EfWrite(efs, flags) \in Seq(FieldCells(I, V))
    BY <1>1, CellListType, FlattenType DEF EfWrite, es
<1>3. QED
    BY <1>2

\* A field is written after those before it if it is of the kind.
LEMMA EfWriteAppend ==
    ASSUME NEW I, NEW V, NEW s \in Seq(Fields(I, V)), NEW x \in Fields(I, V), NEW flags
    PROVE  EfWrite(Append(s, x), flags) =
              IF x.for \cap flags # {} THEN EfWrite(s, flags) \o EfCells(x)
              ELSE EfWrite(s, flags)
<1> DEFINE F == Fields(I, V)
           C == FieldCells(I, V)
           e == EfFor(s, flags)
           cells(es) == [i \in DOMAIN es |-> EfCells(es[i])]
<1>1. CASE x.for \cap flags = {}
    BY <1>1, EfForAppend DEF EfWrite
<1>2. CASE x.for \cap flags # {}
  <2>1. EfFor(Append(s, x), flags) = Append(e, x) /\ e \in Seq(F)
    BY <1>2, EfForAppend, EfForType
  <2>2. cells(e) \in Seq(Seq(C)) /\ EfCells(x) \in Seq(C)
    BY <2>1, CellListType, EfCellsType
  <2> HIDE DEF e, F, C
  <2>3. cells(Append(e, x)) = Append(cells(e), EfCells(x))
    <3> DEFINE a == cells(Append(e, x))
               b == Append(cells(e), EfCells(x))
               n == Len(e)
    <3>1. n \in Nat /\ DOMAIN e = 1..n /\ Len(cells(e)) = n
      <4>1. n \in Nat /\ DOMAIN e = 1..n
        BY <2>1
      <4>2. DOMAIN cells(e) = 1..n
        BY <4>1
      <4> DEFINE ce == cells(e)
      <4> HIDE DEF ce
      <4>3. ce \in Seq(Seq(C)) /\ DOMAIN ce = 1..n
        BY <2>2, <4>2 DEF ce
      <4>4. Len(ce) = n
        BY ONLY <4>1, <4>3
      <4>5. QED
        BY <4>1, <4>4 DEF ce
    <3>2. DOMAIN a = 1..n + 1 /\ DOMAIN b = 1..n + 1
      BY <2>1, <2>2, <3>1
    <3>3. a[n + 1] = EfCells(x) /\ b[n + 1] = EfCells(x)
      BY <2>1, <2>2, <3>1
    <3>4. \A i \in 1..n : a[i] = EfCells(e[i]) /\ b[i] = EfCells(e[i])
      BY <2>1, <2>2, <3>1
    <3>5. \A i \in 1..n + 1 : a[i] = b[i]
      BY <3>1, <3>3, <3>4
    <3>6. b \in Seq(Seq(C)) /\ Len(b) = n + 1
      BY <2>2, <3>1
    <3>7. QED
      BY <3>2, <3>5, <3>6
  <2>4. FlattenSeq(Append(cells(e), EfCells(x))) = FlattenSeq(cells(e)) \o EfCells(x)
    BY <2>2, FlattenAppend
  <2>5. QED
    BY <1>2, <2>1, <2>3, <2>4 DEF EfWrite, e
<1>3. QED
    BY <1>1, <1>2

-----------------------------------------------------------------------------
(* How an edit of a list changes what is written of it.                    *)

\* The cells that a field takes in headers of kind k.
Weight(ef, k) == IF k \in ef.for THEN Len(ef.vals) + 1 ELSE 0

LEMMA WeightType ==
    ASSUME NEW I, NEW V, NEW ef \in Fields(I, V), NEW k
    PROVE  Weight(ef, k) \in Nat
    BY DEF Fields, Weight

\* What is written of a list t that ends with the field x, after s.
Adds(t, s, x, k) ==
    /\ EfWrite(t, {k}) =
          IF k \in x.for THEN EfWrite(s, {k}) \o EfCells(x) ELSE EfWrite(s, {k})
    /\ Len(EfWrite(t, {k})) = Len(EfWrite(s, {k})) + Weight(x, k)

\* One more field adds its cells, if it is of the kind.
LEMMA WrittenAppend ==
    ASSUME NEW I, NEW V, NEW s \in Seq(Fields(I, V)), NEW x \in Fields(I, V), NEW k
    PROVE  Adds(Append(s, x), s, x, k)
<1> DEFINE w == EfWrite(s, {k})
           c == EfCells(x)
<1>1. x.for \cap {k} # {} <=> k \in x.for
    OBVIOUS
<1>2. EfWrite(Append(s, x), {k}) = IF k \in x.for THEN w \o c ELSE w
    BY <1>1, EfWriteAppend
<1>3. w \in Seq(FieldCells(I, V)) /\ Len(w) \in Nat
    BY EfWriteType
<1>4. c \in Seq(FieldCells(I, V)) /\ Len(c) = Len(x.vals) + 1
    BY EfCellsType
<1> HIDE DEF w, c
<1>5. Len(w \o c) = Len(w) + Len(c)
    BY ONLY <1>3, <1>4, ConcatProperties
<1>6. QED
    BY <1>2, <1>3, <1>4, <1>5 DEF Adds, Weight, w, c

\* The last element of a list, and what comes before it.
Parts(t, n, S, u, y) ==
    /\ u \in Seq(S) /\ y \in S /\ t = Append(u, y) /\ Len(u) = n /\ t[n + 1] = y
    /\ \A i \in 1..n : t[i] = u[i]

\* A list that is not empty is a shorter one and a last element.
LEMMA Split ==
    ASSUME NEW S, NEW t \in Seq(S), NEW n \in Nat, Len(t) = n + 1
    PROVE  \E u, y : Parts(t, n, S, u, y)
<1>1. t # <<>>
    OBVIOUS
<1>2. PICK u \in Seq(S), y \in S : t = Append(u, y)
    BY <1>1, SequenceEmptyOrAppend
<1>3. Parts(t, n, S, u, y)
    BY <1>2, AppendProperties DEF Parts
<1>4. QED
    BY <1>3

\* Lists of which the same is written: the fields of the kind have the same
\* cells.
AlikeFor(s, t, k) ==
    /\ Len(t) = Len(s)
    /\ \A i \in 1..Len(s) : /\ k \in s[i].for <=> k \in t[i].for
                            /\ k \in s[i].for => EfCells(s[i]) = EfCells(t[i])

\* What is written of a kind depends on the fields of that kind only.
LEMMA SameWritten ==
    ASSUME NEW I, NEW V, NEW k, NEW s \in Seq(Fields(I, V)), NEW t \in Seq(Fields(I, V)),
           AlikeFor(s, t, k)
    PROVE  EfWrite(s, {k}) = EfWrite(t, {k})
<1> DEFINE F == Fields(I, V)
           Alike(a, b) == /\ Len(b) = Len(a)
                          /\ \A i \in 1..Len(a) :
                                /\ k \in a[i].for <=> k \in b[i].for
                                /\ k \in a[i].for => EfCells(a[i]) = EfCells(b[i])
           T == {a \in Seq(F) : \A b \in Seq(F) :
                    Alike(a, b) => EfWrite(a, {k}) = EfWrite(b, {k})}
<1>1. <<>> \in T
  <2>1. ASSUME NEW b \in Seq(F), Alike(<<>>, b) PROVE b = <<>>
    BY <2>1
  <2>2. <<>> \in Seq(F)
    OBVIOUS
  <2>3. QED
    BY <2>1, <2>2
<1>2. ASSUME NEW a \in Seq(F), NEW x \in F, a \in T PROVE Append(a, x) \in T
  <2> DEFINE ax == Append(a, x)
             n == Len(a)
  <2>1. /\ ax \in Seq(F) /\ Len(ax) = n + 1 /\ n \in Nat
        /\ ax[n + 1] = x /\ \A i \in 1..n : ax[i] = a[i]
    BY AppendProperties
  <2> HIDE DEF ax, F
  <2>2. ASSUME NEW b \in Seq(F), Alike(ax, b) PROVE EfWrite(ax, {k}) = EfWrite(b, {k})
    <3>0. PICK u, y : Parts(b, n, F, u, y)
      <4>1. b \in Seq(F) /\ n \in Nat /\ Len(b) = n + 1
        BY <2>1, <2>2
      <4> HIDE DEF n
      <4>2. QED
        BY ONLY <4>1, Split
    <3>1. /\ u \in Seq(F) /\ y \in F /\ b = Append(u, y) /\ Len(u) = n /\ b[n + 1] = y
          /\ \A i \in 1..n : b[i] = u[i]
      BY <3>0 DEF Parts
    <3>2. Alike(a, u)
      BY <2>1, <2>2, <3>1
    <3>3. EfWrite(a, {k}) = EfWrite(u, {k})
      BY <1>2, <3>1, <3>2
    <3>4. (k \in x.for <=> k \in y.for) /\ (k \in x.for => EfCells(x) = EfCells(y))
      BY <2>1, <2>2, <3>1
    <3>5. /\ EfWrite(ax, {k}) = IF k \in x.for THEN EfWrite(a, {k}) \o EfCells(x) ELSE EfWrite(a, {k})
          /\ EfWrite(b, {k}) = IF k \in y.for THEN EfWrite(u, {k}) \o EfCells(y) ELSE EfWrite(u, {k})
      <4>1. Adds(ax, a, x, k) /\ Adds(b, u, y, k)
        BY <3>1, WrittenAppend DEF ax, F
      <4>2. QED
        BY ONLY <4>1 DEF Adds
    <3>6. QED
      BY <3>3, <3>4, <3>5
  <2>3. QED
    BY <2>1, <2>2 DEF ax
<1> HIDE DEF T
<1>3. Seq(F) \subseteq T
    BY <1>1, <1>2, ListInduction
<1>4. Alike(s, t)
    BY DEF AlikeFor
<1>5. \A b \in Seq(F) : Alike(s, b) => EfWrite(s, {k}) = EfWrite(b, {k})
    BY <1>3 DEF T
<1> HIDE DEF Alike
<1>6. QED
    BY <1>4, <1>5

\* What is written of a list whose fields have become shorter or fewer.
LEMMA LessWritten ==
    ASSUME NEW I, NEW V, NEW k, NEW s \in Seq(Fields(I, V)), NEW t \in Seq(Fields(I, V)),
           Len(t) = Len(s), \A i \in 1..Len(s) : Weight(t[i], k) <= Weight(s[i], k)
    PROVE  Len(EfWrite(t, {k})) <= Len(EfWrite(s, {k}))
<1> DEFINE F == Fields(I, V)
           Less(a, b) == /\ Len(b) = Len(a)
                         /\ \A i \in 1..Len(a) : Weight(b[i], k) <= Weight(a[i], k)
           T == {a \in Seq(F) : \A b \in Seq(F) :
                    Less(a, b) => Len(EfWrite(b, {k})) <= Len(EfWrite(a, {k}))}
<1>1. <<>> \in T
  <2>1. ASSUME NEW b \in Seq(F), Less(<<>>, b) PROVE b = <<>>
    BY <2>1
  <2>2. <<>> \in Seq(F)
    OBVIOUS
  <2>3. Len(EfWrite(<<>>, {k})) \in Nat
    BY EfWriteType
  <2>4. ASSUME NEW b \in Seq(F), Less(<<>>, b)
        PROVE  Len(EfWrite(b, {k})) <= Len(EfWrite(<<>>, {k}))
    BY <2>1, <2>3, <2>4
  <2> HIDE DEF Less
  <2>5. QED
    BY <2>2, <2>4
<1>2. ASSUME NEW a \in Seq(F), NEW x \in F, a \in T PROVE Append(a, x) \in T
  <2> DEFINE ax == Append(a, x)
             n == Len(a)
  <2>1. /\ ax \in Seq(F) /\ Len(ax) = n + 1 /\ n \in Nat
        /\ ax[n + 1] = x /\ \A i \in 1..n : ax[i] = a[i]
    BY AppendProperties
  <2> HIDE DEF ax, F
  <2>2. ASSUME NEW b \in Seq(F), Less(ax, b)
        PROVE  Len(EfWrite(b, {k})) <= Len(EfWrite(ax, {k}))
    <3>0. PICK u, y : Parts(b, n, F, u, y)
      <4>1. b \in Seq(F) /\ n \in Nat /\ Len(b) = n + 1
        BY <2>1, <2>2
      <4> HIDE DEF n
      <4>2. QED
        BY ONLY <4>1, Split
    <3>1. /\ u \in Seq(F) /\ y \in F /\ b = Append(u, y) /\ Len(u) = n /\ b[n + 1] = y
          /\ \A i \in 1..n : b[i] = u[i]
      BY <3>0 DEF Parts
    <3>2. Less(a, u)
      BY <2>1, <2>2, <3>1
    <3>3. Len(EfWrite(u, {k})) <= Len(EfWrite(a, {k}))
      BY <1>2, <3>1, <3>2
    <3>4. Weight(y, k) <= Weight(x, k)
      BY <2>1, <2>2, <3>1
    <3>5. /\ Len(EfWrite(ax, {k})) = Len(EfWrite(a, {k})) + Weight(x, k)
          /\ Len(EfWrite(b, {k})) = Len(EfWrite(u, {k})) + Weight(y, k)
      <4>1. Adds(ax, a, x, k) /\ Adds(b, u, y, k)
        BY <3>1, WrittenAppend DEF ax, F
      <4>2. QED
        BY ONLY <4>1 DEF Adds
    <3>6. /\ Len(EfWrite(a, {k})) \in Nat /\ Len(EfWrite(u, {k})) \in Nat
          /\ Weight(x, k) \in Nat /\ Weight(y, k) \in Nat
      BY <3>1, EfWriteType, WeightType DEF F
    <3>7. QED
      BY <3>3, <3>4, <3>5, <3>6
  <2>3. QED
    BY <2>1, <2>2 DEF ax
<1> HIDE DEF T
<1>3. Seq(F) \subseteq T
    BY <1>1, <1>2, ListInduction
<1>4. QED
    BY <1>3 DEF T

\* One field is replaced.
SameBut(s, t, p) == Len(t) = Len(s) /\ \A i \in 1..Len(s) : i # p => t[i] = s[i]

Exchanges(s, t, p, k) ==
    Len(EfWrite(t, {k})) = Len(EfWrite(s, {k})) - Weight(s[p], k) + Weight(t[p], k)

\* Replacing a field changes the length by the difference of the two.
LEMMA ReplacedLength ==
    ASSUME NEW I, NEW V, NEW k, NEW s \in Seq(Fields(I, V)), NEW t \in Seq(Fields(I, V)),
           NEW p \in 1..Len(s), SameBut(s, t, p)
    PROVE  Exchanges(s, t, p, k)
<1> DEFINE F == Fields(I, V)
           L(a) == Len(EfWrite(a, {k}))
           But(a, b, q) == Len(b) = Len(a) /\ \A i \in 1..Len(a) : i # q => b[i] = a[i]
           T == {a \in Seq(F) : \A b \in Seq(F), q \in 1..Len(a) :
                    But(a, b, q) => L(b) = L(a) - Weight(a[q], k) + Weight(b[q], k)}
<1>1. <<>> \in T
    OBVIOUS
<1>2. ASSUME NEW a \in Seq(F), NEW x \in F, a \in T PROVE Append(a, x) \in T
  <2> DEFINE ax == Append(a, x)
             n == Len(a)
  <2>1. /\ ax \in Seq(F) /\ Len(ax) = n + 1 /\ n \in Nat
        /\ ax[n + 1] = x /\ \A i \in 1..n : ax[i] = a[i]
    BY AppendProperties
  <2> HIDE DEF ax, F
  <2>2. ASSUME NEW b \in Seq(F), NEW q \in 1..Len(ax), But(ax, b, q)
        PROVE  L(b) = L(ax) - Weight(ax[q], k) + Weight(b[q], k)
    <3>0. PICK u, y : Parts(b, n, F, u, y)
      <4>1. b \in Seq(F) /\ n \in Nat /\ Len(b) = n + 1
        BY <2>1, <2>2
      <4> HIDE DEF n
      <4>2. QED
        BY ONLY <4>1, Split
    <3>1. /\ u \in Seq(F) /\ y \in F /\ b = Append(u, y) /\ Len(u) = n /\ b[n + 1] = y
          /\ \A i \in 1..n : b[i] = u[i]
      BY <3>0 DEF Parts
    <3>2. L(ax) = L(a) + Weight(x, k) /\ L(b) = L(u) + Weight(y, k)
      <4>1. Adds(ax, a, x, k) /\ Adds(b, u, y, k)
        BY <3>1, WrittenAppend DEF ax, F
      <4>2. QED
        BY ONLY <4>1 DEF Adds
    <3>3. /\ L(a) \in Nat /\ L(u) \in Nat /\ Weight(x, k) \in Nat /\ Weight(y, k) \in Nat
      BY <3>1, EfWriteType, WeightType DEF F
    <3>4. CASE q = n + 1
      <4>1. \A i \in 1..n : u[i] = a[i]
        BY <2>1, <2>2, <3>1, <3>4
      <4>2. u = a
        BY <2>1, <3>1, <4>1, SeqEqual
      <4>3. QED
        BY <2>1, <3>1, <3>2, <3>3, <3>4, <4>2
    <3>5. CASE q \in 1..n
      <4>1. x = y /\ But(a, u, q)
        BY <2>1, <2>2, <3>1, <3>5
      <4>2. L(u) = L(a) - Weight(a[q], k) + Weight(u[q], k)
        BY <1>2, <3>1, <3>5, <4>1
      <4>3. ax[q] = a[q] /\ b[q] = u[q] /\ a[q] \in F /\ u[q] \in F
        BY <2>1, <3>1, <3>5
      <4>4. Weight(a[q], k) \in Nat /\ Weight(u[q], k) \in Nat
        BY <4>3, WeightType DEF F
      <4> HIDE DEF L
      <4>5. QED
        BY <3>2, <3>3, <4>1, <4>2, <4>3, <4>4
    <3>6. QED
      BY <2>1, <3>4, <3>5
  <2>3. QED
    BY <2>1, <2>2 DEF ax
<1> HIDE DEF T
<1>3. Seq(F) \subseteq T
    BY <1>1, <1>2, ListInduction
<1>4. QED
    BY <1>3 DEF T, SameBut, Exchanges

\* What InsertAt makes of a list.
HasInserted(t, S, s, q, x) ==
    /\ t \in Seq(S) /\ Len(t) = Len(s) + 1
    /\ \A i \in 1..Len(s) + 1 : t[i] = IF i < q THEN s[i] ELSE IF i = q THEN x ELSE s[i - 1]

\* InsertAt moves what is behind the new element.
LEMMA InsertAtType ==
    ASSUME NEW S, NEW s \in Seq(S), NEW q \in 1..Len(s) + 1, NEW x \in S
    PROVE  HasInserted(InsertAt(s, q, x), S, s, q, x)
<1> DEFINE n == Len(s)
           a == SubSeq(s, 1, q - 1)
           b == SubSeq(s, q, n)
           c == a \o <<x>>
<1>1. n \in Nat /\ q \in Int
    OBVIOUS
<1>2. a \in Seq(S) /\ Len(a) = q - 1 /\ \A i \in 1..q - 1 : a[i] = s[i]
    BY <1>1, SubSeqProperties
<1>3. b \in Seq(S) /\ Len(b) = n - q + 1 /\ \A i \in 1..n - q + 1 : b[i] = s[q + i - 1]
    BY <1>1, SubSeqProperties
<1>4. InsertAt(s, q, x) = c \o b
    BY DEF InsertAt
<1> HIDE DEF a, b
<1>5. c \in Seq(S) /\ Len(c) = q /\ \A i \in 1..q : c[i] = IF i < q THEN s[i] ELSE x
    BY <1>1, <1>2
<1> HIDE DEF c
<1>6. /\ c \o b \in Seq(S) /\ Len(c \o b) = n + 1
      /\ \A i \in 1..n + 1 : (c \o b)[i] = IF i <= q THEN c[i] ELSE b[i - q]
  <2>1. /\ c \o b \in Seq(S) /\ Len(c \o b) = Len(c) + Len(b)
        /\ \A i \in 1..Len(c) + Len(b) :
              (c \o b)[i] = IF i <= Len(c) THEN c[i] ELSE b[i - Len(c)]
    BY ONLY <1>3, <1>5, ConcatProperties
  <2>2. Len(c) = q /\ Len(c) + Len(b) = n + 1
    BY <1>1, <1>3, <1>5
  <2>3. QED
    BY <2>1, <2>2
<1>7. ASSUME NEW i \in 1..n + 1
      PROVE  (c \o b)[i] = IF i < q THEN s[i] ELSE IF i = q THEN x ELSE s[i - 1]
  <2>1. CASE i <= q
    BY <1>1, <1>5, <1>6, <2>1
  <2>2. CASE i > q
    <3>1. i - q \in 1..n - q + 1 /\ q + (i - q) - 1 = i - 1
      BY <1>1, <2>2
    <3>2. b[i - q] = s[i - 1]
      BY <1>3, <3>1
    <3>3. QED
      BY <1>1, <1>6, <2>2, <3>2
  <2>3. i \in Int /\ q \in Int
    BY <1>1, <1>7
  <2>4. i <= q \/ i > q
    BY <2>3
  <2>5. QED
    BY <2>1, <2>2, <2>4
<1>8. QED
    BY <1>4, <1>6, <1>7 DEF HasInserted

\* One field is inserted.
LEMMA InsertedWritten ==
    ASSUME NEW I, NEW V, NEW k, NEW s \in Seq(Fields(I, V)), NEW q \in 1..Len(s) + 1,
           NEW x \in Fields(I, V)
    PROVE  /\ Len(EfWrite(InsertAt(s, q, x), {k})) = Len(EfWrite(s, {k})) + Weight(x, k)
           /\ k \notin x.for => EfWrite(InsertAt(s, q, x), {k}) = EfWrite(s, {k})
<1> DEFINE F == Fields(I, V)
           W(a) == EfWrite(a, {k})
           Inserts(a, r) == /\ Len(W(InsertAt(a, r, x))) = Len(W(a)) + Weight(x, k)
                            /\ k \notin x.for => W(InsertAt(a, r, x)) = W(a)
           T == {a \in Seq(F) : \A r \in 1..Len(a) + 1 : Inserts(a, r)}
<1>0. ASSUME NEW a \in Seq(F) PROVE Inserts(a, Len(a) + 1)
  <2>1. InsertAt(a, Len(a) + 1, x) = Append(a, x)
    <3> DEFINE b == InsertAt(a, Len(a) + 1, x)
               c == Append(a, x)
    <3>1. Len(a) \in Nat /\ Len(a) + 1 \in 1..Len(a) + 1
      OBVIOUS
    <3>2. /\ b \in Seq(F) /\ Len(b) = Len(a) + 1
          /\ \A i \in 1..Len(a) + 1 : b[i] = IF i < Len(a) + 1 THEN a[i]
                                             ELSE IF i = Len(a) + 1 THEN x ELSE a[i - 1]
      <4> HIDE DEF F
      <4>1. x \in F
        BY DEF F
      <4>2. QED
        <5>1. HasInserted(b, F, a, Len(a) + 1, x)
          BY <1>0, <3>1, <4>1, InsertAtType
        <5>2. QED
          BY ONLY <5>1 DEF HasInserted
    <3>3. /\ c \in Seq(F) /\ Len(c) = Len(a) + 1
          /\ \A i \in 1..Len(a) + 1 : c[i] = IF i < Len(a) + 1 THEN a[i] ELSE x
      BY <3>1
    <3> HIDE DEF b, c
    <3>4. \A i \in 1..Len(b) : b[i] = c[i]
      BY <3>1, <3>2, <3>3
    <3>5. b = c
      BY ONLY <3>2, <3>3, <3>4, SeqEqual
    <3>6. QED
      BY <3>5 DEF b, c
  <2>2. Adds(Append(a, x), a, x, k)
    BY WrittenAppend
  <2>3. QED
    BY <2>1, <2>2 DEF Adds
<1>1. <<>> \in T
  <2>1. <<>> \in Seq(F) /\ Len(<<>>) = 0
    OBVIOUS
  <2>2. Inserts(<<>>, Len(<<>>) + 1)
    BY <1>0, <2>1
  <2> HIDE DEF Inserts
  <2>3. \A r \in 1..Len(<<>>) + 1 : r = Len(<<>>) + 1
    BY <2>1
  <2>4. QED
    BY <2>1, <2>2, <2>3
<1>2. ASSUME NEW a \in Seq(F), NEW y \in F, a \in T PROVE Append(a, y) \in T
  <2> DEFINE ay == Append(a, y)
             n == Len(a)
  <2>1. /\ ay \in Seq(F) /\ Len(ay) = n + 1 /\ n \in Nat
        /\ ay[n + 1] = y /\ \A i \in 1..n : ay[i] = a[i]
    BY AppendProperties
  <2>2. ASSUME NEW r \in 1..Len(ay) + 1 PROVE Inserts(ay, r)
    <3>1. CASE r = Len(ay) + 1
      BY <1>0, <2>1, <3>1
    <3>2. CASE r \in 1..n + 1
      <4> DEFINE b == InsertAt(ay, r, x)
                 d == InsertAt(a, r, x)
                 c == Append(d, y)
      <4>1. /\ b \in Seq(F) /\ Len(b) = n + 2
            /\ \A i \in 1..n + 2 : b[i] = IF i < r THEN ay[i] ELSE IF i = r THEN x ELSE ay[i - 1]
        <5> HIDE DEF ay, F
        <5>1. x \in F /\ r \in 1..Len(ay) + 1
          BY <2>2 DEF F
        <5>2. /\ b \in Seq(F) /\ Len(b) = Len(ay) + 1
              /\ \A i \in 1..Len(ay) + 1 :
                    b[i] = IF i < r THEN ay[i] ELSE IF i = r THEN x ELSE ay[i - 1]
          <6>1. HasInserted(b, F, ay, r, x)
            BY <2>1, <5>1, InsertAtType
          <6>2. QED
            BY ONLY <6>1 DEF HasInserted
        <5>3. QED
          BY <2>1, <5>2
      <4>2. /\ d \in Seq(F) /\ Len(d) = n + 1
            /\ \A i \in 1..n + 1 : d[i] = IF i < r THEN a[i] ELSE IF i = r THEN x ELSE a[i - 1]
        <5> HIDE DEF F
        <5>1. x \in F
          BY DEF F
        <5>2. QED
          <6>1. HasInserted(d, F, a, r, x)
            BY <1>2, <3>2, <5>1, InsertAtType
          <6>2. QED
            BY ONLY <6>1 DEF HasInserted
      <4> HIDE DEF ay, b, d
      <4>3. /\ c \in Seq(F) /\ Len(c) = n + 2 /\ c[n + 2] = y
            /\ \A i \in 1..n + 1 : c[i] = d[i]
        BY <2>1, <4>2
      <4> HIDE DEF c
      <4>4. ASSUME NEW i \in 1..Len(b) PROVE b[i] = c[i]
        <5>1. CASE i = n + 2
          <6>1. b[i] = ay[n + 1]
            BY <2>1, <3>2, <4>1, <5>1
          <6>2. QED
            BY <2>1, <4>3, <5>1, <6>1
        <5>2. CASE i \in 1..n + 1
          <6>1. CASE i < r
            <7>1. i \in 1..n /\ i \in 1..n + 2
              BY <2>1, <3>2, <5>2, <6>1
            <7>2. b[i] = ay[i]
              BY ONLY <4>1, <6>1, <7>1
            <7>3. d[i] = a[i]
              BY ONLY <4>2, <5>2, <6>1
            <7>4. QED
              BY <2>1, <4>3, <5>2, <7>1, <7>2, <7>3
          <6>2. CASE i = r
            BY <2>1, <3>2, <4>1, <4>2, <4>3, <5>2, <6>2
          <6>3. CASE i > r
            <7>1. i - 1 \in 1..n
              BY <2>1, <3>2, <5>2, <6>3
            <7>2. b[i] = ay[i - 1] /\ d[i] = a[i - 1]
              BY <2>1, <3>2, <4>1, <4>2, <5>2, <6>3
            <7>3. QED
              BY <2>1, <4>3, <5>2, <7>1, <7>2
          <6>4. QED
            BY <2>1, <3>2, <5>2, <6>1, <6>2, <6>3
        <5>3. QED
          BY <2>1, <4>1, <4>4, <5>1, <5>2
      <4>5. b = c
        BY <4>1, <4>3, <4>4, SeqEqual
      <4>6. Inserts(a, r)
        BY <1>2, <3>2
      <4>7. /\ Len(W(c)) = Len(W(d)) + Weight(y, k) /\ Len(W(ay)) = Len(W(a)) + Weight(y, k)
            /\ W(c) = IF k \in y.for THEN W(d) \o EfCells(y) ELSE W(d)
            /\ W(ay) = IF k \in y.for THEN W(a) \o EfCells(y) ELSE W(a)
        <5>1. Adds(c, d, y, k) /\ Adds(ay, a, y, k)
          BY <4>2, WrittenAppend DEF c, ay
        <5>2. QED
          BY ONLY <5>1 DEF Adds
      <4>8. Len(W(a)) \in Nat /\ Weight(x, k) \in Nat /\ Weight(y, k) \in Nat
        BY EfWriteType, WeightType
      <4>9. Len(W(d)) = Len(W(a)) + Weight(x, k) /\ (k \notin x.for => W(d) = W(a))
        BY <4>6 DEF d
      <4>10. Len(W(b)) = Len(W(ay)) + Weight(x, k) /\ (k \notin x.for => W(b) = W(ay))
        <5> HIDE DEF W
        <5>1. Len(W(b)) = Len(W(ay)) + Weight(x, k)
          BY <4>5, <4>7, <4>8, <4>9
        <5>2. QED
          BY <4>5, <4>7, <4>9, <5>1
      <4>11. QED
        BY <4>10 DEF b
    <3>3. QED
      BY <2>1, <2>2, <3>1, <3>2
  <2> HIDE DEF Inserts
  <2>3. QED
    BY <2>1, <2>2
<1> HIDE DEF T
<1>3. Seq(F) \subseteq T
    BY <1>1, <1>2, ListInduction
<1>4. QED
    BY <1>3 DEF T

\* The fields that have a kind left are all that is written of a list.
WithKinds(s) == Picked(s, {i \in DOMAIN s : s[i].for # {}})

WrittenAlike(s, t, k) == EfWrite(s, {k}) = EfWrite(t, {k})

\* A field of no kind is not written, so removing it changes nothing.
LEMMA RemovedWritten ==
    ASSUME NEW I, NEW V, NEW k, NEW s \in Seq(Fields(I, V))
    PROVE  WrittenAlike(WithKinds(s), s, k)
<1> DEFINE F == Fields(I, V)
           Rest(a) == Picked(a, {i \in DOMAIN a : a[i].for # {}})
           T == {a \in Seq(F) : EfWrite(Rest(a), {k}) = EfWrite(a, {k})}
<1>1. <<>> \in T
    BY PickedNil
<1>2. ASSUME NEW a \in Seq(F), NEW x \in F, a \in T PROVE Append(a, x) \in T
  <2> DEFINE ax == Append(a, x)
             n == Len(a)
             P == {i \in DOMAIN ax : ax[i].for # {}}
             Q == {i \in DOMAIN a : a[i].for # {}}
  <2>1. /\ ax \in Seq(F) /\ Len(ax) = n + 1 /\ n \in Nat /\ DOMAIN ax = 1..n + 1
        /\ DOMAIN a = 1..n /\ ax[n + 1] = x /\ \A i \in 1..n : ax[i] = a[i]
    BY AppendProperties
  <2>2. \A i \in 1..Len(a) : i \in P <=> i \in Q
    BY <2>1
  <2>3. Len(a) + 1 \in P <=> x.for # {}
    BY <2>1
  <2>4. Rest(ax) = Picked(ax, P) /\ Rest(a) = Picked(a, Q)
    OBVIOUS
  <2>5. Rest(a) \in Seq(F)
    BY PickedType
  <2> HIDE DEF P, Q, Rest, F
  <2>6. Picked(Append(a, x), P) =
            IF Len(a) + 1 \in P THEN Append(Picked(a, Q), x) ELSE Picked(a, Q)
    BY ONLY <1>2, <2>2, PickedAppend
  <2>7. Rest(ax) = IF x.for # {} THEN Append(Rest(a), x) ELSE Rest(a)
    BY <2>3, <2>4, <2>6
  <2>8. EfWrite(ax, {k}) = IF k \in x.for THEN EfWrite(a, {k}) \o EfCells(x) ELSE EfWrite(a, {k})
    <3>1. Adds(ax, a, x, k)
      BY <1>2, WrittenAppend DEF F
    <3>2. QED
      BY ONLY <3>1 DEF Adds
  <2>9. EfWrite(Append(Rest(a), x), {k}) =
            IF k \in x.for THEN EfWrite(Rest(a), {k}) \o EfCells(x) ELSE EfWrite(Rest(a), {k})
    <3>1. Adds(Append(Rest(a), x), Rest(a), x, k)
      BY <1>2, <2>5, WrittenAppend DEF F
    <3>2. QED
      BY ONLY <3>1 DEF Adds
  <2>10. EfWrite(Rest(a), {k}) = EfWrite(a, {k})
    BY <1>2
  <2>11. EfWrite(Rest(ax), {k}) = EfWrite(ax, {k})
    <3>1. CASE x.for = {}
      BY <2>7, <2>8, <2>10, <3>1
    <3>2. CASE x.for # {}
      <4>1. Rest(ax) = Append(Rest(a), x)
        BY <2>7, <3>2
      <4> HIDE DEF ax
      <4>2. CASE k \in x.for
        <5>1. EfWrite(ax, {k}) = EfWrite(a, {k}) \o EfCells(x)
          BY <2>8, <4>2
        <5>2. EfWrite(Rest(ax), {k}) = EfWrite(Rest(a), {k}) \o EfCells(x)
          BY <2>9, <4>1, <4>2
        <5>3. QED
          BY ONLY <5>1, <5>2, <2>10
      <4>3. CASE k \notin x.for
        <5>1. EfWrite(ax, {k}) = EfWrite(a, {k})
          BY <2>8, <4>3
        <5>2. EfWrite(Rest(ax), {k}) = EfWrite(Rest(a), {k})
          BY <2>9, <4>1, <4>3
        <5>3. QED
          BY ONLY <5>1, <5>2, <2>10
      <4>4. QED
        BY <4>2, <4>3
    <3>3. QED
      BY <3>1, <3>2
  <2>12. QED
    BY <2>1, <2>11
<1> HIDE DEF T
<1>3. Seq(F) \subseteq T
    BY <1>1, <1>2, ListInduction
<1>4. QED
    BY <1>3 DEF T, WithKinds, WrittenAlike

-----------------------------------------------------------------------------
(* What the functions for extra fields do to a list.                       *)

\* What is picked is found at the positions in P.
LEMMA PickedFrom ==
    ASSUME NEW S, NEW s \in Seq(S), NEW P
    PROVE  Picked(s, P) \in Seq({s[i] : i \in {i \in 1..Len(s) : i \in P}})
<1> DEFINE n == Len(s)
           X == {s[i] : i \in {i \in 1..n : i \in P}}
<1>1. PICK f : /\ f \in [0..n -> Seq(S)] /\ f[0] = <<>> /\ Picked(s, P) = f[n]
               /\ \A k \in 1..n :
                     f[k] = IF k \in P THEN Append(f[k - 1], s[k]) ELSE f[k - 1]
  <2>1. \E f : PickLoop(f, S, s, P)
    BY PickedLoop
  <2>2. QED
    BY ONLY <2>1 DEF PickLoop
<1>2. n \in Nat
    OBVIOUS
<1> DEFINE T == {k \in 0..n : f[k] \in Seq(X)}
<1>3. 0 \in T /\ \A k \in 0..n - 1 : k \in T => k + 1 \in T
  <2>1. 0 \in T
    BY <1>1, <1>2
  <2>2. ASSUME NEW k \in 0..n - 1, k \in T PROVE k + 1 \in T
    <3>1. k + 1 \in 1..n /\ f[k] \in Seq(X) /\ k + 1 \in 0..n
      BY <1>2, <2>2
    <3>2. f[k + 1] = IF k + 1 \in P THEN Append(f[k], s[k + 1]) ELSE f[k]
      BY <1>1, <3>1
    <3>3. k + 1 \in P => s[k + 1] \in X
      BY <3>1
    <3> HIDE DEF X
    <3>4. f[k + 1] \in Seq(X)
      BY <3>1, <3>2, <3>3
    <3>5. QED
      BY <3>1, <3>4
  <2>3. QED
    BY <2>1, <2>2
<1>4. f[n] \in Seq(X)
  <2> HIDE DEF T
  <2>1. \A k \in 0..n : k \in T
    BY ONLY <1>2, <1>3, UpTo
  <2>2. QED
    BY <1>2, <2>1 DEF T
<1>5. QED
    BY <1>1, <1>4

\* The positions EfPlaces yields are those of fields that match.
LEMMA PlacesMatch ==
    ASSUME NEW S, NEW efs \in Seq(S), NEW ids, NEW flags,
           NEW j \in DOMAIN EfPlaces(efs, ids, flags)
    PROVE  /\ EfPlaces(efs, ids, flags)[j] \in 1..Len(efs)
           /\ efs[EfPlaces(efs, ids, flags)[j]].id \in ids
           /\ efs[EfPlaces(efs, ids, flags)[j]].for \cap flags # {}
<1> DEFINE n == Len(efs)
           at == [i \in DOMAIN efs |-> i]
           P == {i \in DOMAIN efs : efs[i].id \in ids /\ efs[i].for \cap flags # {}}
           X == {at[i] : i \in {i \in 1..Len(at) : i \in P}}
<1>1. n \in Nat /\ DOMAIN efs = 1..n
    OBVIOUS
<1>2. at \in [1..n -> 1..n]
    BY <1>1
<1>3. at \in Seq(1..n) /\ Len(at) = n
  <2> HIDE DEF at, n
  <2>1. QED
    BY ONLY <1>1, <1>2
<1>4. Picked(at, P) \in Seq(X)
  <2> HIDE DEF at, P, n
  <2>1. QED
    BY ONLY <1>3, PickedFrom
<1>5. X \subseteq P
    BY <1>1, <1>3
<1>6. EfPlaces(efs, ids, flags) = Picked(at, P)
    BY DEF EfPlaces
<1>7. EfPlaces(efs, ids, flags)[j] \in P
  <2> HIDE DEF at, P, n, X
  <2>1. j \in DOMAIN Picked(at, P)
    BY <1>6
  <2>2. Picked(at, P)[j] \in X
    BY <1>4, <2>1
  <2>3. QED
    BY <1>5, <1>6, <2>2
<1>8. QED
    BY <1>1, <1>7

\* The cells that a field which is replaced gives back in headers of kind k.
Given(efs, ps, which, k) == IF which \in DOMAIN ps THEN Weight(efs[ps[which]], k) ELSE 0

\* What EXCEPT makes of a list.
HasReplaced(t, S, s, p, x) ==
    /\ t \in Seq(S) /\ Len(t) = Len(s)
    /\ \A i \in 1..Len(s) : t[i] = IF i = p THEN x ELSE s[i]

LEMMA ReplacedType ==
    ASSUME NEW S, NEW s \in Seq(S), NEW p \in 1..Len(s), NEW x \in S
    PROVE  HasReplaced([s EXCEPT ![p] = x], S, s, p, x)
    BY ExceptSeq DEF HasReplaced

\* zip_file_extra_field_set leaves what is written of the other kinds, and
\* adds the new field to what is written of its own.
HasSet(new, S, efs, ps, which, vals, flags) ==
    /\ new \in Seq(S)
    /\ \A k \in Kinds \ flags : EfWrite(new, {k}) = EfWrite(efs, {k})
    /\ \A k \in flags : Len(EfWrite(new, {k})) =
          Len(EfWrite(efs, {k})) - Given(efs, ps, which, k) + (Len(vals) + 1)

\* What zip_file_extra_field_set changes, and by how much, in all its
\* cases.
LEMMA SetWritten ==
    ASSUME NEW I, NEW V, NEW efs \in Seq(Fields(I, V)), NEW id \in I, NEW vals \in Seq(V),
           NEW flags \in SUBSET Kinds, NEW which,
           NEW new, new = EfSet(efs, id, which, vals, flags),
           NEW ps, ps = EfPlaces(efs, {id}, flags)
    PROVE  HasSet(new, Fields(I, V), efs, ps, which, vals, flags)
<1> SUFFICES /\ new \in Seq(Fields(I, V))
             /\ \A k \in Kinds \ flags : EfWrite(new, {k}) = EfWrite(efs, {k})
             /\ \A k \in flags : Len(EfWrite(new, {k})) =
                   Len(EfWrite(efs, {k})) - Given(efs, ps, which, k) + (Len(vals) + 1)
    BY DEF HasSet
<1> DEFINE F == Fields(I, V)
           n == Len(efs)
           x == [id |-> id, vals |-> vals, for |-> flags]
           p == ps[which]
           L(s, k) == Len(EfWrite(s, {k}))
<1>1. x \in F /\ n \in Nat /\ Len(vals) \in Nat
    BY DEF Fields
<1>2. /\ \A k \in flags : Weight(x, k) = Len(vals) + 1
      /\ \A k \in Kinds \ flags : Weight(x, k) = 0
    BY DEF Weight
<1>3. ASSUME NEW k \in Kinds PROVE L(efs, k) \in Nat
    BY EfWriteType
<1>4. CASE which \notin DOMAIN ps
  <2>1. new = Append(efs, x)
    BY <1>4 DEF EfSet
  <2>2. new \in Seq(F)
    BY <1>1, <2>1
  <2>3. ASSUME NEW k \in Kinds
        PROVE  /\ EfWrite(new, {k}) =
                     IF k \in x.for THEN EfWrite(efs, {k}) \o EfCells(x) ELSE EfWrite(efs, {k})
               /\ L(new, k) = L(efs, k) + Weight(x, k)
    <3>1. Adds(new, efs, x, k)
      <4> HIDE DEF x
      <4>1. QED
        BY <1>1, <2>1, WrittenAppend
    <3>2. QED
      BY ONLY <3>1 DEF Adds
  <2>4. \A k \in flags : k \in Kinds /\ Given(efs, ps, which, k) = 0
    BY <1>4 DEF Given
  <2> HIDE DEF F, L
  <2>5. ASSUME NEW k \in flags
        PROVE  L(new, k) = L(efs, k) - Given(efs, ps, which, k) + (Len(vals) + 1)
    <3>1. /\ L(new, k) = L(efs, k) + Weight(x, k) /\ Weight(x, k) = Len(vals) + 1
          /\ L(efs, k) \in Nat /\ Given(efs, ps, which, k) = 0
      BY <1>2, <1>3, <2>3, <2>4
    <3>2. QED
      BY ONLY <3>1, <1>1
  <2>6. QED
    BY <2>2, <2>3, <2>5 DEF F, L
<1>5. CASE which \in DOMAIN ps
  <2>1. p \in 1..n /\ efs[p] \in F
    BY <1>5, PlacesMatch
  <2>2. \A k \in Kinds : Weight(efs[p], k) \in Nat /\ Given(efs, ps, which, k) = Weight(efs[p], k)
    BY <1>5, <2>1, WeightType DEF Given
  <2>3. CASE efs[p].for = flags
    <3>1. new = [efs EXCEPT ![p] = x]
      BY <1>5, <2>3 DEF EfSet
    <3>2. /\ new \in Seq(F) /\ Len(new) = n
          /\ \A i \in 1..n : new[i] = IF i = p THEN x ELSE efs[i]
      <4>1. efs \in Seq(F) /\ x \in F /\ p \in 1..Len(efs) /\ n = Len(efs)
        BY <1>1, <2>1
      <4> HIDE DEF x, p, F, n
      <4>2. HasReplaced([efs EXCEPT ![p] = x], F, efs, p, x)
        BY ONLY <4>1, ReplacedType
      <4>3. QED
        BY <3>1, <4>1, <4>2 DEF HasReplaced
    <3>3. ASSUME NEW k \in Kinds \ flags PROVE EfWrite(new, {k}) = EfWrite(efs, {k})
      <4>1. x.for = flags /\ k \notin flags
        BY <3>3
      <4> HIDE DEF x
      <4>2. AlikeFor(efs, new, k)
        <5>1. ASSUME NEW i \in 1..n
              PROVE  /\ k \in efs[i].for <=> k \in new[i].for
                     /\ k \in efs[i].for => EfCells(efs[i]) = EfCells(new[i])
          <6>1. CASE i = p
            BY <2>3, <3>2, <4>1, <6>1
          <6>2. CASE i # p
            BY <3>2, <6>2
          <6>3. QED
            BY <6>1, <6>2
        <5>2. QED
          BY <3>2, <5>1 DEF AlikeFor
      <4>3. EfWrite(efs, {k}) = EfWrite(new, {k})
        BY <3>2, <4>2, SameWritten
      <4>4. QED
        BY <4>3
    <3>4. ASSUME NEW k \in flags
          PROVE  L(new, k) = L(efs, k) - Weight(efs[p], k) + Weight(x, k)
      <4>1. /\ new \in Seq(Fields(I, V)) /\ efs \in Seq(Fields(I, V))
            /\ p \in 1..Len(efs) /\ SameBut(efs, new, p)
        BY <2>1, <3>2 DEF SameBut
      <4>2. new[p] = x
        BY <2>1, <3>2
      <4> HIDE DEF p, x
      <4>3. Exchanges(efs, new, p, k)
        BY ONLY <4>1, ReplacedLength
      <4>4. QED
        BY <4>2, <4>3 DEF Exchanges
    <3> HIDE DEF L, F
    <3>5. \A k \in flags : L(new, k) = L(efs, k) - Given(efs, ps, which, k) + (Len(vals) + 1)
      BY <1>2, <2>2, <3>4
    <3>6. QED
      BY <3>2, <3>3, <3>5 DEF L, F
  <2>4. CASE efs[p].for # flags
    <3> DEFINE y == [efs[p] EXCEPT !.for = @ \ flags]
               mid == [efs EXCEPT ![p] = y]
    <3>1. new = InsertAt(mid, p + 1, x)
      BY <1>5, <2>4 DEF EfSet
    <3>2. /\ y \in F /\ y.for = efs[p].for \ flags /\ EfCells(y) = EfCells(efs[p])
      BY <2>1 DEF Fields, EfCells
    <3> HIDE DEF y
    <3>3. /\ mid \in Seq(F) /\ Len(mid) = n
          /\ \A i \in 1..n : mid[i] = IF i = p THEN y ELSE efs[i]
      <4>1. efs \in Seq(F) /\ p \in 1..Len(efs) /\ n = Len(efs)
        BY <2>1
      <4> HIDE DEF p, F, n
      <4>2. HasReplaced([efs EXCEPT ![p] = y], F, efs, p, y)
        BY ONLY <3>2, <4>1, ReplacedType
      <4>3. QED
        BY <4>1, <4>2 DEF HasReplaced
    <3>4. p + 1 \in 1..Len(mid) + 1
      BY <1>1, <2>1, <3>3
    <3> HIDE DEF mid
    <3>5. new \in Seq(F)
      <4> DEFINE q == p + 1
      <4>1. mid \in Seq(F) /\ q \in 1..Len(mid) + 1 /\ x \in F
        BY <1>1, <3>3, <3>4
      <4> HIDE DEF x, p, F, q
      <4>2. HasInserted(InsertAt(mid, q, x), F, mid, q, x)
        BY ONLY <4>1, InsertAtType
      <4>3. QED
        BY <3>1, <4>2 DEF HasInserted, q
    <3>6. ASSUME NEW k \in Kinds
          PROVE  /\ L(new, k) = L(mid, k) + Weight(x, k)
                 /\ k \notin x.for => EfWrite(new, {k}) = EfWrite(mid, {k})
      <4> DEFINE q == p + 1
      <4>1. x \in Fields(I, V) /\ mid \in Seq(Fields(I, V)) /\ q \in 1..Len(mid) + 1
        BY <1>1, <3>3, <3>4
      <4> HIDE DEF x, p, q
      <4>2. /\ Len(EfWrite(InsertAt(mid, q, x), {k})) = Len(EfWrite(mid, {k})) + Weight(x, k)
            /\ k \notin x.for => EfWrite(InsertAt(mid, q, x), {k}) = EfWrite(mid, {k})
        BY ONLY <4>1, InsertedWritten
      <4>3. QED
        BY <3>1, <4>2 DEF q
    <3>7. ASSUME NEW k \in Kinds \ flags PROVE EfWrite(mid, {k}) = EfWrite(efs, {k})
      <4>1. AlikeFor(efs, mid, k)
        BY <3>2, <3>3 DEF AlikeFor
      <4>2. mid \in Seq(Fields(I, V))
        BY <3>3
      <4>3. EfWrite(efs, {k}) = EfWrite(mid, {k})
        BY <4>1, <4>2, SameWritten
      <4>4. QED
        BY <4>3
    <3>8. ASSUME NEW k \in flags PROVE L(mid, k) = L(efs, k) - Weight(efs[p], k)
      <4>1. /\ mid \in Seq(Fields(I, V)) /\ efs \in Seq(Fields(I, V))
            /\ p \in 1..Len(efs) /\ SameBut(efs, mid, p)
        BY <2>1, <3>3 DEF SameBut
      <4>2. mid[p] = y /\ Weight(y, k) = 0
        BY <2>1, <3>2, <3>3, <3>8 DEF Weight
      <4>3. L(mid, k) = L(efs, k) - Weight(efs[p], k) + Weight(mid[p], k)
        <5> HIDE DEF p
        <5>1. Exchanges(efs, mid, p, k)
          BY ONLY <4>1, ReplacedLength
        <5>2. QED
          BY <5>1 DEF Exchanges
      <4> HIDE DEF L
      <4>4. k \in Kinds /\ L(efs, k) \in Nat /\ Weight(efs[p], k) \in Nat
        BY <1>3, <2>2, <3>8
      <4> HIDE DEF p
      <4>5. QED
        BY <4>2, <4>3, <4>4
    <3>9. \A k \in flags : L(new, k) = L(efs, k) - Given(efs, ps, which, k) + (Len(vals) + 1)
      <4> HIDE DEF L
      <4>1. QED
        BY <1>2, <2>2, <3>6, <3>8
    <3>10. QED
      BY <3>5, <3>6, <3>7, <3>9
  <2>5. QED
    BY <2>3, <2>4
<1>6. QED
    BY <1>4, <1>5

\* The same, of what EfSet returns.
LEMMA SetMakes ==
    ASSUME NEW I, NEW V, NEW efs \in Seq(Fields(I, V)), NEW id \in I, NEW vals \in Seq(V),
           NEW flags \in SUBSET Kinds, NEW which
    PROVE  HasSet(EfSet(efs, id, which, vals, flags), Fields(I, V), efs,
                  EfPlaces(efs, {id}, flags), which, vals, flags)
<1> DEFINE new == EfSet(efs, id, which, vals, flags)
           ps == EfPlaces(efs, {id}, flags)
<1>1. new = EfSet(efs, id, which, vals, flags) /\ ps = EfPlaces(efs, {id}, flags)
    OBVIOUS
<1> HIDE DEF new, ps
<1>2. HasSet(new, Fields(I, V), efs, ps, which, vals, flags)
    BY <1>1, SetWritten
<1>3. QED
    BY <1>1, <1>2

\* zip_file_extra_field_delete leaves what is written of the other kinds,
\* and no more than before of its own.
LEMMA DeleteWritten ==
    ASSUME NEW I, NEW V, NEW efs \in Seq(Fields(I, V)), NEW ids, NEW which,
           NEW flags \in SUBSET Kinds, NEW new, new = EfDelete(efs, ids, which, flags)
    PROVE  /\ new \in Seq(Fields(I, V))
           /\ \A k \in Kinds \ flags : EfWrite(new, {k}) = EfWrite(efs, {k})
           /\ \A k \in Kinds : Len(EfWrite(new, {k})) <= Len(EfWrite(efs, {k}))
<1> DEFINE F == Fields(I, V)
           n == Len(efs)
           ps == EfPlaces(efs, ids, flags)
           hit == {ps[i] : i \in {i \in DOMAIN ps : which \in {All, i}}}
           cut(ef) == [ef EXCEPT !.for = @ \ flags]
           left == [i \in DOMAIN efs |-> IF i \in hit THEN cut(efs[i]) ELSE efs[i]]
           P == {i \in DOMAIN left : left[i].for # {}}
<1>1. new = Picked(left, P)
    BY DEF EfDelete
<1>2. n \in Nat /\ DOMAIN efs = 1..n /\ \A i \in 1..n : efs[i] \in F
    OBVIOUS
<1> HIDE DEF hit
<1>3. ASSUME NEW i \in 1..n
      PROVE  /\ left[i] \in F /\ left[i].for \subseteq efs[i].for
             /\ EfCells(left[i]) = EfCells(efs[i]) /\ left[i].vals = efs[i].vals
             /\ \A k \in Kinds \ flags : k \in efs[i].for <=> k \in left[i].for
  <2>1. efs[i] \in F /\ left[i] = IF i \in hit THEN cut(efs[i]) ELSE efs[i]
    BY <1>2
  <2>2. /\ cut(efs[i]) \in F /\ cut(efs[i]).for = efs[i].for \ flags
        /\ cut(efs[i]).vals = efs[i].vals /\ cut(efs[i]).id = efs[i].id
    BY <2>1 DEF Fields
  <2>3. EfCells(cut(efs[i])) = EfCells(efs[i])
    BY <2>2 DEF EfCells
  <2> HIDE DEF cut, left, F
  <2>4. QED
    BY <2>1, <2>2, <2>3
<1>4. left \in Seq(F) /\ Len(left) = n
  <2>1. left \in [1..n -> F]
    BY <1>2, <1>3
  <2> HIDE DEF left, F, n
  <2>2. QED
    BY ONLY <1>2, <2>1
<1> HIDE DEF left
<1>5. new \in Seq(F)
    BY <1>1, <1>4, PickedType
<1>6. ASSUME NEW k \in Kinds PROVE EfWrite(new, {k}) = EfWrite(left, {k})
  <2>0. left \in Seq(Fields(I, V))
    BY <1>4
  <2>1. EfWrite(WithKinds(left), {k}) = EfWrite(left, {k})
    <3>1. WrittenAlike(WithKinds(left), left, k)
      BY ONLY <2>0, RemovedWritten
    <3>2. QED
      BY ONLY <3>1 DEF WrittenAlike
  <2>2. QED
    BY <1>1, <2>1 DEF WithKinds
<1>7. ASSUME NEW k \in Kinds \ flags PROVE EfWrite(left, {k}) = EfWrite(efs, {k})
  <2>1. AlikeFor(efs, left, k)
    BY <1>3, <1>4 DEF AlikeFor
  <2>2. left \in Seq(Fields(I, V))
    BY <1>4
  <2>3. EfWrite(efs, {k}) = EfWrite(left, {k})
    BY <2>1, <2>2, SameWritten
  <2>4. QED
    BY <2>3
<1>8. ASSUME NEW k \in Kinds PROVE Len(EfWrite(left, {k})) <= Len(EfWrite(efs, {k}))
  <2>1. \A i \in 1..Len(efs) : Weight(left[i], k) <= Weight(efs[i], k)
    BY <1>2, <1>3 DEF Weight, Fields
  <2>2. Len(left) = Len(efs) /\ left \in Seq(Fields(I, V)) /\ efs \in Seq(Fields(I, V))
    BY <1>4
  <2>3. QED
    BY ONLY <2>1, <2>2, LessWritten
<1>9. QED
    BY <1>5, <1>6, <1>7, <1>8
=============================================================================
