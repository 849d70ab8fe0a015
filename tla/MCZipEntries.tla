---------------------------- MODULE MCZipEntries ----------------------------
(* Instances of ZipEntries for TLC.                                        *)
EXTENDS ZipEntries

\* Two names share a bucket of a small table and part when it grows.
HashValues == [n \in Names |-> CASE n = "a" -> 1 [] n = "b" -> 3 [] OTHER -> 2]

\* A new archive, and archives that leave room for entries to be added.
SomeArchives == {<<>>, <<"a">>, <<"a", "b">>, <<"d/", "a">>}

\* Opened is what adding the names one after the other comes to.
OneByOne(ns) ==
    LET h0 == [size |-> IF ns = <<>> THEN 0 ELSE SizeFor(Len(ns)), ent |-> <<>>]
        after[k \in 0..Len(ns)] ==
            IF k = 0 THEN h0 ELSE HashAdd(after[k - 1], ns[k], k, TRUE)
    IN  after[Len(ns)]

ASSUME OpenedAssumption ==
    \A k \in 0..3 : \A ns \in [1..k -> Names] :
        (\A i, j \in 1..k : ns[i] = ns[j] => i = j) => Opened(ns) = OneByOne(ns)

\* A caller sets one field besides the names; a name and a field together
\* make the cases in which one change is taken back and another remains.
OneField ==
    [api : {"libzip"}, sets : {{"method"}, {"mtime"}, {"attr"}, {"comment"}}]
        \cup [api : {"ZipArchive"}, sets : {{}}]
=============================================================================
