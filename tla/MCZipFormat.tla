---------------------------- MODULE MCZipFormat ----------------------------
(***************************************************************************)
(* What is written in the runs of ZipFormat.                               *)
(***************************************************************************)
EXTENDS ZipFormat

Entry == [kind |-> "add", stat |-> 0, actual |-> 0, method |-> "store", stale |-> 0,
          comp |-> 0, uncomp |-> 0, offset |-> 0, name |-> StringNew(<<"a">>, "utf8"), comment |-> NoText,
          efs |-> <<>>, ver |-> 10, force |-> FALSE, nested |-> FALSE]

Written(es) == [ents |-> es, comment |-> <<>>, edits |-> 0]

\* Data of n units, as zip_source_stat says, and data that has become longer
\* since or replaces data that was compressed to s units.
Added(n, m) == [Entry EXCEPT !.stat = n, !.actual = n, !.method = m]
Streamed(n, m) == [Added(n, m) EXCEPT !.stat = Unknown]
Resized(n, a, m) == [Added(n, m) EXCEPT !.actual = a]
Replacing(s, n) == [Added(n, "deflate") EXCEPT !.stale = s, !.comp = s, !.ver = 20]
Outdated(s, n, a) == [Replacing(s, n) EXCEPT !.actual = a]
Copied(c, u) == [Entry EXCEPT !.kind = "copy", !.comp = c, !.uncomp = u, !.ver = 20]

Sizes == {0, 1, M32 - 1 - Growth, M32 - Growth, M32 - 1, M32, M32 + 1}

Larger ==
    {Written(<<Added(n, m)>>) : n \in Sizes, m \in {"store", "deflate"}}
    \cup {Written(<<Streamed(n, m), Added(1, "store")>>) : n \in Sizes, m \in {"store", "deflate"}}
    \cup {Written(<<Resized(n, a, m)>>) : n \in {1, M32 - 1, M32, M32 + 1},
              a \in {1, M32, M32 + 1}, m \in {"store", "deflate"}}
    \cup {Written(<<Replacing(s, n)>>) : s \in {1, M32, M32 + 1}, n \in {1, M32 + 1}}
    \cup {Written(<<Outdated(M32, 1, a)>>) : a \in {1, M32 + 1}}
    \cup {Written(<<Added(n, "store"), [Copied(1, 1) EXCEPT !.ver = v]>>) :
              n \in {M32 - 5, M32 - 3, M32 - 2}, v \in {45, 46, 63}}
    \cup {Written(<<Copied(c, u), Added(1, "store")>>) : c \in {1, M32 - 3, M32, M32 + 1}, u \in {1, M32, M32 + 1}}

More == {Written([i \in 1..n |-> Added(0, "store")]) : n \in {0, M16, M16 + 1, M16 + 2}}
            \cup {Written([i \in 1..2 |-> [Added(0, "store") EXCEPT !.efs =
                     [j \in 1..2 |-> [id |-> "x", vals |-> <<"a">>, for |-> {"central"}]],
                     !.comment = StringNew(<<"x">>, "cp437")]])}

\* What zip_file_add and zip_file_set_comment accept of these texts.
Strings ==
    {t \in {StringNew(v, e) : e \in {"unknown", "utf8", "cp437"},
                v \in {<<"a", "2", "c">>, <<"3", "c", "c", "a">>, <<"a", "4", "c", "c">>, <<"2", "a">>, <<"a">>}} :
        t.enc # "error"}

Texts == {Written(<<[Copied(1, 1) EXCEPT !.name = n, !.comment = c]>>) :
             n \in Strings, c \in Strings \cup {NoText}}

Comments == {<<>>, <<[k |-> "byte"]>>, <<[k |-> "byte"], EmptyEnd>>, <<EmptyEnd, [k |-> "byte"]>>}

Decoys == {[ents |-> es, comment |-> c, edits |-> 0] : c \in Comments,
              es \in {<<>>, <<[Added(2, "store") EXCEPT !.nested = TRUE]>>,
                      <<Added(1, "store"), [Copied(2, 2) EXCEPT !.nested = TRUE]>>}}

Both == [id |-> "x", vals |-> <<"a">>, for |-> {"local", "central"}]

Edited == {[ents |-> <<[e EXCEPT !.efs = fs]>>, comment |-> <<>>, edits |-> 2] :
              e \in {Added(1, "store"), Streamed(1, "deflate")}, fs \in {<<>>, <<Both>>}}

AllScenarios == Larger \cup More \cup Texts \cup Decoys \cup Edited
SmallValues == {<<"a">>, <<"b">>, <<"b", "b">>}
=============================================================================
