----------------------------- MODULE MCZipRead -----------------------------
(* Three entries with data and an empty one; the second is deflated, the   *)
(* directory gives the third more than it has.                             *)
EXTENDS ZipRead

CONSTANTS r1, r2

MCEntries ==
    <<[method |-> "store", comp |-> 3, size |-> 3, at |-> 0],
      [method |-> "deflate", comp |-> 2, size |-> 4, at |-> 4],
      [method |-> "store", comp |-> 1, size |-> 2, at |-> 7],
      [method |-> "store", comp |-> 0, size |-> 0, at |-> 9]>>

Cells(i, qualities) ==
    <<<<i, 0, "ok">>>> \o [j \in DOMAIN qualities |-> <<i, j, qualities[j]>>]

Fine == Cells(1, <<"ok", "ok", "ok">>) \o Cells(2, <<"ok", "ok">>) \o Cells(3, <<"ok">>) \o Cells(4, <<>>)

A(j) == <<"a", j>>

MCInputs ==
    <<[frags |-> <<<<A(1)>>, <<A(2), A(3)>>>>, comp |-> FALSE, can |-> FALSE, total |-> 0, early |-> FALSE],
      [frags |-> <<<<A(1), A(2), A(3)>>>>, comp |-> TRUE, can |-> TRUE, total |-> 2, early |-> FALSE],
      [frags |-> <<<<A(1)>>, <<A(2)>>>>, comp |-> TRUE, can |-> TRUE, total |-> 2, early |-> TRUE],
      [frags |-> <<<<A(1)>>>>, comp |-> TRUE, can |-> FALSE, total |-> 3, early |-> TRUE],
      [frags |-> <<>>, comp |-> TRUE, can |-> TRUE, total |-> 1, early |-> FALSE]>>

MCSeeks ==
    {[whence |-> "set", offset |-> 0], [whence |-> "set", offset |-> 3],
     [whence |-> "cur", offset |-> -1], [whence |-> "end", offset |-> 0]}

None == [opens |-> {}, ranges |-> {}, inputs |-> {}, reads |-> {1, 2}, seeks |-> MCSeeks]
Entry(i) == [None EXCEPT !.opens = {i}]
Part(i, start, len) == [None EXCEPT !.ranges = {<<i, start, len>>}]
Slowly(u) == [u EXCEPT !.reads = {1}, !.seeks = {}]

Scenario(cells, u1, u2, gets) == [file |-> cells, uses |-> r1 :> u1 @@ r2 :> u2, gets |-> gets]
Damaged(k, q) == [Fine EXCEPT ![k][3] = q]

\* Two readers of sound data, of one entry and of two; one reader of damaged
\* data, and of a file that ends too soon; odd entries; memory.
MCScenarios ==
    {Scenario(Fine, Entry(1), Slowly(Entry(1)), {}), Scenario(Fine, Entry(1), Slowly(Entry(2)), {}),
     Scenario(Fine, Part(1, 1, 2), Slowly(Entry(2)), {}), Scenario(Fine, Entry(1), Slowly(Part(2, 1, 2)), {})}
    \union {Scenario(Fine, Slowly(Entry(2)), None, 1..4)}
    \union {Scenario(Damaged(3, "bad"), u, None, {1}) :
        u \in {Entry(1), Part(1, 0, 0), Part(1, 0, 3), Part(1, 1, 2)}}
    \union {Scenario(Damaged(6, "bad"), u, None, {2}) : u \in {Entry(2), Part(2, 0, 0), Part(2, 3, 0)}}
    \union {Scenario(Damaged(7, q), u, None, {2}) : q \in {"bad", "junk"}, u \in {Entry(2), Part(2, 1, 2)}}
    \union {Scenario(SubSeq(Fine, 1, 3), u, None, {1, 2}) : u \in {Entry(1), Part(1, 1, 2), Part(2, 1, 2)}}
    \union {Scenario(SubSeq(Fine, 1, 6), u, Slowly(Entry(1)), {2}) : u \in {Entry(2), Part(2, 3, 0)}}
    \union {Scenario(Fine, u, None, {}) : u \in {Entry(3), Entry(4), Part(3, 1, 1), Part(2, 0, 4)}}
    \union {Scenario(Fine, [None EXCEPT !.inputs = 1..5], None, {})}
=============================================================================
