------------------------------ MODULE HerdRunMC ------------------------------
(***************************************************************************)
(* Programs for HerdRun, each the smallest that shows one thing.           *)
(***************************************************************************)
EXTENDS HerdRun

in(i, b) == [op |-> "dma", id |-> i, dir |-> "in", buf |-> b]
out(i, b) == [op |-> "dma", id |-> i, dir |-> "out", buf |-> b]
work(n, rs, b) == [op |-> "work", name |-> n, reads |-> rs, buf |-> b]
dealloc(b) == [op |-> "dealloc", buf |-> b]
for(n, b) == [op |-> "for", trip |-> n, body |-> b]
execute(b) == [op |-> "execute", body |-> b]
if(s, n, t, e) == [op |-> "if", set |-> s, constraints |-> n, then |-> t, else |-> e]
put(d, b) == [op |-> "put", dst |-> d, buf |-> b]
get(b) == [op |-> "get", buf |-> b]

herd(n, r, c, b) ==
  [name |-> n, rows |-> r, cols |-> c, placed |-> FALSE, offset |-> <<0, 0>>, body |-> b]
placedHerd(n, r, c, at, b) == [herd(n, r, c, b) EXCEPT !.placed = TRUE, !.offset = at]
partition(n, r, c, hs) ==
  [op |-> TRUE, named |-> TRUE, name |-> n, rows |-> r, cols |-> c,
   row_offset |-> 2, col_offset |-> 1, herds |-> hs]
alone(h) ==
  [op |-> FALSE, named |-> TRUE, name |-> <<0>> \o h.name, rows |-> Unset, cols |-> Unset,
   row_offset |-> Unset, col_offset |-> Unset, herds |-> <<h>>]
program(ps, n, w) ==
  [parts |-> ps, launches |-> n, emit_while |-> w, clNumRows |-> 2, clNumCols |-> 2,
   clAnchorPointRow |-> 2, clAnchorPointCol |-> 1]

copies == <<in(1, "a"), work("f", <<"a">>, "b"), out(2, "b")>>
freeing == <<in(1, "a"), work("f", <<"a">>, "b"), dealloc("a"), out(2, "b"), dealloc("b")>>
threeIn == <<for(2, <<in(1, "a"), in(2, "b"), in(3, "c"), work("f", <<"a", "b", "c">>, "d"), out(4, "d")>>)>>
byColumn(n) ==
  <<in(1, "a"), execute(<<if({<<0, 0>>}, n, <<work("f", <<"a">>, "b")>>, <<work("g", <<"a">>, "b")>>)>>),
    out(2, "b")>>
stages(n) ==
  <<if({<<0, 0>>}, 2,
       <<for(n, <<in(1, "a"), work("f", <<"a">>, "b"), put(<<1, 0>>, "b")>>)>>,
       <<for(n, <<get("c"), work("g", <<"c">>, "d"), out(2, "d")>>)>>)>>
ids(b, n) == [i \in 1..Len(b) |-> IF b[i].op = "dma" THEN [b[i] EXCEPT !.id = @ + n] ELSE b[i]]

\* The allocators share channels over a herd of several columns.
Square == program(<<alone(herd(<<1>>, 2, 2, freeing))>>, 1, FALSE)
Channels == program(<<alone(herd(<<1>>, 1, 2, threeIn))>>, 1, FALSE)
Branches == program(<<alone(herd(<<1>>, 1, 2, byColumn(2)))>>, 1, FALSE)
Pipeline == program(<<alone(herd(<<1>>, 1, 2, stages(3)))>>, 1, FALSE)
\* Herds of different shapes, of which the last written is placed first; a
\* second launch loads the partition again.
Shapes ==
  program(<<partition(<<1>>, 2, 2, <<herd(<<1>>, 1, 1, copies), herd(<<2>>, 2, 1, ids(freeing, 4))>>)>>, 2, FALSE)
\* Three herds, one after the other, in partitions of their own.
Alternate ==
  program(<<alone(herd(<<1>>, 1, 2, copies)), partition(<<2>>, 1, 1, <<herd(<<2>>, 1, 1, freeing)>>),
            alone(placedHerd(<<3>>, 1, 1, <<5, 5>>, copies))>>, 2, FALSE)
Again == program(<<alone(herd(<<1>>, 1, 1, copies))>>, 3, TRUE)
\* The last herd finds no room: what is free is not in one row.
Crowded ==
  program(<<partition(<<1>>, 2, 4, <<herd(<<1>>, 1, 3, copies), herd(<<2>>, 2, 1, ids(copies, 4)),
                                     herd(<<3>>, 1, 2, ids(copies, 8)), herd(<<4>>, 1, 2, ids(copies, 12))>>)>>,
          1, FALSE)
\* Programs that are not regular.
Unevaluated == program(<<alone(herd(<<1>>, 1, 2, byColumn(1)))>>, 1, FALSE)
Prefix == program(<<alone(herd(<<1>>, 1, 1, copies)), alone(herd(<<1, 0>>, 1, 1, copies))>>, 1, FALSE)
Backwards ==
  program(<<alone(herd(<<1>>, 1, 1, <<work("f", <<>>, "b"), out(2, "b"), in(1, "a"), work("g", <<"a">>, "c")>>))>>,
          1, FALSE)

MCModules ==
  {Square, Channels, Branches, Pipeline, Shapes, Alternate, Again, Crowded, Unevaluated, Prefix, Backwards}
MCBuffers == {"a", "b", "c", "d"}
MCKernels == {"f", "g"}
MCArray == (0..5) \X (0..5)
=============================================================================
