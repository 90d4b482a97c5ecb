-------------------------- MODULE AirDependencyMC --------------------------
(***************************************************************************)
(* The programs the dependency passes are checked on: three ops on the     *)
(* memrefs A and B, of every kind, in loops, parallel loops and hierarchy  *)
(* ops nested in each other.  And those the schedule passes are checked    *)
(* on: herds that multiply tiles, and herds that accumulate in a buffer of *)
(* the memory above them.                                                  *)
(***************************************************************************)
EXTENDS AirChannels

\* A nest is a sequence of <<name, kind, parent>> in post-order.
Nests ==
  LET s(i, in) == <<i, "slot", in>>
      f(n, in) == <<n, "for", in>>
      p(n, in) == <<n, "parallel", in>>
      h(n, in) == <<n, "hier", in>>
      alloc(n, in) == <<n, "alloc", in>>
      free(in) == <<"free", "dealloc", in>>
      i(n, in) == <<n, "apply", in>> IN
  {<<s("1", ""), s("2", ""), s("3", "")>>,
   <<s("1", ""), s("2", "f"), s("3", "f"), f("f", "")>>,
   <<s("1", "f"), s("2", "g"), f("g", "f"), s("3", "f"), f("f", "")>>,
   <<s("1", "f"), f("f", ""), s("2", "g"), f("g", ""), s("3", "")>>,
   <<s("1", "p"), s("2", "p"), p("p", "f"), s("3", "f"), f("f", "")>>,
   <<s("1", "g"), f("g", "p"), p("p", "f"), s("2", "f"), f("f", ""), s("3", "")>>,
   <<s("1", ""), s("2", "h"), h("h", ""), s("3", "k"), h("k", "")>>,
   <<s("1", "h"), s("2", "h"), h("h", "f"), s("3", "f"), f("f", "")>>,
   <<s("1", "k"), h("k", "h"), s("2", "h"), h("h", ""), s("3", "")>>,
   <<s("1", "f"), f("f", "h"), s("2", "p"), p("p", "h"), h("h", ""), s("3", "")>>,
   <<alloc("A", ""), s("1", ""), i("i", "f"), s("2", "f"), s("3", "f"), f("f", ""), free("")>>,
   <<alloc("A", "f"), s("1", "f"), s("2", "p"), p("p", "f"), s("3", "f"), free("f"), f("f", "")>>,
   <<alloc("C", ""), i("j", ""), alloc("A_h", "h"), s("1", "h"), s("2", "f"), f("f", "h"),
     free("h"), h("h", ""), s("3", "")>>}

\* A memref as the ops in hierarchy op h name it.
Local(m, h) == IF h = "" THEN m ELSE m \o "_" \o h

Tile(m, x) == [m |-> m, x |-> x]
\* The kinds of op a slot takes, and their tiles of A and of B.
Accesses == {
  [k |-> "dma",    ins |-> <<"A", "i">>, outs |-> <<"B", "">>],
  [k |-> "dma",    ins |-> <<"B", "">>,  outs |-> <<"A", "j">>],
  [k |-> "linalg", ins |-> <<"B", "">>,  outs |-> <<"A", "">>],
  [k |-> "linalg", ins |-> <<"A", "">>,  outs |-> <<"B", "">>],
  [k |-> "put",    ins |-> <<"A", "j">>, outs |-> <<>>],
  [k |-> "get",    ins |-> <<>>,         outs |-> <<"A", "i">>],
  [k |-> "other",  ins |-> <<>>,         outs |-> <<"A", "">>]}

Program(nest, slot) ==
  LET names == {nest[i][1] : i \in DOMAIN nest}
      of[n \in names] == nest[CHOOSE i \in DOMAIN nest : nest[i][1] = n]
      around[n \in names] ==
        IF of[n][3] = "" THEN <<>> ELSE Append(around[of[n][3]], of[n][3])
      hiers == {n \in names : of[n][2] = "hier"}
      hierOf[n \in names] ==
        LET hs == SelectSeq(around[n], LAMBDA q : q \in hiers)
        IN  IF hs = <<>> THEN "" ELSE Last(hs)
      tiles(n, t) == IF t = <<>> THEN {} ELSE {Tile(Local(t[1], hierOf[n]), t[2])}
      ins(n)  == IF of[n][2] = "slot" THEN tiles(n, slot[n].ins) ELSE {}
      outs(n) == CASE of[n][2] = "slot"    -> tiles(n, slot[n].outs)
                   [] of[n][2] = "alloc"   -> {Tile(n, "")}
                   [] of[n][2] = "dealloc" -> tiles(n, <<"A", "">>)
                   [] OTHER -> {}
      passed == {q \in {"A", "B"} \X hiers : Local(q[1], q[2]) \notin names}
  IN  [index |-> <<>>, scalar |-> <<>>, size |-> <<>>, unread |-> {}, range |-> <<>>, select |-> <<>>, link |-> <<>>,
       order |-> [i \in DOMAIN nest |-> nest[i][1]],
       op    |-> [n \in names |->
                    [kind |-> IF of[n][2] = "slot" THEN slot[n].k ELSE of[n][2],
                     around |-> around[n], ins |-> ins(n), outs |-> outs(n)]],
       args  |-> [a \in {Local(q[1], q[2]) : q \in passed} |->
                    LET q == CHOOSE r \in passed : Local(r[1], r[2]) = a
                    IN  [hier |-> q[2], of |-> Local(q[1], hierOf[q[2]])]]]

Plain == {Program(n, s) : n \in Nests, s \in [{"1", "2", "3"} -> Accesses]}

-----------------------------------------------------------------------------
(***************************************************************************)
(* Tiled programs: a sequence of records with an op's name n, kind k, the  *)
(* op it is in, and the tiles it reads (r) and writes (w).                 *)
(***************************************************************************)
line(n, k, in, r, w) == [n |-> n, k |-> k, in |-> in, r |-> r, w |-> w]
dma(n, in, src, dst) == line(n, "dma", in, {src}, {dst})
alloc(n, in) == line(n, "alloc", in, {}, {Tile(n, "")})
free(n, in) == line("free " \o n, "dealloc", in, {}, {Tile(n, "")})

Scalar == [row |-> [fn |-> "id", args |-> <<>>, by |-> 1],
           col |-> [fn |-> "id", args |-> <<>>, by |-> 2],
           kv |-> [fn |-> "iv", args |-> <<"k">>, by |-> 0],
           n0 |-> [fn |-> "const", args |-> <<>>, by |-> 0],
           n3 |-> [fn |-> "const", args |-> <<>>, by |-> 3],
           rx |-> [fn |-> "apply", args |-> <<"row">>, by |-> 2],
           cx |-> [fn |-> "muli", args |-> <<"n3", "col">>, by |-> 0],
           cy |-> [fn |-> "addi", args |-> <<"cx", "n3">>, by |-> 0],
           rc |-> [fn |-> "addi", args |-> <<"row", "row">>, by |-> 0],
           kx |-> [fn |-> "apply", args |-> <<"kv">>, by |-> 2]]
\* Where a scalar op is, if it is one.
ScalarOpsOf(h, loop) ==
  LET at(n) == IF n = "kx" THEN loop ELSE h
  IN  [n \in {"rx", "cx", "cy", "rc", "kx"} |-> line(n, "apply", at(n), {}, {})]

Build(lines, args, size, index, unread) ==
  LET names == {lines[i].n : i \in DOMAIN lines}
      of[n \in names] == lines[CHOOSE i \in DOMAIN lines : lines[i].n = n]
      around[n \in names] == IF of[n].in = "" THEN <<>> ELSE Append(around[of[n].in], of[n].in)
  IN  [order |-> [i \in DOMAIN lines |-> lines[i].n],
       op    |-> [n \in names |-> [kind |-> of[n].k, around |-> around[n], ins |-> of[n].r, outs |-> of[n].w]],
       args  |-> args, index |-> index, scalar |-> Scalar, size |-> size, unread |-> unread,
       range |-> <<>>, select |-> <<>>, link |-> <<>>]

\* The scalar ops of the indices in xs that are in the body of b, in order.
Computed(xs, b) ==
  LET used == UNION {ToSet(x) : x \in xs}
      all  == used \cup (IF "cy" \in used THEN {"cx"} ELSE {})
  IN  [i \in 1..Len(SelectSeq(<<"rx", "cx", "cy", "rc", "kx">>, LAMBDA n : n \in all /\ ScalarOpsOf("h", "k")[n].in = b)) |->
         ScalarOpsOf("h", "k")[SelectSeq(<<"rx", "cx", "cy", "rc", "kx">>,
                                 LAMBDA n : n \in all /\ ScalarOpsOf("h", "k")[n].in = b)[i]]]

\* A herd that multiplies a tile of A and one of B, accumulates in one of C
\* or overwrites it, in a loop; if again, in another loop t around the herd,
\* and the tile of B is brought in before the loop.
Matmul(size, a, b, c, unread, again) ==
  LET bIn == <<alloc("b", IF again THEN "h" ELSE "k"),
               dma("B>", IF again THEN "h" ELSE "k", Tile("B_h", "b"), Tile("b", ""))>>
      bOut == <<free("b", IF again THEN "h" ELSE "k")>>
      only(cond, s) == IF cond THEN s ELSE <<>>
  IN
  Build(Computed({a, b, c}, "h") \o only(again, bIn) \o Computed({a, b, c}, "k") \o
        <<alloc("a", "k"), dma("A>", "k", Tile("A_h", "a"), Tile("a", ""))>> \o only(~again, bIn) \o
        <<alloc("c", "k"), dma("C>", "k", Tile("C_h", "c"), Tile("c", "")),
          line("mul", "linalg", "k", {Tile("a", ""), Tile("b", "")}, {Tile("c", "")}),
          dma("C<", "k", Tile("c", ""), Tile("C_h", "c")), free("a", "k"), free("c", "k")>> \o only(~again, bOut) \o
        <<line("k", "for", "h", {}, {})>> \o only(again, bOut) \o
        <<line("h", "hier", IF again THEN "t" ELSE "", {}, {})>> \o only(again, <<line("t", "for", "", {}, {})>>),
        [m \in {"A_h", "B_h", "C_h"} |->
           [hier |-> "h", of |-> IF m = "A_h" THEN "A" ELSE IF m = "B_h" THEN "B" ELSE "C"]],
        [h \in {"h"} |-> size], [x \in {"a", "b", "c"} |-> IF x = "a" THEN a ELSE IF x = "b" THEN b ELSE c],
        IF unread THEN {<<"mul", "c">>} ELSE {})

\* A herd in a loop that copies a tile of B to one of C, changed.
Once(b, c) ==
  Build(Computed({b, c}, "h") \o
        <<alloc("b", "h"), dma("B>", "h", Tile("B_h", "b"), Tile("b", "")), alloc("c", "h"),
          line("mul", "linalg", "h", {Tile("b", "")}, {Tile("c", "")}),
          dma("C<", "h", Tile("c", ""), Tile("C_h", "c")), free("b", "h"), free("c", "h"),
          line("h", "hier", "t", {}, {}), line("t", "for", "", {}, {})>>,
        [m \in {"B_h", "C_h"} |-> [hier |-> "h", of |-> IF m = "B_h" THEN "B" ELSE "C"]],
        [h \in {"h"} |-> <<2, 2>>], [x \in {"b", "c"} |-> IF x = "b" THEN b ELSE c], {<<"mul", "c">>})

\* A herd that accumulates in a tile of C by way of a buffer L outside of
\* it, in a loop of a partition or, if outer is "", of the function; the tile
\* is copied to D as well if peek.
Accumulate(x, unread, peek, outer) ==
  Build(<<alloc("L", "k"), dma("C>", "k", Tile(Local("C", outer), "x"), Tile("L", ""))>> \o
        (IF peek THEN <<alloc("P", "k"), dma("P>", "k", Tile(Local("C", outer), "x"), Tile("P", "")),
                        dma("P<", "k", Tile("P", ""), Tile(Local("D", outer), "x")), free("P", "k")>> ELSE <<>>) \o
        <<alloc("l", "h"), dma("L>", "h", Tile("L_h", ""), Tile("l", "")),
          line("add", "linalg", "h", {Tile("A_h", "x")}, {Tile("l", "")}),
          dma("L<", "h", Tile("l", ""), Tile("L_h", "")), free("l", "h"),
          line("h", "hier", "k", {}, {}),
          dma("C<", "k", Tile("L", ""), Tile(Local("C", outer), "x")), free("L", "k"), line("k", "for", outer, {}, {})>>
        \o (IF outer = "" THEN <<>> ELSE <<line(outer, "hier", "", {}, {})>>),
        [m \in {"A_h", "L_h"} |-> [hier |-> "h", of |-> IF m = "A_h" THEN Local("A", outer) ELSE "L"]]
        @@ (IF outer = "" THEN <<>> ELSE [m \in {Local(n, outer) : n \in {"A", "C", "D"}} |->
              [hier |-> outer, of |-> CHOOSE n \in {"A", "C", "D"} : Local(n, outer) = m]]),
        [h \in {"h"} |-> <<1, 1>>], [y \in {"x"} |-> x],
        IF unread THEN {<<"add", "l">>} ELSE {})

TiledProgs ==
  LET sizes == {<<1, 2>>, <<2, 2>>, <<3, 2>>}
      as == {<<"rx", "kv">>, <<"row", "kx">>, <<"rc", "n0">>}
      bs == {<<"kv", "cx">>, <<"n0", "cy">>, <<"col", "kv">>}
      cs == {<<"rx", "cx">>, <<"row", "kv">>, <<"kx", "col">>}
  IN  {Matmul(size, a, b, <<"rx", "cx">>, FALSE, FALSE) : size \in sizes, a \in as, b \in bs}
      \cup {Matmul(<<2, 2>>, <<"row", "kv">>, <<IF again THEN "n0" ELSE "kv", "cy">>, c, u, again) :
              c \in cs, u \in BOOLEAN, again \in BOOLEAN}
      \cup {Accumulate(x, u, peek, "s") : x \in {<<"n0", "n0">>, <<"kv", "n0">>}, u \in BOOLEAN, peek \in BOOLEAN}
      \cup {Accumulate(<<"n0", "n0">>, FALSE, FALSE, ""), Once(<<"n0", "cy">>, <<"rx", "cx">>),
            Once(<<"n0", "cy">>, <<"rx", "col">>)}
Progs == Plain \cup TiledProgs
=============================================================================
