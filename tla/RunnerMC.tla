------------------------------ MODULE RunnerMC ------------------------------
(***************************************************************************)
(* The programs the runner is checked on: a loop of three ops with one or  *)
(* two tokens, with a DMA, an air.execute, a nested loop or a partition    *)
(* inside; a channel from the launch to a partition; launches of one and   *)
(* of two iterations.  They follow the shapes of the tests in              *)
(* mlir/test/Util/Runner.                                                  *)
(***************************************************************************)
EXTENDS Runner, SequencesExt, TLC

Op(kind, graph, loop, deps) ==
  [kind |-> kind, graph |-> graph, loop |-> loop, deps |-> deps, ref |-> "", trip |-> 0]
OpOn(kind, graph, loop, deps, ref) == [Op(kind, graph, loop, deps) EXCEPT !.ref = ref]
For(graph, loop, deps, trip) == [Op("for_loop", graph, loop, deps) EXCEPT !.trip = trip]
LaunchBounds ==
  ("start" :> Op("start", "launch", "", <<>>)) @@
  ("end" :> Op("hierarchy_terminator", "launch", "", <<>>))
PartBounds(loop) ==
  ("part_start" :> Op("start", "part", loop, <<>>)) @@
  ("part_end" :> Op("hierarchy_terminator", "part", loop, <<>>))

Record(ops, nodes, launches, slow) ==
  [ops |-> ops, nodes |-> nodes, launches |-> launches,
   latency |-> [v \in (DOMAIN ops) \X {1, 2} |->
                  IF v[1] \in DOMAIN slow /\ v[2] = 1 THEN slow[v[1]] ELSE 1]]

\* What the second op of the loop is, with the ops it brings along.
Second(k, deps) ==
  CASE k = "hierarchy" ->
         ("b2" :> OpOn(k, "launch", "for", deps, "part")) @@ PartBounds("for") @@
         ("x" :> Op("dma", "part", "for", <<>>))
    [] k = "for_loop" ->
         ("b2" :> For("launch", "for", deps, 2)) @@
         ("x" :> Op("dma", "launch", "b2", <<Arg("b2", 1)>>)) @@
         ("y2" :> OpOn("terminator", "launch", "b2", <<Token("x")>>, "b2"))
    [] OTHER -> ("b2" :> Op(k, "launch", "for", deps))

Loop(n, k, d1, d2, d3, y, l, launches) ==
  Record(LaunchBounds @@
         ("a"   :> Op("execute", "launch", "", <<>>)) @@
         ("for" :> For("launch", "", [i \in 1..n |-> Token("a")], 3)) @@
         ("b1"  :> Op("dma", "launch", "for", SetToSeq(d1))) @@
         Second(k, SetToSeq(d2)) @@
         ("b3"  :> Op("dma", "launch", "for", SetToSeq(d3))) @@
         ("y"   :> OpOn("terminator", "launch", "for", y, "for")) @@
         ("z"   :> Op("dma", "launch", "", [i \in 1..n |-> Result("for", i)])),
         IF k = "hierarchy" THEN <<"launch", "part">> ELSE <<"launch">>, launches,
         ("b1" :> l[1]) @@ ("b2" :> l[2]) @@ ("x" :> l[2] + 5) @@ ("b3" :> l[3]))

B1 == Token("b1")
B2(k) == IF k = "for_loop" THEN Result("b2", 1) ELSE Token("b2")
B3 == Token("b3")

\* The dependencies of b2 and b3 in loops whose yield takes b3.
Shapes(k) == {<<{B1}, {B2(k)}>>} \cup
  IF k = "hierarchy" THEN {} ELSE {<<{B1}, {B1, B2(k)}>>, <<{Arg("for", 1)}, {B1, B2(k)}>>}
Latencies == {<<1, 2, 1>>, <<3, 1, 2>>}

SingleToken == UNION {{
  Loop(1, k, {Arg("for", 1)}, d[1], d[2], <<B3>>, l, n) :
    d \in Shapes(k), l \in Latencies, n \in {1, 2}} :
  k \in {"dma", "execute", "hierarchy", "for_loop"}}

\* b1 belongs to the first token, b2 to the second, b3 to either.
TwoTokens == {
  Loop(2, "dma", {Arg("for", 1)}, {Arg("for", 2)}, y[1], y[2], l, 1) :
    y \in {<<{B1}, <<B3, Token("b2")>>>>, <<{Token("b2")}, <<B1, B3>>>>}, 
    l \in Latencies \cup {<<1, 1, 4>>, <<2, 5, 2>>}}

\* Programs the runner does not simulate as they say: the op after a
\* partition also waits for b1, and b3 takes the tokens of two iterations.
Irregular == {
  Loop(1, "hierarchy", {Arg("for", 1)}, {B1}, {B1, Token("b2")}, <<B3>>, <<1, 2, 1>>, 1),
  Loop(2, "dma", {Arg("for", 1)}, {Arg("for", 2)}, {B1, Token("b2")}, <<B1, B3>>, <<1, 2, 1>>, 1)}

\* A put in the launch, a get in the partition, each in a loop of its own.
Channel(put_deps, get_deps, l, launches) ==
  Record(LaunchBounds @@ PartBounds("") @@
         ("w"    :> Op("wait_all", "launch", "", <<>>)) @@
         ("for"  :> For("launch", "", <<Token("w")>>, 2)) @@
         ("b"    :> Op("execute", "launch", "for", <<Arg("for", 1)>>)) @@
         ("put"  :> Op("put", "launch", "for", put_deps)) @@
         ("y"    :> OpOn("terminator", "launch", "for", <<Token("put")>>, "for")) @@
         ("part" :> OpOn("hierarchy", "launch", "", <<>>, "part")) @@
         ("for2" :> For("part", "", <<Token("w2")>>, 2)) @@
         ("w2"   :> Op("wait_all", "part", "", <<>>)) @@
         ("get"  :> OpOn("get", "part", "for2", get_deps, "put")) @@
         ("y2"   :> OpOn("terminator", "part", "for2", <<Token("get")>>, "for2")),
         <<"launch", "part">>, launches, ("put" :> l[1]) @@ ("get" :> l[2]) @@ ("b" :> l[1]))
ChannelPrograms ==
  {Channel(d[1], d[2], l, n) :
     d \in {<<<<Token("b")>>, <<Arg("for2", 1)>>>>, <<<<Token("b"), Arg("for", 1)>>, <<Arg("for2", 1)>>>>},
     l \in {<<1, 1>>, <<1, 3>>, <<3, 1>>}, n \in {1, 2}}

Progs == SingleToken \cup TwoTokens \cup Irregular \cup ChannelPrograms
=============================================================================
