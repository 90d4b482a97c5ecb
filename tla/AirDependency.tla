--------------------------- MODULE AirDependency ---------------------------
(***************************************************************************)
(* The air-dependency pass (src/mlir/lib/Transform/AIRDependency.cpp): it  *)
(* makes every op of a sequential program asynchronous, traces what each   *)
(* depends on, reduces the dependency graph, and carries the tokens        *)
(* through the loops.                                                      *)
(*                                                                         *)
(* The pass compares tile indices by name.  A memref.subview is not        *)
(* modelled.                                                               *)
(***************************************************************************)
EXTENDS AsyncProgram

CONSTANT Programs

VARIABLES
  program,  \* the input
  walked,   \* how many ops of program.order the current traversal has seen
  phase,    \* "trace", "carry", "done", and what the passes do that come after
  edges,    \* asyncExecuteGraph: pairs of an op and one that depends on it
  deps      \* the async dependencies of every async op

vars == <<program, walked, phase, edges, deps>>

TypeOK ==
  /\ walked \in 0..Len(program.order)
  /\ phase \in {"trace", "carry", "done", "parsed", "erased", "canonical",
               "hoisted", "detected", "pruned", "specialized",
               "converting", "converted", "channels", "failed"}
  /\ edges \subseteq AsyncOps(program) \X AsyncOps(program)
  /\ DOMAIN deps = AsyncVertices(program)

Current == program.order[walked + 1]
\* The ops the traversal has seen: *_op_history.
History == {program.order[i] : i \in 1..walked} \cap AsyncOps(program)

-----------------------------------------------------------------------------
(***************************************************************************)
(* Dependency tracing                                                      *)
(***************************************************************************)
Whole(tiles) == {[m |-> t.m, x |-> ""] : t \in tiles}

\* What an op is taken to read and to write.
MemrefReads(o) ==
  LET r == program.op[o] IN
  CASE r.kind \in {"dma", "put"} -> r.ins
    [] r.kind \in {"linalg", "copy", "dealloc", "other"} -> Whole(r.ins \cup r.outs)
    [] OTHER -> {}
MemrefWrites(o) ==
  LET r == program.op[o] IN
  CASE r.kind \in {"dma", "get"} -> r.outs
    [] r.kind = "other" -> Whole(r.ins \cup r.outs)
    [] r.kind \in {"linalg", "copy", "dealloc", "alloc"} -> Whole(r.outs)
    [] OTHER -> {}

PassedTo(h) == {a \in DOMAIN program.args : program.args[a].hier = h}

Uses(o, m) ==
  IF Kind(program, o) = "hier" THEN \E a \in PassedTo(o) : program.args[a].of = m
  ELSE Kind(program, o) # "alloc" /\ \E t \in Touches(program, o) : t.m = m

\* A kernel argument is read only if all its uses are reads; a use as the
\* output of a linalg op counts as a read, one that is not known as a write.
checkOperandReadOrWrite(a) ==
  LET users == {o \in AsyncOps(program) : Uses(o, a)}
      reads(o) ==
        CASE Kind(program, o) \in {"dma", "put", "get"} ->
               \A t \in program.op[o].outs : t.m # a
          [] OTHER -> Kind(program, o) = "linalg"
  IN  IF users # {} /\ \A o \in users : reads(o) THEN "r" ELSE "w"

areEqualIndicesMutant(x, y) == x = y \* mutant: no index is not the whole memref
areEqualIndices(x, y) == x = "" \/ y = "" \/ x = y

\* The uses of a tile that make a later op wait: any use, or in mode "w"
\* only one that writes.  By a dma, a put or a get, with indices:
IndexedUse(o, tile, mode) ==
  \E t \in IF mode = "w" THEN program.op[o].outs ELSE Touches(program, o) :
    t.m = tile.m /\ areEqualIndices(t.x, tile.x)
LinalgUse(o, tile, mode) ==
  \E t \in IF mode = "w" THEN program.op[o].outs ELSE Touches(program, o) : t.m = tile.m
HierarchyUse(o, tile, mode) ==
  \E a \in PassedTo(o) : /\ program.args[a].of = tile.m
                         /\ mode = "n" \/ checkOperandReadOrWrite(a) = "w"

UsedBy(o, tile, mode) ==
  /\ Uses(o, tile.m)
  /\ CASE Kind(program, o) \in {"dma", "put", "get"} -> IndexedUse(o, tile, mode)
       [] Kind(program, o) = "linalg" -> LinalgUse(o, tile, mode)
       [] Kind(program, o) = "hier"   -> HierarchyUse(o, tile, mode)
       [] OTHER -> TRUE

pushDepsAtCurrentScope(tile, mode) == {o \in History : UsedBy(o, tile, mode)}

pushDefiningOpAsDep(tile) == {tile.m} \cap History

\* The dependencies found for one tile of a sink, and those found for the
\* hierarchy ops around it that the memref is passed to.
traceDeps(sink, tile, mode) ==
  LET hop[k \in 0..3] ==
        IF k = 0 THEN <<sink, tile>>
        ELSE IF hop[k-1][2].m \in DOMAIN program.args
             THEN LET a == program.args[hop[k-1][2].m]
                  IN  <<a.hier, [m |-> a.of, x |-> ""]>>
             ELSE hop[k-1]
  IN  UNION {{<<o, hop[k][1]>> :
                o \in pushDefiningOpAsDep(hop[k][2]) \cup pushDepsAtCurrentScope(hop[k][2], mode)} :
             k \in 0..3}

traceTileIndices(o) ==
  (ScalarIns(program, o) \cap History) \X {o}

TracedEdges(o) ==
  UNION {traceDeps(o, t, "w") : t \in MemrefReads(o)}
  \cup UNION {traceDeps(o, t, "n") : t \in MemrefWrites(o)}
  \cup traceTileIndices(o)

Advance == walked' = walked + 1

\* A hierarchy op only joins the history; a loop is not an async op yet.
Trace ==
  /\ phase = "trace" /\ walked < Len(program.order)
  /\ edges' = IF Current \in Leaves(program) THEN edges \cup TracedEdges(Current) ELSE edges
  /\ Advance
  /\ UNCHANGED <<program, phase, deps>>

\* The edges of a graph without the ones another path stands for.
TransitiveReduction(E) ==
  LET paths == Closure(E)
  IN  {e \in E : ~\E d \in E : d[2] = e[2] /\ <<e[1], d[1]>> \in paths}

fillAIRDepListUsingGraphTR(tr) ==
  [v \in AsyncVertices(program) |->
     IF v[2] = "op" THEN {Op(e[1]) : e \in {d \in tr : d[2] = v[1]}} ELSE {}]

\* The third traversal fills the dependency lists from the reduced graph.
Reduce ==
  /\ phase = "trace" /\ walked = Len(program.order)
  /\ deps' = fillAIRDepListUsingGraphTR(TransitiveReduction(edges))
  /\ phase' = "carry" /\ walked' = 0
  /\ UNCHANGED <<program, edges>>

-----------------------------------------------------------------------------
(***************************************************************************)
(* Loop-carried dependencies: the fourth traversal, innermost loops first  *)
(***************************************************************************)
isNotLoopCarriedOp(v) == v[2] = "op" /\ Kind(program, v[1]) \in {"alloc", "dealloc"}

\* The async ops in the body of a loop f, and the loops, themselves carried.
BodyOps(f) ==
  {v \in AsyncVertices(program) :
     IF v[2] = "end" THEN v[1] = f ELSE Parent(program, v[1]) = f}
BodyLoops(f) == {g \in Loops(program) : Parent(program, g) = f}
Region(f) == {v \in AsyncVertices(program) : v = End(f) \/ f \in Around(program, v[1])}

\* A child loop uses its begin token as its initial value.
isOnlyUsedByNoLoopCarryOpsInBlock(t, f) ==
  /\ \A v \in BodyOps(f) : t \in deps[v] => isNotLoopCarriedOp(v)
  /\ t[2] # "begin"

YieldedTokens(f) ==
  {t \in {v \in BodyOps(f) \ {End(f)} : ~isNotLoopCarriedOp(v)} \cup
         {<<g, "result">> : g \in BodyLoops(f)} : isOnlyUsedByNoLoopCarryOpsInBlock(t, f)}

\* Where a token is defined: a loop's result and its begin are outside of it.
DefinedIn(t, f) == (t[1] = f /\ t[2] \in {"arg", "end"}) \/ f \in Around(program, t[1])
IncomingTokens(f) == {t \in UNION {deps[v] : v \in Region(f)} : ~DefinedIn(t, f)}

\* What the ops in the body use for what comes from before the loop.
RegionToken(f) == IF Kind(program, f) = "for" THEN <<f, "arg">> ELSE Begin(f)

ReplaceLoop(f, d) ==
  LET in == IncomingTokens(f)
      renamed(v) == IF d[v] \cap in = {} THEN d[v] ELSE (d[v] \ in) \cup {RegionToken(f)}
      \* the ops that are given the region's token if they have not got it
      joins(v) == IF Kind(program, f) = "for" THEN v \in BodyOps(f) /\ ~isNotLoopCarriedOp(v)
                  ELSE v \in BodyOps(f) /\ v[2] = "op" /\ renamed(v) = {}
  IN  [v \in DOMAIN d |->
         IF v = Begin(f) THEN in
         ELSE IF v \in Region(f)
              THEN renamed(v) \cup (IF joins(v) THEN {RegionToken(f)} ELSE {})
              ELSE d[v]]

elevateAsyncTokensMutant(f, d) == d \* mutant: the tokens of the body leave it
\* Outside of the loop, its result stands for the tokens of its body.
elevateAsyncTokens(f, d) ==
  LET sources == BodyOps(f) \cup {<<g, "result">> : g \in BodyLoops(f)}
  IN  [v \in DOMAIN d |->
         IF v \in Region(f) \/ d[v] \cap sources = {} THEN d[v]
         ELSE (d[v] \ sources) \cup {<<f, "result">>}]

insertLoopCarriedDeps(f) ==
  elevateAsyncTokens(f, ReplaceLoop(f, [deps EXCEPT ![End(f)] = YieldedTokens(f)]))

Carry ==
  /\ phase = "carry" /\ walked < Len(program.order)
  /\ deps' = IF Current \in Loops(program) THEN insertLoopCarriedDeps(Current) ELSE deps
  /\ Advance
  /\ UNCHANGED <<program, phase, edges>>

Finish ==
  /\ phase = "carry" /\ walked = Len(program.order)
  /\ phase' = "done"
  /\ UNCHANGED <<program, walked, edges, deps>>

Init ==
  /\ program \in Programs
  /\ walked = 0
  /\ phase = "trace"
  /\ edges = {}
  /\ deps = [v \in AsyncVertices(program) |-> {}]

Next == Trace \/ Reduce \/ Carry \/ Finish
Spec == Init /\ [][Next]_vars

-----------------------------------------------------------------------------
\* Every use of a token is in the scope the token is defined in.
InScope ==
  \A v \in AsyncVertices(program) : \A t \in deps[v] :
    \/ /\ t[2] \in {"op", "begin", "result"} /\ t[1] \in Ops(program)
       /\ Around(program, t[1]) \subseteq Around(program, v[1])
            \cup (IF v[2] = "end" THEN {v[1]} ELSE {})
    \/ t[2] = "arg" /\ t[1] \in LoopsAround(program, v)

\* No kernel argument is only written as the output of linalg ops: the pass
\* takes the hierarchy op for a reader of one that is.
WritesSeen(p) ==
  \A a \in DOMAIN p.args : checkOperandReadOrWrite(a) = "w" \/
    \A o \in Leaves(p) : \A t \in p.op[o].outs : t.m # a
\* No loop is in a parallel loop in an scf.for: the wait_all before it would
\* not be given the token of the iteration.
BodiesConnected(p) ==
  \A g \in Loops(p) : \A f \in Around(p, g) :
    Kind(p, f) = "parallel" => \A e \in Around(p, f) : Kind(p, e) # "for"

\* Every two conflicting events are ordered as in the sequential program.
InOrder ==
  WritesSeen(program) /\ BodiesConnected(program) =>
    MustPrecede(program) \subseteq Before(program, deps)
=============================================================================
