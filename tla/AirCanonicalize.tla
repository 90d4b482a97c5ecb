-------------------------- MODULE AirCanonicalize --------------------------
(***************************************************************************)
(* The air-dependency-canonicalize pass on the asynchronous program that   *)
(* other passes leave: for every graph of it the pass takes the transitive *)
(* reduction, rewrites the dependency lists from it, and removes the       *)
(* executes and wait_alls that are not needed                              *)
(* (AIRDependencyCanonicalize.cpp, and dependencyCanonicalizer in          *)
(* mlir/lib/Util/Dependency.cpp).                                          *)
(***************************************************************************)
EXTENDS AirDependency

VARIABLES
  traced,   \* the dependencies air-dependency left
  live      \* the async ops that are still there

cvars == <<vars, traced, live>>

\* The vertices of the graphs: async ops, loops and their terminators.
\* traceOpFromToken: the initial value of a parallel loop and an iteration
\* argument stand for the loop, a result for its terminator.
getParallelRegionInitValsOwner(v, t) ==
  {f \in LoopsAround(program, v) :
     /\ Kind(program, f) = "parallel" /\ t = Begin(f)
     /\ ~\E g \in LoopsAround(program, v) : Kind(program, g) = "parallel" /\ f \in Around(program, g)}
traceOpFromTokenMutant(v, t) == \* mutant: the result of a loop stands for the loop
  IF t[2] \in {"arg", "result"} \/ getParallelRegionInitValsOwner(v, t) # {} THEN <<t[1], "loop">> ELSE t
traceOpFromToken(v, t) ==
  CASE getParallelRegionInitValsOwner(v, t) # {} \/ t[2] = "arg" -> <<t[1], "loop">>
    [] t[2] = "result" -> <<t[1], "terminator">>
    [] OTHER -> t

\* All edges; those of different hierarchy ops are not connected.
ParsedEdges ==
  UNION {{<<traceOpFromToken(v, t), v>> : t \in deps[v]} : v \in AsyncVertices(program)}
  \cup UNION {{<<Begin(f), <<f, "loop">>>>, <<End(f), <<f, "terminator">>>>} : f \in Loops(program)}

\* The token that stands for a vertex in a dependency list.
TokenOf(u) ==
  CASE u[2] = "loop"       -> RegionToken(u[1])
    [] u[2] = "terminator" -> <<u[1], "result">>
    [] OTHER               -> u

updateDepList(E) ==
  [v \in AsyncVertices(program) |-> {TokenOf(e[1]) : e \in {d \in E : d[2] = v}}]

canonicalizeGraphs(E) == TransitiveReduction(E)

Canonicalize ==
  /\ phase \in {"done", "pruned"}
  /\ phase' = "parsed"
  /\ traced' = deps
  /\ deps' = updateDepList(canonicalizeGraphs(ParsedEdges))
  /\ UNCHANGED <<program, walked, edges, live>>

\* An alloc or an affine.apply whose result no op uses.
Unused(o) ==
  /\ \/ Kind(program, o) = "alloc"
     \/ Kind(program, o) = "apply" /\ (o \in DOMAIN program.scalar => program.scalar[o].fn = "apply")
  /\ \A q \in Ops(program) \ {o} :
       \A t \in Touches(program, q) :
         t.m # o \/ Kind(program, q) = "hier"
  /\ \A q \in Leaves(program) \ {o} : o \notin ScalarIns(program, q)
  /\ \A a \in DOMAIN program.args : program.args[a].of # o

removeUnusedExecuteOp ==
  /\ phase = "parsed"
  /\ LET erased == {Op(o) : o \in {q \in Leaves(program) : Unused(q)}}
     IN  /\ live' = live \ erased
         /\ deps' = [v \in DOMAIN deps |-> deps[v] \ erased]
  /\ phase' = "erased"
  /\ UNCHANGED <<program, walked, edges, traced>>

\* FoldWaitAll, as long as it applies to a wait_all w: an operand that is a
\* wait_all without operands is dropped; a single operand takes the place of
\* w.  The loop that starts from w, or yields it, then does so with that
\* operand: w keeps its place in deps for the loop.
WaitAlls == {v \in live : v[2] \in {"begin", "end"}}
Empty == {w \in WaitAlls : deps[w] = {}}

FoldEmptyOperand ==
  \E w \in WaitAlls : \E e \in deps[w] \cap Empty :
    /\ deps' = [deps EXCEPT ![w] = @ \ {e}]
    /\ UNCHANGED live

ForwardOperand ==
  \E w \in WaitAlls :
    /\ Cardinality(deps[w]) = 1 /\ deps[w] \cap Empty = {}
    /\ deps' = [v \in DOMAIN deps |->
                  IF w \in deps[v] THEN (deps[v] \ {w}) \cup deps[w] ELSE deps[v]]
    /\ live' = live \ {w}

removeRedundantWaitAllOps ==
  /\ phase = "erased"
  /\ FoldEmptyOperand \/ ForwardOperand
  /\ UNCHANGED <<program, walked, edges, phase, traced>>

CanonicalizeEnds ==
  /\ phase = "erased"
  /\ \A w \in WaitAlls : deps[w] \cap Empty = {} /\ Cardinality(deps[w]) # 1
  /\ phase' = "canonical"
  /\ UNCHANGED <<program, walked, edges, traced, deps, live>>

CInit == Init /\ traced = deps /\ live = AsyncVertices(program)
CNext ==
  \/ Next /\ UNCHANGED <<traced, live>>
  \/ Canonicalize \/ removeUnusedExecuteOp \/ removeRedundantWaitAllOps \/ CanonicalizeEnds
CSpec == CInit /\ [][CNext]_cvars

-----------------------------------------------------------------------------
LiveLeaves == {e \in LeafEvents(program) : e[1] \in live}

\* The canonical form orders the same events as the one before it.
OrdersAlike ==
  Before(program, deps) \cap (LiveLeaves \X LiveLeaves)
    = Before(program, traced) \cap (LiveLeaves \X LiveLeaves)
=============================================================================
