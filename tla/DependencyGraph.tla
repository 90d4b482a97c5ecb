-------------------------- MODULE DependencyGraph --------------------------
(***************************************************************************)
(* The dependency graphs that dependencyCanonicalizer::parseCommandGraphs  *)
(* (src/mlir/lib/Util/Dependency.cpp) builds from an asynchronous program, *)
(* one graph per hierarchy op, for the runner and for the passes.          *)
(*                                                                         *)
(* A program is a function from the names of its ops to records:           *)
(*   kind   what addVertexFromOpImpls makes of the op                      *)
(*   graph  the hierarchy op's graph it belongs to                         *)
(*   deps   its async dependencies; the initial values of a for_loop; the  *)
(*          operands of a terminator (scf.yield)                           *)
(*   ref    the loop of a terminator, the graph a hierarchy op opens, the  *)
(*          channel.put that a channel.get pairs with                      *)
(*   loop   the scf.for around it, "" if there is none                     *)
(*   trip   the trip count of a for_loop                                   *)
(* A dependency is a token: the result of an op, result i of a loop, or    *)
(* iteration argument i of a loop.  scf.parallel and affine.if are not     *)
(* modelled.                                                               *)
(***************************************************************************)
EXTENDS Naturals, Sequences, FiniteSets

Token(o)     == [of |-> o, as |-> "op", i |-> 1]
Result(f, i) == [of |-> f, as |-> "result", i |-> i]
Arg(f, i)    == [of |-> f, as |-> "arg", i |-> i]

\* An air.execute is two vertices, its first op and its terminator.
FrontOf(p, o) == <<o, 1>>
BackOf(p, o)  == IF p[o].kind = "execute" THEN <<o, 2>> ELSE <<o, 1>>

Vertices(p, g) ==
  {v \in (DOMAIN p) \X {1, 2} : p[v[1]].graph = g /\ (v[2] = 1 \/ p[v[1]].kind = "execute")}

YieldOf(p, f) == CHOOSE y \in DOMAIN p : p[y].kind = "terminator" /\ p[y].ref = f

\* The vertex a token comes from: a loop's result from the loop's yield, an
\* iteration argument from the loop.
Traced(p, d) ==
  CASE d.as = "op"     -> BackOf(p, d.of)
    [] d.as = "result" -> FrontOf(p, YieldOf(p, d.of))
    [] d.as = "arg"    -> FrontOf(p, d.of)

DepEdges(p, g) ==
  LET ops == {o \in DOMAIN p : p[o].graph = g}
  IN  UNION {{<<Traced(p, p[o].deps[i]), FrontOf(p, o)>> : i \in DOMAIN p[o].deps} : o \in ops}
      \cup {<<<<o, 1>>, <<o, 2>>>> : o \in {e \in ops : p[e].kind = "execute"}}

TheOne(p, g, kind) == CHOOSE o \in DOMAIN p : p[o].graph = g /\ p[o].kind = kind
StartVertex(p, g)      == <<TheOne(p, g, "start"), 1>>
TerminatorVertex(p, g) == <<TheOne(p, g, "hierarchy_terminator"), 1>>

\* Leaves are connected to the hierarchy's terminator.
WithTerminator(p, g, E) ==
  LET t == TerminatorVertex(p, g)
      leaves == {v \in Vertices(p, g) \ {StartVertex(p, g), t} : ~\E e \in E : e[1] = v}
  IN  E \cup {<<v, t>> : v \in leaves}

\* The start vertex is connected to everything without a predecessor.
WithStart(p, g, E) ==
  LET s == StartVertex(p, g)
      roots == {v \in Vertices(p, g) \ {s} : ~\E e \in E : e[2] = v}
  IN  E \cup {<<s, v>> : v \in roots}

GraphEdges(p, g) == WithStart(p, g, WithTerminator(p, g, DepEdges(p, g)))

\* The vertices that v has a path to, itself included (hasPath), in an acyclic
\* graph with the edges E over V.
PathsFrom(V, E) ==
  LET to[v \in V] == {v} \cup UNION {to[w] : w \in {x \in V : <<v, x>> \in E}}
  IN  UNION {{<<v, w>> : w \in to[v]} : v \in V}
=============================================================================
