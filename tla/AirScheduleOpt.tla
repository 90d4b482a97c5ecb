--------------------------- MODULE AirScheduleOpt ---------------------------
(***************************************************************************)
(* The air-dependency-schedule-opt pass on an asynchronous program         *)
(* (src/mlir/lib/Transform/AIRDependencyScheduleOpt.cpp): DMAs that bring  *)
(* an accumulator into a loop and out of it are hoisted, DMAs all cores    *)
(* of a row or a column make alike are marked as broadcasts, and DMAs into *)
(* an operand whose value a linalg.generic does not use are erased.        *)
(***************************************************************************)
EXTENDS AirCanonicalize

CONSTANT Tiled \* the programs that are taken through the schedule passes

VARIABLES
  source,   \* the program before the passes
  assumed   \* whether what the passes rely on has held so far

svars == <<cvars, source, assumed>>

InputOf(o) == CHOOSE t \in program.op[o].ins : TRUE
OutputOf(o) == CHOOSE t \in program.op[o].outs : TRUE
Dmas == {o \in Leaves(program) : Kind(program, o) = "dma"}

-----------------------------------------------------------------------------
(***************************************************************************)
(* HoistDmaInAccumPattern                                                  *)
(***************************************************************************)
AllocsOf(a) == {o \in Leaves(program) : Kind(program, o) = "alloc" /\ Op(o) \in deps[Op(a)]}
DeallocsOf(b) == {o \in Leaves(program) : Kind(program, o) = "dealloc" /\ Op(b) \in deps[Op(o)]}

isIncomingDmaOp(a, f) == <<f, "arg">> \in deps[Op(a)] /\ AllocsOf(a) # {}
isOutgoingDmaOp(b) ==
  DeallocsOf(b) # {} /\ \E w \in DOMAIN deps : w[2] \in {"begin", "end"} /\ Op(b) \in deps[w]

\* An induction variable an index is made of; one an index is computed from
\* by another op is not seen.
isInvariantWRTForLoop(o, f) ==
  \A s \in ScalarIns(program, o) \cap DOMAIN program.scalar :
    program.scalar[s].fn = "iv" => program.scalar[s].args # <<f>>

areSymmetricDmaOps(a, b) == InputOf(a) = OutputOf(b) /\ InputOf(b) = OutputOf(a)

DmaPairs(f) ==
  {<<a, b>> \in Dmas \X Dmas :
     /\ Parent(program, a) = f /\ Parent(program, b) = f
     /\ isIncomingDmaOp(a, f) /\ isOutgoingDmaOp(b)
     /\ areSymmetricDmaOps(a, b)
     /\ isInvariantWRTForLoop(a, f) /\ isInvariantWRTForLoop(b, f)}

\* The program with before moved to before f, and after to behind it.
MoveOut(f, before, after) ==
  LET moved == ToSet(before) \cup ToSet(after)
      rest  == SelectSeq(program.order, LAMBDA o : o \notin moved)
      body  == {i \in DOMAIN rest : rest[i] = f \/ f \in Around(program, rest[i])}
      order == SubSeq(rest, 1, Min(body) - 1) \o before \o SubSeq(rest, Min(body), Max(body))
               \o after \o SubSeq(rest, Max(body) + 1, Len(rest))
  IN  [program EXCEPT
         !.order = order,
         !.op = [o \in DOMAIN @ |-> IF o \in moved
                                    THEN [@[o] EXCEPT !.around = program.op[f].around] ELSE @[o]]]

\* Every use of token t becomes one of u.
ReplaceAllUses(d, t, u) ==
  [v \in DOMAIN d |-> IF t \in d[v] THEN (d[v] \ {t}) \cup {u} ELSE d[v]]

\* The loop starts from the DMA, which waits for what the loop waited for.
reconnectIncomingDma(d, a, f) ==
  LET e == ReplaceAllUses([d EXCEPT ![Op(a)] = @ \ {<<f, "arg">>}], Op(a), <<f, "arg">>)
  IN  [e EXCEPT ![Op(a)] = @ \cup e[Begin(f)], ![Begin(f)] = {Op(a)}]

\* The loop yields what b waited for; b waits for the loop, and what waited
\* for the loop for the dealloc.
reconnectOutgoingEvents(d, b, dealloc, f) ==
  LET e == ReplaceAllUses([d EXCEPT ![End(f)] = (@ \cup d[Op(b)]) \ {Op(dealloc), Op(b)}],
                          <<f, "result">>, Op(dealloc))
  IN  [e EXCEPT ![Op(b)] = {<<f, "result">>}]

\* Nothing else in the loop touches what the DMAs copy, the indices are
\* defined outside of it, and the dealloc waits for the outgoing DMA alone.
Accumulates(f, a, b, dealloc) ==
  /\ \A s \in ScalarIns(program, a) \cup ScalarIns(program, b) :
       s \in Ops(program) => f \notin Around(program, s)
  /\ deps[Op(dealloc)] = {Op(b)}
  /\ \A o \in Leaves(program) \ {a, b} : f \in Around(program, o) =>
       \A t \in Touches(program, o) :
         Passed(program, t.m) # Passed(program, InputOf(a).m) \/ ~Overlap(t.x, InputOf(a).x)

Scheduling == source \in Tiled

Hoist ==
  /\ phase = "done" /\ Scheduling
  /\ \E f \in Loops(program) : \E pair \in DmaPairs(f) :
       LET a == pair[1]
           b == pair[2]
           alloc   == CHOOSE o \in AllocsOf(a) : TRUE
           dealloc == CHOOSE o \in DeallocsOf(b) : TRUE
       IN  /\ Kind(program, f) = "for"
           /\ program' = MoveOut(f, <<alloc, a>>, <<b, dealloc>>)
           /\ deps' = reconnectOutgoingEvents(
                        reconnectIncomingDma([deps EXCEPT ![Op(alloc)] = {}], a, f), b, dealloc, f)
           /\ assumed' = (assumed /\ Accumulates(f, a, b, dealloc))
  /\ UNCHANGED <<walked, phase, edges, traced, live, source>>

\* The greedy rewriting ends when the pattern applies nowhere.
HoistEnds ==
  /\ phase = "done" /\ Scheduling
  /\ \A f \in Loops(program) : Kind(program, f) = "for" => DmaPairs(f) = {}
  /\ phase' = "hoisted"
  /\ UNCHANGED <<program, walked, edges, deps, traced, live, source, assumed>>

-----------------------------------------------------------------------------
(***************************************************************************)
(* BroadcastDetection                                                      *)
(***************************************************************************)
\* The ops that compute a scalar, the last first.
ScalarOps(p, s) ==
  LET ops[n \in DOMAIN p.scalar] ==
        IF n \notin Ops(p) THEN <<>>
        ELSE <<n>> \o FlattenSeq([i \in DOMAIN p.scalar[n].args |-> ops[p.scalar[n].args[i]]])
  IN  ops[s]

\* op_history: those behind the source offsets of a DMA.
ScalarHistory(p, d) ==
  LET x == (CHOOSE t \in p.op[d].ins : TRUE).x
  IN  IF x = "" THEN <<>> ELSE ScalarOps(p, p.index[x][1]) \o ScalarOps(p, p.index[x][2])

\* The herd ids (1 for rows, 2 for columns) the source offsets depend on.
traceDependentInductionVar(p, d) ==
  {p.scalar[s].by : s \in {n \in DOMAIN p.scalar :
     /\ p.scalar[n].fn = "id"
     /\ \/ \E t \in p.op[d].ins : n \in Scalars(p, t.x)
        \/ \E o \in ToSet(ScalarHistory(p, d)) : n \in ToSet(p.scalar[o].args)}}

InHerd(o) == HierOf(program, o) \in DOMAIN program.size

\* What a DMA depends on in one dimension of the herd only is the same in
\* the other: cores with the same id in dim take part in one broadcast.
broadcastPattern(d) ==
  CHOOSE dim \in {1, 2} : traceDependentInductionVar(program, d) = {dim}

\* The number of partitions is that of the other dimension.
partitions(d) == program.size[HierOf(program, d)][3 - broadcastPattern(d)]
Broadcasts ==
  {d \in Dmas : /\ InHerd(d)
                /\ Cardinality(traceDependentInductionVar(program, d)) = 1
                /\ partitions(d) > 1}

broadcastDetection ==
  /\ phase = "hoisted"
  /\ program' = [program EXCEPT !.range = [d \in Broadcasts |-> [dim |-> broadcastPattern(d), n |-> partitions(d)]]]
  /\ phase' = "detected"
  /\ UNCHANGED <<walked, edges, deps, traced, live, source, assumed>>

-----------------------------------------------------------------------------
(***************************************************************************)
(* PruneLinalgGenericInputDma                                              *)
(***************************************************************************)
\* The DMAs that op o waits for and that copy into its operand m.
Redundant(d, o, m) ==
  {x \in Dmas : Op(x) \in d[Op(o)] /\ OutputOf(x).m = m}

\* o waits for what those waited for, and, where their source was passed to
\* a hierarchy op, so does that one for the DMAs into what was passed.
findAndPruneRedundantDma(d, o, m) ==
  LET take(e, q, n) ==
        [e EXCEPT ![Op(q)] = (@ \ {Op(x) : x \in Redundant(e, q, n)})
                             \cup UNION {e[Op(x)] : x \in Redundant(e, q, n)}]
      passed(e, q, n) == {InputOf(x).m : x \in Redundant(e, q, n)} \cap DOMAIN program.args
      hop[k \in 0..3] ==
        IF k = 0 THEN [d |-> take(d, o, m), up |-> passed(d, o, m), gone |-> Redundant(d, o, m)]
        ELSE IF hop[k-1].up = {} THEN hop[k-1]
        ELSE LET a == program.args[CHOOSE n \in hop[k-1].up : TRUE]
             IN  [d |-> take(hop[k-1].d, a.hier, a.of), up |-> passed(hop[k-1].d, a.hier, a.of),
                  gone |-> hop[k-1].gone \cup Redundant(hop[k-1].d, a.hier, a.of)]
  IN  [deps |-> hop[3].d, gone |-> hop[3].gone]

Prune ==
  /\ phase = "detected"
  /\ LET take(u, s) ==
           LET r == findAndPruneRedundantDma(s.deps, u[1], u[2])
           IN  [deps |-> r.deps, gone |-> s.gone \cup r.gone]
         s == FoldSet(take, [deps |-> deps, gone |-> {}], program.unread)
         left == DOMAIN deps \ {Op(x) : x \in s.gone}
     IN  /\ program' = [program EXCEPT
               !.order = SelectSeq(@, LAMBDA o : o \notin s.gone),
               !.op = [o \in DOMAIN @ \ s.gone |-> @[o]]]
         /\ deps' = [v \in left |-> s.deps[v]]
         /\ live' = live \cap left
         \* an erased DMA has no other user
         /\ assumed' = (assumed /\ \A v \in left : \A x \in s.gone : Op(x) \notin s.deps[v])
  /\ phase' = "pruned"
  /\ UNCHANGED <<walked, edges, traced, source>>
=============================================================================
