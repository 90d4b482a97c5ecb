---------------------------- MODULE AirBroadcast ----------------------------
(***************************************************************************)
(* The air-specialize-dma-broadcast pass (AIRSpecializeDmaBroadcast in     *)
(* src/mlir/lib/Transform/AIRMiscPasses.cpp): a DMA that was marked as a   *)
(* broadcast becomes one DMA per partition of the herd, each in a branch   *)
(* of an affine.if, and the source offset that tells the partitions apart  *)
(* becomes a constant.                                                     *)
(***************************************************************************)
EXTENDS AirScheduleOpt

\* What a scalar op makes of a constant, a sequence that is empty when there
\* is none: affine.apply scales it, arith ops
\* combine it with a constant operand and without one give up.
Constants(p, o) == {i \in 1..2 : p.scalar[p.scalar[o].args[i]].fn = "const"}
propagateMutant(p, o, c) == \* mutant: an addi multiplies
  LET r == p.scalar[o]
      with == p.scalar[r.args[Min(Constants(p, o))]].by
  IN  CASE c = <<>>         -> <<>>
        [] r.fn = "apply"   -> <<r.by * c[1]>>
        [] Constants(p, o) = {} -> <<>>
        [] OTHER            -> <<with * c[1]>>
propagate(p, o, c) ==
  LET r == p.scalar[o]
      with == p.scalar[r.args[Min(Constants(p, o))]].by
  IN  CASE c = <<>>         -> <<>>
        [] r.fn = "apply"   -> <<r.by * c[1]>>
        [] Constants(p, o) = {} -> <<>>
        [] r.fn = "addi"    -> <<with + c[1]>>
        [] OTHER            -> <<with * c[1]>>

\* The constant a partition's number becomes through the ops, last in first
\* out, after each of them.
Propagated(p, d, i) ==
  LET ops == Reverse(ScalarHistory(p, d))
      c[k \in 0..Len(ops)] == IF k = 0 THEN <<i>> ELSE propagate(p, ops[k], c[k-1])
  IN  [k \in 0..Len(ops) |-> c[k]]
Simplified(p, d, i) ==
  LET c == Propagated(p, d, i) IN c[Len(ScalarHistory(p, d))]

\* The ops the DMA no longer depends on: those the constant went through.
Bypassed(p, d) ==
  LET ops == Reverse(ScalarHistory(p, d))
  IN  {ops[k] : k \in {j \in DOMAIN ops : Propagated(p, d, 0)[j-1] # <<>>}}

\* The offset at the position of the id is replaced, in every branch.
Constant(d) == d \o "_offset"
Index(d) == d \o "_source"
Offsets(p, d) ==
  LET old == p.index[InputOf(d).x]
  IN  IF Simplified(p, d, 0) = <<>> THEN old ELSE [old EXCEPT ![p.range[d].dim] = Constant(d)]

Extend(f, S, value(_)) == [x \in DOMAIN f \cup S |-> IF x \in S THEN value(x) ELSE f[x]]
Specialized(p, d) ==
  [p EXCEPT
     !.op[d].ins = {[m |-> InputOf(d).m, x |-> Index(d)]},
     !.index  = Extend(@, {Index(d)}, LAMBDA x : Offsets(p, d)),
     !.scalar = Extend(@, {Constant(d)}, LAMBDA x : [fn |-> "select", args |-> <<>>, by |-> 0]),
     !.select = Extend(@, {Constant(d)}, LAMBDA x :
                  [dim |-> p.range[d].dim, range |-> p.range[d].n,
                   value |-> [i \in 1..p.range[d].n |->
                                IF Simplified(p, d, i-1) = <<>> THEN i - 1 ELSE Simplified(p, d, i-1)[1]]])]

\* A broadcast has as many partitions as the other dimension has cores, and
\* its ops are those behind the offset of its id, which is at its position.
Aligned(p, d) ==
  LET old == p.index[InputOf(d).x]
      dim == p.range[d].dim
      id(s) == p.scalar[s].fn = "id" /\ p.scalar[s].by = dim
  IN  /\ p.size[HierOf(p, d)][1] = p.size[HierOf(p, d)][2]
      /\ ScalarHistory(p, d) = ScalarOps(p, old[dim])
      /\ ~id(old[3 - dim])

\* What else uses an op that the DMA no longer waits for comes after it by
\* way of other dependences: the reduced graph may have relied on the DMA.
StillOrdered(p, dp, ops) ==
  \A a, b \in LeafEvents(p) :
    a[1][1] \in ops /\ Computes(p, a, b) => <<a, b>> \in Before(p, dp)

SpecializeBroadcast ==
  /\ phase = "pruned"
  /\ LET ds == {d \in Dmas : d \in DOMAIN program.range} IN
     /\ program' = FoldSet(LAMBDA d, p : Specialized(p, d), program, ds)
     /\ deps' = [v \in DOMAIN deps |->
                   IF v[1] \in ds THEN deps[v] \ {Op(o) : o \in Bypassed(program, v[1])} ELSE deps[v]]
     /\ assumed' = (assumed /\ (\A d \in ds : Aligned(program, d))
                            /\ StillOrdered(program', deps', UNION {Bypassed(program, d) : d \in ds}))
  /\ phase' = "specialized"
  /\ UNCHANGED <<walked, edges, traced, live, source>>

SInit == CInit /\ source = program /\ assumed = TRUE
SNext ==
  \/ CNext /\ UNCHANGED <<source, assumed>>
  \/ Hoist \/ HoistEnds \/ broadcastDetection \/ Prune \/ SpecializeBroadcast
SSpec == SInit /\ [][SNext]_svars

=============================================================================
