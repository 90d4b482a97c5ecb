----------------------------- MODULE AirChannels -----------------------------
(***************************************************************************)
(* The air-dma-to-channel pass (src/mlir/lib/Conversion/                   *)
(* ConvertToAIRPass.cpp): every DMA of a herd or a partition becomes a put *)
(* and a get of a channel.  The one inside stays where the DMA was.  The   *)
(* one outside is hoisted before the hierarchy op, in a nest of its own: a *)
(* parallel loop for the cores of a herd, and copies of the loops around   *)
(* the DMA and of all their operands are computed from.  In the end the    *)
(* dependences of the hoisted ops are traced (dependencyTracer in          *)
(* mlir/lib/Util/Dependency.cpp).                                          *)
(*                                                                         *)
(* A parallel loop inside a hierarchy op is not modelled.                  *)
(***************************************************************************)
EXTENDS AirBroadcast, TLC

\* The tiles of a DMA in the memory outside of its hierarchy op, and inside.
OuterTiles(p, d) ==
  {t \in Touches(p, d) : t.m \in DOMAIN p.args /\ p.args[t.m].hier = HierOf(p, d)}
OuterTile(p, d) == CHOOSE t \in OuterTiles(p, d) : TRUE
InnerTile(p, d) == CHOOSE t \in Touches(p, d) \ OuterTiles(p, d) : TRUE

Convertible(p, d) == HierOf(p, d) # "" /\ Cardinality(OuterTiles(p, d)) = 1
IsSpecialized(p, d) == Constant(d) \in DOMAIN p.select

\* The shape of the channel: that of the herd, or one in the dimension all
\* cores take part in the broadcast; a specialized DMA has a channel for
\* each of its branches, and needs no loop over the cores.
HasGrid(p, d) == HierOf(p, d) \in DOMAIN p.size /\ ~IsSpecialized(p, d)
ChannelSize(p, d) ==
  IF d \notin DOMAIN p.range THEN p.size[HierOf(p, d)]
  ELSE IF p.range[d].dim = 1 THEN <<p.range[d].n, 1>> ELSE <<1, p.range[d].n>>

-----------------------------------------------------------------------------
(***************************************************************************)
(* The slice of a program that is hoisted with a DMA                       *)
(***************************************************************************)
\* The op or the loop a scalar comes from.
Origin(p, s) ==
  ({s} \cap Ops(p))
  \cup (IF s \in DOMAIN p.scalar /\ p.scalar[s].fn = "iv" THEN ToSet(p.scalar[s].args) ELSE {})

\* What the operands of an op, or the initial token of a loop, come from.
\* An execute has its dependences for operands, and no scalar.
Operands(p, d, o) ==
  {t[1] : t \in UNION {d[v] : v \in {Op(o), Begin(o)} \cap DOMAIN d}}
  \cup (IF Kind(p, o) \in {"dma", "put", "get"}
        THEN UNION {Origin(p, s) : s \in ScalarIns(p, o)} ELSE {})

Inside(p, h) == {o \in Ops(p) : h \in Around(p, o)}

\* backwardSlice: of the loops around op o, and of the external tile and the
\* iteration arguments it uses.
BackwardSlice(p, d, o) ==
  LET h == HierOf(p, o)
      start == (Inside(p, h) \cap Around(p, o))
               \cup UNION {Origin(p, s) : s \in Scalars(p, OuterTile(p, o).x)}
               \cup {t[1] : t \in {u \in d[Op(o)] : u[2] = "arg"}}
      from == Closure({<<a, b>> \in Inside(p, h) \X Inside(p, h) : a \in Operands(p, d, b)})
  IN  start \cup {e[1] : e \in {c \in from : c[2] \in start}}

\* A DMA, put or get of the slice is not hoisted: a wait_all without
\* operands takes its place.
Moved(p, d, o) ==
  {q \in BackwardSlice(p, d, o) : Kind(p, q) \notin {"dma", "put", "get"}}

\* The slice has loops, allocs and scalar ops only, but for DMAs directly in
\* the hierarchy op: everything else would be cloned.
Separable(p, d, o) ==
  \A q \in BackwardSlice(p, d, o) :
    /\ Kind(p, q) \in {"for", "alloc", "apply", "dma", "put", "get"}
    /\ Kind(p, q) = "dma" => Parent(p, q) = HierOf(p, o)
    /\ ~IsSpecialized(p, q)

-----------------------------------------------------------------------------
(***************************************************************************)
(* Conversion of a DMA.  c is a program p and its dependencies deps.       *)
(***************************************************************************)
Clone(x, key) == x \o "@" \o key

\* What op o is nested in outside of hierarchy op h: the loop over the cores,
\* if there is one, and copies of the loops it is nested in inside.
HoistedAround(p, d, o, key) ==
  LET h == HierOf(p, d)
      inside == SubSeq(p.op[o].around, Len(p.op[h].around) + 2, Len(p.op[o].around))
  IN  p.op[h].around \o (IF HasGrid(p, d) THEN <<Clone(h, key)>> ELSE <<>>)
      \o [j \in DOMAIN inside |-> Clone(inside[j], key)]

\* Outside a kernel argument is what was passed for it.
HoistedTile(p, moved, t, key) ==
  [m |-> IF t.m \in moved THEN Clone(t.m, key)
         ELSE IF t.m \in DOMAIN p.args THEN p.args[t.m].of ELSE t.m,
   x |-> IF t.x = "" THEN "" ELSE Clone(t.x, key)]

\* The ids of a herd become those of the loop over the cores, or zero, what
\* chooses a branch the value in branch i.
HoistedName(p, d, s, key) ==
  IF p.scalar[s].fn = "const" \/ (p.scalar[s].fn = "id" /\ HasGrid(p, d)) THEN s ELSE Clone(s, key)
HoistedScalar(p, d, s, key, i) ==
  LET r == p.scalar[s]
      const(n) == [fn |-> "const", args |-> <<>>, by |-> n]
  IN  CASE r.fn = "id" -> const(0)
        [] r.fn = "select" -> const(p.select[s].value[i])
        [] r.fn = "iv" -> [r EXCEPT !.args = <<Clone(r.args[1], key)>>]
        [] OTHER -> [r EXCEPT !.args = [j \in DOMAIN r.args |-> HoistedName(p, d, r.args[j], key)]]

\* The put or get a DMA becomes, of the one of its tiles that is on this side.
PutOrGet(p, d, t) ==
  [p.op[d] EXCEPT !.kind = IF t \in p.op[d].ins THEN "put" ELSE "get", !.ins = @ \cap {t}, !.outs = @ \cap {t}]

\* The ops of the nest, the external put or get among them.
HoistedOps(c, d, moved, key) ==
  LET p == c.p
      h == HierOf(p, d)
      tiles(S) == {HoistedTile(p, moved, u, key) : u \in S}
      rec(o) == IF o = d THEN PutOrGet(p, d, OuterTile(p, d)) ELSE p.op[o]
      op(o) == [kind |-> rec(o).kind, around |-> HoistedAround(p, d, o, key),
                ins |-> tiles(rec(o).ins), outs |-> tiles(rec(o).outs)]
      grid == [kind |-> "parallel", around |-> p.op[h].around, ins |-> {}, outs |-> {}]
      all == moved \cup {d}
  IN  [n \in {Clone(o, key) : o \in all} |-> op(CHOOSE o \in all : Clone(o, key) = n)]
      @@ (IF HasGrid(p, d) THEN Clone(h, key) :> grid ELSE <<>>)

\* Their dependencies: those of the slice; the put or get inherits the loop-
\* carried tokens only, and the loop it is in yields it.
HoistedDeps(c, d, moved, key) ==
  LET p == c.p
      tokens(v) == {<<Clone(t[1], key), t[2]>> : t \in {u \in c.deps[v] : u[1] \in moved}}
      carried == {<<Clone(t[1], key), "arg">> : t \in {u \in c.deps[Op(d)] : u[2] = "arg"}}
      loops == moved \cap Loops(p)
      h == Clone(HierOf(p, d), key)
      of(o, kind) == CASE o = d /\ kind = "op" -> carried
                       [] kind = "end" -> IF Parent(p, d) = o THEN {Op(Clone(d, key))} ELSE {}
                       [] OTHER -> tokens(<<o, kind>>)
      all == {Op(o) : o \in (moved \ loops) \cup {d}} \cup {Begin(f) : f \in loops} \cup {End(f) : f \in loops}
  IN  [v \in {<<Clone(u[1], key), u[2]>> : u \in all} |->
         LET u == CHOOSE w \in all : <<Clone(w[1], key), w[2]>> = v IN of(u[1], u[2])]
      @@ (IF HasGrid(p, d) THEN Begin(h) :> {} @@ End(h) :> {} ELSE <<>>)

\* The nest of branch i of DMA d, right before the hierarchy op.
HoistNest(c, d, key, i) ==
  LET p == c.p
      h == HierOf(p, d)
      moved == Moved(p, c.deps, d)
      x == OuterTile(p, d).x
      scalars == Scalars(p, x) \cup UNION {ScalarIns(p, o) : o \in moved}
      renamed == {s \in (scalars \cup moved) \cap DOMAIN p.scalar : HoistedName(p, d, s, key) # s}
      cloned == SelectSeq(p.order, LAMBDA o : o \in moved \cup {d})
      at == Min({j \in DOMAIN p.order : p.order[j] = h \/ h \in Around(p, p.order[j])})
  IN  [p |-> [p EXCEPT
          !.order = SubSeq(@, 1, at - 1) \o [j \in DOMAIN cloned |-> Clone(cloned[j], key)]
                    \o (IF HasGrid(p, d) THEN <<Clone(h, key)>> ELSE <<>>) \o SubSeq(@, at, Len(@)),
          !.op = @ @@ HoistedOps(c, d, moved, key),
          !.index = IF x \in DOMAIN p.index
                    THEN @ @@ (Clone(x, key) :> [j \in 1..2 |-> HoistedName(p, d, p.index[x][j], key)]) ELSE @,
          !.scalar = @ @@ [n \in {Clone(s, key) : s \in renamed} |->
                             HoistedScalar(p, d, CHOOSE s \in renamed : Clone(s, key) = n, key, i)],
          !.size = IF HasGrid(p, d) THEN @ @@ (Clone(h, key) :> ChannelSize(p, d)) ELSE @],
       deps |-> c.deps @@ HoistedDeps(c, d, moved, key)]

\* The branches of a DMA, 0 if it has none, and the names of their clones.
Branches(p, d) == IF IsSpecialized(p, d) THEN [i \in DOMAIN p.select[Constant(d)].value |-> i] ELSE <<0>>
Key(d, i) == IF i = 0 THEN d ELSE d \o "#" \o ToString(i)

\* What is left inside is the other end, under the name of the DMA.
HoistDma(c, d) ==
  LET p == c.p
      branches == Branches(p, d)
      nests == FoldLeft(LAMBDA e, i : HoistNest(e, d, Key(d, i), i), c, branches)
      inner == PutOrGet(p, d, InnerTile(p, d))
  IN  [nests EXCEPT
         !.p.op = [o \in DOMAIN @ |-> IF o = d THEN inner ELSE @[o]],
         !.p.link = @ @@ (d :> [i \in DOMAIN branches |-> Clone(d, Key(d, branches[i]))])]

Dma(p) == SelectSeq(p.order, LAMBDA o : Kind(p, o) = "dma")
\* A herd with a broadcast is square: the ids stand for the partitions.  A
\* specialized one no longer depends on the ids, which become zero outside.
Regular(p, dp, d) ==
  /\ Separable(p, dp, d)
  /\ d \in DOMAIN p.range => p.size[HierOf(p, d)][1] = p.size[HierOf(p, d)][2]
  /\ IsSpecialized(p, d) => traceDependentInductionVar(p, d) = {}

\* HoistingAffineIf, for every broadcast that was specialized.
HoistBroadcasts ==
  /\ phase \in {"pruned", "specialized"}
  /\ LET ds == SelectSeq(Dma(program), LAMBDA d : IsSpecialized(program, d))
         c  == FoldLeft(HoistDma, [p |-> program, deps |-> deps], ds)
     IN  /\ program' = c.p
         /\ deps' = c.deps
         /\ live' = live \cup DOMAIN c.deps
         /\ assumed' = (assumed /\ \A d \in ToSet(ds) : Regular(program, deps, d))
  /\ phase' = "converting" /\ source' = program /\ walked' = 0
  /\ UNCHANGED <<edges, traced>>

\* AIRDmaToAIRChannelConversion, of one DMA after the other.
ConvertDma ==
  /\ phase = "converting" /\ Dma(program) # <<>>
  /\ LET d == Head(Dma(program)) IN
     /\ Convertible(program, d)
     /\ LET c == HoistDma([p |-> program, deps |-> deps], d)
        IN  /\ program' = c.p
            /\ deps' = c.deps
            /\ live' = live \cup DOMAIN c.deps
     /\ assumed' = (assumed /\ Regular(program, deps, d))
  /\ UNCHANGED <<walked, phase, edges, traced, source>>

\* A DMA that is not in a hierarchy op stays, and the pass fails.
ConversionFails ==
  /\ phase = "converting" /\ Dma(program) # <<>>
  /\ ~Convertible(program, Head(Dma(program)))
  /\ phase' = "failed"
  /\ UNCHANGED <<program, walked, edges, deps, traced, live, source, assumed>>

ConversionEnds ==
  /\ phase = "converting" /\ Dma(program) = <<>>
  /\ phase' = "converted"
  /\ UNCHANGED <<program, walked, edges, deps, traced, live, source, assumed>>

-----------------------------------------------------------------------------
(***************************************************************************)
(* Dependencies of the external puts and gets: updateDependencyOnFunction  *)
(***************************************************************************)
External == UNION {ToSet(program.link[d]) : d \in DOMAIN program.link}
InternalOf(e) == CHOOSE d \in DOMAIN program.link : e \in ToSet(program.link[d])

\* The loops that were hoisted with e, outermost first, and all loops up to
\* the hierarchy op that e is in now.
HoistedLoops(e) ==
  LET n == Len(program.op[HierOf(program, InternalOf(e))].around)
  IN  SubSeq(program.op[e].around, n + 1, Len(program.op[e].around))
LoopNest(e) ==
  LET around == program.op[e].around
      hs == {j \in DOMAIN around : Kind(program, around[j]) = "hier"}
  IN  IF hs = {} THEN around ELSE SubSeq(around, Max(hs) + 1, Len(around))

\* What e reads or writes, and in which mode its earlier uses are traced: a
\* put waits for those that write it, a get for all.
TileOf(e) == CHOOSE t \in Touches(program, e) : TRUE
ModeOf(e) == IF Kind(program, e) = "put" THEN "w" ELSE "n"

\* An op is only waited for in the block it is in.
BeforeInBlock(o, sink) ==
  /\ Parent(program, o) = Parent(program, sink)
  /\ Position(program, o) < Position(program, sink)

\* What sink, e or the loop it was hoisted with, is to wait for: the uses
\* before it and the alloc.
FoundFor(e, sink) ==
  {Op(o) : o \in {q \in AsyncOps(program) : BeforeInBlock(q, sink) /\ UsedBy(q, TileOf(e), ModeOf(e))}}
  \cup {Op(o) : o \in {TileOf(e).m} \cap Ops(program)}

Adds(dp, v, tokens) == [dp EXCEPT ![v] = @ \cup tokens]

\* The ops its index is computed by.
IndexTokens(e) == {Op(s) : s \in ScalarIns(program, e) \cap Ops(program)}

\* Every op of the nest waits for the token of its loop, and the loop yields it.
reconnectLoopCarriedDependencyFromOp(dp, e) ==
  LET nest == Append(LoopNest(e), e)
      waits(x) == IF x = e THEN Op(e) ELSE Begin(x)
      token(x) == IF x = e THEN Op(e) ELSE <<x, "result">>
      reconnect(b, j) == Adds(Adds(b, waits(nest[j]), {RegionToken(nest[j-1])}),
                              End(nest[j-1]), {token(nest[j])})
  IN  FoldLeft(reconnect, dp, [j \in 1..Len(nest)-1 |-> j + 1])

ConnectExternal(dp, e) ==
  LET loops == HoistedLoops(e)
      reconnected ==
        IF loops = <<>> THEN dp
        ELSE reconnectLoopCarriedDependencyFromOp(Adds(dp, Begin(loops[1]), FoundFor(e, loops[1])), e)
  IN  Adds(reconnected, Op(e), FoundFor(e, e) \cup IndexTokens(e))

Connect ==
  /\ phase = "converted" /\ walked < Len(program.order)
  /\ deps' = IF Current \in External THEN ConnectExternal(deps, Current) ELSE deps
  /\ Advance
  /\ UNCHANGED <<program, phase, edges, traced, live, source, assumed>>

ConnectEnds ==
  /\ phase = "converted" /\ walked = Len(program.order)
  /\ phase' = "channels"
  /\ UNCHANGED <<program, walked, edges, deps, traced, live, source, assumed>>

NNext ==
  \/ SNext
  \/ HoistBroadcasts \/ ConvertDma \/ ConversionFails \/ ConversionEnds \/ Connect \/ ConnectEnds
NSpec == SInit /\ [][NNext]_svars

-----------------------------------------------------------------------------
(***************************************************************************)
(* What the passes promise                                                 *)
(***************************************************************************)
\* An event of the source, in the program.
InProgram(e) ==
  <<e[1], [f \in Loops(program) |-> IF f \in DOMAIN e[2] THEN e[2][f] ELSE 0]>>

\* The event at the other end of a channel: in the same iteration of the
\* loops around the hierarchy op, and of the copies of those inside it.
EndOf(e) ==
  LET from == program.op[e[1][1]].around
      to   == program.link[e[1][1]][1]
      k    == CHOOSE j \in DOMAIN from : from[j] = HierOf(program, e[1][1])
      skip == Len(from) - Len(program.op[to].around)
      it(f) == LET j == CHOOSE i \in DOMAIN program.op[to].around : program.op[to].around[i] = f
               IN  IF j < k THEN e[2][f] ELSE IF from[j + skip] \in Loops(program) THEN e[2][from[j + skip]] ELSE 0
  IN  <<Op(to), [f \in Loops(program) |-> IF f \in Around(program, to) THEN it(f) ELSE 0]>>

\* A get waits for the put at the other end.
Transfers ==
  {IF Kind(program, e[1][1]) = "get" THEN <<EndOf(e), e>> ELSE <<e, EndOf(e)>> :
     e \in {d \in LeafEvents(program) : d[1][1] \in DOMAIN program.link}}

BeforeWithChannels ==
  Closure(Transfers \cup UNION {{<<d, e>> : d \in WaitsFor(program, deps, e)} : e \in Events(program)})

\* Where a DMA touched a tile: its outer tile is touched by the external op.
IsOuter(e, t) == e[1][1] \in DOMAIN program.link /\ t \in OuterTiles(source, e[1][1])
Where(e, t) == IF IsOuter(e, t) THEN EndOf(InProgram(e)) ELSE InProgram(e)

\* What comes after an external get in the same iteration of the loops around
\* the hierarchy op does not wait for it.
NotAwaited(a, s, b) ==
  /\ IsOuter(a, s) /\ Kind(program, a[1][1]) = "put"
  /\ \A f \in Around(source, HierOf(source, a[1][1])) \cap Loops(source) : a[2][f] = b[2][f]

ConflictsOrdered(before) ==
  \A p \in MustPrecede(source) : \A c \in ConflictTiles(source, p[1], p[2]) :
    NotAwaited(p[1], c[1], p[2]) \/ <<Where(p[1], c[1]), Where(p[2], c[2])>> \in before
IndicesOrdered(before) ==
  \A a, b \in LeafEvents(program) : Computes(program, a, b) => <<a, b>> \in before

\* What goes through a channel comes out in the order it went in.  An external
\* op that was hoisted without a loop is not connected to the loops around it.
FirstInFirstOut(before) ==
  \A d \in DOMAIN program.link :
    HoistedLoops(program.link[d][1]) # <<>> \/ LoopNest(program.link[d][1]) = <<>> =>
      \A a, b \in {e \in LeafEvents(program) : e[1][1] = d} :
        Precedes(program, a, b) => <<a, b>> \in before /\ <<EndOf(a), EndOf(b)>> \in before

TransfersOrdered ==
  WritesSeen(source) /\ BodiesConnected(source) =>
    \E before \in {BeforeWithChannels} :
      ConflictsOrdered(before) /\ IndicesOrdered(before) /\ FirstInFirstOut(before)

Finished == phase \in {"done", "hoisted", "pruned", "specialized"}

\* Every async token is used where it is defined, after every pass that
\* moves or copies an op or a token: the IR a pass leaves is valid.
Dominated == Finished \/ phase \in {"canonical", "channels"} => (assumed => InScope)

\* The asynchronous program keeps the order of every two conflicting
\* executions of an op, after every pass, and when they have become puts and
\* gets of channels on both sides of a hierarchy op.
OrderKept ==
  /\ Finished => (assumed => InOrder)
  /\ phase = "channels" => (assumed => TransfersOrdered)

\* The canonical form orders the same events as the one before it: no order
\* is lost with an edge, an execute or a wait_all, and none is added.
SameOrder == phase = "canonical" /\ assumed => OrdersAlike

\* The passes leave the same data in memory: what is hoisted, erased,
\* fetched by a broadcast or sent through a channel is what every core and
\* iteration would have had.
SameData ==
  phase \in {"pruned", "specialized", "channels"} /\ assumed =>
    FinalMemory(program) = FinalMemory(source)
=============================================================================
