---------------------------- MODULE AsyncProgram ----------------------------
(***************************************************************************)
(* An AIR program and what its asynchronous form means.                    *)
(*                                                                         *)
(* A program p has the names of its ops in post-order, p.order, as the     *)
(* passes walk them, and for each op a record                              *)
(*   kind    for, parallel, hier (a launch, partition or herd), or the     *)
(*           kind of an op that becomes asynchronous                       *)
(*   around  the names of the ops around it, outermost first               *)
(*   ins     the tiles it reads only                                       *)
(*   outs    the tiles it writes                                           *)
(* A tile is a memref value m and an index x, "" for the whole memref; an  *)
(* index is the name of an apply op that computes it, or a value's name,   *)
(* or a name p.index gives two such scalars for.  p.scalar says what a     *)
(* scalar is: the operation fn, its operands args and a constant by.       *)
(* p.args gives each kernel argument the hierarchy op it belongs to and    *)
(* the memref passed for it; an alloc defines the memref of its own name.  *)
(* p.size is the rows and columns of a herd, p.unread the pairs of a       *)
(* linalg.generic and a memref whose value its body does not use; p.range  *)
(* and p.select are what broadcasts add, and p.link gives a put or get of  *)
(* a hierarchy op the ops at the other end of its channels.                *)
(*                                                                         *)
(* The asynchronous form adds a wait_all before a loop (begin), one at the *)
(* end of its body (end) and async dependencies: a token is <<o, "op">>,   *)
(* <<f, "begin">>, <<f, "end">>, the iteration argument <<f, "arg">> of an *)
(* scf.for or the result <<f, "result">> of a loop.                        *)
(***************************************************************************)
EXTENDS Integers, Sequences, FiniteSets, FiniteSetsExt, SequencesExt

Ops(p)      == DOMAIN p.op
Kind(p, o)  == p.op[o].kind
Around(p, o) == ToSet(p.op[o].around)
Parent(p, o) == IF p.op[o].around = <<>> THEN "" ELSE Last(p.op[o].around)
Loops(p)    == {f \in Ops(p) : Kind(p, f) \in {"for", "parallel"}}
Hiers(p)    == {h \in Ops(p) : Kind(p, h) = "hier"}
Leaves(p)   == Ops(p) \ (Loops(p) \cup Hiers(p))
\* The scalars of an index.
Scalars(p, x) == IF x \in DOMAIN p.index THEN ToSet(p.index[x]) ELSE {x}
\* The scalars an op takes for its tiles, or computes its own from.
ScalarIns(p, o) ==
  UNION {Scalars(p, t.x) : t \in p.op[o].ins \cup p.op[o].outs}
  \cup (IF o \in DOMAIN p.scalar THEN ToSet(p.scalar[o].args) ELSE {})
Position(p, o) == CHOOSE i \in DOMAIN p.order : p.order[i] = o

\* The hierarchy op that encloses an op most closely, "" if there is none.
HierOf(p, o) ==
  LET hs == SelectSeq(p.op[o].around, LAMBDA q : Kind(p, q) = "hier")
  IN  IF hs = <<>> THEN "" ELSE Last(hs)

AsyncOps(p) == Leaves(p) \cup Hiers(p)
Begin(f) == <<f, "begin">>
End(f)   == <<f, "end">>
Op(o)    == <<o, "op">>
AsyncVertices(p) ==
  {Op(o) : o \in AsyncOps(p)} \cup {Begin(f) : f \in Loops(p)} \cup {End(f) : f \in Loops(p)}

\* The loops around an asynchronous op.
LoopsAround(p, v) ==
  (Around(p, v[1]) \cap Loops(p)) \cup (IF v[2] = "end" THEN {v[1]} ELSE {})

-----------------------------------------------------------------------------
(***************************************************************************)
(* Execution.  A loop is unrolled Trips times.  An event is an op in one   *)
(* iteration of the loops around it; "start" is the start of a hierarchy   *)
(* op, "op" its end.                                                       *)
(***************************************************************************)
Trips == 2

\* Of a loop over the cores of a herd one iteration stands for all.
TripsOf(p, f) == IF f \in DOMAIN p.size THEN 1 ELSE Trips
Iterations(p, v) ==
  {[f \in Loops(p) |-> IF f \in DOMAIN it THEN it[f] ELSE 0] :
     it \in {i \in [LoopsAround(p, v) -> 0..Trips-1] : \A f \in DOMAIN i : i[f] < TripsOf(p, f)}}
At(p, v, it) == <<v, [f \in Loops(p) |-> IF f \in LoopsAround(p, v) THEN it[f] ELSE 0]>>
Vertices(p) == AsyncVertices(p) \cup {<<h, "start">> : h \in Hiers(p)}
Events(p) == UNION {{<<v, it>> : it \in Iterations(p, v)} : v \in Vertices(p)}

\* The events a token that is used in iteration it stands for.
TokenEvents(p, t, it) ==
  LET f == t[1] IN
  CASE t[2] = "arg" ->
         IF it[f] = 0 THEN {At(p, Begin(f), it)} ELSE {At(p, End(f), [it EXCEPT ![f] = @ - 1])}
    [] t[2] = "result" ->
         {At(p, End(f), [it EXCEPT ![f] = i]) :
            i \in IF Kind(p, f) = "for" THEN {Trips - 1} ELSE 0..TripsOf(p, f)-1}
    [] OTHER -> {At(p, t, it)}

\* What an event waits for, given the async dependencies of every op.
WaitsFor(p, deps, e) ==
  LET o     == e[1][1]
      ofOp  == IF Kind(p, o) = "hier" THEN e[1][2] = "start" ELSE TRUE
      v     == IF Kind(p, o) = "hier" THEN Op(o) ELSE e[1]
      ended == Kind(p, o) = "hier" /\ e[1][2] = "op"
  IN  (IF ofOp THEN UNION {TokenEvents(p, t, e[2]) : t \in deps[v]} ELSE {})
      \cup (IF HierOf(p, o) # "" THEN {At(p, <<HierOf(p, o), "start">>, e[2])} ELSE {})
      \cup (IF ended
            THEN {At(p, <<o, "start">>, e[2])} \cup
                 {d \in Events(p) : o \in Around(p, d[1][1]) /\ At(p, e[1], d[2]) = e}
            ELSE {})

\* The transitive closure of a relation, as a set of pairs.
Closure(E) ==
  LET through(m, R) == R \cup ({e[1] : e \in {d \in R : d[2] = m}} \X
                              {e[2] : e \in {d \in R : d[1] = m}})
  IN  FoldSet(through, E, {e[1] : e \in E} \cap {e[2] : e \in E})

\* The pairs of events whose second waits for the first to end.
Before(p, deps) == Closure(UNION {{<<d, e>> : d \in WaitsFor(p, deps, e)} : e \in Events(p)})

-----------------------------------------------------------------------------
(***************************************************************************)
(* The order the sequential program has.                                   *)
(***************************************************************************)
\* a comes before b: in an earlier iteration of the outermost loop that
\* tells them apart, which is not a parallel one, or earlier in the body.
Precedes(p, a, b) ==
  LET apart == {f \in LoopsAround(p, a[1]) \cap LoopsAround(p, b[1]) : a[2][f] # b[2][f]}
  IN  IF apart = {} THEN Position(p, a[1][1]) < Position(p, b[1][1])
      ELSE \E f \in apart : /\ apart \cap Around(p, f) = {}
                            /\ Kind(p, f) = "for"
                            /\ a[2][f] < b[2][f]

\* The memref a value stands for, outside of the hierarchy ops it is passed to.
Passed(p, m) ==
  LET up[k \in 0..3] == IF k = 0 THEN m
                        ELSE IF up[k-1] \in DOMAIN p.args THEN p.args[up[k-1]].of ELSE up[k-1]
  IN  up[3]

\* The buffer: an alloc makes a new one in every iteration.
Buffer(p, m, it) ==
  LET b == Passed(p, m)
  IN  <<b, [f \in Loops(p) |-> IF b \in Ops(p) /\ f \in Around(p, b) THEN it[f] ELSE 0]>>

Overlap(x, y) == x = "" \/ y = "" \/ x = y
Touches(p, o) == p.op[o].ins \cup p.op[o].outs

\* The tiles over which two events may not be reordered: one writes what the
\* other touches.
ConflictTiles(p, a, b) ==
  {<<s, t>> \in Touches(p, a[1][1]) \X Touches(p, b[1][1]) :
     /\ s \in p.op[a[1][1]].outs \/ t \in p.op[b[1][1]].outs
     /\ Buffer(p, s.m, a[2]) = Buffer(p, t.m, b[2])
     /\ Overlap(s.x, t.x)}
\* An event computes an index of the other.
Computes(p, a, b) ==
  /\ Kind(p, a[1][1]) = "apply" /\ a[1][1] \in ScalarIns(p, b[1][1])
  /\ \A f \in LoopsAround(p, a[1]) : a[2][f] = b[2][f]
Conflict(p, a, b) == ConflictTiles(p, a, b) # {} \/ Computes(p, a, b)

LeafEvents(p) == {e \in Events(p) : e[1][1] \in Leaves(p) /\ e[1][2] = "op"}
MustPrecede(p) ==
  {<<a, b>> \in LeafEvents(p) \X LeafEvents(p) : Precedes(p, a, b) /\ Conflict(p, a, b)}

-----------------------------------------------------------------------------
(***************************************************************************)
(* The data the sequential program leaves in memory.  Every core of a herd *)
(* executes its body.  An execution is an op and the coordinates of the    *)
(* ops around it: the iteration of a loop, the number of a core.  A value  *)
(* is the term <<what computed it, integers, the operands it is computed   *)
(* from>>.                                                                 *)
(***************************************************************************)
Rows(p, h) == IF h \in DOMAIN p.size THEN p.size[h][1] ELSE 1
Cols(p, h) == IF h \in DOMAIN p.size THEN p.size[h][2] ELSE 1
Coordinates(p, q) ==
  IF q \in Loops(p) \ DOMAIN p.size THEN Trips ELSE Rows(p, q) * Cols(p, q)

\* The executions of the leaves in the order of the sequential program, one
\* core of a herd after the other.
Executions(p) ==
  LET body[q \in Ops(p) \cup {""}] ==
        LET at(i, b) == [j \in DOMAIN b |-> <<b[j][1], <<i>> \o b[j][2]>>]
            nest(o, b) == FlattenSeq([i \in 1..Coordinates(p, o) |-> at(i - 1, b)])
            runs(o) == IF o \in Leaves(p) THEN <<<<o, <<>>>>>> ELSE nest(o, body[o])
            children == SelectSeq(p.order, LAMBDA o : Parent(p, o) = q)
        IN  FlattenSeq([i \in DOMAIN children |-> runs(children[i])])
  IN  body[""]

\* The coordinate of a loop or a herd around an execution.
Coordinate(p, e, q) == e[2][CHOOSE i \in DOMAIN e[2] : p.op[e[1]].around[i] = q]
\* The ids of the herd, or of the parallel loop a herd was hoisted into.
HerdIds(p, e) ==
  LET h == CHOOSE q \in Around(p, e[1]) : q \in DOMAIN p.size
      n == Coordinate(p, e, h)
  IN  <<n \div Cols(p, h), n % Cols(p, h)>>

\* The branch of a broadcast a core takes: the first whose set it is in, or
\* else the last.
BranchOf(b, ids) ==
  LET n == Len(b.value)
      in(i) == ids[b.dim] = i - 1 /\ ids[3 - b.dim] < b.range
  IN  IF \E i \in 1..n-1 : in(i) THEN CHOOSE i \in 1..n-1 : in(i) ELSE n

Eval(p, s, e) ==
  LET v[n \in DOMAIN p.scalar] ==
        LET r == p.scalar[n] IN
        CASE r.fn = "id"     -> HerdIds(p, e)[r.by]
          [] r.fn = "iv"     -> Coordinate(p, e, r.args[1])
          [] r.fn = "const"  -> r.by
          [] r.fn = "apply"  -> r.by * v[r.args[1]]
          [] r.fn = "addi"   -> v[r.args[1]] + v[r.args[2]]
          [] r.fn = "muli"   -> v[r.args[1]] * v[r.args[2]]
          [] r.fn = "select" -> p.select[n].value[BranchOf(p.select[n], HerdIds(p, e))]
  IN  v[s]

\* The cell of memory a tile is: an alloc makes one for every execution.
Cell(p, e, t) ==
  LET m == Passed(p, t.m)
      x == IF t.x = "" THEN <<>> ELSE p.index[t.x]
  IN  <<m, IF m \in Ops(p) THEN SubSeq(e[2], 1, Len(p.op[m].around)) ELSE <<>>,
        [i \in 1..Len(x) |-> Eval(p, x[i], e)]>>

\* The execution at the other end of the channel a put or get uses: the one
\* with the same coordinates, where the herd's is that of the channel.
OtherEnd(p, e) ==
  LET around == p.op[e[1]].around
      i == CHOOSE j \in DOMAIN around : around[j] = HierOf(p, e[1])
      ends == p.link[e[1]]
      to == IF Len(ends) = 1 THEN ends[1]
            ELSE ends[BranchOf([dim |-> p.range[e[1]].dim, range |-> p.range[e[1]].n, value |-> ends], HerdIds(p, e))]
      grid == {q \in Around(p, to) : q \in DOMAIN p.size}
      in(n, size) == IF size = 1 THEN 0 ELSE n
      index == IF grid = {} THEN <<>>
               ELSE LET q == CHOOSE r \in grid : TRUE
                    IN  <<in(HerdIds(p, e)[1], Rows(p, q)) * Cols(p, q) + in(HerdIds(p, e)[2], Cols(p, q))>>
  IN  <<to, SubSeq(e[2], 1, i - 1) \o index \o SubSeq(e[2], i + 1, Len(around))>>

\* Where a dma reads and writes; so do the ends of a channel together.
Moves(p, e) ==
  LET one(S) == CHOOSE t \in S : TRUE IN
  CASE Kind(p, e[1]) = "dma" -> [from |-> Cell(p, e, one(p.op[e[1]].ins)), to |-> Cell(p, e, one(p.op[e[1]].outs))]
    [] Kind(p, e[1]) = "get" -> [from |-> Cell(p, OtherEnd(p, e), one(p.op[OtherEnd(p, e)[1]].ins)),
                                 to |-> Cell(p, e, one(p.op[e[1]].outs))]
    [] Kind(p, e[1]) = "put" -> [from |-> Cell(p, e, one(p.op[e[1]].ins)),
                                 to |-> Cell(p, OtherEnd(p, e), one(p.op[OtherEnd(p, e)[1]].outs))]

Written(p, mem, e) ==
  LET o == e[1]
      held(c) == IF c \in DOMAIN mem THEN mem[c] ELSE <<c[1], c[2] \o c[3], {}>>
      used == {t \in Touches(p, o) : <<o, t.m>> \notin p.unread}
      value == IF Kind(p, o) = "linalg" THEN <<o, <<>>, {<<t.m, held(Cell(p, e, t))>> : t \in used}>>
               ELSE held(Moves(p, e).from)
      cells == IF Kind(p, o) = "linalg" THEN {Cell(p, e, t) : t \in p.op[o].outs} ELSE {Moves(p, e).to}
  IN  [c \in DOMAIN mem \cup cells |-> IF c \in cells THEN value ELSE mem[c]]

\* What is left in the memrefs that are not allocated in the program.
FinalMemory(p) ==
  LET all == SelectSeq(Executions(p), LAMBDA e : Kind(p, e[1]) \in {"dma", "linalg"} \/ e[1] \in DOMAIN p.link)
      mem[n \in 0..Len(all)] == IF n = 0 THEN <<>> ELSE Written(p, mem[n-1], all[n])
      last == mem[Len(all)]
  IN  {<<c, last[c]>> : c \in {d \in DOMAIN last : d[1] \notin Ops(p)}}
=============================================================================
