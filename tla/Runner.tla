------------------------------- MODULE Runner -------------------------------
(***************************************************************************)
(* The simulation of an asynchronous program by AIRRunner                  *)
(* (src/mlir/lib/Util/Runner.cpp): a wavefront of events per hierarchy op, *)
(* started when their dependencies are fulfilled, tokens that let a loop's *)
(* body run once per iteration, channels between a put and a get.          *)
(* One pass of scheduleLaunch's loop is, for each runner node in turn, an  *)
(* Execute for every event of its wavefront that is done, and a Start of   *)
(* what has become ready.  The order of the events within a wavefront is   *)
(* left open.                                                              *)
(***************************************************************************)
EXTENDS DependencyGraph, FiniteSetsExt

CONSTANTS
  Programs,   \* records: ops, a program; nodes, its graphs in the order they
              \* are processed; latency, of every vertex; launches, the size
              \* of the launch's iteration space
  MaxTime     \* the simulation is given up after this time

VARIABLES
  prog,       \* the record being simulated
  edges,      \* the edges of all its graphs
  paths,      \* the pairs of vertices with a path between them
  regular,    \* whether the program is Regular (below)
  time,       \* the simulation's clock
  at,         \* the position in prog.nodes of the node being processed
  running,    \* whether a node processed in this pass has a wavefront
  launched,   \* launch iterations begun
  stage,      \* where each event is: in its node's wavefront, in its
              \* processed_vertices, or in neither ("idle")
  trips,      \* loop_trip_count: per loop, the entries <<token, count>>
  start_time, end_time, token_count,
  began       \* history: how often each event was started in this launch

vars == <<prog, edges, paths, regular, time, at, running, launched, stage,
          trips, start_time, end_time, token_count, began>>
progVars == <<prog, edges, paths, regular>>

p == prog.ops
Graphs == {prog.nodes[i] : i \in DOMAIN prog.nodes}
AllVertices == {v \in (DOMAIN p) \X {1, 2} : v[2] = 1 \/ p[v[1]].kind = "execute"}
Loops == {o \in DOMAIN p : p[o].kind = "for_loop"}
Kind(v) == p[v[1]].kind
Node == prog.nodes[at]
Here == Vertices(p, Node)
Succ(v) == {w \in AllVertices : <<v, w>> \in edges}
Pred(v) == {u \in AllVertices : <<u, v>> \in edges}

is_started(v) == start_time[v] # 0 /\ end_time[v] # 0
is_done(v)    == time >= end_time[v]
Done(v)       == is_started(v) /\ is_done(v)

wavefront == {v \in AllVertices : stage[v] = "wavefront"}
processed == {v \in AllVertices : stage[v] = "processed"}
Moved(stages, V, to) == [v \in AllVertices |-> IF v \in V THEN to ELSE stages[v]]
Forgotten(V) == [v \in AllVertices |->
                   IF v \in V /\ stage[v] = "processed" THEN "idle" ELSE stage[v]]

-----------------------------------------------------------------------------
(* resetGraphBetweenTwoVertices.                                           *)

\* The vertices on the paths from a to b in a's graph.
OnPaths(a, b) == {v \in Vertices(p, p[a[1]].graph) : <<a, v>> \in paths /\ <<v, b>> \in paths}

\* The graphs below the hierarchy ops among the vertices V, at any depth.
GraphsBelow(V) ==
  LET subs(S) == {p[v[1]].ref : v \in {w \in S : Kind(w) = "hierarchy"}}
      below[n \in 0..Len(prog.nodes)] ==
        IF n = 0 THEN subs(V)
        ELSE below[n - 1] \cup UNION {subs(Vertices(p, g)) : g \in below[n - 1]}
  IN  below[Len(prog.nodes)]
VerticesBelow(V) == UNION {Vertices(p, g) : g \in GraphsBelow(V)}

\* Times are cleared of the events in V that are complete.  The graph of a
\* hierarchy op is copied before it is reset (sub_g), so that its events keep
\* their times.
cleared(times, V) == [v \in AllVertices |-> IF v \in V /\ Done(v) THEN 0 ELSE times[v]]
uncounted(V) == [f \in Loops |-> IF <<f, 1>> \in V \cup VerticesBelow(V) THEN <<>> ELSE trips[f]]

-----------------------------------------------------------------------------
(* executeOp, by kind of event.                                            *)

\* A loop-carried token is consumed by the event that waited for it.
consumedKept(counts, v) == counts                         \* mutant: never
consumed(counts, v) ==
  IF \E u \in Pred(v) : Kind(u) = "for_loop" THEN [counts EXCEPT ![v] = @ - 1] ELSE counts

ExecuteHierarchy(v) ==
  LET g == p[v[1]].ref
      s == StartVertex(p, g)
      V == Vertices(p, g)
  IN  /\ Kind(v) = "hierarchy"
      /\ start_time' = [cleared(start_time, V) EXCEPT ![s] = time]
      /\ end_time' = [cleared(end_time, V) EXCEPT ![s] = time]
      /\ stage' = Moved(Moved(Forgotten(V \cup VerticesBelow(V)), {s}, "wavefront"),
                        {v}, "processed")
      /\ trips' = uncounted(V)
      /\ token_count' = consumed(token_count, v)

ExecuteFor(v) ==
  LET f == v[1]
      entries == [i \in 1..Len(p[f].deps) |-> <<i, p[f].trip>>]
  IN  /\ Kind(v) = "for_loop"
      /\ trips' = [trips EXCEPT ![f] = @ \o entries]
      /\ token_count' = consumed([w \in AllVertices |->
                          token_count[w] + (IF w \in Succ(v) THEN 1 ELSE 0)], v)
      /\ stage' = Moved(stage, {v}, "processed")
      /\ UNCHANGED <<start_time, end_time>>

\* The tokens of a yield that are ready: the first vertex of the op that
\* defines the operand is done.
ReadyTokens(y) == {i \in 1..Len(p[y].deps) : Done(FrontOf(p, p[y].deps[i].of))}

countedAllMutant(f, ready) == \* mutant: whatever token is ready
  [j \in DOMAIN trips[f] |->
     LET e == trips[f][j] IN IF e[2] > 0 THEN <<e[1], e[2] - 1>> ELSE e]
countedMutant(f, ready) == \* mutant: one trip is never counted
  [j \in DOMAIN trips[f] |->
     LET e == trips[f][j] IN IF e[1] \in ready /\ e[2] > 1 THEN <<e[1], e[2] - 1>> ELSE e]
counted(f, ready) ==
  [j \in DOMAIN trips[f] |->
     LET e == trips[f][j] IN IF e[1] \in ready /\ e[2] > 0 THEN <<e[1], e[2] - 1>> ELSE e]

\* The operands of the loop body that are iteration argument i of loop f.
Uses(f, i) == {<<o, n>> \in (DOMAIN p) \X (1..4) :
                 n \in DOMAIN p[o].deps /\ p[o].deps[n] = Arg(f, i)}

ExecuteYield(v) ==
  LET f == p[v[1]].ref
      ready == ReadyTokens(v[1])
      now == counted(f, ready)
      uses == UNION {Uses(f, i) : i \in ready}
      heads == {FrontOf(p, u[1]) : u \in uses}
      body == UNION {OnPaths(w, v) : w \in heads}
      again == heads \cup body \cup VerticesBelow(body)
  IN  /\ Kind(v) = "terminator"
      /\ IF \A j \in DOMAIN now : now[j][2] = 0
           THEN /\ stage' = Moved(stage, {v}, "processed")
                /\ trips' = [trips EXCEPT ![f] = now]
                /\ token_count' = consumed(token_count, v)
                /\ UNCHANGED <<start_time, end_time>>
           ELSE /\ stage' = Moved(Forgotten(again), {v}, "idle")
                /\ trips' = [uncounted(body) EXCEPT ![f] = now]
                /\ start_time' = cleared(start_time, heads \cup body)
                /\ end_time' = cleared(end_time, heads \cup body)
                /\ token_count' = consumed([w \in AllVertices |->
                     token_count[w] + Cardinality({u \in uses : FrontOf(p, u[1]) = w})], v)

ExecuteOther(v) ==
  /\ Kind(v) \notin {"hierarchy", "for_loop", "terminator"}
  /\ stage' = Moved(stage, {v}, "processed")
  /\ token_count' = consumed(
       CASE Kind(v) = "put" -> [token_count EXCEPT ![v] = @ + 1]
         [] Kind(v) = "get" -> [token_count EXCEPT ![<<p[v[1]].ref, 1>>] = @ - 1]
         [] OTHER -> token_count, v)
  /\ UNCHANGED <<trips, start_time, end_time>>

Executable == {v \in wavefront \cap Here : Done(v)}

Execute ==
  /\ at # 0
  /\ \E v \in Executable :
       ExecuteHierarchy(v) \/ ExecuteFor(v) \/ ExecuteYield(v) \/ ExecuteOther(v)
  /\ UNCHANGED <<progVars, time, at, running, launched, began>>

-----------------------------------------------------------------------------
(* processGraph: what can be started.                                      *)

Fulfilled(u, v) ==
  CASE Kind(u) = "hierarchy" -> Done(TerminatorVertex(p, p[u[1]].ref))
    [] Kind(u) = "for_loop"  -> Done(u) /\ token_count[v] # 0
    [] OTHER                 -> Done(u)

\* A yield goes ahead with any of its dependencies, everything else with all.
AllFulfilledMutant(v) == \* mutant: one dependency is enough for every op
  \E u \in Pred(v) : Fulfilled(u, v)
AllFulfilled(v) ==
  IF Kind(v) = "terminator"
    THEN \E u \in Pred(v) : Fulfilled(u, v)
    ELSE /\ \A u \in Pred(v) : Fulfilled(u, v)
         /\ Kind(v) = "get" => token_count[<<p[v[1]].ref, 1>>] # 0

Candidates ==
  {w \in Here \ (processed \cup wavefront) : \E u \in processed \cap Here : <<u, w>> \in edges}

Startable == {v \in Candidates : AllFulfilled(v)}

StartReady ==
  /\ at # 0
  /\ Executable = {}
  /\ stage' = Moved(stage, Startable, "wavefront")
  /\ start_time' = [v \in AllVertices |-> IF v \in Startable THEN time ELSE start_time[v]]
  /\ end_time' = [v \in AllVertices |->
                    IF v \in Startable THEN time + prog.latency[v] ELSE end_time[v]]
  /\ began' = [v \in AllVertices |-> began[v] + (IF v \in Startable THEN 1 ELSE 0)]
  /\ running' = (running \/ (\E v \in Here : stage'[v] = "wavefront"))
  /\ at' = IF at = Len(prog.nodes) THEN 0 ELSE at + 1
  /\ UNCHANGED <<progVars, time, launched, trips, token_count>>

-----------------------------------------------------------------------------
(* scheduleLaunch and scheduleFunction.                                    *)

nextTime ==
  LET ends == {end_time[v] : v \in {w \in wavefront : is_started(w)}}
  IN  Max({time + 1, IF ends = {} THEN 0 ELSE Min(ends)})

\* The clock moves to the next event that ends.
Advance ==
  /\ at = 0
  /\ running
  /\ nextTime <= MaxTime
  /\ time' = nextTime
  /\ at' = 1
  /\ running' = FALSE
  /\ UNCHANGED <<progVars, launched, stage, trips, start_time, end_time, token_count, began>>

GaveUp   == at = 0 /\ running /\ nextTime > MaxTime
Finished == at = 0 /\ ~running

\* The next iteration of the launch has new runner nodes and the same graphs.
Relaunch ==
  LET top == prog.nodes[1]
      s == StartVertex(p, top)
      V == Vertices(p, top)
  IN  /\ Finished \/ GaveUp
      /\ launched < prog.launches
      /\ launched' = launched + 1
      /\ time' = IF GaveUp THEN nextTime ELSE time + 1
      /\ at' = 1
      /\ stage' = Moved([v \in AllVertices |-> "idle"], {s}, "wavefront")
      /\ trips' = [f \in Loops |-> <<>>]
      /\ start_time' = [cleared(start_time, V) EXCEPT ![s] = 1]
      /\ end_time' = [cleared(end_time, V) EXCEPT ![s] = 1]
      /\ began' = [v \in AllVertices |-> 0]
      /\ running' = FALSE
      /\ UNCHANGED <<progVars, token_count>>

-----------------------------------------------------------------------------
(* Programs whose loops the runner simulates as the program says.          *)

Operands(o) == {p[o].deps[n] : n \in DOMAIN p[o].deps}
YieldOperand(f, i) == p[YieldOf(p, f)].deps[i]
LoopArgs(o) == {d \in Operands(o) : d.as = "arg"}

\* The ops of loop f that its token i iterates over, up to the yield.
Body(f, i) == UNION {OnPaths(FrontOf(p, u[1]), FrontOf(p, YieldOf(p, f))) : u \in Uses(f, i)}

\* Every op of a loop's body belongs to one token, which the yield takes from
\* it: tokens do not wait for each other.
TokensApart == \A f \in Loops :
  /\ \A o \in DOMAIN p : p[o].loop = f /\ p[o].graph = p[f].graph =>
       \E i \in DOMAIN p[f].deps : FrontOf(p, o) \in Body(f, i)
  /\ \A i \in DOMAIN p[f].deps :
       /\ FrontOf(p, YieldOperand(f, i).of) \in Body(f, i)
       /\ \A j \in DOMAIN p[f].deps \ {i} : Body(f, i) \cap Body(f, j) = {FrontOf(p, YieldOf(p, f))}

\* No op takes two of a loop's iteration arguments: it has one token_count.
OneArg == \A o \in DOMAIN p : Cardinality(LoopArgs(o)) <= 1

\* A put takes none: its token_count is the channel's.
PutsApart == \A o \in DOMAIN p : p[o].kind = "put" => LoopArgs(o) = {}

\* What is simulated again does not wait for a hierarchy op and for something
\* else: the events of the hierarchy op's graph keep their times until it is
\* executed again, and the op would go ahead of it.
NotStale == \A o \in DOMAIN p :
  (p[o].loop # "" \/ prog.launches > 1) /\ p[o].kind # "hierarchy_terminator" /\ Cardinality(Operands(o)) > 1
    => \A d \in Operands(o) : p[d.of].kind # "hierarchy"

\* The yield of a loop with several tokens names nothing that goes on after
\* its first vertex, by which getReadyTokensAtScfYield looks it up.
YieldsFronts == \A o \in DOMAIN p : p[o].kind = "terminator" /\ Len(p[o].deps) > 1 =>
                  \A d \in Operands(o) : p[d.of].kind \notin {"execute", "for_loop", "hierarchy"}

\* With several tokens, the one that has made its trips is counted ready, and
\* iterated, as long as another is behind.
OneToken == \A f \in Loops : Len(p[f].deps) = 1

Regular == TokensApart /\ OneArg /\ PutsApart /\ NotStale /\ YieldsFronts

Init ==
  /\ prog \in Programs
  /\ edges = UNION {GraphEdges(p, g) : g \in Graphs}
  /\ paths = PathsFrom(AllVertices, edges)
  /\ regular = Regular
  /\ time = 1
  /\ at = 1
  /\ running = FALSE
  /\ launched = 1
  /\ LET s == StartVertex(p, prog.nodes[1])
         first == [v \in AllVertices |-> IF v = s THEN 1 ELSE 0]
     IN  /\ stage = Moved([v \in AllVertices |-> "idle"], {s}, "wavefront")
         /\ start_time = first /\ end_time = first
  /\ trips = [f \in Loops |-> <<>>]
  /\ token_count = [v \in AllVertices |-> 0]
  /\ began = [v \in AllVertices |-> 0]

Next == Execute \/ StartReady \/ Advance \/ Relaunch

Spec == Init /\ [][Next]_vars /\ WF_vars(Next)
-----------------------------------------------------------------------------
(* Properties.                                                             *)

\* Type invariant.  Counts of the tokens of loops and channels, which the
\* code decrements without a check, do not wrap below zero.
TypeOK ==
  /\ at \in 0..Len(prog.nodes)
  /\ stage \in [AllVertices -> {"idle", "wavefront", "processed"}]
  /\ regular => token_count \in [AllVertices -> Nat]
  /\ \A f \in Loops : \A j \in DOMAIN trips[f] : trips[f][j][2] \in 0..p[f].trip

\* The event whose end is the end of an op, and how often it has ended.
Ending(o) == IF p[o].kind = "hierarchy" THEN TerminatorVertex(p, p[o].ref) ELSE BackOf(p, o)
Ended(v) == began[v] - (IF start_time[v] # 0 /\ time < end_time[v] THEN 1 ELSE 0)

\* How often a token has been produced.  Loops are nested two deep at most.
Produced(d) ==
  LET inner(c) == IF c.as = "result"
                    THEN Ended(Ending(YieldOperand(c.of, c.i).of)) \div p[c.of].trip
                    ELSE Ended(Ending(c.of))
  IN  IF d.as = "result" THEN inner(YieldOperand(d.of, d.i)) \div p[d.of].trip ELSE inner(d)

\* How often the program executes op o.
Expected(o) ==
  LET around(x) == IF p[x].loop = "" THEN 1 ELSE p[p[x].loop].trip
  IN  IF p[o].loop = "" THEN 1 ELSE around(o) * around(p[o].loop)

\* Token d has been produced for the k-th execution of op o: an iteration
\* argument by the loop or by the yield of the iteration before.
ProducedFor(d, o, k) ==
  IF d.as = "arg"
    THEN IF (k - 1) % p[d.of].trip = 0
           THEN Ended(FrontOf(p, d.of)) >= ((k - 1) \div p[d.of].trip) + 1
           ELSE Produced(YieldOperand(d.of, d.i)) >= k - 1
    ELSE Produced(d) >= ((k - 1) \div (Expected(o) \div Expected(d.of))) + 1

MayBegin(o, k) ==
  /\ \A d \in Operands(o) : ProducedFor(d, o, k)
  /\ p[o].kind = "get" => Ended(<<p[o].ref, 1>>) >= k

\* processGraph starts an op's k-th execution only when everything it depends
\* on has been executed for that iteration, the end of the sub-graph of a
\* hierarchy op and the k-th put of a channel included.
InOrder ==
  [][regular =>
      \A v \in AllVertices :
        began'[v] > began[v] /\ v[2] = 1 /\ Kind(v) # "terminator" /\ launched' = launched
            /\ began[v] < Expected(v[1])
          => MayBegin(v[1], began[v] + 1)]_vars

\* When the simulation stops, no iteration of an op is missing.
NoneMissing ==
  regular /\ Finished => \A v \in AllVertices :
    Kind(v) \notin {"start", "terminator"} => began[v] >= Expected(v[1])

\* With one token per loop, none was simulated too often and every token of a
\* loop or channel was consumed.
NoneLeft ==
  regular /\ OneToken /\ Finished => \A v \in AllVertices :
    /\ Kind(v) # "start" => began[v] <= Expected(v[1])
    /\ token_count[v] = 0

\* The simulation comes to an end by itself, not by its limit on the time: no
\* event is left in a wavefront and no op waits for a lost token.
Completes == regular /\ OneToken ~> (Finished /\ launched = prog.launches)
=============================================================================
