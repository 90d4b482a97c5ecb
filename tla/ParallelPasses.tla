--------------------------- MODULE ParallelPasses ---------------------------
(***************************************************************************)
(* air-par-to-herd and air-par-to-launch: parallel loops become herds and  *)
(* launches (mlir/lib/Conversion/ConvertToAIRPass.cpp).  The bodies of the *)
(* new ops see what is defined outside of them through kernel arguments.   *)
(***************************************************************************)
EXTENDS LoopPasses

CONSTANT Depths   \* assign-depth: -1 for every depth

\* The ops of a nest by name, and the loops that are the dimensions of one.
Dims(nest, o)   == {i \in DOMAIN nest.loops : nest.loops[i].op = o}
OpNames(nest)   == {nest.loops[i].op : i \in DOMAIN nest.loops}
KindOf(nest, o) == nest.loops[Min(Dims(nest, o))].kind
Above(nest, o)  == {q \in OpNames(nest) : Max(Dims(nest, q)) < Min(Dims(nest, o))}
Below(nest, o)  == {q \in OpNames(nest) : Min(Dims(nest, q)) > Max(Dims(nest, o))}
OfKinds(nest, kinds) == {o \in OpNames(nest) : KindOf(nest, o) \in kinds}

parallel_depth(nest, o, kinds) == Cardinality(Above(nest, o) \cap OfKinds(nest, kinds))
AtDepth(nest, o, kinds, depth) == depth < 0 \/ parallel_depth(nest, o, kinds) = depth

\* The parallel ops that may become herds.
herdFilter(nest, depth) ==
  {o \in OfKinds(nest, {"scf", "affine"}) :
     /\ Above(nest, o) \cap OfKinds(nest, {"herd"}) = {}
     /\ Below(nest, o) \cap OfKinds(nest, {"herd", "launch", "partition"}) = {}
     /\ AtDepth(nest, o, {"scf", "affine"}, depth)}
launchFilter(nest, depth) ==
  {o \in OfKinds(nest, {"scf"}) :
     /\ Above(nest, o) \cap OfKinds(nest, {"herd", "launch"}) = {}
     /\ Below(nest, o) \cap OfKinds(nest, {"launch"}) = {}
     /\ AtDepth(nest, o, {"scf"}, depth)}

-----------------------------------------------------------------------------
\* Constants only, and steps that divide the range.
CanNormalize(nest, o) ==
  \A i \in Dims(nest, o) :
    LET l == nest.loops[i]
    IN  ConstantBounds(l) /\ (UpperBound(l) - l.lb.c) % l.step = 0

ivMap(l) == AddTimes(l.lb, l.step, Var(l.iv))

\* Every dimension from 0 in steps of 1; the body begins with the old variables.
normalizeScfParallel(nest, o) ==
  LET dims == Dims(nest, o)
      last == Max(dims)
      step(n, i) ==
        LET l == n.loops[i]
            v == Fresh(l.iv, NamesIn(n))
            inside == RenameInside(n, last, l.iv, v)
        IN  [inside EXCEPT
               !.loops[i] = [@ EXCEPT !.lb = Num(0), !.step = 1,
                                      !.ub = {Upper(Num((UpperBound(l) - l.lb.c) \div l.step))}],
               !.loops[last].ops = <<Apply(v, ivMap(l))>> \o @]
  IN  FoldLeft(step, nest, SetToSortSeq(dims, <))

normalizeAffineParallel(nest, o) ==
  FoldLeft(normalizeAffineFor, nest, Reverse(SetToSortSeq(Dims(nest, o), <)))

\* A name for a herd that has none.
HerdName(nest) ==
  LET herds == OfKinds(nest, {"herd"})
      name(k) == "herd_" \o ToString(k)
  IN  name(Min({k \in 0..Cardinality(herds) : name(k) \notin herds}))

Rekind(nest, is, kind, name) ==
  [nest EXCEPT !.loops = [i \in DOMAIN @ |-> IF i \in is THEN [@[i] EXCEPT !.kind = kind, !.op = name] ELSE @[i]]]

\* The last two dimensions become the herd, the others stay a parallel op; a
\* single one gets a second dimension of 1.
ScfParToHerd(nest, o) ==
  LET normal == normalizeScfParallel(nest, o)
      dims   == Dims(nest, o)
      last   == Max(dims)
      herd   == {i \in dims : i > last - 2}
      herds  == Rekind(normal, herd, "herd", HerdName(nest))
      one    == [herds.loops[last] EXCEPT !.iv = "one", !.ub = {Upper(Num(1))}]
      bare   == [herds EXCEPT !.loops[last].ops = <<>>]
  IN  IF Cardinality(dims) > 1 THEN herds
      ELSE [bare EXCEPT !.loops = SubSeq(@, 1, last) \o <<one>> \o SubSeq(@, last + 1, Len(@))]

\* An affine.parallel that is not two-dimensional is left as it is.
AffineParToHerd(nest, o) ==
  IF Cardinality(Dims(nest, o)) # 2 THEN nest
  ELSE Rekind(normalizeAffineParallel(nest, o), Dims(nest, o), "herd", HerdName(nest))

\* The outermost first.  An affine.parallel is converted whether it has passed
\* the filter or not.
ConvertToHerds(nest, filtered) ==
  LET convert(n, o) == IF KindOf(n, o) = "affine" THEN AffineParToHerd(n, o) ELSE ScfParToHerd(n, o)
      all == filtered \cup OfKinds(nest, {"affine"})
  IN  FoldLeft(convert, nest, SetToSortSeq(all, LAMBDA a, b : a \in Above(nest, b)))

\* The depth that is asked for is one depth, and all of affine.parallel is there.
OneDepth(nest, filtered) ==
  /\ \A o, q \in filtered : o \notin Above(nest, q)
  /\ OfKinds(nest, {"affine"}) \subseteq filtered

ParallelToHerd(depth) ==
  /\ NextPass
  /\ \E b \in DOMAIN fn : herdFilter(fn[b], depth) \cup OfKinds(fn[b], {"affine"}) # {}
  /\ LET filtered(b) == herdFilter(fn[b], depth) IN
     IF \A b \in DOMAIN fn : \A o \in filtered(b) : KindOf(fn[b], o) = "scf" => CanNormalize(fn[b], o)
     THEN /\ fn' = [b \in DOMAIN fn |-> ConvertToHerds(fn[b], filtered(b))]
          /\ UNCHANGED outcome
     ELSE outcome' = "failed" /\ UNCHANGED fn
  /\ assumed' = (assumed /\ \A b \in DOMAIN fn : OneDepth(fn[b], herdFilter(fn[b], depth)))
  /\ reordered' = TRUE
  /\ UNCHANGED forOpLevel

-----------------------------------------------------------------------------
\* What the body of op o takes from outside of it.
UsedAbove(nest, o) ==
  LET last == Max(Dims(nest, o))
      in   == {i \in DOMAIN nest.loops : i > last}
      names == UNION {DOMAIN nest.loops[i].lb.t \cup UNION {DOMAIN u.lin.t : u \in nest.loops[i].ub} : i \in in}
               \cup UNION {UNION {DOMAIN q.lin.t : q \in ToSet(nest.loops[i].ops)} : i \in in \cup {last}}
               \cup ToSet(nest.uses)
      defined == {nest.loops[i].iv : i \in in}
                 \cup UNION {{q.name : q \in ToSet(nest.loops[i].ops)} : i \in in \cup {last}}
      ivs == {nest.loops[i].iv : i \in Dims(nest, o)}
  IN  names \ (defined \cup ivs)

ScfParToLaunch(nest, o) == Rekind(normalizeScfParallel(nest, o), Dims(nest, o), "launch", o \o "_launch")

\* The operands of the partition: the ids of the launch, its sizes and its
\* kernel arguments.
partitionOpers(launch, ids, args) ==
  [i \in DOMAIN ids |-> Var(launch.loops[ids[i]].iv)]
  \o [i \in DOMAIN ids |-> Num(UpperBound(launch.loops[ids[i]]))]
  \o [i \in DOMAIN args |-> Var(args[i])]

firstArg(n) == n + n

\* The body becomes that of a partition in the launch, whose kernel arguments
\* stand for the ids and for what the body takes from outside.
ScfParToLaunchAndPartition(nest, o) ==
  LET launch == ScfParToLaunch(nest, o)
      ids    == SetToSortSeq(Dims(nest, o), <)
      last   == Max(Dims(nest, o))
      args   == SetToSeq(UsedAbove(launch, o \o "_launch"))
      opers  == partitionOpers(launch, ids, args)
      arg(k) == o \o "_arg" \o ToString(k)
      bind   == [k \in DOMAIN opers |-> Apply(arg(k), opers[k])]
      withIds  == FoldLeft(LAMBDA n, i : RenameInside(n, last, launch.loops[ids[i]].iv, arg(i)),
                           launch, [i \in DOMAIN ids |-> i])
      withArgs == FoldLeft(LAMBDA n, i : RenameInside(n, last, args[i], arg(firstArg(Len(ids)) + i)),
                           withIds, [i \in DOMAIN args |-> i])
      partition == [withArgs.loops[last] EXCEPT
                      !.iv = o \o "_", !.kind = "partition", !.op = o \o "_partition",
                      !.ub = {Upper(Num(1))}, !.ops = bind \o @]
      bare == [withArgs EXCEPT !.loops[last].ops = <<>>]
  IN  [bare EXCEPT !.loops = SubSeq(@, 1, last) \o <<partition>> \o SubSeq(@, last + 1, Len(@))]

ConvertToLaunches(nest, filtered, hasPartition) ==
  FoldLeft(LAMBDA n, o : IF hasPartition THEN ScfParToLaunchAndPartition(n, o) ELSE ScfParToLaunch(n, o),
           nest, SetToSortSeq(filtered, LAMBDA a, b : a \in Above(nest, b)))

ParallelToLaunch(depth, hasPartition) ==
  /\ NextPass
  /\ \E b \in DOMAIN fn : launchFilter(fn[b], depth) # {}
  /\ LET filtered(b) == launchFilter(fn[b], depth) IN
     IF \A b \in DOMAIN fn : \A o \in filtered(b) : CanNormalize(fn[b], o)
     THEN /\ fn' = [b \in DOMAIN fn |-> ConvertToLaunches(fn[b], filtered(b), hasPartition)]
          /\ UNCHANGED outcome
     ELSE outcome' = "failed" /\ UNCHANGED fn
  /\ reordered' = TRUE
  /\ UNCHANGED <<forOpLevel, assumed>>

-----------------------------------------------------------------------------
LoopNext ==
  \/ ForPass
  \/ \E depth \in Depths : ParallelToHerd(depth)
  \/ \E depth \in Depths, hasPartition \in BOOLEAN : ParallelToLaunch(depth, hasPartition)

LoopSpec == LoopInit /\ [][LoopNext]_loopVars
=============================================================================
