----------------------------- MODULE LoopPasses -----------------------------
(***************************************************************************)
(* The passes that reshape nests of affine.for: air-automatic-tiling,      *)
(* affine-loop-opt (its tiling), air-regularize-loop, air-loop-permutation *)
(* and air-loop-merging, one after the other on one function.  Loads and   *)
(* stores between the loops of a nest are not modelled.                    *)
(*                                                                         *)
(* The passes read the label of a band after they have erased the band's   *)
(* first loop: the new nest may be left without one.                       *)
(***************************************************************************)
EXTENDS LoopNests

CONSTANTS Functions,  \* the functions a pipeline starts from
          Labels, PostLabels, TileSizes, Orders, MergeLevels,  \* pass options
          MaxPasses   \* bound: passes in a pipeline

VARIABLES
  fn,          \* the function: its nests
  meaning,     \* what each executed at first
  forOpLevel,  \* the static variable of constructTiledLoopNest
  outcome,     \* "ok", "failed" (the pass says so), "aborted" (an assertion) or
               \* "crashed" (a write outside of an array)
  assumed,     \* every pass got what its description assumes
  reordered,   \* a pass that changes the order of execution has run
  passes

loopVars == <<fn, meaning, forOpLevel, outcome, assumed, reordered, passes>>

-----------------------------------------------------------------------------
(* Bands *)

ForLoops(nest) == {i \in DOMAIN nest.loops : nest.loops[i].kind = "for"}

\* The walk is in post-order: an inner loop with the label comes first.
getLabel(nest, label) ==
  {i \in ForLoops(nest) : /\ nest.loops[i].label # "none"
                          /\ label = "" \/ nest.loops[i].label = label}

\* The loops of a band by their place in the nest: the one with the label and
\* those that are perfectly nested in it.
BandOf(nest, label) ==
  LET root == Max(getLabel(nest, label))
      in   == {k \in root..Len(nest.loops) :
                 \A j \in root..k - 1 : nest.loops[j].ops = <<>> /\ j + 1 \in ForLoops(nest)}
  IN  [first |-> root, last |-> Max(in)]

\* The nests in which getTileableBands finds a band.
Tileable(f, label) == {b \in DOMAIN f : 1 \in ForLoops(f[b]) /\ getLabel(f[b], label) # {}}

BandLoops(nest, band) == SubSeq(nest.loops, band.first, band.last)
ReplaceBand(nest, band, loops) ==
  [nest EXCEPT !.loops = SubSeq(@, 1, band.first - 1) \o loops \o SubSeq(@, band.last + 1, Len(@))]

\* A pass on every nest that has a band: Pass(nest, band, its number).
ForBands(f, label, Pass(_, _, _)) ==
  FoldLeft(LAMBDA g, b : IF b \in Tileable(f, label)
                         THEN [g EXCEPT ![b] = Pass(f[b], BandOf(f[b], label), b)] ELSE g,
           f, [b \in DOMAIN f |-> b])
Passed(f, label, P(_, _)) == \A b \in Tileable(f, label) : P(f[b], BandOf(f[b], label))

\* A name replaced in the loops after the k-th, its ops and the statement.
RenameInside(nest, k, n, m) ==
  [loops |-> SubSeq(nest.loops, 1, k - 1)
             \o << [nest.loops[k] EXCEPT !.ops = RenameOps(@, n, m)] >>
             \o [i \in 1..Len(nest.loops) - k |-> RenameLoop(nest.loops[k + i], n, m)],
   uses  |-> RenameUses(nest.uses, n, m)]

NamesIn(nest) ==
  UNION {{nest.loops[i].iv} \cup {o.name : o \in ToSet(nest.loops[i].ops)} : i \in DOMAIN nest.loops}
RECURSIVE Fresh(_, _)
Fresh(n, used) == IF n \in used THEN Fresh(n \o "'", used) ELSE n

\* normalizeAffineFor: from 0 in steps of 1, with an apply for the old variable.
Normalized(l) == l.lb = Num(0) /\ l.step = 1
normalizeAffineFor(nest, k) ==
  LET l == nest.loops[k]
      n == Fresh(l.iv, NamesIn(nest))
      upper(u) == LET v == AddTimes(u.lin, -u.div, l.lb)
                      d == u.div * l.step
                  IN  IF IsNum(v) THEN Upper(Num(CeilDiv(v.c, d))) ELSE [lin |-> v, div |-> d]
      inside == RenameInside(nest, k, l.iv, n)
  IN  IF Normalized(l) THEN nest
      ELSE [inside EXCEPT !.loops[k] =
              [@ EXCEPT !.lb = Num(0), !.step = 1, !.ub = {upper(u) : u \in l.ub},
                        !.ops = <<Apply(n, AddTimes(l.lb, l.step, Var(l.iv)))>> \o @]]
NormalizeFrom(nest, first, last) ==
  FoldLeft(normalizeAffineFor, nest, [i \in 1..(last - first + 1) |-> first + i - 1])

\* The label of the new nest: that of the old one or the one the option gives,
\* if the erased loop can still be read.
NewLabel(label, post) == IF post = "" THEN label ELSE post
Relabelled(loop, post, read) == IF read THEN NewLabel(loop.label, post) ELSE "none"

HyperRectangular(loops) ==
  \A i, j \in DOMAIN loops : \A l \in {loops[j].lb} \cup {u.lin : u \in loops[j].ub} :
    loops[i].iv \notin DOMAIN l.t

-----------------------------------------------------------------------------
(* air-automatic-tiling without tile sizes *)

RECURSIVE oddFactors(_, _)
oddFactors(n, i) ==
  IF i < n THEN IF n % i = 0 THEN <<i>> \o oddFactors(n \div i, i) ELSE oddFactors(n, i + 2)
  ELSE IF n > 2 THEN <<n>> ELSE <<>>
RECURSIVE factorConstant(_)
factorConstant(n) == IF n % 2 = 0 THEN <<2>> \o factorConstant(n \div 2) ELSE oddFactors(n, 3)

Product(s, from) == FoldLeft(LAMBDA a, x : a * x, 1, SubSeq(s, from, Len(s)))

shiftAmount(p, j) == Product(p, j)

\* The loops for one loop and the factors of its trip count.
TiledLoops(l, p) ==
  LET iv(j) == l.iv \o "." \o ToString(j)
  IN  [j \in DOMAIN p |->
         [l EXCEPT !.iv = iv(j), !.label = "none", !.ops = <<>>,
                   !.step = Product(p, j + 1),
                   !.lb = IF j = 1 THEN @ ELSE Var(iv(j - 1)),
                   !.ub = IF j = 1 THEN @
                          ELSE {Upper(AddTimes(Num(shiftAmount(p, j)), 1, Var(iv(j - 1))))}]]

\* The body of the band's last loop goes into the last new loop; what is
\* between the others is erased with them.
constructTiledLoopNest(nest, band, setOfPrimeFactors, newLabel) ==
  LET orig  == BandLoops(nest, band)
      tiled == FlattenSeq([i \in DOMAIN orig |-> TiledLoops(orig[i], setOfPrimeFactors[i])])
      last  == Len(tiled)
      new   == [tiled EXCEPT ![1].label = newLabel, ![last].ops = orig[Len(orig)].ops]
      ivOf(i) == orig[i].iv \o "." \o ToString(Len(setOfPrimeFactors[i]))
  IN  FoldLeft(LAMBDA n, i : RenameInside(n, band.first + last - 1, orig[i].iv, ivOf(i)),
               ReplaceBand(nest, band, new), [i \in DOMAIN orig |-> i])

Factors(nest, band) ==
  LET orig == BandLoops(nest, band)
  IN  [i \in DOMAIN orig |-> factorConstant(UpperBound(orig[i]))]

\* Each band with the prime factors of its trip counts.  The level in the new
\* nest that the next loop is written to is not set back for the next band.
tileLoopsAutomatically(f, bands, level, post, read) ==
  LET tile(s, b) ==
        LET p == Factors(s.f[b], bands[b])
            width == Len(FlattenSeq(p))
        IN  IF \E l \in ToSet(BandLoops(s.f[b], bands[b])) : ~ConstantBounds(l) \/ UpperBound(l) <= 1
            THEN [s EXCEPT !.outcome = "aborted"]
            ELSE IF s.level > 0 THEN [s EXCEPT !.outcome = "crashed"]
            ELSE [s EXCEPT !.level = @ + width,
                           !.f[b] = constructTiledLoopNest(@, bands[b], p,
                               Relabelled(@.loops[bands[b].first], post, read[b]))]
      step(s, b) == IF s.outcome # "ok" \/ b \notin DOMAIN bands THEN s ELSE tile(s, b)
  IN  FoldLeft(step, [f |-> f, level |-> level, outcome |-> "ok"], [b \in DOMAIN f |-> b])

BandsOf(f, label) == [b \in Tileable(f, label) |-> BandOf(f[b], label)]

\* What the description and the asserts ask for.
TilingAssumes(f, label) ==
  Passed(f, label, LAMBDA nest, band :
    \A k \in band.first..band.last : /\ ConstantBounds(nest.loops[k])
                                     /\ k < band.last => Normalized(nest.loops[k]))

NextPass ==
  /\ outcome = "ok" /\ passes < MaxPasses
  /\ passes' = passes + 1
  /\ UNCHANGED meaning

Normal(f, label) == ForBands(f, label, LAMBDA nest, band, b : NormalizeFrom(nest, band.first, band.last))

AutoTile(label, post) ==
  /\ NextPass
  /\ Tileable(fn, label) # {}
  /\ \E read \in [Tileable(fn, label) -> BOOLEAN] :
     \E s \in {tileLoopsAutomatically(Normal(fn, label), BandsOf(fn, label), forOpLevel, post, read)} :
       /\ outcome' = s.outcome
       /\ forOpLevel' = s.level
       /\ fn' = IF s.outcome = "ok" THEN Normal(s.f, label) ELSE s.f
  /\ assumed' = (assumed /\ TilingAssumes(fn, label))
  /\ UNCHANGED reordered

-----------------------------------------------------------------------------
(* Tiling with given sizes *)

\* tilePerfectlyNested: the loops over the tiles, then those in a tile.  The
\* loops after those that sizes has get the size rest; relabel is a function.
tilePerfectlyNested(nest, band, sizes, rest, relabel) ==
  LET orig == BandLoops(nest, band)
      size(i) == IF i <= Len(sizes) THEN sizes[i] ELSE rest
      outer(i) == Fresh(orig[i].iv \o "t", NamesIn(nest))
      over(i) == [orig[i] EXCEPT !.iv = outer(i), !.step = @ * size(i), !.ops = <<>>,
                                 !.label = IF i = 1 THEN relabel[@] ELSE "none"]
      end(i)  == Upper(AddTimes(Num(size(i) * orig[i].step), 1, Var(outer(i))))
      whole(i) == /\ ConstantBounds(orig[i])
                  /\ (UpperBound(orig[i]) - orig[i].lb.c) % (orig[i].step * size(i)) = 0
      tile(i) == [orig[i] EXCEPT !.lb = Var(outer(i)), !.label = "none",
                                 !.ub = IF whole(i) THEN {end(i)} ELSE @ \cup {end(i)}]
  IN  ReplaceBand(nest, band, [i \in DOMAIN orig |-> over(i)] \o [i \in DOMAIN orig |-> tile(i)])

CanTile(f, label) == Passed(f, label, LAMBDA nest, band : HyperRectangular(BandLoops(nest, band)))

TileBands(f, label, sizes, rest, relabel) ==
  ForBands(f, label, LAMBDA nest, band, b : tilePerfectlyNested(nest, band, sizes, rest, relabel))

LabelsIn(f) == UNION {{l.label : l \in ToSet(f[b].loops)} : b \in DOMAIN f}

NormalizeAll(f) ==
  LET inside(nest) == FoldLeft(LAMBDA n, i : IF i \in ForLoops(n) THEN normalizeAffineFor(n, i) ELSE n,
                               nest, Reverse([i \in DOMAIN nest.loops |-> i]))
  IN  FoldLeft(LAMBDA g, b : [g EXCEPT ![b] = inside(@)], f, [b \in DOMAIN f |-> b])

\* Each size in turn for all loops of the bands that have the label by then.
tileLoopsManually(label, post, sizes) ==
  /\ NextPass
  /\ \E read \in BOOLEAN :
    LET relabel == [l \in LabelsIn(fn) \cup {post, "none"} |->
                      IF read THEN NewLabel(l, post) ELSE "none"]
        step(s, t) ==
          IF s.outcome = "failed" \/ ~CanTile(s.f, label) THEN [s EXCEPT !.outcome = "failed"]
          ELSE [s EXCEPT !.f = NormalizeAll(TileBands(@, label, <<>>, t, relabel))]
        end == FoldLeft(step, [f |-> fn, outcome |-> "ok"], sizes)
    IN  fn' = end.f /\ outcome' = end.outcome
  /\ reordered' = TRUE
  /\ UNCHANGED <<forOpLevel, assumed>>

\* affine-loop-opt: a size for each loop, 1 for those without, and always the
\* label of the option.
tileLoops(label, post, sizes) ==
  /\ NextPass
  /\ Tileable(fn, label) # {}
  /\ IF CanTile(fn, label)
     THEN \E read \in BOOLEAN :
            /\ fn' = TileBands(fn, label, sizes, 1,
                               [l \in LabelsIn(fn) |-> IF read THEN post ELSE "none"])
            /\ UNCHANGED outcome
     ELSE outcome' = "failed" /\ UNCHANGED fn
  /\ reordered' = TRUE
  /\ UNCHANGED <<forOpLevel, assumed>>

-----------------------------------------------------------------------------
(* air-regularize-loop *)

\* An op that takes none of the ops seen before moves into the loop.
isIndependent(o, seen) == DOMAIN o.lin.t \cap seen = {}

\* The ops at the front of loop k - 1 move to the front of loop k, each before
\* the one that moved before it.
MoveInto(s, k) ==
  LET move(r, o) ==
        LET seen == r.seen \cup {o.name}
        IN  IF isIndependent(o, r.seen)
            THEN [seen |-> seen,
                  loops |-> [r.loops EXCEPT ![k - 1].ops = SelectSeq(@, LAMBDA x : x # o),
                                            ![k].ops = <<o>> \o @]]
            ELSE [r EXCEPT !.seen = seen]
  IN  FoldLeft(move, s, s.loops[k - 1].ops)

runOnAffineForNest(nest, band) ==
  [nest EXCEPT !.loops =
     FoldLeft(MoveInto, [seen |-> {}, loops |-> nest.loops],
              [i \in 1..(Len(nest.loops) - band.last) |-> band.last + i]).loops]

\* The ops between the loops take induction variables only.
NoChains(nest) ==
  \A i \in DOMAIN nest.loops : \A o \in ToSet(nest.loops[i].ops) :
    \A j \in DOMAIN nest.loops : \A q \in ToSet(nest.loops[j].ops) : q.name \notin DOMAIN o.lin.t

RegularizeLoops(label) ==
  /\ NextPass
  /\ Tileable(fn, label) # {}
  /\ fn' = ForBands(fn, label, LAMBDA nest, band, b : runOnAffineForNest(nest, band))
  /\ assumed' = (assumed /\ Passed(fn, label, LAMBDA nest, band : NoChains(nest)))
  /\ UNCHANGED <<forOpLevel, outcome, reordered>>

-----------------------------------------------------------------------------
(* air-loop-permutation *)

\* Loop i goes to place order[i].  The label moves to the new outermost loop
\* and is then taken from the old one, even if that is the same.
permuteBand(nest, band, order, post) ==
  LET orig == BandLoops(nest, band)
      at(j) == CHOOSE i \in DOMAIN orig : order[i] = j
      label == orig[1].label
      relabel(i) == IF i = 1 THEN "none" ELSE IF order[i] = 1 THEN NewLabel(label, post) ELSE orig[i].label
      \* the body stays in the innermost place
      place(j) == [orig[at(j)] EXCEPT !.label = relabel(at(j)), !.ops = orig[j].ops]
  IN  ReplaceBand(nest, band, [j \in DOMAIN orig |-> place(j)])

Permute(label, post, order) ==
  /\ NextPass
  /\ Tileable(fn, label) # {}
  \* permuteLoops asserts that the order is one of this band's loops
  /\ Passed(fn, label, LAMBDA nest, band : band.last - band.first + 1 = Len(order))
  /\ fn' = ForBands(fn, label, LAMBDA nest, band, b : permuteBand(nest, band, order, post))
  /\ assumed' = (assumed /\ CanTile(fn, label))
  /\ reordered' = TRUE
  /\ UNCHANGED <<forOpLevel, outcome>>

-----------------------------------------------------------------------------
(* air-loop-merging *)

\* The levels, counted from 0, become one loop at the first of them, and the
\* innermost body begins with the values their variables had.
restoredIVMutant(m, sizes, i) == \* mutant: the middle loops divide by their own size too
  [lin |-> Var(m), div |-> Product(sizes, i), mod |-> IF i = 1 THEN 0 ELSE sizes[i]]
restoredIV(m, sizes, i) ==
  [lin |-> Var(m), div |-> Product(sizes, i + 1), mod |-> IF i = 1 THEN 0 ELSE sizes[i]]

constructReducedLoopNest(nest, band, levels, post, read) ==
  LET orig  == BandLoops(nest, band)
      n     == Len(levels)
      total_width == Len(orig) - n + 1
      reduceAtLevel   == levels[1] + 1
      reduceExitLevel == levels[n] + 1
      sizes == [i \in 1..n |-> UpperBound(orig[levels[i] + 1])]
      m     == orig[reduceAtLevel].iv \o "m"
      restored == [i \in 1..n |-> [name |-> orig[levels[i] + 1].iv] @@ restoredIV(m, sizes, i)]
      after(i) == IF i - 1 + n > reduceExitLevel THEN orig[i - 1 + n] ELSE [orig[i - 1 + n] EXCEPT !.iv = "?"]
      loop(i) == CASE i < reduceAtLevel -> orig[i]
                   [] i = reduceAtLevel -> [orig[i] EXCEPT !.iv = m, !.step = 1, !.lb = Num(0),
                                                           !.ub = {Upper(Num(Product(sizes, 1)))}]
                   [] OTHER -> after(i)
      place(i) == [loop(i) EXCEPT !.label = IF i = 1 THEN Relabelled(orig[1], post, read) ELSE "none",
                                  !.ops = IF i = total_width THEN restored \o orig[Len(orig)].ops ELSE <<>>]
  IN  ReplaceBand(nest, band, [i \in 1..total_width |-> place(i)])

\* What the asserts ask for: two levels or more, from 0 to a constant.
MergeAsserts(nest, band, levels) ==
  LET orig == BandLoops(nest, band)
  IN  /\ Len(levels) > 1
      /\ \A i \in DOMAIN levels : /\ levels[i] + 1 \in DOMAIN orig
                                  /\ ConstantBounds(orig[levels[i] + 1])
                                  /\ orig[levels[i] + 1].lb.c = 0
\* What it takes for granted: neighbouring levels in normal form.
MergeAssumes(nest, band, levels) ==
  /\ \A i \in 1..Len(levels) - 1 : levels[i + 1] = levels[i] + 1
  /\ \A i \in DOMAIN levels : BandLoops(nest, band)[levels[i] + 1].step = 1
  /\ HyperRectangular(BandLoops(nest, band))

Merge(label, post, levels) ==
  /\ NextPass
  /\ Tileable(fn, label) # {}
  /\ IF Passed(fn, label, LAMBDA nest, band : MergeAsserts(nest, band, levels))
     THEN /\ \E read \in [Tileable(fn, label) -> BOOLEAN] :
               fn' = ForBands(fn, label, LAMBDA nest, band, b :
                               constructReducedLoopNest(nest, band, levels, post, read[b]))
          /\ assumed' = (assumed /\ Passed(fn, label, LAMBDA nest, band : MergeAssumes(nest, band, levels)))
          /\ UNCHANGED outcome
     ELSE outcome' = "aborted" /\ UNCHANGED <<fn, assumed>>
  /\ UNCHANGED <<forOpLevel, reordered>>

-----------------------------------------------------------------------------
\* affine-simplify-structures: an apply is given what the applies it takes are made of.
Compose(nest) ==
  LET all == FlattenSeq([i \in DOMAIN nest.loops |-> nest.loops[i].ops])
      linear == SelectSeq(all, LAMBDA o : o.div = 1 /\ o.mod = 0)
      \* innermost first, so that what is put in is composed in its turn
      full(l) == FoldLeft(LAMBDA a, o : Substitute(a, o.name, o.lin), l, Reverse(linear))
      loops == [i \in DOMAIN nest.loops |->
                  [nest.loops[i] EXCEPT !.lb = full(@),
                                        !.ub = {[u EXCEPT !.lin = full(@)] : u \in @},
                                        !.ops = [j \in DOMAIN @ |-> [@[j] EXCEPT !.lin = full(@)]]]]
      taken == ToSet(nest.uses) \cup
               UNION {UNION {DOMAIN o.lin.t : o \in ToSet(loops[i].ops)} : i \in DOMAIN loops}
  IN  [nest EXCEPT !.loops = [i \in DOMAIN loops |->
         [loops[i] EXCEPT !.ops = SelectSeq(@, LAMBDA o : o.name \in taken)]]]

Simplify ==
  /\ NextPass
  /\ \E b \in DOMAIN fn : Compose(fn[b]) # fn[b]
  /\ fn' = [b \in DOMAIN fn |-> Compose(fn[b])]
  /\ UNCHANGED <<forOpLevel, outcome, assumed, reordered>>

LoopInit ==
  /\ fn \in Functions
  /\ meaning = [b \in DOMAIN fn |-> Executed(fn[b])]
  /\ forOpLevel = 0 /\ outcome = "ok" /\ assumed = TRUE /\ reordered = FALSE /\ passes = 0

ForPass ==
  \/ \E label \in Labels : RegularizeLoops(label)
  \/ \E label \in Labels, post \in PostLabels :
       \/ AutoTile(label, post)
       \/ \E sizes \in TileSizes : tileLoopsManually(label, post, sizes) \/ tileLoops(label, post, sizes)
       \/ \E order \in Orders : Permute(label, post, order)
       \/ \E levels \in MergeLevels : Merge(label, post, levels)
  \/ Simplify

-----------------------------------------------------------------------------
\* The nests execute what they executed at first: the same instances of the
\* statement, and in the same order unless a pass is meant to change it.
SameExecution ==
  outcome = "ok" /\ assumed =>
    \A b \in DOMAIN fn :
      IF reordered THEN AsBag(Executed(fn[b])) = AsBag(meaning[b]) ELSE Executed(fn[b]) = meaning[b]
=============================================================================
