---------------------------- MODULE HerdRunProofs ----------------------------
(***************************************************************************)
(* What is proved of a program from its placement to its end, for all      *)
(* programs: the placement by itself; the operations on blocks, which are  *)
(* recursive functions; the host program; the compiled partitions.         *)
(***************************************************************************)
EXTENDS HerdRun, IndexLemmas, FiniteSetTheorems, SequenceTheorems, WellFoundedInduction, TLAPS

-----------------------------------------------------------------------------
(* air-place-herds.                                                        *)

Waits(k) == \E i \in 1..Len(unplaced) : unplaced[i] = k
Occupies(k) ==
  \A c \in Footprint(Herd(part, k), loc[k]) : c \in Cells(part) /\ grid[c] = k

\* The partition being placed: a herd waits or has its cells, and none that
\* waits fits on a cell that has been visited.
Types ==
  /\ cell \in 0..NumCells(part)
  /\ grid \in [Cells(part) -> Nat]
  /\ loc \in [Numbers(part) -> Int \X Int]
  /\ unplaced \in Seq(Numbers(part))
AllHeld == \A k \in ToPlace(part) : Waits(k) \/ Occupies(k)
Tried ==
  \A n \in 0..cell - 1 : \A i \in 1..Len(unplaced) :
    ~isLegalPlacement(part, unplaced[i], CellAt(part, n))

PlaceInv ==
  /\ prog \in Modules
  /\ part \in Nat \ {0}
  /\ part \in Parts => Types /\ AllHeld /\ Tried
  /\ Disjoint

-----------------------------------------------------------------------------
(* Grids, herds and sequences.                                             *)

\* The numbers of a program.
LEMMA Sizes ==
  ASSUME prog \in Modules, NEW q \in Parts
  PROVE  /\ NumRows(q) \in Nat /\ NumCols(q) \in Nat /\ NumCells(q) \in Nat
         /\ RowAnchor(q) \in Int /\ ColAnchor(q) \in Int
         /\ Len(P(q).herds) \in Nat
         /\ \A k \in Numbers(q) : /\ k \in Nat \ {0}
                                  /\ Herd(q, k).rows \in Nat \ {0}
                                  /\ Herd(q, k).cols \in Nat \ {0}
<1>1. /\ NumRows(q) \in Nat /\ NumCols(q) \in Nat
      /\ RowAnchor(q) \in Int /\ ColAnchor(q) \in Int /\ Len(P(q).herds) \in Nat
  BY ModulesAssumption DEF Parts, P, NumRows, NumCols, RowAnchor, ColAnchor
<1>2. ASSUME NEW k \in Numbers(q)
      PROVE  k \in Nat \ {0} /\ Herd(q, k).rows \in Nat \ {0} /\ Herd(q, k).cols \in Nat \ {0}
  <2>1. /\ prog.parts[q].herds[k].rows \in Nat \ {0} /\ prog.parts[q].herds[k].cols \in Nat \ {0}
        /\ k \in 1..Len(prog.parts[q].herds) /\ Len(prog.parts[q].herds) \in Nat
    <3>1. q \in 1..Len(prog.parts) /\ k \in 1..Len(prog.parts[q].herds)
      BY DEF Parts, P, Numbers
    <3> QED BY ONLY prog \in Modules, <3>1, ModulesAssumption
  <2>2. k \in Nat \ {0}
    BY <2>1
  <2> QED BY <2>1, <2>2 DEF P, Herd
<1> QED BY <1>1, <1>2 DEF NumCells

\* Quotient and remainder are determined by the number.
LEMMA QuotientOf ==
  ASSUME NEW N \in Nat \ {0}, NEW r \in Nat, NEW c \in 0..N - 1
  PROVE  (N * r + c) \div N = r /\ (N * r + c) % N = c
<1> DEFINE n == N * r + c
           d == n \div N
           m == n % N
<1>1. n \in Nat /\ n = N * r + c
  OBVIOUS
<1> HIDE DEF n
<1>2. n = N * d + m /\ d \in Int /\ m \in 0..N - 1
  BY <1>1, DivMod
<1> HIDE DEF d, m
<1>3. m = c
  <2>1. N * d + m = N * r + c /\ r \in Int
    BY <1>1, <1>2
  <2> QED BY <1>2, <2>1, UniqueRemainder, Zenon
<1>4. CASE d < r BY <1>1, <1>2, <1>3, <1>4, MultipleGap
<1>5. CASE r < d BY <1>1, <1>2, <1>3, <1>5, MultipleGap
<1>6. CASE d = r BY <1>3, <1>6 DEF d, m, n
<1> QED BY <1>2, <1>4, <1>5, <1>6

\* Every cell of a grid is visited.
LEMMA Visited ==
  ASSUME NEW R \in Nat, NEW N \in Nat, NEW at \in (0..R - 1) \X (0..N - 1)
  PROVE  \E n \in 0..R * N - 1 : at = <<n \div N, n % N>>
<1>1. PICK r \in 0..R - 1, c \in 0..N - 1 : at = <<r, c>>
  OBVIOUS
<1>2. r \in Nat /\ c \in Nat /\ N \in Nat \ {0} /\ r + 1 <= R
  OBVIOUS
<1>3. N * r \in Nat /\ N * (R - 1 - r) \in Nat
  BY <1>2
<1>4. N * (R - 1 - r) = R * N - N - N * r
  BY <1>2
<1>5. N * r + c \in 0..R * N - 1
  BY <1>2, <1>3, <1>4
<1>6. (N * r + c) \div N = r /\ (N * r + c) % N = c
  BY <1>2, QuotientOf
<1> QED BY <1>1, <1>5, <1>6

\* The walk stays on the grid.
LEMMA OnGrid ==
  ASSUME NEW R \in Nat, NEW N \in Nat, NEW n \in 0..R * N - 1
  PROVE  <<n \div N, n % N>> \in (0..R - 1) \X (0..N - 1)
<1>1. N > 0
  BY SMT
<1>2. n = N * (n \div N) + (n % N) /\ n \div N \in Nat /\ n % N \in 0..N - 1
  BY <1>1
<1>3. n \div N < R
  <2>1. SUFFICES ASSUME n \div N >= R PROVE FALSE
    BY <1>2
  <2> DEFINE d == n \div N
  <2>2. N * (d - R) >= 0 /\ N * (d - R) = N * d - N * R /\ N * R = R * N
    BY <1>1, <1>2, <2>1
  <2> QED BY <1>2, <2>2
<1> QED BY <1>2, <1>3

\* A sorted sequence has all herds.
LEMMA SortedHasAll ==
  ASSUME prog \in Modules, NEW q \in Parts, NEW s \in Sorted(q)
  PROVE  /\ s \in Seq(Numbers(q))
         /\ \A k \in ToPlace(q) : \E i \in 1..Len(s) : s[i] = k
<1> DEFINE T == ToPlace(q)
           n == Cardinality(T)
<1>1. T \subseteq Numbers(q)
  BY DEF ToPlace
<1>2. IsFiniteSet(T) /\ n \in Nat
  <2>1. Len(P(q).herds) \in Nat
    BY Sizes
  <2>2. IsFiniteSet(Numbers(q))
    BY <2>1, FS_Interval DEF Numbers
  <2> QED BY <1>1, <2>2, FS_Subset, FS_CardinalityType
<1>3. s \in [1..n -> T] /\ \A i, j \in 1..n : s[i] = s[j] => i = j
  BY DEF Sorted
<1>4. s \in Injection(1..n, T)
  BY <1>3 DEF Injection, IsInjective
<1>5. IsFiniteSet(1..n) /\ Cardinality(1..n) = n
  BY <1>2, FS_Interval
<1>6. s \in Surjection(1..n, T)
  BY <1>2, <1>4, <1>5, FS_Injection
<1>7. s \in Seq(T) /\ Len(s) = n
  BY <1>2, <1>3
<1>8. s \in Seq(Numbers(q))
  BY <1>1, <1>2, <1>3
<1> QED BY <1>6, <1>7, <1>8 DEF Surjection

\* The list of herds without the one that has been placed.
Without(u, i) == SubSeq(u, 1, i - 1) \o SubSeq(u, i + 1, Len(u))

\* What remains are the others, and all of them.
LEMMA Removed ==
  ASSUME NEW S, NEW u \in Seq(S), NEW i \in 1..Len(u)
  PROVE  /\ Without(u, i) \in Seq(S)
         /\ \A j \in 1..Len(Without(u, i)) : \E m \in 1..Len(u) : Without(u, i)[j] = u[m]
         /\ \A m \in 1..Len(u) : m # i =>
              \E j \in 1..Len(Without(u, i)) : Without(u, i)[j] = u[m]
<1> DEFINE a == SubSeq(u, 1, i - 1)
           b == SubSeq(u, i + 1, Len(u))
           w == Without(u, i)
<1> HIDE DEF w
<1>1. Len(u) \in Nat /\ \A j \in 1..Len(u) : u[j] \in S
  BY LenProperties, ElementOfSeq
<1>2. a \in Seq(S) /\ Len(a) = i - 1 /\ \A j \in 1..i - 1 : a[j] = u[j]
  <2>1. \A j \in 1..i - 1 : u[j] \in S
    BY <1>1
  <2> HIDE DEF a
  <2>2. /\ a \in Seq(S) /\ Len(a) = IF 1 <= i - 1 THEN (i - 1) - 1 + 1 ELSE 0
        /\ \A j \in 1..(i - 1) - 1 + 1 : a[j] = u[1 + j - 1]
    BY <2>1, SubSeqProperties DEF a
  <2> QED BY <1>1, <2>2
<1>3. b \in Seq(S) /\ Len(b) = Len(u) - i /\ \A j \in 1..Len(u) - i : b[j] = u[i + j]
  <2>1. \A j \in i + 1..Len(u) : u[j] \in S
    BY <1>1
  <2> HIDE DEF b
  <2>2. /\ b \in Seq(S) /\ Len(b) = IF i + 1 <= Len(u) THEN Len(u) - (i + 1) + 1 ELSE 0
        /\ \A j \in 1..Len(u) - (i + 1) + 1 : b[j] = u[(i + 1) + j - 1]
    BY <1>1, <2>1, SubSeqProperties DEF b
  <2> QED BY <1>1, <2>2
<1> HIDE DEF a, b
<1>4. /\ w \in Seq(S) /\ Len(w) = Len(a) + Len(b)
      /\ \A j \in 1..Len(a) + Len(b) : w[j] = IF j <= Len(a) THEN a[j] ELSE b[j - Len(a)]
  <2>1. w = a \o b
    BY DEF w, a, b, Without
  <2> QED BY <1>2, <1>3, <2>1, ConcatProperties
<1>5. Len(w) = Len(u) - 1
  BY <1>1, <1>2, <1>3, <1>4
<1>6. ASSUME NEW j \in 1..Len(u) - 1
      PROVE  w[j] = IF j < i THEN u[j] ELSE u[j + 1]
  <2>1. w[j] = IF j <= Len(a) THEN a[j] ELSE b[j - Len(a)]
    BY <1>1, <1>4, <1>5
  <2>2. CASE j < i
    BY <1>1, <1>2, <2>1, <2>2
  <2>3. CASE j >= i
    <3>1. w[j] = b[j - (i - 1)] /\ j - (i - 1) \in 1..Len(u) - i
      BY <1>1, <1>2, <2>1, <2>3
    <3>2. w[j] = u[i + (j - (i - 1))]
      BY <1>3, <3>1
    <3> QED BY <1>1, <2>3, <3>2
  <2> QED BY <1>1, <2>2, <2>3
<1>7. ASSUME NEW j \in 1..Len(w)
      PROVE  \E m \in 1..Len(u) : w[j] = u[m]
  <2>1. CASE j < i BY <1>1, <1>5, <1>6, <2>1
  <2>2. CASE j >= i
    <3>1. j + 1 \in 1..Len(u) /\ w[j] = u[j + 1]
      BY <1>1, <1>5, <1>6, <2>2
    <3> QED BY <3>1
  <2> QED BY <1>1, <1>5, <2>1, <2>2
<1>8. ASSUME NEW m \in 1..Len(u), m # i
      PROVE  \E j \in 1..Len(w) : w[j] = u[m]
  <2>1. CASE m < i BY <1>1, <1>5, <1>6, <2>1
  <2>2. CASE m > i
    <3>1. m - 1 \in 1..Len(w) /\ w[m - 1] = u[(m - 1) + 1] /\ (m - 1) + 1 = m
      BY <1>1, <1>5, <1>6, <2>2
    <3> QED BY <3>1
  <2> QED BY <1>1, <1>8, <2>1, <2>2
<1> QED BY <1>4, <1>7, <1>8 DEF w

\* A herd covers the cell it is put on.
LEMMA CoversAnchor ==
  ASSUME prog \in Modules, NEW q \in Parts, NEW k \in Numbers(q), NEW at \in Cells(q)
  PROVE  at \in Footprint(Herd(q, k), at)
<1>1. /\ Herd(q, k).rows \in Nat \ {0} /\ Herd(q, k).cols \in Nat \ {0}
      /\ NumRows(q) \in Nat /\ NumCols(q) \in Nat
  BY Sizes
<1>2. at[1] \in Int /\ at[2] \in Int /\ at = <<at[1], at[2]>>
  BY <1>1 DEF Cells
<1>3. /\ at[1] \in at[1]..at[1] + Herd(q, k).rows - 1
      /\ at[2] \in at[2]..at[2] + Herd(q, k).cols - 1
  BY <1>1, <1>2
<1> QED BY <1>2, <1>3 DEF Footprint

-----------------------------------------------------------------------------
(* The steps.                                                              *)

\* The invariant holds of the first partition, with its grid free.
LEMMA InitInv ==
  ASSUME PlaceInit
  PROVE  PlaceInv
<1>1. prog \in Modules /\ part = 1 /\ cell = 0 /\ failed = {}
  BY DEF PlaceInit
<1>2. ASSUME part \in Parts
      PROVE  Types /\ AllHeld /\ Tried
  <2>1. unplaced \in Sorted(part) /\ grid = EmptyGrid(part) /\ loc = NoLoc(part)
    BY <1>1 DEF PlaceInit
  <2>2. unplaced \in Seq(Numbers(part)) /\ \A k \in ToPlace(part) : Waits(k)
    BY <1>1, <1>2, <2>1, SortedHasAll DEF Waits
  <2>3. NumCells(part) \in Nat
    BY <1>1, <1>2, Sizes
  <2>4. grid \in [Cells(part) -> Nat] /\ loc \in [Numbers(part) -> Int \X Int]
    BY <2>1 DEF EmptyGrid, NoLoc, Free
  <2> QED BY <1>1, <2>2, <2>3, <2>4 DEF Types, AllHeld, Tried
<1>3. Disjoint
  BY <1>1 DEF Disjoint, Parts
<1> QED BY <1>1, <1>2, <1>3 DEF PlaceInv

\* What a step that keeps the program and the partition leaves as it is.
LEMMA SamePart ==
  ASSUME prog' = prog, part' = part
  PROVE  /\ Parts' = Parts
         /\ Numbers(part)' = Numbers(part) /\ ToPlace(part)' = ToPlace(part)
         /\ NumCells(part)' = NumCells(part) /\ Cells(part)' = Cells(part)
         /\ \A n : CellAt(part, n)' = CellAt(part, n)
         /\ \A k : Herd(part, k)' = Herd(part, k)
BY DEF Parts, Numbers, ToPlace, NumCells, Cells, CellAt, Herd, P, NumRows, NumCols

\* Filling cells makes no placement legal.
LEMMA StaysIllegal ==
  ASSUME prog' = prog, part' = part,
         \A c \in Cells(part) : grid'[c] = Free => grid[c] = Free,
         NEW j, NEW m, NEW n, unplaced'[j] = unplaced[m],
         ~isLegalPlacement(part, unplaced[m], CellAt(part, n))
  PROVE  ~isLegalPlacement(part, unplaced[j], CellAt(part, n))'
<1>1. PICK c \in Footprint(Herd(part, unplaced[m]), CellAt(part, n)) :
        ~(c \in Cells(part) /\ grid[c] = Free)
  BY DEF isLegalPlacement
<1>2. /\ Cells(part)' = Cells(part) /\ CellAt(part, n)' = CellAt(part, n)
      /\ Herd(part, unplaced[j])' = Herd(part, unplaced[m])
  BY DEF Cells, CellAt, Herd, P, NumRows, NumCols
<1>3. c \in Footprint(Herd(part, unplaced[j]), CellAt(part, n))'
  BY <1>1, <1>2 DEF Footprint
<1>4. ~(c \in Cells(part)' /\ grid'[c] = Free)
  BY <1>1, <1>2
<1> QED BY <1>3, <1>4 DEF isLegalPlacement

\* A herd that is placed takes free cells, so that those placed before keep
\* theirs; a cell that is passed over has no herd that fits.
LEMMA VisitKeepsPart ==
  ASSUME prog \in Modules, part \in Parts, Types, AllHeld, Tried, Visit
  PROVE  (Types /\ AllHeld /\ Tried)'
<1> DEFINE at == CellAt(part, cell)
           fits == {i \in 1..Len(unplaced) : isLegalPlacement(part, unplaced[i], at)}
<1>1. prog' = prog /\ part' = part /\ cell < NumCells(part) /\ cell' = cell + 1
  BY DEF Visit, visited
<1>2. NumCells(part) \in Nat /\ cell' \in 0..NumCells(part)
  BY <1>1, Sizes DEF Types
<1>3. at \in Cells(part)
  <2>1. NumRows(part) \in Nat /\ NumCols(part) \in Nat
    BY Sizes
  <2>2. cell \in 0..NumRows(part) * NumCols(part) - 1
    BY <1>1, <1>2, <2>1 DEF Types, NumCells
  <2> QED BY <2>1, <2>2, OnGrid DEF CellAt, Cells
<1> HIDE DEF at
<1>4. CASE grid[at] = Free /\ fits # {}
  <2>1. PICK i \in fits : PlaceAt(part, at, i)
    BY <1>4 DEF Visit, at
  <2> DEFINE k == unplaced[i]
             F == Footprint(Herd(part, k), at)
  <2>2. k \in Numbers(part) /\ k \in Nat \ {0} /\ i \in 1..Len(unplaced)
    BY <2>1, Sizes DEF Types
  <2>3. \A c \in F : c \in Cells(part) /\ grid[c] = Free
    BY <2>1 DEF isLegalPlacement
  <2>4. /\ grid' = [c \in Cells(part) |-> IF c \in F THEN k ELSE grid[c]]
        /\ loc' = [loc EXCEPT ![k] = at]
    BY <2>1 DEF PlaceAt, placeHerd
  <2>5. /\ unplaced' \in Seq(Numbers(part))
        /\ \A j \in 1..Len(unplaced') : \E m \in 1..Len(unplaced) : unplaced'[j] = unplaced[m]
        /\ \A m \in 1..Len(unplaced) :
             m # i => \E j \in 1..Len(unplaced') : unplaced'[j] = unplaced[m]
    <3>1. unplaced \in Seq(Numbers(part))
      BY DEF Types
    <3>2. unplaced' = Without(unplaced, i)
      BY <2>1 DEF PlaceAt, Without
    <3> HIDE DEF fits, k, F
    <3>3. /\ Without(unplaced, i) \in Seq(Numbers(part))
          /\ \A j \in 1..Len(Without(unplaced, i)) :
               \E m \in 1..Len(unplaced) : Without(unplaced, i)[j] = unplaced[m]
          /\ \A m \in 1..Len(unplaced) : m # i =>
               \E j \in 1..Len(Without(unplaced, i)) : Without(unplaced, i)[j] = unplaced[m]
      BY ONLY <2>2, <3>1, Removed
    <3> QED BY ONLY <3>2, <3>3, Zenon
  <2> HIDE DEF fits, k, F
  <2>6. Types'
    <3>1. at \in Int \X Int
      BY <1>3, Sizes DEF Cells
    <3>2. loc' \in [Numbers(part) -> Int \X Int]
      BY <2>2, <2>4, <3>1 DEF Types
    <3>3. grid' \in [Cells(part) -> Nat]
      BY <2>2, <2>4 DEF Types
    <3> QED BY <1>1, <1>2, <2>5, <3>2, <3>3, SamePart DEF Types
  <2>7. AllHeld'
    <3> SUFFICES ASSUME NEW l \in ToPlace(part), ~Waits(l)'
                 PROVE  Occupies(l)'
      BY <1>1, SamePart DEF AllHeld
    <3>1. l \in Numbers(part) /\ l # Free
      BY Sizes DEF ToPlace, Free
    <3>2. CASE l = k
      <4>1. loc'[l] = at
        BY <2>2, <2>4, <3>2 DEF Types
      <4> QED BY <1>1, <2>3, <2>4, <3>2, <4>1, SamePart DEF Occupies, F, Footprint
    <3>3. CASE l # k
      <4>1. ~Waits(l)
        BY <2>5, <3>3 DEF Waits, k
      <4>2. Occupies(l) /\ loc'[l] = loc[l]
        BY <2>4, <3>1, <3>3, <4>1 DEF AllHeld, Types
      <4>3. \A c \in Footprint(Herd(part, l), loc[l]) : c \in Cells(part) /\ grid'[c] = l
        BY <2>3, <2>4, <3>1, <4>2 DEF Occupies
      <4> QED BY <1>1, <4>2, <4>3, SamePart DEF Occupies, Footprint
    <3> QED BY <3>2, <3>3
  <2>8. Tried'
    <3>1. \A c \in Cells(part) : grid'[c] = Free => grid[c] = Free
      BY <2>2, <2>4 DEF Free
    <3> SUFFICES ASSUME NEW n \in 0..cell, NEW j \in 1..Len(unplaced')
                 PROVE  ~isLegalPlacement(part, unplaced[j], CellAt(part, n))'
      BY <1>1, <1>2, SamePart DEF Tried, Types
    <3>2. PICK m \in 1..Len(unplaced) : unplaced'[j] = unplaced[m]
      BY <2>5
    <3>3. CASE n < cell
      <4>1. ~isLegalPlacement(part, unplaced[m], CellAt(part, n))
        BY <1>2, <3>3 DEF Tried, Types
      <4> QED BY <1>1, <3>1, <3>2, <4>1, StaysIllegal
    <3>4. CASE n = cell
      <4>1. at \in F /\ at \in Footprint(Herd(part, unplaced[m]), at)
        <5>1. unplaced[m] \in Numbers(part)
          BY ElementOfSeq DEF Types
        <5> QED BY <1>3, <2>2, <5>1, CoversAnchor DEF F
      <4>2. grid'[at] # Free
        BY <1>3, <2>2, <2>4, <4>1 DEF Free
      <4> QED BY <1>1, <3>2, <3>4, <4>1, <4>2, SamePart DEF isLegalPlacement, Footprint, at
    <3> QED BY <1>2, <3>3, <3>4 DEF Types
  <2> QED BY <2>6, <2>7, <2>8
<1>5. CASE ~(grid[at] = Free /\ fits # {})
  <2>1. UNCHANGED <<grid, loc, unplaced>>
    BY <1>5 DEF Visit, at
  <2>2. Types'
    BY <1>1, <1>2, <2>1, SamePart DEF Types
  <2>3. AllHeld'
    BY <1>1, <2>1, SamePart DEF AllHeld, Waits, Occupies, Footprint
  <2>4. Tried'
    <3> SUFFICES ASSUME NEW n \in 0..cell, NEW i \in 1..Len(unplaced)
                 PROVE  ~isLegalPlacement(part, unplaced[i], CellAt(part, n))
      <4>1. SUFFICES ASSUME NEW n \in 0..cell, NEW i \in 1..Len(unplaced)
                     PROVE  ~isLegalPlacement(part, unplaced[i], CellAt(part, n))'
        BY <1>1, <1>2, <2>1 DEF Tried, Types
      <4>2. ~isLegalPlacement(part, unplaced[i], CellAt(part, n))
        OBVIOUS
      <4> QED BY <1>1, <2>1, <4>2, StaysIllegal
    <3>1. CASE n < cell
      BY <1>2, <3>1 DEF Tried, Types
    <3>2. CASE n = cell
      <4>1. CASE grid[at] # Free
        <5>1. at \in Footprint(Herd(part, unplaced[i]), at)
          <6>1. unplaced[i] \in Numbers(part)
            BY ElementOfSeq DEF Types
          <6> QED BY <1>3, <6>1, CoversAnchor
        <5> QED BY <3>2, <4>1, <5>1 DEF isLegalPlacement, at
      <4>2. CASE fits = {}
        BY <3>2, <4>2 DEF at
      <4> QED BY <1>5, <4>1, <4>2
    <3> QED BY <1>2, <3>1, <3>2 DEF Types
  <2> QED BY <2>2, <2>3, <2>4
<1> QED BY <1>4, <1>5

\* The visit of a cell keeps everything.
LEMMA VisitKeeps ==
  ASSUME PlaceInv, Visit
  PROVE  PlaceInv'
<1>1. part \in Parts /\ prog' = prog /\ part' = part /\ offset' = offset /\ failed' = failed
  BY DEF Visit
<1>2. (Types /\ AllHeld /\ Tried)'
  BY <1>1, VisitKeepsPart DEF PlaceInv
<1>3. Disjoint'
  BY <1>1 DEF PlaceInv, Disjoint, Parts, Numbers, Tiles, Footprint, Herd, P, Cells, RowAnchor,
              ColAnchor, NumRows, NumCols
<1> QED BY <1>1, <1>2, <1>3 DEF PlaceInv

\* When no herd waits any more, those of the partition are apart, and their
\* offsets keep them so.
LEMMA HeldAreApart ==
  ASSUME prog \in Modules, part \in Parts, Types, AllHeld, unplaced = <<>>,
         NEW k \in ToPlace(part)
  PROVE  /\ \A c \in Footprint(Herd(part, k), loc[k]) : c \in Cells(part)
         /\ \A l \in ToPlace(part) \ {k} :
              Footprint(Herd(part, k), loc[k]) \cap Footprint(Herd(part, l), loc[l]) = {}
BY DEF AllHeld, Waits, Occupies

\* A herd's tiles are its cells, moved by the partition's anchor.
LEMMA Moved ==
  ASSUME NEW h, h.rows \in Nat, h.cols \in Nat, NEW at \in Int \X Int,
         NEW r \in Int, NEW c \in Int,
         NEW t \in Footprint(h, <<at[1] + r, at[2] + c>>)
  PROVE  <<t[1] - r, t[2] - c>> \in Footprint(h, at)
BY DEF Footprint

\* The herds of the partition that is done are apart, and those of the
\* partitions before it keep their offsets.
LEMMA FinishKeepsDisjoint ==
  ASSUME PlaceInv, Finish
  PROVE  Disjoint'
<1>1. prog' = prog /\ part \in Parts /\ part' = part + 1 /\ prog \in Modules /\ part \in Nat
  BY DEF Finish, PlaceInv
<1>2. Types /\ AllHeld /\ Disjoint
  BY <1>1 DEF PlaceInv
<1> DEFINE In(q, k) == \A t \in Footprint(Herd(q, k), offset'[<<q, k>>]) :
                         <<t[1] - RowAnchor(q), t[2] - ColAnchor(q)>> \in Cells(q)
           Apart(q, k, l) == Footprint(Herd(q, k), offset'[<<q, k>>])
                               \cap Footprint(Herd(q, l), offset'[<<q, l>>]) = {}
<1>3. ASSUME NEW q \in Parts, q < part + 1, q \notin failed', P(q).op, NEW k \in Numbers(q)
      PROVE  In(q, k) /\ \A l \in Numbers(q) \ {k} : Apart(q, k, l)
  <2>1. \A j \in Numbers(q) : <<q, j>> \in Herds
    BY DEF Herds
  <2>2. CASE q < part
    <3>1. q \notin failed /\ \A j \in Numbers(q) : offset'[<<q, j>>] = offset[<<q, j>>]
      <4>1. q # part /\ \A j : <<q, j>> \notin {part} \X ToPlace(part)
        BY <1>1, <2>2
      <4>2. CASE unplaced = <<>>
        BY <1>3, <2>1, <4>1, <4>2 DEF Finish
      <4>3. CASE unplaced # <<>>
        BY <1>3, <4>3 DEF Finish
      <4> QED BY <4>2, <4>3
    <3>2. \A j \in Numbers(q) : Tiles(<<q, j>>) = Footprint(Herd(q, j), offset'[<<q, j>>])
      BY <3>1 DEF Tiles
    <3> QED BY <1>2, <1>3, <2>2, <3>1, <3>2 DEF Disjoint
  <2>3. CASE q = part
    <3>1. unplaced = <<>> /\ ToPlace(part) = Numbers(part)
      BY <1>3, <2>3 DEF Finish, ToPlace
    <3>2. \A j \in Numbers(part) :
            offset'[<<part, j>>] = <<loc[j][1] + RowAnchor(part), loc[j][2] + ColAnchor(part)>>
      BY <2>1, <2>3, <3>1 DEF Finish
    <3>3. ASSUME NEW j \in Numbers(part),
                 NEW t \in Footprint(Herd(part, j), offset'[<<part, j>>])
          PROVE  <<t[1] - RowAnchor(part), t[2] - ColAnchor(part)>>
                   \in Footprint(Herd(part, j), loc[j])
      <4>1. /\ Herd(part, j).rows \in Nat /\ Herd(part, j).cols \in Nat
            /\ RowAnchor(part) \in Int /\ ColAnchor(part) \in Int
        BY <1>1, Sizes
      <4>2. loc[j] \in Int \X Int
        BY <1>2 DEF Types
      <4> QED BY <3>2, <3>3, <4>1, <4>2, Moved
    <3>4. In(part, k)
      BY <1>1, <1>2, <2>3, <3>1, <3>3, HeldAreApart
    <3>5. ASSUME NEW l \in Numbers(part) \ {k}
          PROVE  Apart(part, k, l)
      <4>1. Footprint(Herd(part, k), loc[k]) \cap Footprint(Herd(part, l), loc[l]) = {}
        BY <1>1, <1>2, <2>3, <3>1, HeldAreApart
      <4> QED BY <2>3, <3>3, <4>1
    <3> QED BY <2>3, <3>4, <3>5
  <2>4. q \in Int
    BY <1>1, ModulesAssumption DEF Parts
  <2>5. q < part \/ q = part
    BY <1>1, <1>3, <2>4
  <2> HIDE DEF In, Apart
  <2> QED BY <2>2, <2>3, <2>5
<1>4. /\ Parts' = Parts
      /\ \A q : /\ P(q)' = P(q) /\ Numbers(q)' = Numbers(q) /\ Cells(q)' = Cells(q)
                /\ RowAnchor(q)' = RowAnchor(q) /\ ColAnchor(q)' = ColAnchor(q)
      /\ \A q, k : Tiles(<<q, k>>)' = Footprint(Herd(q, k), offset'[<<q, k>>])
  BY <1>1 DEF Parts, P, Numbers, Cells, NumRows, NumCols, RowAnchor, ColAnchor, Tiles, Herd,
              Footprint
<1> QED BY <1>1, <1>3, <1>4 DEF Disjoint

\* The next partition starts with a free grid and all its herds waiting.
LEMMA FinishKeeps ==
  ASSUME PlaceInv, Finish
  PROVE  PlaceInv'
<1>1. prog' = prog /\ part' = part + 1 /\ prog \in Modules /\ part \in Nat \ {0} /\ cell' = 0
  BY DEF Finish, PlaceInv
<1>2. Disjoint'
  BY FinishKeepsDisjoint
<1>3. ASSUME part' \in Parts'
      PROVE  (Types /\ AllHeld /\ Tried)'
  <2> DEFINE q == part + 1
  <2>1. q \in Parts
    BY <1>1, <1>3 DEF Parts
  <2>2. unplaced' \in Sorted(q) /\ grid' = EmptyGrid(q) /\ loc' = NoLoc(q)
    BY <2>1 DEF Finish
  <2>3. /\ Numbers(part)' = Numbers(q) /\ ToPlace(part)' = ToPlace(q)
        /\ NumCells(part)' = NumCells(q) /\ Cells(part)' = Cells(q)
    BY <1>1 DEF Numbers, ToPlace, NumCells, Cells, Herd, P, NumRows, NumCols
  <2> HIDE DEF q
  <2>4. /\ unplaced' \in Seq(Numbers(q))
        /\ \A k \in ToPlace(q) : \E i \in 1..Len(unplaced') : unplaced'[i] = k
    BY <1>1, <2>1, <2>2, SortedHasAll
  <2>5. NumCells(q) \in Nat
    BY <1>1, <2>1, Sizes
  <2>6. grid' \in [Cells(q) -> Nat] /\ loc' \in [Numbers(q) -> Int \X Int]
    BY <2>2 DEF EmptyGrid, NoLoc, Free
  <2>7. Types'
    BY <1>1, <2>3, <2>4, <2>5, <2>6 DEF Types
  <2>8. AllHeld'
    BY <2>3, <2>4 DEF AllHeld, Waits
  <2>9. Tried'
    BY <1>1 DEF Tried
  <2> QED BY <2>7, <2>8, <2>9
<1> QED BY <1>1, <1>2, <1>3 DEF PlaceInv

-----------------------------------------------------------------------------
(* The theorems.                                                           *)

\* Nothing happens to the partition.
LEMMA PlaceStays ==
  ASSUME PlaceInv, UNCHANGED placeVars
  PROVE  PlaceInv'
<1>1. prog' = prog /\ part' = part
  BY DEF placeVars
<1>2. Disjoint' = Disjoint
  BY DEF placeVars, Disjoint, Tiles, Footprint, Parts, P, Herd, Numbers, Cells,
              RowAnchor, ColAnchor, NumRows, NumCols
<1>3. Types' = Types /\ AllHeld' = AllHeld
  BY <1>1, SamePart DEF placeVars, Types, AllHeld, Waits, Occupies, Footprint
<1>4. Tried' = Tried
  BY DEF placeVars, Tried, isLegalPlacement, Footprint, CellAt, Herd, P, Cells,
              NumRows, NumCols
<1>5. Parts' = Parts
  BY <1>1 DEF Parts
<1> QED BY <1>1, <1>2, <1>3, <1>4, <1>5 DEF PlaceInv

\* PlaceInv is an invariant of the pass by itself.
LEMMA PlaceInvariant == PlaceSpec => []PlaceInv
<1>1. PlaceInit => PlaceInv
  BY InitInv
<1>2. PlaceInv /\ [PlaceNext]_placeVars => PlaceInv'
  <2> SUFFICES ASSUME PlaceInv, [PlaceNext]_placeVars
               PROVE  PlaceInv'
    OBVIOUS
  <2>1. CASE Visit
    BY <2>1, VisitKeeps
  <2>2. CASE Finish
    BY <2>2, FinishKeeps
  <2>3. CASE UNCHANGED placeVars
    BY <2>3, PlaceStays
  <2> QED BY <2>1, <2>2, <2>3 DEF PlaceNext
<1> QED BY <1>1, <1>2, PTL DEF PlaceSpec

\* Herds of a partition that air-place-herds has placed share no tile and lie
\* within it, whatever the partition's size, its herds and their order.
THEOREM HerdsDisjoint == PlaceSpec => []Disjoint
<1>1. PlaceInv => Disjoint
  BY DEF PlaceInv
<1> QED BY <1>1, PlaceInvariant, PTL

\* When the pass gives up after its walk over the cells, there is no cell on
\* which one of the herds that wait would fit.
THEOREM GivesUpForLack == PlaceSpec => []NoRoomLeft
<1>1. ASSUME PlaceInv
      PROVE  NoRoomLeft
  <2> SUFFICES ASSUME part \in Parts, cell >= NumCells(part),
                      NEW i \in 1..Len(unplaced), NEW at \in Cells(part)
               PROVE  ~isLegalPlacement(part, unplaced[i], at)
    BY DEF NoRoomLeft
  <2>1. prog \in Modules /\ Types /\ Tried
    BY <1>1 DEF PlaceInv
  <2>2. NumRows(part) \in Nat /\ NumCols(part) \in Nat
    BY <2>1, Sizes
  <2>3. PICK n \in 0..NumRows(part) * NumCols(part) - 1 : at = CellAt(part, n)
    BY <2>2, Visited DEF Cells, CellAt
  <2>4. n \in 0..cell - 1
    BY <2>1, <2>2 DEF Types, NumCells
  <2> QED BY <2>1, <2>3, <2>4 DEF Tried
<1> QED BY <1>1, PlaceInvariant, PTL

-----------------------------------------------------------------------------
(* Sequences of sequences.                                                 *)

\* A set of numbers has a least one.
LEMMA Least ==
  ASSUME NEW T, T \subseteq Nat, T # {}
  PROVE  \E i \in T : \A j \in T : i <= j
<1>1. \E i \in T : \A j \in T : <<j, i>> \notin OpToRel(<, Nat)
  BY NatLessThanWellFounded, WFMin
<1>2. \E i \in T : \A j \in T : ~ (j < i)
  BY <1>1, Zenon DEF OpToRel
<1> QED BY <1>2

\* A set of numbers with 0 and every successor has all numbers up to n.
LEMMA UpTo ==
  ASSUME NEW n \in Nat, NEW U, 0 \in U,
         \A i \in 0 .. n - 1 : i \in U => i + 1 \in U
  PROVE  \A i \in 0 .. n : i \in U
<1> DEFINE T == {i \in 0 .. n : i \notin U}
<1> SUFFICES ASSUME T # {} PROVE FALSE
  OBVIOUS
<1>0. T \subseteq Nat /\ T # {}
  OBVIOUS
<1>1. PICK i \in T : \A j \in T : i <= j
  <2> HIDE DEF T
  <2> QED BY <1>0, Least
<1>2. i \in 0 .. n /\ i # 0 /\ i - 1 \in 0 .. n - 1 /\ i - 1 \notin T
  BY <1>1
<1>3. i - 1 \in U /\ (i - 1) + 1 = i
  BY <1>2
<1> QED BY <1>1, <1>2, <1>3

\* What FlattenSeq computes.
isJoined(g, ss, n) ==
  g = [i \in 1 .. n |-> IF i = 1 THEN ss[i] ELSE g[i - 1] \o ss[i]]

\* The sequences that are joined so far exist.
LEMMA JoinedExist ==
  ASSUME NEW ss, NEW n \in Nat
  PROVE  \E g : isJoined(g, ss, n)
<1> DEFINE U == {m \in Nat : \E g : isJoined(g, ss, m)}
<1>1. 0 \in U
  <2>1. isJoined([i \in 1 .. 0 |-> 0], ss, 0)
    BY DEF isJoined
  <2> QED BY <2>1
<1>2. ASSUME NEW m \in 0 .. n - 1, m \in U PROVE m + 1 \in U
  <2>1. PICK g : isJoined(g, ss, m)
    BY <1>2
  <2> DEFINE last == IF m + 1 = 1 THEN ss[m + 1] ELSE g[m] \o ss[m + 1]
             h == [i \in 1 .. m + 1 |-> IF i = m + 1 THEN last ELSE g[i]]
  <2>2. isJoined(h, ss, m + 1)
    <3>1. ASSUME NEW i \in 1 .. m + 1
          PROVE  h[i] = IF i = 1 THEN ss[i] ELSE h[i - 1] \o ss[i]
      <4>1. CASE i = m + 1
        <5>1. h[i] = last /\ (i # 1 => h[i - 1] = g[m])
          BY <4>1
        <5> QED BY <4>1, <5>1
      <4>2. CASE i # m + 1
        <5>1. i \in 1 .. m
          BY <4>2
        <5>2. g[i] = IF i = 1 THEN ss[i] ELSE g[i - 1] \o ss[i]
          BY <2>1, <5>1 DEF isJoined
        <5>3. h[i] = g[i] /\ (i # 1 => h[i - 1] = g[i - 1])
          BY <5>1
        <5> QED BY <5>2, <5>3
      <4> QED BY <4>1, <4>2
    <3> HIDE DEF h
    <3>2. h = [i \in 1 .. m + 1 |-> h[i]]
      BY DEF h
    <3> QED BY <3>1, <3>2 DEF isJoined
  <2> QED BY <2>2
<1>3. \A i \in 0 .. n : i \in U
  <2> HIDE DEF U
  <2> QED BY <1>1, <1>2, UpTo
<1> QED BY <1>3

\* FlattenSeq joins one part after another.
LEMMA JoinedDef ==
  ASSUME NEW ss, Len(ss) \in Nat \ {0}
  PROVE  \E g : isJoined(g, ss, Len(ss)) /\ FlattenSeq(ss) = g[Len(ss)]
<1>1. FlattenSeq(ss) = (CHOOSE g : isJoined(g, ss, Len(ss)))[Len(ss)]
  BY DEF FlattenSeq, isJoined
<1> QED BY <1>1, JoinedExist

\* FlattenSeq stays in a set of sequences that has the empty one and that is
\* closed under concatenation.
LEMMA FlattenCloses ==
  ASSUME NEW C, <<>> \in C, \A s, t \in C : s \o t \in C, NEW ss \in Seq(C)
  PROVE  FlattenSeq(ss) \in C
<1> DEFINE N == Len(ss)
<1>1. N \in Nat /\ \A i \in 1..N : ss[i] \in C
  OBVIOUS
<1>2. CASE N = 0
  BY <1>2 DEF FlattenSeq
<1>3. CASE N # 0
  <2>1. PICK g : isJoined(g, ss, N) /\ FlattenSeq(ss) = g[N]
    BY <1>1, <1>3, JoinedDef
  <2> DEFINE U == {n \in 0..N - 1 : g[n + 1] \in C}
  <2>2. 0 \in U
    BY <1>1, <1>3, <2>1 DEF isJoined
  <2>3. ASSUME NEW n \in 0..(N - 1) - 1, n \in U PROVE n + 1 \in U
    <3>1. /\ n + 2 \in 1..N /\ n + 2 # 1 /\ (n + 2) - 1 = n + 1 /\ (n + 1) + 1 = n + 2
          /\ n + 1 \in 0..N - 1
      BY <1>1
    <3> HIDE DEF N
    <3>2. g[n + 2] = g[n + 1] \o ss[n + 2]
      BY <2>1, <3>1 DEF isJoined
    <3>3. g[n + 1] \in C /\ ss[n + 2] \in C
      BY <1>1, <2>3, <3>1
    <3> QED BY <1>1, <3>1, <3>2, <3>3
  <2>4. \A n \in 0..N - 1 : n \in U
    <3>1. N - 1 \in Nat
      BY <1>1, <1>3
    <3> HIDE DEF U, N
    <3> QED BY <2>2, <2>3, <3>1, UpTo
  <2>5. N - 1 \in 0..N - 1 /\ (N - 1) + 1 = N
    BY <1>1, <1>3
  <2> HIDE DEF N
  <2> QED BY <2>1, <2>4, <2>5
<1> QED BY <1>2, <1>3

\* The elements of two sequences that are joined.
LEMMA ConcatSet ==
  ASSUME NEW S, NEW s \in Seq(S), NEW t \in Seq(S)
  PROVE  s \o t \in Seq(S) /\ ToSet(s \o t) = ToSet(s) \cup ToSet(t)
<1>1. /\ s \o t \in Seq(S) /\ Len(s \o t) = Len(s) + Len(t)
      /\ \A i \in 1..Len(s) + Len(t) : (s \o t)[i] = IF i <= Len(s) THEN s[i] ELSE t[i - Len(s)]
  BY ConcatProperties
<1>2. /\ Len(s) \in Nat /\ Len(t) \in Nat
      /\ DOMAIN s = 1..Len(s) /\ DOMAIN t = 1..Len(t) /\ DOMAIN (s \o t) = 1..Len(s) + Len(t)
  BY <1>1, LenProperties
<1>3. \A i \in 1..Len(s) : i \in 1..Len(s) + Len(t) /\ (s \o t)[i] = s[i]
  BY <1>1, <1>2
<1>4. \A i \in 1..Len(t) : Len(s) + i \in 1..Len(s) + Len(t) /\ (s \o t)[Len(s) + i] = t[i]
  BY <1>1, <1>2
<1>5. ASSUME NEW i \in 1..Len(s) + Len(t)
      PROVE  (s \o t)[i] \in ToSet(s) \cup ToSet(t)
  <2>1. CASE i <= Len(s)
    <3>1. i \in 1..Len(s) /\ (s \o t)[i] = s[i]
      BY <1>1, <1>2, <2>1
    <3> QED BY <1>2, <3>1 DEF ToSet
  <2>2. CASE ~(i <= Len(s))
    <3>1. i - Len(s) \in 1..Len(t) /\ (s \o t)[i] = t[i - Len(s)]
      BY <1>1, <1>2, <2>2
    <3> QED BY <1>2, <3>1 DEF ToSet
  <2> QED BY <2>1, <2>2
<1>6. ToSet(s) \subseteq ToSet(s \o t) /\ ToSet(t) \subseteq ToSet(s \o t)
  BY <1>2, <1>3, <1>4 DEF ToSet
<1>7. ToSet(s \o t) \subseteq ToSet(s) \cup ToSet(t)
  <2> HIDE DEF ToSet
  <2>1. ToSet(s \o t) = {(s \o t)[i] : i \in 1..Len(s) + Len(t)}
    BY <1>2 DEF ToSet
  <2> QED BY <1>5, <2>1
<1> QED BY <1>1, <1>6, <1>7

\* The elements of a sequence of sequences that is joined.
LEMMA FlattenElements ==
  ASSUME NEW S, NEW ss \in Seq(Seq(S))
  PROVE  /\ FlattenSeq(ss) \in Seq(S)
         /\ ToSet(FlattenSeq(ss)) = UNION {ToSet(ss[i]) : i \in 1..Len(ss)}
<1> DEFINE N == Len(ss)
           upTo(n) == UNION {ToSet(ss[i]) : i \in 1..n}
<1>1. N \in Nat /\ \A i \in 1..N : ss[i] \in Seq(S)
  OBVIOUS
<1>2. CASE N = 0
  <2>1. FlattenSeq(ss) = <<>> /\ upTo(N) = {}
    BY <1>2 DEF FlattenSeq
  <2>2. ToSet(<<>>) = {}
    BY DEF ToSet
  <2>3. FlattenSeq(ss) \in Seq(S)
    BY <2>1
  <2>4. ToSet(FlattenSeq(ss)) = upTo(N)
    BY ONLY <2>1, <2>2, Zenon
  <2> QED BY ONLY <2>3, <2>4
<1>3. CASE N # 0
  <2>1. PICK g : isJoined(g, ss, N) /\ FlattenSeq(ss) = g[N]
    BY <1>1, <1>3, JoinedDef
  <2> DEFINE good(n) == g[n] \in Seq(S) /\ ToSet(g[n]) = upTo(n)
             U == {n \in 0..N - 1 : good(n + 1)}
  <2>2. 0 \in U
    <3>1. g[1] = ss[1] /\ ss[1] \in Seq(S) /\ 0 \in 0..N - 1
      BY <1>1, <1>3, <2>1 DEF isJoined
    <3>2. upTo(1) = ToSet(ss[1])
      OBVIOUS
    <3>3. good(0 + 1)
      BY <3>1, <3>2
    <3> HIDE DEF good, N
    <3> QED BY <3>1, <3>3
  <2>3. ASSUME NEW n \in 0..(N - 1) - 1, n \in U PROVE n + 1 \in U
    <3>1. /\ n + 2 \in 1..N /\ n + 2 # 1 /\ (n + 2) - 1 = n + 1 /\ (n + 1) + 1 = n + 2
          /\ n + 1 \in 0..N - 1 /\ 1..n + 2 = (1..n + 1) \cup {n + 2}
      BY <1>1
    <3> HIDE DEF N
    <3>2. g[n + 2] = g[n + 1] \o ss[n + 2]
      BY <2>1, <3>1 DEF isJoined
    <3>3. g[n + 1] \in Seq(S) /\ ToSet(g[n + 1]) = upTo(n + 1) /\ ss[n + 2] \in Seq(S)
      BY <1>1, <2>3, <3>1
    <3>4. g[n + 2] \in Seq(S) /\ ToSet(g[n + 2]) = ToSet(g[n + 1]) \cup ToSet(ss[n + 2])
      BY <3>2, <3>3, ConcatSet
    <3>5. upTo(n + 2) = upTo(n + 1) \cup ToSet(ss[n + 2])
      BY <3>1
    <3>6. good(n + 2)
      BY <3>3, <3>4, <3>5
    <3> HIDE DEF good
    <3> QED BY <3>1, <3>6
  <2>4. \A n \in 0..N - 1 : n \in U
    <3>1. N - 1 \in Nat
      BY <1>1, <1>3
    <3> HIDE DEF U, N
    <3> QED BY <2>2, <2>3, <3>1, UpTo
  <2>5. N - 1 \in 0..N - 1 /\ (N - 1) + 1 = N
    BY <1>1, <1>3
  <2>6. good(N)
    <3> HIDE DEF N, good
    <3> QED BY <2>4, <2>5
  <2> QED BY <2>1, <2>6
<1> QED BY <1>2, <1>3

-----------------------------------------------------------------------------
(* Blocks.  An operation on blocks is a recursive function; it exists by   *)
(* induction on how deep they are nested.                                  *)

\* What Nest computes.
isNest(g, n) ==
  g = [m \in 0 .. n |-> Seq(IF m = 0 THEN Steps ELSE Steps \cup Around(g[m - 1]))]

\* The nested blocks up to each depth exist.
LEMMA NestExist ==
  ASSUME NEW n \in Nat
  PROVE  \E g : isNest(g, n)
<1> DEFINE U == {m \in Nat : \E g : isNest(g, m)}
<1>1. 0 \in U
  <2>1. isNest([m \in 0 .. 0 |-> Seq(Steps)], 0)
    BY DEF isNest
  <2> QED BY <2>1
<1>2. ASSUME NEW m \in 0 .. n - 1, m \in U PROVE m + 1 \in U
  <2>1. PICK g : isNest(g, m)
    BY <1>2
  <2> DEFINE last == Seq(Steps \cup Around(g[m]))
             h == [i \in 0 .. m + 1 |-> IF i = m + 1 THEN last ELSE g[i]]
  <2>2. isNest(h, m + 1)
    <3>1. ASSUME NEW i \in 0 .. m + 1
          PROVE  h[i] = Seq(IF i = 0 THEN Steps ELSE Steps \cup Around(h[i - 1]))
      <4>1. CASE i = m + 1
        <5>1. h[i] = last /\ h[i - 1] = g[m] /\ i # 0
          BY <4>1
        <5> QED BY <5>1
      <4>2. CASE i # m + 1
        <5>1. i \in 0 .. m
          BY <4>2
        <5>2. g[i] = Seq(IF i = 0 THEN Steps ELSE Steps \cup Around(g[i - 1]))
          BY <2>1, <5>1 DEF isNest
        <5>3. h[i] = g[i] /\ (i # 0 => h[i - 1] = g[i - 1])
          BY <5>1
        <5> QED BY <5>2, <5>3
      <4> QED BY <4>1, <4>2
    <3> HIDE DEF h
    <3>2. h = [i \in 0 .. m + 1 |-> h[i]]
      BY DEF h
    <3> QED BY <3>1, <3>2 DEF isNest
  <2> QED BY <2>2
<1>3. \A i \in 0 .. n : i \in U
  <2> HIDE DEF U
  <2> QED BY <1>1, <1>2, UpTo
<1> QED BY <1>3

\* Nest is what its recursion says.
LEMMA NestDef ==
  /\ Nest[0] = Seq(Steps)
  /\ \A n \in 1..MaxDepth : Nest[n] = Seq(Steps \cup Around(Nest[n - 1]))
<1>1. Nest = CHOOSE g : isNest(g, MaxDepth)
  BY DEF Nest, isNest
<1>2. isNest(Nest, MaxDepth)
  BY <1>1, NestExist, DepthAssumption
<1> HIDE DEF Nest
<1>3. Nest = [m \in 0 .. MaxDepth |-> Seq(IF m = 0 THEN Steps ELSE Steps \cup Around(Nest[m - 1]))]
  BY <1>2 DEF isNest
<1>4. Nest[0] = Seq(Steps)
  BY <1>3, DepthAssumption
<1>5. ASSUME NEW n \in 1..MaxDepth
      PROVE  Nest[n] = Seq(Steps \cup Around(Nest[n - 1]))
  <2>1. n \in 0..MaxDepth /\ n # 0
    BY DepthAssumption
  <2> QED BY <1>3, <2>1
<1> QED BY <1>4, <1>5

\* A block may be one level deeper than it is.
LEMMA NestGrows ==
  ASSUME NEW n \in 1..MaxDepth
  PROVE  Nest[n - 1] \subseteq Nest[n]
<1> DEFINE U == {m \in 0..MaxDepth - 1 : Nest[m] \subseteq Nest[m + 1]}
<1> HIDE DEF Nest
<1>1. MaxDepth - 1 \in Nat
  BY DepthAssumption
<1>2. 0 \in U
  <2>1. 0 \in 0..MaxDepth - 1 /\ 0 + 1 \in 1..MaxDepth /\ (0 + 1) - 1 = 0
    BY <1>1, DepthAssumption
  <2>2. Nest[0] = Seq(Steps) /\ Nest[0 + 1] = Seq(Steps \cup Around(Nest[0]))
    BY <2>1, NestDef
  <2> QED BY <2>1, <2>2, SeqMonotonic
<1>3. ASSUME NEW m \in 0..(MaxDepth - 1) - 1, m \in U PROVE m + 1 \in U
  <2>1. /\ m + 1 \in 1..MaxDepth /\ (m + 1) - 1 = m
        /\ m + 2 \in 1..MaxDepth /\ (m + 2) - 1 = m + 1 /\ (m + 1) + 1 = m + 2
        /\ m + 1 \in 0..MaxDepth - 1
    BY <1>1, DepthAssumption
  <2> DEFINE A == Nest[m]
             B == Nest[m + 1]
  <2>2. A \subseteq B
    BY <1>3
  <2>3. B = Seq(Steps \cup Around(A)) /\ Nest[m + 2] = Seq(Steps \cup Around(B))
    BY <2>1, NestDef
  <2> HIDE DEF A, B
  <2>4. Around(A) \subseteq Around(B)
    BY <2>2 DEF Around
  <2>5. B \subseteq Nest[m + 2]
    BY <2>3, <2>4, SeqMonotonic
  <2> QED BY <2>1, <2>5 DEF B
<1>4. \A m \in 0..MaxDepth - 1 : m \in U
  <2> HIDE DEF U
  <2> QED BY <1>1, <1>2, <1>3, UpTo
<1>5. n - 1 \in 0..MaxDepth - 1 /\ (n - 1) + 1 = n
  BY DepthAssumption
<1> QED BY <1>4, <1>5

\* The blocks of the operations of a block are less deep.
Inner(n) == IF n = 0 THEN {} ELSE Nest[n - 1]
isStep(o) == o \in Steps /\ o.op \notin {"for", "execute", "if"}
isFor(o, B) == o.op = "for" /\ o.trip \in Nat /\ o.body \in B /\ o \in [op : {"for"}, trip : Nat, body : B]
isExecute(o, B) == o.op = "execute" /\ o.body \in B /\ o \in [op : {"execute"}, body : B]
isIf(o, B) ==
  /\ o.op = "if" /\ o.then \in B /\ o.else \in B
  /\ o \in [op : {"if"}, set : SUBSET TileIdPairs, constraints : Nat, then : B, else : B]
isOperation(o, B) == isStep(o) \/ isFor(o, B) \/ isExecute(o, B) \/ isIf(o, B)

\* What a block of a depth consists of: single steps, and operations on the
\* blocks one level in.
LEMMA Operations ==
  ASSUME NEW n \in 0..MaxDepth, NEW b \in Nest[n], NEW i \in 1..Len(b)
  PROVE  isOperation(b[i], Inner(n))
<1> HIDE DEF Nest
<1> DEFINE o == b[i]
<1>1. ASSUME o \in Steps PROVE isStep(o)
  BY <1>1 DEF Steps, isStep
<1>2. CASE n = 0
  <2>1. o \in Steps
    BY <1>2, NestDef, ElementOfSeq
  <2> QED BY <1>1, <2>1 DEF isOperation
<1>3. CASE n # 0
  <2>1. n \in 1..MaxDepth
    BY <1>3
  <2> DEFINE B == Nest[n - 1]
  <2>2. o \in Steps \cup Around(B)
    BY <2>1, NestDef, ElementOfSeq
  <2>3. B = Inner(n)
    BY <1>3 DEF Inner
  <2> HIDE DEF B, o
  <2>4. ASSUME o \in Around(B)
        PROVE  isFor(o, B) \/ isExecute(o, B) \/ isIf(o, B)
    BY <2>4 DEF Around, isFor, isExecute, isIf
  <2>5. isStep(o) \/ isFor(o, B) \/ isExecute(o, B) \/ isIf(o, B)
    BY <1>1, <2>2, <2>4
  <2> QED BY <2>3, <2>5 DEF o, isOperation
<1> QED BY <1>2, <1>3

\* The depth of inner blocks.
LEMMA InnerBlocks ==
  ASSUME NEW n \in 0..MaxDepth
  PROVE  Inner(n) \subseteq Nest[n] /\ Nest[n] \subseteq Blocks
<1> HIDE DEF Nest
<1>1. Inner(n) \subseteq Nest[n]
  <2>1. CASE n = 0 BY <2>1 DEF Inner
  <2>2. CASE n # 0
    <3>1. n \in 1..MaxDepth
      BY <2>2
    <3> QED BY <2>2, <3>1, NestGrows DEF Inner
  <2> QED BY <2>1, <2>2
<1>2. Nest[n] \subseteq Blocks
  <2> DEFINE U == {m \in 0..MaxDepth : \A k \in 0..m : Nest[k] \subseteq Nest[m]}
  <2>1. 0 \in U
    BY DepthAssumption
  <2>2. ASSUME NEW m \in 0..MaxDepth - 1, m \in U PROVE m + 1 \in U
    <3>1. m + 1 \in 1..MaxDepth /\ m + 1 \in 0..MaxDepth /\ (m + 1) - 1 = m
      BY DepthAssumption
    <3>2. Nest[m] \subseteq Nest[m + 1]
      BY <3>1, NestGrows
    <3>3. ASSUME NEW k \in 0..m + 1 PROVE Nest[k] \subseteq Nest[m + 1]
      <4>1. k = m + 1 \/ k \in 0..m
        OBVIOUS
      <4> QED BY <2>2, <3>2, <4>1
    <3> QED BY <3>1, <3>3
  <2>3. \A m \in 0..MaxDepth : m \in U
    <3> HIDE DEF U
    <3> QED BY <2>1, <2>2, UpTo, DepthAssumption
  <2>4. MaxDepth \in 0..MaxDepth
    BY DepthAssumption
  <2> QED BY <2>3, <2>4 DEF Blocks
<1> QED BY <1>1, <1>2

\* A block of some depth, and an inner block of all blocks.
LEMMA AllBlocks ==
  MaxDepth \in 0..MaxDepth /\ Nest[MaxDepth] = Blocks /\ Inner(MaxDepth) \subseteq Blocks
BY DepthAssumption, InnerBlocks DEF Blocks

\* What Specialized does with an operation.
specialStep(f, xy, o) ==
  CASE o.op = "if"      -> f[IF isInSet(o, xy) THEN o.then ELSE o.else]
    [] o.op = "execute" -> f[o.body]
    [] o.op = "for"     -> <<[o EXCEPT !.body = f[o.body]]>>
    [] OTHER            -> <<o>>
specialRule(xy, o) ==
  CASE o.op = "if"      -> Specialized(IF isInSet(o, xy) THEN o.then ELSE o.else, xy)
    [] o.op = "execute" -> Specialized(o.body, xy)
    [] o.op = "for"     -> <<[o EXCEPT !.body = Specialized(o.body, xy)]>>
    [] OTHER            -> <<o>>
isSpecial(f, xy, n) ==
  f = [b \in Nest[n] |-> FlattenSeq([i \in 1..Len(b) |-> specialStep(f, xy, b[i])])]

\* One step of Specialized depends only on the inner blocks.
LEMMA SpecialDepends ==
  ASSUME NEW B, NEW f, NEW g, NEW xy, \A c \in B : f[c] = g[c], NEW o, isOperation(o, B)
  PROVE  specialStep(f, xy, o) = specialStep(g, xy, o)
<1>1. CASE isStep(o)
  BY <1>1 DEF isStep, specialStep
<1>2. CASE isFor(o, B)
  BY <1>2 DEF isFor, specialStep
<1>3. CASE isExecute(o, B)
  BY <1>3 DEF isExecute, specialStep
<1>4. CASE isIf(o, B)
  BY <1>4 DEF isIf, specialStep
<1> QED BY <1>1, <1>2, <1>3, <1>4 DEF isOperation

\* Specialized exists, depth by depth.
LEMMA SpecialExists ==
  ASSUME TRUE, NEW xy
  PROVE  \E f : isSpecial(f, xy, MaxDepth)
<1> HIDE DEF Nest
<1> DEFINE U == {n \in 0..MaxDepth : \E f : isSpecial(f, xy, n)}
           G(f, n) == [b \in Nest[n] |-> FlattenSeq([i \in 1..Len(b) |-> specialStep(f, xy, b[i])])]
<1>1. ASSUME NEW n \in 0..MaxDepth, NEW f, \A c \in Inner(n) : G(f, n)[c] = f[c]
      PROVE  isSpecial(G(f, n), xy, n)
  <2> DEFINE g == G(f, n)
  <2>1. \A c \in Inner(n) : g[c] = f[c]
    BY <1>1
  <2> HIDE DEF g, G
  <2>2. ASSUME NEW b \in Nest[n]
        PROVE  [i \in 1..Len(b) |-> specialStep(g, xy, b[i])] = [i \in 1..Len(b) |-> specialStep(f, xy, b[i])]
    <3>1. ASSUME NEW i \in 1..Len(b) PROVE specialStep(g, xy, b[i]) = specialStep(f, xy, b[i])
      <4> DEFINE o == b[i]
                 B == Inner(n)
      <4>1. isOperation(o, B)
        BY Operations
      <4>2. \A c \in B : f[c] = g[c]
        BY <2>1
      <4> HIDE DEF o, B
      <4>3. specialStep(g, xy, o) = specialStep(f, xy, o)
        BY ONLY <4>1, <4>2, SpecialDepends
      <4> QED BY <4>3 DEF o
    <3> QED BY <3>1
  <2>3. g = [b \in Nest[n] |-> FlattenSeq([i \in 1..Len(b) |-> specialStep(f, xy, b[i])])]
    BY DEF g, G
  <2>4. g = [b \in Nest[n] |-> FlattenSeq([i \in 1..Len(b) |-> specialStep(g, xy, b[i])])]
    BY <2>2, <2>3
  <2> QED BY <2>4 DEF isSpecial, g
<1>2. 0 \in U
  <2>1. 0 \in 0..MaxDepth /\ Inner(0) = {}
    BY DepthAssumption DEF Inner
  <2> HIDE DEF G
  <2>2. isSpecial(G(<<>>, 0), xy, 0)
    BY <1>1, <2>1
  <2> QED BY <2>1, <2>2
<1>3. ASSUME NEW n \in 0..MaxDepth - 1, n \in U PROVE n + 1 \in U
  <2>1. n \in 0..MaxDepth /\ n + 1 \in 0..MaxDepth /\ n + 1 \in 1..MaxDepth /\ (n + 1) - 1 = n /\ n + 1 # 0
    BY DepthAssumption
  <2>2. PICK f : isSpecial(f, xy, n)
    BY <1>3
  <2>3. ASSUME NEW c \in Inner(n + 1) PROVE G(f, n + 1)[c] = f[c]
    <3>1. c \in Nest[n] /\ c \in Nest[n + 1]
      BY <2>1, NestGrows DEF Inner
    <3> DEFINE v == FlattenSeq([i \in 1..Len(c) |-> specialStep(f, xy, c[i])])
    <3>2. G(f, n + 1)[c] = v
      BY <3>1
    <3>3. f[c] = v
      <4> HIDE DEF G
      <4> QED BY <2>2, <3>1 DEF isSpecial
    <3> QED BY ONLY <3>2, <3>3
  <2> HIDE DEF G
  <2>4. isSpecial(G(f, n + 1), xy, n + 1)
    BY <1>1, <2>1, <2>3
  <2> QED BY <2>1, <2>4
<1>4. \A n \in 0..MaxDepth : n \in U
  <2> HIDE DEF U
  <2> QED BY <1>2, <1>3, UpTo, DepthAssumption
<1> QED BY <1>4, DepthAssumption

\* Specialized is what its recursion says, for every block.
LEMMA SpecialIs ==
  ASSUME NEW b \in Blocks, NEW xy
  PROVE  Specialized(b, xy) = FlattenSeq([i \in 1..Len(b) |-> specialRule(xy, b[i])])
<1> HIDE DEF Nest, Blocks
<1> DEFINE f == CHOOSE g : isSpecial(g, xy, MaxDepth)
<1>1. isSpecial(f, xy, MaxDepth)
  BY SpecialExists
<1>2. \A c : Specialized(c, xy) = f[c]
  BY DEF Specialized, Concat, isSpecial, specialStep, Blocks
<1> HIDE DEF f
<1>3. \A i \in 1..Len(b) : specialStep(f, xy, b[i]) = specialRule(xy, b[i])
  BY <1>2 DEF specialStep, specialRule
<1>4. f[b] = FlattenSeq([i \in 1..Len(b) |-> specialStep(f, xy, b[i])])
  BY <1>1, AllBlocks DEF isSpecial
<1>5. [i \in 1..Len(b) |-> specialStep(f, xy, b[i])] = [i \in 1..Len(b) |-> specialRule(xy, b[i])]
  BY <1>3
<1> QED BY <1>2, <1>4, <1>5

\* What Source does with an operation.
sourceStep(f, xy, o) ==
  CASE o.op = "if"      -> f[IF xy \in o.set THEN o.then ELSE o.else]
    [] o.op = "execute" -> f[o.body]
    [] o.op = "for"     -> <<[o EXCEPT !.body = f[o.body]]>>
    [] OTHER            -> <<o>>
sourceRule(xy, o) ==
  CASE o.op = "if"      -> Source(IF xy \in o.set THEN o.then ELSE o.else, xy)
    [] o.op = "execute" -> Source(o.body, xy)
    [] o.op = "for"     -> <<[o EXCEPT !.body = Source(o.body, xy)]>>
    [] OTHER            -> <<o>>
isSource(f, xy, n) ==
  f = [b \in Nest[n] |-> FlattenSeq([i \in 1..Len(b) |-> sourceStep(f, xy, b[i])])]

\* One step of Source depends only on the inner blocks.
LEMMA SourceDepends ==
  ASSUME NEW B, NEW f, NEW g, NEW xy, \A c \in B : f[c] = g[c], NEW o, isOperation(o, B)
  PROVE  sourceStep(f, xy, o) = sourceStep(g, xy, o)
<1>1. CASE isStep(o)
  BY <1>1 DEF isStep, sourceStep
<1>2. CASE isFor(o, B)
  BY <1>2 DEF isFor, sourceStep
<1>3. CASE isExecute(o, B)
  BY <1>3 DEF isExecute, sourceStep
<1>4. CASE isIf(o, B)
  BY <1>4 DEF isIf, sourceStep
<1> QED BY <1>1, <1>2, <1>3, <1>4 DEF isOperation

\* Source exists, depth by depth.
LEMMA SourceExists ==
  ASSUME TRUE, NEW xy
  PROVE  \E f : isSource(f, xy, MaxDepth)
<1> HIDE DEF Nest
<1> DEFINE U == {n \in 0..MaxDepth : \E f : isSource(f, xy, n)}
           G(f, n) == [b \in Nest[n] |-> FlattenSeq([i \in 1..Len(b) |-> sourceStep(f, xy, b[i])])]
<1>1. ASSUME NEW n \in 0..MaxDepth, NEW f, \A c \in Inner(n) : G(f, n)[c] = f[c]
      PROVE  isSource(G(f, n), xy, n)
  <2> DEFINE g == G(f, n)
  <2>1. \A c \in Inner(n) : g[c] = f[c]
    BY <1>1
  <2> HIDE DEF g, G
  <2>2. ASSUME NEW b \in Nest[n]
        PROVE  [i \in 1..Len(b) |-> sourceStep(g, xy, b[i])] = [i \in 1..Len(b) |-> sourceStep(f, xy, b[i])]
    <3>1. ASSUME NEW i \in 1..Len(b) PROVE sourceStep(g, xy, b[i]) = sourceStep(f, xy, b[i])
      <4> DEFINE o == b[i]
                 B == Inner(n)
      <4>1. isOperation(o, B)
        BY Operations
      <4>2. \A c \in B : f[c] = g[c]
        BY <2>1
      <4> HIDE DEF o, B
      <4>3. sourceStep(g, xy, o) = sourceStep(f, xy, o)
        BY ONLY <4>1, <4>2, SourceDepends
      <4> QED BY <4>3 DEF o
    <3> QED BY <3>1
  <2>3. g = [b \in Nest[n] |-> FlattenSeq([i \in 1..Len(b) |-> sourceStep(f, xy, b[i])])]
    BY DEF g, G
  <2>4. g = [b \in Nest[n] |-> FlattenSeq([i \in 1..Len(b) |-> sourceStep(g, xy, b[i])])]
    BY <2>2, <2>3
  <2> QED BY <2>4 DEF isSource, g
<1>2. 0 \in U
  <2>1. 0 \in 0..MaxDepth /\ Inner(0) = {}
    BY DepthAssumption DEF Inner
  <2> HIDE DEF G
  <2>2. isSource(G(<<>>, 0), xy, 0)
    BY <1>1, <2>1
  <2> QED BY <2>1, <2>2
<1>3. ASSUME NEW n \in 0..MaxDepth - 1, n \in U PROVE n + 1 \in U
  <2>1. n \in 0..MaxDepth /\ n + 1 \in 0..MaxDepth /\ n + 1 \in 1..MaxDepth /\ (n + 1) - 1 = n /\ n + 1 # 0
    BY DepthAssumption
  <2>2. PICK f : isSource(f, xy, n)
    BY <1>3
  <2>3. ASSUME NEW c \in Inner(n + 1) PROVE G(f, n + 1)[c] = f[c]
    <3>1. c \in Nest[n] /\ c \in Nest[n + 1]
      BY <2>1, NestGrows DEF Inner
    <3> DEFINE v == FlattenSeq([i \in 1..Len(c) |-> sourceStep(f, xy, c[i])])
    <3>2. G(f, n + 1)[c] = v
      BY <3>1
    <3>3. f[c] = v
      <4> HIDE DEF G
      <4> QED BY <2>2, <3>1 DEF isSource
    <3> QED BY ONLY <3>2, <3>3
  <2> HIDE DEF G
  <2>4. isSource(G(f, n + 1), xy, n + 1)
    BY <1>1, <2>1, <2>3
  <2> QED BY <2>1, <2>4
<1>4. \A n \in 0..MaxDepth : n \in U
  <2> HIDE DEF U
  <2> QED BY <1>2, <1>3, UpTo, DepthAssumption
<1> QED BY <1>4, DepthAssumption

\* Source is what its recursion says, for every block.
LEMMA SourceIs ==
  ASSUME NEW b \in Blocks, NEW xy
  PROVE  Source(b, xy) = FlattenSeq([i \in 1..Len(b) |-> sourceRule(xy, b[i])])
<1> HIDE DEF Nest, Blocks
<1> DEFINE f == CHOOSE g : isSource(g, xy, MaxDepth)
<1>1. isSource(f, xy, MaxDepth)
  BY SourceExists
<1>2. \A c : Source(c, xy) = f[c]
  BY DEF Source, Concat, isSource, sourceStep, Blocks
<1> HIDE DEF f
<1>3. \A i \in 1..Len(b) : sourceStep(f, xy, b[i]) = sourceRule(xy, b[i])
  BY <1>2 DEF sourceStep, sourceRule
<1>4. f[b] = FlattenSeq([i \in 1..Len(b) |-> sourceStep(f, xy, b[i])])
  BY <1>1, AllBlocks DEF isSource
<1>5. [i \in 1..Len(b) |-> sourceStep(f, xy, b[i])] = [i \in 1..Len(b) |-> sourceRule(xy, b[i])]
  BY <1>3
<1> QED BY <1>2, <1>4, <1>5

\* The blocks of an operation are inner blocks.
LEMMA RegionsOf ==
  ASSUME NEW B, NEW o, isOperation(o, B)
  PROVE  Regions(o) \in Seq(B)
<1>1. CASE isStep(o)
  BY <1>1 DEF isStep, Regions
<1>2. CASE isFor(o, B)
  BY <1>2 DEF isFor, Regions
<1>3. CASE isExecute(o, B)
  BY <1>3 DEF isExecute, Regions
<1>4. CASE isIf(o, B)
  BY <1>4 DEF isIf, Regions
<1> QED BY <1>1, <1>2, <1>3, <1>4 DEF isOperation

\* What Walk does with an operation.
walkStep(f, o) ==
  <<o>> \o FlattenSeq([r \in 1..Len(Regions(o)) |-> f[Regions(o)[r]]])
walkRule(o) ==
  <<o>> \o FlattenSeq([r \in 1..Len(Regions(o)) |-> Walk(Regions(o)[r])])
isWalk(f, n) ==
  f = [b \in Nest[n] |-> FlattenSeq([i \in 1..Len(b) |-> walkStep(f, b[i])])]

\* One step of Walk depends only on the inner blocks.
LEMMA WalkDepends ==
  ASSUME NEW B, NEW f, NEW g, \A c \in B : f[c] = g[c], NEW o, isOperation(o, B)
  PROVE  walkStep(f, o) = walkStep(g, o)
<1> DEFINE R == Regions(o)
<1>1. R \in Seq(B)
  BY RegionsOf
<1> HIDE DEF R
<1>2. \A r \in 1..Len(R) : f[R[r]] = g[R[r]]
  BY <1>1, ElementOfSeq
<1>3. [r \in 1..Len(R) |-> f[R[r]]] = [r \in 1..Len(R) |-> g[R[r]]]
  BY <1>2
<1> QED BY ONLY <1>3 DEF walkStep, R

\* Walk exists, depth by depth.
LEMMA WalkExists ==
  ASSUME TRUE
  PROVE  \E f : isWalk(f, MaxDepth)
<1> HIDE DEF Nest
<1> DEFINE U == {n \in 0..MaxDepth : \E f : isWalk(f, n)}
           G(f, n) == [b \in Nest[n] |-> FlattenSeq([i \in 1..Len(b) |-> walkStep(f, b[i])])]
<1>1. ASSUME NEW n \in 0..MaxDepth, NEW f, \A c \in Inner(n) : G(f, n)[c] = f[c]
      PROVE  isWalk(G(f, n), n)
  <2> DEFINE g == G(f, n)
  <2>1. \A c \in Inner(n) : g[c] = f[c]
    BY <1>1
  <2> HIDE DEF g, G
  <2>2. ASSUME NEW b \in Nest[n]
        PROVE  [i \in 1..Len(b) |-> walkStep(g, b[i])] = [i \in 1..Len(b) |-> walkStep(f, b[i])]
    <3>1. ASSUME NEW i \in 1..Len(b) PROVE walkStep(g, b[i]) = walkStep(f, b[i])
      <4> DEFINE o == b[i]
                 B == Inner(n)
      <4>1. isOperation(o, B)
        BY Operations
      <4>2. \A c \in B : f[c] = g[c]
        BY <2>1
      <4> HIDE DEF o, B
      <4>3. walkStep(g, o) = walkStep(f, o)
        BY ONLY <4>1, <4>2, WalkDepends
      <4> QED BY <4>3 DEF o
    <3> QED BY <3>1
  <2>3. g = [b \in Nest[n] |-> FlattenSeq([i \in 1..Len(b) |-> walkStep(f, b[i])])]
    BY DEF g, G
  <2>4. g = [b \in Nest[n] |-> FlattenSeq([i \in 1..Len(b) |-> walkStep(g, b[i])])]
    BY <2>2, <2>3
  <2> QED BY <2>4 DEF isWalk, g
<1>2. 0 \in U
  <2>1. 0 \in 0..MaxDepth /\ Inner(0) = {}
    BY DepthAssumption DEF Inner
  <2> HIDE DEF G
  <2>2. isWalk(G(<<>>, 0), 0)
    BY <1>1, <2>1
  <2> QED BY <2>1, <2>2
<1>3. ASSUME NEW n \in 0..MaxDepth - 1, n \in U PROVE n + 1 \in U
  <2>1. n \in 0..MaxDepth /\ n + 1 \in 0..MaxDepth /\ n + 1 \in 1..MaxDepth /\ (n + 1) - 1 = n /\ n + 1 # 0
    BY DepthAssumption
  <2>2. PICK f : isWalk(f, n)
    BY <1>3
  <2>3. ASSUME NEW c \in Inner(n + 1) PROVE G(f, n + 1)[c] = f[c]
    <3>1. c \in Nest[n] /\ c \in Nest[n + 1]
      BY <2>1, NestGrows DEF Inner
    <3> DEFINE v == FlattenSeq([i \in 1..Len(c) |-> walkStep(f, c[i])])
    <3>2. G(f, n + 1)[c] = v
      BY <3>1
    <3>3. f[c] = v
      <4> HIDE DEF G
      <4> QED BY <2>2, <3>1 DEF isWalk
    <3> QED BY ONLY <3>2, <3>3
  <2> HIDE DEF G
  <2>4. isWalk(G(f, n + 1), n + 1)
    BY <1>1, <2>1, <2>3
  <2> QED BY <2>1, <2>4
<1>4. \A n \in 0..MaxDepth : n \in U
  <2> HIDE DEF U
  <2> QED BY <1>2, <1>3, UpTo, DepthAssumption
<1> QED BY <1>4, DepthAssumption

\* Walk is what its recursion says, for every block.
LEMMA WalkIs ==
  ASSUME NEW b \in Blocks
  PROVE  Walk(b) = FlattenSeq([i \in 1..Len(b) |-> walkRule(b[i])])
<1> HIDE DEF Nest, Blocks
<1> DEFINE f == CHOOSE g : isWalk(g, MaxDepth)
<1>1. isWalk(f, MaxDepth)
  BY WalkExists
<1>2. \A c : Walk(c) = f[c]
  BY DEF Walk, Concat, isWalk, walkStep, Blocks
<1> HIDE DEF f
<1>3. \A i \in 1..Len(b) : walkStep(f, b[i]) = walkRule(b[i])
  BY <1>2 DEF walkStep, walkRule
<1>4. f[b] = FlattenSeq([i \in 1..Len(b) |-> walkStep(f, b[i])])
  BY <1>1, AllBlocks DEF isWalk
<1>5. [i \in 1..Len(b) |-> walkStep(f, b[i])] = [i \in 1..Len(b) |-> walkRule(b[i])]
  BY <1>3
<1> QED BY <1>2, <1>4, <1>5

\* What HostBody makes of an operation.
hostStep(f, q, k, xy, o) ==
  CASE o.op = "for"     -> Times(o.trip, f[o.body])
    [] o.op = "execute" -> f[o.body]
    [] o.op = "if"      -> f[IF xy \in o.set THEN o.then ELSE o.else]
    [] o.op = "dma"     -> <<copy(q, k, o, xy)>>
    [] OTHER            -> <<>>
hostRule(q, k, xy, o) ==
  CASE o.op = "for"     -> Times(o.trip, HostBody(o.body, q, k, xy))
    [] o.op = "execute" -> HostBody(o.body, q, k, xy)
    [] o.op = "if"      -> HostBody(IF xy \in o.set THEN o.then ELSE o.else, q, k, xy)
    [] o.op = "dma"     -> <<copy(q, k, o, xy)>>
    [] OTHER            -> <<>>
isHost(f, q, k, xy, n) ==
  f = [b \in Nest[n] |-> FlattenSeq([i \in 1..Len(b) |-> hostStep(f, q, k, xy, b[i])])]

\* One step of HostBody depends only on the inner blocks.
LEMMA HostDepends ==
  ASSUME NEW B, NEW f, NEW g, NEW q, NEW k, NEW xy, \A c \in B : f[c] = g[c], NEW o, isOperation(o, B)
  PROVE  hostStep(f, q, k, xy, o) = hostStep(g, q, k, xy, o)
<1>1. CASE isStep(o)
  BY <1>1 DEF isStep, hostStep
<1>2. CASE isFor(o, B)
  BY <1>2 DEF isFor, hostStep
<1>3. CASE isExecute(o, B)
  BY <1>3 DEF isExecute, hostStep
<1>4. CASE isIf(o, B)
  BY <1>4 DEF isIf, hostStep
<1> QED BY <1>1, <1>2, <1>3, <1>4 DEF isOperation

\* HostBody exists, depth by depth.
LEMMA HostExists ==
  ASSUME TRUE, NEW q, NEW k, NEW xy
  PROVE  \E f : isHost(f, q, k, xy, MaxDepth)
<1> HIDE DEF Nest
<1> DEFINE U == {n \in 0..MaxDepth : \E f : isHost(f, q, k, xy, n)}
           G(f, n) == [b \in Nest[n] |-> FlattenSeq([i \in 1..Len(b) |-> hostStep(f, q, k, xy, b[i])])]
<1>1. ASSUME NEW n \in 0..MaxDepth, NEW f, \A c \in Inner(n) : G(f, n)[c] = f[c]
      PROVE  isHost(G(f, n), q, k, xy, n)
  <2> DEFINE g == G(f, n)
  <2>1. \A c \in Inner(n) : g[c] = f[c]
    BY <1>1
  <2> HIDE DEF g, G
  <2>2. ASSUME NEW b \in Nest[n]
        PROVE  [i \in 1..Len(b) |-> hostStep(g, q, k, xy, b[i])] = [i \in 1..Len(b) |-> hostStep(f, q, k, xy, b[i])]
    <3>1. ASSUME NEW i \in 1..Len(b) PROVE hostStep(g, q, k, xy, b[i]) = hostStep(f, q, k, xy, b[i])
      <4> DEFINE o == b[i]
                 B == Inner(n)
      <4>1. isOperation(o, B)
        BY Operations
      <4>2. \A c \in B : f[c] = g[c]
        BY <2>1
      <4> HIDE DEF o, B
      <4>3. hostStep(g, q, k, xy, o) = hostStep(f, q, k, xy, o)
        BY ONLY <4>1, <4>2, HostDepends
      <4> QED BY <4>3 DEF o
    <3> QED BY <3>1
  <2>3. g = [b \in Nest[n] |-> FlattenSeq([i \in 1..Len(b) |-> hostStep(f, q, k, xy, b[i])])]
    BY DEF g, G
  <2>4. g = [b \in Nest[n] |-> FlattenSeq([i \in 1..Len(b) |-> hostStep(g, q, k, xy, b[i])])]
    BY <2>2, <2>3
  <2> QED BY <2>4 DEF isHost, g
<1>2. 0 \in U
  <2>1. 0 \in 0..MaxDepth /\ Inner(0) = {}
    BY DepthAssumption DEF Inner
  <2> HIDE DEF G
  <2>2. isHost(G(<<>>, 0), q, k, xy, 0)
    BY <1>1, <2>1
  <2> QED BY <2>1, <2>2
<1>3. ASSUME NEW n \in 0..MaxDepth - 1, n \in U PROVE n + 1 \in U
  <2>1. n \in 0..MaxDepth /\ n + 1 \in 0..MaxDepth /\ n + 1 \in 1..MaxDepth /\ (n + 1) - 1 = n /\ n + 1 # 0
    BY DepthAssumption
  <2>2. PICK f : isHost(f, q, k, xy, n)
    BY <1>3
  <2>3. ASSUME NEW c \in Inner(n + 1) PROVE G(f, n + 1)[c] = f[c]
    <3>1. c \in Nest[n] /\ c \in Nest[n + 1]
      BY <2>1, NestGrows DEF Inner
    <3> DEFINE v == FlattenSeq([i \in 1..Len(c) |-> hostStep(f, q, k, xy, c[i])])
    <3>2. G(f, n + 1)[c] = v
      BY <3>1
    <3>3. f[c] = v
      <4> HIDE DEF G
      <4> QED BY <2>2, <3>1 DEF isHost
    <3> QED BY ONLY <3>2, <3>3
  <2> HIDE DEF G
  <2>4. isHost(G(f, n + 1), q, k, xy, n + 1)
    BY <1>1, <2>1, <2>3
  <2> QED BY <2>1, <2>4
<1>4. \A n \in 0..MaxDepth : n \in U
  <2> HIDE DEF U
  <2> QED BY <1>2, <1>3, UpTo, DepthAssumption
<1> QED BY <1>4, DepthAssumption

\* HostBody is what its recursion says, for every block.
LEMMA HostIs ==
  ASSUME NEW b \in Blocks, NEW q, NEW k, NEW xy
  PROVE  HostBody(b, q, k, xy) = FlattenSeq([i \in 1..Len(b) |-> hostRule(q, k, xy, b[i])])
<1> HIDE DEF Nest, Blocks
<1> DEFINE f == CHOOSE g : isHost(g, q, k, xy, MaxDepth)
<1>1. isHost(f, q, k, xy, MaxDepth)
  BY HostExists
<1>2. \A c : HostBody(c, q, k, xy) = f[c]
  BY DEF HostBody, Concat, isHost, hostStep, Blocks
<1> HIDE DEF f
<1>3. \A i \in 1..Len(b) : hostStep(f, q, k, xy, b[i]) = hostRule(q, k, xy, b[i])
  BY <1>2 DEF hostStep, hostRule
<1>4. f[b] = FlattenSeq([i \in 1..Len(b) |-> hostStep(f, q, k, xy, b[i])])
  BY <1>1, AllBlocks DEF isHost
<1>5. [i \in 1..Len(b) |-> hostStep(f, q, k, xy, b[i])] = [i \in 1..Len(b) |-> hostRule(q, k, xy, b[i])]
  BY <1>3
<1> QED BY <1>2, <1>4, <1>5

\* A block is a sequence of operations.
LEMMA BlockLength ==
  ASSUME NEW b \in Blocks
  PROVE  Len(b) \in Nat
<1> HIDE DEF Nest
<1>1. b \in Nest[MaxDepth]
  BY DEF Blocks
<1>2. Nest[MaxDepth] = Seq(Steps) \/ \E n : Nest[MaxDepth] = Seq(Steps \cup Around(n))
  BY NestDef, DepthAssumption
<1> HIDE DEF Blocks
<1> QED BY <1>1, <1>2, LenProperties

\* What holds of a block if it holds of the blocks of its operations holds of
\* all blocks.
LEMMA BlockInduction ==
  ASSUME NEW U,
         \A B \in SUBSET U : \A b \in Blocks :
           (\A i \in 1..Len(b) : isOperation(b[i], B)) => b \in U
  PROVE  Blocks \subseteq U
<1> HIDE DEF Nest, Blocks
<1> DEFINE T == {n \in 0..MaxDepth : Nest[n] \subseteq U}
<1>1. ASSUME NEW n \in 0..MaxDepth, Inner(n) \subseteq U
      PROVE  Nest[n] \subseteq U
  <2> SUFFICES ASSUME NEW b \in Nest[n] PROVE b \in U
    OBVIOUS
  <2>1. \A i \in 1..Len(b) : isOperation(b[i], Inner(n))
    BY Operations
  <2>2. b \in Blocks
    BY InnerBlocks
  <2> QED BY <1>1, <2>1, <2>2
<1>2. 0 \in T
  BY <1>1, DepthAssumption DEF Inner
<1>3. ASSUME NEW n \in 0..MaxDepth - 1, n \in T PROVE n + 1 \in T
  <2>1. n + 1 \in 0..MaxDepth /\ n + 1 # 0 /\ (n + 1) - 1 = n
    BY DepthAssumption
  <2>2. Inner(n + 1) \subseteq U
    BY <1>3, <2>1 DEF Inner
  <2> QED BY <1>1, <2>1, <2>2
<1>4. \A n \in 0..MaxDepth : n \in T
  <2> HIDE DEF T
  <2> QED BY <1>2, <1>3, UpTo, DepthAssumption
<1> QED BY <1>4, AllBlocks

\* The operations of a block.
LEMMA BlockOperations ==
  ASSUME NEW b \in Blocks
  PROVE  \A i \in 1..Len(b) : isOperation(b[i], Blocks)
<1> HIDE DEF Nest, Blocks
<1>1. \A i \in 1..Len(b) : isOperation(b[i], Inner(MaxDepth))
  BY Operations, AllBlocks
<1> SUFFICES ASSUME NEW i \in 1..Len(b) PROVE isOperation(b[i], Blocks)
  OBVIOUS
<1> DEFINE o == b[i]
<1>2. isOperation(o, Inner(MaxDepth))
  BY <1>1
<1> HIDE DEF o
<1>3. isOperation(o, Blocks)
  BY <1>2, AllBlocks DEF isOperation, isFor, isExecute, isIf
<1> QED BY <1>3 DEF o

-----------------------------------------------------------------------------
(* The host program.                                                       *)

\* A sequence repeated.
LEMMA Repeated ==
  ASSUME NEW C, <<>> \in C, \A s, t \in C : s \o t \in C, NEW n \in Nat, NEW s \in C
  PROVE  Times(n, s) \in C
<1>1. [i \in 1..n |-> s] \in Seq(C)
  OBVIOUS
<1> QED BY <1>1, FlattenCloses DEF Times

\* Sequences are closed under concatenation.
LEMMA SeqCloses ==
  ASSUME NEW S
  PROVE  <<>> \in Seq(S) /\ \A s, t \in Seq(S) : s \o t \in Seq(S)
OBVIOUS

CopiesOf(q, k) == {copy(q, k, o, xy) : o \in Steps, xy \in Nat \X Nat}
HostOps ==
  {load("partition_load", q, 0, P(q).name) : q \in Parts} \cup
  {load("herd_load", h[1], h[2], Herd(h[1], h[2]).name) : h \in Herds} \cup
  UNION {CopiesOf(h[1], h[2]) : h \in Herds}

\* A copy comes after another one of its herd or after the load of its herd.
Follows(a, c) == a.op \in {"herd_load", "copy"} /\ a.part = c.part /\ a.herd = c.herd
Led == {s \in Seq(HostOps) : \A i \in 1..Len(s) : s[i].op = "copy" => i > 1 /\ Follows(s[i - 1], s[i])}

\* The copies of a herd's body.
LEMMA BodyCopies ==
  ASSUME NEW b \in Blocks, NEW q, NEW k, NEW xy \in Nat \X Nat
  PROVE  HostBody(b, q, k, xy) \in Seq(CopiesOf(q, k))
<1> HIDE DEF Blocks
<1> DEFINE C == CopiesOf(q, k)
           U == {c \in Blocks : HostBody(c, q, k, xy) \in Seq(C)}
<1>1. <<>> \in Seq(C) /\ \A s, t \in Seq(C) : s \o t \in Seq(C)
  BY SeqCloses
<1>2. ASSUME NEW B \in SUBSET U, NEW o, isOperation(o, B)
      PROVE  hostRule(q, k, xy, o) \in Seq(C)
  <2>1. CASE isFor(o, B)
    <3>1. HostBody(o.body, q, k, xy) \in Seq(C) /\ o.trip \in Nat
      BY <2>1 DEF isFor
    <3> HIDE DEF C
    <3>2. Times(o.trip, HostBody(o.body, q, k, xy)) \in Seq(C)
      BY <1>1, <3>1, Repeated
    <3> QED BY <2>1, <3>2 DEF isFor, hostRule
  <2>2. CASE isExecute(o, B)
    BY <2>2 DEF isExecute, hostRule
  <2>3. CASE isIf(o, B)
    BY <2>3 DEF isIf, hostRule
  <2>4. CASE isStep(o)
    <3>1. copy(q, k, o, xy) \in C
      BY <2>4 DEF isStep, CopiesOf
    <3>2. <<copy(q, k, o, xy)>> \in Seq(C)
      BY <3>1
    <3> HIDE DEF C
    <3> QED BY <1>1, <2>4, <3>2 DEF isStep, hostRule
  <2> QED BY <1>2, <2>1, <2>2, <2>3, <2>4 DEF isOperation
<1>3. ASSUME NEW B \in SUBSET U, NEW c \in Blocks, \A i \in 1..Len(c) : isOperation(c[i], B)
      PROVE  c \in U
  <2> DEFINE r(i) == hostRule(q, k, xy, c[i])
             ss == [i \in 1..Len(c) |-> r(i)]
  <2>1. \A i \in 1..Len(c) : r(i) \in Seq(C)
    BY <1>2, <1>3
  <2>2. Len(c) \in Nat
    BY BlockLength
  <2> HIDE DEF r, C
  <2>3. ss \in Seq(Seq(C))
    BY <2>1, <2>2
  <2>4. FlattenSeq(ss) \in Seq(C)
    <3> HIDE DEF ss
    <3> QED BY <1>1, <2>3, FlattenCloses
  <2> QED BY <2>4, HostIs DEF r
<1>4. Blocks \subseteq U
  <2> HIDE DEF U
  <2> QED BY <1>3, BlockInduction
<1> QED BY <1>4

\* Host operations that follow each other well still do when joined.
LEMMA LedCloses ==
  <<>> \in Led /\ \A s, t \in Led : s \o t \in Led
<1>1. <<>> \in Led
  BY DEF Led
<1>2. ASSUME NEW s \in Led, NEW t \in Led PROVE s \o t \in Led
  <2>1. s \in Seq(HostOps) /\ t \in Seq(HostOps)
    BY DEF Led
  <2>2. /\ s \o t \in Seq(HostOps) /\ Len(s \o t) = Len(s) + Len(t)
        /\ \A i \in 1..Len(s) + Len(t) : (s \o t)[i] = IF i <= Len(s) THEN s[i] ELSE t[i - Len(s)]
    BY <2>1, ConcatProperties
  <2>3. Len(s) \in Nat /\ Len(t) \in Nat
    BY <2>1, LenProperties
  <2>4. ASSUME NEW i \in 1..Len(s) + Len(t), (s \o t)[i].op = "copy"
        PROVE  i > 1 /\ Follows((s \o t)[i - 1], (s \o t)[i])
    <3>1. CASE i <= Len(s)
      <4>1. i \in 1..Len(s) /\ (s \o t)[i] = s[i]
        BY <2>2, <2>3, <3>1
      <4>2. i > 1 /\ Follows(s[i - 1], s[i])
        BY <2>4, <4>1 DEF Led
      <4>3. (s \o t)[i - 1] = s[i - 1]
        BY <2>2, <2>3, <3>1, <4>2
      <4> QED BY <4>1, <4>2, <4>3
    <3>2. CASE i > Len(s)
      <4> DEFINE j == i - Len(s)
      <4>1. j \in 1..Len(t) /\ (s \o t)[i] = t[j]
        BY <2>2, <2>3, <3>2
      <4>2. j > 1 /\ Follows(t[j - 1], t[j])
        BY <2>4, <4>1 DEF Led
      <4>3. (s \o t)[i - 1] = t[j - 1] /\ i > 1
        <5>1. i - 1 \in 1..Len(s) + Len(t) /\ i - 1 > Len(s) /\ (i - 1) - Len(s) = j - 1
          BY <2>3, <4>1, <4>2
        <5> QED BY <2>2, <2>3, <5>1
      <4> QED BY <4>1, <4>2, <4>3
    <3> QED BY <2>3, <3>1, <3>2
  <2> QED BY <2>2, <2>4 DEF Led
<1> QED BY <1>1, <1>2

\* A herd is loaded before its copies.
LEMMA LoadLeads ==
  ASSUME NEW h \in Herds, NEW s \in Seq(CopiesOf(h[1], h[2]))
  PROVE  <<load("herd_load", h[1], h[2], Herd(h[1], h[2]).name)>> \o s \in Led
<1> DEFINE l == load("herd_load", h[1], h[2], Herd(h[1], h[2]).name)
           C == CopiesOf(h[1], h[2])
           p == <<l>> \o s
<1>1. /\ l.op = "herd_load" /\ l.part = h[1] /\ l.herd = h[2]
      /\ \A c \in C : c.op = "copy" /\ c.part = h[1] /\ c.herd = h[2]
  BY DEF load, CopiesOf, copy
<1>2. l \in HostOps /\ C \subseteq HostOps /\ s \in Seq(C)
  BY DEF HostOps
<1> HIDE DEF l, C
<1>3. <<l>> \in Seq(HostOps) /\ s \in Seq(HostOps) /\ Len(<<l>>) = 1 /\ Len(s) \in Nat
  <2>1. s \in Seq(HostOps) /\ Len(s) \in Nat
    BY <1>2, SeqMonotonic, LenProperties
  <2>2. <<l>> \in Seq(HostOps) /\ Len(<<l>>) = 1
    BY <1>2
  <2> QED BY <2>1, <2>2
<1>4. /\ p \in Seq(HostOps) /\ Len(p) = 1 + Len(s)
      /\ \A i \in 1..1 + Len(s) : p[i] = IF i <= 1 THEN <<l>>[i] ELSE s[i - 1]
  BY <1>3, ConcatProperties
<1>5. p[1] = l /\ \A i \in 2..1 + Len(s) : p[i] \in C
  <2>1. p[1] = l
    BY <1>3, <1>4
  <2>2. ASSUME NEW i \in 2..1 + Len(s) PROVE p[i] \in C
    <3>1. p[i] = s[i - 1] /\ i - 1 \in 1..Len(s)
      BY <1>3, <1>4
    <3>2. s[i - 1] \in C
      BY <3>1, ElementOfSeq DEF C
    <3> QED BY <3>1, <3>2
  <2> QED BY <2>1, <2>2
<1> HIDE DEF p
<1>6. ASSUME NEW i \in 1..Len(p), p[i].op = "copy"
      PROVE  i > 1 /\ Follows(p[i - 1], p[i])
  <2>1. i # 1
    BY <1>1, <1>5, <1>6
  <2>2. i \in 2..1 + Len(s) /\ p[i] \in C
    BY <1>3, <1>4, <1>5, <2>1
  <2>3. p[i - 1] = l \/ p[i - 1] \in C
    <3>1. i - 1 = 1 \/ i - 1 \in 2..1 + Len(s)
      BY <1>3, <2>2
    <3> QED BY <1>5, <3>1
  <2>4. p[i].part = h[1] /\ p[i].herd = h[2]
    BY <1>1, <2>2
  <2>5. p[i - 1].op \in {"herd_load", "copy"} /\ p[i - 1].part = h[1] /\ p[i - 1].herd = h[2]
    BY <1>1, <2>3
  <2> QED BY <2>2, <2>4, <2>5 DEF Follows
<1>7. p \in Led
  BY <1>4, <1>6 DEF Led
<1> QED BY <1>7 DEF p, l

\* The host operations of a herd.
LEMMA HerdLed ==
  ASSUME prog \in Modules, NEW q \in Parts, NEW k \in Numbers(q)
  PROVE  HostHerd(q, k, Herd(q, k)) \in Led
<1> HIDE DEF Blocks
<1> DEFINE h == Herd(q, k)
           C == CopiesOf(q, k)
           col(x) == FlattenSeq([y \in 1..h.rows |-> HostBody(h.body, q, k, <<x - 1, y - 1>>)])
           all == FlattenSeq([x \in 1..h.cols |-> col(x)])
<1>1. h.rows \in Nat /\ h.cols \in Nat /\ h.body \in Blocks
  BY Sizes, BodiesAssumption DEF Parts, P, Numbers, Herd
<1>2. <<>> \in Seq(C) /\ \A s, t \in Seq(C) : s \o t \in Seq(C)
  BY SeqCloses
<1> HIDE DEF h, C
<1>3. ASSUME NEW x \in 1..h.cols PROVE col(x) \in Seq(C)
  <2> DEFINE F(y) == HostBody(h.body, q, k, <<x - 1, y - 1>>)
             ss == [y \in 1..h.rows |-> F(y)]
  <2>1. ASSUME NEW y \in 1..h.rows PROVE F(y) \in Seq(C)
    <3>1. <<x - 1, y - 1>> \in Nat \X Nat
      BY <1>1
    <3> QED BY <1>1, <3>1, BodyCopies DEF C
  <2> HIDE DEF F
  <2>2. ss \in Seq(Seq(C))
    BY <1>1, <2>1
  <2> HIDE DEF ss
  <2>3. FlattenSeq(ss) \in Seq(C)
    BY <1>2, <2>2, FlattenCloses
  <2> QED BY <2>3 DEF ss, F
<1> HIDE DEF col
<1>4. [x \in 1..h.cols |-> col(x)] \in Seq(Seq(C))
  BY <1>1, <1>3
<1>5. all \in Seq(C)
  BY <1>2, <1>4, FlattenCloses
<1> HIDE DEF all
<1>6. <<load("herd_load", q, k, h.name)>> \o all \in Led
  <2>1. <<q, k>> \in Herds /\ <<q, k>>[1] = q /\ <<q, k>>[2] = k
    BY DEF Herds
  <2> QED BY <1>5, <2>1, LoadLeads DEF C, h
<1> QED BY <1>6 DEF HostHerd, all, col, h

\* The host operations of a partition.
LEMMA PartitionLed ==
  ASSUME prog \in Modules, NEW q \in Parts
  PROVE  HostPartition(q, P(q)) \in Led
<1> DEFINE front == IF P(q).op /\ P(q).named THEN <<load("partition_load", q, 0, P(q).name)>> ELSE <<>>
           F(k) == HostHerd(q, k, P(q).herds[k])
           ss == [k \in 1..Len(P(q).herds) |-> F(k)]
<1>1. front \in Led
  <2> DEFINE l == load("partition_load", q, 0, P(q).name)
  <2>1. l \in HostOps /\ l.op # "copy"
    BY DEF HostOps, load
  <2> HIDE DEF l
  <2>2. <<l>> \in Led
    BY <2>1 DEF Led
  <2> QED BY <2>2, LedCloses DEF l
<1>2. Len(P(q).herds) \in Nat
  BY Sizes
<1>3. ASSUME NEW k \in 1..Len(P(q).herds) PROVE F(k) \in Led
  BY HerdLed DEF Numbers, Herd
<1> HIDE DEF F
<1>4. ss \in Seq(Led)
  BY <1>2, <1>3
<1> HIDE DEF ss
<1>5. FlattenSeq(ss) \in Led
  BY <1>4, LedCloses, FlattenCloses
<1> HIDE DEF front
<1>6. front \o FlattenSeq(ss) \in Led
  BY <1>1, <1>5, LedCloses
<1> QED BY <1>6 DEF HostPartition, front, ss, F

\* In the host program a copy follows the load of its herd or another copy
\* of its herd.
LEMMA HostLed ==
  ASSUME prog \in Modules
  PROVE  HostProgram(prog) \in Led
<1> DEFINE F(q) == HostPartition(q, prog.parts[q])
           ss == [q \in 1..Len(prog.parts) |-> F(q)]
<1>1. Len(prog.parts) \in Nat /\ prog.launches \in Nat
  BY ModulesAssumption, BodiesAssumption
<1>2. ASSUME NEW q \in 1..Len(prog.parts) PROVE F(q) \in Led
  BY PartitionLed DEF Parts, P
<1> HIDE DEF F
<1>3. ss \in Seq(Led)
  BY <1>1, <1>2
<1> HIDE DEF ss
<1>4. FlattenSeq(ss) \in Led
  BY <1>3, LedCloses, FlattenCloses
<1>5. Times(prog.launches, FlattenSeq(ss)) \in Led
  BY <1>1, <1>4, LedCloses, Repeated
<1> QED BY <1>5 DEF HostProgram, ss, F

-----------------------------------------------------------------------------
(* The active herd.                                                        *)

\* The first of one.
LEMMA FirstOfOne ==
  ASSUME NEW x
  PROVE  /\ FirstPartition(prog, {x}) = x
         /\ FirstOf({x}, LAMBDA k, l : k < l) = x
BY DEF FirstPartition, FirstOf

\* The names of a program.
LEMMA NamesOf ==
  ASSUME prog \in Modules, NEW q \in Parts
  PROVE  /\ Len(P(q).name) \in Nat
         /\ \A k \in Numbers(q) : Len(Herd(q, k).name) \in Nat
<1>1. P(q).name \in Seq(Nat) /\ \A k \in Numbers(q) : Herd(q, k).name \in Seq(Nat)
  BY BodiesAssumption DEF Parts, P, Numbers, Herd
<1> QED BY <1>1, LenProperties

\* A partition has the descriptor of a herd that it contains, and of no other.
LEMMA DescriptorOf ==
  ASSUME prog \in Modules, NamesApart, NEW q \in Parts, NEW k \in Numbers(q), NEW a \in Parts
  PROVE  air_herd_get_desc(prog, a, Herd(q, k).name) = IF a = q THEN k ELSE 0
<1> DEFINE asked == Herd(q, k).name
           S == {l \in 1..Len(prog.parts[a].herds) : called(asked, prog.parts[a].herds[l].name)}
<1>1. S = {l \in Numbers(a) : IsPrefix(Herd(a, l).name, asked)}
  BY DEF called, Numbers, Herd, P
<1>2. <<q, k>> \in Herds /\ \A l \in Numbers(a) : <<a, l>> \in Herds
  BY DEF Herds
<1>3. \A l \in Numbers(a) : <<a, l>> # <<q, k>> => ~IsPrefix(Herd(a, l).name, asked)
  BY <1>2 DEF NamesApart
<1>4. IsPrefix(asked, asked)
  BY NamesOf DEF IsPrefix
<1>5. a # 0
  BY DEF Parts
<1>6. CASE a = q
  <2>1. S = {k}
    BY <1>1, <1>3, <1>4, <1>6
  <2>2. air_herd_get_desc(prog, a, asked) = FirstOf(S, LAMBDA i, j : i < j)
    BY <1>5 DEF air_herd_get_desc
  <2> HIDE DEF S
  <2>3. air_herd_get_desc(prog, a, asked) = k
    BY <2>1, <2>2, FirstOfOne
  <2> QED BY <1>6, <2>3
<1>7. CASE a # q
  <2>1. S = {}
    BY <1>1, <1>3, <1>7
  <2>2. air_herd_get_desc(prog, a, asked) = FirstOf(S, LAMBDA i, j : i < j)
    BY <1>5 DEF air_herd_get_desc
  <2> HIDE DEF S
  <2>3. air_herd_get_desc(prog, a, asked) = 0
    BY <2>1, <2>2 DEF FirstOf
  <2> QED BY <1>7, <2>3
<1> QED BY <1>6, <1>7

\* A partition is found by its name.
LEMMA PartitionOf ==
  ASSUME prog \in Modules, NamesApart, NEW q \in Parts
  PROVE  air_partition_get_desc(prog, P(q).name) = q
<1> DEFINE S == {r \in 1..Len(prog.parts) : called(P(q).name, prog.parts[r].name)}
<1>1. S = {r \in Parts : IsPrefix(P(r).name, P(q).name)}
  BY DEF called, Parts, P
<1>2. IsPrefix(P(q).name, P(q).name)
  BY NamesOf DEF IsPrefix
<1>3. \A r \in Parts : r # q => ~IsPrefix(P(r).name, P(q).name)
  BY DEF NamesApart
<1>4. S = {q}
  BY <1>1, <1>2, <1>3
<1>5. air_partition_get_desc(prog, P(q).name) = FirstPartition(prog, S)
  BY DEF air_partition_get_desc
<1> HIDE DEF S
<1> QED BY <1>4, <1>5, FirstOfOne

\* Whatever partition is active, a herd that is loaded is the one of that
\* name, and its partition is configured unless it was active.
LEMMA LoadFinds ==
  ASSUME prog \in Modules, NamesApart, NEW q \in Parts, NEW k \in Numbers(q), NEW a \in Parts \cup {0}
  PROVE  LET r == air_herd_load(prog, a, Herd(q, k).name)
         IN  r.found = <<q, k>> /\ (r.reload \/ a = q)
<1> DEFINE name == Herd(q, k).name
           S == {p \in 1..Len(prog.parts) : air_herd_get_desc(prog, p, name) # 0}
           again == PartitionFor(prog, name)
<1>1. k # 0 /\ q # 0
  BY Sizes DEF Parts
<1>2. \A p \in Parts : air_herd_get_desc(prog, p, name) = IF p = q THEN k ELSE 0
  BY DescriptorOf
<1>3. S = {q}
  BY <1>1, <1>2 DEF Parts
<1>4. again = q
  <2>1. FirstPartition(prog, S) = q
    BY <1>3, FirstOfOne
  <2>2. air_partition_get_desc(prog, prog.parts[q].name) = q
    BY PartitionOf DEF P
  <2> HIDE DEF name
  <2> QED BY <1>1, <2>1, <2>2 DEF PartitionFor
<1>5. air_herd_get_desc(prog, q, name) = k
  BY <1>2
<1> HIDE DEF name, again
<1>6. CASE a = 0
  BY <1>1, <1>4, <1>5, <1>6 DEF air_herd_load, again, name
<1>7. CASE a = q
  BY <1>1, <1>4, <1>5, <1>7 DEF air_herd_load, again, name
<1>8. CASE a # 0 /\ a # q
  <2>1. a \in Parts /\ air_herd_get_desc(prog, a, name) = 0
    BY <1>2, <1>8
  <2> QED BY <1>1, <1>4, <1>5, <1>8, <2>1 DEF air_herd_load, again, name
<1> QED BY <1>6, <1>7, <1>8

\* The host and the array, from compilation on.  Nothing is active before.
HostInv ==
  /\ aie = None => ~Running /\ copying = None /\ active = [part |-> 0, herd |-> 0] /\ loaded = 0
  /\ regular =>
       /\ NamesApart
       /\ host = HostProgram(prog)
       /\ hostpc \in Nat \ {0}
       /\ loaded \in Parts \cup {0}
       /\ active = [part |-> loaded, herd |-> active.herd]
       /\ copying # None => hostpc <= Len(host) /\ host[hostpc].op = "copy"
       /\ 1 < hostpc /\ hostpc <= Len(host) + 1 /\ host[hostpc - 1].op \in {"herd_load", "copy"} =>
            active = [part |-> host[hostpc - 1].part, herd |-> host[hostpc - 1].herd]
RunInv == PlaceInv /\ HostInv

\* The operations of the host program.
LEMMA HostOpsAre ==
  ASSUME NEW o \in HostOps
  PROVE  /\ o.op = "partition_load" => \E q \in Parts : o.name = P(q).name
         /\ o.op = "herd_load" =>
              \E h \in Herds : o.part = h[1] /\ o.herd = h[2] /\ o.name = Herd(h[1], h[2]).name
<1>1. ASSUME NEW q \in Parts, o = load("partition_load", q, 0, P(q).name)
      PROVE  o.op = "partition_load" /\ o.name = P(q).name
  BY <1>1 DEF load
<1>2. ASSUME NEW h \in Herds, o = load("herd_load", h[1], h[2], Herd(h[1], h[2]).name)
      PROVE  o.op = "herd_load" /\ o.part = h[1] /\ o.herd = h[2] /\ o.name = Herd(h[1], h[2]).name
  BY <1>2 DEF load
<1>3. ASSUME NEW h \in Herds, o \in CopiesOf(h[1], h[2])
      PROVE  o.op = "copy"
  BY <1>3 DEF CopiesOf, copy
<1>4. \/ \E q \in Parts : o = load("partition_load", q, 0, P(q).name)
      \/ \E h \in Herds : o = load("herd_load", h[1], h[2], Herd(h[1], h[2]).name)
      \/ \E h \in Herds : o \in CopiesOf(h[1], h[2])
  BY DEF HostOps
<1> QED BY <1>1, <1>2, <1>3, <1>4

\* Whether names are apart is a matter of the program.
LEMMA NamesSame ==
  ASSUME prog' = prog
  PROVE  Parts' = Parts /\ Herds' = Herds /\ NamesApart' = NamesApart /\ HostProgram(prog)' = HostProgram(prog)
<1>1. Parts' = Parts /\ Herds' = Herds
  BY DEF Parts, Herds, Numbers, P
<1>2. NamesApart' = NamesApart
  BY <1>1 DEF NamesApart, Herd, P
<1> QED BY <1>1, <1>2

\* Steps that leave the host where it is.
LEMMA HostStays ==
  ASSUME HostInv, prog' = prog, UNCHANGED <<aie, regular, host, hostpc, copying, active, loaded>>
  PROVE  HostInv'
BY NamesSame DEF HostInv, Running, None

\* air-place-herds goes on as by itself.
LEMMA PlaceInvKept ==
  ASSUME PlaceInv, [Next]_vars
  PROVE  PlaceInv' /\ prog' = prog
<1>1. ASSUME PlaceStep PROVE PlaceInv' /\ prog' = prog
  <2>1. CASE Visit
    BY <2>1, VisitKeeps DEF Visit
  <2>2. CASE Finish
    BY <2>2, FinishKeeps DEF Finish
  <2> QED BY <1>1, <2>1, <2>2 DEF PlaceStep, PlaceNext
<1>2. ASSUME UNCHANGED placeVars PROVE PlaceInv' /\ prog' = prog
  BY <1>2, PlaceStays DEF placeVars
<1>3. ASSUME Compile \/ HostSteps \/ BdAcquire \/ Transfer \/ CoreSteps \/ UNCHANGED vars
      PROVE  UNCHANGED placeVars
  BY <1>3 DEF Compile, HostSteps, PartitionLoad, HerdLoad, IssueCopy, BdAcquire, Transfer, CoreSteps, CoreStep,
     vars, placeVars
<1> QED BY <1>1, <1>2, <1>3 DEF Next

\* A program that is compiled starts with nothing active.
LEMMA CompileKeeps ==
  ASSUME HostInv, prog' = prog, Compile
  PROVE  HostInv'
<1>1. aie = None /\ copying = None /\ active = [part |-> 0, herd |-> 0] /\ loaded = 0
  BY DEF HostInv, Compile
<1>2. /\ copying' = None /\ active' = [part |-> 0, herd |-> 0] /\ loaded' = 0
      /\ host' = HostProgram(prog) /\ hostpc' = 1 /\ (regular' => NamesApart)
  BY <1>1 DEF Compile, Regular
<1> QED BY <1>2, NamesSame DEF HostInv, Running

\* A partition that is loaded is the active one.
LEMMA PartitionLoadKeeps ==
  ASSUME prog \in Modules, HostInv, prog' = prog, PartitionLoad
  PROVE  HostInv'
<1>1. /\ aie # None /\ aie' = aie /\ regular' = regular /\ host' = host /\ copying = None /\ copying' = None
      /\ hostpc <= Len(host) /\ host[hostpc].op = "partition_load" /\ hostpc' = hostpc + 1
      /\ loaded' = air_partition_get_desc(prog, host[hostpc].name)
      /\ active' = [active EXCEPT !.part = air_partition_get_desc(prog, host[hostpc].name)]
  BY DEF PartitionLoad, HostAt, Running, Configure
<1>2. CASE ~regular
  BY <1>1, <1>2 DEF HostInv
<1>3. CASE regular
  <2>1. /\ NamesApart /\ host = HostProgram(prog) /\ hostpc \in Nat \ {0}
        /\ active = [part |-> loaded, herd |-> active.herd]
    BY <1>3 DEF HostInv
  <2>2. host \in Led /\ Len(host) \in Nat /\ host[hostpc] \in HostOps
    <3>1. host \in Led /\ host \in Seq(HostOps)
      BY <2>1, HostLed DEF Led
    <3> QED BY <1>1, <2>1, <3>1, LenProperties, ElementOfSeq
  <2>3. loaded' \in Parts
    <3>1. PICK q \in Parts : host[hostpc].name = P(q).name
      BY <1>1, <2>2, HostOpsAre
    <3> QED BY <1>1, <2>1, <3>1, PartitionOf
  <2>4. active' = [part |-> loaded', herd |-> active'.herd]
    BY <1>1, <2>1
  <2>5. hostpc' \in Nat \ {0} /\ hostpc' - 1 = hostpc
    BY <1>1, <2>1
  <2> QED BY <1>1, <1>3, <2>1, <2>3, <2>4, <2>5, NamesSame DEF HostInv
<1> QED BY <1>2, <1>3

\* A herd that is loaded is the active one, and so is its partition.
LEMMA HerdLoadKeeps ==
  ASSUME prog \in Modules, HostInv, prog' = prog, HerdLoad
  PROVE  HostInv'
<1> DEFINE r == air_herd_load(prog, active.part, host[hostpc].name)
<1>1. /\ aie # None /\ aie' = aie /\ regular' = regular /\ host' = host /\ copying = None /\ copying' = None
      /\ hostpc <= Len(host) /\ host[hostpc].op = "herd_load" /\ hostpc' = hostpc + 1
      /\ active' = [part |-> r.found[1], herd |-> r.found[2]]
      /\ loaded' = IF r.reload THEN r.found[1] ELSE loaded
  BY DEF HerdLoad, HostAt, Running, Configure
<1> HIDE DEF r
<1>2. CASE ~regular
  BY <1>1, <1>2 DEF HostInv
<1>3. CASE regular
  <2>1. /\ NamesApart /\ host = HostProgram(prog) /\ hostpc \in Nat \ {0}
        /\ active = [part |-> loaded, herd |-> active.herd] /\ loaded \in Parts \cup {0}
    BY <1>3 DEF HostInv
  <2>2. host \in Led /\ Len(host) \in Nat /\ host[hostpc] \in HostOps
    <3>1. host \in Led /\ host \in Seq(HostOps)
      BY <2>1, HostLed DEF Led
    <3> QED BY <1>1, <2>1, <3>1, LenProperties, ElementOfSeq
  <2>3. PICK h \in Herds : /\ host[hostpc].part = h[1] /\ host[hostpc].herd = h[2]
                           /\ host[hostpc].name = Herd(h[1], h[2]).name
    BY <1>1, <2>2, HostOpsAre
  <2>4. h[1] \in Parts /\ h[2] \in Numbers(h[1]) /\ h = <<h[1], h[2]>>
    BY DEF Herds
  <2>5. active.part = loaded
    BY <2>1
  <2>6. r.found = h /\ (r.reload \/ loaded = h[1])
    <3> DEFINE s == air_herd_load(prog, loaded, Herd(h[1], h[2]).name)
    <3>1. s.found = <<h[1], h[2]>> /\ (s.reload \/ loaded = h[1])
      BY <2>1, <2>4, LoadFinds
    <3>2. r = s
      BY <2>3, <2>5 DEF r
    <3> HIDE DEF s
    <3> QED BY <2>4, <3>1, <3>2
  <2>7. loaded' = h[1] /\ active' = [part |-> h[1], herd |-> h[2]]
    BY <1>1, <2>6
  <2>8. hostpc' \in Nat \ {0} /\ hostpc' - 1 = hostpc
    BY <1>1, <2>1
  <2>9. active' = [part |-> host'[hostpc' - 1].part, herd |-> host'[hostpc' - 1].herd]
    BY <1>1, <2>3, <2>7, <2>8
  <2>10. active' = [part |-> loaded', herd |-> active'.herd]
    BY <2>7
  <2> QED BY <1>1, <1>3, <2>1, <2>4, <2>7, <2>8, <2>9, <2>10, NamesSame DEF HostInv
<1> QED BY <1>2, <1>3

\* A copy is waited for where the host program has one.
LEMMA IssueCopyKeeps ==
  ASSUME HostInv, prog' = prog, IssueCopy
  PROVE  HostInv'
<1>1. /\ aie # None /\ aie' = aie /\ hostpc <= Len(host) /\ host[hostpc].op = "copy"
      /\ UNCHANGED <<regular, host, hostpc, active, loaded>>
  BY DEF IssueCopy, HostAt, Running
<1> QED BY <1>1, NamesSame DEF HostInv

\* After a copy the host goes on, with the same herd active.
LEMMA TransferKeeps ==
  ASSUME prog \in Modules, HostInv, prog' = prog, Transfer
  PROVE  HostInv'
<1>1. /\ aie # None /\ aie' = aie /\ copying # None /\ copying' = None /\ hostpc' = hostpc + 1
      /\ UNCHANGED <<regular, host, active, loaded>>
  BY DEF Transfer, Running
<1>2. CASE ~regular
  BY <1>1, <1>2 DEF HostInv
<1>3. CASE regular
  <2>1. /\ NamesApart /\ host = HostProgram(prog) /\ hostpc \in Nat \ {0}
        /\ active = [part |-> loaded, herd |-> active.herd]
        /\ hostpc <= Len(host) /\ host[hostpc].op = "copy"
        /\ 1 < hostpc /\ hostpc <= Len(host) + 1 /\ host[hostpc - 1].op \in {"herd_load", "copy"} =>
             active = [part |-> host[hostpc - 1].part, herd |-> host[hostpc - 1].herd]
    BY <1>1, <1>3 DEF HostInv
  <2>2. host \in Led /\ Len(host) \in Nat
    <3>1. host \in Led /\ host \in Seq(HostOps)
      BY <2>1, HostLed DEF Led
    <3> QED BY <3>1, LenProperties
  <2>3. hostpc > 1 /\ Follows(host[hostpc - 1], host[hostpc])
    BY <2>1, <2>2 DEF Led
  <2>4. active = [part |-> host[hostpc].part, herd |-> host[hostpc].herd]
    BY <2>1, <2>2, <2>3 DEF Follows
  <2>5. hostpc' \in Nat \ {0} /\ hostpc' - 1 = hostpc
    BY <1>1, <2>1
  <2> QED BY <1>1, <1>3, <2>1, <2>4, <2>5, NamesSame DEF HostInv
<1> QED BY <1>2, <1>3

\* HostInv is inductive.
LEMMA HostInvKept ==
  ASSUME prog \in Modules, HostInv, prog' = prog, [Next]_vars
  PROVE  HostInv'
<1>1. CASE PlaceStep
  BY <1>1, HostStays DEF PlaceStep, runVars
<1>2. CASE Compile
  BY <1>2, CompileKeeps
<1>3. CASE PartitionLoad
  BY <1>3, PartitionLoadKeeps
<1>4. CASE HerdLoad
  BY <1>4, HerdLoadKeeps
<1>5. CASE IssueCopy
  BY <1>5, IssueCopyKeeps
<1>6. CASE BdAcquire
  BY <1>6, HostStays DEF BdAcquire
<1>7. CASE Transfer
  BY <1>7, TransferKeeps
<1>8. CASE CoreSteps
  BY <1>8, HostStays DEF CoreSteps, CoreStep
<1>9. CASE UNCHANGED vars
  BY <1>9, HostStays DEF vars
<1> QED BY <1>1, <1>2, <1>3, <1>4, <1>5, <1>6, <1>7, <1>8, <1>9 DEF Next, HostSteps

\* RunInv is an invariant of a run.
LEMMA RunInvariant == Spec => []RunInv
<1>1. Init => RunInv
  BY InitInv DEF Init, RunInv, HostInv, Running, None
<1>2. RunInv /\ [Next]_vars => RunInv'
  <2> SUFFICES ASSUME RunInv, [Next]_vars PROVE RunInv'
    OBVIOUS
  <2>1. PlaceInv' /\ prog' = prog /\ prog \in Modules
    BY PlaceInvKept DEF RunInv, PlaceInv
  <2> QED BY <2>1, HostInvKept DEF RunInv
<1> QED BY <1>1, <1>2, PTL DEF Spec

\* A run of a program begins as its placement by itself.
LEMMA Places == Spec => PlaceSpec
<1>1. Init => PlaceInit
  BY DEF Init
<1>2. [Next]_vars => [PlaceNext]_placeVars
  BY DEF Next, PlaceStep, Compile, HostSteps, PartitionLoad, HerdLoad, IssueCopy, BdAcquire, Transfer,
     CoreSteps, CoreStep, vars, placeVars
<1> QED BY <1>1, <1>2, PTL DEF Spec, PlaceSpec

\* Whatever partitions and herds a program has and however their names are
\* chosen, as long as no name begins with another: when the host copies for a
\* herd, air_herd_load has made it the active one, and the array is
\* configured for its partition.
THEOREM HerdsLoaded == Spec => []HerdLoaded
<1>1. RunInv => HerdLoaded
  <2> SUFFICES ASSUME RunInv, regular, copying # None
               PROVE  /\ active = [part |-> host[hostpc].part, herd |-> host[hostpc].herd]
                      /\ loaded = host[hostpc].part
    BY DEF HerdLoaded
  <2>1. /\ NamesApart /\ host = HostProgram(prog) /\ hostpc \in Nat \ {0}
        /\ active = [part |-> loaded, herd |-> active.herd]
        /\ hostpc <= Len(host) /\ host[hostpc].op = "copy"
        /\ 1 < hostpc /\ hostpc <= Len(host) + 1 /\ host[hostpc - 1].op \in {"herd_load", "copy"} =>
             active = [part |-> host[hostpc - 1].part, herd |-> host[hostpc - 1].herd]
    BY DEF RunInv, HostInv
  <2>2. host \in Led /\ Len(host) \in Nat
    <3>1. host \in Led /\ host \in Seq(HostOps)
      BY <2>1, HostLed DEF Led, RunInv, PlaceInv
    <3> QED BY <3>1, LenProperties
  <2>3. hostpc > 1 /\ Follows(host[hostpc - 1], host[hostpc])
    BY <2>1, <2>2 DEF Led
  <2>4. active = [part |-> host[hostpc].part, herd |-> host[hostpc].herd]
    BY <2>1, <2>2, <2>3 DEF Follows
  <2> QED BY <2>1, <2>4
<1> QED BY <1>1, RunInvariant, PTL

-----------------------------------------------------------------------------
(* What a block contains.                                                  *)

Ops == Steps \cup Around(Blocks)

\* What an operation stands for in a walk: itself and what is in its blocks.
Reach(o) == {o} \cup UNION {ToSet(Walk(Regions(o)[r])) : r \in 1..Len(Regions(o))}

\* The elements of a sequence.
LEMMA Elements ==
  ASSUME NEW S, NEW s \in Seq(S)
  PROVE  ToSet(s) = {s[i] : i \in 1..Len(s)} /\ ToSet(s) \subseteq S
BY DEF ToSet

\* An operation on smaller blocks is one.
LEMMA OperationIn ==
  ASSUME NEW B, B \subseteq Blocks, NEW o, isOperation(o, B)
  PROVE  o \in Ops
<1> HIDE DEF Blocks, Nest
<1>1. CASE isStep(o)
  BY <1>1 DEF isStep, Ops
<1>2. CASE isFor(o, B)
  <2>1. o \in [op : {"for"}, trip : Nat, body : Blocks]
    BY <1>2 DEF isFor
  <2> QED BY <2>1 DEF Ops, Around
<1>3. CASE isExecute(o, B)
  <2>1. o \in [op : {"execute"}, body : Blocks]
    BY <1>3 DEF isExecute
  <2> QED BY <2>1 DEF Ops, Around
<1>4. CASE isIf(o, B)
  <2>1. o \in [op : {"if"}, set : SUBSET TileIdPairs, constraints : Nat, then : Blocks, else : Blocks]
    BY <1>4 DEF isIf
  <2> QED BY <2>1 DEF Ops, Around
<1> QED BY <1>1, <1>2, <1>3, <1>4 DEF isOperation

\* A walk over an operation.
LEMMA WalkOperation ==
  ASSUME NEW S, NEW B, \A c \in B : Walk(c) \in Seq(S), NEW o \in S, isOperation(o, B)
  PROVE  walkRule(o) \in Seq(S) /\ ToSet(walkRule(o)) = Reach(o)
<1> DEFINE R == Regions(o)
           ss == [r \in 1..Len(R) |-> Walk(R[r])]
<1>1. R \in Seq(B)
  BY RegionsOf
<1> HIDE DEF R
<1>2. ss \in Seq(Seq(S)) /\ Len(ss) = Len(R) /\ \A r \in 1..Len(R) : ss[r] = Walk(R[r])
  <2>1. Len(R) \in Nat /\ \A r \in 1..Len(R) : Walk(R[r]) \in Seq(S)
    BY <1>1, LenProperties, ElementOfSeq
  <2> QED BY <2>1
<1> HIDE DEF ss
<1>3. FlattenSeq(ss) \in Seq(S) /\ ToSet(FlattenSeq(ss)) = UNION {ToSet(ss[r]) : r \in 1..Len(ss)}
  BY <1>2, FlattenElements
<1>4. <<o>> \in Seq(S) /\ ToSet(<<o>>) = {o}
  BY DEF ToSet
<1>5. <<o>> \o FlattenSeq(ss) \in Seq(S) /\ ToSet(<<o>> \o FlattenSeq(ss)) = {o} \cup ToSet(FlattenSeq(ss))
  <2> DEFINE s == <<o>>
             t == FlattenSeq(ss)
  <2>1. s \in Seq(S) /\ t \in Seq(S) /\ ToSet(s) = {o}
    BY <1>3, <1>4
  <2> HIDE DEF s, t
  <2>2. s \o t \in Seq(S) /\ ToSet(s \o t) = ToSet(s) \cup ToSet(t)
    BY <2>1, ConcatSet
  <2>3. s \o t \in Seq(S) /\ ToSet(s \o t) = {o} \cup ToSet(t)
    BY <2>1, <2>2
  <2> QED BY <2>3 DEF s, t
<1>6. UNION {ToSet(ss[r]) : r \in 1..Len(ss)} = UNION {ToSet(Walk(R[r])) : r \in 1..Len(R)}
  BY <1>2
<1>7. walkRule(o) = <<o>> \o FlattenSeq(ss)
  BY DEF walkRule, ss, R
<1>8. Reach(o) = {o} \cup UNION {ToSet(Walk(R[r])) : r \in 1..Len(R)}
  BY DEF Reach, R
<1> QED BY ONLY <1>3, <1>5, <1>6, <1>7, <1>8

\* What a block contains is what its operations contain.
LEMMA WalkElements ==
  ASSUME NEW b \in Blocks
  PROVE  Walk(b) \in Seq(Ops) /\ ToSet(Walk(b)) = UNION {Reach(b[i]) : i \in 1..Len(b)}
<1> HIDE DEF Blocks, Nest, Ops
<1> DEFINE good(c) == Walk(c) \in Seq(Ops) /\ ToSet(Walk(c)) = UNION {Reach(c[i]) : i \in 1..Len(c)}
           U == {c \in Blocks : good(c)}
<1>1. ASSUME NEW B \in SUBSET U, NEW c \in Blocks, \A i \in 1..Len(c) : isOperation(c[i], B)
      PROVE  good(c)
  <2> DEFINE ss == [i \in 1..Len(c) |-> walkRule(c[i])]
  <2>1. Len(c) \in Nat
    BY BlockLength
  <2>2. ASSUME NEW i \in 1..Len(c) PROVE walkRule(c[i]) \in Seq(Ops) /\ ToSet(walkRule(c[i])) = Reach(c[i])
    <3> DEFINE o == c[i]
    <3>1. isOperation(o, B)
      BY <1>1
    <3>2. B \subseteq Blocks /\ \A e \in B : Walk(e) \in Seq(Ops)
      OBVIOUS
    <3> HIDE DEF o
    <3>3. o \in Ops
      BY <3>1, <3>2, OperationIn
    <3>4. walkRule(o) \in Seq(Ops) /\ ToSet(walkRule(o)) = Reach(o)
      BY <3>1, <3>2, <3>3, WalkOperation
    <3> QED BY <3>4 DEF o
  <2>3. ss \in Seq(Seq(Ops)) /\ Len(ss) = Len(c) /\ \A i \in 1..Len(c) : ss[i] = walkRule(c[i])
    BY <2>1, <2>2
  <2>4. Walk(c) = FlattenSeq(ss)
    BY WalkIs
  <2> HIDE DEF ss
  <2>5. FlattenSeq(ss) \in Seq(Ops) /\ ToSet(FlattenSeq(ss)) = UNION {ToSet(ss[i]) : i \in 1..Len(ss)}
    BY <2>3, FlattenElements
  <2>6. UNION {ToSet(ss[i]) : i \in 1..Len(ss)} = UNION {Reach(c[i]) : i \in 1..Len(c)}
    BY <2>2, <2>3
  <2> QED BY ONLY <2>4, <2>5, <2>6
<1>2. Blocks \subseteq U
  <2> HIDE DEF good
  <2>1. ASSUME NEW B \in SUBSET U, NEW c \in Blocks, \A i \in 1..Len(c) : isOperation(c[i], B)
        PROVE  c \in U
    BY <1>1, <2>1
  <2> HIDE DEF U
  <2> QED BY <2>1, BlockInduction
<1> QED BY <1>2

\* A block contains its operations, and what the blocks of these contain.
LEMMA WalkHas ==
  ASSUME NEW b \in Blocks, NEW i \in 1..Len(b)
  PROVE  /\ b[i] \in ToSet(Walk(b))
         /\ \A r \in 1..Len(Regions(b[i])) : ToSet(Walk(Regions(b[i])[r])) \subseteq ToSet(Walk(b))
<1> HIDE DEF Blocks, Nest
<1>1. Reach(b[i]) \subseteq ToSet(Walk(b))
  BY WalkElements
<1> QED BY <1>1 DEF Reach

\* The elements of a sequence that are in G, each with what v makes of it.
isPassed(ss, s, G, v) ==
  Len(ss) = Len(s) /\ \A i \in 1..Len(s) : ss[i] = IF s[i] \in G THEN <<v[s[i]]>> ELSE <<>>
PassedSet(s, G, v) == {v[x] : x \in ToSet(s) \cap G}

\* What is passed on is the image of the operations that are chosen.
LEMMA Passed ==
  ASSUME NEW S, NEW s \in Seq(S), NEW T, NEW G, NEW v, NEW ss \in Seq(Seq(T)), isPassed(ss, s, G, v)
  PROVE  FlattenSeq(ss) \in Seq(T) /\ ToSet(FlattenSeq(ss)) = PassedSet(s, G, v)
<1>0. Len(ss) = Len(s) /\ \A i \in 1..Len(s) : ss[i] = IF s[i] \in G THEN <<v[s[i]]>> ELSE <<>>
  BY DEF isPassed
<1>1. ToSet(<<>>) = {} /\ \A x : ToSet(<<x>>) = {x}
  BY DEF ToSet
<1>2. ToSet(s) = {s[i] : i \in 1..Len(s)}
  BY Elements
<1>3. FlattenSeq(ss) \in Seq(T) /\ ToSet(FlattenSeq(ss)) = UNION {ToSet(ss[i]) : i \in 1..Len(ss)}
  BY FlattenElements
<1> HIDE DEF ToSet
<1>4. ASSUME NEW i \in 1..Len(s) PROVE ToSet(ss[i]) = IF s[i] \in G THEN {v[s[i]]} ELSE {}
  <2>1. ss[i] = IF s[i] \in G THEN <<v[s[i]]>> ELSE <<>>
    BY <1>0
  <2>2. CASE s[i] \in G
    BY <1>1, <2>1, <2>2
  <2>3. CASE s[i] \notin G
    BY <1>1, <2>1, <2>3
  <2> QED BY <2>2, <2>3
<1>5. UNION {ToSet(ss[i]) : i \in 1..Len(ss)} \subseteq PassedSet(s, G, v)
  <2> SUFFICES ASSUME NEW i \in 1..Len(s), NEW x \in ToSet(ss[i]) PROVE x \in PassedSet(s, G, v)
    BY <1>0
  <2>1. s[i] \in G /\ x = v[s[i]]
    BY <1>4
  <2>2. s[i] \in ToSet(s) \cap G
    BY <1>2, <2>1
  <2> QED BY <2>1, <2>2 DEF PassedSet
<1>6. PassedSet(s, G, v) \subseteq UNION {ToSet(ss[i]) : i \in 1..Len(ss)}
  <2> SUFFICES ASSUME NEW y \in ToSet(s) \cap G
               PROVE  v[y] \in UNION {ToSet(ss[i]) : i \in 1..Len(ss)}
    BY DEF PassedSet
  <2>1. PICK i \in 1..Len(s) : y = s[i]
    BY <1>2
  <2>2. ToSet(ss[i]) = {v[y]} /\ i \in 1..Len(ss)
    BY <1>0, <1>4, <2>1
  <2> QED BY <2>2
<1> QED BY <1>3, <1>5, <1>6

Dmas == [op : {"dma"}, id : Nat, dir : {"in", "out"}, buf : Buffers]

\* The copies of a block, as a sequence and as a set.
LEMMA DmasIn ==
  ASSUME NEW b \in Blocks
  PROVE  /\ getAIRDmaMemcpyInBlock(b) \in Seq(Dmas)
         /\ ToSet(getAIRDmaMemcpyInBlock(b)) = OpsIn(b, "dma")
         /\ OpsIn(b, "dma") \subseteq Dmas
<1> HIDE DEF Blocks, Nest
<1> DEFINE w == Walk(b)
           v == [x \in Dmas |-> x]
           ss == [i \in 1..Len(w) |-> IF w[i].op = "dma" THEN <<w[i]>> ELSE <<>>]
<1>1. w \in Seq(Ops) /\ Len(w) \in Nat
  BY WalkElements, LenProperties
<1>2. \A o \in Ops : o.op = "dma" <=> o \in Dmas
  BY DEF Ops, Steps, Around, Dmas
<1>3. getAIRDmaMemcpyInBlock(b) = FlattenSeq(ss)
  BY DEF getAIRDmaMemcpyInBlock, Where, Concat, Self
<1>4. OpsIn(b, "dma") = {o \in ToSet(w) : o.op = "dma"}
  BY DEF OpsIn, w
<1> HIDE DEF w, Ops
<1>5. \A i \in 1..Len(w) : w[i] \in Ops
  BY <1>1, ElementOfSeq
<1>6. \A i \in 1..Len(w) : ss[i] = IF w[i].op = "dma" THEN <<w[i]>> ELSE <<>>
  OBVIOUS
<1>7. ss \in Seq(Seq(Dmas)) /\ Len(ss) = Len(w)
  <2>1. \A i \in 1..Len(w) : ss[i] \in Seq(Dmas)
    BY <1>2, <1>5
  <2> QED BY <1>1, <2>1
<1>8. \A x \in Dmas : v[x] = x
  OBVIOUS
<1> HIDE DEF ss, v
<1>9. isPassed(ss, w, Dmas, v)
  BY <1>2, <1>5, <1>6, <1>7, <1>8 DEF isPassed
<1>10. FlattenSeq(ss) \in Seq(Dmas) /\ ToSet(FlattenSeq(ss)) = PassedSet(w, Dmas, v)
  BY <1>1, <1>7, <1>9, Passed
<1>11. ToSet(w) \subseteq Ops
  BY <1>1, Elements
<1>12. PassedSet(w, Dmas, v) = OpsIn(b, "dma") /\ OpsIn(b, "dma") \subseteq Dmas
  BY <1>2, <1>4, <1>8, <1>11 DEF PassedSet
<1> QED BY <1>3, <1>10, <1>12

\* The blocks of a depth.
LEMMA NestIs ==
  ASSUME NEW n \in 0..MaxDepth
  PROVE  Nest[n] = Seq(Steps \cup Around(Inner(n)))
<1> HIDE DEF Nest
<1>1. CASE n = 0
  <2>1. Around({}) = {}
    BY DEF Around
  <2>2. Inner(n) = {} /\ Nest[n] = Seq(Steps)
    BY <1>1, NestDef DEF Inner
  <2>3. Steps \cup Around(Inner(n)) = Steps
    BY ONLY <2>1, <2>2
  <2> QED BY <2>2, <2>3
<1>2. CASE n # 0
  <2>1. n \in 1..MaxDepth
    BY <1>2
  <2> QED BY <1>2, <2>1, NestDef DEF Inner
<1> QED BY <1>1, <1>2

\* What is left of an operation on inner blocks.
LEMMA SourceOperation ==
  ASSUME NEW n \in 0..MaxDepth, NEW xy, NEW B,
         \A c \in B : c \in Inner(n) => Source(c, xy) \in Inner(n),
         NEW o, isOperation(o, B), isOperation(o, Inner(n))
  PROVE  sourceRule(xy, o) \in Nest[n]
<1> HIDE DEF Nest
<1> DEFINE I == Inner(n)
<1>1. Nest[n] = Seq(Steps \cup Around(I)) /\ I \subseteq Nest[n]
  BY NestIs, InnerBlocks
<1>2. (\A c \in B : c \in I => Source(c, xy) \in I) /\ isOperation(o, I)
  OBVIOUS
<1> HIDE DEF I
<1>3. CASE isStep(o)
  <2>1. o \in Steps /\ sourceRule(xy, o) = <<o>>
    BY <1>3 DEF isStep, sourceRule
  <2>2. <<o>> \in Seq(Steps \cup Around(I))
    BY <2>1
  <2> QED BY <1>1, <2>1, <2>2
<1>4. CASE isFor(o, B)
  <2>1. isFor(o, I)
    BY <1>2, <1>4 DEF isOperation, isStep, isFor, isExecute, isIf
  <2>2. Source(o.body, xy) \in I
    BY <1>2, <1>4, <2>1 DEF isFor
  <2> DEFINE f == [o EXCEPT !.body = Source(o.body, xy)]
  <2>3. f \in [op : {"for"}, trip : Nat, body : I]
    BY <2>1, <2>2 DEF isFor
  <2>4. f \in Around(I)
    BY <2>3 DEF Around
  <2>5. sourceRule(xy, o) = <<f>>
    BY <1>4 DEF isFor, sourceRule
  <2> HIDE DEF f
  <2>6. <<f>> \in Seq(Steps \cup Around(I))
    BY <2>4
  <2> QED BY <1>1, <2>5, <2>6
<1>5. CASE isExecute(o, B)
  <2>1. isExecute(o, I)
    BY <1>2, <1>5 DEF isOperation, isStep, isFor, isExecute, isIf
  <2>2. Source(o.body, xy) \in I
    BY <1>2, <1>5, <2>1 DEF isExecute
  <2> QED BY <1>1, <1>5, <2>2 DEF isExecute, sourceRule
<1>6. CASE isIf(o, B)
  <2>1. isIf(o, I)
    BY <1>2, <1>6 DEF isOperation, isStep, isFor, isExecute, isIf
  <2>2. Source(o.then, xy) \in I /\ Source(o.else, xy) \in I
    BY <1>2, <1>6, <2>1 DEF isIf
  <2> QED BY <1>1, <1>6, <2>2 DEF isIf, sourceRule
<1> QED BY <1>3, <1>4, <1>5, <1>6 DEF isOperation

\* What a tile is to do is no deeper than the body of its herd.
LEMMA SourceDepth ==
  ASSUME NEW n \in 0..MaxDepth, NEW b \in Nest[n], NEW xy
  PROVE  Source(b, xy) \in Nest[n]
<1> HIDE DEF Nest, Blocks
<1> DEFINE U == {c \in Blocks : \A m \in 0..MaxDepth : c \in Nest[m] => Source(c, xy) \in Nest[m]}
<1>1. ASSUME NEW B \in SUBSET U, NEW c \in Blocks, \A i \in 1..Len(c) : isOperation(c[i], B),
             NEW m \in 0..MaxDepth, c \in Nest[m]
      PROVE  Source(c, xy) \in Nest[m]
  <2>1. \A e \in B : e \in Inner(m) => Source(e, xy) \in Inner(m)
    <3>1. CASE m = 0
      BY <3>1 DEF Inner
    <3>2. CASE m # 0
      <4>1. m - 1 \in 0..MaxDepth
        BY <3>2, DepthAssumption
      <4>2. Inner(m) = Nest[m - 1]
        BY <3>2 DEF Inner
      <4> QED BY <4>1, <4>2
    <3> QED BY <3>1, <3>2
  <2> DEFINE C == Nest[m]
             ss == [i \in 1..Len(c) |-> sourceRule(xy, c[i])]
  <2>2. ASSUME NEW i \in 1..Len(c) PROVE sourceRule(xy, c[i]) \in C
    <3> DEFINE o == c[i]
    <3>1. isOperation(o, B) /\ isOperation(o, Inner(m))
      BY <1>1, Operations
    <3> HIDE DEF o
    <3>2. sourceRule(xy, o) \in Nest[m]
      BY <2>1, <3>1, SourceOperation
    <3> QED BY <3>2 DEF o
  <2>3. Len(c) \in Nat
    BY BlockLength
  <2>4. <<>> \in C /\ \A s, t \in C : s \o t \in C
    BY NestIs, SeqCloses
  <2> HIDE DEF C
  <2>5. ss \in Seq(C)
    BY <2>2, <2>3
  <2> HIDE DEF ss
  <2>6. FlattenSeq(ss) \in C
    BY <2>4, <2>5, FlattenCloses
  <2> QED BY <2>6, SourceIs DEF ss, C
<1>2. ASSUME NEW B \in SUBSET U, NEW c \in Blocks, \A i \in 1..Len(c) : isOperation(c[i], B)
      PROVE  c \in U
  BY <1>1, <1>2
<1>3. Blocks \subseteq U
  <2> HIDE DEF U
  <2> QED BY <1>2, BlockInduction
<1> QED BY <1>3, InnerBlocks

\* What a tile is to do is a block.
LEMMA SourceBlock ==
  ASSUME NEW b \in Blocks, NEW xy
  PROVE  Source(b, xy) \in Blocks
BY SourceDepth, AllBlocks

\* The operations of what a tile is to do, by the operations of the body.
LEMMA SourceElements ==
  ASSUME NEW b \in Blocks, NEW xy
  PROVE  /\ \A i \in 1..Len(b) : sourceRule(xy, b[i]) \in Blocks
         /\ ToSet(Source(b, xy)) = UNION {ToSet(sourceRule(xy, b[i])) : i \in 1..Len(b)}
<1> DEFINE n == MaxDepth
           S == Steps \cup Around(Inner(n))
           ss == [i \in 1..Len(b) |-> sourceRule(xy, b[i])]
<1>1. n \in 0..MaxDepth /\ Nest[n] = Blocks /\ Blocks = Seq(S)
  BY AllBlocks, NestIs
<1> HIDE DEF Nest, Blocks, n, S
<1>2. Len(b) \in Nat
  BY BlockLength
<1>3. \A c \in Inner(n) : Source(c, xy) \in Inner(n)
  <2>1. CASE n = 0
    BY <2>1 DEF Inner
  <2>2. CASE n # 0
    <3>1. n - 1 \in 0..MaxDepth
      BY <2>2, DepthAssumption DEF n
    <3>2. Inner(n) = Nest[n - 1]
      BY <2>2 DEF Inner
    <3> QED BY <3>1, <3>2, SourceDepth
  <2> QED BY <2>1, <2>2
<1>4. ASSUME NEW i \in 1..Len(b) PROVE sourceRule(xy, b[i]) \in Blocks
  <2> DEFINE o == b[i]
             B == Inner(n)
  <2>1. isOperation(o, B)
    BY <1>1, Operations
  <2>2. \A c \in B : c \in B => Source(c, xy) \in B
    BY <1>3
  <2> HIDE DEF o
  <2>3. sourceRule(xy, o) \in Nest[n]
    BY <1>1, <2>1, <2>2, SourceOperation
  <2> QED BY <1>1, <2>3 DEF o
<1>5. ss \in Seq(Seq(S)) /\ Len(ss) = Len(b) /\ \A i \in 1..Len(b) : ss[i] = sourceRule(xy, b[i])
  BY <1>1, <1>2, <1>4
<1>6. Source(b, xy) = FlattenSeq(ss)
  BY SourceIs
<1> HIDE DEF ss
<1>7. ToSet(FlattenSeq(ss)) = UNION {ToSet(ss[i]) : i \in 1..Len(ss)}
  BY <1>5, FlattenElements
<1>8. UNION {ToSet(ss[i]) : i \in 1..Len(ss)} = UNION {ToSet(sourceRule(xy, b[i])) : i \in 1..Len(b)}
  BY <1>5
<1> QED BY <1>4, <1>6, <1>7, <1>8

\* The copies that an operation stands for.
DmaReach(o) == {x \in Reach(o) : x.op = "dma"}

\* The copies of a block are those of its operations.
LEMMA DmaElements ==
  ASSUME NEW b \in Blocks
  PROVE  OpsIn(b, "dma") = UNION {DmaReach(x) : x \in ToSet(b)}
<1> HIDE DEF Blocks, Nest, Ops
<1>1. ToSet(Walk(b)) = UNION {Reach(b[i]) : i \in 1..Len(b)}
  BY WalkElements
<1>2. ToSet(b) = {b[i] : i \in 1..Len(b)}
  <2>1. b \in Seq(Steps \cup Around(Inner(MaxDepth)))
    BY AllBlocks, NestIs
  <2> QED BY <2>1, Elements
<1> HIDE DEF Reach, ToSet
<1>3. OpsIn(b, "dma") \subseteq UNION {DmaReach(x) : x \in ToSet(b)}
  <2> SUFFICES ASSUME NEW x \in ToSet(Walk(b)), x.op = "dma"
               PROVE  \E y \in ToSet(b) : x \in DmaReach(y)
    BY DEF OpsIn
  <2>1. PICK i \in 1..Len(b) : x \in Reach(b[i])
    BY <1>1
  <2> QED BY <1>2, <2>1 DEF DmaReach
<1>4. UNION {DmaReach(x) : x \in ToSet(b)} \subseteq OpsIn(b, "dma")
  <2> SUFFICES ASSUME NEW y \in ToSet(b), NEW x \in DmaReach(y) PROVE x \in OpsIn(b, "dma")
    OBVIOUS
  <2>1. PICK i \in 1..Len(b) : y = b[i]
    BY <1>2
  <2>2. x \in ToSet(Walk(b)) /\ x.op = "dma"
    BY <1>1, <2>1 DEF DmaReach
  <2> QED BY <2>2 DEF OpsIn
<1> QED BY <1>3, <1>4

\* The copies of a loop and of the branches are those of its blocks.
LEMMA DmaOfOperation ==
  ASSUME NEW o
  PROVE  /\ o.op \notin {"for", "execute", "if"} => DmaReach(o) \subseteq {o}
         /\ o.op \in {"for", "execute"} => DmaReach(o) = OpsIn(o.body, "dma")
         /\ o.op = "if" => DmaReach(o) = OpsIn(o.then, "dma") \cup OpsIn(o.else, "dma")
<1>1. CASE o.op \notin {"for", "execute", "if"}
  BY <1>1 DEF DmaReach, Reach, Regions
<1>2. CASE o.op \in {"for", "execute"}
  <2>1. Regions(o) = <<o.body>> /\ o.op # "dma" /\ o.op # "if"
    BY <1>2 DEF Regions
  <2>2. Reach(o) = {o} \cup ToSet(Walk(o.body))
    BY <2>1 DEF Reach
  <2> HIDE DEF ToSet
  <2> QED BY <1>2, <2>1, <2>2 DEF DmaReach, OpsIn
<1>3. CASE o.op = "if"
  <2>1. Regions(o) = <<o.then, o.else>>
    BY <1>3 DEF Regions
  <2>2. 1..Len(<<o.then, o.else>>) = {1, 2}
    OBVIOUS
  <2>3. Reach(o) = {o} \cup ToSet(Walk(o.then)) \cup ToSet(Walk(o.else))
    BY <2>1, <2>2 DEF Reach
  <2> HIDE DEF ToSet
  <2> QED BY <1>3, <2>3 DEF DmaReach, OpsIn
<1> QED BY <1>1, <1>2, <1>3

\* A tile does no copy that is not in the body of its herd.
LEMMA SourceDmas ==
  ASSUME NEW b \in Blocks, NEW xy
  PROVE  OpsIn(Source(b, xy), "dma") \subseteq OpsIn(b, "dma")
<1> HIDE DEF Blocks, Nest, Ops
<1> DEFINE D(c) == OpsIn(c, "dma")
           U == {c \in Blocks : D(Source(c, xy)) \subseteq D(c)}
<1>1. ASSUME NEW B \in SUBSET U, NEW o, isOperation(o, B), sourceRule(xy, o) \in Blocks
      PROVE  D(sourceRule(xy, o)) \subseteq DmaReach(o)
  <2> HIDE DEF D
  <2>1. CASE isStep(o)
    <3>1. sourceRule(xy, o) = <<o>> /\ o.op \notin {"for", "execute", "if"}
      BY <2>1 DEF isStep, sourceRule
    <3>2. D(<<o>>) = UNION {DmaReach(x) : x \in ToSet(<<o>>)}
      BY <1>1, <3>1, DmaElements DEF D
    <3>3. ToSet(<<o>>) = {o}
      BY DEF ToSet
    <3> HIDE DEF DmaReach, ToSet
    <3> QED BY <3>1, <3>2, <3>3
  <2>2. CASE isFor(o, B)
    <3> DEFINE f == [o EXCEPT !.body = Source(o.body, xy)]
    <3>1. sourceRule(xy, o) = <<f>> /\ o.op = "for" /\ f.op = "for" /\ f.body = Source(o.body, xy)
      BY <2>2 DEF isFor, sourceRule
    <3> HIDE DEF f
    <3>2. D(<<f>>) = UNION {DmaReach(x) : x \in ToSet(<<f>>)}
      BY <1>1, <3>1, DmaElements DEF D
    <3>3. ToSet(<<f>>) = {f}
      BY DEF ToSet
    <3>4. DmaReach(f) = D(f.body) /\ DmaReach(o) = D(o.body)
      BY <3>1, DmaOfOperation DEF D
    <3>5. D(Source(o.body, xy)) \subseteq D(o.body)
      BY <2>2 DEF isFor, D
    <3> HIDE DEF DmaReach, ToSet
    <3> QED BY <3>1, <3>2, <3>3, <3>4, <3>5
  <2>3. CASE isExecute(o, B)
    <3>1. sourceRule(xy, o) = Source(o.body, xy) /\ o.op = "execute" /\ o.body \in U
      BY <2>3 DEF isExecute, sourceRule
    <3>2. DmaReach(o) = D(o.body)
      BY <3>1, DmaOfOperation DEF D
    <3> QED BY <3>1, <3>2 DEF D
  <2>4. CASE isIf(o, B)
    <3>1. sourceRule(xy, o) \in {Source(o.then, xy), Source(o.else, xy)} /\ o.op = "if"
      BY <2>4 DEF isIf, sourceRule
    <3>2. DmaReach(o) = D(o.then) \cup D(o.else)
      BY <3>1, DmaOfOperation DEF D
    <3>3. D(Source(o.then, xy)) \subseteq D(o.then) /\ D(Source(o.else, xy)) \subseteq D(o.else)
      BY <2>4 DEF isIf, D
    <3> QED BY <3>1, <3>2, <3>3
  <2> QED BY <1>1, <2>1, <2>2, <2>3, <2>4 DEF isOperation
<1>2. ASSUME NEW B \in SUBSET U, NEW c \in Blocks, \A i \in 1..Len(c) : isOperation(c[i], B)
      PROVE  c \in U
  <2> DEFINE s == Source(c, xy)
  <2>1. /\ s \in Blocks
        /\ \A i \in 1..Len(c) : sourceRule(xy, c[i]) \in Blocks
        /\ ToSet(s) = UNION {ToSet(sourceRule(xy, c[i])) : i \in 1..Len(c)}
    BY SourceBlock, SourceElements
  <2>2. D(s) = UNION {DmaReach(x) : x \in ToSet(s)} /\ D(c) = UNION {DmaReach(x) : x \in ToSet(c)}
    BY <2>1, DmaElements
  <2>3. ToSet(c) = {c[i] : i \in 1..Len(c)}
    <3>1. c \in Seq(Steps \cup Around(Inner(MaxDepth)))
      BY AllBlocks, NestIs
    <3> QED BY <3>1, Elements
  <2> HIDE DEF s, D, DmaReach, ToSet
  <2>4. ASSUME NEW y \in D(s) PROVE y \in D(c)
    <3>1. PICK x \in ToSet(s) : y \in DmaReach(x)
      BY <2>2
    <3>2. PICK i \in 1..Len(c) : x \in ToSet(sourceRule(xy, c[i]))
      BY <2>1, <3>1
    <3> DEFINE o == c[i]
               t == sourceRule(xy, o)
    <3>3. t \in Blocks /\ x \in ToSet(t) /\ isOperation(o, B) /\ o \in ToSet(c)
      BY <1>2, <2>1, <2>3, <3>2
    <3> HIDE DEF o
    <3>4. D(t) \subseteq DmaReach(o)
      BY <1>1, <3>3
    <3> HIDE DEF t
    <3>5. D(t) = UNION {DmaReach(z) : z \in ToSet(t)}
      BY <3>3, DmaElements DEF D
    <3> QED BY <2>2, <3>1, <3>3, <3>4, <3>5
  <2> QED BY <2>4 DEF D, s
<1>3. Blocks \subseteq U
  <2> HIDE DEF U
  <2> QED BY <1>2, BlockInduction
<1> QED BY <1>3

\* The compiler takes the same branches as the program if every affine.if has
\* two constraints.
LEMMA SpecialSource ==
  ASSUME NEW b \in Blocks, TwoConstraints(b), NEW xy
  PROVE  Specialized(b, xy) = Source(b, xy)
<1> HIDE DEF Blocks, Nest, Ops
<1> DEFINE U == {c \in Blocks : TwoConstraints(c) => Specialized(c, xy) = Source(c, xy)}
<1>1. ASSUME NEW B \in SUBSET U, NEW c \in Blocks, \A i \in 1..Len(c) : isOperation(c[i], B), TwoConstraints(c)
      PROVE  Specialized(c, xy) = Source(c, xy)
  <2>1. ASSUME NEW i \in 1..Len(c) PROVE specialRule(xy, c[i]) = sourceRule(xy, c[i])
    <3> DEFINE o == c[i]
    <3>1. /\ o \in ToSet(Walk(c))
          /\ \A r \in 1..Len(Regions(o)) : ToSet(Walk(Regions(o)[r])) \subseteq ToSet(Walk(c))
          /\ isOperation(o, B)
      BY <1>1, WalkHas
    <3> HIDE DEF o, ToSet
    <3>2. o.op = "if" => o.constraints = 2
      BY <1>1, <3>1 DEF TwoConstraints, OpsIn
    <3>3. \A r \in 1..Len(Regions(o)) : TwoConstraints(Regions(o)[r])
      BY <1>1, <3>1 DEF TwoConstraints, OpsIn
    <3>4. ASSUME isStep(o) PROVE specialRule(xy, o) = sourceRule(xy, o)
      BY <3>4 DEF isStep, specialRule, sourceRule
    <3>5. ASSUME isFor(o, B) PROVE specialRule(xy, o) = sourceRule(xy, o)
      <4>1. Regions(o) = <<o.body>>
        BY <3>5 DEF isFor, Regions
      <4>2. Specialized(o.body, xy) = Source(o.body, xy)
        BY <3>3, <3>5, <4>1 DEF isFor
      <4> QED BY <3>5, <4>2 DEF isFor, specialRule, sourceRule
    <3>6. ASSUME isExecute(o, B) PROVE specialRule(xy, o) = sourceRule(xy, o)
      <4>1. Regions(o) = <<o.body>>
        BY <3>6 DEF isExecute, Regions
      <4>2. Specialized(o.body, xy) = Source(o.body, xy)
        BY <3>3, <3>6, <4>1 DEF isExecute
      <4> QED BY <3>6, <4>2 DEF isExecute, specialRule, sourceRule
    <3>7. ASSUME isIf(o, B) PROVE specialRule(xy, o) = sourceRule(xy, o)
      <4>1. Regions(o) = <<o.then, o.else>>
        BY <3>7 DEF isIf, Regions
      <4>2. TwoConstraints(o.then) /\ TwoConstraints(o.else)
        BY <3>3, <4>1
      <4>3. Specialized(o.then, xy) = Source(o.then, xy) /\ Specialized(o.else, xy) = Source(o.else, xy)
        BY <3>7, <4>2 DEF isIf
      <4> QED BY <3>2, <3>7, <4>3 DEF isIf, specialRule, sourceRule, isInSet
    <3>8. specialRule(xy, o) = sourceRule(xy, o)
      BY <3>1, <3>4, <3>5, <3>6, <3>7 DEF isOperation
    <3> QED BY <3>8 DEF o
  <2>2. [i \in 1..Len(c) |-> specialRule(xy, c[i])] = [i \in 1..Len(c) |-> sourceRule(xy, c[i])]
    BY <2>1
  <2>3. Specialized(c, xy) = FlattenSeq([i \in 1..Len(c) |-> specialRule(xy, c[i])])
    BY SpecialIs
  <2>4. Source(c, xy) = FlattenSeq([i \in 1..Len(c) |-> sourceRule(xy, c[i])])
    BY SourceIs
  <2> QED BY ONLY <2>2, <2>3, <2>4
<1>2. ASSUME NEW B \in SUBSET U, NEW c \in Blocks, \A i \in 1..Len(c) : isOperation(c[i], B)
      PROVE  c \in U
  BY <1>1, <1>2
<1>3. Blocks \subseteq U
  <2> HIDE DEF U
  <2> QED BY <1>2, BlockInduction
<1> QED BY <1>3

-----------------------------------------------------------------------------
(* The cores of a partition.                                               *)

\* The partition's herds are placed, apart from each other, in a program that
\* the compiler takes as it is.
Ready(q) ==
  /\ prog \in Modules /\ q \in Parts /\ Regular
  /\ offset \in [Herds -> Int \X Int]
  /\ \A k \in Numbers(q) : \A l \in Numbers(q) \ {k} : Tiles(<<q, k>>) \cap Tiles(<<q, l>>) = {}

CoreAt(q, k, xy) ==
  [herd |-> k, xy |-> xy, tile |-> TileOf(q, k, xy), body |-> Specialized(Herd(q, k).body, xy)]
Spots(q) == UNION {{k} \X TileIds(Herd(q, k)) : k \in Numbers(q)}
CoreSet(q) == {CoreAt(q, s[1], s[2]) : s \in Spots(q)}
CoresIn(q) == Outlined(P(q).herds, Offsets(q))

\* The numbers of a herd that is ready.
LEMMA ReadyHerd ==
  ASSUME NEW q, Ready(q), NEW k \in Numbers(q)
  PROVE  /\ Herd(q, k).rows \in Nat /\ Herd(q, k).cols \in Nat /\ Herd(q, k).body \in Blocks
         /\ <<q, k>> \in Herds /\ offset[<<q, k>>] \in Int \X Int
         /\ TwoConstraints(Herd(q, k).body)
         /\ Len(P(q).herds) \in Nat
<1> HIDE DEF Nest, Blocks, TwoConstraints
<1>1. prog \in Modules /\ q \in Parts
  BY DEF Ready
<1>2. Herd(q, k).rows \in Nat /\ Herd(q, k).cols \in Nat /\ Len(P(q).herds) \in Nat
  BY <1>1, Sizes
<1>3. Herd(q, k).body \in Blocks
  BY <1>1, BodiesAssumption DEF Parts, P, Numbers, Herd
<1>4. <<q, k>> \in Herds /\ <<q, k>>[1] = q /\ <<q, k>>[2] = k
  BY <1>1 DEF Herds
<1>5. offset[<<q, k>>] \in Int \X Int
  BY <1>4 DEF Ready
<1>6. TwoConstraints(Herd(q, k).body)
  BY <1>4 DEF Ready, Regular
<1> QED BY <1>2, <1>3, <1>4, <1>5, <1>6

\* Two tiles of a partition are different.
LEMMA TilesApart ==
  ASSUME NEW q, Ready(q), NEW k \in Numbers(q), NEW l \in Numbers(q),
         NEW xy \in TileIds(Herd(q, k)), NEW ab \in TileIds(Herd(q, l))
  PROVE  /\ TileOf(q, k, xy) \in Int \X Int
         /\ TileOf(q, k, xy) = TileOf(q, l, ab) => k = l /\ xy = ab
<1> DEFINE h == Herd(q, k)
           g == Herd(q, l)
           p == offset[<<q, k>>]
           r == offset[<<q, l>>]
<1>1. /\ h.rows \in Nat /\ h.cols \in Nat /\ p \in Int \X Int
      /\ g.rows \in Nat /\ g.cols \in Nat /\ r \in Int \X Int
  BY ReadyHerd
<1>2. TileOf(q, k, xy) = <<p[1] + xy[2], p[2] + xy[1]>> /\ TileOf(q, l, ab) = <<r[1] + ab[2], r[2] + ab[1]>>
  BY DEF TileOf
<1>3. xy \in (0..h.cols - 1) \X (0..h.rows - 1) /\ ab \in (0..g.cols - 1) \X (0..g.rows - 1)
  BY DEF TileIds
<1>4. Tiles(<<q, k>>) = (p[1]..p[1] + h.rows - 1) \X (p[2]..p[2] + h.cols - 1)
  BY DEF Tiles, Footprint
<1>5. Tiles(<<q, l>>) = (r[1]..r[1] + g.rows - 1) \X (r[2]..r[2] + g.cols - 1)
  BY DEF Tiles, Footprint
<1>6. k # l => Tiles(<<q, k>>) \cap Tiles(<<q, l>>) = {}
  BY DEF Ready
<1>7. k = l => p = r
  OBVIOUS
<1> HIDE DEF h, g, p, r, Tiles, TileOf
<1>8. TileOf(q, k, xy) \in Tiles(<<q, k>>) /\ TileOf(q, k, xy) \in Int \X Int
  BY <1>1, <1>2, <1>3, <1>4
<1>9. TileOf(q, l, ab) \in Tiles(<<q, l>>)
  BY <1>1, <1>2, <1>3, <1>5
<1>10. ASSUME TileOf(q, k, xy) = TileOf(q, l, ab) PROVE k = l /\ xy = ab
  <2>1. k = l
    BY <1>6, <1>8, <1>9, <1>10
  <2>2. p[1] + xy[2] = p[1] + ab[2] /\ p[2] + xy[1] = p[2] + ab[1]
    BY <1>2, <1>7, <1>10, <2>1
  <2> QED BY <1>1, <1>3, <2>1, <2>2
<1> QED BY <1>8, <1>10

\* outlineAIECores makes a core for each tile of a herd.
LEMMA CoresOfHerd ==
  ASSUME NEW q, Ready(q), NEW k \in Numbers(q)
  PROVE  /\ CoresOf(k, Herd(q, k), offset[<<q, k>>]) \in Seq(CoreSet(q))
         /\ ToSet(CoresOf(k, Herd(q, k), offset[<<q, k>>])) = {CoreAt(q, k, xy) : xy \in TileIds(Herd(q, k))}
<1> DEFINE h == Herd(q, k)
           p == offset[<<q, k>>]
           F(y) == [i \in 1..h.cols |->
                      [herd |-> k, xy |-> <<i - 1, y>>, tile |-> <<p[1] + y, p[2] + i - 1>>,
                       body |-> Specialized(h.body, <<i - 1, y>>)]]
           rows == [j \in 1..h.rows |-> j - 1]
           ss == [j \in 1..h.rows |-> F(j - 1)]
           T == TileIds(h)
           S == {CoreAt(q, k, xy) : xy \in T}
<1>1. h.rows \in Nat /\ h.cols \in Nat /\ p \in Int \X Int
  BY ReadyHerd
<1>2. CoresOf(k, h, p) = FlattenSeq(ss)
  <2>1. Len(rows) = h.rows /\ \A j \in 1..h.rows : rows[j] = j - 1
    BY <1>1
  <2>2. CoresOf(k, h, p) = FlattenSeq([j \in 1..Len(rows) |-> F(rows[j])])
    BY DEF CoresOf, Concat
  <2> HIDE DEF rows, F, h
  <2>3. [j \in 1..Len(rows) |-> F(rows[j])] = ss
    BY <2>1
  <2> QED BY <2>2, <2>3
<1>3. ASSUME NEW y \in 0..h.rows - 1
      PROVE  F(y) \in Seq(S) /\ ToSet(F(y)) = {CoreAt(q, k, <<x, y>>) : x \in 0..h.cols - 1}
  <2>1. ASSUME NEW i \in 1..h.cols PROVE F(y)[i] = CoreAt(q, k, <<i - 1, y>>) /\ <<i - 1, y>> \in T
    <3>1. p[2] + i - 1 = p[2] + (i - 1)
      BY <1>1
    <3>2. F(y)[i] = CoreAt(q, k, <<i - 1, y>>)
      BY <3>1 DEF CoreAt, TileOf
    <3>3. <<i - 1, y>> \in T
      BY <1>1 DEF TileIds
    <3> QED BY <3>2, <3>3
  <2>2. F(y) = [i \in 1..h.cols |-> F(y)[i]]
    OBVIOUS
  <2> HIDE DEF F, T, h, CoreAt
  <2>3. F(y) \in Seq(S) /\ Len(F(y)) = h.cols
    <3>1. \A i \in 1..h.cols : F(y)[i] \in S
      BY <2>1
    <3> DEFINE G == F(y)
    <3>2. G \in [1..h.cols -> S]
      <4> HIDE DEF S
      <4> QED BY <3>1 DEF F
    <3> HIDE DEF S, G
    <3>3. G \in Seq(S) /\ Len(G) = h.cols
      BY <1>1, <3>2
    <3> QED BY <3>3 DEF G
  <2>4. ToSet(F(y)) = {F(y)[i] : i \in 1..h.cols}
    BY <2>3, Elements
  <2>5. {F(y)[i] : i \in 1..h.cols} \subseteq {CoreAt(q, k, <<x, y>>) : x \in 0..h.cols - 1}
    <3>1. \A i \in 1..h.cols : i - 1 \in 0..h.cols - 1
      BY <1>1
    <3> QED BY <2>1, <3>1
  <2>6. {CoreAt(q, k, <<x, y>>) : x \in 0..h.cols - 1} \subseteq {F(y)[i] : i \in 1..h.cols}
    <3>1. \A x \in 0..h.cols - 1 : x + 1 \in 1..h.cols /\ (x + 1) - 1 = x
      BY <1>1
    <3>2. ASSUME NEW x \in 0..h.cols - 1 PROVE CoreAt(q, k, <<x, y>>) \in {F(y)[i] : i \in 1..h.cols}
      <4>1. F(y)[x + 1] = CoreAt(q, k, <<x, y>>)
        BY <2>1, <3>1
      <4> QED BY <3>1, <4>1
    <3> QED BY <3>2
  <2> QED BY <2>3, <2>4, <2>5, <2>6
<1>4. T = (0..h.cols - 1) \X (0..h.rows - 1)
  BY DEF TileIds
<1> HIDE DEF F, T, CoreAt, h, p
<1>5. ss \in Seq(Seq(S)) /\ Len(ss) = h.rows /\ \A j \in 1..h.rows : ss[j] = F(j - 1)
  <2>1. \A j \in 1..h.rows : F(j - 1) \in Seq(S)
    <3>1. \A j \in 1..h.rows : j - 1 \in 0..h.rows - 1
      BY <1>1
    <3> QED BY <1>3, <3>1
  <2> HIDE DEF S
  <2> QED BY <1>1, <2>1
<1> HIDE DEF ss
<1>6. FlattenSeq(ss) \in Seq(S) /\ ToSet(FlattenSeq(ss)) = UNION {ToSet(ss[j]) : j \in 1..Len(ss)}
  <2> HIDE DEF S
  <2> QED BY <1>5, FlattenElements
<1>7. UNION {ToSet(ss[j]) : j \in 1..Len(ss)} \subseteq S
  <2> SUFFICES ASSUME NEW j \in 1..h.rows, NEW c \in ToSet(F(j - 1)) PROVE c \in S
    BY <1>5
  <2>1. j - 1 \in 0..h.rows - 1
    BY <1>1
  <2>2. PICK x \in 0..h.cols - 1 : c = CoreAt(q, k, <<x, j - 1>>)
    BY <1>3, <2>1
  <2>3. <<x, j - 1>> \in T
    BY <1>4, <2>1
  <2> QED BY <2>2, <2>3
<1>8. S \subseteq UNION {ToSet(ss[j]) : j \in 1..Len(ss)}
  <2> SUFFICES ASSUME NEW xy \in T PROVE \E j \in 1..h.rows : CoreAt(q, k, xy) \in ToSet(F(j - 1))
    BY <1>5
  <2>1. PICK x \in 0..h.cols - 1, y \in 0..h.rows - 1 : xy = <<x, y>>
    BY <1>4
  <2>2. y + 1 \in 1..h.rows /\ (y + 1) - 1 = y
    BY <1>1
  <2>3. CoreAt(q, k, xy) \in ToSet(F(y))
    BY <1>3, <2>1
  <2> QED BY <2>2, <2>3
<1>9. S \subseteq CoreSet(q)
  <2>1. ASSUME NEW xy \in T PROVE CoreAt(q, k, xy) \in CoreSet(q)
    <3>1. <<k, xy>> \in Spots(q) /\ <<k, xy>>[1] = k /\ <<k, xy>>[2] = xy
      BY DEF Spots, T, h
    <3> QED BY <3>1 DEF CoreSet
  <2> QED BY <2>1
<1>10. CoresOf(k, h, p) \in Seq(S) /\ ToSet(CoresOf(k, h, p)) = S
  <2> HIDE DEF S
  <2> QED BY <1>2, <1>6, <1>7, <1>8
<1>11. CoresOf(k, h, p) \in Seq(CoreSet(q))
  <2> HIDE DEF S, CoreSet
  <2> QED BY <1>9, <1>10, SeqMonotonic
<1> QED BY <1>10, <1>11 DEF h, p, T

\* A sequence the other way round has the same elements.
LEMMA ReverseElements ==
  ASSUME NEW S, NEW s \in Seq(S)
  PROVE  Reverse(s) \in Seq(S) /\ ToSet(Reverse(s)) = ToSet(s)
<1> DEFINE n == Len(s)
           t == Reverse(s)
<1>1. n \in Nat /\ \A i \in 1..n : s[i] \in S
  BY ElementOfSeq, LenProperties
<1>2. t = [i \in 1..n |-> s[(n - i) + 1]]
  BY DEF Reverse
<1>3. \A i \in 1..n : (n - i) + 1 \in 1..n /\ (n - ((n - i) + 1)) + 1 = i
  BY <1>1
<1>4. t \in [1..n -> S]
  BY <1>1, <1>2, <1>3
<1>5. \A i \in 1..n : t[i] = s[(n - i) + 1]
  BY <1>2
<1>6. ToSet(s) = {s[i] : i \in 1..n}
  BY Elements
<1> HIDE DEF n, t
<1>7. t \in Seq(S) /\ Len(t) = n
  BY <1>1, <1>4
<1>8. ToSet(t) = {t[i] : i \in 1..n}
  BY <1>7, Elements
<1>9. {t[i] : i \in 1..n} \subseteq {s[i] : i \in 1..n}
  BY <1>3, <1>5
<1>10. {s[i] : i \in 1..n} \subseteq {t[i] : i \in 1..n}
  <2> SUFFICES ASSUME NEW i \in 1..n PROVE \E j \in 1..n : s[i] = t[j]
    OBVIOUS
  <2>1. (n - i) + 1 \in 1..n /\ t[(n - i) + 1] = s[(n - ((n - i) + 1)) + 1]
    BY <1>3, <1>5
  <2>2. t[(n - i) + 1] = s[i]
    BY <1>3, <2>1
  <2> QED BY <2>1, <2>2
<1> QED BY <1>6, <1>7, <1>8, <1>9, <1>10 DEF t

\* outlineAIECores makes a core for each tile of each herd.
LEMMA CoresAre ==
  ASSUME NEW q, Ready(q)
  PROVE  CoresIn(q) \in Seq(CoreSet(q)) /\ ToSet(CoresIn(q)) = CoreSet(q)
<1> DEFINE n == Len(P(q).herds)
           F(k) == CoresOf(k, P(q).herds[k], Offsets(q)[k])
           ks == [k \in 1..n |-> k]
           ss == [k \in 1..n |-> F(k)]
           S == CoreSet(q)
           C(k) == {CoreAt(q, k, xy) : xy \in TileIds(Herd(q, k))}
<1>1. n \in Nat
  BY Sizes DEF Ready
<1>2. CoresIn(q) = Reverse(FlattenSeq(ss))
  <2>1. Len(ks) = n /\ \A k \in 1..n : ks[k] = k
    BY <1>1
  <2>2. CoresIn(q) = Reverse(FlattenSeq([i \in 1..Len(ks) |-> F(ks[i])]))
    BY DEF CoresIn, Outlined, Concat
  <2> HIDE DEF ks, F, n
  <2>3. [i \in 1..Len(ks) |-> F(ks[i])] = ss
    BY <2>1
  <2> QED BY <2>2, <2>3
<1>3. ASSUME NEW k \in 1..n PROVE F(k) \in Seq(S) /\ ToSet(F(k)) = C(k)
  <2>1. k \in Numbers(q) /\ P(q).herds[k] = Herd(q, k)
    BY DEF Numbers, Herd
  <2>2. Offsets(q)[k] = offset[<<q, k>>]
    BY <2>1 DEF Offsets
  <2>3. F(k) = CoresOf(k, Herd(q, k), offset[<<q, k>>])
    BY <2>1, <2>2
  <2> HIDE DEF F, S
  <2> QED BY <2>1, <2>3, CoresOfHerd DEF S
<1> HIDE DEF F, S, C
<1>4. ss \in Seq(Seq(S)) /\ Len(ss) = n /\ \A k \in 1..n : ss[k] = F(k)
  BY <1>1, <1>3
<1> HIDE DEF ss
<1>5. FlattenSeq(ss) \in Seq(S) /\ ToSet(FlattenSeq(ss)) = UNION {ToSet(ss[k]) : k \in 1..Len(ss)}
  BY <1>4, FlattenElements
<1>6. UNION {ToSet(ss[k]) : k \in 1..Len(ss)} = UNION {C(k) : k \in 1..n}
  BY <1>3, <1>4
<1>7. UNION {C(k) : k \in 1..n} \subseteq S
  <2> SUFFICES ASSUME NEW k \in Numbers(q), NEW xy \in TileIds(Herd(q, k)) PROVE CoreAt(q, k, xy) \in S
    BY DEF C, Numbers
  <2> HIDE DEF CoreAt
  <2>1. <<k, xy>> \in Spots(q) /\ <<k, xy>>[1] = k /\ <<k, xy>>[2] = xy
    BY DEF Spots
  <2> QED BY <2>1 DEF CoreSet, S
<1>8. S \subseteq UNION {C(k) : k \in 1..n}
  <2> SUFFICES ASSUME NEW s \in Spots(q) PROVE CoreAt(q, s[1], s[2]) \in UNION {C(k) : k \in 1..n}
    BY DEF S, CoreSet
  <2> HIDE DEF CoreAt
  <2>1. PICK k \in Numbers(q) : s \in {k} \X TileIds(Herd(q, k))
    BY DEF Spots
  <2>2. s[1] = k /\ s[2] \in TileIds(Herd(q, k)) /\ k \in 1..n
    BY <2>1 DEF Numbers
  <2>3. CoreAt(q, s[1], s[2]) \in C(k)
    BY <2>2 DEF C
  <2> QED BY <2>2, <2>3
<1>9. ToSet(FlattenSeq(ss)) = S
  BY <1>5, <1>6, <1>7, <1>8
<1> QED BY <1>2, <1>5, <1>9, ReverseElements DEF S

\* The body of a core is what its tile is to do.
LEMMA CoreBody ==
  ASSUME NEW q, Ready(q), NEW k \in Numbers(q), NEW xy \in TileIds(Herd(q, k))
  PROVE  /\ CoreAt(q, k, xy).body = Code(q, k, xy)
         /\ Code(q, k, xy) \in Blocks
         /\ OpsIn(Code(q, k, xy), "dma") \subseteq OpsIn(Herd(q, k).body, "dma")
         /\ CoreAt(q, k, xy) \in CoreSet(q)
<1> HIDE DEF Nest, Blocks, TwoConstraints, OpsIn
<1>1. Herd(q, k).body \in Blocks /\ TwoConstraints(Herd(q, k).body)
  BY ReadyHerd
<1>2. Specialized(Herd(q, k).body, xy) = Code(q, k, xy)
  BY <1>1, SpecialSource DEF Code
<1>3. Code(q, k, xy) \in Blocks /\ OpsIn(Code(q, k, xy), "dma") \subseteq OpsIn(Herd(q, k).body, "dma")
  BY <1>1, SourceBlock, SourceDmas DEF Code
<1>4. <<k, xy>> \in Spots(q) /\ <<k, xy>>[1] = k /\ <<k, xy>>[2] = xy
  BY DEF Spots
<1>5. CoreAt(q, k, xy) \in CoreSet(q)
  <2> HIDE DEF CoreAt
  <2> QED BY <1>4 DEF CoreSet
<1> QED BY <1>2, <1>3, <1>5 DEF CoreAt

\* A core, by its number among the tiles.
LEMMA CoreIs ==
  ASSUME NEW q, Ready(q), NEW c \in CoreSet(q)
  PROVE  \E k \in Numbers(q) : \E xy \in TileIds(Herd(q, k)) : c = CoreAt(q, k, xy)
<1> HIDE DEF CoreAt
<1>1. PICK s \in Spots(q) : c = CoreAt(q, s[1], s[2])
  BY DEF CoreSet
<1>2. PICK k \in Numbers(q) : s \in {k} \X TileIds(Herd(q, k))
  BY DEF Spots
<1>3. s[1] = k /\ s[2] \in TileIds(Herd(q, k))
  BY <1>2
<1> QED BY <1>1, <1>3

\* One core for a tile.
LEMMA CoresApart ==
  ASSUME NEW q, Ready(q), NEW c \in CoreSet(q), NEW d \in CoreSet(q), c.tile = d.tile
  PROVE  c = d /\ c.tile \in Int \X Int
<1>1. PICK k \in Numbers(q) : \E xy \in TileIds(Herd(q, k)) : c = CoreAt(q, k, xy)
  BY CoreIs
<1>2. PICK xy \in TileIds(Herd(q, k)) : c = CoreAt(q, k, xy)
  BY <1>1
<1>3. PICK l \in Numbers(q) : \E ab \in TileIds(Herd(q, l)) : d = CoreAt(q, l, ab)
  BY CoreIs
<1>4. PICK ab \in TileIds(Herd(q, l)) : d = CoreAt(q, l, ab)
  BY <1>3
<1>5. c.tile = TileOf(q, k, xy) /\ d.tile = TileOf(q, l, ab)
  BY <1>2, <1>4 DEF CoreAt
<1>6. k = l /\ xy = ab /\ c.tile \in Int \X Int
  <2>1. TileOf(q, k, xy) = TileOf(q, l, ab)
    BY ONLY <1>5, c.tile = d.tile
  <2>2. /\ TileOf(q, k, xy) \in Int \X Int
        /\ TileOf(q, k, xy) = TileOf(q, l, ab) => k = l /\ xy = ab
    BY TilesApart
  <2> QED BY ONLY <1>5, <2>1, <2>2
<1> QED BY <1>2, <1>4, <1>6

-----------------------------------------------------------------------------
(* DMAAllocator.                                                           *)

Request == [tile : Int \X Int, id : Nat, chan : {0, 1}]
Allocation == [tile : Int \X Int, chan : {0, 1}, ids : SUBSET Nat]

\* One id of a tile has one channel.
OneChannel(reqs) ==
  \A m, n \in 1..Len(reqs) : reqs[m].tile = reqs[n].tile /\ reqs[m].id = reqs[n].id => reqs[m].chan = reqs[n].chan

Covers(j, a, r) == a[j].tile = r.tile /\ a[j].chan = r.chan /\ r.id \in a[j].ids
Justified(r, x, id) == r.tile = x.tile /\ r.id = id /\ r.chan = x.chan

\* What the allocations are after n requests: each id is there because some
\* request has it, a channel of a tile is in one place, and each request has
\* its channel.
Allocates(a, reqs, n) ==
  /\ a \in Seq(Allocation)
  /\ \A j \in 1..Len(a) : \A id \in a[j].ids : \E m \in 1..n : Justified(reqs[m], a[j], id)
  /\ \A i, j \in 1..Len(a) : a[i].tile = a[j].tile /\ a[i].chan = a[j].chan => i = j
  /\ \A m \in 1..n : \E j \in 1..Len(a) : Covers(j, a, reqs[m])

\* No allocation is the request's.
LEMMA AppendKeeps ==
  ASSUME NEW reqs \in Seq(Request), NEW n \in Nat, n + 1 \in 1..Len(reqs), NEW a, Allocates(a, reqs, n),
         \A j \in 1..Len(a) : ~matches(a[j], reqs[n + 1])
  PROVE  Allocates(Append(a, [tile |-> reqs[n + 1].tile, chan |-> reqs[n + 1].chan, ids |-> {reqs[n + 1].id}]),
                   reqs, n + 1)
<1> DEFINE r == reqs[n + 1]
           x == [tile |-> r.tile, chan |-> r.chan, ids |-> {r.id}]
           b == Append(a, x)
           L == Len(a)
<1>1. r \in Request
  BY ElementOfSeq
<1>2. x \in Allocation /\ x.tile = r.tile /\ x.chan = r.chan /\ x.ids = {r.id}
  BY <1>1 DEF Request, Allocation
<1>3. a \in Seq(Allocation) /\ L \in Nat
  BY LenProperties DEF Allocates
<1> HIDE DEF r, x
<1>4. b \in Seq(Allocation) /\ Len(b) = L + 1 /\ b[L + 1] = x /\ \A j \in 1..L : b[j] = a[j]
  <2> HIDE DEF Allocation
  <2> QED BY <1>2, <1>3, AppendProperties
<1> HIDE DEF b
<1>5. ASSUME NEW j \in 1..L + 1, NEW id \in b[j].ids PROVE \E m \in 1..n + 1 : Justified(reqs[m], b[j], id)
  <2>1. CASE j = L + 1
    <3>1. Justified(r, b[j], id) /\ n + 1 \in 1..n + 1
      BY <1>2, <1>4, <1>5, <2>1 DEF Justified
    <3> QED BY <3>1 DEF r
  <2>2. CASE j # L + 1
    <3>1. j \in 1..L /\ b[j] = a[j]
      BY <1>3, <1>4, <2>2
    <3>2. PICK m \in 1..n : Justified(reqs[m], a[j], id)
      BY <1>5, <3>1 DEF Allocates, L
    <3> QED BY <3>1, <3>2
  <2> QED BY <2>1, <2>2
<1>6. \A j \in 1..L : ~(a[j].tile = r.tile /\ a[j].chan = r.chan)
  BY DEF matches, r, L
<1>7. ASSUME NEW i \in 1..L + 1, NEW j \in 1..L + 1, b[i].tile = b[j].tile, b[i].chan = b[j].chan PROVE i = j
  <2>1. i = L + 1 \/ (i \in 1..L /\ b[i] = a[i])
    BY <1>3, <1>4
  <2>2. j = L + 1 \/ (j \in 1..L /\ b[j] = a[j])
    BY <1>3, <1>4
  <2>3. i \in 1..L /\ j \in 1..L => i = j
    BY <1>7, <2>1, <2>2, <1>3 DEF Allocates, L
  <2> QED BY <1>2, <1>4, <1>6, <1>7, <2>1, <2>2, <2>3
<1>8. ASSUME NEW m \in 1..n + 1 PROVE \E j \in 1..L + 1 : Covers(j, b, reqs[m])
  <2>1. CASE m = n + 1
    <3>1. Covers(L + 1, b, r) /\ L + 1 \in 1..L + 1
      BY <1>2, <1>3, <1>4 DEF Covers
    <3> QED BY <2>1, <3>1 DEF r
  <2>2. CASE m # n + 1
    <3>1. m \in 1..n
      BY <2>2
    <3>2. PICK j \in 1..L : Covers(j, a, reqs[m])
      BY <3>1 DEF Allocates, L
    <3>3. Covers(j, b, reqs[m]) /\ j \in 1..L + 1
      BY <1>3, <1>4, <3>2 DEF Covers
    <3> QED BY <3>3
  <2> QED BY <2>1, <2>2
<1>9. Allocates(b, reqs, n + 1)
  BY <1>4, <1>5, <1>7, <1>8 DEF Allocates
<1> QED BY <1>9 DEF b, x, r

\* An allocation takes the request's id.
LEMMA ShareKeeps ==
  ASSUME NEW reqs \in Seq(Request), OneChannel(reqs), NEW n \in Nat, n + 1 \in 1..Len(reqs),
         NEW a, Allocates(a, reqs, n), NEW i \in 1..Len(a), matches(a[i], reqs[n + 1])
  PROVE  Allocates([a EXCEPT ![i].ids = @ \cup {reqs[n + 1].id}], reqs, n + 1)
<1> DEFINE r == reqs[n + 1]
           b == [a EXCEPT ![i].ids = @ \cup {r.id}]
           L == Len(a)
<1>1. r \in Request
  BY ElementOfSeq
<1>2. a \in Seq(Allocation) /\ L \in Nat /\ i \in 1..L
  BY LenProperties DEF Allocates
<1>3. a[i].tile = r.tile /\ (r.id \in a[i].ids \/ r.chan = a[i].chan)
  BY DEF matches
<1>4. r.chan = a[i].chan
  <2>1. CASE r.id \in a[i].ids
    <3>1. PICK m \in 1..n : Justified(reqs[m], a[i], r.id)
      BY <2>1 DEF Allocates
    <3>2. m \in 1..Len(reqs) /\ reqs[m].tile = r.tile /\ reqs[m].id = r.id
      BY <1>3, <3>1, LenProperties DEF Justified
    <3>3. reqs[m].chan = r.chan
      BY <3>2 DEF OneChannel
    <3> QED BY <3>1, <3>3 DEF Justified
  <2> QED BY <1>3, <2>1
<1> DEFINE x == [a[i] EXCEPT !.ids = @ \cup {r.id}]
<1>5. a[i] \in Allocation /\ \A j \in 1..L : a[j] \in Allocation
  BY <1>2, ElementOfSeq
<1>6. x \in Allocation /\ x.tile = a[i].tile /\ x.chan = a[i].chan /\ x.ids = a[i].ids \cup {r.id}
  BY <1>1, <1>5 DEF Request, Allocation
<1>7. b = [a EXCEPT ![i] = x]
  OBVIOUS
<1> HIDE DEF r, x
<1>8. b \in Seq(Allocation) /\ Len(b) = L /\ b[i] = x /\ \A j \in 1..L : j # i => b[j] = a[j]
  <2> HIDE DEF Allocation, b
  <2>1. [a EXCEPT ![i] = x] \in Seq(Allocation)
    BY <1>2, <1>6, ExceptSeq
  <2>2. DOMAIN a = 1..L
    BY <1>2, LenProperties
  <2> QED BY <1>2, <1>6, <1>7, <2>1, <2>2, ExceptSeq
<1> HIDE DEF b
<1>9. \A j \in 1..L : b[j].tile = a[j].tile /\ b[j].chan = a[j].chan /\ a[j].ids \subseteq b[j].ids
  BY <1>6, <1>8
<1>10. ASSUME NEW j \in 1..L, NEW id \in b[j].ids PROVE \E m \in 1..n + 1 : Justified(reqs[m], b[j], id)
  <2>1. CASE id \in a[j].ids
    <3>1. PICK m \in 1..n : Justified(reqs[m], a[j], id)
      BY <2>1 DEF Allocates, L
    <3>2. Justified(reqs[m], b[j], id) /\ m \in 1..n + 1
      BY <1>9, <3>1 DEF Justified
    <3> QED BY <3>2
  <2>2. CASE id \notin a[j].ids
    <3>1. j = i /\ id = r.id
      BY <1>6, <1>8, <1>10, <2>2
    <3>2. Justified(r, b[j], id) /\ n + 1 \in 1..n + 1
      BY <1>3, <1>4, <1>6, <1>8, <3>1 DEF Justified
    <3> QED BY <3>2 DEF r
  <2> QED BY <2>1, <2>2
<1>11. \A k, j \in 1..L : b[k].tile = b[j].tile /\ b[k].chan = b[j].chan => k = j
  BY <1>9 DEF Allocates, L
<1>12. ASSUME NEW m \in 1..n + 1 PROVE \E j \in 1..L : Covers(j, b, reqs[m])
  <2>1. CASE m = n + 1
    <3>1. Covers(i, b, r)
      BY <1>3, <1>4, <1>6, <1>8 DEF Covers
    <3> QED BY <1>2, <2>1, <3>1 DEF r
  <2>2. CASE m # n + 1
    <3>1. m \in 1..n
      BY <2>2
    <3>2. PICK j \in 1..L : Covers(j, a, reqs[m])
      BY <3>1 DEF Allocates, L
    <3>3. Covers(j, b, reqs[m])
      BY <1>9, <3>2 DEF Covers
    <3> QED BY <3>3
  <2> QED BY <2>1, <2>2
<1>13. Allocates(b, reqs, n + 1)
  BY <1>8, <1>10, <1>11, <1>12 DEF Allocates
<1> QED BY <1>13 DEF b, r

\* getTile keeps the allocations in order.
LEMMA GetTileKeeps ==
  ASSUME NEW reqs \in Seq(Request), OneChannel(reqs), NEW n \in Nat, n + 1 \in 1..Len(reqs),
         NEW a, Allocates(a, reqs, n)
  PROVE  Allocates(getTile(a, reqs[n + 1]), reqs, n + 1)
<1> DEFINE r == reqs[n + 1]
           m == {j \in 1..Len(a) : matches(a[j], r)}
           i == FirstMatch(a, r)
<1>1. Len(a) \in Nat
  BY LenProperties DEF Allocates
<1>2. CASE m = {}
  <2>1. i = 0
    BY <1>2 DEF FirstMatch
  <2>2. getTile(a, r) = Append(a, [tile |-> r.tile, chan |-> r.chan, ids |-> {r.id}])
    BY <2>1 DEF getTile
  <2>3. \A j \in 1..Len(a) : ~matches(a[j], reqs[n + 1])
    BY <1>2
  <2> QED BY <2>2, <2>3, AppendKeeps
<1>3. CASE m # {}
  <2>1. \E j \in m : \A l \in m : j <= l
    <3>1. m \subseteq Nat
      BY <1>1
    <3> HIDE DEF m
    <3> QED BY <1>3, <3>1, Least
  <2>2. i \in m
    BY <1>3, <2>1 DEF FirstMatch
  <2>3. i # 0 /\ i \in 1..Len(a) /\ matches(a[i], r)
    BY <1>1, <2>2
  <2>4. getTile(a, r) = [a EXCEPT ![i].ids = @ \cup {r.id}]
    <3> HIDE DEF r
    <3> QED BY <2>3 DEF getTile
  <2> HIDE DEF i
  <2> QED BY <2>3, <2>4, ShareKeeps
<1> QED BY <1>2, <1>3

\* What getTile computes, request by request.
isAllocs(f, reqs, n) ==
  f = [m \in 0 .. n |-> IF m = 0 THEN <<>> ELSE getTile(f[m - 1], reqs[m])]

\* The allocations so far exist.
LEMMA AllocsExist ==
  ASSUME NEW reqs, NEW n \in Nat
  PROVE  \E f : isAllocs(f, reqs, n)
<1> DEFINE U == {m \in Nat : \E f : isAllocs(f, reqs, m)}
<1>1. 0 \in U
  <2>1. isAllocs([m \in 0 .. 0 |-> <<>>], reqs, 0)
    BY DEF isAllocs
  <2> QED BY <2>1
<1>2. ASSUME NEW m \in 0 .. n - 1, m \in U PROVE m + 1 \in U
  <2>1. PICK f : isAllocs(f, reqs, m)
    BY <1>2
  <2> DEFINE last == getTile(f[m], reqs[m + 1])
             h == [i \in 0 .. m + 1 |-> IF i = m + 1 THEN last ELSE f[i]]
  <2>2. isAllocs(h, reqs, m + 1)
    <3>1. ASSUME NEW i \in 0 .. m + 1
          PROVE  h[i] = IF i = 0 THEN <<>> ELSE getTile(h[i - 1], reqs[i])
      <4>1. CASE i = m + 1
        <5>1. h[i] = last /\ h[i - 1] = f[m] /\ i # 0
          BY <4>1
        <5> QED BY <4>1, <5>1
      <4>2. CASE i # m + 1
        <5>1. i \in 0 .. m
          BY <4>2
        <5>2. f[i] = IF i = 0 THEN <<>> ELSE getTile(f[i - 1], reqs[i])
          BY <2>1, <5>1 DEF isAllocs
        <5>3. h[i] = f[i] /\ (i # 0 => h[i - 1] = f[i - 1])
          BY <5>1
        <5> QED BY <5>2, <5>3
      <4> QED BY <4>1, <4>2
    <3> HIDE DEF h
    <3>2. h = [i \in 0 .. m + 1 |-> h[i]]
      BY DEF h
    <3> QED BY <3>1, <3>2 DEF isAllocs
  <2> QED BY <2>2
<1>3. \A i \in 0 .. n : i \in U
  <2> HIDE DEF U
  <2> QED BY <1>1, <1>2, UpTo
<1> QED BY <1>3

\* The allocations of a direction are those of its requests.
LEMMA AllocatedIs ==
  ASSUME NEW cores, NEW dir, Requests(cores, dir) \in Seq(Request), OneChannel(Requests(cores, dir))
  PROVE  Allocates(Allocated(cores, dir), Requests(cores, dir), Len(Requests(cores, dir)))
<1> DEFINE R == Requests(cores, dir)
           N == Len(R)
<1>1. N \in Nat
  BY LenProperties
<1>2. Allocated(cores, dir) = (CHOOSE f : isAllocs(f, R, N))[N]
  BY DEF Allocated, isAllocs
<1>3. PICK f : isAllocs(f, R, N) /\ Allocated(cores, dir) = f[N]
  BY <1>1, <1>2, AllocsExist
<1>4. R \in Seq(Request) /\ OneChannel(R)
  OBVIOUS
<1> HIDE DEF R
<1> DEFINE U == {n \in 0..N : Allocates(f[n], R, n)}
<1>5. 0 \in U
  <2>1. f[0] = <<>>
    BY <1>1, <1>3 DEF isAllocs
  <2>2. Allocates(<<>>, R, 0)
    BY DEF Allocates
  <2> QED BY <1>1, <2>1, <2>2
<1>6. ASSUME NEW n \in 0..N - 1, n \in U PROVE n + 1 \in U
  <2>1. n \in Nat /\ n + 1 \in 1..Len(R) /\ n + 1 \in 0..N /\ (n + 1) - 1 = n /\ n + 1 # 0
    BY <1>1
  <2>2. f[n + 1] = getTile(f[n], R[n + 1])
    BY <1>3, <2>1 DEF isAllocs
  <2>3. Allocates(f[n], R, n)
    BY <1>6
  <2>4. Allocates(getTile(f[n], R[n + 1]), R, n + 1)
    BY <1>4, <2>1, <2>3, GetTileKeeps
  <2> QED BY <2>1, <2>2, <2>4
<1>7. \A n \in 0..N : n \in U
  <2> HIDE DEF U
  <2> QED BY <1>1, <1>5, <1>6, UpTo
<1> QED BY <1>1, <1>3, <1>7 DEF R

-----------------------------------------------------------------------------
(* The requests of a partition's copies.                                   *)

\* A tile has two channels of a direction.
LEMMA ChannelOf ==
  ASSUME NEW b \in Blocks, NEW d \in OpsIn(b, "dma")
  PROVE  getTileDMAChannel(getAIRDmaMemcpyInBlock(b), d) \in {0, 1}
<1> HIDE DEF Blocks, Nest, OpsIn
<1> DEFINE s == getAIRDmaMemcpyInBlock(b)
           same(i) == s[i].id = d.id /\ s[i].dir = d.dir
           first == CHOOSE i \in DOMAIN s : same(i) /\ \A j \in 1..i - 1 : ~same(j)
           I == {n \in 1..first - 1 : s[n].dir = d.dir}
           ids == {s[j].id : j \in I}
<1>1. s \in Seq(Dmas) /\ d \in ToSet(s)
  BY DmasIn
<1>2. Len(s) \in Nat /\ DOMAIN s = 1..Len(s) /\ ToSet(s) = {s[i] : i \in 1..Len(s)}
  BY <1>1, LenProperties, Elements
<1>3. first \in 1..Len(s)
  <2> DEFINE T == {i \in 1..Len(s) : same(i)}
  <2>1. T # {} /\ T \subseteq Nat
    BY <1>1, <1>2
  <2>2. PICK i \in T : \A j \in T : i <= j
    <3> HIDE DEF T
    <3> QED BY <2>1, Least
  <2>3. same(i) /\ i \in DOMAIN s /\ \A j \in 1..i - 1 : ~same(j)
    BY <1>2, <2>2
  <2> HIDE DEF same
  <2> QED BY <1>2, <2>3
<1>4. getTileDMAChannel(s, d) = Cardinality(ids) % 2
  BY DEF getTileDMAChannel, tile_dma_channels
<1> HIDE DEF first, s
<1>5. IsFiniteSet(I)
  <2>1. 1..first - 1 = 1..(first - 1) /\ first - 1 \in Int
    BY <1>2, <1>3
  <2>2. IsFiniteSet(1..first - 1)
    BY <2>1, FS_Interval
  <2> QED BY <2>2, FS_Subset
<1>6. IsFiniteSet(ids)
  <2> DEFINE f == [j \in I |-> s[j].id]
  <2>1. f \in Surjection(I, ids)
    BY DEF Surjection
  <2> HIDE DEF f, I, ids
  <2> QED BY <1>5, <2>1, FS_Surjection
<1>7. Cardinality(ids) \in Nat
  BY <1>6, FS_CardinalityType
<1> HIDE DEF ids
<1> QED BY <1>4, <1>7 DEF s

CopiesOut(b, dir) == {d \in OpsIn(b, "dma") : d.dir = dir}
RequestOf(c, d) ==
  [tile |-> c.tile, id |-> d.id, chan |-> getTileDMAChannel(getAIRDmaMemcpyInBlock(c.body), d)]
CoreRequests(c, dir) ==
  FlattenSeq([i \in 1..Len(getAIRDmaMemcpyInBlock(c.body)) |->
                IF getAIRDmaMemcpyInBlock(c.body)[i].dir = dir
                  THEN <<RequestOf(c, getAIRDmaMemcpyInBlock(c.body)[i])>> ELSE <<>>])

\* What the allocator needs of a core.
LEMMA CoreFacts ==
  ASSUME NEW q, Ready(q), NEW c \in CoreSet(q)
  PROVE  c.body \in Blocks /\ c.tile \in Int \X Int
<1> HIDE DEF Blocks, Nest
<1>1. PICK k \in Numbers(q) : \E xy \in TileIds(Herd(q, k)) : c = CoreAt(q, k, xy)
  BY CoreIs
<1>2. PICK xy \in TileIds(Herd(q, k)) : c = CoreAt(q, k, xy)
  BY <1>1
<1>3. c.body = Code(q, k, xy) /\ Code(q, k, xy) \in Blocks
  BY <1>2, CoreBody
<1> QED BY <1>3, CoresApart

\* The requests of a core.
LEMMA RequestsOfCore ==
  ASSUME NEW q, Ready(q), NEW c \in CoreSet(q), NEW dir
  PROVE  /\ CoreRequests(c, dir) \in Seq(Request)
         /\ ToSet(CoreRequests(c, dir)) = {RequestOf(c, d) : d \in CopiesOut(c.body, dir)}
<1> HIDE DEF Blocks, Nest, OpsIn
<1> DEFINE s == getAIRDmaMemcpyInBlock(c.body)
           G == CopiesOut(c.body, dir)
           v == [d \in Dmas |-> RequestOf(c, d)]
           ss == [i \in 1..Len(s) |-> IF s[i].dir = dir THEN <<RequestOf(c, s[i])>> ELSE <<>>]
<1>1. c.body \in Blocks /\ c.tile \in Int \X Int
  BY CoreFacts
<1>2. s \in Seq(Dmas) /\ ToSet(s) = OpsIn(c.body, "dma") /\ OpsIn(c.body, "dma") \subseteq Dmas
  BY <1>1, DmasIn
<1>3. \A d \in OpsIn(c.body, "dma") : RequestOf(c, d) \in Request
  <2>1. \A d \in OpsIn(c.body, "dma") : d.id \in Nat
    BY <1>2 DEF Dmas
  <2>2. \A d \in OpsIn(c.body, "dma") : getTileDMAChannel(s, d) \in {0, 1}
    BY <1>1, ChannelOf
  <2> HIDE DEF s
  <2> QED BY <1>1, <2>1, <2>2 DEF RequestOf, Request, s
<1>4. CoreRequests(c, dir) = FlattenSeq(ss)
  BY DEF CoreRequests
<1> HIDE DEF s, RequestOf
<1>5. Len(s) \in Nat /\ \A i \in 1..Len(s) : s[i] \in OpsIn(c.body, "dma") /\ s[i] \in Dmas
  <2>1. Len(s) \in Nat /\ ToSet(s) = {s[i] : i \in 1..Len(s)}
    BY <1>2, LenProperties, Elements
  <2> HIDE DEF ToSet
  <2> QED BY <1>2, <2>1
<1>6. \A i \in 1..Len(s) : ss[i] = IF s[i].dir = dir THEN <<RequestOf(c, s[i])>> ELSE <<>>
  OBVIOUS
<1>7. ss \in Seq(Seq(Request)) /\ Len(ss) = Len(s)
  <2>1. \A i \in 1..Len(s) : RequestOf(c, s[i]) \in Request
    BY <1>3, <1>5
  <2> HIDE DEF Request
  <2>2. \A i \in 1..Len(s) : ss[i] \in Seq(Request)
    BY <2>1
  <2> QED BY <1>5, <2>2
<1>8. \A d \in Dmas : v[d] = RequestOf(c, d)
  OBVIOUS
<1> HIDE DEF ss, v
<1>9. isPassed(ss, s, G, v)
  <2> HIDE DEF Dmas
  <2> QED BY <1>5, <1>6, <1>7, <1>8 DEF isPassed, CopiesOut
<1>10. FlattenSeq(ss) \in Seq(Request) /\ ToSet(FlattenSeq(ss)) = PassedSet(s, G, v)
  <2> HIDE DEF G, Request, Dmas
  <2> QED BY <1>2, <1>7, <1>9, Passed
<1>11. PassedSet(s, G, v) = {RequestOf(c, d) : d \in G}
  <2>1. ToSet(s) \cap G = G /\ G \subseteq Dmas
    BY <1>2 DEF CopiesOut
  <2> HIDE DEF G, Dmas, ToSet
  <2> QED BY <1>8, <2>1 DEF PassedSet
<1> QED BY <1>4, <1>10, <1>11

\* The requests of a partition.
LEMMA RequestsAre ==
  ASSUME NEW q, Ready(q), NEW dir
  PROVE  /\ Requests(CoresIn(q), dir) \in Seq(Request)
         /\ ToSet(Requests(CoresIn(q), dir)) =
              UNION {{RequestOf(c, d) : d \in CopiesOut(c.body, dir)} : c \in CoreSet(q)}
<1> DEFINE cs == CoresIn(q)
           ss == [i \in 1..Len(cs) |-> CoreRequests(cs[i], dir)]
           R(c) == {RequestOf(c, d) : d \in CopiesOut(c.body, dir)}
<1>1. cs \in Seq(CoreSet(q)) /\ ToSet(cs) = CoreSet(q)
  BY CoresAre
<1>2. Requests(cs, dir) = FlattenSeq(ss)
  BY DEF Requests, Concat, Where, CoreRequests, RequestOf
<1> HIDE DEF cs, R, CoreRequests
<1>3. Len(cs) \in Nat /\ \A i \in 1..Len(cs) : cs[i] \in CoreSet(q)
  BY <1>1, LenProperties, ElementOfSeq
<1>4. ASSUME NEW i \in 1..Len(cs)
      PROVE  CoreRequests(cs[i], dir) \in Seq(Request) /\ ToSet(CoreRequests(cs[i], dir)) = R(cs[i])
  <2> DEFINE c == cs[i]
  <2>1. c \in CoreSet(q)
    BY <1>3
  <2> HIDE DEF c
  <2>2. CoreRequests(c, dir) \in Seq(Request) /\ ToSet(CoreRequests(c, dir)) = R(c)
    BY <2>1, RequestsOfCore DEF R
  <2> QED BY <2>2 DEF c
<1>5. ss \in Seq(Seq(Request)) /\ Len(ss) = Len(cs) /\ \A i \in 1..Len(cs) : ss[i] = CoreRequests(cs[i], dir)
  <2> HIDE DEF Request
  <2> QED BY <1>3, <1>4
<1> HIDE DEF ss
<1>6. FlattenSeq(ss) \in Seq(Request) /\ ToSet(FlattenSeq(ss)) = UNION {ToSet(ss[i]) : i \in 1..Len(ss)}
  BY <1>5, FlattenElements
<1>7. ToSet(cs) = {cs[i] : i \in 1..Len(cs)}
  BY <1>1, Elements
<1> HIDE DEF ToSet, CoreSet
<1>8. UNION {ToSet(ss[i]) : i \in 1..Len(ss)} = UNION {R(c) : c \in CoreSet(q)}
  <2>1. \A x : (\E i \in 1..Len(ss) : x \in ToSet(ss[i])) <=> \E c \in CoreSet(q) : x \in R(c)
    BY <1>1, <1>4, <1>5, <1>7
  <2> QED BY ONLY <2>1
<1> QED BY <1>2, <1>6, <1>8 DEF cs, R

\* A request is for some copy of some core.
LEMMA RequestFrom ==
  ASSUME NEW q, Ready(q), NEW dir, NEW i \in 1..Len(Requests(CoresIn(q), dir))
  PROVE  \E c \in CoreSet(q) : \E d \in CopiesOut(c.body, dir) : Requests(CoresIn(q), dir)[i] = RequestOf(c, d)
<1> DEFINE R == Requests(CoresIn(q), dir)
           Q(c) == {RequestOf(c, d) : d \in CopiesOut(c.body, dir)}
           r == R[i]
<1>1. R \in Seq(Request) /\ ToSet(R) = UNION {Q(c) : c \in CoreSet(q)}
  BY RequestsAre
<1>2. ToSet(R) = {R[j] : j \in 1..Len(R)}
  BY <1>1, Elements
<1>3. r \in ToSet(R)
  BY <1>2
<1> HIDE DEF r, R, Q, CoreSet, ToSet
<1>4. PICK c \in CoreSet(q) : r \in Q(c)
  BY <1>1, <1>3
<1>5. PICK d \in CopiesOut(c.body, dir) : r = RequestOf(c, d)
  BY <1>4 DEF Q
<1> QED BY <1>5 DEF r, R

\* The requests of one tile come from one core.
LEMMA OneChannelHolds ==
  ASSUME NEW q, Ready(q), NEW dir
  PROVE  OneChannel(Requests(CoresIn(q), dir))
<1> DEFINE R == Requests(CoresIn(q), dir)
<1>1. R \in Seq(Request) /\ ToSet(R) = UNION {{RequestOf(c, d) : d \in CopiesOut(c.body, dir)} : c \in CoreSet(q)}
  BY RequestsAre
<1>2. ToSet(R) = {R[i] : i \in 1..Len(R)}
  BY <1>1, Elements
<1> HIDE DEF R, CoreSet, CopiesOut, ToSet, Request, RequestOf
<1>3. ASSUME NEW m \in 1..Len(R), NEW n \in 1..Len(R), R[m].tile = R[n].tile, R[m].id = R[n].id
      PROVE  R[m].chan = R[n].chan
  <2>1. PICK c \in CoreSet(q) : \E d \in CopiesOut(c.body, dir) : R[m] = RequestOf(c, d)
    BY RequestFrom DEF R
  <2>2. PICK d \in CopiesOut(c.body, dir) : R[m] = RequestOf(c, d)
    BY <2>1
  <2>3. PICK b \in CoreSet(q) : \E e \in CopiesOut(b.body, dir) : R[n] = RequestOf(b, e)
    BY RequestFrom DEF R
  <2>4. PICK e \in CopiesOut(b.body, dir) : R[n] = RequestOf(b, e)
    BY <2>3
  <2>5. c.tile = b.tile /\ d.id = e.id
    BY <1>3, <2>2, <2>4 DEF RequestOf
  <2>6. c = b
    BY <2>5, CoresApart
  <2>7. d.dir = e.dir
    BY DEF CopiesOut
  <2>8. getTileDMAChannel(getAIRDmaMemcpyInBlock(c.body), d) = getTileDMAChannel(getAIRDmaMemcpyInBlock(c.body), e)
    BY <2>5, <2>7 DEF getTileDMAChannel
  <2> QED BY <2>2, <2>4, <2>6, <2>8 DEF RequestOf
<1> QED BY <1>3 DEF OneChannel, R

Allocs(q, dir) == Allocated(CoresIn(q), dir)
ChannelIn(c, d) == getTileDMAChannel(getAIRDmaMemcpyInBlock(c.body), d)

\* The allocations of a partition: what they are for, and that they are there
\* for every copy.
LEMMA AllocsAre ==
  ASSUME NEW q, Ready(q), NEW dir
  PROVE  /\ Allocs(q, dir) \in Seq(Allocation)
         /\ \A n \in 1..Len(Allocs(q, dir)) : \A id \in Allocs(q, dir)[n].ids :
              \E c \in CoreSet(q) : \E d \in CopiesOut(c.body, dir) :
                /\ Allocs(q, dir)[n].tile = c.tile /\ d.id = id /\ Allocs(q, dir)[n].chan = ChannelIn(c, d)
         /\ \A m, n \in 1..Len(Allocs(q, dir)) :
              Allocs(q, dir)[m].tile = Allocs(q, dir)[n].tile /\ Allocs(q, dir)[m].chan = Allocs(q, dir)[n].chan => m = n
         /\ \A c \in CoreSet(q) : \A d \in CopiesOut(c.body, dir) : \E n \in 1..Len(Allocs(q, dir)) :
              /\ Allocs(q, dir)[n].tile = c.tile /\ d.id \in Allocs(q, dir)[n].ids
              /\ Allocs(q, dir)[n].chan = ChannelIn(c, d)
<1> DEFINE A == Allocs(q, dir)
           R == Requests(CoresIn(q), dir)
<1>1. R \in Seq(Request) /\ ToSet(R) = UNION {{RequestOf(c, d) : d \in CopiesOut(c.body, dir)} : c \in CoreSet(q)}
  BY RequestsAre
<1>2. ToSet(R) = {R[i] : i \in 1..Len(R)}
  BY <1>1, Elements
<1>3. Allocates(A, R, Len(R))
  BY <1>1, OneChannelHolds, AllocatedIs DEF Allocs
<1> HIDE DEF A, R, CoreSet, CopiesOut, ToSet, Request
<1>4. \A c, d : RequestOf(c, d).tile = c.tile /\ RequestOf(c, d).id = d.id /\ RequestOf(c, d).chan = ChannelIn(c, d)
  BY DEF RequestOf, ChannelIn
<1> HIDE DEF RequestOf
<1>5. ASSUME NEW n \in 1..Len(A), NEW id \in A[n].ids
      PROVE  \E c \in CoreSet(q) : \E d \in CopiesOut(c.body, dir) :
               A[n].tile = c.tile /\ d.id = id /\ A[n].chan = ChannelIn(c, d)
  <2>1. PICK m \in 1..Len(R) : Justified(R[m], A[n], id)
    BY <1>3, <1>5 DEF Allocates
  <2>2. PICK c \in CoreSet(q) : \E d \in CopiesOut(c.body, dir) : R[m] = RequestOf(c, d)
    BY RequestFrom DEF R
  <2>3. PICK d \in CopiesOut(c.body, dir) : R[m] = RequestOf(c, d)
    BY <2>2
  <2>4. A[n].tile = c.tile /\ d.id = id /\ A[n].chan = ChannelIn(c, d)
    BY <1>4, <2>1, <2>3 DEF Justified
  <2> QED BY <2>4
<1>6. ASSUME NEW c \in CoreSet(q), NEW d \in CopiesOut(c.body, dir)
      PROVE  \E n \in 1..Len(A) : A[n].tile = c.tile /\ d.id \in A[n].ids /\ A[n].chan = ChannelIn(c, d)
  <2>1. RequestOf(c, d) \in ToSet(R)
    BY <1>1
  <2>2. PICK m \in 1..Len(R) : R[m] = RequestOf(c, d)
    BY <1>2, <2>1
  <2>3. PICK n \in 1..Len(A) : Covers(n, A, R[m])
    BY <1>3 DEF Allocates
  <2>4. A[n].tile = c.tile /\ d.id \in A[n].ids /\ A[n].chan = ChannelIn(c, d)
    BY <1>4, <2>2, <2>3 DEF Covers
  <2> QED BY <2>4
<1>7. A \in Seq(Allocation)
  BY <1>3 DEF Allocates
<1>8. \A m, n \in 1..Len(A) : A[m].tile = A[n].tile /\ A[m].chan = A[n].chan => m = n
  BY <1>3 DEF Allocates
<1> QED BY <1>5, <1>6, <1>7, <1>8 DEF A

\* Every allocation has a shim channel of its own, as long as there are any.
LEMMA ShimsApart ==
  ASSUME NEW m \in 1..Len(shim_dma_cols) * shim_dma_channels,
         NEW n \in 1..Len(shim_dma_cols) * shim_dma_channels, ShimOf(m) = ShimOf(n)
  PROVE  m = n
<1>1. Len(shim_dma_cols) = 16 /\ shim_dma_channels = 2
  BY DEF shim_dma_cols, shim_dma_channels
<1>2. \A i, j \in 1..16 : shim_dma_cols[i] = shim_dma_cols[j] => i = j
  BY DEF shim_dma_cols
<1> HIDE DEF shim_dma_cols
<1>3. m \in 1..32 /\ n \in 1..32
  BY <1>1
<1>4. ((m - 1) \div 2) + 1 \in 1..16 /\ ((n - 1) \div 2) + 1 \in 1..16
  BY <1>3
<1>5. /\ shim_dma_cols[((m - 1) \div 2) + 1] = shim_dma_cols[((n - 1) \div 2) + 1]
      /\ (m - 1) % 2 = (n - 1) % 2
  BY <1>1 DEF ShimOf
<1>6. ((m - 1) \div 2) + 1 = ((n - 1) \div 2) + 1
  BY ONLY <1>2, <1>4, <1>5, Zenon
<1> QED BY ONLY <1>3, <1>5, <1>6

\* The channels of a shim DMA.
LEMMA ShimChannel ==
  ASSUME NEW n \in Nat \ {0}
  PROVE  ShimOf(n)[2] \in {0, 1} /\ ShimOf(n) = <<ShimOf(n)[1], ShimOf(n)[2]>>
BY DEF ShimOf, shim_dma_channels

-----------------------------------------------------------------------------
(* Buffer descriptors.                                                     *)

Entries == [id : Nat, buf : Buffers, dir : {"in", "out"}, chan : {0, 1}]
Entry(d, x) == [id |-> d.id, buf |-> d.buf, dir |-> x[1], chan |-> x[2]]
Channels == <<<<"in", 0>>, <<"in", 1>>, <<"out", 0>>, <<"out", 1>>>>

\* The copies of a core on one channel.
OnChannel(c, x) ==
  FlattenSeq([i \in 1..Len(getAIRDmaMemcpyInBlock(c.body)) |->
    IF <<getAIRDmaMemcpyInBlock(c.body)[i].dir, ChannelIn(c, getAIRDmaMemcpyInBlock(c.body)[i])>> = x
      THEN <<Entry(getAIRDmaMemcpyInBlock(c.body)[i], x)>> ELSE <<>>])

\* Each copy is on its channel.
LEMMA OnItsChannel ==
  ASSUME NEW c, c.body \in Blocks, NEW x \in {"in", "out"} \X {0, 1}
  PROVE  /\ OnChannel(c, x) \in Seq(Entries)
         /\ \A d \in OpsIn(c.body, "dma") : <<d.dir, ChannelIn(c, d)>> = x => Entry(d, x) \in ToSet(OnChannel(c, x))
<1> HIDE DEF Blocks, Nest, OpsIn
<1> DEFINE s == getAIRDmaMemcpyInBlock(c.body)
           on(d) == <<d.dir, ChannelIn(c, d)>> = x
           G == {d \in Dmas : on(d)}
           v == [d \in Dmas |-> Entry(d, x)]
           ss == [i \in 1..Len(s) |-> IF on(s[i]) THEN <<Entry(s[i], x)>> ELSE <<>>]
<1>1. s \in Seq(Dmas) /\ ToSet(s) = OpsIn(c.body, "dma") /\ OpsIn(c.body, "dma") \subseteq Dmas
  BY DmasIn
<1>2. \A d \in Dmas : Entry(d, x) \in Entries
  BY DEF Dmas, Entry, Entries
<1>3. OnChannel(c, x) = FlattenSeq(ss)
  BY DEF OnChannel
<1> HIDE DEF s, on, Entry
<1>4. Len(s) \in Nat /\ \A i \in 1..Len(s) : s[i] \in Dmas
  BY <1>1, LenProperties, ElementOfSeq
<1>5. ss \in Seq(Seq(Entries)) /\ Len(ss) = Len(s) /\
      \A i \in 1..Len(s) : ss[i] = IF on(s[i]) THEN <<Entry(s[i], x)>> ELSE <<>>
  <2> HIDE DEF Entries, Dmas
  <2>1. \A i \in 1..Len(s) : Entry(s[i], x) \in Entries
    BY <1>2, <1>4
  <2>2. \A i \in 1..Len(s) : ss[i] \in Seq(Entries)
    BY <2>1
  <2> QED BY <1>4, <2>2
<1>6. \A d \in Dmas : v[d] = Entry(d, x)
  OBVIOUS
<1> HIDE DEF ss, v
<1>7. isPassed(ss, s, G, v)
  <2> HIDE DEF Dmas
  <2> QED BY <1>4, <1>5, <1>6 DEF isPassed
<1>8. FlattenSeq(ss) \in Seq(Entries) /\ ToSet(FlattenSeq(ss)) = PassedSet(s, G, v)
  <2> HIDE DEF G, Entries, Dmas
  <2> QED BY <1>1, <1>5, <1>7, Passed
<1>9. ASSUME NEW d \in OpsIn(c.body, "dma"), on(d) PROVE Entry(d, x) \in PassedSet(s, G, v)
  <2>1. d \in ToSet(s) \cap G /\ v[d] = Entry(d, x)
    <3> HIDE DEF ToSet, Dmas
    <3> QED BY <1>1, <1>6, <1>9
  <2> HIDE DEF G, ToSet
  <2> QED BY <2>1 DEF PassedSet
<1> QED BY <1>3, <1>8, <1>9 DEF on

\* The schedule of a core has all its copies.
LEMMA Scheduled ==
  ASSUME NEW c, c.body \in Blocks
  PROVE  /\ Schedule(c) \in Seq(Entries)
         /\ \A d \in OpsIn(c.body, "dma") : Entry(d, <<d.dir, ChannelIn(c, d)>>) \in ToSet(Schedule(c))
<1> HIDE DEF Blocks, Nest, OpsIn
<1> DEFINE ss == [i \in 1..Len(Channels) |-> OnChannel(c, Channels[i])]
<1>1. Schedule(c) = FlattenSeq(ss)
  BY DEF Schedule, Concat, Where, OnChannel, ChannelIn, Entry, Channels
<1>2. Len(Channels) = 4 /\ \A i \in 1..4 : Channels[i] \in {"in", "out"} \X {0, 1}
  BY DEF Channels
<1>3. \A x \in {"in", "out"} \X {0, 1} : \E i \in 1..4 : Channels[i] = x
  <2>1. /\ Channels[1] = <<"in", 0>> /\ Channels[2] = <<"in", 1>>
        /\ Channels[3] = <<"out", 0>> /\ Channels[4] = <<"out", 1>>
    BY DEF Channels
  <2> HIDE DEF Channels
  <2> QED BY <2>1
<1> HIDE DEF Channels, OnChannel, Entry
<1>4. ss \in Seq(Seq(Entries)) /\ Len(ss) = 4 /\ \A i \in 1..4 : ss[i] = OnChannel(c, Channels[i])
  <2>1. \A i \in 1..4 : OnChannel(c, Channels[i]) \in Seq(Entries)
    BY <1>2, OnItsChannel
  <2> HIDE DEF Entries
  <2> QED BY <1>2, <2>1
<1> HIDE DEF ss
<1>5. FlattenSeq(ss) \in Seq(Entries) /\ ToSet(FlattenSeq(ss)) = UNION {ToSet(ss[i]) : i \in 1..Len(ss)}
  BY <1>4, FlattenElements
<1>6. ASSUME NEW d \in OpsIn(c.body, "dma")
      PROVE  Entry(d, <<d.dir, ChannelIn(c, d)>>) \in ToSet(Schedule(c))
  <2> DEFINE x == <<d.dir, ChannelIn(c, d)>>
  <2>1. x \in {"in", "out"} \X {0, 1}
    <3>1. d.dir \in {"in", "out"}
      BY DmasIn DEF Dmas
    <3>2. ChannelIn(c, d) \in {0, 1}
      BY ChannelOf DEF ChannelIn
    <3> QED BY <3>1, <3>2
  <2>2. PICK i \in 1..4 : Channels[i] = x
    BY <1>3, <2>1
  <2>3. Entry(d, x) \in ToSet(OnChannel(c, x))
    BY <2>1, OnItsChannel
  <2> HIDE DEF x, ToSet
  <2>4. Entry(d, x) \in ToSet(ss[i]) /\ i \in 1..Len(ss)
    BY <1>4, <2>2, <2>3
  <2>5. Entry(d, x) \in ToSet(Schedule(c))
    BY <1>1, <1>5, <2>4
  <2> QED BY <2>5 DEF x
<1> QED BY <1>1, <1>5, <1>6

\* The descriptors of a channel have the ids that are scheduled on it.
LEMMA Described ==
  ASSUME NEW sched \in Seq(Entries), NEW e \in ToSet(sched)
  PROVE  \E i \in 1..Len(Descriptors(sched, e.dir, e.chan)) : Descriptors(sched, e.dir, e.chan)[i].id = e.id
<1> DEFINE D(x) == [id |-> x.id, buf |-> x.buf, lock |-> LockFor(sched, x),
                    acquires |-> 1 - coreAcquires(e.dir), releases |-> 1 - coreReleases(e.dir)]
           on(x) == x.dir = e.dir /\ x.chan = e.chan
           G == {x \in Entries : on(x)}
           v == [x \in Entries |-> D(x)]
           T == {v[x] : x \in Entries}
           ss == [i \in 1..Len(sched) |-> IF on(sched[i]) THEN <<D(sched[i])>> ELSE <<>>]
           ds == Descriptors(sched, e.dir, e.chan)
<1>1. ds = FlattenSeq(ss)
  BY DEF Descriptors, Where, Concat
<1>2. \A x : D(x).id = x.id
  OBVIOUS
<1> HIDE DEF D, ds
<1>3. Len(sched) \in Nat /\ \A i \in 1..Len(sched) : sched[i] \in Entries
  BY LenProperties, ElementOfSeq
<1>4. \A x \in Entries : v[x] = D(x) /\ D(x) \in T
  OBVIOUS
<1> HIDE DEF v, T
<1>5. ss \in Seq(Seq(T)) /\ Len(ss) = Len(sched) /\
      \A i \in 1..Len(sched) : ss[i] = IF on(sched[i]) THEN <<D(sched[i])>> ELSE <<>>
  <2> HIDE DEF Entries, on
  <2>1. \A i \in 1..Len(sched) : D(sched[i]) \in T
    BY <1>3, <1>4
  <2>2. \A i \in 1..Len(sched) : ss[i] \in Seq(T)
    BY <2>1
  <2> QED BY <1>3, <2>2
<1> HIDE DEF ss
<1>6. isPassed(ss, sched, G, v)
  <2> HIDE DEF Entries, on
  <2> QED BY <1>3, <1>4, <1>5 DEF isPassed
<1>7. FlattenSeq(ss) \in Seq(T) /\ ToSet(FlattenSeq(ss)) = PassedSet(sched, G, v)
  <2> HIDE DEF G, Entries
  <2> QED BY <1>5, <1>6, Passed
<1>8. e \in Entries /\ e \in G
  BY Elements
<1>9. D(e) \in ToSet(ds)
  <2>1. e \in ToSet(sched) \cap G /\ v[e] = D(e)
    <3> HIDE DEF ToSet, Entries, G
    <3> QED BY <1>4, <1>8
  <2> HIDE DEF G, ToSet
  <2>2. D(e) \in PassedSet(sched, G, v)
    BY <2>1 DEF PassedSet
  <2> QED BY <1>1, <1>7, <2>2
<1>10. PICK i \in 1..Len(ds) : ds[i] = D(e)
  <2>0. ds \in Seq(T)
    BY <1>1, <1>7
  <2>1. ToSet(ds) = {ds[i] : i \in 1..Len(ds)}
    BY <2>0, Elements
  <2> HIDE DEF ToSet
  <2> QED BY <1>9, <2>1
<1> QED BY <1>2, <1>10 DEF ds

-----------------------------------------------------------------------------
(* Flows.                                                                  *)

Flow(q, dir, n) ==
  [dir |-> dir, shim |-> ShimOf(n), tile |-> Allocs(q, dir)[n].tile, chan |-> Allocs(q, dir)[n].chan]
FlowsIn(q) == Compiled(P(q).herds, Offsets(q)).flows

\* The flows of a partition are those of its allocations.
LEMMA FlowsAre ==
  ASSUME NEW q
  PROVE  /\ \A f \in FlowsIn(q) : \E dir \in {"in", "out"} : \E n \in 1..Len(Allocs(q, dir)) : f = Flow(q, dir, n)
         /\ \A dir \in {"in", "out"} : \A n \in 1..Len(Allocs(q, dir)) : Flow(q, dir, n) \in FlowsIn(q)
<1> DEFINE F(dir) == {Flow(q, dir, n) : n \in 1..Len(Allocs(q, dir))}
<1>1. FlowsIn(q) = F("in") \cup F("out")
  BY DEF FlowsIn, Compiled, FlowsOf, Flow, Allocs, CoresIn
<1> HIDE DEF Flow
<1> QED BY <1>1

\* An allocation of a partition has a shim channel of its own.
LEMMA AllocsFit ==
  ASSUME NEW q, Ready(q), NEW dir \in {"in", "out"}
  PROVE  /\ Len(Allocs(q, dir)) \in Nat
         /\ 1..Len(Allocs(q, dir)) \subseteq 1..Len(shim_dma_cols) * shim_dma_channels
<1>1. Len(Allocs(q, dir)) <= Len(shim_dma_cols) * shim_dma_channels
  BY DEF Ready, Regular, ShimsSuffice, Allocs, CoresIn
<1>2. Allocs(q, dir) \in Seq(Allocation)
  BY AllocsAre
<1>3. Len(Allocs(q, dir)) \in Nat
  BY <1>2, LenProperties
<1>4. Len(shim_dma_cols) * shim_dma_channels \in Nat
  BY DEF shim_dma_cols, shim_dma_channels
<1> QED BY <1>1, <1>3, <1>4

\* Two flows of one direction share neither shim channel nor tile channel.
LEMMA FlowsApart ==
  ASSUME NEW q, Ready(q), NEW f \in FlowsIn(q), NEW g \in FlowsIn(q), f.dir = g.dir, f # g
  PROVE  f.shim # g.shim /\ <<f.tile, f.chan>> # <<g.tile, g.chan>>
<1>1. PICK dir \in {"in", "out"} : \E n \in 1..Len(Allocs(q, dir)) : f = Flow(q, dir, n)
  BY FlowsAre
<1>2. PICK m \in 1..Len(Allocs(q, dir)) : f = Flow(q, dir, m)
  BY <1>1
<1>3. PICK gdir \in {"in", "out"} : \E n \in 1..Len(Allocs(q, gdir)) : g = Flow(q, gdir, n)
  BY FlowsAre
<1>4. PICK n \in 1..Len(Allocs(q, gdir)) : g = Flow(q, gdir, n)
  BY <1>3
<1>5. \A e \in {"in", "out"} : \A i :
        /\ Flow(q, e, i).dir = e /\ Flow(q, e, i).shim = ShimOf(i)
        /\ Flow(q, e, i).tile = Allocs(q, e)[i].tile /\ Flow(q, e, i).chan = Allocs(q, e)[i].chan
  BY DEF Flow
<1> HIDE DEF Flow
<1>6. gdir = dir
  BY <1>2, <1>4, <1>5
<1>7. m # n
  BY <1>2, <1>4, <1>6
<1>8. /\ m \in 1..Len(shim_dma_cols) * shim_dma_channels
      /\ n \in 1..Len(shim_dma_cols) * shim_dma_channels
  BY <1>6, AllocsFit
<1>9. ShimOf(m) # ShimOf(n)
  BY <1>7, <1>8, ShimsApart
<1>10. ~(Allocs(q, dir)[m].tile = Allocs(q, dir)[n].tile /\ Allocs(q, dir)[m].chan = Allocs(q, dir)[n].chan)
  BY <1>6, <1>7, AllocsAre
<1> QED BY <1>2, <1>4, <1>5, <1>6, <1>9, <1>10

-----------------------------------------------------------------------------
(* What the host finds in the tables.                                      *)

MetaOf(q, k, dir, first, n, id) ==
  [id |-> id, row |-> Allocs(q, dir)[n].tile[1] - Offsets(q)[k][1], col |-> Allocs(q, dir)[n].tile[2] - Offsets(q)[k][2],
   location |-> ShimOf(n)[1], channel |-> ShimOf(n)[2] + first]
FirstChannel(dir) == IF dir = "in" THEN shim_dma_channels ELSE 0
MetadataIn(q, k) == Compiled(P(q).herds, Offsets(q)).metadata[k]

\* The metadata of a herd: its ids in the allocations.
LEMMA MetadataAre ==
  ASSUME NEW q, NEW k \in Numbers(q)
  PROVE  /\ \A m \in MetadataIn(q, k) : \E dir \in {"in", "out"} : \E n \in 1..Len(Allocs(q, dir)) :
              \E id \in Allocs(q, dir)[n].ids : m = MetaOf(q, k, dir, FirstChannel(dir), n, id)
         /\ \A dir \in {"in", "out"} : \A n \in 1..Len(Allocs(q, dir)) :
              \A id \in Allocs(q, dir)[n].ids \cap IdsIn(Herd(q, k).body) :
                MetaOf(q, k, dir, FirstChannel(dir), n, id) \in MetadataIn(q, k)
<1> DEFINE ids == IdsIn(Herd(q, k).body)
           R(dir) == {s \in (1..Len(Allocs(q, dir))) \X ids : s[2] \in Allocs(q, dir)[s[1]].ids}
           M(dir, first) == {MetaOf(q, k, dir, first, r[1], r[2]) : r \in R(dir)}
<1>1. MetadataIn(q, k) = M("out", 0) \cup M("in", shim_dma_channels)
  <2>1. MetadataIn(q, k) = HerdMetadata(P(q).herds[k], Offsets(q)[k], Allocs(q, "in"), Allocs(q, "out"))
    BY DEF MetadataIn, Compiled, Allocs, CoresIn, Numbers
  <2> QED BY <2>1 DEF HerdMetadata, MetadataOf, MetaOf, Herd
<1>2. FirstChannel("out") = 0 /\ FirstChannel("in") = shim_dma_channels
  BY DEF FirstChannel
<1> HIDE DEF MetaOf
<1>3. ASSUME NEW dir, NEW first, NEW m \in M(dir, first)
      PROVE  \E n \in 1..Len(Allocs(q, dir)) : \E id \in Allocs(q, dir)[n].ids : m = MetaOf(q, k, dir, first, n, id)
  <2>1. PICK r \in R(dir) : m = MetaOf(q, k, dir, first, r[1], r[2])
    BY <1>3
  <2> QED BY <2>1
<1>4. ASSUME NEW dir, NEW first, NEW n \in 1..Len(Allocs(q, dir)), NEW id \in Allocs(q, dir)[n].ids \cap ids
      PROVE  MetaOf(q, k, dir, first, n, id) \in M(dir, first)
  <2>1. <<n, id>> \in R(dir)
    BY <1>4
  <2> HIDE DEF R
  <2> QED BY <2>1
<1> HIDE DEF M, ids
<1>5. ASSUME NEW m \in MetadataIn(q, k)
      PROVE  \E dir \in {"in", "out"} : \E n \in 1..Len(Allocs(q, dir)) :
               \E id \in Allocs(q, dir)[n].ids : m = MetaOf(q, k, dir, FirstChannel(dir), n, id)
  BY <1>1, <1>2, <1>3
<1>6. ASSUME NEW dir \in {"in", "out"}, NEW n \in 1..Len(Allocs(q, dir)), NEW id \in Allocs(q, dir)[n].ids \cap ids
      PROVE  MetaOf(q, k, dir, FirstChannel(dir), n, id) \in MetadataIn(q, k)
  BY <1>1, <1>2, <1>4, <1>6
<1> QED BY <1>5, <1>6 DEF ids

\* An allocation for an id at the tile of a copy of that id is the copy's.
LEMMA OneAllocation ==
  ASSUME NEW q, Ready(q), NEW k \in Numbers(q), NEW xy \in TileIds(Herd(q, k)),
         NEW d \in OpsIn(Code(q, k, xy), "dma"), NEW dir \in {"in", "out"},
         NEW n \in 1..Len(Allocs(q, dir)), d.id \in Allocs(q, dir)[n].ids,
         Allocs(q, dir)[n].tile = TileOf(q, k, xy)
  PROVE  dir = d.dir /\ Allocs(q, dir)[n].chan = ChannelIn(CoreAt(q, k, xy), d)
<1> DEFINE a == Allocs(q, dir)[n]
<1>1. PICK c \in CoreSet(q) : \E e \in CopiesOut(c.body, dir) :
        a.tile = c.tile /\ e.id = d.id /\ a.chan = ChannelIn(c, e)
  BY AllocsAre
<1>2. PICK e \in CopiesOut(c.body, dir) : a.tile = c.tile /\ e.id = d.id /\ a.chan = ChannelIn(c, e)
  BY <1>1
<1>3. CoreAt(q, k, xy) \in CoreSet(q) /\ CoreAt(q, k, xy).body = Code(q, k, xy) /\
      OpsIn(Code(q, k, xy), "dma") \subseteq OpsIn(Herd(q, k).body, "dma")
  BY CoreBody
<1>4. CoreAt(q, k, xy).tile = TileOf(q, k, xy)
  BY DEF CoreAt
<1>5. c = CoreAt(q, k, xy)
  <2>1. c.tile = CoreAt(q, k, xy).tile
    BY <1>2, <1>4
  <2> HIDE DEF a
  <2> QED BY <1>3, <2>1, CoresApart
<1>6. e \in OpsIn(Herd(q, k).body, "dma") /\ e.dir = dir
  BY <1>2, <1>3, <1>5 DEF CopiesOut
<1>7. d \in OpsIn(Herd(q, k).body, "dma")
  BY <1>3
<1>8. e.dir = d.dir
  <2>1. \A x, y \in OpsIn(Herd(q, k).body, "dma") : x.id = y.id => x.dir = y.dir
    BY DEF Ready, Regular, IdsApart
  <2> QED BY <1>2, <1>6, <1>7, <2>1
<1>9. ChannelIn(c, e) = ChannelIn(c, d)
  BY <1>2, <1>8 DEF ChannelIn, getTileDMAChannel
<1> QED BY <1>2, <1>5, <1>6, <1>8, <1>9

\* The place of a tile in its herd is where it is from the herd's corner.
LEMMA TileAt ==
  ASSUME NEW q, Ready(q), NEW k \in Numbers(q), NEW xy \in TileIds(Herd(q, k)), NEW t \in Int \X Int
  PROVE  t = TileOf(q, k, xy) <=> t[1] - Offsets(q)[k][1] = xy[2] /\ t[2] - Offsets(q)[k][2] = xy[1]
<1>1. Offsets(q)[k] = offset[<<q, k>>] /\ offset[<<q, k>>] \in Int \X Int
  BY ReadyHerd DEF Offsets
<1>2. xy[1] \in Int /\ xy[2] \in Int
  <2>1. Herd(q, k).rows \in Nat /\ Herd(q, k).cols \in Nat
    BY ReadyHerd
  <2> QED BY <2>1 DEF TileIds
<1> DEFINE o == offset[<<q, k>>]
<1>3. o[1] \in Int /\ o[2] \in Int /\ TileOf(q, k, xy) = <<o[1] + xy[2], o[2] + xy[1]>>
  BY <1>1 DEF TileOf
<1>4. t = <<t[1], t[2]>> /\ t[1] \in Int /\ t[2] \in Int
  OBVIOUS
<1> HIDE DEF o
<1>5. t = TileOf(q, k, xy) <=> t[1] = o[1] + xy[2] /\ t[2] = o[2] + xy[1]
  BY <1>3, <1>4
<1> QED BY <1>1, <1>2, <1>3, <1>4, <1>5 DEF o

\* What the host finds for an id of a tile is the shim channel of the one
\* allocation that stands for the copy.
LEMMA HostFinds ==
  ASSUME NEW q, Ready(q), NEW k \in Numbers(q), NEW xy \in TileIds(Herd(q, k)),
         NEW d \in OpsIn(Code(q, k, xy), "dma")
  PROVE  \E n \in 1..Len(Allocs(q, d.dir)) :
           /\ Allocs(q, d.dir)[n].tile = TileOf(q, k, xy)
           /\ Allocs(q, d.dir)[n].chan = ChannelIn(CoreAt(q, k, xy), d)
           /\ shimRequest(MetadataIn(q, k), d.id, copyArgs(xy)) = [dir |-> d.dir, shim |-> ShimOf(n)]
<1>1. /\ CoreAt(q, k, xy) \in CoreSet(q) /\ CoreAt(q, k, xy).body = Code(q, k, xy)
      /\ Code(q, k, xy) \in Blocks /\ OpsIn(Code(q, k, xy), "dma") \subseteq OpsIn(Herd(q, k).body, "dma")
  BY CoreBody
<1>2. d \in CopiesOut(CoreAt(q, k, xy).body, d.dir)
  BY <1>1 DEF CopiesOut
<1>3. d.dir \in {"in", "out"}
  BY <1>1, DmasIn DEF Dmas
<1>4. PICK n \in 1..Len(Allocs(q, d.dir)) :
        /\ Allocs(q, d.dir)[n].tile = CoreAt(q, k, xy).tile /\ d.id \in Allocs(q, d.dir)[n].ids
        /\ Allocs(q, d.dir)[n].chan = ChannelIn(CoreAt(q, k, xy), d)
  BY <1>1, <1>2, AllocsAre
<1>5. CoreAt(q, k, xy).tile = TileOf(q, k, xy)
  BY DEF CoreAt
<1> DEFINE M == MetaOf(q, k, d.dir, FirstChannel(d.dir), n, d.id)
           here == {m \in MetadataIn(q, k) : m.id = d.id /\ m.row = xy[2] /\ m.col = xy[1]}
<1>6. \A dir \in {"in", "out"} : \A i \in 1..Len(Allocs(q, dir)) : Allocs(q, dir)[i].tile \in Int \X Int
  <2> SUFFICES ASSUME NEW dir \in {"in", "out"}, NEW i \in 1..Len(Allocs(q, dir))
               PROVE  Allocs(q, dir)[i].tile \in Int \X Int
    OBVIOUS
  <2>1. Allocs(q, dir) \in Seq(Allocation)
    BY AllocsAre
  <2>2. Allocs(q, dir)[i] \in Allocation
    BY <2>1, ElementOfSeq
  <2> QED BY <2>2 DEF Allocation
<1>7. M \in here
  <2>1. d.id \in IdsIn(Herd(q, k).body)
    BY <1>1 DEF IdsIn
  <2>2. M \in MetadataIn(q, k)
    BY <1>3, <1>4, <2>1, MetadataAre
  <2>3. Allocs(q, d.dir)[n].tile[1] - Offsets(q)[k][1] = xy[2] /\ Allocs(q, d.dir)[n].tile[2] - Offsets(q)[k][2] = xy[1]
    BY <1>3, <1>4, <1>5, <1>6, TileAt
  <2>4. M.id = d.id /\ M.row = xy[2] /\ M.col = xy[1]
    BY <2>3 DEF MetaOf
  <2> HIDE DEF M
  <2> QED BY <2>2, <2>4
<1>8. ASSUME NEW m \in here PROVE m = M
  <2>1. m \in MetadataIn(q, k) /\ m.id = d.id /\ m.row = xy[2] /\ m.col = xy[1]
    OBVIOUS
  <2> HIDE DEF here, M
  <2>2. PICK dir \in {"in", "out"} : \E i \in 1..Len(Allocs(q, dir)) : \E id \in Allocs(q, dir)[i].ids :
          m = MetaOf(q, k, dir, FirstChannel(dir), i, id)
    BY <2>1, MetadataAre
  <2>3. PICK i \in 1..Len(Allocs(q, dir)) : \E id \in Allocs(q, dir)[i].ids :
          m = MetaOf(q, k, dir, FirstChannel(dir), i, id)
    BY <2>2
  <2>4. PICK id \in Allocs(q, dir)[i].ids : m = MetaOf(q, k, dir, FirstChannel(dir), i, id)
    BY <2>3
  <2>5. /\ id = d.id /\ Allocs(q, dir)[i].tile[1] - Offsets(q)[k][1] = xy[2]
        /\ Allocs(q, dir)[i].tile[2] - Offsets(q)[k][2] = xy[1]
    BY <2>1, <2>4 DEF MetaOf
  <2>6. Allocs(q, dir)[i].tile = TileOf(q, k, xy)
    BY <1>6, <2>5, TileAt
  <2>7. dir = d.dir /\ Allocs(q, dir)[i].chan = ChannelIn(CoreAt(q, k, xy), d)
    BY <2>4, <2>5, <2>6, OneAllocation
  <2>8. i = n
    <3>1. i \in 1..Len(Allocs(q, d.dir)) /\ Allocs(q, d.dir)[i].tile = Allocs(q, d.dir)[n].tile /\
          Allocs(q, d.dir)[i].chan = Allocs(q, d.dir)[n].chan
      BY <1>4, <1>5, <2>6, <2>7
    <3> QED BY <3>1, AllocsAre
  <2> QED BY <2>4, <2>5, <2>7, <2>8 DEF M
<1>9. here = {M}
  <2> HIDE DEF here, M
  <2> QED BY <1>7, <1>8
<1>10. shimRequest(MetadataIn(q, k), d.id, copyArgs(xy)) = [dir |-> d.dir, shim |-> ShimOf(n)]
  <2> DEFINE s == shim_data(MetadataIn(q, k), d.id, copyArgs(xy)[1], copyArgs(xy)[2])
  <2>1. here = {m \in MetadataIn(q, k) : m.id = d.id /\ m.row = copyArgs(xy)[1] /\ m.col = copyArgs(xy)[2]}
    BY DEF copyArgs
  <2>2. s = [location |-> M.location, channel |-> M.channel]
    <3>1. s = IF here = {} THEN [location |-> 0, channel |-> 0]
              ELSE LET m == CHOOSE r \in here : TRUE IN [location |-> m.location, channel |-> m.channel]
      BY <2>1 DEF shim_data
    <3> HIDE DEF s, here, M
    <3>2. here # {} /\ (CHOOSE r \in here : TRUE) = M
      BY <1>9
    <3> QED BY <3>1, <3>2
  <2>3. s.location = ShimOf(n)[1] /\ s.channel = ShimOf(n)[2] + FirstChannel(d.dir)
    BY <2>2 DEF MetaOf
  <2>4. shimRequest(MetadataIn(q, k), d.id, copyArgs(xy)) =
          [dir |-> IF s.channel >= 2 THEN "in" ELSE "out",
           shim |-> <<s.location, IF s.channel >= 2 THEN s.channel - 2 ELSE s.channel>>]
    BY DEF shimRequest
  <2> HIDE DEF s
  <2>5. ShimOf(n)[2] \in {0, 1} /\ ShimOf(n) = <<ShimOf(n)[1], ShimOf(n)[2]>>
    <3>1. n \in Nat \ {0}
      BY <1>3, AllocsFit
    <3> QED BY <3>1, ShimChannel
  <2>6. FirstChannel("in") = 2 /\ FirstChannel("out") = 0
    BY DEF FirstChannel, shim_dma_channels
  <2>7. CASE d.dir = "in"
    <3>1. s.channel >= 2 /\ s.channel - 2 = ShimOf(n)[2]
      BY <2>3, <2>5, <2>6, <2>7
    <3> QED BY <2>3, <2>4, <2>5, <2>7, <3>1
  <2>8. CASE d.dir = "out"
    <3>1. ~(s.channel >= 2) /\ s.channel = ShimOf(n)[2]
      BY <2>3, <2>5, <2>6, <2>8
    <3> QED BY <2>3, <2>4, <2>5, <2>8, <3>1
  <2> QED BY <1>3, <2>7, <2>8
<1> QED BY <1>4, <1>5, <1>10

\* The descriptors of a copy's channel have its id.
LEMMA HasDescriptor ==
  ASSUME NEW q, Ready(q), NEW k \in Numbers(q), NEW xy \in TileIds(Herd(q, k)),
         NEW d \in OpsIn(Code(q, k, xy), "dma"), NEW ch,
         ch = <<TileOf(q, k, xy), d.dir, ChannelIn(CoreAt(q, k, xy), d)>>
  PROVE  \E i \in 1..Len(Compiled(P(q).herds, Offsets(q)).bds[ch]) :
           Compiled(P(q).herds, Offsets(q)).bds[ch][i].id = d.id
<1> DEFINE cores == CoresIn(q)
           c == CoreAt(q, k, xy)
           tiles == {cores[i].tile : i \in 1..Len(cores)}
           core(t) == cores[CHOOSE i \in 1..Len(cores) : cores[i].tile = t]
<1>1. c \in CoreSet(q) /\ c.body = Code(q, k, xy) /\ Code(q, k, xy) \in Blocks /\ c.tile = TileOf(q, k, xy)
  BY CoreBody DEF CoreAt
<1>2. d.dir \in {"in", "out"} /\ ChannelIn(c, d) \in {0, 1}
  <2>1. d.dir \in {"in", "out"}
    BY <1>1, DmasIn DEF Dmas
  <2>2. ChannelIn(c, d) \in {0, 1}
    BY <1>1, ChannelOf DEF ChannelIn
  <2> QED BY <2>1, <2>2
<1>3. cores \in Seq(CoreSet(q)) /\ ToSet(cores) = CoreSet(q)
  BY CoresAre
<1>4. Compiled(P(q).herds, Offsets(q)).bds =
        [x \in tiles \X {"in", "out"} \X {0, 1} |-> Descriptors(Schedule(core(x[1])), x[2], x[3])]
  BY DEF Compiled, CoresIn
<1> HIDE DEF c, cores
<1>5. PICK n \in 1..Len(cores) : cores[n] = c
  <2>1. ToSet(cores) = {cores[i] : i \in 1..Len(cores)}
    BY <1>3, Elements
  <2> HIDE DEF ToSet
  <2> QED BY <1>1, <1>3, <2>1
<1>6. c.tile \in tiles
  BY <1>5
<1>7. core(c.tile) = c
  <2> DEFINE j == CHOOSE i \in 1..Len(cores) : cores[i].tile = c.tile
  <2>1. j \in 1..Len(cores) /\ cores[j].tile = c.tile
    BY <1>5
  <2> HIDE DEF j
  <2>2. cores[j] \in CoreSet(q)
    BY <1>3, <2>1, ElementOfSeq
  <2>3. cores[j] = c
    BY <1>1, <2>1, <2>2, CoresApart
  <2> QED BY <2>3 DEF j
<1>8. ch \in tiles \X {"in", "out"} \X {0, 1} /\ ch[1] = c.tile /\ ch[2] = d.dir /\ ch[3] = ChannelIn(c, d)
  BY <1>1, <1>2, <1>6 DEF c
<1> DEFINE e == Entry(d, <<d.dir, ChannelIn(c, d)>>)
<1>9. Compiled(P(q).herds, Offsets(q)).bds[ch] = Descriptors(Schedule(c), e.dir, e.chan)
  <2>1. e.dir = d.dir /\ e.chan = ChannelIn(c, d)
    BY DEF Entry
  <2>2. Compiled(P(q).herds, Offsets(q)).bds[ch] = Descriptors(Schedule(core(ch[1])), ch[2], ch[3])
    <3> HIDE DEF tiles, core
    <3> QED BY <1>4, <1>8
  <2> HIDE DEF e, core
  <2> QED BY <1>7, <1>8, <2>1, <2>2
<1>10. e \in ToSet(Schedule(c)) /\ Schedule(c) \in Seq(Entries)
  BY <1>1, Scheduled
<1>11. e.id = d.id
  BY DEF Entry
<1> HIDE DEF e
<1>12. \E i \in 1..Len(Descriptors(Schedule(c), e.dir, e.chan)) : Descriptors(Schedule(c), e.dir, e.chan)[i].id = e.id
  BY <1>10, Described
<1> QED BY <1>9, <1>11, <1>12

\* In a partition that is compiled as it was placed, flows, descriptors and
\* tables agree.
Agrees(q, A) ==
  /\ \A f, g \in A.flows : f.dir = g.dir /\ f # g =>
       f.shim # g.shim /\ <<f.tile, f.chan>> # <<g.tile, g.chan>>
  /\ \A k \in Numbers(q) : \A xy \in TileIds(Herd(q, k)) :
       \A d \in ToSet(getAIRDmaMemcpyInBlock(Code(q, k, xy))) :
         LET r == shimRequest(A.metadata[k], d.id, copyArgs(xy))
         IN  \E f \in A.flows :
               /\ f.dir = d.dir /\ f.shim = r.shim /\ f.tile = TileOf(q, k, xy)
               /\ \E i \in 1..Len(A.bds[<<f.tile, f.dir, f.chan>>]) :
                    A.bds[<<f.tile, f.dir, f.chan>>][i].id = d.id

\* Flows, descriptors and tables of a partition that is ready agree.
LEMMA CompiledAgrees ==
  ASSUME NEW q, Ready(q)
  PROVE  Agrees(q, Compiled(P(q).herds, Offsets(q)))
<1> DEFINE A == Compiled(P(q).herds, Offsets(q))
<1>1. \A f, g \in A.flows : f.dir = g.dir /\ f # g =>
        f.shim # g.shim /\ <<f.tile, f.chan>> # <<g.tile, g.chan>>
  BY FlowsApart DEF FlowsIn
<1>2. ASSUME NEW k \in Numbers(q), NEW xy \in TileIds(Herd(q, k)),
             NEW d \in ToSet(getAIRDmaMemcpyInBlock(Code(q, k, xy)))
      PROVE  \E f \in A.flows :
               /\ f.dir = d.dir /\ f.shim = shimRequest(A.metadata[k], d.id, copyArgs(xy)).shim
               /\ f.tile = TileOf(q, k, xy)
               /\ \E i \in 1..Len(A.bds[<<f.tile, f.dir, f.chan>>]) :
                    A.bds[<<f.tile, f.dir, f.chan>>][i].id = d.id
  <2>1. Code(q, k, xy) \in Blocks
    BY CoreBody
  <2>2. d \in OpsIn(Code(q, k, xy), "dma") /\ d.dir \in {"in", "out"}
    <3>1. d \in OpsIn(Code(q, k, xy), "dma") /\ OpsIn(Code(q, k, xy), "dma") \subseteq Dmas
      BY <2>1, DmasIn
    <3> QED BY <3>1 DEF Dmas
  <2>3. PICK n \in 1..Len(Allocs(q, d.dir)) :
          /\ Allocs(q, d.dir)[n].tile = TileOf(q, k, xy)
          /\ Allocs(q, d.dir)[n].chan = ChannelIn(CoreAt(q, k, xy), d)
          /\ shimRequest(MetadataIn(q, k), d.id, copyArgs(xy)) = [dir |-> d.dir, shim |-> ShimOf(n)]
    BY <2>2, HostFinds
  <2> DEFINE f == Flow(q, d.dir, n)
  <2>4. /\ f.dir = d.dir /\ f.shim = ShimOf(n) /\ f.tile = TileOf(q, k, xy)
        /\ f.chan = ChannelIn(CoreAt(q, k, xy), d)
    BY <2>3 DEF Flow
  <2>5. f \in A.flows
    BY <2>2, FlowsAre DEF FlowsIn
  <2> HIDE DEF f
  <2>6. shimRequest(A.metadata[k], d.id, copyArgs(xy)).shim = ShimOf(n)
    BY <2>3 DEF MetadataIn
  <2>7. \E i \in 1..Len(A.bds[<<f.tile, f.dir, f.chan>>]) : A.bds[<<f.tile, f.dir, f.chan>>][i].id = d.id
    BY <2>2, <2>4, HasDescriptor
  <2> QED BY <2>4, <2>5, <2>6, <2>7
<1> HIDE DEF A
<1>3. Agrees(q, A)
  BY <1>1, <1>2 DEF Agrees
<1> QED BY <1>3 DEF A

-----------------------------------------------------------------------------
(* A program runs as it was placed and compiled.                           *)

Agreed == \A q \in Parts : Agrees(q, aie[q])
FlowsInv ==
  /\ offset \in [Herds -> Int \X Int]
  /\ regular => Placed /\ Agreed

\* The parts of a herd's number.
LEMMA HerdNumbers ==
  ASSUME NEW h \in Herds
  PROVE  h[1] \in Parts /\ h[2] \in Numbers(h[1])
BY DEF Herds

\* A program starts with the offsets it has.
LEMMA OffsetsAtFirst ==
  ASSUME Init
  PROVE  offset \in [Herds -> Int \X Int]
<1>1. prog \in Modules /\ offset = [h \in Herds |-> Herd(h[1], h[2]).offset]
  BY DEF Init, PlaceInit
<1>2. ASSUME NEW h \in Herds PROVE Herd(h[1], h[2]).offset \in Int \X Int
  <2>1. h[1] \in Parts /\ h[2] \in Numbers(h[1])
    BY HerdNumbers
  <2> DEFINE q == h[1]
             k == h[2]
  <2> HIDE DEF q, k
  <2>2. q \in 1..Len(prog.parts) /\ k \in 1..Len(prog.parts[q].herds)
    BY <2>1 DEF q, k, Parts, Numbers, P
  <2>3. prog.parts[q].herds[k].offset \in Int \X Int
    BY <1>1, <2>2, ModulesAssumption
  <2> QED BY <2>3 DEF q, k, Herd, P
<1> QED BY <1>1, <1>2

\* Herds are those of the program.
LEMMA HerdsSame ==
  ASSUME prog' = prog
  PROVE  /\ Parts' = Parts /\ Herds' = Herds
         /\ \A q : Numbers(q)' = Numbers(q)
         /\ \A q, k : Herd(q, k)' = Herd(q, k)
         /\ \A q, k, xy : Code(q, k, xy)' = Code(q, k, xy)
         /\ \A q, k : TileIds(Herd(q, k))' = TileIds(Herd(q, k))
BY DEF Parts, Herds, Numbers, Herd, P, Code, TileIds

\* air-place-herds gives a herd whole numbers.
LEMMA OffsetsKept ==
  ASSUME PlaceInv, offset \in [Herds -> Int \X Int], [Next]_vars
  PROVE  (offset \in [Herds -> Int \X Int])'
<1>1. prog' = prog
  BY PlaceInvKept
<1>2. Herds' = Herds
  BY <1>1, HerdsSame
<1>3. ASSUME Finish PROVE offset' \in [Herds -> Int \X Int]
  <2>1. part \in Parts /\ prog \in Modules /\ Types
    BY <1>3 DEF Finish, PlaceInv
  <2>2. CASE unplaced = <<>>
    <3> DEFINE mine == {part} \X ToPlace(part)
               moved(h) == <<loc[h[2]][1] + RowAnchor(part), loc[h[2]][2] + ColAnchor(part)>>
    <3>1. offset' = [h \in Herds |-> IF h \in mine THEN moved(h) ELSE offset[h]]
      BY <1>3, <2>2 DEF Finish
    <3>2. ASSUME NEW h \in mine PROVE moved(h) \in Int \X Int
      <4>1. h[2] \in Numbers(part)
        BY DEF ToPlace
      <4>2. loc[h[2]] \in Int \X Int
        BY <2>1, <4>1 DEF Types
      <4>3. RowAnchor(part) \in Int /\ ColAnchor(part) \in Int
        BY <2>1, Sizes
      <4> QED BY <4>2, <4>3
    <3> HIDE DEF mine, moved
    <3> QED BY <3>1, <3>2
  <2>3. CASE unplaced # <<>>
    BY <1>3, <2>3 DEF Finish
  <2> QED BY <2>2, <2>3
<1>4. ASSUME ~Finish PROVE offset' = offset
  BY <1>4 DEF Next, PlaceStep, PlaceNext, Visit, Compile, HostSteps, PartitionLoad, HerdLoad, IssueCopy,
     BdAcquire, Transfer, CoreSteps, CoreStep, vars, placeVars
<1> QED BY <1>2, <1>3, <1>4

\* A partition is ready once all are placed.
LEMMA PlacedReady ==
  ASSUME PlaceInv, offset \in [Herds -> Int \X Int], Placed, Regular, NEW q \in Parts
  PROVE  Ready(q)
<1>1. prog \in Modules /\ part \in Nat /\ Disjoint
  BY DEF PlaceInv
<1>2. Len(prog.parts) \in Nat /\ q \in Nat /\ q < part /\ q \notin failed
  <2>1. Len(prog.parts) \in Nat
    BY <1>1, ModulesAssumption
  <2> QED BY <1>1, <2>1 DEF Parts, Placed
<1>3. ASSUME NEW k \in Numbers(q), NEW l \in Numbers(q) \ {k}
      PROVE  Tiles(<<q, k>>) \cap Tiles(<<q, l>>) = {}
  <2>1. CASE P(q).op
    BY <1>1, <1>2, <1>3, <2>1 DEF Disjoint
  <2>2. CASE ~P(q).op
    <3>1. Len(P(q).herds) = 1
      BY <1>1, <2>2, ModulesAssumption DEF Parts, P
    <3> QED BY <1>3, <3>1 DEF Numbers
  <2> QED BY <2>1, <2>2
<1> QED BY <1>1, <1>3 DEF Ready

\* Whether a partition's tables agree is a matter of the program, where it
\* was placed, and of the tables.
LEMMA AgreesSame ==
  ASSUME prog' = prog, offset' = offset, NEW q, Agrees(q, aie'[q])
  PROVE  Agrees(q, aie[q])'
<1>1. /\ Numbers(q)' = Numbers(q)
      /\ \A k : Herd(q, k)' = Herd(q, k)
      /\ \A k, xy : Code(q, k, xy)' = Code(q, k, xy)
      /\ \A k : TileIds(Herd(q, k))' = TileIds(Herd(q, k))
  BY HerdsSame
<1>2. \A k, xy : TileOf(q, k, xy)' = TileOf(q, k, xy)
  BY DEF TileOf
<1> DEFINE A == aie'[q]
           apart == \A f, g \in A.flows : f.dir = g.dir /\ f # g =>
                      f.shim # g.shim /\ <<f.tile, f.chan>> # <<g.tile, g.chan>>
           found(tile, shim, d) ==
             \E f \in A.flows :
               /\ f.dir = d.dir /\ f.shim = shim /\ f.tile = tile
               /\ \E i \in 1..Len(A.bds[<<f.tile, f.dir, f.chan>>]) :
                    A.bds[<<f.tile, f.dir, f.chan>>][i].id = d.id
           shim(k, xy, d) == shimRequest(A.metadata[k], d.id, copyArgs(xy)).shim
<1>3. Agrees(q, aie'[q]) <=>
        apart /\ \A k \in Numbers(q) : \A xy \in TileIds(Herd(q, k)) :
                  \A d \in ToSet(getAIRDmaMemcpyInBlock(Code(q, k, xy))) :
                    found(TileOf(q, k, xy), shim(k, xy, d), d)
  BY DEF Agrees
<1>4. Agrees(q, aie[q])' <=>
        apart /\ \A k \in Numbers(q)' : \A xy \in TileIds(Herd(q, k))' :
                  \A d \in ToSet(getAIRDmaMemcpyInBlock(Code(q, k, xy)')) :
                    found(TileOf(q, k, xy)', shim(k, xy, d), d)
  BY DEF Agrees
<1> HIDE DEF apart, found, shim, ToSet
<1> QED BY <1>1, <1>2, <1>3, <1>4

\* What is compiled is as it was placed, and stays.
LEMMA FlowsInvKept ==
  ASSUME PlaceInv, FlowsInv, [Next]_vars
  PROVE  FlowsInv'
<1>1. prog' = prog
  BY PlaceInvKept
<1>2. (offset \in [Herds -> Int \X Int])'
  BY OffsetsKept DEF FlowsInv
<1>3. ASSUME Compile, regular' PROVE Placed' /\ Agreed'
  <2>1. Placed /\ Placed' /\ Regular /\ offset' = offset
    BY <1>3 DEF Compile, placeVars, Placed
  <2>2. ASSUME NEW q \in Parts PROVE Agrees(q, aie'[q])
    <3>1. Ready(q)
      BY <2>1, PlacedReady DEF FlowsInv
    <3>2. Agrees(q, Compiled(P(q).herds, Offsets(q)))
      BY <3>1, CompiledAgrees
    <3>3. aie'[q] = Compiled(P(q).herds, Offsets(q))
      BY <1>3 DEF Compile
    <3> QED BY <3>2, <3>3
  <2>3. \A q \in Parts : Agrees(q, aie[q])'
    BY <1>1, <2>1, <2>2, AgreesSame
  <2>4. Parts' = Parts
    BY <1>1, HerdsSame
  <2> QED BY <2>1, <2>3, <2>4 DEF Agreed
<1>4. ASSUME ~Compile, regular' PROVE Placed' /\ Agreed'
  <2>1. regular /\ aie' = aie
    BY <1>4 DEF Next, PlaceStep, runVars, HostSteps, PartitionLoad, HerdLoad, IssueCopy,
       BdAcquire, Transfer, CoreSteps, CoreStep, vars
  <2>2. Placed /\ Agreed
    BY <2>1 DEF FlowsInv
  <2>3. ~PlaceStep
    <3>1. part \notin Parts
      <4>1. Len(prog.parts) \in Nat
        BY ModulesAssumption DEF PlaceInv
      <4> QED BY <2>2, <4>1 DEF PlaceInv, Parts, Placed
    <3> QED BY <3>1 DEF PlaceStep, PlaceNext, Visit, Finish
  <2>4. part' = part /\ failed' = failed /\ offset' = offset
    BY <1>4, <2>3 DEF Next, HostSteps, PartitionLoad, HerdLoad, IssueCopy,
       BdAcquire, Transfer, CoreSteps, CoreStep, vars, placeVars
  <2>5. \A q \in Parts : Agrees(q, aie[q])'
    <3> SUFFICES ASSUME NEW q \in Parts PROVE Agrees(q, aie[q])'
      OBVIOUS
    <3>1. Agrees(q, aie'[q])
      BY <2>1, <2>2 DEF Agreed
    <3> QED BY <1>1, <2>4, <3>1, AgreesSame
  <2>6. Parts' = Parts
    BY <1>1, HerdsSame
  <2> QED BY <1>1, <2>2, <2>4, <2>5, <2>6 DEF Placed, Agreed
<1> QED BY <1>2, <1>3, <1>4 DEF FlowsInv

\* Whatever herds a program has, of whatever sizes, wherever they are placed
\* and whatever their bodies copy, as long as an id has one direction and
\* belongs to one herd and the shim DMAs are enough: once air-to-aie has
\* compiled it, two flows of one direction have no shim channel and no tile
\* channel in common, and what the host finds in the tables for a copy of a
\* tile is the shim end of the flow whose other end is the channel of that
\* tile with a descriptor for the copy.
THEOREM FlowsAgree == Spec => []FlowsMatch
<1>1. Init => PlaceInv /\ FlowsInv
  <2> SUFFICES ASSUME Init PROVE PlaceInv /\ FlowsInv
    OBVIOUS
  <2>1. PlaceInv /\ regular = FALSE
    BY InitInv DEF Init
  <2> QED BY <2>1, OffsetsAtFirst DEF FlowsInv
<1>2. (PlaceInv /\ FlowsInv) /\ [Next]_vars => (PlaceInv /\ FlowsInv)'
  BY PlaceInvKept, FlowsInvKept
<1>3. PlaceInv /\ FlowsInv => FlowsMatch
  <2> SUFFICES ASSUME FlowsInv, regular PROVE FlowsMatch
    BY DEF FlowsMatch
  <2>1. \A q \in Parts : Agrees(q, aie[q])
    BY DEF FlowsInv, Agreed
  <2> QED BY <2>1 DEF FlowsMatch, Agrees
<1> QED BY <1>1, <1>2, <1>3, PTL DEF Spec
=============================================================================
