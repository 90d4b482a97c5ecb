--------------------------- MODULE HerdPlacement ---------------------------
(***************************************************************************)
(* The pass air-place-herds (AIRHerdPlacementPass.cpp): every partition of *)
(* a module gets a grid of tiles; its herds, the largest first, are laid   *)
(* on it by a walk over its cells from the anchor to the right and up,     *)
(* each free cell taking the first herd that fits there.                   *)
(*                                                                         *)
(* A cell is <<row, column>> counted from the anchor.  The code keeps the  *)
(* grid with its rows the other way round and translates every index.      *)
(***************************************************************************)
EXTENDS Integers, Sequences, FiniteSets

CONSTANT Modules   \* the programs that may be compiled

VARIABLES prog,      \* the program
          part,      \* the partition being placed
          cell,      \* how many of its cells have been visited
          grid,      \* which herd has which cell
          unplaced,  \* the herds that wait, in order
          loc,       \* where the others are
          offset,    \* the offset attributes of all herds: <<row, column>> ...
          has,       \* ... and which herds have them
          failed     \* partitions with "No valid placement found."

placeVars == <<prog, part, cell, grid, unplaced, loc, offset, has, failed>>

Unset == -1   \* an attribute the op does not have
Free  == 0

Parts == 1..Len(prog.parts)
P(q) == prog.parts[q]
Numbers(q) == 1..Len(P(q).herds)
Herd(q, k) == P(q).herds[k]
Herds == UNION {{q} \X Numbers(q) : q \in Parts}

\* The attributes of the partition op, or the command line's values.  A herd
\* that is in no partition has a grid of its own.
or(attribute, cl) == IF attribute = Unset THEN cl ELSE attribute

\* No grid has a negative size, and no herd is empty.  A herd in no partition
\* is alone on its grid.
ASSUME ModulesAssumption ==
  \A m \in Modules :
    /\ Len(m.parts) \in Nat
    /\ \A q \in 1..Len(m.parts) :
         LET p == m.parts[q] IN
         /\ or(p.rows, m.clNumRows) \in Nat /\ or(p.cols, m.clNumCols) \in Nat
         /\ or(p.row_offset, m.clAnchorPointRow) \in Int
         /\ or(p.col_offset, m.clAnchorPointCol) \in Int
         /\ Len(p.herds) \in Nat
         /\ \A k \in 1..Len(p.herds) :
              /\ p.herds[k].rows \in Nat \ {0} /\ p.herds[k].cols \in Nat \ {0}
              /\ p.herds[k].offset \in Int \X Int
         /\ p.op \in BOOLEAN
         /\ ~p.op => Len(p.herds) = 1

NumRows(q) == or(P(q).rows, prog.clNumRows)
NumCols(q) == or(P(q).cols, prog.clNumCols)
RowAnchor(q) == or(P(q).row_offset, prog.clAnchorPointRow)
ColAnchor(q) == or(P(q).col_offset, prog.clAnchorPointCol)

Cells(q) == (0..NumRows(q) - 1) \X (0..NumCols(q) - 1)
NumCells(q) == NumRows(q) * NumCols(q)
CellAt(q, n) == <<n \div NumCols(q), n % NumCols(q)>>

Footprint(h, at) == (at[1]..at[1] + h.rows - 1) \X (at[2]..at[2] + h.cols - 1)
Size(h) == h.rows * h.cols

\* A herd outside partitions that has its offsets is left where it is.
ToPlace(q) == IF ~P(q).op /\ Herd(q, 1).placed THEN {} ELSE Numbers(q)

\* std::sort leaves herds of one size in any order.
Sorted(q) ==
  {s \in [1..Cardinality(ToPlace(q)) -> ToPlace(q)] :
     /\ \A i, j \in DOMAIN s : s[i] = s[j] => i = j
     /\ \A i, j \in DOMAIN s : i < j => Size(Herd(q, s[i])) >= Size(Herd(q, s[j]))}

isLegalPlacementMutant(q, k, at) == \* mutant: what is taken is not looked at
  \A c \in Footprint(Herd(q, k), at) : c \in Cells(q)
isLegalPlacement(q, k, at) ==
  \A c \in Footprint(Herd(q, k), at) : c \in Cells(q) /\ grid[c] = Free

placeHerd(q, k, at) ==
  /\ grid' = [c \in Cells(q) |-> IF c \in Footprint(Herd(q, k), at) THEN k ELSE grid[c]]
  /\ loc' = [loc EXCEPT ![k] = at]

EmptyGrid(q) == [c \in Cells(q) |-> Free]
NoLoc(q) == [k \in Numbers(q) |-> <<0, 0>>]

visitedMutant == cell + 2 \* mutant: every other cell is left out
visited == cell + 1

\* naivePlacement, one cell.
PlaceAt(q, at, i) ==
  /\ placeHerd(q, unplaced[i], at)
  /\ unplaced' = SubSeq(unplaced, 1, i - 1) \o SubSeq(unplaced, i + 1, Len(unplaced))

Visit ==
  /\ part \in Parts
  /\ cell < NumCells(part)
  /\ unplaced # <<>>
  /\ LET at == CellAt(part, cell)
         fits == {i \in 1..Len(unplaced) : isLegalPlacement(part, unplaced[i], at)}
     IN  IF grid[at] = Free /\ fits # {}
           THEN \E i \in fits : (\A j \in fits : i <= j) /\ PlaceAt(part, at, i)
           ELSE UNCHANGED <<grid, loc, unplaced>>
  /\ cell' = visited
  /\ UNCHANGED <<prog, part, offset, has, failed>>

\* placeHerdsInPartition sets the offsets of all herds or of none, and the
\* next partition begins.
Finish ==
  /\ part \in Parts
  /\ unplaced = <<>> \/ cell >= NumCells(part)
  /\ IF unplaced = <<>>
       THEN LET mine == {part} \X ToPlace(part)
            IN  /\ offset' = [h \in Herds |->
                      IF h \in mine THEN <<loc[h[2]][1] + RowAnchor(part), loc[h[2]][2] + ColAnchor(part)>>
                                    ELSE offset[h]]
                /\ has' = has \cup mine
                /\ failed' = failed
       ELSE failed' = failed \cup {part} /\ UNCHANGED <<offset, has>>
  /\ part' = part + 1
  /\ cell' = 0
  /\ IF part + 1 \in Parts
       THEN /\ unplaced' \in Sorted(part + 1)
            /\ grid' = EmptyGrid(part + 1)
            /\ loc' = NoLoc(part + 1)
       ELSE UNCHANGED <<grid, unplaced, loc>>
  /\ UNCHANGED prog

PlaceInit ==
  /\ prog \in Modules
  /\ part = 1
  /\ cell = 0
  /\ unplaced \in Sorted(1)
  /\ grid = EmptyGrid(1)
  /\ loc = NoLoc(1)
  /\ offset = [h \in Herds |-> Herd(h[1], h[2]).offset]
  /\ has = {h \in Herds : Herd(h[1], h[2]).placed}
  /\ failed = {}

PlaceNext == Visit \/ Finish
PlaceSpec == PlaceInit /\ [][PlaceNext]_placeVars
-----------------------------------------------------------------------------
(* Properties.                                                             *)

Tiles(h) == Footprint(Herd(h[1], h[2]), offset[h])

\* Herds of one partition that air-place-herds has placed share no tile and
\* stay within the partition: each core of the partition runs one herd.
Disjoint ==
  \A q \in Parts : q < part /\ q \notin failed /\ P(q).op =>
    \A k \in Numbers(q) :
      /\ \A t \in Tiles(<<q, k>>) :
           <<t[1] - RowAnchor(q), t[2] - ColAnchor(q)>> \in Cells(q)
      /\ \A l \in Numbers(q) \ {k} : Tiles(<<q, k>>) \cap Tiles(<<q, l>>) = {}

\* When the pass gives up, none of the herds it leaves fits on what is free.
NoRoomLeft ==
  part \in Parts /\ cell >= NumCells(part) =>
    \A i \in 1..Len(unplaced) : \A at \in Cells(part) : ~isLegalPlacement(part, unplaced[i], at)
=============================================================================
