------------------------------ MODULE HerdBody ------------------------------
(***************************************************************************)
(* The body of a herd is a block: a sequence of operations, some of which  *)
(* have blocks of their own:                                               *)
(*   [op "dma", id, dir, buf]       air.dma_memcpy_nd, "in" from or "out"  *)
(*                                  to L3; id is the attribute of the op   *)
(*   [op "work", name, reads, buf]  computes buf from what it reads        *)
(*   [op "dealloc", buf]                                                   *)
(*   [op "put", dst, buf], [op "get", buf]    air.pipeline.put and get     *)
(*   [op "for", trip, body]         scf.for                                *)
(*   [op "if", set, constraints, then, else]  affine.if on the tile ids    *)
(*   [op "execute", body]           air.execute                            *)
(* Operations on blocks are recursive functions on the set of all blocks.  *)
(***************************************************************************)
EXTENDS Integers, Sequences, FiniteSets, SequencesExt

CONSTANTS Buffers,   \* the buffers of bodies
          Kernels,   \* what they compute with
          MaxDepth   \* how deep their blocks are nested

ASSUME DepthAssumption == MaxDepth \in Nat

TileIdPairs == Nat \X Nat

Steps ==
  [op : {"dma"}, id : Nat, dir : {"in", "out"}, buf : Buffers] \cup
  [op : {"work"}, name : Kernels, reads : Seq(Buffers), buf : Buffers] \cup
  [op : {"dealloc"}, buf : Buffers] \cup
  [op : {"put"}, dst : TileIdPairs, buf : Buffers] \cup
  [op : {"get"}, buf : Buffers]
Around(B) ==
  [op : {"for"}, trip : Nat, body : B] \cup
  [op : {"execute"}, body : B] \cup
  [op : {"if"}, set : SUBSET TileIdPairs, constraints : Nat, then : B, else : B]

Nest[n \in 0..MaxDepth] == Seq(IF n = 0 THEN Steps ELSE Steps \cup Around(Nest[n - 1]))
Blocks == Nest[MaxDepth]

-----------------------------------------------------------------------------
(* Sequences by the sequences that their elements give.                    *)

Concat(F(_), s) == FlattenSeq([i \in 1..Len(s) |-> F(s[i])])

\* F of the elements of s that pass the test.
Where(s, Test(_), F(_)) == Concat(LAMBDA x : IF Test(x) THEN <<F(x)>> ELSE <<>>, s)
Self(x) == x

Times(n, s) == FlattenSeq([i \in 1..n |-> s])

\* The blocks of an operation.
Regions(o) ==
  CASE o.op \in {"for", "execute"} -> <<o.body>>
    [] o.op = "if" -> <<o.then, o.else>>
    [] OTHER -> <<>>

\* All operations of a block and of the blocks in it, an operation before
\* those in its blocks: Operation::walk, and the recursion of the passes.
Walk(block) ==
  LET walk[b \in Blocks] ==
        Concat(LAMBDA o : <<o>> \o Concat(LAMBDA r : walk[r], Regions(o)), b)
  IN  walk[block]

\* The execution of a block whose branches are taken: loops run their trips.
Unrolled(block) ==
  LET run[b \in Blocks] ==
        Concat(LAMBDA o : IF o.op = "for" THEN Times(o.trip, run[o.body]) ELSE <<o>>, b)
  IN  run[block]

IsDma(o, dir) == o.op = "dma" /\ o.dir = dir
OpsIn(block, op) == {o \in ToSet(Walk(block)) : o.op = op}
IdsIn(block) == {o.id : o \in OpsIn(block, "dma")}
=============================================================================
