------------------------------- MODULE AirHost -------------------------------
(***************************************************************************)
(* The host's side of a compiled program: what air-to-std and              *)
(* airrt-to-llvm leave of it (AIRLoweringPass.cpp, AIRRtToLLVMPass.cpp),   *)
(* the descriptors they leave it in, and how the runtime finds partitions, *)
(* herds and shim DMAs in them (airhost/host.cpp, memory.cpp).             *)
(*                                                                         *)
(* Names are sequences: one name may be the beginning of another.          *)
(***************************************************************************)
EXTENDS HerdBody

-----------------------------------------------------------------------------
(* The host program: herds become loops over their tiles, columns outside, *)
(* in which only the copies remain to be done.                             *)

load(op, q, k, name) == [op |-> op, part |-> q, herd |-> k, name |-> name]

\* A copy passes the id and the inner, then the outer induction variable.
copyArgsMutant(xy) == xy \* mutant: the loops are taken from the outside
copyArgs(xy) == <<xy[2], xy[1]>>

copy(q, k, o, xy) ==
  [op |-> "copy", part |-> q, herd |-> k, id |-> o.id, xy |-> xy, dir |-> o.dir, args |-> copyArgs(xy)]

HostBody(body, q, k, xy) ==
  LET run[b \in Blocks] ==
        Concat(LAMBDA o :
          CASE o.op = "for"     -> Times(o.trip, run[o.body])
            [] o.op = "execute" -> run[o.body]
            [] o.op = "if"      -> run[IF xy \in o.set THEN o.then ELSE o.else]
            [] o.op = "dma"     -> <<copy(q, k, o, xy)>>
            [] OTHER            -> <<>>, b)
  IN  run[body]

HostHerd(q, k, h) ==
  <<load("herd_load", q, k, h.name)>> \o
  FlattenSeq([x \in 1..h.cols |->
    FlattenSeq([y \in 1..h.rows |-> HostBody(h.body, q, k, <<x - 1, y - 1>>)])])

HostPartition(q, p) ==
  (IF p.op /\ p.named THEN <<load("partition_load", q, 0, p.name)>> ELSE <<>>) \o
  FlattenSeq([k \in 1..Len(p.herds) |-> HostHerd(q, k, p.herds[k])])

\* air.launch is a loop around all of it.
HostProgram(prog) ==
  Times(prog.launches, FlattenSeq([q \in 1..Len(prog.parts) |-> HostPartition(q, prog.parts[q])]))

-----------------------------------------------------------------------------
(* Descriptors.                                                            *)

\* location_data and channel_data of a herd: three indices, zero where the
\* compiler has nothing.
shim_data(metadata, id, i, j) ==
  LET here == {m \in metadata : m.id = id /\ m.row = i /\ m.col = j}
  IN  IF here = {} THEN [location |-> 0, channel |-> 0]
      ELSE LET m == CHOOSE r \in here : TRUE IN [location |-> m.location, channel |-> m.channel]

\* strncmp up to the length of the descriptor's name.
calledMutant(asked, name) == TRUE \* mutant: the names are not compared
called(asked, name) == IsPrefix(name, asked)

\* Zero stands for a null pointer.
FirstOf(S, Before(_, _)) == IF S = {} THEN 0 ELSE CHOOSE x \in S : \A y \in S \ {x} : Before(x, y)

\* The descriptors of partition ops come first in the module's, those of lone
\* herds after them.
FirstPartition(prog, S) ==
  FirstOf(S, LAMBDA q, r : IF prog.parts[q].op = prog.parts[r].op THEN q < r ELSE prog.parts[q].op)

air_partition_get_desc(prog, name) ==
  FirstPartition(prog, {q \in 1..Len(prog.parts) : called(name, prog.parts[q].name)})

air_herd_get_desc(prog, q, name) ==
  IF q = 0 THEN 0
  ELSE FirstOf({k \in 1..Len(prog.parts[q].herds) : called(name, prog.parts[q].herds[k].name)},
               LAMBDA k, l : k < l)

\* The partition that air_herd_load loads when none is: by the name of the
\* first one with such a herd.
PartitionFor(prog, name) ==
  LET q == FirstPartition(prog, {p \in 1..Len(prog.parts) : air_herd_get_desc(prog, p, name) # 0})
  IN  IF q = 0 THEN 0 ELSE air_partition_get_desc(prog, prog.parts[q].name)

\* air_herd_load: the active partition's herd; if it has none of that name,
\* once more without an active partition.  <<0, 0>>: it finds nothing and
\* asserts, or calls itself for ever.
air_herd_load(prog, active, name) ==
  LET again == PartitionFor(prog, name)
      tryLoad(q) == <<q, air_herd_get_desc(prog, q, name)>>
      first == tryLoad(IF active = 0 THEN again ELSE active)
      second == tryLoad(again)
  IN  IF first[2] # 0 THEN [found |-> first, reload |-> active = 0]
      ELSE IF second[2] # 0 THEN [found |-> second, reload |-> TRUE]
      ELSE [found |-> <<0, 0>>, reload |-> FALSE]

\* air_mem_shim_nd_memcpy_queue_impl: where the copy goes.  A channel from 2
\* on sends to a tile.
shimRequest(metadata, id, args) ==
  LET d == shim_data(metadata, id, args[1], args[2])
      isMM2S == d.channel >= 2
  IN  [dir |-> IF isMM2S THEN "in" ELSE "out",
       shim |-> <<d.location, IF isMM2S THEN d.channel - 2 ELSE d.channel>>]
=============================================================================
