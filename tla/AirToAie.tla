------------------------------ MODULE AirToAie ------------------------------
(***************************************************************************)
(* The pass air-to-aie (AIRToAIEPass.cpp) on the herds of one partition:   *)
(* a core program per tile, the locks of its buffers, the buffer           *)
(* descriptors of its DMA channels, flows to the shim DMAs, and the        *)
(* metadata by which the host finds them.                                  *)
(***************************************************************************)
EXTENDS HerdBody

tile_dma_channels == 2
shim_dma_channels == 2
shim_dma_cols == <<2, 3, 6, 7, 10, 11, 18, 19, 26, 27, 34, 35, 42, 43, 46, 47>>

-----------------------------------------------------------------------------
(* What a core executes: the branch of an affine.if that its tile is in,   *)
(* the bodies of air.execute in their place.                               *)

\* Only sets of two constraints are evaluated.
isInSetMutant(o, xy) == o.constraints = 2 \* mutant: the constraints are not evaluated
isInSet(o, xy) == o.constraints = 2 /\ xy \in o.set

Specialized(body, xy) ==
  LET spec[b \in Blocks] ==
        Concat(LAMBDA o : CASE o.op = "if"      -> spec[IF isInSet(o, xy) THEN o.then ELSE o.else]
                            [] o.op = "execute" -> spec[o.body]
                            [] o.op = "for"     -> <<[o EXCEPT !.body = spec[o.body]]>>
                            [] OTHER            -> <<o>>, b)
  IN  spec[body]

\* outlineAIECores: herd by herd, row by row.
CoresOf(k, herd, at) ==
  Concat(LAMBDA y : [i \in 1..herd.cols |->
           [herd |-> k, xy |-> <<i - 1, y>>, tile |-> <<at[1] + y, at[2] + i - 1>>,
            body |-> Specialized(herd.body, <<i - 1, y>>)]],
         [j \in 1..herd.rows |-> j - 1])

\* Each new core goes in front of the cores there are.
Outlined(herds, at) == Reverse(Concat(LAMBDA k : CoresOf(k, herds[k], at[k]), [k \in 1..Len(herds) |-> k]))

getAIRDmaMemcpyInBlock(block) == Where(Walk(block), LAMBDA o : o.op = "dma", Self)

-----------------------------------------------------------------------------
(* DMA channels.                                                           *)

\* Copies of one direction take the tile's channels in turn.
getTileDMAChannel(dmas, d) ==
  LET same(i) == dmas[i].id = d.id /\ dmas[i].dir = d.dir
      first == CHOOSE i \in DOMAIN dmas : same(i) /\ \A j \in 1..i - 1 : ~same(j)
  IN  Cardinality({dmas[j].id : j \in {n \in 1..first - 1 : dmas[n].dir = d.dir}}) % tile_dma_channels

\* The copies of a core, by channel.
Schedule(core) ==
  LET dmas == getAIRDmaMemcpyInBlock(core.body)
  IN  Concat(LAMBDA c : Where(dmas, LAMBDA d : <<d.dir, getTileDMAChannel(dmas, d)>> = c,
                              LAMBDA d : [id |-> d.id, buf |-> d.buf, dir |-> c[1], chan |-> c[2]]),
             <<<<"in", 0>>, <<"in", 1>>, <<"out", 0>>, <<"out", 1>>>>)

\* DMAAllocator: an allocation stands for one channel of one tile, and for
\* every id that shares it.  The n-th has the channel n % 2 of a column.
matches(a, r) == a.tile = r.tile /\ (r.id \in a.ids \/ r.chan = a.chan)
FirstMatch(allocs, r) ==
  LET m == {i \in 1..Len(allocs) : matches(allocs[i], r)}
  IN  IF m = {} THEN 0 ELSE CHOOSE i \in m : \A j \in m : i <= j

getTile(allocs, r) ==
  LET i == FirstMatch(allocs, r)
  IN  IF i = 0 THEN Append(allocs, [tile |-> r.tile, chan |-> r.chan, ids |-> {r.id}])
               ELSE [allocs EXCEPT ![i].ids = @ \cup {r.id}]

\* The shim column and channel of the n-th allocation.
ShimOf(n) == <<shim_dma_cols[((n - 1) \div shim_dma_channels) + 1], (n - 1) % shim_dma_channels>>

\* All allocations of a direction, over the cores and their copies in order.
Requests(cores, dir) ==
  Concat(LAMBDA core :
           LET dmas == getAIRDmaMemcpyInBlock(core.body)
           IN  Where(dmas, LAMBDA d : d.dir = dir,
                     LAMBDA d : [tile |-> core.tile, id |-> d.id, chan |-> getTileDMAChannel(dmas, d)]),
         cores)
Allocated(cores, dir) ==
  LET reqs == Requests(cores, dir)
      allocs[n \in 0..Len(reqs)] == IF n = 0 THEN <<>> ELSE getTile(allocs[n - 1], reqs[n])
  IN  allocs[Len(reqs)]

\* getDmaSchedules: one flow per allocation, in the direction of the copies.
FlowsOf(allocs, dir) ==
  {[dir |-> dir, shim |-> ShimOf(n), tile |-> allocs[n].tile, chan |-> allocs[n].chan] :
     n \in 1..Len(allocs)}

\* The metadata of a herd names every id's shim column and channel, those
\* that send to a tile (MM2S) by a number from 2 on.  Rows and columns are
\* relative to the herd.
MetadataOf(ids, at, allocs, first) ==
  {[id |-> r[2], row |-> allocs[r[1]].tile[1] - at[1], col |-> allocs[r[1]].tile[2] - at[2],
    location |-> ShimOf(r[1])[1], channel |-> ShimOf(r[1])[2] + first] :
     r \in {s \in (1..Len(allocs)) \X ids : s[2] \in allocs[s[1]].ids}}

HerdMetadata(herd, at, ins, outs) ==
  MetadataOf(IdsIn(herd.body), at, outs, 0) \cup MetadataOf(IdsIn(herd.body), at, ins, shim_dma_channels)

-----------------------------------------------------------------------------
(* Locks.                                                                  *)

\* getLockForTileDMA: a lock per buffer and channel, the lowest number that
\* is free.
LockPairs(sched) ==
  FoldLeft(LAMBDA s, e : IF \E i \in 1..Len(s) : s[i] = <<e.buf, e.dir, e.chan>> THEN s
                         ELSE Append(s, <<e.buf, e.dir, e.chan>>), <<>>, sched)
LockFor(sched, e) ==
  LET s == LockPairs(sched)
  IN  (CHOOSE i \in 1..Len(s) : s[i] = <<e.buf, e.dir, e.chan>>) - 1

\* The core reads what a channel has filled and fills what it empties.
coreAcquires(dir) == IF dir = "in" THEN 1 ELSE 0
coreReleases(dir) == 1 - coreAcquires(dir)

use_lock(action, tile, lock, value) == [op |-> action, tile |-> tile, lock |-> lock, value |-> value]

DeallocsIn(block) == {o.buf : o \in OpsIn(block, "dealloc")}

\* Buffer descriptors: channel by channel, in a ring.
Descriptors(sched, dir, chan) ==
  Where(sched, LAMBDA e : e.dir = dir /\ e.chan = chan,
        LAMBDA e : [id |-> e.id, buf |-> e.buf, lock |-> LockFor(sched, e),
                    acquires |-> 1 - coreAcquires(dir), releases |-> 1 - coreReleases(dir)])

-----------------------------------------------------------------------------
(* air.pipeline.put and get: a buffer and a lock of the putting tile.      *)

\* The core that a put of core c goes to, and the one a get takes from.
Receives(cores, c, d) == c.herd = d.herd /\ \E o \in OpsIn(c.body, "put") : o.dst = d.xy
SenderTo(cores, d) == CHOOSE i \in 1..Len(cores) : Receives(cores, cores[i], d)

PipeLock(c) == Len(LockPairs(Schedule(c)))   \* the lowest number that is free
pipebuf == "pipebuf"
move(action, tile, buf) == [op |-> action, tile |-> tile, buf |-> buf]

putHolds == 0   \* the lock value with which a put may write
LowerPut(o, c) ==
  <<use_lock("acquire", c.tile, PipeLock(c), putHolds),
    move("store", c.tile, o.buf),
    use_lock("release", c.tile, PipeLock(c), 1)>>
LowerGet(o, s) ==
  <<use_lock("acquire", s.tile, PipeLock(s), 1),
    move("load", s.tile, o.buf),
    use_lock("release", s.tile, PipeLock(s), 0)>>

-----------------------------------------------------------------------------
(* runOnOperation.                                                         *)

\* What a core runs.  lowerAirDmaMemcpy: the locks of the copies of a block
\* are acquired at its front, each before those already there, and released
\* where the buffer is deallocated, else at the end of the block.
CoreProgram(cores, c) ==
  LET sched == Schedule(c)
      freed == DeallocsIn(c.body)
      acquire(e) == use_lock("acquire", c.tile, LockFor(sched, e), coreAcquires(e.dir))
      release(e) == use_lock("release", c.tile, LockFor(sched, e), coreReleases(e.dir))
      copiedBy(e, b) == \E o \in ToSet(b) : o.op = "dma" /\ o.id = e.id
      code[b \in Blocks] ==
        Reverse(Where(sched, LAMBDA e : copiedBy(e, b), acquire)) \o
        Concat(LAMBDA o : CASE o.op = "for"     -> Times(o.trip, code[o.body])
                            [] o.op = "dma"     -> <<>>
                            [] o.op = "dealloc" -> Where(sched, LAMBDA e : e.buf = o.buf, release)
                            [] o.op = "put"     -> LowerPut(o, c)
                            [] o.op = "get"     -> LowerGet(o, cores[SenderTo(cores, c)])
                            [] OTHER            -> <<o>>, b) \o
        Where(sched, LAMBDA e : copiedBy(e, b) /\ e.buf \notin freed, release)
  IN  code[c.body]

\* The AIE module of a partition, and the metadata of its herds.
Compiled(herds, at) ==
  LET cores == Outlined(herds, at)
      ins  == Allocated(cores, "in")
      outs == Allocated(cores, "out")
      tiles == {cores[i].tile : i \in 1..Len(cores)}
      core(t) == cores[CHOOSE i \in 1..Len(cores) : cores[i].tile = t]
  IN  [programs |-> [t \in tiles |-> CoreProgram(cores, core(t))],
       bds |-> [ch \in tiles \X {"in", "out"} \X {0, 1} |-> Descriptors(Schedule(core(ch[1])), ch[2], ch[3])],
       flows |-> FlowsOf(ins, "in") \cup FlowsOf(outs, "out"),
       metadata |-> [k \in 1..Len(herds) |-> HerdMetadata(herds[k], at[k], ins, outs)]]
=============================================================================
