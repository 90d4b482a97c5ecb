------------------------------- MODULE HerdRun -------------------------------
(***************************************************************************)
(* A program from its placement to its end: air-place-herds places it,     *)
(* air-to-aie compiles it, and the host, the cores and the DMAs of the     *)
(* tiles run it together.  The host has a queue and one controller, which  *)
(* does a copy at a time (AgentDispatch is that part in detail): a copy    *)
(* ends when its data has gone over the flow.                              *)
(***************************************************************************)
EXTENDS HerdPlacement, AirToAie, AirHost

CONSTANT Array   \* the tiles of the device

ASSUME BodiesAssumption ==
  \A m \in Modules :
    /\ m.launches \in Nat
    /\ \A q \in 1..Len(m.parts) :
         /\ m.parts[q].name \in Seq(Nat)
         /\ \A k \in 1..Len(m.parts[q].herds) :
              m.parts[q].herds[k].name \in Seq(Nat) /\ m.parts[q].herds[k].body \in Blocks

VARIABLES regular,  \* the program is one the compiler takes as it is
          meaning,  \* what it computes
          aie,      \* the compiled partitions
          host,     \* the host program
          hostpc,
          copying,  \* the copy the host waits for
          active,   \* _air_host_active_partition and _herd, by number
          loaded,   \* the partition that the array is configured for
          pc,       \* of every core
          lock,     \* <<tile, number>> -> [value, held]
          bd,       \* <<tile, direction, channel>> -> [at, owns]
          mem,      \* <<tile, buffer>> -> contents
          outs      \* what the host has got from <<partition, herd, id, tile ids>>

runVars == <<regular, meaning, aie, host, hostpc, copying, active, loaded, pc, lock, bd, mem, outs>>
vars == <<prog, part, cell, grid, unplaced, loc, offset, has, failed,
          regular, meaning, aie, host, hostpc, copying, active, loaded, pc, lock, bd, mem, outs>>

-----------------------------------------------------------------------------
(* What a tile does when its herd is run as the program says.              *)

Put(f, x, v) == [y \in (DOMAIN f) \cup {x} |-> IF y = x THEN v ELSE f[y]]
result(o, Read(_)) == <<o.name>> \o [i \in 1..Len(o.reads) |-> Read(o.reads[i])]

Source(body, xy) ==
  LET spec[b \in Blocks] ==
        Concat(LAMBDA o : CASE o.op = "if"      -> spec[IF xy \in o.set THEN o.then ELSE o.else]
                            [] o.op = "execute" -> spec[o.body]
                            [] o.op = "for"     -> <<[o EXCEPT !.body = spec[o.body]]>>
                            [] OTHER            -> <<o>>, b)
  IN  spec[body]

TileIds(h) == (0..h.cols - 1) \X (0..h.rows - 1)
Code(q, k, xy) == Source(Herd(q, k).body, xy)
Senders(q, k, xy) ==
  {s \in TileIds(Herd(q, k)) : \E o \in OpsIn(Code(q, k, s), "put") : o.dst = xy}

Ref(f, x, default) == IF x \in DOMAIN f THEN f[x] ELSE default

\* What it has put into the pipeline and copied out at the end of all launches.
Meaning(q, k, tile) ==
  LET all(xy) == Times(prog.launches, Unrolled(Code(q, k, xy)))
      run[xy \in TileIds(Herd(q, k))] ==
        LET key(id) == <<q, k, id, xy>>
            step(s, o) ==
              CASE IsDma(o, "in") ->
                     LET n == Ref(s.ins, o.id, 0) + 1
                     IN  [s EXCEPT !.ins = Put(@, o.id, n), !.mem = Put(@, o.buf, <<"in", key(o.id), n>>)]
                [] IsDma(o, "out") ->
                     [s EXCEPT !.outs = Put(@, o.id, Append(Ref(@, o.id, <<>>), Ref(s.mem, o.buf, <<"nothing">>)))]
                [] o.op = "work" ->
                     [s EXCEPT !.mem = Put(@, o.buf, result(o, LAMBDA b : Ref(s.mem, b, <<"nothing">>)))]
                [] o.op = "put" -> [s EXCEPT !.puts = Append(@, Ref(s.mem, o.buf, <<"nothing">>))]
                [] o.op = "get" ->
                     LET from == CHOOSE t \in Senders(q, k, xy) : TRUE
                     IN  [s EXCEPT !.gets = @ + 1, !.mem = Put(@, o.buf, run[from].puts[s.gets + 1])]
                [] OTHER -> s
        IN  FoldLeft(step, [ins |-> <<>>, outs |-> <<>>, mem |-> <<>>, puts |-> <<>>, gets |-> 0], all(xy))
  IN  run[tile]

-----------------------------------------------------------------------------
(* Programs that run as they say.                                          *)

Writes(o) == IF o.op \in {"work", "get"} \/ IsDma(o, "in") THEN {o.buf} ELSE {}
Reads(o) == CASE o.op = "work" -> ToSet(o.reads)
              [] o.op \in {"put", "dealloc"} \/ IsDma(o, "out") -> {o.buf}
              [] OTHER -> {}
AllOps(o) == IF o.op = "for" THEN ToSet(Unrolled(o.body)) ELSE {o}
Touches(o) == UNION {Writes(p) \cup Reads(p) : p \in AllOps(o)}
WritesIn(o) == UNION {Writes(p) : p \in AllOps(o)}
Copied(o) == {x.buf : x \in {r \in AllOps(o) : r.op = "dma"}}

\* A block takes in what it needs, runs its loops and then copies out: the
\* core has all locks of the block's copies from its front to its end, and
\* the host waits for each copy.  What a copy moves is not touched on the
\* other side of it, nor outside its block, nor once it is deallocated.
InOrder(block) ==
  /\ \A i, j \in 1..Len(block) : i < j =>
       LET a == block[i]
           b == block[j]
       IN  /\ IsDma(a, "out") => ~IsDma(b, "in") /\ (b.op = "for" => Copied(b) = {})
           /\ a.op = "for" /\ Copied(a) # {} => ~IsDma(b, "in")
           /\ IsDma(b, "in") => b.buf \notin Touches(a)
           /\ IsDma(a, "out") => a.buf \notin WritesIn(b)
           /\ a.op = "dealloc" => a.buf \notin Touches(b)
           /\ a.op = "for" => Copied(a) \cap Touches(b) = {}
           /\ b.op = "for" => Copied(b) \cap Touches(a) = {}
  /\ \A f \in ToSet(block) : f.op = "for" =>
       \A o \in AllOps(f) : o.op = "dealloc" => \E d \in ToSet(f.body) : d.op = "dma" /\ d.buf = o.buf
BlocksOf(block) == {block} \cup {o.body : o \in OpsIn(block, "for")}
Orderly(block) == \A b \in BlocksOf(block) : InOrder(b)

\* The copies of one channel are in one block and of different buffers: the
\* list of descriptors is assumed to be in execution order.
ChannelsTogether(block) ==
  LET s == Schedule([body |-> block])
  IN  \A i, j \in 1..Len(s) : i # j /\ s[i].dir = s[j].dir /\ s[i].chan = s[j].chan =>
        /\ s[i].buf # s[j].buf
        /\ \E b \in BlocksOf(block) :
             {s[i].id, s[j].id} \subseteq {o.id : o \in {p \in ToSet(b) : p.op = "dma"}}

\* One put and one get a tile, of the same tiles in turn; the host fills all
\* iterations of a tile before it empties the next one's.
PipesShort(q, k, xy) ==
  LET all(c, op) == Where(Walk(c), LAMBDA o : o.op = op, Self)
      puts == all(Code(q, k, xy), "put")
      gets == all(Code(q, k, xy), "get")
      count(c, op) == Len(Where(Unrolled(c), LAMBDA o : o.op = op, Self))
  IN  /\ Len(puts) <= 1 /\ Len(gets) <= 1
      /\ Cardinality(Senders(q, k, xy)) = Len(gets)
      /\ \A s \in Senders(q, k, xy) : count(Code(q, k, s), "put") = count(Code(q, k, xy), "get")
      /\ count(Code(q, k, xy), "put") <= 3
      /\ puts # <<>> => puts[1].dst \in TileIds(Herd(q, k))

TwoConstraints(block) == \A o \in OpsIn(block, "if") : o.constraints = 2

NamesApart ==
  /\ \A g, h \in Herds : g # h => ~IsPrefix(Herd(g[1], g[2]).name, Herd(h[1], h[2]).name)
  /\ \A q, r \in Parts : q # r => ~IsPrefix(P(q).name, P(r).name)

\* An id of one herd is not another's, fits the descriptor and has one direction.
IdsApart ==
  \A q \in Parts : \A k, l \in Numbers(q) :
    /\ IdsIn(Herd(q, k).body) \subseteq 1..16
    /\ k # l => IdsIn(Herd(q, k).body) \cap IdsIn(Herd(q, l).body) = {}
    /\ \A d, e \in OpsIn(Herd(q, k).body, "dma") : d.id = e.id => d.dir = e.dir

\* The array has the shim DMAs that a partition needs.
Offsets(q) == [k \in Numbers(q) |-> offset[<<q, k>>]]
ShimsSuffice ==
  \A q \in Parts : \A dir \in {"in", "out"} :
    Len(Allocated(Outlined(P(q).herds, Offsets(q)), dir)) <= Len(shim_dma_cols) * shim_dma_channels

\* A partition is configured again for the next launch, or its cores repeat.
StartsAgain == prog.launches = 1 \/ prog.emit_while \/ Len(prog.parts) > 1 \/ (P(1).op /\ P(1).named)

Regular ==
  /\ NamesApart /\ IdsApart /\ ShimsSuffice /\ StartsAgain
  /\ \A h \in Herds : TwoConstraints(Herd(h[1], h[2]).body)
  /\ \A h \in Herds : \A xy \in TileIds(Herd(h[1], h[2])) :
       LET c == Code(h[1], h[2], xy)
       IN  Orderly(c) /\ ChannelsTogether(c) /\ PipesShort(h[1], h[2], xy)

-----------------------------------------------------------------------------
(* Compilation.                                                            *)

None == <<>>
Placed == part > Len(prog.parts) /\ failed = {}
AIE == aie[loaded]
Cores == DOMAIN AIE.programs

\* The locks and buffers of the partition in use.
LockAt(t, n) == IF <<t, n>> \in DOMAIN lock THEN lock[<<t, n>>] ELSE [value |-> 0, held |-> FALSE]
At(t, b) == IF <<t, b>> \in DOMAIN mem THEN mem[<<t, b>>] ELSE <<"nothing">>

PlaceStep == PlaceNext /\ UNCHANGED runVars

Compile ==
  /\ Placed
  /\ aie = None
  /\ aie' = [q \in Parts |-> Compiled(P(q).herds, Offsets(q))]
  /\ host' = HostProgram(prog)
  /\ regular' = Regular
  /\ meaning' = [t \in UNION {{<<h[1], h[2]>> \o <<xy>> : xy \in TileIds(Herd(h[1], h[2]))} : h \in Herds} |->
                   IF Regular THEN Meaning(t[1], t[2], t[3]).outs ELSE <<>>]
  /\ hostpc' = 1
  /\ UNCHANGED <<placeVars, copying, active, loaded, pc, lock, bd, mem, outs>>

-----------------------------------------------------------------------------
(* The host.                                                               *)

Running == aie # None
HostAt(op) == Running /\ hostpc <= Len(host) /\ host[hostpc].op = op /\ copying = None

\* The configuration functions of a partition: its cores start anew, its
\* locks are free and zero, its channels are at their first descriptor.
Configure(q) ==
  /\ loaded' = q
  /\ pc' = [t \in DOMAIN aie[q].programs |-> 1]
  /\ lock' = <<>>
  /\ bd' = [ch \in DOMAIN aie[q].bds |-> [at |-> 1, owns |-> FALSE]]

PartitionLoad ==
  /\ HostAt("partition_load")
  /\ LET q == air_partition_get_desc(prog, host[hostpc].name)
     IN  /\ Configure(q)
         /\ active' = [active EXCEPT !.part = q]
  /\ hostpc' = hostpc + 1
  /\ UNCHANGED <<placeVars, regular, meaning, aie, host, copying, mem, outs>>

HerdLoad ==
  /\ HostAt("herd_load")
  /\ LET r == air_herd_load(prog, active.part, host[hostpc].name)
     IN  /\ r.found # <<0, 0>>
         /\ active' = [part |-> r.found[1], herd |-> r.found[2]]
         /\ IF r.reload THEN Configure(r.found[1]) ELSE UNCHANGED <<loaded, pc, lock, bd>>
  /\ hostpc' = hostpc + 1
  /\ UNCHANGED <<placeVars, regular, meaning, aie, host, copying, mem, outs>>

\* A copy that the active herd's descriptor sends to some shim DMA.
IssueCopy ==
  /\ HostAt("copy")
  /\ copying' = shimRequest(aie[active.part].metadata[active.herd], host[hostpc].id, host[hostpc].args)
  /\ UNCHANGED <<placeVars, regular, meaning, aie, host, hostpc, active, loaded, pc, lock, bd, mem, outs>>

-----------------------------------------------------------------------------
(* The tiles.                                                              *)

Ring(ch) == AIE.bds[ch]
Now(ch) == Ring(ch)[bd[ch].at]
Acquires(t, n, v) ==
  /\ LockAt(t, n) = [value |-> v, held |-> FALSE]
  /\ lock' = Put(lock, <<t, n>>, [value |-> v, held |-> TRUE])
Releases(t, n, v) == lock' = Put(lock, <<t, n>>, [value |-> v, held |-> FALSE])

\* A channel takes the lock of its descriptor.
BdAcquire ==
  /\ loaded # 0
  /\ \E ch \in DOMAIN AIE.bds :
       /\ Ring(ch) # <<>>
       /\ ~bd[ch].owns
       /\ Acquires(ch[1], Now(ch).lock, Now(ch).acquires)
       /\ bd' = [bd EXCEPT ![ch].owns = TRUE]
  /\ UNCHANGED <<placeVars, regular, meaning, aie, host, hostpc, copying, active, loaded, pc, mem, outs>>

\* The n-th copy of an id for a tile has the n-th block of data.
Key(i) == <<host[i].part, host[i].herd, host[i].id, host[i].xy>>
Datum(i) == <<"in", Key(i), Cardinality({j \in 1..i : host[j].op = "copy" /\ Key(j) = Key(i)})>>

\* The data goes over the flow between a shim channel and a tile channel.
Transfer ==
  /\ Running /\ copying # None /\ loaded # 0
  /\ \E f \in AIE.flows :
       LET ch == <<f.tile, f.dir, f.chan>>
       IN  /\ f.dir = copying.dir /\ f.shim = copying.shim
           /\ bd[ch].owns
           /\ IF f.dir = "in"
                THEN mem' = Put(mem, <<f.tile, Now(ch).buf>>, Datum(hostpc)) /\ outs' = outs
                ELSE /\ outs' = Put(outs, Key(hostpc),
                                  (IF Key(hostpc) \in DOMAIN outs THEN outs[Key(hostpc)] ELSE <<>>)
                                    \o <<At(f.tile, Now(ch).buf)>>)
                     /\ mem' = mem
           /\ Releases(f.tile, Now(ch).lock, Now(ch).releases)
           /\ bd' = [bd EXCEPT ![ch] = [at |-> (bd[ch].at % Len(Ring(ch))) + 1, owns |-> FALSE]]
  /\ copying' = None
  /\ hostpc' = hostpc + 1
  /\ UNCHANGED <<placeVars, regular, meaning, aie, host, active, loaded, pc>>

CoreStep(t) ==
  /\ loaded # 0 /\ t \in Cores
  /\ LET code == AIE.programs[t]
     IN  IF pc[t] > Len(code)
           THEN /\ prog.emit_while /\ code # <<>>
                /\ pc' = [pc EXCEPT ![t] = 1]
                /\ UNCHANGED <<lock, mem>>
           ELSE LET o == code[pc[t]]
                IN  /\ CASE o.op = "acquire" -> Acquires(o.tile, o.lock, o.value) /\ mem' = mem
                         [] o.op = "release" -> Releases(o.tile, o.lock, o.value) /\ mem' = mem
                         [] o.op = "work" ->
                              mem' = Put(mem, <<t, o.buf>>, result(o, LAMBDA b : At(t, b))) /\ lock' = lock
                         [] o.op = "store" -> mem' = Put(mem, <<t, pipebuf>>, At(t, o.buf)) /\ lock' = lock
                         [] o.op = "load" -> mem' = Put(mem, <<t, o.buf>>, At(o.tile, pipebuf)) /\ lock' = lock
                    /\ pc' = [pc EXCEPT ![t] = @ + 1]
  /\ UNCHANGED <<placeVars, regular, meaning, aie, host, hostpc, copying, active, loaded, bd, outs>>

CoreSteps == \E t \in IF loaded = 0 THEN {} ELSE Cores : CoreStep(t)

Init ==
  /\ PlaceInit
  /\ regular = FALSE /\ meaning = <<>>
  /\ aie = None /\ host = <<>> /\ hostpc = 0 /\ copying = None
  /\ active = [part |-> 0, herd |-> 0]
  /\ loaded = 0 /\ pc = <<>> /\ lock = <<>> /\ bd = <<>> /\ mem = <<>> /\ outs = <<>>

HostSteps == PartitionLoad \/ HerdLoad \/ IssueCopy
Next == PlaceStep \/ Compile \/ HostSteps \/ BdAcquire \/ Transfer \/ CoreSteps

\* The host, the DMAs and each core go on by themselves.  Nobody has to
\* compile a program.
Spec ==
  /\ Init /\ [][Next]_vars
  /\ WF_vars(HostSteps) /\ WF_vars(BdAcquire) /\ WF_vars(Transfer)
  /\ \A t \in Array : WF_vars(CoreStep(t))

-----------------------------------------------------------------------------
(* Properties.                                                             *)

TileOf(q, k, xy) == <<offset[<<q, k>>][1] + xy[2], offset[<<q, k>>][2] + xy[1]>>

\* The allocator's shim channels, the flows, the descriptors of the tiles and
\* what the host finds in its tables agree: the copy of any id for any tile
\* goes over one flow, that ends at the channel of that tile which has it.
\* (Nothing of it changes once the program runs.)
FlowsMatch ==
  Running /\ regular /\ loaded = 0 => \A q \in Parts :
    /\ \A f, g \in aie[q].flows : f.dir = g.dir /\ f # g =>
         f.shim # g.shim /\ <<f.tile, f.chan>> # <<g.tile, g.chan>>
    /\ \A k \in Numbers(q) : \A xy \in TileIds(Herd(q, k)) :
         \A d \in ToSet(getAIRDmaMemcpyInBlock(Code(q, k, xy))) :
           LET r == shimRequest(aie[q].metadata[k], d.id, copyArgs(xy))
           IN  \E f \in aie[q].flows :
                 /\ f.dir = d.dir /\ f.shim = r.shim /\ f.tile = TileOf(q, k, xy)
                 /\ \E i \in 1..Len(aie[q].bds[<<f.tile, f.dir, f.chan>>]) :
                      aie[q].bds[<<f.tile, f.dir, f.chan>>][i].id = d.id

\* While the host copies for a herd, that herd is the active one and the
\* array is configured for its partition.
HerdLoaded ==
  regular /\ copying # None =>
    /\ active = [part |-> host[hostpc].part, herd |-> host[hostpc].herd]
    /\ loaded = host[hostpc].part

\* What arrives for an id of a tile is, block by block, what the tile
\* computes when its herd is run sequentially.
Expected(key) == Ref(meaning[<<key[1], key[2], key[4]>>], key[3], <<>>)
Delivered == regular => \A key \in DOMAIN outs : IsPrefix(outs[key], Expected(key))

\* The host comes to its end, with everything delivered: no copy, core or
\* channel waits for ever.
Completes ==
  regular ~> hostpc > Len(host) /\ \A key \in DOMAIN outs : outs[key] = Expected(key)
=============================================================================
