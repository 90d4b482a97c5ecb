# TLA+ models of MLIR-AIR

MLIR-AIR compiles programs for AMD's AIE arrays and runs them: a compiler
(`mlir/`), a host runtime (`runtime_lib/airhost`), the firmware of the
controllers on the device (`runtime_lib/controller`) and a simulator of the
asynchronous dependency graphs the compiler builds (`mlir/lib/Util/Runner.cpp`).
These modules model the parts of it whose correctness depends on order: what
two processors write to the same memory, what a firmware loop does while the
DMAs it started are still running, what a scheduler starts before what, and
what a compiler pass leaves of the order and the data of the program it
rewrites.

## The system

| Part | State | Operations | Talks to |
| --- | --- | --- | --- |
| Packet queue, `air_queue.h`, `queue.cpp`, `main()` of `controller/main.cpp` | a ring of 48 packets, `write_index`, `read_index`, `doorbell`, `last_doorbell`, a completion signal per packet | reserve, fill, publish, dispatch, wait; poll the doorbell, fetch, handle, complete, advance | host and controller share the memory, no locks |
| Agent dispatch, `handle_agent_dispatch_packet` | 80 staging slots, `num_active_packets`, `packets_processed`, `last_slot` | handle a packet, stage an ND copy, resume a stalled one round robin, peek at the next packet | queue, shim DMAs |
| ND copy, `do_packet_nd_memcpy` | three indices and three addresses in a checkpoint | push a buffer descriptor, stall, resume, wait for idle | shim DMA |
| Shim DMA programming, `xaie_shim_dma_*` | `last_bd[8]`, 16 buffer descriptors per column, the hardware's start queues | push a descriptor, read the number outstanding, wait for idle | AIE hardware |
| Barrier packets, `handle_barrier_and_packet`, `handle_barrier_or_packet`, `signal_wait` | five dependency signals | wait, complete | other packets' signals, shared signals, other controllers |
| UART lock, `lock_uart`, `unlock_uart` | two words of shared memory | lock, unlock, initialise by controller 0 | all controllers |
| Host runtime, `host.cpp` | active module, partition, herd, agents, queue | init, module load and unload, partition load, herd load, wait_all | libxaie, queue, the tables the compiler leaves |
| Host memory, `memory.cpp` | bounce buffer, bump allocator of device memory | ND copies for the compiled program, allocation | queue |
| RDMA, `network.cpp`, `pcie-ernic.cpp`, its allocator | queue pairs with send and receive queues, doorbells, PSNs | create a QP, post WQEs and RQEs, poll, send, receive, barrier, advertise a region | other hosts over RoCE |
| Runner, `Runner.cpp`, `CostModel.cpp` | a token count per graph vertex, wavefronts, time, trip counts of loops, channels | execute, advance time, start what is ready, reset a loop body, enter a hierarchy op | dependency graph |
| Dependency analysis, `AIRDependency.cpp`, `Dependency.cpp`, `AIRDependencyCanonicalize.cpp`, `AIRDependencyScheduleOpt.cpp`, `AIRMiscPasses.cpp` | the program, the graph of asynchronous events, tokens | trace operands, reduce, carry tokens through loops, canonicalise, hoist, prune, broadcast | the passes before and after it, through the IR |
| Channels, `ConvertToAIRPass.cpp` | the program | turn DMAs into puts and gets, hoist the external one, trace its dependences | dependency analysis |
| Placement, `AIRHerdAssignPass.cpp`, `AIRHerdPlacementPass.cpp` | a grid of occupied tiles | sort herds, place each | `AIRToAIEPass.cpp` |
| `AIRToAIEPass.cpp`, `AIRLoweringPass.cpp`, `AIRRtToLLVMPass.cpp` | cores, locks, descriptors, flows, metadata; the host program and its tables | outline cores, allocate channels, locks and descriptors, lower to the runtime's calls | host runtime, hardware |
| Loop transforms, `AIRAutomaticTilingPass.cpp`, `AIRLoopPermutation.cpp`, `AIRLoopMerging.cpp`, `AIRRegularizeLoopPass.cpp`, `AffineLoopOptPass.cpp`, `Util.cpp` | loop nests with labels | tile, permute, merge, regularize, make herds and launches of parallel loops | each other, through labels |
| Dialects, Linalg transforms, Python bindings, tools | IR | rewriting of single ops | MLIR |

What makes it hard. The queue is shared by a host thread and a firmware loop
that may interleave between any two stores, and its three signalling words
(header, completion signal, doorbell) are written in an order that matters. The
firmware completes ND copies out of order, yet advances its read index by a
count. Its copies stop and resume at any descriptor. Its locks are two plain
words. Two agents, a driver and a controller, work off the same receive queue
and each keeps its own count. The simulator must start an event after the events
it depends on, again in each iteration of a loop. A pass that moves an op must
find everybody who waited for it, in every scope and across iterations, and what
one pass leaves is what the next relies on. The compiler lays out tables that the
host searches by name. None of this shows up in a test that runs once and
compares memory, or compares the text of one pass's output.

## What makes each part correct

- Queue: every published packet is handled once, in order and whole; a wait
  returns only for a completed packet; a slot is not rewritten early; no
  wake-up is lost; a wait returns.
- Agent dispatch: no packet is skipped or completed twice, an ND copy completes
  only when its DMA is idle, the read index never passes a packet that is not
  done.
- ND copy: the addresses pushed are those of the four nested loops, wherever it
  stalled; from the program to the DMA, the region its view names is what moves.
- Shim DMA: a buffer descriptor is not rewritten while the hardware uses it,
  however the columns that share a pointer are served.
- Barriers: an AND barrier waits for all of its signals, an OR barrier for one;
  `air_wait_all` waits for everything it was given; barriers do not wait for ever
  for each other.
- UART lock: one holder at a time; a free lock can be taken.
- RDMA: a receive is matched by one send, the barrier separates phases, a remote
  tensor is where its owner said, every call returns.
- Runner: an op is simulated after its dependencies and exactly as often as the
  program executes it, and the simulation ends.
- Dependency passes: any two executions of ops that conflict stay ordered as in
  the sequential program, every token is used where it is defined, and the
  memory is the same in the end.
- Placement: herds do not overlap and stay on the grid; the pass gives up only
  when there is no room.
- air-to-aie with its host side: each copy goes over the flow of its tile, the
  cores, DMAs and the host compute what the program says, to its end.
- Loop transforms: the statement in a nest is executed as often and with the
  same values as before.

## Modules

| Module | Models | EXTENDS / INSTANCEs |
| --- | --- | --- |
| `PacketFifo` | what the queue promises: post at the end, perform the oldest | |
| `AirQueue` | host thread and packet loop, store by store | `PacketFifo` |
| `AgentDispatch` | the dispatch handler over a ring, staging slots and DMA channels | |
| `CopyLane` | what the dispatch handler relies on when it runs an ND copy | |
| `NdMemcpy` | the walk of one ND copy, with addresses and checkpoints | `CopyLane` |
| `ShimDma` | descriptors and start queues of one channel of several columns | |
| `CopyPath`, `CopyPathMC` | a copy from `memref.copy` through the call, the bounce buffer and the packet to the descriptors | `NdMemcpy`, `ShimDma` |
| `Barriers`, `BarriersMC` | several controllers with AND and OR barrier packets | |
| `UartLock` | the lock all controllers share | |
| `Rdma`, `RdmaMC` | hosts, queue pairs, device memory | |
| `DependencyGraph` | the graphs of a program that `Dependency.cpp` parses | |
| `Runner`, `RunnerMC` | the simulation of a program | `DependencyGraph` |
| `AsyncProgram` | a program with tiles and tokens, and what it means: events, which of them must be ordered, which are, the memory it leaves | |
| `AirDependency` | air-dependency | `AsyncProgram` |
| `AirCanonicalize` | air-dependency-canonicalize | `AirDependency` |
| `AirScheduleOpt` | air-dependency-schedule-opt | `AirCanonicalize` |
| `AirBroadcast` | air-specialize-dma-broadcast | `AirScheduleOpt` |
| `AirChannels`, `AirDependencyMC` | air-dma-to-channel | `AirBroadcast` |
| `HerdPlacement` | air-place-herds | |
| `HerdBody` | the blocks that herds are made of, and the walks over them | |
| `AirToAie` | air-to-aie: cores, locks, descriptors, flows, metadata | `HerdBody` |
| `AirHost` | air-to-std, airrt-to-llvm and the runtime's lookups | `HerdBody` |
| `HerdRun`, `HerdRunMC` | a program placed, compiled and run on the array | `HerdPlacement`, `AirToAie`, `AirHost` |
| `LoopNests` | loop nests and what they execute | |
| `LoopPasses` | tiling, permutation, merging, regularizing | `LoopNests` |
| `ParallelPasses`, `LoopPassesMC` | parallel loops to herds and launches | `LoopPasses` |
| `IndexLemmas` | facts about slots of a ring and positions in nested loops, for the proofs | `TLAPS` |
| `AirQueueProofs`, `AgentDispatchProofs`, `BarriersProofs`, `UartLockProofs`, `HerdRunProofs`, `CopyPathProofs` (with `NdMemcpy` and `ShimDma`), `RdmaProofs` | theorems and proofs | the modules they are about, `TLAPS` |

The models meet at their interfaces. `AirQueue` establishes that packets reach
the handler whole and in order and that the ring does not overwrite itself;
`AgentDispatch` therefore posts and completes a packet in one step, and `Barriers`
takes two to post it: the header, by which it is visible, and the signal.
`AgentDispatch` embeds the steps of `CopyLane` (push while below the threshold,
leave unfinished, complete when nothing is left or outstanding) on each lane;
`NdMemcpy` is shown to implement `CopyLane`; alone it assumes that a push is
executed with the address it was given, which `ShimDma` shows of a column that is
not lapped.
`CopyPath` runs the two together, with the compiler and the host before them.
`HerdRun` takes the copy of a whole block as a step, which is what those modules
are about. The five dependency passes are one state machine that takes a program
from pass to pass; so are the loop passes, which run in any order.

### AirQueue

One variable per word of shared memory: `header`, `payload` (standing for type
and arguments, as the index of the packet they belong to), `signal` per slot, and
`write_index`, `read_index`, `doorbell`, `last_doorbell` of `queue_t`. `hpc` is
the host's place in `queue_add_write_index`, `initialize_packet`, an
`air_packet_*` function, `air_queue_dispatch` and `air_queue_wait`; `fpc` the
controller's in `main`. Each store is an action, and `signal->handle -= value`
is two. Host and controller interleave freely but each one's stores are seen in
program order: the code has no fences, and the ARM firmware turns its data cache
off at start.
Completion signals start with any value: `queue_create` does not write them.

`queue.cpp` never tests for a full ring, so the bound on packets in flight is the
client's: `Window`, assumed to fit in the ring (`WindowAssumption`).

### AgentDispatch

`rd_idx`, `last_slot`, `slot`, `num_active_packets` and `packets_processed` are
the handler's locals; `staged` is `staged_nd_slot` with the number of descriptors
a copy has left; `pc` is the point in the handler: `packet_op` the label of that
name, `memcpy` inside `do_packet_nd_memcpy`, `scan` the round robin, `peek` the
fetch of the next packet, `loop` the loop condition. The lane is the slot that
`channel + get_slot(col, space) + ...` yields; the test for the `active` flag is
left out because a staged packet is always active. A packet is an operation done
at once, an ND copy, a copy of another memory space (which is completed without
being done) or a barrier. The client keeps fewer packets in flight than the ring
has slots: the handler peeks at the slot after the last, and with a full ring
would come round to its own first packet. `skipped` is a history variable: a
copy found its lane busy and was passed over, after which packets may be lost
(see below); what depends on it not having happened says so.

### NdMemcpy

`local` is the six variables of the walk, `checkpoint` what the staging slot
keeps of them. Init takes every shape: three lengths and three strides. Stalls
happen whenever `outstanding` is at the threshold, and the idle wait times out
whenever something is outstanding, so the walk is left and resumed in every
place where the code allows it. Addresses do not wrap at 64 bits.

### ShimDma

One channel of one direction, so that a column has four descriptors and one start
queue; `last_bd` has one entry per parity of the column (main.cpp:697), and of the
sixteen columns in `shim_dma_cols` (59) eight have the same. `queued` counts the
descriptors the DMA has not executed, as `xaie_shim_dma_get_outstanding` reads
them from the status register. Whether the register also counts the descriptor
being executed is a matter of the hardware; the model takes it that it does.
`picks`, `given` and `lapped` are history variables: how often a pointer was taken,
which take each push was given, and which columns were given a descriptor four
takes after one that still waits in their start queue. That descriptor is rewritten
before the DMA has read it. `ExecutedUnlessLapped` says that nothing else goes
wrong, and that a column is lapped only through pushes to another of its parity.

### CopyPath

`stage` is how far one copy has come: `copy` in the program, `dma` as
`air.dma_memcpy_nd`, `call` of the runtime, `posted`, `completed`, `returned`;
`kept` and `failed` when a pass leaves it or gives up, `crashed` when the host
reads beyond the mapping or takes a signal for a buffer. A buffer is its shape,
its memory and a view (offset, size and step of each dimension); `args` are the
operands the passes leave, `ddr`, `bram` and `remote` the elements of the outer
buffer, the bounce buffer and the tile's. `PostCopy` gathers the region, the
steps of `NdMemcpy` and `ShimDma` move it row by row, `ReturnCopy` scatters it.
`Moved` says what should come of it from the definition of a view alone. A client
may also post packets of its own (`nd`, `cdma`), whose lengths are packed as
`air_packet_nd_memcpy` does: `bitor` is the "|" of two fields, a constant because
only TLC can use the bitwise operators; its instance is the bitwise or, and the
proofs need no more of it than that a zero changes nothing (`OrAssumption`).
`CopiesAssumption` says what a program may contain: buffers of one to four
dimensions with a view inside them, and packets of numbers. The walk's descriptor is pushed in one step with the
choice of the shim's (`PushBd`), and the walk waits while it is programmed, as
the code calls one from the other. While the walk is left, the dispatch loop may
serve another column (`OtherPush`), which in the instance has the same parity. A
descriptor that is being rewritten when the DMA comes to it is invalid and moves
nothing. `RegionCopied` promises a client its rows unless the column was lapped;
what it promises the program needs no such exception, because a copy of the
program is one row, and its column has nothing in the start queue before it.

### Barriers

`Post` makes a packet visible, `Arm` sets its signal to 1; between them, and before
`Arm` at all, a controller that is draining its ring may complete the packet, and
its decrement then wraps (`Word` stands for 2^64). `armed` is the set of packets a
client has set the signal of, the only ones it has an address of to name; `late` is
a history variable: packets whose signal was set when they were complete already.
A client may set a signal until it posts the next packet to the queue. Doorbells
are left out, the controllers look at their rings all the time: `AirQueue` has
them, and shows that none is lost (`EveryPacketHandled`).

A dependency is the index of a packet, of any queue, from which the address of its
signal follows: the slot it was posted to, whatever that slot holds now. `Null` is
the shared signal that is always zero. The handlers read one signal per step;
`dep` is which. An AND barrier's timeout starts over with the first signal, so
that waiting is a step that changes nothing but `dep`. Clients may name signals of
slots that are reused, as nothing in the code prevents.

So barriers of several queues, or of one, may come to wait for each other
(`WaitOnEachOther`, a set of controllers none of which waits for anything outside
of it). `OnlyMisledWaitForever` says when that can be: in the end every packet is
complete, or its controller is in such a set where one is `Misled`. It polls a
dependency that is complete, of which it is not told because the signal was set
after that or has become another packet's (`Missed`), or it is at an OR barrier that
came late for all the rest. What barriers name without such a mistake never makes
a circle, whichever controllers they are on.

### UartLock

`status` and `lockee` are the two words. `Booted = FALSE` starts before
controller 0's `unlock_uart()` in `main`, with any contents. `overlapped` is a
history variable: it records that two controllers were between seeing the lock
free and reading it back at the same time, or one was while controller 0 was at
its initial unlock. What the lock guarantees is stated relative to it.

### Rdma

The hosts of ranks 0 to `WorldSize - 1`, each with a sequence of calls; `todo` holds the steps left
of the call a host is in, so that calls of different hosts interleave. A call is
expanded into the driver's and the controller's steps: allocate, register,
advertise over the queue pair (the owner sends the two halves of a key and an
address), post a WQE, ring a doorbell, poll, take. A queue pair keeps what
`struct pcie_ernic_qp` counts (`sq_pidb`, `rq_pidb`, ...) apart from the
hardware's registers (`SQPI`, `RQPI`, `RQCI`), because the driver and the
controller both consume receptions and only one of them keeps the driver's count.
Device memory is a map from addresses to what was written last, so that a
receive queue that outgrows its page reaches the doorbell page and what was
allocated after it. `posted` and `taken` are history variables. The network card
and the controller's handling of a packet are not in the repository: they are
modelled as `air_send` and `air_recv` use them, reliable and in order.

What the hosts call is a constant, and the properties need three things of it
(`ProgramsAssumption`). The calls of two hosts are matched: what either submits
to the other in the course of its calls (`Script`), the other takes in the course
of its own. A host messages with tensors it has allocated itself (`Owned`). And it
allocates a tensor once (`Distinct`): the table's key is the buffer that was just
allocated, and device memory is never given back.
`RdmaAssumption` says what the driver's constants do, that the page of a receive
queue (16 entries) is smaller than the depth the hardware is told (256).
`Regular` are the programs and executions the driver is made for: allocations
come before messages, what a queue pair has carried so far fits the page (`Fits`),
and a registered tensor fits the registered length.

### DependencyGraph and Runner

A program names its ops with their graph, dependencies and loop. `GraphEdges` is
what `parseCommandGraphs` builds: an edge per token, traced through the results
and arguments of loops, a terminator behind the leaves, a start vertex in front.
An `air.execute` is two vertices. In `Runner`, `stage` says which list of its
node an event is in (`wavefront`, `processed_vertices`), `start_time` and
`end_time` are the graph's attributes, `trips` is `loop_trip_count` and
`token_count` the counts that loops and channels hand out. `StartReady` is one
call of `processGraph`'s search for ready events, `Execute` the branch of
`executeOp` for the kind of the event, with the reset of a loop body and of the
sub-graphs in it, `Advance` the clock and `Relaunch` the next iteration of the
launch. `began` is a history variable. The latency of an event is a parameter
in place of the cost model.

### AsyncProgram and the dependency passes

`AsyncProgram` defines what the passes must keep. An event is an op with a number
for every loop around it (two iterations each). `MustPrecede` has the pairs of
events that touch overlapping tiles, one of them writing, in the order of the
sequential program; `Before` the order that the tokens impose, with the tokens of
an `scf.for` handed from iteration to iteration, and those of a parallel loop to
all. `FinalMemory` runs the program and keeps, for each tile in the memory, what
it was computed from.

`AirDependency` walks the ops of the input in post-order, one `Trace` per op as
`runOnOperation` does: the RAW, WAR and WAW search of its operands (`History` is
the part of the program that was seen), scalar operands, kernel arguments through
the hierarchy op's operands; then the transitive reduction, and the second walk
that gives loops a `wait_all` before them, one at the end of the body and an
iteration argument (`Carry`). `AirCanonicalize` parses the tokens back into a
graph, reduces it, writes the lists again, and removes executes and `wait_all`s.
`AirScheduleOpt` is `HoistDmaInAccumPattern`, `PruneLinalgGenericInputDma` and
the detection of broadcasts, `AirBroadcast` their specialisation with the
constants propagated through the scalar ops, `AirChannels` the conversion of DMAs
to puts and gets: the inner op where the DMA was, the outer one in a copy of
the backward slice of its operands, before the hierarchy op; and the tracing of
its dependences. `phase` is how far the program has come.

What the passes rely on without a check is a premise, and the history variable
`assumed` says whether it has held so far:

- `WritesSeen`: a kernel argument that is only written as output of linalg ops is
  taken for read (AIRDependency.cpp:1068).
- `BodiesConnected`: a loop inside a parallel loop inside an `scf.for` does not
  get the token of the iteration (1646).
- `Accumulates`: a hoisted pair of DMAs is alone with its tile in the loop, its
  indices are defined outside, and the dealloc waits for the outgoing one only.
- No other op waits for a DMA that is pruned (the erasure asserts it).
- `Aligned`, `StillOrdered`: a herd with a broadcast is square, the id is in the
  offset of its own dimension and only its ops are behind it; and a specialised
  DMA was not the only link between a scalar op and another user of it.
- `Separable`, `Regular` of `AirChannels`: what is hoisted with a DMA is made of
  loops, allocs, scalar ops and DMAs directly in the hierarchy op, and a
  specialised DMA no longer depends on the tile ids.
- `NotAwaited` is an exception rather than a premise: what follows an external
  get in the same iteration is not ordered behind it, since the token of the DMA
  is given to the internal put (ConvertToAIRPass.cpp:748).

### HerdPlacement, AirToAie, AirHost and HerdRun

`HerdPlacement` visits the cells of a partition's grid one by one, as the nested
loops do, and takes the first herd that fits at each. `std::sort` is not stable,
so herds of equal size come in any order. `HerdBody` says what the body of a herd
may be: the set `Blocks` of all blocks of given kinds of operations, nested no
deeper than `MaxDepth`, with the walks over them as recursive functions on that
set. `AirToAie` are pure operators: the core
programs of a herd with their `affine.if`s decided (`isInSet`), the DMA channels
that the allocators give each copy, in the order in which they would be asked,
the locks at the front of a block and behind it, the ring of buffer descriptors
per channel, the flows and the metadata. `AirHost` has the host program (loops
over the tiles of a herd, in which copies remain), the descriptors, the lookup of
partitions and herds by names of a given length, and the choice of the shim DMA.

`HerdRun` puts them together: `PlaceStep`, `Compile`, then host steps
(`PartitionLoad`, `HerdLoad`, `IssueCopy`), a DMA that takes the lock of its
descriptor (`BdAcquire`) and moves a block between host and tile (`Transfer`),
and a step of a core. `Meaning` runs each herd sequentially as the source says;
`outs` is what has really arrived. `Regular` collects what the compiler takes
for granted: `NamesApart` (a name is not the beginning of another, since the
strings have no end), `IdsApart` (ids of DMAs are different in different herds,
at most 16, and an id has one direction), `ShimsSuffice` (no partition needs
more than the 32 shim channels of a direction, which the allocator does not
test), `StartsAgain` (a second launch loads the partition again, or the cores
loop), `TwoConstraints` (an `affine.if` has two), `Orderly` (a block copies in
before it copies out), `ChannelsTogether` (copies of one channel are in one
block, and a buffer is in it once), `PipesShort` (a tile puts to one tile and
gets from one, as often as it is put to, and no more blocks than the locks
between them hold while the host serves one tile after the other).

### LoopNests, LoopPasses and ParallelPasses

A nest is a list of loops with bounds as linear forms, the ops between them, and
the values its statement uses; `Executed` enumerates the values of every
execution of the statement. An action is one pass with its options on the whole
function: the bands it finds by label (of its first loop), the new nest, and the
label, which is read from a loop that has just been erased and so may be any of
the two the pass can come to. `outcome` records that the pass signals failure,
runs into an assertion or writes past the end of an array. Premises
(`NoChains`, `TilingAssumes`, `MergeAssumes`, `OneDepth`) are again in `assumed`.

## Runs

| Run | Instance | Shows |
| --- | --- | --- |
| `queue` | ring of 3, window 3, 6 packets | `InOrderOnce`, `WaitIsSound`, `NoOverwrite`, no lost wake-up (`EveryPacketHandled`), `RefinesFifo` |
| `queue_wait` | ring of 2 | a wait that never returns (a violation, see below) |
| `dispatch` | ring of 4, window 3, 4 packets, 2 lanes, 2 descriptors, threshold 1 | completion out of order loses nothing: `ReadIndexExact`, `BarrierOrders`, `CompleteMeansMoved`, `StagedIsLive`, `CompletesUnlessSkipped` |
| `copy_path` | eleven views of buffers of one to four dimensions in every direction, all packets of lengths 0..3 and up to six rows, threshold 4, columns 2 and 6 | `RowsInOrder`, `DoneMeansCopied`, `RefinesLane`, `ExecutedUnlessLapped`, `RegionCopied`, `CallReturns` |
| `cdma_copy` | packets of one to four words in both directions | a packet that completes and does nothing (a violation, see below) |
| `barriers` | 2 controllers, rings of 2, 2 dependencies; any 3 packets, or 4 with a barrier on each side | `Delays` for AND and OR barriers, `OnlyMisledWaitForever` |
| `uart` | 3 controllers from power-on, 2 locks each | exclusive and not lost unless attempts overlap; everyone gets it |
| `rdma` | 3 hosts, six schedules, pages of 8 entries | `InOrder`, `Barrier`, `Reachable`, `Completes` |
| `runner` | loops of three ops with one and two tokens, DMAs, executes, nested loops, partitions, channels, two launches | `InOrder`, `NoneMissing`, `NoneLeft`, `Completes` |
| `dependency` | all programs of three accesses in thirteen nests, and tiled herds | `Dominated`, `OrderKept`, `SameOrder`, `SameData` |
| `aie` | eleven programs, up to 2 x 4 tiles, up to 3 launches | `Disjoint`, `NoRoomLeft`, `FlowsMatch`, `HerdLoaded`, `Delivered`, `Completes` |
| `loops` | pipelines of three passes on twenty-one functions | `SameExecution` |

Why the bounds are enough. `queue` sends 6 packets through 3 slots, so every slot
is reused with a stale header, payload and signal in it; in `barriers` a third
packet reuses a slot of two, and in `dispatch` the read index and the peek wrap.
The firmware's ring of 48 differs only in how long that takes. Two
lanes are enough for the round robin to find another copy, to find none, and to
skip the lane it comes from. Two descriptors with threshold 1 stall in the middle
of a copy. Lengths up to 3 have a first, a middle and a last row in each
dimension, and 0 an empty one. Six pushes reuse descriptors of a set of four,
with two of another column between them, which is enough to lap it; a mapping of 32 bytes stands for the
0x8000 of the bounce buffer, with two views that do not fit. Two
controllers are what it takes to wait for each other. Each of them is then at a
barrier that names a slot of the other, and since what a barrier names was posted
before it, one of the slots has been reused: that takes four packets. `Loads`
bounds what each controller is given: any three packets to one, two and another to
its peer, or two plain packets and an AND barrier to one and a barrier of either
kind to the other. Which of the two controllers gets more makes no difference.

Three hosts are the least where a barrier can separate two hosts that do not
talk to each other, and where the queue pairs of one host lie one behind the
other in its memory; one of the schedules sends more than a page holds. In the
runner, three iterations of three ops let a token be a full iteration ahead or
behind, and the two sets of latencies let either side of a race be first. Three
accesses of two memrefs are the least for a dependence that another path makes
redundant, and two iterations the least for one carried by a loop; the
seven kinds of access in thirteen nests give every pair of loop, parallel loop
and hierarchy op around it. The tiled programs have every kind of scalar op
between an id and an offset. Herds up to 2 x 4 share DMA channels, shims and
locks, and three launches find the partition loaded, replaced and idle. A
pipeline of three passes has one whose output a second reads, and a third that
reads what both left.

Every property of a passing run has a mutant, an operator beside the definition
it changes and marked as one, under which the run fails.

`CHECK_DEADLOCK FALSE` everywhere: a behaviour ends when the bounded number of
packets, pushes, locks, calls or passes is used up, and a host that waits for
ever is stated as a liveness property instead.

## Fairness

The controllers run one endless loop and never sleep, so their steps are weakly
fair. A host call that has begun runs on (`HostStep`), but nothing makes a client
begin one. DMA channels finish what they were given, weakly fair per channel; the
hardware does not refuse a started descriptor unless the stream behind it stops,
which is the program's affair. In `Rdma` each host runs on by itself, and each
queue pair delivers what is in it. The simulation of `Runner` is one loop of one
thread: `WF_vars(Next)`. In `HerdRun` the host thread, the DMAs and each core go
on by themselves; nobody has to compile a program. No strong fairness is used:
spinning in `lock_uart`, polling a barrier's signals and waiting for a lock of
the array are enabled all the time, or stay enabled until the step is taken. The
passes of the compiler make no promise of progress.

## What was found

Two disagreements with the repository's own words are runs of their own:

- *A wait may never return* (`queue_wait`). `air_queue_dispatch_and_wait` stores 1
  to the completion signal after the header has been published. A controller that
  is still draining the ring for an earlier doorbell completes the packet first.
- *A CDMA packet copies nothing* (`cdma_copy`). The dispatch has no case for the
  type `air_packet_cdma_memcpy` posts; the default completes it, and
  `handle_packet_cdma` is called by nobody. `test/level2-tests/111_levels` copies
  to and from L2 with such packets.

The others are premises of the properties, each of them found by checking the
property without it:

- *A busy lane drops a packet.* "slot busy, retry" (main.cpp:1586) does not
  retry: later packets complete and the read index counts past the skipped one.
  `dispatch` excepts it by `skipped`.
- *Columns share descriptor pointers.* Two columns of the same parity advance one
  `last_bd` entry; the next descriptor of a column may be one that is still
  queued. With columns 2 and 6, as `copy_path` has them, a row of a client's copy is
  lost and another moved twice; `ExecutedUnlessLapped` says exactly when.
- *Copies the path does not make* (`Regular`, `Narrow`): the innermost stride is
  dropped on the way (AIRLoweringPass.cpp:416), so a view with a step there moves
  other elements; without a view on the L3 side the call copies a single element;
  a copy between L3 and L2 passes its signal where the runtime has its first
  buffer (memory.cpp:478); one from L2 to a tile completes without having moved
  anything (main.cpp:1428); lengths and strides of 2^16 and more run into the
  field next to theirs (queue.cpp:431); nothing compares a copy with the 0x8000
  bytes mapped of the bounce buffer.
- *Tokens outlive their packets.* An AND barrier waits for the packet that now
  has the slot, even if that packet is behind it, is the barrier itself, or waits
  for the barrier on another controller. The same comes of a signal that is set when
  its packet is complete.
- *OR barriers reject completed dependencies.* `signal_wait` returns its default,
  here 1, for a signal that is already 0. With the signals of the previous item
  these are the only causes of a wait without end (`OnlyMisledWaitForever`).
- *The UART lock is not a lock when attempts overlap*: two controllers may both
  read back what they want, the unlock of one releases the other's, and the lock
  can be left taken by nobody, which stops every controller.
- *air_send repeats its first chunk*: `rqe_offset` is never advanced
  (network.cpp:462), so a message of more than 256 bytes arrives as copies of its
  beginning. The messages of `Rdma` are distinguished by call, not by chunk.
- *The driver's count and the controller's*: an allocation after a message makes
  the driver read old entries (`AllocsFirst`), and sixteen entries in a page are
  fewer than the depth of 256 the hardware is told (`Fits`).
- *Stale sub-graphs in the runner* (`NotStale`): resetting a loop body resets a
  copy of the graph of a hierarchy op, and an op that waits for it and for
  something else goes ahead of it. One token count serves all iteration arguments
  of an op (`OneArg`), and a put's also counts its channel (`PutsApart`).
- *The tile ids of broadcasts*: the number of partitions is taken from the other
  dimension of the herd, so the 8 x 2 herd of `docs/AIRAsyncConcurrency.md` gets
  the wrong one; several scalar ops behind an offset are all applied to the
  constant, and their dependences erased; a constant that cannot be propagated
  leaves the id in place, which becomes 0 when the op is hoisted.
- *Nobody waits for an external get* (`NotAwaited`): a later read, a dealloc or a
  put in the same iteration. An accumulating herd's hoisted get and put of one
  tile are not ordered either.
- *A one-constraint `affine.if`* takes its else branch on every tile
  (AIRToAIEPass.cpp:464), copies of one channel in different blocks get
  descriptors in the wrong order (1395), and a block that copies out before it
  copies in waits for ever (1355).
- *Names without an end*: `getOrCreateAIRString` leaves no terminator, and the
  runtime compares as many characters as the descriptor's name has.
- *Automatic tiling*: `forOpLevel` is static and never set back, so that the
  second band of a process is written past its array (line 180, against the
  comment at line 62). Bands whose outer loops are not normal lose the op just
  inserted. Regularizing moves an op inward and leaves its user outside
  (`NoChains`); merging ignores steps and gaps between levels (`MergeAssumes`);
  permuting loses the label when the outermost loop stays where it is.
- *air-par-to-herd* converts `affine.parallel` whatever the depth option
  (Passes.td:26) says; the description has air-par-to-launch take
  `affine.parallel` (36), which only `scf.parallel` is. With a negative depth and
  nested loops a herd ends up in a herd (`OneDepth`).

Seen, but in no model: `air_wait_all` drops signals past five (host.cpp:588); `get_slot` answers 0 for a
column without a shim (main.cpp:1301); `shim_dma_cols` has 16 entries and
the allocation no bound; metadata of ids above 16 or herds above 8 is written past
`cols[16][8][8]`; `wait_all_1_n` blocks and returns null; a hierarchy op's
tokens become a `wait_all` of its dependences in front of its body;
`pushTileIndexAsDep` adds the id of a hierarchy op as a token; the third branch
of the broadcast detection cannot be reached (`hl_op` is null there);
`normalizeScfParallel` changes the first dimensions before it fails on a later
one.

## Proofs

All theorems hold for every value of the constants that satisfies the named
assumptions; TLC checks the same properties on the instances above.

- `AirQueueProofs`: `InOrderOnce`, `WaitIsSound`, `NoOverwrite`, `TypeOK` (which
  no run needs besides) and `RefinesFifo`, from `QueueAssumption` and `WindowAssumption`. `IInv` says, per
  slot, which packet's contents, header and signal it holds as a function of
  `write_index`, the number of packets handled, and both program counters. The
  properties are not inductive alone: that a signal is 0 says nothing unless the
  slot's last armed packet is known. `IndexLemmas` has what is needed of `%`:
  two indices less than `Size` apart have different slots.
- `AgentDispatchProofs`: `StagedIsLive`, `CompleteMeansMoved`, `BarrierOrders`,
  `ReadIndexExact` and `TypeOK`, from `DispatchAssumption`, whose `Window < Size`
  is what the proof turns on. `Inv` has a part for each reason the properties are
  not inductive. `Ring`: a slot's header is that of the one live packet in it,
  and the packets in flight fit the window. `Copies`: what is left, in the DMA
  and moved add up to `Descriptors`. `Running`: `num_active_packets` is one more
  than the staged copies, except between finding a packet or staging a copy and
  counting it (`uncounted`), and the packet at `rd_idx` is less than a ring from
  the oldest, so that the next slot's header can only be the next packet's.
  `InOrder`: while nothing was passed over, what lies behind `rd_idx` is complete
  or staged, nothing ahead is complete, and `base`, where the run through the
  ring began, does not move, although `read_index` is only advanced at the end and
  by a count of completions. `Counted` bounds that count. TLC checked `Inv` on
  rings of four slots with five packets.
- `BarriersProofs`: `Delays`, `TypeOK` and `NoTrueCircle`, from `BarrierAssumption`. A dependency
  is the address of a slot, so the proof has to say what a zero there means
  after the slot was reused. `Inv` numbers the packets of each queue with two
  witnesses the code does not keep: `rank`, a packet's number, whose remainder is
  its slot, and `passed`, how many are complete, whose remainder is `read_index`.
  `SlotsTell`: a header is clear exactly when every packet that ever had the slot is
  complete. Of a signal that is only half true, since it may be set late or not at
  all; what holds is that a slot that had an armed packet shows zero only when all
  its packets are complete (`SignalsTell`), and that what a barrier names was armed
  and posted before it (`NamedAreArmed`). That makes a zero mean what the barrier
  takes it for.
  `Handling` is what a barrier's handler has seen so far, `AllMet` the property
  for the barrier itself; that it holds for the packets behind it follows from
  their numbers. `NoTrueCircle` is the safety part of `OnlyMisledWaitForever`: in
  every state, of controllers that wait for each other one is misled. Among the
  barriers they are at, take the one posted first. What it waits for was posted
  earlier and is not complete, if it is not misled; but that packet is in the ring of
  one of the controllers, not before the barrier that one is at, which was posted
  later still.
- `CopyPathProofs`, about `NdMemcpy`: `RowsInOrder`, `DoneMeansCopied` and
  `RefinesLane`, from `CopyAssumption`. `WalkInv` gives the three running
  addresses and the length of `pushed` as functions of the three indices, for the
  locals and for the checkpoint, at each point of the loops; the products are
  handled by lemmas on positions in nested loops.
- `CopyPathProofs`, about `ShimDma`: `ExecutedUnlessLapped` and the types, from
  `ShimAssumption` alone, whatever columns share a pointer. The invariant says which
  take of its parity's pointer each queued push was given (`GivenInv`), that a
  pointer is the number of its takes modulo 4 (`PointerInv`), and that takes in a
  queue only grow, so that less than four takes apart no two descriptors are the
  same; and that a column, while nothing was pushed to another of its parity, has all
  the takes of its pointer (`AloneInv`), so that with fewer than four outstanding it is
  not lapped.
- `CopyPathProofs`, about `CopyPath`: `RegionCopied` of the whole path, with `RowsInOrder`,
  `DoneMeansCopied`, `RefinesLane` and `ExecutedUnlessLapped` as they hold on it, from
  `PathAssumption`, `CopiesAssumption` and `OrAssumption`. A threshold of at most four (`Stall`) keeps
  the start queue from overflowing. `RegionCopied` compares what the host's caller
  finds in its buffer with the view it named, and knows nothing of packets and
  rows, so `PathInv` has to connect the two ends at every stage between:
  `ArgsInv`, that the arguments are those the passes make of the copy's view;
  `PacketInv`, that the packet has their lengths and strides; `LinkInv`, that what
  the walk pushed is what the shim DMA executed or still holds, and that nothing is
  outstanding when the packet completes (a copy of the program is one row at most,
  whose column is not lapped, `RowNotLapped`); `DataInv`, which elements of the three
  buffers the executed rows have moved (`ToTileInv`, `FromTileInv`) and that
  nothing else changed (`Untouched`). Two enumerations of one region meet there:
  the runtime packs the region densely and walks it row by row, a view is the set
  of its index tuples. `Digits` says each position below the product of the sizes
  is one tuple, `RowAt` the same of the rows, and the folds that compute products
  and starts are unfolded for up to four dimensions. TLC checked `PathInv` on the
  instance of the run before it was proved.
- `RdmaProofs`: `InOrder`, `Barrier` and `Reachable` for any number of hosts, from
  `RdmaAssumption` and `ProgramsAssumption`. A host's calls are lists of steps made
  by joining lists; lemmas say what the k-th step of each call is (`stepAt`) and
  how far it takes the host in its exchange with a peer (`progress`), so that a
  state is a position in every exchange (`pos`). `RInv` has `TodoInv`, which steps
  are left; `HistoryInv`, that what was posted and taken is what the exchange says
  up to that position; `TableInv`, where the tensors lie; and for `Regular`
  executions `CountInv`, that the driver's two counts, the controller's and the
  hardware's registers are all numbers of messages; `DataInv`, that what is on its
  way lies in the memory the hardware will read, and what is delivered in the
  entry the receiver will read; and `TakenInv`. `InOrder` is not inductive without
  them: that an entry is not overwritten depends on where the other host is in its
  own calls, which only the matching of the exchanges says, and on a sender waiting
  after each message that carries data. `Regular` shrinks as a run goes on
  (`Fits` is about the messages so far), so the proof goes from `Regular'` back to
  `Regular`. `Barrier` numbers the parts of an exchange that belong to barriers:
  the numbering is the same on both sides, a part taken was submitted (`Answered`),
  and rank 0 submits none of its answers to the n-th barrier before it has taken
  the n-th from every host (`HeardOfAll`), which gives the property between any two
  hosts. `Reachable` needs `ReachInv` besides: a tensor is made once and is the
  highest of its host while it is registered and advertised (`FreshOf`); an address
  that was submitted is that of the tensor the exchange names at that place
  (`SealedOf`), so that the peer's call, which takes it at the same place, is about
  the same tensor (`GotOf`, `RemoteOf`); and the tensor registered last for a host
  lies in the window, behind all others that were ever advertised to it
  (`WindowOf`). TLC checked `RInv` and `ReachInv` on the instance of the run before
  they were proved.
- `HerdRunProofs`, about `HerdPlacement`: `Disjoint` and `NoRoomLeft`, from
  `ModulesAssumption` (grids have no negative size, herds are not empty). `PlaceInv`
  says of the partition being placed that each herd waits or has all the cells of
  its footprint (`AllHeld`), and that none that waits fits on a cell the walk has
  passed (`Tried`): cells only fill up, and a herd that fits a free cell takes it.
  That the walk passes every cell is arithmetic on rows and columns; that sorting
  leaves no herd out is the counting of an injection. `Places` carries this over
  to `HerdRun`.
- `HerdRunProofs`, about `HerdRun`: `HerdLoaded` and `FlowsMatch`, from the same
  assumption, `BodiesAssumption` (bodies are blocks) and `DepthAssumption`. Both
  are about what operators on blocks compute. That those recursive functions are
  what their recursions say is proved depth by depth (`SpecialIs`, `SourceIs`,
  `WalkIs`, `HostIs`): the set of depths up to which a function exists has 0 and
  every successor, hence all of them (`UpTo`).
  `HerdLoaded` needs `HostInv`: as long as the host's last operation was the
  loading of a herd or a copy for it, that herd is the active one. It is inductive
  because in the host program a copy only follows the loading of its herd or
  another copy of it (`Led`, a set of programs closed under concatenation,
  `LedCloses`), and because a name that does not begin with another finds only its
  own descriptor (`LoadFinds`).
  `FlowsMatch` needs `FlowsInv`: once a program is compiled its offsets are those
  the placement left, and the tables agree (`Agrees`). For one partition
  (`CompiledAgrees`), the cores are those of the herds' tiles and no two have one
  tile, which is `Disjoint`; the allocations, made one by one over all copies of
  all cores, keep that there is one for every copy that was asked for, that each
  id of it comes from a copy at that tile and channel, and that no two have one
  tile and channel (`Allocates`, `AllocsAre`); so the entry of the herd's metadata
  for an id, row and column is the only one, and its location and channel are the
  shim end of the allocation's flow (`HostFinds`), whose tile end has the copy in
  its ring (`HasDescriptor`). `ShimsSuffice` is what keeps the shim channels apart
  (`ShimsApart`): with more allocations the index would run past the columns.
- `UartLockProofs`: `ExclusiveUnlessOverlapped` and `NotLostUnlessOverlapped`,
  from `LockAssumption`: while nothing overlapped, at most one controller
  is past the test, and the two words say which step it is at.

Only model-checked: every liveness property (fairness and `ENABLED` are beyond the
prover), the runner, the dependency passes, the loop passes, and `Delivered` of
`HerdRun`. `LoopNests` and `LoopPasses` use RECURSIVE operators, which the prover
does not take. What `AirChannels` and the modules below it promise of a pass (the
order and the data of all executions of a program, before and after), `Runner` of
a simulation (how often every op of a graph has been executed) and `Delivered` of
a whole run (what a sequential run of every tile would compute) are inductions over
programs for which only the operators of `HerdRun` have been laid out as functions
with proved recursions. Those checks are exhaustive over the programs listed.

## Not modelled

- The handlers of single packets (register accesses without order between them
  that matters), opening devices, modules and files, the pages and buffers that a
  driver sets up once.
- Memory that reorders stores, and a controller that is reset while the host
  runs: nothing in the code handles it.
- In the dependency passes `memref.subview`, `affine.if` before broadcasts,
  parallel loops inside hierarchy ops once channels are made, and the
  canonicalisation of a program with channels. MLIR's own canonicalizer does not
  run between the passes, so the `wait_all`s that air-dependency makes are all
  there.
- In air-to-aie flows from and to L2, object fifos, the herd lock option, and the
  tokens of the host program, which the lowering turns into waits.
- Of the loop transforms full and partial tiles, the data copies of the Affine
  library, and everything that is a call of the Linalg library with options.
- A herd that cannot be placed: air-place-herds reports an error but does not fail
  (AIRHerdPlacementPass.cpp:258), and air-to-aie puts the herd where its options say
  (AIRToAIEPass.cpp:225). `HerdRun` goes on only with programs that were placed.
- `affine.if` with other than two operands in a herd (AIRToAIEPass.cpp:489).
- Device memory running out: `DevMemAlloc` returns NULL
  (pcie-ernic-dev-mem-allocator.cpp:99); the tensors of the programs of `Rdma` fit.
- The cost model (arithmetic on shapes), dialects, translation targets, bindings
  and tools.

## Plan

1. Core: queue, dispatch, ND copy, shim DMA, barriers, UART lock, with their
   proofs. Done.
2. Hosts and compiler: RDMA, runner, dependency passes, channels, placement,
   air-to-aie with the host's tables, loop transforms. Done as described
   above.
3. Proofs: the whole path of a copy; order, barriers and addresses of the hosts'
   messages; that the tables, the flows and the host program of a compiled program
   agree. Done.
4. Model: flows from and to L2, the tokens of the host program.
5. Proofs: that no token count of the runner goes below zero, for every regular
   program (`TypeOK` of `Runner`, which TLC finds true of the listed programs); it
   needs what a program's graph is as an assumption on `Programs`.
