------------------------------ MODULE CopyPath ------------------------------
(***************************************************************************)
(* One copy from the program to the DMA and back: convert-to-air turns a   *)
(* copy into a DMA op (ConvertToAIRPass.cpp), air-to-std into a call       *)
(* (AIRLoweringPass.cpp, AIRRtToLLVMPass.cpp), the runtime gathers the     *)
(* region in a bounce buffer and posts a packet (memory.cpp), and the      *)
(* controller walks over it (NdMemcpy) and programs the shim DMA           *)
(* (ShimDma). A client may also post an ND or a CDMA packet of its own.   *)
(* Other copies push to other columns meanwhile. One packet is in flight   *)
(* on the column; AirQueue and AgentDispatch have the ring.                *)
(***************************************************************************)
EXTENDS NdMemcpy, ShimDma, SequencesExt

CONSTANTS
  Copies,   \* copies of the program, and packets of clients
  Col,      \* the column of the copy's shim DMA
  EB,       \* sizeof(T)
  Mapped,   \* bytes mapped of the bounce buffer: 0x8000
  MaxOther, \* bound: descriptors pushed to another column
  bitor(_, _) \* "|" on fields of 16 bits

\* A channel stalls before its start queue of four is full.
ASSUME PathAssumption ==
  /\ Col \in Cols /\ MaxOther \in Nat
  /\ EB \in Nat \ {0} /\ Mapped \in Nat
  /\ Stall <= 4

Field == 65536 \* values of a field
ASSUME OrAssumption == \A n \in 0 .. Field - 1 : bitor(0, n) = n

VARIABLES
  copy,   \* the memref.copy or linalg.copy, or the client's packet
  stage,  \* how far it is
  args,   \* the air.dma_memcpy_nd, then the arguments of the call
  ddr,    \* the elements of the L3 buffer
  bram,   \* the bounce buffer
  remote  \* the elements of the L1 or L2 buffer

callVars == <<copy, stage, args, ddr, bram, remote>>
pathVars == <<vars, shimVars, callVars>>

L3 == 0
L2 == 1
L1 == 2

Client == copy.kind \in {"nd", "cdma"}

Product(s) == FoldLeft(LAMBDA a, b : a * b, 1, s)
SumOf(s) == FoldLeft(LAMBDA a, b : a + b, 0, s)
Below(shape, k) == Product(SubSeq(shape, k + 1, Len(shape)))

\* What the controller reads of the lengths and strides a client wrote: they
\* are 32 bits wide and go into fields of 16 that nothing masks.
lo(n) == n % Field
hi(n) == n \div Field
carriedMutant(r) == \* mutant: stride_3d and length_4d are swapped
  [length_2d |-> lo(r.length_2d), stride_2d |-> lo(r.stride_2d),
   length_3d |-> lo(r.length_3d), stride_3d |-> lo(r.length_4d),
   length_4d |-> lo(r.stride_3d), stride_4d |-> lo(r.stride_4d)]
carried(r) ==
  [length_2d |-> lo(r.length_2d), stride_2d |-> bitor(hi(r.length_2d), lo(r.stride_2d)),
   length_3d |-> lo(r.length_3d), stride_3d |-> bitor(hi(r.length_3d), lo(r.stride_3d)),
   length_4d |-> bitor(hi(r.stride_3d), lo(r.length_4d)),
   stride_4d |-> bitor(hi(r.length_4d), lo(r.stride_4d))]

\* The bounce buffer is one row.
bounce == [length_2d |-> 1, stride_2d |-> 0, length_3d |-> 1, stride_3d |-> 0,
           length_4d |-> 1, stride_4d |-> 0]

\* What clients and programs give: a packet's fields are some of the lengths
\* and strides, a buffer has one to four dimensions and its view is inside it.
Request == [length_2d : Nat, stride_2d : Nat, length_3d : Nat, stride_3d : Nat,
            length_4d : Nat, stride_4d : Nat]
Dim == [offset : Nat, size : Nat, step : Nat \ {0}]
within(d, n) == \A i \in 0 .. d.size - 1 : d.offset + i * d.step < n
isSide(s) ==
  /\ s.space \in L3 .. L1
  /\ s.shape \in Seq(Nat) /\ Len(s.shape) \in 1 .. 4
  /\ s.view # <<>> =>
       /\ s.view \in Seq(Dim) /\ Len(s.view) = Len(s.shape)
       /\ \A k \in DOMAIN s.view : within(s.view[k], s.shape[k])

ASSUME CopiesAssumption ==
  /\ bounce \in PacketArgs
  /\ \A c \in Copies :
       \/ c.kind = "nd" /\ c.request \in Request /\ carried(c.request) \in PacketArgs
       \/ c.kind = "cdma"
       \/ c.kind \in {"memref.copy", "linalg.copy"} /\ isSide(c.src) /\ isSide(c.dst)

\* The side of a copy in the outer memory, and its elements at first.
outer(c) == IF c.src.space <= c.dst.space THEN c.src ELSE c.dst
elements(name, n) == [k \in 1 .. n |-> <<name, k>>]
ddrInit(c) == elements("ddr", IF c.kind = "cdma" THEN c.words ELSE Product(outer(c).shape))
remoteInit == elements("remote", Mapped)

PathInit ==
  /\ copy \in Copies
  /\ stage = IF Client THEN "posted" ELSE "copy"
  /\ args = <<>>
  /\ ddr = IF copy.kind = "nd" THEN <<>> ELSE ddrInit(copy)
  /\ bram = IF Client THEN <<>> ELSE elements("bram", Mapped)
  /\ remote = IF copy.kind = "nd" THEN <<>> ELSE remoteInit
  /\ pkt = IF copy.kind = "nd" THEN carried(copy.request) ELSE bounce
  /\ checkpoint = fresh /\ local = fresh
  /\ pc = "staged" /\ outstanding = 0 /\ pushed = <<>>
  /\ ShimInit /\ col = Col

-----------------------------------------------------------------------------
(* The compiler. A view is a sequence of offsets, sizes and steps, one for *)
(* each dimension of the buffer; <<>> is the whole buffer.                 *)

\* extractOperandsFromSubview: the strides are those of the view's type.
layoutStrideMutant(side, k) == side.view[k].step \* mutant: the steps as they are
layoutStride(side, k) == side.view[k].step * Below(side.shape, k)

operands(side) ==
  [offsets |-> [k \in DOMAIN side.view |-> side.view[k].offset],
   sizes   |-> [k \in DOMAIN side.view |-> side.view[k].size],
   strides |-> [k \in DOMAIN side.view |-> layoutStride(side, k)]]

\* A view that drops a dimension has more sizes than the copied type.
rankReduced(side) == side.view # <<>> /\ Len(side.view) # copy.rank

\* What neither of the two patterns takes, and what no pattern is asked about.
refused == \/ copy.src.space = L3 /\ copy.dst.space = L3
           \/ rankReduced(copy.src) \/ rankReduced(copy.dst)
legal == copy.kind = "memref.copy" /\ copy.src.space = copy.dst.space

\* A refused linalg.copy is left as it is, a refused memref.copy is an error.
ConvertToAir ==
  /\ stage = "copy"
  /\ \/ /\ legal \/ (copy.kind = "linalg.copy" /\ refused)
        /\ stage' = "kept" /\ args' = args
     \/ /\ copy.kind = "memref.copy" /\ refused /\ ~legal
        /\ stage' = "failed" /\ args' = args
     \/ /\ ~refused /\ ~legal
        /\ stage' = "dma"
        /\ args' = [src |-> operands(copy.src), dst |-> operands(copy.dst)]
  /\ UNCHANGED <<vars, shimVars, copy, ddr, bram, remote>>

fromTile == <<copy.src.space, copy.dst.space>> \in {<<L1, L3>>, <<L1, L2>>, <<L2, L3>>}
toTile == <<copy.src.space, copy.dst.space>> \in {<<L3, L1>>, <<L2, L1>>, <<L3, L2>>}
fullMemcpy == {copy.src.space, copy.dst.space} = {L2, L3}

\* The operands are the last of the four dimensions; the others are of length
\* one. The innermost stride is dropped.
aligned(s, n, default) ==
  [k \in 1 .. n |-> IF k - (4 - copy.rank) \in DOMAIN s
                    THEN s[k - (4 - copy.rank)] ELSE default]
call(o) == [offsets |-> aligned(o.offsets, 4, 0),
            lengths |-> aligned(o.sizes, 4, 1),
            strides |-> aligned(IF o.strides = <<>> THEN <<>> ELSE Front(o.strides), 3, 0)]

\* DmaMemcpyNdOp to a call of the runtime: only a DMA in a herd has a tile.
LowerDma ==
  /\ stage = "dma"
  /\ IF (fromTile \/ toTile) /\ (fullMemcpy \/ copy.herd)
     THEN /\ stage' = "call"
          /\ args' = call(IF fromTile THEN args.dst ELSE args.src)
     ELSE stage' = "failed" /\ args' = args
  /\ UNCHANGED <<vars, shimVars, copy, ddr, bram, remote>>

-----------------------------------------------------------------------------
(* The runtime: air_mem_shim_nd_memcpy_queue_impl.                         *)

\* lowerNdMemcpy passes a signal before the two buffers, and the function of
\* the runtime has no parameter for it: it takes the signal for a buffer.
CallNdMemcpy ==
  /\ stage = "call" /\ fullMemcpy
  /\ stage' = "crashed"
  /\ UNCHANGED <<vars, shimVars, copy, args, ddr, bram, remote>>

length == args.lengths[1] * args.lengths[2] * args.lengths[3] * args.lengths[4]

\* "offset += offsets[i] * stride": of the buffer's own shape, in elements
startOf(shape) ==
  SumOf([k \in 1 .. Len(shape) |-> args.offsets[4 - Len(shape) + k] * Below(shape, k)])

\* The n-th element of the loops over paddr_3d, paddr_2d and paddr_1d.
element(n) ==
  LET len == args.lengths
      row == (n - 1) \div len[4] IN
  startOf(outer(copy).shape) + ((n - 1) % len[4]) + 1
    + (row % len[3]) * args.strides[3]
    + ((row \div len[3]) % len[2]) * args.strides[2]
    + (row \div (len[3] * len[2])) * args.strides[1]

\* The loops before the packet is posted, for a copy to a tile
gathered == [n \in DOMAIN bram |-> IF n <= length THEN ddr[element(n)] ELSE bram[n]]

\* and those after it has completed, for one from there.
scattered ==
  [a \in DOMAIN ddr |->
     IF \E n \in 1 .. length : element(n) = a
     THEN bram[CHOOSE n \in 1 .. length : element(n) = a] ELSE ddr[a]]

inMapping == length * EB <= Mapped
physical == outer(copy).space = L2 \* uses_pa: no bounce buffer

\* The call up to the packet, unless the host gathers beyond the mapping.
PostCopy ==
  /\ stage = "call" /\ ~fullMemcpy
  /\ LET beyond == toTile /\ ~physical /\ ~inMapping IN
     /\ stage' = IF beyond THEN "crashed" ELSE "posted"
     /\ bram' = IF toTile /\ ~physical /\ ~beyond THEN gathered ELSE bram
  /\ UNCHANGED <<vars, shimVars, copy, args, ddr, remote>>

\* air_queue_dispatch_and_wait has returned.
ReturnCopy ==
  /\ stage = "completed" /\ ~Client
  /\ IF fromTile /\ ~physical
     THEN /\ stage' = IF inMapping THEN "returned" ELSE "crashed"
          /\ ddr' = IF inMapping THEN scattered ELSE ddr
     ELSE stage' = "returned" /\ ddr' = ddr
  /\ UNCHANGED <<vars, shimVars, copy, args, bram, remote>>

Host == CallNdMemcpy \/ PostCopy \/ ReturnCopy

-----------------------------------------------------------------------------
(* The controller and the DMA.                                             *)

\* handle_agent_dispatch_packet has no case for AIR_PKT_TYPE_CDMA, and
\* stage_packet_nd_memcpy supports no memory space but 2.
unhandled == IF Client THEN copy.kind = "cdma" ELSE physical
walks == stage = "posted" /\ ~unhandled

\* Such a packet completes all the same.
CompleteUnhandled ==
  /\ stage = "posted" /\ unhandled
  /\ stage' = "completed"
  /\ UNCHANGED <<vars, shimVars, copy, args, ddr, bram, remote>>

CompleteCopy ==
  /\ walks /\ pc = "done"
  /\ stage' = "completed"
  /\ UNCHANGED <<vars, shimVars, copy, args, ddr, bram, remote>>

WalkStep ==
  /\ walks /\ push_pc = "idle"
  /\ \/ GetCheckpoint \/ Enter4d \/ Enter3d \/ Leave3d \/ Stall2d \/ Leave2d
     \/ IdleTimeout \/ Idle
  /\ UNCHANGED <<shimVars, callVars>>

\* do_packet_nd_memcpy calls xaie_shim_dma_push_bd
PushBd ==
  /\ walks
  /\ PushDescriptor /\ PickDescriptor(Col)
  /\ UNCHANGED callVars

ProgramBd ==
  /\ Invalidate \/ WriteDescriptor \/ StartDescriptor
  /\ UNCHANGED <<vars, callVars>>

\* The dispatch loop works on a copy of another column while this one is staged.
OtherPush(c) ==
  /\ walks /\ pc = "staged"
  /\ pushes[c] < MaxOther
  /\ mayPush(c) /\ PickDescriptor(c)
  /\ UNCHANGED <<vars, callVars>>

OtherExecute(c) ==
  /\ Execute(c)
  /\ UNCHANGED <<vars, callVars>>

\* The DMA moves the row whose descriptor is at the head of the start queue.
\* One that is being written anew, which takes a lapped column, moves nothing.
DmaMoves ==
  /\ Execute(Col) /\ Finish
  /\ LET words == IF Client \/ contents[Col][Head(queue[Col])] = Invalid THEN 0 ELSE length
         first == (pushed[contents[Col][Head(queue[Col])] + 1] - paddr) \div EB IN
     /\ remote' = [n \in DOMAIN remote |->
                     IF toTile /\ n <= words THEN bram[first + n] ELSE remote[n]]
     /\ bram' = [n \in DOMAIN bram |->
                   IF fromTile /\ n - first \in 1 .. words THEN remote[n - first]
                   ELSE bram[n]]
  /\ UNCHANGED <<copy, stage, args, ddr>>

ControllerStep == CompleteUnhandled \/ CompleteCopy \/ WalkStep \/ PushBd \/ ProgramBd

PathNext ==
  \/ ConvertToAir
  \/ LowerDma
  \/ CallNdMemcpy
  \/ PostCopy
  \/ ReturnCopy
  \/ CompleteUnhandled
  \/ CompleteCopy
  \/ WalkStep
  \/ PushBd
  \/ ProgramBd
  \/ DmaMoves
  \/ \E c \in Cols \ {Col} : OtherPush(c)
  \/ \E c \in Cols \ {Col} : OtherExecute(c)

PathSpec == PathInit /\ [][PathNext]_pathVars

\* A call runs on, the controller comes back to a staged copy and the DMA
\* executes what it was given.
FairPathSpec ==
  /\ PathSpec
  /\ WF_pathVars(Host) /\ WF_pathVars(ControllerStep) /\ WF_pathVars(DmaMoves)

-----------------------------------------------------------------------------
(* Properties. *)

\* Copies the path is made for: contiguous in the innermost dimension, a view
\* of the L3 buffer, the whole of the other one, no larger than the mapping.
Regular ==
  /\ ~Client
  /\ outer(copy).space = L3
  /\ outer(copy).view # <<>> /\ Last(outer(copy).view).step = 1

\* The elements of a view in the order of its indices, from its definition.
viewElement(side, n) ==
  LET sizes == [k \in DOMAIN side.view |-> side.view[k].size]
      index(k) == ((n - 1) \div Below(sizes, k)) % sizes[k] IN
  1 + SumOf([k \in DOMAIN side.view |->
               (side.view[k].offset + index(k) * side.view[k].step) * Below(side.shape, k)])
viewSize(side) == Product([k \in DOMAIN side.view |-> side.view[k].size])

\* The elements of the view, and nothing else, have gone to the other buffer,
\* or have come from there, in the order of the view.
Moved ==
  LET side == outer(copy)
      size == viewSize(side) IN
  IF toTile
  THEN /\ ddr = ddrInit(copy)
       /\ remote = [n \in DOMAIN remoteInit |->
                      IF n <= size THEN ddrInit(copy)[viewElement(side, n)] ELSE remoteInit[n]]
  ELSE /\ remote = remoteInit
       /\ \A n \in 1 .. size : ddr[viewElement(side, n)] = remoteInit[n]
       /\ \A a \in DOMAIN ddr :
            (\A n \in 1 .. size : viewElement(side, n) # a) => ddr[a] = ddrInit(copy)[a]

\* The requests whose lengths and strides fit the fields of a packet.
Narrow == \A f \in DOMAIN copy.request : copy.request[f] < Field

\* The rows a client asked for, whatever became of its packet.
requested ==
  LET r == copy.request
      rows == r.length_4d * r.length_3d * r.length_2d IN
  [n \in 1 .. rows |->
     paddr + ((n - 1) % r.length_2d) * r.stride_2d
           + (((n - 1) \div r.length_2d) % r.length_3d) * r.stride_3d
           + ((n - 1) \div (r.length_2d * r.length_3d)) * r.stride_4d]

\* When a copy between L3 and a tile returns, the region of its view has been
\* copied: through the compiler's operands, the bounce buffer, the packet and
\* the descriptors. A client's packet has had the rows executed it asks for,
\* unless other columns had its column lapped; the one row of a copy of the
\* program is safe from them.
RegionCopied ==
  /\ stage = "returned" /\ Regular => Moved
  /\ stage = "completed" /\ copy.kind = "nd" /\ Narrow /\ Col \notin lapped =>
       [k \in DOMAIN executed[Col] |-> pushed[executed[Col][k] + 1]] = requested

\* "CDMA | Both directions used to transfer to/from L2 from/to DDR", by
\* "CDMA packets" (test/level2-tests/111_levels/README.md:8, 10): what such a
\* packet names has been copied when it completes.
CdmaCopies ==
  stage = "completed" /\ copy.kind = "cdma" =>
    \A n \in 1 .. copy.words : ddr[n] = remote[n]

\* Every packet is answered, with any lengths and however often its channel
\* is stalled: the call returns to the program or ends beyond the mapping.
CallReturns ==
  stage = "posted" ~> stage \in IF Client THEN {"completed"} ELSE {"returned", "crashed"}
=============================================================================
