------------------------------ MODULE NdMemcpy ------------------------------
(***************************************************************************)
(* do_packet_nd_memcpy of controller/main.cpp: the walk over the 4-D       *)
(* region of one ND_MEMCPY packet, one shim DMA descriptor per row. The    *)
(* walk keeps three indices and three running addresses; when the channel  *)
(* is stalled it stores all six in the staging slot, and is called again   *)
(* later. Addresses do not wrap at 64 bits.                                *)
(***************************************************************************)
EXTENDS Integers, Sequences

CONSTANTS
  Lengths, \* values of length_2d, length_3d and length_4d
  Strides, \* values of stride_2d, stride_3d and stride_4d
  paddr,   \* arg[1] of the packet, where the region begins
  Stall    \* outstanding descriptors at which a channel is stalled: 4

ASSUME CopyAssumption ==
  /\ Lengths \subseteq Nat /\ Strides \subseteq Nat
  /\ paddr \in Nat
  /\ Stall \in Nat \ {0}

VARIABLES
  pkt,         \* the lengths and strides of the packet
  checkpoint,  \* staged_nd_slot[slot]: paddr[3] and index[3]
  local,       \* the same six values while do_packet_nd_memcpy runs
  pc,
  outstanding, \* descriptors pushed and not finished by the DMA
  pushed       \* history: the address of each descriptor pushed

vars == <<pkt, checkpoint, local, pc, outstanding, pushed>>

\* arg[2] and arg[3] as air_packet_nd_memcpy packs them
PacketArgs == [length_2d : Lengths, stride_2d : Strides,
               length_3d : Lengths, stride_3d : Strides,
               length_4d : Lengths, stride_4d : Strides]

Walk == [index_4d : Nat, index_3d : Nat, index_2d : Nat,
         paddr_3d : Nat, paddr_2d : Nat, paddr_1d : Nat]

\* what stage_packet_nd_memcpy puts in the slot
fresh == [index_4d |-> 0, index_3d |-> 0, index_2d |-> 0,
          paddr_3d |-> paddr, paddr_2d |-> paddr, paddr_1d |-> paddr]

Init ==
  /\ pkt \in PacketArgs
  /\ checkpoint = fresh /\ local = fresh
  /\ pc = "staged"
  /\ outstanding = 0
  /\ pushed = <<>>

-----------------------------------------------------------------------------
\* nd_dma_get_checkpoint
GetCheckpoint ==
  /\ pc = "staged"
  /\ local' = checkpoint
  /\ pc' = "4d"
  /\ UNCHANGED <<pkt, checkpoint, outstanding, pushed>>

\* nd_dma_put_checkpoint, and do_packet_nd_memcpy returns 1
put == local

PutCheckpoint ==
  /\ checkpoint' = put
  /\ pc' = "staged"
  /\ UNCHANGED <<pkt, local, outstanding, pushed>>

Enter4d ==
  /\ pc = "4d"
  /\ pc' = IF local.index_4d < pkt.length_4d THEN "3d" ELSE "wait"
  /\ UNCHANGED <<pkt, checkpoint, local, outstanding, pushed>>

Enter3d ==
  /\ pc = "3d"
  /\ local.index_3d < pkt.length_3d
  /\ pc' = "2d"
  /\ UNCHANGED <<pkt, checkpoint, local, outstanding, pushed>>

Leave3d ==
  /\ pc = "3d"
  /\ local.index_3d >= pkt.length_3d
  /\ LET plane == local.paddr_3d + pkt.stride_4d IN
     local' = [local EXCEPT !.index_3d = 0,
                            !.index_4d = @ + 1,
                            !.paddr_3d = plane,
                            !.paddr_2d = plane]
  /\ pc' = "4d"
  /\ UNCHANGED <<pkt, checkpoint, outstanding, pushed>>

stalledMutant == outstanding > Stall \* mutant: one descriptor too many
stalled == outstanding >= Stall

Stall2d ==
  /\ pc = "2d"
  /\ local.index_2d < pkt.length_2d
  /\ stalled
  /\ PutCheckpoint

PushDescriptor ==
  /\ pc = "2d"
  /\ local.index_2d < pkt.length_2d
  /\ ~stalled
  /\ pushed' = Append(pushed, local.paddr_1d)
  /\ outstanding' = outstanding + 1
  /\ local' = [local EXCEPT !.index_2d = @ + 1, !.paddr_1d = @ + pkt.stride_2d]
  /\ UNCHANGED <<pkt, checkpoint, pc>>

\* where the next row begins, in this plane or in the next one
nextRowMutant(row) == row \* mutant: as if the plane had no end
nextRow(row) ==
  IF local.index_3d + 1 < pkt.length_3d THEN row ELSE local.paddr_3d + pkt.stride_4d

Leave2d ==
  /\ pc = "2d"
  /\ local.index_2d >= pkt.length_2d
  /\ LET row == local.paddr_2d + pkt.stride_3d IN
     local' = [local EXCEPT !.index_2d = 0,
                            !.index_3d = @ + 1,
                            !.paddr_2d = row,
                            !.paddr_1d = nextRow(row)]
  /\ pc' = "3d"
  /\ UNCHANGED <<pkt, checkpoint, outstanding, pushed>>

\* xaie_shim_dma_wait_idle times out while descriptors are outstanding
IdleTimeout ==
  /\ pc = "wait"
  /\ outstanding > 0
  /\ PutCheckpoint

busyMutant == outstanding > 0 \* mutant: the return values are swapped
idleMutant == TRUE \* mutant: a copy with nothing left to push is done
idle == outstanding = 0

Idle ==
  /\ pc = "wait"
  /\ idle
  /\ pc' = "done"
  /\ UNCHANGED <<pkt, checkpoint, local, outstanding, pushed>>

\* The shim DMA.
Finish ==
  /\ outstanding > 0
  /\ outstanding' = outstanding - 1
  /\ UNCHANGED <<pkt, checkpoint, local, pc, pushed>>

Controller ==
  \/ GetCheckpoint
  \/ Enter4d
  \/ Enter3d
  \/ Leave3d
  \/ Stall2d
  \/ PushDescriptor
  \/ Leave2d
  \/ IdleTimeout
  \/ Idle

Next == Controller \/ Finish

Spec == Init /\ [][Next]_vars

-----------------------------------------------------------------------------
(* Properties. *)

Total == pkt.length_4d * pkt.length_3d * pkt.length_2d

\* The position in the nested loops of the row [i4][i3][i2], and its address.
Position(i4, i3, i2) == (i4 * pkt.length_3d + i3) * pkt.length_2d + i2
RowAddress(i4, i3, i2) ==
  paddr + i4 * pkt.stride_4d + i3 * pkt.stride_3d + i2 * pkt.stride_2d

\* Types of the packet, of the checkpoint and of the loop.
TypeOK ==
  /\ pkt \in PacketArgs
  /\ checkpoint \in Walk /\ local \in Walk
  /\ pc \in {"staged", "4d", "3d", "2d", "wait", "done"}
  /\ outstanding \in 0 .. Stall
  /\ pushed \in Seq(Nat)

\* Wherever the walk was stopped and taken up again, the descriptors pushed so
\* far are the first rows of the nested loops: none left out, none repeated,
\* none at the address of another row.
RowsInOrder ==
  \A i4 \in 0 .. pkt.length_4d - 1, i3 \in 0 .. pkt.length_3d - 1,
     i2 \in 0 .. pkt.length_2d - 1 :
    Position(i4, i3, i2) < Len(pushed) =>
      pushed[Position(i4, i3, i2) + 1] = RowAddress(i4, i3, i2)

\* A copy that is done has pushed every row and none more, and the DMA has
\* executed them all.
DoneMeansCopied == pc = "done" => Len(pushed) = Total /\ outstanding = 0

\* It is the copy the dispatch loop counts on.
Lane == INSTANCE CopyLane WITH
  left <- Total - Len(pushed),
  phase <- IF pc \in {"staged", "done"} THEN pc ELSE "running"

RefinesLane == Lane!CopySpec
=============================================================================
