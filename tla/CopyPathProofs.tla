--------------------------- MODULE CopyPathProofs ---------------------------
(***************************************************************************)
(* Proofs about the whole path of a copy, from the arguments of the host's *)
(* call to the rows the DMA moves: whatever the shape of the buffer, the   *)
(* sizes and strides of the calls that fit it, the column, the channel and *)
(* the pattern of stalls, an acknowledged sequence of calls has moved the  *)
(* region each of them named and nothing else (RegionsCopied).             *)
(*                                                                         *)
(* The argument has three parts. What a call names: a view over its sizes  *)
(* and strides, whose elements are the digits of a number (Digits). What   *)
(* its packet makes the controller do: one row after another, in the order *)
(* of the loops, at the offsets of those same digits (RowAt). And PathInv: *)
(* the packet on its way is that of the call that waits, the rows already  *)
(* executed have moved exactly the elements they hold, and everything else *)
(* in the two memories is as the earlier calls left it.                    *)
(*                                                                         *)
(* First come the two parts of the controller that give a copy to the DMA: *)
(* the walk of NdMemcpy, for all lengths and strides and every pattern of  *)
(* stalls; and the descriptors of ShimDma, for every set of columns, also  *)
(* those that share an entry of last_bd, and any number of pushes.         *)
(***************************************************************************)
EXTENDS CopyPath, IndexLemmas, SequenceTheorems, TLAPS

-----------------------------------------------------------------------------
(* Products and positions under names of their own: the steps below only    *)
(* need what these lemmas say of them.                                     *)

Times(a, b) == a * b
Pos(l3, l2, i4, i3, i2) == (i4 * l3 + i3) * l2 + i2

\* The next multiple, under the name Times.
LEMMA TimesFacts ==
  ASSUME NEW a \in Nat, NEW b \in Nat
  PROVE  /\ Times(a, b) \in Nat
         /\ Times(a + 1, b) = Times(a, b) + b
BY ProductNat, NextMultiple DEF Times

\* No multiple.
LEMMA TimesZero ==
  ASSUME NEW b \in Nat
  PROVE  Times(0, b) = 0
BY DEF Times

\* A position is a number.
LEMMA PosNat ==
  ASSUME NEW l3 \in Nat, NEW l2 \in Nat,
         NEW i4 \in Nat, NEW i3 \in Nat, NEW i2 \in Nat
  PROVE  Pos(l3, l2, i4, i3, i2) \in Nat
<1>1. i4 * l3 \in Nat
  BY ProductNat
<1>2. (i4 * l3 + i3) * l2 \in Nat
  BY <1>1, ProductNat
<1> QED BY <1>2 DEF Pos

\* The position after a row of the innermost loop.
LEMMA PosNextRow ==
  ASSUME NEW l3 \in Nat, NEW l2 \in Nat,
         NEW i4 \in Nat, NEW i3 \in Nat, NEW i2 \in Nat, NEW k2, k2 = i2 + 1
  PROVE  Pos(l3, l2, i4, i3, k2) = Pos(l3, l2, i4, i3, i2) + 1
<1>1. i4 * l3 \in Nat
  BY ProductNat
<1>2. (i4 * l3 + i3) * l2 \in Nat
  BY <1>1, ProductNat
<1> QED BY <1>2 DEF Pos

\* The position where the loop of the third dimension goes round.
LEMMA PosNext3d ==
  ASSUME NEW l3 \in Nat, NEW l2 \in Nat, NEW i4 \in Nat, NEW i3 \in Nat,
         NEW k3, k3 = i3 + 1
  PROVE  Pos(l3, l2, i4, k3, 0) = Pos(l3, l2, i4, i3, l2)
<1> DEFINE row == i4 * l3 + i3
<1>1. i4 * l3 \in Nat /\ row \in Nat
  BY ProductNat
<1>2. row * l2 \in Nat
  BY <1>1, ProductNat
<1>3. i4 * l3 + (i3 + 1) = row + 1
  BY <1>1
<1>4. (row + 1) * l2 = row * l2 + l2
  BY <1>1, NextMultiple
<1> QED BY <1>2, <1>3, <1>4 DEF Pos

\* The position where the outermost loop goes round.
LEMMA PosNext4d ==
  ASSUME NEW l3 \in Nat, NEW l2 \in Nat, NEW i4 \in Nat, NEW i2 \in Nat,
         NEW k4, k4 = i4 + 1
  PROVE  Pos(l3, l2, k4, 0, i2) = Pos(l3, l2, i4, l3, i2)
<1>1. i4 * l3 \in Nat
  BY ProductNat
<1>2. (i4 + 1) * l3 + 0 = i4 * l3 + l3
  BY <1>1, NextMultiple
<1> QED BY <1>2 DEF Pos

\* The position after the last row.
LEMMA PosEnd ==
  ASSUME NEW l3 \in Nat, NEW l2 \in Nat, NEW i4 \in Nat
  PROVE  Pos(l3, l2, i4, 0, 0) = i4 * l3 * l2
<1>1. i4 * l3 \in Nat
  BY ProductNat
<1>2. (i4 * l3) * l2 \in Nat
  BY <1>1, ProductNat
<1>3. i4 * l3 + 0 = i4 * l3
  BY <1>1
<1> QED BY <1>2, <1>3 DEF Pos

\* The first position.
LEMMA PosZero ==
  ASSUME NEW l3 \in Nat, NEW l2 \in Nat
  PROVE  Pos(l3, l2, 0, 0, 0) = 0
BY DEF Pos

-----------------------------------------------------------------------------
(* The inductive invariant. *)

\* The indices stay in their loops.
InBounds(w) ==
  /\ w.index_4d <= pkt.length_4d
  /\ w.index_3d <= pkt.length_3d
  /\ w.index_2d <= pkt.length_2d

\* The running addresses are those of the indices. Past the last row of a plane
\* paddr_1d is already the next plane's.
AddressesOk(w) ==
  /\ w.paddr_3d = paddr + Times(w.index_4d, pkt.stride_4d)
  /\ w.paddr_2d = w.paddr_3d + Times(w.index_3d, pkt.stride_3d)
  /\ w.index_3d < pkt.length_3d =>
       w.paddr_1d = w.paddr_2d + Times(w.index_2d, pkt.stride_2d)
  /\ w.index_3d = pkt.length_3d =>
       /\ w.index_2d = 0
       /\ pkt.length_3d > 0 => w.paddr_1d = w.paddr_3d + pkt.stride_4d

\* As many descriptors were pushed as rows were passed.
CountOk(w) ==
  Len(pushed) =
    Pos(pkt.length_3d, pkt.length_2d, w.index_4d, w.index_3d, w.index_2d)

\* What reaching point p of the loops says of the indices.
PointOk(w, p) ==
  /\ p = "4d" =>
       /\ w.index_3d = pkt.length_3d => pkt.length_3d = 0
       /\ w.index_4d = pkt.length_4d => w.index_3d = 0 /\ w.index_2d = 0
  /\ p \in {"3d", "2d"} => w.index_4d < pkt.length_4d
  /\ p = "2d" => w.index_3d < pkt.length_3d
  /\ p \in {"wait", "done"} =>
       w.index_4d = pkt.length_4d /\ w.index_3d = 0 /\ w.index_2d = 0

WalkOk(w, p) == InBounds(w) /\ AddressesOk(w) /\ CountOk(w) /\ PointOk(w, p)

\* A checkpoint may be resumed at the head of the outer loop.
WalkInv == IF pc = "staged" THEN WalkOk(checkpoint, "4d") ELSE WalkOk(local, pc)

IInv ==
  /\ TypeOK
  /\ WalkInv
  /\ RowsInOrder
  /\ pc = "done" => outstanding = 0

\* The fields of a packet are numbers.
LEMMA PacketNats ==
  ASSUME pkt \in PacketArgs
  PROVE  /\ pkt.length_4d \in Nat /\ pkt.length_3d \in Nat /\ pkt.length_2d \in Nat
         /\ pkt.stride_4d \in Nat /\ pkt.stride_3d \in Nat /\ pkt.stride_2d \in Nat
BY CopyAssumption DEF PacketArgs

\* The fields of a walk are numbers.
LEMMA WalkNats ==
  ASSUME NEW STATE w, w \in Walk
  PROVE  /\ w.index_4d \in Nat /\ w.index_3d \in Nat /\ w.index_2d \in Nat
         /\ w.paddr_3d \in Nat /\ w.paddr_2d \in Nat /\ w.paddr_1d \in Nat
BY DEF Walk

\* A new copy's checkpoint is right, and nothing is pushed.
LEMMA InitInv == Init => IInv
<1> SUFFICES ASSUME Init PROVE IInv
  OBVIOUS
<1> USE CopyAssumption
<1>0. /\ pkt.length_4d \in Nat /\ pkt.length_3d \in Nat /\ pkt.length_2d \in Nat
      /\ pkt.stride_4d \in Nat /\ pkt.stride_3d \in Nat /\ pkt.stride_2d \in Nat
  BY PacketNats DEF Init
<1>1. TypeOK
  BY DEF Init, TypeOK, Walk, fresh
<1>2. WalkInv
  <2>1. InBounds(checkpoint) /\ PointOk(checkpoint, "4d")
    BY <1>0 DEF Init, fresh, InBounds, PointOk
  <2>2. AddressesOk(checkpoint)
    BY <1>0, TimesZero DEF Init, fresh, AddressesOk
  <2>3. CountOk(checkpoint)
    BY <1>0, PosZero DEF Init, fresh, CountOk
  <2> QED BY <2>1, <2>2, <2>3 DEF Init, WalkInv, WalkOk
<1>3. RowsInOrder
  <2> SUFFICES ASSUME NEW i4 \in 0 .. pkt.length_4d - 1,
                      NEW i3 \in 0 .. pkt.length_3d - 1,
                      NEW i2 \in 0 .. pkt.length_2d - 1
               PROVE  ~(Position(i4, i3, i2) < Len(pushed))
    BY DEF RowsInOrder
  <2>1. i4 \in Nat /\ i3 \in Nat /\ i2 \in Nat
    BY <1>0
  <2>2. Pos(pkt.length_3d, pkt.length_2d, i4, i3, i2) \in Nat
    BY <1>0, <2>1, PosNat
  <2>3. Position(i4, i3, i2) \in Nat
    BY <2>2 DEF Pos, Position
  <2> QED BY <2>3 DEF Init
<1>4. pc = "done" => outstanding = 0
  BY DEF Init
<1> QED BY <1>1, <1>2, <1>3, <1>4 DEF IInv

-----------------------------------------------------------------------------
(* The steps. *)

\* Every step keeps the types.
LEMMA TypeStep == TypeOK /\ [Next]_vars => TypeOK'
<1> SUFFICES ASSUME TypeOK, [Next]_vars PROVE TypeOK'
  OBVIOUS
<1>0. /\ pkt.length_4d \in Nat /\ pkt.length_3d \in Nat /\ pkt.length_2d \in Nat
      /\ pkt.stride_4d \in Nat /\ pkt.stride_3d \in Nat /\ pkt.stride_2d \in Nat
      /\ local.index_4d \in Nat /\ local.index_3d \in Nat /\ local.index_2d \in Nat
      /\ local.paddr_3d \in Nat /\ local.paddr_2d \in Nat /\ local.paddr_1d \in Nat
      /\ pushed \in Seq(Nat) /\ outstanding \in 0 .. Stall
  BY PacketNats, WalkNats DEF TypeOK
<1> USE CopyAssumption
<1>1. CASE GetCheckpoint
  BY <1>1 DEF GetCheckpoint, TypeOK
<1>2. CASE Enter4d
  BY <1>2 DEF Enter4d, TypeOK
<1>3. CASE Enter3d
  BY <1>3 DEF Enter3d, TypeOK
<1>4. CASE Leave3d
  <2>1. local.paddr_3d + pkt.stride_4d \in Nat /\ local.index_4d + 1 \in Nat
    BY <1>0, SumNat, Zenon
  <2>2. local' \in Walk
    BY <1>4, <2>1 DEF Leave3d, Walk, TypeOK
  <2> QED BY <1>4, <2>2 DEF Leave3d, TypeOK
<1>5. CASE Stall2d
  BY <1>5 DEF Stall2d, PutCheckpoint, put, TypeOK
<1>6. CASE PushDescriptor
  <2>1. local.paddr_1d + pkt.stride_2d \in Nat /\ local.index_2d + 1 \in Nat
    BY <1>0, SumNat, Zenon
  <2>2. local' \in Walk
    BY <1>6, <2>1 DEF PushDescriptor, Walk, TypeOK
  <2>3. outstanding' \in 0 .. Stall
    <3>1. outstanding \in 0 .. Stall /\ Stall \in Nat
      BY DEF TypeOK
    <3>2. ~(outstanding >= Stall) /\ outstanding' = outstanding + 1
      BY <1>6 DEF PushDescriptor, stalled
    <3> QED BY <3>1, <3>2
  <2>4. pushed' \in Seq(Nat)
    BY <1>0, <1>6 DEF PushDescriptor
  <2> QED BY <1>6, <2>2, <2>3, <2>4 DEF PushDescriptor, TypeOK
<1>7. CASE Leave2d
  <2>0. local.paddr_2d + pkt.stride_3d \in Nat /\ local.index_3d + 1 \in Nat
    BY <1>0
  <2>1. local.paddr_3d + pkt.stride_4d \in Nat
    BY <1>0
  <2>2. nextRow(local.paddr_2d + pkt.stride_3d) \in Nat
    BY <2>0, <2>1 DEF nextRow
  <2>3. local' \in Walk
    BY <1>7, <2>0, <2>2 DEF Leave2d, Walk, TypeOK
  <2> QED BY <1>7, <2>3 DEF Leave2d, TypeOK
<1>8. CASE IdleTimeout
  BY <1>8 DEF IdleTimeout, PutCheckpoint, put, TypeOK
<1>9. CASE Idle
  BY <1>9 DEF Idle, TypeOK
<1>10. CASE Finish
  BY <1>10 DEF Finish, TypeOK
<1>11. CASE UNCHANGED vars
  BY <1>11 DEF vars, TypeOK
<1> QED BY <1>1, <1>2, <1>3, <1>4, <1>5, <1>6, <1>7, <1>8, <1>9, <1>10, <1>11
        DEF Next, Controller

\* A walk left in the inner loop or at the end may be resumed.
LEMMA LeftWalkOk ==
  ASSUME TypeOK, pc \in {"2d", "wait"}, WalkInv
  PROVE  WalkOk(local, "4d")
<1>1. /\ local.index_3d \in Nat /\ pkt.length_3d \in Nat
      /\ local.index_4d \in Nat /\ pkt.length_4d \in Nat
  BY PacketNats, WalkNats DEF TypeOK
<1>2. WalkOk(local, pc)
  BY DEF WalkInv
<1>3. PointOk(local, "4d")
  BY <1>1, <1>2 DEF WalkOk, PointOk
<1> QED BY <1>2, <1>3 DEF WalkOk

\* Every step leaves the walk's addresses those of its indices.
LEMMA WalkInvStep == TypeOK /\ WalkInv /\ [Next]_vars => WalkInv'
<1> SUFFICES ASSUME TypeOK, WalkInv, [Next]_vars PROVE WalkInv'
  OBVIOUS
<1> DEFINE len4 == pkt.length_4d
           len3 == pkt.length_3d
           len2 == pkt.length_2d
           at4 == local.index_4d
           at3 == local.index_3d
           at2 == local.index_2d
<1>0. /\ len4 \in Nat /\ len3 \in Nat /\ len2 \in Nat
      /\ at4 \in Nat /\ at3 \in Nat /\ at2 \in Nat
  BY PacketNats, WalkNats DEF TypeOK
<1>a. /\ pkt.stride_4d \in Nat /\ pkt.stride_3d \in Nat /\ pkt.stride_2d \in Nat
      /\ local.paddr_3d \in Nat /\ local.paddr_2d \in Nat /\ local.paddr_1d \in Nat
      /\ paddr \in Nat
  BY PacketNats, WalkNats, CopyAssumption DEF TypeOK
<1>b. pc # "staged" => WalkOk(local, pc)
  BY DEF WalkInv
<1> USE DEF WalkOk
<1>1. CASE GetCheckpoint
  <2>1. WalkOk(checkpoint, "4d") /\ local' = checkpoint /\ pc' = "4d"
        /\ pkt' = pkt /\ pushed' = pushed
    BY <1>1 DEF GetCheckpoint, WalkInv
  <2> QED BY <2>1 DEF WalkInv, InBounds, AddressesOk, CountOk, PointOk
<1>2. CASE Enter4d
  <2>1. WalkOk(local, "4d")
    BY <1>2, <1>b DEF Enter4d
  <2>2. pc' \in {"3d", "wait"} /\ local' = local /\ pkt' = pkt /\ pushed' = pushed
    BY <1>2 DEF Enter4d
  <2>3. PointOk(local, pc')
    <3>1. CASE at4 < len4
      BY <1>2, <3>1 DEF Enter4d, PointOk
    <3>2. CASE at4 = len4
      BY <1>0, <1>2, <2>1, <3>2 DEF Enter4d, PointOk
    <3> QED BY <1>0, <2>1, <3>1, <3>2 DEF InBounds
  <2> QED BY <2>1, <2>2, <2>3 DEF WalkInv, InBounds, AddressesOk, CountOk, PointOk
<1>3. CASE Enter3d
  <2>1. WalkOk(local, "3d")
    BY <1>3, <1>b DEF Enter3d
  <2>2. pc' = "2d" /\ local' = local /\ pkt' = pkt /\ pushed' = pushed /\ at3 < len3
    BY <1>3 DEF Enter3d
  <2> QED BY <2>1, <2>2 DEF WalkInv, InBounds, AddressesOk, CountOk, PointOk
<1>4. CASE Leave3d
  <2>1. WalkOk(local, "3d") /\ at3 >= len3
    BY <1>4, <1>b DEF Leave3d
  <2>2. at3 = len3 /\ at2 = 0 /\ at4 < len4
    BY <1>0, <2>1 DEF InBounds, AddressesOk, PointOk
  <2>3. /\ local'.index_4d = at4 + 1 /\ local'.index_3d = 0 /\ local'.index_2d = at2
        /\ local'.paddr_3d = local.paddr_3d + pkt.stride_4d
        /\ local'.paddr_2d = local.paddr_3d + pkt.stride_4d
        /\ local'.paddr_1d = local.paddr_1d
        /\ pc' = "4d" /\ pkt' = pkt /\ pushed' = pushed
    BY <1>4 DEF Leave3d, TypeOK, Walk
  <2>4. InBounds(local)'
    BY <1>0, <2>2, <2>3 DEF InBounds
  <2>5. AddressesOk(local)'
    <3>1. Times(at4 + 1, pkt.stride_4d) = Times(at4, pkt.stride_4d) + pkt.stride_4d
          /\ Times(at4, pkt.stride_4d) \in Nat
      BY <1>0, <1>a, TimesFacts
    <3>2. Times(0, pkt.stride_3d) = 0 /\ Times(0, pkt.stride_2d) = 0
      BY <1>a, TimesZero
    <3>3. /\ local.paddr_3d = paddr + Times(at4, pkt.stride_4d)
          /\ len3 > 0 => local.paddr_1d = local.paddr_3d + pkt.stride_4d
      BY <2>1, <2>2 DEF AddressesOk
    <3> QED BY <1>0, <1>a, <2>2, <2>3, <3>1, <3>2, <3>3 DEF AddressesOk
  <2>6. CountOk(local)'
    <3>1. Pos(len3, len2, local'.index_4d, 0, at2) = Pos(len3, len2, at4, len3, at2)
      <4>1. len3 \in Nat /\ len2 \in Nat /\ at4 \in Nat /\ at3 \in Nat /\ at2 \in Nat
        BY <1>0
      <4>2. local'.index_4d = at4 + 1
        BY <2>3
      <4> HIDE DEF len3, len2, at4, at3, at2
      <4> QED BY <4>1, <4>2, PosNext4d
    <3> QED BY <2>1, <2>2, <2>3, <3>1 DEF CountOk
  <2>7. PointOk(local, "4d")'
    BY <1>0, <2>2, <2>3 DEF PointOk
  <2> QED BY <2>3, <2>4, <2>5, <2>6, <2>7 DEF WalkInv
<1>5. CASE Stall2d
  <2>1. WalkOk(local, "4d")
    BY <1>5, LeftWalkOk DEF Stall2d
  <2>2. checkpoint' = local /\ pc' = "staged" /\ pkt' = pkt /\ pushed' = pushed
    BY <1>5 DEF Stall2d, PutCheckpoint, put
  <2> QED BY <2>1, <2>2 DEF WalkInv, InBounds, AddressesOk, CountOk, PointOk
<1>6. CASE PushDescriptor
  <2>1. WalkOk(local, "2d") /\ at2 < len2
    BY <1>6, <1>b DEF PushDescriptor
  <2>2. at3 < len3 /\ at4 < len4
    BY <2>1 DEF PointOk
  <2>3. /\ local'.index_4d = at4 /\ local'.index_3d = at3 /\ local'.index_2d = at2 + 1
        /\ local'.paddr_3d = local.paddr_3d /\ local'.paddr_2d = local.paddr_2d
        /\ local'.paddr_1d = local.paddr_1d + pkt.stride_2d
        /\ pc' = "2d" /\ pkt' = pkt
    BY <1>6 DEF PushDescriptor, TypeOK, Walk
  <2>4. Len(pushed') = Len(pushed) + 1
    BY <1>6 DEF PushDescriptor, TypeOK
  <2>5. InBounds(local)'
    BY <1>0, <2>1, <2>3 DEF InBounds
  <2>6. AddressesOk(local)'
    <3>1. Times(at2 + 1, pkt.stride_2d) = Times(at2, pkt.stride_2d) + pkt.stride_2d
          /\ Times(at2, pkt.stride_2d) \in Nat
      BY <1>0, <1>a, TimesFacts
    <3> QED BY <1>0, <1>a, <2>1, <2>2, <2>3, <3>1 DEF AddressesOk
  <2>7. CountOk(local)'
    <3>1. Pos(len3, len2, at4, at3, local'.index_2d) = Pos(len3, len2, at4, at3, at2) + 1
      <4>1. len3 \in Nat /\ len2 \in Nat /\ at4 \in Nat /\ at3 \in Nat /\ at2 \in Nat
        BY <1>0
      <4>2. local'.index_2d = at2 + 1
        BY <2>3
      <4> HIDE DEF len3, len2, at4, at3, at2
      <4> QED BY <4>1, <4>2, PosNextRow
    <3> QED BY <2>1, <2>3, <2>4, <3>1 DEF CountOk
  <2>8. PointOk(local, "2d")'
    BY <2>2, <2>3 DEF PointOk
  <2> QED BY <2>3, <2>5, <2>6, <2>7, <2>8 DEF WalkInv
<1>7. CASE Leave2d
  <2>1. WalkOk(local, "2d") /\ at2 >= len2
    BY <1>7, <1>b DEF Leave2d
  <2>2. at2 = len2 /\ at3 < len3 /\ at4 < len4
    BY <1>0, <2>1 DEF InBounds, PointOk
  <2>3. /\ local'.index_4d = at4 /\ local'.index_3d = at3 + 1 /\ local'.index_2d = 0
        /\ local'.paddr_3d = local.paddr_3d
        /\ local'.paddr_2d = local.paddr_2d + pkt.stride_3d
        /\ local'.paddr_1d = IF at3 + 1 < len3 THEN local.paddr_2d + pkt.stride_3d
                             ELSE local.paddr_3d + pkt.stride_4d
        /\ pc' = "3d" /\ pkt' = pkt /\ pushed' = pushed
    BY <1>7 DEF Leave2d, nextRow, TypeOK, Walk
  <2>4. InBounds(local)'
    BY <1>0, <2>1, <2>2, <2>3 DEF InBounds
  <2>5. AddressesOk(local)'
    <3>1. Times(at3 + 1, pkt.stride_3d) = Times(at3, pkt.stride_3d) + pkt.stride_3d
          /\ Times(at3, pkt.stride_3d) \in Nat
      BY <1>0, <1>a, TimesFacts
    <3>2. Times(0, pkt.stride_2d) = 0
      BY <1>a, TimesZero
    <3> QED BY <1>0, <1>a, <2>1, <2>2, <2>3, <3>1, <3>2 DEF AddressesOk
  <2>6. CountOk(local)'
    <3>1. Pos(len3, len2, at4, local'.index_3d, 0) = Pos(len3, len2, at4, at3, len2)
      <4>1. len3 \in Nat /\ len2 \in Nat /\ at4 \in Nat /\ at3 \in Nat
        BY <1>0
      <4>2. local'.index_3d = at3 + 1
        BY <2>3
      <4> HIDE DEF len3, len2, at4, at3
      <4> QED BY <4>1, <4>2, PosNext3d
    <3> QED BY <2>1, <2>2, <2>3, <3>1 DEF CountOk
  <2>7. PointOk(local, "3d")'
    BY <2>2, <2>3 DEF PointOk
  <2> QED BY <2>3, <2>4, <2>5, <2>6, <2>7 DEF WalkInv
<1>8. CASE IdleTimeout
  <2>1. WalkOk(local, "4d")
    BY <1>8, LeftWalkOk DEF IdleTimeout
  <2>2. checkpoint' = local /\ pc' = "staged" /\ pkt' = pkt /\ pushed' = pushed
    BY <1>8 DEF IdleTimeout, PutCheckpoint, put
  <2> QED BY <2>1, <2>2 DEF WalkInv, InBounds, AddressesOk, CountOk, PointOk
<1>9. CASE Idle
  <2>1. WalkOk(local, "wait") /\ pc' = "done" /\ local' = local
        /\ pkt' = pkt /\ pushed' = pushed
    BY <1>9, <1>b DEF Idle
  <2> QED BY <2>1 DEF WalkInv, InBounds, AddressesOk, CountOk, PointOk
<1>10. CASE Finish
  BY <1>10 DEF Finish, WalkInv, InBounds, AddressesOk, CountOk, PointOk
<1>11. CASE UNCHANGED vars
  BY <1>11 DEF vars, WalkInv, InBounds, AddressesOk, CountOk, PointOk
<1> QED BY <1>1, <1>2, <1>3, <1>4, <1>5, <1>6, <1>7, <1>8, <1>9, <1>10, <1>11
        DEF Next, Controller

\* The row at the position reached is the one the indices name.
LEMMA RowReached ==
  ASSUME TypeOK, WalkOk(local, "2d"), local.index_2d < pkt.length_2d,
         NEW j4 \in Nat, NEW j3 \in Nat, NEW j2 \in Nat,
         j3 < pkt.length_3d, j2 < pkt.length_2d,
         Position(j4, j3, j2) = Len(pushed)
  PROVE  local.index_4d = j4 /\ local.index_3d = j3 /\ local.index_2d = j2
<1> DEFINE len3 == pkt.length_3d
           len2 == pkt.length_2d
           at4 == local.index_4d
           at3 == local.index_3d
           at2 == local.index_2d
<1>1. len3 \in Nat /\ len2 \in Nat /\ at4 \in Nat /\ at3 \in Nat /\ at2 \in Nat
  BY PacketNats, WalkNats DEF TypeOK
<1>2. at3 < len3 /\ at2 < len2
  BY <1>1 DEF WalkOk, PointOk
<1>3. Pos(len3, len2, at4, at3, at2) = Pos(len3, len2, j4, j3, j2)
  BY DEF WalkOk, CountOk, Pos, Position
<1>4. j3 < len3 /\ j2 < len2
  OBVIOUS
<1> HIDE DEF len3, len2, at4, at3, at2
<1>5. at4 = j4 /\ at3 = j3 /\ at2 = j2
  <2> DEFINE row == at4 * len3 + at3
             other == j4 * len3 + j3
  <2>1. at4 * len3 \in Nat /\ j4 * len3 \in Nat
    BY <1>1, ProductNat
  <2>2. row \in Nat /\ other \in Nat
    BY <1>1, <2>1
  <2>3. row * len2 + at2 = other * len2 + j2
    BY <1>3 DEF Pos
  <2>4. row = other /\ at2 = j2
    <3>1. at2 \in 0 .. len2 - 1 /\ j2 \in 0 .. len2 - 1
      BY <1>1, <1>2, <1>4
    <3> HIDE DEF row, other
    <3> QED BY <1>1, <2>2, <2>3, <3>1, SplitPosition
  <2>5. at3 \in 0 .. len3 - 1 /\ j3 \in 0 .. len3 - 1
    BY <1>1, <1>2, <1>4
  <2>6. at4 * len3 + at3 = j4 * len3 + j3
    BY <2>4
  <2> QED BY <1>1, <2>4, <2>5, <2>6, SplitPosition
<1> QED BY <1>5 DEF at4, at3, at2

\* A descriptor pushed is the next row's, the earlier ones stay.
LEMMA RowsStep == TypeOK /\ WalkInv /\ RowsInOrder /\ [Next]_vars => RowsInOrder'
<1> SUFFICES ASSUME TypeOK, WalkInv, RowsInOrder, [Next]_vars PROVE RowsInOrder'
  OBVIOUS
<1>1. CASE PushDescriptor
  <2> DEFINE len3 == pkt.length_3d
             len2 == pkt.length_2d
             at4 == local.index_4d
             at3 == local.index_3d
             at2 == local.index_2d
  <2>0. /\ pkt.length_4d \in Nat /\ len3 \in Nat /\ len2 \in Nat
        /\ at4 \in Nat /\ at3 \in Nat /\ at2 \in Nat
    BY PacketNats, WalkNats DEF TypeOK
  <2>a. /\ pkt.stride_4d \in Nat /\ pkt.stride_3d \in Nat /\ pkt.stride_2d \in Nat
        /\ paddr \in Nat /\ pushed \in Seq(Nat)
    BY PacketNats, CopyAssumption DEF TypeOK
  <2>1. WalkOk(local, "2d") /\ at2 < len2
    BY <1>1 DEF PushDescriptor, WalkInv
  <2>2. at3 < len3
    BY <2>1 DEF WalkOk, PointOk
  <2>3. local.paddr_1d = RowAddress(at4, at3, at2)
    <3>1. /\ local.paddr_3d = paddr + Times(at4, pkt.stride_4d)
          /\ local.paddr_2d = local.paddr_3d + Times(at3, pkt.stride_3d)
          /\ local.paddr_1d = local.paddr_2d + Times(at2, pkt.stride_2d)
      BY <2>1, <2>2 DEF WalkOk, AddressesOk
    <3> QED BY <3>1 DEF Times, RowAddress
  <2>4. pushed' = Append(pushed, local.paddr_1d) /\ pkt' = pkt
    BY <1>1 DEF PushDescriptor
  <2>5. Len(pushed) = Position(at4, at3, at2)
    BY <2>1 DEF WalkOk, CountOk, Pos, Position
  <2> SUFFICES ASSUME NEW j4 \in 0 .. (pkt.length_4d)' - 1,
                      NEW j3 \in 0 .. (pkt.length_3d)' - 1,
                      NEW j2 \in 0 .. (pkt.length_2d)' - 1,
                      Position(j4, j3, j2)' < Len(pushed')
               PROVE  pushed'[Position(j4, j3, j2)' + 1] = RowAddress(j4, j3, j2)'
    BY DEF RowsInOrder
  <2>b. /\ j4 \in 0 .. pkt.length_4d - 1 /\ j3 \in 0 .. len3 - 1 /\ j2 \in 0 .. len2 - 1
        /\ Position(j4, j3, j2)' = Position(j4, j3, j2)
        /\ RowAddress(j4, j3, j2)' = RowAddress(j4, j3, j2)
    BY <2>4 DEF Position, RowAddress
  <2>6. Position(j4, j3, j2) \in Nat
    <3>1. j4 \in Nat /\ j3 \in Nat /\ j2 \in Nat
      BY <2>0, <2>b
    <3>2. Pos(len3, len2, j4, j3, j2) \in Nat
      BY <2>0, <3>1, PosNat
    <3> QED BY <3>2 DEF Pos, Position
  <2>7. CASE Position(j4, j3, j2) < Len(pushed)
    <3>1. pushed[Position(j4, j3, j2) + 1] = RowAddress(j4, j3, j2)
      BY <2>7, <2>b DEF RowsInOrder
    <3> QED BY <2>a, <2>b, <2>4, <2>6, <2>7, <3>1
  <2>8. CASE Position(j4, j3, j2) = Len(pushed)
    <3>1. at4 = j4 /\ at3 = j3 /\ at2 = j2
      <4>1. j4 \in Nat /\ j3 \in Nat /\ j2 \in Nat /\ j3 < len3 /\ j2 < len2
        BY <2>0, <2>b
      <4> QED BY <2>1, <2>8, <2>b, <4>1, RowReached
    <3>2. pushed'[Len(pushed) + 1] = local.paddr_1d
      BY <2>a, <2>4
    <3> QED BY <2>3, <2>8, <2>b, <3>1, <3>2
  <2>9. Len(pushed') = Len(pushed) + 1 /\ Len(pushed) \in Nat
    BY <2>a, <2>4
  <2> QED BY <2>6, <2>7, <2>8, <2>9, <2>b
<1>2. CASE pushed' = pushed /\ pkt' = pkt
  BY <1>2 DEF RowsInOrder, Position, RowAddress
<1> QED BY <1>1, <1>2 DEF Next, Controller, GetCheckpoint, Enter4d, Enter3d, Leave3d,
        Stall2d, PutCheckpoint, Leave2d, IdleTimeout, Idle, Finish, vars

\* The invariant is inductive.
LEMMA InductiveStep == IInv /\ [Next]_vars => IInv'
<1> SUFFICES ASSUME IInv, [Next]_vars PROVE IInv'
  OBVIOUS
<1>1. TypeOK' /\ WalkInv' /\ RowsInOrder'
  BY TypeStep, WalkInvStep, RowsStep DEF IInv
<1>2. (pc = "done" => outstanding = 0)'
  <2>1. CASE Idle
    BY <2>1 DEF Idle, idle
  <2>2. CASE Finish
    BY <2>2 DEF Finish, IInv
  <2>3. CASE pc' # "done"
    BY <2>3
  <2>4. CASE UNCHANGED vars
    BY <2>4 DEF vars, IInv
  <2> QED BY <2>1, <2>2, <2>3, <2>4 DEF Next, Controller, GetCheckpoint, Enter4d,
          Enter3d, Leave3d, Stall2d, PutCheckpoint, PushDescriptor, Leave2d, IdleTimeout
<1> QED BY <1>1, <1>2 DEF IInv

\* It holds of every state of a copy.
THEOREM Inductive == Spec => []IInv
BY InitInv, InductiveStep, PTL DEF Spec

-----------------------------------------------------------------------------
(* The theorems. *)

\* The packet, the checkpoint and the walk keep their types.
THEOREM TypeCorrect == Spec => []TypeOK
<1>1. IInv => TypeOK
  BY DEF IInv
<1> QED BY <1>1, Inductive, PTL

\* Stopping and resuming never skips, repeats or misplaces a row.
THEOREM RowsAlwaysInOrder == Spec => []RowsInOrder
<1>1. IInv => RowsInOrder
  BY DEF IInv
<1> QED BY <1>1, Inductive, PTL

\* A walk that ran to its end has pushed every row of the packet.
LEMMA EndOfWalk ==
  ASSUME TypeOK, WalkOk(local, pc), pc \in {"wait", "done"}
  PROVE  Len(pushed) = Total
<1>1. pkt.length_4d \in Nat /\ pkt.length_3d \in Nat /\ pkt.length_2d \in Nat
  BY PacketNats DEF TypeOK
<1>2. Len(pushed) = Pos(pkt.length_3d, pkt.length_2d, pkt.length_4d, 0, 0)
  BY DEF WalkOk, CountOk, PointOk
<1>3. Pos(pkt.length_3d, pkt.length_2d, pkt.length_4d, 0, 0) =
        pkt.length_4d * pkt.length_3d * pkt.length_2d
  BY <1>1, PosEnd
<1> QED BY <1>2, <1>3 DEF Total

\* A completed copy pushed every row and the DMA has executed them all.
THEOREM DoneIsCopied == Spec => []DoneMeansCopied
<1>1. IInv => DoneMeansCopied
  BY EndOfWalk DEF IInv, WalkInv, DoneMeansCopied
<1> QED BY <1>1, Inductive, PTL

\* In the inner loop a row is left to push.
LEMMA RowLeft ==
  ASSUME TypeOK, WalkOk(local, "2d"), local.index_2d < pkt.length_2d
  PROVE  Total - Len(pushed) > 0
<1> DEFINE len4 == pkt.length_4d
           len3 == pkt.length_3d
           len2 == pkt.length_2d
           at4 == local.index_4d
           at3 == local.index_3d
           at2 == local.index_2d
<1>1. /\ len4 \in Nat /\ len3 \in Nat /\ len2 \in Nat
      /\ at4 \in Nat /\ at3 \in Nat /\ at2 \in Nat
  BY PacketNats, WalkNats DEF TypeOK
<1>2. /\ at4 \in 0 .. len4 - 1 /\ at3 \in 0 .. len3 - 1 /\ at2 \in 0 .. len2 - 1
  BY <1>1 DEF WalkOk, PointOk
<1>3. Len(pushed) = (at4 * len3 + at3) * len2 + at2
  BY DEF WalkOk, CountOk, Pos
<1>4. (at4 * len3 + at3) * len2 + at2 < len4 * len3 * len2
  <2> HIDE DEF len4, len3, len2, at4, at3, at2
  <2> QED BY <1>1, <1>2, RowBound
<1>5. len4 * len3 \in Nat
  BY <1>1, ProductNat
<1>6. Total = len4 * len3 * len2 /\ Total \in Nat
  BY <1>1, <1>5, ProductNat DEF Total
<1>7. Len(pushed) \in Nat
  BY DEF TypeOK
<1> HIDE DEF len4, len3, len2, at4, at3, at2
<1> QED BY <1>3, <1>4, <1>6, <1>7

\* The number of rows of a packet is a number.
LEMMA TotalNat ==
  ASSUME TypeOK
  PROVE  Total \in Nat
<1>1. pkt.length_4d \in Nat /\ pkt.length_3d \in Nat /\ pkt.length_2d \in Nat
  BY PacketNats DEF TypeOK
<1>2. pkt.length_4d * pkt.length_3d \in Nat
  BY <1>1, ProductNat
<1> QED BY <1>1, <1>2, ProductNat DEF Total

\* Every step of the walk is a step of the copy the dispatch loop counts on, or
\* changes nothing it sees.
LEMMA LaneStep == IInv /\ [Next]_vars => [Lane!CopyNext]_Lane!lane
<1> SUFFICES ASSUME IInv, [Next]_vars PROVE [Lane!CopyNext]_Lane!lane
  OBVIOUS
<1> USE DEF Lane!lane
<1>0. TypeOK /\ WalkInv /\ Total \in Nat /\ Len(pushed) \in Nat /\ outstanding \in Nat
      /\ Stall \in Nat /\ pushed \in Seq(Nat)
  BY TotalNat, CopyAssumption DEF IInv, TypeOK
<1>1. CASE GetCheckpoint
  <2>1. Lane!Resume
    BY <1>1 DEF GetCheckpoint, Lane!Resume, Total
  <2> QED BY <2>1 DEF Lane!CopyNext
<1>2. CASE Enter4d
  BY <1>2 DEF Enter4d, Total
<1>3. CASE Enter3d
  BY <1>3 DEF Enter3d, Total
<1>4. CASE Leave3d
  BY <1>4 DEF Leave3d, Total
<1>5. CASE Stall2d
  <2>1. Total - Len(pushed) > 0
    BY <1>0, <1>5, RowLeft DEF Stall2d, WalkInv
  <2>2. Lane!LeaveUnfinished
    BY <1>5, <2>1 DEF Stall2d, PutCheckpoint, Lane!LeaveUnfinished, Total
  <2> QED BY <2>2 DEF Lane!CopyNext
<1>6. CASE PushDescriptor
  <2>1. Total - Len(pushed) > 0
    BY <1>0, <1>6, RowLeft DEF PushDescriptor, WalkInv
  <2>2. Len(pushed') = Len(pushed) + 1 /\ Total' = Total
    BY <1>0, <1>6 DEF PushDescriptor, Total
  <2>3. Total' - Len(pushed') = Total - Len(pushed) - 1
    BY <1>0, <2>2
  <2>4. outstanding < Stall /\ outstanding' = outstanding + 1 /\ pc = "2d" /\ pc' = pc
    BY <1>0, <1>6 DEF PushDescriptor, stalled
  <2>5. Lane!Push
    BY <2>1, <2>3, <2>4 DEF Lane!Push
  <2> QED BY <2>5 DEF Lane!CopyNext
<1>7. CASE Leave2d
  BY <1>7 DEF Leave2d, Total
<1>8. CASE IdleTimeout
  <2>1. Lane!LeaveUnfinished
    BY <1>8 DEF IdleTimeout, PutCheckpoint, Lane!LeaveUnfinished, Total
  <2> QED BY <2>1 DEF Lane!CopyNext
<1>9. CASE Idle
  <2>1. Len(pushed) = Total
    BY <1>0, <1>9, EndOfWalk DEF Idle, WalkInv
  <2>2. Total - Len(pushed) = 0
    BY <1>0, <2>1
  <2>3. Lane!Complete
    BY <1>9, <2>2 DEF Idle, idle, Lane!Complete, Total
  <2> QED BY <2>3 DEF Lane!CopyNext
<1>10. CASE Finish
  <2>1. Lane!Finish
    BY <1>10 DEF Finish, Lane!Finish, Total
  <2> QED BY <2>1 DEF Lane!CopyNext
<1>11. CASE UNCHANGED vars
  BY <1>11 DEF vars, Total
<1> QED BY <1>1, <1>2, <1>3, <1>4, <1>5, <1>6, <1>7, <1>8, <1>9, <1>10, <1>11
        DEF Next, Controller

\* The walk over addresses implements the counted copy that the dispatch loop
\* is modelled with.
THEOREM ImplementsLane == Spec => RefinesLane
<1>1. Init => Lane!CopyInit
  <2> SUFFICES ASSUME Init PROVE Lane!CopyInit
    OBVIOUS
  <2>1. TypeOK
    BY InitInv DEF IInv
  <2>2. Total \in Nat /\ Len(pushed) = 0
    BY <2>1, TotalNat DEF Init
  <2> QED BY <2>2 DEF Init, Lane!CopyInit
<1>2. IInv /\ [Next]_vars => [Lane!CopyNext]_Lane!lane
  BY LaneStep
<1> QED BY <1>1, <1>2, Inductive, PTL DEF Spec, RefinesLane, Lane!CopySpec

-----------------------------------------------------------------------------
(* The descriptors of the shim DMA. *)

\* The push the controller is in the middle of, if it is one to column c.
busy(c) == push_pc # "idle" /\ col = c
begun(c) == IF busy(c) THEN pushes[c] + 1 ELSE pushes[c]

\* The pointer counts its takes, modulo four.
PointerInv == \A s \in 0 .. 1 : last_bd[s] = picks[s] % 4

\* Each push begun was given a later take than the one before.
GivenInv ==
  \A c \in Cols :
    /\ Len(given[c]) = begun(c)
    /\ \A i \in 1 .. Len(given[c]) :
         /\ given[c][i] < picks[slot(c)]
         /\ \A j \in 1 .. i - 1 : given[c][j] < given[c][i]

\* What was pushed and not executed is in the start queue.
CountInv ==
  \A c \in Cols :
    /\ pushes[c] = Len(executed[c]) + Len(queue[c])
    /\ busy(c) => queued(c) < 4

\* The queue names the descriptors its pushes were given, each written by its
\* push.
QueueInv ==
  \A c \in Cols : \A k \in 1 .. Len(queue[c]) :
    /\ queue[c][k] = given[c][Len(executed[c]) + k] % 4
    /\ c \notin lapped => contents[c][queue[c][k]] = Len(executed[c]) + k - 1

\* The descriptor being written is the one given last, fewer than four takes
\* after those in the queue.
CurrentInv ==
  push_pc # "idle" =>
    /\ bd = given[col][pushes[col] + 1] % 4
    /\ push_pc = "start" => contents[col][bd] = pushes[col]
    /\ col \notin lapped =>
         \A k \in 1 .. Len(queue[col]) :
           given[col][pushes[col] + 1] - given[col][Len(executed[col]) + k] < 4

\* A column that has the pointer to itself is given one take after the other,
\* and only the others have it lapped.
alone(c) == \A d \in Cols \ {c} : slot(d) = slot(c) => begun(d) = 0
AloneInv ==
  \A c \in Cols : alone(c) =>
    /\ picks[slot(c)] = begun(c)
    /\ \A i \in 1 .. Len(given[c]) : given[c][i] = i - 1

\* It takes an earlier push to be lapped.
LappedInv == \A c \in lapped : Len(given[c]) > 1

ShimInv ==
  /\ ShimTypeOK
  /\ PointerInv
  /\ GivenInv
  /\ CountInv
  /\ QueueInv
  /\ CurrentInv
  /\ AloneInv
  /\ LappedInv
  /\ ExecutedUnlessLapped

-----------------------------------------------------------------------------
\* The ring of the descriptors has a size.
LEMMA FourIsASize == 4 \in Nat \ {0}
OBVIOUS

\* The two channels of a direction.
LEMMA SlotType == ASSUME NEW c \in Cols PROVE slot(c) \in 0 .. 1
<1>1. c \in Nat
  BY ShimAssumption
<1> QED BY <1>1 DEF slot

\* The pointer's step is the successor modulo four.
LEMMA PointerSuccessor ==
  ASSUME NEW i \in Nat
  PROVE  nextBd(i % 4) = (i + 1) % 4 /\ i % 4 \in BDs
<1>1. ((i % 4) + 1) % 4 = (i + 1) % 4
  BY FourIsASize, SlotSuccessor
<1>2. i % 4 \in 0 .. 3
  BY FourIsASize, DivMod
<1>3. CASE i % 4 = 3
  BY <1>1, <1>2, <1>3 DEF nextBd, BDs
<1>4. CASE i % 4 \in 0 .. 2
  BY <1>1, <1>4 DEF nextBd, BDs
<1> QED BY <1>2, <1>3, <1>4

\* Fewer than four apart, two takes of the pointer are different descriptors.
LEMMA OtherDescriptor ==
  ASSUME NEW i \in Nat, NEW j \in Nat, i < j, j - i < 4
  PROVE  i % 4 # j % 4
<1>1. i - j < 4
  OBVIOUS
<1> QED BY <1>1, FourIsASize, SameSlotSameIndex

\* A push lengthens the queue; the DMA moves one push from the queue to the
\* executed ones.
LEMMA Counting ==
  ASSUME NEW e \in Nat, NEW q \in Nat
  PROVE  e + q + 1 = e + (q + 1) /\ e + q = (e + 1) + (q - 1)
OBVIOUS

\* Where the k-th push in a queue stands among those of its column.
LEMMA Standing ==
  ASSUME NEW e \in Nat, NEW q \in Nat, NEW p \in Nat, NEW g, p = e + q, g \in {p, p + 1},
         NEW k \in 1 .. q
  PROVE  e + k \in 1 .. p /\ e + k \in 1 .. g
OBVIOUS

\* The sequences of a column, their lengths, and where the pushes in its queue
\* stand among those it was given.
LEMMA ColumnFacts ==
  ASSUME ShimInv, NEW c \in Cols
  PROVE  /\ queue[c] \in Seq(BDs) /\ executed[c] \in Seq(Int) /\ given[c] \in Seq(Nat)
         /\ Len(queue[c]) \in Nat /\ Len(executed[c]) \in Nat /\ Len(given[c]) \in Nat
         /\ pushes[c] \in Nat /\ slot(c) \in 0 .. 1 /\ picks[slot(c)] \in Nat
         /\ pushes[c] = Len(executed[c]) + Len(queue[c])
         /\ Len(given[c]) = begun(c)
         /\ begun(c) \in {pushes[c], pushes[c] + 1}
         /\ \A i \in 1 .. Len(given[c]) : given[c][i] \in Nat /\ given[c][i] < picks[slot(c)]
         /\ \A k \in 1 .. Len(queue[c]) :
              /\ Len(executed[c]) + k \in 1 .. pushes[c]
              /\ Len(executed[c]) + k \in 1 .. Len(given[c])
<1>1. /\ queue[c] \in Seq(BDs) /\ executed[c] \in Seq(Int) /\ given[c] \in Seq(Nat)
      /\ pushes[c] \in Nat /\ picks \in [0 .. 1 -> Nat]
  BY DEF ShimInv, ShimTypeOK
<1>2. Len(queue[c]) \in Nat /\ Len(executed[c]) \in Nat /\ Len(given[c]) \in Nat
  BY <1>1
<1>3. /\ pushes[c] = Len(executed[c]) + Len(queue[c]) /\ Len(given[c]) = begun(c)
      /\ \A i \in 1 .. Len(given[c]) : given[c][i] < picks[slot(c)]
  BY DEF ShimInv, CountInv, GivenInv
<1>4. \A i \in 1 .. Len(given[c]) : given[c][i] \in Nat
  BY <1>1
<1>5. begun(c) \in {pushes[c], pushes[c] + 1}
  BY DEF begun
<1>6. ASSUME NEW k \in 1 .. Len(queue[c])
      PROVE  /\ Len(executed[c]) + k \in 1 .. pushes[c]
             /\ Len(executed[c]) + k \in 1 .. Len(given[c])
  <2>1. Len(given[c]) \in {pushes[c], pushes[c] + 1}
    BY <1>3, <1>5
  <2> QED BY <1>1, <1>2, <1>3, <2>1, Standing
<1> QED BY <1>1, <1>2, <1>3, <1>4, <1>5, <1>6, SlotType

\* Later pushes were given later takes of the pointer.
LEMMA GivenGrows ==
  ASSUME ShimInv, NEW c \in Cols, NEW i \in 1 .. Len(given[c]), NEW j \in 1 .. i
  PROVE  given[c][j] <= given[c][i]
<1>1. /\ Len(given[c]) \in Nat /\ given[c][i] \in Nat
      /\ \A m \in 1 .. i - 1 : given[c][m] < given[c][i]
  BY ColumnFacts DEF ShimInv, GivenInv
<1>2. CASE j = i
  BY <1>1, <1>2
<1>3. CASE j \in 1 .. i - 1
  <2>1. given[c][j] \in Nat
    <3>1. j \in 1 .. Len(given[c])
      BY <1>1
    <3> QED BY <3>1, ColumnFacts
  <2> QED BY <1>1, <1>3, <2>1
<1> QED BY <1>1, <1>2, <1>3

\* No descriptor is in use when the controller starts.
LEMMA ShimInitInv == ShimInit => ShimInv
<1> SUFFICES ASSUME ShimInit PROVE ShimInv
  OBVIOUS
<1>0. \A c \in Cols : /\ executed[c] = <<>> /\ queue[c] = <<>> /\ given[c] = <<>>
                      /\ pushes[c] = 0 /\ ~busy(c) /\ slot(c) \in 0 .. 1
  BY SlotType DEF ShimInit, busy
<1>1. ShimTypeOK
  BY DEF ShimInit, ShimTypeOK, BDs, queued, Invalid
<1>2. PointerInv
  <2>1. 0 % 4 = 0
    OBVIOUS
  <2> QED BY <2>1 DEF ShimInit, PointerInv
<1>3. ASSUME NEW c \in Cols
      PROVE  /\ Len(queue[c]) = 0 /\ Len(executed[c]) = 0 /\ Len(given[c]) = 0
             /\ pushes[c] = 0 /\ ~busy(c) /\ begun(c) = 0
  <2>1. /\ executed[c] = <<>> /\ queue[c] = <<>> /\ given[c] = <<>>
        /\ pushes[c] = 0 /\ ~busy(c)
    BY <1>0
  <2> QED BY <2>1 DEF begun
<1>4. QueueInv
  BY <1>0 DEF QueueInv
<1>5. CurrentInv /\ LappedInv /\ ExecutedUnlessLapped
  BY <1>0 DEF ShimInit, CurrentInv, LappedInv, ExecutedUnlessLapped, InOrder
<1>6. AloneInv
  <2>1. \A c \in Cols : picks[slot(c)] = 0
    BY <1>0 DEF ShimInit
  <2> QED BY <1>0, <2>1 DEF AloneInv, begun
<1>7. CountInv
  <2> SUFFICES ASSUME NEW c \in Cols
               PROVE  pushes[c] = Len(executed[c]) + Len(queue[c]) /\ ~busy(c)
    BY DEF CountInv
  <2>1. 0 = 0 + 0
    OBVIOUS
  <2> QED BY <1>3, <2>1
<1>8. GivenInv
  <2> SUFFICES ASSUME NEW c \in Cols
               PROVE  /\ Len(given[c]) = begun(c)
                      /\ \A i \in 1 .. Len(given[c]) :
                           /\ given[c][i] < picks[slot(c)]
                           /\ \A j \in 1 .. i - 1 : given[c][j] < given[c][i]
    BY DEF GivenInv
  <2>1. Len(given[c]) = 0 /\ begun(c) = 0
    BY <1>3
  <2>2. ~\E i \in 1 .. Len(given[c]) : TRUE
    BY <2>1
  <2> QED BY <2>1, <2>2
<1> QED BY <1>1, <1>2, <1>4, <1>5, <1>6, <1>7, <1>8 DEF ShimInv

-----------------------------------------------------------------------------
(* One lemma per action. *)

\* What a pick leaves alone, and what it adds.
LEMMA PickFacts ==
  ASSUME ShimInv, NEW c \in Cols, PickDescriptor(c)
  PROVE  /\ push_pc = "idle" /\ push_pc' = "invalidate" /\ col' = c
         /\ UNCHANGED <<contents, queue, pushes, executed>>
         /\ bd' = last_bd[slot(c)]
         /\ last_bd' = [last_bd EXCEPT ![slot(c)] = nextBd(last_bd[slot(c)])]
         /\ picks' = [picks EXCEPT ![slot(c)] = picks[slot(c)] + 1]
         /\ \A d \in Cols : /\ slot(d) = slot(c) => picks'[slot(d)] = picks[slot(c)] + 1
                            /\ slot(d) # slot(c) => picks'[slot(d)] = picks[slot(d)]
         /\ given' \in [Cols -> Seq(Nat)]
         /\ given'[c] = Append(given[c], picks[slot(c)])
         /\ Len(given[c]) = pushes[c] /\ Len(given'[c]) = pushes[c] + 1
         /\ given'[c][pushes[c] + 1] = picks[slot(c)]
         /\ \A i \in 1 .. pushes[c] : given'[c][i] = given[c][i]
         /\ \A d \in Cols \ {c} : given'[d] = given[d]
         /\ \A d \in Cols : begun(d) = pushes[d]
         /\ \A d \in Cols : begun(d)' = IF d = c THEN pushes[d] + 1 ELSE pushes[d]
         /\ lapped' = IF laps(c) THEN lapped \cup {c} ELSE lapped
<1>1. /\ push_pc = "idle" /\ push_pc' = "invalidate" /\ col' = c
      /\ UNCHANGED <<contents, queue, pushes, executed>>
      /\ bd' = last_bd[slot(c)]
      /\ last_bd' = [last_bd EXCEPT ![slot(c)] = nextBd(last_bd[slot(c)])]
      /\ picks' = [picks EXCEPT ![slot(c)] = picks[slot(c)] + 1]
      /\ given' = [given EXCEPT ![c] = Append(given[c], picks[slot(c)])]
      /\ lapped' = IF laps(c) THEN lapped \cup {c} ELSE lapped
  BY DEF PickDescriptor
<1>2. /\ given \in [Cols -> Seq(Nat)] /\ picks \in [0 .. 1 -> Nat]
      /\ given[c] \in Seq(Nat) /\ picks[slot(c)] \in Nat /\ slot(c) \in 0 .. 1
      /\ Len(given[c]) \in Nat /\ pushes[c] \in Nat
  BY ColumnFacts DEF ShimInv, ShimTypeOK
<1>3. \A d \in Cols : begun(d) = pushes[d]
  BY <1>1 DEF begun, busy
<1>4. \A d \in Cols : begun(d)' = IF d = c THEN pushes[d] + 1 ELSE pushes[d]
  BY <1>1 DEF begun, busy
<1>5. /\ given' \in [Cols -> Seq(Nat)] /\ given'[c] = Append(given[c], picks[slot(c)])
      /\ \A d \in Cols \ {c} : given'[d] = given[d]
  BY <1>1, <1>2
<1>6. Len(given[c]) = pushes[c]
  BY <1>3, ColumnFacts
<1>7. /\ Len(given'[c]) = pushes[c] + 1 /\ given'[c][pushes[c] + 1] = picks[slot(c)]
      /\ \A i \in 1 .. pushes[c] : given'[c][i] = given[c][i]
  BY <1>2, <1>5, <1>6
<1>8. \A d \in Cols : /\ slot(d) = slot(c) => picks'[slot(d)] = picks[slot(c)] + 1
                      /\ slot(d) # slot(c) => picks'[slot(d)] = picks[slot(d)]
  BY <1>1, <1>2, SlotType
<1> QED BY <1>1, <1>3, <1>4, <1>5, <1>6, <1>7, <1>8

\* A column that has the pointer to itself is not lapped: its queue is shorter
\* than the ring.
LEMMA AloneNotLapped ==
  ASSUME ShimInv, NEW c \in Cols, mayPush(c), push_pc = "idle", alone(c)
  PROVE  ~laps(c)
<1>1. /\ Len(queue[c]) \in Nat /\ Len(executed[c]) \in Nat /\ queue[c] \in Seq(BDs)
      /\ pushes[c] \in Nat /\ pushes[c] = Len(executed[c]) + Len(queue[c])
      /\ Len(given[c]) = begun(c) /\ Len(queue[c]) < 4
  BY ColumnFacts DEF mayPush, queued
<1>2. begun(c) = pushes[c]
  BY DEF begun, busy
<1>3. /\ picks[slot(c)] = pushes[c]
      /\ \A i \in 1 .. pushes[c] : given[c][i] = i - 1
  BY <1>1, <1>2 DEF ShimInv, AloneInv
<1>4. CASE queue[c] # <<>>
  <2>1. Len(queue[c]) >= 1
    BY <1>1, <1>4
  <2>2. Len(executed[c]) + 1 \in 1 .. pushes[c]
    <3>1. 1 \in 1 .. Len(queue[c]) /\ pushes[c] \in {pushes[c], pushes[c] + 1}
      BY <1>1, <2>1
    <3> QED BY <1>1, <3>1, Standing
  <2>3. given[c][Len(executed[c]) + 1] = Len(executed[c]) + 1 - 1
    BY <1>3, <2>2
  <2>4. picks[slot(c)] - given[c][Len(executed[c]) + 1] = Len(queue[c])
    <3>1. PICK e, q, p : e = Len(executed[c]) /\ q = Len(queue[c]) /\ p = pushes[c]
      OBVIOUS
    <3>2. e \in Nat /\ q \in Nat /\ p = e + q
      BY <1>1, <3>1
    <3>3. p - (e + 1 - 1) = q
      BY <3>2
    <3> QED BY <1>3, <2>3, <3>1, <3>3
  <2> QED BY <1>1, <2>4 DEF laps
<1> QED BY <1>4 DEF laps

\* A push that takes the pointer.
LEMMA PickStep ==
  ASSUME ShimInv, NEW c \in Cols, mayPush(c), PickDescriptor(c)
  PROVE  ShimInv'
<1> DEFINE s == slot(c)
           p == picks[s]
<1>a. /\ push_pc = "idle" /\ push_pc' = "invalidate" /\ col' = c
      /\ UNCHANGED <<contents, queue, pushes, executed>>
      /\ bd' = last_bd[s]
  BY PickFacts
<1>b. /\ last_bd' = [last_bd EXCEPT ![s] = nextBd(last_bd[s])]
      /\ picks' = [picks EXCEPT ![s] = p + 1]
      /\ \A d \in Cols : slot(d) = s => picks'[slot(d)] = p + 1
      /\ \A d \in Cols : slot(d) # s => picks'[slot(d)] = picks[slot(d)]
  BY PickFacts
<1>c. /\ Len(given[c]) = pushes[c] /\ Len(given'[c]) = pushes[c] + 1
      /\ given'[c][pushes[c] + 1] = p
      /\ \A i \in 1 .. pushes[c] : given'[c][i] = given[c][i]
      /\ \A d \in Cols \ {c} : given'[d] = given[d]
      /\ given' \in [Cols -> Seq(Nat)]
  BY PickFacts
<1>d. /\ \A d \in Cols : begun(d) = pushes[d]
      /\ \A d \in Cols : begun(d)' = IF d = c THEN pushes[d] + 1 ELSE pushes[d]
  BY PickFacts
<1>e. lapped' = IF laps(c) THEN lapped \cup {c} ELSE lapped
  BY PickFacts
<1>0. /\ s \in 0 .. 1 /\ last_bd[s] \in BDs /\ pushes[c] \in Nat /\ p \in Nat
      /\ queued(c) < 4 /\ last_bd[s] = p % 4 /\ last_bd \in [0 .. 1 -> BDs]
      /\ picks \in [0 .. 1 -> Nat]
  BY ColumnFacts DEF ShimInv, ShimTypeOK, PointerInv, mayPush
<1>1. ShimTypeOK'
  <2>1. nextBd(last_bd[s]) \in BDs
    BY <1>0 DEF BDs, nextBd
  <2>2. picks' \in [0 .. 1 -> Nat] /\ last_bd' \in [0 .. 1 -> BDs]
    BY <1>0, <1>b, <2>1
  <2>3. lapped' \subseteq Cols
    BY <1>e DEF ShimInv, ShimTypeOK
  <2> QED BY <1>0, <1>a, <1>c, <2>2, <2>3 DEF ShimInv, ShimTypeOK, queued
<1>2. PointerInv'
  <2> SUFFICES ASSUME NEW t \in 0 .. 1 PROVE last_bd'[t] = picks'[t] % 4
    BY DEF PointerInv
  <2>1. CASE t = s
    <3>1. nextBd(p % 4) = (p + 1) % 4
      BY <1>0, PointerSuccessor
    <3> QED BY <1>0, <1>b, <2>1, <3>1
  <2>2. CASE t # s
    BY <1>0, <1>b, <2>2 DEF ShimInv, PointerInv
  <2> QED BY <2>1, <2>2
<1>3. GivenInv'
  <2> SUFFICES ASSUME NEW d \in Cols
               PROVE  /\ Len(given'[d]) = begun(d)'
                      /\ \A i \in 1 .. Len(given'[d]) :
                           /\ given'[d][i] < picks'[slot(d)]
                           /\ \A j \in 1 .. i - 1 : given'[d][j] < given'[d][i]
    BY DEF GivenInv, slot
  <2>1. /\ \A i \in 1 .. Len(given[d]) : given[d][i] \in Nat /\ given[d][i] < picks[slot(d)]
        /\ \A i \in 1 .. Len(given[d]) : \A j \in 1 .. i - 1 : given[d][j] < given[d][i]
        /\ picks[slot(d)] \in Nat /\ Len(given[d]) = begun(d) /\ Len(given[d]) \in Nat
    BY ColumnFacts DEF ShimInv, GivenInv
  <2>2. picks'[slot(d)] \in Nat /\ picks'[slot(d)] >= picks[slot(d)]
    <3>1. CASE slot(d) = s
      BY <1>0, <1>b, <3>1
    <3>2. CASE slot(d) # s
      BY <1>b, <2>1, <3>2
    <3> QED BY <3>1, <3>2
  <2>3. CASE d # c
    <3>1. given'[d] = given[d] /\ begun(d)' = begun(d)
      BY <1>c, <1>d, <2>3
    <3> QED BY <2>1, <2>2, <3>1
  <2>4. CASE d = c
    <3>1. PICK n : n = pushes[c] /\ n \in Nat
      BY <1>0
    <3>2. PICK g, h : g = given[c] /\ h = given'[c]
      OBVIOUS
    <3>3. /\ \A i \in 1 .. n : h[i] = g[i] /\ g[i] \in Nat /\ g[i] < p
          /\ h[n + 1] = p
          /\ \A i \in 1 .. n : \A j \in 1 .. i - 1 : g[j] < g[i]
      BY <1>c, <2>1, <2>4, <3>1, <3>2
    <3>4. ASSUME NEW i \in 1 .. n + 1
          PROVE  h[i] < p + 1 /\ \A j \in 1 .. i - 1 : h[j] < h[i]
      <4>1. CASE i \in 1 .. n
        <5>1. \A j \in 1 .. i - 1 : j \in 1 .. n
          BY <3>1, <4>1
        <5> HIDE DEF p
        <5> QED BY <1>0, <3>3, <4>1, <5>1
      <4>2. CASE i = n + 1
        <5>1. \A j \in 1 .. i - 1 : j \in 1 .. n
          BY <3>1, <4>2
        <5> HIDE DEF p
        <5> QED BY <1>0, <3>3, <4>2, <5>1
      <4> QED BY <3>1, <4>1, <4>2
    <3>5. Len(given'[c]) = n + 1 /\ begun(c)' = n + 1 /\ picks'[slot(c)] = p + 1
      BY <1>b, <1>c, <1>d, <3>1
    <3> QED BY <2>4, <3>2, <3>4, <3>5
  <2> QED BY <2>3, <2>4
<1>4. CountInv'
  BY <1>0, <1>a DEF ShimInv, CountInv, busy, queued
<1>5. QueueInv'
  <2> SUFFICES ASSUME NEW d \in Cols, NEW k \in 1 .. Len(queue[d])
               PROVE  /\ queue[d][k] = given'[d][Len(executed[d]) + k] % 4
                      /\ d \notin lapped' => contents[d][queue[d][k]] = Len(executed[d]) + k - 1
    BY <1>a DEF QueueInv
  <2>1. /\ queue[d][k] = given[d][Len(executed[d]) + k] % 4
        /\ d \notin lapped => contents[d][queue[d][k]] = Len(executed[d]) + k - 1
    BY DEF ShimInv, QueueInv
  <2>2. given'[d][Len(executed[d]) + k] = given[d][Len(executed[d]) + k]
    <3>1. CASE d = c
      <4>1. Len(executed[c]) + k \in 1 .. pushes[c]
        BY <3>1, ColumnFacts
      <4> QED BY <1>c, <3>1, <4>1
    <3>2. CASE d # c
      BY <1>c, <3>2
    <3> QED BY <3>1, <3>2
  <2>3. d \notin lapped' => d \notin lapped
    BY <1>e
  <2> QED BY <2>1, <2>2, <2>3
<1>6. CurrentInv'
  <2>1. ASSUME c \notin lapped', NEW k \in 1 .. Len(queue[c])
        PROVE  p - given'[c][Len(executed[c]) + k] < 4
    <3> DEFINE first == Len(executed[c]) + 1
               this == Len(executed[c]) + k
    <3>1. ~laps(c)
      BY <1>e, <2>1
    <3>2. /\ Len(queue[c]) \in Nat /\ Len(executed[c]) \in Nat /\ queue[c] \in Seq(BDs)
          /\ this \in 1 .. pushes[c] /\ this \in 1 .. Len(given[c])
      BY ColumnFacts
    <3>3. queue[c] # <<>> /\ first \in 1 .. this /\ first \in 1 .. Len(given[c])
      <4>1. 1 \in 1 .. Len(queue[c])
        BY <3>2
      <4>2. first \in 1 .. Len(given[c])
        BY <4>1, ColumnFacts
      <4> QED BY <3>2, <4>2
    <3>4. /\ given[c][first] \in Nat /\ given[c][this] \in Nat
          /\ given[c][first] <= given[c][this]
      <4> HIDE DEF first, this
      <4> QED BY <3>2, <3>3, GivenGrows, ColumnFacts
    <3>5. ~(p - given[c][first] >= 4)
      BY <3>1, <3>3 DEF laps
    <3>6. given'[c][this] = given[c][this]
      <4> HIDE DEF this
      <4> QED BY <1>c, <3>2
    <3> HIDE DEF first, p
    <3> QED BY <1>0, <3>4, <3>5, <3>6
  <2> QED BY <1>0, <1>a, <1>c, <2>1 DEF CurrentInv
<1>7. AloneInv'
  <2> SUFFICES ASSUME NEW d \in Cols, alone(d)'
               PROVE  /\ picks'[slot(d)] = begun(d)'
                      /\ \A i \in 1 .. Len(given'[d]) : given'[d][i] = i - 1
    BY DEF AloneInv, slot
  <2>1. \A b \in Cols \ {d} : slot(b) = slot(d) => begun(b)' = 0
    BY DEF alone, slot
  <2>2. begun(c)' # 0
    BY <1>0, <1>d
  <2>3. alone(d)
    <3>1. \A b \in Cols \ {d} : slot(b) = slot(d) => b # c
      BY <2>1, <2>2
    <3> QED BY <1>d, <2>1, <3>1 DEF alone
  <2>4. /\ picks[slot(d)] = pushes[d]
        /\ \A i \in 1 .. Len(given[d]) : given[d][i] = i - 1
    BY <1>d, <2>3 DEF ShimInv, AloneInv
  <2>5. CASE d = c
    <3>1. picks'[slot(d)] = begun(d)'
      BY <1>b, <1>d, <2>4, <2>5
    <3>2. ASSUME NEW i \in 1 .. Len(given'[d]) PROVE given'[d][i] = i - 1
      <4>1. i \in 1 .. pushes[c] \/ i = pushes[c] + 1
        BY <1>0, <1>c, <2>5
      <4>2. CASE i \in 1 .. pushes[c]
        BY <1>c, <2>4, <2>5, <4>2
      <4>3. CASE i = pushes[c] + 1
        BY <1>0, <1>c, <2>4, <2>5, <4>3
      <4> QED BY <4>1, <4>2, <4>3
    <3> QED BY <3>1, <3>2
  <2>6. CASE d # c
    <3>1. slot(d) # slot(c)
      BY <2>1, <2>2, <2>6
    <3> QED BY <1>b, <1>c, <1>d, <2>4, <2>6, <3>1
  <2> QED BY <2>5, <2>6
<1>8. ExecutedUnlessLapped'
  <2> SUFFICES ASSUME NEW d \in Cols
               PROVE  IF d \in lapped'
                      THEN \E b \in Cols \ {d} : slot(b) = slot(d) /\ pushes[b] > 0
                      ELSE InOrder(d)
    BY <1>a DEF ExecutedUnlessLapped, InOrder, slot
  <2>1. IF d \in lapped THEN \E b \in Cols \ {d} : slot(b) = slot(d) /\ pushes[b] > 0
        ELSE InOrder(d)
    BY DEF ShimInv, ExecutedUnlessLapped
  <2>2. CASE d \in lapped' <=> d \in lapped
    BY <2>1, <2>2
  <2>3. CASE d = c /\ laps(c)
    <3>1. d \in lapped'
      BY <1>e, <2>3
    <3>2. ~alone(c)
      BY <1>a, <2>3, AloneNotLapped
    <3>3. PICK b \in Cols \ {c} : slot(b) = slot(c) /\ begun(b) # 0
      BY <3>2 DEF alone
    <3>4. pushes[b] > 0
      <4>1. begun(b) = pushes[b] /\ pushes[b] \in Nat
        BY <1>d, ColumnFacts
      <4> QED BY <3>3, <4>1
    <3> QED BY <2>3, <3>1, <3>3, <3>4
  <2> QED BY <1>e, <2>2, <2>3
<1>9. LappedInv'
  <2> SUFFICES ASSUME NEW d \in lapped' PROVE Len(given'[d]) > 1
    BY DEF LappedInv
  <2>1. ASSUME d \in lapped PROVE Len(given[d]) > 1 /\ d \in Cols
    BY <2>1 DEF ShimInv, LappedInv, ShimTypeOK
  <2>2. CASE d # c
    BY <1>c, <1>e, <2>1, <2>2
  <2>3. CASE d = c /\ d \in lapped
    BY <1>0, <1>c, <2>1, <2>3
  <2>4. CASE d = c /\ laps(c)
    <3>1. queue[c] # <<>> /\ queue[c] \in Seq(BDs)
      BY <2>4, ColumnFacts DEF laps
    <3>2. 1 \in 1 .. Len(queue[c])
      BY <3>1
    <3>3. Len(executed[c]) + 1 \in 1 .. pushes[c]
      BY <3>2, ColumnFacts
    <3>4. pushes[c] >= 1
      <4>1. Len(executed[c]) \in Nat
        BY ColumnFacts
      <4> QED BY <1>0, <3>3, <4>1
    <3> QED BY <1>0, <1>c, <2>4, <3>4
  <2> QED BY <1>e, <2>2, <2>3, <2>4
<1> QED BY <1>1, <1>2, <1>3, <1>4, <1>5, <1>6, <1>7, <1>8, <1>9 DEF ShimInv

\* Writing the current descriptor leaves those in the queue alone, unless the
\* column is lapped.
LEMMA WriteStep ==
  ASSUME ShimInv, push_pc # "idle", NEW v \in Int,
         contents' = [contents EXCEPT ![col][bd] = v],
         UNCHANGED <<last_bd, col, bd, queue, pushes, executed, picks, given, lapped>>,
         push_pc' \in {"write", "start"}, push_pc' = "start" => v = pushes[col]
  PROVE  ShimInv'
<1>0. ShimTypeOK /\ QueueInv /\ col \in Cols /\ bd \in BDs
  BY DEF ShimInv, ShimTypeOK
<1>1. ShimTypeOK'
  BY DEF ShimInv, ShimTypeOK, queued, BDs
<1>2. \A c \in Cols : begun(c)' = begun(c)
  BY DEF begun, busy
<1>3. PointerInv' /\ GivenInv' /\ AloneInv'
  <2>1. \A c \in Cols : alone(c)' = alone(c)
    BY <1>2 DEF alone, slot
  <2> QED BY <1>2, <2>1 DEF ShimInv, PointerInv, GivenInv, AloneInv, slot
<1>4. CountInv'
  BY DEF ShimInv, CountInv, busy, queued
<1>5. QueueInv'
  <2> SUFFICES ASSUME NEW c \in Cols, NEW k \in 1 .. Len(queue[c])
               PROVE  /\ queue[c][k] = given[c][Len(executed[c]) + k] % 4
                      /\ c \notin lapped =>
                           contents'[c][queue[c][k]] = Len(executed[c]) + k - 1
    BY DEF QueueInv
  <2>1. /\ queue[c][k] = given[c][Len(executed[c]) + k] % 4
        /\ c \notin lapped => contents[c][queue[c][k]] = Len(executed[c]) + k - 1
    BY <1>0 DEF QueueInv
  <2>2. CASE c # col
    BY <1>0, <2>1, <2>2 DEF ShimTypeOK
  <2>3. CASE c = col /\ c \notin lapped
    <3> DEFINE this == Len(executed[c]) + k
               last == pushes[c] + 1
    <3>1. /\ this \in 1 .. pushes[c] /\ this \in 1 .. Len(given[c])
          /\ Len(given[c]) = last /\ pushes[c] \in Nat
      <4>1. Len(given[c]) = begun(c) /\ begun(c) = last
        BY <2>3, ColumnFacts DEF begun, busy
      <4> QED BY <4>1, ColumnFacts
    <3>2. /\ given[c][this] \in Nat /\ given[c][last] \in Nat
          /\ given[c][this] < given[c][last]
      <4>1. last \in 1 .. Len(given[c]) /\ this \in 1 .. last - 1
        BY <3>1
      <4> HIDE DEF this, last
      <4> QED BY <3>1, <4>1, ColumnFacts DEF ShimInv, GivenInv
    <3>3. bd = given[c][last] % 4 /\ given[c][last] - given[c][this] < 4
      BY <2>3 DEF ShimInv, CurrentInv
    <3>4. queue[c][k] # bd
      <4> HIDE DEF this, last
      <4>1. given[c][this] % 4 # given[c][last] % 4
        BY <3>2, <3>3, OtherDescriptor
      <4> QED BY <2>1, <3>3, <4>1 DEF this
    <3>5. contents'[c][queue[c][k]] = contents[c][queue[c][k]]
      BY <1>0, <2>3, <3>4 DEF ShimTypeOK
    <3> QED BY <2>1, <2>3, <3>5
  <2>4. CASE c \in lapped
    BY <2>1, <2>4
  <2> QED BY <2>2, <2>3, <2>4
<1>6. CurrentInv'
  <2>1. contents'[col][bd] = v
    BY <1>0 DEF ShimTypeOK
  <2> QED BY <2>1 DEF ShimInv, CurrentInv
<1>7. ExecutedUnlessLapped' /\ LappedInv'
  BY DEF ShimInv, LappedInv, ExecutedUnlessLapped, InOrder, slot
<1> QED BY <1>1, <1>3, <1>4, <1>5, <1>6, <1>7 DEF ShimInv

\* The push that ends: the descriptor goes to the queue of its channel.
LEMMA StartStep == ASSUME ShimInv, StartDescriptor PROVE ShimInv'
<1>0. /\ push_pc = "start" /\ push_pc' = "idle"
      /\ queue' = [queue EXCEPT ![col] = Append(queue[col], bd)]
      /\ pushes' = [pushes EXCEPT ![col] = pushes[col] + 1]
      /\ UNCHANGED <<last_bd, col, bd, contents, executed, picks, given, lapped>>
  BY DEF StartDescriptor
<1>1. /\ ShimTypeOK /\ col \in Cols /\ bd \in BDs /\ queue[col] \in Seq(BDs)
      /\ pushes[col] \in Nat /\ executed[col] \in Seq(Int)
      /\ Len(queue[col]) < 4 /\ Len(queue[col]) \in Nat /\ Len(executed[col]) \in Nat
  <2>1. /\ ShimTypeOK /\ col \in Cols /\ bd \in BDs /\ queue[col] \in Seq(BDs)
        /\ pushes[col] \in Nat /\ executed[col] \in Seq(Int) /\ Len(queue[col]) < 4
    BY <1>0 DEF ShimInv, ShimTypeOK, CountInv, busy, queued
  <2> QED BY <2>1
<1>2. /\ queue'[col] = Append(queue[col], bd)
      /\ Len(queue'[col]) = Len(queue[col]) + 1
      /\ pushes'[col] = pushes[col] + 1
      /\ \A c \in Cols \ {col} : queue'[c] = queue[c] /\ pushes'[c] = pushes[c]
  BY <1>0, <1>1 DEF ShimTypeOK
<1>3. ShimTypeOK'
  <2>1. queue' \in [Cols -> Seq(BDs)] /\ pushes' \in [Cols -> Nat]
    BY <1>0, <1>1 DEF ShimTypeOK
  <2>2. ASSUME NEW c \in Cols PROVE Len(queue'[c]) <= 4
    <3>1. CASE c = col
      <4>1. Len(queue'[c]) = Len(queue[col]) + 1
        BY <1>2, <3>1
      <4> QED BY <1>1, <4>1
    <3>2. CASE c # col
      <4>1. queue'[c] = queue[c]
        BY <1>2, <3>2
      <4> QED BY <1>1, <4>1 DEF ShimTypeOK, queued
    <3> QED BY <3>1, <3>2
  <2> QED BY <1>0, <1>1, <2>1, <2>2 DEF ShimTypeOK, queued
<1>4. \A c \in Cols : begun(c)' = begun(c)
  BY <1>0, <1>2 DEF begun, busy
<1>5. PointerInv' /\ GivenInv' /\ AloneInv'
  <2>1. \A c \in Cols : alone(c)' = alone(c)
    BY <1>4 DEF alone, slot
  <2> QED BY <1>0, <1>4, <2>1 DEF ShimInv, PointerInv, GivenInv, AloneInv, slot
<1>6. CountInv'
  <2> SUFFICES ASSUME NEW c \in Cols
               PROVE  pushes'[c] = Len(executed[c]) + Len(queue'[c])
    BY <1>0 DEF CountInv, busy
  <2>1. pushes[c] = Len(executed[c]) + Len(queue[c])
    BY DEF ShimInv, CountInv
  <2>2. CASE c = col
    <3>1. pushes'[c] = pushes[c] + 1 /\ Len(queue'[c]) = Len(queue[c]) + 1
      BY <1>2, <2>2
    <3>2. Len(executed[c]) + Len(queue[c]) + 1 = Len(executed[c]) + (Len(queue[c]) + 1)
      BY <1>1, <2>2, Counting
    <3> QED BY <2>1, <3>1, <3>2
  <2>3. CASE c # col
    BY <1>2, <2>1, <2>3
  <2> QED BY <2>2, <2>3
<1>7. QueueInv'
  <2> SUFFICES ASSUME NEW c \in Cols, NEW k \in 1 .. Len(queue'[c])
               PROVE  /\ queue'[c][k] = given[c][Len(executed[c]) + k] % 4
                      /\ c \notin lapped =>
                           contents[c][queue'[c][k]] = Len(executed[c]) + k - 1
    BY <1>0 DEF QueueInv
  <2>1. CASE c # col
    <3>1. queue'[c] = queue[c]
      BY <1>2, <2>1
    <3> QED BY <3>1 DEF ShimInv, QueueInv
  <2>2. CASE c = col /\ k <= Len(queue[c])
    <3>1. k \in 1 .. Len(queue[c]) /\ queue'[c][k] = queue[c][k]
      BY <1>1, <1>2, <2>2
    <3> QED BY <2>2, <3>1 DEF ShimInv, QueueInv
  <2>3. CASE c = col /\ k = Len(queue[c]) + 1
    <3>1. queue'[c][k] = bd
      BY <1>1, <1>2, <2>3
    <3>2. bd = given[col][pushes[col] + 1] % 4 /\ contents[col][bd] = pushes[col]
      BY <1>0 DEF ShimInv, CurrentInv
    <3>3. pushes[col] = Len(executed[col]) + Len(queue[col])
      BY <1>1 DEF ShimInv, CountInv
    <3>4. Len(executed[c]) + k = pushes[col] + 1 /\ Len(executed[c]) + k - 1 = pushes[col]
      <4>1. PICK m, n : m = Len(executed[col]) /\ n = Len(queue[col])
        OBVIOUS
      <4>2. m \in Nat /\ n \in Nat /\ pushes[col] = m + n /\ k = n + 1
        BY <1>1, <2>3, <3>3, <4>1
      <4>3. m + k = m + n + 1 /\ m + k - 1 = m + n
        BY <4>2
      <4> QED BY <2>3, <4>1, <4>2, <4>3
    <3> QED BY <2>3, <3>1, <3>2, <3>4
  <2>4. CASE c = col
    <3>1. Len(queue[c]) \in Nat /\ Len(queue'[c]) = Len(queue[c]) + 1
      BY <1>1, <1>2, <2>4
    <3>2. k \in Int /\ k >= 1 /\ k <= Len(queue'[c])
      BY <3>1
    <3>3. k <= Len(queue[c]) \/ k = Len(queue[c]) + 1
      BY <3>1, <3>2
    <3> QED BY <2>2, <2>3, <2>4, <3>3
  <2> QED BY <2>1, <2>4
<1>8. CurrentInv' /\ LappedInv'
  BY <1>0 DEF ShimInv, CurrentInv, LappedInv
<1>9. ExecutedUnlessLapped'
  <2>1. \A c \in Cols : pushes[c] > 0 => pushes'[c] > 0
    BY <1>1, <1>2
  <2> QED BY <1>0, <2>1 DEF ShimInv, ExecutedUnlessLapped, InOrder, slot
<1> QED BY <1>3, <1>5, <1>6, <1>7, <1>8, <1>9 DEF ShimInv

\* The DMA moves the row of the oldest descriptor of a channel.
LEMMA ExecuteStep == ASSUME ShimInv, NEW c \in Cols, Execute(c) PROVE ShimInv'
<1> DEFINE q == queue[c]
           e == executed[c]
           v == contents[c][Head(q)]
<1>0. /\ q # <<>>
      /\ executed' = [executed EXCEPT ![c] = Append(e, v)]
      /\ queue' = [queue EXCEPT ![c] = Tail(q)]
      /\ UNCHANGED <<last_bd, push_pc, col, bd, contents, pushes, picks, given, lapped>>
  BY DEF Execute
<1>1. /\ ShimTypeOK /\ q \in Seq(BDs) /\ e \in Seq(Int) /\ Len(q) \in Nat /\ Len(e) \in Nat
      /\ Len(q) >= 1 /\ pushes[c] \in Nat
  <2>1. ShimTypeOK /\ q \in Seq(BDs) /\ e \in Seq(Int) /\ pushes[c] \in Nat
    BY DEF ShimInv, ShimTypeOK
  <2> HIDE DEF q, e
  <2>2. Len(q) \in Nat /\ Len(e) \in Nat
    BY <2>1
  <2>3. Len(q) >= 1
    BY <1>0, <2>1
  <2> QED BY <2>1, <2>2, <2>3
<1>2. Head(q) = q[1] /\ q[1] \in BDs /\ v \in Int
  <2>1. Head(q) = q[1] /\ q[1] \in BDs
    <3> HIDE DEF q
    <3> QED BY <1>1
  <2> QED BY <1>1, <2>1 DEF ShimTypeOK
<1>3. /\ executed'[c] = Append(e, v) /\ queue'[c] = Tail(q)
      /\ \A d \in Cols \ {c} : queue'[d] = queue[d] /\ executed'[d] = executed[d]
  BY <1>0, <1>1 DEF ShimTypeOK
<1>4. /\ Len(executed'[c]) = Len(e) + 1 /\ Len(queue'[c]) = Len(q) - 1
      /\ Append(e, v) \in Seq(Int) /\ Tail(q) \in Seq(BDs)
  <2> HIDE DEF e, q, v
  <2>1. /\ Len(Append(e, v)) = Len(e) + 1 /\ Len(Tail(q)) = Len(q) - 1
        /\ Append(e, v) \in Seq(Int) /\ Tail(q) \in Seq(BDs)
    BY <1>0, <1>1, <1>2
  <2> QED BY <1>3, <2>1
<1>5. c \notin lapped => v = Len(e)
  <2>1. 1 \in 1 .. Len(q) /\ Len(e) + 1 - 1 = Len(e)
    BY <1>1
  <2>2. c \notin lapped => contents[c][q[1]] = Len(e) + 1 - 1
    BY <2>1 DEF ShimInv, QueueInv
  <2> QED BY <1>2, <2>1, <2>2
<1>6. ShimTypeOK'
  <2>1. queue' \in [Cols -> Seq(BDs)] /\ executed' \in [Cols -> Seq(Int)]
    BY <1>0, <1>1, <1>4 DEF ShimTypeOK
  <2>2. ASSUME NEW d \in Cols PROVE Len(queue'[d]) <= 4
    <3>0. Len(queue[d]) <= 4
      BY <1>1 DEF ShimTypeOK, queued
    <3>1. CASE d = c
      BY <1>1, <1>4, <3>0, <3>1
    <3>2. CASE d # c
      BY <1>3, <3>0, <3>2
    <3> QED BY <3>1, <3>2
  <2> QED BY <1>0, <1>1, <2>1, <2>2 DEF ShimTypeOK, queued
<1>7. PointerInv' /\ GivenInv' /\ AloneInv' /\ LappedInv'
  BY <1>0 DEF ShimInv, LappedInv, PointerInv, GivenInv, AloneInv, alone, begun, busy, slot
<1>8. CountInv'
  <2> SUFFICES ASSUME NEW d \in Cols
               PROVE  /\ pushes[d] = Len(executed'[d]) + Len(queue'[d])
                      /\ busy(d) => Len(queue'[d]) < 4
    BY <1>0 DEF CountInv, busy, queued
  <2>1. /\ pushes[d] = Len(executed[d]) + Len(queue[d])
        /\ busy(d) => Len(queue[d]) < 4
    BY DEF ShimInv, CountInv, queued
  <2>2. CASE d = c
    <3>1. pushes[c] = Len(executed'[c]) + Len(queue'[c])
      <4>1. pushes[c] = Len(e) + Len(q)
        BY <2>1, <2>2
      <4>2. Len(e) + Len(q) = (Len(e) + 1) + (Len(q) - 1)
        BY <1>1, Counting
      <4> QED BY <1>4, <4>1, <4>2
    <3>2. busy(d) => Len(queue'[c]) < 4
      BY <1>1, <1>4, <2>1, <2>2
    <3> QED BY <2>2, <3>1, <3>2
  <2>3. CASE d # c
    BY <1>3, <2>1, <2>3
  <2> QED BY <2>2, <2>3
<1>9. ASSUME NEW k \in 1 .. Len(queue'[c])
      PROVE  /\ k + 1 \in 1 .. Len(q) /\ queue'[c][k] = q[k + 1]
             /\ Len(executed'[c]) + k = Len(e) + (k + 1)
             /\ Len(executed'[c]) + k - 1 = Len(e) + (k + 1) - 1
  <2>1. k \in Nat /\ k + 1 \in 1 .. Len(q) /\ k \in 1 .. Len(q) - 1
    <3>1. k \in 1 .. Len(q) - 1
      BY <1>4
    <3> HIDE DEF q
    <3> QED BY <1>1, <3>1
  <2>2. queue'[c][k] = q[k + 1]
    <3> HIDE DEF q
    <3>1. Len(Tail(q)) = Len(q) - 1 /\ Tail(q)[k] = q[k + 1]
      BY <1>0, <1>1, <2>1
    <3> QED BY <1>3, <3>1
  <2>3. /\ Len(executed'[c]) + k = Len(e) + (k + 1)
        /\ Len(executed'[c]) + k - 1 = Len(e) + (k + 1) - 1
    <3>1. Len(executed'[c]) = Len(e) + 1
      BY <1>4
    <3> HIDE DEF e
    <3> QED BY <1>1, <2>1, <3>1
  <2> QED BY <2>1, <2>2, <2>3
<1>10. QueueInv'
  <2>0. UNCHANGED <<contents, given, lapped>>
    BY <1>0
  <2> SUFFICES ASSUME NEW d \in Cols, NEW k \in 1 .. Len(queue'[d])
               PROVE  /\ queue'[d][k] = given[d][Len(executed'[d]) + k] % 4
                      /\ d \notin lapped =>
                           contents[d][queue'[d][k]] = Len(executed'[d]) + k - 1
    BY <2>0 DEF QueueInv
  <2>1. CASE d # c
    <3>1. queue'[d] = queue[d] /\ executed'[d] = executed[d]
      BY <1>3, <2>1
    <3> QED BY <3>1 DEF ShimInv, QueueInv
  <2>2. CASE d = c
    <3>1. /\ k + 1 \in 1 .. Len(q) /\ queue'[c][k] = q[k + 1]
          /\ Len(executed'[c]) + k = Len(e) + (k + 1)
          /\ Len(executed'[c]) + k - 1 = Len(e) + (k + 1) - 1
      BY <1>9, <2>2
    <3>2. /\ q[k + 1] = given[c][Len(e) + (k + 1)] % 4
          /\ c \notin lapped => contents[c][q[k + 1]] = Len(e) + (k + 1) - 1
      BY <3>1 DEF ShimInv, QueueInv
    <3> QED BY <2>2, <3>1, <3>2
  <2> QED BY <2>1, <2>2
<1>11. CurrentInv'
  <2> SUFFICES ASSUME push_pc # "idle", col \notin lapped, NEW k \in 1 .. Len(queue'[col])
               PROVE  given[col][pushes[col] + 1] - given[col][Len(executed'[col]) + k] < 4
    BY <1>0 DEF ShimInv, CurrentInv
  <2>1. \A n \in 1 .. Len(queue[col]) :
          given[col][pushes[col] + 1] - given[col][Len(executed[col]) + n] < 4
    BY DEF ShimInv, CurrentInv
  <2>2. CASE col = c
    <3>1. k + 1 \in 1 .. Len(q) /\ Len(executed'[c]) + k = Len(e) + (k + 1)
      BY <1>9, <2>2
    <3> QED BY <2>1, <2>2, <3>1
  <2>3. CASE col # c
    <3>1. queue'[col] = queue[col] /\ executed'[col] = executed[col]
      BY <1>1, <1>3, <2>3 DEF ShimTypeOK
    <3> QED BY <2>1, <3>1
  <2> QED BY <2>2, <2>3
<1>12. ExecutedUnlessLapped'
  <2> SUFFICES ASSUME NEW d \in Cols
               PROVE  IF d \in lapped
                      THEN \E b \in Cols \ {d} : slot(b) = slot(d) /\ pushes[b] > 0
                      ELSE InOrder(d)'
    BY <1>0 DEF ExecutedUnlessLapped, slot
  <2>1. IF d \in lapped THEN \E b \in Cols \ {d} : slot(b) = slot(d) /\ pushes[b] > 0
        ELSE InOrder(d)
    BY DEF ShimInv, ExecutedUnlessLapped
  <2>2. ASSUME d \notin lapped, NEW k \in 1 .. Len(executed'[d])
        PROVE  executed'[d][k] = k - 1
    <3>0. InOrder(d)
      BY <2>1, <2>2
    <3>1. CASE d # c
      BY <1>3, <3>0, <3>1 DEF InOrder
    <3>2. CASE d = c /\ k <= Len(e)
      <4>1. /\ executed'[d] = Append(e, v) /\ e \in Seq(Int) /\ v \in Int /\ Len(e) \in Nat
            /\ k \in 1 .. Len(e)
        BY <1>1, <1>2, <1>3, <3>2
      <4>2. executed'[d][k] = e[k]
        <5> HIDE DEF e, v
        <5> QED BY <4>1
      <4> QED BY <3>0, <3>2, <4>1, <4>2 DEF InOrder
    <3>3. CASE d = c /\ k = Len(e) + 1
      BY <1>1, <1>2, <1>3, <1>5, <2>2, <3>3
    <3> QED BY <1>1, <1>4, <3>1, <3>2, <3>3
  <2> QED BY <2>1, <2>2 DEF InOrder
<1> QED BY <1>6, <1>7, <1>8, <1>10, <1>11, <1>12 DEF ShimInv

-----------------------------------------------------------------------------
\* The invariant is inductive, however the columns share their pointers.
LEMMA ShimNextInv == ShimInv /\ [ShimNext]_shimVars => ShimInv'
<1> SUFFICES ASSUME ShimInv, [ShimNext]_shimVars PROVE ShimInv'
  OBVIOUS
<1>1. CASE \E c \in Cols : mayPush(c) /\ PickDescriptor(c)
  BY <1>1, PickStep
<1>2. CASE Invalidate
  <2>1. Invalid \in Int
    BY DEF Invalid
  <2> QED BY <1>2, <2>1, WriteStep DEF Invalidate
<1>3. CASE WriteDescriptor
  <2>1. pushes[col] \in Int
    BY DEF ShimInv, ShimTypeOK
  <2> QED BY <1>3, <2>1, WriteStep DEF WriteDescriptor
<1>4. CASE StartDescriptor
  BY <1>4, StartStep
<1>5. CASE \E c \in Cols : Execute(c)
  BY <1>5, ExecuteStep
<1>6. CASE UNCHANGED shimVars
  BY <1>6 DEF shimVars, ShimInv, ShimTypeOK, PointerInv, GivenInv, CountInv, QueueInv,
          CurrentInv, AloneInv, LappedInv, alone, ExecutedUnlessLapped, InOrder, begun, busy, queued, slot
<1> QED BY <1>1, <1>2, <1>3, <1>4, <1>5, <1>6 DEF ShimNext

LEMMA ShimInductive == ShimSpec => []ShimInv
BY ShimInitInv, ShimNextInv, PTL DEF ShimSpec

\* Whatever columns the controller drives and however their pushes alternate:
\* only another column of the same parity can have a column lapped, and one
\* that is not has each descriptor executed once, in order and with the
\* contents it was pushed with.
THEOREM DescriptorsSafe == ShimSpec => []ExecutedUnlessLapped
<1>1. ShimInv => ExecutedUnlessLapped
  BY DEF ShimInv
<1> QED BY <1>1, ShimInductive, PTL

\* And the pointers, descriptors and start queues keep their types.
THEOREM ShimTypes == ShimSpec => []ShimTypeOK
<1>1. ShimInv => ShimTypeOK
  BY DEF ShimInv
<1> QED BY <1>1, ShimInductive, PTL

-----------------------------------------------------------------------------
(* Folds over sequences of up to four numbers. *)

\* The function a fold computes, on the subsets of the first n positions.
isProduct(g, s, n) ==
  g = [t \in SUBSET (1 .. n) |-> IF t = {} THEN 1 ELSE g[t \ {Max(t)}] * s[Max(t)]]
isSum(g, s, n) ==
  g = [t \in SUBSET (1 .. n) |-> IF t = {} THEN 0 ELSE g[t \ {Max(t)}] + s[Max(t)]]

\* The last of the first n positions, and what is left without it.
LEMMA LastPosition ==
  ASSUME NEW n \in Nat, NEW t \in SUBSET (1 .. n + 1), n + 1 \in t
  PROVE  Max(t) = n + 1 /\ t \ {n + 1} \in SUBSET (1 .. n)
<1>1. \A x \in t : x \in Int /\ x <= n + 1 /\ 1 <= x
  OBVIOUS
<1>2. Max(t) = n + 1
  <2>1. \E x \in t : \A y \in t : x >= y
    BY <1>1
  <2>2. PICK m : m = Max(t)
    OBVIOUS
  <2>3. m \in t /\ \A y \in t : m >= y
    BY <2>1, <2>2 DEF Max
  <2>4. m \in Int /\ m <= n + 1 /\ m >= n + 1
    BY <1>1, <2>3
  <2> QED BY <2>2, <2>4
<1>3. \A x \in t \ {n + 1} : x \in 1 .. n
  BY <1>1
<1> QED BY <1>2, <1>3

\* A set of positions without the last one.
LEMMA EarlierPosition ==
  ASSUME NEW n \in Nat, NEW t \in SUBSET (1 .. n + 1), n + 1 \notin t
  PROVE  t \in SUBSET (1 .. n)
OBVIOUS

\* One position more, given the product up to there.
LEMMA ProductGrows ==
  ASSUME NEW s, NEW n \in Nat, NEW g, isProduct(g, s, n)
  PROVE  \E h : isProduct(h, s, n + 1)
<1> DEFINE h == [t \in SUBSET (1 .. n + 1) |->
                   IF n + 1 \in t THEN g[t \ {n + 1}] * s[n + 1] ELSE g[t]]
<1>1. ASSUME NEW t \in SUBSET (1 .. n + 1)
      PROVE  h[t] = IF t = {} THEN 1 ELSE h[t \ {Max(t)}] * s[Max(t)]
  <2>1. CASE n + 1 \in t
    <3>1. Max(t) = n + 1 /\ t \ {n + 1} \in SUBSET (1 .. n)
      BY <2>1, LastPosition
    <3>2. h[t \ {n + 1}] = g[t \ {n + 1}]
      BY <3>1
    <3>3. h[t] = g[t \ {n + 1}] * s[n + 1]
      BY <2>1
    <3> HIDE DEF h
    <3> QED BY <2>1, <3>1, <3>2, <3>3
  <2>2. CASE n + 1 \notin t
    <3>1. t \in SUBSET (1 .. n)
      BY <2>2, EarlierPosition
    <3>2. h[t] = g[t]
      BY <2>2
    <3>3. g[t] = IF t = {} THEN 1 ELSE g[t \ {Max(t)}] * s[Max(t)]
      BY <3>1 DEF isProduct
    <3>4. t \ {Max(t)} \in SUBSET (1 .. n + 1) /\ n + 1 \notin t \ {Max(t)}
      BY <2>2
    <3>5. h[t \ {Max(t)}] = g[t \ {Max(t)}]
      BY <3>4
    <3> HIDE DEF h
    <3> QED BY <3>2, <3>3, <3>5
  <2> QED BY <2>1, <2>2
<1>2. isProduct(h, s, n + 1)
  <2>1. h = [t \in SUBSET (1 .. n + 1) |-> h[t]]
    OBVIOUS
  <2> HIDE DEF h
  <2> QED BY <1>1, <2>1 DEF isProduct
<1> QED BY <1>2

\* The function that the fold of a product computes.
LEMMA ProductExists ==
  ASSUME NEW s, NEW n \in 0 .. 4
  PROVE  \E g : isProduct(g, s, n)
<1>0. \E g : isProduct(g, s, 0)
  <2> DEFINE g == [t \in SUBSET (1 .. 0) |-> 1]
  <2>1. \A t \in SUBSET (1 .. 0) : t = {}
    OBVIOUS
  <2>2. isProduct(g, s, 0)
    BY <2>1 DEF isProduct
  <2> QED BY <2>2
<1>1. \E g : isProduct(g, s, 1)
  BY <1>0, ProductGrows
<1>2. \E g : isProduct(g, s, 2)
  BY <1>1, ProductGrows
<1>3. \E g : isProduct(g, s, 3)
  BY <1>2, ProductGrows
<1>4. \E g : isProduct(g, s, 4)
  BY <1>3, ProductGrows
<1> QED BY <1>0, <1>1, <1>2, <1>3, <1>4

\* The product of a sequence is the value of that function.
LEMMA ProductDef ==
  ASSUME NEW s, NEW n \in 0 .. 4, DOMAIN s = 1 .. n
  PROVE  \E g : isProduct(g, s, n) /\ Product(s) = g[1 .. n]
<1> DEFINE iter == CHOOSE g : isProduct(g, s, n)
<1>1. isProduct(iter, s, n)
  BY ProductExists
<1>2. Product(s) = iter[1 .. n]
  BY DEF Product, FoldLeft, MapThenFoldSet, isProduct
<1> QED BY <1>1, <1>2

\* One factor taken off the end.
LEMMA ProductStep ==
  ASSUME NEW s, NEW n \in Nat, NEW g, isProduct(g, s, n), NEW k \in 1 .. n
  PROVE  g[1 .. k] = g[1 .. k - 1] * s[k] /\ g[1 .. 0] = 1
<1>1. k - 1 \in Nat /\ (k - 1) + 1 = k
  OBVIOUS
<1>2. 1 .. k \in SUBSET (1 .. (k - 1) + 1) /\ k \in 1 .. k
  OBVIOUS
<1>3. Max(1 .. k) = k
  BY <1>1, <1>2, LastPosition
<1>4. (1 .. k) \ {k} = 1 .. k - 1
  OBVIOUS
<1>5. 1 .. k \in SUBSET (1 .. n) /\ 1 .. k # {}
  OBVIOUS
<1>6. 1 .. 0 = {} /\ {} \in SUBSET (1 .. n)
  OBVIOUS
<1> QED BY <1>3, <1>4, <1>5, <1>6 DEF isProduct

\* The product of a short sequence of integers.
LEMMA ProductValue ==
  ASSUME NEW s, NEW n \in 0 .. 4, DOMAIN s = 1 .. n, \A k \in 1 .. n : s[k] \in Int
  PROVE  /\ n = 0 => Product(s) = 1
         /\ n = 1 => Product(s) = s[1]
         /\ n = 2 => Product(s) = s[1] * s[2]
         /\ n = 3 => Product(s) = s[1] * s[2] * s[3]
         /\ n = 4 => Product(s) = s[1] * s[2] * s[3] * s[4]
<1>1. PICK g : isProduct(g, s, n) /\ Product(s) = g[1 .. n]
  BY ProductDef
<1> DEFINE p == [k \in 0 .. n |-> g[1 .. k]]
<1>2. \A k \in 1 .. n : p[k] = p[k - 1] * s[k]
  <2> SUFFICES ASSUME NEW k \in 1 .. n PROVE p[k] = p[k - 1] * s[k]
    OBVIOUS
  <2>1. g[1 .. k] = g[1 .. k - 1] * s[k]
    BY <1>1, ProductStep
  <2>2. k - 1 \in 0 .. n /\ k \in 0 .. n
    OBVIOUS
  <2> QED BY <2>1, <2>2
<1>3. p[0] = 1 /\ Product(s) = p[n]
  <2>1. 1 .. 0 = {} /\ {} \in SUBSET (1 .. n) /\ 0 \in 0 .. n /\ n \in 0 .. n
    OBVIOUS
  <2>2. g[{}] = 1
    BY <1>1, <2>1 DEF isProduct
  <2> QED BY <1>1, <2>1, <2>2
<1> HIDE DEF p
<1>4. n >= 1 => p[1] = s[1]
  <2>1. n >= 1 => p[1] = p[0] * s[1] /\ s[1] \in Int
    BY <1>2
  <2> QED BY <1>3, <2>1
<1>5. n >= 2 => p[2] = s[1] * s[2]
  <2>1. n >= 2 => p[2] = p[1] * s[2]
    BY <1>2
  <2> QED BY <1>4, <2>1
<1>6. n >= 3 => p[3] = s[1] * s[2] * s[3]
  <2>1. n >= 3 => p[3] = p[2] * s[3]
    BY <1>2
  <2> QED BY <1>5, <2>1
<1>7. n >= 4 => p[4] = s[1] * s[2] * s[3] * s[4]
  <2>1. n >= 4 => p[4] = p[3] * s[4]
    BY <1>2
  <2> QED BY <1>6, <2>1
<1> QED BY <1>3, <1>4, <1>5, <1>6, <1>7

\* One position more, given the sum up to there.
LEMMA SumGrows ==
  ASSUME NEW s, NEW n \in Nat, NEW g, isSum(g, s, n)
  PROVE  \E h : isSum(h, s, n + 1)
<1> DEFINE h == [t \in SUBSET (1 .. n + 1) |->
                   IF n + 1 \in t THEN g[t \ {n + 1}] + s[n + 1] ELSE g[t]]
<1>1. ASSUME NEW t \in SUBSET (1 .. n + 1)
      PROVE  h[t] = IF t = {} THEN 0 ELSE h[t \ {Max(t)}] + s[Max(t)]
  <2>1. CASE n + 1 \in t
    <3>1. Max(t) = n + 1 /\ t \ {n + 1} \in SUBSET (1 .. n)
      BY <2>1, LastPosition
    <3>2. h[t \ {n + 1}] = g[t \ {n + 1}]
      BY <3>1
    <3>3. h[t] = g[t \ {n + 1}] + s[n + 1]
      BY <2>1
    <3> HIDE DEF h
    <3> QED BY <2>1, <3>1, <3>2, <3>3
  <2>2. CASE n + 1 \notin t
    <3>1. t \in SUBSET (1 .. n)
      BY <2>2, EarlierPosition
    <3>2. h[t] = g[t]
      BY <2>2
    <3>3. g[t] = IF t = {} THEN 0 ELSE g[t \ {Max(t)}] + s[Max(t)]
      BY <3>1 DEF isSum
    <3>4. t \ {Max(t)} \in SUBSET (1 .. n + 1) /\ n + 1 \notin t \ {Max(t)}
      BY <2>2
    <3>5. h[t \ {Max(t)}] = g[t \ {Max(t)}]
      BY <3>4
    <3> HIDE DEF h
    <3> QED BY <3>2, <3>3, <3>5
  <2> QED BY <2>1, <2>2
<1>2. isSum(h, s, n + 1)
  <2>1. h = [t \in SUBSET (1 .. n + 1) |-> h[t]]
    OBVIOUS
  <2> HIDE DEF h
  <2> QED BY <1>1, <2>1 DEF isSum
<1> QED BY <1>2

\* The function that the fold of a sum computes.
LEMMA SumExists ==
  ASSUME NEW s, NEW n \in 0 .. 4
  PROVE  \E g : isSum(g, s, n)
<1>0. \E g : isSum(g, s, 0)
  <2> DEFINE g == [t \in SUBSET (1 .. 0) |-> 0]
  <2>1. \A t \in SUBSET (1 .. 0) : t = {}
    OBVIOUS
  <2>2. isSum(g, s, 0)
    BY <2>1 DEF isSum
  <2> QED BY <2>2
<1>1. \E g : isSum(g, s, 1)
  BY <1>0, SumGrows
<1>2. \E g : isSum(g, s, 2)
  BY <1>1, SumGrows
<1>3. \E g : isSum(g, s, 3)
  BY <1>2, SumGrows
<1>4. \E g : isSum(g, s, 4)
  BY <1>3, SumGrows
<1> QED BY <1>0, <1>1, <1>2, <1>3, <1>4

\* The sum of a sequence is the value of that function.
LEMMA SumDef ==
  ASSUME NEW s, NEW n \in 0 .. 4, DOMAIN s = 1 .. n
  PROVE  \E g : isSum(g, s, n) /\ SumOf(s) = g[1 .. n]
<1> DEFINE iter == CHOOSE g : isSum(g, s, n)
<1>1. isSum(iter, s, n)
  BY SumExists
<1>2. SumOf(s) = iter[1 .. n]
  BY DEF SumOf, FoldLeft, MapThenFoldSet, isSum
<1> QED BY <1>1, <1>2

\* One summand taken off the end.
LEMMA SumStep ==
  ASSUME NEW s, NEW n \in Nat, NEW g, isSum(g, s, n), NEW k \in 1 .. n
  PROVE  g[1 .. k] = g[1 .. k - 1] + s[k] /\ g[1 .. 0] = 0
<1>1. k - 1 \in Nat /\ (k - 1) + 1 = k
  OBVIOUS
<1>2. 1 .. k \in SUBSET (1 .. (k - 1) + 1) /\ k \in 1 .. k
  OBVIOUS
<1>3. Max(1 .. k) = k
  BY <1>1, <1>2, LastPosition
<1>4. (1 .. k) \ {k} = 1 .. k - 1
  OBVIOUS
<1>5. 1 .. k \in SUBSET (1 .. n) /\ 1 .. k # {}
  OBVIOUS
<1>6. 1 .. 0 = {} /\ {} \in SUBSET (1 .. n)
  OBVIOUS
<1> QED BY <1>3, <1>4, <1>5, <1>6 DEF isSum

\* The sum of a short sequence of integers.
LEMMA SumValue ==
  ASSUME NEW s, NEW n \in 0 .. 4, DOMAIN s = 1 .. n, \A k \in 1 .. n : s[k] \in Int
  PROVE  /\ n = 0 => SumOf(s) = 0
         /\ n = 1 => SumOf(s) = s[1]
         /\ n = 2 => SumOf(s) = s[1] + s[2]
         /\ n = 3 => SumOf(s) = s[1] + s[2] + s[3]
         /\ n = 4 => SumOf(s) = s[1] + s[2] + s[3] + s[4]
<1>1. PICK g : isSum(g, s, n) /\ SumOf(s) = g[1 .. n]
  BY SumDef
<1> DEFINE p == [k \in 0 .. n |-> g[1 .. k]]
<1>2. \A k \in 1 .. n : p[k] = p[k - 1] + s[k]
  <2> SUFFICES ASSUME NEW k \in 1 .. n PROVE p[k] = p[k - 1] + s[k]
    OBVIOUS
  <2>1. g[1 .. k] = g[1 .. k - 1] + s[k]
    BY <1>1, SumStep
  <2>2. k - 1 \in 0 .. n /\ k \in 0 .. n
    OBVIOUS
  <2> QED BY <2>1, <2>2
<1>3. p[0] = 0 /\ SumOf(s) = p[n]
  <2>1. 1 .. 0 = {} /\ {} \in SUBSET (1 .. n) /\ 0 \in 0 .. n /\ n \in 0 .. n
    OBVIOUS
  <2>2. g[{}] = 0
    BY <1>1, <2>1 DEF isSum
  <2> QED BY <1>1, <2>1, <2>2
<1> HIDE DEF p
<1>4. n >= 1 => p[1] = s[1]
  <2>1. n >= 1 => p[1] = p[0] + s[1] /\ s[1] \in Int
    BY <1>2
  <2> QED BY <1>3, <2>1
<1>5. n >= 2 => p[2] = s[1] + s[2]
  <2>1. n >= 2 => p[2] = p[1] + s[2]
    BY <1>2
  <2> QED BY <1>4, <2>1
<1>6. n >= 3 => p[3] = s[1] + s[2] + s[3]
  <2>1. n >= 3 => p[3] = p[2] + s[3]
    BY <1>2
  <2> QED BY <1>5, <2>1
<1>7. n >= 4 => p[4] = s[1] + s[2] + s[3] + s[4]
  <2>1. n >= 4 => p[4] = p[3] + s[4]
    BY <1>2
  <2> QED BY <1>6, <2>1
<1> QED BY <1>3, <1>4, <1>5, <1>6, <1>7

-----------------------------------------------------------------------------
(* Sequences of n numbers as the last of four. *)

pad(s, n, j, d) == IF j - (4 - n) \in DOMAIN s THEN s[j - (4 - n)] ELSE d

\* Missing dimensions of size 1 do not change a product.
LEMMA PaddedProduct ==
  ASSUME NEW n \in 0 .. 4, NEW s, DOMAIN s = 1 .. n, \A k \in 1 .. n : s[k] \in Nat
  PROVE  Product(s) = pad(s, n, 1, 1) * pad(s, n, 2, 1) * pad(s, n, 3, 1) * pad(s, n, 4, 1)
<1> USE DEF pad
<1>0. CASE n = 0
  BY <1>0, ProductValue
<1>1. CASE n = 1
  BY <1>1, ProductValue
<1>2. CASE n = 2
  BY <1>2, ProductValue
<1>3. CASE n = 3
  BY <1>3, ProductValue
<1>4. CASE n = 4
  BY <1>4, ProductValue
<1> QED BY <1>0, <1>1, <1>2, <1>3, <1>4

\* Missing terms of 0 do not change a sum.
LEMMA PaddedSum ==
  ASSUME NEW n \in 0 .. 4, NEW s, DOMAIN s = 1 .. n, \A k \in 1 .. n : s[k] \in Int
  PROVE  SumOf(s) = pad(s, n, 1, 0) + pad(s, n, 2, 0) + pad(s, n, 3, 0) + pad(s, n, 4, 0)
<1> USE DEF pad
<1>0. CASE n = 0
  BY <1>0, SumValue
<1>1. CASE n = 1
  BY <1>1, SumValue
<1>2. CASE n = 2
  BY <1>2, SumValue
<1>3. CASE n = 3
  BY <1>3, SumValue
<1>4. CASE n = 4
  BY <1>4, SumValue
<1> QED BY <1>0, <1>1, <1>2, <1>3, <1>4

\* The elements below the j-th of four dimensions.
weight(s, n, j) ==
  CASE j = 4 -> 1
    [] j = 3 -> pad(s, n, 4, 1)
    [] j = 2 -> pad(s, n, 3, 1) * pad(s, n, 4, 1)
    [] j = 1 -> pad(s, n, 2, 1) * pad(s, n, 3, 1) * pad(s, n, 4, 1)

\* The values of the end of a sequence.
LEMMA SubSeqValues ==
  ASSUME NEW s \in Seq(Nat), NEW k \in Nat, NEW n \in Nat, n = Len(s), k <= n
  PROVE  /\ DOMAIN SubSeq(s, k + 1, n) = 1 .. n - k
         /\ \A i \in 1 .. n - k :
              SubSeq(s, k + 1, n)[i] = s[k + i] /\ SubSeq(s, k + 1, n)[i] \in Nat
<1> DEFINE m == k + 1
<1>0. m \in Int /\ n \in Int /\ n - m + 1 = n - k /\ \A i \in 1 .. n - k : m + i - 1 = k + i
  OBVIOUS
<1>1. \A i \in m .. n : s[i] \in Nat
  OBVIOUS
<1>2. /\ SubSeq(s, m, n) \in Seq(Nat)
      /\ Len(SubSeq(s, m, n)) = IF m <= n THEN n - m + 1 ELSE 0
      /\ \A i \in 1 .. n - m + 1 : SubSeq(s, m, n)[i] = s[m + i - 1]
  <2> HIDE DEF m
  <2> QED BY <1>0, <1>1, SubSeqProperties
<1>3. PICK t : t = SubSeq(s, m, n)
  OBVIOUS
<1>4. t \in Seq(Nat) /\ Len(t) = n - k
  BY <1>0, <1>2, <1>3
<1>5. DOMAIN t = 1 .. n - k /\ \A i \in 1 .. n - k : t[i] \in Nat
  BY <1>4
<1>6. \A i \in 1 .. n - k : t[i] = s[k + i]
  BY <1>0, <1>2, <1>3
<1>7. SubSeq(s, k + 1, n) = t
  BY <1>3
<1> HIDE <1>3
<1> QED BY <1>5, <1>6, <1>7

\* The weight of a dimension is the product of the sizes inside it.
LEMMA BelowWeight ==
  ASSUME NEW n \in 1 .. 4, NEW s \in Seq(Nat), Len(s) = n,
         NEW j \in 1 .. 4, j - (4 - n) \in 1 .. n
  PROVE  Below(s, j - (4 - n)) = weight(s, n, j)
<1> DEFINE k == j - (4 - n)
<1>1. k \in Nat /\ k <= n /\ n - k = 4 - j /\ n - k \in 0 .. 3 /\ n = Len(s) /\ n \in Nat
  OBVIOUS
<1>2. PICK t : t = SubSeq(s, k + 1, n)
  OBVIOUS
<1>3. DOMAIN t = 1 .. n - k /\ \A i \in 1 .. n - k : t[i] = s[k + i] /\ t[i] \in Nat
  <2> HIDE DEF k
  <2> QED BY <1>1, <1>2, SubSeqValues
<1>4. Below(s, k) = Product(t)
  BY <1>1, <1>2 DEF Below
<1>5. /\ n - k = 0 => Product(t) = 1
      /\ n - k = 1 => Product(t) = t[1]
      /\ n - k = 2 => Product(t) = t[1] * t[2]
      /\ n - k = 3 => Product(t) = t[1] * t[2] * t[3]
  <2>1. n - k \in 0 .. 4 /\ \A i \in 1 .. n - k : t[i] \in Int
    BY <1>1, <1>3
  <2> DEFINE l == n - k
  <2>2. l \in 0 .. 4 /\ DOMAIN t = 1 .. l /\ \A i \in 1 .. l : t[i] \in Int
    BY <1>3, <2>1
  <2> HIDE DEF l
  <2>3. /\ l = 0 => Product(t) = 1
        /\ l = 1 => Product(t) = t[1]
        /\ l = 2 => Product(t) = t[1] * t[2]
        /\ l = 3 => Product(t) = t[1] * t[2] * t[3]
    BY ONLY <2>2, ProductValue
  <2> QED BY <2>3 DEF l
<1>6. DOMAIN s = 1 .. n /\ k = j + n - 4
  OBVIOUS
<1>7. \A i \in 1 .. 4 : i > j => pad(s, n, i, 1) = t[i - j]
  <2> SUFFICES ASSUME NEW i \in 1 .. 4, i > j PROVE pad(s, n, i, 1) = t[i - j]
    OBVIOUS
  <2>1. i - (4 - n) = k + (i - j) /\ i - j \in 1 .. n - k /\ k + (i - j) \in 1 .. n
    BY <1>1, <1>6
  <2>2. t[i - j] = s[k + (i - j)]
    BY <1>3, <2>1
  <2> QED BY <1>6, <2>1, <2>2 DEF pad
<1>8. j = 1 \/ j = 2 \/ j = 3 \/ j = 4
  OBVIOUS
<1> HIDE DEF k
<1>9. CASE j = 4
  BY <1>1, <1>4, <1>5, <1>9 DEF weight
<1>10. CASE j = 3
  BY <1>1, <1>4, <1>5, <1>7, <1>10 DEF weight
<1>11. CASE j = 2
  BY <1>1, <1>4, <1>5, <1>7, <1>11 DEF weight
<1>12. CASE j = 1
  BY <1>1, <1>4, <1>5, <1>7, <1>12 DEF weight
<1> QED BY ONLY <1>8, <1>9, <1>10, <1>11, <1>12

-----------------------------------------------------------------------------
(* The elements of a view. *)

viewed(side) == isSide(side) /\ side.view # <<>>
rankOf(side) == Len(side.shape)

\* The four dimensions of a view: those it has not are of one element.
offsetOf(side, j) == pad([k \in DOMAIN side.view |-> side.view[k].offset], rankOf(side), j, 0)
sizeOf(side, j) == pad([k \in DOMAIN side.view |-> side.view[k].size], rankOf(side), j, 1)
stepOf(side, j) == pad([k \in DOMAIN side.view |-> side.view[k].step], rankOf(side), j, 1)
extentOf(side, j) == pad(side.shape, rankOf(side), j, 1)
weightOf(side, j) == weight(side.shape, rankOf(side), j)

\* The index of position m in dimension j, and where in the buffer that is.
digitOf(side, m, j) ==
  CASE j = 4 -> m % sizeOf(side, 4)
    [] j = 3 -> (m \div sizeOf(side, 4)) % sizeOf(side, 3)
    [] j = 2 -> ((m \div sizeOf(side, 4)) \div sizeOf(side, 3)) % sizeOf(side, 2)
    [] j = 1 -> ((m \div sizeOf(side, 4)) \div sizeOf(side, 3)) \div sizeOf(side, 2)
coordOf(side, m, j) == offsetOf(side, j) + digitOf(side, m, j) * stepOf(side, j)

\* The dimensions of a side that was given a view.
LEMMA ViewDims ==
  ASSUME NEW side, viewed(side)
  PROVE  /\ rankOf(side) \in 1 .. 4 /\ rankOf(side) = Len(side.view)
         /\ side.shape \in Seq(Nat) /\ DOMAIN side.shape = 1 .. rankOf(side)
         /\ side.view \in Seq(Dim) /\ DOMAIN side.view = 1 .. rankOf(side)
         /\ \A k \in 1 .. rankOf(side) :
              /\ side.shape[k] \in Nat
              /\ side.view[k].offset \in Nat /\ side.view[k].size \in Nat
              /\ side.view[k].step \in Nat \ {0}
              /\ within(side.view[k], side.shape[k])
<1>1. /\ side.shape \in Seq(Nat) /\ Len(side.shape) \in 1 .. 4
      /\ side.view \in Seq(Dim) /\ Len(side.view) = Len(side.shape)
      /\ \A k \in DOMAIN side.view : within(side.view[k], side.shape[k])
  BY DEF viewed, isSide
<1>2. PICK n : n = Len(side.shape)
  OBVIOUS
<1>3. /\ DOMAIN side.shape = 1 .. n /\ \A k \in 1 .. n : side.shape[k] \in Nat
      /\ DOMAIN side.view = 1 .. n /\ \A k \in 1 .. n : side.view[k] \in Dim
  BY <1>1, <1>2
<1>4. \A d \in Dim : d.offset \in Nat /\ d.size \in Nat /\ d.step \in Nat \ {0}
  BY DEF Dim
<1> QED BY <1>1, <1>2, <1>3, <1>4 DEF rankOf

\* The same of its dimensions padded to four.
LEMMA ViewFacts ==
  ASSUME NEW side, viewed(side), NEW j \in 1 .. 4
  PROVE  /\ offsetOf(side, j) \in Nat /\ sizeOf(side, j) \in Nat
         /\ stepOf(side, j) \in Nat \ {0} /\ extentOf(side, j) \in Nat
         /\ \A i \in 0 .. sizeOf(side, j) - 1 :
              offsetOf(side, j) + i * stepOf(side, j) < extentOf(side, j)
<1> DEFINE n == rankOf(side)
           k == j - (4 - n)
<1>1. /\ n \in 1 .. 4 /\ DOMAIN side.view = 1 .. n /\ DOMAIN side.shape = 1 .. n
      /\ \A l \in 1 .. n :
              /\ side.shape[l] \in Nat
              /\ side.view[l].offset \in Nat /\ side.view[l].size \in Nat
              /\ side.view[l].step \in Nat \ {0}
              /\ within(side.view[l], side.shape[l])
  BY ViewDims
<1>2. CASE k \in 1 .. n
  <2>1. /\ offsetOf(side, j) = side.view[k].offset /\ sizeOf(side, j) = side.view[k].size
        /\ stepOf(side, j) = side.view[k].step /\ extentOf(side, j) = side.shape[k]
    BY <1>1, <1>2 DEF offsetOf, sizeOf, stepOf, extentOf, pad
  <2>2. within(side.view[k], side.shape[k])
    BY <1>1, <1>2
  <2>3. \A i \in 0 .. side.view[k].size - 1 :
          side.view[k].offset + i * side.view[k].step < side.shape[k]
    BY <2>2 DEF within
  <2> HIDE DEF k
  <2> QED BY <1>1, <1>2, <2>1, <2>3
<1>3. CASE k \notin 1 .. n
  <2>1. /\ offsetOf(side, j) = 0 /\ sizeOf(side, j) = 1
        /\ stepOf(side, j) = 1 /\ extentOf(side, j) = 1
    BY <1>1, <1>3 DEF offsetOf, sizeOf, stepOf, extentOf, pad
  <2> QED BY <2>1
<1> QED BY <1>2, <1>3

\* The elements of a view, counted over four dimensions.
LEMMA ViewSize ==
  ASSUME NEW side, viewed(side)
  PROVE  /\ viewSize(side) = sizeOf(side, 1) * sizeOf(side, 2) * sizeOf(side, 3) * sizeOf(side, 4)
         /\ viewSize(side) \in Nat
<1> DEFINE s == [k \in DOMAIN side.view |-> side.view[k].size]
           n == rankOf(side)
<1>1. n \in 1 .. 4 /\ DOMAIN s = 1 .. n /\ \A k \in 1 .. n : s[k] \in Nat
  BY ViewDims
<1>2. n \in 0 .. 4
  BY <1>1
<1>3. Product(s) = pad(s, n, 1, 1) * pad(s, n, 2, 1) * pad(s, n, 3, 1) * pad(s, n, 4, 1)
  <2> HIDE DEF s, n
  <2> QED BY <1>1, <1>2, PaddedProduct
<1>4. viewSize(side) = sizeOf(side, 1) * sizeOf(side, 2) * sizeOf(side, 3) * sizeOf(side, 4)
  BY <1>3, Zenon DEF viewSize, sizeOf
<1>5. /\ sizeOf(side, 1) \in Nat /\ sizeOf(side, 2) \in Nat
      /\ sizeOf(side, 3) \in Nat /\ sizeOf(side, 4) \in Nat
  BY ViewFacts
<1>6. /\ sizeOf(side, 1) * sizeOf(side, 2) \in Nat
      /\ sizeOf(side, 1) * sizeOf(side, 2) * sizeOf(side, 3) \in Nat
      /\ sizeOf(side, 1) * sizeOf(side, 2) * sizeOf(side, 3) * sizeOf(side, 4) \in Nat
  BY <1>5, ProductNat
<1> QED BY <1>4, <1>6

\* The elements of a buffer, counted over four dimensions.
LEMMA ShapeSize ==
  ASSUME NEW side, viewed(side)
  PROVE  Product(side.shape) =
           extentOf(side, 1) * extentOf(side, 2) * extentOf(side, 3) * extentOf(side, 4)
<1> DEFINE s == side.shape
           n == rankOf(side)
<1>1. n \in 0 .. 4 /\ DOMAIN s = 1 .. n /\ \A k \in 1 .. n : s[k] \in Nat
  BY ViewDims
<1>3. Product(s) = pad(s, n, 1, 1) * pad(s, n, 2, 1) * pad(s, n, 3, 1) * pad(s, n, 4, 1)
  <2> HIDE DEF s, n
  <2> QED BY <1>1, PaddedProduct
<1> QED BY <1>3, Zenon DEF extentOf

\* What a dimension contributes to the position of the elements below it.
LEMMA WeightValues ==
  ASSUME NEW side
  PROVE  /\ weightOf(side, 4) = 1
         /\ weightOf(side, 3) = extentOf(side, 4)
         /\ weightOf(side, 2) = extentOf(side, 3) * extentOf(side, 4)
         /\ weightOf(side, 1) = extentOf(side, 2) * extentOf(side, 3) * extentOf(side, 4)
BY DEF weightOf, weight, extentOf

\* The weights of a shape are numbers.
LEMMA WeightNat ==
  ASSUME NEW side, viewed(side), NEW j \in 1 .. 4
  PROVE  weightOf(side, j) \in Nat
<1>1. extentOf(side, 2) \in Nat /\ extentOf(side, 3) \in Nat /\ extentOf(side, 4) \in Nat
  BY ViewFacts
<1>2. extentOf(side, 2) * extentOf(side, 3) \in Nat /\ extentOf(side, 3) * extentOf(side, 4) \in Nat
      /\ extentOf(side, 2) * extentOf(side, 3) * extentOf(side, 4) \in Nat
  BY <1>1, ProductNat
<1>3. j = 1 \/ j = 2 \/ j = 3 \/ j = 4
  OBVIOUS
<1> QED BY <1>1, <1>2, <1>3, WeightValues

\* The weights of the dimensions inside a view.
LEMMA SizeWeights ==
  ASSUME NEW side
  PROVE  LET s == [k \in DOMAIN side.view |-> side.view[k].size] IN
         /\ weight(s, rankOf(side), 4) = 1
         /\ weight(s, rankOf(side), 3) = sizeOf(side, 4)
         /\ weight(s, rankOf(side), 2) = sizeOf(side, 3) * sizeOf(side, 4)
         /\ weight(s, rankOf(side), 1) = sizeOf(side, 2) * sizeOf(side, 3) * sizeOf(side, 4)
BY DEF weight, sizeOf

\* The indices of a position of the view are those of its dimensions.
LEMMA ViewDigits ==
  ASSUME NEW side, viewed(side), NEW m \in Nat, m < viewSize(side)
  PROVE  /\ \A j \in 1 .. 4 : /\ digitOf(side, m, j) \in 0 .. sizeOf(side, j) - 1
                              /\ sizeOf(side, j) # 0
         /\ m = ((digitOf(side, m, 1) * sizeOf(side, 2) + digitOf(side, m, 2))
                   * sizeOf(side, 3) + digitOf(side, m, 3))
                  * sizeOf(side, 4) + digitOf(side, m, 4)
<1> DEFINE z1 == sizeOf(side, 1)
           z2 == sizeOf(side, 2)
           z3 == sizeOf(side, 3)
           z4 == sizeOf(side, 4)
           d1 == digitOf(side, m, 1)
           d2 == digitOf(side, m, 2)
           d3 == digitOf(side, m, 3)
           d4 == digitOf(side, m, 4)
<1>1. z1 \in Nat /\ z2 \in Nat /\ z3 \in Nat /\ z4 \in Nat /\ m < z1 * z2 * z3 * z4
  BY ViewFacts, ViewSize
<1>2. /\ d4 = m % z4 /\ d3 = (m \div z4) % z3
      /\ d2 = ((m \div z4) \div z3) % z2 /\ d1 = ((m \div z4) \div z3) \div z2
  BY DEF digitOf
<1> HIDE DEF z1, z2, z3, z4, d1, d2, d3, d4
<1>3. /\ m % z4 \in 0 .. z4 - 1
      /\ (m \div z4) % z3 \in 0 .. z3 - 1
      /\ ((m \div z4) \div z3) % z2 \in 0 .. z2 - 1
      /\ ((m \div z4) \div z3) \div z2 \in 0 .. z1 - 1
      /\ m = ((((((m \div z4) \div z3) \div z2) * z2 + (((m \div z4) \div z3) % z2)) * z3)
                  + ((m \div z4) % z3)) * z4 + (m % z4)
      /\ z1 # 0 /\ z2 # 0 /\ z3 # 0 /\ z4 # 0
  BY ONLY m \in Nat, <1>1, Digits
<1>4. /\ d4 \in 0 .. z4 - 1 /\ d3 \in 0 .. z3 - 1 /\ d2 \in 0 .. z2 - 1 /\ d1 \in 0 .. z1 - 1
      /\ z1 # 0 /\ z2 # 0 /\ z3 # 0 /\ z4 # 0
  BY ONLY <1>2, <1>3
<1>5. m = ((d1 * z2 + d2) * z3 + d3) * z4 + d4
  BY ONLY <1>2, <1>3
<1>6. \A j \in 1 .. 4 : j = 1 \/ j = 2 \/ j = 3 \/ j = 4
  OBVIOUS
<1> QED BY <1>4, <1>5, <1>6 DEF z1, z2, z3, z4, d1, d2, d3, d4

\* The index that viewElement takes of a dimension is the digit.
LEMMA DigitByWeight ==
  ASSUME NEW side, viewed(side), NEW m \in Nat, m < viewSize(side), NEW j \in 1 .. 4,
         NEW s, s = [k \in DOMAIN side.view |-> side.view[k].size]
  PROVE  (m \div weight(s, rankOf(side), j)) % sizeOf(side, j) = digitOf(side, m, j)
<1> DEFINE size1 == sizeOf(side, 1)
           size2 == sizeOf(side, 2)
           size3 == sizeOf(side, 3)
           size4 == sizeOf(side, 4)
<1>1. /\ weight(s, rankOf(side), 4) = 1
      /\ weight(s, rankOf(side), 3) = size4
      /\ weight(s, rankOf(side), 2) = size3 * size4
      /\ weight(s, rankOf(side), 1) = size2 * size3 * size4
  BY SizeWeights
<1>2. size1 \in Nat \ {0} /\ size2 \in Nat \ {0} /\ size3 \in Nat \ {0} /\ size4 \in Nat \ {0}
  BY ViewFacts, ViewDigits
<1>3. /\ digitOf(side, m, 4) = m % size4
      /\ digitOf(side, m, 3) = (m \div size4) % size3
      /\ digitOf(side, m, 2) = ((m \div size4) \div size3) % size2
      /\ digitOf(side, m, 1) = ((m \div size4) \div size3) \div size2
  BY DEF digitOf
<1>4. digitOf(side, m, 1) \in 0 .. size1 - 1
  BY ViewDigits
<1> HIDE DEF size1, size2, size3, size4
<1>5. sameDigits(size2, size3, size4, m)
  BY <1>2, DigitsByWeight
<1>6. CASE j = 4
  BY ONLY <1>1, <1>3, <1>5, <1>6 DEF size4, sameDigits
<1>7. CASE j = 3
  BY ONLY <1>1, <1>3, <1>5, <1>7 DEF size3, sameDigits
<1>8. CASE j = 2
  BY ONLY <1>1, <1>3, <1>5, <1>8 DEF size2, sameDigits
<1>9. CASE j = 1
  <2>1. digitOf(side, m, 1) % size1 = digitOf(side, m, 1)
    BY <1>2, <1>4, SlotOfSlot
  <2> QED BY ONLY <1>1, <1>3, <1>5, <1>9, <2>1 DEF size1, sameDigits
<1>10. j = 1 \/ j = 2 \/ j = 3 \/ j = 4
  OBVIOUS
<1> QED BY <1>6, <1>7, <1>8, <1>9, <1>10

\* A dimension's term in viewElement.
LEMMA ViewTerm ==
  ASSUME NEW side, viewed(side), NEW m \in Nat, m < viewSize(side), NEW j \in 1 .. 4,
         NEW s, s = [k \in DOMAIN side.view |-> side.view[k].size],
         NEW q, q = [k \in DOMAIN side.view |->
                       (side.view[k].offset
                          + ((m \div Below(s, k)) % s[k]) * side.view[k].step)
                         * Below(side.shape, k)]
  PROVE  pad(q, rankOf(side), j, 0) = coordOf(side, m, j) * weightOf(side, j)
<1> DEFINE n == rankOf(side)
           k == j - (4 - n)
<1>1. /\ n \in 1 .. 4 /\ DOMAIN side.view = 1 .. n /\ side.shape \in Seq(Nat)
      /\ Len(side.shape) = n
  BY ViewDims DEF rankOf
<1>2. CASE k \in 1 .. n
  <2>1. s \in Seq(Nat) /\ Len(s) = n /\ DOMAIN s = 1 .. n
    <3>1. \A l \in 1 .. n : side.view[l].size \in Nat
      BY ViewDims
    <3>2. n \in Nat /\ s = [l \in 1 .. n |-> side.view[l].size]
      BY <1>1
    <3> HIDE DEF n
    <3>3. s \in [1 .. n -> Nat]
      BY <3>1, <3>2
    <3> QED BY ONLY <3>2, <3>3
  <2>2. Below(s, k) = weight(s, n, j) /\ Below(side.shape, k) = weightOf(side, j)
    <3> HIDE DEF n
    <3>1. Below(s, j - (4 - n)) = weight(s, n, j)
      BY <1>1, <1>2, <2>1, BelowWeight
    <3>2. Below(side.shape, j - (4 - n)) = weight(side.shape, n, j)
      BY <1>1, <1>2, BelowWeight
    <3> QED BY <3>1, <3>2, Zenon DEF n, weightOf
  <2>3. /\ s[k] = sizeOf(side, j) /\ side.view[k].offset = offsetOf(side, j)
        /\ side.view[k].step = stepOf(side, j)
    BY <1>1, <1>2 DEF sizeOf, offsetOf, stepOf, pad
  <2>4. (m \div Below(s, k)) % s[k] = digitOf(side, m, j)
    <3>1. (m \div weight(s, n, j)) % sizeOf(side, j) = digitOf(side, m, j)
      BY DigitByWeight
    <3> QED BY <2>2, <2>3, <3>1
  <2>5. q[k] = coordOf(side, m, j) * weightOf(side, j)
    <3>1. q[k] = (side.view[k].offset + ((m \div Below(s, k)) % s[k]) * side.view[k].step)
                   * Below(side.shape, k)
      BY <1>1, <1>2
    <3> QED BY <2>2, <2>3, <2>4, <3>1 DEF coordOf
  <2> QED BY <1>1, <1>2, <2>5 DEF pad
<1>3. CASE k \notin 1 .. n
  <2>1. /\ pad(q, n, j, 0) = 0 /\ offsetOf(side, j) = 0 /\ sizeOf(side, j) = 1
        /\ stepOf(side, j) = 1
    BY <1>1, <1>3 DEF offsetOf, sizeOf, stepOf, pad
  <2>2. digitOf(side, m, j) \in 0 .. sizeOf(side, j) - 1
    BY ViewDigits
  <2>3. digitOf(side, m, j) = 0
    BY <2>1, <2>2
  <2>4. coordOf(side, m, j) = 0
    BY <2>1, <2>3 DEF coordOf
  <2>5. weightOf(side, j) \in Int
    <3>1. extentOf(side, 2) \in Nat /\ extentOf(side, 3) \in Nat /\ extentOf(side, 4) \in Nat
      BY ViewFacts
    <3>2. extentOf(side, 2) * extentOf(side, 3) \in Nat /\ extentOf(side, 3) * extentOf(side, 4) \in Nat
          /\ extentOf(side, 2) * extentOf(side, 3) * extentOf(side, 4) \in Nat
      BY <3>1, ProductNat
    <3>3. j = 1 \/ j = 2 \/ j = 3 \/ j = 4
      OBVIOUS
    <3> QED BY <3>1, <3>2, <3>3, WeightValues
  <2> QED BY <2>1, <2>4, <2>5
<1> QED BY <1>2, <1>3

\* An element of a view lies inside the buffer, in every dimension.
LEMMA CoordBound ==
  ASSUME NEW side, viewed(side), NEW m \in Nat, m < viewSize(side), NEW j \in 1 .. 4
  PROVE  coordOf(side, m, j) \in 0 .. extentOf(side, j) - 1
<1>1. digitOf(side, m, j) \in 0 .. sizeOf(side, j) - 1
  BY ViewDigits
<1>2. /\ offsetOf(side, j) \in Nat /\ stepOf(side, j) \in Nat /\ extentOf(side, j) \in Nat
      /\ sizeOf(side, j) \in Nat
      /\ offsetOf(side, j) + digitOf(side, m, j) * stepOf(side, j) < extentOf(side, j)
  BY <1>1, ViewFacts
<1>3. digitOf(side, m, j) * stepOf(side, j) \in Nat
  BY <1>1, <1>2, ProductNat
<1> QED BY <1>2, <1>3 DEF coordOf

\* viewElement as a position in the buffer.
LEMMA ViewElementValue ==
  ASSUME NEW side, viewed(side), NEW m \in Nat, m < viewSize(side)
  PROVE  viewElement(side, m + 1) =
           1 + (coordOf(side, m, 1) * weightOf(side, 1) + coordOf(side, m, 2) * weightOf(side, 2)
                  + coordOf(side, m, 3) * weightOf(side, 3) + coordOf(side, m, 4) * weightOf(side, 4))
<1> DEFINE n == rankOf(side)
<1>1. PICK s : s = [k \in DOMAIN side.view |-> side.view[k].size]
  OBVIOUS
<1>2. PICK q : q = [k \in DOMAIN side.view |->
                       (side.view[k].offset
                          + ((m \div Below(s, k)) % s[k]) * side.view[k].step)
                         * Below(side.shape, k)]
  OBVIOUS
<1>3. viewElement(side, m + 1) = 1 + SumOf(q)
  <2>1. (m + 1) - 1 = m
    OBVIOUS
  <2> QED BY <1>1, <1>2, <2>1 DEF viewElement
<1>4. \A j \in 1 .. 4 : pad(q, n, j, 0) = coordOf(side, m, j) * weightOf(side, j)
  BY <1>1, <1>2, ViewTerm
<1>5. n \in 1 .. 4 /\ n \in 0 .. 4 /\ DOMAIN q = 1 .. n
  BY <1>2, ViewDims
<1>6. \A j \in 1 .. 4 : coordOf(side, m, j) * weightOf(side, j) \in Int
  <2>1. /\ extentOf(side, 2) \in Nat /\ extentOf(side, 3) \in Nat /\ extentOf(side, 4) \in Nat
    BY ViewFacts
  <2>2. extentOf(side, 2) * extentOf(side, 3) \in Nat /\ extentOf(side, 3) * extentOf(side, 4) \in Nat
        /\ extentOf(side, 2) * extentOf(side, 3) * extentOf(side, 4) \in Nat
    BY <2>1, ProductNat
  <2>3. \A j \in 1 .. 4 : j = 1 \/ j = 2 \/ j = 3 \/ j = 4
    OBVIOUS
  <2>4. \A j \in 1 .. 4 : weightOf(side, j) \in Nat
    BY <2>1, <2>2, <2>3, WeightValues
  <2>5. \A j \in 1 .. 4 : coordOf(side, m, j) \in Int
    BY CoordBound, ViewFacts
  <2>6. \A a, b \in Int : a * b \in Int
    OBVIOUS
  <2> QED BY <2>4, <2>5, <2>6
<1>7. \A k \in 1 .. n : q[k] \in Int
  <2> SUFFICES ASSUME NEW k \in 1 .. n PROVE q[k] \in Int
    OBVIOUS
  <2>1. k + (4 - n) \in 1 .. 4 /\ (k + (4 - n)) - (4 - n) = k
    BY <1>5
  <2>2. pad(q, n, k + (4 - n), 0) = q[k]
    BY <1>5, <2>1 DEF pad
  <2> QED BY <1>4, <1>6, <2>1, <2>2
<1>8. SumOf(q) = pad(q, n, 1, 0) + pad(q, n, 2, 0) + pad(q, n, 3, 0) + pad(q, n, 4, 0)
  <2> HIDE DEF n
  <2> QED BY <1>5, <1>7, PaddedSum
<1> QED BY <1>3, <1>4, <1>8

\* The same as nested products.
LEMMA ViewElementNested ==
  ASSUME NEW side, viewed(side), NEW m \in Nat, m < viewSize(side)
  PROVE  viewElement(side, m + 1) =
           1 + (((coordOf(side, m, 1) * extentOf(side, 2) + coordOf(side, m, 2))
                   * extentOf(side, 3) + coordOf(side, m, 3))
                  * extentOf(side, 4) + coordOf(side, m, 4))
<1> DEFINE c1 == coordOf(side, m, 1)
           c2 == coordOf(side, m, 2)
           c3 == coordOf(side, m, 3)
           c4 == coordOf(side, m, 4)
           h2 == extentOf(side, 2)
           h3 == extentOf(side, 3)
           h4 == extentOf(side, 4)
<1>1. viewElement(side, m + 1) = 1 + (c1 * (h2 * h3 * h4) + c2 * (h3 * h4) + c3 * h4 + c4 * 1)
  BY ViewElementValue, WeightValues
<1>2. /\ c1 \in Int /\ c2 \in Int /\ c3 \in Int /\ c4 \in Int
      /\ h2 \in Int /\ h3 \in Int /\ h4 \in Int
  BY CoordBound, ViewFacts
<1> HIDE DEF c1, c2, c3, c4, h2, h3, h4
<1>3. c1 * (h2 * h3 * h4) + c2 * (h3 * h4) + c3 * h4 + c4 * 1
        = ((c1 * h2 + c2) * h3 + c3) * h4 + c4
  BY <1>2, Horner
<1>4. viewElement(side, m + 1) = 1 + (((c1 * h2 + c2) * h3 + c3) * h4 + c4)
  BY ONLY <1>1, <1>3
<1> QED BY <1>4 DEF c1, c2, c3, c4, h2, h3, h4

\* Each element of a view is one of its buffer,
LEMMA ViewInside ==
  ASSUME NEW side, viewed(side), NEW n \in 1 .. viewSize(side)
  PROVE  viewElement(side, n) \in 1 .. Product(side.shape)
<1> DEFINE m == n - 1
<1>0. viewSize(side) \in Nat
  BY ViewSize
<1>1. m \in Nat /\ m < viewSize(side) /\ n = m + 1
  BY <1>0
<1> HIDE DEF m
<1> DEFINE c1 == coordOf(side, m, 1)
           c2 == coordOf(side, m, 2)
           c3 == coordOf(side, m, 3)
           c4 == coordOf(side, m, 4)
           h1 == extentOf(side, 1)
           h2 == extentOf(side, 2)
           h3 == extentOf(side, 3)
           h4 == extentOf(side, 4)
<1>2. viewElement(side, n) = 1 + (((c1 * h2 + c2) * h3 + c3) * h4 + c4)
  BY <1>1, ViewElementNested
<1>3. /\ h1 \in Nat /\ h2 \in Nat /\ h3 \in Nat /\ h4 \in Nat
      /\ c1 \in 0 .. h1 - 1 /\ c2 \in 0 .. h2 - 1 /\ c3 \in 0 .. h3 - 1 /\ c4 \in 0 .. h4 - 1
  BY <1>1, CoordBound, ViewFacts
<1>4. Product(side.shape) = h1 * h2 * h3 * h4
  BY ShapeSize
<1> HIDE DEF c1, c2, c3, c4, h1, h2, h3, h4
<1>5. ((c1 * h2 + c2) * h3 + c3) * h4 + c4 \in 0 .. h1 * h2 * h3 * h4 - 1
  BY ONLY <1>3, RegionBound
<1>6. h1 * h2 * h3 * h4 \in Nat
  <2>1. h1 * h2 \in Nat /\ h1 * h2 * h3 \in Nat
    BY <1>3, ProductNat
  <2> QED BY <1>3, <2>1, ProductNat
<1> QED BY <1>2, <1>4, <1>5, <1>6

\* and no two of them are the same.
LEMMA ViewInjective ==
  ASSUME NEW side, viewed(side),
         NEW n \in 1 .. viewSize(side), NEW i \in 1 .. viewSize(side),
         viewElement(side, n) = viewElement(side, i)
  PROVE  n = i
<1> DEFINE m == n - 1
           k == i - 1
<1>0. viewSize(side) \in Nat
  BY ViewSize
<1>1. m \in Nat /\ m < viewSize(side) /\ n = m + 1 /\ k \in Nat /\ k < viewSize(side) /\ i = k + 1
  BY <1>0
<1> HIDE DEF m, k
<1>2. \A j \in 1 .. 4 :
        /\ coordOf(side, m, j) \in 0 .. extentOf(side, j) - 1
        /\ coordOf(side, k, j) \in 0 .. extentOf(side, j) - 1
        /\ extentOf(side, j) \in Nat
  BY <1>1, CoordBound, ViewFacts
<1>3. /\ coordOf(side, m, 1) = coordOf(side, k, 1) /\ coordOf(side, m, 2) = coordOf(side, k, 2)
      /\ coordOf(side, m, 3) = coordOf(side, k, 3) /\ coordOf(side, m, 4) = coordOf(side, k, 4)
  <2> DEFINE c1 == coordOf(side, m, 1)
             c2 == coordOf(side, m, 2)
             c3 == coordOf(side, m, 3)
             c4 == coordOf(side, m, 4)
             d1 == coordOf(side, k, 1)
             d2 == coordOf(side, k, 2)
             d3 == coordOf(side, k, 3)
             d4 == coordOf(side, k, 4)
             h2 == extentOf(side, 2)
             h3 == extentOf(side, 3)
             h4 == extentOf(side, 4)
  <2>1. 1 + (((c1 * h2 + c2) * h3 + c3) * h4 + c4) = 1 + (((d1 * h2 + d2) * h3 + d3) * h4 + d4)
    BY <1>1, ViewElementNested
  <2>2. /\ c1 \in Nat /\ c2 \in 0 .. h2 - 1 /\ c3 \in 0 .. h3 - 1 /\ c4 \in 0 .. h4 - 1
        /\ d1 \in Nat /\ d2 \in 0 .. h2 - 1 /\ d3 \in 0 .. h3 - 1 /\ d4 \in 0 .. h4 - 1
        /\ h2 \in Nat /\ h3 \in Nat /\ h4 \in Nat
    BY <1>2
  <2> HIDE DEF c1, c2, c3, c4, d1, d2, d3, d4, h2, h3, h4
  <2> DEFINE p == ((c1 * h2 + c2) * h3 + c3) * h4 + c4
             q == ((d1 * h2 + d2) * h3 + d3) * h4 + d4
  <2>3. p \in Int /\ q \in Int
    <3>1. \A a, b \in Int : a * b \in Int /\ a + b \in Int
      OBVIOUS
    <3>2. /\ c1 \in Int /\ c2 \in Int /\ c3 \in Int /\ c4 \in Int
          /\ d1 \in Int /\ d2 \in Int /\ d3 \in Int /\ d4 \in Int
          /\ h2 \in Int /\ h3 \in Int /\ h4 \in Int
      BY <2>2
    <3> QED BY ONLY <3>1, <3>2
  <2>4. p = q
    <3>1. 1 + p = 1 + q
      BY <2>1
    <3> HIDE DEF p, q
    <3> QED BY <2>3, <3>1
  <2> DEFINE a == c1 * h2 + c2
             b == d1 * h2 + d2
             e == a * h3 + c3
             f == b * h3 + d3
  <2>5. a \in Nat /\ b \in Nat
    <3>1. c1 * h2 \in Nat /\ d1 * h2 \in Nat
      BY <2>2, ProductNat
    <3> QED BY <2>2, <3>1
  <2>6. e \in Nat /\ f \in Nat
    <3> HIDE DEF a, b
    <3>1. a * h3 \in Nat /\ b * h3 \in Nat
      BY <2>2, <2>5, ProductNat
    <3> QED BY <2>2, <3>1
  <2>7. e = f /\ c4 = d4
    <3>1. e * h4 + c4 = f * h4 + d4
      BY ONLY <2>4, Zenon DEF p, q
    <3> HIDE DEF e, f
    <3> QED BY <2>2, <2>6, <3>1, SplitPosition
  <2>8. a = b /\ c3 = d3
    <3>1. a * h3 + c3 = b * h3 + d3
      BY ONLY <2>7, Zenon DEF e, f
    <3> HIDE DEF a, b
    <3> QED BY <2>2, <2>5, <3>1, SplitPosition
  <2>9. c1 = d1 /\ c2 = d2
    <3>1. c1 * h2 + c2 = d1 * h2 + d2
      BY ONLY <2>8, Zenon DEF a, b
    <3> QED BY <2>2, <3>1, SplitPosition
  <2> QED BY <2>7, <2>8, <2>9 DEF c1, c2, c3, c4, d1, d2, d3, d4
<1>4. \A j \in 1 .. 4 : coordOf(side, m, j) = coordOf(side, k, j)
  <2>1. \A j \in 1 .. 4 : j = 1 \/ j = 2 \/ j = 3 \/ j = 4
    OBVIOUS
  <2> QED BY <1>3, <2>1
<1>5. ASSUME NEW j \in 1 .. 4 PROVE digitOf(side, m, j) = digitOf(side, k, j)
  <2> DEFINE a == digitOf(side, m, j)
             b == digitOf(side, k, j)
             o == offsetOf(side, j)
             t == stepOf(side, j)
  <2>1. o \in Nat /\ t \in Nat \ {0} /\ sizeOf(side, j) \in Nat
    BY ViewFacts
  <2>2. a \in Nat /\ b \in Nat
    BY <1>1, <2>1, ViewDigits
  <2>3. o + a * t = o + b * t
    BY <1>4 DEF coordOf
  <2> HIDE DEF a, b, o, t
  <2>4. a * t \in Nat /\ b * t \in Nat
    BY <2>1, <2>2, ProductNat
  <2>5. a * t + 0 = b * t + 0
    BY <2>1, <2>3, <2>4
  <2>6. 0 \in 0 .. t - 1 /\ t \in Nat
    BY <2>1
  <2>7. a = b
    BY <2>2, <2>5, <2>6, SplitPosition
  <2> QED BY <2>7 DEF a, b
<1>6. m = k
  <2>1. /\ m = ((digitOf(side, m, 1) * sizeOf(side, 2) + digitOf(side, m, 2))
                   * sizeOf(side, 3) + digitOf(side, m, 3))
                  * sizeOf(side, 4) + digitOf(side, m, 4)
        /\ k = ((digitOf(side, k, 1) * sizeOf(side, 2) + digitOf(side, k, 2))
                   * sizeOf(side, 3) + digitOf(side, k, 3))
                  * sizeOf(side, 4) + digitOf(side, k, 4)
    BY <1>1, ViewDigits
  <2>2. /\ digitOf(side, m, 1) = digitOf(side, k, 1) /\ digitOf(side, m, 2) = digitOf(side, k, 2)
        /\ digitOf(side, m, 3) = digitOf(side, k, 3) /\ digitOf(side, m, 4) = digitOf(side, k, 4)
    BY <1>5
  <2> QED BY ONLY <2>1, <2>2
<1> QED BY <1>1, <1>6

-----------------------------------------------------------------------------
(* The operands of the call, and the loops of the runtime over them. *)

\* Positions of n dimensions among four.
LEMMA Shift ==
  ASSUME NEW n \in 1 .. 4
  PROVE  /\ \A k \in 1 .. n : k + (4 - n) \in 1 .. 4 /\ (k + (4 - n)) - (4 - n) = k
         /\ \A j \in 1 .. 4 : 4 - n + (j - (4 - n)) = j
         /\ 4 - (4 - n) = n /\ n \in 1 .. n
         /\ n \in Nat /\ n # 0 /\ n - 1 \in Nat
         /\ (IF 1 <= n - 1 THEN (n - 1) - 1 + 1 ELSE 0) = n - 1
OBVIOUS

\* The length of a sequence given by its domain.
LEMMA LengthOfRange ==
  ASSUME NEW s, NEW n \in Nat, DOMAIN s = 1 .. n, s = [i \in 1 .. n |-> s[i]]
  PROVE  Len(s) = n /\ (n # 0 => s # <<>>)
<1> DEFINE S == {s[i] : i \in 1 .. n}
<1>1. s \in [1 .. n -> S]
  OBVIOUS
<1> HIDE DEF S
<1>2. s \in Seq(S) /\ Len(s) = n
  BY <1>1
<1>3. n # 0 => 1 \in DOMAIN s
  OBVIOUS
<1> QED BY <1>2, <1>3

\* The arguments are those of a copy of this side.
calledFor(side) ==
  /\ viewed(side)
  /\ outer(copy) = side /\ copy.rank = rankOf(side)
  /\ args = call(operands(side))

\* The dimensions the runtime loops over are those of the view.
LEMMA CallDims ==
  ASSUME NEW side, calledFor(side), NEW j \in 1 .. 4
  PROVE  /\ args.lengths[j] = sizeOf(side, j) /\ args.offsets[j] = offsetOf(side, j)
<1>1. /\ args.lengths = aligned(operands(side).sizes, 4, 1)
      /\ args.offsets = aligned(operands(side).offsets, 4, 0)
  BY DEF calledFor, call
<1>2. /\ operands(side).sizes = [k \in DOMAIN side.view |-> side.view[k].size]
      /\ operands(side).offsets = [k \in DOMAIN side.view |-> side.view[k].offset]
  BY DEF operands
<1>3. copy.rank = rankOf(side)
  BY DEF calledFor
<1> QED BY <1>1, <1>2, <1>3 DEF aligned, sizeOf, offsetOf, pad

\* The strides of a call are the distances between the elements of its view
\* in each dimension, and 0 for a missing one.
LEMMA CallStrides ==
  ASSUME NEW side, calledFor(side), NEW j \in 1 .. 3
  PROVE  args.strides[j] = IF j - (4 - rankOf(side)) \in 1 .. rankOf(side)
                           THEN stepOf(side, j) * weightOf(side, j) ELSE 0
<1> DEFINE n == rankOf(side)
           k == j - (4 - n)
<1>1. PICK s : s = operands(side).strides
  OBVIOUS
<1>2. /\ n \in 1 .. 4 /\ n = Len(side.shape) /\ side.shape \in Seq(Nat)
      /\ DOMAIN side.view = 1 .. n
  BY ViewDims DEF calledFor, rankOf
<1>3. s = [l \in 1 .. n |-> side.view[l].step * Below(side.shape, l)]
  BY <1>1, <1>2 DEF operands, layoutStride
<1>4. s # <<>> /\ Len(s) = n
  <2>1. n \in Nat /\ n # 0 /\ DOMAIN s = 1 .. n /\ s = [i \in 1 .. n |-> s[i]]
    <3>1. n \in Nat /\ n # 0
      BY <1>2, Shift
    <3> HIDE DEF n
    <3>2. DOMAIN s = 1 .. n /\ s = [i \in 1 .. n |-> s[i]]
      BY <1>3
    <3> QED BY <3>1, <3>2
  <2> HIDE DEF n
  <2> QED BY <2>1, LengthOfRange
<1>5. DOMAIN Front(s) = 1 .. n - 1 /\ \A l \in 1 .. n - 1 : Front(s)[l] = s[l]
  <2>1. 1 \in Int /\ n - 1 \in Int /\ \A l \in 1 .. n - 1 : s[l] \in {s[i] : i \in 1 .. n}
    BY <1>2
  <2>2. Front(s) = SubSeq(s, 1, n - 1)
    BY <1>4 DEF Front
  <2> DEFINE S == {s[i] : i \in 1 .. n}
  <2>3. /\ SubSeq(s, 1, n - 1) \in Seq(S)
        /\ Len(SubSeq(s, 1, n - 1)) = IF 1 <= n - 1 THEN (n - 1) - 1 + 1 ELSE 0
        /\ \A l \in 1 .. (n - 1) - 1 + 1 : SubSeq(s, 1, n - 1)[l] = s[1 + l - 1]
    <3> HIDE DEF S, n
    <3> QED BY <2>1, SubSeqProperties DEF S
  <2>4. PICK t : t = SubSeq(s, 1, n - 1)
    OBVIOUS
  <2>5. t \in Seq(S) /\ Len(t) = n - 1
    <3>1. n - 1 \in Nat /\ (IF 1 <= n - 1 THEN (n - 1) - 1 + 1 ELSE 0) = n - 1
      BY <1>2, Shift
    <3> HIDE DEF S, n
    <3> QED BY <2>3, <2>4, <3>1
  <2>6. DOMAIN t = 1 .. n - 1
    <3> HIDE DEF S
    <3> QED BY <2>5
  <2>7. \A l \in 1 .. n - 1 : t[l] = s[l]
    BY <1>2, <2>3, <2>4
  <2> QED BY <2>2, <2>4, <2>6, <2>7
<1>6. args.strides = [i \in 1 .. 3 |-> IF i - (4 - n) \in DOMAIN Front(s)
                                       THEN Front(s)[i - (4 - n)] ELSE 0]
  BY <1>1, <1>4 DEF calledFor, call, aligned
<1>7. args.strides[j] = IF k \in 1 .. n - 1 THEN s[k] ELSE 0
  BY <1>5, <1>6
<1>8. k \in 1 .. n <=> k \in 1 .. n - 1
  BY <1>2
<1>9. CASE k \in 1 .. n
  <2>1. s[k] = side.view[k].step * Below(side.shape, k)
    BY <1>3, <1>9
  <2>2. Below(side.shape, k) = weightOf(side, j)
    <3> HIDE DEF n
    <3>1. j \in 1 .. 4
      OBVIOUS
    <3>2. Below(side.shape, j - (4 - n)) = weight(side.shape, n, j)
      BY <1>2, <1>9, <3>1, BelowWeight
    <3> QED BY <3>2, Zenon DEF n, weightOf
  <2>3. side.view[k].step = stepOf(side, j)
    BY <1>2, <1>9 DEF stepOf, pad
  <2> QED BY <1>7, <1>8, <1>9, <2>1, <2>2, <2>3
<1>10. CASE k \notin 1 .. n
  BY <1>7, <1>8, <1>10
<1> QED BY <1>9, <1>10

\* The call starts where its offsets point.
LEMMA CallStart ==
  ASSUME NEW side, calledFor(side)
  PROVE  startOf(side.shape) =
           offsetOf(side, 1) * weightOf(side, 1) + offsetOf(side, 2) * weightOf(side, 2)
             + offsetOf(side, 3) * weightOf(side, 3) + offsetOf(side, 4) * weightOf(side, 4)
<1> DEFINE n == rankOf(side)
<1>1. PICK q : q = [k \in 1 .. n |-> args.offsets[4 - n + k] * Below(side.shape, k)]
  OBVIOUS
<1>2. /\ n \in 1 .. 4 /\ n \in 0 .. 4 /\ n = Len(side.shape) /\ side.shape \in Seq(Nat)
  BY ViewDims DEF calledFor, rankOf
<1>3. startOf(side.shape) = SumOf(q)
  BY <1>1, <1>2 DEF startOf
<1>4. ASSUME NEW j \in 1 .. 4
      PROVE  /\ offsetOf(side, j) * weightOf(side, j) \in Int
             /\ pad(q, n, j, 0) = offsetOf(side, j) * weightOf(side, j)
  <2> DEFINE k == j - (4 - n)
  <2>1. weightOf(side, j) \in Nat /\ offsetOf(side, j) \in Nat
    <3>1. extentOf(side, 2) \in Nat /\ extentOf(side, 3) \in Nat /\ extentOf(side, 4) \in Nat
          /\ offsetOf(side, j) \in Nat
      BY ViewFacts DEF calledFor
    <3>2. extentOf(side, 2) * extentOf(side, 3) \in Nat /\ extentOf(side, 3) * extentOf(side, 4) \in Nat
          /\ extentOf(side, 2) * extentOf(side, 3) * extentOf(side, 4) \in Nat
      BY <3>1, ProductNat
    <3>3. j = 1 \/ j = 2 \/ j = 3 \/ j = 4
      OBVIOUS
    <3> QED BY <3>1, <3>2, <3>3, WeightValues
  <2>2. CASE k \in 1 .. n
    <3>1. 4 - n + k = j
      BY <1>2, Shift
    <3>2. q[k] = args.offsets[j] * Below(side.shape, k)
      BY <1>1, <2>2, <3>1
    <3>3. args.offsets[j] = offsetOf(side, j)
      BY CallDims
    <3>4. Below(side.shape, k) = weightOf(side, j)
      <4> HIDE DEF n
      <4>1. Below(side.shape, j - (4 - n)) = weight(side.shape, n, j)
        BY <1>2, <2>2, BelowWeight
      <4> QED BY <4>1, Zenon DEF n, weightOf
    <3>5. pad(q, n, j, 0) = q[k]
      BY <1>1, <2>2 DEF pad
    <3>6. offsetOf(side, j) * weightOf(side, j) \in Int
      BY <2>1, ProductNat
    <3> QED BY <3>2, <3>3, <3>4, <3>5, <3>6
  <2>3. CASE k \notin 1 .. n
    <3>1. DOMAIN side.view = 1 .. n
      BY ViewDims DEF calledFor
    <3>2. offsetOf(side, j) = 0
      BY <2>3, <3>1 DEF offsetOf, pad
    <3>3. pad(q, n, j, 0) = 0
      BY <1>1, <2>3 DEF pad
    <3> QED BY <2>1, <3>2, <3>3
  <2> QED BY <2>2, <2>3
<1>5. DOMAIN q = 1 .. n /\ \A k \in 1 .. n : q[k] \in Int
  <2>1. ASSUME NEW k \in 1 .. n PROVE q[k] \in Int
    <3>1. k + (4 - n) \in 1 .. 4 /\ (k + (4 - n)) - (4 - n) = k
      BY <1>2, Shift
    <3>2. pad(q, n, k + (4 - n), 0) = q[k]
      BY <1>1, <3>1 DEF pad
    <3> QED BY <1>4, <3>1, <3>2
  <2> QED BY <1>1, <2>1
<1>6. SumOf(q) = pad(q, n, 1, 0) + pad(q, n, 2, 0) + pad(q, n, 3, 0) + pad(q, n, 4, 0)
  <2> HIDE DEF n
  <2> QED BY <1>2, <1>5, PaddedSum
<1> QED BY <1>3, <1>4, <1>6

\* The runtime's loops pass the elements of the view, in its order, if the
\* view is contiguous in the innermost dimension.
LEMMA ElementIsViewElement ==
  ASSUME NEW side, calledFor(side), Last(side.view).step = 1,
         NEW m \in Nat, m < viewSize(side)
  PROVE  element(m + 1) = viewElement(side, m + 1)
<1>0. viewed(side) /\ outer(copy) = side
  BY DEF calledFor
<1> DEFINE d1 == digitOf(side, m, 1)
           d2 == digitOf(side, m, 2)
           d3 == digitOf(side, m, 3)
           d4 == digitOf(side, m, 4)
<1>1. element(m + 1) = startOf(side.shape) + d4 + 1 + d3 * args.strides[3]
                         + d2 * args.strides[2] + d1 * args.strides[1]
  <2> DEFINE z2 == sizeOf(side, 2)
             z3 == sizeOf(side, 3)
             z4 == sizeOf(side, 4)
  <2>1. args.lengths[2] = z2 /\ args.lengths[3] = z3 /\ args.lengths[4] = z4
    BY CallDims
  <2>2. (m + 1) - 1 = m
    OBVIOUS
  <2>3. z2 \in Nat \ {0} /\ z3 \in Nat \ {0} /\ z4 \in Nat \ {0}
    BY <1>0, ViewFacts, ViewDigits
  <2>4. (m \div z4) \div (z3 * z2) = ((m \div z4) \div z3) \div z2
    <3> HIDE DEF z2, z3, z4
    <3>1. sameDigits(z2, z3, z4, m)
      BY <2>3, DigitsByWeight
    <3> QED BY <3>1 DEF sameDigits
  <2>5. /\ d4 = m % z4 /\ d3 = (m \div z4) % z3
        /\ d2 = ((m \div z4) \div z3) % z2 /\ d1 = ((m \div z4) \div z3) \div z2
    BY DEF digitOf
  <2>6. element(m + 1) =
          startOf(side.shape) + (m % z4) + 1 + ((m \div z4) % z3) * args.strides[3]
            + (((m \div z4) \div z3) % z2) * args.strides[2]
            + ((m \div z4) \div (z3 * z2)) * args.strides[1]
    <3> HIDE DEF z2, z3, z4, d1, d2, d3, d4
    <3> QED BY <1>0, <2>1, <2>2, Zenon DEF element
  <2> HIDE DEF z2, z3, z4, d1, d2, d3, d4
  <2> QED BY ONLY <2>4, <2>5, <2>6
<1>2. ASSUME NEW j \in 1 .. 3
      PROVE  digitOf(side, m, j) * args.strides[j]
               = (digitOf(side, m, j) * stepOf(side, j)) * weightOf(side, j)
  <2> DEFINE d == digitOf(side, m, j)
             t == stepOf(side, j)
             w == weightOf(side, j)
             n == rankOf(side)
  <2>1. j \in 1 .. 4
    OBVIOUS
  <2>2. d \in 0 .. sizeOf(side, j) - 1 /\ sizeOf(side, j) \in Nat /\ t \in Nat /\ w \in Nat
    BY <1>0, <2>1, ViewFacts, ViewDigits, WeightNat
  <2>3. CASE j - (4 - n) \in 1 .. n
    <3>1. args.strides[j] = t * w
      BY <2>3, CallStrides
    <3> HIDE DEF d, t, w
    <3>2. d * (t * w) = (d * t) * w
      BY <2>2, ProductGroup
    <3> QED BY <3>1, <3>2 DEF d, t, w
  <2>4. CASE j - (4 - n) \notin 1 .. n
    <3>1. args.strides[j] = 0
      BY <2>4, CallStrides
    <3>2. sizeOf(side, j) = 1
      <4>1. DOMAIN side.view = 1 .. n
        BY <1>0, ViewDims
      <4> QED BY <2>4, <4>1 DEF sizeOf, pad
    <3>3. d = 0
      BY <2>2, <3>2
    <3>4. 0 * 0 = (0 * t) * w
      <4> HIDE DEF t, w
      <4> QED BY <2>2
    <3> QED BY <3>1, <3>3, <3>4
  <2> QED BY <2>3, <2>4
<1>3. stepOf(side, 4) = 1
  <2> DEFINE n == rankOf(side)
  <2>1. n \in 1 .. 4 /\ DOMAIN side.view = 1 .. n /\ n = Len(side.view)
    BY <1>0, ViewDims
  <2>2. Last(side.view) = side.view[n]
    BY <2>1 DEF Last
  <2>3. 4 - (4 - n) = n /\ n \in 1 .. n
    BY <2>1, Shift
  <2> QED BY <2>1, <2>2, <2>3 DEF stepOf, pad
<1> DEFINE o1 == offsetOf(side, 1)
           o2 == offsetOf(side, 2)
           o3 == offsetOf(side, 3)
           o4 == offsetOf(side, 4)
           w1 == weightOf(side, 1)
           w2 == weightOf(side, 2)
           w3 == weightOf(side, 3)
           e1 == d1 * stepOf(side, 1)
           e2 == d2 * stepOf(side, 2)
           e3 == d3 * stepOf(side, 3)
<1>4. startOf(side.shape) = o1 * w1 + o2 * w2 + o3 * w3 + o4 * 1
  BY <1>0, CallStart, WeightValues
<1>5. viewElement(side, m + 1) =
        1 + ((o1 + e1) * w1 + (o2 + e2) * w2 + (o3 + e3) * w3 + (o4 + d4 * 1) * 1)
  <2>1. weightOf(side, 4) = 1
    BY WeightValues
  <2> QED BY <1>0, <1>3, <2>1, ViewElementValue DEF coordOf
<1>6. /\ d3 * args.strides[3] = e3 * w3 /\ d2 * args.strides[2] = e2 * w2
      /\ d1 * args.strides[1] = e1 * w1
  BY <1>2
<1>7. /\ o1 \in Int /\ o2 \in Int /\ o3 \in Int /\ o4 \in Int
      /\ w1 \in Int /\ w2 \in Int /\ w3 \in Int /\ d4 \in Int
      /\ e1 \in Int /\ e2 \in Int /\ e3 \in Int
  <2>1. \A j \in 1 .. 4 : /\ offsetOf(side, j) \in Nat /\ weightOf(side, j) \in Nat
                          /\ digitOf(side, m, j) \in Nat /\ stepOf(side, j) \in Nat
    BY <1>0, ViewFacts, ViewDigits, WeightNat
  <2>2. \A j \in 1 .. 4 : digitOf(side, m, j) * stepOf(side, j) \in Nat
    BY <2>1, ProductNat
  <2> QED BY <2>1, <2>2
<1> HIDE DEF d1, d2, d3, d4, o1, o2, o3, o4, w1, w2, w3, e1, e2, e3
<1>8. (o1 * w1 + o2 * w2 + o3 * w3 + o4 * 1) + d4 + 1 + e3 * w3 + e2 * w2 + e1 * w1
        = 1 + ((o1 + e1) * w1 + (o2 + e2) * w2 + (o3 + e3) * w3 + (o4 + d4 * 1) * 1)
  BY <1>7, ElementAlgebra
<1>9. element(m + 1) =
        (o1 * w1 + o2 * w2 + o3 * w3 + o4 * 1) + d4 + 1 + e3 * w3 + e2 * w2 + e1 * w1
  BY ONLY <1>1, <1>4, <1>6, Zenon
<1> QED BY ONLY <1>5, <1>8, <1>9

\* And as many of them as the view has.
LEMMA LengthIsViewSize ==
  ASSUME NEW side, calledFor(side)
  PROVE  length = viewSize(side)
<1>1. /\ args.lengths[1] = sizeOf(side, 1) /\ args.lengths[2] = sizeOf(side, 2)
      /\ args.lengths[3] = sizeOf(side, 3) /\ args.lengths[4] = sizeOf(side, 4)
  BY CallDims
<1> QED BY <1>1, ViewSize, Zenon DEF length, calledFor

-----------------------------------------------------------------------------
(* The inductive invariant of the path. *)

\* The walk's descriptors are the pushes to the column, and those that are
\* outstanding are the ones the DMA has not executed.
LinkInv ==
  /\ Len(pushed) = begun(Col)
  /\ outstanding = Len(pushed) - Len(executed[Col])
  /\ Len(pushed) <= Total

\* The packet is the client's, or that of the bounce buffer. Nothing is pushed
\* before it is posted, and it is only completed when its walk is done.
PacketInv ==
  /\ copy \in Copies
  /\ pkt = IF copy.kind = "nd" THEN carried(copy.request) ELSE bounce
  /\ stage \in {"copy", "dma", "call"} => pushed = <<>>
  /\ stage \in {"completed", "returned"} /\ ~unhandled => pc = "done"

\* The arguments are those of the outer side of a copy to or from a tile.
ArgsInv ==
  ~Client =>
    /\ stage = "dma" =>
         /\ ~refused
         /\ args = [src |-> operands(copy.src), dst |-> operands(copy.dst)]
    /\ stage \in {"call", "posted", "completed", "returned"} =>
         /\ ~refused /\ (fromTile \/ toTile)
         /\ args = call(operands(outer(copy)))
    /\ stage \in {"posted", "completed", "returned"} => ~fullMemcpy

\* What the buffers hold of a copy from or to L3: the bounce buffer is filled
\* before the packet is posted or by the DMA, which moves it once.
filled ==
  [n \in 1 .. Mapped |-> IF n <= length THEN ddrInit(copy)[element(n)] ELSE <<"bram", n>>]
ToTileInv ==
  /\ inMapping
  /\ ddr = ddrInit(copy)
  /\ bram = filled
  /\ remote = IF executed[Col] = <<>> THEN remoteInit
              ELSE [n \in 1 .. Mapped |-> IF n <= length THEN filled[n] ELSE remoteInit[n]]
FromTileInv ==
  /\ remote = remoteInit
  /\ bram = IF executed[Col] = <<>> THEN elements("bram", Mapped)
            ELSE [n \in 1 .. Mapped |-> IF n \in 1 .. length THEN remoteInit[n] ELSE <<"bram", n>>]
BroughtBack ==
  /\ inMapping
  /\ ddr = [a \in DOMAIN ddrInit(copy) |->
              IF \E n \in 1 .. length : element(n) = a
              THEN bram[CHOOSE n \in 1 .. length : element(n) = a]
              ELSE ddrInit(copy)[a]]
Untouched == ddr = ddrInit(copy) /\ bram = elements("bram", Mapped) /\ remote = remoteInit
DataInv ==
  ~Client /\ outer(copy).space = L3 =>
    /\ stage \in {"copy", "dma", "call"} => Untouched
    /\ toTile /\ stage \in {"posted", "completed", "returned"} => ToTileInv
    /\ ~toTile /\ stage \in {"posted", "completed", "returned"} =>
         /\ FromTileInv
         /\ IF stage = "returned" THEN BroughtBack ELSE ddr = ddrInit(copy)

PathInv ==
  /\ IInv
  /\ ShimInv
  /\ LinkInv
  /\ PacketInv
  /\ ArgsInv
  /\ DataInv

-----------------------------------------------------------------------------
(* The steps. *)

\* A packet of the path is one the walk can be given.
LEMMA PacketTyped ==
  ASSUME NEW c \in Copies
  PROVE  /\ bounce \in PacketArgs
         /\ c.kind = "nd" => c.request \in Request /\ carried(c.request) \in PacketArgs
         /\ c.kind \notin {"nd", "cdma"} => isSide(c.src) /\ isSide(c.dst)
BY CopiesAssumption

\* Nothing was called yet and every buffer is as given.
LEMMA PathInitInv == PathInit => PathInv
<1> SUFFICES ASSUME PathInit PROVE PathInv
  OBVIOUS
<1> USE DEF PathInit
<1>1. pkt \in PacketArgs
  BY PacketTyped
<1>2. IInv
  BY <1>1, InitInv DEF Init
<1>3. ShimInv
  BY ShimInitInv
<1>4. LinkInv
  <2>1. Total \in Nat
    BY <1>2, TotalNat DEF IInv
  <2>2. begun(Col) = 0 /\ executed[Col] = <<>>
    BY PathAssumption DEF ShimInit, begun, busy
  <2> QED BY <2>1, <2>2 DEF LinkInv
<1>5. PacketInv /\ ArgsInv
  BY DEF PacketInv, ArgsInv, Client
<1>6. DataInv
  <2>1. ASSUME ~Client PROVE stage = "copy" /\ Untouched
    BY <2>1 DEF Untouched, Client
  <2> HIDE DEF PathInit
  <2> QED BY <2>1 DEF DataInv
<1> QED BY <1>2, <1>3, <1>4, <1>5, <1>6 DEF PathInv

\* The path takes the steps of the walk,
LEMMA WalkMoves == [PathNext]_pathVars => [Next]_vars
<1> SUFFICES ASSUME [PathNext]_pathVars PROVE [Next]_vars
  OBVIOUS
<1>1. CASE WalkStep
  BY <1>1 DEF WalkStep, Next, Controller
<1>2. CASE PushBd
  BY <1>2 DEF PushBd, Next, Controller
<1>3. CASE DmaMoves
  BY <1>3 DEF DmaMoves, Next
<1>4. CASE UNCHANGED vars
  BY <1>4
<1> QED BY <1>1, <1>2, <1>3, <1>4 DEF PathNext, pathVars, ConvertToAir, LowerDma,
        CallNdMemcpy, PostCopy, ReturnCopy, CompleteUnhandled, CompleteCopy, ProgramBd,
        OtherPush, OtherExecute

\* What is outstanding is in the start queue between two pushes.
LEMMA QueuedIsOutstanding ==
  ASSUME ShimInv, LinkInv, push_pc = "idle"
  PROVE  queued(Col) = outstanding
<1>1. /\ pushes[Col] = Len(executed[Col]) + Len(queue[Col])
      /\ begun(Col) = pushes[Col]
  BY PathAssumption DEF ShimInv, CountInv, begun, busy
<1>2. Len(executed[Col]) \in Nat /\ Len(queue[Col]) \in Nat
  <2>1. executed[Col] \in Seq(Int) /\ queue[Col] \in Seq(BDs)
    BY PathAssumption DEF ShimInv, ShimTypeOK
  <2> QED BY <2>1
<1> QED BY <1>1, <1>2 DEF LinkInv, queued

\* and those of the shim's descriptors.
LEMMA ShimMoves == IInv /\ ShimInv /\ LinkInv /\ [PathNext]_pathVars => [ShimNext]_shimVars
<1> SUFFICES ASSUME IInv, ShimInv, LinkInv, [PathNext]_pathVars PROVE [ShimNext]_shimVars
  OBVIOUS
<1>0. Col \in Cols
  BY PathAssumption
<1>1. CASE PushBd
  <2>1. PushDescriptor /\ PickDescriptor(Col)
    BY <1>1 DEF PushBd
  <2>2. queued(Col) = outstanding
    BY <2>1, QueuedIsOutstanding DEF PickDescriptor
  <2>3. outstanding \in Nat /\ Stall \in Nat /\ Stall <= 4 /\ ~(outstanding >= Stall)
    BY <2>1, PathAssumption, CopyAssumption DEF PushDescriptor, stalled, IInv, TypeOK
  <2>4. mayPush(Col)
    BY <2>2, <2>3 DEF mayPush
  <2> QED BY <1>0, <2>1, <2>4 DEF ShimNext
<1>2. CASE ProgramBd
  BY <1>2 DEF ProgramBd, ShimNext
<1>3. CASE \E c \in Cols \ {Col} : OtherPush(c)
  BY <1>3 DEF OtherPush, ShimNext
<1>4. CASE \E c \in Cols \ {Col} : OtherExecute(c)
  BY <1>4 DEF OtherExecute, ShimNext
<1>5. CASE DmaMoves
  BY <1>0, <1>5 DEF DmaMoves, ShimNext
<1>6. CASE UNCHANGED shimVars
  BY <1>6
<1> QED BY <1>1, <1>2, <1>3, <1>4, <1>5, <1>6 DEF PathNext, pathVars, ConvertToAir, LowerDma,
        CallNdMemcpy, PostCopy, ReturnCopy, CompleteUnhandled, CompleteCopy, WalkStep

\* Pushes and executions keep the walk and the start queue together.
LEMMA LinkStep ==
  ASSUME IInv, ShimInv, LinkInv, PacketInv, [PathNext]_pathVars
  PROVE  LinkInv'
<1>0. /\ Col \in Cols /\ pushed \in Seq(Nat) /\ Len(pushed) \in Nat
      /\ executed[Col] \in Seq(Int) /\ Len(executed[Col]) \in Nat
      /\ outstanding \in Nat /\ pushes[Col] \in Nat
      /\ pushes \in [Cols -> Nat] /\ executed \in [Cols -> Seq(Int)] /\ queue \in [Cols -> Seq(BDs)]
  <2>1. /\ Col \in Cols /\ pushed \in Seq(Nat) /\ executed[Col] \in Seq(Int)
        /\ outstanding \in 0 .. Stall /\ Stall \in Nat /\ pushes[Col] \in Nat
        /\ pushes \in [Cols -> Nat] /\ executed \in [Cols -> Seq(Int)]
        /\ queue \in [Cols -> Seq(BDs)]
    BY PathAssumption, CopyAssumption DEF IInv, TypeOK, ShimInv, ShimTypeOK
  <2> QED BY <2>1
<1>1. CASE PushBd
  <2>1. PushDescriptor /\ PickDescriptor(Col)
    BY <1>1 DEF PushBd
  <2>2. Total - Len(pushed) > 0
    BY <2>1, RowLeft DEF PushDescriptor, IInv, WalkInv
  <2>3. Total' = Total /\ Len(pushed') = Len(pushed) + 1 /\ outstanding' = outstanding + 1
    BY <1>0, <2>1 DEF PushDescriptor, Total
  <2>4. begun(Col) = pushes[Col] /\ begun(Col)' = pushes[Col] + 1 /\ executed' = executed
    BY <2>1 DEF PickDescriptor, begun, busy
  <2>5. Total \in Nat
    BY TotalNat DEF IInv
  <2> QED BY <1>0, <2>2, <2>3, <2>4, <2>5 DEF LinkInv
<1>2. CASE DmaMoves
  <2>1. Execute(Col) /\ Finish
    BY <1>2 DEF DmaMoves
  <2>2. PICK v : executed' = [executed EXCEPT ![Col] = Append(executed[Col], v)]
    BY <2>1 DEF Execute
  <2>3. Len(executed'[Col]) = Len(executed[Col]) + 1
    <3>1. executed'[Col] = Append(executed[Col], v)
      BY <1>0, <2>2
    <3> QED BY <1>0, <3>1
  <2>4. outstanding' = outstanding - 1 /\ pushed' = pushed /\ Total' = Total
    BY <2>1 DEF Finish, Total
  <2>5. begun(Col)' = begun(Col)
    BY <2>1 DEF Execute, begun, busy
  <2> QED BY <1>0, <2>3, <2>4, <2>5 DEF LinkInv
<1>3. CASE UNCHANGED <<vars, executed[Col], begun(Col)>>
  BY <1>3 DEF vars, LinkInv, Total
<1>4. CASE WalkStep
  <2>1. pushed' = pushed /\ outstanding' = outstanding /\ pkt' = pkt /\ UNCHANGED shimVars
    BY <1>4 DEF WalkStep, GetCheckpoint, Enter4d, Enter3d, Leave3d, Stall2d, Leave2d,
                IdleTimeout, Idle, PutCheckpoint
  <2> QED BY <2>1 DEF shimVars, LinkInv, Total, begun, busy
<1>5. CASE ProgramBd
  <2>1. CASE Invalidate
    BY <1>5, <2>1, <1>3 DEF ProgramBd, Invalidate, begun, busy
  <2>2. CASE WriteDescriptor
    BY <1>5, <2>2, <1>3 DEF ProgramBd, WriteDescriptor, begun, busy
  <2>3. CASE StartDescriptor
    <3>1. /\ push_pc = "start" /\ push_pc' = "idle" /\ executed' = executed
          /\ pushes' = [pushes EXCEPT ![col] = pushes[col] + 1]
      BY <2>3 DEF StartDescriptor
    <3>2. begun(Col)' = begun(Col)
      BY <1>0, <3>1 DEF begun, busy
    <3> QED BY <1>3, <1>5, <3>1, <3>2 DEF ProgramBd
  <2> QED BY <1>5, <2>1, <2>2, <2>3 DEF ProgramBd
<1>6. CASE \E c \in Cols \ {Col} : OtherPush(c)
  BY <1>3, <1>6 DEF OtherPush, PickDescriptor, begun, busy
<1>7. CASE \E c \in Cols \ {Col} : OtherExecute(c)
  <2>1. PICK c \in Cols \ {Col} : OtherExecute(c)
    BY <1>7
  <2>2. executed'[Col] = executed[Col]
    BY <1>0, <2>1 DEF OtherExecute, Execute
  <2> QED BY <1>3, <2>1, <2>2 DEF OtherExecute, Execute, begun, busy
<1>8. CASE UNCHANGED <<vars, shimVars>>
  BY <1>3, <1>8 DEF shimVars, begun, busy
<1> QED BY <1>1, <1>2, <1>4, <1>5, <1>6, <1>7, <1>8 DEF PathNext, pathVars, ConvertToAir,
        LowerDma, CallNdMemcpy, PostCopy, ReturnCopy, CompleteUnhandled, CompleteCopy

\* What depends on the copy alone, and on its arguments.
LEMMA SameCopy ==
  ASSUME copy' = copy
  PROVE  /\ Client' = Client /\ unhandled' = unhandled /\ refused' = refused
         /\ fromTile' = fromTile /\ toTile' = toTile /\ fullMemcpy' = fullMemcpy
         /\ physical' = physical
         /\ call(operands(outer(copy)))' = call(operands(outer(copy)))
BY DEF Client, unhandled, physical, refused, rankReduced, fromTile, toTile, fullMemcpy,
       call, aligned

\* What a call means does not change while its arguments do not.
LEMMA SameArgs ==
  ASSUME copy' = copy, args' = args
  PROVE  /\ length' = length /\ inMapping' = inMapping
         /\ \A n : element(n)' = element(n)
         /\ filled' = filled
<1>1. length' = length
  BY DEF length
<1>2. ASSUME NEW n PROVE element(n)' = element(n)
  BY DEF element, startOf
<1>3. \A n : element(n)' = element(n)
  BY <1>2
<1>4. filled' = filled
  BY <1>1, <1>3 DEF filled
<1> QED BY <1>1, <1>3, <1>4 DEF inMapping

\* The copy is fixed, and so are its arguments once it is called.
LEMMA Fixed ==
  ASSUME [PathNext]_pathVars
  PROVE  /\ copy' = copy /\ pkt' = pkt
         /\ stage \notin {"copy", "dma"} => args' = args
BY DEF PathNext, pathVars, callVars, shimVars, vars, ConvertToAir, LowerDma, CallNdMemcpy,
       PostCopy, ReturnCopy, CompleteUnhandled, CompleteCopy, ProgramBd, OtherPush,
       OtherExecute, WalkStep, PushBd, DmaMoves, GetCheckpoint, Enter4d, Enter3d, Leave3d,
       Stall2d, Leave2d, IdleTimeout, Idle, PutCheckpoint, PushDescriptor, Finish

\* The walk is only made for a posted packet.
LEMMA PacketStep ==
  ASSUME PacketInv, [PathNext]_pathVars
  PROVE  PacketInv'
<1>0. copy' = copy /\ pkt' = pkt /\ Client' = Client /\ unhandled' = unhandled
  BY Fixed, SameCopy
<1>1. CASE WalkStep \/ PushBd
  <2>1. stage = "posted" /\ stage' = stage
    BY <1>1 DEF WalkStep, PushBd, walks, callVars
  <2> QED BY <1>0, <2>1 DEF PacketInv
<1>2. CASE CompleteCopy
  BY <1>0, <1>2 DEF CompleteCopy, PacketInv, vars
<1>3. CASE UNCHANGED <<pushed, pc>> /\ stage' \in {stage, "kept", "failed", "crashed"}
  BY <1>0, <1>3 DEF PacketInv
<1>4. CASE ConvertToAir \/ LowerDma
  BY <1>0, <1>4 DEF ConvertToAir, LowerDma, PacketInv, vars
<1>5. CASE PostCopy
  BY <1>0, <1>5 DEF PostCopy, PacketInv, vars
<1>6. CASE ReturnCopy
  BY <1>0, <1>6 DEF ReturnCopy, PacketInv, vars
<1>7. CASE CompleteUnhandled
  BY <1>0, <1>7 DEF CompleteUnhandled, PacketInv, vars
<1>8. CASE DmaMoves
  BY <1>3, <1>8 DEF DmaMoves, Finish
<1> QED BY <1>1, <1>2, <1>3, <1>4, <1>5, <1>6, <1>7, <1>8 DEF PathNext, pathVars, vars, callVars,
        CallNdMemcpy, ProgramBd, OtherPush, OtherExecute

\* The outer side of a copy between a tile and another memory.
LEMMA OuterSide ==
  ASSUME fromTile \/ toTile
  PROVE  outer(copy) = IF fromTile THEN copy.dst ELSE copy.src
BY DEF fromTile, toTile, outer, L1, L2, L3

\* The compiler passes on the operands of the outer side.
LEMMA ArgsStep ==
  ASSUME ArgsInv, [PathNext]_pathVars
  PROVE  ArgsInv'
<1>0. /\ copy' = copy /\ Client' = Client /\ refused' = refused
      /\ fromTile' = fromTile /\ toTile' = toTile /\ fullMemcpy' = fullMemcpy
      /\ call(operands(outer(copy)))' = call(operands(outer(copy)))
      /\ stage \notin {"copy", "dma"} => args' = args
  BY Fixed, SameCopy
<1>1. CASE ConvertToAir
  BY <1>0, <1>1 DEF ConvertToAir, ArgsInv
<1>2. CASE LowerDma
  <2> SUFFICES ASSUME ~Client, stage' = "call"
               PROVE  ~refused /\ (fromTile \/ toTile) /\ args' = call(operands(outer(copy)))
    BY <1>0, <1>2 DEF LowerDma, ArgsInv
  <2>1. /\ ~refused /\ args = [src |-> operands(copy.src), dst |-> operands(copy.dst)]
        /\ fromTile \/ toTile
        /\ args' = call(IF fromTile THEN args.dst ELSE args.src)
    BY <1>2 DEF LowerDma, ArgsInv
  <2>2. args' = call(operands(IF fromTile THEN copy.dst ELSE copy.src))
    BY <2>1
  <2> QED BY <2>1, <2>2, OuterSide
<1>3. CASE UNCHANGED args /\ stage' \in {stage, "failed", "crashed"}
  BY <1>0, <1>3 DEF ArgsInv
<1>4. CASE PostCopy
  BY <1>0, <1>4 DEF PostCopy, ArgsInv
<1>5. CASE ReturnCopy
  BY <1>0, <1>5 DEF ReturnCopy, ArgsInv
<1>6. CASE CompleteUnhandled \/ CompleteCopy
  BY <1>0, <1>6 DEF CompleteUnhandled, CompleteCopy, walks, ArgsInv
<1> QED BY <1>1, <1>2, <1>3, <1>4, <1>5, <1>6 DEF PathNext, pathVars, callVars,
        CallNdMemcpy, ProgramBd, OtherPush, OtherExecute, WalkStep, PushBd, DmaMoves

\* The packet of a bounce buffer is one row, of which one descriptor is made.
LEMMA OneRow ==
  ASSUME PathInv, ~Client
  PROVE  /\ Total = 1
         /\ Len(pushed) \in 0 .. 1
         /\ Len(pushed) = 1 => pushed[1] = paddr
<1>1. pkt = bounce
  BY DEF PathInv, PacketInv, Client
<1>2. Total = 1
  BY <1>1 DEF Total, bounce
<1>3. Len(pushed) \in 0 .. 1
  <2>1. pushed \in Seq(Nat) /\ Len(pushed) <= 1
    BY <1>2 DEF PathInv, LinkInv, IInv, TypeOK
  <2> QED BY <2>1
<1>4. ASSUME Len(pushed) = 1 PROVE pushed[1] = paddr
  <2>1. RowsInOrder
    BY DEF PathInv, IInv
  <2>2. /\ 0 \in 0 .. pkt.length_4d - 1 /\ 0 \in 0 .. pkt.length_3d - 1
        /\ 0 \in 0 .. pkt.length_2d - 1
        /\ Position(0, 0, 0) = 0 /\ RowAddress(0, 0, 0) = paddr
    BY <1>1, CopyAssumption DEF bounce, Position, RowAddress
  <2>3. Position(0, 0, 0) < Len(pushed)
    BY <1>4, <2>2
  <2>4. pushed[Position(0, 0, 0) + 1] = RowAddress(0, 0, 0)
    BY <2>1, <2>2, <2>3 DEF RowsInOrder
  <2> QED BY <2>2, <2>4
<1> QED BY <1>2, <1>3, <1>4

\* When the walk is done, or has not begun, the DMA has nothing left to move.
LEMMA NothingOutstanding ==
  ASSUME PathInv, ~unhandled,
         stage \in {"copy", "dma", "call", "completed", "returned"}
  PROVE  outstanding = 0
<1>1. CASE stage \in {"completed", "returned"}
  BY <1>1 DEF PathInv, PacketInv, IInv
<1>2. CASE stage \in {"copy", "dma", "call"}
  <2>1. outstanding \in 0 .. Stall /\ Stall \in Nat /\ Len(pushed) = 0 /\ outstanding = Len(pushed) - Len(executed[Col])
    BY <1>2, CopyAssumption DEF PathInv, PacketInv, LinkInv, IInv, TypeOK
  <2>2. Len(executed[Col]) \in Nat
    <3>1. executed[Col] \in Seq(Int)
      BY PathAssumption DEF PathInv, ShimInv, ShimTypeOK
    <3> QED BY <3>1
  <2> QED BY <2>1, <2>2
<1> QED BY <1>1, <1>2

\* A step that touches none of the buffers.
LEMMA SameData ==
  ASSUME copy' = copy, args' = args,
         UNCHANGED <<ddr, bram, remote>>, executed'[Col] = executed[Col]
  PROVE  /\ ToTileInv' = ToTileInv /\ FromTileInv' = FromTileInv /\ BroughtBack' = BroughtBack
<1>1. /\ length' = length /\ inMapping' = inMapping /\ filled' = filled
      /\ \A n : element(n)' = element(n)
  BY SameArgs
<1>2. ToTileInv' = ToTileInv
  BY <1>1 DEF ToTileInv
<1>3. FromTileInv' = FromTileInv
  BY <1>1 DEF FromTileInv
<1>4. BroughtBack' = BroughtBack
  BY <1>1 DEF BroughtBack
<1> QED BY <1>2, <1>3, <1>4

\* The host fills the bounce buffer before it posts the packet,
LEMMA PostData ==
  ASSUME PathInv, PostCopy, stage' = "posted", ~Client, outer(copy).space = L3
  PROVE  IF toTile THEN ToTileInv' ELSE FromTileInv' /\ ddr' = ddrInit(copy)
<1>1. /\ copy' = copy /\ args' = args /\ ddr' = ddr /\ remote' = remote /\ executed' = executed
      /\ length' = length /\ inMapping' = inMapping /\ filled' = filled
  BY SameArgs DEF PostCopy, shimVars
<1>2. ddr = ddrInit(copy) /\ bram = elements("bram", Mapped) /\ remote = remoteInit
  BY DEF PathInv, DataInv, PostCopy, Untouched
<1>3. executed[Col] = <<>>
  <2>1. stage = "call" /\ pushed = <<>> /\ outstanding \in 0 .. Stall /\ Stall \in Nat
        /\ outstanding = Len(pushed) - Len(executed[Col]) /\ executed[Col] \in Seq(Int)
    BY PathAssumption, CopyAssumption
       DEF PostCopy, PathInv, PacketInv, LinkInv, IInv, TypeOK, ShimInv, ShimTypeOK
  <2>2. Len(executed[Col]) = 0
    BY <2>1
  <2> QED BY <2>1, <2>2
<1>4. ~physical
  BY DEF physical, L2, L3
<1>5. CASE toTile
  <2>1. inMapping /\ bram' = gathered
    BY <1>4, <1>5 DEF PostCopy
  <2>2. gathered = filled
    BY <1>2 DEF gathered, filled, elements
  <2> QED BY <1>1, <1>2, <1>3, <1>5, <2>1, <2>2 DEF ToTileInv
<1>6. CASE ~toTile
  <2>1. bram' = bram
    BY <1>6 DEF PostCopy
  <2> QED BY <1>1, <1>2, <1>3, <1>6, <2>1 DEF FromTileInv
<1> QED BY <1>5, <1>6

\* and empties it when the packet has completed.
LEMMA ReturnData ==
  ASSUME DataInv, ArgsInv, ReturnCopy, stage' = "returned", outer(copy).space = L3
  PROVE  IF toTile THEN ToTileInv' ELSE FromTileInv' /\ BroughtBack'
<1>1. /\ ~Client /\ copy' = copy /\ args' = args /\ bram' = bram /\ remote' = remote
      /\ executed' = executed /\ stage = "completed"
      /\ length' = length /\ inMapping' = inMapping /\ filled' = filled
      /\ \A n : element(n)' = element(n)
  BY SameArgs DEF ReturnCopy, shimVars
<1>2. CASE toTile
  <2>1. ~fromTile
    BY <1>2 DEF fromTile, toTile, L1, L2, L3
  <2>2. ddr' = ddr
    BY <2>1 DEF ReturnCopy
  <2> QED BY <1>1, <1>2, <2>2 DEF DataInv, ToTileInv
<1>3. CASE ~toTile
  <2>1. fromTile /\ ~physical
    BY <1>1, <1>3 DEF ArgsInv, physical, L2, L3
  <2>2. inMapping /\ ddr' = scattered
    BY <2>1 DEF ReturnCopy
  <2>3. FromTileInv /\ ddr = ddrInit(copy)
    BY <1>1, <1>3 DEF DataInv
  <2>4. FromTileInv'
    BY <1>1, <2>3 DEF FromTileInv
  <2>5. scattered = [a \in DOMAIN ddrInit(copy) |->
                       IF \E n \in 1 .. length : element(n) = a
                       THEN bram[CHOOSE n \in 1 .. length : element(n) = a]
                       ELSE ddrInit(copy)[a]]
    BY <2>3 DEF scattered
  <2>6. BroughtBack'
    BY <1>1, <2>2, <2>5 DEF BroughtBack
  <2> QED BY <1>3, <2>4, <2>6
<1> QED BY <1>2, <1>3

\* Other columns cannot have the one row of a bounce buffer lapped: nothing is
\* pushed to its column before it.
LEMMA RowNotLapped ==
  ASSUME PathInv, ~Client
  PROVE  Col \notin lapped
<1>1. begun(Col) \in 0 .. 1
  BY OneRow DEF PathInv, LinkInv
<1>2. Len(given[Col]) = begun(Col)
  BY PathAssumption, ColumnFacts DEF PathInv
<1>3. Col \in lapped => Len(given[Col]) > 1
  BY DEF PathInv, ShimInv, LappedInv
<1> QED BY <1>1, <1>2, <1>3

\* The DMA moves the one row, from or to the beginning of the bounce buffer.
LEMMA MoveData ==
  ASSUME PathInv, DmaMoves, ~Client, outer(copy).space = L3,
         stage \in {"copy", "dma", "call", "posted", "completed", "returned"}
  PROVE  /\ stage = "posted"
         /\ IF toTile THEN ToTileInv' ELSE FromTileInv' /\ ddr' = ddrInit(copy)
<1>0. /\ outstanding > 0 /\ Execute(Col) /\ queue[Col] # <<>>
      /\ copy' = copy /\ args' = args /\ ddr' = ddr /\ stage' = stage
      /\ length' = length /\ inMapping' = inMapping /\ filled' = filled
  BY SameArgs DEF DmaMoves, Finish, Execute
<1>1. stage = "posted"
  <2>1. ~unhandled
    BY DEF unhandled, physical, L2, L3
  <2> QED BY <1>0, <2>1, NothingOutstanding
<1>2. /\ Col \in Cols /\ executed[Col] \in Seq(Int) /\ queue[Col] \in Seq(BDs)
      /\ executed \in [Cols -> Seq(Int)] /\ outstanding \in 0 .. Stall /\ Stall \in Nat
      /\ outstanding = Len(pushed) - Len(executed[Col])
  BY PathAssumption, CopyAssumption DEF PathInv, IInv, TypeOK, LinkInv, ShimInv, ShimTypeOK
<1>3. Len(pushed) = 1 /\ Len(executed[Col]) = 0 /\ pushed[1] = paddr
  <2>1. Len(executed[Col]) \in Nat
    BY <1>2
  <2>2. Len(pushed) \in 0 .. 1 /\ (Len(pushed) = 1 => pushed[1] = paddr)
    BY OneRow
  <2>3. Len(pushed) = 1 /\ Len(executed[Col]) = 0
    <3>1. PICK n, e : n = Len(pushed) /\ e = Len(executed[Col])
      OBVIOUS
    <3>2. n \in 0 .. 1 /\ e \in Nat /\ n - e > 0
      BY <1>0, <1>2, <2>1, <2>2, <3>1
    <3>3. n = 1 /\ e = 0
      BY <3>2
    <3> QED BY <3>1, <3>3
  <2> QED BY <2>2, <2>3
<1>4. contents[Col][Head(queue[Col])] = 0
  <2>1. Len(queue[Col]) \in Nat /\ Len(queue[Col]) # 0 /\ Head(queue[Col]) = queue[Col][1]
    BY <1>0, <1>2
  <2>2. 1 \in 1 .. Len(queue[Col])
    BY <2>1
  <2>3. contents[Col][queue[Col][1]] = Len(executed[Col]) + 1 - 1
    BY <1>2, <2>2, RowNotLapped DEF PathInv, ShimInv, QueueInv
  <2> QED BY <1>3, <2>1, <2>3
<1>5. (pushed[contents[Col][Head(queue[Col])] + 1] - paddr) \div EB = 0
  <2>1. pushed[contents[Col][Head(queue[Col])] + 1] = paddr
    BY <1>3, <1>4
  <2>2. paddr \in Nat /\ EB \in Nat \ {0}
    BY PathAssumption, CopyAssumption
  <2>3. (paddr - paddr) \div EB = 0
    <3>1. paddr - paddr = 0
      BY <2>2
    <3>2. 0 \div EB = 0
      BY <2>2
    <3> QED BY <3>1, <3>2
  <2> QED BY <2>1, <2>3
<1>6. executed[Col] = <<>> /\ executed'[Col] # <<>>
  <2>1. executed'[Col] = Append(executed[Col], contents[Col][Head(queue[Col])])
    BY <1>0, <1>2 DEF Execute
  <2>2. executed[Col] = <<>>
    BY <1>2, <1>3
  <2> QED BY <1>2, <2>1, <2>2
<1>7. /\ remote' = [n \in DOMAIN remote |->
                      IF toTile /\ n <= length THEN bram[0 + n] ELSE remote[n]]
      /\ bram' = [n \in DOMAIN bram |->
                    IF fromTile /\ n - 0 \in 1 .. length THEN remote[n - 0] ELSE bram[n]]
  <2>1. contents[Col][Head(queue[Col])] # Invalid
    BY <1>4 DEF Invalid
  <2> QED BY <1>5, <2>1 DEF DmaMoves
<1>8. remoteInit = [n \in 1 .. Mapped |-> <<"remote", n>>] /\ Mapped \in Nat
  BY PathAssumption DEF remoteInit, elements
<1>9. CASE toTile
  <2>1. /\ inMapping /\ ddr = ddrInit(copy) /\ bram = filled /\ remote = remoteInit
    BY <1>1, <1>6, <1>9 DEF PathInv, DataInv, ToTileInv
  <2>2. ~fromTile
    BY <1>9 DEF fromTile, toTile, L1, L2, L3
  <2>3. bram' = filled
    BY <1>7, <2>1, <2>2 DEF filled
  <2>4. remote' = [n \in 1 .. Mapped |-> IF n <= length THEN filled[n] ELSE remoteInit[n]]
    BY <1>7, <1>8, <1>9, <2>1
  <2> QED BY <1>0, <1>1, <1>6, <1>9, <2>1, <2>3, <2>4 DEF ToTileInv
<1>10. CASE ~toTile
  <2>1. remote = remoteInit /\ bram = elements("bram", Mapped) /\ ddr = ddrInit(copy)
    BY <1>1, <1>6, <1>10 DEF PathInv, DataInv, FromTileInv
  <2>2. fromTile
    BY <1>1, <1>10 DEF PathInv, ArgsInv
  <2>3. remote' = remoteInit
    BY <1>7, <1>8, <1>10, <2>1
  <2>4. bram' = [n \in 1 .. Mapped |-> IF n \in 1 .. length THEN remoteInit[n] ELSE <<"bram", n>>]
    BY <1>7, <1>8, <2>1, <2>2 DEF elements
  <2> QED BY <1>0, <1>1, <1>6, <1>10, <2>1, <2>3, <2>4 DEF FromTileInv
<1> QED BY <1>1, <1>9, <1>10

\* What the buffers hold, step by step.
LEMMA DataStep ==
  ASSUME PathInv, [PathNext]_pathVars
  PROVE  DataInv'
<1>0. /\ copy' = copy /\ Client' = Client /\ toTile' = toTile
      /\ stage \notin {"copy", "dma"} => args' = args
  BY Fixed, SameCopy
<1> SUFFICES ASSUME ~Client, outer(copy).space = L3, DataInv PROVE DataInv'
  BY <1>0 DEF DataInv, PathInv
<1>1. CASE stage' \in {"kept", "failed", "crashed"}
  BY <1>1 DEF DataInv
<1>2. CASE stage' \in {"copy", "dma", "call"} /\ stage \in {"copy", "dma", "call"}
           /\ UNCHANGED <<ddr, bram, remote>>
  BY <1>0, <1>2 DEF DataInv, Untouched
<1>3. CASE /\ stage \in {"posted", "completed", "returned"}
           /\ stage' = stage \/ (stage = "posted" /\ stage' = "completed")
           /\ UNCHANGED <<ddr, bram, remote>> /\ executed'[Col] = executed[Col]
  <2>1. ToTileInv' = ToTileInv /\ FromTileInv' = FromTileInv /\ BroughtBack' = BroughtBack
    BY <1>0, <1>3, SameData
  <2>2. \/ stage' \in {"posted", "completed"} /\ stage \in {"posted", "completed"}
        \/ stage' = "returned" /\ stage = "returned"
    BY <1>3
  <2> QED BY <1>0, <1>3, <2>1, <2>2 DEF DataInv
<1>4. CASE PostCopy
  <2>1. stage' \in {"crashed", "posted"}
    BY <1>4 DEF PostCopy
  <2>2. CASE stage' = "posted"
    BY <1>0, <1>4, <2>2, PostData DEF DataInv
  <2> QED BY <1>1, <2>1, <2>2
<1>5. CASE ReturnCopy
  <2>1. stage' \in {"crashed", "returned"}
    BY <1>5 DEF ReturnCopy
  <2>2. CASE stage' = "returned"
    BY <1>0, <1>5, <2>2, ReturnData DEF DataInv, PathInv
  <2> QED BY <1>1, <2>1, <2>2
<1>6. CASE DmaMoves
  <2>1. stage' = stage
    BY <1>6 DEF DmaMoves
  <2>2. CASE stage \in {"copy", "dma", "call", "posted", "completed", "returned"}
    <3>1. /\ stage = "posted"
          /\ IF toTile THEN ToTileInv' ELSE FromTileInv' /\ ddr' = ddrInit(copy)
      BY <1>6, <2>2, MoveData
    <3> QED BY <1>0, <2>1, <3>1 DEF DataInv
  <2>3. CASE stage \notin {"copy", "dma", "call", "posted", "completed", "returned"}
    BY <2>1, <2>3 DEF DataInv
  <2> QED BY <2>2, <2>3
<1>7. CASE ConvertToAir \/ LowerDma \/ CallNdMemcpy
  BY <1>1, <1>2, <1>7 DEF ConvertToAir, LowerDma, CallNdMemcpy
<1>8. CASE CompleteUnhandled \/ CompleteCopy
  BY <1>3, <1>8 DEF CompleteUnhandled, CompleteCopy, walks, shimVars
<1>9. CASE /\ UNCHANGED <<copy, stage, args, ddr, bram, remote>>
           /\ executed'[Col] = executed[Col]
  <2>1. CASE stage \in {"copy", "dma", "call"}
    BY <1>2, <1>9, <2>1
  <2>2. CASE stage \in {"posted", "completed", "returned"}
    BY <1>3, <1>9, <2>2
  <2>3. CASE stage \notin {"copy", "dma", "call", "posted", "completed", "returned"}
    BY <1>9, <2>3 DEF DataInv
  <2> QED BY <2>1, <2>2, <2>3
<1>10. CASE WalkStep \/ PushBd \/ ProgramBd \/ UNCHANGED pathVars
  BY <1>9, <1>10 DEF WalkStep, PushBd, ProgramBd, PickDescriptor, Invalidate, WriteDescriptor,
                     StartDescriptor, callVars, shimVars, pathVars
<1>11. CASE \E c \in Cols \ {Col} : OtherPush(c)
  BY <1>9, <1>11 DEF OtherPush, PickDescriptor, callVars
<1>12. CASE \E c \in Cols \ {Col} : OtherExecute(c)
  <2>1. PICK c \in Cols \ {Col} : OtherExecute(c)
    BY <1>12
  <2>2. executed'[Col] = executed[Col]
    BY <2>1, PathAssumption DEF OtherExecute, Execute, PathInv, ShimInv, ShimTypeOK
  <2> QED BY <1>9, <2>1, <2>2 DEF OtherExecute, callVars
<1> QED BY <1>4, <1>5, <1>6, <1>7, <1>8, <1>10, <1>11, <1>12 DEF PathNext

\* The invariant is inductive.
LEMMA PathStep == PathInv /\ [PathNext]_pathVars => PathInv'
<1> SUFFICES ASSUME PathInv, [PathNext]_pathVars PROVE PathInv'
  OBVIOUS
<1>1. IInv'
  BY WalkMoves, InductiveStep DEF PathInv
<1>2. ShimInv'
  BY ShimMoves, ShimNextInv DEF PathInv
<1>3. LinkInv' /\ PacketInv' /\ ArgsInv' /\ DataInv'
  BY LinkStep, PacketStep, ArgsStep, DataStep DEF PathInv
<1> QED BY <1>1, <1>2, <1>3 DEF PathInv

-----------------------------------------------------------------------------
(* What the invariant says of a completed packet and of a call that returned. *)

\* A regular copy is called with the operands of its outer side.
LEMMA CalledForOuter ==
  ASSUME PathInv, Regular, stage \in {"call", "posted", "completed", "returned"},
         NEW side, side = outer(copy)
  PROVE  /\ calledFor(side) /\ Last(side.view).step = 1
         /\ side.space = L3
<1>1. side.view # <<>> /\ Last(side.view).step = 1 /\ side.space = L3 /\ ~Client
  BY DEF Regular
<1>2. ~refused /\ args = call(operands(side))
  BY <1>1 DEF PathInv, ArgsInv
<1>3. isSide(side)
  BY <1>1, PacketTyped DEF PathInv, PacketInv, Client, outer
<1>4. copy.rank = rankOf(side)
  <2>1. ~rankReduced(side)
    BY <1>2 DEF refused, outer
  <2>2. Len(side.view) = Len(side.shape)
    BY <1>1, <1>3 DEF isSide
  <2> QED BY <1>1, <2>1, <2>2 DEF rankReduced, rankOf
<1> QED BY <1>1, <1>2, <1>3, <1>4 DEF calledFor, viewed

\* When the call has returned, the DMA has moved the row.
LEMMA MovedOnce ==
  ASSUME PathInv, Regular, stage = "returned"
  PROVE  executed[Col] # <<>>
<1>1. ~Client /\ ~unhandled
  BY DEF Regular, unhandled, physical, L2, L3
<1>2. pc = "done" /\ outstanding = 0 /\ TypeOK /\ WalkOk(local, pc)
  BY <1>1 DEF PathInv, PacketInv, IInv, WalkInv
<1>3. Len(pushed) = 1
  BY <1>1, <1>2, EndOfWalk, OneRow
<1>4. Len(executed[Col]) # 0
  BY <1>2, <1>3 DEF PathInv, LinkInv
<1> QED BY <1>4

\* When a call of the fitting kind returned, its region is moved.
LEMMA RegionMoved ==
  ASSUME PathInv, stage = "returned", Regular
  PROVE  Moved
<1>1. PICK side : side = outer(copy)
  OBVIOUS
<1>2. calledFor(side) /\ Last(side.view).step = 1 /\ side.space = L3 /\ ~Client /\ viewed(side)
  BY <1>1, CalledForOuter DEF Regular, calledFor
<1> DEFINE size == viewSize(side)
<1>3. length = size /\ size \in Nat
  BY <1>2, LengthIsViewSize, ViewSize
<1>4. ASSUME NEW n \in 1 .. size
      PROVE  element(n) = viewElement(side, n)
  <2>1. PICK m \in Nat : m < size /\ n = m + 1
    <3>1. n - 1 \in Nat /\ n - 1 < size /\ n = (n - 1) + 1
      <4> HIDE DEF size
      <4> QED BY <1>3
    <3> QED BY <3>1
  <2>2. element(m + 1) = viewElement(side, m + 1)
    BY <1>2, <2>1, ElementIsViewElement
  <2> QED BY <2>1, <2>2
<1>5. executed[Col] # <<>> /\ DataInv /\ ArgsInv
  BY MovedOnce DEF PathInv
<1>6. ASSUME inMapping PROVE size <= Mapped
  <2>1. size * EB <= Mapped /\ EB \in Nat \ {0} /\ Mapped \in Nat
    BY <1>3, <1>6, PathAssumption DEF inMapping
  <2>2. 1 * size <= EB * size /\ EB * size = size * EB /\ 1 * size = size
    <3>1. 1 \in Nat /\ EB \in Nat /\ 1 <= EB
      BY <2>1
    <3> HIDE DEF size
    <3> QED BY <1>3, <3>1, ProductMonotone
  <2>3. EB * size \in Nat
    BY <1>3, <2>1, ProductNat
  <2> HIDE DEF size
  <2> QED BY <1>3, <2>1, <2>2, <2>3
<1>7. remoteInit = [n \in 1 .. Mapped |-> <<"remote", n>>] /\ Mapped \in Nat
  BY PathAssumption DEF remoteInit, elements
<1>8. CASE toTile
  <2>1. ToTileInv
    BY <1>1, <1>2, <1>5, <1>8 DEF DataInv
  <2>2. remote = [n \in 1 .. Mapped |-> IF n <= size THEN filled[n] ELSE remoteInit[n]]
    BY <1>3, <1>5, <2>1 DEF ToTileInv
  <2>3. ASSUME NEW n \in 1 .. Mapped, n <= size
        PROVE  filled[n] = ddrInit(copy)[viewElement(side, n)]
    <3>1. n \in 1 .. size
      <4> HIDE DEF size
      <4> QED BY <1>3, <2>3
    <3>2. element(n) = viewElement(side, n)
      BY <1>4, <3>1
    <3> QED BY <1>3, <2>3, <3>2 DEF filled
  <2>4. remote = [n \in 1 .. Mapped |->
                    IF n <= size THEN ddrInit(copy)[viewElement(side, n)] ELSE remoteInit[n]]
    <3> HIDE DEF size
    <3> QED BY <2>2, <2>3
  <2>5. DOMAIN remoteInit = 1 .. Mapped
    BY <1>7
  <2>6. ddr = ddrInit(copy)
    BY <2>1 DEF ToTileInv
  <2> QED BY <1>1, <1>8, <2>4, <2>5, <2>6 DEF Moved
<1>9. CASE ~toTile
  <2>1. FromTileInv /\ BroughtBack
    BY <1>1, <1>2, <1>5, <1>9 DEF DataInv
  <2>2. size <= Mapped
    BY <1>6, <2>1 DEF BroughtBack
  <2>3. PICK d : d = ddrInit(copy)
    OBVIOUS
  <2>4. DOMAIN d = 1 .. Product(side.shape)
    BY <1>1, <1>2, <2>3 DEF ddrInit, elements, Client
  <2>5. ddr = [a \in DOMAIN d |-> IF \E n \in 1 .. size : element(n) = a
                                 THEN bram[CHOOSE n \in 1 .. size : element(n) = a]
                                 ELSE d[a]]
    BY <1>3, <2>1, <2>3 DEF BroughtBack
  <2>6. remote = remoteInit
        /\ bram = [n \in 1 .. Mapped |->
                     IF n \in 1 .. size THEN remoteInit[n] ELSE <<"bram", n>>]
    BY <1>3, <1>5, <2>1 DEF FromTileInv
  <2>7. ASSUME NEW n \in 1 .. size
        PROVE  ddr[viewElement(side, n)] = remoteInit[n]
    <3> DEFINE a == viewElement(side, n)
               i == CHOOSE j \in 1 .. size : element(j) = a
    <3>1. a \in DOMAIN d
      BY <1>2, <2>4, <2>7, ViewInside
    <3>2. element(n) = a
      BY <1>4
    <3>3. i \in 1 .. size /\ element(i) = a
      <4> HIDE DEF a, size
      <4> QED BY <3>2, Zenon
    <3>4. viewElement(side, i) = viewElement(side, n)
      <4> HIDE DEF i
      <4>1. element(i) = viewElement(side, i)
        BY <1>4, <3>3
      <4> QED BY <3>3, <4>1
    <3>5. i = n
      <4> HIDE DEF i
      <4> QED BY <1>2, <3>3, <3>4, ViewInjective
    <3>6. ddr[a] = bram[i]
      <4>1. \E j \in 1 .. size : element(j) = a
        BY <3>2
      <4> HIDE DEF a, size
      <4> QED BY <2>5, <3>1, <4>1, Zenon
    <3>7. n \in 1 .. Mapped
      <4> HIDE DEF size
      <4> QED BY <1>3, <1>7, <2>2
    <3>8. bram[n] = remoteInit[n]
      <4> HIDE DEF size
      <4> QED BY <2>6, <3>7
    <3> QED BY <3>5, <3>6, <3>8, Zenon
  <2>8. ASSUME NEW a \in DOMAIN ddr, \A n \in 1 .. size : viewElement(side, n) # a
        PROVE  ddr[a] = d[a]
    <3>1. a \in DOMAIN d
      <4> HIDE DEF size
      <4> QED BY <2>5
    <3>2. ~(\E n \in 1 .. size : element(n) = a)
      BY <1>4, <2>8
    <3> HIDE DEF size
    <3> QED BY <2>5, <3>1, <3>2, Zenon
  <2> QED BY <1>1, <1>9, <2>3, <2>6, <2>7, <2>8 DEF Moved
<1> QED BY <1>8, <1>9

\* A request that fits the fields is carried as it is.
LEMMA FieldFacts ==
  ASSUME NEW n \in Nat, n < Field
  PROVE  lo(n) = n /\ hi(n) = 0 /\ bitor(0, n) = n
<1>1. Field \in Nat
  BY DEF Field
<1>2. bitor(0, n) = n
  BY <1>1, OrAssumption
<1>3. lo(n) = n /\ hi(n) = 0
  BY DEF lo, hi, Field
<1> QED BY <1>2, <1>3

\* A request whose fields fit survives the encoding of the packet.
LEMMA Carried ==
  ASSUME NEW r \in Request, \A f \in DOMAIN r : r[f] < Field
  PROVE  carried(r) = r
<1>1. /\ r.length_4d \in Nat /\ r.length_3d \in Nat /\ r.length_2d \in Nat
      /\ r.stride_4d \in Nat /\ r.stride_3d \in Nat /\ r.stride_2d \in Nat
      /\ r.length_4d < Field /\ r.length_3d < Field /\ r.length_2d < Field
      /\ r.stride_4d < Field /\ r.stride_3d < Field /\ r.stride_2d < Field
  BY DEF Request
<1>2. \A n \in Nat : n < Field => lo(n) = n /\ hi(n) = 0 /\ bitor(0, n) = n
  BY FieldFacts
<1> QED BY <1>1, <1>2 DEF carried, Request

\* The rows of a completed packet are the ones its client asked for.
LEMMA RowsRequested ==
  ASSUME PathInv, stage = "completed", copy.kind = "nd", Narrow, Col \notin lapped
  PROVE  [k \in DOMAIN executed[Col] |-> pushed[executed[Col][k] + 1]] = requested
<1>1. pc = "done" /\ outstanding = 0 /\ TypeOK /\ RowsInOrder /\ WalkOk(local, pc)
  BY DEF PathInv, PacketInv, unhandled, Client, IInv, WalkInv
<1>2. Len(pushed) = Total /\ Total \in Nat
  BY <1>1, EndOfWalk, TotalNat
<1>3. executed[Col] \in Seq(Int) /\ Len(executed[Col]) = Total
  <2>1. executed[Col] \in Seq(Int) /\ outstanding = Len(pushed) - Len(executed[Col])
    BY PathAssumption DEF PathInv, LinkInv, ShimInv, ShimTypeOK
  <2>2. Len(executed[Col]) \in Nat
    BY <2>1
  <2> QED BY <1>1, <1>2, <2>1, <2>2
<1>4. PICK r : r = copy.request
  OBVIOUS
<1>5. pkt = r
  <2>1. r \in Request
    BY <1>4, PacketTyped DEF PathInv, PacketInv
  <2>2. carried(r) = r
    BY <1>4, <2>1, Carried DEF Narrow
  <2> QED BY <1>4, <2>2 DEF PathInv, PacketInv
<1> DEFINE l4 == pkt.length_4d
           l3 == pkt.length_3d
           l2 == pkt.length_2d
           s4 == pkt.stride_4d
           s3 == pkt.stride_3d
           s2 == pkt.stride_2d
           row(m) == paddr + (m % l2) * s2 + ((m \div l2) % l3) * s3
                           + (m \div (l2 * l3)) * s4
<1>6. /\ l4 \in Nat /\ l3 \in Nat /\ l2 \in Nat /\ s4 \in Nat /\ s3 \in Nat /\ s2 \in Nat
      /\ paddr \in Nat
  BY <1>1, PacketNats, CopyAssumption DEF TypeOK
<1>7. requested = [n \in 1 .. Total |-> row(n - 1)]
  BY <1>4, <1>5 DEF requested, Total
<1>8. ASSUME NEW n \in 1 .. Total
      PROVE  pushed[n] = row(n - 1)
  <2>1. PICK m : m = n - 1
    OBVIOUS
  <2>2. m \in Nat /\ m < Total /\ m + 1 = n
    BY <1>2, <2>1
  <2>3. rowAt(l4, l3, l2, m)
    <3>1. m < l4 * l3 * l2
      BY <2>2 DEF Total
    <3> HIDE DEF l4, l3, l2
    <3> QED BY <1>6, <2>2, <3>1, RowAt
  <2>4. PICK i2, i3, i4 : i2 = (m % l2) /\ i3 = ((m \div l2) % l3) /\ i4 = (m \div (l2 * l3))
    OBVIOUS
  <2>5. /\ i2 \in 0 .. l2 - 1 /\ i3 \in 0 .. l3 - 1 /\ i4 \in 0 .. l4 - 1
        /\ (i4 * l3 + i3) * l2 + i2 = m
    <3> HIDE DEF l4, l3, l2
    <3> QED BY ONLY <2>3, <2>4 DEF rowAt
  <2>6. Position(i4, i3, i2) = m
    BY <2>5 DEF Position
  <2>7. pushed[m + 1] = RowAddress(i4, i3, i2)
    <3>1. Position(i4, i3, i2) < Len(pushed)
      BY <1>2, <2>2, <2>6
    <3> QED BY <1>1, <2>5, <2>6, <3>1 DEF RowsInOrder
  <2>8. RowAddress(i4, i3, i2) = paddr + i2 * s2 + i3 * s3 + i4 * s4
    <3> DEFINE a == i4 * s4
               b == i3 * s3
               c == i2 * s2
    <3>1. i4 \in Nat /\ i3 \in Nat /\ i2 \in Nat
      BY <1>6, <2>5
    <3>2. a \in Nat /\ b \in Nat /\ c \in Nat
      <4> HIDE DEF s4, s3, s2
      <4> QED BY <1>6, <3>1, ProductNat
    <3>3. RowAddress(i4, i3, i2) = paddr + a + b + c
      BY DEF RowAddress
    <3>4. paddr + a + b + c = paddr + c + b + a
      <4> HIDE DEF a, b, c
      <4> QED BY <1>6, <3>2
    <3> QED BY <3>3, <3>4
  <2>9. row(m) = paddr + i2 * s2 + i3 * s3 + i4 * s4
    <3> HIDE DEF l4, l3, l2, s4, s3, s2
    <3> QED BY ONLY <2>4
  <2>10. pushed[n] = row(m)
    <3> HIDE DEF row
    <3> QED BY <2>2, <2>7, <2>8, <2>9
  <2> HIDE DEF row
  <2> QED BY <2>1, <2>10
<1>9. /\ DOMAIN executed[Col] = 1 .. Total
      /\ \A k \in 1 .. Total : executed[Col][k] = k - 1
  <2>1. DOMAIN executed[Col] = 1 .. Total
    BY <1>2, <1>3
  <2>2. InOrder(Col)
    BY PathAssumption DEF PathInv, ShimInv, ExecutedUnlessLapped
  <2> QED BY <1>3, <2>1, <2>2 DEF InOrder
<1>10. ASSUME NEW k \in 1 .. Total
       PROVE  pushed[executed[Col][k] + 1] = row(k - 1)
  <2>1. executed[Col][k] + 1 = k
    BY <1>2, <1>9
  <2> HIDE DEF row
  <2> QED BY <1>8, <2>1
<1> HIDE DEF row
<1> QED BY <1>7, <1>9, <1>10

-----------------------------------------------------------------------------
(* The theorems. *)

\* The invariant holds on every path, whatever the other columns do.
THEOREM PathInductive == PathSpec => []PathInv
<1>1. PathInv /\ [PathNext]_pathVars => PathInv'
  BY PathStep
<1> QED BY <1>1, PathInitInv, PTL DEF PathSpec

\* A returned copy has moved the elements of its view, each to its place, and
\* nothing else; a completed packet of a client has had its rows executed,
\* unless other columns of its parity had its column lapped. This goes through the operands of the compiler, the loops of the runtime, the
\* packet, the walk with its checkpoints and the ring of descriptors.
THEOREM RegionsCopied == PathSpec => []RegionCopied
<1>1. PathInv => RegionCopied
  BY RegionMoved, RowsRequested DEF RegionCopied
<1> QED BY <1>1, PathInductive, PTL

\* The walk of the path is the walk of NdMemcpy, whatever the other columns do,
LEMMA PathWalk == PathSpec => Spec
<1>1. PathInit => Init
  BY PacketTyped DEF PathInit, Init
<1>2. [PathNext]_pathVars => [Next]_vars
  BY WalkMoves
<1> QED BY <1>1, <1>2, PTL DEF PathSpec, Spec

\* so that its rows are in order, a packet that is done has been walked over,
\* and the dispatch loop may count on it.
THEOREM PathRowsInOrder == PathSpec => []RowsInOrder
BY PathWalk, RowsAlwaysInOrder, PTL

\* An acknowledged packet has every row of its region copied.
THEOREM PathDoneIsCopied == PathSpec => []DoneMeansCopied
BY PathWalk, DoneIsCopied, PTL

\* The lane of the path moves its rows in order, each once.
THEOREM PathImplementsLane == PathSpec => RefinesLane
BY PathWalk, ImplementsLane, PTL

\* Each descriptor pushed to a column that is not lapped is executed once, in
\* order and with its own contents; the column's own copy never laps it.
THEOREM PathDescriptorsSafe == PathSpec => []ExecutedUnlessLapped
<1>1. PathInv => ExecutedUnlessLapped
  BY DEF PathInv, ShimInv
<1> QED BY <1>1, PathInductive, PTL
=============================================================================
