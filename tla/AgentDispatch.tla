--------------------------- MODULE AgentDispatch ---------------------------
(***************************************************************************)
(* handle_agent_dispatch_packet of controller/main.cpp: the controller     *)
(* starts an ND copy, leaves it staged when the DMA stalls, goes on with   *)
(* other packets of the ring and comes back to it, completing packets out  *)
(* of order. Publication of a packet is one step here; AirQueue has what   *)
(* leads to it. A lane is a staging slot: one channel of one shim DMA in   *)
(* one direction. An ND copy is the number of descriptors it still has to  *)
(* push; NdMemcpy has the addresses in them.                               *)
(***************************************************************************)
EXTENDS Integers, FiniteSets

CONSTANTS
  Size,        \* MB_QUEUE_SIZE
  MaxPackets,  \* bound: packets the host posts in a behaviour
  Window,      \* packets a client has in flight at most
  max_slot,    \* 4 * NUM_DMAS - 1
  Descriptors, \* descriptors of one ND copy (4d * 3d * 2d)
  Stall        \* outstanding descriptors at which a channel is stalled: 4

ASSUME DispatchAssumption ==
  /\ Size \in Nat \ {0} /\ MaxPackets \in Nat /\ Window \in Nat
  /\ Window < Size
  /\ max_slot \in Nat \ {0}
  /\ Descriptors \in Nat /\ Stall \in Nat \ {0}

VARIABLES
  \* host
  posted,  \* sequence of the packets published, as a function on 0 .. n-1
  header,  \* ring slot -> header type
  \* controller: queue_t and locals of handle_agent_dispatch_packet
  read_index,
  rd_idx,
  last_slot,
  slot,    \* the round-robin position, or the lane being copied
  num_active_packets,
  packets_processed,
  retry,   \* the copy was found staged, as opposed to just staged
  pc,
  staged,  \* lane -> staged packet and its checkpoint
  done,    \* packets completed
  \* shim DMAs
  outstanding, \* lane -> descriptors pushed and not finished
  moved,       \* history: packet -> descriptors finished
  skipped      \* history: a copy found its lane busy and was passed over

locals == <<rd_idx, last_slot, slot, num_active_packets, packets_processed, retry>>
vars == <<posted, header, read_index, locals, pc, staged, done, outstanding,
          moved, skipped>>

Lanes == 0 .. max_slot
RingSlots == 0 .. Size - 1
mymod(i) == i % Size
write_index == Cardinality(DOMAIN posted)
Packets == 0 .. write_index - 1
NoPacket == -1

\* "OP" is any packet done in one go, "ND" a copy of memory space 2, "BAD" one
\* of another memory space, "BARRIER" a packet with a barrier header.
PacketKinds == [kind : {"OP", "BARRIER"}, lane : {0}] \cup
               [kind : {"ND", "BAD"}, lane : Lanes]

HeaderOf(p) == IF p.kind = "BARRIER" THEN "BARRIER" ELSE "AGENT_DISPATCH"

Empty == [valid |-> FALSE, pkt |-> NoPacket, left |-> 0]

\* The packet whose contents are in a ring slot: the last one posted to it.
InSlot(s) == CHOOSE i \in Packets : mymod(i) = s /\ write_index - i <= Size

pkt == InSlot(mymod(rd_idx))
next(l) == IF l = max_slot THEN 0 ELSE l + 1

Init ==
  /\ posted = [i \in {} |-> {}]
  /\ header = [s \in RingSlots |-> "INVALID"]
  /\ read_index = 0 /\ rd_idx = 0 /\ last_slot = 0 /\ slot = 0
  /\ num_active_packets = 1 /\ packets_processed = 0 /\ retry = FALSE
  /\ pc = "main"
  /\ staged = [l \in Lanes |-> Empty]
  /\ done = {}
  /\ outstanding = [l \in Lanes |-> 0]
  /\ moved = [i \in {} |-> 0]
  /\ skipped = FALSE

-----------------------------------------------------------------------------
(* The client. It keeps fewer packets in flight than the ring holds.       *)

oldest == IF Packets \subseteq done THEN write_index
          ELSE CHOOSE i \in Packets \ done : \A j \in Packets \ done : i <= j

Post(p) ==
  /\ write_index < MaxPackets
  /\ write_index - oldest < Window
  /\ posted' = [i \in 0 .. write_index |-> IF i < write_index THEN posted[i] ELSE p]
  /\ moved' = [i \in 0 .. write_index |-> IF i < write_index THEN moved[i] ELSE 0]
  /\ header' = [header EXCEPT ![mymod(write_index)] = HeaderOf(p)]
  /\ UNCHANGED <<read_index, locals, pc, staged, done, outstanding, skipped>>

-----------------------------------------------------------------------------
(* The shim DMA: finishes the descriptors of a channel in order.           *)

Finish(l) ==
  /\ outstanding[l] > 0
  /\ outstanding' = [outstanding EXCEPT ![l] = @ - 1]
  /\ moved' = [i \in Packets |->
       IF i = staged[l].pkt THEN moved[i] + 1 ELSE moved[i]]
  /\ UNCHANGED <<posted, header, read_index, locals, pc, staged, done, skipped>>

-----------------------------------------------------------------------------
(* The controller.                                                         *)

hostAndDma == <<posted, moved, skipped>>

\* main: a packet at read_index; a barrier whose signals are there completes
FetchDispatch ==
  /\ pc = "main"
  /\ header[mymod(read_index)] = "AGENT_DISPATCH"
  /\ rd_idx' = read_index
  /\ last_slot' = 0
  /\ num_active_packets' = 1
  /\ packets_processed' = 0
  /\ pc' = "packet_op"
  /\ UNCHANGED <<hostAndDma, header, read_index, slot, retry, staged, done, outstanding>>

FetchBarrier ==
  /\ pc = "main"
  /\ header[mymod(read_index)] = "BARRIER"
  /\ done' = done \cup {InSlot(mymod(read_index))}
  /\ header' = [header EXCEPT ![mymod(read_index)] = "INVALID"]
  /\ read_index' = mymod(read_index + 1)
  /\ UNCHANGED <<hostAndDma, locals, pc, staged, outstanding>>

\* complete_agent_dispatch_packet
Complete(i) ==
  /\ done' = done \cup {i}
  /\ header' = [header EXCEPT ![mymod(i)] = "INVALID"]
  /\ packets_processed' = packets_processed + 1

\* every type but ND_MEMCPY, and an ND copy that cannot be staged
HandleAtOnce ==
  /\ pc = "packet_op"
  /\ \/ posted[pkt].kind = "OP"
     \/ posted[pkt].kind = "BAD" /\ ~staged[posted[pkt].lane].valid
  /\ Complete(pkt)
  /\ pc' = "loop"
  /\ UNCHANGED <<hostAndDma, read_index, rd_idx, last_slot, slot,
                 num_active_packets, retry, staged, outstanding>>

\* stage_packet_nd_memcpy returns 2: "slot busy, retry"
LaneBusy ==
  /\ pc = "packet_op"
  /\ posted[pkt].kind \in {"ND", "BAD"}
  /\ staged[posted[pkt].lane].valid
  /\ skipped' = TRUE
  /\ pc' = "loop"
  /\ UNCHANGED <<posted, moved, header, read_index, locals, staged, done, outstanding>>

StagePacket ==
  /\ pc = "packet_op"
  /\ posted[pkt].kind = "ND"
  /\ LET l == posted[pkt].lane IN
       /\ ~staged[l].valid
       /\ staged' = [staged EXCEPT ![l] =
            [valid |-> TRUE, pkt |-> pkt, left |-> Descriptors]]
       /\ last_slot' = l
       /\ slot' = l
  /\ retry' = FALSE
  /\ pc' = "memcpy"
  /\ UNCHANGED <<hostAndDma, header, read_index, rd_idx, num_active_packets,
                 packets_processed, done, outstanding>>

\* xaie_shim_dma_push_bd, once the channel is not stalled
PushDescriptor ==
  /\ pc = "memcpy"
  /\ staged[slot].left > 0
  /\ outstanding[slot] < Stall
  /\ outstanding' = [outstanding EXCEPT ![slot] = @ + 1]
  /\ staged' = [staged EXCEPT ![slot].left = @ - 1]
  /\ UNCHANGED <<hostAndDma, header, read_index, locals, pc, done>>

\* A copy left unfinished counts as active, once.
activated == IF retry THEN num_active_packets ELSE num_active_packets + 1

\* do_packet_nd_memcpy returns 1: stalled, or idle timed out
CopyUnfinished ==
  /\ pc = "memcpy"
  /\ \/ staged[slot].left > 0 /\ outstanding[slot] >= Stall
     \/ staged[slot].left = 0 /\ outstanding[slot] > 0
  /\ num_active_packets' = activated
  /\ pc' = "loop"
  /\ UNCHANGED <<hostAndDma, header, read_index, rd_idx, last_slot, slot,
                 packets_processed, retry, staged, done, outstanding>>

\* xaie_shim_dma_wait_idle succeeds, do_packet_nd_memcpy returns 0
idleMutant == staged[slot].left = 0 \* mutant: it does not wait for the DMA
idle == staged[slot].left = 0 /\ outstanding[slot] = 0

releasedMutant == staged \* mutant: valid is not cleared
released == [staged EXCEPT ![slot].valid = FALSE]

\* found at the first try or in the round robin; complete_agent_dispatch_packet is given pkt or
\* staged_nd_slot[slot].pkt
CopyDone ==
  /\ pc = "memcpy"
  /\ idle
  /\ Complete(staged[slot].pkt)
  /\ staged' = released
  /\ num_active_packets' = IF retry THEN num_active_packets - 1 ELSE num_active_packets
  /\ pc' = "loop"
  /\ UNCHANGED <<hostAndDma, read_index, rd_idx, last_slot, slot, retry, outstanding>>

\* while (num_active_packets > 1)
Loop ==
  /\ pc = "loop"
  /\ num_active_packets > 1
  /\ slot' = last_slot
  /\ pc' = "scan"
  /\ UNCHANGED <<hostAndDma, header, read_index, rd_idx, last_slot,
                 num_active_packets, packets_processed, retry, staged, done, outstanding>>

\* one lane of the round robin; the lane we come from is not looked at
Scan ==
  /\ pc = "scan"
  /\ slot' = next(slot)
  /\ LET found == staged[slot'].valid /\ outstanding[slot'] < Stall IN
       IF slot' = last_slot
       THEN pc' = "peek" /\ UNCHANGED <<last_slot, retry>>
       ELSE IF found
       THEN pc' = "memcpy" /\ last_slot' = slot' /\ retry' = TRUE
       ELSE pc' = "scan" /\ UNCHANGED <<last_slot, retry>>
  /\ UNCHANGED <<hostAndDma, header, read_index, rd_idx, num_active_packets,
                 packets_processed, staged, done, outstanding>>

\* "TRICKY weird state where we didn't find a new packet but RR won't let us
\* retry. So advance last_slot."
resumeFromMutant == slot \* mutant: last_slot is left alone
resumeFrom == next(slot)

Peek ==
  /\ pc = "peek"
  /\ IF header[mymod(rd_idx + 1)] = "AGENT_DISPATCH"
     THEN rd_idx' = rd_idx + 1 /\ pc' = "packet_op" /\ UNCHANGED last_slot
     ELSE last_slot' = resumeFrom /\ pc' = "loop" /\ UNCHANGED rd_idx
  /\ UNCHANGED <<hostAndDma, header, read_index, slot, num_active_packets,
                 packets_processed, retry, staged, done, outstanding>>

passedMoreMutant == mymod(read_index + packets_processed + 1) \* mutant: one too far
passed == mymod(read_index + packets_processed)

Return ==
  /\ pc = "loop"
  /\ num_active_packets <= 1
  /\ read_index' = passed
  /\ pc' = "main"
  /\ UNCHANGED <<hostAndDma, header, locals, staged, done, outstanding>>

Controller ==
  \/ FetchDispatch
  \/ FetchBarrier
  \/ HandleAtOnce
  \/ LaneBusy
  \/ StagePacket
  \/ PushDescriptor
  \/ CopyUnfinished
  \/ CopyDone
  \/ Loop
  \/ Scan
  \/ Peek
  \/ Return

Next ==
  \/ \E p \in PacketKinds : Post(p)
  \/ \E l \in Lanes : Finish(l)
  \/ Controller

Spec == Init /\ [][Next]_vars

\* The controller loops forever and every DMA channel finishes what it was
\* given; nothing makes a client post.
FairSpec ==
  /\ Spec
  /\ WF_vars(Controller)
  /\ \A l \in Lanes : WF_vars(Finish(l))

-----------------------------------------------------------------------------
(* Properties. *)

\* Types of the ring, the staging slots and the handler's locals.
TypeOK ==
  /\ header \in [RingSlots -> {"INVALID", "AGENT_DISPATCH", "BARRIER"}]
  /\ read_index \in RingSlots
  /\ last_slot \in Lanes /\ slot \in Lanes
  /\ num_active_packets \in 1 .. max_slot + 2
  /\ packets_processed \in 0 .. MaxPackets
  /\ done \subseteq Packets
  /\ outstanding \in [Lanes -> 0 .. Stall]
  /\ skipped \in BOOLEAN


\* No copy is staged on two lanes, and none is resumed after it completed or
\* after its ring slot went to another packet.
StagedIsLive ==
  \A l \in Lanes : staged[l].valid =>
    /\ staged[l].pkt \notin done
    /\ header[mymod(staged[l].pkt)] = "AGENT_DISPATCH"
    /\ posted[staged[l].pkt] = [kind |-> "ND", lane |-> l]

\* A copy's completion signal is only sent after all of its descriptors were
\* executed by the DMA.
CompleteMeansMoved ==
  \A i \in done : posted[i].kind = "ND" => moved[i] = Descriptors

\* The packets before a barrier packet are complete when it is passed, unless
\* a copy found its lane busy.
BarrierOrders ==
  ~skipped => \A i \in done :
    posted[i].kind = "BARRIER" => \A j \in 0 .. i - 1 : j \in done

\* Outside the handler, the read index separates complete packets from
\* incomplete ones: advancing it by a count lost none.
ReadIndexExact ==
  ~skipped /\ pc = "main" => /\ \A i \in Packets : i < oldest <=> i \in done
                             /\ read_index = mymod(oldest)

\* Every packet posted is eventually completed, whatever stalls, as long as no
\* copy finds its lane busy.
CompletesUnlessSkipped ==
  \A i \in 0 .. MaxPackets - 1 : (i \in Packets) ~> (i \in done \/ skipped)
=============================================================================
