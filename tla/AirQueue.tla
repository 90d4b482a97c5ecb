------------------------------ MODULE AirQueue ------------------------------
(***************************************************************************)
(* The HSA-style packet queue between the host (airhost/queue.cpp,         *)
(* airhost/include/air_queue.h) and one controller (controller/main.cpp).  *)
(* Both sides reach the same memory, and every write below is one store    *)
(* of the code: the two processes interleave between any two of them.      *)
(* The only synchronisation is a packet's header, its completion signal    *)
(* and the doorbell.                                                       *)
(***************************************************************************)
EXTENDS Integers, Sequences

CONSTANTS
  Size,       \* MB_QUEUE_SIZE, the slots of the ring
  MaxPackets, \* bound: packets the host posts in a behaviour
  Window,     \* packets a client leaves unacknowledged before it posts more
  SignalMod   \* stands for 2^64, where an unsigned signal wraps

ASSUME QueueAssumption ==
  /\ Size \in Nat \ {0}
  /\ MaxPackets \in Nat
  /\ Window \in Nat \ {0}
  /\ SignalMod \in Nat
  /\ SignalMod > 2

\* queue.cpp never checks for a full ring; it is the client that must not
\* have more packets in flight than the ring holds.
ASSUME WindowAssumption == Window <= Size

VARIABLES
  \* the ring
  header,        \* slot -> "INVALID" or "AGENT_DISPATCH"
  payload,       \* slot -> index of the packet whose type and args it holds
  signal,        \* slot -> completion_signal
  \* the queue_t
  write_index,
  read_index,
  doorbell,      \* -1 stands for the initial 2^64 - 1
  last_doorbell,
  \* the host thread
  hpc,
  wr_idx,        \* the local wr_idx: the packet the host works on
  pending,       \* dispatched packets the client has yet to wait for
  acked,         \* packets 0 .. acked-1 are known complete to the client
  \* the controller
  fpc,
  fetched,       \* the signal value read by signal->handle - value
  executed       \* history: payloads handled, in order

ring == <<header, payload, signal>>
hostVars == <<hpc, wr_idx, pending, acked, write_index>>
fwVars == <<fpc, fetched, executed, read_index, last_doorbell>>
vars == <<ring, doorbell, hostVars, fwVars>>

Slots == 0 .. Size - 1
Packets == 0 .. MaxPackets - 1
mymod(i) == i % Size
NoPayload == -1
HostPCs == {"idle", "again", "init", "fill", "publish", "signal",
            "clear", "ring", "wait"}
FwPCs == {"idle", "rung", "fetch", "handle", "invalidate", "load",
          "store", "advance"}

\* Packets whose header the host has published.
published ==
  IF hpc \in {"init", "fill", "publish"} THEN write_index - 1 ELSE write_index

-----------------------------------------------------------------------------
(* queue_create invalidates the headers and sets the indices; nothing sets *)
(* a completion_signal, which is whatever the memory held.                 *)
Init ==
  /\ header = [s \in Slots |-> "INVALID"]
  /\ payload = [s \in Slots |-> NoPayload]
  /\ signal \in [Slots -> 0 .. SignalMod - 1]
  /\ write_index = 0 /\ read_index = 0
  /\ doorbell = -1 /\ last_doorbell = 0
  /\ hpc = "idle" /\ wr_idx = 0 /\ pending = {} /\ acked = 0
  /\ fpc = "idle" /\ fetched = 0 /\ executed = <<>>

-----------------------------------------------------------------------------
(* The host. *)

MayReserve == write_index < MaxPackets /\ write_index - acked < Window

\* What initialize_packet stores in the header and signal_create in the signal.
initialHeaderMutant == "AGENT_DISPATCH" \* mutant: visible before it is filled
initialHeader == "INVALID"
createdSignalMutant == 0 \* mutant: the signal is not armed
createdSignal == 1

\* wr_idx = queue_add_write_index(q, 1)
Reserve ==
  /\ hpc \in {"idle", "again"}
  /\ MayReserve
  /\ wr_idx' = write_index
  /\ write_index' = write_index + 1
  /\ hpc' = "init"
  /\ UNCHANGED <<ring, doorbell, pending, acked, fwVars>>

\* initialize_packet
InitializePacket ==
  /\ hpc = "init"
  /\ header' = [header EXCEPT ![mymod(wr_idx)] = initialHeader]
  /\ hpc' = "fill"
  /\ UNCHANGED <<payload, signal, doorbell, wr_idx, pending, acked,
                 write_index, fwVars>>

\* the args and the type of an air_packet_* function
FillPacket ==
  /\ hpc = "fill"
  /\ payload' = [payload EXCEPT ![mymod(wr_idx)] = wr_idx]
  /\ hpc' = "publish"
  /\ UNCHANGED <<header, signal, doorbell, wr_idx, pending, acked,
                 write_index, fwVars>>

\* The header makes the packet visible to the controller. air_partition_load
\* posts its device_init packet without dispatching it and goes straight on
\* to post another; every other caller dispatches.
PublishPacket ==
  /\ hpc = "publish"
  /\ header' = [header EXCEPT ![mymod(wr_idx)] = "AGENT_DISPATCH"]
  /\ \/ hpc' = "signal"
     \/ MayReserve /\ hpc' = "again"
  /\ UNCHANGED <<payload, signal, doorbell, wr_idx, pending, acked,
                 write_index, fwVars>>

\* signal_create(1, ...) on the completion signal, only now
CreateSignal ==
  /\ hpc = "signal"
  /\ signal' = [signal EXCEPT ![mymod(wr_idx)] = createdSignal]
  /\ pending' = pending \cup {wr_idx}
  /\ hpc' = "clear"
  /\ UNCHANGED <<header, payload, doorbell, wr_idx, acked, write_index, fwVars>>

\* signal_create(0, ...) on the doorbell
ClearDoorbell ==
  /\ hpc = "clear"
  /\ doorbell' = 0
  /\ hpc' = "ring"
  /\ UNCHANGED <<ring, wr_idx, pending, acked, write_index, fwVars>>

\* signal_store_release; air_queue_dispatch returns, air_queue_dispatch_and_wait
\* goes on to wait
RingDoorbell ==
  /\ hpc = "ring"
  /\ doorbell' = wr_idx
  /\ hpc' \in {"idle", "wait"}
  /\ UNCHANGED <<ring, wr_idx, pending, acked, write_index, fwVars>>

\* air_queue_wait on a packet dispatched earlier
StartWait(i) ==
  /\ hpc = "idle"
  /\ i \in pending
  /\ wr_idx' = i
  /\ hpc' = "wait"
  /\ UNCHANGED <<ring, doorbell, pending, acked, write_index, fwVars>>

\* signal_wait_acquire returns 0: only that value ends the loop
WaitReturns ==
  /\ hpc = "wait"
  /\ signal[mymod(wr_idx)] = 0
  /\ acked' = wr_idx + 1
  /\ pending' = {i \in pending : i > wr_idx}
  /\ hpc' = "idle"
  /\ UNCHANGED <<ring, doorbell, wr_idx, write_index, fwVars>>

\* Everything the host does once it has begun a call.
HostStep ==
  \/ hpc = "again" /\ Reserve
  \/ InitializePacket
  \/ FillPacket
  \/ PublishPacket
  \/ CreateSignal
  \/ ClearDoorbell
  \/ RingDoorbell
  \/ WaitReturns

-----------------------------------------------------------------------------
(* The controller: main() and, for a packet done in one go,               *)
(* handle_agent_dispatch_packet and complete_agent_dispatch_packet.        *)

fwUnchanged == <<payload, doorbell, hostVars>>

rungMutant == doorbell > last_doorbell \* mutant: the + 1 is dropped
rung == doorbell + 1 > last_doorbell

nextReadIndexMutant == read_index + 1 \* mutant: mymod is dropped
nextReadIndex == mymod(read_index + 1)

\* mutant: the packet is completed before its header is cleared
afterMutant == [handle |-> "load", load |-> "store", store |-> "invalidate",
                invalidate |-> "advance"]
after == [handle |-> "invalidate", invalidate |-> "load", load |-> "store",
          store |-> "advance"]

CheckDoorbell ==
  /\ fpc = "idle"
  /\ rung
  /\ fpc' = "rung"
  /\ UNCHANGED <<fwUnchanged, header, signal, fetched, executed, read_index,
                 last_doorbell>>

\* the doorbell is read a second time
RecordDoorbell ==
  /\ fpc = "rung"
  /\ last_doorbell' = doorbell + 1
  /\ fpc' = "fetch"
  /\ UNCHANGED <<fwUnchanged, header, signal, fetched, executed, read_index>>

FetchHeader ==
  /\ fpc = "fetch"
  /\ fpc' = IF header[mymod(read_index)] = "INVALID" THEN "idle" ELSE "handle"
  /\ UNCHANGED <<fwUnchanged, header, signal, fetched, executed, read_index,
                 last_doorbell>>

HandlePacket ==
  /\ fpc = "handle"
  /\ executed' = Append(executed, payload[mymod(read_index)])
  /\ fpc' = after.handle
  /\ UNCHANGED <<fwUnchanged, header, signal, fetched, read_index, last_doorbell>>

InvalidateHeader ==
  /\ fpc = "invalidate"
  /\ header' = [header EXCEPT ![mymod(read_index)] = "INVALID"]
  /\ fpc' = after.invalidate
  /\ UNCHANGED <<fwUnchanged, signal, fetched, executed, read_index, last_doorbell>>

\* signal->handle = signal->handle - value is a load and a store
LoadSignal ==
  /\ fpc = "load"
  /\ fetched' = signal[mymod(read_index)]
  /\ fpc' = after.load
  /\ UNCHANGED <<fwUnchanged, header, signal, executed, read_index, last_doorbell>>

StoreSignal ==
  /\ fpc = "store"
  /\ signal' = [signal EXCEPT ![mymod(read_index)] =
                  IF fetched = 0 THEN SignalMod - 1 ELSE fetched - 1]
  /\ fpc' = after.store
  /\ UNCHANGED <<fwUnchanged, header, fetched, executed, read_index, last_doorbell>>

AdvanceReadIndex ==
  /\ fpc = "advance"
  /\ read_index' = nextReadIndex
  /\ fpc' = "fetch"
  /\ UNCHANGED <<fwUnchanged, header, signal, fetched, executed, last_doorbell>>

FwStep ==
  \/ CheckDoorbell
  \/ RecordDoorbell
  \/ FetchHeader
  \/ HandlePacket
  \/ InvalidateHeader
  \/ LoadSignal
  \/ StoreSignal
  \/ AdvanceReadIndex

-----------------------------------------------------------------------------
Next ==
  \/ Reserve
  \/ InitializePacket
  \/ FillPacket
  \/ PublishPacket
  \/ CreateSignal
  \/ ClearDoorbell
  \/ RingDoorbell
  \/ \E i \in Packets : StartWait(i)
  \/ WaitReturns
  \/ FwStep

Spec == Init /\ [][Next]_vars

\* The controller loops forever and a host call, once begun, keeps running;
\* nothing makes a client begin another call.
FairSpec == Spec /\ WF_vars(FwStep) /\ WF_vars(HostStep)

-----------------------------------------------------------------------------
(* Properties. *)

\* Types of the ring, of queue_t and of the local state of the two loops.
TypeOK ==
  /\ header \in [Slots -> {"INVALID", "AGENT_DISPATCH"}]
  /\ payload \in [Slots -> Packets \cup {NoPayload}]
  /\ signal \in [Slots -> 0 .. SignalMod - 1]
  /\ write_index \in 0 .. MaxPackets
  /\ read_index \in Slots
  /\ doorbell \in Packets \cup {-1, 0}
  /\ last_doorbell \in 0 .. MaxPackets \cup {1}
  /\ hpc \in HostPCs
  /\ wr_idx \in Packets \cup {0}
  /\ pending \subseteq Packets
  /\ acked \in 0 .. MaxPackets
  /\ fpc \in FwPCs
  /\ fetched \in 0 .. SignalMod - 1
  /\ executed \in Seq(Packets \cup {NoPayload})

\* Packets the controller has finished with: handled, header cleared and
\* signal written.
completed ==
  IF fpc \in {"invalidate", "load", "store"} THEN Len(executed) - 1
  ELSE Len(executed)

\* Each packet is handled exactly once, in the order of its wr_idx and never
\* half written, although the ring's slots are reused and the doorbell says
\* nothing about how many packets were posted.
InOrderOnce == \A k \in 1 .. Len(executed) : executed[k] = k - 1

\* A wait only returns for a packet the controller has completed, with every
\* packet posted before it: a signal left over from the slot's earlier packet
\* is never taken for this one's.
WaitIsSound == acked <= completed

\* The host only rewrites a slot when the controller is done with the packet
\* that was in it: neither about to handle it nor about to clear its header.
NoOverwrite ==
  hpc \in {"init", "fill", "publish"} =>
    /\ header[mymod(wr_idx)] = "INVALID"
    /\ ~ ( /\ fpc \in {"handle", "invalidate", "load", "store"}
           /\ read_index = mymod(wr_idx) )

\* No lost wake-up: whatever the two stores to the doorbell and the two loads
\* of it interleave with, a packet that was published gets handled.
EveryPacketHandled ==
  \A i \in Packets : (published > i) ~> (Len(executed) > i)

\* "wait for packet completion": a host thread that waits gets an answer.
WaitReturnsEventually == (hpc = "wait") ~> (hpc # "wait")

\* The queue is a FIFO with in-order completion.
Fifo == INSTANCE PacketFifo WITH posted <- published, performed <- executed

RefinesFifo == Fifo!FifoSpec
=============================================================================
