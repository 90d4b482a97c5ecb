--------------------------- MODULE AirQueueProofs ---------------------------
(***************************************************************************)
(* Proofs about AirQueue, for every ring size, every number of packets and *)
(* every initial content of the completion signals.                        *)
(***************************************************************************)
EXTENDS AirQueue, IndexLemmas, TLAPS

\* The oldest packet whose header is still set.
oldest == IF fpc = "invalidate" THEN Len(executed) - 1 ELSE Len(executed)

\* Acknowledged, completed, executed, published and reserved packets are
\* prefixes of one another, and no more than the ring holds are in flight.
OrderInv ==
  /\ acked <= completed
  /\ completed <= Len(executed)
  /\ Len(executed) <= published
  /\ write_index <= acked + Size
  /\ fpc = "handle" => Len(executed) < published
  /\ fpc \in {"invalidate", "load", "store", "advance"} => Len(executed) >= 1

\* The controller's index names the packet it works on.
IndexInv ==
  read_index = mymod(IF fpc = "advance" THEN completed - 1 ELSE completed)

\* A packet published and not yet handled is intact in its slot.
LiveInv ==
  \A i \in Packets : oldest <= i /\ i < published =>
    /\ header[mymod(i)] = "AGENT_DISPATCH"
    /\ payload[mymod(i)] = i

\* No other slot looks like a packet.
FreeInv ==
  \A s \in Slots : header[s] = "AGENT_DISPATCH" =>
    \E i \in Packets : oldest <= i /\ i < published /\ mymod(i) = s

\* What the host's position in a call says of its locals.
HostInv ==
  /\ hpc \in {"init", "fill", "publish", "signal", "clear", "ring", "again"} =>
       wr_idx = write_index - 1 /\ write_index >= 1 /\ acked <= wr_idx
  /\ hpc = "publish" => payload[mymod(wr_idx)] = wr_idx
  /\ hpc \in {"clear", "ring", "wait"} => wr_idx \in pending

\* A zero signal of a packet the client may wait for means completion.
PendingInv ==
  \A i \in pending :
    /\ acked <= i /\ i < published
    /\ signal[mymod(i)] = 0 => i < completed

IInv ==
  /\ TypeOK
  /\ InOrderOnce
  /\ OrderInv
  /\ IndexInv
  /\ LiveInv
  /\ FreeInv
  /\ HostInv
  /\ PendingInv

-----------------------------------------------------------------------------
\* The ring arithmetic, for Size.
LEMMA SlotFacts ==
  /\ \A i \in Nat : mymod(i) \in Slots
  /\ \A i, j \in Nat : i - j < Size /\ j - i < Size /\ mymod(i) = mymod(j) => i = j
  /\ \A s \in Slots : s \in Nat /\ mymod(s) = s
  /\ \A i \in Nat : mymod(mymod(i) + 1) = mymod(i + 1)
<1> USE QueueAssumption DEF mymod, Slots
<1>1. \A i \in Nat : mymod(i) \in Slots
  BY DivMod
<1>2. \A i, j \in Nat : i - j < Size /\ j - i < Size /\ mymod(i) = mymod(j) => i = j
  BY SameSlotSameIndex
<1>3. \A s \in Slots : s \in Nat /\ mymod(s) = s
  BY SlotOfSlot
<1>4. \A i \in Nat : mymod(mymod(i) + 1) = mymod(i + 1)
  BY SlotSuccessor
<1> QED BY <1>1, <1>2, <1>3, <1>4

\* Every invariant holds of a fresh queue, whatever its signals hold.
LEMMA InitInv == Init => IInv
<1> SUFFICES ASSUME Init PROVE IInv
  OBVIOUS
<1> USE QueueAssumption DEF Init
<1>1. TypeOK
  BY DEF TypeOK, Slots, Packets, HostPCs, FwPCs
<1>2. Len(executed) = 0 /\ completed = 0 /\ oldest = 0 /\ published = 0
  BY DEF completed, published, oldest
<1>4. OrderInv
  BY <1>2 DEF OrderInv
<1>5. LiveInv /\ HostInv /\ PendingInv
  BY <1>2 DEF LiveInv, HostInv, PendingInv, Packets
<1>6. FreeInv
  BY DEF FreeInv
<1>7. InOrderOnce
  BY <1>2 DEF InOrderOnce
<1>3. IndexInv
  BY <1>2, SlotFacts DEF IndexInv, Slots
<1> QED BY <1>1, <1>3, <1>4, <1>5, <1>6, <1>7 DEF IInv

\* The indices the invariants speak of are integers.
LEMMA IndexTypes ==
  ASSUME TypeOK, OrderInv
  PROVE  /\ acked \in Nat /\ write_index \in Nat /\ Len(executed) \in Nat
         /\ completed \in Nat /\ oldest \in Nat /\ published \in Nat
         /\ completed <= oldest
BY QueueAssumption DEF TypeOK, OrderInv, completed, oldest, published

\* Two packets that may share the ring have different slots.
LEMMA InFlightSlots ==
  ASSUME TypeOK, OrderInv, NEW i \in Nat, NEW j \in Nat,
         acked <= i, i < write_index, acked <= j, j < write_index,
         mymod(i) = mymod(j)
  PROVE  i = j
<1>1. i - j < Size /\ j - i < Size
  BY IndexTypes, QueueAssumption DEF OrderInv
<1> QED BY <1>1, SlotFacts

\* A host in the middle of a call works on a packet of the behaviour.
LEMMA ReservedIsPacket ==
  ASSUME TypeOK, HostInv, hpc \notin {"idle", "again"}
  PROVE  wr_idx \in Packets /\ wr_idx \in Nat /\ mymod(wr_idx) \in Slots
<1>1. wr_idx \in Packets
  BY QueueAssumption DEF TypeOK, HostInv, Packets, HostPCs
<1>2. wr_idx \in Nat
  BY <1>1, QueueAssumption DEF Packets
<1> QED BY <1>1, <1>2, SlotFacts

-----------------------------------------------------------------------------
(* The steps of the host. *)

LEMMA ReserveInv == IInv /\ Reserve => IInv'
<1> SUFFICES ASSUME IInv, Reserve PROVE IInv'
  OBVIOUS
<1> USE DEF IInv, Reserve, ring, fwVars
<1>0. /\ completed' = completed /\ oldest' = oldest /\ published' = published
      /\ published = write_index
  BY QueueAssumption DEF completed, oldest, published, TypeOK
<1>1. TypeOK'
  BY QueueAssumption DEF TypeOK, MayReserve, Packets, HostPCs
<1>2. OrderInv'
  BY <1>0, IndexTypes, QueueAssumption, WindowAssumption DEF OrderInv, MayReserve
<1>3. InOrderOnce' /\ IndexInv' /\ LiveInv' /\ FreeInv' /\ PendingInv'
  BY <1>0 DEF InOrderOnce, IndexInv, LiveInv, FreeInv, PendingInv
<1>4. HostInv'
  BY <1>0, IndexTypes DEF HostInv, OrderInv
<1> QED BY <1>1, <1>2, <1>3, <1>4

LEMMA InitializePacketInv == IInv /\ InitializePacket => IInv'
<1> SUFFICES ASSUME IInv, InitializePacket PROVE IInv'
  OBVIOUS
<1> USE DEF IInv, InitializePacket, initialHeader, fwVars
<1>0. /\ completed' = completed /\ oldest' = oldest /\ published' = published
      /\ published = wr_idx /\ wr_idx = write_index - 1
  BY DEF completed, oldest, published, HostInv
<1>a. wr_idx \in Packets /\ wr_idx \in Nat /\ mymod(wr_idx) \in Slots
  BY ReservedIsPacket
<1>1. TypeOK'
  BY <1>a DEF TypeOK, HostPCs
<1>2. OrderInv'
  BY <1>0 DEF OrderInv
<1>3. LiveInv'
  <2> SUFFICES ASSUME NEW i \in Packets, oldest <= i, i < published
               PROVE  /\ header'[mymod(i)] = "AGENT_DISPATCH"
                      /\ payload[mymod(i)] = i
    BY <1>0 DEF LiveInv
  <2>1. mymod(i) # mymod(wr_idx)
    BY <1>0, <1>a, IndexTypes, InFlightSlots DEF OrderInv, Packets
  <2>2. mymod(i) \in Slots
    BY SlotFacts DEF Packets
  <2> QED BY <2>1, <2>2 DEF LiveInv, TypeOK
<1>4. FreeInv'
  BY <1>0, <1>a DEF FreeInv, TypeOK
<1>5. InOrderOnce' /\ IndexInv' /\ PendingInv' /\ HostInv'
  BY <1>0 DEF InOrderOnce, IndexInv, PendingInv, HostInv
<1> QED BY <1>1, <1>2, <1>3, <1>4, <1>5

LEMMA FillPacketInv == IInv /\ FillPacket => IInv'
<1> SUFFICES ASSUME IInv, FillPacket PROVE IInv'
  OBVIOUS
<1> USE DEF IInv, FillPacket, fwVars
<1>0. /\ completed' = completed /\ oldest' = oldest /\ published' = published
      /\ published = wr_idx /\ wr_idx = write_index - 1
  BY DEF completed, oldest, published, HostInv
<1>a. wr_idx \in Packets /\ wr_idx \in Nat /\ mymod(wr_idx) \in Slots
  BY ReservedIsPacket
<1>1. TypeOK'
  BY <1>a DEF TypeOK, HostPCs
<1>2. OrderInv'
  BY <1>0 DEF OrderInv
<1>3. LiveInv'
  <2> SUFFICES ASSUME NEW i \in Packets, oldest <= i, i < published
               PROVE  /\ header[mymod(i)] = "AGENT_DISPATCH"
                      /\ payload'[mymod(i)] = i
    BY <1>0 DEF LiveInv
  <2>1. mymod(i) # mymod(wr_idx)
    BY <1>0, <1>a, IndexTypes, InFlightSlots DEF OrderInv, Packets
  <2>2. mymod(i) \in Slots
    BY SlotFacts DEF Packets
  <2> QED BY <2>1, <2>2 DEF LiveInv, TypeOK
<1>4. InOrderOnce' /\ IndexInv' /\ PendingInv' /\ FreeInv'
  BY <1>0 DEF InOrderOnce, IndexInv, PendingInv, FreeInv
<1>5. HostInv'
  BY <1>a DEF HostInv, TypeOK
<1> QED BY <1>1, <1>2, <1>3, <1>4, <1>5

LEMMA PublishPacketInv == IInv /\ PublishPacket => IInv'
<1> SUFFICES ASSUME IInv, PublishPacket PROVE IInv'
  OBVIOUS
<1> USE DEF IInv, PublishPacket, fwVars
<1>0. /\ completed' = completed /\ oldest' = oldest
      /\ published' = wr_idx + 1 /\ published = wr_idx /\ wr_idx = write_index - 1
  BY QueueAssumption DEF completed, oldest, published, HostInv, TypeOK
<1>a. wr_idx \in Packets /\ wr_idx \in Nat /\ mymod(wr_idx) \in Slots
  BY ReservedIsPacket
<1>1. TypeOK'
  BY <1>a DEF TypeOK, HostPCs
<1>2. OrderInv'
  BY <1>0, IndexTypes DEF OrderInv
<1>3. LiveInv'
  <2> SUFFICES ASSUME NEW i \in Packets, oldest <= i, i < wr_idx + 1
               PROVE  /\ header'[mymod(i)] = "AGENT_DISPATCH"
                      /\ payload[mymod(i)] = i
    BY <1>0 DEF LiveInv
  <2>1. CASE i = wr_idx
    BY <2>1, <1>a DEF HostInv, TypeOK
  <2>2. CASE i < wr_idx
    <3>1. mymod(i) \in Slots
      BY SlotFacts DEF Packets
    <3> QED BY <2>2, <3>1, <1>0, <1>a DEF LiveInv, TypeOK
  <2> QED BY <1>a, <2>1, <2>2 DEF Packets
<1>4. FreeInv'
  <2> SUFFICES ASSUME NEW s \in Slots, header'[s] = "AGENT_DISPATCH"
               PROVE  \E i \in Packets : oldest <= i /\ i < wr_idx + 1 /\ mymod(i) = s
    BY <1>0 DEF FreeInv
  <2>1. CASE s = mymod(wr_idx)
    <3>1. oldest <= wr_idx
      BY <1>0, IndexTypes DEF OrderInv, oldest
    <3> QED BY <2>1, <3>1, <1>a
  <2>2. CASE s # mymod(wr_idx)
    <3>1. header[s] = "AGENT_DISPATCH"
      BY <2>2, <1>a DEF TypeOK
    <3>2. PICK i \in Packets : oldest <= i /\ i < wr_idx /\ mymod(i) = s
      BY <3>1, <1>0 DEF FreeInv
    <3> QED BY <3>2, <1>a DEF Packets
  <2> QED BY <2>1, <2>2
<1>5. InOrderOnce' /\ IndexInv'
  BY <1>0 DEF InOrderOnce, IndexInv
<1>6. PendingInv'
  <2> SUFFICES ASSUME NEW i \in pending
               PROVE  /\ acked <= i /\ i < wr_idx + 1
                      /\ signal[mymod(i)] = 0 => i < completed
    BY <1>0 DEF PendingInv
  <2> QED BY <1>0, <1>a DEF PendingInv, TypeOK, Packets
<1>7. HostInv'
  BY <1>0 DEF HostInv
<1> QED BY <1>1, <1>2, <1>3, <1>4, <1>5, <1>6, <1>7

LEMMA CreateSignalInv == IInv /\ CreateSignal => IInv'
<1> SUFFICES ASSUME IInv, CreateSignal PROVE IInv'
  OBVIOUS
<1> USE DEF IInv, CreateSignal, createdSignal, fwVars
<1>0. /\ completed' = completed /\ oldest' = oldest /\ published' = published
      /\ published = wr_idx + 1 /\ wr_idx = write_index - 1
  BY QueueAssumption DEF completed, oldest, published, HostInv, TypeOK
<1>a. wr_idx \in Packets /\ wr_idx \in Nat /\ mymod(wr_idx) \in Slots
  BY ReservedIsPacket
<1>1. TypeOK'
  BY <1>a, QueueAssumption DEF TypeOK, HostPCs
<1>2. InOrderOnce' /\ OrderInv' /\ IndexInv' /\ LiveInv' /\ FreeInv'
  BY <1>0 DEF InOrderOnce, OrderInv, IndexInv, LiveInv, FreeInv
<1>3. PendingInv'
  <2> SUFFICES ASSUME NEW i \in pending \cup {wr_idx}
               PROVE  /\ acked <= i /\ i < published
                      /\ signal'[mymod(i)] = 0 => i < completed
    BY <1>0 DEF PendingInv
  <2>1. CASE i = wr_idx
    <3>1. signal'[mymod(i)] = 1
      BY <2>1, <1>a DEF TypeOK
    <3>2. acked <= i /\ i < published
      BY <2>1, <1>0, <1>a DEF HostInv
    <3> QED BY <3>1, <3>2
  <2>2. CASE i \in pending
    <3>1. mymod(i) \in Slots
      BY <2>2, SlotFacts DEF TypeOK, Packets
    <3> QED BY <2>2, <3>1, <1>a DEF PendingInv, TypeOK
  <2> QED BY <2>1, <2>2
<1>4. HostInv'
  BY <1>0 DEF HostInv
<1> QED BY <1>1, <1>2, <1>3, <1>4

LEMMA ClearDoorbellInv == IInv /\ ClearDoorbell => IInv'
<1> SUFFICES ASSUME IInv, ClearDoorbell PROVE IInv'
  OBVIOUS
<1> USE DEF IInv, ClearDoorbell, ring, fwVars
<1>0. completed' = completed /\ oldest' = oldest /\ published' = published
  BY DEF completed, oldest, published
<1>1. TypeOK'
  BY DEF TypeOK, HostPCs
<1>2. InOrderOnce' /\ OrderInv' /\ IndexInv' /\ LiveInv' /\ FreeInv' /\ PendingInv'
  BY <1>0 DEF InOrderOnce, OrderInv, IndexInv, LiveInv, FreeInv, PendingInv
<1>3. HostInv'
  BY DEF HostInv
<1> QED BY <1>1, <1>2, <1>3

LEMMA RingDoorbellInv == IInv /\ RingDoorbell => IInv'
<1> SUFFICES ASSUME IInv, RingDoorbell PROVE IInv'
  OBVIOUS
<1> USE DEF IInv, RingDoorbell, ring, fwVars
<1>0. completed' = completed /\ oldest' = oldest /\ published' = published
  BY DEF completed, oldest, published
<1>1. TypeOK'
  BY DEF TypeOK, HostPCs
<1>2. InOrderOnce' /\ OrderInv' /\ IndexInv' /\ LiveInv' /\ FreeInv' /\ PendingInv'
  BY <1>0 DEF InOrderOnce, OrderInv, IndexInv, LiveInv, FreeInv, PendingInv
<1>3. HostInv'
  BY DEF HostInv
<1> QED BY <1>1, <1>2, <1>3

LEMMA StartWaitInv == ASSUME NEW k \in Packets PROVE IInv /\ StartWait(k) => IInv'
<1> SUFFICES ASSUME IInv, StartWait(k) PROVE IInv'
  OBVIOUS
<1> USE DEF IInv, StartWait, ring, fwVars
<1>0. completed' = completed /\ oldest' = oldest /\ published' = published
  BY DEF completed, oldest, published
<1>1. TypeOK'
  BY DEF TypeOK, HostPCs
<1>2. InOrderOnce' /\ OrderInv' /\ IndexInv' /\ LiveInv' /\ FreeInv' /\ PendingInv'
  BY <1>0 DEF InOrderOnce, OrderInv, IndexInv, LiveInv, FreeInv, PendingInv
<1>3. HostInv'
  BY DEF HostInv
<1> QED BY <1>1, <1>2, <1>3

LEMMA WaitReturnsInv == IInv /\ WaitReturns => IInv'
<1> SUFFICES ASSUME IInv, WaitReturns PROVE IInv'
  OBVIOUS
<1> USE DEF IInv, WaitReturns, ring, fwVars
<1>0. completed' = completed /\ oldest' = oldest /\ published' = published
  BY DEF completed, oldest, published
<1>a. /\ wr_idx \in Packets /\ wr_idx \in Nat
      /\ acked <= wr_idx /\ wr_idx < completed /\ wr_idx + 1 <= MaxPackets
  BY ReservedIsPacket, QueueAssumption DEF HostInv, PendingInv, Packets
<1>b. acked' \in 0 .. MaxPackets /\ pending' \subseteq Packets
  <2>1. acked' = wr_idx + 1
    OBVIOUS
  <2>2. acked' \in 0 .. MaxPackets
    BY <1>a, <2>1, QueueAssumption
  <2>3. pending' \subseteq pending
    OBVIOUS
  <2> QED BY <2>2, <2>3 DEF TypeOK
<1>1. TypeOK'
  BY <1>b DEF TypeOK, HostPCs
<1>2. OrderInv'
  BY <1>0, <1>a, IndexTypes, QueueAssumption DEF OrderInv
<1>3. PendingInv'
  BY <1>0, <1>a, QueueAssumption DEF PendingInv, TypeOK, Packets
<1>4. InOrderOnce' /\ IndexInv' /\ LiveInv' /\ FreeInv' /\ HostInv'
  BY <1>0 DEF InOrderOnce, IndexInv, LiveInv, FreeInv, HostInv
<1> QED BY <1>1, <1>2, <1>3, <1>4

-----------------------------------------------------------------------------
(* The steps of the controller. *)

\* What the controller's read_index says of the packet it works on.
LEMMA ReadIndexFacts ==
  ASSUME IInv
  PROVE  /\ read_index \in Slots /\ mymod(read_index) = read_index
         /\ fpc # "advance" => read_index = mymod(completed)
         /\ fpc = "advance" => read_index = mymod(completed - 1)
         /\ fpc \in {"idle", "rung", "fetch", "handle", "advance"} =>
              completed = Len(executed) /\ oldest = Len(executed)
         /\ fpc = "invalidate" => oldest = completed
         /\ fpc \in {"load", "store"} => oldest = completed + 1
         /\ fpc \in {"invalidate", "load", "store"} =>
              completed = Len(executed) - 1
<1>1. read_index \in Slots /\ mymod(read_index) = read_index
  BY SlotFacts DEF IInv, TypeOK
<1>2. /\ fpc # "advance" => read_index = mymod(completed)
      /\ fpc = "advance" => read_index = mymod(completed - 1)
  BY DEF IInv, IndexInv
<1>3. Len(executed) \in Nat
  BY IndexTypes DEF IInv
<1>4. /\ fpc \in {"idle", "rung", "fetch", "handle", "advance"} =>
           completed = Len(executed) /\ oldest = Len(executed)
      /\ fpc = "invalidate" => oldest = completed
      /\ fpc \in {"load", "store"} => oldest = completed + 1
      /\ fpc \in {"invalidate", "load", "store"} => completed = Len(executed) - 1
  BY <1>3 DEF completed, oldest
<1> QED BY <1>1, <1>2, <1>4

LEMMA CheckDoorbellInv == IInv /\ CheckDoorbell => IInv'
<1> SUFFICES ASSUME IInv, CheckDoorbell PROVE IInv'
  OBVIOUS
<1> USE DEF IInv, CheckDoorbell, fwUnchanged, hostVars
<1>0. completed' = completed /\ oldest' = oldest /\ published' = published
  BY DEF completed, oldest, published
<1>1. TypeOK'
  BY DEF TypeOK, FwPCs
<1>2. OrderInv' /\ IndexInv'
  BY <1>0 DEF OrderInv, IndexInv
<1>3. InOrderOnce' /\ LiveInv' /\ FreeInv' /\ PendingInv' /\ HostInv'
  BY <1>0 DEF InOrderOnce, LiveInv, FreeInv, PendingInv, HostInv
<1> QED BY <1>1, <1>2, <1>3

LEMMA RecordDoorbellInv == IInv /\ RecordDoorbell => IInv'
<1> SUFFICES ASSUME IInv, RecordDoorbell PROVE IInv'
  OBVIOUS
<1> USE DEF IInv, RecordDoorbell, fwUnchanged, hostVars
<1>0. completed' = completed /\ oldest' = oldest /\ published' = published
  BY DEF completed, oldest, published
<1>a. last_doorbell' \in 0 .. MaxPackets \cup {1}
  BY QueueAssumption DEF TypeOK, Packets
<1>1. TypeOK'
  BY <1>a DEF TypeOK, FwPCs
<1>2. OrderInv' /\ IndexInv'
  BY <1>0 DEF OrderInv, IndexInv
<1>3. InOrderOnce' /\ LiveInv' /\ FreeInv' /\ PendingInv' /\ HostInv'
  BY <1>0 DEF InOrderOnce, LiveInv, FreeInv, PendingInv, HostInv
<1> QED BY <1>1, <1>2, <1>3

\* A header that is set in the controller's slot is the next packet's.
LEMMA FetchHeaderInv == IInv /\ FetchHeader => IInv'
<1> SUFFICES ASSUME IInv, FetchHeader PROVE IInv'
  OBVIOUS
<1> USE DEF IInv, FetchHeader, fwUnchanged, hostVars
<1>0. completed' = completed /\ oldest' = oldest /\ published' = published
  BY DEF completed, oldest, published
<1>1. TypeOK'
  BY DEF TypeOK, FwPCs
<1>2. header[mymod(read_index)] # "INVALID" => Len(executed) < published
  <2> SUFFICES ASSUME header[mymod(read_index)] # "INVALID"
               PROVE  Len(executed) < published
    OBVIOUS
  <2>1. header[read_index] = "AGENT_DISPATCH"
    BY ReadIndexFacts DEF TypeOK
  <2>2. PICK i \in Packets : oldest <= i /\ i < published
    BY <2>1, ReadIndexFacts DEF FreeInv
  <2> QED BY <2>2, ReadIndexFacts, IndexTypes DEF Packets
<1>3. OrderInv'
  BY <1>0, <1>2 DEF OrderInv
<1>4. IndexInv'
  BY <1>0 DEF IndexInv
<1>5. InOrderOnce' /\ LiveInv' /\ FreeInv' /\ PendingInv' /\ HostInv'
  BY <1>0 DEF InOrderOnce, LiveInv, FreeInv, PendingInv, HostInv
<1> QED BY <1>1, <1>3, <1>4, <1>5

\* A controller about to handle a packet has the oldest unhandled one.
LEMMA HandledIsNext ==
  ASSUME IInv, fpc = "handle"
  PROVE  /\ Len(executed) \in Packets /\ Len(executed) < published
         /\ completed = Len(executed) /\ oldest = Len(executed)
         /\ read_index = mymod(Len(executed))
         /\ mymod(read_index) = read_index
<1>1. Len(executed) < published /\ Len(executed) \in Nat
  BY IndexTypes DEF IInv, OrderInv
<1>2. published <= MaxPackets /\ published \in Nat
  BY IndexTypes, QueueAssumption DEF IInv, TypeOK, published
<1>3. Len(executed) \in Packets
  BY <1>1, <1>2, QueueAssumption DEF Packets
<1> QED BY <1>1, <1>3, ReadIndexFacts

\* The controller handles the packet it expects: its slot is intact.
LEMMA HandlePacketInv == IInv /\ HandlePacket => IInv'
<1> SUFFICES ASSUME IInv, HandlePacket PROVE IInv'
  OBVIOUS
<1> USE DEF IInv, HandlePacket, after, fwUnchanged, hostVars
<1> DEFINE n == Len(executed)
<1>a. /\ n \in Nat /\ n \in Packets /\ n < published
      /\ completed = n /\ oldest = n /\ read_index = mymod(n)
  BY HandledIsNext, IndexTypes
<1>b. payload[mymod(read_index)] = n
  BY <1>a, ReadIndexFacts DEF LiveInv
<1>c. /\ executed' \in Seq(Packets \cup {NoPayload})
      /\ Len(executed') = n + 1
      /\ \A k \in 1 .. n : executed'[k] = executed[k]
      /\ executed'[n + 1] = n
  BY <1>a, <1>b DEF TypeOK
<1> HIDE DEF n
<1>0. completed' = n /\ oldest' = n /\ published' = published
  BY <1>a, <1>c DEF completed, oldest, published
<1>1. TypeOK'
  BY <1>c DEF TypeOK, FwPCs
<1>2. InOrderOnce'
  BY <1>a, <1>c DEF InOrderOnce, n
<1>3. OrderInv'
  BY <1>0, <1>a, <1>c, IndexTypes DEF OrderInv, n
<1>4. IndexInv'
  BY <1>0, <1>a DEF IndexInv
<1>5. LiveInv' /\ FreeInv' /\ PendingInv' /\ HostInv'
  BY <1>0, <1>a DEF LiveInv, FreeInv, PendingInv, HostInv
<1> QED BY <1>1, <1>2, <1>3, <1>4, <1>5

LEMMA InvalidateHeaderInv == IInv /\ InvalidateHeader => IInv'
<1> SUFFICES ASSUME IInv, InvalidateHeader PROVE IInv'
  OBVIOUS
<1> USE DEF IInv, InvalidateHeader, after, fwUnchanged, hostVars
<1>a. /\ oldest = completed /\ read_index = mymod(completed)
      /\ completed = Len(executed) - 1 /\ Len(executed) \in Nat /\ completed \in Nat
      /\ read_index \in Slots /\ mymod(read_index) = read_index
  BY ReadIndexFacts, IndexTypes
<1>0. /\ completed' = completed /\ oldest' = completed + 1
      /\ published' = published /\ published <= write_index
  BY <1>a, IndexTypes DEF completed, oldest, published, TypeOK
<1>1. TypeOK'
  BY <1>a DEF TypeOK, FwPCs
<1>2. InOrderOnce' /\ OrderInv' /\ IndexInv' /\ PendingInv' /\ HostInv'
  BY <1>0 DEF InOrderOnce, OrderInv, IndexInv, PendingInv, HostInv
<1>3. LiveInv'
  <2> SUFFICES ASSUME NEW i \in Packets, completed + 1 <= i, i < published
               PROVE  /\ header'[mymod(i)] = "AGENT_DISPATCH"
                      /\ payload[mymod(i)] = i
    BY <1>0 DEF LiveInv
  <2>1. i \in Nat /\ mymod(i) \in Slots
    BY SlotFacts DEF Packets
  <2>2. mymod(i) # read_index
    BY <1>0, <1>a, <2>1, IndexTypes, InFlightSlots DEF OrderInv
  <2> QED BY <1>a, <2>1, <2>2 DEF LiveInv, TypeOK
<1>4. FreeInv'
  <2> SUFFICES ASSUME NEW s \in Slots, header'[s] = "AGENT_DISPATCH"
               PROVE  \E i \in Packets :
                        completed + 1 <= i /\ i < published /\ mymod(i) = s
    BY <1>0 DEF FreeInv
  <2>1. s # read_index /\ header[s] = "AGENT_DISPATCH"
    BY <1>a DEF TypeOK
  <2>2. PICK i \in Packets : completed <= i /\ i < published /\ mymod(i) = s
    BY <2>1, <1>a DEF FreeInv
  <2>3. i # completed
    BY <2>1, <2>2, <1>a
  <2> QED BY <2>2, <2>3, <1>a DEF Packets
<1> QED BY <1>1, <1>2, <1>3, <1>4

LEMMA LoadSignalInv == IInv /\ LoadSignal => IInv'
<1> SUFFICES ASSUME IInv, LoadSignal PROVE IInv'
  OBVIOUS
<1> USE DEF IInv, LoadSignal, after, fwUnchanged, hostVars
<1>0. completed' = completed /\ oldest' = oldest /\ published' = published
  BY DEF completed, oldest, published
<1>1. TypeOK'
  BY ReadIndexFacts DEF TypeOK, FwPCs
<1>2. OrderInv' /\ IndexInv'
  BY <1>0 DEF OrderInv, IndexInv
<1>3. InOrderOnce' /\ LiveInv' /\ FreeInv' /\ PendingInv' /\ HostInv'
  BY <1>0 DEF InOrderOnce, LiveInv, FreeInv, PendingInv, HostInv
<1> QED BY <1>1, <1>2, <1>3

\* Whatever value the controller loaded, only the signal of the packet it
\* completes can reach zero.
LEMMA StoreSignalInv == IInv /\ StoreSignal => IInv'
<1> SUFFICES ASSUME IInv, StoreSignal PROVE IInv'
  OBVIOUS
<1> USE DEF IInv, StoreSignal, after, fwUnchanged, hostVars
<1>a. /\ oldest = completed + 1 /\ read_index = mymod(completed)
      /\ completed = Len(executed) - 1 /\ Len(executed) \in Nat /\ completed \in Nat
      /\ read_index \in Slots /\ mymod(read_index) = read_index
  BY ReadIndexFacts, IndexTypes
<1>0. /\ completed' = completed + 1 /\ oldest' = oldest
      /\ published' = published /\ published <= write_index
  BY <1>a, IndexTypes DEF completed, oldest, published, TypeOK
<1>1. TypeOK'
  BY <1>a, QueueAssumption DEF TypeOK, FwPCs
<1>2. OrderInv' /\ IndexInv'
  BY <1>0, <1>a, IndexTypes DEF OrderInv, IndexInv
<1>3. PendingInv'
  <2> SUFFICES ASSUME NEW i \in pending
               PROVE  /\ acked <= i /\ i < published
                      /\ signal'[mymod(i)] = 0 => i < completed + 1
    BY <1>0 DEF PendingInv
  <2>1. i \in Nat /\ mymod(i) \in Slots
    BY SlotFacts DEF TypeOK, Packets
  <2>2. CASE mymod(i) = read_index
    <3>1. acked <= i /\ i < write_index /\ acked <= completed /\ completed < write_index
      BY <1>a, <1>0, <2>1, IndexTypes DEF PendingInv, OrderInv
    <3>2. i = completed
      BY <1>a, <2>1, <2>2, <3>1, InFlightSlots
    <3> QED BY <1>a, <3>2 DEF PendingInv
  <2>3. CASE mymod(i) # read_index
    <3>1. signal'[mymod(i)] = signal[mymod(i)]
      BY <1>a, <2>1, <2>3 DEF TypeOK
    <3> QED BY <1>a, <2>1, <3>1 DEF PendingInv
  <2> QED BY <2>2, <2>3
<1>4. InOrderOnce' /\ LiveInv' /\ FreeInv' /\ HostInv'
  BY <1>0 DEF InOrderOnce, LiveInv, FreeInv, HostInv
<1> QED BY <1>1, <1>2, <1>3, <1>4

LEMMA AdvanceReadIndexInv == IInv /\ AdvanceReadIndex => IInv'
<1> SUFFICES ASSUME IInv, AdvanceReadIndex PROVE IInv'
  OBVIOUS
<1> USE DEF IInv, AdvanceReadIndex, nextReadIndex, fwUnchanged, hostVars
<1>0. completed' = completed /\ oldest' = oldest /\ published' = published
  BY DEF completed, oldest, published
<1>a. completed \in Nat /\ completed - 1 \in Nat
  BY ReadIndexFacts, IndexTypes DEF OrderInv
<1>b. read_index' = mymod(completed)
  BY <1>a, ReadIndexFacts, SlotFacts
<1>1. TypeOK'
  BY <1>a, <1>b, SlotFacts DEF TypeOK, FwPCs
<1>2. OrderInv' /\ IndexInv'
  BY <1>0, <1>b DEF OrderInv, IndexInv
<1>3. InOrderOnce' /\ LiveInv' /\ FreeInv' /\ PendingInv' /\ HostInv'
  BY <1>0 DEF InOrderOnce, LiveInv, FreeInv, PendingInv, HostInv
<1> QED BY <1>1, <1>2, <1>3

LEMMA StutterInv == IInv /\ UNCHANGED vars => IInv'
<1> SUFFICES ASSUME IInv, UNCHANGED vars PROVE IInv'
  OBVIOUS
<1> USE DEF IInv, vars, ring, hostVars, fwVars
<1>0. completed' = completed /\ oldest' = oldest /\ published' = published
  BY DEF completed, oldest, published
<1>1. TypeOK'
  BY DEF TypeOK
<1>2. InOrderOnce' /\ OrderInv' /\ IndexInv'
  BY <1>0 DEF InOrderOnce, OrderInv, IndexInv
<1>3. LiveInv' /\ FreeInv' /\ PendingInv' /\ HostInv'
  BY <1>0 DEF LiveInv, FreeInv, PendingInv, HostInv
<1> QED BY <1>1, <1>2, <1>3

-----------------------------------------------------------------------------
(* The theorems. *)

\* The strengthened invariant holds of every reachable state.
THEOREM Inductive == Spec => []IInv
<1>1. Init => IInv
  BY InitInv
<1>2. IInv /\ [Next]_vars => IInv'
  <2> SUFFICES ASSUME IInv, [Next]_vars PROVE IInv'
    OBVIOUS
  <2>1. CASE Reserve BY <2>1, ReserveInv
  <2>2. CASE InitializePacket BY <2>2, InitializePacketInv
  <2>3. CASE FillPacket BY <2>3, FillPacketInv
  <2>4. CASE PublishPacket BY <2>4, PublishPacketInv
  <2>5. CASE CreateSignal BY <2>5, CreateSignalInv
  <2>6. CASE ClearDoorbell BY <2>6, ClearDoorbellInv
  <2>7. CASE RingDoorbell BY <2>7, RingDoorbellInv
  <2>8. CASE \E i \in Packets : StartWait(i) BY <2>8, StartWaitInv
  <2>9. CASE WaitReturns BY <2>9, WaitReturnsInv
  <2>10. CASE CheckDoorbell BY <2>10, CheckDoorbellInv
  <2>11. CASE RecordDoorbell BY <2>11, RecordDoorbellInv
  <2>12. CASE FetchHeader BY <2>12, FetchHeaderInv
  <2>13. CASE HandlePacket BY <2>13, HandlePacketInv
  <2>14. CASE InvalidateHeader BY <2>14, InvalidateHeaderInv
  <2>15. CASE LoadSignal BY <2>15, LoadSignalInv
  <2>16. CASE StoreSignal BY <2>16, StoreSignalInv
  <2>17. CASE AdvanceReadIndex BY <2>17, AdvanceReadIndexInv
  <2>18. CASE UNCHANGED vars BY <2>18, StutterInv
  <2> QED
    BY <2>1, <2>2, <2>3, <2>4, <2>5, <2>6, <2>7, <2>8, <2>9, <2>10, <2>11,
       <2>12, <2>13, <2>14, <2>15, <2>16, <2>17, <2>18 DEF Next, FwStep
<1> QED BY <1>1, <1>2, PTL DEF Spec

\* Types are preserved for every ring size and number of packets.
THEOREM TypeCorrect == Spec => []TypeOK
<1>1. IInv => TypeOK
  BY DEF IInv
<1> QED BY <1>1, Inductive, PTL

\* The controller handles every packet once, in posting order, and complete.
THEOREM HandledInOrderOnce == Spec => []InOrderOnce
<1>1. IInv => InOrderOnce
  BY DEF IInv
<1> QED BY <1>1, Inductive, PTL

\* A wait that returns does so for a completed packet.
THEOREM WaitSound == Spec => []WaitIsSound
<1>1. IInv => WaitIsSound
  BY DEF IInv, OrderInv, WaitIsSound
<1> QED BY <1>1, Inductive, PTL

\* A slot is rewritten only when the controller is done with it.
THEOREM NeverOverwrites == Spec => []NoOverwrite
<1>1. IInv => NoOverwrite
  <2> SUFFICES ASSUME IInv, hpc \in {"init", "fill", "publish"}
               PROVE  /\ header[mymod(wr_idx)] = "INVALID"
                      /\ ~ ( /\ fpc \in {"handle", "invalidate", "load", "store"}
                             /\ read_index = mymod(wr_idx) )
    BY DEF NoOverwrite
  <2> USE DEF IInv
  <2>1. wr_idx \in Nat /\ mymod(wr_idx) \in Slots
    BY ReservedIsPacket
  <2>2. /\ published = wr_idx /\ wr_idx = write_index - 1 /\ acked <= wr_idx
        /\ write_index \in Nat /\ completed \in Nat /\ completed <= oldest
        /\ acked <= completed /\ oldest \in Nat /\ completed <= wr_idx
        /\ acked \in Nat
    BY IndexTypes DEF HostInv, OrderInv, published
  <2>3. header[mymod(wr_idx)] # "AGENT_DISPATCH"
    <3> SUFFICES ASSUME header[mymod(wr_idx)] = "AGENT_DISPATCH" PROVE FALSE
      OBVIOUS
    <3>1. PICK i \in Packets :
            oldest <= i /\ i < published /\ mymod(i) = mymod(wr_idx)
      BY <2>1 DEF FreeInv
    <3>2. i \in Nat /\ acked <= i /\ i < write_index
      <4>1. i \in Nat
        BY <3>1 DEF Packets
      <4> QED BY <2>1, <2>2, <3>1, <4>1
    <3>3. i = wr_idx
      BY <2>1, <2>2, <3>1, <3>2, InFlightSlots
    <3> QED BY <2>2, <3>1, <3>3
  <2>4. ASSUME fpc \in {"handle", "invalidate", "load", "store"},
               read_index = mymod(wr_idx)
        PROVE  FALSE
    <3>1. completed < wr_idx
      BY <2>2, <2>4, IndexTypes, ReadIndexFacts DEF OrderInv
    <3>2. mymod(completed) = mymod(wr_idx)
      BY <2>4, ReadIndexFacts
    <3>3. completed = wr_idx
      BY <2>1, <2>2, <3>1, <3>2, InFlightSlots
    <3> QED BY <2>1, <2>2, <3>1, <3>3
  <2> QED BY <2>1, <2>3, <2>4 DEF TypeOK
<1> QED BY <1>1, Inductive, PTL

-----------------------------------------------------------------------------
(* The queue implements the abstract FIFO. *)

\* A step of the queue is a step of the FIFO or leaves it alone.
LEMMA StepSimulation ==
  ASSUME IInv, IInv', [Next]_vars
  PROVE  [Fifo!FifoNext]_(Fifo!fifoVars)
<1> USE DEF Fifo!fifoVars, Fifo!FifoNext
<1>1. CASE PublishPacket
  <2>1. published' = published + 1 /\ UNCHANGED <<executed, acked>>
    BY <1>1, QueueAssumption DEF PublishPacket, published, fwVars, IInv, TypeOK
  <2> QED BY <2>1 DEF Fifo!Post
<1>2. CASE HandlePacket
  <2>1. UNCHANGED <<published, acked>>
    BY <1>2 DEF HandlePacket, published, fwUnchanged, hostVars
  <2>2. payload[mymod(read_index)] = Len(executed)
    <3>1. /\ Len(executed) \in Packets
          /\ oldest = Len(executed) /\ read_index = mymod(Len(executed))
          /\ mymod(read_index) = read_index
      BY <1>2, HandledIsNext DEF HandlePacket
    <3>2. Len(executed) < published /\ Len(executed) \in Nat
      BY <1>2, IndexTypes DEF HandlePacket, IInv, OrderInv
    <3> QED BY <3>1, <3>2 DEF IInv, LiveInv
  <2>3. executed' = Append(executed, Len(executed)) /\ Len(executed) < published
    BY <1>2, <2>2 DEF HandlePacket, IInv, OrderInv
  <2> QED BY <2>1, <2>3 DEF Fifo!Perform
<1>3. CASE WaitReturns
  <2>1. UNCHANGED <<published, executed>>
    BY <1>3 DEF WaitReturns, published, fwVars
  <2>2. wr_idx \in Nat /\ acked <= wr_idx /\ acked \in Nat /\ acked' = wr_idx + 1
    BY <1>3, ReservedIsPacket, IndexTypes DEF WaitReturns, IInv, HostInv, PendingInv
  <2>3. acked' <= Len(executed) /\ Len(executed) \in Nat
    BY <1>3, <2>1, IndexTypes DEF IInv, OrderInv, completed, WaitReturns, fwVars
  <2>4. acked' \in (acked + 1) .. Len(executed)
    BY <2>2, <2>3
  <2> QED BY <2>1, <2>4 DEF Fifo!Acknowledge
<1>4. CASE Reserve
  <2>1. UNCHANGED <<published, executed, acked>>
    BY <1>4, QueueAssumption DEF Reserve, published, fwVars, IInv, TypeOK
  <2> QED BY <2>1
<1>5. CASE InitializePacket \/ FillPacket
  BY <1>5 DEF InitializePacket, FillPacket, published, fwVars
<1>6. CASE CreateSignal \/ ClearDoorbell \/ RingDoorbell
  BY <1>6 DEF CreateSignal, ClearDoorbell, RingDoorbell, published, fwVars
<1>7. CASE \E i \in Packets : StartWait(i)
  BY <1>7 DEF StartWait, published, fwVars
<1>8. CASE FwStep /\ ~HandlePacket
  BY <1>8 DEF FwStep, CheckDoorbell, RecordDoorbell, FetchHeader, InvalidateHeader,
              LoadSignal, StoreSignal, AdvanceReadIndex, fwUnchanged, hostVars,
              published
<1>9. CASE UNCHANGED vars
  BY <1>9 DEF vars, hostVars, fwVars, published
<1> QED BY <1>1, <1>2, <1>3, <1>4, <1>5, <1>6, <1>7, <1>8, <1>9 DEF Next

\* The ring, its headers, signals and doorbell implement a FIFO whose packets
\* complete in order.
THEOREM ImplementsFifo == Spec => RefinesFifo
<1>1. Init => Fifo!FifoInit
  BY QueueAssumption DEF Init, Fifo!FifoInit, published
<1>2. IInv /\ IInv' /\ [Next]_vars => [Fifo!FifoNext]_(Fifo!fifoVars)
  BY StepSimulation
<1> QED BY <1>1, <1>2, Inductive, PTL DEF Spec, RefinesFifo, Fifo!FifoSpec
=============================================================================
