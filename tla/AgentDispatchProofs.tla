------------------------ MODULE AgentDispatchProofs ------------------------
(***************************************************************************)
(* The safety properties of the dispatch handler, for every ring, window,  *)
(* number of lanes and copy size. The argument is in five parts: the types *)
(* and the window; what a ring slot says of the packet in it; what a       *)
(* staging slot says of its copy; where the handler is in its run through  *)
(* the ring; and, while no copy was passed over, the order of completions. *)
(***************************************************************************)
EXTENDS AgentDispatch, IndexLemmas, FiniteSetTheorems, WellFoundedInduction, TLAPS

-----------------------------------------------------------------------------
(* The two CHOOSEs of the model, as operators on constants.                *)

OldestOf(W, D) ==
  IF 0 .. W - 1 \subseteq D THEN W
  ELSE CHOOSE i \in (0 .. W - 1) \ D : \A j \in (0 .. W - 1) \ D : i <= j

InSlotOf(W, s) == CHOOSE i \in 0 .. W - 1 : i % Size = s /\ W - i <= Size

\* The oldest packet in flight: everything below it is done, it is not.
LEMMA OldestFacts ==
  ASSUME NEW W \in Nat, NEW D
  PROVE  /\ OldestOf(W, D) \in 0 .. W
         /\ \A j \in 0 .. W - 1 : j < OldestOf(W, D) => j \in D
         /\ OldestOf(W, D) < W => OldestOf(W, D) \notin D
<1> DEFINE T == (0 .. W - 1) \ D
<1>1. CASE 0 .. W - 1 \subseteq D
  BY <1>1 DEF OldestOf
<1>2. CASE ~ (0 .. W - 1 \subseteq D)
  <2>1. T \subseteq Nat /\ T # {}
    BY <1>2
  <2>2. \E i \in T : \A j \in T : <<j, i>> \notin OpToRel(<, Nat)
    BY <2>1, NatLessThanWellFounded, WFMin
  <2>3. \E i \in T : \A j \in T : i <= j
    <3> HIDE DEF T
    <3>1. \E i \in T : \A j \in T : ~ (j < i)
      BY <2>1, <2>2, Zenon DEF OpToRel
    <3> QED BY <2>1, <3>1
  <2>4. OldestOf(W, D) = CHOOSE i \in T : \A j \in T : i <= j
    BY <1>2 DEF OldestOf
  <2> HIDE DEF T
  <2>5. OldestOf(W, D) \in T /\ \A j \in T : OldestOf(W, D) <= j
    BY <2>3, <2>4
  <2> QED BY <2>5 DEF T
<1> QED BY <1>1, <1>2

\* No other index is like that.
LEMMA OldestUnique ==
  ASSUME NEW W \in Nat, NEW D, NEW k \in 0 .. W,
         \A j \in 0 .. W - 1 : j < k => j \in D,
         k < W => k \notin D
  PROVE  OldestOf(W, D) = k
BY OldestFacts

\* Posting a packet leaves the oldest one the oldest.
LEMMA OldestPost ==
  ASSUME NEW W \in Nat, NEW D, D \subseteq 0 .. W - 1
  PROVE  OldestOf(W + 1, D) = OldestOf(W, D)
<1> DEFINE k == OldestOf(W, D)
<1>1. /\ k \in 0 .. W
      /\ \A j \in 0 .. W - 1 : j < k => j \in D
      /\ k < W => k \notin D
  BY OldestFacts
<1> HIDE DEF k
<1>2. k \in 0 .. W + 1 /\ k < W + 1 => k \notin D
  BY <1>1
<1>3. OldestOf(W + 1, D) = k
  BY <1>1, <1>2, OldestUnique
<1> QED BY <1>3 DEF k

\* Completing packets makes the oldest one no older.
LEMMA OldestComplete ==
  ASSUME NEW W \in Nat, NEW D, NEW E, D \subseteq E
  PROVE  OldestOf(W, D) <= OldestOf(W, E)
BY OldestFacts

\* A packet among the last Size posted is the one in its slot.
LEMMA InSlotFact ==
  ASSUME NEW W \in Nat, NEW i \in 0 .. W - 1, W - i <= Size
  PROVE  InSlotOf(W, i % Size) = i
<1> USE DispatchAssumption
<1> DEFINE P(j) == j % Size = i % Size /\ W - j <= Size
<1>1. \A j \in 0 .. W - 1 : P(j) => j = i
  BY SameSlotSameIndex
<1>2. i \in 0 .. W - 1 /\ P(i)
  OBVIOUS
<1>3. InSlotOf(W, i % Size) = CHOOSE j \in 0 .. W - 1 : P(j)
  BY DEF InSlotOf
<1> HIDE DEF P
<1> QED BY <1>1, <1>2, <1>3
-----------------------------------------------------------------------------
(* The inductive invariant.                                                *)

Valid == {l \in Lanes : staged[l].valid}
Live == Packets \ done
IsStaged(i) == \E l \in Lanes : staged[l].valid /\ staged[l].pkt = i

\* num_active_packets with the packet at rd_idx, or the copy just staged, that
\* the handler has yet to count
uncounted == pc = "packet_op" \/ (pc = "memcpy" /\ ~retry)
active == num_active_packets + (IF uncounted THEN 1 ELSE 0)

\* where the run through the ring began
base == pkt + 2 - packets_processed - active

RingTypes ==
  /\ write_index \in 0 .. MaxPackets
  /\ DOMAIN posted = Packets
  /\ posted \in [Packets -> PacketKinds]
  /\ moved \in [Packets -> Nat]
  /\ header \in [RingSlots -> {"INVALID", "AGENT_DISPATCH", "BARRIER"}]
  /\ staged \in [Lanes -> [valid : BOOLEAN, pkt : Int, left : Nat]]
  /\ done \subseteq Packets
  /\ outstanding \in [Lanes -> 0 .. Stall]

LocalTypes ==
  /\ read_index \in RingSlots
  /\ rd_idx \in Nat
  /\ last_slot \in Lanes /\ slot \in Lanes
  /\ num_active_packets \in Int
  /\ packets_processed \in Nat
  /\ retry \in BOOLEAN
  /\ skipped \in BOOLEAN

Types == RingTypes /\ LocalTypes

\* A slot's header is that of the live packet in it; without one it is cleared.
Ring ==
  /\ write_index - oldest <= Window
  /\ \A i \in Live : header[mymod(i)] = HeaderOf(posted[i])
  /\ \A s \in RingSlots : header[s] # "INVALID" => \E i \in Live : mymod(i) = s

\* Every descriptor of a staged copy is still to push, in the DMA or finished.
Copies ==
  /\ \A l \in Lanes : staged[l].valid =>
       /\ staged[l].pkt \in Live
       /\ posted[staged[l].pkt] = [kind |-> "ND", lane |-> l]
       /\ moved[staged[l].pkt] + outstanding[l] + staged[l].left = Descriptors
  /\ \A l \in Lanes : ~staged[l].valid => outstanding[l] = 0
  /\ \A i \in Live : ~IsStaged(i) => moved[i] = 0
  /\ \A i \in done : posted[i].kind = "ND" => moved[i] = Descriptors

\* What is active is what is staged, and the run has not gone round the ring.
Running ==
  /\ pc = "memcpy" => staged[slot].valid
  /\ pc = "main" => Valid = {} /\ num_active_packets = 1
  /\ pc # "main" =>
       active = 1 + Cardinality(Valid) + (IF pc = "packet_op" THEN 1 ELSE 0)
  /\ pc \in {"scan", "peek"} => num_active_packets > 1
  /\ pc = "packet_op" => header[mymod(rd_idx)] = "AGENT_DISPATCH"
  /\ pc # "main" /\ (Valid # {} \/ pc = "packet_op" \/ ~skipped) =>
       pkt \in Packets /\ mymod(pkt) = mymod(rd_idx) /\ oldest <= pkt + 1
  /\ \A l \in Valid : staged[l].pkt <= pkt /\ (pc = "packet_op" => staged[l].pkt # pkt)

\* While no copy was passed over: the run left nothing behind but what is
\* staged, and touched nothing ahead.
InOrder ==
  ~skipped =>
    /\ \A i \in done : posted[i].kind = "BARRIER" => \A j \in 0 .. i - 1 : j \in done
    /\ pc = "main" => /\ \A i \in Packets : i < oldest <=> i \in done
                      /\ read_index = mymod(oldest)
    /\ pc # "main" =>
         /\ \A i \in Live : i <= pkt => IsStaged(i) \/ (i = pkt /\ pc = "packet_op")
         /\ \A i \in done : i <= pkt
         /\ base \in Nat
         /\ read_index = mymod(base)

\* Each packet completed in a run was completed once.
Counted == packets_processed <= Cardinality(done)

Inv == Types /\ Ring /\ Copies /\ Running /\ InOrder /\ Counted
-----------------------------------------------------------------------------
(* What follows from the invariant, and the arithmetic of the ring in it.  *)

\* A slot is one of the ring.
LEMMA SlotRange ==
  ASSUME NEW i \in Nat
  PROVE  mymod(i) \in RingSlots
BY DispatchAssumption, DivMod DEF mymod, RingSlots

\* Indices in one slot that are less than the ring apart are the same.
LEMMA SameSlot ==
  ASSUME NEW i \in Nat, NEW j \in Nat, i - j < Size, j - i < Size,
         mymod(i) = mymod(j)
  PROVE  i = j
BY DispatchAssumption, SameSlotSameIndex DEF mymod

\* read_index is a slot already.
LEMMA SlotIsItself ==
  ASSUME NEW s \in RingSlots
  PROVE  mymod(s) = s
BY DispatchAssumption, SlotOfSlot DEF mymod, RingSlots

\* Going on from a slot is going on from the index.
LEMMA SlotAhead ==
  ASSUME NEW i \in Nat, NEW n \in Nat
  PROVE  mymod(mymod(i) + n) = mymod(i + n)
BY DispatchAssumption, SlotSum DEF mymod

\* The packets, the oldest of them that is not complete, and what is live.
LEMMA Basics ==
  ASSUME Types
  PROVE  /\ write_index \in Nat
         /\ Packets = 0 .. write_index - 1
         /\ oldest = OldestOf(write_index, done)
         /\ oldest \in 0 .. write_index
         /\ \A j \in Packets : j < oldest => j \in done
         /\ oldest < write_index => oldest \in Live
         /\ \A i \in Live : i \in Nat /\ oldest <= i /\ i < write_index
         /\ done \subseteq Packets
<1>1. write_index \in Nat /\ Packets = 0 .. write_index - 1 /\ done \subseteq Packets
  BY DispatchAssumption DEF Types, RingTypes, Packets
<1>2. oldest = OldestOf(write_index, done)
  BY DEF oldest, OldestOf, Packets
<1> HIDE DEF write_index, oldest, Packets
<1>3. /\ oldest \in 0 .. write_index
      /\ \A j \in Packets : j < oldest => j \in done
      /\ oldest < write_index => oldest \notin done
  BY <1>1, <1>2, OldestFacts
<1> QED BY <1>1, <1>2, <1>3 DEF Live

\* A packet not long past the oldest is the one in its slot, also when another
\* is posted before the window is full.
LEMMA Recent ==
  ASSUME Types, Ring, NEW n \in Packets, oldest <= n + 1
  PROVE  /\ InSlot(mymod(n)) = n
         /\ write_index - oldest < Window => InSlotOf(write_index + 1, mymod(n)) = n
<1>1. /\ write_index \in Nat /\ Packets = 0 .. write_index - 1
      /\ oldest \in Nat
  BY Basics
<1>2. write_index - oldest <= Window
  BY DEF Ring
<1>3. InSlot(mymod(n)) = InSlotOf(write_index, n % Size)
  BY DEF InSlot, InSlotOf, mymod, Packets
<1>4. InSlotOf(write_index + 1, mymod(n)) = InSlotOf(write_index + 1, n % Size)
  BY DEF mymod
<1> HIDE DEF write_index, oldest, Packets, InSlot, mymod
<1>5. write_index - n <= Size
  BY <1>1, <1>2, DispatchAssumption
<1>6. CASE write_index - oldest < Window
  <2>1. write_index + 1 - n <= Size /\ n \in 0 .. (write_index + 1) - 1
    BY <1>1, <1>6, DispatchAssumption
  <2> QED BY <1>1, <1>3, <1>4, <1>5, <2>1, InSlotFact
<1> QED BY <1>1, <1>3, <1>5, <1>6, InSlotFact

\* Live packets have slots of their own.
LEMMA LiveSlots ==
  ASSUME Types, Ring, NEW i \in Live
  PROVE  /\ InSlot(mymod(i)) = i
         /\ mymod(i) \in RingSlots
         /\ \A j \in Live : mymod(j) = mymod(i) => j = i
<1>1. /\ write_index \in Nat /\ oldest \in Nat /\ i \in Packets
      /\ \A j \in Live : j \in Nat /\ oldest <= j /\ j < write_index
  BY Basics DEF Live
<1>2. write_index - oldest <= Window
  BY DEF Ring
<1> HIDE DEF write_index, oldest
<1>3. InSlot(mymod(i)) = i
  BY <1>1, Recent
<1>4. ASSUME NEW j \in Live, mymod(j) = mymod(i)
      PROVE  j = i
  <2>1. i - j < Size /\ j - i < Size
    BY <1>1, <1>2, DispatchAssumption
  <2> QED BY <1>1, <1>4, <2>1, SameSlot
<1> QED BY <1>1, <1>3, <1>4, SlotRange

\* A header that is not cleared is that of the live packet in the slot.
LEMMA HeaderLive ==
  ASSUME Types, Ring, NEW s \in RingSlots, header[s] # "INVALID"
  PROVE  /\ InSlot(s) \in Live
         /\ mymod(InSlot(s)) = s
         /\ header[s] = HeaderOf(posted[InSlot(s)])
<1>1. PICK i \in Live : mymod(i) = s
  BY DEF Ring
<1> QED BY <1>1, LiveSlots DEF Ring

\* What does not post or complete keeps the packets.
LEMMA SamePackets ==
  ASSUME UNCHANGED <<posted, done>>
  PROVE  /\ write_index' = write_index /\ Packets' = Packets
         /\ oldest' = oldest /\ Live' = Live
         /\ \A s : InSlot(s)' = InSlot(s)
<1>1. write_index' = write_index
  BY DEF write_index
<1> HIDE DEF write_index
<1>2. Packets' = Packets
  BY <1>1 DEF Packets
<1>3. oldest' = oldest
  BY <1>1, <1>2 DEF oldest
<1>4. \A s : InSlot(s)' = InSlot(s)
  BY <1>1, <1>2 DEF InSlot
<1> QED BY <1>1, <1>2, <1>3, <1>4 DEF Live
-----------------------------------------------------------------------------
(* The initial states.                                                     *)

\* The queue is empty and the handler has not run.
LEMMA InitInv == Init => Inv
<1> SUFFICES ASSUME Init PROVE Inv
  OBVIOUS
<1>1. write_index = 0 /\ DOMAIN posted = {} /\ done = {}
  BY FS_EmptySet DEF Init, write_index
<1>2. Packets = {}
  BY <1>1 DEF Packets
<1>3. oldest = 0
  BY <1>1, <1>2 DEF oldest
<1>4. Valid = {}
  BY DEF Init, Valid, Empty
<1> HIDE DEF write_index, oldest
<1>5. Types
  <2>1. staged \in [Lanes -> [valid : BOOLEAN, pkt : Int, left : Nat]]
    BY DEF Init, Empty, NoPacket
  <2>2. moved \in [Packets -> Nat] /\ posted \in [Packets -> PacketKinds]
    BY <1>2 DEF Init
  <2>3. /\ 0 \in Lanes /\ 0 \in RingSlots /\ 0 \in 0 .. Stall
        /\ write_index \in 0 .. MaxPackets /\ 0 \in Nat /\ 1 \in Int
    BY <1>1, DispatchAssumption DEF Lanes, RingSlots
  <2>4. RingTypes
    BY <1>1, <1>2, <2>1, <2>2, <2>3 DEF RingTypes, Init
  <2>5. LocalTypes
    BY <2>3 DEF LocalTypes, Init
  <2> QED BY <2>4, <2>5 DEF Types
<1>6. Ring /\ Copies
  BY <1>1, <1>2, <1>3, DispatchAssumption
     DEF Ring, Copies, Init, Empty, Live, RingSlots
<1>7. Running
  BY <1>4 DEF Running, Init
<1>8. InOrder
  <2>1. mymod(oldest) = 0
    BY <1>3, SlotIsItself, DispatchAssumption DEF RingSlots
  <2> QED BY <1>1, <1>2, <2>1 DEF InOrder, Init
<1>9. Counted
  BY <1>1, FS_EmptySet DEF Counted, Init
<1> QED BY <1>5, <1>6, <1>7, <1>8, <1>9 DEF Inv

-----------------------------------------------------------------------------
(* Steps of the handler that only move through the ring.                   *)

ring == <<posted, header, staged, done, outstanding, moved>>

\* What the ring, the lanes and the packets keep when only the locals change.
LEMMA SameRing ==
  ASSUME Inv, UNCHANGED ring
  PROVE  /\ RingTypes' /\ Ring' /\ Copies' /\ Valid' = Valid /\ Live' = Live
         /\ write_index' = write_index /\ Packets' = Packets /\ oldest' = oldest
         /\ \A s : InSlot(s)' = InSlot(s)
         /\ \A i : IsStaged(i)' = IsStaged(i)
<1>1. /\ write_index' = write_index /\ Packets' = Packets
      /\ oldest' = oldest /\ Live' = Live
      /\ \A s : InSlot(s)' = InSlot(s)
  BY SamePackets DEF ring
<1>2. Valid' = Valid /\ \A i : IsStaged(i)' = IsStaged(i)
  BY DEF ring, Valid, IsStaged
<1> HIDE DEF write_index, oldest, Packets, Live
<1>3. Ring'
  BY <1>1 DEF Inv, Ring, ring
<1>4. Copies'
  BY <1>1, <1>2 DEF Inv, Copies, ring
<1>5. RingTypes'
  BY <1>1 DEF Inv, Types, RingTypes, ring
<1> QED BY <1>1, <1>2, <1>3, <1>4, <1>5

\* The lanes are finitely many, so the staged copies can be counted.
LEMMA FiniteLanes ==
  /\ IsFiniteSet(Lanes) /\ Cardinality(Lanes) = max_slot + 1
  /\ IsFiniteSet(Valid) /\ Cardinality(Valid) \in 0 .. max_slot + 1
  /\ Cardinality(Valid) = 0 <=> Valid = {}
<1>1. IsFiniteSet(Lanes) /\ Cardinality(Lanes) = max_slot + 1
  BY FS_Interval, DispatchAssumption DEF Lanes
<1>2. IsFiniteSet(Valid) /\ Cardinality(Valid) <= Cardinality(Lanes)
  BY <1>1, FS_Subset DEF Valid
<1> QED BY <1>1, <1>2, FS_CardinalityType, FS_EmptySet

\* The packet at rd_idx, before and after a step.
LEMMA PktIs ==
  /\ pkt = InSlotOf(write_index, mymod(rd_idx))
  /\ pkt' = InSlotOf(write_index', mymod(rd_idx'))
  /\ \A s : InSlot(s) = InSlotOf(write_index, s)
BY DEF pkt, InSlot, InSlotOf, Packets, mymod

\* The packets completed can be counted.
LEMMA FiniteDone ==
  ASSUME Types
  PROVE  /\ IsFiniteSet(done) /\ Cardinality(done) \in Nat
         /\ Cardinality(done) <= write_index
<1>1. write_index \in Nat /\ Packets = 0 .. write_index - 1 /\ done \subseteq Packets
  BY Basics
<1> HIDE DEF write_index, Packets
<1>2. IsFiniteSet(Packets) /\ Cardinality(Packets) = write_index
  BY <1>1, FS_Interval
<1> QED BY <1>1, <1>2, FS_Subset, FS_CardinalityType

\* A run through the ring begins at the packet at read_index.
LEMMA FetchDispatchInv ==
  ASSUME Inv, FetchDispatch
  PROVE  Inv'
<1> DEFINE n == InSlot(mymod(read_index))
<1> USE DEF Inv
<1>1. UNCHANGED ring
  BY DEF FetchDispatch, ring, hostAndDma
<1>2. mymod(read_index) \in RingSlots /\ read_index \in Nat
  BY SlotRange DEF Types, LocalTypes, RingSlots
<1>3. n \in Live /\ mymod(n) = mymod(read_index) /\ header[mymod(read_index)] = "AGENT_DISPATCH"
  BY <1>2, HeaderLive DEF FetchDispatch
<1>4. pkt' = n
  BY <1>1, PktIs, SameRing DEF FetchDispatch
<1>5. Valid = {} /\ pc = "main"
  BY DEF Running, FetchDispatch
<1>6. /\ n \in Nat /\ oldest \in Nat /\ oldest <= n /\ n \in Packets /\ n < write_index
      /\ write_index \in Nat
  BY <1>3, Basics DEF Live
<1> HIDE DEF n
<1>7. LocalTypes'
  BY <1>2, DispatchAssumption DEF Types, LocalTypes, FetchDispatch, hostAndDma, Lanes
<1>8. Running'
  <2>1. Valid' = {} /\ Cardinality(Valid') = 0
    BY <1>1, <1>5, SameRing, FS_EmptySet
  <2>2. Packets' = Packets /\ oldest' = oldest
    BY <1>1, SameRing
  <2>3. /\ pc' = "packet_op" /\ num_active_packets' = 1 /\ rd_idx' = read_index
        /\ header' = header
    BY DEF FetchDispatch
  <2>6. active' = 2
    BY <2>3 DEF active, uncounted
  <2> HIDE DEF Valid, pkt, oldest, Packets, active
  <2>4. mymod(rd_idx') = mymod(read_index)
    BY <2>3
  <2>5. mymod(pkt') = mymod(n)
    BY <1>4
  <2> QED BY <2>6, <1>3, <1>4, <1>6, <2>1, <2>2, <2>3, <2>4, <2>5 DEF Running
<1>9. InOrder'
  <2> SUFFICES ASSUME ~skipped' PROVE InOrder'
    BY DEF InOrder
  <2>1. ~skipped
    BY DEF FetchDispatch, hostAndDma
  <2>2. /\ read_index = mymod(oldest)
        /\ \A i \in Packets : i < oldest <=> i \in done
    BY <1>5, <2>1 DEF InOrder
  <2>3. n = oldest
    <3>1. oldest \in Live
      BY <1>6, Basics
    <3>2. mymod(oldest) = mymod(n)
      BY <1>3, <2>2, SlotIsItself DEF Types, LocalTypes
    <3> QED BY <1>3, <3>1, <3>2, LiveSlots
  <2>4. base' = oldest
    BY <1>4, <1>6, <2>3 DEF base, active, uncounted, FetchDispatch
  <2>5. pc' = "packet_op" /\ read_index' = read_index /\ posted' = posted /\ done' = done
    BY DEF FetchDispatch, hostAndDma
  <2>6. /\ Live' = Live
        /\ \A i \in done : posted[i].kind = "BARRIER" => \A j \in 0 .. i - 1 : j \in done
        /\ \A i \in Live : i \in Nat /\ n <= i
        /\ \A i \in done : i \in Nat /\ i < n
    BY <1>1, <1>6, <2>1, <2>2, <2>3, SameRing, Basics DEF InOrder
  <2>7. read_index' = mymod(base')
    BY <2>2, <2>4, <2>5
  <2> HIDE DEF base, pkt, Live, oldest
  <2> QED BY <1>4, <1>6, <2>3, <2>4, <2>5, <2>6, <2>7 DEF InOrder
<1>10. Counted'
  <2>1. packets_processed' = 0 /\ done' = done
    BY DEF FetchDispatch
  <2> QED BY <2>1, FiniteDone DEF Counted
<1> QED BY <1>1, <1>7, <1>8, <1>9, <1>10, SameRing DEF Types

\* A step between two points of the handler, the packet at rd_idx handled, or
\* of a DMA channel.
LEMMA SameRun ==
  ASSUME Inv,
         UNCHANGED <<posted, header, done, rd_idx, read_index, packets_processed, skipped>>,
         \A l \in Lanes : staged'[l].valid = staged[l].valid /\ staged'[l].pkt = staged[l].pkt,
         pc' = pc \/ (pc \notin {"main", "packet_op"} /\ pc' \notin {"main", "packet_op"}),
         active' = active,
         pc' = "memcpy" => staged'[slot'].valid,
         pc' \in {"scan", "peek"} => num_active_packets' > 1,
         pc' = "main" => num_active_packets' = num_active_packets
  PROVE  Running' /\ InOrder' /\ Counted'
<1> USE DEF Inv
<1>1. /\ Live' = Live /\ oldest' = oldest /\ Packets' = Packets
      /\ write_index' = write_index
  BY SamePackets
<1>2. Valid' = Valid /\ \A i : IsStaged(i)' = IsStaged(i)
  BY DEF Valid, IsStaged
<1>3. pkt' = pkt
  BY <1>1, PktIs
<1>4. base' = base
  BY <1>3 DEF base
<1>5. mymod(rd_idx') = mymod(rd_idx) /\ mymod(pkt') = mymod(pkt) /\ mymod(base') = mymod(base)
  BY <1>3, <1>4
<1>6. Cardinality(Valid') = Cardinality(Valid)
  BY <1>2
<1>7. \A l \in Valid : staged'[l].pkt = staged[l].pkt
  BY DEF Valid
<1> HIDE DEF Valid, Live, oldest, Packets, pkt, base, active
<1>8. Running'
  BY <1>1, <1>2, <1>3, <1>5, <1>6, <1>7 DEF Running
<1>9. InOrder'
  BY <1>1, <1>2, <1>3, <1>4, <1>5 DEF InOrder
<1> QED BY <1>8, <1>9 DEF Counted

\* A copy left staged is counted.
LEMMA CopyUnfinishedInv ==
  ASSUME Inv, CopyUnfinished
  PROVE  Inv'
<1> USE DEF Inv
<1>1. UNCHANGED ring
  BY DEF CopyUnfinished, ring, hostAndDma
<1>2. active' = active
  BY DEF CopyUnfinished, active, uncounted, activated, Types, LocalTypes
<1>3. LocalTypes'
  BY DEF CopyUnfinished, activated, hostAndDma, Types, LocalTypes
<1>4. Running' /\ InOrder' /\ Counted'
  BY <1>1, <1>2, SameRun DEF CopyUnfinished, hostAndDma, ring
<1> QED BY <1>1, <1>3, <1>4, SameRing DEF Types

\* The round robin begins behind the lane last used.
LEMMA LoopInv ==
  ASSUME Inv, Loop
  PROVE  Inv'
<1> USE DEF Inv
<1>1. UNCHANGED ring
  BY DEF Loop, ring, hostAndDma
<1>2. active' = active
  BY DEF Loop, active, uncounted, Types, LocalTypes
<1>3. LocalTypes'
  BY DEF Loop, hostAndDma, Types, LocalTypes
<1>4. Running' /\ InOrder' /\ Counted'
  BY <1>1, <1>2, SameRun DEF Loop, hostAndDma, ring
<1> QED BY <1>1, <1>3, <1>4, SameRing DEF Types

\* A lane found busy and not stalled is resumed.
LEMMA ScanInv ==
  ASSUME Inv, Scan
  PROVE  Inv'
<1> USE DEF Inv
<1>1. UNCHANGED ring
  BY DEF Scan, ring, hostAndDma
<1>2. active' = active
  BY DEF Scan, active, uncounted, Types, LocalTypes
<1>3. LocalTypes'
  <2>1. slot' \in Lanes
    BY DispatchAssumption DEF Scan, next, Types, LocalTypes, Lanes
  <2> QED BY <2>1 DEF Scan, hostAndDma, Types, LocalTypes
<1>4. num_active_packets > 1
  BY DEF Scan, Running
<1>5. Running' /\ InOrder' /\ Counted'
  BY <1>1, <1>2, <1>4, SameRun DEF Scan, hostAndDma, ring
<1> QED BY <1>1, <1>3, <1>5, SameRing DEF Types

\* A copy whose lane is taken is passed over.
LEMMA LaneBusyInv ==
  ASSUME Inv, LaneBusy
  PROVE  Inv'
<1> USE DEF Inv
<1>1. UNCHANGED ring
  BY DEF LaneBusy, ring
<1>2. LocalTypes'
  BY DEF LaneBusy, locals, Types, LocalTypes
<1>3. Running'
  <2>1. active' = active - 1
    BY DEF LaneBusy, locals, active, uncounted, Types, LocalTypes
  <2>2. /\ pc = "packet_op" /\ pc' = "loop" /\ pkt' = pkt /\ oldest' = oldest
        /\ Valid' = Valid /\ Packets' = Packets /\ rd_idx' = rd_idx /\ staged' = staged
    BY <1>1, SameRing, PktIs DEF LaneBusy, locals
  <2>3. /\ Cardinality(Valid') = Cardinality(Valid) /\ mymod(pkt') = mymod(pkt)
        /\ mymod(rd_idx') = mymod(rd_idx)
    BY <2>2
  <2>4. Cardinality(Valid) \in Nat
    BY FiniteLanes
  <2> HIDE DEF Valid, Packets, oldest, pkt, active
  <2> QED BY <2>1, <2>2, <2>3, <2>4 DEF Running
<1>4. InOrder'
  BY DEF LaneBusy, InOrder
<1>5. Counted'
  BY DEF LaneBusy, Counted, locals
<1> QED BY <1>1, <1>2, <1>3, <1>4, <1>5, SameRing DEF Types

\* The next packet is the one posted after the last: what is staged keeps the
\* window from going round the ring.
LEMMA PeekInv ==
  ASSUME Inv, Peek
  PROVE  Inv'
<1> USE DEF Inv
<1>1. UNCHANGED ring
  BY DEF Peek, ring, hostAndDma
<1>2. CASE header[mymod(rd_idx + 1)] = "AGENT_DISPATCH"
  <2>1. pc = "peek" /\ pc' = "packet_op" /\ rd_idx' = rd_idx + 1 /\ rd_idx \in Nat
    BY <1>2 DEF Peek, Types, LocalTypes
  <2>2. LocalTypes'
    BY <1>2 DEF Peek, hostAndDma, Types, LocalTypes
  <2>3. active' = active + 1 /\ active > 1 /\ active \in Int /\ packets_processed \in Nat
    BY <1>2 DEF Peek, active, uncounted, Types, LocalTypes, Running
  <2>4. Valid # {} /\ Cardinality(Valid) \in Nat
    BY <2>1, <2>3, FiniteLanes DEF Running
  <2>5. /\ pkt \in Packets /\ mymod(pkt) = mymod(rd_idx) /\ oldest <= pkt + 1
        /\ \A l \in Valid : staged[l].pkt <= pkt
    BY <2>1, <2>4 DEF Running
  <2>6. /\ write_index \in Nat /\ Packets = 0 .. write_index - 1 /\ oldest \in Nat
        /\ \A i \in Live : i \in Nat /\ oldest <= i /\ i < write_index
        /\ write_index - oldest <= Window
    BY Basics DEF Ring
  <2>7. \A l \in Valid : staged[l].pkt \in Live
    BY DEF Valid, Copies
  <2> HIDE DEF Valid, pkt, oldest, Packets, write_index, active, Live
  <2>8. mymod(rd_idx + 1) = mymod(pkt + 1)
    <3>1. pkt \in Nat /\ 1 \in Nat
      BY <2>5, <2>6
    <3>2. mymod(mymod(rd_idx) + 1) = mymod(rd_idx + 1)
      BY <2>1, <3>1, SlotAhead
    <3>3. mymod(mymod(pkt) + 1) = mymod(pkt + 1)
      BY <3>1, SlotAhead
    <3>4. mymod(mymod(rd_idx) + 1) = mymod(mymod(pkt) + 1)
      BY <2>5
    <3> QED BY <3>2, <3>3, <3>4
  <2>9. pkt + 1 \in Live /\ InSlot(mymod(rd_idx + 1)) = pkt + 1
    <3>1. mymod(rd_idx + 1) \in RingSlots
      BY <2>1, SlotRange
    <3>2. PICK i \in Live : mymod(i) = mymod(rd_idx + 1)
      BY <1>2, <3>1 DEF Ring
    <3>3. i \in Nat /\ pkt + 1 \in Nat /\ i - (pkt + 1) < Size /\ (pkt + 1) - i < Size
      BY <2>5, <2>6, DispatchAssumption
    <3>4. i = pkt + 1
      BY <2>8, <3>2, <3>3, SameSlot
    <3> QED BY <3>2, <3>4, LiveSlots
  <2>10. pkt' = pkt + 1
    BY <1>1, <2>1, <2>9, PktIs, SameRing
  <2>11. /\ Valid' = Valid /\ Packets' = Packets /\ oldest' = oldest /\ Live' = Live
         /\ \A i : IsStaged(i)' = IsStaged(i)
         /\ staged' = staged /\ header' = header /\ done' = done /\ posted' = posted
    BY <1>1, SameRing DEF ring
  <2>12. pkt + 1 \in Packets
    BY <2>9 DEF Live
  <2>13. Running'
    <3>1. /\ Cardinality(Valid') = Cardinality(Valid) /\ mymod(pkt') = mymod(pkt + 1)
          /\ mymod(rd_idx') = mymod(rd_idx + 1)
      BY <2>1, <2>10, <2>11
    <3>2. active = 1 + Cardinality(Valid)
      BY <2>1, <2>4 DEF Running
    <3>3. \A l \in Valid : staged[l].pkt \in Int
      BY <2>7, <2>6
    <3>4. oldest <= pkt + 1 + 1 /\ pkt \in Int
      BY <2>5, <2>6
    <3>5. \A l \in Valid : staged[l].pkt <= pkt + 1 /\ staged[l].pkt # pkt + 1
      BY <2>5, <3>3, <3>4
    <3> QED BY <1>2, <2>1, <2>3, <2>4, <2>8, <2>10, <2>11, <2>12, <3>1, <3>2, <3>4, <3>5
         DEF Running
  <2>14. InOrder'
    <3> SUFFICES ASSUME ~skipped' PROVE InOrder'
      BY DEF InOrder
    <3>1. ~skipped /\ read_index' = read_index /\ packets_processed' = packets_processed
      BY DEF Peek, hostAndDma
    <3>2. /\ \A i \in done : posted[i].kind = "BARRIER" => \A j \in 0 .. i - 1 : j \in done
          /\ \A i \in Live : i <= pkt => IsStaged(i)
          /\ \A i \in done : i <= pkt
          /\ base \in Nat /\ read_index = mymod(base)
      BY <2>1, <3>1 DEF InOrder
    <3>3. base' = base
      BY <2>3, <2>5, <2>6, <2>10, <3>1 DEF base
    <3>4. read_index' = mymod(base')
      BY <3>1, <3>2, <3>3
    <3>5. \A i \in done : i \in Int
      BY <2>6 DEF Types, RingTypes
    <3>6. \A i \in Live : i <= pkt + 1 => IsStaged(i) \/ i = pkt + 1
      BY <2>5, <2>6, <3>2
    <3>7. \A i \in done : i <= pkt + 1
      BY <2>5, <2>6, <3>2, <3>5
    <3> HIDE DEF base
    <3> QED BY <2>1, <2>10, <2>11, <3>2, <3>3, <3>4, <3>6, <3>7 DEF InOrder
  <2>15. Counted'
    BY DEF Peek, hostAndDma, Counted
  <2> QED BY <1>1, <2>2, <2>13, <2>14, <2>15, SameRing DEF Types
<1>3. CASE header[mymod(rd_idx + 1)] # "AGENT_DISPATCH"
  <2>1. active' = active
    BY <1>3 DEF Peek, active, uncounted, Types, LocalTypes
  <2>2. LocalTypes'
    <3>1. last_slot' \in Lanes
      BY <1>3, DispatchAssumption DEF Peek, resumeFrom, next, Types, LocalTypes, Lanes
    <3> QED BY <1>3, <3>1 DEF Peek, hostAndDma, Types, LocalTypes
  <2>3. Running' /\ InOrder' /\ Counted'
    BY <1>1, <1>3, <2>1, SameRun DEF Peek, hostAndDma, ring
  <2> QED BY <1>1, <2>2, <2>3, SameRing DEF Types
<1> QED BY <1>2, <1>3

\* The handler returns when nothing is staged: what it passed is complete, and
\* its count of completions takes the read index there.
LEMMA ReturnInv ==
  ASSUME Inv, Return
  PROVE  Inv'
<1> USE DEF Inv
<1>1. UNCHANGED ring
  BY DEF Return, ring, hostAndDma
<1>2. pc = "loop" /\ pc' = "main" /\ num_active_packets \in Int /\ num_active_packets <= 1
      /\ packets_processed \in Nat /\ read_index \in Nat
  BY DEF Return, Types, LocalTypes, RingSlots
<1>3. active = num_active_packets
  BY <1>2 DEF active, uncounted
<1>4. Valid = {} /\ active = 1
  BY <1>2, <1>3, FiniteLanes DEF Running
<1>5. LocalTypes'
  <2>1. read_index' \in RingSlots
    BY <1>2, SlotRange DEF Return, passed
  <2> QED BY <2>1 DEF Return, Types, LocalTypes, locals, hostAndDma
<1>6. Running'
  <2>1. Valid' = {} /\ \A l \in Valid' : FALSE
    BY <1>1, <1>4, SameRing
  <2>2. num_active_packets' = 1
    BY <1>3, <1>4 DEF Return, locals
  <2> HIDE DEF Valid, active
  <2> QED BY <1>2, <2>1, <2>2 DEF Running
<1>7. InOrder'
  <2> SUFFICES ASSUME ~skipped' PROVE InOrder'
    BY DEF InOrder
  <2>1. ~skipped
    BY DEF Return, hostAndDma
  <2>2. /\ write_index \in Nat /\ Packets = 0 .. write_index - 1
        /\ oldest = OldestOf(write_index, done)
        /\ done \subseteq Packets
    BY Basics
  <2>3. /\ pkt \in Packets
        /\ \A i \in done : posted[i].kind = "BARRIER" => \A j \in 0 .. i - 1 : j \in done
        /\ \A i \in Live : i <= pkt => IsStaged(i)
        /\ \A i \in done : i <= pkt
        /\ base \in Nat /\ read_index = mymod(base)
    BY <1>2, <2>1 DEF InOrder, Running
  <2>4. \A i \in Live : ~ (i <= pkt)
    BY <1>4, <2>3 DEF Valid, IsStaged
  <2>5. \A i \in Packets : i < pkt + 1 <=> i \in done
    BY <2>2, <2>3, <2>4 DEF Live
  <2>6. base + packets_processed = pkt + 1
    BY <1>2, <1>4, <2>2, <2>3 DEF base
  <2> HIDE DEF Packets, write_index, pkt, oldest, base
  <2>7. oldest = pkt + 1
    <3>1. pkt + 1 \in 0 .. write_index
      BY <2>2, <2>3
    <3>2. pkt + 1 < write_index => pkt + 1 \notin done
      BY <2>2, <2>3
    <3>3. \A j \in 0 .. write_index - 1 : j < pkt + 1 => j \in done
      BY <2>2, <2>5
    <3> QED BY <2>2, <3>1, <3>2, <3>3, OldestUnique
  <2>8. read_index' = mymod(oldest)
    <3>1. read_index' = mymod(mymod(base) + packets_processed)
      BY <2>3 DEF Return, passed
    <3> QED BY <1>2, <2>3, <2>6, <2>7, <3>1, SlotAhead
  <2>9. Packets' = Packets /\ oldest' = oldest /\ posted' = posted /\ done' = done
    BY <1>1, SameRing DEF ring
  <2>10. mymod(oldest') = mymod(oldest)
    BY <2>9
  <2> QED BY <1>2, <2>3, <2>5, <2>7, <2>8, <2>9, <2>10 DEF InOrder
<1>8. Counted'
  BY DEF Return, locals, Counted
<1> QED BY <1>1, <1>5, <1>6, <1>7, <1>8, SameRing DEF Types

-----------------------------------------------------------------------------
(* Steps of a copy.                                                        *)

\* The fields of a copy packet.
LEMMA CopyFields ==
  ASSUME NEW r, NEW k, r = [kind |-> "ND", lane |-> k]
  PROVE  r.lane = k /\ r.kind = "ND"
<1>1. r.lane = k
  BY Zenon
<1>2. r.kind = "ND"
  BY Zenon
<1> QED BY <1>1, <1>2

\* A lane that is in use copies a live packet; no other lane copies the same.
LEMMA LanePackets ==
  ASSUME Types, Copies, NEW l \in Lanes, staged[l].valid
  PROVE  /\ staged[l].pkt \in Live
         /\ posted[staged[l].pkt].lane = l /\ posted[staged[l].pkt].kind = "ND"
         /\ \A k \in Lanes : staged[k].valid /\ staged[k].pkt = staged[l].pkt => k = l
<1>1. \A k \in Lanes : staged[k].valid =>
        /\ staged[k].pkt \in Live
        /\ posted[staged[k].pkt] = [kind |-> "ND", lane |-> k]
  BY DEF Copies
<1> HIDE DEF Live
<1>2. ASSUME NEW k \in Lanes, staged[k].valid
      PROVE  posted[staged[k].pkt].lane = k /\ posted[staged[k].pkt].kind = "ND"
  <2>1. posted[staged[k].pkt] = [kind |-> "ND", lane |-> k]
    BY <1>1, <1>2
  <2> QED BY ONLY <2>1, CopyFields
<1>3. \A k \in Lanes : staged[k].valid => posted[staged[k].pkt].lane = k
  BY <1>2
<1>4. staged[l].pkt \in Live /\ posted[staged[l].pkt].lane = l /\ posted[staged[l].pkt].kind = "ND"
  BY <1>1, <1>2
<1>5. ASSUME NEW k \in Lanes, staged[k].valid, staged[k].pkt = staged[l].pkt
      PROVE  k = l
  BY ONLY <1>3, <1>4, <1>5, Zenon
<1> QED BY <1>4, <1>5

\* What a step of a copy leaves of the ring.
LEMMA SameSlots ==
  ASSUME Inv, UNCHANGED <<posted, header, done>>
  PROVE  Ring'
<1>1. /\ Live' = Live /\ oldest' = oldest /\ write_index' = write_index
  BY SamePackets
<1> HIDE DEF Live, oldest, write_index
<1> QED BY <1>1 DEF Inv, Ring

\* A descriptor goes from what is left to what the DMA holds.
LEMMA PushDescriptorInv ==
  ASSUME Inv, PushDescriptor
  PROVE  Inv'
<1> USE DEF Inv
<1>1. /\ UNCHANGED <<posted, header, done, moved, skipped, read_index, locals, pc>>
      /\ slot \in Lanes /\ slot' = slot /\ pc = "memcpy" /\ staged[slot].valid
      /\ staged[slot].left \in Nat /\ staged[slot].left > 0
      /\ outstanding[slot] \in Nat /\ outstanding[slot] < Stall
  BY DEF PushDescriptor, hostAndDma, locals, Running, Types, LocalTypes, RingTypes
<1>2. /\ staged' = [staged EXCEPT ![slot].left = @ - 1]
      /\ outstanding' = [outstanding EXCEPT ![slot] = @ + 1]
  BY DEF PushDescriptor
<1>3. /\ \A l \in Lanes : staged'[l].valid = staged[l].valid /\ staged'[l].pkt = staged[l].pkt
      /\ \A l \in Lanes : l # slot => staged'[l].left = staged[l].left
                                    /\ outstanding'[l] = outstanding[l]
      /\ staged'[slot].left = staged[slot].left - 1
      /\ outstanding'[slot] = outstanding[slot] + 1
  BY <1>1, <1>2 DEF Types, RingTypes
<1>4. RingTypes'
  <2>1. staged' \in [Lanes -> [valid : BOOLEAN, pkt : Int, left : Nat]]
    BY <1>1, <1>2 DEF Types, RingTypes
  <2>2. outstanding' \in [Lanes -> 0 .. Stall]
    BY <1>1, <1>2, DispatchAssumption DEF Types, RingTypes
  <2>3. write_index' = write_index /\ Packets' = Packets
    BY <1>1, SamePackets
  <2> QED BY <1>1, <2>1, <2>2, <2>3 DEF Types, RingTypes
<1>5. Ring'
  BY <1>1, SameSlots
<1>6. Copies'
  <2>1. Live' = Live /\ \A i : IsStaged(i)' = IsStaged(i)
    BY <1>1, <1>3, SamePackets DEF IsStaged
  <2>2. \A l \in Lanes : staged[l].valid => moved[staged[l].pkt] \in Nat
    BY DEF Copies, Live, Types, RingTypes
  <2> HIDE DEF Live
  <2> QED BY <1>1, <1>3, <2>1, <2>2 DEF Copies
<1>7. Running' /\ InOrder' /\ Counted'
  <2>1. active' = active
    BY <1>1 DEF active, uncounted, locals
  <2> QED BY <1>1, <1>3, <2>1, SameRun DEF locals
<1>8. LocalTypes'
  BY <1>1 DEF Types, LocalTypes, locals
<1> QED BY <1>4, <1>5, <1>6, <1>7, <1>8 DEF Types

\* A descriptor goes from what the DMA holds to what is moved.
LEMMA FinishInv ==
  ASSUME Inv, NEW l \in Lanes, Finish(l)
  PROVE  Inv'
<1> USE DEF Inv
<1> DEFINE i == staged[l].pkt
<1>1. /\ UNCHANGED <<posted, header, read_index, locals, pc, staged, done, skipped>>
      /\ outstanding' = [outstanding EXCEPT ![l] = @ - 1]
      /\ outstanding[l] \in 1 .. Stall
  BY DispatchAssumption DEF Finish, Types, RingTypes
<1>2. staged[l].valid /\ i \in Live /\ i \in Packets
  <2>1. staged[l].valid
    BY <1>1 DEF Copies
  <2>2. i \in Live
    BY <2>1 DEF Copies
  <2> QED BY <2>1, <2>2 DEF Live
<1>3. moved' = [j \in Packets |-> IF j = i THEN moved[j] + 1 ELSE moved[j]]
  BY DEF Finish
<1>4. Live' = Live /\ Packets' = Packets /\ write_index' = write_index
  BY <1>1, SamePackets
<1>5. \A k \in Lanes : staged[k].valid /\ staged[k].pkt = i => k = l
  BY <1>2, LanePackets
<1>6. Live \subseteq Packets /\ done \subseteq Packets /\ Live \cap done = {}
      /\ moved \in [Packets -> Nat]
  BY DEF Live, Types, RingTypes
<1>7. \A j \in Packets : moved'[j] = IF j = i THEN moved[j] + 1 ELSE moved[j]
  BY <1>3
<1>8. /\ outstanding'[l] = outstanding[l] - 1
      /\ \A k \in Lanes : k # l => outstanding'[k] = outstanding[k]
      /\ \A k \in Lanes : outstanding[k] \in Nat /\ staged[k].left \in Nat
  BY <1>1, DispatchAssumption DEF Types, RingTypes
<1> HIDE DEF Live, Packets, write_index
<1>9. RingTypes'
  <2>1. outstanding' \in [Lanes -> 0 .. Stall]
    BY <1>1, DispatchAssumption DEF Types, RingTypes
  <2>2. moved' \in [Packets -> Nat]
    BY <1>2, <1>3, <1>6
  <2> QED BY <1>1, <1>4, <2>1, <2>2 DEF Types, RingTypes
<1>10. Ring'
  BY <1>1, SameSlots
<1>11. Copies'
  <2>1. \A k \in Lanes : staged[k].valid =>
          /\ staged[k].pkt \in Live
          /\ posted[staged[k].pkt] = [kind |-> "ND", lane |-> k]
          /\ moved'[staged[k].pkt] + outstanding'[k] + staged[k].left = Descriptors
    <3> SUFFICES ASSUME NEW k \in Lanes, staged[k].valid
                 PROVE  /\ staged[k].pkt \in Live
                        /\ posted[staged[k].pkt] = [kind |-> "ND", lane |-> k]
                        /\ moved'[staged[k].pkt] + outstanding'[k] + staged[k].left = Descriptors
      OBVIOUS
    <3>1. /\ staged[k].pkt \in Live
          /\ posted[staged[k].pkt] = [kind |-> "ND", lane |-> k]
          /\ moved[staged[k].pkt] + outstanding[k] + staged[k].left = Descriptors
      BY DEF Copies
    <3>2. moved[staged[k].pkt] \in Nat
      BY <1>6, <3>1
    <3>3. CASE k = l
      BY <1>6, <1>7, <1>8, <3>1, <3>2, <3>3
    <3>4. CASE k # l
      BY <1>5, <1>6, <1>7, <1>8, <3>1, <3>2, <3>4
    <3> QED BY <3>1, <3>3, <3>4
  <2>2. \A k \in Lanes : ~staged[k].valid => outstanding'[k] = 0
    BY <1>2, <1>8 DEF Copies
  <2>3. \A j \in Live : ~IsStaged(j) => moved'[j] = 0
    BY <1>2, <1>6, <1>7 DEF Copies, IsStaged
  <2>4. \A j \in done : posted[j].kind = "ND" => moved'[j] = Descriptors
    BY <1>2, <1>6, <1>7 DEF Copies
  <2>5. \A j : IsStaged(j)' = IsStaged(j)
    BY <1>1 DEF IsStaged
  <2> QED BY <1>1, <1>4, <2>1, <2>2, <2>3, <2>4, <2>5 DEF Copies
<1>12. Running' /\ InOrder' /\ Counted'
  <2>1. active' = active
    BY <1>1 DEF active, uncounted, locals
  <2>2. pc \in {"scan", "peek"} => num_active_packets > 1
    BY DEF Running
  <2>3. pc = "memcpy" => staged[slot].valid
    BY DEF Running
  <2> QED BY <1>1, <2>1, <2>2, <2>3, SameRun DEF locals
<1>13. LocalTypes'
  BY <1>1 DEF Types, LocalTypes, locals
<1> QED BY <1>9, <1>10, <1>11, <1>12, <1>13 DEF Types

-----------------------------------------------------------------------------
(* Steps that stage or complete a packet.                                  *)

\* The packet the handler is at: live, not staged, and ahead of what is.
LEMMA AtPacket ==
  ASSUME Inv, pc = "packet_op"
  PROVE  /\ pkt \in Live /\ pkt \in Packets /\ pkt \in Nat /\ ~IsStaged(pkt)
         /\ mymod(pkt) = mymod(rd_idx) /\ posted[pkt].kind # "BARRIER"
         /\ oldest <= pkt
<1> USE DEF Inv
<1>1. mymod(rd_idx) \in RingSlots
  BY SlotRange DEF Types, LocalTypes
<1>2. header[mymod(rd_idx)] = "AGENT_DISPATCH"
  BY DEF Running
<1>3. pkt = InSlot(mymod(rd_idx))
  BY DEF pkt
<1> HIDE DEF pkt
<1>4. pkt \in Live /\ mymod(pkt) = mymod(rd_idx) /\ HeaderOf(posted[pkt]) = "AGENT_DISPATCH"
  BY <1>1, <1>2, <1>3, HeaderLive
<1>5. ~IsStaged(pkt)
  BY DEF Running, IsStaged, Valid
<1>6. posted[pkt].kind # "BARRIER"
  BY <1>4 DEF HeaderOf
<1> QED BY <1>4, <1>5, <1>6, Basics DEF Live

\* A copy whose lane is free is staged.
LEMMA StagePacketInv ==
  ASSUME Inv, StagePacket
  PROVE  Inv'
<1> USE DEF Inv
<1> DEFINE l == posted[pkt].lane
<1>1. /\ UNCHANGED <<posted, moved, skipped, header, read_index, rd_idx, num_active_packets,
                     packets_processed, done, outstanding>>
      /\ pc = "packet_op" /\ pc' = "memcpy" /\ retry' = FALSE
      /\ last_slot' = l /\ slot' = l /\ posted[pkt].kind = "ND" /\ ~staged[l].valid
      /\ staged' = [staged EXCEPT ![l] =
           [valid |-> TRUE, pkt |-> pkt, left |-> Descriptors]]
  BY DEF StagePacket, hostAndDma
<1>2. /\ pkt \in Live /\ pkt \in Packets /\ pkt \in Nat /\ ~IsStaged(pkt)
      /\ mymod(pkt) = mymod(rd_idx) /\ oldest <= pkt
  BY <1>1, AtPacket
<1>3. l \in Lanes /\ posted[pkt] = [kind |-> "ND", lane |-> l]
  BY <1>1, <1>2 DEF Types, RingTypes, PacketKinds
<1>4. /\ Live' = Live /\ Packets' = Packets /\ write_index' = write_index /\ oldest' = oldest
  BY <1>1, SamePackets
<1>5. pkt' = pkt
  BY <1>1, <1>4, PktIs
<1> HIDE DEF l, pkt, Live, Packets, write_index, oldest
<1>6. /\ staged'[l] = [valid |-> TRUE, pkt |-> pkt, left |-> Descriptors]
      /\ \A k \in Lanes : k # l => staged'[k] = staged[k]
  BY <1>1, <1>3 DEF Types, RingTypes
<1>7. \A j : IsStaged(j)' <=> IsStaged(j) \/ j = pkt
  BY <1>1, <1>3, <1>6 DEF IsStaged
<1>8. RingTypes'
  <2>1. staged' \in [Lanes -> [valid : BOOLEAN, pkt : Int, left : Nat]]
    BY <1>1, <1>2, <1>3, DispatchAssumption DEF Types, RingTypes
  <2> QED BY <1>1, <1>4, <2>1 DEF Types, RingTypes
<1>9. LocalTypes'
  BY <1>1, <1>3 DEF Types, LocalTypes
<1>10. Ring'
  BY <1>1, SameSlots
<1>11. Copies'
  <2>1. moved[pkt] = 0 /\ outstanding[l] = 0
    BY <1>1, <1>2, <1>3 DEF Copies
  <2>2. \A k \in Lanes : staged'[k].valid =>
          /\ staged'[k].pkt \in Live
          /\ posted[staged'[k].pkt] = [kind |-> "ND", lane |-> k]
          /\ moved[staged'[k].pkt] + outstanding[k] + staged'[k].left = Descriptors
    BY <1>2, <1>3, <1>6, <2>1, DispatchAssumption DEF Copies
  <2>3. \A k \in Lanes : ~staged'[k].valid => outstanding[k] = 0
    BY <1>6 DEF Copies
  <2> QED BY <1>1, <1>4, <1>7, <2>2, <2>3 DEF Copies
<1>12. Running'
  <2>1. active' = active /\ active \in Int
    BY <1>1 DEF active, uncounted, Types, LocalTypes
  <2>2. Valid' = Valid \cup {l} /\ l \notin Valid
    BY <1>1, <1>3, <1>6 DEF Valid
  <2>3. Cardinality(Valid') = Cardinality(Valid) + 1
    BY <2>2, FiniteLanes, FS_AddElement
  <2>4. mymod(pkt') = mymod(pkt) /\ mymod(rd_idx') = mymod(rd_idx)
    BY <1>1, <1>5
  <2>5. \A k \in Valid' : staged'[k].pkt <= pkt
    <3>1. \A k \in Valid : k \in Lanes /\ staged[k].pkt <= pkt
      BY DEF Running, Valid
    <3> QED BY <1>2, <1>6, <2>2, <3>1
  <2>6. Cardinality(Valid) \in Nat
    BY FiniteLanes
  <2>7. oldest \in Int
    BY Basics
  <2>8. staged'[slot'].valid
    BY <1>1, <1>6
  <2> HIDE DEF Valid, active
  <2> QED BY <1>1, <1>2, <1>4, <1>5, <2>1, <2>3, <2>4, <2>5, <2>6, <2>7, <2>8 DEF Running
<1>13. InOrder'
  <2>1. base' = base
    BY <1>1, <1>5 DEF base, active, uncounted
  <2>2. mymod(base') = mymod(base)
    BY <2>1
  <2> HIDE DEF base
  <2> QED BY <1>1, <1>4, <1>5, <1>7, <2>1, <2>2 DEF InOrder
<1>14. Counted'
  BY <1>1 DEF Counted
<1> QED BY <1>8, <1>9, <1>10, <1>11, <1>12, <1>13, <1>14 DEF Types

\* A window that loses its oldest packet is no larger.
LEMMA Narrower ==
  ASSUME NEW W \in Nat, NEW n \in Nat, NEW j \in Nat, NEW k \in Nat,
         W - j <= n, j <= k
  PROVE  W - k <= n
OBVIOUS

\* Completing a live packet frees its slot and nothing else.
LEMMA CompletedSlot ==
  ASSUME Inv, NEW i \in Live,
         posted' = posted, done' = done \cup {i},
         header' = [header EXCEPT ![mymod(i)] = "INVALID"]
  PROVE  /\ Ring' /\ Live' = Live \ {i} /\ Packets' = Packets
         /\ write_index' = write_index /\ done' \subseteq Packets
         /\ header' \in [RingSlots -> {"INVALID", "AGENT_DISPATCH", "BARRIER"}]
         /\ \A s : InSlot(s)' = InSlot(s)
         /\ Cardinality(done') = Cardinality(done) + 1
         /\ oldest' = OldestOf(write_index, done')
<1> USE DEF Inv
<1>1. write_index' = write_index /\ Packets' = Packets
  BY DEF Packets, write_index
<1>2. \A s : InSlot(s)' = InSlot(s)
  <2> HIDE DEF Packets, write_index
  <2> QED BY <1>1 DEF InSlot
<1>3. /\ write_index \in Nat /\ Packets = 0 .. write_index - 1
      /\ oldest = OldestOf(write_index, done) /\ oldest \in 0 .. write_index
      /\ i \in Packets /\ done \subseteq Packets /\ i \notin done
  BY Basics DEF Live
<1>4. Live' = Live \ {i}
  BY <1>1 DEF Live
<1>5. oldest' = OldestOf(write_index, done')
  BY <1>1 DEF oldest, OldestOf, Packets
<1>6. oldest <= oldest' /\ oldest' \in 0 .. write_index
  <2> HIDE DEF write_index, Packets, oldest
  <2>1. done \subseteq done'
    OBVIOUS
  <2> QED BY <1>3, <1>5, <2>1, OldestComplete, OldestFacts
<1>7. /\ mymod(i) \in RingSlots
      /\ \A j \in Live : mymod(j) = mymod(i) => j = i
  BY LiveSlots
<1>8. header \in [RingSlots -> {"INVALID", "AGENT_DISPATCH", "BARRIER"}]
  BY DEF Types, RingTypes
<1> HIDE DEF write_index, Packets, oldest, Live, InSlot
<1>9. \A j \in Live : j # i => mymod(j) \in RingSlots /\ mymod(j) # mymod(i)
  BY <1>7, LiveSlots
<1>10. Ring'
  <2>1. write_index' - oldest' <= Window
    <3>1. write_index - oldest <= Window
      BY DEF Ring
    <3>2. write_index \in Nat /\ oldest \in Nat /\ Window \in Nat
      BY <1>3, DispatchAssumption
    <3>3. write_index' = write_index /\ oldest' \in Nat /\ oldest <= oldest'
      BY <1>1, <1>3, <1>6
    <3> QED BY <3>1, <3>2, <3>3, Narrower
  <2>2. ASSUME NEW j \in Live'
        PROVE  header'[mymod(j)] = HeaderOf(posted'[j])
    BY <1>4, <1>8, <1>9, <2>2 DEF Ring
  <2>3. ASSUME NEW s \in RingSlots, header'[s] # "INVALID"
        PROVE  \E j \in Live' : mymod(j) = s
    <3>1. s # mymod(i) /\ header[s] # "INVALID"
      BY <1>7, <1>8, <2>3
    <3>2. PICK j \in Live : mymod(j) = s
      BY <3>1 DEF Ring
    <3> QED BY <1>4, <3>1, <3>2
  <2> QED BY <2>1, <2>2, <2>3 DEF Ring
<1>11. Cardinality(done') = Cardinality(done) + 1
  BY <1>3, FiniteDone, FS_AddElement
<1> QED BY <1>1, <1>2, <1>3, <1>4, <1>5, <1>7, <1>8, <1>10, <1>11

\* The handler completes a packet that it passed or is at.
LEMMA CompletedRun ==
  ASSUME Inv, NEW i \in Live, i <= pkt,
         UNCHANGED <<posted, rd_idx, read_index, skipped>>,
         Complete(i),
         posted[i].kind # "BARRIER",
         pc \in {"packet_op", "memcpy"}, pc' = "loop",
         pc = "packet_op" => i = pkt,
         active' = active - 1,
         Cardinality(Valid') = Cardinality(Valid) - (IF pc = "memcpy" THEN 1 ELSE 0),
         \A l \in Valid' : l \in Valid /\ staged'[l].pkt = staged[l].pkt,
         \A j : IsStaged(j)' <=> IsStaged(j) /\ j # i
  PROVE  Running' /\ InOrder' /\ Counted'
<1> USE DEF Inv
<1>1. /\ posted' = posted /\ done' = done \cup {i}
      /\ header' = [header EXCEPT ![mymod(i)] = "INVALID"]
      /\ packets_processed' = packets_processed + 1
  BY DEF Complete
<1>2. /\ Live' = Live \ {i} /\ Packets' = Packets /\ write_index' = write_index
      /\ \A s : InSlot(s)' = InSlot(s) /\ Cardinality(done') = Cardinality(done) + 1
      /\ oldest' = OldestOf(write_index, done')
  BY <1>1, CompletedSlot
<1>3. /\ write_index \in Nat /\ Packets = 0 .. write_index - 1 /\ done \subseteq Packets
      /\ \A j \in Live : j \in Packets /\ j \in Nat /\ j \notin done
      /\ active \in Int /\ packets_processed \in Nat /\ Cardinality(done) \in Nat
      /\ Cardinality(Valid) \in Nat /\ done' \subseteq Packets
  BY <1>1, Basics, FiniteDone, FiniteLanes, CompletedSlot
     DEF Live, active, Types, LocalTypes
<1>4. pkt' = pkt
  BY <1>2, PktIs
<1>5. mymod(pkt') = mymod(pkt) /\ mymod(rd_idx') = mymod(rd_idx)
  BY <1>4
<1>6. pc = "packet_op" \/ Valid # {} \/ ~skipped =>
        pkt \in Packets /\ mymod(pkt) = mymod(rd_idx)
  BY DEF Running
<1>7. /\ oldest' \in 0 .. write_index
      /\ \A j \in 0 .. write_index - 1 : j < oldest' => j \in done'
  BY <1>2, <1>3, OldestFacts
<1> HIDE DEF write_index, Packets, Live, oldest, pkt, Valid, active
<1>8. ASSUME Valid' # {} PROVE oldest' <= pkt + 1
  <2>1. PICK l \in Valid' : TRUE
    BY <1>8
  <2>2. l \in Valid /\ staged'[l].pkt = staged[l].pkt
    OBVIOUS
  <2>3. l \in Lanes /\ staged[l].valid /\ staged[l].pkt \in Live
    BY <2>2 DEF Valid, Copies
  <2>4. IsStaged(staged[l].pkt)'
    BY <2>1, <2>2 DEF Valid, IsStaged
  <2>5. staged[l].pkt # i
    BY <2>4
  <2>6. staged[l].pkt \in Live' /\ staged[l].pkt <= pkt /\ pkt \in Packets
    BY <1>2, <1>6, <2>2, <2>3, <2>5 DEF Running
  <2>7. staged[l].pkt \notin done' /\ staged[l].pkt \in 0 .. write_index - 1
    BY <1>1, <1>2, <1>3, <2>3, <2>5
  <2> QED BY <1>3, <1>7, <2>6, <2>7
<1>9. Running'
  <2>2. active = 1 + Cardinality(Valid) + (IF pc = "packet_op" THEN 1 ELSE 0)
    BY DEF Running
  <2>3. active' = 1 + Cardinality(Valid')
    BY <1>3, <2>2
  <2>4. \A l \in Valid' : staged'[l].pkt <= pkt
    BY DEF Running
  <2>5. ASSUME Valid' # {} \/ ~skipped
        PROVE  pkt \in Packets /\ mymod(pkt) = mymod(rd_idx) /\ oldest' <= pkt + 1
    <3>1. Valid' # {} => Valid # {}
      OBVIOUS
    <3>2. pkt \in Packets /\ mymod(pkt) = mymod(rd_idx)
      BY <1>6, <2>5, <3>1
    <3>3. CASE ~skipped
      <4>1. \A j \in done' : j <= pkt
        BY <1>1, <3>3 DEF InOrder
      <4> QED BY <1>3, <1>7, <3>2, <4>1
    <3> QED BY <1>8, <2>5, <3>2, <3>3
  <2> QED BY <1>2, <1>4, <1>5, <2>3, <2>4, <2>5 DEF Running
<1>10. InOrder'
  <2> SUFFICES ASSUME ~skipped' PROVE InOrder'
    BY DEF InOrder
  <2>1. ~skipped
    OBVIOUS
  <2>2. /\ \A j \in done : posted[j].kind = "BARRIER" => \A k \in 0 .. j - 1 : k \in done
        /\ \A j \in Live : j <= pkt => IsStaged(j) \/ (j = pkt /\ pc = "packet_op")
        /\ \A j \in done : j <= pkt
        /\ base \in Nat /\ read_index = mymod(base)
    BY <2>1 DEF InOrder
  <2>3. base' = base
    BY <1>1, <1>3, <1>4, <1>6, <2>1 DEF base
  <2>4. read_index' = mymod(base')
    BY <2>2, <2>3
  <2>5. \A j \in Live' : j <= pkt => IsStaged(j)'
    BY <1>2, <2>2
  <2>6. \A j \in done' : j <= pkt
    BY <1>1, <2>2
  <2>7. \A j \in done' : posted[j].kind = "BARRIER" => \A k \in 0 .. j - 1 : k \in done'
    BY <1>1, <2>2
  <2> HIDE DEF base
  <2> QED BY <1>1, <1>4, <2>2, <2>3, <2>4, <2>5, <2>6, <2>7 DEF InOrder
<1>11. Counted'
  <2>1. packets_processed <= Cardinality(done)
    BY DEF Counted
  <2>2. packets_processed \in Nat /\ Cardinality(done) \in Nat
    BY <1>3
  <2>3. /\ packets_processed' = packets_processed + 1
        /\ Cardinality(done') = Cardinality(done) + 1
    BY <1>1, <1>2
  <2>4. packets_processed' <= Cardinality(done')
    BY ONLY <2>1, <2>2, <2>3
  <2> QED BY <2>4 DEF Counted
<1> QED BY <1>9, <1>10, <1>11

\* What a completion leaves of the types of the ring.
LEMMA CompletedTypes ==
  ASSUME Inv, NEW i \in Live, UNCHANGED <<posted, moved, outstanding>>, Complete(i),
         staged' \in [Lanes -> [valid : BOOLEAN, pkt : Int, left : Nat]]
  PROVE  RingTypes' /\ packets_processed' \in Nat
<1> USE DEF Inv
<1>1. /\ Packets' = Packets /\ write_index' = write_index /\ done' \subseteq Packets
      /\ header' \in [RingSlots -> {"INVALID", "AGENT_DISPATCH", "BARRIER"}]
  BY CompletedSlot DEF Complete
<1>2. packets_processed' \in Nat
  BY DEF Complete, Types, LocalTypes
<1> HIDE DEF Packets, write_index
<1> QED BY <1>1, <1>2 DEF Types, RingTypes

\* A packet done in one go is complete.
LEMMA HandleAtOnceInv ==
  ASSUME Inv, HandleAtOnce
  PROVE  Inv'
<1> USE DEF Inv
<1>1. /\ UNCHANGED <<posted, moved, skipped, read_index, rd_idx, last_slot, slot,
                     num_active_packets, retry, staged, outstanding>>
      /\ pc = "packet_op" /\ pc' = "loop" /\ Complete(pkt) /\ posted[pkt].kind # "ND"
      /\ done' = done \cup {pkt}
  BY DEF HandleAtOnce, hostAndDma, Complete
<1>2. pkt \in Live /\ pkt \in Nat /\ posted[pkt].kind # "BARRIER" /\ ~IsStaged(pkt)
  BY <1>1, AtPacket
<1>3. Ring' /\ Live' = Live \ {pkt}
  BY <1>1, <1>2, CompletedSlot DEF Complete
<1> HIDE DEF Live, pkt
<1>4. /\ Valid' = Valid /\ \A j : IsStaged(j)' = IsStaged(j)
      /\ Cardinality(Valid') = Cardinality(Valid)
  BY <1>1 DEF Valid, IsStaged
<1>5. RingTypes' /\ packets_processed' \in Nat
  BY <1>1, <1>2, CompletedTypes DEF Types, RingTypes
<1>6. LocalTypes'
  BY <1>1, <1>5 DEF Types, LocalTypes
<1>7. Copies'
  <2>1. \A l \in Lanes : staged[l].valid => staged[l].pkt \in Live'
    BY <1>2, <1>3 DEF Copies, IsStaged
  <2> QED BY <1>1, <1>3, <1>4, <2>1 DEF Copies
<1>8. Running' /\ InOrder' /\ Counted'
  <2>1. active' = active - 1
    BY <1>1 DEF active, uncounted, Types, LocalTypes
  <2>2. Cardinality(Valid') = Cardinality(Valid) - 0
    BY <1>4, FiniteLanes
  <2>3. \A j : IsStaged(j)' <=> IsStaged(j) /\ j # pkt
    BY <1>2, <1>4
  <2>4. pkt <= pkt
    BY <1>2
  <2> HIDE DEF Valid, IsStaged, active
  <2> QED BY <1>1, <1>2, <1>4, <2>1, <2>2, <2>3, <2>4, CompletedRun
<1> QED BY <1>3, <1>5, <1>6, <1>7, <1>8 DEF Types

\* A copy whose lane is idle is complete and its lane is free.
LEMMA CopyDoneInv ==
  ASSUME Inv, CopyDone
  PROVE  Inv'
<1> USE DEF Inv
<1> DEFINE i == staged[slot].pkt
<1>1. /\ UNCHANGED <<posted, moved, skipped, read_index, rd_idx, last_slot, slot, retry,
                     outstanding>>
      /\ pc = "memcpy" /\ pc' = "loop" /\ Complete(i) /\ done' = done \cup {i}
      /\ staged' = [staged EXCEPT ![slot].valid = FALSE]
      /\ staged[slot].left = 0 /\ outstanding[slot] = 0
      /\ num_active_packets' = IF retry THEN num_active_packets - 1 ELSE num_active_packets
  BY DEF CopyDone, hostAndDma, Complete, idle, released
<1>2. slot \in Lanes /\ staged[slot].valid
  BY <1>1 DEF Running, Types, LocalTypes
<1>3. /\ i \in Live /\ posted[i].kind = "ND"
      /\ \A k \in Lanes : staged[k].valid /\ staged[k].pkt = i => k = slot
  BY <1>2, LanePackets
<1>4. moved[i] = Descriptors
  <2>1. moved[i] + outstanding[slot] + staged[slot].left = Descriptors
    BY <1>2 DEF Copies
  <2>2. moved[i] \in Nat
    BY <1>3 DEF Types, RingTypes, Live
  <2> QED BY <1>1, <2>1, <2>2
<1>5. Ring' /\ Live' = Live \ {i}
  BY <1>1, <1>3, CompletedSlot DEF Complete
<1>6. /\ ~staged'[slot].valid
      /\ \A k \in Lanes : k # slot => staged'[k] = staged[k]
      /\ \A k \in Lanes : staged'[k].pkt = staged[k].pkt
      /\ staged' \in [Lanes -> [valid : BOOLEAN, pkt : Int, left : Nat]]
  BY <1>1, <1>2 DEF Types, RingTypes
<1> HIDE DEF Live, i
<1>7. /\ Valid' = Valid \ {slot} /\ slot \in Valid
      /\ \A j : IsStaged(j)' <=> IsStaged(j) /\ j # i
  <2>1. Valid' = Valid \ {slot} /\ slot \in Valid
    BY <1>2, <1>6 DEF Valid
  <2>2. \A j : IsStaged(j)' <=> IsStaged(j) /\ j # i
    BY <1>2, <1>3, <1>6 DEF IsStaged, i
  <2> QED BY <2>1, <2>2
<1>8. RingTypes' /\ packets_processed' \in Nat
  BY <1>1, <1>3, <1>6, CompletedTypes
<1>9. LocalTypes'
  BY <1>1, <1>8 DEF Types, LocalTypes
<1>10. Copies'
  <2>1. \A k \in Lanes : staged'[k].valid =>
          /\ staged'[k].pkt \in Live'
          /\ posted[staged'[k].pkt] = [kind |-> "ND", lane |-> k]
          /\ moved[staged'[k].pkt] + outstanding[k] + staged'[k].left = Descriptors
    BY <1>3, <1>5, <1>6 DEF Copies
  <2>2. \A k \in Lanes : ~staged'[k].valid => outstanding[k] = 0
    BY <1>1, <1>6 DEF Copies
  <2>3. \A j \in Live' : ~IsStaged(j)' => moved[j] = 0
    BY <1>5, <1>7 DEF Copies
  <2>4. \A j \in done' : posted[j].kind = "ND" => moved[j] = Descriptors
    BY <1>1, <1>4 DEF Copies
  <2> QED BY <1>1, <2>1, <2>2, <2>3, <2>4 DEF Copies
<1>11. Running' /\ InOrder' /\ Counted'
  <2>1. active' = active - 1
    BY <1>1 DEF active, uncounted, Types, LocalTypes
  <2>2. Cardinality(Valid') = Cardinality(Valid) - 1
    BY <1>7, FiniteLanes, FS_RemoveElement
  <2>3. i <= pkt
    BY <1>7 DEF Running, i
  <2>4. \A l \in Valid' : l \in Valid /\ staged'[l].pkt = staged[l].pkt
    BY <1>6, <1>7 DEF Valid
  <2> HIDE DEF Valid, IsStaged, active, pkt
  <2> QED BY <1>1, <1>3, <1>7, <2>1, <2>2, <2>3, <2>4, CompletedRun
<1> QED BY <1>5, <1>8, <1>9, <1>10, <1>11 DEF Types

\* Outside the handler a barrier that is there completes in its place.
LEMMA FetchBarrierInv ==
  ASSUME Inv, FetchBarrier
  PROVE  Inv'
<1> USE DEF Inv
<1> DEFINE i == InSlot(mymod(read_index))
<1>1. /\ UNCHANGED <<posted, moved, skipped, rd_idx, last_slot, slot, num_active_packets,
                     packets_processed, retry, pc, staged, outstanding>>
      /\ pc = "main" /\ done' = done \cup {i}
      /\ header[mymod(read_index)] = "BARRIER"
      /\ header' = [header EXCEPT ![mymod(read_index)] = "INVALID"]
      /\ read_index' = mymod(read_index + 1)
  BY DEF FetchBarrier, hostAndDma, locals
<1>2. read_index \in RingSlots /\ read_index \in Nat /\ mymod(read_index) = read_index
  BY SlotIsItself DEF Types, LocalTypes, RingSlots
<1>3. i \in Live /\ mymod(i) = read_index /\ HeaderOf(posted[i]) = "BARRIER"
  BY <1>1, <1>2, HeaderLive
<1>4. posted[i].kind = "BARRIER"
  BY <1>3 DEF HeaderOf
<1>5. Valid = {}
  BY <1>1 DEF Running
<1>6. header' = [header EXCEPT ![mymod(i)] = "INVALID"]
  BY <1>1, <1>2, <1>3
<1> HIDE DEF i
<1>7. /\ Ring' /\ Live' = Live \ {i} /\ Packets' = Packets
      /\ write_index' = write_index /\ done' \subseteq Packets
      /\ header' \in [RingSlots -> {"INVALID", "AGENT_DISPATCH", "BARRIER"}]
      /\ Cardinality(done') = Cardinality(done) + 1
      /\ oldest' = OldestOf(write_index, done')
  BY <1>1, <1>3, <1>6, CompletedSlot
<1>8. /\ write_index \in Nat /\ Packets = 0 .. write_index - 1
      /\ oldest \in 0 .. write_index /\ done \subseteq Packets
      /\ i \in Packets /\ i \notin done /\ oldest <= i /\ i < write_index
  BY <1>3, Basics DEF Live
<1>9. /\ Valid' = {} /\ \A j : ~IsStaged(j) /\ ~IsStaged(j)'
  BY <1>1, <1>5 DEF Valid, IsStaged
<1>10. oldest < write_index => oldest \in Live
  BY Basics
<1> HIDE DEF Live, Packets, write_index, oldest
<1>11. RingTypes'
  BY <1>1, <1>7 DEF Types, RingTypes
<1>12. LocalTypes'
  <2>1. read_index' \in RingSlots
    BY <1>1, <1>2, SlotRange
  <2> QED BY <1>1, <2>1 DEF Types, LocalTypes
<1>13. Copies'
  <2>1. \A l \in Lanes : ~staged[l].valid
    BY <1>5 DEF Valid
  <2>2. "BARRIER" # "ND"
    OBVIOUS
  <2> QED BY <1>1, <1>4, <1>7, <1>9, <2>1, <2>2 DEF Copies
<1>14. Running'
  BY <1>1, <1>9 DEF Running
<1>15. InOrder'
  <2> SUFFICES ASSUME ~skipped' PROVE InOrder'
    BY DEF InOrder
  <2>1. ~skipped
    BY <1>1
  <2>2. /\ \A j \in done : posted[j].kind = "BARRIER" => \A k \in 0 .. j - 1 : k \in done
        /\ \A j \in Packets : j < oldest <=> j \in done
        /\ read_index = mymod(oldest)
    BY <1>1, <2>1 DEF InOrder
  <2>3. i = oldest
    <3>1. oldest \in Live
      BY <1>8, <1>10
    <3> QED BY <1>3, <2>2, <3>1, LiveSlots
  <2>4. \A j \in Packets : j < oldest + 1 <=> j \in done'
    BY <1>1, <1>8, <2>2, <2>3
  <2>5. oldest' = oldest + 1
    <3>1. oldest + 1 \in 0 .. write_index
      BY <1>8, <2>3
    <3>2. \A j \in 0 .. write_index - 1 : j < oldest + 1 => j \in done'
      BY <1>8, <2>4
    <3>3. oldest + 1 < write_index => oldest + 1 \notin done'
      BY <1>8, <2>4
    <3> QED BY <1>7, <1>8, <3>1, <3>2, <3>3, OldestUnique
  <2>6. read_index' = mymod(oldest')
    <3>1. mymod(mymod(oldest) + 1) = mymod(oldest + 1)
      BY <1>8, SlotAhead
    <3>2. read_index' = mymod(oldest + 1)
      BY <1>1, <2>2, <3>1
    <3> QED BY <2>5, <3>2
  <2>7. \A j \in done' : posted[j].kind = "BARRIER" => \A k \in 0 .. j - 1 : k \in done'
    <3> SUFFICES ASSUME NEW j \in done', posted[j].kind = "BARRIER", NEW k \in 0 .. j - 1
                 PROVE  k \in done'
      OBVIOUS
    <3>1. CASE j = i
      <4>1. k \in Packets /\ k < oldest
        BY <1>8, <2>3, <3>1
      <4> QED BY <1>1, <2>2, <4>1
    <3>2. CASE j # i
      BY <1>1, <2>2, <3>2
    <3> QED BY <3>1, <3>2
  <2>8. \A j \in Packets' : j < oldest' <=> j \in done'
    BY <1>7, <2>4, <2>5
  <2> QED BY <1>1, <2>6, <2>7, <2>8 DEF InOrder
<1>16. Counted'
  <2>1. packets_processed <= Cardinality(done)
    BY DEF Counted
  <2>2. packets_processed \in Nat /\ Cardinality(done) \in Nat
    BY FiniteDone DEF Types, LocalTypes
  <2>3. packets_processed' = packets_processed /\ Cardinality(done') = Cardinality(done) + 1
    BY <1>1, <1>7
  <2>4. packets_processed' <= Cardinality(done')
    BY ONLY <2>1, <2>2, <2>3
  <2> QED BY <2>4 DEF Counted
<1> QED BY <1>7, <1>11, <1>12, <1>13, <1>14, <1>15, <1>16 DEF Types

-----------------------------------------------------------------------------
(* The client posts while the window has room.                             *)

\* The slot of a new packet is free, and no run goes past it.
LEMMA PostInv ==
  ASSUME Inv, NEW p \in PacketKinds, Post(p)
  PROVE  Inv'
<1> USE DEF Inv
<1> DEFINE n == write_index
<1>1. /\ UNCHANGED <<read_index, locals, pc, staged, done, outstanding, skipped>>
      /\ n < MaxPackets /\ n - oldest < Window
      /\ posted' = [i \in 0 .. n |-> IF i < n THEN posted[i] ELSE p]
      /\ moved' = [i \in 0 .. n |-> IF i < n THEN moved[i] ELSE 0]
      /\ header' = [header EXCEPT ![mymod(n)] = HeaderOf(p)]
  BY DEF Post
<1>2. /\ n \in Nat /\ Packets = 0 .. n - 1 /\ oldest = OldestOf(n, done)
      /\ oldest \in 0 .. n /\ done \subseteq Packets
      /\ \A i \in Live : i \in Nat /\ oldest <= i /\ i < n
  BY Basics
<1>3. write_index' = n + 1
  <2>1. DOMAIN posted' = 0 .. n
    BY <1>1
  <2>2. Cardinality(0 .. n) = n + 1
    BY <1>2, FS_Interval
  <2> QED BY <2>1, <2>2 DEF write_index
<1>4. Packets' = 0 .. n /\ Packets' = Packets \cup {n} /\ n \notin Packets
  BY <1>2, <1>3 DEF Packets
<1>5. Live' = Live \cup {n} /\ n \notin Live /\ n \notin done
  BY <1>1, <1>2, <1>4 DEF Live
<1>6. oldest' = oldest
  <2>1. oldest' = OldestOf(n + 1, done)
    BY <1>1, <1>3 DEF oldest, OldestOf, Packets
  <2> QED BY <1>2, <2>1, OldestPost
<1>7. Live \subseteq Packets
  BY DEF Live
<1> HIDE DEF n, Packets, Live, oldest
<1>8. /\ \A i \in Packets : posted'[i] = posted[i] /\ moved'[i] = moved[i]
      /\ posted'[n] = p /\ moved'[n] = 0
  BY <1>1, <1>2
<1>9. /\ mymod(n) \in RingSlots
      /\ \A i \in Live : mymod(i) \in RingSlots /\ mymod(i) # mymod(n)
  <2>1. ASSUME NEW i \in Live PROVE mymod(i) \in RingSlots /\ mymod(i) # mymod(n)
    <3>1. n - i < Size /\ i - n < Size /\ i \in Nat /\ i # n
      BY <1>1, <1>2, DispatchAssumption
    <3> QED BY <1>2, <3>1, SameSlot, SlotRange
  <2> QED BY <1>2, <2>1, SlotRange
<1>10. HeaderOf(p) \in {"AGENT_DISPATCH", "BARRIER"}
  BY DEF HeaderOf
<1>11. header \in [RingSlots -> {"INVALID", "AGENT_DISPATCH", "BARRIER"}]
  BY DEF Types, RingTypes
<1>12. /\ header'[mymod(n)] = HeaderOf(p)
       /\ \A s \in RingSlots : s # mymod(n) => header'[s] = header[s]
  BY <1>1, <1>9, <1>11
<1>13. RingTypes'
  <2>1. posted' \in [0 .. n -> PacketKinds]
    BY <1>1, <1>2 DEF Types, RingTypes
  <2>2. moved' \in [0 .. n -> Nat]
    BY <1>1, <1>2 DEF Types, RingTypes
  <2>3. header' \in [RingSlots -> {"INVALID", "AGENT_DISPATCH", "BARRIER"}]
    BY <1>1, <1>9, <1>10, <1>11
  <2>4. n + 1 \in 0 .. MaxPackets
    BY <1>1, <1>2, DispatchAssumption
  <2>5. DOMAIN posted' = 0 .. n
    BY <1>1
  <2>6. done' \subseteq Packets'
    BY <1>1, <1>2, <1>4
  <2> QED BY <1>1, <1>3, <1>4, <2>1, <2>2, <2>3, <2>4, <2>5, <2>6 DEF Types, RingTypes
<1>14. LocalTypes'
  BY <1>1 DEF Types, LocalTypes, locals
<1>15. Ring'
  <2>1. write_index' - oldest' <= Window
    <3>1. n \in Nat /\ oldest \in Nat /\ Window \in Nat
      BY <1>2, DispatchAssumption
    <3>2. write_index' = n + 1 /\ oldest' = oldest /\ n - oldest < Window
      BY <1>1, <1>3, <1>6
    <3>3. (n + 1) - oldest <= Window
      BY ONLY <3>1, <3>2
    <3> QED BY ONLY <3>2, <3>3, Zenon
  <2>2. \A i \in Live' : header'[mymod(i)] = HeaderOf(posted'[i])
    BY <1>5, <1>7, <1>8, <1>9, <1>12 DEF Ring
  <2>3. \A s \in RingSlots : header'[s] # "INVALID" => \E i \in Live' : mymod(i) = s
    BY <1>5, <1>12 DEF Ring
  <2> QED BY <2>1, <2>2, <2>3 DEF Ring
<1>16. /\ Valid' = Valid /\ \A i : IsStaged(i)' = IsStaged(i)
       /\ \A l \in Valid : staged[l].pkt \in Live
  BY <1>1 DEF Valid, IsStaged, Copies
<1>17. Copies'
  <2>1. \A l \in Lanes : staged[l].valid =>
          /\ staged[l].pkt \in Live'
          /\ posted'[staged[l].pkt] = [kind |-> "ND", lane |-> l]
          /\ moved'[staged[l].pkt] + outstanding[l] + staged[l].left = Descriptors
    BY <1>5, <1>7, <1>8 DEF Copies
  <2>2. \A i \in Live' : ~IsStaged(i)' => moved'[i] = 0
    BY <1>5, <1>7, <1>8, <1>16 DEF Copies
  <2>3. \A i \in done : posted'[i].kind = "ND" => moved'[i] = Descriptors
    BY <1>2, <1>8 DEF Copies
  <2>4. \A l \in Lanes : ~staged[l].valid => outstanding[l] = 0
    BY DEF Copies
  <2> QED BY <1>1, <2>1, <2>2, <2>3, <2>4 DEF Copies
<1>18. ASSUME pkt \in Packets, mymod(pkt) = mymod(rd_idx), oldest <= pkt + 1
       PROVE  pkt' = pkt
  <2>1. InSlotOf(write_index + 1, mymod(pkt)) = pkt
    BY <1>1, <1>18, Recent DEF n
  <2>2. rd_idx' = rd_idx /\ write_index' = write_index + 1
    BY <1>1, <1>3 DEF locals, n
  <2>3. InSlotOf(write_index', mymod(rd_idx')) = InSlotOf(write_index + 1, mymod(pkt))
    BY <1>18, <2>2
  <2> QED BY <2>1, <2>3, PktIs
<1>19. pc # "main" /\ (Valid # {} \/ pc = "packet_op" \/ ~skipped) =>
         /\ pkt \in Packets /\ mymod(pkt) = mymod(rd_idx) /\ oldest <= pkt + 1
         /\ pkt' = pkt
  BY <1>18 DEF Running
<1>20. rd_idx' = rd_idx /\ pc' = pc /\ staged' = staged /\ done' = done
       /\ skipped' = skipped /\ active' = active /\ slot' = slot
       /\ num_active_packets' = num_active_packets /\ read_index' = read_index
       /\ packets_processed' = packets_processed
  BY <1>1 DEF locals, active, uncounted
<1>21. Running'
  <2>1. pc = "packet_op" => header'[mymod(rd_idx)] = "AGENT_DISPATCH"
    <3> SUFFICES ASSUME pc = "packet_op"
                 PROVE  header'[mymod(rd_idx)] = "AGENT_DISPATCH"
      OBVIOUS
    <3>1. pkt \in Live /\ mymod(pkt) = mymod(rd_idx)
      BY AtPacket
    <3>2. header[mymod(rd_idx)] = "AGENT_DISPATCH"
      BY DEF Running
    <3> HIDE DEF pkt
    <3>3. mymod(rd_idx) \in RingSlots /\ mymod(rd_idx) # mymod(n)
      BY <1>9, <3>1
    <3> QED BY <1>12, <3>2, <3>3
  <2>2. /\ mymod(rd_idx') = mymod(rd_idx) /\ Cardinality(Valid') = Cardinality(Valid)
    BY <1>16, <1>20
  <2>3. pkt' = pkt => mymod(pkt') = mymod(pkt)
    OBVIOUS
  <2>4. pc # "main" /\ (Valid # {} \/ pc = "packet_op" \/ ~skipped) =>
          pkt' \in Packets' /\ mymod(pkt') = mymod(rd_idx) /\ oldest' <= pkt' + 1
    BY <1>4, <1>6, <1>19, <2>3
  <2>5. pc = "main" => Valid = {}
    BY DEF Running
  <2>6. \A l \in Valid : staged[l].pkt <= pkt' /\ (pc = "packet_op" => staged[l].pkt # pkt')
    BY <1>19, <2>5 DEF Running
  <2> HIDE DEF pkt, Valid, active
  <2> QED BY <1>16, <1>20, <2>1, <2>2, <2>4, <2>5, <2>6 DEF Running
<1>22. InOrder'
  <2> SUFFICES ASSUME ~skipped' PROVE InOrder'
    BY DEF InOrder
  <2>1. ~skipped
    BY <1>20
  <2>2. \A i \in done' : posted'[i].kind = "BARRIER" => \A k \in 0 .. i - 1 : k \in done'
    BY <1>2, <1>8, <1>20, <2>1 DEF InOrder
  <2>3. CASE pc = "main"
    <3>1. (\A i \in Packets : i < oldest <=> i \in done) /\ read_index = mymod(oldest)
      BY <2>1, <2>3 DEF InOrder
    <3>2. \A i \in Packets' : i < oldest' <=> i \in done'
      BY <1>2, <1>4, <1>5, <1>6, <1>20, <3>1
    <3>3. read_index' = mymod(oldest')
      BY <1>6, <1>20, <3>1
    <3> QED BY <1>20, <2>2, <2>3, <3>2, <3>3 DEF InOrder
  <2>4. CASE pc # "main"
    <3>1. pkt' = pkt /\ pkt \in Packets
      BY <1>19, <2>1, <2>4
    <3>2. /\ \A i \in Live : i <= pkt => IsStaged(i) \/ (i = pkt /\ pc = "packet_op")
          /\ \A i \in done : i <= pkt
          /\ base \in Nat /\ read_index = mymod(base)
      BY <2>1, <2>4 DEF InOrder
    <3>3. base' = base
      BY <1>20, <3>1 DEF base
    <3>4. read_index' = mymod(base')
      BY <1>20, <3>2, <3>3
    <3> HIDE DEF base, pkt
    <3>5. ~ (n <= pkt)
      BY <1>2, <3>1
    <3>6. \A i \in Live' : i <= pkt => IsStaged(i)' \/ (i = pkt /\ pc = "packet_op")
      BY <1>5, <1>16, <3>2, <3>5
    <3> QED BY <1>20, <2>2, <2>4, <3>1, <3>2, <3>3, <3>4, <3>6 DEF InOrder
  <2> QED BY <2>3, <2>4
<1>23. Counted'
  BY <1>20 DEF Counted
<1> QED BY <1>13, <1>14, <1>15, <1>17, <1>21, <1>22, <1>23 DEF Types

-----------------------------------------------------------------------------
(* The theorems.                                                           *)

\* Every step keeps the invariant.
LEMMA NextInv ==
  ASSUME Inv, [Next]_vars
  PROVE  Inv'
<1>1. CASE Next
  <2>1. ASSUME NEW p \in PacketKinds, Post(p) PROVE Inv'
    BY <2>1, PostInv
  <2>2. ASSUME NEW l \in Lanes, Finish(l) PROVE Inv'
    BY <2>2, FinishInv
  <2>3. CASE Controller
    BY <2>3, FetchDispatchInv, FetchBarrierInv, HandleAtOnceInv, LaneBusyInv,
       StagePacketInv, PushDescriptorInv, CopyUnfinishedInv, CopyDoneInv,
       LoopInv, ScanInv, PeekInv, ReturnInv DEF Controller
  <2> QED BY <1>1, <2>1, <2>2, <2>3 DEF Next
<1>2. CASE UNCHANGED vars
  <2>1. UNCHANGED <<posted, header, done>>
    BY <1>2 DEF vars
  <2>2. /\ Live' = Live /\ oldest' = oldest /\ Packets' = Packets
        /\ write_index' = write_index
    BY <2>1, SamePackets
  <2>3. Ring'
    BY <2>1, SameSlots
  <2>4. Valid' = Valid /\ \A i : IsStaged(i)' = IsStaged(i)
    BY <1>2 DEF vars, Valid, IsStaged
  <2>5. Running' /\ InOrder' /\ Counted'
    <3>1. active' = active
      BY <1>2 DEF active, uncounted, vars, locals
    <3>2. /\ pc = "memcpy" => staged[slot].valid
          /\ pc \in {"scan", "peek"} => num_active_packets > 1
      BY DEF Inv, Running
    <3> QED BY <1>2, <3>1, <3>2, SameRun DEF vars, locals
  <2> HIDE DEF Live, oldest, Packets, write_index
  <2>6. Copies'
    BY <1>2, <2>2, <2>4 DEF Inv, Copies, vars
  <2>7. Types'
    BY <1>2, <2>2 DEF Inv, Types, RingTypes, LocalTypes, vars, locals
  <2> QED BY <2>3, <2>5, <2>6, <2>7 DEF Inv
<1> QED BY <1>1, <1>2

\* The invariant holds in every state of every behaviour.
THEOREM Invariant == Spec => []Inv
BY InitInv, NextInv, PTL DEF Spec

\* The state of the ring, the staging slots and the handler keeps its types,
\* and the counters their bounds: at most one active packet for each lane, and
\* one more.
THEOREM TypeCorrect == Spec => []TypeOK
<1>1. Inv => TypeOK
  <2> SUFFICES ASSUME Inv PROVE TypeOK
    OBVIOUS
  <2> USE DEF Inv
  <2>1. Cardinality(Valid) \in 0 .. max_slot + 1 /\ max_slot \in Nat
    BY FiniteLanes, DispatchAssumption
  <2>2. num_active_packets \in 1 .. max_slot + 2
    <3>1. CASE pc = "main"
      BY <2>1, <3>1 DEF Running
    <3>2. CASE pc = "memcpy" /\ ~retry
      <4>1. slot \in Valid
        BY <3>2 DEF Running, Valid, Types, LocalTypes
      <4>2. Cardinality(Valid) # 0
        BY <4>1, FiniteLanes
      <4>3. num_active_packets + 1 = 1 + Cardinality(Valid) /\ num_active_packets \in Int
        BY <2>1, <3>2 DEF Running, active, uncounted, Types, LocalTypes
      <4> QED BY ONLY <2>1, <4>2, <4>3
    <3>3. CASE pc = "packet_op"
      <4>1. num_active_packets + 1 = 1 + Cardinality(Valid) + 1 /\ num_active_packets \in Int
        BY <2>1, <3>3 DEF Running, active, uncounted, Types, LocalTypes
      <4> QED BY ONLY <2>1, <4>1
    <3>4. CASE pc \notin {"main", "packet_op"} /\ ~ (pc = "memcpy" /\ ~retry)
      <4>1. num_active_packets = 1 + Cardinality(Valid)
        BY <2>1, <3>4 DEF Running, active, uncounted, Types, LocalTypes
      <4> QED BY ONLY <2>1, <4>1
    <3> QED BY <3>1, <3>2, <3>3, <3>4
  <2>3. packets_processed \in 0 .. MaxPackets
    <3>1. /\ packets_processed <= Cardinality(done) /\ Cardinality(done) <= write_index
          /\ Cardinality(done) \in Nat
      BY FiniteDone DEF Counted
    <3>2. packets_processed \in Nat /\ write_index \in Nat /\ write_index <= MaxPackets
          /\ MaxPackets \in Nat
      BY DispatchAssumption DEF Types, RingTypes, LocalTypes
    <3> QED BY ONLY <3>1, <3>2
  <2> QED BY <2>2, <2>3 DEF TypeOK, Types, RingTypes, LocalTypes
<1> QED BY <1>1, Invariant, PTL

\* No copy is staged twice, or resumed after it completed or its slot was
\* given to another packet.
THEOREM StagedLive == Spec => []StagedIsLive
<1>1. Inv => StagedIsLive
  <2> SUFFICES ASSUME Inv, NEW l \in Lanes, staged[l].valid
               PROVE  /\ staged[l].pkt \notin done
                      /\ header[mymod(staged[l].pkt)] = "AGENT_DISPATCH"
                      /\ posted[staged[l].pkt] = [kind |-> "ND", lane |-> l]
    BY DEF StagedIsLive
  <2>1. /\ staged[l].pkt \in Live
        /\ posted[staged[l].pkt] = [kind |-> "ND", lane |-> l]
    BY DEF Inv, Copies
  <2>2. posted[staged[l].pkt].kind # "BARRIER"
    BY <2>1, CopyFields
  <2>3. header[mymod(staged[l].pkt)] = HeaderOf(posted[staged[l].pkt])
    BY <2>1 DEF Inv, Ring
  <2> QED BY <2>1, <2>2, <2>3 DEF HeaderOf, Live
<1> QED BY <1>1, Invariant, PTL

\* A copy is reported complete only after the DMA finished all of it.
THEOREM CompletionIsHonest == Spec => []CompleteMeansMoved
<1>1. Inv => CompleteMeansMoved
  BY DEF Inv, Copies, CompleteMeansMoved
<1> QED BY <1>1, Invariant, PTL

\* A barrier packet waits for the packets before it while no copy is passed over.
THEOREM BarriersOrder == Spec => []BarrierOrders
<1>1. Inv => BarrierOrders
  BY DEF Inv, InOrder, BarrierOrders
<1> QED BY <1>1, Invariant, PTL

\* The count of completions takes the read index to the first packet that is
\* not complete.
THEOREM ReadIndexCorrect == Spec => []ReadIndexExact
<1>1. Inv => ReadIndexExact
  BY DEF Inv, InOrder, ReadIndexExact
<1> QED BY <1>1, Invariant, PTL
=============================================================================
