--------------------------- MODULE BarriersProofs ---------------------------
(***************************************************************************)
(* What a barrier packet promises holds for any number of controllers, any *)
(* ring and any number of dependencies, although a dependency is only the  *)
(* address of a slot. The packets of a queue are numbered: the witness     *)
(* rank gives a packet's number in its queue and passed how many of a      *)
(* queue are complete, neither of which the code keeps.                    *)
(***************************************************************************)
EXTENDS Barriers, IndexLemmas, WellFoundedInduction, TLAPS

Agent(i) == posted[i].agent
Slot(i) == posted[i].slot

\* Every packet that was ever in the slot is complete.
Clear(a, s) == Occupants(a, s) \subseteq done

Types ==
  /\ \E n \in 0 .. MaxPackets : Packets = 0 .. n - 1
  /\ posted \in [Packets -> [agent : Agents, slot : Slots, kind : Kinds,
                             deps : [Deps -> Packets \cup {Null}]]]
  /\ armed \subseteq Packets /\ late \subseteq done
  /\ write_index \in [Agents -> Nat]
  /\ read_index \in [Agents -> Slots]
  /\ valid \in [Agents -> [Slots -> BOOLEAN]]
  /\ signal \in [Agents -> [Slots -> 0 .. Word - 1]]
  /\ pc \in [Agents -> {"main", "and", "or", "poll"}]
  /\ dep \in [Agents -> Deps]
  /\ done \subseteq Packets

\* rank numbers the packets of each queue in the order of posting, and the
\* first passed[a] of them are those complete; the rest fit the ring.
Numbered(rank, passed) ==
  /\ \A i \in Packets : rank[i] < write_index[Agent(i)] /\ Slot(i) = mymod(rank[i])
  /\ \A i, j \in Packets : Agent(i) = Agent(j) => (i < j <=> rank[i] < rank[j])
  /\ \A a \in Agents : \A m \in 0 .. write_index[a] - 1 :
       \E i \in Packets : Agent(i) = a /\ rank[i] = m
  /\ \A i \in Packets : i \in done <=> rank[i] < passed[Agent(i)]
  /\ \A a \in Agents : /\ passed[a] <= write_index[a]
                       /\ write_index[a] <= passed[a] + Size
                       /\ read_index[a] = mymod(passed[a])

\* The header of a slot says whether its packets are complete.
SlotsTell == \A a \in Agents, s \in Slots : valid[a][s] <=> ~Clear(a, s)

\* A signal that is set says whether its packet is complete, until it is set
\* again or the slot is used again.
SignalsTell ==
  \A a \in Agents, s \in Slots : \A i \in armed \cap Occupants(a, s) :
    /\ i \notin done => signal[a][s] = 1
    /\ i \in done \ late /\ InSlot(a, s) = i => signal[a][s] = 0

\* Barriers name packets posted before them whose signal is set.
NamedAreArmed ==
  \A i \in Packets, k \in Deps :
    LET d == posted[i].deps[k] IN d # Null => d \in armed /\ d < i

\* What the handler of a barrier has seen so far.
Handling ==
  \A a \in Agents : pc[a] # "main" =>
    /\ valid[a][mymod(read_index[a])]
    /\ pc[a] = "and" =>
         /\ posted[head(a)].kind = "AND"
         /\ \A k \in Deps : k < dep[a] => posted[head(a)].deps[k] \in done \cup {Null}
    /\ pc[a] \in {"or", "poll"} => posted[head(a)].kind = "OR"
    /\ pc[a] = "poll" => posted[head(a)].deps[dep[a]] # Null

\* A barrier packet's dependencies allow its completion.
Met(i) ==
  /\ posted[i].kind = "AND" => \A k \in Deps : posted[i].deps[k] \in done \cup {Null}
  /\ posted[i].kind = "OR" => \E k \in Deps : posted[i].deps[k] \in done

AllMet == \A i \in done : Met(i)

InvFor(rank, passed) ==
  Types /\ Numbered(rank, passed) /\ SlotsTell /\ SignalsTell /\ NamedAreArmed
        /\ Handling /\ AllMet

Inv == \E rank \in [Packets -> Nat], passed \in [Agents -> Nat] : InvFor(rank, passed)

-----------------------------------------------------------------------------
(* What follows from the invariant.                                        *)

\* A slot is one of the ring.
LEMMA SlotRange ==
  ASSUME NEW i \in Nat
  PROVE  mymod(i) \in Slots
BY BarrierAssumption, DivMod DEF mymod, Slots

\* read_index is a slot already.
LEMMA SlotIsItself ==
  ASSUME NEW s \in Slots
  PROVE  mymod(s) = s
BY BarrierAssumption, SlotOfSlot DEF mymod, Slots

\* Numbers in one slot that are less than the ring apart are the same.
LEMMA SameSlot ==
  ASSUME NEW i \in Nat, NEW j \in Nat, i - j < Size, j - i < Size,
         mymod(i) = mymod(j)
  PROVE  i = j
BY BarrierAssumption, SameSlotSameIndex DEF mymod

\* The slot after a slot is the slot of the next number.
LEMMA SlotNext ==
  ASSUME NEW i \in Nat
  PROVE  mymod(mymod(i) + 1) = mymod(i + 1)
BY BarrierAssumption, SlotSuccessor DEF mymod

\* Once round the ring is the same slot.
LEMMA SlotAround ==
  ASSUME NEW i \in Nat
  PROVE  mymod(i + Size) = mymod(i)
<1> DEFINE p == i \div Size
           r == i % Size
           m == i + Size
           u == m \div Size
           v == m % Size
<1>1. Size \in Nat \ {0} /\ m \in Nat
  BY BarrierAssumption
<1>2. r \in 0 .. Size - 1 /\ i = Size * p + r /\ p \in Nat
  BY <1>1, DivMod
<1> HIDE DEF m, p, r
<1>3. v \in 0 .. Size - 1 /\ m = Size * u + v /\ u \in Nat
  BY <1>1, DivMod
<1> HIDE DEF u, v
<1>4. m = Size * (p + 1) + r
  <2>1. Size * (p + 1) = Size * p + Size
    BY <1>1, <1>2
  <2> QED BY <1>1, <1>2, <2>1 DEF m
<1>5. v = r
  <2>1. Size * u + v = Size * (p + 1) + r /\ p + 1 \in Int /\ u \in Int
    BY <1>2, <1>3, <1>4
  <2> QED BY <1>1, <1>2, <1>3, <2>1, UniqueRemainder
<1> QED BY <1>5 DEF v, r, m, mymod

\* How many packets there are.
LEMMA Total ==
  ASSUME \E n \in 0 .. MaxPackets : Packets = 0 .. n - 1
  PROVE  total \in 0 .. MaxPackets /\ Packets = 0 .. total - 1
BY DEF total

\* The packet at the read index of a queue, when there is one: the first that
\* is not complete, and the last in its slot.
LEMMA HeadFact ==
  ASSUME NEW rank \in [Packets -> Nat], NEW passed \in [Agents -> Nat],
         InvFor(rank, passed), NEW a \in Agents, valid[a][mymod(read_index[a])]
  PROVE  /\ head(a) \in Packets /\ head(a) \notin done
         /\ Agent(head(a)) = a /\ Slot(head(a)) = read_index[a]
         /\ rank[head(a)] = passed[a] /\ mymod(read_index[a]) = read_index[a]
         /\ \A j \in Occupants(a, read_index[a]) : j = head(a) \/ j \in done
<1> USE DEF InvFor
<1>1. /\ read_index[a] \in Slots /\ mymod(read_index[a]) = read_index[a]
      /\ read_index[a] = mymod(passed[a])
  BY SlotIsItself DEF Types, Numbered
<1> DEFINE O == Occupants(a, read_index[a])
<1>2. PICK i \in O : i \notin done
  BY <1>1 DEF SlotsTell, Clear
<1>3. ASSUME NEW j \in O, j \notin done
      PROVE  rank[j] = passed[a]
  <2>1. /\ j \in Packets /\ Agent(j) = a /\ Slot(j) = read_index[a]
    BY DEF Occupants, Agent, Slot
  <2>2. /\ ~ (rank[j] < passed[a]) /\ rank[j] < write_index[a]
        /\ write_index[a] <= passed[a] + Size
        /\ mymod(rank[j]) = mymod(passed[a])
    BY <1>1, <1>3, <2>1 DEF Numbered
  <2>3. rank[j] \in Nat /\ passed[a] \in Nat /\ write_index[a] \in Nat /\ Size \in Nat
    BY <2>1, BarrierAssumption DEF Types
  <2>4. rank[j] - passed[a] < Size /\ passed[a] - rank[j] < Size
    BY <2>2, <2>3, BarrierAssumption
  <2> QED BY <2>2, <2>3, <2>4, SameSlot
<1>4. /\ i \in Packets /\ Agent(i) = a /\ Slot(i) = read_index[a]
      /\ \A j \in O : j \in Packets /\ Agent(j) = a
  BY DEF Occupants, Agent, Slot
<1>5. rank[i] = passed[a]
  BY <1>2, <1>3
<1>6. \A j \in O : j \in Int
  <2>1. PICK n \in 0 .. MaxPackets : Packets = 0 .. n - 1
    BY DEF Types
  <2> QED BY <1>4, <2>1, BarrierAssumption
<1>7. \A j \in O : j # i => j \in done
  <2> SUFFICES ASSUME NEW j \in O, j \notin done PROVE j = i
    OBVIOUS
  <2>1. rank[j] = rank[i]
    BY <1>3, <1>5
  <2>2. rank[j] \in Nat
    BY <1>4
  <2>3. ~ (i < j) /\ ~ (j < i)
    BY <1>4, <2>1, <2>2 DEF Numbered
  <2> QED BY <1>6, <2>3
<1>8. \A j \in O : j <= i
  <2> SUFFICES ASSUME NEW j \in O, j \in done PROVE j <= i
    BY <1>6, <1>7
  <2>1. rank[j] < rank[i]
    BY <1>4, <1>5 DEF Numbered
  <2>2. j < i
    BY <1>4, <2>1 DEF Numbered
  <2> QED BY <1>6, <2>2
<1>9. \A h \in O : (\A j \in O : j <= h) => h = i
  BY <1>6, <1>8
<1>10. head(a) = CHOOSE h \in O : \A j \in O : j <= h
  BY <1>1 DEF head, InSlot
<1> HIDE DEF O
<1>11. head(a) = i
  BY <1>8, <1>9, <1>10
<1> QED BY <1>1, <1>2, <1>4, <1>5, <1>7, <1>11 DEF O

\* The packet of a slot is the one posted there after all others.
LEMMA Latest ==
  ASSUME NEW O, O \subseteq Int, NEW h \in O, \A j \in O : j <= h
  PROVE  (CHOOSE g \in O : \A j \in O : j <= g) = h
<1>1. \A g \in O : (\A j \in O : j <= g) => g = h
  OBVIOUS
<1> QED BY <1>1

\* The packets are numbers.
LEMMA OccupantsInt ==
  ASSUME Types, NEW a, NEW s
  PROVE  Occupants(a, s) \subseteq Packets /\ Occupants(a, s) \subseteq Int
<1>1. PICK n \in 0 .. MaxPackets : Packets = 0 .. n - 1
  BY DEF Types
<1> QED BY <1>1, BarrierAssumption DEF Occupants

\* A zero at a dependency's address means that the dependency is complete,
\* whatever packet has its slot now.
LEMMA ZeroMeansDone ==
  ASSUME Types, SignalsTell, NamedAreArmed,
         NEW i \in Packets, NEW k \in Deps, Value(i, k) = 0
  PROVE  posted[i].deps[k] \in done \cup {Null}
<1> DEFINE d == posted[i].deps[k]
<1>1. CASE d # Null
  <2>1. d \in armed /\ signal[Agent(d)][Slot(d)] = 0
    BY <1>1 DEF NamedAreArmed, Value, Agent, Slot
  <2>2. Agent(d) \in Agents /\ Slot(d) \in Slots /\ d \in Occupants(Agent(d), Slot(d))
    BY <2>1 DEF Types, Occupants, Agent, Slot
  <2>3. ~ (d \notin done)
    BY <2>1, <2>2 DEF SignalsTell
  <2> QED BY <2>3
<1> QED BY <1>1

-----------------------------------------------------------------------------
(* The initial states.                                                     *)

\* Nothing is posted: every slot is clear.
LEMMA InitInv == Init => Inv
<1> SUFFICES ASSUME Init PROVE Inv
  OBVIOUS
<1> DEFINE r == [i \in Packets |-> 0]
           p == [a \in Agents |-> 0]
<1>1. Packets = {} /\ done = {}
  BY DEF Init, Packets
<1>2. r \in [Packets -> Nat] /\ p \in [Agents -> Nat]
  OBVIOUS
<1>3. Types
  <2>1. 0 \in 0 .. MaxPackets /\ Packets = 0 .. 0 - 1 /\ 0 \in Slots /\ 1 \in Deps
    BY <1>1, BarrierAssumption DEF Slots, Deps
  <2>2. \E n \in 0 .. MaxPackets : Packets = 0 .. n - 1
    BY <2>1
  <2>3. posted \in [Packets -> [agent : Agents, slot : Slots, kind : Kinds,
                                deps : [Deps -> Packets \cup {Null}]]]
    BY <1>1 DEF Init, Packets
  <2>4. armed \subseteq Packets /\ late \subseteq done /\ done \subseteq Packets
    BY <1>1 DEF Init
  <2>5. 0 \in 0 .. Word - 1
    BY BarrierAssumption
  <2>6. signal \in [Agents -> [Slots -> 0 .. Word - 1]]
    BY <2>5 DEF Init
  <2> QED BY <2>1, <2>2, <2>3, <2>4, <2>6 DEF Types, Init
<1>4. Numbered(r, p)
  <2>1. mymod(0) = 0
    BY BarrierAssumption, SlotIsItself DEF Slots
  <2>2. \A a \in Agents : write_index[a] = 0 /\ read_index[a] = 0 /\ p[a] = 0
    BY DEF Init
  <2>3. \A a \in Agents : \A m \in 0 .. write_index[a] - 1 : FALSE
    <3> SUFFICES ASSUME NEW a \in Agents, NEW m \in 0 .. write_index[a] - 1
                 PROVE  FALSE
      OBVIOUS
    <3>1. write_index[a] = 0
      BY <2>2
    <3> QED BY <3>1
  <2> HIDE DEF p, r
  <2>4. ASSUME NEW a \in Agents
        PROVE  /\ p[a] <= write_index[a]
               /\ write_index[a] <= p[a] + Size
               /\ read_index[a] = mymod(p[a])
    <3>1. write_index[a] = 0 /\ read_index[a] = 0 /\ p[a] = 0 /\ Size \in Nat
      BY <2>2, BarrierAssumption
    <3> QED BY ONLY <2>1, <3>1
  <2> QED BY <1>1, <2>3, <2>4 DEF Numbered
<1>5. SlotsTell
  <2>1. \A a \in Agents, s \in Slots : Clear(a, s)
    BY <1>1 DEF Clear, Occupants
  <2> QED BY <2>1 DEF SlotsTell, Init
<1>6. SignalsTell /\ NamedAreArmed
  BY <1>1 DEF SignalsTell, NamedAreArmed, Init
<1>7. Handling /\ AllMet
  BY <1>1 DEF Handling, AllMet, Init
<1> QED BY <1>2, <1>3, <1>4, <1>5, <1>6, <1>7 DEF Inv, InvFor

-----------------------------------------------------------------------------
(* A handler that only looks: it moves to another address or to its poll.  *)

\* Such a step leaves the rings alone; what it has seen comes with it.
LEMMA GotoInv ==
  ASSUME NEW rank \in [Packets -> Nat], NEW passed \in [Agents -> Nat],
         InvFor(rank, passed), NEW a \in Agents,
         NEW label \in {"and", "or", "poll"}, NEW k \in Deps, Goto(a, label, k),
         valid[a][mymod(read_index[a])],
         label = "and" =>
           /\ posted[head(a)].kind = "AND"
           /\ \A j \in Deps : j < k => posted[head(a)].deps[j] \in done \cup {Null},
         label \in {"or", "poll"} => posted[head(a)].kind = "OR",
         label = "poll" => posted[head(a)].deps[k] # Null
  PROVE  InvFor(rank, passed)'
<1> USE DEF InvFor
<1>1. /\ pc' = [pc EXCEPT ![a] = label] /\ dep' = [dep EXCEPT ![a] = k]
      /\ posted' = posted /\ write_index' = write_index /\ read_index' = read_index
      /\ valid' = valid /\ signal' = signal /\ done' = done
      /\ armed' = armed /\ late' = late
  BY DEF Goto
<1>2. Types'
  BY <1>1 DEF Types, Packets
<1>3. Numbered(rank, passed)'
  BY <1>1 DEF Numbered, Packets, Agent, Slot
<1>4. SlotsTell' /\ AllMet'
  BY <1>1 DEF SlotsTell, Clear, Occupants, Packets, AllMet, Met
<1>6. SignalsTell' /\ NamedAreArmed'
  <2>1. \A b, t : InSlot(b, t)' = InSlot(b, t)
    BY <1>1 DEF InSlot, Occupants, Packets
  <2>2. SignalsTell'
    BY <1>1, <2>1 DEF SignalsTell, Occupants, Packets
  <2> QED BY <1>1, <2>2 DEF NamedAreArmed, Packets
<1>5. Handling'
  <2> SUFFICES ASSUME NEW b \in Agents, pc'[b] # "main"
               PROVE  (/\ valid[b][mymod(read_index[b])]
                       /\ pc[b] = "and" =>
                            /\ posted[head(b)].kind = "AND"
                            /\ \A j \in Deps : j < dep[b] =>
                                 posted[head(b)].deps[j] \in done \cup {Null}
                       /\ pc[b] \in {"or", "poll"} => posted[head(b)].kind = "OR"
                       /\ pc[b] = "poll" => posted[head(b)].deps[dep[b]] # Null)'
    BY DEF Handling
  <2>1. head(b)' = head(b)
    BY <1>1 DEF head, InSlot, Occupants, Packets
  <2>2. CASE b = a
    <3>1. pc'[b] = label /\ dep'[b] = k
      BY <1>1, <2>2 DEF Types
    <3> QED BY <1>1, <2>1, <2>2, <3>1
  <2>3. CASE b # a
    <3>1. pc'[b] = pc[b] /\ dep'[b] = dep[b]
      BY <1>1, <2>3 DEF Types
    <3> QED BY <1>1, <2>1, <3>1 DEF Handling
  <2> QED BY <2>2, <2>3
<1> QED BY <1>2, <1>3, <1>4, <1>5, <1>6

-----------------------------------------------------------------------------
(* A completion: the head of the queue, whose dependencies allow it.       *)

\* The slot is clear afterwards, since the head was its last packet.
LEMMA CompleteInv ==
  ASSUME NEW rank \in [Packets -> Nat], NEW passed \in [Agents -> Nat],
         InvFor(rank, passed), NEW a \in Agents, Complete(a),
         valid[a][mymod(read_index[a])], Met(head(a))
  PROVE  InvFor(rank, [passed EXCEPT ![a] = @ + 1])'
<1> DEFINE h == head(a)
           s == read_index[a]
           next == [passed EXCEPT ![a] = @ + 1]
<1>1. /\ h \in Packets /\ h \notin done /\ Agent(h) = a /\ Slot(h) = s
      /\ rank[h] = passed[a] /\ mymod(s) = s
      /\ \A j \in Occupants(a, s) : j = h \/ j \in done
  BY HeadFact
<1>2. /\ done' = done \cup {h} /\ valid' = [valid EXCEPT ![a][s] = FALSE]
      /\ signal' = [signal EXCEPT ![a][s] = subtracted(@)]
      /\ read_index' = [read_index EXCEPT ![a] = mymod(s + 1)]
      /\ pc' = [pc EXCEPT ![a] = "main"]
      /\ dep' = [dep EXCEPT ![a] = 1]
      /\ posted' = posted /\ write_index' = write_index
      /\ armed' = armed /\ late' = late
  BY <1>1 DEF Complete, nextReadIndex
<1> HIDE DEF h
<1>3. /\ Types /\ Numbered(rank, passed) /\ SlotsTell /\ SignalsTell /\ NamedAreArmed
      /\ Handling /\ AllMet
  BY DEF InvFor
<1>4. Packets' = Packets /\ \A i \in Packets : Agent(i)' = Agent(i) /\ Slot(i)' = Slot(i)
  BY <1>2 DEF Packets, Agent, Slot
<1>5. s \in Slots /\ s \in Nat /\ passed[a] \in Nat
  BY <1>3, BarrierAssumption DEF Types, Slots
<1>6. \A b \in Agents, t \in Slots : Occupants(b, t)' = Occupants(b, t)
  BY <1>2 DEF Occupants, Packets
<1>7. h \in Occupants(a, s)
  BY <1>1 DEF Occupants, Agent, Slot
<1>8. ~ Clear(a, s)
  BY <1>1, <1>7 DEF Clear
<1>9. \A v \in 0 .. Word - 1 : subtracted(v) \in 0 .. Word - 1 /\ subtracted(1) = 0
  BY BarrierAssumption DEF subtracted
<1>10. Types'
  <2>1. \A b \in Agents : signal'[b] \in [Slots -> 0 .. Word - 1]
    <3> SUFFICES ASSUME NEW b \in Agents PROVE signal'[b] \in [Slots -> 0 .. Word - 1]
      OBVIOUS
    <3>1. CASE b = a
      <4>1. signal[a] \in [Slots -> 0 .. Word - 1] /\ subtracted(signal[a][s]) \in 0 .. Word - 1
        <5>1. signal[a] \in [Slots -> 0 .. Word - 1] /\ signal[a][s] \in 0 .. Word - 1
          BY <1>3, <1>5 DEF Types
        <5> HIDE DEF s
        <5> QED BY <1>9, <5>1
      <4>2. signal'[b] = [signal[a] EXCEPT ![s] = subtracted(signal[a][s])]
        BY <1>2, <1>3, <1>5, <3>1 DEF Types
      <4> QED BY <4>1, <4>2
    <3>2. CASE b # a
      BY <1>2, <1>3, <3>2 DEF Types
    <3> QED BY <3>1, <3>2
  <2>2. signal' \in [Agents -> [Slots -> 0 .. Word - 1]]
    <3>1. DOMAIN signal' = Agents /\ signal' = [b \in Agents |-> signal'[b]]
      BY <1>2, <1>3 DEF Types
    <3> QED BY <2>1, <3>1
  <2>3. mymod(s + 1) \in Slots
    BY <1>5, SlotRange
  <2>4. read_index' \in [Agents -> Slots] /\ pc' \in [Agents -> {"main", "and", "or", "poll"}]
    BY <1>2, <1>3, <2>3 DEF Types
  <2>5. valid' \in [Agents -> [Slots -> BOOLEAN]]
    BY <1>2, <1>3 DEF Types
  <2>6. done' \subseteq Packets' /\ late' \subseteq done' /\ armed' \subseteq Packets'
    BY <1>1, <1>2, <1>3, <1>4 DEF Types
  <2>7. dep' \in [Agents -> Deps]
    BY <1>2, <1>3, BarrierAssumption DEF Types, Deps
  <2> QED BY <1>2, <1>3, <1>4, <2>2, <2>4, <2>5, <2>6, <2>7 DEF Types
<1>11. next[a] = passed[a] + 1 /\ \A b \in Agents : b # a => next[b] = passed[b]
  OBVIOUS
<1>12. Numbered(rank, next)'
  <2>1. /\ \A i \in Packets' : rank[i] < write_index'[Agent(i)'] /\ Slot(i)' = mymod(rank[i])
        /\ \A i, j \in Packets' : Agent(i)' = Agent(j)' => (i < j <=> rank[i] < rank[j])
        /\ \A b \in Agents : \A m \in 0 .. write_index'[b] - 1 :
             \E i \in Packets' : Agent(i)' = b /\ rank[i] = m
    BY <1>2, <1>3, <1>4 DEF Numbered
  <2>2. ASSUME NEW i \in Packets
        PROVE  i \in done' <=> rank[i] < next[Agent(i)]
    <3>1. i \in Int /\ h \in Int
      BY <1>1, <1>3, BarrierAssumption DEF Types
    <3>2. i \in done <=> rank[i] < passed[Agent(i)]
      BY <1>3 DEF Numbered
    <3>3. CASE Agent(i) = a
      <4>1. i # h => rank[i] # passed[a]
        <5> SUFFICES ASSUME i # h PROVE rank[i] # passed[a]
          OBVIOUS
        <5>1. (i < h <=> rank[i] < rank[h]) /\ (h < i <=> rank[h] < rank[i])
          BY <1>1, <1>3, <3>3 DEF Numbered
        <5> QED BY <1>1, <3>1, <5>1
      <4>2. rank[i] \in Nat
        OBVIOUS
      <4> HIDE DEF next
      <4> QED BY <1>1, <1>2, <1>5, <1>11, <3>2, <3>3, <4>1, <4>2
    <3>4. CASE Agent(i) # a
      <4>1. Agent(i) \in Agents
        BY <1>3 DEF Types, Agent
      <4> HIDE DEF next
      <4> QED BY <1>1, <1>2, <1>11, <3>2, <3>4, <4>1
    <3> QED BY <3>3, <3>4
  <2>3. ASSUME NEW b \in Agents
        PROVE  /\ next[b] <= write_index'[b] /\ write_index'[b] <= next[b] + Size
               /\ read_index'[b] = mymod(next[b])
    <3>1. /\ passed[b] <= write_index[b] /\ write_index[b] <= passed[b] + Size
          /\ read_index[b] = mymod(passed[b])
      BY <1>3 DEF Numbered
    <3>2. write_index[b] \in Nat /\ passed[b] \in Nat /\ Size \in Nat
      BY <1>3, BarrierAssumption DEF Types
    <3>3. CASE b = a
      <4>1. rank[h] < write_index[a]
        BY <1>1, <1>3 DEF Numbered
      <4>2. read_index'[b] = mymod(s + 1)
        BY <1>2, <1>3, <3>3 DEF Types
      <4>3. mymod(s + 1) = mymod(passed[a] + 1)
        BY <1>5, <3>1, <3>3, SlotNext
      <4> HIDE DEF next
      <4> QED BY <1>1, <1>2, <1>11, <3>1, <3>2, <3>3, <4>1, <4>2, <4>3
    <3>4. CASE b # a
      <4>1. read_index'[b] = read_index[b]
        BY <1>2, <1>3, <3>4 DEF Types
      <4> HIDE DEF next
      <4> QED BY <1>2, <1>11, <3>1, <3>4, <4>1
    <3> QED BY <3>3, <3>4
  <2> HIDE DEF next
  <2> QED BY <1>4, <2>1, <2>2, <2>3 DEF Numbered
<1>13. SlotsTell'
  <2> SUFFICES ASSUME NEW b \in Agents, NEW t \in Slots
               PROVE  valid'[b][t] <=> ~ Clear(b, t)'
    BY DEF SlotsTell
  <2>1. CASE b = a /\ t = s
    <3>1. Clear(b, t)'
      BY <1>1, <1>2, <1>6, <2>1 DEF Clear
    <3>2. ~ valid'[b][t]
      BY <1>2, <1>3, <1>5, <2>1 DEF Types
    <3> QED BY <3>1, <3>2
  <2>2. CASE ~ (b = a /\ t = s)
    <3>1. h \notin Occupants(b, t)
      BY <1>1, <2>2 DEF Occupants, Agent, Slot
    <3>2. Clear(b, t)' <=> Clear(b, t)
      BY <1>2, <1>6, <3>1 DEF Clear
    <3>3. valid'[b][t] = valid[b][t]
      BY <1>2, <1>3, <2>2 DEF Types
    <3> QED BY <1>3, <3>2, <3>3 DEF SlotsTell
  <2> QED BY <2>1, <2>2
<1>16. \A b \in Agents, t \in Slots : ~ (b = a /\ t = s) => signal'[b][t] = signal[b][t]
  BY <1>2, <1>3 DEF Types
<1>17. SignalsTell'
  <2> SUFFICES ASSUME NEW b \in Agents, NEW t \in Slots, NEW i \in armed \cap Occupants(b, t)
               PROVE  /\ i \notin done' => signal'[b][t] = 1
                      /\ i \in done' \ late /\ InSlot(b, t) = i => signal'[b][t] = 0
    <3>1. \A b \in Agents, t \in Slots : InSlot(b, t)' = InSlot(b, t)
      BY <1>2 DEF InSlot, Occupants, Packets
    <3> QED BY <1>2, <1>6, <3>1 DEF SignalsTell
  <2>1. i \in Packets /\ Agent(i) = b /\ Slot(i) = t
    BY DEF Occupants, Agent, Slot
  <2>2. CASE b = a /\ t = s
    <3>2. i \in done'
      BY <1>1, <1>2, <2>2
    <3>3. InSlot(a, s) = h
      BY <1>1 DEF head, h
    <3>4. ASSUME i = h PROVE signal'[a][s] = 0
      <4>1. signal[a][s] = 1
        BY <1>1, <1>3, <2>2, <3>4 DEF SignalsTell
      <4>2. signal'[a][s] = subtracted(signal[a][s])
        BY <1>2, <1>3, <1>5 DEF Types
      <4> QED BY <4>1, <4>2 DEF subtracted
    <3> QED BY <2>2, <3>2, <3>3, <3>4
  <2>3. CASE ~ (b = a /\ t = s)
    <3>1. i # h
      BY <1>1, <2>1, <2>3
    <3>2. signal'[b][t] = signal[b][t]
      BY <1>16, <2>3
    <3> QED BY <1>2, <1>3, <3>1, <3>2 DEF SignalsTell
  <2> QED BY <2>2, <2>3
<1>18. NamedAreArmed'
  BY <1>2, <1>3 DEF NamedAreArmed, Packets
<1>14. Handling'
  <2> SUFFICES ASSUME NEW b \in Agents, pc'[b] # "main"
               PROVE  (/\ valid[b][mymod(read_index[b])]
                       /\ pc[b] = "and" =>
                            /\ posted[head(b)].kind = "AND"
                            /\ \A j \in Deps : j < dep[b] =>
                                 posted[head(b)].deps[j] \in done \cup {Null}
                       /\ pc[b] \in {"or", "poll"} => posted[head(b)].kind = "OR"
                       /\ pc[b] = "poll" => posted[head(b)].deps[dep[b]] # Null)'
    BY DEF Handling
  <2>1. /\ b # a /\ pc'[b] = pc[b] /\ dep'[b] = dep[b]
        /\ read_index'[b] = read_index[b] /\ valid'[b] = valid[b]
    BY <1>2, <1>3 DEF Types
  <2>2. head(b)' = head(b)
    BY <1>2, <2>1 DEF head, InSlot, Occupants, Packets
  <2> QED BY <1>2, <1>3, <2>1, <2>2 DEF Handling
<1>15. AllMet'
  <2> SUFFICES ASSUME NEW i \in done' PROVE Met(i)'
    BY DEF AllMet
  <2>1. Met(i)
    BY <1>2, <1>3 DEF AllMet, h
  <2> QED BY <1>2, <2>1 DEF Met
<1> QED BY <1>10, <1>12, <1>13, <1>14, <1>15, <1>17, <1>18 DEF InvFor

-----------------------------------------------------------------------------
(* A packet posted to a free slot takes the next number of its queue.      *)

\* The numbering longer has one packet more than rank, number w.
Continues(longer, rank, n, w) == longer = [i \in 0 .. n |-> IF i < n THEN rank[i] ELSE w]

\* The slot's packets are complete, so that the ring has room for one number.
LEMMA PostInv ==
  ASSUME NEW rank \in [Packets -> Nat], NEW passed \in [Agents -> Nat],
         InvFor(rank, passed), NEW a \in Agents, NEW kind \in Kinds,
         NEW deps \in [Deps -> armed \cup {Null}], Post(a, kind, deps),
         NEW n, n = total, NEW w, w = write_index[a], NEW s, s = mymod(w),
         NEW longer, Continues(longer, rank, n, w)
  PROVE  longer \in [Packets' -> Nat] /\ InvFor(longer, passed)'
<1> DEFINE p == [agent |-> a, slot |-> s, kind |-> kind, deps |-> deps]
<1> USE DEF Continues
<1>1. /\ Types /\ Numbered(rank, passed) /\ SlotsTell /\ SignalsTell /\ NamedAreArmed
      /\ Handling /\ AllMet
  BY DEF InvFor
<1>2. n \in 0 .. MaxPackets /\ Packets = 0 .. n - 1 /\ n < MaxPackets /\ n \in Nat
  <2>1. total \in 0 .. MaxPackets /\ Packets = 0 .. total - 1
    BY <1>1, Total DEF Types
  <2>2. total < MaxPackets
    BY DEF Post
  <2> QED BY <2>1, <2>2, BarrierAssumption
<1>3. /\ posted' = [i \in 0 .. n |-> IF i < n THEN posted[i] ELSE p]
      /\ write_index' = [write_index EXCEPT ![a] = @ + 1]
      /\ valid' = [valid EXCEPT ![a][s] = TRUE]
      /\ signal' = signal /\ armed' = armed /\ late' = late \ Occupants(a, s)
      /\ read_index' = read_index /\ pc' = pc /\ dep' = dep /\ done' = done
      /\ Occupants(a, s) \subseteq done
  BY DEF Post, SlotFree
<1>4. /\ w \in Nat /\ passed[a] \in Nat /\ s \in Slots /\ passed[a] <= w
      /\ w <= passed[a] + Size /\ Size \in Nat \ {0}
  BY <1>1, BarrierAssumption, SlotRange DEF Types, Numbered
<1>5. /\ Packets' = 0 .. n /\ n \notin Packets
      /\ \A i \in Packets' : i \in Packets \/ i = n
      /\ \A i \in Packets : i \in Packets' /\ i < n /\ i \in Nat
  BY <1>2, <1>3 DEF Packets
<1>6. /\ posted'[n] = p /\ longer[n] = w
      /\ \A i \in Packets : posted'[i] = posted[i] /\ longer[i] = rank[i]
  BY <1>2, <1>5, <1>3
<1>7. /\ Agent(n)' = a /\ Slot(n)' = s
      /\ \A i \in Packets : Agent(i)' = Agent(i) /\ Slot(i)' = Slot(i)
  <2>1. posted'[n].agent = a /\ posted'[n].slot = s
    BY <1>6
  <2>2. \A i \in Packets : posted'[i].agent = posted[i].agent /\ posted'[i].slot = posted[i].slot
    BY <1>6
  <2> QED BY <2>1, <2>2 DEF Agent, Slot
<1>8. \A i \in Packets : Agent(i) \in Agents /\ Slot(i) \in Slots
  BY <1>1 DEF Types, Agent, Slot
<1>9. longer \in [Packets' -> Nat]
  <2>1. \A i \in 0 .. n : longer[i] \in Nat
    BY <1>4, <1>5, <1>6
  <2> QED BY <1>5, <2>1
<1>10. Types'
  <2>1. \A i \in Packets' :
          posted'[i] \in [agent : Agents, slot : Slots, kind : Kinds,
                          deps : [Deps -> Packets' \cup {Null}]]
    <3> SUFFICES ASSUME NEW i \in Packets'
                 PROVE  posted'[i] \in [agent : Agents, slot : Slots, kind : Kinds,
                                        deps : [Deps -> Packets' \cup {Null}]]
      OBVIOUS
    <3>1. Packets \cup {Null} \subseteq Packets' \cup {Null}
      BY <1>5
    <3>2. CASE i = n
      <4>1. deps \in [Deps -> Packets' \cup {Null}]
        <5>1. armed \subseteq Packets
          BY <1>1 DEF Types
        <5> QED BY <3>1, <5>1
      <4> QED BY <1>4, <1>6, <3>2, <4>1
    <3>3. CASE i \in Packets
      <4>1. posted[i] \in [agent : Agents, slot : Slots, kind : Kinds,
                           deps : [Deps -> Packets \cup {Null}]]
        BY <1>1, <3>3 DEF Types
      <4> QED BY <1>6, <3>1, <3>3, <4>1
    <3> QED BY <1>5, <3>2, <3>3
  <2>2. posted' \in [Packets' -> [agent : Agents, slot : Slots, kind : Kinds,
                                  deps : [Deps -> Packets' \cup {Null}]]]
    BY <1>3, <1>5, <2>1
  <2>3. n + 1 \in 0 .. MaxPackets /\ Packets' = 0 .. (n + 1) - 1
    BY <1>2, <1>5, BarrierAssumption
  <2>4. \E k \in 0 .. MaxPackets : Packets' = 0 .. k - 1
    BY <2>3
  <2>5. write_index' \in [Agents -> Nat]
    BY <1>1, <1>3, <1>4 DEF Types
  <2>6. valid' \in [Agents -> [Slots -> BOOLEAN]]
    BY <1>1, <1>3 DEF Types
  <2>7. signal' \in [Agents -> [Slots -> 0 .. Word - 1]]
    BY <1>1, <1>3 DEF Types
  <2>8. done' \subseteq Packets' /\ late' \subseteq done' /\ armed' \subseteq Packets'
    BY <1>1, <1>3, <1>5 DEF Types
  <2> QED BY <1>1, <1>3, <2>2, <2>4, <2>5, <2>6, <2>7, <2>8 DEF Types
<1>11. write_index'[a] = w + 1 /\ \A b \in Agents : b # a => write_index'[b] = write_index[b]
  BY <1>1, <1>3 DEF Types
<1>12. w < passed[a] + Size
  <2> SUFFICES ASSUME w = passed[a] + Size PROVE FALSE
    BY <1>4
  <2>1. passed[a] \in 0 .. w - 1
    BY <1>4
  <2>2. PICK i \in Packets : Agent(i) = a /\ rank[i] = passed[a]
    BY <1>1, <2>1 DEF Numbered
  <2>3. Slot(i) = s
    BY <1>1, <1>4, <2>2, SlotAround DEF Numbered
  <2>4. i \in done
    BY <1>3, <2>2, <2>3 DEF Occupants, Agent, Slot
  <2>5. rank[i] < passed[a]
    BY <1>1, <2>2, <2>4 DEF Numbered
  <2> QED BY <1>4, <2>2, <2>5
<1>13. n \notin done /\ \A i \in done : i \in Packets
  BY <1>1, <1>5 DEF Types
<1>14. Numbered(longer, passed)'
  <2>1. \A i \in Packets' : longer[i] < write_index'[Agent(i)'] /\ Slot(i)' = mymod(longer[i])
    <3> SUFFICES ASSUME NEW i \in Packets'
                 PROVE  longer[i] < write_index'[Agent(i)'] /\ Slot(i)' = mymod(longer[i])
      OBVIOUS
    <3>1. CASE i = n
      BY <1>4, <1>6, <1>7, <1>11, <3>1
    <3>2. CASE i \in Packets
      <4>1. rank[i] < write_index[Agent(i)] /\ Slot(i) = mymod(rank[i])
        BY <1>1, <3>2 DEF Numbered
      <4>2. rank[i] \in Nat
        BY <3>2
      <4>3. CASE Agent(i) = a
        <5>1. rank[i] < w + 1
          BY <1>4, <4>1, <4>2, <4>3
        <5> QED BY <1>6, <1>7, <1>11, <3>2, <4>1, <4>3, <5>1
      <4>4. CASE Agent(i) # a
        BY <1>6, <1>7, <1>8, <1>11, <3>2, <4>1, <4>4
      <4> QED BY <4>3, <4>4
    <3> QED BY <1>5, <3>1, <3>2
  <2>2. \A i, j \in Packets' : Agent(i)' = Agent(j)' => (i < j <=> longer[i] < longer[j])
    <3> SUFFICES ASSUME NEW i \in Packets', NEW j \in Packets', Agent(i)' = Agent(j)'
                 PROVE  i < j <=> longer[i] < longer[j]
      OBVIOUS
    <3>1. ASSUME NEW k \in Packets, Agent(k)' = a
          PROVE  k < n /\ k \in Nat /\ longer[k] < w /\ longer[k] \in Nat
      <4>1. Agent(k) = a
        BY <1>7, <3>1
      <4>2. rank[k] < w /\ rank[k] \in Nat
        BY <1>1, <4>1 DEF Numbered
      <4> QED BY <1>5, <1>6, <4>2
    <3>2. CASE i \in Packets /\ j \in Packets
      <4>1. Agent(i) = Agent(j)
        BY <1>7, <3>2
      <4>2. i < j <=> rank[i] < rank[j]
        BY <1>1, <3>2, <4>1 DEF Numbered
      <4> QED BY <1>6, <3>2, <4>2
    <3>3. CASE i \in Packets /\ j = n
      <4>1. Agent(i)' = a
        BY <1>7, <3>3
      <4> QED BY <1>6, <3>1, <3>3, <4>1
    <3>4. CASE i = n /\ j \in Packets
      <4>1. Agent(j)' = a
        BY <1>7, <3>4
      <4>2. j < n /\ j \in Nat /\ longer[j] < w /\ longer[j] \in Nat
        BY <3>1, <3>4, <4>1
      <4> QED BY <1>2, <1>4, <1>6, <3>4, <4>2
    <3>5. CASE i = n /\ j = n
      BY <1>2, <1>4, <1>6, <3>5
    <3> QED BY <1>5, <3>2, <3>3, <3>4, <3>5
  <2>3. \A b \in Agents : \A m \in 0 .. write_index'[b] - 1 :
          \E i \in Packets' : Agent(i)' = b /\ longer[i] = m
    <3> SUFFICES ASSUME NEW b \in Agents, NEW m \in 0 .. write_index'[b] - 1
                 PROVE  \E i \in Packets' : Agent(i)' = b /\ longer[i] = m
      OBVIOUS
    <3>1. CASE m \in 0 .. write_index[b] - 1
      <4>1. PICK i \in Packets : Agent(i) = b /\ rank[i] = m
        BY <1>1, <3>1 DEF Numbered
      <4> QED BY <1>5, <1>6, <1>7, <4>1
    <3>2. CASE m \notin 0 .. write_index[b] - 1
      <4>1. b = a
        BY <1>11, <3>2
      <4>2. m = w
        BY <1>4, <1>11, <3>2, <4>1
      <4>3. n \in Packets'
        BY <1>2, <1>5
      <4> QED BY <1>6, <1>7, <4>1, <4>2, <4>3
    <3> QED BY <3>1, <3>2
  <2>4. \A i \in Packets' : i \in done' <=> longer[i] < passed[Agent(i)']
    <3> SUFFICES ASSUME NEW i \in Packets'
                 PROVE  i \in done' <=> longer[i] < passed[Agent(i)']
      OBVIOUS
    <3>1. CASE i = n
      <4>1. ~ (w < passed[a])
        BY <1>4
      <4> QED BY <1>3, <1>6, <1>7, <1>13, <3>1, <4>1
    <3>2. CASE i \in Packets
      BY <1>1, <1>3, <1>6, <1>7, <3>2 DEF Numbered
    <3> QED BY <1>5, <3>1, <3>2
  <2>5. ASSUME NEW b \in Agents
        PROVE  /\ passed[b] <= write_index'[b] /\ write_index'[b] <= passed[b] + Size
               /\ read_index'[b] = mymod(passed[b])
    <3>1. /\ passed[b] <= write_index[b] /\ write_index[b] <= passed[b] + Size
          /\ read_index[b] = mymod(passed[b])
      BY <1>1 DEF Numbered
    <3>2. CASE b = a
      BY <1>3, <1>4, <1>11, <1>12, <3>1, <3>2
    <3>3. CASE b # a
      BY <1>3, <1>11, <3>1, <3>3
    <3> QED BY <3>2, <3>3
  <2> QED BY <2>1, <2>2, <2>3, <2>4, <2>5 DEF Numbered
<1>15. \A b \in Agents, t \in Slots :
         Occupants(b, t)' = Occupants(b, t) \cup IF b = a /\ t = s THEN {n} ELSE {}
  <2> SUFFICES ASSUME NEW b \in Agents, NEW t \in Slots, NEW i
               PROVE  i \in Occupants(b, t)' <=>
                        \/ i \in Occupants(b, t)
                        \/ i = n /\ b = a /\ t = s
    OBVIOUS
  <2>1. i \in Occupants(b, t)' <=> i \in Packets' /\ Agent(i)' = b /\ Slot(i)' = t
    BY DEF Occupants, Agent, Slot
  <2>2. i \in Occupants(b, t) <=> i \in Packets /\ Agent(i) = b /\ Slot(i) = t
    BY DEF Occupants, Agent, Slot
  <2>3. n \in Packets'
    BY <1>2, <1>5
  <2> QED BY <1>5, <1>7, <2>1, <2>2, <2>3
<1>16. Clear(a, s)
  BY <1>3 DEF Clear
<1>17. SlotsTell'
  <2> SUFFICES ASSUME NEW b \in Agents, NEW t \in Slots
               PROVE  valid'[b][t] <=> ~ Clear(b, t)'
    BY DEF SlotsTell
  <2>1. CASE b = a /\ t = s
    <3>1. ~ Clear(b, t)'
      BY <1>3, <1>13, <1>15, <2>1 DEF Clear
    <3>2. valid'[b][t]
      BY <1>1, <1>3, <1>4, <2>1 DEF Types
    <3> QED BY <3>1, <3>2
  <2>2. CASE ~ (b = a /\ t = s)
    <3>1. Clear(b, t)' <=> Clear(b, t)
      BY <1>3, <1>15, <2>2 DEF Clear
    <3>2. valid'[b][t] = valid[b][t]
      BY <1>1, <1>3, <2>2 DEF Types
    <3> QED BY <1>1, <3>1, <3>2 DEF SlotsTell
  <2> QED BY <2>1, <2>2
<1>20. SignalsTell'
  <2> SUFFICES ASSUME NEW b \in Agents, NEW t \in Slots, NEW i \in armed,
                      i \in Occupants(b, t)'
               PROVE  /\ i \notin done => signal[b][t] = 1
                      /\ i \in done \ late' /\ InSlot(b, t)' = i => signal[b][t] = 0
    BY <1>3 DEF SignalsTell
  <2>1. i \in Packets /\ i # n
    BY <1>1, <1>5 DEF Types
  <2>2. i \in Occupants(b, t)
    BY <1>15, <2>1
  <2>3. i \notin done => signal[b][t] = 1
    BY <1>1, <2>2 DEF SignalsTell
  <2>4. CASE b = a /\ t = s
    <3>1. Occupants(a, s)' = Occupants(a, s) \cup {n}
      BY <1>4, <1>15
    <3>2. /\ Occupants(a, s)' \subseteq Int /\ n \in Occupants(a, s)'
          /\ \A j \in Occupants(a, s)' : j <= n
      <4>1. Occupants(a, s) \subseteq Packets /\ Occupants(a, s) \subseteq Int
        BY <1>1, OccupantsInt
      <4> QED BY <1>2, <1>5, <3>1, <4>1
    <3>3. InSlot(a, s)' = n
      BY <3>2, Latest DEF InSlot
    <3> QED BY <2>1, <2>3, <2>4, <3>3
  <2>5. CASE ~ (b = a /\ t = s)
    <3>1. Occupants(b, t)' = Occupants(b, t)
      <4>1. Occupants(b, t)' = Occupants(b, t) \cup {}
        BY <1>15, <2>5
      <4> QED BY <4>1
    <3>2. InSlot(b, t)' = InSlot(b, t)
      BY <3>1 DEF InSlot
    <3>3. i \notin late' => i \notin late
      BY <1>3, <2>2, <2>5 DEF Occupants
    <3> QED BY <1>1, <2>2, <3>2, <3>3 DEF SignalsTell
  <2> QED BY <2>4, <2>5
<1>21. NamedAreArmed'
  <2> SUFFICES ASSUME NEW i \in Packets', NEW k \in Deps, posted'[i].deps[k] # Null
               PROVE  posted'[i].deps[k] \in armed /\ posted'[i].deps[k] < i
    BY <1>3 DEF NamedAreArmed
  <2>1. CASE i = n
    <3>1. posted'[i].deps[k] = deps[k] /\ deps[k] \in armed
      BY <1>6, <2>1
    <3>2. deps[k] \in Packets
      BY <1>1, <3>1 DEF Types
    <3> QED BY <1>5, <2>1, <3>1, <3>2
  <2>2. CASE i \in Packets
    BY <1>1, <1>6, <2>2 DEF NamedAreArmed
  <2> QED BY <1>5, <2>1, <2>2
<1>18. Handling'
  <2> SUFFICES ASSUME NEW b \in Agents, pc'[b] # "main"
               PROVE  (/\ valid[b][mymod(read_index[b])]
                       /\ pc[b] = "and" =>
                            /\ posted[head(b)].kind = "AND"
                            /\ \A j \in Deps : j < dep[b] =>
                                 posted[head(b)].deps[j] \in done \cup {Null}
                       /\ pc[b] \in {"or", "poll"} => posted[head(b)].kind = "OR"
                       /\ pc[b] = "poll" => posted[head(b)].deps[dep[b]] # Null)'
    BY DEF Handling
  <2>0. PICK t : t = read_index[b]
    OBVIOUS
  <2>1. valid[b][mymod(t)]
    BY <1>1, <1>3, <2>0 DEF Handling
  <2>2. head(b) \in Packets /\ mymod(t) = t /\ t \in Slots
    BY <1>1, <2>0, <2>1, HeadFact DEF Types
  <2>3. ~ (b = a /\ t = s)
    BY <1>1, <1>16, <2>1, <2>2 DEF SlotsTell
  <2>4. Occupants(b, t)' = Occupants(b, t)
    <3>1. Occupants(b, t)' = Occupants(b, t) \cup {}
      BY <1>15, <2>2, <2>3
    <3> QED BY <3>1
  <2>5. head(b)' = head(b)
    BY <1>3, <2>0, <2>2, <2>4 DEF head, InSlot
  <2>6. valid'[b][t] = valid[b][t]
    BY <1>1, <1>3, <2>2, <2>3 DEF Types
  <2>7. posted'[head(b)] = posted[head(b)]
    BY <1>6, <2>2
  <2>8. /\ pc'[b] = pc[b] /\ dep'[b] = dep[b] /\ read_index'[b] = t /\ done' = done
        /\ valid[b][t]
    BY <1>3, <2>0, <2>1, <2>2
  <2>9. posted'[head(b)'] = posted[head(b)] /\ valid'[b][mymod(read_index'[b])]
    BY <2>2, <2>5, <2>6, <2>7, <2>8
  <2>10. /\ pc[b] = "and" =>
              /\ posted[head(b)].kind = "AND"
              /\ \A j \in Deps : j < dep[b] =>
                   posted[head(b)].deps[j] \in done \cup {Null}
         /\ pc[b] \in {"or", "poll"} => posted[head(b)].kind = "OR"
         /\ pc[b] = "poll" => posted[head(b)].deps[dep[b]] # Null
    BY <1>1, <2>8 DEF Handling
  <2> QED BY <2>8, <2>9, <2>10
<1>19. AllMet'
  <2> SUFFICES ASSUME NEW i \in done PROVE Met(i)'
    BY <1>3 DEF AllMet
  <2>1. Met(i) /\ posted'[i] = posted[i]
    BY <1>1, <1>6, <1>13 DEF AllMet
  <2>2. done' = done
    BY <1>3
  <2> QED BY <2>1, <2>2 DEF Met
<1> QED BY <1>9, <1>10, <1>14, <1>17, <1>18, <1>19, <1>20, <1>21 DEF InvFor

-----------------------------------------------------------------------------
(* A signal is set: that of the last packet of a queue.                    *)

\* If the packet is complete already, it is late now.
LEMMA ArmInv ==
  ASSUME NEW rank \in [Packets -> Nat], NEW passed \in [Agents -> Nat],
         InvFor(rank, passed), NEW i \in Packets, Arm(i)
  PROVE  InvFor(rank, passed)'
<1> DEFINE a == Agent(i)
           s == Slot(i)
<1>1. /\ Types /\ Numbered(rank, passed) /\ SlotsTell /\ SignalsTell /\ NamedAreArmed
      /\ Handling /\ AllMet
  BY DEF InvFor
<1>2. /\ armed' = armed \cup {i} /\ late' = late \cup ({i} \cap done)
      /\ signal' = [signal EXCEPT ![a][s] = 1]
      /\ posted' = posted /\ write_index' = write_index /\ read_index' = read_index
      /\ valid' = valid /\ pc' = pc /\ dep' = dep /\ done' = done
      /\ \A j \in Packets : Agent(j) = a => j <= i
  BY DEF Arm, Agent, Slot
<1>3. a \in Agents /\ s \in Slots
  BY <1>1 DEF Types, Agent, Slot
<1> HIDE DEF a, s
<1>4. /\ signal'[a][s] = 1
      /\ \A b \in Agents, t \in Slots : ~ (b = a /\ t = s) => signal'[b][t] = signal[b][t]
  BY <1>1, <1>2, <1>3 DEF Types
<1>5. Types'
  <2>1. [signal[a] EXCEPT ![s] = 1] \in [Slots -> 0 .. Word - 1]
    <3>1. signal[a] \in [Slots -> 0 .. Word - 1] /\ 1 \in 0 .. Word - 1
      BY <1>1, <1>3, BarrierAssumption DEF Types
    <3> QED BY <3>1
  <2>2. signal' = [signal EXCEPT ![a] = [signal[a] EXCEPT ![s] = 1]]
    BY <1>2
  <2>3. signal' \in [Agents -> [Slots -> 0 .. Word - 1]]
    BY <1>1, <2>1, <2>2 DEF Types
  <2>4. armed' \subseteq Packets /\ late' \subseteq done
    BY <1>1, <1>2 DEF Types
  <2> QED BY <1>1, <1>2, <2>3, <2>4 DEF Types, Packets
<1>6. Numbered(rank, passed)' /\ SlotsTell' /\ AllMet'
  BY <1>1, <1>2 DEF Numbered, SlotsTell, Clear, Occupants, AllMet, Met, Packets, Agent, Slot
<1>7. SignalsTell'
  <2> SUFFICES ASSUME NEW b \in Agents, NEW t \in Slots, NEW j \in armed' \cap Occupants(b, t)
               PROVE  /\ j \notin done => signal'[b][t] = 1
                      /\ j \in done \ late' /\ InSlot(b, t) = j => signal'[b][t] = 0
    <3>1. \A b \in Agents, t \in Slots : /\ InSlot(b, t)' = InSlot(b, t)
                                         /\ Occupants(b, t)' = Occupants(b, t)
      BY <1>2 DEF InSlot, Occupants, Packets
    <3> QED BY <1>2, <3>1 DEF SignalsTell
  <2>1. CASE b = a /\ t = s
    <3>1. i \in Occupants(a, s) /\ \A g \in Occupants(a, s) : g <= i
      BY <1>2 DEF Occupants, a, s, Agent, Slot
    <3>2. InSlot(a, s) = i
      <4>1. Occupants(a, s) \subseteq Int
        BY <1>1, OccupantsInt
      <4> QED BY <3>1, <4>1, Latest DEF InSlot
    <3>3. i \in done => i \in late'
      BY <1>2
    <3> QED BY <1>4, <2>1, <3>2, <3>3
  <2>2. CASE ~ (b = a /\ t = s)
    <3>1. j # i
      BY <2>2 DEF a, s, Occupants, Agent, Slot
    <3> QED BY <1>1, <1>2, <1>4, <2>2, <3>1 DEF SignalsTell
  <2> QED BY <2>1, <2>2
<1>8. NamedAreArmed'
  BY <1>1, <1>2 DEF NamedAreArmed, Packets
<1>9. Handling'
  <2>1. \A b \in Agents : head(b)' = head(b)
    BY <1>2 DEF head, InSlot, Occupants, Packets
  <2> QED BY <1>1, <1>2, <2>1 DEF Handling
<1> QED BY <1>5, <1>6, <1>7, <1>8, <1>9 DEF InvFor

-----------------------------------------------------------------------------
(* Every step.                                                             *)

\* One more of the queue is complete.
LEMMA CompletionStep ==
  ASSUME NEW rank \in [Packets -> Nat], NEW passed \in [Agents -> Nat],
         InvFor(rank, passed), NEW a \in Agents, Complete(a),
         valid[a][mymod(read_index[a])], Met(head(a))
  PROVE  Inv'
<1> DEFINE next == [passed EXCEPT ![a] = @ + 1]
<1>1. InvFor(rank, next)'
  BY CompleteInv
<1>2. next \in [Agents -> Nat]
  OBVIOUS
<1>3. rank \in [Packets' -> Nat]
  BY DEF Complete, Packets
<1> HIDE DEF next
<1> QED BY <1>1, <1>2, <1>3 DEF Inv

\* The witnesses stay what they are.
LEMMA LookStep ==
  ASSUME NEW rank \in [Packets -> Nat], NEW passed \in [Agents -> Nat],
         InvFor(rank, passed)', Packets' = Packets
  PROVE  Inv'
BY DEF Inv

\* The numbering grows by the packet posted.
LEMMA PostStep ==
  ASSUME Inv, NEW a \in Agents, NEW kind \in Kinds,
         NEW deps \in [Deps -> armed \cup {Null}], Post(a, kind, deps)
  PROVE  Inv'
<1>1. PICK rank \in [Packets -> Nat], passed \in [Agents -> Nat] : InvFor(rank, passed)
  BY DEF Inv
<1>2. PICK n, w : n = total /\ w = write_index[a]
  OBVIOUS
<1>3. PICK s : s = mymod(w)
  OBVIOUS
<1>4. PICK longer : Continues(longer, rank, n, w)
  BY DEF Continues
<1>5. longer \in [Packets' -> Nat] /\ InvFor(longer, passed)'
  BY <1>1, <1>2, <1>3, <1>4, PostInv
<1> QED BY <1>5 DEF Inv

\* A signal changes no numbering.
LEMMA ArmStep ==
  ASSUME Inv, NEW i \in Packets, Arm(i)
  PROVE  Inv'
<1>1. PICK rank \in [Packets -> Nat], passed \in [Agents -> Nat] : InvFor(rank, passed)
  BY DEF Inv
<1>2. InvFor(rank, passed)' /\ Packets' = Packets
  BY <1>1, ArmInv DEF Arm, Packets
<1> QED BY <1>1, <1>2, LookStep

\* What a handler found holds when it completes its packet.
LEMMA ControllerStep ==
  ASSUME Inv, NEW a \in Agents, Controller(a)
  PROVE  Inv'
<1>1. PICK rank \in [Packets -> Nat], passed \in [Agents -> Nat] : InvFor(rank, passed)
  BY DEF Inv
<1>2. Types /\ SignalsTell /\ NamedAreArmed /\ Handling
  BY <1>1 DEF InvFor
<1>3. /\ dep[a] \in Deps /\ 1 \in Deps /\ dep[a] \in Nat /\ NumDeps \in Nat
      /\ dep[a] < NumDeps => dep[a] + 1 \in Deps
      /\ ~ (dep[a] < NumDeps) => dep[a] = NumDeps
      /\ \A k \in Deps : ~ (k < 1) /\ k <= NumDeps /\ k \in Nat
  BY <1>2, BarrierAssumption DEF Types, Deps
<1>4. ASSUME NEW label, NEW k, Goto(a, label, k) PROVE Packets' = Packets
  BY <1>4 DEF Goto, Packets
<1>5. valid[a][mymod(read_index[a])] => head(a) \in Packets
  BY <1>1, HeadFact
<1>6. ASSUME HandleOp(a) PROVE Inv'
  <2>1. valid[a][mymod(read_index[a])] /\ Complete(a) /\ Met(head(a))
    BY <1>6 DEF HandleOp, AtPacket, Met
  <2> QED BY <1>1, <2>1, CompletionStep
<1>7. ASSUME Enter(a) PROVE Inv'
  <2>1. CASE AtPacket(a, "AND") /\ Goto(a, "and", 1)
    <3>1. valid[a][mymod(read_index[a])] /\ posted[head(a)].kind = "AND"
      BY <2>1 DEF AtPacket
    <3>2. InvFor(rank, passed)'
      BY <1>1, <1>3, <2>1, <3>1, GotoInv
    <3> QED BY <1>1, <1>4, <2>1, <3>2, LookStep
  <2>2. CASE AtPacket(a, "OR") /\ Goto(a, "or", 1)
    <3>1. valid[a][mymod(read_index[a])] /\ posted[head(a)].kind = "OR"
      BY <2>2 DEF AtPacket
    <3>2. InvFor(rank, passed)'
      BY <1>1, <1>3, <2>2, <3>1, GotoInv
    <3> QED BY <1>1, <1>4, <2>2, <3>2, LookStep
  <2> QED BY <1>7, <2>1, <2>2 DEF Enter
<1>8. ASSUME TestAnd(a) PROVE Inv'
  <2>1. /\ valid[a][mymod(read_index[a])] /\ posted[head(a)].kind = "AND"
        /\ \A k \in Deps : k < dep[a] => posted[head(a)].deps[k] \in done \cup {Null}
    BY <1>2, <1>8 DEF TestAnd, Handling
  <2>2. andAccepts(a) => posted[head(a)].deps[dep[a]] \in done \cup {Null}
    BY <1>2, <1>3, <1>5, <2>1, ZeroMeansDone DEF andAccepts
  <2>3. CASE ~ andAccepts(a)
    <3>1. Goto(a, "and", 1)
      BY <1>8, <2>3 DEF TestAnd
    <3>2. InvFor(rank, passed)'
      BY <1>1, <1>3, <2>1, <3>1, GotoInv
    <3> QED BY <1>1, <1>4, <3>1, <3>2, LookStep
  <2>4. CASE andAccepts(a) /\ dep[a] < NumDeps
    <3>1. Goto(a, "and", dep[a] + 1)
      BY <1>8, <2>4 DEF TestAnd
    <3>2. \A j \in Deps : j < dep[a] + 1 => posted[head(a)].deps[j] \in done \cup {Null}
      <4> SUFFICES ASSUME NEW j \in Deps, j < dep[a] + 1
                   PROVE  posted[head(a)].deps[j] \in done \cup {Null}
        OBVIOUS
      <4>1. j < dep[a] \/ j = dep[a]
        BY <1>3
      <4> QED BY <2>1, <2>2, <2>4, <4>1
    <3>3. PICK k \in Deps : k = dep[a] + 1
      BY <1>3, <2>4
    <3>4. InvFor(rank, passed)'
      BY <1>1, <2>1, <3>1, <3>2, <3>3, GotoInv
    <3> QED BY <1>1, <1>4, <3>1, <3>4, LookStep
  <2>5. CASE andAccepts(a) /\ ~ (dep[a] < NumDeps)
    <3>1. Complete(a)
      BY <1>8, <2>5 DEF TestAnd
    <3>2. \A j \in Deps : posted[head(a)].deps[j] \in done \cup {Null}
      <4> SUFFICES ASSUME NEW j \in Deps
                   PROVE  posted[head(a)].deps[j] \in done \cup {Null}
        OBVIOUS
      <4>1. j < dep[a] \/ j = dep[a]
        BY <1>3, <2>5
      <4> QED BY <2>1, <2>2, <2>5, <4>1
    <3>3. Met(head(a))
      BY <2>1, <3>2 DEF Met
    <3> QED BY <1>1, <2>1, <3>1, <3>3, CompletionStep
  <2> QED BY <2>3, <2>4, <2>5
<1>9. ASSUME NextOr(a), valid[a][mymod(read_index[a])], posted[head(a)].kind = "OR"
      PROVE  Inv'
  <2>1. PICK k \in Deps : k = IF dep[a] < NumDeps THEN dep[a] + 1 ELSE 1
    BY <1>3
  <2>2. Goto(a, "or", k)
    BY <1>9, <2>1 DEF NextOr
  <2>3. InvFor(rank, passed)'
    BY <1>1, <1>9, <2>2, GotoInv
  <2> QED BY <1>1, <1>4, <2>2, <2>3, LookStep
<1>10. ASSUME EnterOr(a) PROVE Inv'
  <2>1. valid[a][mymod(read_index[a])] /\ posted[head(a)].kind = "OR"
    BY <1>2, <1>10 DEF EnterOr, Handling
  <2>2. CASE Value(head(a), dep[a]) # 0
    <3>1. PICK k \in Deps : k = dep[a]
      BY <1>3
    <3>2. Goto(a, "poll", k) /\ posted[head(a)].deps[k] # Null
      BY <1>10, <2>2, <3>1 DEF EnterOr, Value
    <3>3. InvFor(rank, passed)'
      BY <1>1, <2>1, <3>2, GotoInv
    <3> QED BY <1>1, <1>4, <3>2, <3>3, LookStep
  <2>3. CASE Value(head(a), dep[a]) = 0
    <3>1. NextOr(a)
      BY <1>10, <2>3 DEF EnterOr, orEnter
    <3> QED BY <1>9, <2>1, <3>1
  <2> QED BY <2>2, <2>3
<1>11. ASSUME PollOr(a) PROVE Inv'
  <2>1. /\ valid[a][mymod(read_index[a])] /\ posted[head(a)].kind = "OR"
        /\ posted[head(a)].deps[dep[a]] # Null
    BY <1>2, <1>11 DEF PollOr, Handling
  <2>2. CASE Value(head(a), dep[a]) = 0
    <3>1. posted[head(a)].deps[dep[a]] \in done
      BY <1>2, <1>3, <1>5, <2>1, <2>2, ZeroMeansDone
    <3>2. Met(head(a)) /\ Complete(a)
      BY <1>3, <1>11, <2>1, <2>2, <3>1 DEF Met, PollOr
    <3> QED BY <1>1, <2>1, <3>2, CompletionStep
  <2>3. CASE Value(head(a), dep[a]) # 0
    <3>1. NextOr(a)
      BY <1>11, <2>3 DEF PollOr
    <3> QED BY <1>9, <2>1, <3>1
  <2> QED BY <2>2, <2>3
<1> QED BY <1>6, <1>7, <1>8, <1>10, <1>11 DEF Controller

\* The clients' steps.
Posts ==
  \E a \in Agents, kind \in Kinds : \E deps \in Dependencies(kind) : Post(a, kind, deps)

\* Every packet names what is armed, or nothing.
LEMMA DependenciesType ==
  ASSUME NEW kind \in Kinds, NEW deps \in Dependencies(kind)
  PROVE  deps \in [Deps -> armed \cup {Null}]
BY DEF Dependencies

\* Every step preserves the invariant.
LEMMA StepInv == Inv /\ [Next]_vars => Inv'
<1> SUFFICES ASSUME Inv, [Next]_vars PROVE Inv'
  OBVIOUS
<1>1. CASE Posts
  BY <1>1, PostStep, DependenciesType DEF Posts
<1>2. CASE \E a \in Agents : Controller(a)
  BY <1>2, ControllerStep
<1>4. CASE \E i \in Packets : Arm(i)
  BY <1>4, ArmStep
<1>3. CASE UNCHANGED vars
  <2>1. PICK rank \in [Packets -> Nat], passed \in [Agents -> Nat] : InvFor(rank, passed)
    BY DEF Inv
  <2>2. /\ posted' = posted /\ write_index' = write_index /\ read_index' = read_index
        /\ valid' = valid /\ signal' = signal /\ pc' = pc /\ dep' = dep /\ done' = done
        /\ armed' = armed /\ late' = late
    BY <1>3 DEF vars
  <2>3. Packets' = Packets
    BY <2>2 DEF Packets
  <2>4. InvFor(rank, passed)'
    <3>1. Types' /\ Numbered(rank, passed)'
      BY <2>1, <2>2 DEF InvFor, Types, Numbered, Packets, Agent, Slot
    <3>2. SlotsTell' /\ AllMet'
      BY <2>1, <2>2 DEF InvFor, SlotsTell, Clear, Occupants, Packets, AllMet, Met
    <3>3. Handling'
      <4>1. \A a \in Agents : head(a)' = head(a)
        BY <2>2 DEF head, InSlot, Occupants, Packets
      <4> QED BY <2>1, <2>2, <4>1 DEF InvFor, Handling
    <3>4. SignalsTell' /\ NamedAreArmed'
      <4>1. \A b, t : InSlot(b, t)' = InSlot(b, t)
        BY <2>2 DEF InSlot, Occupants, Packets
      <4>2. SignalsTell'
        BY <2>1, <2>2, <4>1 DEF InvFor, SignalsTell, Occupants, Packets
      <4> QED BY <2>1, <2>2, <4>2 DEF InvFor, NamedAreArmed, Packets
    <3> QED BY <3>1, <3>2, <3>3, <3>4 DEF InvFor
  <2> QED BY <2>1, <2>3, <2>4, LookStep
<1> QED BY <1>1, <1>2, <1>3, <1>4 DEF Next, Posts

-----------------------------------------------------------------------------
(* What the barriers promise.                                              *)

\* A packet that is complete was posted after the packets before it in its
\* queue were complete, so that their dependencies are met too.
LEMMA InvDelays == Inv => Delays
<1> SUFFICES ASSUME Inv, NEW i \in done, NEW j \in Packets, UpTo(i, j)
             PROVE  Met(j)
  BY DEF Delays, Met
<1>1. PICK rank \in [Packets -> Nat], passed \in [Agents -> Nat] : InvFor(rank, passed)
  BY DEF Inv
<1>2. Types /\ Numbered(rank, passed) /\ AllMet
  BY <1>1 DEF InvFor
<1>3. /\ i \in Packets /\ i \in Int /\ j \in Int
      /\ rank[i] \in Nat /\ rank[j] \in Nat /\ passed[Agent(i)] \in Nat
  <2>1. i \in Packets /\ \E n \in 0 .. MaxPackets : Packets = 0 .. n - 1
    BY <1>2 DEF Types
  <2>2. Agent(i) \in Agents
    BY <1>2, <2>1 DEF Types, Agent
  <2>3. i \in Int /\ j \in Int
    BY <2>1, BarrierAssumption
  <2> QED BY <2>1, <2>2, <2>3
<1>4. Agent(j) = Agent(i) /\ j <= i
  BY DEF UpTo, Agent
<1>5. rank[i] < passed[Agent(i)]
  BY <1>2, <1>3 DEF Numbered
<1>6. rank[j] <= rank[i]
  <2>1. i < j <=> rank[i] < rank[j]
    BY <1>2, <1>3, <1>4 DEF Numbered
  <2> QED BY <1>3, <1>4, <2>1
<1>7. rank[j] < passed[Agent(j)]
  BY <1>3, <1>4, <1>5, <1>6
<1>8. j \in done
  BY <1>2, <1>7 DEF Numbered
<1> QED BY <1>2, <1>8 DEF AllMet

\* A packet completes only after the dependencies of every barrier up to it in
\* its queue, however many controllers, slots and dependencies there are.
THEOREM BarriersDelay == Spec => []Delays
<1>1. Spec => []Inv
  BY InitInv, StepInv, PTL DEF Spec
<1> QED BY <1>1, InvDelays, PTL

-----------------------------------------------------------------------------
(* Who waits for whom.                                                     *)

\* Of controllers that wait for each other, one is misled.
CirclesAreMisled ==
  \A S \in SUBSET Agents :
    S # {} /\ WaitOnEachOther(S) => \E a \in S : Misled(a)

\* A set of numbers has a least one.
LEMMA Least ==
  ASSUME NEW T, T \subseteq Nat, T # {}
  PROVE  \E i \in T : \A j \in T : i <= j
<1>1. \E i \in T : \A j \in T : <<j, i>> \notin OpToRel(<, Nat)
  BY NatLessThanWellFounded, WFMin
<1>2. \E i \in T : \A j \in T : ~ (j < i)
  BY <1>1, Zenon DEF OpToRel
<1> QED BY <1>2

\* A controller is at the first packet of its queue that is not complete.
LEMMA HeadIsFirst ==
  ASSUME Inv, NEW a \in Agents, Busy(a)
  PROVE  /\ head(a) \in Packets /\ Agent(head(a)) = a
         /\ \A d \in Packets \ done : Agent(d) = a => head(a) <= d
<1>1. PICK rank \in [Packets -> Nat], passed \in [Agents -> Nat] : InvFor(rank, passed)
  BY DEF Inv
<1>2. head(a) \in Packets /\ Agent(head(a)) = a /\ rank[head(a)] = passed[a]
  BY <1>1, HeadFact DEF Busy
<1>3. \A i \in Packets : i \in Int
  <2>1. PICK n \in 0 .. MaxPackets : Packets = 0 .. n - 1
    BY <1>1 DEF InvFor, Types
  <2> QED BY <2>1, BarrierAssumption
<1> SUFFICES ASSUME NEW d \in Packets \ done, Agent(d) = a PROVE head(a) <= d
  BY <1>2
<1>4. ~ (rank[d] < passed[a])
  BY <1>1 DEF InvFor, Numbered
<1>5. ~ (d < head(a))
  <2>1. d < head(a) <=> rank[d] < rank[head(a)]
    BY <1>1, <1>2 DEF InvFor, Numbered
  <2> QED BY <1>2, <1>4, <2>1
<1> QED BY <1>2, <1>3, <1>5

\* A dependency that is complete and not missed has a signal that is zero, and
\* one that is not complete a signal that is not.
LEMMA SignalIsTrue ==
  ASSUME Inv, NEW i \in Packets, NEW k \in Deps, posted[i].deps[k] # Null,
         ~ Missed(i, k)
  PROVE  posted[i].deps[k] \in done <=> Value(i, k) = 0
<1> DEFINE d == posted[i].deps[k]
<1>1. Types /\ SignalsTell /\ NamedAreArmed
  BY DEF Inv, InvFor
<1>2. d \in armed /\ Agent(d) \in Agents /\ Slot(d) \in Slots
  BY <1>1 DEF NamedAreArmed, Types, Agent, Slot
<1>3. d \in armed \cap Occupants(Agent(d), Slot(d))
  BY <1>1, <1>2 DEF Types, Occupants, Agent, Slot
<1>4. Value(i, k) = signal[Agent(d)][Slot(d)]
  BY DEF Value, Agent, Slot
<1>5. d \in done => d \notin late /\ InSlot(Agent(d), Slot(d)) = d
  BY DEF Missed, Agent, Slot
<1>6. /\ d \notin done => signal[Agent(d)][Slot(d)] = 1
      /\ d \in done \ late /\ InSlot(Agent(d), Slot(d)) = d =>
           signal[Agent(d)][Slot(d)] = 0
  BY <1>1, <1>2, <1>3 DEF SignalsTell
<1> HIDE DEF d
<1>7. d \in done <=> Value(i, k) = 0
  BY <1>4, <1>5, <1>6
<1> QED BY <1>7 DEF d

\* The one of them whose packet was posted first waits for a packet posted
\* earlier still, which another one of them has yet to complete.
LEMMA InvCircles == Inv => CirclesAreMisled
<1> SUFFICES ASSUME Inv, NEW S \in SUBSET Agents, S # {}, WaitOnEachOther(S),
                    \A a \in S : ~ Misled(a)
             PROVE  FALSE
  BY DEF CirclesAreMisled
<1>1. Types /\ NamedAreArmed
  BY DEF Inv, InvFor
<1>2. \A i \in Packets : i \in Nat
  <2>1. PICK n \in 0 .. MaxPackets : Packets = 0 .. n - 1
    BY <1>1 DEF Types
  <2> QED BY <2>1, BarrierAssumption
<1>3. \A a \in S : Busy(a) /\ head(a) \in Packets
  BY HeadIsFirst DEF WaitOnEachOther
<1>4. PICK a \in S : \A b \in S : head(a) <= head(b)
  <2> DEFINE T == {head(b) : b \in S}
  <2>1. T \subseteq Nat /\ T # {}
    BY <1>2, <1>3
  <2> HIDE DEF T
  <2>2. PICK m \in T : \A j \in T : m <= j
    BY <2>1, Least
  <2> QED BY <2>2 DEF T
<1> DEFINE h == head(a)
<1>5. ASSUME NEW k \in Deps, posted[h].deps[k] \notin done, HeldDep(h, k, S)
      PROVE  FALSE
  <2> DEFINE d == posted[h].deps[k]
  <2>1. d # Null /\ (Agent(d) \in S \/ Occupants(Agent(d), Slot(d)) \subseteq done)
    BY <1>5 DEF HeldDep, Held, Agent, Slot
  <2>2. d \in armed /\ d < h
    BY <1>3, <2>1 , <1>1 DEF NamedAreArmed
  <2>3. d \in Packets \ done /\ d \in Occupants(Agent(d), Slot(d))
    BY <1>1, <1>5, <2>2 DEF Types, Occupants, Agent, Slot
  <2>4. Agent(d) \in S
    BY <2>1, <2>3
  <2>5. head(Agent(d)) <= d
    BY <1>3, <2>3, <2>4, HeadIsFirst
  <2>6. h <= head(Agent(d))
    BY <1>4, <2>4
  <2>7. h \in Nat /\ d \in Nat /\ head(Agent(d)) \in Nat
    BY <1>2, <1>3, <2>3, <2>4
  <2> HIDE DEF d, h
  <2> QED BY <2>2, <2>5, <2>6, <2>7
<1>6. CASE posted[h].kind = "AND"
  <2>1. PICK k \in Deps : HeldDep(h, k, S)
    BY <1>6 DEF WaitOnEachOther
  <2>2. posted[h].deps[k] # Null /\ Value(h, k) # 0
    BY <2>1 DEF HeldDep, Held, Value
  <2>3. ~ Missed(h, k)
    BY <1>6, <2>2 DEF Misled
  <2>4. posted[h].deps[k] \notin done
    BY <1>3, <2>2, <2>3, SignalIsTrue
  <2> QED BY <1>5, <2>1, <2>4
<1>7. CASE posted[h].kind = "OR"
  <2>1. PICK k \in Deps : /\ posted[h].deps[k] # Null /\ ~ Missed(h, k)
                          /\ ~ (posted[h].deps[k] \in done /\ Value(h, k) = 0)
    BY <1>7 DEF Misled
  <2>2. posted[h].deps[k] \notin done /\ Value(h, k) # 0
    BY <1>3, <2>1, SignalIsTrue
  <2>3. HeldDep(h, k, S)
    BY <1>7, <2>2 DEF WaitOnEachOther
  <2> QED BY <1>5, <2>2, <2>3
<1> QED BY <1>6, <1>7 DEF WaitOnEachOther

\* However many controllers wait for each other, one of them waits because of a
\* completion that its barrier cannot see: what barriers truly wait for makes no
\* circle.
THEOREM NoTrueCircle == Spec => []CirclesAreMisled
<1>1. Spec => []Inv
  BY InitInv, StepInv, PTL DEF Spec
<1> QED BY <1>1, InvCircles, PTL

-----------------------------------------------------------------------------
(* The types.                                                              *)

\* A queue has at most all packets.
Bounded == \A a \in Agents : write_index[a] <= total

\* An interval that begins at zero has one length.
LEMMA OneLength ==
  ASSUME NEW n \in Nat, NEW m \in Nat, 0 .. n - 1 = 0 .. m - 1
  PROVE  n = m
<1>1. CASE n < m
  <2>1. n \in 0 .. m - 1 /\ n \notin 0 .. n - 1
    BY <1>1
  <2> QED BY <2>1
<1>2. CASE m < n
  <2>1. m \in 0 .. n - 1 /\ m \notin 0 .. m - 1
    BY <1>2
  <2> QED BY <2>1
<1> QED BY <1>1, <1>2

\* A post adds one to the packets and to one queue.
LEMMA PostBounded ==
  ASSUME Inv, Inv', Bounded, NEW a \in Agents, NEW kind \in Kinds,
         NEW deps \in [Deps -> armed \cup {Null}], Post(a, kind, deps)
  PROVE  Bounded'
<1>1. Types /\ Types'
  BY DEF Inv, InvFor
<1>2. total \in Nat /\ Packets = 0 .. total - 1
  <2>1. total \in 0 .. MaxPackets /\ Packets = 0 .. total - 1
    BY <1>1, Total DEF Types
  <2> QED BY <2>1, BarrierAssumption
<1>3. total' \in Nat /\ Packets' = 0 .. total' - 1
  <2>1. (total \in 0 .. MaxPackets /\ Packets = 0 .. total - 1)'
    BY <1>1, Total DEF Types, total, Packets
  <2> QED BY <2>1, BarrierAssumption
<1>4. Packets' = 0 .. total
  BY DEF Post, Packets
<1>5. total' = total + 1
  <2>1. 0 .. total = 0 .. (total + 1) - 1 /\ total + 1 \in Nat
    BY <1>2
  <2> QED BY <1>3, <1>4, <2>1, OneLength
<1> SUFFICES ASSUME NEW b \in Agents PROVE write_index'[b] <= total'
  BY DEF Bounded
<1>6. write_index[b] \in Nat /\ write_index[b] <= total
  BY <1>1 DEF Types, Bounded
<1>7. write_index'[b] = write_index[b] \/ write_index'[b] = write_index[b] + 1
  <2>1. write_index \in [Agents -> Nat] /\ write_index' = [write_index EXCEPT ![a] = @ + 1]
    BY <1>1 DEF Post, Types
  <2> QED BY <2>1
<1> QED BY <1>2, <1>5, <1>6, <1>7

\* Nothing else posts.
LEMMA StepBounded == Inv /\ Inv' /\ Bounded /\ [Next]_vars => Bounded'
<1> SUFFICES ASSUME Inv, Inv', Bounded, [Next]_vars PROVE Bounded'
  OBVIOUS
<1>1. CASE Posts
  BY <1>1, PostBounded, DependenciesType DEF Posts
<1>2. CASE UNCHANGED <<posted, write_index>>
  BY <1>2 DEF Bounded, total, Packets
<1>3. CASE \E a \in Agents : Controller(a)
  BY <1>2, <1>3 DEF Controller, HandleOp, Enter, TestAnd, EnterOr, PollOr, NextOr, Goto, Complete
<1>4. CASE \E i \in Packets : Arm(i)
  BY <1>2, <1>4 DEF Arm
<1> QED BY <1>1, <1>2, <1>3, <1>4 DEF Next, Posts, vars

\* Types of the rings, the signals and the handlers' positions.
THEOREM BarrierTypes == Spec => []TypeOK
<1>1. Spec => []Inv
  BY InitInv, StepInv, PTL DEF Spec
<1>2. Init => Bounded
  <2> SUFFICES ASSUME Init, NEW a \in Agents PROVE write_index[a] <= total
    BY DEF Bounded
  <2>1. write_index[a] = 0
    BY DEF Init
  <2>2. total \in 0 .. MaxPackets
    BY InitInv, Total DEF Inv, InvFor, Types
  <2> QED BY <2>1, <2>2
<1>3. Inv /\ Bounded => TypeOK
  <2> SUFFICES ASSUME Inv, Bounded PROVE TypeOK
    OBVIOUS
  <2>1. Types
    BY DEF Inv, InvFor
  <2>2. total \in 0 .. MaxPackets
    BY <2>1, Total DEF Types
  <2>3. ASSUME NEW a \in Agents PROVE write_index[a] \in 0 .. MaxPackets
    <3>1. write_index[a] \in Nat /\ write_index[a] <= total
      BY <2>1 DEF Types, Bounded
    <3> QED BY <2>2, <3>1, BarrierAssumption
  <2>4. write_index \in [Agents -> 0 .. MaxPackets]
    BY <2>1, <2>3 DEF Types
  <2> QED BY <2>1, <2>4 DEF Types, TypeOK
<1> QED BY <1>1, <1>2, <1>3, StepBounded, PTL DEF Spec
=============================================================================
