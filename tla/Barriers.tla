------------------------------ MODULE Barriers ------------------------------
(***************************************************************************)
(* Barrier packets: handle_barrier_and_packet, handle_barrier_or_packet    *)
(* and signal_wait of controller/main.cpp, and the clients that post them  *)
(* (air_wait_all of airhost/host.cpp, the tests 272 and 273). Several      *)
(* controllers, each with its own ring, poll each other's completion       *)
(* signals. A dependency is the ADDRESS of a signal, which is a place in a *)
(* ring slot: the slot may meanwhile hold another packet. A packet is      *)
(* visible as soon as its header is stored, and its signal is set only     *)
(* afterwards, if at all: these are two steps, and a controller that is    *)
(* draining its ring may complete the packet between them. The stores of   *)
(* each are one step here, AirQueue has them store by store; so is the     *)
(* doorbell, without which the controllers look at their rings all the     *)
(* time.                                                                   *)
(***************************************************************************)
EXTENDS Integers, FiniteSets

CONSTANTS
  Agents,     \* the controllers
  Size,       \* MB_QUEUE_SIZE
  MaxPackets, \* bound: packets the host posts in a behaviour
  Loads,      \* bound: how many packets of each kind each agent may be given
  NumDeps,    \* dependencies of a barrier packet: 5
  Word        \* values of a signal: 2^64

ASSUME BarrierAssumption ==
  /\ Size \in Nat \ {0} /\ MaxPackets \in Nat /\ NumDeps \in Nat \ {0}
  /\ Word \in Nat \ {0, 1}

VARIABLES
  posted,      \* the packets, a function on 0 .. n-1, and where each went
  armed,       \* packets whose signal the host has set: the only ones named
  late,        \* history: those in a slot whose signal was set when complete
  write_index, \* agent -> queue_t.write_index
  read_index,  \* agent -> queue_t.read_index
  valid,       \* agent -> slot -> whether the header is not INVALID
  signal,      \* agent -> slot -> completion_signal
  pc, dep,     \* agent -> the position in a barrier's handler
  done         \* packets completed

vars == <<posted, armed, late, write_index, read_index, valid, signal, pc, dep, done>>

Kinds == {"OP", "AND", "OR"}
Slots == 0 .. Size - 1
Deps == 1 .. NumDeps
mymod(i) == i % Size
Packets == DOMAIN posted
total == CHOOSE n \in 0 .. MaxPackets : Packets = 0 .. n - 1

\* No dependency: the address of a shared signal that is always zero.
Null == -1

Occupants(a, s) == {i \in Packets : posted[i].agent = a /\ posted[i].slot = s}

\* The packet whose contents a ring slot has: the last one posted there.
InSlot(a, s) ==
  CHOOSE i \in Occupants(a, s) : \A j \in Occupants(a, s) : j <= i

\* The value at the k-th address of a barrier packet.
Value(i, k) ==
  LET d == posted[i].deps[k]
  IN  IF d = Null THEN 0 ELSE signal[posted[d].agent][posted[d].slot]

Init ==
  /\ posted = [i \in {} |-> {}]
  /\ armed = {}
  /\ late = {}
  /\ write_index = [a \in Agents |-> 0]
  /\ read_index = [a \in Agents |-> 0]
  /\ valid = [a \in Agents |-> [s \in Slots |-> FALSE]]
  /\ signal = [a \in Agents |-> [s \in Slots |-> 0]]
  /\ pc = [a \in Agents |-> "main"]
  /\ dep = [a \in Agents |-> 1]
  /\ done = {}

-----------------------------------------------------------------------------
(* The host thread. It reuses a slot only after its packet is complete.    *)

SlotFree(a) == Occupants(a, mymod(write_index[a])) \subseteq done

\* A barrier may name any packets, in its own queue or another's.
Dependencies(kind) ==
  IF kind = "OP" THEN {[k \in Deps |-> Null]} ELSE [Deps -> armed \cup {Null}]

Given(a, kind) ==
  Cardinality({i \in Packets : posted[i].agent = a /\ posted[i].kind = kind})

WithinLoad(a, kind) ==
  [b \in Agents |-> [k \in Kinds |->
     Given(b, k) + IF b = a /\ k = kind THEN 1 ELSE 0]] \in Loads

\* air_packet_barrier_and and the like: the contents, and last the header.
Post(a, kind, deps) ==
  LET s == mymod(write_index[a])
      p == [agent |-> a, slot |-> s, kind |-> kind, deps |-> deps]
  IN  /\ total < MaxPackets
      /\ SlotFree(a)
      /\ posted' = [i \in 0 .. total |-> IF i < total THEN posted[i] ELSE p]
      /\ write_index' = [write_index EXCEPT ![a] = @ + 1]
      /\ valid' = [valid EXCEPT ![a][s] = TRUE]
      /\ late' = late \ Occupants(a, s)
      /\ UNCHANGED <<armed, read_index, signal, pc, dep, done>>

\* signal_create(1, ..), by the client or air_queue_dispatch, for the packet a
\* queue was given last; a test does both.
Arm(i) ==
  /\ \A j \in Packets : posted[j].agent = posted[i].agent => j <= i
  /\ armed' = armed \cup {i}
  /\ late' = late \cup ({i} \cap done)
  /\ signal' = [signal EXCEPT ![posted[i].agent][posted[i].slot] = 1]
  /\ UNCHANGED <<posted, write_index, read_index, valid, pc, dep, done>>

-----------------------------------------------------------------------------
(* A controller.                                                           *)

head(a) == InSlot(a, mymod(read_index[a]))

nextReadIndex(a) == mymod(read_index[a] + 1)

subtractedMutant(v) == v \* mutant: nobody is told
subtracted(v) == IF v = 0 THEN Word - 1 ELSE v - 1

\* complete_agent_dispatch_packet, complete_barrier_packet
Complete(a) ==
  LET s == mymod(read_index[a])
  IN  /\ done' = done \cup {head(a)}
      /\ valid' = [valid EXCEPT ![a][s] = FALSE]
      /\ signal' = [signal EXCEPT ![a][s] = subtracted(@)]
      /\ read_index' = [read_index EXCEPT ![a] = nextReadIndex(a)]
      /\ pc' = [pc EXCEPT ![a] = "main"]
      /\ dep' = [dep EXCEPT ![a] = 1]
      /\ UNCHANGED <<posted, armed, late, write_index>>

AtPacket(a, kind) ==
  /\ pc[a] = "main"
  /\ valid[a][mymod(read_index[a])]
  /\ posted[head(a)].kind = kind

HandleOp(a) == AtPacket(a, "OP") /\ Complete(a)

Goto(a, label, k) ==
  /\ pc' = [pc EXCEPT ![a] = label]
  /\ dep' = [dep EXCEPT ![a] = k]
  /\ UNCHANGED <<posted, armed, late, write_index, read_index, valid, signal, done>>

Enter(a) ==
  \/ AtPacket(a, "AND") /\ Goto(a, "and", 1)
  \/ AtPacket(a, "OR") /\ Goto(a, "or", 1)

\* signal_wait(s, 0, .., 0) != 0 || ...: the signals are looked at one after
\* the other, a timeout starts over from the first.
andAccepts(a) == Value(head(a), dep[a]) = 0

TestAnd(a) ==
  /\ pc[a] = "and"
  /\ IF ~andAccepts(a) THEN Goto(a, "and", 1)
     ELSE IF dep[a] < NumDeps THEN Goto(a, "and", dep[a] + 1)
     ELSE Complete(a)

\* A signal that is zero when signal_wait is entered yields the default value,
\* which here is 1: it is taken for no dependency.
orEnterMutant == "accept" \* mutant: the default value is 0, as for AND
orEnter == "skip"

\* signal_wait(s, 0, .., 1) != 0 && ...: another signal is tried when one times
\* out, and the first one after the last.
NextOr(a) == Goto(a, "or", IF dep[a] < NumDeps THEN dep[a] + 1 ELSE 1)

EnterOr(a) ==
  /\ pc[a] = "or"
  /\ IF Value(head(a), dep[a]) # 0 THEN Goto(a, "poll", dep[a])
     ELSE IF orEnter = "accept" THEN Complete(a)
     ELSE NextOr(a)

PollOr(a) ==
  /\ pc[a] = "poll"
  /\ IF Value(head(a), dep[a]) = 0 THEN Complete(a) ELSE NextOr(a)

Controller(a) ==
  \/ HandleOp(a)
  \/ Enter(a)
  \/ TestAnd(a)
  \/ EnterOr(a)
  \/ PollOr(a)

Next ==
  \/ \E a \in Agents, kind \in Kinds :
       /\ WithinLoad(a, kind)
       /\ \E deps \in Dependencies(kind) : Post(a, kind, deps)
  \/ \E i \in Packets : Arm(i)
  \/ \E a \in Agents : Controller(a)

Spec == Init /\ [][Next]_vars

\* Each controller runs forever; nothing makes the host post.
FairSpec == Spec /\ \A a \in Agents : WF_vars(Controller(a))

-----------------------------------------------------------------------------
(* Properties. *)

\* Types of the rings, the signals and the handlers' positions.
TypeOK ==
  /\ posted \in [Packets -> [agent : Agents, slot : Slots, kind : Kinds,
                             deps : [Deps -> Packets \cup {Null}]]]
  /\ armed \subseteq Packets /\ late \subseteq done
  /\ write_index \in [Agents -> 0 .. MaxPackets]
  /\ read_index \in [Agents -> Slots]
  /\ valid \in [Agents -> [Slots -> BOOLEAN]]
  /\ signal \in [Agents -> [Slots -> 0 .. Word - 1]]
  /\ pc \in [Agents -> {"main", "and", "or", "poll"}]
  /\ dep \in [Agents -> Deps]
  /\ done \subseteq Packets

\* j is i or comes before it in the same queue.
UpTo(i, j) == j <= i /\ posted[j].agent = posted[i].agent

\* A packet is complete only after every dependency of the AND barriers up to
\* it in its queue, and one dependency of each OR barrier, even when the slots
\* of the dependencies are reused.
Delays ==
  \A i \in done, j \in Packets : UpTo(i, j) =>
    /\ posted[j].kind = "AND" => \A k \in Deps : posted[j].deps[k] \in done \cup {Null}
    /\ posted[j].kind = "OR" => \E k \in Deps : posted[j].deps[k] \in done

\* The controller is at a packet of its ring.
Busy(a) == valid[a][mymod(read_index[a])]

\* A signal that nobody outside of S will bring to zero: the packets of its slot
\* are complete, or it is in the ring of a controller in S.
Held(b, s, S) == signal[b][s] # 0 /\ (b \in S \/ Occupants(b, s) \subseteq done)

HeldDep(i, k, S) ==
  LET d == posted[i].deps[k] IN d # Null /\ Held(posted[d].agent, posted[d].slot, S)

\* The controllers in S are at barriers and wait for nothing outside of S; an
\* OR barrier also passes over every signal that is zero already.
WaitOnEachOther(S) ==
  \A a \in S :
    /\ Busy(a)
    /\ \/ posted[head(a)].kind = "AND" /\ \E k \in Deps : HeldDep(head(a), k, S)
       \/ /\ posted[head(a)].kind = "OR"
          /\ \A k \in Deps : Value(head(a), k) = 0 \/ HeldDep(head(a), k, S)

\* A dependency that is complete, but whose completion is not what its signal
\* tells: it was set once more after it, or is another packet's by now.
Missed(i, k) ==
  LET d == posted[i].deps[k]
  IN  d \in done /\ (d \in late \/ InSlot(posted[d].agent, posted[d].slot) # d)

\* The barrier waits for a dependency that it has missed, or an OR barrier came
\* late for all it has not missed.
Misled(a) ==
  LET i == head(a)
  IN  IF posted[i].kind = "AND"
      THEN \E k \in Deps : Missed(i, k) /\ Value(i, k) # 0
      ELSE \A k \in Deps : \/ posted[i].deps[k] = Null \/ Missed(i, k)
                           \/ posted[i].deps[k] \in done /\ Value(i, k) = 0

\* The packet's controller is one of some that wait for each other, and one of
\* these is misled.
Lost(i) ==
  \E S \in SUBSET Agents :
    posted[i].agent \in S /\ WaitOnEachOther(S) /\ \E a \in S : Misled(a)

\* In the end every packet is complete, unless controllers wait for each other;
\* and then one of them does because of a completion its barrier cannot see: the
\* signal was set too late (H1) or belongs to another packet (H14), or the OR
\* barrier came late (H15). What barriers truly wait for makes no circle.
OnlyMisledWaitForever == <>[](\A i \in Packets : i \in done \/ Lost(i))
=============================================================================
