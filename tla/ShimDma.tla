------------------------------ MODULE ShimDma ------------------------------
(***************************************************************************)
(* xaie_shim_dma_push_bd of controller/main.cpp: how the controller gives  *)
(* buffer descriptors to the shim DMAs. A channel of a DMA owns four       *)
(* descriptors and a start queue of four; the controller picks the next    *)
(* descriptor with a global array last_bd that has one entry per channel,  *)
(* direction and PARITY of the column: of the sixteen columns it drives,   *)
(* eight share an entry, though each has descriptors of its own. One       *)
(* channel and one direction are modelled. Between two pushes to a column  *)
(* the others may take the pointer round to a descriptor that still waits  *)
(* in its start queue: the column is lapped.                               *)
(***************************************************************************)
EXTENDS Integers, Sequences

CONSTANTS
  Cols,   \* columns whose shim DMA the controller drives, of shim_dma_cols
  MaxPush \* bound: descriptors pushed to a column

ASSUME ShimAssumption == Cols \subseteq Nat /\ MaxPush \in Nat

VARIABLES
  last_bd,  \* parity -> the next of the four descriptors
  push_pc,  \* within xaie_shim_dma_push_bd
  col, bd,  \* its parameter and its local: the channel and the descriptor
  contents, \* column -> descriptor -> which push wrote it, or Invalid
  queue,    \* column -> the channel's start queue
  pushes,   \* column -> number of pushes
  executed, \* history: column -> contents of the descriptors executed
  picks,    \* history: parity -> how often the pointer was taken
  given,    \* history: column -> which take of the pointer each push was given
  lapped    \* history: columns given a descriptor four takes after one they wait for

shimVars == <<last_bd, push_pc, col, bd, contents, queue, pushes, executed,
              picks, given, lapped>>

BDs == 0 .. 3
Invalid == -1

slot(c) == c % 2

nextBdMutant(b) == IF b = 2 THEN 0 ELSE b + 1 \* mutant: one descriptor is left out
nextBd(b) == IF b = 3 THEN 0 ELSE b + 1

\* What xaie_shim_dma_get_outstanding reads: descriptors the DMA has yet to
\* fetch for the last time.
queued(c) == Len(queue[c])

ShimInit ==
  /\ last_bd = [s \in 0 .. 1 |-> 0]
  /\ push_pc = "idle" /\ col \in Cols /\ bd = 0
  /\ contents = [c \in Cols |-> [b \in BDs |-> Invalid]]
  /\ queue = [c \in Cols |-> <<>>]
  /\ pushes = [c \in Cols |-> 0]
  /\ executed = [c \in Cols |-> <<>>]
  /\ picks = [s \in 0 .. 1 |-> 0]
  /\ given = [c \in Cols |-> <<>>]
  /\ lapped = {}

-----------------------------------------------------------------------------
\* do_packet_nd_memcpy only pushes to a channel with fewer than 4 outstanding
mayPush(c) == queued(c) < 4

\* The pointer has been once round since the oldest descriptor in c's queue.
laps(c) == queue[c] # <<>> /\ picks[slot(c)] - given[c][Len(executed[c]) + 1] >= 4

PickDescriptor(c) ==
  /\ push_pc = "idle"
  /\ pushes[c] < MaxPush
  /\ col' = c
  /\ bd' = last_bd[slot(c)]
  /\ last_bd' = [last_bd EXCEPT ![slot(c)] = nextBd(@)]
  /\ picks' = [picks EXCEPT ![slot(c)] = @ + 1]
  /\ given' = [given EXCEPT ![c] = Append(@, picks[slot(c)])]
  /\ lapped' = IF laps(c) THEN lapped \cup {c} ELSE lapped
  /\ push_pc' = "invalidate"
  /\ UNCHANGED <<contents, queue, pushes, executed>>

\* "Mark the BD as invalid"
Invalidate ==
  /\ push_pc = "invalidate"
  /\ contents' = [contents EXCEPT ![col][bd] = Invalid]
  /\ push_pc' = "write"
  /\ UNCHANGED <<last_bd, col, bd, queue, pushes, executed, picks, given, lapped>>

\* "Set the registers directly"
WriteDescriptor ==
  /\ push_pc = "write"
  /\ contents' = [contents EXCEPT ![col][bd] = pushes[col]]
  /\ push_pc' = "start"
  /\ UNCHANGED <<last_bd, col, bd, queue, pushes, executed, picks, given, lapped>>

\* "Now push into the queue"
StartDescriptor ==
  /\ push_pc = "start"
  /\ queue' = [queue EXCEPT ![col] = Append(@, bd)]
  /\ pushes' = [pushes EXCEPT ![col] = @ + 1]
  /\ push_pc' = "idle"
  /\ UNCHANGED <<last_bd, col, bd, contents, executed, picks, given, lapped>>

\* The DMA is done with the descriptor at the head of a start queue.
Execute(c) ==
  /\ queue[c] # <<>>
  /\ executed' = [executed EXCEPT ![c] = Append(@, contents[c][Head(queue[c])])]
  /\ queue' = [queue EXCEPT ![c] = Tail(@)]
  /\ UNCHANGED <<last_bd, push_pc, col, bd, contents, pushes, picks, given, lapped>>

ShimNext ==
  \/ \E c \in Cols : mayPush(c) /\ PickDescriptor(c)
  \/ Invalidate
  \/ WriteDescriptor
  \/ StartDescriptor
  \/ \E c \in Cols : Execute(c)

ShimSpec == ShimInit /\ [][ShimNext]_shimVars

-----------------------------------------------------------------------------
(* Properties. *)

\* Types of the descriptor pointers, the descriptors and the start queues; a
\* start queue never holds more than the four descriptors there are.
ShimTypeOK ==
  /\ last_bd \in [0 .. 1 -> BDs]
  /\ push_pc \in {"idle", "invalidate", "write", "start"}
  /\ col \in Cols /\ bd \in BDs
  /\ contents \in [Cols -> [BDs -> Int]]
  /\ queue \in [Cols -> Seq(BDs)]
  /\ \A c \in Cols : queued(c) <= 4
  /\ pushes \in [Cols -> Nat]
  /\ executed \in [Cols -> Seq(Int)]
  /\ picks \in [0 .. 1 -> Nat]
  /\ given \in [Cols -> Seq(Nat)]
  /\ lapped \subseteq Cols

InOrder(c) == \A k \in 1 .. Len(executed[c]) : executed[c][k] = k - 1

\* Each push is executed once, in order, with the address it was given (a
\* descriptor is not rewritten, nor invalidated, while the DMA may read it),
\* unless the column was lapped; and only pushes to another column of its
\* parity can have it lapped, never its own, however the channel stalls.
ExecutedUnlessLapped ==
  \A c \in Cols :
    IF c \in lapped THEN \E d \in Cols \ {c} : slot(d) = slot(c) /\ pushes[d] > 0
    ELSE InOrder(c)
=============================================================================
