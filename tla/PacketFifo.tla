----------------------------- MODULE PacketFifo -----------------------------
(***************************************************************************)
(* What the host/firmware queue of runtime_lib promises, without a ring,   *)
(* headers, doorbells or signals: packets are posted one after the other,  *)
(* the controller performs each exactly once and in posting order, and the *)
(* host only ever believes a packet complete after it was performed.       *)
(***************************************************************************)
EXTENDS Naturals, Sequences

VARIABLES
  posted,    \* number of packets handed to the controller
  performed, \* indices of the packets performed, in the order performed
  acked      \* packets 0 .. acked-1 are known complete to the host

fifoVars == <<posted, performed, acked>>

FifoInit ==
  /\ posted = 0
  /\ performed = <<>>
  /\ acked = 0

Post ==
  /\ posted' = posted + 1
  /\ UNCHANGED <<performed, acked>>

Perform ==
  /\ Len(performed) < posted
  /\ performed' = Append(performed, Len(performed))
  /\ UNCHANGED <<posted, acked>>

\* One wait may acknowledge several packets: completion is in order.
Acknowledge ==
  /\ acked' \in (acked + 1) .. Len(performed)
  /\ UNCHANGED <<posted, performed>>

FifoNext == Post \/ Perform \/ Acknowledge

FifoSpec == FifoInit /\ [][FifoNext]_fifoVars
=============================================================================
