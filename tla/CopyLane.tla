------------------------------ MODULE CopyLane ------------------------------
(***************************************************************************)
(* What the dispatch loop relies on when it runs an ND copy on a lane: a   *)
(* number of descriptors goes to the DMA, never more than Stall at a time, *)
(* the copy may be left and taken up again at any point, and it is only    *)
(* done when none is left and none is outstanding. AgentDispatch embeds    *)
(* these steps; NdMemcpy implements them with addresses.                   *)
(***************************************************************************)
EXTENDS Naturals

CONSTANT Stall

VARIABLES
  phase,      \* "staged", "running" or "done"
  left,       \* descriptors still to push
  outstanding \* descriptors pushed and not finished

lane == <<phase, left, outstanding>>

CopyInit == phase = "staged" /\ left \in Nat /\ outstanding = 0

Resume ==
  /\ phase = "staged"
  /\ phase' = "running"
  /\ UNCHANGED <<left, outstanding>>

Push ==
  /\ phase = "running"
  /\ left > 0 /\ outstanding < Stall
  /\ left' = left - 1
  /\ outstanding' = outstanding + 1
  /\ UNCHANGED phase

LeaveUnfinished ==
  /\ phase = "running"
  /\ left > 0 \/ outstanding > 0
  /\ phase' = "staged"
  /\ UNCHANGED <<left, outstanding>>

Complete ==
  /\ phase = "running"
  /\ left = 0 /\ outstanding = 0
  /\ phase' = "done"
  /\ UNCHANGED <<left, outstanding>>

Finish ==
  /\ outstanding > 0
  /\ outstanding' = outstanding - 1
  /\ UNCHANGED <<phase, left>>

CopyNext ==
  \/ Resume
  \/ Push
  \/ LeaveUnfinished
  \/ Complete
  \/ Finish

CopySpec == CopyInit /\ [][CopyNext]_lane
=============================================================================
