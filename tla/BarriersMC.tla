----------------------------- MODULE BarriersMC -----------------------------
(***************************************************************************)
(* Two controllers. One is given any packets up to three; or one of them   *)
(* goes to the other; or there are the four it takes for barriers of two   *)
(* queues to wait for each other: queue 1 wraps round its ring, so that    *)
(* its barrier gets the signal another one has been given.                 *)
(***************************************************************************)
EXTENDS Barriers

Counts == [Agents -> [Kinds -> 0 .. 3]]

Given0(load) == load[0]["OP"] + load[0]["AND"] + load[0]["OR"]
Given1(load) == load[1]["OP"] + load[1]["AND"] + load[1]["OR"]

Three == {load \in Counts : Given0(load) <= 1 /\ Given0(load) + Given1(load) <= 3}

Crossing ==
  {load \in Counts :
     /\ load[0]["OP"] = 0 /\ load[0]["AND"] + load[0]["OR"] <= 1
     /\ load[1]["OP"] <= 2 /\ load[1]["AND"] <= 1 /\ load[1]["OR"] = 0}

McLoads == Three \cup Crossing
=============================================================================
