------------------------------- MODULE RdmaMC -------------------------------
(***************************************************************************)
(* Three hosts.  A program is what every host calls for a common schedule, *)
(* so that sends and receives match and some order of the calls works.     *)
(***************************************************************************)
EXTENDS Rdma

\* A registered tensor is allocated by every host, the others by their owner.
Alloc(t, size, at) == [op |-> "alloc", t |-> t, size |-> size, at |-> at, register_mem |-> TRUE]
Own(t, size, at) == [op |-> "alloc", t |-> t, size |-> size, at |-> at, register_mem |-> FALSE]
Message(src, dst, t, u, size) ==
  [op |-> "message", src |-> src, dst |-> dst, t |-> t, u |-> u, size |-> size]
Close == [op |-> "free"]
Sync(t) == [op |-> "barrier", t |-> t]

CallOf(r, e) ==
  CASE e.op = "message" ->
         (IF r = e.src THEN <<[op |-> "send", t |-> e.t, size |-> e.size, at |-> e.dst]>>
          ELSE IF r = e.dst THEN <<[op |-> "recv", t |-> e.u, size |-> e.size, at |-> e.src]>>
          ELSE <<>>)
    [] e.op = "alloc" -> IF e.register_mem \/ e.at = r THEN <<e>> ELSE <<>>
    [] OTHER -> <<e>>
CallsOf(schedule) ==
  [r \in Ranks |-> FlattenSeq([i \in DOMAIN schedule |-> CallOf(r, schedule[i])])]

Tensors == <<Own("x", 2, 0), Own("x", 2, 1), Own("x", 2, 2)>>
Schedules == {
  <<Alloc("a", 2, 1), Alloc("b", 2, 0)>> \o Tensors \o <<Message(1, 0, "a", "b", 2), Sync("x"), Close>>,
  <<Alloc("a", 2, 1), Alloc("c", 2, 1)>> \o Tensors \o <<Message(0, 1, "x", "c", 1)>>,
  Tensors \o <<Sync("x"), Sync("x")>>,
  Tensors \o <<Message(0, 1, "x", "x", 2), Message(1, 2, "x", "x", 1), Message(2, 0, "x", "x", 1), Close>>,
  \* not Regular
  Tensors \o <<Message(0, 1, "x", "x", 1), Alloc("a", 2, 1)>>,
  <<Own("y", 17, 0), Own("y", 17, 1), Message(0, 1, "y", "y", 17)>>}
MCPrograms == {CallsOf(s) : s \in Schedules}
=============================================================================
