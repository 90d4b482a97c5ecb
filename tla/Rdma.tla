-------------------------------- MODULE Rdma --------------------------------
(***************************************************************************)
(* RDMA messaging between AIR hosts: air_ernic_mem_alloc, air_send,        *)
(* air_recv and air_barrier (src/runtime_lib/airhost/network.cpp) over the *)
(* queue pairs, doorbells and device memory of the ERNIC driver            *)
(* (pcie-ernic.cpp and pcie-ernic-dev-mem-allocator.cpp).                  *)
(*                                                                         *)
(* A queue pair has a send queue that the hardware works off into the      *)
(* receive queue of its peer.  Two agents use it: the host's driver, which *)
(* counts its own receptions and submissions in struct pcie_ernic_qp, and  *)
(* the controller on the card, which handles the packets air_send and      *)
(* air_recv post.  The hardware and the controller are not in the source:  *)
(* reliable, in order, and the controller uses the hardware's counts.      *)
(*                                                                         *)
(* Device memory is counted in units of RQE_SIZE bytes; a unit is one      *)
(* value.  The ERNIC's error buffers and the completion queues, which are  *)
(* not enabled, are left out, and a send queue is not kept in the memory.  *)
(***************************************************************************)
EXTENDS Integers, Sequences, FiniteSets, SequencesExt

CONSTANTS
  WorldSize,  \* the number of hosts
  Programs,   \* what the hosts do: functions from Ranks to sequences of calls
  QDepth,     \* entries of a send and of a receive queue
  PageUnits,  \* the units of the page that is allocated for a queue
  RegUnits    \* the length pcie_ernic_reg_adv is given: 2 MB

\* The page of a receive queue has fewer entries than the queue is said to.
ASSUME RdmaAssumption ==
  /\ WorldSize \in Nat \ {0}
  /\ PageUnits \in Nat \ {0} /\ QDepth \in Nat /\ PageUnits < QDepth
  /\ RegUnits \in Nat

VARIABLES
  prog, begun, todo,   \* per host: its calls, how many it began, and the
                       \* steps left of the last one
  got,        \* per host: rkey and vaddr of the air_ernic_mem_alloc under way
  table,      \* per host: tensor_to_qp_map, with local_buff in it
  memory,     \* per host: the device memory that was written
  dev_mem_ptr,\* per host: of the allocator
  window,     \* per queue pair: base and length of its protection domain
  sq, sq_pidb, sq_cidb, rq_pidb,  \* struct pcie_ernic_qp, sq as the WQEs' laddr
  SQPI, CQHEAD, RQPI, RQCI,       \* the ERNIC's registers
  disabled,   \* the queue pairs that are freed
  posted,     \* history, per queue pair: the messages submitted to its peer
  taken       \* history, per queue pair: the messages taken from its peer

host == <<prog, begun, todo>>
mem  == <<got, table, memory, dev_mem_ptr, window>>
qps  == <<sq, sq_pidb, sq_cidb, rq_pidb, disabled, SQPI, CQHEAD, RQPI, RQCI>>
vars == <<host, mem, qps, posted, taken>>

Ranks == 0 .. WorldSize - 1
QPs == {qp \in Ranks \X Ranks : qp[1] # qp[2]}

\* The other hosts in the order of their ranks, and the place of one of them.
Peers(r) == [i \in 1 .. WorldSize - 1 |-> IF i <= r THEN i - 1 ELSE i]
place(r, q) == IF q < r THEN q ELSE q - 1
Put(f, i, v) == [j \in DOMAIN f \cup {i} |-> IF j = i THEN v ELSE f[j]]

\* The controller's and the hardware's indices wrap.
afterMutant(n) == n + 1 \* mutant: they do not
after(n) == (n + 1) % QDepth

\* pcie_ernic_create_qp allocates four pages per queue pair, in this order.
QueuePage(r, q, page) == (4 * place(r, q) + page) * PageUnits
RqBase(r, q)  == QueuePage(r, q, 2)
DevDbs(r, q)  == QueuePage(r, q, 3)

-----------------------------------------------------------------------------
(* The steps of a call.                                                    *)

Malloc(q, n, size)     == [do |-> "malloc", q |-> q, name |-> n, size |-> size]
Register(q, n)         == [do |-> "register", q |-> q, name |-> n]
Advertise(q, n, field) == [do |-> "advertise", q |-> q, name |-> n, field |-> field]
Poll(q)                == [do |-> "poll", q |-> q]
PostRecv(q)            == [do |-> "post_recv", q |-> q]
FreeQp(q)              == [do |-> "free", q |-> q]
Copy(q, field)         == [do |-> "copy", q |-> q, field |-> field]
Wqe(q, n, i, kind)     == [do |-> "wqe", q |-> q, name |-> n, i |-> i, kind |-> kind]
Recv(q, n, i, kind)    == [do |-> "recv", q |-> q, name |-> n, i |-> i, kind |-> kind]

air_ernic_mem_alloc(r, c) ==
  IF c.at = r
    THEN <<Malloc(r, c.t, c.size)>> \o
         (IF c.register_mem
            THEN LET adv(q) == <<Register(q, c.t), Advertise(q, c.t, "rkey"), Poll(q),
                                 Advertise(q, c.t, "vaddr"), Poll(q)>>
                 IN  FlattenSeq([i \in DOMAIN Peers(r) |-> adv(Peers(r)[i])])
            ELSE <<>>)
    ELSE <<PostRecv(c.at), Copy(c.at, "rkey"), PostRecv(c.at), Copy(c.at, "vaddr"),
           Malloc(c.at, c.t, c.size)>>

\* A tensor that is not mapped, or is remote, ends the call.
Local(r, t) == t \in DOMAIN table[r] /\ table[r][t].qp = r

\* size is num_rqes.  The sender's rqe_offset stays 0.
air_recvMutant(r, t, size, src) == \* mutant: no synchronising SEND
  IF Local(r, t) THEN [i \in 1..size |-> Recv(src, t, i - 1, "data")] ELSE <<>>
air_recv(r, t, size, src) ==
  IF Local(r, t)
    THEN [i \in 1..size |-> Recv(src, t, i - 1, "data")] \o <<Wqe(src, t, 0, "sync")>>
    ELSE <<>>
air_send(r, t, size, dst) ==
  IF Local(r, t)
    THEN [i \in 1..size |-> Wqe(dst, t, 0, "data")] \o <<Recv(dst, t, 0, "sync")>>
    ELSE <<>>

air_barrierMutant(r, t) == \* mutant: rank 0 answers before it has heard of all
  IF r = 0
    THEN FlattenSeq([i \in DOMAIN Peers(0) |->
                       air_recv(0, t, 1, Peers(0)[i]) \o air_send(0, t, 1, Peers(0)[i])])
    ELSE air_send(r, t, 1, 0) \o air_recv(r, t, 1, 0)
air_barrier(r, t) ==
  IF r = 0
    THEN FlattenSeq([i \in DOMAIN Peers(0) |-> air_recv(0, t, 1, Peers(0)[i])]) \o
         FlattenSeq([i \in DOMAIN Peers(0) |-> air_send(0, t, 1, Peers(0)[i])])
    ELSE air_send(r, t, 1, 0) \o air_recv(r, t, 1, 0)

Steps(r, c) ==
  CASE c.op = "alloc"   -> air_ernic_mem_alloc(r, c)
    [] c.op = "send"    -> air_send(r, c.t, c.size, c.at)
    [] c.op = "recv"    -> air_recv(r, c.t, c.size, c.at)
    [] c.op = "barrier" -> air_barrier(r, c.t)
    [] c.op = "free"    -> [i \in DOMAIN Peers(r) |-> FreeQp(Peers(r)[i])]

Begin(r) ==
  /\ todo[r] = <<>> /\ begun[r] < Len(prog[r])
  /\ begun' = [begun EXCEPT ![r] = @ + 1]
  /\ todo' = [todo EXCEPT ![r] = Steps(r, prog[r][begun[r] + 1])]
  /\ UNCHANGED <<prog, mem, qps, posted, taken>>

AtStep(r, do) == todo[r] # <<>> /\ Head(todo[r]).do = do
Done(r) == todo' = [todo EXCEPT ![r] = Tail(@)] /\ UNCHANGED <<prog, begun>>

-----------------------------------------------------------------------------
(* The programs: the calls of two hosts match, which is that what either   *)
(* submits to the other in the course of its calls, the other takes in the *)
(* course of its own; and a host messages with tensors it has allocated.   *)

isCall(r, c) ==
  \/ /\ c.op = "alloc"
     /\ c.at \in Ranks /\ c.size \in Nat /\ c.register_mem \in BOOLEAN
  \/ c.op \in {"send", "recv"} /\ c.at \in Ranks \ {r} /\ c.size \in Nat
  \/ c.op \in {"barrier", "free"}

\* What call c of r has to do with q, in order.
Exchange(r, q, c) ==
  LET of == CASE c.op = "alloc" -> <<c.op, c.t>> [] c.op = "barrier" -> <<c.op>> [] OTHER -> <<"message">>
      post(kind) == [post |-> TRUE, kind |-> kind, of |-> of]
      take(kind) == [post |-> FALSE, kind |-> kind, of |-> of]
  IN  CASE c.op = "alloc" /\ c.at = r /\ c.register_mem -> <<post("rkey"), post("vaddr")>>
        [] c.op = "alloc" /\ c.at = q -> <<take("rkey"), take("vaddr")>>
        [] c.op = "send" /\ c.at = q -> [i \in 1..c.size |-> post("data")] \o <<take("sync")>>
        [] c.op = "recv" /\ c.at = q -> [i \in 1..c.size |-> take("data")] \o <<post("sync")>>
        [] c.op = "barrier" /\ r = 0 ->
             <<take("data"), post("sync"), post("data"), take("sync")>>
        [] c.op = "barrier" /\ q = 0 ->
             <<post("data"), take("sync"), take("data"), post("sync")>>
        [] OTHER -> <<>>
Script(calls, r, q) == FlattenSeq([i \in DOMAIN calls[r] |-> Exchange(r, q, calls[r][i])])

Dual(script) == [i \in DOMAIN script |->
  [post |-> ~ script[i].post, kind |-> script[i].kind, of |-> script[i].of]]
Matched(calls) == \A qp \in QPs : Script(calls, qp[1], qp[2]) = Dual(Script(calls, qp[2], qp[1]))

Owned(calls) == \A r \in Ranks : \A i \in DOMAIN calls[r] :
  calls[r][i].op \in {"send", "recv", "barrier"} =>
    \E j \in 1 .. i - 1 :
      calls[r][j].op = "alloc" /\ calls[r][j].t = calls[r][i].t /\ calls[r][j].at = r

\* An entry of tensor_to_qp_map is keyed by the buffer that was just allocated.
Distinct(calls) == \A r \in Ranks : \A i, j \in DOMAIN calls[r] :
  calls[r][i].op = "alloc" /\ calls[r][j].op = "alloc" /\ calls[r][i].t = calls[r][j].t => i = j

ASSUME ProgramsAssumption == \A calls \in Programs :
  /\ \A r \in Ranks :
       /\ calls[r] \in Seq({calls[r][i] : i \in DOMAIN calls[r]})
       /\ \A i \in DOMAIN calls[r] : isCall(r, calls[r][i])
  /\ Matched(calls) /\ Owned(calls) /\ Distinct(calls)

-----------------------------------------------------------------------------
(* Device memory and registration.                                         *)

\* dev_mem_alloc: the next units.  A tensor's content is its own, and a local
\* tensor is in no queue pair.
DevMemAlloc(r) ==
  LET s == Head(todo[r])
      pa == dev_mem_ptr[r]
      units == pa .. pa + s.size - 1
  IN  /\ AtStep(r, "malloc")
      /\ dev_mem_ptr' = [dev_mem_ptr EXCEPT ![r] = pa + s.size]
      /\ table' = [table EXCEPT ![r] = Put(@, s.name,
                     [qp |-> s.q, pa |-> pa, size |-> s.size,
                      rkey |-> got[r].rkey, vaddr |-> got[r].vaddr])]
      /\ got' = [got EXCEPT ![r] = [rkey |-> <<>>, vaddr |-> <<>>]]
      /\ memory' = [memory EXCEPT ![r] = [a \in units \cup DOMAIN @ |->
                      IF a \in units THEN <<"data", r, s.name, a - pa>> ELSE @[a]]]
      /\ Done(r)
      /\ UNCHANGED <<window, qps, posted, taken>>

\* pcie_ernic_reg_mr: a buffer just behind the registered one extends it.
registeredMutant(w, pa, size) == \* mutant: one behind or after it does
  IF w.length # 0 /\ w.base + w.size <= pa THEN [w EXCEPT !.length = w.size + RegUnits]
  ELSE [base |-> pa, size |-> size, length |-> RegUnits]
registered(w, pa, size) ==
  IF w.length # 0 /\ w.base + w.size = pa THEN [w EXCEPT !.length = w.size + RegUnits]
  ELSE [base |-> pa, size |-> size, length |-> RegUnits]

RegMr(r) ==
  LET s == Head(todo[r]) IN
  /\ AtStep(r, "register")
  /\ window' = [window EXCEPT ![<<r, s.q>>] =
                  registered(@, table[r][s.name].pa, table[r][s.name].size)]
  /\ Done(r)
  /\ UNCHANGED <<got, table, memory, dev_mem_ptr, qps, posted, taken>>

-----------------------------------------------------------------------------
(* The driver's side of a queue pair.                                      *)

Posted(r, q, kind, v) == posted' = [posted EXCEPT ![<<r, q>>] = Append(@, <<kind, v>>)]
Taken(r, q, kind, v)  == taken' = [taken EXCEPT ![<<r, q>>] = Append(@, <<kind, v>>)]

\* pcie_ernic_post_wqe of a SEND from a page allocated for the value.
PostWqe(r) ==
  LET s == Head(todo[r])
      pa == dev_mem_ptr[r]
      v == <<s.field, r, s.name, table[r][s.name].pa>>
      qp == <<r, s.q>>
  IN  /\ AtStep(r, "advertise")
      /\ dev_mem_ptr' = [dev_mem_ptr EXCEPT ![r] = pa + PageUnits]
      /\ memory' = [memory EXCEPT ![r] = Put(@, pa, v)]
      /\ sq' = [sq EXCEPT ![qp] = Put(@, sq_pidb[qp], pa)]
      /\ sq_pidb' = [sq_pidb EXCEPT ![qp] = @ + 1]
      /\ SQPI' = [SQPI EXCEPT ![qp] = sq_pidb[qp] + 1]
      /\ Posted(r, s.q, s.field, v)
      /\ Done(r)
      /\ UNCHANGED <<disabled, got, table, window, sq_cidb, rq_pidb, CQHEAD, RQPI, RQCI, taken>>

\* read_sq_cidb_db: one completion at a time.
PollCompletion(r) ==
  LET qp == <<r, Head(todo[r]).q>> IN
  /\ AtStep(r, "poll")
  /\ CQHEAD[qp] # sq_cidb[qp]
  /\ sq_cidb' = [sq_cidb EXCEPT ![qp] = @ + 1]
  /\ Done(r)
  /\ UNCHANGED <<disabled, mem, sq, sq_pidb, rq_pidb, SQPI, CQHEAD, RQPI, RQCI, posted, taken>>

\* read_rq_pidb_db: the local count goes up by one, and does not wrap.
At(r, a) == IF a \in DOMAIN memory[r] THEN memory[r][a] ELSE <<>>
rqe(r, q) ==
  RqBase(r, q) + (IF rq_pidb[<<r, q>>] = 0 THEN QDepth ELSE rq_pidb[<<r, q>>]) - 1

nextMutant(qp) == RQPI[qp] \* mutant: the count follows the register
next(qp) == rq_pidb[qp] + 1

\* pcie_ernic_free_qp, of air_ernic_free: what is submitted completes first.
submitted(qp) == CQHEAD[qp] # SQPI[qp] % QDepth
Free(r) ==
  LET qp == <<r, Head(todo[r]).q>>
      zero(f) == [f EXCEPT ![qp] = 0]
  IN  /\ AtStep(r, "free")
      /\ ~submitted(qp)
      /\ SQPI' = zero(SQPI) /\ CQHEAD' = zero(CQHEAD) /\ RQPI' = zero(RQPI) /\ RQCI' = zero(RQCI)
      /\ disabled' = disabled \cup {qp}
      /\ Done(r)
      /\ UNCHANGED <<mem, sq, sq_pidb, sq_cidb, rq_pidb, posted, taken>>

\* pcie_ernic_post_recv: the entry is the hardware's again before its caller,
\* pcie_ernic_recv_buff, has copied it.
TakeRqe(r) ==
  LET qp == <<r, Head(todo[r]).q>> IN
  /\ AtStep(r, "post_recv")
  /\ RQPI[qp] # rq_pidb[qp]
  /\ rq_pidb' = [rq_pidb EXCEPT ![qp] = next(qp)]
  /\ RQCI' = [RQCI EXCEPT ![qp] = next(qp)]
  /\ Done(r)
  /\ UNCHANGED <<disabled, mem, sq, sq_pidb, sq_cidb, SQPI, CQHEAD, RQPI, posted, taken>>

CopyRqe(r) ==
  LET s == Head(todo[r])
      v == At(r, rqe(r, s.q))
  IN  /\ AtStep(r, "copy")
      /\ got' = [got EXCEPT ![r][s.field] = v]
      /\ Taken(r, s.q, s.field, v)
      /\ Done(r)
      /\ UNCHANGED <<table, memory, dev_mem_ptr, window, qps, posted>>

-----------------------------------------------------------------------------
(* The controller, for the packets of air_send and air_recv.               *)

PostRdmaWqe(r) ==
  LET s == Head(todo[r])
      qp == <<r, s.q>>
      pa == table[r][s.name].pa + s.i
  IN  /\ AtStep(r, "wqe")
      /\ sq' = [sq EXCEPT ![qp] = Put(@, SQPI[qp] % QDepth, pa)]
      /\ SQPI' = [SQPI EXCEPT ![qp] = after(@)]
      /\ Posted(r, s.q, s.kind, At(r, pa))
      /\ Done(r)
      /\ UNCHANGED <<disabled, mem, sq_pidb, sq_cidb, rq_pidb, CQHEAD, RQPI, RQCI, taken>>

\* A reception of length 0 copies nothing.
PostRdmaRecv(r) ==
  LET s == Head(todo[r])
      qp == <<r, s.q>>
      v == At(r, RqBase(r, s.q) + (RQCI[qp] % QDepth))
  IN  /\ AtStep(r, "recv")
      /\ RQPI[qp] # RQCI[qp] % QDepth
      /\ RQCI' = [RQCI EXCEPT ![qp] = after(@)]
      /\ memory' = IF s.kind = "sync" THEN memory
                   ELSE [memory EXCEPT ![r] = Put(@, table[r][s.name].pa + s.i, v)]
      /\ Taken(r, s.q, s.kind, v)
      /\ Done(r)
      /\ UNCHANGED <<disabled, got, table, dev_mem_ptr, window, sq, sq_pidb, sq_cidb, rq_pidb, SQPI, CQHEAD, RQPI, posted>>

-----------------------------------------------------------------------------
\* The ERNIC executes the next SEND: it reads the local memory, writes the
\* peer's receive queue and its doorbell, and completes the WQE.  A full
\* receive queue holds it up.
Deliver(r, q) ==
  LET qp == <<r, q>>
      there == <<q, r>>
      v == IF CQHEAD[qp] \in DOMAIN sq[qp] THEN At(r, sq[qp][CQHEAD[qp]]) ELSE <<>>
  IN  /\ {qp, there} \cap disabled = {}
      /\ submitted(qp)
      /\ after(RQPI[there]) # RQCI[there] % QDepth
      /\ memory' = [memory EXCEPT ![q] =
                      Put(Put(@, RqBase(q, r) + RQPI[there], v), DevDbs(q, r), <<"db">>)]
      /\ RQPI' = [RQPI EXCEPT ![there] = after(@)]
      /\ CQHEAD' = [CQHEAD EXCEPT ![qp] = after(@)]
      /\ UNCHANGED <<disabled, host, got, table, dev_mem_ptr, window, sq, sq_pidb, sq_cidb,
                     rq_pidb, SQPI, RQCI, posted, taken>>

Host(r) ==
  \/ Begin(r) \/ DevMemAlloc(r) \/ RegMr(r) \/ PostWqe(r) \/ PollCompletion(r) \/ Free(r)
  \/ TakeRqe(r) \/ CopyRqe(r) \/ PostRdmaWqe(r) \/ PostRdmaRecv(r)

Init ==
  /\ prog \in Programs
  /\ begun = [r \in Ranks |-> 0]
  /\ todo = [r \in Ranks |-> <<>>]
  /\ got = [r \in Ranks |-> [rkey |-> <<>>, vaddr |-> <<>>]]
  /\ table = [r \in Ranks |-> <<>>]
  /\ memory = [r \in Ranks |-> <<>>]
  /\ dev_mem_ptr = [r \in Ranks |-> 4 * PageUnits * (WorldSize - 1)]
  /\ window = [qp \in QPs |-> [base |-> 0, size |-> 0, length |-> 0]]
  /\ sq = [qp \in QPs |-> <<>>]
  /\ sq_pidb = [qp \in QPs |-> 0] /\ sq_cidb = sq_pidb /\ rq_pidb = sq_pidb
  /\ SQPI = sq_pidb /\ CQHEAD = sq_pidb /\ RQPI = sq_pidb /\ RQCI = sq_pidb
  /\ disabled = {}
  /\ posted = [qp \in QPs |-> <<>>]
  /\ taken = [qp \in QPs |-> <<>>]

Next == (\E r \in Ranks : Host(r)) \/ (\E qp \in QPs : Deliver(qp[1], qp[2]))
Fairness ==
  /\ \A r \in Ranks : WF_vars(Host(r))
  /\ \A qp \in QPs : WF_vars(Deliver(qp[1], qp[2]))
Spec == Init /\ [][Next]_vars /\ Fairness

-----------------------------------------------------------------------------
(* The programs the driver is made for: the hosts allocate before they     *)
(* message, for the driver's counts do not follow the controller's; what a *)
(* queue pair has carried so far fits the one page of its receive queue,   *)
(* which the queue depth does not; a registered tensor fits the registered *)
(* length.                                                                 *)

AllocsFirst(r) ==
  \A i, j \in DOMAIN prog[r] : prog[r][i].op = "alloc" /\ prog[r][j].op # "alloc" => i < j

Fits(r, q) == Len(posted[<<r, q>>]) <= PageUnits

Regular ==
  /\ \A r \in Ranks : AllocsFirst(r)
  /\ \A qp \in QPs : Fits(qp[1], qp[2])
  /\ \A r \in Ranks : \A i \in DOMAIN prog[r] :
       prog[r][i].op = "alloc" => prog[r][i].size <= RegUnits

-----------------------------------------------------------------------------
(* Properties.                                                             *)

TypeOK ==
  /\ \A r \in Ranks :
       /\ begun[r] \in 0 .. Len(prog[r]) /\ dev_mem_ptr[r] \in Nat
       /\ \A n \in DOMAIN table[r] : table[r][n].qp \in Ranks
  /\ disabled \subseteq QPs
  /\ \A qp \in QPs :
       /\ {sq_pidb[qp], sq_cidb[qp], rq_pidb[qp]} \subseteq 0 .. 2 * QDepth
       /\ {CQHEAD[qp], RQPI[qp]} \subseteq 0 .. QDepth - 1
       /\ \A i \in DOMAIN sq[qp] : sq[qp][i] \in Nat

\* What a host takes from a peer, by the driver or by the controller, is what
\* the peer submitted, in its order and meant for that call: the data, the
\* synchronising SENDs that share the queue pair with them and the two values
\* of an advertisement are not mistaken for one another, lost or overwritten.
\* air_recv, air_send and pcie_ernic_recv_buff.
InOrder ==
  Regular => \A qp \in QPs :
    LET there == posted[<<qp[2], qp[1]>>] IN
    \A i \in DOMAIN taken[qp] :
      /\ i <= Len(there) /\ taken[qp][i][1] = there[i][1]
      /\ taken[qp][i][1] # "sync" => taken[qp][i][2] = there[i][2]

\* No host leaves its n-th air_barrier before every host has entered its own.
Barriers(r, n) == Cardinality({i \in 1..n : prog[r][i].op = "barrier"})
Barrier ==
  Regular => \A r, q \in Ranks :
    Barriers(r, IF todo[r] = <<>> THEN begun[r] ELSE begun[r] - 1) <= Barriers(q, begun[q])

\* The address a host holds for a remote tensor is the one its owner gave it, and
\* the tensor its owner registered last for the host lies in the window the
\* hardware opens to it (air_ernic_mem_alloc, pcie_ernic_reg_mr).
LastFrom(r, q) ==
  {t \in DOMAIN table[r] : table[r][t].qp = q /\
     \A u \in DOMAIN table[r] : table[r][u].qp = q => table[r][u].pa <= table[r][t].pa}
Reachable ==
  Regular => \A r, q \in Ranks : r # q =>
    /\ \A t \in DOMAIN table[r] : table[r][t].qp = q =>
         table[r][t].vaddr = <<"vaddr", q, t, table[q][t].pa>>
    /\ \A t \in LastFrom(r, q) :
         LET w == window[<<q, r>>]
             own == table[q][t]
         IN  (\A u \in DOMAIN table[q] : table[q][u].qp = q => table[q][u].pa <= own.pa) =>
               w.base <= own.pa /\ own.pa + own.size <= w.base + w.length

\* Every call returns: the blocking sends, receives and barriers of hosts whose
\* calls match do not wait for one another for ever.
Completes == []Regular => <>(\A r \in Ranks : begun[r] = Len(prog[r]) /\ todo[r] = <<>>)
=============================================================================
