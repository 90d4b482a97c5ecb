----------------------------- MODULE RdmaProofs -----------------------------
(***************************************************************************)
(* Proofs about the messages of the hosts: for any number of hosts whose   *)
(* calls match, whatever the depth of the queues and the size of their     *)
(* pages, a host takes from a peer what the peer submitted, in its order   *)
(* and of the kind its call expects (RdmaInOrder); no host leaves a        *)
(* barrier before every host has entered it (RdmaBarrier); and the address *)
(* a host holds for a tensor of another is its owner's, in the window the  *)
(* owner has opened to it (RdmaReachable).                                 *)
(*                                                                         *)
(* The argument for the first has four parts. How far a host is in its     *)
(* exchange with each of its peers: every call's steps are listed          *)
(* (stepAt), and with them what it has posted and taken so far             *)
(* (HistoryInv). That two exchanges match: the i-th message a host submits *)
(* is the i-th its peer expects. What the two agents and the hardware      *)
(* count: all of them the same messages, while the hosts allocate before   *)
(* they message and the queues do not wrap (CountInv). And where the data  *)
(* on its way is: a host waits until its last message is delivered, so     *)
(* that it does not overwrite it, and nothing else is written to the       *)
(* queues (DataInv).                                                       *)
(*                                                                         *)
(* A barrier has four parts of the exchange with rank 0, numbered alike on *)
(* both sides: who has taken a part knows that the other has submitted it  *)
(* (Answered), and rank 0 answers nobody before it has heard of all        *)
(* (HeardOfAll). An address is that of the tensor the owner has just       *)
(* allocated (TensorInv), it is taken by the call that names this tensor   *)
(* (TakenAddress), and the tensor is the last of its owner while it is     *)
(* registered and advertised (AddressInv).                                 *)
(***************************************************************************)
EXTENDS Rdma, IndexLemmas, FiniteSetTheorems, SequenceTheorems, WellFoundedInduction, TLAPS

-----------------------------------------------------------------------------
(* The steps of a call, one by one, and how far they take r's exchange     *)
(* with q.                                                                 *)

others == WorldSize - 1

stepCount(r, c) ==
  CASE c.op = "alloc" /\ c.at = r -> IF c.register_mem THEN 1 + 5 * others ELSE 1
    [] c.op = "alloc" /\ c.at # r -> 5
    [] c.op \in {"send", "recv"}  -> c.size + 1
    [] c.op = "barrier" /\ r = 0  -> 4 * others
    [] c.op = "barrier" /\ r # 0  -> 4
    [] c.op = "free"              -> others

advertising(q, t, b) ==
  CASE b = 0 -> Register(q, t)
    [] b = 1 -> Advertise(q, t, "rkey")
    [] b = 2 -> Poll(q)
    [] b = 3 -> Advertise(q, t, "vaddr")
    [] b = 4 -> Poll(q)
remote(q, t, size, k) ==
  CASE k = 1 -> PostRecv(q)
    [] k = 2 -> Copy(q, "rkey")
    [] k = 3 -> PostRecv(q)
    [] k = 4 -> Copy(q, "vaddr")
    [] k = 5 -> Malloc(q, t, size)
met(q, t, b) ==
  CASE b = 0 -> Wqe(q, t, 0, "data")
    [] b = 1 -> Recv(q, t, 0, "sync")
    [] b = 2 -> Recv(q, t, 0, "data")
    [] b = 3 -> Wqe(q, t, 0, "sync")

stepAt(r, c, k) ==
  CASE c.op = "alloc" /\ c.at = r ->
         IF k = 1 THEN Malloc(r, c.t, c.size)
         ELSE advertising(Peers(r)[(k - 2) \div 5 + 1], c.t, (k - 2) % 5)
    [] c.op = "alloc" /\ c.at # r -> remote(c.at, c.t, c.size, k)
    [] c.op = "send" -> IF k <= c.size THEN Wqe(c.at, c.t, 0, "data") ELSE Recv(c.at, c.t, 0, "sync")
    [] c.op = "recv" -> IF k <= c.size THEN Recv(c.at, c.t, k - 1, "data") ELSE Wqe(c.at, c.t, 0, "sync")
    [] c.op = "barrier" /\ r = 0 ->
         IF k <= 2 * others THEN met(Peers(0)[(k - 1) \div 2 + 1], c.t, 2 + ((k - 1) % 2))
         ELSE met(Peers(0)[(k - 1 - 2 * others) \div 2 + 1], c.t, (k - 1 - 2 * others) % 2)
    [] c.op = "barrier" /\ r # 0 -> met(0, c.t, k - 1)
    [] c.op = "free" -> FreeQp(Peers(r)[k])

progress(r, q, c, m) ==
  LET x == place(r, q) IN
  CASE c.op = "alloc" /\ c.at = r ->
         IF m < 5 * x + 3 THEN 0 ELSE IF m < 5 * x + 5 THEN 1 ELSE 2
    [] c.op = "alloc" /\ c.at = q -> IF m < 2 THEN 0 ELSE IF m < 4 THEN 1 ELSE 2
    [] c.op \in {"send", "recv"} /\ c.at = q -> m
    [] c.op = "barrier" /\ r = 0 ->
         IF m < 2 * x + 1 THEN 0
         ELSE IF m < 2 * x + 2 THEN 1
         ELSE IF m < 2 * others + 2 * x + 1 THEN 2
         ELSE IF m < 2 * others + 2 * x + 2 THEN 3 ELSE 4
    [] c.op = "barrier" /\ q = 0 -> m
    [] OTHER -> 0

call(r) == prog[r][begun[r]]
remaining(r, c, m) == [k \in 1 .. stepCount(r, c) - m |-> stepAt(r, c, m + k)]
done(r) == stepCount(r, call(r)) - Len(todo[r])

exchanges(calls, r, q) == [i \in DOMAIN calls[r] |-> Exchange(r, q, calls[r][i])]
starts(ss) ==
  LET at[i \in 1 .. Len(ss) + 1] == IF i = 1 THEN 0 ELSE at[i - 1] + Len(ss[i - 1])
  IN  at
\* How far r is in its exchange with q, m steps into its b-th call.
posAt(calls, r, q, b, m) ==
  IF b = 0 THEN 0 ELSE starts(exchanges(calls, r, q))[b] + progress(r, q, calls[r][b], m)
pos(r, q) == posAt(prog, r, q, begun[r], done(r))

\* How many of the first n parts of an exchange are posts, or are takes.
count(script, post, n) == Cardinality({j \in 1 .. n : script[j].post = post})

\* The i-th message was meant by some part of the exchange up to the p-th.
Meant(script, post, p, history) ==
  /\ Len(history) = count(script, post, p)
  /\ \A i \in 1 .. Len(history) : \E j \in 1 .. p :
       /\ script[j].post = post /\ count(script, post, j) = i
       /\ history[i][1] = script[j].kind

isSeq(s) == s \in Seq({s[i] : i \in DOMAIN s})

Shape ==
  /\ prog \in Programs
  /\ DOMAIN begun = Ranks /\ DOMAIN todo = Ranks /\ DOMAIN table = Ranks
  /\ DOMAIN memory = Ranks /\ DOMAIN dev_mem_ptr = Ranks
  /\ DOMAIN sq = QPs /\ DOMAIN sq_pidb = QPs /\ DOMAIN sq_cidb = QPs /\ DOMAIN rq_pidb = QPs
  /\ DOMAIN SQPI = QPs /\ DOMAIN CQHEAD = QPs /\ DOMAIN RQPI = QPs /\ DOMAIN RQCI = QPs
  /\ DOMAIN posted = QPs /\ DOMAIN taken = QPs
  /\ \A qp \in QPs : isSeq(posted[qp]) /\ isSeq(taken[qp])

TodoOf(r) ==
  /\ begun[r] \in 0 .. Len(prog[r])
  /\ begun[r] = 0 => todo[r] = <<>>
  /\ begun[r] # 0 => \E m \in 0 .. stepCount(r, call(r)) : todo[r] = remaining(r, call(r), m)
TodoInv == \A r \in Ranks : TodoOf(r)

HistoryOf(r, q) ==
  LET script == Script(prog, r, q) IN
  /\ Meant(script, TRUE, pos(r, q), posted[<<r, q>>])
  /\ Meant(script, FALSE, pos(r, q), taken[<<r, q>>])
HistoryInv == \A r, q \in Ranks : r # q => HistoryOf(r, q)

tensors == 4 * PageUnits * others
TableOf(r) ==
  /\ dev_mem_ptr[r] \in Nat /\ dev_mem_ptr[r] >= tensors
  /\ \A t \in DOMAIN table[r] :
       /\ table[r][t].pa \in Nat /\ table[r][t].pa >= tensors
       /\ \E i \in 1 .. begun[r] :
            prog[r][i].op = "alloc" /\ prog[r][i].t = t /\ table[r][t].qp = prog[r][i].at
  /\ \A i \in 1 .. begun[r] : prog[r][i].op = "alloc" =>
       \/ prog[r][i].t \in DOMAIN table[r]
       \/ /\ i = begun[r]
          /\ \E k \in 1 .. Len(todo[r]) : todo[r][k].do = "malloc" /\ todo[r][k].name = prog[r][i].t
TableInv == \A r \in Ranks : TableOf(r)

\* What the two agents count.
allocating(r) == \A i \in 1 .. begun[r] : prog[r][i].op = "alloc"
sent(r, q) == Len(posted[<<r, q>>])
received(r, q) == Len(taken[<<r, q>>])
atStep(r, q, do) == todo[r] # <<>> /\ Head(todo[r]).do = do /\ Head(todo[r]).q = q

CountOf(r, q) ==
  LET qp == <<r, q>>
      n == sent(r, q)
      there == sent(q, r)
  IN
  /\ allocating(r) =>
       /\ qp \notin disabled
       /\ sq_pidb[qp] = n
       /\ sq_cidb[qp] = n - (IF atStep(r, q, "poll") THEN 1 ELSE 0)
       /\ sq_cidb[qp] <= CQHEAD[qp]
       /\ rq_pidb[qp] = RQCI[qp]
  /\ qp \in disabled => RQPI[qp] = 0 /\ RQCI[qp] = 0
  /\ qp \notin disabled =>
       /\ SQPI[qp] = n
       /\ CQHEAD[qp] \in received(q, r) .. n
       /\ RQCI[qp] = received(r, q) + (IF atStep(r, q, "copy") THEN 1 ELSE 0)
       /\ RQPI[qp] \in RQCI[qp] .. there
       /\ <<q, r>> \notin disabled => RQPI[qp] = CQHEAD[<<q, r>>]
CountInv == \A r, q \in Ranks : r # q => CountOf(r, q)

\* What is on its way.
undelivered(r, q) ==
  <<r, q>> \notin disabled /\ \E i \in CQHEAD[<<r, q>>] + 1 .. sent(r, q) : posted[<<r, q>>][i][1] # "sync"
isWait(s) ==
  s.do = "poll" \/ (s.do = "wqe" /\ s.kind = "data") \/ (s.do = "recv" /\ s.kind = "sync")
awaits(r, q) == todo[r] # <<>> /\ Head(todo[r]).q = q /\ isWait(Head(todo[r]))

SendData(r, q) ==
  LET qp == <<r, q>> IN
  \A i \in CQHEAD[qp] + 1 .. sent(r, q) :
    /\ i - 1 \in DOMAIN sq[qp]
    /\ posted[qp][i][1] # "sync" =>
         /\ sq[qp][i - 1] \in Nat /\ sq[qp][i - 1] >= tensors
         /\ At(r, sq[qp][i - 1]) = posted[qp][i][2]
RecvData(r, q) ==
  \A i \in received(r, q) + 1 .. RQPI[<<r, q>>] :
    posted[<<q, r>>][i][1] # "sync" => At(r, RqBase(r, q) + i - 1) = posted[<<q, r>>][i][2]
DataOf(r, q) ==
  /\ undelivered(r, q) => awaits(r, q)
  /\ <<r, q>> \notin disabled => SendData(r, q) /\ RecvData(r, q)
DataInv == \A r, q \in Ranks : r # q => DataOf(r, q)

TakenOf(r, q) == \A i \in 1 .. received(r, q) :
  /\ i <= sent(q, r) /\ taken[<<r, q>>][i][1] = posted[<<q, r>>][i][1]
  /\ taken[<<r, q>>][i][1] # "sync" => taken[<<r, q>>][i][2] = posted[<<q, r>>][i][2]
TakenInv == \A r, q \in Ranks : r # q => TakenOf(r, q)

Base == TodoInv /\ HistoryInv /\ TableInv
RInv == Shape /\ Base /\ (Regular => CountInv /\ DataInv /\ TakenInv)

-----------------------------------------------------------------------------
(* Sequences of sequences, joined.                                         *)

\* A set of numbers has a least one.
LEMMA Least ==
  ASSUME NEW T, T \subseteq Nat, T # {}
  PROVE  \E i \in T : \A j \in T : i <= j
<1>1. \E i \in T : \A j \in T : <<j, i>> \notin OpToRel(<, Nat)
  BY NatLessThanWellFounded, WFMin
<1>2. \E i \in T : \A j \in T : ~ (j < i)
  BY <1>1, Zenon DEF OpToRel
<1> QED BY <1>2

\* A set of numbers with 0 and every successor has all numbers up to n.
LEMMA UpTo ==
  ASSUME NEW n \in Nat, NEW U, 0 \in U,
         \A i \in 0 .. n - 1 : i \in U => i + 1 \in U
  PROVE  \A i \in 0 .. n : i \in U
<1> DEFINE T == {i \in 0 .. n : i \notin U}
<1> SUFFICES ASSUME T # {} PROVE FALSE
  OBVIOUS
<1>0. T \subseteq Nat /\ T # {}
  OBVIOUS
<1>1. PICK i \in T : \A j \in T : i <= j
  <2> HIDE DEF T
  <2> QED BY <1>0, Least
<1>2. i \in 0 .. n /\ i # 0 /\ i - 1 \in 0 .. n - 1 /\ i - 1 \notin T
  BY <1>1
<1>3. i - 1 \in U /\ (i - 1) + 1 = i
  BY <1>2
<1> QED BY <1>1, <1>2, <1>3

\* The functions that are computed along a sequence of sequences.
isStarts(at, ss, n) ==
  at = [i \in 1 .. n + 1 |-> IF i = 1 THEN 0 ELSE at[i - 1] + Len(ss[i - 1])]
isJoined(g, ss, n) ==
  g = [i \in 1 .. n |-> IF i = 1 THEN ss[i] ELSE g[i - 1] \o ss[i]]

\* The positions at which the parts of a sequence of sequences start exist.
LEMMA StartsExist ==
  ASSUME NEW ss, NEW n \in Nat
  PROVE  \E at : isStarts(at, ss, n)
<1> DEFINE U == {m \in Nat : \E at : isStarts(at, ss, m)}
<1>1. 0 \in U
  <2>1. isStarts([i \in 1 .. 0 + 1 |-> 0], ss, 0)
    BY DEF isStarts
  <2> QED BY <2>1
<1>2. ASSUME NEW m \in 0 .. n - 1, m \in U PROVE m + 1 \in U
  <2>1. PICK at : isStarts(at, ss, m)
    BY <1>2
  <2> DEFINE h == [i \in 1 .. (m + 1) + 1 |-> IF i = m + 2 THEN at[m + 1] + Len(ss[m + 1]) ELSE at[i]]
  <2>2. isStarts(h, ss, m + 1)
    <3>1. ASSUME NEW i \in 1 .. (m + 1) + 1
          PROVE  h[i] = IF i = 1 THEN 0 ELSE h[i - 1] + Len(ss[i - 1])
      <4>1. CASE i = m + 2
        BY <4>1
      <4>2. CASE i # m + 2
        <5>1. i \in 1 .. m + 1
          BY <4>2
        <5>2. at[i] = IF i = 1 THEN 0 ELSE at[i - 1] + Len(ss[i - 1])
          BY <2>1, <5>1 DEF isStarts
        <5>3. h[i] = at[i] /\ (i # 1 => h[i - 1] = at[i - 1])
          BY <5>1
        <5> QED BY <5>2, <5>3
      <4> QED BY <4>1, <4>2
    <3> HIDE DEF h
    <3>2. h = [i \in 1 .. (m + 1) + 1 |-> h[i]]
      BY DEF h
    <3> QED BY <3>1, <3>2 DEF isStarts
  <2> QED BY <2>2
<1>3. \A i \in 0 .. n : i \in U
  <2> HIDE DEF U
  <2> QED BY <1>1, <1>2, UpTo
<1> QED BY <1>3

\* So do the sequences that are joined so far.
LEMMA JoinedExist ==
  ASSUME NEW ss, NEW n \in Nat
  PROVE  \E g : isJoined(g, ss, n)
<1> DEFINE U == {m \in Nat : \E g : isJoined(g, ss, m)}
<1>1. 0 \in U
  <2>1. isJoined([i \in 1 .. 0 |-> 0], ss, 0)
    BY DEF isJoined
  <2> QED BY <2>1
<1>2. ASSUME NEW m \in 0 .. n - 1, m \in U PROVE m + 1 \in U
  <2>1. PICK g : isJoined(g, ss, m)
    BY <1>2
  <2> DEFINE last == IF m + 1 = 1 THEN ss[m + 1] ELSE g[m] \o ss[m + 1]
             h == [i \in 1 .. m + 1 |-> IF i = m + 1 THEN last ELSE g[i]]
  <2>2. isJoined(h, ss, m + 1)
    <3>1. ASSUME NEW i \in 1 .. m + 1
          PROVE  h[i] = IF i = 1 THEN ss[i] ELSE h[i - 1] \o ss[i]
      <4>1. CASE i = m + 1
        <5>1. h[i] = last /\ (i # 1 => h[i - 1] = g[m])
          BY <4>1
        <5> QED BY <4>1, <5>1
      <4>2. CASE i # m + 1
        <5>1. i \in 1 .. m
          BY <4>2
        <5>2. g[i] = IF i = 1 THEN ss[i] ELSE g[i - 1] \o ss[i]
          BY <2>1, <5>1 DEF isJoined
        <5>3. h[i] = g[i] /\ (i # 1 => h[i - 1] = g[i - 1])
          BY <5>1
        <5> QED BY <5>2, <5>3
      <4> QED BY <4>1, <4>2
    <3> HIDE DEF h
    <3>2. h = [i \in 1 .. m + 1 |-> h[i]]
      BY DEF h
    <3> QED BY <3>1, <3>2 DEF isJoined
  <2> QED BY <2>2
<1>3. \A i \in 0 .. n : i \in U
  <2> HIDE DEF U
  <2> QED BY <1>1, <1>2, UpTo
<1> QED BY <1>3

\* Where the sequences of a joined sequence start.
LEMMA StartsDef ==
  ASSUME NEW ss, Len(ss) \in Nat
  PROVE  isStarts(starts(ss), ss, Len(ss))
<1>1. starts(ss) = CHOOSE at : isStarts(at, ss, Len(ss))
  BY DEF starts, isStarts
<1> QED BY <1>1, StartsExist

\* FlattenSeq joins one part after another.
LEMMA JoinedDef ==
  ASSUME NEW ss, Len(ss) \in Nat \ {0}
  PROVE  \E g : isJoined(g, ss, Len(ss)) /\ FlattenSeq(ss) = g[Len(ss)]
<1>1. FlattenSeq(ss) = (CHOOSE g : isJoined(g, ss, Len(ss)))[Len(ss)]
  BY DEF FlattenSeq, isJoined
<1> QED BY <1>1, JoinedExist

\* The elements of two joined sequences.
LEMMA ConcatElements ==
  ASSUME NEW S, NEW s \in Seq(S), NEW t \in Seq(S)
  PROVE  /\ Len(s) \in Nat /\ Len(t) \in Nat
         /\ s \o t \in Seq(S) /\ Len(s \o t) = Len(s) + Len(t)
         /\ \A j \in 1 .. Len(s \o t) :
              (s \o t)[j] = IF j <= Len(s) THEN s[j] ELSE t[j - Len(s)]
OBVIOUS

\* The positions of two sequences that are joined.
LEMMA ConcatPosition ==
  ASSUME NEW a \in Nat, NEW b \in Nat, NEW c, c = a + b
  PROVE  /\ \A k \in 1 .. b : a + k \in 1 .. c /\ ~(a + k <= a) /\ (a + k) - a = k
         /\ \A j \in 1 .. a : j \in 1 .. c /\ j <= a
OBVIOUS

\* The elements of a joined sequence.
LEMMA Joined ==
  ASSUME NEW S, NEW ss \in Seq(Seq(S))
  PROVE  /\ starts(ss) \in [1 .. Len(ss) + 1 -> Nat]
         /\ starts(ss)[1] = 0
         /\ \A i \in 1 .. Len(ss) : starts(ss)[i + 1] = starts(ss)[i] + Len(ss[i])
         /\ FlattenSeq(ss) \in Seq(S)
         /\ Len(FlattenSeq(ss)) = starts(ss)[Len(ss) + 1]
         /\ \A i \in 1 .. Len(ss) : \A k \in 1 .. Len(ss[i]) :
              /\ starts(ss)[i] + k \in 1 .. Len(FlattenSeq(ss))
              /\ FlattenSeq(ss)[starts(ss)[i] + k] = ss[i][k]
<1> DEFINE N == Len(ss)
           at == starts(ss)
<1>1. N \in Nat /\ \A i \in 1 .. N : ss[i] \in Seq(S) /\ Len(ss[i]) \in Nat
  OBVIOUS
<1>2. isStarts(at, ss, N)
  BY <1>1, StartsDef
<1> HIDE DEF N, at
<1>3. at[1] = 0 /\ \A i \in 1 .. N : at[i + 1] = at[i] + Len(ss[i])
  BY <1>1, <1>2 DEF isStarts
<1>4. at \in [1 .. N + 1 -> Nat]
  <2> DEFINE U == {i \in 0 .. N : at[i + 1] \in Nat}
  <2>1. 0 \in U
    BY <1>1, <1>3
  <2>2. ASSUME NEW i \in 0 .. N - 1, i \in U PROVE i + 1 \in U
    <3>1. i + 1 \in 1 .. N
      BY <1>1
    <3> QED BY <1>1, <1>3, <2>2, <3>1
  <2>3. \A i \in 0 .. N : i \in U
    <3> HIDE DEF U
    <3> QED BY <1>1, <2>1, <2>2, UpTo
  <2>4. \A i \in 1 .. N + 1 : at[i] \in Nat
    <3> SUFFICES ASSUME NEW i \in 1 .. N + 1 PROVE at[i] \in Nat
      OBVIOUS
    <3>1. i - 1 \in 0 .. N /\ (i - 1) + 1 = i
      BY <1>1
    <3> QED BY <2>3, <3>1
  <2> QED BY <1>2, <2>4 DEF isStarts
<1>5. CASE N = 0
  <2>1. FlattenSeq(ss) = ss /\ ss = <<>>
    BY <1>5 DEF FlattenSeq, N
  <2> QED BY <1>3, <1>4, <1>5, <2>1 DEF N, at
<1>6. CASE N # 0
  <2>1. PICK g : isJoined(g, ss, N) /\ FlattenSeq(ss) = g[N]
    BY <1>1, <1>6, JoinedDef DEF N
  <2> DEFINE good(n) ==
        /\ g[n] \in Seq(S)
        /\ Len(g[n]) = at[n + 1]
        /\ \A i \in 1 .. n : \A k \in 1 .. Len(ss[i]) :
             /\ at[i] + k \in 1 .. Len(g[n])
             /\ g[n][at[i] + k] = ss[i][k]
  <2>2. good(1)
    <3>1. g[1] = ss[1]
      BY <1>1, <1>6, <2>1 DEF isJoined
    <3>2. at[1 + 1] = Len(ss[1]) /\ at[1] = 0
      BY <1>1, <1>3, <1>6
    <3>3. ss[1] \in Seq(S) /\ Len(ss[1]) \in Nat
      BY <1>1, <1>6
    <3> QED BY <3>1, <3>2, <3>3
  <2>3. ASSUME NEW n \in 1 .. N - 1, good(n) PROVE good(n + 1)
    <3>0. n + 1 \in 1 .. N /\ n + 1 # 1 /\ (n + 1) - 1 = n
      BY ONLY <1>1, n \in 1 .. N - 1
    <3>1. g[n + 1] = g[n] \o ss[n + 1]
      <4> HIDE DEF good
      <4>1. g[n + 1] = IF n + 1 = 1 THEN ss[n + 1] ELSE g[(n + 1) - 1] \o ss[n + 1]
        BY <2>1, <3>0 DEF isJoined
      <4> QED BY <3>0, <4>1
    <3>2. n + 1 \in 1 .. N /\ ss[n + 1] \in Seq(S) /\ g[n] \in Seq(S)
      BY <1>1, <2>3, <3>0
    <3> DEFINE G == g[n]
               H == ss[n + 1]
    <3>a. G \in Seq(S) /\ H \in Seq(S) /\ g[n + 1] = G \o H
      BY <3>1, <3>2
    <3> HIDE DEF G, H
    <3>b. /\ Len(G) \in Nat /\ Len(H) \in Nat
          /\ G \o H \in Seq(S) /\ Len(G \o H) = Len(G) + Len(H)
          /\ \A j \in 1 .. Len(G \o H) : (G \o H)[j] = IF j <= Len(G) THEN G[j] ELSE H[j - Len(G)]
      BY <3>a, ConcatElements
    <3>3. /\ Len(g[n]) \in Nat /\ Len(ss[n + 1]) \in Nat
          /\ Len(g[n + 1]) = Len(g[n]) + Len(ss[n + 1])
          /\ g[n + 1] \in Seq(S)
          /\ \A j \in 1 .. Len(g[n + 1]) :
               g[n + 1][j] = IF j <= Len(g[n]) THEN g[n][j] ELSE ss[n + 1][j - Len(g[n])]
      BY <3>a, <3>b DEF G, H
    <3>c. Len(g[n]) \in Nat /\ Len(ss[n + 1]) \in Nat /\ Len(g[n + 1]) = Len(g[n]) + Len(ss[n + 1])
      BY <3>3
    <3>d. /\ \A k \in 1 .. Len(ss[n + 1]) :
               /\ Len(g[n]) + k \in 1 .. Len(g[n + 1]) /\ ~(Len(g[n]) + k <= Len(g[n]))
               /\ (Len(g[n]) + k) - Len(g[n]) = k
          /\ \A j \in 1 .. Len(g[n]) : j \in 1 .. Len(g[n + 1]) /\ j <= Len(g[n])
      <4> DEFINE a == Len(g[n])
                 b == Len(ss[n + 1])
                 c == Len(g[n + 1])
      <4>1. a \in Nat /\ b \in Nat /\ c = a + b
        BY <3>c
      <4> HIDE DEF a, b, c
      <4>2. /\ \A k \in 1 .. b : a + k \in 1 .. c /\ ~(a + k <= a) /\ (a + k) - a = k
            /\ \A j \in 1 .. a : j \in 1 .. c /\ j <= a
        BY <4>1, ConcatPosition
      <4> QED BY <4>2 DEF a, b, c
    <3>4. Len(g[n + 1]) = at[(n + 1) + 1]
      BY <1>3, <2>3, <3>2, <3>3
    <3>5. ASSUME NEW i \in 1 .. n + 1, NEW k \in 1 .. Len(ss[i])
          PROVE  at[i] + k \in 1 .. Len(g[n + 1]) /\ g[n + 1][at[i] + k] = ss[i][k]
      <4>1. CASE i = n + 1
        <5>1. at[i] = Len(g[n]) /\ Len(g[n]) \in Nat /\ k \in 1 .. Len(ss[n + 1])
          BY <2>3, <3>3, <4>1
        <5>2. /\ Len(g[n]) + k \in 1 .. Len(g[n + 1]) /\ ~(Len(g[n]) + k <= Len(g[n]))
              /\ (Len(g[n]) + k) - Len(g[n]) = k
          BY <3>d, <5>1
        <5>3. g[n + 1][Len(g[n]) + k] = ss[n + 1][k]
          BY <3>3, <5>2
        <5> QED BY <4>1, <5>1, <5>2, <5>3
      <4>2. CASE i # n + 1
        <5>1. i \in 1 .. n
          BY <1>1, <4>2
        <5>2. at[i] + k \in 1 .. Len(g[n]) /\ g[n][at[i] + k] = ss[i][k]
          BY <2>3, <5>1
        <5> DEFINE j == at[i] + k
        <5> HIDE DEF j
        <5>3. j \in 1 .. Len(g[n + 1]) /\ j <= Len(g[n])
          <6>1. j \in 1 .. Len(g[n])
            BY <5>2 DEF j
          <6> QED BY <3>d, <6>1
        <5>4. g[n + 1][j] = g[n][j]
          BY <3>3, <5>3
        <5> QED BY <5>2, <5>3, <5>4 DEF j
      <4> QED BY <4>1, <4>2
    <3> QED BY <3>3, <3>4, <3>5
  <2> HIDE DEF good
  <2>4. good(N)
    <3> DEFINE U == {i \in 0 .. N : i = 0 \/ good(i)}
    <3>1. 0 \in U
      BY <1>1
    <3>2. ASSUME NEW i \in 0 .. N - 1, i \in U PROVE i + 1 \in U
      <4>1. CASE i = 0
        BY <1>1, <2>2, <4>1
      <4>2. CASE i # 0
        <5>1. i \in 1 .. N - 1 /\ good(i)
          BY <3>2, <4>2
        <5>2. good(i + 1)
          BY <2>3, <5>1
        <5> QED BY <1>1, <5>2
      <4> QED BY <4>1, <4>2
    <3>3. \A i \in 0 .. N : i \in U
      <4> HIDE DEF U
      <4> QED BY <1>1, <3>1, <3>2, UpTo
    <3> QED BY <1>1, <1>6, <3>3
  <2> QED BY <1>3, <1>4, <2>1, <2>4 DEF good, N, at
<1> QED BY <1>5, <1>6

isEvent(s) == s.do \in {"advertise", "copy", "wqe", "recv"}
isPost(s) == s.do \in {"advertise", "wqe"}
kindOf(s) == IF s.do \in {"advertise", "copy"} THEN s.field ELSE s.kind

-----------------------------------------------------------------------------
(* The other hosts.                                                        *)

\* The other hosts, counted.
LEMMA PeersFacts ==
  ASSUME NEW r \in Ranks
  PROVE  /\ others \in Nat /\ WorldSize = others + 1
         /\ DOMAIN Peers(r) = 1 .. others
         /\ \A i \in 1 .. others : Peers(r)[i] \in Ranks \ {r} /\ place(r, Peers(r)[i]) = i - 1
         /\ \A q \in Ranks : q # r => place(r, q) \in 0 .. others - 1 /\ Peers(r)[place(r, q) + 1] = q
BY RdmaAssumption DEF Ranks, Peers, place, others

-----------------------------------------------------------------------------
(* Blocks of one length, joined.                                           *)

isBlocks(ss, n, w, S) ==
  n \in Nat /\ w \in Nat \ {0} /\ ss \in [1 .. n -> Seq(S)] /\ \A i \in 1 .. n : Len(ss[i]) = w

blockAt(w, i, b) == w * (i - 1) + b

\* What is at which position of joined blocks.
LEMMA Blocks ==
  ASSUME NEW S, NEW n, NEW w, NEW ss, isBlocks(ss, n, w, S)
  PROVE  /\ FlattenSeq(ss) \in Seq(S) /\ Len(FlattenSeq(ss)) = w * n
         /\ \A i \in 1 .. n : \A b \in 1 .. w : FlattenSeq(ss)[blockAt(w, i, b)] = ss[i][b]
<1>0. n \in Nat /\ w \in Nat \ {0} /\ ss \in [1 .. n -> Seq(S)] /\ \A i \in 1 .. n : Len(ss[i]) = w
  BY DEF isBlocks
<1>1. ss \in Seq(Seq(S)) /\ Len(ss) = n
  BY <1>0
<1> DEFINE at == starts(ss)
           F == FlattenSeq(ss)
<1>2. /\ at[1] = 0 /\ \A i \in 1 .. n : at[i + 1] = at[i] + Len(ss[i])
      /\ F \in Seq(S) /\ Len(F) = at[n + 1]
      /\ \A i \in 1 .. n : \A b \in 1 .. Len(ss[i]) : F[at[i] + b] = ss[i][b]
  <2>1. /\ starts(ss)[1] = 0
        /\ \A i \in 1 .. Len(ss) : starts(ss)[i + 1] = starts(ss)[i] + Len(ss[i])
        /\ FlattenSeq(ss) \in Seq(S)
        /\ Len(FlattenSeq(ss)) = starts(ss)[Len(ss) + 1]
        /\ \A i \in 1 .. Len(ss) : \A k \in 1 .. Len(ss[i]) :
              FlattenSeq(ss)[starts(ss)[i] + k] = ss[i][k]
    <3>1. ss \in Seq(Seq(S))
      BY <1>1
    <3> QED BY ONLY <3>1, Joined
  <2> QED BY <1>1, <2>1
<1> HIDE DEF at, F
<1>3. \A i \in 0 .. n : at[i + 1] = w * i
  <2> DEFINE U == {i \in 0 .. n : at[i + 1] = w * i}
  <2>1. 0 \in U
    BY <1>0, <1>2
  <2>2. ASSUME NEW i \in 0 .. n - 1, i \in U PROVE i + 1 \in U
    <3>1. i \in Nat /\ i + 1 \in 1 .. n /\ i + 1 \in 0 .. n
      BY <1>0
    <3>2. at[(i + 1) + 1] = w * i + w
      BY <1>0, <1>2, <2>2, <3>1
    <3>3. w * i + w = w * (i + 1)
      BY <1>0, <3>1
    <3> QED BY <3>1, <3>2, <3>3
  <2>3. \A i \in 0 .. n : i \in U
    <3> HIDE DEF U
    <3> QED BY <1>0, <2>1, <2>2, UpTo
  <2> QED BY <2>3
<1>4. Len(F) = w * n
  BY <1>0, <1>2, <1>3
<1>5. ASSUME NEW i \in 1 .. n, NEW b \in 1 .. w PROVE F[w * (i - 1) + b] = ss[i][b]
  <2>1. i - 1 \in 0 .. n /\ (i - 1) + 1 = i
    BY <1>0
  <2>2. at[i] = w * (i - 1)
    BY <1>3, <2>1
  <2> QED BY <1>0, <1>2, <2>2
<1> QED BY <1>2, <1>4, <1>5 DEF F, blockAt

-----------------------------------------------------------------------------
(* The steps of a call.                                                    *)

StepsAre(steps, r, c) == steps = remaining(r, c, 0)

\* A sequence is the steps of a call if it has their number and they are its elements.
LEMMA StepsAreIf ==
  ASSUME NEW S, NEW steps \in Seq(S), NEW r, NEW c,
         Len(steps) = stepCount(r, c),
         \A k \in 1 .. stepCount(r, c) : steps[k] = stepAt(r, c, k)
  PROVE  StepsAre(steps, r, c)
<1>1. steps = [k \in 1 .. Len(steps) |-> steps[k]] /\ Len(steps) \in Nat
  OBVIOUS
<1>2. Len(steps) - 0 = Len(steps) /\ \A k \in 1 .. Len(steps) : 0 + k = k
  BY <1>1
<1> HIDE DEF stepCount, stepAt
<1>3. remaining(r, c, 0) = [k \in 1 .. Len(steps) |-> stepAt(r, c, k)]
  BY <1>2 DEF remaining
<1> QED BY <1>1, <1>3 DEF StepsAre

\* A position among blocks of five steps.
LEMMA FiveSplit ==
  ASSUME NEW n \in Nat, NEW j \in 0 .. 5 * n - 1
  PROVE  /\ j \div 5 \in 0 .. n - 1 /\ j % 5 \in 0 .. 4
         /\ 5 * (j \div 5) + (j % 5) = j
         /\ (j \div 5) + 1 \in 1 .. n /\ (j % 5) + 1 \in 1 .. 5
         /\ 5 * (((j \div 5) + 1) - 1) + ((j % 5) + 1) = j + 1
         /\ ((j % 5) + 1) - 1 = j % 5
OBVIOUS
\* A position among blocks of two steps.
LEMMA TwoSplit ==
  ASSUME NEW n \in Nat, NEW j \in 0 .. 2 * n - 1
  PROVE  /\ j \div 2 \in 0 .. n - 1 /\ j % 2 \in 0 .. 1
         /\ 2 * (j \div 2) + (j % 2) = j
         /\ (j \div 2) + 1 \in 1 .. n /\ (j % 2) + 1 \in 1 .. 2
         /\ 2 * (((j \div 2) + 1) - 1) + ((j % 2) + 1) = j + 1
         /\ ((j % 2) + 1) - 1 = j % 2
OBVIOUS

\* air_ernic_mem_alloc of a tensor of the host's own.
LEMMA LocalSteps ==
  ASSUME NEW r \in Ranks, NEW c, c.op = "alloc", c.at = r, c.register_mem \in BOOLEAN
  PROVE  StepsAre(air_ernic_mem_alloc(r, c), r, c)
<1> DEFINE adv(q) == <<Register(q, c.t), Advertise(q, c.t, "rkey"), Poll(q),
                       Advertise(q, c.t, "vaddr"), Poll(q)>>
           ss == [i \in DOMAIN Peers(r) |-> adv(Peers(r)[i])]
           F == FlattenSeq(ss)
           S == {Malloc(r, c.t, c.size)}
                  \cup UNION {{advertising(q, c.t, b) : b \in 0 .. 4} : q \in Ranks}
<1>1. others \in Nat /\ DOMAIN Peers(r) = 1 .. others /\ \A i \in 1 .. others : Peers(r)[i] \in Ranks
  BY PeersFacts
<1>2. \A q \in Ranks : /\ adv(q) \in Seq(S) /\ Len(adv(q)) = 5
                       /\ \A b \in 1 .. 5 : adv(q)[b] = advertising(q, c.t, b - 1)
  <2> SUFFICES ASSUME NEW q \in Ranks
               PROVE  /\ adv(q) \in Seq(S) /\ Len(adv(q)) = 5
                      /\ \A b \in 1 .. 5 : adv(q)[b] = advertising(q, c.t, b - 1)
    OBVIOUS
  <2>1. \A b \in 0 .. 4 : advertising(q, c.t, b) \in S
    OBVIOUS
  <2> HIDE DEF S
  <2>2. /\ advertising(q, c.t, 0) = Register(q, c.t) /\ advertising(q, c.t, 1) = Advertise(q, c.t, "rkey")
        /\ advertising(q, c.t, 2) = Poll(q) /\ advertising(q, c.t, 3) = Advertise(q, c.t, "vaddr")
        /\ advertising(q, c.t, 4) = Poll(q)
    BY DEF advertising
  <2> HIDE DEF adv
  <2>3. adv(q) = <<advertising(q, c.t, 0), advertising(q, c.t, 1), advertising(q, c.t, 2),
                   advertising(q, c.t, 3), advertising(q, c.t, 4)>>
    BY <2>2 DEF adv
  <2> QED BY <2>1, <2>3
<1> HIDE DEF S, adv
<1>3. ss \in [1 .. others -> Seq(S)] /\ \A i \in 1 .. others : Len(ss[i]) = 5
  BY <1>1, <1>2
<1>4. /\ F \in Seq(S) /\ Len(F) = 5 * others
      /\ \A i \in 1 .. others : \A b \in 1 .. 5 : F[5 * (i - 1) + b] = ss[i][b]
  <2> HIDE DEF ss
  <2>1. isBlocks(ss, others, 5, S)
    BY <1>1, <1>3 DEF isBlocks
  <2>2. FlattenSeq(ss) \in Seq(S)
    BY <2>1, Blocks
  <2>3. Len(FlattenSeq(ss)) = 5 * others
    BY <2>1, Blocks
  <2>4. \A i \in 1 .. others : \A b \in 1 .. 5 : FlattenSeq(ss)[blockAt(5, i, b)] = ss[i][b]
    BY <2>1, Blocks
  <2> QED BY <2>2, <2>3, <2>4 DEF blockAt
<1>5. \A j \in 0 .. 5 * others - 1 : F[j + 1] = advertising(Peers(r)[j \div 5 + 1], c.t, j % 5)
  <2> SUFFICES ASSUME NEW j \in 0 .. 5 * others - 1
               PROVE  F[j + 1] = advertising(Peers(r)[j \div 5 + 1], c.t, j % 5)
    OBVIOUS
  <2> DEFINE x == j \div 5
             b == j % 5
  <2>2. x + 1 \in 1 .. others /\ b + 1 \in 1 .. 5 /\ 5 * ((x + 1) - 1) + (b + 1) = j + 1 /\ (b + 1) - 1 = b
    BY <1>1, FiveSplit
  <2> HIDE DEF x, b
  <2>3. F[j + 1] = ss[x + 1][b + 1]
    BY <1>4, <2>2
  <2>4. ss[x + 1] = adv(Peers(r)[x + 1]) /\ Peers(r)[x + 1] \in Ranks
    BY <1>1, <2>2
  <2>5. ss[x + 1][b + 1] = advertising(Peers(r)[x + 1], c.t, b)
    BY <1>2, <2>2, <2>4
  <2> QED BY <2>3, <2>5 DEF x, b
<1>6. CASE c.register_mem
  <2> DEFINE A == <<Malloc(r, c.t, c.size)>>
             steps == A \o F
  <2>1. air_ernic_mem_alloc(r, c) = steps
    BY <1>6 DEF air_ernic_mem_alloc, adv
  <2>2. A \in Seq(S) /\ Len(A) = 1 /\ A[1] = Malloc(r, c.t, c.size)
    BY DEF S
  <2> HIDE DEF A, F
  <2>3. /\ steps \in Seq(S) /\ Len(steps) = 1 + 5 * others
        /\ \A j \in 1 .. 1 + 5 * others : steps[j] = IF j <= 1 THEN A[j] ELSE F[j - 1]
    <3>1. A \in Seq(S) /\ F \in Seq(S)
      BY <1>4, <2>2
    <3>2. /\ A \o F \in Seq(S) /\ Len(A \o F) = Len(A) + Len(F)
          /\ \A j \in 1 .. Len(A \o F) :
              (A \o F)[j] = IF j <= Len(A) THEN A[j] ELSE F[j - Len(A)]
      BY ONLY <3>1, ConcatElements
    <3>3. Len(A) = 1 /\ Len(F) = 5 * others
      BY <1>4, <2>2
    <3> QED BY <3>2, <3>3
  <2>4. stepCount(r, c) = 1 + 5 * others
    BY <1>6 DEF stepCount
  <2> HIDE DEF steps
  <2>5. ASSUME NEW k \in 1 .. 1 + 5 * others PROVE steps[k] = stepAt(r, c, k)
    <3>1. CASE k = 1
      BY <2>2, <2>3, <3>1 DEF stepAt
    <3>2. CASE k # 1
      <4>1. k - 2 \in 0 .. 5 * others - 1 /\ ~ (k <= 1) /\ (k - 2) + 1 = k - 1
        BY <1>1, <3>2
      <4>2. steps[k] = advertising(Peers(r)[(k - 2) \div 5 + 1], c.t, (k - 2) % 5)
        BY <1>5, <2>3, <4>1
      <4> QED BY <3>2, <4>2 DEF stepAt
    <3> QED BY <3>1, <3>2
  <2> QED BY <2>1, <2>3, <2>4, <2>5, StepsAreIf
<1>7. CASE ~ c.register_mem
  <2> DEFINE A == <<Malloc(r, c.t, c.size)>>
  <2>1. air_ernic_mem_alloc(r, c) = A
    BY <1>7 DEF air_ernic_mem_alloc
  <2>2. A \in Seq(S) /\ Len(A) = 1 /\ A[1] = Malloc(r, c.t, c.size)
    BY DEF S
  <2>3. stepCount(r, c) = 1 /\ stepAt(r, c, 1) = Malloc(r, c.t, c.size)
    BY <1>7 DEF stepCount, stepAt
  <2> HIDE DEF A
  <2>4. Len(A) = stepCount(r, c) /\ \A k \in 1 .. stepCount(r, c) : A[k] = stepAt(r, c, k)
    BY <2>2, <2>3
  <2> QED BY <2>1, <2>2, <2>4, StepsAreIf
<1> QED BY <1>6, <1>7

\* air_ernic_mem_alloc of a tensor of another host.
LEMMA RemoteSteps ==
  ASSUME NEW r \in Ranks, NEW c, c.op = "alloc", c.at # r
  PROVE  StepsAre(air_ernic_mem_alloc(r, c), r, c)
<1> DEFINE q == c.at
           S == {remote(q, c.t, c.size, k) : k \in 1 .. 5}
           steps == air_ernic_mem_alloc(r, c)
<1>1. \A k \in 1 .. 5 : remote(q, c.t, c.size, k) \in S
  OBVIOUS
<1>2. steps = <<remote(q, c.t, c.size, 1), remote(q, c.t, c.size, 2), remote(q, c.t, c.size, 3),
                remote(q, c.t, c.size, 4), remote(q, c.t, c.size, 5)>>
  BY DEF air_ernic_mem_alloc, remote
<1>3. stepCount(r, c) = 5 /\ \A k \in 1 .. 5 : stepAt(r, c, k) = remote(q, c.t, c.size, k)
  BY DEF stepCount, stepAt
<1> HIDE DEF S, steps, q
<1>4. steps \in Seq(S) /\ Len(steps) = 5 /\ \A k \in 1 .. 5 : steps[k] = remote(q, c.t, c.size, k)
  BY <1>1, <1>2
<1>5. \A k \in 1 .. stepCount(r, c) : steps[k] = stepAt(r, c, k)
  BY <1>3, <1>4
<1> QED BY <1>3, <1>4, <1>5, StepsAreIf DEF steps

\* n steps of one kind and one of another.
isRun(f, n) == n \in Nat /\ f = [i \in 1 .. n |-> f[i]]

\* A run of steps and one more.
LEMMA Ended ==
  ASSUME NEW n, NEW f, NEW last, isRun(f, n)
  PROVE  \E S : /\ f \o <<last>> \in Seq(S) /\ Len(f \o <<last>>) = n + 1
                /\ \A k \in 1 .. n + 1 : (f \o <<last>>)[k] = IF k <= n THEN f[k] ELSE last
<1> DEFINE S == {f[i] : i \in 1 .. n} \cup {last}
           L == <<last>>
<1>0. n \in Nat /\ f = [i \in 1 .. n |-> f[i]]
  BY DEF isRun
<1>1. f \in Seq(S) /\ Len(f) = n
  BY <1>0
<1>2. L \in Seq(S) /\ Len(L) = 1 /\ L[1] = last
  OBVIOUS
<1> HIDE DEF S, L
<1>3. /\ f \o L \in Seq(S) /\ Len(f \o L) = Len(f) + Len(L)
      /\ \A j \in 1 .. Len(f \o L) : (f \o L)[j] = IF j <= Len(f) THEN f[j] ELSE L[j - Len(f)]
  BY <1>1, <1>2, ConcatElements
<1>4. \A k \in 1 .. n + 1 : k \in 1 .. Len(f \o L) /\ (~ (k <= n) => k - n = 1)
  BY <1>0, <1>1, <1>2, <1>3
<1>5. Len(f \o L) = n + 1
  BY <1>0, <1>1, <1>2, <1>3
<1>6. \A k \in 1 .. n + 1 : (f \o L)[k] = IF k <= n THEN f[k] ELSE last
  BY <1>0, <1>1, <1>2, <1>3, <1>4
<1> QED BY <1>3, <1>5, <1>6 DEF L

\* air_send of a local tensor.
LEMMA SendSteps ==
  ASSUME NEW r \in Ranks, NEW c, c.op = "send", c.size \in Nat, Local(r, c.t)
  PROVE  StepsAre(air_send(r, c.t, c.size, c.at), r, c)
<1> DEFINE f == [i \in 1 .. c.size |-> Wqe(c.at, c.t, 0, "data")]
           last == Recv(c.at, c.t, 0, "sync")
           steps == f \o <<last>>
<1>1. air_send(r, c.t, c.size, c.at) = steps
  BY DEF air_send
<1>2. isRun(f, c.size)
  BY DEF isRun
<1>3. stepCount(r, c) = c.size + 1
      /\ \A k \in 1 .. c.size + 1 : stepAt(r, c, k) = IF k <= c.size THEN f[k] ELSE last
  BY DEF stepCount, stepAt
<1> HIDE DEF f, last
<1>4. PICK S : /\ steps \in Seq(S) /\ Len(steps) = c.size + 1
               /\ \A k \in 1 .. c.size + 1 : steps[k] = IF k <= c.size THEN f[k] ELSE last
  BY <1>2, Ended
<1> HIDE DEF steps
<1>5. \A k \in 1 .. stepCount(r, c) : steps[k] = stepAt(r, c, k)
  BY <1>3, <1>4
<1> QED BY <1>1, <1>3, <1>4, <1>5, StepsAreIf

\* air_recv of a local tensor.
LEMMA RecvSteps ==
  ASSUME NEW r \in Ranks, NEW c, c.op = "recv", c.size \in Nat, Local(r, c.t)
  PROVE  StepsAre(air_recv(r, c.t, c.size, c.at), r, c)
<1> DEFINE f == [i \in 1 .. c.size |-> Recv(c.at, c.t, i - 1, "data")]
           last == Wqe(c.at, c.t, 0, "sync")
           steps == f \o <<last>>
<1>1. air_recv(r, c.t, c.size, c.at) = steps
  BY DEF air_recv
<1>2. isRun(f, c.size)
  BY DEF isRun
<1>3. stepCount(r, c) = c.size + 1
      /\ \A k \in 1 .. c.size + 1 : stepAt(r, c, k) = IF k <= c.size THEN f[k] ELSE last
  BY DEF stepCount, stepAt
<1> HIDE DEF f, last
<1>4. PICK S : /\ steps \in Seq(S) /\ Len(steps) = c.size + 1
               /\ \A k \in 1 .. c.size + 1 : steps[k] = IF k <= c.size THEN f[k] ELSE last
  BY <1>2, Ended
<1> HIDE DEF steps
<1>5. \A k \in 1 .. stepCount(r, c) : steps[k] = stepAt(r, c, k)
  BY <1>3, <1>4
<1> QED BY <1>1, <1>3, <1>4, <1>5, StepsAreIf

\* Two short sequences, joined.
LEMMA JoinOnes ==
  ASSUME NEW x, NEW y
  PROVE  <<x>> \o <<y>> = <<x, y>>
<1> DEFINE u == <<x>> \o <<y>>
<1>1. <<x>> \in Seq({x, y}) /\ <<y>> \in Seq({x, y})
  OBVIOUS
<1>2. u \in Seq({x, y}) /\ Len(u) = 2 /\ u[1] = x /\ u[2] = y
  <2>1. /\ u \in Seq({x, y}) /\ Len(u) = Len(<<x>>) + Len(<<y>>)
        /\ \A j \in 1 .. Len(u) : u[j] = IF j <= Len(<<x>>) THEN <<x>>[j] ELSE <<y>>[j - Len(<<x>>)]
    BY <1>1, ConcatElements
  <2> HIDE DEF u
  <2>2. Len(u) = 2
    BY <2>1
  <2> QED BY <2>1, <2>2
<1> DEFINE v == <<x, y>>
<1>3. v \in Seq({x, y}) /\ Len(v) = 2 /\ v[1] = x /\ v[2] = y
  OBVIOUS
<1> HIDE DEF u, v
<1>4. \A i \in 1 .. Len(u) : u[i] = v[i]
  BY <1>2, <1>3
<1>5. u = v
  BY <1>2, <1>3, <1>4, SeqEqual
<1> QED BY <1>5 DEF u, v

\* Two steps and two steps.
LEMMA JoinTwos ==
  ASSUME NEW a, NEW b, NEW c, NEW d
  PROVE  <<a, b>> \o <<c, d>> = <<a, b, c, d>>
<1> DEFINE u == <<a, b>> \o <<c, d>>
           S == {a, b, c, d}
<1>1. <<a, b>> \in Seq(S) /\ <<c, d>> \in Seq(S)
  OBVIOUS
<1>2. u \in Seq(S) /\ Len(u) = 4 /\ u[1] = a /\ u[2] = b /\ u[3] = c /\ u[4] = d
  <2>1. /\ u \in Seq(S) /\ Len(u) = Len(<<a, b>>) + Len(<<c, d>>)
        /\ \A j \in 1 .. Len(u) : u[j] = IF j <= Len(<<a, b>>) THEN <<a, b>>[j] ELSE <<c, d>>[j - Len(<<a, b>>)]
    <3> HIDE DEF S
    <3> QED BY <1>1, ConcatElements
  <2> HIDE DEF u, S
  <2>2. Len(u) = 4
    BY <2>1
  <2> QED BY <2>1, <2>2
<1> DEFINE v == <<a, b, c, d>>
<1>3. v \in Seq(S) /\ Len(v) = 4 /\ v[1] = a /\ v[2] = b /\ v[3] = c /\ v[4] = d
  OBVIOUS
<1> HIDE DEF u, v, S
<1>4. \A i \in 1 .. Len(u) : u[i] = v[i]
  BY <1>2, <1>3
<1>5. u = v
  BY <1>2, <1>3, <1>4, SeqEqual
<1> QED BY <1>5 DEF u, v

\* A reception and a submission of one entry.
LEMMA Meeting ==
  ASSUME NEW r \in Ranks, NEW t, NEW q, Local(r, t)
  PROVE  /\ air_recv(r, t, 1, q) = <<met(q, t, 2), met(q, t, 3)>>
         /\ air_send(r, t, 1, q) = <<met(q, t, 0), met(q, t, 1)>>
<1>1. /\ met(q, t, 0) = Wqe(q, t, 0, "data") /\ met(q, t, 1) = Recv(q, t, 0, "sync")
      /\ met(q, t, 2) = Recv(q, t, 0, "data") /\ met(q, t, 3) = Wqe(q, t, 0, "sync")
  BY DEF met
<1>2. [i \in 1 .. 1 |-> Recv(q, t, i - 1, "data")] = <<Recv(q, t, 0, "data")>>
  <2>1. [i \in 1 .. 1 |-> Recv(q, t, i - 1, "data")] = [i \in 1 .. 1 |-> Recv(q, t, 0, "data")]
    <3>1. \A i \in 1 .. 1 : i - 1 = 0
      OBVIOUS
    <3> QED BY <3>1
  <2> HIDE DEF Recv
  <2> QED BY <2>1
<1>3. [i \in 1 .. 1 |-> Wqe(q, t, 0, "data")] = <<Wqe(q, t, 0, "data")>>
  OBVIOUS
<1>4. \A x, y : <<x>> \o <<y>> = <<x, y>>
  BY JoinOnes
<1> QED BY <1>1, <1>2, <1>3, <1>4 DEF air_recv, air_send

\* The meetings of rank 0 with all others.
LEMMA Meetings ==
  ASSUME NEW t, NEW d \in {0, 2}, NEW ss,
         ss = [i \in DOMAIN Peers(0) |-> <<met(Peers(0)[i], t, d), met(Peers(0)[i], t, d + 1)>>]
  PROVE  \E S : /\ FlattenSeq(ss) \in Seq(S) /\ Len(FlattenSeq(ss)) = 2 * others
                /\ \A q \in Ranks : \A b \in {d, d + 1} : met(q, t, b) \in S
                /\ \A j \in 0 .. 2 * others - 1 :
                     FlattenSeq(ss)[j + 1] = met(Peers(0)[j \div 2 + 1], t, d + (j % 2))
<1> DEFINE S == {met(q, t, b) : q \in Ranks, b \in {d, d + 1}}
           F == FlattenSeq(ss)
<1>1. others \in Nat /\ DOMAIN Peers(0) = 1 .. others /\ \A i \in 1 .. others : Peers(0)[i] \in Ranks
  <2>1. 0 \in Ranks
    BY RdmaAssumption DEF Ranks
  <2> QED BY <2>1, PeersFacts
<1>2. \A q \in Ranks : \A b \in {d, d + 1} : met(q, t, b) \in S
  OBVIOUS
<1> HIDE DEF S, F
<1>3. \A i \in 1 .. others : ss[i] \in Seq(S) /\ Len(ss[i]) = 2
                             /\ ss[i][1] = met(Peers(0)[i], t, d) /\ ss[i][2] = met(Peers(0)[i], t, d + 1)
  <2> SUFFICES ASSUME NEW i \in 1 .. others
               PROVE  ss[i] \in Seq(S) /\ Len(ss[i]) = 2
                      /\ ss[i][1] = met(Peers(0)[i], t, d) /\ ss[i][2] = met(Peers(0)[i], t, d + 1)
    OBVIOUS
  <2> DEFINE x == met(Peers(0)[i], t, d)
             y == met(Peers(0)[i], t, d + 1)
  <2>1. x \in S /\ y \in S
    BY <1>1, <1>2
  <2>2. ss[i] = <<x, y>>
    BY <1>1
  <2> HIDE DEF x, y
  <2>3. <<x, y>> \in Seq(S) /\ Len(<<x, y>>) = 2 /\ <<x, y>>[1] = x /\ <<x, y>>[2] = y
    BY <2>1
  <2> QED BY <2>2, <2>3 DEF x, y
<1>4. isBlocks(ss, others, 2, S)
  <2>1. ss = [i \in 1 .. others |-> ss[i]]
    BY <1>1
  <2>2. ss \in [1 .. others -> Seq(S)]
    BY <1>3, <2>1
  <2> QED BY <1>1, <1>3, <2>2 DEF isBlocks
<1>5. F \in Seq(S) /\ Len(F) = 2 * others
  BY <1>4, Blocks DEF F
<1>6. \A i \in 1 .. others : \A b \in 1 .. 2 : F[blockAt(2, i, b)] = ss[i][b]
  BY <1>4, Blocks DEF F
<1>7. \A j \in 0 .. 2 * others - 1 : F[j + 1] = met(Peers(0)[j \div 2 + 1], t, d + (j % 2))
  <2> SUFFICES ASSUME NEW j \in 0 .. 2 * others - 1
               PROVE  F[j + 1] = met(Peers(0)[j \div 2 + 1], t, d + (j % 2))
    OBVIOUS
  <2> DEFINE x == j \div 2
             b == j % 2
  <2>1. x + 1 \in 1 .. others /\ b + 1 \in 1 .. 2 /\ blockAt(2, x + 1, b + 1) = j + 1 /\ b \in 0 .. 1
    BY <1>1, TwoSplit DEF blockAt
  <2> HIDE DEF x, b
  <2>2. F[j + 1] = ss[x + 1][b + 1]
    BY <1>6, <2>1
  <2>3. CASE b = 0
    <3>1. ss[x + 1][1] = met(Peers(0)[x + 1], t, d)
      BY <1>3, <2>1
    <3>2. d + b = d /\ b + 1 = 1
      BY <2>3
    <3> QED BY <2>2, <3>1, <3>2 DEF x, b
  <2>4. CASE b = 1
    <3>1. ss[x + 1][2] = met(Peers(0)[x + 1], t, d + 1)
      BY <1>3, <2>1
    <3>2. d + b = d + 1 /\ b + 1 = 2
      BY <2>4
    <3> QED BY <2>2, <3>1, <3>2 DEF x, b
  <2> QED BY <2>1, <2>3, <2>4
<1> QED BY <1>2, <1>5, <1>7 DEF F

\* air_barrier, as rank 0 and as another.
LEMMA BarrierSteps ==
  ASSUME NEW r \in Ranks, NEW c, c.op = "barrier", Local(r, c.t)
  PROVE  StepsAre(air_barrier(r, c.t), r, c)
<1> DEFINE t == c.t
           steps == air_barrier(r, c.t)
<1>1. CASE r # 0
  <2> DEFINE S == {met(0, t, b) : b \in 0 .. 3}
  <2>1. \A b \in 0 .. 3 : met(0, t, b) \in S
    OBVIOUS
  <2>2. steps = <<met(0, t, 0), met(0, t, 1)>> \o <<met(0, t, 2), met(0, t, 3)>>
    BY <1>1, Meeting DEF air_barrier
  <2>3. stepCount(r, c) = 4 /\ \A k \in 1 .. 4 : stepAt(r, c, k) = met(0, t, k - 1)
    BY <1>1 DEF stepCount, stepAt
  <2> HIDE DEF S, steps
  <2>4. steps = <<met(0, t, 0), met(0, t, 1), met(0, t, 2), met(0, t, 3)>>
    BY <2>2, JoinTwos
  <2>5. steps \in Seq(S) /\ Len(steps) = 4 /\ \A k \in 1 .. 4 : steps[k] = met(0, t, k - 1)
    BY <2>1, <2>4
  <2>6. \A k \in 1 .. stepCount(r, c) : steps[k] = stepAt(r, c, k)
    BY <2>3, <2>5
  <2> QED BY <2>3, <2>5, <2>6, StepsAreIf DEF steps
<1>2. CASE r = 0
  <2> DEFINE rs == [i \in DOMAIN Peers(0) |-> <<met(Peers(0)[i], t, 2), met(Peers(0)[i], t, 2 + 1)>>]
             ss == [i \in DOMAIN Peers(0) |-> <<met(Peers(0)[i], t, 0), met(Peers(0)[i], t, 0 + 1)>>]
             R == FlattenSeq(rs)
             F == FlattenSeq(ss)
  <2>0. others \in Nat
    BY PeersFacts
  <2>1. steps = R \o F
    <3>1. 2 + 1 = 3 /\ 0 + 1 = 1
      OBVIOUS
    <3>2. rs = [i \in DOMAIN Peers(0) |-> air_recv(0, t, 1, Peers(0)[i])]
      BY <1>2, <3>1, Meeting
    <3>3. ss = [i \in DOMAIN Peers(0) |-> air_send(0, t, 1, Peers(0)[i])]
      BY <1>2, <3>1, Meeting
    <3> HIDE DEF rs, ss
    <3> QED BY <1>2, <3>2, <3>3 DEF air_barrier
  <2>2. PICK A : /\ R \in Seq(A) /\ Len(R) = 2 * others
                 /\ \A j \in 0 .. 2 * others - 1 : R[j + 1] = met(Peers(0)[j \div 2 + 1], t, 2 + (j % 2))
    <3> HIDE DEF rs
    <3>1. rs = [i \in DOMAIN Peers(0) |-> <<met(Peers(0)[i], t, 2), met(Peers(0)[i], t, 2 + 1)>>]
      BY DEF rs
    <3> QED BY <3>1, Meetings
  <2>3. PICK B : /\ F \in Seq(B) /\ Len(F) = 2 * others
                 /\ \A j \in 0 .. 2 * others - 1 : F[j + 1] = met(Peers(0)[j \div 2 + 1], t, 0 + (j % 2))
    <3> HIDE DEF ss
    <3>1. ss = [i \in DOMAIN Peers(0) |-> <<met(Peers(0)[i], t, 0), met(Peers(0)[i], t, 0 + 1)>>]
      BY DEF ss
    <3> QED BY <3>1, Meetings
  <2>4. stepCount(r, c) = 4 * others
    BY <1>2 DEF stepCount
  <2> HIDE DEF R, F, steps
  <2>5. R \in Seq(A \cup B) /\ F \in Seq(A \cup B)
    BY <2>2, <2>3
  <2>6. /\ steps \in Seq(A \cup B) /\ Len(steps) = 4 * others
        /\ \A j \in 1 .. 4 * others : steps[j] = IF j <= 2 * others THEN R[j] ELSE F[j - 2 * others]
    <3> DEFINE S == A \cup B
    <3> HIDE DEF S
    <3>1. R \in Seq(S) /\ F \in Seq(S)
      BY <2>5 DEF S
    <3>2. /\ R \o F \in Seq(S) /\ Len(R \o F) = Len(R) + Len(F)
          /\ \A j \in 1 .. Len(R \o F) : (R \o F)[j] = IF j <= Len(R) THEN R[j] ELSE F[j - Len(R)]
      BY ONLY <3>1, ConcatElements
    <3>3. Len(R) + Len(F) = 4 * others
      BY <2>0, <2>2, <2>3
    <3> QED BY <2>1, <2>2, <3>2, <3>3 DEF S
  <2>7. ASSUME NEW k \in 1 .. 4 * others PROVE steps[k] = stepAt(r, c, k)
    <3>1. CASE k <= 2 * others
      <4>1. k - 1 \in 0 .. 2 * others - 1 /\ (k - 1) + 1 = k
        BY <2>0, <3>1
      <4>2. steps[k] = met(Peers(0)[(k - 1) \div 2 + 1], t, 2 + ((k - 1) % 2))
        BY <2>2, <2>6, <3>1, <4>1
      <4> QED BY <1>2, <3>1, <4>2 DEF stepAt
    <3>2. CASE ~ (k <= 2 * others)
      <4> DEFINE j == k - 1 - 2 * others
      <4>1. j \in 0 .. 2 * others - 1 /\ j + 1 = k - 2 * others /\ 0 + (j % 2) = j % 2
        BY <2>0, <3>2
      <4>3. stepAt(r, c, k) = met(Peers(0)[j \div 2 + 1], t, j % 2)
        <5> HIDE DEF j
        <5>1. k - 1 - 2 * others = j
          BY DEF j
        <5>2. stepAt(r, c, k) = met(Peers(0)[(k - 1 - 2 * others) \div 2 + 1], t, (k - 1 - 2 * others) % 2)
          BY <1>2, <3>2 DEF stepAt
        <5> QED BY <5>1, <5>2
      <4> HIDE DEF j
      <4>2. steps[k] = met(Peers(0)[j \div 2 + 1], t, j % 2)
        BY <2>3, <2>6, <3>2, <4>1
      <4> QED BY <4>2, <4>3
    <3> QED BY <3>1, <3>2
  <2> QED BY <2>4, <2>6, <2>7, StepsAreIf DEF steps
<1> QED BY <1>1, <1>2

\* The release of the queue pairs.
LEMMA FreeSteps ==
  ASSUME NEW r \in Ranks, NEW c, c.op = "free"
  PROVE  StepsAre([i \in DOMAIN Peers(r) |-> FreeQp(Peers(r)[i])], r, c)
<1> DEFINE steps == [i \in DOMAIN Peers(r) |-> FreeQp(Peers(r)[i])]
           S == {FreeQp(q) : q \in Ranks}
<1>1. others \in Nat /\ DOMAIN Peers(r) = 1 .. others /\ \A i \in 1 .. others : Peers(r)[i] \in Ranks
  BY PeersFacts
<1>2. steps \in Seq(S) /\ Len(steps) = others /\ \A k \in 1 .. others : steps[k] = FreeQp(Peers(r)[k])
  BY <1>1
<1>3. stepCount(r, c) = others /\ \A k \in 1 .. others : stepAt(r, c, k) = FreeQp(Peers(r)[k])
  BY DEF stepCount, stepAt
<1> HIDE DEF steps, S
<1>4. \A k \in 1 .. stepCount(r, c) : steps[k] = stepAt(r, c, k)
  BY <1>2, <1>3
<1> QED BY <1>2, <1>3, <1>4, StepsAreIf DEF steps

\* The steps of any call.
LEMMA StepsOfCall ==
  ASSUME NEW r \in Ranks, NEW c, isCall(r, c),
         c.op \in {"send", "recv", "barrier"} => Local(r, c.t)
  PROVE  Steps(r, c) = remaining(r, c, 0) /\ stepCount(r, c) \in Nat
<1>0. others \in Nat
  BY PeersFacts
<1>1. CASE c.op = "alloc"
  <2>1. c.register_mem \in BOOLEAN
    BY <1>1 DEF isCall
  <2>2. Steps(r, c) = air_ernic_mem_alloc(r, c)
    BY <1>1 DEF Steps
  <2>3. StepsAre(air_ernic_mem_alloc(r, c), r, c)
    BY <1>1, <2>1, LocalSteps, RemoteSteps
  <2> QED BY <1>0, <1>1, <2>2, <2>3 DEF StepsAre, stepCount
<1>2. CASE c.op = "send"
  <2>1. c.size \in Nat
    BY <1>2 DEF isCall
  <2>2. Steps(r, c) = air_send(r, c.t, c.size, c.at)
    BY <1>2 DEF Steps
  <2>3. StepsAre(air_send(r, c.t, c.size, c.at), r, c)
    BY <1>2, <2>1, SendSteps
  <2> QED BY <1>2, <2>1, <2>2, <2>3 DEF StepsAre, stepCount
<1>3. CASE c.op = "recv"
  <2>1. c.size \in Nat
    BY <1>3 DEF isCall
  <2>2. Steps(r, c) = air_recv(r, c.t, c.size, c.at)
    BY <1>3 DEF Steps
  <2>3. StepsAre(air_recv(r, c.t, c.size, c.at), r, c)
    BY <1>3, <2>1, RecvSteps
  <2> QED BY <1>3, <2>1, <2>2, <2>3 DEF StepsAre, stepCount
<1>4. CASE c.op = "barrier"
  <2>2. Steps(r, c) = air_barrier(r, c.t)
    BY <1>4 DEF Steps
  <2>3. StepsAre(air_barrier(r, c.t), r, c)
    BY <1>4, BarrierSteps
  <2> QED BY <1>0, <1>4, <2>2, <2>3 DEF StepsAre, stepCount
<1>5. CASE c.op = "free"
  <2>2. Steps(r, c) = [i \in DOMAIN Peers(r) |-> FreeQp(Peers(r)[i])]
    BY <1>5 DEF Steps
  <2>3. StepsAre([i \in DOMAIN Peers(r) |-> FreeQp(Peers(r)[i])], r, c)
    BY <1>5, FreeSteps
  <2> QED BY <1>0, <1>5, <2>2, <2>3 DEF StepsAre, stepCount
<1> QED BY <1>1, <1>2, <1>3, <1>4, <1>5 DEF isCall

\* The block and the place in it of a position among blocks of five.
LEMMA FiveAt ==
  ASSUME NEW x \in Nat, NEW b \in 0 .. 4
  PROVE  (5 * x + b) \div 5 = x /\ (5 * x + b) % 5 = b
OBVIOUS
\* The same among blocks of two.
LEMMA TwoAt ==
  ASSUME NEW x \in Nat, NEW b \in 0 .. 1
  PROVE  (2 * x + b) \div 2 = x /\ (2 * x + b) % 2 = b
OBVIOUS

\* The k-th step s of a call takes r's exchange with q one part on, or it has
\* nothing to do with it.
Advances(r, q, c, k) ==
  LET s == stepAt(r, c, k)
      p == progress(r, q, c, k)
      ex == Exchange(r, q, c)
  IN  IF isEvent(s) /\ s.q = q
        THEN /\ p = progress(r, q, c, k - 1) + 1
             /\ p \in 1 .. Len(ex) /\ ex[p].post = isPost(s) /\ ex[p].kind = kindOf(s)
        ELSE p = progress(r, q, c, k - 1)

Tracks(r, q, c) ==
  /\ isSeq(Exchange(r, q, c))
  /\ progress(r, q, c, 0) = 0
  /\ progress(r, q, c, stepCount(r, c)) = Len(Exchange(r, q, c))
  /\ \A m \in 0 .. stepCount(r, c) : progress(r, q, c, m) \in Nat
  /\ \A k \in 1 .. stepCount(r, c) : Advances(r, q, c, k)

part(post, kind, of) == [post |-> post, kind |-> kind, of |-> of]

\* An exchange that is written down.
LEMMA SeqIsSeq ==
  ASSUME NEW S, NEW s \in Seq(S)
  PROVE  isSeq(s) /\ Len(s) \in Nat
BY DEF isSeq

\* A step that takes the exchange one part on.
LEMMA AdvancesIf ==
  ASSUME NEW r, NEW q, NEW c, NEW k, NEW n \in Nat,
         isEvent(stepAt(r, c, k)), stepAt(r, c, k).q = q,
         progress(r, q, c, k - 1) = n, progress(r, q, c, k) = n + 1,
         Len(Exchange(r, q, c)) \in Nat, n + 1 <= Len(Exchange(r, q, c)),
         Exchange(r, q, c)[n + 1].post = isPost(stepAt(r, c, k)),
         Exchange(r, q, c)[n + 1].kind = kindOf(stepAt(r, c, k))
  PROVE  Advances(r, q, c, k)
<1>1. n + 1 \in 1 .. Len(Exchange(r, q, c))
  OBVIOUS
<1> HIDE DEF Exchange, progress, stepAt
<1> QED BY <1>1 DEF Advances

\* An allocation of the host's own advances its exchange step by step.
LEMMA TrackLocal ==
  ASSUME NEW r \in Ranks, NEW q \in Ranks, q # r, NEW c, isCall(r, c),
         c.op = "alloc", c.at = r
  PROVE  Tracks(r, q, c)
<1> DEFINE ex == Exchange(r, q, c)
           y == place(r, q)
           of == <<c.op, c.t>>
<1>0. others \in Nat /\ y \in 0 .. others - 1 /\ Peers(r)[y + 1] = q
      /\ \A i \in 1 .. others : place(r, Peers(r)[i]) = i - 1
  BY PeersFacts
<1>1. stepCount(r, c) = IF c.register_mem THEN 1 + 5 * others ELSE 1
  BY DEF stepCount
<1>2. \A m : progress(r, q, c, m) = IF m < 5 * y + 3 THEN 0 ELSE IF m < 5 * y + 5 THEN 1 ELSE 2
  BY DEF progress
<1>3. c.register_mem \in BOOLEAN
  BY DEF isCall
<1>4. stepAt(r, c, 1) = Malloc(r, c.t, c.size)
  BY DEF stepAt
<1>5. \A k \in 2 .. stepCount(r, c) :
        stepAt(r, c, k) = advertising(Peers(r)[(k - 2) \div 5 + 1], c.t, (k - 2) % 5)
  BY DEF stepAt
<1> HIDE DEF y, ex
<1>6. progress(r, q, c, 0) = 0 /\ progress(r, q, c, 1) = 0
  BY <1>0, <1>2
<1>7. Advances(r, q, c, 1)
  <2>1. ~ isEvent(stepAt(r, c, 1))
    BY <1>4 DEF isEvent, Malloc
  <2>2. 1 - 1 = 0
    OBVIOUS
  <2> QED BY <1>6, <2>1, <2>2 DEF Advances
<1>8. CASE c.register_mem
  <2>1. ex = <<part(TRUE, "rkey", of), part(TRUE, "vaddr", of)>>
    BY <1>8 DEF Exchange, part, ex
  <2>2. ex \in Seq({part(TRUE, "rkey", of), part(TRUE, "vaddr", of)}) /\ Len(ex) = 2
    BY <2>1
  <2>3. ex[1].post = TRUE /\ ex[1].kind = "rkey" /\ ex[2].post = TRUE /\ ex[2].kind = "vaddr"
    BY <2>1 DEF part
  <2>4. ASSUME NEW k \in 2 .. stepCount(r, c) PROVE Advances(r, q, c, k)
    <3> DEFINE x == (k - 2) \div 5
               b == (k - 2) % 5
               s == stepAt(r, c, k)
    <3>1. k - 2 \in 0 .. 5 * others - 1 /\ k - 1 \in Nat
      BY <1>0, <1>1, <1>8
    <3>2. x \in 0 .. others - 1 /\ b \in 0 .. 4 /\ 5 * x + b = k - 2 /\ x + 1 \in 1 .. others
      BY <1>0, <3>1, FiveSplit
    <3>3. s = advertising(Peers(r)[x + 1], c.t, b)
      BY <1>5
    <3> HIDE DEF x, b, s
    <3>4. s.q = q <=> x = y
      <4>1. s.q = Peers(r)[x + 1]
        BY <3>2, <3>3 DEF advertising, Register, Advertise, Poll
      <4>2. place(r, Peers(r)[x + 1]) = x
        BY <1>0, <3>2
      <4> QED BY <1>0, <4>1, <4>2 DEF y
    <3>5. /\ isEvent(s) <=> b \in {1, 3}
          /\ b = 1 => isPost(s) /\ kindOf(s) = "rkey"
          /\ b = 3 => isPost(s) /\ kindOf(s) = "vaddr"
      BY <3>2, <3>3 DEF advertising, Register, Advertise, Poll, isEvent, isPost, kindOf
    <3>6. k = 5 * x + b + 2
      BY <3>1, <3>2
    <3>7. CASE x = y /\ b = 1
      <4>1. k = 5 * y + 3 /\ y \in Nat
        BY <1>0, <3>6, <3>7
      <4>2. progress(r, q, c, k) = 1 /\ progress(r, q, c, k - 1) = 0
        BY <1>2, <4>1
      <4>3. ex[1].post = isPost(s) /\ ex[1].kind = kindOf(s) /\ isEvent(s) /\ s.q = q
        BY <2>3, <3>4, <3>5, <3>7
      <4>4. 0 + 1 = 1 /\ Len(ex) \in Nat /\ 1 <= Len(ex) /\ 0 \in Nat
        BY <2>2
      <4> QED BY <4>2, <4>3, <4>4, AdvancesIf DEF s, ex
    <3>8. CASE x = y /\ b = 3
      <4>1. k = 5 * y + 5 /\ y \in Nat
        BY <1>0, <3>6, <3>8
      <4>2. progress(r, q, c, k) = 2 /\ progress(r, q, c, k - 1) = 1
        BY <1>2, <4>1
      <4>3. ex[2].post = isPost(s) /\ ex[2].kind = kindOf(s) /\ isEvent(s) /\ s.q = q
        BY <2>3, <3>4, <3>5, <3>8
      <4>4. 1 + 1 = 2 /\ Len(ex) \in Nat /\ 2 <= Len(ex) /\ 1 \in Nat
        BY <2>2
      <4> QED BY <4>2, <4>3, <4>4, AdvancesIf DEF s, ex
    <3>9. CASE ~ (x = y /\ b \in {1, 3})
      <4>1. k # 5 * y + 3 /\ k # 5 * y + 5 /\ y \in Nat /\ k \in Nat
        BY <1>0, <3>1, <3>2, <3>6, <3>9
      <4>2. progress(r, q, c, k) = progress(r, q, c, k - 1)
        BY <1>2, <4>1
      <4>3. ~ (isEvent(s) /\ s.q = q)
        BY <3>4, <3>5, <3>9
      <4> QED BY <4>2, <4>3 DEF Advances, s
    <3> QED BY <3>7, <3>8, <3>9
  <2>5. \A k \in 1 .. stepCount(r, c) : Advances(r, q, c, k)
    <3>1. \A k \in 1 .. stepCount(r, c) : k = 1 \/ k \in 2 .. stepCount(r, c)
      BY <1>0, <1>1
    <3> QED BY <1>7, <2>4, <3>1
  <2>6. progress(r, q, c, stepCount(r, c)) = 2
    BY <1>0, <1>1, <1>2, <1>8
  <2>7. \A m \in 0 .. stepCount(r, c) : progress(r, q, c, m) \in Nat
    BY <1>2
  <2> QED BY <1>6, <2>2, <2>5, <2>6, <2>7, SeqIsSeq DEF Tracks, ex
<1>9. CASE ~ c.register_mem
  <2>1. ex = <<>>
    BY <1>9 DEF Exchange, ex
  <2>2. isSeq(ex) /\ Len(ex) = 0
    BY <2>1 DEF isSeq
  <2>3. stepCount(r, c) = 1 /\ (\A k \in 1 .. 1 : k = 1) /\ \A k \in 0 .. 1 : k = 0 \/ k = 1
    BY <1>1, <1>9
  <2> QED BY <1>6, <1>7, <2>2, <2>3 DEF Tracks, ex
<1> QED BY <1>3, <1>8, <1>9

\* So does an allocation at another host.
LEMMA TrackRemote ==
  ASSUME NEW r \in Ranks, NEW q \in Ranks, q # r, NEW c, isCall(r, c),
         c.op = "alloc", c.at # r
  PROVE  Tracks(r, q, c)
<1> DEFINE ex == Exchange(r, q, c)
           of == <<c.op, c.t>>
<1>1. stepCount(r, c) = 5 /\ \A k : stepAt(r, c, k) = remote(c.at, c.t, c.size, k)
  BY DEF stepCount, stepAt
<1>2. /\ remote(c.at, c.t, c.size, 1) = PostRecv(c.at) /\ remote(c.at, c.t, c.size, 2) = Copy(c.at, "rkey")
      /\ remote(c.at, c.t, c.size, 3) = PostRecv(c.at) /\ remote(c.at, c.t, c.size, 4) = Copy(c.at, "vaddr")
      /\ remote(c.at, c.t, c.size, 5) = Malloc(c.at, c.t, c.size)
  BY DEF remote
<1>3. \A k \in 1 .. 5 : LET s == stepAt(r, c, k) IN
        /\ isEvent(s) <=> k \in {2, 4}
        /\ k \in {2, 4} => isPost(s) = FALSE /\ s.q = c.at
        /\ k = 2 => kindOf(s) = "rkey"
        /\ k = 4 => kindOf(s) = "vaddr"
  BY <1>1, <1>2 DEF PostRecv, Copy, Malloc, isEvent, isPost, kindOf
<1>4. \A k \in 1 .. 5 : k \in {1, 2, 3, 4, 5}
  OBVIOUS
<1>5. 1 - 1 = 0 /\ 2 - 1 = 1 /\ 3 - 1 = 2 /\ 4 - 1 = 3 /\ 5 - 1 = 4
  OBVIOUS
<1> HIDE DEF ex
<1>6. CASE c.at = q
  <2>1. ex = <<part(FALSE, "rkey", of), part(FALSE, "vaddr", of)>>
    BY <1>6 DEF Exchange, part, ex
  <2>2. ex \in Seq({part(FALSE, "rkey", of), part(FALSE, "vaddr", of)}) /\ Len(ex) = 2
    BY <2>1
  <2>3. ex[1].post = FALSE /\ ex[1].kind = "rkey" /\ ex[2].post = FALSE /\ ex[2].kind = "vaddr"
    BY <2>1 DEF part
  <2>4. \A m : progress(r, q, c, m) = IF m < 2 THEN 0 ELSE IF m < 4 THEN 1 ELSE 2
    BY <1>6 DEF progress
  <2>a. 0 + 1 = 1 /\ 1 + 1 = 2 /\ Len(ex) \in Nat /\ 1 <= Len(ex) /\ 2 <= Len(ex) /\ {0, 1} \subseteq Nat
    BY <2>2
  <2>b. Advances(r, q, c, 2)
    <3> DEFINE s == stepAt(r, c, 2)
    <3>0. isEvent(s) /\ isPost(s) = FALSE /\ s.q = c.at /\ kindOf(s) = "rkey"
      <4>1. 2 \in 1 .. 5 /\ 2 \in {2, 4}
        OBVIOUS
      <4> QED BY <1>3, <4>1
    <3> HIDE DEF s
    <3>1. /\ isEvent(s) /\ s.q = q
          /\ ex[1].post = isPost(s) /\ ex[1].kind = kindOf(s)
      BY <1>6, <2>3, <3>0
    <3>2. progress(r, q, c, 2 - 1) = 0 /\ progress(r, q, c, 2) = 1
      BY <2>4
    <3> QED BY <2>a, <3>1, <3>2, AdvancesIf DEF ex, s
  <2>c. Advances(r, q, c, 4)
    <3> DEFINE s == stepAt(r, c, 4)
    <3>0. isEvent(s) /\ isPost(s) = FALSE /\ s.q = c.at /\ kindOf(s) = "vaddr"
      <4>1. 4 \in 1 .. 5 /\ 4 \in {2, 4}
        OBVIOUS
      <4> QED BY <1>3, <4>1
    <3> HIDE DEF s
    <3>1. /\ isEvent(s) /\ s.q = q
          /\ ex[2].post = isPost(s) /\ ex[2].kind = kindOf(s)
      BY <1>6, <2>3, <3>0
    <3>2. progress(r, q, c, 4 - 1) = 1 /\ progress(r, q, c, 4) = 2
      BY <2>4
    <3> QED BY <2>a, <3>1, <3>2, AdvancesIf DEF ex, s
  <2>d. \A k \in {1, 3, 5} : Advances(r, q, c, k)
    BY <1>3, <2>4 DEF Advances
  <2>5. \A k \in 1 .. 5 : Advances(r, q, c, k)
    BY <1>4, <2>b, <2>c, <2>d
  <2>6. /\ progress(r, q, c, 0) = 0 /\ progress(r, q, c, 5) = 2
        /\ \A m \in 0 .. 5 : progress(r, q, c, m) \in Nat
    BY <2>4
  <2> QED BY <1>1, <2>2, <2>5, <2>6, SeqIsSeq DEF Tracks, ex
<1>7. CASE c.at # q
  <2>1. ex = <<>> /\ \A m : progress(r, q, c, m) = 0
    BY <1>7 DEF Exchange, ex, progress
  <2>2. isSeq(ex) /\ Len(ex) = 0
    BY <2>1 DEF isSeq
  <2>3. \A k \in 1 .. 5 : Advances(r, q, c, k)
    BY <1>3, <1>7, <2>1 DEF Advances
  <2> QED BY <1>1, <2>1, <2>2, <2>3 DEF Tracks, ex
<1> QED BY <1>6, <1>7

\* air_send and air_recv.
LEMMA TrackMessage ==
  ASSUME NEW r \in Ranks, NEW q \in Ranks, q # r, NEW c, isCall(r, c),
         c.op \in {"send", "recv"}
  PROVE  Tracks(r, q, c)
<1> DEFINE ex == Exchange(r, q, c)
           of == <<"message">>
           sends == c.op = "send"
           first == part(sends, "data", of)
           last == part(~ sends, "sync", of)
<1>0. c.size \in Nat /\ c.at \in Ranks
  BY DEF isCall
<1>1. stepCount(r, c) = c.size + 1
  BY DEF stepCount
<1>2. \A k \in 1 .. c.size + 1 : LET s == stepAt(r, c, k) IN
        /\ isEvent(s) /\ s.q = c.at
        /\ k <= c.size => isPost(s) = sends /\ kindOf(s) = "data"
        /\ ~ (k <= c.size) => isPost(s) = ~ sends /\ kindOf(s) = "sync"
  <2>1. CASE c.op = "send"
    <3>1. \A k : stepAt(r, c, k) = IF k <= c.size THEN Wqe(c.at, c.t, 0, "data") ELSE Recv(c.at, c.t, 0, "sync")
      BY <2>1 DEF stepAt
    <3> QED BY <2>1, <3>1 DEF Wqe, Recv, isEvent, isPost, kindOf
  <2>2. CASE c.op = "recv"
    <3>1. \A k : stepAt(r, c, k) = IF k <= c.size THEN Recv(c.at, c.t, k - 1, "data") ELSE Wqe(c.at, c.t, 0, "sync")
      BY <2>2 DEF stepAt
    <3> QED BY <2>2, <3>1 DEF Wqe, Recv, isEvent, isPost, kindOf
  <2> QED BY <2>1, <2>2
<1> HIDE DEF ex
<1>3. CASE c.at = q
  <2> DEFINE f == [i \in 1 .. c.size |-> first]
  <2>1. ex = f \o <<last>>
    <3>1. CASE sends
      BY <1>3, <3>1 DEF Exchange, ex, part
    <3>2. CASE ~ sends
      BY <1>3, <3>2 DEF Exchange, ex, part
    <3> QED BY <3>1, <3>2
  <2>2. isRun(f, c.size)
    BY <1>0 DEF isRun
  <2>3. PICK S : /\ ex \in Seq(S) /\ Len(ex) = c.size + 1
                 /\ \A k \in 1 .. c.size + 1 : ex[k] = IF k <= c.size THEN f[k] ELSE last
    <3> HIDE DEF f, last
    <3> QED BY <2>1, <2>2, Ended
  <2>4. \A k \in 1 .. c.size + 1 :
          /\ k <= c.size => ex[k].post = sends /\ ex[k].kind = "data"
          /\ ~ (k <= c.size) => ex[k].post = ~ sends /\ ex[k].kind = "sync"
    <3>1. \A k \in 1 .. c.size + 1 : k <= c.size => f[k] = first
      BY <1>0
    <3>2. /\ first.post = sends /\ first.kind = "data"
          /\ last.post = ~ sends /\ last.kind = "sync"
      BY DEF part
    <3> HIDE DEF f, first, last, sends
    <3> QED BY <2>3, <3>1, <3>2
  <2>5. \A m : progress(r, q, c, m) = m
    BY <1>3 DEF progress
  <2>6. ASSUME NEW k \in 1 .. c.size + 1 PROVE Advances(r, q, c, k)
    <3>1. k - 1 \in Nat /\ (k - 1) + 1 = k /\ c.size + 1 \in Nat /\ k <= c.size + 1
      BY <1>0
    <3> DEFINE s == stepAt(r, c, k)
    <3>2. isEvent(s) /\ s.q = q /\ ex[k].post = isPost(s) /\ ex[k].kind = kindOf(s)
      <4> HIDE DEF sends, s
      <4> QED BY <1>2, <1>3, <2>4 DEF s
    <3> QED BY <2>3, <2>5, <3>1, <3>2, AdvancesIf DEF ex
  <2>7. \A m \in 0 .. c.size + 1 : m \in Nat
    BY <1>0
  <2> QED BY <1>1, <2>3, <2>5, <2>6, <2>7, SeqIsSeq DEF Tracks, ex
<1>4. CASE c.at # q
  <2>1. ex = <<>> /\ \A m : progress(r, q, c, m) = 0
    BY <1>4 DEF Exchange, ex, progress
  <2>2. isSeq(ex) /\ Len(ex) = 0
    BY <2>1 DEF isSeq
  <2>3. \A k \in 1 .. c.size + 1 : Advances(r, q, c, k)
    BY <1>2, <1>4, <2>1 DEF Advances
  <2> QED BY <1>1, <2>1, <2>2, <2>3 DEF Tracks, ex
<1> QED BY <1>3, <1>4

\* air_barrier: the other hosts, and rank 0.
LEMMA TrackBarrier ==
  ASSUME NEW r \in Ranks, NEW q \in Ranks, q # r, NEW c, isCall(r, c),
         c.op = "barrier", r # 0
  PROVE  Tracks(r, q, c)
<1> DEFINE ex == Exchange(r, q, c)
           of == <<c.op>>
<1>1. stepCount(r, c) = 4 /\ \A k : stepAt(r, c, k) = met(0, c.t, k - 1)
  BY DEF stepCount, stepAt
<1>2. /\ met(0, c.t, 0) = Wqe(0, c.t, 0, "data") /\ met(0, c.t, 1) = Recv(0, c.t, 0, "sync")
      /\ met(0, c.t, 2) = Recv(0, c.t, 0, "data") /\ met(0, c.t, 3) = Wqe(0, c.t, 0, "sync")
  BY DEF met
<1>3. \A k \in 1 .. 4 : LET s == stepAt(r, c, k) IN
        /\ isEvent(s) /\ s.q = 0
        /\ k = 1 => isPost(s) = TRUE /\ kindOf(s) = "data"
        /\ k = 2 => isPost(s) = FALSE /\ kindOf(s) = "sync"
        /\ k = 3 => isPost(s) = FALSE /\ kindOf(s) = "data"
        /\ k = 4 => isPost(s) = TRUE /\ kindOf(s) = "sync"
  BY <1>1, <1>2 DEF Wqe, Recv, isEvent, isPost, kindOf
<1> HIDE DEF ex
<1>4. CASE q = 0
  <2> DEFINE S == {part(TRUE, "data", of), part(FALSE, "sync", of), part(FALSE, "data", of), part(TRUE, "sync", of)}
  <2>1. ex = <<part(TRUE, "data", of), part(FALSE, "sync", of), part(FALSE, "data", of), part(TRUE, "sync", of)>>
    BY <1>4 DEF Exchange, part, ex
  <2>2. ex \in Seq(S) /\ Len(ex) = 4
    BY <2>1
  <2>3. \A k \in 1 .. 4 :
        /\ k = 1 => ex[k].post = TRUE /\ ex[k].kind = "data"
        /\ k = 2 => ex[k].post = FALSE /\ ex[k].kind = "sync"
        /\ k = 3 => ex[k].post = FALSE /\ ex[k].kind = "data"
        /\ k = 4 => ex[k].post = TRUE /\ ex[k].kind = "sync"
    BY <2>1 DEF part
  <2>4. \A m : progress(r, q, c, m) = m
    BY <1>4 DEF progress
  <2>5. ASSUME NEW k \in 1 .. 4 PROVE Advances(r, q, c, k)
    <3>1. k - 1 \in Nat /\ (k - 1) + 1 = k /\ 4 \in Nat /\ k <= 4 /\ k \in {1, 2, 3, 4}
      OBVIOUS
    <3> DEFINE s == stepAt(r, c, k)
    <3>2. isEvent(s) /\ s.q = q /\ ex[k].post = isPost(s) /\ ex[k].kind = kindOf(s)
      <4> HIDE DEF s
      <4> QED BY <1>3, <1>4, <2>3, <3>1 DEF s
    <3> QED BY <2>2, <2>4, <3>1, <3>2, AdvancesIf DEF ex
  <2>6. \A m \in 0 .. 4 : m \in Nat
    OBVIOUS
  <2> QED BY <1>1, <2>2, <2>4, <2>5, <2>6, SeqIsSeq DEF Tracks, ex
<1>5. CASE q # 0
  <2>1. ex = <<>> /\ \A m : progress(r, q, c, m) = 0
    BY <1>5 DEF Exchange, ex, progress
  <2>2. isSeq(ex) /\ Len(ex) = 0
    BY <2>1 DEF isSeq
  <2>3. \A k \in 1 .. 4 : Advances(r, q, c, k)
    BY <1>3, <1>5, <2>1 DEF Advances
  <2> QED BY <1>1, <2>1, <2>2, <2>3 DEF Tracks, ex
<1> QED BY <1>4, <1>5

\* So does the barrier of rank 0.
LEMMA TrackBarrierZero ==
  ASSUME NEW r \in Ranks, NEW q \in Ranks, q # r, NEW c, isCall(r, c),
         c.op = "barrier", r = 0
  PROVE  Tracks(r, q, c)
<1> DEFINE ex == Exchange(r, q, c)
           y == place(r, q)
           of == <<c.op>>
           o == others
<1>0. o \in Nat /\ y \in 0 .. o - 1 /\ Peers(r)[y + 1] = q
      /\ \A i \in 1 .. o : place(r, Peers(r)[i]) = i - 1
  BY PeersFacts
<1>1. stepCount(r, c) = 4 * o
  BY DEF stepCount
<1>2. \A m : progress(r, q, c, m) =
               IF m < 2 * y + 1 THEN 0 ELSE IF m < 2 * y + 2 THEN 1
               ELSE IF m < 2 * o + 2 * y + 1 THEN 2 ELSE IF m < 2 * o + 2 * y + 2 THEN 3 ELSE 4
  BY DEF progress
<1> DEFINE S == {part(FALSE, "data", of), part(TRUE, "sync", of), part(TRUE, "data", of), part(FALSE, "sync", of)}
<1>3. ex = <<part(FALSE, "data", of), part(TRUE, "sync", of), part(TRUE, "data", of), part(FALSE, "sync", of)>>
  BY DEF Exchange, part
<1> HIDE DEF y, ex, o
<1>4. ex \in Seq(S) /\ Len(ex) = 4
  BY <1>3
<1>5. /\ ex[1].post = FALSE /\ ex[1].kind = "data" /\ ex[2].post = TRUE /\ ex[2].kind = "sync"
      /\ ex[3].post = TRUE /\ ex[3].kind = "data" /\ ex[4].post = FALSE /\ ex[4].kind = "sync"
  BY <1>3 DEF part
\* The step is the b-th with the x-th peer.
<1> DEFINE InRound(k, x, b, d) ==
      LET s == stepAt(r, c, k) IN
      /\ x \in 0 .. o - 1 /\ b \in 0 .. 1
      /\ isEvent(s) /\ (s.q = q <=> x = y)
      /\ d = 2 /\ b = 0 => isPost(s) = FALSE /\ kindOf(s) = "data"
      /\ d = 2 /\ b = 1 => isPost(s) = TRUE /\ kindOf(s) = "sync"
      /\ d = 0 /\ b = 0 => isPost(s) = TRUE /\ kindOf(s) = "data"
      /\ d = 0 /\ b = 1 => isPost(s) = FALSE /\ kindOf(s) = "sync"
<1>6. ASSUME NEW k, NEW x \in 0 .. o - 1, NEW b \in 0 .. 1, NEW d \in {0, 2},
             stepAt(r, c, k) = met(Peers(0)[x + 1], c.t, d + b)
      PROVE  InRound(k, x, b, d)
  <2> DEFINE s == stepAt(r, c, k)
             p == Peers(0)[x + 1]
  <2>1. /\ met(p, c.t, 0) = Wqe(p, c.t, 0, "data") /\ met(p, c.t, 1) = Recv(p, c.t, 0, "sync")
        /\ met(p, c.t, 2) = Recv(p, c.t, 0, "data") /\ met(p, c.t, 3) = Wqe(p, c.t, 0, "sync")
    BY DEF met
  <2>2. p = q <=> x = y
    <3>1. x + 1 \in 1 .. o /\ (x + 1) - 1 = x
      BY <1>0
    <3>2. place(r, p) = x
      BY <1>0, <3>1
    <3> QED BY <1>0, <3>2 DEF y
  <2>3. /\ d = 2 /\ b = 0 => d + b = 2
        /\ d = 2 /\ b = 1 => d + b = 3
        /\ d = 0 /\ b = 0 => d + b = 0
        /\ d = 0 /\ b = 1 => d + b = 1
        /\ (d = 0 \/ d = 2) /\ (b = 0 \/ b = 1)
    OBVIOUS
  <2> HIDE DEF p, s
  <2>4. s = met(p, c.t, d + b)
    BY <1>6 DEF s, p
  <2>5. s.q = p /\ isEvent(s)
    BY <2>1, <2>3, <2>4 DEF Wqe, Recv, isEvent
  <2>6. /\ d = 2 /\ b = 0 => isPost(s) = FALSE /\ kindOf(s) = "data"
        /\ d = 2 /\ b = 1 => isPost(s) = TRUE /\ kindOf(s) = "sync"
        /\ d = 0 /\ b = 0 => isPost(s) = TRUE /\ kindOf(s) = "data"
        /\ d = 0 /\ b = 1 => isPost(s) = FALSE /\ kindOf(s) = "sync"
    BY <2>1, <2>3, <2>4 DEF Wqe, Recv, isPost, kindOf
  <2> QED BY <2>2, <2>5, <2>6 DEF s
<1> HIDE DEF InRound
<1>7. ASSUME NEW k \in 1 .. 4 * o PROVE Advances(r, q, c, k)
  <2> DEFINE s == stepAt(r, c, k)
  <2>0. k \in Nat /\ k - 1 \in Nat /\ y \in Nat /\ o \in Nat
    BY <1>0
  <2>1. CASE k <= 2 * o
    <3> DEFINE x == (k - 1) \div 2
               b == (k - 1) % 2
    <3>1. k - 1 \in 0 .. 2 * o - 1
      BY <1>0, <2>1
    <3>2. x \in 0 .. o - 1 /\ b \in 0 .. 1 /\ 2 * x + b = k - 1
      BY <1>0, <3>1, TwoSplit
    <3>3. stepAt(r, c, k) = met(Peers(0)[x + 1], c.t, 2 + b)
      BY <2>1 DEF stepAt, o
    <3> HIDE DEF x, b
    <3>4. InRound(k, x, b, 2)
      BY <1>6, <3>2, <3>3
    <3> HIDE DEF s
    <3>5. /\ isEvent(s) /\ (s.q = q <=> x = y)
          /\ b = 0 => isPost(s) = FALSE /\ kindOf(s) = "data"
          /\ b = 1 => isPost(s) = TRUE /\ kindOf(s) = "sync"
      BY <3>4 DEF InRound, s
    <3>6. k = 2 * x + b + 1
      BY <2>0, <3>2
    <3>7. CASE x = y /\ b = 0
      <4>1. progress(r, q, c, k - 1) = 0 /\ progress(r, q, c, k) = 0 + 1
        BY <1>0, <1>2, <3>6, <3>7
      <4>0. 0 + 1 = 1
        OBVIOUS
      <4>2. ex[0 + 1].post = isPost(s) /\ ex[0 + 1].kind = kindOf(s) /\ isEvent(s) /\ s.q = q
        BY <1>5, <3>5, <3>7, <4>0
      <4>3. 0 \in Nat /\ Len(ex) \in Nat /\ 0 + 1 <= Len(ex)
        BY <1>4
      <4> QED BY <4>1, <4>2, <4>3, AdvancesIf DEF ex, s
    <3>8. CASE x = y /\ b = 1
      <4>1. progress(r, q, c, k - 1) = 1 /\ progress(r, q, c, k) = 1 + 1
        BY <1>0, <1>2, <3>6, <3>8
      <4>0. 1 + 1 = 2
        OBVIOUS
      <4>2. ex[1 + 1].post = isPost(s) /\ ex[1 + 1].kind = kindOf(s) /\ isEvent(s) /\ s.q = q
        BY <1>5, <3>5, <3>8, <4>0
      <4>3. 1 \in Nat /\ Len(ex) \in Nat /\ 1 + 1 <= Len(ex)
        BY <1>4
      <4> QED BY <4>1, <4>2, <4>3, AdvancesIf DEF ex, s
    <3>9. CASE x # y
      <4>1. progress(r, q, c, k - 1) = progress(r, q, c, k)
        BY <1>0, <1>2, <2>0, <2>1, <3>2, <3>6, <3>9
      <4>2. s.q # q
        BY <3>5, <3>9
      <4> QED BY <4>1, <4>2 DEF Advances, s
    <3> QED BY <3>2, <3>7, <3>8, <3>9
  <2>2. CASE ~ (k <= 2 * o)
    <3> DEFINE x == (k - 1 - 2 * o) \div 2
               b == (k - 1 - 2 * o) % 2
    <3>1. k - 1 - 2 * o \in 0 .. 2 * o - 1
      BY <1>0, <2>2
    <3>2. x \in 0 .. o - 1 /\ b \in 0 .. 1 /\ 2 * x + b = k - 1 - 2 * o
      BY <1>0, <3>1, TwoSplit
    <3>3. stepAt(r, c, k) = met(Peers(0)[x + 1], c.t, 0 + b)
      <4>1. 0 + b = b
        BY <3>2
      <4>2. stepAt(r, c, k) = met(Peers(0)[x + 1], c.t, b)
        BY <2>2 DEF stepAt, o
      <4> QED BY <4>1, <4>2
    <3> HIDE DEF x, b
    <3>4. InRound(k, x, b, 0)
      BY <1>6, <3>2, <3>3
    <3> HIDE DEF s
    <3>5. /\ isEvent(s) /\ (s.q = q <=> x = y)
          /\ b = 0 => isPost(s) = TRUE /\ kindOf(s) = "data"
          /\ b = 1 => isPost(s) = FALSE /\ kindOf(s) = "sync"
      BY <3>4 DEF InRound, s
    <3>6. k = 2 * o + 2 * x + b + 1
      BY <2>0, <3>2
    <3>7. CASE x = y /\ b = 0
      <4>1. progress(r, q, c, k - 1) = 2 /\ progress(r, q, c, k) = 2 + 1
        BY <1>0, <1>2, <3>6, <3>7
      <4>0. 2 + 1 = 3
        OBVIOUS
      <4>2. ex[2 + 1].post = isPost(s) /\ ex[2 + 1].kind = kindOf(s) /\ isEvent(s) /\ s.q = q
        BY <1>5, <3>5, <3>7, <4>0
      <4>3. 2 \in Nat /\ Len(ex) \in Nat /\ 2 + 1 <= Len(ex)
        BY <1>4
      <4> QED BY <4>1, <4>2, <4>3, AdvancesIf DEF ex, s
    <3>8. CASE x = y /\ b = 1
      <4>1. progress(r, q, c, k - 1) = 3 /\ progress(r, q, c, k) = 3 + 1
        BY <1>0, <1>2, <3>6, <3>8
      <4>0. 3 + 1 = 4
        OBVIOUS
      <4>2. ex[3 + 1].post = isPost(s) /\ ex[3 + 1].kind = kindOf(s) /\ isEvent(s) /\ s.q = q
        BY <1>5, <3>5, <3>8, <4>0
      <4>3. 3 \in Nat /\ Len(ex) \in Nat /\ 3 + 1 <= Len(ex)
        BY <1>4
      <4> QED BY <4>1, <4>2, <4>3, AdvancesIf DEF ex, s
    <3>9. CASE x # y
      <4>1. progress(r, q, c, k - 1) = progress(r, q, c, k)
        BY <1>0, <1>2, <2>0, <2>2, <3>2, <3>6, <3>9
      <4>2. s.q # q
        BY <3>5, <3>9
      <4> QED BY <4>1, <4>2 DEF Advances, s
    <3> QED BY <3>2, <3>7, <3>8, <3>9
  <2> QED BY <2>1, <2>2
<1>8. /\ progress(r, q, c, 0) = 0 /\ progress(r, q, c, 4 * o) = 4
      /\ \A m : progress(r, q, c, m) \in Nat
  BY <1>0, <1>2
<1> QED BY <1>1, <1>4, <1>7, <1>8, SeqIsSeq DEF Tracks, ex

\* The release exchanges nothing.
LEMMA TrackFree ==
  ASSUME NEW r \in Ranks, NEW q \in Ranks, q # r, NEW c, isCall(r, c), c.op = "free"
  PROVE  Tracks(r, q, c)
<1>0. others \in Nat
  BY PeersFacts
<1>1. stepCount(r, c) = others /\ \A k : stepAt(r, c, k) = FreeQp(Peers(r)[k])
  BY DEF stepCount, stepAt
<1>2. Exchange(r, q, c) = <<>> /\ \A m : progress(r, q, c, m) = 0
  BY DEF Exchange, progress
<1>3. isSeq(Exchange(r, q, c)) /\ Len(Exchange(r, q, c)) = 0
  BY <1>2 DEF isSeq
<1>4. \A k : ~ isEvent(stepAt(r, c, k))
  BY <1>1 DEF FreeQp, isEvent
<1>5. \A k \in 1 .. others : Advances(r, q, c, k)
  BY <1>2, <1>4 DEF Advances
<1> QED BY <1>0, <1>1, <1>2, <1>3, <1>5 DEF Tracks

\* Every call advances the exchange it is said to have with a peer, one
\* part for every step that posts or takes and none for the others.
LEMMA TrackCall ==
  ASSUME NEW r \in Ranks, NEW q \in Ranks, q # r, NEW c, isCall(r, c)
  PROVE  Tracks(r, q, c)
BY TrackLocal, TrackRemote, TrackMessage, TrackBarrier, TrackBarrierZero, TrackFree DEF isCall

driverSteps == {"malloc", "register", "advertise", "poll", "post_recv", "copy"}

\* What a step of call c of r can be.
StepFits(r, c, s) ==
  /\ s.q \in Ranks /\ (s.do # "malloc" => s.q # r)
  /\ s.do \in driverSteps \cup {"free", "wqe", "recv"}
  /\ s.do \in driverSteps => c.op = "alloc"
  /\ s.do = "free" => c.op = "free"
  /\ s.do \in {"wqe", "recv"} =>
       /\ c.op \in {"send", "recv", "barrier"}
       /\ s.name = c.t /\ s.i \in Nat /\ s.kind \in {"data", "sync"}
  /\ s.do = "malloc" => s.name = c.t /\ s.q = c.at /\ s.size \in Nat
  /\ s.do \in {"advertise", "copy"} => s.field \in {"rkey", "vaddr"}

\* What steps follow one another, and which can be the first.
isDataPost(s) == s.do = "advertise" \/ (s.do = "wqe" /\ s.kind = "data")
Follows(s, u) ==
  /\ isDataPost(s) => u.q = s.q /\ isWait(u)
  /\ s.do = "advertise" => u.do = "poll"
  /\ s.do = "post_recv" => u.q = s.q /\ u.do = "copy"
  /\ u.do = "poll" => u.q = s.q /\ s.do = "advertise"
  /\ u.do = "copy" => u.q = s.q /\ s.do = "post_recv"
mayEnd(s) == ~ isDataPost(s) /\ s.do # "post_recv"
mayStart(s) == s.do \notin {"poll", "copy"}

Sound(r, c) ==
  LET n == stepCount(r, c) IN
  /\ \A k \in 1 .. n :
       /\ StepFits(r, c, stepAt(r, c, k))
       /\ k = 1 => mayStart(stepAt(r, c, k))
       /\ k = n => mayEnd(stepAt(r, c, k))
       /\ k # n => Follows(stepAt(r, c, k), stepAt(r, c, k + 1))
  /\ c.op = "alloc" => \E k \in 1 .. n : stepAt(r, c, k) = Malloc(c.at, c.t, c.size)

\* The steps of an allocation of the host's own.
LEMMA SoundLocal ==
  ASSUME NEW r \in Ranks, NEW c, isCall(r, c), c.op = "alloc", c.at = r
  PROVE  Sound(r, c)
<1>0. others \in Nat /\ \A i \in 1 .. others : Peers(r)[i] \in Ranks /\ Peers(r)[i] # r
  BY PeersFacts
<1>1. stepCount(r, c) = IF c.register_mem THEN 1 + 5 * others ELSE 1
  BY DEF stepCount
<1>2. c.size \in Nat /\ c.register_mem \in BOOLEAN
  BY DEF isCall
<1>3. stepAt(r, c, 1) = Malloc(r, c.t, c.size)
  BY DEF stepAt
<1>4. \A k : k # 1 => stepAt(r, c, k) = advertising(Peers(r)[(k - 2) \div 5 + 1], c.t, (k - 2) % 5)
  BY DEF stepAt
\* The five steps with one host.
<1> DEFINE A(p, b) == advertising(p, c.t, b)
<1>5. ASSUME NEW p
      PROVE  /\ A(p, 0).do = "register" /\ A(p, 0).q = p
             /\ A(p, 1).do = "advertise" /\ A(p, 1).q = p /\ A(p, 1).field = "rkey"
             /\ A(p, 2).do = "poll" /\ A(p, 2).q = p
             /\ A(p, 3).do = "advertise" /\ A(p, 3).q = p /\ A(p, 3).field = "vaddr"
             /\ A(p, 4).do = "poll" /\ A(p, 4).q = p
  <2>1. /\ A(p, 0) = Register(p, c.t) /\ A(p, 1) = Advertise(p, c.t, "rkey") /\ A(p, 2) = Poll(p)
        /\ A(p, 3) = Advertise(p, c.t, "vaddr") /\ A(p, 4) = Poll(p)
    BY DEF advertising
  <2> HIDE DEF A
  <2> QED BY <2>1 DEF Register, Advertise, Poll
<1>6. /\ StepFits(r, c, stepAt(r, c, 1)) /\ mayStart(stepAt(r, c, 1)) /\ mayEnd(stepAt(r, c, 1))
  BY <1>2, <1>3 DEF Malloc, StepFits, mayStart, mayEnd, isDataPost, driverSteps
\* Within a block, and from one to the next.
<1> HIDE DEF A
<1>7. ASSUME NEW p \in Ranks, p # r, NEW b \in 0 .. 4
      PROVE  StepFits(r, c, A(p, b))
  <2>1. b = 0 \/ b = 1 \/ b = 2 \/ b = 3 \/ b = 4
    OBVIOUS
  <2> DEFINE s == A(p, b)
  <2>2. /\ s.q = p /\ s.do \in {"register", "advertise", "poll"}
        /\ s.do = "advertise" => s.field \in {"rkey", "vaddr"}
    BY <1>5, <2>1
  <2> HIDE DEF s
  <2>3. StepFits(r, c, s)
    BY <1>7, <2>2 DEF StepFits, driverSteps
  <2> QED BY <2>3 DEF s
<1>8. \A p : \A b \in 0 .. 3 : Follows(A(p, b), A(p, b + 1))
  <2> SUFFICES ASSUME NEW p, NEW b \in 0 .. 3
               PROVE  Follows(A(p, b), A(p, b + 1))
    OBVIOUS
  <2>1. (b = 0 /\ b + 1 = 1) \/ (b = 1 /\ b + 1 = 2) \/ (b = 2 /\ b + 1 = 3) \/ (b = 3 /\ b + 1 = 4)
    OBVIOUS
  <2> DEFINE s == A(p, b)
             u == A(p, b + 1)
  <2>2. /\ s.q = p /\ u.q = p
        /\ \/ s.do \in {"register", "poll"} /\ u.do = "advertise"
           \/ s.do = "advertise" /\ u.do = "poll"
    BY <1>5, <2>1
  <2> HIDE DEF s, u
  <2>3. Follows(s, u)
    BY <2>2 DEF Follows, isDataPost, isWait
  <2> QED BY <2>3 DEF s, u
<1>9. \A p, v : Follows(A(p, 4), A(v, 0))
  BY <1>5 DEF Follows, isDataPost, isWait
<1>10. \A p : Follows(Malloc(r, c.t, c.size), A(p, 0))
  BY <1>5 DEF Malloc, Follows, isDataPost, isWait
<1>11. \A p : mayEnd(A(p, 4))
  BY <1>5 DEF mayEnd, isDataPost
<1>12. CASE c.register_mem
  <2>1. ASSUME NEW k \in 2 .. 1 + 5 * others
        PROVE  /\ StepFits(r, c, stepAt(r, c, k))
               /\ k = 1 + 5 * others => mayEnd(stepAt(r, c, k))
               /\ k # 1 + 5 * others => Follows(stepAt(r, c, k), stepAt(r, c, k + 1))
    <3> DEFINE x == (k - 2) \div 5
               b == (k - 2) % 5
               p == Peers(r)[x + 1]
    <3>1. k - 2 \in 0 .. 5 * others - 1
      BY <1>0
    <3>2. x \in 0 .. others - 1 /\ b \in 0 .. 4 /\ 5 * x + b = k - 2 /\ x + 1 \in 1 .. others
      BY <1>0, <3>1, FiveSplit
    <3>3. stepAt(r, c, k) = A(p, b)
      BY <1>4 DEF A
    <3> HIDE DEF x, b
    <3>4. StepFits(r, c, stepAt(r, c, k))
      BY <1>0, <1>7, <3>2, <3>3
    <3>5. CASE b # 4
      <4>1. (k + 1) - 2 = 5 * x + (b + 1) /\ b + 1 \in 0 .. 4 /\ b \in 0 .. 3 /\ x \in Nat /\ k + 1 # 1
        BY <1>0, <3>1, <3>2, <3>5
      <4>2. ((k + 1) - 2) \div 5 = x /\ ((k + 1) - 2) % 5 = b + 1
        BY <4>1, FiveAt
      <4>3. stepAt(r, c, k + 1) = A(p, b + 1)
        BY <1>4, <4>1, <4>2 DEF A
      <4>4. k # 1 + 5 * others
        BY <1>0, <3>2, <3>5
      <4> QED BY <1>8, <3>3, <3>4, <4>1, <4>3, <4>4
    <3>6. CASE b = 4
      <4>1. (k + 1) - 2 = 5 * (x + 1) + 0 /\ x + 1 \in Nat /\ 0 \in 0 .. 4 /\ k + 1 # 1
        BY <1>0, <3>1, <3>2, <3>6
      <4>2. ((k + 1) - 2) \div 5 = x + 1 /\ ((k + 1) - 2) % 5 = 0
        BY <4>1, FiveAt
      <4>3. stepAt(r, c, k + 1) = A(Peers(r)[(x + 1) + 1], 0)
        BY <1>4, <4>1, <4>2 DEF A
      <4> QED BY <1>9, <1>11, <3>3, <3>4, <3>6, <4>3
    <3> QED BY <3>5, <3>6
  <2>2. 1 # 1 + 5 * others => Follows(stepAt(r, c, 1), stepAt(r, c, 2))
    <3>1. stepAt(r, c, 2) = A(Peers(r)[0 + 1], 0)
      <4>1. 2 - 2 = 5 * 0 + 0 /\ 2 # 1
        OBVIOUS
      <4>2. (2 - 2) \div 5 = 0 /\ (2 - 2) % 5 = 0
        BY <4>1, FiveAt
      <4> QED BY <1>4, <4>1, <4>2 DEF A
    <3> QED BY <1>3, <1>10, <3>1
  <2>3. \A k \in 1 .. 1 + 5 * others : (k = 1 /\ k + 1 = 2) \/ (k # 1 /\ k \in 2 .. 1 + 5 * others)
    BY <1>0
  <2>4. 1 \in 1 .. 1 + 5 * others
    BY <1>0
  <2> QED BY <1>1, <1>3, <1>6, <1>12, <2>1, <2>2, <2>3, <2>4 DEF Sound
<1>13. CASE ~ c.register_mem
  <2>1. \A k \in 1 .. 1 : k = 1
    OBVIOUS
  <2>2. 1 \in 1 .. 1
    OBVIOUS
  <2> QED BY <1>1, <1>3, <1>6, <1>13, <2>1, <2>2 DEF Sound
<1> QED BY <1>2, <1>12, <1>13

\* The steps of an allocation at another host.
LEMMA SoundRemote ==
  ASSUME NEW r \in Ranks, NEW c, isCall(r, c), c.op = "alloc", c.at # r
  PROVE  Sound(r, c)
<1>0. c.at \in Ranks /\ c.size \in Nat
  BY DEF isCall
<1>1. stepCount(r, c) = 5 /\ \A k : stepAt(r, c, k) = remote(c.at, c.t, c.size, k)
  BY DEF stepCount, stepAt
<1>2. /\ remote(c.at, c.t, c.size, 1) = PostRecv(c.at) /\ remote(c.at, c.t, c.size, 2) = Copy(c.at, "rkey")
      /\ remote(c.at, c.t, c.size, 3) = PostRecv(c.at) /\ remote(c.at, c.t, c.size, 4) = Copy(c.at, "vaddr")
      /\ remote(c.at, c.t, c.size, 5) = Malloc(c.at, c.t, c.size)
  BY DEF remote
<1>3. ASSUME NEW k \in 1 .. 5
      PROVE  /\ StepFits(r, c, stepAt(r, c, k))
             /\ k = 1 => mayStart(stepAt(r, c, k))
             /\ k = 5 => mayEnd(stepAt(r, c, k))
             /\ k # 5 => Follows(stepAt(r, c, k), stepAt(r, c, k + 1))
  <2>1. (k = 1 /\ k + 1 = 2) \/ (k = 2 /\ k + 1 = 3) \/ (k = 3 /\ k + 1 = 4) \/ (k = 4 /\ k + 1 = 5) \/ k = 5
    OBVIOUS
  <2>2. StepFits(r, c, stepAt(r, c, k))
    BY <1>0, <1>1, <1>2, <2>1 DEF StepFits, PostRecv, Copy, Malloc, driverSteps
  <2>3. k = 1 => mayStart(stepAt(r, c, k))
    BY <1>1, <1>2 DEF PostRecv, mayStart
  <2>4. k = 5 => mayEnd(stepAt(r, c, k))
    BY <1>1, <1>2 DEF Malloc, mayEnd, isDataPost
  <2>5. k # 5 => Follows(stepAt(r, c, k), stepAt(r, c, k + 1))
    BY <1>1, <1>2, <2>1 DEF PostRecv, Copy, Malloc, Follows, isDataPost, isWait
  <2> QED BY <2>2, <2>3, <2>4, <2>5
<1>4. 5 \in 1 .. 5
  OBVIOUS
<1> QED BY <1>1, <1>2, <1>3, <1>4 DEF Sound

\* The steps of a send or a receive.
LEMMA SoundMessage ==
  ASSUME NEW r \in Ranks, NEW c, isCall(r, c), c.op \in {"send", "recv"}
  PROVE  Sound(r, c)
<1>0. c.size \in Nat /\ c.at \in Ranks /\ c.at # r
  BY DEF isCall
<1>1. stepCount(r, c) = c.size + 1
  BY DEF stepCount
<1>2. ASSUME NEW k \in 1 .. c.size + 1
      PROVE  /\ StepFits(r, c, stepAt(r, c, k))
             /\ k = 1 => mayStart(stepAt(r, c, k))
             /\ k = c.size + 1 => mayEnd(stepAt(r, c, k))
             /\ k # c.size + 1 => Follows(stepAt(r, c, k), stepAt(r, c, k + 1))
  <2>1. CASE c.op = "send"
    <3>1. \A j : stepAt(r, c, j) = IF j <= c.size THEN Wqe(c.at, c.t, 0, "data") ELSE Recv(c.at, c.t, 0, "sync")
      BY <2>1 DEF stepAt
    <3>2. k = c.size + 1 => ~ (k <= c.size)
      BY <1>0
    <3> QED BY <1>0, <2>1, <3>1, <3>2
            DEF Wqe, Recv, StepFits, mayStart, mayEnd, Follows, isDataPost, isWait, driverSteps
  <2>2. CASE c.op = "recv"
    <3>1. \A j : stepAt(r, c, j) = IF j <= c.size THEN Recv(c.at, c.t, j - 1, "data") ELSE Wqe(c.at, c.t, 0, "sync")
      BY <2>2 DEF stepAt
    <3>2. k = c.size + 1 => ~ (k <= c.size)
      BY <1>0
    <3>3. k - 1 \in Nat
      BY <1>0
    <3> QED BY <1>0, <2>2, <3>1, <3>2, <3>3
            DEF Wqe, Recv, StepFits, mayStart, mayEnd, Follows, isDataPost, isWait, driverSteps
  <2> QED BY <2>1, <2>2
<1> QED BY <1>1, <1>2 DEF Sound

\* The steps of the release.
LEMMA SoundFree ==
  ASSUME NEW r \in Ranks, NEW c, isCall(r, c), c.op = "free"
  PROVE  Sound(r, c)
<1>1. others \in Nat /\ \A i \in 1 .. others : Peers(r)[i] \in Ranks /\ Peers(r)[i] # r
  BY PeersFacts
<1>2. stepCount(r, c) = others /\ \A k : stepAt(r, c, k) = FreeQp(Peers(r)[k])
  BY DEF stepCount, stepAt
<1>3. \A k \in 1 .. others : StepFits(r, c, FreeQp(Peers(r)[k]))
  BY <1>1 DEF FreeQp, StepFits, driverSteps
<1>4. \A p, v : mayStart(FreeQp(p)) /\ mayEnd(FreeQp(p)) /\ Follows(FreeQp(p), FreeQp(v))
  BY DEF FreeQp, mayStart, mayEnd, Follows, isDataPost, isWait
<1> QED BY <1>2, <1>3, <1>4 DEF Sound

\* The two meetings of a barrier, in any order that does not part one.
LEMMA Met ==
  ASSUME NEW r \in Ranks, NEW p \in Ranks, p # r, NEW c, c.op = "barrier", NEW b \in 0 .. 3
  PROVE  /\ StepFits(r, c, met(p, c.t, b)) /\ mayStart(met(p, c.t, b))
         /\ b # 0 => mayEnd(met(p, c.t, b))
         /\ \A v : \A d \in 0 .. 3 : b # 0 \/ (d = 1 /\ v = p) => Follows(met(p, c.t, b), met(v, c.t, d))
<1> DEFINE M(v, d) == met(v, c.t, d)
<1>1. ASSUME NEW v, NEW d \in 0 .. 3
      PROVE  /\ M(v, d).q = v /\ M(v, d).name = c.t /\ M(v, d).i = 0
             /\ M(v, d).do = IF d \in {0, 3} THEN "wqe" ELSE "recv"
             /\ M(v, d).kind = IF d \in {0, 2} THEN "data" ELSE "sync"
  <2>1. d = 0 \/ d = 1 \/ d = 2 \/ d = 3
    OBVIOUS
  <2>2. /\ M(v, 0) = Wqe(v, c.t, 0, "data") /\ M(v, 1) = Recv(v, c.t, 0, "sync")
        /\ M(v, 2) = Recv(v, c.t, 0, "data") /\ M(v, 3) = Wqe(v, c.t, 0, "sync")
    BY DEF met
  <2> HIDE DEF M
  <2> QED BY <2>1, <2>2 DEF Wqe, Recv
<1> HIDE DEF M
<1>2. StepFits(r, c, M(p, b)) /\ mayStart(M(p, b)) /\ (b # 0 => mayEnd(M(p, b)))
  BY <1>1 DEF StepFits, mayStart, mayEnd, isDataPost, driverSteps
<1>3. ASSUME NEW v, NEW d \in 0 .. 3, b # 0 \/ (d = 1 /\ v = p)
      PROVE  Follows(M(p, b), M(v, d))
  BY <1>1, <1>3 DEF Follows, isDataPost, isWait
<1> QED BY <1>2, <1>3 DEF M

\* The steps of a barrier.
LEMMA SoundBarrier ==
  ASSUME NEW r \in Ranks, NEW c, isCall(r, c), c.op = "barrier"
  PROVE  Sound(r, c)
<1>0. others \in Nat /\ (\A i \in 1 .. others : Peers(r)[i] \in Ranks /\ Peers(r)[i] # r) /\ 0 \in Ranks
  <2>1. 0 \in Ranks
    BY RdmaAssumption DEF Ranks
  <2> QED BY <2>1, PeersFacts
<1>1. CASE r # 0
  <2>1. stepCount(r, c) = 4 /\ \A k : stepAt(r, c, k) = met(0, c.t, k - 1)
    BY <1>1 DEF stepCount, stepAt
  <2>2. ASSUME NEW k \in 1 .. 4
        PROVE  /\ StepFits(r, c, stepAt(r, c, k)) /\ mayStart(stepAt(r, c, k))
               /\ k = 4 => mayEnd(stepAt(r, c, k))
               /\ k # 4 => Follows(stepAt(r, c, k), stepAt(r, c, k + 1))
    <3>1. k - 1 \in 0 .. 3 /\ (k - 1 = 0 <=> k = 1) /\ (k # 4 => (k + 1) - 1 \in 0 .. 3)
          /\ (k = 1 => (k + 1) - 1 = 1)
      OBVIOUS
    <3> QED BY <1>0, <1>1, <2>1, <3>1, Met
  <2> QED BY <2>1, <2>2 DEF Sound
<1>2. CASE r = 0
  <2>1. stepCount(r, c) = 4 * others
    BY <1>2 DEF stepCount
  \* The step is the b-th with the x-th peer, and how it goes on.
  <2> DEFINE p(x) == Peers(0)[x + 1]
             S(k) == stepAt(r, c, k)
  <2>2. ASSUME NEW k \in 1 .. 4 * others
        PROVE  \E x \in 0 .. others - 1 : \E b \in 0 .. 3 :
                 /\ S(k) = met(p(x), c.t, b)
                 /\ b = 0 => k # 4 * others /\ S(k + 1) = met(p(x), c.t, 1)
    <3>1. CASE k <= 2 * others
      <4> DEFINE x == (k - 1) \div 2
                 b == (k - 1) % 2
      <4>1. k - 1 \in 0 .. 2 * others - 1
        BY <1>0, <3>1
      <4>2. x \in 0 .. others - 1 /\ b \in 0 .. 1
        BY <1>0, <4>1, TwoSplit
      <4>3. S(k) = met(p(x), c.t, 2 + b)
        BY <1>2, <3>1 DEF stepAt
      <4> HIDE DEF x, b, S, p
      <4>4. 2 + b \in 0 .. 3 /\ 2 + b # 0
        BY <4>2
      <4> QED BY <4>2, <4>3, <4>4
    <3>2. CASE ~ (k <= 2 * others)
      <4> DEFINE j == k - 1 - 2 * others
                 x == j \div 2
                 b == j % 2
      <4>1. j \in 0 .. 2 * others - 1
        BY <1>0, <3>2
      <4>2. x \in 0 .. others - 1 /\ b \in 0 .. 1 /\ 2 * x + b = j
        BY <1>0, <4>1, TwoSplit
      <4>3. S(k) = met(p(x), c.t, b)
        BY <1>2, <3>2 DEF stepAt
      <4>4. CASE b = 0
        <5>1. /\ ~ (k + 1 <= 2 * others) /\ (k + 1) - 1 - 2 * others = 2 * x + 1
              /\ x \in Nat /\ 1 \in 0 .. 1 /\ k # 4 * others
          <6> HIDE DEF x, b
          <6>1. k = 2 * others + 1 + 2 * x
            BY <1>0, <4>2, <4>4
          <6> QED BY <1>0, <3>2, <4>2, <6>1
        <5>2. ((k + 1) - 1 - 2 * others) \div 2 = x /\ ((k + 1) - 1 - 2 * others) % 2 = 1
          <6> HIDE DEF x
          <6> QED BY <5>1, TwoAt
        <5>3. S(k + 1) = met(Peers(0)[((k + 1) - 1 - 2 * others) \div 2 + 1], c.t, ((k + 1) - 1 - 2 * others) % 2)
          BY <1>2, <5>1 DEF stepAt
        <5>4. S(k + 1) = met(p(x), c.t, 1)
          BY <5>2, <5>3
        <5> HIDE DEF x, b, S, p
        <5>5. b \in 0 .. 3
          BY <4>2
        <5> QED BY <4>2, <4>3, <4>4, <5>1, <5>4, <5>5
      <4>5. CASE b # 0
        <5> HIDE DEF x, b, S, p
        <5>1. b \in 0 .. 3
          BY <4>2
        <5> QED BY <4>2, <4>3, <4>5, <5>1
      <4> QED BY <4>4, <4>5
    <3> QED BY <3>1, <3>2
  <2> HIDE DEF S
  <2>3. ASSUME NEW k \in 1 .. 4 * others
        PROVE  /\ StepFits(r, c, S(k)) /\ mayStart(S(k))
               /\ k = 4 * others => mayEnd(S(k))
               /\ k # 4 * others => Follows(S(k), S(k + 1))
    <3>1. PICK x \in 0 .. others - 1, b \in 0 .. 3 :
                 /\ S(k) = met(p(x), c.t, b)
                 /\ b = 0 => k # 4 * others /\ S(k + 1) = met(p(x), c.t, 1)
      BY <2>2
    <3>2. x + 1 \in 1 .. others
      BY <1>0
    <3>3. p(x) \in Ranks /\ p(x) # r
      BY <1>0, <1>2, <3>2
    <3> HIDE DEF p
    <3>4. /\ StepFits(r, c, S(k)) /\ mayStart(S(k)) /\ (b # 0 => mayEnd(S(k)))
          /\ \A v : \A d \in 0 .. 3 : b # 0 \/ (d = 1 /\ v = p(x)) => Follows(S(k), met(v, c.t, d))
      BY <3>1, <3>3, Met
    <3>5. CASE b = 0
      <4>1. 1 \in 0 .. 3
        OBVIOUS
      <4> QED BY <3>1, <3>4, <3>5, <4>1
    <3>6. CASE b # 0 /\ k # 4 * others
      <4>1. k + 1 \in 1 .. 4 * others
        BY <1>0, <3>6
      <4>2. PICK y \in 0 .. others - 1, d \in 0 .. 3 : S(k + 1) = met(p(y), c.t, d)
        BY <2>2, <4>1
      <4> QED BY <3>4, <3>6, <4>2
    <3>7. CASE b # 0 /\ k = 4 * others
      BY <3>4, <3>7
    <3> QED BY <3>5, <3>6, <3>7
  <2> QED BY <2>1, <2>3 DEF Sound, S
<1> QED BY <1>1, <1>2

\* The steps of every call are of the call's kind and follow one another as
\* they should.
LEMMA SoundCall ==
  ASSUME NEW r \in Ranks, NEW c, isCall(r, c)
  PROVE  Sound(r, c)
BY SoundLocal, SoundRemote, SoundMessage, SoundFree, SoundBarrier DEF isCall

-----------------------------------------------------------------------------
(* Counting the posts, or the takes, of an exchange.                       *)

\* One part more.
LEMMA CountStep ==
  ASSUME NEW s, NEW post, NEW n \in Nat
  PROVE  /\ count(s, post, n) \in Nat
         /\ count(s, post, n + 1) = count(s, post, n) + (IF s[n + 1].post = post THEN 1 ELSE 0)
<1> DEFINE A == {j \in 1 .. n : s[j].post = post}
           B == {j \in 1 .. n + 1 : s[j].post = post}
<1>1. IsFiniteSet(1 .. n) /\ A \subseteq 1 .. n
  BY FS_Interval
<1>2. IsFiniteSet(A) /\ Cardinality(A) \in Nat
  BY <1>1, FS_Subset, FS_CardinalityType
<1>a. count(s, post, n) = Cardinality(A) /\ count(s, post, n + 1) = Cardinality(B)
  BY DEF count
<1>3. CASE s[n + 1].post = post
  <2>1. B = A \cup {n + 1} /\ n + 1 \notin A
    BY <1>3
  <2> HIDE DEF A, B
  <2>2. Cardinality(B) = Cardinality(A) + 1
    BY <1>2, <2>1, FS_AddElement
  <2> QED BY <1>2, <1>3, <1>a, <2>2 DEF A, B
<1>4. CASE s[n + 1].post # post
  <2>1. B = A
    BY <1>4
  <2> HIDE DEF A, B
  <2>2. Cardinality(A) = Cardinality(A) + 0
    BY <1>2
  <2>3. IsFiniteSet(A) /\ Cardinality(A) \in Nat
    BY <1>2
  <2> QED BY <1>4, <1>a, <2>1, <2>2, <2>3 DEF A, B
<1> QED BY <1>3, <1>4

\* None before the first.
LEMMA CountZero ==
  ASSUME NEW s, NEW post
  PROVE  count(s, post, 0) = 0
<1>1. {j \in 1 .. 0 : s[j].post = post} = {}
  OBVIOUS
<1> QED BY <1>1, FS_EmptySet DEF count

\* The count only grows.
LEMMA CountMonotone ==
  ASSUME NEW s, NEW post, NEW m \in Nat, NEW n \in Nat, m <= n
  PROVE  count(s, post, m) <= count(s, post, n)
<1> DEFINE A == {j \in 1 .. m : s[j].post = post}
           B == {j \in 1 .. n : s[j].post = post}
<1>1. IsFiniteSet(1 .. n) /\ B \subseteq 1 .. n /\ A \subseteq B
  BY FS_Interval
<1>2. IsFiniteSet(B)
  BY <1>1, FS_Subset
<1>3. Cardinality(A) <= Cardinality(B)
  <2> HIDE DEF A, B
  <2> QED BY <1>1, <1>2, FS_Subset
<1> QED BY <1>3 DEF count

\* A part that is counted among the first n is one of them.
LEMMA CountBelow ==
  ASSUME NEW s, NEW post, NEW p \in Nat \ {0}, NEW n \in Nat,
         s[p].post = post, count(s, post, p) <= count(s, post, n)
  PROVE  p <= n
<1> SUFFICES ASSUME n < p PROVE FALSE
  OBVIOUS
<1>1. p - 1 \in Nat /\ (p - 1) + 1 = p /\ n <= p - 1
  OBVIOUS
<1>2. count(s, post, n) <= count(s, post, p - 1)
  BY <1>1, CountMonotone
<1>3. /\ count(s, post, p - 1) \in Nat
      /\ count(s, post, (p - 1) + 1) = count(s, post, p - 1) + (IF s[(p - 1) + 1].post = post THEN 1 ELSE 0)
  BY <1>1, CountStep
<1>4. count(s, post, p) = count(s, post, p - 1) + 1
  BY <1>1, <1>3
<1>5. count(s, post, n) \in Nat
  BY CountStep
<1> QED BY <1>2, <1>3, <1>4, <1>5

\* A post, or a take, is determined by its number.
LEMMA CountUnique ==
  ASSUME NEW s, NEW post, NEW p \in Nat \ {0}, NEW j \in Nat \ {0},
         s[p].post = post, s[j].post = post, count(s, post, p) = count(s, post, j)
  PROVE  p = j
<1>1. count(s, post, p) \in Nat /\ count(s, post, j) \in Nat
  BY CountStep
<1>2. p <= j
  BY <1>1, CountBelow
<1>3. j <= p
  BY <1>1, CountBelow
<1> QED BY <1>2, <1>3

-----------------------------------------------------------------------------
(* Two exchanges that match.                                               *)

isDual(s, t) == DOMAIN s = DOMAIN t /\ isSeq(s) /\ isSeq(t) /\ s = Dual(t) /\ t = Dual(s)

\* The fields of a part.
LEMMA PartFields ==
  ASSUME NEW a, NEW b, NEW c, NEW u, u = [post |-> a, kind |-> b, of |-> c]
  PROVE  u.post = a /\ u.kind = b /\ u.of = c
OBVIOUS

\* The parts of two exchanges that match.
LEMMA DualParts ==
  ASSUME NEW s, NEW t, isDual(s, t)
  PROVE  /\ Len(s) \in Nat /\ Len(t) = Len(s)
         /\ \A j \in 1 .. Len(s) :
              /\ s[j].post \in BOOLEAN /\ t[j].post = ~ s[j].post
              /\ s[j].kind = t[j].kind /\ s[j].of = t[j].of
<1>1. Len(s) \in Nat /\ DOMAIN s = 1 .. Len(s) /\ Len(t) \in Nat /\ DOMAIN t = 1 .. Len(t)
  BY DEF isDual, isSeq
<1>2. Len(t) = Len(s)
  BY <1>1 DEF isDual
<1>3. ASSUME NEW j \in 1 .. Len(s)
      PROVE  s[j] = [post |-> ~ t[j].post, kind |-> t[j].kind, of |-> t[j].of]
  BY <1>1, <1>2 DEF isDual, Dual
<1>4. ASSUME NEW j \in 1 .. Len(s)
      PROVE  t[j] = [post |-> ~ s[j].post, kind |-> s[j].kind, of |-> s[j].of]
  BY <1>1, <1>2 DEF isDual, Dual
<1>5. ASSUME NEW j \in 1 .. Len(s)
      PROVE  /\ s[j].post = ~ t[j].post /\ t[j].post = ~ s[j].post
             /\ s[j].kind = t[j].kind /\ s[j].of = t[j].of
  <2> DEFINE a == ~ t[j].post
             b == ~ s[j].post
  <2>0. s[j] = [post |-> a, kind |-> t[j].kind, of |-> t[j].of]
    BY <1>3, Zenon
  <2>1. t[j] = [post |-> b, kind |-> s[j].kind, of |-> s[j].of]
    BY <1>4, Zenon
  <2>2. (a = ~ t[j].post) /\ (b = ~ s[j].post)
    OBVIOUS
  <2> HIDE DEF a, b
  <2>3. s[j].post = a /\ s[j].kind = t[j].kind /\ s[j].of = t[j].of
    BY <2>0, PartFields
  <2>4. t[j].post = b
    BY <2>1, PartFields
  <2> QED BY <2>2, <2>3, <2>4, Zenon
<1> QED BY <1>1, <1>2, <1>5

\* What one posts the other takes.
LEMMA DualCount ==
  ASSUME NEW s, NEW t, isDual(s, t), NEW post \in BOOLEAN, NEW n \in 0 .. Len(s)
  PROVE  count(t, post, n) = count(s, ~ post, n)
<1>1. Len(s) \in Nat
  BY DualParts
<1>2. \A j \in 1 .. n : t[j].post = post <=> s[j].post = ~ post
  <2> SUFFICES ASSUME NEW j \in 1 .. n PROVE t[j].post = post <=> s[j].post = ~ post
    OBVIOUS
  <2>1. j \in 1 .. Len(s)
    BY <1>1
  <2>2. s[j].post \in BOOLEAN /\ t[j].post = ~ s[j].post
    BY <2>1, DualParts
  <2> QED BY <2>2
<1>3. {j \in 1 .. n : t[j].post = post} = {j \in 1 .. n : s[j].post = ~ post}
  BY <1>2
<1> QED BY <1>3 DEF count

-----------------------------------------------------------------------------
(* What was submitted or taken so far.                                     *)

\* A history with one entry more.
LEMMA AppendFacts ==
  ASSUME NEW h, isSeq(h), NEW e
  PROVE  /\ isSeq(Append(h, e)) /\ Len(h) \in Nat /\ Len(Append(h, e)) = Len(h) + 1
         /\ \A i \in 1 .. Len(h) : Append(h, e)[i] = h[i]
         /\ Append(h, e)[Len(h) + 1] = e
<1> DEFINE S == {h[i] : i \in DOMAIN h} \cup {e}
           g == Append(h, e)
<1>1. h \in Seq(S) /\ e \in S
  <2>1. h \in Seq({h[i] : i \in DOMAIN h})
    BY DEF isSeq
  <2> QED BY <2>1
<1> HIDE DEF S
<1>2. /\ g \in Seq(S) /\ Len(h) \in Nat /\ Len(g) = Len(h) + 1
      /\ \A i \in 1 .. Len(h) : g[i] = h[i]
      /\ g[Len(h) + 1] = e
  BY <1>1
<1> HIDE DEF g
<1>3. isSeq(g)
  BY <1>2, SeqIsSeq
<1> QED BY <1>2, <1>3 DEF g

\* A message that is meant by the next part.
LEMMA MeantMore ==
  ASSUME NEW s, NEW post, NEW p \in Nat, NEW h, isSeq(h), NEW kind, NEW v,
         Meant(s, post, p, h), s[p + 1].post = post, s[p + 1].kind = kind
  PROVE  Meant(s, post, p + 1, Append(h, <<kind, v>>))
<1> DEFINE g == Append(h, <<kind, v>>)
<1>1. /\ Len(h) \in Nat /\ Len(g) = Len(h) + 1
      /\ \A i \in 1 .. Len(h) : g[i] = h[i]
      /\ g[Len(h) + 1] = <<kind, v>>
  BY AppendFacts
<1> HIDE DEF g
<1>2. count(s, post, p + 1) = count(s, post, p) + 1
  BY CountStep
<1>3. Len(g) = count(s, post, p + 1)
  BY <1>1, <1>2 DEF Meant
<1>4. ASSUME NEW i \in 1 .. Len(g)
      PROVE  \E j \in 1 .. p + 1 : s[j].post = post /\ count(s, post, j) = i /\ g[i][1] = s[j].kind
  <2>1. CASE i = Len(h) + 1
    <3>1. p + 1 \in 1 .. p + 1 /\ g[i][1] = kind
      BY <1>1, <2>1
    <3>2. count(s, post, p + 1) = i
      BY <1>1, <1>3, <2>1
    <3> QED BY <3>1, <3>2
  <2>2. CASE i # Len(h) + 1
    <3>1. i \in 1 .. Len(h)
      BY <1>1, <2>2
    <3>2. PICK j \in 1 .. p : s[j].post = post /\ count(s, post, j) = i /\ h[i][1] = s[j].kind
      BY <3>1 DEF Meant
    <3>3. j \in 1 .. p + 1
      OBVIOUS
    <3> QED BY <1>1, <3>1, <3>2, <3>3
  <2> QED BY <2>1, <2>2
<1> QED BY <1>3, <1>4 DEF Meant, g

\* No message, where the next part is none of this kind.
LEMMA MeantSame ==
  ASSUME NEW s, NEW post, NEW p \in Nat, NEW h,
         Meant(s, post, p, h), s[p + 1].post # post
  PROVE  Meant(s, post, p + 1, h)
<1>1. count(s, post, p + 1) = count(s, post, p)
  BY CountStep
<1>2. 1 .. p \subseteq 1 .. p + 1
  OBVIOUS
<1> QED BY <1>1, <1>2 DEF Meant

\* What is taken next was submitted as what it is taken for.
isTake(s, p, i) == s[p].post = FALSE /\ i = count(s, FALSE, p)
Submits(t, p, h) == Meant(t, TRUE, p, h)

\* A message that one has submitted and the other is about to take: it is
\* the one that is meant.
LEMMA MeantMatch ==
  ASSUME NEW s, NEW t, isDual(s, t), NEW p \in 1 .. Len(s), NEW p2 \in Nat, NEW h,
         NEW i \in Nat, isTake(s, p, i), Submits(t, p2, h), i <= Len(h)
  PROVE  p <= p2 /\ h[i][1] = s[p].kind
<1>0. s[p].post = FALSE /\ i = count(s, FALSE, p) /\ Meant(t, TRUE, p2, h)
  BY DEF isTake, Submits
<1>1. Len(s) \in Nat /\ p \in Nat \ {0} /\ p \in 0 .. Len(s) /\ p - 1 \in Nat /\ (p - 1) + 1 = p
  <2>1. Len(s) \in Nat
    BY DualParts
  <2> QED BY <2>1
<1>2. t[p].post = TRUE /\ t[p].kind = s[p].kind
  BY <1>0, DualParts
<1>3. count(t, TRUE, p) = count(s, FALSE, p)
  BY <1>1, DualCount
<1>4. p <= p2
  <2>1. count(t, TRUE, p) <= count(t, TRUE, p2)
    BY <1>0, <1>3 DEF Meant
  <2> QED BY <1>0, <1>1, <1>2, <2>1, CountBelow
<1>5. i \in 1 .. Len(h)
  <2> DEFINE k == p - 1
  <2>1. k \in Nat /\ k + 1 = p
    BY <1>1
  <2> HIDE DEF k
  <2>2. count(s, FALSE, k) \in Nat /\ i = count(s, FALSE, k) + 1
    <3>1. count(s, FALSE, k) \in Nat
          /\ count(s, FALSE, k + 1) = count(s, FALSE, k) + (IF s[k + 1].post = FALSE THEN 1 ELSE 0)
      BY <2>1, CountStep
    <3> QED BY <1>0, <2>1, <3>1
  <2>3. Len(h) \in Nat /\ i <= Len(h)
    <3>1. Len(h) = count(t, TRUE, p2)
      BY <1>0 DEF Meant
    <3>2. count(t, TRUE, p2) \in Nat
      BY CountStep
    <3> QED BY <3>1, <3>2
  <2> DEFINE d == count(s, FALSE, k)
  <2>4. d \in Nat /\ i = d + 1
    BY <2>2
  <2> HIDE DEF d
  <2> QED BY <2>3, <2>4
<1>6. PICK j \in 1 .. p2 : t[j].post = TRUE /\ count(t, TRUE, j) = i /\ h[i][1] = t[j].kind
  BY <1>0, <1>5 DEF Meant
<1>7. j = p
  <2>1. j \in Nat \ {0}
    OBVIOUS
  <2> QED BY <1>0, <1>1, <1>2, <1>3, <1>6, <2>1, CountUnique
<1> QED BY <1>2, <1>4, <1>6, <1>7

-----------------------------------------------------------------------------
(* How far a host is in its exchange with another.                         *)

\* The calls of a host are a sequence of calls.
LEMMA CallsFacts ==
  ASSUME NEW calls \in Programs, NEW r \in Ranks
  PROVE  /\ isSeq(calls[r]) /\ Len(calls[r]) \in Nat /\ DOMAIN calls[r] = 1 .. Len(calls[r])
         /\ \A i \in 1 .. Len(calls[r]) : isCall(r, calls[r][i])
<1>1. isSeq(calls[r]) /\ \A i \in DOMAIN calls[r] : isCall(r, calls[r][i])
  BY ProgramsAssumption DEF isSeq
<1>2. Len(calls[r]) \in Nat /\ DOMAIN calls[r] = 1 .. Len(calls[r])
  BY <1>1 DEF isSeq
<1> QED BY <1>1, <1>2

\* A call has a number of steps.
LEMMA StepCountNat ==
  ASSUME NEW r \in Ranks, NEW c, isCall(r, c)
  PROVE  stepCount(r, c) \in Nat
<1>1. others \in Nat
  BY PeersFacts
<1> QED BY <1>1 DEF isCall, stepCount

\* The exchange of a program is that of its calls, one after another.
LEMMA ScriptFacts ==
  ASSUME NEW calls \in Programs, NEW r \in Ranks, NEW q \in Ranks, q # r
  PROVE  LET ex == exchanges(calls, r, q)
             at == starts(ex)
             N == Len(calls[r])
             s == Script(calls, r, q)
         IN  /\ at \in [1 .. N + 1 -> Nat] /\ at[1] = 0
             /\ \A i \in 1 .. N : at[i + 1] = at[i] + Len(Exchange(r, q, calls[r][i]))
             /\ isSeq(s) /\ Len(s) = at[N + 1]
             /\ \A i \in 1 .. N : \A k \in 1 .. Len(Exchange(r, q, calls[r][i])) :
                  at[i] + k \in 1 .. Len(s) /\ s[at[i] + k] = Exchange(r, q, calls[r][i])[k]
<1> DEFINE ex == exchanges(calls, r, q)
           N == Len(calls[r])
           E(i) == Exchange(r, q, calls[r][i])
           S == UNION {{E(i)[k] : k \in DOMAIN E(i)} : i \in 1 .. N}
<1>1. N \in Nat /\ DOMAIN calls[r] = 1 .. N
  BY CallsFacts
<1>2. \A i \in 1 .. N : isSeq(E(i))
  BY CallsFacts, TrackCall DEF Tracks
<1>3. ex = [i \in 1 .. N |-> E(i)]
  BY <1>1 DEF exchanges
<1> HIDE DEF ex, E
<1>4. \A i \in 1 .. N : E(i) \in Seq(S)
  <2> SUFFICES ASSUME NEW i \in 1 .. N PROVE E(i) \in Seq(S)
    OBVIOUS
  <2> DEFINE T == {E(i)[k] : k \in DOMAIN E(i)}
  <2>1. E(i) \in Seq(T)
    BY <1>2 DEF isSeq
  <2>2. T \subseteq S
    OBVIOUS
  <2> HIDE DEF T, S
  <2> QED BY <2>1, <2>2
<1> HIDE DEF S
<1>5. ex \in Seq(Seq(S)) /\ Len(ex) = N
  BY <1>1, <1>3, <1>4
<1> DEFINE at == starts(ex)
           s == FlattenSeq(ex)
<1>6. /\ at \in [1 .. Len(ex) + 1 -> Nat]
      /\ at[1] = 0
      /\ \A i \in 1 .. Len(ex) : at[i + 1] = at[i] + Len(ex[i])
      /\ s \in Seq(S)
      /\ Len(s) = at[Len(ex) + 1]
      /\ \A i \in 1 .. Len(ex) : \A k \in 1 .. Len(ex[i]) :
           at[i] + k \in 1 .. Len(s) /\ s[at[i] + k] = ex[i][k]
  <2>1. ex \in Seq(Seq(S))
    BY <1>5
  <2> QED BY ONLY <2>1, Joined
<1>7. s = Script(calls, r, q)
  BY <1>1, <1>3 DEF Script, E
<1> HIDE DEF at, s
<1>8. \A i \in 1 .. N : ex[i] = E(i)
  BY <1>3
<1>9. isSeq(s)
  BY <1>6, SeqIsSeq
<1>a. at \in [1 .. N + 1 -> Nat] /\ at[1] = 0 /\ Len(s) = at[N + 1]
  BY <1>5, <1>6
<1>b. \A i \in 1 .. N : at[i + 1] = at[i] + Len(E(i))
  <2> SUFFICES ASSUME NEW i \in 1 .. N PROVE at[i + 1] = at[i] + Len(E(i))
    OBVIOUS
  <2>1. i \in 1 .. Len(ex)
    BY <1>5
  <2> QED BY <1>6, <1>8, <2>1
<1>c. \A i \in 1 .. N : \A k \in 1 .. Len(E(i)) : at[i] + k \in 1 .. Len(s) /\ s[at[i] + k] = E(i)[k]
  <2> SUFFICES ASSUME NEW i \in 1 .. N, NEW k \in 1 .. Len(E(i))
               PROVE  at[i] + k \in 1 .. Len(s) /\ s[at[i] + k] = E(i)[k]
    OBVIOUS
  <2>1. i \in 1 .. Len(ex) /\ k \in 1 .. Len(ex[i])
    BY <1>5, <1>8
  <2> QED BY <1>6, <1>8, <2>1
<1>10. /\ at \in [1 .. N + 1 -> Nat] /\ at[1] = 0
       /\ \A i \in 1 .. N : at[i + 1] = at[i] + Len(E(i))
       /\ isSeq(s) /\ Len(s) = at[N + 1]
       /\ \A i \in 1 .. N : \A k \in 1 .. Len(E(i)) : at[i] + k \in 1 .. Len(s) /\ s[at[i] + k] = E(i)[k]
  BY <1>9, <1>a, <1>b, <1>c
<1> QED BY <1>7, <1>10 DEF at, E, ex

\* The exchanges of two hosts match.
LEMMA ScriptsDual ==
  ASSUME NEW calls \in Programs, NEW r \in Ranks, NEW q \in Ranks, q # r
  PROVE  isDual(Script(calls, r, q), Script(calls, q, r))
<1> DEFINE s == Script(calls, r, q)
           t == Script(calls, q, r)
<1>1. s = Dual(t) /\ t = Dual(s)
  <2>1. <<r, q>> \in QPs /\ <<q, r>> \in QPs
    BY DEF QPs
  <2>2. Matched(calls)
    BY ProgramsAssumption
  <2> QED BY <2>1, <2>2 DEF Matched
<1>2. isSeq(s) /\ isSeq(t)
  BY ScriptFacts
<1>3. DOMAIN s = DOMAIN t
  <2> HIDE DEF s, t
  <2>1. DOMAIN Dual(t) = DOMAIN t
    BY DEF Dual
  <2> QED BY <1>1, <2>1
<1> QED BY <1>1, <1>2, <1>3 DEF isDual

\* r's position at the end of a call is the one at the start of the next.
LEMMA PosFacts ==
  ASSUME NEW calls \in Programs, NEW r \in Ranks, NEW q \in Ranks, q # r
  PROVE  /\ \A m : posAt(calls, r, q, 0, m) = 0
         /\ \A b \in 1 .. Len(calls[r]) :
              /\ \A m \in 0 .. stepCount(r, calls[r][b]) : posAt(calls, r, q, b, m) \in Nat
              /\ posAt(calls, r, q, b, 0) =
                   IF b = 1 THEN 0 ELSE posAt(calls, r, q, b - 1, stepCount(r, calls[r][b - 1]))
              /\ \A k \in 1 .. stepCount(r, calls[r][b]) :
                   LET s == stepAt(r, calls[r][b], k)
                       p == posAt(calls, r, q, b, k)
                       script == Script(calls, r, q)
                   IN  IF isEvent(s) /\ s.q = q
                         THEN /\ p = posAt(calls, r, q, b, k - 1) + 1 /\ p \in 1 .. Len(script)
                              /\ script[p].post = isPost(s) /\ script[p].kind = kindOf(s)
                         ELSE p = posAt(calls, r, q, b, k - 1)
<1> DEFINE at == starts(exchanges(calls, r, q))
           N == Len(calls[r])
           script == Script(calls, r, q)
           E(i) == Exchange(r, q, calls[r][i])
<1>1. /\ at \in [1 .. N + 1 -> Nat] /\ at[1] = 0
      /\ \A i \in 1 .. N : at[i + 1] = at[i] + Len(E(i))
      /\ \A i \in 1 .. N : \A k \in 1 .. Len(E(i)) :
           at[i] + k \in 1 .. Len(script) /\ script[at[i] + k] = E(i)[k]
  BY ScriptFacts
<1>2. N \in Nat /\ \A i \in 1 .. N : isCall(r, calls[r][i])
  BY CallsFacts
<1>3. \A i \in 1 .. N : Tracks(r, q, calls[r][i])
  BY <1>2, TrackCall
<1> HIDE DEF at, script, N, E
<1>4. \A m : posAt(calls, r, q, 0, m) = 0
  BY DEF posAt
<1>5. \A b \in 1 .. N : \A m : posAt(calls, r, q, b, m) = at[b] + progress(r, q, calls[r][b], m)
  <2>1. \A b \in 1 .. N : b # 0
    OBVIOUS
  <2> QED BY <2>1 DEF posAt, at
<1>6. ASSUME NEW b \in 1 .. N
      PROVE  /\ \A m \in 0 .. stepCount(r, calls[r][b]) : posAt(calls, r, q, b, m) \in Nat
             /\ posAt(calls, r, q, b, 0) =
                  IF b = 1 THEN 0 ELSE posAt(calls, r, q, b - 1, stepCount(r, calls[r][b - 1]))
  <2>0. at[b] \in Nat
    BY <1>1, <1>2
  <2>1. /\ progress(r, q, calls[r][b], 0) = 0
        /\ \A m \in 0 .. stepCount(r, calls[r][b]) : progress(r, q, calls[r][b], m) \in Nat
    BY <1>3 DEF Tracks
  <2>2. posAt(calls, r, q, b, 0) = at[b]
    BY <1>5, <2>0, <2>1
  <2>3. \A m \in 0 .. stepCount(r, calls[r][b]) : posAt(calls, r, q, b, m) \in Nat
    BY <1>5, <2>0, <2>1
  <2>4. CASE b # 1
    <3>1. b - 1 \in 1 .. N /\ (b - 1) + 1 = b
      BY <1>2, <2>4
    <3>2. progress(r, q, calls[r][b - 1], stepCount(r, calls[r][b - 1])) = Len(E(b - 1))
      BY <1>3, <3>1 DEF Tracks, E
    <3>3. at[b] = at[b - 1] + Len(E(b - 1))
      BY <1>1, <3>1
    <3> QED BY <1>5, <2>2, <2>3, <2>4, <3>1, <3>2, <3>3
  <2> QED BY <1>1, <2>2, <2>3, <2>4
<1>7. ASSUME NEW b \in 1 .. N, NEW k \in 1 .. stepCount(r, calls[r][b])
      PROVE  LET s == stepAt(r, calls[r][b], k)
                 p == posAt(calls, r, q, b, k)
             IN  IF isEvent(s) /\ s.q = q
                   THEN /\ p = posAt(calls, r, q, b, k - 1) + 1 /\ p \in 1 .. Len(script)
                        /\ script[p].post = isPost(s) /\ script[p].kind = kindOf(s)
                   ELSE p = posAt(calls, r, q, b, k - 1)
  <2> DEFINE c == calls[r][b]
             s == stepAt(r, c, k)
             x == progress(r, q, c, k)
             w == progress(r, q, c, k - 1)
  <2>0. at[b] \in Nat
    BY <1>1, <1>2
  <2>1. IF isEvent(s) /\ s.q = q
          THEN x = w + 1 /\ x \in 1 .. Len(E(b)) /\ E(b)[x].post = isPost(s) /\ E(b)[x].kind = kindOf(s)
          ELSE x = w
    BY <1>3 DEF Tracks, Advances, E
  <2>2. posAt(calls, r, q, b, k) = at[b] + x /\ posAt(calls, r, q, b, k - 1) = at[b] + w
    BY <1>5
  <2>3. w \in Nat
    <3>1. stepCount(r, c) \in Nat
      BY <1>2, StepCountNat
    <3>2. k - 1 \in 0 .. stepCount(r, c)
      BY <3>1
    <3> QED BY <1>3, <3>2 DEF Tracks
  <2>4. CASE isEvent(s) /\ s.q = q
    <3>1. at[b] + x \in 1 .. Len(script) /\ script[at[b] + x] = E(b)[x]
      BY <1>1, <2>1, <2>4
    <3> HIDE DEF s, x, w
    <3>2. at[b] + x = (at[b] + w) + 1
      BY <2>0, <2>1, <2>3, <2>4
    <3>3. script[at[b] + x].post = isPost(s) /\ script[at[b] + x].kind = kindOf(s)
      BY <2>1, <2>4, <3>1
    <3> QED BY <2>2, <2>4, <3>1, <3>2, <3>3 DEF s
  <2>5. CASE ~ (isEvent(s) /\ s.q = q)
    BY <2>1, <2>2, <2>5
  <2> QED BY <2>4, <2>5
<1> QED BY <1>4, <1>6, <1>7 DEF N, script

-----------------------------------------------------------------------------
(* The steps a call has left.                                              *)

\* The next of the steps that are left, and the rest.
LEMMA RemainingFacts ==
  ASSUME NEW r \in Ranks, NEW c, isCall(r, c), NEW m \in 0 .. stepCount(r, c)
  PROVE  /\ stepCount(r, c) \in Nat
         /\ Len(remaining(r, c, m)) = stepCount(r, c) - m
         /\ remaining(r, c, m) = <<>> <=> m = stepCount(r, c)
         /\ m # stepCount(r, c) =>
              /\ Head(remaining(r, c, m)) = stepAt(r, c, m + 1)
              /\ Tail(remaining(r, c, m)) = remaining(r, c, m + 1)
<1> DEFINE n == stepCount(r, c)
           t == remaining(r, c, m)
           S == {stepAt(r, c, k) : k \in 1 .. n}
<1>1. n \in Nat
  BY StepCountNat
<1> HIDE DEF n
<1>2. t = [k \in 1 .. n - m |-> stepAt(r, c, m + k)] /\ n - m \in Nat /\ m \in Nat
  BY <1>1 DEF remaining, n
<1>3. \A k \in 1 .. n - m : m + k \in 1 .. n
  BY <1>1, <1>2
<1>4. t \in Seq(S) /\ Len(t) = n - m
  <2>1. \A k \in 1 .. n - m : stepAt(r, c, m + k) \in S
    BY <1>3
  <2> HIDE DEF S
  <2> QED BY <1>2, <2>1
<1>5. t = <<>> <=> m = n
  BY <1>1, <1>2, <1>4
<1>6. CASE m # n
  <2>1. n - m # 0 /\ 1 \in 1 .. n - m
    BY <1>1, <1>2, <1>6
  <2>2. Head(t) = stepAt(r, c, m + 1)
    BY <1>2, <1>4, <2>1
  <2>3. Tail(t) = [k \in 1 .. Len(t) - 1 |-> t[k + 1]]
    <3> HIDE DEF t, S
    <3>1. Tail(t) \in Seq(S) /\ Len(Tail(t)) = Len(t) - 1 /\ \A i \in 1 .. Len(Tail(t)) : Tail(t)[i] = t[i + 1]
      BY <1>4, <1>5, <1>6, HeadTailProperties
    <3> DEFINE u == Tail(t)
    <3> HIDE DEF u
    <3>2. u \in Seq(S) /\ Len(u) = Len(t) - 1 /\ \A i \in 1 .. Len(t) - 1 : u[i] = t[i + 1]
      BY <3>1 DEF u
    <3>3. u = [k \in 1 .. Len(u) |-> u[k]]
      BY <3>2
    <3>4. u = [k \in 1 .. Len(t) - 1 |-> t[k + 1]]
      BY <3>2, <3>3
    <3> QED BY <3>4 DEF u
  <2>4. remaining(r, c, m + 1) = [k \in 1 .. n - (m + 1) |-> stepAt(r, c, (m + 1) + k)]
    BY DEF remaining, n
  <2>5. Len(t) - 1 = n - (m + 1)
    BY <1>1, <1>2, <1>4
  <2>6. \A k \in 1 .. n - (m + 1) : k + 1 \in 1 .. n - m /\ m + (k + 1) = (m + 1) + k
    BY <1>1, <1>2
  <2>7. \A k \in 1 .. n - (m + 1) : t[k + 1] = stepAt(r, c, (m + 1) + k)
    BY <1>2, <2>6
  <2> HIDE DEF t
  <2>8. Tail(t) = remaining(r, c, m + 1)
    BY <2>3, <2>4, <2>5, <2>7
  <2> QED BY <1>1, <1>4, <1>5, <1>6, <2>2, <2>8 DEF n, t
<1>7. CASE m = n
  BY <1>1, <1>4, <1>5, <1>7 DEF n
<1> QED BY <1>6, <1>7

\* A host that has steps left is in one of its calls, and its next step is the
\* k-th of it.
AtCall(r, k) ==
  LET c == call(r) IN
  /\ begun[r] \in 1 .. Len(prog[r]) /\ isCall(r, c)
  /\ k \in 1 .. stepCount(r, c) /\ stepCount(r, c) \in Nat
  /\ Head(todo[r]) = stepAt(r, c, k) /\ done(r) = k - 1
  /\ todo[r] = remaining(r, c, k - 1) /\ Tail(todo[r]) = remaining(r, c, k)
  /\ StepFits(r, c, Head(todo[r]))

\* A host in a call is at one of its steps.
LEMMA AtHead ==
  ASSUME NEW r \in Ranks, Shape, TodoOf(r), todo[r] # <<>>
  PROVE  \E k : AtCall(r, k)
<1> DEFINE c == call(r)
<1>1. begun[r] \in 1 .. Len(prog[r]) /\ begun[r] # 0
  <2>1. Len(prog[r]) \in Nat
    BY CallsFacts DEF Shape
  <2> QED BY <2>1 DEF TodoOf
<1>2. isCall(r, c)
  BY <1>1, CallsFacts DEF Shape, call
<1>3. PICK m \in 0 .. stepCount(r, c) : todo[r] = remaining(r, c, m)
  BY <1>1 DEF TodoOf
<1> HIDE DEF c
<1>4. /\ stepCount(r, c) \in Nat /\ m # stepCount(r, c) /\ Len(todo[r]) = stepCount(r, c) - m
      /\ Head(todo[r]) = stepAt(r, c, m + 1) /\ Tail(todo[r]) = remaining(r, c, m + 1)
  BY <1>2, <1>3, RemainingFacts
<1>5. m + 1 \in 1 .. stepCount(r, c) /\ (m + 1) - 1 = m /\ stepCount(r, c) - (stepCount(r, c) - m) = m
  BY <1>4
<1>6. done(r) = m
  BY <1>4, <1>5 DEF done, c
<1>7. StepFits(r, c, stepAt(r, c, m + 1))
  BY <1>2, <1>5, SoundCall DEF Sound
<1>8. AtCall(r, m + 1)
  BY <1>1, <1>2, <1>3, <1>4, <1>5, <1>6, <1>7 DEF AtCall, c
<1> QED BY <1>8

-----------------------------------------------------------------------------
(* What every step of a call does to the host and to the histories.        *)

Works(r) ==
  \/ DevMemAlloc(r) \/ RegMr(r) \/ PostWqe(r) \/ PollCompletion(r) \/ Free(r)
  \/ TakeRqe(r) \/ CopyRqe(r) \/ PostRdmaWqe(r) \/ PostRdmaRecv(r)

Records(r, q) ==
  LET s == Head(todo[r])
      qp == <<r, q>>
  IN  /\ isEvent(s) /\ s.q = q /\ isPost(s) =>
           /\ \E v : posted'[qp] = Append(posted[qp], <<kindOf(s), v>>)
           /\ taken'[qp] = taken[qp]
      /\ isEvent(s) /\ s.q = q /\ ~ isPost(s) =>
           /\ \E v : taken'[qp] = Append(taken[qp], <<kindOf(s), v>>)
           /\ posted'[qp] = posted[qp]
      /\ ~ (isEvent(s) /\ s.q = q) => posted'[qp] = posted[qp] /\ taken'[qp] = taken[qp]

\* A step of a call takes the step off, and records what it posts or takes.
LEMMA WorksFacts ==
  ASSUME NEW r \in Ranks, Shape, TodoOf(r), Works(r)
  PROVE  /\ todo[r] # <<>> /\ Done(r) /\ todo'[r] = Tail(todo[r])
         /\ \A q \in Ranks : q # r => todo'[q] = todo[q]
         /\ \A q \in Ranks : q # r => Records(r, q)
         /\ \A p, q \in Ranks : p # r /\ p # q =>
              posted'[<<p, q>>] = posted[<<p, q>>] /\ taken'[<<p, q>>] = taken[<<p, q>>]
<1> DEFINE s == Head(todo[r])
<1>1. todo[r] # <<>> /\ Done(r)
  BY DEF Works, DevMemAlloc, RegMr, PostWqe, PollCompletion, Free, TakeRqe, CopyRqe,
         PostRdmaWqe, PostRdmaRecv, AtStep
<1>2. DOMAIN todo = Ranks /\ DOMAIN posted = QPs /\ DOMAIN taken = QPs
  BY DEF Shape
<1>3. todo'[r] = Tail(todo[r]) /\ \A q \in Ranks : q # r => todo'[q] = todo[q]
  BY <1>1, <1>2 DEF Done
<1>4. s.do # "malloc" => <<r, s.q>> \in QPs
  <2>1. StepFits(r, call(r), s)
    BY <1>1, AtHead DEF AtCall
  <2> QED BY <2>1 DEF StepFits, QPs
<1>5. \A p, q \in Ranks : p # q => <<p, q>> \in QPs
  BY DEF QPs
<1>6. \A x \in QPs : \A p : x = p \/ x # p
  OBVIOUS
<1> DEFINE SameP == \A qp \in QPs : posted'[qp] = posted[qp]
           SameT == \A qp \in QPs : taken'[qp] = taken[qp]
           MoreP(kind) == \E v : posted' = [posted EXCEPT ![<<r, s.q>>] = Append(@, <<kind, v>>)]
           MoreT(kind) == \E v : taken' = [taken EXCEPT ![<<r, s.q>>] = Append(@, <<kind, v>>)]
<1>7. \/ ~ isEvent(s) /\ posted' = posted /\ taken' = taken
      \/ isEvent(s) /\ isPost(s) /\ MoreP(kindOf(s)) /\ taken' = taken
      \/ isEvent(s) /\ ~ isPost(s) /\ MoreT(kindOf(s)) /\ posted' = posted
  <2>1. CASE DevMemAlloc(r) \/ RegMr(r) \/ PollCompletion(r) \/ Free(r) \/ TakeRqe(r)
    BY <2>1 DEF DevMemAlloc, RegMr, PollCompletion, Free, TakeRqe, AtStep, isEvent
  <2>2. CASE PostWqe(r)
    BY <2>2 DEF PostWqe, AtStep, isEvent, isPost, kindOf, Posted
  <2>3. CASE CopyRqe(r)
    BY <2>3 DEF CopyRqe, AtStep, isEvent, isPost, kindOf, Taken
  <2>4. CASE PostRdmaWqe(r)
    BY <2>4 DEF PostRdmaWqe, AtStep, isEvent, isPost, kindOf, Posted
  <2>5. CASE PostRdmaRecv(r)
    BY <2>5 DEF PostRdmaRecv, AtStep, isEvent, isPost, kindOf, Taken
  <2> QED BY <2>1, <2>2, <2>3, <2>4, <2>5 DEF Works
<1>8. isEvent(s) => s.do # "malloc"
  BY DEF isEvent
<1> HIDE DEF s
<1>9. ASSUME NEW p \in Ranks, NEW q \in Ranks, p # q
      PROVE  /\ p = r => Records(p, q)
             /\ p # r => posted'[<<p, q>>] = posted[<<p, q>>] /\ taken'[<<p, q>>] = taken[<<p, q>>]
  <2>0. <<p, q>> \in QPs /\ (<<p, q>> = <<r, s.q>> <=> p = r /\ s.q = q)
    BY <1>5, <1>9
  <2>1. CASE ~ isEvent(s) /\ posted' = posted /\ taken' = taken
    BY <2>1 DEF Records, s
  <2>2. CASE isEvent(s) /\ isPost(s) /\ MoreP(kindOf(s)) /\ taken' = taken
    <3>1. PICK v : posted' = [posted EXCEPT ![<<r, s.q>>] = Append(@, <<kindOf(s), v>>)]
      BY <2>2
    <3>2. IF p = r /\ s.q = q THEN posted'[<<p, q>>] = Append(posted[<<p, q>>], <<kindOf(s), v>>)
          ELSE posted'[<<p, q>>] = posted[<<p, q>>]
      BY <1>2, <2>0, <3>1
    <3> QED BY <2>2, <3>2 DEF Records, s
  <2>3. CASE isEvent(s) /\ ~ isPost(s) /\ MoreT(kindOf(s)) /\ posted' = posted
    <3>1. PICK v : taken' = [taken EXCEPT ![<<r, s.q>>] = Append(@, <<kindOf(s), v>>)]
      BY <2>3
    <3>2. IF p = r /\ s.q = q THEN taken'[<<p, q>>] = Append(taken[<<p, q>>], <<kindOf(s), v>>)
          ELSE taken'[<<p, q>>] = taken[<<p, q>>]
      BY <1>2, <2>0, <3>1
    <3> QED BY <2>3, <3>2 DEF Records, s
  <2> QED BY <1>7, <2>1, <2>2, <2>3
<1> QED BY <1>1, <1>3, <1>9

\* The variables stay functions of the hosts and the queue pairs.
LEMMA ShapeStep ==
  ASSUME Shape, [Next]_vars
  PROVE  Shape'
<1>1. CASE UNCHANGED vars
  <2>1. /\ prog' = prog /\ begun' = begun /\ todo' = todo /\ table' = table /\ memory' = memory
        /\ dev_mem_ptr' = dev_mem_ptr /\ sq' = sq /\ sq_pidb' = sq_pidb /\ sq_cidb' = sq_cidb
        /\ rq_pidb' = rq_pidb /\ SQPI' = SQPI /\ CQHEAD' = CQHEAD /\ RQPI' = RQPI /\ RQCI' = RQCI
        /\ posted' = posted /\ taken' = taken
    BY <1>1 DEF vars, host, mem, qps
  <2> QED BY <2>1 DEF Shape
<1>2. ASSUME NEW r \in Ranks, Host(r)
      PROVE  Shape'
  <2>1. /\ prog' = prog /\ DOMAIN begun' = Ranks /\ DOMAIN todo' = Ranks /\ DOMAIN table' = Ranks
        /\ DOMAIN memory' = Ranks /\ DOMAIN dev_mem_ptr' = Ranks
        /\ DOMAIN sq' = QPs /\ DOMAIN sq_pidb' = QPs /\ DOMAIN sq_cidb' = QPs /\ DOMAIN rq_pidb' = QPs
        /\ DOMAIN SQPI' = QPs /\ DOMAIN CQHEAD' = QPs /\ DOMAIN RQPI' = QPs /\ DOMAIN RQCI' = QPs
        /\ DOMAIN posted' = QPs /\ DOMAIN taken' = QPs
    <3>1. CASE Begin(r)
      BY <3>1 DEF Shape, Begin, mem, qps
    <3>2. CASE DevMemAlloc(r)
      BY <3>2 DEF Shape, DevMemAlloc, qps, Done
    <3>3. CASE RegMr(r)
      BY <3>3 DEF Shape, RegMr, qps, Done
    <3>4. CASE PostWqe(r)
      BY <3>4 DEF Shape, PostWqe, Done, Posted
    <3>5. CASE PollCompletion(r)
      BY <3>5 DEF Shape, PollCompletion, mem, Done
    <3>6. CASE Free(r)
      BY <3>6 DEF Shape, Free, mem, Done
    <3>7. CASE TakeRqe(r)
      BY <3>7 DEF Shape, TakeRqe, mem, Done
    <3>8. CASE CopyRqe(r)
      BY <3>8 DEF Shape, CopyRqe, qps, Done, Taken
    <3>9. CASE PostRdmaWqe(r)
      BY <3>9 DEF Shape, PostRdmaWqe, mem, Done, Posted
    <3>10. CASE PostRdmaRecv(r)
      BY <3>10 DEF Shape, PostRdmaRecv, Done, Taken
    <3> QED BY <1>2, <3>1, <3>2, <3>3, <3>4, <3>5, <3>6, <3>7, <3>8, <3>9, <3>10 DEF Host
  <2>2. /\ posted' = posted \/ \E x, v : posted' = [posted EXCEPT ![x] = Append(@, v)]
        /\ taken' = taken \/ \E x, v : taken' = [taken EXCEPT ![x] = Append(@, v)]
    <3>1. CASE Begin(r) \/ DevMemAlloc(r) \/ RegMr(r) \/ PollCompletion(r) \/ Free(r) \/ TakeRqe(r)
      BY <3>1 DEF Begin, DevMemAlloc, RegMr, PollCompletion, Free, TakeRqe
    <3>2. CASE PostWqe(r)
      BY <3>2 DEF PostWqe, Posted
    <3>3. CASE CopyRqe(r)
      BY <3>3 DEF CopyRqe, Taken
    <3>4. CASE PostRdmaWqe(r)
      BY <3>4 DEF PostRdmaWqe, Posted
    <3>5. CASE PostRdmaRecv(r)
      BY <3>5 DEF PostRdmaRecv, Taken
    <3> QED BY <1>2, <3>1, <3>2, <3>3, <3>4, <3>5 DEF Host
  <2>3. ASSUME NEW f, NEW g, DOMAIN f = QPs, \A qp \in QPs : isSeq(f[qp]),
               g = f \/ \E x, v : g = [f EXCEPT ![x] = Append(@, v)], NEW qp \in QPs
        PROVE  isSeq(g[qp])
    <3>1. CASE g = f
      BY <2>3, <3>1
    <3>2. CASE \E x, v : g = [f EXCEPT ![x] = Append(@, v)]
      <4>1. PICK x, v : g = [f EXCEPT ![x] = Append(@, v)]
        BY <3>2
      <4>2. g[qp] = f[qp] \/ g[qp] = Append(f[qp], v)
        BY <2>3, <4>1
      <4>3. isSeq(Append(f[qp], v))
        BY <2>3, AppendFacts
      <4> QED BY <2>3, <4>2, <4>3
    <3> QED BY <2>3, <3>1, <3>2
  <2>4. \A qp \in QPs : isSeq(posted'[qp]) /\ isSeq(taken'[qp])
    <3>1. DOMAIN posted = QPs /\ DOMAIN taken = QPs /\ \A qp \in QPs : isSeq(posted[qp]) /\ isSeq(taken[qp])
      BY DEF Shape
    <3> QED BY <2>2, <2>3, <3>1
  <2>5. prog \in Programs
    BY DEF Shape
  <2> QED BY <2>1, <2>4, <2>5 DEF Shape
<1>3. ASSUME NEW qp \in QPs, Deliver(qp[1], qp[2])
      PROVE  Shape'
  <2>1. /\ prog' = prog /\ begun' = begun /\ todo' = todo /\ table' = table /\ DOMAIN memory' = DOMAIN memory
        /\ dev_mem_ptr' = dev_mem_ptr /\ sq' = sq /\ sq_pidb' = sq_pidb /\ sq_cidb' = sq_cidb
        /\ rq_pidb' = rq_pidb /\ SQPI' = SQPI /\ DOMAIN CQHEAD' = DOMAIN CQHEAD
        /\ DOMAIN RQPI' = DOMAIN RQPI /\ RQCI' = RQCI
        /\ posted' = posted /\ taken' = taken
    BY <1>3 DEF Deliver, host
  <2> QED BY <2>1 DEF Shape
<1> QED BY <1>1, <1>2, <1>3 DEF Next

-----------------------------------------------------------------------------
\* A function of which one value is set.
LEMMA PutFacts ==
  ASSUME NEW f, NEW i, NEW v
  PROVE  /\ DOMAIN Put(f, i, v) = DOMAIN f \cup {i}
         /\ \A j \in DOMAIN f \cup {i} : Put(f, i, v)[j] = IF j = i THEN v ELSE f[j]
BY DEF Put

\* What a host messages with is one of its own tensors.
LEMMA OwnedIsLocal ==
  ASSUME NEW r \in Ranks, Shape, TodoOf(r), TableOf(r), todo[r] = <<>>, begun[r] < Len(prog[r]),
         prog[r][begun[r] + 1].op \in {"send", "recv", "barrier"}
  PROVE  Local(r, prog[r][begun[r] + 1].t)
<1> DEFINE b == begun[r]
           c == prog[r][b + 1]
<1>0. Len(prog[r]) \in Nat /\ DOMAIN prog[r] = 1 .. Len(prog[r])
  BY CallsFacts DEF Shape
<1>1. b \in Nat /\ b + 1 \in 1 .. Len(prog[r]) /\ (b + 1) - 1 = b
  BY <1>0 DEF TodoOf
<1>2. Owned(prog) /\ Distinct(prog)
  BY ProgramsAssumption DEF Shape
<1>3. PICK j \in 1 .. b : prog[r][j].op = "alloc" /\ prog[r][j].t = c.t
                          /\ \A k \in DOMAIN prog[r] :
                               prog[r][k].op = "alloc" /\ prog[r][k].t = c.t => prog[r][k].at = r
  <2>1. b + 1 \in DOMAIN prog[r]
    BY <1>0, <1>1
  <2>2. PICK j \in 1 .. b : prog[r][j].op = "alloc" /\ prog[r][j].t = c.t /\ prog[r][j].at = r
    <3>1. c.op \in {"send", "recv", "barrier"}
      OBVIOUS
    <3> HIDE DEF b
    <3>2. \E j \in 1 .. (b + 1) - 1 : prog[r][j].op = "alloc" /\ prog[r][j].t = c.t /\ prog[r][j].at = r
      BY <1>2, <2>1, <3>1 DEF Owned
    <3>3. (b + 1) - 1 = b
      BY <1>1
    <3> QED BY <3>2, <3>3
  <2>3. j \in DOMAIN prog[r]
    BY <1>0, <1>1
  <2>4. \A k \in DOMAIN prog[r] : prog[r][k].op = "alloc" /\ prog[r][k].t = c.t => k = j
    BY <1>2, <2>2, <2>3 DEF Distinct
  <2> HIDE DEF b, c
  <2>5. \A k \in DOMAIN prog[r] : prog[r][k].op = "alloc" /\ prog[r][k].t = c.t => prog[r][k].at = r
    BY <2>2, <2>4
  <2> QED BY <2>2, <2>5
<1>4. c.t \in DOMAIN table[r]
  <2>1. Len(todo[r]) = 0 /\ ~ \E k \in 1 .. 0 : TRUE
    OBVIOUS
  <2> HIDE DEF b, c
  <2> QED BY <1>3, <2>1 DEF TableOf, b
<1>5. PICK i \in 1 .. b : prog[r][i].op = "alloc" /\ prog[r][i].t = c.t /\ table[r][c.t].qp = prog[r][i].at
  BY <1>4 DEF TableOf
<1>6. prog[r][i].at = r
  <2>1. i \in DOMAIN prog[r]
    BY <1>0, <1>1
  <2> QED BY <1>3, <1>5, <2>1
<1> QED BY <1>4, <1>5, <1>6 DEF Local

\* A call begins with all its steps.
LEMMA BeginFacts ==
  ASSUME NEW r \in Ranks, Shape, TodoOf(r), TableOf(r), Begin(r)
  PROVE  LET b == begun[r] + 1
             c == prog[r][b]
         IN  /\ begun[r] \in Nat /\ begun[r] < Len(prog[r])
             /\ b \in 1 .. Len(prog[r]) /\ isCall(r, c) /\ stepCount(r, c) \in Nat
             /\ todo[r] = <<>> /\ todo'[r] = remaining(r, c, 0) /\ begun'[r] = b
             /\ prog' = prog /\ table' = table /\ dev_mem_ptr' = dev_mem_ptr
             /\ posted' = posted /\ taken' = taken
             /\ \A q \in Ranks : q # r => todo'[q] = todo[q] /\ begun'[q] = begun[q]
<1> DEFINE b == begun[r] + 1
           c == prog[r][b]
<1>1. /\ todo[r] = <<>> /\ begun[r] < Len(prog[r]) /\ prog' = prog /\ table' = table
      /\ dev_mem_ptr' = dev_mem_ptr /\ posted' = posted /\ taken' = taken
  BY DEF Begin, mem
<1>2. begun[r] \in Nat /\ b \in 1 .. Len(prog[r])
  <2>1. Len(prog[r]) \in Nat
    BY CallsFacts DEF Shape
  <2> QED BY <1>1, <2>1 DEF TodoOf
<1>3. isCall(r, c)
  BY <1>2, CallsFacts DEF Shape
<1>4. DOMAIN todo = Ranks /\ DOMAIN begun = Ranks
  BY DEF Shape
<1>5. todo'[r] = Steps(r, c) /\ begun'[r] = b
      /\ \A q \in Ranks : q # r => todo'[q] = todo[q] /\ begun'[q] = begun[q]
  BY <1>4 DEF Begin
<1>6. Steps(r, c) = remaining(r, c, 0) /\ stepCount(r, c) \in Nat
  <2>1. c.op \in {"send", "recv", "barrier"} => Local(r, c.t)
    BY <1>1, OwnedIsLocal
  <2> QED BY <1>3, <2>1, StepsOfCall
<1> QED BY <1>1, <1>2, <1>3, <1>5, <1>6

-----------------------------------------------------------------------------
(* The steps left, the tables and the histories.                           *)

\* The steps left after a step are the rest of the call's.
LEMMA WorksTodo ==
  ASSUME NEW r \in Ranks, Shape, TodoOf(r), Works(r)
  PROVE  /\ TodoOf(r)' /\ call(r)' = call(r) /\ begun'[r] = begun[r] /\ begun'[r] # 0 /\ prog' = prog
         /\ \E k : AtCall(r, k) /\ todo'[r] = remaining(r, call(r), k) /\ done(r)' = k
<1>1. todo[r] # <<>> /\ Done(r) /\ todo'[r] = Tail(todo[r])
  BY WorksFacts
<1>2. PICK k : AtCall(r, k)
  BY <1>1, AtHead
<1>3. begun' = begun /\ prog' = prog
  BY <1>1 DEF Done
<1>4. call(r)' = call(r)
  BY <1>3 DEF call
<1>5. /\ todo'[r] = remaining(r, call(r), k) /\ stepCount(r, call(r)) \in Nat /\ k \in 0 .. stepCount(r, call(r))
      /\ begun[r] \in 1 .. Len(prog[r]) /\ isCall(r, call(r))
  BY <1>1, <1>2 DEF AtCall
<1>6. Len(prog[r]) \in Nat
  BY CallsFacts DEF Shape
<1>7. begun[r] # 0 /\ begun[r] \in 0 .. Len(prog[r])
  BY <1>5, <1>6
<1>8. TodoOf(r)'
  BY <1>3, <1>4, <1>5, <1>7 DEF TodoOf
<1>9. done(r)' = k
  <2>1. Len(todo'[r]) = stepCount(r, call(r)) - k
    BY <1>5, RemainingFacts
  <2>2. done(r)' = stepCount(r, call(r)) - (stepCount(r, call(r)) - k)
    BY <1>4, <2>1 DEF done
  <2> QED BY <1>5, <2>2
<1> QED BY <1>2, <1>3, <1>4, <1>5, <1>7, <1>8, <1>9

\* The steps left when a call begins are all of the call's.
LEMMA BeginTodo ==
  ASSUME NEW r \in Ranks, Shape, TodoOf(r), TableOf(r), Begin(r)
  PROVE  /\ TodoOf(r)' /\ call(r)' = prog[r][begun[r] + 1] /\ done(r)' = 0
<1> DEFINE b == begun[r] + 1
           c == prog[r][b]
<1>1. /\ begun[r] \in Nat /\ begun[r] < Len(prog[r])
      /\ b \in 1 .. Len(prog[r]) /\ isCall(r, c) /\ stepCount(r, c) \in Nat
      /\ todo'[r] = remaining(r, c, 0) /\ begun'[r] = b /\ prog' = prog
  BY BeginFacts
<1> HIDE DEF b
<1>2. call(r)' = c
  BY <1>1 DEF call
<1>3. b \in 0 .. Len(prog[r]) /\ b # 0 /\ 0 \in 0 .. stepCount(r, c)
  BY <1>1
<1>4. TodoOf(r)'
  BY <1>1, <1>2, <1>3 DEF TodoOf
<1>5. Len(remaining(r, c, 0)) = stepCount(r, c) - 0
  BY <1>1, <1>3, RemainingFacts
<1>6. done(r)' = 0
  BY <1>1, <1>2, <1>5 DEF done
<1> QED BY <1>2, <1>4, <1>6 DEF b

\* The steps left where nothing is done.
LEMMA TodoSame ==
  ASSUME NEW r, prog' = prog, begun'[r] = begun[r], todo'[r] = todo[r]
  PROVE  /\ call(r)' = call(r) /\ done(r)' = done(r)
         /\ TodoOf(r) => TodoOf(r)'
BY DEF call, done, TodoOf

\* The table keeps what the calls have allocated.
LEMMA WorksTable ==
  ASSUME NEW r \in Ranks, Shape, TodoOf(r), TableOf(r), Works(r)
  PROVE  TableOf(r)'
<1>1. PICK k : AtCall(r, k) /\ todo'[r] = remaining(r, call(r), k)
  BY WorksTodo
<1>2. begun'[r] = begun[r] /\ prog' = prog /\ call(r)' = call(r)
  BY WorksTodo
<1> DEFINE c == call(r)
           s == Head(todo[r])
           n == stepCount(r, c)
<1>3. /\ isCall(r, c) /\ k \in 1 .. n /\ n \in Nat
      /\ s = stepAt(r, c, k) /\ todo[r] = remaining(r, c, k - 1) /\ todo[r] # <<>>
      /\ StepFits(r, c, s) /\ begun[r] \in 1 .. Len(prog[r])
  <2>1. todo[r] # <<>>
    BY WorksFacts
  <2> QED BY <1>1, <2>1 DEF AtCall
<1>4. /\ Len(todo[r]) = n - (k - 1) /\ Len(todo'[r]) = n - k
      /\ \A j \in 1 .. n - (k - 1) : todo[r][j] = stepAt(r, c, (k - 1) + j)
      /\ \A j \in 1 .. n - k : todo'[r][j] = stepAt(r, c, k + j)
  <2>1. k - 1 \in 0 .. n /\ k \in 0 .. n
    BY <1>3
  <2> QED BY <1>1, <1>3, <2>1, RemainingFacts DEF remaining
<1> HIDE DEF n, s, c
\* A malloc left is the next step or is left after it.
<1>5. ASSUME NEW t, NEW j \in 1 .. Len(todo[r]), todo[r][j].do = "malloc", todo[r][j].name = t
      PROVE  \/ s.do = "malloc" /\ s.name = t
             \/ \E i \in 1 .. Len(todo'[r]) : todo'[r][i].do = "malloc" /\ todo'[r][i].name = t
  <2>1. CASE j = 1
    <3>1. (k - 1) + 1 = k /\ 1 \in 1 .. n - (k - 1)
      BY <1>3
    <3> QED BY <1>3, <1>4, <1>5, <2>1, <3>1
  <2>2. CASE j # 1
    <3>1. j - 1 \in 1 .. n - k /\ k + (j - 1) = (k - 1) + j /\ j \in 1 .. n - (k - 1)
      BY <1>3, <1>4, <2>2
    <3>2. todo'[r][j - 1] = todo[r][j]
      BY <1>4, <3>1
    <3> QED BY <1>4, <1>5, <3>1, <3>2
  <2> QED BY <2>1, <2>2
<1>6. c = prog[r][begun[r]]
  BY DEF c, call
<1>7. DOMAIN table = Ranks /\ DOMAIN dev_mem_ptr = Ranks
  BY DEF Shape
<1>8. CASE DevMemAlloc(r)
  <2>1. s.do = "malloc"
    BY <1>8 DEF DevMemAlloc, AtStep, s
  <2>2. s.name = c.t /\ s.q = c.at /\ s.size \in Nat /\ c.op = "alloc"
    BY <1>3, <2>1 DEF StepFits, driverSteps
  <2> DEFINE pa == dev_mem_ptr[r]
             e == [qp |-> s.q, pa |-> pa, size |-> s.size, rkey |-> got[r].rkey, vaddr |-> got[r].vaddr]
  <2>3. dev_mem_ptr'[r] = pa + s.size /\ table'[r] = Put(table[r], s.name, e)
    BY <1>7, <1>8 DEF DevMemAlloc, s
  <2>4. pa \in Nat /\ pa >= tensors
    BY DEF TableOf
  <2>5. e.qp = s.q /\ e.pa = pa
    OBVIOUS
  <2> HIDE DEF e, pa
  <2> DEFINE f == table[r]
             g == table'[r]
  <2>6. /\ DOMAIN table'[r] = DOMAIN table[r] \cup {s.name}
        /\ \A t \in DOMAIN table'[r] : table'[r][t] = IF t = s.name THEN e ELSE table[r][t]
    <3>1. g = Put(f, s.name, e)
      BY <2>3
    <3> DEFINE i == s.name
    <3> HIDE DEF f, g, i
    <3>3. DOMAIN Put(f, i, e) = DOMAIN f \cup {i}
          /\ \A j \in DOMAIN f \cup {i} : Put(f, i, e)[j] = IF j = i THEN e ELSE f[j]
      BY PutFacts
    <3>4. g = Put(f, i, e)
      BY <3>1 DEF i
    <3>2. DOMAIN g = DOMAIN f \cup {s.name} /\ \A t \in DOMAIN g : g[t] = IF t = s.name THEN e ELSE f[t]
      BY <3>3, <3>4 DEF i
    <3> QED BY <3>2 DEF f, g
  <2>7. dev_mem_ptr'[r] \in Nat /\ dev_mem_ptr'[r] >= tensors
    <3>1. tensors \in Int
      BY PeersFacts, RdmaAssumption DEF tensors
    <3> QED BY <2>2, <2>3, <2>4, <3>1
  <2>8. ASSUME NEW t \in DOMAIN table'[r]
        PROVE  /\ table'[r][t].pa \in Nat /\ table'[r][t].pa >= tensors
               /\ \E i \in 1 .. begun'[r] :
                    prog'[r][i].op = "alloc" /\ prog'[r][i].t = t /\ table'[r][t].qp = prog'[r][i].at
    <3>1. CASE t = s.name
      <4>1. table'[r][t] = e
        BY <2>6, <3>1
      <4>2. begun[r] \in 1 .. begun[r]
        BY <1>3
      <4>3. c.op = "alloc" /\ c.t = t /\ e.qp = c.at
        BY <2>2, <2>5, <3>1
      <4> QED BY <1>2, <1>6, <2>4, <2>5, <4>1, <4>2, <4>3
    <3>2. CASE t # s.name
      BY <1>2, <2>6, <3>2 DEF TableOf
    <3> QED BY <3>1, <3>2
  <2>9. ASSUME NEW i \in 1 .. begun'[r], prog'[r][i].op = "alloc"
        PROVE  \/ prog'[r][i].t \in DOMAIN table'[r]
               \/ /\ i = begun'[r]
                  /\ \E x \in 1 .. Len(todo'[r]) : todo'[r][x].do = "malloc" /\ todo'[r][x].name = prog'[r][i].t
    BY <1>2, <1>5, <2>6, <2>9 DEF TableOf
  <2> QED BY <2>7, <2>8, <2>9 DEF TableOf
<1>9. CASE ~ DevMemAlloc(r)
  <2>1. s.do # "malloc" /\ table' = table
    BY <1>9 DEF Works, DevMemAlloc, RegMr, PostWqe, PollCompletion, Free, TakeRqe, CopyRqe,
         PostRdmaWqe, PostRdmaRecv, AtStep, mem, s
  <2>2. dev_mem_ptr'[r] \in Nat /\ dev_mem_ptr'[r] >= tensors
    <3>1. tensors \in Int /\ PageUnits \in Nat
      BY PeersFacts, RdmaAssumption DEF tensors
    <3>2. dev_mem_ptr'[r] = dev_mem_ptr[r] \/ dev_mem_ptr'[r] = dev_mem_ptr[r] + PageUnits
      <4>1. CASE PostWqe(r)
        BY <1>7, <4>1 DEF PostWqe
      <4>2. CASE ~ PostWqe(r)
        BY <1>9, <4>2 DEF Works, RegMr, PollCompletion, Free, TakeRqe, CopyRqe, PostRdmaWqe, PostRdmaRecv, mem
      <4> QED BY <4>1, <4>2
    <3> QED BY <3>1, <3>2 DEF TableOf
  <2>3. ASSUME NEW i \in 1 .. begun'[r], prog'[r][i].op = "alloc"
        PROVE  \/ prog'[r][i].t \in DOMAIN table'[r]
               \/ /\ i = begun'[r]
                  /\ \E x \in 1 .. Len(todo'[r]) : todo'[r][x].do = "malloc" /\ todo'[r][x].name = prog'[r][i].t
    BY <1>2, <1>5, <2>1, <2>3 DEF TableOf
  <2> QED BY <1>2, <2>1, <2>2, <2>3 DEF TableOf
<1> QED BY <1>8, <1>9

\* The table when a call begins.
LEMMA BeginTable ==
  ASSUME NEW r \in Ranks, Shape, TodoOf(r), TableOf(r), Begin(r)
  PROVE  TableOf(r)'
<1> DEFINE b == begun[r] + 1
           c == prog[r][b]
<1>1. /\ begun[r] \in Nat /\ isCall(r, c) /\ stepCount(r, c) \in Nat
      /\ todo[r] = <<>> /\ todo'[r] = remaining(r, c, 0) /\ begun'[r] = b
      /\ prog' = prog /\ table' = table /\ dev_mem_ptr' = dev_mem_ptr
  BY BeginFacts
<1>2. 1 .. begun[r] \subseteq 1 .. b
  BY <1>1
<1>3. ASSUME NEW i \in 1 .. b, prog[r][i].op = "alloc"
      PROVE  \/ prog[r][i].t \in DOMAIN table[r]
             \/ /\ i = b
                /\ \E x \in 1 .. Len(todo'[r]) : todo'[r][x].do = "malloc" /\ todo'[r][x].name = prog[r][i].t
  <2>1. CASE i # b
    <3>1. i \in 1 .. begun[r]
      BY <1>1, <2>1
    <3>2. ~ \E x \in 1 .. Len(todo[r]) : TRUE
      BY <1>1
    <3> QED BY <1>3, <3>1, <3>2 DEF TableOf
  <2>2. CASE i = b
    <3>1. PICK k \in 1 .. stepCount(r, c) : stepAt(r, c, k) = Malloc(c.at, c.t, c.size)
      BY <1>1, <1>3, <2>2, SoundCall DEF Sound
    <3>2. 0 \in 0 .. stepCount(r, c) /\ stepCount(r, c) - 0 = stepCount(r, c) /\ 0 + k = k
      BY <1>1
    <3>3. Len(todo'[r]) = stepCount(r, c) /\ todo'[r][k] = stepAt(r, c, k)
      BY <1>1, <3>2, RemainingFacts DEF remaining
    <3>4. todo'[r][k].do = "malloc" /\ todo'[r][k].name = c.t
      BY <3>1, <3>3 DEF Malloc
    <3> QED BY <2>2, <3>3, <3>4
  <2> QED BY <2>1, <2>2
<1> HIDE DEF b
<1> QED BY <1>1, <1>2, <1>3 DEF TableOf

\* A step of r's call takes its exchange with q one part on, if the step is
\* part of it.
LEMMA PosWorks ==
  ASSUME NEW r \in Ranks, NEW q \in Ranks, q # r, Shape, TodoOf(r), Works(r)
  PROVE  LET s == Head(todo[r])
             p == pos(r, q)
             script == Script(prog, r, q)
         IN  /\ p \in Nat
             /\ IF isEvent(s) /\ s.q = q
                  THEN /\ pos(r, q)' = p + 1 /\ p + 1 \in 1 .. Len(script)
                       /\ script[p + 1].post = isPost(s) /\ script[p + 1].kind = kindOf(s)
                  ELSE pos(r, q)' = p
<1> DEFINE s == Head(todo[r])
           c == call(r)
           b == begun[r]
           P(m) == posAt(prog, r, q, b, m)
           script == Script(prog, r, q)
<1>1. PICK k : AtCall(r, k) /\ done(r)' = k
  BY WorksTodo
<1>2. begun'[r] = b /\ prog' = prog
  BY WorksTodo
<1>3. /\ b \in 1 .. Len(prog[r]) /\ k \in 1 .. stepCount(r, c) /\ stepCount(r, c) \in Nat
      /\ s = stepAt(r, c, k) /\ done(r) = k - 1
  BY <1>1 DEF AtCall
<1>4. pos(r, q) = P(k - 1) /\ pos(r, q)' = P(k)
  BY <1>1, <1>2, <1>3 DEF pos
<1>5. prog \in Programs /\ c = prog[r][b]
  BY DEF Shape, call
<1> HIDE DEF b, c, s
<1>6. k - 1 \in 0 .. stepCount(r, c)
  BY <1>3
<1>7. /\ P(k - 1) \in Nat
      /\ IF isEvent(s) /\ s.q = q
           THEN /\ P(k) = P(k - 1) + 1 /\ P(k) \in 1 .. Len(script)
                /\ script[P(k)].post = isPost(s) /\ script[P(k)].kind = kindOf(s)
           ELSE P(k) = P(k - 1)
  BY <1>3, <1>5, <1>6, PosFacts
<1> HIDE DEF P, script
<1> QED BY <1>4, <1>7 DEF s, script

\* A call begins where the one before has left the exchange.
LEMMA PosBegin ==
  ASSUME NEW r \in Ranks, NEW q \in Ranks, q # r, Shape, TodoOf(r), TableOf(r), Begin(r)
  PROVE  pos(r, q)' = pos(r, q)
<1> DEFINE b == begun[r] + 1
           c == prog[r][b]
<1>1. /\ begun[r] \in Nat /\ b \in 1 .. Len(prog[r]) /\ todo[r] = <<>>
      /\ begun'[r] = b /\ prog' = prog
  BY BeginFacts
<1>2. pos(r, q)' = posAt(prog, r, q, b, 0)
  BY <1>1, BeginTodo DEF pos
<1>3. posAt(prog, r, q, b, 0) =
        IF b = 1 THEN 0 ELSE posAt(prog, r, q, b - 1, stepCount(r, prog[r][b - 1]))
  BY <1>1, PosFacts DEF Shape
<1>4. CASE begun[r] = 0
  <2>1. pos(r, q) = 0
    BY <1>4, PosFacts DEF Shape, pos
  <2> QED BY <1>1, <1>2, <1>3, <1>4, <2>1
<1>5. CASE begun[r] # 0
  <2>1. b # 1 /\ b - 1 = begun[r] /\ begun[r] \in 1 .. Len(prog[r])
    <3>1. Len(prog[r]) \in Nat
      BY CallsFacts DEF Shape
    <3> QED BY <1>1, <1>5, <3>1
  <2>2. isCall(r, call(r))
    BY <2>1, CallsFacts DEF Shape, call
  <2>3. PICK m \in 0 .. stepCount(r, call(r)) : todo[r] = remaining(r, call(r), m)
    BY <1>5 DEF TodoOf
  <2>4. Len(todo[r]) = 0
    BY <1>1
  <2>5. done(r) = stepCount(r, call(r))
    <3>1. stepCount(r, call(r)) \in Nat
      BY <2>2, StepCountNat
    <3> QED BY <2>4, <3>1 DEF done
  <2>6. pos(r, q) = posAt(prog, r, q, begun[r], stepCount(r, prog[r][begun[r]]))
    BY <2>5 DEF pos, call
  <2> QED BY <1>2, <1>3, <2>1, <2>6
<1> QED BY <1>4, <1>5

\* The histories where nothing is done.
LEMMA HistorySame ==
  ASSUME NEW r, NEW q, HistoryOf(r, q), prog' = prog, pos(r, q)' = pos(r, q),
         posted'[<<r, q>>] = posted[<<r, q>>], taken'[<<r, q>>] = taken[<<r, q>>]
  PROVE  HistoryOf(r, q)'
BY DEF HistoryOf

\* The histories are those of the exchange so far.
LEMMA WorksHistory ==
  ASSUME NEW r \in Ranks, NEW q \in Ranks, q # r, Shape, TodoOf(r), HistoryOf(r, q), Works(r)
  PROVE  HistoryOf(r, q)'
<1> DEFINE s == Head(todo[r])
           p == pos(r, q)
           script == Script(prog, r, q)
           g == posted[<<r, q>>]
           h == taken[<<r, q>>]
<1>1. /\ p \in Nat
      /\ IF isEvent(s) /\ s.q = q
           THEN /\ pos(r, q)' = p + 1 /\ p + 1 \in 1 .. Len(script)
                /\ script[p + 1].post = isPost(s) /\ script[p + 1].kind = kindOf(s)
           ELSE pos(r, q)' = p
  BY PosWorks
<1>2. Records(r, q) /\ prog' = prog
  BY WorksFacts, WorksTodo
<1>3. isSeq(g) /\ isSeq(h)
  BY DEF Shape, QPs
<1>4. Meant(script, TRUE, p, g) /\ Meant(script, FALSE, p, h)
  BY DEF HistoryOf
<1>5. isPost(s) \in BOOLEAN
  BY DEF isPost
<1>6. CASE isEvent(s) /\ s.q = q /\ isPost(s)
  <2>1. PICK v : posted'[<<r, q>>] = Append(g, <<kindOf(s), v>>)
    BY <1>2, <1>6 DEF Records
  <2>2. taken'[<<r, q>>] = h
    BY <1>2, <1>6 DEF Records
  <2>3. script[p + 1].post = TRUE /\ script[p + 1].kind = kindOf(s) /\ pos(r, q)' = p + 1
    BY <1>1, <1>5, <1>6
  <2> HIDE DEF script, p, g, h, s
  <2>4. Meant(script, TRUE, p + 1, Append(g, <<kindOf(s), v>>))
    BY <1>1, <1>3, <1>4, <2>3, MeantMore
  <2>5. Meant(script, FALSE, p + 1, h)
    BY <1>1, <1>4, <2>3, MeantSame
  <2> QED BY <1>2, <2>1, <2>2, <2>3, <2>4, <2>5 DEF HistoryOf, script
<1>7. CASE isEvent(s) /\ s.q = q /\ ~ isPost(s)
  <2>1. PICK v : taken'[<<r, q>>] = Append(h, <<kindOf(s), v>>)
    BY <1>2, <1>7 DEF Records
  <2>2. posted'[<<r, q>>] = g
    BY <1>2, <1>7 DEF Records
  <2>3. script[p + 1].post = FALSE /\ script[p + 1].kind = kindOf(s) /\ pos(r, q)' = p + 1
    BY <1>1, <1>5, <1>7
  <2> HIDE DEF script, p, g, h, s
  <2>4. Meant(script, FALSE, p + 1, Append(h, <<kindOf(s), v>>))
    BY <1>1, <1>3, <1>4, <2>3, MeantMore
  <2>5. Meant(script, TRUE, p + 1, g)
    BY <1>1, <1>4, <2>3, MeantSame
  <2> QED BY <1>2, <2>1, <2>2, <2>3, <2>4, <2>5 DEF HistoryOf, script
<1>8. CASE ~ (isEvent(s) /\ s.q = q)
  <2>1. posted'[<<r, q>>] = posted[<<r, q>>] /\ taken'[<<r, q>>] = taken[<<r, q>>]
    BY <1>2, <1>8 DEF Records
  <2>2. pos(r, q)' = pos(r, q)
    BY <1>1, <1>8
  <2> QED BY <1>2, <2>1, <2>2, HistorySame
<1> QED BY <1>6, <1>7, <1>8

-----------------------------------------------------------------------------
(* The first half of the invariant.                                        *)

\* The first half of the invariant is kept by every step.
LEMMA BaseStep ==
  ASSUME Shape, Base, [Next]_vars
  PROVE  Base'
<1>0. \A r \in Ranks : TodoOf(r) /\ TableOf(r) /\ \A q \in Ranks : q # r => HistoryOf(r, q)
  BY DEF Base, TodoInv, TableInv, HistoryInv
\* A host that does nothing.
<1>1. ASSUME NEW r \in Ranks, prog' = prog, begun'[r] = begun[r], todo'[r] = todo[r],
             table'[r] = table[r], dev_mem_ptr'[r] = dev_mem_ptr[r],
             \A q \in Ranks : q # r => posted'[<<r, q>>] = posted[<<r, q>>] /\ taken'[<<r, q>>] = taken[<<r, q>>]
      PROVE  TodoOf(r)' /\ TableOf(r)' /\ \A q \in Ranks : q # r => HistoryOf(r, q)'
  <2>1. TodoOf(r)' /\ done(r)' = done(r)
    BY <1>0, <1>1, TodoSame
  <2>2. TableOf(r)'
    BY <1>0, <1>1 DEF TableOf
  <2>3. \A q : pos(r, q)' = pos(r, q)
    BY <1>1, <2>1 DEF pos
  <2>4. \A q \in Ranks : q # r => HistoryOf(r, q)'
    BY <1>0, <1>1, <2>3, HistorySame
  <2> QED BY <2>1, <2>2, <2>4
<1>2. CASE UNCHANGED vars
  <2>1. /\ prog' = prog /\ begun' = begun /\ todo' = todo /\ table' = table /\ dev_mem_ptr' = dev_mem_ptr
        /\ posted' = posted /\ taken' = taken
    BY <1>2 DEF vars, host, mem
  <2> QED BY <1>1, <2>1 DEF Base, TodoInv, TableInv, HistoryInv
<1>3. ASSUME NEW qp \in QPs, Deliver(qp[1], qp[2])
      PROVE  Base'
  <2>1. /\ prog' = prog /\ begun' = begun /\ todo' = todo /\ table' = table /\ dev_mem_ptr' = dev_mem_ptr
        /\ posted' = posted /\ taken' = taken
    BY <1>3 DEF Deliver, host
  <2> QED BY <1>1, <2>1 DEF Base, TodoInv, TableInv, HistoryInv
<1>4. ASSUME NEW r \in Ranks, Begin(r)
      PROVE  Base'
  <2>1. /\ prog' = prog /\ table' = table /\ dev_mem_ptr' = dev_mem_ptr
        /\ posted' = posted /\ taken' = taken
        /\ \A q \in Ranks : q # r => todo'[q] = todo[q] /\ begun'[q] = begun[q]
    BY <1>0, <1>4, BeginFacts
  <2>2. TodoOf(r)' /\ TableOf(r)'
    BY <1>0, <1>4, BeginTodo, BeginTable
  <2>3. \A q \in Ranks : q # r => HistoryOf(r, q)'
    BY <1>0, <1>4, <2>1, PosBegin, HistorySame
  <2>4. \A x \in Ranks : x # r => TodoOf(x)' /\ TableOf(x)' /\ \A q \in Ranks : q # x => HistoryOf(x, q)'
    BY <1>1, <2>1
  <2> QED BY <2>2, <2>3, <2>4 DEF Base, TodoInv, TableInv, HistoryInv
<1>5. ASSUME NEW r \in Ranks, Works(r)
      PROVE  Base'
  <2>1. /\ TodoOf(r)' /\ TableOf(r)' /\ prog' = prog
        /\ \A q \in Ranks : q # r => HistoryOf(r, q)'
    BY <1>0, <1>5, WorksTodo, WorksTable, WorksHistory
  <2>2. begun' = begun
    BY <1>0, <1>5, WorksFacts DEF Done
  <2>3. \A x \in Ranks : x # r => todo'[x] = todo[x]
    BY <1>0, <1>5, WorksFacts
  <2>4. \A x, q \in Ranks : x # r /\ x # q => posted'[<<x, q>>] = posted[<<x, q>>] /\ taken'[<<x, q>>] = taken[<<x, q>>]
    BY <1>0, <1>5, WorksFacts
  <2>5. \A x \in Ranks : x # r => table'[x] = table[x] /\ dev_mem_ptr'[x] = dev_mem_ptr[x]
    <3>1. DOMAIN table = Ranks /\ DOMAIN dev_mem_ptr = Ranks
      BY DEF Shape
    <3>2. CASE DevMemAlloc(r)
      BY <3>1, <3>2 DEF DevMemAlloc
    <3>3. CASE PostWqe(r)
      BY <3>1, <3>3 DEF PostWqe
    <3>4. CASE RegMr(r) \/ PollCompletion(r) \/ Free(r) \/ TakeRqe(r) \/ CopyRqe(r)
               \/ PostRdmaWqe(r) \/ PostRdmaRecv(r)
      BY <3>4 DEF RegMr, PollCompletion, Free, TakeRqe, CopyRqe, PostRdmaWqe, PostRdmaRecv, mem
    <3> QED BY <1>5, <3>2, <3>3, <3>4 DEF Works
  <2>6. \A x \in Ranks : x # r => TodoOf(x)' /\ TableOf(x)' /\ \A q \in Ranks : q # x => HistoryOf(x, q)'
    BY <1>1, <2>1, <2>2, <2>3, <2>4, <2>5
  <2> QED BY <2>1, <2>6 DEF Base, TodoInv, TableInv, HistoryInv
<1> QED BY <1>2, <1>3, <1>4, <1>5 DEF Next, Host, Works

-----------------------------------------------------------------------------
(* What a step leaves alone.                                               *)

Untouched(qp) ==
  /\ posted'[qp] = posted[qp] /\ taken'[qp] = taken[qp]
  /\ sq'[qp] = sq[qp] /\ sq_pidb'[qp] = sq_pidb[qp] /\ sq_cidb'[qp] = sq_cidb[qp]
  /\ rq_pidb'[qp] = rq_pidb[qp] /\ SQPI'[qp] = SQPI[qp] /\ CQHEAD'[qp] = CQHEAD[qp]
  /\ RQPI'[qp] = RQPI[qp] /\ RQCI'[qp] = RQCI[qp]
  /\ qp \in disabled' <=> qp \in disabled

\* A step of a host is about one queue pair at most.
LEMMA Elsewhere ==
  ASSUME NEW r \in Ranks, Shape, Host(r), NEW qp \in QPs, Begin(r) \/ qp # <<r, Head(todo[r]).q>>
  PROVE  Untouched(qp)
<1> DEFINE own == <<r, Head(todo[r]).q>>
<1>0. /\ DOMAIN sq = QPs /\ DOMAIN sq_pidb = QPs /\ DOMAIN sq_cidb = QPs /\ DOMAIN rq_pidb = QPs
      /\ DOMAIN SQPI = QPs /\ DOMAIN CQHEAD = QPs /\ DOMAIN RQPI = QPs /\ DOMAIN RQCI = QPs
      /\ DOMAIN posted = QPs /\ DOMAIN taken = QPs
  BY DEF Shape
<1>1. CASE Begin(r)
  BY <1>1 DEF Begin, qps, Untouched
<1>2. CASE ~ Begin(r)
  <2>1. qp # own
    BY <1>2
  <2> HIDE DEF own
  <2>2. CASE DevMemAlloc(r) \/ RegMr(r)
    BY <2>2 DEF DevMemAlloc, RegMr, qps, Untouched
  <2>3. CASE PostWqe(r)
    BY <1>0, <2>1, <2>3 DEF PostWqe, Posted, Untouched, own
  <2>4. CASE PollCompletion(r)
    BY <1>0, <2>1, <2>4 DEF PollCompletion, Untouched, own
  <2>5. CASE Free(r)
    BY <1>0, <2>1, <2>5 DEF Free, Untouched, own
  <2>6. CASE TakeRqe(r)
    BY <1>0, <2>1, <2>6 DEF TakeRqe, Untouched, own
  <2>7. CASE CopyRqe(r)
    BY <1>0, <2>1, <2>7 DEF CopyRqe, Taken, qps, Untouched, own
  <2>8. CASE PostRdmaWqe(r)
    BY <1>0, <2>1, <2>8 DEF PostRdmaWqe, Posted, Untouched, own
  <2>9. CASE PostRdmaRecv(r)
    BY <1>0, <2>1, <2>9 DEF PostRdmaRecv, Taken, Untouched, own
  <2> QED BY <1>2, <2>2, <2>3, <2>4, <2>5, <2>6, <2>7, <2>8, <2>9 DEF Host
<1> QED BY <1>1, <1>2

\* A step of a host is no other host's.
LEMMA OtherHosts ==
  ASSUME NEW r \in Ranks, Shape, Host(r), NEW p \in Ranks, p # r
  PROVE  /\ todo'[p] = todo[p] /\ begun'[p] = begun[p] /\ memory'[p] = memory[p] /\ prog' = prog
<1>0. DOMAIN todo = Ranks /\ DOMAIN begun = Ranks /\ DOMAIN memory = Ranks
  BY DEF Shape
<1>1. CASE Begin(r)
  BY <1>0, <1>1 DEF Begin, mem
<1>2. CASE Works(r)
  <2>1. Done(r)
    BY <1>2 DEF Works, DevMemAlloc, RegMr, PostWqe, PollCompletion, Free, TakeRqe, CopyRqe,
         PostRdmaWqe, PostRdmaRecv
  <2>2. memory'[p] = memory[p]
    <3>1. CASE DevMemAlloc(r)
      BY <1>0, <3>1 DEF DevMemAlloc
    <3>2. CASE PostWqe(r)
      BY <1>0, <3>2 DEF PostWqe
    <3>3. CASE PostRdmaRecv(r)
      BY <1>0, <3>3 DEF PostRdmaRecv
    <3>4. CASE RegMr(r) \/ PollCompletion(r) \/ Free(r) \/ TakeRqe(r) \/ CopyRqe(r) \/ PostRdmaWqe(r)
      BY <3>4 DEF RegMr, PollCompletion, Free, TakeRqe, CopyRqe, PostRdmaWqe, mem
    <3> QED BY <1>2, <3>1, <3>2, <3>3, <3>4 DEF Works
  <2> QED BY <1>0, <2>1, <2>2 DEF Done
<1> QED BY <1>1, <1>2 DEF Host, Works

-----------------------------------------------------------------------------
(* The next step of a call, and the phase it belongs to.                   *)

\* The next step follows the one that is done.
LEMMA WorksNext ==
  ASSUME NEW r \in Ranks, Shape, TodoOf(r), Works(r)
  PROVE  /\ todo'[r] = <<>> => mayEnd(Head(todo[r]))
         /\ todo'[r] # <<>> => Follows(Head(todo[r]), Head(todo'[r]))
<1> DEFINE c == call(r)
<1>1. PICK k : AtCall(r, k) /\ todo'[r] = remaining(r, c, k)
  BY WorksTodo
<1>2. /\ isCall(r, c) /\ k \in 1 .. stepCount(r, c) /\ stepCount(r, c) \in Nat
      /\ Head(todo[r]) = stepAt(r, c, k)
  BY <1>1 DEF AtCall
<1> HIDE DEF c
<1>3. k \in 0 .. stepCount(r, c)
  BY <1>2
<1>4. /\ todo'[r] = <<>> <=> k = stepCount(r, c)
      /\ k # stepCount(r, c) => Head(todo'[r]) = stepAt(r, c, k + 1)
  BY <1>1, <1>2, <1>3, RemainingFacts
<1>5. /\ k = stepCount(r, c) => mayEnd(stepAt(r, c, k))
      /\ k # stepCount(r, c) => Follows(stepAt(r, c, k), stepAt(r, c, k + 1))
  BY <1>2, SoundCall DEF Sound
<1> QED BY <1>2, <1>4, <1>5

\* The first step of a call is one that may start it.
LEMMA BeginNext ==
  ASSUME NEW r \in Ranks, Shape, TodoOf(r), TableOf(r), Begin(r)
  PROVE  todo[r] = <<>> /\ (todo'[r] # <<>> => mayStart(Head(todo'[r])))
<1> DEFINE c == prog[r][begun[r] + 1]
<1>1. isCall(r, c) /\ stepCount(r, c) \in Nat /\ todo[r] = <<>> /\ todo'[r] = remaining(r, c, 0)
  BY BeginFacts
<1> HIDE DEF c
<1>2. 0 \in 0 .. stepCount(r, c) /\ 0 + 1 = 1
  BY <1>1
<1>3. /\ todo'[r] = <<>> <=> 0 = stepCount(r, c)
      /\ 0 # stepCount(r, c) => Head(todo'[r]) = stepAt(r, c, 1)
  BY <1>1, <1>2, RemainingFacts
<1>4. 0 # stepCount(r, c) => mayStart(stepAt(r, c, 1))
  <2>1. 0 # stepCount(r, c) => 1 \in 1 .. stepCount(r, c)
    BY <1>1
  <2> QED BY <1>1, <2>1, SoundCall DEF Sound
<1> QED BY <1>1, <1>3, <1>4

\* The driver's steps belong to the time in which the host allocates.
LEMMA AllocPhase ==
  ASSUME NEW r \in Ranks, Shape, TodoOf(r), AllocsFirst(r), todo[r] # <<>>
  PROVE  LET s == Head(todo[r]) IN
         /\ s.do \in driverSteps => allocating(r)
         /\ s.do \in {"free", "wqe", "recv"} => ~ allocating(r)
<1>1. PICK k : AtCall(r, k)
  BY AtHead
<1>2. begun[r] \in 1 .. Len(prog[r]) /\ StepFits(r, call(r), Head(todo[r]))
  BY <1>1 DEF AtCall
<1>3. Len(prog[r]) \in Nat /\ DOMAIN prog[r] = 1 .. Len(prog[r])
  BY CallsFacts DEF Shape
<1>4. call(r).op = "alloc" <=> allocating(r)
  <2>1. begun[r] \in 1 .. begun[r]
    BY <1>2, <1>3
  <2>2. ASSUME call(r).op = "alloc", NEW i \in 1 .. begun[r]
        PROVE  prog[r][i].op = "alloc"
    <3>1. i \in DOMAIN prog[r] /\ begun[r] \in DOMAIN prog[r] /\ ~ begun[r] < i
      BY <1>2, <1>3
    <3> QED BY <2>2, <3>1 DEF AllocsFirst, call
  <2> QED BY <2>1, <2>2 DEF allocating, call
<1> QED BY <1>2, <1>4 DEF StepFits, driverSteps

\* That time is over once.
LEMMA AllocatingBack ==
  ASSUME NEW r \in Ranks, begun[r] \in Nat, begun'[r] \in Nat, begun[r] <= begun'[r], prog' = prog,
         allocating(r)'
  PROVE  allocating(r)
<1>1. 1 .. begun[r] \subseteq 1 .. begun'[r]
  OBVIOUS
<1> QED BY <1>1 DEF allocating

-----------------------------------------------------------------------------
(* What the two agents count.                                              *)

\* The counts of a queue pair where nothing is done.
LEMMA CountSame ==
  ASSUME NEW r, NEW q, CountOf(r, q), Untouched(<<r, q>>), Untouched(<<q, r>>),
         allocating(r)' => allocating(r),
         atStep(r, q, "poll")' <=> atStep(r, q, "poll"),
         atStep(r, q, "copy")' <=> atStep(r, q, "copy")
  PROVE  CountOf(r, q)'
BY DEF CountOf, Untouched, sent, received

\* What a step of the host does to its queue pair that the peer's counts
\* depend on.
Acted(r, q) ==
  LET qp == <<r, q>> IN
  /\ sent(r, q) \in Nat /\ sent(r, q)' \in {sent(r, q), sent(r, q) + 1}
  /\ received(r, q) \in Nat
  /\ received(r, q)' # received(r, q) =>
       received(r, q)' = received(r, q) + 1 /\ qp \notin disabled /\ received(r, q) + 1 <= RQPI[qp]
  /\ qp \in disabled => qp \in disabled'
  /\ qp \notin disabled' => CQHEAD'[qp] = CQHEAD[qp] /\ RQPI'[qp] = RQPI[qp]

\* The counts of a queue pair whose peer is acted on.
LEMMA CountPeer ==
  ASSUME NEW r, NEW q, CountOf(r, q), CountOf(q, r), Untouched(<<r, q>>), Acted(q, r),
         sent(r, q) \in Nat, received(r, q) \in Nat,
         allocating(r)' <=> allocating(r),
         atStep(r, q, "poll")' <=> atStep(r, q, "poll"),
         atStep(r, q, "copy")' <=> atStep(r, q, "copy")
  PROVE  CountOf(r, q)'
<1> DEFINE qp == <<r, q>>
           back == <<q, r>>
<1>1. sent(r, q)' = sent(r, q) /\ received(r, q)' = received(r, q)
  BY DEF Untouched, sent, received
<1>2. qp \notin disabled' =>
        /\ SQPI'[qp] = sent(r, q)' /\ CQHEAD'[qp] \in received(q, r)' .. sent(r, q)'
        /\ RQCI'[qp] = received(r, q)' + (IF atStep(r, q, "copy")' THEN 1 ELSE 0)
        /\ RQPI'[qp] \in RQCI'[qp] .. sent(q, r)'
        /\ back \notin disabled' => RQPI'[qp] = CQHEAD'[back]
  <2> SUFFICES ASSUME qp \notin disabled'
               PROVE  /\ SQPI'[qp] = sent(r, q)' /\ CQHEAD'[qp] \in received(q, r)' .. sent(r, q)'
                      /\ RQCI'[qp] = received(r, q)' + (IF atStep(r, q, "copy")' THEN 1 ELSE 0)
                      /\ RQPI'[qp] \in RQCI'[qp] .. sent(q, r)'
                      /\ back \notin disabled' => RQPI'[qp] = CQHEAD'[back]
    OBVIOUS
  <2>1. /\ qp \notin disabled /\ SQPI'[qp] = SQPI[qp] /\ CQHEAD'[qp] = CQHEAD[qp]
        /\ RQCI'[qp] = RQCI[qp] /\ RQPI'[qp] = RQPI[qp]
    BY DEF Untouched
  <2>2. /\ SQPI[qp] = sent(r, q) /\ CQHEAD[qp] \in received(q, r) .. sent(r, q)
        /\ RQCI[qp] = received(r, q) + (IF atStep(r, q, "copy") THEN 1 ELSE 0)
        /\ RQPI[qp] \in RQCI[qp] .. sent(q, r)
        /\ back \notin disabled => RQPI[qp] = CQHEAD[back]
    BY <2>1 DEF CountOf
  <2>3. back \notin disabled => RQPI[back] = CQHEAD[qp]
    BY <2>1 DEF CountOf
  <2>4. CQHEAD'[qp] \in received(q, r)' .. sent(r, q)'
    BY <1>1, <2>1, <2>2, <2>3 DEF Acted
  <2>5. RQPI'[qp] \in RQCI'[qp] .. sent(q, r)'
    <3>1. RQPI[qp] \in Int /\ RQCI[qp] <= RQPI[qp] /\ RQPI[qp] <= sent(q, r)
      <4>1. RQPI[qp] \in RQCI[qp] .. sent(q, r)
        BY <2>2
      <4> QED BY <4>1
    <3>2. sent(q, r) \in Nat /\ sent(q, r)' \in {sent(q, r), sent(q, r) + 1}
      BY DEF Acted
    <3>3. RQCI[qp] \in Int
      BY <2>2
    <3> QED BY <2>1, <3>1, <3>2, <3>3
  <2>6. back \notin disabled' => RQPI'[qp] = CQHEAD'[back]
    BY <2>1, <2>2 DEF Acted
  <2> QED BY <1>1, <2>1, <2>2, <2>4, <2>5, <2>6
<1>3. allocating(r)' =>
        /\ qp \notin disabled'
        /\ sq_pidb'[qp] = sent(r, q)'
        /\ sq_cidb'[qp] = sent(r, q)' - (IF atStep(r, q, "poll")' THEN 1 ELSE 0)
        /\ sq_cidb'[qp] <= CQHEAD'[qp]
        /\ rq_pidb'[qp] = RQCI'[qp]
  BY <1>1 DEF CountOf, Untouched
<1>4. qp \in disabled' => RQPI'[qp] = 0 /\ RQCI'[qp] = 0
  BY DEF CountOf, Untouched
<1> QED BY <1>2, <1>3, <1>4 DEF CountOf

\* The numbers of messages.
LEMMA HistoriesCount ==
  ASSUME NEW r \in Ranks, NEW q \in Ranks, r # q, Shape
  PROVE  /\ sent(r, q) \in Nat /\ received(r, q) \in Nat /\ <<r, q>> \in QPs
         /\ isSeq(posted[<<r, q>>]) /\ isSeq(taken[<<r, q>>])
<1>1. <<r, q>> \in QPs
  BY DEF QPs
<1>2. isSeq(posted[<<r, q>>]) /\ isSeq(taken[<<r, q>>])
  BY <1>1 DEF Shape
<1>3. Len(posted[<<r, q>>]) \in Nat /\ Len(taken[<<r, q>>]) \in Nat
  BY <1>2 DEF isSeq
<1> QED BY <1>1, <1>2, <1>3 DEF sent, received

\* The counts of the host that acts, at the queue pair it acts on.
LEMMA CountActor ==
  ASSUME NEW r \in Ranks, NEW q \in Ranks, r # q, Shape, TodoOf(r), Works(r), AllocsFirst(r),
         CountOf(r, q), Head(todo[r]).q = q, sent(r, q)' < QDepth, sent(q, r) < QDepth
  PROVE  CountOf(r, q)' /\ Acted(r, q)
<1> DEFINE s == Head(todo[r])
           qp == <<r, q>>
           back == <<q, r>>
           n == sent(r, q)
           rc == received(r, q)
<1>1. /\ n \in Nat /\ rc \in Nat /\ sent(q, r) \in Nat /\ qp \in QPs /\ back \in QPs /\ back # qp
      /\ isSeq(posted[qp]) /\ isSeq(taken[qp])
  BY HistoriesCount
<1>2. /\ DOMAIN sq = QPs /\ DOMAIN sq_pidb = QPs /\ DOMAIN sq_cidb = QPs /\ DOMAIN rq_pidb = QPs
      /\ DOMAIN SQPI = QPs /\ DOMAIN CQHEAD = QPs /\ DOMAIN RQPI = QPs /\ DOMAIN RQCI = QPs
      /\ DOMAIN posted = QPs /\ DOMAIN taken = QPs
  BY DEF Shape
<1>3. todo[r] # <<>> /\ Done(r)
  BY WorksFacts
<1>4. /\ s.do \in driverSteps => allocating(r)
      /\ s.do \in {"free", "wqe", "recv"} => ~ allocating(r)
  BY <1>3, AllocPhase
<1>5. Untouched(back) /\ prog' = prog /\ begun' = begun
  <2>1. Host(r) /\ back # <<r, s.q>>
    BY <1>1 DEF Host, Works
  <2> QED BY <1>1, <1>3, <2>1, Elsewhere DEF Done
<1>6. allocating(r)' <=> allocating(r)
  BY <1>5 DEF allocating
<1>7. sent(q, r)' = sent(q, r) /\ received(q, r)' = received(q, r)
  BY <1>5 DEF Untouched, sent, received
<1>8. \A do : atStep(r, q, do) <=> s.do = do
  BY <1>3 DEF atStep
<1>9. /\ atStep(r, q, "poll")' <=> s.do = "advertise"
      /\ atStep(r, q, "copy")' <=> s.do = "post_recv"
  <2>1. CASE todo'[r] = <<>>
    BY <2>1, WorksNext DEF mayEnd, isDataPost, atStep
  <2>2. CASE todo'[r] # <<>>
    BY <2>2, WorksNext DEF Follows, isDataPost, isWait, atStep
  <2> QED BY <2>1, <2>2
<1>10. /\ allocating(r) =>
            /\ qp \notin disabled /\ sq_pidb[qp] = n
            /\ sq_cidb[qp] = n - (IF s.do = "poll" THEN 1 ELSE 0)
            /\ sq_cidb[qp] <= CQHEAD[qp] /\ rq_pidb[qp] = RQCI[qp]
       /\ qp \in disabled => RQPI[qp] = 0 /\ RQCI[qp] = 0
       /\ qp \notin disabled =>
            /\ SQPI[qp] = n /\ CQHEAD[qp] \in received(q, r) .. n
            /\ RQCI[qp] = rc + (IF s.do = "copy" THEN 1 ELSE 0)
            /\ RQPI[qp] \in RQCI[qp] .. sent(q, r)
            /\ back \notin disabled => RQPI[qp] = CQHEAD[back]
  BY <1>8 DEF CountOf
<1>11. received(q, r) \in Nat
  BY HistoriesCount
\* It is enough to know the new counts.
<1>12. ASSUME /\ allocating(r) =>
                    /\ qp \notin disabled' /\ sq_pidb'[qp] = sent(r, q)'
                    /\ sq_cidb'[qp] = sent(r, q)' - (IF s.do = "advertise" THEN 1 ELSE 0)
                    /\ sq_cidb'[qp] <= CQHEAD'[qp] /\ rq_pidb'[qp] = RQCI'[qp],
              qp \in disabled' => RQPI'[qp] = 0 /\ RQCI'[qp] = 0,
              qp \notin disabled' =>
                /\ SQPI'[qp] = sent(r, q)' /\ CQHEAD'[qp] \in received(q, r) .. sent(r, q)'
                /\ RQCI'[qp] = received(r, q)' + (IF s.do = "post_recv" THEN 1 ELSE 0)
                /\ RQPI'[qp] \in RQCI'[qp] .. sent(q, r)
                /\ back \notin disabled => RQPI'[qp] = CQHEAD[back]
       PROVE  CountOf(r, q)'
  <2>1. (back \in disabled' <=> back \in disabled) /\ CQHEAD'[back] = CQHEAD[back]
    BY <1>5 DEF Untouched
  <2> HIDE DEF s, n, rc
  <2> QED BY <1>6, <1>7, <1>9, <1>12, <2>1 DEF CountOf
<1>13. QDepth \in Nat /\ \A i \in Nat : i < QDepth => i % QDepth = i
  <2>1. QDepth \in Nat /\ QDepth # 0
    BY RdmaAssumption
  <2> QED BY <2>1, SlotOfSlot
<1> HIDE DEF s, n, rc, qp, back
<1>14. CASE DevMemAlloc(r) \/ RegMr(r)
  <2>1. Untouched(qp) /\ s.do \in driverSteps /\ s.do \notin {"poll", "copy", "advertise", "post_recv"}
    BY <1>14 DEF DevMemAlloc, RegMr, AtStep, qps, Untouched, driverSteps, s
  <2>2. sent(r, q)' = n /\ received(r, q)' = rc
    BY <2>1 DEF Untouched, sent, received, n, rc, qp
  <2>3. Acted(r, q)
    BY <1>1, <2>1, <2>2 DEF Acted, Untouched, qp, n, rc
  <2>4. CountOf(r, q)'
    BY <1>4, <1>10, <1>12, <2>1, <2>2 DEF Untouched
  <2> QED BY <2>3, <2>4
<1>15. CASE PostWqe(r)
  <2>1. s.do = "advertise" /\ s.q = q
    BY <1>15 DEF PostWqe, AtStep, s
  <2>2. /\ sq_pidb'[qp] = sq_pidb[qp] + 1 /\ SQPI'[qp] = sq_pidb[qp] + 1
        /\ \E e : posted'[qp] = Append(posted[qp], e)
        /\ disabled' = disabled /\ sq_cidb' = sq_cidb /\ rq_pidb' = rq_pidb /\ CQHEAD' = CQHEAD
        /\ RQPI' = RQPI /\ RQCI' = RQCI /\ taken' = taken
    BY <1>1, <1>2, <1>15, <2>1 DEF PostWqe, Posted, s, qp
  <2>3. sent(r, q)' = n + 1 /\ received(r, q)' = rc
    BY <1>1, <2>2, AppendFacts DEF sent, received, n, rc, qp
  <2>4. Acted(r, q)
    BY <1>1, <2>2, <2>3 DEF Acted, qp, n, rc
  <2>5. allocating(r)
    BY <1>4, <2>1 DEF driverSteps
  <2>6. CountOf(r, q)'
    BY <1>1, <1>10, <1>11, <1>12, <2>1, <2>2, <2>3, <2>5
  <2> QED BY <2>4, <2>6
<1>16. CASE PollCompletion(r)
  <2>1. s.do = "poll" /\ s.q = q /\ CQHEAD[qp] # sq_cidb[qp]
    BY <1>16 DEF PollCompletion, AtStep, s, qp
  <2>2. /\ sq_cidb'[qp] = sq_cidb[qp] + 1 /\ sq_pidb' = sq_pidb /\ SQPI' = SQPI
        /\ posted' = posted /\ disabled' = disabled /\ rq_pidb' = rq_pidb /\ CQHEAD' = CQHEAD
        /\ RQPI' = RQPI /\ RQCI' = RQCI /\ taken' = taken
    BY <1>1, <1>2, <1>16, <2>1 DEF PollCompletion, s, qp
  <2>3. sent(r, q)' = n /\ received(r, q)' = rc
    BY <2>2 DEF sent, received, n, rc
  <2>4. Acted(r, q)
    BY <1>1, <2>2, <2>3 DEF Acted, qp, n, rc
  <2>5. allocating(r)
    BY <1>4, <2>1 DEF driverSteps
  <2>6. CountOf(r, q)'
    BY <1>1, <1>10, <1>11, <1>12, <2>1, <2>2, <2>3, <2>5
  <2> QED BY <2>4, <2>6
<1>17. CASE Free(r)
  <2>1. s.do = "free" /\ s.q = q
    BY <1>17 DEF Free, AtStep, s
  <2>2. /\ disabled' = disabled \cup {qp} /\ RQPI'[qp] = 0 /\ RQCI'[qp] = 0
        /\ posted' = posted /\ taken' = taken
    BY <1>1, <1>2, <1>17, <2>1 DEF Free, s, qp
  <2>3. sent(r, q)' = n /\ received(r, q)' = rc
    BY <2>2 DEF sent, received, n, rc
  <2>4. Acted(r, q)
    BY <1>1, <2>2, <2>3 DEF Acted, qp, n, rc
  <2>5. ~ allocating(r)
    BY <1>4, <2>1
  <2>6. CountOf(r, q)'
    BY <1>12, <2>2, <2>5
  <2> QED BY <2>4, <2>6
<1>18. CASE TakeRqe(r)
  <2>1. s.do = "post_recv" /\ s.q = q /\ RQPI[qp] # rq_pidb[qp]
    BY <1>18 DEF TakeRqe, AtStep, s, qp
  <2>2. /\ rq_pidb'[qp] = rq_pidb[qp] + 1 /\ RQCI'[qp] = rq_pidb[qp] + 1
        /\ sq_cidb' = sq_cidb /\ sq_pidb' = sq_pidb /\ SQPI' = SQPI
        /\ posted' = posted /\ disabled' = disabled /\ CQHEAD' = CQHEAD
        /\ RQPI' = RQPI /\ taken' = taken
    BY <1>1, <1>2, <1>18, <2>1 DEF TakeRqe, next, s, qp
  <2>3. sent(r, q)' = n /\ received(r, q)' = rc
    BY <2>2 DEF sent, received, n, rc
  <2>4. Acted(r, q)
    BY <1>1, <2>2, <2>3 DEF Acted, qp, n, rc
  <2>5. allocating(r)
    BY <1>4, <2>1 DEF driverSteps
  <2>6. CountOf(r, q)'
    BY <1>1, <1>10, <1>11, <1>12, <2>1, <2>2, <2>3, <2>5
  <2> QED BY <2>4, <2>6
<1>19. CASE CopyRqe(r)
  <2>1. s.do = "copy" /\ s.q = q
    BY <1>19 DEF CopyRqe, AtStep, s
  <2>2. /\ \E e : taken'[qp] = Append(taken[qp], e)
        /\ rq_pidb' = rq_pidb /\ RQCI' = RQCI
        /\ sq_cidb' = sq_cidb /\ sq_pidb' = sq_pidb /\ SQPI' = SQPI
        /\ posted' = posted /\ disabled' = disabled /\ CQHEAD' = CQHEAD
        /\ RQPI' = RQPI
    BY <1>1, <1>2, <1>19, <2>1 DEF CopyRqe, Taken, qps, s, qp
  <2>3. sent(r, q)' = n /\ received(r, q)' = rc + 1
    BY <1>1, <2>2, AppendFacts DEF sent, received, n, rc, qp
  <2>5. allocating(r)
    BY <1>4, <2>1 DEF driverSteps
  <2>4. Acted(r, q)
    <3>1. qp \notin disabled /\ rc + 1 <= RQPI[qp]
      BY <1>1, <1>10, <2>1, <2>5
    <3> QED BY <1>1, <2>2, <2>3, <3>1 DEF Acted, qp, n, rc
  <2>6. CountOf(r, q)'
    BY <1>1, <1>10, <1>11, <1>12, <2>1, <2>2, <2>3, <2>5
  <2> QED BY <2>4, <2>6
<1>20. CASE PostRdmaWqe(r)
  <2>1. s.do = "wqe" /\ s.q = q
    BY <1>20 DEF PostRdmaWqe, AtStep, s
  <2>2. /\ \E e : posted'[qp] = Append(posted[qp], e)
        /\ SQPI'[qp] = (SQPI[qp] + 1) % QDepth
        /\ disabled' = disabled /\ CQHEAD' = CQHEAD
        /\ RQPI' = RQPI /\ RQCI' = RQCI /\ taken' = taken
    BY <1>1, <1>2, <1>20, <2>1 DEF PostRdmaWqe, Posted, after, s, qp
  <2>3. sent(r, q)' = n + 1 /\ received(r, q)' = rc
    BY <1>1, <2>2, AppendFacts DEF sent, received, n, rc, qp
  <2>4. Acted(r, q)
    BY <1>1, <2>2, <2>3 DEF Acted, qp, n, rc
  <2>5. ~ allocating(r)
    BY <1>4, <2>1
  <2>6. (n + 1) % QDepth = n + 1
    BY <1>1, <1>13, <2>3
  <2>7. CountOf(r, q)'
    BY <1>1, <1>10, <1>11, <1>12, <2>1, <2>2, <2>3, <2>5, <2>6
  <2> QED BY <2>4, <2>7
<1>21. CASE PostRdmaRecv(r)
  <2>1. s.do = "recv" /\ s.q = q /\ RQPI[qp] # RQCI[qp] % QDepth
    BY <1>21 DEF PostRdmaRecv, AtStep, s, qp
  <2>2. /\ \E e : taken'[qp] = Append(taken[qp], e)
        /\ RQCI'[qp] = (RQCI[qp] + 1) % QDepth /\ SQPI' = SQPI
        /\ posted' = posted /\ disabled' = disabled /\ CQHEAD' = CQHEAD
        /\ RQPI' = RQPI
    BY <1>1, <1>2, <1>21, <2>1 DEF PostRdmaRecv, Taken, after, s, qp
  <2>3. sent(r, q)' = n /\ received(r, q)' = rc + 1
    BY <1>1, <2>2, AppendFacts DEF sent, received, n, rc, qp
  <2>5. ~ allocating(r)
    BY <1>4, <2>1
  <2>6. qp \notin disabled
    <3>1. 0 % QDepth = 0
      <4>1. 0 \in Nat /\ 0 < QDepth
        BY RdmaAssumption
      <4> QED BY <1>13, <4>1
    <3>2. qp \in disabled => RQPI[qp] = 0 /\ RQCI[qp] = 0
      BY <1>10
    <3> QED BY <2>1, <3>1, <3>2
  <2>7. RQCI[qp] = rc /\ rc <= RQPI[qp] /\ RQPI[qp] <= sent(q, r) /\ RQPI[qp] \in Int
    BY <1>1, <1>10, <2>1, <2>6
  <2>8. rc % QDepth = rc
    BY <1>1, <1>13, <2>7
  <2>9. rc + 1 <= RQPI[qp]
    BY <1>1, <2>1, <2>7, <2>8
  <2>10. (rc + 1) % QDepth = rc + 1
    BY <1>1, <1>13, <2>7, <2>9
  <2>4. Acted(r, q)
    BY <1>1, <2>2, <2>3, <2>6, <2>9 DEF Acted, qp, n, rc
  <2>11. CountOf(r, q)'
    BY <1>1, <1>10, <1>11, <1>12, <2>1, <2>2, <2>3, <2>5, <2>6, <2>7, <2>9, <2>10
  <2> QED BY <2>4, <2>11
<1> QED BY <1>14, <1>15, <1>16, <1>17, <1>18, <1>19, <1>20, <1>21 DEF Works

\* Nothing changes.
LEMMA Same ==
  ASSUME UNCHANGED vars
  PROVE  /\ prog' = prog /\ begun' = begun /\ todo' = todo /\ table' = table /\ memory' = memory
         /\ dev_mem_ptr' = dev_mem_ptr /\ sq' = sq /\ sq_pidb' = sq_pidb /\ sq_cidb' = sq_cidb
         /\ rq_pidb' = rq_pidb /\ SQPI' = SQPI /\ CQHEAD' = CQHEAD /\ RQPI' = RQPI /\ RQCI' = RQCI
         /\ disabled' = disabled /\ posted' = posted /\ taken' = taken
BY DEF vars, host, mem, qps

\* The histories only grow.
Grown(h, g) == Len(h) <= Len(g) /\ \A i \in 1 .. Len(h) : g[i] = h[i]

\* No step takes a message back.
LEMMA Grow ==
  ASSUME Shape, Base, [Next]_vars, NEW r \in Ranks, NEW q \in Ranks, r # q
  PROVE  Grown(posted[<<r, q>>], posted'[<<r, q>>]) /\ Grown(taken[<<r, q>>], taken'[<<r, q>>])
<1>1. /\ Len(posted[<<r, q>>]) \in Nat /\ Len(taken[<<r, q>>]) \in Nat
      /\ isSeq(posted[<<r, q>>]) /\ isSeq(taken[<<r, q>>])
  BY HistoriesCount DEF sent, received
<1>2. CASE posted'[<<r, q>>] = posted[<<r, q>>] /\ taken'[<<r, q>>] = taken[<<r, q>>]
  BY <1>1, <1>2 DEF Grown
<1>3. CASE Works(r)
  <2>1. Records(r, q)
    BY <1>3, WorksFacts DEF Base, TodoInv
  <2>2. /\ posted'[<<r, q>>] = posted[<<r, q>>] \/ \E e : posted'[<<r, q>>] = Append(posted[<<r, q>>], e)
        /\ taken'[<<r, q>>] = taken[<<r, q>>] \/ \E e : taken'[<<r, q>>] = Append(taken[<<r, q>>], e)
    BY <2>1 DEF Records
  <2>3. \A h : isSeq(h) /\ Len(h) \in Nat => Grown(h, h) /\ \A e : Grown(h, Append(h, e))
    BY AppendFacts DEF Grown
  <2> QED BY <1>1, <2>2, <2>3
<1>4. CASE ~ Works(r)
  <2>1. CASE UNCHANGED vars
    BY <1>2, <2>1, Same
  <2>2. CASE \E qp \in QPs : Deliver(qp[1], qp[2])
    BY <1>2, <2>2 DEF Deliver
  <2>3. ASSUME NEW x \in Ranks, Begin(x)
        PROVE  posted' = posted /\ taken' = taken
    BY <2>3 DEF Begin
  <2>4. ASSUME NEW x \in Ranks, x # r, Works(x)
        PROVE  posted'[<<r, q>>] = posted[<<r, q>>] /\ taken'[<<r, q>>] = taken[<<r, q>>]
    BY <2>4, WorksFacts DEF Base, TodoInv
  <2> QED BY <1>2, <1>4, <2>1, <2>2, <2>3, <2>4 DEF Next, Host, Works
<1> QED BY <1>3, <1>4

\* The programs stay, and the calls are begun in order.
LEMMA ProgSame ==
  ASSUME Shape, Base, [Next]_vars
  PROVE  prog' = prog /\ \A r \in Ranks : begun[r] \in Nat /\ begun'[r] \in Nat /\ begun[r] <= begun'[r]
<1>0. \A r \in Ranks : begun[r] \in Nat
  BY DEF Base, TodoInv, TodoOf
<1>1. CASE UNCHANGED vars
  BY <1>0, <1>1, Same
<1>2. CASE \E qp \in QPs : Deliver(qp[1], qp[2])
  BY <1>0, <1>2 DEF Deliver, host
<1>3. CASE \E r \in Ranks : Begin(r)
  <2>1. DOMAIN begun = Ranks
    BY DEF Shape
  <2> QED BY <1>0, <1>3, <2>1 DEF Begin
<1>4. CASE \E r \in Ranks : Works(r)
  <2>1. prog' = prog /\ begun' = begun
    BY <1>4, WorksFacts DEF Base, TodoInv, Done
  <2> QED BY <1>0, <2>1
<1> QED BY <1>1, <1>2, <1>3, <1>4 DEF Next, Host, Works

\* What the programs must respect they have respected before.
LEMMA RegularFacts ==
  ASSUME Shape, Base, [Next]_vars, Regular'
  PROVE  /\ Regular
         /\ \A r \in Ranks : AllocsFirst(r)
         /\ \A r, q \in Ranks : r # q => /\ sent(r, q) \in Nat /\ received(r, q) \in Nat
                                         /\ sent(r, q) <= sent(r, q)' /\ sent(r, q)' \in Nat
                                         /\ sent(r, q)' <= PageUnits /\ PageUnits < QDepth
                                         /\ sent(r, q) <= PageUnits /\ sent(r, q)' < QDepth
<1>1. prog' = prog
  BY ProgSame
<1>2. \A r \in Ranks : AllocsFirst(r)' <=> AllocsFirst(r)
  BY <1>1 DEF AllocsFirst
<1>3. PageUnits \in Nat /\ QDepth \in Nat /\ PageUnits < QDepth
  BY RdmaAssumption
<1>4. ASSUME NEW r \in Ranks, NEW q \in Ranks, r # q
      PROVE  /\ sent(r, q) \in Nat /\ received(r, q) \in Nat /\ sent(r, q)' \in Nat
             /\ sent(r, q) <= sent(r, q)' /\ sent(r, q)' <= PageUnits
  <2>1. sent(r, q) \in Nat /\ received(r, q) \in Nat /\ <<r, q>> \in QPs
    BY <1>4, HistoriesCount
  <2>2. sent(r, q) <= sent(r, q)'
    BY <1>4, Grow DEF sent, Grown
  <2>3. sent(r, q)' <= PageUnits
    <3>1. Fits(r, q)'
      <4>1. Fits(<<r, q>>[1], <<r, q>>[2])'
        BY <2>1 DEF Regular
      <4> QED BY <4>1
    <3> QED BY <3>1 DEF Fits, sent
  <2>4. sent(r, q)' \in Nat
    <3>1. Shape'
      BY ShapeStep
    <3>2. isSeq(posted'[<<r, q>>])
      BY <2>1, <3>1 DEF Shape
    <3> QED BY <3>2 DEF isSeq, sent
  <2> QED BY <2>1, <2>2, <2>3, <2>4
<1>5. \A qp \in QPs : Fits(qp[1], qp[2])
  <2> SUFFICES ASSUME NEW qp \in QPs PROVE Fits(qp[1], qp[2])
    OBVIOUS
  <2>1. qp[1] \in Ranks /\ qp[2] \in Ranks /\ qp[1] # qp[2]
    BY DEF QPs
  <2>2. sent(qp[1], qp[2]) <= PageUnits
    BY <1>3, <1>4, <2>1
  <2> QED BY <2>2 DEF Fits, sent
<1>6. Regular
  BY <1>1, <1>2, <1>5 DEF Regular
<1> QED BY <1>2, <1>3, <1>4, <1>6 DEF Regular

-----------------------------------------------------------------------------
(* A SEND is executed.                                                     *)

\* What the execution of a SEND changes: the index never wraps.
LEMMA DeliverFacts ==
  ASSUME NEW a \in Ranks, NEW b \in Ranks, a # b, Shape, CountOf(a, b), CountOf(b, a),
         sent(a, b) < QDepth, sent(a, b) \in Nat, received(b, a) \in Nat, Deliver(a, b)
  PROVE  /\ <<a, b>> \notin disabled /\ <<b, a>> \notin disabled
         /\ CQHEAD[<<a, b>>] \in Nat /\ CQHEAD[<<a, b>>] + 1 <= sent(a, b)
         /\ RQPI[<<b, a>>] = CQHEAD[<<a, b>>]
         /\ CQHEAD'[<<a, b>>] = CQHEAD[<<a, b>>] + 1 /\ RQPI'[<<b, a>>] = RQPI[<<b, a>>] + 1
         /\ \A qp \in QPs : /\ qp # <<a, b>> => CQHEAD'[qp] = CQHEAD[qp]
                            /\ qp # <<b, a>> => RQPI'[qp] = RQPI[qp]
         /\ prog' = prog /\ begun' = begun /\ todo' = todo /\ table' = table /\ dev_mem_ptr' = dev_mem_ptr
         /\ sq' = sq /\ sq_pidb' = sq_pidb /\ sq_cidb' = sq_cidb /\ rq_pidb' = rq_pidb /\ SQPI' = SQPI
         /\ RQCI' = RQCI /\ disabled' = disabled /\ posted' = posted /\ taken' = taken
<1> DEFINE qp == <<a, b>>
           there == <<b, a>>
<1>1. qp \in QPs /\ there \in QPs /\ DOMAIN CQHEAD = QPs /\ DOMAIN RQPI = QPs
  BY DEF Shape, QPs
<1>2. /\ qp \notin disabled /\ there \notin disabled /\ CQHEAD[qp] # SQPI[qp] % QDepth
      /\ CQHEAD' = [CQHEAD EXCEPT ![qp] = after(@)] /\ RQPI' = [RQPI EXCEPT ![there] = after(@)]
      /\ prog' = prog /\ begun' = begun /\ todo' = todo /\ table' = table /\ dev_mem_ptr' = dev_mem_ptr
      /\ sq' = sq /\ sq_pidb' = sq_pidb /\ sq_cidb' = sq_cidb /\ rq_pidb' = rq_pidb /\ SQPI' = SQPI
      /\ RQCI' = RQCI /\ disabled' = disabled /\ posted' = posted /\ taken' = taken
  BY DEF Deliver, host, submitted
<1>3. /\ SQPI[qp] = sent(a, b) /\ CQHEAD[qp] \in received(b, a) .. sent(a, b)
      /\ RQPI[there] = CQHEAD[qp]
  BY <1>2 DEF CountOf
<1>4. QDepth \in Nat \ {0}
  BY RdmaAssumption
<1>5. sent(a, b) % QDepth = sent(a, b)
  BY <1>4, SlotOfSlot
<1>6. CQHEAD[qp] \in Nat /\ CQHEAD[qp] + 1 <= sent(a, b)
  BY <1>2, <1>3, <1>5
<1>7. (CQHEAD[qp] + 1) % QDepth = CQHEAD[qp] + 1
  BY <1>4, <1>6, SlotOfSlot
<1>8. /\ CQHEAD'[qp] = after(CQHEAD[qp]) /\ RQPI'[there] = after(RQPI[there])
      /\ \A x \in QPs : (x # qp => CQHEAD'[x] = CQHEAD[x]) /\ (x # there => RQPI'[x] = RQPI[x])
  BY <1>1, <1>2
<1> HIDE DEF qp, there
<1>9. CQHEAD'[qp] = CQHEAD[qp] + 1 /\ RQPI'[there] = RQPI[there] + 1
  BY <1>3, <1>7, <1>8 DEF after
<1> QED BY <1>2, <1>3, <1>6, <1>8, <1>9 DEF qp, there

\* The counts after it.
LEMMA DeliverCount ==
  ASSUME NEW a \in Ranks, NEW b \in Ranks, a # b, Shape, CountOf(a, b), CountOf(b, a),
         sent(a, b) < QDepth, sent(a, b) \in Nat, received(b, a) \in Nat, received(a, b) \in Nat,
         sent(b, a) \in Nat, Deliver(a, b),
         NEW r \in Ranks, NEW q \in Ranks, r # q, CountOf(r, q)
  PROVE  CountOf(r, q)'
<1> DEFINE qp == <<a, b>>
           there == <<b, a>>
           me == <<r, q>>
           back == <<q, r>>
<1>1. /\ qp \notin disabled /\ there \notin disabled
      /\ CQHEAD[qp] \in Nat /\ CQHEAD[qp] + 1 <= sent(a, b)
      /\ RQPI[there] = CQHEAD[qp]
      /\ CQHEAD'[qp] = CQHEAD[qp] + 1 /\ RQPI'[there] = RQPI[there] + 1
      /\ \A x \in QPs : /\ x # qp => CQHEAD'[x] = CQHEAD[x]
                        /\ x # there => RQPI'[x] = RQPI[x]
      /\ prog' = prog /\ begun' = begun /\ todo' = todo
      /\ sq_pidb' = sq_pidb /\ sq_cidb' = sq_cidb /\ rq_pidb' = rq_pidb /\ SQPI' = SQPI
      /\ RQCI' = RQCI /\ disabled' = disabled /\ posted' = posted /\ taken' = taken
  BY DeliverFacts
<1>2. me \in QPs /\ back \in QPs /\ me # back
  BY DEF QPs
<1>3. /\ sent(r, q)' = sent(r, q) /\ sent(q, r)' = sent(q, r)
      /\ received(r, q)' = received(r, q) /\ received(q, r)' = received(q, r)
      /\ (allocating(r)' <=> allocating(r))
      /\ \A do : (atStep(r, q, do)' <=> atStep(r, q, do))
  BY <1>1 DEF sent, received, allocating, atStep
<1>4. (me = qp <=> r = a /\ q = b) /\ (me = there <=> r = b /\ q = a)
      /\ (back = qp <=> r = b /\ q = a) /\ (back = there <=> r = a /\ q = b)
  OBVIOUS
<1>5. CASE me = qp
  <2>1. r = a /\ q = b /\ back = there
    BY <1>4, <1>5
  <2>2. CQHEAD'[me] = CQHEAD[me] + 1 /\ RQPI'[me] = RQPI[me] /\ CQHEAD'[back] = CQHEAD[back]
    BY <1>1, <1>2, <1>5, <2>1
  <2>3. CQHEAD[me] + 1 <= sent(r, q) /\ CQHEAD[me] \in Nat /\ received(q, r) \in Nat /\ sent(r, q) \in Nat
    BY <1>1, <1>5, <2>1
  <2> HIDE DEF me, back, qp, there
  <2>4. CQHEAD[me] \in received(q, r) .. sent(r, q) => CQHEAD'[me] \in received(q, r)' .. sent(r, q)'
    BY <1>3, <2>2, <2>3
  <2>5. sq_cidb[me] \in Int /\ sq_cidb[me] <= CQHEAD[me] => sq_cidb[me] <= CQHEAD'[me]
    BY <2>2, <2>3
  <2>6. allocating(r) => sq_cidb[me] \in Int
    BY <2>3 DEF CountOf, me
  <2> QED BY <1>1, <1>3, <2>2, <2>4, <2>5, <2>6 DEF CountOf, me, back
<1>6. CASE me = there
  <2>1. r = b /\ q = a /\ back = qp
    BY <1>4, <1>6
  <2>2. CQHEAD'[me] = CQHEAD[me] /\ RQPI'[me] = RQPI[me] + 1 /\ CQHEAD'[back] = CQHEAD[back] + 1
    BY <1>1, <1>2, <1>6, <2>1
  <2>3. RQPI[me] \in Nat /\ RQPI[me] + 1 <= sent(q, r) /\ sent(q, r) \in Nat
    BY <1>1, <1>6, <2>1
  <2>7. me \notin disabled /\ RQPI[me] = CQHEAD[back]
    BY <1>1, <1>6, <2>1
  <2>8. received(r, q) \in Nat
    BY <2>1
  <2> HIDE DEF me, back, qp, there
  <2>4. RQCI[me] \in Int /\ RQPI[me] \in RQCI[me] .. sent(q, r)
    BY <2>7, <2>8 DEF CountOf, me
  <2>5. RQPI'[me] \in RQCI[me] .. sent(q, r) /\ RQPI'[me] = CQHEAD'[back]
    BY <2>2, <2>3, <2>4, <2>7
  <2> QED BY <1>1, <1>3, <2>2, <2>5, <2>7 DEF CountOf, me, back
<1>7. CASE me # qp /\ me # there
  <2>1. back # qp /\ back # there
    BY <1>4, <1>7
  <2>2. CQHEAD'[me] = CQHEAD[me] /\ RQPI'[me] = RQPI[me] /\ CQHEAD'[back] = CQHEAD[back]
    BY <1>1, <1>2, <1>7, <2>1
  <2> HIDE DEF me, back, qp, there
  <2> QED BY <1>1, <1>3, <2>2 DEF CountOf, me, back
<1> QED BY <1>5, <1>6, <1>7

\* What the two agents count stays right with every step.
LEMMA CountsStep ==
  ASSUME Shape, Base, CountInv, [Next]_vars, Regular'
  PROVE  CountInv'
<1>0. \A r \in Ranks : TodoOf(r) /\ TableOf(r) /\ \A q \in Ranks : r # q => CountOf(r, q)
  BY DEF Base, TodoInv, TableInv, CountInv
<1>1. /\ \A r \in Ranks : AllocsFirst(r)
      /\ \A r, q \in Ranks : r # q => /\ sent(r, q) \in Nat /\ received(r, q) \in Nat
                                      /\ sent(r, q)' < QDepth /\ sent(r, q) <= sent(r, q)' /\ sent(r, q)' \in Nat
  BY RegularFacts
<1>2. \A r, q \in Ranks : r # q => sent(r, q) < QDepth
  <2> SUFFICES ASSUME NEW r \in Ranks, NEW q \in Ranks, r # q
               PROVE  sent(r, q) < QDepth
    OBVIOUS
  <2>1. QDepth \in Nat
    BY RdmaAssumption
  <2> QED BY <1>1, <2>1
<1>3. \A r \in Ranks : allocating(r)' => allocating(r)
  BY ProgSame, AllocatingBack
<1>4. CASE UNCHANGED vars
  <2>1. \A x, y : Untouched(<<x, y>>)
    BY <1>4, Same DEF Untouched
  <2>2. \A x, y, do : atStep(x, y, do)' <=> atStep(x, y, do)
    BY <1>4, Same DEF atStep
  <2> QED BY <1>0, <1>3, <2>1, <2>2, CountSame DEF CountInv
<1>5. ASSUME NEW qp \in QPs, Deliver(qp[1], qp[2])
      PROVE  CountInv'
  <2>1. qp[1] \in Ranks /\ qp[2] \in Ranks /\ qp[1] # qp[2]
    BY DEF QPs
  <2> QED BY <1>0, <1>1, <1>2, <1>5, <2>1, DeliverCount DEF CountInv
<1>6. ASSUME NEW r \in Ranks, Begin(r)
      PROVE  CountInv'
  <2> SUFFICES ASSUME NEW x \in Ranks, NEW y \in Ranks, x # y
               PROVE  CountOf(x, y)'
    BY DEF CountInv
  <2>1. Untouched(<<x, y>>) /\ Untouched(<<y, x>>)
    <3>1. Host(r) /\ <<x, y>> \in QPs /\ <<y, x>> \in QPs
      BY <1>6 DEF Host, QPs
    <3> QED BY <1>6, <3>1, Elsewhere
  <2>2. /\ atStep(x, y, "poll")' <=> atStep(x, y, "poll")
        /\ atStep(x, y, "copy")' <=> atStep(x, y, "copy")
    <3>1. CASE x = r
      <4>1. todo[r] = <<>> /\ (todo'[r] # <<>> => mayStart(Head(todo'[r])))
        BY <1>0, <1>6, BeginNext
      <4> QED BY <3>1, <4>1 DEF atStep, mayStart
    <3>2. CASE x # r
      <4>1. todo'[x] = todo[x]
        BY <1>6, <3>2, OtherHosts DEF Host
      <4> QED BY <4>1 DEF atStep
    <3> QED BY <3>1, <3>2
  <2> QED BY <1>0, <1>3, <2>1, <2>2, CountSame
<1>7. ASSUME NEW r \in Ranks, Works(r)
      PROVE  CountInv'
  <2> DEFINE s == Head(todo[r])
  <2>0. Host(r)
    BY <1>7 DEF Host, Works
  <2>1. \A qp \in QPs : qp # <<r, s.q>> => Untouched(qp)
    BY <2>0, Elsewhere
  <2>2. \A x \in Ranks : x # r => todo'[x] = todo[x]
    BY <2>0, OtherHosts
  <2>3. \A x \in Ranks : allocating(x)' <=> allocating(x)
    <3>1. prog' = prog /\ begun' = begun
      BY <1>0, <1>7, WorksFacts DEF Done
    <3> QED BY <3>1 DEF allocating
  <2>4. /\ todo'[r] = <<>> => mayEnd(s)
        /\ todo'[r] # <<>> => Follows(s, Head(todo'[r]))
        /\ todo[r] # <<>>
    BY <1>0, <1>7, WorksNext, WorksFacts
  <2> SUFFICES ASSUME NEW x \in Ranks, NEW y \in Ranks, x # y
               PROVE  CountOf(x, y)'
    BY DEF CountInv
  <2>5. <<x, y>> \in QPs /\ <<y, x>> \in QPs
    BY DEF QPs
  <2>6. CASE x = r /\ y = s.q
    BY <1>0, <1>1, <1>2, <1>7, <2>6, CountActor
  <2>7. CASE x # r /\ y = r /\ x = s.q
    <3>1. Acted(y, x)
      BY <1>0, <1>1, <1>2, <1>7, <2>7, CountActor
    <3>2. Untouched(<<x, y>>)
      <4>1. <<x, y>> # <<r, s.q>>
        BY <2>7
      <4> QED BY <2>1, <2>5, <4>1
    <3>3. \A do : atStep(x, y, do)' <=> atStep(x, y, do)
      BY <2>2, <2>7 DEF atStep
    <3> HIDE DEF s
    <3> QED BY <1>0, <1>1, <2>3, <3>1, <3>2, <3>3, CountPeer
  <2>8. CASE ~ (x = r /\ y = s.q) /\ ~ (x # r /\ y = r /\ x = s.q)
    <3>1. Untouched(<<x, y>>) /\ Untouched(<<y, x>>)
      <4>1. <<x, y>> # <<r, s.q>> /\ <<y, x>> # <<r, s.q>>
        BY <2>8
      <4> QED BY <2>1, <2>5, <4>1
    <3>2. /\ atStep(x, y, "poll")' <=> atStep(x, y, "poll")
          /\ atStep(x, y, "copy")' <=> atStep(x, y, "copy")
      <4>1. CASE x = r
        <5>1. s.q # y
          BY <2>8, <4>1
        <5>2. ~ atStep(x, y, "poll") /\ ~ atStep(x, y, "copy")
          BY <4>1, <5>1 DEF atStep
        <5>3. ~ atStep(x, y, "poll")' /\ ~ atStep(x, y, "copy")'
          BY <2>4, <4>1, <5>1 DEF atStep, Follows
        <5> QED BY <5>2, <5>3
      <4>2. CASE x # r
        BY <2>2, <4>2 DEF atStep
      <4> QED BY <4>1, <4>2
    <3> QED BY <1>0, <1>3, <3>1, <3>2, CountSame
  <2> QED BY <2>6, <2>7, <2>8
<1> QED BY <1>4, <1>5, <1>6, <1>7 DEF Next, Host, Works

-----------------------------------------------------------------------------
(* Where the queues and the tensors are.                                   *)

\* The pages of a queue pair lie below the tensors.
LEMMA TensorsBound ==
  ASSUME NEW x \in 0 .. others - 1, others \in Nat
  PROVE  (4 * x + 2) * PageUnits \in Nat /\ (4 * x + 2) * PageUnits + 2 * PageUnits <= tensors
<1>1. PageUnits \in Nat /\ x \in Nat /\ x + 1 \in Nat /\ x + 1 <= others
  BY RdmaAssumption
<1>2. (x + 1) * (4 * PageUnits) <= others * (4 * PageUnits)
  BY <1>1, ProductMonotone
<1>3. (x + 1) * (4 * PageUnits) = (4 * x + 2) * PageUnits + 2 * PageUnits
  BY <1>1
<1>4. others * (4 * PageUnits) = tensors
  BY <1>1 DEF tensors
<1>5. (4 * x + 2) * PageUnits \in Nat
  BY <1>1, ProductNat
<1> QED BY <1>2, <1>3, <1>4, <1>5

\* The receive queue and its doorbell.
LEMMA PageFacts ==
  ASSUME NEW r \in Ranks, NEW q \in Ranks, q # r
  PROVE  /\ RqBase(r, q) \in Nat /\ DevDbs(r, q) \in Nat
         /\ RqBase(r, q) + PageUnits = DevDbs(r, q) /\ DevDbs(r, q) < tensors /\ tensors \in Nat
<1> DEFINE x == place(r, q)
<1>1. others \in Nat /\ x \in 0 .. others - 1
  BY PeersFacts
<1>2. RqBase(r, q) = (4 * x + 2) * PageUnits /\ DevDbs(r, q) = (4 * x + 3) * PageUnits
  BY DEF RqBase, DevDbs, QueuePage
<1> HIDE DEF x
<1>3. PageUnits \in Nat \ {0} /\ x \in Int
  BY <1>1, RdmaAssumption
<1>4. (4 * x + 3) * PageUnits = (4 * x + 2) * PageUnits + PageUnits
  BY <1>3
<1>5. (4 * x + 2) * PageUnits \in Nat /\ (4 * x + 2) * PageUnits + 2 * PageUnits <= tensors
  BY <1>1, TensorsBound
<1>6. tensors \in Int
  BY <1>1, <1>3 DEF tensors
<1> DEFINE y == (4 * x + 2) * PageUnits
<1>7. /\ RqBase(r, q) = y /\ DevDbs(r, q) = y + PageUnits
      /\ y \in Nat /\ y + 2 * PageUnits <= tensors
  BY <1>2, <1>4, <1>5
<1> HIDE DEF y
<1> QED BY <1>3, <1>6, <1>7

\* The entries of all receive queues and the doorbells are apart.
LEMMA SlotsApart ==
  ASSUME NEW r \in Ranks, NEW q \in Ranks, q # r, NEW p \in Ranks, p # r,
         NEW i \in 0 .. PageUnits - 1, NEW j \in 0 .. PageUnits - 1
  PROVE  /\ RqBase(r, q) + i = RqBase(r, p) + j => q = p /\ i = j
         /\ RqBase(r, q) + i # DevDbs(r, p)
<1> DEFINE x == place(r, q)
           y == place(r, p)
<1>1. /\ others \in Nat /\ x \in 0 .. others - 1 /\ y \in 0 .. others - 1
      /\ Peers(r)[x + 1] = q /\ Peers(r)[y + 1] = p
  BY PeersFacts
<1>2. /\ RqBase(r, q) = (4 * x + 2) * PageUnits /\ RqBase(r, p) = (4 * y + 2) * PageUnits
      /\ DevDbs(r, p) = (4 * y + 3) * PageUnits
  BY DEF RqBase, DevDbs, QueuePage
<1> HIDE DEF x, y
<1> DEFINE a == 4 * x + 2
           b == 4 * y + 2
           c == 4 * y + 3
<1>3. PageUnits \in Nat \ {0} /\ a \in Nat /\ b \in Nat /\ c \in Nat /\ a # c /\ (a = b => x = y)
  BY <1>1, RdmaAssumption
<1>4. 0 \in 0 .. PageUnits - 1 /\ PageUnits \in Nat
  BY <1>3
<1> HIDE DEF a, b, c
<1>5. a * PageUnits + i = b * PageUnits + j => a = b /\ i = j
  BY <1>3, <1>4, SplitPosition
<1>6. a * PageUnits + i = c * PageUnits + 0 => a = c
  BY <1>3, <1>4, SplitPosition
<1>7. c * PageUnits + 0 = c * PageUnits
  BY <1>3, <1>4, ProductNat
<1> QED BY <1>1, <1>2, <1>3, <1>5, <1>6, <1>7 DEF a, b, c

-----------------------------------------------------------------------------
(* What a host takes was meant for it.                                     *)

\* How far an exchange is, is a number.
LEMMA PosNat ==
  ASSUME NEW r \in Ranks, NEW q \in Ranks, q # r, Shape, TodoOf(r)
  PROVE  pos(r, q) \in Nat
<1>1. CASE begun[r] = 0
  BY <1>1, PosFacts DEF Shape, pos
<1>2. CASE begun[r] # 0
  <2>1. begun[r] \in 1 .. Len(prog[r])
    <3>1. Len(prog[r]) \in Nat
      BY CallsFacts DEF Shape
    <3> QED BY <1>2, <3>1 DEF TodoOf
  <2>2. isCall(r, call(r))
    BY <2>1, CallsFacts DEF Shape, call
  <2>3. PICK m \in 0 .. stepCount(r, call(r)) : todo[r] = remaining(r, call(r), m)
    BY <1>2 DEF TodoOf
  <2>4. stepCount(r, call(r)) \in Nat /\ Len(todo[r]) = stepCount(r, call(r)) - m
    BY <2>2, <2>3, RemainingFacts
  <2>5. done(r) = m
    BY <2>4 DEF done
  <2>6. pos(r, q) = posAt(prog, r, q, begun[r], m) /\ m \in 0 .. stepCount(r, prog[r][begun[r]])
    BY <2>3, <2>5 DEF pos, call
  <2> QED BY <2>1, <2>6, PosFacts DEF Shape
<1> QED BY <1>1, <1>2

\* Its kind is the one that is expected, and the peer has taken everything that
\* was submitted to it before.
LEMMA TakeMatch ==
  ASSUME NEW r \in Ranks, NEW q \in Ranks, q # r, Shape, TodoOf(r), TodoOf(q),
         HistoryOf(r, q), HistoryOf(q, r), Works(r),
         isEvent(Head(todo[r])), ~ isPost(Head(todo[r])), Head(todo[r]).q = q,
         received(r, q) + 1 <= sent(q, r)
  PROVE  /\ posted[<<q, r>>][received(r, q) + 1][1] = kindOf(Head(todo[r]))
         /\ sent(r, q) <= received(q, r)
<1> DEFINE mine == Script(prog, r, q)
           its == Script(prog, q, r)
           p == pos(r, q)
           p2 == pos(q, r)
           kind == kindOf(Head(todo[r]))
<1>1. p \in Nat /\ p + 1 \in 1 .. Len(mine) /\ mine[p + 1].post = FALSE /\ mine[p + 1].kind = kind
  <2>1. isPost(Head(todo[r])) = FALSE
    BY DEF isPost
  <2> DEFINE s == Head(todo[r])
  <2>2. /\ p \in Nat
        /\ IF isEvent(s) /\ s.q = q
             THEN /\ pos(r, q)' = p + 1 /\ p + 1 \in 1 .. Len(mine)
                  /\ mine[p + 1].post = isPost(s) /\ mine[p + 1].kind = kindOf(s)
             ELSE pos(r, q)' = p
    BY PosWorks
  <2>3. isEvent(s) /\ s.q = q
    OBVIOUS
  <2> HIDE DEF p, mine, s
  <2> QED BY <2>1, <2>2, <2>3 DEF s
<1>2. isDual(mine, its) /\ p2 \in Nat
  BY ScriptsDual, PosNat DEF Shape
<1>3. /\ received(r, q) = count(mine, FALSE, p) /\ sent(r, q) = count(mine, TRUE, p)
      /\ Meant(its, TRUE, p2, posted[<<q, r>>]) /\ received(q, r) = count(its, FALSE, p2)
      /\ sent(q, r) = Len(posted[<<q, r>>])
  BY DEF HistoryOf, Meant, sent, received
<1> HIDE DEF mine, its, p, p2, kind
<1>4. count(mine, FALSE, p + 1) = received(r, q) + 1
  <2>1. count(mine, FALSE, p + 1) = count(mine, FALSE, p) + (IF mine[p + 1].post = FALSE THEN 1 ELSE 0)
    BY <1>1, CountStep
  <2> QED BY <1>1, <1>3, <2>1
<1>5. p + 1 <= p2 /\ posted[<<q, r>>][received(r, q) + 1][1] = kind
  <2>0. received(r, q) \in Nat
    BY HistoriesCount
  <2>1. count(mine, FALSE, p + 1) <= Len(posted[<<q, r>>])
    BY <1>3, <1>4
  <2>2. p + 1 <= p2 /\ posted[<<q, r>>][count(mine, FALSE, p + 1)][1] = mine[p + 1].kind
    <3> DEFINE k == p + 1
               h == posted[<<q, r>>]
               i == count(mine, FALSE, p + 1)
    <3>0. k \in 1 .. Len(mine) /\ mine[k].post = FALSE
      BY <1>1
    <3>4. isTake(mine, k, i)
      BY <3>0 DEF isTake
    <3>5. Submits(its, p2, h)
      BY <1>3 DEF Submits
    <3>6. i = received(r, q) + 1 /\ i <= Len(h)
      BY <1>4, <2>1
    <3> HIDE DEF i, h, k
    <3>1. k \in 1 .. Len(mine) /\ isTake(mine, k, i) /\ Submits(its, p2, h) /\ i \in Nat /\ i <= Len(h)
      BY <2>0, <3>0, <3>4, <3>5, <3>6
    <3>2. k <= p2 /\ h[i][1] = mine[k].kind
      BY <1>2, <3>1, MeantMatch
    <3> QED BY <3>2 DEF k, h, i
  <2> QED BY <1>1, <1>4, <2>2
<1>6. sent(r, q) <= received(q, r)
  <2>1. p \in 0 .. Len(mine) /\ p <= p2
    <3>1. Len(mine) \in Nat
      BY <1>2, DualParts
    <3> QED BY <1>1, <1>2, <1>5, <3>1
  <2>2. count(its, FALSE, p) = count(mine, TRUE, p)
    <3>1. FALSE \in BOOLEAN /\ (~ FALSE) = TRUE
      OBVIOUS
    <3>2. count(its, FALSE, p) = count(mine, ~ FALSE, p)
      BY <1>2, <2>1, <3>1, DualCount
    <3> QED BY <3>1, <3>2
  <2>3. count(its, FALSE, p) <= count(its, FALSE, p2)
    BY <1>1, <1>2, <2>1, CountMonotone
  <2> QED BY <1>3, <2>2, <2>3
<1> QED BY <1>5, <1>6 DEF kind

-----------------------------------------------------------------------------
(* What a host writes into its memory.                                     *)

\* A host messages with a tensor in its table, above the queues.
LEMMA OwnTensor ==
  ASSUME NEW r \in Ranks, Shape, TodoOf(r), TableOf(r), todo[r] # <<>>,
         Head(todo[r]).do \in {"wqe", "recv"}
  PROVE  LET s == Head(todo[r]) IN
         /\ s.name \in DOMAIN table[r] /\ s.i \in Nat /\ s.kind \in {"data", "sync"}
         /\ table[r][s.name].pa + s.i \in Nat /\ table[r][s.name].pa + s.i >= tensors
<1> DEFINE s == Head(todo[r])
           c == call(r)
<1>1. PICK k : AtCall(r, k)
  BY AtHead
<1>2. begun[r] \in 1 .. Len(prog[r]) /\ StepFits(r, c, s)
  BY <1>1 DEF AtCall
<1>3. c.op \in {"send", "recv", "barrier"} /\ s.name = c.t /\ s.i \in Nat /\ s.kind \in {"data", "sync"}
  BY <1>2 DEF StepFits
<1>4. Len(prog[r]) \in Nat /\ DOMAIN prog[r] = 1 .. Len(prog[r])
  BY CallsFacts DEF Shape
<1>5. Owned(prog) /\ begun[r] \in DOMAIN prog[r] /\ c = prog[r][begun[r]]
  BY <1>2, <1>4, ProgramsAssumption DEF Shape, call
<1> HIDE DEF s, c
<1>6. PICK j \in 1 .. begun[r] - 1 : prog[r][j].op = "alloc" /\ prog[r][j].t = c.t
  BY <1>3, <1>5 DEF Owned
<1>7. j \in 1 .. begun[r] /\ j # begun[r]
  BY <1>2, <1>4
<1>8. c.t \in DOMAIN table[r]
  BY <1>6, <1>7 DEF TableOf
<1>9. table[r][c.t].pa \in Nat /\ table[r][c.t].pa >= tensors
  BY <1>8 DEF TableOf
<1>10. tensors \in Int
  BY PeersFacts, RdmaAssumption DEF tensors
<1>11. table[r][s.name].pa + s.i \in Nat /\ table[r][s.name].pa + s.i >= tensors
  BY <1>3, <1>9, <1>10
<1> QED BY <1>3, <1>8, <1>11 DEF s

\* A function with one value put into it.
LEMMA PutAt ==
  ASSUME NEW m, NEW i, NEW v, NEW a
  PROVE  /\ a \in DOMAIN Put(m, i, v) <=> a \in DOMAIN m \/ a = i
         /\ a # i => (a \in DOMAIN m => Put(m, i, v)[a] = m[a])
         /\ Put(m, i, v)[i] = v /\ i \in DOMAIN Put(m, i, v)
BY DEF Put

contents(m, a) == IF a \in DOMAIN m THEN m[a] ELSE <<>>

\* A memory with one value put into it.
LEMMA PutContents ==
  ASSUME NEW m, NEW i, NEW v, NEW a
  PROVE  /\ a # i => contents(Put(m, i, v), a) = contents(m, a)
         /\ contents(Put(m, i, v), i) = v
BY PutAt DEF contents

\* At reads the memory.
LEMMA AtContents ==
  ASSUME NEW r, NEW a
  PROVE  At(r, a) = contents(memory[r], a) /\ At(r, a)' = contents(memory'[r], a)
BY DEF At, contents

\* Not into the queues.
LEMMA LowMemory ==
  ASSUME NEW r \in Ranks, Shape, TodoOf(r), TableOf(r), Works(r), NEW a \in Nat, a < tensors
  PROVE  At(r, a)' = At(r, a)
<1> DEFINE s == Head(todo[r])
           m == memory[r]
<1>0. DOMAIN memory = Ranks /\ dev_mem_ptr[r] \in Nat /\ dev_mem_ptr[r] >= tensors
  BY DEF Shape, TableOf
<1>1. tensors \in Int
  BY PeersFacts, RdmaAssumption DEF tensors
<1>2. CASE DevMemAlloc(r)
  <2> DEFINE pa == dev_mem_ptr[r]
             units == pa .. pa + s.size - 1
  <2>1. memory'[r] = [b \in units \cup DOMAIN m |-> IF b \in units THEN <<"data", r, s.name, b - pa>> ELSE m[b]]
    BY <1>0, <1>2 DEF DevMemAlloc
  <2>2. a \notin units
    BY <1>0, <1>1
  <2> HIDE DEF units, m
  <2>3. contents(memory'[r], a) = contents(m, a)
    BY <2>1, <2>2 DEF contents
  <2> QED BY <2>3, AtContents DEF m
<1>3. CASE PostWqe(r)
  <2>1. \E v : memory'[r] = Put(m, dev_mem_ptr[r], v)
    BY <1>0, <1>3 DEF PostWqe
  <2>2. a # dev_mem_ptr[r]
    BY <1>0, <1>1
  <2> HIDE DEF m
  <2>3. contents(memory'[r], a) = contents(m, a)
    BY <2>1, <2>2, PutContents
  <2> QED BY <2>3, AtContents DEF m
<1>4. CASE PostRdmaRecv(r)
  <2> DEFINE pa == table[r][s.name].pa + s.i
  <2>0. todo[r] # <<>> /\ s.do = "recv"
    BY <1>4 DEF PostRdmaRecv, AtStep
  <2>1. memory'[r] = m \/ \E v : memory'[r] = Put(m, pa, v)
    BY <1>0, <1>4 DEF PostRdmaRecv
  <2>2. pa \in Nat /\ pa >= tensors
    BY <2>0, OwnTensor
  <2> HIDE DEF m, pa
  <2>3. a # pa
    BY <1>1, <2>2
  <2>4. contents(memory'[r], a) = contents(m, a)
    BY <2>1, <2>3, PutContents
  <2> QED BY <2>4, AtContents DEF m
<1>5. CASE RegMr(r) \/ PollCompletion(r) \/ Free(r) \/ TakeRqe(r) \/ CopyRqe(r) \/ PostRdmaWqe(r)
  <2>1. memory' = memory
    BY <1>5 DEF RegMr, PollCompletion, Free, TakeRqe, CopyRqe, PostRdmaWqe, mem
  <2> QED BY <2>1 DEF At
<1> QED BY <1>2, <1>3, <1>4, <1>5 DEF Works

\* Nothing while it waits.
LEMMA WaitMemory ==
  ASSUME NEW r \in Ranks, Works(r), isWait(Head(todo[r]))
  PROVE  memory' = memory
<1> DEFINE s == Head(todo[r])
<1>1. s.do = "poll" \/ s.do = "wqe" \/ (s.do = "recv" /\ s.kind = "sync")
  BY DEF isWait
<1>2. CASE DevMemAlloc(r) \/ PostWqe(r)
  BY <1>1, <1>2 DEF DevMemAlloc, PostWqe, AtStep
<1>3. CASE PostRdmaRecv(r)
  <2>1. s.kind = "sync"
    BY <1>1, <1>3 DEF PostRdmaRecv, AtStep
  <2> QED BY <1>3, <2>1 DEF PostRdmaRecv
<1>4. CASE RegMr(r) \/ PollCompletion(r) \/ Free(r) \/ TakeRqe(r) \/ CopyRqe(r) \/ PostRdmaWqe(r)
  BY <1>4 DEF RegMr, PollCompletion, Free, TakeRqe, CopyRqe, PostRdmaWqe, mem
<1> QED BY <1>2, <1>3, <1>4 DEF Works

\* An action of r on its queue pair with q, in a state of the invariant.
Acts(r, q) ==
  /\ r \in Ranks /\ q \in Ranks /\ r # q /\ Shape /\ Works(r)
  /\ TodoOf(r) /\ TodoOf(q) /\ TableOf(r) /\ HistoryOf(r, q) /\ HistoryOf(q, r)
  /\ CountOf(r, q) /\ CountOf(q, r) /\ DataOf(r, q) /\ AllocsFirst(r)
  /\ sent(r, q) \in Nat /\ received(r, q) \in Nat /\ sent(q, r) \in Nat
  /\ sent(r, q)' < QDepth /\ sent(q, r) < QDepth /\ sent(r, q) < QDepth
  /\ isSeq(posted[<<r, q>>]) /\ isSeq(taken[<<r, q>>])

\* The counts of the queue pair that is acted on.
LEMMA ActsCounts ==
  ASSUME NEW r, NEW q, Acts(r, q), Head(todo[r]).q = q
  PROVE  /\ Acted(r, q)
         /\ <<r, q>> \notin disabled => CQHEAD[<<r, q>>] \in received(q, r) .. sent(r, q)
         /\ <<r, q>> \notin disabled' => <<r, q>> \notin disabled /\ CQHEAD'[<<r, q>>] = CQHEAD[<<r, q>>]
<1>1. Acted(r, q)
  BY CountActor DEF Acts
<1> QED BY <1>1 DEF Acts, CountOf, Acted

\* When a host goes on, what it has sent is delivered or needs no memory.
LEMMA WaitOver ==
  ASSUME NEW r, NEW q, Acts(r, q), Head(todo[r]).q = q, ~ isDataPost(Head(todo[r]))
  PROVE  ~ undelivered(r, q)
<1> DEFINE s == Head(todo[r])
           qp == <<r, q>>
<1>0. /\ r \in Ranks /\ q \in Ranks /\ r # q /\ Shape /\ Works(r)
      /\ TodoOf(r) /\ TodoOf(q) /\ TableOf(r) /\ HistoryOf(r, q) /\ HistoryOf(q, r)
      /\ CountOf(r, q) /\ CountOf(q, r) /\ DataOf(r, q) /\ AllocsFirst(r)
      /\ sent(r, q) \in Nat /\ received(r, q) \in Nat /\ sent(q, r) \in Nat
      /\ sent(r, q)' < QDepth /\ sent(q, r) < QDepth /\ sent(r, q) < QDepth
  BY DEF Acts
<1> SUFFICES ASSUME undelivered(r, q)
             PROVE  FALSE
  OBVIOUS
<1>1. qp \notin disabled /\ CQHEAD[qp] + 1 \in Int
      /\ \E i \in CQHEAD[qp] + 1 .. sent(r, q) : posted[qp][i][1] # "sync"
  <2>1. qp \notin disabled /\ \E i \in CQHEAD[qp] + 1 .. sent(r, q) : posted[qp][i][1] # "sync"
    BY DEF undelivered
  <2>2. CQHEAD[qp] \in received(q, r) .. sent(r, q) /\ received(q, r) \in Nat
    BY <1>0, <2>1, ActsCounts, HistoriesCount
  <2> QED BY <2>1, <2>2
<1>2. CQHEAD[qp] \in Int /\ CQHEAD[qp] < sent(r, q) /\ received(q, r) \in Nat /\ received(q, r) <= CQHEAD[qp]
  <2>1. CQHEAD[qp] \in received(q, r) .. sent(r, q) /\ received(q, r) \in Nat
    BY <1>0, <1>1, ActsCounts, HistoriesCount
  <2> QED BY <1>0, <1>1, <2>1
<1>3. isWait(s)
  BY <1>0 DEF DataOf, awaits
<1>4. CASE s.do = "poll"
  <2>1. PollCompletion(r)
    BY <1>0, <1>4 DEF Works, DevMemAlloc, RegMr, PostWqe, PollCompletion, Free, TakeRqe, CopyRqe,
         PostRdmaWqe, PostRdmaRecv, AtStep
  <2>2. CQHEAD[qp] # sq_cidb[qp] /\ atStep(r, q, "poll") /\ allocating(r)
    <3>1. todo[r] # <<>>
      BY <2>1 DEF PollCompletion, AtStep
    <3>2. allocating(r)
      BY <1>0, <1>4, <3>1, AllocPhase DEF driverSteps
    <3> QED BY <1>4, <2>1, <3>1, <3>2 DEF PollCompletion, atStep
  <2>3. sq_cidb[qp] = sent(r, q) - 1 /\ sq_cidb[qp] <= CQHEAD[qp]
    BY <1>0, <2>2 DEF CountOf
  <2> QED BY <1>0, <1>2, <2>2, <2>3
<1>5. CASE s.do = "recv" /\ s.kind = "sync"
  <2>1. PostRdmaRecv(r)
    BY <1>0, <1>5 DEF Works, DevMemAlloc, RegMr, PostWqe, PollCompletion, Free, TakeRqe, CopyRqe,
         PostRdmaWqe, PostRdmaRecv, AtStep
  <2>2. received(r, q) + 1 <= sent(q, r)
    <3>1. RQPI[qp] # RQCI[qp] % QDepth
      BY <2>1 DEF PostRdmaRecv
    <3>2. ~ atStep(r, q, "copy")
      BY <1>5 DEF atStep
    <3>3. RQCI[qp] = received(r, q) /\ RQPI[qp] \in RQCI[qp] .. sent(q, r)
      BY <1>0, <1>1, <3>2 DEF CountOf
    <3>4. received(r, q) <= sent(q, r)
      BY <1>0, <3>3
    <3>5. received(r, q) % QDepth = received(r, q)
      <4>1. QDepth \in Nat \ {0}
        BY RdmaAssumption
      <4> QED BY <1>0, <3>4, <4>1, SlotOfSlot
    <3> QED BY <1>0, <3>1, <3>3, <3>5
  <2>3. isEvent(s) /\ ~ isPost(s)
    BY <1>5 DEF isEvent, isPost
  <2>4. sent(r, q) <= received(q, r)
    BY <1>0, <2>2, <2>3, TakeMatch
  <2> QED BY <1>0, <1>2, <2>4
<1> QED BY <1>3, <1>4, <1>5 DEF isWait, isDataPost

\* A host goes on only when its data is delivered.
LEMMA UndeliveredActor ==
  ASSUME NEW r, NEW q, Acts(r, q), undelivered(r, q)'
  PROVE  awaits(r, q)'
<1> DEFINE s == Head(todo[r])
           qp == <<r, q>>
<1>0. r \in Ranks /\ q \in Ranks /\ r # q /\ Shape /\ Works(r) /\ TodoOf(r) /\ DataOf(r, q) /\ qp \in QPs
      /\ sent(r, q) \in Nat /\ isSeq(posted[qp])
  BY DEF Acts, QPs
<1>1. qp \notin disabled' /\ \E i \in CQHEAD'[qp] + 1 .. sent(r, q)' : posted'[qp][i][1] # "sync"
  BY DEF undelivered
<1>2. CASE s.q = q /\ isDataPost(s)
  <2>1. todo'[r] # <<>> /\ Follows(s, Head(todo'[r]))
    BY <1>0, <1>2, WorksNext DEF mayEnd
  <2> QED BY <1>2, <2>1 DEF awaits, Follows
<1>3. CASE s.q = q /\ ~ isDataPost(s)
  <2>1. ~ undelivered(r, q)
    BY <1>3, WaitOver
  <2>2. qp \notin disabled /\ CQHEAD'[qp] = CQHEAD[qp]
    BY <1>1, <1>3, ActsCounts
  <2>3. CQHEAD[qp] \in Int
    <3>1. CQHEAD[qp] \in received(q, r) .. sent(r, q) /\ received(q, r) \in Nat
      BY <1>0, <1>3, <2>2, ActsCounts, HistoriesCount
    <3> QED BY <1>0, <3>1
  <2>4. Records(r, q)
    BY <1>0, WorksFacts
  <2>5. posted'[qp] = posted[qp] \/ \E v : posted'[qp] = Append(posted[qp], <<"sync", v>>)
    <3>1. CASE isEvent(s) /\ isPost(s)
      <4>1. s.do = "wqe" /\ s.kind # "data"
        BY <1>3, <3>1 DEF isPost, isDataPost
      <4>2. s.kind = "sync"
        <5>1. TableOf(r) /\ todo[r] # <<>>
          BY <1>0, WorksFacts DEF Acts
        <5> QED BY <1>0, <4>1, <5>1, OwnTensor
      <4>3. kindOf(s) = "sync"
        BY <4>1, <4>2 DEF kindOf
      <4> QED BY <1>3, <2>4, <3>1, <4>3 DEF Records
    <3>2. CASE ~ (isEvent(s) /\ isPost(s))
      BY <1>3, <2>4, <3>2 DEF Records
    <3> QED BY <3>1, <3>2
  <2>6. \A i \in CQHEAD[qp] + 1 .. sent(r, q) : posted[qp][i][1] = "sync"
    BY <2>1, <2>2 DEF undelivered
  <2>7. CASE posted'[qp] = posted[qp]
    BY <1>1, <2>2, <2>6, <2>7 DEF sent
  <2>8. CASE \E v : posted'[qp] = Append(posted[qp], <<"sync", v>>)
    <3>1. PICK v : posted'[qp] = Append(posted[qp], <<"sync", v>>)
      BY <2>8
    <3>2. /\ sent(r, q)' = sent(r, q) + 1
          /\ \A i \in 1 .. sent(r, q) : posted'[qp][i] = posted[qp][i]
          /\ posted'[qp][sent(r, q) + 1] = <<"sync", v>>
      BY <1>0, <3>1, AppendFacts DEF sent
    <3>3. PICK i \in CQHEAD[qp] + 1 .. sent(r, q) + 1 : posted'[qp][i][1] # "sync"
      BY <1>1, <2>2, <3>2
    <3>4. i # sent(r, q) + 1
      BY <3>2, <3>3
    <3>5. CQHEAD[qp] \in Nat
      <4>1. CQHEAD[qp] \in received(q, r) .. sent(r, q) /\ received(q, r) \in Nat
        BY <1>0, <1>3, <2>2, ActsCounts, HistoriesCount
      <4> QED BY <1>0, <4>1
    <3>6. i \in CQHEAD[qp] + 1 .. sent(r, q) /\ i \in 1 .. sent(r, q)
      BY <1>0, <3>3, <3>4, <3>5
    <3> QED BY <2>6, <3>2, <3>3, <3>6
  <2> QED BY <2>5, <2>7, <2>8
<1>4. CASE s.q # q
  <2>1. Untouched(qp)
    <3>1. Host(r) /\ qp # <<r, s.q>>
      BY <1>0, <1>4 DEF Host, Works
    <3> QED BY <1>0, <3>1, Elsewhere
  <2>2. undelivered(r, q)
    BY <1>1, <2>1 DEF undelivered, Untouched, sent
  <2> QED BY <1>0, <1>4, <2>2 DEF DataOf, awaits
<1> QED BY <1>2, <1>3, <1>4

\* What is submitted and not executed yet stays where the WQE says.
LEMMA SendActor ==
  ASSUME NEW r, NEW q, Acts(r, q), <<r, q>> \notin disabled'
  PROVE  SendData(r, q)'
<1> DEFINE s == Head(todo[r])
           qp == <<r, q>>
           n == sent(r, q)
           head == CQHEAD[qp]
<1>0. /\ r \in Ranks /\ q \in Ranks /\ r # q /\ Shape /\ Works(r) /\ TodoOf(r) /\ TableOf(r)
      /\ DataOf(r, q) /\ CountOf(r, q) /\ qp \in QPs /\ n \in Nat /\ isSeq(posted[qp])
      /\ sent(r, q)' < QDepth /\ n < QDepth /\ AllocsFirst(r)
  BY DEF Acts, QPs
<1>1. todo[r] # <<>> /\ DOMAIN memory = Ranks /\ DOMAIN sq = QPs
  BY <1>0, WorksFacts DEF Shape
<1>2. qp \notin disabled /\ CQHEAD'[qp] = head
  <2>1. CASE s.q = q
    BY <2>1, ActsCounts
  <2>2. CASE s.q # q
    <3>1. Host(r) /\ qp # <<r, s.q>>
      BY <1>0, <2>2 DEF Host, Works
    <3>2. Untouched(qp)
      BY <1>0, <3>1, Elsewhere
    <3> QED BY <3>2 DEF Untouched
  <2> QED BY <2>1, <2>2
<1>3. head \in Nat /\ SQPI[qp] = n
  <2>1. head \in received(q, r) .. n /\ SQPI[qp] = n
    BY <1>0, <1>2 DEF CountOf
  <2>2. received(q, r) \in Nat
    BY <1>0, HistoriesCount
  <2> QED BY <2>1, <2>2
\* The entries there are.
<1>4. ASSUME NEW i \in head + 1 .. n
      PROVE  /\ i - 1 \in DOMAIN sq[qp]
             /\ posted[qp][i][1] # "sync" =>
                  /\ sq[qp][i - 1] \in Nat /\ sq[qp][i - 1] >= tensors
                  /\ contents(memory'[r], sq[qp][i - 1]) = posted[qp][i][2]
  <2>1. SendData(r, q)
    BY <1>0, <1>2 DEF DataOf
  <2>2. /\ i - 1 \in DOMAIN sq[qp]
        /\ posted[qp][i][1] # "sync" =>
             /\ sq[qp][i - 1] \in Nat /\ sq[qp][i - 1] >= tensors
             /\ contents(memory[r], sq[qp][i - 1]) = posted[qp][i][2]
    BY <2>1 DEF SendData, At, contents
  <2>3. ASSUME posted[qp][i][1] # "sync"
        PROVE  memory' = memory
    <3>1. undelivered(r, q)
      BY <1>2, <2>3 DEF undelivered
    <3>2. isWait(s)
      BY <1>0, <3>1 DEF DataOf, awaits
    <3> QED BY <1>0, <3>2, WaitMemory
  <2> QED BY <2>2, <2>3
\* The goal, for the entry i of the new queue.
<1> DEFINE Goal(i) ==
             /\ i - 1 \in DOMAIN sq'[qp]
             /\ posted'[qp][i][1] # "sync" =>
                  /\ sq'[qp][i - 1] \in Nat /\ sq'[qp][i - 1] >= tensors
                  /\ contents(memory'[r], sq'[qp][i - 1]) = posted'[qp][i][2]
<1>5. ASSUME \A i \in head + 1 .. sent(r, q)' : Goal(i)
      PROVE  SendData(r, q)'
  BY <1>2, <1>5 DEF SendData, At, contents, tensors
<1>6. CASE posted'[qp] = posted[qp] /\ sq'[qp] = sq[qp]
  <2>1. sent(r, q)' = n
    BY <1>6 DEF sent
  <2> QED BY <1>4, <1>5, <1>6, <2>1
\* A new entry.
<1>7. ASSUME NEW pa, NEW kind, NEW v,
             posted'[qp] = Append(posted[qp], <<kind, v>>), sq'[qp] = Put(sq[qp], n, pa),
             pa \in Nat, pa >= tensors, kind # "sync" => contents(memory'[r], pa) = v
      PROVE  SendData(r, q)'
  <2>1. /\ sent(r, q)' = n + 1 /\ posted'[qp][n + 1] = <<kind, v>>
        /\ \A i \in 1 .. n : posted'[qp][i] = posted[qp][i]
    BY <1>0, <1>7, AppendFacts DEF sent
  <2>2. /\ n \in DOMAIN sq'[qp] /\ sq'[qp][n] = pa
        /\ \A a \in DOMAIN sq[qp] : a \in DOMAIN sq'[qp] /\ (a # n => sq'[qp][a] = sq[qp][a])
    BY <1>7, PutAt
  <2>3. ASSUME NEW i \in head + 1 .. n + 1
        PROVE  Goal(i)
    <3>1. CASE i = n + 1
      <4>1. (n + 1) - 1 = n /\ <<kind, v>>[1] = kind /\ <<kind, v>>[2] = v
        BY <1>0
      <4> QED BY <1>7, <2>1, <2>2, <3>1, <4>1
    <3>2. CASE i # n + 1
      <4>1. i \in head + 1 .. n /\ i \in 1 .. n /\ i - 1 # n
        BY <1>0, <1>3, <3>2
      <4> HIDE DEF n, head
      <4>2. posted'[qp][i] = posted[qp][i] /\ i - 1 \in DOMAIN sq[qp]
        BY <1>4, <2>1, <4>1
      <4>3. i - 1 \in DOMAIN sq'[qp] /\ sq'[qp][i - 1] = sq[qp][i - 1]
        BY <2>2, <4>1, <4>2
      <4> QED BY <1>4, <4>1, <4>2, <4>3
    <3> QED BY <3>1, <3>2
  <2> QED BY <1>5, <2>1, <2>3
<1>8. CASE s.q # q
  <2>1. Host(r) /\ qp # <<r, s.q>>
    BY <1>0, <1>8 DEF Host, Works
  <2>2. Untouched(qp)
    BY <1>0, <2>1, Elsewhere
  <2> QED BY <1>6, <2>2 DEF Untouched
<1>9. CASE s.q = q /\ PostWqe(r)
  <2> DEFINE pa == dev_mem_ptr[r]
             v == <<s.field, r, s.name, table[r][s.name].pa>>
  <2>1. /\ posted'[qp] = Append(posted[qp], <<s.field, v>>) /\ sq'[qp] = Put(sq[qp], sq_pidb[qp], pa)
        /\ memory'[r] = Put(memory[r], pa, v) /\ s.do = "advertise"
    <3>1. DOMAIN posted = QPs
      BY <1>0 DEF Shape
    <3> QED BY <1>0, <1>1, <1>9, <3>1 DEF PostWqe, Posted, AtStep
  <2>2. sq_pidb[qp] = n
    <3>1. allocating(r)
      BY <1>0, <1>1, <2>1, AllocPhase DEF driverSteps
    <3> QED BY <1>0, <3>1 DEF CountOf
  <2>3. pa \in Nat /\ pa >= tensors
    BY <1>0 DEF TableOf
  <2> HIDE DEF pa, v
  <2>4. contents(memory'[r], pa) = v
    BY <2>1, PutContents
  <2> QED BY <1>7, <2>1, <2>2, <2>3, <2>4
<1>10. CASE s.q = q /\ PostRdmaWqe(r)
  <2> DEFINE pa == table[r][s.name].pa + s.i
  <2>1. /\ posted'[qp] = Append(posted[qp], <<s.kind, At(r, pa)>>)
        /\ sq'[qp] = Put(sq[qp], SQPI[qp] % QDepth, pa)
        /\ memory' = memory /\ s.do = "wqe"
    <3>1. DOMAIN posted = QPs
      BY <1>0 DEF Shape
    <3> QED BY <1>0, <1>1, <1>10, <3>1 DEF PostRdmaWqe, Posted, AtStep, mem
  <2>2. SQPI[qp] % QDepth = n
    <3>1. QDepth \in Nat \ {0} /\ n \in 0 .. QDepth - 1
      BY <1>0, RdmaAssumption
    <3> QED BY <1>3, <3>1, SlotOfSlot
  <2>3. pa \in Nat /\ pa >= tensors
    BY <1>0, <1>1, <2>1, OwnTensor
  <2> HIDE DEF pa
  <2>4. contents(memory'[r], pa) = At(r, pa)
    BY <2>1 DEF At, contents
  <2> QED BY <1>7, <2>1, <2>2, <2>3, <2>4
<1>11. CASE ~ PostWqe(r) /\ ~ PostRdmaWqe(r)
  <2>1. posted' = posted /\ sq' = sq
    BY <1>0, <1>11 DEF Works, DevMemAlloc, RegMr, PollCompletion, Free, TakeRqe, CopyRqe, PostRdmaRecv, qps
  <2> QED BY <1>6, <2>1
<1> QED BY <1>8, <1>9, <1>10, <1>11

\* What was executed and is not taken yet stays in the receive queue.
LEMMA RecvActor ==
  ASSUME NEW r, NEW q, Acts(r, q), sent(q, r) <= PageUnits, <<r, q>> \notin disabled'
  PROVE  RecvData(r, q)'
<1> DEFINE s == Head(todo[r])
           qp == <<r, q>>
           back == <<q, r>>
<1>0. /\ r \in Ranks /\ q \in Ranks /\ r # q /\ Shape /\ Works(r) /\ TodoOf(r) /\ TableOf(r)
      /\ DataOf(r, q) /\ CountOf(r, q) /\ qp \in QPs /\ back \in QPs /\ back # qp
      /\ received(r, q) \in Nat /\ sent(q, r) \in Nat
  BY DEF Acts, QPs
<1>1. /\ qp \notin disabled /\ RQPI'[qp] = RQPI[qp]
      /\ received(r, q)' \in {received(r, q), received(r, q) + 1}
  <2>1. CASE s.q = q
    BY <2>1, ActsCounts DEF Acted
  <2>2. CASE s.q # q
    <3>1. Host(r) /\ qp # <<r, s.q>>
      BY <1>0, <2>2 DEF Host, Works
    <3>2. Untouched(qp)
      BY <1>0, <3>1, Elsewhere
    <3> QED BY <3>2 DEF Untouched, received
  <2> QED BY <2>1, <2>2
<1>2. Untouched(back)
  <2>1. Host(r) /\ back # <<r, s.q>>
    BY <1>0 DEF Host, Works
  <2> QED BY <1>0, <2>1, Elsewhere
<1>3. RQPI[qp] \in Int /\ RQPI[qp] <= sent(q, r)
  <2>1. RQPI[qp] \in RQCI[qp] .. sent(q, r)
    BY <1>0, <1>1 DEF CountOf
  <2> QED BY <2>1
<1>4. ASSUME NEW i \in received(r, q)' + 1 .. RQPI'[qp], posted'[back][i][1] # "sync"
      PROVE  contents(memory'[r], RqBase(r, q) + i - 1) = posted'[back][i][2]
  <2>1. i \in received(r, q) + 1 .. RQPI[qp] /\ i \in 1 .. PageUnits
    <3>1. PageUnits \in Nat
      BY RdmaAssumption
    <3> QED BY <1>0, <1>1, <1>3, <1>4, <3>1 DEF Acts
  <2>2. posted'[back] = posted[back]
    BY <1>2 DEF Untouched
  <2> DEFINE a == RqBase(r, q) + i - 1
  <2>3. contents(memory[r], a) = posted[back][i][2]
    BY <1>0, <1>1, <1>4, <2>1, <2>2 DEF DataOf, RecvData, At, contents
  <2>4. a \in Nat /\ a < tensors
    <3>1. /\ RqBase(r, q) \in Nat /\ DevDbs(r, q) \in Nat
          /\ RqBase(r, q) + PageUnits = DevDbs(r, q) /\ DevDbs(r, q) < tensors /\ tensors \in Nat
      BY <1>0, PageFacts
    <3>2. PageUnits \in Nat
      BY RdmaAssumption
    <3> QED BY <2>1, <3>1, <3>2
  <2> HIDE DEF a
  <2>5. contents(memory'[r], a) = contents(memory[r], a)
    <3>1. \A u \in Nat : u < tensors => contents(memory'[r], u) = contents(memory[r], u)
      BY <1>0, LowMemory, AtContents
    <3> QED BY <2>4, <3>1
  <2> QED BY <2>2, <2>3, <2>5 DEF a
<1>5. RqBase(r, q)' = RqBase(r, q)
  BY DEF RqBase, QueuePage, place
<1> QED BY <1>4, <1>5 DEF RecvData, At, contents

\* The data of the queue pair that is acted on.
LEMMA DataActor ==
  ASSUME NEW r, NEW q, Acts(r, q), sent(q, r) <= PageUnits
  PROVE  DataOf(r, q)'
BY UndeliveredActor, SendActor, RecvActor DEF DataOf

\* Where nothing changes but that more is submitted.
LEMMA DataQuiet ==
  ASSUME NEW x, NEW y, DataOf(x, y), CountOf(x, y), Untouched(<<x, y>>), memory'[x] = memory[x],
         Grown(posted[<<y, x>>], posted'[<<y, x>>]), undelivered(x, y) => awaits(x, y)',
         received(x, y) \in Nat, sent(y, x) \in Nat
  PROVE  DataOf(x, y)'
<1> DEFINE qp == <<x, y>>
           back == <<y, x>>
<1>1. undelivered(x, y)' => awaits(x, y)'
  BY DEF undelivered, Untouched, sent
<1>2. ASSUME qp \notin disabled'
      PROVE  SendData(x, y)' /\ RecvData(x, y)'
  <2>1. qp \notin disabled /\ SendData(x, y) /\ RecvData(x, y)
    BY <1>2 DEF DataOf, Untouched
  <2>2. SendData(x, y)'
    BY <2>1 DEF SendData, Untouched, sent, At, tensors
  <2>3. RQPI[qp] \in Int /\ RQPI[qp] <= sent(y, x)
    <3>1. RQPI[qp] \in RQCI[qp] .. sent(y, x)
      BY <2>1 DEF CountOf
    <3> QED BY <3>1
  <2>4. ASSUME NEW i \in received(x, y) + 1 .. RQPI[qp]
        PROVE  posted'[back][i] = posted[back][i]
    <3>1. i \in 1 .. sent(y, x)
      BY <2>3
    <3> QED BY <3>1 DEF Grown, sent
  <2>5. RqBase(x, y)' = RqBase(x, y)
    BY DEF RqBase, QueuePage, place
  <2>6. received(x, y)' = received(x, y) /\ RQPI'[qp] = RQPI[qp]
    BY DEF Untouched, received
  <2>7. RecvData(x, y)'
    BY <2>1, <2>4, <2>5, <2>6 DEF RecvData, At
  <2> QED BY <2>2, <2>7
<1> QED BY <1>1, <1>2 DEF DataOf

\* An executed SEND writes one slot of the peer's receive queue and its doorbell.
LEMMA DeliverMemory ==
  ASSUME NEW a \in Ranks, NEW b \in Ranks, a # b, Shape, CountOf(a, b), CountOf(b, a),
         sent(a, b) < QDepth, sent(a, b) \in Nat, sent(a, b) <= PageUnits, received(b, a) \in Nat,
         DataOf(a, b), Deliver(a, b)
  PROVE  LET n == CQHEAD[<<a, b>>] IN
         /\ \A x \in Ranks : x # b => memory'[x] = memory[x]
         /\ n \in 0 .. PageUnits - 1
         /\ \A u : u # RqBase(b, a) + n /\ u # DevDbs(b, a) =>
              contents(memory'[b], u) = contents(memory[b], u)
         /\ posted[<<a, b>>][n + 1][1] # "sync" =>
              contents(memory'[b], RqBase(b, a) + n) = posted[<<a, b>>][n + 1][2]
<1> DEFINE qp == <<a, b>>
           n == CQHEAD[qp]
           slot == RqBase(b, a) + n
           db == DevDbs(b, a)
           v == IF n \in DOMAIN sq[qp] THEN At(a, sq[qp][n]) ELSE <<>>
<1>1. /\ qp \notin disabled /\ n \in Nat /\ n + 1 <= sent(a, b) /\ RQPI[<<b, a>>] = n
  BY DeliverFacts
<1>2. DOMAIN memory = Ranks
  BY DEF Shape
<1>3. /\ memory'[b] = Put(Put(memory[b], slot, v), db, <<"db">>)
      /\ \A x \in Ranks : x # b => memory'[x] = memory[x]
  BY <1>1, <1>2 DEF Deliver
<1>4. n \in 0 .. PageUnits - 1 /\ slot # db
  <2>1. PageUnits \in Nat
    BY RdmaAssumption
  <2>2. n \in 0 .. PageUnits - 1
    BY <1>1, <2>1
  <2> HIDE DEF n
  <2>3. slot # db
    BY <2>2, SlotsApart
  <2> QED BY <2>2, <2>3
<1>5. ASSUME posted[qp][n + 1][1] # "sync"
      PROVE  v = posted[qp][n + 1][2]
  <2>1. SendData(a, b)
    BY <1>1 DEF DataOf
  <2>2. n + 1 \in n + 1 .. sent(a, b) /\ (n + 1) - 1 = n
    BY <1>1
  <2> HIDE DEF n, qp
  <2>3. n \in DOMAIN sq[qp] /\ At(a, sq[qp][n]) = posted[qp][n + 1][2]
    BY <1>5, <2>1, <2>2 DEF SendData, n, qp
  <2> QED BY <2>3
<1> HIDE DEF slot, db, v, n
<1>6. /\ contents(memory'[b], slot) = v
      /\ \A u : u # slot /\ u # db => contents(memory'[b], u) = contents(memory[b], u)
  BY <1>3, <1>4, PutContents
<1>7. posted[qp][n + 1][1] # "sync" => contents(memory'[b], slot) = posted[qp][n + 1][2]
  BY <1>5, <1>6
<1> QED BY <1>3, <1>4, <1>6, <1>7 DEF slot, db, n

\* The invariants of the data are kept when a SEND is executed.
LEMMA DeliverData ==
  ASSUME NEW a \in Ranks, NEW b \in Ranks, a # b, Shape, CountInv, DataInv, Deliver(a, b),
         \A r, q \in Ranks : r # q =>
           /\ sent(r, q) \in Nat /\ received(r, q) \in Nat
           /\ sent(r, q) <= PageUnits /\ sent(r, q) < QDepth,
         NEW x \in Ranks, NEW y \in Ranks, x # y
  PROVE  DataOf(x, y)'
<1> DEFINE qp == <<x, y>>
           back == <<y, x>>
           n == CQHEAD[<<a, b>>]
<1>0. CountOf(a, b) /\ CountOf(b, a) /\ DataOf(a, b) /\ CountOf(x, y) /\ DataOf(x, y)
  BY DEF CountInv, DataInv
<1>1. /\ n \in Nat /\ n + 1 <= sent(a, b) /\ RQPI[<<b, a>>] = n
      /\ CQHEAD'[<<a, b>>] = n + 1 /\ RQPI'[<<b, a>>] = n + 1
      /\ qp # <<a, b>> => CQHEAD'[qp] = CQHEAD[qp]
      /\ qp # <<b, a>> => RQPI'[qp] = RQPI[qp]
      /\ todo' = todo /\ sq' = sq /\ disabled' = disabled /\ posted' = posted /\ taken' = taken
  <2>1. qp \in QPs
    BY DEF QPs
  <2> QED BY <1>0, <2>1, DeliverFacts
<1>2. /\ \A z \in Ranks : z # b => memory'[z] = memory[z]
      /\ n \in 0 .. PageUnits - 1
      /\ \A u : u # RqBase(b, a) + n /\ u # DevDbs(b, a) =>
           contents(memory'[b], u) = contents(memory[b], u)
      /\ posted[<<a, b>>][n + 1][1] # "sync" =>
           contents(memory'[b], RqBase(b, a) + n) = posted[<<a, b>>][n + 1][2]
  BY <1>0, DeliverMemory
<1>3. /\ sent(x, y)' = sent(x, y) /\ received(x, y)' = received(x, y)
      /\ awaits(x, y)' <=> awaits(x, y)
      /\ RqBase(x, y)' = RqBase(x, y)
  BY <1>1 DEF sent, received, awaits, RqBase, QueuePage, place
<1>4. qp \notin disabled =>
        /\ CQHEAD[qp] \in Nat /\ CQHEAD[qp] <= CQHEAD'[qp]
        /\ RQPI[qp] \in Int /\ RQPI[qp] <= sent(y, x)
  <2>1. qp \notin disabled => /\ CQHEAD[qp] \in received(y, x) .. sent(x, y)
                              /\ RQPI[qp] \in RQCI[qp] .. sent(y, x)
    BY <1>0 DEF CountOf
  <2>2. qp = <<a, b>> => CQHEAD'[qp] = CQHEAD[qp] + 1
    BY <1>1
  <2>3. received(y, x) \in Nat
    OBVIOUS
  <2> HIDE DEF qp
  <2> QED BY <1>1, <2>1, <2>2, <2>3
<1>5. sent(x, y) \in Nat /\ sent(y, x) \in Nat /\ sent(y, x) <= PageUnits /\ received(x, y) \in Nat
  OBVIOUS
<1>6. undelivered(x, y)' => awaits(x, y)'
  <2>1. ASSUME undelivered(x, y)'
        PROVE  undelivered(x, y)
    <3>1. qp \notin disabled
      BY <1>1, <2>1 DEF undelivered
    <3>2. PICK i \in CQHEAD'[qp] + 1 .. sent(x, y) : posted[qp][i][1] # "sync"
      BY <1>1, <1>3, <2>1 DEF undelivered
    <3>3. i \in CQHEAD[qp] + 1 .. sent(x, y)
      <4>1. CQHEAD'[qp] \in Nat
        BY <1>1, <1>4, <3>1
      <4> HIDE DEF qp
      <4> QED BY <1>4, <1>5, <3>1, <4>1
    <3> QED BY <3>1, <3>2, <3>3 DEF undelivered
  <2> QED BY <1>0, <1>3, <2>1 DEF DataOf
<1>7. PageUnits \in Nat /\ tensors \in Nat /\ tensors' = tensors
  BY PageFacts, RdmaAssumption DEF tensors
<1>8. ASSUME qp \notin disabled
      PROVE  SendData(x, y)'
  <2>1. SendData(x, y)
    BY <1>0, <1>8 DEF DataOf
  <2>2. ASSUME NEW i \in CQHEAD'[qp] + 1 .. sent(x, y)
        PROVE  /\ i - 1 \in DOMAIN sq[qp]
               /\ posted[qp][i][1] # "sync" =>
                    /\ sq[qp][i - 1] \in Nat /\ sq[qp][i - 1] >= tensors
                    /\ contents(memory'[x], sq[qp][i - 1]) = posted[qp][i][2]
    <3>1. i \in CQHEAD[qp] + 1 .. sent(x, y)
      <4>1. CQHEAD'[qp] \in Nat
        BY <1>1, <1>4, <1>8
      <4> HIDE DEF qp
      <4> QED BY <1>4, <1>5, <1>8, <4>1 DEF qp
    <3>2. /\ i - 1 \in DOMAIN sq[qp]
          /\ posted[qp][i][1] # "sync" =>
               /\ sq[qp][i - 1] \in Nat /\ sq[qp][i - 1] >= tensors
               /\ contents(memory[x], sq[qp][i - 1]) = posted[qp][i][2]
      BY <2>1, <3>1 DEF SendData, At, contents
    <3>3. ASSUME x = b, NEW u \in Nat, u >= tensors
          PROVE  contents(memory'[x], u) = contents(memory[x], u)
      <4>1. /\ RqBase(b, a) \in Nat /\ DevDbs(b, a) \in Nat
            /\ RqBase(b, a) + PageUnits = DevDbs(b, a) /\ DevDbs(b, a) < tensors
        BY PageFacts
      <4> HIDE DEF n
      <4>2. u # RqBase(b, a) + n /\ u # DevDbs(b, a)
        BY <1>2, <1>7, <3>3, <4>1
      <4> QED BY <1>2, <3>3, <4>2
    <3> QED BY <1>2, <3>2, <3>3
  <2> QED BY <1>1, <1>3, <1>7, <2>2 DEF SendData, At, contents
<1>9. ASSUME qp \notin disabled
      PROVE  RecvData(x, y)'
  <2>1. RecvData(x, y)
    BY <1>0, <1>9 DEF DataOf
  <2>2. ASSUME NEW i \in received(x, y) + 1 .. RQPI[qp], posted[back][i][1] # "sync"
        PROVE  contents(memory'[x], RqBase(x, y) + i - 1) = posted[back][i][2]
    <3>1. contents(memory[x], RqBase(x, y) + i - 1) = posted[back][i][2]
      BY <2>1, <2>2 DEF RecvData, At, contents
    <3>2. CASE x # b
      BY <1>2, <3>1, <3>2
    <3>3. CASE x = b
      <4>1. i - 1 \in 0 .. PageUnits - 1 /\ (y = a => i - 1 # n)
        <5>1. y = a => RQPI[qp] = n
          BY <1>1, <3>3
        <5> HIDE DEF n, qp
        <5> QED BY <1>4, <1>5, <1>7, <1>9, <5>1
      <4> HIDE DEF n, qp
      <4> DEFINE j == i - 1
      <4>2. j \in 0 .. PageUnits - 1 /\ (y = a => j # n)
        BY <4>1
      <4>3. RqBase(x, y) + i - 1 = RqBase(x, y) + j
        <5>1. RqBase(x, y) \in Nat
          BY PageFacts
        <5> QED BY <5>1
      <4> HIDE DEF j
      <4>4. RqBase(b, y) + j # RqBase(b, a) + n /\ RqBase(b, y) + j # DevDbs(b, a)
        BY <1>2, <3>3, <4>2, SlotsApart
      <4> QED BY <1>2, <3>1, <3>3, <4>3, <4>4
    <3> QED BY <3>2, <3>3
  <2>3. CASE qp # <<b, a>>
    <3>1. RQPI'[qp] = RQPI[qp]
      BY <1>1, <2>3
    <3> QED BY <1>1, <1>3, <2>2, <3>1 DEF RecvData, At, contents
  <2>4. CASE qp = <<b, a>>
    <3>1. x = b /\ y = a /\ back = <<a, b>>
      BY <2>4
    <3>2. RQPI'[qp] = n + 1 /\ RQPI[qp] = n
      BY <1>1, <2>4
    <3>3. ASSUME NEW i \in received(x, y) + 1 .. n + 1, posted[back][i][1] # "sync"
          PROVE  contents(memory'[x], RqBase(x, y) + i - 1) = posted[back][i][2]
      <4>1. CASE i = n + 1
        <5>1. RqBase(x, y) + i - 1 = RqBase(b, a) + n
          <6>1. RqBase(b, a) \in Nat
            BY PageFacts
          <6> QED BY <1>1, <3>1, <4>1, <6>1
        <5> QED BY <1>2, <3>1, <3>3, <4>1, <5>1
      <4>2. CASE i # n + 1
        <5>1. i \in received(x, y) + 1 .. n
          <6> HIDE DEF n
          <6> QED BY <1>1, <1>5, <3>3, <4>2
        <5> QED BY <2>2, <3>2, <3>3, <5>1
      <4> QED BY <4>1, <4>2
    <3> QED BY <1>1, <1>3, <3>2, <3>3 DEF RecvData, At, contents
  <2> QED BY <2>3, <2>4
<1> QED BY <1>1, <1>6, <1>8, <1>9 DEF DataOf

\* The invariant of the data is kept by every step.
LEMMA DataStep ==
  ASSUME Shape, Base, CountInv, DataInv, [Next]_vars, Regular'
  PROVE  DataInv'
<1>0. \A r \in Ranks : /\ TodoOf(r) /\ TableOf(r)
                       /\ \A q \in Ranks : r # q => CountOf(r, q) /\ DataOf(r, q) /\ HistoryOf(r, q)
  BY DEF Base, TodoInv, TableInv, HistoryInv, CountInv, DataInv
<1>1. /\ \A r \in Ranks : AllocsFirst(r)
      /\ \A r, q \in Ranks : r # q => /\ sent(r, q) \in Nat /\ received(r, q) \in Nat
                                      /\ sent(r, q)' < QDepth /\ sent(r, q) <= sent(r, q)' /\ sent(r, q)' \in Nat
                                      /\ sent(r, q) <= PageUnits
  BY RegularFacts
<1>2. \A r, q \in Ranks : r # q => sent(r, q) < QDepth
  <2> SUFFICES ASSUME NEW r \in Ranks, NEW q \in Ranks, r # q
               PROVE  sent(r, q) < QDepth
    OBVIOUS
  <2>1. QDepth \in Nat
    BY RdmaAssumption
  <2> QED BY <1>1, <2>1
<1>3. \A r, q \in Ranks : r # q => Grown(posted[<<r, q>>], posted'[<<r, q>>])
  BY Grow
<1>4. CASE UNCHANGED vars
  <2>1. \A x, y : Untouched(<<x, y>>) /\ (awaits(x, y)' <=> awaits(x, y)) /\ memory'[x] = memory[x]
    BY <1>4, Same DEF Untouched, awaits
  <2> SUFFICES ASSUME NEW x \in Ranks, NEW y \in Ranks, x # y
               PROVE  DataOf(x, y)'
    BY DEF DataInv
  <2>2. undelivered(x, y) => awaits(x, y)'
    BY <1>0, <2>1 DEF DataOf
  <2> QED BY <1>0, <1>1, <1>3, <2>1, <2>2, DataQuiet
<1>5. ASSUME NEW qp \in QPs, Deliver(qp[1], qp[2])
      PROVE  DataInv'
  <2>1. qp[1] \in Ranks /\ qp[2] \in Ranks /\ qp[1] # qp[2]
    BY DEF QPs
  <2> QED BY <1>1, <1>2, <1>5, <2>1, DeliverData DEF DataInv
<1>6. ASSUME NEW r \in Ranks, Begin(r)
      PROVE  DataInv'
  <2> SUFFICES ASSUME NEW x \in Ranks, NEW y \in Ranks, x # y
               PROVE  DataOf(x, y)'
    BY DEF DataInv
  <2>1. Untouched(<<x, y>>)
    <3>1. Host(r) /\ <<x, y>> \in QPs
      BY <1>6 DEF Host, QPs
    <3> QED BY <1>6, <3>1, Elsewhere
  <2>2. memory'[x] = memory[x]
    BY <1>6 DEF Begin, mem
  <2>3. undelivered(x, y) => awaits(x, y)'
    <3>1. CASE x = r
      <4>1. todo[r] = <<>>
        BY <1>6 DEF Begin
      <4>2. ~ awaits(x, y)
        BY <3>1, <4>1 DEF awaits
      <4> QED BY <1>0, <4>2 DEF DataOf
    <3>2. CASE x # r
      <4>1. todo'[x] = todo[x]
        BY <1>6, <3>2, OtherHosts DEF Host
      <4>2. awaits(x, y)' <=> awaits(x, y)
        BY <4>1 DEF awaits
      <4> QED BY <1>0, <4>2 DEF DataOf
    <3> QED BY <3>1, <3>2
  <2> QED BY <1>0, <1>1, <1>3, <2>1, <2>2, <2>3, DataQuiet
<1>7. ASSUME NEW r \in Ranks, Works(r)
      PROVE  DataInv'
  <2> SUFFICES ASSUME NEW x \in Ranks, NEW y \in Ranks, x # y
               PROVE  DataOf(x, y)'
    BY DEF DataInv
  <2>1. CASE x = r
    <3>1. Acts(x, y)
      <4>1. isSeq(posted[<<x, y>>]) /\ isSeq(taken[<<x, y>>])
        BY HistoriesCount
      <4> QED BY <1>0, <1>1, <1>2, <1>7, <2>1, <4>1 DEF Acts
    <3> QED BY <1>1, <3>1, DataActor
  <2>2. CASE x # r
    <3>0. Host(r) /\ <<x, y>> \in QPs /\ <<x, y>> # <<r, Head(todo[r]).q>>
      BY <1>7, <2>2 DEF Host, Works, QPs
    <3>1. Untouched(<<x, y>>)
      BY <3>0, Elsewhere
    <3>2. todo'[x] = todo[x] /\ memory'[x] = memory[x]
      BY <2>2, <3>0, OtherHosts
    <3>3. awaits(x, y)' <=> awaits(x, y)
      BY <3>2 DEF awaits
    <3>4. undelivered(x, y) => awaits(x, y)'
      BY <1>0, <3>3 DEF DataOf
    <3> QED BY <1>0, <1>1, <1>3, <3>1, <3>2, <3>4, DataQuiet
  <2> QED BY <2>1, <2>2
<1> QED BY <1>4, <1>5, <1>6, <1>7 DEF Next, Host, Works

-----------------------------------------------------------------------------
(* What is taken.                                                          *)

\* A host takes the oldest message it has not taken yet.
LEMMA TakeActor ==
  ASSUME NEW r, NEW q, Acts(r, q), Head(todo[r]).q = q, PostRdmaRecv(r) \/ CopyRqe(r)
  PROVE  LET i == received(r, q) + 1 IN
         /\ i <= sent(q, r)
         /\ \E v : /\ taken'[<<r, q>>] = Append(taken[<<r, q>>], <<posted[<<q, r>>][i][1], v>>)
                   /\ posted[<<q, r>>][i][1] # "sync" => v = posted[<<q, r>>][i][2]
<1> DEFINE s == Head(todo[r])
           qp == <<r, q>>
           back == <<q, r>>
           n == received(r, q)
           i == n + 1
           v == At(r, RqBase(r, q) + n)
<1>0. /\ r \in Ranks /\ q \in Ranks /\ r # q /\ Shape /\ Works(r) /\ TodoOf(r) /\ TodoOf(q)
      /\ HistoryOf(r, q) /\ HistoryOf(q, r) /\ DataOf(r, q) /\ CountOf(r, q) /\ AllocsFirst(r)
      /\ qp \in QPs /\ n \in Nat /\ sent(q, r) \in Nat /\ sent(q, r) < QDepth
  BY DEF Acts, QPs
<1>1. DOMAIN taken = QPs /\ RqBase(r, q) \in Nat /\ QDepth \in Nat \ {0}
  BY <1>0, PageFacts, RdmaAssumption DEF Shape
<1>2. /\ qp \notin disabled /\ RQPI[qp] \in Int /\ n + 1 <= RQPI[qp] /\ RQPI[qp] <= sent(q, r)
      /\ taken'[qp] = Append(taken[qp], <<kindOf(s), v>>)
      /\ isEvent(s) /\ ~ isPost(s)
  <2>1. CASE PostRdmaRecv(r)
    <3>1. /\ s.do = "recv" /\ RQPI[qp] # RQCI[qp] % QDepth
          /\ taken'[qp] = Append(taken[qp], <<s.kind, At(r, RqBase(r, q) + (RQCI[qp] % QDepth))>>)
      BY <1>0, <1>1, <2>1 DEF PostRdmaRecv, AtStep, Taken
    <3>2. qp \notin disabled
      <4>1. 0 % QDepth = 0
        BY <1>1
      <4> QED BY <1>0, <3>1, <4>1 DEF CountOf
    <3>3. RQCI[qp] = n /\ RQPI[qp] \in RQCI[qp] .. sent(q, r)
      <4>1. ~ atStep(r, q, "copy")
        BY <3>1 DEF atStep
      <4> QED BY <1>0, <3>2, <4>1 DEF CountOf
    <3>4. n % QDepth = n
      <4>1. n <= sent(q, r)
        BY <1>0, <3>3
      <4> HIDE DEF n
      <4>2. n \in 0 .. QDepth - 1
        BY <1>0, <1>1, <4>1
      <4> QED BY <1>1, <4>2, SlotOfSlot
    <3>5. n + 1 <= RQPI[qp] /\ RQPI[qp] \in Int /\ RQPI[qp] <= sent(q, r)
      BY <1>0, <3>1, <3>3, <3>4
    <3>6. isEvent(s) /\ ~ isPost(s) /\ kindOf(s) = s.kind
      BY <3>1 DEF isEvent, isPost, kindOf
    <3> QED BY <3>1, <3>2, <3>3, <3>4, <3>5, <3>6
  <2>2. CASE CopyRqe(r)
    <3>1. /\ s.do = "copy" /\ todo[r] # <<>>
          /\ taken'[qp] = Append(taken[qp], <<s.field, At(r, rqe(r, q))>>)
      BY <1>0, <1>1, <2>2 DEF CopyRqe, AtStep, Taken
    <3>2. allocating(r)
      BY <1>0, <3>1, AllocPhase DEF driverSteps
    <3>3. qp \notin disabled /\ rq_pidb[qp] = RQCI[qp]
      BY <1>0, <3>2 DEF CountOf
    <3>4. RQCI[qp] = n + 1 /\ RQPI[qp] \in RQCI[qp] .. sent(q, r)
      <4>1. atStep(r, q, "copy")
        BY <3>1 DEF atStep
      <4> QED BY <1>0, <3>3, <4>1 DEF CountOf
    <3>5. n + 1 <= RQPI[qp] /\ RQPI[qp] \in Int /\ RQPI[qp] <= sent(q, r)
      BY <1>0, <3>4
    <3>6. rqe(r, q) = RqBase(r, q) + n
      <4>1. rq_pidb[qp] = n + 1 /\ n + 1 # 0
        BY <1>0, <3>3, <3>4
      <4>2. rqe(r, q) = RqBase(r, q) + rq_pidb[qp] - 1
        BY <4>1 DEF rqe
      <4> HIDE DEF n
      <4> QED BY <1>0, <1>1, <4>1, <4>2
    <3>7. isEvent(s) /\ ~ isPost(s) /\ kindOf(s) = s.field
      BY <3>1 DEF isEvent, isPost, kindOf
    <3> QED BY <3>1, <3>3, <3>5, <3>6, <3>7
  <2> QED BY <2>1, <2>2
<1>3. i <= sent(q, r)
  BY <1>0, <1>2
<1>4. posted[back][i][1] = kindOf(s)
  BY <1>0, <1>2, <1>3, TakeMatch
<1>5. posted[back][i][1] # "sync" => v = posted[back][i][2]
  <2>1. RecvData(r, q)
    BY <1>0, <1>2 DEF DataOf
  <2>2. i \in received(r, q) + 1 .. RQPI[qp] /\ RqBase(r, q) + i - 1 = RqBase(r, q) + n
    <3> HIDE DEF n
    <3>1. RqBase(r, q) + (n + 1) - 1 = RqBase(r, q) + n
      BY <1>0, <1>1
    <3>2. n + 1 \in n + 1 .. RQPI[qp]
      BY <1>0, <1>2
    <3> QED BY <3>1, <3>2 DEF n
  <2> QED BY <2>1, <2>2 DEF RecvData
<1> QED BY <1>2, <1>3, <1>4, <1>5

\* What was taken stays what was submitted.
LEMMA TakenQuiet ==
  ASSUME NEW x, NEW y, TakenOf(x, y), taken'[<<x, y>>] = taken[<<x, y>>],
         Grown(posted[<<y, x>>], posted'[<<y, x>>]), sent(y, x) \in Nat, sent(y, x)' \in Nat
  PROVE  TakenOf(x, y)'
<1> SUFFICES ASSUME NEW i \in 1 .. received(x, y)
             PROVE  /\ i <= sent(y, x)' /\ taken'[<<x, y>>][i][1] = posted'[<<y, x>>][i][1]
                    /\ taken'[<<x, y>>][i][1] # "sync" =>
                         taken'[<<x, y>>][i][2] = posted'[<<y, x>>][i][2]
  BY DEF TakenOf, received
<1>1. i \in 1 .. sent(y, x) /\ sent(y, x) <= sent(y, x)'
  BY DEF TakenOf, Grown, sent
<1>2. posted'[<<y, x>>][i] = posted[<<y, x>>][i]
  BY <1>1 DEF Grown, sent
<1> QED BY <1>1, <1>2 DEF TakenOf

\* What is taken stays in order with every step.
LEMMA TakenStep ==
  ASSUME Shape, Base, CountInv, DataInv, TakenInv, [Next]_vars, Regular'
  PROVE  TakenInv'
<1>0. \A r \in Ranks : /\ TodoOf(r) /\ TableOf(r)
                       /\ \A q \in Ranks : r # q => /\ CountOf(r, q) /\ DataOf(r, q) /\ HistoryOf(r, q)
                                                    /\ TakenOf(r, q)
  BY DEF Base, TodoInv, TableInv, HistoryInv, CountInv, DataInv, TakenInv
<1>1. /\ \A r \in Ranks : AllocsFirst(r)
      /\ \A r, q \in Ranks : r # q => /\ sent(r, q) \in Nat /\ received(r, q) \in Nat
                                      /\ sent(r, q)' < QDepth /\ sent(r, q) <= sent(r, q)' /\ sent(r, q)' \in Nat
                                      /\ sent(r, q) <= PageUnits
  BY RegularFacts
<1>2. \A r, q \in Ranks : r # q => sent(r, q) < QDepth
  <2> SUFFICES ASSUME NEW r \in Ranks, NEW q \in Ranks, r # q
               PROVE  sent(r, q) < QDepth
    OBVIOUS
  <2>1. QDepth \in Nat
    BY RdmaAssumption
  <2> QED BY <1>1, <2>1
<1>3. \A r, q \in Ranks : r # q => Grown(posted[<<r, q>>], posted'[<<r, q>>])
  BY Grow
<1> SUFFICES ASSUME NEW x \in Ranks, NEW y \in Ranks, x # y
             PROVE  TakenOf(x, y)'
  BY DEF TakenInv
<1> DEFINE qp == <<x, y>>
           back == <<y, x>>
<1>4. CASE taken'[qp] = taken[qp]
  BY <1>0, <1>1, <1>3, <1>4, TakenQuiet
<1>5. ASSUME Works(x), Head(todo[x]).q = y, PostRdmaRecv(x) \/ CopyRqe(x)
      PROVE  TakenOf(x, y)'
  <2>0. isSeq(posted[qp]) /\ isSeq(taken[qp])
    BY HistoriesCount
  <2>1. Acts(x, y)
    BY <1>0, <1>1, <1>2, <1>5, <2>0 DEF Acts
  <2> DEFINE n == received(x, y)
  <2>2. /\ n + 1 <= sent(y, x)
        /\ \E v : /\ taken'[qp] = Append(taken[qp], <<posted[back][n + 1][1], v>>)
                  /\ posted[back][n + 1][1] # "sync" => v = posted[back][n + 1][2]
    BY <1>5, <2>1, TakeActor
  <2>3. PICK v : /\ taken'[qp] = Append(taken[qp], <<posted[back][n + 1][1], v>>)
                 /\ posted[back][n + 1][1] # "sync" => v = posted[back][n + 1][2]
    BY <2>2
  <2>4. /\ n \in Nat /\ received(x, y)' = n + 1
        /\ \A i \in 1 .. n : taken'[qp][i] = taken[qp][i]
        /\ taken'[qp][n + 1] = <<posted[back][n + 1][1], v>>
    BY <2>0, <2>3, AppendFacts DEF received
  <2>5. \A i \in 1 .. sent(y, x) : posted'[back][i] = posted[back][i]
    BY <1>3 DEF Grown, sent
  <2>6. ASSUME NEW i \in 1 .. n + 1
        PROVE  /\ i <= sent(y, x)' /\ taken'[qp][i][1] = posted'[back][i][1]
               /\ taken'[qp][i][1] # "sync" => taken'[qp][i][2] = posted'[back][i][2]
    <3>0. /\ sent(y, x) \in Nat /\ sent(y, x)' \in Nat /\ sent(y, x) <= sent(y, x)'
          /\ n \in Nat /\ n + 1 <= sent(y, x)
      BY <1>1, <2>2
    <3>1. CASE i = n + 1
      <4>1. i \in 1 .. sent(y, x) /\ i <= sent(y, x)'
        <5> HIDE DEF n
        <5> QED BY <3>0, <3>1
      <4>2. posted'[back][i] = posted[back][i]
        BY <2>5, <4>1
      <4>3. taken'[qp][i] = <<posted[back][i][1], v>>
        BY <2>4, <3>1
      <4>4. posted[back][i][1] # "sync" => v = posted[back][i][2]
        BY <2>3, <3>1
      <4> HIDE DEF qp, back, n
      <4> QED BY <4>1, <4>2, <4>3, <4>4
    <3>2. CASE i # n + 1
      <4>1. i \in 1 .. n /\ i \in 1 .. sent(y, x) /\ i <= sent(y, x)'
        <5> HIDE DEF n
        <5> QED BY <3>0, <3>2
      <4>2. posted'[back][i] = posted[back][i] /\ taken'[qp][i] = taken[qp][i]
        BY <2>4, <2>5, <4>1
      <4> QED BY <1>0, <4>1, <4>2 DEF TakenOf
    <3> QED BY <3>1, <3>2
  <2> QED BY <2>4, <2>6 DEF TakenOf
<1>6. CASE UNCHANGED vars
  BY <1>4, <1>6, Same
<1>7. CASE \E p \in QPs : Deliver(p[1], p[2])
  BY <1>4, <1>7 DEF Deliver
<1>8. CASE \E r \in Ranks : Begin(r)
  BY <1>4, <1>8 DEF Begin
<1>9. ASSUME NEW r \in Ranks, Works(r)
      PROVE  TakenOf(x, y)'
  <2>1. CASE qp # <<r, Head(todo[r]).q>>
    <3>1. Host(r) /\ qp \in QPs
      BY <1>9 DEF Host, Works, QPs
    <3>2. Untouched(qp)
      BY <2>1, <3>1, Elsewhere
    <3> QED BY <1>4, <3>2 DEF Untouched
  <2>2. CASE qp = <<r, Head(todo[r]).q>>
    <3>1. r = x /\ Head(todo[x]).q = y
      BY <2>2
    <3>2. CASE PostRdmaRecv(x) \/ CopyRqe(x)
      BY <1>5, <1>9, <3>1, <3>2
    <3>3. CASE ~ (PostRdmaRecv(x) \/ CopyRqe(x))
      <4>1. taken' = taken
        BY <1>9, <3>1, <3>3 DEF Works, DevMemAlloc, RegMr, PostWqe, PollCompletion, Free, TakeRqe, PostRdmaWqe
      <4> QED BY <1>4, <4>1
    <3> QED BY <3>2, <3>3
  <2> QED BY <2>1, <2>2
<1> QED BY <1>6, <1>7, <1>8, <1>9 DEF Next, Host, Works

-----------------------------------------------------------------------------
(* The first state.                                                        *)

\* The first state: nothing is begun.
LEMMA InitBase ==
  ASSUME Init
  PROVE  Shape /\ Base
<1>0. /\ prog \in Programs /\ begun = [r \in Ranks |-> 0] /\ todo = [r \in Ranks |-> <<>>]
      /\ table = [r \in Ranks |-> <<>>] /\ dev_mem_ptr = [r \in Ranks |-> 4 * PageUnits * (WorldSize - 1)]
      /\ posted = [qp \in QPs |-> <<>>] /\ taken = [qp \in QPs |-> <<>>]
  BY DEF Init
<1>1. Shape
  <2>1. isSeq(<<>>)
    BY DEF isSeq
  <2>2. \A qp \in QPs : posted[qp] = <<>> /\ taken[qp] = <<>>
    BY <1>0
  <2>3. \A qp \in QPs : isSeq(posted[qp]) /\ isSeq(taken[qp])
    BY <2>1, <2>2
  <2> QED BY <2>3 DEF Init, Shape
<1>2. \A r \in Ranks : begun[r] = 0 /\ todo[r] = <<>> /\ table[r] = <<>> /\ dev_mem_ptr[r] = tensors
  BY <1>0 DEF tensors, others
<1>3. TodoInv
  <2>1. \A r \in Ranks : Len(prog[r]) \in Nat
    BY <1>0, CallsFacts
  <2> QED BY <1>2, <2>1 DEF TodoInv, TodoOf
<1>4. HistoryInv
  <2> SUFFICES ASSUME NEW r \in Ranks, NEW q \in Ranks, r # q
               PROVE  HistoryOf(r, q)
    BY DEF HistoryInv
  <2>1. pos(r, q) = 0
    BY <1>2 DEF pos, posAt
  <2>2. posted[<<r, q>>] = <<>> /\ taken[<<r, q>>] = <<>>
    BY <1>0 DEF QPs
  <2>3. \A script, post : count(script, post, 0) = 0
    BY FS_EmptySet DEF count
  <2>4. \A script, post : Meant(script, post, 0, <<>>)
    BY <2>3 DEF Meant
  <2> QED BY <2>1, <2>2, <2>4 DEF HistoryOf
<1>5. TableInv
  <2>1. tensors \in Nat
    <3>1. 4 * PageUnits \in Nat /\ others \in Nat
      BY RdmaAssumption DEF others
    <3>2. (4 * PageUnits) * others \in Nat
      BY <3>1, ProductNat
    <3> QED BY <3>2 DEF tensors
  <2>2. \A r \in Ranks : DOMAIN table[r] = {}
    BY <1>2
  <2> QED BY <1>2, <2>1, <2>2 DEF TableInv, TableOf
<1> QED BY <1>1, <1>3, <1>4, <1>5 DEF Base

\* The first state: nothing is counted.
LEMMA InitData ==
  ASSUME Init
  PROVE  CountInv /\ DataInv /\ TakenInv
<1> SUFFICES ASSUME NEW r \in Ranks, NEW q \in Ranks, r # q
             PROVE  CountOf(r, q) /\ DataOf(r, q) /\ TakenOf(r, q)
  BY DEF CountInv, DataInv, TakenInv
<1> DEFINE qp == <<r, q>>
           back == <<q, r>>
<1>1. qp \in QPs /\ back \in QPs
  BY DEF QPs
<1>2. /\ sq_pidb[qp] = 0 /\ sq_cidb[qp] = 0 /\ rq_pidb[qp] = 0 /\ SQPI[qp] = 0 /\ CQHEAD[qp] = 0
      /\ CQHEAD[back] = 0 /\ RQPI[qp] = 0 /\ RQCI[qp] = 0 /\ disabled = {} /\ todo[r] = <<>>
      /\ posted[qp] = <<>> /\ posted[back] = <<>> /\ taken[qp] = <<>> /\ taken[back] = <<>>
  BY <1>1 DEF Init
<1>3. sent(r, q) = 0 /\ sent(q, r) = 0 /\ received(r, q) = 0 /\ received(q, r) = 0
  BY <1>2 DEF sent, received
<1>4. ~ atStep(r, q, "poll") /\ ~ atStep(r, q, "copy")
  BY <1>2 DEF atStep
<1> HIDE DEF qp, back
<1>5. CountOf(r, q)
  <2>1. /\ qp \notin disabled /\ sq_pidb[qp] = sent(r, q)
        /\ sq_cidb[qp] = sent(r, q) - 0 /\ sq_cidb[qp] <= CQHEAD[qp] /\ rq_pidb[qp] = RQCI[qp]
        /\ RQPI[qp] = 0 /\ RQCI[qp] = 0
        /\ SQPI[qp] = sent(r, q) /\ CQHEAD[qp] \in received(q, r) .. sent(r, q)
        /\ RQCI[qp] = received(r, q) + 0 /\ RQPI[qp] \in RQCI[qp] .. sent(q, r)
        /\ RQPI[qp] = CQHEAD[back]
    BY <1>2, <1>3
  <2> QED BY <1>4, <2>1 DEF CountOf, qp, back
<1>6. DataOf(r, q)
  <2>1. ~ undelivered(r, q)
    BY <1>2, <1>3 DEF undelivered, qp
  <2>2. SendData(r, q) /\ RecvData(r, q)
    BY <1>2, <1>3 DEF SendData, RecvData, qp
  <2> QED BY <2>1, <2>2 DEF DataOf
<1>7. TakenOf(r, q)
  BY <1>3 DEF TakenOf
<1> QED BY <1>5, <1>6, <1>7

-----------------------------------------------------------------------------
(* The theorems.                                                           *)

\* The inductive invariant: how far every host is in its calls, that what the
\* queue pairs carried is what these calls submit and take, where the tensors
\* are; and for the programs the driver is made for, what the two agents and the
\* hardware count, where the data on its way is, and that what was taken is
\* what was submitted.
THEOREM RdmaInductive == Spec => []RInv
<1>1. Init => RInv
  BY InitBase, InitData DEF RInv
<1>2. RInv /\ [Next]_vars => RInv'
  <2> SUFFICES ASSUME RInv, [Next]_vars
               PROVE  RInv'
    OBVIOUS
  <2>1. Shape /\ Base /\ (Regular => CountInv /\ DataInv /\ TakenInv)
    BY DEF RInv
  <2>2. Shape' /\ Base'
    BY <2>1, ShapeStep, BaseStep
  <2>3. ASSUME Regular'
        PROVE  CountInv' /\ DataInv' /\ TakenInv'
    <3>1. Regular
      BY <2>1, <2>3, RegularFacts
    <3> QED BY <2>1, <2>3, <3>1, CountsStep, DataStep, TakenStep
  <2> QED BY <2>2, <2>3 DEF RInv
<1> QED BY <1>1, <1>2, PTL DEF Spec

\* For any number of hosts whose calls match, any depth of the queues and any
\* size of their pages: what a host takes from a peer is what the peer submitted,
\* in its order and of the kind the call expects, for air_send, air_recv,
\* air_barrier and the advertisements of air_ernic_mem_alloc.
THEOREM RdmaInOrder == Spec => []InOrder
<1>1. RInv => InOrder
  <2> SUFFICES ASSUME RInv, Regular, NEW qp \in QPs, NEW i \in DOMAIN taken[qp]
               PROVE  LET there == posted[<<qp[2], qp[1]>>] IN
                      /\ i <= Len(there) /\ taken[qp][i][1] = there[i][1]
                      /\ taken[qp][i][1] # "sync" => taken[qp][i][2] = there[i][2]
    BY DEF InOrder
  <2>1. PICK r \in Ranks, q \in Ranks : r # q /\ qp = <<r, q>>
    BY DEF QPs
  <2>2. Shape /\ TakenOf(r, q)
    BY <2>1 DEF RInv, TakenInv
  <2>3. isSeq(taken[qp])
    BY <2>2 DEF Shape
  <2>4. i \in 1 .. received(r, q)
    BY <2>1, <2>3 DEF isSeq, received
  <2>5. qp[1] = r /\ qp[2] = q
    BY <2>1
  <2> QED BY <2>1, <2>2, <2>4, <2>5 DEF TakenOf, sent
<1> QED BY <1>1, RdmaInductive, PTL

-----------------------------------------------------------------------------
(* The barriers in an exchange.                                            *)

isMeeting(s, j) == j \in DOMAIN s /\ s[j].of[1] = "barrier"
numbered(s) == [j \in Nat |-> [post |-> IF isMeeting(s, j) THEN 1 ELSE 0]]
\* How many of the first n parts of an exchange belong to barriers.
meets(s, n) == count(numbered(s), 1, n)
barriers(calls, r, n) == Cardinality({i \in 1 .. n : calls[r][i].op = "barrier"})
\* Which of the four parts of a barrier r submits.
submits(r, k) == IF r = 0 THEN k \in {2, 3} ELSE k \in {1, 4}

\* The parts of barriers, counted.
LEMMA MeetsStep ==
  ASSUME NEW s, NEW n \in Nat
  PROVE  /\ meets(s, 0) = 0 /\ meets(s, n) \in Nat
         /\ meets(s, n + 1) = meets(s, n) + (IF isMeeting(s, n + 1) THEN 1 ELSE 0)
<1> DEFINE f == numbered(s)
<1>1. /\ count(f, 1, n) \in Nat
      /\ count(f, 1, n + 1) = count(f, 1, n) + (IF f[n + 1].post = 1 THEN 1 ELSE 0)
  BY CountStep
<1>2. f[n + 1].post = IF isMeeting(s, n + 1) THEN 1 ELSE 0
  BY DEF numbered
<1>3. count(f, 1, 0) = 0
  BY CountZero
<1> HIDE DEF f
<1> QED BY <1>1, <1>2, <1>3 DEF meets, f

\* They only become more.
LEMMA MeetsMonotone ==
  ASSUME NEW s, NEW m \in Nat, NEW n \in Nat, m <= n
  PROVE  meets(s, m) <= meets(s, n)
BY CountMonotone DEF meets

\* Each of them is somewhere.
LEMMA MeetsAt ==
  ASSUME NEW s, NEW n \in Nat, NEW w \in Nat \ {0}, w <= meets(s, n)
  PROVE  \E p \in 1 .. n : isMeeting(s, p) /\ meets(s, p) = w
<1> DEFINE T == {j \in 0 .. n : w <= meets(s, j)}
<1>1. T \subseteq Nat /\ T # {}
  <2>1. n \in T
    OBVIOUS
  <2> QED BY <2>1
<1>2. PICK p \in T : \A j \in T : p <= j
  <2> HIDE DEF T
  <2> QED BY <1>1, Least
<1>3. p # 0
  <2>1. meets(s, 0) = 0
    BY MeetsStep
  <2> QED BY <1>2, <2>1
<1>4. p \in 1 .. n /\ p - 1 \in Nat /\ (p - 1) + 1 = p /\ p - 1 \in 0 .. n /\ p - 1 \notin T
  BY <1>2, <1>3
<1>5. ~ (w <= meets(s, p - 1)) /\ w <= meets(s, p)
  BY <1>2, <1>4
<1>6. /\ meets(s, p - 1) \in Nat
      /\ meets(s, p) = meets(s, p - 1) + (IF isMeeting(s, p) THEN 1 ELSE 0)
  <2>1. meets(s, (p - 1) + 1) = meets(s, p - 1) + (IF isMeeting(s, (p - 1) + 1) THEN 1 ELSE 0)
    BY <1>4, MeetsStep
  <2>2. meets(s, p - 1) \in Nat
    BY <1>4, MeetsStep
  <2> QED BY <1>4, <2>1, <2>2
<1>7. isMeeting(s, p) /\ meets(s, p) = w
  <2> DEFINE a == meets(s, p - 1)
             b == meets(s, p)
  <2>1. a \in Nat /\ ~ (w <= a) /\ w <= b /\ b = a + (IF isMeeting(s, p) THEN 1 ELSE 0)
    BY <1>5, <1>6
  <2> HIDE DEF a, b
  <2>2. isMeeting(s, p) /\ b = w
    BY <2>1
  <2> QED BY <2>2 DEF b
<1> QED BY <1>4, <1>7

\* A barrier is four parts between rank 0 and another host; no other call has
\* such parts.
LEMMA ExchangeMeets ==
  ASSUME NEW r \in Ranks, NEW q \in Ranks, q # r, r = 0 \/ q = 0, NEW c, isCall(r, c)
  PROVE  LET ex == Exchange(r, q, c) IN
         /\ c.op = "barrier" =>
              /\ Len(ex) = 4
              /\ \A k \in 1 .. 4 : ex[k].of[1] = "barrier" /\ ex[k].post = submits(r, k)
         /\ c.op # "barrier" => \A k \in 1 .. Len(ex) : ex[k].of[1] # "barrier"
<1> DEFINE ex == Exchange(r, q, c)
<1>1. CASE c.op = "barrier"
  <2> DEFINE of == <<c.op>>
  <2>0. of[1] = "barrier"
    BY <1>1
  <2> HIDE DEF of, ex
  <2>1. CASE r = 0
    <3>1. ex = <<part(FALSE, "data", of), part(TRUE, "sync", of), part(TRUE, "data", of), part(FALSE, "sync", of)>>
      BY <1>1, <2>1 DEF Exchange, part, ex, of
    <3>2. Len(ex) = 4
      BY <3>1
    <3>3. \A k \in 1 .. 4 : ex[k].of = of /\ ex[k].post = submits(r, k)
      <4>1. /\ ex[1] = part(FALSE, "data", of) /\ ex[2] = part(TRUE, "sync", of)
            /\ ex[3] = part(TRUE, "data", of) /\ ex[4] = part(FALSE, "sync", of)
        BY <3>1
      <4>2. /\ submits(r, 1) = FALSE /\ submits(r, 2) = TRUE /\ submits(r, 3) = TRUE /\ submits(r, 4) = FALSE
        BY <2>1 DEF submits
      <4>3. /\ part(FALSE, "data", of).of = of /\ part(FALSE, "data", of).post = FALSE
            /\ part(TRUE, "data", of).of = of /\ part(TRUE, "data", of).post = TRUE
            /\ part(FALSE, "sync", of).of = of /\ part(FALSE, "sync", of).post = FALSE
            /\ part(TRUE, "sync", of).of = of /\ part(TRUE, "sync", of).post = TRUE
        BY DEF part
      <4>4. /\ ex[1].of = of /\ ex[1].post = FALSE
            /\ ex[2].of = of /\ ex[2].post = TRUE
            /\ ex[3].of = of /\ ex[3].post = TRUE
            /\ ex[4].of = of /\ ex[4].post = FALSE
        BY ONLY <4>1, <4>3, Zenon
      <4>5. \A k \in 1 .. 4 : k = 1 \/ k = 2 \/ k = 3 \/ k = 4
        OBVIOUS
      <4> QED BY ONLY <4>2, <4>4, <4>5, Zenon
    <3> QED BY <1>1, <2>0, <3>2, <3>3 DEF ex
  <2>2. CASE r # 0
    <3>0. q = 0
      BY <2>2
    <3>1. ex = <<part(TRUE, "data", of), part(FALSE, "sync", of), part(FALSE, "data", of), part(TRUE, "sync", of)>>
      BY <1>1, <2>2, <3>0 DEF Exchange, part, ex, of
    <3>2. Len(ex) = 4
      BY <3>1
    <3>3. \A k \in 1 .. 4 : ex[k].of = of /\ ex[k].post = submits(r, k)
      <4>1. /\ ex[1] = part(TRUE, "data", of) /\ ex[2] = part(FALSE, "sync", of)
            /\ ex[3] = part(FALSE, "data", of) /\ ex[4] = part(TRUE, "sync", of)
        BY <3>1
      <4>2. /\ submits(r, 1) = TRUE /\ submits(r, 2) = FALSE /\ submits(r, 3) = FALSE /\ submits(r, 4) = TRUE
        BY <2>2 DEF submits
      <4>3. /\ part(FALSE, "data", of).of = of /\ part(FALSE, "data", of).post = FALSE
            /\ part(TRUE, "data", of).of = of /\ part(TRUE, "data", of).post = TRUE
            /\ part(FALSE, "sync", of).of = of /\ part(FALSE, "sync", of).post = FALSE
            /\ part(TRUE, "sync", of).of = of /\ part(TRUE, "sync", of).post = TRUE
        BY DEF part
      <4>4. /\ ex[1].of = of /\ ex[1].post = TRUE
            /\ ex[2].of = of /\ ex[2].post = FALSE
            /\ ex[3].of = of /\ ex[3].post = FALSE
            /\ ex[4].of = of /\ ex[4].post = TRUE
        BY ONLY <4>1, <4>3, Zenon
      <4>5. \A k \in 1 .. 4 : k = 1 \/ k = 2 \/ k = 3 \/ k = 4
        OBVIOUS
      <4> QED BY ONLY <4>2, <4>4, <4>5, Zenon
    <3> QED BY <1>1, <2>0, <3>2, <3>3 DEF ex
  <2> QED BY <2>1, <2>2
<1>2. CASE c.op = "alloc"
  <2> DEFINE of == <<c.op, c.t>>
  <2>0. of[1] = "alloc"
    BY <1>2
  <2> HIDE DEF of, ex
  <2>1. \/ ex = <<part(TRUE, "rkey", of), part(TRUE, "vaddr", of)>>
        \/ ex = <<part(FALSE, "rkey", of), part(FALSE, "vaddr", of)>>
        \/ ex = <<>>
    BY <1>2 DEF Exchange, part, ex, of
  <2>2. \A k \in 1 .. Len(ex) : ex[k].of = of
    BY <2>1 DEF part
  <2> QED BY <1>2, <2>0, <2>2 DEF ex
<1>3. CASE c.op \in {"send", "recv"}
  <2> DEFINE of == <<"message">>
  <2>0. of[1] = "message" /\ c.size \in Nat
    BY <1>3 DEF isCall
  <2> HIDE DEF of, ex
  <2>1. \A k \in 1 .. Len(ex) : ex[k].of = of
    <3>1. CASE c.at # q
      <4>1. ex = <<>>
        BY <1>3, <3>1 DEF Exchange, ex
      <4> QED BY <4>1
    <3>2. ASSUME NEW a, NEW b, NEW kind, ex = [i \in 1 .. c.size |-> part(a, "data", of)] \o <<part(b, kind, of)>>
          PROVE  \A k \in 1 .. Len(ex) : ex[k].of = of
      <4> DEFINE u == [i \in 1 .. c.size |-> part(a, "data", of)]
                 v == <<part(b, kind, of)>>
                 S == {part(a, "data", of), part(b, kind, of)}
      <4>1. u \in Seq(S) /\ v \in Seq(S) /\ Len(u) = c.size
        BY <2>0
      <4>2. ex \in Seq(S)
        BY <3>2, <4>1
      <4>3. \A x \in S : x.of = of
        BY DEF part
      <4> HIDE DEF S
      <4> QED BY <4>2, <4>3
    <3>3. CASE c.op = "send" /\ c.at = q
      <4>1. ex = [i \in 1 .. c.size |-> part(TRUE, "data", of)] \o <<part(FALSE, "sync", of)>>
        BY <3>3 DEF Exchange, part, ex, of
      <4> QED BY <3>2, <4>1
    <3>4. CASE c.op = "recv" /\ c.at = q
      <4>1. ex = [i \in 1 .. c.size |-> part(FALSE, "data", of)] \o <<part(TRUE, "sync", of)>>
        BY <3>4 DEF Exchange, part, ex, of
      <4> QED BY <3>2, <4>1
    <3> QED BY <1>3, <3>1, <3>3, <3>4
  <2> QED BY <1>3, <2>0, <2>1 DEF ex
<1>4. CASE c.op = "free"
  <2>1. ex = <<>>
    BY <1>4 DEF Exchange
  <2> QED BY <1>4, <2>1
<1> QED BY <1>1, <1>2, <1>3, <1>4 DEF isCall

\* The barriers among a host's calls, counted.
LEMMA BarriersStep ==
  ASSUME NEW calls, NEW r, NEW n \in Nat
  PROVE  /\ barriers(calls, r, 0) = 0 /\ barriers(calls, r, n) \in Nat
         /\ barriers(calls, r, n + 1) =
              barriers(calls, r, n) + (IF calls[r][n + 1].op = "barrier" THEN 1 ELSE 0)
         /\ \A m \in Nat : m <= n => barriers(calls, r, m) <= barriers(calls, r, n)
<1> DEFINE f == [i \in Nat |-> [post |-> IF calls[r][i].op = "barrier" THEN 1 ELSE 0]]
<1>1. \A i \in Nat : f[i].post = IF calls[r][i].op = "barrier" THEN 1 ELSE 0
  OBVIOUS
<1> HIDE DEF f
<1>2. \A m \in Nat : barriers(calls, r, m) = count(f, 1, m)
  <2> SUFFICES ASSUME NEW m \in Nat PROVE barriers(calls, r, m) = count(f, 1, m)
    OBVIOUS
  <2>1. \A i \in 1 .. m : f[i].post = 1 <=> calls[r][i].op = "barrier"
    BY <1>1
  <2>2. {i \in 1 .. m : calls[r][i].op = "barrier"} = {j \in 1 .. m : f[j].post = 1}
    BY <2>1
  <2> QED BY <2>2 DEF barriers, count
<1>3. /\ count(f, 1, 0) = 0 /\ count(f, 1, n) \in Nat
      /\ count(f, 1, n + 1) = count(f, 1, n) + (IF f[n + 1].post = 1 THEN 1 ELSE 0)
      /\ \A m \in Nat : m <= n => count(f, 1, m) <= count(f, 1, n)
  BY CountZero, CountStep, CountMonotone
<1>4. f[n + 1].post = 1 <=> calls[r][n + 1].op = "barrier"
  BY <1>1
<1>5. 0 \in Nat /\ n + 1 \in Nat
  OBVIOUS
<1> QED BY <1>2, <1>3, <1>4, <1>5

\* The parts of barriers up to the k-th part of the i-th call.
LEMMA ScriptMeets ==
  ASSUME NEW calls \in Programs, NEW r \in Ranks, NEW q \in Ranks, q # r, r = 0 \/ q = 0
  PROVE  LET at == starts(exchanges(calls, r, q))
             s == Script(calls, r, q)
         IN  \A i \in 1 .. Len(calls[r]) : \A k \in 0 .. Len(Exchange(r, q, calls[r][i])) :
               meets(s, at[i] + k) =
                 4 * barriers(calls, r, i - 1) + (IF calls[r][i].op = "barrier" THEN k ELSE 0)
<1> DEFINE at == starts(exchanges(calls, r, q))
           s == Script(calls, r, q)
           N == Len(calls[r])
           E(i) == Exchange(r, q, calls[r][i])
           B(i) == barriers(calls, r, i)
           is(i) == calls[r][i].op = "barrier"
<1>1. /\ at \in [1 .. N + 1 -> Nat] /\ at[1] = 0
      /\ \A i \in 1 .. N : at[i + 1] = at[i] + Len(E(i))
      /\ isSeq(s) /\ Len(s) = at[N + 1]
      /\ \A i \in 1 .. N : \A k \in 1 .. Len(E(i)) :
           at[i] + k \in 1 .. Len(s) /\ s[at[i] + k] = E(i)[k]
  BY ScriptFacts
<1>2. N \in Nat /\ \A i \in 1 .. N : isCall(r, calls[r][i])
  BY CallsFacts
<1>3. \A i \in 1 .. N :
        /\ is(i) => Len(E(i)) = 4 /\ \A k \in 1 .. 4 : E(i)[k].of[1] = "barrier"
        /\ ~ is(i) => \A k \in 1 .. Len(E(i)) : E(i)[k].of[1] # "barrier"
  BY <1>2, ExchangeMeets
<1>4. \A i \in 1 .. N : Len(E(i)) \in Nat
  BY <1>2, TrackCall, SeqIsSeq DEF Tracks, isSeq
<1>5. \A i \in Nat : B(i) \in Nat /\ B(i + 1) = B(i) + (IF is(i + 1) THEN 1 ELSE 0)
  BY BarriersStep
<1>6. B(0) = 0 /\ meets(s, 0) = 0
  BY BarriersStep, MeetsStep
<1> HIDE DEF at, s, N, E, B, is
<1>7. ASSUME NEW i \in 1 .. N, meets(s, at[i]) = 4 * B(i - 1)
      PROVE  \A k \in 0 .. Len(E(i)) : meets(s, at[i] + k) = 4 * B(i - 1) + (IF is(i) THEN k ELSE 0)
  <2>0. i - 1 \in Nat /\ i \in 1 .. N + 1
    BY <1>2
  <2>1. at[i] \in Nat /\ at[i] + 0 = at[i] /\ B(i - 1) \in Nat /\ Len(E(i)) \in Nat
    <3>1. at[i] \in Nat
      BY <1>1, <2>0
    <3>2. B(i - 1) \in Nat
      BY <1>5, <2>0
    <3> QED BY <1>4, <3>1, <3>2
  <2> DEFINE U == {k \in Nat : meets(s, at[i] + k) = 4 * B(i - 1) + (IF is(i) THEN k ELSE 0)}
  <2>2. 0 \in U
    <3> HIDE DEF U
    <3>1. meets(s, at[i] + 0) = 4 * B(i - 1) + (IF is(i) THEN 0 ELSE 0)
      BY <1>7, <2>1
    <3> QED BY <3>1 DEF U
  <2>3. ASSUME NEW k \in 0 .. Len(E(i)) - 1, k \in U PROVE k + 1 \in U
    <3>1. at[i] + k \in Nat /\ (at[i] + k) + 1 = at[i] + (k + 1) /\ k + 1 \in 1 .. Len(E(i)) /\ k + 1 \in Nat /\ k \in Nat
      BY <2>1
    <3>2. meets(s, (at[i] + k) + 1) = meets(s, at[i] + k) + (IF isMeeting(s, (at[i] + k) + 1) THEN 1 ELSE 0)
      BY <3>1, MeetsStep
    <3>3. at[i] + (k + 1) \in DOMAIN s /\ s[at[i] + (k + 1)] = E(i)[k + 1]
      BY <1>1, <3>1 DEF isSeq
    <3>4. isMeeting(s, at[i] + (k + 1)) <=> is(i)
      <4>1. CASE is(i)
        BY <1>3, <3>1, <3>3, <4>1 DEF isMeeting
      <4>2. CASE ~ is(i)
        BY <1>3, <3>1, <3>3, <4>2 DEF isMeeting
      <4> QED BY <4>1, <4>2
    <3>5. meets(s, at[i] + k) = 4 * B(i - 1) + (IF is(i) THEN k ELSE 0)
      BY <2>3
    <3>6. meets(s, at[i] + (k + 1)) = meets(s, at[i] + k) + (IF is(i) THEN 1 ELSE 0)
      BY <3>1, <3>2, <3>4
    <3>7. meets(s, at[i] + (k + 1)) = 4 * B(i - 1) + (IF is(i) THEN k + 1 ELSE 0)
      <4> DEFINE a == meets(s, at[i] + (k + 1))
                 b == B(i - 1)
                 d == meets(s, at[i] + k)
      <4>1. b \in Nat /\ k \in Nat /\ d = 4 * b + (IF is(i) THEN k ELSE 0) /\ a = d + (IF is(i) THEN 1 ELSE 0)
        BY <2>1, <3>1, <3>5, <3>6
      <4> HIDE DEF U, a, b, d
      <4>2. a = 4 * b + (IF is(i) THEN k + 1 ELSE 0)
        <5>1. CASE is(i)
          BY <4>1, <5>1
        <5>2. CASE ~ is(i)
          BY <4>1, <5>2
        <5> QED BY <5>1, <5>2
      <4> QED BY <4>2 DEF a, b
    <3> QED BY <3>1, <3>7
  <2>4. \A k \in 0 .. Len(E(i)) : k \in U
    <3> HIDE DEF U
    <3> QED BY <2>1, <2>2, <2>3, UpTo
  <2> QED BY <2>4
<1>8. \A j \in 0 .. N : meets(s, at[j + 1]) = 4 * B(j)
  <2> DEFINE V == {j \in Nat : meets(s, at[j + 1]) = 4 * B(j)}
  <2>1. 0 \in V
    BY <1>1, <1>6
  <2>2. ASSUME NEW j \in 0 .. N - 1, j \in V PROVE j + 1 \in V
    <3>1. j + 1 \in 1 .. N /\ (j + 1) - 1 = j /\ j \in Nat /\ j + 1 \in Nat
      BY <1>2
    <3>2. meets(s, at[j + 1]) = 4 * B((j + 1) - 1)
      BY <2>2, <3>1
    <3>3. \A k \in 0 .. Len(E(j + 1)) :
            meets(s, at[j + 1] + k) = 4 * B((j + 1) - 1) + (IF is(j + 1) THEN k ELSE 0)
      <4> HIDE DEF V
      <4> QED BY <1>7, <3>1, <3>2
    <3>4. Len(E(j + 1)) \in 0 .. Len(E(j + 1)) /\ at[(j + 1) + 1] = at[j + 1] + Len(E(j + 1))
      BY <1>1, <1>4, <3>1
    <3>5. meets(s, at[(j + 1) + 1]) = 4 * B(j) + (IF is(j + 1) THEN Len(E(j + 1)) ELSE 0)
      <4> HIDE DEF V
      <4> QED BY <3>1, <3>3, <3>4
    <3>6. is(j + 1) => Len(E(j + 1)) = 4
      BY <1>3, <3>1
    <3>7. B(j) \in Nat /\ B(j + 1) = B(j) + (IF is(j + 1) THEN 1 ELSE 0)
      BY <1>5, <3>1
    <3>8. meets(s, at[(j + 1) + 1]) = 4 * B(j + 1)
      <4> DEFINE a == meets(s, at[(j + 1) + 1])
                 b == B(j)
                 d == B(j + 1)
      <4>1. /\ b \in Nat /\ a = 4 * b + (IF is(j + 1) THEN Len(E(j + 1)) ELSE 0)
            /\ d = b + (IF is(j + 1) THEN 1 ELSE 0)
        BY <3>5, <3>7
      <4> HIDE DEF V, a, b, d
      <4>2. a = 4 * d
        <5>1. CASE is(j + 1)
          <6>1. Len(E(j + 1)) = 4
            BY <3>6, <5>1
          <6>2. a = 4 * b + 4 /\ d = b + 1 /\ b \in Nat
            BY <4>1, <5>1, <6>1
          <6> QED BY ONLY <6>2
        <5>2. CASE ~ is(j + 1)
          BY <4>1, <5>2 DEF is
        <5> QED BY <5>1, <5>2
      <4> QED BY <4>2 DEF a, d
    <3> QED BY <3>1, <3>8
  <2>3. \A j \in 0 .. N : j \in V
    <3> HIDE DEF V
    <3> QED BY <1>2, <2>1, <2>2, UpTo
  <2> QED BY <2>3
<1>9. \A i \in 1 .. N : meets(s, at[i]) = 4 * B(i - 1)
  <2> SUFFICES ASSUME NEW i \in 1 .. N PROVE meets(s, at[i]) = 4 * B(i - 1)
    OBVIOUS
  <2>1. i - 1 \in 0 .. N /\ (i - 1) + 1 = i
    BY <1>2
  <2> QED BY <1>8, <2>1
<1> QED BY <1>7, <1>9 DEF at, s, N, E, B, is

\* Every part of a program's exchange is a part of one of its calls.
LEMMA ScriptCall ==
  ASSUME NEW calls \in Programs, NEW r \in Ranks, NEW q \in Ranks, q # r,
         NEW p \in 1 .. Len(Script(calls, r, q))
  PROVE  \E i \in 1 .. Len(calls[r]) : \E k \in 1 .. Len(Exchange(r, q, calls[r][i])) :
           /\ p = starts(exchanges(calls, r, q))[i] + k
           /\ Script(calls, r, q)[p] = Exchange(r, q, calls[r][i])[k]
<1> DEFINE at == starts(exchanges(calls, r, q))
           s == Script(calls, r, q)
           N == Len(calls[r])
           E(i) == Exchange(r, q, calls[r][i])
           T == {j \in 1 .. N + 1 : p <= at[j]}
<1>1. /\ at \in [1 .. N + 1 -> Nat] /\ at[1] = 0
      /\ \A i \in 1 .. N : at[i + 1] = at[i] + Len(E(i))
      /\ Len(s) = at[N + 1]
      /\ \A i \in 1 .. N : \A k \in 1 .. Len(E(i)) : s[at[i] + k] = E(i)[k]
  BY ScriptFacts
<1>2. N \in Nat /\ \A i \in 1 .. N : Len(E(i)) \in Nat
  BY CallsFacts, TrackCall, SeqIsSeq DEF Tracks, isSeq
<1> HIDE DEF at, s, N, E
<1>3. T \subseteq Nat /\ T # {}
  <2>1. p \in 1 .. Len(s)
    BY DEF s
  <2>2. N + 1 \in T
    BY <1>1, <1>2, <2>1
  <2> QED BY <1>2, <2>2
<1>4. PICK j \in T : \A i \in T : j <= i
  <2> HIDE DEF T
  <2> QED BY <1>3, Least
<1>5. j \in 1 .. N + 1 /\ p <= at[j] /\ p \in Nat /\ p >= 1
  <2>1. p \in 1 .. Len(s)
    BY DEF s
  <2> QED BY <1>1, <1>2, <1>4, <2>1
<1>6. j # 1
  BY <1>1, <1>5
<1>7. j - 1 \in 1 .. N /\ (j - 1) + 1 = j /\ j - 1 \notin T
  BY <1>2, <1>4, <1>5, <1>6
<1>8. PICK i \in 1 .. N : at[j] = at[i] + Len(E(i)) /\ at[i] \in Nat /\ ~ (p <= at[i])
  <2>1. j - 1 \in 1 .. N /\ j - 1 \in 1 .. N + 1
    BY <1>2, <1>7
  <2>2. ~ (p <= at[j - 1])
    BY <1>7, <2>1
  <2>3. at[j] = at[j - 1] + Len(E(j - 1)) /\ at[j - 1] \in Nat
    BY <1>1, <1>7, <2>1
  <2> HIDE DEF T
  <2> QED BY <2>1, <2>2, <2>3
<1>9. p - at[i] \in 1 .. Len(E(i)) /\ p = at[i] + (p - at[i])
  BY <1>2, <1>5, <1>8
<1>10. s[p] = E(i)[p - at[i]]
  BY <1>1, <1>8, <1>9
<1> QED BY <1>8, <1>9, <1>10 DEF at, s, N, E

\* The number of a barrier's part among the parts of barriers says whether it is
\* submitted.
LEMMA PartMeets ==
  ASSUME NEW calls \in Programs, NEW r \in Ranks, NEW q \in Ranks, q # r, r = 0 \/ q = 0,
         NEW p \in 1 .. Len(Script(calls, r, q)), isMeeting(Script(calls, r, q), p)
  PROVE  \E b \in Nat : \E k \in 1 .. 4 :
           /\ meets(Script(calls, r, q), p) = 4 * b + k
           /\ Script(calls, r, q)[p].post = submits(r, k)
<1> DEFINE at == starts(exchanges(calls, r, q))
           s == Script(calls, r, q)
<1>0. PICK i \in 1 .. Len(calls[r]) : \E k \in 1 .. Len(Exchange(r, q, calls[r][i])) :
        p = at[i] + k /\ s[p] = Exchange(r, q, calls[r][i])[k]
  BY ScriptCall
<1>1. PICK k \in 1 .. Len(Exchange(r, q, calls[r][i])) :
        p = at[i] + k /\ s[p] = Exchange(r, q, calls[r][i])[k]
  BY <1>0
<1> DEFINE c == calls[r][i]
           ex == Exchange(r, q, c)
<1>2. isCall(r, c)
  BY CallsFacts
<1>3. /\ c.op = "barrier" =>
           /\ Len(ex) = 4
           /\ \A j \in 1 .. 4 : ex[j].of[1] = "barrier" /\ ex[j].post = submits(r, j)
      /\ c.op # "barrier" => \A j \in 1 .. Len(ex) : ex[j].of[1] # "barrier"
  BY <1>2, ExchangeMeets
<1>4. c.op = "barrier"
  BY <1>1, <1>3 DEF isMeeting
<1>5. k \in 1 .. 4 /\ s[p].post = submits(r, k)
  <2>1. k \in 1 .. 4 /\ s[p] = ex[k]
    BY <1>1, <1>3, <1>4
  <2>2. ex[k].post = submits(r, k)
    BY <1>3, <1>4, <2>1
  <2> QED BY ONLY <2>1, <2>2, Zenon
<1>6. meets(s, p) = 4 * barriers(calls, r, i - 1) + k
  <2>1. k \in 0 .. Len(ex)
    BY <1>1
  <2>2. meets(s, at[i] + k) = 4 * barriers(calls, r, i - 1) + (IF c.op = "barrier" THEN k ELSE 0)
    BY <2>1, ScriptMeets
  <2> QED BY <1>1, <1>4, <2>2
<1>7. barriers(calls, r, i - 1) \in Nat
  <2>1. i - 1 \in Nat
    OBVIOUS
  <2> QED BY <2>1, BarriersStep
<1> HIDE DEF s
<1> QED BY <1>5, <1>6, <1>7 DEF s

-----------------------------------------------------------------------------
(* How far a host is in its barriers.                                      *)

met_so_far(r, q) == meets(Script(prog, r, q), pos(r, q))

\* No call has more parts behind it than it has.
LEMMA ProgressBound ==
  ASSUME NEW r \in Ranks, NEW q \in Ranks, q # r, NEW c, isCall(r, c)
  PROVE  \A m \in 0 .. stepCount(r, c) : progress(r, q, c, m) \in 0 .. Len(Exchange(r, q, c))
<1> DEFINE n == stepCount(r, c)
           L == Len(Exchange(r, q, c))
           U == {m \in Nat : progress(r, q, c, m) <= L}
<1>1. n \in Nat /\ L \in Nat
  BY StepCountNat, TrackCall, SeqIsSeq DEF Tracks, isSeq
<1>2. /\ progress(r, q, c, 0) = 0
      /\ \A m \in 0 .. n : progress(r, q, c, m) \in Nat
      /\ \A k \in 1 .. n : progress(r, q, c, k) \in 1 .. L \/ progress(r, q, c, k) = progress(r, q, c, k - 1)
  BY TrackCall DEF Tracks, Advances
<1> HIDE DEF n, L
<1>3. 0 \in U
  BY <1>1, <1>2
<1>4. ASSUME NEW m \in 0 .. n - 1, m \in U PROVE m + 1 \in U
  <2>1. m + 1 \in 1 .. n /\ (m + 1) - 1 = m /\ m + 1 \in Nat
    BY <1>1
  <2>2. progress(r, q, c, m) <= L
    BY <1>4
  <2>3. progress(r, q, c, m + 1) <= L
    <3> HIDE DEF U
    <3>1. progress(r, q, c, m + 1) \in 1 .. L \/ progress(r, q, c, m + 1) = progress(r, q, c, m)
      BY <1>2, <2>1
    <3> QED BY <1>1, <2>2, <3>1
  <2> QED BY <2>1, <2>3
<1>5. \A m \in 0 .. n : m \in U
  <2> HIDE DEF U
  <2> QED BY <1>1, <1>3, <1>4, UpTo
<1>6. \A m \in 0 .. n : progress(r, q, c, m) <= L
  BY <1>5
<1> QED BY <1>1, <1>2, <1>6 DEF n, L

\* The parts of barriers behind a host: four for every call before the one it is
\* in, and what it has done of that one.
LEMMA PosMeets ==
  ASSUME NEW r \in Ranks, NEW q \in Ranks, q # r, r = 0 \/ q = 0, Shape, TodoOf(r)
  PROVE  /\ begun[r] \in Nat /\ pos(r, q) \in 0 .. Len(Script(prog, r, q))
         /\ begun[r] = 0 => met_so_far(r, q) = 0 /\ todo[r] = <<>>
         /\ begun[r] # 0 =>
              /\ begun[r] - 1 \in Nat /\ done(r) \in 0 .. stepCount(r, call(r))
              /\ call(r).op = "barrier" =>
                   /\ met_so_far(r, q) = 4 * barriers(prog, r, begun[r] - 1) + progress(r, q, call(r), done(r))
                   /\ progress(r, q, call(r), done(r)) \in 0 .. 4
                   /\ todo[r] = <<>> => progress(r, q, call(r), done(r)) = 4
              /\ call(r).op # "barrier" => met_so_far(r, q) = 4 * barriers(prog, r, begun[r] - 1)
<1> DEFINE at == starts(exchanges(prog, r, q))
           s == Script(prog, r, q)
           N == Len(prog[r])
           E(i) == Exchange(r, q, prog[r][i])
           b == begun[r]
<1>0. prog \in Programs /\ N \in Nat /\ b \in 0 .. N
  BY CallsFacts DEF Shape, TodoOf
<1>1. /\ at \in [1 .. N + 1 -> Nat] /\ at[1] = 0
      /\ \A i \in 1 .. N : at[i + 1] = at[i] + Len(E(i))
      /\ Len(s) = at[N + 1]
      /\ \A i \in 1 .. N : \A k \in 1 .. Len(E(i)) : at[i] + k \in 1 .. Len(s)
  BY <1>0, ScriptFacts
<1>2. Len(s) \in Nat
  <2>1. N + 1 \in 1 .. N + 1
    BY <1>0
  <2> HIDE DEF at, s, N
  <2> QED BY <1>1, <2>1
<1>3. CASE b = 0
  <2>1. pos(r, q) = 0
    BY <1>0, <1>3, PosFacts DEF pos
  <2>2. meets(s, 0) = 0
    BY MeetsStep
  <2>3. todo[r] = <<>>
    BY <1>3 DEF TodoOf
  <2> HIDE DEF s
  <2> QED BY <1>2, <1>3, <2>1, <2>2, <2>3 DEF met_so_far, s
<1>4. CASE b # 0
  <2> DEFINE c == call(r)
             n == stepCount(r, c)
             m == done(r)
             x == progress(r, q, c, m)
  <2>1. b \in 1 .. N /\ b - 1 \in Nat
    BY <1>0, <1>4
  <2>2. isCall(r, c)
    BY <1>0, <2>1, CallsFacts DEF call
  <2>3. PICK k \in 0 .. n : todo[r] = remaining(r, c, k)
    BY <1>4 DEF TodoOf
  <2>4. n \in Nat /\ Len(todo[r]) = n - k /\ (todo[r] = <<>> <=> k = n)
    BY <2>2, <2>3, RemainingFacts
  <2>5. m = k /\ m \in 0 .. n /\ (todo[r] = <<>> => m = n)
    BY <2>3, <2>4 DEF done
  <2>6. x \in 0 .. Len(E(b))
    BY <2>2, <2>5, ProgressBound DEF call
  <2>7. todo[r] = <<>> => x = Len(E(b))
    BY <2>2, <2>5, TrackCall DEF Tracks, call
  <2>8. pos(r, q) = at[b] + x
    BY <1>4 DEF pos, posAt, call
  <2>9. pos(r, q) \in 0 .. Len(s)
    <3>1. at[b] \in Nat /\ at[b] + 0 = at[b]
      BY <1>1, <2>1
    <3>2. CASE x # 0
      <4>1. x \in 1 .. Len(E(b))
        BY <2>6, <3>2
      <4>2. at[b] + x \in 1 .. Len(s)
        BY <1>1, <2>1, <4>1
      <4> HIDE DEF s, at, x, b
      <4> QED BY <1>2, <2>8, <4>2
    <3>3. CASE x = 0
      <4>1. pos(r, q) = at[b]
        BY <2>8, <3>1, <3>3
      <4>2. at[b] <= Len(s)
        <5> DEFINE V == {j \in Nat : at[N + 1 - j] <= Len(s)}
        <5>1. 0 \in V
          BY <1>0, <1>1, <1>2
        <5>2. ASSUME NEW j \in 0 .. (N + 1 - b) - 1, j \in V PROVE j + 1 \in V
          <6>1. N - j \in 1 .. N /\ N + 1 - (j + 1) = N - j /\ (N - j) + 1 = N + 1 - j /\ j + 1 \in Nat
                /\ N - j \in 1 .. N + 1
            <7>1. j \in 0 .. (N + 1 - b) - 1 /\ N \in Nat /\ b \in 1 .. N
              BY <1>0, <2>1
            <7> HIDE DEF N, b, V
            <7> QED BY ONLY <7>1
          <6>2. at[N + 1 - j] <= Len(s)
            BY <5>2
          <6>3. at[N + 1 - j] = at[N - j] + Len(E(N - j)) /\ Len(E(N - j)) \in Nat /\ at[N - j] \in Nat
            <7>1. isCall(r, prog[r][N - j])
              BY <1>0, <6>1, CallsFacts
            <7>2. Len(E(N - j)) \in Nat
              BY <7>1, TrackCall, SeqIsSeq DEF Tracks, isSeq
            <7> QED BY <1>1, <6>1, <7>2
          <6>4. at[N + 1 - (j + 1)] <= Len(s)
            <7> HIDE DEF at, s, E, N, V
            <7> QED BY <1>2, <6>1, <6>2, <6>3
          <6> QED BY <6>1, <6>4
        <5>3. N + 1 - b \in Nat /\ N + 1 - (N + 1 - b) = b
          BY <1>0, <2>1
        <5>4. \A j \in 0 .. N + 1 - b : j \in V
          <6> HIDE DEF V
          <6> QED BY <5>1, <5>2, <5>3, UpTo
        <5>5. N + 1 - b \in V
          <6> HIDE DEF V, N, b
          <6> QED BY <5>3, <5>4
        <5> QED BY <5>3, <5>5
      <4> HIDE DEF at, s, b
      <4> QED BY <1>2, <3>1, <4>1, <4>2
    <3> QED BY <3>2, <3>3
  <2>10. met_so_far(r, q) = 4 * barriers(prog, r, b - 1) + (IF c.op = "barrier" THEN x ELSE 0)
    <3>1. meets(s, at[b] + x) = 4 * barriers(prog, r, b - 1) + (IF prog[r][b].op = "barrier" THEN x ELSE 0)
      <4> HIDE DEF x
      <4> QED BY <1>0, <2>1, <2>6, ScriptMeets
    <3> HIDE DEF x, s, at
    <3> QED BY <2>8, <3>1 DEF met_so_far, s, call
  <2>11. c.op = "barrier" => Len(E(b)) = 4
    BY <2>2, ExchangeMeets DEF call
  <2>12. barriers(prog, r, b - 1) \in Nat
    BY <2>1, BarriersStep
  <2> DEFINE B == barriers(prog, r, b - 1)
             M == met_so_far(r, q)
  <2> HIDE DEF x, s, m, c, n, E, B, M
  <2>13. /\ c.op = "barrier" => M = 4 * B + x /\ x \in 0 .. 4 /\ (todo[r] = <<>> => x = 4)
         /\ c.op # "barrier" => M = 4 * B
    <3>1. M = 4 * B + (IF c.op = "barrier" THEN x ELSE 0) /\ B \in Nat
      BY <2>10, <2>12 DEF B, M
    <3>2. CASE c.op = "barrier"
      <4>1. Len(E(b)) = 4
        BY <2>11, <3>2
      <4> QED BY <2>6, <2>7, <3>1, <3>2, <4>1
    <3>3. CASE c.op # "barrier"
      BY <3>1, <3>3
    <3> QED BY <3>2, <3>3
  <2> QED BY <1>4, <2>1, <2>5, <2>9, <2>13 DEF x, s, m, c, n, B, M
<1> QED BY <1>3, <1>4

\* Two numbers of the parts of barriers.
LEMMA FourSplit ==
  ASSUME NEW b \in Nat, NEW k \in 1 .. 4, NEW d \in Nat, NEW j \in 1 .. 4, 4 * b + k = 4 * d + j
  PROVE  b = d /\ k = j
OBVIOUS

\* When a host has taken a part of a barrier, its peer has submitted it.
LEMMA Answered ==
  ASSUME NEW r \in Ranks, NEW q \in Ranks, q # r, r = 0 \/ q = 0, Shape, TodoOf(r), TodoOf(q),
         HistoryOf(r, q), HistoryOf(q, r), TakenOf(r, q),
         NEW b \in Nat, NEW k \in 1 .. 4, submits(r, k) = FALSE, 4 * b + k <= met_so_far(r, q)
  PROVE  4 * b + k <= met_so_far(q, r)
<1> DEFINE mine == Script(prog, r, q)
           its == Script(prog, q, r)
           w == 4 * b + k
<1>1. /\ isDual(mine, its) /\ Len(mine) \in Nat
      /\ \A j \in 1 .. Len(mine) : mine[j].of = its[j].of
      /\ DOMAIN mine = 1 .. Len(mine) /\ DOMAIN its = 1 .. Len(mine)
  <2>1. isDual(mine, its)
    BY ScriptsDual DEF Shape
  <2>2. isSeq(mine) /\ isSeq(its)
    BY <2>1 DEF isDual
  <2>3. DOMAIN mine = DOMAIN its
    BY <2>1 DEF isDual
  <2> HIDE DEF mine, its
  <2>4. Len(mine) \in Nat /\ \A j \in 1 .. Len(mine) : mine[j].of = its[j].of
    BY <2>1, DualParts
  <2>5. DOMAIN mine = 1 .. Len(mine)
    BY <2>2 DEF isSeq
  <2> QED BY <2>1, <2>3, <2>4, <2>5
<1>2. pos(r, q) \in 0 .. Len(mine) /\ pos(r, q) \in Nat /\ pos(q, r) \in Nat
  BY PosMeets, PosNat
<1>3. w \in Nat \ {0}
  OBVIOUS
<1>4. PICK p \in 1 .. pos(r, q) : isMeeting(mine, p) /\ meets(mine, p) = w
  <2>1. w <= meets(mine, pos(r, q))
    BY DEF met_so_far
  <2> HIDE DEF mine, w
  <2> QED BY <1>2, <1>3, <2>1, MeetsAt
<1>5. p \in 1 .. Len(mine) /\ p \in Nat
  BY <1>2, <1>4
<1>6. mine[p].post = FALSE
  <2>1. PICK d \in Nat : \E j \in 1 .. 4 : meets(mine, p) = 4 * d + j /\ mine[p].post = submits(r, j)
    <3>1. prog \in Programs
      BY DEF Shape
    <3> QED BY <1>4, <1>5, <3>1, PartMeets
  <2>2. PICK j \in 1 .. 4 : meets(mine, p) = 4 * d + j /\ mine[p].post = submits(r, j)
    BY <2>1
  <2>3. 4 * b + k = 4 * d + j
    BY <1>4, <2>2
  <2>4. j = k
    BY <2>3, FourSplit
  <2>5. submits(r, k) = FALSE
    OBVIOUS
  <2> QED BY ONLY <2>2, <2>4, <2>5, Zenon
<1> HIDE DEF w
<1>7. p <= pos(q, r)
  <2> DEFINE i == count(mine, FALSE, p)
             h == posted[<<q, r>>]
  <2>1. /\ received(r, q) = count(mine, FALSE, pos(r, q))
        /\ Submits(its, pos(q, r), h)
    BY DEF HistoryOf, Meant, received, Submits
  <2>2. i <= received(r, q) /\ i \in Nat
    <3> HIDE DEF mine
    <3>1. count(mine, FALSE, p) <= count(mine, FALSE, pos(r, q))
      <4>1. p \in Nat /\ pos(r, q) \in Nat /\ p <= pos(r, q)
        BY <1>2, <1>4, <1>5
      <4> QED BY ONLY <4>1, CountMonotone
    <3>2. count(mine, FALSE, p) \in Nat
      BY <1>5, CountStep
    <3> QED BY <2>1, <3>1, <3>2
  <2>3. i <= Len(h)
    <3>1. CASE i = 0
      <4>1. Len(h) \in Nat
        BY HistoriesCount DEF sent
      <4> HIDE DEF i, h
      <4> QED BY <3>1, <4>1
    <3>2. CASE i # 0
      <4>1. i \in 1 .. received(r, q)
        <5> HIDE DEF i
        <5> QED BY <2>2, <3>2, HistoriesCount
      <4> HIDE DEF i, h
      <4>2. i <= sent(q, r)
        BY <4>1 DEF TakenOf
      <4> QED BY <4>2 DEF sent, h
    <3> QED BY <3>1, <3>2
  <2>4. isTake(mine, p, i)
    BY <1>6 DEF isTake
  <2> HIDE DEF mine, its, i, h
  <2> QED BY <1>1, <1>2, <1>5, <2>1, <2>2, <2>3, <2>4, MeantMatch
<1>8. meets(its, p) = meets(mine, p)
  <2>1. \A j \in 1 .. p : isMeeting(its, j) <=> isMeeting(mine, j)
    <3> SUFFICES ASSUME NEW j \in 1 .. p PROVE isMeeting(its, j) <=> isMeeting(mine, j)
      OBVIOUS
    <3>1. j \in 1 .. Len(mine)
      BY <1>1, <1>5
    <3>2. mine[j].of = its[j].of /\ j \in DOMAIN mine /\ j \in DOMAIN its
      BY <1>1, <3>1
    <3> HIDE DEF mine, its
    <3> QED BY <3>2 DEF isMeeting
  <2> HIDE DEF mine, its
  <2>2. \A j \in 1 .. p : numbered(its)[j].post = numbered(mine)[j].post
    BY <2>1, <1>5 DEF numbered
  <2>3. {j \in 1 .. p : numbered(its)[j].post = 1} = {j \in 1 .. p : numbered(mine)[j].post = 1}
    BY <2>2
  <2> QED BY <2>3 DEF meets, count
<1>9. meets(its, p) <= met_so_far(q, r)
  BY <1>2, <1>5, <1>7, MeetsMonotone DEF met_so_far
<1> QED BY <1>4, <1>8, <1>9 DEF w

\* A host that is b + 1 barriers on has four parts of each behind it, and one
\* that has a part of the next behind it has begun it.
Passed(r) == barriers(prog, r, IF todo[r] = <<>> THEN begun[r] ELSE begun[r] - 1)
Entered(r) == barriers(prog, r, begun[r])
\* How many barriers a host has passed and entered, by the parts of them it has
\* exchanged.
LEMMA PassedEntered ==
  ASSUME NEW r \in Ranks, NEW q \in Ranks, q # r, r = 0 \/ q = 0, Shape, TodoOf(r)
  PROVE  /\ Passed(r) \in Nat /\ Entered(r) \in Nat /\ met_so_far(r, q) \in Nat
         /\ 4 * Passed(r) <= met_so_far(r, q)
         /\ met_so_far(r, q) <= 4 * Entered(r)
<1> DEFINE M == met_so_far(r, q)
           B == barriers(prog, r, begun[r] - 1)
           x == progress(r, q, call(r), done(r))
<1>1. /\ begun[r] \in Nat
      /\ begun[r] = 0 => M = 0 /\ todo[r] = <<>>
      /\ begun[r] # 0 =>
           /\ begun[r] - 1 \in Nat
           /\ call(r).op = "barrier" => M = 4 * B + x /\ x \in 0 .. 4 /\ (todo[r] = <<>> => x = 4)
           /\ call(r).op # "barrier" => M = 4 * B
  BY PosMeets
<1> HIDE DEF M, x
<1>2. CASE begun[r] = 0
  <2>1. barriers(prog, r, 0) = 0
    BY BarriersStep
  <2> QED BY <1>1, <1>2, <2>1 DEF Passed, Entered, M
<1>3. CASE begun[r] # 0
  <2>1. begun[r] - 1 \in Nat /\ (begun[r] - 1) + 1 = begun[r]
    BY <1>1, <1>3
  <2>2. /\ B \in Nat
        /\ barriers(prog, r, (begun[r] - 1) + 1) = B + (IF prog[r][(begun[r] - 1) + 1].op = "barrier" THEN 1 ELSE 0)
    BY <2>1, BarriersStep
  <2>3. Entered(r) = B + (IF call(r).op = "barrier" THEN 1 ELSE 0)
    <3> HIDE DEF B
    <3> QED BY <2>1, <2>2 DEF Entered, call
  <2>4. Passed(r) = IF todo[r] = <<>> THEN Entered(r) ELSE B
    BY DEF Passed, Entered
  <2> HIDE DEF B
  <2>5. CASE call(r).op = "barrier"
    BY <1>1, <1>3, <2>2, <2>3, <2>4, <2>5 DEF M
  <2>6. CASE call(r).op # "barrier"
    BY <1>1, <1>3, <2>2, <2>3, <2>4, <2>6 DEF M
  <2> QED BY <2>5, <2>6
<1> QED BY <1>2, <1>3

\* Rank 0 answers a host only when it has heard of all of them.
LEMMA HeardOfAll ==
  ASSUME NEW r \in Ranks \ {0}, NEW q \in Ranks \ {0}, Shape, TodoOf(0), NEW b \in Nat,
         4 * b + 3 <= met_so_far(0, r)
  PROVE  4 * b + 2 <= met_so_far(0, q)
<1> DEFINE M(u) == met_so_far(0, u)
           B == barriers(prog, 0, begun[0] - 1)
           x(u) == progress(0, u, call(0), done(0))
           z == 0
<1>0. 0 \in Ranks /\ r # 0 /\ q # 0
  BY RdmaAssumption DEF Ranks
<1>1. \A u \in Ranks \ {0} :
        /\ begun[0] = 0 => M(u) = 0
        /\ begun[0] # 0 =>
             /\ begun[0] - 1 \in Nat /\ done(0) \in 0 .. stepCount(0, call(0))
             /\ call(0).op = "barrier" => M(u) = 4 * B + x(u) /\ x(u) \in 0 .. 4
             /\ call(0).op # "barrier" => M(u) = 4 * B
  BY <1>0, PosMeets
<1>2. begun[0] # 0
  <2>1. M(r) # 0
    OBVIOUS
  <2> QED BY <1>1, <2>1
<1>3. B \in Nat
  BY <1>1, <1>2, BarriersStep
<1>4. CASE call(0).op # "barrier"
  <2>1. M(q) = M(r)
    BY <1>1, <1>2, <1>4
  <2> HIDE DEF M, B
  <2>2. M(r) = 4 * B /\ 4 * b + 3 <= M(r)
    BY <1>1, <1>2, <1>4 DEF M
  <2>3. 4 * b + 2 <= M(q)
    BY <1>3, <2>1, <2>2
  <2> QED BY <2>3 DEF M
<1>5. CASE call(0).op = "barrier"
  <2>1. M(q) = 4 * B + x(q) /\ x(q) \in 0 .. 4 /\ M(r) = 4 * B + x(r) /\ x(r) \in 0 .. 4
    BY <1>1, <1>2, <1>5
  <2>2. 4 * b + 3 <= M(r)
    OBVIOUS
  <2>3. x(r) >= 3 => x(q) >= 2
    <3> DEFINE m == done(0)
               y(u) == place(0, u)
    <3>1. \A u \in Ranks \ {0} : y(u) \in 0 .. others - 1 /\ others \in Nat
      BY <1>0, PeersFacts
    <3>2. ASSUME NEW u, u # 0
          PROVE  x(u) = IF m < 2 * y(u) + 1 THEN 0
                 ELSE IF m < 2 * y(u) + 2 THEN 1
                 ELSE IF m < 2 * others + 2 * y(u) + 1 THEN 2
                 ELSE IF m < 2 * others + 2 * y(u) + 2 THEN 3 ELSE 4
      <4> DEFINE c == call(0)
      <4>1. c.op = "barrier"
        BY <1>5
      <4> HIDE DEF c
      <4>2. progress(0, u, c, m) = IF m < 2 * y(u) + 1 THEN 0
                 ELSE IF m < 2 * y(u) + 2 THEN 1
                 ELSE IF m < 2 * others + 2 * y(u) + 1 THEN 2
                 ELSE IF m < 2 * others + 2 * y(u) + 2 THEN 3 ELSE 4
        BY <3>2, <4>1 DEF progress
      <4> QED BY <4>2 DEF c
    <3>3. m \in Nat
      <4>1. isCall(0, call(0))
        <5>1. begun[0] \in 1 .. Len(prog[0])
          <6>1. begun[0] \in 0 .. Len(prog[0])
            BY DEF TodoOf
          <6> QED BY <1>2, <6>1
        <5> QED BY <1>0, <5>1, CallsFacts DEF Shape, call
      <4>2. stepCount(0, call(0)) \in Nat
        BY <1>0, <4>1, StepCountNat
      <4> QED BY <1>1, <1>2, <4>2
    <3> DEFINE xr == x(r)
               xq == x(q)
               yr == y(r)
               yq == y(q)
    <3>4. yr \in 0 .. others - 1 /\ yq \in 0 .. others - 1 /\ others \in Nat
      BY <3>1
    <3>5. /\ xr = IF m < 2 * yr + 1 THEN 0 ELSE IF m < 2 * yr + 2 THEN 1
                  ELSE IF m < 2 * others + 2 * yr + 1 THEN 2 ELSE IF m < 2 * others + 2 * yr + 2 THEN 3 ELSE 4
          /\ xq = IF m < 2 * yq + 1 THEN 0 ELSE IF m < 2 * yq + 2 THEN 1
                  ELSE IF m < 2 * others + 2 * yq + 1 THEN 2 ELSE IF m < 2 * others + 2 * yq + 2 THEN 3 ELSE 4
      BY <1>0, <3>2
    <3> HIDE DEF xr, xq, yr, yq, m
    <3>6. xr >= 3 => xq >= 2
      BY ONLY <3>3, <3>4, <3>5
    <3> QED BY <3>6 DEF xr, xq
  <2> DEFINE xr == x(r)
             xq == x(q)
             Mr == M(r)
             Mq == M(q)
  <2>4. /\ Mq = 4 * B + xq /\ xq \in 0 .. 4 /\ Mr = 4 * B + xr /\ xr \in 0 .. 4
        /\ 4 * b + 3 <= Mr /\ (xr >= 3 => xq >= 2) /\ B \in Nat /\ b \in Nat
    BY <1>3, <2>1, <2>2, <2>3
  <2> HIDE DEF xr, xq, Mr, Mq, B
  <2>5. 4 * b + 2 <= Mq
    BY ONLY <2>4
  <2> QED BY <2>5 DEF Mq
<1> QED BY <1>4, <1>5

\* With any number of hosts whose calls match, none leaves its n-th air_barrier
\* before all have entered theirs.
THEOREM RdmaBarrier == Spec => []Barrier
<1>1. RInv => Barrier
  <2> SUFFICES ASSUME RInv, Regular, NEW r \in Ranks, NEW q \in Ranks
               PROVE  Passed(r) <= Entered(q)
    BY DEF Barrier, Barriers, barriers, Passed, Entered
  <2>0. /\ Shape
        /\ \A u \in Ranks : TodoOf(u)
        /\ \A u, v \in Ranks : u # v => HistoryOf(u, v) /\ TakenOf(u, v)
    BY DEF RInv, Base, TodoInv, HistoryInv, TakenInv
  <2>1. 0 \in Ranks
    BY RdmaAssumption DEF Ranks
  <2>2. \A u, v \in Ranks : u # v /\ (u = 0 \/ v = 0) =>
          /\ Passed(u) \in Nat /\ Entered(u) \in Nat /\ met_so_far(u, v) \in Nat
          /\ 4 * Passed(u) <= met_so_far(u, v)
          /\ met_so_far(u, v) <= 4 * Entered(u)
    BY <2>0, PassedEntered
  <2>3. CASE r = q
    <3>1. begun[r] \in Nat /\ (todo[r] # <<>> => begun[r] - 1 \in Nat)
      <4>1. Len(prog[r]) \in Nat
        BY <2>0, CallsFacts DEF Shape
      <4> QED BY <2>0, <4>1 DEF TodoOf
    <3>2. /\ barriers(prog, r, begun[r]) \in Nat
          /\ \A m \in Nat : m <= begun[r] => barriers(prog, r, m) <= barriers(prog, r, begun[r])
      BY <3>1, BarriersStep
    <3>3. CASE todo[r] = <<>>
      BY <2>3, <3>2, <3>3 DEF Passed, Entered
    <3>4. CASE todo[r] # <<>>
      <4>1. begun[r] - 1 \in Nat /\ begun[r] - 1 <= begun[r]
        BY <3>1, <3>4
      <4>2. barriers(prog, r, begun[r] - 1) <= barriers(prog, r, begun[r])
        BY <3>2, <4>1
      <4> QED BY <2>3, <3>4, <4>2 DEF Passed, Entered
    <3> QED BY <3>3, <3>4
  <2>4. CASE r # q
    <3>0. Passed(r) \in Nat /\ Entered(q) \in Nat
      <4>1. \E u \in Ranks : u # r /\ (r = 0 \/ u = 0)
        BY <2>1, <2>4
      <4>2. \E u \in Ranks : u # q /\ (q = 0 \/ u = 0)
        BY <2>1, <2>4
      <4> QED BY <2>2, <4>1, <4>2
    <3> SUFFICES ASSUME Passed(r) # 0 PROVE Passed(r) <= Entered(q)
      BY <3>0
    <3> DEFINE b == Passed(r) - 1
    <3>1. b \in Nat /\ 4 * Passed(r) = 4 * b + 4
      BY <3>0
    <3>2. submits(0, 1) = FALSE /\ \A u : u # 0 => submits(u, 3) = FALSE
      BY DEF submits
    <3>3. ASSUME NEW u \in Ranks \ {0}, 4 * b + 1 <= met_so_far(0, u)
          PROVE  Passed(r) <= Entered(u)
      <4> HIDE DEF b
      <4>1. 4 * b + 1 <= met_so_far(u, 0)
        <5>1. 0 # u /\ (0 = 0 \/ u = 0) /\ 1 \in 1 .. 4
          OBVIOUS
        <5> DEFINE z == 0
                   k == 1
        <5>2. z \in Ranks /\ u \in Ranks /\ u # z /\ (z = 0 \/ u = 0) /\ k \in 1 .. 4 /\ submits(z, k) = FALSE
              /\ 4 * b + k <= met_so_far(z, u)
          BY <2>1, <3>2, <3>3, <5>1
        <5>3. Shape /\ TodoOf(z) /\ TodoOf(u) /\ HistoryOf(z, u) /\ HistoryOf(u, z) /\ TakenOf(z, u)
          BY <2>0, <5>2
        <5> HIDE DEF z, k
        <5>4. 4 * b + k <= met_so_far(u, z)
          BY <3>1, <5>2, <5>3, Answered
        <5> QED BY <5>4 DEF z, k
      <4>2. met_so_far(u, 0) <= 4 * Entered(u) /\ Entered(u) \in Nat /\ met_so_far(u, 0) \in Nat
        BY <2>1, <2>2, <3>3
      <4>3. b + 1 <= Entered(u)
        <5> DEFINE M == met_so_far(u, 0)
                   F == Entered(u)
        <5>1. b \in Nat /\ F \in Nat /\ M \in Nat /\ 4 * b + 1 <= M /\ M <= 4 * F
          BY <3>1, <4>1, <4>2
        <5> HIDE DEF M, F
        <5>2. b + 1 <= F
          BY ONLY <5>1
        <5> QED BY <5>2 DEF F
      <4>4. Passed(r) = b + 1
        BY <3>0 DEF b
      <4> QED BY <4>3, <4>4
    <3>4. CASE r = 0
      <4>1. q # 0
        BY <2>4, <3>4
      <4>2. 4 * Passed(0) <= met_so_far(0, q) /\ met_so_far(0, q) \in Nat
        BY <2>1, <2>2, <4>1
      <4>3. 4 * b + 1 <= met_so_far(0, q)
        <5> HIDE DEF b
        <5> QED BY <3>1, <3>4, <4>2
      <4> QED BY <3>3, <4>1, <4>3
    <3>5. CASE r # 0
      <4>1. 4 * b + 3 <= met_so_far(0, r)
        <5> DEFINE z == 0
                   k == 3
        <5>1. 4 * b + k <= met_so_far(r, z)
          <6>1. 4 * Passed(r) <= met_so_far(r, 0) /\ met_so_far(r, 0) \in Nat
            BY <2>1, <2>2, <3>5
          <6> HIDE DEF b
          <6> QED BY <3>1, <6>1
        <5>2. z \in Ranks /\ z # r /\ (r = 0 \/ z = 0) /\ k \in 1 .. 4 /\ submits(r, k) = FALSE
          BY <2>1, <3>2, <3>5
        <5>3. Shape /\ TodoOf(z) /\ TodoOf(r) /\ HistoryOf(z, r) /\ HistoryOf(r, z) /\ TakenOf(r, z)
          BY <2>0, <5>2
        <5> HIDE DEF z, k, b
        <5>4. 4 * b + k <= met_so_far(z, r)
          BY <3>1, <5>1, <5>2, <5>3, Answered
        <5> QED BY <5>4 DEF z, k
      <4>2. CASE q # 0
        <5> HIDE DEF b
        <5>1. 4 * b + 2 <= met_so_far(0, q)
          BY <2>0, <2>1, <3>1, <3>5, <4>1, <4>2, HeardOfAll
        <5>2. met_so_far(0, q) \in Nat
          BY <2>1, <2>2, <4>2
        <5>3. 4 * b + 1 <= met_so_far(0, q)
          BY <3>1, <5>1, <5>2
        <5> QED BY <3>3, <4>2, <5>3 DEF b
      <4>3. CASE q = 0
        <5>1. met_so_far(0, r) <= 4 * Entered(0) /\ Entered(0) \in Nat /\ met_so_far(0, r) \in Nat
          BY <2>1, <2>2, <3>5
        <5> DEFINE M == met_so_far(0, r)
                   F == Entered(0)
        <5>2. b \in Nat /\ F \in Nat /\ M \in Nat /\ 4 * b + 3 <= M /\ M <= 4 * F
          BY <3>1, <4>1, <5>1
        <5>3. Passed(r) = b + 1
          BY <3>0 DEF b
        <5> HIDE DEF M, F, b
        <5>4. b + 1 <= F
          BY ONLY <5>2
        <5> QED BY <4>3, <5>3, <5>4 DEF F
      <4> QED BY <4>2, <4>3
    <3> QED BY <3>4, <3>5
  <2> QED BY <2>3, <2>4
<1> QED BY <1>1, RdmaInductive, PTL

-----------------------------------------------------------------------------
(* What the hosts know of one another's tensors.                           *)

own(q, t) == t \in DOMAIN table[q] /\ table[q][t].qp = q
\* What q says of its tensor t.
address(q, t) == <<"vaddr", q, t, table[q][t].pa>>
\* Tensor t of q lies behind tensor x in the memory, or is x.
behind(q, t, x) == t = x \/ table[q][t].pa + table[q][t].size <= table[q][x].pa
isAdvert(s) == s.do \in {"register", "advertise", "poll"}
isSubmit(s) == s.do \in {"advertise", "poll"}
\* The i-th message of q to r is an address, and of which tensor.
isAddress(q, r, i) == posted[<<q, r>>][i][1] = "vaddr"
tensorOf(q, r, i) == posted[<<q, r>>][i][2][3]

\* Every tensor is the one of an allocation, below the next to be allocated; the
\* one that a call will allocate is not there.
MadeOf(r) ==
  /\ \A t \in DOMAIN table[r] :
       /\ table[r][t].size \in Nat /\ table[r][t].pa + table[r][t].size <= dev_mem_ptr[r]
       /\ \E i \in 1 .. begun[r] :
            prog[r][i].op = "alloc" /\ prog[r][i].t = t /\ table[r][t].size = prog[r][i].size
  /\ \A k \in 1 .. Len(todo[r]) : todo[r][k].do = "malloc" => todo[r][k].name \notin DOMAIN table[r]
\* The tensor that is being registered is the last of its host.
FreshOf(r) ==
  todo[r] # <<>> /\ isAdvert(Head(todo[r])) =>
    own(r, call(r).t) /\ \A u \in DOMAIN table[r] : behind(r, u, call(r).t)
\* An address that was submitted is that of the tensor the call is about.
SealedOf(q, r) ==
  \A i \in 1 .. sent(q, r) : isAddress(q, r, i) =>
    /\ own(q, tensorOf(q, r, i)) /\ posted[<<q, r>>][i][2] = address(q, tensorOf(q, r, i))
    /\ \E j \in DOMAIN Script(prog, r, q) : /\ isTake(Script(prog, r, q), j, i)
                                              /\ Script(prog, r, q)[j].of[2] = tensorOf(q, r, i)
\* r holds the address of q's tensor t.
Known(r, q, t, v) ==
  /\ own(q, t) /\ v = address(q, t)
  /\ \E i \in 1 .. sent(q, r) : isAddress(q, r, i) /\ posted[<<q, r>>][i][2] = v
GotOf(r, q) ==
  todo[r] # <<>> /\ Head(todo[r]).do = "malloc" /\ Head(todo[r]).q = q =>
    Known(r, q, Head(todo[r]).name, got[r].vaddr)
RemoteOf(r, q) ==
  \A t \in DOMAIN table[r] : table[r][t].qp = q => Known(r, q, t, table[r][t].vaddr)
\* The window that q opens to r has the tensor q registered last for it.
covers(w, a, size) == w.base <= a /\ a + size <= w.base + w.length
submitting(q, r) == todo[q] # <<>> /\ isSubmit(Head(todo[q])) /\ Head(todo[q]).q = r
LastIs(q, r, x) ==
  /\ own(q, x) /\ covers(window[<<q, r>>], table[q][x].pa, table[q][x].size)
  /\ \A i \in 1 .. sent(q, r) : isAddress(q, r, i) => behind(q, tensorOf(q, r, i), x)
  /\ submitting(q, r) => x = call(q).t
WindowOf(q, r) ==
  \/ ~ submitting(q, r) /\ \A i \in 1 .. sent(q, r) : ~ isAddress(q, r, i)
  \/ \E x \in DOMAIN table[q] : LastIs(q, r, x)

windows == [base : Nat, size : Nat, length : Nat]
Holds ==
  /\ window \in [QPs -> windows]
  /\ DOMAIN got = Ranks /\ \A r \in Ranks : "vaddr" \in DOMAIN got[r]
TensorInv ==
  /\ Holds
  /\ \A r \in Ranks : MadeOf(r) /\ FreshOf(r)
  /\ \A r, q \in Ranks : r # q => SealedOf(r, q)
AddressInv == \A r, q \in Ranks : r # q => GotOf(r, q) /\ RemoteOf(r, q) /\ WindowOf(r, q)
ReachInv == TensorInv /\ (Regular => AddressInv)

-----------------------------------------------------------------------------
(* The steps of an allocation.                                             *)

isAllocStep(r, c, k) ==
  LET s == stepAt(r, c, k)
      b == stepAt(r, c, k - 1)
  IN  /\ s.do = "malloc" => c.op = "alloc" /\ s.size = c.size /\ k = (IF c.at = r THEN 1 ELSE 5)
      /\ isAdvert(s) => c.op = "alloc" /\ c.at = r /\ k # 1 /\ (s.do # "poll" => s.name = c.t)
      /\ isSubmit(s) => k - 1 # 1 /\ isAdvert(b) /\ b.q = s.q
      /\ c.op = "alloc" /\ c.at = r => IF k = 1 THEN s.do = "malloc" ELSE isAdvert(s)
      /\ c.op = "alloc" /\ c.at # r /\ k = 4 => s = Copy(c.at, "vaddr")

\* An allocation of the host's own: the tensor, then its registration and
\* advertisement for one host after another.
LEMMA LocalAllocSteps ==
  ASSUME NEW r \in Ranks, NEW c, isCall(r, c), c.op = "alloc", c.at = r,
         NEW k \in 1 .. stepCount(r, c)
  PROVE  isAllocStep(r, c, k)
<1>0. others \in Nat
  BY PeersFacts
<1> DEFINE A(p, b) == advertising(p, c.t, b)
           s == stepAt(r, c, k)
<1>1. ASSUME NEW p
      PROVE  /\ A(p, 0).do = "register" /\ A(p, 0).q = p /\ A(p, 0).name = c.t
             /\ A(p, 1).do = "advertise" /\ A(p, 1).q = p /\ A(p, 1).name = c.t
             /\ A(p, 2).do = "poll" /\ A(p, 2).q = p
             /\ A(p, 3).do = "advertise" /\ A(p, 3).q = p /\ A(p, 3).name = c.t
             /\ A(p, 4).do = "poll" /\ A(p, 4).q = p
  <2>1. /\ A(p, 0) = Register(p, c.t) /\ A(p, 1) = Advertise(p, c.t, "rkey") /\ A(p, 2) = Poll(p)
        /\ A(p, 3) = Advertise(p, c.t, "vaddr") /\ A(p, 4) = Poll(p)
    BY DEF advertising
  <2> HIDE DEF A
  <2> QED BY <2>1 DEF Register, Advertise, Poll
<1>2. stepAt(r, c, 1) = Malloc(r, c.t, c.size)
  BY DEF stepAt
<1>3. \A j : j # 1 => stepAt(r, c, j) = A(Peers(r)[(j - 2) \div 5 + 1], (j - 2) % 5)
  BY DEF stepAt
<1>4. stepCount(r, c) = IF c.register_mem THEN 1 + 5 * others ELSE 1
  BY DEF stepCount
<1>5. stepCount(r, c) \in Nat /\ stepCount(r, c) <= 1 + 5 * others
  BY <1>0, <1>4, StepCountNat
<1> HIDE DEF A
<1>6. CASE k = 1
  <2>1. s.do = "malloc" /\ s.size = c.size
    BY <1>2, <1>6 DEF Malloc
  <2> HIDE DEF s
  <2>2. ~ isAdvert(s) /\ ~ isSubmit(s)
    BY <2>1 DEF isAdvert, isSubmit
  <2> QED BY <1>6, <2>1, <2>2 DEF isAllocStep, s
<1>7. CASE k # 1
  <2> DEFINE x == (k - 2) \div 5
             b == (k - 2) % 5
             p == Peers(r)[x + 1]
  <2>1. k - 2 \in 0 .. 5 * others - 1
    BY <1>0, <1>5, <1>7
  <2>2. x \in 0 .. others - 1 /\ b \in 0 .. 4 /\ 5 * x + b = k - 2
    BY <1>0, <2>1, FiveSplit
  <2>3. s = A(p, b)
    BY <1>3, <1>7
  <2>4. ASSUME b # 0
        PROVE  k - 1 # 1 /\ stepAt(r, c, k - 1) = A(p, b - 1)
    <3> HIDE DEF x, b, p
    <3>1. (k - 1) - 2 = 5 * x + (b - 1) /\ b - 1 \in 0 .. 4 /\ x \in Nat /\ k - 1 # 1
      BY <1>0, <2>1, <2>2, <2>4
    <3>2. ((k - 1) - 2) \div 5 = x /\ ((k - 1) - 2) % 5 = b - 1
      BY <3>1, FiveAt
    <3> QED BY <1>3, <3>1, <3>2 DEF p
  <2> HIDE DEF x, b, p
  <2>5. b = 0 \/ (b # 0 /\ b = 1 /\ b - 1 = 0) \/ (b # 0 /\ b = 2 /\ b - 1 = 1)
        \/ (b # 0 /\ b = 3 /\ b - 1 = 2) \/ (b # 0 /\ b = 4 /\ b - 1 = 3)
    BY <2>2
  <2> DEFINE u == stepAt(r, c, k - 1)
  <2>6. /\ isAdvert(s) /\ s.q = p /\ (s.do # "poll" => s.name = c.t)
        /\ isSubmit(s) => k - 1 # 1 /\ isAdvert(u) /\ u.q = p
    BY <1>1, <2>3, <2>4, <2>5 DEF isAdvert, isSubmit
  <2> HIDE DEF u, s
  <2>7. s.do # "malloc"
    BY <2>6 DEF isAdvert
  <2> QED BY <1>7, <2>6, <2>7 DEF isAllocStep, s, u
<1> QED BY <1>6, <1>7

\* An allocation at another host: its key, its address, the place-holder; and the
\* other calls.
LEMMA AllocSteps ==
  ASSUME NEW r \in Ranks, NEW c, isCall(r, c), NEW k \in 1 .. stepCount(r, c)
  PROVE  isAllocStep(r, c, k) /\ StepFits(r, c, stepAt(r, c, k))
<1> DEFINE s == stepAt(r, c, k)
<1>1. StepFits(r, c, s)
  BY SoundCall DEF Sound
<1>2. CASE c.op = "alloc" /\ c.at = r
  BY <1>1, <1>2, LocalAllocSteps
<1>3. CASE c.op = "alloc" /\ c.at # r
  <2>1. k \in 1 .. 5
    BY <1>3 DEF stepCount
  <2>2. k = 1 \/ k = 2 \/ k = 3 \/ k = 4 \/ k = 5
    BY <2>1
  <2>3. s = remote(c.at, c.t, c.size, k)
    BY <1>3 DEF stepAt
  <2>4. /\ k \in {1, 3} => s.do = "post_recv"
        /\ k \in {2, 4} => s.do = "copy"
        /\ k = 4 => s = Copy(c.at, "vaddr")
        /\ k = 5 => s.do = "malloc" /\ s.size = c.size
    <3> HIDE DEF s
    <3> QED BY <2>3, <2>2 DEF remote, PostRecv, Copy, Malloc
  <2> HIDE DEF s
  <2>5. ~ isAdvert(s) /\ ~ isSubmit(s) /\ (s.do = "malloc" => k = 5 /\ s.size = c.size)
    BY <2>2, <2>4 DEF isAdvert, isSubmit
  <2> QED BY <1>1, <1>3, <2>4, <2>5 DEF isAllocStep, s
<1>4. CASE c.op # "alloc"
  <2> HIDE DEF s
  <2>1. s.do \notin driverSteps
    BY <1>1, <1>4 DEF StepFits
  <2>2. s.do # "malloc" /\ ~ isAdvert(s) /\ ~ isSubmit(s)
    BY <2>1 DEF driverSteps, isAdvert, isSubmit
  <2> QED BY <1>1, <1>4, <2>2 DEF isAllocStep, s
<1> QED BY <1>2, <1>3, <1>4

\* What an allocation exchanges is about its tensor.
LEMMA AllocParts ==
  ASSUME NEW r \in Ranks, NEW q \in Ranks, q # r, Shape, TodoOf(r), NEW k, AtCall(r, k),
         call(r).op = "alloc", isEvent(Head(todo[r])), Head(todo[r]).q = q
  PROVE  Script(prog, r, q)[pos(r, q) + 1].of[2] = call(r).t
<1> DEFINE c == call(r)
           s == Head(todo[r])
           b == begun[r]
           ex == Exchange(r, q, c)
           at == starts(exchanges(prog, r, q))
           p == progress(r, q, c, k)
           w == progress(r, q, c, k - 1)
<1>1. /\ b \in 1 .. Len(prog[r]) /\ isCall(r, c) /\ k \in 1 .. stepCount(r, c) /\ stepCount(r, c) \in Nat
      /\ s = stepAt(r, c, k) /\ done(r) = k - 1
  BY DEF AtCall
<1>2. p = w + 1 /\ p \in 1 .. Len(ex) /\ w \in Nat
  <2>1. Tracks(r, q, c)
    BY <1>1, TrackCall
  <2>2. Advances(r, q, c, k) /\ k - 1 \in 0 .. stepCount(r, c)
    BY <1>1, <2>1 DEF Tracks
  <2>3. w \in Nat
    BY <2>1, <2>2 DEF Tracks
  <2> QED BY <1>1, <2>2, <2>3 DEF Advances
<1>3. /\ at \in [1 .. Len(prog[r]) + 1 -> Nat]
      /\ \A i \in 1 .. Len(prog[r]) : \A j \in 1 .. Len(Exchange(r, q, prog[r][i])) :
           Script(prog, r, q)[at[i] + j] = Exchange(r, q, prog[r][i])[j]
  BY ScriptFacts DEF Shape
<1>4. Script(prog, r, q)[at[b] + p] = ex[p]
  BY <1>1, <1>2, <1>3 DEF call
<1>5. pos(r, q) = at[b] + w
  <2>1. b # 0
    BY <1>1
  <2> QED BY <1>1, <2>1 DEF pos, posAt, call
<1>6. at[b] \in Nat
  <2>1. b \in 1 .. Len(prog[r]) + 1
    <3>1. Len(prog[r]) \in Nat
      BY CallsFacts DEF Shape
    <3> QED BY <1>1, <3>1
  <2> HIDE DEF at, b
  <2> QED BY <1>3, <2>1
<1>7. ex[p].of[2] = c.t
  <2> DEFINE of == <<c.op, c.t>>
  <2>0. of[2] = c.t
    OBVIOUS
  <2> HIDE DEF of
  <2>1. \/ ex = <<part(TRUE, "rkey", of), part(TRUE, "vaddr", of)>>
        \/ ex = <<part(FALSE, "rkey", of), part(FALSE, "vaddr", of)>>
        \/ ex = <<>>
    BY DEF Exchange, part, of
  <2> HIDE DEF ex, p, c
  <2>2. \A j \in 1 .. Len(ex) : ex[j].of = of
    BY <2>1 DEF part
  <2> QED BY <1>2, <2>0, <2>2
<1> HIDE DEF p, w, at, ex, b
<1>8. pos(r, q) + 1 = at[b] + p
  BY <1>2, <1>5, <1>6
<1> QED BY <1>4, <1>7, <1>8

-----------------------------------------------------------------------------
(* What a step does to the tables and windows.                             *)

\* The entry that air_ernic_mem_alloc makes.
entry(r, s) ==
  [qp |-> s.q, pa |-> dev_mem_ptr[r], size |-> s.size, rkey |-> got[r].rkey, vaddr |-> got[r].vaddr]

\* What a step of r changes of it.
Changes(r) ==
  LET s == Head(todo[r]) IN
  /\ IF s.do = "malloc"
       THEN /\ table'[r] = Put(table[r], s.name, entry(r, s))
            /\ dev_mem_ptr'[r] = dev_mem_ptr[r] + s.size
       ELSE /\ table'[r] = table[r]
            /\ dev_mem_ptr'[r] = dev_mem_ptr[r] + (IF s.do = "advertise" THEN PageUnits ELSE 0)
  /\ IF s.do = "register"
       THEN /\ window'[<<r, s.q>>] =
                 registered(window[<<r, s.q>>], table[r][s.name].pa, table[r][s.name].size)
            /\ \A q \in Ranks : q # r /\ q # s.q => window'[<<r, q>>] = window[<<r, q>>]
       ELSE \A q \in Ranks : q # r => window'[<<r, q>>] = window[<<r, q>>]
  /\ s.do \notin {"malloc", "copy"} => got'[r] = got[r]

\* A host that does nothing.
Still(p) ==
  /\ prog' = prog /\ todo'[p] = todo[p] /\ begun'[p] = begun[p]
  /\ table'[p] = table[p] /\ dev_mem_ptr'[p] = dev_mem_ptr[p] /\ got'[p] = got[p]
  /\ \A q \in Ranks : q # p =>
       window'[<<p, q>>] = window[<<p, q>>] /\ posted'[<<p, q>>] = posted[<<p, q>>]

\* A step of a call changes the host's own table, window and memory.
LEMMA WorksMade ==
  ASSUME NEW r \in Ranks, Shape, Holds, TodoOf(r), TableOf(r), Works(r)
  PROVE  Changes(r)
<1> DEFINE s == Head(todo[r])
<1>0. /\ r \in DOMAIN table /\ r \in DOMAIN dev_mem_ptr /\ r \in DOMAIN got
      /\ DOMAIN window = QPs /\ \A q \in Ranks : q # r => <<r, q>> \in QPs
      /\ dev_mem_ptr[r] \in Nat /\ dev_mem_ptr[r] + 0 = dev_mem_ptr[r]
  BY DEF Shape, Holds, QPs, TableOf
<1>1. s.q \in Ranks /\ (s.do # "malloc" => s.q # r)
  <2>1. todo[r] # <<>>
    BY WorksFacts
  <2>2. PICK k : AtCall(r, k)
    BY <2>1, AtHead
  <2> QED BY <2>2 DEF AtCall, StepFits
<1> HIDE DEF s
<1>2. CASE DevMemAlloc(r)
  <2>1. s.do = "malloc"
    BY <1>2 DEF DevMemAlloc, AtStep, s
  <2>2. window' = window
    BY <1>2 DEF DevMemAlloc
  <2>3. table'[r] = Put(table[r], s.name, entry(r, s)) /\ dev_mem_ptr'[r] = dev_mem_ptr[r] + s.size
    BY <1>0, <1>2 DEF DevMemAlloc, entry, s
  <2> QED BY <2>1, <2>2, <2>3 DEF Changes, s
<1>3. CASE RegMr(r)
  <2>1. s.do = "register" /\ table' = table /\ dev_mem_ptr' = dev_mem_ptr /\ got' = got
    BY <1>3 DEF RegMr, AtStep, s
  <2>2. window' = [window EXCEPT ![<<r, s.q>>] =
                     registered(window[<<r, s.q>>], table[r][s.name].pa, table[r][s.name].size)]
    BY <1>3 DEF RegMr, s
  <2>3. <<r, s.q>> \in DOMAIN window
    BY <1>0, <1>1, <2>1
  <2>4. window'[<<r, s.q>>] = registered(window[<<r, s.q>>], table[r][s.name].pa, table[r][s.name].size)
    BY <2>2, <2>3
  <2>5. \A q \in Ranks : q # r /\ q # s.q => window'[<<r, q>>] = window[<<r, q>>]
    BY <1>0, <2>2
  <2> QED BY <1>0, <2>1, <2>4, <2>5 DEF Changes, s
<1>4. CASE PostWqe(r)
  <2>1. s.do = "advertise" /\ table' = table /\ window' = window /\ got' = got
        /\ dev_mem_ptr'[r] = dev_mem_ptr[r] + PageUnits
    BY <1>0, <1>4 DEF PostWqe, AtStep, s
  <2> QED BY <2>1 DEF Changes, s
<1>5. CASE CopyRqe(r)
  <2>1. s.do = "copy" /\ table' = table /\ window' = window /\ dev_mem_ptr' = dev_mem_ptr
    BY <1>5 DEF CopyRqe, AtStep, s
  <2> QED BY <1>0, <2>1 DEF Changes, s
<1>6. CASE PostRdmaRecv(r)
  <2>1. s.do = "recv" /\ table' = table /\ window' = window /\ dev_mem_ptr' = dev_mem_ptr /\ got' = got
    BY <1>6 DEF PostRdmaRecv, AtStep, s
  <2> QED BY <1>0, <2>1 DEF Changes, s
<1>7. CASE PollCompletion(r) \/ Free(r) \/ TakeRqe(r) \/ PostRdmaWqe(r)
  <2>1. s.do \in {"poll", "free", "post_recv", "wqe"} /\ mem' = mem
    BY <1>7 DEF PollCompletion, Free, TakeRqe, PostRdmaWqe, AtStep, s
  <2>2. table' = table /\ window' = window /\ dev_mem_ptr' = dev_mem_ptr /\ got' = got
    BY <2>1 DEF mem
  <2> QED BY <1>0, <2>1, <2>2 DEF Changes, s
<1> QED BY <1>2, <1>3, <1>4, <1>5, <1>6, <1>7 DEF Works

\* The other hosts keep theirs.
LEMMA WorksStill ==
  ASSUME NEW r \in Ranks, Shape, Holds, TodoOf(r), Host(r), NEW p \in Ranks, p # r
  PROVE  Still(p)
<1>0. /\ p \in DOMAIN table /\ p \in DOMAIN dev_mem_ptr /\ p \in DOMAIN got
      /\ DOMAIN window = QPs /\ \A q \in Ranks : q # p => <<p, q>> \in QPs
  BY DEF Shape, Holds, QPs
<1>1. todo'[p] = todo[p] /\ begun'[p] = begun[p] /\ prog' = prog
  BY OtherHosts
<1>2. \A q \in Ranks : q # p => posted'[<<p, q>>] = posted[<<p, q>>]
  <2>1. CASE Works(r)
    BY <2>1, WorksFacts
  <2>2. CASE Begin(r)
    BY <2>2 DEF Begin
  <2> QED BY <2>1, <2>2 DEF Host, Works
<1>3. table'[p] = table[p] /\ dev_mem_ptr'[p] = dev_mem_ptr[p] /\ got'[p] = got[p]
      /\ \A q \in Ranks : q # p => window'[<<p, q>>] = window[<<p, q>>]
  <2>1. CASE DevMemAlloc(r)
    <3>1. window' = window
      BY <2>1 DEF DevMemAlloc
    <3> QED BY <1>0, <2>1, <3>1 DEF DevMemAlloc
  <2>2. CASE RegMr(r)
    <3>1. table' = table /\ dev_mem_ptr' = dev_mem_ptr /\ got' = got
      BY <2>2 DEF RegMr
    <3>2. \E v : window' = [window EXCEPT ![<<r, Head(todo[r]).q>>] = v]
      BY <2>2 DEF RegMr
    <3>3. \A q : <<p, q>> # <<r, Head(todo[r]).q>>
      OBVIOUS
    <3> QED BY <1>0, <3>1, <3>2, <3>3
  <2>3. CASE PostWqe(r)
    <3>1. table' = table /\ window' = window /\ got' = got
      BY <2>3 DEF PostWqe
    <3> QED BY <1>0, <2>3, <3>1 DEF PostWqe
  <2>4. CASE CopyRqe(r)
    <3>1. table' = table /\ window' = window /\ dev_mem_ptr' = dev_mem_ptr
      BY <2>4 DEF CopyRqe
    <3> QED BY <1>0, <2>4, <3>1 DEF CopyRqe
  <2>5. CASE PostRdmaRecv(r)
    BY <2>5 DEF PostRdmaRecv
  <2>6. CASE Begin(r) \/ PollCompletion(r) \/ Free(r) \/ TakeRqe(r) \/ PostRdmaWqe(r)
    <3>1. mem' = mem
      BY <2>6 DEF Begin, PollCompletion, Free, TakeRqe, PostRdmaWqe
    <3> QED BY <3>1 DEF mem
  <2> QED BY <2>1, <2>2, <2>3, <2>4, <2>5, <2>6 DEF Host
<1> QED BY <1>1, <1>2, <1>3 DEF Still

\* A step is one of a host, or leaves all of them as they are.
LEMMA WhoActs ==
  ASSUME Shape, Holds, TodoInv, [Next]_vars
  PROVE  \/ \A p \in Ranks : Still(p)
         \/ \E r \in Ranks : Host(r) /\ \A p \in Ranks : p # r => Still(p)
<1>1. CASE UNCHANGED vars
  <2>1. /\ prog' = prog /\ begun' = begun /\ todo' = todo /\ table' = table /\ dev_mem_ptr' = dev_mem_ptr
        /\ posted' = posted /\ got' = got /\ window' = window
    BY <1>1 DEF vars, host, mem
  <2> QED BY <2>1 DEF Still
<1>2. ASSUME NEW qp \in QPs, Deliver(qp[1], qp[2]) PROVE \A p \in Ranks : Still(p)
  <2>1. /\ prog' = prog /\ begun' = begun /\ todo' = todo /\ table' = table /\ dev_mem_ptr' = dev_mem_ptr
        /\ posted' = posted /\ got' = got /\ window' = window
    BY <1>2 DEF Deliver, host
  <2> QED BY <2>1 DEF Still
<1>3. ASSUME NEW r \in Ranks, Host(r) PROVE \A p \in Ranks : p # r => Still(p)
  BY <1>3, WorksStill DEF TodoInv
<1> QED BY <1>1, <1>2, <1>3 DEF Next

-----------------------------------------------------------------------------
(* What stays as it is.                                                    *)

\* The tensors of a host keep their entries.
Keeps(q) == \A t \in DOMAIN table[q] : t \in DOMAIN table'[q] /\ table'[q][t] = table[q][t]

\* A host that does nothing has the same tensors and windows, and what it said of
\* its tensors is as true as before.
LEMMA StillKept ==
  ASSUME NEW p, Still(p)
  PROVE  /\ MadeOf(p) => MadeOf(p)'
         /\ FreshOf(p) => FreshOf(p)'
         /\ \A q \in Ranks : q # p /\ SealedOf(p, q) => SealedOf(p, q)'
         /\ \A q \in Ranks : q # p /\ WindowOf(p, q) => WindowOf(p, q)'
<1>0. /\ prog' = prog /\ todo'[p] = todo[p] /\ begun'[p] = begun[p]
      /\ table'[p] = table[p] /\ dev_mem_ptr'[p] = dev_mem_ptr[p] /\ got'[p] = got[p]
      /\ \A q \in Ranks : q # p =>
           window'[<<p, q>>] = window[<<p, q>>] /\ posted'[<<p, q>>] = posted[<<p, q>>]
  BY DEF Still
<1>1. call(p)' = call(p)
  BY <1>0 DEF call
<1>2. \A t : (own(p, t)' <=> own(p, t)) /\ address(p, t)' = address(p, t)
  BY <1>0 DEF own, address
<1>3. \A t, x : behind(p, t, x)' <=> behind(p, t, x)
  BY <1>0 DEF behind
<1>4. MadeOf(p) => MadeOf(p)'
  BY <1>0 DEF MadeOf
<1>5. FreshOf(p) => FreshOf(p)'
  <2> SUFFICES ASSUME FreshOf(p), todo'[p] # <<>>, isAdvert(Head(todo'[p]))
               PROVE  /\ call(p)'.t \in DOMAIN table'[p] /\ table'[p][call(p)'.t].qp = p
                      /\ \A u \in DOMAIN table'[p] :
                           u = call(p)'.t \/ table'[p][u].pa + table'[p][u].size <= table'[p][call(p)'.t].pa
    BY DEF FreshOf, own, behind
  <2>1. own(p, call(p).t) /\ \A u \in DOMAIN table[p] : behind(p, u, call(p).t)
    BY <1>0 DEF FreshOf
  <2> QED BY <1>0, <1>1, <2>1 DEF own, behind
<1>6. ASSUME NEW q \in Ranks, q # p
      PROVE  /\ sent(p, q)' = sent(p, q) /\ posted'[<<p, q>>] = posted[<<p, q>>]
             /\ window'[<<p, q>>] = window[<<p, q>>]
             /\ \A i : (isAddress(p, q, i)' <=> isAddress(p, q, i)) /\ tensorOf(p, q, i)' = tensorOf(p, q, i)
  BY <1>0, <1>6 DEF sent, isAddress, tensorOf
<1>7. ASSUME NEW q \in Ranks, q # p, SealedOf(p, q)
      PROVE  SealedOf(p, q)'
  <2>1. posted'[<<p, q>>] = posted[<<p, q>>]
    BY <1>6, <1>7
  <2> QED BY <1>0, <1>7, <2>1 DEF SealedOf, isAddress, tensorOf, sent, own, address
<1>8. ASSUME NEW q \in Ranks, q # p, WindowOf(p, q)
      PROVE  WindowOf(p, q)'
  <2>1. posted'[<<p, q>>] = posted[<<p, q>>] /\ window'[<<p, q>>] = window[<<p, q>>]
    BY <1>6, <1>8
  <2> QED BY <1>0, <1>1, <1>8, <2>1
        DEF WindowOf, LastIs, submitting, isAddress, tensorOf, sent, own, behind, covers
<1> QED BY <1>4, <1>5, <1>7, <1>8

\* A function that is set where it was not defined.
LEMMA PutNew ==
  ASSUME NEW f, NEW i, NEW e, NEW g, g = Put(f, i, e)
  PROVE  /\ i \in DOMAIN g /\ g[i] = e
         /\ \A t \in DOMAIN g : t = i \/ t \in DOMAIN f
         /\ \A t \in DOMAIN f : t # i => t \in DOMAIN g /\ g[t] = f[t]
BY DEF Put

\* The name of an allocation is new.
LEMMA TableGrows ==
  ASSUME Shape, Holds, TodoInv, TableInv, [Next]_vars, NEW q \in Ranks, MadeOf(q)
  PROVE  Keeps(q)
<1>0. TodoOf(q) /\ TableOf(q)
  BY DEF TodoInv, TableInv
<1>1. CASE Still(q)
  BY <1>1 DEF Still, Keeps
<1>2. CASE Begin(q)
  <2>1. table' = table
    BY <1>2 DEF Begin, mem
  <2> QED BY <2>1 DEF Keeps
<1>3. CASE Works(q)
  <2>1. Changes(q)
    BY <1>0, <1>3, WorksMade
  <2> DEFINE s == Head(todo[q])
  <2>2. CASE s.do = "malloc"
    <3>1. table'[q] = Put(table[q], s.name, entry(q, s))
      BY <2>1, <2>2 DEF Changes
    <3>2. s.name \notin DOMAIN table[q]
      <4>1. todo[q] # <<>>
        BY <1>0, <1>3, WorksFacts
      <4>2. PICK k : AtCall(q, k)
        BY <1>0, <4>1, AtHead
      <4>3. isCall(q, call(q)) /\ k - 1 \in 0 .. stepCount(q, call(q)) /\ todo[q] = remaining(q, call(q), k - 1)
        BY <4>2 DEF AtCall
      <4>4. Len(todo[q]) = stepCount(q, call(q)) - (k - 1) /\ stepCount(q, call(q)) \in Nat
        BY <4>3, RemainingFacts
      <4>5. k \in 1 .. stepCount(q, call(q))
        BY <4>2 DEF AtCall
      <4>6. 1 \in 1 .. Len(todo[q])
        BY <4>4, <4>5
      <4>7. todo[q][1] = s
        OBVIOUS
      <4> QED BY <2>2, <4>6, <4>7 DEF MadeOf
    <3>3. \A t \in DOMAIN table[q] : t # s.name => t \in DOMAIN table'[q] /\ table'[q][t] = table[q][t]
      BY <3>1, PutNew
    <3> QED BY <3>2, <3>3 DEF Keeps
  <2>3. CASE s.do # "malloc"
    BY <2>1, <2>3 DEF Changes, Keeps
  <2> QED BY <2>2, <2>3
<1> QED BY <1>1, <1>2, <1>3, WhoActs DEF Host, Works

\* What is known stays so.
KnownThen(r, q, t, v) ==
  /\ t \in DOMAIN table'[q] /\ table'[q][t].qp = q /\ v = <<"vaddr", q, t, table'[q][t].pa>>
  /\ \E i \in 1 .. Len(posted'[<<q, r>>]) :
       posted'[<<q, r>>][i][1] = "vaddr" /\ posted'[<<q, r>>][i][2] = v

\* An address that a host holds stays the right one.
LEMMA KnownKept ==
  ASSUME NEW r, NEW q, NEW t, NEW v, Known(r, q, t, v), Keeps(q),
         Grown(posted[<<q, r>>], posted'[<<q, r>>]), sent(q, r) \in Nat, sent(q, r)' \in Nat
  PROVE  KnownThen(r, q, t, v)
<1>1. own(q, t)' /\ address(q, t)' = address(q, t)
  BY DEF Known, Keeps, own, address
<1>2. PICK i \in 1 .. sent(q, r) : isAddress(q, r, i) /\ posted[<<q, r>>][i][2] = v
  BY DEF Known
<1>3. i \in 1 .. sent(q, r)' /\ posted'[<<q, r>>][i] = posted[<<q, r>>][i]
  BY <1>2 DEF Grown, sent
<1>4. isAddress(q, r, i)' /\ posted'[<<q, r>>][i][2] = v
  BY <1>2, <1>3 DEF isAddress
<1> QED BY <1>1, <1>3, <1>4 DEF Known, KnownThen, own, address, isAddress, sent

\* So do those it has in its table and those that came last.
LEMMA AddressKept ==
  ASSUME NEW r, NEW q, Keeps(q),
         Grown(posted[<<q, r>>], posted'[<<q, r>>]), sent(q, r) \in Nat, sent(q, r)' \in Nat
  PROVE  /\ RemoteOf(r, q) /\ table'[r] = table[r] => RemoteOf(r, q)'
         /\ GotOf(r, q) /\ todo'[r] = todo[r] /\ got'[r] = got[r] => GotOf(r, q)'
<1>1. \A t, v : Known(r, q, t, v) => KnownThen(r, q, t, v)
  BY KnownKept
<1>2. ASSUME RemoteOf(r, q), table'[r] = table[r]
      PROVE  RemoteOf(r, q)'
  <2>1. \A t \in DOMAIN table[r] : table[r][t].qp = q => KnownThen(r, q, t, table[r][t].vaddr)
    BY <1>1, <1>2 DEF RemoteOf
  <2> QED BY <1>2, <2>1 DEF RemoteOf, KnownThen, Known, own, address, isAddress, sent
<1>3. ASSUME GotOf(r, q), todo'[r] = todo[r], got'[r] = got[r]
      PROVE  GotOf(r, q)'
  <2>1. todo[r] # <<>> /\ Head(todo[r]).do = "malloc" /\ Head(todo[r]).q = q =>
          KnownThen(r, q, Head(todo[r]).name, got[r].vaddr)
    BY <1>1, <1>3 DEF GotOf
  <2> QED BY <1>3, <2>1 DEF GotOf, KnownThen, Known, own, address, isAddress, sent
<1> QED BY <1>2, <1>3

-----------------------------------------------------------------------------
(* The tensors of a host.                                                  *)

\* The steps that are left of a call.
LEMMA LaterSteps ==
  ASSUME NEW r \in Ranks, NEW c, isCall(r, c), NEW m \in 0 .. stepCount(r, c)
  PROVE  /\ Len(remaining(r, c, m)) = stepCount(r, c) - m /\ stepCount(r, c) \in Nat
         /\ \A j \in 1 .. stepCount(r, c) - m :
              m + j \in 1 .. stepCount(r, c) /\ remaining(r, c, m)[j] = stepAt(r, c, m + j)
<1>1. stepCount(r, c) \in Nat /\ Len(remaining(r, c, m)) = stepCount(r, c) - m
  BY RemainingFacts
<1>2. \A j \in 1 .. stepCount(r, c) - m : m + j \in 1 .. stepCount(r, c)
  BY <1>1
<1> QED BY <1>1, <1>2 DEF remaining

\* A step of a call makes at most the tensor of the call.
LEMMA MadeWorks ==
  ASSUME NEW r \in Ranks, Shape, Holds, TodoOf(r), TableOf(r), MadeOf(r), Works(r)
  PROVE  MadeOf(r)'
<1> DEFINE c == call(r)
           s == Head(todo[r])
           n == stepCount(r, c)
<1>1. PICK k : AtCall(r, k) /\ todo'[r] = remaining(r, c, k)
  BY WorksTodo
<1>2. begun'[r] = begun[r] /\ prog' = prog
  BY WorksTodo
<1>3. /\ begun[r] \in 1 .. Len(prog[r]) /\ isCall(r, c) /\ k \in 1 .. n /\ n \in Nat
      /\ s = stepAt(r, c, k) /\ todo[r] = remaining(r, c, k - 1) /\ StepFits(r, c, s)
  BY <1>1 DEF AtCall
<1>4. Changes(r)
  BY WorksMade
<1>5. dev_mem_ptr[r] \in Nat /\ PageUnits \in Nat
  BY RdmaAssumption DEF TableOf
<1>6. k \in 0 .. n /\ k - 1 \in 0 .. n
  BY <1>3
<1>7. /\ Len(todo'[r]) = n - k /\ Len(todo[r]) = n - (k - 1)
      /\ \A j \in 1 .. n - k : k + j \in 1 .. n /\ todo'[r][j] = stepAt(r, c, k + j)
      /\ \A j \in 1 .. n - (k - 1) : todo[r][j] = stepAt(r, c, (k - 1) + j)
  BY <1>1, <1>3, <1>6, LaterSteps
<1>8. \A j \in 1 .. n : isAllocStep(r, c, j)
  BY <1>3, AllocSteps
<1> HIDE DEF c, s, n
<1>9. \A j \in 1 .. Len(todo'[r]) :
        /\ j + 1 \in 1 .. Len(todo[r]) /\ todo'[r][j] = todo[r][j + 1]
        /\ k + j \in 1 .. n /\ k + j # k /\ todo'[r][j] = stepAt(r, c, k + j)
  <2> SUFFICES ASSUME NEW j \in 1 .. Len(todo'[r])
               PROVE  /\ j + 1 \in 1 .. Len(todo[r]) /\ todo'[r][j] = todo[r][j + 1]
                      /\ k + j \in 1 .. n /\ k + j # k /\ todo'[r][j] = stepAt(r, c, k + j)
    OBVIOUS
  <2>1. j \in 1 .. n - k /\ j + 1 \in 1 .. n - (k - 1) /\ (k - 1) + (j + 1) = k + j /\ k + j # k
    BY <1>3, <1>7
  <2> QED BY <1>7, <2>1
<1>10. CASE s.do = "malloc"
  <2> DEFINE e == entry(r, s)
  <2>1. table'[r] = Put(table[r], s.name, e) /\ dev_mem_ptr'[r] = dev_mem_ptr[r] + s.size
    BY <1>4, <1>10 DEF Changes, s
  <2>2. s.name = c.t /\ c.op = "alloc" /\ s.size = c.size /\ s.size \in Nat
        /\ k = (IF c.at = r THEN 1 ELSE 5)
    BY <1>3, <1>8, <1>10 DEF StepFits, isAllocStep, driverSteps
  <2>3. /\ table'[r][s.name] = e /\ \A t \in DOMAIN table'[r] : t = s.name \/ t \in DOMAIN table[r]
        /\ \A t \in DOMAIN table[r] : t # s.name => table'[r][t] = table[r][t]
    BY <2>1, PutNew
  <2>4. e.size = s.size /\ e.pa = dev_mem_ptr[r]
    BY DEF entry
  <2> HIDE DEF e
  <2>5. ASSUME NEW t \in DOMAIN table'[r]
        PROVE  /\ table'[r][t].size \in Nat /\ table'[r][t].pa + table'[r][t].size <= dev_mem_ptr'[r]
               /\ \E i \in 1 .. begun[r] :
                    prog[r][i].op = "alloc" /\ prog[r][i].t = t /\ table'[r][t].size = prog[r][i].size
    <3>1. CASE t = s.name
      <4>1. begun[r] \in 1 .. begun[r] /\ prog[r][begun[r]] = c
        BY <1>3 DEF c, call
      <4>2. table'[r][t].size = c.size /\ c.t = t
        BY <2>2, <2>3, <2>4, <3>1
      <4>3. table'[r][t].pa + table'[r][t].size <= dev_mem_ptr'[r] /\ table'[r][t].size \in Nat
        BY <1>5, <2>1, <2>2, <2>3, <2>4, <3>1
      <4> QED BY <2>2, <4>1, <4>2, <4>3
    <3>2. CASE t # s.name
      <4>1. t \in DOMAIN table[r] /\ table'[r][t] = table[r][t]
        BY <2>3, <3>2
      <4>2. /\ table[r][t].size \in Nat /\ table[r][t].pa + table[r][t].size <= dev_mem_ptr[r]
            /\ \E i \in 1 .. begun[r] :
                 prog[r][i].op = "alloc" /\ prog[r][i].t = t /\ table[r][t].size = prog[r][i].size
        BY <4>1 DEF MadeOf
      <4>3. table[r][t].pa \in Nat
        BY <4>1 DEF TableOf
      <4> QED BY <1>5, <2>1, <2>2, <4>1, <4>2, <4>3
    <3> QED BY <3>1, <3>2
  <2>6. \A j \in 1 .. Len(todo'[r]) : todo'[r][j].do # "malloc"
    <3> SUFFICES ASSUME NEW j \in 1 .. Len(todo'[r]), todo'[r][j].do = "malloc"
                 PROVE  FALSE
      OBVIOUS
    <3>1. k + j \in 1 .. n /\ k + j # k /\ todo'[r][j] = stepAt(r, c, k + j)
      BY <1>9
    <3> DEFINE m == k + j
    <3>2. m \in 1 .. n /\ m # k /\ stepAt(r, c, m).do = "malloc"
      BY <3>1
    <3> HIDE DEF m
    <3>3. m = (IF c.at = r THEN 1 ELSE 5)
      BY <1>8, <3>2 DEF isAllocStep
    <3> QED BY <2>2, <3>2, <3>3
  <2> QED BY <1>2, <2>5, <2>6 DEF MadeOf
<1>11. CASE s.do # "malloc"
  <2>1. table'[r] = table[r] /\ dev_mem_ptr'[r] \in {dev_mem_ptr[r] + 0, dev_mem_ptr[r] + PageUnits}
    BY <1>4, <1>11 DEF Changes, s
  <2>2. dev_mem_ptr'[r] \in Nat /\ dev_mem_ptr[r] <= dev_mem_ptr'[r]
    BY <1>5, <2>1
  <2>3. ASSUME NEW t \in DOMAIN table[r]
        PROVE  table[r][t].size \in Nat /\ table[r][t].pa + table[r][t].size <= dev_mem_ptr'[r]
    <3>1. table[r][t].size \in Nat /\ table[r][t].pa + table[r][t].size <= dev_mem_ptr[r] /\ table[r][t].pa \in Nat
      BY DEF MadeOf, TableOf
    <3> QED BY <1>5, <2>2, <3>1
  <2>4. \A j \in 1 .. Len(todo'[r]) : todo'[r][j].do = "malloc" => todo'[r][j].name \notin DOMAIN table[r]
    BY <1>9 DEF MadeOf
  <2> QED BY <1>2, <2>1, <2>3, <2>4 DEF MadeOf
<1> QED BY <1>10, <1>11

\* A call that begins has a new tensor to make.
LEMMA MadeBegin ==
  ASSUME NEW r \in Ranks, Shape, TodoOf(r), TableOf(r), MadeOf(r), Begin(r)
  PROVE  MadeOf(r)' /\ FreshOf(r)'
<1> DEFINE b == begun[r] + 1
           c == prog[r][b]
           n == stepCount(r, c)
<1>1. /\ begun[r] \in Nat /\ b \in 1 .. Len(prog[r]) /\ isCall(r, c) /\ n \in Nat
      /\ todo'[r] = remaining(r, c, 0) /\ begun'[r] = b
      /\ prog' = prog /\ table' = table /\ dev_mem_ptr' = dev_mem_ptr
  BY BeginFacts
<1>2. 0 \in 0 .. n /\ n - 0 = n /\ \A j \in 1 .. n : 0 + j = j
  BY <1>1
<1>3. Len(todo'[r]) = n /\ \A j \in 1 .. n : todo'[r][j] = stepAt(r, c, j)
  BY <1>1, <1>2, LaterSteps
<1>4. \A j \in 1 .. n : isAllocStep(r, c, j) /\ StepFits(r, c, stepAt(r, c, j))
  BY <1>1, AllocSteps
<1>5. Len(prog[r]) \in Nat /\ DOMAIN prog[r] = 1 .. Len(prog[r])
  BY CallsFacts DEF Shape
<1>6. begun[r] # b /\ \A i \in 1 .. begun[r] : i \in 1 .. b /\ i \in 1 .. Len(prog[r]) /\ i # b
  BY <1>1, <1>5
<1>7. ASSUME NEW j \in 1 .. n, stepAt(r, c, j).do = "malloc", stepAt(r, c, j).name \in DOMAIN table[r]
      PROVE  FALSE
  <2>1. c.op = "alloc" /\ stepAt(r, c, j).name = c.t
    BY <1>4, <1>7 DEF StepFits, driverSteps
  <2>2. PICK i \in 1 .. begun[r] : prog[r][i].op = "alloc" /\ prog[r][i].t = c.t
    BY <1>7, <2>1 DEF TableOf
  <2>3. Distinct(prog)
    BY ProgramsAssumption DEF Shape
  <2> QED BY <1>1, <1>5, <1>6, <2>1, <2>2, <2>3 DEF Distinct
<1>8. MadeOf(r)'
  <2>1. \A j \in 1 .. Len(todo'[r]) : todo'[r][j].do = "malloc" => todo'[r][j].name \notin DOMAIN table'[r]
    BY <1>1, <1>3, <1>7
  <2>2. \A t \in DOMAIN table[r] : \E i \in 1 .. b :
          prog[r][i].op = "alloc" /\ prog[r][i].t = t /\ table[r][t].size = prog[r][i].size
    BY <1>6 DEF MadeOf
  <2> HIDE DEF b, c, n
  <2>3. \A t \in DOMAIN table[r] : table[r][t].size \in Nat /\ table[r][t].pa + table[r][t].size <= dev_mem_ptr[r]
    BY DEF MadeOf
  <2> QED BY <1>1, <2>1, <2>2, <2>3 DEF MadeOf
<1>9. todo'[r] = <<>> \/ ~ isAdvert(Head(todo'[r]))
  <2>1. CASE n = 0
    <3>1. remaining(r, c, 0) = <<>>
      BY <1>1, <1>2, <2>1, RemainingFacts
    <3> QED BY <1>1, <3>1
  <2>2. CASE n # 0
    <3>1. 1 \in 1 .. n /\ 0 # n /\ 0 + 1 = 1
      BY <1>1, <2>2
    <3>2. Head(todo'[r]) = stepAt(r, c, 1)
      BY <1>1, <1>2, <3>1, RemainingFacts
    <3>3. isAllocStep(r, c, 1)
      BY <1>4, <3>1
    <3> QED BY <3>2, <3>3 DEF isAllocStep
  <2> QED BY <2>1, <2>2
<1> QED BY <1>8, <1>9 DEF FreshOf

\* The tensor is made, then registered and advertised; nothing is made meanwhile.
LEMMA FreshWorks ==
  ASSUME NEW r \in Ranks, Shape, Holds, TodoOf(r), TableOf(r), MadeOf(r), FreshOf(r), Works(r)
  PROVE  FreshOf(r)'
<1> SUFFICES ASSUME todo'[r] # <<>>, isAdvert(Head(todo'[r]))
             PROVE  LET x == call(r)'.t IN
                    /\ x \in DOMAIN table'[r] /\ table'[r][x].qp = r
                    /\ \A u \in DOMAIN table'[r] :
                         u = x \/ table'[r][u].pa + table'[r][u].size <= table'[r][x].pa
  BY DEF FreshOf, own, behind
<1> DEFINE c == call(r)
           s == Head(todo[r])
           n == stepCount(r, c)
<1>1. PICK k : AtCall(r, k) /\ todo'[r] = remaining(r, c, k)
  BY WorksTodo
<1>2. call(r)' = c
  BY WorksTodo
<1>3. /\ isCall(r, c) /\ k \in 1 .. n /\ n \in Nat /\ s = stepAt(r, c, k) /\ StepFits(r, c, s)
  BY <1>1 DEF AtCall
<1>4. Changes(r)
  BY WorksMade
<1>5. k # n /\ k \in 0 .. n /\ k + 1 \in 1 .. n /\ (k + 1) - 1 = k /\ Head(todo'[r]) = stepAt(r, c, k + 1)
  <2>1. k \in 0 .. n
    BY <1>3
  <2>2. k # n /\ Head(todo'[r]) = stepAt(r, c, k + 1)
    BY <1>1, <1>3, <2>1, RemainingFacts
  <2> QED BY <1>3, <2>2
<1>6. isAllocStep(r, c, k) /\ isAllocStep(r, c, k + 1)
  BY <1>3, <1>5, AllocSteps
<1> HIDE DEF c, s, n
<1>7. c.op = "alloc" /\ c.at = r
  BY <1>5, <1>6 DEF isAllocStep
<1>8. todo[r] # <<>>
  BY WorksFacts
<1>9. CASE k = 1
  <2>1. s.do = "malloc" /\ s.name = c.t /\ s.q = r
    BY <1>3, <1>6, <1>7, <1>9 DEF isAllocStep, StepFits
  <2> DEFINE e == entry(r, s)
  <2>2. table'[r] = Put(table[r], s.name, e)
    BY <1>4, <2>1 DEF Changes, s
  <2>3. /\ s.name \in DOMAIN table'[r] /\ table'[r][s.name] = e
        /\ \A t \in DOMAIN table'[r] : t = s.name \/ t \in DOMAIN table[r]
        /\ \A t \in DOMAIN table[r] : t # s.name => table'[r][t] = table[r][t]
    BY <2>2, PutNew
  <2>4. e.pa = dev_mem_ptr[r] /\ e.qp = r
    BY <2>1 DEF entry
  <2>5. \A t \in DOMAIN table[r] : table[r][t].pa + table[r][t].size <= dev_mem_ptr[r]
    BY DEF MadeOf
  <2> HIDE DEF e
  <2> QED BY <1>2, <2>1, <2>3, <2>4, <2>5
<1>10. CASE k # 1
  <2>1. isAdvert(s)
    BY <1>3, <1>6, <1>7, <1>10 DEF isAllocStep
  <2>2. own(r, c.t) /\ \A u \in DOMAIN table[r] : behind(r, u, c.t)
    BY <1>8, <2>1 DEF FreshOf, c, s
  <2>3. table'[r] = table[r]
    BY <1>4, <2>1 DEF Changes, isAdvert, s
  <2> QED BY <1>2, <2>2, <2>3 DEF own, behind
<1> QED BY <1>9, <1>10

-----------------------------------------------------------------------------
(* The addresses that are submitted.                                       *)

\* The part of the exchange that a submission stands for, as the peer takes it.
LEMMA PostedPart ==
  ASSUME NEW r \in Ranks, NEW p \in Ranks, p # r, Shape, TodoOf(r), HistoryOf(r, p), Works(r),
         isEvent(Head(todo[r])), isPost(Head(todo[r])), Head(todo[r]).q = p, call(r).op = "alloc"
  PROVE  \E j \in DOMAIN Script(prog, p, r) :
           /\ isTake(Script(prog, p, r), j, sent(r, p) + 1)
           /\ Script(prog, p, r)[j].of[2] = call(r).t
<1> DEFINE mine == Script(prog, r, p)
           its == Script(prog, p, r)
           n == pos(r, p)
           s == Head(todo[r])
<1>1. n \in Nat /\ n + 1 \in 1 .. Len(mine) /\ mine[n + 1].post = TRUE
  <2>1. /\ n \in Nat
        /\ IF isEvent(s) /\ s.q = p
             THEN /\ pos(r, p)' = n + 1 /\ n + 1 \in 1 .. Len(mine)
                  /\ mine[n + 1].post = isPost(s) /\ mine[n + 1].kind = kindOf(s)
             ELSE pos(r, p)' = n
    BY PosWorks
  <2>2. isPost(s) = TRUE /\ isEvent(s) /\ s.q = p
    BY DEF isPost
  <2> HIDE DEF n, mine, s
  <2> QED BY <2>1, <2>2
<1>2. mine[n + 1].of[2] = call(r).t
  <2>1. todo[r] # <<>>
    BY WorksFacts
  <2>2. PICK k : AtCall(r, k)
    BY <2>1, AtHead
  <2> QED BY <2>2, AllocParts
<1>3. isDual(mine, its)
  BY ScriptsDual DEF Shape
<1>4. sent(r, p) = count(mine, TRUE, n)
  BY DEF HistoryOf, Meant, sent
<1> HIDE DEF mine, its, n
<1> DEFINE k == n + 1
<1>5. count(mine, TRUE, k) = sent(r, p) + 1
  <2>1. count(mine, TRUE, n + 1) = count(mine, TRUE, n) + (IF mine[n + 1].post = TRUE THEN 1 ELSE 0)
    BY <1>1, CountStep
  <2> QED BY <1>1, <1>4, <2>1
<1>6. k \in 1 .. Len(mine) /\ mine[k].post = TRUE /\ mine[k].of[2] = call(r).t
  BY <1>1, <1>2
<1> HIDE DEF k
<1>7. /\ Len(mine) \in Nat /\ Len(its) = Len(mine)
      /\ its[k].post = FALSE /\ its[k].of = mine[k].of
  <2>1. /\ Len(mine) \in Nat /\ Len(its) = Len(mine)
        /\ \A j \in 1 .. Len(mine) : its[j].post = ~ mine[j].post /\ mine[j].of = its[j].of
    BY <1>3, DualParts
  <2>2. its[k].post = ~ mine[k].post /\ mine[k].of = its[k].of
    BY <1>6, <2>1
  <2>3. its[k].post = FALSE
    BY ONLY <1>6, <2>2, Zenon
  <2> QED BY <2>1, <2>2, <2>3
<1>8. count(its, FALSE, k) = sent(r, p) + 1
  <2>1. k \in 0 .. Len(mine)
    BY <1>6, <1>7
  <2>2. FALSE \in BOOLEAN /\ (~ FALSE) = TRUE
    OBVIOUS
  <2>3. count(its, FALSE, k) = count(mine, ~ FALSE, k)
    BY <1>3, <2>1, <2>2, DualCount
  <2> QED BY <1>5, <2>2, <2>3
<1>9. DOMAIN its = 1 .. Len(its)
  <2>1. isSeq(its)
    BY <1>3 DEF isDual
  <2> QED BY <2>1 DEF isSeq
<1>10. isTake(its, k, sent(r, p) + 1)
  BY <1>7, <1>8 DEF isTake
<1>11. k \in DOMAIN its /\ its[k].of[2] = call(r).t
  BY <1>6, <1>7, <1>9
<1> QED BY <1>10, <1>11 DEF its

\* What an "advertise" step submits.
LEMMA Advertises ==
  ASSUME NEW r \in Ranks, Shape, TodoOf(r), FreshOf(r), Works(r),
         isEvent(Head(todo[r])), isPost(Head(todo[r])), kindOf(Head(todo[r])) = "vaddr"
  PROVE  LET p == Head(todo[r]).q
             x == call(r).t
         IN  /\ p \in Ranks /\ p # r /\ own(r, x) /\ table' = table /\ call(r).op = "alloc"
             /\ isSubmit(Head(todo[r]))
             /\ posted'[<<r, p>>] = Append(posted[<<r, p>>], <<"vaddr", address(r, x)>>)
<1> DEFINE s == Head(todo[r])
           c == call(r)
<1>1. todo[r] # <<>>
  BY WorksFacts
<1>2. PICK k : AtCall(r, k)
  BY <1>1, AtHead
<1>3. isCall(r, c) /\ k \in 1 .. stepCount(r, c) /\ s = stepAt(r, c, k) /\ StepFits(r, c, s)
  BY <1>2 DEF AtCall
<1>4. isAllocStep(r, c, k)
  BY <1>3, AllocSteps
<1> HIDE DEF s, c
<1>5. s.do = "advertise" /\ s.field = "vaddr"
  BY <1>3 DEF isEvent, isPost, kindOf, StepFits, s
<1>6. c.op = "alloc" /\ s.name = c.t /\ isAdvert(s) /\ isSubmit(s) /\ s.q \in Ranks /\ s.q # r
  BY <1>3, <1>4, <1>5 DEF isAllocStep, isAdvert, isSubmit, StepFits
<1>7. own(r, c.t)
  BY <1>1, <1>6 DEF FreshOf, s, c
<1>8. PostWqe(r)
  BY <1>5 DEF Works, DevMemAlloc, RegMr, PollCompletion, Free, TakeRqe, CopyRqe, PostRdmaWqe,
              PostRdmaRecv, AtStep, s
<1>9. table' = table /\ posted' = [posted EXCEPT ![<<r, s.q>>] =
                                     Append(@, <<"vaddr", <<"vaddr", r, c.t, table[r][c.t].pa>>>>)]
  BY <1>5, <1>6, <1>8 DEF PostWqe, Posted, s
<1>10. <<r, s.q>> \in DOMAIN posted
  BY <1>6 DEF Shape, QPs
<1>11. posted'[<<r, s.q>>] = Append(posted[<<r, s.q>>], <<"vaddr", address(r, c.t)>>)
  BY <1>9, <1>10 DEF address
<1> QED BY <1>6, <1>7, <1>9, <1>11 DEF s, c

\* An address that is submitted is that of the tensor that was just allocated.
LEMMA SealedWorks ==
  ASSUME NEW r \in Ranks, NEW p \in Ranks, p # r, Shape, Holds, TodoOf(r), TableOf(r), FreshOf(r),
         HistoryOf(r, p), SealedOf(r, p), Keeps(r), Works(r)
  PROVE  SealedOf(r, p)'
<1> DEFINE qp == <<r, p>>
           n == sent(r, p)
           s == Head(todo[r])
           its == Script(prog, p, r)
           Sealed(h, i) ==
             LET t == h[i][2][3] IN
             /\ t \in DOMAIN table'[r] /\ table'[r][t].qp = r
             /\ h[i][2] = <<"vaddr", r, t, table'[r][t].pa>>
             /\ \E j \in DOMAIN its : isTake(its, j, i) /\ its[j].of[2] = t
<1>0. isSeq(posted[qp]) /\ n \in Nat /\ prog' = prog
  BY HistoriesCount, WorksTodo
<1>1. ASSUME NEW i \in 1 .. n, posted[qp][i][1] = "vaddr"
      PROVE  Sealed(posted[qp], i)
  <2>1. /\ own(r, tensorOf(r, p, i)) /\ posted[qp][i][2] = address(r, tensorOf(r, p, i))
        /\ \E j \in DOMAIN its : isTake(its, j, i) /\ its[j].of[2] = tensorOf(r, p, i)
    BY <1>1 DEF SealedOf, isAddress
  <2>2. tensorOf(r, p, i) = posted[qp][i][2][3]
    BY DEF tensorOf
  <2>3. \A t \in DOMAIN table[r] : t \in DOMAIN table'[r] /\ table'[r][t] = table[r][t]
    BY DEF Keeps
  <2> HIDE DEF its
  <2> QED BY <2>1, <2>2, <2>3 DEF own, address
<1>2. ASSUME \A i \in 1 .. Len(posted'[qp]) : posted'[qp][i][1] = "vaddr" => Sealed(posted'[qp], i)
      PROVE  SealedOf(r, p)'
  BY <1>0, <1>2 DEF SealedOf, isAddress, sent, own, address, tensorOf
<1>3. CASE posted'[qp] = posted[qp]
  <2>1. Len(posted'[qp]) = n
    BY <1>3 DEF sent
  <2> HIDE DEF Sealed
  <2> QED BY <1>1, <1>2, <1>3, <2>1
<1>4. CASE isEvent(s) /\ s.q = p /\ isPost(s)
  <2>1. \E v : posted'[qp] = Append(posted[qp], <<kindOf(s), v>>)
    BY <1>4, WorksFacts DEF Records
  <2>2. PICK v : posted'[qp] = Append(posted[qp], <<kindOf(s), v>>)
    BY <2>1
  <2>3. /\ Len(posted'[qp]) = n + 1 /\ posted'[qp][n + 1] = <<kindOf(s), v>>
        /\ \A i \in 1 .. n : posted'[qp][i] = posted[qp][i]
    BY <1>0, <2>2, AppendFacts DEF sent
  <2>4. ASSUME NEW i \in 1 .. n, posted'[qp][i][1] = "vaddr"
        PROVE  Sealed(posted'[qp], i)
    <3>1. posted'[qp][i] = posted[qp][i]
      BY <2>3
    <3>2. Sealed(posted[qp], i)
      BY <1>1, <2>4, <3>1
    <3> HIDE DEF its
    <3> QED BY <3>1, <3>2
  <2>5. ASSUME posted'[qp][n + 1][1] = "vaddr"
        PROVE  Sealed(posted'[qp], n + 1)
    <3>1. kindOf(s) = "vaddr"
      BY <2>3, <2>5
    <3> DEFINE x == call(r).t
    <3>2. /\ own(r, x) /\ table' = table /\ call(r).op = "alloc"
          /\ posted'[qp] = Append(posted[qp], <<"vaddr", address(r, x)>>)
      BY <1>4, <3>1, Advertises
    <3>3. posted'[qp][n + 1] = <<"vaddr", address(r, x)>>
      BY <1>0, <3>2, AppendFacts DEF sent
    <3>4. posted'[qp][n + 1][2] = <<"vaddr", r, x, table[r][x].pa>>
      BY <3>3 DEF address
    <3>5. \E j \in DOMAIN its : isTake(its, j, n + 1) /\ its[j].of[2] = x
      BY <1>4, <3>2, PostedPart
    <3> HIDE DEF x, its
    <3>6. posted'[qp][n + 1][2][3] = x
      BY <3>4
    <3> QED BY <3>2, <3>4, <3>5, <3>6 DEF own
  <2>6. \A i \in 1 .. n + 1 : i \in 1 .. n \/ i = n + 1
    BY <1>0
  <2> HIDE DEF Sealed, n
  <2> QED BY <1>2, <2>3, <2>4, <2>5, <2>6
<1> QED BY <1>3, <1>4, WorksFacts DEF Records

\* A tensor is registered when it was made.
LEMMA RegisteredTensor ==
  ASSUME NEW r \in Ranks, Shape, TodoOf(r), TableOf(r), MadeOf(r), FreshOf(r),
         todo[r] # <<>>, Head(todo[r]).do = "register"
  PROVE  LET s == Head(todo[r]) IN
         /\ s.name = call(r).t /\ own(r, s.name) /\ s.q \in Ranks /\ s.q # r
         /\ table[r][s.name].pa \in Nat /\ table[r][s.name].size \in Nat
<1> DEFINE s == Head(todo[r])
           c == call(r)
<1>1. PICK k : AtCall(r, k)
  BY AtHead
<1>2. isCall(r, c) /\ k \in 1 .. stepCount(r, c) /\ s = stepAt(r, c, k) /\ StepFits(r, c, s)
  BY <1>1 DEF AtCall
<1>3. isAllocStep(r, c, k)
  BY <1>2, AllocSteps
<1> HIDE DEF s, c
<1>4. isAdvert(s) /\ s.do # "poll" /\ s.do # "malloc"
  BY DEF isAdvert, s
<1>5. s.name = c.t /\ s.q \in Ranks /\ s.q # r
  BY <1>2, <1>3, <1>4 DEF isAllocStep, StepFits
<1>6. own(r, c.t)
  BY <1>4 DEF FreshOf, s, c
<1>7. table[r][c.t].pa \in Nat /\ table[r][c.t].size \in Nat
  BY <1>6 DEF own, TableOf, MadeOf
<1> QED BY <1>5, <1>6, <1>7 DEF s, c

\* The windows and the received values keep their types.
LEMMA HoldsStep ==
  ASSUME Shape, Base, TensorInv, [Next]_vars
  PROVE  Holds'
<1>0. /\ window \in [QPs -> windows] /\ DOMAIN got = Ranks /\ \A r \in Ranks : "vaddr" \in DOMAIN got[r]
  BY DEF TensorInv, Holds
<1>1. CASE window' = window /\ got' = got
  BY <1>0, <1>1 DEF Holds
<1>2. ASSUME NEW r \in Ranks, DevMemAlloc(r)
      PROVE  Holds'
  <2>1. window' = window /\ got' = [got EXCEPT ![r] = [rkey |-> <<>>, vaddr |-> <<>>]]
    BY <1>2 DEF DevMemAlloc
  <2> QED BY <1>0, <2>1 DEF Holds
<1>3. ASSUME NEW r \in Ranks, CopyRqe(r)
      PROVE  Holds'
  <2>1. window' = window /\ \E v : got' = [got EXCEPT ![r][Head(todo[r]).field] = v]
    BY <1>3 DEF CopyRqe
  <2> QED BY <1>0, <2>1 DEF Holds
<1>4. ASSUME NEW r \in Ranks, RegMr(r)
      PROVE  Holds'
  <2> DEFINE s == Head(todo[r])
             w == window[<<r, s.q>>]
             o == table[r][s.name]
  <2>1. got' = got /\ window' = [window EXCEPT ![<<r, s.q>>] = registered(w, o.pa, o.size)]
    BY <1>4 DEF RegMr
  <2>2. todo[r] # <<>> /\ s.do = "register"
    BY <1>4 DEF RegMr, AtStep
  <2>3. s.q \in Ranks /\ s.q # r /\ o.pa \in Nat /\ o.size \in Nat
    BY <2>2, RegisteredTensor DEF TensorInv, Base, TodoInv, TableInv
  <2>4. <<r, s.q>> \in QPs /\ RegUnits \in Nat
    BY <2>3, RdmaAssumption DEF QPs
  <2>5. w \in windows
    BY <1>0, <2>4
  <2> HIDE DEF w, o, s
  <2>6. registered(w, o.pa, o.size) \in windows
    BY <2>3, <2>4, <2>5 DEF registered, windows
  <2> QED BY <1>0, <2>1, <2>4, <2>6 DEF Holds
<1>5. CASE UNCHANGED vars
  BY <1>1, <1>5 DEF vars, mem
<1>6. CASE \E qp \in QPs : Deliver(qp[1], qp[2])
  BY <1>1, <1>6 DEF Deliver
<1>7. ASSUME NEW r \in Ranks, Host(r), ~ DevMemAlloc(r), ~ CopyRqe(r), ~ RegMr(r)
      PROVE  window' = window /\ got' = got
  BY <1>7 DEF Host, Begin, PostWqe, PollCompletion, Free, TakeRqe, PostRdmaWqe, PostRdmaRecv, mem
<1> QED BY <1>1, <1>2, <1>3, <1>4, <1>5, <1>6, <1>7 DEF Next

\* The tensors, and what is said of them.
LEMMA TensorStep ==
  ASSUME Shape, Base, TensorInv, [Next]_vars
  PROVE  TensorInv' /\ \A q \in Ranks : Keeps(q)
<1>0. /\ Holds /\ TodoInv /\ TableInv /\ HistoryInv
      /\ \A r \in Ranks : TodoOf(r) /\ TableOf(r) /\ MadeOf(r) /\ FreshOf(r)
      /\ \A r, q \in Ranks : r # q => SealedOf(r, q) /\ HistoryOf(r, q)
  BY DEF TensorInv, Base, TodoInv, TableInv, HistoryInv
<1>1. \A q \in Ranks : Keeps(q)
  BY <1>0, TableGrows
<1>2. Holds'
  BY HoldsStep
<1>3. ASSUME NEW p \in Ranks
      PROVE  MadeOf(p)' /\ FreshOf(p)' /\ \A q \in Ranks : p # q => SealedOf(p, q)'
  <2>1. CASE Still(p)
    BY <1>0, <2>1, StillKept
  <2>2. CASE Works(p)
    BY <1>0, <1>1, <2>2, MadeWorks, FreshWorks, SealedWorks
  <2>3. CASE Begin(p)
    <3>1. MadeOf(p)' /\ FreshOf(p)'
      BY <1>0, <2>3, MadeBegin
    <3>2. ASSUME NEW q \in Ranks, p # q
          PROVE  SealedOf(p, q)'
      <4>1. prog' = prog /\ posted' = posted /\ table' = table
        BY <2>3 DEF Begin, mem
      <4>2. SealedOf(p, q)
        BY <1>0, <3>2
      <4> QED BY <4>1, <4>2 DEF SealedOf, isAddress, tensorOf, sent, own, address
    <3> QED BY <3>1, <3>2
  <2> QED BY <1>0, <2>1, <2>2, <2>3, WhoActs DEF Host, Works
<1> QED BY <1>1, <1>2, <1>3 DEF TensorInv

-----------------------------------------------------------------------------
(* The addresses that are received.                                        *)

\* What a host that allocates at another takes as the address is that of the
\* tensor the two calls name.
LEMMA TakenAddress ==
  ASSUME NEW r \in Ranks, NEW q \in Ranks, q # r, Shape, TodoOf(r), HistoryOf(r, q), SealedOf(q, r),
         Works(r), isEvent(Head(todo[r])), ~ isPost(Head(todo[r])), Head(todo[r]).q = q,
         call(r).op = "alloc", received(r, q) + 1 <= sent(q, r), isAddress(q, r, received(r, q) + 1)
  PROVE  /\ own(q, call(r).t)
         /\ posted[<<q, r>>][received(r, q) + 1][2] = address(q, call(r).t)
<1> DEFINE mine == Script(prog, r, q)
           n == pos(r, q)
           s == Head(todo[r])
           x == call(r).t
           g == received(r, q)
           i == g + 1
<1>1. n \in Nat /\ n + 1 \in 1 .. Len(mine) /\ mine[n + 1].post = FALSE
  <2>1. /\ n \in Nat
        /\ IF isEvent(s) /\ s.q = q
             THEN /\ pos(r, q)' = n + 1 /\ n + 1 \in 1 .. Len(mine)
                  /\ mine[n + 1].post = isPost(s) /\ mine[n + 1].kind = kindOf(s)
             ELSE pos(r, q)' = n
    BY PosWorks
  <2>2. isPost(s) = FALSE /\ isEvent(s) /\ s.q = q
    BY DEF isPost
  <2> HIDE DEF n, mine, s
  <2> QED BY <2>1, <2>2
<1>2. mine[n + 1].of[2] = x
  <2>1. todo[r] # <<>>
    BY WorksFacts
  <2>2. PICK k : AtCall(r, k)
    BY <2>1, AtHead
  <2> QED BY <2>2, AllocParts
<1>3. g = count(mine, FALSE, n) /\ g \in Nat
  BY HistoriesCount DEF HistoryOf, Meant, received
<1>4. isSeq(mine)
  <2>1. isDual(mine, Script(prog, q, r))
    BY ScriptsDual DEF Shape
  <2> QED BY <2>1 DEF isDual
<1>5. DOMAIN mine = 1 .. Len(mine) /\ Len(mine) \in Nat
  BY <1>4 DEF isSeq
<1>6. i \in 1 .. sent(q, r)
  <2>1. sent(q, r) \in Nat /\ g \in Nat /\ g + 1 <= sent(q, r)
    BY HistoriesCount
  <2> DEFINE m == sent(q, r)
  <2> HIDE DEF g, m
  <2>2. g + 1 \in 1 .. m
    BY ONLY <2>1 DEF m
  <2> QED BY <2>2 DEF m
<1>7. /\ own(q, tensorOf(q, r, i)) /\ posted[<<q, r>>][i][2] = address(q, tensorOf(q, r, i))
      /\ \E j \in DOMAIN mine : isTake(mine, j, i) /\ mine[j].of[2] = tensorOf(q, r, i)
  BY <1>6 DEF SealedOf
<1> DEFINE y == tensorOf(q, r, i)
<1> HIDE DEF mine, n, x, y
<1>8. y = x
  <2>1. PICK j \in DOMAIN mine : isTake(mine, j, i) /\ mine[j].of[2] = y
    BY <1>7 DEF y
  <2> DEFINE k == n + 1
  <2>2. count(mine, FALSE, k) = i
    <3>1. count(mine, FALSE, n + 1) = count(mine, FALSE, n) + (IF mine[n + 1].post = FALSE THEN 1 ELSE 0)
      BY <1>1, CountStep
    <3> QED BY <1>1, <1>3, <3>1
  <2>3. k \in Nat \ {0} /\ j \in Nat \ {0} /\ mine[k].post = FALSE /\ mine[k].of[2] = x
    BY <1>1, <1>2, <1>5
  <2>4. mine[j].post = FALSE /\ count(mine, FALSE, j) = i
    BY <2>1 DEF isTake
  <2> HIDE DEF k, i
  <2>5. k = j
    BY <2>2, <2>3, <2>4, CountUnique
  <2> QED BY <2>1, <2>3, <2>5
<1> QED BY <1>7, <1>8 DEF x, y

\* The tensor that is about to be mapped to a host, and the address that came.
LEMMA GotWorks ==
  ASSUME NEW r \in Ranks, NEW q \in Ranks, q # r, Shape, Holds, TodoOf(r), HistoryOf(r, q),
         SealedOf(q, r), TakenOf(r, q)', Works(r)
  PROVE  GotOf(r, q)'
<1> SUFFICES ASSUME todo'[r] # <<>>, Head(todo'[r]).do = "malloc", Head(todo'[r]).q = q
             PROVE  KnownThen(r, q, Head(todo'[r]).name, got'[r].vaddr)
  BY DEF GotOf, Known, KnownThen, own, address, isAddress, sent
<1> DEFINE c == call(r)
           s == Head(todo[r])
           u == Head(todo'[r])
           n == stepCount(r, c)
           g == received(r, q)
           i == g + 1
<1>1. PICK k : AtCall(r, k) /\ todo'[r] = remaining(r, c, k)
  BY WorksTodo
<1>2. isCall(r, c) /\ k \in 1 .. n /\ n \in Nat /\ s = stepAt(r, c, k)
  BY <1>1 DEF AtCall
<1>3. k + 1 \in 1 .. n /\ u = stepAt(r, c, k + 1)
  <2>1. k \in 0 .. n
    BY <1>2
  <2>2. k # n /\ u = stepAt(r, c, k + 1)
    BY <1>1, <1>2, <2>1, RemainingFacts
  <2> QED BY <1>2, <2>2
<1>4. isAllocStep(r, c, k) /\ isAllocStep(r, c, k + 1) /\ StepFits(r, c, u)
  BY <1>2, <1>3, AllocSteps
<1> HIDE DEF c, s, u, n
<1>5. c.op = "alloc" /\ u.name = c.t /\ c.at = q /\ k + 1 = (IF c.at = r THEN 1 ELSE 5)
  BY <1>3, <1>4 DEF isAllocStep, StepFits, driverSteps, u
<1>6. k = 4
  BY <1>2, <1>5
<1>7. s = Copy(q, "vaddr")
  <2>1. c.op = "alloc" /\ c.at # r /\ c.at = q
    BY <1>5
  <2> QED BY <1>2, <1>4, <1>6, <2>1 DEF isAllocStep
<1>8. s.do = "copy" /\ s.q = q /\ s.field = "vaddr"
  BY <1>7 DEF Copy
<1>9. CopyRqe(r)
  BY <1>8 DEF Works, DevMemAlloc, RegMr, PostWqe, PollCompletion, Free, TakeRqe, PostRdmaWqe,
              PostRdmaRecv, AtStep, s
<1> DEFINE v == At(r, rqe(r, s.q))
<1>10. /\ got' = [got EXCEPT ![r][s.field] = v] /\ table' = table /\ posted' = posted
       /\ taken' = [taken EXCEPT ![<<r, s.q>>] = Append(@, <<s.field, v>>)]
  BY <1>9 DEF CopyRqe, Taken, s, qps
<1> HIDE DEF v
<1>11. got'[r].vaddr = v
  BY <1>8, <1>10 DEF Holds
<1>12. taken'[<<r, q>>] = Append(taken[<<r, q>>], <<"vaddr", v>>)
  BY <1>8, <1>10 DEF Shape, QPs
<1>13. g \in Nat /\ sent(q, r) \in Nat /\ isSeq(taken[<<r, q>>])
  BY HistoriesCount
<1>14. received(r, q)' = i /\ taken'[<<r, q>>][i] = <<"vaddr", v>>
  BY <1>12, <1>13, AppendFacts DEF received
<1>15. /\ i <= sent(q, r) /\ posted[<<q, r>>][i][1] = "vaddr" /\ posted[<<q, r>>][i][2] = v
  <2>1. i \in 1 .. received(r, q)'
    <3> HIDE DEF g
    <3> QED BY <1>13, <1>14
  <2>2. sent(q, r)' = sent(q, r)
    BY <1>10 DEF sent
  <2> HIDE DEF i
  <2>3. /\ i <= sent(q, r)' /\ taken'[<<r, q>>][i][1] = posted'[<<q, r>>][i][1]
        /\ taken'[<<r, q>>][i][1] # "sync" => taken'[<<r, q>>][i][2] = posted'[<<q, r>>][i][2]
    BY <2>1 DEF TakenOf
  <2>4. taken'[<<r, q>>][i][1] = "vaddr" /\ taken'[<<r, q>>][i][2] = v /\ posted' = posted
    <3>1. posted' = posted
      BY <1>10
    <3>2. taken'[<<r, q>>][i] = <<"vaddr", v>>
      BY <1>14
    <3> DEFINE w == taken'[<<r, q>>][i]
    <3>3. w = <<"vaddr", v>>
      BY <3>2
    <3> HIDE DEF w
    <3>4. w[1] = "vaddr" /\ w[2] = v
      BY ONLY <3>3
    <3> QED BY <3>1, <3>4 DEF w
  <2> QED BY <2>2, <2>3, <2>4
<1>16. own(q, c.t) /\ posted[<<q, r>>][i][2] = address(q, c.t)
  <2>1. isEvent(s) /\ ~ isPost(s)
    BY <1>8 DEF isEvent, isPost
  <2>2. isAddress(q, r, i)
    BY <1>15 DEF isAddress
  <2> QED BY <1>5, <1>8, <1>15, <2>1, <2>2, TakenAddress DEF s, c
<1> DEFINE x == c.t
<1>17. x \in DOMAIN table'[q] /\ table'[q][x].qp = q /\ v = <<"vaddr", q, x, table'[q][x].pa>>
  BY <1>10, <1>15, <1>16 DEF own, address
<1> QED
  <2>1. i \in 1 .. Len(posted'[<<q, r>>]) /\ posted'[<<q, r>>][i][1] = "vaddr" /\ posted'[<<q, r>>][i][2] = v
    <3>1. posted' = posted /\ Len(posted[<<q, r>>]) = sent(q, r)
      BY <1>10 DEF sent
    <3>2. i \in 1 .. sent(q, r)
      <4> HIDE DEF g
      <4> QED BY <1>13, <1>15
    <3> QED BY <1>15, <3>1, <3>2
  <2>2. Head(todo'[r]).name = x
    BY <1>5 DEF u
  <2> HIDE DEF x, i
  <2> QED BY <1>11, <1>17, <2>1, <2>2 DEF KnownThen

\* The first step of a call maps no tensor to another host and submits nothing of it.
LEMMA BeginHead ==
  ASSUME NEW r \in Ranks, Shape, TodoOf(r), TableOf(r), Begin(r), todo'[r] # <<>>
  PROVE  LET u == Head(todo'[r]) IN ~ isSubmit(u) /\ (u.do = "malloc" => u.q = r)
<1> DEFINE c == prog[r][begun[r] + 1]
           n == stepCount(r, c)
           u == Head(todo'[r])
<1>1. isCall(r, c) /\ n \in Nat /\ todo'[r] = remaining(r, c, 0)
  BY BeginFacts
<1>2. 0 \in 0 .. n /\ 0 + 1 = 1
  BY <1>1
<1>3. 0 # n /\ u = stepAt(r, c, 1)
  BY <1>1, <1>2, RemainingFacts
<1>4. 1 \in 1 .. n
  BY <1>1, <1>3
<1>5. isAllocStep(r, c, 1) /\ StepFits(r, c, u)
  BY <1>1, <1>3, <1>4, AllocSteps
<1> HIDE DEF c, n, u
<1>6. u.do = "malloc" => u.q = r
  BY <1>3, <1>5 DEF isAllocStep, StepFits
<1>7. ~ isSubmit(u)
  <2>1. ~ isAdvert(u)
    BY <1>3, <1>5 DEF isAllocStep
  <2> QED BY <2>1 DEF isAdvert, isSubmit
<1> QED BY <1>6, <1>7 DEF u

\* The entry for a tensor at another host has the address that came.
LEMMA RemoteWorks ==
  ASSUME NEW r \in Ranks, NEW q \in Ranks, q # r, Shape, Holds, TodoOf(r), TableOf(r),
         GotOf(r, q), RemoteOf(r, q), Works(r), Keeps(q),
         Grown(posted[<<q, r>>], posted'[<<q, r>>]), sent(q, r) \in Nat, sent(q, r)' \in Nat
  PROVE  RemoteOf(r, q)'
<1> SUFFICES ASSUME NEW t \in DOMAIN table'[r], table'[r][t].qp = q
             PROVE  KnownThen(r, q, t, table'[r][t].vaddr)
  BY DEF RemoteOf, Known, KnownThen, own, address, isAddress, sent
<1> DEFINE s == Head(todo[r])
           e == entry(r, s)
<1>1. Changes(r) /\ todo[r] # <<>>
  BY WorksMade, WorksFacts
<1>2. \A x, v : Known(r, q, x, v) => KnownThen(r, q, x, v)
  BY KnownKept
<1>3. ASSUME t \in DOMAIN table[r], table'[r][t] = table[r][t]
      PROVE  KnownThen(r, q, t, table'[r][t].vaddr)
  <2>1. Known(r, q, t, table[r][t].vaddr)
    BY <1>3 DEF RemoteOf
  <2> QED BY <1>2, <1>3, <2>1
<1>4. CASE s.do = "malloc"
  <2>1. table'[r] = Put(table[r], s.name, e)
    BY <1>1, <1>4 DEF Changes
  <2>2. e.qp = s.q /\ e.vaddr = got[r].vaddr
    BY DEF entry
  <2> HIDE DEF e
  <2>3. /\ table'[r][s.name] = e
        /\ t = s.name \/ t \in DOMAIN table[r]
        /\ t \in DOMAIN table[r] /\ t # s.name => table'[r][t] = table[r][t]
    BY <2>1, PutNew
  <2>4. CASE t = s.name
    <3>1. s.q = q /\ table'[r][t].vaddr = got[r].vaddr
      BY <2>2, <2>3, <2>4
    <3>2. Known(r, q, s.name, got[r].vaddr)
      BY <1>1, <1>4, <3>1 DEF GotOf
    <3>3. KnownThen(r, q, s.name, got[r].vaddr)
      BY <1>2, <3>2
    <3> QED BY <2>4, <3>1, <3>3
  <2> QED BY <1>3, <2>3, <2>4
<1>5. CASE s.do # "malloc"
  <2>1. table'[r] = table[r]
    BY <1>1, <1>5 DEF Changes
  <2> QED BY <1>3, <2>1
<1> QED BY <1>4, <1>5

-----------------------------------------------------------------------------
(* The windows.                                                            *)

\* A window that a tensor was registered in has it.
LEMMA RegisteredCovers ==
  ASSUME NEW w \in windows, NEW pa \in Nat, NEW size \in Nat, size <= RegUnits
  PROVE  covers(registered(w, pa, size), pa, size)
<1>0. RegUnits \in Nat
  BY RdmaAssumption
<1>1. CASE w.length # 0 /\ w.base + w.size = pa
  <2>1. registered(w, pa, size) = [w EXCEPT !.length = w.size + RegUnits]
    BY <1>1 DEF registered
  <2>2. registered(w, pa, size).base = w.base /\ registered(w, pa, size).length = w.size + RegUnits
    BY <2>1 DEF windows
  <2>3. w.base \in Nat /\ w.size \in Nat
    BY DEF windows
  <2>4. w.base <= pa /\ pa + size <= w.base + (w.size + RegUnits)
    BY <1>0, <1>1, <2>3
  <2> QED BY <2>2, <2>4 DEF covers
<1>2. CASE ~ (w.length # 0 /\ w.base + w.size = pa)
  <2>1. registered(w, pa, size) = [base |-> pa, size |-> size, length |-> RegUnits]
    BY <1>2 DEF registered
  <2>2. registered(w, pa, size).base = pa /\ registered(w, pa, size).length = RegUnits
    BY <2>1
  <2>3. pa <= pa /\ pa + size <= pa + RegUnits
    BY <1>0
  <2> QED BY <2>2, <2>3 DEF covers
<1> QED BY <1>1, <1>2

\* Only an advertisement submits an address.
LEMMA NoNewAddress ==
  ASSUME NEW r \in Ranks, NEW p \in Ranks, p # r, Shape, TodoOf(r), FreshOf(r), Works(r),
         ~ (isAdvert(Head(todo[r])) /\ Head(todo[r]).q = p)
  PROVE  \A i \in 1 .. Len(posted'[<<r, p>>]) : posted'[<<r, p>>][i][1] = "vaddr" =>
           i \in 1 .. sent(r, p) /\ posted'[<<r, p>>][i] = posted[<<r, p>>][i]
<1> DEFINE s == Head(todo[r])
           qp == <<r, p>>
           n == sent(r, p)
<1>0. isSeq(posted[qp]) /\ n \in Nat /\ n = Len(posted[qp])
  BY HistoriesCount DEF sent
<1>1. CASE posted'[qp] = posted[qp]
  BY <1>0, <1>1
<1>2. CASE isEvent(s) /\ s.q = p /\ isPost(s)
  <2>1. PICK v : posted'[qp] = Append(posted[qp], <<kindOf(s), v>>)
    BY <1>2, WorksFacts DEF Records
  <2>2. /\ Len(posted'[qp]) = n + 1 /\ posted'[qp][n + 1] = <<kindOf(s), v>>
        /\ \A i \in 1 .. n : posted'[qp][i] = posted[qp][i]
    BY <1>0, <2>1, AppendFacts
  <2>3. kindOf(s) # "vaddr"
    <3> SUFFICES ASSUME kindOf(s) = "vaddr"
                 PROVE  FALSE
      OBVIOUS
    <3>1. isSubmit(s)
      BY <1>2, Advertises
    <3> QED BY <1>2, <3>1 DEF isSubmit, isAdvert
  <2>4. posted'[qp][n + 1][1] # "vaddr"
    BY <2>2, <2>3
  <2>5. \A i \in 1 .. n + 1 : i \in 1 .. n \/ i = n + 1
    BY <1>0
  <2> HIDE DEF n, s
  <2> QED BY <2>2, <2>4, <2>5 DEF n
<1> QED BY <1>1, <1>2, WorksFacts DEF Records

\* The window p sees of r after a step, spelled out.
LastThen(r, p, x) ==
  LET w == window'[<<r, p>>]
      e == table'[r]
      h == posted'[<<r, p>>]
  IN  /\ x \in DOMAIN e /\ e[x].qp = r
      /\ w.base <= e[x].pa /\ e[x].pa + e[x].size <= w.base + w.length
      /\ \A i \in 1 .. Len(h) : h[i][1] = "vaddr" =>
           h[i][2][3] = x \/ e[h[i][2][3]].pa + e[h[i][2][3]].size <= e[x].pa
SubmitsThen(r, p) == todo'[r] # <<>> /\ Head(todo'[r]).do \in {"advertise", "poll"} /\ Head(todo'[r]).q = p

\* What is to be shown of a window.
LEMMA WindowThen ==
  ASSUME NEW r \in Ranks, NEW p \in Ranks, p # r,
         \/ ~ SubmitsThen(r, p) /\ \A i \in 1 .. Len(posted'[<<r, p>>]) : posted'[<<r, p>>][i][1] # "vaddr"
         \/ \E x : LastThen(r, p, x) /\ (SubmitsThen(r, p) => x = call(r)'.t)
  PROVE  WindowOf(r, p)'
<1>1. CASE ~ SubmitsThen(r, p) /\ \A i \in 1 .. Len(posted'[<<r, p>>]) : posted'[<<r, p>>][i][1] # "vaddr"
  BY <1>1 DEF WindowOf, SubmitsThen, submitting, isSubmit, isAddress, sent
<1>2. ASSUME NEW x, LastThen(r, p, x), SubmitsThen(r, p) => x = call(r)'.t
      PROVE  WindowOf(r, p)'
  <2>1. x \in DOMAIN table'[r]
    BY <1>2 DEF LastThen
  <2>2. LastIs(r, p, x)'
    BY <1>2 DEF LastThen, SubmitsThen, LastIs, own, covers, isAddress, tensorOf, behind, sent, submitting, isSubmit
  <2> QED BY <2>1, <2>2 DEF WindowOf
<1> QED BY <1>1, <1>2

\* While a tensor is registered and advertised for a host, it is the one.
LEMMA WindowAdverts ==
  ASSUME NEW r \in Ranks, NEW p \in Ranks, p # r, Shape, Holds, TodoOf(r), TableOf(r),
         MadeOf(r), FreshOf(r), SealedOf(r, p)', WindowOf(r, p), Works(r),
         \A i \in DOMAIN prog[r] : prog[r][i].op = "alloc" => prog[r][i].size <= RegUnits,
         isAdvert(Head(todo[r])), Head(todo[r]).q = p
  PROVE  LastThen(r, p, call(r).t)
<1> DEFINE s == Head(todo[r])
           x == call(r).t
           w == window[<<r, p>>]
           h == posted'[<<r, p>>]
<1>1. Changes(r) /\ todo[r] # <<>> /\ s.do # "malloc"
  BY WorksMade, WorksFacts DEF isAdvert
<1>2. table'[r] = table[r]
  BY <1>1 DEF Changes
<1>3. own(r, x) /\ \A u \in DOMAIN table[r] : behind(r, u, x)
  BY <1>1 DEF FreshOf
<1>4. table[r][x].pa \in Nat /\ table[r][x].size \in Nat /\ table[r][x].size <= RegUnits
  <2>1. table[r][x].pa \in Nat /\ table[r][x].size \in Nat
    BY <1>3 DEF own, TableOf, MadeOf
  <2>2. PICK i \in 1 .. begun[r] : prog[r][i].op = "alloc" /\ table[r][x].size = prog[r][i].size
    BY <1>3 DEF own, MadeOf
  <2>3. Len(prog[r]) \in Nat /\ DOMAIN prog[r] = 1 .. Len(prog[r])
    BY CallsFacts DEF Shape
  <2>4. begun[r] \in 0 .. Len(prog[r])
    BY DEF TodoOf
  <2>5. i \in DOMAIN prog[r]
    BY <2>3, <2>4
  <2> QED BY <2>1, <2>2, <2>5
<1>5. covers(window'[<<r, p>>], table[r][x].pa, table[r][x].size)
  <2>1. CASE s.do = "register"
    <3>1. s.name = x
      BY <1>1, <2>1, RegisteredTensor
    <3>2. window'[<<r, p>>] = registered(w, table[r][x].pa, table[r][x].size)
      BY <1>1, <2>1, <3>1 DEF Changes
    <3>3. w \in windows
      BY DEF Holds, QPs
    <3> HIDE DEF w, x
    <3> QED BY <1>4, <3>2, <3>3, RegisteredCovers
  <2>2. CASE s.do # "register"
    <3>1. window'[<<r, p>>] = w
      BY <1>1, <2>2 DEF Changes
    <3>2. submitting(r, p)
      BY <1>1, <2>2 DEF submitting, isSubmit, isAdvert
    <3>3. LastIs(r, p, x)
      BY <3>2 DEF WindowOf, LastIs
    <3> QED BY <3>1, <3>3 DEF LastIs
  <2> QED BY <2>1, <2>2
<1>6. ASSUME NEW i \in 1 .. Len(h), h[i][1] = "vaddr"
      PROVE  h[i][2][3] = x \/ table[r][h[i][2][3]].pa + table[r][h[i][2][3]].size <= table[r][x].pa
  <2>1. h[i][2][3] \in DOMAIN table'[r]
    BY <1>6 DEF SealedOf, own, tensorOf, isAddress, sent
  <2> QED BY <1>2, <1>3, <2>1 DEF behind
<1> HIDE DEF x, h
<1>7. x \in DOMAIN table'[r] /\ table'[r][x].qp = r
  BY <1>2, <1>3 DEF own
<1>8. /\ window'[<<r, p>>].base <= table'[r][x].pa
      /\ table'[r][x].pa + table'[r][x].size <= window'[<<r, p>>].base + window'[<<r, p>>].length
  BY <1>2, <1>5 DEF covers
<1> QED BY <1>2, <1>6, <1>7, <1>8 DEF LastThen, x, h

\* What is registered or advertised for another host does not change the window.
LEMMA WindowQuiet ==
  ASSUME NEW r \in Ranks, NEW p \in Ranks, p # r, Keeps(r), SealedOf(r, p),
         window'[<<r, p>>] = window[<<r, p>>],
         \A i \in 1 .. Len(posted'[<<r, p>>]) : posted'[<<r, p>>][i][1] = "vaddr" =>
           i \in 1 .. sent(r, p) /\ posted'[<<r, p>>][i] = posted[<<r, p>>][i],
         WindowOf(r, p)
  PROVE  \/ \A i \in 1 .. Len(posted'[<<r, p>>]) : posted'[<<r, p>>][i][1] # "vaddr"
         \/ \E x : LastThen(r, p, x)
<1> DEFINE h == posted[<<r, p>>]
           g == posted'[<<r, p>>]
           w == window[<<r, p>>]
<1>1. CASE \A i \in 1 .. sent(r, p) : ~ isAddress(r, p, i)
  BY <1>1 DEF isAddress
<1>2. ASSUME NEW x \in DOMAIN table[r], LastIs(r, p, x)
      PROVE  LastThen(r, p, x)
  <2>1. \A t \in DOMAIN table[r] : t \in DOMAIN table'[r] /\ table'[r][t] = table[r][t]
    BY DEF Keeps
  <2>2. x \in DOMAIN table'[r] /\ table'[r][x] = table[r][x] /\ table'[r][x].qp = r
    BY <1>2, <2>1 DEF LastIs, own
  <2>3. w.base <= table'[r][x].pa /\ table'[r][x].pa + table'[r][x].size <= w.base + w.length
    BY <1>2, <2>2 DEF LastIs, covers
  <2>4. ASSUME NEW i \in 1 .. Len(g), g[i][1] = "vaddr"
        PROVE  LET t == g[i][2][3] IN t = x \/ table'[r][t].pa + table'[r][t].size <= table'[r][x].pa
    <3>1. i \in 1 .. sent(r, p) /\ g[i] = h[i] /\ isAddress(r, p, i)
      BY <2>4 DEF isAddress
    <3>2. own(r, tensorOf(r, p, i)) /\ behind(r, tensorOf(r, p, i), x)
      BY <1>2, <3>1 DEF LastIs, SealedOf
    <3> DEFINE t == tensorOf(r, p, i)
    <3>3. g[i][2][3] = t
      BY <3>1 DEF tensorOf
    <3>4. table'[r][t] = table[r][t]
      BY <2>1, <3>2 DEF own
    <3> QED BY <2>2, <3>2, <3>3, <3>4 DEF behind
  <2> QED BY <2>2, <2>3, <2>4 DEF LastThen
<1> QED BY <1>1, <1>2 DEF WindowOf

\* A step of a call keeps the tensor registered last for a host in its window.
LEMMA WindowWorks ==
  ASSUME NEW r \in Ranks, NEW p \in Ranks, p # r, Shape, Holds, TodoOf(r), TableOf(r),
         MadeOf(r), FreshOf(r), SealedOf(r, p), SealedOf(r, p)', WindowOf(r, p), Works(r), Keeps(r),
         \A i \in DOMAIN prog[r] : prog[r][i].op = "alloc" => prog[r][i].size <= RegUnits
  PROVE  WindowOf(r, p)'
<1> DEFINE s == Head(todo[r])
<1>1. call(r)' = call(r)
  BY WorksTodo
<1>2. CASE isAdvert(s) /\ s.q = p
  <2>1. LastThen(r, p, call(r).t)
    BY <1>2, WindowAdverts
  <2> QED BY <1>1, <2>1, WindowThen
<1>3. CASE ~ (isAdvert(s) /\ s.q = p)
  <2>1. ~ SubmitsThen(r, p)
    <3> SUFFICES ASSUME SubmitsThen(r, p)
                 PROVE  FALSE
      OBVIOUS
    <3> DEFINE c == call(r)
               u == Head(todo'[r])
               n == stepCount(r, c)
    <3>1. PICK k : AtCall(r, k) /\ todo'[r] = remaining(r, c, k)
      BY WorksTodo
    <3>2. isCall(r, c) /\ k \in 1 .. n /\ n \in Nat /\ s = stepAt(r, c, k)
      BY <3>1 DEF AtCall
    <3>3. k \in 0 .. n /\ k + 1 \in 1 .. n /\ (k + 1) - 1 = k /\ u = stepAt(r, c, k + 1)
      <4>1. k \in 0 .. n
        BY <3>2
      <4>2. k # n /\ u = stepAt(r, c, k + 1)
        BY <3>1, <3>2, <4>1, RemainingFacts DEF SubmitsThen
      <4> QED BY <3>2, <4>2
    <3>4. isAllocStep(r, c, k + 1)
      BY <3>2, <3>3, AllocSteps
    <3>5. isSubmit(u) /\ u.q = p
      BY DEF SubmitsThen, isSubmit
    <3> HIDE DEF c, u, n, s
    <3>6. isAdvert(s) /\ s.q = p
      BY <3>2, <3>3, <3>4, <3>5 DEF isAllocStep
    <3> QED BY <1>3, <3>6
  <2>2. window'[<<r, p>>] = window[<<r, p>>]
    <3>1. Changes(r)
      BY WorksMade
    <3> QED BY <1>3, <3>1 DEF Changes, isAdvert
  <2>3. \A i \in 1 .. Len(posted'[<<r, p>>]) : posted'[<<r, p>>][i][1] = "vaddr" =>
          i \in 1 .. sent(r, p) /\ posted'[<<r, p>>][i] = posted[<<r, p>>][i]
    BY <1>3, NoNewAddress
  <2>4. \/ \A i \in 1 .. Len(posted'[<<r, p>>]) : posted'[<<r, p>>][i][1] # "vaddr"
        \/ \E x : LastThen(r, p, x)
    BY <2>2, <2>3, WindowQuiet
  <2> QED BY <1>1, <2>1, <2>4, WindowThen
<1> QED BY <1>2, <1>3

\* No step makes an address or a window wrong.
LEMMA AddressStep ==
  ASSUME Shape, Base, TensorInv, AddressInv, TensorInv', TakenInv', [Next]_vars, Regular',
         NEW r \in Ranks, NEW q \in Ranks, r # q
  PROVE  GotOf(r, q)' /\ RemoteOf(r, q)' /\ WindowOf(r, q)'
<1>0. /\ Holds /\ TodoInv /\ TodoOf(r) /\ TableOf(r) /\ MadeOf(r) /\ FreshOf(r) /\ HistoryOf(r, q)
      /\ SealedOf(r, q) /\ SealedOf(q, r) /\ GotOf(r, q) /\ RemoteOf(r, q) /\ WindowOf(r, q)
  BY DEF TensorInv, Base, TodoInv, TableInv, HistoryInv, AddressInv
<1>1. SealedOf(r, q)' /\ TakenOf(r, q)'
  BY DEF TensorInv, TakenInv
<1>2. Keeps(r) /\ Keeps(q)
  BY TensorStep
<1>3. Grown(posted[<<q, r>>], posted'[<<q, r>>])
  BY Grow
<1>4. sent(q, r) \in Nat /\ sent(q, r)' \in Nat
  BY RegularFacts
<1>5. \A i \in DOMAIN prog[r] : prog[r][i].op = "alloc" => prog[r][i].size <= RegUnits
  BY RegularFacts DEF Regular
<1>6. CASE Still(r)
  <2>1. table'[r] = table[r] /\ todo'[r] = todo[r] /\ got'[r] = got[r]
    BY <1>6 DEF Still
  <2>2. GotOf(r, q)' /\ RemoteOf(r, q)'
    BY <1>0, <1>2, <1>3, <1>4, <2>1, AddressKept
  <2> QED BY <1>0, <1>6, <2>2, StillKept
<1>7. CASE Works(r)
  <2>1. GotOf(r, q)'
    BY <1>0, <1>1, <1>7, GotWorks
  <2>2. RemoteOf(r, q)'
    BY <1>0, <1>2, <1>3, <1>4, <1>7, RemoteWorks
  <2>3. WindowOf(r, q)'
    BY <1>0, <1>1, <1>2, <1>5, <1>7, WindowWorks
  <2> QED BY <2>1, <2>2, <2>3
<1>8. CASE Begin(r)
  <2>1. table' = table /\ got' = got /\ window' = window /\ posted' = posted
    BY <1>8 DEF Begin, mem
  <2>2. todo'[r] # <<>> => ~ isSubmit(Head(todo'[r])) /\ (Head(todo'[r]).do = "malloc" => Head(todo'[r]).q = r)
    BY <1>0, <1>8, BeginHead
  <2>3. GotOf(r, q)'
    BY <2>2 DEF GotOf
  <2>4. RemoteOf(r, q)'
    BY <1>0, <1>2, <1>3, <1>4, <2>1, AddressKept
  <2>5. ~ SubmitsThen(r, q)
    BY <2>2 DEF SubmitsThen, isSubmit
  <2>6. \A i \in 1 .. Len(posted'[<<r, q>>]) : posted'[<<r, q>>][i][1] = "vaddr" =>
          i \in 1 .. sent(r, q) /\ posted'[<<r, q>>][i] = posted[<<r, q>>][i]
    BY <2>1 DEF sent
  <2>7. \/ \A i \in 1 .. Len(posted'[<<r, q>>]) : posted'[<<r, q>>][i][1] # "vaddr"
        \/ \E x : LastThen(r, q, x)
    BY <1>0, <1>2, <2>1, <2>6, WindowQuiet
  <2>8. WindowOf(r, q)'
    BY <2>5, <2>7, WindowThen
  <2> QED BY <2>3, <2>4, <2>8
<1> QED BY <1>0, <1>6, <1>7, <1>8, WhoActs DEF Host, Works

\* The first state: nothing is known.
LEMMA InitReach ==
  ASSUME Init
  PROVE  ReachInv
<1>0. /\ begun = [r \in Ranks |-> 0] /\ todo = [r \in Ranks |-> <<>>] /\ table = [r \in Ranks |-> <<>>]
      /\ got = [r \in Ranks |-> [rkey |-> <<>>, vaddr |-> <<>>]]
      /\ window = [qp \in QPs |-> [base |-> 0, size |-> 0, length |-> 0]]
      /\ posted = [qp \in QPs |-> <<>>]
  BY DEF Init
<1>1. Holds
  BY <1>0 DEF Holds, windows
<1>2. \A r \in Ranks : todo[r] = <<>> /\ DOMAIN table[r] = {}
  BY <1>0
<1>3. \A r \in Ranks : MadeOf(r) /\ FreshOf(r)
  BY <1>2 DEF MadeOf, FreshOf
<1>4. ASSUME NEW r \in Ranks, NEW q \in Ranks, r # q
      PROVE  SealedOf(r, q) /\ GotOf(r, q) /\ RemoteOf(r, q) /\ WindowOf(r, q)
  <2>1. posted[<<r, q>>] = <<>>
    BY <1>0, <1>4 DEF QPs
  <2>2. sent(r, q) = 0
    BY <2>1 DEF sent
  <2>3. \A i \in 1 .. sent(r, q) : FALSE
    BY <2>2
  <2>4. SealedOf(r, q)
    BY <2>3 DEF SealedOf
  <2>5. GotOf(r, q) /\ RemoteOf(r, q)
    BY <1>2 DEF GotOf, RemoteOf
  <2>6. WindowOf(r, q)
    BY <1>2, <2>3 DEF WindowOf, submitting
  <2> QED BY <2>4, <2>5, <2>6
<1> QED BY <1>1, <1>3, <1>4 DEF ReachInv, TensorInv, AddressInv

\* What the hosts know of one another's tensors is inductive given what they take.
LEMMA ReachInductive == Spec => [](RInv /\ ReachInv)
<1>1. Init => ReachInv
  BY InitReach
<1>2. RInv /\ RInv' /\ ReachInv /\ [Next]_vars => ReachInv'
  <2> SUFFICES ASSUME RInv, RInv', ReachInv, [Next]_vars
               PROVE  ReachInv'
    OBVIOUS
  <2>1. Shape /\ Base /\ TensorInv
    BY DEF RInv, ReachInv
  <2>2. TensorInv'
    BY <2>1, TensorStep
  <2>3. ASSUME Regular'
        PROVE  AddressInv'
    <3>1. Regular
      BY <2>1, <2>3, RegularFacts
    <3>2. AddressInv /\ TakenInv'
      BY <2>3, <3>1 DEF RInv, ReachInv
    <3>3. \A r, q \in Ranks : r # q => GotOf(r, q)' /\ RemoteOf(r, q)' /\ WindowOf(r, q)'
      BY <2>1, <2>2, <2>3, <3>2, AddressStep
    <3> QED BY <3>3 DEF AddressInv
  <2> QED BY <2>2, <2>3 DEF ReachInv
<1> QED BY <1>1, <1>2, RdmaInductive, PTL DEF Spec

\* For any number of hosts, any programs whose calls match and any sizes: the
\* address a host holds for a tensor of another is the one the owner allocated, and
\* the window that the owner opened last to it has the tensor.
THEOREM RdmaReachable == Spec => []Reachable
<1>1. RInv /\ ReachInv => Reachable
  <2> SUFFICES ASSUME RInv, ReachInv, Regular, NEW r \in Ranks, NEW q \in Ranks, r # q
               PROVE  /\ \A t \in DOMAIN table[r] : table[r][t].qp = q =>
                           table[r][t].vaddr = <<"vaddr", q, t, table[q][t].pa>>
                      /\ \A t \in LastFrom(r, q) :
                           LET w == window[<<q, r>>]
                               o == table[q][t]
                           IN  (\A u \in DOMAIN table[q] : table[q][u].qp = q => table[q][u].pa <= o.pa) =>
                                 w.base <= o.pa /\ o.pa + o.size <= w.base + w.length
    BY DEF Reachable
  <2>0. /\ TableOf(q) /\ MadeOf(q) /\ SealedOf(q, r) /\ RemoteOf(r, q) /\ WindowOf(q, r) /\ Holds
    BY DEF RInv, ReachInv, Base, TableInv, TensorInv, AddressInv
  <2>1. \A t \in DOMAIN table[r] : table[r][t].qp = q => Known(r, q, t, table[r][t].vaddr)
    BY <2>0 DEF RemoteOf
  <2>2. ASSUME NEW t \in DOMAIN table[r], table[r][t].qp = q,
               \A u \in DOMAIN table[q] : table[q][u].qp = q => table[q][u].pa <= table[q][t].pa
        PROVE  covers(window[<<q, r>>], table[q][t].pa, table[q][t].size)
    <3>1. own(q, t) /\ table[r][t].vaddr = address(q, t)
      BY <2>1, <2>2 DEF Known
    <3>2. PICK i \in 1 .. sent(q, r) : isAddress(q, r, i) /\ posted[<<q, r>>][i][2] = address(q, t)
      BY <2>1, <2>2, <3>1 DEF Known
    <3>3. tensorOf(q, r, i) = t
      BY <3>2 DEF tensorOf, address
    <3>4. PICK x \in DOMAIN table[q] : LastIs(q, r, x)
      BY <2>0, <3>2 DEF WindowOf
    <3>5. /\ own(q, x) /\ behind(q, t, x)
          /\ covers(window[<<q, r>>], table[q][x].pa, table[q][x].size)
      BY <3>2, <3>3, <3>4 DEF LastIs
    <3>6. CASE t = x
      BY <3>5, <3>6
    <3>7. CASE t # x
      <4>1. table[q][t].pa + table[q][t].size <= table[q][x].pa /\ table[q][x].pa <= table[q][t].pa
        BY <2>2, <3>5, <3>7 DEF behind, own
      <4>2. /\ table[q][t].pa \in Nat /\ table[q][t].size \in Nat
            /\ table[q][x].pa \in Nat /\ table[q][x].size \in Nat
        BY <2>0, <3>1, <3>5 DEF own, TableOf, MadeOf
      <4>3. table[q][t].pa = table[q][x].pa /\ table[q][t].size = 0
        BY <4>1, <4>2
      <4>4. window[<<q, r>>].base \in Nat /\ window[<<q, r>>].length \in Nat
        <5>1. window[<<q, r>>] \in windows
          BY <2>0 DEF Holds, QPs
        <5> QED BY <5>1 DEF windows
      <4> DEFINE w == window[<<q, r>>]
                 a == table[q][x].pa
                 b == table[q][x].size
      <4>5. w.base <= a /\ a + b <= w.base + w.length
        BY <3>5 DEF covers
      <4>6. a + 0 <= w.base + w.length
        BY <4>2, <4>4, <4>5
      <4> QED BY <4>3, <4>5, <4>6 DEF covers
    <3> QED BY <3>6, <3>7
  <2>3. \A t \in DOMAIN table[r] : table[r][t].qp = q => table[r][t].vaddr = <<"vaddr", q, t, table[q][t].pa>>
    BY <2>1 DEF Known, address
  <2> QED BY <2>2, <2>3 DEF LastFrom, covers
<1> QED BY <1>1, ReachInductive, PTL
=============================================================================
