----------------------------- MODULE CopyPathMC -----------------------------
(***************************************************************************)
(* Copies of one to four dimensions with views of all kinds between all    *)
(* pairs of memories, and packets of clients, for TLC.                     *)
(***************************************************************************)
EXTENDS CopyPath, Bitwise

orBits(m, n) == m | n

D(offset, size, step) == [offset |-> offset, size |-> size, step |-> step]

\* Buffers with a view each. Two views are larger than the mapping, one has an
\* innermost step that is not one.
Viewed ==
  {<<<<4>>, <<D(1, 2, 1)>>>>,
   <<<<4>>, <<D(0, 2, 2)>>>>,
   <<<<5, 3>>, <<D(1, 2, 2), D(1, 2, 1)>>>>,
   <<<<3, 3>>, <<D(0, 2, 1), D(0, 3, 1)>>>>,
   <<<<2, 3, 2>>, <<D(0, 2, 1), D(1, 2, 1), D(1, 1, 1)>>>>,
   <<<<3, 2, 4>>, <<D(0, 2, 2), D(0, 2, 1), D(2, 2, 1)>>>>,
   <<<<2, 2, 2, 3>>, <<D(1, 1, 1), D(0, 2, 1), D(0, 2, 1), D(1, 2, 1)>>>>,
   <<<<3, 2, 3, 2>>, <<D(0, 2, 2), D(1, 1, 1), D(1, 2, 1), D(0, 2, 1)>>>>,
   <<<<4, 4>>, <<D(0, 3, 1), D(0, 3, 1)>>>>,
   <<<<5, 4>>, <<D(0, 5, 1), D(0, 4, 1)>>>>,
   <<<<2, 2>>, <<>>>>}

\* The other side: the whole buffer, or a view of its own.
Side(space, v) == [space |-> space, shape |-> v[1], view |-> v[2]]
Sizes(v) == IF v[2] = <<>> THEN v[1] ELSE [k \in DOMAIN v[2] |-> v[2][k].size]
Whole(space, v) == [space |-> space, shape |-> Sizes(v), view |-> <<>>]

\* The view is on the side that is further out; rank is that of the type.
Program ==
  {[kind |-> k,
    src |-> IF p[1] <= p[2] THEN Side(p[1], v) ELSE Whole(p[1], v),
    dst |-> IF p[1] <= p[2] THEN Whole(p[2], v) ELSE Side(p[2], v),
    rank |-> Len(v[1]) - r, herd |-> h] :
     k \in {"memref.copy", "linalg.copy"}, p \in (0 .. 2) \X (0 .. 2), v \in Viewed,
     r \in {0, 1}, h \in BOOLEAN}

Packet(l4, l3, l2, s4, s3, s2) ==
  [kind |-> "nd",
   request |-> [length_2d |-> l2, stride_2d |-> s2, length_3d |-> l3, stride_3d |-> s3,
                length_4d |-> l4, stride_4d |-> s4]]

\* All shapes of up to six rows, and fields that need more than 16 bits.
Packets ==
  {p \in {Packet(l4, l3, l2, s[1], s[2], s[3]) :
            l4 \in Lengths, l3 \in Lengths, l2 \in Lengths,
            s \in {<<5, 1, 1>>, <<1, 5, 1>>, <<1, 1, 5>>, <<7, 5, 1>>}} :
     p.request.length_4d * p.request.length_3d * p.request.length_2d <= 6}
  \cup {Packet(2, 1, 1, 1, 65536 + 5, 1), Packet(1, 2, 1, 5, 1, 65536 + 1),
        Packet(1, 1, 65536 + 2, 1, 1, 4)}

\* CDMA packets in both directions.
CdmaPackets == {[kind |-> "cdma", toL2 |-> t, words |-> w] : t \in BOOLEAN, w \in 1 .. 4}

\* A type drops a dimension of its view only where the view's size is one.
MCCopies ==
  {c \in Program :
     c.rank = Len(outer(c).shape) \/ \E k \in DOMAIN outer(c).view : outer(c).view[k].size = 1}
  \cup Packets \cup CdmaPackets
=============================================================================
