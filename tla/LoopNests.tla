----------------------------- MODULE LoopNests -----------------------------
(***************************************************************************)
(* Loop nests and what they execute.                                       *)
(*                                                                         *)
(* A nest has its loops from the outside in and the values uses that the   *)
(* statement in the innermost body takes.  A loop is a record              *)
(*   iv           its induction variable                                   *)
(*   kind         for (affine.for), scf or affine (a dimension of such a   *)
(*                parallel op), herd, launch or partition                  *)
(*   op           the op: the dimensions of one op are adjacent loops      *)
(*   label        affine_opt_label, "none" if it has not got one           *)
(*   lb, ub, step the bounds: ub is a set, of which the least counts       *)
(*   ops          the affine.apply ops and constants its body begins with  *)
(* A linear form is [c, t]: a constant and the coefficients of names.  An  *)
(* op gives its name the value (lin \div div) % mod (mod 0: no modulus).   *)
(***************************************************************************)
EXTENDS Integers, Sequences, FiniteSets, FiniteSetsExt, SequencesExt, TLC

Num(k) == [c |-> k, t |-> <<>>]
Var(n) == [c |-> 0, t |-> n :> 1]
Coef(l, n) == IF n \in DOMAIN l.t THEN l.t[n] ELSE 0
\* a + k * b
AddTimes(a, k, b) ==
  LET co(n) == Coef(a, n) + k * Coef(b, n)
      ns    == {n \in DOMAIN a.t \cup DOMAIN b.t : co(n) # 0}
  IN  [c |-> a.c + k * b.c, t |-> [n \in ns |-> co(n)]]
Substitute(l, n, m) == AddTimes(AddTimes(l, -Coef(l, n), Var(n)), Coef(l, n), m)
IsNum(l) == DOMAIN l.t = {}

CeilDiv(a, b) == -((-a) \div b)
Upper(l) == [lin |-> l, div |-> 1]
ConstantBounds(l) == IsNum(l.lb) /\ \A u \in l.ub : IsNum(u.lin)
\* The constant upper bound of a loop.
UpperBound(l) == Min({CeilDiv(u.lin.c, u.div) : u \in l.ub})
Apply(n, l) == [name |-> n, lin |-> l, div |-> 1, mod |-> 0]

\* A name replaced in a loop and in the values of the statement.
RenameLin(l, n, m) == Substitute(l, n, Var(m))
RenameOp(o, n, m) == [o EXCEPT !.lin = RenameLin(@, n, m)]
RenameOps(ops, n, m) == [i \in DOMAIN ops |-> RenameOp(ops[i], n, m)]
RenameLoop(l, n, m) ==
  [l EXCEPT !.lb = RenameLin(@, n, m),
            !.ub = {[u EXCEPT !.lin = RenameLin(@, n, m)] : u \in @},
            !.ops = RenameOps(@, n, m)]
RenameUses(uses, n, m) == [i \in DOMAIN uses |-> IF uses[i] = n THEN m ELSE uses[i]]

-----------------------------------------------------------------------------
\* What the memrefs that are defined outside of the nests stand for.
Globals == ("A" :> 90) @@ ("B" :> 91)
Undefined == -1

Defined(l, env) == DOMAIN l.t \subseteq DOMAIN env
ValueOf(l, env) ==
  IF Defined(l, env)
  THEN l.c + FoldSet(LAMBDA n, s : s + l.t[n] * env[n], 0, DOMAIN l.t)
  ELSE Undefined
OpValue(o, env) ==
  LET v == ValueOf(o.lin, env) \div o.div
  IN  IF ~Defined(o.lin, env) THEN Undefined ELSE IF o.mod = 0 THEN v ELSE v % o.mod

WithOps(ops, env) == FoldLeft(LAMBDA e, o : (o.name :> OpValue(o, e)) @@ e, env, ops)

\* The statement's values in every instance of it, in order.  A use of a name
\* that is not defined where it is used makes an undefined value.
RECURSIVE Instances(_, _, _)
Instances(loops, uses, env) ==
  IF loops = <<>>
  THEN << [i \in DOMAIN uses |-> IF uses[i] \in DOMAIN env THEN env[uses[i]] ELSE Undefined] >>
  ELSE LET l  == Head(loops)
           lb == ValueOf(l.lb, env)
           ub == Min({CeilDiv(ValueOf(u.lin, env), u.div) : u \in l.ub})
           trips == IF ub > lb THEN CeilDiv(ub - lb, l.step) ELSE 0
           body(k) == Instances(Tail(loops), uses,
                                WithOps(l.ops, (l.iv :> lb + (k - 1) * l.step) @@ env))
       IN  IF Defined(l.lb, env) /\ \A u \in l.ub : Defined(u.lin, env)
           THEN FlattenSeq([k \in 1..trips |-> body(k)])
           ELSE << [i \in DOMAIN uses |-> Undefined] >>

Executed(nest) == Instances(nest.loops, nest.uses, Globals)
AsBag(s) == [x \in ToSet(s) |-> Cardinality({i \in DOMAIN s : s[i] = x})]
=============================================================================
