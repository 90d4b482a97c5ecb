---------------------------- MODULE LoopPassesMC ----------------------------
(***************************************************************************)
(* Small functions for the loop passes: nests of affine.for with one and   *)
(* two labels, bounds that are not normal, ops between the loops, and      *)
(* parallel nests of one to three dimensions.                              *)
(***************************************************************************)
EXTENDS ParallelPasses

Loop(iv, kind, op, label, lb, ub, step, ops) ==
  [iv |-> iv, kind |-> kind, op |-> op, label |-> label,
   lb |-> Num(lb), ub |-> {Upper(Num(ub))}, step |-> step, ops |-> ops]
For(iv, label, lb, ub, step) == Loop(iv, "for", iv, label, lb, ub, step, <<>>)
Par(iv, op, lb, ub, step) == Loop(iv, "scf", op, "none", lb, ub, step, <<>>)
Aff(iv, op, lb, ub, step) == Loop(iv, "affine", op, "none", lb, ub, step, <<>>)
Nest(loops, uses) == [loops |-> loops, uses |-> uses]
With(l, ops) == [l EXCEPT !.ops = ops]

ij == Apply("ij", AddTimes(Var("j"), 3, Var("i")))
two == Apply("two", Num(2))
ij2 == Apply("ij2", AddTimes(Var("two"), 1, Var("ij")))

Fns ==
  { \* normal nests
    <<Nest(<<For("i", "a", 0, 4, 1)>>, <<"i", "A">>)>>,
    <<Nest(<<For("i", "a", 0, 2, 1), For("j", "none", 0, 6, 1)>>, <<"i", "j">>)>>,
    <<Nest(<<For("i", "a", 0, 2, 1), For("j", "none", 0, 3, 1), For("k", "none", 0, 2, 1)>>, <<"k", "i", "j">>)>>,
    <<Nest(<<For("i", "none", 0, 2, 1), For("j", "a", 0, 3, 1), For("k", "none", 0, 4, 1)>>, <<"i", "j", "k">>)>>,
    <<Nest(<<For("i", "a", 0, 2, 1), For("j", "none", 0, 2, 1), For("k", "none", 0, 3, 1),
             For("l", "none", 0, 2, 1)>>, <<"i", "j", "k", "l">>)>>,
    \* not normal
    <<Nest(<<For("i", "a", 1, 6, 2), For("j", "none", 0, 2, 1)>>, <<"i", "j">>)>>,
    <<Nest(<<For("i", "a", 0, 3, 1), For("j", "none", 2, 7, 2)>>, <<"j", "i">>)>>,
    \* not perfect
    <<Nest(<<For("i", "a", 0, 2, 1), With(For("j", "none", 0, 3, 1), <<ij>>), For("k", "none", 0, 2, 1)>>,
           <<"ij", "k">>)>>,
    <<Nest(<<With(For("i", "a", 0, 2, 1), <<two>>), With(For("j", "none", 0, 3, 1), <<ij>>),
             For("k", "none", 0, 2, 1)>>, <<"ij", "two", "k">>)>>,
    <<Nest(<<For("i", "a", 0, 2, 1), With(For("j", "none", 0, 3, 1), <<two, ij, ij2>>), For("k", "none", 0, 2, 1)>>,
           <<"ij2", "k">>)>>,
    \* two nests
    <<Nest(<<For("i", "a", 0, 4, 1)>>, <<"i">>), Nest(<<For("j", "b", 0, 6, 1)>>, <<"j">>)>>,
    <<Nest(<<For("i", "a", 0, 2, 1)>>, <<"i">>), Nest(<<For("j", "a", 0, 4, 1)>>, <<"j", "B">>)>>,
    \* parallel nests
    <<Nest(<<Par("i", "p", 0, 3, 1)>>, <<"i", "A">>)>>,
    <<Nest(<<Par("i", "p", 1, 5, 2), Par("j", "p", 2, 4, 1)>>, <<"i", "j", "B", "A">>)>>,
    <<Nest(<<Par("i", "p", 0, 5, 2), Par("j", "p", 0, 2, 1)>>, <<"i", "j">>)>>,
    <<Nest(<<Par("i", "p", 2, 4, 1), Par("j", "p", 0, 2, 1), Par("k", "p", 1, 7, 3)>>, <<"k", "j", "i">>)>>,
    <<Nest(<<Par("i", "p", 0, 4, 2), Par("j", "p", 1, 3, 1), With(Par("k", "q", 0, 2, 1), <<ij>>),
             Par("l", "q", 1, 3, 1)>>, <<"ij", "k", "l", "A">>)>>,
    <<Nest(<<Aff("i", "p", 1, 5, 2), Aff("j", "p", 0, 2, 1)>>, <<"j", "i">>)>>,
    <<Nest(<<Par("i", "p", 0, 4, 2), Par("j", "p", 0, 2, 1), Aff("k", "q", 0, 2, 1), Aff("l", "q", 2, 6, 2)>>,
           <<"i", "j", "k", "l">>)>>,
    <<Nest(<<Aff("i", "p", 0, 2, 1), Aff("j", "p", 0, 2, 1), Aff("k", "p", 0, 2, 1)>>, <<"i", "j", "k">>)>>,
    <<Nest(<<Par("i", "p", 0, 2, 1), Par("j", "q", 1, 3, 1), Loop("h", "herd", "herd_0", "none", 0, 2, 1, <<>>),
             Loop("g", "herd", "herd_0", "none", 0, 1, 1, <<>>)>>, <<"i", "j", "h", "g">>)>> }

Orders2and3 == {<<1, 2>>, <<2, 1>>, <<1, 3, 2>>, <<2, 3, 1>>, <<3, 2, 1>>}
Merges == {<<0>>, <<0, 1>>, <<1, 2>>, <<0, 2>>, <<0, 1, 2>>, <<0, 1, 2, 3>>}
Sizes == {<<2>>, <<2, 3>>}
AllDepths == {-1, 0, 1}
LabelOptions == {"", "a"}
Posts == {"", "c"}
=============================================================================
