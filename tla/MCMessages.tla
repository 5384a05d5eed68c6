----------------------------- MODULE MCMessages -----------------------------
(* PluginMessages with manifests of at most two lines.    int wraps at 2^16, *)
(* so that a point of 700 does not fit.                                      *)
EXTENDS PluginMessages

L(file, p, a) == [file |-> file, point |-> p, anchor |-> a]

SomeLines ==
    {Invalid, L("a", 6, 0), L("b", 6, 2), L("b", 1, 100), L("a", 1, -1),
     L("a", 0, 0), L("a", 700, 1), L("b", 327, 67)}

Pairs     == {<<L("a", 6, 0), L("b", 6, 2)>>, <<L("b", 1, 100), L("a", 6, 0)>>,
              <<Invalid, L("a", 6, 0)>>, <<L("b", 6, 2), L("a", 0, 0)>>}
UpToTwo   == {<<>>} \cup {<<l>> : l \in SomeLines} \cup Pairs
OneLine   == {<<L("a", 6, 0)>>}
Measures  == {[type |-> 6, data |-> "x"], [type |-> 9, data |-> NoData]}
=============================================================================
