------------------------ MODULE MCFunctionOwnership ------------------------
(* A small instance of FunctionOwnership for TLC. *)
EXTENDS FunctionOwnership, TLC

CONSTANTS w1, w2, f1, f2, s1

TwoWorkers == {w1, w2}
TwoFunctions == {f1, f2}
OneService == {s1}
SameService == [f \in Functions |-> s1]

\* A bound on what connections send: one of the functions is only registered as
\* a regular one.
SecondIsRegular == \A w \in Workers : task'[w].f = f2 => task'[w].kind = "regular"
MCSpec == Init /\ [][Next /\ SecondIsRegular]_vars

Symmetry == Permutations(Workers)
=============================================================================
