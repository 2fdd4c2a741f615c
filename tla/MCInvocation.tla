---------------------------- MODULE MCInvocation ----------------------------
(* A small instance of Invocation for TLC. *)
EXTENDS Invocation

CONSTANTS i1, i2, w1, w2

TwoInvocations == {i1, i2}
TwoWorkers == {w1, w2}

\* The workers are interchangeable, so that w1 may be the one that runs i1.
MCInit == CallsInit /\ runner[i1] = w1

MCSpec == MCInit /\ [][CallsNext]_callsVars
MCFairSpec == MCSpec /\ Fairness
=============================================================================
