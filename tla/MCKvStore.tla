----------------------------- MODULE MCKvStore -----------------------------
(* Small instances of KvStore for TLC. *)
EXTENDS KvStore

CONSTANTS i1, k1, k2, v1, v2, c1, c2, l1, l2

OneIndex == {i1}
TwoKeys == {k1, k2}
OneKey == {k1}
OneValue == {v1}
TwoValues == {v1, v2}
TwoWriters == {c1, c2}
TwoLoops == {l1, l2}
\* The loops are interchangeable, so that l1 may be the first.
MCInit == Init /\ newest = l1
MCSpec == MCInit /\ [][Next]_vars
MCFairSpec == MCSpec /\ Fairness
=============================================================================
