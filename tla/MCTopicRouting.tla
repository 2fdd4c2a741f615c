--------------------------- MODULE MCTopicRouting ---------------------------
(* A small instance of TopicRouting for TLC: two triggers of one function. *)
EXTENDS TopicRouting, TLC

CONSTANTS w1, w2, w3, a, b, h1, h2, h3, h4, f, t

TwoWorkers == {w1, w2}
ThreeWorkers == {w1, w2, w3}
TwoTriggers == {a, b}
ThreeHandles == {h1, h2, h3}
FourHandles == {h1, h2, h3, h4}
OneRoute == {f}
OneFunction == [id \in {a, b} |-> f]
OneTopic == {t}
TopicOfRoute == [r \in {f} |-> t]

Symmetry == Permutations(Workers) \cup Permutations(Handles) \cup Permutations(Ids)
=============================================================================
