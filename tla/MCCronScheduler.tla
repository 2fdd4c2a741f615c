-------------------------- MODULE MCCronScheduler ---------------------------
(* Small instances of CronScheduler for TLC. *)
EXTENDS CronScheduler

CONSTANTS e1, e2, s1, s2, s3, b1, b2, j1, j2

OneEngine == {e1}
TwoEngines == {e1, e2}
TwoSchedulers == {s1, s2}
ThreeSchedulers == {s1, s2, s3}
OneBackend == {b1}
TwoBackends == {b1, b2}
OneJob == {j1}
TwoJobs == {j1, j2}
FirstOfOne == [e \in {e1} |-> s1]
FirstOfTwo == [e \in {e1, e2} |-> IF e = e1 THEN s1 ELSE s2]
=============================================================================
