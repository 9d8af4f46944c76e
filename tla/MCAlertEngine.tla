--------------------------- MODULE MCAlertEngine ----------------------------
(* Instances of AlertEngine for TLC.                                         *)
EXTENDS AlertEngine
CONSTANTS r1, r2, e1, e2, w1, w2, o1

OneRule     == {r1}
TwoRules    == {r1, r2}
TwoEvents   == {e1, e2}
OneWorker   == {w1}
TwoWorkers  == {w1, w2}
OneOperator == {o1}
NobodyElse  == {}
=============================================================================
