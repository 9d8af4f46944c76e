---------------------------- MODULE MCCostEngine ----------------------------
(* Instances of CostEngine for TLC: GPUs of a model that a cheap and a dear  *)
(* entry match.                                                              *)
EXTENDS CostEngine, TLC
CONSTANTS o1, o2, g1, cheap, dear, w1, w2, h1

TwoOrgs    == {o1, o2}
OneOrg     == {o1}
OneGpu     == {g1}
TwoEntries == {cheap, dear}
OneEntry   == {dear}
Rates      == [e \in Entries |-> IF e = dear THEN 2 ELSE 1]
MatchAll   == [e \in Entries |-> Gpus]
TwoWorkers == {w1, w2}
OneWorker  == {w1}
OneHandler == {h1}

Symmetry == Permutations(TwoOrgs) \cup Permutations(TwoWorkers)
=============================================================================
