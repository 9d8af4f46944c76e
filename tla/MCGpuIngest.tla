---------------------------- MODULE MCGpuIngest -----------------------------
(* Instances of GpuIngest for TLC.                                           *)
EXTENDS GpuIngest
CONSTANTS h1, h2, east, nodeA, g1, g2

TwoHandlers == {h1, h2}
OneHandler  == {h1}
OneCluster  == {east}
OneHost     == {nodeA}
TwoGpus     == {g1, g2}

Report(c, x, gs) == [cluster |-> c, host |-> x, gpus |-> gs]

(* A node whose second GPU moves up when the first one is missing, and an    *)
(* agent that found no GPU at all.                                           *)
ShrinkingReports == {Report(east, nodeA, <<g1, g2>>), Report(east, nodeA, <<g2>>),
                     Report(east, nodeA, <<>>)}

(* A node whose GPU is replaced by another one, at the same index.           *)
ReplacedReports == {Report(east, nodeA, <<g1>>), Report(east, nodeA, <<g2>>)}
=============================================================================
