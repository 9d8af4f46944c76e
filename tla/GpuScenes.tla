----------------------------- MODULE GpuScenes ------------------------------
(* The instances of GpuIngest one run goes through.                          *)
EXTENDS MCGpuIngest

(* Two scenes in one run, so that it has the sum of their states: three      *)
(* requests and no delete, or two requests and deletes.  What a scene leaves *)
(* out is never a step of a request or a delete that has begun.              *)
VARIABLE scene

InScene ==
  /\ scene = "reports" => stage = "none"
  /\ scene = "deletes" => received <= 2

SceneInit == Init /\ scene \in {"reports", "deletes"}
SceneNext == Next /\ scene' = scene /\ InScene'
SceneSpec == SceneInit /\ [][SceneNext]_<<vars, scene>> /\ Fairness
=============================================================================
