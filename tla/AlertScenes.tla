---------------------------- MODULE AlertScenes -----------------------------
(* The instances of AlertEngine one run goes through.                        *)
EXTENDS MCAlertEngine

(* Two scenes in one run, so that it has the sum of their states: one rule   *)
(* and people with forms of every kind; or two rules, one of which may be    *)
(* deleted while the other one is to be raised, and no admin form.           *)
(* What a scene leaves out is never a step of a worker.                      *)
VARIABLE scene

InScene ==
  /\ scene = "forms" => r2 \notin out /\ rule[r2] = "absent"
  /\ scene = "rules" => \A o \in Operators : web[o].kind \in {"none", "toggle"}

SceneInit == Init /\ scene \in {"forms", "rules"}
SceneNext == Next /\ scene' = scene /\ InScene'
SceneSpec == SceneInit /\ [][SceneNext]_<<vars, scene>> /\ Fairness
=============================================================================
