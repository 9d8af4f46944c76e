----------------------------- MODULE LlmScenes ------------------------------
(* The instances of LlmSync one run goes through.                            *)
EXTENDS MCLlmSync

(* Three scenes in one run, so that it has the sum of their states: the task *)
(* and a manual sync of one key overlap; they overlap, one is killed and     *)
(* nobody switches the key off; the tasks go through two keys, and the       *)
(* worker dies.  What a scene leaves out is never a step of a sync that has  *)
(* begun.                                                                    *)
VARIABLE scene

OneKey ==
  /\ provider[oai] = "absent" /\ oai \in sick /\ used[oai][o1] = 0
  /\ used[ant][a2] <= used[ant][a1]   \* the days differ in nothing else

InScene ==
  /\ scene = "overlap"   => OneKey /\ crashes = 0
  /\ scene = "killed"    => /\ OneKey /\ used[ant][c1] = 0
                            /\ provider[ant] \in {"absent", "active"}
  /\ scene = "isolation" => /\ \A h \in Handlers : pc[h] = "idle"
                            /\ used[ant][a2] = 0 /\ used[ant][c1] = 0

SceneInit == Init /\ scene \in {"overlap", "killed", "isolation"}
SceneNext == Next /\ scene' = scene /\ InScene'
SceneSpec == SceneInit /\ [][SceneNext]_<<vars, scene>> /\ Fairness
=============================================================================
