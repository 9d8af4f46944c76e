----------------------------- MODULE MCLlmSync ------------------------------
(* Instances of LlmSync for TLC.                                             *)
EXTENDS LlmSync
CONSTANTS ant, oai, a1, a2, o1, c1, w1, h1

TheAnthropic == {ant}
Both         == {ant, oai}
OneWorker    == {w1}
OneHandler   == {h1}
Nobody       == {}

(* One key, two days of its model usage, and its Claude Code usage.          *)
OneKeyRows   == {a1, a2, c1}
OneKeyUsage  == [p \in TheAnthropic |-> {a1, a2}]
OneKeyClaude == [p \in TheAnthropic |-> {c1}]

(* The same, and a key of the other kind with one day.                       *)
AllRows   == {a1, a2, o1, c1}
AllUsage  == [p \in Both |-> IF p = ant THEN {a1, a2} ELSE {o1}]
AllClaude == [p \in Both |-> IF p = ant THEN {c1} ELSE {}]
=============================================================================
