----------------------------- MODULE MCConsole ------------------------------
(* Instances of ReadApi and DemoSeeder for TLC.  The two share no state, so  *)
(* that one run checks them one at a time instead of in all interleavings:   *)
(* part says which of them moves, and the other keeps an initial state.      *)
EXTENDS ReadApi, DemoSeeder, TLC
CONSTANTS A, B, u1, k1, c1, h1, h2, s1, s2

TwoOrgs     == {A, B}
OneUser     == {u1}
OneKey      == {k1}
OneClient   == {c1}
TwoHandlers == {h1, h2}

(* Row 2 is another organization's; a page holds one row, two, or one.       *)
ThreeRows  == 1 .. 3
TheRowOrg  == [i \in ThreeRows |-> IF i = 2 THEN B ELSE A]
TheKeyOrg  == [k \in OneKey |-> A]
TheKeyOf   == [c \in OneClient |-> k1]
SomeLimits == {0, 5, Null}

(* Thing 1 is a node, and an endpoint as well: names that are unique; 2 is   *)
(* its GPU, and 3 an alert rule.                                             *)
TwoSeeders   == {s1, s2}
FourKeys     == 1 .. 4
TheAbove     == [t \in Things |-> IF t = 2 THEN 1 ELSE 0]
TheUnique    == {1, 2}
TheGpus      == {2}
TheEndpoints == {1}

VARIABLE part

ConsoleInit ==
  /\ Init
  /\ SeedInit
  /\ part \in {"read", "seed"}
  /\ part = "seed" => present = {} /\ member = [u \in Users |-> Null]

ConsoleNext ==
  \/ part = "read" /\ Next /\ UNCHANGED <<seedVars, part>>
  \/ part = "seed" /\ SeedNext /\ UNCHANGED <<vars, part>>

ConsoleSpec == ConsoleInit /\ [][ConsoleNext]_<<vars, seedVars, part>>

Symmetry == Permutations(TwoHandlers)
=============================================================================
