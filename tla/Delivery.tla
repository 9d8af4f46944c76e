------------------------------ MODULE Delivery ------------------------------
(***************************************************************************)
(* What the agent and the server promise of the samples, over any network:  *)
(* a GPU sample is stored at most Limit times, and acknowledged only while  *)
(* it is the newest and after it was stored; an inference sample is stored  *)
(* once at most, and what the endpoint shows is stored by the same step.    *)
(***************************************************************************)
EXTENDS Naturals

CONSTANTS
  MaxSamples,
  Limit        \* copies of a GPU sample there may be

VARIABLES
  taken,         \* number of the newest sample
  copies,        \* copies[n]: how often GPU sample n is stored
  acknowledged,  \* the GPU samples the agent knows to be stored
  history,       \* the inference samples stored: [sample, time]
  shown          \* the one the endpoint shows, as a set of one at most

view == <<taken, copies, acknowledged, history, shown>>

Init ==
  /\ taken = 0
  /\ copies = [n \in 1 .. MaxSamples |-> 0]
  /\ acknowledged = {}
  /\ history = {}
  /\ shown = {}

Take ==
  /\ taken < MaxSamples
  /\ taken' = taken + 1
  /\ UNCHANGED <<copies, acknowledged, history, shown>>

Store(n) ==
  /\ n <= taken
  /\ copies[n] < Limit
  /\ copies' = [copies EXCEPT ![n] = @ + 1]
  /\ UNCHANGED <<taken, acknowledged, history, shown>>

Acknowledge ==
  /\ taken > 0
  /\ copies[taken] > 0
  /\ acknowledged' = acknowledged \cup {taken}
  /\ UNCHANGED <<taken, copies, history, shown>>

Record(n, t) ==
  /\ n <= taken
  /\ \A row \in history : row.sample # n
  /\ shown' = {[sample |-> n, time |-> t]}
  /\ history' = history \cup shown'
  /\ UNCHANGED <<taken, copies, acknowledged>>

Clear ==
  /\ shown' = {}
  /\ UNCHANGED <<taken, copies, acknowledged, history>>

Next ==
  \/ Take \/ Acknowledge \/ Clear
  \/ \E n \in 1 .. MaxSamples : Store(n)
  \/ \E n \in 1 .. MaxSamples, t \in {row.time : row \in history'} : Record(n, t)

Spec == Init /\ [][Next]_view
=============================================================================
