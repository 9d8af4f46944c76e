---------------------------- MODULE AlertPromise ----------------------------
(***************************************************************************)
(* What the alert engine promises to the people who configured a rule, with *)
(* no workers, rows, forms or network in sight.  It raises an alarm of a    *)
(* rule once; the alarm rings; Slack may be told of it; and it is cleared.  *)
(* Only a person puts an alarm on that was cleared, or one of their own.    *)
(* While as many alarms of a rule are on, those of people aside, as there   *)
(* may be at once, no other one is raised: with one worker, that is no      *)
(* second alarm before the first was cleared.                               *)
(***************************************************************************)
EXTENDS Naturals, FiniteSets

CONSTANTS Rules, Alarms, AtOnce

VARIABLES
  raised,   \* the alarms there have been
  ringing,  \* ringing[r]: the alarms of rule r that are on and not marked as told
  told,     \* told[r]: those that are marked as told to Slack
  manual    \* the alarms that are on because a person put them on

state == <<raised, ringing, told, manual>>

On(r) == ringing[r] \cup told[r]

Init ==
  /\ raised = {}
  /\ ringing = [r \in Rules |-> {}]
  /\ told = [r \in Rules |-> {}]
  /\ manual = {}

Raise(r, a) ==
  /\ a \in Alarms \ raised
  /\ Cardinality(On(r) \ manual) < AtOnce
  /\ raised' = raised \cup {a}
  /\ ringing' = [ringing EXCEPT ![r] = @ \cup {a}]
  /\ UNCHANGED <<told, manual>>

Tell(r, a) ==
  /\ a \in ringing[r]
  /\ ringing' = [ringing EXCEPT ![r] = @ \ {a}]
  /\ told' = [told EXCEPT ![r] = @ \cup {a}]
  /\ UNCHANGED <<raised, manual>>

Clear(r, some) ==
  /\ some \subseteq On(r)
  /\ ringing' = [ringing EXCEPT ![r] = @ \ some]
  /\ told' = [told EXCEPT ![r] = @ \ some]
  /\ manual' = manual \ some
  /\ UNCHANGED raised

(* A person adds an alarm, or puts one on again, with or without the mark.   *)
PutOn(r, a, mark) ==
  /\ \A q \in Rules : a \notin On(q)
  /\ raised' = raised \cup {a}
  /\ ringing' = IF mark THEN ringing ELSE [ringing EXCEPT ![r] = @ \cup {a}]
  /\ told' = IF mark THEN [told EXCEPT ![r] = @ \cup {a}] ELSE told
  /\ manual' = manual \cup {a}

(* A person files an alarm, closed from the start.                           *)
File(a) ==
  /\ raised' = raised \cup {a}
  /\ UNCHANGED <<ringing, told, manual>>

(* A person takes the mark away, with a form that was opened before it.      *)
Unmark(r, a) ==
  /\ a \in told[r]
  /\ ringing' = [ringing EXCEPT ![r] = @ \cup {a}]
  /\ told' = [told EXCEPT ![r] = @ \ {a}]
  /\ UNCHANGED <<raised, manual>>

Next ==
  \E r \in Rules :
    \/ \E a \in Alarms :
         \/ Raise(r, a) \/ Tell(r, a) \/ File(a) \/ Unmark(r, a)
         \/ \E mark \in BOOLEAN : PutOn(r, a, mark)
    \/ \E some \in SUBSET Alarms : Clear(r, some)

Spec == Init /\ [][Next]_state
=============================================================================
