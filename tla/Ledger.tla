------------------------------- MODULE Ledger -------------------------------
(***************************************************************************)
(* What the cost snapshots promise to whoever adds them up: an append-only  *)
(* ledger.  Runs are numbered and there are no more of them than minutes.   *)
(* An organization is billed by a run in one entry for each of its GPUs, at *)
(* once and never again; a run has one time, later runs have no earlier one *)
(* and one price list.                                                      *)
(***************************************************************************)
EXTENDS Naturals

CONSTANTS Orgs, Gpus,
          Alike   \* pairs of GPUs that every price list treats alike

VARIABLES entries, minute

state == <<entries, minute>>

Init == entries = {} /\ minute = 0

Tick == minute' = minute + 1 /\ UNCHANGED entries

Bill(n, o) == {x \in entries : x.run = n /\ x.org = o}

OneEntryPerGpu(bill) == \A x, y \in bill : x.gpu = y.gpu => x = y

InOrder(x, y)  == x.run <= y.run => x.time <= y.time
SameList(x, y) == x.run = y.run /\ <<x.gpu, y.gpu>> \in Alike => x.rate = y.rate

Post(n, o) ==
  LET posted == entries' \ entries IN
  /\ Bill(n, o) = {}
  /\ entries \subseteq entries' /\ posted # {}
  /\ \A x \in posted : /\ x.run = n /\ x.org = o /\ x.gpu \in Gpus
                       /\ n <= x.time /\ x.time <= minute
  /\ OneEntryPerGpu(posted)
  /\ \A x, y \in entries' : InOrder(x, y) /\ SameList(x, y)
  /\ UNCHANGED minute

Next == Tick \/ \E n \in 1 .. minute, o \in Orgs : Post(n, o)

Spec == Init /\ [][Next]_state
=============================================================================
