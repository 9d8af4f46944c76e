----------------------------- MODULE Admission ------------------------------
(***************************************************************************)
(* What the member, invite and onboarding views promise: an organization is *)
(* joined through an invite that was made, by somebody who was never in it, *)
(* and left for good; an invite ends as accepted only once it has brought   *)
(* somebody in, and never becomes pending again.                            *)
(***************************************************************************)
CONSTANTS Users, Founder, Tokens

VARIABLES
  members,  \* the users in the organization
  status,   \* status[t]: unused, pending, accepted or deleted
  joined    \* joined[t]: the users invite t has brought in

register == <<members, status, joined>>

Init ==
  /\ members = {Founder}
  /\ status = [t \in Tokens |-> "unused"]
  /\ joined = [t \in Tokens |-> {}]

Invite(t) ==
  /\ status[t] = "unused"
  /\ status' = [status EXCEPT ![t] = "pending"]
  /\ UNCHANGED <<members, joined>>

(* Whoever opened the link in time may come in after it was accepted by      *)
(* another, or withdrawn.                                                    *)
Join(t, u) ==
  /\ status[t] # "unused"
  /\ u # Founder
  /\ \A s \in Tokens : u \notin joined[s]
  /\ members' = members \cup {u}
  /\ joined' = [joined EXCEPT ![t] = @ \cup {u}]
  /\ UNCHANGED status

Accept(t) ==
  /\ status[t] = "pending"
  /\ joined[t] # {}
  /\ status' = [status EXCEPT ![t] = "accepted"]
  /\ UNCHANGED <<members, joined>>

Withdraw(t) ==
  /\ status[t] \in {"pending", "accepted"}
  /\ status' = [status EXCEPT ![t] = "deleted"]
  /\ UNCHANGED <<members, joined>>

Leave(u) ==
  /\ u \in members
  /\ members' = members \ {u}
  /\ UNCHANGED <<status, joined>>

Next ==
  \/ \E t \in Tokens : Invite(t) \/ Accept(t) \/ Withdraw(t)
  \/ \E t \in Tokens, u \in Users : Join(t, u)
  \/ \E u \in Users : Leave(u)

Spec == Init /\ [][Next]_register
=============================================================================
