------------------------- MODULE Membership_proofs --------------------------
(***************************************************************************)
(* Proofs about Membership for any number of handlers, users, invites and   *)
(* addresses.                                                               *)
(***************************************************************************)
EXTENDS Membership, FiniteSetTheorems, TLAPS

(* Every step of the specification, one named action at a time.              *)
LEMMA NextCases ==
  ASSUME Next
  PROVE  \/ \E h \in Handlers, u \in Users :
              \/ Admit(h, u) \/ FindMember(h, u) \/ CreateUser(h, u)
              \/ UsernameTaken(h, u) \/ AskForWorkspace(h, u)
         \/ \E h \in Handlers, r \in Roles : SaveRole(h, r)
         \/ \E h \in Handlers, t \in Tokens, e \in Emails, r \in Roles :
              CreateInvite(h, t, e, r)
         \/ \E h \in Handlers, t \in Tokens : FindInvite(h, t) \/ OpenInvite(h, t)
         \/ \E h \in Handlers :
              \/ SaveRemoval(h) \/ RevokeInvite(h) \/ SendReminder(h) \/ Refuse(h)
              \/ JoinOrganization(h) \/ MarkAccepted(h) \/ MakeWorkspace(h)
              \/ SlugTaken(h) \/ EnterWorkspace(h) \/ Crash(h)
         \/ \E t \in Tokens : SevenDaysPass(t)
BY DEF Next, MemberViews, InviteViews, AcceptView, OnboardingView

(* A request that is over has forgotten everything.                          *)
LEMMA OverKeepsLocalTypes ==
  ASSUME TypeOK, NEW h \in Handlers, GoTo(h, "idle"), Forget(h)
  PROVE  /\ pc' \in [Handlers -> Steps]
         /\ actor' \in [Handlers -> Users \cup {Null}]
         /\ actsAs' \in [Handlers -> Roles]
         /\ target' \in [Handlers -> Users \cup {Null}]
         /\ token' \in [Handlers -> Tokens \cup {Null}]
         /\ slug' \in [Handlers -> Nat]
         /\ \A k \in Handlers :
              /\ pc'[k] \in {"promote", "remove", "join", "mark"} => target'[k] \in Users
              /\ pc'[k] \in {"revoke", "remind", "accept", "join", "mark"} => token'[k] \in Tokens
              /\ pc'[k] \in {"provision", "adopt"} => actor'[k] \in Users
BY DEF TypeOK, GoTo, Forget, Steps, Roles

(* Rows and locals keep their types, and a request that is past its lookup   *)
(* has what it looked for.                                                   *)
THEOREM TypeCorrect == Spec => []TypeOK
<1>1. Init => TypeOK
  <2>. SUFFICES ASSUME Init PROVE TypeOK
    OBVIOUS
  <2>1. place \in [Users -> Places] /\ role \in [Users -> Roles]
    BY DEF Init, Places, Roles
  <2>2. /\ status \in [Tokens -> Statuses]
        /\ email \in [Tokens -> Emails \cup {Null}]
        /\ grants \in [Tokens -> Roles]
        /\ joined \in [Tokens -> SUBSET Users]
    BY DEF Init, Statuses, Roles
  <2>3. /\ pc \in [Handlers -> Steps]
        /\ actsAs \in [Handlers -> Roles]
        /\ actor \in [Handlers -> Users \cup {Null}]
        /\ target \in [Handlers -> Users \cup {Null}]
        /\ token \in [Handlers -> Tokens \cup {Null}]
    BY DEF Init, Steps, Roles
  <2>4. workspaces \in [Users -> Nat] /\ slug \in [Handlers -> Nat]
    BY DEF Init
  <2>6. /\ expired \in SUBSET Tokens
        /\ removed \in SUBSET Users
        /\ crashes \in 0 .. MaxCrashes
    BY MembershipAssumption DEF Init
  <2>5. \A h \in Handlers : pc[h] = "idle"
    BY DEF Init
  <2>. QED  BY <2>1, <2>2, <2>3, <2>4, <2>5, <2>6 DEF TypeOK
<1>2. ASSUME TypeOK, [Next]_vars PROVE TypeOK'
  <2>. USE <1>2
  <2>1. ASSUME NEW h \in Handlers, NEW u \in Users, Admit(h, u) PROVE TypeOK'
    BY <2>1 DEF Admit, GoTo, TypeOK, Steps, profiles, invites, history
  <2>2. ASSUME NEW h \in Handlers, NEW u \in Users, FindMember(h, u) PROVE TypeOK'
    <3>1. \E step \in {"promote", "remove"} : pc' = [pc EXCEPT ![h] = step]
      BY <2>2 DEF FindMember, GoTo
    <3>2. actsAs' \in [Handlers -> Roles]
      BY <2>2 DEF FindMember, TypeOK, Roles
    <3>. QED  BY <2>2, <3>1, <3>2 DEF FindMember, TypeOK, Steps, profiles, invites, history
  <2>3. ASSUME NEW h \in Handlers, NEW r \in Roles, SaveRole(h, r) PROVE TypeOK'
    BY <2>3, OverKeepsLocalTypes DEF SaveRole, End, TypeOK, invites, history
  <2>4. ASSUME NEW h \in Handlers, SaveRemoval(h) PROVE TypeOK'
    BY <2>4, OverKeepsLocalTypes DEF SaveRemoval, End, TypeOK, Places, invites
  <2>5. ASSUME NEW h \in Handlers, NEW t \in Tokens, NEW e \in Emails, NEW r \in Roles,
               CreateInvite(h, t, e, r)
        PROVE TypeOK'
    BY <2>5, OverKeepsLocalTypes DEF CreateInvite, End, TypeOK, Statuses, profiles, history
  <2>6. ASSUME NEW h \in Handlers, NEW t \in Tokens, FindInvite(h, t) PROVE TypeOK'
    <3>1. \E step \in {"revoke", "remind"} : pc' = [pc EXCEPT ![h] = step]
      BY <2>6 DEF FindInvite, GoTo
    <3>2. actsAs' \in [Handlers -> Roles]
      BY <2>6 DEF FindInvite, TypeOK, Roles
    <3>. QED  BY <2>6, <3>1, <3>2 DEF FindInvite, TypeOK, Steps, profiles, invites, history
  <2>7. ASSUME NEW h \in Handlers, RevokeInvite(h) PROVE TypeOK'
    BY <2>7, OverKeepsLocalTypes DEF RevokeInvite, End, TypeOK, Statuses, profiles, history
  <2>8. ASSUME NEW h \in Handlers,
               SendReminder(h) \/ Refuse(h) \/ SlugTaken(h)
                 \/ \E u \in Users : UsernameTaken(h, u)
        PROVE TypeOK'
    <3>1. End(h) /\ UNCHANGED <<profiles, invites, history>>
      BY <2>8 DEF SendReminder, Refuse, SlugTaken, UsernameTaken
    <3>. QED  BY <3>1, OverKeepsLocalTypes DEF End, TypeOK, profiles, invites, history
  <2>9. ASSUME NEW h \in Handlers, NEW t \in Tokens, OpenInvite(h, t) PROVE TypeOK'
    BY <2>9 DEF OpenInvite, GoTo, TypeOK, Steps, profiles, invites, history
  <2>10. ASSUME NEW h \in Handlers, NEW u \in Users, CreateUser(h, u) PROVE TypeOK'
    BY <2>10 DEF CreateUser, GoTo, TypeOK, Places, Steps, invites, history
  <2>11. ASSUME NEW h \in Handlers, JoinOrganization(h) PROVE TypeOK'
    <3>1. target[h] \in Users /\ token[h] \in Tokens
      BY <2>11 DEF JoinOrganization, TypeOK
    <3>2. joined' \in [Tokens -> SUBSET Users]
      BY <2>11, <3>1 DEF JoinOrganization, TypeOK
    <3>3. place' \in [Users -> Places] /\ role' \in [Users -> Roles]
      BY <2>11, <3>1 DEF JoinOrganization, TypeOK, Places
    <3>4. pc' \in [Handlers -> Steps]
      BY <2>11 DEF JoinOrganization, GoTo, TypeOK, Steps
    <3>5. \A k \in Handlers :
            /\ pc'[k] \in {"promote", "remove", "join", "mark"} => target[k] \in Users
            /\ pc'[k] \in {"revoke", "remind", "accept", "join", "mark"} => token[k] \in Tokens
            /\ pc'[k] \in {"provision", "adopt"} => actor[k] \in Users
      BY <2>11, <3>1 DEF JoinOrganization, GoTo, TypeOK
    <3>. QED
      BY <2>11, <3>2, <3>3, <3>4, <3>5 DEF JoinOrganization, TypeOK, invites, locals
  <2>12. ASSUME NEW h \in Handlers, MarkAccepted(h) PROVE TypeOK'
    BY <2>12, OverKeepsLocalTypes DEF MarkAccepted, End, TypeOK, Statuses, profiles, history
  <2>13. ASSUME NEW h \in Handlers, NEW u \in Users, AskForWorkspace(h, u) PROVE TypeOK'
    <3>1. actor' \in [Handlers -> Users \cup {Null}]
      BY <2>13 DEF AskForWorkspace, TypeOK
    <3>3. workspaces[u] + 1 \in Nat
      BY DEF TypeOK
    <3>4. slug' \in [Handlers -> Nat]
      BY <2>13, <3>3 DEF AskForWorkspace, TypeOK
    <3>2. /\ pc' \in [Handlers -> Steps]
          /\ \A k \in Handlers :
               /\ pc'[k] \in {"promote", "remove", "join", "mark"} => target[k] \in Users
               /\ pc'[k] \in {"revoke", "remind", "accept", "join", "mark"} => token[k] \in Tokens
               /\ pc'[k] \in {"provision", "adopt"} => actor'[k] \in Users
      BY <2>13 DEF AskForWorkspace, GoTo, TypeOK, Steps
    <3>. QED
      BY <2>13, <3>1, <3>2, <3>4 DEF AskForWorkspace, TypeOK, profiles, invites, history
  <2>14. ASSUME NEW h \in Handlers, MakeWorkspace(h) PROVE TypeOK'
    <3>1. actor[h] \in Users /\ slug[h] \in Nat
      BY <2>14 DEF MakeWorkspace, TypeOK
    <3>2. workspaces' \in [Users -> Nat]
      BY <2>14, <3>1 DEF MakeWorkspace, TypeOK
    <3>. QED
      BY <2>14, <3>1, <3>2 DEF MakeWorkspace, GoTo, TypeOK, Steps, invites, locals, history
  <2>15. ASSUME NEW h \in Handlers, EnterWorkspace(h) PROVE TypeOK'
    BY <2>15, OverKeepsLocalTypes
       DEF EnterWorkspace, End, TypeOK, Places, Roles, invites, history
  <2>16. ASSUME NEW h \in Handlers, Crash(h) PROVE TypeOK'
    BY <2>16, OverKeepsLocalTypes, MembershipAssumption
       DEF Crash, TypeOK, profiles, invites, history
  <2>17. ASSUME NEW t \in Tokens, SevenDaysPass(t) PROVE TypeOK'
    BY <2>17 DEF SevenDaysPass, TypeOK, profiles, locals, history
  <2>18. CASE UNCHANGED vars
    BY <2>18 DEF vars, TypeOK
  <2>. QED
    BY <2>1, <2>2, <2>3, <2>4, <2>5, <2>6, <2>7, <2>8, <2>9, <2>10, <2>11, <2>12,
       <2>13, <2>14, <2>15, <2>16, <2>17, <2>18, NextCases
<1>. QED  BY <1>1, <1>2, PTL DEF Spec

-----------------------------------------------------------------------------
(* Whoever is about to mark an invite has joined through it.                 *)
MarksAfterJoin == \A h \in Handlers : pc[h] = "mark" => joined[token[h]] # {}

AcceptedInv == AcceptedMeansJoined /\ MarksAfterJoin

(* No row becomes accepted and nobody comes to the mark: the invariant stays.*)
LEMMA NothingAccepted ==
  ASSUME TypeOK, AcceptedInv, joined' = joined,
         \A t \in Tokens : status'[t] = "accepted" => status[t] = "accepted",
         \A h \in Handlers : pc'[h] = "mark" => pc[h] = "mark" /\ token'[h] = token[h]
  PROVE  AcceptedInv'
BY DEF AcceptedInv, AcceptedMeansJoined, MarksAfterJoin, TypeOK

LEMMA AcceptedHolds == Spec => []AcceptedInv
<1>1. Init => AcceptedInv
  BY DEF Init, AcceptedInv, AcceptedMeansJoined, MarksAfterJoin
<1>2. ASSUME TypeOK, AcceptedInv, [Next]_vars PROVE AcceptedInv'
  <2>. USE <1>2
  <2>1. ASSUME NEW h \in Handlers, End(h), UNCHANGED history,
               \A t \in Tokens : status'[t] = "accepted" => status[t] = "accepted"
        PROVE AcceptedInv'
    BY <2>1, NothingAccepted DEF End, GoTo, Forget, TypeOK, history
  <2>2. ASSUME NEW h \in Handlers, NEW u \in Users,
               Admit(h, u) \/ FindMember(h, u) \/ CreateUser(h, u) \/ AskForWorkspace(h, u)
        PROVE AcceptedInv'
    BY <2>2, NothingAccepted
       DEF Admit, FindMember, CreateUser, AskForWorkspace, GoTo, TypeOK, invites, history
  <2>3. ASSUME NEW h \in Handlers, NEW t \in Tokens, FindInvite(h, t) \/ OpenInvite(h, t)
        PROVE AcceptedInv'
    BY <2>3, NothingAccepted DEF FindInvite, OpenInvite, GoTo, TypeOK, invites, history
  <2>4. ASSUME NEW h \in Handlers,
               \/ \E r \in Roles : SaveRole(h, r)
               \/ \E u \in Users : UsernameTaken(h, u)
               \/ SendReminder(h) \/ Refuse(h) \/ SlugTaken(h) \/ EnterWorkspace(h)
        PROVE AcceptedInv'
    <3>1. End(h) /\ UNCHANGED <<invites, history>>
      BY <2>4 DEF SaveRole, UsernameTaken, SendReminder, Refuse, SlugTaken, EnterWorkspace
    <3>. QED  BY <2>1, <3>1 DEF invites
  <2>5. ASSUME NEW h \in Handlers, SaveRemoval(h) PROVE AcceptedInv'
    BY <2>5, NothingAccepted DEF SaveRemoval, End, GoTo, Forget, TypeOK, invites
  <2>6. ASSUME NEW h \in Handlers, NEW t \in Tokens, NEW e \in Emails, NEW r \in Roles,
               CreateInvite(h, t, e, r)
        PROVE AcceptedInv'
    BY <2>1, <2>6 DEF CreateInvite, TypeOK
  <2>7. ASSUME NEW h \in Handlers, RevokeInvite(h) PROVE AcceptedInv'
    BY <2>1, <2>7 DEF RevokeInvite, TypeOK
  <2>8. ASSUME NEW h \in Handlers, JoinOrganization(h) PROVE AcceptedInv'
    BY <2>8 DEF JoinOrganization, GoTo, TypeOK, invites, locals,
                AcceptedInv, AcceptedMeansJoined, MarksAfterJoin
  <2>9. ASSUME NEW h \in Handlers, MarkAccepted(h) PROVE AcceptedInv'
    <3>1. joined[token[h]] # {} /\ joined' = joined
      BY <2>9 DEF MarkAccepted, AcceptedInv, MarksAfterJoin, history
    <3>2. AcceptedMeansJoined'
      BY <2>9, <3>1 DEF MarkAccepted, TypeOK, AcceptedInv, AcceptedMeansJoined
    <3>3. MarksAfterJoin'
      BY <2>9, <3>1 DEF MarkAccepted, End, GoTo, Forget, TypeOK, AcceptedInv, MarksAfterJoin
    <3>. QED  BY <3>2, <3>3 DEF AcceptedInv
  <2>10. ASSUME NEW h \in Handlers, MakeWorkspace(h) PROVE AcceptedInv'
    BY <2>10, NothingAccepted DEF MakeWorkspace, GoTo, TypeOK, invites, locals, history
  <2>11. ASSUME NEW h \in Handlers, Crash(h) PROVE AcceptedInv'
    BY <2>11, NothingAccepted DEF Crash, GoTo, Forget, TypeOK, invites, history
  <2>12. CASE \E t \in Tokens : SevenDaysPass(t)
    BY <2>12, NothingAccepted DEF SevenDaysPass, locals, history
  <2>13. CASE UNCHANGED vars
    BY <2>13, NothingAccepted DEF vars
  <2>. QED
    BY <2>2, <2>3, <2>4, <2>5, <2>6, <2>7, <2>8, <2>9, <2>10, <2>11, <2>12, <2>13,
       NextCases
<1>. QED  BY <1>1, <1>2, TypeCorrect, PTL DEF Spec

(* An invite is marked accepted only when somebody has joined through it,    *)
(* wherever requests fail.                                                   *)
THEOREM AcceptedIsTrue == Spec => []AcceptedMeansJoined
<1>1. AcceptedInv => AcceptedMeansJoined
  BY DEF AcceptedInv
<1>. QED  BY <1>1, AcceptedHolds, PTL

-----------------------------------------------------------------------------
(* Who is about to join is a fresh account that nobody else works on: no     *)
(* removal has found it, so none can come between its creation and its join. *)
Outside == \A u \in removed : place[u] \notin {"organization", "unregistered"}

TargetsExist ==
  \A h \in Handlers : pc[h] \in {"remove", "join"} => place[target[h]] # "unregistered"

JoinersAreFresh ==
  \A h \in Handlers : pc[h] = "join" =>
    target[h] \notin removed /\ place[target[h]] # "organization"

JoinersAreAlone ==
  \A h, k \in Handlers :
    pc[h] = "join" /\ pc[k] \in {"remove", "join"} /\ target[h] = target[k] => h = k

RemovedInv == Outside /\ TargetsExist /\ JoinersAreFresh /\ JoinersAreAlone

(* Steps that move nobody between organizations and find nobody.             *)
LEMMA NobodyMoves ==
  ASSUME TypeOK, RemovedInv, removed' = removed,
         \A u \in Users : place'[u] = place[u],
         \A h \in Handlers : pc'[h] \in {"remove", "join"} =>
           pc'[h] = pc[h] /\ target'[h] = target[h]
  PROVE  RemovedInv'
<1>1. \A h \in Handlers : pc[h] \in {"remove", "join"} => target[h] \in Users
  BY DEF TypeOK
<1>2. Outside'
  BY DEF RemovedInv, Outside, TypeOK
<1>3. TargetsExist' /\ JoinersAreFresh'
  BY <1>1 DEF RemovedInv, TargetsExist, JoinersAreFresh
<1>4. JoinersAreAlone'
  BY DEF RemovedInv, JoinersAreAlone
<1>. QED  BY <1>2, <1>3, <1>4 DEF RemovedInv

LEMMA RemovedHolds == Spec => []RemovedInv
<1>1. Init => RemovedInv
  BY DEF Init, RemovedInv, Outside, TargetsExist, JoinersAreFresh, JoinersAreAlone
<1>2. ASSUME TypeOK, RemovedInv, [Next]_vars PROVE RemovedInv'
  <2>. USE <1>2
  <2>1. ASSUME NEW h \in Handlers, NEW u \in Users,
               Admit(h, u) \/ AskForWorkspace(h, u) \/ UsernameTaken(h, u)
        PROVE RemovedInv'
    BY <2>1, NobodyMoves DEF Admit, AskForWorkspace, UsernameTaken, End, Forget, GoTo,
       TypeOK, profiles, invites, history
  <2>2. ASSUME NEW h \in Handlers, NEW u \in Users, FindMember(h, u) PROVE RemovedInv'
    <3>1. /\ place[u] = "organization"
          /\ UNCHANGED <<place, removed>>
          /\ pc'[h] # "join"
          /\ target'[h] = u
          /\ \A k \in Handlers \ {h} : pc'[k] = pc[k] /\ target'[k] = target[k]
      BY <2>2 DEF FindMember, GoTo, TypeOK, profiles, history
    <3>2. JoinersAreAlone'
      BY <3>1 DEF RemovedInv, JoinersAreFresh, JoinersAreAlone
    <3>. QED
      BY <3>1, <3>2 DEF RemovedInv, Outside, TargetsExist, JoinersAreFresh
  <2>3. ASSUME NEW h \in Handlers,
               \/ \E r \in Roles : SaveRole(h, r)
               \/ RevokeInvite(h) \/ SendReminder(h) \/ Refuse(h) \/ MarkAccepted(h)
               \/ SlugTaken(h) \/ Crash(h)
        PROVE RemovedInv'
    <3>1. GoTo(h, "idle") /\ Forget(h) /\ UNCHANGED <<place, removed>>
      BY <2>3 DEF SaveRole, RevokeInvite, SendReminder, Refuse, MarkAccepted, SlugTaken,
         Crash, End, profiles, history
    <3>. QED  BY <3>1, NobodyMoves DEF GoTo, Forget, TypeOK
  <2>4. ASSUME NEW h \in Handlers, SaveRemoval(h) PROVE RemovedInv'
    <3>1. PICK u \in Users : u = target[h]
      BY <2>4 DEF SaveRemoval, TypeOK
    <3>2. /\ pc[h] = "remove"
          /\ place' = [place EXCEPT ![u] = "nowhere"]
          /\ removed' = removed \cup {u}
          /\ pc' = [pc EXCEPT ![h] = "idle"]
          /\ \A k \in Handlers \ {h} : target'[k] = target[k]
      BY <2>4, <3>1 DEF SaveRemoval, End, GoTo, Forget, TypeOK
    <3>3. \A k \in Handlers : pc'[k] = "join" => pc[k] = "join" /\ k # h /\ target[k] # u
      BY <3>1, <3>2 DEF TypeOK, RemovedInv, JoinersAreAlone
    <3>4. Outside' /\ TargetsExist'
      BY <3>2 DEF TypeOK, RemovedInv, Outside, TargetsExist
    <3>5. JoinersAreFresh'
      BY <3>2, <3>3 DEF TypeOK, RemovedInv, JoinersAreFresh
    <3>6. JoinersAreAlone'
      BY <3>2 DEF TypeOK, RemovedInv, JoinersAreAlone
    <3>. QED  BY <3>4, <3>5, <3>6 DEF RemovedInv
  <2>5. ASSUME NEW h \in Handlers, NEW t \in Tokens, NEW e \in Emails, NEW r \in Roles,
               CreateInvite(h, t, e, r)
        PROVE RemovedInv'
    BY <2>5, NobodyMoves DEF CreateInvite, End, GoTo, Forget, TypeOK, profiles, history
  <2>6. ASSUME NEW h \in Handlers, NEW t \in Tokens, FindInvite(h, t) \/ OpenInvite(h, t)
        PROVE RemovedInv'
    BY <2>6, NobodyMoves DEF FindInvite, OpenInvite, GoTo, TypeOK, profiles, history
  <2>7. ASSUME NEW h \in Handlers, NEW u \in Users, CreateUser(h, u) PROVE RemovedInv'
    <3>1. /\ place[u] = "unregistered"
          /\ place' = [place EXCEPT ![u] = "nowhere"]
          /\ removed' = removed
          /\ pc' = [pc EXCEPT ![h] = "join"]
          /\ target' = [target EXCEPT ![h] = u]
      BY <2>7 DEF CreateUser, GoTo, history
    <3>2. u \notin removed
      BY <3>1 DEF RemovedInv, Outside
    <3>3. \A k \in Handlers : pc[k] \in {"remove", "join"} => target[k] # u
      BY <3>1 DEF RemovedInv, TargetsExist
    <3>4. Outside' /\ TargetsExist' /\ JoinersAreFresh'
      BY <3>1, <3>2 DEF TypeOK, RemovedInv, Outside, TargetsExist, JoinersAreFresh
    <3>5. JoinersAreAlone'
      BY <3>1, <3>3 DEF TypeOK, RemovedInv, JoinersAreAlone
    <3>. QED  BY <3>4, <3>5 DEF RemovedInv
  <2>8. ASSUME NEW h \in Handlers, JoinOrganization(h) PROVE RemovedInv'
    <3>1. PICK u \in Users : u = target[h]
      BY <2>8 DEF JoinOrganization, TypeOK
    <3>2. /\ pc[h] = "join"
          /\ place' = [place EXCEPT ![u] = "organization"]
          /\ UNCHANGED <<removed, target>>
          /\ pc' = [pc EXCEPT ![h] = "mark"]
      BY <2>8, <3>1 DEF JoinOrganization, GoTo, locals
    <3>3. u \notin removed
      BY <3>1, <3>2 DEF RemovedInv, JoinersAreFresh
    <3>4. \A k \in Handlers : pc'[k] = "join" => pc[k] = "join" /\ target[k] # u
      BY <3>1, <3>2 DEF TypeOK, RemovedInv, JoinersAreAlone
    <3>5. Outside' /\ TargetsExist'
      BY <3>2, <3>3 DEF TypeOK, RemovedInv, Outside, TargetsExist
    <3>6. JoinersAreFresh'
      BY <3>2, <3>4 DEF TypeOK, RemovedInv, JoinersAreFresh
    <3>7. JoinersAreAlone'
      BY <3>2 DEF TypeOK, RemovedInv, JoinersAreAlone
    <3>. QED  BY <3>5, <3>6, <3>7 DEF RemovedInv
  <2>9. ASSUME NEW h \in Handlers, MakeWorkspace(h) PROVE RemovedInv'
    BY <2>9, NobodyMoves DEF MakeWorkspace, GoTo, TypeOK, locals, history
  <2>10. ASSUME NEW h \in Handlers, EnterWorkspace(h) PROVE RemovedInv'
    <3>1. PICK u \in Users : u = actor[h]
      BY <2>10 DEF EnterWorkspace, TypeOK
    <3>2. /\ place' = [place EXCEPT ![u] = "workspace"]
          /\ removed' = removed
          /\ pc' = [pc EXCEPT ![h] = "idle"]
          /\ \A k \in Handlers \ {h} : target'[k] = target[k]
      BY <2>10, <3>1 DEF EnterWorkspace, End, GoTo, Forget, TypeOK, history
    <3>3. Outside' /\ TargetsExist' /\ JoinersAreFresh'
      BY <3>2 DEF TypeOK, RemovedInv, Outside, TargetsExist, JoinersAreFresh
    <3>4. JoinersAreAlone'
      BY <3>2 DEF TypeOK, RemovedInv, JoinersAreAlone
    <3>. QED  BY <3>3, <3>4 DEF RemovedInv
  <2>11. CASE \E t \in Tokens : SevenDaysPass(t)
    BY <2>11, NobodyMoves DEF SevenDaysPass, locals, profiles, history
  <2>12. CASE UNCHANGED vars
    BY <2>12, NobodyMoves DEF vars
  <2>. QED
    BY <2>1, <2>2, <2>3, <2>4, <2>5, <2>6, <2>7, <2>8, <2>9, <2>10, <2>11, <2>12,
       NextCases
<1>. QED  BY <1>1, <1>2, TypeCorrect, PTL DEF Spec

(* A member who was removed never comes back, whatever requests that read    *)
(* the member before the removal save after it.                              *)
THEOREM RemovedForGood == Spec => []RemovedStaysOut
<1>1. RemovedInv => RemovedStaysOut
  BY DEF RemovedInv, Outside, RemovedStaysOut
<1>. QED  BY <1>1, RemovedHolds, PTL

-----------------------------------------------------------------------------
(* A link that is used again before it is marked.  As long as the invite is   *)
(* pending, everybody who joined through it has a handler that is about to    *)
(* mark it, or one that crashed before it could.                              *)
Marking(t) == {h \in Handlers : token[h] = t /\ pc[h] = "mark"}

TokensWereSent == \A h \in Handlers : token[h] # Null => status[token[h]] # "unused"

JoinsInv(t) ==
  /\ IsFiniteSet(joined[t])
  /\ Cardinality(joined[t]) + Cardinality(Opened(t)) <= Cardinality(Handlers) + crashes
  /\ status[t] \in {"unused", "pending"} =>
       Cardinality(joined[t]) <= Cardinality(Marking(t)) + crashes

JoinedInv == TokensWereSent /\ \A t \in Tokens : JoinsInv(t)

LEMMA CountsAreNumbers ==
  ASSUME TypeOK, NEW t \in Tokens, JoinsInv(t)
  PROVE  /\ IsFiniteSet(Handlers) /\ IsFiniteSet(Opened(t)) /\ IsFiniteSet(Marking(t))
         /\ IsFiniteSet(joined[t]) /\ crashes \in Nat
         /\ Cardinality(joined[t]) \in Nat /\ Cardinality(Handlers) \in Nat
         /\ Cardinality(Opened(t)) \in Nat /\ Cardinality(Marking(t)) \in Nat
<1>1. IsFiniteSet(Handlers) /\ crashes \in Nat
  BY MembershipAssumption DEF TypeOK
<1>2. Opened(t) \subseteq Handlers /\ Marking(t) \subseteq Handlers
  BY DEF Opened, Marking
<1>3. IsFiniteSet(Opened(t)) /\ IsFiniteSet(Marking(t)) /\ IsFiniteSet(joined[t])
  BY <1>1, <1>2, FS_Subset DEF JoinsInv
<1>. QED  BY <1>1, <1>3, FS_CardinalityType

(* A step that neither brings anybody in nor admits anybody to the page.      *)
LEMMA NobodyJoins ==
  ASSUME TypeOK, NEW t \in Tokens, JoinsInv(t), joined'[t] = joined[t], crashes' = crashes,
         Opened(t)' \subseteq Opened(t),
         status'[t] \in {"unused", "pending"} =>
           status[t] \in {"unused", "pending"} /\ Marking(t)' = Marking(t)
  PROVE  JoinsInv(t)'
<1>1. /\ Cardinality(Opened(t)') <= Cardinality(Opened(t))
      /\ Cardinality(Opened(t)') \in Nat
  BY CountsAreNumbers, FS_Subset, FS_CardinalityType
<1>. QED  BY <1>1, CountsAreNumbers DEF JoinsInv

(* Steps of a handler that is not on its way to the organization.             *)
LEMMA OtherStepKeepsJoins ==
  ASSUME TypeOK, JoinedInv, NEW h \in Handlers, UNCHANGED <<joined, crashes>>,
         pc[h] # "mark", pc'[h] # "mark",
         pc'[h] \in {"accept", "join"} =>
           pc[h] \in {"accept", "join"} /\ token'[h] = token[h],
         \A k \in Handlers \ {h} : pc'[k] = pc[k] /\ token'[k] = token[k],
         \A t \in Tokens : status'[t] \in {"unused", "pending"} =>
                            status[t] \in {"unused", "pending"}
  PROVE  \A t \in Tokens : JoinsInv(t)'
<1>. SUFFICES ASSUME NEW t \in Tokens PROVE JoinsInv(t)'
  OBVIOUS
<1>1. Opened(t)' \subseteq Opened(t) /\ Marking(t)' = Marking(t)
  BY DEF Opened, Marking
<1>. QED  BY <1>1, NobodyJoins DEF JoinedInv

LEMMA OpenKeepsJoins ==
  ASSUME TypeOK, JoinedInv, NEW h \in Handlers, NEW u \in Tokens, OpenInvite(h, u)
  PROVE  \A t \in Tokens : JoinsInv(t)'
<1>1. /\ UNCHANGED <<joined, crashes, status>> /\ pc[h] = "idle" /\ status[u] = "pending"
      /\ pc' = [pc EXCEPT ![h] = "accept"] /\ token' = [token EXCEPT ![h] = u]
  BY DEF OpenInvite, GoTo, history, invites
<1>. SUFFICES ASSUME NEW t \in Tokens PROVE JoinsInv(t)'
  OBVIOUS
<1>2. Marking(t)' = Marking(t)
  BY <1>1 DEF Marking, TypeOK
<1>3. CASE t # u
  <2>1. Opened(t)' \subseteq Opened(t)
    BY <1>1, <1>3 DEF Opened, TypeOK
  <2>. QED  BY <1>1, <1>2, <2>1, NobodyJoins DEF JoinedInv
<1>4. CASE t = u
  <2>1. /\ Opened(t)' \subseteq Handlers /\ Marking(t) \subseteq Handlers
        /\ Opened(t)' \cap Marking(t) = {}
    BY <1>1 DEF Opened, Marking, TypeOK
  <2>2. IsFiniteSet(Opened(t)') /\ IsFiniteSet(Marking(t)) /\ IsFiniteSet(Handlers)
    BY <2>1, MembershipAssumption, FS_Subset
  <2>3. Cardinality(Opened(t)' \cup Marking(t))
          = Cardinality(Opened(t)') + Cardinality(Marking(t)) - 0
    BY <2>1, <2>2, FS_Union, FS_EmptySet
  <2>4. Cardinality(Opened(t)' \cup Marking(t)) <= Cardinality(Handlers)
    BY <2>1, <2>2, FS_Subset
  <2>5. Cardinality(Opened(t)') \in Nat
    BY <2>2, FS_CardinalityType
  <2>6. JoinsInv(t)
    BY DEF JoinedInv
  <2>. QED  BY <1>1, <1>2, <1>4, <2>3, <2>4, <2>5, <2>6, CountsAreNumbers DEF JoinsInv
<1>. QED  BY <1>3, <1>4

LEMMA JoinKeepsJoins ==
  ASSUME TypeOK, JoinedInv, NEW h \in Handlers, JoinOrganization(h)
  PROVE  \A t \in Tokens : JoinsInv(t)'
<1>1. /\ pc[h] = "join" /\ UNCHANGED <<crashes, status, token>> /\ token[h] \in Tokens
      /\ pc' = [pc EXCEPT ![h] = "mark"]
      /\ joined' = [joined EXCEPT ![token[h]] = @ \cup {target[h]}]
  BY DEF JoinOrganization, GoTo, invites, locals, TypeOK
<1>. SUFFICES ASSUME NEW t \in Tokens PROVE JoinsInv(t)'
  OBVIOUS
<1>2. CASE t # token[h]
  <2>1. Opened(t)' = Opened(t) /\ Marking(t)' = Marking(t) /\ joined'[t] = joined[t]
    BY <1>1, <1>2 DEF Opened, Marking, TypeOK
  <2>. QED  BY <1>1, <2>1, NobodyJoins DEF JoinedInv
<1>3. CASE t = token[h]
  <2>1. JoinsInv(t)
    BY DEF JoinedInv
  <2>2. /\ Opened(t)' = Opened(t) \ {h} /\ h \in Opened(t)
        /\ Marking(t)' = Marking(t) \cup {h} /\ h \notin Marking(t)
        /\ joined'[t] = joined[t] \cup {target[h]}
    BY <1>1, <1>3 DEF Opened, Marking, TypeOK
  <2>3. Cardinality(Opened(t)') = Cardinality(Opened(t)) - 1
    BY <2>1, <2>2, CountsAreNumbers, FS_RemoveElement
  <2>4. Cardinality(Marking(t)') = Cardinality(Marking(t)) + 1
    BY <2>1, <2>2, CountsAreNumbers, FS_AddElement
  <2>5. /\ IsFiniteSet(joined'[t])
        /\ Cardinality(joined'[t]) \in Nat
        /\ Cardinality(joined'[t]) <= Cardinality(joined[t]) + 1
    <3>1. CASE target[h] \in joined[t]
      <4>1. joined'[t] = joined[t]
        BY <2>2, <3>1
      <4>. QED  BY <2>1, <4>1, CountsAreNumbers
    <3>2. CASE target[h] \notin joined[t]
      <4>1. IsFiniteSet(joined[t]) /\ Cardinality(joined[t]) \in Nat
        BY <2>1, CountsAreNumbers
      <4>2. /\ IsFiniteSet(joined[t] \cup {target[h]})
            /\ Cardinality(joined[t] \cup {target[h]}) = Cardinality(joined[t]) + 1
        BY <3>2, <4>1, FS_AddElement
      <4>. QED  BY <2>2, <4>1, <4>2
    <3>. QED  BY <3>1, <3>2
  <2>. QED  BY <1>1, <2>1, <2>3, <2>4, <2>5, CountsAreNumbers DEF JoinsInv
<1>. QED  BY <1>2, <1>3

LEMMA CrashKeepsJoins ==
  ASSUME TypeOK, JoinedInv, NEW h \in Handlers, Crash(h)
  PROVE  \A t \in Tokens : JoinsInv(t)'
<1>1. /\ UNCHANGED <<joined, status>> /\ crashes' = crashes + 1
      /\ pc' = [pc EXCEPT ![h] = "idle"] /\ token' = [token EXCEPT ![h] = Null]
  BY DEF Crash, GoTo, Forget, invites, history
<1>. SUFFICES ASSUME NEW t \in Tokens PROVE JoinsInv(t)'
  OBVIOUS
<1>2. JoinsInv(t)
  BY DEF JoinedInv
<1>3. Opened(t)' \subseteq Opened(t) /\ Marking(t)' = Marking(t) \ {h}
  BY <1>1 DEF Opened, Marking, TypeOK
<1>4. Cardinality(Opened(t)') <= Cardinality(Opened(t)) /\ Cardinality(Opened(t)') \in Nat
  BY <1>2, <1>3, CountsAreNumbers, FS_Subset, FS_CardinalityType
<1>5. /\ Cardinality(Marking(t)') \in Nat
      /\ Cardinality(Marking(t)) <= Cardinality(Marking(t)') + 1
  <2>1. CASE h \in Marking(t)
    <3>1. Cardinality(Marking(t)') = Cardinality(Marking(t)) - 1 /\ IsFiniteSet(Marking(t)')
      BY <1>2, <1>3, <2>1, CountsAreNumbers, FS_RemoveElement
    <3>2. Cardinality(Marking(t)') \in Nat
      BY <3>1, FS_CardinalityType
    <3>. QED  BY <1>2, <3>1, <3>2, CountsAreNumbers
  <2>2. CASE h \notin Marking(t)
    <3>1. Marking(t)' = Marking(t)
      BY <1>3, <2>2
    <3>. QED  BY <1>2, <3>1, CountsAreNumbers
  <2>. QED  BY <2>1, <2>2
<1>. QED  BY <1>1, <1>2, <1>4, <1>5, CountsAreNumbers DEF JoinsInv

LEMMA MarkKeepsJoins ==
  ASSUME TypeOK, JoinedInv, NEW h \in Handlers, MarkAccepted(h)
  PROVE  \A t \in Tokens : JoinsInv(t)'
<1>1. /\ UNCHANGED <<joined, crashes>> /\ pc[h] = "mark" /\ token[h] \in Tokens
      /\ pc' = [pc EXCEPT ![h] = "idle"] /\ token' = [token EXCEPT ![h] = Null]
      /\ status' = IF RowExists(token[h])
                    THEN [status EXCEPT ![token[h]] = "accepted"] ELSE status
  BY DEF MarkAccepted, End, GoTo, Forget, history, TypeOK
<1>2. status'[token[h]] \notin {"unused", "pending"}
  <2>1. status[token[h]] # "unused"
    BY <1>1, MembershipAssumption DEF JoinedInv, TokensWereSent
  <2>. QED  BY <1>1, <2>1 DEF RowExists, TypeOK
<1>. SUFFICES ASSUME NEW t \in Tokens PROVE JoinsInv(t)'
  OBVIOUS
<1>3. Opened(t)' \subseteq Opened(t)
  BY <1>1 DEF Opened, TypeOK
<1>4. ASSUME status'[t] \in {"unused", "pending"}
      PROVE  status[t] \in {"unused", "pending"} /\ Marking(t)' = Marking(t)
  <2>1. t # token[h]
    BY <1>2, <1>4
  <2>. QED  BY <1>1, <1>4, <2>1 DEF Marking, TypeOK
<1>. QED  BY <1>1, <1>3, <1>4, NobodyJoins DEF JoinedInv

(* A token stands for an invite that was made.                                *)
LEMMA SentStep ==
  ASSUME TypeOK, TokensWereSent, [Next]_vars
  PROVE  TokensWereSent'
<1>1. ASSUME \A t \in Tokens : status[t] # "unused" => status'[t] # "unused",
             \A h \in Handlers : token'[h] \in {Null, token[h]}
      PROVE  TokensWereSent'
  BY <1>1 DEF TokensWereSent, TypeOK
<1>2. ASSUME NEW h \in Handlers, GoTo(h, "idle"), Forget(h),
             \A t \in Tokens : status[t] # "unused" => status'[t] # "unused"
      PROVE  TokensWereSent'
  BY <1>1, <1>2 DEF Forget, TypeOK
<1>3. ASSUME UNCHANGED <<status, token>> PROVE TokensWereSent'
  BY <1>1, <1>3
<1>4. CASE \E h \in Handlers, u \in Users :
             Admit(h, u) \/ FindMember(h, u) \/ CreateUser(h, u) \/ AskForWorkspace(h, u)
  BY <1>3, <1>4 DEF Admit, FindMember, CreateUser, AskForWorkspace, invites
<1>5. CASE \E h \in Handlers, t \in Tokens : FindInvite(h, t) \/ OpenInvite(h, t)
  BY <1>5 DEF FindInvite, OpenInvite, invites, TokensWereSent, TypeOK
<1>6. ASSUME NEW h \in Handlers,
             \/ \E r \in Roles : SaveRole(h, r)
             \/ \E u \in Users : UsernameTaken(h, u)
             \/ SaveRemoval(h) \/ SendReminder(h) \/ Refuse(h) \/ SlugTaken(h)
             \/ EnterWorkspace(h) \/ Crash(h)
      PROVE  TokensWereSent'
  <2>1. GoTo(h, "idle") /\ Forget(h) /\ UNCHANGED status
    BY <1>6 DEF SaveRole, UsernameTaken, SaveRemoval, SendReminder, Refuse, SlugTaken,
       EnterWorkspace, Crash, End, invites
  <2>. QED  BY <1>2, <2>1
<1>7. ASSUME NEW h \in Handlers,
             \/ \E t \in Tokens, e \in Emails, r \in Roles : CreateInvite(h, t, e, r)
             \/ RevokeInvite(h) \/ MarkAccepted(h)
      PROVE  TokensWereSent'
  <2>1. /\ GoTo(h, "idle") /\ Forget(h)
        /\ \A t \in Tokens : status[t] # "unused" => status'[t] # "unused"
    BY <1>7 DEF CreateInvite, RevokeInvite, MarkAccepted, End, TypeOK
  <2>. QED  BY <1>2, <2>1
<1>8. CASE \E h \in Handlers : JoinOrganization(h) \/ MakeWorkspace(h)
  BY <1>3, <1>8 DEF JoinOrganization, MakeWorkspace, invites, locals
<1>9. CASE \E t \in Tokens : SevenDaysPass(t)
  BY <1>3, <1>9 DEF SevenDaysPass, locals
<1>10. CASE UNCHANGED vars
  BY <1>3, <1>10 DEF vars
<1>. QED  BY <1>4, <1>5, <1>6, <1>7, <1>8, <1>9, <1>10, NextCases

LEMMA JoinedHolds == Spec => []JoinedInv
<1>1. Init => JoinedInv
  <2>. SUFFICES ASSUME Init PROVE JoinedInv
    OBVIOUS
  <2>1. TokensWereSent
    BY DEF Init, TokensWereSent
  <2>2. ASSUME NEW t \in Tokens PROVE JoinsInv(t)
    <3>1. joined[t] = {} /\ Opened(t) = {} /\ crashes = 0 /\ Marking(t) = {}
      BY DEF Init, Opened, Marking
    <3>2. Cardinality(Handlers) \in Nat
      BY MembershipAssumption, FS_CardinalityType
    <3>. QED  BY <3>1, <3>2, FS_EmptySet DEF JoinsInv
  <2>. QED  BY <2>1, <2>2 DEF JoinedInv
<1>2. ASSUME TypeOK, JoinedInv, [Next]_vars PROVE JoinedInv'
  <2>. USE <1>2
  <2>1. SUFFICES \A t \in Tokens : JoinsInv(t)'
    BY SentStep DEF JoinedInv
  <2>2. ASSUME NEW h \in Handlers, NEW u \in Users,
               \/ Admit(h, u) \/ FindMember(h, u) \/ CreateUser(h, u)
               \/ UsernameTaken(h, u) \/ AskForWorkspace(h, u)
        PROVE \A t \in Tokens : JoinsInv(t)'
    BY <2>2, OtherStepKeepsJoins
       DEF Admit, FindMember, CreateUser, UsernameTaken, AskForWorkspace, End, GoTo, Forget,
           TypeOK, invites, history
  <2>3. ASSUME NEW h \in Handlers,
               \/ \E r \in Roles : SaveRole(h, r)
               \/ SaveRemoval(h) \/ SendReminder(h) \/ Refuse(h) \/ SlugTaken(h)
               \/ EnterWorkspace(h)
        PROVE \A t \in Tokens : JoinsInv(t)'
    <3>1. /\ End(h) /\ UNCHANGED <<status, joined>>
          /\ pc[h] \in {"promote", "remove", "remind", "admitted", "provision", "adopt"}
      BY <2>3 DEF SaveRole, SaveRemoval, SendReminder, Refuse, SlugTaken, EnterWorkspace,
         invites, history
    <3>. QED  BY <3>1, OtherStepKeepsJoins DEF End, GoTo, Forget, TypeOK
  <2>4. ASSUME NEW h \in Handlers, NEW t \in Tokens, NEW e \in Emails, NEW r \in Roles,
               CreateInvite(h, t, e, r)
        PROVE \A u \in Tokens : JoinsInv(u)'
    BY <2>4, OtherStepKeepsJoins DEF CreateInvite, End, GoTo, Forget, TypeOK, history
  <2>5. ASSUME NEW h \in Handlers, NEW t \in Tokens, FindInvite(h, t)
        PROVE \A u \in Tokens : JoinsInv(u)'
    <3>1. \E step \in {"revoke", "remind"} : pc' = [pc EXCEPT ![h] = step]
      BY <2>5 DEF FindInvite, GoTo
    <3>. QED  BY <2>5, <3>1, OtherStepKeepsJoins DEF FindInvite, TypeOK, invites, history
  <2>6. ASSUME NEW h \in Handlers, RevokeInvite(h)
        PROVE \A t \in Tokens : JoinsInv(t)'
    BY <2>6, OtherStepKeepsJoins DEF RevokeInvite, End, GoTo, Forget, TypeOK, history
  <2>7. ASSUME NEW h \in Handlers, MakeWorkspace(h)
        PROVE \A t \in Tokens : JoinsInv(t)'
    BY <2>7, OtherStepKeepsJoins DEF MakeWorkspace, GoTo, TypeOK, invites, locals, history
  <2>8. CASE \E h \in Handlers, t \in Tokens : OpenInvite(h, t)
    BY <2>8, OpenKeepsJoins
  <2>9. CASE \E h \in Handlers : JoinOrganization(h) \/ MarkAccepted(h) \/ Crash(h)
    BY <2>9, JoinKeepsJoins, MarkKeepsJoins, CrashKeepsJoins
  <2>10. CASE UNCHANGED <<status, joined, crashes, pc, token>>
    BY <2>10, NobodyJoins DEF JoinedInv, Opened, Marking
  <2>11. CASE \E t \in Tokens : SevenDaysPass(t)
    BY <2>10, <2>11 DEF SevenDaysPass, locals, history
  <2>12. CASE UNCHANGED vars
    BY <2>10, <2>12 DEF vars
  <2>. QED
    BY <2>2, <2>3, <2>4, <2>5, <2>6, <2>7, <2>8, <2>9, <2>11, <2>12, NextCases
<1>. QED  BY <1>1, <1>2, TypeCorrect, PTL DEF Spec

(* A link lets in no more than there are handlers and crashes.                *)
THEOREM JoinsBounded == Spec => []JoinsAreBounded
<1>1. JoinedInv => JoinsAreBounded
  BY DEF JoinedInv, JoinsInv, JoinsAreBounded
<1>. QED  BY <1>1, JoinedHolds, PTL

-----------------------------------------------------------------------------
(* Who has been in the organization was brought in by an invite, and has an  *)
(* account since; who is about to join has not been.                         *)
Known(u) == u = Founder \/ \E t \in Tokens : u \in joined[t]

MembersAreKnown == \A u \in Users : place[u] = "organization" => Known(u)
KnownExist      == \A u \in Users : Known(u) => place[u] # "unregistered"
JoinersAreNew   == \A h \in Handlers : pc[h] = "join" => ~Known(target[h])

KnownInv == MembersAreKnown /\ KnownExist /\ JoinersAreNew

(* Steps that bring nobody in and make no account.                           *)
LEMMA NobodyComes ==
  ASSUME TypeOK, KnownInv, joined' = joined,
         \A u \in Users : place'[u] = place[u] \/ place'[u] \in {"nowhere", "workspace"},
         \A h \in Handlers : pc'[h] = "join" => pc[h] = "join" /\ target'[h] = target[h]
  PROVE  KnownInv'
<1>1. \A u : Known(u)' <=> Known(u)
  BY DEF Known
<1>2. \A h \in Handlers : pc[h] = "join" => target[h] \in Users
  BY DEF TypeOK
<1>. QED  BY <1>1, <1>2 DEF KnownInv, MembersAreKnown, KnownExist, JoinersAreNew

LEMMA KnownStep ==
  ASSUME TypeOK, RemovedInv, KnownInv, [Next]_vars
  PROVE  KnownInv'
<1>1. ASSUME NEW h \in Handlers, UNCHANGED <<place, joined>>,
             pc'[h] # "join", \A k \in Handlers \ {h} : pc'[k] = pc[k] /\ target'[k] = target[k]
      PROVE  KnownInv'
  BY <1>1, NobodyComes
<1>2. ASSUME NEW h \in Handlers, NEW u \in Users,
             \/ Admit(h, u) \/ FindMember(h, u) \/ UsernameTaken(h, u) \/ AskForWorkspace(h, u)
      PROVE  KnownInv'
  BY <1>1, <1>2 DEF Admit, FindMember, UsernameTaken, AskForWorkspace, End, GoTo, Forget,
     TypeOK, profiles, history
<1>3. ASSUME NEW h \in Handlers,
             \/ \E r \in Roles : SaveRole(h, r)
             \/ \E t \in Tokens, e \in Emails, r \in Roles : CreateInvite(h, t, e, r)
             \/ RevokeInvite(h) \/ SendReminder(h) \/ Refuse(h) \/ MarkAccepted(h)
             \/ SlugTaken(h) \/ Crash(h)
      PROVE  KnownInv'
  <2>1. GoTo(h, "idle") /\ Forget(h) /\ UNCHANGED <<place, joined>>
    BY <1>3 DEF SaveRole, CreateInvite, RevokeInvite, SendReminder, Refuse, MarkAccepted,
       SlugTaken, Crash, End, profiles, history
  <2>. QED  BY <1>1, <2>1 DEF GoTo, Forget, TypeOK
<1>4. ASSUME NEW h \in Handlers, NEW t \in Tokens, FindInvite(h, t) \/ OpenInvite(h, t)
      PROVE  KnownInv'
  BY <1>1, <1>4 DEF FindInvite, OpenInvite, GoTo, TypeOK, profiles, history
<1>5. ASSUME NEW h \in Handlers, SaveRemoval(h) \/ EnterWorkspace(h) PROVE KnownInv'
  BY <1>5, NobodyComes DEF SaveRemoval, EnterWorkspace, End, GoTo, Forget, TypeOK, history
<1>6. ASSUME NEW h \in Handlers, MakeWorkspace(h) PROVE KnownInv'
  BY <1>6, NobodyComes DEF MakeWorkspace, GoTo, TypeOK, locals, history
<1>7. ASSUME NEW h \in Handlers, NEW u \in Users, CreateUser(h, u) PROVE KnownInv'
  <2>1. /\ joined' = joined /\ place[u] = "unregistered" /\ place'[u] = "nowhere"
        /\ \A v \in Users \ {u} : place'[v] = place[v]
        /\ target'[h] = u
        /\ \A k \in Handlers \ {h} : pc'[k] = pc[k] /\ target'[k] = target[k]
    BY <1>7 DEF CreateUser, GoTo, TypeOK, history
  <2>2. \A v : Known(v)' <=> Known(v)
    BY <2>1 DEF Known
  <2>3. ~Known(u)
    BY <2>1 DEF KnownInv, KnownExist
  <2>4. MembersAreKnown' /\ KnownExist'
    BY <2>1, <2>2, <2>3 DEF KnownInv, MembersAreKnown, KnownExist
  <2>5. JoinersAreNew'
    BY <2>1, <2>2, <2>3 DEF KnownInv, JoinersAreNew
  <2>. QED  BY <2>4, <2>5 DEF KnownInv
<1>8. ASSUME NEW h \in Handlers, JoinOrganization(h) PROVE KnownInv'
  <2>1. PICK u \in Users, t \in Tokens : u = target[h] /\ t = token[h]
    BY <1>8 DEF JoinOrganization, TypeOK
  <2>2. /\ pc[h] = "join" /\ pc'[h] = "mark" /\ target' = target
        /\ place'[u] = "organization" /\ joined'[t] = joined[t] \cup {u}
        /\ \A v \in Users \ {u} : place'[v] = place[v]
        /\ \A s \in Tokens \ {t} : joined'[s] = joined[s]
        /\ \A k \in Handlers \ {h} : pc'[k] = pc[k]
    BY <1>8, <2>1 DEF JoinOrganization, GoTo, TypeOK, locals
  <2>3. \A v : Known(v)' <=> Known(v) \/ v = u
    BY <2>2 DEF Known
  <2>4. MembersAreKnown' /\ KnownExist'
    BY <2>2, <2>3 DEF KnownInv, MembersAreKnown, KnownExist
  <2>5. \A k \in Handlers \ {h} : pc[k] = "join" => target[k] # u
    BY <2>1, <2>2 DEF RemovedInv, JoinersAreAlone
  <2>6. JoinersAreNew'
    BY <2>2, <2>3, <2>5 DEF KnownInv, JoinersAreNew
  <2>. QED  BY <2>4, <2>6 DEF KnownInv
<1>9. CASE \E t \in Tokens : SevenDaysPass(t)
  BY <1>9, NobodyComes DEF SevenDaysPass, profiles, locals, history
<1>10. CASE UNCHANGED vars
  BY <1>10, NobodyComes DEF vars
<1>. QED
  BY <1>2, <1>3, <1>4, <1>5, <1>6, <1>7, <1>8, <1>9, <1>10, NextCases

LEMMA KnownHolds == Spec => []KnownInv
<1>1. Init => KnownInv
  BY DEF Init, KnownInv, MembersAreKnown, KnownExist, JoinersAreNew, Known
<1>. QED  BY <1>1, KnownStep, TypeCorrect, RemovedHolds, PTL DEF Spec

-----------------------------------------------------------------------------
(* The variables of Admission, and its steps.                                *)
Members  == {u \in Users : place[u] = "organization"}
Register == <<Members, status, joined>>

AdmissionInv == TypeOK /\ AcceptedInv /\ RemovedInv /\ JoinedInv /\ KnownInv

(* One profile leaves the organization, or was outside already.              *)
LEMMA OneLeaves ==
  ASSUME TypeOK, UNCHANGED <<status, joined>>, NEW u \in Users, place'[u] # "organization",
         \A v \in Users \ {u} : place'[v] = place[v]
  PROVE  [Seen!Next]_Register
<1>1. CASE place[u] = "organization"
  <2>1. Members' = Members \ {u} /\ u \in Members
    BY <1>1 DEF Members
  <2>. QED  BY <2>1 DEF Seen!Next, Seen!Leave, Members
<1>2. CASE place[u] # "organization"
  BY <1>2 DEF Register, Members
<1>. QED  BY <1>1, <1>2

LEMMA JoinAdmits ==
  ASSUME AdmissionInv, NEW h \in Handlers, JoinOrganization(h)
  PROVE  [Seen!Next]_Register
<1>1. PICK u \in Users, t \in Tokens : u = target[h] /\ t = token[h]
  BY DEF JoinOrganization, AdmissionInv, TypeOK
<1>2. /\ status[t] # "unused"
      /\ u # Founder /\ \A s \in Tokens : u \notin joined[s]
  BY <1>1, MembershipAssumption DEF JoinOrganization, AdmissionInv, JoinedInv, TokensWereSent,
     KnownInv, JoinersAreNew, Known
<1>3. /\ Members' = Members \cup {u}
      /\ joined' = [joined EXCEPT ![t] = @ \cup {u}]
      /\ status' = status
  BY <1>1 DEF JoinOrganization, AdmissionInv, TypeOK, invites, Members
<1>4. Seen!Join(t, u)
  BY <1>2, <1>3 DEF Seen!Join, Members
<1>. QED  BY <1>4 DEF Seen!Next

LEMMA InvitesAdvance ==
  ASSUME AdmissionInv, UNCHANGED <<place, joined>>, NEW t \in Tokens,
         \/ /\ status[t] = "unused"
            /\ status' = [status EXCEPT ![t] = "pending"]
         \/ /\ status[t] # "unused"
            /\ status' = [status EXCEPT ![t] = "deleted"]
         \/ /\ RowExists(t) /\ joined[t] # {}
            /\ status' = [status EXCEPT ![t] = "accepted"]
  PROVE  [Seen!Next]_Register
<1>1. Members' = Members
  BY DEF Members
<1>2. CASE status' = status
  BY <1>1, <1>2 DEF Register
<1>3. CASE status' # status
  <2>1. status[t] \in Statuses /\ \A x : status[t] = x => [status EXCEPT ![t] = x] = status
    BY DEF AdmissionInv, TypeOK
  <2>2. Seen!Invite(t) \/ Seen!Withdraw(t) \/ Seen!Accept(t)
    BY <1>1, <1>3, <2>1
    DEF Seen!Invite, Seen!Withdraw, Seen!Accept, Members, Statuses, RowExists
  <2>. QED  BY <2>2 DEF Seen!Next
<1>. QED  BY <1>2, <1>3

LEMMA AdmissionStep ==
  ASSUME AdmissionInv, [Next]_vars PROVE [Seen!Next]_Register
<1>1. CASE UNCHANGED <<place, status, joined>>
  BY <1>1 DEF Register, Members
<1>2. ASSUME NEW h \in Handlers, NEW u \in Users,
             Admit(h, u) \/ FindMember(h, u) \/ UsernameTaken(h, u) \/ AskForWorkspace(h, u)
      PROVE  [Seen!Next]_Register
  BY <1>1, <1>2 DEF Admit, FindMember, UsernameTaken, AskForWorkspace, profiles, invites, history
<1>3. ASSUME NEW h \in Handlers,
             \/ \E r \in Roles : SaveRole(h, r)
             \/ \E t \in Tokens : FindInvite(h, t) \/ OpenInvite(h, t)
             \/ SendReminder(h) \/ Refuse(h) \/ MakeWorkspace(h) \/ SlugTaken(h) \/ Crash(h)
      PROVE  [Seen!Next]_Register
  BY <1>1, <1>3 DEF SaveRole, FindInvite, OpenInvite, SendReminder, Refuse, MakeWorkspace,
     SlugTaken, Crash, profiles, invites, history
<1>4. ASSUME NEW h \in Handlers, NEW u \in Users, CreateUser(h, u) PROVE [Seen!Next]_Register
  <2>1. /\ place'[u] # "organization" /\ UNCHANGED <<status, joined>>
        /\ \A v \in Users \ {u} : place'[v] = place[v]
    BY <1>4 DEF CreateUser, AdmissionInv, TypeOK, invites, history
  <2>. QED  BY <2>1, OneLeaves DEF AdmissionInv
<1>5. ASSUME NEW h \in Handlers, SaveRemoval(h) \/ EnterWorkspace(h) PROVE [Seen!Next]_Register
  <2>1. PICK u \in Users : /\ place'[u] # "organization" /\ UNCHANGED <<status, joined>>
                           /\ \A v \in Users \ {u} : place'[v] = place[v]
    BY <1>5 DEF SaveRemoval, EnterWorkspace, AdmissionInv, TypeOK, invites, history
  <2>. QED  BY <2>1, OneLeaves DEF AdmissionInv
<1>6. ASSUME NEW h \in Handlers, JoinOrganization(h) PROVE [Seen!Next]_Register
  BY <1>6, JoinAdmits
<1>7. ASSUME NEW h \in Handlers, NEW t \in Tokens, NEW e \in Emails, NEW r \in Roles,
             CreateInvite(h, t, e, r)
      PROVE  [Seen!Next]_Register
  BY <1>7, InvitesAdvance DEF CreateInvite, profiles, history
<1>8. ASSUME NEW h \in Handlers, RevokeInvite(h) PROVE [Seen!Next]_Register
  <2>1. PICK t \in Tokens : t = token[h] /\ status[t] # "unused"
    BY <1>8, MembershipAssumption DEF RevokeInvite, AdmissionInv, TypeOK, JoinedInv, TokensWereSent
  <2>. QED  BY <1>8, <2>1, InvitesAdvance DEF RevokeInvite, profiles, history
<1>9. ASSUME NEW h \in Handlers, MarkAccepted(h) PROVE [Seen!Next]_Register
  <2>1. PICK t \in Tokens : t = token[h] /\ joined[t] # {}
    BY <1>9 DEF MarkAccepted, AdmissionInv, TypeOK, AcceptedInv, MarksAfterJoin
  <2>2. CASE RowExists(t)
    BY <1>9, <2>1, <2>2, InvitesAdvance DEF MarkAccepted, profiles, history
  <2>3. CASE ~RowExists(t)
    BY <1>1, <1>9, <2>1, <2>3 DEF MarkAccepted, profiles, history
  <2>. QED  BY <2>2, <2>3
<1>10. CASE \E t \in Tokens : SevenDaysPass(t)
  BY <1>1, <1>10 DEF SevenDaysPass, profiles, history
<1>11. CASE UNCHANGED vars
  BY <1>1, <1>11 DEF vars
<1>. QED
  BY <1>2, <1>3, <1>4, <1>5, <1>6, <1>7, <1>8, <1>9, <1>10, <1>11, NextCases

(* The views implement Admission, for any number of handlers, users and      *)
(* invites: an organization is joined once, through an invite that was made, *)
(* and left for good, however requests interleave, fail or act on what they  *)
(* read before.                                                              *)
THEOREM AdmissionKept == Spec => KeepsAdmission
<1>1. Init => Seen!Init
  BY MembershipAssumption DEF Init, Seen!Init
<1>2. TypeOK /\ AcceptedInv /\ RemovedInv /\ JoinedInv /\ KnownInv /\ [Next]_vars
        => [Seen!Next]_Register
  BY AdmissionStep DEF AdmissionInv
<1>. QED
  BY <1>1, <1>2, TypeCorrect, AcceptedHolds, RemovedHolds, JoinedHolds, KnownHolds, PTL
  DEF Spec, KeepsAdmission, Seen!Spec, Seen!register, Register, Members
=============================================================================
