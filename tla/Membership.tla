----------------------------- MODULE Membership -----------------------------
(***************************************************************************)
(* Who belongs to an organization: the member and invite views of           *)
(* monitor/views/settings_views.py, the public accept view, and the         *)
(* onboarding view that gives a user without an organization a workspace of *)
(* their own (monitor/views/onboarding_views.py).                           *)
(*                                                                          *)
(* Web handlers run at the same time and the database is in autocommit      *)
(* mode: what a request has read - the role of its user, its target, the    *)
(* invite - may be stale when it writes.  A profile is in the organization, *)
(* in a workspace of its own, or in neither.                                *)
(*                                                                          *)
(* Definitions named Bad... are faulty variants of the definition after     *)
(* them, kept to show that the properties notice; no action uses them.      *)
(***************************************************************************)
EXTENDS FiniteSets, Naturals

CONSTANTS
  Handlers,       \* gunicorn worker processes
  Users,          \* usernames
  Founder,        \* the user who owns the organization at first
  Tokens,         \* invite tokens; bounds how many invites are ever made
  Emails,         \* addresses people are invited at
  MaxCrashes,     \* bounds handler crashes
  MaxWorkspaces,  \* bounds the workspaces a user makes
  Null

ASSUME MembershipAssumption ==
  /\ Founder \in Users
  /\ MaxCrashes \in Nat
  /\ MaxWorkspaces \in Nat
  /\ IsFiniteSet(Handlers)
  /\ Null \notin Users \cup Tokens \cup Emails

VARIABLES
  place,       \* place[u]: where the profile of u is
  role,        \* role[u]: its role
  workspaces,  \* workspaces[u]: personal organizations made for u
  status,      \* status[t]: the invite row with token t
  email,       \* email[t]: the address it was sent to
  grants,      \* grants[t]: the role it grants
  expired,     \* the invites older than seven days
  pc,          \* pc[h]: what handler h does next
  actor,       \* actor[h]: the user logged in
  actsAs,      \* actsAs[h]: the role of the actor when the request began
  target,      \* target[h]: the user it works on
  token,       \* token[h]: the invite it works on
  slug,        \* slug[h]: the number of the workspace it is about to make
  joined,      \* joined[t]: the users who joined through t
  removed,     \* the users removed from the organization
  crashes

profiles == <<place, role, workspaces>>
invites  == <<status, email, grants, expired>>
locals   == <<actor, actsAs, target, token, slug>>
history  == <<joined, removed>>
vars     == <<place, role, workspaces, status, email, grants, expired, pc, actor,
              actsAs, target, token, slug, joined, removed, crashes>>

Roles    == {"member", "admin", "owner"}   \* viewers and operators are members
Places   == {"unregistered", "nowhere", "organization", "workspace"}
Statuses == {"unused", "pending", "accepted", "deleted"}
Steps    == {"idle", "admitted", "promote", "remove", "revoke", "remind",
             "accept", "join", "mark", "provision", "adopt"}

RowExists(t) == status[t] \in {"pending", "accepted"}

Init ==
  /\ place = [u \in Users |-> IF u = Founder THEN "organization" ELSE "unregistered"]
  /\ role = [u \in Users |-> IF u = Founder THEN "owner" ELSE "member"]
  /\ workspaces = [u \in Users |-> 0]
  /\ status = [t \in Tokens |-> "unused"]
  /\ email = [t \in Tokens |-> Null]
  /\ grants = [t \in Tokens |-> "member"]
  /\ expired = {}
  /\ pc = [h \in Handlers |-> "idle"]
  /\ actor = [h \in Handlers |-> Null]
  /\ actsAs = [h \in Handlers |-> "member"]
  /\ target = [h \in Handlers |-> Null]
  /\ token = [h \in Handlers |-> Null]
  /\ slug = [h \in Handlers |-> 0]
  /\ joined = [t \in Tokens |-> {}]
  /\ removed = {}
  /\ crashes = 0

GoTo(h, step) == pc' = [pc EXCEPT ![h] = step]

Forget(h) ==
  /\ actor' = [actor EXCEPT ![h] = Null]
  /\ actsAs' = [actsAs EXCEPT ![h] = "member"]
  /\ target' = [target EXCEPT ![h] = Null]
  /\ token' = [token EXCEPT ![h] = Null]
  /\ slug' = [slug EXCEPT ![h] = 0]

End(h) == GoTo(h, "idle") /\ Forget(h) /\ UNCHANGED crashes

-----------------------------------------------------------------------------
(* The views for administrators.  TenantMiddleware and require_admin look at *)
(* the profile once; request.user keeps it for the rest of the request.      *)

Admit(h, u) ==
  /\ pc[h] = "idle"
  /\ place[u] = "organization"
  /\ role[u] \in {"admin", "owner"}
  /\ GoTo(h, "admitted")
  /\ actor' = [actor EXCEPT ![h] = u]
  /\ actsAs' = [actsAs EXCEPT ![h] = role[u]]
  /\ UNCHANGED <<profiles, invites, target, token, slug, history, crashes>>

(* get_object_or_404 of a member, in both member views; nobody removes       *)
(* themselves.  What a request does not use any more is cleared.             *)
FindMember(h, u) ==
  /\ pc[h] = "admitted"
  /\ place[u] = "organization"
  /\ \/ GoTo(h, "promote") /\ UNCHANGED actsAs
     \/ u # actor[h] /\ GoTo(h, "remove") /\ actsAs' = [actsAs EXCEPT ![h] = "member"]
  /\ target' = [target EXCEPT ![h] = u]
  /\ actor' = [actor EXCEPT ![h] = Null]
  /\ UNCHANGED <<profiles, invites, token, slug, history, crashes>>

(* change_member_role saves one column of the profile it found.              *)
BadSaveRole(h, r) ==   \* member.profile.save() of every column
  /\ pc[h] = "promote"
  /\ r = "owner" => actsAs[h] = "owner"
  /\ role' = [role EXCEPT ![target[h]] = r]
  /\ place' = [place EXCEPT ![target[h]] = "organization"]
  /\ End(h)
  /\ UNCHANGED <<workspaces, invites, history>>

SaveRole(h, r) ==
  /\ pc[h] = "promote"
  /\ r = "owner" => actsAs[h] = "owner"
  /\ role' = [role EXCEPT ![target[h]] = r]
  /\ End(h)
  /\ UNCHANGED <<place, workspaces, invites, history>>

SaveRemoval(h) ==
  /\ pc[h] = "remove"
  /\ place' = [place EXCEPT ![target[h]] = "nowhere"]
  /\ removed' = removed \cup {target[h]}
  /\ End(h)
  /\ UNCHANGED <<role, workspaces, invites, joined>>

(* (organization, email) is unique, accepted invites included.               *)
EmailIsFree(e) == \A t \in Tokens : RowExists(t) => email[t] # e

CreateInvite(h, t, e, r) ==
  /\ pc[h] = "admitted"
  /\ status[t] = "unused"
  /\ EmailIsFree(e)
  /\ status' = [status EXCEPT ![t] = "pending"]
  /\ email' = [email EXCEPT ![t] = e]
  /\ grants' = [grants EXCEPT ![t] = r]
  /\ End(h)
  /\ UNCHANGED <<profiles, expired, history>>

(* get_object_or_404(..., accepted_at__isnull=True) of revoke and resend.    *)
FindInvite(h, t) ==
  /\ pc[h] = "admitted"
  /\ status[t] = "pending"
  /\ \E step \in {"revoke", "remind"} : GoTo(h, step)
  /\ token' = [token EXCEPT ![h] = t]
  /\ actor' = [actor EXCEPT ![h] = Null]
  /\ actsAs' = [actsAs EXCEPT ![h] = "member"]
  /\ UNCHANGED <<profiles, invites, target, slug, history, crashes>>

(* DELETE by primary key, whatever has become of the invite since.           *)
RevokeInvite(h) ==
  /\ pc[h] = "revoke"
  /\ status' = [status EXCEPT ![token[h]] = "deleted"]
  /\ End(h)
  /\ UNCHANGED <<profiles, email, grants, expired, history>>

(* resend_invite mails the link again and leaves expires_at as it is.        *)
SendReminder(h) ==
  /\ pc[h] = "remind"
  /\ End(h)
  /\ UNCHANGED <<profiles, invites, history>>

(* 404, 403 for who is not an owner, IntegrityError, or nothing to do.       *)
Refuse(h) ==
  /\ pc[h] \in {"admitted", "promote"}
  /\ End(h)
  /\ UNCHANGED <<profiles, invites, history>>

-----------------------------------------------------------------------------
(* accept_invite, for anybody who has the link.                              *)

BadOpenInvite(h, t) ==   \* does not ask is_accepted
  /\ pc[h] = "idle"
  /\ RowExists(t)
  /\ t \notin expired
  /\ GoTo(h, "accept")
  /\ token' = [token EXCEPT ![h] = t]
  /\ UNCHANGED <<profiles, invites, actor, actsAs, target, slug, history, crashes>>

OpenInvite(h, t) ==
  /\ pc[h] = "idle"
  /\ status[t] = "pending"
  /\ t \notin expired
  /\ GoTo(h, "accept")
  /\ token' = [token EXCEPT ![h] = t]
  /\ UNCHANGED <<profiles, invites, actor, actsAs, target, slug, history, crashes>>

(* The username check and the INSERT: a name that is taken in between is     *)
(* refused by its unique constraint, so one step stands for both.  The       *)
(* post_save signal gives the account a profile without organization.        *)
BadCreateUser(h, u) ==   \* forgets the user it made
  /\ pc[h] = "accept"
  /\ place[u] = "unregistered"
  /\ place' = [place EXCEPT ![u] = "nowhere"]
  /\ GoTo(h, "join")
  /\ UNCHANGED <<role, workspaces, invites, locals, history, crashes>>

CreateUser(h, u) ==
  /\ pc[h] = "accept"
  /\ place[u] = "unregistered"
  /\ place' = [place EXCEPT ![u] = "nowhere"]
  /\ target' = [target EXCEPT ![h] = u]
  /\ GoTo(h, "join")
  /\ UNCHANGED <<role, workspaces, invites, actor, actsAs, token, slug, history, crashes>>

UsernameTaken(h, u) ==
  /\ pc[h] = "accept"
  /\ place[u] # "unregistered"
  /\ End(h)
  /\ UNCHANGED <<profiles, invites, history>>

JoinOrganization(h) ==
  /\ pc[h] = "join"
  /\ place' = [place EXCEPT ![target[h]] = "organization"]
  /\ role' = [role EXCEPT ![target[h]] = grants[token[h]]]
  /\ joined' = [joined EXCEPT ![token[h]] = @ \cup {target[h]}]
  /\ GoTo(h, "mark")
  /\ UNCHANGED <<workspaces, invites, locals, removed, crashes>>

(* save(update_fields=["accepted_at"]); it raises when the row is gone.      *)
BadMarkAccepted(h) ==   \* marks the invite when the account is made
  /\ pc[h] = "join"
  /\ status' = IF RowExists(token[h])
               THEN [status EXCEPT ![token[h]] = "accepted"] ELSE status
  /\ End(h)
  /\ UNCHANGED <<profiles, email, grants, expired, history>>

MarkAccepted(h) ==
  /\ pc[h] = "mark"
  /\ status' = IF RowExists(token[h])
               THEN [status EXCEPT ![token[h]] = "accepted"] ELSE status
  /\ End(h)
  /\ UNCHANGED <<profiles, email, grants, expired, history>>

-----------------------------------------------------------------------------
(* enable_demo_fleet, which TenantMiddleware lets through for a user without *)
(* an organization.  Slugs are numbered per user; the number is looked up    *)
(* first, and the unique constraint refuses one that is taken meanwhile.     *)

AskForWorkspace(h, u) ==
  /\ pc[h] = "idle"
  /\ place[u] = "nowhere"
  /\ workspaces[u] < MaxWorkspaces
  /\ GoTo(h, "provision")
  /\ actor' = [actor EXCEPT ![h] = u]
  /\ slug' = [slug EXCEPT ![h] = workspaces[u] + 1]
  /\ UNCHANGED <<profiles, invites, actsAs, target, token, history, crashes>>

MakeWorkspace(h) ==
  LET u == actor[h] IN
  /\ pc[h] = "provision"
  /\ slug[h] > workspaces[u]
  /\ workspaces' = [workspaces EXCEPT ![u] = slug[h]]
  /\ GoTo(h, "adopt")
  /\ UNCHANGED <<place, role, invites, locals, history, crashes>>

SlugTaken(h) ==
  /\ pc[h] = "provision"
  /\ slug[h] <= workspaces[actor[h]]
  /\ End(h)
  /\ UNCHANGED <<profiles, invites, history>>

EnterWorkspace(h) ==
  /\ pc[h] = "adopt"
  /\ place' = [place EXCEPT ![actor[h]] = "workspace"]
  /\ role' = [role EXCEPT ![actor[h]] = "owner"]
  /\ End(h)
  /\ UNCHANGED <<workspaces, invites, history>>

-----------------------------------------------------------------------------
SevenDaysPass(t) ==
  /\ status[t] = "pending"
  /\ t \notin expired
  /\ expired' = expired \cup {t}
  /\ UNCHANGED <<profiles, status, email, grants, pc, locals, history, crashes>>

Crash(h) ==
  /\ pc[h] # "idle"
  /\ crashes < MaxCrashes
  /\ crashes' = crashes + 1
  /\ GoTo(h, "idle")
  /\ Forget(h)
  /\ UNCHANGED <<profiles, invites, history>>

MemberViews(h) ==
  \/ \E u \in Users : Admit(h, u) \/ FindMember(h, u)
  \/ \E r \in Roles : SaveRole(h, r)
  \/ SaveRemoval(h)

InviteViews(h) ==
  \/ \E t \in Tokens, e \in Emails, r \in Roles : CreateInvite(h, t, e, r)
  \/ \E t \in Tokens : FindInvite(h, t)
  \/ RevokeInvite(h) \/ SendReminder(h) \/ Refuse(h)

AcceptView(h) ==
  \/ \E t \in Tokens : OpenInvite(h, t)
  \/ \E u \in Users : CreateUser(h, u) \/ UsernameTaken(h, u)
  \/ JoinOrganization(h) \/ MarkAccepted(h)

OnboardingView(h) ==
  \/ \E u \in Users : AskForWorkspace(h, u)
  \/ MakeWorkspace(h) \/ SlugTaken(h) \/ EnterWorkspace(h)

Next ==
  \/ \E h \in Handlers : \/ MemberViews(h) \/ InviteViews(h)
                         \/ AcceptView(h) \/ OnboardingView(h) \/ Crash(h)
  \/ \E t \in Tokens : SevenDaysPass(t)

Spec == Init /\ [][Next]_vars

-----------------------------------------------------------------------------
(* Rows and locals have their types, and a request that has found its target *)
(* or its invite has one.                                                    *)
TypeOK ==
  /\ place \in [Users -> Places]
  /\ role \in [Users -> Roles]
  /\ workspaces \in [Users -> Nat]
  /\ status \in [Tokens -> Statuses]
  /\ email \in [Tokens -> Emails \cup {Null}]
  /\ grants \in [Tokens -> Roles]
  /\ expired \in SUBSET Tokens
  /\ pc \in [Handlers -> Steps]
  /\ actor \in [Handlers -> Users \cup {Null}]
  /\ actsAs \in [Handlers -> Roles]
  /\ target \in [Handlers -> Users \cup {Null}]
  /\ token \in [Handlers -> Tokens \cup {Null}]
  /\ slug \in [Handlers -> Nat]
  /\ joined \in [Tokens -> SUBSET Users]
  /\ removed \in SUBSET Users
  /\ crashes \in 0 .. MaxCrashes
  /\ \A h \in Handlers :
       /\ pc[h] \in {"promote", "remove", "join", "mark"} => target[h] \in Users
       /\ pc[h] \in {"revoke", "remind", "accept", "join", "mark"} => token[h] \in Tokens
       /\ pc[h] \in {"provision", "adopt"} => actor[h] \in Users

(* A member who is removed stays out, although a role change or an           *)
(* acceptance that read the profile before is saved after.                   *)
RemovedStaysOut == \A u \in removed : place[u] # "organization"

(* accepted_at is set after the join: whatever fails in between, an invite   *)
(* that can no longer be used has brought somebody in.                       *)
AcceptedMeansJoined == \A t \in Tokens : status[t] = "accepted" => joined[t] # {}

(* The views implement Admission: however their statements interleave, stop  *)
(* or act on what they read before, nobody is in the organization who was    *)
(* not brought in by an invite, once, and whoever leaves stays out.          *)
Seen == INSTANCE Admission WITH members <- {u \in Users : place[u] = "organization"}
KeepsAdmission == Seen!Spec

(* "Token is a UUID used as the one-time accept link."                       *)
(* (models/organization.py:206)                                              *)
OneTimeLink == \A t \in Tokens : Cardinality(joined[t]) <= 1

(* The link is not one-time, see OneTimeLink; this is what bounds its use.   *)
(* Requests that read the invite before it was marked, and one more for each *)
(* crash between the join and the mark: a link brings in, or may still bring *)
(* in, no more than that.                                                    *)
Opened(t) == {h \in Handlers : token[h] = t /\ pc[h] \in {"accept", "join"}}

JoinsAreBounded ==
  \A t \in Tokens :
    Cardinality(joined[t]) + Cardinality(Opened(t)) <= Cardinality(Handlers) + crashes
=============================================================================
