------------------------------ MODULE ReadApi -------------------------------
(***************************************************************************)
(* The requests of the console that share a gunicorn worker: a client of the*)
(* read API pages through a table with its API key (monitor/rest_api.py,    *)
(* api_auth.py, api_pagination.py), administrators create and revoke the    *)
(* key in the settings views, and TenantMiddleware keeps the organization   *)
(* of the request in a context variable of the process.                     *)
(*                                                                          *)
(* A statement of a request is an action; keys, memberships and rows change *)
(* between any two of them.  The rows are those of one listed table; i      *)
(* stands for the value of its ordering column, and present for the rows    *)
(* that exist and match the filters of the query.  A cursor stands for      *)
(* itself, undecoded.  The request a client waits for carries the cursor    *)
(* and the key of the client, which change only when it is answered.        *)
(*                                                                          *)
(* Definitions named Bad... are faulty variants of the definition after     *)
(* them, kept to show that the properties notice; no action uses them.      *)
(***************************************************************************)
EXTENDS Integers, FiniteSets

CONSTANTS
  Orgs, Users, Keys,
  Ids,         \* ordering values of the rows of the table
  Clients,     \* programs that list the table once
  Handlers,    \* gunicorn worker processes
  RowOrg,      \* RowOrg[i]: the organization of row i
  KeyOrg,      \* KeyOrg[k]: the organization of key k
  ReadKeys,    \* the keys with scope "read"
  KeyOf,       \* KeyOf[c]: the key client c sends
  Descending,  \* the clients that list alert events, newest first
  Limits,      \* the ?limit= a client may send; Null stands for none, or junk
  DefaultLimit, MaxLimit,
  Null

ASSUME ReadApiAssumption ==
  /\ Ids \subseteq Nat /\ IsFiniteSet(Ids)
  /\ RowOrg \in [Ids -> Orgs]
  /\ KeyOrg \in [Keys -> Orgs]
  /\ ReadKeys \subseteq Keys
  /\ KeyOf \in [Clients -> Keys]
  /\ Limits \subseteq Int \cup {Null}
  /\ DefaultLimit \in Nat \ {0} /\ MaxLimit \in Nat \ {0}
  /\ Null \notin Orgs \cup Keys \cup Int \cup Clients \cup Handlers

VARIABLES
  status,    \* status[k]: the row of key k
  expired,   \* the keys whose expires_at has passed
  granted,   \* the keys that are valid by what was last done to them
  member,    \* member[u]: the organization in the profile of user u
  present,   \* the rows of the table
  context,   \* context[h]: the context variable _current_org
  pc,        \* pc[h]: what handler h does next
  client,    \* client[h]: the client whose request it works on
  tenant,    \* tenant[h]: the organization it was admitted for
  target,    \* target[h]: the key it has read in order to revoke it
  usable,    \* usable[h]: the key was valid at some time since the request came
  phase,     \* phase[c]: where client c is with its listing
  conn,      \* conn[c]: the handler whose answer it waits for
  cursor,    \* cursor[c]: the cursor it sends
  got,       \* got[c][i]: how often row i was returned to it
  steady     \* steady[c]: the rows present ever since its listing began

keys    == <<status, expired, granted>>
request == <<context, pc, client, tenant, target, usable>>
listing == <<phase, conn, cursor, got, steady>>
vars    == <<keys, member, present, request, listing>>

KeyStates == {"absent", "active", "revoked", "deleted"}
ApiSteps  == {"find", "touch", "select"}
WebSteps  == {"view", "revoke"}
Steps     == {"idle", "open"} \cup ApiSteps \cup WebSteps
Phases    == {"new", "ask", "wait", "done", "refused"}

KeyExists(k) == status[k] \in {"active", "revoked"}
OrgOf(c)     == KeyOrg[KeyOf[c]]

Init ==
  /\ status = [k \in Keys |-> "absent"]
  /\ expired = {}
  /\ granted = {}
  /\ member \in [Users -> Orgs \cup {Null}]
  /\ present \in SUBSET Ids
  /\ context = [h \in Handlers |-> Null]
  /\ pc = [h \in Handlers |-> "idle"]
  /\ client = [h \in Handlers |-> Null]
  /\ tenant = [h \in Handlers |-> Null]
  /\ target = [h \in Handlers |-> Null]
  /\ usable = [h \in Handlers |-> FALSE]
  /\ phase = [c \in Clients |-> "new"]
  /\ conn = [c \in Clients |-> Null]
  /\ cursor = [c \in Clients |-> Null]
  /\ got = [c \in Clients |-> [i \in Ids |-> 0]]
  /\ steady = [c \in Clients |-> {}]

-----------------------------------------------------------------------------
(* The listed table, and what becomes of it between two statements.          *)

Appear(i) ==
  /\ i \notin present
  /\ present' = present \cup {i}
  /\ UNCHANGED <<keys, member, request, listing>>

Vanish(i) ==
  /\ i \in present
  /\ present' = present \ {i}
  /\ steady' = [c \in Clients |-> steady[c] \ {i}]
  /\ UNCHANGED <<keys, member, request, phase, conn, cursor, got>>

(* The order of a listing, and the rows its next query asks for.             *)
Before(c, i, j) == IF c \in Descending THEN j < i ELSE i < j

BadPast(c, i) == cursor[c] = Null \/ cursor[c] = i \/ Before(c, cursor[c], i)   \* gte
Past(c, i) == cursor[c] = Null \/ Before(c, cursor[c], i)

Matching(c)  == {i \in present : RowOrg[i] = OrgOf(c)}
Remaining(c) == {i \in Matching(c) : Past(c, i)}

-----------------------------------------------------------------------------
(* TenantMiddleware.  A request of the read API brings no session and a page *)
(* of the allowlist asks for none: both run with what context variable there *)
(* is.  A request with a session runs in the organization of its user, and   *)
(* without one it is turned away, which changes nothing.                     *)

Admit(h, org) ==
  /\ pc[h] = "idle"
  /\ tenant' = [tenant EXCEPT ![h] = org]
  /\ context' = IF org = Null THEN context ELSE [context EXCEPT ![h] = org]

VisitOpenPage(h) ==
  /\ Admit(h, Null)
  /\ pc' = [pc EXCEPT ![h] = "open"]
  /\ UNCHANGED <<keys, member, present, client, target, usable, listing>>

Visit(h, u) ==
  /\ member[u] # Null
  /\ Admit(h, member[u])
  /\ pc' = [pc EXCEPT ![h] = "view"]
  /\ UNCHANGED <<keys, member, present, client, target, usable, listing>>

(* The request is over: the view returned or raised, or the process died and *)
(* gunicorn started another.                                                 *)
Forget(h) ==
  /\ pc' = [pc EXCEPT ![h] = "idle"]
  /\ client' = [client EXCEPT ![h] = Null]
  /\ tenant' = [tenant EXCEPT ![h] = Null]
  /\ target' = [target EXCEPT ![h] = Null]
  /\ usable' = [usable EXCEPT ![h] = FALSE]

BadLeave(h) == UNCHANGED context /\ Forget(h)
Leave(h) ==
  /\ context' = IF tenant[h] = Null THEN context ELSE [context EXCEPT ![h] = Null]
  /\ Forget(h)

Crash(h) ==
  /\ pc[h] # "idle"
  /\ context' = [context EXCEPT ![h] = Null]
  /\ Forget(h)
  /\ UNCHANGED <<keys, member, present, listing>>

-----------------------------------------------------------------------------
(* The pages.  ShowPage is every view that reads; the views for              *)
(* administrators are in the decorator's hands (see Membership for roles).   *)

ShowPage(h) ==
  /\ pc[h] \in {"open", "view"}
  /\ Leave(h)
  /\ UNCHANGED <<keys, member, present, listing>>

(* A key gets its row, or another one.                                       *)
Valid(state, late) == state = "active" /\ ~late

SetKey(k, state, late) ==
  /\ status' = [status EXCEPT ![k] = state]
  /\ expired' = IF late THEN expired \cup {k} ELSE expired \ {k}
  /\ granted' = IF Valid(state, late) THEN granted \cup {k} ELSE granted \ {k}

Renew(k, state, late) ==
  usable' = [h \in Handlers |->
    usable[h] \/ (client[h] # Null /\ KeyOf[client[h]] = k /\ Valid(state, late))]

(* Nobody has sent a key that was not made yet.                              *)
CreateKey(h, k) ==
  /\ pc[h] = "view"
  /\ status[k] = "absent"
  /\ KeyOrg[k] = tenant[h]
  /\ SetKey(k, "active", FALSE)
  /\ Leave(h)
  /\ UNCHANGED <<member, present, listing>>

ReadKey(h, k) ==
  /\ pc[h] = "view"
  /\ KeyExists(k)
  /\ KeyOrg[k] = tenant[h]
  /\ pc' = [pc EXCEPT ![h] = "revoke"]
  /\ target' = [target EXCEPT ![h] = k]
  /\ UNCHANGED <<keys, member, present, context, client, tenant, usable, listing>>

(* save(update_fields=["active"]), which raises when the row is gone.        *)
SaveRevoked(h) ==
  /\ pc[h] = "revoke"
  /\ IF KeyExists(target[h])
       THEN SetKey(target[h], "revoked", target[h] \in expired)
       ELSE UNCHANGED keys
  /\ Leave(h)
  /\ UNCHANGED <<member, present, listing>>

(* The Django admin saves every column of its form, whenever it was opened;  *)
(* a row that was deleted in the meantime is inserted again.                 *)
AdminSavesKey(k, state, late) ==
  /\ status[k] # "absent"
  /\ SetKey(k, state, late)
  /\ Renew(k, state, late)
  /\ UNCHANGED <<member, present, context, pc, client, tenant, target, listing>>

DeleteKey(k) ==
  /\ KeyExists(k)
  /\ SetKey(k, "deleted", k \in expired)
  /\ UNCHANGED <<member, present, request, listing>>

Expire(k) ==
  /\ KeyExists(k)
  /\ k \notin expired
  /\ SetKey(k, status[k], TRUE)
  /\ UNCHANGED <<member, present, request, listing>>

(* Removals and invitations (Membership) move a user.                        *)
Move(u, org) ==
  /\ member[u] # org
  /\ member' = [member EXCEPT ![u] = org]
  /\ UNCHANGED <<keys, present, request, listing>>

-----------------------------------------------------------------------------
(* The client, and the answers it gets.                                      *)

Begin(c) ==
  /\ phase[c] = "new"
  /\ phase' = [phase EXCEPT ![c] = "ask"]
  /\ steady' = [steady EXCEPT ![c] = Matching(c)]
  /\ UNCHANGED <<keys, member, present, request, conn, cursor, got>>

Ask(c, h) ==
  /\ phase[c] = "ask"
  /\ KeyExists(KeyOf[c]) \/ status[KeyOf[c]] = "deleted"
  /\ Admit(h, Null)
  /\ pc' = [pc EXCEPT ![h] = "find"]
  /\ client' = [client EXCEPT ![h] = c]
  /\ usable' = [usable EXCEPT ![h] = KeyOf[c] \in granted]
  /\ phase' = [phase EXCEPT ![c] = "wait"]
  /\ conn' = [conn EXCEPT ![c] = h]
  /\ UNCHANGED <<keys, member, present, target, cursor, got, steady>>

(* The client gives up an attempt or its connection breaks; the handler does *)
(* not notice, and the client asks again.                                    *)
Retry(c) ==
  /\ phase[c] = "wait"
  /\ phase' = [phase EXCEPT ![c] = "ask"]
  /\ conn' = [conn EXCEPT ![c] = Null]
  /\ UNCHANGED <<keys, member, present, request, cursor, got, steady>>

Awaited(h) == conn[client[h]] = h

(* An answer without rows: 401 and 403 end the listing, 500 does not.        *)
BadAnswer(c, result) == phase' = [phase EXCEPT ![c] = result] /\ UNCHANGED conn
Answer(c, result) ==
  /\ phase' = [phase EXCEPT ![c] = result]
  /\ conn' = [conn EXCEPT ![c] = Null]

Refuse(h, result) ==
  /\ IF Awaited(h) THEN Answer(client[h], result) ELSE UNCHANGED <<phase, conn>>
  /\ Leave(h)
  /\ UNCHANGED <<cursor, got, steady>>

-----------------------------------------------------------------------------
(* A request of the read API.                                                *)

BadFound(k) == KeyExists(k) /\ k \notin expired   \* get(key_hash=key_hash)
Found(k) == status[k] = "active" /\ k \notin expired

FindKey(h) ==
  /\ pc[h] = "find"
  /\ IF Found(KeyOf[client[h]])
       THEN /\ pc' = [pc EXCEPT ![h] = "touch"]
            /\ UNCHANGED <<context, client, tenant, target, usable, listing>>
       ELSE Refuse(h, "refused")
  /\ UNCHANGED <<keys, member, present>>

(* UPDATE of last_used_at alone; refresh_from_db raises when the row is gone;*)
(* then the scope is looked at.                                              *)
BadTouchKey(h) ==   \* api_key.save(): active comes back
  /\ pc[h] = "touch"
  /\ status' = IF KeyExists(KeyOf[client[h]])
               THEN [status EXCEPT ![KeyOf[client[h]]] = "active"] ELSE status
  /\ IF KeyOf[client[h]] \in ReadKeys
       THEN /\ pc' = [pc EXCEPT ![h] = "select"]
            /\ UNCHANGED <<context, client, tenant, target, usable, listing>>
       ELSE Refuse(h, "refused")
  /\ UNCHANGED <<expired, granted, member, present>>

TouchKey(h) ==
  /\ pc[h] = "touch"
  /\ IF ~KeyExists(KeyOf[client[h]]) THEN Refuse(h, "ask")
     ELSE IF KeyOf[client[h]] \notin ReadKeys THEN Refuse(h, "refused")
     ELSE /\ pc' = [pc EXCEPT ![h] = "select"]
          /\ UNCHANGED <<context, client, tenant, target, usable, listing>>
  /\ UNCHANGED <<keys, member, present>>

BadLimit(raw) == IF raw = Null THEN DefaultLimit ELSE IF raw > MaxLimit THEN MaxLimit ELSE raw
Limit(raw) ==
  IF raw = Null THEN DefaultLimit
  ELSE IF raw > MaxLimit THEN MaxLimit
  ELSE IF raw < 1 THEN 1 ELSE raw

(* qs[:limit + 1]: the first rows of the query, and whether there are more.  *)
IsPage(c, page, limit) ==
  /\ page \subseteq Remaining(c)
  /\ \A i \in page, j \in Remaining(c) \ page : Before(c, i, j)
  /\ Cardinality(page) <= limit
  /\ page # Remaining(c) => Cardinality(page) = limit

LastOf(c, page, last) == last \in page /\ \A i \in page : i = last \/ Before(c, i, last)

Deliver(c, page) ==
  /\ got' = [got EXCEPT ![c] = [i \in Ids |-> IF i \in page THEN @[i] + 1 ELSE @[i]]]
  /\ IF page \in {{}, Remaining(c)}
       THEN Answer(c, "done") /\ UNCHANGED cursor
       ELSE /\ Answer(c, "ask")
            /\ \E last \in page : /\ LastOf(c, page, last)
                                  /\ cursor' = [cursor EXCEPT ![c] = last]
  /\ UNCHANGED steady

SelectPage(h) ==
  /\ pc[h] = "select"
  /\ IF Awaited(h)
       THEN \E raw \in Limits, page \in SUBSET Remaining(client[h]) :
              IsPage(client[h], page, Limit(raw)) /\ Deliver(client[h], page)
       ELSE UNCHANGED listing
  /\ Leave(h)
  /\ UNCHANGED <<keys, member, present>>

-----------------------------------------------------------------------------
Rows == \E i \in Ids : Appear(i) \/ Vanish(i)

WebRequest(h) ==
  \/ VisitOpenPage(h) \/ ShowPage(h) \/ SaveRevoked(h)
  \/ \E u \in Users : Visit(h, u)
  \/ \E k \in Keys : CreateKey(h, k) \/ ReadKey(h, k)

ApiRequest(h) == FindKey(h) \/ TouchKey(h) \/ SelectPage(h)

Listing ==
  \E c \in Clients : Begin(c) \/ Retry(c) \/ \E h \in Handlers : Ask(c, h)

Admin ==
  \/ \E k \in Keys : DeleteKey(k) \/ Expire(k)
  \/ \E k \in Keys, state \in {"active", "revoked"}, late \in BOOLEAN :
       AdminSavesKey(k, state, late)
  \/ \E u \in Users, org \in Orgs \cup {Null} : Move(u, org)

Next ==
  \/ Rows \/ Listing \/ Admin
  \/ \E h \in Handlers : WebRequest(h) \/ ApiRequest(h) \/ Crash(h)

Spec == Init /\ [][Next]_vars

-----------------------------------------------------------------------------
(* Everything has its type; a handler has a client in an API request and a   *)
(* key in a revocation, and a client waits for a handler that works for it   *)
(* or has died.                                                              *)
TypeOK ==
  /\ status \in [Keys -> KeyStates]
  /\ expired \in SUBSET Keys
  /\ granted \in SUBSET Keys
  /\ member \in [Users -> Orgs \cup {Null}]
  /\ present \in SUBSET Ids
  /\ context \in [Handlers -> Orgs \cup {Null}]
  /\ pc \in [Handlers -> Steps]
  /\ client \in [Handlers -> Clients \cup {Null}]
  /\ tenant \in [Handlers -> Orgs \cup {Null}]
  /\ target \in [Handlers -> Keys \cup {Null}]
  /\ usable \in [Handlers -> BOOLEAN]
  /\ phase \in [Clients -> Phases]
  /\ conn \in [Clients -> Handlers \cup {Null}]
  /\ cursor \in [Clients -> Ids \cup {Null}]
  /\ got \in [Clients -> [Ids -> Nat]]
  /\ steady \in [Clients -> SUBSET present]
  /\ \A h \in Handlers : /\ client[h] # Null <=> pc[h] \in ApiSteps
                         /\ target[h] # Null <=> pc[h] = "revoke"
                         /\ tenant[h] # Null <=> pc[h] \in WebSteps
  /\ \A c \in Clients : conn[c] # Null <=> phase[c] = "wait"

(* Cursor pagination over a table that changes between the pages, with       *)
(* requests that are retried: a client that follows next_cursor to the end   *)
(* has every row that was there all the time, no row twice, and only rows of *)
(* the organization of its key.                                              *)
ExactlyOnce ==
  \A c \in Clients, i \in Ids :
    /\ got[c][i] <= 1
    /\ got[c][i] = 1 => RowOrg[i] = OrgOf(c)
    /\ phase[c] = "done" /\ i \in steady[c] => got[c][i] = 1

(* "A view function is never reached with an unset tenant context"           *)
(* (middleware.py:9), nor with that of an earlier request of the process:    *)
(* while a request is worked on, the context is the organization it was      *)
(* admitted for, and unset for those that bring no session.                  *)
ViewHasItsTenant ==
  \A h \in Handlers : pc[h] # "idle" => context[h] = tenant[h]

(* No rows are read for a key that was revoked, deleted or expired before    *)
(* the request came and has not been made valid again in the admin since:    *)
(* neither a stale read nor a late write of some request brings it back.     *)
RevokedKeyGetsNothing == \A h \in Handlers : pc[h] = "select" => usable[h]
=============================================================================
