--------------------------- MODULE ReadApi_proofs ---------------------------
(***************************************************************************)
(* Proofs about ReadApi for any organizations, keys, clients, handlers and  *)
(* tables.                                                                  *)
(***************************************************************************)
EXTENDS ReadApi, FiniteSetTheorems, TLAPS

(* Every step of the specification, one named action at a time.              *)
LEMMA NextCases ==
  ASSUME Next
  PROVE  \/ \E i \in Ids : Appear(i) \/ Vanish(i)
         \/ \E c \in Clients : Begin(c) \/ Retry(c)
         \/ \E c \in Clients, h \in Handlers : Ask(c, h)
         \/ \E k \in Keys : DeleteKey(k) \/ Expire(k)
         \/ \E k \in Keys, state \in {"active", "revoked"}, late \in BOOLEAN :
              AdminSavesKey(k, state, late)
         \/ \E u \in Users, org \in Orgs \cup {Null} : Move(u, org)
         \/ \E h \in Handlers :
              \/ VisitOpenPage(h) \/ ShowPage(h) \/ SaveRevoked(h)
              \/ FindKey(h) \/ TouchKey(h) \/ SelectPage(h) \/ Crash(h)
         \/ \E h \in Handlers, u \in Users : Visit(h, u)
         \/ \E h \in Handlers, k \in Keys : CreateKey(h, k) \/ ReadKey(h, k)
BY DEF Next, Rows, Listing, Admin, WebRequest, ApiRequest

-----------------------------------------------------------------------------
(* The type invariant, by who changes what.                                  *)
KeyTypes ==
  /\ status \in [Keys -> KeyStates]
  /\ expired \in SUBSET Keys
  /\ granted \in SUBSET Keys
  /\ member \in [Users -> Orgs \cup {Null}]

RequestTypes ==
  /\ context \in [Handlers -> Orgs \cup {Null}]
  /\ pc \in [Handlers -> Steps]
  /\ client \in [Handlers -> Clients \cup {Null}]
  /\ tenant \in [Handlers -> Orgs \cup {Null}]
  /\ target \in [Handlers -> Keys \cup {Null}]
  /\ usable \in [Handlers -> BOOLEAN]
  /\ \A h \in Handlers : /\ client[h] # Null <=> pc[h] \in ApiSteps
                         /\ target[h] # Null <=> pc[h] = "revoke"
                         /\ tenant[h] # Null <=> pc[h] \in WebSteps

ListTypes ==
  /\ present \in SUBSET Ids
  /\ phase \in [Clients -> Phases]
  /\ conn \in [Clients -> Handlers \cup {Null}]
  /\ cursor \in [Clients -> Ids \cup {Null}]
  /\ got \in [Clients -> [Ids -> Nat]]
  /\ steady \in [Clients -> SUBSET present]
  /\ \A c \in Clients : conn[c] # Null <=> phase[c] = "wait"

LEMMA ThreeParts == TypeOK <=> KeyTypes /\ RequestTypes /\ ListTypes
BY DEF TypeOK, KeyTypes, RequestTypes, ListTypes

LEMMA SetKeyKeepsTypes ==
  ASSUME KeyTypes, NEW k \in Keys, NEW state \in KeyStates, NEW late \in BOOLEAN,
         SetKey(k, state, late), UNCHANGED member
  PROVE  KeyTypes'
<1>1. status' \in [Keys -> KeyStates]
  BY DEF KeyTypes, SetKey
<1>2. expired' \in SUBSET Keys /\ granted' \in SUBSET Keys
  BY DEF KeyTypes, SetKey
<1>. QED  BY <1>1, <1>2 DEF KeyTypes

LEMMA LeaveKeepsTypes ==
  ASSUME RequestTypes, NEW h \in Handlers, Leave(h)
  PROVE  RequestTypes'
BY ReadApiAssumption DEF RequestTypes, Leave, Forget, Steps, ApiSteps, WebSteps

(* An answer without rows.                                                   *)
LEMMA RefuseKeepsTypes ==
  ASSUME RequestTypes, ListTypes, NEW h \in Handlers, pc[h] \in ApiSteps,
         NEW result \in {"ask", "refused", "done"}, Refuse(h, result), UNCHANGED present
  PROVE  RequestTypes' /\ ListTypes'
<1>1. RequestTypes'
  BY LeaveKeepsTypes DEF Refuse
<1>2. client[h] \in Clients
  BY DEF RequestTypes
<1>3. /\ phase' \in [Clients -> Phases]
      /\ conn' \in [Clients -> Handlers \cup {Null}]
      /\ \A c \in Clients : conn'[c] # Null <=> phase'[c] = "wait"
  <2>1. CASE Awaited(h)
    <3>1. /\ phase' = [phase EXCEPT ![client[h]] = result]
          /\ conn' = [conn EXCEPT ![client[h]] = Null]
      BY <2>1 DEF Refuse, Answer
    <3>. QED  BY <1>2, <3>1, ReadApiAssumption DEF ListTypes, Phases
  <2>2. CASE ~Awaited(h)
    BY <2>2 DEF Refuse, ListTypes
  <2>. QED  BY <2>1, <2>2
<1>. QED  BY <1>1, <1>3 DEF Refuse, ListTypes

LEMMA DeliverKeepsTypes ==
  ASSUME ListTypes, NEW c \in Clients, NEW page \in SUBSET Ids, Deliver(c, page),
         UNCHANGED present
  PROVE  ListTypes'
<1>1. got' \in [Clients -> [Ids -> Nat]]
  <2>1. [i \in Ids |-> IF i \in page THEN got[c][i] + 1 ELSE got[c][i]] \in [Ids -> Nat]
    BY DEF ListTypes
  <2>. QED  BY <2>1 DEF ListTypes, Deliver
<1>2. /\ phase' \in [Clients -> Phases]
      /\ conn' \in [Clients -> Handlers \cup {Null}]
      /\ \A d \in Clients : conn'[d] # Null <=> phase'[d] = "wait"
  BY ReadApiAssumption DEF Deliver, ListTypes, Answer, Phases
<1>3. cursor' \in [Clients -> Ids \cup {Null}]
  BY DEF Deliver, ListTypes
<1>. QED  BY <1>1, <1>2, <1>3 DEF Deliver, ListTypes

LEMMA TypesStep ==
  ASSUME TypeOK, [Next]_vars
  PROVE  TypeOK'
<1>. USE ReadApiAssumption
<1>0. KeyTypes /\ RequestTypes /\ ListTypes
  BY ThreeParts
<1>1. ASSUME UNCHANGED <<keys, member>> PROVE KeyTypes'
  BY <1>0, <1>1 DEF KeyTypes, keys
<1>2. ASSUME UNCHANGED request PROVE RequestTypes'
  BY <1>0, <1>2 DEF RequestTypes, request
<1>3. ASSUME UNCHANGED <<present, listing>> PROVE ListTypes'
  BY <1>0, <1>3 DEF ListTypes, listing
<1>4. SUFFICES ASSUME Next
               PROVE  KeyTypes' /\ RequestTypes' /\ ListTypes'
  BY <1>0, <1>1, <1>2, <1>3, ThreeParts DEF vars, TypeOK, KeyTypes, RequestTypes, ListTypes
<1>5. ASSUME NEW i \in Ids, Appear(i) PROVE KeyTypes' /\ RequestTypes' /\ ListTypes'
  BY <1>0, <1>1, <1>2, <1>5 DEF Appear, ListTypes, listing
<1>6. ASSUME NEW i \in Ids, Vanish(i) PROVE KeyTypes' /\ RequestTypes' /\ ListTypes'
  BY <1>0, <1>1, <1>2, <1>6 DEF Vanish, ListTypes
<1>7. ASSUME NEW c \in Clients, Begin(c) PROVE KeyTypes' /\ RequestTypes' /\ ListTypes'
  BY <1>0, <1>1, <1>2, <1>7 DEF Begin, ListTypes, Phases, Matching
<1>8. ASSUME NEW c \in Clients, Retry(c) PROVE KeyTypes' /\ RequestTypes' /\ ListTypes'
  BY <1>0, <1>1, <1>2, <1>8 DEF Retry, ListTypes, Phases
<1>9. ASSUME NEW c \in Clients, NEW h \in Handlers, Ask(c, h)
      PROVE  KeyTypes' /\ RequestTypes' /\ ListTypes'
  <2>1. RequestTypes'
    BY <1>0, <1>9 DEF Ask, Admit, RequestTypes, Steps, ApiSteps, WebSteps
  <2>2. ListTypes'
    BY <1>0, <1>9 DEF Ask, ListTypes, Phases
  <2>. QED  BY <1>1, <1>9, <2>1, <2>2 DEF Ask
<1>10. ASSUME NEW k \in Keys, DeleteKey(k) \/ Expire(k)
       PROVE  KeyTypes' /\ RequestTypes' /\ ListTypes'
  <2>1. status[k] \in KeyStates /\ "deleted" \in KeyStates
    BY <1>0 DEF KeyTypes, KeyStates
  <2>2. KeyTypes'
    <3>1. CASE DeleteKey(k)
      BY <1>0, <3>1, <2>1 DEF DeleteKey, SetKey, KeyTypes
    <3>2. CASE Expire(k)
      BY <1>0, <3>2, <2>1 DEF Expire, SetKey, KeyTypes
    <3>. QED  BY <1>10, <3>1, <3>2
  <2>. QED  BY <1>2, <1>3, <1>10, <2>2 DEF DeleteKey, Expire
<1>11. ASSUME NEW k \in Keys, NEW state \in {"active", "revoked"}, NEW late \in BOOLEAN,
              AdminSavesKey(k, state, late)
       PROVE  KeyTypes' /\ RequestTypes' /\ ListTypes'
  <2>1. KeyTypes'
    BY <1>0, <1>11, SetKeyKeepsTypes DEF AdminSavesKey, KeyStates
  <2>2. usable' \in [Handlers -> BOOLEAN]
    BY <1>0, <1>11 DEF AdminSavesKey, Renew, RequestTypes, Valid
  <2>3. RequestTypes'
    BY <1>0, <1>11, <2>2 DEF AdminSavesKey, RequestTypes
  <2>. QED  BY <1>3, <1>11, <2>1, <2>3 DEF AdminSavesKey
<1>12. ASSUME NEW u \in Users, NEW org \in Orgs \cup {Null}, Move(u, org)
       PROVE  KeyTypes' /\ RequestTypes' /\ ListTypes'
  <2>1. KeyTypes'
    BY <1>0, <1>12 DEF Move, KeyTypes, keys
  <2>. QED  BY <1>2, <1>3, <1>12, <2>1 DEF Move
<1>13. ASSUME NEW h \in Handlers, VisitOpenPage(h)
       PROVE  KeyTypes' /\ RequestTypes' /\ ListTypes'
  <2>1. RequestTypes'
    BY <1>0, <1>13 DEF VisitOpenPage, Admit, RequestTypes, Steps, ApiSteps, WebSteps
  <2>. QED  BY <1>1, <1>3, <1>13, <2>1 DEF VisitOpenPage
<1>14. ASSUME NEW h \in Handlers, NEW u \in Users, Visit(h, u)
       PROVE  KeyTypes' /\ RequestTypes' /\ ListTypes'
  <2>1. member[u] \in Orgs
    BY <1>0, <1>14 DEF Visit, KeyTypes
  <2>2. RequestTypes'
    BY <1>0, <1>14, <2>1 DEF Visit, Admit, RequestTypes, Steps, ApiSteps, WebSteps
  <2>. QED  BY <1>1, <1>3, <1>14, <2>2 DEF Visit
<1>15. ASSUME NEW h \in Handlers, Crash(h) PROVE KeyTypes' /\ RequestTypes' /\ ListTypes'
  <2>1. RequestTypes'
    BY <1>0, <1>15 DEF Crash, Forget, RequestTypes, Steps, ApiSteps, WebSteps
  <2>. QED  BY <1>1, <1>3, <1>15, <2>1 DEF Crash
<1>16. ASSUME NEW h \in Handlers, ShowPage(h) PROVE KeyTypes' /\ RequestTypes' /\ ListTypes'
  BY <1>0, <1>1, <1>3, <1>16, LeaveKeepsTypes DEF ShowPage
<1>17. ASSUME NEW h \in Handlers, NEW k \in Keys, CreateKey(h, k)
       PROVE  KeyTypes' /\ RequestTypes' /\ ListTypes'
  <2>1. KeyTypes'
    BY <1>0, <1>17, SetKeyKeepsTypes DEF CreateKey, KeyStates
  <2>. QED  BY <1>0, <1>3, <1>17, <2>1, LeaveKeepsTypes DEF CreateKey
<1>18. ASSUME NEW h \in Handlers, NEW k \in Keys, ReadKey(h, k)
       PROVE  KeyTypes' /\ RequestTypes' /\ ListTypes'
  <2>1. RequestTypes'
    BY <1>0, <1>18 DEF ReadKey, RequestTypes, Steps, ApiSteps, WebSteps
  <2>. QED  BY <1>1, <1>3, <1>18, <2>1 DEF ReadKey
<1>19. ASSUME NEW h \in Handlers, SaveRevoked(h)
       PROVE  KeyTypes' /\ RequestTypes' /\ ListTypes'
  <2>1. target[h] \in Keys
    BY <1>0, <1>19 DEF SaveRevoked, RequestTypes
  <2>2. KeyTypes'
    BY <1>0, <1>1, <1>19, <2>1 DEF SaveRevoked, SetKey, KeyTypes, KeyStates
  <2>. QED  BY <1>0, <1>3, <1>19, <2>2, LeaveKeepsTypes DEF SaveRevoked
<1>20. ASSUME NEW h \in Handlers, FindKey(h) PROVE KeyTypes' /\ RequestTypes' /\ ListTypes'
  <2>1. CASE Found(KeyOf[client[h]])
    <3>1. RequestTypes'
      BY <1>0, <1>20, <2>1 DEF FindKey, RequestTypes, Steps, ApiSteps, WebSteps
    <3>. QED  BY <1>1, <1>3, <1>20, <2>1, <3>1 DEF FindKey
  <2>2. CASE ~Found(KeyOf[client[h]])
    BY <1>0, <1>1, <1>20, <2>2, RefuseKeepsTypes DEF FindKey, ApiSteps
  <2>. QED  BY <2>1, <2>2
<1>21. ASSUME NEW h \in Handlers, TouchKey(h) PROVE KeyTypes' /\ RequestTypes' /\ ListTypes'
  <2>1. CASE KeyExists(KeyOf[client[h]]) /\ KeyOf[client[h]] \in ReadKeys
    <3>1. RequestTypes'
      BY <1>0, <1>21, <2>1 DEF TouchKey, RequestTypes, Steps, ApiSteps, WebSteps
    <3>. QED  BY <1>1, <1>3, <1>21, <2>1, <3>1 DEF TouchKey
  <2>2. CASE ~(KeyExists(KeyOf[client[h]]) /\ KeyOf[client[h]] \in ReadKeys)
    BY <1>0, <1>1, <1>21, <2>2, RefuseKeepsTypes DEF TouchKey, ApiSteps
  <2>. QED  BY <2>1, <2>2
<1>22. ASSUME NEW h \in Handlers, SelectPage(h)
       PROVE  KeyTypes' /\ RequestTypes' /\ ListTypes'
  <2>1. client[h] \in Clients
    BY <1>0, <1>22 DEF SelectPage, RequestTypes, ApiSteps
  <2>2. ListTypes'
    <3>1. CASE Awaited(h)
      <4>1. PICK page \in SUBSET Remaining(client[h]) : Deliver(client[h], page)
        BY <1>22, <3>1 DEF SelectPage
      <4>2. page \in SUBSET Ids
        BY <1>0, <4>1 DEF Remaining, Matching, ListTypes
      <4>. QED  BY <1>0, <1>22, <2>1, <4>1, <4>2, DeliverKeepsTypes DEF SelectPage
    <3>2. CASE ~Awaited(h)
      BY <1>3, <1>22, <3>2 DEF SelectPage
    <3>. QED  BY <3>1, <3>2
  <2>. QED  BY <1>0, <1>1, <1>22, <2>2, LeaveKeepsTypes DEF SelectPage
<1>. QED
  BY <1>4, <1>5, <1>6, <1>7, <1>8, <1>9, <1>10, <1>11, <1>12, <1>13, <1>14, <1>15, <1>16,
     <1>17, <1>18, <1>19, <1>20, <1>21, <1>22, NextCases

LEMMA InitTypes == ASSUME Init PROVE TypeOK
BY ReadApiAssumption
   DEF Init, TypeOK, KeyStates, Steps, ApiSteps, WebSteps, Phases

(* Types of keys, requests and listings: who waits, waits for a handler; who *)
(* revokes, has a key; and only requests with a session have a tenant.       *)
THEOREM TypeCorrect == Spec => []TypeOK
<1>1. Init => TypeOK
  BY InitTypes
<1>2. TypeOK /\ [Next]_vars => TypeOK'
  BY TypesStep
<1>. QED  BY <1>1, <1>2, PTL DEF Spec

-----------------------------------------------------------------------------
(* The context variable.  Between requests it is unset, as the tenant is.     *)
ContextIsTenant == \A h \in Handlers : context[h] = tenant[h]

LEMMA LeaveUnsetsContext ==
  ASSUME RequestTypes, ContextIsTenant, NEW h \in Handlers, Leave(h)
  PROVE  ContextIsTenant'
BY DEF RequestTypes, ContextIsTenant, Leave, Forget

LEMMA AdmitSetsContext ==
  ASSUME RequestTypes, ContextIsTenant, NEW h \in Handlers,
         NEW org \in Orgs \cup {Null}, Admit(h, org)
  PROVE  ContextIsTenant'
BY DEF RequestTypes, ContextIsTenant, Admit, WebSteps

LEMMA ContextStep ==
  ASSUME TypeOK, ContextIsTenant, [Next]_vars
  PROVE  ContextIsTenant'
<1>0. KeyTypes /\ RequestTypes
  BY ThreeParts
<1>1. ASSUME UNCHANGED <<context, tenant>> PROVE ContextIsTenant'
  BY <1>1 DEF ContextIsTenant
<1>2. ASSUME UNCHANGED request PROVE ContextIsTenant'
  BY <1>1, <1>2 DEF request
<1>3. SUFFICES ASSUME Next PROVE ContextIsTenant'
  BY <1>2 DEF vars
<1>4. ASSUME NEW i \in Ids, Appear(i) \/ Vanish(i) PROVE ContextIsTenant'
  BY <1>2, <1>4 DEF Appear, Vanish
<1>5. ASSUME NEW c \in Clients, Begin(c) \/ Retry(c) PROVE ContextIsTenant'
  BY <1>2, <1>5 DEF Begin, Retry
<1>6. ASSUME NEW c \in Clients, NEW h \in Handlers, Ask(c, h) PROVE ContextIsTenant'
  BY <1>0, <1>6, AdmitSetsContext DEF Ask
<1>7. ASSUME NEW k \in Keys, DeleteKey(k) \/ Expire(k) PROVE ContextIsTenant'
  BY <1>2, <1>7 DEF DeleteKey, Expire
<1>8. ASSUME NEW k \in Keys, NEW state \in {"active", "revoked"}, NEW late \in BOOLEAN,
             AdminSavesKey(k, state, late)
      PROVE  ContextIsTenant'
  BY <1>1, <1>8 DEF AdminSavesKey
<1>9. ASSUME NEW u \in Users, NEW org \in Orgs \cup {Null}, Move(u, org)
      PROVE  ContextIsTenant'
  BY <1>2, <1>9 DEF Move
<1>10. ASSUME NEW h \in Handlers, VisitOpenPage(h) PROVE ContextIsTenant'
  BY <1>0, <1>10, AdmitSetsContext DEF VisitOpenPage
<1>11. ASSUME NEW h \in Handlers, NEW u \in Users, Visit(h, u) PROVE ContextIsTenant'
  <2>1. member[u] \in Orgs
    BY <1>0, <1>11 DEF Visit, KeyTypes
  <2>. QED  BY <1>0, <1>11, <2>1, AdmitSetsContext DEF Visit
<1>12. ASSUME NEW h \in Handlers, ShowPage(h) \/ SaveRevoked(h) PROVE ContextIsTenant'
  BY <1>0, <1>12, LeaveUnsetsContext DEF ShowPage, SaveRevoked
<1>13. ASSUME NEW h \in Handlers, NEW k \in Keys, CreateKey(h, k) \/ ReadKey(h, k)
       PROVE  ContextIsTenant'
  BY <1>0, <1>1, <1>13, LeaveUnsetsContext DEF CreateKey, ReadKey
<1>14. ASSUME NEW h \in Handlers, FindKey(h) \/ TouchKey(h) \/ SelectPage(h)
       PROVE  ContextIsTenant'
  BY <1>0, <1>1, <1>14, LeaveUnsetsContext DEF FindKey, TouchKey, SelectPage, Refuse
<1>15. ASSUME NEW h \in Handlers, Crash(h) PROVE ContextIsTenant'
  BY <1>0, <1>15 DEF Crash, Forget, RequestTypes, ContextIsTenant
<1>. QED
  BY <1>3, <1>4, <1>5, <1>6, <1>7, <1>8, <1>9, <1>10, <1>11, <1>12, <1>13, <1>14, <1>15,
     NextCases

(* No request is worked on in the context of another, however the handlers'   *)
(* requests follow on each other and wherever they end.                       *)
THEOREM TenantOfEveryView == Spec => []ViewHasItsTenant
<1>1. Init => ContextIsTenant
  BY DEF Init, ContextIsTenant
<1>2. TypeOK /\ ContextIsTenant /\ [Next]_vars => ContextIsTenant'
  BY ContextStep
<1>3. ContextIsTenant => ViewHasItsTenant
  BY DEF ContextIsTenant, ViewHasItsTenant
<1>. QED  BY <1>1, <1>2, <1>3, TypeCorrect, PTL DEF Spec

-----------------------------------------------------------------------------
(* Keys.  granted is what the rows say; a request that has found its key, or  *)
(* may still find it, came for a key that was valid at some time since.       *)
GrantedByRow == granted = {k \in Keys : Valid(status[k], k \in expired)}

ForValidKey ==
  \A h \in Handlers :
    /\ pc[h] \in ApiSteps => status[KeyOf[client[h]]] # "absent"
    /\ pc[h] = "find" /\ KeyOf[client[h]] \in granted => usable[h]
    /\ pc[h] \in {"touch", "select"} => usable[h]

KeysInv == GrantedByRow /\ ForValidKey

(* Rows that change, other than by a new key's, take nobody by surprise.      *)
LEMMA SetKeyGrantsByRow ==
  ASSUME KeyTypes, GrantedByRow, NEW k \in Keys, NEW state, NEW late, SetKey(k, state, late)
  PROVE  GrantedByRow'
BY DEF KeyTypes, GrantedByRow, SetKey, Valid

LEMMA LeaveForValidKey ==
  ASSUME RequestTypes, ForValidKey, NEW h \in Handlers, Leave(h),
         \A k \in Keys : status[k] # "absent" => status'[k] # "absent",
         \A g \in Handlers : pc[g] = "find" /\ KeyOf[client[g]] \in granted'
                            => KeyOf[client[g]] \in granted
  PROVE  ForValidKey'
BY ReadApiAssumption DEF RequestTypes, ForValidKey, Leave, Forget, ApiSteps

LEMMA KeysStep ==
  ASSUME TypeOK, KeysInv, [Next]_vars
  PROVE  KeysInv'
<1>. USE ReadApiAssumption
<1>0. KeyTypes /\ RequestTypes /\ GrantedByRow /\ ForValidKey
  BY ThreeParts DEF KeysInv
<1>1. ASSUME UNCHANGED keys PROVE GrantedByRow'
  BY <1>0, <1>1 DEF GrantedByRow, keys
<1>2. ASSUME UNCHANGED <<keys, request>> PROVE ForValidKey'
  BY <1>0, <1>2 DEF ForValidKey, keys, request
<1>3. ASSUME UNCHANGED keys, NEW h \in Handlers, Leave(h) PROVE ForValidKey'
  BY <1>0, <1>3, LeaveForValidKey DEF keys
<1>4. SUFFICES ASSUME Next PROVE GrantedByRow' /\ ForValidKey'
  BY <1>1, <1>2 DEF vars, KeysInv
<1>5. ASSUME NEW i \in Ids, Appear(i) \/ Vanish(i) PROVE GrantedByRow' /\ ForValidKey'
  BY <1>1, <1>2, <1>5 DEF Appear, Vanish
<1>6. ASSUME NEW c \in Clients, Begin(c) \/ Retry(c) PROVE GrantedByRow' /\ ForValidKey'
  BY <1>1, <1>2, <1>6 DEF Begin, Retry
<1>7. ASSUME NEW c \in Clients, NEW h \in Handlers, Ask(c, h)
      PROVE  GrantedByRow' /\ ForValidKey'
  <2>1. ForValidKey'
    BY <1>0, <1>7 DEF Ask, Admit, ForValidKey, RequestTypes, KeyExists, keys, ApiSteps
  <2>. QED  BY <1>1, <1>7, <2>1 DEF Ask
<1>8. ASSUME NEW k \in Keys, DeleteKey(k) \/ Expire(k) PROVE GrantedByRow' /\ ForValidKey'
  <2>1. GrantedByRow'
    BY <1>0, <1>8 DEF DeleteKey, Expire, GrantedByRow, KeyTypes, SetKey, Valid
  <2>2. /\ \A j \in Keys : status[j] # "absent" => status'[j] # "absent"
        /\ granted' \subseteq granted
    BY <1>0, <1>8 DEF DeleteKey, Expire, GrantedByRow, KeyTypes, KeyExists, SetKey, Valid
  <2>. QED  BY <1>0, <1>8, <2>1, <2>2
            DEF DeleteKey, Expire, ForValidKey, request, RequestTypes
<1>9. ASSUME NEW k \in Keys, NEW state \in {"active", "revoked"}, NEW late \in BOOLEAN,
             AdminSavesKey(k, state, late)
      PROVE  GrantedByRow' /\ ForValidKey'
  <2>1. GrantedByRow'
    BY <1>0, <1>9, SetKeyGrantsByRow DEF AdminSavesKey
  <2>2. \A j \in Keys : status[j] # "absent" => status'[j] # "absent"
    BY <1>0, <1>9 DEF AdminSavesKey, SetKey, KeyTypes
  <2>3. \A h \in Handlers :
          /\ usable[h] => usable'[h]
          /\ client[h] # Null /\ KeyOf[client[h]] \in granted' \ granted => usable'[h]
    BY <1>0, <1>9 DEF AdminSavesKey, SetKey, Renew, RequestTypes
  <2>. QED  BY <1>0, <1>9, <2>1, <2>2, <2>3 DEF AdminSavesKey, ForValidKey, RequestTypes, ApiSteps
<1>10. ASSUME NEW u \in Users, NEW org \in Orgs \cup {Null}, Move(u, org)
       PROVE  GrantedByRow' /\ ForValidKey'
  BY <1>1, <1>2, <1>10 DEF Move
<1>11. ASSUME NEW h \in Handlers,
              VisitOpenPage(h) \/ (\E u \in Users : Visit(h, u))
                \/ (\E k \in Keys : ReadKey(h, k))
       PROVE  GrantedByRow' /\ ForValidKey'
  <2>1. /\ UNCHANGED <<keys, client, usable>>
        /\ \E step \in {"open", "view", "revoke"} : pc' = [pc EXCEPT ![h] = step]
    BY <1>11 DEF VisitOpenPage, Visit, ReadKey
  <2>2. ForValidKey'
    BY <1>0, <2>1 DEF ForValidKey, RequestTypes, keys, ApiSteps
  <2>. QED  BY <1>1, <2>1, <2>2
<1>12. ASSUME NEW h \in Handlers, ShowPage(h) PROVE GrantedByRow' /\ ForValidKey'
  BY <1>1, <1>3, <1>12 DEF ShowPage
<1>13. ASSUME NEW h \in Handlers, SaveRevoked(h) PROVE GrantedByRow' /\ ForValidKey'
  <2>1. CASE UNCHANGED keys
    BY <1>1, <1>3, <1>13, <2>1 DEF SaveRevoked
  <2>2. CASE SetKey(target[h], "revoked", target[h] \in expired)
    <3>1. target[h] \in Keys
      BY <1>0, <1>13 DEF SaveRevoked, RequestTypes
    <3>2. GrantedByRow'
      BY <1>0, <2>2, <3>1 DEF GrantedByRow, KeyTypes, SetKey, Valid
    <3>3. /\ \A j \in Keys : status[j] # "absent" => status'[j] # "absent"
          /\ granted' \subseteq granted
      BY <1>0, <2>2, <3>1 DEF KeyTypes, SetKey, Valid
    <3>. QED  BY <1>0, <1>13, <3>2, <3>3, LeaveForValidKey DEF SaveRevoked
  <2>. QED  BY <1>13, <2>1, <2>2 DEF SaveRevoked
<1>14. ASSUME NEW h \in Handlers, NEW k \in Keys, CreateKey(h, k)
       PROVE  GrantedByRow' /\ ForValidKey'
  <2>1. GrantedByRow'
    BY <1>0, <1>14, SetKeyGrantsByRow DEF CreateKey
  <2>2. /\ \A j \in Keys : status[j] # "absent" => status'[j] # "absent"
        /\ granted' \subseteq granted \cup {k}
    BY <1>0, <1>14 DEF CreateKey, KeyTypes, SetKey
  <2>3. \A g \in Handlers : pc[g] = "find" => KeyOf[client[g]] # k
    BY <1>0, <1>14 DEF CreateKey, ForValidKey, ApiSteps
  <2>. QED  BY <1>0, <1>14, <2>1, <2>2, <2>3, LeaveForValidKey DEF CreateKey
<1>15. ASSUME NEW h \in Handlers, FindKey(h) PROVE GrantedByRow' /\ ForValidKey'
  <2>1. CASE Found(KeyOf[client[h]])
    <3>1. KeyOf[client[h]] \in Keys
      BY <1>0, <1>15 DEF FindKey, RequestTypes, ApiSteps
    <3>2. KeyOf[client[h]] \in granted
      BY <1>0, <2>1, <3>1 DEF Found, GrantedByRow, Valid
    <3>3. ForValidKey'
      BY <1>0, <1>15, <2>1, <3>2 DEF FindKey, ForValidKey, RequestTypes, keys, ApiSteps
    <3>. QED  BY <1>1, <1>15, <3>3 DEF FindKey
  <2>2. CASE ~Found(KeyOf[client[h]])
    BY <1>1, <1>3, <1>15, <2>2 DEF FindKey, Refuse
  <2>. QED  BY <2>1, <2>2
<1>16. ASSUME NEW h \in Handlers, TouchKey(h) PROVE GrantedByRow' /\ ForValidKey'
  <2>1. CASE Leave(h)
    BY <1>1, <1>3, <1>16, <2>1 DEF TouchKey
  <2>2. CASE ~Leave(h)
    <3>1. ForValidKey'
      BY <1>0, <1>16, <2>2 DEF TouchKey, Refuse, ForValidKey, RequestTypes, keys, ApiSteps
    <3>. QED  BY <1>1, <1>16, <3>1 DEF TouchKey
  <2>. QED  BY <2>1, <2>2
<1>17. ASSUME NEW h \in Handlers, SelectPage(h) PROVE GrantedByRow' /\ ForValidKey'
  BY <1>1, <1>3, <1>17 DEF SelectPage
<1>18. ASSUME NEW h \in Handlers, Crash(h) PROVE GrantedByRow' /\ ForValidKey'
  <2>1. ForValidKey'
    BY <1>0, <1>18 DEF Crash, Forget, ForValidKey, RequestTypes, keys, ApiSteps
  <2>. QED  BY <1>1, <1>18, <2>1 DEF Crash
<1>. QED
  BY <1>4, <1>5, <1>6, <1>7, <1>8, <1>9, <1>10, <1>11, <1>12, <1>13, <1>14, <1>15, <1>16,
     <1>17, <1>18, NextCases

(* A revocation takes effect for every request that comes after it, whatever  *)
(* statements of other requests it meets.                                     *)
THEOREM RevokedStaysRevoked == Spec => []RevokedKeyGetsNothing
<1>1. Init => KeysInv
  BY DEF Init, KeysInv, GrantedByRow, ForValidKey, Valid, ApiSteps
<1>2. TypeOK /\ KeysInv /\ [Next]_vars => KeysInv'
  BY KeysStep
<1>3. KeysInv => RevokedKeyGetsNothing
  BY DEF KeysInv, ForValidKey, RevokedKeyGetsNothing
<1>. QED  BY <1>1, <1>2, <1>3, TypeCorrect, PTL DEF Spec

-----------------------------------------------------------------------------
(* Pagination.  A row of the organization lies behind the cursor of a client  *)
(* just when the client has it, or came to the table after the cursor did.    *)
ListingInv(c) ==
  /\ phase[c] = "new" => cursor[c] = Null
  /\ \A i \in Ids :
       /\ got[c][i] <= 1
       /\ got[c][i] = 1 => RowOrg[i] = OrgOf(c)
       /\ phase[c] \in {"new", "ask", "wait"} /\ got[c][i] = 1 => ~Past(c, i)
  /\ \A i \in steady[c] :
       /\ phase[c] \in {"ask", "wait"} => RowOrg[i] = OrgOf(c) /\ (got[c][i] = 1 \/ Past(c, i))
       /\ phase[c] = "done" => got[c][i] = 1

ListingsInv == \A c \in Clients : ListingInv(c)

LEMMA LimitIsPositive ==
  ASSUME NEW raw \in Limits
  PROVE  Limit(raw) \in Nat \ {0}
BY ReadApiAssumption DEF Limit

(* A page that is not the rest of the table ends somewhere.                   *)
LEMMA PageOrRest ==
  ASSUME NEW c, NEW page, NEW limit \in Nat \ {0}, IsPage(c, page, limit)
  PROVE  page = {} => page = Remaining(c)
BY FS_EmptySet DEF IsPage

(* An answer without rows ends a listing as refused, or has it ask again.     *)
LEMMA RefuseKeepsListings ==
  ASSUME RequestTypes, ListTypes, ListingsInv, NEW h \in Handlers, pc[h] \in ApiSteps,
         NEW result \in {"ask", "refused"}, Refuse(h, result)
  PROVE  ListingsInv'
<1>1. CASE Awaited(h)
  <2>1. phase[client[h]] = "wait" /\ client[h] \in Clients
    BY <1>1, ReadApiAssumption DEF Awaited, RequestTypes, ListTypes
  <2>2. phase' = [phase EXCEPT ![client[h]] = result] /\ UNCHANGED <<cursor, got, steady>>
    BY <1>1 DEF Refuse, Answer
  <2>. QED  BY <2>1, <2>2 DEF ListingsInv, ListingInv, Past, ListTypes
<1>2. CASE ~Awaited(h)
  BY <1>2 DEF Refuse, ListingsInv, ListingInv, Past
<1>. QED  BY <1>1, <1>2

LEMMA DeliverKeepsListings ==
  ASSUME ListTypes, ListingsInv, NEW c \in Clients, phase[c] = "wait",
         NEW page, NEW limit \in Nat \ {0}, IsPage(c, page, limit), Deliver(c, page)
  PROVE  ListingsInv'
<1>. USE ReadApiAssumption
<1>1. page \subseteq Remaining(c) /\ Remaining(c) \subseteq Ids
  BY DEF IsPage, Remaining, Matching, ListTypes
<1>2. \A i \in Ids : got'[c][i] = IF i \in page THEN got[c][i] + 1 ELSE got[c][i]
  BY DEF Deliver, ListTypes
<1>3. \A i \in page : RowOrg[i] = OrgOf(c) /\ Past(c, i) /\ got[c][i] = 0
  <2>1. \A i \in page : RowOrg[i] = OrgOf(c) /\ Past(c, i)
    BY <1>1 DEF Remaining, Matching
  <2>2. \A i \in Ids : got[c][i] \in Nat /\ got[c][i] <= 1
    BY DEF ListingsInv, ListingInv, ListTypes
  <2>3. \A i \in page : got[c][i] # 1
    BY <1>1, <2>1 DEF ListingsInv, ListingInv
  <2>. QED  BY <1>1, <2>1, <2>2, <2>3
<1>4. \A i \in Ids : /\ got'[c][i] <= 1
                     /\ got'[c][i] = 1 <=> i \in page \/ got[c][i] = 1
                     /\ got'[c][i] = 1 => RowOrg[i] = OrgOf(c)
  <2>1. \A i \in Ids : /\ got[c][i] \in Nat /\ got[c][i] <= 1
                       /\ got[c][i] = 1 => RowOrg[i] = OrgOf(c)
    BY DEF ListingsInv, ListingInv, ListTypes
  <2>. TAKE i \in Ids
  <2>2. CASE i \in page
    <3>1. got'[c][i] = 0 + 1 /\ RowOrg[i] = OrgOf(c)
      BY <1>2, <1>3, <2>2
    <3>. QED  BY <2>2, <3>1
  <2>3. CASE i \notin page
    BY <1>2, <2>1, <2>3
  <2>. QED  BY <2>2, <2>3
<1>5. \A i \in steady[c] : got[c][i] = 1 \/ i \in Remaining(c)
  <2>1. steady[c] \subseteq present
    BY DEF ListTypes
  <2>. QED  BY <2>1 DEF ListingsInv, ListingInv, Remaining, Matching, ListTypes
<1>6. steady' = steady /\ steady[c] \subseteq Ids
  BY DEF Deliver, ListTypes
<1>7. \A d \in Clients \ {c} : ListingInv(d)'
  BY DEF Deliver, Answer, ListingsInv, ListingInv, ListTypes, Past
<1>8. CASE page = Remaining(c)
  <2>1. phase'[c] = "done"
    BY <1>8 DEF Deliver, Answer, ListTypes
  <2>2. ListingInv(c)'
    <3>1. \A i \in steady'[c] : got'[c][i] = 1
      BY <1>4, <1>5, <1>6, <1>8
    <3>. QED  BY <1>4, <2>1, <3>1 DEF ListingInv, OrgOf
  <2>. QED  BY <1>7, <2>2 DEF ListingsInv
<1>9. CASE page # Remaining(c)
  <2>1. page # {}
    BY <1>9, PageOrRest
  <2>2. PICK last \in page : /\ LastOf(c, page, last)
                             /\ cursor' = [cursor EXCEPT ![c] = last]
    BY <1>9, <2>1 DEF Deliver
  <2>3. phase'[c] = "ask" /\ cursor'[c] = last /\ last \in Nat /\ last # Null
    <3>1. Answer(c, "ask")
      BY <1>9, <2>1 DEF Deliver
    <3>2. phase'[c] = "ask"
      BY <3>1 DEF Answer, ListTypes
    <3>3. cursor'[c] = last
      BY <2>2 DEF ListTypes
    <3>4. last \in Nat /\ last # Null
      <4>1. last \in Ids
        BY <1>1
      <4>2. Ids \subseteq Int /\ Null \notin Int
        OBVIOUS
      <4>. QED  BY <4>1, <4>2
    <3>. QED  BY <3>2, <3>3, <3>4
  <2>4. \A i \in Ids : Past(c, i)' <=> Before(c, last, i)
    BY <2>3 DEF Past, Before
  <2>5. ASSUME NEW i \in Ids, got'[c][i] = 1 PROVE ~Before(c, last, i)
    <3>1. CASE i \in page
      BY <1>1, <2>2, <2>3, <3>1 DEF LastOf, Before
    <3>2. CASE got[c][i] = 1
      <4>1. ~Past(c, i) /\ Past(c, last)
        BY <1>3, <3>2 DEF ListingsInv, ListingInv
      <4>2. cursor[c] \in Nat /\ i \in Nat
        BY <4>1 DEF Past, ListTypes
      <4>. QED  BY <2>3, <4>1, <4>2 DEF Past, Before
    <3>3. i \in page \/ got[c][i] = 1
      BY <1>4, <2>5
    <3>. QED  BY <3>1, <3>2, <3>3
  <2>6. ASSUME NEW i \in steady[c], got'[c][i] # 1 PROVE Before(c, last, i)
    <3>1. i \notin page /\ i \in Remaining(c)
      BY <1>4, <1>5, <1>6, <2>6
    <3>. QED  BY <3>1 DEF IsPage
  <2>7. \A i \in steady[c] : RowOrg[i] = OrgOf(c)
    BY DEF ListingsInv, ListingInv
  <2>8. ListingInv(c)'
    <3>1. \A i \in steady'[c] : RowOrg[i] = OrgOf(c) /\ (got'[c][i] = 1 \/ Past(c, i)')
      BY <1>6, <2>4, <2>6, <2>7
    <3>2. \A i \in Ids : got'[c][i] = 1 => ~Past(c, i)'
      BY <2>4, <2>5
    <3>. QED  BY <1>4, <2>3, <3>1, <3>2 DEF ListingInv, OrgOf
  <2>. QED  BY <1>7, <2>8 DEF ListingsInv
<1>. QED  BY <1>8, <1>9

LEMMA ListingsStep ==
  ASSUME TypeOK, ListingsInv, [Next]_vars
  PROVE  ListingsInv'
<1>. USE ReadApiAssumption
<1>0. KeyTypes /\ RequestTypes /\ ListTypes
  BY ThreeParts
<1>1. ASSUME UNCHANGED listing PROVE ListingsInv'
  BY <1>1 DEF ListingsInv, ListingInv, Past, listing
<1>2. SUFFICES ASSUME Next PROVE ListingsInv'
  BY <1>1 DEF vars
<1>3. ASSUME NEW i \in Ids, Appear(i) PROVE ListingsInv'
  BY <1>1, <1>3 DEF Appear
<1>4. ASSUME NEW i \in Ids, Vanish(i) PROVE ListingsInv'
  BY <1>4 DEF Vanish, ListingsInv, ListingInv, Past
<1>5. ASSUME NEW c \in Clients, Begin(c) PROVE ListingsInv'
  BY <1>0, <1>5 DEF Begin, ListingsInv, ListingInv, ListTypes, Past, Matching
<1>6. ASSUME NEW c \in Clients, Retry(c) PROVE ListingsInv'
  BY <1>0, <1>6 DEF Retry, ListingsInv, ListingInv, ListTypes, Past
<1>7. ASSUME NEW c \in Clients, NEW h \in Handlers, Ask(c, h) PROVE ListingsInv'
  BY <1>0, <1>7 DEF Ask, ListingsInv, ListingInv, ListTypes, Past
<1>8. ASSUME NEW k \in Keys, DeleteKey(k) \/ Expire(k) PROVE ListingsInv'
  BY <1>1, <1>8 DEF DeleteKey, Expire
<1>9. ASSUME NEW k \in Keys, NEW state \in {"active", "revoked"}, NEW late \in BOOLEAN,
             AdminSavesKey(k, state, late)
      PROVE  ListingsInv'
  BY <1>1, <1>9 DEF AdminSavesKey
<1>10. ASSUME NEW u \in Users, NEW org \in Orgs \cup {Null}, Move(u, org)
       PROVE  ListingsInv'
  BY <1>1, <1>10 DEF Move
<1>11. ASSUME NEW h \in Handlers,
              VisitOpenPage(h) \/ ShowPage(h) \/ SaveRevoked(h) \/ Crash(h)
       PROVE  ListingsInv'
  BY <1>1, <1>11 DEF VisitOpenPage, ShowPage, SaveRevoked, Crash
<1>12. ASSUME NEW h \in Handlers, NEW u \in Users, Visit(h, u) PROVE ListingsInv'
  BY <1>1, <1>12 DEF Visit
<1>13. ASSUME NEW h \in Handlers, NEW k \in Keys, CreateKey(h, k) \/ ReadKey(h, k)
       PROVE  ListingsInv'
  BY <1>1, <1>13 DEF CreateKey, ReadKey
<1>14. ASSUME NEW h \in Handlers, FindKey(h) \/ TouchKey(h) PROVE ListingsInv'
  <2>1. pc[h] \in ApiSteps
    BY <1>14 DEF FindKey, TouchKey, ApiSteps
  <2>2. UNCHANGED listing \/ Refuse(h, "ask") \/ Refuse(h, "refused")
    BY <1>14 DEF FindKey, TouchKey
  <2>. QED  BY <1>0, <1>1, <2>1, <2>2, RefuseKeepsListings
<1>15. ASSUME NEW h \in Handlers, SelectPage(h) PROVE ListingsInv'
  <2>1. client[h] \in Clients
    BY <1>0, <1>15 DEF SelectPage, RequestTypes, ApiSteps
  <2>2. CASE Awaited(h)
    <3>1. phase[client[h]] = "wait"
      BY <1>0, <2>1, <2>2 DEF Awaited, ListTypes
    <3>2. PICK raw \in Limits, page \in SUBSET Remaining(client[h]) :
            IsPage(client[h], page, Limit(raw)) /\ Deliver(client[h], page)
      BY <1>15, <2>2 DEF SelectPage
    <3>3. Limit(raw) \in Nat \ {0}
      BY LimitIsPositive
    <3>. QED  BY <1>0, <2>1, <3>1, <3>2, <3>3, DeliverKeepsListings
  <2>3. CASE ~Awaited(h)
    BY <1>1, <1>15, <2>3 DEF SelectPage
  <2>. QED  BY <2>2, <2>3
<1>. QED
  BY <1>2, <1>3, <1>4, <1>5, <1>6, <1>7, <1>8, <1>9, <1>10, <1>11, <1>12, <1>13, <1>14,
     <1>15, NextCases

(* Every listing that ends has each row once, for any table and any requests. *)
THEOREM PagesAddUp == Spec => []ExactlyOnce
<1>1. Init => ListingsInv
  BY DEF Init, ListingsInv, ListingInv
<1>2. TypeOK /\ ListingsInv /\ [Next]_vars => ListingsInv'
  BY ListingsStep
<1>3. TypeOK /\ ListingsInv => ExactlyOnce
  BY DEF ListingsInv, ListingInv, ExactlyOnce, TypeOK
<1>. QED  BY <1>1, <1>2, <1>3, TypeCorrect, PTL DEF Spec
=============================================================================
