------------------------- MODULE AlertEngine_proofs -------------------------
(***************************************************************************)
(* Proofs about AlertEngine for any set of rules, events, operators and     *)
(* workers.                                                                 *)
(***************************************************************************)
EXTENDS AlertEngine, FiniteSetTheorems, TLAPS

(* Every step of the specification, one named action at a time.              *)
LEMMA NextCases ==
  ASSUME Next
  PROVE  \/ \E r \in Rules : Breach(r) \/ Recover(r) \/ CreateRule(r) \/ DeleteRule(r)
         \/ \E w \in Workers : \/ StartTask(w) \/ Dedup(w)
                               \/ CreateEvent(w) \/ FailToCreate(w)
                               \/ NotifySlack(w) \/ SaveNotificationSent(w)
                               \/ FinishTask(w) \/ Crash(w)
         \/ \E w \in Workers, r \in Rules : CheckRule(w, r)
         \/ \E o \in Operators : \/ SaveToggle(o) \/ SaveRuleForm(o)
                                 \/ PostEventForm(o) \/ SaveEventForm(o)
         \/ \E o \in Operators, r \in Rules : ReadToggle(o, r) \/ PostRuleForm(o, r)
         \/ \E o \in Operators, e \in EventIds : OpenEventForm(o, e)
         \/ \E e \in EventIds : DeleteEvent(e)
         \/ \E e \in EventIds, r \in Rules : AddEvent(e, r)
BY DEF Next, Fleet, WorkerStep, CheckSomeRule, OperatorStep, RowAdmin

(* What the form of an operator is about.                                    *)
LEMMA FormTypes ==
  ASSUME TypeOK, NEW o \in Operators
  PROVE  /\ web[o].kind = "toggle" => web[o] \in ToggleForms
         /\ web[o].kind = "rule" => web[o] \in RuleForms
         /\ web[o].kind = "event" => web[o] \in EventForms
BY DEF TypeOK, NoForm, ToggleForms, RuleForms, EventForms

(* What the save of an admin form about an event leaves of the event.        *)
LEMMA SavedEvent ==
  ASSUME TypeOK, NEW o \in Operators, SaveEventForm(o)
  PROVE  \E e \in EventIds :
           /\ e = web[o].event /\ web[o].kind = "event" /\ web[o].posted
           /\ status[e] # "unused" /\ web' = [web EXCEPT ![o] = NoForm]
           /\ UNCHANGED <<rule, ruleOf, out, accepted, task, crashes>>
           /\ \/ /\ RowExists(e) \/ ForeignKeyHolds(ruleOf[e])
                 /\ \E s \in {"resolved", "open", "manual"} :
                      /\ status' = [status EXCEPT ![e] = s]
                      /\ s = "open" => status[e] = "open"
                      /\ s = "manual" => status[e] # "open"
                 /\ sent' = IF web[o].sent THEN sent \cup {e} ELSE sent \ {e}
              \/ UNCHANGED <<status, sent>> /\ ~RowExists(e)
<1>1. web[o].event \in EventIds /\ web[o].kind = "event"
  BY FormTypes DEF SaveEventForm, EventForms
<1>. DEFINE e == web[o].event
<1>2. CASE RowExists(e) \/ ForeignKeyHolds(ruleOf[e])
  <2>1. PICK open \in BOOLEAN : status' = [status EXCEPT ![e] = Edited(e, open)]
    BY <1>2 DEF SaveEventForm
  <2>2. /\ Edited(e, open) \in {"resolved", "open", "manual"}
        /\ Edited(e, open) = "open" => status[e] = "open"
        /\ Edited(e, open) = "manual" => status[e] # "open"
    BY DEF Edited
  <2>. QED  BY <1>1, <1>2, <2>1, <2>2 DEF SaveEventForm, TypeOK
<1>3. CASE ~(RowExists(e) \/ ForeignKeyHolds(ruleOf[e]))
  BY <1>1, <1>3 DEF SaveEventForm, TypeOK
<1>. QED  BY <1>2, <1>3

(* The tables and the locals keep their types.                               *)
THEOREM TypeCorrect == Spec => []TypeOK
<1>1. Init => TypeOK
  BY AlertAssumption DEF Init, TypeOK, RuleStates, Statuses, Steps, NoForm
<1>2. ASSUME TypeOK, [Next]_vars PROVE TypeOK'
  <2>. USE <1>2, AlertAssumption DEF TypeOK, RuleStates, Statuses, Steps
  <2>1. ASSUME NEW w \in Workers, ForgetBody(w)
        PROVE  /\ cur' \in [Workers -> Rules \cup {Null}]
               /\ event' \in [Workers -> EventIds \cup {Null}]
               /\ ok' \in [Workers -> BOOLEAN]
               /\ \A v \in Workers \ {w} : cur'[v] = cur[v] /\ event'[v] = event[v]
    BY <2>1 DEF ForgetBody
  <2>2. ASSUME NEW r \in Rules, Breach(r) \/ Recover(r) PROVE TypeOK'
    BY <2>2 DEF Breach, Recover, db, task
  <2>3. ASSUME NEW r \in Rules, CreateRule(r) \/ DeleteRule(r) PROVE TypeOK'
    <3>1. \A e \in EventIds : status'[e] = "unused" <=> status[e] = "unused"
      BY <2>3 DEF CreateRule, DeleteRule
    <3>2. /\ rule' \in [Rules -> RuleStates] /\ status' \in [EventIds -> Statuses]
          /\ UNCHANGED <<out, ruleOf, sent, accepted, task, web, crashes>>
      BY <2>3 DEF CreateRule, DeleteRule
    <3>. QED  BY <3>1, <3>2, FormTypes DEF EventForms, task
  <2>4. ASSUME NEW w \in Workers, StartTask(w) PROVE TypeOK'
    BY <2>4 DEF StartTask, EnabledRules, db
  <2>5. ASSUME NEW w \in Workers, NEW r \in Rules, CheckRule(w, r) PROVE TypeOK'
    BY <2>5 DEF CheckRule, db
  <2>6. ASSUME NEW w \in Workers, Dedup(w) PROVE TypeOK'
    BY <2>1, <2>6 DEF Dedup, NextRule, db
  <2>7. ASSUME NEW w \in Workers, CreateEvent(w) PROVE TypeOK'
    <3>1. PICK e \in EventIds :
            /\ status[e] = "unused"
            /\ status' = [status EXCEPT ![e] = "open"]
            /\ ruleOf' = [ruleOf EXCEPT ![e] = cur[w]]
            /\ \/ /\ pc' = [pc EXCEPT ![w] = "notify"]
                  /\ event' = [event EXCEPT ![w] = e]
                  /\ UNCHANGED <<cur, ok>>
               \/ NextRule(w)
      BY <2>7 DEF CreateEvent
    <3>2. cur[w] \in Rules
      BY <2>7 DEF CreateEvent
    <3>3. /\ status' \in [EventIds -> Statuses]
          /\ ruleOf' \in [EventIds -> Rules \cup {Null}]
          /\ \A f \in EventIds : ruleOf'[f] = Null <=> status'[f] = "unused"
      BY <3>1, <3>2
    <3>4. /\ pc' \in [Workers -> Steps]
          /\ cur' \in [Workers -> Rules \cup {Null}]
          /\ event' \in [Workers -> EventIds \cup {Null}]
          /\ ok' \in [Workers -> BOOLEAN]
          /\ \A v \in Workers : /\ pc'[v] \in {"dedup", "create"} => cur'[v] # Null
                                /\ pc'[v] \in {"notify", "save"} => event'[v] # Null
      BY <2>1, <3>1 DEF NextRule
    <3>. QED  BY <3>3, <3>4, <2>7 DEF CreateEvent
  <2>8. ASSUME NEW w \in Workers, FailToCreate(w) PROVE TypeOK'
    BY <2>1, <2>8 DEF FailToCreate, Stop, db
  <2>9. ASSUME NEW w \in Workers, NotifySlack(w) PROVE TypeOK'
    <3>1. PICK answered \in BOOLEAN, takes \in BOOLEAN :
            /\ accepted' = IF takes THEN accepted \cup {event[w]} ELSE accepted
            /\ \/ /\ answered
                  /\ pc' = [pc EXCEPT ![w] = "save"]
                  /\ ok' = [ok EXCEPT ![w] = IsOk(answered, takes)]
                  /\ UNCHANGED <<cur, event>>
               \/ NextRule(w)
      BY <2>9 DEF NotifySlack
    <3>2. event[w] \in EventIds
      BY <2>9 DEF NotifySlack
    <3>3. accepted' \in SUBSET EventIds
      BY <3>1, <3>2
    <3>4. ok' \in [Workers -> BOOLEAN]
      BY <2>1, <3>1 DEF NextRule, IsOk
    <3>5. /\ pc' \in [Workers -> Steps]
          /\ cur' \in [Workers -> Rules \cup {Null}]
          /\ event' \in [Workers -> EventIds \cup {Null}]
          /\ \A v \in Workers : /\ pc'[v] \in {"dedup", "create"} => cur'[v] # Null
                                /\ pc'[v] \in {"notify", "save"} => event'[v] # Null
      BY <2>1, <3>1, <3>2 DEF NextRule
    <3>. QED  BY <3>3, <3>4, <3>5, <2>9 DEF NotifySlack, db
  <2>10. ASSUME NEW w \in Workers, SaveNotificationSent(w) PROVE TypeOK'
    BY <2>1, <2>10 DEF SaveNotificationSent, NextRule, RowExists
  <2>11. ASSUME NEW w \in Workers, FinishTask(w) \/ Crash(w) PROVE TypeOK'
    BY <2>1, <2>11 DEF FinishTask, Crash, Stop, db
  <2>12. ASSUME NEW o \in Operators, NEW r \in Rules, ReadToggle(o, r) PROVE TypeOK'
    BY <2>12 DEF ReadToggle, ToggleForms, db, task
  <2>13. ASSUME NEW o \in Operators, SaveToggle(o) \/ SaveRuleForm(o) PROVE TypeOK'
    <3>1. rule' \in [Rules -> RuleStates]
      BY <2>13, FormTypes DEF SaveToggle, SaveRuleForm, ToggleForms, RuleForms
    <3>2. web' = [web EXCEPT ![o] = NoForm] /\ UNCHANGED <<out, status, ruleOf, sent, accepted, task, crashes>>
      BY <2>13 DEF SaveToggle, SaveRuleForm
    <3>. QED  BY <3>1, <3>2 DEF NoForm, task
  <2>14. ASSUME NEW o \in Operators, NEW e \in EventIds, OpenEventForm(o, e) PROVE TypeOK'
    BY <2>14 DEF OpenEventForm, EventForms, RowExists, IsOpen, db, task
  <2>15. ASSUME NEW o \in Operators, SaveEventForm(o) PROVE TypeOK'
    <3>1. PICK e \in EventIds :
            /\ status[e] # "unused" /\ web' = [web EXCEPT ![o] = NoForm]
            /\ \/ \E s \in {"resolved", "open", "manual"} : status' = [status EXCEPT ![e] = s]
               \/ UNCHANGED status
            /\ sent' \subseteq sent \cup {e}
      BY <2>15, SavedEvent
    <3>2. UNCHANGED <<rule, ruleOf, out, accepted, task, crashes>>
      BY <2>15 DEF SaveEventForm
    <3>3. \A f \in EventIds : status'[f] = "unused" <=> status[f] = "unused"
      BY <3>1
    <3>4. status' \in [EventIds -> Statuses] /\ sent' \in SUBSET EventIds
      BY <3>1
    <3>5. \A p \in Operators : web'[p].kind = "event" => web'[p] = web[p] /\ web[p].event \in EventIds
      BY <3>1, FormTypes DEF NoForm, EventForms
    <3>. QED  BY <3>1, <3>2, <3>3, <3>4, <3>5 DEF task
  <2>17. ASSUME NEW o \in Operators, PostEventForm(o) PROVE TypeOK'
    <3>1. web[o] \in EventForms
      BY <2>17, FormTypes DEF PostEventForm
    <3>. QED  BY <2>17, <3>1 DEF PostEventForm, EventForms, NoForm, db, task
  <2>18. ASSUME NEW o \in Operators, NEW r \in Rules, PostRuleForm(o, r) PROVE TypeOK'
    BY <2>18 DEF PostRuleForm, RuleForms, db, task
  <2>19. ASSUME NEW e \in EventIds, DeleteEvent(e) PROVE TypeOK'
    BY <2>19 DEF DeleteEvent, RowExists, IsOpen, task
  <2>20. ASSUME NEW e \in EventIds, NEW r \in Rules, AddEvent(e, r) PROVE TypeOK'
    BY <2>20 DEF AddEvent, task
  <2>16. CASE UNCHANGED vars
    BY <2>16 DEF vars
  <2>. QED
    BY <2>1, <2>2, <2>3, <2>4, <2>5, <2>6, <2>7, <2>8, <2>9, <2>10, <2>11, <2>12,
       <2>13, <2>14, <2>15, <2>16, <2>17, <2>18, <2>19, <2>20, NextCases
<1>. QED  BY <1>1, <1>2, PTL DEF Spec

-----------------------------------------------------------------------------
(* No event outlives its rule: the foreign key is checked when the event is  *)
(* inserted, and a delete takes the events with it.                          *)
THEOREM NoOrphans == Spec => []NoOrphanEvent
<1>1. Init => NoOrphanEvent
  BY DEF Init, NoOrphanEvent, RowExists, IsOpen
<1>2. ASSUME TypeOK, NoOrphanEvent, [Next]_vars PROVE NoOrphanEvent'
  <2>. USE <1>2, AlertAssumption DEF NoOrphanEvent, RowExists, IsOpen, RuleExists
  <2>1. CASE UNCHANGED <<rule, status, ruleOf>>
    BY <2>1
  <2>2. ASSUME NEW r \in Rules, CreateRule(r) PROVE NoOrphanEvent'
    BY <2>2 DEF CreateRule, TypeOK
  <2>3. ASSUME NEW r \in Rules, DeleteRule(r) PROVE NoOrphanEvent'
    BY <2>3 DEF DeleteRule, TypeOK
  <2>4. ASSUME NEW w \in Workers, CreateEvent(w) PROVE NoOrphanEvent'
    BY <2>4 DEF CreateEvent, ForeignKeyHolds, TypeOK
  <2>5. ASSUME NEW o \in Operators, SaveToggle(o) \/ SaveRuleForm(o) PROVE NoOrphanEvent'
    <3>1. \A r \in Rules : RuleExists(r) => RuleExists(r)'
      BY <2>5, FormTypes DEF SaveToggle, SaveRuleForm, TypeOK, ToggleForms, RuleForms
    <3>. QED  BY <2>5, <3>1 DEF SaveToggle, SaveRuleForm, TypeOK
  <2>6. ASSUME NEW o \in Operators, SaveEventForm(o) PROVE NoOrphanEvent'
    <3>1. PICK e \in EventIds :
            /\ UNCHANGED <<rule, ruleOf>>
            /\ \/ /\ RowExists(e) \/ ForeignKeyHolds(ruleOf[e])
                  /\ \E s \in {"resolved", "open", "manual"} : status' = [status EXCEPT ![e] = s]
               \/ UNCHANGED status
      BY <2>6, SavedEvent
    <3>. QED  BY <3>1 DEF ForeignKeyHolds, TypeOK
  <2>8. ASSUME NEW e \in EventIds, DeleteEvent(e) \/ \E r \in Rules : AddEvent(e, r)
        PROVE  NoOrphanEvent'
    BY <2>8 DEF DeleteEvent, AddEvent, ForeignKeyHolds, TypeOK
  <2>7. [Next]_vars => \/ UNCHANGED <<rule, status, ruleOf>>
                       \/ \E r \in Rules : CreateRule(r) \/ DeleteRule(r)
                       \/ \E w \in Workers : CreateEvent(w)
                       \/ \E o \in Operators : \/ SaveToggle(o) \/ SaveRuleForm(o)
                                               \/ SaveEventForm(o)
                       \/ \E e \in EventIds : DeleteEvent(e) \/ \E r \in Rules : AddEvent(e, r)
    BY NextCases DEF vars, db, Breach, Recover, StartTask, Dedup,
       FailToCreate, NotifySlack, SaveNotificationSent, FinishTask, Crash,
       CheckRule, ReadToggle, PostRuleForm, PostEventForm, OpenEventForm
  <2>. QED
    BY <2>1, <2>2, <2>3, <2>4, <2>5, <2>6, <2>7, <2>8
<1>. QED  BY <1>1, <1>2, TypeCorrect, PTL DEF Spec

-----------------------------------------------------------------------------
(* Workers that overlap.  One that is about to insert an event was told that  *)
(* the rule has none, and the events the task raised, together with those     *)
(* workers, are never more than there are workers.  The events that people    *)
(* put on count for nothing here: they only keep the task from raising more.  *)
Creators(r) == {w \in Workers : pc[w] = "create" /\ cur[w] = r}

CreatorsInv ==
  \A r \in Rules :
    /\ IsFiniteSet(Raised(r))
    /\ Cardinality(Raised(r)) + Cardinality(Creators(r)) <= Cardinality(Workers)

(* Cardinalities of the two sets, when one of them shrinks or both do.        *)
LEMMA FewerOfBoth ==
  ASSUME NEW A, NEW B, NEW A2 \in SUBSET A, NEW B2 \in SUBSET B, NEW n \in Nat,
         IsFiniteSet(A), IsFiniteSet(B), Cardinality(A) + Cardinality(B) <= n
  PROVE  IsFiniteSet(A2) /\ Cardinality(A2) + Cardinality(B2) <= n
<1>1. /\ IsFiniteSet(A2) /\ Cardinality(A2) <= Cardinality(A)
      /\ IsFiniteSet(B2) /\ Cardinality(B2) <= Cardinality(B)
  BY FS_Subset
<1>2. /\ Cardinality(A) \in Nat /\ Cardinality(A2) \in Nat
      /\ Cardinality(B) \in Nat /\ Cardinality(B2) \in Nat
  BY <1>1, FS_CardinalityType
<1>. QED  BY <1>1, <1>2

LEMMA CreatorsAreWorkers ==
  ASSUME NEW r \in Rules
  PROVE  /\ IsFiniteSet(Workers) /\ Cardinality(Workers) \in Nat
         /\ Creators(r) \subseteq Workers /\ IsFiniteSet(Creators(r))
         /\ Cardinality(Creators(r)) \in Nat
         /\ Cardinality(Creators(r)) <= Cardinality(Workers)
<1>1. IsFiniteSet(Workers) /\ Creators(r) \subseteq Workers
  BY AlertAssumption DEF Creators
<1>. QED  BY <1>1, FS_Subset, FS_CardinalityType

LEMMA FewerKeepsBound ==
  ASSUME CreatorsInv,
         \A r \in Rules : Raised(r)' \subseteq Raised(r) /\ Creators(r)' \subseteq Creators(r)
  PROVE  CreatorsInv'
<1>. SUFFICES ASSUME NEW r \in Rules
              PROVE  /\ IsFiniteSet(Raised(r)')
                     /\ Cardinality(Raised(r)') + Cardinality(Creators(r)')
                          <= Cardinality(Workers)
  BY DEF CreatorsInv
<1>1. IsFiniteSet(Creators(r)) /\ Cardinality(Workers) \in Nat
  BY CreatorsAreWorkers
<1>. QED  BY <1>1, FewerOfBoth DEF CreatorsInv

LEMMA CreatorsStep ==
  ASSUME TypeOK, CreatorsInv, [Next]_vars
  PROVE  CreatorsInv'
<1>. USE AlertAssumption
<1>1. ASSUME UNCHANGED <<status, ruleOf, pc, cur>> PROVE CreatorsInv'
  BY <1>1, FewerKeepsBound DEF Raised, OpenEvents, IsOpen, Creators
<1>2. ASSUME UNCHANGED <<status, ruleOf>>, NEW w \in Workers, pc'[w] # "create",
             \A v \in Workers \ {w} : pc'[v] = pc[v] /\ cur'[v] = cur[v]
      PROVE  CreatorsInv'
  BY <1>2, FewerKeepsBound DEF Raised, OpenEvents, IsOpen, Creators
<1>3. ASSUME UNCHANGED <<pc, cur>>,
             \A e \in EventIds : status'[e] = "open" => status[e] = "open" /\ ruleOf'[e] = ruleOf[e]
      PROVE  CreatorsInv'
  BY <1>3, FewerKeepsBound DEF Raised, OpenEvents, IsOpen, Creators
<1>4. ASSUME NEW r \in Rules, DeleteRule(r) PROVE CreatorsInv'
  BY <1>3, <1>4 DEF DeleteRule, TypeOK, task
<1>5. ASSUME NEW o \in Operators, SaveEventForm(o) PROVE CreatorsInv'
  <2>1. UNCHANGED <<pc, cur, ruleOf>>
    BY <1>5 DEF SaveEventForm, task
  <2>2. \A e \in EventIds : status'[e] = "open" => status[e] = "open"
    BY <1>5, SavedEvent DEF TypeOK
  <2>. QED  BY <1>3, <2>1, <2>2
<1>12. ASSUME NEW e \in EventIds, DeleteEvent(e) PROVE CreatorsInv'
  BY <1>3, <1>12 DEF DeleteEvent, TypeOK, task
<1>13. ASSUME NEW e \in EventIds, NEW r \in Rules, AddEvent(e, r) PROVE CreatorsInv'
  BY <1>3, <1>13 DEF AddEvent, TypeOK, task
<1>6. ASSUME NEW w \in Workers, NEW r \in Rules, CheckRule(w, r) PROVE CreatorsInv'
  BY <1>2, <1>6 DEF CheckRule, TypeOK, db
<1>7. ASSUME NEW w \in Workers,
             StartTask(w) \/ FailToCreate(w) \/ FinishTask(w) \/ Crash(w)
      PROVE  CreatorsInv'
  BY <1>2, <1>7 DEF StartTask, FailToCreate, FinishTask, Crash, Stop, ForgetBody, TypeOK, db
<1>8. ASSUME NEW w \in Workers, NotifySlack(w) \/ SaveNotificationSent(w) PROVE CreatorsInv'
  <2>1. /\ UNCHANGED <<status, ruleOf>> /\ pc'[w] # "create"
        /\ \A v \in Workers \ {w} : pc'[v] = pc[v] /\ cur'[v] = cur[v]
    BY <1>8 DEF NotifySlack, SaveNotificationSent, NextRule, ForgetBody, TypeOK, db
  <2>. QED  BY <1>2, <2>1
<1>9. ASSUME NEW w \in Workers, Dedup(w) PROVE CreatorsInv'
  <2>1. CASE HasOpenEvent(cur[w])
    BY <1>2, <1>9, <2>1 DEF Dedup, NextRule, ForgetBody, TypeOK, db
  <2>2. CASE ~HasOpenEvent(cur[w])
    <3>1. /\ UNCHANGED <<status, ruleOf, cur>> /\ Raised(cur[w]) = {}
          /\ pc' = [pc EXCEPT ![w] = "create"]
      BY <1>9, <2>2 DEF Dedup, HasOpenEvent, Raised, db
    <3>2. SUFFICES ASSUME NEW r \in Rules
                   PROVE  /\ IsFiniteSet(Raised(r)')
                          /\ Cardinality(Raised(r)') + Cardinality(Creators(r)')
                               <= Cardinality(Workers)
      BY DEF CreatorsInv
    <3>3. Raised(r)' = Raised(r)
      BY <3>1 DEF Raised, OpenEvents, IsOpen
    <3>4. CASE r = cur[w]
      <4>1. /\ IsFiniteSet(Workers) /\ Creators(r)' \subseteq Workers
            /\ Raised(r)' = {} /\ Cardinality(Workers) \in Nat
        BY <3>1, <3>3, <3>4, CreatorsAreWorkers DEF Creators
      <4>2. Cardinality(Creators(r)') <= Cardinality(Workers) /\ Cardinality(Creators(r)') \in Nat
        BY <4>1, FS_Subset, FS_CardinalityType
      <4>. QED  BY <4>1, <4>2, FS_EmptySet
    <3>5. CASE r # cur[w]
      <4>1. Creators(r)' = Creators(r)
        BY <3>1, <3>5 DEF Creators, TypeOK
      <4>. QED  BY <3>3, <4>1 DEF CreatorsInv
    <3>. QED  BY <3>4, <3>5
  <2>. QED  BY <2>1, <2>2
<1>10. ASSUME NEW w \in Workers, CreateEvent(w) PROVE CreatorsInv'
  <2>1. PICK e \in EventIds :
          /\ status[e] = "unused"
          /\ status' = [status EXCEPT ![e] = "open"]
          /\ ruleOf' = [ruleOf EXCEPT ![e] = cur[w]]
          /\ \/ pc' = [pc EXCEPT ![w] = "notify"] /\ UNCHANGED cur
             \/ NextRule(w)
    BY <1>10 DEF CreateEvent
  <2>2. /\ pc[w] = "create" /\ pc'[w] # "create"
        /\ \A v \in Workers \ {w} : pc'[v] = pc[v] /\ cur'[v] = cur[v]
    BY <1>10, <2>1 DEF CreateEvent, NextRule, ForgetBody, TypeOK
  <2>3. SUFFICES ASSUME NEW r \in Rules
                 PROVE  /\ IsFiniteSet(Raised(r)')
                        /\ Cardinality(Raised(r)') + Cardinality(Creators(r)')
                             <= Cardinality(Workers)
    BY DEF CreatorsInv
  <2>4. Creators(r)' = Creators(r) \ {w}
    BY <2>2 DEF Creators
  <2>5. /\ IsFiniteSet(Raised(r)) /\ IsFiniteSet(Creators(r))
        /\ Cardinality(Raised(r)) \in Nat /\ Cardinality(Creators(r)) \in Nat
        /\ Cardinality(Workers) \in Nat
        /\ Cardinality(Raised(r)) + Cardinality(Creators(r)) <= Cardinality(Workers)
    BY CreatorsAreWorkers, FS_CardinalityType DEF CreatorsInv
  <2>6. CASE r = cur[w]
    <3>1. Raised(r)' = Raised(r) \cup {e} /\ e \notin Raised(r)
      BY <2>1, <2>6 DEF Raised, OpenEvents, IsOpen, TypeOK
    <3>2. w \in Creators(r)
      BY <2>2, <2>6 DEF Creators
    <3>3. /\ IsFiniteSet(Raised(r)')
          /\ Cardinality(Raised(r)') = Cardinality(Raised(r)) + 1
      BY <2>5, <3>1, FS_AddElement
    <3>4. Cardinality(Creators(r)') = Cardinality(Creators(r)) - 1
      BY <2>4, <2>5, <3>2, FS_RemoveElement
    <3>. QED  BY <2>5, <3>3, <3>4
  <2>7. CASE r # cur[w]
    <3>1. Raised(r)' = Raised(r)
      BY <2>1, <2>7 DEF Raised, OpenEvents, IsOpen, TypeOK
    <3>2. Creators(r)' = Creators(r)
      BY <2>4, <2>7 DEF Creators
    <3>. QED  BY <2>5, <3>1, <3>2
  <2>. QED  BY <2>6, <2>7
<1>11. \/ UNCHANGED <<status, ruleOf, pc, cur>>
       \/ \E r \in Rules : DeleteRule(r)
       \/ \E w \in Workers, r \in Rules : CheckRule(w, r)
       \/ \E w \in Workers : \/ StartTask(w) \/ Dedup(w)
                             \/ CreateEvent(w) \/ FailToCreate(w)
                             \/ NotifySlack(w) \/ SaveNotificationSent(w)
                             \/ FinishTask(w) \/ Crash(w)
       \/ \E o \in Operators : SaveEventForm(o)
       \/ \E e \in EventIds : DeleteEvent(e)
       \/ \E e \in EventIds, r \in Rules : AddEvent(e, r)
  BY NextCases DEF vars, db, task, Breach, Recover, CreateRule,
     SaveToggle, SaveRuleForm, ReadToggle, PostRuleForm, PostEventForm, OpenEventForm
<1>. QED
  BY <1>1, <1>4, <1>5, <1>6, <1>7, <1>8, <1>9, <1>10, <1>11, <1>12, <1>13

LEMMA CreatorsHold == Spec => []CreatorsInv
<1>1. Init => CreatorsInv
  <2>. SUFFICES ASSUME Init, NEW r \in Rules
                PROVE  /\ IsFiniteSet(Raised(r))
                       /\ Cardinality(Raised(r)) + Cardinality(Creators(r))
                            <= Cardinality(Workers)
    BY DEF CreatorsInv
  <2>1. Raised(r) = {} /\ Creators(r) = {}
    BY DEF Init, Raised, OpenEvents, IsOpen, Creators
  <2>2. Cardinality(Workers) \in Nat
    BY CreatorsAreWorkers
  <2>. QED  BY <2>1, <2>2, FS_EmptySet
<1>2. TypeOK /\ CreatorsInv /\ [Next]_vars => CreatorsInv'
  BY CreatorsStep
<1>. QED  BY <1>1, <1>2, TypeCorrect, PTL DEF Spec

(* Tasks that overlap raise at most one event each for the same breach,      *)
(* however many overlap and for how long, and whatever people add, re-open   *)
(* or delete meanwhile.                                                      *)
THEOREM OpenEventsBounded == Spec => []OpenEventsBoundedByWorkers
<1>1. CreatorsInv => OpenEventsBoundedByWorkers
  <2>. SUFFICES ASSUME CreatorsInv, NEW r \in Rules
                PROVE  Cardinality(Raised(r)) <= Cardinality(Workers)
    BY DEF OpenEventsBoundedByWorkers
  <2>1. /\ Cardinality(Raised(r)) \in Nat /\ Cardinality(Creators(r)) \in Nat
        /\ Cardinality(Workers) \in Nat
    BY CreatorsAreWorkers, FS_CardinalityType DEF CreatorsInv
  <2>. QED  BY <2>1 DEF CreatorsInv
<1>. QED  BY <1>1, CreatorsHold, PTL

(* With a single worker, a rule has two unresolved events only if a person   *)
(* has added one or put one back on: the engine itself never causes that.    *)
OneWorker == Cardinality(Workers) = 1

THEOREM OneOpenEvent ==
  ASSUME OneWorker PROVE Spec => []AtMostOneUnlessManual
<1>1. OpenEventsBoundedByWorkers => AtMostOneUnlessManual
  <2>. SUFFICES ASSUME OpenEventsBoundedByWorkers, NEW r \in Rules,
                       \A e \in EventIds : status[e] # "manual"
                PROVE  Cardinality(OpenEvents(r)) <= 1
    BY DEF AtMostOneUnlessManual, AtMostOneOpenEvent
  <2>1. OpenEvents(r) = Raised(r)
    BY DEF Raised, OpenEvents, IsOpen
  <2>. QED  BY <2>1 DEF OpenEventsBoundedByWorkers, OneWorker
<1>. QED  BY <1>1, OpenEventsBounded, PTL

-----------------------------------------------------------------------------
(* What a worker and an admin form carry around about a notification was     *)
(* true when they read it, and Slack does not take an acceptance back.       *)
SentInv ==
  /\ SentMeansAccepted
  /\ \A w \in Workers : pc[w] = "save" /\ ok[w] => event[w] \in accepted
  /\ \A o \in Operators :
       web[o].kind = "event" /\ web[o].sent => web[o].event \in accepted

(* notification_sent is set only for events Slack accepted.                  *)
THEOREM SentIsTrue == Spec => []SentMeansAccepted
<1>1. Init => SentInv
  BY DEF Init, SentInv, SentMeansAccepted, NoForm
<1>2. ASSUME TypeOK, SentInv, [Next]_vars PROVE SentInv'
  <2>. USE <1>2, AlertAssumption DEF SentInv, SentMeansAccepted
  <2>1. CASE UNCHANGED <<sent, accepted, pc, ok, event, web>>
    BY <2>1
  <2>2. ASSUME NEW w \in Workers, NEW r \in Rules, CheckRule(w, r) PROVE SentInv'
    BY <2>2 DEF CheckRule, db, TypeOK
  <2>3. ASSUME NEW w \in Workers,
               \/ StartTask(w) \/ Dedup(w) \/ FailToCreate(w)
               \/ FinishTask(w) \/ Crash(w)
        PROVE  SentInv'
    BY <2>3 DEF StartTask, Dedup, FailToCreate, FinishTask, Crash, NextRule, Stop,
                ForgetBody, db, TypeOK
  <2>4. ASSUME NEW w \in Workers, CreateEvent(w) PROVE SentInv'
    BY <2>4 DEF CreateEvent, NextRule, ForgetBody, TypeOK
  <2>5. ASSUME NEW w \in Workers, NotifySlack(w) PROVE SentInv'
    <3>1. PICK answered \in BOOLEAN, takes \in BOOLEAN :
            /\ accepted' = IF takes THEN accepted \cup {event[w]} ELSE accepted
            /\ \/ /\ answered
                  /\ pc' = [pc EXCEPT ![w] = "save"]
                  /\ ok' = [ok EXCEPT ![w] = IsOk(answered, takes)]
                  /\ UNCHANGED <<cur, event>>
               \/ NextRule(w)
      BY <2>5 DEF NotifySlack
    <3>2. accepted \subseteq accepted' /\ UNCHANGED <<sent, web>>
      BY <3>1, <2>5 DEF NotifySlack, db
    <3>3. pc'[w] = "save" /\ ok'[w] => event'[w] \in accepted'
      BY <3>1 DEF IsOk, NextRule, TypeOK
    <3>4. \A v \in Workers \ {w} :
            ok'[v] = ok[v] /\ pc'[v] = pc[v] /\ event'[v] = event[v]
      BY <3>1 DEF NextRule, ForgetBody, TypeOK
    <3>. QED  BY <3>2, <3>3, <3>4
  <2>6. ASSUME NEW w \in Workers, SaveNotificationSent(w) PROVE SentInv'
    BY <2>6 DEF SaveNotificationSent, NextRule, ForgetBody, TypeOK
  <2>7. ASSUME NEW o \in Operators, NEW r \in Rules, ReadToggle(o, r) \/ PostRuleForm(o, r)
        PROVE  SentInv'
    BY <2>7 DEF ReadToggle, PostRuleForm, db, task, TypeOK
  <2>8. ASSUME NEW o \in Operators, NEW e \in EventIds, OpenEventForm(o, e)
        PROVE  SentInv'
    BY <2>8 DEF OpenEventForm, db, task, TypeOK
  <2>9. ASSUME NEW o \in Operators, SaveToggle(o) \/ SaveRuleForm(o) PROVE SentInv'
    BY <2>9 DEF SaveToggle, SaveRuleForm, task, TypeOK, NoForm
  <2>10. ASSUME NEW o \in Operators, SaveEventForm(o) PROVE SentInv'
    BY <2>10 DEF SaveEventForm, task, TypeOK, NoForm
  <2>12. ASSUME NEW o \in Operators, PostEventForm(o) PROVE SentInv'
    <3>1. web[o] \in EventForms
      BY <2>12, FormTypes DEF PostEventForm
    <3>2. /\ UNCHANGED <<sent, accepted, pc, ok, event>>
          /\ web'[o] = NoForm \/ (web'[o].event = web[o].event /\ web'[o].sent = web[o].sent)
          /\ \A p \in Operators \ {o} : web'[p] = web[p]
      BY <2>12, <3>1 DEF PostEventForm, EventForms, db, task, TypeOK
    <3>. QED  BY <2>12, <3>2 DEF PostEventForm, NoForm
  <2>11. [Next]_vars =>
           \/ UNCHANGED <<sent, accepted, pc, ok, event, web>>
           \/ \E w \in Workers, r \in Rules : CheckRule(w, r)
           \/ \E w \in Workers : \/ StartTask(w) \/ Dedup(w)
                                 \/ CreateEvent(w) \/ FailToCreate(w)
                                 \/ NotifySlack(w) \/ SaveNotificationSent(w)
                                 \/ FinishTask(w) \/ Crash(w)
           \/ \E o \in Operators : \/ SaveToggle(o) \/ SaveRuleForm(o)
                                   \/ PostEventForm(o) \/ SaveEventForm(o)
           \/ \E o \in Operators, r \in Rules : ReadToggle(o, r) \/ PostRuleForm(o, r)
           \/ \E o \in Operators, e \in EventIds : OpenEventForm(o, e)
    BY NextCases DEF vars, db, task, Breach, Recover, CreateRule, DeleteRule, DeleteEvent,
       AddEvent
  <2>. QED
    BY <2>1, <2>2, <2>3, <2>4, <2>5, <2>6, <2>7, <2>8, <2>9, <2>10, <2>11, <2>12
<1>3. SentInv => SentMeansAccepted
  BY DEF SentInv
<1>. QED  BY <1>1, <1>2, <1>3, TypeCorrect, PTL DEF Spec

-----------------------------------------------------------------------------
(* Only an admin form that somebody posted for it brings a deleted rule or   *)
(* event back or re-opens an event: the save of a toggle that misses its row *)
(* does nothing, the task writes one column, a new event takes a new row.    *)
THEOREM NothingRevived == Spec => OnlyFormsRevive
<1>1. ASSUME TypeOK, [Next]_vars
      PROVE  /\ \A r \in Rules : rule[r] = "deleted" /\ rule'[r] # "deleted" =>
                  \E o \in Operators : web[o].kind = "rule" /\ web[o].rule = r
             /\ \A e \in EventIds :
                  \/ status[e] = "deleted" /\ status'[e] # "deleted"
                  \/ status[e] = "resolved" /\ status'[e] \in {"open", "manual"}
                  => /\ status'[e] # "open"
                     /\ \E o \in Operators :
                          web[o].kind = "event" /\ web[o].event = e /\ web[o].posted
  <2>. DEFINE Revives(e) == \/ status[e] = "deleted" /\ status'[e] # "deleted"
                            \/ status[e] = "resolved" /\ status'[e] \in {"open", "manual"}
              RuleFormOn(r) == \E o \in Operators : web[o].kind = "rule" /\ web[o].rule = r
              EventFormOn(e) == \E o \in Operators :
                  web[o].kind = "event" /\ web[o].event = e /\ web[o].posted
  <2>. USE <1>1 DEF TypeOK
  <2>1. CASE UNCHANGED <<rule, status>>
    BY <2>1
  <2>2. CASE \E r \in Rules : CreateRule(r) \/ DeleteRule(r)
    BY <2>2 DEF CreateRule, DeleteRule
  <2>3. CASE \E w \in Workers : CreateEvent(w)
    BY <2>3 DEF CreateEvent
  <2>4. CASE \E o \in Operators : SaveToggle(o)
    BY <2>4 DEF SaveToggle, SaveFinds, RuleExists
  <2>5. ASSUME NEW o \in Operators, SaveRuleForm(o)
        PROVE  /\ UNCHANGED status
               /\ \A r \in Rules : rule'[r] # rule[r] => RuleFormOn(r)
    BY <2>5 DEF SaveRuleForm
  <2>6. ASSUME NEW o \in Operators, SaveEventForm(o)
        PROVE  /\ UNCHANGED rule
               /\ \A e \in EventIds : Revives(e) => status'[e] # "open" /\ EventFormOn(e)
    <3>1. PICK f \in EventIds :
            /\ f = web[o].event /\ web[o].kind = "event" /\ web[o].posted
            /\ UNCHANGED rule
            /\ \/ \E s \in {"resolved", "open", "manual"} :
                    /\ status' = [status EXCEPT ![f] = s]
                    /\ s = "open" => status[f] = "open"
               \/ UNCHANGED status
      BY <2>6, SavedEvent
    <3>. QED  BY <3>1
  <2>7. CASE \E e \in EventIds : DeleteEvent(e) \/ \E r \in Rules : AddEvent(e, r)
    BY <2>7 DEF DeleteEvent, AddEvent
  <2>8. \/ UNCHANGED <<rule, status>>
        \/ \E r \in Rules : CreateRule(r) \/ DeleteRule(r)
        \/ \E w \in Workers : CreateEvent(w)
        \/ \E o \in Operators : SaveToggle(o) \/ SaveRuleForm(o) \/ SaveEventForm(o)
        \/ \E e \in EventIds : DeleteEvent(e) \/ \E r \in Rules : AddEvent(e, r)
    BY NextCases DEF vars, db, Breach, Recover, StartTask, Dedup,
       FailToCreate, NotifySlack, SaveNotificationSent, FinishTask, Crash,
       CheckRule, ReadToggle, PostRuleForm, PostEventForm, OpenEventForm
  <2>. QED  BY <2>1, <2>2, <2>3, <2>4, <2>5, <2>6, <2>7, <2>8
<1>. QED  BY <1>1, TypeCorrect, PTL DEF Spec, OnlyFormsRevive

-----------------------------------------------------------------------------
(* The engine implements AlertPromise.  Beside CreatorsInv that rests on     *)
(* what is marked as sent: never an event that is not inserted yet, nor one  *)
(* a worker is about to mark, which is its own; and no admin form shows such *)
(* an event as sent.                                                         *)
Marking(w) == pc[w] \in {"notify", "save"}

OwnEvent(w) ==
  /\ event[w] \notin sent /\ status[event[w]] # "unused"
  /\ \A v \in Workers \ {w} : Marking(v) => event[v] # event[w]

FormIsHarmless(o) ==
  /\ status[web[o].event] # "unused"
  /\ web[o].sent => \A w \in Workers : Marking(w) => event[w] # web[o].event

MarkedInv ==
  /\ \A e \in sent : status[e] # "unused"
  /\ \A w \in Workers : Marking(w) => OwnEvent(w)
  /\ \A o \in Operators : web[o].kind = "event" => FormIsHarmless(o)

(* A form about an event names one.                                          *)
LEMMA FormsNameEvents ==
  ASSUME TypeOK
  PROVE  \A o \in Operators : web[o].kind = "event" => web[o].event \in EventIds
BY FormTypes DEF EventForms

LEMMA MarkedStep ==
  ASSUME TypeOK, MarkedInv, [Next]_vars PROVE MarkedInv'
<1>. USE AlertAssumption DEF MarkedInv, Marking, OwnEvent, FormIsHarmless
<1>1. CASE UNCHANGED <<status, sent, pc, event, web>>
  BY <1>1
<1>2. ASSUME NEW r \in Rules, DeleteRule(r) PROVE MarkedInv'
  <2>1. \A e \in EventIds : status[e] # "unused" => status'[e] # "unused"
    BY <1>2 DEF DeleteRule
  <2>2. UNCHANGED <<sent, pc, event, web>>
    BY <1>2 DEF DeleteRule, task
  <2>. QED  BY <2>1, <2>2, FormsNameEvents DEF TypeOK
<1>3. ASSUME NEW w \in Workers, NEW r \in Rules, CheckRule(w, r) PROVE MarkedInv'
  BY <1>3 DEF CheckRule, db, TypeOK
<1>4. ASSUME NEW w \in Workers,
             \/ StartTask(w) \/ Dedup(w) \/ FailToCreate(w)
             \/ FinishTask(w) \/ Crash(w)
      PROVE  MarkedInv'
  <2>1. /\ UNCHANGED <<status, sent, web>>
        /\ pc'[w] \notin {"notify", "save"}
        /\ \A v \in Workers \ {w} : pc'[v] = pc[v] /\ event'[v] = event[v]
    BY <1>4 DEF StartTask, Dedup, FailToCreate, FinishTask, Crash, NextRule, Stop,
                ForgetBody, db, TypeOK
  <2>. QED  BY <2>1
<1>5. ASSUME NEW w \in Workers, CreateEvent(w) PROVE MarkedInv'
  <2>1. PICK e \in EventIds :
          /\ status[e] = "unused"
          /\ status' = [status EXCEPT ![e] = "open"]
          /\ \/ /\ pc' = [pc EXCEPT ![w] = "notify"]
                /\ event' = [event EXCEPT ![w] = e]
             \/ /\ pc' = [pc EXCEPT ![w] = "loop"]
                /\ event' = [event EXCEPT ![w] = Null]
    BY <1>5 DEF CreateEvent, NextRule, ForgetBody
  <2>2. UNCHANGED <<sent, web>>
    BY <1>5 DEF CreateEvent
  <2>3. \A f \in EventIds : status[f] # "unused" => status'[f] # "unused" /\ f # e
    BY <2>1 DEF TypeOK
  <2>4. e \notin sent /\ status'[e] # "unused"
    BY <2>1 DEF TypeOK
  <2>5. /\ Marking(w)' => event'[w] = e
        /\ \A v \in Workers \ {w} : pc'[v] = pc[v] /\ event'[v] = event[v]
    BY <2>1 DEF TypeOK
  <2>6. \A v \in Workers \ {w} : Marking(v) => event[v] \in EventIds /\ event[v] # e
    BY <2>1 DEF TypeOK
  <2>. QED  BY <2>2, <2>3, <2>4, <2>5, <2>6, FormsNameEvents DEF TypeOK
<1>6. ASSUME NEW w \in Workers, NotifySlack(w) PROVE MarkedInv'
  <2>1. /\ UNCHANGED <<status, sent, web>> /\ pc[w] = "notify"
        /\ pc'[w] \in {"save", "loop"} /\ (pc'[w] = "save" => event'[w] = event[w])
        /\ \A v \in Workers \ {w} : pc'[v] = pc[v] /\ event'[v] = event[v]
    BY <1>6 DEF NotifySlack, NextRule, ForgetBody, db, TypeOK
  <2>. QED  BY <2>1
<1>7. ASSUME NEW w \in Workers, SaveNotificationSent(w) PROVE MarkedInv'
  <2>1. /\ pc[w] = "save" /\ pc'[w] = "loop"
        /\ UNCHANGED <<status, web>> /\ sent' \subseteq sent \cup {event[w]}
        /\ \A v \in Workers \ {w} : pc'[v] = pc[v] /\ event'[v] = event[v]
    BY <1>7 DEF SaveNotificationSent, NextRule, ForgetBody, TypeOK
  <2>. QED  BY <2>1
<1>8. ASSUME NEW o \in Operators, SaveEventForm(o) PROVE MarkedInv'
  <2>1. PICK e \in EventIds :
          /\ e = web[o].event /\ web[o].kind = "event"
          /\ web' = [web EXCEPT ![o] = NoForm] /\ status[e] # "unused"
          /\ \/ \E s \in {"resolved", "open", "manual"} : status' = [status EXCEPT ![e] = s]
             \/ UNCHANGED status
          /\ sent' \subseteq sent \/ (web[o].sent /\ sent' = sent \cup {e})
          /\ UNCHANGED task
    BY <1>8, SavedEvent
  <2>2. \A f \in EventIds : status[f] # "unused" => status'[f] # "unused"
    BY <2>1 DEF TypeOK
  <2>3. UNCHANGED <<pc, event>>
    BY <2>1 DEF task
  <2>4. \A p \in Operators : web'[p].kind = "event" => web'[p] = web[p]
    BY <2>1 DEF TypeOK, NoForm
  <2>. QED  BY <2>1, <2>2, <2>3, <2>4, FormsNameEvents DEF TypeOK
<1>9. ASSUME NEW o \in Operators, NEW e \in EventIds, OpenEventForm(o, e) PROVE MarkedInv'
  BY <1>9 DEF OpenEventForm, RowExists, IsOpen, db, task, TypeOK
<1>10. ASSUME NEW o \in Operators, NEW r \in Rules, ReadToggle(o, r) \/ PostRuleForm(o, r)
       PROVE  MarkedInv'
  BY <1>10 DEF ReadToggle, PostRuleForm, db, task, TypeOK
<1>11. ASSUME NEW o \in Operators, SaveToggle(o) \/ SaveRuleForm(o) PROVE MarkedInv'
  BY <1>11 DEF SaveToggle, SaveRuleForm, task, TypeOK, NoForm
<1>13. ASSUME NEW o \in Operators, PostEventForm(o) PROVE MarkedInv'
  <2>1. web[o] \in EventForms /\ web[o].kind = "event"
    BY <1>13, FormTypes DEF PostEventForm
  <2>2. /\ UNCHANGED <<status, sent, pc, event>>
        /\ web'[o] = NoForm \/ (web'[o].event = web[o].event /\ web'[o].sent = web[o].sent)
        /\ \A p \in Operators \ {o} : web'[p] = web[p]
    BY <1>13, <2>1 DEF PostEventForm, EventForms, db, task, TypeOK
  <2>. QED  BY <2>1, <2>2 DEF NoForm
<1>14. ASSUME NEW e \in EventIds, DeleteEvent(e) \/ \E r \in Rules : AddEvent(e, r)
       PROVE  MarkedInv'
  <2>1. \A f \in EventIds : status[f] # "unused" => status'[f] # "unused"
    BY <1>14 DEF DeleteEvent, AddEvent, TypeOK
  <2>2. UNCHANGED <<sent, pc, event, web>>
    BY <1>14 DEF DeleteEvent, AddEvent, task
  <2>. QED  BY <2>1, <2>2, FormsNameEvents DEF TypeOK
<1>12. [Next]_vars =>
         \/ UNCHANGED <<status, sent, pc, event, web>>
         \/ \E r \in Rules : DeleteRule(r)
         \/ \E w \in Workers, r \in Rules : CheckRule(w, r)
         \/ \E w \in Workers : \/ StartTask(w) \/ Dedup(w)
                               \/ CreateEvent(w) \/ FailToCreate(w)
                               \/ NotifySlack(w) \/ SaveNotificationSent(w)
                               \/ FinishTask(w) \/ Crash(w)
         \/ \E o \in Operators : \/ SaveToggle(o) \/ SaveRuleForm(o)
                                 \/ PostEventForm(o) \/ SaveEventForm(o)
         \/ \E o \in Operators, r \in Rules : ReadToggle(o, r) \/ PostRuleForm(o, r)
         \/ \E o \in Operators, e \in EventIds : OpenEventForm(o, e)
         \/ \E e \in EventIds : DeleteEvent(e) \/ \E r \in Rules : AddEvent(e, r)
  BY NextCases DEF vars, db, task, Breach, Recover, CreateRule
<1>. QED
  BY <1>1, <1>2, <1>3, <1>4, <1>5, <1>6, <1>7, <1>8, <1>9, <1>10, <1>11, <1>12,
     <1>13, <1>14

-----------------------------------------------------------------------------
(* The four variables of AlertPromise.  When the alarms of one rule change,  *)
(* the step is one of AlertPromise if the change is.                         *)
Made     == {e \in EventIds : status[e] # "unused"}
Untold   == [r \in Rules |-> OpenEvents(r) \ sent]
Told     == [r \in Rules |-> OpenEvents(r) \cap sent]
ByHand   == {e \in EventIds : status[e] = "manual"}
Alarms   == <<Made, Untold, Told, ByHand>>

SameAlarms(r) == OpenEvents(r)' = OpenEvents(r) /\ \A e \in OpenEvents(r) : e \in sent' <=> e \in sent

LEMMA NoAlarmChanges ==
  ASSUME Made' = Made, ByHand' = ByHand, \A r \in Rules : SameAlarms(r)
  PROVE  UNCHANGED Alarms
<1>1. Untold' = Untold
  BY DEF Untold, SameAlarms
<1>2. Told' = Told
  BY DEF Told, SameAlarms
<1>. QED  BY <1>1, <1>2 DEF Alarms

LEMMA SameCardinality ==
  ASSUME NEW S PROVE Promise!Cardinality(S) = Cardinality(S)
BY DEF Promise!Cardinality, Cardinality

LEMMA AlarmIsRaised ==
  ASSUME NEW r \in Rules, NEW e \in EventIds \ Made, Made' = Made \cup {e},
         OpenEvents(r)' = OpenEvents(r) \cup {e}, sent' = sent, e \notin sent,
         Cardinality(Raised(r)) < Cardinality(Workers), ByHand' = ByHand,
         \A q \in Rules \ {r} : OpenEvents(q)' = OpenEvents(q)
  PROVE  Promise!Next
<1>1. Untold' = [Untold EXCEPT ![r] = @ \cup {e}]
  BY DEF Untold
<1>2. Told' = Told
  BY DEF Told
<1>3. Promise!On(r) \ ByHand = Raised(r)
  BY DEF Promise!On, Raised, OpenEvents, IsOpen, ByHand
<1>4. Promise!Raise(r, e)
  BY <1>1, <1>2, <1>3, SameCardinality DEF Promise!Raise, Made, Untold, Told, ByHand
<1>. QED  BY <1>4 DEF Promise!Next

(* The mark of an alarm that is on is set, or taken away.                    *)
LEMMA AlarmIsTold ==
  ASSUME NEW r \in Rules, NEW e \in OpenEvents(r) \ sent, UNCHANGED <<status, ruleOf>>,
         sent' = sent \cup {e}, \A q \in Rules \ {r} : e \notin OpenEvents(q)
  PROVE  Promise!Next
<1>1. /\ Made' = Made /\ ByHand' = ByHand /\ e \in EventIds
      /\ \A q \in Rules : OpenEvents(q)' = OpenEvents(q)
  BY DEF Made, ByHand, OpenEvents, IsOpen
<1>2. Untold' = [Untold EXCEPT ![r] = @ \ {e}]
  BY <1>1 DEF Untold
<1>3. Told' = [Told EXCEPT ![r] = @ \cup {e}]
  BY <1>1 DEF Told
<1>4. e \in Untold[r]
  BY DEF Untold
<1>5. Promise!Tell(r, e)
  BY <1>1, <1>2, <1>3, <1>4 DEF Promise!Tell, Made, Untold, Told, ByHand
<1>. QED  BY <1>1, <1>5 DEF Promise!Next

LEMMA AlarmIsUnmarked ==
  ASSUME NEW r \in Rules, NEW e \in OpenEvents(r) \cap sent, UNCHANGED <<status, ruleOf>>,
         sent' = sent \ {e}, \A q \in Rules \ {r} : e \notin OpenEvents(q)
  PROVE  Promise!Next
<1>1. /\ Made' = Made /\ ByHand' = ByHand /\ e \in EventIds
      /\ \A q \in Rules : OpenEvents(q)' = OpenEvents(q)
  BY DEF Made, ByHand, OpenEvents, IsOpen
<1>2. Untold' = [Untold EXCEPT ![r] = @ \cup {e}]
  BY <1>1 DEF Untold
<1>3. Told' = [Told EXCEPT ![r] = @ \ {e}]
  BY <1>1 DEF Told
<1>4. e \in Told[r]
  BY DEF Told
<1>5. Promise!Unmark(r, e)
  BY <1>1, <1>2, <1>3, <1>4 DEF Promise!Unmark, Made, Untold, Told, ByHand
<1>. QED  BY <1>1, <1>5 DEF Promise!Next

LEMMA AlarmsAreCleared ==
  ASSUME NEW r \in Rules, NEW some \in SUBSET EventIds, Made' = Made,
         ByHand' = ByHand \ some,
         some \subseteq OpenEvents(r), OpenEvents(r)' = OpenEvents(r) \ some,
         \A e \in OpenEvents(r)' : e \in sent' <=> e \in sent,
         \A q \in Rules \ {r} : SameAlarms(q)
  PROVE  Promise!Next
<1>1. Untold' = [Untold EXCEPT ![r] = @ \ some]
  <2>1. OpenEvents(r)' \ sent' = (OpenEvents(r) \ sent) \ some
    OBVIOUS
  <2>. QED  BY <2>1 DEF Untold, SameAlarms
<1>2. Told' = [Told EXCEPT ![r] = @ \ some]
  <2>1. OpenEvents(r)' \cap sent' = (OpenEvents(r) \cap sent) \ some
    OBVIOUS
  <2>. QED  BY <2>1 DEF Told, SameAlarms
<1>3. Promise!On(r) = OpenEvents(r)
  BY DEF Promise!On
<1>4. Promise!Clear(r, some)
  BY <1>1, <1>2, <1>3 DEF Promise!Clear, Made, Untold, Told, ByHand
<1>. QED  BY <1>4 DEF Promise!Next

(* A person puts an alarm on that was not on.                                *)
LEMMA AlarmIsPutOn ==
  ASSUME NEW r \in Rules, NEW e \in EventIds, \A q \in Rules : e \notin OpenEvents(q),
         Made' = Made \cup {e}, ByHand' = ByHand \cup {e},
         OpenEvents(r)' = OpenEvents(r) \cup {e},
         \A f \in EventIds \ {e} : f \in sent' <=> f \in sent,
         \A q \in Rules \ {r} : SameAlarms(q)
  PROVE  Promise!Next
<1>. DEFINE mark == e \in sent'
<1>1. \A q \in Rules : OpenEvents(q) \subseteq EventIds \ {e}
  BY DEF OpenEvents
<1>2. Untold' = IF mark THEN Untold ELSE [Untold EXCEPT ![r] = @ \cup {e}]
  <2>1. OpenEvents(r)' \ sent' = IF mark THEN OpenEvents(r) \ sent
                                         ELSE (OpenEvents(r) \ sent) \cup {e}
    BY <1>1
  <2>. QED  BY <2>1 DEF Untold, SameAlarms
<1>3. Told' = IF mark THEN [Told EXCEPT ![r] = @ \cup {e}] ELSE Told
  <2>1. OpenEvents(r)' \cap sent' = IF mark THEN (OpenEvents(r) \cap sent) \cup {e}
                                            ELSE OpenEvents(r) \cap sent
    BY <1>1
  <2>. QED  BY <2>1 DEF Told, SameAlarms
<1>4. \A q \in Rules : e \notin Promise!On(q)
  BY DEF Promise!On
<1>5. mark => Promise!PutOn(r, e, TRUE)
  BY <1>2, <1>3, <1>4 DEF Promise!PutOn, Made, Untold, Told, ByHand
<1>6. ~mark => Promise!PutOn(r, e, FALSE)
  BY <1>2, <1>3, <1>4 DEF Promise!PutOn, Made, Untold, Told, ByHand
<1>. QED  BY <1>5, <1>6 DEF Promise!Next

(* The save of an admin form is a step of the person who posted it.          *)
LEMMA FormStep ==
  ASSUME TypeOK, NEW o \in Operators, SaveEventForm(o) PROVE [Promise!Next]_Alarms
<1>1. PICK e \in EventIds :
        /\ e = web[o].event /\ status[e] # "unused" /\ UNCHANGED ruleOf
        /\ \/ /\ \E s \in {"resolved", "open", "manual"} :
                   /\ status' = [status EXCEPT ![e] = s]
                   /\ s = "open" => status[e] = "open"
                   /\ s = "manual" => status[e] # "open"
              /\ sent' = IF web[o].sent THEN sent \cup {e} ELSE sent \ {e}
           \/ UNCHANGED <<status, sent>>
  BY SavedEvent
<1>2. CASE UNCHANGED <<status, sent>>
  BY <1>1, <1>2 DEF Alarms, Made, Untold, Told, ByHand, OpenEvents, IsOpen
<1>3. ASSUME NEW s \in {"resolved", "open", "manual"},
             status' = [status EXCEPT ![e] = s],
             s = "open" => status[e] = "open", s = "manual" => status[e] # "open",
             sent' = IF web[o].sent THEN sent \cup {e} ELSE sent \ {e}
      PROVE  [Promise!Next]_Alarms
  <2>1. PICK r \in Rules : r = ruleOf[e]
    BY <1>1 DEF TypeOK
  <2>2. /\ Made' = Made /\ e \in Made
        /\ \A f \in EventIds \ {e} : f \in sent' <=> f \in sent
        /\ \A q \in Rules \ {r} : e \notin OpenEvents(q) /\ OpenEvents(q)' = OpenEvents(q)
    BY <1>1, <1>3, <2>1 DEF Made, OpenEvents, IsOpen, TypeOK
  <2>3. \A q \in Rules \ {r} : SameAlarms(q)
    BY <2>2 DEF SameAlarms, OpenEvents
  <2>4. CASE ~IsOpen(e) /\ s = "resolved"
    <3>1. OpenEvents(r)' = OpenEvents(r) /\ e \notin OpenEvents(r) /\ ByHand' = ByHand
      BY <1>1, <1>3, <2>4 DEF OpenEvents, IsOpen, ByHand, TypeOK
    <3>2. SameAlarms(r)
      BY <2>2, <3>1 DEF SameAlarms, OpenEvents
    <3>. QED  BY <2>2, <2>3, <3>1, <3>2, NoAlarmChanges
  <2>5. CASE ~IsOpen(e) /\ s = "manual"
    <3>1. /\ OpenEvents(r)' = OpenEvents(r) \cup {e} /\ e \notin OpenEvents(r)
          /\ ByHand' = ByHand \cup {e}
      BY <1>1, <1>3, <2>1, <2>5 DEF OpenEvents, IsOpen, ByHand, TypeOK
    <3>2. \A q \in Rules : e \notin OpenEvents(q)
      BY <2>2, <3>1
    <3>. QED  BY <2>2, <2>3, <3>1, <3>2, AlarmIsPutOn
  <2>6. CASE IsOpen(e) /\ s = "resolved"
    <3>1. /\ {e} \in SUBSET EventIds /\ {e} \subseteq OpenEvents(r)
          /\ OpenEvents(r)' = OpenEvents(r) \ {e} /\ ByHand' = ByHand \ {e}
      BY <1>1, <1>3, <2>1, <2>6 DEF OpenEvents, IsOpen, ByHand, TypeOK
    <3>2. \A f \in OpenEvents(r)' : f \in sent' <=> f \in sent
      BY <2>2, <3>1 DEF OpenEvents
    <3>. QED  BY <2>2, <2>3, <3>1, <3>2, AlarmsAreCleared
  <2>7. CASE IsOpen(e) /\ s # "resolved"
    <3>1. status' = status /\ e \in OpenEvents(r)
      BY <1>3, <2>1, <2>7 DEF IsOpen, OpenEvents, TypeOK
    <3>2. CASE sent' = sent
      BY <1>1, <3>1, <3>2 DEF Alarms, Made, Untold, Told, ByHand, OpenEvents, IsOpen
    <3>3. CASE sent' # sent /\ web[o].sent
      <4>1. e \notin sent /\ sent' = sent \cup {e}
        BY <1>3, <3>3
      <4>. QED  BY <1>1, <2>2, <3>1, <4>1, AlarmIsTold
    <3>4. CASE sent' # sent /\ ~web[o].sent
      <4>1. e \in sent /\ sent' = sent \ {e}
        BY <1>3, <3>4
      <4>. QED  BY <1>1, <2>2, <3>1, <4>1, AlarmIsUnmarked
    <3>. QED  BY <3>2, <3>3, <3>4
  <2>8. s = "open" => IsOpen(e)
    BY <1>3 DEF IsOpen
  <2>. QED  BY <2>4, <2>5, <2>6, <2>7, <2>8
<1>. QED  BY <1>1, <1>2, <1>3

LEMMA PromiseStep ==
  ASSUME TypeOK, CreatorsInv, MarkedInv, [Next]_vars PROVE [Promise!Next]_Alarms
<1>. USE AlertAssumption
<1>1. ASSUME UNCHANGED <<status, ruleOf, sent>> PROVE UNCHANGED Alarms
  BY <1>1 DEF Alarms, Made, Untold, Told, ByHand, OpenEvents, IsOpen
<1>2. ASSUME NEW w \in Workers, CreateEvent(w) PROVE Promise!Next
  <2>1. PICK e \in EventIds :
          /\ status[e] = "unused"
          /\ status' = [status EXCEPT ![e] = "open"]
          /\ ruleOf' = [ruleOf EXCEPT ![e] = cur[w]]
    BY <1>2 DEF CreateEvent
  <2>2. PICK r \in Rules : r = cur[w]
    BY <1>2 DEF CreateEvent, TypeOK
  <2>3. sent' = sent /\ e \notin sent
    BY <1>2, <2>1 DEF CreateEvent, MarkedInv
  <2>4. e \notin Made /\ Made' = Made \cup {e} /\ ByHand' = ByHand
    BY <2>1 DEF Made, ByHand, TypeOK
  <2>5. /\ OpenEvents(r)' = OpenEvents(r) \cup {e}
        /\ \A q \in Rules \ {r} : OpenEvents(q)' = OpenEvents(q)
    BY <2>1, <2>2 DEF OpenEvents, IsOpen, TypeOK
  <2>6. Cardinality(Raised(r)) < Cardinality(Workers)
    <3>1. w \in Creators(r)
      BY <1>2, <2>2 DEF CreateEvent, Creators
    <3>2. Cardinality(Creators(r)) # 0
      BY <3>1, CreatorsAreWorkers, FS_EmptySet
    <3>3. /\ Cardinality(Raised(r)) \in Nat /\ Cardinality(Creators(r)) \in Nat
          /\ Cardinality(Workers) \in Nat
          /\ Cardinality(Raised(r)) + Cardinality(Creators(r)) <= Cardinality(Workers)
      BY CreatorsAreWorkers, FS_CardinalityType DEF CreatorsInv
    <3>. QED  BY <3>2, <3>3
  <2>. QED  BY <2>3, <2>4, <2>5, <2>6, AlarmIsRaised
<1>3. ASSUME NEW w \in Workers, SaveNotificationSent(w) PROVE [Promise!Next]_Alarms
  <2>1. /\ pc[w] = "save" /\ event[w] \in EventIds /\ event[w] \notin sent
        /\ UNCHANGED <<status, ruleOf>>
    BY <1>3 DEF SaveNotificationSent, TypeOK, MarkedInv, Marking, OwnEvent
  <2>2. sent' = sent \/ sent' = sent \cup {event[w]}
    BY <1>3, <2>1 DEF SaveNotificationSent
  <2>3. /\ Made' = Made /\ ByHand' = ByHand
        /\ \A q \in Rules : OpenEvents(q)' = OpenEvents(q)
    BY <2>1 DEF Made, ByHand, OpenEvents, IsOpen
  <2>4. CASE IsOpen(event[w]) /\ sent' = sent \cup {event[w]}
    <3>1. PICK r \in Rules : r = ruleOf[event[w]]
      BY <2>1, <2>4 DEF TypeOK, IsOpen
    <3>2. PICK e \in EventIds : e = event[w]
      BY <2>1
    <3>3. e \in OpenEvents(r) \ sent /\ \A q \in Rules \ {r} : e \notin OpenEvents(q)
      BY <2>1, <2>4, <3>1, <3>2 DEF OpenEvents
    <3>. QED  BY <2>1, <2>4, <3>2, <3>3, AlarmIsTold
  <2>5. CASE ~(IsOpen(event[w]) /\ sent' = sent \cup {event[w]})
    <3>1. \A q \in Rules : SameAlarms(q)
      BY <2>2, <2>3, <2>5 DEF OpenEvents, SameAlarms
    <3>. QED  BY <2>3, <3>1, NoAlarmChanges
  <2>. QED  BY <2>4, <2>5
<1>4. ASSUME NEW r \in Rules, DeleteRule(r) PROVE [Promise!Next]_Alarms
  <2>1. /\ UNCHANGED <<ruleOf, sent>>
        /\ status' = [e \in EventIds |-> IF ruleOf[e] = r THEN "deleted" ELSE status[e]]
    BY <1>4 DEF DeleteRule
  <2>2. OpenEvents(r)' = {} /\ \A q \in Rules \ {r} : OpenEvents(q)' = OpenEvents(q)
    BY <2>1 DEF OpenEvents, IsOpen
  <2>3. Made' = Made /\ ByHand' = ByHand \ OpenEvents(r)
    BY <2>1 DEF Made, ByHand, OpenEvents, IsOpen, TypeOK
  <2>4. \A q \in Rules \ {r} : SameAlarms(q)
    BY <2>1, <2>2 DEF SameAlarms
  <2>5. OpenEvents(r) \in SUBSET EventIds /\ OpenEvents(r)' = OpenEvents(r) \ OpenEvents(r)
    BY <2>2 DEF OpenEvents
  <2>. QED  BY <2>2, <2>3, <2>4, <2>5, AlarmsAreCleared
<1>5. ASSUME NEW e \in EventIds, DeleteEvent(e) PROVE [Promise!Next]_Alarms
  <2>1. /\ UNCHANGED <<ruleOf, sent>> /\ RowExists(e)
        /\ status' = [status EXCEPT ![e] = "deleted"]
    BY <1>5 DEF DeleteEvent
  <2>2. PICK r \in Rules : r = ruleOf[e]
    BY <2>1 DEF TypeOK, RowExists, IsOpen
  <2>. DEFINE some == OpenEvents(r) \cap {e}
  <2>3. /\ OpenEvents(r)' = OpenEvents(r) \ some
        /\ \A q \in Rules \ {r} : OpenEvents(q)' = OpenEvents(q)
    BY <2>1, <2>2 DEF OpenEvents, IsOpen, TypeOK
  <2>4. Made' = Made /\ ByHand' = ByHand \ some
    BY <2>1, <2>2 DEF Made, ByHand, OpenEvents, RowExists, IsOpen, TypeOK
  <2>5. \A q \in Rules \ {r} : SameAlarms(q)
    BY <2>1, <2>3 DEF SameAlarms
  <2>6. some \in SUBSET EventIds /\ some \subseteq OpenEvents(r)
    BY DEF OpenEvents
  <2>7. \A f \in OpenEvents(r)' : f \in sent' <=> f \in sent
    BY <2>1
  <2>. HIDE DEF some
  <2>. QED  BY <2>3, <2>4, <2>5, <2>6, <2>7, AlarmsAreCleared
<1>6. ASSUME NEW e \in EventIds, NEW r \in Rules, AddEvent(e, r) PROVE [Promise!Next]_Alarms
  <2>1. PICK s \in {"manual", "resolved"} :
          /\ status[e] = "unused" /\ status' = [status EXCEPT ![e] = s]
          /\ ruleOf' = [ruleOf EXCEPT ![e] = r] /\ sent' = sent
    BY <1>6 DEF AddEvent
  <2>2. Made' = Made \cup {e} /\ \A q \in Rules : e \notin OpenEvents(q)
    BY <2>1 DEF Made, OpenEvents, IsOpen, TypeOK
  <2>3. \A q \in Rules \ {r} : SameAlarms(q)
    BY <2>1 DEF SameAlarms, OpenEvents, IsOpen, TypeOK
  <2>4. CASE s = "manual"
    <3>1. ByHand' = ByHand \cup {e} /\ OpenEvents(r)' = OpenEvents(r) \cup {e}
      BY <2>1, <2>4 DEF ByHand, OpenEvents, IsOpen, TypeOK
    <3>. QED  BY <2>1, <2>2, <2>3, <3>1, AlarmIsPutOn
  <2>5. CASE s = "resolved"
    <3>1. ByHand' = ByHand /\ SameAlarms(r)
      BY <2>1, <2>5 DEF ByHand, SameAlarms, OpenEvents, IsOpen, TypeOK
    <3>2. Untold' = Untold
      BY <2>3, <3>1 DEF Untold, SameAlarms
    <3>3. Told' = Told
      BY <2>3, <3>1 DEF Told, SameAlarms
    <3>4. Promise!File(e)
      BY <2>2, <3>1, <3>2, <3>3 DEF Promise!File, Made, Untold, Told, ByHand
    <3>. QED  BY <3>4 DEF Promise!Next
  <2>. QED  BY <2>4, <2>5
<1>7. [Next]_vars => \/ UNCHANGED <<status, ruleOf, sent>>
                     \/ \E r \in Rules : DeleteRule(r)
                     \/ \E w \in Workers : CreateEvent(w) \/ SaveNotificationSent(w)
                     \/ \E o \in Operators : SaveEventForm(o)
                     \/ \E e \in EventIds : DeleteEvent(e) \/ \E r \in Rules : AddEvent(e, r)
  BY NextCases DEF vars, db, Breach, Recover, StartTask, Dedup,
     FailToCreate, NotifySlack, FinishTask, Crash, CheckRule, ReadToggle, SaveToggle,
     SaveRuleForm, PostRuleForm, PostEventForm, OpenEventForm, CreateRule
<1>. QED  BY <1>1, <1>2, <1>3, <1>4, <1>5, <1>6, <1>7, FormStep

(* The engine keeps the promise, with any number of workers: it raises each  *)
(* alarm of a rule once and tells Slack of it at most once, whatever it knew *)
(* of an event when it writes it turns no alarm on again, and no more of     *)
(* those it raised are on at once than there are workers (so one at a time   *)
(* with one worker), through crashes, lost answers, deletes and what any     *)
(* number of people post with forms of any age.                              *)
THEOREM PromiseKept == Spec => KeepsPromise
<1>1. Init => Promise!Init
  BY DEF Init, Promise!Init, OpenEvents, IsOpen
<1>2. Init => MarkedInv
  BY DEF Init, MarkedInv, Marking, NoForm
<1>3. TypeOK /\ MarkedInv /\ [Next]_vars => MarkedInv'
  BY MarkedStep
<1>4. TypeOK /\ CreatorsInv /\ MarkedInv /\ [Next]_vars => [Promise!Next]_Alarms
  BY PromiseStep
<1>. QED
  BY <1>1, <1>2, <1>3, <1>4, TypeCorrect, CreatorsHold, PTL
  DEF Spec, KeepsPromise, Promise!Spec, Promise!state, Alarms, Made, Untold, Told, ByHand
=============================================================================
