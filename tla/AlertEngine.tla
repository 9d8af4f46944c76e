---------------------------- MODULE AlertEngine -----------------------------
(***************************************************************************)
(* The alert engine: the Celery task evaluate_alert_rules                   *)
(* (monitor/services/alert_engine.py) run by a pool of workers, against the *)
(* settings views that create, toggle and delete rules and the Django admin *)
(* site, whose forms are of any age when they are posted.  The database is  *)
(* in autocommit mode: each statement of the task is an action of its own,  *)
(* and whatever a worker has read may be stale when it acts on it.  A       *)
(* process runs one task at a time and Celery acknowledges a task when it   *)
(* starts, so a crash loses the rest of the run.                            *)
(*                                                                          *)
(* People edit resolved_at and is_enabled at will.  They leave the rule and *)
(* notification_sent of an event as the form shows them, and the forms post *)
(* them back.                                                               *)
(*                                                                          *)
(* Definitions named Bad... are faulty variants of the definition after     *)
(* them, kept to show that the properties notice; no action uses them.      *)
(***************************************************************************)
EXTENDS FiniteSets, Naturals

CONSTANTS
  Rules,       \* primary keys of alert rules, never used twice
  EventIds,    \* primary keys of alert events; bounds how many are ever made
  Workers,     \* Celery worker processes
  Operators,   \* people with a settings page or a page of the admin site open
  SlackRules,  \* the rules that carry a Slack webhook URL
  MaxCrashes,  \* bounds worker crashes
  Null

ASSUME AlertAssumption ==
  /\ SlackRules \subseteq Rules
  /\ MaxCrashes \in Nat
  /\ IsFiniteSet(Workers)
  /\ Null \notin Rules \cup EventIds

VARIABLES
  rule,      \* rule[r]: the row of rule r
  out,       \* the rules whose metric is out of bounds
  status,    \* status[e]: the row of event e (see IsOpen)
  ruleOf,    \* ruleOf[e]: its foreign key
  sent,      \* the events with notification_sent
  accepted,  \* the events Slack has accepted a message for
  pc,        \* pc[w]: the statement worker w executes next
  todo,      \* todo[w]: the loaded rules w has not looked at
  cur,       \* cur[w]: the rule of the loop body
  event,     \* event[w]: the event made by the loop body
  ok,        \* ok[w]: Slack answered 200
  web,       \* web[o]: what operator o has read and will write
  crashes

db    == <<rule, status, ruleOf, sent>>
task  == <<pc, todo, cur, event, ok>>
vars  == <<rule, out, status, ruleOf, sent, accepted, pc, todo, cur, event, ok,
           web, crashes>>

RuleStates == {"absent", "enabled", "disabled", "deleted"}
Statuses   == {"unused", "open", "manual", "resolved", "deleted"}
Steps      == {"idle", "loop", "dedup", "create", "notify", "save"}

NoForm      == [kind |-> "none"]
ToggleForms == [kind : {"toggle"}, rule : Rules, to : {"enabled", "disabled"}]
RuleForms   == [kind : {"rule"}, rule : Rules]
EventForms  == [kind : {"event"}, event : EventIds, sent : BOOLEAN, posted : BOOLEAN]

(* resolved_at is null; "manual" remembers that a person put the event on,   *)
(* by adding or re-opening it, and "open" that the task did.                 *)
IsOpen(e)     == status[e] \in {"open", "manual"}
OpenEvents(r) == {e \in EventIds : IsOpen(e) /\ ruleOf[e] = r}
RuleExists(r) == rule[r] \in {"enabled", "disabled"}
RowExists(e)  == IsOpen(e) \/ status[e] = "resolved"

Init ==
  /\ rule = [r \in Rules |-> "absent"]
  /\ out = {}
  /\ status = [e \in EventIds |-> "unused"]
  /\ ruleOf = [e \in EventIds |-> Null]
  /\ sent = {}
  /\ accepted = {}
  /\ pc = [w \in Workers |-> "idle"]
  /\ todo = [w \in Workers |-> {}]
  /\ cur = [w \in Workers |-> Null]
  /\ event = [w \in Workers |-> Null]
  /\ ok = [w \in Workers |-> FALSE]
  /\ web = [o \in Operators |-> NoForm]
  /\ crashes = 0

-----------------------------------------------------------------------------
(* The monitored fleet: the metric of a rule leaves its bounds, and comes    *)
(* back.                                                                     *)

Breach(r) ==
  /\ r \notin out
  /\ out' = out \cup {r}
  /\ UNCHANGED <<db, accepted, task, web, crashes>>

Recover(r) ==
  /\ r \in out
  /\ out' = out \ {r}
  /\ UNCHANGED <<db, accepted, task, web, crashes>>

-----------------------------------------------------------------------------
(* The task.  _check_rule is one read of the metric; severity, message and   *)
(* context are wording.  It asks for the newest value only: no action knows  *)
(* the duration_seconds of a rule, because the task never reads it.          *)

(* The end of a loop body, and of a run.                                     *)
ForgetBody(w) ==
  /\ cur' = [cur EXCEPT ![w] = Null]
  /\ event' = [event EXCEPT ![w] = Null]
  /\ ok' = [ok EXCEPT ![w] = FALSE]

NextRule(w) == pc' = [pc EXCEPT ![w] = "loop"] /\ ForgetBody(w)

Stop(w) ==
  /\ pc' = [pc EXCEPT ![w] = "idle"]
  /\ todo' = [todo EXCEPT ![w] = {}]
  /\ ForgetBody(w)

EnabledRules == {r \in Rules : rule[r] = "enabled"}

StartTask(w) ==
  /\ pc[w] = "idle"
  /\ pc' = [pc EXCEPT ![w] = "loop"]
  /\ todo' = [todo EXCEPT ![w] = EnabledRules]
  /\ UNCHANGED <<db, out, accepted, cur, event, ok, web, crashes>>

Breached(r) == r \in out

CheckRule(w, r) ==
  /\ pc[w] = "loop"
  /\ r \in todo[w]
  /\ todo' = [todo EXCEPT ![w] = @ \ {r}]
  /\ IF Breached(r)
       THEN /\ pc' = [pc EXCEPT ![w] = "dedup"]
            /\ cur' = [cur EXCEPT ![w] = r]
       ELSE UNCHANGED <<pc, cur>>
  /\ UNCHANGED <<db, out, accepted, event, ok, web, crashes>>

BadHasOpenEvent(r) == FALSE
HasOpenEvent(r) == OpenEvents(r) # {}

Dedup(w) ==
  /\ pc[w] = "dedup"
  /\ IF HasOpenEvent(cur[w])
       THEN NextRule(w)
       ELSE /\ pc' = [pc EXCEPT ![w] = "create"]
            /\ UNCHANGED <<cur, event, ok>>
  /\ UNCHANGED <<db, out, accepted, todo, web, crashes>>

(* The INSERT checks the foreign key: the rule was loaded when the task      *)
(* started and may have been deleted since.                                  *)
BadForeignKeyHolds(r) == TRUE
ForeignKeyHolds(r) == RuleExists(r)

CreateEvent(w) ==
  /\ pc[w] = "create"
  /\ ForeignKeyHolds(cur[w])
  /\ \E e \in EventIds :
       /\ status[e] = "unused"
       /\ status' = [status EXCEPT ![e] = "open"]
       /\ ruleOf' = [ruleOf EXCEPT ![e] = cur[w]]
       /\ IF cur[w] \in SlackRules
            THEN /\ pc' = [pc EXCEPT ![w] = "notify"]
                 /\ event' = [event EXCEPT ![w] = e]
                 /\ UNCHANGED <<cur, ok>>
            ELSE NextRule(w)
  /\ UNCHANGED <<rule, out, sent, accepted, todo, web, crashes>>

BadFailToCreate(w) ==   \* the task retries the INSERT
  /\ pc[w] = "create"
  /\ ~ForeignKeyHolds(cur[w])
  /\ UNCHANGED vars

(* IntegrityError: nothing catches it, so the rules still to do are dropped. *)
FailToCreate(w) ==
  /\ pc[w] = "create"
  /\ ~ForeignKeyHolds(cur[w])
  /\ Stop(w)
  /\ UNCHANGED <<db, out, accepted, web, crashes>>

(* requests.post: Slack may accept the message and answer, accept it and     *)
(* the answer is lost (timeout=5), refuse it, or be out of reach.            *)
BadIsOk(answered, takes) == answered
IsOk(answered, takes) == answered /\ takes

NotifySlack(w) ==
  /\ pc[w] = "notify"
  /\ \E answered, takes \in BOOLEAN :
       /\ accepted' = IF takes THEN accepted \cup {event[w]} ELSE accepted
       /\ IF answered
            THEN /\ pc' = [pc EXCEPT ![w] = "save"]
                 /\ ok' = [ok EXCEPT ![w] = IsOk(answered, takes)]
                 /\ UNCHANGED <<cur, event>>
            ELSE NextRule(w)
  /\ UNCHANGED <<db, out, todo, web, crashes>>

(* event.save(update_fields=["notification_sent"]): an UPDATE of one column; *)
(* when the row is gone it raises, and _notify_slack swallows the error.     *)
BadSaveNotificationSent(w) ==   \* saves every column of the event it holds
  /\ pc[w] = "save"
  /\ sent' = IF ok[w] THEN sent \cup {event[w]} ELSE sent \ {event[w]}
  /\ status' = [status EXCEPT ![event[w]] = "open"]
  /\ NextRule(w)
  /\ UNCHANGED <<rule, ruleOf, out, accepted, todo, web, crashes>>

SaveNotificationSent(w) ==
  /\ pc[w] = "save"
  /\ IF RowExists(event[w])
       THEN sent' = IF ok[w] THEN sent \cup {event[w]} ELSE sent \ {event[w]}
       ELSE UNCHANGED sent
  /\ NextRule(w)
  /\ UNCHANGED <<rule, status, ruleOf, out, accepted, todo, web, crashes>>

FinishTask(w) ==
  /\ pc[w] = "loop"
  /\ todo[w] = {}
  /\ pc' = [pc EXCEPT ![w] = "idle"]
  /\ UNCHANGED <<db, out, accepted, todo, cur, event, ok, web, crashes>>

Crash(w) ==
  /\ pc[w] # "idle"
  /\ crashes < MaxCrashes
  /\ crashes' = crashes + 1
  /\ Stop(w)
  /\ UNCHANGED <<db, out, accepted, web>>

-----------------------------------------------------------------------------
(* The settings views.                                                       *)

CreateRule(r) ==
  /\ rule[r] = "absent"
  /\ rule' = [rule EXCEPT ![r] = "enabled"]
  /\ UNCHANGED <<out, status, ruleOf, sent, accepted, task, web, crashes>>

(* toggle_alert_rule reads the row, then saves the opposite of what it read. *)
ReadToggle(o, r) ==
  /\ web[o] = NoForm
  /\ RuleExists(r)
  /\ web' = [web EXCEPT ![o] =
       [kind |-> "toggle", rule |-> r,
        to |-> IF rule[r] = "enabled" THEN "disabled" ELSE "enabled"]]
  /\ UNCHANGED <<db, out, accepted, task, crashes>>

(* save(update_fields=...) of a deleted row updates nothing and raises.      *)
SaveFinds(r) == RuleExists(r)

SaveToggle(o) ==
  /\ web[o].kind = "toggle"
  /\ rule' = IF SaveFinds(web[o].rule)
             THEN [rule EXCEPT ![web[o].rule] = web[o].to] ELSE rule
  /\ web' = [web EXCEPT ![o] = NoForm]
  /\ UNCHANGED <<out, status, ruleOf, sent, accepted, task, crashes>>

(* The DELETE cascades to the events in one transaction.                     *)
BadDeleteRule(r) ==   \* on_delete=SET_NULL
  /\ RuleExists(r)
  /\ rule' = [rule EXCEPT ![r] = "deleted"]
  /\ ruleOf' = [e \in EventIds |-> IF ruleOf[e] = r THEN Null ELSE ruleOf[e]]
  /\ UNCHANGED <<out, status, sent, accepted, task, web, crashes>>

DeleteRule(r) ==
  /\ RuleExists(r)
  /\ rule' = [rule EXCEPT ![r] = "deleted"]
  /\ status' = [e \in EventIds |-> IF ruleOf[e] = r THEN "deleted" ELSE status[e]]
  /\ UNCHANGED <<out, ruleOf, sent, accepted, task, web, crashes>>

(* The admin site.  A form posts back every column it shows, as it was when  *)
(* the form was opened but for what the person has edited: is_enabled and    *)
(* resolved_at may have any value in it, notification_sent has the old one.  *)
(* The POST looks its row up again, and is redirected when it is gone.       *)
PostRuleForm(o, r) ==
  /\ web[o] = NoForm
  /\ RuleExists(r)
  /\ web' = [web EXCEPT ![o] = [kind |-> "rule", rule |-> r]]
  /\ UNCHANGED <<db, out, accepted, task, crashes>>

OpenEventForm(o, e) ==
  /\ web[o] = NoForm
  /\ RowExists(e)
  /\ web' = [web EXCEPT ![o] =
       [kind |-> "event", event |-> e, sent |-> e \in sent, posted |-> FALSE]]
  /\ UNCHANGED <<db, out, accepted, task, crashes>>

PostEventForm(o) ==
  /\ web[o].kind = "event"
  /\ ~web[o].posted
  /\ web' = [web EXCEPT ![o] =
       IF RowExists(@.event) THEN [@ EXCEPT !.posted = TRUE] ELSE NoForm]
  /\ UNCHANGED <<db, out, accepted, task, crashes>>

(* save() of every column: an UPDATE or, when the row has gone since the     *)
(* POST looked it up, an INSERT with the old primary key.                    *)
SaveRuleForm(o) ==
  /\ web[o].kind = "rule"
  /\ \E to \in {"enabled", "disabled"} : rule' = [rule EXCEPT ![web[o].rule] = to]
  /\ web' = [web EXCEPT ![o] = NoForm]
  /\ UNCHANGED <<out, status, ruleOf, sent, accepted, task, crashes>>

Edited(e, open) ==
  IF ~open THEN "resolved" ELSE IF status[e] = "open" THEN "open" ELSE "manual"

SaveEventForm(o) ==
  /\ web[o].kind = "event"
  /\ web[o].posted
  /\ LET e == web[o].event IN
       IF RowExists(e) \/ ForeignKeyHolds(ruleOf[e])
         THEN /\ \E open \in BOOLEAN : status' = [status EXCEPT ![e] = Edited(e, open)]
              /\ sent' = IF web[o].sent THEN sent \cup {e} ELSE sent \ {e}
         ELSE UNCHANGED <<status, sent>>
  /\ web' = [web EXCEPT ![o] = NoForm]
  /\ UNCHANGED <<rule, ruleOf, out, accepted, task, crashes>>

AddEvent(e, r) ==
  /\ status[e] = "unused"
  /\ ForeignKeyHolds(r)
  /\ \E s \in {"manual", "resolved"} : status' = [status EXCEPT ![e] = s]
  /\ ruleOf' = [ruleOf EXCEPT ![e] = r]
  /\ UNCHANGED <<rule, out, sent, accepted, task, web, crashes>>

DeleteEvent(e) ==
  /\ RowExists(e)
  /\ status' = [status EXCEPT ![e] = "deleted"]
  /\ UNCHANGED <<rule, out, ruleOf, sent, accepted, task, web, crashes>>

-----------------------------------------------------------------------------
Fleet == \E r \in Rules : Breach(r) \/ Recover(r)

CheckSomeRule(w) == \E r \in Rules : CheckRule(w, r)

WorkerStep(w) ==
  \/ StartTask(w) \/ CheckSomeRule(w) \/ Dedup(w)
  \/ CreateEvent(w) \/ FailToCreate(w)
  \/ NotifySlack(w) \/ SaveNotificationSent(w) \/ FinishTask(w)

OperatorStep(o) ==
  \/ SaveToggle(o) \/ SaveRuleForm(o) \/ PostEventForm(o) \/ SaveEventForm(o)
  \/ \E r \in Rules : ReadToggle(o, r) \/ PostRuleForm(o, r)
  \/ \E e \in EventIds : OpenEventForm(o, e)

RowAdmin ==
  \/ \E r \in Rules : CreateRule(r) \/ DeleteRule(r)
  \/ \E e \in EventIds : DeleteEvent(e) \/ \E r \in Rules : AddEvent(e, r)

Next ==
  \/ Fleet
  \/ \E w \in Workers : WorkerStep(w) \/ Crash(w)
  \/ \E o \in Operators : OperatorStep(o)
  \/ RowAdmin

Spec == Init /\ [][Next]_vars

(* Beat puts a task in the queue every minute and a live worker executes its *)
(* next statement; nobody is obliged to click, and a crash is not obliged to *)
(* happen.                                                                   *)
Fairness == \A w \in Workers : WF_vars(WorkerStep(w))

-----------------------------------------------------------------------------
(* Every row and every local has its type, and the rule_id of an event is    *)
(* never null once the event is inserted.                                    *)
TypeOK ==
  /\ rule \in [Rules -> RuleStates]
  /\ out \in SUBSET Rules
  /\ status \in [EventIds -> Statuses]
  /\ ruleOf \in [EventIds -> Rules \cup {Null}]
  /\ \A e \in EventIds : ruleOf[e] = Null <=> status[e] = "unused"
  /\ sent \in SUBSET EventIds
  /\ accepted \in SUBSET EventIds
  /\ pc \in [Workers -> Steps]
  /\ todo \in [Workers -> SUBSET Rules]
  /\ cur \in [Workers -> Rules \cup {Null}]
  /\ event \in [Workers -> EventIds \cup {Null}]
  /\ \A w \in Workers : /\ pc[w] \in {"dedup", "create"} => cur[w] # Null
                        /\ pc[w] \in {"notify", "save"} => event[w] # Null
  /\ ok \in [Workers -> BOOLEAN]
  /\ web \in [Operators -> {NoForm} \cup ToggleForms \cup RuleForms \cup EventForms]
  /\ \A o \in Operators : web[o].kind = "event" => status[web[o].event] # "unused"
  /\ crashes \in 0 .. MaxCrashes

(* evaluate_alert_rules creates an event only "if ... no open event exists"  *)
(* (alert_engine.py:9): where no person has put an event on by hand, a rule  *)
(* never has two unresolved events.                                          *)
AtMostOneOpenEvent == \A r \in Rules : Cardinality(OpenEvents(r)) <= 1
AtMostOneUnlessManual ==
  (\A e \in EventIds : status[e] # "manual") => AtMostOneOpenEvent

(* The dedup query and the INSERT are two statements, so workers that run    *)
(* the task at the same time can each insert one; never more than that,      *)
(* events aside that a person has added or re-opened meanwhile.              *)
Raised(r) == {e \in OpenEvents(r) : status[e] = "open"}

OpenEventsBoundedByWorkers ==
  \A r \in Rules : Cardinality(Raised(r)) <= Cardinality(Workers)

(* An event that exists belongs to a rule that exists, whatever the worker   *)
(* knew of the rule when it inserted the event.                              *)
NoOrphanEvent == \A e \in EventIds : RowExists(e) => RuleExists(ruleOf[e])

(* notification_sent is never set for an alert Slack did not take, through   *)
(* lost answers, crashes and the stale values an admin form posts back.      *)
SentMeansAccepted == sent \subseteq accepted

(* A row that was deleted comes back, and an event that was resolved opens   *)
(* again, only by an admin form that somebody posted for it: neither the     *)
(* engine, which saves an event it made before somebody resolved it, nor a   *)
(* toggle, which saves a rule it read before somebody deleted it, does that. *)
OnlyFormsRevive ==
  [][/\ \A r \in Rules : rule[r] = "deleted" /\ rule'[r] # "deleted" =>
          \E o \in Operators : web[o].kind = "rule" /\ web[o].rule = r
     /\ \A e \in EventIds :
          \/ status[e] = "deleted" /\ status'[e] # "deleted"
          \/ status[e] = "resolved" /\ status'[e] \in {"open", "manual"}
          => /\ status'[e] # "open"
             /\ \E o \in Operators :
                  web[o].kind = "event" /\ web[o].event = e /\ web[o].posted]_vars

(* The engine keeps the promise of AlertPromise with as many alarms at once  *)
(* as there are workers: an event it inserts is raised once, is marked at    *)
(* most once by it, and stays closed unless a person puts it on again.       *)
Promise ==
  INSTANCE AlertPromise WITH
    Alarms  <- EventIds,
    AtOnce  <- Cardinality(Workers),
    raised  <- {e \in EventIds : status[e] # "unused"},
    ringing <- [r \in Rules |-> OpenEvents(r) \ sent],
    told    <- [r \in Rules |-> OpenEvents(r) \cap sent],
    manual  <- {e \in EventIds : status[e] = "manual"}
KeepsPromise == Promise!Spec

(* A rule that stays enabled and out of bounds gets an open event, although  *)
(* deleted rules abort runs and crashes lose them (as long as there are      *)
(* primary keys left, and unless people delete rules and restore them with   *)
(* stale forms for ever).                                                    *)
Exhausted == \A e \in EventIds : status[e] # "unused"
RulesSettle == <>[][{r \in Rules : RuleExists(r)}' = {r \in Rules : RuleExists(r)}]_vars
BreachIsRaised ==
  RulesSettle =>
    \A r \in Rules :
      <>[](rule[r] = "enabled" /\ r \in out) => []<>(HasOpenEvent(r) \/ Exhausted)
=============================================================================
