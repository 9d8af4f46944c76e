------------------------------ MODULE LlmSync -------------------------------
(***************************************************************************)
(* LLM usage (monitor/services/llm_sync_engine.py): the two hourly Celery   *)
(* tasks and the manual sync of the settings view read what the providers   *)
(* report, one HTTP request at a time, and then upsert one usage row per    *)
(* statement.  Nothing keeps two syncs of a provider apart, so what one has *)
(* fetched may be older than what another has stored.                       *)
(*                                                                          *)
(* A row stands for its key, (date, organization, provider, model) for the  *)
(* feed "usage" and (date, organization, user) for "claude"; its amount     *)
(* stands for all its counters, 0 meaning that there is no row.  The pages  *)
(* of a day are one request, and the days are asked in any order.  cost_usd *)
(* is kept as one bit: the row carries its share of a cost report.          *)
(*                                                                          *)
(* Definitions named Bad... are faulty variants of the definition after     *)
(* them, kept to show that the properties notice; no action uses them.      *)
(***************************************************************************)
EXTENDS Naturals

CONSTANTS
  Providers,   \* primary keys of LLMProvider rows
  Anthropic,   \* those with provider = "anthropic"; the others are "openai"
  Rows,        \* keys of usage rows
  UsageRows,   \* UsageRows[p]: the rows the model usage of p is filed under
  ClaudeRows,  \* ClaudeRows[p]: the rows its Claude Code usage is filed under
  Workers,     \* Celery worker processes
  Handlers,    \* gunicorn worker processes
  MaxAmount,   \* bounds the usage of a row
  MaxCrashes,  \* bounds crashes of workers and handlers
  Null

Syncers == Workers \cup Handlers

ASSUME SyncAssumption ==
  /\ Anthropic \subseteq Providers
  /\ UsageRows \in [Providers -> SUBSET Rows]
  /\ ClaudeRows \in [Providers -> SUBSET Rows]
  /\ \A p, q \in Providers : UsageRows[p] \cap ClaudeRows[q] = {}   \* two tables
  /\ Workers \cap Handlers = {}
  /\ MaxAmount \in Nat
  /\ MaxCrashes \in Nat
  /\ Null \notin Providers \cup Nat

VARIABLES
  provider,  \* provider[p]: the row of provider p
  synced,    \* the providers with a last_synced_at
  record,    \* record[r]: amount and cost bit of usage row r
  used,      \* used[p][r]: what the API reports for the key of p
  sick,      \* the providers whose API fails now and then
  pc,        \* pc[s]: what syncer s does next
  feed,      \* feed[s]: the feed it works on
  plan,      \* plan[s]: the providers its loop has not reached
  cur,       \* cur[s]: the provider of the loop body
  asked,     \* asked[s]: the rows it has an answer for
  got,       \* got[s]: the amounts it has fetched and not stored
  priced,    \* priced[s]: it has read a cost report
  since,     \* since[s]: what was reported when the oldest of an unbroken
             \* chain of overlapping syncs of cur[s], ending in s, began
  crashes

locals   == <<feed, plan, cur, asked, got, priced, since>>
vars     == <<provider, synced, record, used, sick, pc, feed, plan, cur, asked,
              got, priced, since, crashes>>

ProviderStates == {"absent", "active", "inactive", "deleted"}
Steps   == {"idle", "next", "ask", "bill", "store"}
Feeds   == {"usage", "claude"}
Answers == {"ok", "refused", "broken"}   \* 200, another status, an exception
Amounts == 0 .. MaxAmount
NoAmounts == [r \in Rows |-> 0]

RowsOf(p, f)      == IF f = "usage" THEN UsageRows[p] ELSE ClaudeRows[p]
ProviderExists(p) == provider[p] \in {"active", "inactive"}

Init ==
  /\ provider = [p \in Providers |-> "absent"]
  /\ synced = {}
  /\ record = [r \in Rows |-> [amount |-> 0, priced |-> FALSE]]
  /\ used = [p \in Providers |-> NoAmounts]
  /\ sick = Providers
  /\ pc = [s \in Syncers |-> "idle"]
  /\ feed = [s \in Syncers |-> "usage"]
  /\ plan = [s \in Syncers |-> {}]
  /\ cur = [s \in Syncers |-> Null]
  /\ asked = [s \in Syncers |-> {}]
  /\ got = [s \in Syncers |-> NoAmounts]
  /\ priced = [s \in Syncers |-> FALSE]
  /\ since = [s \in Syncers |-> NoAmounts]
  /\ crashes = 0

-----------------------------------------------------------------------------
(* The provider APIs: usage of a day only grows, and an API answers some     *)
(* requests until it answers all of them.                                    *)

Use(p, r) ==
  /\ r \in UsageRows[p] \cup ClaudeRows[p]
  /\ used[p][r] < MaxAmount
  /\ used' = [used EXCEPT ![p][r] = @ + 1]
  /\ UNCHANGED <<provider, synced, record, sick, pc, locals, crashes>>

Recover(p) ==
  /\ p \in sick
  /\ sick' = sick \ {p}
  /\ UNCHANGED <<provider, synced, record, used, pc, locals, crashes>>

MayAnswer(p, answer) == answer = "ok" \/ p \in sick

-----------------------------------------------------------------------------
(* How a loop body, a task or a request ends.                                *)

ForgetBody(s) ==
  /\ cur' = [cur EXCEPT ![s] = Null]
  /\ asked' = [asked EXCEPT ![s] = {}]
  /\ got' = [got EXCEPT ![s] = NoAmounts]
  /\ priced' = [priced EXCEPT ![s] = FALSE]
  /\ since' = [since EXCEPT ![s] = NoAmounts]

End(s) ==
  /\ pc' = [pc EXCEPT ![s] = "idle"]
  /\ plan' = [plan EXCEPT ![s] = {}]
  /\ feed' = [feed EXCEPT ![s] = "usage"]
  /\ ForgetBody(s)

(* sync_provider returned: the task goes on with its loop, and the view      *)
(* pulls the Claude Code usage of the same key, if there can be any.         *)
ThenClaude(s, p) == s \in Handlers /\ feed[s] = "usage" /\ p \in Anthropic

Return(s, p) ==
  /\ pc' = [pc EXCEPT ![s] = "next"]
  /\ IF ThenClaude(s, p)
       THEN /\ feed' = [feed EXCEPT ![s] = "claude"]
            /\ plan' = [plan EXCEPT ![s] = {p}]
       ELSE /\ UNCHANGED feed
            /\ plan' = [plan EXCEPT ![s] = @ \ {p}]
  /\ ForgetBody(s)

(* It raised: the task logs the exception and goes on with its loop; the     *)
(* view redirects with the error, or swallows it when it came from Claude.   *)
BadRaise(s, p) == End(s)
Raise(s, p) ==
  IF s \in Handlers
    THEN End(s)
    ELSE /\ pc' = [pc EXCEPT ![s] = "next"]
         /\ plan' = [plan EXCEPT ![s] = @ \ {p}]
         /\ UNCHANGED feed
         /\ ForgetBody(s)

-----------------------------------------------------------------------------
(* The tasks and the view.                                                   *)

BadListed(f) ==   \* asks only the keys that were never synced
  {p \in Providers : provider[p] = "active" /\ p \notin synced /\ (f = "claude" => p \in Anthropic)}
Listed(f) == {p \in Providers : provider[p] = "active" /\ (f = "claude" => p \in Anthropic)}

StartTask(w, f) ==
  /\ pc[w] = "idle"
  /\ pc' = [pc EXCEPT ![w] = "next"]
  /\ feed' = [feed EXCEPT ![w] = f]
  /\ plan' = [plan EXCEPT ![w] = Listed(f)]
  /\ UNCHANGED <<provider, synced, record, used, sick, cur, asked, got, priced, since,
                 crashes>>

StartManual(h, p) ==
  /\ pc[h] = "idle"
  /\ ProviderExists(p)
  /\ pc' = [pc EXCEPT ![h] = "next"]
  /\ feed' = [feed EXCEPT ![h] = "usage"]
  /\ plan' = [plan EXCEPT ![h] = {p}]
  /\ UNCHANGED <<provider, synced, record, used, sick, cur, asked, got, priced, since,
                 crashes>>

(* OpenAI is asked for the bill first, Anthropic after the usage; Claude     *)
(* Code usage comes with its cost.                                           *)
FirstStep(p, f) == IF f = "usage" /\ p \notin Anthropic THEN "bill" ELSE "ask"

Running(p, f)  == {s \in Syncers : cur[s] = p /\ feed[s] = f}
Reported(p, r) == {used[p][r]} \cup {since[s][r] : s \in Running(p, "usage")}
Oldest(p, f)   ==
  [r \in Rows |-> IF f = "usage" /\ r \in UsageRows[p]
                  THEN CHOOSE n \in Reported(p, r) : \A m \in Reported(p, r) : n <= m
                  ELSE 0]

(* LLMProvider.objects.get reads the provider again: it may be gone (an      *)
(* exception) or switched off (nothing to do) by now.                        *)
BeginSync(s, p) ==
  /\ pc[s] = "next"
  /\ p \in plan[s]
  /\ provider[p] = "active"
  /\ pc' = [pc EXCEPT ![s] = FirstStep(p, feed[s])]
  /\ cur' = [cur EXCEPT ![s] = p]
  /\ priced' = [priced EXCEPT ![s] = feed[s] = "claude"]
  /\ since' = [since EXCEPT ![s] = Oldest(p, feed[s])]
  /\ UNCHANGED <<provider, synced, record, used, sick, feed, plan, asked, got, crashes>>

SkipProvider(s, p) ==
  /\ pc[s] = "next"
  /\ p \in plan[s]
  /\ \/ provider[p] = "inactive" /\ Return(s, p)
     \/ ~ProviderExists(p) /\ Raise(s, p)
  /\ UNCHANGED <<provider, synced, record, used, sick, crashes>>

FinishRun(s) ==
  /\ pc[s] = "next"
  /\ plan[s] = {}
  /\ End(s)
  /\ UNCHANGED <<provider, synced, record, used, sick, crashes>>

-----------------------------------------------------------------------------
(* fetch.  Anthropic raises on every status but 200; OpenAI leaves the day   *)
(* out of the records.                                                       *)
BadToleratesRefusal(p, f) == TRUE
ToleratesRefusal(p, f) == f = "usage" /\ p \notin Anthropic

ToAsk(s) == RowsOf(cur[s], feed[s]) \ asked[s]

AskUsage(s, r) ==
  /\ pc[s] = "ask"
  /\ r \in ToAsk(s)
  /\ \E answer \in Answers :
       /\ MayAnswer(cur[s], answer)
       /\ IF answer = "ok" \/ (answer = "refused" /\ ToleratesRefusal(cur[s], feed[s]))
            THEN /\ asked' = [asked EXCEPT ![s] = @ \cup {r}]
                 /\ got' = IF answer = "ok"
                           THEN [got EXCEPT ![s][r] = used[cur[s]][r]] ELSE got
                 /\ UNCHANGED <<pc, feed, plan, cur, priced, since>>
            ELSE Raise(s, cur[s])
  /\ UNCHANGED <<provider, synced, record, used, sick, crashes>>

UsageComplete(s) ==
  /\ pc[s] = "ask"
  /\ ToAsk(s) = {}
  /\ pc' = [pc EXCEPT ![s] =
       IF feed[s] = "usage" /\ cur[s] \in Anthropic THEN "bill" ELSE "store"]
  /\ UNCHANGED <<provider, synced, record, used, sick, locals, crashes>>

(* The cost report: without it Anthropic's records, and after a refusal      *)
(* OpenAI's too, go on with a cost of 0.                                     *)
AskCost(s) ==
  /\ pc[s] = "bill"
  /\ \E answer \in Answers :
       /\ MayAnswer(cur[s], answer)
       /\ IF answer = "broken" /\ cur[s] \notin Anthropic
            THEN Raise(s, cur[s])
            ELSE /\ priced' = [priced EXCEPT ![s] = answer = "ok"]
                 /\ pc' = [pc EXCEPT ![s] = IF cur[s] \in Anthropic THEN "store" ELSE "ask"]
                 /\ UNCHANGED <<feed, plan, cur, asked, got, since>>
  /\ UNCHANGED <<provider, synced, record, used, sick, crashes>>

-----------------------------------------------------------------------------
(* update_or_create, a transaction per row; then, for model usage, a save of *)
(* last_synced_at alone, which raises when the provider is gone.             *)

BadUpserted(old, n) == old.amount + n   \* F("input_tokens") + n
Upserted(old, n) == n

StoreRow(s, r) ==
  /\ pc[s] = "store"
  /\ got[s][r] > 0
  /\ record' = [record EXCEPT ![r] =
       [amount |-> Upserted(@, got[s][r]), priced |-> priced[s]]]
  /\ got' = [got EXCEPT ![s][r] = 0]
  /\ UNCHANGED <<provider, synced, used, sick, pc, feed, plan, cur, asked, priced, since,
                 crashes>>

BadStored(s) == TRUE   \* last_synced_at is set after the fetch
Stored(s) == got[s] = NoAmounts

BadSaveSynced(s) ==   \* provider.save() of every column
  /\ pc[s] = "store"
  /\ feed[s] = "usage"
  /\ Stored(s)
  /\ synced' = synced \cup {cur[s]}
  /\ provider' = [provider EXCEPT ![cur[s]] = "active"]
  /\ Return(s, cur[s])
  /\ UNCHANGED <<record, used, sick, crashes>>

SaveSynced(s) ==
  /\ pc[s] = "store"
  /\ feed[s] = "usage"
  /\ Stored(s)
  /\ IF ProviderExists(cur[s])
       THEN synced' = synced \cup {cur[s]} /\ Return(s, cur[s])
       ELSE UNCHANGED synced /\ Raise(s, cur[s])
  /\ UNCHANGED <<provider, record, used, sick, crashes>>

FinishClaude(s) ==
  /\ pc[s] = "store"
  /\ feed[s] = "claude"
  /\ Stored(s)
  /\ Return(s, cur[s])
  /\ UNCHANGED <<provider, synced, record, used, sick, crashes>>

(* A worker dies, or gunicorn kills a handler that has waited for provider   *)
(* APIs for 120 seconds; nothing resumes the run.                            *)
Crash(s) ==
  /\ pc[s] # "idle"
  /\ crashes < MaxCrashes
  /\ crashes' = crashes + 1
  /\ End(s)
  /\ UNCHANGED <<provider, synced, record, used, sick>>

-----------------------------------------------------------------------------
(* The settings views.                                                       *)

CreateProvider(p) ==
  /\ provider[p] = "absent"
  /\ provider' = [provider EXCEPT ![p] = "active"]
  /\ UNCHANGED <<synced, record, used, sick, pc, locals, crashes>>

DeleteProvider(p) ==
  /\ ProviderExists(p)
  /\ provider' = [provider EXCEPT ![p] = "deleted"]
  /\ synced' = synced \ {p}
  /\ UNCHANGED <<record, used, sick, pc, locals, crashes>>

(* The view reads the row and saves the opposite; whatever other operators   *)
(* do in between, the save switches the provider or changes nothing.         *)
Toggle(p) ==
  /\ ProviderExists(p)
  /\ provider' = [provider EXCEPT ![p] = IF @ = "active" THEN "inactive" ELSE "active"]
  /\ UNCHANGED <<synced, record, used, sick, pc, locals, crashes>>

-----------------------------------------------------------------------------
SyncStep(s) ==
  \/ \E p \in Providers : BeginSync(s, p) \/ SkipProvider(s, p)
  \/ \E r \in Rows : AskUsage(s, r) \/ StoreRow(s, r)
  \/ UsageComplete(s) \/ AskCost(s) \/ SaveSynced(s) \/ FinishClaude(s)
  \/ FinishRun(s)

Start ==
  \/ \E w \in Workers, f \in Feeds : StartTask(w, f)
  \/ \E h \in Handlers, p \in Providers : StartManual(h, p)

Settings ==
  \E p \in Providers : CreateProvider(p) \/ DeleteProvider(p) \/ Toggle(p)

World ==
  \/ \E p \in Providers : Recover(p)
  \/ \E p \in Providers, r \in Rows : Use(p, r)

Next ==
  \/ Start
  \/ \E s \in Syncers : SyncStep(s) \/ Crash(s)
  \/ Settings
  \/ World

Spec == Init /\ [][Next]_vars

(* Beat queues both tasks every hour, the queue is FIFO and workers take     *)
(* from it again and again; a worker goes on with a run it has begun.        *)
Fairness ==
  /\ \A w \in Workers : WF_vars(SyncStep(w))
  /\ \A f \in Feeds : SF_vars(\E w \in Workers : StartTask(w, f))

FairSpec == Spec /\ Fairness

-----------------------------------------------------------------------------
(* Tables and locals have their types, who fetches or stores has a provider, *)
(* and a Claude sync is of an Anthropic key.                                 *)
TypeOK ==
  /\ provider \in [Providers -> ProviderStates]
  /\ synced \in SUBSET Providers
  /\ record \in [Rows -> [amount : Amounts, priced : BOOLEAN]]
  /\ used \in [Providers -> [Rows -> Amounts]]
  /\ sick \in SUBSET Providers
  /\ pc \in [Syncers -> Steps]
  /\ feed \in [Syncers -> Feeds]
  /\ plan \in [Syncers -> SUBSET Providers]
  /\ cur \in [Syncers -> Providers \cup {Null}]
  /\ asked \in [Syncers -> SUBSET Rows]
  /\ got \in [Syncers -> [Rows -> Amounts]]
  /\ priced \in [Syncers -> BOOLEAN]
  /\ since \in [Syncers -> [Rows -> Amounts]]
  /\ crashes \in 0 .. MaxCrashes
  /\ \A s \in Syncers : cur[s] \in Providers <=> pc[s] \in {"ask", "bill", "store"}
  /\ \A s \in Syncers : plan[s] # {} => pc[s] # "idle"

(* The upserts are idempotent (spec of 2026-04-06, line 57): repeated,       *)
(* overlapping and interrupted syncs never make a row larger than what some  *)
(* provider reported for it.                                                 *)
NeverOvercounts ==
  \A r \in Rows : record[r].amount > 0 =>
    \E p \in Providers : /\ r \in UsageRows[p] \cup ClaudeRows[p]
                         /\ record[r].amount <= used[p][r]

(* last_synced_at is "updated after each successful sync" (same spec, line   *)
(* 36): when it is, no row of an Anthropic key is older than what the API    *)
(* reported when the syncs it overlapped with began.                         *)
OwnRows(p) == \A q \in Providers \ {p} : UsageRows[p] \cap UsageRows[q] = {}

SyncedMeansStored ==
  [][\A s \in Syncers :
       (SaveSynced(s) /\ ProviderExists(cur[s]) /\ cur[s] \in Anthropic /\ OwnRows(cur[s]))
         => \A r \in UsageRows[cur[s]] : record'[r].amount >= since[s][r]]_vars

(* A sync that has run for minutes saves its provider after an operator      *)
(* switched it off or deleted it, and must not bring it back.                *)
SwitchedOffStaysOff ==
  [][\A p \in Providers :
       /\ provider[p] = "deleted" => provider'[p] = "deleted"
       /\ provider[p] = "inactive" /\ provider'[p] = "active" => Toggle(p)]_vars

(* "Other providers continue syncing" (same spec, line 221): once a provider *)
(* stays active and its API stays well, its rows come to agree with what it  *)
(* reports, and each row with usage has a cost again (one bit), whatever     *)
(* happens to the other providers and whatever overlapping syncs have        *)
(* written before.  Rows stands for the days inside the window every sync    *)
(* asks for (days=32, llm_sync_engine.py:330); a day that has left it stays  *)
(* as the last sync found it.                                                *)
UpToDate(p) ==
  \A r \in UsageRows[p] \cup ClaudeRows[p] :
    record[r] = [amount |-> used[p][r], priced |-> used[p][r] > 0]

Converges ==
  \A p \in Providers : <>[](provider[p] = "active" /\ p \notin sick) => <>[]UpToDate(p)

(* cost_usd is the "Provider-reported cost" (same spec, line 55): a row that *)
(* has one keeps one.                                                        *)
CostIsReported == [][\A r \in Rows : record[r].priced => record'[r].priced]_vars
=============================================================================
