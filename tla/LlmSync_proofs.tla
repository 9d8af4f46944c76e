--------------------------- MODULE LlmSync_proofs ---------------------------
(***************************************************************************)
(* Proofs about LlmSync for any providers, rows, workers and handlers.      *)
(***************************************************************************)
EXTENDS LlmSync, WellFoundedInduction, TLAPS

(* The steps of a syncer that change nothing but its own locals, one that    *)
(* marks a provider, one that stores a row, and the others.                  *)
LEMMA NextCases ==
  ASSUME Next
  PROVE  \/ \E w \in Workers, f \in Feeds : StartTask(w, f)
         \/ \E h \in Handlers, p \in Providers : StartManual(h, p)
         \/ \E s \in Syncers, p \in Providers : BeginSync(s, p) \/ SkipProvider(s, p)
         \/ \E s \in Syncers, r \in Rows : AskUsage(s, r) \/ StoreRow(s, r)
         \/ \E s \in Syncers : \/ UsageComplete(s) \/ AskCost(s) \/ SaveSynced(s)
                               \/ FinishClaude(s) \/ FinishRun(s) \/ Crash(s)
         \/ \E p \in Providers : CreateProvider(p) \/ DeleteProvider(p) \/ Toggle(p)
         \/ \E p \in Providers : Recover(p)
         \/ \E p \in Providers, r \in Rows : Use(p, r)
BY DEF Next, Start, SyncStep, Settings, World

(* A loop body, a task or a request that ends leaves nothing of itself.      *)
Ended(s) ==
  /\ \E step \in {"idle", "next"} : pc' = [pc EXCEPT ![s] = step]
  /\ feed' \in [Syncers -> Feeds]
  /\ plan' \in [Syncers -> SUBSET Providers]
  /\ \A t \in Syncers \ {s} : feed'[t] = feed[t] /\ plan'[t] = plan[t]
  /\ plan'[s] # {} => pc'[s] = "next"
  /\ ForgetBody(s)

LEMMA EndsWell ==
  ASSUME TypeOK, NEW s \in Syncers, NEW p \in Providers
  PROVE  /\ End(s) => Ended(s)
         /\ Return(s, p) => Ended(s)
         /\ Raise(s, p) => Ended(s)
<1>1. End(s) => Ended(s)
  BY DEF TypeOK, End, Ended, Feeds
<1>2. ASSUME Return(s, p) PROVE Ended(s)
  <2>1. /\ pc' = [pc EXCEPT ![s] = "next"]
        /\ ForgetBody(s)
        /\ feed' = [feed EXCEPT ![s] = "claude"] \/ feed' = feed
        /\ plan' = [plan EXCEPT ![s] = {p}] \/ plan' = [plan EXCEPT ![s] = @ \ {p}]
    BY <1>2 DEF Return
  <2>2. /\ feed' \in [Syncers -> Feeds]
        /\ \A t \in Syncers \ {s} : feed'[t] = feed[t]
    BY <2>1 DEF TypeOK, Feeds
  <2>3. /\ plan' \in [Syncers -> SUBSET Providers]
        /\ \A t \in Syncers \ {s} : plan'[t] = plan[t]
    <3>1. CASE plan' = [plan EXCEPT ![s] = {p}]
      BY <3>1 DEF TypeOK
    <3>2. CASE plan' = [plan EXCEPT ![s] = @ \ {p}]
      BY <3>2 DEF TypeOK
    <3>. QED  BY <2>1, <3>1, <3>2
  <2>. QED  BY <2>1, <2>2, <2>3 DEF TypeOK, Ended
<1>3. ASSUME Raise(s, p), s \notin Handlers PROVE Ended(s)
  <2>1. /\ pc' = [pc EXCEPT ![s] = "next"]
        /\ ForgetBody(s)
        /\ feed' = feed
        /\ plan' = [plan EXCEPT ![s] = @ \ {p}]
    BY <1>3 DEF Raise
  <2>. QED  BY <2>1 DEF TypeOK, Ended
<1>4. ASSUME Raise(s, p), s \in Handlers PROVE Ended(s)
  BY <1>1, <1>4 DEF Raise
<1>. QED  BY <1>1, <1>2, <1>3, <1>4

(* What an end makes of the locals.                                          *)
LEMMA EndedTypes ==
  ASSUME TypeOK, NEW s \in Syncers, Ended(s)
  PROVE  /\ pc' \in [Syncers -> Steps]
         /\ cur' \in [Syncers -> Providers \cup {Null}]
         /\ asked' \in [Syncers -> SUBSET Rows]
         /\ got' \in [Syncers -> [Rows -> Amounts]]
         /\ priced' \in [Syncers -> BOOLEAN]
         /\ since' \in [Syncers -> [Rows -> Amounts]]
         /\ \A t \in Syncers : cur'[t] \in Providers <=> pc'[t] \in {"ask", "bill", "store"}
         /\ \A t \in Syncers : plan'[t] # {} => pc'[t] # "idle"
<1>1. NoAmounts \in [Rows -> Amounts]
  BY SyncAssumption DEF NoAmounts, Amounts
<1>2. /\ cur' \in [Syncers -> Providers \cup {Null}]
      /\ asked' \in [Syncers -> SUBSET Rows]
      /\ got' \in [Syncers -> [Rows -> Amounts]]
      /\ priced' \in [Syncers -> BOOLEAN]
      /\ since' \in [Syncers -> [Rows -> Amounts]]
  BY <1>1 DEF Ended, ForgetBody, TypeOK
<1>3. PICK step \in {"idle", "next"} : pc' = [pc EXCEPT ![s] = step]
  BY DEF Ended
<1>4. pc' \in [Syncers -> Steps]
  BY <1>3 DEF TypeOK, Steps
<1>5. \A t \in Syncers : cur'[t] \in Providers <=> pc'[t] \in {"ask", "bill", "store"}
  BY <1>3, SyncAssumption DEF Ended, ForgetBody, TypeOK
<1>6. \A t \in Syncers : plan'[t] # {} => pc'[t] # "idle"
  BY <1>3 DEF Ended, TypeOK
<1>. QED  BY <1>2, <1>4, <1>5, <1>6

(* A set of natural numbers has a least one.                                 *)
LEMMA Least ==
  ASSUME NEW S \in SUBSET Nat, S # {}
  PROVE  \E n \in S : \A m \in S : n <= m
<1>1. PICK n \in S : \A m \in S : <<m, n>> \notin OpToRel(<, Nat)
  BY NatLessThanWellFounded, WFMin
<1>2. ASSUME NEW m \in S PROVE n <= m
  <2>1. m \in Nat /\ n \in Nat
    OBVIOUS
  <2>2. <<m, n>> \notin OpToRel(<, Nat)
    BY <1>1
  <2>3. ~(m < n)
    BY <2>1, <2>2 DEF OpToRel
  <2>. QED  BY <2>1, <2>3
<1>. QED  BY <1>2

(* What a sync begins with is at most what is reported now, and at most what *)
(* the syncs that are running began with.                                    *)
LEMMA OldestBounds ==
  ASSUME TypeOK, NEW p \in Providers, NEW f \in Feeds
  PROVE  /\ Oldest(p, f) \in [Rows -> Amounts]
         /\ f = "usage" => \A r \in UsageRows[p] :
              /\ Oldest(p, f)[r] <= used[p][r]
              /\ \A s \in Running(p, f) : Oldest(p, f)[r] <= since[s][r]
<1>1. ASSUME NEW r \in Rows PROVE Reported(p, r) \subseteq Amounts
  BY DEF Reported, Running, TypeOK
<1>2. ASSUME NEW r \in Rows
      PROVE  \E n \in Reported(p, r) : \A m \in Reported(p, r) : n <= m
  <2>1. Amounts \subseteq Nat
    BY SyncAssumption DEF Amounts
  <2>2. Reported(p, r) # {}
    BY DEF Reported
  <2>. QED  BY <1>1, <2>1, <2>2, Least
<1>3. 0 \in Amounts
  BY SyncAssumption DEF Amounts
<1>4. Oldest(p, f) \in [Rows -> Amounts]
  BY <1>1, <1>2, <1>3 DEF Oldest
<1>5. ASSUME f = "usage", NEW r \in UsageRows[p]
      PROVE  \A m \in Reported(p, r) : Oldest(p, f)[r] <= m
  <2>1. r \in Rows
    BY SyncAssumption
  <2>2. Oldest(p, f)[r] = CHOOSE n \in Reported(p, r) : \A m \in Reported(p, r) : n <= m
    BY <1>5, <2>1 DEF Oldest
  <2>. QED  BY <1>2, <2>1, <2>2
<1>. QED  BY <1>4, <1>5 DEF Reported

(* Tables and locals keep their types.                                       *)
THEOREM TypeCorrect == Spec => []TypeOK
<1>. USE SyncAssumption
<1>0. NoAmounts \in [Rows -> Amounts]
  BY DEF NoAmounts, Amounts
<1>1. Init => TypeOK
  BY <1>0 DEF Init, TypeOK, ProviderStates, Steps, Feeds, Amounts
<1>2. ASSUME TypeOK, [Next]_vars PROVE TypeOK'
  <2>. USE <1>2
  <2>1. ASSUME NEW w \in Workers, NEW f \in Feeds, StartTask(w, f) PROVE TypeOK'
    BY <2>1 DEF StartTask, Listed, TypeOK, Steps, Syncers
  <2>2. ASSUME NEW h \in Handlers, NEW p \in Providers, StartManual(h, p) PROVE TypeOK'
    BY <2>2 DEF StartManual, TypeOK, Steps, Syncers, Feeds
  <2>3. ASSUME NEW s \in Syncers, NEW p \in Providers, BeginSync(s, p) PROVE TypeOK'
    <3>1. Oldest(p, feed[s]) \in [Rows -> Amounts]
      <4>1. feed[s] \in Feeds
        BY DEF TypeOK
      <4>. QED  BY <4>1, OldestBounds
    <3>2. since' \in [Syncers -> [Rows -> Amounts]]
      BY <2>3, <3>1 DEF BeginSync, TypeOK
    <3>3. FirstStep(p, feed[s]) \in {"ask", "bill"}
      BY DEF FirstStep
    <3>4. /\ pc' \in [Syncers -> Steps]
          /\ cur' \in [Syncers -> Providers \cup {Null}]
          /\ \A t \in Syncers : cur'[t] \in Providers <=> pc'[t] \in {"ask", "bill", "store"}
          /\ \A t \in Syncers : plan[t] # {} => pc'[t] # "idle"
      BY <2>3, <3>3 DEF BeginSync, TypeOK, Steps
    <3>5. priced' \in [Syncers -> BOOLEAN]
      BY <2>3 DEF BeginSync, TypeOK
    <3>. QED  BY <2>3, <3>2, <3>4, <3>5 DEF BeginSync, TypeOK
  <2>4. ASSUME NEW s \in Syncers, Ended(s), crashes' \in 0 .. MaxCrashes,
               synced' \in SUBSET Providers, UNCHANGED <<provider, record, used, sick>>
        PROVE  TypeOK'
    BY <2>4, EndedTypes DEF Ended, TypeOK
  <2>5. ASSUME NEW s \in Syncers, NEW p \in Providers, SkipProvider(s, p) PROVE TypeOK'
    BY <2>4, <2>5, EndsWell DEF SkipProvider, TypeOK
  <2>6. ASSUME NEW s \in Syncers, FinishRun(s) PROVE TypeOK'
    BY <2>4, <2>6, EndsWell DEF FinishRun, TypeOK, End, Ended, Feeds
  <2>7. ASSUME NEW s \in Syncers, Crash(s) PROVE TypeOK'
    <3>1. crashes' \in 0 .. MaxCrashes
      BY <2>7 DEF Crash, TypeOK
    <3>2. End(s) /\ UNCHANGED <<provider, synced, record, used, sick>>
      BY <2>7 DEF Crash
    <3>3. Ended(s)
      BY <3>2 DEF TypeOK, End, Ended, Feeds
    <3>4. synced' \in SUBSET Providers
      BY <3>2 DEF TypeOK
    <3>. QED  BY <2>4, <3>1, <3>2, <3>3, <3>4
  <2>8. ASSUME NEW s \in Syncers, NEW r \in Rows, AskUsage(s, r) PROVE TypeOK'
    <3>1. cur[s] \in Providers
      BY <2>8 DEF AskUsage, TypeOK
    <3>2. CASE Raise(s, cur[s])
      BY <2>4, <2>8, <3>1, <3>2, EndsWell DEF AskUsage, TypeOK
    <3>3. CASE ~Raise(s, cur[s])
      <4>1. /\ asked' = [asked EXCEPT ![s] = @ \cup {r}]
            /\ got' = [got EXCEPT ![s][r] = used[cur[s]][r]] \/ got' = got
            /\ UNCHANGED <<pc, feed, plan, cur, priced, since>>
        BY <2>8, <3>3 DEF AskUsage
      <4>2. got' \in [Syncers -> [Rows -> Amounts]]
        <5>1. used[cur[s]][r] \in Amounts
          BY <3>1 DEF TypeOK
        <5>2. CASE got' = [got EXCEPT ![s][r] = used[cur[s]][r]]
          BY <5>1, <5>2 DEF TypeOK
        <5>3. CASE got' = got
          BY <5>3 DEF TypeOK
        <5>. QED  BY <4>1, <5>2, <5>3
      <4>. QED  BY <2>8, <4>1, <4>2 DEF AskUsage, TypeOK
    <3>. QED  BY <3>2, <3>3
  <2>9. ASSUME NEW s \in Syncers, UsageComplete(s) PROVE TypeOK'
    BY <2>9 DEF UsageComplete, TypeOK, Steps, locals
  <2>10. ASSUME NEW s \in Syncers, AskCost(s) PROVE TypeOK'
    <3>1. cur[s] \in Providers
      BY <2>10 DEF AskCost, TypeOK
    <3>2. CASE Raise(s, cur[s])
      BY <2>4, <2>10, <3>1, <3>2, EndsWell DEF AskCost, TypeOK
    <3>3. CASE ~Raise(s, cur[s])
      BY <2>10, <3>3 DEF AskCost, TypeOK, Steps
    <3>. QED  BY <3>2, <3>3
  <2>11. ASSUME NEW s \in Syncers, NEW r \in Rows, StoreRow(s, r) PROVE TypeOK'
    <3>1. got[s][r] \in Amounts /\ 0 \in Amounts
      BY DEF TypeOK, Amounts
    <3>2. record' \in [Rows -> [amount : Amounts, priced : BOOLEAN]]
      BY <2>11, <3>1 DEF StoreRow, Upserted, TypeOK
    <3>3. got' \in [Syncers -> [Rows -> Amounts]]
      BY <2>11, <3>1 DEF StoreRow, TypeOK
    <3>. QED  BY <2>11, <3>2, <3>3 DEF StoreRow, TypeOK
  <2>12. ASSUME NEW s \in Syncers, SaveSynced(s) \/ FinishClaude(s) PROVE TypeOK'
    BY <2>4, <2>12, EndsWell DEF SaveSynced, FinishClaude, TypeOK
  <2>13. ASSUME NEW p \in Providers, CreateProvider(p) \/ DeleteProvider(p) \/ Toggle(p)
         PROVE  TypeOK'
    BY <2>13 DEF CreateProvider, DeleteProvider, Toggle, TypeOK, ProviderStates, locals
  <2>14. ASSUME NEW p \in Providers, Recover(p) PROVE TypeOK'
    BY <2>14 DEF Recover, TypeOK, locals
  <2>15. ASSUME NEW p \in Providers, NEW r \in Rows, Use(p, r) PROVE TypeOK'
    <3>1. used[p][r] + 1 \in Amounts
      BY <2>15 DEF Use, TypeOK, Amounts
    <3>. QED  BY <2>15, <3>1 DEF Use, TypeOK, locals
  <2>16. CASE UNCHANGED vars
    BY <2>16 DEF vars, TypeOK
  <2>. QED
    BY <2>1, <2>2, <2>3, <2>5, <2>6, <2>7, <2>8, <2>9, <2>10, <2>11, <2>12, <2>13,
       <2>14, <2>15, <2>16, NextCases
<1>. QED  BY <1>1, <1>2, PTL DEF Spec
-----------------------------------------------------------------------------
(* A step in which no row is written, reported usage does not shrink, and    *)
(* every syncer is left as it was or has no provider afterwards.             *)
HasAll(t) == RowsOf(cur[t], feed[t]) \subseteq asked[t]

Untouched(t) ==
  /\ cur'[t] = cur[t] /\ feed'[t] = feed[t] /\ got'[t] = got[t]
  /\ since'[t] = since[t] /\ asked'[t] = asked[t]
  /\ pc'[t] \in {"bill", "store"} => pc[t] \in {"bill", "store"} \/ HasAll(t) \/ cur[t] \notin Anthropic

Dismissed(t) ==
  /\ cur'[t] \notin Providers
  /\ \/ got'[t] = NoAmounts /\ asked'[t] = {}
     \/ cur[t] \notin Providers /\ got'[t] = got[t] /\ asked'[t] = asked[t]

Quiet ==
  /\ record' = record
  /\ \A p \in Providers, r \in Rows : used[p][r] <= used'[p][r]
  /\ \A t \in Syncers : Untouched(t) \/ Dismissed(t)

(* A request for usage that was answered, or refused and left out.           *)
Answered(s, r) ==
  /\ cur[s] \in Providers /\ pc[s] = "ask" /\ r \in ToAsk(s)
  /\ asked' = [asked EXCEPT ![s] = @ \cup {r}]
  /\ \/ got' = [got EXCEPT ![s][r] = used[cur[s]][r]]
     \/ got' = got /\ ToleratesRefusal(cur[s], feed[s])
  /\ UNCHANGED <<record, used, pc, feed, cur, since>>

LEMMA EndIsQuiet ==
  ASSUME TypeOK, NEW s \in Syncers, Ended(s), UNCHANGED <<record, used>>
  PROVE  Quiet
<1>1. PICK step \in {"idle", "next"} : pc' = [pc EXCEPT ![s] = step]
  BY DEF Ended
<1>2. Dismissed(s)
  BY SyncAssumption DEF Ended, ForgetBody, Dismissed, TypeOK
<1>3. ASSUME NEW t \in Syncers \ {s} PROVE Untouched(t)
  BY <1>1 DEF Ended, ForgetBody, Untouched, TypeOK
<1>4. \A p \in Providers, r \in Rows : used[p][r] <= used'[p][r]
  BY SyncAssumption DEF TypeOK, Amounts
<1>. QED  BY <1>2, <1>3, <1>4 DEF Quiet

LEMMA StepCases ==
  ASSUME TypeOK, [Next]_vars
  PROVE  \/ Quiet
         \/ \E s \in Syncers, p \in Providers : BeginSync(s, p)
         \/ \E s \in Syncers, r \in Rows : Answered(s, r) \/ StoreRow(s, r)
<1>1. \A p \in Providers, r \in Rows : used[p][r] <= used[p][r]
  BY SyncAssumption DEF TypeOK, Amounts
<1>2. ASSUME NEW w \in Workers, NEW f \in Feeds, StartTask(w, f) PROVE Quiet
  BY <1>1, <1>2 DEF StartTask, Quiet, Untouched, Dismissed, TypeOK, Syncers
<1>3. ASSUME NEW h \in Handlers, NEW p \in Providers, StartManual(h, p) PROVE Quiet
  BY <1>1, <1>3 DEF StartManual, Quiet, Untouched, Dismissed, TypeOK, Syncers
<1>4. ASSUME NEW s \in Syncers, NEW p \in Providers, SkipProvider(s, p) PROVE Quiet
  BY <1>4, EndIsQuiet, EndsWell DEF SkipProvider
<1>5. ASSUME NEW s \in Syncers, FinishRun(s) \/ Crash(s) PROVE Quiet
  <2>1. Ended(s)
    BY <1>5 DEF FinishRun, Crash, TypeOK, End, Ended, Feeds
  <2>. QED  BY <1>5, <2>1, EndIsQuiet DEF FinishRun, Crash
<1>6. ASSUME NEW s \in Syncers, NEW r \in Rows, AskUsage(s, r)
      PROVE  Quiet \/ Answered(s, r)
  <2>1. cur[s] \in Providers
    BY <1>6 DEF AskUsage, TypeOK
  <2>2. CASE Raise(s, cur[s])
    BY <1>6, <2>1, <2>2, EndIsQuiet, EndsWell DEF AskUsage
  <2>3. CASE ~Raise(s, cur[s])
    BY <1>6, <2>1, <2>3 DEF AskUsage, Answered
  <2>. QED  BY <2>2, <2>3
<1>7. ASSUME NEW s \in Syncers, UsageComplete(s) PROVE Quiet
  BY <1>1, <1>7 DEF UsageComplete, Quiet, Untouched, HasAll, ToAsk, locals, TypeOK
<1>8. ASSUME NEW s \in Syncers, AskCost(s) PROVE Quiet
  <2>1. cur[s] \in Providers
    BY <1>8 DEF AskCost, TypeOK
  <2>2. CASE Raise(s, cur[s])
    BY <1>8, <2>1, <2>2, EndIsQuiet, EndsWell DEF AskCost
  <2>3. CASE ~Raise(s, cur[s])
    BY <1>1, <1>8, <2>3 DEF AskCost, Quiet, Untouched, TypeOK
  <2>. QED  BY <2>2, <2>3
<1>9. ASSUME NEW s \in Syncers, SaveSynced(s) \/ FinishClaude(s) PROVE Quiet
  <2>1. cur[s] \in Providers
    BY <1>9 DEF SaveSynced, FinishClaude, TypeOK
  <2>. QED  BY <1>9, <2>1, EndIsQuiet, EndsWell DEF SaveSynced, FinishClaude
<1>10. ASSUME NEW p \in Providers,
              CreateProvider(p) \/ DeleteProvider(p) \/ Toggle(p) \/ Recover(p)
       PROVE  Quiet
  BY <1>1, <1>10 DEF CreateProvider, DeleteProvider, Toggle, Recover, Quiet, Untouched, locals
<1>11. ASSUME NEW p \in Providers, NEW r \in Rows, Use(p, r) PROVE Quiet
  <2>1. \A q \in Providers, t \in Rows : used[q][t] <= used'[q][t]
    BY <1>11, SyncAssumption DEF Use, TypeOK, Amounts
  <2>. QED  BY <1>11, <2>1 DEF Use, Quiet, Untouched, locals
<1>12. CASE UNCHANGED vars
  BY <1>1, <1>12 DEF vars, Quiet, Untouched
<1>. QED
  BY <1>2, <1>3, <1>4, <1>5, <1>6, <1>7, <1>8, <1>9, <1>10, <1>11, <1>12, NextCases
-----------------------------------------------------------------------------
(* What a syncer has fetched and not stored was reported by the provider it  *)
(* works on: an API never takes back what it has reported.                   *)
Fetched ==
  \A s \in Syncers, r \in Rows : got[s][r] > 0 =>
    /\ cur[s] \in Providers
    /\ r \in RowsOf(cur[s], feed[s])
    /\ got[s][r] <= used[cur[s]][r]

LEMMA AmountsAreNaturals ==
  ASSUME TypeOK
  PROVE  /\ \A p \in Providers, r \in Rows : used[p][r] \in Nat
         /\ \A s \in Syncers, r \in Rows : got[s][r] \in Nat /\ since[s][r] \in Nat
         /\ \A r \in Rows : record[r].amount \in Nat
<1>1. \A n \in Amounts : n \in Nat
  BY SyncAssumption DEF Amounts
<1>2. /\ \A p \in Providers, r \in Rows : used[p][r] \in Amounts
      /\ \A s \in Syncers, r \in Rows : got[s][r] \in Amounts /\ since[s][r] \in Amounts
      /\ \A r \in Rows : record[r].amount \in Amounts
  BY DEF TypeOK
<1>. QED  BY <1>1, <1>2

LEMMA AmountsStayNaturals ==
  ASSUME TypeOK'
  PROVE  /\ \A p \in Providers, r \in Rows : used'[p][r] \in Nat
         /\ \A r \in Rows : record'[r].amount \in Nat
<1>1. \A n \in Amounts : n \in Nat
  BY SyncAssumption DEF Amounts
<1>2. /\ \A p \in Providers, r \in Rows : used'[p][r] \in Amounts
      /\ \A r \in Rows : record'[r].amount \in Amounts
  BY DEF TypeOK
<1>. QED  BY <1>1, <1>2

LEMMA FetchedAtFirst ==
  Init => Fetched
BY DEF Init, Fetched, NoAmounts

LEMMA FetchedStays ==
  ASSUME TypeOK, TypeOK', Fetched, [Next]_vars
  PROVE  Fetched'
<1>1. CASE Quiet
  <2>. SUFFICES ASSUME NEW t \in Syncers, NEW r \in Rows, got'[t][r] > 0
                PROVE  /\ cur'[t] \in Providers
                       /\ r \in RowsOf(cur'[t], feed'[t])
                       /\ got'[t][r] <= used'[cur'[t]][r]
    BY DEF Fetched, RowsOf
  <2>1. ~Dismissed(t)
    BY DEF Dismissed, NoAmounts, Fetched
  <2>2. Untouched(t)
    BY <1>1, <2>1 DEF Quiet
  <2>3. /\ cur[t] \in Providers
        /\ r \in RowsOf(cur[t], feed[t])
        /\ got[t][r] <= used[cur[t]][r]
    BY <2>2 DEF Fetched, Untouched
  <2>4. used[cur[t]][r] <= used'[cur[t]][r]
    BY <1>1, <2>3 DEF Quiet
  <2>5. /\ got[t][r] \in Nat
        /\ used[cur[t]][r] \in Nat
        /\ used'[cur[t]][r] \in Nat
    BY <2>3, AmountsAreNaturals, AmountsStayNaturals
  <2>. QED  BY <2>2, <2>3, <2>4, <2>5 DEF Untouched
<1>2. ASSUME NEW s \in Syncers, NEW p \in Providers, BeginSync(s, p) PROVE Fetched'
  <2>1. cur[s] \notin Providers
    BY <1>2 DEF BeginSync, TypeOK
  <2>2. \A r \in Rows : ~(got[s][r] > 0)
    BY <2>1 DEF Fetched
  <2>3. /\ UNCHANGED <<got, used, feed>>
        /\ \A t \in Syncers \ {s} : cur'[t] = cur[t]
    BY <1>2 DEF BeginSync, TypeOK
  <2>. QED  BY <2>2, <2>3 DEF Fetched, RowsOf
<1>3. ASSUME NEW s \in Syncers, NEW r \in Rows, Answered(s, r) PROVE Fetched'
  <2>1. UNCHANGED <<used, feed, cur>>
    BY <1>3 DEF Answered
  <2>2. CASE got' = got
    BY <2>1, <2>2 DEF Fetched, RowsOf
  <2>3. CASE got' = [got EXCEPT ![s][r] = used[cur[s]][r]]
    <3>1. /\ got'[s][r] = used[cur[s]][r]
          /\ \A t \in Syncers, q \in Rows :
               (t # s \/ q # r) => got'[t][q] = got[t][q]
      BY <2>3 DEF TypeOK
    <3>2. cur[s] \in Providers /\ r \in RowsOf(cur[s], feed[s])
      BY <1>3 DEF Answered, ToAsk
    <3>3. used[cur[s]][r] \in Nat
      BY <3>2, AmountsAreNaturals
    <3>. QED  BY <2>1, <3>1, <3>2, <3>3 DEF Fetched, RowsOf
  <2>. QED  BY <1>3, <2>2, <2>3 DEF Answered
<1>4. ASSUME NEW s \in Syncers, NEW r \in Rows, StoreRow(s, r) PROVE Fetched'
  <2>1. UNCHANGED <<used, feed, cur>>
    BY <1>4 DEF StoreRow
  <2>2. \A t \in Syncers, q \in Rows : got'[t][q] = 0 \/ got'[t][q] = got[t][q]
    BY <1>4 DEF StoreRow, TypeOK
  <2>. QED  BY <2>1, <2>2 DEF Fetched, RowsOf
<1>. QED  BY <1>1, <1>2, <1>3, <1>4, StepCases

(* No row ever holds more than some provider has reported for it, however    *)
(* syncs overlap, repeat and die.                                            *)
THEOREM UpsertsAreIdempotent == Spec => []NeverOvercounts
<1>1. Init => NeverOvercounts
  BY DEF Init, NeverOvercounts
<1>2. ASSUME TypeOK, TypeOK', Fetched, NeverOvercounts, [Next]_vars
      PROVE  NeverOvercounts'
  <2>. USE <1>2
  <2>1. ASSUME record' = record,
               \A p \in Providers, r \in Rows : used[p][r] <= used'[p][r]
        PROVE  NeverOvercounts'
    <3>. SUFFICES ASSUME NEW r \in Rows, record'[r].amount > 0
                  PROVE  \E p \in Providers : /\ r \in UsageRows[p] \cup ClaudeRows[p]
                                              /\ record'[r].amount <= used'[p][r]
      BY DEF NeverOvercounts
    <3>1. PICK p \in Providers : /\ r \in UsageRows[p] \cup ClaudeRows[p]
                                 /\ record[r].amount <= used[p][r]
      BY <2>1 DEF NeverOvercounts
    <3>2. record[r].amount \in Nat /\ used[p][r] \in Nat /\ used'[p][r] \in Nat
      BY AmountsAreNaturals, AmountsStayNaturals, SyncAssumption
    <3>. QED  BY <2>1, <3>1, <3>2
  <2>2. \A p \in Providers, r \in Rows : used[p][r] <= used[p][r]
    BY AmountsAreNaturals
  <2>3. CASE Quiet
    BY <2>1, <2>3 DEF Quiet
  <2>4. ASSUME NEW s \in Syncers, NEW p \in Providers, BeginSync(s, p)
        PROVE  NeverOvercounts'
    BY <2>1, <2>2, <2>4 DEF BeginSync
  <2>5. ASSUME NEW s \in Syncers, NEW r \in Rows, Answered(s, r)
        PROVE  NeverOvercounts'
    BY <2>1, <2>2, <2>5 DEF Answered
  <2>6. ASSUME NEW s \in Syncers, NEW r \in Rows, StoreRow(s, r)
        PROVE  NeverOvercounts'
    <3>1. /\ cur[s] \in Providers
          /\ r \in UsageRows[cur[s]] \cup ClaudeRows[cur[s]]
          /\ got[s][r] <= used[cur[s]][r]
      BY <2>6 DEF StoreRow, Fetched, RowsOf
    <3>2. /\ record'[r].amount = got[s][r]
          /\ \A q \in Rows \ {r} : record'[q] = record[q]
          /\ used' = used
      BY <2>6 DEF StoreRow, Upserted, TypeOK
    <3>. QED  BY <3>1, <3>2 DEF NeverOvercounts
  <2>. QED  BY <2>3, <2>4, <2>5, <2>6, StepCases
<1>. QED  BY <1>1, <1>2, TypeCorrect, FetchedAtFirst, FetchedStays, PTL DEF Spec
-----------------------------------------------------------------------------
(* A syncer of an Anthropic key that shares its rows with no other key has   *)
(* fetched nothing older than what was reported when it began, nor has any   *)
(* syncer of the same key that runs; and what it fetched and stored is in    *)
(* the table, unless it was replaced by something as recent.                 *)
Follows(s) == cur[s] \in Anthropic /\ OwnRows(cur[s]) /\ feed[s] = "usage"

FreshRow(s, r) ==
  /\ since[s][r] <= used[cur[s]][r]
  /\ \A t \in Syncers : (cur[t] = cur[s] /\ feed[t] = "usage" /\ got[t][r] > 0)
       => since[s][r] <= got[t][r]
  /\ (r \in asked[s] /\ got[s][r] = 0) => since[s][r] <= record[r].amount
  /\ pc[s] \in {"bill", "store"} => r \in asked[s]

Fresh ==
  /\ \A s \in Syncers : cur[s] \notin Providers => asked[s] = {}
  /\ \A s \in Syncers : Follows(s) => \A r \in UsageRows[cur[s]] : FreshRow(s, r)

LEMMA FreshAtFirst ==
  Init => Fresh
BY SyncAssumption DEF Init, Fresh, Follows

(* A syncer of a usage feed has a provider, and its rows are rows.           *)
LEMMA FollowsTypes ==
  ASSUME TypeOK, NEW s \in Syncers, Follows(s)
  PROVE  cur[s] \in Providers /\ UsageRows[cur[s]] \subseteq Rows
<1>1. cur[s] \in Providers
  BY SyncAssumption DEF Follows
<1>. QED  BY <1>1, SyncAssumption

LEMMA FreshWhenQuiet ==
  ASSUME TypeOK, TypeOK', Fetched, Fresh, Quiet
  PROVE  Fresh'
<1>1. ASSUME NEW s \in Syncers, cur'[s] \notin Providers PROVE asked'[s] = {}
  BY <1>1 DEF Quiet, Untouched, Dismissed, Fresh
<1>2. ASSUME NEW s \in Syncers, Follows(s)', NEW r \in UsageRows[cur'[s]]
      PROVE  FreshRow(s, r)'
  <2>1. cur'[s] \in Providers /\ r \in Rows
    BY <1>2, SyncAssumption DEF Follows
  <2>2. Untouched(s)
    BY <2>1 DEF Quiet, Dismissed
  <2>3. Follows(s) /\ FreshRow(s, r)
    BY <1>2, <2>2 DEF Follows, OwnRows, Untouched, Fresh
  <2>4. since'[s][r] <= used'[cur'[s]][r]
    <3>1. since[s][r] <= used[cur[s]][r] /\ used[cur[s]][r] <= used'[cur[s]][r]
      BY <2>1, <2>2, <2>3 DEF FreshRow, Quiet, Untouched
    <3>2. since[s][r] \in Nat /\ used[cur[s]][r] \in Nat /\ used'[cur[s]][r] \in Nat
      BY <2>1, <2>2, AmountsAreNaturals, AmountsStayNaturals DEF Untouched
    <3>. QED  BY <2>2, <3>1, <3>2 DEF Untouched
  <2>5. ASSUME NEW t \in Syncers, cur'[t] = cur'[s], feed'[t] = "usage", got'[t][r] > 0
        PROVE  since'[s][r] <= got'[t][r]
    <3>1. Untouched(t)
      BY <2>1, <2>5 DEF Quiet, Dismissed
    <3>. QED  BY <2>2, <2>3, <2>5, <3>1 DEF FreshRow, Untouched
  <2>6. (r \in asked'[s] /\ got'[s][r] = 0) => since'[s][r] <= record'[r].amount
    BY <2>2, <2>3 DEF FreshRow, Quiet, Untouched
  <2>7. ASSUME pc'[s] \in {"bill", "store"} PROVE r \in asked'[s]
    <3>1. CASE HasAll(s)
      BY <1>2, <2>2, <2>3, <3>1 DEF HasAll, RowsOf, Follows, Untouched
    <3>2. CASE ~HasAll(s)
      <4>1. pc[s] \in {"bill", "store"}
        BY <2>2, <2>3, <2>7, <3>2 DEF Untouched, Follows
      <4>. QED  BY <2>2, <2>3, <4>1 DEF FreshRow, Untouched
    <3>. QED  BY <3>1, <3>2
  <2>. QED  BY <2>4, <2>5, <2>6, <2>7 DEF FreshRow
<1>. QED  BY <1>1, <1>2 DEF Fresh

(* A sync begins with the oldest of what the overlapping ones began with.    *)
LEMMA FreshWhenBegun ==
  ASSUME TypeOK, TypeOK', Fetched, Fresh,
         NEW b \in Syncers, NEW p \in Providers, BeginSync(b, p)
  PROVE  Fresh'
<1>1. /\ cur[b] \notin Providers
      /\ asked[b] = {}
      /\ \A r \in Rows : ~(got[b][r] > 0)
  BY DEF BeginSync, TypeOK, Fresh, Fetched
<1>2. /\ UNCHANGED <<record, used, feed, asked, got>>
      /\ cur'[b] = p /\ pc'[b] = FirstStep(p, feed[b]) /\ since'[b] = Oldest(p, feed[b])
      /\ \A t \in Syncers \ {b} : /\ cur'[t] = cur[t] /\ pc'[t] = pc[t]
                                  /\ since'[t] = since[t]
  BY DEF BeginSync, TypeOK
<1>3. ASSUME NEW s \in Syncers, cur'[s] \notin Providers PROVE asked'[s] = {}
  BY <1>1, <1>2, <1>3 DEF Fresh
<1>4. ASSUME Follows(b)', NEW r \in UsageRows[p] PROVE FreshRow(b, r)'
  <2>1. r \in Rows /\ feed[b] = "usage" /\ p \in Anthropic
    BY <1>2, <1>4, SyncAssumption DEF Follows
  <2>2. /\ since'[b][r] <= used[p][r]
        /\ \A t \in Running(p, "usage") : since'[b][r] <= since[t][r]
    BY <1>2, <1>4, <2>1, OldestBounds DEF Feeds
  <2>3. ASSUME NEW t \in Syncers, cur'[t] = p, feed[t] = "usage", got[t][r] > 0
        PROVE  since'[b][r] <= got[t][r]
    <3>1. t # b /\ cur[t] = p
      BY <1>1, <1>2, <2>1, <2>3
    <3>2. Follows(t)
      BY <1>2, <1>4, <2>3, <3>1 DEF Follows, OwnRows
    <3>3. since[t][r] <= got[t][r]
      BY <1>4, <2>3, <3>1, <3>2 DEF Fresh, FreshRow
    <3>4. since'[b][r] <= since[t][r]
      BY <2>2, <2>3, <3>1 DEF Running
    <3>5. since[t][r] \in Nat /\ got[t][r] \in Nat
      BY <2>1, AmountsAreNaturals
    <3>6. since'[b][r] \in Nat
      BY <1>2, <2>1, OldestBounds, SyncAssumption DEF Feeds, Amounts
    <3>. QED  BY <3>3, <3>4, <3>5, <3>6
  <2>4. pc'[b] = "ask"
    BY <1>2, <2>1 DEF FirstStep
  <2>. QED  BY <1>1, <1>2, <2>2, <2>3, <2>4 DEF FreshRow
<1>5. ASSUME NEW s \in Syncers \ {b}, Follows(s)', NEW r \in UsageRows[cur'[s]]
      PROVE  FreshRow(s, r)'
  <2>1. Follows(s) /\ FreshRow(s, r)
    BY <1>2, <1>5 DEF Follows, OwnRows, Fresh
  <2>2. r \in Rows
    BY <1>2, <1>5, <2>1, FollowsTypes
  <2>. QED  BY <1>1, <1>2, <2>1, <2>2 DEF FreshRow
<1>. QED  BY <1>2, <1>3, <1>4, <1>5 DEF Fresh

(* An answer is as recent as the syncer that asks.                           *)
LEMMA FreshWhenAnswered ==
  ASSUME TypeOK, TypeOK', Fetched, Fresh,
         NEW a \in Syncers, NEW q \in Rows, Answered(a, q)
  PROVE  Fresh'
<1>1. /\ cur[a] \in Providers
      /\ pc[a] = "ask"
      /\ UNCHANGED <<record, used, pc, feed, cur, since>>
      /\ asked'[a] = asked[a] \cup {q}
      /\ \A t \in Syncers \ {a} : asked'[t] = asked[t]
  BY DEF Answered, TypeOK
<1>2. \A t \in Syncers, r \in Rows :
        (t # a \/ r # q) => got'[t][r] = got[t][r]
  BY DEF Answered, TypeOK
<1>3. got'[a][q] = used[cur[a]][q] \/ (got'[a][q] = got[a][q] /\ cur[a] \notin Anthropic)
  <2>1. CASE got' = [got EXCEPT ![a][q] = used[cur[a]][q]]
    BY <2>1 DEF TypeOK
  <2>2. CASE got' = got /\ ToleratesRefusal(cur[a], feed[a])
    BY <2>2 DEF ToleratesRefusal
  <2>. QED  BY <2>1, <2>2 DEF Answered
<1>4. ASSUME NEW s \in Syncers, cur'[s] \notin Providers PROVE asked'[s] = {}
  BY <1>1, <1>4 DEF Fresh
<1>5. ASSUME NEW s \in Syncers, Follows(s)', NEW r \in UsageRows[cur'[s]]
      PROVE  FreshRow(s, r)'
  <2>1. Follows(s) /\ FreshRow(s, r)
    BY <1>1, <1>5 DEF Follows, OwnRows, Fresh
  <2>2. r \in Rows /\ cur[s] \in Anthropic
    BY <1>1, <1>5, <2>1, FollowsTypes DEF Follows
  <2>3. since[s][r] <= used[cur[s]][r]
    BY <2>1 DEF FreshRow
  <2>4. ASSUME NEW t \in Syncers, cur[t] = cur[s], feed[t] = "usage", got'[t][r] > 0
        PROVE  since[s][r] <= got'[t][r]
    <3>1. CASE t = a /\ r = q
      BY <1>3, <2>2, <2>3, <2>4, <3>1
    <3>2. CASE ~(t = a /\ r = q)
      BY <1>2, <2>1, <2>2, <2>4, <3>2 DEF FreshRow
    <3>. QED  BY <3>1, <3>2
  <2>5. ASSUME r \in asked'[s], got'[s][r] = 0 PROVE since[s][r] <= record[r].amount
    <3>1. CASE s = a /\ r = q
      <4>1. used[cur[s]][r] = 0
        BY <1>3, <2>2, <2>5, <3>1
      <4>2. since[s][r] \in Nat /\ record[r].amount \in Nat
        BY <2>2, AmountsAreNaturals
      <4>. QED  BY <2>3, <4>1, <4>2
    <3>2. CASE ~(s = a /\ r = q)
      BY <1>1, <1>2, <2>1, <2>2, <2>5, <3>2 DEF FreshRow
    <3>. QED  BY <3>1, <3>2
  <2>6. pc[s] \in {"bill", "store"} => r \in asked'[s]
    BY <1>1, <2>1 DEF FreshRow
  <2>. QED  BY <1>1, <2>3, <2>4, <2>5, <2>6 DEF FreshRow
<1>. QED  BY <1>4, <1>5 DEF Fresh

(* A row of the key is only written by syncers of the key.                   *)
LEMMA FreshWhenStored ==
  ASSUME TypeOK, TypeOK', Fetched, Fresh,
         NEW w \in Syncers, NEW q \in Rows, StoreRow(w, q)
  PROVE  Fresh'
<1>1. /\ UNCHANGED <<used, pc, feed, cur, asked, since>>
      /\ got[w][q] > 0
      /\ record'[q].amount = got[w][q]
      /\ \A r \in Rows \ {q} : record'[r] = record[r]
  BY DEF StoreRow, Upserted, TypeOK
<1>2. \A t \in Syncers, r \in Rows :
        got'[t][r] = got[t][r] \/ (t = w /\ r = q /\ got'[t][r] = 0)
  BY DEF StoreRow, TypeOK
<1>3. cur[w] \in Providers /\ q \in RowsOf(cur[w], feed[w])
  BY <1>1 DEF Fetched
<1>4. ASSUME NEW s \in Syncers, cur'[s] \notin Providers PROVE asked'[s] = {}
  BY <1>1, <1>4 DEF Fresh
<1>5. ASSUME NEW s \in Syncers, Follows(s)', NEW r \in UsageRows[cur'[s]]
      PROVE  FreshRow(s, r)'
  <2>1. Follows(s) /\ FreshRow(s, r)
    BY <1>1, <1>5 DEF Follows, OwnRows, Fresh
  <2>2. r \in Rows /\ cur[s] \in Providers
    BY <1>1, <1>5, <2>1, FollowsTypes
  <2>3. ASSUME r = q PROVE since[s][r] <= record'[r].amount
    <3>1. feed[w] = "usage"
      BY <1>1, <1>3, <1>5, <2>2, <2>3, SyncAssumption DEF RowsOf
    <3>2. cur[w] = cur[s]
      BY <1>1, <1>3, <1>5, <2>1, <2>3, <3>1 DEF RowsOf, Follows, OwnRows
    <3>. QED  BY <1>1, <2>1, <2>3, <3>1, <3>2 DEF FreshRow
  <2>4. ASSUME r # q, r \in asked[s], got'[s][r] = 0
        PROVE  since[s][r] <= record'[r].amount
    BY <1>1, <1>2, <2>1, <2>2, <2>4 DEF FreshRow
  <2>5. ASSUME NEW t \in Syncers, cur[t] = cur[s], feed[t] = "usage", got'[t][r] > 0
        PROVE  since[s][r] <= got'[t][r]
    BY <1>2, <2>1, <2>2, <2>5 DEF FreshRow
  <2>. QED  BY <1>1, <2>1, <2>3, <2>4, <2>5 DEF FreshRow
<1>. QED  BY <1>4, <1>5 DEF Fresh

(* When last_synced_at is set, the table holds the key's usage of the moment *)
(* its sync began, or later, however many syncs of the key overlap.          *)
THEOREM SyncedIsStored == Spec => SyncedMeansStored
<1>1. ASSUME TypeOK, TypeOK', Fetched, Fresh, [Next]_vars PROVE Fresh'
  BY <1>1, StepCases, FreshWhenQuiet, FreshWhenBegun, FreshWhenAnswered, FreshWhenStored
<1>2. ASSUME TypeOK, Fresh, NEW s \in Syncers,
             SaveSynced(s), cur[s] \in Anthropic, OwnRows(cur[s])
      PROVE  \A r \in UsageRows[cur[s]] : record'[r].amount >= since[s][r]
  <2>1. Follows(s)
    BY <1>2 DEF SaveSynced, Follows
  <2>2. pc[s] = "store" /\ got[s] = NoAmounts /\ record' = record
    BY <1>2 DEF SaveSynced, Stored
  <2>3. ASSUME NEW r \in UsageRows[cur[s]] PROVE record[r].amount >= since[s][r]
    <3>1. r \in Rows /\ FreshRow(s, r)
      BY <1>2, <2>1, FollowsTypes DEF Fresh
    <3>2. since[s][r] <= record[r].amount
      BY <2>2, <3>1 DEF FreshRow, NoAmounts
    <3>3. since[s][r] \in Nat /\ record[r].amount \in Nat
      BY <1>2, <3>1, AmountsAreNaturals
    <3>. QED  BY <3>2, <3>3
  <2>. QED  BY <2>2, <2>3
<1>3. TypeOK /\ Fresh =>
        [\A s \in Syncers :
           (SaveSynced(s) /\ ProviderExists(cur[s]) /\ cur[s] \in Anthropic /\ OwnRows(cur[s]))
             => \A r \in UsageRows[cur[s]] : record'[r].amount >= since[s][r]]_vars
  BY <1>2
<1>. QED
  BY <1>1, <1>3, TypeCorrect, FetchedAtFirst, FetchedStays, FreshAtFirst, PTL
  DEF Spec, SyncedMeansStored
-----------------------------------------------------------------------------
(* No sync, however old, brings back a provider that an operator has         *)
(* switched off or deleted meanwhile.                                        *)
THEOREM OffStaysOff == Spec => SwitchedOffStaysOff
<1>. DEFINE Kept(p) ==
       /\ provider[p] = "deleted" => provider'[p] = "deleted"
       /\ provider[p] = "inactive" /\ provider'[p] = "active" => Toggle(p)
<1>1. ASSUME TypeOK, [Next]_vars, NEW p \in Providers PROVE Kept(p)
  <2>1. CASE provider' = provider
    BY <2>1
  <2>2. ASSUME NEW q \in Providers, CreateProvider(q) PROVE Kept(p)
    BY <1>1, <2>2 DEF CreateProvider, TypeOK
  <2>3. ASSUME NEW q \in Providers, DeleteProvider(q) PROVE Kept(p)
    BY <1>1, <2>3 DEF DeleteProvider, ProviderExists, TypeOK
  <2>4. ASSUME NEW q \in Providers, Toggle(q) PROVE Kept(p)
    <3>1. CASE p = q
      BY <2>4, <3>1 DEF Toggle, ProviderExists
    <3>2. CASE p # q
      BY <1>1, <2>4, <3>2 DEF Toggle, TypeOK
    <3>. QED  BY <3>1, <3>2
  <2>. HIDE DEF Kept
  <2>5. CASE Next
    BY <2>1, <2>2, <2>3, <2>4, <2>5, NextCases
    DEF StartTask, StartManual, BeginSync, SkipProvider, AskUsage, StoreRow, UsageComplete,
        AskCost, SaveSynced, FinishClaude, FinishRun, Crash, Recover, Use
  <2>. QED  BY <1>1, <2>1, <2>5 DEF vars
<1>2. TypeOK /\ [Next]_vars =>
        [\A p \in Providers :
           /\ provider[p] = "deleted" => provider'[p] = "deleted"
           /\ provider[p] = "inactive" /\ provider'[p] = "active" => Toggle(p)]_vars
  BY <1>1
<1>. QED  BY <1>2, TypeCorrect, PTL DEF Spec, SwitchedOffStaysOff
=============================================================================
