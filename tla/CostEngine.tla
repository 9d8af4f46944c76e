----------------------------- MODULE CostEngine -----------------------------
(***************************************************************************)
(* Cost attribution (monitor/services/cost_engine.py): the task that beat   *)
(* queues every minute writes one row per GPU and minute, an organization   *)
(* at a time and each in a transaction of its own, while agents report,     *)
(* operators remove nodes and the admin site edits prices and states; and   *)
(* the cost page, which sums the rows in five statements.                   *)
(*                                                                          *)
(* The clock counts minutes.  Every statement that reads the rows of the    *)
(* last n minutes takes its own NOW(), late in the minute it runs in: it    *)
(* sees the rows of this minute and of the n - 1 before.  A row's cost is   *)
(* its hourly rate times one minute, so the rate stands for both; the       *)
(* organization a row was written for is not a column of the table but      *)
(* history.  The pages of an INSERT are one statement: nobody sees them     *)
(* before the commit.                                                       *)
(*                                                                          *)
(* Definitions named Bad... are faulty variants of the definition after     *)
(* them, kept to show that the properties notice; no action uses them.      *)
(***************************************************************************)
EXTENDS Naturals, FiniteSets, FiniteSetsExt

CONSTANTS
  Orgs,        \* organizations
  Gpus,        \* GPU uuids
  Entries,     \* GPUPricing rows there may be
  MaxRate,     \* the largest rate the column hourly_rate holds
  HourlyRate,  \* HourlyRate[e]: what entry e charges
  Matches,     \* Matches[e]: the GPUs whose model contains the pattern of e
  Workers,     \* Celery worker processes
  Handlers,    \* gunicorn worker processes
  Period,      \* the minutes a cost page is about, period_hours
  MaxBeats,    \* bounds the minutes
  MaxCrashes,  \* bounds the crashes of workers
  Null

ASSUME CostAssumption ==
  /\ MaxRate \in Nat
  /\ HourlyRate \in [Entries -> 0 .. MaxRate]
  /\ Matches \in [Entries -> SUBSET Gpus]
  /\ Period \in Nat
  /\ MaxBeats \in Nat
  /\ MaxCrashes \in Nat
  /\ Null \notin Orgs

VARIABLES
  owner,     \* owner[g]: organization of GPU g, Null without a row
  billable,  \* GPUs whose status is healthy or degraded
  pricing,   \* the GPUPricing table
  rows,      \* the cost_snapshots hypertable
  clock,     \* minutes since the start
  queue,     \* runs queued and not begun
  started,   \* runs begun
  crashes,
  pc,        \* pc[w]: what worker w does next
  run,       \* run[w]: number of its run
  stamp,     \* stamp[w]: its "now"
  prices,    \* prices[w]: the entries it has loaded
  todo,      \* todo[w]: the organizations its loop has not reached
  cur,       \* cur[w]: the organization of the loop body
  batch,     \* batch[w]: the rows of its transaction
  steady,    \* history: billable GPUs untouched since the run of w began, but
             \* for those of organizations whose transaction has failed
  page,      \* page[h]: what the cost page of handler h reads next
  uuids,     \* uuids[h]: the GPUs of its organization
  shown      \* shown[h]: the rows that its last statement has summed, for
             \* the next one to be compared with

fleet  == <<owner, billable, pricing>>
task   == <<pc, run, stamp, prices, todo, cur, batch>>
views  == <<page, uuids, shown>>
vars   == <<fleet, rows, clock, queue, started, crashes, task, steady, views>>

Steps == {"idle", "next", "insert"}
Pages == {"closed", "totals", "models", "nodes"}

Row == [run : 1 .. MaxBeats, org : Orgs, gpu : Gpus, time : 0 .. MaxBeats,
        rate : 0 .. MaxRate]

Init ==
  /\ owner = [g \in Gpus |-> Null]
  /\ billable = {}
  /\ pricing = Entries
  /\ rows = {}
  /\ clock = 0
  /\ queue = 0
  /\ started = 0
  /\ crashes = 0
  /\ pc = [w \in Workers |-> "idle"]
  /\ run = [w \in Workers |-> 0]
  /\ stamp = [w \in Workers |-> 0]
  /\ prices = [w \in Workers |-> {}]
  /\ todo = [w \in Workers |-> {}]
  /\ cur = [w \in Workers |-> Null]
  /\ batch = [w \in Workers |-> {}]
  /\ steady = [w \in Workers |-> {}]
  /\ page = [h \in Handlers |-> "closed"]
  /\ uuids = [h \in Handlers |-> {}]
  /\ shown = [h \in Handlers |-> {}]

-----------------------------------------------------------------------------
(* compute_cost_snapshot.                                                    *)

(* The entries come dearest first and the first that matches is taken;       *)
(* without one the rate is NULL and the cost 0.                              *)
MatchPricing(entries, g) ==
  LET found == {HourlyRate[e] : e \in {e \in entries : g \in Matches[e]}}
  IN  CHOOSE n \in found \cup {0} : \A m \in found : m <= n

GpusOf(o) == {g \in Gpus : owner[g] = o}

Forget(w) ==
  /\ run' = [run EXCEPT ![w] = 0]
  /\ stamp' = [stamp EXCEPT ![w] = 0]
  /\ prices' = [prices EXCEPT ![w] = {}]
  /\ todo' = [todo EXCEPT ![w] = {}]
  /\ cur' = [cur EXCEPT ![w] = Null]
  /\ batch' = [batch EXCEPT ![w] = {}]
  /\ steady' = [steady EXCEPT ![w] = {}]

Beat ==
  /\ clock < MaxBeats
  /\ clock' = clock + 1
  /\ queue' = queue + 1
  /\ UNCHANGED <<fleet, rows, started, crashes, task, steady, views>>

StartTask(w) ==
  /\ pc[w] = "idle"
  /\ queue > 0
  /\ queue' = queue - 1
  /\ started' = started + 1
  /\ pc' = [pc EXCEPT ![w] = "next"]
  /\ run' = [run EXCEPT ![w] = started + 1]
  /\ stamp' = [stamp EXCEPT ![w] = clock]
  /\ prices' = [prices EXCEPT ![w] = pricing]
  /\ todo' = [todo EXCEPT ![w] = Orgs]
  /\ steady' = [steady EXCEPT ![w] = billable]
  /\ UNCHANGED <<fleet, rows, clock, crashes, cur, batch, views>>

RowsFor(w, o, entries) ==
  {[run |-> run[w], org |-> o, gpu |-> g, time |-> stamp[w],
    rate |-> MatchPricing(entries, g)] : g \in GpusOf(o) \cap billable}

BadSnapshot(w, o) == RowsFor(w, o, pricing)   \* reads the prices per organization
Snapshot(w, o)    == RowsFor(w, o, prices[w])

ReadGpus(w, o) ==
  /\ pc[w] = "next"
  /\ o \in todo[w]
  /\ pc' = [pc EXCEPT ![w] = "insert"]
  /\ todo' = [todo EXCEPT ![w] = @ \ {o}]
  /\ cur' = [cur EXCEPT ![w] = o]
  /\ batch' = [batch EXCEPT ![w] = Snapshot(w, o)]
  /\ UNCHANGED <<fleet, rows, clock, queue, started, crashes, run, stamp, prices, steady,
                 views>>

NextOrg(w) ==
  /\ pc' = [pc EXCEPT ![w] = "next"]
  /\ cur' = [cur EXCEPT ![w] = Null]
  /\ batch' = [batch EXCEPT ![w] = {}]
  /\ UNCHANGED <<run, stamp, prices>>

Commit(w) ==
  /\ pc[w] = "insert"
  /\ rows' = rows \cup batch[w]
  /\ NextOrg(w)
  /\ UNCHANGED <<fleet, clock, queue, started, crashes, todo, steady, views>>

(* The query, an INSERT or the commit fails: the exception is logged and the *)
(* loop goes on.                                                             *)
BadRollback(w) ==   \* one transaction around the whole task
  /\ pc[w] = "insert"
  /\ rows' = {r \in rows : r.run # run[w]}
  /\ todo' = [todo EXCEPT ![w] = {}]
  /\ steady' = [steady EXCEPT ![w] = @ \ GpusOf(cur[w])]
  /\ NextOrg(w)
  /\ UNCHANGED <<fleet, clock, queue, started, crashes, views>>

Rollback(w) ==
  /\ pc[w] = "insert"
  /\ steady' = [steady EXCEPT ![w] = @ \ GpusOf(cur[w])]
  /\ NextOrg(w)
  /\ UNCHANGED <<fleet, rows, clock, queue, started, crashes, todo, views>>

FinishTask(w) ==
  /\ pc[w] = "next"
  /\ todo[w] = {}
  /\ pc' = [pc EXCEPT ![w] = "idle"]
  /\ Forget(w)
  /\ UNCHANGED <<fleet, rows, clock, queue, started, crashes, views>>

(* The message of a run was acknowledged when it was taken.                  *)
BadRedeliver == queue' = queue + 1   \* acks_late
Redeliver == UNCHANGED queue

Crash(w) ==
  /\ pc[w] # "idle"
  /\ crashes < MaxCrashes
  /\ crashes' = crashes + 1
  /\ Redeliver
  /\ pc' = [pc EXCEPT ![w] = "idle"]
  /\ Forget(w)
  /\ UNCHANGED <<fleet, rows, clock, started, views>>

-----------------------------------------------------------------------------
(* The fleet: an agent's report creates a GPU or brings it to the            *)
(* organization of the agent's key, a removed node takes its GPUs along, and *)
(* the admin site edits states and prices.                                   *)

Touch(g) == steady' = [w \in Workers |-> steady[w] \ {g}]

Report(g, o) ==
  /\ owner[g] # o
  /\ owner' = [owner EXCEPT ![g] = o]
  /\ billable' = IF owner[g] = Null THEN billable \cup {g} ELSE billable
  /\ Touch(g)
  /\ UNCHANGED <<pricing, rows, clock, queue, started, crashes, task, views>>

RemoveGpu(g) ==
  /\ owner[g] # Null
  /\ owner' = [owner EXCEPT ![g] = Null]
  /\ billable' = billable \ {g}
  /\ Touch(g)
  /\ UNCHANGED <<pricing, rows, clock, queue, started, crashes, task, views>>

EditStatus(g) ==
  /\ owner[g] # Null
  /\ billable' = IF g \in billable THEN billable \ {g} ELSE billable \cup {g}
  /\ Touch(g)
  /\ UNCHANGED <<owner, pricing, rows, clock, queue, started, crashes, task, views>>

EditPricing(e) ==
  /\ pricing' = IF e \in pricing THEN pricing \ {e} ELSE pricing \cup {e}
  /\ UNCHANGED <<owner, billable, rows, clock, queue, started, crashes, task, steady, views>>

-----------------------------------------------------------------------------
(* get_cost_summary: the GPUs of the organization, the totals, the sums by   *)
(* model, and the sums by GPU, which are then attributed to hostnames.       *)

(* time >= NOW() - make_interval(...)                                        *)
IsRecent(r, minutes) == clock - r.time < minutes

CostRows(us) == {r \in rows : r.gpu \in us /\ IsRecent(r, Period)}

OpenPage(h, o) ==
  /\ page[h] = "closed"
  /\ GpusOf(o) # {}
  /\ page' = [page EXCEPT ![h] = "totals"]
  /\ uuids' = [uuids EXCEPT ![h] = GpusOf(o)]
  /\ UNCHANGED <<fleet, rows, clock, queue, started, crashes, task, steady, shown>>

ReadTotals(h) ==
  /\ page[h] = "totals"
  /\ page' = [page EXCEPT ![h] = "models"]
  /\ shown' = [shown EXCEPT ![h] = CostRows(uuids[h])]
  /\ UNCHANGED <<fleet, rows, clock, queue, started, crashes, task, steady, uuids>>

ReadByModel(h) ==
  /\ page[h] = "models"
  /\ page' = [page EXCEPT ![h] = "nodes"]
  /\ shown' = [shown EXCEPT ![h] = CostRows(uuids[h])]
  /\ UNCHANGED <<fleet, rows, clock, queue, started, crashes, task, steady, uuids>>

(* A GPU that has no node any more is filed under "unknown".                 *)
BadByNode(h) == {r \in CostRows(uuids[h]) : owner[r.gpu] # Null}
ByNode(h)    == CostRows(uuids[h])

ReadByNode(h) ==
  /\ page[h] = "nodes"
  /\ page' = [page EXCEPT ![h] = "closed"]
  /\ uuids' = [uuids EXCEPT ![h] = {}]
  /\ shown' = [shown EXCEPT ![h] = {}]
  /\ UNCHANGED <<fleet, rows, clock, queue, started, crashes, task, steady>>

(* get_fleet_cost_rate: the rows of the last two minutes, times 60.          *)
FleetCostRate(o) ==
  MapThenSumSet(LAMBDA r : r.rate,
                {r \in rows : r.gpu \in GpusOf(o) /\ IsRecent(r, 2)})

-----------------------------------------------------------------------------
Task(w) ==
  \/ StartTask(w) \/ Commit(w) \/ Rollback(w) \/ FinishTask(w) \/ Crash(w)
  \/ \E o \in Orgs : ReadGpus(w, o)

Fleet ==
  \/ \E g \in Gpus : RemoveGpu(g) \/ EditStatus(g)
  \/ \E g \in Gpus, o \in Orgs : Report(g, o)
  \/ \E e \in Entries : EditPricing(e)

View(h) ==
  \/ \E o \in Orgs : OpenPage(h, o)
  \/ ReadTotals(h) \/ ReadByModel(h) \/ ReadByNode(h)

Next ==
  \/ Beat
  \/ \E w \in Workers : Task(w)
  \/ \E h \in Handlers : View(h)
  \/ Fleet

Spec == Init /\ [][Next]_vars

-----------------------------------------------------------------------------
(* Tables and locals have their types, a GPU that is billed has an owner,    *)
(* and no more runs begin than were queued.                                  *)
TypeOK ==
  /\ owner \in [Gpus -> Orgs \cup {Null}]
  /\ billable \subseteq {g \in Gpus : owner[g] # Null}
  /\ pricing \in SUBSET Entries
  /\ rows \in SUBSET Row
  /\ clock \in 0 .. MaxBeats
  /\ queue \in 0 .. MaxBeats
  /\ started \in 0 .. MaxBeats
  /\ started + queue = clock
  /\ crashes \in 0 .. MaxCrashes
  /\ pc \in [Workers -> Steps]
  /\ run \in [Workers -> 0 .. started]
  /\ \A w \in Workers : pc[w] # "idle" => run[w] > 0
  /\ stamp \in [Workers -> 0 .. MaxBeats]
  /\ prices \in [Workers -> SUBSET Entries]
  /\ todo \in [Workers -> SUBSET Orgs]
  /\ cur \in [Workers -> Orgs \cup {Null}]
  /\ batch \in [Workers -> SUBSET Row]
  /\ steady \in [Workers -> SUBSET Gpus]
  /\ page \in [Handlers -> Pages]
  /\ uuids \in [Handlers -> SUBSET Gpus]
  /\ shown \in [Handlers -> SUBSET Row]

(* However runs are delayed, overlap or die, no organization pays a GPU for  *)
(* more minutes than have passed.                                            *)
NeverOverbilled ==
  \A g \in Gpus, o \in Orgs :
    Cardinality({r \in rows : r.gpu = g /\ r.org = o}) <= clock

(* "Pre-load all pricing entries once" (cost_engine.py:50): the edit of a    *)
(* price during a run splits no run, and equal GPUs pay equal rates in it.   *)
OnePriceListPerRun ==
  \A r, s \in rows :
    (r.run = s.run /\ \A e \in Entries : r.gpu \in Matches[e] <=> s.gpu \in Matches[e])
      => r.rate = s.rate

(* "A failure in one org does not roll back snapshots already committed for  *)
(* other orgs" (cost_engine.py:46).                                          *)
CommittedStays == [][rows \subseteq rows']_vars

(* The table is the ledger of Ledger: whatever runs late, twice at once or   *)
(* dies, a run bills an organization once, whole, and as of its own time.    *)
SamePrices == {p \in Gpus \X Gpus :
                 \A e \in Entries : p[1] \in Matches[e] <=> p[2] \in Matches[e]}
Book == INSTANCE Ledger WITH Alike <- SamePrices, entries <- rows, minute <- clock
KeepsLedger == Book!Spec

(* "... and continues to the next org" (cost_engine.py:48): a run that ends  *)
(* has billed every GPU that was there all the time, exactly once, but for   *)
(* the organizations that failed.                                            *)
SteadyGpusBilled ==
  [][\A w \in Workers : FinishTask(w) =>
       \A g \in steady[w] : \E r \in rows :
         {s \in rows : s.run = run[w] /\ s.gpu = g} = {r}]_vars

(* The tables of the cost page account for all of the cost above them, with  *)
(* snapshots, moved GPUs and removed nodes in between: a row they lack has   *)
(* left the period since the statement before.                               *)
PageAddsUp ==
  [][\A h \in Handlers : \A r \in shown[h] :
       /\ ReadByModel(h) => r \in shown'[h] \/ ~IsRecent(r, Period)
       /\ ReadByNode(h) => r \in ByNode(h) \/ ~IsRecent(r, Period)]_vars

(* The fleet rate is the "current estimated $/hr burn rate"                  *)
(* (cost_engine.py:252): where a GPU has one row a minute it is at most what *)
(* the GPUs cost at their dearest price.                                     *)
OneRowAMinute == \A r, s \in rows : r.gpu = s.gpu /\ r.time = s.time => r = s

RateIsHourly ==
  OneRowAMinute => \A o \in Orgs :
    FleetCostRate(o) <= MapThenSumSet(LAMBDA g : MatchPricing(Entries, g), GpusOf(o))
=============================================================================
