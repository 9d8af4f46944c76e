----------------------------- MODULE DemoSeeder ----------------------------
(***************************************************************************)
(* The demo data (monitor/services/demo_seeder.py) that the onboarding page *)
(* and the command seed_demo_data put into an organization.  The database   *)
(* is in autocommit mode: each statement is an action, two seedings of the  *)
(* organization may run at once, operators delete what is being seeded, and *)
(* gunicorn kills a seeding that takes longer than 120 seconds.             *)
(*                                                                          *)
(* The things a seeding gets or creates are numbered in its order: cluster, *)
(* nodes and GPUs, prices, endpoints, then the alert rules; one number is   *)
(* one name.  Their rows have identities of their own: a GPU that was       *)
(* deleted and seeded again is another GPU.  What the history says is       *)
(* random: all that is kept of a row is its cell (table, subject, minute).   *)
(*                                                                          *)
(* Definitions named Bad... are faulty variants of the definition after     *)
(* them, kept to show that the properties notice; no action uses them.      *)
(***************************************************************************)
EXTENDS Integers, FiniteSets, Bags

CONSTANTS
  Last,       \* the things are 1 .. Last
  FleetSize,  \* those up to FleetSize come before the history, the rules after
  Above,      \* Above[t]: the thing whose row it points to, or 0
  Unique,     \* the things whose name the database keeps unique
  Gpus, Endpoints,
  RowIds,     \* primary keys; bounds how many rows are ever made
  Seeders,    \* processes that can run a seeding
  Hours,      \* length of the history, in minutes of the model
  BatchSize,
  MaxFills,   \* bounds the seedings that get as far as the history
  MaxClock,   \* bounds the clock
  Nothing

Things == 1 .. Last
Fleet  == 1 .. FleetSize
Rules  == FleetSize + 1 .. Last

ASSUME SeedAssumption ==
  /\ Last \in Nat /\ FleetSize \in 1 .. Last - 1
  /\ Above \in [Things -> 0 .. Last]
  /\ \A t \in Things : Above[t] < t
  /\ Unique \subseteq Things
  /\ Gpus \subseteq Fleet /\ Endpoints \subseteq Fleet
  /\ Hours \in Nat \ {0} /\ BatchSize \in Nat \ {0}
  /\ MaxFills \in Nat /\ MaxClock \in Nat
  /\ IsFiniteSet(Seeders)
  /\ Nothing \notin RowIds

VARIABLES
  alive,    \* the rows that exist
  thing,    \* thing[i]: what row i is or was, 0 before it is inserted
  over,     \* over[i]: its foreign key
  events,   \* events[i]: the alert events of rule row i
  history,  \* the rows of the three hypertables, a bag of cells
  stage,    \* stage[s]: what seeding s does next
  at,       \* at[s]: the thing it is at
  found,    \* found[s][t]: the row it uses for thing t
  now,      \* now[s]: the end of its history
  table,    \* table[s]: the hypertable it fills
  left,     \* left[s]: the cells of that table it has still to write
  fills,    \* the seedings that got as far as the history
  clock

rows     == <<alive, thing, over, events>>
seeding  == <<stage, at, found, now, table, left>>
seedVars == <<rows, history, seeding, fills, clock>>

Tables  == {"gpu_metrics", "inference_metrics", "cost_snapshots"}
Minutes == -Hours .. MaxClock
Cells   == Tables \X RowIds \X Minutes
Stages  == {"idle", "get", "insert", "again", "window", "fill", "check", "create", "done"}

NoRows == [t \in Things |-> Nothing]

SeedInit ==
  /\ alive = {}
  /\ thing = [i \in RowIds |-> 0]
  /\ over = [i \in RowIds |-> Nothing]
  /\ events = [i \in RowIds |-> 0]
  /\ history = EmptyBag
  /\ stage = [s \in Seeders |-> "idle"]
  /\ at = [s \in Seeders |-> 1]
  /\ found = [s \in Seeders |-> NoRows]
  /\ now = [s \in Seeders |-> 0]
  /\ table = [s \in Seeders |-> "gpu_metrics"]
  /\ left = [s \in Seeders |-> {}]
  /\ fills = 0
  /\ clock = 0

-----------------------------------------------------------------------------
(* How a seeding begins and ends.                                            *)

StartSeeding(s) ==
  /\ stage[s] \in {"idle", "done"}
  /\ stage' = [stage EXCEPT ![s] = "get"]
  /\ at' = [at EXCEPT ![s] = 1]
  /\ found' = [found EXCEPT ![s] = NoRows]
  /\ now' = [now EXCEPT ![s] = 0]
  /\ UNCHANGED <<rows, history, table, left, fills, clock>>

(* An exception, or the end of the process.                                  *)
GiveUp(s) ==
  /\ stage' = [stage EXCEPT ![s] = "idle"]
  /\ at' = [at EXCEPT ![s] = 1]
  /\ found' = [found EXCEPT ![s] = NoRows]
  /\ now' = [now EXCEPT ![s] = 0]
  /\ table' = [table EXCEPT ![s] = "gpu_metrics"]
  /\ left' = [left EXCEPT ![s] = {}]

-----------------------------------------------------------------------------
(* get_or_create.  A GPU is looked up by its node and index, everything else *)
(* by the name in its organization; prices by pattern and type.              *)

OverOf(s, t) == IF Above[t] = 0 THEN Nothing ELSE found[s][Above[t]]

Lookup(s, t) ==
  {i \in alive : thing[i] = t /\ (t \in Gpus => over[i] = OverOf(s, t))}

Use(s, i) ==
  /\ found' = [found EXCEPT ![s][at[s]] = i]
  /\ at' = [at EXCEPT ![s] = IF at[s] = Last THEN FleetSize + 1 ELSE at[s] + 1]
  /\ stage' = [stage EXCEPT ![s] =
       IF at[s] = FleetSize THEN "window" ELSE IF at[s] = Last THEN "check" ELSE "get"]
  /\ UNCHANGED <<now, table, left>>

(* Two rows of a name: MultipleObjectsReturned, now and ever after.          *)
Get(s) ==
  /\ stage[s] = "get"
  /\ LET rowsFound == Lookup(s, at[s]) IN
       \/ \E i \in rowsFound : rowsFound = {i} /\ Use(s, i)
       \/ /\ rowsFound = {}
          /\ stage' = [stage EXCEPT ![s] = "insert"]
          /\ UNCHANGED <<at, found, now, table, left>>
       \/ Cardinality(rowsFound) > 1 /\ GiveUp(s)
  /\ UNCHANGED <<rows, history, fills, clock>>

(* IntegrityError: the name is taken by now, or the row above is gone.       *)
BadRefused(s, t) == FALSE
Refused(s, t) ==
  \/ t \in Unique /\ Lookup(s, t) # {}
  \/ Above[t] # 0 /\ OverOf(s, t) \notin alive

(* Keys that were never used are all alike: any of them will do.             *)
NewRow == CHOOSE i \in RowIds : thing[i] = 0

Insert(s) ==
  /\ stage[s] = "insert"
  /\ ~Refused(s, at[s])
  /\ \E i \in RowIds : thing[i] = 0
  /\ alive' = alive \cup {NewRow}
  /\ thing' = [thing EXCEPT ![NewRow] = at[s]]
  /\ over' = [over EXCEPT ![NewRow] = OverOf(s, at[s])]
  /\ Use(s, NewRow)
  /\ UNCHANGED <<events, history, fills, clock>>

InsertFails(s) ==
  /\ stage[s] = "insert"
  /\ Refused(s, at[s])
  /\ stage' = [stage EXCEPT ![s] = "again"]
  /\ UNCHANGED <<rows, history, at, found, now, table, left, fills, clock>>

BadGetAgain(s) ==   \* keeps the object it failed to insert
  /\ stage[s] = "again"
  /\ \E i \in RowIds : thing[i] = 0 /\ Use(s, i)
  /\ UNCHANGED <<rows, history, fills, clock>>

GetAgain(s) ==
  /\ stage[s] = "again"
  /\ \/ \E i \in Lookup(s, at[s]) : Lookup(s, at[s]) = {i} /\ Use(s, i)
     \/ Cardinality(Lookup(s, at[s])) # 1 /\ GiveUp(s)
  /\ UNCHANGED <<rows, history, fills, clock>>

-----------------------------------------------------------------------------
(* The history: one row per minute for the GPUs, the endpoints, and the      *)
(* GPUs again, written in batches.  No table has a unique key, so that       *)
(* ON CONFLICT DO NOTHING finds no conflict.                                 *)

Subjects(s, tab) ==
  {found[s][t] : t \in IF tab = "inference_metrics" THEN Endpoints ELSE Gpus}

Window(n) == n - Hours .. n - 1
CellsOf(s, tab, n) == {tab} \X Subjects(s, tab) \X Window(n)

StartHistory(s) ==
  /\ stage[s] = "window"
  /\ fills < MaxFills
  /\ fills' = fills + 1
  /\ stage' = [stage EXCEPT ![s] = "fill"]
  /\ now' = [now EXCEPT ![s] = clock]
  /\ left' = [left EXCEPT ![s] = CellsOf(s, "gpu_metrics", clock)]
  /\ UNCHANGED <<rows, history, at, found, table, clock>>

(* The rows come oldest first, endpoint by endpoint in inference_metrics.    *)
First(some, s) ==
  /\ some \subseteq left[s]
  /\ Cardinality(some) <= BatchSize
  /\ \A c \in some, d \in left[s] \ some :
       c[3] <= d[3] \/ (table[s] = "inference_metrics" /\ c[2] # d[2])

Full(batch, s) == Cardinality(batch) = BatchSize \/ batch = left[s]

Write(batch) == history' = history (+) SetToBag(batch)

BadWritten(s, batch) == left[s]   \* the buffer is not emptied
Written(s, batch) == left[s] \ batch

WriteBatch(s) ==
  /\ stage[s] = "fill"
  /\ \E batch \in SUBSET left[s] \ {{}} :
       /\ First(batch, s) /\ Full(batch, s)
       /\ Write(batch)
       /\ left' = [left EXCEPT ![s] = Written(s, batch)]
  /\ UNCHANGED <<rows, stage, at, found, now, table, fills, clock>>

BadFinished(s) == Cardinality(left[s]) < BatchSize   \* no flush after the loop
Finished(s) == left[s] = {}

TableAfter(tab) == IF tab = "gpu_metrics" THEN "inference_metrics" ELSE "cost_snapshots"

NextTable(s) ==
  /\ stage[s] = "fill"
  /\ Finished(s)
  /\ IF table[s] = "cost_snapshots"
       THEN /\ stage' = [stage EXCEPT ![s] = "get"]
            /\ table' = [table EXCEPT ![s] = "gpu_metrics"]
            /\ UNCHANGED left
       ELSE /\ table' = [table EXCEPT ![s] = TableAfter(table[s])]
            /\ left' = [left EXCEPT ![s] = CellsOf(s, TableAfter(table[s]), now[s])]
            /\ UNCHANGED stage
  /\ UNCHANGED <<rows, history, at, found, now, fills, clock>>

-----------------------------------------------------------------------------
(* Sample events, one for each rule, unless the organization has an event.   *)

CheckEvents(s) ==
  /\ stage[s] = "check"
  /\ stage' = [stage EXCEPT ![s] = IF \E i \in RowIds : events[i] > 0 THEN "done" ELSE "create"]
  /\ UNCHANGED <<rows, history, at, found, now, table, left, fills, clock>>

CreateEvent(s) ==
  /\ stage[s] = "create"
  /\ LET rule == found[s][at[s]] IN
       IF rule \in alive
         THEN /\ events' = [events EXCEPT ![rule] = @ + 1]
              /\ at' = [at EXCEPT ![s] = IF at[s] = Last THEN 1 ELSE at[s] + 1]
              /\ stage' = [stage EXCEPT ![s] = IF at[s] = Last THEN "done" ELSE "create"]
              /\ UNCHANGED <<found, now, table, left>>
         ELSE GiveUp(s) /\ UNCHANGED events
  /\ UNCHANGED <<alive, thing, over, history, fills, clock>>

-----------------------------------------------------------------------------
(* psycopg2 sends the rows of a batch one by one, each its own transaction:  *)
(* a seeding that is killed leaves some of them.                             *)
Kill(s) ==
  /\ stage[s] \notin {"idle", "done"}
  /\ \E part \in SUBSET left[s] : First(part, s) /\ Write(part)
  /\ GiveUp(s)
  /\ UNCHANGED <<rows, fills, clock>>

(* A row is deleted with all that point to it.                               *)
Below(i) == {j \in alive : j = i \/ over[j] = i
                             \/ \E k \in alive : over[j] = k /\ over[k] = i}

Delete(i) ==
  /\ i \in alive
  /\ alive' = alive \ Below(i)
  /\ events' = [events EXCEPT ![i] = 0]
  /\ UNCHANGED <<thing, over, history, seeding, fills, clock>>

Tick ==
  /\ clock < MaxClock
  /\ clock' = clock + 1
  /\ UNCHANGED <<rows, history, seeding, fills>>

-----------------------------------------------------------------------------
SeedStep(s) ==
  \/ StartSeeding(s) \/ Get(s) \/ Insert(s) \/ InsertFails(s) \/ GetAgain(s)
  \/ StartHistory(s) \/ WriteBatch(s) \/ NextTable(s)
  \/ CheckEvents(s) \/ CreateEvent(s)

SeedNext ==
  \/ \E s \in Seeders : SeedStep(s) \/ Kill(s)
  \/ \E i \in RowIds : Delete(i)
  \/ Tick

SeedSpec == SeedInit /\ [][SeedNext]_seedVars

-----------------------------------------------------------------------------
(* Rows, cells and locals have their types; a seeding has a row for each     *)
(* thing it is past.                                                         *)
SeedTypeOK ==
  /\ alive \in SUBSET RowIds
  /\ thing \in [RowIds -> 0 .. Last]
  /\ over \in [RowIds -> RowIds \cup {Nothing}]
  /\ events \in [RowIds -> Nat]
  /\ IsABag(history) /\ BagToSet(history) \subseteq Cells
  /\ stage \in [Seeders -> Stages]
  /\ at \in [Seeders -> Things]
  /\ found \in [Seeders -> [Things -> RowIds \cup {Nothing}]]
  /\ now \in [Seeders -> 0 .. clock]
  /\ table \in [Seeders -> Tables]
  /\ left \in [Seeders -> SUBSET Cells]
  /\ fills \in 0 .. MaxFills
  /\ clock \in 0 .. MaxClock
  /\ \A i \in alive : thing[i] # 0
  /\ \A i \in RowIds : thing[i] \notin Rules => events[i] = 0
  /\ \A s \in Seeders : left[s] # {} => stage[s] = "fill"

(* What two seedings race for, one of them gets and both use: the history is *)
(* of GPUs and endpoints that have or had a row, never of the row a seeding  *)
(* failed to insert.                                                         *)
HistoryIsOfRows ==
  \A c \in BagToSet(history) :
    thing[c[2]] \in IF c[1] = "inference_metrics" THEN Endpoints ELSE Gpus

(* "Idempotent - safe to run repeatedly" (demo_seeder.py:128) is not true of *)
(* the history, which every seeding writes again; this much is: a seeding    *)
(* that ends has written every minute of its GPUs and endpoints, and none,   *)
(* killed or not, has written a minute twice.                                *)
WrittenOncePerSeeding ==
  /\ \A c \in BagToSet(history) : history[c] <= fills
  /\ \A s \in Seeders, tab \in Tables : stage[s] = "done" =>
       CellsOf(s, tab, now[s]) \subseteq BagToSet(history)

(* Prices and alert rules have no unique name, so that seedings that overlap *)
(* can leave one row each; never more than that.                             *)
TwinsBoundedBySeeders ==
  \A t \in Things \ Gpus :
    Cardinality({i \in alive : thing[i] = t}) <= IF t \in Unique THEN 1 ELSE Cardinality(Seeders)
=============================================================================
