-------------------------- MODULE DemoSeeder_proofs -------------------------
(***************************************************************************)
(* Proofs about DemoSeeder for any things, rows, seeders, hours and batches.*)
(***************************************************************************)
EXTENDS DemoSeeder, FiniteSetTheorems, TLAPS

(* Every step of the specification, one named action at a time.              *)
LEMMA NextCases ==
  ASSUME SeedNext
  PROVE  \/ \E s \in Seeders :
              \/ StartSeeding(s) \/ Get(s) \/ Insert(s) \/ InsertFails(s) \/ GetAgain(s)
              \/ StartHistory(s) \/ WriteBatch(s) \/ NextTable(s)
              \/ CheckEvents(s) \/ CreateEvent(s) \/ Kill(s)
         \/ \E i \in RowIds : Delete(i)
         \/ Tick
BY DEF SeedNext, SeedStep

-----------------------------------------------------------------------------
(* The type invariant, by who changes what, and what a seeding has found.    *)
RowTypes ==
  /\ alive \in SUBSET RowIds
  /\ thing \in [RowIds -> 0 .. Last]
  /\ over \in [RowIds -> RowIds \cup {Nothing}]
  /\ events \in [RowIds -> Nat]
  /\ \A i \in alive : thing[i] # 0
  /\ \A i \in RowIds : thing[i] \notin Rules => events[i] = 0

HistoryTypes == IsABag(history) /\ BagToSet(history) \subseteq Cells
ClockTypes   == fills \in 0 .. MaxFills /\ clock \in 0 .. MaxClock

SeedingTypes ==
  /\ stage \in [Seeders -> Stages]
  /\ at \in [Seeders -> Things]
  /\ found \in [Seeders -> [Things -> RowIds \cup {Nothing}]]
  /\ now \in [Seeders -> 0 .. clock]
  /\ table \in [Seeders -> Tables]
  /\ left \in [Seeders -> SUBSET Cells]
  /\ \A s \in Seeders : left[s] # {} => stage[s] = "fill"

LEMMA FourParts == SeedTypeOK <=> RowTypes /\ HistoryTypes /\ ClockTypes /\ SeedingTypes
BY DEF SeedTypeOK, RowTypes, HistoryTypes, ClockTypes, SeedingTypes

(* What a seeding has found is of the thing it looked for; it has a row for  *)
(* all it is past, and the history finds the fleet complete.                 *)
Looking == {"get", "insert", "again"}
Filling == {"window", "fill"}
Ending  == {"check", "create"}

RowsFound(s) ==
  /\ \A t \in Things : found[s][t] # Nothing => thing[found[s][t]] = t
  /\ stage[s] \in Looking => \A t \in Things : t < at[s] => found[s][t] # Nothing
  /\ stage[s] \in Filling => at[s] = FleetSize + 1
  /\ stage[s] \in Ending => at[s] \in Rules
  /\ stage[s] \in Filling \cup Ending \cup {"done"} =>
       \A t \in Fleet : found[s][t] # Nothing
  /\ stage[s] # "fill" => table[s] = "gpu_metrics"

FoundInv == \A s \in Seeders : RowsFound(s)

LEMMA Numbers ==
  /\ Last \in Nat /\ FleetSize \in Nat /\ FleetSize >= 1 /\ FleetSize < Last
  /\ Fleet \subseteq Things /\ Rules \subseteq Things
  /\ 1 \in Fleet /\ FleetSize + 1 \in Rules
  /\ \A t \in Things : t \in Nat /\ t # 0 /\ (t \in Fleet <=> t <= FleetSize)
  /\ \A t \in Things : t \in Rules <=> t > FleetSize
  /\ 0 \notin Rules
BY SeedAssumption DEF Fleet, Rules, Things

(* The two ways a seeding goes on, whatever becomes of the other columns.    *)
LEMMA UseFinds ==
  ASSUME SeedingTypes, FoundInv, NEW s \in Seeders, NEW i \in RowIds, Use(s, i),
         stage[s] \in Looking, thing \in [RowIds -> 0 .. Last],
         thing'[i] = at[s], \A j \in RowIds : thing[j] # 0 => thing'[j] = thing[j],
         clock' = clock
  PROVE  SeedingTypes' /\ FoundInv'
<1>. USE DEF SeedingTypes, Looking
<1>1. at[s] \in Things /\ stage[s] # "fill" /\ left[s] = {} /\ i # Nothing
  BY SeedAssumption
<1>2. at' \in [Seeders -> Things] /\ stage' \in [Seeders -> Stages]
  BY <1>1, Numbers DEF Use, Stages, Things
<1>3. found' \in [Seeders -> [Things -> RowIds \cup {Nothing}]]
  BY <1>1 DEF Use
<1>4. SeedingTypes'
  BY <1>1, <1>2, <1>3 DEF Use
<1>5. ASSUME NEW q \in Seeders, q # s PROVE RowsFound(q)'
  <2>1. /\ stage'[q] = stage[q] /\ at'[q] = at[q] /\ found'[q] = found[q]
        /\ table'[q] = table[q] /\ RowsFound(q)
    BY <1>5 DEF Use, FoundInv
  <2>2. \A t \in Things : found[q][t] # Nothing => thing'[found[q][t]] = t
    BY <2>1, Numbers DEF RowsFound
  <2>. QED  BY <2>1, <2>2 DEF RowsFound
<1>6. /\ RowsFound(s)
      /\ found'[s] = [found[s] EXCEPT ![at[s]] = i]
      /\ at'[s] = IF at[s] = Last THEN FleetSize + 1 ELSE at[s] + 1
      /\ stage'[s] = IF at[s] = FleetSize THEN "window"
                     ELSE IF at[s] = Last THEN "check" ELSE "get"
      /\ table'[s] = table[s]
  BY <1>1 DEF Use, FoundInv
<1>7. RowsFound(s)'
  <2>1. \A t \in Things : found'[s][t] # Nothing => thing'[found'[s][t]] = t
    BY <1>1, <1>6, Numbers DEF RowsFound
  <2>2. ASSUME NEW t \in Things, t <= at[s] PROVE found'[s][t] # Nothing
    <3>1. CASE t = at[s]
      BY <1>1, <1>6, <3>1
    <3>2. CASE t # at[s]
      <4>1. t < at[s]
        <5>1. t \in Nat /\ at[s] \in Nat
          BY <1>1, Numbers
        <5>. QED  BY <2>2, <3>2, <5>1
      <4>2. found'[s][t] = found[s][t]
        BY <1>1, <1>6, <3>2
      <4>3. found[s][t] # Nothing
        BY <1>6, <4>1 DEF RowsFound
      <4>. QED  BY <4>2, <4>3
    <3>. QED  BY <3>1, <3>2
  <2>3. CASE at[s] = FleetSize
    BY <1>1, <1>6, <2>1, <2>2, <2>3, Numbers DEF RowsFound, Filling, Ending
  <2>4. CASE at[s] = Last
    <3>1. stage'[s] = "check" /\ at'[s] = FleetSize + 1 /\ table'[s] = "gpu_metrics"
      BY <1>1, <1>6, <2>4, Numbers DEF RowsFound
    <3>2. \A t \in Fleet : found'[s][t] # Nothing
      BY <2>2, <2>4, Numbers
    <3>. QED  BY <2>1, <3>1, <3>2, Numbers DEF RowsFound, Filling, Ending
  <2>5. CASE at[s] # Last /\ at[s] # FleetSize
    <3>1. \A t \in Things : t < at[s] + 1 => t <= at[s]
      BY <1>1, Numbers
    <3>. QED  BY <1>1, <1>6, <2>1, <2>2, <2>5, <3>1, Numbers DEF RowsFound, Filling, Ending
  <2>. QED  BY <2>3, <2>4, <2>5
<1>. QED  BY <1>4, <1>5, <1>7 DEF FoundInv

LEMMA GiveUpFinds ==
  ASSUME SeedingTypes, FoundInv, ClockTypes, NEW s \in Seeders, GiveUp(s),
         UNCHANGED <<thing, clock>>
  PROVE  SeedingTypes' /\ FoundInv'
<1>1. 1 \in Things /\ 0 \in 0 .. clock /\ NoRows \in [Things -> RowIds \cup {Nothing}]
  BY Numbers, SeedAssumption DEF ClockTypes, NoRows, Things
<1>2. SeedingTypes'
  BY <1>1 DEF SeedingTypes, GiveUp, Tables, Stages
<1>3. ASSUME NEW q \in Seeders PROVE RowsFound(q)'
  BY <1>1, Numbers DEF SeedingTypes, FoundInv, RowsFound, GiveUp, NoRows, Looking, Filling, Ending
<1>. QED  BY <1>2, <1>3 DEF FoundInv

(* Writing cells to the history.                                             *)
Copies(c) == IF c \in DOMAIN history THEN history[c] ELSE 0

LEMMA WriteCopies ==
  ASSUME HistoryTypes, NEW some \in SUBSET Cells, Write(some)
  PROVE  /\ HistoryTypes'
         /\ BagToSet(history') = BagToSet(history) \cup some
         /\ \A c \in Cells : Copies(c) \in Nat /\ Copies(c)' = Copies(c) + IF c \in some THEN 1 ELSE 0
<1>. USE DEF HistoryTypes, IsABag, BagToSet, Copies
<1>1. history' = [c \in DOMAIN history \cup some |->
           (IF c \in DOMAIN history THEN history[c] ELSE 0)
         + (IF c \in some THEN 1 ELSE 0)]
  BY DEF Write, (+), SetToBag
<1>2. \A c \in DOMAIN history : history[c] \in Nat /\ history[c] > 0
  OBVIOUS
<1>3. DOMAIN history' = DOMAIN history \cup some
  BY <1>1
<1>4. \A c \in DOMAIN history' : history'[c] \in {n \in Nat : n > 0}
  BY <1>1, <1>2
<1>5. history' \in [DOMAIN history' -> {n \in Nat : n > 0}]
  BY <1>1, <1>3, <1>4
<1>6. \A c \in Cells : Copies(c) \in Nat
  BY <1>2
<1>7. \A c \in Cells : Copies(c)' = Copies(c) + IF c \in some THEN 1 ELSE 0
  BY <1>1, <1>2, <1>3
<1>. QED  BY <1>3, <1>5, <1>6, <1>7

(* The history of a table is of things of one kind.                          *)
KindOf(tab) == IF tab = "inference_metrics" THEN Endpoints ELSE Gpus

LEMMA CellsHaveSubjects ==
  ASSUME SeedingTypes, ClockTypes, NEW s \in Seeders, RowsFound(s),
         \A t \in Fleet : found[s][t] # Nothing,
         NEW tab \in Tables, NEW n \in 0 .. clock
  PROVE  /\ CellsOf(s, tab, n) \in SUBSET Cells
         /\ \A c \in CellsOf(s, tab, n) : c[1] = tab /\ thing[c[2]] \in KindOf(tab)
<1>1. KindOf(tab) \subseteq Fleet /\ Fleet \subseteq Things
  BY SeedAssumption, Numbers DEF KindOf
<1>2. Subjects(s, tab) = {found[s][t] : t \in KindOf(tab)}
  BY DEF Subjects, KindOf
<1>3. \A i \in Subjects(s, tab) : i \in RowIds /\ thing[i] \in KindOf(tab)
  BY <1>1, <1>2 DEF SeedingTypes, RowsFound
<1>4. Window(n) \subseteq Minutes
  BY SeedAssumption DEF Window, Minutes, ClockTypes
<1>5. \A c \in CellsOf(s, tab, n) : /\ c \in Tables \X RowIds \X Minutes
                                    /\ c[1] = tab /\ c[2] \in Subjects(s, tab)
  BY <1>3, <1>4 DEF CellsOf
<1>. QED  BY <1>3, <1>5 DEF Cells

LEMMA NewRowIsNew ==
  ASSUME \E i \in RowIds : thing[i] = 0
  PROVE  NewRow \in RowIds /\ thing[NewRow] = 0
BY DEF NewRow

(* One step keeps the types and what was found.                              *)
AllTypes == RowTypes /\ HistoryTypes /\ ClockTypes /\ SeedingTypes /\ FoundInv

LEMMA LookingKeepsTypes ==
  ASSUME AllTypes, NEW s \in Seeders,
         StartSeeding(s) \/ Get(s) \/ Insert(s) \/ InsertFails(s) \/ GetAgain(s)
  PROVE  AllTypes'
<1>. USE DEF AllTypes
<1>1. CASE StartSeeding(s)
  <2>1. /\ UNCHANGED <<rows, history, table, left, fills, clock>>
        /\ stage' = [stage EXCEPT ![s] = "get"] /\ at' = [at EXCEPT ![s] = 1]
        /\ found' = [found EXCEPT ![s] = NoRows] /\ now' = [now EXCEPT ![s] = 0]
        /\ stage[s] \in {"idle", "done"}
    BY <1>1 DEF StartSeeding
  <2>2. 1 \in Things /\ 0 \in 0 .. clock /\ NoRows \in [Things -> RowIds \cup {Nothing}]
    BY Numbers DEF ClockTypes, NoRows
  <2>3. SeedingTypes'
    BY <2>1, <2>2 DEF SeedingTypes, Stages
  <2>4. \A q \in Seeders : RowsFound(q)'
    BY <2>1, <2>2, Numbers
       DEF SeedingTypes, FoundInv, RowsFound, NoRows, rows, Looking, Filling, Ending
  <2>5. RowTypes' /\ HistoryTypes' /\ ClockTypes'
    BY <2>1 DEF rows, RowTypes, HistoryTypes, ClockTypes
  <2>. QED  BY <2>3, <2>4, <2>5 DEF FoundInv
<1>2. CASE Get(s)
  <2>1. UNCHANGED <<rows, history, fills, clock>> /\ stage[s] = "get"
    BY <1>2 DEF Get
  <2>2. RowTypes' /\ HistoryTypes' /\ ClockTypes'
    BY <2>1 DEF rows, RowTypes, HistoryTypes, ClockTypes
  <2>3. ASSUME NEW i, Lookup(s, at[s]) = {i}, Use(s, i) PROVE SeedingTypes' /\ FoundInv'
    <3>1. i \in RowIds /\ thing[i] = at[s]
      BY <2>3 DEF Lookup, RowTypes
    <3>. QED  BY <2>1, <2>3, <3>1, UseFinds DEF rows, RowTypes, Looking
  <2>4. CASE stage' = [stage EXCEPT ![s] = "insert"] /\ UNCHANGED <<at, found, now, table, left>>
    <3>1. SeedingTypes'
      BY <2>1, <2>4 DEF SeedingTypes, Stages
    <3>2. \A q \in Seeders : RowsFound(q)'
      BY <2>1, <2>4 DEF SeedingTypes, FoundInv, RowsFound, rows, Looking, Filling, Ending
    <3>. QED  BY <2>2, <3>1, <3>2 DEF FoundInv
  <2>5. CASE GiveUp(s)
    BY <2>1, <2>2, <2>5, GiveUpFinds DEF rows
  <2>6. \/ \E i \in Lookup(s, at[s]) : Lookup(s, at[s]) = {i} /\ Use(s, i)
        \/ stage' = [stage EXCEPT ![s] = "insert"] /\ UNCHANGED <<at, found, now, table, left>>
        \/ GiveUp(s)
    BY <1>2 DEF Get
  <2>. QED  BY <2>2, <2>3, <2>4, <2>5, <2>6
<1>3. CASE Insert(s)
  <2>1. /\ UNCHANGED <<events, history, fills, clock>> /\ stage[s] = "insert"
        /\ NewRow \in RowIds /\ thing[NewRow] = 0 /\ Use(s, NewRow)
        /\ alive' = alive \cup {NewRow} /\ thing' = [thing EXCEPT ![NewRow] = at[s]]
        /\ over' = [over EXCEPT ![NewRow] = OverOf(s, at[s])]
    BY <1>3, NewRowIsNew DEF Insert
  <2>2. at[s] \in Things /\ at[s] # 0 /\ at[s] \in 0 .. Last
    BY Numbers DEF SeedingTypes, Things
  <2>3. OverOf(s, at[s]) \in RowIds \cup {Nothing}
    <3>1. Above[at[s]] # 0 => Above[at[s]] \in Things
      BY <2>2, SeedAssumption, Numbers DEF Things
    <3>. QED  BY <3>1 DEF OverOf, SeedingTypes
  <2>4. RowTypes'
    BY <2>1, <2>2, <2>3, Numbers DEF RowTypes
  <2>5. SeedingTypes' /\ FoundInv'
    <3>1. thing'[NewRow] = at[s] /\ \A j \in RowIds : thing[j] # 0 => thing'[j] = thing[j]
      BY <2>1 DEF RowTypes
    <3>. QED  BY <2>1, <3>1, UseFinds DEF RowTypes, Looking
  <2>. QED  BY <2>1, <2>4, <2>5 DEF HistoryTypes, ClockTypes
<1>4. CASE InsertFails(s)
  <2>1. /\ UNCHANGED <<rows, history, at, found, now, table, left, fills, clock>>
        /\ stage[s] = "insert" /\ stage' = [stage EXCEPT ![s] = "again"]
    BY <1>4 DEF InsertFails
  <2>2. SeedingTypes'
    BY <2>1 DEF SeedingTypes, Stages
  <2>3. \A q \in Seeders : RowsFound(q)'
    BY <2>1 DEF SeedingTypes, FoundInv, RowsFound, rows, Looking, Filling, Ending
  <2>. QED  BY <2>1, <2>2, <2>3 DEF FoundInv, rows, RowTypes, HistoryTypes, ClockTypes
<1>5. CASE GetAgain(s)
  <2>1. /\ UNCHANGED <<rows, history, fills, clock>> /\ stage[s] = "again"
        /\ \/ \E i \in Lookup(s, at[s]) : Use(s, i)
           \/ GiveUp(s)
    BY <1>5 DEF GetAgain
  <2>2. ASSUME NEW i \in Lookup(s, at[s]), Use(s, i) PROVE SeedingTypes' /\ FoundInv'
    <3>1. i \in RowIds /\ thing[i] = at[s]
      BY DEF Lookup, RowTypes
    <3>. QED  BY <2>1, <2>2, <3>1, UseFinds DEF rows, RowTypes, Looking
  <2>3. GiveUp(s) => SeedingTypes' /\ FoundInv'
    BY <2>1, GiveUpFinds DEF rows
  <2>. QED  BY <2>1, <2>2, <2>3 DEF rows, RowTypes, HistoryTypes, ClockTypes
<1>. QED  BY <1>1, <1>2, <1>3, <1>4, <1>5

LEMMA FillingKeepsTypes ==
  ASSUME AllTypes, NEW s \in Seeders,
         StartHistory(s) \/ WriteBatch(s) \/ NextTable(s) \/ Kill(s)
  PROVE  AllTypes'
<1>. USE DEF AllTypes
<1>1. CASE StartHistory(s)
  <2>1. /\ UNCHANGED <<rows, history, at, found, table, clock>> /\ fills' = fills + 1
        /\ stage[s] = "window" /\ stage' = [stage EXCEPT ![s] = "fill"] /\ fills < MaxFills
        /\ now' = [now EXCEPT ![s] = clock]
        /\ left' = [left EXCEPT ![s] = CellsOf(s, "gpu_metrics", clock)]
    BY <1>1 DEF StartHistory
  <2>2. clock \in 0 .. clock /\ RowsFound(s)
    BY DEF ClockTypes, FoundInv
  <2>3. CellsOf(s, "gpu_metrics", clock) \in SUBSET Cells
    BY <2>1, <2>2, CellsHaveSubjects DEF RowsFound, Filling, Tables
  <2>4. SeedingTypes'
    BY <2>1, <2>2, <2>3 DEF SeedingTypes, Stages
  <2>5. \A q \in Seeders : RowsFound(q)'
    BY <2>1 DEF SeedingTypes, FoundInv, RowsFound, rows, Looking, Filling, Ending
  <2>6. ClockTypes'
    BY <2>1, SeedAssumption DEF ClockTypes
  <2>. QED  BY <2>1, <2>4, <2>5, <2>6 DEF FoundInv, rows, RowTypes, HistoryTypes
<1>2. CASE WriteBatch(s)
  <2>1. PICK batch \in SUBSET left[s] :
          Write(batch) /\ left' = [left EXCEPT ![s] = left[s] \ batch]
    BY <1>2 DEF WriteBatch, Written
  <2>2. UNCHANGED <<rows, stage, at, found, now, table, fills, clock>> /\ stage[s] = "fill"
    BY <1>2 DEF WriteBatch
  <2>3. batch \in SUBSET Cells
    BY DEF SeedingTypes
  <2>4. HistoryTypes'
    BY <2>1, <2>3, WriteCopies
  <2>5. SeedingTypes'
    BY <2>1, <2>2 DEF SeedingTypes
  <2>. QED  BY <2>2, <2>4, <2>5 DEF FoundInv, RowsFound, rows, RowTypes, ClockTypes
<1>3. CASE NextTable(s)
  <2>1. /\ UNCHANGED <<rows, history, at, found, now, fills, clock>>
        /\ stage[s] = "fill" /\ left[s] = {}
    BY <1>3 DEF NextTable, Finished
  <2>2. RowsFound(s) /\ \A t \in Fleet : found[s][t] # Nothing
    BY <2>1 DEF FoundInv, RowsFound, Filling
  <2>3. CASE table[s] = "cost_snapshots"
    <3>1. /\ stage' = [stage EXCEPT ![s] = "get"] /\ table' = [table EXCEPT ![s] = "gpu_metrics"]
          /\ left' = left
      BY <1>3, <2>3 DEF NextTable
    <3>2. SeedingTypes'
      BY <2>1, <3>1 DEF SeedingTypes, Stages, Tables
    <3>3. at[s] = FleetSize + 1 /\ \A t \in Things : t < at[s] => t \in Fleet
      BY <2>1, <2>2, Numbers DEF RowsFound, Filling
    <3>4. \A q \in Seeders : RowsFound(q)'
      BY <2>1, <2>2, <3>1, <3>3 DEF SeedingTypes, FoundInv, RowsFound, rows, Looking, Filling, Ending
    <3>. QED  BY <2>1, <3>2, <3>4 DEF FoundInv, rows, RowTypes, HistoryTypes, ClockTypes
  <2>4. CASE table[s] # "cost_snapshots"
    <3>1. /\ table' = [table EXCEPT ![s] = TableAfter(table[s])] /\ UNCHANGED stage
          /\ left' = [left EXCEPT ![s] = CellsOf(s, TableAfter(table[s]), now[s])]
      BY <1>3, <2>4 DEF NextTable
    <3>2. TableAfter(table[s]) \in Tables /\ now[s] \in 0 .. clock
      BY DEF TableAfter, Tables, SeedingTypes
    <3>3. CellsOf(s, TableAfter(table[s]), now[s]) \in SUBSET Cells
      BY <2>2, <3>2, CellsHaveSubjects
    <3>4. SeedingTypes'
      BY <2>1, <3>1, <3>2, <3>3 DEF SeedingTypes
    <3>5. \A q \in Seeders : RowsFound(q)'
      BY <2>1, <3>1 DEF SeedingTypes, FoundInv, RowsFound, rows
    <3>. QED  BY <2>1, <3>4, <3>5 DEF FoundInv, rows, RowTypes, HistoryTypes, ClockTypes
  <2>. QED  BY <2>3, <2>4
<1>4. CASE Kill(s)
  <2>1. /\ UNCHANGED <<rows, fills, clock>> /\ GiveUp(s)
        /\ \E some \in SUBSET left[s] : Write(some)
    BY <1>4 DEF Kill
  <2>2. PICK some \in SUBSET Cells : Write(some)
    BY <2>1 DEF SeedingTypes
  <2>3. HistoryTypes'
    BY <2>2, WriteCopies
  <2>4. SeedingTypes' /\ FoundInv'
    BY <2>1, GiveUpFinds DEF rows
  <2>. QED  BY <2>1, <2>3, <2>4 DEF rows, RowTypes, ClockTypes
<1>. QED  BY <1>1, <1>2, <1>3, <1>4

LEMMA OthersKeepTypes ==
  ASSUME AllTypes,
         \/ \E s \in Seeders : CheckEvents(s) \/ CreateEvent(s)
         \/ \E i \in RowIds : Delete(i)
         \/ Tick
         \/ UNCHANGED seedVars
  PROVE  AllTypes'
<1>. USE DEF AllTypes
<1>1. ASSUME NEW s \in Seeders, CheckEvents(s) PROVE AllTypes'
  <2>1. /\ UNCHANGED <<rows, history, at, found, now, table, left, fills, clock>>
        /\ stage[s] = "check"
        /\ \E x \in {"create", "done"} : stage' = [stage EXCEPT ![s] = x]
    BY <1>1 DEF CheckEvents
  <2>2. SeedingTypes'
    BY <2>1 DEF SeedingTypes, Stages
  <2>3. \A q \in Seeders : RowsFound(q)'
    BY <2>1 DEF SeedingTypes, FoundInv, RowsFound, rows, Looking, Filling, Ending
  <2>. QED  BY <2>1, <2>2, <2>3 DEF FoundInv, rows, RowTypes, HistoryTypes, ClockTypes
<1>2. ASSUME NEW s \in Seeders, CreateEvent(s) PROVE AllTypes'
  <2>. DEFINE rule == found[s][at[s]]
  <2>1. UNCHANGED <<alive, thing, over, history, fills, clock>> /\ stage[s] = "create"
    BY <1>2 DEF CreateEvent
  <2>2. CASE rule \in alive
    <3>1. /\ events' = [events EXCEPT ![rule] = @ + 1]
          /\ at' = [at EXCEPT ![s] = IF at[s] = Last THEN 1 ELSE at[s] + 1]
          /\ stage' = [stage EXCEPT ![s] = IF at[s] = Last THEN "done" ELSE "create"]
          /\ UNCHANGED <<found, now, table, left>>
      BY <1>2, <2>2 DEF CreateEvent
    <3>2. at[s] \in Rules /\ rule \in RowIds /\ thing[rule] = at[s]
      BY <2>1, <2>2, Numbers, SeedAssumption DEF FoundInv, RowsFound, Ending, RowTypes
    <3>3. RowTypes'
      BY <2>1, <3>1, <3>2 DEF RowTypes
    <3>4. /\ 1 \in Things
          /\ at[s] # Last => at[s] + 1 \in Rules /\ at[s] + 1 \in Things
      BY <3>2, Numbers DEF Rules, Things
    <3>5. SeedingTypes'
      BY <2>1, <3>1, <3>4 DEF SeedingTypes, Stages
    <3>6. \A q \in Seeders : RowsFound(q)'
      BY <2>1, <3>1, <3>4 DEF SeedingTypes, FoundInv, RowsFound, Looking, Filling, Ending
    <3>. QED  BY <2>1, <3>3, <3>5, <3>6 DEF FoundInv, HistoryTypes, ClockTypes
  <2>3. CASE rule \notin alive
    <3>1. GiveUp(s) /\ UNCHANGED events
      BY <1>2, <2>3 DEF CreateEvent
    <3>2. SeedingTypes' /\ FoundInv'
      BY <2>1, <3>1, GiveUpFinds
    <3>. QED  BY <2>1, <3>1, <3>2 DEF RowTypes, HistoryTypes, ClockTypes
  <2>. QED  BY <2>2, <2>3
<1>3. ASSUME NEW i \in RowIds, Delete(i) PROVE AllTypes'
  <2>1. /\ UNCHANGED <<thing, over, history, stage, at, found, now, table, left, fills, clock>>
        /\ alive' \subseteq alive /\ events' = [events EXCEPT ![i] = 0]
    BY <1>3 DEF Delete, seeding
  <2>2. RowTypes'
    BY <2>1 DEF RowTypes
  <2>. QED  BY <2>1, <2>2 DEF FoundInv, RowsFound, SeedingTypes, HistoryTypes, ClockTypes
<1>4. ASSUME Tick PROVE AllTypes'
  <2>1. UNCHANGED <<rows, history, seeding, fills>> /\ clock < MaxClock /\ clock' = clock + 1
    BY <1>4 DEF Tick
  <2>2. ClockTypes' /\ 0 .. clock \subseteq 0 .. clock'
    BY <2>1, SeedAssumption DEF ClockTypes
  <2>3. SeedingTypes'
    BY <2>1, <2>2 DEF SeedingTypes, seeding
  <2>. QED  BY <2>1, <2>2, <2>3 DEF rows, seeding, FoundInv, RowsFound, RowTypes, HistoryTypes
<1>5. ASSUME UNCHANGED seedVars PROVE AllTypes'
  BY <1>5 DEF seedVars, rows, seeding, FoundInv, RowsFound, RowTypes, SeedingTypes,
              HistoryTypes, ClockTypes
<1>. QED  BY <1>1, <1>2, <1>3, <1>4, <1>5

LEMMA FirstTypes == SeedInit => AllTypes
<1>. SUFFICES ASSUME SeedInit PROVE AllTypes
  OBVIOUS
<1>1. 1 \in Things /\ 0 \in 0 .. 0 /\ NoRows \in [Things -> RowIds \cup {Nothing}]
  BY Numbers DEF NoRows
<1>2. RowTypes
  BY SeedAssumption DEF SeedInit, RowTypes
<1>3. HistoryTypes
  BY DEF SeedInit, HistoryTypes, EmptyBag, SetToBag, IsABag, BagToSet
<1>4. ClockTypes
  BY SeedAssumption DEF SeedInit, ClockTypes
<1>5. SeedingTypes
  BY <1>1 DEF SeedInit, SeedingTypes, Stages, Tables
<1>6. FoundInv
  BY <1>1 DEF SeedInit, FoundInv, RowsFound, NoRows, Looking, Filling, Ending
<1>. QED  BY <1>2, <1>3, <1>4, <1>5, <1>6 DEF AllTypes

LEMMA TypesStep == AllTypes /\ [SeedNext]_seedVars => AllTypes'
BY NextCases, LookingKeepsTypes, FillingKeepsTypes, OthersKeepTypes

LEMMA TypesHold == SeedSpec => []AllTypes
<1>. QED  BY FirstTypes, TypesStep, PTL DEF SeedSpec

(* Rows, cells and locals keep their types, and cells wait to be written in  *)
(* a seeding that fills a table only.                                        *)
THEOREM SeedTypeCorrect == SeedSpec => []SeedTypeOK
<1>1. AllTypes => SeedTypeOK
  BY FourParts DEF AllTypes
<1>. QED  BY <1>1, TypesHold, PTL

-----------------------------------------------------------------------------
(* The cells a seeding has still to write are of the table it fills and of   *)
(* things that belong there; rows keep what they are of.                     *)
LeftInv ==
  \A s \in Seeders : \A c \in left[s] : thing[c[2]] \in KindOf(c[1])

LEMMA HistoryGrows ==
  ASSUME AllTypes, SeedNext
  PROVE  /\ \A i \in RowIds : thing[i] # 0 => thing'[i] = thing[i]
         /\ \/ history' = history
            \/ \E s \in Seeders : \E some \in SUBSET left[s] : Write(some)
<1>1. ASSUME NEW s \in Seeders, Insert(s)
      PROVE  \A i \in RowIds : thing[i] # 0 => thing'[i] = thing[i]
  <2>1. NewRow \in RowIds /\ thing[NewRow] = 0 /\ thing' = [thing EXCEPT ![NewRow] = at[s]]
    BY <1>1, NewRowIsNew DEF Insert
  <2>. QED  BY <2>1 DEF AllTypes, RowTypes
<1>2. ASSUME NEW s \in Seeders,
             StartSeeding(s) \/ Get(s) \/ InsertFails(s) \/ GetAgain(s) \/ StartHistory(s)
             \/ WriteBatch(s) \/ NextTable(s) \/ CheckEvents(s) \/ CreateEvent(s) \/ Kill(s)
      PROVE  thing' = thing
  BY <1>2 DEF StartSeeding, Get, InsertFails, GetAgain, StartHistory, WriteBatch, NextTable,
              CheckEvents, CreateEvent, Kill, rows
<1>3. ASSUME NEW s \in Seeders, WriteBatch(s) \/ Kill(s)
      PROVE  \E some \in SUBSET left[s] : Write(some)
  BY <1>3 DEF WriteBatch, Kill
<1>4. ASSUME NEW s \in Seeders,
             StartSeeding(s) \/ Get(s) \/ Insert(s) \/ InsertFails(s) \/ GetAgain(s)
             \/ StartHistory(s) \/ NextTable(s) \/ CheckEvents(s) \/ CreateEvent(s)
      PROVE  history' = history
  BY <1>4 DEF StartSeeding, Get, Insert, InsertFails, GetAgain, StartHistory, NextTable,
              CheckEvents, CreateEvent
<1>5. ASSUME (\E i \in RowIds : Delete(i)) \/ Tick
      PROVE  thing' = thing /\ history' = history
  BY <1>5 DEF Delete, Tick, rows
<1>. QED  BY <1>1, <1>2, <1>3, <1>4, <1>5, NextCases

(* What is left becomes less, or is the whole of a table.                    *)
LEMMA LeftIsOfTable ==
  ASSUME AllTypes, SeedNext, NEW q \in Seeders
  PROVE  \/ left'[q] \subseteq left[q]
         \/ /\ thing' = thing
            /\ \A c \in left'[q] : thing[c[2]] \in KindOf(c[1])
<1>. USE DEF AllTypes
<1>1. ASSUME NEW s \in Seeders, StartHistory(s)
      PROVE  \/ left'[q] \subseteq left[q]
             \/ /\ thing' = thing
                /\ \A c \in left'[q] : thing[c[2]] \in KindOf(c[1])
  <2>1. /\ left' = [left EXCEPT ![s] = CellsOf(s, "gpu_metrics", clock)]
        /\ stage[s] = "window" /\ thing' = thing
    BY <1>1 DEF StartHistory, rows
  <2>2. clock \in 0 .. clock /\ RowsFound(s)
    BY DEF ClockTypes, FoundInv
  <2>3. \A c \in CellsOf(s, "gpu_metrics", clock) :
          c[1] = "gpu_metrics" /\ thing[c[2]] \in KindOf("gpu_metrics")
    BY <2>1, <2>2, CellsHaveSubjects DEF RowsFound, Filling, Tables
  <2>. QED  BY <2>1, <2>3 DEF SeedingTypes
<1>2. ASSUME NEW s \in Seeders, NextTable(s)
      PROVE  \/ left'[q] \subseteq left[q]
             \/ /\ thing' = thing
                /\ \A c \in left'[q] : thing[c[2]] \in KindOf(c[1])
  <2>. DEFINE next == TableAfter(table[s])
  <2>1. /\ left' = left \/ left' = [left EXCEPT ![s] = CellsOf(s, next, now[s])]
        /\ stage[s] = "fill" /\ thing' = thing
    BY <1>2 DEF NextTable, rows
  <2>2. now[s] \in 0 .. clock /\ next \in Tables /\ RowsFound(s)
    BY DEF SeedingTypes, FoundInv, TableAfter, Tables
  <2>3. \A c \in CellsOf(s, next, now[s]) : c[1] = next /\ thing[c[2]] \in KindOf(next)
    BY <2>1, <2>2, CellsHaveSubjects DEF RowsFound, Filling
  <2>. QED  BY <2>1, <2>3 DEF SeedingTypes
<1>3. ASSUME NEW s \in Seeders,
             StartSeeding(s) \/ Get(s) \/ Insert(s) \/ InsertFails(s) \/ GetAgain(s)
             \/ WriteBatch(s) \/ CheckEvents(s) \/ CreateEvent(s) \/ Kill(s)
      PROVE  left'[q] \subseteq left[q]
  <2>1. \/ left' = left
        \/ \E batch : left' = [left EXCEPT ![s] = left[s] \ batch]
        \/ left' = [left EXCEPT ![s] = {}]
    BY <1>3 DEF StartSeeding, Get, Insert, InsertFails, GetAgain, WriteBatch, Written,
                CheckEvents, CreateEvent, Kill, Use, GiveUp
  <2>. QED  BY <2>1 DEF SeedingTypes
<1>4. ASSUME (\E i \in RowIds : Delete(i)) \/ Tick PROVE left' = left
  BY <1>4 DEF Delete, Tick, seeding
<1>. QED  BY <1>1, <1>2, <1>3, <1>4, NextCases

(* The history is of GPUs and endpoints that have or had a row.              *)
THEOREM HistoryOfRows == SeedSpec => []HistoryIsOfRows
<1>. DEFINE Inv == HistoryIsOfRows /\ LeftInv
<1>1. SeedInit => Inv
  BY DEF SeedInit, HistoryIsOfRows, LeftInv, EmptyBag, SetToBag, BagToSet
<1>2. ASSUME AllTypes, AllTypes', Inv, [SeedNext]_seedVars PROVE Inv'
  <2>. USE <1>2
  <2>1. CASE UNCHANGED seedVars
    BY <2>1 DEF seedVars, rows, seeding, HistoryIsOfRows, LeftInv
  <2>2. CASE SeedNext
    <3>1. \A c \in Cells : c[2] \in RowIds /\ c[1] \in Tables
      BY DEF Cells
    <3>2. \A tab : 0 \notin KindOf(tab)
      BY SeedAssumption, Numbers DEF KindOf
    <3>3. \A c \in Cells : thing[c[2]] \in KindOf(c[1]) => thing'[c[2]] \in KindOf(c[1])
      BY <2>2, <3>1, <3>2, HistoryGrows
    <3>4. LeftInv'
      <4>1. ASSUME NEW q \in Seeders, NEW c \in left'[q] PROVE thing'[c[2]] \in KindOf(c[1])
        <5>1. c \in Cells
          BY DEF AllTypes, SeedingTypes
        <5>. QED  BY <2>2, <3>3, <4>1, <5>1, LeftIsOfTable DEF LeftInv
      <4>. QED  BY <4>1 DEF LeftInv
    <3>5. \A c \in BagToSet(history') :
            c \in Cells /\ (c \in BagToSet(history) \/ \E s \in Seeders : c \in left[s])
      <4>1. CASE history' = history
        BY <4>1 DEF AllTypes, HistoryTypes
      <4>2. ASSUME NEW s \in Seeders, NEW some \in SUBSET left[s], Write(some)
            PROVE  BagToSet(history') = BagToSet(history) \cup some /\ some \in SUBSET Cells
        <5>1. some \in SUBSET Cells
          BY DEF AllTypes, SeedingTypes
        <5>. QED  BY <4>2, <5>1, WriteCopies DEF AllTypes
      <4>. QED  BY <2>2, <4>1, <4>2, HistoryGrows DEF AllTypes, HistoryTypes
    <3>6. \A c \in BagToSet(history) : thing[c[2]] \in KindOf(c[1])
      BY DEF HistoryIsOfRows, KindOf
    <3>7. \A c \in BagToSet(history') : thing'[c[2]] \in KindOf(c[1])
      BY <3>3, <3>5, <3>6 DEF LeftInv
    <3>. QED  BY <3>4, <3>7 DEF HistoryIsOfRows, KindOf
  <2>. QED  BY <1>2, <2>1, <2>2
<1>. QED  BY <1>1, <1>2, TypesHold, PTL DEF SeedSpec

-----------------------------------------------------------------------------
(* Tables are filled in this order.  A seeding that has a cell still to      *)
(* write, now or in a later table, is a writer of the cell; a cell has no    *)
(* more copies and writers together than there were histories begun.         *)
Later(tab) ==
  IF tab = "gpu_metrics" THEN {"inference_metrics", "cost_snapshots"}
  ELSE IF tab = "inference_metrics" THEN {"cost_snapshots"} ELSE {}

MayWrite(s, c) == stage[s] = "fill" /\ (c \in left[s] \/ c[1] \in Later(table[s]))
Writers(c)     == {s \in Seeders : MayWrite(s, c)}

LeftOfTable == \A s \in Seeders : \A c \in left[s] : c[1] = table[s]
OnceInv     == \A c \in Cells : Copies(c) + Cardinality(Writers(c)) <= fills

LEMMA WritersAreFew ==
  ASSUME NEW c
  PROVE  IsFiniteSet(Writers(c)) /\ Cardinality(Writers(c)) \in Nat
<1>1. Writers(c) \subseteq Seeders
  BY DEF Writers
<1>. QED  BY <1>1, SeedAssumption, FS_Subset, FS_CardinalityType

(* A step of one seeding leaves the others what they were.                   *)
LEMMA OthersWriteOn ==
  ASSUME NEW s \in Seeders, NEW c,
         \A q \in Seeders \ {s} : /\ stage'[q] = stage[q] /\ table'[q] = table[q]
                                  /\ left'[q] = left[q]
  PROVE  /\ MayWrite(s, c)' /\ ~MayWrite(s, c) =>
              Cardinality(Writers(c)') = Cardinality(Writers(c)) + 1
         /\ ~MayWrite(s, c)' /\ MayWrite(s, c) =>
              Cardinality(Writers(c)') = Cardinality(Writers(c)) - 1
         /\ (MayWrite(s, c)' <=> MayWrite(s, c)) => Writers(c)' = Writers(c)
         /\ Cardinality(Writers(c)) \in Nat
<1>1. \A q \in Seeders \ {s} : q \in Writers(c)' <=> q \in Writers(c)
  BY DEF Writers, MayWrite
<1>2. IsFiniteSet(Writers(c)) /\ Cardinality(Writers(c)) \in Nat
  BY WritersAreFew
<1>3. /\ s \in Writers(c) <=> MayWrite(s, c)
      /\ s \in Writers(c)' <=> MayWrite(s, c)'
      /\ Writers(c) \subseteq Seeders /\ Writers(c)' \subseteq Seeders
  BY DEF Writers
<1>4. CASE MayWrite(s, c)' /\ ~MayWrite(s, c)
  <2>1. Writers(c)' = Writers(c) \cup {s} /\ s \notin Writers(c)
    BY <1>1, <1>3, <1>4
  <2>. QED  BY <1>2, <1>4, <2>1, FS_AddElement
<1>5. CASE ~MayWrite(s, c)' /\ MayWrite(s, c)
  <2>1. Writers(c)' = Writers(c) \ {s} /\ s \in Writers(c)
    BY <1>1, <1>3, <1>5
  <2>. QED  BY <1>2, <1>5, <2>1, FS_RemoveElement
<1>6. CASE MayWrite(s, c)' <=> MayWrite(s, c)
  <2>1. Writers(c)' = Writers(c)
    BY <1>1, <1>3, <1>6
  <2>. QED  BY <1>2, <1>6, <2>1
<1>. QED  BY <1>4, <1>5, <1>6

(* Three kinds of steps: one that begins a history, one that writes what was *)
(* left, and one that begins and writes nothing.                             *)
LEMMA NobodyWrites ==
  ASSUME OnceInv, NEW s \in Seeders, UNCHANGED <<history, fills>>,
         \A q \in Seeders \ {s} : /\ stage'[q] = stage[q] /\ table'[q] = table[q]
                                  /\ left'[q] = left[q],
         \A c \in Cells : MayWrite(s, c)' => MayWrite(s, c),
         fills \in Nat, HistoryTypes
  PROVE  OnceInv'
<1>1. ASSUME NEW c \in Cells PROVE (Copies(c) + Cardinality(Writers(c)) <= fills)'
  <2>1. Copies(c)' = Copies(c) /\ Copies(c) \in Nat
    BY DEF Copies, HistoryTypes, IsABag
  <2>2. Copies(c) + Cardinality(Writers(c)) <= fills
    BY DEF OnceInv
  <2>3. \/ Cardinality(Writers(c)') = Cardinality(Writers(c))
        \/ Cardinality(Writers(c)') = Cardinality(Writers(c)) - 1
    <3>1. CASE MayWrite(s, c)' <=> MayWrite(s, c)
      BY <3>1, OthersWriteOn
    <3>2. CASE ~MayWrite(s, c)' /\ MayWrite(s, c)
      BY <3>2, OthersWriteOn
    <3>. QED  BY <3>1, <3>2
  <2>4. Cardinality(Writers(c)) \in Nat
    BY WritersAreFew
  <2>. QED  BY <2>1, <2>2, <2>3, <2>4
<1>. QED  BY <1>1 DEF OnceInv

LEMMA SomebodyWrites ==
  ASSUME OnceInv, LeftOfTable, NEW s \in Seeders, NEW some \in SUBSET left[s], Write(some),
         some \in SUBSET Cells, UNCHANGED fills, stage[s] = "fill",
         \A q \in Seeders \ {s} : /\ stage'[q] = stage[q] /\ table'[q] = table[q]
                                  /\ left'[q] = left[q],
         stage'[s] # "fill" \/ (table'[s] = table[s] /\ left'[s] = left[s] \ some),
         fills \in Nat, HistoryTypes, SeedingTypes
  PROVE  OnceInv'
<1>1. ASSUME NEW c \in Cells PROVE (Copies(c) + Cardinality(Writers(c)) <= fills)'
  <2>1. Copies(c)' = Copies(c) + (IF c \in some THEN 1 ELSE 0) /\ Copies(c) \in Nat
    BY WriteCopies
  <2>2. Copies(c) + Cardinality(Writers(c)) <= fills /\ Cardinality(Writers(c)) \in Nat
    BY WritersAreFew DEF OnceInv
  <2>3. CASE c \in some
    <3>1. c[1] = table[s] /\ table[s] \notin Later(table[s])
      BY <2>3 DEF LeftOfTable, Later
    <3>2. MayWrite(s, c) /\ ~MayWrite(s, c)'
      BY <2>3, <3>1 DEF MayWrite
    <3>3. Cardinality(Writers(c)') = Cardinality(Writers(c)) - 1
      BY <3>2, OthersWriteOn
    <3>. QED  BY <2>1, <2>2, <2>3, <3>3
  <2>4. CASE c \notin some
    <3>1. MayWrite(s, c)' => MayWrite(s, c)
      BY DEF MayWrite
    <3>2. \/ Cardinality(Writers(c)') = Cardinality(Writers(c))
          \/ Cardinality(Writers(c)') = Cardinality(Writers(c)) - 1
      <4>1. CASE MayWrite(s, c)' <=> MayWrite(s, c)
        BY <4>1, OthersWriteOn
      <4>2. CASE ~MayWrite(s, c)' /\ MayWrite(s, c)
        BY <4>2, OthersWriteOn
      <4>. QED  BY <3>1, <4>1, <4>2
    <3>. QED  BY <2>1, <2>2, <2>4, <3>2
  <2>. QED  BY <2>3, <2>4
<1>. QED  BY <1>1 DEF OnceInv

(* The cells of the table that a seeding turns to are all of that table.     *)
LEMMA LeftStaysOfTable ==
  ASSUME AllTypes, LeftOfTable, SeedNext PROVE LeftOfTable'
<1>. USE DEF AllTypes
<1>1. ASSUME NEW s \in Seeders, StartHistory(s) PROVE LeftOfTable'
  <2>1. /\ left' = [left EXCEPT ![s] = CellsOf(s, "gpu_metrics", clock)]
        /\ table' = table /\ stage[s] = "window"
    BY <1>1 DEF StartHistory
  <2>2. clock \in 0 .. clock /\ RowsFound(s)
    BY DEF ClockTypes, FoundInv
  <2>3. /\ table[s] = "gpu_metrics"
        /\ \A c \in CellsOf(s, "gpu_metrics", clock) : c[1] = "gpu_metrics"
    BY <2>1, <2>2, CellsHaveSubjects DEF RowsFound, Filling, Tables
  <2>. QED  BY <2>1, <2>3 DEF LeftOfTable, SeedingTypes
<1>2. ASSUME NEW s \in Seeders, NextTable(s) PROVE LeftOfTable'
  <2>. DEFINE next == TableAfter(table[s])
  <2>1. stage[s] = "fill" /\ left[s] = {}
    BY <1>2 DEF NextTable, Finished
  <2>2. CASE table[s] = "cost_snapshots"
    <3>1. left' = left /\ table' = [table EXCEPT ![s] = "gpu_metrics"]
      BY <1>2, <2>2 DEF NextTable
    <3>. QED  BY <2>1, <3>1 DEF LeftOfTable, SeedingTypes
  <2>3. CASE table[s] # "cost_snapshots"
    <3>1. /\ left' = [left EXCEPT ![s] = CellsOf(s, next, now[s])]
          /\ table' = [table EXCEPT ![s] = next]
      BY <1>2, <2>3 DEF NextTable
    <3>2. now[s] \in 0 .. clock /\ next \in Tables /\ RowsFound(s)
      BY DEF SeedingTypes, FoundInv, TableAfter, Tables
    <3>3. \A c \in CellsOf(s, next, now[s]) : c[1] = next
      BY <2>1, <3>2, CellsHaveSubjects DEF RowsFound, Filling
    <3>. QED  BY <3>1, <3>3 DEF LeftOfTable, SeedingTypes
  <2>. QED  BY <2>2, <2>3
<1>3. ASSUME NEW s \in Seeders,
             StartSeeding(s) \/ Get(s) \/ Insert(s) \/ InsertFails(s) \/ GetAgain(s)
             \/ WriteBatch(s) \/ CheckEvents(s) \/ CreateEvent(s) \/ Kill(s)
      PROVE  LeftOfTable'
  <2>1. \/ UNCHANGED <<left, table>>
        \/ table' = table /\ \E batch : left' = [left EXCEPT ![s] = left[s] \ batch]
        \/ left' = [left EXCEPT ![s] = {}] /\ table' = [table EXCEPT ![s] = "gpu_metrics"]
    BY <1>3 DEF StartSeeding, Get, Insert, InsertFails, GetAgain, WriteBatch, Written,
                CheckEvents, CreateEvent, Kill, Use, GiveUp
  <2>. QED  BY <2>1 DEF LeftOfTable, SeedingTypes
<1>4. ASSUME (\E i \in RowIds : Delete(i)) \/ Tick PROVE UNCHANGED <<left, table>>
  BY <1>4 DEF Delete, Tick, seeding
<1>. QED  BY <1>1, <1>2, <1>3, <1>4, NextCases DEF LeftOfTable

LEMMA OnceStep ==
  ASSUME AllTypes, LeftOfTable, OnceInv, SeedNext PROVE OnceInv'
<1>. USE DEF AllTypes
<1>1. fills \in Nat
  BY SeedAssumption DEF ClockTypes
<1>2. ASSUME NEW s \in Seeders,
             StartSeeding(s) \/ Get(s) \/ Insert(s) \/ InsertFails(s) \/ GetAgain(s)
             \/ CheckEvents(s) \/ CreateEvent(s)
      PROVE  OnceInv'
  <2>1. /\ UNCHANGED <<history, fills>>
        /\ \A q \in Seeders \ {s} : /\ stage'[q] = stage[q] /\ table'[q] = table[q]
                                    /\ left'[q] = left[q]
        /\ stage'[s] # "fill"
    BY <1>2 DEF StartSeeding, Get, Insert, InsertFails, GetAgain, CheckEvents, CreateEvent,
                Use, GiveUp, SeedingTypes
  <2>2. \A c \in Cells : ~MayWrite(s, c)'
    BY <2>1 DEF MayWrite
  <2>. QED  BY <1>1, <2>1, <2>2, NobodyWrites
<1>3. ASSUME NEW s \in Seeders, NextTable(s) PROVE OnceInv'
  <2>1. /\ UNCHANGED <<history, fills>> /\ stage[s] = "fill"
        /\ \A q \in Seeders \ {s} : /\ stage'[q] = stage[q] /\ table'[q] = table[q]
                                    /\ left'[q] = left[q]
    BY <1>3 DEF NextTable, SeedingTypes
  <2>2. ASSUME NEW c \in Cells, MayWrite(s, c)' PROVE MayWrite(s, c)
    <3>1. LeftOfTable'
      BY <1>3, LeftStaysOfTable
    <3>2. table[s] # "cost_snapshots" /\ table'[s] = TableAfter(table[s]) /\ stage'[s] = "fill"
      BY <1>3, <2>2 DEF NextTable, MayWrite, SeedingTypes
    <3>3. c[1] = table'[s] \/ c[1] \in Later(table'[s])
      BY <2>2, <3>1 DEF MayWrite, LeftOfTable
    <3>4. c[1] \in Later(table[s])
      BY <3>2, <3>3 DEF Later, TableAfter, SeedingTypes, Tables
    <3>. QED  BY <2>1, <3>4 DEF MayWrite
  <2>. QED  BY <1>1, <2>1, <2>2, NobodyWrites
<1>4. ASSUME NEW s \in Seeders, StartHistory(s) PROVE OnceInv'
  <2>1. /\ history' = history /\ fills' = fills + 1 /\ stage[s] = "window"
        /\ \A q \in Seeders \ {s} : /\ stage'[q] = stage[q] /\ table'[q] = table[q]
                                    /\ left'[q] = left[q]
    BY <1>4 DEF StartHistory, SeedingTypes
  <2>2. ASSUME NEW c \in Cells PROVE (Copies(c) + Cardinality(Writers(c)) <= fills)'
    <3>1. Copies(c)' = Copies(c) /\ Copies(c) \in Nat
      BY <2>1 DEF Copies, HistoryTypes, IsABag
    <3>2. Copies(c) + Cardinality(Writers(c)) <= fills /\ Cardinality(Writers(c)) \in Nat
      BY WritersAreFew DEF OnceInv
    <3>3. ~MayWrite(s, c)
      BY <2>1 DEF MayWrite
    <3>4. \/ Cardinality(Writers(c)') = Cardinality(Writers(c))
          \/ Cardinality(Writers(c)') = Cardinality(Writers(c)) + 1
      <4>1. CASE MayWrite(s, c)'
        BY <2>1, <3>3, <4>1, OthersWriteOn
      <4>2. CASE ~MayWrite(s, c)'
        BY <2>1, <3>3, <4>2, OthersWriteOn
      <4>. QED  BY <4>1, <4>2
    <3>. QED  BY <1>1, <2>1, <3>1, <3>2, <3>4
  <2>. QED  BY <2>2 DEF OnceInv
<1>5. ASSUME NEW s \in Seeders, WriteBatch(s) PROVE OnceInv'
  <2>1. PICK batch \in SUBSET left[s] :
          Write(batch) /\ left' = [left EXCEPT ![s] = left[s] \ batch]
    BY <1>5 DEF WriteBatch, Written
  <2>2. UNCHANGED <<stage, table, fills>> /\ stage[s] = "fill" /\ batch \in SUBSET Cells
    BY <1>5 DEF WriteBatch, SeedingTypes
  <2>3. /\ \A q \in Seeders \ {s} : left'[q] = left[q]
        /\ left'[s] = left[s] \ batch
    BY <2>1 DEF SeedingTypes
  <2>. QED  BY <1>1, <2>1, <2>2, <2>3, SomebodyWrites
<1>6. ASSUME NEW s \in Seeders, Kill(s) PROVE OnceInv'
  <2>1. PICK some \in SUBSET left[s] : Write(some)
    BY <1>6 DEF Kill
  <2>2. /\ fills' = fills /\ stage'[s] = "idle" /\ some \in SUBSET Cells
        /\ \A q \in Seeders \ {s} : /\ stage'[q] = stage[q] /\ table'[q] = table[q]
                                    /\ left'[q] = left[q]
    BY <1>6 DEF Kill, GiveUp, SeedingTypes
  <2>3. CASE stage[s] = "fill"
    BY <1>1, <2>1, <2>2, <2>3, SomebodyWrites
  <2>4. CASE stage[s] # "fill"
    <3>1. some = {}
      BY <2>4 DEF SeedingTypes
    <3>2. history' = history
      BY <2>1, <3>1 DEF Write, (+), SetToBag, HistoryTypes, IsABag
    <3>3. \A c \in Cells : ~MayWrite(s, c)'
      BY <2>2 DEF MayWrite
    <3>. QED  BY <1>1, <2>2, <3>2, <3>3, NobodyWrites
  <2>. QED  BY <2>3, <2>4
<1>7. ASSUME (\E i \in RowIds : Delete(i)) \/ Tick PROVE OnceInv'
  BY <1>7 DEF Delete, Tick, seeding, OnceInv, Copies, Writers, MayWrite
<1>. QED  BY <1>2, <1>3, <1>4, <1>5, <1>6, <1>7, NextCases

-----------------------------------------------------------------------------
(* The other half: what is behind a seeding it has written.  In a table it   *)
(* has left every cell is in the history, in its table every cell is there   *)
(* or is left, and past the history all are there.                           *)
MyCells(s, tab) == CellsOf(s, tab, now[s])

Past(s) == \/ stage[s] \in Ending \cup {"done"}
           \/ stage[s] \in Looking /\ at[s] \in Rules

WrittenSoFar(s) ==
  /\ Past(s) => \A tab \in Tables : MyCells(s, tab) \subseteq BagToSet(history)
  /\ stage[s] = "fill" => \A tab \in Tables :
       /\ table[s] \in Later(tab) => MyCells(s, tab) \subseteq BagToSet(history)
       /\ tab = table[s] => MyCells(s, tab) \subseteq BagToSet(history) \cup left[s]

WrittenInv == \A s \in Seeders : WrittenSoFar(s)

LEMMA HistoryKeepsCells ==
  ASSUME AllTypes, SeedNext
  PROVE  BagToSet(history) \subseteq BagToSet(history')
<1>1. ASSUME NEW s \in Seeders, NEW some \in SUBSET left[s], Write(some)
      PROVE  BagToSet(history) \subseteq BagToSet(history')
  <2>1. some \in SUBSET Cells
    BY DEF AllTypes, SeedingTypes
  <2>. QED  BY <1>1, <2>1, WriteCopies DEF AllTypes
<1>. QED  BY <1>1, HistoryGrows

(* A seeding whose fleet and window stay keeps what it has written, one that *)
(* is before the history has promised nothing.                               *)
LEMMA KeepsWritten ==
  ASSUME NEW s \in Seeders, WrittenSoFar(s), BagToSet(history) \subseteq BagToSet(history'),
         now'[s] = now[s], \A t \in Fleet : found'[s][t] = found[s][t],
         Past(s)' => Past(s),
         stage'[s] = "fill" => /\ stage[s] = "fill" /\ table'[s] = table[s]
                               /\ left[s] \subseteq left'[s] \cup BagToSet(history')
  PROVE  WrittenSoFar(s)'
<1>1. \A tab \in Tables : MyCells(s, tab)' = MyCells(s, tab)
  BY SeedAssumption DEF MyCells, CellsOf, Subjects, Window
<1>. QED  BY <1>1 DEF WrittenSoFar

LEMMA OwesNothing ==
  ASSUME NEW s \in Seeders, ~Past(s)', stage'[s] # "fill" PROVE WrittenSoFar(s)'
BY DEF WrittenSoFar

LEMMA UseKeepsWritten ==
  ASSUME AllTypes, WrittenInv, NEW s \in Seeders, NEW i, Use(s, i), stage[s] \in Looking,
         BagToSet(history) \subseteq BagToSet(history')
  PROVE  WrittenSoFar(s)'
<1>. USE DEF AllTypes, SeedingTypes
<1>1. /\ found'[s] = [found[s] EXCEPT ![at[s]] = i] /\ now' = now
      /\ at'[s] = IF at[s] = Last THEN FleetSize + 1 ELSE at[s] + 1
      /\ stage'[s] = IF at[s] = FleetSize THEN "window"
                     ELSE IF at[s] = Last THEN "check" ELSE "get"
      /\ at[s] \in Things
  BY DEF Use
<1>2. CASE at[s] \in Rules
  <2>1. Past(s) /\ \A t \in Fleet : found'[s][t] = found[s][t]
    BY <1>1, <1>2, Numbers DEF Past
  <2>2. stage'[s] # "fill" /\ WrittenSoFar(s)
    BY <1>1 DEF WrittenInv
  <2>. QED  BY <1>1, <2>1, <2>2, KeepsWritten
<1>3. CASE at[s] \notin Rules
  <2>1. at[s] \in Nat /\ at[s] <= FleetSize /\ at[s] # Last
    BY <1>1, <1>3, Numbers
  <2>2. at[s] = FleetSize \/ at[s] + 1 \notin Rules
    BY <2>1, Numbers DEF Rules
  <2>3. ~Past(s)' /\ stage'[s] # "fill"
    BY <1>1, <2>1, <2>2 DEF Past, Ending, Looking
  <2>. QED  BY <2>3, OwesNothing
<1>. QED  BY <1>2, <1>3

LEMMA NextTableKeepsWritten ==
  ASSUME AllTypes, WrittenInv, NEW s \in Seeders, NextTable(s) PROVE WrittenSoFar(s)'
<1>. USE DEF AllTypes, SeedingTypes
<1>1. /\ stage[s] = "fill" /\ left[s] = {} /\ WrittenSoFar(s) /\ table[s] \in Tables
      /\ UNCHANGED <<history, found, now>>
  BY DEF NextTable, Finished, WrittenInv
<1>2. \A tab \in Tables : MyCells(s, tab)' = MyCells(s, tab)
  BY <1>1 DEF MyCells, CellsOf, Subjects
<1>3. \A tab \in Tables : tab = table[s] \/ table[s] \in Later(tab) =>
        MyCells(s, tab)' \subseteq BagToSet(history')
  BY <1>1, <1>2 DEF WrittenSoFar
<1>4. CASE table[s] = "cost_snapshots"
  <2>1. stage'[s] = "get"
    BY <1>4 DEF NextTable
  <2>2. \A tab \in Tables : tab = table[s] \/ table[s] \in Later(tab)
    BY <1>4 DEF Tables, Later
  <2>. QED  BY <1>3, <2>1, <2>2 DEF WrittenSoFar
<1>5. CASE table[s] # "cost_snapshots"
  <2>0. PICK next \in Tables : next = TableAfter(table[s])
    BY DEF TableAfter, Tables
  <2>1. /\ stage'[s] = "fill" /\ table'[s] = next
        /\ left'[s] = CellsOf(s, next, now[s])
    BY <1>1, <1>5, <2>0 DEF NextTable
  <2>2. MyCells(s, next)' = MyCells(s, next) /\ left'[s] = MyCells(s, next)
    BY <1>2, <2>1 DEF MyCells
  <2>3. \A tab \in Tables : next \in Later(tab) => tab = table[s] \/ table[s] \in Later(tab)
    BY <1>1, <1>5, <2>0 DEF TableAfter, Tables, Later
  <2>4. ~Past(s)'
    BY <2>1 DEF Past, Ending, Looking
  <2>5. \A tab \in Tables : /\ table'[s] \in Later(tab) => MyCells(s, tab)' \subseteq BagToSet(history')
                            /\ tab = table'[s] => MyCells(s, tab)' \subseteq left'[s]
    BY <1>3, <2>1, <2>2, <2>3
  <2>. QED  BY <2>4, <2>5 DEF WrittenSoFar
<1>. QED  BY <1>4, <1>5


LEMMA WrittenStep ==
  ASSUME AllTypes, WrittenInv, SeedNext PROVE WrittenInv'
<1>. USE DEF AllTypes, SeedingTypes
<1>1. BagToSet(history) \subseteq BagToSet(history')
  BY HistoryKeepsCells
<1>2. ASSUME NEW q \in Seeders, stage'[q] = stage[q], at'[q] = at[q], found'[q] = found[q],
             now'[q] = now[q], table'[q] = table[q], left'[q] = left[q]
      PROVE  WrittenSoFar(q)'
  <2>1. Past(q)' => Past(q)
    BY <1>2 DEF Past
  <2>2. WrittenSoFar(q)
    BY DEF WrittenInv
  <2>. QED  BY <1>1, <1>2, <2>1, <2>2, KeepsWritten
<1>3. ASSUME NEW s \in Seeders,
             \/ StartSeeding(s) \/ Get(s) \/ Insert(s) \/ InsertFails(s) \/ GetAgain(s)
             \/ StartHistory(s) \/ WriteBatch(s) \/ NextTable(s)
             \/ CheckEvents(s) \/ CreateEvent(s) \/ Kill(s),
             NEW q \in Seeders \ {s}
      PROVE  WrittenSoFar(q)'
  <2>1. /\ stage'[q] = stage[q] /\ at'[q] = at[q] /\ found'[q] = found[q]
        /\ now'[q] = now[q] /\ table'[q] = table[q] /\ left'[q] = left[q]
    BY <1>3 DEF StartSeeding, Get, Insert, InsertFails, GetAgain, StartHistory, WriteBatch,
                NextTable, CheckEvents, CreateEvent, Kill, Use, GiveUp
  <2>. QED  BY <1>2, <2>1
<1>4. ASSUME NEW s \in Seeders, StartSeeding(s) \/ GiveUp(s) PROVE WrittenSoFar(s)'
  <2>1. at'[s] \notin Rules /\ stage'[s] \in {"get", "idle"}
    BY <1>4, Numbers DEF StartSeeding, GiveUp, Rules
  <2>. QED  BY <2>1, OwesNothing DEF Past, Ending
<1>5. ASSUME NEW s \in Seeders, stage[s] \in Looking, stage'[s] \in Looking,
             UNCHANGED <<at, found, now>>
      PROVE  WrittenSoFar(s)'
  <2>1. (Past(s)' => Past(s)) /\ stage'[s] # "fill" /\ WrittenSoFar(s)
    BY <1>5 DEF Past, Ending, Looking, WrittenInv
  <2>. QED  BY <1>1, <1>5, <2>1, KeepsWritten
<1>6. ASSUME NEW s \in Seeders, Get(s) \/ Insert(s) \/ InsertFails(s) \/ GetAgain(s)
      PROVE  WrittenSoFar(s)'
  <2>1. \/ stage[s] \in Looking /\ \E i : Use(s, i)
        \/ GiveUp(s)
        \/ stage[s] \in Looking /\ stage'[s] \in Looking /\ UNCHANGED <<at, found, now>>
    BY <1>6 DEF Get, Insert, InsertFails, GetAgain, Looking
  <2>. QED  BY <1>1, <1>4, <1>5, <2>1, UseKeepsWritten
<1>7. ASSUME NEW s \in Seeders, StartHistory(s) PROVE WrittenSoFar(s)'
  <2>1. /\ stage[s] = "window" /\ stage'[s] = "fill" /\ now'[s] = clock /\ found' = found
        /\ table'[s] = table[s] /\ left'[s] = CellsOf(s, "gpu_metrics", clock)
    BY <1>7 DEF StartHistory
  <2>2. table'[s] = "gpu_metrics"
    BY <2>1 DEF FoundInv, RowsFound
  <2>3. \A tab \in Tables : MyCells(s, tab)' = CellsOf(s, tab, clock)
    BY <2>1 DEF MyCells, CellsOf, Subjects, Window
  <2>4. ~Past(s)' /\ \A tab \in Tables : "gpu_metrics" \notin Later(tab)
    BY <2>1 DEF Past, Ending, Looking, Later
  <2>. QED  BY <2>1, <2>2, <2>3, <2>4 DEF WrittenSoFar
<1>8. ASSUME NEW s \in Seeders, WriteBatch(s) PROVE WrittenSoFar(s)'
  <2>1. PICK batch \in SUBSET left[s] :
          Write(batch) /\ left' = [left EXCEPT ![s] = left[s] \ batch]
    BY <1>8 DEF WriteBatch, Written
  <2>2. BagToSet(history') = BagToSet(history) \cup batch
    <3>1. batch \in SUBSET Cells
      OBVIOUS
    <3>. QED  BY <2>1, <3>1, WriteCopies
  <2>3. left[s] \subseteq left'[s] \cup BagToSet(history')
    BY <2>1, <2>2
  <2>4. UNCHANGED <<stage, at, found, now, table>> /\ stage[s] = "fill" /\ WrittenSoFar(s)
    BY <1>8 DEF WriteBatch, WrittenInv
  <2>. QED  BY <1>1, <2>3, <2>4, KeepsWritten DEF Past
<1>9. ASSUME NEW s \in Seeders, CheckEvents(s) \/ CreateEvent(s) PROVE WrittenSoFar(s)'
  <2>1. \/ GiveUp(s)
        \/ stage[s] \in Ending /\ stage'[s] \in Ending \cup {"done"} /\ UNCHANGED <<found, now>>
    BY <1>9 DEF CheckEvents, CreateEvent, Ending
  <2>2. CASE stage[s] \in Ending /\ stage'[s] \in Ending \cup {"done"} /\ UNCHANGED <<found, now>>
    <3>1. Past(s) /\ stage'[s] # "fill" /\ WrittenSoFar(s)
      BY <2>2 DEF Past, Ending, WrittenInv
    <3>. QED  BY <1>1, <2>2, <3>1, KeepsWritten
  <2>. QED  BY <1>4, <2>1, <2>2
<1>10. ASSUME NEW s \in Seeders, Kill(s) PROVE WrittenSoFar(s)'
  BY <1>4, <1>10 DEF Kill
<1>11. ASSUME (\E i \in RowIds : Delete(i)) \/ Tick PROVE WrittenInv'
  <2>1. UNCHANGED <<stage, at, found, now, table, left>>
    BY <1>11 DEF Delete, Tick, seeding
  <2>. QED  BY <1>2, <2>1 DEF WrittenInv
<1>12. ASSUME NEW s \in Seeders,
              \/ StartSeeding(s) \/ Get(s) \/ Insert(s) \/ InsertFails(s) \/ GetAgain(s)
              \/ StartHistory(s) \/ WriteBatch(s) \/ NextTable(s)
              \/ CheckEvents(s) \/ CreateEvent(s) \/ Kill(s)
       PROVE  WrittenInv'
  <2>1. WrittenSoFar(s)'
    BY <1>4, <1>6, <1>7, <1>8, <1>9, <1>10, <1>12, NextTableKeepsWritten
  <2>. QED  BY <1>3, <1>12, <2>1 DEF WrittenInv
<1>. QED  BY <1>11, <1>12, NextCases

(* No seeding, killed or not, has written a minute twice, and one that ends  *)
(* has written every minute of its GPUs and endpoints to the three tables.   *)
THEOREM WrittenOnce == SeedSpec => []WrittenOncePerSeeding
<1>. DEFINE Inv == LeftOfTable /\ OnceInv /\ WrittenInv
<1>1. SeedInit => Inv
  <2>. SUFFICES ASSUME SeedInit PROVE Inv
    OBVIOUS
  <2>1. \A s \in Seeders : stage[s] = "idle" /\ left[s] = {}
    BY DEF SeedInit
  <2>2. LeftOfTable /\ WrittenInv
    BY <2>1 DEF LeftOfTable, WrittenInv, WrittenSoFar, Past, Ending, Looking
  <2>3. ASSUME NEW c \in Cells PROVE Copies(c) + Cardinality(Writers(c)) <= fills
    <3>1. Copies(c) = 0 /\ fills = 0
      BY DEF SeedInit, Copies, EmptyBag, SetToBag
    <3>2. Writers(c) = {}
      BY <2>1 DEF Writers, MayWrite
    <3>. QED  BY <3>1, <3>2, FS_EmptySet
  <2>. QED  BY <2>2, <2>3 DEF OnceInv
<1>2. ASSUME AllTypes, Inv, [SeedNext]_seedVars PROVE Inv'
  <2>1. CASE SeedNext
    BY <1>2, <2>1, LeftStaysOfTable, OnceStep, WrittenStep
  <2>2. CASE UNCHANGED seedVars
    <3>1. UNCHANGED <<history, fills, stage, at, found, now, table, left>>
      BY <2>2 DEF seedVars, rows, seeding
    <3>2. LeftOfTable' /\ OnceInv'
      BY <1>2, <3>1 DEF LeftOfTable, OnceInv, Copies, Writers, MayWrite
    <3>3. WrittenInv'
      BY <1>2, <3>1 DEF WrittenInv, WrittenSoFar, Past, MyCells, CellsOf, Subjects
    <3>. QED  BY <3>2, <3>3
  <2>. QED  BY <1>2, <2>1, <2>2
<1>3. ASSUME AllTypes, Inv PROVE WrittenOncePerSeeding
  <2>1. ASSUME NEW c \in BagToSet(history) PROVE history[c] <= fills
    <3>1. c \in Cells /\ Copies(c) = history[c] /\ history[c] \in Nat /\ fills \in Nat
      BY <1>3, SeedAssumption
         DEF AllTypes, HistoryTypes, ClockTypes, IsABag, BagToSet, Copies
    <3>2. Copies(c) + Cardinality(Writers(c)) <= fills /\ Cardinality(Writers(c)) \in Nat
      BY <1>3, <3>1, WritersAreFew DEF OnceInv
    <3>. QED  BY <3>1, <3>2
  <2>2. ASSUME NEW s \in Seeders, NEW tab \in Tables, stage[s] = "done"
        PROVE  CellsOf(s, tab, now[s]) \subseteq BagToSet(history)
    BY <1>3, <2>2 DEF WrittenInv, WrittenSoFar, Past, MyCells
  <2>. QED  BY <2>1, <2>2 DEF WrittenOncePerSeeding
<1>. QED  BY <1>1, <1>2, <1>3, TypesHold, PTL DEF SeedSpec

-----------------------------------------------------------------------------
(* Who is about to insert a thing saw no row of it, so that its rows and the *)
(* seedings about to insert it are never more than the seeders.              *)
RowsOf(t)    == {i \in alive : thing[i] = t}
Inserters(t) == {s \in Seeders : stage[s] = "insert" /\ at[s] = t}

FewRows(t) ==
  /\ IsFiniteSet(RowsOf(t))
  /\ Cardinality(RowsOf(t)) + Cardinality(Inserters(t)) <= Cardinality(Seeders)
  /\ t \in Unique => Cardinality(RowsOf(t)) <= 1

TwinInv == \A t \in Things \ Gpus : FewRows(t)

LEMMA InsertersAreFew ==
  ASSUME NEW t
  PROVE  /\ IsFiniteSet(Inserters(t)) /\ Cardinality(Inserters(t)) \in Nat
         /\ Cardinality(Inserters(t)) <= Cardinality(Seeders)
         /\ Cardinality(Seeders) \in Nat
<1>1. Inserters(t) \subseteq Seeders
  BY DEF Inserters
<1>. QED  BY <1>1, SeedAssumption, FS_Subset, FS_CardinalityType

LEMMA FewerRows ==
  ASSUME NEW t, FewRows(t), RowsOf(t)' \subseteq RowsOf(t), Inserters(t)' \subseteq Inserters(t)
  PROVE  FewRows(t)'
<1>1. /\ IsFiniteSet(RowsOf(t)') /\ Cardinality(RowsOf(t)') \in Nat
      /\ Cardinality(RowsOf(t)) \in Nat /\ Cardinality(RowsOf(t)') <= Cardinality(RowsOf(t))
  BY FS_Subset, FS_CardinalityType DEF FewRows
<1>2. /\ Cardinality(Inserters(t)') \in Nat /\ Cardinality(Inserters(t)) \in Nat
      /\ Cardinality(Inserters(t)') <= Cardinality(Inserters(t))
      /\ Cardinality(Seeders) \in Nat
  BY InsertersAreFew, FS_Subset, FS_CardinalityType
<1>3. Cardinality(RowsOf(t)') + Cardinality(Inserters(t)') <= Cardinality(Seeders)
  BY <1>1, <1>2 DEF FewRows
<1>4. t \in Unique => Cardinality(RowsOf(t)') <= 1
  BY <1>1 DEF FewRows
<1>. QED  BY <1>1, <1>3, <1>4 DEF FewRows

LEMMA InsertAddsOne ==
  ASSUME AllTypes, TwinInv, NEW s \in Seeders, Insert(s), NEW t \in Things \ Gpus
  PROVE  FewRows(t)'
<1>. USE DEF AllTypes, SeedingTypes, RowTypes
<1>1. /\ stage[s] = "insert" /\ NewRow \in RowIds /\ thing[NewRow] = 0 /\ NewRow \notin alive
      /\ alive' = alive \cup {NewRow} /\ thing' = [thing EXCEPT ![NewRow] = at[s]]
  BY NewRowIsNew DEF Insert
<1>2. stage'[s] # "insert" /\ \A q \in Seeders \ {s} : stage'[q] = stage[q] /\ at'[q] = at[q]
  BY DEF Insert, Use
<1>3. FewRows(t) /\ Cardinality(Inserters(t)) \in Nat /\ IsFiniteSet(Inserters(t))
  BY InsertersAreFew DEF TwinInv
<1>4. CASE at[s] = t
  <2>1. RowsOf(t)' = RowsOf(t) \cup {NewRow} /\ NewRow \notin RowsOf(t)
    BY <1>1, <1>4 DEF RowsOf
  <2>2. Inserters(t)' = Inserters(t) \ {s} /\ s \in Inserters(t)
    BY <1>1, <1>2, <1>4 DEF Inserters
  <2>3. /\ IsFiniteSet(RowsOf(t)') /\ Cardinality(RowsOf(t)) \in Nat
        /\ Cardinality(RowsOf(t)') = Cardinality(RowsOf(t)) + 1
    BY <1>3, <2>1, FS_AddElement, FS_CardinalityType DEF FewRows
  <2>4. Cardinality(Inserters(t)') = Cardinality(Inserters(t)) - 1
    <3>1. Cardinality(Inserters(t) \ {s}) = Cardinality(Inserters(t)) - 1
      BY <1>3, <2>2, FS_RemoveElement
    <3>. QED  BY <2>2, <3>1
  <2>5. Cardinality(Seeders) \in Nat
    BY InsertersAreFew
  <2>6. Cardinality(RowsOf(t)') + Cardinality(Inserters(t)') <= Cardinality(Seeders)
    BY <1>3, <2>3, <2>4, <2>5 DEF FewRows
  <2>7. t \in Unique => Cardinality(RowsOf(t)') <= 1
    <3>1. t \in Unique => RowsOf(t) = {}
      BY <1>4 DEF Insert, Refused, Lookup, RowsOf
    <3>2. t \in Unique => Cardinality(RowsOf(t)) = 0
      BY <3>1, FS_EmptySet
    <3>. QED  BY <2>3, <3>2
  <2>. QED  BY <2>3, <2>6, <2>7 DEF FewRows
<1>5. CASE at[s] # t
  <2>1. RowsOf(t)' \subseteq RowsOf(t) /\ Inserters(t)' \subseteq Inserters(t)
    BY <1>1, <1>2, <1>5 DEF RowsOf, Inserters
  <2>. QED  BY <1>3, <2>1, FewerRows
<1>. QED  BY <1>4, <1>5

LEMMA GetAddsAnInserter ==
  ASSUME AllTypes, TwinInv, NEW s \in Seeders, Get(s), NEW t \in Things \ Gpus
  PROVE  FewRows(t)'
<1>. USE DEF AllTypes, SeedingTypes
<1>1. UNCHANGED <<alive, thing>> /\ FewRows(t)
  BY DEF Get, rows, TwinInv
<1>2. \A q \in Seeders \ {s} : stage'[q] = stage[q] /\ at'[q] = at[q]
  BY DEF Get, Use, GiveUp
<1>3. RowsOf(t)' = RowsOf(t)
  BY <1>1 DEF RowsOf
<1>4. CASE stage'[s] = "insert" /\ at'[s] = t
  <2>1. Lookup(s, at[s]) = {} /\ at'[s] = at[s]
    <3>1. \/ \E i : Use(s, i)
          \/ Lookup(s, at[s]) = {} /\ at' = at
          \/ GiveUp(s)
      BY DEF Get
    <3>2. stage'[s] = "insert" => ~GiveUp(s) /\ \A i : ~Use(s, i)
      BY DEF Use, GiveUp
    <3>. QED  BY <1>4, <3>1, <3>2
  <2>2. RowsOf(t)' = {}
    BY <1>3, <1>4, <2>1 DEF Lookup, RowsOf
  <2>3. IsFiniteSet(RowsOf(t)') /\ Cardinality(RowsOf(t)') = 0
    BY <2>2, FS_EmptySet
  <2>4. /\ Inserters(t)' \subseteq Seeders
        /\ Cardinality(Seeders) \in Nat
    BY InsertersAreFew DEF Inserters
  <2>5. Cardinality(Inserters(t)') \in Nat /\ Cardinality(Inserters(t)') <= Cardinality(Seeders)
    BY <2>4, SeedAssumption, FS_Subset, FS_CardinalityType
  <2>6. Cardinality(RowsOf(t)') + Cardinality(Inserters(t)') <= Cardinality(Seeders)
    BY <2>3, <2>5
  <2>7. Cardinality(RowsOf(t)') <= 1
    BY <2>3
  <2>. QED  BY <2>3, <2>6, <2>7 DEF FewRows
<1>5. CASE ~(stage'[s] = "insert" /\ at'[s] = t)
  <2>1. Inserters(t)' \subseteq Inserters(t)
    BY <1>2, <1>5 DEF Inserters
  <2>. QED  BY <1>1, <1>3, <2>1, FewerRows
<1>. QED  BY <1>4, <1>5

(* Seedings that overlap leave no more than one row each of a price or an    *)
(* alert rule, and one in all of what the database keeps unique.             *)
THEOREM TwinsAreFew == SeedSpec => []TwinsBoundedBySeeders
<1>1. SeedInit => TwinInv
  <2>. SUFFICES ASSUME SeedInit, NEW t \in Things \ Gpus PROVE FewRows(t)
    BY DEF TwinInv
  <2>1. RowsOf(t) = {}
    BY DEF SeedInit, RowsOf
  <2>. QED  BY <2>1, FS_EmptySet, InsertersAreFew DEF FewRows
<1>2. ASSUME AllTypes, TwinInv, [SeedNext]_seedVars PROVE TwinInv'
  <2>. SUFFICES ASSUME NEW t \in Things \ Gpus PROVE FewRows(t)'
    BY DEF TwinInv
  <2>. USE <1>2 DEF AllTypes, SeedingTypes
  <2>1. ASSUME NEW s \in Seeders, Get(s) \/ Insert(s) PROVE FewRows(t)'
    BY <2>1, InsertAddsOne, GetAddsAnInserter
  <2>2. ASSUME NEW s \in Seeders,
               \/ StartSeeding(s) \/ InsertFails(s) \/ GetAgain(s) \/ StartHistory(s)
               \/ WriteBatch(s) \/ NextTable(s) \/ CheckEvents(s) \/ CreateEvent(s) \/ Kill(s)
        PROVE  FewRows(t)'
    <3>1. /\ UNCHANGED <<alive, thing>>
          /\ \A q \in Seeders \ {s} : stage'[q] = stage[q] /\ at'[q] = at[q]
      BY <2>2 DEF StartSeeding, InsertFails, GetAgain, StartHistory, WriteBatch, NextTable,
                  CheckEvents, CreateEvent, Kill, Use, GiveUp, rows
    <3>2. stage'[s] # "insert"
      BY <2>2 DEF StartSeeding, InsertFails, GetAgain, StartHistory, WriteBatch, NextTable,
                  CheckEvents, CreateEvent, Kill, Use, GiveUp
    <3>. QED  BY <3>1, <3>2, FewerRows DEF TwinInv, RowsOf, Inserters
  <2>3. ASSUME (\E i \in RowIds : Delete(i)) \/ Tick \/ UNCHANGED seedVars PROVE FewRows(t)'
    <3>1. alive' \subseteq alive /\ UNCHANGED <<thing, stage, at>>
      BY <2>3 DEF Delete, Tick, seedVars, rows, seeding
    <3>. QED  BY <3>1, FewerRows DEF TwinInv, RowsOf, Inserters
  <2>. QED  BY <2>1, <2>2, <2>3, NextCases
<1>3. ASSUME TwinInv PROVE TwinsBoundedBySeeders
  <2>1. ASSUME NEW t \in Things \ Gpus
        PROVE  Cardinality(RowsOf(t)) <= IF t \in Unique THEN 1 ELSE Cardinality(Seeders)
    <3>1. FewRows(t) /\ Cardinality(RowsOf(t)) \in Nat
      BY <1>3, FS_CardinalityType DEF TwinInv, FewRows
    <3>2. Cardinality(Inserters(t)) \in Nat /\ Cardinality(Seeders) \in Nat
      BY InsertersAreFew
    <3>. QED  BY <3>1, <3>2 DEF FewRows
  <2>. QED  BY <2>1 DEF TwinsBoundedBySeeders, RowsOf
<1>. QED  BY <1>1, <1>2, <1>3, TypesHold, PTL DEF SeedSpec
=============================================================================
