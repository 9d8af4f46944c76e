------------------------- MODULE CostEngine_proofs --------------------------
(***************************************************************************)
(* Proofs about CostEngine for any number of organizations, GPUs, workers,  *)
(* prices and minutes.                                                      *)
(***************************************************************************)
EXTENDS CostEngine, Integers, FunctionTheorems, FiniteSetTheorems,
        WellFoundedInduction, TLAPS

(* Every step of the specification, one named action at a time.              *)
LEMMA NextCases ==
  ASSUME Next
  PROVE  \/ Beat
         \/ \E w \in Workers, o \in Orgs : ReadGpus(w, o)
         \/ \E w \in Workers : \/ StartTask(w) \/ Commit(w) \/ Rollback(w)
                               \/ FinishTask(w) \/ Crash(w)
         \/ \E h \in Handlers, o \in Orgs : OpenPage(h, o)
         \/ \E h \in Handlers : ReadTotals(h) \/ ReadByModel(h) \/ ReadByNode(h)
         \/ \E g \in Gpus : RemoveGpu(g) \/ EditStatus(g)
         \/ \E g \in Gpus, o \in Orgs : Report(g, o)
         \/ \E e \in Entries : EditPricing(e)
BY DEF Next, Task, View, Fleet

(* A nonempty set of naturals below a bound has a greatest element.          *)
LEMMA GreatestExists ==
  ASSUME NEW top \in Nat, NEW S \in SUBSET (0 .. top), S # {}
  PROVE  \E n \in S : \A m \in S : m <= n
<1>. DEFINE T == {d \in 0 .. top : top - d \in S}
<1>1. T \subseteq Nat /\ T # {}
  <2>1. PICK s \in S : TRUE
    OBVIOUS
  <2>2. top - s \in 0 .. top /\ top - (top - s) = s
    OBVIOUS
  <2>. QED  BY <2>1, <2>2
<1>2. PICK d \in T : \A c \in T : ~ (<<c, d>> \in OpToRel(<, Nat))
  BY <1>1, NatLessThanWellFounded, WFMin
<1>3. \A c \in T : ~ (c < d)
  BY <1>1, <1>2 DEF OpToRel
<1>4. \A m \in S : top - m \in T /\ m \in Int
  OBVIOUS
<1>5. top - d \in S /\ d \in Int
  OBVIOUS
<1>6. ASSUME NEW m \in S PROVE m <= top - d
  <2>1. ~ (top - m < d) /\ m \in Int /\ d \in Int /\ top \in Int
    BY <1>3, <1>4, <1>5
  <2>. QED  BY <2>1
<1>. QED  BY <1>5, <1>6

(* What _match_pricing returns is a rate, for any list of entries.           *)
LEMMA MatchPricingType ==
  ASSUME NEW P \in SUBSET Entries, NEW g \in Gpus
  PROVE  MatchPricing(P, g) \in 0 .. MaxRate
<1>. DEFINE found == {HourlyRate[e] : e \in {e \in P : g \in Matches[e]}}
<1>1. found \cup {0} \in SUBSET (0 .. MaxRate)
  BY CostAssumption
<1>2. \E n \in found \cup {0} : \A m \in found \cup {0} : m <= n
  BY <1>1, CostAssumption, GreatestExists
<1>3. MatchPricing(P, g) \in found \cup {0}
  BY <1>2 DEF MatchPricing
<1>. QED  BY <1>1, <1>3

(* GPUs that the same patterns match get the same rate from one list.        *)
LEMMA EqualGpusEqualRates ==
  ASSUME NEW P \in SUBSET Entries, NEW f \in Gpus, NEW g \in Gpus,
         \A e \in Entries : f \in Matches[e] <=> g \in Matches[e]
  PROVE  MatchPricing(P, f) = MatchPricing(P, g)
<1>1. {e \in P : f \in Matches[e]} = {e \in P : g \in Matches[e]}
  OBVIOUS
<1>. QED  BY <1>1 DEF MatchPricing

LEMMA ForgetKeepsTypes ==
  ASSUME TypeOK, NEW w \in Workers, Forget(w), pc' = [pc EXCEPT ![w] = "idle"],
         UNCHANGED started
  PROVE  /\ pc' \in [Workers -> Steps]
         /\ run' \in [Workers -> 0 .. started']
         /\ \A v \in Workers : pc'[v] # "idle" => run'[v] > 0
         /\ stamp' \in [Workers -> 0 .. MaxBeats]
         /\ prices' \in [Workers -> SUBSET Entries]
         /\ todo' \in [Workers -> SUBSET Orgs]
         /\ cur' \in [Workers -> Orgs \cup {Null}]
         /\ batch' \in [Workers -> SUBSET Row]
         /\ steady' \in [Workers -> SUBSET Gpus]
<1>1. started \in Nat /\ MaxBeats \in Nat
  BY CostAssumption DEF TypeOK
<1>2. 0 \in 0 .. started /\ 0 \in 0 .. MaxBeats
  BY <1>1
<1>3. /\ pc' \in [Workers -> Steps]
      /\ run' \in [Workers -> 0 .. started']
      /\ \A v \in Workers : pc'[v] # "idle" => run'[v] > 0
      /\ stamp' \in [Workers -> 0 .. MaxBeats]
  BY <1>2 DEF TypeOK, Forget, Steps
<1>4. /\ prices' \in [Workers -> SUBSET Entries]
      /\ todo' \in [Workers -> SUBSET Orgs]
      /\ cur' \in [Workers -> Orgs \cup {Null}]
      /\ batch' \in [Workers -> SUBSET Row]
      /\ steady' \in [Workers -> SUBSET Gpus]
  BY DEF TypeOK, Forget
<1>. QED  BY <1>3, <1>4

(* The rows of one organization are rows of the table.                       *)
LEMMA SnapshotType ==
  ASSUME TypeOK, NEW w \in Workers, NEW o \in Orgs, pc[w] # "idle"
  PROVE  Snapshot(w, o) \in SUBSET Row
<1>1. run[w] \in 1 .. MaxBeats /\ stamp[w] \in 0 .. MaxBeats /\ prices[w] \in SUBSET Entries
  <2>1. run[w] \in 0 .. started /\ run[w] > 0 /\ started \in 0 .. MaxBeats
    BY DEF TypeOK
  <2>2. run[w] \in 1 .. MaxBeats
    BY <2>1, CostAssumption
  <2>. QED  BY <2>2 DEF TypeOK
<1>2. \A g \in Gpus : MatchPricing(prices[w], g) \in 0 .. MaxRate
  BY <1>1, MatchPricingType
<1>. QED  BY <1>1, <1>2 DEF Snapshot, RowsFor, GpusOf, Row

(* Tables and locals have their types, a GPU that is billed has an owner,    *)
(* and no more runs begin than were queued.                                  *)
THEOREM TypeCorrect == Spec => []TypeOK
<1>. USE CostAssumption
<1>1. Init => TypeOK
  <2>. SUFFICES ASSUME Init PROVE TypeOK
    OBVIOUS
  <2>1. 0 \in 0 .. MaxBeats /\ 0 \in 0 .. 0 /\ 0 \in 0 .. MaxCrashes
    OBVIOUS
  <2>2. /\ owner \in [Gpus -> Orgs \cup {Null}]
        /\ billable \subseteq {g \in Gpus : owner[g] # Null}
        /\ pricing \in SUBSET Entries
        /\ rows \in SUBSET Row
    BY DEF Init
  <2>3. /\ clock \in 0 .. MaxBeats /\ queue \in 0 .. MaxBeats /\ started \in 0 .. MaxBeats
        /\ started + queue = clock
        /\ crashes \in 0 .. MaxCrashes
        /\ run \in [Workers -> 0 .. started]
        /\ stamp \in [Workers -> 0 .. MaxBeats]
    BY <2>1 DEF Init
  <2>4. /\ pc \in [Workers -> Steps]
        /\ \A w \in Workers : pc[w] # "idle" => run[w] > 0
        /\ page \in [Handlers -> Pages]
    BY DEF Init, Steps, Pages
  <2>5. /\ prices \in [Workers -> SUBSET Entries]
        /\ todo \in [Workers -> SUBSET Orgs]
        /\ cur \in [Workers -> Orgs \cup {Null}]
        /\ batch \in [Workers -> SUBSET Row]
        /\ steady \in [Workers -> SUBSET Gpus]
        /\ uuids \in [Handlers -> SUBSET Gpus]
        /\ shown \in [Handlers -> SUBSET Row]
    BY DEF Init
  <2>. QED  BY <2>2, <2>3, <2>4, <2>5 DEF TypeOK
<1>2. ASSUME TypeOK, [Next]_vars PROVE TypeOK'
  <2>. USE <1>2
  <2>1. CASE Beat
    <3>1. clock \in Nat /\ queue \in Nat /\ started \in Nat /\ clock + 1 \in 0 .. MaxBeats
      BY <2>1 DEF Beat, TypeOK
    <3>2. clock' \in 0 .. MaxBeats /\ queue' \in 0 .. MaxBeats /\ started' + queue' = clock'
      BY <2>1, <3>1 DEF Beat, TypeOK
    <3>. QED  BY <2>1, <3>2 DEF Beat, TypeOK, fleet, task, views
  <2>2. ASSUME NEW w \in Workers, StartTask(w) PROVE TypeOK'
    <3>1. /\ started' \in 0 .. MaxBeats /\ queue' \in 0 .. MaxBeats
          /\ started' + queue' = clock
          /\ started + 1 \in 0 .. started' /\ started + 1 > 0
          /\ 0 .. started \subseteq 0 .. started'
      BY <2>2 DEF StartTask, TypeOK
    <3>2. run' \in [Workers -> 0 .. started']
      BY <2>2, <3>1 DEF StartTask, TypeOK
    <3>3. \A v \in Workers : pc'[v] # "idle" => run'[v] > 0
      BY <2>2, <3>1 DEF StartTask, TypeOK
    <3>4. /\ pc' \in [Workers -> Steps]
          /\ stamp' \in [Workers -> 0 .. MaxBeats]
          /\ prices' \in [Workers -> SUBSET Entries]
          /\ todo' \in [Workers -> SUBSET Orgs]
          /\ steady' \in [Workers -> SUBSET Gpus]
      BY <2>2 DEF StartTask, TypeOK, Steps
    <3>. QED  BY <2>2, <3>1, <3>2, <3>3, <3>4 DEF StartTask, TypeOK, fleet, views
  <2>3. ASSUME NEW w \in Workers, NEW o \in Orgs, ReadGpus(w, o) PROVE TypeOK'
    <3>1. Snapshot(w, o) \in SUBSET Row
      BY <2>3, SnapshotType DEF ReadGpus
    <3>2. batch' \in [Workers -> SUBSET Row]
      BY <2>3, <3>1 DEF ReadGpus, TypeOK
    <3>3. /\ pc' \in [Workers -> Steps]
          /\ \A v \in Workers : pc'[v] # "idle" => run'[v] > 0
      BY <2>3 DEF ReadGpus, TypeOK, Steps
    <3>4. todo' \in [Workers -> SUBSET Orgs] /\ cur' \in [Workers -> Orgs \cup {Null}]
      BY <2>3 DEF ReadGpus, TypeOK
    <3>. QED  BY <2>3, <3>2, <3>3, <3>4 DEF ReadGpus, TypeOK, fleet, views
  <2>4. ASSUME NEW w \in Workers, Commit(w) \/ Rollback(w) PROVE TypeOK'
    <3>1. pc[w] = "insert" /\ NextOrg(w)
      BY <2>4 DEF Commit, Rollback
    <3>2. /\ pc' \in [Workers -> Steps]
          /\ \A v \in Workers : pc'[v] # "idle" => run'[v] > 0
          /\ cur' \in [Workers -> Orgs \cup {Null}]
          /\ batch' \in [Workers -> SUBSET Row]
      BY <3>1 DEF NextOrg, TypeOK, Steps
    <3>3. rows' \in SUBSET Row
      BY <2>4 DEF Commit, Rollback, TypeOK
    <3>4. steady' \in [Workers -> SUBSET Gpus]
      <4>1. CASE Commit(w)
        BY <4>1 DEF Commit, TypeOK
      <4>2. CASE Rollback(w)
        BY <4>2 DEF Rollback, TypeOK
      <4>. QED  BY <2>4, <4>1, <4>2
    <3>5. UNCHANGED <<fleet, clock, queue, started, crashes, todo, views, run, stamp, prices>>
      BY <2>4 DEF Commit, Rollback, NextOrg
    <3>. QED  BY <3>2, <3>3, <3>4, <3>5 DEF TypeOK, fleet, views
  <2>5. ASSUME NEW w \in Workers, FinishTask(w) \/ Crash(w) PROVE TypeOK'
    <3>1. Forget(w) /\ pc' = [pc EXCEPT ![w] = "idle"]
      BY <2>5 DEF FinishTask, Crash
    <3>2. UNCHANGED <<fleet, rows, clock, queue, started, views>>
      BY <2>5 DEF FinishTask, Crash, Redeliver
    <3>3. crashes' \in 0 .. MaxCrashes
      BY <2>5 DEF FinishTask, Crash, TypeOK
    <3>4. started' = started
      BY <3>2
    <3>. QED  BY <3>1, <3>2, <3>3, <3>4, ForgetKeepsTypes DEF TypeOK, fleet, views
  <2>6. ASSUME NEW g \in Gpus,
               RemoveGpu(g) \/ EditStatus(g) \/ \E o \in Orgs : Report(g, o)
        PROVE  TypeOK'
    <3>1. Touch(g)
      BY <2>6 DEF RemoveGpu, EditStatus, Report
    <3>2. steady' \in [Workers -> SUBSET Gpus]
      BY <3>1 DEF Touch, TypeOK
    <3>3. owner' \in [Gpus -> Orgs \cup {Null}] /\ billable' \subseteq {f \in Gpus : owner'[f] # Null}
      <4>1. CASE RemoveGpu(g)
        BY <4>1 DEF RemoveGpu, TypeOK
      <4>2. CASE EditStatus(g)
        BY <4>2 DEF EditStatus, TypeOK
      <4>3. ASSUME NEW o \in Orgs, Report(g, o)
            PROVE  owner' \in [Gpus -> Orgs \cup {Null}]
                   /\ billable' \subseteq {f \in Gpus : owner'[f] # Null}
        BY <4>3 DEF Report, TypeOK
      <4>. QED  BY <2>6, <4>1, <4>2, <4>3
    <3>4. UNCHANGED <<pricing, rows, clock, queue, started, crashes, task, views>>
      BY <2>6 DEF RemoveGpu, EditStatus, Report
    <3>. QED  BY <3>2, <3>3, <3>4 DEF TypeOK, task, views
  <2>7. ASSUME NEW e \in Entries, EditPricing(e) PROVE TypeOK'
    BY <2>7 DEF EditPricing, TypeOK, task, views
  <2>8. ASSUME NEW h \in Handlers,
               \/ \E o \in Orgs : OpenPage(h, o)
               \/ ReadTotals(h) \/ ReadByModel(h) \/ ReadByNode(h)
        PROVE  TypeOK'
    <3>1. /\ page' \in [Handlers -> Pages]
          /\ uuids' \in [Handlers -> SUBSET Gpus]
          /\ shown' \in [Handlers -> SUBSET Row]
      <4>1. \A us : CostRows(us) \in SUBSET Row
        BY DEF CostRows, TypeOK
      <4>2. ASSUME NEW o \in Orgs, OpenPage(h, o)
            PROVE  /\ page' \in [Handlers -> Pages]
                   /\ uuids' \in [Handlers -> SUBSET Gpus]
                   /\ shown' \in [Handlers -> SUBSET Row]
        BY <4>2 DEF OpenPage, TypeOK, Pages, GpusOf
      <4>3. CASE ReadTotals(h)
        BY <4>1, <4>3 DEF ReadTotals, TypeOK, Pages
      <4>4. CASE ReadByModel(h)
        BY <4>1, <4>4 DEF ReadByModel, TypeOK, Pages
      <4>5. CASE ReadByNode(h)
        BY <4>5 DEF ReadByNode, TypeOK, Pages
      <4>. QED  BY <2>8, <4>2, <4>3, <4>4, <4>5
    <3>2. UNCHANGED <<fleet, rows, clock, queue, started, crashes, task, steady>>
      BY <2>8 DEF OpenPage, ReadTotals, ReadByModel, ReadByNode
    <3>. QED  BY <3>1, <3>2 DEF TypeOK, fleet, task
  <2>9. CASE UNCHANGED vars
    BY <2>9 DEF TypeOK, vars, fleet, task, views
  <2>. QED  BY <2>1, <2>2, <2>3, <2>4, <2>5, <2>6, <2>7, <2>8, <2>9, NextCases
<1>. QED  BY <1>1, <1>2, PTL DEF Spec

-----------------------------------------------------------------------------
(* Neither NeverOverbilled nor OnePriceListPerRun is inductive: a run must   *)
(* also have its number for itself, bring each organization up once, and     *)
(* have charged by the list it still holds.                                  *)
Bill(w, g) == [run |-> run[w], org |-> cur[w], gpu |-> g, time |-> stamp[w],
               rate |-> MatchPricing(prices[w], g)]

RunsAreBegun == \A r \in rows : r.run <= started

RunsDiffer ==
  \A v, w \in Workers : v # w /\ pc[v] # "idle" /\ pc[w] # "idle" => run[v] # run[w]

BatchIsBill == \A w \in Workers : pc[w] = "insert" => \A r \in batch[w] : r = Bill(w, r.gpu)

NotAgain == \A w \in Workers : pc[w] # "idle" => cur[w] \notin todo[w]

IdleHasNoOrg == \A w \in Workers : pc[w] = "idle" => cur[w] = Null

NotYetBilled ==
  \A w \in Workers, r \in rows :
    pc[w] # "idle" /\ r.run = run[w] =>
      r.org \notin todo[w] /\ r.org # cur[w] /\ r.rate = MatchPricing(prices[w], r.gpu)

OncePerRun ==
  \A r, s \in rows : r.run = s.run /\ r.org = s.org /\ r.gpu = s.gpu => r = s

Booked ==
  /\ RunsAreBegun
  /\ RunsDiffer
  /\ BatchIsBill
  /\ NotAgain
  /\ IdleHasNoOrg
  /\ NotYetBilled
  /\ OncePerRun
  /\ OnePriceListPerRun

(* The two parts that speak of prices, in the next state.                    *)
LEMMA NotYetBilledNext ==
  ASSUME \A v \in Workers, r \in rows' :
           pc'[v] # "idle" /\ r.run = run'[v] =>
             r.org \notin todo'[v] /\ r.org # cur'[v] /\ r.rate = MatchPricing(prices'[v], r.gpu)
  PROVE  NotYetBilled'
BY DEF NotYetBilled, MatchPricing

LEMMA BatchIsBillNext ==
  ASSUME \A v \in Workers : pc'[v] = "insert" =>
           \A r \in batch'[v] :
             r = [run |-> run'[v], org |-> cur'[v], gpu |-> r.gpu, time |-> stamp'[v],
                  rate |-> MatchPricing(prices'[v], r.gpu)]
  PROVE  BatchIsBill'
BY DEF BatchIsBill, Bill, MatchPricing

(* A worker that stops has nothing to keep.                                  *)
LEMMA StopKeepsBooked ==
  ASSUME TypeOK, Booked, NEW w \in Workers, Forget(w), pc' = [pc EXCEPT ![w] = "idle"],
         UNCHANGED <<rows, started>>
  PROVE  Booked'
<1>. DEFINE same(v) == /\ pc'[v] = pc[v] /\ run'[v] = run[v] /\ stamp'[v] = stamp[v]
                       /\ prices'[v] = prices[v] /\ todo'[v] = todo[v]
                       /\ cur'[v] = cur[v] /\ batch'[v] = batch[v]
<1>1. pc'[w] = "idle" /\ \A v \in Workers \ {w} : same(v)
  BY DEF TypeOK, Forget
<1>2. RunsAreBegun' /\ OncePerRun' /\ OnePriceListPerRun'
  BY DEF Booked, RunsAreBegun, OncePerRun, OnePriceListPerRun
<1>3. RunsDiffer' /\ NotAgain' /\ IdleHasNoOrg'
  <2>1. \A v \in Workers : pc'[v] # "idle" => v \in Workers \ {w}
    BY <1>1
  <2>2. cur'[w] = Null
    BY DEF Forget, TypeOK
  <2>. QED  BY <1>1, <2>1, <2>2 DEF Booked, RunsDiffer, NotAgain, IdleHasNoOrg
<1>4. BatchIsBill'
  BY <1>1, BatchIsBillNext DEF Booked, BatchIsBill, Bill
<1>5. NotYetBilled'
  <2>. SUFFICES ASSUME NEW v \in Workers, NEW r \in rows, pc'[v] # "idle", r.run = run'[v]
                PROVE  /\ r.org \notin todo'[v] /\ r.org # cur'[v]
                       /\ r.rate = MatchPricing(prices'[v], r.gpu)
    BY NotYetBilledNext
  <2>1. same(v)
    BY <1>1
  <2>. QED  BY <2>1 DEF Booked, NotYetBilled
<1>. QED  BY <1>2, <1>3, <1>4, <1>5 DEF Booked

(* The run that commits adds the bills of one organization, which it had not *)
(* billed before, by the list it began with.                                 *)
LEMMA CommitKeepsBooked ==
  ASSUME TypeOK, Booked, NEW w \in Workers, Commit(w)
  PROVE  Booked'
<1>1. /\ pc[w] = "insert" /\ rows' = rows \cup batch[w]
      /\ UNCHANGED <<run, stamp, prices, todo, started>>
  BY DEF Commit, NextOrg
<1>2. /\ pc'[w] = "next" /\ cur'[w] = Null /\ batch'[w] = {}
      /\ \A v \in Workers \ {w} : pc'[v] = pc[v] /\ cur'[v] = cur[v] /\ batch'[v] = batch[v]
  BY DEF Commit, NextOrg, TypeOK
<1>3. \A r \in batch[w] : r = Bill(w, r.gpu) /\ r \in Row
  BY <1>1 DEF Booked, BatchIsBill, TypeOK
<1>4. \A r \in batch[w] :
        /\ r.run = run[w] /\ r.org = cur[w] /\ r.org \notin todo[w]
        /\ r.rate = MatchPricing(prices[w], r.gpu) /\ r.gpu \in Gpus /\ r.org \in Orgs
  <2>1. cur[w] \notin todo[w]
    BY <1>1 DEF Booked, NotAgain
  <2>. QED  BY <1>3, <2>1 DEF Bill, Row
<1>5. \A r \in rows : r.run = run[w] => /\ r.org # cur[w] /\ r.org \notin todo[w]
                                        /\ r.rate = MatchPricing(prices[w], r.gpu)
  BY <1>1 DEF Booked, NotYetBilled
<1>6. \A r \in rows : r.org \in Orgs /\ r.gpu \in Gpus
  BY DEF TypeOK, Row
<1>7. RunsAreBegun'
  <2>1. run[w] <= started
    BY DEF TypeOK
  <2>. QED  BY <1>1, <1>4, <2>1 DEF Booked, RunsAreBegun
<1>8. RunsDiffer' /\ NotAgain' /\ IdleHasNoOrg'
  <2>1. Null \notin todo[w]
    BY CostAssumption DEF TypeOK
  <2>. QED  BY <1>1, <1>2, <2>1 DEF Booked, RunsDiffer, NotAgain, IdleHasNoOrg
<1>9. BatchIsBill'
  BY <1>1, <1>2, BatchIsBillNext DEF Booked, BatchIsBill, Bill
<1>10. NotYetBilled'
  <2>. SUFFICES ASSUME NEW v \in Workers, NEW r \in rows', pc'[v] # "idle", r.run = run[v]
                PROVE  /\ r.org \notin todo[v] /\ r.org # cur'[v]
                       /\ r.rate = MatchPricing(prices[v], r.gpu)
    BY <1>1, NotYetBilledNext
  <2>1. CASE v = w
    BY <1>1, <1>2, <1>4, <1>5, <1>6, <2>1, CostAssumption
  <2>2. CASE v # w
    <3>1. pc[v] # "idle" /\ cur'[v] = cur[v] /\ run[v] # run[w]
      BY <1>1, <1>2, <2>2 DEF Booked, RunsDiffer
    <3>2. r \in rows
      BY <1>1, <1>4, <3>1
    <3>. QED  BY <3>1, <3>2 DEF Booked, NotYetBilled
  <2>. QED  BY <2>1, <2>2
<1>11. OncePerRun'
  <2>. SUFFICES ASSUME NEW r \in rows', NEW s \in rows',
                       r.run = s.run, r.org = s.org, r.gpu = s.gpu
                PROVE  r = s
    BY DEF OncePerRun
  <2>1. CASE r \in rows /\ s \in rows
    BY <2>1 DEF Booked, OncePerRun
  <2>2. CASE r \in batch[w] /\ s \in batch[w]
    <3>1. r = Bill(w, r.gpu) /\ s = Bill(w, r.gpu)
      BY <1>3, <2>2
    <3>. QED  BY <3>1
  <2>. QED  BY <1>1, <1>4, <1>5, <2>1, <2>2
<1>12. OnePriceListPerRun'
  <2>. SUFFICES ASSUME NEW r \in rows', NEW s \in rows', r.run = s.run,
                       \A e \in Entries : r.gpu \in Matches[e] <=> s.gpu \in Matches[e]
                PROVE  r.rate = s.rate
    BY DEF OnePriceListPerRun
  <2>1. CASE r \in rows /\ s \in rows
    BY <2>1 DEF Booked, OnePriceListPerRun
  <2>2. CASE r \in batch[w] \/ s \in batch[w]
    <3>1. r.run = run[w] /\ s.run = run[w]
      BY <1>4, <2>2
    <3>2. r.rate = MatchPricing(prices[w], r.gpu) /\ s.rate = MatchPricing(prices[w], s.gpu)
      BY <1>1, <1>4, <1>5, <3>1
    <3>3. r.gpu \in Gpus /\ s.gpu \in Gpus /\ prices[w] \in SUBSET Entries
      BY <1>1, <1>4, <1>6 DEF TypeOK
    <3>. QED  BY <3>2, <3>3, EqualGpusEqualRates
  <2>. QED  BY <1>1, <2>1, <2>2
<1>. QED  BY <1>7, <1>8, <1>9, <1>10, <1>11, <1>12 DEF Booked

(* Steps that touch neither runs nor rows.                                   *)
LEMMA OthersKeepBooked ==
  ASSUME Booked, UNCHANGED <<rows, started, pc, run, stamp, prices, todo, cur, batch>>
  PROVE  Booked'
<1>1. BatchIsBill'
  BY BatchIsBillNext DEF Booked, BatchIsBill, Bill
<1>2. NotYetBilled'
  BY NotYetBilledNext DEF Booked, NotYetBilled
<1>3. RunsAreBegun' /\ RunsDiffer' /\ NotAgain' /\ IdleHasNoOrg'
  BY DEF Booked, RunsAreBegun, RunsDiffer, NotAgain, IdleHasNoOrg
<1>4. OncePerRun' /\ OnePriceListPerRun'
  BY DEF Booked, OncePerRun, OnePriceListPerRun
<1>. QED  BY <1>1, <1>2, <1>3, <1>4 DEF Booked

LEMMA RunsStayBooked == Spec => []Booked
<1>. USE CostAssumption
<1>1. Init => Booked
  BY DEF Init, Booked, RunsAreBegun, RunsDiffer, BatchIsBill, NotAgain, IdleHasNoOrg,
         NotYetBilled, OncePerRun, OnePriceListPerRun
<1>2. ASSUME TypeOK, Booked, [Next]_vars PROVE Booked'
  <2>. USE <1>2
  <2>1. CASE Beat
    BY <2>1, OthersKeepBooked DEF Beat, task
  <2>2. ASSUME NEW w \in Workers, StartTask(w) PROVE Booked'
    <3>1. /\ pc[w] = "idle" /\ UNCHANGED <<rows, cur, batch>>
          /\ started' = started + 1 /\ started \in Nat
      BY <2>2 DEF StartTask, TypeOK
    <3>2. /\ pc'[w] = "next" /\ run'[w] = started + 1
          /\ \A v \in Workers \ {w} :
               /\ pc'[v] = pc[v] /\ run'[v] = run[v] /\ stamp'[v] = stamp[v]
               /\ prices'[v] = prices[v] /\ todo'[v] = todo[v]
      BY <2>2 DEF StartTask, TypeOK
    <3>3. \A v \in Workers : run[v] \in 0 .. started
      BY DEF TypeOK
    <3>4. \A r \in rows : r.run <= started /\ r.run \in Nat
      BY DEF Booked, RunsAreBegun, TypeOK, Row
    <3>5. RunsAreBegun' /\ OncePerRun' /\ OnePriceListPerRun'
      BY <3>1, <3>4 DEF Booked, RunsAreBegun, OncePerRun, OnePriceListPerRun
    <3>6. RunsDiffer'
      <4>1. \A v \in Workers \ {w} : run'[v] # started + 1
        BY <3>1, <3>2, <3>3
      <4>. QED  BY <3>2, <4>1 DEF Booked, RunsDiffer
    <3>7. BatchIsBill'
      BY <3>1, <3>2, BatchIsBillNext DEF Booked, BatchIsBill, Bill
    <3>8. NotAgain'
      <4>1. todo'[w] \subseteq Orgs /\ cur'[w] = cur[w]
        BY <2>2 DEF StartTask, TypeOK
      <4>2. cur[w] = Null
        BY <3>1 DEF Booked, IdleHasNoOrg
      <4>. QED  BY <3>1, <3>2, <4>1, <4>2 DEF Booked, NotAgain
    <3>9. NotYetBilled'
      <4>. SUFFICES ASSUME NEW v \in Workers, NEW r \in rows, pc'[v] # "idle", r.run = run'[v]
                    PROVE  /\ r.org \notin todo'[v] /\ r.org # cur[v]
                           /\ r.rate = MatchPricing(prices'[v], r.gpu)
        BY <3>1, NotYetBilledNext
      <4>1. v # w
        BY <3>1, <3>2, <3>4
      <4>. QED  BY <3>2, <4>1 DEF Booked, NotYetBilled
    <3>10. IdleHasNoOrg'
      BY <3>1, <3>2 DEF Booked, IdleHasNoOrg
    <3>. QED  BY <3>5, <3>6, <3>7, <3>8, <3>9, <3>10 DEF Booked
  <2>3. ASSUME NEW w \in Workers, NEW o \in Orgs, ReadGpus(w, o) PROVE Booked'
    <3>1. /\ pc[w] = "next" /\ o \in todo[w] /\ UNCHANGED <<rows, started, run, stamp, prices>>
      BY <2>3 DEF ReadGpus
    <3>2. /\ pc'[w] = "insert" /\ todo'[w] = todo[w] \ {o} /\ cur'[w] = o
          /\ batch'[w] = Snapshot(w, o)
          /\ \A v \in Workers \ {w} :
               /\ pc'[v] = pc[v] /\ todo'[v] = todo[v] /\ cur'[v] = cur[v]
               /\ batch'[v] = batch[v]
      BY <2>3 DEF ReadGpus, TypeOK
    <3>3. \A v \in Workers : pc'[v] # "idle" => pc[v] # "idle"
      BY <3>1, <3>2
    <3>4. RunsAreBegun' /\ OncePerRun' /\ OnePriceListPerRun'
      BY <3>1 DEF Booked, RunsAreBegun, OncePerRun, OnePriceListPerRun
    <3>5. RunsDiffer'
      BY <3>1, <3>3 DEF Booked, RunsDiffer
    <3>6. NotAgain' /\ IdleHasNoOrg'
      BY <3>1, <3>2, <3>3 DEF Booked, NotAgain, IdleHasNoOrg
    <3>7. BatchIsBill'
      <4>. SUFFICES ASSUME NEW v \in Workers, pc'[v] = "insert", NEW r \in batch'[v]
                    PROVE  r = [run |-> run[v], org |-> cur'[v], gpu |-> r.gpu,
                                time |-> stamp[v], rate |-> MatchPricing(prices[v], r.gpu)]
        BY <3>1, BatchIsBillNext
      <4>1. CASE v = w
        BY <3>2, <4>1 DEF Snapshot, RowsFor
      <4>2. CASE v # w
        BY <3>2, <4>2 DEF Booked, BatchIsBill, Bill
      <4>. QED  BY <4>1, <4>2
    <3>8. NotYetBilled'
      <4>. SUFFICES ASSUME NEW v \in Workers, NEW r \in rows, pc'[v] # "idle", r.run = run[v]
                    PROVE  /\ r.org \notin todo'[v] /\ r.org # cur'[v]
                           /\ r.rate = MatchPricing(prices[v], r.gpu)
        BY <3>1, NotYetBilledNext
      <4>1. r.org \notin todo[v] /\ r.org # cur[v] /\ r.rate = MatchPricing(prices[v], r.gpu)
        BY <3>3 DEF Booked, NotYetBilled
      <4>. QED  BY <3>1, <3>2, <4>1
    <3>. QED  BY <3>4, <3>5, <3>6, <3>7, <3>8 DEF Booked
  <2>4. ASSUME NEW w \in Workers, Commit(w) PROVE Booked'
    BY <2>4, CommitKeepsBooked
  <2>5. ASSUME NEW w \in Workers, Rollback(w) PROVE Booked'
    <3>1. /\ pc[w] = "insert" /\ UNCHANGED <<rows, started, run, stamp, prices, todo>>
      BY <2>5 DEF Rollback, NextOrg
    <3>2. /\ pc'[w] = "next" /\ cur'[w] = Null
          /\ \A v \in Workers \ {w} :
               pc'[v] = pc[v] /\ cur'[v] = cur[v] /\ batch'[v] = batch[v]
      BY <2>5 DEF Rollback, NextOrg, TypeOK
    <3>3. \A v \in Workers : pc'[v] # "idle" => pc[v] # "idle"
      BY <3>1, <3>2
    <3>4. RunsAreBegun' /\ OncePerRun' /\ OnePriceListPerRun'
      BY <3>1 DEF Booked, RunsAreBegun, OncePerRun, OnePriceListPerRun
    <3>5. RunsDiffer'
      BY <3>1, <3>3 DEF Booked, RunsDiffer
    <3>6. NotAgain' /\ IdleHasNoOrg'
      <4>1. Null \notin todo[w]
        BY DEF TypeOK
      <4>. QED  BY <3>1, <3>2, <3>3, <4>1 DEF Booked, NotAgain, IdleHasNoOrg
    <3>7. BatchIsBill'
      BY <3>1, <3>2, BatchIsBillNext DEF Booked, BatchIsBill, Bill
    <3>8. NotYetBilled'
      <4>. SUFFICES ASSUME NEW v \in Workers, NEW r \in rows, pc'[v] # "idle", r.run = run[v]
                    PROVE  /\ r.org \notin todo[v] /\ r.org # cur'[v]
                           /\ r.rate = MatchPricing(prices[v], r.gpu)
        BY <3>1, NotYetBilledNext
      <4>1. /\ r.org \notin todo[v] /\ r.org # cur[v] /\ r.rate = MatchPricing(prices[v], r.gpu)
            /\ r.org # Null
        BY <3>3 DEF Booked, NotYetBilled, TypeOK, Row
      <4>. QED  BY <3>2, <4>1
    <3>. QED  BY <3>4, <3>5, <3>6, <3>7, <3>8 DEF Booked
  <2>6. ASSUME NEW w \in Workers, FinishTask(w) \/ Crash(w) PROVE Booked'
    <3>1. /\ Forget(w) /\ pc' = [pc EXCEPT ![w] = "idle"] /\ UNCHANGED <<rows, started>>
      BY <2>6 DEF FinishTask, Crash
    <3>. QED  BY <3>1, StopKeepsBooked
  <2>7. ASSUME NEW g \in Gpus,
               RemoveGpu(g) \/ EditStatus(g) \/ \E o \in Orgs : Report(g, o)
        PROVE  Booked'
    BY <2>7, OthersKeepBooked DEF RemoveGpu, EditStatus, Report, task
  <2>8. ASSUME NEW e \in Entries, EditPricing(e) PROVE Booked'
    BY <2>8, OthersKeepBooked DEF EditPricing, task
  <2>9. ASSUME NEW h \in Handlers,
               \/ \E o \in Orgs : OpenPage(h, o)
               \/ ReadTotals(h) \/ ReadByModel(h) \/ ReadByNode(h)
        PROVE  Booked'
    BY <2>9, OthersKeepBooked DEF OpenPage, ReadTotals, ReadByModel, ReadByNode, task
  <2>10. CASE UNCHANGED vars
    BY <2>10, OthersKeepBooked DEF vars, task
  <2>. QED  BY <2>1, <2>2, <2>3, <2>4, <2>5, <2>6, <2>7, <2>8, <2>9, <2>10, NextCases
<1>. QED  BY <1>1, <1>2, TypeCorrect, PTL DEF Spec

(* OnePriceListPerRun: one of the parts of Booked.                           *)
THEOREM OnePriceList == Spec => []OnePriceListPerRun
<1>1. Booked => OnePriceListPerRun
  BY DEF Booked
<1>. QED  BY <1>1, RunsStayBooked, PTL

(* NeverOverbilled: an organization's rows for a GPU have different runs,    *)
(* and there were no more runs than minutes.                                 *)
THEOREM NobodyOverbilled == Spec => []NeverOverbilled
<1>1. ASSUME TypeOK, Booked PROVE NeverOverbilled
  <2>. SUFFICES ASSUME NEW g \in Gpus, NEW o \in Orgs
                PROVE  Cardinality({r \in rows : r.gpu = g /\ r.org = o}) <= clock
    BY DEF NeverOverbilled
  <2>. DEFINE bill == {r \in rows : r.gpu = g /\ r.org = o}
              number == [r \in bill |-> r.run]
  <2>1. started \in Nat /\ clock \in Nat /\ started <= clock
    BY <1>1, CostAssumption DEF TypeOK
  <2>2. number \in [bill -> 1 .. started]
    <3>1. \A r \in rows : r.run \in Nat /\ r.run >= 1 /\ r.run <= started
      BY <1>1, CostAssumption DEF TypeOK, Row, Booked, RunsAreBegun
    <3>. QED  BY <2>1, <3>1
  <2>3. \A a, b \in bill : number[a] = number[b] => a = b
    BY <1>1 DEF Booked, OncePerRun
  <2>4. number \in Injection(bill, 1 .. started)
    BY <2>2, <2>3, Fun_IsInj
  <2>5. IsFiniteSet(1 .. started) /\ Cardinality(1 .. started) <= started
    BY <2>1, FS_Interval
  <2>6. /\ IsFiniteSet(bill)
        /\ Cardinality(bill) <= Cardinality(1 .. started)
    BY <2>4, <2>5, FS_Injection
  <2>7. Cardinality(bill) \in Nat /\ Cardinality(1 .. started) \in Nat
    BY <2>5, <2>6, FS_CardinalityType
  <2>8. Cardinality(bill) <= clock
    <3>. HIDE DEF bill
    <3>. QED  BY <2>1, <2>5, <2>6, <2>7
  <2>. QED  BY <2>8
<1>. QED  BY <1>1, TypeCorrect, RunsStayBooked, PTL

(* CommittedStays: the table only grows.                                     *)
THEOREM CommittedRowsStay == Spec => CommittedStays
<1>1. ASSUME [Next]_vars PROVE [rows \subseteq rows']_vars
  <2>1. ASSUME NEW w \in Workers, Commit(w) PROVE rows \subseteq rows'
    BY <2>1 DEF Commit
  <2>2. ASSUME NEW w \in Workers,
               \/ StartTask(w) \/ Rollback(w) \/ FinishTask(w) \/ Crash(w)
               \/ \E o \in Orgs : ReadGpus(w, o)
        PROVE  rows' = rows
    BY <2>2 DEF StartTask, Rollback, FinishTask, Crash, ReadGpus
  <2>3. ASSUME NEW h \in Handlers,
               \/ \E o \in Orgs : OpenPage(h, o)
               \/ ReadTotals(h) \/ ReadByModel(h) \/ ReadByNode(h)
        PROVE  rows' = rows
    BY <2>3 DEF OpenPage, ReadTotals, ReadByModel, ReadByNode
  <2>4. ASSUME NEW g \in Gpus, RemoveGpu(g) \/ EditStatus(g) \/ \E o \in Orgs : Report(g, o)
        PROVE  rows' = rows
    BY <2>4 DEF RemoveGpu, EditStatus, Report
  <2>5. ASSUME Beat \/ \E e \in Entries : EditPricing(e) PROVE rows' = rows
    BY <2>5 DEF Beat, EditPricing
  <2>. QED  BY <1>1, <2>1, <2>2, <2>3, <2>4, <2>5, NextCases
<1>. QED  BY <1>1, PTL DEF Spec, CommittedStays

-----------------------------------------------------------------------------
(* A GPU that a run may not miss: the run has no row of it before its        *)
(* organization's turn, has one in its transaction then, and one row         *)
(* afterwards.                                                               *)
RunRows(w, g) == {s \in rows : s.run = run[w] /\ s.gpu = g}

OnTime(w, g) ==
  /\ owner[g] \in Orgs /\ g \in billable
  /\ owner[g] \in todo[w] => RunRows(w, g) = {}
  /\ pc[w] = "insert" /\ owner[g] = cur[w] =>
       RunRows(w, g) = {} /\ \E r \in batch[w] : r.gpu = g
  /\ pc[w] = "insert" /\ owner[g] # cur[w] => \A r \in batch[w] : r.gpu # g
  /\ owner[g] \notin todo[w] /\ ~(pc[w] = "insert" /\ owner[g] = cur[w]) =>
       \E r \in rows : RunRows(w, g) = {r}

SteadyInv == \A w \in Workers : pc[w] # "idle" => \A g \in steady[w] : OnTime(w, g)

LEMMA StaysOnTime ==
  ASSUME NEW w \in Workers, NEW g \in Gpus, OnTime(w, g),
         pc'[w] = pc[w], todo'[w] = todo[w], cur'[w] = cur[w], batch'[w] = batch[w],
         owner'[g] = owner[g], g \in billable', RunRows(w, g)' = RunRows(w, g)
  PROVE  OnTime(w, g)'
<1>1. \A r : RunRows(w, g) = {r} => r \in rows'
  BY DEF RunRows
<1>. QED  BY <1>1 DEF OnTime

(* Steps that change neither rows nor the fleet keep the other runs.         *)
LEMMA OthersStayOnTime ==
  ASSUME TypeOK, SteadyInv, UNCHANGED <<owner, billable, rows>>, NEW v \in Workers,
         pc'[v] = pc[v], run'[v] = run[v], todo'[v] = todo[v], cur'[v] = cur[v],
         batch'[v] = batch[v], steady'[v] = steady[v], pc[v] # "idle", NEW g \in steady[v]
  PROVE  OnTime(v, g)'
<1>1. OnTime(v, g) /\ g \in Gpus
  BY DEF SteadyInv, TypeOK
<1>2. RunRows(v, g)' = RunRows(v, g) /\ g \in billable'
  BY <1>1 DEF RunRows, OnTime
<1>. QED  BY <1>1, <1>2, StaysOnTime

LEMMA StartIsOnTime ==
  ASSUME TypeOK, Booked, SteadyInv, NEW w \in Workers, StartTask(w)
  PROVE  SteadyInv'
<1>1. /\ UNCHANGED <<owner, billable, rows, cur, batch>>
      /\ run'[w] = started + 1 /\ pc'[w] = "next" /\ todo'[w] = Orgs /\ steady'[w] = billable
      /\ \A v \in Workers \ {w} : /\ pc'[v] = pc[v] /\ run'[v] = run[v]
                                  /\ todo'[v] = todo[v] /\ steady'[v] = steady[v]
  BY DEF StartTask, fleet, TypeOK
<1>2. \A r \in rows : r.run # started + 1
  <2>1. \A r \in rows : r.run \in Nat /\ r.run <= started
    BY CostAssumption DEF Booked, RunsAreBegun, TypeOK, Row
  <2>2. started \in Nat
    BY DEF TypeOK
  <2>. QED  BY <2>1, <2>2
<1>3. ASSUME NEW g \in billable PROVE OnTime(w, g)'
  <2>1. owner[g] \in Orgs
    BY DEF TypeOK
  <2>2. RunRows(w, g)' = {}
    BY <1>1, <1>2 DEF RunRows
  <2>. QED  BY <1>1, <2>1, <2>2 DEF OnTime
<1>. QED  BY <1>1, <1>3, OthersStayOnTime DEF SteadyInv

LEMMA ReadIsOnTime ==
  ASSUME TypeOK, SteadyInv, NEW w \in Workers, NEW o \in Orgs, ReadGpus(w, o)
  PROVE  SteadyInv'
<1>1. /\ UNCHANGED <<owner, billable, rows, run, steady>> /\ pc[w] = "next" /\ o \in todo[w]
      /\ pc'[w] = "insert" /\ todo'[w] = todo[w] \ {o} /\ cur'[w] = o
      /\ batch'[w] = Snapshot(w, o)
      /\ \A v \in Workers \ {w} : /\ pc'[v] = pc[v] /\ todo'[v] = todo[v]
                                  /\ cur'[v] = cur[v] /\ batch'[v] = batch[v]
  BY DEF ReadGpus, fleet, TypeOK
<1>2. ASSUME NEW g \in steady[w] PROVE OnTime(w, g)'
  <2>1. OnTime(w, g) /\ g \in Gpus
    BY <1>1 DEF SteadyInv, TypeOK
  <2>2. RunRows(w, g)' = RunRows(w, g)
    BY <1>1 DEF RunRows
  <2>3. \A r \in batch'[w] : owner[r.gpu] = o
    BY <1>1 DEF Snapshot, RowsFor, GpusOf
  <2>4. CASE owner[g] = o
    <3>1. g \in GpusOf(o) \cap billable
      BY <2>1, <2>4 DEF OnTime, GpusOf
    <3>. DEFINE bill == [run |-> run[w], org |-> o, gpu |-> g, time |-> stamp[w],
                         rate |-> MatchPricing(prices[w], g)]
    <3>2. bill \in Snapshot(w, o) /\ bill.gpu = g
      BY <3>1 DEF Snapshot, RowsFor
    <3>3. \E r \in batch'[w] : r.gpu = g
      BY <1>1, <3>2
    <3>. QED  BY <1>1, <2>1, <2>2, <2>4, <3>3 DEF OnTime
  <2>5. CASE owner[g] # o
    BY <1>1, <2>1, <2>2, <2>3, <2>5 DEF OnTime
  <2>. QED  BY <2>4, <2>5
<1>. QED  BY <1>1, <1>2, OthersStayOnTime DEF SteadyInv

LEMMA CommitIsOnTime ==
  ASSUME TypeOK, Booked, SteadyInv, NEW w \in Workers, Commit(w)
  PROVE  SteadyInv'
<1>1. /\ UNCHANGED <<owner, billable, run, todo, steady>> /\ pc[w] = "insert"
      /\ rows' = rows \cup batch[w] /\ pc'[w] = "next" /\ cur'[w] = Null
      /\ \A v \in Workers \ {w} : pc'[v] = pc[v] /\ cur'[v] = cur[v] /\ batch'[v] = batch[v]
  BY DEF Commit, NextOrg, fleet, TypeOK
<1>2. \A r \in batch[w] : r = Bill(w, r.gpu) /\ r.run = run[w]
  BY <1>1 DEF Booked, BatchIsBill, Bill
<1>3. ASSUME NEW g \in steady[w] PROVE OnTime(w, g)'
  <2>1. OnTime(w, g) /\ g \in Gpus
    BY <1>1 DEF SteadyInv, TypeOK
  <2>2. CASE owner[g] = cur[w]
    <3>1. RunRows(w, g) = {} /\ \E r \in batch[w] : r.gpu = g
      BY <1>1, <2>1, <2>2 DEF OnTime
    <3>2. PICK r \in batch[w] : r.gpu = g
      BY <3>1
    <3>3. \A s \in batch[w] : s.gpu = g => s = r
      BY <1>2, <3>2
    <3>4. RunRows(w, g)' = {r} /\ r \in rows'
      BY <1>1, <1>2, <3>1, <3>2, <3>3 DEF RunRows
    <3>5. owner[g] \notin todo[w]
      BY <1>1, <2>2 DEF Booked, NotAgain
    <3>. QED  BY <1>1, <2>1, <3>4, <3>5 DEF OnTime
  <2>3. CASE owner[g] # cur[w]
    <3>1. \A r \in batch[w] : r.gpu # g
      BY <1>1, <2>1, <2>3 DEF OnTime
    <3>2. RunRows(w, g)' = RunRows(w, g)
      BY <1>1, <3>1 DEF RunRows
    <3>. QED  BY <1>1, <2>1, <2>3, <3>2 DEF OnTime
  <2>. QED  BY <2>2, <2>3
<1>4. ASSUME NEW v \in Workers \ {w}, pc[v] # "idle", NEW g \in steady[v] PROVE OnTime(v, g)'
  <2>1. OnTime(v, g) /\ g \in Gpus
    BY <1>4 DEF SteadyInv, TypeOK
  <2>2. run[v] # run[w]
    BY <1>1, <1>4 DEF Booked, RunsDiffer
  <2>3. RunRows(v, g)' = RunRows(v, g) /\ g \in billable'
    BY <1>1, <1>2, <2>1, <2>2 DEF RunRows, OnTime
  <2>. QED  BY <1>1, <2>1, <2>3, StaysOnTime
<1>. QED  BY <1>1, <1>3, <1>4 DEF SteadyInv

LEMMA RollbackIsOnTime ==
  ASSUME TypeOK, SteadyInv, NEW w \in Workers, Rollback(w)
  PROVE  SteadyInv'
<1>1. /\ UNCHANGED <<owner, billable, rows, run, todo>> /\ pc[w] = "insert"
      /\ pc'[w] = "next" /\ cur'[w] = Null /\ steady'[w] = steady[w] \ GpusOf(cur[w])
      /\ \A v \in Workers \ {w} : /\ pc'[v] = pc[v] /\ cur'[v] = cur[v]
                                  /\ batch'[v] = batch[v] /\ steady'[v] = steady[v]
  BY DEF Rollback, NextOrg, fleet, TypeOK
<1>2. ASSUME NEW g \in steady'[w] PROVE OnTime(w, g)'
  <2>1. OnTime(w, g) /\ g \in Gpus /\ owner[g] # cur[w]
    BY <1>1 DEF SteadyInv, TypeOK, GpusOf
  <2>2. RunRows(w, g)' = RunRows(w, g)
    BY <1>1 DEF RunRows
  <2>. QED  BY <1>1, <2>1, <2>2 DEF OnTime
<1>. QED  BY <1>1, <1>2, OthersStayOnTime DEF SteadyInv

(* The fleet changes under the runs: the GPU it changes is steady no longer. *)
LEMMA FleetIsOnTime ==
  ASSUME TypeOK, SteadyInv, NEW f \in Gpus, Touch(f), UNCHANGED <<rows, task>>,
         \A g \in Gpus \ {f} : owner'[g] = owner[g] /\ (g \in billable <=> g \in billable')
  PROVE  SteadyInv'
<1>. SUFFICES ASSUME NEW w \in Workers, pc'[w] # "idle", NEW g \in steady'[w]
              PROVE  OnTime(w, g)'
  BY DEF SteadyInv
<1>1. UNCHANGED <<rows, pc, run, todo, cur, batch>>
  BY DEF task
<1>2. g \in steady[w] /\ g \in Gpus \ {f}
  BY DEF Touch, TypeOK
<1>3. OnTime(w, g)
  BY <1>1, <1>2 DEF SteadyInv
<1>4. RunRows(w, g)' = RunRows(w, g) /\ g \in billable'
  BY <1>1, <1>2, <1>3 DEF RunRows, OnTime
<1>. QED  BY <1>1, <1>2, <1>3, <1>4, StaysOnTime

LEMMA SteadyHolds == Spec => []SteadyInv
<1>1. Init => SteadyInv
  BY DEF Init, SteadyInv
<1>2. ASSUME TypeOK, Booked, SteadyInv, [Next]_vars PROVE SteadyInv'
  <2>. USE <1>2
  <2>1. ASSUME UNCHANGED <<owner, billable, rows, pc, run, todo, cur, batch, steady>>
        PROVE  SteadyInv'
    BY <2>1, OthersStayOnTime DEF SteadyInv
  <2>2. ASSUME NEW w \in Workers, FinishTask(w) \/ Crash(w) PROVE SteadyInv'
    <3>1. /\ UNCHANGED <<owner, billable, rows>> /\ pc'[w] = "idle"
          /\ \A v \in Workers \ {w} :
               /\ pc'[v] = pc[v] /\ run'[v] = run[v] /\ todo'[v] = todo[v]
               /\ cur'[v] = cur[v] /\ batch'[v] = batch[v] /\ steady'[v] = steady[v]
      BY <2>2 DEF FinishTask, Crash, Forget, fleet, TypeOK
    <3>. QED  BY <3>1, OthersStayOnTime DEF SteadyInv
  <2>3. ASSUME NEW g \in Gpus, RemoveGpu(g) \/ EditStatus(g) \/ \E o \in Orgs : Report(g, o)
        PROVE  SteadyInv'
    <3>1. /\ Touch(g) /\ UNCHANGED <<rows, task>>
          /\ \A f \in Gpus \ {g} : owner'[f] = owner[f] /\ (f \in billable <=> f \in billable')
      BY <2>3 DEF RemoveGpu, EditStatus, Report, TypeOK
    <3>. QED  BY <3>1, FleetIsOnTime
  <2>4. ASSUME \/ Beat
               \/ \E e \in Entries : EditPricing(e)
               \/ \E h \in Handlers : \/ \E o \in Orgs : OpenPage(h, o)
                                      \/ ReadTotals(h) \/ ReadByModel(h) \/ ReadByNode(h)
               \/ UNCHANGED vars
        PROVE  UNCHANGED <<owner, billable, rows, pc, run, todo, cur, batch, steady>>
    BY <2>4 DEF Beat, EditPricing, OpenPage, ReadTotals, ReadByModel, ReadByNode,
                vars, fleet, task
  <2>. QED
    BY <2>1, <2>2, <2>3, <2>4, NextCases, StartIsOnTime, ReadIsOnTime, CommitIsOnTime,
       RollbackIsOnTime
<1>. QED  BY <1>1, <1>2, TypeCorrect, RunsStayBooked, PTL DEF Spec

(* SteadyGpusBilled: when a run ends, no organization's turn is to come.     *)
THEOREM NobodyMissed == Spec => SteadyGpusBilled
<1>1. ASSUME SteadyInv
      PROVE  \A w \in Workers : FinishTask(w) =>
               \A g \in steady[w] : \E r \in rows :
                 {s \in rows : s.run = run[w] /\ s.gpu = g} = {r}
  <2>. SUFFICES ASSUME NEW w \in Workers, FinishTask(w), NEW g \in steady[w]
                PROVE  \E r \in rows : RunRows(w, g) = {r}
    BY DEF RunRows
  <2>1. pc[w] = "next" /\ todo[w] = {}
    BY DEF FinishTask
  <2>. QED  BY <1>1, <2>1 DEF SteadyInv, OnTime
<1>. QED  BY <1>1, SteadyHolds, PTL DEF SteadyGpusBilled

-----------------------------------------------------------------------------
(* What the page has summed is in the table, for the GPUs it asks about.     *)
ShownInv ==
  \A h \in Handlers : page[h] \in {"models", "nodes"} =>
    shown[h] \subseteq {r \in rows : r.gpu \in uuids[h]}

LEMMA ShownHolds == Spec => []ShownInv
<1>1. Init => ShownInv
  BY DEF Init, ShownInv
<1>2. ASSUME TypeOK, ShownInv, [Next]_vars PROVE ShownInv'
  <2>. USE <1>2
  <2>1. ASSUME rows \subseteq rows', UNCHANGED views PROVE ShownInv'
    BY <2>1 DEF ShownInv, views
  <2>2. ASSUME NEW h \in Handlers,
               \/ \E o \in Orgs : OpenPage(h, o)
               \/ ReadTotals(h) \/ ReadByModel(h) \/ ReadByNode(h)
        PROVE  ShownInv'
    <3>1. /\ rows' = rows
          /\ \A k \in Handlers \ {h} :
               page'[k] = page[k] /\ uuids'[k] = uuids[k] /\ shown'[k] = shown[k]
      BY <2>2 DEF OpenPage, ReadTotals, ReadByModel, ReadByNode, TypeOK
    <3>2. \/ page'[h] \in {"totals", "closed"}
          \/ /\ uuids'[h] = uuids[h]
             /\ shown'[h] \subseteq {r \in rows : r.gpu \in uuids[h]}
      BY <2>2 DEF OpenPage, ReadTotals, ReadByModel, ReadByNode, TypeOK, CostRows
    <3>. QED  BY <3>1, <3>2 DEF ShownInv
  <2>3. ASSUME \/ Beat
               \/ \E w \in Workers, o \in Orgs : ReadGpus(w, o)
               \/ \E w \in Workers : \/ StartTask(w) \/ Commit(w) \/ Rollback(w)
                                     \/ FinishTask(w) \/ Crash(w)
               \/ \E g \in Gpus : RemoveGpu(g) \/ EditStatus(g)
               \/ \E g \in Gpus, o \in Orgs : Report(g, o)
               \/ \E e \in Entries : EditPricing(e)
               \/ UNCHANGED vars
        PROVE  rows \subseteq rows' /\ UNCHANGED views
    BY <2>3 DEF Beat, ReadGpus, StartTask, Commit, Rollback, FinishTask, Crash, RemoveGpu,
                EditStatus, Report, EditPricing, vars
  <2>. QED  BY <2>1, <2>2, <2>3, NextCases
<1>. QED  BY <1>1, <1>2, TypeCorrect, PTL DEF Spec

(* PageAddsUp: rows are only added, and the page asks about the same GPUs in *)
(* each of its statements, so a row is missing only from a later period.     *)
THEOREM PageIsWhole == Spec => PageAddsUp
<1>1. ASSUME TypeOK, ShownInv, NEW h \in Handlers, NEW r \in shown[h]
      PROVE  /\ ReadByModel(h) => r \in shown'[h] \/ ~IsRecent(r, Period)
             /\ ReadByNode(h) => r \in ByNode(h) \/ ~IsRecent(r, Period)
  <2>1. page[h] \in {"models", "nodes"} /\ IsRecent(r, Period) => r \in CostRows(uuids[h])
    BY <1>1 DEF ShownInv, CostRows
  <2>2. ReadByModel(h) => page[h] = "models" /\ shown'[h] = CostRows(uuids[h])
    BY <1>1 DEF ReadByModel, TypeOK
  <2>3. ReadByNode(h) => page[h] = "nodes" /\ ByNode(h) = CostRows(uuids[h])
    BY DEF ReadByNode, ByNode
  <2>. QED  BY <2>1, <2>2, <2>3
<1>2. ASSUME TypeOK, ShownInv
      PROVE  \A h \in Handlers : \A r \in shown[h] :
               /\ ReadByModel(h) => r \in shown'[h] \/ ~IsRecent(r, Period)
               /\ ReadByNode(h) => r \in ByNode(h) \/ ~IsRecent(r, Period)
  BY <1>1, <1>2
<1>. QED  BY <1>2, TypeCorrect, ShownHolds, PTL DEF PageAddsUp
-----------------------------------------------------------------------------
(* The refinement of Ledger.  Beside Booked it rests on the times of runs:   *)
(* number n comes not before minute n, and later runs have later times.      *)
Stamped(n, t) ==
  \/ \E w \in Workers : pc[w] # "idle" /\ run[w] = n /\ stamp[w] = t
  \/ \E r \in rows : r.run = n /\ r.time = t

TimesInv ==
  /\ \A n, t : Stamped(n, t) => n <= started /\ n <= t /\ t <= clock
  /\ \A m, s, n, t : Stamped(m, s) /\ Stamped(n, t) /\ m <= n => s <= t

LEMMA StampedTypes ==
  ASSUME TypeOK PROVE \A n, t : Stamped(n, t) => n \in Nat /\ t \in Nat
<1>1. \A w \in Workers : run[w] \in Nat /\ stamp[w] \in Nat
  BY CostAssumption DEF TypeOK
<1>2. \A r \in rows : r.run \in Nat /\ r.time \in Nat
  BY CostAssumption DEF TypeOK, Row
<1>. QED  BY <1>1, <1>2 DEF Stamped

(* Steps that give no run its time.                                          *)
LEMMA NoNewTime ==
  ASSUME TypeOK, TimesInv, started' = started, clock' \in Nat, clock <= clock',
         \A n, t : Stamped(n, t)' => Stamped(n, t)
  PROVE  TimesInv'
<1>1. clock \in Nat /\ \A n, t : Stamped(n, t) => n \in Nat /\ t \in Nat
  BY StampedTypes, CostAssumption DEF TypeOK
<1>2. \A n, t : Stamped(n, t)' => n <= started' /\ n <= t /\ t <= clock'
  BY <1>1 DEF TimesInv
<1>3. \A m, s, n, t : Stamped(m, s)' /\ Stamped(n, t)' /\ m <= n => s <= t
  BY DEF TimesInv
<1>. QED  BY <1>2, <1>3 DEF TimesInv

LEMMA TimesHold == Spec => []TimesInv
<1>1. Init => TimesInv
  BY DEF Init, TimesInv, Stamped
<1>2. ASSUME TypeOK, Booked, TimesInv, [Next]_vars PROVE TimesInv'
  <2>. USE <1>2
  <2>0. clock \in Nat /\ started \in Nat /\ started <= clock
    BY CostAssumption DEF TypeOK
  <2>1. CASE Beat
    <3>1. /\ UNCHANGED <<rows, started, pc, run, stamp>>
          /\ clock' \in Nat /\ clock <= clock'
      BY <2>0, <2>1 DEF Beat, task
    <3>2. \A n, t : Stamped(n, t)' => Stamped(n, t)
      BY <3>1 DEF Stamped
    <3>. QED  BY <3>1, <3>2, NoNewTime
  <2>2. ASSUME NEW w \in Workers, StartTask(w) PROVE TimesInv'
    <3>1. /\ started' = started + 1 /\ started + 1 <= clock /\ UNCHANGED <<rows, clock>>
          /\ run'[w] = started + 1 /\ stamp'[w] = clock
          /\ \A v \in Workers \ {w} : pc'[v] = pc[v] /\ run'[v] = run[v] /\ stamp'[v] = stamp[v]
      BY <2>0, <2>2, CostAssumption DEF StartTask, TypeOK
    <3>2. \A n, t : Stamped(n, t)' => Stamped(n, t) \/ (n = started + 1 /\ t = clock)
      BY <3>1 DEF Stamped
    <3>3. \A n, t : Stamped(n, t) => n \in Nat /\ t \in Nat
      BY StampedTypes
    <3>4. \A n, t : Stamped(n, t)' => n <= started' /\ n <= t /\ t <= clock'
      BY <2>0, <3>1, <3>2, <3>3 DEF TimesInv
    <3>5. \A m, s, n, t : Stamped(m, s)' /\ Stamped(n, t)' /\ m <= n => s <= t
      BY <2>0, <3>2, <3>3 DEF TimesInv
    <3>. QED  BY <3>4, <3>5 DEF TimesInv
  <2>3. ASSUME NEW w \in Workers, NEW o \in Orgs, ReadGpus(w, o) PROVE TimesInv'
    <3>1. UNCHANGED <<rows, started, clock, run, stamp>> /\ pc[w] # "idle"
          /\ \A v \in Workers \ {w} : pc'[v] = pc[v]
      BY <2>3 DEF ReadGpus, TypeOK
    <3>2. \A n, t : Stamped(n, t)' => Stamped(n, t)
      BY <3>1 DEF Stamped
    <3>. QED  BY <2>0, <3>1, <3>2, NoNewTime
  <2>4. ASSUME NEW w \in Workers, Commit(w) PROVE TimesInv'
    <3>1. /\ pc[w] = "insert" /\ rows' = rows \cup batch[w]
          /\ UNCHANGED <<started, clock, run, stamp>>
          /\ \A v \in Workers \ {w} : pc'[v] = pc[v]
      BY <2>4 DEF Commit, NextOrg, TypeOK
    <3>2. \A r \in batch[w] : r.run = run[w] /\ r.time = stamp[w]
      <4>1. \A r \in batch[w] : r = Bill(w, r.gpu)
        BY <3>1 DEF Booked, BatchIsBill
      <4>. QED  BY <4>1 DEF Bill
    <3>3. \A n, t : Stamped(n, t)' => Stamped(n, t)
      BY <3>1, <3>2 DEF Stamped
    <3>. QED  BY <2>0, <3>1, <3>3, NoNewTime
  <2>5. ASSUME NEW w \in Workers, Rollback(w) PROVE TimesInv'
    <3>1. /\ pc[w] = "insert" /\ UNCHANGED <<rows, started, clock, run, stamp>>
          /\ \A v \in Workers \ {w} : pc'[v] = pc[v]
      BY <2>5 DEF Rollback, NextOrg, TypeOK
    <3>2. \A n, t : Stamped(n, t)' => Stamped(n, t)
      BY <3>1 DEF Stamped
    <3>. QED  BY <2>0, <3>1, <3>2, NoNewTime
  <2>6. ASSUME NEW w \in Workers, FinishTask(w) \/ Crash(w) PROVE TimesInv'
    <3>1. /\ UNCHANGED <<rows, started, clock>> /\ pc'[w] = "idle"
          /\ \A v \in Workers \ {w} : pc'[v] = pc[v] /\ run'[v] = run[v] /\ stamp'[v] = stamp[v]
      BY <2>6 DEF FinishTask, Crash, Forget, TypeOK
    <3>2. \A n, t : Stamped(n, t)' => Stamped(n, t)
      BY <3>1 DEF Stamped
    <3>. QED  BY <2>0, <3>1, <3>2, NoNewTime
  <2>7. ASSUME UNCHANGED <<rows, started, clock, task>> PROVE TimesInv'
    <3>1. \A n, t : Stamped(n, t)' => Stamped(n, t)
      BY <2>7 DEF Stamped, task
    <3>. QED  BY <2>0, <2>7, <3>1, NoNewTime
  <2>8. ASSUME NEW g \in Gpus,
               RemoveGpu(g) \/ EditStatus(g) \/ \E o \in Orgs : Report(g, o)
        PROVE  TimesInv'
    BY <2>7, <2>8 DEF RemoveGpu, EditStatus, Report
  <2>9. ASSUME NEW h \in Handlers,
               \/ \E o \in Orgs : OpenPage(h, o)
               \/ ReadTotals(h) \/ ReadByModel(h) \/ ReadByNode(h)
        PROVE  TimesInv'
    BY <2>7, <2>9 DEF OpenPage, ReadTotals, ReadByModel, ReadByNode
  <2>10. ASSUME NEW e \in Entries, EditPricing(e) PROVE TimesInv'
    BY <2>7, <2>10 DEF EditPricing
  <2>11. CASE UNCHANGED vars
    BY <2>7, <2>11 DEF vars
  <2>. QED
    BY <2>1, <2>2, <2>3, <2>4, <2>5, <2>6, <2>8, <2>9, <2>10, <2>11, NextCases
<1>. QED  BY <1>1, <1>2, TypeCorrect, RunsStayBooked, PTL DEF Spec

(* A commit posts the bill of one organization, or nothing.                  *)
LEMMA CommitPosts ==
  ASSUME TypeOK, Booked, TimesInv, Booked', TimesInv', TypeOK', NEW w \in Workers, Commit(w)
  PROVE  rows' = rows \/ Book!Post(run[w], cur[w])
<1>. SUFFICES ASSUME rows' # rows PROVE Book!Post(run[w], cur[w])
  OBVIOUS
<1>1. /\ pc[w] = "insert" /\ rows' = rows \cup batch[w] /\ clock' = clock
  BY DEF Commit
<1>2. \A r \in rows' \ rows : r = Bill(w, r.gpu) /\ r \in Row
  BY <1>1 DEF Booked, BatchIsBill, TypeOK
<1>3. \A r \in rows' \ rows :
        /\ r.run = run[w] /\ r.org = cur[w] /\ r.gpu \in Gpus /\ r.time = stamp[w]
  BY <1>2 DEF Bill, Row
<1>4. Book!Bill(run[w], cur[w]) = {}
  BY <1>1 DEF Book!Bill, Booked, NotYetBilled
<1>5. run[w] <= stamp[w] /\ stamp[w] <= clock
  BY <1>1 DEF TimesInv, Stamped
<1>6. Book!OneEntryPerGpu(rows' \ rows)
  BY <1>3 DEF Book!OneEntryPerGpu, Booked, OncePerRun
<1>7. \A r, s \in rows' : r.run <= s.run => r.time <= s.time
  BY DEF TimesInv, Stamped
<1>8. \A r, s \in rows' : r.run = s.run /\ <<r.gpu, s.gpu>> \in SamePrices => r.rate = s.rate
  BY DEF Booked, OnePriceListPerRun, SamePrices
<1>. QED
  BY <1>1, <1>3, <1>4, <1>5, <1>6, <1>7, <1>8
  DEF Book!Post, Book!InOrder, Book!SameList

LEMMA LedgerStep ==
  ASSUME TypeOK, Booked, TimesInv, Booked', TimesInv', TypeOK', [Next]_vars
  PROVE  [Book!Next]_<<rows, clock>>
<1>1. CASE Beat
  BY <1>1 DEF Beat, Book!Next, Book!Tick
<1>2. ASSUME NEW w \in Workers, Commit(w) PROVE [Book!Next]_<<rows, clock>>
  <2>1. clock' = clock /\ pc[w] = "insert"
    BY <1>2 DEF Commit
  <2>2. CASE rows' = rows
    BY <2>1, <2>2
  <2>3. CASE rows' # rows
    <3>1. PICK r \in batch[w] : r \notin rows
      BY <1>2, <2>3 DEF Commit
    <3>2. r \in Row /\ r.run = run[w] /\ r.org = cur[w]
      BY <2>1, <3>1 DEF TypeOK, Booked, BatchIsBill, Bill
    <3>3. run[w] \in 1 .. clock /\ cur[w] \in Orgs
      <4>1. run[w] \in 0 .. started /\ run[w] > 0 /\ started <= clock
            /\ started \in Nat /\ clock \in Nat
        BY <2>1, CostAssumption DEF TypeOK
      <4>. QED  BY <3>2, <4>1 DEF Row
    <3>. QED  BY <1>2, <2>3, <3>3, CommitPosts DEF Book!Next
  <2>. QED  BY <2>2, <2>3
<1>3. [Next]_vars => \/ Beat \/ UNCHANGED <<rows, clock>>
                     \/ \E w \in Workers : Commit(w)
  BY NextCases DEF vars, StartTask, Rollback, FinishTask, Crash, ReadGpus, OpenPage,
     ReadTotals, ReadByModel, ReadByNode, RemoveGpu, EditStatus, Report, EditPricing
<1>. QED  BY <1>1, <1>2, <1>3

(* The cost snapshots are a ledger, for any number of organizations, GPUs,   *)
(* prices and workers, and whatever runs wait, overlap, fail or die.         *)
THEOREM LedgerKept == Spec => KeepsLedger
<1>1. Init => Book!Init
  BY DEF Init, Book!Init
<1>2. TypeOK /\ Booked /\ TimesInv /\ TypeOK' /\ Booked' /\ TimesInv' /\ [Next]_vars
        => [Book!Next]_<<rows, clock>>
  BY LedgerStep
<1>. QED
  BY <1>1, <1>2, TypeCorrect, RunsStayBooked, TimesHold, PTL
  DEF Spec, KeepsLedger, Book!Spec, Book!state
=============================================================================
