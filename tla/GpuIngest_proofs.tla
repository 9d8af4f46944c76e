-------------------------- MODULE GpuIngest_proofs --------------------------
(***************************************************************************)
(* Proofs about GpuIngest for any number of handlers, hosts, clusters, GPUs *)
(* and reports.                                                             *)
(***************************************************************************)
EXTENDS GpuIngest, SequenceTheorems, TLAPS

(* The steps of a delete before its COMMIT, and its failures, change no table *)
(* and no request.                                                           *)
Deleting ==
  \/ \E c \in Clusters : CollectCluster(c)
  \/ \E x \in Hosts : CollectNode(x)
  \/ DeleteGpus \/ DeleteNodeRows \/ DeleteFails \/ AbortDelete
  \/ \E g \in Gpus : TakeGpu(g)
  \/ \E x \in Hosts : TakeNode(x)

Quiet == UNCHANGED <<cluster, node, gpu, metrics, made, clock, pc, req, pk, now, next,
                     answer, received>>

LEMMA DeletingIsQuiet == Deleting \/ UNCHANGED vars => Quiet
BY DEF Deleting, Quiet, vars, tables, requests, CollectCluster, CollectNode, Collect,
   DeleteGpus, DeleteNodeRows, DeleteFails, AbortDelete, EndDelete, TakeGpu, TakeNode

(* Every step of the specification, one named action at a time.              *)
LEMMA NextCases ==
  ASSUME [Next]_vars
  PROVE  \/ \E h \in Handlers, r \in Reports : Receive(h, r)
         \/ \E h \in Handlers : \/ ResolveCluster(h) \/ NothingToStore(h)
                                \/ LockNode(h) \/ NodeConflict(h)
                                \/ SaveGpu(h) \/ GpuConflict(h)
                                \/ Commit(h) \/ CommitFails(h) \/ Abort(h)
         \/ \E c \in Clusters : CreateCluster(c)
         \/ CommitDelete
         \/ Deleting
         \/ UNCHANGED vars
BY DEF Next, HandlerStep, DeleteStep, Deleting, Idle

(* A handler is not the delete.                                              *)
LEMMA HandlersOwn ==
  ASSUME NEW h \in Handlers
  PROVE  /\ h # Admin
         /\ \A x : OwnsNode(h, x) <=> pc[h] = "writing" /\ req[h].host = x
         /\ \A g : OwnsGpu(h, g) <=> pc[h] = "writing" /\ g \in Saved(h)
BY IngestAssumption DEF OwnsNode, OwnsGpu

(* Facts about a report that every step uses.                                *)
LEMMA ReportFacts ==
  ASSUME NEW r \in Reports
  PROVE  /\ r.cluster \in Clusters
         /\ r.host \in Hosts
         /\ Len(r.gpus) \in Nat
         /\ DOMAIN r.gpus = 1 .. Len(r.gpus)
         /\ \A i \in DOMAIN r.gpus : r.gpus[i] \in Gpus
         /\ GpusOf(r) \subseteq Gpus
         /\ \A g \in GpusOf(r) : Index(r, g) \in Nat
<1>1. /\ r.cluster \in Clusters
      /\ r.host \in Hosts
      /\ r.gpus \in Seq(Gpus)
  BY IngestAssumption
<1>2. /\ Len(r.gpus) \in Nat
      /\ DOMAIN r.gpus = 1 .. Len(r.gpus)
      /\ \A i \in DOMAIN r.gpus : r.gpus[i] \in Gpus
  BY <1>1
<1>3. ASSUME NEW g \in GpusOf(r) PROVE Index(r, g) \in DOMAIN r.gpus
  <2>1. \E i \in DOMAIN r.gpus : r.gpus[i] = g
    BY DEF GpusOf
  <2>. QED  BY <2>1 DEF Index
<1>. QED  BY <1>1, <1>2, <1>3 DEF GpusOf

(* A request that ends leaves only the tables to look at.                    *)
LEMMA EndKeepsTypes ==
  ASSUME TypeOK, NEW h \in Handlers, NEW how \in Answers, End(h, how),
         cluster' \in [Clusters -> Nat],
         node' \in [Hosts -> Nat],
         gpu' \in [Gpus -> GpuRows \cup {NoGpu}],
         metrics' \in SUBSET Samples
  PROVE  TypeOK'
BY DEF TypeOK, End, Phases, deletion

(* The tables and the locals keep their types, and a handler that writes has *)
(* a report and stays within its GPUs.                                       *)
THEOREM TypeCorrect == Spec => []TypeOK
<1>1. Init => TypeOK
  BY IngestAssumption DEF Init, TypeOK, Phases, Answers, Stages
<1>2. ASSUME TypeOK, [Next]_vars PROVE TypeOK'
  <2>. USE <1>2
  <2>1. ASSUME NEW h \in Handlers, NEW r \in Reports, Receive(h, r) PROVE TypeOK'
    BY <2>1, IngestAssumption DEF Receive, TypeOK, tables, deletion, Phases
  <2>2. ASSUME NEW h \in Handlers, ResolveCluster(h) PROVE TypeOK'
    <3>1. req[h] \in Reports
      BY <2>2 DEF ResolveCluster, TypeOK
    <3>2. req[h].cluster \in Clusters
      BY <3>1, ReportFacts
    <3>3. cluster' \in [Clusters -> Nat] /\ made' \in Nat
      <4>1. CASE cluster[req[h].cluster] = 0
        <5>1. /\ made' = made + 1
              /\ cluster' = [cluster EXCEPT ![req[h].cluster] = made + 1]
          BY <4>1, <2>2 DEF ResolveCluster
        <5>. QED  BY <5>1, <3>2 DEF TypeOK
      <4>2. CASE cluster[req[h].cluster] # 0
        BY <4>2, <2>2, <3>2 DEF ResolveCluster, TypeOK
      <4>. QED  BY <4>1, <4>2
    <3>4. pk' \in [Handlers -> Nat]
      BY <2>2, <3>2, <3>3 DEF ResolveCluster, TypeOK
    <3>. QED  BY <2>2, <3>3, <3>4 DEF ResolveCluster, TypeOK, deletion, Phases
  <2>3. ASSUME NEW h \in Handlers,
               NothingToStore(h) \/ NodeConflict(h) \/ GpuConflict(h) \/ CommitFails(h)
                 \/ Abort(h)
        PROVE TypeOK'
    <3>1. \E how \in Answers : End(h, how)
      BY <2>3 DEF NothingToStore, NodeConflict, GpuConflict, CommitFails, Abort, Answers
    <3>2. UNCHANGED <<cluster, node, gpu, metrics>>
      BY <2>3 DEF NothingToStore, NodeConflict, GpuConflict, CommitFails, Abort
    <3>3. /\ cluster' \in [Clusters -> Nat]
          /\ node' \in [Hosts -> Nat]
          /\ gpu' \in [Gpus -> GpuRows \cup {NoGpu}]
          /\ metrics' \in SUBSET Samples
      BY <3>2 DEF TypeOK
    <3>. QED  BY <3>1, <3>3, EndKeepsTypes
  <2>4. ASSUME NEW h \in Handlers, LockNode(h) PROVE TypeOK'
    <3>1. req[h] \in Reports
      BY <2>4 DEF LockNode, TypeOK
    <3>2. 1 \in 1 .. Len(req[h].gpus) + 1
      BY <3>1, ReportFacts
    <3>. QED  BY <2>4, <3>2 DEF LockNode, TypeOK, tables, deletion, Phases
  <2>5. ASSUME NEW h \in Handlers, SaveGpu(h) PROVE TypeOK'
    <3>1. req[h] \in Reports
      BY <2>5 DEF SaveGpu, TypeOK
    <3>2. next[h] + 1 \in 1 .. Len(req[h].gpus) + 1
      BY <2>5, <3>1, ReportFacts DEF SaveGpu, ToSave
    <3>. QED  BY <2>5, <3>2 DEF SaveGpu, TypeOK, tables, deletion
  <2>6. ASSUME NEW h \in Handlers, Commit(h) PROVE TypeOK'
    <3>1. req[h] \in Reports
      BY <2>6 DEF Commit, TypeOK
    <3>2. node' \in [Hosts -> Nat]
      BY <2>6, <3>1, ReportFacts DEF Commit, TypeOK
    <3>3. gpu' \in [Gpus -> GpuRows \cup {NoGpu}]
      BY <2>6, <3>1, ReportFacts DEF Commit, TypeOK, GpuRows
    <3>4. metrics' \in SUBSET Samples
      BY <2>6, <3>1, ReportFacts DEF Commit, TypeOK, Samples
    <3>5. cluster' \in [Clusters -> Nat] /\ End(h, "ok")
      BY <2>6 DEF Commit, TypeOK
    <3>. QED  BY <3>2, <3>3, <3>4, <3>5, EndKeepsTypes DEF Answers
  <2>7. ASSUME NEW c \in Clusters, CreateCluster(c) PROVE TypeOK'
    BY <2>7 DEF CreateCluster, TypeOK, deletion, requests
  <2>8. ASSUME CommitDelete PROVE TypeOK'
    <3>1. EndDelete
      BY <2>8 DEF CommitDelete
    <3>2. /\ cluster' \in [Clusters -> Nat]
          /\ node' \in [Hosts -> Nat]
          /\ gpu' \in [Gpus -> GpuRows \cup {NoGpu}]
      BY <2>8 DEF CommitDelete, TypeOK
    <3>. QED  BY <3>1, <3>2 DEF TypeOK, EndDelete, requests, Stages
  <2>9. ASSUME Deleting PROVE TypeOK'
    <3>1. Quiet
      BY <2>9, DeletingIsQuiet
    <3>. DEFINE Typed ==
           /\ stage' \in Stages
           /\ key' \in Nat
           /\ doomed' \in SUBSET Hosts
           /\ taken' \in SUBSET Gpus
           /\ todo' \in IF stage' = "nodes" THEN SUBSET doomed'
                        ELSE IF stage' = "gpus" THEN SUBSET Gpus ELSE {{}}
           /\ stage' = "none" => doomed' = {} /\ key' = 0
           /\ stage' \in {"none", "collected"} => taken' = {}
    <3>2. Typed
      <4>1. CASE \E c \in Clusters : CollectCluster(c)
        BY <4>1 DEF CollectCluster, Collect, TypeOK, Stages
      <4>2. CASE \E x \in Hosts : CollectNode(x)
        BY <4>2 DEF CollectNode, Collect, TypeOK, Stages
      <4>3. CASE DeleteGpus
        BY <4>3 DEF DeleteGpus, GpusOn, TypeOK, Stages
      <4>4. CASE DeleteNodeRows
        BY <4>4 DEF DeleteNodeRows, TypeOK, Stages
      <4>5. CASE DeleteFails \/ AbortDelete
        BY <4>5 DEF DeleteFails, AbortDelete, EndDelete, Stages
      <4>6. ASSUME NEW g \in Gpus, TakeGpu(g) PROVE Typed
        <5>1. stage = "gpus"
          BY <4>6 DEF TakeGpu, WantsGpus
        <5>. QED  BY <4>6, <5>1 DEF TakeGpu, GpusOn, TypeOK
      <4>7. ASSUME NEW x \in Hosts, TakeNode(x) PROVE Typed
        <5>1. stage = "nodes"
          BY <4>7 DEF TakeNode, WantsNodes
        <5>. QED  BY <4>7, <5>1 DEF TakeNode, TypeOK
      <4>. QED  BY <2>9, <4>1, <4>2, <4>3, <4>4, <4>5, <4>6, <4>7 DEF Deleting
    <3>. QED  BY <3>1, <3>2 DEF Quiet, TypeOK
  <2>10. CASE UNCHANGED vars
    BY <2>10 DEF vars, TypeOK
  <2>. QED
    BY <2>1, <2>2, <2>3, <2>4, <2>5, <2>6, <2>7, <2>8, <2>9, <2>10, NextCases
<1>. QED  BY <1>1, <1>2, PTL DEF Spec

-----------------------------------------------------------------------------
(* The node lock is exclusive; the instant a writer holds was read under it, *)
(* so it is newer than every committed sample of the GPUs of its report.     *)
OneWriterPerHost ==
  \A h, k \in Handlers :
    pc[h] = "writing" /\ pc[k] = "writing" /\ req[h].host = req[k].host => h = k

SamplesArePast == \A m \in metrics : m.time <= clock

WriterIsNewest ==
  \A h \in Handlers : pc[h] = "writing" =>
    /\ now[h] <= clock
    /\ \A m \in metrics : m.gpu \in GpusOf(req[h]) => m.time < now[h]

SnapshotInv ==
  /\ OneWriterPerHost
  /\ SamplesArePast
  /\ WriterIsNewest
  /\ SnapshotIsLatest

(* Handlers that do not begin to write, and tables that only lose GPU rows,  *)
(* leave the invariant alone.                                                *)
LEMMA NoNewWriter ==
  ASSUME TypeOK, SnapshotInv, clock' \in Nat, clock <= clock', metrics' = metrics,
         \A h \in Handlers : pc'[h] = "writing" =>
           pc[h] = "writing" /\ req'[h] = req[h] /\ now'[h] = now[h],
         \A g \in Gpus : gpu'[g] = gpu[g] \/ gpu'[g] = NoGpu
  PROVE  SnapshotInv'
<1>1. OneWriterPerHost'
  BY DEF SnapshotInv, OneWriterPerHost
<1>2. SamplesArePast'
  BY DEF SnapshotInv, SamplesArePast, TypeOK, Samples
<1>3. WriterIsNewest'
  BY DEF SnapshotInv, WriterIsNewest, TypeOK, Samples, GpusOf
<1>4. SnapshotIsLatest'
  BY DEF SnapshotInv, SnapshotIsLatest
<1>. QED  BY <1>1, <1>2, <1>3, <1>4 DEF SnapshotInv

(* However requests interleave, and whatever is deleted meanwhile, a GPU row *)
(* carries its newest sample, as long as a GPU stays on one host.            *)
THEOREM LatestSnapshot ==
  ASSUME OneHome
  PROVE  Spec => []SnapshotIsLatest
<1>1. Init => SnapshotInv
  BY DEF Init, SnapshotInv, OneWriterPerHost, SamplesArePast, WriterIsNewest,
         SnapshotIsLatest
<1>2. ASSUME TypeOK, SnapshotInv, [Next]_vars PROVE SnapshotInv'
  <2>. USE <1>2
  <2>1. ASSUME NEW h \in Handlers, NEW r \in Reports, Receive(h, r) PROVE SnapshotInv'
    BY <2>1, NoNewWriter DEF Receive, TypeOK, tables
  <2>2. ASSUME NEW h \in Handlers, ResolveCluster(h) PROVE SnapshotInv'
    BY <2>2, NoNewWriter DEF ResolveCluster, TypeOK
  <2>3. ASSUME NEW h \in Handlers,
               NothingToStore(h) \/ NodeConflict(h) \/ GpuConflict(h) \/ CommitFails(h)
                 \/ Abort(h)
        PROVE SnapshotInv'
    <3>1. /\ UNCHANGED <<gpu, metrics, clock>>
          /\ pc' = [pc EXCEPT ![h] = "idle"]
          /\ req' = [req EXCEPT ![h] = NoReport]
          /\ now' = [now EXCEPT ![h] = 0]
      BY <2>3 DEF NothingToStore, NodeConflict, GpuConflict, CommitFails, Abort, End
    <3>. QED  BY <3>1, NoNewWriter DEF TypeOK
  <2>4. ASSUME NEW h \in Handlers, LockNode(h) PROVE SnapshotInv'
    <3>1. OneWriterPerHost'
      BY <2>4, HandlersOwn DEF LockNode, NodeIsFree, Transactions, TypeOK, SnapshotInv, OneWriterPerHost
    <3>2. SamplesArePast'
      BY <2>4 DEF LockNode, TypeOK, Samples, tables, SnapshotInv, SamplesArePast
    <3>3. WriterIsNewest'
      BY <2>4 DEF LockNode, TypeOK, Samples, tables, SnapshotInv, SamplesArePast,
                  WriterIsNewest, GpusOf
    <3>4. SnapshotIsLatest'
      BY <2>4 DEF LockNode, tables, SnapshotInv, SnapshotIsLatest
    <3>. QED  BY <3>1, <3>2, <3>3, <3>4 DEF SnapshotInv
  <2>5. ASSUME NEW h \in Handlers, SaveGpu(h) PROVE SnapshotInv'
    BY <2>5, NoNewWriter DEF SaveGpu, TypeOK, tables
  <2>6. ASSUME NEW h \in Handlers, Commit(h) PROVE SnapshotInv'
    <3>1. /\ req[h] \in Reports
          /\ pc[h] = "writing"
          /\ metrics' = metrics \cup {[gpu |-> g, time |-> now[h]] : g \in GpusOf(req[h])}
          /\ pc' = [pc EXCEPT ![h] = "idle"]
          /\ req' = [req EXCEPT ![h] = NoReport]
          /\ now' = [now EXCEPT ![h] = 0]
          /\ UNCHANGED clock
      BY <2>6 DEF Commit, End, TypeOK
    <3>2. OneWriterPerHost'
      BY <3>1 DEF TypeOK, SnapshotInv, OneWriterPerHost
    <3>3. SamplesArePast'
      BY <3>1 DEF SnapshotInv, SamplesArePast, WriterIsNewest
    <3>4. ASSUME NEW k \in Handlers, pc'[k] = "writing"
          PROVE  GpusOf(req[k]) \cap GpusOf(req[h]) = {}
      <4>1. k # h /\ pc[k] = "writing" /\ req[k] \in Reports
        BY <3>1, <3>4 DEF TypeOK
      <4>2. req[k].host # req[h].host
        BY <3>1, <4>1 DEF SnapshotInv, OneWriterPerHost
      <4>. QED  BY <3>1, <4>1, <4>2 DEF OneHome
    <3>5. WriterIsNewest'
      BY <3>1, <3>4 DEF TypeOK, SnapshotInv, WriterIsNewest
    <3>6. ASSUME NEW g \in Gpus, gpu'[g] # NoGpu
          PROVE  /\ [gpu |-> g, time |-> gpu'[g].updated] \in metrics'
                 /\ \A m \in metrics' : m.gpu = g => m.time <= gpu'[g].updated
      <4>1. CASE g \in GpusOf(req[h])
        <5>1. gpu'[g].updated = now[h]
          BY <2>6, <4>1 DEF Commit
        <5>2. \A m \in metrics : m.gpu = g => m.time < now[h]
          BY <3>1, <4>1 DEF SnapshotInv, WriterIsNewest
        <5>3. now[h] \in Nat /\ metrics \subseteq Samples
          BY DEF TypeOK
        <5>. QED  BY <3>1, <4>1, <5>1, <5>2, <5>3 DEF Samples
      <4>2. CASE g \notin GpusOf(req[h])
        <5>1. gpu'[g] = gpu[g]
          BY <2>6, <4>2 DEF Commit
        <5>. QED  BY <3>1, <3>6, <4>2, <5>1 DEF SnapshotInv, SnapshotIsLatest
      <4>. QED  BY <4>1, <4>2
    <3>7. SnapshotIsLatest'
      BY <3>6 DEF SnapshotIsLatest
    <3>. QED  BY <3>2, <3>3, <3>5, <3>7 DEF SnapshotInv
  <2>7. ASSUME NEW c \in Clusters, CreateCluster(c) PROVE SnapshotInv'
    BY <2>7, NoNewWriter DEF CreateCluster, requests, TypeOK
  <2>8. ASSUME CommitDelete PROVE SnapshotInv'
    BY <2>8, NoNewWriter DEF CommitDelete, EndDelete, requests, TypeOK
  <2>9. CASE Deleting \/ UNCHANGED vars
    BY <2>9, DeletingIsQuiet, NoNewWriter DEF Quiet, TypeOK
  <2>. QED
    BY <2>1, <2>2, <2>3, <2>4, <2>5, <2>6, <2>7, <2>8, <2>9, NextCases
<1>3. SnapshotInv => SnapshotIsLatest
  BY DEF SnapshotInv
<1>. QED  BY <1>1, <1>2, <1>3, TypeCorrect, PTL DEF Spec

-----------------------------------------------------------------------------
(* Row 0 stands for no row: who has resolved a cluster has the key of a row  *)
(* that was made.                                                            *)
KeysAreReal ==
  \A h \in Handlers : pc[h] \in {"resolved", "writing"} => pk[h] # 0

ReferencesInv == KeysAreReal /\ ReferencesHold

(* A step that leaves the tables alone keeps every reference.                *)
LEMMA TablesKept ==
  ASSUME ReferencesInv, UNCHANGED <<cluster, node, gpu>>,
         \A h \in Handlers : pc'[h] \in {"resolved", "writing"} =>
           pc[h] \in {"resolved", "writing"} /\ pk'[h] = pk[h]
  PROVE  ReferencesInv'
BY DEF ReferencesInv, KeysAreReal, ReferencesHold

LEMMA ReferencesStay == Spec => []ReferencesInv
<1>1. Init => ReferencesInv
  BY DEF Init, ReferencesInv, KeysAreReal, ReferencesHold
<1>2. ASSUME TypeOK, ReferencesInv, [Next]_vars PROVE ReferencesInv'
  <2>. USE <1>2
  <2>1. ASSUME NEW h \in Handlers, NEW r \in Reports, Receive(h, r) PROVE ReferencesInv'
    BY <2>1, TablesKept DEF Receive, TypeOK, tables
  <2>2. ASSUME NEW c \in Clusters, cluster[c] = 0, cluster'[c] # 0,
               \A d \in Clusters \ {c} : cluster'[d] = cluster[d], UNCHANGED <<node, gpu>>
        PROVE ReferencesHold'
    BY <2>2 DEF ReferencesInv, ReferencesHold, TypeOK
  <2>3. ASSUME NEW h \in Handlers, ResolveCluster(h) PROVE ReferencesInv'
    <3>1. req[h] \in Reports /\ UNCHANGED <<node, gpu>>
      BY <2>3 DEF ResolveCluster, TypeOK
    <3>2. PICK c \in Clusters : c = req[h].cluster
      BY <3>1, ReportFacts
    <3>3. pk' = [pk EXCEPT ![h] = cluster'[c]] /\ pc' = [pc EXCEPT ![h] = "resolved"]
      BY <2>3, <3>2 DEF ResolveCluster
    <3>4. CASE cluster[c] = 0
      <4>1. cluster' = [cluster EXCEPT ![c] = made + 1]
        BY <2>3, <3>2, <3>4 DEF ResolveCluster
      <4>2. cluster'[c] # 0
        BY <4>1 DEF TypeOK
      <4>3. ReferencesHold'
        BY <2>2, <3>1, <3>4, <4>1, <4>2 DEF TypeOK
      <4>4. KeysAreReal'
        BY <3>1, <3>3, <4>2 DEF ReferencesInv, KeysAreReal, TypeOK
      <4>. QED  BY <4>3, <4>4 DEF ReferencesInv
    <3>5. CASE cluster[c] # 0
      <4>1. cluster' = cluster
        BY <2>3, <3>2, <3>5 DEF ResolveCluster
      <4>. QED
        BY <3>1, <3>3, <3>5, <4>1 DEF ReferencesInv, KeysAreReal, ReferencesHold, TypeOK
    <3>. QED  BY <3>4, <3>5
  <2>4. ASSUME NEW h \in Handlers,
               NothingToStore(h) \/ NodeConflict(h) \/ GpuConflict(h) \/ CommitFails(h)
                 \/ Abort(h)
        PROVE ReferencesInv'
    <3>1. /\ UNCHANGED <<cluster, node, gpu>>
          /\ pc' = [pc EXCEPT ![h] = "idle"]
          /\ pk' = [pk EXCEPT ![h] = 0]
      BY <2>4 DEF NothingToStore, NodeConflict, GpuConflict, CommitFails, Abort, End
    <3>. QED  BY <3>1, TablesKept DEF TypeOK
  <2>5. ASSUME NEW h \in Handlers, LockNode(h) \/ SaveGpu(h) PROVE ReferencesInv'
    BY <2>5, TablesKept DEF LockNode, SaveGpu, TypeOK, tables
  <2>6. ASSUME NEW h \in Handlers, Commit(h) PROVE ReferencesInv'
    <3>1. /\ req[h] \in Reports
          /\ pc[h] = "writing"
          /\ pc' = [pc EXCEPT ![h] = "idle"]
          /\ node' = [node EXCEPT ![req[h].host] = pk[h]]
          /\ gpu' = [g \in Gpus |->
               IF g \in GpusOf(req[h])
                 THEN [host |-> req[h].host, index |-> Index(req[h], g), updated |-> now[h]]
                 ELSE gpu[g]]
          /\ \E c \in Clusters : cluster[c] = pk[h]
          /\ pk' = [pk EXCEPT ![h] = 0]
          /\ UNCHANGED cluster
      BY <2>6 DEF Commit, End, TypeOK, ClusterRemains
    <3>2. req[h].host \in Hosts
      BY <3>1, ReportFacts
    <3>3. pk[h] # 0
      BY <3>1 DEF ReferencesInv, KeysAreReal
    <3>4. KeysAreReal'
      BY <3>1, <3>2 DEF ReferencesInv, KeysAreReal, TypeOK
    <3>5. ASSUME NEW g \in Gpus, gpu'[g] # NoGpu PROVE node'[gpu'[g].host] # 0
      <4>1. CASE g \in GpusOf(req[h])
        BY <3>1, <3>2, <3>3, <4>1 DEF TypeOK
      <4>2. CASE g \notin GpusOf(req[h])
        <5>1. gpu'[g] = gpu[g] /\ gpu[g].host \in Hosts
          BY <3>1, <3>5, <4>2 DEF TypeOK, GpuRows
        <5>. QED
          BY <3>1, <3>2, <3>3, <3>5, <5>1 DEF TypeOK, ReferencesInv, ReferencesHold
      <4>. QED  BY <4>1, <4>2
    <3>6. ASSUME NEW x \in Hosts, node'[x] # 0
          PROVE  \E c \in Clusters : cluster'[c] = node'[x]
      BY <3>1, <3>2, <3>6 DEF TypeOK, ReferencesInv, ReferencesHold
    <3>. QED  BY <3>4, <3>5, <3>6 DEF ReferencesInv, ReferencesHold
  <2>7. ASSUME NEW c \in Clusters, CreateCluster(c) PROVE ReferencesInv'
    <3>1. /\ cluster[c] = 0
          /\ cluster' = [cluster EXCEPT ![c] = made + 1]
          /\ UNCHANGED <<node, gpu, pc, pk>>
      BY <2>7 DEF CreateCluster, requests
    <3>2. ReferencesHold'
      BY <2>2, <3>1 DEF TypeOK
    <3>. QED  BY <3>1, <3>2 DEF ReferencesInv, KeysAreReal
  <2>8. ASSUME CommitDelete PROVE ReferencesInv'
    <3>1. /\ node' = [x \in Hosts |-> IF x \in doomed THEN 0 ELSE node[x]]
          /\ gpu' = [g \in Gpus |-> IF g \in taken THEN NoGpu ELSE gpu[g]]
          /\ cluster' = [c \in Clusters |-> IF cluster[c] = key THEN 0 ELSE cluster[c]]
          /\ NothingRefers
          /\ UNCHANGED <<pc, pk>>
      BY <2>8 DEF CommitDelete, EndDelete, requests
    <3>2. KeysAreReal'
      BY <3>1 DEF ReferencesInv, KeysAreReal
    <3>3. ASSUME NEW g \in Gpus, gpu'[g] # NoGpu PROVE node'[gpu'[g].host] # 0
      <4>1. gpu'[g] = gpu[g] /\ gpu[g] # NoGpu /\ gpu[g].host \notin doomed
        BY <3>1, <3>3 DEF NothingRefers, GpusOn
      <4>2. gpu[g].host \in Hosts
        BY <4>1 DEF TypeOK, GpuRows
      <4>. QED  BY <3>1, <4>1, <4>2 DEF ReferencesInv, ReferencesHold
    <3>4. ASSUME NEW x \in Hosts, node'[x] # 0
          PROVE  \E c \in Clusters : cluster'[c] = node'[x]
      <4>1. x \notin doomed /\ node'[x] = node[x] /\ node[x] # 0 /\ node[x] # key
        BY <3>1, <3>4 DEF NothingRefers
      <4>2. PICK c \in Clusters : cluster[c] = node[x]
        BY <4>1 DEF ReferencesInv, ReferencesHold
      <4>. QED  BY <3>1, <4>1, <4>2
    <3>. QED  BY <3>2, <3>3, <3>4 DEF ReferencesInv, ReferencesHold
  <2>9. CASE Deleting \/ UNCHANGED vars
    BY <2>9, DeletingIsQuiet, TablesKept DEF Quiet
  <2>. QED
    BY <2>1, <2>3, <2>4, <2>5, <2>6, <2>7, <2>8, <2>9, NextCases
<1>. QED  BY <1>1, <1>2, TypeCorrect, PTL DEF Spec

(* Every GPU row has its node and every node row its cluster, although the   *)
(* settings views delete clusters and nodes between two steps of an ingest.  *)
THEOREM ReferencesAlwaysHold == Spec => []ReferencesHold
<1>1. ReferencesInv => ReferencesHold
  BY DEF ReferencesInv
<1>. QED  BY <1>1, ReferencesStay, PTL
-----------------------------------------------------------------------------
(* The node lock lets one handler at a time write for a host.                *)
LEMMA WritersDiffer == Spec => []OneWriterPerHost
<1>1. Init => OneWriterPerHost
  BY DEF Init, OneWriterPerHost
<1>2. ASSUME TypeOK, OneWriterPerHost, [Next]_vars PROVE OneWriterPerHost'
  <2>. USE <1>2
  <2>1. ASSUME \A h \in Handlers : pc'[h] = "writing" => pc[h] = "writing" /\ req'[h] = req[h]
        PROVE  OneWriterPerHost'
    BY <2>1 DEF OneWriterPerHost
  <2>2. ASSUME NEW h \in Handlers, NEW r \in Reports, Receive(h, r) PROVE OneWriterPerHost'
    BY <2>1, <2>2 DEF Receive, TypeOK
  <2>3. ASSUME NEW h \in Handlers, ResolveCluster(h) \/ SaveGpu(h) PROVE OneWriterPerHost'
    BY <2>1, <2>3 DEF ResolveCluster, SaveGpu, TypeOK
  <2>4. ASSUME NEW h \in Handlers,
               NothingToStore(h) \/ NodeConflict(h) \/ GpuConflict(h) \/ Commit(h)
                 \/ CommitFails(h) \/ Abort(h)
        PROVE  OneWriterPerHost'
    BY <2>1, <2>4 DEF NothingToStore, NodeConflict, GpuConflict, Commit, CommitFails, Abort,
                      End, TypeOK
  <2>5. ASSUME NEW h \in Handlers, LockNode(h) PROVE OneWriterPerHost'
    BY <2>5, HandlersOwn DEF LockNode, NodeIsFree, Transactions, TypeOK, OneWriterPerHost
  <2>6. CASE UNCHANGED <<pc, req>>
    BY <2>1, <2>6
  <2>7. [Next]_vars => \/ UNCHANGED <<pc, req>>
                       \/ \E h \in Handlers, r \in Reports : Receive(h, r)
                       \/ \E h \in Handlers : \/ ResolveCluster(h) \/ NothingToStore(h)
                                              \/ LockNode(h) \/ NodeConflict(h)
                                              \/ SaveGpu(h) \/ GpuConflict(h)
                                              \/ Commit(h) \/ CommitFails(h) \/ Abort(h)
    BY NextCases, DeletingIsQuiet DEF Quiet, CreateCluster, CommitDelete, EndDelete, requests
  <2>. QED  BY <2>2, <2>3, <2>4, <2>5, <2>6, <2>7
<1>. QED  BY <1>1, <1>2, TypeCorrect, PTL DEF Spec

-----------------------------------------------------------------------------
(* A GPU row holds the position its GPU had in some report of its host.      *)
RowsAreReported ==
  \A g \in Gpus : gpu[g] # NoGpu =>
    \E p \in Reports : /\ p.host = gpu[g].host
                       /\ gpu[g].index \in DOMAIN p.gpus
                       /\ p.gpus[gpu[g].index] = g

LEMMA IndexFacts ==
  ASSUME NEW r \in Reports, NEW g \in GpusOf(r)
  PROVE  Index(r, g) \in DOMAIN r.gpus /\ r.gpus[Index(r, g)] = g
<1>1. \E i \in DOMAIN r.gpus : r.gpus[i] = g
  BY DEF GpusOf
<1>. QED  BY <1>1 DEF Index

LEMMA RowsStayReported == Spec => []RowsAreReported
<1>1. Init => RowsAreReported
  BY DEF Init, RowsAreReported
<1>2. ASSUME TypeOK, RowsAreReported, [Next]_vars PROVE RowsAreReported'
  <2>. USE <1>2
  <2>1. ASSUME \A g \in Gpus : gpu'[g] = gpu[g] \/ gpu'[g] = NoGpu PROVE RowsAreReported'
    BY <2>1 DEF RowsAreReported
  <2>2. ASSUME NEW h \in Handlers, Commit(h) PROVE RowsAreReported'
    <3>1. req[h] \in Reports
      BY <2>2 DEF Commit, TypeOK
    <3>2. gpu' = [g \in Gpus |->
            IF g \in GpusOf(req[h])
              THEN [host |-> req[h].host, index |-> Index(req[h], g), updated |-> now[h]]
              ELSE gpu[g]]
      BY <2>2 DEF Commit
    <3>. QED  BY <3>1, <3>2, IndexFacts DEF RowsAreReported
  <2>3. ASSUME CommitDelete PROVE RowsAreReported'
    BY <2>1, <2>3 DEF CommitDelete
  <2>4. CASE UNCHANGED gpu
    BY <2>1, <2>4
  <2>5. \/ UNCHANGED gpu
        \/ \E h \in Handlers : Commit(h)
        \/ CommitDelete
    BY NextCases, DeletingIsQuiet DEF Quiet, tables, Receive, ResolveCluster, NothingToStore,
       LockNode, NodeConflict, SaveGpu, GpuConflict, CommitFails, Abort, CreateCluster
  <2>. QED  BY <2>2, <2>3, <2>4, <2>5
<1>. QED  BY <1>1, <1>2, TypeCorrect, PTL DEF Spec

(* Nobody who owns a node waits for another ingest: the GPU it needs next,   *)
(* and a GPU in the way of its index, are touched under this node only.      *)
THEOREM WritersWaitForDeletes ==
  ASSUME OneHome
  PROVE  Spec => []WritersWaitForDeletesOnly
<1>1. ASSUME TypeOK, OneWriterPerHost, RowsAreReported PROVE WritersWaitForDeletesOnly
  <2>. SUFFICES ASSUME NEW h \in Handlers, NEW k \in Handlers, pc[h] = "writing", Waits(h, k)
                PROVE  FALSE
    BY DEF WritersWaitForDeletesOnly
  <2>1. /\ h # k
        /\ WantsNodes(h) = {}
        /\ \E g \in WantsGpus(h) : OwnsGpu(k, g)
    BY HandlersOwn DEF Waits, WantsNodes
  <2>2. PICK g \in WantsGpus(h) : OwnsGpu(k, g)
    BY <2>1
  <2>3. /\ g \in Gpus
        /\ ToSave(h)
        /\ g = req[h].gpus[next[h]] \/ g \in Rivals(h)
    BY <2>2, HandlersOwn DEF WantsGpus
  <2>4. pc[k] = "writing" /\ g \in Saved(k)
    BY <2>2, HandlersOwn
  <2>5. req[h] \in Reports /\ req[k] \in Reports
    BY <1>1, <2>4 DEF TypeOK
  <2>6. g \in GpusOf(req[k])
    <3>1. next[k] \in 1 .. Len(req[k].gpus) + 1
      BY <1>1, <2>4 DEF TypeOK
    <3>2. 1 .. next[k] - 1 \subseteq DOMAIN req[k].gpus
      BY <2>5, <3>1, ReportFacts
    <3>. QED  BY <2>4, <3>2 DEF Saved, GpusOf
  <2>7. \E p \in Reports : p.host = req[h].host /\ g \in GpusOf(p)
    <3>1. CASE g = req[h].gpus[next[h]]
      BY <2>3, <2>5, <3>1 DEF ToSave, GpusOf
    <3>2. CASE g \in Rivals(h)
      <4>1. gpu[g] # NoGpu /\ gpu[g].host = req[h].host
        BY <3>2 DEF Rivals
      <4>. QED  BY <1>1, <2>3, <4>1 DEF RowsAreReported, GpusOf
    <3>. QED  BY <2>3, <3>1, <3>2
  <2>8. req[h].host = req[k].host
    BY <2>5, <2>6, <2>7 DEF OneHome
  <2>. QED  BY <1>1, <2>1, <2>4, <2>8 DEF OneWriterPerHost
<1>. QED  BY <1>1, TypeCorrect, WritersDiffer, RowsStayReported, PTL

(* However many ingests run, they never deadlock among themselves: a circle  *)
(* of transactions that wait for each other has a delete in it.              *)
THEOREM DeadlocksNeedADelete ==
  ASSUME OneHome
  PROVE  Spec => [](\A ts \in SUBSET Transactions : Circle(ts) => Admin \in ts)
<1>1. ASSUME WritersWaitForDeletesOnly, NEW ts \in SUBSET Transactions, Circle(ts)
      PROVE  Admin \in ts
  <2>. SUFFICES ASSUME Admin \notin ts PROVE FALSE
    OBVIOUS
  <2>1. ts \subseteq Handlers
    BY DEF Transactions
  <2>2. PICK t \in ts : TRUE
    BY <1>1 DEF Circle
  <2>3. PICK u \in ts : Waits(t, u)
    BY <1>1, <2>2 DEF Circle
  <2>4. pc[u] = "writing"
    BY <2>1, <2>3, HandlersOwn DEF Waits
  <2>5. PICK v \in ts : Waits(u, v)
    BY <1>1, <2>3 DEF Circle
  <2>. QED  BY <1>1, <2>1, <2>4, <2>5 DEF WritersWaitForDeletesOnly
<1>2. WritersWaitForDeletesOnly => \A ts \in SUBSET Transactions : Circle(ts) => Admin \in ts
  BY <1>1
<1>. QED  BY <1>2, WritersWaitForDeletes, PTL

(* GPUs that keep their index are upserted without a conflict, for any       *)
(* number of hosts and handlers: an index that passes from one GPU to        *)
(* another is the only cause of one.                                         *)
THEOREM UpsertsHold ==
  ASSUME StableIndexes
  PROVE  Spec => []GpuUpserts
<1>1. Init => GpuUpserts
  BY DEF Init, GpuUpserts
<1>2. ASSUME TypeOK, RowsAreReported, GpuUpserts, [Next]_vars PROVE GpuUpserts'
  <2>. USE <1>2
  <2>1. ASSUME NEW h \in Handlers, GpuConflict(h) PROVE FALSE
    <3>1. req[h] \in Reports /\ next[h] \in DOMAIN req[h].gpus /\ Rivals(h) # {}
      BY <2>1 DEF GpuConflict, TypeOK, ToSave
    <3>2. PICK g \in Gpus : /\ g # req[h].gpus[next[h]] /\ gpu[g] # NoGpu
                            /\ gpu[g].host = req[h].host /\ gpu[g].index = next[h]
      BY <3>1 DEF Rivals
    <3>3. PICK p \in Reports : /\ p.host = req[h].host /\ next[h] \in DOMAIN p.gpus
                               /\ p.gpus[next[h]] = g
      BY <3>2 DEF RowsAreReported
    <3>. QED  BY <3>1, <3>2, <3>3 DEF StableIndexes
  <2>2. ASSUME NEW h \in Handlers, NEW how \in Answers \ {"gpuConflict"}, End(h, how)
        PROVE  GpuUpserts'
    BY <2>2 DEF End, GpuUpserts, TypeOK
  <2>3. ASSUME NEW h \in Handlers,
               NothingToStore(h) \/ NodeConflict(h) \/ Commit(h) \/ CommitFails(h) \/ Abort(h)
        PROVE  GpuUpserts'
    <3>1. \E how \in Answers \ {"gpuConflict"} : End(h, how)
      BY <2>3 DEF NothingToStore, NodeConflict, Commit, CommitFails, Abort, Answers
    <3>. QED  BY <2>2, <3>1
  <2>4. CASE UNCHANGED answer
    BY <2>4 DEF GpuUpserts
  <2>5. [Next]_vars => \/ UNCHANGED answer
                       \/ \E h \in Handlers : \/ NothingToStore(h) \/ NodeConflict(h)
                                              \/ GpuConflict(h) \/ Commit(h)
                                              \/ CommitFails(h) \/ Abort(h)
    BY NextCases, DeletingIsQuiet DEF Quiet, Receive, ResolveCluster, LockNode, SaveGpu,
       CreateCluster, CommitDelete, EndDelete, requests
  <2>. QED  BY <2>1, <2>3, <2>4, <2>5
<1>. QED  BY <1>1, <1>2, TypeCorrect, RowsStayReported, PTL DEF Spec

-----------------------------------------------------------------------------
(* The refinement of Inventory.  No key is ever given twice, so the key a    *)
(* handler has resolved stands for the cluster of its report or for none.    *)
KeysInv ==
  /\ \A c \in Clusters : cluster[c] <= made
  /\ \A c, d \in Clusters : cluster[c] # 0 /\ cluster[c] = cluster[d] => c = d
  /\ \A h \in Handlers : pc[h] \in {"resolved", "writing"} =>
       pk[h] <= made /\ \A c \in Clusters : cluster[c] = pk[h] => c = req[h].cluster

LEMMA NewKey ==
  ASSUME TypeOK, KeysInv, ReferencesInv, NEW c \in Clusters, cluster[c] = 0, made' = made + 1,
         cluster' = [cluster EXCEPT ![c] = made + 1]
  PROVE  /\ cluster'[c] = made' /\ made' \in Nat /\ made' # 0 /\ made < made'
         /\ \A d \in Clusters \ {c} : cluster'[d] = cluster[d]
         /\ \A d \in Clusters : cluster'[d] <= made'
         /\ \A d, e \in Clusters : cluster'[d] # 0 /\ cluster'[d] = cluster'[e] => d = e
         /\ \A h \in Handlers : pc[h] \in {"resolved", "writing"} =>
              pk[h] <= made' /\ \A d \in Clusters : cluster'[d] = pk[h] => d = req[h].cluster
<1>1. /\ made \in Nat /\ \A d \in Clusters : cluster[d] \in Nat /\ cluster[d] <= made
      /\ \A h \in Handlers : pk[h] \in Nat
  BY DEF TypeOK, KeysInv
<1>2. /\ cluster'[c] = made + 1
      /\ \A d \in Clusters \ {c} : cluster'[d] = cluster[d]
  BY DEF TypeOK
<1>3. \A d \in Clusters : cluster'[d] <= made'
  BY <1>1, <1>2
<1>4. \A d, e \in Clusters : cluster'[d] # 0 /\ cluster'[d] = cluster'[e] => d = e
  BY <1>1, <1>2 DEF KeysInv
<1>5. ASSUME NEW h \in Handlers, pc[h] \in {"resolved", "writing"}
      PROVE  pk[h] <= made' /\ \A d \in Clusters : cluster'[d] = pk[h] => d = req[h].cluster
  BY <1>1, <1>2, <1>5 DEF KeysInv
<1>. QED  BY <1>1, <1>2, <1>3, <1>4, <1>5

LEMMA KeysHold == Spec => []KeysInv
<1>1. Init => KeysInv
  BY DEF Init, KeysInv
<1>2. ASSUME TypeOK, ReferencesInv, KeysInv, [Next]_vars PROVE KeysInv'
  <2>. USE <1>2
  <2>1. ASSUME UNCHANGED <<cluster, made>>,
               \A h \in Handlers : pc'[h] \in {"resolved", "writing"} =>
                 /\ pc[h] \in {"resolved", "writing"}
                 /\ pk'[h] = pk[h] /\ req'[h] = req[h]
        PROVE  KeysInv'
    BY <2>1 DEF KeysInv
  <2>2. ASSUME NEW h \in Handlers, NEW r \in Reports, Receive(h, r) PROVE KeysInv'
    BY <2>1, <2>2 DEF Receive, TypeOK, tables
  <2>3. ASSUME NEW h \in Handlers, ResolveCluster(h) PROVE KeysInv'
    <3>1. PICK c \in Clusters : c = req[h].cluster
      BY <2>3, ReportFacts DEF ResolveCluster, TypeOK
    <3>2. /\ pk'[h] = cluster'[c] /\ UNCHANGED req
          /\ \A k \in Handlers \ {h} : pk'[k] = pk[k] /\ pc'[k] = pc[k]
      BY <2>3, <3>1 DEF ResolveCluster, TypeOK
    <3>3. CASE cluster[c] = 0
      <4>1. made' = made + 1 /\ cluster' = [cluster EXCEPT ![c] = made + 1]
        BY <2>3, <3>1, <3>3 DEF ResolveCluster
      <4>2. /\ cluster'[c] = made' /\ made' \in Nat /\ made' # 0
            /\ \A d \in Clusters : cluster'[d] <= made'
            /\ \A d, e \in Clusters : cluster'[d] # 0 /\ cluster'[d] = cluster'[e] => d = e
            /\ \A k \in Handlers : pc[k] \in {"resolved", "writing"} =>
                 pk[k] <= made' /\ \A d \in Clusters : cluster'[d] = pk[k] => d = req[k].cluster
        BY <3>3, <4>1, NewKey
      <4>. QED  BY <3>1, <3>2, <4>2 DEF KeysInv
    <3>4. CASE cluster[c] # 0
      <4>1. made' = made /\ cluster' = cluster
        BY <2>3, <3>1, <3>4 DEF ResolveCluster
      <4>. QED  BY <3>1, <3>2, <3>4, <4>1 DEF KeysInv
    <3>. QED  BY <3>3, <3>4
  <2>4. ASSUME NEW h \in Handlers,
               NothingToStore(h) \/ NodeConflict(h) \/ GpuConflict(h) \/ Commit(h)
                 \/ CommitFails(h) \/ Abort(h)
        PROVE  KeysInv'
    <3>1. End(h, answer'[h]) /\ UNCHANGED cluster
      BY <2>4 DEF NothingToStore, NodeConflict, GpuConflict, Commit, CommitFails, Abort, End,
                  TypeOK
    <3>. QED  BY <2>1, <3>1 DEF End, TypeOK
  <2>5. ASSUME NEW h \in Handlers, LockNode(h) \/ SaveGpu(h) PROVE KeysInv'
    BY <2>1, <2>5 DEF LockNode, SaveGpu, TypeOK, tables
  <2>6. ASSUME NEW c \in Clusters, CreateCluster(c) PROVE KeysInv'
    <3>1. /\ cluster[c] = 0 /\ made' = made + 1 /\ cluster' = [cluster EXCEPT ![c] = made + 1]
          /\ UNCHANGED <<pc, pk, req>>
      BY <2>6 DEF CreateCluster, requests
    <3>2. /\ \A d \in Clusters : cluster'[d] <= made'
          /\ \A d, e \in Clusters : cluster'[d] # 0 /\ cluster'[d] = cluster'[e] => d = e
          /\ \A k \in Handlers : pc[k] \in {"resolved", "writing"} =>
               pk[k] <= made' /\ \A d \in Clusters : cluster'[d] = pk[k] => d = req[k].cluster
      BY <3>1, NewKey
    <3>. QED  BY <3>1, <3>2 DEF KeysInv
  <2>7. ASSUME CommitDelete PROVE KeysInv'
    <3>1. /\ cluster' = [c \in Clusters |-> IF cluster[c] = key THEN 0 ELSE cluster[c]]
          /\ UNCHANGED <<made, pc, pk, req>>
      BY <2>7 DEF CommitDelete, EndDelete, requests
    <3>2. \A h \in Handlers : pc[h] \in {"resolved", "writing"} => pk[h] # 0
      BY DEF ReferencesInv, KeysAreReal
    <3>. QED  BY <3>1, <3>2 DEF KeysInv, TypeOK
  <2>8. CASE Deleting \/ UNCHANGED vars
    BY <2>1, <2>8, DeletingIsQuiet DEF Quiet
  <2>. QED  BY <2>2, <2>3, <2>4, <2>5, <2>6, <2>7, <2>8, NextCases
<1>. QED  BY <1>1, <1>2, TypeCorrect, ReferencesStay, PTL DEF Spec

(* Who writes has something to write, for the cluster its node is in; no     *)
(* other GPU of the node has an index it is past; and its instant is its own.*)
Writing(h) ==
  /\ req[h].gpus # <<>>
  /\ node[req[h].host] # 0 => node[req[h].host] = pk[h]
  /\ \A g \in Gpus \ GpusOf(req[h]) :
       gpu[g] # NoGpu /\ gpu[g].host = req[h].host => gpu[g].index \notin 1 .. next[h] - 1
  /\ now[h] <= clock /\ \A m \in metrics : m.time # now[h]
  /\ \A k \in Handlers \ {h} : pc[k] = "writing" => now[k] # now[h]

WritingInv ==
  /\ SamplesArePast
  /\ \A h \in Handlers : pc[h] = "writing" => Writing(h)

(* Steps of others that take rows away, or none.                             *)
LEMMA WritingGoesOn ==
  ASSUME TypeOK, WritingInv, clock' \in Nat, clock <= clock', UNCHANGED metrics,
         \A x \in Hosts : node'[x] = node[x] \/ node'[x] = 0,
         \A g \in Gpus : gpu'[g] = gpu[g] \/ gpu'[g] = NoGpu,
         \A h \in Handlers : pc'[h] = "writing" =>
           /\ pc[h] = "writing" /\ req'[h] = req[h] /\ now'[h] = now[h]
           /\ pk'[h] = pk[h] /\ next'[h] = next[h]
  PROVE  WritingInv'
<1>1. SamplesArePast'
  BY DEF WritingInv, SamplesArePast, TypeOK, Samples
<1>2. ASSUME NEW h \in Handlers, pc'[h] = "writing" PROVE Writing(h)'
  <2>1. /\ pc[h] = "writing" /\ req'[h] = req[h] /\ now'[h] = now[h]
        /\ pk'[h] = pk[h] /\ next'[h] = next[h] /\ Writing(h)
    BY <1>2 DEF WritingInv
  <2>2. req[h].host \in Hosts
    BY <2>1, ReportFacts DEF TypeOK
  <2>3. now[h] <= clock' /\ now[h] \in Nat
    BY <2>1 DEF Writing, TypeOK
  <2>. QED  BY <2>1, <2>2, <2>3 DEF Writing, GpusOf
<1>. QED  BY <1>1, <1>2 DEF WritingInv

LEMMA WritingHolds == Spec => []WritingInv
<1>1. Init => WritingInv
  BY DEF Init, WritingInv, SamplesArePast
<1>2. ASSUME TypeOK, OneWriterPerHost, WritingInv, [Next]_vars PROVE WritingInv'
  <2>. USE <1>2
  <2>1. ASSUME NEW h \in Handlers, NEW r \in Reports, Receive(h, r) PROVE WritingInv'
    BY <2>1, WritingGoesOn DEF Receive, TypeOK, tables
  <2>2. ASSUME NEW h \in Handlers, ResolveCluster(h) PROVE WritingInv'
    BY <2>2, WritingGoesOn DEF ResolveCluster, TypeOK
  <2>3. ASSUME NEW h \in Handlers,
               NothingToStore(h) \/ NodeConflict(h) \/ GpuConflict(h) \/ CommitFails(h)
                 \/ Abort(h)
        PROVE  WritingInv'
    <3>1. End(h, answer'[h]) /\ UNCHANGED <<node, gpu, metrics, clock>>
      BY <2>3 DEF NothingToStore, NodeConflict, GpuConflict, CommitFails, Abort, End, TypeOK
    <3>. QED  BY <3>1, WritingGoesOn DEF End, TypeOK
  <2>4. ASSUME NEW h \in Handlers, LockNode(h) PROVE WritingInv'
    <3>1. /\ req[h] \in Reports /\ req[h].gpus # <<>> /\ NodeMatches(h)
          /\ clock' = clock + 1 /\ clock \in Nat
          /\ now'[h] = clock + 1 /\ next'[h] = 1 /\ pc'[h] = "writing"
          /\ UNCHANGED <<node, gpu, metrics, req, pk>>
          /\ \A k \in Handlers \ {h} : pc'[k] = pc[k] /\ now'[k] = now[k] /\ next'[k] = next[k]
      BY <2>4 DEF LockNode, TypeOK, tables
    <3>2. \A m \in metrics : m.time \in Nat /\ m.time <= clock
      BY DEF WritingInv, SamplesArePast, TypeOK, Samples
    <3>3. \A k \in Handlers : pc[k] = "writing" => now[k] \in Nat /\ now[k] <= clock
      BY DEF WritingInv, Writing, TypeOK
    <3>4. SamplesArePast'
      BY <3>1, <3>2 DEF SamplesArePast
    <3>5. Writing(h)'
      BY <3>1, <3>2, <3>3 DEF Writing, NodeMatches, GpusOf
    <3>6. ASSUME NEW k \in Handlers \ {h}, pc[k] = "writing" PROVE Writing(k)'
      BY <3>1, <3>3, <3>6 DEF WritingInv, Writing, GpusOf
    <3>. QED  BY <3>1, <3>4, <3>5, <3>6 DEF WritingInv
  <2>5. ASSUME NEW h \in Handlers, SaveGpu(h) PROVE WritingInv'
    <3>1. /\ req[h] \in Reports /\ pc[h] = "writing" /\ ToSave(h) /\ Rivals(h) = {}
          /\ next'[h] = next[h] + 1 /\ next[h] \in Nat
          /\ UNCHANGED <<node, gpu, metrics, clock, pc, req, pk, now>>
          /\ \A k \in Handlers \ {h} : next'[k] = next[k]
      BY <2>5 DEF SaveGpu, TypeOK, tables
    <3>2. req[h].gpus[next[h]] \in GpusOf(req[h]) /\ Saved(h) \subseteq GpusOf(req[h])
      <4>1. 1 .. next[h] - 1 \subseteq DOMAIN req[h].gpus
        BY <3>1, ReportFacts DEF ToSave
      <4>. QED  BY <3>1, <4>1 DEF ToSave, Saved, GpusOf
    <3>3. ASSUME NEW g \in Gpus \ GpusOf(req[h]), gpu[g] # NoGpu, gpu[g].host = req[h].host
          PROVE  gpu[g].index \notin 1 .. next'[h] - 1
      <4>1. gpu[g].index \notin 1 .. next[h] - 1
        BY <3>1, <3>3 DEF WritingInv, Writing
      <4>2. gpu[g].index # next[h]
        BY <3>1, <3>2, <3>3 DEF Rivals
      <4>3. gpu[g].index \in Nat
        BY <3>3 DEF TypeOK, GpuRows
      <4>. QED  BY <3>1, <4>1, <4>2, <4>3
    <3>4. Writing(h)'
      BY <3>1, <3>3 DEF WritingInv, Writing, GpusOf
    <3>5. ASSUME NEW k \in Handlers \ {h}, pc[k] = "writing" PROVE Writing(k)'
      BY <3>1, <3>5 DEF WritingInv, Writing, GpusOf
    <3>6. SamplesArePast'
      BY <3>1 DEF WritingInv, SamplesArePast
    <3>. QED  BY <3>1, <3>4, <3>5, <3>6 DEF WritingInv
  <2>6. ASSUME NEW h \in Handlers, Commit(h) PROVE WritingInv'
    <3>1. /\ req[h] \in Reports /\ pc[h] = "writing" /\ UNCHANGED clock
          /\ pc' = [pc EXCEPT ![h] = "idle"]
          /\ \A k \in Handlers \ {h} : /\ req'[k] = req[k] /\ now'[k] = now[k]
                                       /\ pk'[k] = pk[k] /\ next'[k] = next[k]
      BY <2>6 DEF Commit, End, TypeOK
    <3>2. /\ metrics' = metrics \cup {[gpu |-> g, time |-> now[h]] : g \in GpusOf(req[h])}
          /\ node' = [node EXCEPT ![req[h].host] = pk[h]]
          /\ gpu' = [g \in Gpus |->
               IF g \in GpusOf(req[h])
                 THEN [host |-> req[h].host, index |-> Index(req[h], g), updated |-> now[h]]
                 ELSE gpu[g]]
      BY <2>6 DEF Commit
    <3>3. Writing(h)
      BY <3>1 DEF WritingInv
    <3>4. SamplesArePast'
      BY <3>1, <3>2, <3>3 DEF WritingInv, Writing, SamplesArePast
    <3>5. ASSUME NEW k \in Handlers, pc'[k] = "writing" PROVE Writing(k)'
      <4>1. k # h /\ pc[k] = "writing" /\ req'[k] = req[k] /\ req[k] \in Reports /\ Writing(k)
        BY <3>1, <3>5 DEF TypeOK, WritingInv
      <4>2. req[k].host # req[h].host
        BY <3>1, <4>1 DEF OneWriterPerHost
      <4>3. node'[req[k].host] = node[req[k].host]
        BY <3>2, <4>1, <4>2, ReportFacts DEF TypeOK
      <4>4. \A g \in Gpus : gpu'[g] = gpu[g] \/ gpu'[g].host # req[k].host
        BY <3>2, <4>2
      <4>5. now[k] # now[h]
        BY <3>1, <4>1 DEF Writing
      <4>6. \A m \in metrics' : m.time # now[k]
        BY <3>2, <4>1, <4>5 DEF Writing
      <4>7. \A j \in Handlers \ {k} : pc'[j] = "writing" => now'[j] # now[k]
        BY <3>1, <4>1 DEF Writing, TypeOK
      <4>8. next'[k] = next[k] /\ now'[k] = now[k] /\ pk'[k] = pk[k] /\ UNCHANGED clock
        BY <3>1, <4>1
      <4>9. \A g \in Gpus \ GpusOf(req[k]) :
              gpu'[g] # NoGpu /\ gpu'[g].host = req[k].host => gpu'[g].index \notin 1 .. next[k] - 1
        BY <4>1, <4>4 DEF Writing
      <4>. QED  BY <4>1, <4>3, <4>6, <4>7, <4>8, <4>9 DEF Writing, GpusOf
    <3>. QED  BY <3>4, <3>5 DEF WritingInv
  <2>7. ASSUME NEW c \in Clusters, CreateCluster(c) PROVE WritingInv'
    BY <2>7, WritingGoesOn DEF CreateCluster, requests, TypeOK
  <2>8. ASSUME CommitDelete PROVE WritingInv'
    BY <2>8, WritingGoesOn DEF CommitDelete, EndDelete, requests, TypeOK
  <2>9. CASE Deleting \/ UNCHANGED vars
    BY <2>9, DeletingIsQuiet, WritingGoesOn DEF Quiet, TypeOK
  <2>. QED
    BY <2>1, <2>2, <2>3, <2>4, <2>5, <2>6, <2>7, <2>8, <2>9, NextCases
<1>. QED  BY <1>1, <1>2, TypeCorrect, WritersDiffer, PTL DEF Spec

-----------------------------------------------------------------------------
(* A delete is after one node, or after a cluster that is there and some of  *)
(* its nodes; the GPUs it has taken are on these nodes, and no ingest has    *)
(* touched them.                                                             *)
DeletionInv ==
  /\ stage # "none" /\ key = 0 => \E x \in Hosts : doomed = {x}
  /\ key # 0 => /\ \E c \in Clusters : cluster[c] = key
                /\ \A x \in doomed : node[x] = key
  /\ taken \subseteq GpusOn(doomed)
  /\ \A h \in Handlers, g \in taken : ~(pc[h] = "writing" /\ g \in Saved(h))

(* Steps that leave the delete, its nodes and its GPUs alone.                *)
LEMMA DeletionGoesOn ==
  ASSUME TypeOK, DeletionInv, UNCHANGED <<stage, key, doomed, todo, taken>>,
         \A c \in Clusters : cluster[c] # 0 => cluster'[c] = cluster[c],
         \A x \in doomed : node'[x] = node[x] \/ node'[x] = key,
         \A g \in taken : gpu'[g] = gpu[g],
         \A h \in Handlers : pc'[h] = "writing" =>
           \A g \in Saved(h)' : g \notin taken \/ (pc[h] = "writing" /\ g \in Saved(h))
  PROVE  DeletionInv'
BY DEF DeletionInv, TypeOK, GpusOn

LEMMA DeletionHolds == Spec => []DeletionInv
<1>1. Init => DeletionInv
  BY DEF Init, DeletionInv
<1>2. ASSUME TypeOK, KeysAreReal, WritingInv, DeletionInv, [Next]_vars PROVE DeletionInv'
  <2>. USE <1>2
  <2>1. ASSUME UNCHANGED <<cluster, node, gpu, stage, key, doomed, todo, taken>>,
               \A h \in Handlers : pc'[h] = "writing" =>
                 pc[h] = "writing" /\ req'[h] = req[h] /\ next'[h] = next[h]
        PROVE  DeletionInv'
    BY <2>1, DeletionGoesOn DEF Saved
  <2>2. ASSUME NEW h \in Handlers, NEW r \in Reports, Receive(h, r) PROVE DeletionInv'
    BY <2>1, <2>2 DEF Receive, TypeOK, tables, deletion
  <2>3. ASSUME NEW h \in Handlers,
               NothingToStore(h) \/ NodeConflict(h) \/ GpuConflict(h) \/ CommitFails(h)
                 \/ Abort(h)
        PROVE  DeletionInv'
    BY <2>1, <2>3 DEF NothingToStore, NodeConflict, GpuConflict, CommitFails, Abort, End,
                      TypeOK, deletion
  <2>4. ASSUME NEW h \in Handlers, ResolveCluster(h) PROVE DeletionInv'
    <3>1. \A c \in Clusters : cluster[c] # 0 => cluster'[c] = cluster[c]
      BY <2>4 DEF ResolveCluster, TypeOK
    <3>2. \A k \in Handlers : pc'[k] = "writing" =>
             pc[k] = "writing" /\ UNCHANGED <<req, next>>
      BY <2>4 DEF ResolveCluster, TypeOK
    <3>. QED
      BY <2>4, <3>1, <3>2, DeletionGoesOn DEF ResolveCluster, deletion, Saved
  <2>5. ASSUME NEW h \in Handlers, LockNode(h) PROVE DeletionInv'
    <3>1. /\ pc' = [pc EXCEPT ![h] = "writing"] /\ next' = [next EXCEPT ![h] = 1]
          /\ UNCHANGED <<cluster, node, gpu, req, stage, key, doomed, todo, taken>>
      BY <2>5 DEF LockNode, tables, deletion
    <3>2. Saved(h)' = {}
      BY <3>1 DEF TypeOK, Saved
    <3>3. \A k \in Handlers \ {h} : pc'[k] = pc[k] /\ Saved(k)' = Saved(k)
      BY <3>1 DEF TypeOK, Saved
    <3>. QED  BY <3>1, <3>2, <3>3, DeletionGoesOn
  <2>6. ASSUME NEW h \in Handlers, SaveGpu(h) PROVE DeletionInv'
    <3>1. /\ pc[h] = "writing" /\ ToSave(h) /\ req[h] \in Reports
          /\ next' = [next EXCEPT ![h] = @ + 1]
          /\ UNCHANGED <<cluster, node, gpu, pc, req, stage, key, doomed, todo, taken>>
      BY <2>6 DEF SaveGpu, tables, deletion, TypeOK
    <3>. DEFINE g == req[h].gpus[next[h]]
    <3>2. g \in Gpus /\ g \in WantsGpus(h)
      BY <3>1, ReportFacts, HandlersOwn DEF ToSave, WantsGpus
    <3>3. g \notin taken
      BY <2>6, <3>2, HandlersOwn DEF SaveGpu, GpuIsFree, Transactions, OwnsGpu
    <3>4. Saved(h)' \subseteq Saved(h) \cup {g}
      <4>1. next[h] \in Nat /\ next'[h] = next[h] + 1
        BY <3>1 DEF TypeOK
      <4>2. 1 .. next'[h] - 1 = (1 .. next[h] - 1) \cup {next[h]} \/ next[h] = 0
        BY <4>1
      <4>3. next[h] # 0
        BY <3>1, ReportFacts DEF ToSave
      <4>. QED  BY <3>1, <4>2, <4>3 DEF Saved
    <3>5. \A k \in Handlers \ {h} : Saved(k)' = Saved(k)
      BY <3>1 DEF TypeOK, Saved
    <3>6. \A k \in Handlers : pc'[k] = "writing" =>
            \A i \in Saved(k)' : i \notin taken \/ (pc[k] = "writing" /\ i \in Saved(k))
      BY <3>1, <3>3, <3>4, <3>5
    <3>. QED  BY <3>1, <3>6, DeletionGoesOn
  <2>7. ASSUME NEW h \in Handlers, Commit(h) PROVE DeletionInv'
    <3>1. /\ pc[h] = "writing" /\ ~ToSave(h) /\ req[h] \in Reports /\ pk[h] # 0
          /\ node' = [node EXCEPT ![req[h].host] = pk[h]]
          /\ \A g \in Gpus \ GpusOf(req[h]) : gpu'[g] = gpu[g]
          /\ pc' = [pc EXCEPT ![h] = "idle"]
          /\ \A k \in Handlers \ {h} : req'[k] = req[k] /\ next'[k] = next[k]
          /\ UNCHANGED <<cluster, stage, key, doomed, todo, taken>>
      BY <2>7 DEF Commit, End, TypeOK, KeysAreReal, deletion
    <3>2. GpusOf(req[h]) = Saved(h)
      <4>1. next[h] \in 1 .. Len(req[h].gpus) + 1 /\ Len(req[h].gpus) \in Nat
        BY <3>1, ReportFacts DEF TypeOK
      <4>2. DOMAIN req[h].gpus = 1 .. next[h] - 1
        BY <3>1, <4>1, ReportFacts DEF ToSave
      <4>. QED  BY <4>2 DEF GpusOf, Saved
    <3>3. \A g \in taken : gpu'[g] = gpu[g]
      BY <3>1, <3>2 DEF DeletionInv, TypeOK
    <3>4. \A x \in doomed : node'[x] = node[x] \/ node'[x] = key \/ key = 0
      BY <3>1 DEF DeletionInv, WritingInv, Writing, TypeOK
    <3>5. \A k \in Handlers : pc'[k] = "writing" =>
            pc[k] = "writing" /\ Saved(k)' = Saved(k)
      BY <3>1 DEF Saved, TypeOK
    <3>. QED  BY <3>1, <3>3, <3>4, <3>5 DEF DeletionInv, GpusOn, TypeOK
  <2>8. ASSUME NEW c \in Clusters, CreateCluster(c) PROVE DeletionInv'
    <3>1. \A d \in Clusters : cluster[d] # 0 => cluster'[d] = cluster[d]
      BY <2>8 DEF CreateCluster, TypeOK
    <3>. QED
      BY <2>8, <3>1, DeletionGoesOn DEF CreateCluster, requests, deletion, Saved
  <2>9. ASSUME EndDelete PROVE DeletionInv'
    BY <2>9 DEF EndDelete, DeletionInv
  <2>10. ASSUME Deleting PROVE DeletionInv'
    <3>1. UNCHANGED <<cluster, node, gpu, pc, req, next>>
      BY <2>10, DeletingIsQuiet DEF Quiet
    <3>2. CASE DeleteFails \/ AbortDelete
      BY <2>9, <3>2 DEF DeleteFails, AbortDelete
    <3>3. ASSUME NEW c \in Clusters, CollectCluster(c) PROVE DeletionInv'
      BY <3>1, <3>3 DEF CollectCluster, Collect, DeletionInv, TypeOK
    <3>4. ASSUME NEW x \in Hosts, CollectNode(x) PROVE DeletionInv'
      BY <3>1, <3>4 DEF CollectNode, Collect, DeletionInv, TypeOK
    <3>5. ASSUME UNCHANGED <<key, doomed>>, stage # "none",
                 taken' \subseteq GpusOn(doomed),
                 \A h \in Handlers, g \in taken' : ~(pc[h] = "writing" /\ g \in Saved(h))
          PROVE  DeletionInv'
      BY <3>1, <3>5 DEF DeletionInv, GpusOn, Saved
    <3>6. CASE DeleteGpus \/ DeleteNodeRows
      BY <3>5, <3>6 DEF DeleteGpus, DeleteNodeRows, DeletionInv
    <3>7. ASSUME NEW g \in Gpus, TakeGpu(g) PROVE DeletionInv'
      <4>1. stage = "gpus" /\ UNCHANGED <<key, doomed>>
            /\ taken' = taken \cup ({g} \cap GpusOn(doomed))
        BY <3>7 DEF TakeGpu, WantsGpus
      <4>2. \A h \in Handlers : ~(pc[h] = "writing" /\ g \in Saved(h))
        BY <3>7, HandlersOwn DEF TakeGpu, GpuIsFree, Transactions
      <4>. QED  BY <3>5, <4>1, <4>2 DEF DeletionInv
    <3>8. ASSUME NEW x \in Hosts, TakeNode(x) PROVE DeletionInv'
      BY <3>5, <3>8 DEF TakeNode, WantsNodes, DeletionInv
    <3>. QED  BY <2>10, <3>2, <3>3, <3>4, <3>6, <3>7, <3>8 DEF Deleting
  <2>11. CASE UNCHANGED vars
    BY <2>1, <2>11 DEF vars
  <2>. QED
    BY <2>2, <2>3, <2>4, <2>5, <2>6, <2>7, <2>8, <2>9, <2>10, <2>11, NextCases
    DEF CommitDelete
<1>3. ReferencesInv => KeysAreReal
  BY DEF ReferencesInv
<1>. QED  BY <1>1, <1>2, <1>3, TypeCorrect, ReferencesStay, WritingHolds, PTL DEF Spec

-----------------------------------------------------------------------------
(* The four variables of Inventory, and its steps.                           *)
Existing == {c \in Clusters : cluster[c] # 0}
Home == [x \in Hosts |-> {c \in Clusters : node[x] # 0 /\ cluster[c] = node[x]}]
Inventory == <<Existing, Home, gpu, metrics>>

InventoryInv == TypeOK /\ ReferencesInv /\ KeysInv /\ WritingInv /\ DeletionInv

LEMMA KeyAddsCluster ==
  ASSUME InventoryInv, NEW c \in Clusters, cluster[c] = 0, made' = made + 1,
         cluster' = [cluster EXCEPT ![c] = made + 1], UNCHANGED <<node, gpu, metrics>>
  PROVE  Shown!AddCluster(c)
<1>1. /\ cluster'[c] # 0 /\ cluster'[c] > made /\ made \in Nat
      /\ \A d \in Clusters \ {c} : cluster'[d] = cluster[d]
  BY NewKey DEF InventoryInv, TypeOK
<1>2. Existing' = Existing \cup {c}
  BY <1>1 DEF Existing
<1>3. ASSUME NEW x \in Hosts, node[x] # 0
      PROVE  \A d \in Clusters : cluster'[d] = node[x] <=> cluster[d] = node[x]
  <2>1. PICK d \in Clusters : cluster[d] = node[x]
    BY <1>3 DEF InventoryInv, ReferencesInv, ReferencesHold
  <2>2. node[x] <= made /\ node[x] \in Nat
    BY <1>3, <2>1 DEF InventoryInv, KeysInv, TypeOK
  <2>3. cluster'[c] # node[x] /\ cluster[c] # node[x]
    BY <1>1, <1>3, <2>2 DEF InventoryInv, TypeOK
  <2>. QED  BY <1>1, <2>3
<1>4. Home' = Home
  BY <1>3 DEF Home
<1>. QED  BY <1>2, <1>4 DEF Shown!AddCluster, Existing, Home

(* A delete that commits drops the node it is after, or the cluster with all *)
(* nodes it then has.                                                        *)
LEMMA DeleteDrops ==
  ASSUME InventoryInv, CommitDelete
  PROVE  Shown!Next
<1>1. /\ node' = [x \in Hosts |-> IF x \in doomed THEN 0 ELSE node[x]]
      /\ gpu' = [g \in Gpus |-> IF g \in taken THEN NoGpu ELSE gpu[g]]
      /\ cluster' = [c \in Clusters |-> IF cluster[c] = key THEN 0 ELSE cluster[c]]
      /\ stage = "nodes" /\ doomed \subseteq Hosts /\ UNCHANGED metrics
      /\ NothingRefers /\ DeletionInv
  BY DEF CommitDelete, EndDelete, InventoryInv, TypeOK
<1>2. taken = GpusOn(doomed)
  BY <1>1 DEF NothingRefers, DeletionInv
<1>3. gpu' = [g \in Gpus |-> IF gpu[g] # NoGpu /\ gpu[g].host \in doomed
                             THEN NoGpu ELSE gpu[g]]
  BY <1>1, <1>2 DEF GpusOn
<1>4. \A x \in Hosts \ doomed : node[x] # 0 =>
        \A c \in Clusters : cluster'[c] = node[x] <=> cluster[c] = node[x]
  BY <1>1 DEF NothingRefers
<1>5. Home' = [x \in Hosts |-> IF x \in doomed THEN {} ELSE Home[x]]
  BY <1>1, <1>4 DEF Home
<1>6. Shown!Drop(doomed)
  BY <1>1, <1>3, <1>5 DEF Shown!Drop, Home
<1>7. CASE key = 0
  <2>1. PICK x \in Hosts : doomed = {x}
    BY <1>1, <1>7 DEF DeletionInv
  <2>2. Existing' = Existing
    BY <1>1, <1>7 DEF Existing
  <2>3. Shown!DropNode(x)
    <3>1. Shown!Drop({x})
      BY <1>6, <2>1 DEF Shown!Drop
    <3>. QED  BY <2>2, <3>1 DEF Shown!DropNode, Existing
  <2>. QED  BY <2>3 DEF Shown!Next
<1>8. CASE key # 0
  <2>1. PICK c \in Clusters : cluster[c] = key
    BY <1>1, <1>8 DEF DeletionInv
  <2>2. \A d \in Clusters : cluster[d] = key <=> d = c
    BY <1>8, <2>1 DEF InventoryInv, KeysInv
  <2>3. Existing' = Existing \ {c} /\ c \in Existing
    BY <1>1, <1>8, <2>1, <2>2 DEF Existing
  <2>4. doomed = {x \in Hosts : Home[x] = {c}}
    <3>1. ASSUME NEW x \in doomed PROVE Home[x] = {c}
      BY <1>1, <1>8, <2>2, <3>1 DEF Home, DeletionInv
    <3>2. ASSUME NEW x \in Hosts, Home[x] = {c} PROVE x \in doomed
      <4>1. c \in Home[x]
        BY <3>2
      <4>2. node[x] = key
        BY <2>1, <4>1 DEF Home
      <4>. QED  BY <1>1, <1>8, <4>2 DEF NothingRefers
    <3>. QED  BY <1>1, <3>1, <3>2
  <2>5. Shown!DropCluster(c)
    BY <1>6, <2>3, <2>4 DEF Shown!DropCluster, Shown!Drop, Existing, Home
  <2>. QED  BY <2>5 DEF Shown!Next
<1>. QED  BY <1>7, <1>8

LEMMA CommitStores ==
  ASSUME InventoryInv, NEW h \in Handlers, Commit(h)
  PROVE  Shown!Next
<1>. PICK r \in Reports, t \in Nat : r = req[h] /\ t = now[h]
  BY DEF Commit, InventoryInv, TypeOK
<1>1. /\ pc[h] = "writing" /\ ~ToSave(h) /\ UNCHANGED cluster
      /\ ClusterRemains(h) /\ Writing(h) /\ pk[h] # 0
  BY DEF Commit, InventoryInv, TypeOK, WritingInv, ReferencesInv, KeysAreReal
<1>2. /\ node' = [node EXCEPT ![r.host] = pk[h]]
      /\ gpu' = [g \in Gpus |->
           IF g \in GpusOf(r)
             THEN [host |-> r.host, index |-> Index(r, g), updated |-> t]
             ELSE gpu[g]]
      /\ metrics' = metrics \cup {[gpu |-> g, time |-> t] : g \in GpusOf(r)}
  BY DEF Commit
<1>3. \A c \in Clusters : cluster[c] = pk[h] <=> c = r.cluster
  BY <1>1 DEF InventoryInv, KeysInv, ClusterRemains
<1>4. r.cluster \in Existing /\ r.cluster \in Clusters /\ r.host \in Hosts
  BY <1>1, <1>3, ReportFacts DEF Existing
<1>5. Home[r.host] \in {{}, {r.cluster}}
  BY <1>1, <1>3, <1>4 DEF Home, Writing
<1>6. Home' = [Home EXCEPT ![r.host] = {r.cluster}]
  <2>2. node'[r.host] # 0 /\ node'[r.host] = pk[h]
    BY <1>1, <1>2, <1>4 DEF InventoryInv, TypeOK
  <2>3. \A x \in Hosts \ {r.host} : node'[x] = node[x]
    BY <1>2 DEF InventoryInv, TypeOK
  <2>4. {c \in Clusters : node'[r.host] # 0 /\ cluster'[c] = node'[r.host]} = {r.cluster}
    BY <1>1, <1>3, <1>4, <2>2
  <2>. QED  BY <1>1, <1>4, <2>3, <2>4 DEF Home
<1>7. Shown!IndexesAreFree(r)
  <2>1. DOMAIN r.gpus = 1 .. next[h] - 1
    <3>1. Len(r.gpus) \in Nat /\ DOMAIN r.gpus = 1 .. Len(r.gpus)
      BY <1>1, ReportFacts
    <3>2. next[h] \in 1 .. Len(r.gpus) + 1 /\ next[h] \notin DOMAIN r.gpus
      BY <1>1 DEF InventoryInv, TypeOK, ToSave
    <3>. QED  BY <3>1, <3>2
  <2>. QED  BY <1>1, <2>1 DEF Shown!IndexesAreFree, Writing, GpusOf
<1>8. t \in {m.time : m \in metrics'}
  <2>1. DOMAIN r.gpus # {}
    <3>1. r.gpus \in Seq(Gpus) /\ r.gpus # <<>>
      BY <1>1, IngestAssumption DEF Writing
    <3>2. Len(r.gpus) # 0
      BY <3>1, EmptySeq
    <3>3. 1 \in DOMAIN r.gpus
      BY <3>2, ReportFacts
    <3>. QED  BY <3>3
  <2>2. PICK g : g \in GpusOf(r)
    BY <2>1 DEF GpusOf
  <2>3. [gpu |-> g, time |-> t] \in metrics'
    BY <1>2, <2>2
  <2>. QED  BY <2>3
<1>9. metrics' = metrics \cup {[gpu |-> r.gpus[i], time |-> t] : i \in DOMAIN r.gpus}
  BY <1>2 DEF GpusOf
<1>10. gpu' = [g \in Gpus |->
         IF \E i \in DOMAIN r.gpus : r.gpus[i] = g
           THEN [host |-> r.host, index |-> Shown!Index(r, g), updated |-> t]
           ELSE gpu[g]]
  BY <1>2 DEF GpusOf, Index, Shown!Index
<1>11. Shown!Store(r, t)
  BY <1>1, <1>4, <1>5, <1>6, <1>7, <1>9, <1>10 DEF Shown!Store, Writing, Existing, Home
<1>. QED  BY <1>1, <1>8, <1>11 DEF Shown!Next

LEMMA InventoryStep ==
  ASSUME InventoryInv, [Next]_vars PROVE [Shown!Next]_Inventory
<1>1. CASE UNCHANGED <<cluster, node, gpu, metrics>>
  BY <1>1 DEF Inventory, Existing, Home
<1>2. ASSUME NEW h \in Handlers, ResolveCluster(h) PROVE [Shown!Next]_Inventory
  <2>1. PICK c \in Clusters : c = req[h].cluster
    BY <1>2, ReportFacts DEF ResolveCluster, InventoryInv, TypeOK
  <2>2. UNCHANGED <<node, gpu, metrics>>
    BY <1>2 DEF ResolveCluster
  <2>3. CASE cluster[c] = 0
    <3>1. made' = made + 1 /\ cluster' = [cluster EXCEPT ![c] = made + 1]
      BY <1>2, <2>1, <2>3 DEF ResolveCluster
    <3>. QED  BY <2>2, <2>3, <3>1, KeyAddsCluster DEF Shown!Next
  <2>4. CASE cluster[c] # 0
    BY <1>1, <1>2, <2>1, <2>2, <2>4 DEF ResolveCluster
  <2>. QED  BY <2>3, <2>4
<1>3. ASSUME NEW h \in Handlers, Commit(h) PROVE Shown!Next
  BY <1>3, CommitStores
<1>4. ASSUME NEW c \in Clusters, CreateCluster(c) PROVE Shown!Next
  BY <1>4, KeyAddsCluster DEF CreateCluster, requests, Shown!Next
<1>5. ASSUME CommitDelete PROVE Shown!Next
  BY <1>5, DeleteDrops
<1>6. \/ UNCHANGED <<cluster, node, gpu, metrics>>
      \/ \E h \in Handlers : ResolveCluster(h) \/ Commit(h)
      \/ \E c \in Clusters : CreateCluster(c)
      \/ CommitDelete
  BY NextCases, DeletingIsQuiet DEF Quiet, tables, Receive, NothingToStore, LockNode,
     NodeConflict, SaveGpu, GpuConflict, CommitFails, Abort
<1>. QED  BY <1>1, <1>2, <1>3, <1>4, <1>5, <1>6

(* The handlers implement Inventory, for any number of them: a report is     *)
(* stored whole, in the cluster it names and as of an instant of its own, or *)
(* leaves no trace, and no two GPUs of a node ever share an index.           *)
THEOREM InventoryKept == Spec => KeepsInventory
<1>1. Init => Shown!Init
  BY DEF Init, Shown!Init
<1>2. TypeOK /\ ReferencesInv /\ KeysInv /\ WritingInv /\ DeletionInv /\ [Next]_vars
        => [Shown!Next]_Inventory
  BY InventoryStep DEF InventoryInv
<1>. QED
  BY <1>1, <1>2, TypeCorrect, ReferencesStay, KeysHold, WritingHolds, DeletionHolds, PTL
  DEF Spec, KeepsInventory, Shown!Spec, Shown!state, Inventory, Existing, Home
=============================================================================
