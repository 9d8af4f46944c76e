----------------------------- MODULE GpuIngest ------------------------------
(***************************************************************************)
(* POST /api/v1/ingest/gpu/: gunicorn workers (handlers) that execute       *)
(* rest_api.ingest_gpu and services/metric_ingestion.ingest_gpu_metrics at  *)
(* the same time, against the settings views that delete clusters and       *)
(* nodes.  The cluster is resolved in a statement of its own; node, GPUs    *)
(* and metric rows are written in one transaction at READ COMMITTED, so     *)
(* others see nothing of it before Commit.  update_or_create selects FOR    *)
(* UPDATE: the transaction owns the node row, then the GPU rows one by one, *)
(* until it ends.                                                           *)
(*                                                                          *)
(* A delete works in the other order.  Django reads what hangs on the row   *)
(* (autocommit), and then in one transaction deletes the GPUs with one      *)
(* statement, the nodes with one statement, and the cluster.  A statement   *)
(* sees the rows committed when it begins, owns them one by one, waits for  *)
(* rows others own, and looks at a row again after it has waited.  So an    *)
(* ingest and a delete can wait for each other; PostgreSQL then aborts one  *)
(* of the two.                                                              *)
(*                                                                          *)
(* A cluster row is identified by (organization, name), a node row by       *)
(* (organization, hostname); both pairs are single values here.  Of a node  *)
(* row only its cluster is kept: nothing below depends on its other fields. *)
(* The position of a GPU in a report is its gpu_index.  The server clock    *)
(* never shows the same instant twice, so the instant identifies the sample.*)
(*                                                                          *)
(* Definitions named Bad... are faulty variants of the definition after     *)
(* them, kept to show that the properties notice; no action uses them.      *)
(***************************************************************************)
EXTENDS Naturals, Sequences

CONSTANTS
  Handlers,    \* gunicorn worker processes
  Clusters,    \* (organization, name) of clusters
  Hosts,       \* (organization, hostname) of nodes
  Gpus,        \* GPU uuids
  Reports,     \* the payloads agents send: [cluster, host, gpus]
  Admin,       \* the request that deletes, one at a time
  MaxReports,  \* bounds the requests received, and clusters made by hand
  NoReport, NoGpu

ASSUME IngestAssumption ==
  /\ \A r \in Reports :
       /\ r.cluster \in Clusters
       /\ r.host \in Hosts
       /\ r.gpus \in Seq(Gpus)
       /\ \A i, j \in DOMAIN r.gpus : r.gpus[i] = r.gpus[j] => i = j
  /\ MaxReports \in Nat
  /\ NoReport \notin Reports
  /\ Admin \notin Handlers
  /\ NoGpu \notin [host : Hosts, index : Nat, updated : Nat]

VARIABLES
  cluster,   \* cluster[c]: primary key of the row of cluster c, 0 if none
  node,      \* node[x]: primary key of the cluster of node x, 0 without a row
  gpu,       \* gpu[g]: committed row of GPU g
  metrics,   \* committed rows of the hypertable gpu_metrics
  clock,     \* the last instant anybody has read
  made,      \* the last primary key given to a cluster
  pc,        \* pc[h]: what handler h does next
  req,       \* req[h]: the report it works for
  pk,        \* pk[h]: primary key of the cluster it resolved
  now,       \* now[h]: the instant it stamps the sample with
  next,      \* next[h]: position of the GPU it updates next
  answer,    \* answer[h]: how its last request ended
  received,  \* number of requests received
  stage,     \* what the delete has done, "none" if there is no delete
  key,       \* primary key of the cluster it deletes, 0 if it deletes a node
  doomed,    \* hosts of the nodes it deletes
  todo,      \* rows its statement has not yet come to: GPUs, then hosts
  taken      \* GPUs it has deleted, not yet committed

tables   == <<cluster, node, gpu, metrics, made>>
deletion == <<stage, key, doomed, todo, taken>>
requests == <<pc, req, pk, now, next, answer, received>>
vars     == <<cluster, node, gpu, metrics, made, clock, pc, req, pk, now, next,
              answer, received, stage, key, doomed, todo, taken>>

GpuRows == [host : Hosts, index : Nat, updated : Nat]
Samples == [gpu : Gpus, time : Nat]

Phases  == {"idle", "received", "resolved", "writing"}
Answers == {"none", "ok", "nodeConflict", "gpuConflict", "gone", "aborted"}
Stages  == {"none", "collected", "gpus", "nodes"}

GpusOf(r)  == {r.gpus[i] : i \in DOMAIN r.gpus}
Index(r, g) == CHOOSE i \in DOMAIN r.gpus : r.gpus[i] = g

Init ==
  /\ cluster = [c \in Clusters |-> 0]
  /\ node = [x \in Hosts |-> 0]
  /\ gpu = [g \in Gpus |-> NoGpu]
  /\ metrics = {}
  /\ clock = 0
  /\ made = 0
  /\ pc = [h \in Handlers |-> "idle"]
  /\ req = [h \in Handlers |-> NoReport]
  /\ pk = [h \in Handlers |-> 0]
  /\ now = [h \in Handlers |-> 0]
  /\ next = [h \in Handlers |-> 0]
  /\ answer = [h \in Handlers |-> "none"]
  /\ received = 0
  /\ stage = "none"
  /\ key = 0
  /\ doomed = {}
  /\ todo = {}
  /\ taken = {}

-----------------------------------------------------------------------------
(* Row locks, kept to the end of the transaction.  An ingest owns its node   *)
(* from LockNode and a GPU from its SaveGpu, a delete what it has come to.   *)
Transactions == Handlers \cup {Admin}

Saved(h) == {req[h].gpus[i] : i \in 1 .. next[h] - 1}

OwnsNode(t, x) ==
  IF t = Admin THEN stage = "nodes" /\ x \in doomed \ todo
               ELSE pc[t] = "writing" /\ req[t].host = x

OwnsGpu(t, g) ==
  IF t = Admin THEN g \in taken ELSE pc[t] = "writing" /\ g \in Saved(t)

BadNodeIsFree(t, x) == TRUE   \* no transaction: the lock goes with the statement
NodeIsFree(t, x) == \A u \in Transactions \ {t} : ~OwnsNode(u, x)
GpuIsFree(t, g)  == \A u \in Transactions \ {t} : ~OwnsGpu(u, g)

-----------------------------------------------------------------------------
(* An authenticated request with a valid body reaches a free handler.        *)
BadReceive(h, r) ==   \* works for the request before
  /\ pc[h] = "idle"
  /\ received < MaxReports
  /\ received' = received + 1
  /\ pc' = [pc EXCEPT ![h] = "received"]
  /\ UNCHANGED <<tables, deletion, clock, req, pk, now, next, answer>>

Receive(h, r) ==
  /\ pc[h] = "idle"
  /\ received < MaxReports
  /\ received' = received + 1
  /\ pc' = [pc EXCEPT ![h] = "received"]
  /\ req' = [req EXCEPT ![h] = r]
  /\ UNCHANGED <<tables, deletion, clock, pk, now, next, answer>>

(* The 200 or 500 that ends the request; an open transaction is rolled back. *)
End(h, how) ==
  /\ pc' = [pc EXCEPT ![h] = "idle"]
  /\ answer' = [answer EXCEPT ![h] = how]
  /\ req' = [req EXCEPT ![h] = NoReport]
  /\ pk' = [pk EXCEPT ![h] = 0]
  /\ now' = [now EXCEPT ![h] = 0]
  /\ next' = [next EXCEPT ![h] = 0]
  /\ UNCHANGED <<deletion, made, clock, received>>

(* GPUCluster get_or_create, committed at once.                              *)
ResolveCluster(h) ==
  LET c == req[h].cluster IN
  /\ pc[h] = "received"
  /\ pc' = [pc EXCEPT ![h] = "resolved"]
  /\ IF cluster[c] = 0
       THEN /\ made' = made + 1
            /\ cluster' = [cluster EXCEPT ![c] = made + 1]
       ELSE UNCHANGED <<made, cluster>>
  /\ pk' = [pk EXCEPT ![h] = cluster'[c]]
  /\ UNCHANGED <<node, gpu, metrics, deletion, clock, req, now, next, answer, received>>

(* "if not metrics: return 0" leaves the node alone.                         *)
NothingToStore(h) ==
  /\ pc[h] = "resolved"
  /\ req[h].gpus = <<>>
  /\ End(h, "ok")
  /\ UNCHANGED <<cluster, node, gpu, metrics>>

(* The node of this host in this cluster, or no row at all: a row of the     *)
(* same host in another cluster is not found, and blocks the INSERT because  *)
(* (organization, hostname) is unique.                                       *)
NodeMatches(h) ==
  node[req[h].host] # 0 => node[req[h].host] = pk[h]

(* now = django_tz.now() is read when the node row is owned.                 *)
LockNode(h) ==
  /\ pc[h] = "resolved"
  /\ req[h].gpus # <<>>
  /\ NodeIsFree(h, req[h].host)
  /\ NodeMatches(h)
  /\ pc' = [pc EXCEPT ![h] = "writing"]
  /\ clock' = clock + 1
  /\ now' = [now EXCEPT ![h] = clock + 1]
  /\ next' = [next EXCEPT ![h] = 1]
  /\ UNCHANGED <<tables, deletion, req, pk, answer, received>>

NodeConflict(h) ==
  /\ pc[h] = "resolved"
  /\ req[h].gpus # <<>>
  /\ NodeIsFree(h, req[h].host)
  /\ ~NodeMatches(h)
  /\ End(h, "nodeConflict")
  /\ UNCHANGED <<cluster, node, gpu, metrics>>

(* GPU update_or_create by uuid.  (node, gpu_index) is unique and checked at *)
(* every statement: the index must not belong to a GPU of this node that     *)
(* this transaction has not yet moved to another index.                      *)
ToSave(h) == next[h] \in DOMAIN req[h].gpus

Rivals(h) ==
  {g \in Gpus \ Saved(h) :
     /\ g # req[h].gpus[next[h]]
     /\ gpu[g] # NoGpu
     /\ gpu[g].host = req[h].host
     /\ gpu[g].index = next[h]}

(* The rows a transaction needs next.  The row of the GPU and the rows in    *)
(* the way of its index are waited for at once: a rival somebody has touched *)
(* is a GPU of this node, whose delete needs the node as well.               *)
WantsNodes(t) ==
  IF t = Admin
    THEN {x \in Hosts : stage = "nodes" /\ x \in todo}
    ELSE {x \in Hosts : pc[t] = "resolved" /\ req[t].gpus # <<>> /\ x = req[t].host}

WantsGpus(t) ==
  IF t = Admin
    THEN {g \in Gpus : stage = "gpus" /\ g \in todo}
    ELSE {g \in Gpus : /\ pc[t] = "writing"
                       /\ ToSave(t)
                       /\ g = req[t].gpus[next[t]] \/ g \in Rivals(t)}

SaveGpu(h) ==
  /\ pc[h] = "writing"
  /\ ToSave(h)
  /\ \A g \in WantsGpus(h) : GpuIsFree(h, g)
  /\ Rivals(h) = {}
  /\ next' = [next EXCEPT ![h] = @ + 1]
  /\ UNCHANGED <<tables, deletion, clock, pc, req, pk, now, answer, received>>

GpuConflict(h) ==
  /\ pc[h] = "writing"
  /\ ToSave(h)
  /\ \A g \in WantsGpus(h) : GpuIsFree(h, g)
  /\ Rivals(h) # {}
  /\ End(h, "gpuConflict")
  /\ UNCHANGED <<cluster, node, gpu, metrics>>

(* executemany and COMMIT.  Foreign keys are deferred to this point: the     *)
(* cluster must still be there.                                              *)
BadClusterRemains(h) == TRUE
ClusterRemains(h) == \E c \in Clusters : cluster[c] = pk[h]

Commit(h) ==
  LET r == req[h] IN
  /\ pc[h] = "writing"
  /\ ~ToSave(h)
  /\ ClusterRemains(h)
  /\ node' = [node EXCEPT ![r.host] = pk[h]]
  /\ gpu' = [g \in Gpus |->
       IF g \in GpusOf(r)
         THEN [host |-> r.host, index |-> Index(r, g), updated |-> now[h]]
         ELSE gpu[g]]
  /\ metrics' = metrics \cup {[gpu |-> g, time |-> now[h]] : g \in GpusOf(r)}
  /\ End(h, "ok")
  /\ UNCHANGED cluster

BadCommitFails(h) ==   \* COMMIT is retried
  /\ pc[h] = "writing"
  /\ ~ToSave(h)
  /\ ~ClusterRemains(h)
  /\ UNCHANGED vars

CommitFails(h) ==
  /\ pc[h] = "writing"
  /\ ~ToSave(h)
  /\ ~ClusterRemains(h)
  /\ End(h, "gone")
  /\ UNCHANGED <<cluster, node, gpu, metrics>>

(* The connection breaks, PostgreSQL picks the transaction as a deadlock     *)
(* victim, or gunicorn kills the worker after its 120 seconds.               *)
Abort(h) ==
  /\ pc[h] \in {"resolved", "writing"}
  /\ End(h, "aborted")
  /\ UNCHANGED <<cluster, node, gpu, metrics>>

-----------------------------------------------------------------------------
(* The settings views.                                                       *)

CreateCluster(c) ==
  /\ cluster[c] = 0
  /\ made < MaxReports
  /\ made' = made + 1
  /\ cluster' = [cluster EXCEPT ![c] = made + 1]
  /\ UNCHANGED <<node, gpu, metrics, deletion, clock, requests>>

GpusOn(hosts) == {g \in Gpus : gpu[g] # NoGpu /\ gpu[g].host \in hosts}

(* Django reads the nodes of the cluster it will delete.                     *)
Collect(k, hosts) ==
  /\ stage = "none"
  /\ stage' = "collected"
  /\ key' = k
  /\ doomed' = hosts
  /\ UNCHANGED <<tables, todo, taken, clock, requests>>

CollectNode(x)    == node[x] # 0 /\ Collect(0, {x})
CollectCluster(c) ==
  cluster[c] # 0 /\ Collect(cluster[c], {x \in Hosts : node[x] = cluster[c]})

(* DELETE FROM gpus WHERE node_id IN (...): it comes to the rows there are   *)
(* when it begins, in any order, and leaves one that has moved meanwhile.    *)
DeleteGpus ==
  /\ stage = "collected"
  /\ stage' = "gpus"
  /\ todo' = GpusOn(doomed)
  /\ UNCHANGED <<tables, key, doomed, taken, clock, requests>>

TakeGpu(g) ==
  /\ g \in WantsGpus(Admin)
  /\ GpuIsFree(Admin, g)
  /\ todo' = todo \ {g}
  /\ taken' = taken \cup ({g} \cap GpusOn(doomed))
  /\ UNCHANGED <<tables, stage, key, doomed, clock, requests>>

(* DELETE FROM nodes WHERE id IN (...)                                       *)
DeleteNodeRows ==
  /\ stage = "gpus"
  /\ todo = {}
  /\ stage' = "nodes"
  /\ todo' = doomed
  /\ UNCHANGED <<tables, key, doomed, taken, clock, requests>>

TakeNode(x) ==
  /\ x \in WantsNodes(Admin)
  /\ NodeIsFree(Admin, x)
  /\ todo' = todo \ {x}
  /\ UNCHANGED <<tables, stage, key, doomed, taken, clock, requests>>

(* The cluster row goes and COMMIT checks the deferred foreign keys: a GPU   *)
(* or a node that came after the statements had begun makes it fail.         *)
NothingRefers ==
  /\ GpusOn(doomed) \subseteq taken
  /\ \A x \in Hosts \ doomed : node[x] # 0 => node[x] # key

EndDelete ==
  /\ stage' = "none"
  /\ key' = 0
  /\ doomed' = {}
  /\ todo' = {}
  /\ taken' = {}
  /\ UNCHANGED <<metrics, made, clock, requests>>

CommitDelete ==
  /\ stage = "nodes"
  /\ todo = {}
  /\ NothingRefers
  /\ gpu' = [g \in Gpus |-> IF g \in taken THEN NoGpu ELSE gpu[g]]
  /\ node' = [x \in Hosts |-> IF x \in doomed THEN 0 ELSE node[x]]
  /\ cluster' = [c \in Clusters |-> IF cluster[c] = key THEN 0 ELSE cluster[c]]
  /\ EndDelete

BadDeleteFails ==   \* COMMIT is retried
  /\ stage = "nodes"
  /\ todo = {}
  /\ ~NothingRefers
  /\ UNCHANGED vars

DeleteFails ==
  /\ stage = "nodes"
  /\ todo = {}
  /\ ~NothingRefers
  /\ EndDelete
  /\ UNCHANGED <<cluster, node, gpu>>

(* The connection breaks, PostgreSQL picks the delete as a deadlock victim,  *)
(* or gunicorn kills its worker.                                             *)
AbortDelete ==
  /\ stage # "none"
  /\ EndDelete
  /\ UNCHANGED <<cluster, node, gpu>>

-----------------------------------------------------------------------------
HandlerStep(h) ==
  \/ ResolveCluster(h) \/ NothingToStore(h) \/ LockNode(h) \/ NodeConflict(h)
  \/ SaveGpu(h) \/ GpuConflict(h) \/ Commit(h) \/ CommitFails(h)

DeleteStep ==
  \/ DeleteGpus \/ DeleteNodeRows \/ CommitDelete \/ DeleteFails
  \/ \E g \in Gpus : TakeGpu(g)
  \/ \E x \in Hosts : TakeNode(x)

(* The site may stay idle while nothing is under way.                        *)
Idle ==
  /\ stage = "none"
  /\ \A h \in Handlers : pc[h] = "idle"
  /\ UNCHANGED vars

Next ==
  \/ \E h \in Handlers, r \in Reports : Receive(h, r)
  \/ \E h \in Handlers : HandlerStep(h) \/ Abort(h)
  \/ \E c \in Clusters : CreateCluster(c) \/ CollectCluster(c)
  \/ \E x \in Hosts : CollectNode(x)
  \/ DeleteStep
  \/ AbortDelete
  \/ Idle

Spec == Init /\ [][Next]_vars

(* Who waits for whom, and transactions that wait for each other in a circle.*)
Waits(t, u) ==
  /\ t # u
  /\ \/ \E x \in WantsNodes(t) : OwnsNode(u, x)
     \/ \E g \in WantsGpus(t) : OwnsGpu(u, g)

Circle(ts) == ts # {} /\ \A t \in ts : \E u \in ts : Waits(t, u)

BreakDeadlock ==
  \E ts \in SUBSET Transactions :
    Circle(ts) /\ \E t \in ts : IF t = Admin THEN AbortDelete ELSE Abort(t)

(* Requests run on; PostgreSQL queues the transactions that wait for a row,  *)
(* so one that waits again and again gets it, and it aborts one of a circle. *)
(* Nothing is assumed of the other aborts.                                   *)
Fairness ==
  /\ \A h \in Handlers : SF_vars(HandlerStep(h))
  /\ SF_vars(DeleteStep)
  /\ WF_vars(BreakDeadlock)

-----------------------------------------------------------------------------
(* Rows and locals have their types; who writes has a report and has saved   *)
(* a prefix of its GPUs; a delete has rows of the right table left to do.    *)
TypeOK ==
  /\ cluster \in [Clusters -> Nat]
  /\ node \in [Hosts -> Nat]
  /\ gpu \in [Gpus -> GpuRows \cup {NoGpu}]
  /\ metrics \in SUBSET Samples
  /\ clock \in Nat
  /\ made \in Nat
  /\ pc \in [Handlers -> Phases]
  /\ req \in [Handlers -> Reports \cup {NoReport}]
  /\ pk \in [Handlers -> Nat]
  /\ now \in [Handlers -> Nat]
  /\ next \in [Handlers -> Nat]
  /\ answer \in [Handlers -> Answers]
  /\ received \in 0 .. MaxReports
  /\ stage \in Stages
  /\ key \in Nat
  /\ doomed \in SUBSET Hosts
  /\ todo \in IF stage = "nodes" THEN SUBSET doomed
              ELSE IF stage = "gpus" THEN SUBSET Gpus ELSE {{}}
  /\ taken \in SUBSET Gpus
  /\ stage = "none" => doomed = {} /\ key = 0
  /\ stage \in {"none", "collected"} => taken = {}
  /\ \A h \in Handlers : pc[h] # "idle" => req[h] # NoReport
  /\ \A h \in Handlers : pc[h] = "writing" => next[h] \in 1 .. Len(req[h].gpus) + 1

(* A GPU is reported by one host.                                            *)
OneHome ==
  \A p, q \in Reports : GpusOf(p) \cap GpusOf(q) # {} => p.host = q.host

(* "Latest denormalized snapshot values (written by agent on each scrape)"   *)
(* (models/gpu.py:149): the snapshot on a GPU row is the newest of its rows  *)
(* in gpu_metrics, whatever order concurrent requests arrive and commit in.  *)
SnapshotIsLatest ==
  \A g \in Gpus : gpu[g] # NoGpu =>
    /\ [gpu |-> g, time |-> gpu[g].updated] \in metrics
    /\ \A m \in metrics : m.gpu = g => m.time <= gpu[g].updated

(* A GPU row has its node and a node row its cluster, through deletes that   *)
(* run between two steps of an ingest.                                       *)
ReferencesHold ==
  /\ \A g \in Gpus : gpu[g] # NoGpu => node[gpu[g].host] # 0
  /\ \A x \in Hosts : node[x] # 0 => \E c \in Clusters : cluster[c] = node[x]

(* The handlers implement Inventory: whatever they find, wait for or abort,  *)
(* a report is stored whole in the cluster it names or leaves no trace.      *)
Shown ==
  INSTANCE Inventory WITH
    clusters <- {c \in Clusters : cluster[c] # 0},
    home     <- [x \in Hosts |->
                  {c \in Clusters : node[x] # 0 /\ cluster[c] = node[x]}],
    samples  <- metrics
KeepsInventory == Shown!Spec

(* A host numbers its GPUs the same way in all its reports: they come and    *)
(* go at the end of the list only.                                           *)
StableIndexes ==
  \A p, q \in Reports : p.host = q.host =>
    \A i \in DOMAIN p.gpus \cap DOMAIN q.gpus : p.gpus[i] = q.gpus[i]

(* Who writes waits for no other handler: handlers queue for a node, where   *)
(* they own nothing yet, and of the GPUs of the node only a delete can own   *)
(* one.  So no circle of transactions is without a delete.                   *)
WritersWaitForDeletesOnly ==
  \A h, k \in Handlers : pc[h] = "writing" => ~Waits(h, k)

(* Upserts "each GPU device identified by uuid" (metric_ingestion.py:24).    *)
GpuUpserts == \A h \in Handlers : answer[h] # "gpuConflict"

(* Every report is answered, although handlers wait for each other's rows    *)
(* and deadlock with deletes.                                                *)
EveryReportAnswered == \A h \in Handlers : pc[h] # "idle" ~> pc[h] = "idle"

(* Every delete ends, whatever agents report meanwhile.                      *)
EveryDeleteEnds == stage # "none" ~> stage = "none"
=============================================================================
