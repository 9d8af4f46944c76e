----------------------------- MODULE Inventory ------------------------------
(***************************************************************************)
(* What the GPU ingest promises: the inventory takes a report whole and at  *)
(* once, as of an instant of its own, or not at all.  It takes none that    *)
(* would move a node to another cluster or give two GPUs of a node one      *)
(* index; and what is deleted takes what hangs on it along.                 *)
(***************************************************************************)
EXTENDS Naturals, Sequences

CONSTANTS Clusters, Hosts, Gpus, Reports, NoGpu

VARIABLES
  clusters,  \* the clusters there are
  home,      \* home[x]: the cluster of node x as a set of one, {} without a node
  gpu,       \* gpu[g]: host, index and instant of GPU g
  samples    \* the history

state == <<clusters, home, gpu, samples>>

Init ==
  /\ clusters = {}
  /\ home = [x \in Hosts |-> {}]
  /\ gpu = [g \in Gpus |-> NoGpu]
  /\ samples = {}

AddCluster(c) ==
  /\ c \notin clusters
  /\ clusters' = clusters \cup {c}
  /\ UNCHANGED <<home, gpu, samples>>

Drop(doomed) ==
  /\ home' = [x \in Hosts |-> IF x \in doomed THEN {} ELSE home[x]]
  /\ gpu' = [g \in Gpus |-> IF gpu[g] # NoGpu /\ gpu[g].host \in doomed
                            THEN NoGpu ELSE gpu[g]]
  /\ UNCHANGED samples

DropNode(x) == Drop({x}) /\ UNCHANGED clusters

DropCluster(c) ==
  /\ c \in clusters
  /\ clusters' = clusters \ {c}
  /\ Drop({x \in Hosts : home[x] = {c}})

Index(r, g) == CHOOSE i \in DOMAIN r.gpus : r.gpus[i] = g

(* No other GPU of the node has an index of the report.                      *)
IndexesAreFree(r) ==
  \A g \in Gpus : gpu[g] # NoGpu /\ gpu[g].host = r.host /\ gpu[g].index \in DOMAIN r.gpus
                    => \E i \in DOMAIN r.gpus : r.gpus[i] = g

Store(r, t) ==
  /\ r.gpus # <<>>
  /\ r.cluster \in clusters
  /\ home[r.host] \in {{}, {r.cluster}}
  /\ IndexesAreFree(r)
  /\ \A m \in samples : m.time # t
  /\ home' = [home EXCEPT ![r.host] = {r.cluster}]
  /\ gpu' = [g \in Gpus |->
       IF \E i \in DOMAIN r.gpus : r.gpus[i] = g
         THEN [host |-> r.host, index |-> Index(r, g), updated |-> t] ELSE gpu[g]]
  /\ samples' = samples \cup {[gpu |-> r.gpus[i], time |-> t] : i \in DOMAIN r.gpus}
  /\ UNCHANGED clusters

Next ==
  \/ \E c \in Clusters : AddCluster(c) \/ DropCluster(c)
  \/ \E x \in Hosts : DropNode(x)
  \/ \E r \in Reports, t \in {m.time : m \in samples'} : Store(r, t)

Spec == Init /\ [][Next]_state
=============================================================================
