----------------------------- MODULE Telemetry ------------------------------
(***************************************************************************)
(* The Go agent (agent/) and the server it reports to.  The agent is one    *)
(* loop: on every tick it collects a sample of its GPUs and posts it, up to *)
(* three times, then scrapes vLLM and posts that once.  It stops waiting    *)
(* after ten seconds, but the request it gave up may still be handled, late *)
(* and after its successors.                                                *)
(*                                                                          *)
(* GPU reports of a node are stored one at a time, because the ingest       *)
(* transaction locks the node first (GpuIngest): one step each here.        *)
(* Inference reports (monitor/services/inference_ingestion.py) take the     *)
(* time before their transaction and lock the endpoint in it.               *)
(*                                                                          *)
(* Definitions named Bad... are faulty variants of the definition after     *)
(* them, kept to show that the properties notice; no action uses them.      *)
(***************************************************************************)
EXTENDS Naturals, FiniteSets

CONSTANTS
  Handlers,    \* gunicorn worker processes
  MaxSamples,  \* bounds the samples the agent collects
  Null

ASSUME TelemetryAssumption ==
  /\ MaxSamples \in Nat
  /\ Null \notin Handlers

VARIABLES
  sample,    \* number of the last sample
  pc,        \* what the agent does next
  attempt,   \* failed attempts to post the GPU sample
  reply,     \* answer to the request the agent waits for
  exported,  \* GPU samples the agent has logged as exported
  net,       \* requests sent and not taken by a handler
  stored,    \* stored[n]: how often gpu_metrics holds GPU sample n
  state,     \* state[h]: what handler h does next
  job,       \* job[h]: the inference request it works on
  now,       \* now[h]: the time it has taken
  lock,      \* the handler that has the endpoint's row locked
  endpoint,  \* the row of the endpoint
  history,   \* the inference_metrics hypertable
  clock      \* time, as seen by the inference requests

agent  == <<sample, pc, attempt, reply, exported>>
server == <<stored, state, job, now, lock, endpoint, history, clock>>
vars   == <<agent, net, server>>

Samples  == 1 .. MaxSamples
Attempts == 3
Requests == [kind : {"gpu"}, sample : Samples, try : 1 .. Attempts]
              \cup [kind : {"inference"}, sample : Samples, try : {1}]

ASSUME NullAssumption == Null \notin Requests \cup {"ok", "error"}

Waiting  == {"gpuWait", "vllmWait"}
Stages   == {"idle", "post", "scrape"} \cup Waiting
Steps    == {"idle", "upsert", "insert"}
Statuses == {"absent", "active", "retired"}

GpuRequest(k)    == [kind |-> "gpu", sample |-> sample, try |-> k]
InferenceRequest == [kind |-> "inference", sample |-> sample, try |-> 1]

(* The request the agent waits for.                                          *)
Awaited == IF pc = "gpuWait" THEN GpuRequest(attempt + 1) ELSE InferenceRequest

NoEndpoint == [status |-> "absent", sample |-> 0, lastSeen |-> 0]

Init ==
  /\ sample = 0
  /\ pc = "idle"
  /\ attempt = 0
  /\ reply = Null
  /\ exported = {}
  /\ net = {}
  /\ stored = [n \in Samples |-> 0]
  /\ state = [h \in Handlers |-> "idle"]
  /\ job = [h \in Handlers |-> Null]
  /\ now = [h \in Handlers |-> 0]
  /\ lock = Null
  /\ endpoint = NoEndpoint
  /\ history = {}
  /\ clock = 0

-----------------------------------------------------------------------------
(* The agent.                                                                *)

AgentAt(stage) ==
  /\ pc' = stage
  /\ reply' = Null

(* A tick; without GPU metrics the rest of the round is left out.            *)
Collect ==
  /\ pc = "idle"
  /\ sample < MaxSamples
  /\ sample' = sample + 1
  /\ attempt' = 0
  /\ \/ AgentAt("post")
     \/ AgentAt("idle")
  /\ UNCHANGED <<exported, net, server>>

PostGpu ==
  /\ pc = "post"
  /\ net' = net \cup {GpuRequest(attempt + 1)}
  /\ AgentAt("gpuWait")
  /\ UNCHANGED <<sample, attempt, exported, server>>

BadIsSuccess(status) == TRUE   \* a response arrived
IsSuccess(status) == status = "ok"

BadGivesUp(n) == n > Attempts   \* attempt <= 3
GivesUp(n) == n = Attempts

Retry ==
  /\ attempt' = IF GivesUp(attempt + 1) THEN 0 ELSE attempt + 1
  /\ AgentAt(IF GivesUp(attempt + 1) THEN "scrape" ELSE "post")

GetGpuReply ==
  /\ pc = "gpuWait"
  /\ reply # Null
  /\ IF IsSuccess(reply)
       THEN /\ exported' = exported \cup {sample}
            /\ attempt' = 0
            /\ AgentAt("scrape")
       ELSE Retry /\ UNCHANGED exported
  /\ UNCHANGED <<sample, net, server>>

(* The connection fails, and the request may be lost with it; or the client  *)
(* times out, and it may not.                                                *)
Abandoned == net' \in {net, net \ {Awaited}}

BadGpuTimeout ==   \* http.Client{} has no timeout: only a lost request ends
  /\ pc = "gpuWait"
  /\ Awaited \in net
  /\ net' = net \ {Awaited}
  /\ Retry
  /\ UNCHANGED <<sample, exported, server>>

GpuTimeout ==
  /\ pc = "gpuWait"
  /\ Abandoned
  /\ Retry
  /\ UNCHANGED <<sample, exported, server>>

PostInference ==
  /\ pc = "scrape"
  /\ net' = net \cup {InferenceRequest}
  /\ AgentAt("vllmWait")
  /\ UNCHANGED <<sample, attempt, exported, server>>

ScrapeFails ==
  /\ pc = "scrape"
  /\ AgentAt("idle")
  /\ UNCHANGED <<sample, attempt, exported, net, server>>

(* Best effort: every outcome is logged, and the round is over.              *)
EndRound ==
  /\ pc = "vllmWait"
  /\ \/ reply # Null /\ UNCHANGED net
     \/ Abandoned
  /\ AgentAt("idle")
  /\ UNCHANGED <<sample, attempt, exported, server>>

Restart ==
  /\ pc # "idle"
  /\ attempt' = 0
  /\ AgentAt("idle")
  /\ UNCHANGED <<sample, exported, net, server>>

-----------------------------------------------------------------------------
(* The server.  An answer reaches the agent if it still waits for it and the *)
(* connection holds.                                                         *)

Answer(r, status) ==
  \/ pc \in Waiting /\ r = Awaited /\ reply' = status
  \/ UNCHANGED reply

IngestGpu(r) ==
  /\ r \in net
  /\ r.kind = "gpu"
  /\ net' = net \ {r}
  /\ \/ stored' = [stored EXCEPT ![r.sample] = @ + 1] /\ Answer(r, "ok")
     \/ UNCHANGED stored /\ Answer(r, "error")
  /\ UNCHANGED <<sample, pc, attempt, exported, state, job, now, lock, endpoint, history,
                 clock>>

TakeInference(h, r) ==
  /\ state[h] = "idle"
  /\ r \in net
  /\ r.kind = "inference"
  /\ net' = net \ {r}
  /\ clock' = clock + 1
  /\ state' = [state EXCEPT ![h] = "upsert"]
  /\ job' = [job EXCEPT ![h] = r]
  /\ now' = [now EXCEPT ![h] = clock + 1]
  /\ UNCHANGED <<agent, stored, lock, endpoint, history>>

(* update_or_create: SELECT ... FOR UPDATE, or an INSERT that holds the name *)
(* against other inserts.                                                    *)
UpsertEndpoint(h) ==
  /\ state[h] = "upsert"
  /\ lock = Null
  /\ lock' = h
  /\ state' = [state EXCEPT ![h] = "insert"]
  /\ UNCHANGED <<agent, net, stored, job, now, endpoint, history, clock>>

Reported(h) == [status |-> "active", sample |-> job[h].sample, lastSeen |-> now[h]]

Release(h) ==
  /\ lock' = IF lock = h THEN Null ELSE lock
  /\ state' = [state EXCEPT ![h] = "idle"]
  /\ job' = [job EXCEPT ![h] = Null]
  /\ now' = [now EXCEPT ![h] = 0]

InsertAndCommit(h) ==
  /\ state[h] = "insert"
  /\ endpoint' = Reported(h)
  /\ history' = history \cup {[sample |-> job[h].sample, time |-> now[h]]}
  /\ Answer(job[h], "ok")
  /\ Release(h)
  /\ UNCHANGED <<sample, pc, attempt, exported, net, stored, clock>>

(* A statement fails and the transaction is rolled back.                     *)
BadFail(h) ==   \* no transaction: the upsert stays
  /\ state[h] # "idle"
  /\ endpoint' = IF state[h] = "insert" THEN Reported(h) ELSE endpoint
  /\ Answer(job[h], "error")
  /\ Release(h)
  /\ UNCHANGED <<sample, pc, attempt, exported, net, stored, history, clock>>

Fail(h) ==
  /\ state[h] # "idle"
  /\ Answer(job[h], "error")
  /\ Release(h)
  /\ UNCHANGED <<sample, pc, attempt, exported, net, stored, endpoint, history, clock>>

Crash(h) ==
  /\ state[h] # "idle"
  /\ Release(h)
  /\ UNCHANGED <<agent, net, stored, endpoint, history, clock>>

-----------------------------------------------------------------------------
(* The settings views; a write waits for the transaction that has the row.   *)

CreateEndpoint ==
  /\ endpoint.status = "absent"
  /\ lock = Null
  /\ endpoint' = [NoEndpoint EXCEPT !.status = "active"]
  /\ UNCHANGED <<agent, net, stored, state, job, now, lock, history, clock>>

DeactivateEndpoint ==
  /\ endpoint.status = "active"
  /\ lock = Null
  /\ endpoint' = [endpoint EXCEPT !.status = "retired"]
  /\ UNCHANGED <<agent, net, stored, state, job, now, lock, history, clock>>

DeleteEndpoint ==
  /\ endpoint.status # "absent"
  /\ lock = Null
  /\ endpoint' = NoEndpoint
  /\ UNCHANGED <<agent, net, stored, state, job, now, lock, history, clock>>

-----------------------------------------------------------------------------
AgentStep ==
  \/ Collect \/ PostGpu \/ GetGpuReply \/ GpuTimeout
  \/ PostInference \/ ScrapeFails \/ EndRound

ServerStep ==
  \/ \E r \in net : IngestGpu(r)
  \/ \E h \in Handlers, r \in net : TakeInference(h, r)
  \/ \E h \in Handlers : \/ UpsertEndpoint(h) \/ InsertAndCommit(h)
                         \/ Fail(h) \/ Crash(h)

Settings == CreateEndpoint \/ DeactivateEndpoint \/ DeleteEndpoint

Next == AgentStep \/ Restart \/ ServerStep \/ Settings

Spec == Init /\ [][Next]_vars

(* The agent's loop runs on; the server and the network promise nothing.     *)
FairSpec == Spec /\ WF_vars(AgentStep)

-----------------------------------------------------------------------------
(* Everything has its type; the lock is of a handler in its transaction, and *)
(* nothing comes from a sample that was not taken.                           *)
TypeOK ==
  /\ sample \in 0 .. MaxSamples
  /\ pc \in Stages
  /\ attempt \in 0 .. Attempts - 1
  /\ reply \in {Null, "ok", "error"}
  /\ exported \subseteq 1 .. sample
  /\ net \subseteq {r \in Requests : r.sample <= sample}
  /\ stored \in [Samples -> Nat]
  /\ state \in [Handlers -> Steps]
  /\ job \in [Handlers -> Requests \cup {Null}]
  /\ now \in [Handlers -> 0 .. clock]
  /\ lock \in Handlers \cup {Null}
  /\ endpoint \in [status : Statuses, sample : 0 .. sample, lastSeen : 0 .. clock]
  /\ history \subseteq [sample : 1 .. sample, time : 1 .. clock]
  /\ clock \in Nat
  /\ \A h \in Handlers : state[h] = "insert" <=> lock = h
  /\ \A h \in Handlers : job[h] = Null <=> state[h] = "idle"
  /\ \A h \in Handlers : job[h] # Null => job[h].sample <= sample /\ now[h] > 0
  /\ pc # "idle" => sample > 0

(* Retries, timeouts and late requests store a GPU sample three times at     *)
(* most, and an inference sample once.                                       *)
BoundedDuplicates ==
  \A n \in Samples :
    /\ stored[n] <= Attempts
    /\ Cardinality({row \in history : row.sample = n}) <= 1

(* Export returns nil, and "Exported" is logged, only for what was stored.   *)
ExportedIsStored == \A n \in exported : stored[n] > 0

(* What the endpoint shows is a sample of the hypertable, with its time:     *)
(* both were written in one transaction, or neither.                         *)
SnapshotHasSample ==
  endpoint.sample > 0 => [sample |-> endpoint.sample, time |-> endpoint.lastSeen] \in history

(* Agent, network and server implement Delivery: nothing that is lost, late, *)
(* repeated, rolled back or restarted stores a sample once too often, lets   *)
(* the agent log what was not stored, or shows what the hypertable has not.  *)
Kept ==
  INSTANCE Delivery WITH
    Limit        <- Attempts,
    taken        <- sample,
    copies       <- stored,
    acknowledged <- exported,
    shown        <- {[sample |-> n, time |-> endpoint.lastSeen] :
                       n \in {endpoint.sample} \ {0}}
KeepsDelivery == Kept!Spec

(* Whatever the server does with its requests, the agent comes back to its   *)
(* ticker.                                                                   *)
NeverStalls == []<>(pc = "idle")
=============================================================================
