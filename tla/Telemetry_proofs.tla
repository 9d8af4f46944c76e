-------------------------- MODULE Telemetry_proofs --------------------------
(***************************************************************************)
(* Proofs about Telemetry for any number of handlers and samples.           *)
(***************************************************************************)
EXTENDS Telemetry, FiniteSetTheorems, TLAPS

(* Every step of the specification, one named action at a time.              *)
LEMMA NextCases ==
  ASSUME Next
  PROVE  \/ AgentStep \/ Restart
         \/ CreateEndpoint \/ DeactivateEndpoint \/ DeleteEndpoint
         \/ \E r \in net : IngestGpu(r)
         \/ \E h \in Handlers, r \in net : TakeInference(h, r)
         \/ \E h \in Handlers : \/ UpsertEndpoint(h) \/ InsertAndCommit(h)
                                \/ Fail(h) \/ Crash(h)
BY DEF Next, ServerStep, Settings

(* What a step of the agent leaves of the type invariant to check.           *)
AgentTypes ==
  /\ sample \in 0 .. MaxSamples
  /\ pc \in Stages
  /\ attempt \in 0 .. Attempts - 1
  /\ reply \in {Null, "ok", "error"}
  /\ exported \subseteq 1 .. sample
  /\ net \subseteq {r \in Requests : r.sample <= sample}
  /\ pc # "idle" => sample > 0

LEMMA RetryKeepsTypes ==
  ASSUME AgentTypes, pc # "idle", Retry
  PROVE  /\ attempt' \in 0 .. Attempts - 1
         /\ pc' \in Stages
         /\ reply' \in {Null, "ok", "error"}
<1>1. attempt \in 0 .. 2
  BY DEF AgentTypes, Attempts
<1>2. attempt' \in 0 .. 2
  <2>1. CASE attempt + 1 = 3
    BY <1>1, <2>1 DEF Retry, GivesUp, Attempts
  <2>2. CASE attempt + 1 # 3
    BY <1>1, <2>2 DEF Retry, GivesUp, Attempts
  <2>. QED  BY <2>1, <2>2
<1>3. pc' \in {"scrape", "post"} /\ reply' = Null
  BY DEF Retry, AgentAt
<1>. QED  BY <1>2, <1>3 DEF Stages, Attempts

(* The agent's loop keeps its types: it never counts a third failure, and    *)
(* sends no request for a sample it has not taken.                           *)
LEMMA AgentKeepsTypes ==
  ASSUME AgentTypes, AgentStep \/ Restart
  PROVE  AgentTypes' /\ sample <= sample' /\ UNCHANGED server
<1>. USE TelemetryAssumption
<1>1. CASE Collect
  <2>1. sample' = sample + 1 /\ sample' \in 0 .. MaxSamples
    BY <1>1 DEF Collect, AgentTypes
  <2>2. pc' \in Stages /\ reply' = Null
    BY <1>1 DEF Collect, AgentAt, Stages
  <2>3. exported' \subseteq 1 .. sample'
    BY <1>1, <2>1 DEF Collect, AgentTypes
  <2>4. net' \subseteq {r \in Requests : r.sample <= sample'}
    <3>1. \A r \in Requests : r.sample \in Nat
      BY DEF Requests, Samples
    <3>. QED  BY <1>1, <2>1, <3>1 DEF Collect, AgentTypes
  <2>. QED  BY <1>1, <2>1, <2>2, <2>3, <2>4 DEF Collect, AgentTypes, Attempts
<1>2. CASE PostGpu
  <2>1. GpuRequest(attempt + 1) \in {r \in Requests : r.sample <= sample}
    BY <1>2 DEF PostGpu, AgentTypes, GpuRequest, Requests, Samples, Attempts
  <2>. QED  BY <1>2, <2>1 DEF PostGpu, AgentTypes, AgentAt, Stages, Waiting
<1>3. CASE GetGpuReply
  <2>1. sample \in 1 .. sample /\ UNCHANGED <<sample, net, server>> /\ pc # "idle"
    BY <1>3 DEF GetGpuReply, AgentTypes
  <2>2. CASE IsSuccess(reply)
    <3>1. /\ attempt' \in 0 .. Attempts - 1
          /\ pc' \in Stages
          /\ reply' \in {Null, "ok", "error"}
      BY <1>3, <2>2 DEF GetGpuReply, AgentAt, Stages, Attempts
    <3>2. exported' \subseteq 1 .. sample
      BY <1>3, <2>1, <2>2 DEF GetGpuReply, AgentTypes
    <3>. QED  BY <2>1, <3>1, <3>2 DEF AgentTypes
  <2>3. CASE ~IsSuccess(reply)
    <3>1. Retry /\ exported' = exported
      BY <1>3, <2>3 DEF GetGpuReply
    <3>. QED  BY <2>1, <3>1, RetryKeepsTypes DEF AgentTypes
  <2>. QED  BY <2>2, <2>3
<1>4. CASE GpuTimeout
  BY <1>4, RetryKeepsTypes DEF GpuTimeout, Abandoned, AgentTypes
<1>5. CASE PostInference
  <2>1. InferenceRequest \in {r \in Requests : r.sample <= sample}
    BY <1>5 DEF PostInference, AgentTypes, InferenceRequest, Requests, Samples
  <2>. QED  BY <1>5, <2>1 DEF PostInference, AgentTypes, AgentAt, Stages, Waiting
<1>6. CASE ScrapeFails
  BY <1>6 DEF ScrapeFails, AgentTypes, AgentAt, Stages
<1>7. CASE EndRound
  BY <1>7 DEF EndRound, Abandoned, AgentTypes, AgentAt, Stages
<1>8. CASE Restart
  BY <1>8 DEF Restart, AgentTypes, AgentAt, Stages, Attempts
<1>. QED  BY <1>1, <1>2, <1>3, <1>4, <1>5, <1>6, <1>7, <1>8 DEF AgentStep

-----------------------------------------------------------------------------
(* The server's part of the type invariant.                                  *)
ServerTypes ==
  /\ stored \in [Samples -> Nat]
  /\ state \in [Handlers -> Steps]
  /\ job \in [Handlers -> Requests \cup {Null}]
  /\ now \in [Handlers -> 0 .. clock]
  /\ lock \in Handlers \cup {Null}
  /\ endpoint \in [status : Statuses, sample : 0 .. sample, lastSeen : 0 .. clock]
  /\ history \subseteq [sample : 1 .. sample, time : 1 .. clock]
  /\ clock \in Nat
  /\ \A h \in Handlers : state[h] = "insert" <=> lock = h
  /\ \A h \in Handlers : job[h] = Null <=> state[h] = "idle"
  /\ \A h \in Handlers : job[h] # Null => job[h].sample <= sample /\ now[h] > 0

LEMMA TwoParts == TypeOK <=> AgentTypes /\ ServerTypes
BY DEF TypeOK, AgentTypes, ServerTypes

(* A handler that is done keeps the types of the locals.                     *)
LEMMA ReleaseKeepsTypes ==
  ASSUME ServerTypes, NEW h \in Handlers, Release(h), UNCHANGED <<sample, clock>>
  PROVE  /\ state' \in [Handlers -> Steps]
         /\ job' \in [Handlers -> Requests \cup {Null}]
         /\ now' \in [Handlers -> 0 .. clock']
         /\ lock' \in Handlers \cup {Null}
         /\ \A k \in Handlers : state'[k] = "insert" <=> lock' = k
         /\ \A k \in Handlers : job'[k] = Null <=> state'[k] = "idle"
         /\ \A k \in Handlers : job'[k] # Null => job'[k].sample <= sample' /\ now'[k] > 0
BY TelemetryAssumption DEF ServerTypes, Release, Steps

(* Only the steps named here touch the server; the agent's only let the      *)
(* bound on samples grow.                                                    *)
LEMMA ServerKeepsTypes ==
  ASSUME TypeOK, Next
  PROVE  TypeOK'
<1>. USE TelemetryAssumption, NullAssumption
<1>0. AgentTypes /\ ServerTypes
  BY TwoParts
<1>n. clock \in Nat /\ sample \in Nat /\ clock + 1 \in Nat
  BY <1>0 DEF ServerTypes, AgentTypes
<1>a. ASSUME UNCHANGED agent, net' \subseteq net PROVE AgentTypes'
  BY <1>a, <1>0 DEF AgentTypes, agent
<1>b. ASSUME UNCHANGED <<sample, pc, attempt, exported>>, net' \subseteq net,
             NEW r \in Requests, NEW status \in {"ok", "error"}, Answer(r, status)
      PROVE  AgentTypes'
  BY <1>b, <1>0 DEF AgentTypes, Answer
<1>1. ASSUME AgentStep \/ Restart PROVE TypeOK'
  <2>1. AgentTypes' /\ sample <= sample' /\ UNCHANGED server
    BY <1>0, <1>1, AgentKeepsTypes
  <2>2. sample' \in Nat
    BY <2>1 DEF AgentTypes
  <2>3. endpoint' \in [status : Statuses, sample : 0 .. sample', lastSeen : 0 .. clock']
    BY <1>0, <1>n, <2>1, <2>2 DEF ServerTypes, server
  <2>4. history' \subseteq [sample : 1 .. sample', time : 1 .. clock']
    <3>1. 1 .. sample \subseteq 1 .. sample'
      BY <1>n, <2>1, <2>2
    <3>. QED  BY <1>0, <2>1, <3>1 DEF ServerTypes, server
  <2>5. \A h \in Handlers : job'[h] # Null => job'[h].sample <= sample' /\ now'[h] > 0
    <3>. SUFFICES ASSUME NEW h \in Handlers, job[h] # Null
                  PROVE  job[h].sample <= sample' /\ now[h] > 0
      BY <2>1 DEF server
    <3>1. job[h] \in Requests /\ job[h].sample <= sample /\ now[h] > 0
      BY <1>0 DEF ServerTypes
    <3>2. job[h].sample \in Nat
      BY <3>1 DEF Requests, Samples
    <3>. QED  BY <1>n, <2>1, <2>2, <3>1, <3>2
  <2>6. /\ stored' \in [Samples -> Nat]
        /\ state' \in [Handlers -> Steps]
        /\ job' \in [Handlers -> Requests \cup {Null}]
        /\ now' \in [Handlers -> 0 .. clock']
        /\ lock' \in Handlers \cup {Null}
        /\ clock' \in Nat
        /\ \A h \in Handlers : state'[h] = "insert" <=> lock' = h
        /\ \A h \in Handlers : job'[h] = Null <=> state'[h] = "idle"
    BY <1>0, <2>1 DEF ServerTypes, server
  <2>7. ServerTypes'
    BY <2>3, <2>4, <2>5, <2>6 DEF ServerTypes
  <2>. QED  BY <2>1, <2>7, TwoParts DEF TypeOK, AgentTypes, ServerTypes
<1>2. ASSUME NEW r \in net, IngestGpu(r) PROVE TypeOK'
  <2>1. r \in Requests /\ r.sample \in Samples
    BY <1>0 DEF AgentTypes, Requests
  <2>2. \E status \in {"ok", "error"} : Answer(r, status)
    BY <1>2 DEF IngestGpu
  <2>3. AgentTypes'
    BY <1>b, <1>2, <2>1, <2>2 DEF IngestGpu
  <2>4. stored' \in [Samples -> Nat]
    <3>1. CASE UNCHANGED stored
      BY <1>0, <3>1 DEF ServerTypes
    <3>2. CASE stored' = [stored EXCEPT ![r.sample] = @ + 1]
      BY <1>0, <2>1, <3>2 DEF ServerTypes
    <3>. QED  BY <1>2, <3>1, <3>2 DEF IngestGpu
  <2>5. ServerTypes'
    BY <1>0, <1>2, <2>4 DEF IngestGpu, ServerTypes
  <2>. QED  BY <2>3, <2>5 DEF TypeOK, AgentTypes, ServerTypes
<1>3. ASSUME NEW h \in Handlers, NEW r \in net, TakeInference(h, r) PROVE TypeOK'
  <2>. USE <1>3 DEF TakeInference
  <2>1. AgentTypes'
    BY <1>a
  <2>2. r \in Requests /\ r.sample <= sample /\ r # Null
    BY <1>0 DEF AgentTypes
  <2>3. 0 .. clock \subseteq 0 .. clock' /\ 1 .. clock \subseteq 1 .. clock'
        /\ clock + 1 \in 0 .. clock' /\ clock + 1 > 0 /\ clock' \in Nat
    BY <1>n
  <2>4. now' \in [Handlers -> 0 .. clock']
    BY <1>0, <2>3 DEF ServerTypes
  <2>5. endpoint' \in [status : Statuses, sample : 0 .. sample', lastSeen : 0 .. clock']
    BY <1>0, <2>3 DEF ServerTypes, agent
  <2>6. history' \subseteq [sample : 1 .. sample', time : 1 .. clock']
    BY <1>0, <2>3 DEF ServerTypes, agent
  <2>7. /\ state' \in [Handlers -> Steps]
        /\ job' \in [Handlers -> Requests \cup {Null}]
        /\ \A k \in Handlers : state'[k] = "insert" <=> lock' = k
        /\ \A k \in Handlers : job'[k] = Null <=> state'[k] = "idle"
    BY <1>0, <2>2 DEF ServerTypes, Steps
  <2>8. \A k \in Handlers : job'[k] # Null => job'[k].sample <= sample' /\ now'[k] > 0
    BY <1>0, <2>2, <2>3 DEF ServerTypes, agent
  <2>9. ServerTypes'
    BY <1>0, <2>3, <2>4, <2>5, <2>6, <2>7, <2>8 DEF ServerTypes
  <2>. QED  BY <2>1, <2>9 DEF TypeOK, AgentTypes, ServerTypes
<1>4. ASSUME NEW h \in Handlers, UpsertEndpoint(h) PROVE TypeOK'
  <2>1. AgentTypes'
    BY <1>a, <1>4 DEF UpsertEndpoint
  <2>2. ServerTypes'
    BY <1>0, <1>4 DEF UpsertEndpoint, ServerTypes, Steps, agent
  <2>. QED  BY <2>1, <2>2 DEF TypeOK, AgentTypes, ServerTypes
<1>5. ASSUME NEW h \in Handlers, InsertAndCommit(h) PROVE TypeOK'
  <2>1. job[h] \in Requests /\ job[h].sample <= sample /\ now[h] > 0 /\ now[h] \in 0 .. clock
    BY <1>0, <1>5 DEF InsertAndCommit, ServerTypes
  <2>2. job[h].sample \in 1 .. sample /\ now[h] \in 1 .. clock
    BY <1>n, <2>1 DEF Requests, Samples
  <2>3. AgentTypes'
    BY <1>b, <1>5, <2>1 DEF InsertAndCommit
  <2>4. endpoint' \in [status : Statuses, sample : 0 .. sample, lastSeen : 0 .. clock]
    BY <1>5, <2>2 DEF InsertAndCommit, Reported, Statuses
  <2>5. history' \subseteq [sample : 1 .. sample, time : 1 .. clock]
    BY <1>0, <1>5, <2>2 DEF InsertAndCommit, ServerTypes
  <2>6. ServerTypes'
    BY <1>0, <1>5, <2>4, <2>5, ReleaseKeepsTypes DEF InsertAndCommit, ServerTypes
  <2>. QED  BY <2>3, <2>6 DEF TypeOK, AgentTypes, ServerTypes
<1>6. ASSUME NEW h \in Handlers, Fail(h) PROVE TypeOK'
  <2>1. job[h] \in Requests
    BY <1>0, <1>6 DEF Fail, ServerTypes
  <2>2. AgentTypes'
    BY <1>b, <1>6, <2>1 DEF Fail
  <2>3. ServerTypes'
    BY <1>0, <1>6, ReleaseKeepsTypes DEF Fail, ServerTypes
  <2>. QED  BY <2>2, <2>3 DEF TypeOK, AgentTypes, ServerTypes
<1>7. ASSUME NEW h \in Handlers, Crash(h) PROVE TypeOK'
  <2>1. AgentTypes'
    BY <1>a, <1>7 DEF Crash
  <2>2. ServerTypes'
    BY <1>0, <1>7, ReleaseKeepsTypes DEF Crash, ServerTypes, agent
  <2>. QED  BY <2>1, <2>2 DEF TypeOK, AgentTypes, ServerTypes
<1>8. ASSUME CreateEndpoint \/ DeactivateEndpoint \/ DeleteEndpoint PROVE TypeOK'
  <2>1. endpoint' \in [status : Statuses, sample : 0 .. sample, lastSeen : 0 .. clock]
    <3>1. NoEndpoint \in [status : Statuses, sample : 0 .. sample, lastSeen : 0 .. clock]
      BY <1>n DEF NoEndpoint, Statuses
    <3>. QED  BY <1>0, <1>8, <3>1
         DEF CreateEndpoint, DeactivateEndpoint, DeleteEndpoint, ServerTypes, Statuses
  <2>2. /\ UNCHANGED <<agent, net>>
        /\ UNCHANGED <<stored, state, job, now, lock, history, clock>>
    BY <1>8 DEF CreateEndpoint, DeactivateEndpoint, DeleteEndpoint
  <2>3. AgentTypes'
    BY <1>a, <2>2
  <2>4. ServerTypes'
    BY <1>0, <2>1, <2>2 DEF ServerTypes, agent
  <2>. QED  BY <2>3, <2>4 DEF TypeOK, AgentTypes, ServerTypes
<1>. QED  BY <1>1, <1>2, <1>3, <1>4, <1>5, <1>6, <1>7, <1>8, NextCases

(* Everything keeps its type, the lock belongs to the transaction that has   *)
(* the endpoint, and nothing comes from a sample nobody has taken.           *)
THEOREM TypeCorrect == Spec => []TypeOK
<1>1. Init => TypeOK
  BY TelemetryAssumption, NullAssumption
  DEF Init, TypeOK, Stages, Attempts, NoEndpoint, Statuses, Steps
<1>2. TypeOK /\ UNCHANGED vars => TypeOK'
  BY DEF TypeOK, vars, agent, server
<1>3. TypeOK /\ [Next]_vars => TypeOK'
  BY <1>2, ServerKeepsTypes
<1>. QED  BY <1>1, <1>3, PTL DEF Spec

-----------------------------------------------------------------------------
(* SnapshotHasSample: the endpoint and the hypertable change in one step, or *)
(* the endpoint forgets its sample.                                          *)
THEOREM SnapshotIsStored == Spec => []SnapshotHasSample
<1>1. Init => SnapshotHasSample
  BY DEF Init, SnapshotHasSample, NoEndpoint
<1>2. ASSUME TypeOK, SnapshotHasSample, [Next]_vars PROVE SnapshotHasSample'
  <2>1. CASE UNCHANGED <<endpoint, history>>
    BY <1>2, <2>1 DEF SnapshotHasSample
  <2>2. ASSUME NEW h \in Handlers, InsertAndCommit(h) PROVE SnapshotHasSample'
    BY <2>2 DEF InsertAndCommit, Reported, SnapshotHasSample
  <2>3. CASE CreateEndpoint \/ DeleteEndpoint
    BY <2>3 DEF CreateEndpoint, DeleteEndpoint, NoEndpoint, SnapshotHasSample
  <2>4. CASE DeactivateEndpoint
    <3>1. endpoint'.sample = endpoint.sample /\ endpoint'.lastSeen = endpoint.lastSeen
      BY <1>2, <2>4 DEF DeactivateEndpoint, TypeOK
    <3>. QED  BY <1>2, <2>4, <3>1 DEF DeactivateEndpoint, SnapshotHasSample
  <2>5. ASSUME AgentStep \/ Restart PROVE SnapshotHasSample'
    <3>1. UNCHANGED server
      BY <1>2, <2>5, TwoParts, AgentKeepsTypes
    <3>. QED  BY <2>1, <3>1 DEF server
  <2>6. ASSUME NEW r \in net, IngestGpu(r) PROVE SnapshotHasSample'
    BY <2>1, <2>6 DEF IngestGpu
  <2>7. ASSUME NEW h \in Handlers, NEW r \in net, TakeInference(h, r) PROVE SnapshotHasSample'
    BY <2>1, <2>7 DEF TakeInference
  <2>8. ASSUME NEW h \in Handlers, UpsertEndpoint(h) \/ Fail(h) \/ Crash(h)
        PROVE  SnapshotHasSample'
    BY <2>1, <2>8 DEF UpsertEndpoint, Fail, Crash
  <2>9. CASE UNCHANGED vars
    BY <2>1, <2>9 DEF vars, server
  <2>. QED  BY <1>2, <2>2, <2>3, <2>4, <2>5, <2>6, <2>7, <2>8, <2>9, NextCases
<1>. QED  BY <1>1, <1>2, TypeCorrect, PTL DEF Spec

(* ExportedIsStored is not inductive: the agent trusts an answer, and the    *)
(* answer must be about the sample it waits for.  Handlers' jobs are         *)
(* inference requests, so their answers never are.                           *)
OkIsTrue ==
  /\ ExportedIsStored
  /\ pc = "gpuWait" /\ reply = "ok" => stored[sample] > 0
  /\ \A h \in Handlers : job[h] # Null => job[h].kind = "inference"

LEMMA OkHolds == Spec => []OkIsTrue
<1>. USE NullAssumption
<1>1. Init => OkIsTrue
  BY DEF Init, OkIsTrue, ExportedIsStored
<1>2. ASSUME TypeOK, OkIsTrue, [Next]_vars PROVE OkIsTrue'
  <2>. USE <1>2
  <2>a. ASSUME UNCHANGED <<stored, job>>, UNCHANGED exported,
               pc' = "gpuWait" => reply' = Null
        PROVE  OkIsTrue'
    BY <2>a DEF OkIsTrue, ExportedIsStored
  <2>b. ASSUME UNCHANGED <<sample, pc, attempt, exported, stored>>,
               NEW h \in Handlers, job[h] # Null, NEW status, Answer(job[h], status)
        PROVE  /\ ExportedIsStored'
               /\ pc' = "gpuWait" /\ reply' = "ok" => stored'[sample'] > 0
    <3>1. job[h].kind = "inference"
      BY <2>b DEF OkIsTrue
    <3>2. pc = "gpuWait" => job[h] # Awaited
      BY <3>1 DEF Awaited, GpuRequest
    <3>3. pc = "gpuWait" => reply' = reply
      BY <2>b, <3>2 DEF Answer
    <3>. QED  BY <2>b, <3>3 DEF OkIsTrue, ExportedIsStored
  <2>1. ASSUME AgentStep \/ Restart PROVE OkIsTrue'
    <3>1. UNCHANGED server
      BY <2>1, TwoParts, AgentKeepsTypes
    <3>2. CASE GetGpuReply /\ IsSuccess(reply)
      <4>1. exported' = exported \cup {sample} /\ stored[sample] > 0 /\ pc' = "scrape"
        BY <3>2 DEF GetGpuReply, IsSuccess, AgentAt, OkIsTrue
      <4>. QED  BY <3>1, <4>1 DEF server, OkIsTrue, ExportedIsStored
    <3>3. CASE ~(GetGpuReply /\ IsSuccess(reply))
      <4>1. exported' = exported
        BY <2>1, <3>3 DEF AgentStep, Collect, PostGpu, GetGpuReply, GpuTimeout, PostInference,
                         ScrapeFails, EndRound, Restart
      <4>2. reply' = Null
        BY <2>1, <3>3 DEF AgentStep, Collect, PostGpu, GetGpuReply, GpuTimeout, PostInference,
                         ScrapeFails, EndRound, Restart, Retry, AgentAt
      <4>. QED  BY <2>a, <3>1, <4>1, <4>2 DEF server
    <3>. QED  BY <3>2, <3>3
  <2>2. ASSUME NEW r \in net, IngestGpu(r) PROVE OkIsTrue'
    <3>1. r.sample \in Samples
      BY DEF TypeOK, Requests
    <3>2. CASE UNCHANGED stored /\ Answer(r, "error")
      <4>1. reply' = "error" \/ reply' = reply
        BY <3>2 DEF Answer
      <4>. QED  BY <2>2, <3>2, <4>1 DEF IngestGpu, OkIsTrue, ExportedIsStored
    <3>3. CASE stored' = [stored EXCEPT ![r.sample] = @ + 1] /\ Answer(r, "ok")
      <4>1. \A n \in Samples : stored[n] \in Nat /\ stored'[n] \in Nat
                               /\ (stored[n] > 0 => stored'[n] > 0)
        BY <3>1, <3>3 DEF TypeOK
      <4>2. stored'[r.sample] > 0
        BY <3>1, <3>3 DEF TypeOK
      <4>3. ExportedIsStored'
        <5>1. exported \subseteq Samples
          BY TelemetryAssumption DEF TypeOK, Samples
        <5>. QED  BY <2>2, <4>1, <5>1 DEF IngestGpu, OkIsTrue, ExportedIsStored
      <4>4. ASSUME pc = "gpuWait", reply' = "ok" PROVE stored'[sample] > 0
        <5>1. CASE r = Awaited
          BY <4>2, <4>4, <5>1 DEF Awaited, GpuRequest
        <5>2. CASE r # Awaited
          <6>1. reply = "ok" /\ sample \in Samples
            BY <3>3, <4>4, <5>2, TelemetryAssumption DEF Answer, TypeOK, Samples
          <6>. QED  BY <4>1, <4>4, <6>1 DEF OkIsTrue
        <5>. QED  BY <5>1, <5>2
      <4>. QED  BY <2>2, <4>3, <4>4 DEF IngestGpu, OkIsTrue
    <3>. QED  BY <2>2, <3>2, <3>3 DEF IngestGpu
  <2>3. ASSUME NEW h \in Handlers, NEW r \in net, TakeInference(h, r) PROVE OkIsTrue'
    <3>1. \A k \in Handlers : job'[k] # Null => job'[k].kind = "inference"
      BY <2>3 DEF TakeInference, OkIsTrue, TypeOK
    <3>. QED  BY <2>3, <3>1 DEF TakeInference, agent, OkIsTrue, ExportedIsStored
  <2>4. ASSUME NEW h \in Handlers, InsertAndCommit(h) \/ Fail(h) PROVE OkIsTrue'
    <3>1. job[h] # Null
      BY <2>4 DEF InsertAndCommit, Fail, TypeOK
    <3>2. \E status : Answer(job[h], status)
      BY <2>4 DEF InsertAndCommit, Fail
    <3>3. UNCHANGED <<sample, pc, attempt, exported, stored>> /\ Release(h)
      BY <2>4 DEF InsertAndCommit, Fail
    <3>4. \A k \in Handlers : job'[k] # Null => job'[k].kind = "inference"
      BY <3>3 DEF Release, OkIsTrue, TypeOK
    <3>. QED  BY <2>b, <3>1, <3>2, <3>3, <3>4 DEF OkIsTrue
  <2>5. ASSUME NEW h \in Handlers, UpsertEndpoint(h) \/ Crash(h) PROVE OkIsTrue'
    <3>1. \A k \in Handlers : job'[k] # Null => job'[k].kind = "inference"
      BY <2>5 DEF UpsertEndpoint, Crash, Release, OkIsTrue, TypeOK
    <3>. QED  BY <2>5, <3>1 DEF UpsertEndpoint, Crash, agent, OkIsTrue, ExportedIsStored
  <2>6. CASE CreateEndpoint \/ DeactivateEndpoint \/ DeleteEndpoint
    BY <2>6 DEF CreateEndpoint, DeactivateEndpoint, DeleteEndpoint, agent, OkIsTrue,
                ExportedIsStored
  <2>7. CASE UNCHANGED vars
    BY <2>7 DEF vars, agent, server, OkIsTrue, ExportedIsStored
  <2>. QED  BY <2>1, <2>2, <2>3, <2>4, <2>5, <2>6, <2>7, NextCases
<1>. QED  BY <1>1, <1>2, TypeCorrect, PTL DEF Spec

(* Export returns nil, and "Exported" is logged, only for what was stored.   *)
THEOREM ExportedWasStored == Spec => []ExportedIsStored
<1>1. OkIsTrue => ExportedIsStored
  BY DEF OkIsTrue
<1>. QED  BY <1>1, OkHolds, PTL

-----------------------------------------------------------------------------
(* How often a GPU sample is stored.  Each attempt of the agent is one        *)
(* request, which is stored once at most: what is stored of a sample, and     *)
(* what may still be, is no more than the attempts made so far.               *)
Sent(n) == {r \in net : r.kind = "gpu" /\ r.sample = n}

AttemptsMade(n) ==
  IF n > sample THEN 0
  ELSE IF n < sample THEN Attempts
  ELSE IF pc = "post" THEN attempt
  ELSE IF pc = "gpuWait" THEN attempt + 1 ELSE Attempts

SentInv ==
  \A n \in Samples : /\ IsFiniteSet(Sent(n))
                     /\ stored[n] + Cardinality(Sent(n)) <= AttemptsMade(n)

LEMMA CountsAreNumbers ==
  ASSUME TypeOK, SentInv, NEW n \in Samples
  PROVE  /\ IsFiniteSet(Sent(n)) /\ Cardinality(Sent(n)) \in Nat /\ stored[n] \in Nat
         /\ AttemptsMade(n) \in 0 .. 3
<1>1. /\ IsFiniteSet(Sent(n)) /\ Cardinality(Sent(n)) \in Nat /\ stored[n] \in Nat
  BY FS_CardinalityType DEF SentInv, TypeOK
<1>2. attempt \in 0 .. 2
  BY DEF TypeOK, Attempts
<1>. QED  BY <1>1, <1>2 DEF AttemptsMade, Attempts

LEMMA NothingSent ==
  ASSUME TypeOK, SentInv, stored' = stored,
         NEW n \in Samples, Sent(n)' \subseteq Sent(n), AttemptsMade(n) <= AttemptsMade(n)',
         AttemptsMade(n)' \in Nat
  PROVE  IsFiniteSet(Sent(n)') /\ stored'[n] + Cardinality(Sent(n)') <= AttemptsMade(n)'
<1>1. /\ IsFiniteSet(Sent(n)') /\ Cardinality(Sent(n)') <= Cardinality(Sent(n))
      /\ Cardinality(Sent(n)') \in Nat
  BY CountsAreNumbers, FS_Subset, FS_CardinalityType
<1>. QED  BY <1>1, CountsAreNumbers DEF SentInv

(* The agent's steps, but for the post itself, send no GPU request.           *)
LEMMA AgentSendsOnce ==
  ASSUME TypeOK, AgentStep \/ Restart, ~PostGpu, NEW n \in Samples
  PROVE  /\ Sent(n)' \subseteq Sent(n)
         /\ AttemptsMade(n) <= AttemptsMade(n)' /\ AttemptsMade(n)' \in Nat
<1>1. attempt \in 0 .. 2 /\ sample \in Nat /\ n \in Nat
  BY DEF TypeOK, Attempts, Samples
<1>. USE DEF Attempts
<1>2. CASE Collect
  BY <1>1, <1>2 DEF Collect, AgentAt, Sent, AttemptsMade
<1>3. ASSUME UNCHANGED sample, net' \subseteq net, pc = "gpuWait", Retry
      PROVE  /\ Sent(n)' \subseteq Sent(n)
             /\ AttemptsMade(n) <= AttemptsMade(n)' /\ AttemptsMade(n)' \in Nat
  <2>1. Sent(n)' \subseteq Sent(n)
    BY <1>3 DEF Sent
  <2>2. CASE attempt + 1 = 3
    BY <1>1, <1>3, <2>1, <2>2 DEF Retry, GivesUp, AgentAt, AttemptsMade
  <2>3. CASE attempt + 1 # 3
    BY <1>1, <1>3, <2>1, <2>3 DEF Retry, GivesUp, AgentAt, AttemptsMade
  <2>. QED  BY <2>2, <2>3
<1>4. CASE GetGpuReply
  <2>1. CASE IsSuccess(reply)
    BY <1>1, <1>4, <2>1 DEF GetGpuReply, AgentAt, Sent, AttemptsMade
  <2>2. CASE ~IsSuccess(reply)
    BY <1>3, <1>4, <2>2 DEF GetGpuReply
  <2>. QED  BY <2>1, <2>2
<1>5. CASE GpuTimeout
  BY <1>3, <1>5 DEF GpuTimeout, Abandoned
<1>6. CASE PostInference
  BY <1>1, <1>6 DEF PostInference, InferenceRequest, AgentAt, Sent, AttemptsMade
<1>7. CASE ScrapeFails \/ EndRound \/ Restart
  <2>1. UNCHANGED sample /\ net' \subseteq net /\ pc' = "idle"
    BY <1>7 DEF ScrapeFails, EndRound, Restart, Abandoned, AgentAt
  <2>. QED  BY <1>1, <2>1 DEF Sent, AttemptsMade
<1>. QED  BY <1>2, <1>4, <1>5, <1>6, <1>7 DEF AgentStep

LEMMA SentStep ==
  ASSUME TypeOK, SentInv, [Next]_vars
  PROVE  SentInv'
<1>0. AgentTypes
  BY TwoParts
<1>1. ASSUME UNCHANGED <<sample, pc, attempt, stored>>, net' \subseteq net
      PROVE  SentInv'
  <2>. SUFFICES ASSUME NEW n \in Samples
                PROVE  /\ IsFiniteSet(Sent(n)')
                       /\ stored'[n] + Cardinality(Sent(n)') <= AttemptsMade(n)'
    BY DEF SentInv
  <2>1. Sent(n)' \subseteq Sent(n) /\ AttemptsMade(n)' = AttemptsMade(n)
    BY <1>1 DEF Sent, AttemptsMade
  <2>2. AttemptsMade(n) \in Nat
    BY CountsAreNumbers
  <2>. QED  BY <1>1, <2>1, <2>2, NothingSent
<1>2. ASSUME AgentStep \/ Restart, ~PostGpu PROVE SentInv'
  <2>1. stored' = stored
    BY <1>0, <1>2, AgentKeepsTypes DEF server
  <2>. QED  BY <1>2, <2>1, AgentSendsOnce, NothingSent DEF SentInv
<1>3. ASSUME PostGpu PROVE SentInv'
  <2>. SUFFICES ASSUME NEW n \in Samples
                PROVE  /\ IsFiniteSet(Sent(n)')
                       /\ stored'[n] + Cardinality(Sent(n)') <= AttemptsMade(n)'
    BY DEF SentInv
  <2>1. /\ stored' = stored /\ UNCHANGED <<sample, attempt>> /\ pc = "post" /\ pc' = "gpuWait"
        /\ net' = net \cup {GpuRequest(attempt + 1)}
    BY <1>3 DEF PostGpu, AgentAt, server
  <2>2. CASE n # sample
    <3>0. sample \in Nat /\ n \in Nat
      BY DEF TypeOK, Samples
    <3>1. Sent(n)' \subseteq Sent(n) /\ AttemptsMade(n)' = AttemptsMade(n)
      BY <2>1, <2>2, <3>0 DEF Sent, AttemptsMade, GpuRequest
    <3>2. AttemptsMade(n) \in Nat
      BY CountsAreNumbers
    <3>. QED  BY <2>1, <3>1, <3>2, NothingSent
  <2>3. CASE n = sample
    <3>1. Sent(n)' = Sent(n) \cup {GpuRequest(attempt + 1)}
      BY <2>1, <2>3 DEF Sent, GpuRequest
    <3>2. IsFiniteSet(Sent(n)) /\ Cardinality(Sent(n)) \in Nat /\ stored[n] \in Nat
      BY CountsAreNumbers
    <3>3. /\ IsFiniteSet(Sent(n)') /\ Cardinality(Sent(n)') \in Nat
          /\ Cardinality(Sent(n)') <= Cardinality(Sent(n)) + 1
      <4>1. CASE GpuRequest(attempt + 1) \in Sent(n)
        <5>1. Sent(n)' = Sent(n)
          BY <3>1, <4>1
        <5>. QED  BY <3>2, <5>1
      <4>2. CASE GpuRequest(attempt + 1) \notin Sent(n)
        <5>1. /\ IsFiniteSet(Sent(n) \cup {GpuRequest(attempt + 1)})
              /\ Cardinality(Sent(n) \cup {GpuRequest(attempt + 1)}) = Cardinality(Sent(n)) + 1
          BY <3>2, <4>2, FS_AddElement
        <5>. QED  BY <3>1, <3>2, <5>1
      <4>. QED  BY <4>1, <4>2
    <3>4. /\ AttemptsMade(n) = attempt /\ AttemptsMade(n)' = attempt + 1 /\ attempt \in Nat
          /\ stored[n] + Cardinality(Sent(n)) <= AttemptsMade(n)
      BY <2>1, <2>3 DEF AttemptsMade, TypeOK, SentInv, Samples
    <3>. QED  BY <2>1, <3>2, <3>3, <3>4
  <2>. QED  BY <2>2, <2>3
<1>4. ASSUME NEW r \in net, IngestGpu(r) PROVE SentInv'
  <2>1. /\ UNCHANGED <<sample, pc, attempt>> /\ net' = net \ {r} /\ r.kind = "gpu"
        /\ r.sample \in Samples
    BY <1>4 DEF IngestGpu, TypeOK, Requests
  <2>2. CASE UNCHANGED stored
    BY <1>1, <2>1, <2>2
  <2>3. CASE stored' = [stored EXCEPT ![r.sample] = @ + 1]
    <3>. SUFFICES ASSUME NEW n \in Samples
                  PROVE  /\ IsFiniteSet(Sent(n)')
                         /\ stored'[n] + Cardinality(Sent(n)') <= AttemptsMade(n)'
      BY DEF SentInv
    <3>1. /\ IsFiniteSet(Sent(n)) /\ Cardinality(Sent(n)) \in Nat /\ stored[n] \in Nat
          /\ AttemptsMade(n) \in Nat /\ AttemptsMade(n)' = AttemptsMade(n)
          /\ stored[n] + Cardinality(Sent(n)) <= AttemptsMade(n)
      BY <2>1, CountsAreNumbers DEF AttemptsMade, SentInv
    <3>2. CASE n = r.sample
      <4>1. Sent(n)' = Sent(n) \ {r} /\ r \in Sent(n)
        BY <2>1, <3>2 DEF Sent
      <4>2. Cardinality(Sent(n)') = Cardinality(Sent(n)) - 1 /\ IsFiniteSet(Sent(n)')
        BY <3>1, <4>1, FS_RemoveElement
      <4>3. stored'[n] = stored[n] + 1
        BY <2>3, <3>2 DEF TypeOK
      <4>. QED  BY <3>1, <4>2, <4>3
    <3>3. CASE n # r.sample
      <4>1. Sent(n)' = Sent(n) /\ stored'[n] = stored[n]
        BY <2>1, <2>3, <3>3 DEF Sent, TypeOK
      <4>. QED  BY <3>1, <4>1
    <3>. QED  BY <3>2, <3>3
  <2>. QED  BY <1>4, <2>2, <2>3 DEF IngestGpu
<1>5. CASE \E h \in Handlers, r \in net : TakeInference(h, r)
  BY <1>1, <1>5 DEF TakeInference, agent
<1>6. CASE \E h \in Handlers : \/ UpsertEndpoint(h) \/ InsertAndCommit(h)
                               \/ Fail(h) \/ Crash(h)
  BY <1>1, <1>6 DEF UpsertEndpoint, InsertAndCommit, Fail, Crash, agent
<1>7. CASE CreateEndpoint \/ DeactivateEndpoint \/ DeleteEndpoint
  BY <1>1, <1>7 DEF CreateEndpoint, DeactivateEndpoint, DeleteEndpoint, agent
<1>8. CASE UNCHANGED vars
  BY <1>1, <1>8 DEF vars, agent, server
<1>. QED  BY <1>2, <1>3, <1>4, <1>5, <1>6, <1>7, <1>8, NextCases DEF AgentStep

-----------------------------------------------------------------------------
(* How often an inference sample is stored.  It is in one place at most: not  *)
(* sent yet, in its request, in the transaction of a handler, or in the table.*)
IsJob(h, n) == job[h] # Null /\ job[h].sample = n
InTable  == {row.sample : row \in history}
OnItsWay == {r.sample : r \in {q \in net : q.kind = "inference"}}
BeforeIt(n) == sample < n \/ (sample = n /\ pc \in {"post", "gpuWait", "scrape"})

OnceInv ==
  /\ \A r \in net : r.kind = "inference" => r.sample \notin InTable
  /\ \A h \in Handlers : job[h] # Null =>
         /\ job[h].kind = "inference" /\ job[h].sample \notin InTable
         /\ job[h].sample \notin OnItsWay
  /\ \A h, k \in Handlers :
       job[h] # Null /\ job[k] # Null /\ job[h].sample = job[k].sample => h = k
  /\ \A a, b \in history : a.sample = b.sample => a = b
  /\ \A n \in Samples : BeforeIt(n) =>
         /\ n \notin InTable /\ n \notin OnItsWay
         /\ \A h \in Handlers : ~IsJob(h, n)

(* A step that sends and stores nothing, and ends jobs at most.               *)
LEMMA NothingMoves ==
  ASSUME OnceInv, history' = history,
         \A r \in net' : r.kind = "inference" => r \in net,
         \A h \in Handlers : job'[h] # Null => job'[h] = job[h],
         \A n \in Samples : BeforeIt(n)' => BeforeIt(n)
  PROVE  OnceInv'
<1>1. \A n : n \in InTable' <=> n \in InTable
  BY DEF InTable
<1>2. \A n : n \in OnItsWay' => n \in OnItsWay
  BY DEF OnItsWay
<1>3. \A h \in Handlers, n \in Samples : IsJob(h, n)' => IsJob(h, n)
  BY DEF IsJob
<1>. QED  BY <1>1, <1>2, <1>3 DEF OnceInv

LEMMA OnceStep ==
  ASSUME TypeOK, OnceInv, [Next]_vars
  PROVE  OnceInv'
<1>. USE TelemetryAssumption, NullAssumption
<1>0. AgentTypes
  BY TwoParts
<1>a. ASSUME UNCHANGED <<sample, pc, history>>, net' \subseteq net,
             \A h \in Handlers : job'[h] # Null => job'[h] = job[h]
      PROVE  OnceInv'
  BY <1>a, NothingMoves DEF BeforeIt
<1>1. ASSUME AgentStep \/ Restart, ~PostInference PROVE OnceInv'
  <2>1. UNCHANGED <<history, job>>
    BY <1>0, <1>1, AgentKeepsTypes DEF server
  <2>2. \A r \in net' : r.kind = "inference" => r \in net
    BY <1>1 DEF AgentStep, Collect, PostGpu, GpuRequest, GetGpuReply, GpuTimeout, ScrapeFails,
       EndRound, Restart, Abandoned
  <2>3. sample \in Nat
    BY DEF TypeOK
  <2>4. \A n \in Nat : BeforeIt(n)' => BeforeIt(n)
    BY <1>1, <2>3 DEF AgentStep, Collect, PostGpu, GetGpuReply, GpuTimeout, ScrapeFails,
       EndRound, Restart, Retry, AgentAt, BeforeIt
  <2>. QED  BY <2>1, <2>2, <2>4, NothingMoves DEF Samples
<1>2. ASSUME PostInference PROVE OnceInv'
  <2>1. /\ pc = "scrape" /\ pc' = "vllmWait" /\ UNCHANGED <<sample, history, job>>
        /\ net' = net \cup {InferenceRequest}
    BY <1>2 DEF PostInference, AgentAt, server
  <2>2. sample \in Samples
    BY <2>1 DEF TypeOK, Samples
  <2>3. /\ BeforeIt(sample) /\ sample \notin InTable /\ sample \notin OnItsWay
        /\ \A h \in Handlers : ~IsJob(h, sample)
    BY <2>1, <2>2 DEF BeforeIt, OnceInv
  <2>4. \A n : n \in InTable' <=> n \in InTable
    BY <2>1 DEF InTable
  <2>5. \A n : n # sample => (n \in OnItsWay' <=> n \in OnItsWay)
    BY <2>1 DEF OnItsWay, InferenceRequest
  <2>6. \A n \in Samples : BeforeIt(n)' => BeforeIt(n) /\ n # sample
    BY <2>1, <2>2 DEF BeforeIt, Samples
  <2>7. \A h \in Handlers, n \in Samples : IsJob(h, n)' <=> IsJob(h, n)
    BY <2>1 DEF IsJob
  <2>8. \A r \in net' : r.kind = "inference" => r.sample \notin InTable'
    BY <2>1, <2>3, <2>4 DEF OnceInv, InferenceRequest
  <2>9. \A h \in Handlers : job'[h] # Null =>
         /\ job'[h].kind = "inference" /\ job'[h].sample \notin InTable'
         /\ job'[h].sample \notin OnItsWay'
    BY <2>1, <2>3, <2>4, <2>5 DEF OnceInv, IsJob
  <2>10. \A n \in Samples : BeforeIt(n)' =>
         /\ n \notin InTable' /\ n \notin OnItsWay'
         /\ \A h \in Handlers : ~IsJob(h, n)'
    BY <2>4, <2>5, <2>6, <2>7 DEF OnceInv
  <2>. QED  BY <2>1, <2>8, <2>9, <2>10 DEF OnceInv
<1>3. ASSUME NEW r \in net, IngestGpu(r) PROVE OnceInv'
  BY <1>3, <1>a DEF IngestGpu
<1>4. ASSUME NEW h \in Handlers, NEW r \in net, TakeInference(h, r) PROVE OnceInv'
  <2>1. /\ UNCHANGED <<sample, pc, history>> /\ net' = net \ {r} /\ r.kind = "inference"
        /\ job' = [job EXCEPT ![h] = r] /\ job[h] = Null
    BY <1>4 DEF TakeInference, agent, TypeOK
  <2>2. r \in Requests /\ r # Null
    BY DEF TypeOK
  <2>3. \A q \in net : q.kind = "inference" /\ q.sample = r.sample => q = r
    BY <2>1, <2>2 DEF TypeOK, Requests
  <2>4. \A n : n \in InTable' <=> n \in InTable
    BY <2>1 DEF InTable
  <2>5. /\ r.sample \in OnItsWay /\ r.sample \notin OnItsWay' /\ r.sample \notin InTable
        /\ \A n : n \in OnItsWay' => n \in OnItsWay
    BY <2>1, <2>3 DEF OnItsWay, OnceInv
  <2>6. \A k \in Handlers : job'[k] = IF k = h THEN r ELSE job[k]
    BY <2>1 DEF TypeOK
  <2>7. \A k \in Handlers : job[k] # Null => job[k].sample # r.sample
    BY <2>5 DEF OnceInv
  <2>8. \A k \in Handlers : job'[k] # Null =>
         /\ job'[k].kind = "inference" /\ job'[k].sample \notin InTable'
         /\ job'[k].sample \notin OnItsWay'
    BY <2>1, <2>4, <2>5, <2>6 DEF OnceInv
  <2>9. \A k, l \in Handlers :
          job'[k] # Null /\ job'[l] # Null /\ job'[k].sample = job'[l].sample => k = l
    BY <2>6, <2>7 DEF OnceInv
  <2>10. \A n \in Samples : BeforeIt(n)' =>
         /\ n \notin InTable' /\ n \notin OnItsWay'
         /\ \A k \in Handlers : ~IsJob(k, n)'
    <3>1. \A n \in Samples : BeforeIt(n)' => BeforeIt(n)
      BY <2>1 DEF BeforeIt
    <3>2. \A n \in Samples : BeforeIt(n) => n # r.sample
      BY <2>5 DEF OnceInv
    <3>3. \A k \in Handlers, n \in Samples : IsJob(k, n)' => IsJob(k, n) \/ n = r.sample
      BY <2>6 DEF IsJob
    <3>. QED  BY <2>4, <2>5, <3>1, <3>2, <3>3 DEF OnceInv
  <2>11. \A q \in net' : q.kind = "inference" => q.sample \notin InTable'
    BY <2>1, <2>4 DEF OnceInv
  <2>. QED  BY <2>1, <2>8, <2>9, <2>10, <2>11 DEF OnceInv
<1>5. ASSUME NEW h \in Handlers, InsertAndCommit(h) PROVE OnceInv'
  <2>1. /\ UNCHANGED <<sample, pc, net>> /\ job[h] # Null
        /\ history' = history \cup {[sample |-> job[h].sample, time |-> now[h]]}
        /\ job' = [job EXCEPT ![h] = Null]
    BY <1>5 DEF InsertAndCommit, Release, TypeOK
  <2>2. /\ job[h].sample \notin InTable /\ job[h].sample \notin OnItsWay
    BY <2>1 DEF OnceInv
  <2>3. \A n : n # job[h].sample => (n \in InTable' <=> n \in InTable)
    BY <2>1 DEF InTable
  <2>4. \A n : n \in OnItsWay' <=> n \in OnItsWay
    BY <2>1 DEF OnItsWay
  <2>5. \A k \in Handlers : job'[k] = IF k = h THEN Null ELSE job[k]
    BY <2>1 DEF TypeOK
  <2>6. \A k \in Handlers : job'[k] # Null => job'[k] = job[k] /\ job[k].sample # job[h].sample
    BY <2>1, <2>5 DEF OnceInv
  <2>7. \A r \in net' : r.kind = "inference" => r.sample \notin InTable'
    BY <2>1, <2>2, <2>3 DEF OnceInv, OnItsWay
  <2>8. \A k \in Handlers : job'[k] # Null =>
         /\ job'[k].kind = "inference" /\ job'[k].sample \notin InTable'
         /\ job'[k].sample \notin OnItsWay'
    BY <2>3, <2>4, <2>6 DEF OnceInv
  <2>9. \A k, l \in Handlers :
          job'[k] # Null /\ job'[l] # Null /\ job'[k].sample = job'[l].sample => k = l
    BY <2>6 DEF OnceInv
  <2>10. \A a, b \in history' : a.sample = b.sample => a = b
    BY <2>1, <2>2 DEF OnceInv, InTable
  <2>11. \A n \in Samples : BeforeIt(n)' =>
         /\ n \notin InTable' /\ n \notin OnItsWay'
         /\ \A k \in Handlers : ~IsJob(k, n)'
    <3>1. \A n \in Samples : BeforeIt(n)' => BeforeIt(n)
      BY <2>1 DEF BeforeIt
    <3>2. \A n \in Samples : BeforeIt(n) => n # job[h].sample
      BY <2>1 DEF OnceInv, IsJob
    <3>3. \A k \in Handlers, n \in Samples : IsJob(k, n)' => IsJob(k, n)
      BY <2>5 DEF IsJob
    <3>. QED  BY <2>3, <2>4, <3>1, <3>2, <3>3 DEF OnceInv
  <2>. QED  BY <2>7, <2>8, <2>9, <2>10, <2>11 DEF OnceInv
<1>6. ASSUME NEW h \in Handlers, UpsertEndpoint(h) \/ Fail(h) \/ Crash(h) PROVE OnceInv'
  <2>1. UNCHANGED <<sample, pc, history, net>>
    BY <1>6 DEF UpsertEndpoint, Fail, Crash, agent
  <2>2. \A k \in Handlers : job'[k] # Null => job'[k] = job[k]
    BY <1>6 DEF UpsertEndpoint, Fail, Crash, Release, TypeOK
  <2>. QED  BY <1>a, <2>1, <2>2
<1>7. CASE CreateEndpoint \/ DeactivateEndpoint \/ DeleteEndpoint
  BY <1>a, <1>7 DEF CreateEndpoint, DeactivateEndpoint, DeleteEndpoint, agent
<1>8. CASE UNCHANGED vars
  BY <1>a, <1>8 DEF vars, agent, server
<1>. QED  BY <1>1, <1>2, <1>3, <1>4, <1>5, <1>6, <1>7, <1>8, NextCases

LEMMA SentHolds == Spec => []SentInv
<1>1. Init => SentInv
  <2>. SUFFICES ASSUME Init, NEW n \in Samples
                PROVE  /\ IsFiniteSet(Sent(n))
                       /\ stored[n] + Cardinality(Sent(n)) <= AttemptsMade(n)
    BY DEF SentInv
  <2>1. Sent(n) = {} /\ stored[n] = 0 /\ AttemptsMade(n) = 0
    BY DEF Init, Sent, AttemptsMade, Samples
  <2>. QED  BY <2>1, FS_EmptySet
<1>2. TypeOK /\ SentInv /\ [Next]_vars => SentInv'
  BY SentStep
<1>. QED  BY <1>1, <1>2, TypeCorrect, PTL DEF Spec

LEMMA OnceHolds == Spec => []OnceInv
<1>1. Init => OnceInv
  BY DEF Init, OnceInv, InTable, OnItsWay, IsJob
<1>2. TypeOK /\ OnceInv /\ [Next]_vars => OnceInv'
  BY OnceStep
<1>. QED  BY <1>1, <1>2, TypeCorrect, PTL DEF Spec

(* However requests are lost, late or repeated, a GPU sample is stored three  *)
(* times at most and an inference sample once.                                *)
THEOREM DuplicatesAreBounded == Spec => []BoundedDuplicates
<1>1. TypeOK /\ SentInv /\ OnceInv => BoundedDuplicates
  <2>. SUFFICES ASSUME TypeOK, SentInv, OnceInv, NEW n \in Samples
                PROVE  /\ stored[n] <= Attempts
                       /\ Cardinality({row \in history : row.sample = n}) <= 1
    BY DEF BoundedDuplicates
  <2>1. stored[n] <= Attempts
    <3>1. /\ Cardinality(Sent(n)) \in Nat /\ stored[n] \in Nat /\ AttemptsMade(n) \in 0 .. 3
          /\ stored[n] + Cardinality(Sent(n)) <= AttemptsMade(n)
      BY CountsAreNumbers DEF SentInv
    <3>. QED  BY <3>1 DEF Attempts
  <2>2. CASE {row \in history : row.sample = n} = {}
    BY <2>1, <2>2, FS_EmptySet
  <2>3. CASE {row \in history : row.sample = n} # {}
    <3>1. PICK row \in history : row.sample = n
      BY <2>3
    <3>2. {other \in history : other.sample = n} = {row}
      BY <3>1 DEF OnceInv
    <3>. QED  BY <2>1, <3>2, FS_Singleton
  <2>. QED  BY <2>2, <2>3
<1>. QED  BY <1>1, SentHolds, OnceHolds, TypeCorrect, PTL

-----------------------------------------------------------------------------
(* The variables of Delivery, and its steps.                                 *)
Shown     == {[sample |-> n, time |-> endpoint.lastSeen] : n \in {endpoint.sample} \ {0}}
Delivered == <<sample, stored, exported, history, Shown>>

DeliveryInv == TypeOK /\ OkIsTrue /\ SentInv /\ OnceInv

LEMMA ShownStays ==
  ASSUME TypeOK, UNCHANGED <<sample, stored, exported, history>>,
         \/ UNCHANGED endpoint
         \/ DeactivateEndpoint
         \/ CreateEndpoint \/ DeleteEndpoint
  PROVE  [Kept!Next]_Delivered
<1>1. CASE UNCHANGED endpoint
  BY <1>1 DEF Delivered, Shown
<1>2. CASE DeactivateEndpoint
  <2>1. endpoint'.sample = endpoint.sample /\ endpoint'.lastSeen = endpoint.lastSeen
    BY <1>2 DEF DeactivateEndpoint, TypeOK
  <2>. QED  BY <2>1 DEF Delivered, Shown
<1>3. CASE CreateEndpoint \/ DeleteEndpoint
  <2>1. endpoint'.sample = 0
    BY <1>3 DEF CreateEndpoint, DeleteEndpoint, NoEndpoint
  <2>2. Shown' = {}
    BY <2>1 DEF Shown
  <2>. QED  BY <2>2 DEF Kept!Next, Kept!Clear, Shown
<1>. QED  BY <1>1, <1>2, <1>3

LEMMA AgentDelivers ==
  ASSUME DeliveryInv, AgentStep \/ Restart
  PROVE  [Kept!Next]_Delivered
<1>1. UNCHANGED server
  BY AgentKeepsTypes, TwoParts DEF DeliveryInv
<1>2. UNCHANGED <<stored, history, endpoint, Shown>>
  BY <1>1 DEF server, Shown
<1>3. CASE Collect
  BY <1>2, <1>3 DEF Collect, Kept!Next, Kept!Take, Shown
<1>4. CASE GetGpuReply /\ IsSuccess(reply)
  <2>1. /\ stored[sample] > 0 /\ sample > 0 /\ sample' = sample
        /\ exported' = exported \cup {sample}
    BY <1>4 DEF DeliveryInv, OkIsTrue, TypeOK, GetGpuReply, IsSuccess
  <2>. QED  BY <1>2, <2>1 DEF Kept!Next, Kept!Acknowledge, Shown
<1>5. CASE ~Collect /\ ~(GetGpuReply /\ IsSuccess(reply))
  <2>1. UNCHANGED <<sample, exported>>
    BY <1>5 DEF AgentStep, PostGpu, GetGpuReply, GpuTimeout, PostInference, ScrapeFails,
       EndRound, Restart
  <2>. QED  BY <1>2, <2>1 DEF Delivered
<1>. QED  BY <1>3, <1>4, <1>5

(* There is room for one copy more: the request that brings it was counted.  *)
LEMMA GpuDelivers ==
  ASSUME DeliveryInv, NEW r \in net, IngestGpu(r)
  PROVE  [Kept!Next]_Delivered
<1>1. /\ r.kind = "gpu" /\ r.sample \in Samples /\ r.sample <= sample
      /\ UNCHANGED <<sample, exported, history, endpoint>>
  BY DEF IngestGpu, DeliveryInv, TypeOK, Requests
<1>2. PICK n \in Samples : n = r.sample
  BY <1>1
<1>3. stored[n] < 3
  <2>1. /\ IsFiniteSet(Sent(n)) /\ Cardinality(Sent(n)) \in Nat /\ stored[n] \in Nat
        /\ AttemptsMade(n) \in 0 .. 3
        /\ stored[n] + Cardinality(Sent(n)) <= AttemptsMade(n)
    BY CountsAreNumbers DEF DeliveryInv, SentInv
  <2>2. r \in Sent(n)
    BY <1>1, <1>2 DEF Sent
  <2>3. Cardinality(Sent(n)) # 0
    BY <2>1, <2>2, FS_EmptySet
  <2>. QED  BY <2>1, <2>3
<1>4. CASE UNCHANGED stored
  BY <1>1, <1>4, ShownStays DEF DeliveryInv
<1>5. CASE stored' = [stored EXCEPT ![r.sample] = @ + 1]
  <2>1. Kept!Store(n)
    BY <1>1, <1>2, <1>3, <1>5 DEF Kept!Store, Shown, Attempts
  <2>. QED  BY <2>1 DEF Kept!Next, Samples
<1>. QED  BY <1>4, <1>5 DEF IngestGpu

LEMMA InferenceDelivers ==
  ASSUME DeliveryInv, NEW h \in Handlers, InsertAndCommit(h)
  PROVE  [Kept!Next]_Delivered
<1>1. PICK n \in Samples, t \in Nat : n = job[h].sample /\ t = now[h]
  BY DEF InsertAndCommit, DeliveryInv, TypeOK, Requests
<1>2. job[h] # Null /\ n <= sample /\ n \notin InTable
  BY <1>1 DEF InsertAndCommit, DeliveryInv, TypeOK, OnceInv
<1>3. /\ endpoint' = [status |-> "active", sample |-> n, lastSeen |-> t]
      /\ history' = history \cup {[sample |-> n, time |-> t]}
      /\ UNCHANGED <<sample, stored, exported>>
  BY <1>1 DEF InsertAndCommit, Reported
<1>4. Shown' = {[sample |-> n, time |-> t]}
  BY <1>3 DEF Shown, Samples
<1>5. Kept!Record(n, t)
  BY <1>2, <1>3, <1>4 DEF Kept!Record, Shown, InTable
<1>6. t \in {row.time : row \in history'}
  <2>1. [sample |-> n, time |-> t] \in history'
    BY <1>3
  <2>. QED  BY <2>1
<1>. QED  BY <1>5, <1>6 DEF Kept!Next, Samples

LEMMA DeliveryStep ==
  ASSUME DeliveryInv, [Next]_vars PROVE [Kept!Next]_Delivered
<1>1. CASE CreateEndpoint \/ DeactivateEndpoint \/ DeleteEndpoint
  BY <1>1, ShownStays
  DEF DeliveryInv, CreateEndpoint, DeactivateEndpoint, DeleteEndpoint, agent
<1>2. ASSUME NEW h \in Handlers, \/ \E r \in net : TakeInference(h, r)
                                \/ UpsertEndpoint(h) \/ Fail(h) \/ Crash(h)
      PROVE  [Kept!Next]_Delivered
  <2>1. UNCHANGED <<sample, stored, exported, history, endpoint>>
    BY <1>2 DEF TakeInference, UpsertEndpoint, Fail, Crash, agent
  <2>. QED  BY <2>1, ShownStays DEF DeliveryInv
<1>3. CASE UNCHANGED vars
  BY <1>3, ShownStays DEF DeliveryInv, vars, agent, server
<1>. QED
  BY <1>1, <1>2, <1>3, AgentDelivers, GpuDelivers, InferenceDelivers, NextCases

(* Agent, network and server implement Delivery, for any number of handlers  *)
(* and samples: whatever is lost, late, repeated, rolled back or restarted,  *)
(* a sample has three copies at most, what is logged as exported was stored, *)
(* and the endpoint shows what the same step stored.                         *)
THEOREM DeliveryKept == Spec => KeepsDelivery
<1>1. Init => Kept!Init
  BY DEF Init, Kept!Init, NoEndpoint, Samples
<1>2. TypeOK /\ OkIsTrue /\ SentInv /\ OnceInv /\ [Next]_vars => [Kept!Next]_Delivered
  BY DeliveryStep DEF DeliveryInv
<1>. QED
  BY <1>1, <1>2, TypeCorrect, OkHolds, SentHolds, OnceHolds, PTL
  DEF Spec, KeepsDelivery, Kept!Spec, Kept!view, Delivered, Shown
=============================================================================
