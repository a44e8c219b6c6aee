----------------------- MODULE MeteringPipeline_proofs -----------------------
(***************************************************************************)
(* The metering pipeline is well typed and uses the credit store only      *)
(* through its methods, for any number of requests, users and faults, any  *)
(* costs and any retry, batch and sweep limits.  So the theorems about     *)
(* StoreSpec hold of the whole pipeline.  The second half is about what    *)
(* the pipeline settles.                                                   *)
(*                                                                         *)
(* PipeInv is the inductive invariant.  TypeOK is not inductive alone: the *)
(* key of a cached response needs ServedHasKey, the arguments the sweeper  *)
(* passes to CaptureAndRelease need SweepArgs and SessionHolds, and the    *)
(* balance a handler publishes is a natural number because ApplyHold       *)
(* committed, which needs the store's own invariant.                       *)
(***************************************************************************)
EXTENDS MeteringPipeline, CreditStore_proofs

WorkerSteps == {"process", "settled", "cleared", "read", "failed", "ack"}

GatewayTyped ==
    /\ pc \in [Requests -> Labels]
    /\ known \in [Requests -> Nat]
    /\ responses \subseteq Users \X ClientKeys
ServedHasKey == \A r \in Requests : pc[r] = "served" => KeyOf[r] \in ClientKeys
CacheTyped == cached \in [Users -> Nat \cup {Miss}]
QueueTyped ==
    /\ stream \in Seq(Entries) /\ dlq \in Seq(Events)
    /\ worker \in [batch : SUBSET DOMAIN stream, bal : Nat, step : WorkerSteps]
SweepTyped ==
    sweeper \in [todo : SUBSET Requests, req : Requests \cup {NoKey}, hold : Int,
                 step : {"list", "release", "delete"}]
SweepArgs == sweeper.step # "list" => sweeper.req \in Requests /\ sweeper.hold \in Amounts
SessionHolds == \A r \in Requests : session[r].hold \in Amounts
CountersTyped == faults \in 0..MaxFaults /\ replays \in 0..MaxReplays

PipeOK ==
    /\ GatewayTyped /\ ServedHasKey /\ CacheTyped /\ QueueTyped
    /\ SweepTyped /\ SweepArgs /\ SessionHolds /\ CountersTyped

PipeInv == StoreInv /\ PipeOK

-----------------------------------------------------------------------------
(***************************************************************************)
(* CaptureRelease splits a hold: what is captured and what is released is  *)
(* within it, and of a negative hold nothing positive comes out.           *)
(***************************************************************************)
LEMMA CutToHold ==
    ASSUME NEW r \in Requests, NEW cost \in Nat
    PROVE  /\ HoldOf[r] \in Int /\ CaptureOf(HoldOf[r], cost) \in HoldRange(r)
           /\ ReleaseOf(HoldOf[r], cost) \in HoldRange(r)
<1>1. HoldOf[r] \in Int
  BY RequestsWellFormed
<1>. QED  BY <1>1 DEF CaptureOf, ReleaseOf, HoldRange

(* What the worker passes to CaptureAndRelease for an entry of the stream. *)
LEMMA EventArgs ==
    ASSUME QueueTyped, NEW i \in worker.batch
    PROVE  /\ i \in DOMAIN stream /\ stream[i] \in Entries
           /\ EventRequest(i) \in Requests /\ EventUser(i) \in Users
           /\ EventCapture(i) \in Amounts /\ EventRelease(i) \in Amounts
           /\ stream[i].ev.status \in Statuses
           /\ KeyOf[EventRequest(i)] \in ClientKeys \cup {NoKey}
<1>1. i \in DOMAIN stream /\ stream[i] \in Entries
  BY DEF QueueTyped
<1>2. stream[i].ev \in Events
  BY <1>1 DEF Entries
<1>3. EventRequest(i) \in Requests /\ stream[i].ev.cost \in Nat /\ stream[i].ev.status \in Statuses
  BY <1>2, AmountsCoverPipeline DEF Events, EventRequest
<1>4. HoldOf[EventRequest(i)] \in Int /\ HoldRange(EventRequest(i)) \subseteq Amounts
  BY <1>3, RequestsWellFormed, AmountsCoverPipeline
<1>5. EventCapture(i) \in HoldRange(EventRequest(i)) /\ EventRelease(i) \in HoldRange(EventRequest(i))
  BY <1>3, <1>4, CutToHold DEF EventCapture, EventRelease
<1>. QED
  BY <1>1, <1>3, <1>4, <1>5, RequestsWellFormed DEF EventUser

(* A hold the gateway places is one the store accepts as an argument. *)
LEMMA HoldArgs ==
    ASSUME NEW r \in Requests
    PROVE  /\ UserOf[r] \in Users /\ HoldOf[r] \in Int /\ HoldOf[r] \in Amounts /\ 0 \in Amounts
           /\ KeyOf[r] \in ClientKeys \cup {NoKey}
           /\ KeySuffix(r, KeyOf[r]) \in Requests \cup ClientKeys
<1>1. HoldOf[r] \in Int /\ HoldRange(r) \subseteq Amounts
  BY RequestsWellFormed, AmountsCoverPipeline
<1>2. 0 \in HoldRange(r) /\ HoldOf[r] \in HoldRange(r)
  BY DEF HoldRange
<1>. QED  BY <1>1, <1>2, RequestsWellFormed DEF KeySuffix

(***************************************************************************)
(* Every step of the pipeline calls at most one method of the store.       *)
(***************************************************************************)
LEMMA PipelineStepsStore == PipeOK /\ [Next]_vars => [StoreNext]_storeVars
<1>. SUFFICES ASSUME PipeOK, [Next]_vars PROVE [StoreNext]_storeVars
  OBVIOUS
<1>1. CASE UNCHANGED vars
  BY <1>1 DEF vars, storeVars
<1>2. ASSUME NEW r \in Requests, Gateway(r) PROVE [StoreNext]_storeVars
  <2>1. CASE PlaceHold(r)
    BY <2>1, HoldArgs DEF PlaceHold, HoldKey, StoreNext
  <2>2. CASE LogUsage(r)
    BY <2>2 DEF LogUsage, StoreNext
  <2>3. CASE OpenSession(r)
    BY <2>3, HoldArgs DEF OpenSession, StoreNext
  <2>4. CASE UNCHANGED storeVars
    BY <2>4
  <2>. QED
    BY <1>2, <2>1, <2>2, <2>3, <2>4
       DEF Gateway, CheckIdempotency, ReadCachedBalance, LoadBalance, StoreLoadedBalance,
           PublishBalance, EmitMeter, CacheResponse, HandlerStops
<1>3. ASSUME NEW i \in worker.batch, HandleMessage(i) PROVE [StoreNext]_storeVars
  <2>1. CASE Settle(i)
    BY <2>1, EventArgs DEF PipeOK, Settle, StoreNext
  <2>2. CASE WorkerDeletesSession(i)
    BY <2>2, EventArgs DEF PipeOK, WorkerDeletesSession, StoreNext
  <2>3. CASE UNCHANGED storeVars
    BY <2>3
  <2>. QED
    BY <1>3, <2>1, <2>2, <2>3
       DEF HandleMessage, SettleFails, WorkerReadsBalance, WorkerSetsBalance, RetryLater,
           PushDLQ, Ack
<1>4. CASE ClaimBatch \/ ReadBatch \/ WorkerCrash \/ ReplayDLQ \/ ExpireResponse
  BY <1>4 DEF ClaimBatch, ReadBatch, Deliver, WorkerCrash, ReplayDLQ, ExpireResponse
<1>5. CASE SweeperStep
  <2>1. CASE SweepList \/ SweepRead
    BY <2>1 DEF SweepList, SweepRead
  <2>2. CASE SweepRelease
    <3>1. sweeper.req \in Requests /\ sweeper.hold \in Amounts
      BY <2>2 DEF SweepRelease, PipeOK, SweepArgs
    <3>2. UserOf[sweeper.req] \in Users /\ 0 \in Amounts
      BY <3>1, HoldArgs
    <3>. QED  BY <2>2, <3>1, <3>2 DEF SweepRelease, StoreNext, Statuses
  <2>3. CASE SweepDelete
    <3>1. sweeper.req \in Requests
      BY <2>3 DEF SweepDelete, PipeOK, SweepArgs
    <3>. QED  BY <2>3, <3>1 DEF SweepDelete, StoreNext
  <2>. QED  BY <1>5, <2>1, <2>2, <2>3 DEF SweeperStep
<1>6. ASSUME NEW r \in Requests, Expire(r) PROVE [StoreNext]_storeVars
  BY <1>6 DEF Expire, StoreNext
<1>7. ASSUME NEW u \in Users, NEW a \in DepositAmounts, NEW k \in DepositKeys, Deposit(u, a, k)
      PROVE [StoreNext]_storeVars
  BY <1>7, AmountsCoverPipeline DEF Deposit, StoreNext
<1>. QED
  BY <1>1, <1>2, <1>3, <1>4, <1>5, <1>6, <1>7 DEF Next, WorkerStep
-----------------------------------------------------------------------------
(* The initial states satisfy the invariant. *)
LEMMA PipeInitOK == Init => PipeInv
<1>. SUFFICES ASSUME Init PROVE PipeInv
  OBVIOUS
<1>1. StoreInv
  BY StoreInitInv DEF Init
<1>2. SessionHolds
  BY HoldArgs DEF Init, StoreInit, SessionHolds, NoSession
<1>3. QueueTyped /\ SweepTyped /\ SweepArgs
  BY DEF Init, QueueTyped, SweepTyped, SweepArgs, NoWork, NoSweep, WorkerSteps
<1>4. GatewayTyped /\ ServedHasKey /\ CacheTyped /\ CountersTyped
  BY BoundsAreNaturals DEF Init, GatewayTyped, ServedHasKey, CacheTyped, CountersTyped, Labels
<1>. QED  BY <1>1, <1>2, <1>3, <1>4 DEF PipeInv, PipeOK

(* A fault is counted, within its bound. *)
LEMMA FaultCounted ==
    ASSUME CountersTyped, NEW kind, Fault(kind) PROVE faults' \in 0..MaxFaults
BY BoundsAreNaturals DEF CountersTyped, Fault

(* A SET of the Redis balance keeps the cache typed, failed or not. *)
LEMMA SetBalanceTyped ==
    ASSUME CacheTyped, CountersTyped, NEW u \in Users, NEW v \in Nat, SetBalance(u, v)
    PROVE  CacheTyped' /\ faults' \in 0..MaxFaults
BY FaultCounted DEF SetBalance, CacheTyped, CountersTyped

(* The steps of a handler keep the gateway's own state typed. *)
LEMMA GatewayKeepsTypes ==
    ASSUME PipeInv, NEW r \in Requests, Gateway(r)
    PROVE  GatewayTyped' /\ ServedHasKey' /\ CacheTyped' /\ CountersTyped'
<1>. DEFINE Goal == GatewayTyped' /\ ServedHasKey' /\ CacheTyped' /\ CountersTyped'
<1>0. /\ GatewayTyped /\ ServedHasKey /\ CacheTyped /\ CountersTyped
      /\ balance \in [Users -> Nat]
  BY DEF PipeInv, PipeOK, StoreInv, StoreTypeOK
<1>. USE <1>0, HoldArgs, RequestsWellFormed
     DEF GatewayTyped, ServedHasKey, Labels, Goto, gatewayVars, queueVars
<1>1. CASE CheckIdempotency(r)
  <2>1. faults' \in 0..MaxFaults
    BY <1>1, FaultCounted DEF CheckIdempotency, CountersTyped
  <2>. QED  BY <1>1, <2>1 DEF CheckIdempotency, CacheTyped, CountersTyped
<1>2. CASE ReadCachedBalance(r)
  BY <1>2 DEF ReadCachedBalance, Afford, CacheTyped, CountersTyped
<1>3. CASE LoadBalance(r)
  BY <1>3 DEF LoadBalance, CacheTyped, CountersTyped
<1>4. CASE StoreLoadedBalance(r)
  <2>1. CacheTyped' /\ faults' \in 0..MaxFaults
    BY <1>4, SetBalanceTyped DEF StoreLoadedBalance
  <2>. QED  BY <1>4, <2>1 DEF StoreLoadedBalance, Afford, CountersTyped
<1>5. CASE PlaceHold(r)
  <2>1. ApplyHoldOK(UserOf[r], HoldOf[r], HoldKey(r)) => balance[UserOf[r]] - HoldOf[r] \in Nat
    BY DEF ApplyHoldOK
  <2>. QED  BY <1>5, <2>1 DEF PlaceHold, ApplyHold, CacheTyped, CountersTyped
<1>6. CASE PublishBalance(r)
  <2>1. CacheTyped' /\ faults' \in 0..MaxFaults
    BY <1>6, SetBalanceTyped DEF PublishBalance
  <2>. QED  BY <1>6, <2>1 DEF PublishBalance, CountersTyped
<1>7. CASE LogUsage(r) \/ OpenSession(r)
  BY <1>7 DEF LogUsage, OpenSession, CacheTyped, CountersTyped
<1>8. CASE EmitMeter(r)
  <2>1. faults' \in 0..MaxFaults
    BY <1>8, FaultCounted DEF EmitMeter, CountersTyped
  <2>. QED  BY <1>8, <2>1 DEF EmitMeter, Answers, CacheTyped, CountersTyped
<1>9. CASE CacheResponse(r)
  BY <1>9 DEF CacheResponse, CacheTyped, CountersTyped
<1>10. CASE HandlerStops(r)
  <2>1. faults' \in 0..MaxFaults
    BY <1>10, FaultCounted DEF HandlerStops
  <2>. QED  BY <1>10, <2>1 DEF HandlerStops, CacheTyped, CountersTyped
<1>. QED
  BY <1>1, <1>2, <1>3, <1>4, <1>5, <1>6, <1>7, <1>8, <1>9, <1>10 DEF Gateway

(* A DELETE of a session, done or failed, keeps the holds the sweeper may read. *)
LEMMA DeleteKeepsHolds ==
    ASSUME StoreTypeOK, SessionHolds, NEW r \in Requests, DeleteMeteringSession(r)
    PROVE  SessionHolds'
BY HoldArgs DEF StoreTypeOK, SessionHolds, DeleteMeteringSession, NoSession

(* One more event on the stream: typed, and no entry in hand moves. *)
LEMMA AppendKeepsQueue ==
    ASSUME QueueTyped, NEW e \in Events, stream' = Append(stream, NewEntry(e)),
           UNCHANGED <<dlq, worker>>
    PROVE  QueueTyped'
<1>1. NewEntry(e) \in Entries
  BY DEF NewEntry, Entries
<1>2. stream' \in Seq(Entries) /\ DOMAIN stream \subseteq DOMAIN stream'
  BY <1>1 DEF QueueTyped
<1>. QED  BY <1>2 DEF QueueTyped

(* The steps of a handler keep the rest of the pipeline's state typed. *)
LEMMA GatewayKeepsRest ==
    ASSUME PipeInv, NEW r \in Requests, Gateway(r)
    PROVE  QueueTyped' /\ SweepTyped' /\ SweepArgs' /\ SessionHolds'
<1>0. QueueTyped /\ SweepTyped /\ SweepArgs /\ SessionHolds /\ StoreTypeOK
  BY DEF PipeInv, PipeOK, StoreInv
<1>1. UNCHANGED sweeper /\ UNCHANGED worker /\ UNCHANGED dlq
  BY DEF Gateway, CheckIdempotency, ReadCachedBalance, LoadBalance, StoreLoadedBalance, PlaceHold,
         PublishBalance, LogUsage, OpenSession, EmitMeter, CacheResponse, HandlerStops, queueVars
<1>2. SweepTyped' /\ SweepArgs'
  BY <1>0, <1>1 DEF SweepTyped, SweepArgs
<1>3. QueueTyped'
  <2>1. CASE EmitMeter(r)
    <3>1. CASE UNCHANGED stream
      BY <1>0, <1>1, <3>1 DEF QueueTyped
    <3>2. ASSUME NEW status \in Outcomes, NEW cost \in Costs,
                 stream' = Append(stream, NewEntry([req |-> r, cost |-> cost, status |-> status]))
          PROVE  QueueTyped'
      BY <1>0, <1>1, <3>2, AppendKeepsQueue DEF Events
    <3>. QED  BY <2>1, <3>1, <3>2 DEF EmitMeter
  <2>2. CASE UNCHANGED stream
    BY <1>0, <1>1, <2>2 DEF QueueTyped
  <2>. QED
    BY <2>1, <2>2
       DEF Gateway, CheckIdempotency, ReadCachedBalance, LoadBalance, StoreLoadedBalance, PlaceHold,
           PublishBalance, LogUsage, OpenSession, CacheResponse, HandlerStops, queueVars
<1>4. SessionHolds'
  <2>1. CASE OpenSession(r)
    BY <1>0, <2>1, HoldArgs DEF OpenSession, CreateMeteringSession, SessionHolds, StoreTypeOK
  <2>2. CASE UNCHANGED session
    BY <1>0, <2>2 DEF SessionHolds
  <2>. QED
    BY <2>1, <2>2
       DEF Gateway, CheckIdempotency, ReadCachedBalance, LoadBalance, StoreLoadedBalance, PlaceHold,
           PublishBalance, LogUsage, EmitMeter, CacheResponse, HandlerStops, storeVars,
           ApplyHold, CreateUsageLog
<1>. QED  BY <1>2, <1>3, <1>4

-----------------------------------------------------------------------------
(* A delivery counts up and puts existing entries in hand. *)
LEMMA DeliverKeeps ==
    ASSUME QueueTyped, NEW ids \in SUBSET DOMAIN stream, Deliver(ids) PROVE QueueTyped'
<1>1. stream' = [i \in DOMAIN stream |->
                   IF i \in ids THEN [stream[i] EXCEPT !.deliveries = @ + 1] ELSE stream[i]]
  BY DEF Deliver
<1>2. stream \in Seq(Entries) /\ DOMAIN stream = 1..Len(stream) /\ Len(stream) \in Nat
  BY DEF QueueTyped
<1>3. \A i \in DOMAIN stream : stream'[i] \in Entries
  <2>. SUFFICES ASSUME NEW i \in DOMAIN stream PROVE stream'[i] \in Entries
    OBVIOUS
  <2>1. stream[i] \in Entries
    BY <1>2
  <2>2. [stream[i] EXCEPT !.deliveries = @ + 1] \in Entries
    BY <2>1 DEF Entries
  <2>. QED  BY <1>1, <2>1, <2>2
<1>4. stream' \in Seq(Entries) /\ DOMAIN stream' = DOMAIN stream
  BY <1>1, <1>2, <1>3
<1>. QED  BY <1>4 DEF Deliver, QueueTyped

(* Handling a message keeps the pipeline's state typed. *)
LEMMA WorkerKeeps ==
    ASSUME PipeInv, NEW i \in worker.batch, HandleMessage(i)
    PROVE  PipeOK'
<1>0. PipeOK /\ StoreTypeOK
  BY DEF PipeInv, StoreInv
<1>1. UNCHANGED <<pc, known, responses, sweeper, replays>>
  BY DEF HandleMessage, Settle, SettleFails, WorkerDeletesSession, WorkerReadsBalance,
         WorkerSetsBalance, RetryLater, PushDLQ, Ack, gatewayVars, queueVars
<1>2. GatewayTyped' /\ ServedHasKey' /\ SweepTyped' /\ SweepArgs'
  BY <1>0, <1>1 DEF PipeOK, GatewayTyped, ServedHasKey, SweepTyped, SweepArgs
<1>3. EventRequest(i) \in Requests /\ EventUser(i) \in Users /\ i \in DOMAIN stream
      /\ stream[i] \in Entries
  BY <1>0, EventArgs DEF PipeOK
<1>4. SessionHolds'
  <2>1. CASE DeleteMeteringSession(EventRequest(i))
    BY <1>0, <1>3, <2>1, DeleteKeepsHolds DEF PipeOK
  <2>2. CASE UNCHANGED session
    BY <1>0, <2>2 DEF PipeOK, SessionHolds
  <2>. QED
    BY <2>1, <2>2
       DEF HandleMessage, Settle, CaptureAndRelease, SettleFails, WorkerDeletesSession,
           WorkerReadsBalance, WorkerSetsBalance, RetryLater, PushDLQ, Ack, storeVars
<1>5. CacheTyped' /\ CountersTyped'
  <2>1. CASE WorkerSetsBalance(i)
    <3>1. worker.bal \in Nat
      BY <1>0 DEF PipeOK, QueueTyped
    <3>. QED
      BY <1>0, <1>1, <1>3, <2>1, <3>1, SetBalanceTyped DEF PipeOK, WorkerSetsBalance, CountersTyped
  <2>2. CASE cached' = cached /\ (UNCHANGED faults \/ \E kind \in FaultKinds : Fault(kind))
    BY <1>0, <1>1, <2>2, FaultCounted DEF PipeOK, CacheTyped, CountersTyped
  <2>. QED
    BY <2>1, <2>2
       DEF HandleMessage, Settle, SettleFails, WorkerDeletesSession, WorkerReadsBalance,
           RetryLater, PushDLQ, Ack, FaultKinds
<1>6. QueueTyped'
  <2>0. QueueTyped /\ DOMAIN stream = 1..Len(stream)
    BY <1>0 DEF PipeOK, QueueTyped
  <2>. USE <2>0, <1>3 DEF QueueTyped, WorkerSteps, WorkerGoto, NextMessage, NoWork, queueVars
  <2>1. CASE Settle(i) \/ SettleFails(i) \/ WorkerDeletesSession(i)
    BY <2>1 DEF Settle, SettleFails, WorkerDeletesSession
  <2>2. CASE WorkerReadsBalance(i)
    BY <1>0, <2>2 DEF WorkerReadsBalance, StoreTypeOK
  <2>3. CASE WorkerSetsBalance(i)
    BY <2>3 DEF WorkerSetsBalance
  <2>4. CASE RetryLater(i)
    BY <2>4 DEF RetryLater
  <2>5. CASE PushDLQ(i)
    <3>1. stream[i].ev \in Events
      BY DEF Entries
    <3>2. dlq' \in Seq(Events)
      BY <2>5, <3>1 DEF PushDLQ
    <3>3. UNCHANGED stream /\ worker' = [worker EXCEPT !.step = "ack"]
      BY <2>5 DEF PushDLQ
    <3>. QED  BY <3>2, <3>3
  <2>6. CASE Ack(i)
    <3>1. [stream[i] EXCEPT !.acked = TRUE] \in Entries
      BY DEF Entries
    <3>2. stream' \in Seq(Entries) /\ DOMAIN stream' = DOMAIN stream
      BY <2>6, <3>1 DEF Ack
    <3>. QED  BY <2>6, <3>2 DEF Ack
  <2>. QED  BY <2>1, <2>2, <2>3, <2>4, <2>5, <2>6 DEF HandleMessage
<1>. QED  BY <1>2, <1>4, <1>5, <1>6 DEF PipeOK

(* The sweeper keeps the pipeline's state typed; SweepRead reads its arguments. *)
LEMMA SweeperKeeps ==
    ASSUME PipeInv, SweeperStep
    PROVE  PipeOK'
<1>0. PipeOK /\ StoreTypeOK
  BY DEF PipeInv, StoreInv
<1>1. UNCHANGED <<pc, known, responses, cached, stream, dlq, replays, worker>>
  BY DEF SweeperStep, SweepList, SweepRead, SweepRelease, SweepDelete, gatewayVars, queueVars
<1>2. GatewayTyped' /\ ServedHasKey' /\ CacheTyped' /\ QueueTyped'
  BY <1>0, <1>1 DEF PipeOK, GatewayTyped, ServedHasKey, CacheTyped, QueueTyped
<1>3. CountersTyped'
  <2>1. UNCHANGED faults \/ \E kind \in FaultKinds : Fault(kind)
    BY DEF SweeperStep, SweepList, SweepRead, SweepRelease, SweepDelete, FaultKinds
  <2>. QED  BY <1>0, <1>1, <2>1, FaultCounted DEF PipeOK, CountersTyped
<1>4. SessionHolds'
  <2>1. CASE SweepDelete
    <3>1. sweeper.req \in Requests
      BY <1>0, <2>1 DEF SweepDelete, PipeOK, SweepArgs
    <3>2. CASE DeleteMeteringSession(sweeper.req)
      BY <1>0, <3>1, <3>2, DeleteKeepsHolds DEF PipeOK
    <3>3. CASE UNCHANGED storeVars
      BY <1>0, <3>3 DEF PipeOK, SessionHolds, storeVars
    <3>. QED  BY <2>1, <3>2, <3>3 DEF SweepDelete
  <2>2. CASE UNCHANGED session
    BY <1>0, <2>2 DEF PipeOK, SessionHolds
  <2>. QED
    BY <2>1, <2>2 DEF SweeperStep, SweepList, SweepRead, SweepRelease, CaptureAndRelease, storeVars
<1>5. SweepTyped' /\ SweepArgs'
  <2>0. SweepTyped /\ SweepArgs /\ SessionHolds
    BY <1>0 DEF PipeOK
  <2>. USE <2>0 DEF SweepTyped, SweepArgs
  <2>1. CASE SweepList
    BY <2>1 DEF SweepList, Expired
  <2>2. CASE SweepRead
    <3>1. ASSUME NEW r \in sweeper.todo, NEW h \in Amounts,
                 sweeper' = [sweeper EXCEPT !.step = "release", !.req = r, !.hold = h]
          PROVE  SweepTyped' /\ SweepArgs'
      <4>1. r \in Requests /\ h \in Int
        BY <3>1, AmountsAreIntegers
      <4>. QED  BY <3>1, <4>1
    <3>3. \A r \in sweeper.todo : session[r].hold \in Amounts /\ 0 \in Amounts
      BY HoldArgs DEF SessionHolds
    <3>2. ASSUME NEW r \in sweeper.todo, sweeper.step = "list",
                 sweeper' = [sweeper EXCEPT !.todo = @ \ {r}]
          PROVE  SweepTyped' /\ SweepArgs'
      BY <3>2
    <3>. QED  BY <2>2, <3>1, <3>2, <3>3 DEF SweepRead
  <2>3. CASE sweeper' = [sweeper EXCEPT !.step = "delete"] /\ sweeper.step = "release"
    BY <2>3
  <2>4. CASE SweepNext
    BY <2>4 DEF SweepNext, NoSweep
  <2>. QED  BY <2>1, <2>2, <2>3, <2>4 DEF SweeperStep, SweepRelease, SweepSkip, SweepDelete
<1>. QED  BY <1>2, <1>3, <1>4, <1>5 DEF PipeOK

(* A replay adds well-formed events to the stream, behind the entries in hand. *)
LEMMA ReplayKeeps ==
    ASSUME PipeInv, ReplayDLQ
    PROVE  PipeOK'
<1>0. PipeOK
  BY DEF PipeInv
<1>1. UNCHANGED <<storeVars, pc, known, responses, cached, dlq, worker, sweeper, faults>>
  BY DEF ReplayDLQ, gatewayVars
<1>2. GatewayTyped' /\ ServedHasKey' /\ CacheTyped' /\ SweepTyped' /\ SweepArgs' /\ SessionHolds'
  BY <1>0, <1>1
     DEF PipeOK, GatewayTyped, ServedHasKey, CacheTyped, SweepTyped, SweepArgs, SessionHolds, storeVars
<1>3. CountersTyped'
  BY <1>0, <1>1, BoundsAreNaturals DEF PipeOK, CountersTyped, ReplayDLQ
<1>4. QueueTyped'
  <2>. DEFINE new == [i \in DOMAIN dlq |-> NewEntry(dlq[i])]
  <2>1. dlq \in Seq(Events) /\ DOMAIN dlq = 1..Len(dlq) /\ Len(dlq) \in Nat
    BY <1>0 DEF PipeOK, QueueTyped
  <2>2. \A i \in DOMAIN dlq : NewEntry(dlq[i]) \in Entries
    BY <2>1 DEF NewEntry, Entries
  <2>3. new \in Seq(Entries)
    BY <2>1, <2>2
  <2>4. stream' = stream \o new /\ stream \in Seq(Entries)
    BY <1>0 DEF ReplayDLQ, PipeOK, QueueTyped
  <2>. HIDE DEF new
  <2>5. stream' \in Seq(Entries) /\ DOMAIN stream \subseteq DOMAIN stream'
    BY <2>3, <2>4
  <2>. QED  BY <1>0, <1>1, <2>5 DEF PipeOK, QueueTyped
<1>. QED  BY <1>2, <1>3, <1>4 DEF PipeOK

(* A step that touches only the store, and keeps the sessions' holds. *)
LEMMA StoreOnlyKeeps ==
    ASSUME PipeOK, SessionHolds',
           UNCHANGED <<gatewayVars, cached, queueVars, worker, sweeper, faults>>
    PROVE  PipeOK'
BY DEF PipeOK, GatewayTyped, ServedHasKey, CacheTyped, QueueTyped, SweepTyped, SweepArgs,
       CountersTyped, gatewayVars, queueVars

(* Every step keeps the invariant. *)
LEMMA PipeStepInv == PipeInv /\ [Next]_vars => PipeInv'
<1>. SUFFICES ASSUME PipeInv, [Next]_vars PROVE PipeInv'
  OBVIOUS
<1>0. PipeOK /\ StoreInv /\ StoreTypeOK
  BY DEF PipeInv, StoreInv
<1>1. StoreInv'
  BY <1>0, PipelineStepsStore, StoreStepInv
<1>2. PipeOK'
  <2>1. CASE UNCHANGED vars
    <3>1. SessionHolds'
      BY <1>0, <2>1 DEF PipeOK, SessionHolds, vars, storeVars
    <3>. QED  BY <1>0, <2>1, <3>1, StoreOnlyKeeps DEF vars
  <2>2. ASSUME NEW r \in Requests, Gateway(r) PROVE PipeOK'
    BY <2>2, GatewayKeepsTypes, GatewayKeepsRest DEF PipeOK
  <2>3. ASSUME NEW i \in worker.batch, HandleMessage(i) PROVE PipeOK'
    BY <2>3, WorkerKeeps
  <2>4. ASSUME NEW ids \in SUBSET DOMAIN stream, Deliver(ids) PROVE PipeOK'
    <3>1. QueueTyped'
      BY <1>0, <2>4, DeliverKeeps DEF PipeOK
    <3>. QED
      BY <1>0, <2>4, <3>1
         DEF Deliver, PipeOK, GatewayTyped, ServedHasKey, CacheTyped, SweepTyped, SweepArgs,
             SessionHolds, CountersTyped, gatewayVars, storeVars
  <2>5. CASE ClaimBatch \/ ReadBatch
    BY <2>4, <2>5 DEF ClaimBatch, ReadBatch, Pending, Undelivered
  <2>6. CASE WorkerCrash
    <3>1. faults' \in 0..MaxFaults
      BY <1>0, <2>6, FaultCounted DEF WorkerCrash, PipeOK
    <3>2. QueueTyped' /\ SweepTyped' /\ SweepArgs'
      BY <1>0, <2>6 DEF WorkerCrash, PipeOK, QueueTyped, SweepTyped, SweepArgs, NoWork, NoSweep,
                        WorkerSteps, queueVars
    <3>. QED
      BY <1>0, <2>6, <3>1, <3>2
         DEF WorkerCrash, PipeOK, GatewayTyped, ServedHasKey, CacheTyped, SessionHolds,
             CountersTyped, gatewayVars, queueVars, storeVars
  <2>7. CASE SweeperStep
    BY <2>7, SweeperKeeps
  <2>8. ASSUME NEW r \in Requests, Expire(r) PROVE PipeOK'
    <3>1. SessionHolds'
      BY <1>0, <2>8 DEF Expire, SessionExpires, PipeOK, SessionHolds, StoreTypeOK, SessionRow
    <3>. QED  BY <1>0, <2>8, <3>1, StoreOnlyKeeps DEF Expire
  <2>9. ASSUME NEW u \in Users, NEW a \in DepositAmounts, NEW k \in DepositKeys, Deposit(u, a, k)
        PROVE  PipeOK'
    <3>1. SessionHolds'
      BY <1>0, <2>9 DEF Deposit, DepositCredits, PipeOK, SessionHolds
    <3>. QED  BY <1>0, <2>9, <3>1, StoreOnlyKeeps DEF Deposit
  <2>10. CASE ReplayDLQ
    BY <2>10, ReplayKeeps
  <2>11. CASE ExpireResponse
    BY <1>0, <2>11
       DEF ExpireResponse, PipeOK, GatewayTyped, ServedHasKey, CacheTyped, QueueTyped, SweepTyped,
           SweepArgs, SessionHolds, CountersTyped, queueVars, storeVars
  <2>. QED
    BY <2>1, <2>2, <2>3, <2>5, <2>6, <2>7, <2>8, <2>9, <2>10, <2>11 DEF Next, WorkerStep
<1>. QED  BY <1>1, <1>2 DEF PipeInv

-----------------------------------------------------------------------------
(* PipeInv holds in every reachable state. *)
LEMMA PipelineInvariant == Spec => []PipeInv
BY PipeInitOK, PipeStepInv, PTL DEF Spec

(* Types of the pipeline: no handler, worker or sweeper step, crash or fault  *)
(* leaves a negative cached balance, a malformed event or an unkeyed replay. *)
THEOREM PipelineTypeCorrect == Spec => []TypeOK
<1>1. PipeInv => TypeOK
  BY DEF PipeInv, PipeOK, StoreInv, TypeOK, GatewayTyped, CacheTyped, QueueTyped, SweepTyped,
         CountersTyped, WorkerSteps
<1>. QED  BY <1>1, PipelineInvariant, PTL

(***************************************************************************)
(* The pipeline implements the store's specification: whatever the gateway,*)
(* the worker, the sweeper and the operator do, and whatever fails, the    *)
(* tables move only by the store's transactions.                           *)
(***************************************************************************)
THEOREM PipelineImplementsStore == Spec => StoreSpec
<1>1. Init => StoreInit
  BY DEF Init
<1>2. PipeInv => PipeOK
  BY DEF PipeInv
<1>. QED  BY <1>1, <1>2, PipelineStepsStore, PipelineInvariant, PTL DEF Spec, StoreSpec

(***************************************************************************)
(* So the audit properties of the store hold of the running pipeline: the  *)
(* ledger chains to the stored balance, no idempotency key is applied      *)
(* twice, and captured credits in a usage log are backed by a ledger row.  *)
(***************************************************************************)
THEOREM PipelineLedgerAudit ==
    Spec => [](LedgerChain /\ BalanceIsNewestRow /\ KeysUnique /\ UsageLogBacked)
<1>1. PipeInv => LedgerChain /\ BalanceIsNewestRow /\ KeysUnique /\ UsageLogBacked
  BY DEF PipeInv, StoreInv
<1>. QED  BY <1>1, PipelineInvariant, PTL

-----------------------------------------------------------------------------
(***************************************************************************)
(* What the pipeline settles, for any number of requests, users, faults,   *)
(* redeliveries and replays: a capture or a release is always backed by an *)
(* earlier hold of its request and never exceeds it, and a request without *)
(* a client key is captured at most once and released at most once.        *)
(*                                                                         *)
(* The ledger alone does not say why: a settlement needs a hold because    *)
(* everything that can lead to one (a handler past ApplyHold, a session, a *)
(* stream or DLQ entry, an id in the sweeper's hands) was created after    *)
(* the hold's commit and the ledger only grows.  SettleInv says that.      *)
(***************************************************************************)
Settling == {"capture", "release"}

(* The hold of r is in the table. *)
HeldIn(t, r) ==
    \E j \in 1..Len(t[UserOf[r]]) :
        LET row == t[UserOf[r]][j]
        IN  row.type = "hold" /\ row.ref = r /\ row.amount = -HoldOf[r]

(* A row that may be inserted for u: the hold it settles is in the table already. *)
Backed(t, u, row) ==
    /\ row.ref \in Requests /\ UserOf[row.ref] = u
    /\ KeyOf[row.ref] = NoKey => row.key = <<row.type, row.ref>>
    /\ HeldIn(t, row.ref)
    /\ row.amount \in (-HoldOf[row.ref])..HoldOf[row.ref]

(* Row i of u, if it settles something, names its request and follows a hold. *)
RowGood(t, u, i) ==
    t[u][i].type \in Settling =>
        /\ t[u][i].ref \in Requests
        /\ KeyOf[t[u][i].ref] = NoKey => t[u][i].key = <<t[u][i].type, t[u][i].ref>>
        /\ \E j \in 1..(i - 1) :
              /\ t[u][j].type = "hold" /\ t[u][j].ref = t[u][i].ref
              /\ t[u][i].amount \in t[u][j].amount..(-t[u][j].amount)

TableGood(t) == \A u \in Users : \A i \in 1..Len(t[u]) : RowGood(t, u, i)

-----------------------------------------------------------------------------
(* An INSERT keeps every hold in the table. *)
LEMMA InsertKeepsHeld ==
    ASSUME NEW t \in Tables, NEW u \in Users, NEW row \in Row, NEW r \in Requests, HeldIn(t, r)
    PROVE  HeldIn(Insert(t, u, row), r)
<1>. DEFINE v == UserOf[r]
            n == Insert(t, u, row)
<1>1. PICK j \in 1..Len(t[v]) :
          t[v][j].type = "hold" /\ t[v][j].ref = r /\ t[v][j].amount = -HoldOf[r]
  BY DEF HeldIn
<1>2. v \in Users
  BY HoldArgs
<1>3. j \in 1..Len(n[v]) /\ n[v][j] = t[v][j]
  BY <1>2, InsertShape
<1>. QED  BY <1>1, <1>3 DEF HeldIn

(* An INSERT of a backed row, or of one that settles nothing, keeps the table good. *)
LEMMA InsertKeepsGood ==
    ASSUME NEW t \in Tables, TableGood(t), NEW u \in Users, NEW row \in Row,
           row.type \in Settling => Backed(t, u, row)
    PROVE  TableGood(Insert(t, u, row))
<1>. DEFINE n == Insert(t, u, row)
<1>1. /\ Len(n[u]) = Len(t[u]) + 1
      /\ \A i \in 1..Len(t[u]) : n[u][i] = t[u][i]
      /\ n[u][Len(t[u]) + 1] = row
      /\ \A v \in Users : v # u => n[v] = t[v]
      /\ \A v \in Users : Len(t[v]) \in Nat
  BY InsertShape
<1>. HIDE DEF n
<1>. SUFFICES ASSUME NEW v \in Users, NEW i \in 1..Len(n[v]) PROVE RowGood(n, v, i)
  BY DEF TableGood, n
<1>2. CASE v # u
  <2>1. n[v] = t[v] /\ RowGood(t, v, i)
    BY <1>1, <1>2 DEF TableGood
  <2>. QED  BY <2>1 DEF RowGood
<1>3. CASE v = u /\ i \in 1..Len(t[u])
  <2>1. n[v][i] = t[u][i] /\ \A j \in 1..(i - 1) : n[v][j] = t[u][j]
    BY <1>1, <1>3
  <2>2. RowGood(t, u, i)
    BY <1>3 DEF TableGood
  <2>. QED  BY <1>3, <2>1, <2>2 DEF RowGood
<1>4. CASE v = u /\ i = Len(t[u]) + 1
  <2>. SUFFICES ASSUME row.type \in Settling PROVE RowGood(n, v, i)
    BY <1>1, <1>4 DEF RowGood
  <2>1. Backed(t, u, row)
    OBVIOUS
  <2>2. PICK j \in 1..Len(t[u]) :
            t[u][j].type = "hold" /\ t[u][j].ref = row.ref /\ t[u][j].amount = -HoldOf[row.ref]
    BY <2>1 DEF Backed, HeldIn
  <2>3. j \in 1..(i - 1) /\ n[v][j] = t[u][j] /\ n[v][i] = row
    BY <1>1, <1>4
  <2>4. HoldOf[row.ref] \in Nat
    BY <2>1, HoldArgs DEF Backed
  <2>5. row.amount \in t[u][j].amount..(-t[u][j].amount)
    BY <2>1, <2>2, <2>4 DEF Backed
  <2>. QED  BY <2>1, <2>2, <2>3, <2>5 DEF Backed, RowGood
<1>. QED  BY <1>1, <1>2, <1>3, <1>4

(***************************************************************************)
(* A settlement of a held request, within its hold and with its own key or *)
(* the request's id, keeps the table good and every hold in it.            *)
(***************************************************************************)
LEMMA SettlementKeepsGood ==
    ASSUME StoreTypeOK, TableGood(ledger), NEW r \in Requests, HeldIn(ledger, r),
           NEW c \in HoldRange(r), NEW l \in HoldRange(r), NEW k \in {NoKey, KeyOf[r]}
    PROVE  LET n == AfterSettlement(UserOf[r], r, c, l, KeySuffix(r, k))
           IN  TableGood(n) /\ \A q \in Requests : HeldIn(ledger, q) => HeldIn(n, q)
<1>. DEFINE u == UserOf[r]
            x == KeySuffix(r, k)
            crow == CaptureRow(u, r, c, x)
            lrow == ReleaseRow(u, r, c, l, x)
            t1 == InsertIf(c > 0, ledger, u, crow)
            n == InsertIf(l > 0, t1, u, lrow)
<1>0. /\ u \in Users /\ HoldOf[r] \in Int /\ x \in Requests \cup ClientKeys
      /\ c \in Int /\ l \in Int /\ Moved(c) \in Int
      /\ (c > 0 => c \in 0..HoldOf[r]) /\ (l > 0 => l \in 0..HoldOf[r])
      /\ KeyOf[r] = NoKey => x = r
      /\ balance[u] \in Nat /\ ledger \in Tables
  BY HoldArgs DEF KeySuffix, StoreTypeOK, Tables, HoldRange, Moved
<1>1. crow \in Row /\ lrow \in Row
  BY <1>0 DEF CaptureRow, ReleaseRow, Row, IdemKeys
<1>2. ASSUME NEW t, HeldIn(t, r)
      PROVE  (c > 0 => Backed(t, u, crow)) /\ (l > 0 => Backed(t, u, lrow))
  BY <1>0, <1>2 DEF Backed, CaptureRow, ReleaseRow
<1>. HIDE DEF u, x, crow, lrow
<1>3. /\ t1 \in Tables /\ TableGood(t1)
      /\ \A q \in Requests : HeldIn(ledger, q) => HeldIn(t1, q)
  BY <1>0, <1>1, <1>2, InsertShape, InsertKeepsGood, InsertKeepsHeld DEF InsertIf
<1>. HIDE DEF t1
<1>4. TableGood(n) /\ \A q \in Requests : HeldIn(t1, q) => HeldIn(n, q)
  BY <1>0, <1>1, <1>2, <1>3, InsertKeepsGood, InsertKeepsHeld DEF InsertIf
<1>5. n = AfterSettlement(UserOf[r], r, c, l, KeySuffix(r, k))
  BY DEF AfterSettlement, t1, u, x, crow, lrow
<1>. QED  BY <1>3, <1>4, <1>5

-----------------------------------------------------------------------------
GatewayHeld ==
    \A r \in Requests : pc[r] \in {"held", "published", "logged", "open"} => HeldIn(ledger, r)
SessionHeld ==
    \A r \in Requests :
        /\ session[r].hold \in HoldRange(r)
        /\ session[r].state # "none" => HeldIn(ledger, r)
QueueHeld ==
    /\ \A i \in DOMAIN stream : HeldIn(ledger, stream[i].ev.req)
    /\ \A i \in DOMAIN dlq : HeldIn(ledger, dlq[i].req)
SweepHeld ==
    /\ \A r \in sweeper.todo : HeldIn(ledger, r)
    /\ sweeper.step # "list" =>
          HeldIn(ledger, sweeper.req) /\ sweeper.hold \in HoldRange(sweeper.req)

SettleInv ==
    /\ PipeInv /\ TableGood(ledger)
    /\ GatewayHeld /\ SessionHeld /\ QueueHeld /\ SweepHeld

(* Initially nothing is held, and nothing refers to a hold. *)
LEMMA SettleInitInv == Init => SettleInv
<1>. SUFFICES ASSUME Init PROVE SettleInv
  OBVIOUS
<1>1. PipeInv
  BY PipeInitOK
<1>2. TableGood(ledger)
  BY DEF Init, StoreInit, TableGood
<1>3. GatewayHeld /\ SessionHeld
  BY DEF Init, StoreInit, GatewayHeld, SessionHeld, NoSession, HoldRange
<1>4. QueueHeld /\ SweepHeld
  BY DEF Init, QueueHeld, SweepHeld, NoSweep
<1>. QED  BY <1>1, <1>2, <1>3, <1>4 DEF SettleInv

-----------------------------------------------------------------------------
(***************************************************************************)
(* Every step keeps the table good and every hold in it, and the step that *)
(* moves a handler to "held" has put its hold there.                       *)
(***************************************************************************)
LedgerGrows ==
    /\ TableGood(ledger')
    /\ \A r \in Requests : HeldIn(ledger, r) => HeldIn(ledger', r)
    /\ \A r \in Requests : pc[r] = "checked" /\ pc'[r] = "held" => HeldIn(ledger', r)

(* A step that leaves ledger and handlers alone. *)
LEMMA LedgerSame ==
    ASSUME TableGood(ledger), ledger' = ledger, pc' = pc PROVE LedgerGrows
<1>1. \A r \in Requests : ~(pc[r] = "checked" /\ pc'[r] = "held")
  OBVIOUS
<1>. QED  BY <1>1 DEF LedgerGrows

(* The hold of a handler is in the table once ApplyHold committed. *)
LEMMA PlaceHoldGrows ==
    ASSUME SettleInv, NEW r \in Requests, PlaceHold(r) PROVE LedgerGrows
<1>0. StoreTypeOK /\ ledger \in Tables /\ TableGood(ledger) /\ pc \in [Requests -> Labels]
  BY DEF SettleInv, PipeInv, PipeOK, GatewayTyped, StoreInv, StoreTypeOK, Tables
<1>1. CASE ApplyHold(UserOf[r], HoldOf[r], r, HoldKey(r)) /\ Goto(r, "held")
  <2>. DEFINE row == [type |-> "hold", amount |-> -HoldOf[r],
                      after |-> balance[UserOf[r]] - HoldOf[r], ref |-> r, key |-> HoldKey(r)]
              n == Insert(ledger, UserOf[r], row)
  <2>1. ledger' = n /\ row \in Row /\ row.type \notin Settling /\ UserOf[r] \in Users
    BY <1>0, <1>1, HoldArgs DEF ApplyHold, HoldKey, StoreTypeOK, Row, IdemKeys, Settling
  <2>2. row.type = "hold" /\ row.ref = r /\ row.amount = -HoldOf[r]
    OBVIOUS
  <2>. HIDE DEF row
  <2>3. Len(ledger[UserOf[r]]) + 1 \in 1..Len(n[UserOf[r]])
        /\ n[UserOf[r]][Len(ledger[UserOf[r]]) + 1] = row
    BY <1>0, <2>1, InsertShape
  <2>4. HeldIn(n, r)
    BY <2>2, <2>3 DEF HeldIn
  <2>5. TableGood(n)
    BY <1>0, <2>1, InsertKeepsGood
  <2>6. \A q \in Requests : HeldIn(ledger, q) => HeldIn(n, q)
    BY <1>0, <2>1, InsertKeepsHeld
  <2>7. \A q \in Requests : q # r => pc'[q] = pc[q]
    BY <1>0, <1>1 DEF Goto
  <2>. QED  BY <2>1, <2>4, <2>5, <2>6, <2>7 DEF LedgerGrows
<1>2. CASE Goto(r, "rejected") /\ UNCHANGED ledger
  <2>1. \A q \in Requests : ~(pc[q] = "checked" /\ pc'[q] = "held")
    BY <1>0, <1>2 DEF Goto
  <2>. QED  BY <1>0, <1>2, <2>1 DEF LedgerGrows
<1>. QED  BY <1>1, <1>2 DEF PlaceHold, storeVars

(* A deposit inserts a row that settles nothing. *)
LEMMA DepositGrows ==
    ASSUME SettleInv, NEW u \in Users, NEW a \in DepositAmounts, NEW k \in DepositKeys,
           Deposit(u, a, k)
    PROVE  LedgerGrows
<1>. DEFINE row == [type |-> "deposit", amount |-> a, after |-> balance[u] + a,
                    ref |-> NoKey, key |-> <<"deposit", k>>]
<1>0. StoreTypeOK /\ ledger \in Tables /\ TableGood(ledger) /\ a \in Int
  BY AmountsCoverPipeline, AmountsAreIntegers
     DEF SettleInv, PipeInv, StoreInv, StoreTypeOK, Tables
<1>1. ledger' = Insert(ledger, u, row) /\ pc' = pc
  BY DEF Deposit, DepositCredits, gatewayVars
<1>2. row \in Row /\ row.type \notin Settling
  BY <1>0 DEF StoreTypeOK, Row, IdemKeys, Settling
<1>. HIDE DEF row
<1>3. TableGood(ledger') /\ \A q \in Requests : HeldIn(ledger, q) => HeldIn(ledger', q)
  BY <1>0, <1>1, <1>2, InsertKeepsGood, InsertKeepsHeld
<1>4. \A q \in Requests : ~(pc[q] = "checked" /\ pc'[q] = "held")
  BY <1>1
<1>. QED  BY <1>3, <1>4 DEF LedgerGrows

(* The worker settles a held request within its hold: the event says so. *)
LEMMA SettleGrows ==
    ASSUME SettleInv, NEW i \in worker.batch, Settle(i) PROVE LedgerGrows
<1>0. StoreTypeOK /\ TableGood(ledger) /\ QueueTyped /\ QueueHeld
  BY DEF SettleInv, PipeInv, PipeOK, StoreInv
<1>. DEFINE r == EventRequest(i)
            c == EventCapture(i)
            l == EventRelease(i)
<1>1. i \in DOMAIN stream /\ r \in Requests /\ stream[i] \in Entries
  BY <1>0, EventArgs
<1>2. HeldIn(ledger, r)
  BY <1>0, <1>1 DEF QueueHeld, EventRequest
<1>3. stream[i].ev.cost \in Nat
  BY <1>1, AmountsCoverPipeline DEF Entries, Events
<1>4. c \in HoldRange(r) /\ l \in HoldRange(r)
  BY <1>1, <1>3, CutToHold DEF EventCapture, EventRelease
<1>5. ledger' = AfterSettlement(UserOf[r], r, c, l, KeySuffix(r, KeyOf[r])) /\ pc' = pc
  BY DEF Settle, CaptureAndRelease, EventUser, gatewayVars
<1>. HIDE DEF r, c, l
<1>6. TableGood(ledger') /\ \A q \in Requests : HeldIn(ledger, q) => HeldIn(ledger', q)
  BY <1>0, <1>1, <1>2, <1>4, <1>5, SettlementKeepsGood
<1>7. \A q \in Requests : ~(pc[q] = "checked" /\ pc'[q] = "held")
  BY <1>5
<1>. QED  BY <1>6, <1>7 DEF LedgerGrows

(* The sweeper releases what the session held. *)
LEMMA SweepReleaseGrows ==
    ASSUME SettleInv, SweepRelease PROVE LedgerGrows
<1>0. StoreTypeOK /\ TableGood(ledger) /\ SweepHeld /\ SweepArgs /\ sweeper.step # "list"
  BY DEF SettleInv, PipeInv, PipeOK, StoreInv, SweepRelease
<1>. DEFINE r == sweeper.req
<1>1. /\ r \in Requests /\ HeldIn(ledger, r)
      /\ sweeper.hold \in HoldRange(r) /\ 0 \in HoldRange(r) /\ pc' = pc
  BY <1>0 DEF SweepHeld, SweepArgs, SweepRelease, gatewayVars, HoldRange
<1>2. CASE ledger' = AfterSettlement(UserOf[r], r, 0, sweeper.hold, KeySuffix(r, NoKey))
  <2>. HIDE DEF r
  <2>1. TableGood(ledger') /\ \A q \in Requests : HeldIn(ledger, q) => HeldIn(ledger', q)
    BY <1>0, <1>1, <1>2, SettlementKeepsGood
  <2>2. \A q \in Requests : ~(pc[q] = "checked" /\ pc'[q] = "held")
    BY <1>1
  <2>. QED  BY <2>1, <2>2 DEF LedgerGrows
<1>3. CASE UNCHANGED ledger
  BY <1>0, <1>1, <1>3, LedgerSame
<1>. QED  BY <1>2, <1>3 DEF SweepRelease, CaptureAndRelease, storeVars

(* Every step keeps the table good and every hold in it. *)
LEMMA StepGrows == SettleInv /\ [Next]_vars => LedgerGrows
<1>. SUFFICES ASSUME SettleInv, [Next]_vars PROVE LedgerGrows
  OBVIOUS
<1>0. TableGood(ledger) /\ pc \in [Requests -> Labels]
  BY DEF SettleInv, PipeInv, PipeOK, GatewayTyped
<1>1. CASE ledger' = ledger /\ pc' = pc
  BY <1>0, <1>1, LedgerSame
<1>2. ASSUME NEW r \in Requests, Gateway(r) PROVE LedgerGrows
  <2>1. CASE PlaceHold(r)
    BY <2>1, PlaceHoldGrows
  <2>2. CASE ledger' = ledger /\ \E label \in Labels \ {"held"} : Goto(r, label)
    <3>1. \A q \in Requests : ~(pc[q] = "checked" /\ pc'[q] = "held")
      BY <1>0, <2>2 DEF Goto
    <3>. QED  BY <1>0, <2>2, <3>1 DEF LedgerGrows
  <2>3. ~PlaceHold(r) => ledger' = ledger
    BY <1>2 DEF Gateway, CheckIdempotency, ReadCachedBalance, LoadBalance, StoreLoadedBalance,
                PublishBalance, LogUsage, CreateUsageLog, OpenSession, CreateMeteringSession,
                EmitMeter, CacheResponse, HandlerStops, storeVars
  <2>4. ~PlaceHold(r) => \E label \in Labels \ {"held"} : Goto(r, label)
    BY <1>2 DEF Gateway, CheckIdempotency, ReadCachedBalance, Afford, LoadBalance, Labels,
                StoreLoadedBalance, PublishBalance, LogUsage, OpenSession, EmitMeter, Answers,
                CacheResponse, HandlerStops
  <2>. QED  BY <2>1, <2>2, <2>3, <2>4
<1>3. ASSUME NEW i \in worker.batch, HandleMessage(i) PROVE LedgerGrows
  <2>1. CASE Settle(i)
    BY <2>1, SettleGrows
  <2>2. ~Settle(i) => ledger' = ledger /\ pc' = pc
    BY <1>3 DEF HandleMessage, SettleFails, WorkerDeletesSession, DeleteMeteringSession,
                WorkerReadsBalance, WorkerSetsBalance, RetryLater, PushDLQ, Ack, storeVars,
                gatewayVars
  <2>. QED  BY <1>1, <2>1, <2>2
<1>4. CASE ClaimBatch \/ ReadBatch \/ WorkerCrash \/ ReplayDLQ
  BY <1>1, <1>4 DEF ClaimBatch, ReadBatch, Deliver, WorkerCrash, ReplayDLQ, storeVars, gatewayVars
<1>5. CASE ExpireResponse \/ \E r \in Requests : Expire(r)
  BY <1>1, <1>5 DEF ExpireResponse, Expire, SessionExpires, storeVars, gatewayVars
<1>6. CASE SweeperStep
  <2>1. CASE SweepRelease
    BY <2>1, SweepReleaseGrows
  <2>2. CASE SweepList \/ SweepRead \/ SweepDelete
    BY <1>1, <2>2 DEF SweepList, SweepRead, SweepDelete, DeleteMeteringSession, storeVars, gatewayVars
  <2>. QED  BY <1>6, <2>1, <2>2 DEF SweeperStep
<1>7. ASSUME NEW u \in Users, NEW a \in DepositAmounts, NEW k \in DepositKeys, Deposit(u, a, k)
      PROVE  LedgerGrows
  BY <1>7, DepositGrows
<1>8. CASE UNCHANGED vars
  BY <1>1, <1>8 DEF vars, storeVars, gatewayVars
<1>. QED
  BY <1>2, <1>3, <1>4, <1>5, <1>6, <1>7, <1>8 DEF Next, WorkerStep

(* A handler gets past ApplyHold only by placing its hold. *)
LEMMA GatewayHeldStep == SettleInv /\ [Next]_vars /\ LedgerGrows => GatewayHeld'
<1>. DEFINE Past == {"held", "published", "logged", "open"}
<1>. SUFFICES ASSUME SettleInv, [Next]_vars, LedgerGrows, NEW q \in Requests, pc'[q] \in Past
              PROVE  HeldIn(ledger', q)
  BY DEF GatewayHeld
<1>0. pc \in [Requests -> Labels]
  BY DEF SettleInv, PipeInv, PipeOK, GatewayTyped
<1>1. CASE pc[q] \in Past
  BY <1>1 DEF SettleInv, GatewayHeld, LedgerGrows
<1>2. CASE pc[q] \notin Past
  <2>1. pc' # pc
    BY <1>2
  <2>2. PICK r \in Requests : Gateway(r)
    BY <2>1 DEF Next, WorkerStep, HandleMessage, Settle, SettleFails, WorkerDeletesSession,
                WorkerReadsBalance, WorkerSetsBalance, RetryLater, PushDLQ, Ack, ClaimBatch,
                ReadBatch, Deliver, WorkerCrash, ReplayDLQ, ExpireResponse, Expire, SweeperStep,
                SweepList, SweepRead, SweepRelease, SweepDelete, Deposit, vars, gatewayVars
  <2>3. pc' = [pc EXCEPT ![r] = pc'[r]]
    BY <1>0, <2>2 DEF Gateway, CheckIdempotency, ReadCachedBalance, LoadBalance, StoreLoadedBalance,
                PlaceHold, PublishBalance, LogUsage, OpenSession, EmitMeter, CacheResponse,
                HandlerStops, Goto
  <2>4. q = r
    BY <1>0, <1>2, <2>3
  <2>5. pc[r] = "checked" /\ pc'[r] = "held"
    BY <1>0, <1>2, <2>2, <2>4
       DEF Gateway, CheckIdempotency, ReadCachedBalance, LoadBalance, StoreLoadedBalance, Afford,
           PlaceHold, PublishBalance, LogUsage, OpenSession, EmitMeter, Answers, CacheResponse,
           HandlerStops, Goto
  <2>. QED  BY <2>4, <2>5 DEF LedgerGrows
<1>. QED  BY <1>1, <1>2

(* A session is opened by a handler whose hold is placed, with that hold. *)
LEMMA SessionHeldStep == SettleInv /\ [Next]_vars /\ LedgerGrows => SessionHeld'
<1>. SUFFICES ASSUME SettleInv, [Next]_vars, LedgerGrows PROVE SessionHeld'
  OBVIOUS
<1>0. /\ SessionHeld /\ GatewayHeld /\ session \in [Requests -> SessionRow]
      /\ QueueTyped /\ SweepArgs
      /\ \A r \in Requests : HeldIn(ledger, r) => HeldIn(ledger', r)
  BY DEF SettleInv, PipeInv, PipeOK, StoreInv, StoreTypeOK, LedgerGrows
<1>1. CASE UNCHANGED session
  BY <1>0, <1>1 DEF SessionHeld
<1>2. ASSUME NEW r \in Requests, OpenSession(r) PROVE SessionHeld'
  <2>1. HeldIn(ledger', r) /\ HoldOf[r] \in HoldRange(r)
    BY <1>0, <1>2 DEF OpenSession, GatewayHeld, HoldRange
  <2>. QED  BY <1>0, <1>2, <2>1 DEF OpenSession, CreateMeteringSession, SessionHeld
<1>3. ASSUME NEW r \in Requests, Expire(r) PROVE SessionHeld'
  BY <1>0, <1>3 DEF Expire, SessionExpires, SessionHeld, SessionRow
<1>4. ASSUME NEW r \in Requests, DeleteMeteringSession(r) PROVE SessionHeld'
  <2>1. 0 \in HoldRange(r)
    BY DEF HoldRange
  <2>. QED  BY <1>0, <1>4, <2>1 DEF DeleteMeteringSession, NoSession, SessionHeld
<1>5. ASSUME NEW r \in Requests, Gateway(r) PROVE OpenSession(r) \/ UNCHANGED session
  BY <1>5 DEF Gateway, CheckIdempotency, ReadCachedBalance, LoadBalance, StoreLoadedBalance,
              PlaceHold, ApplyHold, PublishBalance, LogUsage, CreateUsageLog, EmitMeter,
              CacheResponse, HandlerStops, storeVars
<1>6. ASSUME NEW i \in worker.batch, HandleMessage(i)
      PROVE  DeleteMeteringSession(EventRequest(i)) \/ UNCHANGED session
  BY <1>6 DEF HandleMessage, Settle, CaptureAndRelease, SettleFails, WorkerDeletesSession,
              WorkerReadsBalance, WorkerSetsBalance, RetryLater, PushDLQ, Ack, storeVars
<1>7. \A i \in worker.batch : EventRequest(i) \in Requests
  BY <1>0, EventArgs
<1>8. CASE SweeperStep
  <2>1. (DeleteMeteringSession(sweeper.req) /\ sweeper.step = "delete") \/ UNCHANGED session
    BY <1>8 DEF SweeperStep, SweepList, SweepRead, SweepRelease, CaptureAndRelease, SweepDelete,
                storeVars
  <2>2. sweeper.step = "delete" => sweeper.req \in Requests
    BY <1>0 DEF SweepArgs
  <2>. QED  BY <1>1, <1>4, <2>1, <2>2
<1>9. CASE ClaimBatch \/ ReadBatch \/ WorkerCrash \/ ReplayDLQ \/ ExpireResponse \/ UNCHANGED vars
  BY <1>1, <1>9 DEF ClaimBatch, ReadBatch, Deliver, WorkerCrash, ReplayDLQ, ExpireResponse, vars,
                    storeVars
<1>10. ASSUME NEW u \in Users, NEW a \in DepositAmounts, NEW k \in DepositKeys, Deposit(u, a, k)
       PROVE  UNCHANGED session
  BY <1>10 DEF Deposit, DepositCredits
<1>. QED
  BY <1>1, <1>2, <1>3, <1>4, <1>5, <1>6, <1>7, <1>8, <1>9, <1>10 DEF Next, WorkerStep

(* The parts of a concatenation. *)
LEMMA ConcatParts ==
    ASSUME NEW S, NEW s \in Seq(S), NEW t \in Seq(S)
    PROVE  /\ s \o t \in Seq(S) /\ Len(s \o t) = Len(s) + Len(t)
           /\ \A i \in 1..(Len(s) + Len(t)) :
                 (s \o t)[i] = IF i <= Len(s) THEN s[i] ELSE t[i - Len(s)]
OBVIOUS

(* An event enters the stream from a handler with its hold placed; a DLQ copy or a
   replay is of an event already there. *)
LEMMA QueueHeldStep == SettleInv /\ [Next]_vars /\ LedgerGrows => QueueHeld'
<1>. SUFFICES ASSUME SettleInv, [Next]_vars, LedgerGrows PROVE QueueHeld'
  OBVIOUS
<1>0. /\ QueueHeld /\ GatewayHeld /\ QueueTyped
      /\ DOMAIN stream = 1..Len(stream) /\ Len(stream) \in Nat
      /\ DOMAIN dlq = 1..Len(dlq) /\ Len(dlq) \in Nat
      /\ \A r \in Requests : HeldIn(ledger, r) => HeldIn(ledger', r)
  BY DEF SettleInv, PipeInv, PipeOK, QueueTyped, LedgerGrows
<1>1. /\ \A i \in DOMAIN stream : stream[i].ev.req \in Requests /\ stream[i] \in Entries
      /\ \A i \in DOMAIN dlq : dlq[i].req \in Requests
  <2>1. /\ \A i \in DOMAIN stream : stream[i] \in Entries
        /\ \A i \in DOMAIN dlq : dlq[i] \in Events
    BY <1>0 DEF QueueTyped
  <2>2. \A e \in Entries : e.ev \in Events
    BY DEF Entries
  <2>3. \A e \in Events : e.req \in Requests
    BY DEF Events
  <2>. QED  BY <2>1, <2>2, <2>3
<1>2. /\ \A i \in DOMAIN stream : HeldIn(ledger', stream[i].ev.req)
      /\ \A i \in DOMAIN dlq : HeldIn(ledger', dlq[i].req)
  BY <1>0, <1>1 DEF QueueHeld
<1>3. CASE UNCHANGED <<stream, dlq>>
  BY <1>2, <1>3 DEF QueueHeld
<1>4. ASSUME DOMAIN stream' = DOMAIN stream, \A i \in DOMAIN stream : stream'[i].ev = stream[i].ev,
             UNCHANGED dlq
      PROVE  QueueHeld'
  BY <1>2, <1>4 DEF QueueHeld
<1>5. ASSUME NEW r \in Requests, Gateway(r) PROVE QueueHeld'
  <2>1. ASSUME NEW status \in Outcomes, NEW cost \in Costs, pc[r] = "open", UNCHANGED dlq,
               stream' = Append(stream, NewEntry([req |-> r, cost |-> cost, status |-> status]))
        PROVE  QueueHeld'
    <3>. DEFINE e == NewEntry([req |-> r, cost |-> cost, status |-> status])
    <3>1. e.ev.req = r /\ HeldIn(ledger', r)
      BY <1>0, <2>1 DEF NewEntry, GatewayHeld
    <3>. HIDE DEF e
    <3>2. /\ DOMAIN stream' = 1..(Len(stream) + 1)
          /\ \A i \in 1..Len(stream) : stream'[i] = stream[i]
          /\ stream'[Len(stream) + 1] = e
      BY <1>0, <2>1 DEF QueueTyped, e
    <3>3. \A i \in DOMAIN stream' : i \in DOMAIN stream \/ i = Len(stream) + 1
      BY <1>0, <3>2
    <3>. QED  BY <1>0, <1>2, <2>1, <3>1, <3>2, <3>3 DEF QueueHeld
  <2>2. CASE EmitMeter(r)
    BY <1>3, <2>1, <2>2 DEF EmitMeter
  <2>3. ~EmitMeter(r) => UNCHANGED <<stream, dlq>>
    BY <1>5 DEF Gateway, CheckIdempotency, ReadCachedBalance, LoadBalance, StoreLoadedBalance,
                PlaceHold, PublishBalance, LogUsage, OpenSession, CacheResponse, HandlerStops,
                queueVars
  <2>. QED  BY <1>3, <2>2, <2>3
<1>6. ASSUME NEW i \in worker.batch, HandleMessage(i) PROVE QueueHeld'
  <2>0. i \in DOMAIN stream
    BY <1>0, EventArgs
  <2>1. CASE PushDLQ(i) /\ dlq' # dlq
    <3>. DEFINE e == stream[i].ev
    <3>1. dlq' = Append(dlq, e) /\ UNCHANGED stream /\ HeldIn(ledger', e.req)
      BY <1>2, <2>0, <2>1 DEF PushDLQ
    <3>. HIDE DEF e
    <3>2. /\ DOMAIN dlq' = 1..(Len(dlq) + 1)
          /\ \A j \in 1..Len(dlq) : dlq'[j] = dlq[j]
          /\ dlq'[Len(dlq) + 1] = e
      BY <1>0, <3>1 DEF QueueTyped
    <3>3. \A j \in DOMAIN dlq' : j \in DOMAIN dlq \/ j = Len(dlq) + 1
      BY <1>0, <3>2
    <3>. QED  BY <1>0, <1>2, <3>1, <3>2, <3>3 DEF QueueHeld
  <2>2. CASE Ack(i)
    <3>1. stream' = [stream EXCEPT ![i].acked = TRUE] /\ UNCHANGED dlq
      BY <2>2 DEF Ack
    <3>2. stream[i] \in Entries
      BY <1>1, <2>0
    <3>3. \A j \in DOMAIN stream : stream'[j].ev = stream[j].ev
      BY <2>0, <3>1, <3>2 DEF Entries
    <3>. QED  BY <1>4, <3>1, <3>3
  <2>3. ~Ack(i) /\ dlq' = dlq => UNCHANGED <<stream, dlq>>
    BY <1>6 DEF HandleMessage, Settle, SettleFails, WorkerDeletesSession, WorkerReadsBalance,
                WorkerSetsBalance, RetryLater, PushDLQ, queueVars
  <2>4. dlq' # dlq => PushDLQ(i)
    BY <1>6 DEF HandleMessage, Settle, SettleFails, WorkerDeletesSession, WorkerReadsBalance,
                WorkerSetsBalance, RetryLater, Ack, queueVars
  <2>. QED  BY <1>3, <2>1, <2>2, <2>3, <2>4
<1>7. CASE ClaimBatch \/ ReadBatch
  <2>1. PICK ids : Deliver(ids)
    BY <1>7 DEF ClaimBatch, ReadBatch
  <2>2. /\ DOMAIN stream' = DOMAIN stream /\ UNCHANGED dlq
        /\ \A i \in DOMAIN stream : stream'[i].ev = stream[i].ev
    BY <1>1, <2>1 DEF Deliver, Entries
  <2>. QED  BY <1>4, <2>2
<1>8. CASE ReplayDLQ
  <2>. DEFINE new == [i \in DOMAIN dlq |-> NewEntry(dlq[i])]
  <2>1. new \in Seq(Entries) /\ Len(new) = Len(dlq)
    BY <1>0 DEF QueueTyped, NewEntry, Entries
  <2>2. \A i \in DOMAIN dlq : new[i].ev = dlq[i]
    BY DEF NewEntry
  <2>3. stream' = stream \o new /\ UNCHANGED dlq
    BY <1>8 DEF ReplayDLQ
  <2>. HIDE DEF new
  <2>4. /\ DOMAIN stream' = 1..(Len(stream) + Len(dlq))
        /\ \A i \in 1..Len(stream) : stream'[i] = stream[i]
        /\ \A i \in 1..Len(dlq) : stream'[Len(stream) + i] = new[i]
    <3>1. stream \in Seq(Entries) /\ Len(stream) \in Nat /\ Len(dlq) \in Nat
      BY <1>0 DEF QueueTyped
    <3>2. /\ stream' \in Seq(Entries) /\ Len(stream') = Len(stream) + Len(dlq)
          /\ \A i \in 1..(Len(stream) + Len(new)) :
                stream'[i] = IF i <= Len(stream) THEN stream[i] ELSE new[i - Len(stream)]
      <4>1. /\ stream \o new \in Seq(Entries) /\ Len(stream \o new) = Len(stream) + Len(new)
            /\ \A i \in 1..(Len(stream) + Len(new)) :
                  (stream \o new)[i] = IF i <= Len(stream) THEN stream[i] ELSE new[i - Len(stream)]
        BY <2>1, <3>1, ConcatParts, Zenon
      <4>. QED  BY <2>1, <2>3, <4>1, Zenon
    <3>3. DOMAIN stream' = 1..(Len(stream) + Len(dlq))
      BY <3>2
    <3>4. \A i \in 1..Len(stream) : stream'[i] = stream[i]
      BY <2>1, <3>1, <3>2
    <3>5. ASSUME NEW i \in 1..Len(dlq) PROVE stream'[Len(stream) + i] = new[i]
      <4>1. /\ Len(stream) + i \in 1..(Len(stream) + Len(new))
            /\ ~(Len(stream) + i <= Len(stream)) /\ (Len(stream) + i) - Len(stream) = i
        BY <2>1, <3>1
      <4>. QED  BY <3>2, <4>1
    <3>. QED  BY <3>3, <3>4, <3>5
  <2>5. ASSUME NEW i \in DOMAIN stream' PROVE HeldIn(ledger', stream'[i].ev.req)
    <3>1. CASE i \in 1..Len(stream)
      BY <1>0, <1>2, <2>4, <3>1
    <3>2. CASE i \notin 1..Len(stream)
      <4>1. i - Len(stream) \in 1..Len(dlq) /\ i = Len(stream) + (i - Len(stream))
        BY <1>0, <2>4, <3>2
      <4>2. stream'[i] = new[i - Len(stream)]
        BY <2>4, <4>1
      <4>. QED  BY <1>0, <1>2, <2>2, <4>1, <4>2
    <3>. QED  BY <3>1, <3>2
  <2>. QED  BY <1>2, <2>3, <2>5 DEF QueueHeld
<1>9. CASE WorkerCrash \/ SweeperStep \/ ExpireResponse \/ UNCHANGED vars
  BY <1>3, <1>9 DEF WorkerCrash, SweeperStep, SweepList, SweepRead, SweepRelease, SweepDelete,
                    ExpireResponse, vars, queueVars
<1>10. ASSUME NEW r \in Requests, Expire(r) PROVE QueueHeld'
  BY <1>3, <1>10 DEF Expire, queueVars
<1>11. ASSUME NEW u \in Users, NEW a \in DepositAmounts, NEW k \in DepositKeys, Deposit(u, a, k)
       PROVE  QueueHeld'
  BY <1>3, <1>11 DEF Deposit, queueVars
<1>. QED
  BY <1>5, <1>6, <1>7, <1>8, <1>9, <1>10, <1>11 DEF Next, WorkerStep

(* What the sweeper has in hand was listed from the sessions, and its hold read there. *)
LEMMA SweepHeldStep == SettleInv /\ [Next]_vars /\ LedgerGrows => SweepHeld'
<1>. SUFFICES ASSUME SettleInv, [Next]_vars, LedgerGrows PROVE SweepHeld'
  OBVIOUS
<1>0. /\ SweepHeld /\ SessionHeld /\ SweepTyped /\ SweepArgs
      /\ \A r \in Requests : HeldIn(ledger, r) => HeldIn(ledger', r)
  BY DEF SettleInv, PipeInv, PipeOK, LedgerGrows
<1>1. /\ \A r \in sweeper.todo : r \in Requests /\ HeldIn(ledger', r)
      /\ sweeper.step # "list" =>
            HeldIn(ledger', sweeper.req) /\ sweeper.hold \in HoldRange(sweeper.req)
  BY <1>0 DEF SweepHeld, SweepTyped, SweepArgs
<1>2. CASE UNCHANGED sweeper
  BY <1>1, <1>2 DEF SweepHeld
<1>3. CASE SweepNext \/ sweeper' = NoSweep
  BY <1>1, <1>3 DEF SweepNext, NoSweep, SweepHeld
<1>4. CASE SweepList
  <2>1. PICK ids \in SUBSET Expired : sweeper' = [sweeper EXCEPT !.todo = ids]
    BY <1>4 DEF SweepList
  <2>2. \A r \in ids : HeldIn(ledger', r)
    BY <1>0 DEF Expired, SessionHeld
  <2>3. sweeper'.todo = ids /\ sweeper'.step = "list"
    BY <1>0, <1>4, <2>1 DEF SweepTyped, SweepList
  <2>. QED  BY <2>2, <2>3 DEF SweepHeld
<1>5. CASE SweepRead
  <2>1. ASSUME NEW r \in sweeper.todo,
               sweeper' = [sweeper EXCEPT !.step = "release", !.req = r, !.hold = session[r].hold]
        PROVE  SweepHeld'
    <3>1. /\ sweeper'.todo = sweeper.todo /\ sweeper'.req = r /\ sweeper'.hold = session[r].hold
      BY <1>0, <2>1 DEF SweepTyped
    <3>. QED  BY <1>0, <1>1, <2>1, <3>1 DEF SessionHeld, SweepHeld
  <2>3. ASSUME NEW r \in sweeper.todo,
               sweeper' = [sweeper EXCEPT !.step = "release", !.req = r, !.hold = 0]
        PROVE  SweepHeld'
    <3>1. /\ sweeper'.todo = sweeper.todo /\ sweeper'.req = r /\ sweeper'.hold = 0
          /\ 0 \in HoldRange(r)
      BY <1>0, <2>3 DEF SweepTyped, HoldRange
    <3>. QED  BY <1>0, <1>1, <2>3, <3>1 DEF SweepHeld
  <2>2. ASSUME NEW r \in sweeper.todo, sweeper.step = "list",
               sweeper' = [sweeper EXCEPT !.todo = @ \ {r}]
        PROVE  SweepHeld'
    BY <1>0, <1>1, <2>2 DEF SweepTyped, SweepHeld
  <2>. QED  BY <1>5, <2>1, <2>2, <2>3 DEF SweepRead
<1>6. CASE sweeper.step = "release" /\ sweeper' = [sweeper EXCEPT !.step = "delete"]
  BY <1>0, <1>1, <1>6 DEF SweepTyped, SweepHeld
<1>7. CASE SweeperStep
  BY <1>3, <1>4, <1>5, <1>6, <1>7 DEF SweeperStep, SweepRelease, SweepSkip, SweepDelete
<1>8. ~SweeperStep => UNCHANGED sweeper \/ sweeper' = NoSweep
  BY DEF Next, Gateway, CheckIdempotency, ReadCachedBalance, LoadBalance, StoreLoadedBalance,
         PlaceHold, PublishBalance, LogUsage, OpenSession, EmitMeter, CacheResponse, HandlerStops,
         WorkerStep, HandleMessage, Settle, SettleFails, WorkerDeletesSession, WorkerReadsBalance,
         WorkerSetsBalance, RetryLater, PushDLQ, Ack, ClaimBatch, ReadBatch, Deliver, WorkerCrash,
         ReplayDLQ, ExpireResponse, Expire, Deposit, vars
<1>. QED  BY <1>2, <1>3, <1>7, <1>8

-----------------------------------------------------------------------------
(* Every step keeps the invariant. *)
LEMMA SettleStepInv == SettleInv /\ [Next]_vars => SettleInv'
<1>. SUFFICES ASSUME SettleInv, [Next]_vars PROVE SettleInv'
  OBVIOUS
<1>1. PipeInv'
  BY PipeStepInv DEF SettleInv
<1>2. LedgerGrows
  BY StepGrows
<1>3. TableGood(ledger)'
  BY <1>2 DEF LedgerGrows, TableGood, RowGood
<1>4. GatewayHeld' /\ SessionHeld' /\ QueueHeld' /\ SweepHeld'
  BY <1>2, GatewayHeldStep, SessionHeldStep, QueueHeldStep, SweepHeldStep
<1>. QED  BY <1>1, <1>3, <1>4 DEF SettleInv

(* SettleInv holds in every reachable state. *)
LEMMA SettlementInvariant == Spec => []SettleInv
BY SettleInitInv, SettleStepInv, PTL DEF Spec

(***************************************************************************)
(* Worker and sweeper capture and release only against an earlier hold of  *)
(* the same request and never more than it, whatever is redelivered,       *)
(* replayed, crashed or interleaved.                                       *)
(***************************************************************************)
THEOREM SettlementNeverExceedsHold == Spec => []SettlementWithinHold
<1>1. SettleInv => SettlementWithinHold
  BY DEF SettleInv, TableGood, RowGood, Settling, SettlementWithinHold
<1>. QED  BY <1>1, SettlementInvariant, PTL

(***************************************************************************)
(* A request without a client key is captured at most once and released at *)
(* most once: its settlement keys are made of its own id, and the UNIQUE   *)
(* constraint admits each key once, in the worker as in the sweeper.       *)
(***************************************************************************)
THEOREM KeylessSettledOnce == Spec => []KeylessSettledOnceEach
<1>1. SettleInv => KeylessSettledOnceEach
  <2>. SUFFICES ASSUME SettleInv, NEW r \in Requests, KeyOf[r] = NoKey,
                       NEW p \in RowsFor(r), NEW q \in RowsFor(r),
                       p.ref = r, q.ref = r, p.type = q.type, p.type \in Settling
                PROVE  p = q
    BY DEF KeylessSettledOnceEach, SettledOnceEach, Settling
  <2>. DEFINE u == UserOf[r]
  <2>0. u \in Users
    BY HoldArgs
  <2>1. PICK i \in 1..Len(ledger[u]), j \in 1..Len(ledger[u]) : p = ledger[u][i] /\ q = ledger[u][j]
    BY DEF RowsFor, RowsIn
  <2>2. p.key = <<p.type, r>> /\ q.key = <<q.type, r>>
    BY <2>0, <2>1 DEF SettleInv, TableGood, RowGood
  <2>3. KeysUnique
    BY DEF SettleInv, PipeInv, StoreInv
  <2>. QED  BY <2>0, <2>1, <2>2, <2>3 DEF KeysUnique, UniqueKeys
<1>. QED  BY <1>1, SettlementInvariant, PTL
=============================================================================
