--------------------------- MODULE MeteringPipeline ---------------------------
(***************************************************************************)
(* The money path of one request: the gateway places a hold before the     *)
(* downstream call and emits a metering event after it; the ledger worker  *)
(* consumes the Redis stream, captures the cost and releases the rest; the *)
(* sweeper releases holds whose session expired; an operator deposits      *)
(* credits and replays the dead-letter queue.                              *)
(*                                                                         *)
(* Every remote call (PostgreSQL transaction or Redis command) that other  *)
(* processes can observe is a step of its own, so any two handlers         *)
(* interleave between their calls, and a process may stop between two.     *)
(* Operators marked "Mistake" are wrong variants of the next definition.   *)
(***************************************************************************)
EXTENDS CreditStore

CONSTANTS
    UserOf,       \* the user that sends a request
    HoldOf,       \* the estimate RouteMiddleware puts in the context: never 0, perhaps negative
    KeyOf,        \* its Idempotency-Key header, NoKey when absent
    Streaming,    \* the requests whose route or payload asks for a stream
    Outcomes,     \* the statuses emitMeter may report
    Costs,        \* what NormalizeWithOptions may compute for an event
    MaxRetries,   \* WORKER_MAX_RETRIES
    BatchSize,    \* COUNT of XREADGROUP and XAUTOCLAIM
    SweepLimit,   \* LIMIT of GetExpiredSessions
    DepositAmounts,
    Faults,       \* the kinds of failure that may happen
    MaxFaults,    \* bound: how many of them in one behaviour
    MaxReplays,   \* bound: DLQ replays by the operator
    Miss          \* no balance:{user} key in Redis

ASSUME RequestsWellFormed ==
    /\ UserOf \in [Requests -> Users]
    /\ HoldOf \in [Requests -> Int \ {0}]
    /\ KeyOf \in [Requests -> ClientKeys \cup {NoKey}]
    /\ Streaming \subseteq Requests

(* What is captured, released or kept of a hold, be it positive or negative. *)
HoldRange(r) == {0, HoldOf[r]} \cup 0..HoldOf[r]

ASSUME AmountsCoverPipeline ==
    /\ \A r \in Requests : HoldRange(r) \subseteq Amounts
    /\ DepositAmounts \subseteq Amounts
    /\ Costs \subseteq Nat /\ Outcomes \subseteq Statuses

ASSUME BoundsAreNaturals ==
    /\ MaxRetries \in Nat \ {0} /\ BatchSize \in Nat \ {0} /\ SweepLimit \in Nat \ {0}
    /\ MaxFaults \in Nat /\ MaxReplays \in Nat /\ Miss \notin Nat

(***************************************************************************)
(* Failures the code meets and (mostly) ignores:                           *)
(*   solvency  the handler ends before its session exists, after a failed  *)
(*             query or in a crash, perhaps with the hold already placed   *)
(*   proxy     it ends around the downstream call                          *)
(*   client    the client disconnects: r.Context() is cancelled, the XADD  *)
(*             of the metering event fails and its error is dropped        *)
(*   cache     a Redis SET of the balance or GET of a response fails,      *)
(*             error dropped                                               *)
(*   worker    the worker process stops and is restarted                   *)
(*   process   ProcessEvent fails before or in its transaction, or the     *)
(*             XPENDING that counts an entry's deliveries fails            *)
(*   push      the XADD to meter:dlq fails, error dropped                  *)
(*   delete    DELETE FROM metering_sessions fails, error dropped          *)
(*   sweep     a query of the sweeper fails, its error perhaps dropped     *)
(***************************************************************************)
FaultKinds == {"solvency", "proxy", "client", "cache", "worker", "process",
               "push", "delete", "sweep"}

ASSUME FaultsKnown == Faults \subseteq FaultKinds

VARIABLES
    pc,         \* where the gateway's handler of a request stands
    known,      \* the balance it read or computed, used by a later call
    cached,     \* Redis balance:{user}
    responses,  \* Redis idem:{user:key:path}: replayable 2xx responses
    stream,     \* meter:stream with the state of group ledger-workers
    dlq,        \* meter:dlq
    worker,     \* the processBatch loop: messages in hand, step, balance read
    sweeper,    \* the runSweeper loop: ids listed, id in hand, hold read
    faults, replays

gatewayVars == <<pc, known, responses>>
queueVars == <<stream, dlq, replays>>
vars == <<storeVars, gatewayVars, cached, queueVars, worker, sweeper, faults>>

Events == [req : Requests, cost : Costs, status : Outcomes]
Entries == [ev : Events, deliveries : Nat, acked : BOOLEAN]

NewEntry(e) == [ev |-> e, deliveries |-> 0, acked |-> FALSE]
Pending == {i \in DOMAIN stream : stream[i].deliveries > 0 /\ ~stream[i].acked}
Undelivered == {i \in DOMAIN stream : stream[i].deliveries = 0}

NoWork == [batch |-> {}, step |-> "process", bal |-> 0]
NoSweep == [todo |-> {}, req |-> NoKey, hold |-> 0, step |-> "list"]

Fault(kind) ==
    /\ kind \in Faults
    /\ faults < MaxFaults
    /\ faults' = faults + 1

-----------------------------------------------------------------------------
(* The gateway: IdempotencyMiddleware, SolvencyMiddleware, proxy handler. *)

Goto(r, label) == pc' = [pc EXCEPT ![r] = label]
Afford(r, bal) == IF bal < HoldOf[r] THEN "rejected" ELSE "checked"

(***************************************************************************)
(* A streaming request with a key is refused (409); a cached 2xx response  *)
(* for the key is replayed and nothing else runs.  A failing GET is a miss.*)
(***************************************************************************)
CheckIdempotency(r) ==
    /\ pc[r] = "new"
    /\ \/ /\ KeyOf[r] # NoKey /\ r \in Streaming
          /\ Goto(r, "rejected")
          /\ UNCHANGED faults
       \/ /\ KeyOf[r] = NoKey \/ r \notin Streaming
          /\ Goto(r, IF <<UserOf[r], KeyOf[r]>> \in responses THEN "replayed" ELSE "admitted")
          /\ UNCHANGED faults
       \/ /\ KeyOf[r] # NoKey /\ r \notin Streaming
          /\ Fault("cache")
          /\ Goto(r, "admitted")
    /\ UNCHANGED <<storeVars, known, responses, cached, queueVars, worker, sweeper>>

ReadCachedBalance(r) ==
    /\ pc[r] = "admitted"
    /\ Goto(r, IF cached[UserOf[r]] = Miss THEN "miss" ELSE Afford(r, cached[UserOf[r]]))
    /\ UNCHANGED <<storeVars, known, responses, cached, queueVars, worker, sweeper, faults>>

(* On a miss: GetUser, then SetBalance with the value read. *)
LoadBalance(r) ==
    /\ pc[r] = "miss"
    /\ known' = [known EXCEPT ![r] = balance[UserOf[r]]]
    /\ Goto(r, "loaded")
    /\ UNCHANGED <<storeVars, responses, cached, queueVars, worker, sweeper, faults>>

(* SetBalance(u, v); its error is dropped by every caller. *)
SetBalance(u, v) ==
    \/ cached' = [cached EXCEPT ![u] = v] /\ UNCHANGED faults
    \/ Fault("cache") /\ UNCHANGED cached

StoreLoadedBalance(r) ==
    /\ pc[r] = "loaded"
    /\ SetBalance(UserOf[r], known[r])
    /\ Goto(r, Afford(r, known[r]))
    /\ known' = [known EXCEPT ![r] = 0]
    /\ UNCHANGED <<storeVars, responses, queueVars, worker, sweeper>>

(* Mistakes: no fallback to the request id; the client's key is ignored. *)
BlankHoldKey(r) == <<"hold", KeyOf[r]>>
RequestHoldKey(r) == <<"hold", r>>
HoldKey(r) == <<"hold", KeySuffix(r, KeyOf[r])>>

(* ApplyHold decides under the row lock; any error is answered with 402. *)
PlaceHold(r) ==
    /\ pc[r] = "checked"
    /\ \/ /\ ApplyHold(UserOf[r], HoldOf[r], r, HoldKey(r))
          /\ known' = [known EXCEPT ![r] = balance[UserOf[r]] - HoldOf[r]]
          /\ Goto(r, "held")
       \/ /\ ~ApplyHoldOK(UserOf[r], HoldOf[r], HoldKey(r))
          /\ Goto(r, "rejected")
          /\ UNCHANGED <<storeVars, known>>
    /\ UNCHANGED <<responses, cached, queueVars, worker, sweeper, faults>>

(* SetBalance(newBal), computed by a transaction that may no longer be the last. *)
PublishBalance(r) ==
    /\ pc[r] = "held"
    /\ SetBalance(UserOf[r], known[r])
    /\ Goto(r, "published")
    /\ known' = [known EXCEPT ![r] = 0]
    /\ UNCHANGED <<storeVars, responses, queueVars, worker, sweeper>>

LogUsage(r) ==
    /\ pc[r] = "published"
    /\ CreateUsageLog(r)
    /\ Goto(r, "logged")
    /\ UNCHANGED <<known, responses, cached, queueVars, worker, sweeper, faults>>

OpenSession(r) ==
    /\ pc[r] = "logged"
    /\ CreateMeteringSession(r, HoldOf[r])
    /\ Goto(r, "open")
    /\ UNCHANGED <<known, responses, cached, queueVars, worker, sweeper, faults>>

(* Mistake: the response of a request without a key is cached too. *)
AnyAnswer(r) == {"served", "done"}

(* A keyed request is answered with a 2xx, to be cached, or with another code. *)
Answers(r) == IF KeyOf[r] = NoKey THEN {"done"} ELSE {"served", "done"}

(***************************************************************************)
(* The downstream call ends, in whatever way, and emitMeter adds one event *)
(* with its status and the usage that will be priced.                      *)
(***************************************************************************)
EmitMeter(r) ==
    /\ pc[r] = "open"
    /\ \/ /\ \E status \in Outcomes, cost \in Costs :
                stream' = Append(stream, NewEntry([req |-> r, cost |-> cost, status |-> status]))
          /\ UNCHANGED faults
       \/ Fault("client") /\ UNCHANGED stream
    /\ \E label \in Answers(r) : Goto(r, label)
    /\ UNCHANGED <<storeVars, known, responses, cached, dlq, replays, worker, sweeper>>

(* Mistake: a 402 is cached as if it were a 2xx. *)
CacheAnyResponse(r) ==
    /\ pc[r] \in {"served", "rejected"}
    /\ responses' = responses \cup {<<UserOf[r], KeyOf[r]>>}
    /\ Goto(r, "done")
    /\ UNCHANGED <<storeVars, known, cached, queueVars, worker, sweeper, faults>>

CacheResponse(r) ==
    /\ pc[r] = "served"
    /\ responses' = responses \cup {<<UserOf[r], KeyOf[r]>>}
    /\ Goto(r, "done")
    /\ UNCHANGED <<storeVars, known, cached, queueVars, worker, sweeper, faults>>

(* An error return, a panic or a gateway crash: nothing is undone. *)
HandlerStops(r) ==
    /\ \/ /\ pc[r] \in {"admitted", "miss", "loaded", "checked", "held", "published", "logged"}
          /\ Fault("solvency")
       \/ pc[r] \in {"open", "served"} /\ Fault("proxy")
    /\ Goto(r, "aborted")
    /\ known' = [known EXCEPT ![r] = 0]
    /\ UNCHANGED <<storeVars, responses, cached, queueVars, worker, sweeper>>

Gateway(r) ==
    \/ CheckIdempotency(r) \/ ReadCachedBalance(r) \/ LoadBalance(r)
    \/ StoreLoadedBalance(r) \/ PlaceHold(r) \/ PublishBalance(r) \/ LogUsage(r)
    \/ OpenSession(r) \/ EmitMeter(r) \/ CacheResponse(r) \/ HandlerStops(r)

-----------------------------------------------------------------------------
(* The ledger worker: processBatch, handleMessage, Worker.ProcessEvent. *)

(* Mistakes: the cost is not cut to the hold; the whole hold is released. *)
UncutCapture(hold, cost) == cost
FullRelease(hold, cost) == hold

(* CaptureRelease: a cost above the hold is cut to the hold. *)
CaptureOf(hold, cost) == IF cost > hold THEN hold ELSE cost
ReleaseOf(hold, cost) == hold - CaptureOf(hold, cost)

Deliver(ids) ==
    /\ stream' = [i \in DOMAIN stream |->
                    IF i \in ids THEN [stream[i] EXCEPT !.deliveries = @ + 1] ELSE stream[i]]
    /\ worker' = [worker EXCEPT !.batch = ids]
    /\ UNCHANGED <<storeVars, gatewayVars, cached, dlq, replays, sweeper, faults>>

(* XAUTOCLAIM: pending entries that have been idle long enough. *)
ClaimBatch ==
    /\ worker.batch = {}
    /\ \E ids \in SUBSET Pending : ids # {} /\ Cardinality(ids) <= BatchSize /\ Deliver(ids)

(* XREADGROUP >: the oldest entries never delivered. *)
ReadBatch ==
    /\ worker.batch = {}
    /\ Undelivered # {}
    /\ Deliver({i \in Undelivered : Cardinality({j \in Undelivered : j < i}) < BatchSize})

(* Both calls return entries in id order and handleMessage takes them so. *)
InHand(i) == i \in worker.batch /\ \A j \in worker.batch : i <= j
WorkerAt(i, step) == InHand(i) /\ worker.step = step
WorkerGoto(step) == worker' = [worker EXCEPT !.step = step]
NextMessage(i) == worker' = [NoWork EXCEPT !.batch = worker.batch \ {i}]

EventRequest(i) == stream[i].ev.req
EventUser(i) == UserOf[EventRequest(i)]
EventCapture(i) == CaptureOf(HoldOf[EventRequest(i)], stream[i].ev.cost)
EventRelease(i) == ReleaseOf(HoldOf[EventRequest(i)], stream[i].ev.cost)

(* The transaction of ProcessEvent, with the client's key when there is one. *)
Settle(i) ==
    /\ WorkerAt(i, "process")
    /\ CaptureAndRelease(EventUser(i), EventRequest(i), EventCapture(i), EventRelease(i),
                         stream[i].ev.status, KeyOf[EventRequest(i)])
    /\ WorkerGoto("settled")
    /\ UNCHANGED <<gatewayVars, cached, queueVars, sweeper, faults>>

(* Mistake: ProcessEvent drops the error of its transaction. *)
SwallowError(i) ==
    /\ WorkerAt(i, "process")
    /\ ~CaptureAndReleaseOK(EventUser(i), EventRequest(i), EventCapture(i),
                             EventRelease(i), KeyOf[EventRequest(i)]) \/ "process" \in Faults
    /\ WorkerGoto("ack")
    /\ UNCHANGED <<storeVars, gatewayVars, cached, queueVars, sweeper, faults>>

(* An error of ProcessEvent: a rolled-back transaction or anything before it. *)
SettleFails(i) ==
    /\ WorkerAt(i, "process")
    /\ \/ /\ ~CaptureAndReleaseOK(EventUser(i), EventRequest(i), EventCapture(i),
                                   EventRelease(i), KeyOf[EventRequest(i)])
          /\ UNCHANGED faults
       \/ Fault("process")
    /\ WorkerGoto("failed")
    /\ UNCHANGED <<storeVars, gatewayVars, cached, queueVars, sweeper>>

(* DeleteMeteringSession; its error is dropped. *)
WorkerDeletesSession(i) ==
    /\ WorkerAt(i, "settled")
    /\ \/ DeleteMeteringSession(EventRequest(i)) /\ UNCHANGED faults
       \/ Fault("delete") /\ UNCHANGED storeVars
    /\ WorkerGoto("cleared")
    /\ UNCHANGED <<gatewayVars, cached, queueVars, sweeper>>

WorkerReadsBalance(i) ==
    /\ WorkerAt(i, "cleared")
    /\ worker' = [worker EXCEPT !.step = "read", !.bal = balance[EventUser(i)]]
    /\ UNCHANGED <<storeVars, gatewayVars, cached, queueVars, sweeper, faults>>

WorkerSetsBalance(i) ==
    /\ WorkerAt(i, "read")
    /\ SetBalance(EventUser(i), worker.bal)
    /\ worker' = [worker EXCEPT !.step = "ack", !.bal = 0]
    /\ UNCHANGED <<storeVars, gatewayVars, queueVars, sweeper>>

(***************************************************************************)
(* Too few deliveries: the entry stays pending and is claimed again later. *)
(* When XPENDING fails, MessageDeliveries answers 1.                       *)
(***************************************************************************)
RetryLater(i) ==
    /\ WorkerAt(i, "failed")
    /\ \/ stream[i].deliveries < MaxRetries /\ UNCHANGED faults
       \/ 1 < MaxRetries /\ Fault("process")
    /\ NextMessage(i)
    /\ UNCHANGED <<storeVars, gatewayVars, cached, queueVars, sweeper>>

PushDLQ(i) ==
    /\ WorkerAt(i, "failed")
    /\ stream[i].deliveries >= MaxRetries
    /\ \/ dlq' = Append(dlq, stream[i].ev) /\ UNCHANGED faults
       \/ Fault("push") /\ UNCHANGED dlq
    /\ WorkerGoto("ack")
    /\ UNCHANGED <<storeVars, gatewayVars, cached, stream, replays, sweeper>>

(* Mistake: the whole batch is acknowledged with its first message. *)
AckBatch(i) ==
    /\ WorkerAt(i, "ack")
    /\ stream' = [j \in DOMAIN stream |->
                    [stream[j] EXCEPT !.acked = @ \/ j \in worker.batch]]
    /\ NextMessage(i)
    /\ UNCHANGED <<storeVars, gatewayVars, cached, dlq, replays, sweeper, faults>>

Ack(i) ==
    /\ WorkerAt(i, "ack")
    /\ stream' = [stream EXCEPT ![i].acked = TRUE]
    /\ NextMessage(i)
    /\ UNCHANGED <<storeVars, gatewayVars, cached, dlq, replays, sweeper, faults>>

(* The process stops: both loops lose their local state. *)
WorkerCrash ==
    /\ worker # NoWork \/ sweeper # NoSweep
    /\ Fault("worker")
    /\ worker' = NoWork
    /\ sweeper' = NoSweep
    /\ UNCHANGED <<storeVars, gatewayVars, cached, queueVars>>

HandleMessage(i) ==
    \/ Settle(i) \/ SettleFails(i) \/ WorkerDeletesSession(i) \/ WorkerReadsBalance(i)
    \/ WorkerSetsBalance(i) \/ RetryLater(i) \/ PushDLQ(i) \/ Ack(i)

WorkerStep == ClaimBatch \/ ReadBatch \/ \E i \in worker.batch : HandleMessage(i)

-----------------------------------------------------------------------------
(* The sweeper goroutine of the same process. *)

Expired == {r \in Requests : session[r].state = "expired"}

(* GetExpiredSessions: LIMIT without ORDER BY. *)
SweepList ==
    /\ sweeper.step = "list" /\ sweeper.todo = {}
    /\ \E ids \in SUBSET Expired :
          /\ ids # {}
          /\ Cardinality(ids) <= SweepLimit
          /\ ids = Expired \/ Cardinality(ids) = SweepLimit
          /\ sweeper' = [sweeper EXCEPT !.todo = ids]
    /\ UNCHANGED <<storeVars, gatewayVars, cached, queueVars, worker, faults>>

(***************************************************************************)
(* GetMeteringSession: any error of it is dropped and leaves hold at 0, be *)
(* the row gone or the query failed while the session is still there.      *)
(* GetUsageLogByRequestID: its error skips the id.                         *)
(***************************************************************************)
SweepRead ==
    /\ sweeper.step = "list"
    /\ \E r \in sweeper.todo :
          \/ /\ usageLog[r].status # "none"
             /\ sweeper' = [sweeper EXCEPT !.step = "release", !.req = r, !.hold = session[r].hold]
             /\ UNCHANGED faults
          \/ /\ usageLog[r].status # "none"
             /\ Fault("sweep")
             /\ sweeper' = [sweeper EXCEPT !.step = "release", !.req = r, !.hold = 0]
          \/ /\ Fault("sweep")
             /\ sweeper' = [sweeper EXCEPT !.todo = @ \ {r}]
    /\ UNCHANGED <<storeVars, gatewayVars, cached, queueVars, worker>>

SweepNext == sweeper' = [NoSweep EXCEPT !.todo = sweeper.todo \ {sweeper.req}]

(* Mistake: a failed release does not continue with the next id. *)
SweepOn == sweeper' = [sweeper EXCEPT !.step = "delete"]

(* A failed release is logged and the session is kept for the next tick. *)
SweepSkip == SweepNext

(* CaptureAndRelease(0, hold, "failed"), always keyed by the request id. *)
SweepRelease ==
    /\ sweeper.step = "release"
    /\ LET r == sweeper.req
       IN  \/ /\ CaptureAndRelease(UserOf[r], r, 0, sweeper.hold, "failed", NoKey)
              /\ sweeper' = [sweeper EXCEPT !.step = "delete"]
              /\ UNCHANGED faults
           \/ /\ ~CaptureAndReleaseOK(UserOf[r], r, 0, sweeper.hold, NoKey)
              /\ SweepSkip
              /\ UNCHANGED <<storeVars, faults>>
           \/ Fault("sweep") /\ SweepSkip /\ UNCHANGED storeVars
    /\ UNCHANGED <<gatewayVars, cached, queueVars, worker>>

(* Mistake: every listed session is deleted after the first release. *)
SweepDeleteAll ==
    /\ sweeper.step = "delete"
    /\ session' = [r \in Requests |-> IF r \in sweeper.todo THEN NoSession ELSE session[r]]
    /\ SweepNext
    /\ UNCHANGED <<balance, ledger, usageLog, gatewayVars, cached, queueVars, worker, faults>>

SweepDelete ==
    /\ sweeper.step = "delete"
    /\ \/ DeleteMeteringSession(sweeper.req) /\ UNCHANGED faults
       \/ Fault("delete") /\ UNCHANGED storeVars
    /\ SweepNext
    /\ UNCHANGED <<gatewayVars, cached, queueVars, worker>>

SweeperStep == SweepList \/ SweepRead \/ SweepRelease \/ SweepDelete

-----------------------------------------------------------------------------
(* Time, and the operator's commands. *)

(* The TTL of idem:{...} runs out (idempotencyTTL). *)
ExpireResponse ==
    /\ \E response \in responses : responses' = responses \ {response}
    /\ UNCHANGED <<storeVars, pc, known, cached, queueVars, worker, sweeper, faults>>

Expire(r) ==
    /\ SessionExpires(r)
    /\ UNCHANGED <<gatewayVars, cached, queueVars, worker, sweeper, faults>>

(* admin deposit-credits: the Redis balance is left alone. *)
Deposit(u, amount, k) ==
    /\ DepositCredits(u, amount, k)
    /\ UNCHANGED <<gatewayVars, cached, queueVars, worker, sweeper, faults>>

(* replay-dlq: every entry is added to the stream again and stays in the DLQ. *)
ReplayDLQ ==
    /\ dlq # <<>>
    /\ replays < MaxReplays
    /\ replays' = replays + 1
    /\ stream' = stream \o [i \in DOMAIN dlq |-> NewEntry(dlq[i])]
    /\ UNCHANGED <<storeVars, gatewayVars, cached, dlq, worker, sweeper, faults>>

Init ==
    /\ StoreInit
    /\ pc = [r \in Requests |-> "new"]
    /\ known = [r \in Requests |-> 0]
    /\ cached = [u \in Users |-> Miss]
    /\ responses = {}
    /\ stream = <<>> /\ dlq = <<>>
    /\ worker = NoWork /\ sweeper = NoSweep
    /\ faults = 0 /\ replays = 0

Next ==
    \/ \E r \in Requests : Gateway(r) \/ Expire(r)
    \/ WorkerStep \/ WorkerCrash \/ SweeperStep
    \/ \E u \in Users, a \in DepositAmounts, k \in DepositKeys : Deposit(u, a, k)
    \/ ReplayDLQ \/ ExpireResponse

Spec == Init /\ [][Next]_vars

(***************************************************************************)
(* Time passes and the sweeper's ticker fires again and again.             *)
(***************************************************************************)
FairSpec == Spec /\ WF_vars(SweeperStep) /\ \A r \in Requests : WF_vars(Expire(r))

-----------------------------------------------------------------------------
Labels == {"new", "replayed", "admitted", "miss", "loaded", "checked", "rejected", "held",
           "published", "logged", "open", "served", "done", "aborted"}

(* Types of the pipeline's own state. *)
TypeOK ==
    /\ StoreTypeOK
    /\ pc \in [Requests -> Labels]
    /\ known \in [Requests -> Nat]
    /\ cached \in [Users -> Nat \cup {Miss}]
    /\ responses \subseteq Users \X ClientKeys
    /\ stream \in Seq(Entries)
    /\ dlq \in Seq(Events)
    /\ worker \in [batch : SUBSET DOMAIN stream, bal : Nat,
                   step : {"process", "settled", "cleared", "read", "failed", "ack"}]
    /\ sweeper \in [todo : SUBSET Requests, req : Requests \cup {NoKey}, hold : Int,
                    step : {"list", "release", "delete"}]
    /\ faults \in 0..MaxFaults /\ replays \in 0..MaxReplays

RowsFor(r) == RowsIn(ledger, UserOf[r])
HasRow(r, types) == \E row \in RowsFor(r) : row.ref = r /\ row.type \in types
Held(r) == HasRow(r, {"hold"})
Settled(r) == HasRow(r, {"capture", "release"})

(***************************************************************************)
(* The trace of a sweep whose read of the session failed: the usage log is *)
(* closed as failed, with neither a capture nor a release transaction.     *)
(***************************************************************************)
ClosedUnreleased(r) ==
    /\ usageLog[r].status = "failed"
    /\ ~usageLog[r].captureTxn /\ ~usageLog[r].releaseTxn
LostBySweep(r) == "sweep" \in Faults /\ ClosedUnreleased(r)

(***************************************************************************)
(* No metering event is forgotten: an acknowledged stream entry belongs to *)
(* a settled request or has a copy in meter:dlq, whatever crashes happen   *)
(* between the transaction, the push and the XACK.  (A negative hold has   *)
(* no settlement rows: CaptureAndRelease inserts positive amounts only.)   *)
(***************************************************************************)
AckedEventAccounted ==
    \A i \in DOMAIN stream : stream[i].acked /\ HoldOf[stream[i].ev.req] > 0 =>
        Settled(stream[i].ev.req) \/ \E j \in DOMAIN dlq : dlq[j] = stream[i].ev

(***************************************************************************)
(* Held credits that are not settled are known to the sweeper (a session   *)
(* row) or to the handler that is about to create the session.  The one    *)
(* way to lose them is a failing read of the session in the sweeper, which *)
(* releases nothing and deletes the row; it leaves its trace in the log.   *)
(***************************************************************************)
HoldNeverStranded ==
    \A r \in Requests : HoldOf[r] > 0 /\ Held(r) /\ ~Settled(r) =>
        \/ session[r].state # "none"
        \/ pc[r] \in {"held", "published", "logged"}
        \/ LostBySweep(r)

(* At most one release row, and at most one capture row, for a request. *)
SettledOnceEach(r) ==
    \A p, q \in RowsFor(r) :
        p.ref = r /\ q.ref = r /\ p.type = q.type /\ p.type \in {"capture", "release"} => p = q

(***************************************************************************)
(* Worker, sweeper, redelivery and DLQ replay together release the hold of *)
(* a request without a client key at most once and capture it at most once.*)
(***************************************************************************)
KeylessSettledOnceEach ==
    \A r \in Requests : KeyOf[r] = NoKey => SettledOnceEach(r)

(***************************************************************************)
(* Retries of a client, sent with one Idempotency-Key as several requests, *)
(* hold credits at most once, however they interleave.                     *)
(***************************************************************************)
OneHoldPerClientKey ==
    \A r, q \in Requests :
        KeyOf[r] # NoKey /\ KeyOf[r] = KeyOf[q] /\ Held(r) /\ Held(q) => r = q

(***************************************************************************)
(* A response is replayed from the idempotency cache only if another       *)
(* request of the same user, with the same key, held credits for it; the   *)
(* replaying request itself holds nothing.                                 *)
(***************************************************************************)
ReplayWasHeld ==
    \A r \in Requests : pc[r] = "replayed" =>
        /\ ~Held(r)
        /\ \E q \in Requests : UserOf[q] = UserOf[r] /\ KeyOf[q] = KeyOf[r] /\ Held(q)

(***************************************************************************)
(* Credits are captured or released only against an earlier hold of the    *)
(* same request, and never more than was held.                             *)
(***************************************************************************)
SettlementWithinHold ==
    \A u \in Users : \A i \in 1..Len(ledger[u]) :
        ledger[u][i].type \in {"capture", "release"} =>
            \E j \in 1..(i - 1) :
                /\ ledger[u][j].type = "hold" /\ ledger[u][j].ref = ledger[u][i].ref
                /\ ledger[u][i].amount \in ledger[u][j].amount..(-ledger[u][j].amount)

(***************************************************************************)
(* Once its session exists a hold is eventually settled, by the worker or  *)
(* by the sweeper, although events get lost and processes crash, except    *)
(* where a failing read in the sweeper closes its log without a release.   *)
(***************************************************************************)
HoldEventuallySettled ==
    \A r \in Requests : HoldOf[r] > 0 =>
        (session[r].state # "none" ~> Settled(r) \/ LostBySweep(r))
=============================================================================
