------------------------------ MODULE UsageMeter ------------------------------
(***************************************************************************)
(* How the cost of a request comes about: RouteMiddleware finds provider   *)
(* and hold, ServeHTTP forwards the response while meteringReader counts   *)
(* it, mergeDriverUsage asks the provider's driver (and polls a run that   *)
(* has not ended), emitMeter sends the usage, ProcessEvent prices it.      *)
(* Around the handler the provider sends or breaks off, the client stops   *)
(* reading or leaves, time passes, drivers fail or never return, and an    *)
(* operator stores credentials.                                            *)
(* Lines without "data: " and "[DONE]" are forwarded and change nothing.   *)
(***************************************************************************)
EXTENDS Pricing

CONSTANTS
    PricingOf,    \* pricing_model of the enabled rows of provider_configs
    Manifests,    \* the loaded manifests: the operation and capabilities of a provider
    Targets,      \* what a request may ask for
    ScopeLists,   \* the scopes a key may have
    Asks,         \* max_tokens of a chat, timeout of an actor run, 0 when absent
    Hints,        \* metering_hints.estimated_max_credits, 0 when absent
    Models, NoModel,
    ChunkSizes,   \* len(data) / 4 of a data line
    Reports,      \* the usage objects providers send
    RunTimes,     \* seconds an actor run takes
    MaxStream,    \* STREAM_MAX_SEC
    MaxOutput,    \* bound of the model: the estimated output of one stream
    Nil           \* no usage map

Providers == DOMAIN PricingOf

(* The columns of provider_configs.pricing_model that the price depends on. *)
IsPricingModel(pm) ==
    /\ pm.passthrough \in BOOLEAN /\ pm.margin \in Nat /\ pm.minimum \in Nat
    /\ IsTable(Units, pm.rates) /\ DOMAIN pm.overrides \subseteq Models
    /\ \A m \in DOMAIN pm.overrides : IsTable(Units, pm.overrides[m])

(* Nobody checks what a client asks for: negative numbers reach the drivers. *)
ASSUME InputsWellFormed ==
    /\ Providers \subseteq {"openrouter", "apify", "letta"}
    /\ \A p \in Providers : IsPricingModel(PricingOf[p])
    /\ Asks \subseteq Int /\ Hints \subseteq Int /\ RunTimes \subseteq Nat
    /\ ChunkSizes \subseteq Nat /\ \A raw \in Reports : IsTable(Fields, raw)
    /\ MaxStream \in Nat \ {0} /\ NoModel \notin Models /\ Nil \notin Reports

VARIABLES
    vault,      \* the providers with a stored credential
    phase,      \* where the request stands
    req,        \* its context: provider, streaming, model, hold
    client,     \* the client reads, stalls (connected, not reading) or is gone
    elapsed,    \* seconds since the stream began
    meter,      \* the fields of meteringReader; last is the size of the last chunk
    sent,       \* whether the provider got the request
    event,      \* status and raw usage, on their way to the stream
    polled,     \* history: the run time a poll returned
    capture     \* what the worker captures

usageVars == <<vault, phase, req, client, elapsed, meter, sent, event, polled, capture>>

NoMeter == [usage |-> Nil, chunks |-> FALSE, est |-> 0, last |-> 0, capped |-> FALSE]
NoRequest == [provider |-> Nil, streaming |-> FALSE, model |-> NoModel, hold |-> 0]

-----------------------------------------------------------------------------
(* The drivers: estimateMaxCost, parseResponse and normalizeUsage. *)

(* What is absent has a default; anything else is taken as it is. *)
EstimateMaxCost(p, ask, hints) ==
    CASE p = "openrouter" -> IF hints # 0 THEN hints * Million
                             ELSE (IF ask = 0 THEN 1024 ELSE ask) * 900 + 500000
      [] p = "apify" -> (IF ask = 0 THEN 300 ELSE ask) * 50000 + Million
      [] p = "letta" -> 5 * Million

(***************************************************************************)
(* A response body: whether it is one JSON object, its usage object, its   *)
(* top-level fields (which count without one), the run it describes.       *)
(***************************************************************************)
Bodies ==
    [json : {TRUE}, usage : Reports, top : {NoFields}, secs : RunTimes \cup {0}, running : BOOLEAN]
    \cup
    [json : {TRUE}, usage : {Nil}, top : Reports, secs : RunTimes \cup {0}, running : BOOLEAN]
Unreadable == [json |-> FALSE, usage |-> Nil, top |-> NoFields, secs |-> 0, running |-> FALSE]

OneCall == Field("api_calls", 1)

ParseResponse(p, body) ==
    CASE p = "openrouter" -> IF body.usage = Nil THEN NoFields ELSE body.usage
      [] p = "apify" ->
            IF ~body.json THEN OneCall
            ELSE Merge(Merge(OneCall, Field("compute_seconds", body.secs)),
                       IF body.running THEN Field("needs_poll", 1) ELSE NoFields)
      [] p = "letta" -> IF body.json /\ body.usage # Nil THEN Merge(OneCall, body.usage) ELSE OneCall

(* openrouter renames its cost; apify and letta count at least one call. *)
NormalizeUsage(p, raw) ==
    CASE p = "openrouter" /\ "cost" \in DOMAIN raw /\ "cost_usd" \notin DOMAIN raw ->
            Merge(raw, Field("cost_usd", raw["cost"]))
      [] p \in {"apify", "letta"} /\ ("api_calls" \in DOMAIN raw => raw["api_calls"] = 0) ->
            Merge(raw, OneCall)
      [] OTHER -> raw

HasCapability(p, cap) == p \in DOMAIN Manifests /\ cap \in Manifests[p].caps

(* exec.Command without a context: a driver process that does not end is waited for. *)
DriverHangs(p, cap) == HasCapability(p, cap) /\ phase' = "hung" /\ UNCHANGED event

(* The usage a driver process may answer with: none when it is not asked or fails. *)
InvokeParseResponse(p, body) ==
    IF HasCapability(p, "parse_response") THEN {ParseResponse(p, body)} ELSE {}

(* The same for normalizeUsage, whose failure leaves the raw usage as it is. *)
InvokeNormalize(p, raw) ==
    {raw} \cup
    IF HasCapability(p, "normalize_usage") THEN {Merge(raw, NormalizeUsage(p, raw))} ELSE {}

-----------------------------------------------------------------------------
(* RouteMiddleware and ScopeMiddleware. *)

(* MatchRoute: the chat path, the envelope, or a manifest's paths; Nil is no route. *)
MatchRoute(t) ==
    CASE t.kind = "chat" -> [provider |-> "openrouter", op |-> "chat"]
      [] t.kind = "envelope" -> [provider |-> t.provider, op |-> t.op]
      [] t.kind = "path" /\ t.provider \in DOMAIN Manifests /\ t.op \in Manifests[t.provider].ops ->
            [provider |-> t.provider, op |-> t.op]
      [] OTHER -> Nil

(* "*", "provider" and "provider:operation" as pairs; unparsable scopes (Nil) allow all. *)
ScopeAllows(scopes, route) ==
    scopes # Nil =>
        scopes \cap {<<"*", "*">>, <<route.provider, "*">>, <<route.provider, route.op>>} # {}

(* Mistake: the driver's estimate is not asked for. *)
HintsOnly(p, ask, hints) == hints * Million

(* Only 0 is replaced: the hold of a negative estimate is negative. *)
HoldFor(p, ask, hints) ==
    LET hold == IF hints > 0 THEN hints * Million ELSE EstimateMaxCost(p, ask, hints)
    IN  IF hold = 0 THEN EstimateMax(PricingOf[p], 0, 10 * Million) ELSE hold

(* store-credential: an upsert for an enabled provider. *)
StoreCredential(p) ==
    /\ p \in Providers
    /\ vault' = vault \cup {p}
    /\ UNCHANGED <<phase, req, client, elapsed, meter, sent, event, polled, capture>>

(* 404, 503 or 403; a bad body, a failing driver or a balance too low refuse the rest. *)
RejectRequest ==
    /\ phase = "new"
    /\ phase' = "rejected"
    /\ UNCHANGED <<vault, req, client, elapsed, meter, sent, event, polled, capture>>

AdmitRequest(t, scopes) ==
    LET route == MatchRoute(t)
    IN  /\ phase = "new"
        /\ route # Nil /\ route.provider \in vault /\ ScopeAllows(scopes, route)
        /\ \E ask \in Asks, hints \in IF t.kind = "envelope" THEN Hints ELSE {0},
               model \in Models \cup {NoModel}, stream \in BOOLEAN :
             /\ stream => route.provider \in {"openrouter", "letta"}
             /\ req' = [provider |-> route.provider, streaming |-> stream, model |-> model,
                        hold |-> HoldFor(route.provider, ask, hints)]
        /\ phase' = "held"
        /\ UNCHANGED <<vault, client, elapsed, meter, sent, event, polled, capture>>

-----------------------------------------------------------------------------
(* ServeHTTP and meteringReader. *)

Finish(status, raw) == event' = [status |-> status, raw |-> raw]

(* Bulkhead full, circuit open or no connection: nothing was sent. *)
RefuseCall ==
    /\ phase = "held"
    /\ Finish("failed", NoFields)
    /\ phase' = "emit"
    /\ UNCHANGED <<vault, req, client, elapsed, meter, sent, polled, capture>>

(* The provider got the request and no response came back in time. *)
CallFails ==
    /\ phase = "held"
    /\ sent' = TRUE
    /\ Finish("failed", NoFields)
    /\ phase' = "emit"
    /\ UNCHANGED <<vault, req, client, elapsed, meter, polled, capture>>

StartStream ==
    /\ phase = "held" /\ req.streaming
    /\ sent' = TRUE
    /\ phase' = "streaming"
    /\ UNCHANGED <<vault, req, client, elapsed, meter, event, polled, capture>>

(* No stream, or no 2xx: the response is read and forwarded whole. *)
StartBody ==
    /\ phase = "held"
    /\ sent' = TRUE
    /\ phase' = "body"
    /\ UNCHANGED <<vault, req, client, elapsed, meter, event, polled, capture>>

(* parseJSONUsage: without a usage object the whole body. *)
ParseJSONUsage(body) ==
    IF ~body.json THEN NoFields ELSE IF body.usage # Nil THEN body.usage ELSE body.top

(* mergeDriverUsage: the driver's fields replace the handler's; it may fail or hang. *)
MergeDriverUsage(status, base, body) ==
    \/ Finish(status, base) /\ phase' = "emit"
    \/ \E usage \in InvokeParseResponse(req.provider, body) :
          LET merged == Merge(base, usage)
              poll == "needs_poll" \in DOMAIN merged /\ HasCapability(req.provider, "async_poll")
          IN  Finish(status, merged) /\ phase' = IF poll THEN "poll" ELSE "emit"
    \/ DriverHangs(req.provider, "parse_response")

(* m.w.Write and w.Write return: no write deadline ends the wait for a client that stalls. *)
Writable == client # "stalls"

(* Read (else Unreadable) and forwarded; not ok from 400 on. *)
ReadBody ==
    /\ phase = "body" /\ Writable
    /\ \E body \in Bodies \cup {Unreadable}, ok \in BOOLEAN :
          /\ body.running => req.provider = "apify"
          /\ MergeDriverUsage(IF ok THEN "completed" ELSE "failed", ParseJSONUsage(body), body)
    /\ UNCHANGED <<vault, req, client, elapsed, meter, sent, polled, capture>>

(* Mistakes: each chunk is compared alone; a stream that was cut keeps no estimate. *)
ChunkOverHold(est, n, hold) == n * 900 > hold
UncutEstimate(m) ==
    IF m.usage # Nil THEN m.usage
    ELSE IF m.chunks /\ ~m.capped
         THEN Merge(Field("output_tokens", m.est), Field("input_tokens", 0))
    ELSE NoFields

OverHold(est, n, hold) == hold > 0 /\ (est + n) * 900 > hold

(* finalizeUsage: the usage the provider reported, else the chunk estimate. *)
FinalizeUsage(m) ==
    IF m.usage # Nil THEN m.usage
    ELSE IF m.chunks THEN Merge(Field("output_tokens", m.est), Field("input_tokens", 0))
    ELSE NoFields

(* What the driver sees of a stream: SSE lines, with the last usage among them. *)
StreamBody(m) == [Unreadable EXCEPT !.usage = m.usage]

(* A broken stream without a data line is given a map with its error. *)
EndCopy(m, status) ==
    LET raw == FinalizeUsage(m)
    IN  MergeDriverUsage(status, IF status = "partial" /\ raw = NoFields THEN Field("note", 1)
                                 ELSE raw, StreamBody(m))

(* A data line is forwarded first, then counted; over a positive hold the stream is cut. *)
ReadLine(n, report) ==
    LET m == [usage |-> IF report = Nil THEN meter.usage ELSE report, chunks |-> TRUE,
              est |-> meter.est + n, last |-> n, capped |-> OverHold(meter.est, n, req.hold)]
    IN  /\ phase = "streaming" /\ Writable /\ m.est <= MaxOutput
        /\ meter' = m
        /\ IF m.capped THEN EndCopy(m, "partial") ELSE UNCHANGED <<phase, event>>
        /\ UNCHANGED <<vault, req, client, elapsed, sent, polled, capture>>

EndOfStream ==
    /\ phase = "streaming" /\ Writable
    /\ EndCopy(meter, "completed")
    /\ UNCHANGED <<vault, req, client, elapsed, meter, sent, polled, capture>>

DownstreamBreaks ==
    /\ phase = "streaming" /\ Writable
    /\ EndCopy(meter, "partial")
    /\ UNCHANGED <<vault, req, client, elapsed, meter, sent, polled, capture>>

(* Mistake: only a client that left ends the stream. *)
StopForClient ==
    /\ phase = "streaming" /\ client = "gone"
    /\ EndCopy(meter, "partial")
    /\ UNCHANGED <<vault, req, client, elapsed, meter, sent, polled, capture>>

(* Between two lines: the client left (r.Context() is done), or STREAM_MAX_SEC passed. *)
StopStream ==
    /\ phase = "streaming" /\ Writable /\ (client = "gone" \/ elapsed >= MaxStream)
    /\ EndCopy(meter, "partial")
    /\ UNCHANGED <<vault, req, client, elapsed, meter, sent, polled, capture>>

(***************************************************************************)
(* A second without a line.  The keepalive of copy() is never due: it is   *)
(* tested only after a line, which has just reset lastActivity.            *)
(***************************************************************************)
Tick ==
    /\ phase = "streaming" /\ elapsed < MaxStream
    /\ elapsed' = elapsed + 1
    /\ UNCHANGED <<vault, phase, req, client, meter, sent, event, polled, capture>>

(* A connected client stops reading, and the handler's next write blocks, or reads again. *)
ClientStalls ==
    /\ phase \in {"body", "streaming"} /\ client = "reads"
    /\ client' = "stalls"
    /\ UNCHANGED <<vault, phase, req, elapsed, meter, sent, event, polled, capture>>

ClientReads ==
    /\ client = "stalls"
    /\ client' = "reads"
    /\ UNCHANGED <<vault, phase, req, elapsed, meter, sent, event, polled, capture>>

(* r.Context() is cancelled for good, and a blocked write fails. *)
ClientLeaves ==
    /\ phase \in {"held", "body", "streaming", "poll", "emit"} /\ client # "gone"
    /\ client' = "gone"
    /\ UNCHANGED <<vault, phase, req, elapsed, meter, sent, event, polled, capture>>

(***************************************************************************)
(* pollRun waits for the run: it succeeds, fails (0 s) or outlasts         *)
(* POLL_MAX_MS (300 s).  The driver may fail, or hang in one of its fetches.*)
(***************************************************************************)
InvokePoll ==
    /\ phase = "poll"
    /\ \/ phase' = "emit" /\ UNCHANGED <<event, polled>>
       \/ \E secs \in RunTimes \cup {0, 300} :
             /\ polled' = secs
             /\ LET result == Merge(event.raw, Merge(OneCall, Field("compute_seconds", secs)))
                IN  Finish(event.status, [f \in DOMAIN result \ {"needs_poll"} |-> result[f]])
             /\ phase' = "emit"
       \/ DriverHangs(req.provider, "async_poll") /\ UNCHANGED polled
    /\ UNCHANGED <<vault, req, client, elapsed, meter, sent, capture>>

(* The XADD runs under r.Context(): once the client left it fails, unnoticed. *)
EmitMeter ==
    /\ phase = "emit"
    /\ phase' = IF client = "gone" THEN "lost" ELSE "emitted"
    /\ UNCHANGED <<vault, req, client, elapsed, meter, sent, event, polled, capture>>

(* Mistake: a failed request costs its hold. *)
ChargeFailed ==
    /\ phase = "emitted"
    /\ capture' = IF event.status = "failed" THEN req.hold ELSE 0
    /\ phase' = "priced"
    /\ UNCHANGED <<vault, req, client, elapsed, meter, sent, event, polled>>

(* ProcessEvent: the driver's normalizeUsage (it may fail or hang), the price, the hold. *)
ProcessEvent ==
    /\ phase = "emitted"
    /\ \/ \E raw \in InvokeNormalize(req.provider, event.raw) :
             /\ Finish(event.status, raw)
             /\ capture' = Capture(req.hold,
                              NormalizeWithOptions(PricingOf[req.provider], raw, req.model,
                                                   event.status = "partial"))
             /\ phase' = "priced"
       \/ DriverHangs(req.provider, "normalize_usage") /\ UNCHANGED capture
    /\ UNCHANGED <<vault, req, client, elapsed, meter, sent, polled>>

UsageInit ==
    /\ vault = {} /\ phase = "new" /\ req = NoRequest /\ client = "reads" /\ elapsed = 0
    /\ meter = NoMeter /\ sent = FALSE /\ event = [status |-> "none", raw |-> NoFields]
    /\ polled = Nil /\ capture = 0

ServeHTTP == RefuseCall \/ CallFails \/ StartStream \/ StartBody

UsageNext ==
    \/ \E p \in Providers : StoreCredential(p)
    \/ RejectRequest \/ \E t \in Targets, scopes \in ScopeLists : AdmitRequest(t, scopes)
    \/ ServeHTTP \/ ReadBody \/ EndOfStream \/ DownstreamBreaks \/ StopStream \/ Tick
    \/ \E n \in ChunkSizes, report \in Reports \cup {Nil} : ReadLine(n, report)
    \/ ClientStalls \/ ClientReads \/ ClientLeaves \/ InvokePoll \/ EmitMeter \/ ProcessEvent

UsageSpec == UsageInit /\ [][UsageNext]_usageVars

(***************************************************************************)
(* The call to the provider and the reading of its body end by a timeout,  *)
(* a driver is waited for until it answers, fails or is counted as hung,   *)
(* and time passes.  A write ends only when the client reads or goes: the  *)
(* steps behind one are taken if the client keeps coming back to reading.  *)
(***************************************************************************)
FairUsageSpec ==
    /\ UsageSpec
    /\ WF_usageVars(ServeHTTP) /\ WF_usageVars(Tick)
    /\ SF_usageVars(ReadBody) /\ SF_usageVars(StopStream)
    /\ WF_usageVars(InvokePoll) /\ WF_usageVars(EmitMeter) /\ WF_usageVars(ProcessEvent)

-----------------------------------------------------------------------------
Statuses == {"none", "completed", "partial", "failed"}

(* Types; an admitted request has a hold, negative when its estimate is, but never 0. *)
UsageTypeOK ==
    /\ vault \subseteq Providers
    /\ phase \in {"new", "rejected", "held", "body", "streaming", "poll", "emit", "emitted",
                  "hung", "lost", "priced"}
    /\ req \in {NoRequest} \cup [provider : Providers, streaming : BOOLEAN,
                                 model : Models \cup {NoModel}, hold : Int \ {0}]
    /\ client \in {"reads", "stalls", "gone"} /\ elapsed \in 0..MaxStream /\ sent \in BOOLEAN
    /\ meter \in [usage : Reports \cup {Nil}, chunks : BOOLEAN, est : Nat, last : Nat,
                  capped : BOOLEAN]
    /\ event.status \in Statuses /\ IsTable(Fields, event.raw)
    /\ polled \in Nat \cup {Nil} /\ capture \in Int

(***************************************************************************)
(* A stream never runs ahead of a positive hold by more than one chunk:    *)
(* without the last chunk the estimated output was still covered           *)
(* (parseLine, copy).  A negative hold switches the soft cap off.          *)
(***************************************************************************)
OvershootOneChunk == req.hold > 0 => (meter.est - meter.last) * 900 <= req.hold

OutputRate == Charge(RatesFor(PricingOf[req.provider], req.model), Field("output_tokens", 1),
                     "output_tokens")

(***************************************************************************)
(* Streamed output is never free: whichever way a stream ends (EOF, break, *)
(* deadline, soft cap), failing drivers included, its estimated output is  *)
(* captured up to the hold when the provider reported no usage.            *)
(***************************************************************************)
DeliveredIsCharged ==
    phase = "priced" /\ meter.chunks /\ meter.usage = Nil =>
        /\ capture >= Capture(req.hold, meter.est * OutputRate)
        /\ capture >= Capture(req.hold, PricingOf[req.provider].minimum)

(***************************************************************************)
(* A request refused before its provider got it costs at most one API call *)
(* (the apify and letta drivers count one in an empty usage).              *)
(***************************************************************************)
UnsentCostsAtMostOneCall ==
    phase = "priced" /\ ~sent =>
        capture <= NormalizeWithOptions(PricingOf[req.provider], OneCall, req.model, FALSE)

(***************************************************************************)
(* The price of a run that was polled is the price of the run time the     *)
(* poll returned, whatever the first response said (mergeDriverUsage).     *)
(***************************************************************************)
PolledRunPriced ==
    phase = "priced" /\ polled # Nil =>
        capture = Capture(req.hold, NormalizeWithOptions(PricingOf[req.provider],
                          Merge(OneCall, Field("compute_seconds", polled)), req.model, FALSE))

(* The price in one rule: nothing counted is free, else at least the minimum. *)
ReferencePrice(pm, raw, model) ==
    LET price == IF HasCost(pm, raw) THEN PassthroughMicro(pm, raw["cost_usd"])
                 ELSE RateTotal(RatesFor(pm, model), raw)
    IN  IF ~HasCost(pm, raw) /\ Quantities(raw) = {} THEN 0
        ELSE IF price < pm.minimum THEN pm.minimum ELSE price

(* The minimum rules of NormalizeWithOptions amount to that one rule, partial or not. *)
PricedByReference ==
    phase = "priced" =>
        capture = Capture(req.hold, ReferencePrice(PricingOf[req.provider], event.raw, req.model))

(***************************************************************************)
(* A request ends although its provider may trickle for ever: it is priced *)
(* or its event is lost with its client (STREAM_MAX_SEC, pollRun).  Two    *)
(* things only can keep it: a client that stays connected and stops        *)
(* reading for good, and a driver process that never returns.              *)
(***************************************************************************)
RequestEnds ==
    \/ <>[](client = "stalls")
    \/ phase = "held" ~> phase \in {"lost", "priced", "hung"}

(***************************************************************************)
(* A passed-through cost is captured at its value: one credit is worth     *)
(* CREDIT_USD_MICRO (NormalizeWithOptions, docs/architecture/credits.md).  *)
(***************************************************************************)
PassthroughCoversCost ==
    phase = "priced" /\ HasCost(PricingOf[req.provider], event.raw) /\ capture < req.hold =>
        capture * CreditUSDMicro >= event.raw["cost_usd"] * Million
=============================================================================
