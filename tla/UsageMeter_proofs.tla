-------------------------- MODULE UsageMeter_proofs --------------------------
(***************************************************************************)
(* Type correctness of UsageMeter, the bound on what a stream delivers     *)
(* beyond its hold, the price rule, and what is charged for a stream, for  *)
(* a request that was never sent and for a polled run, for any pricing,    *)
(* estimates, chunks and usage reports.                                    *)
(***************************************************************************)
EXTENDS UsageMeter, TLAPS

IsUsage(raw) == IsTable(Fields, raw)

-----------------------------------------------------------------------------
(* Tables. *)

(* One field is a table. *)
LEMMA FieldTable ==
    ASSUME NEW S, NEW f \in S, NEW n \in Nat
    PROVE  IsTable(S, Field(f, n))
BY DEF IsTable, Field

(* Merging two tables makes a table. *)
LEMMA MergeTable ==
    ASSUME NEW S, NEW a, NEW b, IsTable(S, a), IsTable(S, b)
    PROVE  IsTable(S, Merge(a, b))
BY DEF IsTable, Merge

(* The tables the handler and the drivers make up. *)
LEMMA MadeTables ==
    /\ IsUsage(NoFields) /\ IsUsage(OneCall)
    /\ \A n \in Nat : /\ IsUsage(Field("note", n)) /\ IsUsage(Field("needs_poll", n))
                      /\ IsUsage(Field("compute_seconds", n)) /\ IsUsage(Field("cost_usd", n))
                      /\ IsUsage(Field("output_tokens", n)) /\ IsUsage(Field("input_tokens", n))
<1>1. /\ {"note", "needs_poll", "compute_seconds", "cost_usd", "output_tokens", "input_tokens",
           "api_calls"} \subseteq Fields
      /\ 1 \in Nat
  BY DEF Fields, Units
<1>2. IsUsage(NoFields)
  BY DEF IsUsage, IsTable, NoFields
<1> QED
  BY <1>1, <1>2, FieldTable DEF IsUsage, OneCall

(* parseResponse returns a table. *)
LEMMA ParseTyped ==
    ASSUME NEW p \in Providers, NEW body, body.usage \in Reports \cup {Nil}, body.secs \in Nat
    PROVE  IsUsage(ParseResponse(p, body))
<1>1. body.usage # Nil => IsUsage(body.usage)
  BY InputsWellFormed DEF IsUsage
<1>2. p \in {"openrouter", "apify", "letta"}
  BY InputsWellFormed
<1>3. CASE p = "openrouter"
  BY <1>1, <1>3, MadeTables DEF ParseResponse
<1>4. CASE p = "letta"
  <2>1. body.usage # Nil => IsUsage(Merge(OneCall, body.usage))
    BY <1>1, MadeTables, MergeTable DEF IsUsage
  <2> QED
    BY <1>4, <2>1, MadeTables DEF ParseResponse
<1>5. CASE p = "apify"
  <2>1. IsUsage(Merge(OneCall, Field("compute_seconds", body.secs)))
    BY MadeTables, MergeTable DEF IsUsage
  <2>2. IsUsage(IF body.running THEN Field("needs_poll", 1) ELSE NoFields)
    BY MadeTables
  <2>3. IsUsage(Merge(Merge(OneCall, Field("compute_seconds", body.secs)),
                      IF body.running THEN Field("needs_poll", 1) ELSE NoFields))
    BY <2>1, <2>2, MergeTable DEF IsUsage
  <2> QED
    BY <1>5, <2>3, MadeTables DEF ParseResponse
<1> QED
  BY <1>2, <1>3, <1>4, <1>5

(* normalizeUsage returns a table. *)
LEMMA NormalizeTyped ==
    ASSUME NEW p \in Providers, NEW raw, IsUsage(raw)
    PROVE  IsUsage(NormalizeUsage(p, raw))
<1>1. "cost" \in DOMAIN raw => IsUsage(Merge(raw, Field("cost_usd", raw["cost"])))
  <2>1. "cost" \in DOMAIN raw => raw["cost"] \in Nat
    BY DEF IsUsage, IsTable
  <2> QED
    BY <2>1, MadeTables, MergeTable DEF IsUsage
<1>2. IsUsage(Merge(raw, OneCall))
  BY MadeTables, MergeTable DEF IsUsage
<1> QED
  BY <1>1, <1>2 DEF NormalizeUsage

(* mergeDriverUsage leaves a table and goes on to a poll or to emitMeter. *)
LEMMA MergeDriverTyped ==
    ASSUME NEW status \in Statuses, NEW base, IsUsage(base), NEW body,
           body.usage \in Reports \cup {Nil}, body.secs \in Nat, req.provider \in Providers,
           event.status \in Statuses, IsUsage(event.raw), MergeDriverUsage(status, base, body)
    PROVE  event'.status \in Statuses /\ IsUsage(event'.raw) /\ phase' \in {"emit", "poll", "hung"}
<1>1. IsUsage(Merge(base, ParseResponse(req.provider, body)))
  BY ParseTyped, MergeTable DEF IsUsage
<1> QED
  BY <1>1 DEF MergeDriverUsage, InvokeParseResponse, Finish, DriverHangs
-----------------------------------------------------------------------------
(* Prices. *)

(* A product of natural numbers is one. *)
LEMMA ProductNat == \A a, b \in Nat : a * b \in Nat
OBVIOUS

(* One unit's charge is a natural number. *)
LEMMA ChargeNat ==
    ASSUME NEW rates, NEW raw, NEW u, IsTable(Units, rates), IsUsage(raw)
    PROVE  Charge(rates, raw, u) \in Nat
<1>1. u \in DOMAIN raw \cap DOMAIN rates => raw[u] \in Nat /\ rates[u] \in Nat
  BY DEF IsTable, IsUsage
<1> QED
  BY <1>1, ProductNat DEF Charge

(* The rate table prices a usage by a natural number, and no quantities by 0. *)
LEMMA RateTotalNat ==
    ASSUME NEW rates, NEW raw, IsTable(Units, rates), IsUsage(raw)
    PROVE  /\ RateTotal(rates, raw) \in Nat
           /\ Quantities(raw) = {} => RateTotal(rates, raw) = 0
<1>1. \A u \in Units : Charge(rates, raw, u) \in Nat
  BY ChargeNat
<1>2. Quantities(raw) = {} => \A u \in Units : Charge(rates, raw, u) = 0
  BY DEF Quantities, Charge
<1>3. Units = {"input_tokens", "output_tokens", "compute_seconds", "db_reads", "db_writes",
               "vec_queries", "api_calls"}
  BY DEF Units
<1> QED
  BY <1>1, <1>2, <1>3 DEF RateTotal

(* The rates of a request are a rate table. *)
LEMMA RatesTyped ==
    ASSUME NEW p \in Providers, NEW model
    PROVE  IsTable(Units, RatesFor(PricingOf[p], model))
BY InputsWellFormed, MergeTable DEF IsPricingModel, RatesFor

(***************************************************************************)
(* The three minimum rules at the end of NormalizeWithOptions are one: a   *)
(* usage without quantities is free, any other costs at least the minimum. *)
(***************************************************************************)
LEMMA MinimumRules ==
    ASSUME NEW pm, pm.minimum \in Nat, NEW raw, NEW total \in Nat, NEW partial \in BOOLEAN,
           Quantities(raw) = {} => total = 0
    PROVE  ApplyMinimum(pm, raw, total, partial) =
              IF Quantities(raw) = {} THEN 0
              ELSE IF total < pm.minimum THEN pm.minimum ELSE total
BY DEF ApplyMinimum

(* A passed-through cost is a natural number of micro-credits. *)
LEMMA PassthroughNat ==
    ASSUME NEW p \in Providers, NEW usd \in Nat
    PROVE  PassthroughMicro(PricingOf[p], usd) \in Nat
<1>1. Margin(PricingOf[p]) \in Nat
  BY InputsWellFormed, RatesAreNaturals DEF IsPricingModel, Margin
<1> DEFINE m == 100 + Margin(PricingOf[p])
<1>2. m \in Nat
  BY <1>1
<1>3. PassthroughMicro(PricingOf[p], usd) = (usd * m * CreditUSDMicro + 50000000) \div 100000000
  BY DEF PassthroughMicro, Million
<1> HIDE DEF m
<1>4. usd * m \in Nat
  BY <1>2, ProductNat
<1> DEFINE x == usd * m
<1>5. x * CreditUSDMicro \in Nat
  BY <1>4, ProductNat, RatesAreNaturals
<1> DEFINE y == x * CreditUSDMicro
<1>6. PassthroughMicro(PricingOf[p], usd) = (y + 50000000) \div 100000000
  BY <1>3
<1> HIDE DEF x, y
<1>7. (y + 50000000) \div 100000000 \in Nat
  BY <1>5 DEF y
<1> QED
  BY <1>6, <1>7

(* NormalizeWithOptions follows the one rule, partial or not. *)
LEMMA PriceFollowsReference ==
    ASSUME NEW p \in Providers, NEW raw, IsUsage(raw), NEW model, NEW partial \in BOOLEAN
    PROVE  /\ NormalizeWithOptions(PricingOf[p], raw, model, partial)
                = ReferencePrice(PricingOf[p], raw, model)
           /\ NormalizeWithOptions(PricingOf[p], raw, model, partial) \in Nat
<1> DEFINE pm == PricingOf[p]
           total == RateTotal(RatesFor(pm, model), raw)
<1>1. pm.minimum \in Nat
  BY InputsWellFormed DEF IsPricingModel
<1>2. total \in Nat /\ (Quantities(raw) = {} => total = 0)
  BY RatesTyped, RateTotalNat
<1>3. CASE HasCost(pm, raw)
  <2>1. raw["cost_usd"] \in Nat
    BY <1>3 DEF HasCost, IsUsage, IsTable
  <2>2. PassthroughMicro(pm, raw["cost_usd"]) \in Nat
    BY <2>1, PassthroughNat
  <2> QED
    BY <1>1, <1>3, <2>2 DEF NormalizeWithOptions, ReferencePrice
<1>4. CASE ~HasCost(pm, raw)
  <2>1. ApplyMinimum(pm, raw, total, partial) =
          IF Quantities(raw) = {} THEN 0 ELSE IF total < pm.minimum THEN pm.minimum ELSE total
    <3> HIDE DEF pm, total
    <3> QED
      BY <1>1, <1>2, MinimumRules
  <2>2. NormalizeWithOptions(pm, raw, model, partial) = ApplyMinimum(pm, raw, total, partial)
    BY <1>4 DEF NormalizeWithOptions
  <2>3. ReferencePrice(pm, raw, model) =
          IF Quantities(raw) = {} THEN 0 ELSE IF total < pm.minimum THEN pm.minimum ELSE total
    BY <1>4 DEF ReferencePrice
  <2> HIDE DEF pm, total
  <2> QED
    BY <1>1, <1>2, <2>1, <2>2, <2>3 DEF pm
<1> QED
  BY <1>3, <1>4

(* A hold is a number of micro-credits other than 0, of either sign. *)
LEMMA HoldNonzero ==
    ASSUME NEW p \in Providers, NEW ask \in Asks, NEW hints \in Hints \cup {0}
    PROVE  HoldFor(p, ask, hints) \in Int \ {0}
<1>1. p \in {"openrouter", "apify", "letta"} /\ ask \in Int /\ hints \in Int
  BY InputsWellFormed
<1>2. EstimateMaxCost(p, ask, hints) \in Int
  <2>1. CASE p = "openrouter"
    BY <1>1, <2>1 DEF EstimateMaxCost, Million
  <2>2. CASE p = "apify"
    BY <1>1, <2>2 DEF EstimateMaxCost, Million
  <2>3. CASE p = "letta"
    BY <2>3 DEF EstimateMaxCost, Million
  <2> QED
    BY <1>1, <2>1, <2>2, <2>3
<1>3. EstimateMax(PricingOf[p], 0, 10 * Million) \in Int \ {0}
  <2>1. PricingOf[p].minimum \in Nat
    BY InputsWellFormed DEF IsPricingModel
  <2> QED
    BY <2>1 DEF EstimateMax, Million
<1>4. hints > 0 => hints * Million \in Int \ {0}
  BY <1>1 DEF Million
<1> QED
  BY <1>2, <1>3, <1>4 DEF HoldFor
-----------------------------------------------------------------------------
(* The state of an admitted request. *)
Admitted == /\ req.provider \in Providers /\ req.streaming \in BOOLEAN
            /\ req.hold \in Int \ {0} /\ req.model \in Models \cup {NoModel}

(***************************************************************************)
(* The meter counts only while a stream runs, and under a positive hold a  *)
(* stream runs only while the hold covers all of the estimated output.     *)
(***************************************************************************)
MeterOK ==
    /\ phase \notin {"new", "rejected"} => Admitted
    /\ phase \in {"new", "rejected"} => req = NoRequest
    /\ phase \in {"new", "rejected", "held", "body"} => meter = NoMeter
    /\ phase = "streaming" /\ req.hold > 0 => meter.est * 900 <= req.hold

UsageInv == UsageTypeOK /\ MeterOK /\ OvershootOneChunk /\ PricedByReference

(* The usage finalizeUsage leaves, and the map of a broken stream, are tables. *)
LEMMA EndCopyTyped ==
    ASSUME NEW m, m.usage \in Reports \cup {Nil}, m.est \in Nat, m.chunks \in BOOLEAN,
           NEW status \in Statuses, req.provider \in Providers,
           event.status \in Statuses, IsUsage(event.raw), EndCopy(m, status)
    PROVE  event'.status \in Statuses /\ IsUsage(event'.raw) /\ phase' \in {"emit", "poll", "hung"}
<1> DEFINE final == FinalizeUsage(m)
           base == IF status = "partial" /\ final = NoFields THEN Field("note", 1) ELSE final
<1>1. m.usage # Nil => IsUsage(m.usage)
  BY InputsWellFormed DEF IsUsage
<1>2. IsUsage(Merge(Field("output_tokens", m.est), Field("input_tokens", 0)))
  BY MadeTables, MergeTable DEF IsUsage
<1>3. IsUsage(final)
  BY <1>1, <1>2, MadeTables DEF FinalizeUsage
<1>4. IsUsage(base)
  BY <1>3, MadeTables
<1>5. StreamBody(m).usage = m.usage /\ StreamBody(m).secs = 0
  BY DEF StreamBody, Unreadable
<1>6. MergeDriverUsage(status, base, StreamBody(m))
  BY DEF EndCopy
<1> HIDE DEF base, final
<1> QED
  BY <1>4, <1>5, <1>6, MergeDriverTyped

(* The invariant holds initially. *)
LEMMA UsageInitInv == UsageInit => UsageInv
<1> SUFFICES ASSUME UsageInit PROVE UsageInv
  OBVIOUS
<1> USE DEF UsageInit
<1>1. UsageTypeOK
  <2>1. meter \in [usage : Reports \cup {Nil}, chunks : BOOLEAN, est : Nat, last : Nat,
                   capped : BOOLEAN]
    BY DEF NoMeter
  <2>2. event.status \in Statuses /\ IsTable(Fields, event.raw)
    BY MadeTables DEF Statuses, IsUsage
  <2>3. elapsed \in 0..MaxStream
    BY InputsWellFormed
  <2>4. phase = "new" /\ client = "reads" /\ capture = 0 /\ req = NoRequest
    OBVIOUS
  <2>5. capture \in Int
    BY <2>4
  <2> QED
    BY <2>1, <2>2, <2>3, <2>4, <2>5 DEF UsageTypeOK
<1>2. MeterOK
  BY DEF MeterOK
<1>3. OvershootOneChunk
  BY DEF OvershootOneChunk, NoMeter, NoRequest
<1> QED
  BY <1>1, <1>2, <1>3 DEF UsageInv, PricedByReference

(***************************************************************************)
(* Steps that keep the request and the meter and end in a phase after the  *)
(* stream, with a well-typed event: what is left of the invariant.         *)
(***************************************************************************)
LEMMA AfterStream ==
    ASSUME UsageInv, Admitted, UNCHANGED <<vault, req, elapsed, meter>>,
           client' = client, sent' \in BOOLEAN, polled' \in Nat \cup {Nil}, capture' \in Int,
           event'.status \in Statuses, IsUsage(event'.raw),
           phase' \in {"poll", "emit", "emitted", "hung", "lost"}
    PROVE  UsageInv'
<1>1. UsageTypeOK'
  BY DEF UsageInv, UsageTypeOK, IsUsage
<1>2. MeterOK'
  BY DEF MeterOK, Admitted
<1>3. OvershootOneChunk' /\ PricedByReference'
  BY DEF UsageInv, OvershootOneChunk, PricedByReference
<1> QED
  BY <1>1, <1>2, <1>3 DEF UsageInv

(* The client reads again, stops reading or leaves. *)
ClientMoves == ClientStalls \/ ClientReads \/ ClientLeaves

(* Storing a credential, time and the client's moves touch none of it. *)
LEMMA OutsideInv ==
    ASSUME UsageInv, \/ UNCHANGED usageVars \/ RejectRequest \/ ClientMoves \/ Tick
                     \/ \E p \in Providers : StoreCredential(p)
    PROVE  UsageInv'
<1>1. UNCHANGED <<req, meter, event, polled, capture, sent>>
  BY DEF usageVars, RejectRequest, ClientMoves, ClientStalls, ClientReads,
         ClientLeaves, Tick, StoreCredential
<1>2. phase' = phase \/ (phase = "new" /\ phase' = "rejected")
  BY DEF usageVars, RejectRequest, ClientMoves, ClientStalls, ClientReads,
         ClientLeaves, Tick, StoreCredential
<1>3. vault' \subseteq Providers /\ client' \in {"reads", "stalls", "gone"}
  BY DEF UsageInv, UsageTypeOK, usageVars, RejectRequest, ClientMoves, ClientStalls, ClientReads,
         ClientLeaves, Tick, StoreCredential
<1>4. elapsed' \in 0..MaxStream
  BY InputsWellFormed
     DEF UsageInv, UsageTypeOK, usageVars, RejectRequest, ClientMoves, ClientStalls, ClientReads,
         ClientLeaves, Tick, StoreCredential
<1>5. UsageTypeOK'
  BY <1>1, <1>2, <1>3, <1>4 DEF UsageInv, UsageTypeOK
<1>6. MeterOK' /\ OvershootOneChunk' /\ PricedByReference'
  BY <1>1, <1>2 DEF UsageInv, MeterOK, Admitted, OvershootOneChunk, PricedByReference, OutputRate
<1> QED
  BY <1>5, <1>6 DEF UsageInv

(* An admitted request has a hold and has delivered nothing. *)
LEMMA AdmitInv ==
    ASSUME UsageInv, NEW t \in Targets, NEW scopes \in ScopeLists, AdmitRequest(t, scopes)
    PROVE  UsageInv'
<1>1. PICK ask \in Asks, hints \in Hints \cup {0}, model \in Models \cup {NoModel},
           stream \in BOOLEAN :
             req' = [provider |-> MatchRoute(t).provider, streaming |-> stream, model |-> model,
                     hold |-> HoldFor(MatchRoute(t).provider, ask, hints)]
  BY DEF AdmitRequest
<1>2. MatchRoute(t).provider \in Providers
  BY DEF AdmitRequest, UsageInv, UsageTypeOK
<1>3. HoldFor(MatchRoute(t).provider, ask, hints) \in Int \ {0}
  BY <1>2, HoldNonzero
<1>4. /\ req' \in [provider : Providers, streaming : BOOLEAN, model : Models \cup {NoModel},
                   hold : Int \ {0}]
      /\ Admitted'
  BY <1>1, <1>2, <1>3 DEF Admitted
<1>5. phase = "new" /\ phase' = "held"
      /\ UNCHANGED <<vault, client, elapsed, meter, sent, event, polled, capture>>
  BY DEF AdmitRequest
<1>6. UsageTypeOK'
  BY <1>4, <1>5 DEF UsageInv, UsageTypeOK
<1>7. meter' = NoMeter /\ req'.hold \in Int
  BY <1>4, <1>5 DEF UsageInv, MeterOK
<1>8. MeterOK' /\ OvershootOneChunk' /\ PricedByReference'
  BY <1>4, <1>5, <1>7 DEF MeterOK, OvershootOneChunk, PricedByReference, NoMeter
<1> QED
  BY <1>6, <1>8 DEF UsageInv

(* A response that is not streamed, and a call that never gets one. *)
LEMMA ResponseInv ==
    ASSUME UsageInv, RefuseCall \/ CallFails \/ ReadBody
    PROVE  UsageInv'
<1>1. /\ phase \in {"held", "body"}
      /\ UNCHANGED <<vault, req, client, elapsed, meter, polled, capture>>
      /\ sent' = sent \/ sent' = TRUE
  BY DEF RefuseCall, CallFails, ReadBody
<1>2. Admitted
  BY <1>1 DEF UsageInv, MeterOK
<1>3. sent' \in BOOLEAN /\ polled' \in Nat \cup {Nil} /\ capture' \in Int
  BY <1>1 DEF UsageInv, UsageTypeOK
<1>4. event'.status \in Statuses /\ IsUsage(event'.raw) /\ phase' \in {"emit", "poll", "hung"}
  <2>1. CASE RefuseCall \/ CallFails
    BY <2>1, MadeTables DEF RefuseCall, CallFails, Finish, Statuses
  <2>2. CASE ReadBody
    <3>1. PICK body \in Bodies \cup {Unreadable}, ok \in BOOLEAN :
            MergeDriverUsage(IF ok THEN "completed" ELSE "failed", ParseJSONUsage(body), body)
      BY <2>2 DEF ReadBody
    <3>2. body.usage \in Reports \cup {Nil} /\ body.secs \in Nat
      <4>1. CASE body \in Bodies
        <5>1. body.usage \in Reports \cup {Nil} /\ body.secs \in RunTimes \cup {0}
          BY <4>1 DEF Bodies
        <5>2. RunTimes \cup {0} \subseteq Nat
          BY InputsWellFormed
        <5>3. body.secs \in Nat
          BY <5>1, <5>2
        <5> QED
          BY <5>1, <5>3
      <4>2. CASE body = Unreadable
        BY <4>2 DEF Unreadable
      <4> QED
        BY <4>1, <4>2
    <3>3. IsUsage(ParseJSONUsage(body))
      <4>1. IsUsage(body.top)
        <5>1. body.top \in Reports \cup {NoFields}
          <6>1. CASE body \in Bodies
            BY <6>1 DEF Bodies
          <6>2. CASE body = Unreadable
            BY <6>2 DEF Unreadable
          <6> QED
            BY <6>1, <6>2
        <5> QED
          BY <5>1, MadeTables, InputsWellFormed DEF IsUsage
      <4>2. body.usage # Nil => IsUsage(body.usage)
        BY <3>2, InputsWellFormed DEF IsUsage
      <4> QED
        BY <4>1, <4>2, MadeTables DEF ParseJSONUsage
    <3>4. (IF ok THEN "completed" ELSE "failed") \in Statuses
      BY DEF Statuses
    <3>5. event.status \in Statuses /\ IsUsage(event.raw)
      BY DEF UsageInv, UsageTypeOK, IsUsage
    <3> QED
      BY <1>2, <3>1, <3>2, <3>3, <3>4, <3>5, MergeDriverTyped DEF Admitted
  <2> QED
    BY <2>1, <2>2
<1> QED
  BY <1>1, <1>2, <1>3, <1>4, AfterStream

(* A stream begins with an empty meter, a body leaves it empty. *)
LEMMA StartInv ==
    ASSUME UsageInv, StartStream \/ StartBody
    PROVE  UsageInv'
<1>1. /\ phase = "held" /\ phase' \in {"streaming", "body"} /\ sent' = TRUE
      /\ UNCHANGED <<vault, req, client, elapsed, meter, event, polled, capture>>
  BY DEF StartStream, StartBody
<1>2. UsageTypeOK'
  BY <1>1 DEF UsageInv, UsageTypeOK
<1>3. Admitted /\ meter = NoMeter
  BY <1>1 DEF UsageInv, MeterOK
<1>4. meter.est = 0 /\ meter.last = 0 /\ req.hold \in Int
  BY <1>3 DEF NoMeter, Admitted
<1>5. Admitted' /\ meter' = NoMeter /\ (req'.hold > 0 => meter'.est * 900 <= req'.hold)
  BY <1>1, <1>3, <1>4 DEF Admitted
<1>6. MeterOK'
  BY <1>1, <1>5 DEF MeterOK
<1>7. OvershootOneChunk' /\ PricedByReference'
  BY <1>1, <1>4 DEF OvershootOneChunk, PricedByReference
<1> QED
  BY <1>2, <1>6, <1>7 DEF UsageInv

(* A stream that ends, by itself or because it is stopped. *)
LEMMA StreamEndsInv ==
    ASSUME UsageInv, EndOfStream \/ DownstreamBreaks \/ StopStream
    PROVE  UsageInv'
<1>1. /\ phase = "streaming"
      /\ UNCHANGED <<vault, req, client, elapsed, meter, sent, polled, capture>>
      /\ EndCopy(meter, "completed") \/ EndCopy(meter, "partial")
  BY DEF EndOfStream, DownstreamBreaks, StopStream
<1>2. Admitted
  BY <1>1 DEF UsageInv, MeterOK
<1>3. sent' \in BOOLEAN /\ polled' \in Nat \cup {Nil} /\ capture' \in Int
  BY <1>1 DEF UsageInv, UsageTypeOK
<1>4. meter.usage \in Reports \cup {Nil} /\ meter.est \in Nat /\ meter.chunks \in BOOLEAN
  BY DEF UsageInv, UsageTypeOK
<1>5. /\ "completed" \in Statuses /\ "partial" \in Statuses /\ req.provider \in Providers
      /\ event.status \in Statuses /\ IsUsage(event.raw)
  BY <1>2 DEF Statuses, Admitted, UsageInv, UsageTypeOK, IsUsage
<1>6. event'.status \in Statuses /\ IsUsage(event'.raw) /\ phase' \in {"emit", "poll", "hung"}
  BY <1>1, <1>4, <1>5, EndCopyTyped
<1> QED
  BY <1>1, <1>2, <1>3, <1>6, AfterStream

(* A data line adds its size to the estimate; the stream goes on only under the hold. *)
LEMMA ReadLineInv ==
    ASSUME UsageInv, NEW n \in ChunkSizes, NEW report \in Reports \cup {Nil}, ReadLine(n, report)
    PROVE  UsageInv'
<1> DEFINE m == [usage |-> IF report = Nil THEN meter.usage ELSE report, chunks |-> TRUE,
                 est |-> meter.est + n, last |-> n, capped |-> OverHold(meter.est, n, req.hold)]
<1>1. /\ phase = "streaming" /\ meter' = m
      /\ UNCHANGED <<vault, req, client, elapsed, sent, polled, capture>>
  BY DEF ReadLine
<1>2. (m.capped /\ EndCopy(m, "partial")) \/ (~m.capped /\ UNCHANGED <<phase, event>>)
  BY DEF ReadLine
<1>3. Admitted /\ (req.hold > 0 => meter.est * 900 <= req.hold)
  BY <1>1 DEF UsageInv, MeterOK
<1>4. n \in Nat /\ meter.est \in Nat /\ req.hold \in Int \ {0} /\ req.provider \in Providers
  BY <1>3, InputsWellFormed DEF UsageInv, UsageTypeOK, Admitted
<1>5. m.usage \in Reports \cup {Nil}
  BY DEF UsageInv, UsageTypeOK
<1>6. m.capped = OverHold(meter.est, n, req.hold) /\ m.est = meter.est + n /\ m.last = n
      /\ m.chunks = TRUE
  OBVIOUS
<1>7. m.capped \in BOOLEAN
  BY DEF OverHold
<1>8. m \in [usage : Reports \cup {Nil}, chunks : BOOLEAN, est : Nat, last : Nat, capped : BOOLEAN]
  <2>1. meter.est + n \in Nat
    BY <1>4
  <2>2. (IF report = Nil THEN meter.usage ELSE report) \in Reports \cup {Nil}
    BY DEF UsageInv, UsageTypeOK
  <2>3. OverHold(meter.est, n, req.hold) \in BOOLEAN
    BY DEF OverHold
  <2> QED
    BY <2>1, <2>2, <2>3, <1>4
<1>9. ~m.capped /\ req.hold > 0 => m.est * 900 <= req.hold
  <2>1. ~OverHold(meter.est, n, req.hold) /\ req.hold > 0 => (meter.est + n) * 900 <= req.hold
    BY <1>4 DEF OverHold
  <2> HIDE DEF m
  <2> QED
    BY <1>6, <2>1
<1>10. req.hold > 0 => (m.est - m.last) * 900 <= req.hold
  BY <1>3, <1>4, <1>6
<1> HIDE DEF m
<1>11. /\ event'.status \in Statuses /\ IsUsage(event'.raw)
       /\ phase' \in {"emit", "poll", "hung"} \/ (phase' = "streaming" /\ ~m.capped)
  <2>1. CASE ~m.capped /\ UNCHANGED <<phase, event>>
    BY <2>1, <1>1 DEF UsageInv, UsageTypeOK, IsUsage
  <2>2. CASE EndCopy(m, "partial")
    <3>1. "partial" \in Statuses /\ m.chunks \in BOOLEAN
      BY <1>6 DEF Statuses
    <3>2. m.est \in Nat
      BY <1>4, <1>6
    <3>3. event.status \in Statuses /\ IsUsage(event.raw)
      BY DEF UsageInv, UsageTypeOK, IsUsage
    <3> QED
      BY <2>2, <3>1, <3>2, <3>3, <1>4, <1>5, EndCopyTyped
  <2> QED
    BY <1>2, <2>1, <2>2
<1>12. UsageTypeOK'
  BY <1>1, <1>8, <1>11 DEF UsageInv, UsageTypeOK, IsUsage
<1>13. MeterOK'
  BY <1>1, <1>3, <1>9, <1>11 DEF MeterOK, Admitted
<1>14. OvershootOneChunk' /\ PricedByReference'
  BY <1>1, <1>10, <1>11 DEF OvershootOneChunk, PricedByReference
<1> QED
  BY <1>12, <1>13, <1>14 DEF UsageInv

(* What a poll returned is a table too. *)
LEMMA PollInv ==
    ASSUME UsageInv, InvokePoll
    PROVE  UsageInv'
<1>1. /\ phase = "poll" /\ phase' \in {"emit", "hung"}
      /\ UNCHANGED <<vault, req, client, elapsed, meter, sent, capture>>
  BY DEF InvokePoll, DriverHangs
<1>2. Admitted
  BY <1>1 DEF UsageInv, MeterOK
<1>3. sent' \in BOOLEAN /\ capture' \in Int
  BY <1>1 DEF UsageInv, UsageTypeOK
<1>4. event'.status \in Statuses /\ IsUsage(event'.raw) /\ polled' \in Nat \cup {Nil}
  <2>1. CASE UNCHANGED <<event, polled>>
    BY <2>1 DEF UsageInv, UsageTypeOK, IsUsage
  <2>2. CASE ~UNCHANGED <<event, polled>>
    <3> DEFINE Result(secs) == Merge(event.raw, Merge(OneCall, Field("compute_seconds", secs)))
    <3>1. PICK secs \in RunTimes \cup {0, 300} :
            /\ polled' = secs
            /\ event' = [status |-> event.status,
                         raw |-> [f \in DOMAIN Result(secs) \ {"needs_poll"} |-> Result(secs)[f]]]
      BY <2>2 DEF InvokePoll, Finish, DriverHangs
    <3>2. secs \in Nat
      BY InputsWellFormed
    <3>3. IsUsage(event.raw) /\ event.status \in Statuses
      BY DEF UsageInv, UsageTypeOK, IsUsage
    <3>4. IsUsage(Merge(OneCall, Field("compute_seconds", secs)))
      BY <3>2, MadeTables, MergeTable DEF IsUsage
    <3>5. IsUsage(Result(secs))
      BY <3>3, <3>4, MergeTable DEF IsUsage
    <3> HIDE DEF Result
    <3>6. IsUsage([f \in DOMAIN Result(secs) \ {"needs_poll"} |-> Result(secs)[f]])
      BY <3>5 DEF IsUsage, IsTable
    <3> QED
      BY <3>1, <3>2, <3>3, <3>6
  <2> QED
    BY <2>1, <2>2
<1> QED
  BY <1>1, <1>2, <1>3, <1>4, AfterStream

(* Emitting the event, or losing it, changes none of the data. *)
LEMMA EmitInv ==
    ASSUME UsageInv, EmitMeter
    PROVE  UsageInv'
<1>1. /\ phase = "emit" /\ phase' \in {"emitted", "lost"}
      /\ UNCHANGED <<vault, req, client, elapsed, meter, sent, event, polled, capture>>
  BY DEF EmitMeter
<1>2. Admitted
  BY <1>1 DEF UsageInv, MeterOK
<1>3. sent' \in BOOLEAN
  BY <1>1 DEF UsageInv, UsageTypeOK
<1>4. /\ polled' \in Nat \cup {Nil} /\ capture' \in Int
      /\ event'.status \in Statuses /\ IsUsage(event'.raw)
  BY <1>1 DEF UsageInv, UsageTypeOK, IsUsage
<1> QED
  BY <1>1, <1>2, <1>3, <1>4, AfterStream

(* The worker's price is the reference price, cut to the hold. *)
LEMMA ProcessInv ==
    ASSUME UsageInv, ProcessEvent, phase' # "hung"
    PROVE  UsageInv'
<1>1. /\ phase = "emitted" /\ phase' = "priced"
      /\ UNCHANGED <<vault, req, client, elapsed, meter, sent, polled>>
  BY DEF ProcessEvent, DriverHangs
<1>2. Admitted
  BY <1>1 DEF UsageInv, MeterOK
<1>3. IsUsage(event.raw) /\ event.status \in Statuses /\ req.provider \in Providers
      /\ req.hold \in Int
  BY <1>2 DEF UsageInv, UsageTypeOK, IsUsage, Admitted
<1> DEFINE partial == event.status = "partial"
           Price(raw) == NormalizeWithOptions(PricingOf[req.provider], raw, req.model, partial)
<1>4. PICK raw \in {event.raw, Merge(event.raw, NormalizeUsage(req.provider, event.raw))} :
        event' = [status |-> event.status, raw |-> raw] /\ capture' = Capture(req.hold, Price(raw))
  BY DEF ProcessEvent, InvokeNormalize, Finish, DriverHangs
<1>5. IsUsage(raw)
  <2>1. IsUsage(NormalizeUsage(req.provider, event.raw))
    BY <1>3, NormalizeTyped
  <2> QED
    BY <1>3, <2>1, MergeTable DEF IsUsage
<1>6. partial \in BOOLEAN
  OBVIOUS
<1>7. /\ Price(raw) = ReferencePrice(PricingOf[req.provider], raw, req.model)
      /\ Price(raw) \in Nat
  <2> HIDE DEF partial
  <2> QED
    BY <1>3, <1>5, <1>6, PriceFollowsReference
<1> HIDE DEF Price
<1>8. capture' \in Int
  BY <1>3, <1>4, <1>7 DEF Capture
<1>9. event'.status \in Statuses /\ event'.raw = raw
  BY <1>3, <1>4
<1>10. UsageTypeOK'
  BY <1>1, <1>5, <1>8, <1>9 DEF UsageInv, UsageTypeOK, IsUsage
<1>11. MeterOK' /\ OvershootOneChunk'
  BY <1>1, <1>2 DEF UsageInv, MeterOK, OvershootOneChunk, Admitted
<1>12. PricedByReference'
  BY <1>1, <1>4, <1>7, <1>9 DEF PricedByReference
<1> QED
  BY <1>10, <1>11, <1>12 DEF UsageInv

(* A worker whose driver hangs leaves the event as it is. *)
LEMMA ProcessHangsInv ==
    ASSUME UsageInv, ProcessEvent, phase' = "hung"
    PROVE  UsageInv'
<1>1. /\ phase = "emitted"
      /\ UNCHANGED <<vault, req, client, elapsed, meter, sent, event, polled, capture>>
  BY DEF ProcessEvent, DriverHangs
<1>2. Admitted
  BY <1>1 DEF UsageInv, MeterOK
<1>3. /\ sent' \in BOOLEAN /\ polled' \in Nat \cup {Nil} /\ capture' \in Int
      /\ event'.status \in Statuses /\ IsUsage(event'.raw)
  BY <1>1 DEF UsageInv, UsageTypeOK, IsUsage
<1> QED
  BY <1>1, <1>2, <1>3, AfterStream

(* Every step of the specification keeps the invariant. *)
LEMMA UsageStepInv == UsageInv /\ [UsageNext]_usageVars => UsageInv'
BY OutsideInv, AdmitInv, ResponseInv, StartInv, StreamEndsInv, ReadLineInv, PollInv, EmitInv,
   ProcessInv, ProcessHangsInv DEF UsageNext, ServeHTTP, ClientMoves

(* The invariant of the specification. *)
LEMMA UsageInvariant == UsageSpec => []UsageInv
BY UsageInitInv, UsageStepInv, PTL DEF UsageSpec

-----------------------------------------------------------------------------
(* Type correctness: whatever the drivers and providers return is priced as *)
(* a table of natural numbers, and every admitted request has a hold other  *)
(* than 0, whatever its client asked for.                                   *)
THEOREM UsageTypeCorrect == UsageSpec => []UsageTypeOK
BY UsageInvariant, PTL DEF UsageInv

(* Without its last chunk, what copy() forwarded was covered by the hold,   *)
(* if that is positive; of a stream under a negative hold nothing is said.  *)
THEOREM StreamOvershootBounded == UsageSpec => []OvershootOneChunk
BY UsageInvariant, PTL DEF UsageInv

(* The worker captures the price of one rule, cut to the hold, for every    *)
(* pricing model and usage: the three minimum rules never contradict it.    *)
THEOREM PriceIsReference == UsageSpec => []PricedByReference
BY UsageInvariant, PTL DEF UsageInv

-----------------------------------------------------------------------------
(***************************************************************************)
(* What the usage map says when the handler is through: of a stream        *)
(* without a report, its estimate; of a request that was never sent,       *)
(* nothing; of a run that was polled, one call and the polled run time.    *)
(***************************************************************************)
Ended == {"emit", "emitted", "lost", "priced"}

EstimateIn(raw, est) ==
    /\ "output_tokens" \in DOMAIN raw /\ raw["output_tokens"] = est
    /\ DOMAIN raw \cap {"cost", "cost_usd", "needs_poll"} = {}
RunIn(raw, secs) ==
    /\ "api_calls" \in DOMAIN raw /\ raw["api_calls"] = 1
    /\ "compute_seconds" \in DOMAIN raw /\ raw["compute_seconds"] = secs

Unreported == meter.chunks /\ meter.usage = Nil

StreamUsage ==
    Unreported => phase \in {"streaming", "hung"} \/ (phase \in Ended /\ EstimateIn(event.raw, meter.est))
UnsentUsage ==
    /\ phase \in {"body", "streaming", "poll"} => sent
    /\ ~sent /\ phase \in Ended =>
          event.raw = NoFields \/ (phase = "priced" /\ event.raw = OneCall)
PolledUsage ==
    /\ phase = "poll" => HasCapability(req.provider, "async_poll")
    /\ polled # Nil =>
          /\ HasCapability(req.provider, "async_poll")
          /\ phase \in Ended \cup {"hung"} /\ RunIn(event.raw, polled)

RawInv == StreamUsage /\ UnsentUsage /\ PolledUsage

(* A poll follows only where the driver can poll. *)
LEMMA PollNeedsDriver ==
    ASSUME NEW status, NEW base, NEW body, MergeDriverUsage(status, base, body)
    PROVE  \/ phase' \in {"emit", "hung"}
           \/ phase' = "poll" /\ HasCapability(req.provider, "async_poll")
BY DEF MergeDriverUsage, DriverHangs

(***************************************************************************)
(* Whatever the driver makes of a stream without a report, the estimate of *)
(* its output stays in the map and nothing in it asks for a poll.          *)
(***************************************************************************)
LEMMA EstimateSurvivesDriver ==
    ASSUME NEW m, m.chunks = TRUE, m.usage = Nil, NEW status, req.provider \in Providers,
           EndCopy(m, status), phase' # "hung"
    PROVE  phase' = "emit" /\ EstimateIn(event'.raw, m.est)
<1>. DEFINE base == Merge(Field("output_tokens", m.est), Field("input_tokens", 0))
            body == StreamBody(m)
            parsed == ParseResponse(req.provider, body)
<1>1. base # NoFields /\ DOMAIN base = {"output_tokens", "input_tokens"}
      /\ base["output_tokens"] = m.est
  BY DEF Merge, Field, NoFields
<1>2. FinalizeUsage(m) = base
  BY DEF FinalizeUsage
<1>3. MergeDriverUsage(status, base, body)
  BY <1>1, <1>2 DEF EndCopy
<1>4. body.usage = Nil /\ body.json = FALSE
  BY DEF StreamBody, Unreadable
<1>5. parsed = NoFields \/ parsed = OneCall
  <2>. HIDE DEF body
  <2>1. req.provider \in {"openrouter", "apify", "letta"}
    BY InputsWellFormed
  <2>2. CASE req.provider = "openrouter"
    BY <1>4, <2>2 DEF ParseResponse
  <2>3. CASE req.provider = "apify"
    BY <1>4, <2>3 DEF ParseResponse
  <2>4. CASE req.provider = "letta"
    BY <1>4, <2>4 DEF ParseResponse
  <2>. QED  BY <2>1, <2>2, <2>3, <2>4
<1>6. DOMAIN NoFields = {} /\ DOMAIN OneCall = {"api_calls"}
  BY DEF NoFields, OneCall, Field
<1>7. event'.raw = base \/ event'.raw = Merge(base, parsed)
  BY <1>3 DEF MergeDriverUsage, InvokeParseResponse, Finish, DriverHangs
<1>8. /\ (event'.raw = base /\ phase' = "emit")
         \/ (event'.raw = Merge(base, parsed) /\
             phase' = IF "needs_poll" \in DOMAIN Merge(base, parsed)
                         /\ HasCapability(req.provider, "async_poll") THEN "poll" ELSE "emit")
  BY <1>3 DEF MergeDriverUsage, InvokeParseResponse, Finish, DriverHangs
<1>. HIDE DEF base, parsed, body
<1>9. EstimateIn(base, m.est)
  BY <1>1 DEF EstimateIn
<1>10. EstimateIn(Merge(base, parsed), m.est)
  <2>1. DOMAIN parsed \subseteq {"api_calls"}
    BY <1>5, <1>6
  <2>2. /\ DOMAIN Merge(base, parsed) = {"output_tokens", "input_tokens"} \cup DOMAIN parsed
        /\ "output_tokens" \notin DOMAIN parsed
        /\ Merge(base, parsed)["output_tokens"] = base["output_tokens"]
    BY <1>1, <2>1 DEF Merge
  <2>. QED  BY <1>1, <2>1, <2>2 DEF EstimateIn
<1>. QED  BY <1>8, <1>9, <1>10 DEF EstimateIn

(* The driver's normalizeUsage keeps the estimate, the run and the lack of usage. *)
LEMMA NormalizeKeeps ==
    ASSUME NEW p \in Providers, NEW raw, NEW out \in InvokeNormalize(p, raw)
    PROVE  /\ \A est : EstimateIn(raw, est) => EstimateIn(out, est)
           /\ \A secs : RunIn(raw, secs) => RunIn(out, secs)
           /\ raw = NoFields => out = NoFields \/ out = OneCall
<1>1. p \in {"openrouter", "apify", "letta"}
  BY InputsWellFormed
<1>. DEFINE cost == Merge(raw, Field("cost_usd", raw["cost"]))
            call == Merge(raw, OneCall)
            norm == NormalizeUsage(p, raw)
<1>2. \/ norm = raw
      \/ norm = cost /\ "cost" \in DOMAIN raw
      \/ norm = call /\ ("api_calls" \in DOMAIN raw => raw["api_calls"] = 0)
  BY DEF NormalizeUsage
<1>3. out = raw \/ out = Merge(raw, norm)
  BY DEF InvokeNormalize
<1>4. /\ DOMAIN cost = DOMAIN raw \cup {"cost_usd"}
      /\ \A f \in DOMAIN raw \ {"cost_usd"} : cost[f] = raw[f]
      /\ DOMAIN call = DOMAIN raw \cup {"api_calls"} /\ call["api_calls"] = 1
      /\ \A f \in DOMAIN raw \ {"api_calls"} : call[f] = raw[f]
  BY DEF Merge, Field, OneCall
<1>. HIDE DEF cost, call, norm
<1>5. /\ DOMAIN Merge(raw, norm) = DOMAIN raw \cup DOMAIN norm
      /\ \A f \in DOMAIN norm : Merge(raw, norm)[f] = norm[f]
      /\ \A f \in DOMAIN raw \ DOMAIN norm : Merge(raw, norm)[f] = raw[f]
  BY DEF Merge
<1>6. ASSUME NEW est, EstimateIn(raw, est) PROVE EstimateIn(out, est)
  <2>1. norm = raw \/ norm = call
    BY <1>2, <1>6 DEF EstimateIn
  <2>. QED  BY <1>3, <1>4, <1>5, <1>6, <2>1 DEF EstimateIn
<1>7. ASSUME NEW secs, RunIn(raw, secs) PROVE RunIn(out, secs)
  <2>1. norm = raw \/ norm = cost
    BY <1>2, <1>7 DEF RunIn
  <2>. QED  BY <1>3, <1>4, <1>5, <1>7, <2>1 DEF RunIn
<1>8. ASSUME raw = NoFields PROVE out = NoFields \/ out = OneCall
  <2>1. norm = raw \/ norm = call
    BY <1>2, <1>8 DEF NoFields
  <2>2. Merge(NoFields, OneCall) = OneCall /\ Merge(NoFields, NoFields) = NoFields
    BY DEF Merge, NoFields, OneCall, Field
  <2>. QED  BY <1>3, <1>8, <2>1, <2>2 DEF call
<1>. QED  BY <1>6, <1>7, <1>8

(* Nothing is counted, sent or polled before the request is served. *)
LEMMA RawInitInv == UsageInit => RawInv
BY DEF UsageInit, RawInv, StreamUsage, Unreported, UnsentUsage, PolledUsage, NoMeter, Ended

(* Every step keeps what is known of the usage map. *)
LEMMA RawStepInv == UsageInv /\ RawInv /\ [UsageNext]_usageVars => RawInv'
<1>. SUFFICES ASSUME UsageInv, RawInv, [UsageNext]_usageVars PROVE RawInv'
  OBVIOUS
<1>0. StreamUsage /\ UnsentUsage /\ PolledUsage
  BY DEF RawInv
<1>1. phase \in {"new", "rejected", "held", "body"} => ~Unreported /\ polled = Nil
  BY <1>0 DEF UsageInv, MeterOK, NoMeter, Unreported, PolledUsage, Ended
<1>2. phase \in {"body", "streaming", "poll"} => sent /\ polled = Nil
  BY <1>0 DEF UnsentUsage, PolledUsage, Ended
<1>3. phase \notin {"new", "rejected"} => req.provider \in Providers
  BY DEF UsageInv, MeterOK, Admitted
<1>4. CASE \/ UNCHANGED usageVars \/ RejectRequest \/ ClientMoves \/ Tick
           \/ \E p \in Providers : StoreCredential(p)
  <2>1. UNCHANGED <<req, meter, event, polled, sent>>
    BY <1>4 DEF usageVars, RejectRequest, ClientMoves, ClientStalls, ClientReads,
                ClientLeaves, Tick, StoreCredential
  <2>2. phase' = phase \/ (phase = "new" /\ phase' = "rejected")
    BY <1>4 DEF usageVars, RejectRequest, ClientMoves, ClientStalls, ClientReads,
                ClientLeaves, Tick, StoreCredential
  <2>. QED
    BY <1>0, <1>1, <2>1, <2>2 DEF RawInv, StreamUsage, Unreported, UnsentUsage, PolledUsage, Ended
(* The steps before a line was read or anything polled. *)
<1>5. ASSUME phase \in {"new", "held", "body"}, UNCHANGED <<meter, polled>>,
             phase' \in {"body", "streaming", "poll"} => sent',
             ~sent' /\ phase' \in Ended => phase' # "priced" /\ event'.raw = NoFields,
             phase' = "poll" => HasCapability(req'.provider, "async_poll")
      PROVE  RawInv'
  BY <1>1, <1>5 DEF RawInv, StreamUsage, Unreported, UnsentUsage, PolledUsage
<1>6. ASSUME NEW t \in Targets, NEW scopes \in ScopeLists, AdmitRequest(t, scopes) PROVE RawInv'
  BY <1>5, <1>6 DEF AdmitRequest, Ended
<1>7. CASE RefuseCall \/ CallFails \/ StartStream \/ StartBody
  BY <1>5, <1>7 DEF RefuseCall, CallFails, StartStream, StartBody, Finish, Ended
<1>8. CASE ReadBody
  <2>1. phase = "body" /\ sent' /\ UNCHANGED <<req, meter, polled>>
    BY <1>2, <1>8 DEF ReadBody
  <2>2. \/ phase' \in {"emit", "hung"}
        \/ phase' = "poll" /\ HasCapability(req.provider, "async_poll")
    BY <1>8, PollNeedsDriver DEF ReadBody
  <2>. QED  BY <1>5, <2>1, <2>2
(* A stream that ends, with the meter as it is after the last line. *)
<1>9. ASSUME NEW status, phase = "streaming", EndCopy(meter', status), UNCHANGED <<req, sent, polled>>
      PROVE  RawInv'
  <2>1. \/ phase' \in {"emit", "hung"}
        \/ phase' = "poll" /\ HasCapability(req.provider, "async_poll")
    BY <1>9, PollNeedsDriver DEF EndCopy
  <2>2. Unreported' /\ phase' # "hung" => phase' = "emit" /\ EstimateIn(event'.raw, meter'.est)
    <3>. SUFFICES ASSUME Unreported', phase' # "hung"
                  PROVE  phase' = "emit" /\ EstimateIn(event'.raw, meter'.est)
      OBVIOUS
    <3>1. meter'.chunks = TRUE /\ meter'.usage = Nil
      <4>1. meter'.chunks \in BOOLEAN
        BY UsageStepInv DEF UsageInv, UsageTypeOK
      <4>. QED  BY <4>1 DEF Unreported
    <3>. QED  BY <1>3, <1>9, <3>1, EstimateSurvivesDriver
  <2>. QED
    BY <1>2, <1>9, <2>1, <2>2 DEF RawInv, StreamUsage, UnsentUsage, PolledUsage, Ended
<1>10. CASE EndOfStream \/ DownstreamBreaks \/ StopStream
  <2>1. /\ phase = "streaming" /\ UNCHANGED <<req, sent, polled, meter>>
        /\ EndCopy(meter, "completed") \/ EndCopy(meter, "partial")
    BY <1>10 DEF EndOfStream, DownstreamBreaks, StopStream
  <2>2. meter' = meter
    BY <2>1
  <2>. QED  BY <1>9, <2>1, <2>2
<1>11. ASSUME NEW n \in ChunkSizes, NEW report \in Reports \cup {Nil}, ReadLine(n, report)
       PROVE  RawInv'
  <2>1. phase = "streaming" /\ UNCHANGED <<req, sent, polled>>
    BY <1>11 DEF ReadLine
  <2>2. EndCopy(meter', "partial") \/ phase' = phase
    BY <1>11 DEF ReadLine
  <2>3. CASE phase' = phase
    BY <1>2, <2>1, <2>3 DEF RawInv, StreamUsage, UnsentUsage, PolledUsage, Ended
  <2>. QED  BY <1>9, <2>1, <2>2, <2>3
<1>12. CASE InvokePoll
  <2>1. /\ phase = "poll" /\ phase' \in {"emit", "hung"} /\ UNCHANGED <<req, meter, sent>>
        /\ sent /\ ~Unreported /\ HasCapability(req.provider, "async_poll")
    BY <1>0, <1>2, <1>12 DEF InvokePoll, DriverHangs, StreamUsage, PolledUsage, Ended
  <2>2. polled' # Nil => RunIn(event'.raw, polled')
    <3>1. CASE UNCHANGED <<event, polled>>
      BY <1>2, <2>1, <3>1
    <3>2. CASE ~UNCHANGED <<event, polled>>
      <4>. DEFINE Result(secs) == Merge(event.raw, Merge(OneCall, Field("compute_seconds", secs)))
      <4>1. PICK secs : /\ polled' = secs
                        /\ event'.raw = [f \in DOMAIN Result(secs) \ {"needs_poll"} |-> Result(secs)[f]]
        BY <1>12, <3>2 DEF InvokePoll, Finish, DriverHangs
      <4>2. RunIn(Result(secs), secs)
        BY DEF RunIn, Merge, OneCall, Field
      <4>. HIDE DEF Result
      <4>. QED  BY <4>1, <4>2 DEF RunIn
    <3>. QED  BY <3>1, <3>2
  <2>. QED
    BY <2>1, <2>2 DEF RawInv, StreamUsage, Unreported, UnsentUsage, PolledUsage, Ended
<1>13. CASE EmitMeter
  <2>1. /\ phase = "emit" /\ phase' \in {"emitted", "lost"}
        /\ UNCHANGED <<req, meter, sent, event, polled>>
    BY <1>13 DEF EmitMeter
  <2>. QED
    BY <1>0, <2>1 DEF RawInv, StreamUsage, Unreported, UnsentUsage, PolledUsage, Ended
<1>14. CASE ProcessEvent
  <2>1. /\ phase = "emitted" /\ phase' \in {"priced", "hung"}
        /\ UNCHANGED <<req, meter, sent, polled>>
    BY <1>14 DEF ProcessEvent, DriverHangs
  <2>2. event'.raw \in InvokeNormalize(req.provider, event.raw)
    BY <1>14 DEF ProcessEvent, Finish, DriverHangs, InvokeNormalize
  <2>3. /\ \A est : EstimateIn(event.raw, est) => EstimateIn(event'.raw, est)
        /\ \A secs : RunIn(event.raw, secs) => RunIn(event'.raw, secs)
        /\ event.raw = NoFields => event'.raw = NoFields \/ event'.raw = OneCall
    BY <1>3, <2>1, <2>2, NormalizeKeeps
  <2>. QED
    BY <1>0, <2>1, <2>3 DEF RawInv, StreamUsage, Unreported, UnsentUsage, PolledUsage, Ended
<1>. QED
  BY <1>4, <1>6, <1>7, <1>8, <1>10, <1>11, <1>12, <1>13, <1>14
     DEF UsageNext, ServeHTTP, ClientMoves

(* What is known of the usage map holds in every reachable state. *)
LEMMA RawInvariant == UsageSpec => [](UsageInv /\ RawInv)
BY UsageInitInv, UsageStepInv, RawInitInv, RawStepInv, PTL DEF UsageSpec

-----------------------------------------------------------------------------
(* One unit's charge is part of the total. *)
LEMMA ChargeWithinTotal ==
    ASSUME NEW rates, NEW raw, NEW u \in Units, IsTable(Units, rates), IsUsage(raw)
    PROVE  Charge(rates, raw, u) <= RateTotal(rates, raw)
<1>1. \A v \in Units : Charge(rates, raw, v) \in Nat
  BY ChargeNat
<1>2. Units = {"input_tokens", "output_tokens", "compute_seconds", "db_reads", "db_writes",
               "vec_queries", "api_calls"}
  BY DEF Units
<1>. QED  BY <1>1, <1>2 DEF RateTotal

(* Capturing is monotonic, and never above the price. *)
LEMMA CaptureMonotonic ==
    ASSUME NEW hold \in Int, NEW a \in Nat, NEW b \in Nat, a <= b
    PROVE  Capture(hold, a) <= Capture(hold, b) /\ Capture(hold, b) <= b
BY DEF Capture

(***************************************************************************)
(* Streamed output is never free, whichever way the stream ends and        *)
(* whichever driver fails: the estimate of finalizeUsage survives          *)
(* mergeDriverUsage and normalizeUsage, so the worker captures at least    *)
(* its price and the minimum, up to the hold.  For every pricing model.    *)
(***************************************************************************)
THEOREM StreamedOutputIsCharged == UsageSpec => []DeliveredIsCharged
<1>1. UsageInv /\ RawInv => DeliveredIsCharged
  <2>. SUFFICES ASSUME UsageInv, RawInv, phase = "priced", meter.chunks, meter.usage = Nil
                PROVE  /\ capture >= Capture(req.hold, meter.est * OutputRate)
                       /\ capture >= Capture(req.hold, PricingOf[req.provider].minimum)
    BY DEF DeliveredIsCharged
  <2>. DEFINE pm == PricingOf[req.provider]
              raw == event.raw
              rates == RatesFor(pm, req.model)
              total == RateTotal(rates, raw)
              price == ReferencePrice(pm, raw, req.model)
  <2>1. EstimateIn(raw, meter.est)
    BY DEF RawInv, StreamUsage, Unreported
  <2>2. /\ req.provider \in Providers /\ req.hold \in Int /\ IsUsage(raw) /\ meter.est \in Nat
        /\ capture = Capture(req.hold, price)
    BY DEF UsageInv, UsageTypeOK, MeterOK, Admitted, PricedByReference, IsUsage
  <2>3. pm.minimum \in Nat /\ IsTable(Units, rates)
    BY <2>2, InputsWellFormed, RatesTyped DEF IsPricingModel
  <2>4. total \in Nat
    BY <2>2, <2>3, RateTotalNat
  <2>5. price = IF total < pm.minimum THEN pm.minimum ELSE total
    <3>1. ~HasCost(pm, raw) /\ Quantities(raw) # {}
      BY <2>1 DEF EstimateIn, HasCost, Quantities, Units
    <3>. QED  BY <3>1 DEF ReferencePrice
  <2>6. meter.est * OutputRate \in Nat /\ meter.est * OutputRate <= total
    <3>1. OutputRate = Charge(rates, Field("output_tokens", 1), "output_tokens")
      BY DEF OutputRate
    <3>. HIDE DEF rates, raw
    <3>2. "output_tokens" \in Units
      BY DEF Units
    <3>3. Charge(rates, raw, "output_tokens") <= total
          /\ Charge(rates, raw, "output_tokens") \in Nat
      BY <2>2, <2>3, <3>2, ChargeWithinTotal, ChargeNat
    <3>4. CASE "output_tokens" \in DOMAIN rates
      <4>. DEFINE rate == rates["output_tokens"]
      <4>1. rate \in Nat
        BY <2>3, <3>4 DEF IsTable
      <4>2. OutputRate = 1 * rate
        BY <3>1, <3>4 DEF Charge, Field
      <4>3. Charge(rates, raw, "output_tokens") = meter.est * rate
        BY <2>1, <3>4 DEF Charge, EstimateIn
      <4>. HIDE DEF rate
      <4>4. OutputRate = rate
        BY <4>1, <4>2
      <4>. QED  BY <3>3, <4>3, <4>4
    <3>5. CASE "output_tokens" \notin DOMAIN rates
      <4>1. OutputRate = 0
        BY <3>1, <3>5 DEF Charge
      <4>. QED  BY <2>2, <2>4, <4>1
    <3>. QED  BY <3>4, <3>5
  <2>. DEFINE est == meter.est * OutputRate
              min == pm.minimum
              hold == req.hold
  <2>. HIDE DEF est, min, hold, total, price
  <2>7. est \in Nat /\ min \in Nat /\ hold \in Int /\ price \in Nat /\ est <= price /\ min <= price
    BY <2>2, <2>3, <2>4, <2>5, <2>6 DEF est, min, hold
  <2>8. Capture(hold, est) <= Capture(hold, price) /\ Capture(hold, min) <= Capture(hold, price)
    BY <2>7, CaptureMonotonic
  <2>9. Capture(hold, est) \in Int /\ Capture(hold, min) \in Int /\ Capture(hold, price) \in Int
    BY <2>7 DEF Capture
  <2>10. capture >= Capture(hold, est) /\ capture >= Capture(hold, min)
    BY <2>2, <2>8, <2>9 DEF hold
  <2>. QED  BY <2>10 DEF est, min, hold
<1>. QED  BY <1>1, RawInvariant, PTL

(***************************************************************************)
(* A request that the bulkhead, the circuit or the connection refused      *)
(* before its provider got it is priced as nothing or as the one call its  *)
(* driver counts, for every pricing model.                                 *)
(***************************************************************************)
THEOREM UnsentCostsOneCall == UsageSpec => []UnsentCostsAtMostOneCall
<1>1. UsageInv /\ RawInv => UnsentCostsAtMostOneCall
  <2>. SUFFICES ASSUME UsageInv, RawInv, phase = "priced", ~sent
                PROVE  capture <= NormalizeWithOptions(PricingOf[req.provider], OneCall, req.model, FALSE)
    BY DEF UnsentCostsAtMostOneCall
  <2>. DEFINE pm == PricingOf[req.provider]
              one == NormalizeWithOptions(pm, OneCall, req.model, FALSE)
              price == ReferencePrice(pm, event.raw, req.model)
  <2>1. event.raw = NoFields \/ event.raw = OneCall
    BY DEF RawInv, UnsentUsage, Ended
  <2>2. /\ req.provider \in Providers /\ req.hold \in Int
        /\ capture = Capture(req.hold, price)
    BY DEF UsageInv, UsageTypeOK, MeterOK, Admitted, PricedByReference
  <2>3. one \in Nat /\ one = ReferencePrice(pm, OneCall, req.model)
    BY <2>2, MadeTables, PriceFollowsReference
  <2>4. ReferencePrice(pm, NoFields, req.model) = 0
    BY DEF ReferencePrice, HasCost, Quantities, NoFields
  <2>. HIDE DEF one, price
  <2>5. price \in Nat /\ price <= one
    BY <2>1, <2>3, <2>4 DEF price
  <2>6. Capture(req.hold, price) <= one
    BY <2>2, <2>3, <2>5 DEF Capture
  <2>. QED  BY <2>2, <2>6 DEF one
<1>. QED  BY <1>1, RawInvariant, PTL

(***************************************************************************)
(* Providers whose runs are polled are priced by run time and calls, as    *)
(* the seeded apify row is (migrations/002_seed_providers.sql).            *)
(***************************************************************************)
PolledByTime ==
    \A p \in Providers : HasCapability(p, "async_poll") =>
        /\ ~PricingOf[p].passthrough
        /\ \A model \in Models \cup {NoModel} :
              DOMAIN RatesFor(PricingOf[p], model) \subseteq {"compute_seconds", "api_calls"}

(* Where a provider is priced so, the price reads no other field of the usage. *)
LEMMA RunPrice ==
    ASSUME NEW p \in Providers, ~PricingOf[p].passthrough, NEW model,
           DOMAIN RatesFor(PricingOf[p], model) \subseteq {"compute_seconds", "api_calls"},
           NEW secs, NEW a, NEW b, RunIn(a, secs), RunIn(b, secs)
    PROVE  ReferencePrice(PricingOf[p], a, model) = ReferencePrice(PricingOf[p], b, model)
<1>. DEFINE rates == RatesFor(PricingOf[p], model)
<1>1. \A u : Charge(rates, a, u) = Charge(rates, b, u)
  BY DEF Charge, RunIn
<1>2. RateTotal(rates, a) = RateTotal(rates, b)
  BY <1>1 DEF RateTotal
<1>3. Quantities(a) # {} /\ Quantities(b) # {}
  BY DEF RunIn, Quantities, Units
<1>4. ~HasCost(PricingOf[p], a) /\ ~HasCost(PricingOf[p], b)
  BY DEF HasCost
<1>. QED  BY <1>2, <1>3, <1>4 DEF ReferencePrice

(***************************************************************************)
(* The price of a polled run is that of the run time the poll returned,    *)
(* whatever the first response, the report in it, or a driver said: the    *)
(* poll's fields replace the first answer's in mergeDriverUsage.           *)
(***************************************************************************)
THEOREM PolledRunIsPriced == PolledByTime => (UsageSpec => []PolledRunPriced)
<1>. SUFFICES ASSUME PolledByTime PROVE UsageSpec => []PolledRunPriced
  OBVIOUS
<1>1. UsageInv /\ RawInv => PolledRunPriced
  <2>. DEFINE pm == PricingOf[req.provider]
              run == Merge(OneCall, Field("compute_seconds", polled))
  <2>. SUFFICES ASSUME UsageInv, RawInv, phase = "priced", polled # Nil
                PROVE  capture = Capture(req.hold, NormalizeWithOptions(pm, run, req.model, FALSE))
    BY DEF PolledRunPriced
  <2>1. HasCapability(req.provider, "async_poll") /\ RunIn(event.raw, polled)
    BY DEF RawInv, PolledUsage
  <2>2. /\ req.provider \in Providers /\ req.model \in Models \cup {NoModel} /\ polled \in Nat
        /\ capture = Capture(req.hold, ReferencePrice(pm, event.raw, req.model))
    BY DEF UsageInv, UsageTypeOK, MeterOK, Admitted, PricedByReference
  <2>3. IsUsage(run) /\ RunIn(run, polled)
    <3>1. IsUsage(run)
      BY <2>2, MadeTables, MergeTable DEF IsUsage
    <3>. QED  BY <3>1 DEF RunIn, Merge, OneCall, Field
  <2>4. NormalizeWithOptions(pm, run, req.model, FALSE) = ReferencePrice(pm, run, req.model)
    <3>. HIDE DEF run
    <3>. QED  BY <2>2, <2>3, PriceFollowsReference
  <2>5. ReferencePrice(pm, run, req.model) = ReferencePrice(pm, event.raw, req.model)
    <3>. HIDE DEF run
    <3>. QED  BY <2>1, <2>2, <2>3, RunPrice DEF PolledByTime
  <2>. QED  BY <2>2, <2>4, <2>5
<1>. QED  BY <1>1, RawInvariant, PTL
=============================================================================
