------------------------------- MODULE Pricing -------------------------------
(***************************************************************************)
(* What a request costs: NormalizeWithOptions and EstimateMax of           *)
(* internal/metering, and the maps of raw usage they read.                 *)
(*                                                                         *)
(* A raw usage map is a function from some field names to natural numbers. *)
(* The priced units carry the names of their raw fields; cost and cost_usd *)
(* are in millionths of a dollar; quantities are whole, so rounding        *)
(* quantity times rate is exact.                                           *)
(***************************************************************************)
EXTENDS Integers

CONSTANTS
    CreditUSDMicro,   \* CREDIT_USD_MICRO
    MarginPercent     \* PLATFORM_MARGIN in percent

ASSUME RatesAreNaturals == CreditUSDMicro \in Nat /\ MarginPercent \in Nat

Million == 1000000

Units == {"input_tokens", "output_tokens", "compute_seconds", "db_reads", "db_writes",
          "vec_queries", "api_calls"}
Fields == Units \cup {"cost", "cost_usd", "needs_poll", "note"}

(* Raw usage and rates: some names of S, with natural numbers. *)
IsTable(S, t) == DOMAIN t \subseteq S /\ t \in [DOMAIN t -> Nat]

NoFields == [f \in {} |-> 0]
Field(f, n) == [g \in {f} |-> n]

(* Mistake: the patch does not replace what is there. *)
MergeKeeping(base, patch) ==
    [f \in DOMAIN base \cup DOMAIN patch |-> IF f \in DOMAIN base THEN base[f] ELSE patch[f]]

(* mergeMaps, mergeUsage and the copying of a model's override into the rates. *)
Merge(base, patch) ==
    [f \in DOMAIN base \cup DOMAIN patch |-> IF f \in DOMAIN patch THEN patch[f] ELSE base[f]]

Quantities(raw) == DOMAIN raw \cap Units

(* base_rates_micro_per_unit, with the model's override on top. *)
RatesFor(pm, model) ==
    IF model \in DOMAIN pm.overrides THEN Merge(pm.rates, pm.overrides[model]) ELSE pm.rates

Charge(rates, raw, u) == IF u \in DOMAIN raw \cap DOMAIN rates THEN raw[u] * rates[u] ELSE 0

RateTotal(rates, raw) ==
    Charge(rates, raw, "input_tokens") + Charge(rates, raw, "output_tokens")
    + Charge(rates, raw, "compute_seconds") + Charge(rates, raw, "db_reads")
    + Charge(rates, raw, "db_writes") + Charge(rates, raw, "vec_queries")
    + Charge(rates, raw, "api_calls")

Margin(pm) == IF MarginPercent > 0 THEN MarginPercent ELSE IF pm.margin = 0 THEN 5 ELSE pm.margin

(* The dollars of the provider times 1 + margin times CREDIT_USD_MICRO / 10^6, rounded. *)
PassthroughMicro(pm, usd) ==
    (usd * (100 + Margin(pm)) * CreditUSDMicro + 50 * Million) \div (100 * Million)

(* Mistake: a usage that adds up to nothing is free. *)
ZeroIsFree(pm, raw, total, partial) ==
    IF total > 0 /\ total < pm.minimum THEN pm.minimum ELSE total

(* The three minimum rules at the end of NormalizeWithOptions, in their order. *)
ApplyMinimum(pm, raw, total, partial) ==
    LET raised == IF total < pm.minimum /\ total > 0 THEN pm.minimum ELSE total
        nonzero == IF raised = 0 /\ pm.minimum > 0 /\ Quantities(raw) # {}
                   THEN pm.minimum ELSE raised
    IN  IF partial /\ nonzero > 0 /\ pm.minimum > 0 /\ nonzero < pm.minimum
        THEN pm.minimum ELSE nonzero

HasCost(pm, raw) == pm.passthrough /\ "cost_usd" \in DOMAIN raw /\ raw["cost_usd"] > 0

NormalizeWithOptions(pm, raw, model, partial) ==
    IF HasCost(pm, raw)
    THEN LET micro == PassthroughMicro(pm, raw["cost_usd"])
         IN  IF micro < pm.minimum THEN pm.minimum ELSE micro
    ELSE ApplyMinimum(pm, raw, RateTotal(RatesFor(pm, model), raw), partial)

EstimateMax(pm, hints, default) ==
    IF hints > 0 THEN hints * Million
    ELSE IF pm.minimum > 0 /\ default < pm.minimum THEN pm.minimum * 100
    ELSE IF default = 0 THEN 10 * Million ELSE default

(* CaptureRelease: the price, cut to the hold. *)
Capture(hold, price) == IF price > hold THEN hold ELSE price
=============================================================================
