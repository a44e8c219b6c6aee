----------------------------- MODULE MCUsageMeter -----------------------------
(***************************************************************************)
(* The seeded providers (migrations/002_seed_providers.sql) and manifests  *)
(* for TLC, with one model override and a driver without a provider row.   *)
(***************************************************************************)
EXTENDS UsageMeter

NoOverride == [m \in {} |-> NoFields]

SeedPricing ==
    [openrouter |-> [passthrough |-> TRUE, margin |-> 5, minimum |-> 100,
                     rates |-> [input_tokens |-> 300, output_tokens |-> 900],
                     overrides |-> [opus |-> [output_tokens |-> 4500]]],
     apify |-> [passthrough |-> FALSE, margin |-> 0, minimum |-> 100,
                rates |-> [compute_seconds |-> 50000, api_calls |-> 1000],
                overrides |-> NoOverride],
     letta |-> [passthrough |-> FALSE, margin |-> 0, minimum |-> 100,
                rates |-> [api_calls |-> 1000, input_tokens |-> 300, output_tokens |-> 900],
                overrides |-> NoOverride]]

AllCaps == {"parse_response", "normalize_usage"}
SeedManifests ==
    [openrouter |-> [ops |-> {"chat"}, caps |-> AllCaps],
     apify |-> [ops |-> {"run"}, caps |-> AllCaps \cup {"async_poll"}],
     letta |-> [ops |-> {"messages"}, caps |-> AllCaps],
     kuzu |-> [ops |-> {"query"}, caps |-> AllCaps]]

SeedTargets ==
    {[kind |-> "chat"], [kind |-> "path", provider |-> "letta", op |-> "messages"],
     [kind |-> "path", provider |-> "kuzu", op |-> "query"],
     [kind |-> "path", provider |-> "apify", op |-> "stop"],
     [kind |-> "envelope", provider |-> "apify", op |-> "run"],
     [kind |-> "envelope", provider |-> "openrouter", op |-> "chat"]}

SomeScopes == {Nil, {<<"*", "*">>}, {<<"openrouter", "*">>, <<"apify", "run">>}}

(* Nothing, a little, and numbers no request should carry. *)
SignedAsks == {-1000, -20, 0, 1}
SignedHints == {-1, 0, 1}

(* A cost, token counts, a count of zero, and fields the pricing does not know. *)
SomeReports ==
    {[cost |-> 1000], [input_tokens |-> 10, output_tokens |-> 20], [output_tokens |-> 0],
     [note |-> 1]}
=============================================================================
