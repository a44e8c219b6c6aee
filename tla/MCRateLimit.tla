----------------------------- MODULE MCRateLimit -----------------------------
(***************************************************************************)
(* An instance of the rate limiter for TLC: one user with two API keys.    *)
(***************************************************************************)
EXTENDS RateLimit, TLC

CONSTANTS u1, k1, k2

SameOwner == [k \in Keys |-> u1]
Symm == Permutations(Calls)
OneAndTwo == [k \in Keys |-> IF k = k1 THEN 1 ELSE 2]
=============================================================================
