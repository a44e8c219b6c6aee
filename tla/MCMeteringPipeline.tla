-------------------------- MODULE MCMeteringPipeline --------------------------
(***************************************************************************)
(* Instances of the metering pipeline for TLC.                             *)
(***************************************************************************)
EXTENDS MeteringContract, TLC

CONSTANTS u1, k1, r3

OneUser == [r \in Requests |-> u1]
HoldOfTwo == [r \in Requests |-> 2]
NoKeys == [r \in Requests |-> NoKey]

(* A client repeats its keyed request beside r3; only r3 has a key. *)
Retried == [r \in Requests |-> IF r = r3 THEN NoKey ELSE k1]
OnlyR3Keyed == [r \in Requests |-> IF r = r3 THEN k1 ELSE NoKey]

(* The two repeated requests differ in nothing but their ids. *)
Retries == Permutations(Requests \ {r3})
=============================================================================
