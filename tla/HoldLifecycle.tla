---------------------------- MODULE HoldLifecycle ----------------------------
(***************************************************************************)
(* What a credit hold promises, without processes, queues or caches: a     *)
(* request's hold is placed at most once and settled at most once, in one  *)
(* step, by capturing part of it and releasing all the rest.               *)
(* MeteringContract shows when the pipeline implements it.                 *)
(***************************************************************************)
EXTENDS Integers

CONSTANTS
    Requests,
    HoldOf     \* the amount held for a request

VARIABLES
    phase,     \* "none", "held" or "settled"
    captured,  \* what the request was charged
    released   \* what was given back

holdVars == <<phase, captured, released>>

HoldInit ==
    /\ phase = [r \in Requests |-> "none"]
    /\ captured = [r \in Requests |-> 0]
    /\ released = [r \in Requests |-> 0]

PlaceHold(r) ==
    /\ phase[r] = "none"
    /\ phase' = [phase EXCEPT ![r] = "held"]
    /\ UNCHANGED <<captured, released>>

SettleHold(r, charge) ==
    /\ phase[r] = "held"
    /\ phase' = [phase EXCEPT ![r] = "settled"]
    /\ captured' = [captured EXCEPT ![r] = charge]
    /\ released' = [released EXCEPT ![r] = HoldOf[r] - charge]

HoldNext ==
    \E r \in Requests : PlaceHold(r) \/ \E charge \in 0..HoldOf[r] : SettleHold(r, charge)

HoldSpec == HoldInit /\ [][HoldNext]_holdVars
=============================================================================
