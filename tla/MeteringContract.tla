--------------------------- MODULE MeteringContract ---------------------------
(***************************************************************************)
(* What the documents promise of the metering pipeline, stated over its    *)
(* ledger: the refinement of HoldLifecycle, and the promises the code      *)
(* does not keep.                                                          *)
(***************************************************************************)
EXTENDS MeteringPipeline, FiniteSetsExt

(* Sum of the amounts of a request's rows of one type (keys make rows distinct). *)
Total(r, type) ==
    MapThenSumSet(LAMBDA row : row.amount, {row \in RowsFor(r) : row.ref = r /\ row.type = type})

Captured(r) == -Total(r, "capture")
Released(r) == Total(r, "release")

Holds == INSTANCE HoldLifecycle WITH
    phase <- [r \in Requests |-> IF Settled(r) THEN "settled" ELSE IF Held(r) THEN "held" ELSE "none"],
    captured <- [r \in Requests |-> Captured(r)],
    released <- [r \in Requests |-> Released(r)]

(***************************************************************************)
(* For requests without a client key that cost less than their hold, the   *)
(* gateway, worker, sweeper and operator together implement HoldLifecycle: *)
(* one hold, settled once, by the worker or by the sweeper, never by both. *)
(***************************************************************************)
ImplementsHoldLifecycle == Holds!HoldSpec

-----------------------------------------------------------------------------
(* Promises of the documents that the code breaks; see the README's findings. *)

(***************************************************************************)
(* A settled request reduces the balance "by capture only": the balance is *)
(* the deposits less the open holds less the captures (CaptureAndRelease). *)
(***************************************************************************)
BalanceReducedByCaptureOnly ==
    \A u \in Users :
        LET Mine == {r \in Requests : UserOf[r] = u}
            deposits == MapThenSumSet(LAMBDA row : row.amount,
                                      {row \in RowsIn(ledger, u) : row.type = "deposit"})
            spent(r) == IF Settled(r) THEN Captured(r) ELSE IF Held(r) THEN HoldOf[r] ELSE 0
        IN  balance[u] = deposits - MapThenSumSet(spent, Mine)

(***************************************************************************)
(* Every request that reached its downstream is metered, a disconnecting   *)
(* client's too (emitMeter).                                               *)
(***************************************************************************)
ServedIsMetered ==
    \A r \in Requests : pc[r] \in {"served", "done"} =>
        \E i \in DOMAIN stream : stream[i].ev.req = r
=============================================================================
