---------------------------- MODULE ProviderGuard ----------------------------
(***************************************************************************)
(* What stands between the proxy handler and a provider: the bulkhead      *)
(* (internal/proxy/bulkhead.go), the circuit breaker (breaker.go) and the  *)
(* counter of active requests that the shutdown waits for (active.go,      *)
(* cmd/gateway/main.go).  Each method runs under its mutex, so it is one   *)
(* step; the handlers interleave between them.                             *)
(***************************************************************************)
EXTENDS Integers, FiniteSets

CONSTANTS
    Handlers,       \* goroutines running Handler.ServeHTTP
    Providers,
    Limit,          \* BULKHEAD_PER_PROVIDER
    MinSamples,     \* the breaker judges no fewer results than this (5)
    MaxResults      \* bound of the model: results recorded between two openings

ASSUME GuardBounds ==
    /\ IsFiniteSet(Handlers) /\ IsFiniteSet(Providers)
    /\ Limit \in Nat \ {0} /\ MinSamples \in Nat \ {0} /\ MaxResults \in Nat

VARIABLES
    handler,        \* per handler: its provider and how far it got
    active,         \* Bulkhead.active
    requests,       \* activeRequests
    failures, successes,  \* CircuitBreaker counts, one pair for all providers
    open,           \* now is before CircuitBreaker.openUntil
    server          \* "up", "draining" or "down"

guardVars == <<handler, active, requests, failures, successes, open, server>>

HandlerSteps == {"idle", "entered", "acquired", "calling", "answered", "full", "refused"}

Inside(p, steps) == {h \in Handlers : handler[h].provider = p /\ handler[h].step \in steps}
HandlerAt(h, step) == handler[h].step = step
HandlerGoto(h, step) == handler' = [handler EXCEPT ![h].step = step]

-----------------------------------------------------------------------------
(* IncActive at the top of ServeHTTP; no new request once the server is down. *)
Enter(h, p) ==
    /\ HandlerAt(h, "idle") /\ server # "down"
    /\ handler' = [handler EXCEPT ![h] = [provider |-> p, step |-> "entered"]]
    /\ requests' = requests + 1
    /\ UNCHANGED <<active, failures, successes, open, server>>

(* Mistake: off by one at the limit. *)
HasRoomPlusOne(p) == active[p] <= Limit

HasRoom(p) == active[p] < Limit

TryAcquire(h) ==
    /\ HandlerAt(h, "entered")
    /\ LET p == handler[h].provider
       IN  \/ /\ HasRoom(p)
              /\ active' = [active EXCEPT ![p] = @ + 1]
              /\ HandlerGoto(h, "acquired")
           \/ ~HasRoom(p) /\ HandlerGoto(h, "full") /\ UNCHANGED active
    /\ UNCHANGED <<requests, failures, successes, open, server>>

(* rate > threshold, threshold = 0.5; too few results never open the circuit. *)
Tripped == failures + successes >= MinSamples /\ 2 * failures > failures + successes

(* Mistake: only the counts decide, which the opening reset. *)
AllowByCounts(h) ==
    /\ HandlerAt(h, "acquired")
    /\ \/ /\ Tripped
          /\ open' = TRUE /\ failures' = 0 /\ successes' = 0
          /\ HandlerGoto(h, "refused")
       \/ ~Tripped /\ HandlerGoto(h, "calling") /\ UNCHANGED <<failures, successes, open>>
    /\ UNCHANGED <<active, requests, server>>

Allow(h) ==
    /\ HandlerAt(h, "acquired")
    /\ \/ open /\ HandlerGoto(h, "refused") /\ UNCHANGED <<failures, successes, open>>
       \/ /\ ~open /\ Tripped
          /\ open' = TRUE /\ failures' = 0 /\ successes' = 0
          /\ HandlerGoto(h, "refused")
       \/ ~open /\ ~Tripped /\ HandlerGoto(h, "calling") /\ UNCHANGED <<failures, successes, open>>
    /\ UNCHANGED <<active, requests, server>>

(* The downstream answers or fails; Record, then the body is copied.  (MaxResults bounds *)
(* the run; breaker.go counts on.) *)
Record(h) ==
    /\ HandlerAt(h, "calling")
    /\ failures + successes < MaxResults
    /\ \/ successes' = successes + 1 /\ UNCHANGED <<failures>>
       \/ failures' = failures + 1 /\ UNCHANGED successes
    /\ HandlerGoto(h, "answered")
    /\ UNCHANGED <<active, requests, open, server>>

(* http.NewRequest fails: no result is recorded. *)
BuildFails(h) ==
    /\ HandlerAt(h, "calling")
    /\ HandlerGoto(h, "answered")
    /\ UNCHANGED <<active, requests, failures, successes, open, server>>

(* Mistake: the slot is returned only after a downstream call. *)
HeldSlots == {"answered"}

(* defer Release is registered once TryAcquire succeeded, so every later return runs it. *)
SlotSteps == {"answered", "refused"}

(* Mistake: the early return of a full bulkhead skips DecActive. *)
DecUnlessFull(h) == IF HandlerAt(h, "full") THEN requests ELSE requests - 1

DecActive(h) == requests - 1

(* The deferred calls: Release (never below zero), then DecActive. *)
Return(h) ==
    /\ handler[h].step \in {"answered", "refused", "full"}
    /\ LET p == handler[h].provider
       IN  active' = IF handler[h].step \in SlotSteps /\ active[p] > 0
                     THEN [active EXCEPT ![p] = @ - 1] ELSE active
    /\ requests' = DecActive(h)
    /\ HandlerGoto(h, "idle")
    /\ UNCHANGED <<failures, successes, open, server>>

(* openUntil passes. *)
Cooldown ==
    /\ open
    /\ open' = FALSE
    /\ UNCHANGED <<handler, active, requests, failures, successes, server>>

(* SIGTERM: main polls ActiveCount while the listener still accepts. *)
Signal ==
    /\ server = "up"
    /\ server' = "draining"
    /\ UNCHANGED <<handler, active, requests, failures, successes, open>>

(* ActiveCount is 0, or the 30 s deadline passed: Shutdown closes the listener. *)
Shutdown ==
    /\ server = "draining"
    /\ server' = "down"
    /\ UNCHANGED <<handler, active, requests, failures, successes, open>>

Serve(h) == TryAcquire(h) \/ Allow(h) \/ Record(h) \/ BuildFails(h) \/ Return(h)

GuardInit ==
    /\ handler \in [Handlers -> {[provider |-> p, step |-> "idle"] : p \in Providers}]
    /\ active = [p \in Providers |-> 0]
    /\ requests = 0 /\ failures = 0 /\ successes = 0
    /\ open = FALSE /\ server = "up"

GuardNext ==
    \/ \E h \in Handlers : Serve(h) \/ \E p \in Providers : Enter(h, p)
    \/ Cooldown \/ Signal \/ Shutdown

GuardSpec == GuardInit /\ [][GuardNext]_guardVars

-----------------------------------------------------------------------------
(* Types; no provider ever has more than Limit slots in use. *)
GuardTypeOK ==
    /\ handler \in [Handlers -> [provider : Providers, step : HandlerSteps]]
    /\ active \in [Providers -> 0..Limit] /\ requests \in Nat
    /\ failures \in 0..MaxResults /\ successes \in 0..MaxResults
    /\ open \in BOOLEAN /\ server \in {"up", "draining", "down"}

(***************************************************************************)
(* Bulkhead.active counts exactly the handlers that hold a slot, on every  *)
(* path through the handler: no slot leaks and none is returned twice.     *)
(***************************************************************************)
SlotsAccounted ==
    \A p \in Providers :
        active[p] = Cardinality(Inside(p, {"acquired", "calling", "answered", "refused"}))

(***************************************************************************)
(* ActiveCount, which the shutdown polls, counts the handlers inside       *)
(* ServeHTTP.                                                              *)
(***************************************************************************)
ActiveAccounted == requests = Cardinality({h \in Handlers : ~HandlerAt(h, "idle")})

(***************************************************************************)
(* The results counted while the circuit is open are late ones: Allow has  *)
(* reset the counts, and the calls that were under way at that moment go   *)
(* on and record.  They are fewer than the slots of the bulkhead, for the  *)
(* handler that opened the circuit holds one itself, so after the cooldown *)
(* the breaker judges no more stale results than that.                     *)
(***************************************************************************)
LateResultsBounded ==
    open => failures + successes + Cardinality({h \in Handlers : HandlerAt(h, "calling")})
                < Limit * Cardinality(Providers)
=============================================================================
