------------------------- MODULE ProviderGuard_proofs -------------------------
(***************************************************************************)
(* The counts of ProviderGuard for any number of handlers and providers,   *)
(* any limit and any breaker settings.                                     *)
(***************************************************************************)
EXTENDS ProviderGuard, FiniteSetTheorems, FunctionTheorems, TLAPS

Holding == {"acquired", "calling", "answered", "refused"}
Serving == {h \in Handlers : ~HandlerAt(h, "idle")}

(* The types without the lower bound of requests, which the count gives. *)
GuardShape ==
    /\ handler \in [Handlers -> [provider : Providers, step : HandlerSteps]]
    /\ active \in [Providers -> 0..Limit] /\ requests \in Int
    /\ failures \in 0..MaxResults /\ successes \in 0..MaxResults
    /\ open \in BOOLEAN /\ server \in {"up", "draining", "down"}

GuardInv == GuardShape /\ SlotsAccounted /\ ActiveAccounted

(* Handlers are finitely many, so the sets that are counted have a cardinality. *)
LEMMA GuardCounted ==
    ASSUME NEW S \in SUBSET Handlers
    PROVE  /\ IsFiniteSet(S) /\ Cardinality(S) \in Nat
           /\ \A h \in Handlers : h \notin S => Cardinality(S \cup {h}) = Cardinality(S) + 1
           /\ \A h \in S : Cardinality(S \ {h}) = Cardinality(S) - 1 /\ Cardinality(S) > 0
<1>1. IsFiniteSet(S)
  BY FS_Subset, GuardBounds
<1>2. Cardinality(S) \in Nat
  BY <1>1, FS_CardinalityType
<1>3. \A h \in Handlers : h \notin S => Cardinality(S \cup {h}) = Cardinality(S) + 1
  BY <1>1, FS_AddElement
<1>4. ASSUME NEW h \in S PROVE Cardinality(S \ {h}) = Cardinality(S) - 1 /\ Cardinality(S) > 0
  <2>1. Cardinality(S \ {h}) = Cardinality(S) - 1
    BY <1>1, FS_RemoveElement
  <2>2. Cardinality(S) # 0
    BY <1>1, FS_EmptySet
  <2> QED
    BY <1>2, <2>1, <2>2
<1> QED
  BY <1>1, <1>2, <1>3, <1>4

(* A handler that moves changes its step and nothing else. *)
LEMMA HandlerMoves ==
    ASSUME GuardShape, NEW h \in Handlers, NEW step \in HandlerSteps, HandlerGoto(h, step)
    PROVE  /\ handler' \in [Handlers -> [provider : Providers, step : HandlerSteps]]
           /\ handler'[h].provider = handler[h].provider /\ handler'[h].step = step
           /\ \A g \in Handlers : g # h => handler'[g] = handler[g]
BY DEF GuardShape, HandlerGoto

(* The sets that are counted, after a handler has moved. *)
LEMMA CountsMove ==
    ASSUME GuardShape, NEW h \in Handlers, NEW step \in HandlerSteps, HandlerGoto(h, step),
           NEW p \in Providers
    PROVE  /\ p # handler[h].provider => Inside(p, Holding)' = Inside(p, Holding)
           /\ p = handler[h].provider =>
                Inside(p, Holding)' = IF step \in Holding THEN Inside(p, Holding) \cup {h}
                                      ELSE Inside(p, Holding) \ {h}
           /\ Serving' = IF step # "idle" THEN Serving \cup {h} ELSE Serving \ {h}
BY HandlerMoves DEF Inside, Serving, HandlerAt

(* A step of a handler that neither takes nor returns a slot keeps the counts. *)
LEMMA QuietMove ==
    ASSUME GuardInv, NEW h \in Handlers, NEW step \in HandlerSteps, HandlerGoto(h, step),
           handler[h].step # "idle", step # "idle",
           handler[h].step \in Holding <=> step \in Holding,
           UNCHANGED <<active, requests>>
    PROVE  SlotsAccounted' /\ ActiveAccounted'
<1>1. GuardShape
  BY DEF GuardInv
<1>2. ASSUME NEW p \in Providers PROVE Inside(p, Holding)' = Inside(p, Holding)
  BY <1>1, CountsMove DEF Inside
<1>3. handler[h].provider \in Providers
  BY <1>1 DEF GuardShape
<1>4. Serving' = Serving
  BY <1>1, <1>3, CountsMove DEF Serving, HandlerAt
<1> QED
  BY <1>2, <1>4 DEF GuardInv, SlotsAccounted, ActiveAccounted, Holding, Serving

(* The invariant holds initially. *)
LEMMA GuardInitInv == GuardInit => GuardInv
<1> SUFFICES ASSUME GuardInit PROVE GuardInv
  OBVIOUS
<1>1. GuardShape
  <2>1. {[provider |-> p, step |-> "idle"] : p \in Providers}
          \subseteq [provider : Providers, step : HandlerSteps]
    BY DEF HandlerSteps
  <2>2. handler \in [Handlers -> [provider : Providers, step : HandlerSteps]]
    BY <2>1 DEF GuardInit
  <2>3. active \in [Providers -> 0..Limit] /\ 0 \in 0..MaxResults
    BY GuardBounds DEF GuardInit
  <2>4. open \in BOOLEAN /\ server \in {"up", "draining", "down"}
    BY DEF GuardInit
  <2>5. requests \in Int /\ failures \in 0..MaxResults /\ successes \in 0..MaxResults
    BY <2>3 DEF GuardInit
  <2> QED
    BY <2>2, <2>3, <2>4, <2>5 DEF GuardShape
<1>2. \A h \in Handlers : handler[h].step = "idle"
  BY DEF GuardInit
<1>3. Serving = {} /\ \A p \in Providers : Inside(p, Holding) = {}
  BY <1>2 DEF Serving, HandlerAt, Inside, Holding
<1> QED
  BY <1>1, <1>3, FS_EmptySet DEF GuardInit, GuardInv, SlotsAccounted, ActiveAccounted, Holding,
                                 Serving

(* A request that enters is counted and holds no slot. *)
LEMMA EnterInv ==
    ASSUME GuardInv, NEW h \in Handlers, NEW p \in Providers, Enter(h, p)
    PROVE  GuardInv'
<1>1. /\ GuardShape /\ h \notin Serving /\ handler[h].step = "idle"
      /\ \A g \in Handlers : g # h => handler'[g] = handler[g]
      /\ handler'[h] = [provider |-> p, step |-> "entered"]
  BY DEF GuardInv, GuardShape, Enter, Serving, HandlerAt
<1>2. GuardShape'
  BY <1>1 DEF GuardShape, Enter, HandlerSteps
<1>3. Serving' = Serving \cup {h} /\ \A q \in Providers : Inside(q, Holding)' = Inside(q, Holding)
  BY <1>1 DEF Serving, HandlerAt, Inside, Holding
<1>4. Cardinality(Serving') = Cardinality(Serving) + 1
  BY <1>1, <1>3, GuardCounted DEF Serving
<1> QED
  BY <1>2, <1>3, <1>4 DEF Enter, GuardInv, SlotsAccounted, ActiveAccounted, Holding, Serving

(* TryAcquire takes a slot for its handler or none. *)
LEMMA TryAcquireInv ==
    ASSUME GuardInv, NEW h \in Handlers, TryAcquire(h)
    PROVE  GuardInv'
<1>0. PICK p \in Providers : p = handler[h].provider
  BY DEF GuardInv, GuardShape
<1>1. GuardShape /\ handler[h].step = "entered"
  BY DEF GuardInv, GuardShape, TryAcquire, HandlerAt
<1>2. CASE HandlerGoto(h, "full") /\ UNCHANGED active
  <2>1. "full" \in HandlerSteps /\ "full" \notin Holding /\ "entered" \notin Holding
    BY DEF HandlerSteps, Holding
  <2>2. SlotsAccounted' /\ ActiveAccounted'
    BY <1>1, <1>2, <2>1, QuietMove DEF TryAcquire
  <2>3. GuardShape'
    BY <1>1, <1>2, <2>1, HandlerMoves DEF GuardShape, TryAcquire
  <2> QED
    BY <2>2, <2>3 DEF GuardInv
<1>3. CASE HandlerGoto(h, "acquired") /\ active' = [active EXCEPT ![p] = @ + 1] /\ HasRoom(p)
  <2>1. "acquired" \in HandlerSteps /\ "acquired" \in Holding
    BY DEF HandlerSteps, Holding
  <2>2. GuardShape'
    BY <1>1, <1>3, <2>1, HandlerMoves, GuardBounds DEF GuardShape, TryAcquire, HasRoom
  <2>3. Serving' = Serving
    BY <1>1, <1>3, <2>1, CountsMove DEF Serving, HandlerAt
  <2>4. Inside(p, Holding)' = Inside(p, Holding) \cup {h} /\ h \notin Inside(p, Holding)
    BY <1>0, <1>1, <1>3, <2>1, CountsMove DEF Inside, Holding
  <2>5. Cardinality(Inside(p, Holding)') = Cardinality(Inside(p, Holding)) + 1
    BY <2>4, GuardCounted DEF Inside
  <2>6. \A q \in Providers : q # p => Inside(q, Holding)' = Inside(q, Holding)
    BY <1>0, <1>1, <1>3, <2>1, CountsMove
  <2>7. SlotsAccounted'
    BY <1>1, <1>3, <2>5, <2>6 DEF GuardInv, SlotsAccounted, GuardShape, Holding
  <2> QED
    BY <2>2, <2>3, <2>7 DEF GuardInv, ActiveAccounted, Serving, TryAcquire
<1> QED
  BY <1>0, <1>2, <1>3 DEF TryAcquire

(* Allow, Record and BuildFails move a handler that keeps its slot. *)
LEMMA CallInv ==
    ASSUME GuardInv, NEW h \in Handlers, Allow(h) \/ Record(h) \/ BuildFails(h)
    PROVE  GuardInv'
<1>1. PICK step \in {"refused", "calling", "answered"} : HandlerGoto(h, step)
  BY DEF Allow, Record, BuildFails
<1>2. /\ GuardShape /\ handler[h].step \in {"acquired", "calling"}
      /\ UNCHANGED <<active, requests>>
  BY DEF GuardInv, Allow, Record, BuildFails, HandlerAt
<1>3. /\ step \in HandlerSteps /\ step # "idle" /\ step \in Holding
      /\ handler[h].step # "idle" /\ handler[h].step \in Holding
  BY <1>1, <1>2 DEF HandlerSteps, Holding
<1>4. SlotsAccounted' /\ ActiveAccounted'
  BY <1>1, <1>2, <1>3, QuietMove
<1>5. handler' \in [Handlers -> [provider : Providers, step : HandlerSteps]]
  BY <1>1, <1>2, <1>3, HandlerMoves
<1>6. failures' \in 0..MaxResults /\ successes' \in 0..MaxResults /\ open' \in BOOLEAN
  <2>1. CASE Allow(h)
    <3>1. failures' \in 0..MaxResults /\ successes' \in 0..MaxResults
      BY <1>2, <2>1, GuardBounds DEF GuardShape, Allow
    <3>2. open' \in BOOLEAN
      BY <1>2, <2>1 DEF GuardShape, Allow
    <3> QED
      BY <3>1, <3>2
  <2>2. CASE Record(h)
    BY <1>2, <2>2, GuardBounds DEF GuardShape, Record
  <2>3. CASE BuildFails(h)
    BY <1>2, <2>3 DEF GuardShape, BuildFails
  <2> QED
    BY <2>1, <2>2, <2>3
<1>7. GuardShape'
  BY <1>2, <1>5, <1>6 DEF GuardShape, Allow, Record, BuildFails
<1> QED
  BY <1>4, <1>7 DEF GuardInv

(* The deferred calls return what the handler took, on every path. *)
LEMMA ReturnInv ==
    ASSUME GuardInv, NEW h \in Handlers, Return(h)
    PROVE  GuardInv'
<1>0. PICK p \in Providers : p = handler[h].provider
  BY DEF GuardInv, GuardShape
<1>1. /\ GuardShape /\ HandlerGoto(h, "idle")
      /\ "idle" \in HandlerSteps /\ "idle" \notin Holding
      /\ handler[h].step \in {"answered", "refused", "full"}
  BY DEF GuardInv, GuardShape, Return, HandlerSteps, Holding
<1>2. Serving' = Serving \ {h} /\ h \in Serving
  BY <1>1, CountsMove DEF Serving, HandlerAt
<1>3. Cardinality(Serving') = Cardinality(Serving) - 1
  BY <1>2, GuardCounted DEF Serving
<1>4. ActiveAccounted'
  BY <1>3 DEF GuardInv, ActiveAccounted, Serving, Return, DecActive
<1>5. /\ Inside(p, Holding)' = Inside(p, Holding) \ {h}
      /\ \A q \in Providers : q # p => Inside(q, Holding)' = Inside(q, Holding)
  BY <1>0, <1>1, CountsMove
<1>6. CASE handler[h].step \in SlotSteps
  <2>1. h \in Inside(p, Holding)
    BY <1>0, <1>1, <1>6 DEF Inside, Holding, SlotSteps
  <2>2. /\ Cardinality(Inside(p, Holding)') = Cardinality(Inside(p, Holding)) - 1
        /\ Cardinality(Inside(p, Holding)) > 0
    BY <1>5, <2>1, GuardCounted DEF Inside
  <2>3. active[p] > 0 /\ active' = [active EXCEPT ![p] = @ - 1]
    BY <1>0, <1>1, <1>6, <2>2 DEF GuardInv, SlotsAccounted, Holding, Return
  <2>4. SlotsAccounted'
    BY <1>1, <1>5, <2>2, <2>3 DEF GuardInv, SlotsAccounted, GuardShape, Holding
  <2>5. GuardShape'
    BY <1>1, <2>3, HandlerMoves, GuardBounds DEF GuardShape, Return, DecActive
  <2> QED
    BY <1>4, <2>4, <2>5 DEF GuardInv
<1>7. CASE handler[h].step \notin SlotSteps
  <2>1. h \notin Inside(p, Holding) /\ active' = active
    BY <1>1, <1>7 DEF Inside, Holding, SlotSteps, Return
  <2>2. SlotsAccounted'
    BY <1>5, <2>1 DEF GuardInv, SlotsAccounted, Holding
  <2>3. GuardShape'
    BY <1>1, <2>1, HandlerMoves DEF GuardShape, Return, DecActive
  <2> QED
    BY <1>4, <2>2, <2>3 DEF GuardInv
<1> QED
  BY <1>6, <1>7

(* Every step keeps the counts. *)
LEMMA GuardStepInv == GuardInv /\ [GuardNext]_guardVars => GuardInv'
<1> SUFFICES ASSUME GuardInv, [GuardNext]_guardVars PROVE GuardInv'
  OBVIOUS
<1>1. CASE UNCHANGED guardVars \/ Cooldown \/ Signal \/ Shutdown
  BY <1>1 DEF guardVars, Cooldown, Signal, Shutdown, GuardInv, GuardShape, SlotsAccounted,
              ActiveAccounted, Inside, HandlerAt
<1>2. CASE \E h \in Handlers : Serve(h) \/ \E p \in Providers : Enter(h, p)
  BY <1>2, EnterInv, TryAcquireInv, CallInv, ReturnInv DEF Serve
<1> QED
  BY <1>1, <1>2 DEF GuardNext

(* The inductive invariant of the guard. *)
LEMMA GuardInvariant == GuardSpec => []GuardInv
BY GuardInitInv, GuardStepInv, PTL DEF GuardSpec

(***************************************************************************)
(* The guard is well typed: no provider has more than Limit calls, and     *)
(* activeRequests is never negative.                                       *)
(***************************************************************************)
THEOREM GuardTypeCorrect == GuardSpec => []GuardTypeOK
<1>1. GuardInv => GuardTypeOK
  BY GuardCounted DEF GuardInv, GuardShape, GuardTypeOK, ActiveAccounted
<1> QED
  BY <1>1, GuardInvariant, PTL

(* The bulkhead counts exactly the handlers that hold a slot (TryAcquire, Release). *)
THEOREM SlotsNeverLeak == GuardSpec => []SlotsAccounted
<1>1. GuardInv => SlotsAccounted
  BY DEF GuardInv
<1> QED
  BY <1>1, GuardInvariant, PTL

(* ActiveCount is the number of handlers inside ServeHTTP (IncActive, DecActive). *)
THEOREM ActiveCountExact == GuardSpec => []ActiveAccounted
<1>1. GuardInv => ActiveAccounted
  BY DEF GuardInv
<1> QED
  BY <1>1, GuardInvariant, PTL

-----------------------------------------------------------------------------
(* The handlers whose call is under way, and all that hold a slot. *)
Calling == {h \in Handlers : HandlerAt(h, "calling")}
SlotHolders == {h \in Handlers : handler[h].step \in Holding}

(***************************************************************************)
(* All providers together have at most Limit slots each: number the        *)
(* holders of each provider's slots from 1 on, then a holder is told by    *)
(* its provider and its number.                                            *)
(***************************************************************************)
LEMMA SlotsBounded ==
    ASSUME GuardInv
    PROVE  Cardinality(SlotHolders) <= Limit * Cardinality(Providers)
<1> DEFINE In(p) == Inside(p, Holding)
           Number(p) == CHOOSE f : f \in Injection(In(p), 1..active[p])
           Slots == Providers \X (1..Limit)
           place == [h \in SlotHolders |->
                        <<handler[h].provider, Number(handler[h].provider)[h]>>]
<1>1. ASSUME NEW p \in Providers
      PROVE  /\ Number(p) \in [In(p) -> 1..Limit]
             /\ \A g, h \in In(p) : Number(p)[g] = Number(p)[h] => g = h
  <2>1. active[p] = Cardinality(In(p)) /\ active[p] \in 0..Limit
    BY DEF GuardInv, SlotsAccounted, GuardShape, Holding
  <2>2. ExistsBijection(1..active[p], In(p))
    <3>1. In(p) \in SUBSET Handlers
      BY DEF Inside
    <3>2. IsFiniteSet(In(p))
      BY <3>1, GuardCounted
    <3> HIDE DEF In
    <3> QED
      BY <2>1, <3>2, FS_CardinalityType
  <2>3. ExistsBijection(In(p), 1..active[p])
    <3> HIDE DEF In
    <3> QED
      BY <2>2, Fun_ExistsBijSymmetric
  <2>4. \E f : f \in Injection(In(p), 1..active[p])
    BY <2>3 DEF ExistsBijection, Bijection
  <2>5. Number(p) \in Injection(In(p), 1..active[p])
    BY <2>4
  <2>6. 1..active[p] \subseteq 1..Limit
    BY <2>1, GuardBounds
  <2> HIDE DEF Number, In
  <2> QED
    BY <2>5, <2>6 DEF Injection, IsInjective
<1>2. ASSUME NEW h \in SlotHolders
      PROVE  handler[h].provider \in Providers /\ h \in In(handler[h].provider)
  BY DEF SlotHolders, Inside, GuardInv, GuardShape
<1> HIDE DEF Number, In
<1>3. place \in [SlotHolders -> Slots]
  BY <1>1, <1>2
<1>4. ASSUME NEW g \in SlotHolders, NEW h \in SlotHolders, place[g] = place[h]
      PROVE  g = h
  <2>1. /\ handler[g].provider = handler[h].provider
        /\ Number(handler[g].provider)[g] = Number(handler[h].provider)[h]
    BY <1>4
  <2> QED
    BY <1>1, <1>2, <2>1
<1>5. place \in Injection(SlotHolders, Slots)
  <2> HIDE DEF place, Slots
  <2> QED
    BY <1>3, <1>4, Fun_IsInj
<1>6. IsFiniteSet(Slots) /\ Cardinality(Slots) = Cardinality(Providers) * Limit
  <2>1. IsFiniteSet(1..Limit) /\ Cardinality(1..Limit) = Limit
    BY FS_Interval, GuardBounds
  <2> QED
    BY <2>1, FS_Product, GuardBounds
<1>7. Cardinality(SlotHolders) <= Cardinality(Slots)
  <2> HIDE DEF place, Slots
  <2> QED
    BY <1>5, <1>6, FS_Injection
<1>8. Cardinality(Providers) * Limit = Limit * Cardinality(Providers)
  <2>1. Cardinality(Providers) \in Nat /\ Limit \in Nat
    BY FS_CardinalityType, GuardBounds
  <2> QED
    BY <2>1
<1> QED
  BY <1>6, <1>7, <1>8

(* The handler that opens the circuit holds a slot and is not calling. *)
LEMMA OpeningInv ==
    ASSUME GuardInv, NEW h \in Handlers, Allow(h), ~open, open'
    PROVE  LateResultsBounded'
<1>1. /\ GuardShape /\ handler[h].step = "acquired" /\ HandlerGoto(h, "refused")
      /\ failures' = 0 /\ successes' = 0
  BY DEF GuardInv, Allow, HandlerAt
<1>2. Calling' = Calling
  <2>1. "refused" \in HandlerSteps
    BY DEF HandlerSteps
  <2> QED
    BY <1>1, <2>1, HandlerMoves DEF Calling, HandlerAt
<1>3. Calling \cup {h} \subseteq SlotHolders /\ h \notin Calling
  BY <1>1 DEF Calling, SlotHolders, Holding, HandlerAt
<1>4. Cardinality(Calling \cup {h}) = Cardinality(Calling) + 1 /\ Cardinality(Calling) \in Nat
  <2>1. Calling \in SUBSET Handlers
    BY DEF Calling
  <2> QED
    BY <1>3, <2>1, GuardCounted
<1>5. /\ Cardinality(Calling \cup {h}) <= Cardinality(SlotHolders)
      /\ Cardinality(SlotHolders) \in Nat
  <2>1. SlotHolders \in SUBSET Handlers
    BY DEF SlotHolders
  <2>2. IsFiniteSet(SlotHolders) /\ Cardinality(SlotHolders) \in Nat
    BY <2>1, GuardCounted
  <2> QED
    BY <1>3, <2>2, FS_Subset
<1> DEFINE bound == Limit * Cardinality(Providers)
<1>6. bound \in Int
  BY GuardBounds, FS_CardinalityType
<1>7. Cardinality(SlotHolders) <= bound
  BY SlotsBounded
<1> HIDE DEF bound
<1>8. Cardinality(Calling) < bound
  BY <1>4, <1>5, <1>6, <1>7
<1>9. 0 + 0 + Cardinality(Calling) < bound
  BY <1>4, <1>8
<1> QED
  BY <1>1, <1>2, <1>9 DEF LateResultsBounded, Calling, bound

(* While it stays open a call becomes a result and none begins. *)
LEMMA OpenInv ==
    ASSUME GuardInv, LateResultsBounded, [GuardNext]_guardVars, open, open'
    PROVE  LateResultsBounded'
<1> DEFINE Late == failures + successes + Cardinality(Calling)
           bound == Limit * Cardinality(Providers)
<1>0. /\ GuardShape /\ Calling \in SUBSET Handlers
      /\ failures \in Nat /\ successes \in Nat /\ Cardinality(Calling) \in Nat
  <2>1. Calling \in SUBSET Handlers
    BY DEF Calling
  <2> QED
    BY <2>1, GuardCounted, GuardBounds DEF GuardInv, GuardShape
<1>1. bound \in Int /\ Late < bound
  BY GuardBounds, FS_CardinalityType DEF LateResultsBounded, Calling
<1>2. ASSUME NEW h \in Handlers, NEW step \in HandlerSteps \ {"calling"}, HandlerGoto(h, step)
      PROVE  Calling' = Calling \ {h}
  BY <1>0, <1>2, HandlerMoves DEF Calling, HandlerAt
<1>3. ASSUME NEW S, S = Calling' PROVE S \subseteq Calling => Cardinality(S) <= Cardinality(Calling)
                                         /\ Cardinality(S) \in Nat
  BY <1>0, GuardCounted, FS_Subset
<1>4. ASSUME UNCHANGED <<failures, successes>>, Calling' \subseteq Calling PROVE Late' < bound
  BY <1>0, <1>1, <1>3, <1>4
<1>5. CASE UNCHANGED guardVars \/ Cooldown \/ Signal \/ Shutdown
  <2>1. Calling' = Calling
    BY <1>5 DEF guardVars, Cooldown, Signal, Shutdown, Calling, HandlerAt
  <2>2. UNCHANGED <<failures, successes>>
    BY <1>5 DEF guardVars, Cooldown, Signal, Shutdown
  <2>3. Late' < bound
    BY <1>4, <2>1, <2>2
  <2> QED
    BY <2>3 DEF LateResultsBounded, Calling
<1>6. ASSUME NEW h \in Handlers, NEW p \in Providers, Enter(h, p) PROVE LateResultsBounded'
  <2>1. Calling' \subseteq Calling
    BY <1>0, <1>6 DEF Enter, Calling, HandlerAt, GuardShape
  <2>2. Late' < bound
    BY <1>4, <1>6, <2>1 DEF Enter
  <2> QED
    BY <2>2 DEF LateResultsBounded, Calling
<1>7. ASSUME NEW h \in Handlers, TryAcquire(h) \/ Allow(h) \/ BuildFails(h) \/ Return(h)
      PROVE  LateResultsBounded'
  <2>1. /\ \E step \in {"acquired", "full", "refused", "answered", "idle"} : HandlerGoto(h, step)
        /\ UNCHANGED <<failures, successes>>
    BY <1>7 DEF TryAcquire, Allow, BuildFails, Return
  <2>2. {"acquired", "full", "refused", "answered", "idle"} \subseteq HandlerSteps \ {"calling"}
    BY DEF HandlerSteps
  <2>3. Calling' \subseteq Calling
    BY <1>2, <2>1, <2>2
  <2>4. Late' < bound
    BY <1>4, <2>1, <2>3
  <2> QED
    BY <2>4 DEF LateResultsBounded, Calling
<1>8. ASSUME NEW h \in Handlers, Record(h) PROVE LateResultsBounded'
  <2>1. h \in Calling /\ HandlerGoto(h, "answered") /\ "answered" \in HandlerSteps \ {"calling"}
    BY <1>8 DEF Record, Calling, HandlerSteps
  <2>2. Calling' = Calling \ {h}
    BY <1>2, <2>1
  <2>3. Cardinality(Calling') = Cardinality(Calling) - 1
    BY <1>0, <2>1, <2>2, GuardCounted
  <2>4. failures' + successes' = failures + successes + 1
    BY <1>0, <1>8 DEF Record
  <2>5. Late' = Late
    <3>1. \A f, s, c \in Nat : (f + s + 1) + (c - 1) = f + s + c
      OBVIOUS
    <3>2. Late' = (failures' + successes') + Cardinality(Calling')
      OBVIOUS
    <3> QED
      BY <1>0, <2>3, <2>4, <3>1, <3>2
  <2>6. Late' < bound
    BY <1>1, <2>5
  <2> QED
    BY <2>6 DEF LateResultsBounded, Calling
<1> QED
  BY <1>5, <1>6, <1>7, <1>8 DEF GuardNext, Serve

(***************************************************************************)
(* However handlers of any providers interleave, the breaker counts fewer  *)
(* late results while it is open than the bulkhead has slots: at its       *)
(* opening every call under way holds a slot, the opener another, and none *)
(* begins before the cooldown (Allow, Record, TryAcquire).                 *)
(***************************************************************************)
THEOREM FewLateResults == GuardSpec => []LateResultsBounded
<1>1. GuardInit => LateResultsBounded
  BY DEF GuardInit, LateResultsBounded
<1>2. GuardInv /\ LateResultsBounded /\ [GuardNext]_guardVars => LateResultsBounded'
  <2> SUFFICES ASSUME GuardInv, LateResultsBounded, [GuardNext]_guardVars, open'
               PROVE  LateResultsBounded'
    BY DEF LateResultsBounded
  <2>1. CASE open
    BY <2>1, OpenInv
  <2>2. CASE ~open
    <3>1. \E h \in Handlers : Allow(h)
      BY <2>2 DEF GuardNext, guardVars, Serve, Enter, TryAcquire, Record, BuildFails, Return,
                  Cooldown, Signal, Shutdown
    <3> QED
      BY <2>2, <3>1, OpeningInv
  <2> QED
    BY <2>1, <2>2
<1> QED
  BY <1>1, <1>2, GuardInvariant, PTL DEF GuardSpec
=============================================================================
