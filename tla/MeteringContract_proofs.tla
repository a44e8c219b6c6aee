----------------------- MODULE MeteringContract_proofs -----------------------
(***************************************************************************)
(* What the metering pipeline promises of holds, events and replays, for   *)
(* any number of requests, users, faults, redeliveries and replays:        *)
(* retries with one key hold once, a replayed response was paid for, no    *)
(* acknowledged event is forgotten, no hold is stranded; and, where every  *)
(* request costs less than its hold and none is settled under a client's   *)
(* key, the refinement of HoldLifecycle.                                   *)
(*                                                                         *)
(* ContractInv is the inductive invariant.  It relates the ledger to what  *)
(* the processes have in hand: a handler before ApplyHold has no hold, the *)
(* worker past its transaction and the sweeper about to delete have        *)
(* settled, and a session disappears only behind a settlement.             *)
(***************************************************************************)
EXTENDS MeteringPipeline_proofs, MeteringContract

(* The handler has not called ApplyHold, or it failed. *)
Early == {"new", "replayed", "admitted", "miss", "loaded", "checked", "rejected"}

(* A hold row belongs to its request's user and carries its request's key. *)
HoldRowOf(u, row) ==
    row.ref \in Requests /\ UserOf[row.ref] = u /\ row.key = HoldKey(row.ref)

-----------------------------------------------------------------------------
(* The rows a settlement inserts, and which rows a step may insert. *)

SettlementRows(u, r, c, l, x) ==
    (IF c > 0 THEN {CaptureRow(u, r, c, x)} ELSE {})
        \cup (IF l > 0 THEN {ReleaseRow(u, r, c, l, x)} ELSE {})

(* The ledger gains the rows S of user u and no others. *)
Gains(u, S) ==
    \A v \in Users : RowsIn(ledger', v) = RowsIn(ledger, v) \cup (IF v = u THEN S ELSE {})

HoldRow(r) ==
    [type |-> "hold", amount |-> -HoldOf[r], after |-> balance[UserOf[r]] - HoldOf[r],
     ref |-> r, key |-> HoldKey(r)]

(* One INSERT, seen as a set of rows. *)
LEMMA InsertGains ==
    ASSUME ledger \in Tables, NEW u \in Users, NEW row \in Row, ledger' = Insert(ledger, u, row)
    PROVE  Gains(u, {row})
BY InsertRows DEF Gains

(* A settlement inserts a capture row, a release row, both or none. *)
LEMMA SettlementGains ==
    ASSUME StoreTypeOK, NEW r \in Requests, NEW c \in Int, NEW l \in Int,
           NEW x \in Requests \cup ClientKeys,
           ledger' = AfterSettlement(UserOf[r], r, c, l, x)
    PROVE  Gains(UserOf[r], SettlementRows(UserOf[r], r, c, l, x))
<1>. DEFINE u == UserOf[r]
            crow == CaptureRow(u, r, c, x)
            lrow == ReleaseRow(u, r, c, l, x)
            t1 == InsertIf(c > 0, ledger, u, crow)
            n == InsertIf(l > 0, t1, u, lrow)
            C == IF c > 0 THEN {crow} ELSE {}
            L == IF l > 0 THEN {lrow} ELSE {}
<1>0. u \in Users /\ balance[u] \in Nat /\ ledger \in Tables /\ Moved(c) \in Int
  BY HoldArgs DEF StoreTypeOK, Tables, Moved
<1>1. crow \in Row /\ lrow \in Row
  BY <1>0 DEF CaptureRow, ReleaseRow, Row, IdemKeys
<1>2. ledger' = n /\ SettlementRows(UserOf[r], r, c, l, x) = C \cup L
  BY DEF AfterSettlement, SettlementRows
<1>. HIDE DEF u, crow, lrow
<1>3. /\ t1 \in Tables
      /\ \A v \in Users : RowsIn(t1, v) = RowsIn(ledger, v) \cup (IF v = u THEN C ELSE {})
  BY <1>0, <1>1, InsertShape, InsertRows DEF InsertIf
<1>. HIDE DEF t1
<1>4. \A v \in Users : RowsIn(n, v) = RowsIn(t1, v) \cup (IF v = u THEN L ELSE {})
  BY <1>0, <1>1, <1>3, InsertRows DEF InsertIf
<1>. HIDE DEF n, C, L
<1>5. \A v \in Users : RowsIn(n, v) = RowsIn(ledger, v) \cup (IF v = u THEN C \cup L ELSE {})
  BY <1>3, <1>4
<1>. QED  BY <1>2, <1>5 DEF Gains, u

(* What the worker's transaction inserts: the two amounts add up to the hold. *)
LEMMA WorkerGains ==
    ASSUME SettleInv, NEW i \in worker.batch, Settle(i)
    PROVE  LET r == EventRequest(i)
               c == EventCapture(i)
               l == EventRelease(i)
           IN  /\ r \in Requests /\ HeldIn(ledger, r)
               /\ c \in Int /\ l \in Int /\ c + l = HoldOf[r] /\ HoldOf[r] \in Int \ {0}
               /\ HoldOf[r] > 0 => c \in Nat /\ l \in Nat
               /\ c = stream[i].ev.cost \/ (stream[i].ev.cost >= HoldOf[r] /\ l = 0)
               /\ stream[i].ev.cost \in Costs /\ Costs \subseteq Nat
               /\ Gains(UserOf[r], SettlementRows(UserOf[r], r, c, l, KeySuffix(r, KeyOf[r])))
               /\ pc' = pc
<1>. DEFINE r == EventRequest(i)
            c == EventCapture(i)
            l == EventRelease(i)
<1>0. StoreTypeOK /\ QueueTyped /\ QueueHeld
  BY DEF SettleInv, PipeInv, PipeOK, StoreInv
<1>1. i \in DOMAIN stream /\ r \in Requests /\ stream[i] \in Entries
  BY <1>0, EventArgs
<1>2. HeldIn(ledger, r) /\ HoldOf[r] \in Int \ {0} /\ KeySuffix(r, KeyOf[r]) \in Requests \cup ClientKeys
  BY <1>0, <1>1, HoldArgs, RequestsWellFormed DEF QueueHeld, EventRequest
<1>3. stream[i].ev.cost \in Costs /\ Costs \subseteq Nat
  BY <1>1, AmountsCoverPipeline DEF Entries, Events
<1>4. /\ c \in Int /\ l \in Int /\ c + l = HoldOf[r]
      /\ HoldOf[r] > 0 => c \in Nat /\ l \in Nat
      /\ c = stream[i].ev.cost \/ (stream[i].ev.cost >= HoldOf[r] /\ l = 0)
  <2>. DEFINE hold == HoldOf[r]
              cost == stream[i].ev.cost
  <2>1. hold \in Int /\ cost \in Nat
    BY <1>2, <1>3
  <2>2. c = (IF cost > hold THEN hold ELSE cost) /\ l = hold - c
    BY DEF EventCapture, EventRelease, CaptureOf, ReleaseOf
  <2>. HIDE DEF hold, cost, c, l
  <2>3. /\ c \in Int /\ l \in Int /\ c + l = hold /\ (hold > 0 => c \in Nat /\ l \in Nat)
        /\ (c = cost \/ (cost >= hold /\ l = 0))
    BY <2>1, <2>2
  <2>. QED  BY <2>3 DEF hold, cost
<1>5. ledger' = AfterSettlement(UserOf[r], r, c, l, KeySuffix(r, KeyOf[r])) /\ pc' = pc
  BY DEF Settle, CaptureAndRelease, EventUser, gatewayVars
<1>. HIDE DEF r, c, l
<1>6. Gains(UserOf[r], SettlementRows(UserOf[r], r, c, l, KeySuffix(r, KeyOf[r])))
  BY <1>0, <1>1, <1>2, <1>4, <1>5, SettlementGains
<1>. QED  BY <1>1, <1>2, <1>3, <1>4, <1>5, <1>6 DEF r, c, l

(* The sweeper's transaction commits. *)
SweepCommits ==
    /\ SweepRelease
    /\ CaptureAndRelease(UserOf[sweeper.req], sweeper.req, 0, sweeper.hold, "failed", NoKey)
    /\ sweeper' = [sweeper EXCEPT !.step = "delete"]

(* What it inserts: a release row for what the session held, none when that is 0. *)
LEMMA SweeperGains ==
    ASSUME SettleInv, SweepCommits
    PROVE  LET r == sweeper.req
           IN  /\ r \in Requests /\ HeldIn(ledger, r) /\ sweeper.hold \in Int
               /\ Gains(UserOf[r], SettlementRows(UserOf[r], r, 0, sweeper.hold, r))
               /\ pc' = pc
<1>0. StoreTypeOK /\ SweepHeld /\ SweepArgs /\ SweepTyped /\ sweeper.step # "list"
  BY DEF SettleInv, PipeInv, PipeOK, StoreInv, SweepCommits, SweepRelease
<1>. DEFINE r == sweeper.req
<1>1. r \in Requests /\ HeldIn(ledger, r) /\ sweeper.hold \in Int
  BY <1>0 DEF SweepHeld, SweepArgs, SweepTyped
<1>2. ledger' = AfterSettlement(UserOf[r], r, 0, sweeper.hold, r) /\ pc' = pc
  BY DEF SweepCommits, CaptureAndRelease, KeySuffix, SweepRelease, gatewayVars
<1>. HIDE DEF r
<1>3. Gains(UserOf[r], SettlementRows(UserOf[r], r, 0, sweeper.hold, r))
  BY <1>0, <1>1, <1>2, SettlementGains
<1>. QED  BY <1>1, <1>2, <1>3 DEF r

(***************************************************************************)
(* The steps that write the ledger: a deposit, ApplyHold, and the two      *)
(* transactions that settle.                                               *)
(***************************************************************************)
Deposits == \E u \in Users, row \in Row : row.type = "deposit" /\ Gains(u, {row}) /\ pc' = pc
Places(r) ==
    pc[r] = "checked" /\ pc' = [pc EXCEPT ![r] = "held"] /\ Gains(UserOf[r], {HoldRow(r)})

(* No other step writes the ledger. *)
LEMMA LedgerSteps ==
    ASSUME SettleInv, [Next]_vars
    PROVE  \/ ledger' = ledger
           \/ Deposits
           \/ \E r \in Requests : Places(r)
           \/ \E i \in worker.batch : Settle(i)
           \/ SweepCommits
<1>0. StoreTypeOK /\ ledger \in Tables /\ pc \in [Requests -> Labels]
  BY DEF SettleInv, PipeInv, PipeOK, GatewayTyped, StoreInv, StoreTypeOK, Tables
<1>1. ASSUME NEW r \in Requests, PlaceHold(r) PROVE ledger' = ledger \/ Places(r)
  <2>1. CASE ApplyHold(UserOf[r], HoldOf[r], r, HoldKey(r)) /\ Goto(r, "held")
    <3>1. HoldRow(r) \in Row /\ UserOf[r] \in Users
      BY <1>0, HoldArgs DEF HoldRow, HoldKey, StoreTypeOK, Row, IdemKeys
    <3>2. ledger' = Insert(ledger, UserOf[r], HoldRow(r))
      BY <2>1 DEF ApplyHold, HoldRow
    <3>. QED  BY <1>0, <1>1, <2>1, <3>1, <3>2, InsertGains DEF Places, Goto, PlaceHold
  <2>2. CASE UNCHANGED ledger
    BY <2>2
  <2>. QED  BY <1>1, <2>1, <2>2 DEF PlaceHold, storeVars
<1>2. ASSUME NEW r \in Requests, Gateway(r) PROVE ledger' = ledger \/ Places(r)
  <2>1. ~PlaceHold(r) => ledger' = ledger
    BY <1>2 DEF Gateway, CheckIdempotency, ReadCachedBalance, LoadBalance, StoreLoadedBalance,
                PublishBalance, LogUsage, CreateUsageLog, OpenSession, CreateMeteringSession,
                EmitMeter, CacheResponse, HandlerStops, storeVars
  <2>. QED  BY <1>1, <2>1
<1>3. ASSUME NEW i \in worker.batch, HandleMessage(i) PROVE ledger' = ledger \/ Settle(i)
  BY <1>3 DEF HandleMessage, SettleFails, WorkerDeletesSession, DeleteMeteringSession,
              WorkerReadsBalance, WorkerSetsBalance, RetryLater, PushDLQ, Ack, storeVars
<1>4. CASE SweeperStep
  BY <1>4 DEF SweeperStep, SweepList, SweepRead, SweepRelease, SweepDelete, DeleteMeteringSession,
              SweepCommits, storeVars
<1>5. ASSUME NEW u \in Users, NEW a \in DepositAmounts, NEW k \in DepositKeys, Deposit(u, a, k)
      PROVE  Deposits
  <2>. DEFINE row == [type |-> "deposit", amount |-> a, after |-> balance[u] + a,
                      ref |-> NoKey, key |-> <<"deposit", k>>]
  <2>1. a \in Int
    BY AmountsCoverPipeline, AmountsAreIntegers
  <2>2. row \in Row /\ row.type = "deposit"
    BY <1>0, <2>1 DEF StoreTypeOK, Row, IdemKeys
  <2>3. ledger' = Insert(ledger, u, row) /\ pc' = pc
    BY <1>5 DEF Deposit, DepositCredits, gatewayVars
  <2>. HIDE DEF row
  <2>. QED  BY <1>0, <2>2, <2>3, InsertGains DEF Deposits
<1>6. CASE ClaimBatch \/ ReadBatch \/ WorkerCrash \/ ReplayDLQ \/ ExpireResponse \/ UNCHANGED vars
  BY <1>6 DEF ClaimBatch, ReadBatch, Deliver, WorkerCrash, ReplayDLQ, ExpireResponse, vars, storeVars
<1>7. ASSUME NEW r \in Requests, Expire(r) PROVE ledger' = ledger
  BY <1>7 DEF Expire, SessionExpires
<1>. QED
  BY <1>2, <1>3, <1>4, <1>5, <1>6, <1>7 DEF Next, WorkerStep

(***************************************************************************)
(* What a step does to the rows: none disappears, and a hold row that      *)
(* appears is the one of a handler moving from "checked" to "held".        *)
(***************************************************************************)
RowsStep ==
    /\ \A r \in Requests : Held(r) => Held(r)'
    /\ \A r \in Requests : Settled(r) => Settled(r)'
    /\ \A u \in Users : \A row \in RowsIn(ledger', u) :
          row.type = "hold" =>
             \/ row \in RowsIn(ledger, u)
             \/ HoldRowOf(u, row) /\ pc[row.ref] = "checked" /\ pc'[row.ref] = "held"

(* Rows of S are gained; those that are holds are accounted for. *)
LEMMA GainsStep ==
    ASSUME NEW u \in Users, NEW S, Gains(u, S),
           \A row \in S : row.type = "hold" =>
               HoldRowOf(u, row) /\ pc[row.ref] = "checked" /\ pc'[row.ref] = "held"
    PROVE  RowsStep
<1>1. \A v \in Users : RowsIn(ledger, v) \subseteq RowsIn(ledger', v)
  BY DEF Gains
<1>2. \A r \in Requests : UserOf[r] \in Users
  BY HoldArgs
<1>3. \A r \in Requests : (Held(r) => Held(r)') /\ (Settled(r) => Settled(r)')
  BY <1>1, <1>2 DEF Held, Settled, HasRow, RowsFor
<1>4. \A v \in Users : \A row \in RowsIn(ledger', v) : row \in RowsIn(ledger, v) \/ (v = u /\ row \in S)
  BY DEF Gains
<1>. QED  BY <1>3, <1>4 DEF RowsStep

(* A settlement inserts captures and releases of its request only. *)
LEMMA SettlementRowKinds ==
    ASSUME NEW u, NEW r, NEW c, NEW l, NEW x, NEW row \in SettlementRows(u, r, c, l, x)
    PROVE  row.type \in Settling /\ row.ref = r
BY DEF SettlementRows, CaptureRow, ReleaseRow, Settling

(* Every step treats the rows so. *)
LEMMA StepRows == SettleInv /\ [Next]_vars => RowsStep
<1>. SUFFICES ASSUME SettleInv, [Next]_vars PROVE RowsStep
  OBVIOUS
<1>0. pc \in [Requests -> Labels]
  BY DEF SettleInv, PipeInv, PipeOK, GatewayTyped
<1>1. CASE ledger' = ledger
  BY <1>1 DEF RowsStep, Held, Settled, HasRow, RowsFor, RowsIn
<1>2. CASE Deposits
  BY <1>2, GainsStep DEF Deposits
<1>3. ASSUME NEW r \in Requests, Places(r) PROVE RowsStep
  <2>1. UserOf[r] \in Users /\ pc'[r] = "held"
    BY <1>0, <1>3, HoldArgs DEF Places
  <2>2. HoldRowOf(UserOf[r], HoldRow(r)) /\ HoldRow(r).ref = r
    BY DEF HoldRowOf, HoldRow
  <2>. QED  BY <1>3, <2>1, <2>2, GainsStep DEF Places
<1>4. ASSUME NEW i \in worker.batch, Settle(i) PROVE RowsStep
  BY <1>4, WorkerGains, SettlementRowKinds, GainsStep, HoldArgs DEF Settling
<1>5. CASE SweepCommits
  BY <1>5, SweeperGains, SettlementRowKinds, GainsStep, HoldArgs DEF Settling
<1>. QED  BY <1>1, <1>2, <1>3, <1>4, <1>5, LedgerSteps

-----------------------------------------------------------------------------
(* Only its own handler moves a request, one step along its path. *)
LEMMA HandlerMoves ==
    ASSUME pc \in [Requests -> Labels], [Next]_vars, NEW q \in Requests
    PROVE  pc'[q] = pc[q] \/ Gateway(q)
<1>1. CASE \E r \in Requests : Gateway(r)
  <2>1. PICK r \in Requests : Gateway(r)
    BY <1>1
  <2>2. \E label : pc' = [pc EXCEPT ![r] = label]
    BY <2>1 DEF Gateway, CheckIdempotency, ReadCachedBalance, LoadBalance, StoreLoadedBalance,
                PlaceHold, PublishBalance, LogUsage, OpenSession, EmitMeter, CacheResponse,
                HandlerStops, Goto
  <2>3. q # r => pc'[q] = pc[q]
    BY <2>2
  <2>. QED  BY <2>1, <2>3
<1>2. CASE ~(\E r \in Requests : Gateway(r))
  <2>1. pc' = pc
    BY <1>2 DEF Next, WorkerStep, HandleMessage, Settle, SettleFails, WorkerDeletesSession,
                WorkerReadsBalance, WorkerSetsBalance, RetryLater, PushDLQ, Ack, ClaimBatch,
                ReadBatch, Deliver, WorkerCrash, ReplayDLQ, ExpireResponse, Expire, SweeperStep,
                SweepList, SweepRead, SweepRelease, SweepDelete, Deposit, vars, gatewayVars
  <2>. QED  BY <2>1
<1>. QED  BY <1>1, <1>2

(* Where a handler may have come from. *)
LEMMA HandlerPath ==
    ASSUME pc \in [Requests -> Labels], NEW q \in Requests, Gateway(q)
    PROVE  /\ pc'[q] \in Early => pc[q] \in Early
           /\ pc'[q] = "replayed" => <<UserOf[q], KeyOf[q]>> \in responses
           /\ pc'[q] = "open" => OpenSession(q)
           /\ pc'[q] = "served" => pc[q] = "open" /\ KeyOf[q] # NoKey
           /\ pc'[q] = "done" => pc[q] \in {"open", "served"}
           /\ pc'[q] = "aborted" => pc[q] \in {"open", "served"} \/ "solvency" \in Faults
           /\ KeyOf[q] # NoKey /\ q \in Streaming /\ pc[q] \in {"new", "rejected"} =>
                pc'[q] = "rejected"
BY DEF Gateway, CheckIdempotency, ReadCachedBalance, LoadBalance, StoreLoadedBalance, Afford,
       PlaceHold, PublishBalance, LogUsage, OpenSession, EmitMeter, Answers, CacheResponse,
       HandlerStops, Goto, Early, Labels, Fault

(* A response is cached by a handler at "served", for its user and key. *)
LEMMA ResponsesFrom ==
    ASSUME [Next]_vars, NEW p \in responses', p \notin responses
    PROVE  \E r \in Requests : pc[r] = "served" /\ p = <<UserOf[r], KeyOf[r]>>
<1>1. CASE \E r \in Requests : Gateway(r)
  <2>1. PICK r \in Requests : Gateway(r)
    BY <1>1
  <2>2. CASE CacheResponse(r)
    BY <2>2 DEF CacheResponse
  <2>3. ~CacheResponse(r) => responses' = responses
    BY <2>1 DEF Gateway, CheckIdempotency, ReadCachedBalance, LoadBalance, StoreLoadedBalance,
                PlaceHold, PublishBalance, LogUsage, OpenSession, EmitMeter, HandlerStops
  <2>. QED  BY <2>2, <2>3
<1>2. CASE ~(\E r \in Requests : Gateway(r))
  <2>1. responses' \subseteq responses
    BY <1>2 DEF Next, WorkerStep, HandleMessage, Settle, SettleFails, WorkerDeletesSession,
                WorkerReadsBalance, WorkerSetsBalance, RetryLater, PushDLQ, Ack, ClaimBatch,
                ReadBatch, Deliver, WorkerCrash, ReplayDLQ, ExpireResponse, Expire, SweeperStep,
                SweepList, SweepRead, SweepRelease, SweepDelete, Deposit, vars, gatewayVars
  <2>. QED  BY <2>1
<1>. QED  BY <1>1, <1>2

-----------------------------------------------------------------------------
(* Client keys: who holds under a key, and whose responses are cached. *)

(* Some request of user u with key k holds credits. *)
PaidFor(u, k) == \E q \in Requests : UserOf[q] = u /\ KeyOf[q] = k /\ Held(q)

HoldRows ==
    \A u \in Users : \A row \in RowsIn(ledger, u) : row.type = "hold" => HoldRowOf(u, row)
EarlyUnheld == \A r \in Requests : pc[r] \in Early => ~Held(r)
KeyedStreamsRefused ==
    \A r \in Requests : KeyOf[r] # NoKey /\ r \in Streaming => pc[r] \in {"new", "rejected"}
ServedHeld == \A r \in Requests : pc[r] = "served" => Held(r)
ResponsesPaid == \A p \in responses : PaidFor(p[1], p[2])
ReplaysPaid == \A r \in Requests : pc[r] = "replayed" => PaidFor(UserOf[r], KeyOf[r])

KeyInv ==
    /\ HoldRows /\ EarlyUnheld /\ KeyedStreamsRefused
    /\ ServedHeld /\ ResponsesPaid /\ ReplaysPaid

(* A hold in the table is a hold of the request. *)
LEMMA HeldInHeld == ASSUME NEW r \in Requests, HeldIn(ledger, r) PROVE Held(r)
BY DEF HeldIn, Held, HasRow, RowsFor, RowsIn

(* Every step keeps what is known of keys, holds and cached responses. *)
LEMMA KeyStepInv == SettleInv /\ KeyInv /\ [Next]_vars => KeyInv'
<1>. SUFFICES ASSUME SettleInv, KeyInv, [Next]_vars PROVE KeyInv'
  OBVIOUS
<1>0. pc \in [Requests -> Labels] /\ RowsStep /\ GatewayHeld /\ responses \subseteq Users \X ClientKeys
  BY StepRows DEF SettleInv, PipeInv, PipeOK, GatewayTyped
<1>1. \A u, k : PaidFor(u, k) => PaidFor(u, k)'
  BY <1>0 DEF PaidFor, RowsStep
<1>2. HoldRows'
  BY <1>0 DEF KeyInv, HoldRows, RowsStep, HoldRowOf, HoldKey
<1>3. EarlyUnheld'
  <2>. SUFFICES ASSUME NEW q \in Requests, pc'[q] \in Early, Held(q)' PROVE FALSE
    BY DEF EarlyUnheld
  <2>1. pc[q] \in Early
    BY <1>0, HandlerMoves, HandlerPath
  <2>2. PICK row \in RowsIn(ledger', UserOf[q]) : row.ref = q /\ row.type = "hold"
    BY DEF Held, HasRow, RowsFor
  <2>3. row \notin RowsIn(ledger, UserOf[q])
    BY <2>1, <2>2 DEF KeyInv, EarlyUnheld, Held, HasRow, RowsFor
  <2>4. UserOf[q] \in Users
    BY HoldArgs
  <2>5. pc'[q] = "held"
    BY <1>0, <2>2, <2>3, <2>4 DEF RowsStep
  <2>. QED  BY <2>5 DEF Early
<1>4. KeyedStreamsRefused'
  <2>. SUFFICES ASSUME NEW q \in Requests, KeyOf[q] # NoKey, q \in Streaming
                PROVE  pc'[q] \in {"new", "rejected"}
    BY DEF KeyedStreamsRefused
  <2>1. pc[q] \in {"new", "rejected"}
    BY DEF KeyInv, KeyedStreamsRefused
  <2>. QED  BY <1>0, <2>1, HandlerMoves, HandlerPath
<1>5. ServedHeld'
  <2>. SUFFICES ASSUME NEW q \in Requests, pc'[q] = "served" PROVE Held(q)'
    BY DEF ServedHeld
  <2>1. pc[q] = "served" \/ pc[q] = "open"
    BY <1>0, HandlerMoves, HandlerPath
  <2>2. Held(q)
    BY <1>0, <2>1, HeldInHeld DEF KeyInv, ServedHeld, GatewayHeld
  <2>. QED  BY <1>0, <2>2 DEF RowsStep
<1>6. ResponsesPaid'
  <2>. SUFFICES ASSUME NEW p \in responses' PROVE PaidFor(p[1], p[2])'
    BY DEF ResponsesPaid
  <2>1. CASE p \in responses
    BY <1>1, <2>1 DEF KeyInv, ResponsesPaid
  <2>2. CASE p \notin responses
    <3>1. PICK r \in Requests : pc[r] = "served" /\ p = <<UserOf[r], KeyOf[r]>>
      BY <2>2, ResponsesFrom
    <3>2. PaidFor(UserOf[r], KeyOf[r])
      BY <3>1 DEF KeyInv, ServedHeld, PaidFor
    <3>. QED  BY <1>1, <3>1, <3>2
  <2>. QED  BY <2>1, <2>2
<1>7. ReplaysPaid'
  <2>. SUFFICES ASSUME NEW q \in Requests, pc'[q] = "replayed" PROVE PaidFor(UserOf[q], KeyOf[q])'
    BY DEF ReplaysPaid
  <2>1. pc[q] = "replayed" \/ <<UserOf[q], KeyOf[q]>> \in responses
    BY <1>0, HandlerMoves, HandlerPath
  <2>2. PaidFor(UserOf[q], KeyOf[q])
    BY <2>1 DEF KeyInv, ReplaysPaid, ResponsesPaid
  <2>. QED  BY <1>1, <2>2
<1>. QED  BY <1>2, <1>3, <1>4, <1>5, <1>6, <1>7 DEF KeyInv

-----------------------------------------------------------------------------
(* Events: the queues only grow, and only the worker acknowledges. *)

QueueGrows ==
    /\ \A i \in DOMAIN stream : i \in DOMAIN stream' /\ stream'[i].ev = stream[i].ev
    /\ \A i \in DOMAIN stream' : stream'[i].acked =>
          i \in DOMAIN stream /\ (stream[i].acked \/ (i \in worker.batch /\ Ack(i)))
    /\ \A j \in DOMAIN dlq : j \in DOMAIN dlq' /\ dlq'[j] = dlq[j]

(* Every step treats the queues so. *)
LEMMA StepQueues == SettleInv /\ [Next]_vars => QueueGrows
<1>. SUFFICES ASSUME SettleInv, [Next]_vars PROVE QueueGrows
  OBVIOUS
<1>0. /\ QueueTyped
      /\ DOMAIN stream = 1..Len(stream) /\ Len(stream) \in Nat
      /\ DOMAIN dlq = 1..Len(dlq) /\ Len(dlq) \in Nat
      /\ \A i \in DOMAIN stream : stream[i] \in Entries
  BY DEF SettleInv, PipeInv, PipeOK, QueueTyped
<1>1. CASE UNCHANGED <<stream, dlq>>
  BY <1>1 DEF QueueGrows
<1>2. ASSUME NEW r \in Requests, Gateway(r) PROVE QueueGrows
  <2>1. ASSUME NEW status \in Outcomes, NEW cost \in Costs, UNCHANGED dlq,
               stream' = Append(stream, NewEntry([req |-> r, cost |-> cost, status |-> status]))
        PROVE  QueueGrows
    <3>. DEFINE e == NewEntry([req |-> r, cost |-> cost, status |-> status])
    <3>1. e.acked = FALSE
      BY DEF NewEntry
    <3>. HIDE DEF e
    <3>2. /\ DOMAIN stream' = 1..(Len(stream) + 1)
          /\ \A i \in 1..Len(stream) : stream'[i] = stream[i]
          /\ stream'[Len(stream) + 1] = e
      BY <1>0, <2>1 DEF QueueTyped, e
    <3>3. \A i \in DOMAIN stream' : i \in DOMAIN stream \/ i = Len(stream) + 1
      BY <1>0, <3>2
    <3>4. DOMAIN stream \subseteq DOMAIN stream'
      BY <1>0, <3>2
    <3>. QED  BY <1>0, <2>1, <3>1, <3>2, <3>3, <3>4 DEF QueueGrows
  <2>2. CASE EmitMeter(r)
    BY <1>1, <2>1, <2>2 DEF EmitMeter
  <2>3. ~EmitMeter(r) => UNCHANGED <<stream, dlq>>
    BY <1>2 DEF Gateway, CheckIdempotency, ReadCachedBalance, LoadBalance, StoreLoadedBalance,
                PlaceHold, PublishBalance, LogUsage, OpenSession, CacheResponse, HandlerStops,
                queueVars
  <2>. QED  BY <1>1, <2>2, <2>3
<1>3. ASSUME NEW i \in worker.batch, HandleMessage(i) PROVE QueueGrows
  <2>0. i \in DOMAIN stream
    BY <1>0, EventArgs
  <2>1. CASE PushDLQ(i)
    <3>. DEFINE e == stream[i].ev
    <3>1. (dlq' = Append(dlq, e) \/ dlq' = dlq) /\ UNCHANGED stream
      BY <2>1 DEF PushDLQ
    <3>. HIDE DEF e
    <3>2. \A j \in DOMAIN dlq : j \in DOMAIN dlq' /\ dlq'[j] = dlq[j]
      BY <1>0, <3>1 DEF QueueTyped
    <3>. QED  BY <3>1, <3>2 DEF QueueGrows
  <2>2. CASE Ack(i)
    <3>1. stream' = [stream EXCEPT ![i].acked = TRUE] /\ UNCHANGED dlq
      BY <2>2 DEF Ack
    <3>2. /\ DOMAIN stream' = DOMAIN stream
          /\ \A j \in DOMAIN stream : stream'[j].ev = stream[j].ev /\ (j # i => stream'[j] = stream[j])
      BY <1>0, <2>0, <3>1 DEF Entries
    <3>. QED  BY <2>2, <3>1, <3>2 DEF QueueGrows
  <2>3. ~Ack(i) /\ ~PushDLQ(i) => UNCHANGED <<stream, dlq>>
    BY <1>3 DEF HandleMessage, Settle, SettleFails, WorkerDeletesSession, WorkerReadsBalance,
                WorkerSetsBalance, RetryLater, queueVars
  <2>. QED  BY <1>1, <2>1, <2>2, <2>3
<1>4. CASE ClaimBatch \/ ReadBatch
  <2>1. PICK ids : Deliver(ids)
    BY <1>4 DEF ClaimBatch, ReadBatch
  <2>2. /\ DOMAIN stream' = DOMAIN stream /\ UNCHANGED dlq
        /\ \A i \in DOMAIN stream : stream'[i].ev = stream[i].ev /\ stream'[i].acked = stream[i].acked
    BY <1>0, <2>1 DEF Deliver, Entries
  <2>. QED  BY <2>2 DEF QueueGrows
<1>5. CASE ReplayDLQ
  <2>. DEFINE new == [i \in DOMAIN dlq |-> NewEntry(dlq[i])]
  <2>1. new \in Seq(Entries) /\ Len(new) = Len(dlq)
    BY <1>0 DEF QueueTyped, NewEntry, Entries
  <2>2. \A i \in 1..Len(dlq) : new[i].acked = FALSE
    BY <1>0 DEF NewEntry
  <2>3. stream' = stream \o new /\ UNCHANGED dlq /\ stream \in Seq(Entries)
    BY <1>0, <1>5 DEF ReplayDLQ, QueueTyped
  <2>. HIDE DEF new
  <2>4. /\ stream' \in Seq(Entries) /\ Len(stream') = Len(stream) + Len(new)
        /\ \A i \in 1..(Len(stream) + Len(new)) :
              stream'[i] = IF i <= Len(stream) THEN stream[i] ELSE new[i - Len(stream)]
    <3>1. /\ stream \o new \in Seq(Entries) /\ Len(stream \o new) = Len(stream) + Len(new)
          /\ \A i \in 1..(Len(stream) + Len(new)) :
                (stream \o new)[i] = IF i <= Len(stream) THEN stream[i] ELSE new[i - Len(stream)]
      BY <2>1, <2>3, ConcatParts, Zenon
    <3>. QED  BY <2>3, <3>1, Zenon
  <2>5. DOMAIN stream' = 1..(Len(stream) + Len(dlq))
    BY <2>1, <2>4
  <2>6. \A i \in DOMAIN stream : i \in DOMAIN stream' /\ stream'[i] = stream[i]
    BY <1>0, <2>1, <2>4, <2>5
  <2>7. ASSUME NEW i \in DOMAIN stream', i \notin DOMAIN stream PROVE stream'[i].acked = FALSE
    <3>1. i - Len(stream) \in 1..Len(dlq) /\ ~(i <= Len(stream)) /\ i \in 1..(Len(stream) + Len(new))
      BY <1>0, <2>1, <2>5, <2>7
    <3>. QED  BY <2>2, <2>4, <3>1
  <2>. QED  BY <2>3, <2>6, <2>7 DEF QueueGrows
<1>6. CASE WorkerCrash \/ SweeperStep \/ ExpireResponse \/ UNCHANGED vars
  BY <1>1, <1>6 DEF WorkerCrash, SweeperStep, SweepList, SweepRead, SweepRelease, SweepDelete,
                    ExpireResponse, vars, queueVars
<1>7. ASSUME NEW r \in Requests, Expire(r) PROVE QueueGrows
  BY <1>1, <1>7 DEF Expire, queueVars
<1>8. ASSUME NEW u \in Users, NEW a \in DepositAmounts, NEW k \in DepositKeys, Deposit(u, a, k)
      PROVE  QueueGrows
  BY <1>1, <1>8 DEF Deposit, queueVars
<1>. QED
  BY <1>2, <1>3, <1>4, <1>5, <1>6, <1>7, <1>8 DEF Next, WorkerStep

-----------------------------------------------------------------------------
(* The worker: how far it is with the message in hand. *)

(* Nothing is left to settle: rows are written for positive amounts only. *)
Paid(r) == HoldOf[r] < 0 \/ Settled(r)

(* The event is settled, or kept in the DLQ, unless the push itself may fail. *)
Accounted(e) == Paid(e.req) \/ (\E j \in DOMAIN dlq : dlq[j] = e) \/ "push" \in Faults

WorkerIdle == worker.batch = {} => worker.step = "process"
WorkerPast ==
    \A i \in worker.batch : InHand(i) =>
        /\ worker.step \in {"settled", "cleared", "read"} => Paid(EventRequest(i))
        /\ worker.step = "ack" => Accounted(stream[i].ev)
AckedPast == \A i \in DOMAIN stream : stream[i].acked => Accounted(stream[i].ev)

WorkerInv == WorkerIdle /\ WorkerPast /\ AckedPast

(* Once the worker's transaction committed, the request is settled. *)
LEMMA SettleSettles ==
    ASSUME SettleInv, NEW i \in worker.batch, Settle(i)
    PROVE  Paid(EventRequest(i))'
<1>. DEFINE r == EventRequest(i)
            u == UserOf[r]
            c == EventCapture(i)
            l == EventRelease(i)
            S == SettlementRows(u, r, c, l, KeySuffix(r, KeyOf[r]))
<1>1. /\ r \in Requests /\ c \in Int /\ l \in Int /\ c + l = HoldOf[r] /\ HoldOf[r] \in Int \ {0}
      /\ Gains(u, S)
  BY WorkerGains
<1>2. HoldOf[r] > 0 => \E row \in S : row.type \in Settling /\ row.ref = r
  <2>. HIDE DEF r, u, c, l
  <2>1. HoldOf[r] > 0 => c > 0 \/ l > 0
    BY <1>1
  <2>2. c > 0 => \E row \in S : TRUE
    BY DEF SettlementRows
  <2>3. l > 0 => \E row \in S : TRUE
    BY DEF SettlementRows
  <2>. QED  BY <2>1, <2>2, <2>3, SettlementRowKinds
<1>3. u \in Users
  BY <1>1, HoldArgs
<1>4. stream' = stream
  BY DEF Settle, queueVars
<1>. HIDE DEF r, u, c, l, S
<1>5. HoldOf[r] > 0 => \E row \in RowsIn(ledger', u) : row.type \in Settling /\ row.ref = r
  BY <1>1, <1>2, <1>3 DEF Gains
<1>6. HoldOf[r] > 0 => Settled(EventRequest(i))'
  BY <1>4, <1>5 DEF r, u, Settled, HasRow, RowsFor, Settling, EventRequest
<1>7. EventRequest(i)' = EventRequest(i) /\ (HoldOf[r] < 0 \/ HoldOf[r] > 0)
  BY <1>1, <1>4 DEF EventRequest
<1>. QED  BY <1>6, <1>7 DEF Paid, r

(* The message in hand is the oldest of the batch: there is only one. *)
LEMMA OneInHand ==
    ASSUME QueueTyped, NEW i \in worker.batch, NEW j \in worker.batch, InHand(i), InHand(j)
    PROVE  i = j
<1>1. i \in Int /\ j \in Int
  BY DEF QueueTyped
<1>. QED  BY <1>1 DEF InHand

(* Every step keeps what is known of the worker and of acknowledged events. *)
LEMMA WorkerStepInv == SettleInv /\ WorkerInv /\ [Next]_vars => WorkerInv'
<1>. SUFFICES ASSUME SettleInv, WorkerInv, [Next]_vars PROVE WorkerInv'
  OBVIOUS
<1>0. QueueTyped /\ RowsStep /\ QueueGrows /\ WorkerIdle /\ WorkerPast /\ AckedPast
  BY StepRows, StepQueues DEF SettleInv, PipeInv, PipeOK, WorkerInv
<1>1. \A i \in DOMAIN stream : stream[i].ev.req \in Requests
  <2>1. \A i \in DOMAIN stream : stream[i] \in Entries
    BY <1>0 DEF QueueTyped
  <2>2. \A e \in Entries : e.ev.req \in Requests
    BY DEF Entries, Events
  <2>. QED  BY <2>1, <2>2
<1>2. ASSUME NEW i \in DOMAIN stream, Accounted(stream[i].ev) PROVE Accounted(stream[i].ev)'
  <2>1. ASSUME NEW e, e.req \in Requests, Accounted(e) PROVE Accounted(e)'
    BY <1>0, <2>1 DEF Accounted, Paid, RowsStep, QueueGrows
  <2>2. \A e : e = stream[i].ev => Accounted(e)'
    BY <1>1, <1>2, <2>1
  <2>3. stream'[i].ev = stream[i].ev
    BY <1>0 DEF QueueGrows
  <2>. QED  BY <2>2, <2>3 DEF Accounted, Paid
<1>3. AckedPast'
  <2>. SUFFICES ASSUME NEW i \in DOMAIN stream', stream'[i].acked PROVE Accounted(stream[i].ev)'
    BY DEF AckedPast
  <2>1. CASE i \in DOMAIN stream /\ stream[i].acked
    BY <1>0, <1>2, <2>1 DEF AckedPast
  <2>2. CASE i \in DOMAIN stream /\ i \in worker.batch /\ Ack(i)
    BY <1>0, <1>2, <2>2 DEF Ack, WorkerAt, WorkerPast
  <2>. QED  BY <1>0, <2>1, <2>2 DEF QueueGrows
<1>. SUFFICES WorkerIdle' /\ WorkerPast'
  BY <1>3 DEF WorkerInv
<1>4. worker.batch \subseteq DOMAIN stream
  BY <1>0 DEF QueueTyped
<1>5. ASSUME worker'.step \in {"process", "failed"}, worker'.batch = {} => worker'.step = "process"
      PROVE  WorkerIdle' /\ WorkerPast'
  BY <1>5 DEF WorkerIdle, WorkerPast
(* The message in hand stays, and what the new step claims of it holds. *)
<1>6. ASSUME NEW i \in worker.batch, InHand(i), worker'.batch = worker.batch,
             worker'.step \in {"settled", "cleared", "read"} => Paid(EventRequest(i))',
             worker'.step = "ack" => Accounted(stream[i].ev)'
      PROVE  WorkerIdle' /\ WorkerPast'
  <2>1. ASSUME NEW j \in worker'.batch, InHand(j)' PROVE j = i
    BY <1>0, <1>6, <2>1, OneInHand DEF InHand
  <2>2. stream'[i].ev = stream[i].ev
    BY <1>0, <1>4 DEF QueueGrows
  <2>. QED  BY <1>6, <2>1, <2>2 DEF WorkerIdle, WorkerPast
<1>7. ASSUME NEW i \in worker.batch PROVE Paid(EventRequest(i)) => Paid(EventRequest(i))'
  BY <1>0, <1>1, <1>4 DEF RowsStep, QueueGrows, EventRequest, Paid, Settled, HasRow, RowsFor
<1>8. CASE UNCHANGED worker
  <2>1. WorkerIdle'
    BY <1>0, <1>8 DEF WorkerIdle
  <2>2. ASSUME NEW i \in worker'.batch, InHand(i)'
        PROVE  /\ worker'.step \in {"settled", "cleared", "read"} => Paid(EventRequest(i))'
               /\ worker'.step = "ack" => Accounted(stream[i].ev)'
    <3>1. i \in worker.batch /\ InHand(i) /\ worker'.step = worker.step
      BY <1>8, <2>2 DEF InHand
    <3>2. worker.step = "ack" => Accounted(stream[i].ev)'
      BY <1>0, <1>2, <1>4, <3>1 DEF WorkerPast
    <3>. QED  BY <1>0, <1>7, <3>1, <3>2 DEF WorkerPast
  <2>. QED  BY <2>1, <2>2 DEF WorkerPast
<1>9. ASSUME NEW i \in worker.batch, HandleMessage(i) PROVE WorkerIdle' /\ WorkerPast'
  <2>0. InHand(i) /\ worker \in [batch : SUBSET DOMAIN stream, bal : Nat, step : WorkerSteps]
    BY <1>0, <1>9
       DEF HandleMessage, Settle, SettleFails, WorkerDeletesSession, WorkerReadsBalance,
           WorkerSetsBalance, RetryLater, PushDLQ, Ack, WorkerAt, QueueTyped
  <2>1. CASE Settle(i)
    <3>1. worker'.batch = worker.batch /\ worker'.step = "settled"
      BY <2>0, <2>1 DEF Settle, WorkerGoto
    <3>. QED  BY <1>6, <2>0, <2>1, <3>1, SettleSettles
  <2>2. CASE SettleFails(i)
    <3>1. worker'.batch = worker.batch /\ worker'.step = "failed" /\ worker.batch # {}
      BY <2>0, <2>2 DEF SettleFails, WorkerGoto
    <3>. QED  BY <1>5, <3>1
  <2>3. CASE WorkerDeletesSession(i) \/ WorkerReadsBalance(i)
    <3>1. /\ worker'.batch = worker.batch /\ worker'.step \in {"cleared", "read"}
          /\ worker.step \in {"settled", "cleared"}
      BY <2>0, <2>3 DEF WorkerDeletesSession, WorkerReadsBalance, WorkerGoto, WorkerAt
    <3>2. Paid(EventRequest(i))'
      BY <1>0, <1>7, <2>0, <3>1 DEF WorkerPast
    <3>. QED  BY <1>6, <2>0, <3>1, <3>2
  <2>4. CASE WorkerSetsBalance(i)
    <3>1. /\ worker'.batch = worker.batch /\ worker'.step = "ack" /\ worker.step = "read"
          /\ UNCHANGED stream
      BY <2>0, <2>4 DEF WorkerSetsBalance, WorkerAt, queueVars
    <3>2. Paid(EventRequest(i))'
      BY <1>0, <1>7, <2>0, <3>1 DEF WorkerPast
    <3>3. Accounted(stream[i].ev)'
      BY <3>1, <3>2 DEF Accounted, EventRequest
    <3>. QED  BY <1>6, <2>0, <3>1, <3>3
  <2>5. CASE RetryLater(i) \/ Ack(i)
    <3>1. worker'.step = "process"
      BY <2>5 DEF RetryLater, Ack, NextMessage, NoWork
    <3>. QED  BY <1>5, <3>1
  <2>6. CASE PushDLQ(i)
    <3>1. worker'.batch = worker.batch /\ worker'.step = "ack" /\ UNCHANGED stream
      BY <2>0, <2>6 DEF PushDLQ, WorkerGoto
    <3>2. Accounted(stream[i].ev)'
      <4>1. CASE dlq' = Append(dlq, stream[i].ev)
        <5>. DEFINE e == stream[i].ev
        <5>1. dlq \in Seq(Events) /\ dlq' = Append(dlq, e)
          BY <1>0, <4>1 DEF QueueTyped
        <5>. HIDE DEF e
        <5>2. Len(dlq) + 1 \in DOMAIN dlq' /\ dlq'[Len(dlq) + 1] = e
          BY <5>1
        <5>. QED  BY <3>1, <5>2 DEF Accounted, e
      <4>2. CASE "push" \in Faults
        BY <4>2 DEF Accounted
      <4>. QED  BY <2>6, <4>1, <4>2 DEF PushDLQ, Fault
    <3>. QED  BY <1>6, <2>0, <3>1, <3>2
  <2>. QED  BY <1>9, <2>1, <2>2, <2>3, <2>4, <2>5, <2>6 DEF HandleMessage
<1>10. CASE ClaimBatch \/ ReadBatch
  <2>1. PICK ids : worker' = [worker EXCEPT !.batch = ids]
    BY <1>10 DEF ClaimBatch, ReadBatch, Deliver
  <2>2. worker'.step = worker.step /\ worker.batch = {}
    BY <1>0, <1>10, <2>1 DEF ClaimBatch, ReadBatch, QueueTyped
  <2>. QED  BY <1>0, <1>5, <2>2 DEF WorkerIdle
<1>11. CASE WorkerCrash
  BY <1>5, <1>11 DEF WorkerCrash, NoWork
<1>12. ~(ClaimBatch \/ ReadBatch \/ WorkerCrash \/ \E i \in worker.batch : HandleMessage(i))
         => UNCHANGED worker
  BY DEF Next, WorkerStep, Gateway, CheckIdempotency, ReadCachedBalance, LoadBalance,
         StoreLoadedBalance, PlaceHold, PublishBalance, LogUsage, OpenSession, EmitMeter,
         CacheResponse, HandlerStops, SweeperStep, SweepList, SweepRead, SweepRelease, SweepDelete,
         ReplayDLQ, ExpireResponse, Expire, Deposit, vars
<1>. QED  BY <1>8, <1>9, <1>10, <1>11, <1>12

-----------------------------------------------------------------------------
(* Sessions: what holds of a request whose session was once opened. *)

(* Nothing is left to settle, or the sweeper has closed the log without a release. *)
Over(r) == Paid(r) \/ LostBySweep(r)
SessionOrSettled(r) == session[r].state # "none" \/ Over(r)

SessionAmounts ==
    \A r \in Requests : session[r].hold = IF session[r].state = "none" THEN 0 ELSE HoldOf[r]
SessionKept ==
    \A r \in Requests :
        \/ pc[r] \in {"open", "served", "done"}
        \/ pc[r] = "aborted" /\ "solvency" \notin Faults
        => SessionOrSettled(r)
SweepPast ==
    /\ \A r \in sweeper.todo : SessionOrSettled(r)
    /\ sweeper.step # "list" => sweeper.hold \in {0, HoldOf[sweeper.req]}
    /\ sweeper.step = "release" =>
          /\ usageLog[sweeper.req].status # "none"
          /\ sweeper.hold > 0 \/ "sweep" \in Faults \/ Over(sweeper.req)
    /\ sweeper.step = "delete" => Over(sweeper.req)

SessionInv == SessionAmounts /\ SessionKept /\ SweepPast

(* What a step does to a session; it is deleted only when its request is over. *)
SessionStep(r) ==
    \/ session'[r] = session[r]
    \/ OpenSession(r) /\ session'[r] = [state |-> "live", hold |-> HoldOf[r]]
    \/ /\ session[r].state = "live" /\ session'[r].state = "expired"
       /\ session'[r].hold = session[r].hold
    \/ session'[r] = NoSession /\ Over(r)

(* Every step treats a session so. *)
LEMMA StepSessions ==
    ASSUME SettleInv, WorkerInv, SessionInv, [Next]_vars, NEW q \in Requests
    PROVE  SessionStep(q)
<1>0. /\ session \in [Requests -> SessionRow] /\ QueueTyped /\ SweepArgs
      /\ WorkerPast /\ SweepPast
  BY DEF SettleInv, PipeInv, PipeOK, StoreInv, StoreTypeOK, WorkerInv, SessionInv
<1>1. CASE UNCHANGED session
  BY <1>1 DEF SessionStep
<1>2. ASSUME NEW r \in Requests, OpenSession(r) PROVE SessionStep(q)
  BY <1>0, <1>2 DEF OpenSession, CreateMeteringSession, SessionStep
<1>3. ASSUME NEW r \in Requests, Expire(r) PROVE SessionStep(q)
  BY <1>0, <1>3 DEF Expire, SessionExpires, SessionStep, SessionRow
<1>4. ASSUME NEW r \in Requests, DeleteMeteringSession(r), Over(r) PROVE SessionStep(q)
  BY <1>0, <1>4 DEF DeleteMeteringSession, SessionStep
<1>5. ASSUME NEW r \in Requests, Gateway(r) PROVE OpenSession(r) \/ UNCHANGED session
  BY <1>5 DEF Gateway, CheckIdempotency, ReadCachedBalance, LoadBalance, StoreLoadedBalance,
              PlaceHold, ApplyHold, PublishBalance, LogUsage, CreateUsageLog, EmitMeter,
              CacheResponse, HandlerStops, storeVars
<1>6. ASSUME NEW i \in worker.batch, HandleMessage(i) PROVE SessionStep(q)
  <2>1. CASE WorkerDeletesSession(i)
    <3>1. Over(EventRequest(i)) /\ EventRequest(i) \in Requests
      BY <1>0, <2>1, EventArgs DEF WorkerDeletesSession, WorkerAt, WorkerPast, Over
    <3>. QED  BY <1>1, <1>4, <2>1, <3>1 DEF WorkerDeletesSession, storeVars
  <2>2. ~WorkerDeletesSession(i) => UNCHANGED session
    BY <1>6 DEF HandleMessage, Settle, CaptureAndRelease, SettleFails, WorkerReadsBalance,
                WorkerSetsBalance, RetryLater, PushDLQ, Ack, storeVars
  <2>. QED  BY <1>1, <2>1, <2>2
<1>7. CASE SweeperStep
  <2>1. CASE SweepDelete
    <3>1. sweeper.req \in Requests /\ Over(sweeper.req)
      BY <1>0, <2>1 DEF SweepDelete, SweepArgs, SweepPast
    <3>. QED  BY <1>1, <1>4, <2>1, <3>1 DEF SweepDelete, storeVars
  <2>2. ~SweepDelete => UNCHANGED session
    BY <1>7 DEF SweeperStep, SweepList, SweepRead, SweepRelease, CaptureAndRelease, storeVars
  <2>. QED  BY <1>1, <2>1, <2>2
<1>8. CASE ClaimBatch \/ ReadBatch \/ WorkerCrash \/ ReplayDLQ \/ ExpireResponse \/ UNCHANGED vars
  BY <1>1, <1>8 DEF ClaimBatch, ReadBatch, Deliver, WorkerCrash, ReplayDLQ, ExpireResponse, vars,
                    storeVars
<1>9. ASSUME NEW u \in Users, NEW a \in DepositAmounts, NEW k \in DepositKeys, Deposit(u, a, k)
      PROVE  UNCHANGED session
  BY <1>9 DEF Deposit, DepositCredits
<1>. QED
  BY <1>1, <1>2, <1>3, <1>5, <1>6, <1>7, <1>8, <1>9 DEF Next, WorkerStep

(* Once the sweeper's transaction released something, the request is settled. *)
LEMMA SweepSettles ==
    ASSUME SettleInv, SweepCommits, sweeper.hold > 0
    PROVE  Settled(sweeper.req)'
<1>. DEFINE r == sweeper.req
            u == UserOf[r]
            S == SettlementRows(u, r, 0, sweeper.hold, r)
<1>1. r \in Requests /\ Gains(u, S) /\ u \in Users
  BY SweeperGains, HoldArgs
<1>2. \E row \in S : TRUE
  BY DEF SettlementRows
<1>3. \E row \in S : row.type \in Settling /\ row.ref = r
  BY <1>2, SettlementRowKinds
<1>4. sweeper'.req = sweeper.req
  <2>1. SweepTyped
    BY DEF SettleInv, PipeInv, PipeOK
  <2>. QED  BY <2>1 DEF SweepCommits, SweepTyped
<1>. HIDE DEF r, u, S
<1>5. \E row \in RowsIn(ledger', u) : row.type \in Settling /\ row.ref = r
  BY <1>1, <1>3 DEF Gains
<1>. QED  BY <1>4, <1>5 DEF r, u, Settled, HasRow, RowsFor, Settling

(***************************************************************************)
(* What a step does to a usage log: it is created once, and only the two   *)
(* transactions that settle overwrite it.                                  *)
(***************************************************************************)
LogStep(q) ==
    \/ usageLog'[q] = usageLog[q]
    \/ usageLog[q].status = "none"
    \/ \E i \in worker.batch : Settle(i) /\ EventRequest(i) = q /\ usageLog'[q].status # "none"
    \/ /\ SweepCommits /\ sweeper.req = q
       /\ usageLog'[q] = [status |-> "failed", captured |-> 0,
                           captureTxn |-> FALSE, releaseTxn |-> sweeper.hold > 0]

(* Every step treats a usage log so. *)
LEMMA StepLogs ==
    ASSUME SettleInv, [Next]_vars, NEW q \in Requests
    PROVE  LogStep(q)
<1>0. usageLog \in [Requests -> LogRow] /\ QueueTyped /\ SweepArgs
  BY DEF SettleInv, PipeInv, PipeOK, StoreInv, StoreTypeOK
<1>1. CASE UNCHANGED usageLog
  BY <1>1 DEF LogStep
<1>2. ASSUME NEW r \in Requests, LogUsage(r) PROVE LogStep(q)
  BY <1>0, <1>2 DEF LogUsage, CreateUsageLog, LogStep
<1>3. ASSUME NEW r \in Requests, Gateway(r) PROVE LogUsage(r) \/ UNCHANGED usageLog
  BY <1>3 DEF Gateway, CheckIdempotency, ReadCachedBalance, LoadBalance, StoreLoadedBalance,
              PlaceHold, ApplyHold, PublishBalance, OpenSession, CreateMeteringSession, EmitMeter,
              CacheResponse, HandlerStops, storeVars
<1>4. ASSUME NEW i \in worker.batch, Settle(i) PROVE LogStep(q)
  <2>1. stream[i].ev.status \in Statuses /\ EventRequest(i) \in Requests
    BY <1>0, EventArgs
  <2>2. stream[i].ev.status # "none"
    BY <2>1 DEF Statuses
  <2>3. CASE EventRequest(i) = q /\ usageLog[q].status # "none"
    <3>1. usageLog'[q].status = stream[i].ev.status
      BY <1>0, <1>4, <2>3 DEF Settle, CaptureAndRelease
    <3>. QED  BY <1>4, <2>2, <2>3, <3>1 DEF LogStep
  <2>4. CASE EventRequest(i) # q
    BY <1>0, <1>4, <2>4 DEF Settle, CaptureAndRelease, LogStep
  <2>. QED  BY <2>3, <2>4 DEF LogStep
<1>5. ASSUME NEW i \in worker.batch, HandleMessage(i) PROVE Settle(i) \/ UNCHANGED usageLog
  BY <1>5 DEF HandleMessage, SettleFails, WorkerDeletesSession, DeleteMeteringSession,
              WorkerReadsBalance, WorkerSetsBalance, RetryLater, PushDLQ, Ack, storeVars
<1>6. CASE SweepCommits
  <2>1. CASE sweeper.req = q /\ usageLog[q].status # "none"
    <3>1. usageLog'[q] = [status |-> "failed", captured |-> 0,
                          captureTxn |-> 0 > 0, releaseTxn |-> sweeper.hold > 0]
      BY <1>0, <1>6, <2>1 DEF SweepCommits, CaptureAndRelease
    <3>2. (0 > 0) = FALSE
      OBVIOUS
    <3>. QED  BY <1>6, <2>1, <3>1, <3>2 DEF LogStep
  <2>2. CASE sweeper.req # q
    BY <1>0, <1>6, <2>2 DEF SweepCommits, CaptureAndRelease, LogStep
  <2>. QED  BY <2>1, <2>2 DEF LogStep
<1>7. SweeperStep => SweepCommits \/ UNCHANGED usageLog
  BY DEF SweeperStep, SweepList, SweepRead, SweepRelease, SweepCommits, SweepDelete,
         DeleteMeteringSession, storeVars
<1>8. CASE ClaimBatch \/ ReadBatch \/ WorkerCrash \/ ReplayDLQ \/ ExpireResponse \/ UNCHANGED vars
  BY <1>1, <1>8 DEF ClaimBatch, ReadBatch, Deliver, WorkerCrash, ReplayDLQ, ExpireResponse, vars,
                    storeVars
<1>9. ASSUME NEW u \in Users, NEW a \in DepositAmounts, NEW k \in DepositKeys, Deposit(u, a, k)
      PROVE  UNCHANGED usageLog
  BY <1>9 DEF Deposit, DepositCredits
<1>10. ASSUME NEW r \in Requests, Expire(r) PROVE UNCHANGED usageLog
  BY <1>10 DEF Expire, SessionExpires
<1>. QED
  BY <1>1, <1>2, <1>3, <1>4, <1>5, <1>6, <1>7, <1>8, <1>9, <1>10 DEF Next, WorkerStep

(* A release of nothing closes a log without a transaction. *)
LEMMA EmptyRelease ==
    ASSUME NEW q \in Requests, "sweep" \in Faults, ~(sweeper.hold > 0),
           usageLog'[q] = [status |-> "failed", captured |-> 0,
                            captureTxn |-> FALSE, releaseTxn |-> sweeper.hold > 0]
    PROVE  LostBySweep(q)'
<1>1. /\ usageLog'[q].status = "failed"
      /\ ~usageLog'[q].captureTxn
      /\ usageLog'[q].releaseTxn = (sweeper.hold > 0)
  OBVIOUS
<1>2. ~usageLog'[q].releaseTxn
  BY <1>1, Zenon
<1>. QED  BY <1>1, <1>2, Zenon DEF LostBySweep, ClosedUnreleased

(***************************************************************************)
(* What is over stays over: a log the sweeper closed without a release is  *)
(* closed again in the same way, or its request is settled after all.      *)
(***************************************************************************)
LEMMA OverStays ==
    ASSUME SettleInv, [Next]_vars, NEW q \in Requests, Over(q)
    PROVE  Over(q)'
<1>1. RowsStep /\ LogStep(q)
  BY StepRows, StepLogs
<1>2. CASE Paid(q)
  BY <1>1, <1>2 DEF Over, Paid, RowsStep
<1>3. CASE LostBySweep(q)
  <2>1. CASE usageLog'[q] = usageLog[q]
    BY <1>3, <2>1 DEF Over, LostBySweep, ClosedUnreleased
  <2>2. ASSUME NEW i \in worker.batch, Settle(i), EventRequest(i) = q PROVE Over(q)'
    <3>1. Paid(EventRequest(i))'
      BY <2>2, SettleSettles
    <3>2. EventRequest(i)' = q
      BY <2>2 DEF Settle, queueVars, EventRequest
    <3>. QED  BY <3>1, <3>2 DEF Over, Paid, Settled, HasRow, RowsFor
  <2>3. CASE SweepCommits /\ sweeper.req = q /\ sweeper.hold > 0
    <3>1. Settled(sweeper.req)' /\ sweeper'.req = q
      <4>1. SweepTyped
        BY DEF SettleInv, PipeInv, PipeOK
      <4>. QED  BY <2>3, <4>1, SweepSettles DEF SweepCommits, SweepTyped
    <3>. QED  BY <3>1 DEF Over, Paid, Settled, HasRow, RowsFor
  <2>4. CASE /\ ~(sweeper.hold > 0)
             /\ usageLog'[q] = [status |-> "failed", captured |-> 0,
                                 captureTxn |-> FALSE, releaseTxn |-> sweeper.hold > 0]
    <3>1. "sweep" \in Faults
      BY <1>3 DEF LostBySweep
    <3>2. LostBySweep(q)'
      BY <2>4, <3>1, EmptyRelease
    <3>. QED  BY <3>2 DEF Over
  <2>5. usageLog[q].status # "none"
    BY <1>3 DEF LostBySweep, ClosedUnreleased
  <2>. QED  BY <1>1, <2>1, <2>2, <2>3, <2>4, <2>5 DEF LogStep
<1>. QED  BY <1>2, <1>3 DEF Over

(* A usage log, once created, stays. *)
LEMMA LogStays ==
    ASSUME SettleInv, [Next]_vars, NEW q \in Requests, usageLog[q].status # "none"
    PROVE  usageLog'[q].status # "none"
BY StepLogs DEF LogStep

(* Every step keeps what is known of sessions and of the sweeper. *)
LEMMA SessionStepInv == SettleInv /\ WorkerInv /\ SessionInv /\ [Next]_vars => SessionInv'
<1>. SUFFICES ASSUME SettleInv, WorkerInv, SessionInv, [Next]_vars PROVE SessionInv'
  OBVIOUS
<1>0. /\ pc \in [Requests -> Labels] /\ session \in [Requests -> SessionRow] /\ RowsStep
      /\ usageLog \in [Requests -> LogRow]
      /\ SessionAmounts /\ SessionKept /\ SweepPast /\ SweepTyped /\ SweepArgs
  BY StepRows
     DEF SettleInv, PipeInv, PipeOK, GatewayTyped, StoreInv, StoreTypeOK, SessionInv
<1>1. \A q \in Requests : SessionStep(q)
  BY StepSessions
<1>2. SessionAmounts'
  <2>. SUFFICES ASSUME NEW q \in Requests
                PROVE  session'[q].hold = IF session'[q].state = "none" THEN 0 ELSE HoldOf[q]
    BY DEF SessionAmounts
  <2>1. session[q].hold = IF session[q].state = "none" THEN 0 ELSE HoldOf[q]
    BY <1>0 DEF SessionAmounts
  <2>2. CASE session'[q] = session[q]
    BY <2>1, <2>2
  <2>3. CASE session'[q] = [state |-> "live", hold |-> HoldOf[q]]
    BY <2>3
  <2>4. CASE session[q].state = "live" /\ session'[q].state = "expired" /\ session'[q].hold = session[q].hold
    BY <2>1, <2>4
  <2>5. CASE session'[q] = NoSession
    BY <2>5 DEF NoSession
  <2>. QED  BY <1>1, <2>2, <2>3, <2>4, <2>5 DEF SessionStep
<1>3. ASSUME NEW q \in Requests, SessionOrSettled(q) PROVE SessionOrSettled(q)'
  <2>1. CASE Over(q)
    BY <2>1, OverStays DEF SessionOrSettled
  <2>2. CASE session[q].state # "none" /\ ~Over(q)
    <3>1. session'[q].state # "none"
      <4>1. CASE session'[q] = [state |-> "live", hold |-> HoldOf[q]]
        BY <4>1
      <4>2. CASE session'[q] = session[q] \/ session'[q].state = "expired"
        BY <2>2, <4>2
      <4>. QED  BY <1>1, <2>2, <4>1, <4>2 DEF SessionStep
    <3>. QED  BY <3>1 DEF SessionOrSettled
  <2>. QED  BY <1>3, <2>1, <2>2 DEF SessionOrSettled
<1>4. SessionKept'
  <2>. SUFFICES ASSUME NEW q \in Requests,
                       \/ pc'[q] \in {"open", "served", "done"}
                       \/ pc'[q] = "aborted" /\ "solvency" \notin Faults
                PROVE  SessionOrSettled(q)'
    BY DEF SessionKept
  <2>1. CASE OpenSession(q)
    <3>1. session'[q].state = "live"
      BY <1>0, <2>1 DEF OpenSession, CreateMeteringSession
    <3>. QED  BY <3>1 DEF SessionOrSettled
  <2>2. CASE ~OpenSession(q)
    <3>1. \/ pc[q] \in {"open", "served", "done"}
          \/ pc[q] = "aborted" /\ "solvency" \notin Faults
      BY <1>0, <2>2, HandlerMoves, HandlerPath
    <3>. QED  BY <1>0, <1>3, <3>1 DEF SessionKept
  <2>. QED  BY <2>1, <2>2
<1>5. SweepPast'
  <2>1. \A r \in sweeper.todo : r \in Requests /\ SessionOrSettled(r)'
    BY <1>0, <1>3 DEF SweepPast, SweepTyped
  <2>2. ASSUME UNCHANGED sweeper PROVE SweepPast'
    <3>1. /\ Over(sweeper.req) /\ sweeper.step # "list" => Over(sweeper.req)'
          /\ sweeper.step = "release" => usageLog'[sweeper.req].status # "none"
      <4>1. \A q \in Requests : Over(q) => Over(q)'
        BY OverStays
      <4>2. \A q \in Requests : q = sweeper.req /\ Over(q)' => Over(sweeper.req)'
        BY <2>2 DEF Over, Paid, Settled, HasRow, RowsFor, LostBySweep, ClosedUnreleased
      <4>. QED  BY <1>0, <2>2, <4>1, <4>2, LogStays DEF SweepArgs, SweepPast
    <3>. QED  BY <1>0, <2>1, <2>2, <3>1 DEF SweepPast
  <2>3. CASE SweepNext \/ sweeper' = NoSweep
    <3>1. sweeper'.todo \subseteq sweeper.todo /\ sweeper'.step = "list"
      BY <2>3 DEF SweepNext, NoSweep
    <3>. QED  BY <2>1, <3>1 DEF SweepPast
  <2>4. CASE SweepList
    <3>1. PICK ids \in SUBSET Expired : sweeper' = [sweeper EXCEPT !.todo = ids]
      BY <2>4 DEF SweepList
    <3>2. \A r \in ids : r \in Requests /\ SessionOrSettled(r)
      BY DEF Expired, SessionOrSettled
    <3>3. sweeper'.todo = ids /\ sweeper'.step = "list"
      BY <1>0, <2>4, <3>1 DEF SweepTyped, SweepList
    <3>. QED  BY <1>3, <3>2, <3>3 DEF SweepPast
  <2>5. CASE SweepRead
    <3>1. ASSUME NEW r \in sweeper.todo, NEW h, usageLog[r].status # "none",
                 h = session[r].hold \/ (h = 0 /\ "sweep" \in Faults),
                 sweeper' = [sweeper EXCEPT !.step = "release", !.req = r, !.hold = h]
          PROVE  SweepPast'
      <4>1. /\ sweeper'.todo = sweeper.todo /\ sweeper'.req = r /\ sweeper'.step = "release"
            /\ sweeper'.hold = h
        BY <1>0, <3>1 DEF SweepTyped
      <4>2. r \in Requests /\ SessionOrSettled(r) /\ HoldOf[r] \in Int \ {0}
        BY <1>0, RequestsWellFormed DEF SweepTyped, SweepPast
      <4>3. h \in {0, HoldOf[r]} /\ (h > 0 \/ "sweep" \in Faults \/ Over(r))
        BY <1>0, <3>1, <4>2 DEF SessionAmounts, SessionOrSettled, Over, Paid
      <4>4. Over(r) => Over(r)'
        BY <4>2, OverStays
      <4>5. Over(r)' => Over(sweeper.req)'
        BY <4>1 DEF Over, Paid, Settled, HasRow, RowsFor, LostBySweep, ClosedUnreleased
      <4>6. usageLog'[r].status # "none"
        BY <3>1, <4>2, LogStays
      <4>. QED  BY <2>1, <4>1, <4>3, <4>4, <4>5, <4>6 DEF SweepPast
    <3>2. ASSUME NEW r \in sweeper.todo, sweeper' = [sweeper EXCEPT !.todo = @ \ {r}],
                 sweeper.step = "list"
          PROVE  SweepPast'
      <4>1. sweeper'.todo \subseteq sweeper.todo /\ sweeper'.step = "list"
        BY <1>0, <3>2 DEF SweepTyped
      <4>. QED  BY <2>1, <4>1 DEF SweepPast
    <3>. QED  BY <2>5, <3>1, <3>2 DEF SweepRead, Fault
  <2>6. CASE SweepCommits
    <3>1. /\ sweeper'.todo = sweeper.todo /\ sweeper'.req = sweeper.req
          /\ sweeper'.hold = sweeper.hold /\ sweeper'.step = "delete" /\ sweeper.step = "release"
      BY <1>0, <2>6 DEF SweepTyped, SweepCommits, SweepRelease
    <3>2. /\ sweeper.req \in Requests /\ usageLog[sweeper.req].status # "none"
          /\ sweeper.hold > 0 \/ "sweep" \in Faults \/ Over(sweeper.req)
      BY <1>0, <3>1 DEF SweepArgs, SweepPast
    <3>3. ASSUME Over(sweeper.req) PROVE Over(sweeper.req)'
      <4>1. \A q \in Requests : Over(q) => Over(q)'
        BY OverStays
      <4>2. \A q \in Requests : q = sweeper.req /\ Over(q)' => Over(sweeper.req)'
        BY <3>1 DEF Over, Paid, Settled, HasRow, RowsFor, LostBySweep, ClosedUnreleased
      <4>. QED  BY <3>2, <3>3, <4>1, <4>2
    <3>5. ASSUME sweeper.hold > 0 PROVE Over(sweeper.req)'
      BY <2>6, <3>5, SweepSettles DEF Over, Paid
    <3>6. ASSUME "sweep" \in Faults, ~(sweeper.hold > 0) PROVE Over(sweeper.req)'
      <4>1. usageLog'[sweeper.req] = [status |-> "failed", captured |-> 0,
                                      captureTxn |-> 0 > 0, releaseTxn |-> sweeper.hold > 0]
        BY <1>0, <2>6, <3>2 DEF SweepCommits, CaptureAndRelease
      <4>2. (0 > 0) = FALSE
        OBVIOUS
      <4>3. \A q \in Requests : q = sweeper.req => LostBySweep(q)'
        BY <3>6, <4>1, <4>2, EmptyRelease
      <4>4. \A q \in Requests : q = sweeper.req /\ LostBySweep(q)' => Over(sweeper.req)'
        BY <3>1 DEF Over, LostBySweep, ClosedUnreleased
      <4>. QED  BY <3>2, <4>3, <4>4
    <3>4. Over(sweeper.req)'
      BY <3>2, <3>3, <3>5, <3>6
    <3>. QED  BY <1>0, <2>1, <3>1, <3>4 DEF SweepPast
  <2>7. SweeperStep => SweepList \/ SweepRead \/ SweepCommits \/ SweepNext
    BY DEF SweeperStep, SweepRelease, SweepCommits, SweepSkip, SweepDelete
  <2>8. ~SweeperStep => UNCHANGED sweeper \/ sweeper' = NoSweep
    BY DEF Next, Gateway, CheckIdempotency, ReadCachedBalance, LoadBalance, StoreLoadedBalance,
           PlaceHold, PublishBalance, LogUsage, OpenSession, EmitMeter, CacheResponse, HandlerStops,
           WorkerStep, HandleMessage, Settle, SettleFails, WorkerDeletesSession, WorkerReadsBalance,
           WorkerSetsBalance, RetryLater, PushDLQ, Ack, ClaimBatch, ReadBatch, Deliver, WorkerCrash,
           ReplayDLQ, ExpireResponse, Expire, Deposit, vars
  <2>. QED  BY <2>2, <2>3, <2>4, <2>5, <2>6, <2>7, <2>8
<1>. QED  BY <1>2, <1>4, <1>5 DEF SessionInv

-----------------------------------------------------------------------------
ContractInv == SettleInv /\ KeyInv /\ WorkerInv /\ SessionInv

(* Initially nothing is held, cached, acknowledged or in hand. *)
LEMMA ContractInitInv == Init => ContractInv
<1>. SUFFICES ASSUME Init PROVE ContractInv
  OBVIOUS
<1>1. SettleInv
  BY SettleInitInv
<1>2. \A r \in Requests : ~Held(r) /\ pc[r] = "new" /\ session[r] = NoSession
  BY HoldArgs DEF Init, StoreInit, Held, HasRow, RowsFor, RowsIn
<1>3. HoldRows
  BY DEF Init, StoreInit, HoldRows, RowsIn
<1>4. KeyInv
  BY <1>2, <1>3 DEF Init, KeyInv, EarlyUnheld, KeyedStreamsRefused, ServedHeld, ResponsesPaid, ReplaysPaid
<1>5. WorkerInv
  BY DEF Init, WorkerInv, WorkerIdle, WorkerPast, AckedPast, NoWork
<1>6. SessionInv
  BY <1>2 DEF Init, SessionInv, SessionAmounts, SessionKept, SweepPast, NoSession, NoSweep
<1>. QED  BY <1>1, <1>4, <1>5, <1>6 DEF ContractInv

(* ContractInv holds in every reachable state. *)
LEMMA ContractInvariant == Spec => []ContractInv
<1>1. ContractInv /\ [Next]_vars => ContractInv'
  BY SettleStepInv, KeyStepInv, WorkerStepInv, SessionStepInv DEF ContractInv
<1>. QED  BY <1>1, ContractInitInv, PTL DEF Spec

(***************************************************************************)
(* Retries of a client under one Idempotency-Key hold credits once: every  *)
(* hold row carries its request's key, the client's when it sent one, and  *)
(* the UNIQUE constraint spans all users.                                  *)
(***************************************************************************)
THEOREM RetriesHoldOnce == Spec => []OneHoldPerClientKey
<1>1. ContractInv => OneHoldPerClientKey
  <2>. SUFFICES ASSUME ContractInv, NEW r \in Requests, NEW q \in Requests,
                       KeyOf[r] # NoKey, KeyOf[r] = KeyOf[q], Held(r), Held(q)
                PROVE  r = q
    BY DEF OneHoldPerClientKey
  <2>. DEFINE u == UserOf[r]
              v == UserOf[q]
  <2>0. u \in Users /\ v \in Users
    BY HoldArgs
  <2>1. PICK i \in 1..Len(ledger[u]) : ledger[u][i].ref = r /\ ledger[u][i].type = "hold"
    BY DEF Held, HasRow, RowsFor, RowsIn
  <2>2. PICK j \in 1..Len(ledger[v]) : ledger[v][j].ref = q /\ ledger[v][j].type = "hold"
    BY DEF Held, HasRow, RowsFor, RowsIn
  <2>3. ledger[u][i] \in RowsIn(ledger, u) /\ ledger[v][j] \in RowsIn(ledger, v)
    BY DEF RowsIn
  <2>4. ledger[u][i].key = HoldKey(r) /\ ledger[v][j].key = HoldKey(q)
    BY <2>0, <2>1, <2>2, <2>3 DEF ContractInv, KeyInv, HoldRows, HoldRowOf
  <2>5. HoldKey(r) = HoldKey(q)
    BY DEF HoldKey, KeySuffix
  <2>6. KeysUnique
    BY DEF ContractInv, SettleInv, PipeInv, StoreInv
  <2>7. u = v /\ i = j
    BY <2>0, <2>4, <2>5, <2>6 DEF KeysUnique, UniqueKeys
  <2>. QED  BY <2>1, <2>2, <2>7
<1>. QED  BY <1>1, ContractInvariant, PTL

(***************************************************************************)
(* A replayed response was paid for by another request of the same user    *)
(* and key, although cached responses expire and handlers stop anywhere:   *)
(* only a handler at "served" writes the cache, and it has its hold.       *)
(***************************************************************************)
THEOREM ReplaysWerePaid == Spec => []ReplayWasHeld
<1>1. ContractInv => ReplayWasHeld
  BY DEF ContractInv, KeyInv, EarlyUnheld, ReplaysPaid, PaidFor, ReplayWasHeld, Early
<1>. QED  BY <1>1, ContractInvariant, PTL

(***************************************************************************)
(* As long as the XADD to meter:dlq works, an acknowledged event belongs   *)
(* to a settled request or has a copy in the DLQ: the worker reaches XACK  *)
(* only behind its transaction or behind the push.                         *)
(***************************************************************************)
THEOREM EventsAccounted == "push" \notin Faults => (Spec => []AckedEventAccounted)
<1>. SUFFICES ASSUME "push" \notin Faults PROVE Spec => []AckedEventAccounted
  OBVIOUS
<1>1. ContractInv => AckedEventAccounted
  <2>. SUFFICES ASSUME ContractInv, NEW i \in DOMAIN stream, stream[i].acked,
                       HoldOf[stream[i].ev.req] > 0
                PROVE  Settled(stream[i].ev.req) \/ \E j \in DOMAIN dlq : dlq[j] = stream[i].ev
    BY DEF AckedEventAccounted
  <2>1. Accounted(stream[i].ev)
    BY DEF ContractInv, WorkerInv, AckedPast
  <2>2. stream[i].ev.req \in Requests
    <3>1. stream[i] \in Entries
      BY DEF ContractInv, SettleInv, PipeInv, PipeOK, QueueTyped
    <3>2. \A e \in Entries : e.ev.req \in Requests
      BY DEF Entries, Events
    <3>. QED  BY <3>1, <3>2
  <2>3. ~(HoldOf[stream[i].ev.req] < 0)
    BY <2>2, HoldArgs
  <2>. QED  BY <2>1, <2>3 DEF Accounted, Paid
<1>. QED  BY <1>1, ContractInvariant, PTL

(***************************************************************************)
(* As long as no handler ends between ApplyHold and its session, a hold    *)
(* that is not settled has a session, or a handler about to open one, or   *)
(* was lost by a sweep whose read of the session failed, and then its log  *)
(* says so.  Without sweep faults a session is deleted only behind a       *)
(* settlement, although the sweeper may read one that is just being        *)
(* deleted by the worker.                                                  *)
(***************************************************************************)
THEOREM HoldsNotStranded == "solvency" \notin Faults => (Spec => []HoldNeverStranded)
<1>. SUFFICES ASSUME "solvency" \notin Faults PROVE Spec => []HoldNeverStranded
  OBVIOUS
<1>1. ContractInv => HoldNeverStranded
  <2>. SUFFICES ASSUME ContractInv, NEW r \in Requests, HoldOf[r] > 0, Held(r), ~Settled(r)
                PROVE  \/ session[r].state # "none"
                       \/ pc[r] \in {"held", "published", "logged"}
                       \/ LostBySweep(r)
    BY DEF HoldNeverStranded
  <2>1. pc[r] \in Labels \ Early
    BY DEF ContractInv, SettleInv, PipeInv, PipeOK, GatewayTyped, KeyInv, EarlyUnheld
  <2>2. ~Paid(r)
    BY HoldArgs DEF Paid
  <2>. QED
    BY <2>1, <2>2 DEF ContractInv, SessionInv, SessionKept, SessionOrSettled, Over, Labels, Early
<1>. QED  BY <1>1, ContractInvariant, PTL

-----------------------------------------------------------------------------
(***************************************************************************)
(* The refinement of HoldLifecycle.  Two conditions on the requests make   *)
(* it hold: none is settled under a client's key (a keyed request streams  *)
(* and is refused), and each costs less than its hold.  Then every         *)
(* settlement inserts the release row <<"release", request>>, and the      *)
(* UNIQUE constraint on its key lets only one commit.                      *)
(***************************************************************************)
SettledUnderOwnId == \A r \in Requests : KeyOf[r] = NoKey \/ r \in Streaming
CostsBelowHold == \A r \in Requests : \A c \in Costs : c < HoldOf[r]

SettledReleased == \A r \in Requests : Settled(r) => Used(<<"release", r>>)

(* The rows of one type of a request, and the sum of their amounts. *)
RowsOf(r, type) == {row \in RowsFor(r) : row.ref = r /\ row.type = type}
SumOf(rows) == MapThenSumSet(LAMBDA row : row.amount, rows)

(***************************************************************************)
(* The sums are over at most one row: for the empty set and for singletons *)
(* the function that MapThenFoldSet chooses can be written down.           *)
(***************************************************************************)
LEMMA SumEmpty == SumOf({}) = 0
<1>. DEFINE body(f) == [s \in SUBSET {} |->
                          IF s = {} THEN 0
                          ELSE LET x == CHOOSE x \in s : TRUE IN x.amount + f[s \ {x}]]
            iter == CHOOSE f : f = body(f)
<1>1. SumOf({}) = iter[{}]
  BY DEF SumOf, MapThenSumSet, MapThenFoldSet
<1>2. [s \in SUBSET {} |-> 0] = body([s \in SUBSET {} |-> 0])
  OBVIOUS
<1>3. iter = body(iter)
  BY <1>2
<1>. HIDE DEF iter
<1>. QED  BY <1>1, <1>3

(* The sum over one row is its amount. *)
LEMMA SumSingle == ASSUME NEW row, row.amount \in Int PROVE SumOf({row}) = row.amount
<1>. DEFINE body(f) == [s \in SUBSET {row} |->
                          IF s = {} THEN 0
                          ELSE LET x == CHOOSE x \in s : TRUE IN x.amount + f[s \ {x}]]
            iter == CHOOSE f : f = body(f)
            total == [s \in SUBSET {row} |-> IF s = {} THEN 0 ELSE row.amount + 0]
<1>1. SumOf({row}) = iter[{row}]
  BY DEF SumOf, MapThenSumSet, MapThenFoldSet
<1>2. total = body(total)
  <2>1. ASSUME NEW s \in SUBSET {row} PROVE total[s] = body(total)[s]
    <3>1. s = {} \/ s = {row}
      OBVIOUS
    <3>2. CASE s = {row}
      <4>1. (CHOOSE x \in s : TRUE) = row /\ s \ {row} = {}
        BY <3>2
      <4>. QED  BY <3>2, <4>1
    <3>. QED  BY <3>1, <3>2
  <2>. QED  BY <2>1
<1>3. iter = body(iter)
  BY <1>2
<1>4. (CHOOSE x \in {row} : TRUE) = row /\ {row} \ {row} = {}
  OBVIOUS
<1>. HIDE DEF iter
<1>5. iter[{}] = 0
  BY <1>3
<1>6. iter[{row}] = row.amount + iter[{row} \ {row}]
  BY <1>3, <1>4
<1>7. iter[{row}] = row.amount + 0
  BY <1>4, <1>5, <1>6
<1>. QED  BY <1>1, <1>7

(* The mapping reads a request's rows only. *)
LEMMA MappedByRows ==
    ASSUME NEW r
    PROVE  /\ Captured(r) = -SumOf(RowsOf(r, "capture"))
           /\ Released(r) = SumOf(RowsOf(r, "release"))
           /\ Held(r) <=> RowsOf(r, "hold") # {}
           /\ Settled(r) <=> RowsOf(r, "capture") # {} \/ RowsOf(r, "release") # {}
<1>1. Captured(r) = -SumOf(RowsOf(r, "capture"))
  BY DEF Captured, Total, SumOf, RowsOf, MapThenSumSet, MapThenFoldSet
<1>2. Released(r) = SumOf(RowsOf(r, "release"))
  BY DEF Released, Total, SumOf, RowsOf, MapThenSumSet, MapThenFoldSet
<1>3. /\ Held(r) <=> RowsOf(r, "hold") # {}
      /\ Settled(r) <=> RowsOf(r, "capture") # {} \/ RowsOf(r, "release") # {}
  BY DEF Held, Settled, HasRow, RowsOf
<1>. QED  BY <1>1, <1>2, <1>3

(* The same of the next state. *)
LEMMA MappedByRowsNext ==
    ASSUME NEW r
    PROVE  /\ Captured(r)' = -SumOf(RowsOf(r, "capture")')
           /\ Released(r)' = SumOf(RowsOf(r, "release")')
           /\ Held(r)' <=> RowsOf(r, "hold")' # {}
           /\ Settled(r)' <=> RowsOf(r, "capture")' # {} \/ RowsOf(r, "release")' # {}
<1>1. Captured(r)' = -SumOf(RowsOf(r, "capture")')
  BY DEF Captured, Total, SumOf, RowsOf, MapThenSumSet, MapThenFoldSet
<1>2. Released(r)' = SumOf(RowsOf(r, "release")')
  BY DEF Released, Total, SumOf, RowsOf, MapThenSumSet, MapThenFoldSet
<1>3. /\ Held(r)' <=> RowsOf(r, "hold")' # {}
      /\ Settled(r)' <=> RowsOf(r, "capture")' # {} \/ RowsOf(r, "release")' # {}
  BY DEF Held, Settled, HasRow, RowsOf
<1>. QED  BY <1>1, <1>2, <1>3

(* Where a request's hold stands, as HoldLifecycle sees it. *)
Phase(r) == IF Settled(r) THEN "settled" ELSE IF Held(r) THEN "held" ELSE "none"
Unmoved(r) ==
    Phase(r)' = Phase(r) /\ Captured(r)' = Captured(r) /\ Released(r)' = Released(r)

(* A request all of whose rows stay is mapped to the same values. *)
LEMMA SameRowsSameHold ==
    ASSUME NEW r, \A type \in {"hold", "capture", "release"} : RowsOf(r, type)' = RowsOf(r, type)
    PROVE  Unmoved(r)
<1>1. /\ RowsOf(r, "hold")' = RowsOf(r, "hold")
      /\ RowsOf(r, "capture")' = RowsOf(r, "capture") /\ RowsOf(r, "release")' = RowsOf(r, "release")
  OBVIOUS
<1>2. Captured(r)' = Captured(r) /\ Released(r)' = Released(r)
  BY <1>1, MappedByRows, MappedByRowsNext
<1>3. (Held(r)' <=> Held(r)) /\ (Settled(r)' <=> Settled(r))
  BY <1>1, MappedByRows, MappedByRowsNext
<1>. QED  BY <1>2, <1>3 DEF Unmoved, Phase

(* The rows of a request after rows S of user u were inserted. *)
LEMMA GainsRowsOf ==
    ASSUME NEW u \in Users, NEW S, Gains(u, S), NEW q \in Requests, NEW type
    PROVE  RowsOf(q, type)' =
              RowsOf(q, type) \cup {row \in S : UserOf[q] = u /\ row.ref = q /\ row.type = type}
<1>1. UserOf[q] \in Users
  BY HoldArgs
<1>2. RowsIn(ledger', UserOf[q]) = RowsIn(ledger, UserOf[q]) \cup (IF UserOf[q] = u THEN S ELSE {})
  BY <1>1 DEF Gains
<1>. QED  BY <1>2 DEF RowsOf, RowsFor

(* A settlement of r moves no other request; it charges c and gives back l. *)
LEMMA SettlementMoves ==
    ASSUME NEW r \in Requests, NEW c \in Nat, NEW l \in Nat, l > 0, NEW x, ~Settled(r),
           Gains(UserOf[r], SettlementRows(UserOf[r], r, c, l, x))
    PROVE  /\ Settled(r)' /\ Captured(r)' = c /\ Released(r)' = l
           /\ \A q \in Requests : q # r => Unmoved(q)
<1>. DEFINE u == UserOf[r]
            crow == CaptureRow(u, r, c, x)
            lrow == ReleaseRow(u, r, c, l, x)
            S == SettlementRows(u, r, c, l, x)
<1>0. u \in Users
  BY HoldArgs
<1>1. /\ crow.type = "capture" /\ crow.ref = r /\ crow.amount = -c
      /\ lrow.type = "release" /\ lrow.ref = r /\ lrow.amount = l
  BY DEF CaptureRow, ReleaseRow
<1>2. S = (IF c > 0 THEN {crow} ELSE {}) \cup {lrow}
  BY DEF SettlementRows
<1>3. RowsOf(r, "capture") = {} /\ RowsOf(r, "release") = {}
  BY MappedByRows
<1>. HIDE DEF crow, lrow, S
<1>4. RowsOf(r, "release")' = {lrow}
  <2>1. {row \in S : UserOf[r] = u /\ row.ref = r /\ row.type = "release"} = {lrow}
    BY <1>1, <1>2
  <2>2. RowsOf(r, "release")' = RowsOf(r, "release")
           \cup {row \in S : UserOf[r] = u /\ row.ref = r /\ row.type = "release"}
    BY <1>0, GainsRowsOf DEF S
  <2>. QED  BY <1>3, <2>1, <2>2
<1>5. RowsOf(r, "capture")' = IF c > 0 THEN {crow} ELSE {}
  <2>1. {row \in S : UserOf[r] = u /\ row.ref = r /\ row.type = "capture"}
           = IF c > 0 THEN {crow} ELSE {}
    BY <1>1, <1>2
  <2>2. RowsOf(r, "capture")' = RowsOf(r, "capture")
           \cup {row \in S : UserOf[r] = u /\ row.ref = r /\ row.type = "capture"}
    BY <1>0, GainsRowsOf DEF S
  <2>. QED  BY <1>3, <2>1, <2>2
<1>6. Settled(r)'
  BY <1>4, MappedByRowsNext
<1>7. Released(r)' = l
  <2>1. SumOf({lrow}) = l
    BY <1>1, SumSingle
  <2>. QED  BY <1>4, <2>1, MappedByRowsNext
<1>8. Captured(r)' = c
  <2>1. CASE c > 0
    <3>1. SumOf({crow}) = -c /\ -(-c) = c
      BY <1>1, SumSingle
    <3>. QED  BY <1>5, <2>1, <3>1, MappedByRowsNext
  <2>2. CASE c = 0
    <3>1. RowsOf(r, "capture")' = {}
      BY <1>5, <2>2
    <3>2. Captured(r)' = -SumOf({})
      BY <3>1, MappedByRowsNext
    <3>3. \A n \in Int : -n = 0 - n
      OBVIOUS
    <3>4. Captured(r)' = 0 - SumOf({})
      BY <3>2, <3>3, SumEmpty
    <3>. QED  BY <2>2, <3>4, SumEmpty
  <2>. QED  BY <2>1, <2>2
<1>9. ASSUME NEW q \in Requests, q # r PROVE Unmoved(q)
  <2>1. \A row \in S : row.ref = r
    BY <1>1, <1>2
  <2>2. ASSUME NEW type PROVE RowsOf(q, type)' = RowsOf(q, type)
    <3>1. RowsOf(q, type)' = RowsOf(q, type)
             \cup {row \in S : UserOf[q] = u /\ row.ref = q /\ row.type = type}
      BY <1>0, GainsRowsOf DEF S
    <3>. QED  BY <1>9, <2>1, <3>1
  <2>. QED  BY <2>2, SameRowsSameHold
<1>. QED  BY <1>6, <1>7, <1>8, <1>9

(***************************************************************************)
(* A settlement of r: it charges c, gives back the rest of the hold, which *)
(* is not nothing, and takes the release key of r.                         *)
(***************************************************************************)
Commits(r, c) ==
    LET l == HoldOf[r] - c
    IN  /\ Held(r) /\ c \in Nat /\ l \in Nat /\ l > 0 /\ ~Used(<<"release", r>>)
        /\ Gains(UserOf[r], SettlementRows(UserOf[r], r, c, l, r))

(* Under the two conditions the ledger changes in these ways only; the first adds no row. *)
LEMMA LedgerMoves ==
    ASSUME ContractInv, SettledUnderOwnId, CostsBelowHold, [Next]_vars
    PROVE  \/ Gains(NoKey, {})
           \/ Deposits
           \/ \E r \in Requests : Places(r)
           \/ \E r \in Requests : \E c \in Nat : Commits(r, c)
<1>0. SettleInv /\ KeyInv /\ SessionInv
  BY DEF ContractInv
<1>1. CASE ledger' = ledger
  BY <1>1 DEF Gains, RowsIn
<1>2. ASSUME NEW i \in worker.batch, Settle(i) PROVE \E r \in Requests : \E c \in Nat : Commits(r, c)
  <2>. DEFINE r == EventRequest(i)
              c == EventCapture(i)
              l == EventRelease(i)
              cost == stream[i].ev.cost
  <2>1. /\ r \in Requests /\ HeldIn(ledger, r)
        /\ c \in Int /\ l \in Int /\ c + l = HoldOf[r] /\ HoldOf[r] \in Int
        /\ HoldOf[r] > 0 => c \in Nat /\ l \in Nat
        /\ c = cost \/ (cost >= HoldOf[r] /\ l = 0)
        /\ cost \in Costs /\ cost \in Nat
        /\ Gains(UserOf[r], SettlementRows(UserOf[r], r, c, l, KeySuffix(r, KeyOf[r])))
    BY <1>0, <1>2, WorkerGains
  <2>2. CaptureAndReleaseOK(UserOf[r], r, c, l, KeyOf[r])
    BY <1>2 DEF Settle, CaptureAndRelease, EventUser
  <2>. HIDE DEF r, c, l, cost
  <2>3. Held(r)
    BY <2>1, HeldInHeld
  <2>4. cost < HoldOf[r]
    BY <2>1 DEF CostsBelowHold
  <2>5. l = HoldOf[r] - c /\ l > 0 /\ c \in Nat /\ l \in Nat
    BY <2>1, <2>4
  <2>6. KeySuffix(r, KeyOf[r]) = r
    BY <1>0, <2>1, <2>3
       DEF SettledUnderOwnId, KeyInv, KeyedStreamsRefused, EarlyUnheld, Early, KeySuffix
  <2>7. ~Used(<<"release", r>>)
    BY <2>2, <2>5, <2>6 DEF CaptureAndReleaseOK
  <2>8. Commits(r, c)
    BY <2>1, <2>3, <2>5, <2>6, <2>7 DEF Commits
  <2>. QED  BY <2>1, <2>5, <2>8
<1>3. CASE SweepCommits
  <2>. DEFINE r == sweeper.req
              l == sweeper.hold
  <2>1. /\ r \in Requests /\ HeldIn(ledger, r) /\ l \in Int
        /\ Gains(UserOf[r], SettlementRows(UserOf[r], r, 0, l, r))
    BY <1>0, <1>3, SweeperGains
  <2>2. l \in {0, HoldOf[r]} /\ HoldOf[r] \in Int
    BY <1>0, <1>3, <2>1, HoldArgs DEF SessionInv, SweepPast, SweepCommits, SweepRelease
  <2>3. CaptureAndReleaseOK(UserOf[r], r, 0, l, NoKey)
    BY <1>3 DEF SweepCommits, CaptureAndRelease
  <2>. HIDE DEF r, l
  <2>4. CASE ~(l > 0)
    <3>1. SettlementRows(UserOf[r], r, 0, l, r) = {}
      BY <2>4 DEF SettlementRows
    <3>. QED  BY <2>1, <3>1 DEF Gains
  <2>5. CASE l > 0
    <3>1. l = HoldOf[r] - 0 /\ l \in Nat /\ HoldOf[r] - 0 = l
      BY <2>1, <2>2, <2>5
    <3>2. ~Used(<<"release", r>>)
      BY <2>3, <2>5 DEF CaptureAndReleaseOK, KeySuffix
    <3>3. Held(r)
      BY <2>1, HeldInHeld
    <3>4. Commits(r, 0)
      BY <2>1, <2>5, <3>1, <3>2, <3>3 DEF Commits
    <3>. QED  BY <2>1, <3>4
  <2>. QED  BY <2>4, <2>5
<1>. QED  BY <1>0, <1>1, <1>2, <1>3, LedgerSteps

(* A settlement row stands behind its hold row. *)
LEMMA SettledHeld == ASSUME SettleInv, NEW r \in Requests, Settled(r) PROVE Held(r)
<1>1. PICK i \in 1..Len(ledger[UserOf[r]]) :
          ledger[UserOf[r]][i].ref = r /\ ledger[UserOf[r]][i].type \in Settling
  BY DEF Settled, HasRow, RowsFor, RowsIn, Settling
<1>2. RowGood(ledger, UserOf[r], i)
  BY <1>1, HoldArgs DEF SettleInv, TableGood
<1>3. PICK j \in 1..(i - 1) : ledger[UserOf[r]][j].type = "hold" /\ ledger[UserOf[r]][j].ref = r
  BY <1>1, <1>2 DEF RowGood
<1>4. Len(ledger[UserOf[r]]) \in Nat
  BY HoldArgs DEF SettleInv, PipeInv, StoreInv, StoreTypeOK
<1>5. j \in 1..Len(ledger[UserOf[r]])
  BY <1>4
<1>. QED  BY <1>3, <1>5 DEF Held, HasRow, RowsFor, RowsIn

(* Every settlement inserts its release row, and rows stay. *)
LEMMA ReleasedStep ==
    ASSUME ContractInv, SettledReleased, SettledUnderOwnId, CostsBelowHold, [Next]_vars
    PROVE  SettledReleased'
<1>. SUFFICES ASSUME NEW q \in Requests, Settled(q)' PROVE Used(<<"release", q>>)'
  BY DEF SettledReleased
<1>1. ASSUME NEW u, NEW S, Gains(u, S), Settled(q) PROVE Used(<<"release", q>>)'
  BY <1>1 DEF SettledReleased, Gains, Used, UsedIn
<1>2. ASSUME NEW u, NEW S, Gains(u, S), \A row \in S : ~(row.ref = q /\ row.type \in Settling)
      PROVE  Settled(q)
  BY <1>2, HoldArgs DEF Gains, Settled, HasRow, RowsFor, Settling
<1>3. CASE Gains(NoKey, {})
  BY <1>1, <1>2, <1>3
<1>4. CASE Deposits
  BY <1>1, <1>2, <1>4 DEF Deposits, Settling
<1>5. ASSUME NEW r \in Requests, Places(r) PROVE Used(<<"release", q>>)'
  <2>1. \A row \in {HoldRow(r)} : row.type = "hold"
    BY DEF HoldRow
  <2>. QED  BY <1>1, <1>2, <1>5, <2>1 DEF Places, Settling
<1>6. ASSUME NEW r \in Requests, NEW c \in Nat, Commits(r, c) PROVE Used(<<"release", q>>)'
  <2>. DEFINE S == SettlementRows(UserOf[r], r, c, HoldOf[r] - c, r)
              lrow == ReleaseRow(UserOf[r], r, c, HoldOf[r] - c, r)
  <2>1. Gains(UserOf[r], S) /\ lrow \in S /\ lrow.key = <<"release", r>>
    BY <1>6 DEF Commits, SettlementRows, ReleaseRow
  <2>2. \A row \in S : row.ref = r
    BY SettlementRowKinds
  <2>. HIDE DEF S, lrow
  <2>3. CASE q = r
    BY <2>1, <2>3, HoldArgs DEF Gains, Used, UsedIn
  <2>4. CASE q # r
    BY <1>1, <1>2, <2>1, <2>2, <2>4
  <2>. QED  BY <2>3, <2>4
<1>. QED  BY <1>3, <1>4, <1>5, <1>6, LedgerMoves

(* HoldLifecycle's variables, read request by request. *)
LEMMA MappedState ==
    /\ Holds!HoldInit <=>
          \A r \in Requests : Phase(r) = "none" /\ Captured(r) = 0 /\ Released(r) = 0
    /\ (\A r \in Requests : Unmoved(r)) => UNCHANGED Holds!holdVars
    /\ \A r \in Requests :
          /\ Phase(r) = "none" /\ Phase(r)' = "held"
          /\ Captured(r)' = Captured(r) /\ Released(r)' = Released(r)
          /\ \A q \in Requests : q # r => Unmoved(q)
          => Holds!PlaceHold(r)
    /\ \A r \in Requests : \A c :
          /\ Phase(r) = "held" /\ Phase(r)' = "settled"
          /\ Captured(r)' = c /\ Released(r)' = HoldOf[r] - c
          /\ \A q \in Requests : q # r => Unmoved(q)
          => Holds!SettleHold(r, c)
<1>. USE DEF Phase, Unmoved
<1>. HIDE DEF Settled, Held, Captured, Released
<1>1. Holds!HoldInit <=>
          \A r \in Requests : Phase(r) = "none" /\ Captured(r) = 0 /\ Released(r) = 0
  BY DEF Holds!HoldInit
<1>2. (\A r \in Requests : Unmoved(r)) => UNCHANGED Holds!holdVars
  BY DEF Holds!holdVars
<1>3. ASSUME NEW r \in Requests,
             Phase(r) = "none", Phase(r)' = "held",
             Captured(r)' = Captured(r), Released(r)' = Released(r),
             \A q \in Requests : q # r => Unmoved(q)
      PROVE  Holds!PlaceHold(r)
  BY <1>3 DEF Holds!PlaceHold
<1>4. ASSUME NEW r \in Requests, NEW c,
             Phase(r) = "held", Phase(r)' = "settled",
             Captured(r)' = c, Released(r)' = HoldOf[r] - c,
             \A q \in Requests : q # r => Unmoved(q)
      PROVE  Holds!SettleHold(r, c)
  BY <1>4 DEF Holds!SettleHold
<1>. QED  BY <1>1, <1>2, <1>3, <1>4

(* Every step of the pipeline is a step of HoldLifecycle or leaves it alone. *)
LEMMA HoldStep ==
    ASSUME ContractInv, SettledReleased, SettledUnderOwnId, CostsBelowHold, [Next]_vars
    PROVE  [Holds!HoldNext]_(Holds!holdVars)
<1>0. SettleInv /\ KeyInv
  BY DEF ContractInv
<1>1. ASSUME NEW u, NEW S, Gains(u, S), NEW q \in Requests,
             \A row \in S : row.ref = q => row.type \notin {"hold", "capture", "release"}
      PROVE  Unmoved(q)
  <2>1. RowsIn(ledger', UserOf[q]) =
           RowsIn(ledger, UserOf[q]) \cup (IF UserOf[q] = u THEN S ELSE {})
    BY <1>1, HoldArgs DEF Gains
  <2>2. ASSUME NEW type \in {"hold", "capture", "release"} PROVE RowsOf(q, type)' = RowsOf(q, type)
    BY <1>1, <2>1 DEF RowsOf, RowsFor
  <2>. QED  BY <2>2, SameRowsSameHold
<1>2. CASE Gains(NoKey, {})
  BY <1>1, <1>2, MappedState
<1>3. CASE Deposits
  BY <1>1, <1>3, MappedState DEF Deposits
<1>4. ASSUME NEW r \in Requests, Places(r) PROVE Holds!PlaceHold(r)
  <2>. DEFINE S == {HoldRow(r)}
  <2>1. Gains(UserOf[r], S) /\ HoldRow(r).ref = r /\ HoldRow(r).type = "hold" /\ UserOf[r] \in Users
    BY <1>4, HoldArgs DEF Places, HoldRow
  <2>2. ~Held(r) /\ ~Settled(r)
    BY <1>0, <1>4, SettledHeld DEF Places, KeyInv, EarlyUnheld, Early
  <2>3. RowsOf(r, "hold")' # {}
    BY <2>1, GainsRowsOf
  <2>4. RowsOf(r, "capture")' = RowsOf(r, "capture") /\ RowsOf(r, "release")' = RowsOf(r, "release")
    <3>1. ASSUME NEW type \in Settling PROVE RowsOf(r, type)' = RowsOf(r, type)
      <4>1. {row \in S : UserOf[r] = UserOf[r] /\ row.ref = r /\ row.type = type} = {}
        BY <2>1 DEF Settling
      <4>2. RowsOf(r, type)' = RowsOf(r, type)
               \cup {row \in S : UserOf[r] = UserOf[r] /\ row.ref = r /\ row.type = type}
        BY <2>1, GainsRowsOf
      <4>. QED  BY <4>1, <4>2
    <3>. QED  BY <3>1 DEF Settling
  <2>5. Captured(r)' = Captured(r) /\ Released(r)' = Released(r) /\ Held(r)' /\ ~Settled(r)'
    BY <2>2, <2>3, <2>4, MappedByRows, MappedByRowsNext
  <2>6. Phase(r) = "none" /\ Phase(r)' = "held"
    BY <2>2, <2>5 DEF Phase
  <2>7. \A q \in Requests : q # r => Unmoved(q)
    BY <1>1, <2>1
  <2>. QED  BY <2>5, <2>6, <2>7, MappedState
<1>5. ASSUME NEW r \in Requests, NEW c \in Nat, Commits(r, c)
      PROVE  c \in 0..HoldOf[r] /\ Holds!SettleHold(r, c)
  <2>. DEFINE l == HoldOf[r] - c
  <2>1. /\ Held(r) /\ l \in Nat /\ l > 0 /\ ~Used(<<"release", r>>) /\ HoldOf[r] \in Nat
        /\ Gains(UserOf[r], SettlementRows(UserOf[r], r, c, l, r))
    BY <1>5, HoldArgs DEF Commits
  <2>2. ~Settled(r)
    BY <2>1 DEF SettledReleased
  <2>3. c \in 0..HoldOf[r]
    BY <2>1
  <2>. HIDE DEF l
  <2>4. /\ Settled(r)' /\ Captured(r)' = c /\ Released(r)' = l
        /\ \A q \in Requests : q # r => Unmoved(q)
    BY <2>1, <2>2, SettlementMoves
  <2>5. Phase(r) = "held" /\ Phase(r)' = "settled"
    BY <2>1, <2>2, <2>4 DEF Phase
  <2>6. Holds!SettleHold(r, c)
    BY <2>4, <2>5, MappedState DEF l
  <2>. QED  BY <2>3, <2>6
<1>. QED
  BY <1>2, <1>3, <1>4, <1>5, LedgerMoves DEF Holds!HoldNext

(***************************************************************************)
(* Where no request is settled under a client's key and each costs less    *)
(* than its hold, the gateway, worker, sweeper and operator together       *)
(* implement HoldLifecycle: a hold is placed once and settled once, by one *)
(* capture and the release of all the rest, although worker and sweeper    *)
(* may both try, events are redelivered and replayed, and either crashes   *)
(* between its transaction and the deletion of the session.                *)
(***************************************************************************)
THEOREM PipelineImplementsHolds ==
    SettledUnderOwnId /\ CostsBelowHold => (Spec => ImplementsHoldLifecycle)
<1>. SUFFICES ASSUME SettledUnderOwnId, CostsBelowHold PROVE Spec => ImplementsHoldLifecycle
  OBVIOUS
<1>1. Init => SettledReleased /\ Holds!HoldInit
  <2>. SUFFICES ASSUME Init PROVE SettledReleased /\ Holds!HoldInit
    OBVIOUS
  <2>1. ASSUME NEW r \in Requests, NEW type PROVE RowsOf(r, type) = {}
    BY HoldArgs DEF Init, StoreInit, RowsOf, RowsFor, RowsIn
  <2>2. ASSUME NEW r \in Requests PROVE ~Held(r) /\ ~Settled(r) /\ Released(r) = 0
    BY <2>1, MappedByRows, SumEmpty
  <2>3. ASSUME NEW r \in Requests PROVE Captured(r) = 0
    <3>1. Captured(r) = -SumOf({}) /\ SumOf({}) = 0
      BY <2>1, MappedByRows, SumEmpty
    <3>2. \A n \in Int : -n = 0 - n
      OBVIOUS
    <3>. QED  BY <3>1, <3>2
  <2>. QED  BY <2>2, <2>3, MappedState DEF SettledReleased, Phase
<1>2. ContractInv /\ SettledReleased /\ [Next]_vars => SettledReleased'
  BY ReleasedStep
<1>3. ContractInv /\ SettledReleased /\ [Next]_vars => [Holds!HoldNext]_(Holds!holdVars)
  BY HoldStep
<1>. QED
  BY <1>1, <1>2, <1>3, ContractInvariant, PTL DEF Spec, ImplementsHoldLifecycle, Holds!HoldSpec
=============================================================================
