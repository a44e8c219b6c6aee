--------------------------- MODULE RateLimit_proofs ---------------------------
(***************************************************************************)
(* Type correctness of RateLimit, the justification of refusals and the    *)
(* bound on admitted seconds, for any users, keys, rates, window, number   *)
(* of concurrent calls and length of the run.                              *)
(***************************************************************************)
EXTENDS RateLimit, FiniteSetTheorems, TLAPS

PipelineCalls == [key : Keys, now : Seconds, step : InPipeline, allow : BOOLEAN]

(* A call in the pipeline has a key and the second it read. *)
LEMMA CallTyped ==
    ASSUME RateTypeOK, NEW c \in Calls, call[c].step \in InPipeline
    PROVE  call[c] \in PipelineCalls
BY DEF RateTypeOK, PipelineCalls, Idle, InPipeline

(* Every initial state is well typed. *)
LEMMA RateInitTyped == RateInit => RateTypeOK
BY TimesWellFormed DEF RateInit, RateTypeOK, Seconds

(* Every command, arrival, failure and second keeps the types. *)
LEMMA RateStepTyped == RateTypeOK /\ [RateNext]_rateVars => RateTypeOK'
<1> SUFFICES ASSUME RateTypeOK, [RateNext]_rateVars PROVE RateTypeOK'
  OBVIOUS
<1> USE KeysWellFormed, TimesWellFormed, FaultsWellFormed
<1>1. CASE UNCHANGED rateVars
  BY <1>1 DEF rateVars, RateTypeOK, Seconds
<1>2. CASE Tick
  <2>1. clock' \in 0..MaxClock /\ clock' = clock + 1 /\ Seconds \subseteq Seconds'
    BY <1>2 DEF Tick, RateTypeOK, Seconds
  <2>2. bucket' \in [Users -> SUBSET Seconds'] /\ expiry' \in [Users -> Nat]
    BY <1>2, <2>1 DEF Tick, RateTypeOK
  <2>3. call' \in [Calls -> {Idle} \cup [key : Keys, now : Seconds', step : InPipeline,
                                        allow : BOOLEAN]]
    BY <1>2, <2>1 DEF Tick, RateTypeOK
  <2> QED
    BY <1>2, <2>1, <2>2, <2>3 DEF Tick, RateTypeOK
<1>3. ASSUME NEW c \in Calls, NEW k \in Keys, Arrive(c, k) PROVE RateTypeOK'
  <2>1. [key |-> k, now |-> clock, step |-> "prune", allow |-> FALSE] \in PipelineCalls
    BY DEF RateTypeOK, PipelineCalls, Seconds, InPipeline
  <2> QED
    BY <1>3, <2>1 DEF Arrive, RateTypeOK, PipelineCalls, Seconds
<1>4. ASSUME NEW c \in Calls, ZRemRangeByScore(c) PROVE RateTypeOK'
  <2>1. call[c] \in PipelineCalls
    BY <1>4, CallTyped DEF ZRemRangeByScore, InPipeline
  <2>2. [call[c] EXCEPT !.step = "add"] \in PipelineCalls
    BY <2>1 DEF PipelineCalls, InPipeline
  <2>3. call' = [call EXCEPT ![c] = [call[c] EXCEPT !.step = "add"]]
    BY <1>4 DEF ZRemRangeByScore, CallGoto
  <2>4. bucket' \in [Users -> SUBSET Seconds] /\ expiry' \in [Users -> Nat]
    BY <1>4 DEF ZRemRangeByScore, RateTypeOK, Recent
  <2> QED
    BY <1>4, <2>2, <2>3, <2>4 DEF ZRemRangeByScore, RateTypeOK, PipelineCalls, Seconds
<1>5. ASSUME NEW c \in Calls, ZAdd(c) PROVE RateTypeOK'
  <2>1. call[c] \in PipelineCalls
    BY <1>5, CallTyped DEF ZAdd, InPipeline
  <2>2. [call[c] EXCEPT !.step = "count"] \in PipelineCalls
    BY <2>1 DEF PipelineCalls, InPipeline
  <2>3. call' = [call EXCEPT ![c] = [call[c] EXCEPT !.step = "count"]]
    BY <1>5 DEF ZAdd, CallGoto
  <2>4. call[c].now \in Seconds
    BY <2>1 DEF PipelineCalls
  <2>5. bucket' \in [Users -> SUBSET Seconds] /\ called' \in [Users -> SUBSET Seconds]
    BY <1>5, <2>4 DEF ZAdd, RateTypeOK
  <2> QED
    BY <1>5, <2>2, <2>3, <2>5 DEF ZAdd, RateTypeOK, PipelineCalls, Seconds
<1>6. ASSUME NEW c \in Calls, ZCard(c) PROVE RateTypeOK'
  <2>1. call[c] \in PipelineCalls
    BY <1>6, CallTyped DEF ZCard, InPipeline
  <2> DEFINE b == WithinRate(Cardinality(bucket[UserOfCall(c)]), RateOf[call[c].key])
  <2>2. b \in BOOLEAN
    BY DEF WithinRate
  <2> HIDE DEF b
  <2>3. [call[c] EXCEPT !.step = "expire", !.allow = b] \in PipelineCalls
    BY <2>1, <2>2 DEF PipelineCalls, InPipeline
  <2>4. call' = [call EXCEPT ![c] = [call[c] EXCEPT !.step = "expire", !.allow = b]]
    BY <1>6 DEF ZCard, b, RateTypeOK
  <2> QED
    BY <1>6, <2>3, <2>4 DEF ZCard, RateTypeOK, PipelineCalls, Seconds
<1>7. ASSUME NEW c \in Calls, NEW heard \in BOOLEAN, ExpireAndAnswer(c, heard)
      PROVE  RateTypeOK'
  <2>1. call[c] \in PipelineCalls
    BY <1>7, CallTyped DEF ExpireAndAnswer, InPipeline
  <2>2. call[c].now \in Seconds
    BY <2>1 DEF PipelineCalls
  <2>3. clock + 2 * Window \in Nat
    BY DEF RateTypeOK
  <2>4. expiry' \in [Users -> Nat]
    BY <1>7, <2>3 DEF ExpireAndAnswer, RateTypeOK
  <2>5. admitted' \in [Keys -> SUBSET Seconds]
    BY <1>7, <2>2 DEF ExpireAndAnswer, RateTypeOK
  <2> QED
    BY <1>7, <2>4, <2>5 DEF ExpireAndAnswer, RateTypeOK, Seconds
<1>8. ASSUME NEW c \in Calls, RedisFails(c) PROVE RateTypeOK'
  BY <1>8 DEF RedisFails, RateTypeOK, Seconds
<1> QED
  BY <1>1, <1>2, <1>3, <1>4, <1>5, <1>6, <1>7, <1>8 DEF RateNext, AllowRate

(***************************************************************************)
(* RateTypeOK is an invariant of RateSpec.                                 *)
(***************************************************************************)
THEOREM RateTypeCorrect == RateSpec => []RateTypeOK
BY RateInitTyped, RateStepTyped, PTL DEF RateSpec

-----------------------------------------------------------------------------
(* What each step does to the calls: one moves, the others stay as they are. *)

Others(c) == \A d \in Calls : d # c => call'[d] = call[d]
Moved(c, step) ==
    /\ call'[c].key = call[c].key /\ call'[c].now = call[c].now /\ call'[c].step = step
    /\ Others(c)

(* ZREMRANGEBYSCORE, ZADD and ZCARD move their call one command on. *)
LEMMA CommandMoves ==
    ASSUME RateTypeOK, NEW c \in Calls
    PROVE  /\ ZRemRangeByScore(c) => Moved(c, "add")
           /\ ZAdd(c) => Moved(c, "count")
           /\ ZCard(c) => Moved(c, "expire")
<1>1. call[c].step \in InPipeline => call[c] \in PipelineCalls
  BY CallTyped
<1>2. call = [d \in Calls |-> call[d]]
  BY DEF RateTypeOK
<1> USE DEF Moved, Others, PipelineCalls, InPipeline
<1>3. ZRemRangeByScore(c) => Moved(c, "add")
  BY <1>1, <1>2 DEF ZRemRangeByScore, CallGoto
<1>4. ZAdd(c) => Moved(c, "count")
  BY <1>1, <1>2 DEF ZAdd, CallGoto
<1>5. ZCard(c) => Moved(c, "expire")
  <2> DEFINE b == WithinRate(Cardinality(bucket[UserOfCall(c)]), RateOf[call[c].key])
  <2>1. ZCard(c) => /\ call[c] \in PipelineCalls
                    /\ call' = [call EXCEPT ![c].step = "expire", ![c].allow = b]
    BY <1>1 DEF ZCard
  <2> HIDE DEF b
  <2> QED
    BY <1>2, <2>1
<1> QED
  BY <1>3, <1>4, <1>5

(* ZCARD decides: the bucket against the rate of the key. *)
LEMMA ZCardDecides ==
    ASSUME RateTypeOK, NEW c \in Calls, ZCard(c)
    PROVE  call'[c].allow = WithinRate(Cardinality(bucket[UserOfCall(c)]), RateOf[call[c].key])
<1> DEFINE b == WithinRate(Cardinality(bucket[UserOfCall(c)]), RateOf[call[c].key])
<1>1. call[c] \in PipelineCalls
  BY CallTyped DEF ZCard, InPipeline
<1>2. call = [d \in Calls |-> call[d]]
  BY DEF RateTypeOK
<1>3. call' = [call EXCEPT ![c].step = "expire", ![c].allow = b]
  BY DEF ZCard
<1> HIDE DEF b
<1>4. call'[c].allow = b
  BY <1>1, <1>2, <1>3 DEF PipelineCalls
<1> QED
  BY <1>4 DEF b

(* Arrivals, answers and failures replace their call. *)
LEMMA CallReplaced ==
    ASSUME RateTypeOK, NEW c \in Calls
    PROVE  /\ \A k \in Keys : Arrive(c, k) =>
                call'[c].now = clock /\ call'[c].step = "prune" /\ Others(c)
           /\ \A heard \in BOOLEAN : ExpireAndAnswer(c, heard) =>
                call'[c].step = "idle" /\ Others(c)
           /\ RedisFails(c) => call'[c].step = "idle" /\ Others(c)
BY DEF RateTypeOK, Others, Arrive, ExpireAndAnswer, RedisFails, Idle

(* A call is at most MaxDelay seconds old, and its user and second are known. *)
Timely ==
    \A c \in Calls : call[c].step \in InPipeline =>
        call[c].now <= clock /\ clock <= call[c].now + MaxDelay

(* Members were counted; after a call's ZREMRANGEBYSCORE none is too old for it. *)
CalledCovers == \A u \in Users : bucket[u] \subseteq called[u]
PrunedBucket ==
    \A c \in Calls : call[c].step \in {"add", "count", "expire"} =>
        \A s \in bucket[UserOfCall(c)] : s > call[c].now - Window

(* The types of a call in the pipeline, for arithmetic. *)
LEMMA CallFields ==
    ASSUME RateTypeOK, NEW c \in Calls, call[c].step \in InPipeline
    PROVE  /\ call[c].now \in Nat /\ call[c].now <= clock /\ call[c].key \in Keys
           /\ UserOfCall(c) \in Users /\ RateOf[call[c].key] \in Nat
BY CallTyped, KeysWellFormed DEF PipelineCalls, Seconds, UserOfCall, RateTypeOK

(* Timeliness is inductive: no second passes a call that is MaxDelay old. *)
LEMMA TimelyStep == RateTypeOK /\ Timely /\ [RateNext]_rateVars => Timely'
<1> SUFFICES ASSUME RateTypeOK, Timely, [RateNext]_rateVars,
                    NEW d \in Calls, call'[d].step \in InPipeline
             PROVE  call'[d].now <= clock' /\ clock' <= call'[d].now + MaxDelay
  BY DEF Timely
<1> USE TimesWellFormed
<1>0. clock \in Nat /\ MaxDelay \in Nat
  BY DEF RateTypeOK
<1>1. CASE UNCHANGED rateVars
  BY <1>1 DEF rateVars, Timely
<1>2. CASE Tick
  BY <1>0, <1>2, CallFields DEF Tick, Timely
<1>3. ASSUME NEW c \in Calls, NEW k \in Keys, Arrive(c, k)
      PROVE  call'[d].now <= clock' /\ clock' <= call'[d].now + MaxDelay
  BY <1>0, <1>3, CallReplaced DEF Arrive, Others, Timely
<1>4. ASSUME NEW c \in Calls, ZRemRangeByScore(c) \/ ZAdd(c) \/ ZCard(c)
      PROVE  call'[d].now <= clock' /\ clock' <= call'[d].now + MaxDelay
  <2>1. clock' = clock /\ call[c].step \in InPipeline
    BY <1>4 DEF ZRemRangeByScore, ZAdd, ZCard, InPipeline
  <2> QED
    BY <1>4, <2>1, CommandMoves DEF Moved, Others, Timely
<1>5. ASSUME NEW c \in Calls, NEW heard \in BOOLEAN,
             ExpireAndAnswer(c, heard) \/ RedisFails(c)
      PROVE  call'[d].now <= clock' /\ clock' <= call'[d].now + MaxDelay
  <2>1. clock' = clock
    BY <1>5 DEF ExpireAndAnswer, RedisFails
  <2> QED
    BY <1>5, <2>1, CallReplaced DEF Others, Timely, InPipeline
<1> QED
  BY <1>1, <1>2, <1>3, <1>4, <1>5 DEF RateNext, AllowRate

(* Members were counted, after every step. *)
LEMMA CalledCoversStep == RateTypeOK /\ CalledCovers /\ [RateNext]_rateVars => CalledCovers'
<1> SUFFICES ASSUME RateTypeOK, CalledCovers, [RateNext]_rateVars, NEW u \in Users
             PROVE  bucket'[u] \subseteq called'[u]
  BY DEF CalledCovers
<1> USE DEF RateTypeOK, CalledCovers
<1>1. CASE UNCHANGED rateVars
  BY <1>1 DEF rateVars
<1>2. CASE Tick
  BY <1>2 DEF Tick
<1>3. ASSUME NEW c \in Calls, AllowRate(c) PROVE bucket'[u] \subseteq called'[u]
  BY <1>3 DEF AllowRate, ZRemRangeByScore, ZAdd, ZCard, ExpireAndAnswer, Recent
<1>4. ASSUME NEW c \in Calls, (\E k \in Keys : Arrive(c, k)) \/ RedisFails(c)
      PROVE  bucket'[u] \subseteq called'[u]
  BY <1>4 DEF Arrive, RedisFails
<1> QED
  BY <1>1, <1>2, <1>3, <1>4 DEF RateNext
(* Sets of seconds are finite, and a subset has no more elements. *)
LEMMA SecondsCounted ==
    ASSUME NEW n \in Nat, NEW T \in SUBSET (0..n), NEW S \in SUBSET T
    PROVE  Cardinality(S) \in Nat /\ Cardinality(T) \in Nat /\ Cardinality(S) <= Cardinality(T)
<1>1. IsFiniteSet(0..n)
  BY FS_Interval
<1>2. IsFiniteSet(T)
  BY <1>1, FS_Subset
<1>3. IsFiniteSet(S) /\ Cardinality(S) <= Cardinality(T)
  BY <1>2, FS_Subset
<1> QED
  BY <1>2, <1>3, FS_CardinalityType

(* A step of a call that is not a ZADD never gives a bucket a member. *)
LEMMA OnlyZAddAdds ==
    ASSUME RateTypeOK, [RateNext]_rateVars, \A c \in Calls : ~ZAdd(c), NEW u \in Users
    PROVE  bucket'[u] \subseteq bucket[u] /\ called' = called
<1> USE DEF RateTypeOK
<1>1. CASE UNCHANGED rateVars
  BY <1>1 DEF rateVars
<1>2. CASE Tick
  BY <1>2 DEF Tick
<1>3. ASSUME NEW c \in Calls, AllowRate(c) PROVE bucket'[u] \subseteq bucket[u] /\ called' = called
  BY <1>3 DEF AllowRate, ZRemRangeByScore, ZCard, ExpireAndAnswer, Recent
<1>4. ASSUME NEW c \in Calls, (\E k \in Keys : Arrive(c, k)) \/ RedisFails(c)
      PROVE  bucket'[u] \subseteq bucket[u] /\ called' = called
  BY <1>4 DEF Arrive, RedisFails
<1> QED
  BY <1>1, <1>2, <1>3, <1>4 DEF RateNext

(* How a call d got where it is: it stood still, or made one step itself. *)
LEMMA CallCases ==
    ASSUME RateTypeOK, [RateNext]_rateVars, NEW d \in Calls
    PROVE  \/ call'[d] = call[d]
           \/ call'[d].step = "idle"
           \/ call'[d].step = "prune" /\ call'[d].now = clock
           \/ ZRemRangeByScore(d) /\ Moved(d, "add")
           \/ ZAdd(d) /\ Moved(d, "count")
           \/ ZCard(d) /\ Moved(d, "expire")
<1>1. CASE UNCHANGED rateVars \/ Tick
  BY <1>1 DEF rateVars, Tick
<1>2. ASSUME NEW c \in Calls, (\E k \in Keys : Arrive(c, k)) \/ RedisFails(c) \/ AllowRate(c)
      PROVE  Others(c)
  BY <1>2, CommandMoves, CallReplaced DEF AllowRate, Moved
<1>3. ASSUME (\E k \in Keys : Arrive(d, k)) \/ RedisFails(d) \/ AllowRate(d)
      PROVE  \/ call'[d].step = "idle"
             \/ call'[d].step = "prune" /\ call'[d].now = clock
             \/ ZRemRangeByScore(d) /\ Moved(d, "add")
             \/ ZAdd(d) /\ Moved(d, "count")
             \/ ZCard(d) /\ Moved(d, "expire")
  BY <1>3, CommandMoves, CallReplaced DEF AllowRate
<1> QED
  BY <1>1, <1>2, <1>3 DEF RateNext, Others

(* No member is too old for a call that has pruned, after every step. *)
LEMMA PrunedBucketStep ==
    RateTypeOK /\ Timely /\ PrunedBucket /\ [RateNext]_rateVars => PrunedBucket'
<1> SUFFICES ASSUME RateTypeOK, Timely, PrunedBucket, [RateNext]_rateVars, NEW d \in Calls,
                    call'[d].step \in {"add", "count", "expire"},
                    NEW s \in bucket'[OwnerOf[call'[d].key]]
             PROVE  s > call'[d].now - Window
  BY DEF PrunedBucket, UserOfCall
<1>1. call[d].step \in InPipeline /\ call'[d].now = call[d].now /\ call'[d].key = call[d].key
  BY CallCases DEF Moved, ZRemRangeByScore, ZAdd, ZCard, InPipeline
<1>2. /\ call[d].now \in Nat /\ call[d].now <= clock /\ clock \in Nat
      /\ UserOfCall(d) \in Users /\ Window \in Nat \ {0} /\ MaxDelay \in 0..(Window - 1)
  BY <1>1, CallFields, TimesWellFormed DEF RateTypeOK
<1>3. s \in bucket'[UserOfCall(d)]
  BY <1>1 DEF UserOfCall
<1>4. CASE ZRemRangeByScore(d)
  BY <1>1, <1>2, <1>3, <1>4 DEF ZRemRangeByScore, Recent, RateTypeOK
<1>5. CASE ~ZRemRangeByScore(d)
  <2>1. call[d].step \in {"add", "count", "expire"}
    BY <1>5, CallCases DEF ZAdd, ZCard
  <2>2. CASE s \in bucket[UserOfCall(d)]
    BY <1>1, <2>1, <2>2 DEF PrunedBucket
  <2>3. CASE s \notin bucket[UserOfCall(d)]
    <3>1. PICK c \in Calls : ZAdd(c)
      BY <1>2, <1>3, <2>3, OnlyZAddAdds
    <3>2. s = call[c].now /\ call[c].step \in InPipeline
      BY <1>2, <1>3, <2>3, <3>1 DEF ZAdd, RateTypeOK, InPipeline
    <3>3. s \in Nat /\ clock <= s + MaxDelay
      BY <3>2, CallFields DEF Timely
    <3> QED
      BY <1>1, <1>2, <3>3
  <2> QED
    BY <2>2, <2>3
<1> QED
  BY <1>4, <1>5

(* A refusal stays justified: ZCARD saw counted seconds, and none is forgotten. *)
LEMMA RefusalStep ==
    /\ RateTypeOK /\ CalledCovers /\ PrunedBucket /\ RefusalJustified
    /\ [RateNext]_rateVars
    => RefusalJustified'
<1> SUFFICES ASSUME RateTypeOK, CalledCovers, PrunedBucket, RefusalJustified,
                    [RateNext]_rateVars,
                    NEW d \in Calls, call'[d].step = "expire", ~call'[d].allow
             PROVE  Cardinality(Recent(called'[OwnerOf[call'[d].key]], call'[d].now))
                        > RateOf[call'[d].key]
  BY DEF RefusalJustified, UserOfCall
<1>1. call[d].step \in InPipeline /\ call'[d].now = call[d].now /\ call'[d].key = call[d].key
  BY CallCases DEF Moved, ZRemRangeByScore, ZAdd, ZCard, InPipeline
<1> DEFINE u == UserOfCall(d)
           n == call[d].now
           rate == RateOf[call[d].key]
<1>2. u \in Users /\ n \in Nat /\ rate \in Nat /\ clock \in Nat
  BY <1>1, CallFields DEF RateTypeOK
<1>3. called[u] \subseteq called'[u] /\ called[u] \subseteq 0..clock
  <2>1. CASE \E c \in Calls : ZAdd(c)
    BY <1>2, <2>1 DEF ZAdd, RateTypeOK, Seconds
  <2>2. CASE \A c \in Calls : ~ZAdd(c)
    BY <1>2, <2>2, OnlyZAddAdds DEF RateTypeOK, Seconds
  <2> QED
    BY <2>1, <2>2
<1>4. called'[u] \subseteq 0..clock' /\ clock' \in Nat
  BY <1>2, RateStepTyped DEF RateTypeOK, Seconds
<1>5. Cardinality(Recent(called[u], n)) > rate
  <2>1. CASE ZCard(d)
    <3>1. ~(Cardinality(bucket[u]) <= rate)
      BY <2>1, ZCardDecides DEF WithinRate
    <3>2. bucket[u] \subseteq Recent(called[u], n)
      BY <1>2, <2>1 DEF ZCard, CalledCovers, PrunedBucket, Recent
    <3> DEFINE R == Recent(called[u], n)
               B == bucket[u]
    <3>3. R \in SUBSET (0..clock) /\ B \in SUBSET R
      BY <1>3, <3>2 DEF Recent
    <3> HIDE DEF u, n, rate, R, B
    <3>4. Cardinality(B) \in Nat /\ Cardinality(R) \in Nat /\ Cardinality(B) <= Cardinality(R)
      BY <1>2, <3>3, SecondsCounted
    <3> QED
      BY <1>2, <3>1, <3>4 DEF R, B
  <2>2. CASE ~ZCard(d)
    BY <2>2, CallCases DEF Moved, RefusalJustified
  <2> QED
    BY <2>1, <2>2
<1>6. /\ Recent(called[u], n) \in SUBSET Recent(called'[u], n)
      /\ Recent(called'[u], n) \in SUBSET (0..clock')
  BY <1>3, <1>4 DEF Recent
<1>7. Cardinality(Recent(called'[u], n)) > rate
  <2> DEFINE old == Recent(called[u], n)
             new == Recent(called'[u], n)
  <2>1. old \in SUBSET new /\ new \in SUBSET (0..clock')
    BY <1>6
  <2> HIDE DEF u, n, rate, old, new
  <2>2. Cardinality(old) \in Nat /\ Cardinality(new) \in Nat
        /\ Cardinality(old) <= Cardinality(new)
    BY <1>4, <2>1, SecondsCounted
  <2> QED
    BY <1>2, <1>5, <2>2 DEF old, new
<1> QED
  BY <1>1, <1>7 DEF UserOfCall

RefusalInv == RateTypeOK /\ Timely /\ CalledCovers /\ PrunedBucket /\ RefusalJustified

(***************************************************************************)
(* AllowRate refuses a call only when its user's calls were counted in     *)
(* more than rate_limit_rpm seconds of the last Window.                    *)
(***************************************************************************)
THEOREM RefusalsAreJustified == RateSpec => []RefusalJustified
<1>1. RateInit => RefusalInv
  BY RateInitTyped DEF RateInit, RefusalInv, Timely, CalledCovers, PrunedBucket,
                       RefusalJustified, Idle, InPipeline
<1>2. RefusalInv /\ [RateNext]_rateVars => RefusalInv'
  BY RateStepTyped, TimelyStep, CalledCoversStep, PrunedBucketStep, RefusalStep DEF RefusalInv
<1>3. RefusalInv => RefusalJustified
  BY DEF RefusalInv
<1> QED
  BY <1>1, <1>2, <1>3, PTL DEF RateSpec
-----------------------------------------------------------------------------
(* A call that ran its ZADD and not yet its EXPIRE. *)
Adding(d, u) == call[d].step \in {"count", "expire"} /\ UserOfCall(d) = u

(* Its second is in the bucket. *)
OwnSecondKept == \A d \in Calls : \A u \in Users : Adding(d, u) => call[d].now \in bucket[u]

(* An EXPIRE followed every ZADD, or is still to come. *)
MembersCovered ==
    \A u \in Users : \A s \in bucket[u] :
        \/ expiry[u] >= s + 2 * Window
        \/ \E d \in Calls : Adding(d, u) /\ call[d].now = s

FarExpiry(u, n) == expiry[u] = 0 \/ expiry[u] > n + Window

(* The bucket of a call that pruned it does not expire while the call may run. *)
ExpiryAhead ==
    \A c \in Calls : call[c].step \in {"add", "count", "expire"} =>
        \/ FarExpiry(UserOfCall(c), call[c].now)
        \/ \E d \in Calls : Adding(d, UserOfCall(c)) /\ FarExpiry(UserOfCall(c), call[d].now)

(* The recent seconds of admitted calls are in the bucket and do not expire with it. *)
AdmittedKept ==
    \A k \in Keys : \A s \in admitted[k] : s > clock - Window =>
        s \in bucket[OwnerOf[k]] /\ expiry[OwnerOf[k]] >= s + 2 * Window

BucketInv == /\ RateTypeOK /\ Timely
             /\ OwnSecondKept /\ MembersCovered /\ ExpiryAhead /\ AdmittedKept

(* How a TTL changes: not at all, with the key deleted, or by EXPIRE. *)
LEMMA ExpiryCases ==
    ASSUME RateTypeOK, [RateNext]_rateVars, NEW u \in Users
    PROVE  \/ expiry'[u] = expiry[u]
           \/ expiry'[u] = 0 /\ bucket'[u] = {}
           \/ expiry'[u] = clock + 2 * Window
<1> USE DEF RateTypeOK
<1>1. CASE UNCHANGED rateVars
  BY <1>1 DEF rateVars
<1>2. CASE Tick
  BY <1>2 DEF Tick
<1>3. ASSUME NEW c \in Calls, AllowRate(c)
      PROVE  \/ expiry'[u] = expiry[u]
             \/ expiry'[u] = 0 /\ bucket'[u] = {}
             \/ expiry'[u] = clock + 2 * Window
  BY <1>3 DEF AllowRate, ZRemRangeByScore, ZAdd, ZCard, ExpireAndAnswer
<1>4. ASSUME NEW c \in Calls, (\E k \in Keys : Arrive(c, k)) \/ RedisFails(c)
      PROVE  expiry'[u] = expiry[u]
  BY <1>4 DEF Arrive, RedisFails
<1> QED
  BY <1>1, <1>2, <1>3, <1>4 DEF RateNext

(* How a bucket loses a member: it expires, or a call of its user prunes it. *)
LEMMA MemberLost ==
    ASSUME RateTypeOK, [RateNext]_rateVars, NEW u \in Users,
           NEW s \in bucket[u], s \notin bucket'[u]
    PROVE  \/ clock' = clock + 1 /\ expiry[u] = clock'
           \/ \E c \in Calls : ZRemRangeByScore(c) /\ ~(s > call[c].now - Window)
<1> USE DEF RateTypeOK
<1>1. ~UNCHANGED rateVars
  BY DEF rateVars
<1>2. CASE Tick
  BY <1>2 DEF Tick
<1>3. ASSUME NEW c \in Calls, AllowRate(c)
      PROVE  ZRemRangeByScore(c) /\ ~(s > call[c].now - Window)
  BY <1>3 DEF AllowRate, ZRemRangeByScore, ZAdd, ZCard, ExpireAndAnswer, Recent
<1>4. ASSUME NEW c \in Calls, (\E k \in Keys : Arrive(c, k)) \/ RedisFails(c)
      PROVE  FALSE
  BY <1>4 DEF Arrive, RedisFails
<1> QED
  BY <1>1, <1>2, <1>3, <1>4 DEF RateNext

(* A bucket gets a member by the ZADD of a call of its user. *)
LEMMA MemberGained ==
    ASSUME RateTypeOK, [RateNext]_rateVars, NEW u \in Users,
           NEW s \in bucket'[u], s \notin bucket[u]
    PROVE  \E c \in Calls : ZAdd(c) /\ Moved(c, "count") /\ UserOfCall(c) = u /\ call[c].now = s
<1>1. PICK c \in Calls : ZAdd(c)
  BY OnlyZAddAdds
<1>2. UserOfCall(c) = u /\ call[c].now = s
  BY <1>1 DEF ZAdd, RateTypeOK
<1> QED
  BY <1>1, <1>2, CommandMoves

(* Between ZADD and EXPIRE a call goes on, unless it ends with its EXPIRE. *)
LEMMA AddingStays ==
    ASSUME WholePipelines, RateTypeOK, OwnSecondKept, [RateNext]_rateVars,
           NEW u \in Users, NEW d \in Calls, Adding(d, u)
    PROVE  \/ Adding(d, u)' /\ call'[d].now = call[d].now
           \/ expiry'[u] = clock + 2 * Window
<1>1. CASE call'[d] = call[d]
  BY <1>1 DEF Adding, UserOfCall
<1>2. CASE ZCard(d) /\ Moved(d, "expire")
  BY <1>2 DEF Adding, UserOfCall, Moved
<1>3. CASE \E heard \in BOOLEAN : ExpireAndAnswer(d, heard)
  <2>1. bucket[u] # {}
    BY DEF OwnSecondKept
  <2> QED
    BY <1>3, <2>1 DEF ExpireAndAnswer, Adding, RateTypeOK
<1>4. ASSUME NEW c \in Calls, c # d,
             (\E k \in Keys : Arrive(c, k)) \/ RedisFails(c) \/ AllowRate(c)
      PROVE  call'[d] = call[d]
  BY <1>4, CommandMoves, CallReplaced DEF AllowRate, Moved, Others
<1>5. ~RedisFails(d) /\ (\A k \in Keys : ~Arrive(d, k)) /\ ~ZRemRangeByScore(d) /\ ~ZAdd(d)
  BY DEF Adding, WholePipelines, RedisFails, Arrive, ZRemRangeByScore, ZAdd
<1>6. CASE UNCHANGED rateVars \/ Tick
  BY <1>1, <1>6 DEF rateVars, Tick
<1> QED
  BY <1>1, <1>2, <1>3, <1>4, <1>5, <1>6, CommandMoves DEF RateNext, AllowRate
(* No bucket expires under a call that has pruned it. *)
LEMMA NoExpiryUnderCall ==
    ASSUME RateTypeOK, Timely, ExpiryAhead, [RateNext]_rateVars, clock' = clock + 1,
           NEW c \in Calls, call[c].step \in {"add", "count", "expire"}
    PROVE  expiry[UserOfCall(c)] # clock'
<1>1. Tick
  <2>1. clock \in Nat
    BY DEF RateTypeOK
  <2>2. clock' # clock
    BY <2>1
  <2> QED
    BY <2>2 DEF RateNext, AllowRate, ZRemRangeByScore, ZAdd, ZCard, ExpireAndAnswer, Arrive,
                RedisFails, rateVars
<1>2. \A d \in Calls : call[d].step \in InPipeline =>
        call[d].now \in Nat /\ clock' <= call[d].now + MaxDelay
  BY <1>1, CallFields, TimesWellFormed DEF Tick, RateTypeOK
<1>3. PICK d \in Calls : call[d].step \in InPipeline /\ FarExpiry(UserOfCall(c), call[d].now)
  BY DEF ExpiryAhead, Adding, InPipeline
<1>4. UserOfCall(c) \in Users
  BY CallFields DEF InPipeline
<1> QED
  BY <1>2, <1>3, <1>4, TimesWellFormed DEF FarExpiry, RateTypeOK

(* The second of a call between ZADD and EXPIRE stays in the bucket. *)
LEMMA OwnSecondKeptStep == BucketInv /\ [RateNext]_rateVars => OwnSecondKept'
<1> SUFFICES ASSUME BucketInv, [RateNext]_rateVars, NEW d \in Calls, NEW u \in Users, Adding(d, u)'
             PROVE  call'[d].now \in bucket'[u]
  BY DEF OwnSecondKept
<1> USE DEF BucketInv
<1>1. /\ call[d].step \in {"add", "count", "expire"} /\ call'[d].now = call[d].now
      /\ UserOfCall(d) = u
  BY CallCases DEF Adding, UserOfCall, Moved, ZAdd, ZCard
<1>2. CASE ZAdd(d)
  BY <1>1, <1>2 DEF ZAdd, RateTypeOK
<1>3. CASE ~ZAdd(d)
  <2>1. call[d].now \in bucket[u]
    BY <1>1, <1>3, CallCases DEF Adding, Moved, ZCard, OwnSecondKept
  <2> SUFFICES ASSUME call[d].now \notin bucket'[u] PROVE FALSE
    BY <1>1
  <2>2. CASE clock' = clock + 1 /\ expiry[u] = clock'
    BY <1>1, <2>2, NoExpiryUnderCall
  <2>3. ASSUME NEW c \in Calls, ZRemRangeByScore(c), ~(call[d].now > call[c].now - Window)
        PROVE  FALSE
    <3>1. call[c].step \in InPipeline /\ call[d].step \in InPipeline
      BY <1>1, <2>3 DEF ZRemRangeByScore, InPipeline
    <3>2. /\ call[c].now \in Nat /\ call[c].now <= clock /\ clock \in Nat
          /\ call[d].now \in Nat /\ clock <= call[d].now + MaxDelay
      BY <3>1, CallFields DEF Timely, RateTypeOK
    <3> QED
      BY <2>3, <3>2, TimesWellFormed
  <2> QED
    BY <2>1, <2>2, <2>3, MemberLost
<1> QED
  BY <1>2, <1>3

(* A member's EXPIRE has been run or is still to come. *)
LEMMA MembersCoveredStep ==
    ASSUME WholePipelines, BucketInv, [RateNext]_rateVars
    PROVE  MembersCovered'
<1> SUFFICES ASSUME NEW u \in Users, NEW s \in bucket'[u]
             PROVE  \/ expiry'[u] >= s + 2 * Window
                    \/ \E d \in Calls : Adding(d, u)' /\ call'[d].now = s
  BY DEF MembersCovered
<1> USE DEF BucketInv
<1>1. CASE s \notin bucket[u]
  <2>1. PICK c \in Calls : Moved(c, "count") /\ UserOfCall(c) = u /\ call[c].now = s
    BY <1>1, MemberGained
  <2> QED
    BY <2>1 DEF Moved, Adding, UserOfCall
<1>2. CASE s \in bucket[u]
  <2>0. s \in Nat /\ s <= clock /\ clock \in Nat /\ Window \in Nat
    BY <1>2, TimesWellFormed DEF RateTypeOK, Seconds
  <2>1. expiry'[u] = clock + 2 * Window => expiry'[u] >= s + 2 * Window
    BY <2>0
  <2>2. CASE expiry[u] >= s + 2 * Window
    BY <2>1, <2>2, ExpiryCases
  <2>3. ASSUME NEW d \in Calls, Adding(d, u), call[d].now = s
        PROVE  \/ expiry'[u] >= s + 2 * Window
               \/ \E e \in Calls : Adding(e, u)' /\ call'[e].now = s
    BY <2>1, <2>3, AddingStays
  <2> QED
    BY <1>2, <2>2, <2>3 DEF MembersCovered
<1> QED
  BY <1>1, <1>2

(* The bucket of a call that pruned it stays ahead of the call. *)
LEMMA ExpiryAheadStep ==
    ASSUME WholePipelines, BucketInv, [RateNext]_rateVars
    PROVE  ExpiryAhead'
<1> SUFFICES ASSUME NEW c \in Calls, call'[c].step \in {"add", "count", "expire"}
             PROVE  \/ FarExpiry(UserOfCall(c), call[c].now)'
                    \/ \E d \in Calls : Adding(d, UserOfCall(c))' /\ FarExpiry(UserOfCall(c), call[d].now)'
  BY DEF ExpiryAhead
<1> USE DEF BucketInv
<1> DEFINE u == UserOfCall(c)
<1>1. /\ call[c].step \in InPipeline /\ call'[c].now = call[c].now
      /\ UserOfCall(c)' = u
  BY CallCases DEF UserOfCall, Moved, ZRemRangeByScore, ZAdd, ZCard, InPipeline
<1>2. /\ u \in Users /\ call[c].now \in Nat /\ call[c].now <= clock /\ clock \in Nat
      /\ Window \in Nat \ {0} /\ expiry[u] \in Nat
  BY <1>1, CallFields, TimesWellFormed DEF RateTypeOK
<1>3. CASE expiry'[u] = 0 \/ expiry'[u] = clock + 2 * Window
  BY <1>1, <1>2, <1>3 DEF FarExpiry
<1>4. CASE expiry'[u] = expiry[u] /\ expiry'[u] # clock + 2 * Window
  <2>1. ASSUME NEW d \in Calls, Adding(d, u), FarExpiry(u, call[d].now)
        PROVE  Adding(d, u)' /\ FarExpiry(u, call[d].now)'
    BY <1>1, <1>2, <1>4, <2>1, AddingStays DEF FarExpiry
  <2>2. CASE call[c].step \in {"add", "count", "expire"}
    BY <1>1, <1>4, <2>1, <2>2 DEF ExpiryAhead, FarExpiry, Adding, UserOfCall
  <2>3. CASE ZRemRangeByScore(c) /\ expiry[u] # 0
    <3>1. PICK s \in bucket[u] : s > call[c].now - Window
      BY <1>2, <1>4, <2>3 DEF ZRemRangeByScore, Recent, RateTypeOK
    <3>2. s \in Nat
      BY <1>2 DEF RateTypeOK, Seconds
    <3>3. CASE expiry[u] >= s + 2 * Window
      BY <1>1, <1>2, <1>4, <3>1, <3>2, <3>3 DEF FarExpiry
    <3>4. ASSUME NEW d \in Calls, Adding(d, u), call[d].now = s
          PROVE  \E e \in Calls : Adding(e, u) /\ FarExpiry(u, call[e].now)
      BY <3>4 DEF ExpiryAhead, Adding
    <3> QED
      BY <1>1, <1>2, <2>1, <3>3, <3>4 DEF MembersCovered, Adding, FarExpiry
  <2> QED
    BY <1>2, <1>3, <1>4, <2>2, <2>3, CallCases DEF ZAdd, ZCard
<1> QED
  BY <1>2, <1>3, <1>4, ExpiryCases
(* How a second becomes admitted: by the answer to a call that has it in the bucket. *)
LEMMA AdmittedGained ==
    ASSUME RateTypeOK, OwnSecondKept, [RateNext]_rateVars, NEW k \in Keys,
           NEW s \in admitted'[k], s \notin admitted[k]
    PROVE  /\ \E c \in Calls : /\ call[c].step = "expire" /\ call[c].allow
                              /\ call[c].key = k /\ call[c].now = s
           /\ s \in bucket[OwnerOf[k]] /\ bucket' = bucket /\ clock' = clock
           /\ expiry'[OwnerOf[k]] = clock + 2 * Window
<1>1. PICK c \in Calls, heard \in BOOLEAN : ExpireAndAnswer(c, heard)
  BY DEF RateNext, AllowRate, ZRemRangeByScore, ZAdd, ZCard, Arrive, RedisFails, Tick, rateVars
<1>2. call[c].step = "expire" /\ call[c].allow /\ call[c].key = k /\ call[c].now = s
  BY <1>1 DEF ExpireAndAnswer, RateTypeOK
<1>3. UserOfCall(c) = OwnerOf[k] /\ OwnerOf[k] \in Users
  BY <1>2, KeysWellFormed DEF UserOfCall
<1>4. s \in bucket[OwnerOf[k]]
  BY <1>2, <1>3 DEF OwnSecondKept, Adding
<1> QED
  BY <1>1, <1>2, <1>3, <1>4 DEF ExpireAndAnswer, RateTypeOK

(* Recent admitted seconds stay in the bucket. *)
LEMMA AdmittedKeptStep == BucketInv /\ [RateNext]_rateVars => AdmittedKept'
<1> SUFFICES ASSUME BucketInv, [RateNext]_rateVars, NEW k \in Keys,
                    NEW s \in admitted'[k], s > clock' - Window
             PROVE  s \in bucket'[OwnerOf[k]] /\ expiry'[OwnerOf[k]] >= s + 2 * Window
  BY DEF AdmittedKept
<1> USE DEF BucketInv
<1> DEFINE u == OwnerOf[k]
<1>1. u \in Users /\ Window \in Nat \ {0} /\ clock \in Nat /\ expiry[u] \in Nat
  BY KeysWellFormed, TimesWellFormed DEF RateTypeOK
<1>2. clock' = clock \/ clock' = clock + 1
  BY DEF RateNext, AllowRate, ZRemRangeByScore, ZAdd, ZCard, ExpireAndAnswer, Arrive, RedisFails,
         Tick, rateVars
<1>3. CASE s \notin admitted[k]
  <2>1. s \in Nat /\ s <= clock
    BY <1>1, <1>3, AdmittedGained DEF RateTypeOK, Seconds
  <2> QED
    BY <1>1, <1>3, <2>1, AdmittedGained
<1>4. CASE s \in admitted[k]
  <2>1. s \in Nat /\ s <= clock
    BY <1>4 DEF RateTypeOK, Seconds
  <2>2. s \in bucket[u] /\ expiry[u] >= s + 2 * Window
    BY <1>1, <1>2, <1>4, <2>1 DEF AdmittedKept
  <2>3. s \in bucket'[u]
    <3> SUFFICES ASSUME s \notin bucket'[u] PROVE FALSE
      OBVIOUS
    <3>1. CASE clock' = clock + 1 /\ expiry[u] = clock'
      BY <1>1, <2>1, <2>2, <3>1
    <3>2. ASSUME NEW c \in Calls, ZRemRangeByScore(c), ~(s > call[c].now - Window)
          PROVE  FALSE
      <4>1. call[c].now \in Nat /\ call[c].now <= clock
        BY <3>2, CallFields DEF ZRemRangeByScore, InPipeline
      <4> QED
        BY <1>1, <1>2, <2>1, <3>2, <4>1
    <3> QED
      BY <1>1, <2>2, <3>1, <3>2, MemberLost
  <2>4. expiry'[u] >= s + 2 * Window
    BY <1>1, <2>1, <2>2, <2>3, ExpiryCases
  <2> QED
    BY <2>3, <2>4
<1> QED
  BY <1>3, <1>4

-----------------------------------------------------------------------------
(* The seconds of a key's calls that are admitted or will be. *)
Granted(k) ==
    {s \in Seconds : \/ s \in admitted[k]
                     \/ \E c \in Calls : /\ call[c].step = "expire" /\ call[c].allow
                                         /\ call[c].key = k /\ call[c].now = s}

GrantedWindow ==
    \A k \in Keys : \A t \in Seconds : Cardinality(InWindow(Granted(k), t)) <= RateOf[k]

(* Recent granted seconds are in the bucket. *)
LEMMA GrantedInBucket ==
    ASSUME BucketInv, NEW k \in Keys, NEW s \in Granted(k), s > clock - Window
    PROVE  s \in bucket[OwnerOf[k]]
BY KeysWellFormed DEF BucketInv, Granted, AdmittedKept, OwnSecondKept, Adding, UserOfCall

(* A second is granted by a ZCARD that saw no more members than the rate. *)
LEMMA GrantedGained ==
    ASSUME BucketInv, [RateNext]_rateVars, NEW k \in Keys,
           NEW s \in Granted(k)', s \notin Granted(k)
    PROVE  \E c \in Calls :
              /\ ZCard(c) /\ call[c].key = k /\ call[c].now = s
              /\ Cardinality(bucket[OwnerOf[k]]) <= RateOf[k]
<1> USE DEF BucketInv
<1>1. ASSUME s \in Seconds PROVE s \notin admitted'[k]
  BY <1>1, AdmittedGained DEF Granted
<1>2. s \notin admitted'[k]
  <2>1. s \in admitted[k] => s \in Seconds
    BY DEF RateTypeOK
  <2>2. s \in admitted'[k] /\ s \notin admitted[k] => s \in Seconds
    BY AdmittedGained, KeysWellFormed DEF RateTypeOK
  <2> QED
    BY <1>1, <2>1, <2>2
<1>3. PICK c \in Calls : /\ call'[c].step = "expire" /\ call'[c].allow
                         /\ call'[c].key = k /\ call'[c].now = s
  BY <1>2 DEF Granted
<1>4. call'[c] # call[c]
  BY <1>3, CallTyped DEF Granted, PipelineCalls, InPipeline
<1>5. ZCard(c) /\ Moved(c, "expire")
  BY <1>3, <1>4, CallCases DEF Moved
<1> QED
  BY <1>3, <1>5, ZCardDecides DEF Moved, WithinRate, UserOfCall

(* Granted seconds stay within the rate. *)
LEMMA GrantedWindowStep == BucketInv /\ GrantedWindow /\ [RateNext]_rateVars => GrantedWindow'
<1> SUFFICES ASSUME BucketInv, GrantedWindow, [RateNext]_rateVars,
                    NEW k \in Keys, NEW t \in Seconds'
             PROVE  Cardinality(InWindow(Granted(k)', t)) <= RateOf[k]
  BY DEF GrantedWindow, InWindow
<1> USE DEF BucketInv
<1> DEFINE w == Window - MaxDelay
           new == InWindow(Granted(k)', t)
<1>1. /\ clock \in Nat /\ clock' \in Nat /\ t \in 0..clock' /\ RateOf[k] \in Nat
      /\ Window \in Nat /\ MaxDelay \in Nat /\ MaxDelay < Window /\ OwnerOf[k] \in Users
  BY RateStepTyped, KeysWellFormed, TimesWellFormed DEF RateTypeOK, Seconds
<1>2. clock' = clock \/ clock' = clock + 1
  BY DEF RateNext, AllowRate, ZRemRangeByScore, ZAdd, ZCard, ExpireAndAnswer, Arrive, RedisFails,
         Tick, rateVars
<1>3. CASE new \subseteq Granted(k)
  <2> DEFINE t0 == IF t <= clock THEN t ELSE clock
             old == InWindow(Granted(k), t0)
  <2>1. t0 \in Seconds
    BY <1>1 DEF Seconds
  <2>2. new \in SUBSET old
    BY <1>1, <1>2, <1>3 DEF InWindow, Granted, Seconds
  <2>3. old \in SUBSET (0..clock)
    BY DEF InWindow, Granted, Seconds
  <2>4. Cardinality(old) <= RateOf[k]
    BY <2>1 DEF GrantedWindow
  <2> HIDE DEF new, old, t0
  <2>5. Cardinality(new) \in Nat /\ Cardinality(old) \in Nat
        /\ Cardinality(new) <= Cardinality(old)
    BY <1>1, <2>2, <2>3, SecondsCounted
  <2> QED
    BY <1>1, <2>4, <2>5 DEF new
<1>4. CASE ~(new \subseteq Granted(k))
  <2>1. PICK s \in Granted(k)' : s \notin Granted(k) /\ t - w < s /\ s <= t
    BY <1>4 DEF InWindow
  <2>2. PICK c \in Calls : /\ ZCard(c) /\ call[c].key = k /\ call[c].now = s
                           /\ Cardinality(bucket[OwnerOf[k]]) <= RateOf[k]
    BY <2>1, GrantedGained
  <2>3. /\ clock' = clock /\ s \in Nat /\ s <= clock /\ clock <= s + MaxDelay
        /\ s \in bucket[OwnerOf[k]]
    <3>1. call[c].step \in InPipeline /\ Adding(c, OwnerOf[k])
      BY <2>2 DEF ZCard, InPipeline, Adding, UserOfCall
    <3> QED
      BY <1>1, <2>2, <3>1, CallFields DEF ZCard, Timely, OwnSecondKept
  <2>4. ASSUME NEW x \in new PROVE x \in bucket[OwnerOf[k]]
    <3>1. x \in Granted(k)' /\ x \in Nat /\ x > clock - Window
      BY <1>1, <2>1, <2>3, <2>4 DEF InWindow, Granted, Seconds
    <3>2. CASE x \in Granted(k)
      BY <3>1, <3>2, GrantedInBucket
    <3>3. CASE x \notin Granted(k)
      <4>1. PICK d \in Calls : ZCard(d) /\ call[d].key = k /\ call[d].now = x
        BY <3>1, <3>3, GrantedGained
      <4> QED
        BY <1>1, <4>1 DEF ZCard, OwnSecondKept, Adding, UserOfCall
    <3> QED
      BY <3>2, <3>3
  <2> DEFINE B == bucket[OwnerOf[k]]
  <2>5. new \in SUBSET B /\ B \in SUBSET (0..clock) /\ Cardinality(B) <= RateOf[k]
    BY <1>1, <2>2, <2>4 DEF RateTypeOK, Seconds
  <2> HIDE DEF new, B
  <2>6. Cardinality(new) \in Nat /\ Cardinality(B) \in Nat /\ Cardinality(new) <= Cardinality(B)
    BY <1>1, <2>5, SecondsCounted
  <2> QED
    BY <1>1, <2>5, <2>6 DEF new
<1> QED
  BY <1>3, <1>4

WindowInv == BucketInv /\ GrantedWindow

(***************************************************************************)
(* When Redis runs the EXPIRE of every ZADD it runs, the calls AllowRate   *)
(* admits with a key fall into at most rate_limit_rpm seconds of every     *)
(* window, for any interleaving of the commands of any number of calls.    *)
(***************************************************************************)
THEOREM AdmittedSecondsBounded == WholePipelines => (RateSpec => []RateWindow)
<1> SUFFICES ASSUME WholePipelines PROVE RateSpec => []RateWindow
  OBVIOUS
<1>1. RateInit => WindowInv
  <2> SUFFICES ASSUME RateInit PROVE WindowInv
    OBVIOUS
  <2>1. RateTypeOK
    BY RateInitTyped
  <2>2. BucketInv
    BY <2>1 DEF RateInit, BucketInv, Timely, OwnSecondKept, MembersCovered, ExpiryAhead,
                AdmittedKept, Adding, Idle, InPipeline
  <2>3. ASSUME NEW k \in Keys, NEW t \in Seconds
        PROVE  Cardinality(InWindow(Granted(k), t)) <= RateOf[k]
    <3>1. InWindow(Granted(k), t) = {}
      BY DEF RateInit, Granted, InWindow, Idle
    <3> QED
      BY <3>1, FS_EmptySet, KeysWellFormed
  <2> QED
    BY <2>2, <2>3 DEF WindowInv, GrantedWindow
<1>2. WindowInv /\ [RateNext]_rateVars => WindowInv'
  <2> SUFFICES ASSUME WindowInv, [RateNext]_rateVars PROVE WindowInv'
    OBVIOUS
  <2>1. RateTypeOK' /\ Timely' /\ OwnSecondKept' /\ AdmittedKept'
    BY RateStepTyped, TimelyStep, OwnSecondKeptStep, AdmittedKeptStep DEF WindowInv, BucketInv
  <2>2. MembersCovered' /\ ExpiryAhead'
    BY MembersCoveredStep, ExpiryAheadStep DEF WindowInv
  <2>3. GrantedWindow'
    BY GrantedWindowStep DEF WindowInv
  <2> QED
    BY <2>1, <2>2, <2>3 DEF WindowInv, BucketInv
<1>3. WindowInv => RateWindow
  <2> SUFFICES ASSUME WindowInv, NEW k \in Keys, NEW t \in Seconds
               PROVE  Cardinality(InWindow(admitted[k], t)) <= RateOf[k]
    BY DEF RateWindow
  <2> DEFINE A == InWindow(admitted[k], t)
             G == InWindow(Granted(k), t)
  <2>1. /\ clock \in Nat /\ A \in SUBSET G /\ G \in SUBSET (0..clock)
        /\ Cardinality(G) <= RateOf[k] /\ RateOf[k] \in Nat
    BY KeysWellFormed DEF WindowInv, BucketInv, GrantedWindow, Granted, InWindow, RateTypeOK, Seconds
  <2> HIDE DEF A, G
  <2>2. Cardinality(A) \in Nat /\ Cardinality(G) \in Nat /\ Cardinality(A) <= Cardinality(G)
    BY <2>1, SecondsCounted
  <2> QED
    BY <2>1, <2>2 DEF A
<1> QED
  BY <1>1, <1>2, <1>3, PTL DEF RateSpec
=============================================================================
