------------------------------ MODULE RateLimit ------------------------------
(***************************************************************************)
(* The request rate of a user: RateLimitMiddleware and AllowRate over the  *)
(* sorted set bucket:{user}:rpm, whose members and scores are Unix         *)
(* seconds.  AllowRate sends a pipeline without MULTI, so the commands of  *)
(* several gateway handlers interleave, and the second a handler read from *)
(* its clock may have passed when its commands run.                        *)
(***************************************************************************)
EXTENDS Integers, FiniteSets

CONSTANTS
    Users,
    Keys,       \* API keys; a user may own several
    OwnerOf,    \* quarkgate_keys.user_id
    RateOf,     \* quarkgate_keys.rate_limit_rpm
    NoKey,      \* no request at a handler
    Calls,      \* requests at the rate limiter at the same time
    Window,     \* the 60 seconds of AllowRate
    MaxDelay,   \* seconds after which the Redis client gives up
    FailAt,     \* the commands a failing pipeline may stop before
    MaxClock    \* bound: the last second

ASSUME KeysWellFormed == OwnerOf \in [Keys -> Users] /\ RateOf \in [Keys -> Nat]

ASSUME TimesWellFormed ==
    /\ Window \in Nat \ {0} /\ MaxClock \in Nat
    /\ MaxDelay \in 0..(Window - 1)

ASSUME FaultsWellFormed == FailAt \subseteq {"prune", "add", "count", "expire"}

VARIABLES
    clock,      \* Unix time in seconds
    bucket,     \* the members of bucket:{user}:rpm
    expiry,     \* when that key expires, 0 without a TTL
    call,       \* per handler: its key, the second it read, its next command
    called,     \* history: the seconds in which a user's calls were counted
    admitted    \* history: the seconds of the calls admitted with a key

rateVars == <<clock, bucket, expiry, call, called, admitted>>

Seconds == 0..clock
InPipeline == {"prune", "add", "count", "expire"}

(* The pipeline is written at once: once Redis runs its ZADD it runs its EXPIRE. *)
WholePipelines == FailAt \subseteq {"prune", "add"}

Idle == [key |-> NoKey, now |-> 0, step |-> "idle", allow |-> FALSE]

UserOfCall(c) == OwnerOf[call[c].key]
CallGoto(c, step) == call' = [call EXCEPT ![c].step = step]

(* AuthMiddleware put the key in the context; AllowRate reads the clock. *)
Arrive(c, k) ==
    /\ call[c].step = "idle"
    /\ call' = [call EXCEPT ![c] = [key |-> k, now |-> clock, step |-> "prune", allow |-> FALSE]]
    /\ UNCHANGED <<clock, bucket, expiry, called, admitted>>

(* Mistakes: the window is a second short; the limit is compared before the own ZADD. *)
ShortWindow(S, now) == {s \in S : s > now - Window + 1}
BeforeOwnCall(n, rpm) == n - 1 <= rpm
StrictlyBelow(n, rpm) == n < rpm

(* What ZREMRANGEBYSCORE 0 (now - 60) leaves, and the final comparison. *)
Recent(S, now) == {s \in S : s > now - Window}
WithinRate(n, rpm) == n <= rpm

(* A sorted set that becomes empty is deleted, its TTL with it. *)
ZRemRangeByScore(c) ==
    LET u == UserOfCall(c)
        rest == Recent(bucket[u], call[c].now)
    IN  /\ call[c].step = "prune"
        /\ bucket' = [bucket EXCEPT ![u] = rest]
        /\ expiry' = [expiry EXCEPT ![u] = IF rest = {} THEN 0 ELSE @]
        /\ CallGoto(c, "add")
        /\ UNCHANGED <<clock, called, admitted>>

(* Mistake: the member is in milliseconds. *)
ZAddMillis(c) ==
    /\ call[c].step = "add"
    /\ bucket' = [bucket EXCEPT ![UserOfCall(c)] = @ \cup {1000 * call[c].now}]
    /\ called' = [called EXCEPT ![UserOfCall(c)] = @ \cup {call[c].now}]
    /\ CallGoto(c, "count")
    /\ UNCHANGED <<clock, expiry, admitted>>

(* The member is the second itself: calls of one second are one member. *)
ZAdd(c) ==
    /\ call[c].step = "add"
    /\ bucket' = [bucket EXCEPT ![UserOfCall(c)] = @ \cup {call[c].now}]
    /\ called' = [called EXCEPT ![UserOfCall(c)] = @ \cup {call[c].now}]
    /\ CallGoto(c, "count")
    /\ UNCHANGED <<clock, expiry, admitted>>

ZCard(c) ==
    /\ call[c].step = "count"
    /\ call' = [call EXCEPT ![c].step = "expire",
                            ![c].allow = WithinRate(Cardinality(bucket[UserOfCall(c)]),
                                                    RateOf[call[c].key])]
    /\ UNCHANGED <<clock, bucket, expiry, called, admitted>>

(***************************************************************************)
(* EXPIRE of 2 minutes ends the pipeline; the middleware passes on or      *)
(* answers 429, also when the replies did not reach it.                    *)
(***************************************************************************)
ExpireAndAnswer(c, heard) ==
    /\ call[c].step = "expire"
    /\ expiry' = [expiry EXCEPT ![UserOfCall(c)] = IF bucket[UserOfCall(c)] = {} THEN 0
                                                   ELSE clock + 2 * Window]
    /\ call' = [call EXCEPT ![c] = Idle]
    /\ admitted' = IF heard /\ call[c].allow
                   THEN [admitted EXCEPT ![call[c].key] = @ \cup {call[c].now}]
                   ELSE admitted
    /\ UNCHANGED <<clock, bucket, called>>

(* Any error of the pipeline is answered with 429; what already ran stays. *)
RedisFails(c) ==
    /\ call[c].step \in FailAt
    /\ call' = [call EXCEPT ![c] = Idle]
    /\ UNCHANGED <<clock, bucket, expiry, called, admitted>>

(* A second passes; keys expire; a call older than MaxDelay has failed before. *)
Tick ==
    /\ clock < MaxClock
    /\ \A c \in Calls : call[c].step \in InPipeline => clock < call[c].now + MaxDelay
    /\ clock' = clock + 1
    /\ bucket' = [u \in Users |-> IF expiry[u] = clock' THEN {} ELSE bucket[u]]
    /\ expiry' = [u \in Users |-> IF expiry[u] = clock' THEN 0 ELSE expiry[u]]
    /\ UNCHANGED <<call, called, admitted>>

RateInit ==
    /\ clock = 0
    /\ bucket = [u \in Users |-> {}] /\ expiry = [u \in Users |-> 0]
    /\ call = [c \in Calls |-> Idle]
    /\ called = [u \in Users |-> {}] /\ admitted = [k \in Keys |-> {}]

AllowRate(c) ==
    ZRemRangeByScore(c) \/ ZAdd(c) \/ ZCard(c) \/ \E heard \in BOOLEAN : ExpireAndAnswer(c, heard)

RateNext ==
    \/ Tick
    \/ \E c \in Calls : AllowRate(c) \/ RedisFails(c) \/ \E k \in Keys : Arrive(c, k)

RateSpec == RateInit /\ [][RateNext]_rateVars

-----------------------------------------------------------------------------
(* Types; a bucket holds seconds that have come, and only counted ones. *)
RateTypeOK ==
    /\ clock \in 0..MaxClock
    /\ bucket \in [Users -> SUBSET Seconds] /\ expiry \in [Users -> Nat]
    /\ call \in [Calls -> {Idle} \cup
                  [key : Keys, now : Seconds, step : InPipeline, allow : BOOLEAN]]
    /\ called \in [Users -> SUBSET Seconds] /\ admitted \in [Keys -> SUBSET Seconds]

(* The seconds of S in the Window - MaxDelay seconds that end with t. *)
InWindow(S, t) == {s \in S : t - (Window - MaxDelay) < s /\ s <= t}

(***************************************************************************)
(* AllowRate limits the seconds, not the calls: in any window, shortened   *)
(* by the delay of a call, the calls admitted with a key fall into at most *)
(* rate_limit_rpm different seconds, however the pipelines interleave, the *)
(* clock runs ahead of them and the bucket expires, as long as no pipeline *)
(* stops between ZADD and EXPIRE (WholePipelines).                         *)
(***************************************************************************)
RateWindow ==
    \A k \in Keys : \A t \in Seconds : Cardinality(InWindow(admitted[k], t)) <= RateOf[k]

(***************************************************************************)
(* No call is refused by a stale member: when AllowRate says no, calls of  *)
(* the user were counted in more than rate_limit_rpm seconds of the last   *)
(* Window, so a user who was quiet that long is let in again.              *)
(***************************************************************************)
RefusalJustified ==
    \A c \in Calls : call[c].step = "expire" /\ ~call[c].allow =>
        Cardinality(Recent(called[UserOfCall(c)], call[c].now)) > RateOf[call[c].key]
=============================================================================
