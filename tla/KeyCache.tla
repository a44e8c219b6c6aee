------------------------------ MODULE KeyCache ------------------------------
(***************************************************************************)
(* API keys: the quarkgate_keys table, the Redis cache key:{hmac} with its *)
(* index keyid:{key_id}, the lookup of AuthMiddleware.findKeyByToken and   *)
(* the admin commands create-key and revoke-key.  Every PostgreSQL or      *)
(* Redis call is a step, so lookups, revocation and expiry interleave.     *)
(***************************************************************************)
EXTENDS Integers, FiniteSets

CONSTANTS
    Keys,        \* API keys, one token each
    Lookups,     \* requests being authenticated
    RedisFails   \* whether Redis commands may fail

ASSUME RedisFailsIsBoolean == RedisFails \in BOOLEAN

VARIABLES
    row,         \* quarkgate_keys.status: "none", "active" or "revoked"
    meta,        \* the keys with an entry key:{hmac}; its status is "active"
    index,       \* the keys with an entry keyid:{key_id}
    admin,       \* the step of the admin command working on a key
    lookup       \* per request: the token's key and the step of its lookup

keyVars == <<row, meta, index, admin, lookup>>

LookupSteps == {"idle", "cache", "table", "fill", "fillIndex", "granted", "denied"}
AdminSteps == {"idle", "cacheMeta", "cacheIndex", "created",
               "findIndex", "dropMeta", "dropIndex", "revoked"}

(* A SET or DEL that may fail, its error dropped: entries becomes entries or result. *)
MayFail(entries, result) == IF RedisFails THEN {entries, result} ELSE {result}

-----------------------------------------------------------------------------
(* The admin commands; each may stop after any of its steps. *)

AdminGoto(k, step) == admin' = [admin EXCEPT ![k] = step]

CreateKey(k) ==
    /\ admin[k] = "idle"
    /\ row' = [row EXCEPT ![k] = "active"]
    /\ AdminGoto(k, "cacheMeta")
    /\ UNCHANGED <<meta, index, lookup>>

(* cacheAPIKey: SetKeyMeta, then SetKeyIDIndex; an error ends the command there. *)
CacheNewKey(k) ==
    \/ /\ admin[k] = "cacheMeta"
       /\ meta' = meta \cup {k}
       /\ AdminGoto(k, "cacheIndex")
       /\ UNCHANGED <<row, index, lookup>>
    \/ /\ admin[k] = "cacheIndex"
       /\ index' = index \cup {k}
       /\ AdminGoto(k, "created")
       /\ UNCHANGED <<row, meta, lookup>>

(* Mistake: a status that the table's CHECK does not know. *)
SoftDelete(k) ==
    /\ admin[k] = "created"
    /\ row' = [row EXCEPT ![k] = "deleted"]
    /\ AdminGoto(k, "findIndex")
    /\ UNCHANGED <<meta, index, lookup>>

(* revoke-key takes the id that create-key printed at its end; it may be run again. *)
RevokeKey(k) ==
    /\ admin[k] \in {"created", "revoked"}
    /\ row' = [row EXCEPT ![k] = "revoked"]
    /\ AdminGoto(k, "findIndex")
    /\ UNCHANGED <<meta, index, lookup>>

(* GetKeyIDIndex; when it is found, DeleteKeyMeta and DeleteKeyIDIndex. *)
InvalidateKey(k) ==
    \/ /\ admin[k] = "findIndex"
       /\ \/ k \in index /\ AdminGoto(k, "dropMeta")
          \/ (k \notin index \/ RedisFails) /\ AdminGoto(k, "revoked")
       /\ UNCHANGED <<row, meta, index, lookup>>
    \/ /\ admin[k] = "dropMeta"
       /\ meta' \in MayFail(meta, meta \ {k})
       /\ AdminGoto(k, "dropIndex")
       /\ UNCHANGED <<row, index, lookup>>
    \/ /\ admin[k] = "dropIndex"
       /\ index' \in MayFail(index, index \ {k})
       /\ AdminGoto(k, "revoked")
       /\ UNCHANGED <<row, meta, lookup>>

-----------------------------------------------------------------------------
(* AuthMiddleware: a request presents the token that create-key printed. *)

LookupGoto(q, step) == lookup' = [lookup EXCEPT ![q].step = step]

Present(q, k) ==
    /\ lookup[q].step = "idle" /\ admin[k] \notin {"idle", "cacheMeta", "cacheIndex"}
    /\ lookup' = [lookup EXCEPT ![q] = [key |-> k, step |-> "cache"]]
    /\ UNCHANGED <<row, meta, index, admin>>

(* GetKeyMeta: a hit is trusted without looking at the table; an error is a miss. *)
GetKeyMeta(q) ==
    /\ lookup[q].step = "cache"
    /\ \/ lookup[q].key \in meta /\ LookupGoto(q, "granted")
       \/ (lookup[q].key \notin meta \/ RedisFails) /\ LookupGoto(q, "table")
    /\ UNCHANGED <<row, meta, index, admin>>

(* Mistake: the query does not filter on the status. *)
AnyStatus(q) == row[lookup[q].key] # "none"

(* WHERE key_prefix = $1 AND status = 'active', then the hash is compared. *)
ActiveRow(q) == row[lookup[q].key] = "active"

FindKeyByTokenPG(q) ==
    /\ lookup[q].step = "table"
    /\ LookupGoto(q, IF ActiveRow(q) THEN "fill" ELSE "denied")
    /\ UNCHANGED <<row, meta, index, admin>>

(* SetKeyMeta, then SetKeyIDIndex, with what the table said before. *)
FillCache(q) ==
    \/ /\ lookup[q].step = "fill"
       /\ meta' \in MayFail(meta, meta \cup {lookup[q].key})
       /\ LookupGoto(q, "fillIndex")
       /\ UNCHANGED <<row, index, admin>>
    \/ /\ lookup[q].step = "fillIndex"
       /\ index' \in MayFail(index, index \cup {lookup[q].key})
       /\ LookupGoto(q, "granted")
       /\ UNCHANGED <<row, meta, admin>>

(* The request is answered and another one takes its place. *)
NextRequest(q) ==
    /\ lookup[q].step \in {"granted", "denied"}
    /\ LookupGoto(q, "idle")
    /\ UNCHANGED <<row, meta, index, admin>>

(* Some command or lookup wrote key:{hmac} of k and has yet to write keyid:{key_id}. *)
Indexing(k) ==
    \/ admin[k] = "cacheIndex"
    \/ \E q \in Lookups : lookup[q] = [key |-> k, step |-> "fillIndex"]

(***************************************************************************)
(* The 24 hours of an entry pass.  The index is written after the entry    *)
(* and outlives it, unless writing it again failed.                        *)
(***************************************************************************)
ExpireMeta(k) ==
    /\ k \in meta
    /\ meta' = meta \ {k}
    /\ UNCHANGED <<row, index, admin, lookup>>

ExpireIndex(k) ==
    /\ k \in index
    /\ k \in meta => Indexing(k) \/ RedisFails
    /\ index' = index \ {k}
    /\ UNCHANGED <<row, meta, admin, lookup>>

Lookup(q) == GetKeyMeta(q) \/ FindKeyByTokenPG(q) \/ FillCache(q)

KeyInit ==
    /\ row = [k \in Keys |-> "none"]
    /\ meta = {} /\ index = {}
    /\ admin = [k \in Keys |-> "idle"]
    /\ lookup \in [Lookups -> {[key |-> k, step |-> "idle"] : k \in Keys}]

KeyNext ==
    \/ \E k \in Keys : CreateKey(k) \/ CacheNewKey(k) \/ RevokeKey(k) \/ InvalidateKey(k)
                        \/ ExpireMeta(k) \/ ExpireIndex(k)
    \/ \E q \in Lookups : Lookup(q) \/ NextRequest(q) \/ \E k \in Keys : Present(q, k)

KeySpec == KeyInit /\ [][KeyNext]_keyVars

(* A lookup runs to its end, a started revocation too, and entries expire. *)
FairKeySpec ==
    /\ KeySpec
    /\ \A q \in Lookups : WF_keyVars(Lookup(q))
    /\ \A k \in Keys : WF_keyVars(InvalidateKey(k)) /\ WF_keyVars(ExpireMeta(k))

-----------------------------------------------------------------------------
(* Types; row is the CHECK on quarkgate_keys.status. *)
KeyTypeOK ==
    /\ row \in [Keys -> {"none", "active", "revoked"}]
    /\ meta \subseteq Keys /\ index \subseteq Keys
    /\ admin \in [Keys -> AdminSteps]
    /\ lookup \in [Lookups -> [key : Keys, step : LookupSteps]]

(* The key is revoked, not cached, and no lookup is about to cache it. *)
Dead(k) ==
    /\ row[k] = "revoked" /\ k \notin meta
    /\ \A q \in Lookups : lookup[q].key = k => lookup[q].step # "fill"

(***************************************************************************)
(* Revocation is final: once a revoked key has left the cache and no       *)
(* lookup that saw it active is still filling, no lookup, command or       *)
(* expiry ever puts it back (findKeyByToken).                              *)
(***************************************************************************)
RevocationFinal == [][\A k \in Keys : Dead(k) => Dead(k)']_keyVars

(***************************************************************************)
(* Once a key is revoked its cache entry disappears for good, although     *)
(* lookups that read the table earlier may put it back (the 24 h TTL).     *)
(***************************************************************************)
RevocationTakesHold == \A k \in Keys : row[k] = "revoked" ~> [](k \notin meta)
=============================================================================
