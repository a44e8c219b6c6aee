--------------------------- MODULE KeyCache_proofs ---------------------------
(***************************************************************************)
(* Type correctness of KeyCache and the finality of revocation, for every  *)
(* set of keys and any number of concurrent lookups.                       *)
(***************************************************************************)
EXTENDS KeyCache, TLAPS

(* Every initial state is well typed. *)
LEMMA KeyInitTyped == KeyInit => KeyTypeOK
BY DEF KeyInit, KeyTypeOK, AdminSteps, LookupSteps

(* Every step of a command, a lookup or an expiry keeps the types. *)
LEMMA KeyStepTyped == KeyTypeOK /\ [KeyNext]_keyVars => KeyTypeOK'
<1> SUFFICES ASSUME KeyTypeOK, [KeyNext]_keyVars PROVE KeyTypeOK'
  OBVIOUS
<1> USE DEF KeyTypeOK, AdminSteps, LookupSteps, AdminGoto, LookupGoto, MayFail
<1>1. CASE UNCHANGED keyVars
  BY <1>1 DEF keyVars
<1>2. ASSUME NEW k \in Keys, CreateKey(k) PROVE KeyTypeOK'
  BY <1>2 DEF CreateKey
<1>3. ASSUME NEW k \in Keys, CacheNewKey(k) PROVE KeyTypeOK'
  BY <1>3 DEF CacheNewKey
<1>4. ASSUME NEW k \in Keys, RevokeKey(k) PROVE KeyTypeOK'
  BY <1>4 DEF RevokeKey
<1>5. ASSUME NEW k \in Keys, InvalidateKey(k) PROVE KeyTypeOK'
  BY <1>5 DEF InvalidateKey
<1>6. ASSUME NEW k \in Keys, ExpireMeta(k) \/ ExpireIndex(k) PROVE KeyTypeOK'
  BY <1>6 DEF ExpireMeta, ExpireIndex
<1>7. ASSUME NEW q \in Lookups, GetKeyMeta(q) PROVE KeyTypeOK'
  BY <1>7 DEF GetKeyMeta
<1>8. ASSUME NEW q \in Lookups, FindKeyByTokenPG(q) PROVE KeyTypeOK'
  BY <1>8 DEF FindKeyByTokenPG
<1>9. ASSUME NEW q \in Lookups, FillCache(q) PROVE KeyTypeOK'
  BY <1>9 DEF FillCache
<1>10. ASSUME NEW q \in Lookups, NextRequest(q) PROVE KeyTypeOK'
  BY <1>10 DEF NextRequest
<1>11. ASSUME NEW q \in Lookups, NEW k \in Keys, Present(q, k) PROVE KeyTypeOK'
  BY <1>11 DEF Present
<1> QED
  BY <1>1, <1>2, <1>3, <1>4, <1>5, <1>6, <1>7, <1>8, <1>9, <1>10, <1>11
     DEF KeyNext, Lookup

(***************************************************************************)
(* KeyTypeOK is an invariant of KeySpec.                                   *)
(***************************************************************************)
THEOREM KeyTypeCorrect == KeySpec => []KeyTypeOK
BY KeyInitTyped, KeyStepTyped, PTL DEF KeySpec

(* A created key is known to its command, and it is cached as new only while active. *)
Created == \A k \in Keys : row[k] # "none" => admin[k] # "idle"
Cacheable == \A k \in Keys : admin[k] = "cacheMeta" => row[k] = "active"
KeyInv == KeyTypeOK /\ Created /\ Cacheable

(* The invariant holds initially. *)
LEMMA KeyInitInv == KeyInit => KeyInv
BY KeyInitTyped DEF KeyInit, KeyInv, Created, Cacheable

(* And every step preserves it. *)
LEMMA KeyStepInv == KeyInv /\ [KeyNext]_keyVars => KeyInv'
<1> SUFFICES ASSUME KeyInv, [KeyNext]_keyVars PROVE Created' /\ Cacheable'
  BY KeyStepTyped DEF KeyInv
<1> USE DEF KeyInv, KeyTypeOK, Created, Cacheable, AdminGoto, LookupGoto
<1>1. CASE UNCHANGED keyVars
  BY <1>1 DEF keyVars
<1>2. ASSUME NEW k \in Keys, CreateKey(k) PROVE Created' /\ Cacheable'
  BY <1>2 DEF CreateKey
<1>3. ASSUME NEW k \in Keys, CacheNewKey(k) PROVE Created' /\ Cacheable'
  BY <1>3 DEF CacheNewKey
<1>4. ASSUME NEW k \in Keys, RevokeKey(k) PROVE Created' /\ Cacheable'
  BY <1>4 DEF RevokeKey
<1>5. ASSUME NEW k \in Keys, InvalidateKey(k) PROVE Created' /\ Cacheable'
  BY <1>5 DEF InvalidateKey
<1>6. ASSUME NEW k \in Keys, ExpireMeta(k) \/ ExpireIndex(k) PROVE Created' /\ Cacheable'
  BY <1>6 DEF ExpireMeta, ExpireIndex
<1>7. ASSUME NEW q \in Lookups, Lookup(q) \/ NextRequest(q) \/ \E k \in Keys : Present(q, k)
      PROVE Created' /\ Cacheable'
  BY <1>7 DEF Lookup, GetKeyMeta, FindKeyByTokenPG, FillCache, NextRequest, Present
<1> QED
  BY <1>1, <1>2, <1>3, <1>4, <1>5, <1>6, <1>7 DEF KeyNext

(***************************************************************************)
(* A step leaves a dead key dead.  The row is written only by create-key   *)
(* and revoke-key, and the former needs a key that was never created; the  *)
(* cache is filled only at "fill", which a lookup enters from the table,   *)
(* where a revoked row is not found.                                       *)
(***************************************************************************)
LEMMA DeadStays ==
  ASSUME KeyInv, KeyNext, NEW k \in Keys, Dead(k) PROVE Dead(k)'
<1> USE DEF KeyInv, KeyTypeOK, Created, Cacheable, Dead, AdminGoto, LookupGoto, MayFail
<1>1. ASSUME NEW j \in Keys, CreateKey(j) PROVE Dead(k)'
  BY <1>1 DEF CreateKey
<1>2. ASSUME NEW j \in Keys, CacheNewKey(j) PROVE Dead(k)'
  BY <1>2 DEF CacheNewKey
<1>3. ASSUME NEW j \in Keys, RevokeKey(j) PROVE Dead(k)'
  BY <1>3 DEF RevokeKey
<1>4. ASSUME NEW j \in Keys, InvalidateKey(j) \/ ExpireMeta(j) \/ ExpireIndex(j) PROVE Dead(k)'
  BY <1>4 DEF InvalidateKey, ExpireMeta, ExpireIndex
<1>5. ASSUME NEW q \in Lookups, GetKeyMeta(q) PROVE Dead(k)'
  BY <1>5 DEF GetKeyMeta
<1>6. ASSUME NEW q \in Lookups, FindKeyByTokenPG(q) PROVE Dead(k)'
  BY <1>6 DEF FindKeyByTokenPG, ActiveRow
<1>7. ASSUME NEW q \in Lookups, FillCache(q) PROVE Dead(k)'
  BY <1>7 DEF FillCache
<1>8. ASSUME NEW q \in Lookups, NextRequest(q) \/ \E j \in Keys : Present(q, j) PROVE Dead(k)'
  BY <1>8 DEF NextRequest, Present
<1> QED
  BY <1>1, <1>2, <1>3, <1>4, <1>5, <1>6, <1>7, <1>8 DEF KeyNext, Lookup

(***************************************************************************)
(* Once a revoked key has left the cache and no lookup that saw it active  *)
(* is still filling, it is never accepted from the cache or table again.   *)
(***************************************************************************)
THEOREM RevocationIsFinal == KeySpec => RevocationFinal
<1>1. KeyInv /\ [KeyNext]_keyVars => [\A k \in Keys : Dead(k) => Dead(k)']_keyVars
  BY DeadStays
<1> QED
  BY KeyInitInv, KeyStepInv, <1>1, PTL DEF KeySpec, RevocationFinal
=============================================================================
