------------------------------- MODULE KeyStore -------------------------------
(***************************************************************************)
(* KeyStore.verifyJwt / verifyInternal / getCachedKey (KeyStore.ts) over  *)
(* the keys and errors a KeyCollector returns.                            *)
(*                                                                         *)
(* A key is its kid (NoKid for a wildcard key), algorithm, signing secret, *)
(* requiresAudience (NoAud when unset) and maxLifetimeSeconds (NoMax when  *)
(* unset).  A token is its header kid and alg, the secret that signed it,  *)
(* its aud claim (NoAud when missing), exp - iat, whether jose accepts its *)
(* registered claims (sub, iat, exp present, not expired) and whether its  *)
(* parameters claim is an object or absent.  Signature verification is     *)
(* equality of secrets: jose and KeySpec.isValidSignature are trusted.     *)
(*                                                                         *)
(* The collector's state is the key list and whether it reported errors;  *)
(* noKeyFound asks it to refresh.                                         *)
(***************************************************************************)
EXTENDS Integers, Sequences, FiniteSets

CONSTANTS
  Kids, NoKid,       \* key ids
  Algs,              \* token / key algorithms
  Secrets,           \* signing material
  Auds, NoAud,       \* audience values
  DefaultAuds,       \* options.defaultAudiences
  MaxAge,            \* secs(options.maxAge)
  KeyLifetimes, NoMax,
  KeyAudiences,      \* requiresAudience values keys are configured with
  TokenDurations,
  TokenAudiences,    \* aud claims tokens carry (a string is a singleton)
  MaxKeys            \* bound on the length of the collector's key list

Key == [kid : Kids \cup {NoKid}, alg : Algs, secret : Secrets,
        aud : KeyAudiences \cup {NoAud}, life : KeyLifetimes \cup {NoMax}]

Token == [kid : Kids \cup {NoKid}, alg : Algs, signer : Secrets,
          aud : TokenAudiences \cup {NoAud}, dur : TokenDurations,
          claims : BOOLEAN, params : BOOLEAN]

\* Key lists of a JWKS: kids are unique, wildcard keys may repeat.
KeyLists ==
  {ks \in UNION {[1..n -> Key] : n \in 0..MaxKeys} :
     \A i, j \in DOMAIN ks : i /= j /\ ks[i].kid /= NoKid => ks[i].kid /= ks[j].kid}

VARIABLES
  keys,        \* the key list collector.getKeys() returns
  errs,        \* whether it also returns errors
  refreshReq   \* collector.noKeyFound() was called and not yet served

vars == <<keys, errs, refreshReq>>

-----------------------------------------------------------------------------
(* getCachedKey                                                            *)

\* Outcome of getCachedKey: the selected key's index, or an error.
Selected(i) == [err |-> "none", key |-> i, refresh |-> FALSE]
Failed(e, r) == [err |-> e, key |-> 0, refresh |-> r]

FirstIndex(S) == CHOOSE i \in S : \A j \in S : i <= j

\* Mutant: a kid-matched key with the wrong algorithm falls through to the
\* wildcard scan instead of throwing.
GetCachedKeyFallThrough(ks, es, hdr) ==
  LET kidMatch == {i \in DOMAIN ks : hdr.kid /= NoKid /\ ks[i].kid = hdr.kid /\ ks[i].alg = hdr.alg}
      wild == {i \in DOMAIN ks : ks[i].kid = NoKid /\ ks[i].alg = hdr.alg /\ ks[i].secret = hdr.signer}
  IN CASE kidMatch /= {} -> Selected(FirstIndex(kidMatch))
       [] wild /= {} -> Selected(FirstIndex(wild))
       [] es -> Failed("collector", FALSE)
       [] OTHER -> Failed("keyNotFound", TRUE)

\* A key whose kid equals the header kid is the key, whatever its
\* algorithm; otherwise the first wildcard key with the token's algorithm
\* and a valid signature.  A miss throws the collector's first error, or
\* triggers noKeyFound and throws "Could not find an appropriate key".
GetCachedKey(ks, es, hdr) ==
  LET kidMatch == {i \in DOMAIN ks : hdr.kid /= NoKid /\ ks[i].kid = hdr.kid}
      wild == {i \in DOMAIN ks : ks[i].kid = NoKid /\ ks[i].alg = hdr.alg /\ ks[i].secret = hdr.signer}
  IN CASE kidMatch /= {} ->
            IF ks[FirstIndex(kidMatch)].alg = hdr.alg
            THEN Selected(FirstIndex(kidMatch))
            ELSE Failed("alg", FALSE)
       [] wild /= {} -> Selected(FirstIndex(wild))
       [] es -> Failed("collector", FALSE)
       [] OTHER -> Failed("keyNotFound", TRUE)

\* jose.jwtVerify with the key resolved by getCachedKey: the signature,
\* then the required claims and expiry (errors mapped by mapAuthError).
VerifyInternal(ks, es, t) ==
  LET r == GetCachedKey(ks, es, t) IN
  CASE r.err /= "none" -> r
    [] ks[r.key].secret /= t.signer -> Failed("signature", FALSE)
    [] ~t.claims -> Failed("claims", FALSE)
    [] OTHER -> r

\* Mutant: a token whose lifetime equals the limit is rejected.
WithinMaxAgeStrict(dur, limit) == dur < limit

\* tokenDuration > maxAge rejects.
WithinMaxAge(dur, limit) == dur <= limit

\* verifyJwt: the key's requiresAudience replaces the default audiences;
\* aud must be present and overlap them; exp - iat may not exceed the
\* key's maxLifetimeSeconds, else options.maxAge; parameters must be an
\* object.
VerifyJwt(ks, es, t) ==
  LET r == VerifyInternal(ks, es, t)
      k == ks[r.key]
      audiences == IF k.aud /= NoAud THEN k.aud ELSE DefaultAuds
      maxAge == IF k.life /= NoMax THEN k.life ELSE MaxAge
  IN CASE r.err /= "none" -> r
       [] t.aud = NoAud -> Failed("aud", FALSE)
       [] t.aud \cap audiences = {} -> Failed("aud", FALSE)
       [] ~WithinMaxAge(t.dur, maxAge) -> Failed("maxAge", FALSE)
       [] ~t.params -> Failed("params", FALSE)
       [] OTHER -> r


-----------------------------------------------------------------------------
(* The collector                                                           *)

Init ==
  /\ keys \in KeyLists
  /\ errs \in BOOLEAN
  /\ refreshReq = FALSE

\* One request: verifyJwt runs against the collector's current keys; a
\* miss without collector errors calls noKeyFound.
Verify(t) ==
  /\ refreshReq' = (refreshReq \/ VerifyJwt(keys, errs, t).refresh)
  /\ UNCHANGED <<keys, errs>>

\* The collector serves noKeyFound: it fetches again and returns whatever
\* the key source now holds, or errors.
Refresh ==
  /\ refreshReq
  /\ keys' \in KeyLists
  /\ errs' \in BOOLEAN
  /\ refreshReq' = FALSE

Next == (\E t \in Token : Verify(t)) \/ Refresh

Spec == Init /\ [][Next]_vars

-----------------------------------------------------------------------------
(* Section 4.8 of the specification, read declaratively                    *)

\* The key a token selects: the key with the token's kid if there is one,
\* else the first wildcard key whose algorithm matches and whose signature
\* verifies; 0 when none.
SpecKey(ks, t) ==
  LET byKid == {i \in DOMAIN ks : t.kid /= NoKid /\ ks[i].kid = t.kid}
      wild == {i \in DOMAIN ks : ks[i].kid = NoKid /\ ks[i].alg = t.alg /\ ks[i].secret = t.signer}
  IN IF byKid /= {} THEN FirstIndex(byKid)
     ELSE IF wild /= {} THEN FirstIndex(wild) ELSE 0

\* A token is accepted iff it selects a key of its algorithm that verifies
\* it, carries the required claims, has an aud overlapping the key's
\* audience (or the configured list), a lifetime within the key's limit
\* (or the configured one), and an object as parameters.
SpecAccepts(ks, t) ==
  LET i == SpecKey(ks, t) IN
  /\ i /= 0
  /\ ks[i].alg = t.alg
  /\ ks[i].secret = t.signer
  /\ t.claims
  /\ t.aud /= NoAud
  /\ t.aud \cap (IF ks[i].aud = NoAud THEN DefaultAuds ELSE ks[i].aud) /= {}
  /\ t.dur <= (IF ks[i].life = NoMax THEN MaxAge ELSE ks[i].life)
  /\ t.params

-----------------------------------------------------------------------------
(* Properties                                                              *)

TypeOK ==
  /\ keys \in KeyLists
  /\ errs \in BOOLEAN
  /\ refreshReq \in BOOLEAN

\* For every key list a collector can return and every token, verifyJwt
\* accepts exactly the tokens section 4.8 accepts, and with the key it
\* selects: kid lookup without fallback, the first verifying wildcard key,
\* per-key audience replacement and lifetime override, at the boundary.
VerifyMatchesSpec ==
  \A t \in Token :
    LET r == VerifyJwt(keys, errs, t) IN
    /\ (r.err = "none") = SpecAccepts(keys, t)
    /\ r.err = "none" => r.key = SpecKey(keys, t)

\* Section 4.8, step 5: a token that selects no key triggers a background
\* refresh of the collectors (getCachedKey's noKeyFound call).
MissTriggersRefresh ==
  \A t \in Token : SpecKey(keys, t) = 0 => VerifyJwt(keys, errs, t).refresh

=============================================================================
