------------------------------- MODULE JwksCache -------------------------------
(***************************************************************************)
(* Validation of bearer tokens (app/core/auth_jwt.py): the cache of the    *)
(* identity provider's signing keys that the requests of one process       *)
(* share, its refresh when it expires and when a token names an unknown    *)
(* key, and the rotation of keys at the provider.                          *)
(*                                                                         *)
(* A step runs from one await to the next. A fetch takes two: the provider *)
(* answers with the keys it publishes then, and the answer is stored later.*)
(* Time is what can happen: a cache entry expires, a cooldown ends, a wait *)
(* for the lock times out. A configured jwks_url is a discovery document   *)
(* that never expires. Signature and claims are one free choice.           *)
(*                                                                         *)
(* The names are other than those of RateLimit, so that one module can     *)
(* extend both.                                                            *)
(***************************************************************************)
EXTENDS Naturals, FiniteSets

CONSTANTS
    Tokens,         \* token validations that may be in progress at once
    Kids,           \* key ids
    NoToken,
    MaxRotations,   \* Bound: changes of the published keys
    MaxFaults       \* Bound: failed fetches and cancelled requests

ASSUME JwksAssumption ==
    NoToken \notin Tokens /\ MaxRotations \in Nat /\ MaxFaults \in Nat /\ Kids # {}

VARIABLES
    published,  \* keys the provider publishes
    cache,      \* _jwks_cache: its keys and whether expires_at is ahead
    discovery,  \* _discovery_cache is there and has not expired
    lock,       \* holder of _jwks_refresh_lock
    cooling,    \* the last forced refresh is less than the cooldown ago
    forced,     \* history: forced refreshes since the cooldown last ended
    rotations, faults,
    tokenReq    \* validations in progress

jwksVars == <<published, cache, discovery, lock, cooling, forced, rotations, faults, tokenReq>>
provider == <<published, rotations>>

NoValidation == [pc |-> "idle"]
Waits == {"discover", "fetch", "answered", "lock"}
Ends == {"accepted", "rejected"}

\* The cache starts empty. The clock of the cooldown is the uptime of the host and
\* starts at zero, so that a host that has just booted starts with a cooldown.
JwksInit ==
    /\ \E k \in Kids : published = {k}
    /\ cache = [keys |-> {}, fresh |-> FALSE]
    /\ discovery = FALSE
    /\ lock = NoToken
    /\ cooling \in BOOLEAN
    /\ forced = 0
    /\ rotations = 0 /\ faults = 0
    /\ tokenReq = [t \in Tokens |-> NoValidation]

-------------------------------------------------------------------------------
(* Pieces of _resolve_signing_key.                                         *)

\* After a refresh: one more look for the key.
Settle(t, keys) ==
    tokenReq' = [tokenReq EXCEPT ![t].pc = IF tokenReq[t].kid \in keys THEN "key" ELSE "rejected"]

\* Variant: only an empty cache is fetched.
NeverExpires == cache.keys # {}

\* _get_jwks may use the cache.
Fresh == cache.fresh

\* Where a validation waits for the provider: _resolve_jwks_url, then the keys.
FirstFetch == IF discovery THEN "fetch" ELSE "discover"

\* The first look for the key, and _refresh_jwks_after_kid_miss up to its lock.
Look(t, kid, keys) ==
    tokenReq' = [tokenReq EXCEPT ![t] = [pc |-> CASE kid \in keys -> "key"
                                                  [] kid \notin keys /\ cooling -> "rejected"
                                                  [] OTHER -> "lock",
                                         kid |-> kid, refresh |-> FALSE, answer |-> {}]]

-------------------------------------------------------------------------------

\* validate_token; the header may be refused before any key is looked for.
Validate(t, kid) ==
    /\ tokenReq[t] = NoValidation
    /\ IF Fresh THEN Look(t, kid, cache.keys)
       ELSE tokenReq' = [tokenReq EXCEPT ![t] = [pc |-> FirstFetch, kid |-> kid,
                                                 refresh |-> FALSE, answer |-> {}]]
    /\ UNCHANGED <<provider, cache, discovery, lock, cooling, forced, faults>>

\* _get_discovery_document.
Discovered(t) ==
    /\ tokenReq[t].pc = "discover"
    /\ discovery' = TRUE
    /\ tokenReq' = [tokenReq EXCEPT ![t].pc = "fetch"]
    /\ UNCHANGED <<provider, cache, lock, cooling, forced, faults>>

\* The provider serves its key set.
ProviderAnswers(t) ==
    /\ tokenReq[t].pc = "fetch"
    /\ tokenReq' = [tokenReq EXCEPT ![t].pc = "answered", ![t].answer = published]
    /\ UNCHANGED <<provider, cache, discovery, lock, cooling, forced, faults>>

\* Variant: the lock is kept when the refresh does not end well.
KeepsLock(t) == lock

\* The finally of _refresh_jwks_after_kid_miss.
Released(t) == IF lock = t THEN NoToken ELSE lock

\* Variant: an entry that is there gets a new expiry and keeps its keys.
OnlyRenewed(t) == IF cache.keys = {} THEN tokenReq[t].answer ELSE cache.keys

\* The key set a fetch ends with.
Fetched(t) == tokenReq[t].answer

\* _fetch_and_cache_jwks ends and the validation goes on.
Store(t) ==
    /\ tokenReq[t].pc = "answered"
    /\ cache' = [keys |-> Fetched(t), fresh |-> TRUE]
    /\ IF tokenReq[t].refresh THEN Settle(t, Fetched(t)) ELSE Look(t, tokenReq[t].kid, Fetched(t))
    /\ lock' = Released(t)
    /\ UNCHANGED <<provider, discovery, cooling, forced, faults>>

\* UnauthorizedError from a fetch: a forced refresh falls back to the old keys.
FetchFails(t) ==
    /\ tokenReq[t].pc \in {"discover", "fetch", "answered"}
    /\ faults < MaxFaults
    /\ faults' = faults + 1
    /\ Settle(t, IF tokenReq[t].refresh THEN cache.keys ELSE {})
    /\ lock' = Released(t)
    /\ UNCHANGED <<provider, cache, discovery, cooling, forced>>

\* Variant: the cooldown is not looked at again under the lock.
RefreshAnyway == FALSE

\* Somebody else has refreshed while this validation waited.
RefreshedMeanwhile == cooling

LockAcquired(t) ==
    /\ tokenReq[t].pc = "lock" /\ lock = NoToken
    /\ IF RefreshedMeanwhile
       THEN Settle(t, cache.keys) /\ UNCHANGED <<lock, cooling, forced>>
       ELSE /\ lock' = t /\ cooling' = TRUE /\ forced' = forced + 1
            /\ tokenReq' = [tokenReq EXCEPT ![t].pc = FirstFetch, ![t].refresh = TRUE]
    /\ UNCHANGED <<provider, cache, discovery, faults>>

LockTimesOut(t) ==
    /\ tokenReq[t].pc = "lock" /\ lock # NoToken
    /\ Settle(t, cache.keys)
    /\ UNCHANGED <<provider, cache, discovery, lock, cooling, forced, faults>>

\* jwt.decode, _validate_authorized_party, _validate_token_lifetime.
Verify(t) ==
    /\ tokenReq[t].pc = "key"
    /\ \E outcome \in Ends : tokenReq' = [tokenReq EXCEPT ![t].pc = outcome]
    /\ UNCHANGED <<provider, cache, discovery, lock, cooling, forced, faults>>

\* The client goes away and the task of the request is cancelled at an await.
Cancelled(t) ==
    /\ tokenReq[t].pc \in Waits
    /\ faults < MaxFaults
    /\ faults' = faults + 1
    /\ lock' = Released(t)
    /\ tokenReq' = [tokenReq EXCEPT ![t] = NoValidation]
    /\ UNCHANGED <<provider, cache, discovery, cooling, forced>>

Respond(t) ==
    /\ tokenReq[t].pc \in Ends
    /\ tokenReq' = [tokenReq EXCEPT ![t] = NoValidation]
    /\ UNCHANGED <<provider, cache, discovery, lock, cooling, forced, faults>>

-------------------------------------------------------------------------------
(* The provider and the clock.                                             *)

Rotate ==
    /\ rotations < MaxRotations
    /\ \E K \in (SUBSET Kids) \ {{}, published} : published' = K
    /\ rotations' = rotations + 1
    /\ UNCHANGED <<cache, discovery, lock, cooling, forced, faults, tokenReq>>

CacheExpires ==
    /\ cache.fresh
    /\ cache' = [cache EXCEPT !.fresh = FALSE]
    /\ UNCHANGED <<provider, discovery, lock, cooling, forced, faults, tokenReq>>

DiscoveryExpires ==
    /\ discovery
    /\ discovery' = FALSE
    /\ UNCHANGED <<provider, cache, lock, cooling, forced, faults, tokenReq>>

CooldownEnds ==
    /\ cooling
    /\ cooling' = FALSE /\ forced' = 0
    /\ UNCHANGED <<provider, cache, discovery, lock, faults, tokenReq>>

Proceed(t) ==
    \/ Discovered(t) \/ ProviderAnswers(t) \/ Store(t) \/ FetchFails(t)
    \/ LockAcquired(t) \/ LockTimesOut(t) \/ Verify(t) \/ Cancelled(t) \/ Respond(t)

JwksNext ==
    \/ \E t \in Tokens, kid \in Kids : Validate(t, kid)
    \/ \E t \in Tokens : Proceed(t)
    \/ Rotate \/ CacheExpires \/ DiscoveryExpires \/ CooldownEnds

JwksSpec == JwksInit /\ [][JwksNext]_jwksVars

(* Requests go on (every wait has a timeout), and time passes: cache       *)
(* entries expire and cooldowns end.                                       *)
JwksFairness ==
    /\ \A t \in Tokens : WF_jwksVars(Proceed(t))
    /\ WF_jwksVars(CacheExpires) /\ WF_jwksVars(CooldownEnds)

JwksFairSpec == JwksSpec /\ JwksFairness

-------------------------------------------------------------------------------
(* Properties.                                                             *)

\* A validation in progress.
Validation == [pc : Waits \cup Ends \cup {"key"}, kid : Kids, refresh : BOOLEAN,
               answer : SUBSET Kids]

\* Types; and the lock is held exactly by the validation that refreshes under it.
JwksTypeOK ==
    /\ published \in (SUBSET Kids) \ {{}}
    /\ cache \in [keys : SUBSET Kids, fresh : BOOLEAN]
    /\ discovery \in BOOLEAN /\ cooling \in BOOLEAN /\ forced \in Nat
    /\ rotations \in 0..MaxRotations /\ faults \in 0..MaxFaults
    /\ tokenReq \in [Tokens -> Validation \cup {NoValidation}] /\ lock \in Tokens \cup {NoToken}
    /\ \A t \in Tokens : lock = t <=> tokenReq[t].pc \in Waits /\ tokenReq[t].refresh

\* However many tokens name unknown keys at once, and however their waits for the
\* lock end, the provider sees at most one forced refresh per cooldown.
OneRefreshPerCooldown == forced <= 1

\* A refresh ends, also when its fetch fails or its request is cancelled, and gives
\* the lock back.
LockIsFreed == [](lock # NoToken => <>(lock = NoToken))

\* A key that has been withdrawn for good stops being accepted, although a slow
\* answer with the old keys may be stored over newer ones.
RetiredKeyDies ==
    \A k \in Kids :
        <>[](k \notin published)
        => <>[](\A t \in Tokens : tokenReq[t].pc = "key" => tokenReq[t].kid # k)

\* A key that is published for good is found again and again by the tokens that
\* name it, although refreshes fail, are cancelled or are spent on unknown keys.
NewKeyLives ==
    \A k \in Kids :
        /\ <>[](k \in published)
        /\ []<>(\E t \in Tokens : tokenReq[t] # NoValidation /\ tokenReq[t].kid = k)
        => []<>(\E t \in Tokens : tokenReq[t].pc = "key" /\ tokenReq[t].kid = k)
===============================================================================
