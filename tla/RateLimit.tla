------------------------------- MODULE RateLimit -------------------------------
(***************************************************************************)
(* The rate limiter (app/core/rate_limit) around one endpoint that creates *)
(* an invite: the ingress middleware, the bucket of the client address,    *)
(* the bucket of the actor, authorisation in the service, and the group of *)
(* business buckets that are consumed together.                            *)
(*                                                                         *)
(* Redis is the shared state: a counter and whether its key has an expiry. *)
(* A group is consumed by one Lua script; when the cluster redirects the   *)
(* script, by GET, INCR, PTTL and PEXPIRE commands one after the other;    *)
(* without a client for scripts, by test and hit of the limits library,    *)
(* whose moving window gives up one entry at a time. Every wait for Redis  *)
(* may time out, and a command that was given up may still be carried out  *)
(* later. PTTL and the PEXPIRE it leads to are one step: the key can only  *)
(* expire in between, and then PEXPIRE does nothing.                       *)
(***************************************************************************)
EXTENDS RateLimitPolicies, Sequences

CONSTANTS
    Requests,       \* requests that may be served at once
    ActorPolicy,    \* policy of the bucket of the actor
    Group,          \* policies of the business buckets, in the order of the check
    Deployments,    \* settings an instance is started with
    MaxErrors       \* Bound: waits for Redis that fail

ASSUME RateLimitAssumption ==
    /\ Group \in Seq(Policies) /\ Group # <<>>
    /\ {"pre_auth", ActorPolicy} \subseteq Policies /\ ActorPolicy # "pre_auth"
    /\ {"pre_auth", ActorPolicy} \cap {Group[i] : i \in DOMAIN Group} = {}
    /\ \A i, j \in DOMAIN Group : Group[i] = Group[j] => i = j
    /\ IsFiniteSet(Requests)
    /\ \A s \in Deployments : s \in Settings /\ ValidSettings(s)
    /\ MaxErrors \in Nat

VARIABLES
    runtime,    \* app.state: effective policies and clients, or NotStarted
    count,      \* counter or number of entries of the key of each bucket
    ttl,        \* buckets of the group whose key has an expiry
    late,       \* commands given up by their request that Redis still has to run
    errors,     \* waits that have failed
    req         \* requests being served

vars == <<runtime, count, ttl, late, errors, req>>

GroupBuckets == {Group[i] : i \in DOMAIN Group}
NotStarted == [started |-> FALSE]
Idle == [pc |-> "idle"]
Outcomes == {"forbidden", "blocked", "unavailable", "denied", "admitted"}

Init ==
    /\ runtime = NotStarted
    /\ count = [b \in Policies |-> 0]
    /\ ttl = {}
    /\ late = [script |-> 0, incr |-> [b \in GroupBuckets |-> 0]]
    /\ errors = 0
    /\ req = [r \in Requests |-> Idle]

\* init_rate_limiter: client is whether there is a client for grouped scripts.
RuntimeOf(s, client) ==
    [started |-> TRUE, protected |-> Protected(s), enabled |-> s.enabled,
     edge |-> s.edge, canAssert |-> s.edge /\ s.cidrs /\ s.edgeSecret,
     preAuth |-> s.enabled /\ s.preAuth, limit |-> EffectiveLimit(s),
     failOpen |-> EffectiveFailOpen(s), client |-> s.enabled /\ client]

Start(s, client) ==
    /\ runtime = NotStarted
    /\ runtime' = RuntimeOf(s, client)
    /\ UNCHANGED <<count, ttl, late, errors, req>>

-------------------------------------------------------------------------------
(* Shared pieces.                                                          *)

Limit(b) == runtime.limit[b]

\* Variant: a bucket is full only when it is over its limit.
OverFull(b) == count[b] > Limit(b)

Full(b) == count[b] >= Limit(b)

Goto(r, pc) == req' = [req EXCEPT ![r].pc = pc]
Charge(r, b, pc) ==
    /\ count' = [count EXCEPT ![b] = @ + 1]
    /\ req' = [req EXCEPT ![r].pc = pc, ![r].charged = @ \cup {b}]

\* A wait fails: the request goes on at pc when the policy is fail-open.
Fail(r, open, pc) ==
    /\ errors < MaxErrors
    /\ errors' = errors + 1
    /\ Goto(r, IF open THEN pc ELSE "unavailable")

\* Variant: the most lenient policy of the group decides.
LenientDecides == \E b \in GroupBuckets : runtime.failOpen[b]

\* _strictest_prepared_check: one fail-closed policy closes the group.
GroupFailOpen == \A b \in GroupBuckets : runtime.failOpen[b]

-------------------------------------------------------------------------------
(* Before the service.                                                     *)

\* RateLimitIngressMiddleware: asserted is a valid assertion of the edge.
Ingress(r, asserted, authorised) ==
    /\ runtime.started /\ req[r] = Idle
    /\ asserted => runtime.canAssert
    /\ req' = [req EXCEPT ![r] =
                 [pc |-> IF runtime.edge /\ ~asserted THEN "forbidden" ELSE "pre_auth",
                  authorised |-> authorised, asserted |-> asserted, charged |-> {}, idx |-> 1]]
    /\ UNCHANGED <<runtime, count, ttl, late, errors>>

\* The bucket checked at a step, whether it is checked, and the step after it.
BucketAt(pc) == IF pc = "pre_auth" THEN "pre_auth" ELSE ActorPolicy
CheckedAt(pc) == IF pc = "pre_auth" THEN runtime.preAuth ELSE runtime.enabled
After(pc) == IF pc = "pre_auth" THEN "actor" ELSE "service"

\* check_pre_auth_rate_limit, check_rate_limit and the hit they make.
CheckBucket(r) ==
    LET pc == req[r].pc
        b == BucketAt(pc)
    IN /\ pc \in {"pre_auth", "actor"}
       /\ \/ /\ ~CheckedAt(pc)
             /\ Goto(r, After(pc)) /\ UNCHANGED <<count, errors>>
          \/ /\ CheckedAt(pc) /\ ~Full(b)
             /\ Charge(r, b, After(pc)) /\ UNCHANGED errors
          \/ /\ CheckedAt(pc) /\ Full(b)
             /\ Goto(r, "blocked") /\ UNCHANGED <<count, errors>>
          \/ /\ CheckedAt(pc)
             /\ Fail(r, runtime.failOpen[b], After(pc))
             /\ count' \in {count, IF Full(b) THEN count ELSE [count EXCEPT ![b] = @ + 1]}
       /\ UNCHANGED <<runtime, ttl, late>>

\* The service decides before it runs the business rate limiter.
Authorised(r) == IF req[r].authorised THEN "group" ELSE "denied"

Authorise(r) ==
    /\ req[r].pc = "service"
    /\ Goto(r, Authorised(r))
    /\ UNCHANGED <<runtime, count, ttl, late, errors>>

\* check_rate_limits_for_buckets chooses how to consume the group.
ChooseClient(r) ==
    /\ req[r].pc = "group"
    /\ Goto(r, CASE ~runtime.enabled -> "admitted"
                 [] runtime.client -> "script"
                 [] OTHER -> "test")
    /\ UNCHANGED <<runtime, count, ttl, late, errors>>

-------------------------------------------------------------------------------
(* The group by Lua script.                                                *)

\* Variant: an expiry that is missing stays missing.
NoRepair(b) == ttl

\* A key that exists gets an expiry unless it has one.
WithExpiry(b) == IF count[b] > 0 THEN ttl \cup {b} ELSE ttl

FullBuckets == {i \in DOMAIN Group : Full(Group[i])}
FirstFull == Group[CHOOSE i \in FullBuckets : \A j \in FullBuckets : i <= j]

\* Variant: the buckets before the full one are charged.
ChargesEarlier ==
    [b \in Policies |->
        IF \E i \in DOMAIN Group : Group[i] = b /\ (\A j \in FullBuckets : i < j)
        THEN count[b] + 1 ELSE count[b]]

\* The counters after the script: all of the group, or none.
ScriptCounts ==
    [b \in Policies |->
        IF FullBuckets = {} /\ b \in GroupBuckets THEN count[b] + 1 ELSE count[b]]

\* GROUPED_FIXED_WINDOW_CONSUME_LUA.
Consume ==
    /\ count' = ScriptCounts
    /\ ttl' = IF FullBuckets = {} THEN ttl \cup GroupBuckets ELSE WithExpiry(FirstFull)

Script(r) ==
    /\ req[r].pc = "script"
    /\ Consume
    /\ req' = [req EXCEPT ![r].pc = IF FullBuckets = {} THEN "admitted" ELSE "blocked",
                          ![r].charged = @ \cup {b \in GroupBuckets : count'[b] > count[b]}]
    /\ UNCHANGED <<runtime, late, errors>>

\* The wait ends in an error; the script may be under way.
ScriptFails(r) ==
    /\ req[r].pc = "script"
    /\ Fail(r, GroupFailOpen, "admitted")
    /\ late' \in {late, [late EXCEPT !.script = @ + 1]}
    /\ UNCHANGED <<runtime, count, ttl>>

\* is_redis_cluster_fallback_error.
Redirected(r) ==
    /\ req[r].pc = "script"
    /\ Goto(r, "get")
    /\ UNCHANGED <<runtime, count, ttl, late, errors>>

LateScript ==
    /\ late.script > 0
    /\ Consume
    /\ late' = [late EXCEPT !.script = @ - 1]
    /\ UNCHANGED <<runtime, errors, req>>

-------------------------------------------------------------------------------
(* The group command by command, with the keys of the script:              *)
(* compatibility_consume_grouped_buckets_with_same_keys.                   *)

Bucket(r) == Group[req[r].idx]
LastBucket(r) == req[r].idx = Len(Group)

\* To the next bucket, or to pc after the last one.
Advanced(r, same, pc) ==
    IF LastBucket(r) THEN [req[r] EXCEPT !.pc = pc, !.idx = 1]
                     ELSE [req[r] EXCEPT !.pc = same, !.idx = @ + 1]
NextBucket(r, same, pc) == req' = [req EXCEPT ![r] = Advanced(r, same, pc)]

Get(r) ==
    /\ req[r].pc = "get"
    /\ IF Full(Bucket(r)) THEN Goto(r, "repair") ELSE NextBucket(r, "get", "incr")
    /\ UNCHANGED <<runtime, count, ttl, late, errors>>

RepairExpiry(r) ==
    /\ req[r].pc = "repair"
    /\ ttl' = WithExpiry(Bucket(r))
    /\ Goto(r, "blocked")
    /\ UNCHANGED <<runtime, count, late, errors>>

Incr(r) ==
    /\ req[r].pc = "incr"
    /\ count' = [count EXCEPT ![Bucket(r)] = @ + 1]
    /\ req' = [req EXCEPT ![r].pc = "expire", ![r].charged = @ \cup {Bucket(r)}]
    /\ UNCHANGED <<runtime, ttl, late, errors>>

SetExpiry(r) ==
    /\ req[r].pc = "expire"
    /\ ttl' = WithExpiry(Bucket(r))
    /\ NextBucket(r, "incr", "admitted")
    /\ UNCHANGED <<runtime, count, late, errors>>

\* The time for all the commands is up, or one of them fails.
FallbackFails(r) ==
    /\ req[r].pc \in {"get", "repair", "incr", "expire"}
    /\ Fail(r, GroupFailOpen, "admitted")
    /\ late' \in {late} \cup
         (IF req[r].pc = "incr" THEN {[late EXCEPT !.incr[Bucket(r)] = @ + 1]} ELSE {})
    /\ UNCHANGED <<runtime, count, ttl>>

LateIncr(b) ==
    /\ late.incr[b] > 0
    /\ count' = [count EXCEPT ![b] = @ + 1]
    /\ late' = [late EXCEPT !.incr[b] = @ - 1]
    /\ UNCHANGED <<runtime, ttl, errors, req>>

-------------------------------------------------------------------------------
(* The group without a client for scripts:                                 *)
(* _check_grouped_rate_limits_with_compatibility_fallback.                 *)

TestBucket(r) ==
    /\ req[r].pc = "test"
    /\ \/ Full(Bucket(r)) /\ Goto(r, "blocked") /\ UNCHANGED errors
       \/ ~Full(Bucket(r)) /\ NextBucket(r, "test", "hit") /\ UNCHANGED errors
       \/ /\ errors < MaxErrors /\ errors' = errors + 1
          /\ IF runtime.failOpen[Bucket(r)] THEN NextBucket(r, "test", "hit")
                                            ELSE Goto(r, "unavailable")
    /\ UNCHANGED <<runtime, count, ttl, late>>

HitBucket(r) ==
    LET b == Bucket(r)
    IN /\ req[r].pc = "hit"
       /\ \/ /\ Full(b) /\ Goto(r, "blocked") /\ UNCHANGED <<count, errors>>
          \/ /\ ~Full(b)
             /\ count' = [count EXCEPT ![b] = @ + 1]
             /\ req' = [req EXCEPT ![r] =
                          [Advanced(r, "hit", "admitted") EXCEPT !.charged = @ \cup {b}]]
             /\ UNCHANGED errors
          \/ /\ errors < MaxErrors /\ errors' = errors + 1
             /\ IF runtime.failOpen[b] THEN NextBucket(r, "hit", "admitted")
                                       ELSE Goto(r, "unavailable")
             /\ count' \in {count, IF Full(b) THEN count ELSE [count EXCEPT ![b] = @ + 1]}
       /\ UNCHANGED <<runtime, ttl, late>>

-------------------------------------------------------------------------------

\* The response is sent.
Answer(r) ==
    /\ req[r].pc \in Outcomes
    /\ req' = [req EXCEPT ![r] = Idle]
    /\ UNCHANGED <<runtime, count, ttl, late, errors>>

\* Redis drops a key whose expiry has come; an entry leaves the moving window.
Expire(b) ==
    /\ count[b] > 0
    /\ IF runtime.client /\ b \in GroupBuckets
       THEN b \in ttl /\ count' = [count EXCEPT ![b] = 0] /\ ttl' = ttl \ {b}
       ELSE count' = [count EXCEPT ![b] = @ - 1] /\ UNCHANGED ttl
    /\ UNCHANGED <<runtime, late, errors, req>>

Serve(r) ==
    \/ CheckBucket(r) \/ Authorise(r) \/ ChooseClient(r)
    \/ Script(r) \/ ScriptFails(r) \/ Redirected(r)
    \/ Get(r) \/ RepairExpiry(r) \/ Incr(r) \/ SetExpiry(r) \/ FallbackFails(r)
    \/ TestBucket(r) \/ HitBucket(r) \/ Answer(r)

Next ==
    \/ \E s \in Deployments, client \in BOOLEAN : Start(s, client)
    \/ \E r \in Requests : Serve(r)
    \/ \E r \in Requests, asserted, authorised \in BOOLEAN : Ingress(r, asserted, authorised)
    \/ \E b \in Policies : Expire(b)
    \/ LateScript
    \/ \E b \in GroupBuckets : LateIncr(b)

Spec == Init /\ [][Next]_vars

(* A request that is being served goes on, waits end in a timeout, and     *)
(* Redis expires keys and empties windows.                                 *)
Fairness ==
    /\ \A r \in Requests : WF_vars(Serve(r))
    /\ \A b \in Policies : WF_vars(Expire(b))

FairSpec == Spec /\ Fairness

-------------------------------------------------------------------------------
(* Properties.                                                             *)

Steps ==
    {"pre_auth", "actor", "service", "group", "script", "get", "repair", "incr",
     "expire", "test", "hit"} \cup Outcomes

Serving ==
    [pc : Steps, authorised : BOOLEAN, asserted : BOOLEAN, charged : SUBSET Policies,
     idx : DOMAIN Group]

\* Types; and only a key that exists has an expiry, whatever expires between an
\* INCR and the PEXPIRE after it.
TypeOK ==
    /\ \/ runtime = NotStarted
       \/ \E s \in Deployments, client \in BOOLEAN : runtime = RuntimeOf(s, client)
    /\ count \in [Policies -> Nat]
    /\ ttl \subseteq {b \in GroupBuckets : count[b] > 0}
    /\ late \in [script : 0..MaxErrors, incr : [GroupBuckets -> 0..MaxErrors]]
    /\ errors \in 0..MaxErrors
    /\ req \in [Requests -> {Idle} \cup Serving]

\* A bucket is never overdrawn, but for the group consumed command by command:
\* then by the requests that all saw the last free place, and by the increments
\* that were given up and came late.
QuotaHeld ==
    runtime.started =>
        \A b \in Policies :
            count[b] <= Limit(b) + (IF runtime.client /\ b \in GroupBuckets
                                    THEN Cardinality(Requests) - 1 + errors ELSE 0)

\* Whatever fails or is redirected, a request that reaches the endpoint has been
\* counted in every bucket that applies to it, unless the policy of that bucket
\* is fail-open.
AdmittedWasCounted ==
    \A r \in Requests :
        req[r].pc = "admitted" =>
            \A b \in GroupBuckets \cup {"pre_auth", ActorPolicy} :
                \/ b \in req[r].charged \/ runtime.failOpen[b] \/ ~runtime.enabled
                \/ b = "pre_auth" /\ ~runtime.preAuth

\* In staging and prod no accepted configuration lets a request through that
\* neither the edge nor the limiter has seen: it carries an assertion of the edge
\* or was counted before authentication, and an enabled limiter has counted it in
\* every sensitive bucket.
ProtectedIsLimited ==
    \A r \in Requests :
        req[r].pc = "admitted" /\ runtime.protected =>
            /\ req[r].asserted \/ "pre_auth" \in req[r].charged
            /\ runtime.enabled =>
                  (GroupBuckets \cup {ActorPolicy}) \ ReadPolicies \subseteq req[r].charged

\* A request that is refused for a full bucket of the group, or for its missing
\* rights, has not used up the quota of the tenant (only the limits library, in
\* place of Redis commands, may have hit an earlier bucket by then).
RefusedKeepsQuota ==
    \A r \in Requests :
        \/ req[r].pc = "denied"
        \/ req[r].pc = "blocked" /\ runtime.client
        => req[r].charged \cap GroupBuckets = {}

\* No bucket of the group stays full for ever: a key that lost its expiry, because
\* a request gave up between INCR and PEXPIRE or an INCR came late, gets one from
\* the requests it blocks.
BucketsRecover ==
    \A b \in GroupBuckets :
        []<>(\E r \in Requests : req[r].pc = "group") => []<>(runtime.started /\ ~Full(b))

===============================================================================
