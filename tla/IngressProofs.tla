----------------------------- MODULE IngressProofs -----------------------------
(***************************************************************************)
(* What a request meets before its endpoint: the safety properties of      *)
(* RateLimit, for any deployment, group of buckets, limits and number of   *)
(* requests and failures, and at the end those of JwksCache, for any       *)
(* number of tokens and keys. The two modules share no name, so one proof  *)
(* module can extend both.                                                 *)
(***************************************************************************)
EXTENDS RateLimit, JwksCache, FiniteSetTheorems, TLAPS

-------------------------------------------------------------------------------
(* The inductive invariants, in three layers.                              *)

ByScript == {"script", "get", "repair", "incr", "expire"}
ByLibrary == {"test", "hit"}

\* Nothing is served before the start; a group is consumed in one way only.
OneClient ==
    /\ runtime = NotStarted =>
          /\ \A b \in Policies : count[b] = 0
          /\ \A r \in Requests : req[r] = Idle
    /\ runtime = NotStarted \/ ~runtime.client =>
          /\ ttl = {} /\ late.script = 0
          /\ \A b \in GroupBuckets : late.incr[b] = 0
    /\ \A r \in Requests : /\ req[r].pc \in ByScript => runtime.client
                           /\ req[r].pc \in ByLibrary => ~runtime.client

\* Commands that were given up are among the failed waits.
LateIsFailed == \A b \in GroupBuckets : late.script + late.incr[b] <= errors

Basics == TypeOK /\ OneClient /\ LateIsFailed

InGroup == ByScript \cup ByLibrary
PastActor == {"service", "group", "denied", "admitted"} \cup InGroup
PastPreAuth == {"actor"} \cup PastActor

\* The bucket counted the request, or need not have.
Counted(r, b) == b \in req[r].charged \/ runtime.failOpen[b]

\* What was counted or asserted by the time a request is at a step.
PassedIngress(r) == req[r].pc \in {"pre_auth"} \cup PastPreAuth /\ runtime.edge => req[r].asserted
PassedPreAuth(r) == req[r].pc \in PastPreAuth => Counted(r, "pre_auth") \/ ~runtime.preAuth
PassedActor(r) == req[r].pc \in PastActor => Counted(r, ActorPolicy) \/ ~runtime.enabled
PassedGroup(r) ==
    \A i \in DOMAIN Group :
        /\ req[r].pc = "incr" /\ i < req[r].idx => Group[i] \in req[r].charged
        /\ req[r].pc = "expire" /\ i <= req[r].idx => Group[i] \in req[r].charged
        /\ req[r].pc = "hit" /\ i < req[r].idx => Counted(r, Group[i])
        /\ req[r].pc = "admitted" => Counted(r, Group[i]) \/ ~runtime.enabled

\* Until it consumes the group a request has not used the quota of the tenant.
QuotaUntouched(r) ==
    \/ req[r].pc \in {"pre_auth", "actor", "service", "group", "script", "get", "repair", "test",
                      "denied"}
    \/ req[r].pc = "blocked" /\ runtime.client
    => req[r].charged \cap GroupBuckets = {}

\* The group is consumed from its first bucket on.
AtFirst(r) == req[r].pc \in {"pre_auth", "actor", "service", "group", "script"} => req[r].idx = 1

Sound(r) ==
    /\ PassedIngress(r) /\ PassedPreAuth(r) /\ PassedActor(r) /\ PassedGroup(r)
    /\ QuotaUntouched(r) /\ AtFirst(r)

RequestsAreSound == \A r \in Requests : Sound(r)

\* Requests that saw room in bucket b and have not incremented it yet.
Pending(b) ==
    {r \in Requests :
        \E i \in DOMAIN Group :
            /\ Group[i] = b
            /\ \/ req[r].pc = "get" /\ i < req[r].idx
               \/ req[r].pc = "incr" /\ req[r].idx <= i
               \/ req[r].pc = "expire" /\ req[r].idx < i}

\* Increments that are still to come are within the bound already.
QuotaAt(b) ==
    IF runtime.client /\ b \in GroupBuckets
    THEN count[b] + Cardinality(Pending(b)) + late.incr[b]
            <= Limit(b) - 1 + Cardinality(Requests) + errors
    ELSE count[b] <= Limit(b)

Quota == runtime # NotStarted => \A b \in Policies : QuotaAt(b)

IInv == Basics /\ RequestsAreSound /\ Quota

-------------------------------------------------------------------------------
(* The settings and the shape of a step.                                   *)

\* The limit of a policy stays positive in every mode.
LEMMA PositiveLimits ==
    ASSUME NEW p \in Policies, NEW mode
    PROVE  ModeLimit(p, mode) \in Nat \ {0}
<1>1. DefaultLimit[p] \in Nat \ {0}
  BY PoliciesAssumption
<1>2. \A n \in Int : AtLeastOne(n) \in Nat \ {0}
  BY DEF AtLeastOne
<1>3. DefaultLimit[p] \div 2 \in Int /\ DefaultLimit[p] \div 4 \in Int
  BY <1>1
<1> QED
  BY <1>1, <1>2, <1>3 DEF ModeLimit

\* What the validated settings of a protected deployment guarantee.
LEMMA RuntimeFacts ==
    ASSUME TypeOK, runtime # NotStarted
    PROVE  /\ runtime.started = TRUE
           /\ runtime.client \in BOOLEAN /\ runtime.enabled \in BOOLEAN
           /\ runtime.preAuth \in BOOLEAN /\ runtime.edge \in BOOLEAN
           /\ runtime.limit \in [Policies -> Nat \ {0}]
           /\ runtime.failOpen \in [Policies -> BOOLEAN]
           /\ runtime.client => runtime.enabled
           /\ runtime.protected =>
                 /\ runtime.edge \/ runtime.preAuth
                 /\ \A p \in Policies \ ReadPolicies : ~runtime.failOpen[p]
<1>1. PICK s \in Deployments, client \in BOOLEAN : runtime = RuntimeOf(s, client)
  BY DEF TypeOK
<1>2. s \in Settings /\ ValidSettings(s)
  BY RateLimitAssumption
<1>3. /\ runtime.started = TRUE /\ runtime.protected = Protected(s)
      /\ runtime.enabled = s.enabled /\ runtime.edge = s.edge
      /\ runtime.preAuth = (s.enabled /\ s.preAuth)
      /\ runtime.limit = EffectiveLimit(s) /\ runtime.failOpen = EffectiveFailOpen(s)
      /\ runtime.client = (s.enabled /\ client)
  BY <1>1 DEF RuntimeOf
<1>4. /\ s.enabled \in BOOLEAN /\ s.edge \in BOOLEAN /\ s.preAuth \in BOOLEAN
      /\ s.over \in [Policies -> Overrides]
  BY <1>2 DEF Settings
<1>5. runtime.limit \in [Policies -> Nat \ {0}]
  BY <1>3, PositiveLimits DEF EffectiveLimit
<1>6. runtime.failOpen \in [Policies -> BOOLEAN]
  BY <1>3 DEF EffectiveFailOpen
<1>7. ASSUME Protected(s) PROVE s.edge \/ (s.enabled /\ s.preAuth)
  BY <1>2, <1>7 DEF ValidSettings, PreAuthRequired
<1>8. ASSUME Protected(s), NEW p \in Policies \ ReadPolicies PROVE ~runtime.failOpen[p]
  <2>1. s.over[p] # "open"
    <3>1. SafeOverrides(s)
      BY <1>2, <1>8 DEF ValidSettings
    <3>2. Sensitivity(p) # "normal"
      BY PoliciesAssumption DEF Sensitivity, RegisteredPolicies, ReadPolicies, SensitivePolicies,
         CriticalPolicies
    <3> QED
      BY <3>1, <3>2 DEF SafeOverrides
  <2> QED
    BY <1>3, <1>8, <2>1 DEF EffectiveFailOpen, OverriddenFailOpen, ForcedClosed, DefaultFailOpen
<1> QED
  BY <1>3, <1>4, <1>5, <1>6, <1>7, <1>8

\* The constants, as the proofs use them.
LEMMA GroupFacts ==
    /\ GroupBuckets \subseteq Policies
    /\ "pre_auth" \in Policies /\ ActorPolicy \in Policies
    /\ "pre_auth" \notin GroupBuckets /\ ActorPolicy \notin GroupBuckets
    /\ ActorPolicy # "pre_auth"
    /\ Len(Group) \in Nat \ {0} /\ DOMAIN Group = 1 .. Len(Group)
    /\ \A i \in DOMAIN Group : Group[i] \in GroupBuckets
    /\ \A b \in GroupBuckets : \E i \in DOMAIN Group : Group[i] = b
    /\ \A i, j \in DOMAIN Group : Group[i] = Group[j] => i = j
<1>1. Group \in Seq(Policies) /\ Group # <<>>
  BY RateLimitAssumption
<1>2. Len(Group) \in Nat \ {0} /\ DOMAIN Group = 1 .. Len(Group)
  BY <1>1
<1>3. \A i \in DOMAIN Group : Group[i] \in Policies
  BY <1>1
<1> QED
  BY <1>2, <1>3, RateLimitAssumption DEF GroupBuckets

\* Request r, which is being served, moves to step pc.
Moves(r, pc, idx, charged) ==
    /\ req' \in [Requests -> {Idle} \cup Serving]
    /\ req'[r].pc = pc /\ req'[r].idx = idx /\ req'[r].charged = charged
    /\ req'[r].asserted = req[r].asserted /\ req'[r].authorised = req[r].authorised
    /\ \A q \in Requests \ {r} : req'[q] = req[q]

\* A request that is at a step has its fields.
LEMMA ServingFields ==
    ASSUME TypeOK, NEW r \in Requests
    PROVE  /\ req[r].pc # "idle" => req[r] \in Serving
           /\ req[r] = Idle => req[r].pc = "idle"
           /\ req[r] \in Serving =>
                 /\ req[r].pc \in Steps /\ req[r].asserted \in BOOLEAN
                 /\ req[r].authorised \in BOOLEAN
                 /\ req[r].charged \in SUBSET Policies /\ req[r].idx \in DOMAIN Group
  BY DEF TypeOK, Idle, Serving

\* The ways a request moves.
LEMMA GotoMoves ==
    ASSUME TypeOK, NEW r \in Requests, req[r] \in Serving, NEW pc \in Steps, Goto(r, pc)
    PROVE  Moves(r, pc, req[r].idx, req[r].charged)
  BY DEF TypeOK, Goto, Moves, Serving
LEMMA ChargeMoves ==
    ASSUME TypeOK, NEW r \in Requests, req[r] \in Serving, NEW pc \in Steps,
           NEW S \in SUBSET Policies,
           req' = [req EXCEPT ![r].pc = pc, ![r].charged = @ \cup S]
    PROVE  Moves(r, pc, req[r].idx, req[r].charged \cup S)
  BY DEF TypeOK, Moves, Serving
LEMMA AdvancedFields ==
    ASSUME TypeOK, NEW r \in Requests, req[r] \in Serving, NEW same \in Steps, NEW pc \in Steps
    PROVE  LET new == Advanced(r, same, pc)
           IN /\ new \in Serving /\ new.charged = req[r].charged
              /\ new.asserted = req[r].asserted /\ new.authorised = req[r].authorised
              /\ \/ req[r].idx = Len(Group) /\ new.pc = pc /\ new.idx = 1
                 \/ req[r].idx < Len(Group) /\ new.pc = same /\ new.idx = req[r].idx + 1
<1>1. /\ req[r].idx \in 1 .. Len(Group) /\ Len(Group) \in Nat \ {0}
      /\ DOMAIN Group = 1 .. Len(Group)
  BY ServingFields, GroupFacts
<1>2. CASE req[r].idx = Len(Group)
  <2>1. Advanced(r, same, pc) = [req[r] EXCEPT !.pc = pc, !.idx = 1]
    BY <1>2 DEF Advanced, LastBucket
  <2>2. 1 \in DOMAIN Group
    BY <1>1
  <2> QED
    BY <1>2, <2>1, <2>2 DEF Serving
<1>3. CASE req[r].idx < Len(Group)
  <2>1. Advanced(r, same, pc) = [req[r] EXCEPT !.pc = same, !.idx = @ + 1]
    BY <1>1, <1>3 DEF Advanced, LastBucket
  <2>2. req[r].idx + 1 \in DOMAIN Group
    BY <1>1, <1>3
  <2> QED
    BY <1>3, <2>1, <2>2 DEF Serving
<1> QED
  BY <1>1, <1>2, <1>3
LEMMA NextBucketMoves ==
    ASSUME TypeOK, NEW r \in Requests, req[r] \in Serving, NEW same \in Steps, NEW pc \in Steps,
           NextBucket(r, same, pc)
    PROVE  \/ /\ req[r].idx = Len(Group) /\ Moves(r, pc, 1, req[r].charged)
           \/ /\ req[r].idx < Len(Group) /\ Moves(r, same, req[r].idx + 1, req[r].charged)
  BY AdvancedFields DEF TypeOK, NextBucket, Moves
LEMMA HitMoves ==
    ASSUME TypeOK, NEW r \in Requests, req[r] \in Serving, NEW b \in Policies,
           req' = [req EXCEPT ![r] =
                     [Advanced(r, "hit", "admitted") EXCEPT !.charged = @ \cup {b}]]
    PROVE  \/ /\ req[r].idx = Len(Group) /\ Moves(r, "admitted", 1, req[r].charged \cup {b})
           \/ /\ req[r].idx < Len(Group)
              /\ Moves(r, "hit", req[r].idx + 1, req[r].charged \cup {b})
<1> DEFINE next == Advanced(r, "hit", "admitted")
           new == [next EXCEPT !.charged = @ \cup {b}]
<1>1. /\ next \in Serving /\ next.charged = req[r].charged
      /\ next.asserted = req[r].asserted /\ next.authorised = req[r].authorised
      /\ \/ req[r].idx = Len(Group) /\ next.pc = "admitted" /\ next.idx = 1
         \/ req[r].idx < Len(Group) /\ next.pc = "hit" /\ next.idx = req[r].idx + 1
  <2>1. "hit" \in Steps /\ "admitted" \in Steps
    BY DEF Steps, Outcomes
  <2> QED
    BY <2>1, AdvancedFields
<1>2. req' = [req EXCEPT ![r] = new]
  OBVIOUS
<1> HIDE DEF next
<1>3. /\ new \in Serving /\ new.pc = next.pc /\ new.idx = next.idx
      /\ new.charged = next.charged \cup {b}
      /\ new.asserted = next.asserted /\ new.authorised = next.authorised
  BY <1>1 DEF Serving
<1> HIDE DEF new
<1>4. Moves(r, next.pc, next.idx, next.charged \cup {b})
  <2>1. req \in [Requests -> {Idle} \cup Serving]
    BY DEF TypeOK
  <2>2. /\ req' \in [Requests -> {Idle} \cup Serving] /\ req'[r] = new
        /\ \A q \in Requests \ {r} : req'[q] = req[q]
    BY <1>2, <1>3, <2>1
  <2> QED
    BY <1>1, <1>3, <2>2 DEF Moves
<1>5. CASE req[r].idx = Len(Group) /\ next.pc = "admitted" /\ next.idx = 1
  BY <1>1, <1>4, <1>5
<1>6. CASE req[r].idx < Len(Group) /\ next.pc = "hit" /\ next.idx = req[r].idx + 1
  BY <1>1, <1>4, <1>6
<1> QED
  BY <1>1, <1>5, <1>6

-------------------------------------------------------------------------------
(* First layer: types, one way to consume the group, late commands.        *)

\* The initial states.
LEMMA InitBasics == Init => Basics
<1> SUFFICES ASSUME Init PROVE Basics
  OBVIOUS
<1>1. \A r \in Requests : req[r] = Idle /\ req[r].pc = "idle"
  BY DEF Init, Idle
<1>2. TypeOK
  BY RateLimitAssumption DEF Init, TypeOK
<1>3. OneClient
  BY <1>1 DEF Init, OneClient, ByScript, ByLibrary
<1>4. LateIsFailed
  BY DEF Init, LateIsFailed
<1> QED
  BY <1>2, <1>3, <1>4 DEF Basics

\* A step of request r keeps them when it does what its client may do.
LEMMA MoveBasics ==
    ASSUME Basics, NEW r \in Requests, req[r].pc # "idle",
           NEW pc, NEW idx, NEW charged, Moves(r, pc, idx, charged),
           pc \in ByScript => runtime.client, pc \in ByLibrary => ~runtime.client,
           runtime' = runtime,
           count' \in [Policies -> Nat],
           ttl' \subseteq {b \in GroupBuckets : count'[b] > 0},
           late' \in [script : 0..MaxErrors, incr : [GroupBuckets -> 0..MaxErrors]],
           errors' \in 0..MaxErrors, LateIsFailed',
           runtime.client \/ (ttl' = ttl /\ late' = late)
    PROVE  Basics'
<1>1. runtime # NotStarted
  BY ServingFields DEF Basics, OneClient
<1>2. TypeOK'
  BY DEF Basics, TypeOK, Moves
<1>3. OneClient'
  BY <1>1 DEF Basics, OneClient, Moves
<1> QED
  BY <1>2, <1>3 DEF Basics

\* Counting up keeps keys that have an expiry.
LEMMA CountUp ==
    ASSUME TypeOK, count' \in {count} \cup {[count EXCEPT ![b] = @ + 1] : b \in Policies}
    PROVE  /\ count' \in [Policies -> Nat]
           /\ ttl \subseteq {b \in GroupBuckets : count'[b] > 0}
<1>1. CASE count' = count
  BY <1>1 DEF TypeOK
<1>2. CASE \E b \in Policies : count' = [count EXCEPT ![b] = @ + 1]
  BY <1>2, GroupFacts DEF TypeOK
<1> QED
  BY <1>1, <1>2

\* Failures are counted, and so is what they leave behind.
LEMMA FailErrors ==
    ASSUME Basics, errors < MaxErrors, errors' = errors + 1, late' = late
    PROVE  errors' \in 0..MaxErrors /\ LateIsFailed'
  BY RateLimitAssumption DEF Basics, TypeOK, LateIsFailed

\* A step that only moves the request, with or without a failed wait.
LEMMA PlainBasics ==
    ASSUME Basics, NEW r \in Requests, req[r].pc # "idle",
           NEW pc, NEW idx, NEW charged, Moves(r, pc, idx, charged),
           pc \in ByScript => runtime.client, pc \in ByLibrary => ~runtime.client,
           UNCHANGED <<runtime, ttl, late>>,
           count' \in {count} \cup {[count EXCEPT ![b] = @ + 1] : b \in Policies},
           errors' = errors \/ (errors < MaxErrors /\ errors' = errors + 1)
    PROVE  Basics'
<1>1. errors' \in 0..MaxErrors /\ LateIsFailed'
  BY FailErrors DEF Basics, TypeOK, LateIsFailed
<1> QED
  BY <1>1, CountUp, MoveBasics DEF Basics, TypeOK

\* The check of one bucket, before authentication or of the actor.
LEMMA CheckBucketBasics ==
    ASSUME Basics, NEW r \in Requests, CheckBucket(r)
    PROVE  Basics'
<1> DEFINE b == BucketAt(req[r].pc)
           next == After(req[r].pc)
<1>1. /\ req[r].pc # "idle" /\ req[r] \in Serving /\ b \in Policies
      /\ next \in {"actor", "service"}
  BY ServingFields, GroupFacts DEF CheckBucket, Basics, BucketAt, After
<1>2. /\ UNCHANGED <<runtime, ttl, late>>
      /\ count' \in {count, [count EXCEPT ![b] = @ + 1]}
      /\ errors' = errors \/ (errors < MaxErrors /\ errors' = errors + 1)
      /\ \/ \E pc \in {next, "blocked", "unavailable"} : Goto(r, pc)
         \/ Charge(r, b, next)
  BY DEF CheckBucket, Fail, Charge
<1> HIDE DEF b, next
<1>3. \E pc \in {"actor", "service", "blocked", "unavailable"}, S \in SUBSET Policies :
          Moves(r, pc, req[r].idx, S)
  <2>1. ASSUME NEW pc \in {next, "blocked", "unavailable"}, Goto(r, pc)
        PROVE  Moves(r, pc, req[r].idx, req[r].charged)
    BY <1>1, <2>1, GotoMoves DEF Basics, Steps, Outcomes
  <2>2. ASSUME Charge(r, b, next) PROVE Moves(r, next, req[r].idx, req[r].charged \cup {b})
    BY <1>1, <2>2, ChargeMoves DEF Basics, Steps, Charge
  <2> QED
    BY <1>1, <1>2, <2>1, <2>2 DEF Serving
<1> QED
  BY <1>1, <1>2, <1>3, PlainBasics DEF ByScript, ByLibrary

\* Authorisation, and the choice of the client.
LEMMA AuthoriseBasics ==
    ASSUME Basics, NEW r \in Requests, Authorise(r) \/ ChooseClient(r)
    PROVE  Basics'
<1>1. req[r].pc # "idle" /\ req[r] \in Serving
  BY ServingFields DEF Authorise, ChooseClient, Basics
<1>2. runtime # NotStarted
  BY <1>1, ServingFields DEF Basics, OneClient
<1>3. PICK pc \in {"group", "denied", "admitted", "script", "test"} :
         /\ Goto(r, pc) /\ (pc = "script" => runtime.client) /\ (pc = "test" => ~runtime.client)
  BY <1>2, RuntimeFacts DEF Authorise, Authorised, ChooseClient, Basics
<1>4. Moves(r, pc, req[r].idx, req[r].charged)
  BY <1>1, <1>3, GotoMoves DEF Basics, Steps, Outcomes
<1> QED
  BY <1>1, <1>3, <1>4, PlainBasics DEF Authorise, ChooseClient, ByScript, ByLibrary

\* A set of naturals that is not empty has a least element.
LEMMA LeastElement ==
    ASSUME NEW S \in SUBSET Nat, S # {}
    PROVE  \E i \in S : \A j \in S : i <= j
<1> DEFINE R == {p \in Nat \X Nat : p[1] < p[2]}
<1>1. IsWellFoundedOn(R, Nat)
  BY NatLessThanWellFounded DEF OpToRel
<1>2. PICK i \in S : \A j \in S : <<j, i>> \notin R
  <2> HIDE DEF R
  <2> QED
    BY <1>1, WFMin
<1>3. ASSUME NEW j \in S PROVE i <= j
  <2>1. <<j, i>> \in Nat \X Nat /\ ~(j < i)
    BY <1>2
  <2> QED
    BY <2>1
<1> QED
  BY <1>3

\* The script counts all of the group or none of it, and what it counts has an expiry.
LEMMA ConsumeFacts ==
    ASSUME TypeOK, Consume
    PROVE  /\ count' \in [Policies -> Nat]
           /\ ttl' \subseteq {b \in GroupBuckets : count'[b] > 0}
           /\ \A b \in Policies : count'[b] = IF FullBuckets = {} /\ b \in GroupBuckets
                                              THEN count[b] + 1 ELSE count[b]
<1>1. /\ count' \in [Policies -> Nat]
      /\ \A b \in Policies : count'[b] = IF FullBuckets = {} /\ b \in GroupBuckets
                                         THEN count[b] + 1 ELSE count[b]
  BY DEF TypeOK, Consume, ScriptCounts
<1>2. CASE FullBuckets = {}
  BY <1>1, <1>2, GroupFacts DEF TypeOK, Consume
<1>3. CASE FullBuckets # {}
  <2>1. count' = count
    BY <1>3 DEF Consume, ScriptCounts, TypeOK
  <2>2. FirstFull \in GroupBuckets
    <3>1. FullBuckets \subseteq DOMAIN Group
      BY DEF FullBuckets
    <3>2. \E i \in FullBuckets : \A j \in FullBuckets : i <= j
      <4>1. FullBuckets \in SUBSET Nat
        BY <3>1, GroupFacts
      <4> QED
        BY <1>3, <4>1, LeastElement
    <3> QED
      BY <3>1, <3>2, GroupFacts DEF FirstFull
  <2> QED
    BY <1>1, <1>3, <2>1, <2>2 DEF TypeOK, Consume, WithExpiry
<1> QED
  BY <1>1, <1>2, <1>3

\* The script answers, or is redirected to the commands.
LEMMA ScriptBasics ==
    ASSUME Basics, NEW r \in Requests, Script(r) \/ Redirected(r)
    PROVE  Basics'
<1>1. req[r].pc = "script" /\ req[r] \in Serving /\ runtime.client
  BY ServingFields DEF Script, Redirected, Basics, OneClient, ByScript
<1>2. CASE Script(r)
  <2>1. /\ Consume /\ UNCHANGED <<runtime, late, errors>>
        /\ \E pc \in {"admitted", "blocked"}, S \in SUBSET Policies :
              req' = [req EXCEPT ![r].pc = pc, ![r].charged = @ \cup S]
    BY <1>2, GroupFacts DEF Script
  <2>2. \E pc \in {"admitted", "blocked"}, S \in SUBSET Policies :
            Moves(r, pc, req[r].idx, req[r].charged \cup S)
    BY <1>1, <2>1, ChargeMoves DEF Basics, Steps, Outcomes
  <2>3. LateIsFailed'
    BY <2>1 DEF Basics, LateIsFailed
  <2> QED
    BY <1>1, <2>1, <2>2, <2>3, ConsumeFacts, MoveBasics DEF Basics, TypeOK, ByScript, ByLibrary
<1>3. CASE Redirected(r)
  <2>1. Goto(r, "get") /\ UNCHANGED <<runtime, count, ttl, late, errors>>
    BY <1>3 DEF Redirected
  <2>2. Moves(r, "get", req[r].idx, req[r].charged)
    BY <1>1, <2>1, GotoMoves DEF Basics, Steps
  <2> QED
    BY <1>1, <2>1, <2>2, PlainBasics DEF ByScript, ByLibrary
<1> QED
  BY <1>2, <1>3

\* The wait for a script or a command fails, and what was sent may come late.
LEMMA GroupFailBasics ==
    ASSUME Basics, NEW r \in Requests, ScriptFails(r) \/ FallbackFails(r)
    PROVE  Basics'
<1>1. /\ req[r].pc \in ByScript /\ req[r] \in Serving /\ runtime.client
      /\ errors < MaxErrors /\ errors' = errors + 1 /\ UNCHANGED <<runtime, count, ttl>>
      /\ \E pc \in {"admitted", "unavailable"} : Goto(r, pc)
  BY ServingFields DEF ScriptFails, FallbackFails, Fail, Basics, OneClient, ByScript
<1>2. PICK pc \in {"admitted", "unavailable"} : Moves(r, pc, req[r].idx, req[r].charged)
  BY <1>1, GotoMoves DEF Basics, Steps, Outcomes
<1>3. \/ late' = late
      \/ late' = [late EXCEPT !.script = @ + 1]
      \/ \E b \in GroupBuckets : late' = [late EXCEPT !.incr[b] = @ + 1]
  BY <1>1, GroupFacts, ServingFields DEF ScriptFails, FallbackFails, Bucket, Basics
<1>4. errors' \in 0..MaxErrors
  BY <1>1, RateLimitAssumption DEF Basics, TypeOK
<1>5. late' \in [script : 0..MaxErrors, incr : [GroupBuckets -> 0..MaxErrors]] /\ LateIsFailed'
  <2>1. \A b \in GroupBuckets : late.script \in Nat /\ late.incr[b] \in Nat
    BY DEF Basics, TypeOK
  <2>2. CASE late' = late
    BY <1>1, <2>2, FailErrors DEF Basics, TypeOK
  <2>3. CASE late' = [late EXCEPT !.script = @ + 1]
    <3>1. late'.script = late.script + 1 /\ late'.incr = late.incr
      BY <2>3 DEF Basics, TypeOK
    <3>2. LateIsFailed'
      BY <1>1, <3>1 DEF Basics, LateIsFailed, TypeOK
    <3>3. late.script + 1 \in 0..MaxErrors
      <4>1. PICK b \in GroupBuckets : TRUE
        <5>1. 1 \in DOMAIN Group
          BY GroupFacts
        <5> QED
          BY <5>1, GroupFacts
      <4>2. late.script + late.incr[b] <= errors /\ errors \in Nat
        BY <4>1 DEF Basics, LateIsFailed, TypeOK
      <4> QED
        BY <1>1, <2>1, <4>1, <4>2, RateLimitAssumption
    <3> QED
      BY <2>3, <3>2, <3>3 DEF Basics, TypeOK
  <2>4. ASSUME NEW b \in GroupBuckets, late' = [late EXCEPT !.incr[b] = @ + 1]
        PROVE  /\ late' \in [script : 0..MaxErrors, incr : [GroupBuckets -> 0..MaxErrors]]
               /\ LateIsFailed'
    <3>1. /\ late'.script = late.script /\ late'.incr[b] = late.incr[b] + 1
          /\ \A c \in GroupBuckets \ {b} : late'.incr[c] = late.incr[c]
      BY <2>4 DEF Basics, TypeOK
    <3>2. LateIsFailed'
      BY <1>1, <3>1 DEF Basics, LateIsFailed, TypeOK
    <3>3. late.incr[b] + 1 \in 0..MaxErrors
      <4>1. late.script + late.incr[b] <= errors /\ errors \in Nat
        BY DEF Basics, LateIsFailed, TypeOK
      <4> QED
        BY <1>1, <2>1, <4>1, RateLimitAssumption
    <3> QED
      BY <2>4, <3>2, <3>3 DEF Basics, TypeOK
  <2> QED
    BY <1>3, <2>2, <2>3, <2>4
<1> QED
  BY <1>1, <1>2, <1>4, <1>5, MoveBasics DEF Basics, TypeOK, ByScript, ByLibrary

\* The commands of the fallback.
LEMMA CommandBasics ==
    ASSUME Basics, NEW r \in Requests, Get(r) \/ RepairExpiry(r) \/ Incr(r) \/ SetExpiry(r)
    PROVE  Basics'
<1>1. /\ req[r].pc \in ByScript /\ req[r] \in Serving /\ runtime.client
      /\ Bucket(r) \in GroupBuckets
  BY ServingFields, GroupFacts
     DEF Get, RepairExpiry, Incr, SetExpiry, Basics, OneClient, ByScript, Bucket
<1>2. CASE Get(r)
  <2>1. /\ UNCHANGED <<runtime, count, ttl, late, errors>>
        /\ Goto(r, "repair") \/ NextBucket(r, "get", "incr")
    BY <1>2 DEF Get
  <2>2. \E idx : \E pc \in {"repair", "get", "incr"} : Moves(r, pc, idx, req[r].charged)
    BY <1>1, <2>1, GotoMoves, NextBucketMoves DEF Basics, Steps
  <2> QED
    BY <1>1, <2>1, <2>2, PlainBasics DEF ByScript, ByLibrary
<1>3. CASE Incr(r)
  <2>1. /\ UNCHANGED <<runtime, ttl, late, errors>>
        /\ count' = [count EXCEPT ![Bucket(r)] = @ + 1]
        /\ req' = [req EXCEPT ![r].pc = "expire", ![r].charged = @ \cup {Bucket(r)}]
    BY <1>3 DEF Incr
  <2>2. Moves(r, "expire", req[r].idx, req[r].charged \cup {Bucket(r)})
    BY <1>1, <2>1, GroupFacts, ChargeMoves DEF Basics, Steps
  <2>3. count' \in {count} \cup {[count EXCEPT ![b] = @ + 1] : b \in Policies}
    BY <1>1, <2>1, GroupFacts
  <2> QED
    BY <1>1, <2>1, <2>2, <2>3, PlainBasics DEF ByScript, ByLibrary
<1>4. CASE RepairExpiry(r) \/ SetExpiry(r)
  <2>1. /\ UNCHANGED <<runtime, count, late, errors>> /\ ttl' = WithExpiry(Bucket(r))
        /\ Goto(r, "blocked") \/ NextBucket(r, "incr", "admitted")
    BY <1>4 DEF RepairExpiry, SetExpiry
  <2>2. \E idx : \E pc \in {"blocked", "incr", "admitted"} : Moves(r, pc, idx, req[r].charged)
    BY <1>1, <2>1, GotoMoves, NextBucketMoves DEF Basics, Steps, Outcomes
  <2>3. ttl' \subseteq {b \in GroupBuckets : count'[b] > 0}
    BY <1>1, <2>1 DEF Basics, TypeOK, WithExpiry
  <2>4. LateIsFailed'
    BY <2>1 DEF Basics, LateIsFailed
  <2> QED
    BY <1>1, <2>1, <2>2, <2>3, <2>4, MoveBasics DEF Basics, TypeOK, ByScript, ByLibrary
<1> QED
  BY <1>2, <1>3, <1>4

\* The group by the limits library.
LEMMA LibraryBasics ==
    ASSUME Basics, NEW r \in Requests, TestBucket(r) \/ HitBucket(r)
    PROVE  Basics'
<1>1. /\ req[r].pc \in ByLibrary /\ req[r] \in Serving /\ ~runtime.client
      /\ Bucket(r) \in Policies
  BY ServingFields, GroupFacts DEF TestBucket, HitBucket, Basics, OneClient, ByLibrary, Bucket
<1>2. /\ UNCHANGED <<runtime, ttl, late>>
      /\ count' \in {count, [count EXCEPT ![Bucket(r)] = @ + 1]}
      /\ errors' = errors \/ (errors < MaxErrors /\ errors' = errors + 1)
  BY DEF TestBucket, HitBucket
<1>3. \E idx, S : \E pc \in {"blocked", "unavailable", "test", "hit", "admitted"} : Moves(r, pc, idx, S)
  <2>1. CASE \E pc \in {"blocked", "unavailable"} : Goto(r, pc)
    BY <1>1, <2>1, GotoMoves DEF Basics, Steps, Outcomes
  <2>2. CASE NextBucket(r, "test", "hit") \/ NextBucket(r, "hit", "admitted")
    BY <1>1, <2>2, NextBucketMoves DEF Basics, Steps, Outcomes
  <2>3. CASE req' = [req EXCEPT ![r] =
                       [Advanced(r, "hit", "admitted") EXCEPT !.charged = @ \cup {Bucket(r)}]]
    BY <1>1, <2>3, HitMoves DEF Basics
  <2> QED
    BY <2>1, <2>2, <2>3 DEF TestBucket, HitBucket
<1> QED
  BY <1>1, <1>2, <1>3, PlainBasics DEF ByScript, ByLibrary

\* The instance starts, a request comes in, or its response is sent.
LEMMA EdgeBasics ==
    ASSUME Basics,
           \/ \E s \in Deployments, client \in BOOLEAN : Start(s, client)
           \/ \E r \in Requests, asserted, authorised \in BOOLEAN : Ingress(r, asserted, authorised)
           \/ \E r \in Requests : Answer(r)
    PROVE  Basics'
<1>1. ASSUME NEW s \in Deployments, NEW client \in BOOLEAN, Start(s, client) PROVE Basics'
  <2>1. /\ runtime = NotStarted /\ runtime' = RuntimeOf(s, client)
        /\ UNCHANGED <<count, ttl, late, errors, req>>
    BY <1>1 DEF Start
  <2>2. runtime' # NotStarted
    <3>1. RuntimeOf(s, client).started # NotStarted.started
      BY DEF RuntimeOf, NotStarted
    <3> QED
      BY <2>1, <3>1
  <2>3. \A r \in Requests : req[r].pc = "idle"
    BY <2>1 DEF Basics, OneClient, Idle
  <2>4. TypeOK'
    BY <2>1 DEF Basics, TypeOK
  <2>5. OneClient'
    BY <2>1, <2>2, <2>3 DEF Basics, OneClient, ByScript, ByLibrary
  <2> QED
    BY <2>1, <2>4, <2>5 DEF Basics, LateIsFailed
<1>2. ASSUME NEW r \in Requests, NEW asserted \in BOOLEAN, NEW authorised \in BOOLEAN,
             Ingress(r, asserted, authorised)
      PROVE  Basics'
  <2> DEFINE new(pc) == [pc |-> pc, authorised |-> authorised, asserted |-> asserted,
                         charged |-> {}, idx |-> 1]
  <2>1. /\ runtime.started /\ UNCHANGED <<runtime, count, ttl, late, errors>>
        /\ \E pc \in {"forbidden", "pre_auth"} : req' = [req EXCEPT ![r] = new(pc)]
    BY <1>2 DEF Ingress
  <2>2. runtime # NotStarted
    BY <2>1 DEF NotStarted
  <2>3. PICK pc \in {"forbidden", "pre_auth"} : req' = [req EXCEPT ![r] = new(pc)]
    BY <2>1
  <2>4. new(pc) \in Serving /\ new(pc).pc = pc
    BY GroupFacts DEF Serving, Steps, Outcomes
  <2> HIDE DEF new
  <2>5. TypeOK'
    BY <2>1, <2>3, <2>4 DEF Basics, TypeOK
  <2>6. OneClient'
    BY <2>1, <2>2, <2>3, <2>4 DEF Basics, TypeOK, OneClient, ByScript, ByLibrary
  <2> QED
    BY <2>1, <2>5, <2>6 DEF Basics, LateIsFailed
<1>3. ASSUME NEW r \in Requests, Answer(r) PROVE Basics'
  <2>1. /\ req' = [req EXCEPT ![r] = Idle] /\ UNCHANGED <<runtime, count, ttl, late, errors>>
    BY <1>3 DEF Answer
  <2>2. Idle.pc = "idle"
    BY DEF Idle
  <2>3. TypeOK'
    BY <2>1 DEF Basics, TypeOK
  <2>4. OneClient'
    BY <2>1, <2>2 DEF Basics, TypeOK, OneClient, ByScript, ByLibrary
  <2> QED
    BY <2>1, <2>3, <2>4 DEF Basics, LateIsFailed
<1> QED
  BY <1>1, <1>2, <1>3

\* Redis drops a key or an entry, or carries out a command that was given up.
LEMMA RedisBasics ==
    ASSUME Basics,
           \/ \E b \in Policies : Expire(b)
           \/ LateScript
           \/ \E b \in GroupBuckets : LateIncr(b)
    PROVE  Basics'
<1>1. ASSUME NEW b \in Policies, Expire(b) PROVE Basics'
  <2>1. /\ count[b] > 0 /\ UNCHANGED <<runtime, late, errors, req>>
        /\ \/ /\ runtime.client /\ b \in GroupBuckets
              /\ count' = [count EXCEPT ![b] = 0] /\ ttl' = ttl \ {b}
           \/ /\ ~(runtime.client /\ b \in GroupBuckets)
              /\ count' = [count EXCEPT ![b] = @ - 1] /\ ttl' = ttl
    BY <1>1 DEF Expire
  <2>2. runtime # NotStarted
    BY <2>1 DEF Basics, OneClient
  <2>3. /\ count' \in [Policies -> Nat]
        /\ ttl' \subseteq {c \in GroupBuckets : count'[c] > 0}
    <3>1. CASE runtime.client /\ b \in GroupBuckets
      BY <2>1, <3>1, GroupFacts DEF Basics, TypeOK
    <3>2. CASE ~(runtime.client /\ b \in GroupBuckets)
      <4>1. count' \in [Policies -> Nat] /\ \A c \in Policies \ {b} : count'[c] = count[c]
        BY <2>1, <3>2 DEF Basics, TypeOK
      <4>2. b \notin ttl
        BY <2>2, <3>2, RuntimeFacts DEF Basics, OneClient, TypeOK
      <4>3. ttl \subseteq {c \in GroupBuckets : count[c] > 0} /\ GroupBuckets \subseteq Policies
        BY GroupFacts DEF Basics, TypeOK
      <4> QED
        BY <2>1, <3>2, <4>1, <4>2, <4>3
    <3> QED
      BY <3>1, <3>2
  <2>4. TypeOK'
    BY <2>1, <2>3 DEF Basics, TypeOK
  <2>5. OneClient'
    BY <2>1, <2>2 DEF Basics, OneClient
  <2> QED
    BY <2>1, <2>4, <2>5 DEF Basics, LateIsFailed
<1>2. ASSUME LateScript PROVE Basics'
  <2>1. /\ late.script > 0 /\ Consume /\ late' = [late EXCEPT !.script = @ - 1]
        /\ UNCHANGED <<runtime, errors, req>>
    BY <1>2 DEF LateScript
  <2>2. runtime # NotStarted /\ runtime.client
    BY <2>1, RuntimeFacts DEF Basics, OneClient
  <2>3. /\ late' \in [script : 0..MaxErrors, incr : [GroupBuckets -> 0..MaxErrors]]
        /\ late'.script = late.script - 1 /\ late'.incr = late.incr
    <3>1. late.script - 1 \in 0..MaxErrors
      BY <2>1, RateLimitAssumption DEF Basics, TypeOK
    <3> QED
      BY <2>1, <3>1 DEF Basics, TypeOK
  <2>4. TypeOK'
    BY <2>1, <2>3, ConsumeFacts DEF Basics, TypeOK
  <2>5. OneClient'
    BY <2>1, <2>2 DEF Basics, OneClient
  <2>6. LateIsFailed'
    BY <2>1, <2>3 DEF Basics, LateIsFailed, TypeOK
  <2> QED
    BY <2>4, <2>5, <2>6 DEF Basics
<1>3. ASSUME NEW b \in GroupBuckets, LateIncr(b) PROVE Basics'
  <2>1. /\ late.incr[b] > 0 /\ count' = [count EXCEPT ![b] = @ + 1]
        /\ late' = [late EXCEPT !.incr[b] = @ - 1]
        /\ UNCHANGED <<runtime, ttl, errors, req>>
    BY <1>3 DEF LateIncr
  <2>2. runtime # NotStarted /\ runtime.client
    BY <2>1, RuntimeFacts DEF Basics, OneClient
  <2>3. /\ late' \in [script : 0..MaxErrors, incr : [GroupBuckets -> 0..MaxErrors]]
        /\ late'.script = late.script /\ late'.incr[b] = late.incr[b] - 1
        /\ \A c \in GroupBuckets \ {b} : late'.incr[c] = late.incr[c]
    <3>1. late.incr[b] - 1 \in 0..MaxErrors
      BY <2>1, RateLimitAssumption DEF Basics, TypeOK
    <3> QED
      BY <2>1, <3>1 DEF Basics, TypeOK
  <2>4. TypeOK'
    BY <2>1, <2>3, CountUp, GroupFacts DEF Basics, TypeOK
  <2>5. OneClient'
    BY <2>1, <2>2 DEF Basics, OneClient
  <2>6. LateIsFailed'
    BY <2>1, <2>3 DEF Basics, LateIsFailed, TypeOK
  <2> QED
    BY <2>4, <2>5, <2>6 DEF Basics
<1> QED
  BY <1>1, <1>2, <1>3

\* The first layer is inductive.
LEMMA NextBasics ==
    ASSUME Basics, [Next]_vars
    PROVE  Basics'
<1>1. CASE UNCHANGED vars
  BY <1>1 DEF vars, Basics, TypeOK, OneClient, LateIsFailed
<1>2. CASE Next
  BY <1>2, CheckBucketBasics, AuthoriseBasics, ScriptBasics, GroupFailBasics, CommandBasics,
     LibraryBasics, EdgeBasics, RedisBasics
     DEF Next, Serve
<1> QED
  BY <1>1, <1>2

-------------------------------------------------------------------------------
(* Second layer: what has been counted by the time a request is at a step. *)

\* A step that moves request r leaves the others as they are.
LEMMA MoveSound ==
    ASSUME RequestsAreSound, NEW r \in Requests, NEW pc, NEW idx, NEW charged,
           Moves(r, pc, idx, charged), runtime' = runtime, Sound(r)'
    PROVE  RequestsAreSound'
<1> SUFFICES ASSUME NEW q \in Requests, q # r PROVE Sound(q)'
  BY DEF RequestsAreSound
<1>1. req'[q] = req[q]
  BY DEF Moves
<1>2. Sound(q)
  BY DEF RequestsAreSound
<1> QED
  BY <1>1, <1>2
     DEF Sound, PassedIngress, PassedPreAuth, PassedActor, PassedGroup,
         QuotaUntouched, AtFirst, Counted

\* A request that is refused for another reason than a full bucket of the group.
LEMMA RefusedSound ==
    ASSUME RequestsAreSound, NEW r \in Requests, NEW pc, NEW idx, NEW charged,
           Moves(r, pc, idx, charged), runtime' = runtime,
           pc = "unavailable" \/ (pc = "blocked" /\ charged \cap GroupBuckets = {})
                              \/ (pc = "blocked" /\ ~runtime.client)
    PROVE  RequestsAreSound'
<1>1. Sound(r)'
  BY DEF Moves, Sound, PassedIngress, PassedPreAuth, PassedActor, PassedGroup,
         QuotaUntouched, AtFirst,
     PastPreAuth, PastActor, InGroup, ByScript, ByLibrary
<1> QED
  BY <1>1, MoveSound

\* The step of request r is not the first one, so there is a runtime.
LEMMA ServedIsStarted ==
    ASSUME Basics, NEW r \in Requests, req[r].pc # "idle"
    PROVE  req[r] \in Serving /\ runtime # NotStarted
  BY ServingFields DEF Basics, OneClient

\* The check of one bucket, before authentication or of the actor.
LEMMA CheckBucketSound ==
    ASSUME Basics, RequestsAreSound, NEW r \in Requests, CheckBucket(r)
    PROVE  RequestsAreSound'
<1> DEFINE b == BucketAt(req[r].pc)
           next == After(req[r].pc)
<1>1. /\ req[r].pc \in {"pre_auth", "actor"} /\ runtime' = runtime
      /\ req[r] \in Serving /\ runtime # NotStarted
      /\ req[r].pc # "idle"
  BY ServedIsStarted DEF CheckBucket
<1>2. /\ b \in Policies /\ b \notin GroupBuckets /\ next \in {"actor", "service"}
      /\ runtime.failOpen[b] \in BOOLEAN
  BY <1>1, GroupFacts, RuntimeFacts DEF BucketAt, After, Basics
<1>3. \/ Goto(r, "blocked") \/ Goto(r, "unavailable")
      \/ Charge(r, b, next)
      \/ Goto(r, next) /\ (~CheckedAt(req[r].pc) \/ runtime.failOpen[b])
  BY <1>2 DEF CheckBucket, Fail
<1>4. Sound(r)
  BY DEF RequestsAreSound
<1>5. req[r].charged \cap GroupBuckets = {}
  BY <1>1, <1>4 DEF Sound, QuotaUntouched
<1>6. CASE Goto(r, "blocked") \/ Goto(r, "unavailable")
  <2>1. PICK pc \in {"blocked", "unavailable"} : Moves(r, pc, req[r].idx, req[r].charged)
    BY <1>1, <1>6, GotoMoves DEF Basics, Steps, Outcomes
  <2> QED
    BY <1>1, <1>5, <2>1, RefusedSound
<1>7. ASSUME NEW charged \in SUBSET Policies, Moves(r, next, req[r].idx, charged),
             charged = req[r].charged \cup {b}
               \/ (charged = req[r].charged /\ (~CheckedAt(req[r].pc) \/ runtime.failOpen[b]))
      PROVE  RequestsAreSound'
  <2>1. charged \cap GroupBuckets = {}
    BY <1>2, <1>5, <1>7
  <2>2. CASE req[r].pc = "pre_auth"
    <3>1. b = "pre_auth" /\ next = "actor" /\ CheckedAt(req[r].pc) = runtime.preAuth
      BY <2>2 DEF BucketAt, After, CheckedAt
    <3> HIDE DEF b, next
    <3>2. Sound(r)'
      BY <1>1, <1>4, <1>7, <2>1, <2>2, <3>1
         DEF Moves, Sound, PassedIngress, PassedPreAuth, PassedActor, PassedGroup,
         QuotaUntouched, AtFirst,
             PastPreAuth, PastActor, InGroup, ByScript, ByLibrary, Counted
    <3> QED
      BY <1>1, <1>7, <3>2, MoveSound
  <2>3. CASE req[r].pc = "actor"
    <3>1. b = ActorPolicy /\ next = "service" /\ CheckedAt(req[r].pc) = runtime.enabled
      BY <2>3 DEF BucketAt, After, CheckedAt
    <3> HIDE DEF b, next
    <3>2. Sound(r)'
      BY <1>1, <1>4, <1>7, <2>1, <2>3, <3>1
         DEF Moves, Sound, PassedIngress, PassedPreAuth, PassedActor, PassedGroup,
         QuotaUntouched, AtFirst,
             PastPreAuth, PastActor, InGroup, ByScript, ByLibrary, Counted
    <3> QED
      BY <1>1, <1>7, <3>2, MoveSound
  <2> QED
    BY <1>1, <2>2, <2>3
<1>8. CASE Charge(r, b, next)
  <2>1. Moves(r, next, req[r].idx, req[r].charged \cup {b})
    BY <1>1, <1>2, <1>8, ChargeMoves DEF Basics, Steps, Charge
  <2> QED
    BY <1>1, <1>2, <1>7, <2>1 DEF Serving
<1>9. CASE Goto(r, next) /\ (~CheckedAt(req[r].pc) \/ runtime.failOpen[b])
  <2>1. Moves(r, next, req[r].idx, req[r].charged)
    BY <1>1, <1>2, <1>9, GotoMoves DEF Basics, Steps
  <2> QED
    BY <1>1, <1>7, <1>9, <2>1 DEF Serving
<1> QED
  BY <1>3, <1>6, <1>8, <1>9

\* Authorisation, the choice of the client, and the redirection to the commands.
LEMMA AuthoriseSound ==
    ASSUME Basics, RequestsAreSound, NEW r \in Requests,
           Authorise(r) \/ ChooseClient(r) \/ Redirected(r)
    PROVE  RequestsAreSound'
<1>1. /\ req[r].pc \in {"service", "group", "script"} /\ runtime' = runtime
      /\ req[r] \in Serving /\ runtime # NotStarted
  BY ServedIsStarted DEF Authorise, ChooseClient, Redirected
<1>2. runtime.client \in BOOLEAN /\ runtime.enabled \in BOOLEAN
  BY <1>1, RuntimeFacts DEF Basics
<1>3. PICK pc \in {"group", "denied", "admitted", "script", "test", "get"} :
         Goto(r, pc) /\ (pc = "admitted" => ~runtime.enabled)
  BY <1>2 DEF Authorise, Authorised, ChooseClient, Redirected
<1>4. Moves(r, pc, req[r].idx, req[r].charged)
  BY <1>1, <1>3, GotoMoves DEF Basics, Steps, Outcomes
<1>5. Sound(r)
  BY DEF RequestsAreSound
<1>6. Sound(r)'
  BY <1>1, <1>3, <1>4, <1>5
     DEF Moves, Sound, PassedIngress, PassedPreAuth, PassedActor, PassedGroup,
         QuotaUntouched, AtFirst,
         PastPreAuth, PastActor, InGroup, ByScript, ByLibrary, Counted
<1> QED
  BY <1>1, <1>4, <1>6, MoveSound

\* Request r is admitted: what it carried into the group it still has.
LEMMA AdmittedSound ==
    ASSUME Basics, RequestsAreSound, NEW r \in Requests, req[r].pc \in InGroup,
           NEW idx, NEW charged, Moves(r, "admitted", idx, charged), runtime' = runtime,
           req[r].charged \subseteq charged,
           \A i \in DOMAIN Group : Group[i] \in charged \/ runtime.failOpen[Group[i]]
    PROVE  RequestsAreSound'
<1>1. Sound(r)
  BY DEF RequestsAreSound
<1>2. Sound(r)'
  BY <1>1
     DEF Moves, Sound, PassedIngress, PassedPreAuth, PassedActor, PassedGroup,
         QuotaUntouched, AtFirst,
         PastPreAuth, PastActor, InGroup, ByScript, ByLibrary, Counted
<1> QED
  BY <1>2, MoveSound

\* Request r goes on inside the group.
LEMMA WithinSound ==
    ASSUME Basics, RequestsAreSound, NEW r \in Requests, req[r].pc \in InGroup,
           NEW pc \in InGroup \ {"script"}, NEW idx, NEW charged,
           Moves(r, pc, idx, charged), runtime' = runtime,
           req[r].charged \subseteq charged,
           PassedGroup(r)', QuotaUntouched(r)'
    PROVE  RequestsAreSound'
<1>1. Sound(r)
  BY DEF RequestsAreSound
<1>2. Sound(r)'
  <2>1. PassedIngress(r)' /\ PassedPreAuth(r)' /\ PassedActor(r)' /\ AtFirst(r)'
    BY <1>1
       DEF Moves, Sound, PassedIngress, PassedPreAuth, PassedActor, AtFirst,
           PastPreAuth, PastActor, InGroup, ByScript, ByLibrary, Counted
  <2> QED
    BY <2>1 DEF Sound
<1> QED
  BY <1>2, MoveSound

\* The script answers.
LEMMA ScriptSound ==
    ASSUME Basics, RequestsAreSound, NEW r \in Requests, Script(r)
    PROVE  RequestsAreSound'
<1> DEFINE S == {b \in GroupBuckets : count'[b] > count[b]}
<1>1. /\ req[r].pc = "script" /\ runtime' = runtime /\ Consume
      /\ req[r] \in Serving /\ runtime # NotStarted
  BY ServedIsStarted DEF Script
<1>2. S \in SUBSET Policies /\ count \in [Policies -> Nat]
  BY GroupFacts DEF Basics, TypeOK
<1>3. Sound(r)
  BY DEF RequestsAreSound
<1>4. CASE FullBuckets = {}
  <2>1. req' = [req EXCEPT ![r].pc = "admitted", ![r].charged = @ \cup S]
    BY <1>4 DEF Script
  <2>2. Moves(r, "admitted", req[r].idx, req[r].charged \cup S)
    BY <1>1, <1>2, <2>1, ChargeMoves DEF Basics, Steps, Outcomes
  <2>3. \A i \in DOMAIN Group : Group[i] \in S
    BY <1>1, <1>2, <1>4, ConsumeFacts, GroupFacts DEF Basics
  <2> QED
    BY <1>1, <2>2, <2>3, AdmittedSound DEF InGroup, ByScript
<1>5. CASE FullBuckets # {}
  <2>1. req' = [req EXCEPT ![r].pc = "blocked", ![r].charged = @ \cup S]
    BY <1>5 DEF Script
  <2>2. Moves(r, "blocked", req[r].idx, req[r].charged \cup S)
    BY <1>1, <1>2, <2>1, ChargeMoves DEF Basics, Steps, Outcomes
  <2>3. S = {}
    BY <1>1, <1>2, <1>5, ConsumeFacts, GroupFacts DEF Basics
  <2>4. req[r].charged \cap GroupBuckets = {}
    BY <1>1, <1>3 DEF Sound, QuotaUntouched
  <2> QED
    BY <1>1, <2>2, <2>3, <2>4, RefusedSound
<1> QED
  BY <1>4, <1>5

\* The wait for a script or a command fails.
LEMMA GroupFailSound ==
    ASSUME Basics, RequestsAreSound, NEW r \in Requests, ScriptFails(r) \/ FallbackFails(r)
    PROVE  RequestsAreSound'
<1>1. /\ req[r].pc \in ByScript /\ req[r].pc # "idle" /\ runtime' = runtime
      /\ Fail(r, GroupFailOpen, "admitted")
  BY DEF ScriptFails, FallbackFails, ByScript
<1>2. req[r] \in Serving /\ runtime # NotStarted
  BY <1>1, ServedIsStarted
<1>3. CASE GroupFailOpen
  <2>1. Moves(r, "admitted", req[r].idx, req[r].charged)
    BY <1>1, <1>2, <1>3, GotoMoves DEF Fail, Basics, Steps, Outcomes
  <2>2. \A i \in DOMAIN Group : runtime.failOpen[Group[i]]
    BY <1>3, GroupFacts DEF GroupFailOpen
  <2> QED
    BY <1>1, <2>1, <2>2, AdmittedSound DEF InGroup
<1>4. CASE ~GroupFailOpen
  <2>1. Moves(r, "unavailable", req[r].idx, req[r].charged)
    BY <1>1, <1>2, <1>4, GotoMoves DEF Fail, Basics, Steps, Outcomes
  <2> QED
    BY <1>1, <2>1, RefusedSound
<1> QED
  BY <1>3, <1>4

\* The commands of the fallback.
LEMMA CommandSound ==
    ASSUME Basics, RequestsAreSound, NEW r \in Requests,
           Get(r) \/ RepairExpiry(r) \/ Incr(r) \/ SetExpiry(r)
    PROVE  RequestsAreSound'
<1> DEFINE idx == req[r].idx
           charged == req[r].charged
<1>1. /\ req[r].pc \in ByScript /\ req[r].pc # "idle" /\ runtime' = runtime
      /\ req[r].pc \in InGroup
  BY DEF Get, RepairExpiry, Incr, SetExpiry, ByScript, InGroup
<1>2. /\ req[r] \in Serving /\ runtime # NotStarted
      /\ idx \in 1 .. Len(Group) /\ Len(Group) \in Nat \ {0} /\ DOMAIN Group = 1 .. Len(Group)
      /\ Group[idx] \in GroupBuckets /\ Group[idx] \in Policies /\ charged \in SUBSET Policies
  BY <1>1, ServedIsStarted, ServingFields, GroupFacts DEF Basics
<1>3. Sound(r)
  BY DEF RequestsAreSound
<1> HIDE DEF idx, charged
<1>4. CASE Get(r)
  <2>1. charged \cap GroupBuckets = {}
    BY <1>3, <1>4 DEF Get, Sound, QuotaUntouched, charged
  <2>2. \/ Moves(r, "repair", idx, charged)
        \/ Moves(r, "incr", 1, charged)
        \/ Moves(r, "get", idx + 1, charged)
    BY <1>2, <1>4, GotoMoves, NextBucketMoves DEF Get, Basics, Steps, idx, charged
  <2>3. PassedGroup(r)' /\ QuotaUntouched(r)'
    BY <1>2, <2>1, <2>2 DEF Moves, PassedGroup, QuotaUntouched
  <2> QED
    BY <1>1, <2>2, <2>3, WithinSound DEF InGroup, ByScript, charged
<1>5. CASE RepairExpiry(r)
  <2>1. charged \cap GroupBuckets = {}
    BY <1>3, <1>5 DEF RepairExpiry, Sound, QuotaUntouched, charged
  <2>2. Moves(r, "blocked", idx, charged)
    BY <1>2, <1>5, GotoMoves DEF RepairExpiry, Basics, Steps, Outcomes, idx, charged
  <2> QED
    BY <1>1, <2>1, <2>2, RefusedSound
<1>6. CASE Incr(r)
  <2>1. \A i \in DOMAIN Group : i < idx => Group[i] \in charged
    BY <1>3, <1>6 DEF Incr, Sound, PassedGroup, idx, charged
  <2>2. Moves(r, "expire", idx, charged \cup {Group[idx]})
    BY <1>2, <1>6, ChargeMoves DEF Incr, Bucket, Basics, Steps, idx, charged
  <2>3. \A i \in DOMAIN Group : i <= idx => Group[i] \in charged \cup {Group[idx]}
    BY <1>2, <2>1
  <2>4. PassedGroup(r)' /\ QuotaUntouched(r)'
    BY <1>2, <2>2, <2>3 DEF Moves, PassedGroup, QuotaUntouched
  <2> QED
    BY <1>1, <2>2, <2>4, WithinSound DEF InGroup, ByScript, charged
<1>7. CASE SetExpiry(r)
  <2>1. \A i \in DOMAIN Group : i <= idx => Group[i] \in charged
    BY <1>3, <1>7 DEF SetExpiry, Sound, PassedGroup, idx, charged
  <2>2. \/ idx = Len(Group) /\ Moves(r, "admitted", 1, charged)
        \/ Moves(r, "incr", idx + 1, charged)
    BY <1>2, <1>7, NextBucketMoves DEF SetExpiry, Basics, Steps, Outcomes, idx, charged
  <2>3. CASE idx = Len(Group) /\ Moves(r, "admitted", 1, charged)
    <3>1. \A i \in DOMAIN Group : Group[i] \in charged
      BY <1>2, <2>1, <2>3
    <3> QED
      BY <1>1, <2>3, <3>1, AdmittedSound DEF charged
  <2>4. CASE Moves(r, "incr", idx + 1, charged)
    <3>1. \A i \in DOMAIN Group : i < idx + 1 => Group[i] \in charged
      BY <1>2, <2>1
    <3>2. PassedGroup(r)' /\ QuotaUntouched(r)'
      BY <1>2, <2>4, <3>1 DEF Moves, PassedGroup, QuotaUntouched
    <3> QED
      BY <1>1, <2>4, <3>2, WithinSound DEF InGroup, ByScript, charged
  <2> QED
    BY <2>2, <2>3, <2>4
<1> QED
  BY <1>4, <1>5, <1>6, <1>7

\* The group by the limits library.
LEMMA LibrarySound ==
    ASSUME Basics, RequestsAreSound, NEW r \in Requests, TestBucket(r) \/ HitBucket(r)
    PROVE  RequestsAreSound'
<1> DEFINE idx == req[r].idx
           charged == req[r].charged
<1>1. /\ req[r].pc \in ByLibrary /\ req[r].pc # "idle" /\ runtime' = runtime
      /\ req[r].pc \in InGroup
  BY DEF TestBucket, HitBucket, ByLibrary, InGroup
<1>2. /\ req[r] \in Serving /\ runtime # NotStarted /\ ~runtime.client
      /\ idx \in 1 .. Len(Group) /\ Len(Group) \in Nat \ {0} /\ DOMAIN Group = 1 .. Len(Group)
      /\ Group[idx] \in GroupBuckets /\ Group[idx] \in Policies /\ charged \in SUBSET Policies
  BY <1>1, ServedIsStarted, ServingFields, GroupFacts DEF Basics, OneClient
<1>3. Sound(r)
  BY DEF RequestsAreSound
<1>4. ASSUME NEW pc \in {"blocked", "unavailable"}, Goto(r, pc) PROVE RequestsAreSound'
  <2>1. Moves(r, pc, idx, charged)
    BY <1>2, <1>4, GotoMoves DEF Basics, Steps, Outcomes
  <2> QED
    BY <1>1, <1>2, <1>4, <2>1, RefusedSound
<1> HIDE DEF idx, charged
<1>5. CASE TestBucket(r) /\ NextBucket(r, "test", "hit")
  <2>1. charged \cap GroupBuckets = {}
    BY <1>3, <1>5 DEF TestBucket, Sound, QuotaUntouched, charged
  <2>2. Moves(r, "hit", 1, charged) \/ Moves(r, "test", idx + 1, charged)
    BY <1>2, <1>5, NextBucketMoves DEF Basics, Steps, idx, charged
  <2>3. PassedGroup(r)' /\ QuotaUntouched(r)'
    BY <1>2, <2>1, <2>2 DEF Moves, PassedGroup, QuotaUntouched
  <2> QED
    BY <1>1, <2>2, <2>3, WithinSound DEF InGroup, ByLibrary, charged
<1>6. ASSUME HitBucket(r), NEW new \in SUBSET Policies, charged \subseteq new,
             Group[idx] \in new \/ runtime.failOpen[Group[idx]],
             \/ idx = Len(Group) /\ Moves(r, "admitted", 1, new)
             \/ Moves(r, "hit", idx + 1, new)
      PROVE  RequestsAreSound'
  <2>1. \A i \in DOMAIN Group : i < idx => Group[i] \in charged \/ runtime.failOpen[Group[i]]
    BY <1>3, <1>6 DEF HitBucket, Sound, PassedGroup, Counted, idx, charged
  <2>2. ASSUME NEW i \in DOMAIN Group, i <= idx
        PROVE  Group[i] \in new \/ runtime.failOpen[Group[i]]
    <3>1. i < idx \/ i = idx
      BY <1>2, <2>2
    <3> QED
      BY <1>6, <2>1, <3>1
  <2>3. CASE idx = Len(Group) /\ Moves(r, "admitted", 1, new)
    <3>1. \A i \in DOMAIN Group : Group[i] \in new \/ runtime.failOpen[Group[i]]
      BY <1>2, <2>2, <2>3
    <3> QED
      BY <1>1, <1>6, <2>3, <3>1, AdmittedSound DEF charged
  <2>4. CASE Moves(r, "hit", idx + 1, new)
    <3>1. \A i \in DOMAIN Group : i < idx + 1 => Group[i] \in new \/ runtime.failOpen[Group[i]]
      BY <1>2, <2>2
    <3>2. PassedGroup(r)' /\ QuotaUntouched(r)'
      BY <1>1, <1>2, <2>4, <3>1 DEF Moves, PassedGroup,
         QuotaUntouched, AtFirst, Counted
    <3> QED
      BY <1>1, <1>6, <2>4, <3>2, WithinSound DEF InGroup, ByLibrary, charged
  <2> QED
    BY <1>6, <2>3, <2>4
<1>7. CASE HitBucket(r) /\ NextBucket(r, "hit", "admitted") /\ runtime.failOpen[Group[idx]]
  <2>1. \/ idx = Len(Group) /\ Moves(r, "admitted", 1, charged)
        \/ Moves(r, "hit", idx + 1, charged)
    BY <1>2, <1>7, NextBucketMoves DEF Basics, Steps, Outcomes, idx, charged
  <2> QED
    BY <1>2, <1>6, <1>7, <2>1
<1>8. CASE /\ HitBucket(r)
           /\ req' = [req EXCEPT ![r] =
                        [Advanced(r, "hit", "admitted") EXCEPT !.charged = @ \cup {Group[idx]}]]
  <2>1. \/ idx = Len(Group) /\ Moves(r, "admitted", 1, charged \cup {Group[idx]})
        \/ Moves(r, "hit", idx + 1, charged \cup {Group[idx]})
    BY <1>2, <1>8, HitMoves DEF Basics, idx, charged
  <2> QED
    BY <1>2, <1>6, <1>8, <2>1
<1>9. CASE TestBucket(r)
  BY <1>4, <1>5, <1>9 DEF TestBucket
<1>10. CASE HitBucket(r)
  BY <1>4, <1>7, <1>8, <1>10 DEF HitBucket, Bucket, idx
<1> QED
  BY <1>9, <1>10

\* The instance starts, a request comes in, or its response is sent.
LEMMA EdgeSound ==
    ASSUME Basics, RequestsAreSound,
           \/ \E s \in Deployments, client \in BOOLEAN : Start(s, client)
           \/ \E r \in Requests, asserted, authorised \in BOOLEAN : Ingress(r, asserted, authorised)
           \/ \E r \in Requests : Answer(r)
    PROVE  RequestsAreSound'
<1>1. ASSUME NEW r \in Requests, req'[r].pc \in {"idle", "forbidden"} PROVE Sound(r)'
  BY <1>1
     DEF Sound, PassedIngress, PassedPreAuth, PassedActor, PassedGroup,
         QuotaUntouched, AtFirst,
         PastPreAuth, PastActor, InGroup, ByScript, ByLibrary
<1>2. ASSUME NEW s \in Deployments, NEW client \in BOOLEAN, Start(s, client)
      PROVE  RequestsAreSound'
  <2>1. runtime = NotStarted /\ req' = req
    BY <1>2 DEF Start
  <2>2. \A r \in Requests : req'[r].pc = "idle"
    BY <2>1 DEF Basics, OneClient, Idle
  <2> QED
    BY <1>1, <2>2 DEF RequestsAreSound
<1>3. ASSUME runtime' = runtime, NEW r \in Requests, NEW new, req' = [req EXCEPT ![r] = new],
             Sound(r)'
      PROVE  RequestsAreSound'
  <2> SUFFICES ASSUME NEW q \in Requests, q # r PROVE Sound(q)'
    BY <1>3 DEF RequestsAreSound
  <2>1. req'[q] = req[q] /\ Sound(q)
    BY <1>3 DEF RequestsAreSound, Basics, TypeOK
  <2> QED
    BY <1>3, <2>1
       DEF Sound, PassedIngress, PassedPreAuth, PassedActor, PassedGroup,
         QuotaUntouched, AtFirst, Counted
<1>4. ASSUME NEW r \in Requests, NEW asserted \in BOOLEAN, NEW authorised \in BOOLEAN,
             Ingress(r, asserted, authorised)
      PROVE  RequestsAreSound'
  <2> DEFINE new(pc) == [pc |-> pc, authorised |-> authorised, asserted |-> asserted,
                         charged |-> {}, idx |-> 1]
  <2>1. runtime' = runtime /\ runtime # NotStarted
    BY <1>4 DEF Ingress, NotStarted
  <2>2. PICK pc \in {"forbidden", "pre_auth"} :
           /\ req' = [req EXCEPT ![r] = new(pc)]
           /\ pc = "pre_auth" => ~runtime.edge \/ asserted
    BY <1>4 DEF Ingress
  <2>3. req'[r] = new(pc)
    BY <2>2 DEF Basics, TypeOK
  <2>4. /\ new(pc).pc = pc /\ new(pc).asserted = asserted /\ new(pc).charged = {}
        /\ new(pc).idx = 1
    OBVIOUS
  <2> HIDE DEF new
  <2>5. CASE pc = "forbidden"
    BY <1>1, <1>3, <2>1, <2>2, <2>3, <2>4, <2>5
  <2>6. CASE pc = "pre_auth"
    <3>1. Sound(r)'
      BY <2>1, <2>2, <2>3, <2>4, <2>6
         DEF Sound, PassedIngress, PassedPreAuth, PassedActor, PassedGroup,
         QuotaUntouched, AtFirst,
             PastPreAuth, PastActor, InGroup, ByScript, ByLibrary
    <3> QED
      BY <1>3, <2>1, <2>2, <3>1
  <2> QED
    BY <2>2, <2>5, <2>6
<1>5. ASSUME NEW r \in Requests, Answer(r) PROVE RequestsAreSound'
  <2>1. runtime' = runtime /\ req' = [req EXCEPT ![r] = Idle]
    BY <1>5 DEF Answer
  <2>2. req'[r].pc = "idle"
    BY <2>1 DEF Basics, TypeOK, Idle
  <2> QED
    BY <1>1, <1>3, <2>1, <2>2
<1> QED
  BY <1>2, <1>4, <1>5

\* The second layer is inductive.
LEMMA NextSound ==
    ASSUME Basics, RequestsAreSound, [Next]_vars
    PROVE  RequestsAreSound'
<1>1. ASSUME UNCHANGED <<runtime, req>> PROVE RequestsAreSound'
  BY <1>1
     DEF RequestsAreSound, Sound, PassedIngress, PassedPreAuth, PassedActor, PassedGroup,
         QuotaUntouched, AtFirst, Counted
<1>2. CASE UNCHANGED vars
  BY <1>1, <1>2 DEF vars
<1>3. ASSUME \/ \E b \in Policies : Expire(b)
             \/ LateScript
             \/ \E b \in GroupBuckets : LateIncr(b)
      PROVE  RequestsAreSound'
  BY <1>1, <1>3 DEF Expire, LateScript, LateIncr
<1>4. CASE Next
  BY <1>3, <1>4, CheckBucketSound, AuthoriseSound, ScriptSound, GroupFailSound, CommandSound,
     LibrarySound, EdgeSound
     DEF Next, Serve
<1> QED
  BY <1>2, <1>4

-------------------------------------------------------------------------------
(* Third layer: the quota, with the increments that are still to come.     *)

\* Sets of requests are finite.
LEMMA RequestSets ==
    ASSUME NEW S \in SUBSET Requests
    PROVE  /\ Cardinality(Requests) \in Nat
           /\ Cardinality(S) \in Nat /\ Cardinality(S) <= Cardinality(Requests)
           /\ \A T \in SUBSET S : Cardinality(T) \in Nat /\ Cardinality(T) <= Cardinality(S)
           /\ \A r \in S : Cardinality(S \ {r}) = Cardinality(S) - 1
           /\ \A r \in Requests \ S : Cardinality(S) <= Cardinality(Requests) - 1
<1>1. IsFiniteSet(Requests)
  BY RateLimitAssumption
<1>2. \A A \in SUBSET Requests :
         /\ IsFiniteSet(A) /\ Cardinality(A) \in Nat
         /\ \A T \in SUBSET A : Cardinality(T) <= Cardinality(A)
         /\ \A r \in A : Cardinality(A \ {r}) = Cardinality(A) - 1
  BY <1>1, FS_Subset, FS_CardinalityType, FS_RemoveElement
<1>3. ASSUME NEW r \in Requests \ S PROVE Cardinality(S) <= Cardinality(Requests) - 1
  <2>1. S \in SUBSET (Requests \ {r}) /\ Requests \ {r} \in SUBSET Requests
    BY <1>3
  <2> QED
    BY <1>2, <2>1
<1> QED
  BY <1>2, <1>3

\* Requests that are pending before and after a step, and the numbers of the invariant.
LEMMA PendingFacts ==
    ASSUME NEW b
    PROVE  Pending(b) \in SUBSET Requests /\ Pending(b)' \in SUBSET Requests
  BY DEF Pending
LEMMA Numbers ==
    ASSUME Basics, runtime # NotStarted, NEW b \in Policies
    PROVE  /\ count[b] \in Nat /\ Limit(b) \in Nat \ {0} /\ errors \in Nat
           /\ runtime.client \in BOOLEAN
           /\ b \in GroupBuckets =>
                 /\ late.incr[b] \in Nat /\ late.script \in Nat
                 /\ late.script + late.incr[b] <= errors
<1>1. runtime.limit[b] \in Nat \ {0} /\ runtime.client \in BOOLEAN
  BY RuntimeFacts DEF Basics
<1> QED
  BY <1>1 DEF Basics, TypeOK, LateIsFailed, Limit

\* A bucket that is not charged, or that is not of a group by script and has room.
LEMMA QuotaKept ==
    ASSUME Basics, Basics', NEW b \in Policies, QuotaAt(b),
           runtime # NotStarted, runtime' = runtime,
           \/ count'[b] <= count[b]
           \/ /\ ~(runtime.client /\ b \in GroupBuckets)
              /\ ~Full(b) /\ count'[b] = count[b] + 1,
           runtime.client /\ b \in GroupBuckets =>
              /\ Pending(b)' \subseteq Pending(b)
              /\ late'.incr[b] - late.incr[b] <= errors' - errors
    PROVE  QuotaAt(b)'
<1>1. runtime' # NotStarted
  OBVIOUS
<1>2. /\ count[b] \in Nat /\ Limit(b) \in Nat \ {0} /\ errors \in Nat
      /\ b \in GroupBuckets => late.incr[b] \in Nat
  BY Numbers
<1>3. /\ count'[b] \in Nat /\ errors' \in Nat
      /\ b \in GroupBuckets => late'.incr[b] \in Nat
  BY GroupFacts DEF Basics, TypeOK
<1>4. Limit(b)' = Limit(b)
  BY DEF Limit
<1>5. CASE runtime.client /\ b \in GroupBuckets
  <2>1. /\ Cardinality(Requests) \in Nat /\ Cardinality(Pending(b)) \in Nat
        /\ Cardinality(Pending(b)') \in Nat
        /\ Cardinality(Pending(b)') <= Cardinality(Pending(b))
    BY <1>5, PendingFacts, RequestSets
  <2>2. count[b] + Cardinality(Pending(b)) + late.incr[b]
           <= Limit(b) - 1 + Cardinality(Requests) + errors
    BY <1>5 DEF QuotaAt
  <2>3. count'[b] + Cardinality(Pending(b)') + late'.incr[b]
           <= Limit(b) - 1 + Cardinality(Requests) + errors'
    BY <1>2, <1>3, <1>5, <2>1, <2>2
  <2> QED
    BY <1>4, <1>5, <2>3 DEF QuotaAt
<1>6. CASE ~(runtime.client /\ b \in GroupBuckets)
  <2>1. count[b] <= Limit(b)
    BY <1>6 DEF QuotaAt
  <2>2. count'[b] <= Limit(b)
    BY <1>2, <1>3, <1>6, <2>1 DEF Full
  <2> QED
    BY <1>4, <1>6, <2>2 DEF QuotaAt
<1> QED
  BY <1>5, <1>6

\* A request that leaves the commands of the group is not pending.
LEMMA MovePending ==
    ASSUME NEW r \in Requests, NEW pc, NEW idx, NEW charged, Moves(r, pc, idx, charged),
           pc \notin {"get", "incr", "expire"}
    PROVE  \A b : Pending(b)' \subseteq Pending(b)
  BY DEF Moves, Pending

\* Steps before the group, at its end and of the limits library.
LEMMA ServeQuota ==
    ASSUME Basics, Basics', Quota, NEW r \in Requests,
           \/ CheckBucket(r) \/ Authorise(r) \/ ChooseClient(r) \/ RepairExpiry(r)
           \/ ScriptFails(r) \/ TestBucket(r) \/ HitBucket(r)
    PROVE  Quota'
<1>1. runtime' = runtime /\ runtime # NotStarted /\ req[r] \in Serving
  BY ServedIsStarted
     DEF CheckBucket, Authorise, ChooseClient, RepairExpiry, ScriptFails, TestBucket, HitBucket
<1> SUFFICES ASSUME NEW b \in Policies PROVE QuotaAt(b)'
  BY <1>1 DEF Quota
<1>2. QuotaAt(b)
  BY <1>1 DEF Quota
<1>3. /\ count \in [Policies -> Nat] /\ errors \in Nat
      /\ b \in GroupBuckets => late.incr[b] \in Nat
  BY DEF Basics, TypeOK
<1>4. ASSUME ~(runtime.client /\ b \in GroupBuckets),
             NEW a \in Policies,
             count' \in {count, IF Full(a) THEN count ELSE [count EXCEPT ![a] = @ + 1]}
      PROVE  QuotaAt(b)'
  BY <1>1, <1>2, <1>3, <1>4, QuotaKept
<1>5. ASSUME count'[b] = count[b], NEW pc \in Steps \ {"get", "incr", "expire"}, NEW idx, NEW S,
             Moves(r, pc, idx, S),
             b \in GroupBuckets => late'.incr[b] - late.incr[b] <= errors' - errors
      PROVE  QuotaAt(b)'
  BY <1>1, <1>2, <1>3, <1>5, MovePending, QuotaKept
<1>6. CASE CheckBucket(r)
  <2> DEFINE a == BucketAt(req[r].pc)
             next == After(req[r].pc)
  <2>1. a \in Policies /\ a \notin GroupBuckets /\ next \in {"actor", "service"}
    BY GroupFacts DEF BucketAt, After
  <2>2. /\ late' = late /\ errors' \in {errors, errors + 1}
        /\ count' \in {count, IF Full(a) THEN count ELSE [count EXCEPT ![a] = @ + 1]}
        /\ \/ \E pc \in {next, "blocked", "unavailable"} : Goto(r, pc)
           \/ Charge(r, a, next)
    BY <1>6 DEF CheckBucket, Fail, Charge
  <2> HIDE DEF a, next
  <2>3. \E S : \E pc \in {"actor", "service", "blocked", "unavailable"} : Moves(r, pc, req[r].idx, S)
    <3>1. ASSUME NEW pc \in {next, "blocked", "unavailable"}, Goto(r, pc)
          PROVE  Moves(r, pc, req[r].idx, req[r].charged)
      BY <1>1, <2>1, <3>1, GotoMoves DEF Basics, Steps, Outcomes
    <3>2. ASSUME Charge(r, a, next) PROVE Moves(r, next, req[r].idx, req[r].charged \cup {a})
      BY <1>1, <2>1, <3>2, ChargeMoves DEF Basics, Steps, Charge
    <3> QED
      BY <2>1, <2>2, <3>1, <3>2
  <2>4. CASE b \in GroupBuckets
    <3>1. count'[b] = count[b]
      BY <1>3, <2>1, <2>2, <2>4
    <3>2. late'.incr[b] - late.incr[b] <= errors' - errors
      BY <1>3, <2>2, <2>4
    <3> QED
      BY <1>5, <2>3, <3>1, <3>2 DEF Steps, Outcomes
  <2> QED
    BY <1>4, <2>1, <2>2, <2>4
<1>7. CASE Authorise(r) \/ ChooseClient(r) \/ RepairExpiry(r) \/ ScriptFails(r)
  <2>1. /\ count' = count
        /\ \E pc \in {"group", "denied", "admitted", "script", "test", "blocked", "unavailable"} :
              Goto(r, pc)
    BY <1>7 DEF Authorise, Authorised, ChooseClient, RepairExpiry, ScriptFails, Fail
  <2>2. \E pc \in {"group", "denied", "admitted", "script", "test", "blocked", "unavailable"} :
            Moves(r, pc, req[r].idx, req[r].charged)
    BY <1>1, <2>1, GotoMoves DEF Basics, Steps, Outcomes
  <2>3. ASSUME b \in GroupBuckets PROVE late'.incr[b] - late.incr[b] <= errors' - errors
    <3>1. late'.incr[b] = late.incr[b]
      BY <1>7 DEF Authorise, ChooseClient, RepairExpiry, ScriptFails, Basics, TypeOK
    <3>2. errors' \in {errors, errors + 1}
      BY <1>7 DEF Authorise, ChooseClient, RepairExpiry, ScriptFails, Fail
    <3> QED
      BY <1>3, <2>3, <3>1, <3>2
  <2> QED
    BY <1>5, <2>1, <2>2, <2>3 DEF Steps, Outcomes
<1>8. CASE TestBucket(r) \/ HitBucket(r)
  <2>1. ~runtime.client
    BY <1>8 DEF TestBucket, HitBucket, Basics, OneClient, ByLibrary
  <2>2. Bucket(r) \in Policies
    BY <1>1, ServingFields, GroupFacts DEF Bucket, Basics
  <2>3. count' \in {count, IF Full(Bucket(r)) THEN count
                           ELSE [count EXCEPT ![Bucket(r)] = @ + 1]}
    BY <1>8 DEF TestBucket, HitBucket
  <2> QED
    BY <1>4, <2>1, <2>2, <2>3
<1> QED
  BY <1>6, <1>7, <1>8

\* The script: every bucket it charges had room, and r is not pending.
LEMMA ScriptQuota ==
    ASSUME Basics, Basics', RequestsAreSound, Quota, NEW r \in Requests,
           Script(r) \/ Redirected(r)
    PROVE  Quota'
<1>1. /\ runtime' = runtime /\ runtime # NotStarted /\ req[r] \in Serving /\ req[r].pc = "script"
      /\ late' = late /\ errors' = errors
  BY ServedIsStarted DEF Script, Redirected
<1> SUFFICES ASSUME NEW b \in Policies PROVE QuotaAt(b)'
  BY <1>1 DEF Quota
<1>2. QuotaAt(b)
  BY <1>1 DEF Quota
<1>3. /\ count[b] \in Nat /\ Limit(b) \in Nat \ {0} /\ errors \in Nat
      /\ b \in GroupBuckets => /\ late.incr[b] \in Nat /\ late.script \in Nat
                               /\ late.script + late.incr[b] <= errors
  BY <1>1, Numbers
<1>4. CASE Redirected(r)
  <2>1. req[r].idx = 1
    BY <1>1 DEF RequestsAreSound, Sound, AtFirst
  <2>2. Moves(r, "get", 1, req[r].charged)
    BY <1>1, <1>4, <2>1, GotoMoves DEF Redirected, Basics, Steps
  <2>3. Pending(b)' \subseteq Pending(b)
    BY <2>2, GroupFacts DEF Moves, Pending
  <2> QED
    BY <1>1, <1>2, <1>3, <1>4, <2>3, QuotaKept DEF Redirected
<1>5. CASE Script(r)
  <2>1. \E pc \in {"admitted", "blocked"}, S \in SUBSET Policies :
            req' = [req EXCEPT ![r].pc = pc, ![r].charged = @ \cup S]
    BY <1>5, GroupFacts DEF Script
  <2>2. \E pc \in {"admitted", "blocked"}, S \in SUBSET Policies :
            Moves(r, pc, req[r].idx, req[r].charged \cup S)
    BY <1>1, <2>1, ChargeMoves DEF Basics, Steps, Outcomes
  <2>3. Pending(b)' \subseteq Pending(b)
    BY <2>2, MovePending
  <2>4. count'[b] = IF FullBuckets = {} /\ b \in GroupBuckets THEN count[b] + 1 ELSE count[b]
    BY <1>5, ConsumeFacts DEF Script, Basics
  <2>5. CASE FullBuckets = {} /\ b \in GroupBuckets
    <3>1. runtime.client
      BY <1>1 DEF Basics, OneClient, ByScript
    <3>2. count[b] <= Limit(b) - 1
      <4>1. ~Full(b)
        BY <2>5, GroupFacts DEF FullBuckets
      <4> QED
        BY <1>3, <4>1 DEF Full
    <3>3. r \in Requests \ Pending(b)'
      BY <1>1, <2>2 DEF Moves, Pending
    <3>4. /\ Cardinality(Requests) \in Nat /\ Cardinality(Pending(b)') \in Nat
          /\ Cardinality(Pending(b)') <= Cardinality(Requests) - 1
      BY <3>3, PendingFacts, RequestSets
    <3>5. count'[b] + Cardinality(Pending(b)') + late'.incr[b]
             <= Limit(b) - 1 + Cardinality(Requests) + errors'
      BY <1>1, <1>3, <2>4, <2>5, <3>2, <3>4
    <3>6. Limit(b)' = Limit(b)
      BY <1>1 DEF Limit
    <3> QED
      BY <1>1, <2>5, <3>1, <3>5, <3>6 DEF QuotaAt
  <2>6. CASE ~(FullBuckets = {} /\ b \in GroupBuckets)
    BY <1>1, <1>2, <1>3, <2>3, <2>4, <2>6, QuotaKept
  <2> QED
    BY <2>5, <2>6
<1> QED
  BY <1>4, <1>5

\* A place that was seen free is used.
LEMMA PlaceIsUsed ==
    ASSUME NEW counted \in Nat, NEW pending \in Nat, NEW left \in Nat, NEW late1 \in Nat,
           NEW limit \in Nat, NEW n \in Nat, NEW failed \in Nat,
           counted + pending + late1 <= limit - 1 + n + failed, left <= pending - 1
    PROVE  counted + 1 + left + late1 <= limit - 1 + n + failed
  OBVIOUS

\* The commands: a bucket seen with room has r pending until r increments it.
LEMMA CommandQuota ==
    ASSUME Basics, Basics', Quota, NEW r \in Requests,
           Get(r) \/ Incr(r) \/ SetExpiry(r) \/ FallbackFails(r)
    PROVE  Quota'
<1> DEFINE idx == req[r].idx
           charged == req[r].charged
<1>1. /\ runtime' = runtime /\ runtime # NotStarted /\ req[r] \in Serving /\ runtime.client
  BY ServedIsStarted
     DEF Get, Incr, SetExpiry, FallbackFails, Basics, OneClient, ByScript
<1> SUFFICES ASSUME NEW b \in Policies PROVE QuotaAt(b)'
  BY <1>1 DEF Quota
<1>2. QuotaAt(b) /\ Limit(b)' = Limit(b)
  BY <1>1 DEF Quota, Limit
<1>3. /\ count[b] \in Nat /\ Limit(b) \in Nat \ {0} /\ errors \in Nat
      /\ b \in GroupBuckets => /\ late.incr[b] \in Nat /\ late.script \in Nat
                               /\ late.script + late.incr[b] <= errors
  BY <1>1, Numbers
<1>4. /\ idx \in 1 .. Len(Group) /\ Len(Group) \in Nat \ {0} /\ DOMAIN Group = 1 .. Len(Group)
      /\ Group[idx] \in GroupBuckets /\ Group[idx] \in Policies
      /\ \A i, j \in DOMAIN Group : Group[i] = Group[j] => i = j
  BY <1>1, ServingFields, GroupFacts DEF Basics
<1>5. Bucket(r) = Group[idx]
  BY DEF Bucket
<1>6. count \in [Policies -> Nat]
  BY DEF Basics, TypeOK
<1> HIDE DEF idx, charged
<1>7. CASE Get(r)
  <2>1. UNCHANGED <<count, late, errors>> /\ req[r].pc = "get"
    BY <1>7 DEF Get
  <2>2. CASE Full(Bucket(r))
    <3>1. Moves(r, "repair", idx, charged)
      BY <1>1, <1>7, <2>2, GotoMoves DEF Get, Basics, Steps, idx, charged
    <3>2. Pending(b)' \subseteq Pending(b)
      BY <3>1, MovePending
    <3> QED
      BY <1>1, <1>2, <1>3, <2>1, <3>2, QuotaKept
  <2>3. CASE ~Full(Bucket(r))
    <3>1. \/ idx = Len(Group) /\ Moves(r, "incr", 1, charged)
          \/ Moves(r, "get", idx + 1, charged)
      BY <1>1, <1>7, <2>3, NextBucketMoves DEF Get, Basics, Steps, idx, charged
    <3>2. CASE b = Group[idx]
      <4>1. count[b] <= Limit(b) - 1
        BY <1>3, <1>5, <2>3, <3>2 DEF Full
      <4>2. /\ Cardinality(Requests) \in Nat /\ Cardinality(Pending(b)') \in Nat
            /\ Cardinality(Pending(b)') <= Cardinality(Requests)
        BY PendingFacts, RequestSets
      <4>3. count'[b] + Cardinality(Pending(b)') + late'.incr[b]
               <= Limit(b) - 1 + Cardinality(Requests) + errors'
        BY <1>3, <1>4, <2>1, <3>2, <4>1, <4>2
      <4> QED
        BY <1>1, <1>2, <1>4, <3>2, <4>3 DEF QuotaAt
    <3>3. CASE b # Group[idx]
      <4>1. Pending(b)' \subseteq Pending(b)
        <5> SUFFICES ASSUME NEW q \in Pending(b)' PROVE q \in Pending(b)
          OBVIOUS
        <5>1. CASE q # r
          BY <3>1, <5>1 DEF Moves, Pending
        <5>2. CASE q = r
          <6>1. PICK i \in DOMAIN Group :
                   /\ Group[i] = b
                   /\ \/ req'[r].pc = "get" /\ i < req'[r].idx
                      \/ req'[r].pc = "incr" /\ req'[r].idx <= i
                      \/ req'[r].pc = "expire" /\ req'[r].idx < i
            BY <5>2 DEF Pending
          <6>2. i < idx
            <7>1. i \in 1 .. Len(Group) /\ i # idx
              BY <1>4, <3>3, <6>1
            <7>2. CASE idx = Len(Group)
              BY <1>4, <7>1, <7>2
            <7>3. CASE Moves(r, "get", idx + 1, charged)
              <8>1. i < idx + 1
                BY <6>1, <7>3 DEF Moves
              <8> QED
                BY <1>4, <7>1, <8>1
            <7> QED
              BY <3>1, <7>2, <7>3
          <6> QED
            BY <2>1, <5>2, <6>1, <6>2 DEF Pending, idx
        <5> QED
          BY <5>1, <5>2
      <4> QED
        BY <1>1, <1>2, <1>3, <2>1, <4>1, QuotaKept
    <3> QED
      BY <3>2, <3>3
  <2> QED
    BY <2>2, <2>3
<1>8. CASE Incr(r)
  <2>1. /\ late' = late /\ errors' = errors /\ req[r].pc = "incr"
        /\ count' = [count EXCEPT ![Group[idx]] = @ + 1]
    BY <1>5, <1>8 DEF Incr
  <2>2. Moves(r, "expire", idx, charged \cup {Group[idx]})
    <3>1. req' = [req EXCEPT ![r].pc = "expire", ![r].charged = @ \cup {Group[idx]}]
      BY <1>5, <1>8 DEF Incr
    <3> QED
      BY <1>1, <1>4, <3>1, ChargeMoves DEF Basics, Steps, idx, charged
  <2>3. Pending(b)' \subseteq Pending(b)
    BY <1>4, <2>1, <2>2 DEF Moves, Pending, idx
  <2>4. CASE b # Group[idx]
    BY <1>1, <1>2, <1>3, <1>6, <2>1, <2>3, <2>4, QuotaKept
  <2>5. CASE b = Group[idx]
    <3>1. r \in Pending(b)
      BY <1>4, <2>1, <2>5 DEF Pending, idx
    <3>2. r \notin Pending(b)'
      <4> SUFFICES ASSUME r \in Pending(b)' PROVE FALSE
        OBVIOUS
      <4>1. PICK i \in DOMAIN Group :
               /\ Group[i] = b
               /\ \/ req'[r].pc = "get" /\ i < req'[r].idx
                  \/ req'[r].pc = "incr" /\ req'[r].idx <= i
                  \/ req'[r].pc = "expire" /\ req'[r].idx < i
        BY DEF Pending
      <4> QED
        BY <1>4, <2>2, <2>5, <4>1 DEF Moves
    <3>3. /\ Cardinality(Requests) \in Nat /\ Cardinality(Pending(b)) \in Nat
          /\ Cardinality(Pending(b)') \in Nat
          /\ Cardinality(Pending(b)') <= Cardinality(Pending(b)) - 1
      <4>1. Pending(b) \ {r} \in SUBSET Requests /\ Pending(b)' \in SUBSET (Pending(b) \ {r})
        BY <2>3, <3>2, PendingFacts
      <4> QED
        BY <3>1, <4>1, PendingFacts, RequestSets
    <3>4. count[b] + Cardinality(Pending(b)) + late.incr[b]
             <= Limit(b) - 1 + Cardinality(Requests) + errors
      BY <1>1, <1>2, <1>4, <2>5 DEF QuotaAt
    <3>5. count'[b] = count[b] + 1
      BY <1>6, <2>1, <2>5
    <3>6. count'[b] + Cardinality(Pending(b)') + late'.incr[b]
             <= Limit(b) - 1 + Cardinality(Requests) + errors'
      <4>1. late.incr[b] \in Nat
        BY <1>3, <1>4, <2>5
      <4>2. late'.incr[b] = late.incr[b] /\ errors' = errors
        BY <2>1
      <4> QED
        BY <1>3, <3>3, <3>4, <3>5, <4>1, <4>2, PlaceIsUsed
    <3> QED
      BY <1>1, <1>2, <1>4, <2>5, <3>6 DEF QuotaAt
  <2> QED
    BY <2>4, <2>5
<1>9. CASE SetExpiry(r)
  <2>1. /\ UNCHANGED <<count, late, errors>> /\ req[r].pc = "expire"
    BY <1>9 DEF SetExpiry
  <2>2. Moves(r, "admitted", 1, charged) \/ Moves(r, "incr", idx + 1, charged)
    BY <1>1, <1>9, NextBucketMoves DEF SetExpiry, Basics, Steps, Outcomes, idx, charged
  <2>3. Pending(b)' \subseteq Pending(b)
    BY <1>4, <2>1, <2>2 DEF Moves, Pending, idx
  <2> QED
    BY <1>1, <1>2, <1>3, <2>1, <2>3, QuotaKept
<1>10. CASE FallbackFails(r)
  <2>1. /\ count' = count /\ errors' = errors + 1
        /\ \E pc \in {"admitted", "unavailable"} : Goto(r, pc)
    BY <1>10 DEF FallbackFails, Fail
  <2>2. PICK pc \in {"admitted", "unavailable"} : Moves(r, pc, idx, charged)
    BY <1>1, <2>1, GotoMoves DEF Basics, Steps, Outcomes, idx, charged
  <2>3. Pending(b)' \subseteq Pending(b)
    BY <2>2, MovePending
  <2>4. ASSUME b \in GroupBuckets PROVE late'.incr[b] - late.incr[b] <= 1
    <3>1. late' = late \/ late' = [late EXCEPT !.incr[Group[idx]] = @ + 1]
      BY <1>5, <1>10 DEF FallbackFails
    <3>2. late'.incr[b] \in {late.incr[b], late.incr[b] + 1}
      BY <1>4, <2>4, <3>1 DEF Basics, TypeOK
    <3> QED
      BY <1>3, <2>4, <3>2
  <2> QED
    BY <1>1, <1>2, <1>3, <2>1, <2>3, <2>4, QuotaKept
<1> QED
  BY <1>7, <1>8, <1>9, <1>10

\* The instance starts, a request comes in, or its response is sent.
LEMMA EdgeQuota ==
    ASSUME Basics, Basics', Quota,
           \/ \E s \in Deployments, client \in BOOLEAN : Start(s, client)
           \/ \E r \in Requests, asserted, authorised \in BOOLEAN : Ingress(r, asserted, authorised)
           \/ \E r \in Requests : Answer(r)
    PROVE  Quota'
<1> SUFFICES ASSUME runtime' # NotStarted, NEW b \in Policies PROVE QuotaAt(b)'
  BY DEF Quota
<1>1. ASSUME NEW s \in Deployments, NEW client \in BOOLEAN, Start(s, client)
      PROVE  QuotaAt(b)'
  <2>1. runtime = NotStarted /\ UNCHANGED <<count, late, errors, req>>
    BY <1>1 DEF Start
  <2>2. /\ count'[b] = 0 /\ errors' \in Nat
        /\ b \in GroupBuckets => late'.incr[b] = 0
    BY <2>1 DEF Basics, OneClient, TypeOK
  <2>3. runtime'.limit[b] \in Nat \ {0}
    <3>1. RuntimeOf(s, client).limit = EffectiveLimit(s)
      BY DEF RuntimeOf
    <3> QED
      BY <1>1, <3>1, PositiveLimits DEF Start, EffectiveLimit
  <2>4. Pending(b)' = {}
    <3>1. \A r \in Requests : req'[r].pc = "idle"
      BY <2>1 DEF Basics, OneClient, Idle
    <3> QED
      BY <3>1 DEF Pending
  <2>5. Cardinality({}) = 0 /\ Cardinality(Requests) \in Nat
    BY FS_EmptySet, RequestSets
  <2> QED
    BY <2>2, <2>3, <2>4, <2>5 DEF QuotaAt, Limit
<1>2. ASSUME runtime # NotStarted, UNCHANGED <<runtime, count, late, errors>>,
             NEW r \in Requests, NEW new, req' = [req EXCEPT ![r] = new],
             new.pc \in {"forbidden", "pre_auth", "idle"}
      PROVE  QuotaAt(b)'
  <2>1. Pending(b)' \subseteq Pending(b)
    BY <1>2 DEF Pending, Basics, TypeOK
  <2>2. QuotaAt(b)
    BY <1>2 DEF Quota
  <2> QED
    BY <1>2, <2>1, <2>2, Numbers, QuotaKept
<1>3. ASSUME NEW r \in Requests, NEW asserted \in BOOLEAN, NEW authorised \in BOOLEAN,
             Ingress(r, asserted, authorised)
      PROVE  QuotaAt(b)'
  <2> DEFINE new(pc) == [pc |-> pc, authorised |-> authorised, asserted |-> asserted,
                         charged |-> {}, idx |-> 1]
  <2>1. PICK pc \in {"forbidden", "pre_auth"} : req' = [req EXCEPT ![r] = new(pc)]
    BY <1>3 DEF Ingress
  <2>2. runtime # NotStarted /\ UNCHANGED <<runtime, count, late, errors>>
    BY <1>3 DEF Ingress, NotStarted
  <2>3. new(pc).pc = pc
    OBVIOUS
  <2> HIDE DEF new
  <2> QED
    BY <1>2, <2>1, <2>2, <2>3
<1>4. ASSUME NEW r \in Requests, Answer(r) PROVE QuotaAt(b)'
  <2>1. /\ req' = [req EXCEPT ![r] = Idle] /\ req[r].pc \in Outcomes
        /\ UNCHANGED <<runtime, count, late, errors>>
    BY <1>4 DEF Answer
  <2>2. runtime # NotStarted
    BY <2>1, ServedIsStarted DEF Outcomes
  <2>3. Idle.pc = "idle"
    BY DEF Idle
  <2> QED
    BY <1>2, <2>1, <2>2, <2>3
<1> QED
  BY <1>1, <1>3, <1>4

\* Redis drops a key or an entry, or carries out a command that was given up.
LEMMA RedisQuota ==
    ASSUME Basics, Basics', Quota,
           \/ \E b \in Policies : Expire(b)
           \/ LateScript
           \/ \E b \in GroupBuckets : LateIncr(b)
    PROVE  Quota'
<1>1. runtime' = runtime /\ req' = req /\ errors' = errors
  BY DEF Expire, LateScript, LateIncr
<1> SUFFICES ASSUME runtime # NotStarted, NEW b \in Policies PROVE QuotaAt(b)'
  BY <1>1 DEF Quota
<1>2. QuotaAt(b) /\ Limit(b)' = Limit(b) /\ Pending(b)' = Pending(b)
  BY <1>1 DEF Quota, Limit, Pending
<1>3. /\ count[b] \in Nat /\ Limit(b) \in Nat \ {0} /\ errors \in Nat
      /\ b \in GroupBuckets => /\ late.incr[b] \in Nat /\ late.script \in Nat
                               /\ late.script + late.incr[b] <= errors
  BY Numbers
<1>4. count \in [Policies -> Nat]
  BY DEF Basics, TypeOK
<1>5. /\ Cardinality(Requests) \in Nat /\ Cardinality(Pending(b)) \in Nat
      /\ Cardinality(Pending(b)) <= Cardinality(Requests)
  BY PendingFacts, RequestSets
<1>6. ASSUME NEW a \in Policies, Expire(a) PROVE QuotaAt(b)'
  <2>1. /\ late' = late /\ count[a] > 0
        /\ count' = [count EXCEPT ![a] = 0] \/ count' = [count EXCEPT ![a] = @ - 1]
    BY <1>6 DEF Expire
  <2>2. count'[b] <= count[b]
    BY <1>4, <1>6, <2>1
  <2> QED
    BY <1>1, <1>2, <1>3, <2>1, <2>2, QuotaKept
<1>7. ASSUME LateScript PROVE QuotaAt(b)'
  <2>1. late.script > 0 /\ Consume /\ late' = [late EXCEPT !.script = @ - 1]
    BY <1>7 DEF LateScript
  <2>2. late'.incr = late.incr
    BY <2>1 DEF Basics, TypeOK
  <2>3. count'[b] = IF FullBuckets = {} /\ b \in GroupBuckets THEN count[b] + 1 ELSE count[b]
    BY <2>1, ConsumeFacts DEF Basics
  <2>4. CASE FullBuckets = {} /\ b \in GroupBuckets
    <3>1. runtime.client
      BY <2>1, RuntimeFacts DEF Basics, OneClient
    <3>2. ~Full(b)
      BY <2>4, GroupFacts DEF FullBuckets
    <3>3. count[b] <= Limit(b) - 1
      BY <1>3, <3>2 DEF Full
    <3>4. count'[b] + Cardinality(Pending(b)) + late'.incr[b]
             <= Limit(b) - 1 + Cardinality(Requests) + errors'
      BY <1>1, <1>3, <1>5, <2>1, <2>2, <2>3, <2>4, <3>3
    <3> QED
      BY <1>1, <1>2, <2>4, <3>1, <3>4 DEF QuotaAt
  <2>5. CASE ~(FullBuckets = {} /\ b \in GroupBuckets)
    BY <1>1, <1>2, <1>3, <2>2, <2>3, <2>5, QuotaKept
  <2> QED
    BY <2>4, <2>5
<1>8. ASSUME NEW a \in GroupBuckets, LateIncr(a) PROVE QuotaAt(b)'
  <2>1. /\ late.incr[a] > 0 /\ count' = [count EXCEPT ![a] = @ + 1]
        /\ late' = [late EXCEPT !.incr[a] = @ - 1]
    BY <1>8 DEF LateIncr
  <2>2. runtime.client
    BY <2>1, RuntimeFacts DEF Basics, OneClient
  <2>3. CASE b = a
    <3>1. count'[b] = count[b] + 1 /\ late'.incr[b] = late.incr[b] - 1
      BY <1>4, <2>1, <2>3 DEF Basics, TypeOK
    <3>2. count[b] + Cardinality(Pending(b)) + late.incr[b]
             <= Limit(b) - 1 + Cardinality(Requests) + errors
      BY <1>2, <1>8, <2>2, <2>3 DEF QuotaAt
    <3>3. count'[b] + Cardinality(Pending(b)) + late'.incr[b]
             <= Limit(b) - 1 + Cardinality(Requests) + errors'
      BY <1>1, <1>3, <1>5, <2>3, <3>1, <3>2
    <3> QED
      BY <1>1, <1>2, <1>8, <2>2, <2>3, <3>3 DEF QuotaAt
  <2>4. CASE b # a
    <3>1. count'[b] = count[b] /\ (b \in GroupBuckets => late'.incr[b] = late.incr[b])
      BY <1>4, <2>1, <2>4 DEF Basics, TypeOK
    <3> QED
      BY <1>1, <1>2, <1>3, <3>1, QuotaKept
  <2> QED
    BY <2>3, <2>4
<1> QED
  BY <1>6, <1>7, <1>8

\* The third layer is inductive.
LEMMA NextQuota ==
    ASSUME Basics, Basics', RequestsAreSound, Quota, [Next]_vars
    PROVE  Quota'
<1>1. CASE UNCHANGED vars
  BY <1>1 DEF vars, Quota, QuotaAt, Pending, Limit
<1>2. CASE Next
  BY <1>2, ServeQuota, ScriptQuota, CommandQuota, EdgeQuota, RedisQuota DEF Next, Serve
<1> QED
  BY <1>1, <1>2

-------------------------------------------------------------------------------
(* The theorems.                                                           *)

\* The three layers hold in every reachable state.
THEOREM Invariance == Spec => []IInv
<1>1. Init => IInv
  <2> SUFFICES ASSUME Init PROVE IInv
    OBVIOUS
  <2>1. runtime = NotStarted /\ \A r \in Requests : req[r].pc = "idle"
    BY DEF Init, Idle
  <2>2. RequestsAreSound
    BY <2>1
       DEF RequestsAreSound, Sound, PassedIngress, PassedPreAuth, PassedActor, PassedGroup,
           QuotaUntouched, AtFirst, PastPreAuth, PastActor, InGroup, ByScript, ByLibrary
  <2> QED
    BY <2>1, <2>2, InitBasics DEF IInv, Quota
<1>2. IInv /\ [Next]_vars => IInv'
  BY NextBasics, NextSound, NextQuota DEF IInv
<1> QED
  BY <1>1, <1>2, PTL DEF Spec

\* Types hold, and only a key that exists has an expiry.
THEOREM TypesHold == Spec => []TypeOK
<1>1. IInv => TypeOK
  BY DEF IInv, Basics
<1> QED
  BY <1>1, Invariance, PTL

\* A bucket is overdrawn at most by the requests that saw its last place together and
\* by increments that were given up: in compatibility_consume_grouped_buckets_with_same_keys
\* only, whatever its limit and however many requests there are.
THEOREM QuotaNeverOverdrawn == Spec => []QuotaHeld
<1>1. IInv => QuotaHeld
  <2> SUFFICES ASSUME IInv, runtime.started, NEW b \in Policies
               PROVE  count[b] <= Limit(b) + (IF runtime.client /\ b \in GroupBuckets
                                              THEN Cardinality(Requests) - 1 + errors ELSE 0)
    BY DEF QuotaHeld
  <2>1. runtime # NotStarted /\ Basics /\ QuotaAt(b)
    BY DEF IInv, Quota, NotStarted
  <2>2. /\ count[b] \in Nat /\ Limit(b) \in Nat \ {0} /\ errors \in Nat
        /\ b \in GroupBuckets => late.incr[b] \in Nat
    BY <2>1, Numbers
  <2>3. Cardinality(Requests) \in Nat /\ Cardinality(Pending(b)) \in Nat
    BY PendingFacts, RequestSets
  <2> QED
    BY <2>1, <2>2, <2>3 DEF QuotaAt
<1> QED
  BY <1>1, Invariance, PTL

\* Nothing reaches the endpoint uncounted by a bucket that is fail-closed.
THEOREM AdmittedRequestsWereCounted == Spec => []AdmittedWasCounted
<1>1. IInv => AdmittedWasCounted
  <2> SUFFICES ASSUME IInv, NEW r \in Requests, req[r].pc = "admitted",
                      NEW b \in GroupBuckets \cup {"pre_auth", ActorPolicy}
               PROVE  \/ b \in req[r].charged \/ runtime.failOpen[b] \/ ~runtime.enabled
                      \/ b = "pre_auth" /\ ~runtime.preAuth
    BY DEF AdmittedWasCounted
  <2>1. Sound(r)
    BY DEF IInv, RequestsAreSound
  <2> QED
    BY <2>1, GroupFacts
       DEF Sound, PassedPreAuth, PassedActor, PassedGroup, Counted, PastPreAuth, PastActor
<1> QED
  BY <1>1, Invariance, PTL

\* A protected deployment lets nothing through that neither the edge nor the limiter saw.
THEOREM ProtectedDeploymentLimits == Spec => []ProtectedIsLimited
<1>1. IInv => ProtectedIsLimited
  <2> SUFFICES ASSUME IInv, NEW r \in Requests, req[r].pc = "admitted", runtime.protected
               PROVE  /\ req[r].asserted \/ "pre_auth" \in req[r].charged
                      /\ runtime.enabled =>
                           (GroupBuckets \cup {ActorPolicy}) \ ReadPolicies \subseteq req[r].charged
    BY DEF ProtectedIsLimited
  <2>1. Sound(r) /\ Basics
    BY DEF IInv, RequestsAreSound
  <2>2. runtime # NotStarted
    BY <2>1, ServedIsStarted
  <2>3. /\ runtime.edge \/ runtime.preAuth
        /\ \A p \in Policies \ ReadPolicies : ~runtime.failOpen[p]
    BY <2>1, <2>2, RuntimeFacts DEF Basics
  <2>4. "pre_auth" \notin ReadPolicies
    BY PoliciesAssumption DEF ReadPolicies
  <2>5. req[r].asserted \/ "pre_auth" \in req[r].charged
    BY <2>1, <2>3, <2>4, GroupFacts
       DEF Sound, PassedIngress, PassedPreAuth, Counted, PastPreAuth, PastActor
  <2>6. ASSUME runtime.enabled, NEW b \in (GroupBuckets \cup {ActorPolicy}) \ ReadPolicies
        PROVE  b \in req[r].charged
    BY <2>1, <2>3, <2>6, GroupFacts DEF Sound, PassedActor, PassedGroup, Counted, PastActor
  <2> QED
    BY <2>5, <2>6
<1> QED
  BY <1>1, Invariance, PTL

\* A request refused for a full bucket of the group or for its rights used no quota of
\* the tenant.
THEOREM RefusalIsFree == Spec => []RefusedKeepsQuota
<1>1. IInv => RefusedKeepsQuota
  BY DEF IInv, RequestsAreSound, Sound, QuotaUntouched, RefusedKeepsQuota
<1> QED
  BY <1>1, Invariance, PTL

-------------------------------------------------------------------------------
(* The signing keys.                                                       *)

\* Between two ends of the cooldown a refresh is forced at most once, because it starts
\* a cooldown before anybody else can have the lock; who waits for the lock does not
\* refresh yet.
JwksInv ==
    /\ JwksTypeOK /\ OneRefreshPerCooldown
    /\ ~cooling => forced = 0
    /\ \A t \in Tokens : tokenReq[t].pc = "lock" => ~tokenReq[t].refresh

\* What validation t becomes, and the lock with it: whoever refreshes and waits has it.
Goes(t, v) ==
    /\ v \in Validation \cup {NoValidation}
    /\ tokenReq' = [tokenReq EXCEPT ![t] = v]
    /\ lock' = (IF v.pc \in Waits /\ v.refresh THEN t
                ELSE IF lock = t THEN NoToken ELSE lock)
    /\ v.pc \in Waits /\ v.refresh => lock \in {t, NoToken} /\ v.pc # "lock"

LEMMA GoingKeepsLock ==
    ASSUME JwksTypeOK, NEW t \in Tokens, NEW v, Goes(t, v)
    PROVE  /\ tokenReq' \in [Tokens -> Validation \cup {NoValidation}]
           /\ lock' \in Tokens \cup {NoToken}
           /\ \A q \in Tokens : lock' = q <=> tokenReq'[q].pc \in Waits /\ tokenReq'[q].refresh
<1>1. /\ tokenReq' \in [Tokens -> Validation \cup {NoValidation}]
      /\ tokenReq'[t] = v /\ \A q \in Tokens : q # t => tokenReq'[q] = tokenReq[q]
  BY DEF Goes, JwksTypeOK
<1>2. lock' \in Tokens \cup {NoToken}
  BY DEF Goes, JwksTypeOK
<1>3. ASSUME NEW q \in Tokens
      PROVE  lock' = q <=> tokenReq'[q].pc \in Waits /\ tokenReq'[q].refresh
  <2>1. lock = q <=> tokenReq[q].pc \in Waits /\ tokenReq[q].refresh
    BY DEF JwksTypeOK
  <2>2. CASE q = t
    BY <1>1, <2>2, JwksAssumption DEF Goes
  <2>3. CASE q # t
    <3>1. lock' = q <=> lock = q
      BY <2>3, JwksAssumption DEF Goes
    <3> QED
      BY <1>1, <2>1, <2>3, <3>1
  <2> QED
    BY <2>2, <2>3
<1> QED
  BY <1>1, <1>2, <1>3

LEMMA GoingKeepsWait ==
    ASSUME JwksInv, NEW t \in Tokens, NEW v, Goes(t, v)
    PROVE  \A q \in Tokens : tokenReq'[q].pc = "lock" => ~tokenReq'[q].refresh
<1>1. tokenReq'[t] = v /\ \A q \in Tokens : q # t => tokenReq'[q] = tokenReq[q]
  BY DEF Goes, JwksInv, JwksTypeOK
<1>2. v.pc = "lock" => ~v.refresh
  BY DEF Goes, Waits
<1> QED
  BY <1>1, <1>2 DEF JwksInv

\* Steps of a validation that force no refresh.
LEMMA GoingKeeps ==
    ASSUME JwksInv, NEW t \in Tokens, NEW v, Goes(t, v),
           UNCHANGED <<published, rotations, cooling, forced>>,
           cache' \in [keys : SUBSET Kids, fresh : BOOLEAN],
           discovery' \in BOOLEAN, faults' \in 0 .. MaxFaults
    PROVE  JwksInv'
<1>1. JwksTypeOK'
  BY GoingKeepsLock DEF JwksInv, JwksTypeOK
<1>2. \A q \in Tokens : tokenReq'[q].pc = "lock" => ~tokenReq'[q].refresh
  BY GoingKeepsWait DEF JwksInv
<1> QED
  BY <1>1, <1>2 DEF JwksInv, OneRefreshPerCooldown

\* What is known of a validation by its step.
LEMMA ValidationsAre ==
    ASSUME JwksTypeOK, NEW t \in Tokens, tokenReq[t].pc # "idle"
    PROVE  /\ tokenReq[t] \in Validation
           /\ tokenReq[t].kid \in Kids /\ tokenReq[t].answer \subseteq Kids
           /\ tokenReq[t].refresh \in BOOLEAN
           /\ lock = t <=> tokenReq[t].pc \in Waits /\ tokenReq[t].refresh
           /\ lock # NoToken /\ lock # t => ~(tokenReq[t].pc \in Waits /\ tokenReq[t].refresh)
<1>1. tokenReq[t] \in Validation
  BY DEF JwksTypeOK, NoValidation
<1> QED
  BY <1>1 DEF JwksTypeOK, Validation

\* A step that only changes where a validation is.
Put(t, p) == [tokenReq[t] EXCEPT !.pc = p]

LEMMA PutIs ==
    ASSUME JwksTypeOK, NEW t \in Tokens, tokenReq[t].pc # "idle",
           NEW p \in Waits \cup Ends \cup {"key"}
    PROVE  /\ Put(t, p) \in Validation
           /\ Put(t, p).pc = p /\ Put(t, p).refresh = tokenReq[t].refresh
           /\ [tokenReq EXCEPT ![t].pc = p] = [tokenReq EXCEPT ![t] = Put(t, p)]
  BY ValidationsAre DEF Put, Validation, JwksTypeOK

\* After a refresh, or instead of one: the validation has a key or is rejected, and
\* has no lock any more.
LEMMA SettleGoes ==
    ASSUME JwksTypeOK, NEW t \in Tokens, tokenReq[t].pc # "idle", NEW keys,
           Settle(t, keys), lock' = Released(t)
    PROVE  \E v : Goes(t, v)
<1> DEFINE p == IF tokenReq[t].kid \in keys THEN "key" ELSE "rejected"
<1>1. p \in Waits \cup Ends \cup {"key"} /\ p \notin Waits
  BY DEF Ends, Waits
<1>2. tokenReq' = [tokenReq EXCEPT ![t].pc = p]
  BY DEF Settle
<1> HIDE DEF p
<1>3. Goes(t, Put(t, p))
  BY <1>1, <1>2, PutIs DEF Goes, Released
<1> QED
  BY <1>3

\* The first look for a key.
LEMMA LookGoes ==
    ASSUME JwksTypeOK, NEW t \in Tokens, NEW kid \in Kids, NEW keys,
           Look(t, kid, keys), lock' = Released(t)
    PROVE  \E v : Goes(t, v)
<1> DEFINE p == CASE kid \in keys -> "key"
                  [] kid \notin keys /\ cooling -> "rejected"
                  [] OTHER -> "lock"
           v == [pc |-> p, kid |-> kid, refresh |-> FALSE, answer |-> {}]
<1>1. p \in Waits \cup Ends \cup {"key"}
  BY DEF Ends, Waits
<1>2. tokenReq' = [tokenReq EXCEPT ![t] = v]
  BY DEF Look
<1> HIDE DEF p
<1>3. v \in Validation /\ ~v.refresh
  BY <1>1 DEF Validation
<1> HIDE DEF v
<1>4. Goes(t, v)
  BY <1>2, <1>3 DEF Goes, Released
<1> QED
  BY <1>4

LEMMA ValidateKeeps ==
    ASSUME JwksInv, NEW t \in Tokens, NEW kid \in Kids, Validate(t, kid)
    PROVE  JwksInv'
<1>1. /\ tokenReq[t] = NoValidation /\ JwksTypeOK
      /\ UNCHANGED <<published, rotations, cache, discovery, lock, cooling, forced, faults>>
  BY DEF Validate, JwksInv, provider
<1>2. lock # t /\ lock' = Released(t)
  BY <1>1 DEF JwksTypeOK, NoValidation, Waits, Released
<1>3. CASE Look(t, kid, cache.keys)
  BY <1>1, <1>2, <1>3, LookGoes, GoingKeeps DEF JwksInv, JwksTypeOK
<1>4. CASE tokenReq' = [tokenReq EXCEPT ![t] = [pc |-> FirstFetch, kid |-> kid,
                                                refresh |-> FALSE, answer |-> {}]]
  <2> DEFINE v == [pc |-> FirstFetch, kid |-> kid, refresh |-> FALSE, answer |-> {}]
  <2>1. v \in Validation /\ ~v.refresh /\ tokenReq' = [tokenReq EXCEPT ![t] = v]
    BY <1>4 DEF FirstFetch, Validation, Waits
  <2> HIDE DEF v
  <2>2. Goes(t, v)
    BY <1>2, <2>1 DEF Goes, Released
  <2> QED
    BY <1>1, <2>2, GoingKeeps DEF JwksInv, JwksTypeOK
<1> QED
  BY <1>3, <1>4 DEF Validate

LEMMA FetchKeeps ==
    ASSUME JwksInv, NEW t \in Tokens, Discovered(t) \/ ProviderAnswers(t)
    PROVE  JwksInv'
<1>1. JwksTypeOK
  BY DEF JwksInv
<1>2. tokenReq[t].pc \in {"discover", "fetch"} /\ "fetch" \in Waits /\ "answered" \in Waits
      /\ tokenReq[t].pc \in Waits /\ tokenReq[t].pc # "idle"
  BY DEF Discovered, ProviderAnswers, Waits
<1>3. /\ UNCHANGED <<published, rotations, cache, lock, cooling, forced, faults>>
      /\ discovery' \in BOOLEAN
  BY <1>1 DEF Discovered, ProviderAnswers, provider, JwksTypeOK
<1>4. PICK v \in Validation : /\ tokenReq' = [tokenReq EXCEPT ![t] = v]
                                   /\ v.pc \in Waits \ {"lock"}
                                   /\ v.refresh = tokenReq[t].refresh
  <2>1. CASE Discovered(t)
    <3>1. tokenReq' = [tokenReq EXCEPT ![t] = Put(t, "fetch")]
      BY <1>1, <1>2, <2>1, PutIs DEF Discovered
    <3>2. /\ Put(t, "fetch") \in Validation
          /\ Put(t, "fetch").pc = "fetch" /\ Put(t, "fetch").refresh = tokenReq[t].refresh
      BY <1>1, <1>2, PutIs
    <3> QED
      BY <1>2, <3>1, <3>2
  <2>2. CASE ProviderAnswers(t)
    <3> DEFINE v == [tokenReq[t] EXCEPT !.pc = "answered", !.answer = published]
    <3>1. tokenReq' = [tokenReq EXCEPT ![t] = v]
      BY <1>1, <2>2 DEF ProviderAnswers, JwksTypeOK
    <3>2. tokenReq[t] \in Validation /\ published \subseteq Kids
      BY <1>1, <1>2, ValidationsAre DEF JwksTypeOK
    <3>3. v \in Validation /\ v.pc = "answered" /\ v.refresh = tokenReq[t].refresh
      BY <1>2, <3>2 DEF Validation
    <3> HIDE DEF v
    <3> QED
      BY <1>2, <3>1, <3>3
  <2> QED
    BY <2>1, <2>2
<1>5. Goes(t, v)
  BY <1>1, <1>2, <1>3, <1>4, ValidationsAre DEF Goes
<1> QED
  BY <1>1, <1>3, <1>5, GoingKeeps DEF JwksTypeOK

LEMMA StoreKeeps ==
    ASSUME JwksInv, NEW t \in Tokens, Store(t)
    PROVE  JwksInv'
<1>1. JwksTypeOK /\ tokenReq[t].pc # "idle"
  BY DEF JwksInv, Store
<1>2. /\ UNCHANGED <<published, rotations, discovery, cooling, forced, faults>>
      /\ lock' = Released(t)
      /\ cache' \in [keys : SUBSET Kids, fresh : BOOLEAN]
  BY <1>1, ValidationsAre DEF Store, provider, Fetched
<1>3. \E v : Goes(t, v)
  BY <1>1, <1>2, ValidationsAre, SettleGoes, LookGoes DEF Store
<1> QED
  BY <1>1, <1>2, <1>3, GoingKeeps DEF JwksTypeOK

LEMMA FetchFailsKeeps ==
    ASSUME JwksInv, NEW t \in Tokens, FetchFails(t)
    PROVE  JwksInv'
<1>1. JwksTypeOK /\ tokenReq[t].pc # "idle"
  BY DEF JwksInv, FetchFails
<1>2. /\ UNCHANGED <<published, rotations, cache, discovery, cooling, forced>>
      /\ lock' = Released(t) /\ faults' \in 0 .. MaxFaults
      /\ Settle(t, IF tokenReq[t].refresh THEN cache.keys ELSE {})
  BY <1>1, JwksAssumption DEF FetchFails, provider, JwksTypeOK
<1>3. \E v : Goes(t, v)
  BY <1>1, <1>2, SettleGoes
<1> QED
  BY <1>1, <1>2, <1>3, GoingKeeps DEF JwksTypeOK

\* The one step that forces a refresh: under the lock and after another look at the
\* cooldown.
LEMMA LockAcquiredKeeps ==
    ASSUME JwksInv, NEW t \in Tokens, LockAcquired(t)
    PROVE  JwksInv'
<1>1. /\ JwksTypeOK /\ tokenReq[t].pc = "lock" /\ tokenReq[t].pc # "idle" /\ lock = NoToken
      /\ UNCHANGED <<published, rotations, cache, discovery, faults>>
  BY DEF JwksInv, LockAcquired, provider
<1>2. CASE cooling
  <2>1. /\ Settle(t, cache.keys) /\ UNCHANGED <<cooling, forced>>
        /\ lock' = Released(t)
    BY <1>1, <1>2 DEF LockAcquired, RefreshedMeanwhile, Released
  <2>2. \E v : Goes(t, v)
    BY <1>1, <2>1, SettleGoes
  <2> QED
    BY <1>1, <2>1, <2>2, GoingKeeps DEF JwksTypeOK
<1>3. CASE ~cooling
  <2> DEFINE v == [tokenReq[t] EXCEPT !.pc = FirstFetch, !.refresh = TRUE]
  <2>1. /\ lock' = t /\ cooling' = TRUE /\ forced' = forced + 1
        /\ tokenReq' = [tokenReq EXCEPT ![t] = v]
    BY <1>1, <1>3 DEF LockAcquired, RefreshedMeanwhile, JwksTypeOK
  <2>2. v \in Validation /\ v.pc \in Waits \ {"lock"} /\ v.refresh
    BY <1>1, ValidationsAre DEF Validation, FirstFetch, Waits
  <2> HIDE DEF v
  <2>3. Goes(t, v)
    BY <1>1, <2>1, <2>2 DEF Goes
  <2>4. forced = 0 /\ forced' = 1
    BY <1>3, <2>1 DEF JwksInv
  <2>5. JwksTypeOK'
    BY <1>1, <2>1, <2>3, <2>4, GoingKeepsLock DEF JwksTypeOK
  <2>6. \A q \in Tokens : tokenReq'[q].pc = "lock" => ~tokenReq'[q].refresh
    BY <2>3, GoingKeepsWait
  <2> QED
    BY <2>1, <2>4, <2>5, <2>6 DEF JwksInv, OneRefreshPerCooldown
<1> QED
  BY <1>2, <1>3

LEMMA LockTimesOutKeeps ==
    ASSUME JwksInv, NEW t \in Tokens, LockTimesOut(t)
    PROVE  JwksInv'
<1>1. /\ JwksTypeOK /\ tokenReq[t].pc = "lock" /\ tokenReq[t].pc # "idle"
      /\ UNCHANGED <<published, rotations, cache, discovery, lock, cooling, forced, faults>>
      /\ Settle(t, cache.keys)
  BY DEF JwksInv, LockTimesOut, provider
<1>2. lock' = Released(t)
  BY <1>1 DEF JwksInv, JwksTypeOK, Released
<1>3. \E v : Goes(t, v)
  BY <1>1, <1>2, SettleGoes
<1> QED
  BY <1>1, <1>3, GoingKeeps DEF JwksTypeOK

LEMMA EndKeeps ==
    ASSUME JwksInv, NEW t \in Tokens,
           Verify(t) \/ Respond(t) \/ Cancelled(t)
    PROVE  JwksInv'
<1>1. /\ JwksTypeOK /\ tokenReq[t].pc # "idle"
      /\ UNCHANGED <<published, rotations, cache, discovery, cooling, forced>>
      /\ faults' \in 0 .. MaxFaults
  BY JwksAssumption DEF JwksInv, Verify, Respond, Cancelled, provider, JwksTypeOK, Ends, Waits
<1>2. lock' = Released(t)
  BY <1>1 DEF Verify, Respond, Cancelled, JwksTypeOK, Ends, Waits,
              Released
<1>3. \E v : Goes(t, v)
  <2>1. CASE Verify(t)
    <3>1. PICK p \in Ends : tokenReq' = [tokenReq EXCEPT ![t].pc = p]
      BY <2>1 DEF Verify
    <3>2. p \notin Waits
      BY DEF Ends, Waits
    <3>3. Goes(t, Put(t, p))
      BY <1>1, <1>2, <3>1, <3>2, PutIs DEF Goes, Released
    <3> QED
      BY <3>3
  <2>2. CASE Respond(t) \/ Cancelled(t)
    <3>1. tokenReq' = [tokenReq EXCEPT ![t] = NoValidation] /\ NoValidation.pc \notin Waits
      BY <2>2 DEF Respond, Cancelled, NoValidation, Waits
    <3>2. Goes(t, NoValidation)
      BY <1>2, <3>1 DEF Goes, Released
    <3> QED
      BY <3>2
  <2> QED
    BY <2>1, <2>2
<1> QED
  BY <1>1, <1>3, GoingKeeps DEF JwksTypeOK

\* The provider and the clock.
LEMMA ClockKeeps ==
    ASSUME JwksInv,
           Rotate \/ CacheExpires \/ DiscoveryExpires \/ CooldownEnds
    PROVE  JwksInv'
<1>1. CASE Rotate
  BY <1>1, JwksAssumption DEF Rotate, JwksInv, JwksTypeOK, OneRefreshPerCooldown
<1>2. CASE CacheExpires
  BY <1>2 DEF CacheExpires, provider, JwksInv, JwksTypeOK, OneRefreshPerCooldown
<1>3. CASE DiscoveryExpires
  BY <1>3 DEF DiscoveryExpires, provider, JwksInv, JwksTypeOK,
              OneRefreshPerCooldown
<1>4. CASE CooldownEnds
  <2>1. /\ UNCHANGED <<published, rotations, cache, discovery, lock, faults, tokenReq>>
        /\ cooling' = FALSE /\ forced' = 0
    BY <1>4 DEF CooldownEnds, provider
  <2>2. cooling' \in BOOLEAN
    BY <2>1, Zenon
  <2>3. forced' = 0
    BY <2>1, Zenon
  <2>4. forced' \in Nat /\ forced' <= 1
    BY <2>3
  <2>5. JwksTypeOK'
    BY <2>1, <2>2, <2>4, Zenon DEF JwksInv, JwksTypeOK
  <2> QED
    BY <2>1, <2>4, <2>5 DEF JwksInv, OneRefreshPerCooldown
<1> QED
  BY <1>1, <1>2, <1>3, <1>4

LEMMA JwksInitHolds ==
    ASSUME JwksInit
    PROVE  JwksInv
<1>1. /\ published \in (SUBSET Kids) \ {{}} /\ cache \in [keys : SUBSET Kids, fresh : BOOLEAN]
      /\ discovery \in BOOLEAN /\ cooling \in BOOLEAN /\ forced \in Nat
      /\ rotations \in 0 .. MaxRotations /\ faults \in 0 .. MaxFaults
  <2>1. discovery \in BOOLEAN
    BY DEF JwksInit
  <2>2. cache \in [keys : SUBSET Kids, fresh : BOOLEAN]
    BY DEF JwksInit
  <2>3. cooling \in BOOLEAN
    BY Zenon DEF JwksInit
  <2>4. published \in (SUBSET Kids) \ {{}}
    <3>1. PICK k \in Kids : published = {k}
      BY DEF JwksInit
    <3> QED
      BY <3>1
  <2>5. forced = 0 /\ rotations = 0 /\ faults = 0
    BY DEF JwksInit
  <2> QED
    BY <2>1, <2>2, <2>3, <2>4, <2>5, JwksAssumption
<1>2. /\ tokenReq \in [Tokens -> Validation \cup {NoValidation}] /\ lock = NoToken
      /\ \A t \in Tokens : tokenReq[t].pc = "idle"
  BY DEF JwksInit, NoValidation
<1>3. JwksTypeOK
  BY <1>1, <1>2, JwksAssumption DEF JwksTypeOK, Waits
<1> QED
  BY <1>2, <1>3 DEF JwksInit, JwksInv, OneRefreshPerCooldown

LEMMA JwksStepKeeps ==
    ASSUME JwksInv, [JwksNext]_jwksVars
    PROVE  JwksInv'
<1>1. CASE UNCHANGED jwksVars
  BY <1>1 DEF jwksVars, JwksInv, JwksTypeOK, OneRefreshPerCooldown
<1>2. CASE \E t \in Tokens, kid \in Kids : Validate(t, kid)
  BY <1>2, ValidateKeeps
<1>3. CASE \E t \in Tokens : Proceed(t)
  BY <1>3, FetchKeeps, StoreKeeps, FetchFailsKeeps, LockAcquiredKeeps, LockTimesOutKeeps, EndKeeps
     DEF Proceed
<1> QED
  BY <1>1, <1>2, <1>3, ClockKeeps DEF JwksNext

\* What the validations, the lock and the cooldown rely on holds for ever.
THEOREM JwksInvariance == JwksSpec => []JwksInv
<1>1. JwksInit => JwksInv
  BY JwksInitHolds
<1>2. JwksInv /\ [JwksNext]_jwksVars => JwksInv'
  BY JwksStepKeeps
<1> QED
  BY <1>1, <1>2, PTL DEF JwksSpec

\* The lock is held exactly by the validation that refreshes under it, however fetches
\* fail and requests are cancelled.
THEOREM KeyTypesHold == JwksSpec => []JwksTypeOK
<1>1. JwksInv => JwksTypeOK
  BY DEF JwksInv
<1> QED
  BY <1>1, JwksInvariance, PTL

\* _refresh_jwks_after_kid_miss: however many tokens name unknown keys, and however
\* their waits for the lock end, the provider sees one forced refresh per cooldown.
THEOREM ProviderIsSpared == JwksSpec => []OneRefreshPerCooldown
<1>1. JwksInv => OneRefreshPerCooldown
  BY DEF JwksInv
<1> QED
  BY <1>1, JwksInvariance, PTL
================================================================================
