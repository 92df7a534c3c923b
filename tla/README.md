# A TLA+ verification of fastapi-saas-template

The repository is the backend of a multi-tenant SaaS service: organisations,
memberships and invites, a transactional outbox with mail delivery, platform
administration, and the privacy side (data exports, erasure, retention). This
directory holds TLA+ models of the parts whose correctness depends on
concurrency and failure, TLC configurations that check them on small instances,
and TLAPS proofs of the results that hold for every instance.

Everything below `src/backend/app` is written `app/...`.

## 1. The system

Processes (`compose.yaml`, each `restart: unless-stopped`): the FastAPI `app`, a
Dramatiq `worker`, the `outbox-dispatcher`, the `privacy-export-worker`, and
PostgreSQL, Redis and Keycloak. Retention and staff bootstrap are commands run
from outside. The processes share one PostgreSQL database at READ COMMITTED and
talk through the Dramatiq queue; archives live in local or S3 storage. Sessions
use `autoflush=False, expire_on_commit=False`; `async with session.begin()`
rolls back on any exception. An ORM object writes the columns it changed, by
primary key, with values computed from the row as it was read. Most of the
hazards follow from that last sentence.

| component | state | operations | hard behaviour | what makes it correct |
|---|---|---|---|---|
| outbox (`app/outbox`) | `outbox_events`, `outbox_delivery_claims`, broker queue | publish, recover, claim, enqueue, release, deliver, apply result | crashes between every two steps, duplicate and lost messages, stale reads, opposite lock orders | rows stay recoverable, terminal rows are scrubbed, one claim per dispatch, every event ends |
| invites (`app/invites`) | `invites`, their current token | create, resend, revoke, accept, expire, anonymise, mail | check, await, conditional UPDATE; delivery of superseded tokens | processed means mailed or closed, closed is frozen |
| tenancy (`app/organisations`, `app/memberships`) | organisations, membership rows | create, join, change role, remove, replace owner, delete, suspend | checks on rows read without a lock | exactly one owner, one active membership per user, admin rights come from owners |
| platform staff (`app/platform`, `app/core/platform`) | staff rows, user status | create, change role, suspend, restore, bootstrap | the last-admin guard under concurrent requests | somebody can administer |
| export artifacts (`app/privacy`, `app/commands/privacy_export_worker.py`) | artifact rows with leases, upload intents, stored objects | request, claim, renew, prepare, reserve, validate, publish, mark, purge, expire | lapsed leases with the old holder alive, ambiguous storage calls | no orphaned archive, ready is downloadable |
| data-subject requests (`app/privacy/services/data_subject_requests.py`) | request status and execution state | submit (idempotent), review, approve, fulfil, cancel | compare-and-swap on status, execution state derived from artifacts | no double submission, nothing approved without authority, final is final, the newest artifact decides |
| erasure (`app/privacy/erasures`) | the subject's rows in twelve tables | preview, lock, run ten providers in order, commit or mark failed, delete objects afterwards | each provider queries what earlier ones may have removed; workers, exports and sign-ins hold the data meanwhile | nothing of the subject is left, nobody else loses anything, the preview told the truth, what is erased does not come back |
| archive contents (`app/privacy/exporters`, the inventories) | which columns of which rows a record shows | twelve export providers | rows change while the archive is written | no secret and no third party, nothing withheld silently |
| retention (`app/privacy/maintenance.py`) | terminal outbox rows, closed invites, artifacts, audit rows | scrub, anonymise, expire, purge | lists first, writes later | purges only what is closed |
| users (`app/users`) | user rows | just-in-time provisioning, profile refresh, status | two first requests; a refresh around an erasure | one row per identity, no way back to an erased one |
| rate limits (`app/core/rate_limit`, the settings) | effective policies, Redis counters and expiries | start-up validation, ingress, actor limit, grouped consume by script, by commands or by the limits library | not atomic after a cluster redirection; timeouts and late commands; fail-open and fail-closed in one group | quotas hold, a refusal costs the tenant nothing, an admitted request was counted, a bucket recovers |
| JWKS cache (`app/core/auth_jwt.py`) | cached key set, discovery document, refresh lock, cooldown | fetch, forced refresh | concurrent misses, lock timeout, cancellation, answers overtaken by a rotation | bounded refreshes, the lock is freed, a new key is found, a retired one dies |
| audit, governance (`app/audit`, `app/privacy/services/governance.py`) | audit rows; authorizations, consents, notice acceptances | insert, withdraw | only what erasure and export do to the rows | as for erasure |
| HTTP layer, other configuration, telemetry | - | - | none of their own | not modelled |

`PROJECT.json` lists every component with its status, every hazard at its line,
and the source lines behind every definition.

## 2. Plan

1. `Outbox`, its abstract specification `OutboxContract`, the proofs - done.
2. `InviteDelivery`, composed with `OutboxContract` - done, with its proofs.
3. `Tenancy` - done, with its proofs. 4. `PlatformStaff` - done, with its proofs.
5. `ExportArtifacts` - done; `NoOrphanObject` and `ReadyIsStored` are proved.
6. `DataSubjectRequests` (submission, review, authority, fulfilment, execution of
   an erasure) and `ExportExecution` (the execution state derived from the newest
   artifact, delivery) - done, with their proofs.
7. `SubjectInventory`, `SubjectRecords`, `SubjectErasure`: the erasure providers, the
   preview, the contents of an archive, user provisioning - done, with the proofs of
   its seven safety properties.
8. `RateLimitPolicies`, `RateLimit` - done, with the proofs of its four safety
   properties. 9. `JwksCache` - done, with its proof.

Every safety property of a passing run is also a theorem; the liveness properties
stay with TLC. What would come next is in section 7.

## 3. Modules

| module | models | state and actions |
|---|---|---|
| `Outbox` | dispatcher, workers, queue, row locks, privacy scrubs | see below |
| `OutboxContract` | what the outbox promises to publishers | `posted`, `material`, `done`, `work` |
| `InviteDelivery` | invites over `OutboxContract` | invite rows, requests between read and write, tokens mailed |
| `Tenancy` | organisations, memberships, joins, deletions | membership rows, pending invites, open transactions |
| `PlatformStaff` | staff rows and account suspension | staff and user rows, open transactions |
| `ExportArtifacts` | export worker, storage protocol, purge, erasure | rows, storage, late uploads, workers, passes |
| `DataSubjectRequests` | requests of data subjects, erasure execution | request rows, erased users, open transactions with what they read |
| `ExportExecution` | execution state of one export request | artifact statuses, deliveries, the request, open transactions |
| `SubjectInventory` | column policies, data inventory, coverage, order of the providers | constants |
| `SubjectRecords` | what each erasure provider, preview query and export record does with one version of the rows | operators on rows |
| `SubjectErasure` | one erasure provider by provider, and who runs beside it | rows, the erasure's uncommitted versions, worker, export, sign-ins |
| `RateLimitPolicies` | settings, their validation, effective policies | operators on settings |
| `RateLimit` | ingress, actor limit, the group of business limits | counters, expiries, late commands, requests |
| `JwksCache` | token validation over the shared key set | published keys, caches, lock, cooldown, validations |
| `OutboxProofs`, `InviteProofs`, `DsrProofs`, `ExportArtifactsProofs`, `ExportExecutionProofs` | theorems about the module they are named after | - |
| `AccessProofs` | theorems about `Tenancy` and `PlatformStaff` | - |
| `SubjectProofs` | theorems about `SubjectErasure` and the operators below it | - |
| `IngressProofs` | theorems about `RateLimit` and `JwksCache` | - |
| `MC*` | symmetry sets and the values of the constants for TLC; `MCAccess`, `MCDataSubjectRequests` and `MCExports` put two components in one run | `moving` |

**How transactions are split.** A transaction that takes the lock of the row it
works on first and then waits for nothing is one action. Where a row is read
without a lock and written later, or where a lock is held while another statement
waits, the transaction is two or more actions, and nothing it wrote is visible
before the last. A request that raises is rolled back; unless something outside
the database changed it is no action at all.

**Outbox.** A row is `status`, `attempts`, `lockedAt` (null, fresh, stale),
`backoff` and `payload` (full, scrubbed). A dispatcher goes through
`recover, recovering, claim, claiming, enqueue`, with `release, relDelete,
relWrite` after a failed enqueue, as `run_dispatcher_loop` does; `recovering` and
`claiming` hold the row locks of `SELECT ... FOR UPDATE SKIP LOCKED` while the
claim rows are deleted. A worker goes through `deliver` (outside any transaction),
`read` (`get_delivery_claimed_event`), `delete` (the claim row), `write` (the
UPDATE). `DeadlockAborts*` is PostgreSQL's choice of a victim. What the invite
says is a free choice here and decided in `InviteDelivery`.

**InviteDelivery.** An event stands for the token it carries, so an invite's token
is the event of its last create or resend. `RequestReads` and `ResendRotates` /
`RevokeCommits` are the two ends of a request; `WorkerLooks` is the unlocked read of the
invite inside the claim transaction, followed by its commit (`WorkerDelivers`,
`WorkerExpires`, `WorkerRejects`). The outbox is present only through its contract.

**Tenancy.** Every tenant request is a reading step (`...Reads`) and a committing
step. A membership is a row: a request that still holds a removed row writes to
that row. The unique indexes are guards of the inserting steps. `ReplaceOwner`
locks first and is one action. The history variable `crossed` collects the
organisations in which an owner replacement (which no HTTP route reaches yet) has
promoted a row that an open role change or removal had already checked; the stale
UPDATE then takes the new owner away. `ExactlyOneOwner` holds everywhere else, so
this is the only way to lose it. A deletion writes nothing that an accept waits for:
`DeletedSetsFree` is the subject of a finding. The constant `Starts` says
which small world a behaviour begins in: with three users, with an owner replacement, with two
organisations to choose from, or with a suspension to come.

**PlatformStaff.** `Authorise`, `Load`, `Commit`. The guard for the last admin
locks and reads again, but only if the row was loaded as an admin: a request that
loaded a support agent whom another one then promotes is not guarded, which is what
`Last_admin` shows. The history variable `overlapped` says whether two requests have
ever been open at once.

**ExportArtifacts.** A processing token is the number of the claim, a storage key
the number of the claim that generated it. Storage holds nothing, a reservation or
the archive under a key, and `late` holds conditional PUTs whose sender is gone.
The worker's steps follow `_process_artifact`: prepare; if an earlier lease
committed a key, inspect, fence, sweep, reset and prepare again; reserve, validate,
publish or cancel; mark ready, or mark failed, wipe, clear. Both storage adapters
implement these calls; the model takes the weaker guarantees of S3.

**DataSubjectRequests.** A decision is a read (`TransitionReads`, `AuthorityReads`)
and an UPDATE that repeats what was read (`StillMoves`, `StillReviews`). A keyed
submission locks the requester `FOR NO KEY UPDATE` (`SubmitLocks`), looks for the
key and inserts (`SubmitCommits`). An erasure locks executor and request
(`EraseBegins`), then the subject (`EraseLocks`), and commits every provider together
with the fulfilment (`EraseCommits`) or only the failure (`EraseFails`). Two erasures
that wait for each other's rows end by `EraseFails`, as PostgreSQL's deadlock
detection makes one of them. `processing` is written and flushed inside the
transaction and never committed, so it is not a value of `exec`; the execution
state of export requests is left to the next module.

**ExportExecution.** A transaction locks the artifact it writes, reads the committed
artifacts and the request (`Writes`), and writes `execution_status` by primary key
if it differs from what was loaded (`SyncCommits`). Recovery and claim share a
transaction and its identity map, hence `RecoverStarts`, `RecoverSaves`,
`ClaimAfterRecovery`. What it writes tells of the newest artifact it could read,
which need not be the newest at its commit: `Export_newest`.

**SubjectInventory, SubjectRecords, SubjectErasure.** The values in a row never
change, so a row is the set of its columns that are `gone` (nulled, reset to False, or
replaced by the tombstone) and a status; who a column names is the constant `Link`. The tables
of `column_inventory.py`, `data_inventory.py` and `plan.py` are constants of
`SubjectInventory`. `SubjectRecords` has one operator per provider, for the rows it
selects and for what it makes of them, evaluated on the rows as the transaction sees
them: a provider that looks for the subject's email finds nothing once the profile
has lost it. `SubjectErasure` runs the providers of `ProviderOrder` one per step
inside the savepoint; `draft` holds the locked rows as the erasure sees them, `row`
what is committed. A provider may refuse (legal hold, an event or artifact in
processing), the process may die, objects are deleted after the root transaction. An
artifact that has a storage key without being ready is `requeued` or `unpurged`: its
worker lost its lease or failed to purge, and the erasure cancels it and deletes what
is under the key like a ready one (`Keyed`).
Beside it run, according to `Casts`, the outbox worker, an export of the subject, and
sign-ins that load the profile, find it or insert it, and write changed columns back
by primary key. The providers of an export read one after the other; the model does
not fix how far it has come: `Written` is what any of them would write now. History:
`seen` (the rows when the erasure began), `released` (events a slow worker lost),
`lateMails` (mail after the erasure), `restored` (profile columns a sign-in put back).

**RateLimitPolicies, RateLimit.** A deployment is started with settings that the
validators of `settings.py` accept (`ValidSettings`), from which `init_rate_limiter`
makes the effective limits and fail modes (`EffectiveLimit`, `EffectiveFailOpen`,
with forced fail-closed). A request passes ingress, the bucket of its address, the
bucket of its actor, authorisation, and the group. The group is one script
(`Script`), or after a cluster redirection GET, INCR, PTTL and PEXPIRE per bucket
(`Get`, `Incr`, `SetExpiry`, `RepairExpiry`), or without a client `TestBucket` and
`HitBucket`. `charged` remembers where a request was counted. Every wait may fail;
a script or an INCR that was given up may still be run (`LateScript`, `LateIncr`).

**JwksCache.** A validation goes from one `await` to the next: `discover`, `fetch`
(the provider answers with what it publishes then), `answered` (stored later), and
`lock` for a forced refresh. Stored answers may be older than the cache. The wait for
the lock may time out; a fetch may fail or hang; a request may be cancelled anywhere
and gives its lock back.

## 4. Runs

Bounds are the CONSTANTS commented with "bound" in the modules; every run that passes
is exhaustive for its bounds. Three runs check two components each. The two share no
state, and a behaviour moves only the one that `moving` names, so the run reaches the
states of the one and the states of the other as two runs would.

| run | instance | shows |
|---|---|---|
| `Outbox` | 1 event, 2 workers, 1 dispatcher, 3 attempts, 1 crash | the four invariants, `EventuallyTerminal`, `ImplementsContract`. Rows interact only through batches, so one row with every process on it is the interesting case; three attempts let a stale result set the counter back and the event still end. The invariants and the refinement are proved for any number of dispatchers |
| `Invite_delivery` | 2 tokens, 2 invites, 2 workers, 2 requests | three properties; two tokens give one resend, or a second invite after the first is closed |
| `Invite_expired` | 1 invite | finding |
| `Access` | 3 users, 2 organisations, 2 transactions, in four worlds with at most one owner replacement and one suspension; or 3 accounts and 2 platform transactions | `OneMembership`, `ExactlyOneOwner`, `AdminsComeFromOwners`, and `SomeoneAdministers` while platform requests do not overlap; three users are an owner, somebody to promote and somebody to invite |
| `Deleted_org`, `Last_admin` | as `Access` | findings |
| `Dsr_requests` | 2 users, one of them staff, 2 requests, 2 transactions; or 2 artifacts of one export request, 2 transactions | `OneRequestPerKey`, `ApprovedIsAuthorised`, `ExecutedIsFulfilled`, `FinalStays`, `DeliveredWasAvailable`; two requests give a retried submission and a second request that names the erased subject, and the executor may be somebody's subject; two artifacts are an older and a newer one |
| `Export_newest` | as `Dsr_requests` | finding |
| `Exports` | 1 artifact, 2 workers, 3 leases, 1 pass, 1 erasure; or 32 rows in the 12 tables, 2 executions, 2 sign-ins, 1 late invite, with the outbox worker, or an export and sign-ins, beside the erasure | `NoOrphanObject`, `ReadyIsStored`, `ErasedObjectsGo`: three leases let a holder that lapsed twice meet its successor. `Complete`, `NothingElse`, `PreviewCovers`, `LateMail`, `SignInFindsAccount`, `OfferedIsStored`, `ArchiveIsFair`: every table has a row about the subject; where the code tells an actor from a data subject there is also a row in which the subject only acts, and where a query could reach too far a row of somebody else; two executions give a failed one and its retry. The worker touches only events, so it need not run beside the others |
| `Subject_retained` | as `Exports` | finding |
| `Rate_limit` | 2 requests at once and any number in sequence, a group of 2 buckets with limits 2 and 1, 1 failing wait, every accepted combination of the settings that matter | `QuotaHeld`, `AdmittedWasCounted`, `ProtectedIsLimited`, `RefusedKeepsQuota`, `BucketsRecover`; one failure is enough to lose an expiry or to be answered late |
| `Jwks_cache` | 2 validations at once, 2 keys, 2 rotations, 2 faults | `OneRefreshPerCooldown`, `LockIsFreed`, `RetiredKeyDies`, `NewKeyLives`; two rotations take a key away and bring it back |

The type invariant of each module (`TypeOK`, `StaffTypeOK`, `JwksTypeOK`,
`ExecutionTypeOK`, `ErasureTypeOK`) is not among the listed properties; it is proved of
every module.

`CHECK_DEADLOCK FALSE` appears where a bound, a deleted organisation or a suspended
administrator lets the system stop, and in the two request modules, where every
request may have reached its final state. The Outbox and Invite runs check for
deadlock, and so do `Rate_limit` and `Jwks_cache`. The erasure
ends when it is executed and the sign-ins are done.

**Fairness.** `Outbox`: the dispatcher loop runs and is restarted, time passes,
deadlocks are detected, and a result transaction that a worker has begun ends
(strong fairness, because PostgreSQL grants a row to its waiters in turn). No
worker need ever take a message and no delivery need ever end: recovery alone must
bring an event to its end. `ExportArtifacts`: the retention pass is run again and
again and storage does not refuse the same deletion for ever; workers need not run. The
other half of `Exports` needs no fairness.
`RateLimit`: a request that is being served goes on, since every wait for Redis has a
timeout, and Redis expires keys that have an expiry; no request need ever arrive.
`JwksCache`: validations go on (the HTTP client and the wait for the lock have
timeouts), cache entries expire and cooldowns end; nobody need rotate a key or
present a token, so the two key properties say of whom they speak.

**Findings.** Five runs end in a violation of what the repository says of itself;
`PROJECT.json` quotes the lines.

- `Invite_expired`: resend answers "expired", and the UPDATE that marked the invite is
  rolled back with the error (`invites.py:308`, against a test).
- `Deleted_org`: an invitee finds the organisation live, the owner's deletion deactivates
  the memberships it can see, the invitee's membership is inserted, both commit. The
  invitee is an active member of a deleted organisation and can join no other
  (`organisations.py:255`, against `business-rules.en.md:102`).
- `Last_admin`: a change of a support agent's role loads the row; the agent is promoted;
  the first admin is demoted, the guard having found the other; the first change then
  commits without a guard, and no admin row is left (`platform_staff.py:97`, against the
  tests of "Cannot demote last active platform admin"). What holds is
  `SomeoneAdministers`, while requests do not overlap.
- `Export_newest`: a claim of the older artifact reads while the request for a newer one
  is uncommitted, and writes "processing" after it committed "queued"
  (`export_artifacts.py:244`, against `privacy-export-artifacts.md:122`).
- `Subject_retained`: the profile's `email_verified` and `onboarding_completed`, whose
  column policy is to retain them, are reset (`user_profile.py:118`); so are invites'
  `expires_at`, artifacts' `content_type` and `size_bytes`, outbox events' `locked_at` and
  `next_attempt_at` (against `privacy-dsr-column-inventory.md:49`, by which inventory and
  providers stay aligned).

**Observations.** Behaviours of the code that the models contain and the properties
make room for, each where a reader might expect otherwise:

- A stale result reopens a terminal outbox event (`workers.py:108`, `dispatcher.py:59`);
  `invite-membership-foundation.md:68` calls terminal rows final. It stays scrubbed
  (`TerminalScrubbed`) and ends again (`EventuallyTerminal`).
- A sign-in that loaded the profile before the erasure and commits after it writes
  changed profile columns back (`restored` in `Complete`).
- A worker that lost its event, or one whose invite was created too late for the erasure
  to see, still mails the subject afterwards (`released` and `seen` in `LateMail`).
- Two admins who suspend each other's accounts at the same time both succeed
  (`overlapped` in `SomeoneAdministers`).
- Without a Redis client a refused request may already have hit earlier buckets through
  the limits library (`runtime.client` in `RefusedKeepsQuota`).
- The preview calls platform staff, authorizations and notices "retain_only" although
  the erasure changes them, and memberships "automatic" although nothing changes.
- Audit events about rows the subject only revoked, reviewed, appointed or generated
  are erased but not exported; `export_artifact_id` and `erasure_job_id` of a request
  and NULL actor columns are left out of a record without being listed as redacted.
- The exporter shows the outbox's `locked_at` and the artifact's `storage_backend`
  although their column policy says not to export them.

## 5. Proofs

Every theorem is about all behaviours of the module's `Spec` and all values of its
constants that satisfy its named assumption; the bounds of the runs play no part. Each
proof module defines an inductive invariant `IInv` and proves `Invariance` with one lemma per action (or
per group of actions that disturb the same parts); the named properties are then
consequences, the action properties from `IInv` and one step. Two proof modules are
about two components each: `AccessProofs` extends `Tenancy` and `PlatformStaff`,
`IngressProofs` extends `RateLimit` and `JwksCache`. The second of each pair has names of
its own for that (`StaffSpec`, `JwksSpec`), and its invariant is `StaffInv` and `JwksInv`;
so have the components that share a run (`ExecutionSpec`, `ErasureSpec`).

`OutboxProofs` proves `TypeOK`, `ProcessingIsRecoverable`, `TerminalScrubbed`,
`OneClaimPerDispatch`, `AttemptLeft` and `BatchIsStable` for any number of events,
workers and dispatchers, any batch sizes and any `MaxAttempts > 0`, from the three
named assumptions of `Outbox`.

None of them is inductive alone. The inductive invariant `IInv` adds what the steps
of the processes know: a dispatcher in `recovering` or `claiming` holds the lock of
every row of its batch and the row has the status it was selected for (so batches
stay stable and nobody else's write gets in), and every row lock belongs to such a
batch (`LocksAreBatches`); the attempts a worker or a releasing dispatcher remembers
are below the maximum (`SeenLeft`: a stale write cannot exceed it); and an event that
is processing and was taken since its last dispatch still has its claim
(`TakenIsClaimed`), so nobody can take it a second time. The last one is the subtle
one: a stale result deletes the claim of a newer worker, but the same transaction
moves the row out of processing. `Invariance` shows `Init => IInv` and that every action
preserves it, one lemma per action and conjunct; the theorems follow.

Its second part proves `Spec => Contract!ContractSpec` (`ImplementsContract`) under the
mapping at the end of `Outbox`: each action is a step of the contract or leaves it unchanged. It
needs `IInv` for "material that is gone never comes back".

`DsrProofs` proves `TypeOK`, `OneRequestPerKey`, `ApprovedIsAuthorised`,
`ExecutedIsFulfilled` and `FinalStays` of `DataSubjectRequests` for any users, staff,
request types, requests and open transactions, from `RequestAssumption`. Its `IInv`
adds what open transactions know. Keyed submissions of one requester exclude each
other from their lock on (`KeysExclusive`) and have found no live key (`KeyIsNew`),
so the row that is inserted is the only one with its key. A decision was allowed by
the status that was seen, and does not fulfil an erasure (`DecidesOnSeen`), so the
compare and swap carries the table of transitions over to the row as it is at the
commit. An erasure in execution has an approved, unexecuted request to itself
(`ExecutesApproved`, `OneExecutor`), because every other UPDATE waits for its lock.
`CommitKeepsOthers` says once what a commit must leave alone for the other
transactions; each committing action shows that it does.

`InviteProofs` proves `TypeOK`, `ProcessedMeansMailed`, `ClosedIsFrozen` and
`SupersededStaysUnsent` for any invites, tokens, requests and workers, from
`InviteAssumption`. It sees of the outbox only the actions of `OutboxContract`, so
together with the refinement it holds of the code's outbox. A report is decided in
one step and applied in a later one; `ReportIsTrue` says what cannot be undone in
between: a report of success comes from a worker that mailed the token or saw the
invite closed. The rest of `IInv` says that events, open requests and work refer to
invites that exist (`PostedHasInvite`, `RequestHasInvite`, `WorkIsPosted`).

`AccessProofs` first proves `TypeOK`, `OneMembership`, `ExactlyOneOwner`
and `AdminsComeFromOwners` of `Tenancy` for any users, organisations, rows and open transactions,
from `TenancyAssumption` (`Starts` holds consistent initial worlds). `OneMembership` and
`ExactlyOneOwner` are about cardinalities; `IInv` states them as uniqueness (`OneRow`,
`OneOwner`). `RequestsAreSound` says, for each kind of open transaction, what of its
reads still holds: rows keep user and organisation, the acting owner is recorded in
`everOwner` for good, and a row that a role change or a removal has checked is not an
owner's, unless a replacement has crossed it. `InsertsDiffer` says that two inserts
not yet committed are of different users, as the unique index makes the second wait.

Its second part proves `StaffTypeOK` and `SomeoneAdministers` of
`PlatformStaff` for any users and open requests. For `SomeoneAdministers` the invariant
`StaffInv` adds that, as long as requests come one at a time, the actor of the open
request is still an administrator (`ActorAdministers`) and what it has loaded spares the
actor's own rights (`LoadedSparesActor`), so the actor remains.

`ExportArtifactsProofs` proves `TypeOK`, `NoOrphanObject` and `ReadyIsStored` for any
artifacts, workers, passes, leases and batch size, from `ExportAssumption`. `IInv` has
two layers. `Rows`: what each step of a worker and of a pass holds, and that tokens of
different workers differ (`TokensDiffer`), so at most one of them is the row's holder.
`Storage`: a key is untouched until the lease that generated it reserves it
(`Unclaimed`, `BatchUntouched`, `WorkUntouched`); a publication that has passed the
validation, or is late, can only succeed on a reservation, and then the row still
names the key (`ArmedIsNamed`); once the row is about to forget a key, nothing can be
published under it (`ForgottenIsGone`), because the fence or the deletion took the
reservation away; and the holder that is about to mark its artifact ready has its
archive in storage (`HolderKnows`). The second layer uses the first but not the other
way round, so each is proved in its own part of the module.

`ExportExecutionProofs` proves `ExecutionTypeOK` and `DeliveredWasAvailable` for any
number of artifacts and transactions, from `ExecutionAssumption`. Between the UPDATE that
confirms a delivery and its commit other transactions may run; `TxSound` says that the
archive of a confirmed delivery is still available and the request still linked, since
the row stays locked and the erasure waits for the lock.

`IngressProofs` first proves `TypeOK`, `QuotaHeld`, `AdmittedWasCounted`,
`ProtectedIsLimited` and `RefusedKeepsQuota` of `RateLimit` for any accepted deployments, limits,
groups, requests and failures. `RateLimitAssumption` asks for what the code arranges:
the group is a non-empty list of distinct policies without the ingress and the actor
policy (`business.py` builds each group from different tenant policies), the requests
in progress are finitely many, and the settings are valid ones. `IInv` says at each
step of a request which buckets have been counted and that the group is untouched
before its first count (`RequestsAreSound`). The quota is the interesting part: the
counter of a bucket, plus the requests that have seen a free place in it and have not
yet counted, plus its increments given up and still on their way, are at most the
limit minus one plus the number of requests and errors (`Quota`). That sum only grows
where a request or a late script sees a free place, and then the counter is below the
limit.

Its second part proves `JwksTypeOK` and `OneRefreshPerCooldown` of `JwksCache` for any
keys, validations, rotations and faults, from `JwksAssumption`. The type invariant already ties the lock to its holder: the
lock is `t` exactly when validation `t` waits inside a forced refresh. `JwksInv` adds
that no refresh has been forced while no cooldown runs (a refresh starts one in the
step that begins it, before anybody else can have the lock) and that waiting for the
lock is not yet refreshing.
`Goes` says once what a validation may become and what happens to the lock with it;
each action shows that it is such a move.

`SubjectProofs` proves `ErasureTypeOK` and the seven invariants of `SubjectErasure` for any
database: any rows of the twelve tables, linked in any way the schema allows, with any
statuses, late rows, sign-ins and audit events. What "the schema allows" means is in
`RecordsAssumption` and `ErasureAssumption`: only the columns of `Naming` can hold the
subject's id or address, an audit event has a target of one of the `AuditedTables`
that exists, the payload of an outbox event is made from its invite, and an identity
belongs to one user at the start. TLC evaluates both on the instance of the run.

The first half is about the operators of `SubjectRecords`, one lemma per table, on a
row nothing has changed yet (`Unchanged`): a provider finds every row that must lose
something and what it does is `Rightly` done - all of `MustGo`, and of
another's row nothing beyond `MayGo` (`InvitesRight`, ..., `AuditRight`); the preview counts what the
erasure finds (`PreviewAgrees`); and the record an exporter writes is a `FairRecord`,
whatever has been erased meanwhile. The second half is the induction. The order of the
providers is the heart of it: a provider looks with the subject's email or ids, so it
works because the tables it looks through are still untouched when its `Turn` comes.
`LockedRow` says so of every row in `draft` (changed only after its turn, and for a
reason that the committed rows still show, `Chosen`), `Progress` says what is done after
each turn, and `Running`, `Executed` and `Deferrals` carry this over commit, rollback,
crash and retry. `Intact` and `Whole` describe the committed rows: untouched before the
commit but for payloads of mail that was sent, and afterwards erased as a whole. The
steps of worker, export and sign-ins are shown to be moves of unlocked rows that keep
all this (`Beside`, `Move`); `Holding` and `SigningIn` say what these processes know.
`PreviewCovers` and `ArchiveIsFair` are consequences of `IInv`, not parts of it.

The attempt corrected the model twice. `ArchiveIsFair` was false of databases that the
run does not contain: `created_by_user_id` of a staff row is nullable
(`platform_staff.py:47`) and an empty one is not listed as redacted, which `Empty` now
says as it did of the other nullable references. And that the target of an audit event
exists had been true of the instance without being assumed.

**Only model-checked.** Liveness (`EventuallyTerminal`, `ErasedObjectsGo`,
`BucketsRecover`, `LockIsFreed`, `RetiredKeyDies`, `NewKeyLives`): temporal reasoning
under fairness is beyond TLAPS. There are no recursive operators in the modules that
carry theorems.

## 6. Abstractions worth knowing

Times are orders, not numbers: a lock is fresh or stale, a lease live or lapsed, an
invite lapsed or not. Tokens are unique by construction (random 32-byte values).
Audit rows commit with the change they record. In the request models rate limiting is
the await between check and write; `RateLimit` models it for itself. Names, emails,
slugs and the layout of payloads and archives carry no state the properties look at.

## 7. Not modelled

- Retention of audit rows and of idempotency keys (`maintenance.py`): a SELECT of ids
  and an UPDATE of columns that by then nobody else reads or sets; that a key expires
  is `KeyExpires` in `DataSubjectRequests`.
- The governance service: its grants, withdrawals and acceptances are single
  statements, or inserts backed by a unique index, and no later step of a request uses
  what an earlier one read. The health checks of request execution only query.
- Claims and signature checks on one token, payload encryption, SMTP and S3 wire
  formats, keyset paging of the exporters: functions of one input without shared state.
- Routing, schemas, error bodies, logging, metrics and the settings outside rate
  limiting: no protocol state.
