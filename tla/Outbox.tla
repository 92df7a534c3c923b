-------------------------------- MODULE Outbox --------------------------------
(***************************************************************************)
(* The transactional outbox (app/outbox): events written by request        *)
(* transactions, the dispatcher process that recovers and claims them, the *)
(* Dramatiq queue between the processes and the workers that deliver them, *)
(* with the two privacy jobs that rewrite outbox rows.                     *)
(*                                                                         *)
(* PostgreSQL runs at READ COMMITTED. A transaction is split wherever      *)
(* another transaction can get between two of its statements and the       *)
(* outcome differs: a SELECT without a lock whose row is written later, a  *)
(* row lock that is held while another statement waits. A transaction that *)
(* takes the event's row lock first and waits for nothing afterwards is    *)
(* one action. Nothing a transaction writes is visible before the action   *)
(* that commits it.                                                        *)
(*                                                                         *)
(* Abstractions: times are "null", "fresh" or "stale" (locked_at) and      *)
(* "due or not" (next_attempt_at, which no statement reads on a terminal   *)
(* row); the random claim token is the worker itself, which has one        *)
(* message at a time; a payload either still has its delivery material or  *)
(* not; what the invite says about an event is a free choice here          *)
(* (InviteDelivery replaces it).                                           *)
(***************************************************************************)
EXTENDS Naturals, FiniteSets

CONSTANTS
    MaxEvents,      \* bound: events published in a behaviour
    Workers,        \* Dramatiq worker slots, each with at most one message
    Dispatchers,    \* outbox-dispatcher processes
    MaxAttempts,    \* outbox_events.max_attempts
    BatchSize,      \* --batch-size of the dispatcher
    RecoveryBatch,  \* OUTBOX__RECOVERY_BATCH_SIZE
    QueueBound,     \* bound: copies of one message the queue counts
    MaxCrashes,     \* bound: process crashes in a behaviour
    NoOwner         \* no lock holder, no claim

ASSUME BoundsAssumption ==
    /\ MaxEvents \in Nat \ {0}
    /\ QueueBound \in Nat \ {0}
    /\ MaxCrashes \in Nat

ASSUME SettingsAssumption ==
    /\ MaxAttempts \in Nat \ {0}
    /\ BatchSize \in Nat
    /\ RecoveryBatch \in Nat

ASSUME ProcessAssumption ==
    /\ Workers \cap Dispatchers = {}
    /\ NoOwner \notin Workers \cup Dispatchers

\* Events in the order of created_at.
Events == 1 .. MaxEvents

VARIABLES
    status, attempts, lockedAt, backoff, payload,   \* columns of outbox_events
    claim,                      \* outbox_delivery_claims, by event
    eventLock, claimLock,       \* PostgreSQL row locks held across statements
    queue,                      \* messages in the broker, by event
    wPc, wEvent, wOk, wSeen,    \* workers: step, event, result, attempts read
    dPc, dBatch, dEvent, dSeen, \* dispatchers: step, batch, event, attempts read
    crashes,
    taken                       \* history: delivery claims since the last dispatch

rowVars  == <<status, attempts, lockedAt, backoff, payload>>
lockVars == <<eventLock, claimLock>>
wVars    == <<wPc, wEvent, wOk, wSeen>>
dVars    == <<dPc, dBatch, dEvent, dSeen>>
vars == <<rowVars, claim, lockVars, queue, wVars, dVars, crashes, taken>>

Processes == Workers \cup Dispatchers
Terminal  == {"processed", "failed"}

Init ==
    /\ status = [e \in Events |-> "absent"]
    /\ attempts = [e \in Events |-> 0]
    /\ lockedAt = [e \in Events |-> "null"]
    /\ backoff = [e \in Events |-> FALSE]
    /\ payload = [e \in Events |-> "full"]
    /\ claim = [e \in Events |-> NoOwner]
    /\ eventLock = [e \in Events |-> NoOwner]
    /\ claimLock = [e \in Events |-> NoOwner]
    /\ queue = [e \in Events |-> 0]
    /\ wPc = [w \in Workers |-> "idle"]
    /\ wEvent = [w \in Workers |-> 1]
    /\ wOk = [w \in Workers |-> FALSE]
    /\ wSeen = [w \in Workers |-> 0]
    /\ dPc = [d \in Dispatchers |-> "recover"]
    /\ dBatch = [d \in Dispatchers |-> {}]
    /\ dEvent = [d \in Dispatchers |-> 1]
    /\ dSeen = [d \in Dispatchers |-> 0]
    /\ crashes = 0
    /\ taken = [e \in Events |-> 0]

-------------------------------------------------------------------------------
(* The repository's row writes. Each says what the flushed UPDATE sets on  *)
(* the rows S; an ORM object only writes the columns it changed, and       *)
(* computes them from the row as it was read.                              *)

\* Variant: one attempt too many before the event fails.
ExhaustedLate(n) == n + 1 > MaxAttempts

\* attempts >= event.max_attempts after counting this attempt.
Exhausted(n) == n + 1 >= MaxAttempts

\* Variant: the failed branch keeps the delivery material.
ScrubOnlyProcessed(S, seen) == payload' = payload

\* The failed branch scrubs; the retry branch leaves payload_json alone.
ScrubExhausted(S, seen) ==
    payload' = [e \in Events |->
                  IF e \in S /\ Exhausted(seen[e]) THEN "scrubbed" ELSE payload[e]]

\* mark_failed_attempt of rows S read with attempts seen.
MarkFailedAttempt(S, seen) ==
    /\ status' = [e \in Events |->
                    IF e \notin S THEN status[e]
                    ELSE IF Exhausted(seen[e]) THEN "failed" ELSE "pending"]
    /\ attempts' = [e \in Events |-> IF e \in S THEN seen[e] + 1 ELSE attempts[e]]
    /\ lockedAt' = [e \in Events |-> IF e \in S THEN "null" ELSE lockedAt[e]]
    /\ backoff' = [e \in Events |->
                     IF e \in S THEN ~Exhausted(seen[e]) ELSE backoff[e]]
    /\ ScrubExhausted(S, seen)

MarkProcessed(e) ==
    /\ status' = [status EXCEPT ![e] = "processed"]
    /\ lockedAt' = [lockedAt EXCEPT ![e] = "null"]
    /\ payload' = [payload EXCEPT ![e] = "scrubbed"]
    /\ UNCHANGED <<attempts, backoff>>

\* DELETE FROM outbox_delivery_claims: waits for a concurrent delete of the
\* same row, then locks the row if there still is one.
DeleteClaim(p, e) ==
    /\ claimLock[e] = NoOwner
    /\ claimLock' = IF claim[e] = NoOwner THEN claimLock
                    ELSE [claimLock EXCEPT ![e] = p]

\* The commit of a transaction of p that deleted the claim row of e, if it did.
CommitDeletedClaim(p, e) ==
    /\ claim' = IF claimLock[e] = p THEN [claim EXCEPT ![e] = NoOwner] ELSE claim
    /\ claimLock' = IF claimLock[e] = p THEN [claimLock EXCEPT ![e] = NoOwner]
                    ELSE claimLock

\* A transaction of p is rolled back: its row locks go.
ReleaseLocks(p) ==
    /\ eventLock' = [e \in Events |-> IF eventLock[e] = p THEN NoOwner ELSE eventLock[e]]
    /\ claimLock' = [e \in Events |-> IF claimLock[e] = p THEN NoOwner ELSE claimLock[e]]

Saturate(n) == IF n > QueueBound THEN QueueBound ELSE n

\* Worker w goes to step pc with these locals.
WorkerAt(w, pc, e, ok, seen) ==
    /\ wPc' = [wPc EXCEPT ![w] = pc]
    /\ wEvent' = [wEvent EXCEPT ![w] = e]
    /\ wOk' = [wOk EXCEPT ![w] = ok]
    /\ wSeen' = [wSeen EXCEPT ![w] = seen]

WorkerIdle(w) == WorkerAt(w, "idle", 1, FALSE, 0)

\* Dispatcher d goes to step pc with these locals.
DispatcherAt(d, pc, batch, e, seen) ==
    /\ dPc' = [dPc EXCEPT ![d] = pc]
    /\ dBatch' = [dBatch EXCEPT ![d] = batch]
    /\ dEvent' = [dEvent EXCEPT ![d] = e]
    /\ dSeen' = [dSeen EXCEPT ![d] = seen]

-------------------------------------------------------------------------------
(* Requests and time.                                                      *)

\* A request transaction (create or resend an invite) commits its event.
Publish(e) ==
    /\ status[e] = "absent"
    /\ \A f \in Events : f < e => status[f] # "absent"
    /\ status' = [status EXCEPT ![e] = "pending"]
    /\ payload' = [payload EXCEPT ![e] = "full"]
    /\ UNCHANGED <<attempts, lockedAt, backoff, claim, lockVars, queue,
                   wVars, dVars, crashes, taken>>

\* locked_at falls behind now - stale_processing_timeout_seconds.
BecomesStale(e) ==
    /\ lockedAt[e] = "fresh"
    /\ lockedAt' = [lockedAt EXCEPT ![e] = "stale"]
    /\ UNCHANGED <<status, attempts, backoff, payload, claim, lockVars, queue,
                   wVars, dVars, crashes, taken>>

\* next_attempt_at is reached.
BackoffElapses(e) ==
    /\ backoff[e]
    /\ backoff' = [backoff EXCEPT ![e] = FALSE]
    /\ UNCHANGED <<status, attempts, lockedAt, payload, claim, lockVars, queue,
                   wVars, dVars, crashes, taken>>

-------------------------------------------------------------------------------
(* The dispatcher: recover, claim, enqueue each, sleep, repeat.            *)

\* Variant: recovery leaves rows that a worker has claimed to that worker.
StaleUnclaimed(e) ==
    /\ status[e] = "processing" /\ lockedAt[e] = "stale"
    /\ eventLock[e] = NoOwner /\ claim[e] = NoOwner

\* Rows the recovery SELECT ... FOR UPDATE SKIP LOCKED may return.
Stale(e) ==
    /\ status[e] = "processing" /\ lockedAt[e] = "stale"
    /\ eventLock[e] = NoOwner

\* The oldest locked_at first: any choice of the right size.
StaleBatch(S) ==
    LET rows == {e \in Events : Stale(e)}
    IN  /\ S \subseteq rows
        /\ \/ S = rows
           \/ Cardinality(S) = RecoveryBatch
        /\ Cardinality(S) <= RecoveryBatch

RecoverLock(d, S) ==
    /\ dPc[d] = "recover"
    /\ StaleBatch(S)
    /\ eventLock' = [e \in Events |-> IF e \in S THEN d ELSE eventLock[e]]
    /\ DispatcherAt(d, "recovering", S, 1, 0)
    /\ UNCHANGED <<rowVars, claim, claimLock, queue, wVars, crashes, taken>>

\* The DELETE of each claim waits for a worker that is deleting it.
RecoverCommit(d) ==
    /\ dPc[d] = "recovering"
    /\ \A e \in dBatch[d] : claimLock[e] = NoOwner
    /\ MarkFailedAttempt(dBatch[d], attempts)
    /\ claim' = [e \in Events |-> IF e \in dBatch[d] THEN NoOwner ELSE claim[e]]
    /\ eventLock' = [e \in Events |-> IF e \in dBatch[d] THEN NoOwner ELSE eventLock[e]]
    /\ DispatcherAt(d, "claim", {}, 1, 0)
    /\ UNCHANGED <<claimLock, queue, wVars, crashes, taken>>

\* Rows the claim SELECT ... FOR UPDATE SKIP LOCKED may return.
Due(e) ==
    status[e] = "pending" /\ ~backoff[e] /\ eventLock[e] = NoOwner

\* ORDER BY created_at LIMIT batch_size.
DueBatch(S) ==
    LET rows == {e \in Events : Due(e)}
    IN  /\ S \subseteq rows
        /\ \/ S = rows
           \/ Cardinality(S) = BatchSize
        /\ Cardinality(S) <= BatchSize
        /\ \A e \in S : \A f \in rows \ S : e < f

ClaimLock(d, S) ==
    /\ dPc[d] = "claim"
    /\ DueBatch(S)
    /\ eventLock' = [e \in Events |-> IF e \in S THEN d ELSE eventLock[e]]
    /\ DispatcherAt(d, "claiming", S, 1, 0)
    /\ UNCHANGED <<rowVars, claim, claimLock, queue, wVars, crashes, taken>>

\* Variant: processing without a lock time.
NoLockTime(S) == lockedAt' = lockedAt

\* Every claimed event gets locked_at = now.
SetLockTime(S) ==
    lockedAt' = [e \in Events |-> IF e \in S THEN "fresh" ELSE lockedAt[e]]

ClaimCommit(d) ==
    /\ dPc[d] = "claiming"
    /\ \A e \in dBatch[d] : claimLock[e] = NoOwner
    /\ status' = [e \in Events |-> IF e \in dBatch[d] THEN "processing" ELSE status[e]]
    /\ SetLockTime(dBatch[d])
    /\ claim' = [e \in Events |-> IF e \in dBatch[d] THEN NoOwner ELSE claim[e]]
    /\ taken' = [e \in Events |-> IF e \in dBatch[d] THEN 0 ELSE taken[e]]
    /\ eventLock' = [e \in Events |-> IF e \in dBatch[d] THEN NoOwner ELSE eventLock[e]]
    /\ DispatcherAt(d, "enqueue", dBatch[d], 1, 0)
    /\ UNCHANGED <<attempts, backoff, payload, claimLock, queue, wVars, crashes>>

\* The next event of the batch, oldest first.
NextToEnqueue(d, e) == e \in dBatch[d] /\ \A f \in dBatch[d] : e <= f

\* process_outbox_event.send succeeds.
Enqueue(d, e) ==
    /\ dPc[d] = "enqueue"
    /\ NextToEnqueue(d, e)
    /\ queue' = [queue EXCEPT ![e] = Saturate(@ + 1)]
    /\ DispatcherAt(d, "enqueue", dBatch[d] \ {e}, 1, 0)
    /\ UNCHANGED <<rowVars, claim, lockVars, wVars, crashes, taken>>

\* send raises: the broker may have stored the message all the same.
EnqueueFails(d, e) ==
    /\ dPc[d] = "enqueue"
    /\ NextToEnqueue(d, e)
    /\ \E stored \in {0, 1} : queue' = [queue EXCEPT ![e] = Saturate(@ + stored)]
    /\ DispatcherAt(d, "release", dBatch[d] \ {e}, e, 0)
    /\ UNCHANGED <<rowVars, claim, lockVars, wVars, crashes, taken>>

\* get_by_id reads without a lock; only a processing row is released.
ReleaseRead(d) ==
    /\ dPc[d] = "release"
    /\ IF status[dEvent[d]] = "processing"
       THEN DispatcherAt(d, "relDelete", dBatch[d], dEvent[d], attempts[dEvent[d]])
       ELSE DispatcherAt(d, "enqueue", dBatch[d], 1, 0)
    /\ UNCHANGED <<rowVars, claim, lockVars, queue, wVars, crashes, taken>>

ReleaseDelete(d) ==
    /\ dPc[d] = "relDelete"
    /\ DeleteClaim(d, dEvent[d])
    /\ dPc' = [dPc EXCEPT ![d] = "relWrite"]
    /\ UNCHANGED <<rowVars, claim, eventLock, queue, wVars, dBatch, dEvent, dSeen,
                   crashes, taken>>

\* UPDATE by primary key, computed from the row as ReleaseRead saw it.
ReleaseCommit(d) ==
    /\ dPc[d] = "relWrite"
    /\ eventLock[dEvent[d]] = NoOwner
    /\ MarkFailedAttempt({dEvent[d]}, [e \in Events |-> dSeen[d]])
    /\ CommitDeletedClaim(d, dEvent[d])
    /\ DispatcherAt(d, "enqueue", dBatch[d], 1, 0)
    /\ UNCHANGED <<eventLock, queue, wVars, crashes, taken>>

\* The batch is enqueued: log, sleep(interval), next tick.
Sleep(d) ==
    /\ dPc[d] = "enqueue"
    /\ dBatch[d] = {}
    /\ dPc' = [dPc EXCEPT ![d] = "recover"]
    /\ UNCHANGED <<rowVars, claim, lockVars, queue, wVars, dBatch, dEvent, dSeen,
                   crashes, taken>>

\* The process is gone, its transaction rolled back, its batch forgotten.
DispatcherDies(d) ==
    /\ ReleaseLocks(d)
    /\ DispatcherAt(d, "down", {}, 1, 0)
    /\ UNCHANGED <<rowVars, claim, queue, wVars, taken>>

DispatcherCrash(d) ==
    /\ dPc[d] # "down" /\ crashes < MaxCrashes
    /\ crashes' = crashes + 1
    /\ DispatcherDies(d)

\* restart: unless-stopped.
DispatcherRestart(d) ==
    /\ dPc[d] = "down"
    /\ dPc' = [dPc EXCEPT ![d] = "recover"]
    /\ UNCHANGED <<rowVars, claim, lockVars, queue, wVars, dBatch, dEvent, dSeen,
                   crashes, taken>>

-------------------------------------------------------------------------------
(* The worker: claim for delivery, deliver, apply the result.              *)

\* Variant: the worker does not look for another delivery claim.
ClaimableTwice(e) == status[e] = "processing"

\* What claim_processing_event_for_delivery demands of the locked row.
DeliveryClaimable(e) == status[e] = "processing" /\ claim[e] = NoOwner

\* The message is taken by an idle worker, whose SELECT ... FOR UPDATE waits
\* for a dispatcher that holds the row.
Takes(w, e) ==
    /\ wPc[w] = "idle"
    /\ queue[e] > 0
    /\ eventLock[e] = NoOwner
    /\ queue' = [queue EXCEPT ![e] = @ - 1]

\* "skip": the message was stale or a duplicate; it is acknowledged.
ReceiveSkips(w, e) ==
    /\ Takes(w, e)
    /\ ~DeliveryClaimable(e)
    /\ UNCHANGED <<rowVars, claim, lockVars, wVars, dVars, crashes, taken>>

\* The claim transaction commits; pc says what comes next, ok the result that
\* is already decided when nothing is delivered.
CommitClaim(w, e, pc, ok) ==
    /\ claim' = [claim EXCEPT ![e] = w]
    /\ lockedAt' = [lockedAt EXCEPT ![e] = "fresh"]
    /\ taken' = [taken EXCEPT ![e] = @ + 1]
    /\ WorkerAt(w, pc, e, ok, 0)
    /\ UNCHANGED <<status, attempts, backoff, payload, lockVars, dVars, crashes>>

\* Variant: whether the payload still has its material is not looked at.
DeliversUnread(w, e) ==
    /\ Takes(w, e) /\ DeliveryClaimable(e)
    /\ CommitClaim(w, e, "deliver", FALSE)

\* "deliver": payload, invite and token all check out.
ReceiveDelivers(w, e) ==
    /\ Takes(w, e) /\ DeliveryClaimable(e)
    /\ payload[e] = "full"
    /\ CommitClaim(w, e, "deliver", FALSE)

\* "mark_processed": the invite is not pending, has expired, or delivery is off.
ReceiveNothingToDeliver(w, e) ==
    /\ Takes(w, e) /\ DeliveryClaimable(e)
    /\ payload[e] = "full"
    /\ CommitClaim(w, e, "read", TRUE)

\* Malformed (a scrubbed payload is), no invite, not decryptable, token mismatch.
ReceiveRejects(w, e) ==
    /\ Takes(w, e) /\ DeliveryClaimable(e)
    /\ CommitClaim(w, e, "read", FALSE)

\* The transaction raises (no usable key, database error) and rolls back;
\* max_retries = 0 drops the message. A message the broker loses ends the same.
MessageDropped(e) ==
    /\ queue[e] > 0
    /\ queue' = [queue EXCEPT ![e] = @ - 1]
    /\ UNCHANGED <<rowVars, claim, lockVars, wVars, dVars, crashes, taken>>

\* sink.deliver returns or raises, outside any transaction.
Deliver(w) ==
    /\ wPc[w] = "deliver"
    /\ \E ok \in BOOLEAN : WorkerAt(w, "read", wEvent[w], ok, 0)
    /\ UNCHANGED <<rowVars, claim, lockVars, queue, dVars, crashes, taken>>

\* get_delivery_claimed_event: still processing, still this worker's token;
\* read without a lock.
HoldsClaim(w) == status[wEvent[w]] = "processing" /\ claim[wEvent[w]] = w

ApplyRead(w) ==
    /\ wPc[w] = "read"
    /\ IF HoldsClaim(w)
       THEN WorkerAt(w, "delete", wEvent[w], wOk[w], attempts[wEvent[w]])
       ELSE WorkerIdle(w)
    /\ UNCHANGED <<rowVars, claim, lockVars, queue, dVars, crashes, taken>>

ApplyDelete(w) ==
    /\ wPc[w] = "delete"
    /\ DeleteClaim(w, wEvent[w])
    /\ wPc' = [wPc EXCEPT ![w] = "write"]
    /\ UNCHANGED <<rowVars, claim, eventLock, queue, wEvent, wOk, wSeen, dVars, crashes, taken>>

\* UPDATE by primary key, computed from the row as ApplyRead saw it.
ApplyCommit(w) ==
    /\ wPc[w] = "write"
    /\ eventLock[wEvent[w]] = NoOwner
    /\ IF wOk[w] THEN MarkProcessed(wEvent[w])
       ELSE MarkFailedAttempt({wEvent[w]}, [e \in Events |-> wSeen[w]])
    /\ CommitDeletedClaim(w, wEvent[w])
    /\ WorkerIdle(w)
    /\ UNCHANGED <<eventLock, queue, dVars, crashes, taken>>

\* The worker dies; the broker requeues its unacknowledged message.
WorkerCrash(w) ==
    /\ wPc[w] # "idle" /\ crashes < MaxCrashes
    /\ crashes' = crashes + 1
    /\ ReleaseLocks(w)
    /\ queue' = [queue EXCEPT ![wEvent[w]] = Saturate(@ + 1)]
    /\ WorkerIdle(w)
    /\ UNCHANGED <<rowVars, claim, dVars, taken>>

-------------------------------------------------------------------------------
(* Lock waits. A batch holder (recover, claim) deletes the claim rows after *)
(* it locked the event rows; a worker or a releasing dispatcher deletes the *)
(* claim row first and updates the event row afterwards.                    *)

BatchWaitsFor(d, p) ==
    /\ dPc[d] \in {"recovering", "claiming"}
    /\ \E e \in dBatch[d] : claimLock[e] = p

WorkerWaitsFor(w, d) == wPc[w] = "write" /\ eventLock[wEvent[w]] = d

ReleaseWaitsFor(c, d) == dPc[c] = "relWrite" /\ eventLock[dEvent[c]] = d

\* PostgreSQL breaks the cycle. The worker as the victim loses its transaction
\* and its message.
DeadlockAbortsWorker(w) ==
    /\ \E d \in Dispatchers : BatchWaitsFor(d, w) /\ WorkerWaitsFor(w, d)
    /\ ReleaseLocks(w)
    /\ WorkerIdle(w)
    /\ UNCHANGED <<rowVars, claim, queue, dVars, crashes, taken>>

\* The dispatcher as the victim: the error leaves run_dispatcher_loop.
DeadlockAbortsDispatcher(d) ==
    /\ \/ \E w \in Workers : BatchWaitsFor(d, w) /\ WorkerWaitsFor(w, d)
       \/ \E c \in Dispatchers : BatchWaitsFor(d, c) /\ ReleaseWaitsFor(c, d)
       \/ \E c \in Dispatchers : BatchWaitsFor(c, d) /\ ReleaseWaitsFor(d, c)
    /\ DispatcherDies(d)
    /\ UNCHANGED crashes

-------------------------------------------------------------------------------
(* The privacy jobs.                                                       *)

\* scrub_outbox_for_approved_erase_request over the subject's rows S: waits
\* for every row lock, refuses processing rows, cancels pending ones.
EraseScrub(S) ==
    /\ S # {}
    /\ \A e \in S : /\ status[e] \notin {"absent", "processing"}
                    /\ eventLock[e] = NoOwner
    /\ payload' = [e \in Events |-> IF e \in S THEN "scrubbed" ELSE payload[e]]
    /\ status' = [e \in Events |->
                    IF e \in S /\ status[e] = "pending" THEN "failed" ELSE status[e]]
    /\ lockedAt' = [e \in Events |->
                      IF e \in S /\ status[e] = "pending" THEN "null" ELSE lockedAt[e]]
    /\ backoff' = [e \in Events |->
                     IF e \in S /\ status[e] = "pending" THEN FALSE ELSE backoff[e]]
    /\ UNCHANGED <<attempts, claim, lockVars, queue, wVars, dVars, crashes, taken>>

\* _scrub_retained_outbox_events, for one terminal row past its retention.
RetentionScrub(e) ==
    /\ status[e] \in Terminal /\ eventLock[e] = NoOwner
    /\ payload' = [payload EXCEPT ![e] = "scrubbed"]
    /\ lockedAt' = [lockedAt EXCEPT ![e] = "null"]
    /\ backoff' = [backoff EXCEPT ![e] = FALSE]
    /\ UNCHANGED <<status, attempts, claim, lockVars, queue, wVars, dVars, crashes, taken>>

-------------------------------------------------------------------------------
DispatcherStep(d) ==
    \/ \E S \in SUBSET Events : RecoverLock(d, S)
    \/ RecoverCommit(d)
    \/ \E S \in SUBSET Events : ClaimLock(d, S)
    \/ ClaimCommit(d)
    \/ \E e \in Events : Enqueue(d, e)
    \/ \E e \in Events : EnqueueFails(d, e)
    \/ ReleaseRead(d)
    \/ ReleaseDelete(d)
    \/ ReleaseCommit(d)
    \/ Sleep(d)
    \/ DispatcherRestart(d)

WorkerStep(w) ==
    \/ \E e \in Events : ReceiveSkips(w, e)
    \/ \E e \in Events : ReceiveDelivers(w, e)
    \/ \E e \in Events : ReceiveNothingToDeliver(w, e)
    \/ \E e \in Events : ReceiveRejects(w, e)
    \/ Deliver(w)
    \/ ApplyRead(w)
    \/ ApplyDelete(w)
    \/ ApplyCommit(w)

Environment ==
    \/ \E e \in Events : Publish(e)
    \/ \E e \in Events : BecomesStale(e)
    \/ \E e \in Events : BackoffElapses(e)
    \/ \E e \in Events : MessageDropped(e)
    \/ \E w \in Workers : WorkerCrash(w)
    \/ \E d \in Dispatchers : DispatcherCrash(d)
    \/ \E w \in Workers : DeadlockAbortsWorker(w)
    \/ \E d \in Dispatchers : DeadlockAbortsDispatcher(d)
    \/ \E S \in SUBSET Events : EraseScrub(S)
    \/ \E e \in Events : RetentionScrub(e)

Next ==
    \/ \E d \in Dispatchers : DispatcherStep(d)
    \/ \E w \in Workers : WorkerStep(w)
    \/ Environment

Spec == Init /\ [][Next]_vars

\* Fairness: the dispatcher loop runs (and is restarted), time passes, a
\* transaction that a worker has begun runs to its end (strongly: PostgreSQL
\* grants a row to its waiters in turn) and deadlocks are detected. No worker
\* need ever take a message, and no delivery need ever end.
Fairness ==
    /\ \A d \in Dispatchers : WF_vars(DispatcherStep(d))
    /\ \A d \in Dispatchers : SF_vars(ReleaseCommit(d))
    /\ \A w \in Workers : SF_vars(ApplyDelete(w)) /\ SF_vars(ApplyCommit(w))
    /\ \A e \in Events : WF_vars(BecomesStale(e)) /\ WF_vars(BackoffElapses(e))
    /\ WF_vars(\E w \in Workers : DeadlockAbortsWorker(w))
    /\ WF_vars(\E d \in Dispatchers : DeadlockAbortsDispatcher(d))

FairSpec == Spec /\ Fairness

-------------------------------------------------------------------------------
(* Properties.                                                             *)

Statuses == {"absent", "pending", "processing", "processed", "failed"}

WorkerSteps == {"idle", "deliver", "read", "delete", "write"}

DispatcherSteps == {"recover", "recovering", "claim", "claiming", "enqueue", "release",
                    "relDelete", "relWrite", "down"}

RowsTypeOK ==
    /\ status \in [Events -> Statuses]
    /\ attempts \in [Events -> 0 .. MaxAttempts]
    /\ lockedAt \in [Events -> {"null", "fresh", "stale"}]
    /\ backoff \in [Events -> BOOLEAN]
    /\ payload \in [Events -> {"full", "scrubbed"}]
    /\ taken \in [Events -> Nat]

LocksTypeOK ==
    /\ claim \in [Events -> Workers \cup {NoOwner}]
    /\ eventLock \in [Events -> Dispatchers \cup {NoOwner}]
    /\ claimLock \in [Events -> Processes \cup {NoOwner}]
    /\ queue \in [Events -> 0 .. QueueBound]
    /\ crashes \in 0 .. MaxCrashes

WorkersTypeOK ==
    /\ wPc \in [Workers -> WorkerSteps]
    /\ wEvent \in [Workers -> Events]
    /\ wOk \in [Workers -> BOOLEAN]
    /\ wSeen \in [Workers -> 0 .. MaxAttempts]

DispatchersTypeOK ==
    /\ dPc \in [Dispatchers -> DispatcherSteps]
    /\ dBatch \in [Dispatchers -> SUBSET Events]
    /\ dEvent \in [Dispatchers -> Events]
    /\ dSeen \in [Dispatchers -> 0 .. MaxAttempts]

\* Every variable keeps its type; attempts never passes max_attempts
\* (mark_failed_attempt), also when it is computed from a stale read.
TypeOK == RowsTypeOK /\ LocksTypeOK /\ WorkersTypeOK /\ DispatchersTypeOK

\* A processing row always has a lock time: the recovery query filters on
\* locked_at, so a row without one would stay in processing for ever. No
\* interleaving of claims, stale results, releases and scrubs may produce it.
ProcessingIsRecoverable ==
    \A e \in Events : status[e] = "processing" => lockedAt[e] # "null"

\* A terminal row holds no email and no encrypted token, whichever process
\* made it terminal and however old the read was that it worked from.
TerminalScrubbed ==
    \A e \in Events : status[e] \in Terminal => payload[e] = "scrubbed"

\* Between two dispatches of an event at most one worker takes it for
\* delivery, though messages are duplicated, late, or requeued after a crash
\* and other workers' stale results delete claim rows.
OneClaimPerDispatch == \A e \in Events : taken[e] <= 1

\* An event that is still to be delivered has an attempt left, also when an
\* old result is written over a newer state of the row.
AttemptLeft ==
    \A e \in Events : status[e] \notin Terminal => attempts[e] < MaxAttempts

\* The rows a dispatcher selected stay as it saw them until it commits, and no
\* other dispatcher selects them: SKIP LOCKED hands each row to one tick.
BatchIsStable ==
    \A d \in Dispatchers : \A e \in dBatch[d] :
        /\ dPc[d] = "recovering" => status[e] = "processing" /\ eventLock[e] = d
        /\ dPc[d] = "claiming" => status[e] = "pending" /\ eventLock[e] = d

\* Every published event becomes processed or failed, whatever crashed between its
\* claim and its result and whether or not its message survived: retries are
\* bounded even though a stale result can set the attempt counter back.
EventuallyTerminal ==
    \A e \in Events : (status[e] \in {"pending", "processing"}) ~> (status[e] \in Terminal)

-------------------------------------------------------------------------------
(* The abstract specification, and the mapping that shows it.              *)

Material == {e \in Events : status[e] # "absent" /\ payload[e] = "full"}

\* The worker's steps after its decision or delivery are one report.
Work == [w \in Workers |->
           IF wPc[w] = "idle" THEN [step |-> "idle", event |-> 1, ok |-> FALSE]
           ELSE [step |-> IF wPc[w] = "deliver" THEN "deliver" ELSE "report",
                 event |-> wEvent[w], ok |-> wOk[w]]]

Contract == INSTANCE OutboxContract WITH
    posted <- {e \in Events : status[e] # "absent"},
    material <- Material,
    done <- {e \in Events : status[e] = "processed"},
    work <- Work

\* The outbox keeps its contract: material never comes back, deliveries begin
\* only with material, and only a success report makes an event processed.
ImplementsContract == Contract!ContractSpec
===============================================================================
