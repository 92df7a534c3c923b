----------------------------- MODULE OutboxProofs -----------------------------
(***************************************************************************)
(* Safety of the outbox for any number of events, workers and dispatchers  *)
(* and any batch sizes: the invariants MCOutbox checks on small instances, *)
(* and the refinement of OutboxContract.                                   *)
(***************************************************************************)
EXTENDS Outbox, TLAPS

\* A row lock is held by the dispatcher whose batch contains the row.
LocksAreBatches ==
    \A d \in Dispatchers : \A e \in Events :
        eventLock[e] = d => dPc[d] \in {"recovering", "claiming"} /\ e \in dBatch[d]

\* The attempts a result is computed from were read from a live row.
SeenLeft ==
    /\ \A w \in Workers : wPc[w] \in {"delete", "write"} => wSeen[w] < MaxAttempts
    /\ \A d \in Dispatchers : dPc[d] \in {"relDelete", "relWrite"} => dSeen[d] < MaxAttempts

\* While an event is processing, the claim of the worker that took it stays.
TakenIsClaimed ==
    \A e \in Events : status[e] = "processing" /\ taken[e] # 0 => claim[e] # NoOwner

\* What every row satisfies, and what the row locks guarantee.
RowInv == ProcessingIsRecoverable /\ TerminalScrubbed /\ OneClaimPerDispatch /\ AttemptLeft
          /\ TakenIsClaimed

LockInv == BatchIsStable /\ LocksAreBatches

IInv == TypeOK /\ RowInv /\ LockInv /\ SeenLeft

USE BoundsAssumption, SettingsAssumption, ProcessAssumption
USE DEF vars, rowVars, lockVars, wVars, dVars, Statuses, Terminal, WorkerSteps,
        DispatcherSteps

\* There is a first event (MaxEvents is positive).
LEMMA FirstEvent == 1 \in Events
BY DEF Events

\* mark_failed_attempt keeps the column types when the attempts it read were below the
\* maximum.
LEMMA MarkFailedType ==
    ASSUME RowsTypeOK, NEW S \in SUBSET Events, NEW seen,
           \A e \in S : seen[e] \in 0 .. MaxAttempts /\ seen[e] < MaxAttempts,
           MarkFailedAttempt(S, seen), UNCHANGED taken
    PROVE  RowsTypeOK'
<1>1. status' \in [Events -> Statuses]
  BY DEF RowsTypeOK, MarkFailedAttempt
<1>2. attempts' \in [Events -> 0 .. MaxAttempts]
  BY DEF RowsTypeOK, MarkFailedAttempt
<1>3. /\ lockedAt' \in [Events -> {"null", "fresh", "stale"}]
      /\ payload' \in [Events -> {"full", "scrubbed"}]
  BY DEF RowsTypeOK, MarkFailedAttempt, ScrubExhausted
<1>4. backoff' \in [Events -> BOOLEAN]
  BY DEF RowsTypeOK, MarkFailedAttempt, Exhausted
<1> QED BY <1>1, <1>2, <1>3, <1>4 DEF RowsTypeOK

\* The empty outbox satisfies the invariant.
LEMMA InitIInv == Init => IInv
BY FirstEvent DEF Init, IInv, Processes, TypeOK, RowsTypeOK, LocksTypeOK, WorkersTypeOK,
     DispatchersTypeOK, RowInv, ProcessingIsRecoverable, TerminalScrubbed,
     OneClaimPerDispatch, AttemptLeft, TakenIsClaimed, LockInv, BatchIsStable,
     LocksAreBatches, SeenLeft

\* Publish preserves the inductive invariant.
LEMMA PublishIInv ==
    ASSUME IInv, NEW e \in Events, Publish(e)
    PROVE  IInv'
BY DEF IInv, Publish, TypeOK, RowsTypeOK, LocksTypeOK, WorkersTypeOK, DispatchersTypeOK,
     RowInv, ProcessingIsRecoverable, TerminalScrubbed, OneClaimPerDispatch, AttemptLeft,
     TakenIsClaimed, LockInv, BatchIsStable, LocksAreBatches, SeenLeft

\* BecomesStale preserves the inductive invariant.
LEMMA BecomesStaleIInv ==
    ASSUME IInv, NEW e \in Events, BecomesStale(e)
    PROVE  IInv'
BY DEF IInv, BecomesStale, TypeOK, RowsTypeOK, LocksTypeOK, WorkersTypeOK,
     DispatchersTypeOK, RowInv, ProcessingIsRecoverable, TerminalScrubbed,
     OneClaimPerDispatch, AttemptLeft, TakenIsClaimed, LockInv, BatchIsStable,
     LocksAreBatches, SeenLeft

\* BackoffElapses preserves the inductive invariant.
LEMMA BackoffElapsesIInv ==
    ASSUME IInv, NEW e \in Events, BackoffElapses(e)
    PROVE  IInv'
BY DEF IInv, BackoffElapses, TypeOK, RowsTypeOK, LocksTypeOK, WorkersTypeOK,
     DispatchersTypeOK, RowInv, ProcessingIsRecoverable, TerminalScrubbed,
     OneClaimPerDispatch, AttemptLeft, TakenIsClaimed, LockInv, BatchIsStable,
     LocksAreBatches, SeenLeft

\* RecoverLock preserves the inductive invariant.
LEMMA RecoverLockIInv ==
    ASSUME IInv, NEW d \in Dispatchers, NEW S \in SUBSET Events, RecoverLock(d, S)
    PROVE  IInv'
<1>1. TypeOK'
  BY FirstEvent DEF RecoverLock, StaleBatch, Stale, DispatcherAt, IInv, TypeOK, RowsTypeOK,
       LocksTypeOK, WorkersTypeOK, DispatchersTypeOK, Processes
<1>2. RowInv'
  BY DEF RecoverLock, StaleBatch, Stale, DispatcherAt, IInv, TypeOK, RowsTypeOK,
       WorkersTypeOK, DispatchersTypeOK, RowInv, ProcessingIsRecoverable, TerminalScrubbed,
       OneClaimPerDispatch, AttemptLeft, TakenIsClaimed, LockInv, BatchIsStable,
       LocksAreBatches, SeenLeft
<1>3. LockInv'
  BY FirstEvent DEF RecoverLock, StaleBatch, Stale, DispatcherAt, IInv, TypeOK, RowsTypeOK,
       LocksTypeOK, WorkersTypeOK, DispatchersTypeOK, LockInv, BatchIsStable,
       LocksAreBatches
<1>4. SeenLeft'
  BY FirstEvent DEF RecoverLock, StaleBatch, Stale, DispatcherAt, IInv, TypeOK, RowsTypeOK,
       LocksTypeOK, WorkersTypeOK, DispatchersTypeOK, SeenLeft, RowInv, AttemptLeft
<1> QED BY <1>1, <1>2, <1>3, <1>4 DEF IInv

\* RecoverCommit preserves the inductive invariant.
LEMMA RecoverCommitIInv ==
    ASSUME IInv, NEW d \in Dispatchers, RecoverCommit(d)
    PROVE  IInv'
<1>1. TypeOK'
  <2>1. RowsTypeOK'
    <3>1. \A e \in dBatch[d] : attempts[e] \in 0 .. MaxAttempts /\ attempts[e] < MaxAttempts
      BY DEF RecoverCommit, IInv, TypeOK, RowsTypeOK, DispatchersTypeOK, RowInv, AttemptLeft,
             LockInv, BatchIsStable
    <3>2. dBatch[d] \in SUBSET Events
      BY DEF IInv, TypeOK, DispatchersTypeOK
    <3> QED BY <3>1, <3>2, MarkFailedType DEF RecoverCommit, IInv, TypeOK
  <2>2. LocksTypeOK' /\ WorkersTypeOK' /\ DispatchersTypeOK'
    BY FirstEvent DEF RecoverCommit, DispatcherAt, IInv, TypeOK, LocksTypeOK, WorkersTypeOK,
                      DispatchersTypeOK, Processes
  <2> QED BY <2>1, <2>2 DEF TypeOK
<1>2. RowInv'
  BY DEF RecoverCommit, MarkFailedAttempt, ScrubExhausted, Exhausted, DispatcherAt, IInv,
       TypeOK, RowsTypeOK, WorkersTypeOK, DispatchersTypeOK, RowInv,
       ProcessingIsRecoverable, TerminalScrubbed, OneClaimPerDispatch, AttemptLeft,
       TakenIsClaimed, LockInv, BatchIsStable, LocksAreBatches, SeenLeft
<1>3. LockInv'
  BY FirstEvent DEF RecoverCommit, MarkFailedAttempt, ScrubExhausted, Exhausted,
       DispatcherAt, IInv, TypeOK, RowsTypeOK, LocksTypeOK, WorkersTypeOK,
       DispatchersTypeOK, LockInv, BatchIsStable, LocksAreBatches
<1>4. SeenLeft'
  BY FirstEvent DEF RecoverCommit, MarkFailedAttempt, ScrubExhausted, Exhausted,
       DispatcherAt, IInv, TypeOK, RowsTypeOK, LocksTypeOK, WorkersTypeOK,
       DispatchersTypeOK, SeenLeft, RowInv, AttemptLeft
<1> QED BY <1>1, <1>2, <1>3, <1>4 DEF IInv

\* ClaimLock preserves the inductive invariant.
LEMMA ClaimLockIInv ==
    ASSUME IInv, NEW d \in Dispatchers, NEW S \in SUBSET Events, ClaimLock(d, S)
    PROVE  IInv'
<1>1. TypeOK'
  BY FirstEvent DEF ClaimLock, DueBatch, Due, DispatcherAt, IInv, TypeOK, RowsTypeOK,
       LocksTypeOK, WorkersTypeOK, DispatchersTypeOK, Processes
<1>2. RowInv'
  BY DEF ClaimLock, DueBatch, Due, DispatcherAt, IInv, TypeOK, RowsTypeOK, WorkersTypeOK,
       DispatchersTypeOK, RowInv, ProcessingIsRecoverable, TerminalScrubbed,
       OneClaimPerDispatch, AttemptLeft, TakenIsClaimed, LockInv, BatchIsStable,
       LocksAreBatches, SeenLeft
<1>3. LockInv'
  BY FirstEvent DEF ClaimLock, DueBatch, Due, DispatcherAt, IInv, TypeOK, RowsTypeOK,
       LocksTypeOK, WorkersTypeOK, DispatchersTypeOK, LockInv, BatchIsStable,
       LocksAreBatches
<1>4. SeenLeft'
  BY FirstEvent DEF ClaimLock, DueBatch, Due, DispatcherAt, IInv, TypeOK, RowsTypeOK,
       LocksTypeOK, WorkersTypeOK, DispatchersTypeOK, SeenLeft, RowInv, AttemptLeft
<1> QED BY <1>1, <1>2, <1>3, <1>4 DEF IInv

\* ClaimCommit preserves the inductive invariant.
LEMMA ClaimCommitIInv ==
    ASSUME IInv, NEW d \in Dispatchers, ClaimCommit(d)
    PROVE  IInv'
<1>1. TypeOK'
  BY FirstEvent DEF ClaimCommit, SetLockTime, DispatcherAt, IInv, TypeOK, RowsTypeOK,
       LocksTypeOK, WorkersTypeOK, DispatchersTypeOK, Processes
<1>2. RowInv'
  BY DEF ClaimCommit, SetLockTime, DispatcherAt, IInv, TypeOK, RowsTypeOK, WorkersTypeOK,
       DispatchersTypeOK, RowInv, ProcessingIsRecoverable, TerminalScrubbed,
       OneClaimPerDispatch, AttemptLeft, TakenIsClaimed, LockInv, BatchIsStable,
       LocksAreBatches, SeenLeft
<1>3. LockInv'
  BY FirstEvent DEF ClaimCommit, SetLockTime, DispatcherAt, IInv, TypeOK, RowsTypeOK,
       LocksTypeOK, WorkersTypeOK, DispatchersTypeOK, LockInv, BatchIsStable,
       LocksAreBatches
<1>4. SeenLeft'
  BY FirstEvent DEF ClaimCommit, SetLockTime, DispatcherAt, IInv, TypeOK, RowsTypeOK,
       LocksTypeOK, WorkersTypeOK, DispatchersTypeOK, SeenLeft, RowInv, AttemptLeft
<1> QED BY <1>1, <1>2, <1>3, <1>4 DEF IInv

\* Enqueue preserves the inductive invariant.
LEMMA EnqueueIInv ==
    ASSUME IInv, NEW d \in Dispatchers, NEW e \in Events, Enqueue(d, e)
    PROVE  IInv'
<1>1. TypeOK'
  BY FirstEvent DEF Enqueue, Saturate, DispatcherAt, IInv, TypeOK, RowsTypeOK, LocksTypeOK,
       WorkersTypeOK, DispatchersTypeOK, Processes
<1>2. RowInv'
  BY DEF Enqueue, Saturate, DispatcherAt, IInv, TypeOK, RowsTypeOK, WorkersTypeOK,
       DispatchersTypeOK, RowInv, ProcessingIsRecoverable, TerminalScrubbed,
       OneClaimPerDispatch, AttemptLeft, TakenIsClaimed, LockInv, BatchIsStable,
       LocksAreBatches, SeenLeft
<1>3. LockInv'
  BY FirstEvent DEF Enqueue, Saturate, DispatcherAt, IInv, TypeOK, RowsTypeOK, LocksTypeOK,
       WorkersTypeOK, DispatchersTypeOK, LockInv, BatchIsStable, LocksAreBatches
<1>4. SeenLeft'
  BY FirstEvent DEF Enqueue, Saturate, DispatcherAt, IInv, TypeOK, RowsTypeOK, LocksTypeOK,
       WorkersTypeOK, DispatchersTypeOK, SeenLeft, RowInv, AttemptLeft
<1> QED BY <1>1, <1>2, <1>3, <1>4 DEF IInv

\* EnqueueFails preserves the inductive invariant.
LEMMA EnqueueFailsIInv ==
    ASSUME IInv, NEW d \in Dispatchers, NEW e \in Events, EnqueueFails(d, e)
    PROVE  IInv'
<1>1. TypeOK'
  BY FirstEvent DEF EnqueueFails, Saturate, DispatcherAt, IInv, TypeOK, RowsTypeOK,
       LocksTypeOK, WorkersTypeOK, DispatchersTypeOK, Processes
<1>2. RowInv'
  BY DEF EnqueueFails, Saturate, DispatcherAt, IInv, TypeOK, RowsTypeOK, WorkersTypeOK,
       DispatchersTypeOK, RowInv, ProcessingIsRecoverable, TerminalScrubbed,
       OneClaimPerDispatch, AttemptLeft, TakenIsClaimed, LockInv, BatchIsStable,
       LocksAreBatches, SeenLeft
<1>3. LockInv'
  BY FirstEvent DEF EnqueueFails, Saturate, DispatcherAt, IInv, TypeOK, RowsTypeOK,
       LocksTypeOK, WorkersTypeOK, DispatchersTypeOK, LockInv, BatchIsStable,
       LocksAreBatches
<1>4. SeenLeft'
  BY FirstEvent DEF EnqueueFails, Saturate, DispatcherAt, IInv, TypeOK, RowsTypeOK,
       LocksTypeOK, WorkersTypeOK, DispatchersTypeOK, SeenLeft, RowInv, AttemptLeft
<1> QED BY <1>1, <1>2, <1>3, <1>4 DEF IInv

\* ReleaseRead preserves the inductive invariant.
LEMMA ReleaseReadIInv ==
    ASSUME IInv, NEW d \in Dispatchers, ReleaseRead(d)
    PROVE  IInv'
<1>1. UNCHANGED <<rowVars, claim, lockVars, queue, wVars, crashes, taken>> /\ dPc[d] = "release"
  BY DEF ReleaseRead
<1>2. PICK pc \in {"relDelete", "enqueue"}, e \in Events, seen \in 0 .. MaxAttempts :
        /\ DispatcherAt(d, pc, dBatch[d], e, seen)
        /\ pc = "relDelete" => e = dEvent[d] /\ seen = attempts[e] /\ status[e] = "processing"
  <2>1. dEvent[d] \in Events /\ attempts[dEvent[d]] \in 0 .. MaxAttempts /\ 0 \in 0 .. MaxAttempts
    BY BoundsAssumption, SettingsAssumption DEF IInv, TypeOK, RowsTypeOK, DispatchersTypeOK
  <2>2. CASE status[dEvent[d]] = "processing"
    BY <2>1, <2>2 DEF ReleaseRead
  <2>3. CASE status[dEvent[d]] # "processing"
    BY <2>1, <2>3, FirstEvent DEF ReleaseRead
  <2> QED BY <2>2, <2>3
<1>3. /\ dPc' = [dPc EXCEPT ![d] = pc] /\ dBatch' = [dBatch EXCEPT ![d] = dBatch[d]]
      /\ dEvent' = [dEvent EXCEPT ![d] = e] /\ dSeen' = [dSeen EXCEPT ![d] = seen]
  BY <1>2 DEF DispatcherAt
<1>4. DispatchersTypeOK'
  BY <1>3 DEF IInv, TypeOK, DispatchersTypeOK, DispatcherSteps
<1>5. TypeOK'
  <2>1. RowsTypeOK' /\ LocksTypeOK' /\ WorkersTypeOK'
    BY <1>1 DEF IInv, TypeOK, RowsTypeOK, LocksTypeOK, WorkersTypeOK, rowVars, lockVars, wVars,
                Processes
  <2> QED BY <1>4, <2>1 DEF TypeOK
<1>6. RowInv'
  BY <1>1 DEF rowVars, wVars, IInv, RowInv, ProcessingIsRecoverable, TerminalScrubbed,
       OneClaimPerDispatch, AttemptLeft, TakenIsClaimed
<1>7. LockInv'
  BY <1>1, <1>3 DEF rowVars, lockVars, IInv, TypeOK, DispatchersTypeOK, LockInv, BatchIsStable,
       LocksAreBatches
<1>8. SeenLeft'
  BY <1>1, <1>2, <1>3 DEF rowVars, wVars, IInv, TypeOK, DispatchersTypeOK, SeenLeft, RowInv,
       AttemptLeft
<1> QED BY <1>5, <1>6, <1>7, <1>8 DEF IInv

\* ReleaseDelete preserves the inductive invariant.
LEMMA ReleaseDeleteIInv ==
    ASSUME IInv, NEW d \in Dispatchers, ReleaseDelete(d)
    PROVE  IInv'
BY DEF IInv, ReleaseDelete, DeleteClaim, Processes, TypeOK, RowsTypeOK, LocksTypeOK,
     WorkersTypeOK, DispatchersTypeOK, RowInv, ProcessingIsRecoverable, TerminalScrubbed,
     OneClaimPerDispatch, AttemptLeft, TakenIsClaimed, LockInv, BatchIsStable,
     LocksAreBatches, SeenLeft

\* ReleaseCommit preserves the inductive invariant.
LEMMA ReleaseCommitIInv ==
    ASSUME IInv, NEW d \in Dispatchers, ReleaseCommit(d)
    PROVE  IInv'
<1>1. TypeOK'
  <2>1. RowsTypeOK'
    <3>1. \A e \in {dEvent[d]} : /\ [f \in Events |-> dSeen[d]][e] \in 0 .. MaxAttempts
                                /\ [f \in Events |-> dSeen[d]][e] < MaxAttempts
      BY DEF ReleaseCommit, IInv, TypeOK, DispatchersTypeOK, SeenLeft
    <3>2. {dEvent[d]} \in SUBSET Events
      BY DEF IInv, TypeOK, DispatchersTypeOK
    <3> QED BY <3>1, <3>2, MarkFailedType DEF ReleaseCommit, IInv, TypeOK
  <2>2. LocksTypeOK' /\ WorkersTypeOK' /\ DispatchersTypeOK'
    BY FirstEvent DEF ReleaseCommit, CommitDeletedClaim, DispatcherAt, IInv, TypeOK,
                      LocksTypeOK, WorkersTypeOK, DispatchersTypeOK, Processes
  <2> QED BY <2>1, <2>2 DEF TypeOK
<1>2. RowInv'
  BY DEF ReleaseCommit, MarkFailedAttempt, ScrubExhausted, Exhausted, CommitDeletedClaim,
       DispatcherAt, IInv, TypeOK, RowsTypeOK, WorkersTypeOK, DispatchersTypeOK, RowInv,
       ProcessingIsRecoverable, TerminalScrubbed, OneClaimPerDispatch, AttemptLeft,
       TakenIsClaimed, LockInv, BatchIsStable, LocksAreBatches, SeenLeft
<1>3. LockInv'
  BY FirstEvent DEF ReleaseCommit, MarkFailedAttempt, ScrubExhausted, Exhausted,
       CommitDeletedClaim, DispatcherAt, IInv, TypeOK, RowsTypeOK, LocksTypeOK,
       WorkersTypeOK, DispatchersTypeOK, LockInv, BatchIsStable, LocksAreBatches
<1>4. SeenLeft'
  BY FirstEvent DEF ReleaseCommit, MarkFailedAttempt, ScrubExhausted, Exhausted,
       CommitDeletedClaim, DispatcherAt, IInv, TypeOK, RowsTypeOK, LocksTypeOK,
       WorkersTypeOK, DispatchersTypeOK, SeenLeft, RowInv, AttemptLeft
<1> QED BY <1>1, <1>2, <1>3, <1>4 DEF IInv

\* Sleep preserves the inductive invariant.
LEMMA SleepIInv ==
    ASSUME IInv, NEW d \in Dispatchers, Sleep(d)
    PROVE  IInv'
BY DEF IInv, Sleep, TypeOK, RowsTypeOK, LocksTypeOK, WorkersTypeOK, DispatchersTypeOK,
     RowInv, ProcessingIsRecoverable, TerminalScrubbed, OneClaimPerDispatch, AttemptLeft,
     TakenIsClaimed, LockInv, BatchIsStable, LocksAreBatches, SeenLeft

\* DispatcherCrash preserves the inductive invariant.
LEMMA DispatcherCrashIInv ==
    ASSUME IInv, NEW d \in Dispatchers, DispatcherCrash(d)
    PROVE  IInv'
<1>1. TypeOK'
  BY FirstEvent DEF DispatcherCrash, DispatcherDies, ReleaseLocks, DispatcherAt, IInv,
       TypeOK, RowsTypeOK, LocksTypeOK, WorkersTypeOK, DispatchersTypeOK, Processes
<1>2. RowInv'
  BY DEF DispatcherCrash, DispatcherDies, ReleaseLocks, DispatcherAt, IInv, TypeOK,
       RowsTypeOK, WorkersTypeOK, DispatchersTypeOK, RowInv, ProcessingIsRecoverable,
       TerminalScrubbed, OneClaimPerDispatch, AttemptLeft, TakenIsClaimed, LockInv,
       BatchIsStable, LocksAreBatches, SeenLeft
<1>3. LockInv'
  BY FirstEvent DEF DispatcherCrash, DispatcherDies, ReleaseLocks, DispatcherAt, IInv,
       TypeOK, RowsTypeOK, LocksTypeOK, WorkersTypeOK, DispatchersTypeOK, LockInv,
       BatchIsStable, LocksAreBatches
<1>4. SeenLeft'
  BY FirstEvent DEF DispatcherCrash, DispatcherDies, ReleaseLocks, DispatcherAt, IInv,
       TypeOK, RowsTypeOK, LocksTypeOK, WorkersTypeOK, DispatchersTypeOK, SeenLeft, RowInv,
       AttemptLeft
<1> QED BY <1>1, <1>2, <1>3, <1>4 DEF IInv

\* DispatcherRestart preserves the inductive invariant.
LEMMA DispatcherRestartIInv ==
    ASSUME IInv, NEW d \in Dispatchers, DispatcherRestart(d)
    PROVE  IInv'
BY DEF IInv, DispatcherRestart, TypeOK, RowsTypeOK, LocksTypeOK, WorkersTypeOK,
     DispatchersTypeOK, RowInv, ProcessingIsRecoverable, TerminalScrubbed,
     OneClaimPerDispatch, AttemptLeft, TakenIsClaimed, LockInv, BatchIsStable,
     LocksAreBatches, SeenLeft

\* ReceiveSkips preserves the inductive invariant.
LEMMA ReceiveSkipsIInv ==
    ASSUME IInv, NEW w \in Workers, NEW e \in Events, ReceiveSkips(w, e)
    PROVE  IInv'
BY DEF IInv, ReceiveSkips, Takes, TypeOK, RowsTypeOK, LocksTypeOK, WorkersTypeOK,
     DispatchersTypeOK, RowInv, ProcessingIsRecoverable, TerminalScrubbed,
     OneClaimPerDispatch, AttemptLeft, TakenIsClaimed, LockInv, BatchIsStable,
     LocksAreBatches, SeenLeft

\* The common part of the three ways to claim an event for delivery.
LEMMA ClaimForDeliveryIInv ==
    ASSUME IInv, NEW w \in Workers, NEW e \in Events, NEW pc \in {"deliver", "read"},
           NEW ok \in BOOLEAN, Takes(w, e), DeliveryClaimable(e), CommitClaim(w, e, pc, ok)
    PROVE  IInv'
<1>1. TypeOK'
  BY DEF Takes, DeliveryClaimable, CommitClaim, WorkerAt, IInv, TypeOK, RowsTypeOK,
       LocksTypeOK, WorkersTypeOK, DispatchersTypeOK, Processes
<1>2. RowInv'
  BY DEF Takes, DeliveryClaimable, CommitClaim, WorkerAt, IInv, TypeOK, RowsTypeOK,
       LocksTypeOK, RowInv, ProcessingIsRecoverable, TerminalScrubbed, OneClaimPerDispatch,
       AttemptLeft, TakenIsClaimed
<1>3. LockInv'
  BY DEF Takes, DeliveryClaimable, CommitClaim, WorkerAt, IInv, TypeOK, RowsTypeOK,
       LocksTypeOK, WorkersTypeOK, DispatchersTypeOK, LockInv, BatchIsStable,
       LocksAreBatches
<1>4. SeenLeft'
  BY DEF Takes, DeliveryClaimable, CommitClaim, WorkerAt, IInv, TypeOK, RowsTypeOK,
       LocksTypeOK, WorkersTypeOK, DispatchersTypeOK, SeenLeft
<1> QED BY <1>1, <1>2, <1>3, <1>4 DEF IInv

\* ReceiveDelivers preserves the inductive invariant.
LEMMA ReceiveDeliversIInv ==
    ASSUME IInv, NEW w \in Workers, NEW e \in Events, ReceiveDelivers(w, e)
    PROVE  IInv'
BY ClaimForDeliveryIInv DEF ReceiveDelivers

\* ReceiveNothingToDeliver preserves the inductive invariant.
LEMMA ReceiveNothingToDeliverIInv ==
    ASSUME IInv, NEW w \in Workers, NEW e \in Events, ReceiveNothingToDeliver(w, e)
    PROVE  IInv'
BY ClaimForDeliveryIInv DEF ReceiveNothingToDeliver

\* ReceiveRejects preserves the inductive invariant.
LEMMA ReceiveRejectsIInv ==
    ASSUME IInv, NEW w \in Workers, NEW e \in Events, ReceiveRejects(w, e)
    PROVE  IInv'
BY ClaimForDeliveryIInv DEF ReceiveRejects

\* MessageDropped preserves the inductive invariant.
LEMMA MessageDroppedIInv ==
    ASSUME IInv, NEW e \in Events, MessageDropped(e)
    PROVE  IInv'
BY DEF IInv, MessageDropped, TypeOK, RowsTypeOK, LocksTypeOK, WorkersTypeOK,
     DispatchersTypeOK, RowInv, ProcessingIsRecoverable, TerminalScrubbed,
     OneClaimPerDispatch, AttemptLeft, TakenIsClaimed, LockInv, BatchIsStable,
     LocksAreBatches, SeenLeft

\* Deliver preserves the inductive invariant.
LEMMA DeliverIInv ==
    ASSUME IInv, NEW w \in Workers, Deliver(w)
    PROVE  IInv'
BY DEF IInv, Deliver, WorkerAt, TypeOK, RowsTypeOK, LocksTypeOK, WorkersTypeOK,
     DispatchersTypeOK, RowInv, ProcessingIsRecoverable, TerminalScrubbed,
     OneClaimPerDispatch, AttemptLeft, TakenIsClaimed, LockInv, BatchIsStable,
     LocksAreBatches, SeenLeft

\* ApplyRead preserves the inductive invariant.
LEMMA ApplyReadIInv ==
    ASSUME IInv, NEW w \in Workers, ApplyRead(w)
    PROVE  IInv'
<1>1. TypeOK'
  <2>1. CASE HoldsClaim(w)
    <3>1. RowsTypeOK' /\ LocksTypeOK' /\ DispatchersTypeOK'
      BY DEF ApplyRead, IInv, TypeOK, RowsTypeOK, LocksTypeOK, DispatchersTypeOK, Processes
    <3>2. wEvent[w] \in Events /\ attempts[wEvent[w]] \in 0 .. MaxAttempts /\ wOk[w] \in BOOLEAN
      BY DEF IInv, TypeOK, RowsTypeOK, WorkersTypeOK
    <3>3. WorkersTypeOK'
      BY <2>1, <3>2 DEF ApplyRead, WorkerAt, IInv, TypeOK, WorkersTypeOK
    <3> QED BY <3>1, <3>3 DEF TypeOK
  <2>2. CASE ~HoldsClaim(w)
    <3>0. WorkerIdle(w)
      BY <2>2 DEF ApplyRead
    <3>1. WorkersTypeOK'
      BY <3>0, FirstEvent DEF WorkerAt, WorkerIdle, IInv, TypeOK, WorkersTypeOK
    <3>2. RowsTypeOK' /\ LocksTypeOK' /\ DispatchersTypeOK'
      BY DEF ApplyRead, IInv, TypeOK, RowsTypeOK, LocksTypeOK, DispatchersTypeOK
    <3> QED BY <3>1, <3>2 DEF TypeOK
  <2> QED BY <2>1, <2>2
<1>2. RowInv'
  BY DEF ApplyRead, HoldsClaim, WorkerAt, WorkerIdle, IInv, TypeOK, RowsTypeOK,
       WorkersTypeOK, DispatchersTypeOK, RowInv, ProcessingIsRecoverable, TerminalScrubbed,
       OneClaimPerDispatch, AttemptLeft, TakenIsClaimed, LockInv, BatchIsStable,
       LocksAreBatches, SeenLeft
<1>3. LockInv'
  BY FirstEvent DEF ApplyRead, HoldsClaim, WorkerAt, WorkerIdle, IInv, TypeOK, RowsTypeOK,
       LocksTypeOK, WorkersTypeOK, DispatchersTypeOK, LockInv, BatchIsStable,
       LocksAreBatches
<1>4. SeenLeft'
  BY FirstEvent DEF ApplyRead, HoldsClaim, WorkerAt, WorkerIdle, IInv, TypeOK, RowsTypeOK,
       LocksTypeOK, WorkersTypeOK, DispatchersTypeOK, SeenLeft, RowInv, AttemptLeft
<1> QED BY <1>1, <1>2, <1>3, <1>4 DEF IInv

\* ApplyDelete preserves the inductive invariant.
LEMMA ApplyDeleteIInv ==
    ASSUME IInv, NEW w \in Workers, ApplyDelete(w)
    PROVE  IInv'
BY DEF IInv, ApplyDelete, DeleteClaim, Processes, TypeOK, RowsTypeOK, LocksTypeOK,
     WorkersTypeOK, DispatchersTypeOK, RowInv, ProcessingIsRecoverable, TerminalScrubbed,
     OneClaimPerDispatch, AttemptLeft, TakenIsClaimed, LockInv, BatchIsStable,
     LocksAreBatches, SeenLeft

\* ApplyCommit preserves the inductive invariant.
LEMMA ApplyCommitIInv ==
    ASSUME IInv, NEW w \in Workers, ApplyCommit(w)
    PROVE  IInv'
<1>0. wEvent[w] \in Events /\ wSeen[w] \in 0 .. MaxAttempts /\ wSeen[w] < MaxAttempts
  BY DEF ApplyCommit, IInv, TypeOK, WorkersTypeOK, SeenLeft
<1>1. TypeOK'
  <2>1. CASE wOk[w]
    <3>1. RowsTypeOK'
      BY <1>0, <2>1 DEF ApplyCommit, MarkProcessed, IInv, TypeOK, RowsTypeOK
    <3>2. LocksTypeOK' /\ WorkersTypeOK' /\ DispatchersTypeOK'
      BY <1>0, FirstEvent DEF ApplyCommit, CommitDeletedClaim, WorkerAt, WorkerIdle, IInv,
                              TypeOK, LocksTypeOK, WorkersTypeOK, DispatchersTypeOK, Processes
    <3> QED BY <3>1, <3>2 DEF TypeOK
  <2>2. CASE ~wOk[w]
    <3>1. \A e \in {wEvent[w]} : /\ [f \in Events |-> wSeen[w]][e] \in 0 .. MaxAttempts
                                /\ [f \in Events |-> wSeen[w]][e] < MaxAttempts
      BY <1>0
    <3>2. RowsTypeOK'
      BY <1>0, <2>2, <3>1, MarkFailedType DEF ApplyCommit, IInv, TypeOK
    <3>3. LocksTypeOK' /\ WorkersTypeOK' /\ DispatchersTypeOK'
      BY <1>0, FirstEvent DEF ApplyCommit, CommitDeletedClaim, WorkerAt, WorkerIdle, IInv,
                              TypeOK, LocksTypeOK, WorkersTypeOK, DispatchersTypeOK, Processes
    <3> QED BY <3>2, <3>3 DEF TypeOK
  <2> QED BY <2>1, <2>2
<1>2. RowInv'
  <2>1. CASE wOk[w]
    BY <1>0, <2>1 DEF ApplyCommit, MarkProcessed, CommitDeletedClaim, IInv, TypeOK, RowsTypeOK,
                      LocksTypeOK, RowInv, ProcessingIsRecoverable, TerminalScrubbed,
                      OneClaimPerDispatch, AttemptLeft, TakenIsClaimed
  <2>2. CASE ~wOk[w]
    BY <1>0, <2>2 DEF ApplyCommit, MarkFailedAttempt, ScrubExhausted, Exhausted,
                      CommitDeletedClaim, IInv, TypeOK, RowsTypeOK, LocksTypeOK, RowInv,
                      ProcessingIsRecoverable, TerminalScrubbed, OneClaimPerDispatch,
                      AttemptLeft, TakenIsClaimed
  <2> QED BY <2>1, <2>2
<1>3. LockInv'
  BY FirstEvent DEF ApplyCommit, MarkProcessed, MarkFailedAttempt, ScrubExhausted,
       Exhausted, CommitDeletedClaim, WorkerAt, WorkerIdle, IInv, TypeOK, RowsTypeOK,
       LocksTypeOK, WorkersTypeOK, DispatchersTypeOK, LockInv, BatchIsStable,
       LocksAreBatches
<1>4. SeenLeft'
  BY FirstEvent DEF ApplyCommit, MarkProcessed, MarkFailedAttempt, ScrubExhausted,
       Exhausted, CommitDeletedClaim, WorkerAt, WorkerIdle, IInv, TypeOK, RowsTypeOK,
       LocksTypeOK, WorkersTypeOK, DispatchersTypeOK, SeenLeft, RowInv, AttemptLeft
<1> QED BY <1>1, <1>2, <1>3, <1>4 DEF IInv

\* WorkerCrash preserves the inductive invariant.
LEMMA WorkerCrashIInv ==
    ASSUME IInv, NEW w \in Workers, WorkerCrash(w)
    PROVE  IInv'
<1>1. TypeOK'
  BY FirstEvent DEF WorkerCrash, ReleaseLocks, Saturate, WorkerAt, WorkerIdle, IInv, TypeOK,
       RowsTypeOK, LocksTypeOK, WorkersTypeOK, DispatchersTypeOK, Processes
<1>2. RowInv'
  BY DEF WorkerCrash, ReleaseLocks, Saturate, WorkerAt, WorkerIdle, IInv, TypeOK,
       RowsTypeOK, WorkersTypeOK, DispatchersTypeOK, RowInv, ProcessingIsRecoverable,
       TerminalScrubbed, OneClaimPerDispatch, AttemptLeft, TakenIsClaimed, LockInv,
       BatchIsStable, LocksAreBatches, SeenLeft
<1>3. LockInv'
  BY FirstEvent DEF WorkerCrash, ReleaseLocks, Saturate, WorkerAt, WorkerIdle, IInv, TypeOK,
       RowsTypeOK, LocksTypeOK, WorkersTypeOK, DispatchersTypeOK, LockInv, BatchIsStable,
       LocksAreBatches
<1>4. SeenLeft'
  BY FirstEvent DEF WorkerCrash, ReleaseLocks, Saturate, WorkerAt, WorkerIdle, IInv, TypeOK,
       RowsTypeOK, LocksTypeOK, WorkersTypeOK, DispatchersTypeOK, SeenLeft, RowInv,
       AttemptLeft
<1> QED BY <1>1, <1>2, <1>3, <1>4 DEF IInv

\* DeadlockAbortsWorker preserves the inductive invariant.
LEMMA DeadlockAbortsWorkerIInv ==
    ASSUME IInv, NEW w \in Workers, DeadlockAbortsWorker(w)
    PROVE  IInv'
<1>1. TypeOK'
  BY FirstEvent DEF DeadlockAbortsWorker, ReleaseLocks, WorkerAt, WorkerIdle, IInv, TypeOK,
       RowsTypeOK, LocksTypeOK, WorkersTypeOK, DispatchersTypeOK, Processes
<1>2. RowInv'
  BY DEF DeadlockAbortsWorker, ReleaseLocks, WorkerAt, WorkerIdle, IInv, TypeOK, RowsTypeOK,
       WorkersTypeOK, DispatchersTypeOK, RowInv, ProcessingIsRecoverable, TerminalScrubbed,
       OneClaimPerDispatch, AttemptLeft, TakenIsClaimed, LockInv, BatchIsStable,
       LocksAreBatches, SeenLeft
<1>3. LockInv'
  BY FirstEvent DEF DeadlockAbortsWorker, ReleaseLocks, WorkerAt, WorkerIdle, IInv, TypeOK,
       RowsTypeOK, LocksTypeOK, WorkersTypeOK, DispatchersTypeOK, LockInv, BatchIsStable,
       LocksAreBatches
<1>4. SeenLeft'
  BY FirstEvent DEF DeadlockAbortsWorker, ReleaseLocks, WorkerAt, WorkerIdle, IInv, TypeOK,
       RowsTypeOK, LocksTypeOK, WorkersTypeOK, DispatchersTypeOK, SeenLeft, RowInv,
       AttemptLeft
<1> QED BY <1>1, <1>2, <1>3, <1>4 DEF IInv

\* DeadlockAbortsDispatcher preserves the inductive invariant.
LEMMA DeadlockAbortsDispatcherIInv ==
    ASSUME IInv, NEW d \in Dispatchers, DeadlockAbortsDispatcher(d)
    PROVE  IInv'
<1>1. TypeOK'
  BY FirstEvent DEF DeadlockAbortsDispatcher, DispatcherDies, ReleaseLocks, DispatcherAt,
       IInv, TypeOK, RowsTypeOK, LocksTypeOK, WorkersTypeOK, DispatchersTypeOK, Processes
<1>2. RowInv'
  BY DEF DeadlockAbortsDispatcher, DispatcherDies, ReleaseLocks, DispatcherAt, IInv, TypeOK,
       RowsTypeOK, WorkersTypeOK, DispatchersTypeOK, RowInv, ProcessingIsRecoverable,
       TerminalScrubbed, OneClaimPerDispatch, AttemptLeft, TakenIsClaimed, LockInv,
       BatchIsStable, LocksAreBatches, SeenLeft
<1>3. LockInv'
  BY FirstEvent DEF DeadlockAbortsDispatcher, DispatcherDies, ReleaseLocks, DispatcherAt,
       IInv, TypeOK, RowsTypeOK, LocksTypeOK, WorkersTypeOK, DispatchersTypeOK, LockInv,
       BatchIsStable, LocksAreBatches
<1>4. SeenLeft'
  BY FirstEvent DEF DeadlockAbortsDispatcher, DispatcherDies, ReleaseLocks, DispatcherAt,
       IInv, TypeOK, RowsTypeOK, LocksTypeOK, WorkersTypeOK, DispatchersTypeOK, SeenLeft,
       RowInv, AttemptLeft
<1> QED BY <1>1, <1>2, <1>3, <1>4 DEF IInv

\* EraseScrub preserves the inductive invariant.
LEMMA EraseScrubIInv ==
    ASSUME IInv, NEW S \in SUBSET Events, EraseScrub(S)
    PROVE  IInv'
<1>1. TypeOK'
  BY FirstEvent DEF EraseScrub, IInv, TypeOK, RowsTypeOK, LocksTypeOK, WorkersTypeOK,
       DispatchersTypeOK, Processes
<1>2. RowInv'
  BY DEF EraseScrub, IInv, TypeOK, RowsTypeOK, WorkersTypeOK, DispatchersTypeOK, RowInv,
       ProcessingIsRecoverable, TerminalScrubbed, OneClaimPerDispatch, AttemptLeft,
       TakenIsClaimed, LockInv, BatchIsStable, LocksAreBatches, SeenLeft
<1>3. LockInv'
  BY FirstEvent DEF EraseScrub, IInv, TypeOK, RowsTypeOK, LocksTypeOK, WorkersTypeOK,
       DispatchersTypeOK, LockInv, BatchIsStable, LocksAreBatches
<1>4. SeenLeft'
  BY FirstEvent DEF EraseScrub, IInv, TypeOK, RowsTypeOK, LocksTypeOK, WorkersTypeOK,
       DispatchersTypeOK, SeenLeft, RowInv, AttemptLeft
<1> QED BY <1>1, <1>2, <1>3, <1>4 DEF IInv

\* RetentionScrub preserves the inductive invariant.
LEMMA RetentionScrubIInv ==
    ASSUME IInv, NEW e \in Events, RetentionScrub(e)
    PROVE  IInv'
BY DEF IInv, RetentionScrub, TypeOK, RowsTypeOK, LocksTypeOK, WorkersTypeOK,
     DispatchersTypeOK, RowInv, ProcessingIsRecoverable, TerminalScrubbed,
     OneClaimPerDispatch, AttemptLeft, TakenIsClaimed, LockInv, BatchIsStable,
     LocksAreBatches, SeenLeft

-------------------------------------------------------------------------------
\* Every step of Next preserves the invariant: one case per action.
LEMMA NextIInv == IInv /\ [Next]_vars => IInv'
<1> SUFFICES ASSUME IInv, [Next]_vars PROVE IInv'
  OBVIOUS
<1>1. CASE UNCHANGED vars
  BY <1>1 DEF IInv, TypeOK, RowsTypeOK, LocksTypeOK, WorkersTypeOK, DispatchersTypeOK,
       RowInv, ProcessingIsRecoverable, TerminalScrubbed, OneClaimPerDispatch, AttemptLeft,
       TakenIsClaimed, LockInv, BatchIsStable, LocksAreBatches, SeenLeft
<1>2. CASE \E d \in Dispatchers : DispatcherStep(d)
  BY <1>2, RecoverLockIInv, RecoverCommitIInv, ClaimLockIInv, ClaimCommitIInv, EnqueueIInv,
     EnqueueFailsIInv, ReleaseReadIInv, ReleaseDeleteIInv, ReleaseCommitIInv, SleepIInv,
     DispatcherRestartIInv DEF DispatcherStep
<1>3. CASE \E w \in Workers : WorkerStep(w)
  BY <1>3, ReceiveSkipsIInv, ReceiveDeliversIInv, ReceiveNothingToDeliverIInv,
     ReceiveRejectsIInv, DeliverIInv, ApplyReadIInv, ApplyDeleteIInv, ApplyCommitIInv
     DEF WorkerStep
<1>4. CASE Environment
  BY <1>4, PublishIInv, BecomesStaleIInv, BackoffElapsesIInv, MessageDroppedIInv,
     WorkerCrashIInv, DispatcherCrashIInv, DeadlockAbortsWorkerIInv,
     DeadlockAbortsDispatcherIInv, EraseScrubIInv, RetentionScrubIInv DEF Environment
<1> QED BY <1>1, <1>2, <1>3, <1>4 DEF Next

\* The inductive invariant holds in every behaviour of the outbox.
THEOREM Invariance == Spec => []IInv
<1> QED BY InitIInv, NextIInv, PTL DEF Spec

\* Every variable keeps its type, and attempts (mark_failed_attempt) never passes
\* max_attempts.
THEOREM TypeCorrect == Spec => []TypeOK
<1>1. IInv => TypeOK
  BY DEF IInv
<1> QED BY Invariance, <1>1, PTL

\* No row is stuck in processing: recovery's filter on locked_at never hides one.
THEOREM Recoverable == Spec => []ProcessingIsRecoverable
<1>1. IInv => ProcessingIsRecoverable
  BY DEF IInv, RowInv
<1> QED BY Invariance, <1>1, PTL

\* A processed or failed row holds no delivery material.
THEOREM Scrubbed == Spec => []TerminalScrubbed
<1>1. IInv => TerminalScrubbed
  BY DEF IInv, RowInv
<1> QED BY Invariance, <1>1, PTL

\* At most one worker takes an event for delivery between two dispatches.
THEOREM ClaimedOnce == Spec => []OneClaimPerDispatch
<1>1. IInv => OneClaimPerDispatch
  BY DEF IInv, RowInv
<1> QED BY Invariance, <1>1, PTL

\* An event that is not terminal has an attempt left.
THEOREM AttemptsBounded == Spec => []AttemptLeft
<1>1. IInv => AttemptLeft
  BY DEF IInv, RowInv
<1> QED BY Invariance, <1>1, PTL

\* A dispatcher's locked batch stays as it was selected, and is its own.
THEOREM BatchesStable == Spec => []BatchIsStable
<1>1. IInv => BatchIsStable
  BY DEF IInv, LockInv
<1> QED BY Invariance, <1>1, PTL

-------------------------------------------------------------------------------
(* The refinement: Outbox implements OutboxContract. The initial states    *)
(* map to initial states, and every step of a dispatcher, a worker or the  *)
(* environment maps to a step of the contract or to none.                  *)

\* Events under way exist: what a worker holds, and what a dispatcher releases.
WorkExists ==
    /\ \A w \in Workers : wPc[w] # "idle" => status[wEvent[w]] # "absent"
    /\ \A d \in Dispatchers :
          dPc[d] \in {"relDelete", "relWrite"} => status[dEvent[d]] # "absent"

RInv == IInv /\ WorkExists

\* Initially nothing is under way.
LEMMA InitWorkExists == Init => WorkExists
BY DEF Init, WorkExists

\* No step unpublishes an event.
LEMMA NeverUnpublished ==
    ASSUME IInv, [Next]_vars, NEW e \in Events, status[e] # "absent"
    PROVE  status'[e] # "absent"
<1>1. ASSUME NEW d \in Dispatchers, RecoverCommit(d) \/ ReleaseCommit(d)
      PROVE  status'[e] # "absent"
  BY <1>1 DEF RecoverCommit, ReleaseCommit, MarkFailedAttempt
<1>2. ASSUME NEW d \in Dispatchers, ClaimCommit(d)
      PROVE  status'[e] # "absent"
  BY <1>2 DEF ClaimCommit
<1>3. ASSUME NEW w \in Workers, ApplyCommit(w)
      PROVE  status'[e] # "absent"
  BY <1>3 DEF ApplyCommit, MarkFailedAttempt, MarkProcessed, IInv, TypeOK, RowsTypeOK
<1>4. ASSUME NEW f \in Events, Publish(f)
      PROVE  status'[e] # "absent"
  BY <1>4 DEF Publish, IInv, TypeOK, RowsTypeOK
<1>5. ASSUME NEW S \in SUBSET Events, EraseScrub(S)
      PROVE  status'[e] # "absent"
  BY <1>5 DEF EraseScrub
<1>6. CASE UNCHANGED status
  BY <1>6
<1>7. CASE \E d \in Dispatchers : DispatcherStep(d)
  BY <1>1, <1>2, <1>6, <1>7 DEF DispatcherStep, RecoverLock, ClaimLock, Enqueue, EnqueueFails,
      ReleaseRead, ReleaseDelete, Sleep, DispatcherRestart
<1>8. CASE \E w \in Workers : WorkerStep(w)
  BY <1>3, <1>6, <1>8 DEF WorkerStep, ReceiveSkips, ReceiveDelivers, ReceiveNothingToDeliver,
      ReceiveRejects, CommitClaim, Deliver, ApplyRead, ApplyDelete
<1>9. CASE Environment
  BY <1>4, <1>5, <1>6, <1>9 DEF Environment, BecomesStale, BackoffElapses, MessageDropped,
      WorkerCrash, DispatcherCrash, DeadlockAbortsWorker, DeadlockAbortsDispatcher,
      DispatcherDies, RetentionScrub
<1> QED BY <1>6, <1>7, <1>8, <1>9 DEF Next

\* A worker leaves idle, and a dispatcher starts a release, only with an event
\* that is processing.
LEMMA NextWorkExists ==
    ASSUME IInv, WorkExists, [Next]_vars
    PROVE  WorkExists'
<1>1. ASSUME NEW w \in Workers, wPc'[w] # "idle"
      PROVE  \/ wPc[w] # "idle" /\ wEvent'[w] = wEvent[w]
             \/ wEvent'[w] \in Events /\ status[wEvent'[w]] = "processing"
  <2>1. CASE \E d \in Dispatchers : DispatcherStep(d)
    BY <1>1, <2>1 DEF DispatcherStep, RecoverLock, RecoverCommit, ClaimLock, ClaimCommit,
        Enqueue, EnqueueFails, ReleaseRead, ReleaseDelete, ReleaseCommit, Sleep,
        DispatcherRestart, IInv, TypeOK, WorkersTypeOK
  <2>2. CASE \E v \in Workers : WorkerStep(v)
    BY <1>1, <2>2 DEF WorkerStep, ReceiveSkips, ReceiveDelivers, ReceiveNothingToDeliver,
        ReceiveRejects, DeliveryClaimable, CommitClaim, Deliver, ApplyRead, ApplyDelete,
        ApplyCommit, WorkerAt, WorkerIdle, IInv, TypeOK, WorkersTypeOK
  <2>3. CASE Environment
    BY <1>1, <2>3 DEF Environment, Publish, BecomesStale, BackoffElapses, MessageDropped,
        WorkerCrash, DispatcherCrash, DeadlockAbortsWorker, DeadlockAbortsDispatcher,
        DispatcherDies, EraseScrub, RetentionScrub, WorkerAt, WorkerIdle, IInv, TypeOK,
        WorkersTypeOK
  <2>4. CASE UNCHANGED vars
    BY <1>1, <2>4
  <2> QED BY <2>1, <2>2, <2>3, <2>4 DEF Next
<1>2. ASSUME NEW d \in Dispatchers, dPc'[d] \in {"relDelete", "relWrite"}
      PROVE  \/ dPc[d] \in {"relDelete", "relWrite"} /\ dEvent'[d] = dEvent[d]
             \/ dEvent'[d] \in Events /\ status[dEvent'[d]] = "processing"
  <2>1. CASE \E c \in Dispatchers : DispatcherStep(c)
    <3>1. PICK c \in Dispatchers : DispatcherStep(c)
      BY <2>1
    <3>2. CASE \/ \E S \in SUBSET Events : RecoverLock(c, S) \/ ClaimLock(c, S)
               \/ RecoverCommit(c) \/ ClaimCommit(c)
      BY <1>2, <3>2 DEF RecoverLock, RecoverCommit, ClaimLock, ClaimCommit, DispatcherAt,
          IInv, TypeOK, DispatchersTypeOK
    <3>3. CASE \E e \in Events : Enqueue(c, e) \/ EnqueueFails(c, e)
      BY <1>2, <3>3 DEF Enqueue, EnqueueFails, DispatcherAt, IInv, TypeOK, DispatchersTypeOK
    <3>4. CASE ReleaseRead(c)
      BY <1>2, <3>4 DEF ReleaseRead, DispatcherAt, IInv, TypeOK, DispatchersTypeOK
    <3>5. CASE ReleaseDelete(c) \/ ReleaseCommit(c)
      BY <1>2, <3>5 DEF ReleaseDelete, ReleaseCommit, DispatcherAt, IInv, TypeOK,
          DispatchersTypeOK
    <3>6. CASE Sleep(c) \/ DispatcherRestart(c)
      BY <1>2, <3>6 DEF Sleep, DispatcherRestart, DispatcherAt, IInv, TypeOK, DispatchersTypeOK
    <3> QED BY <3>1, <3>2, <3>3, <3>4, <3>5, <3>6 DEF DispatcherStep
  <2>2. CASE \E w \in Workers : WorkerStep(w)
    BY <1>2, <2>2 DEF WorkerStep, ReceiveSkips, ReceiveDelivers, ReceiveNothingToDeliver,
        ReceiveRejects, CommitClaim, Deliver, ApplyRead, ApplyDelete, ApplyCommit
  <2>3. CASE Environment
    <3>1. CASE \E c \in Dispatchers : DispatcherCrash(c) \/ DeadlockAbortsDispatcher(c)
      BY <1>2, <3>1 DEF DispatcherCrash, DeadlockAbortsDispatcher, DispatcherDies, DispatcherAt,
          IInv, TypeOK, DispatchersTypeOK
    <3>2. CASE UNCHANGED dVars
      BY <1>2, <3>2
    <3> QED
      BY <2>3, <3>1, <3>2 DEF Environment, Publish, BecomesStale, BackoffElapses, MessageDropped,
          WorkerCrash, DeadlockAbortsWorker, EraseScrub, RetentionScrub
  <2>4. CASE UNCHANGED vars
    BY <1>2, <2>4
  <2> QED BY <2>1, <2>2, <2>3, <2>4 DEF Next
<1>3. ASSUME NEW w \in Workers, wPc'[w] # "idle"
      PROVE  status'[wEvent'[w]] # "absent"
  BY <1>1, <1>3, NeverUnpublished DEF WorkExists, IInv, TypeOK, WorkersTypeOK
<1>4. ASSUME NEW d \in Dispatchers, dPc'[d] \in {"relDelete", "relWrite"}
      PROVE  status'[dEvent'[d]] # "absent"
  BY <1>2, <1>4, NeverUnpublished DEF WorkExists, IInv, TypeOK, DispatchersTypeOK
<1> QED BY <1>3, <1>4 DEF WorkExists

-------------------------------------------------------------------------------
(* Every step maps to a step of the contract.                              *)

\* What a worker's step looks like in the contract.
LEMMA WorkAt ==
    ASSUME WorkersTypeOK, NEW w \in Workers, NEW pc, NEW e, NEW ok, NEW seen,
           WorkerAt(w, pc, e, ok, seen)
    PROVE  Work' = [Work EXCEPT ![w] =
                      IF pc = "idle" THEN [step |-> "idle", event |-> 1, ok |-> FALSE]
                      ELSE [step |-> IF pc = "deliver" THEN "deliver" ELSE "report",
                            event |-> e, ok |-> ok]]
BY DEF WorkerAt, Work, WorkersTypeOK

\* Steps that touch neither status, nor payload, nor the workers are invisible.
LEMMA QuietStep ==
    ASSUME UNCHANGED <<status, payload, wVars>>
    PROVE  UNCHANGED Contract!contractVars
BY DEF Contract!contractVars, Material, Work

\* Publishing an event is the contract's Post.
LEMMA PublishPosts ==
    ASSUME IInv, NEW e \in Events, Publish(e)
    PROVE  Contract!Post(e)
BY DEF Publish, Contract!Post, Material, Work, IInv, TypeOK, RowsTypeOK

\* Recovery withdraws the material of the events whose attempts are exhausted.
LEMMA RecoverCommitWithdraws ==
    ASSUME IInv, NEW d \in Dispatchers, RecoverCommit(d)
    PROVE  Contract!Withdraw({e \in dBatch[d] : Exhausted(attempts[e])})
BY DEF RecoverCommit, MarkFailedAttempt, ScrubExhausted, Contract!Withdraw, Material, Work,
       IInv, TypeOK, RowsTypeOK, DispatchersTypeOK, LockInv, BatchIsStable

\* Claiming moves rows from pending to processing, which the contract does not see.
LEMMA ClaimCommitQuiet ==
    ASSUME IInv, NEW d \in Dispatchers, ClaimCommit(d)
    PROVE  UNCHANGED Contract!contractVars
BY DEF ClaimCommit, Contract!contractVars, Material, Work,
       IInv, TypeOK, RowsTypeOK, DispatchersTypeOK, LockInv, BatchIsStable

\* The release after a failed send, even over a newer state of the row.
LEMMA ReleaseCommitReleases ==
    ASSUME RInv, NEW d \in Dispatchers, NEW e \in Events, e = dEvent[d], ReleaseCommit(d)
    PROVE  Contract!Release(e)
BY DEF ReleaseCommit, MarkFailedAttempt, ScrubExhausted, Contract!Release, Material, Work,
       RInv, IInv, TypeOK, RowsTypeOK, DispatchersTypeOK, WorkExists

\* Taking a message for delivery is Begin: the payload was read with its material.
LEMMA ReceiveDeliversBegins ==
    ASSUME RInv, NEW w \in Workers, NEW e \in Events, ReceiveDelivers(w, e)
    PROVE  Contract!Begin(w, e)
<1>1. Work[w] = Contract!Resting
  BY DEF ReceiveDelivers, Takes, Work, Contract!Resting
<1>2. Work' = [Work EXCEPT ![w] = Contract!Working("deliver", e, FALSE)]
  BY WorkAt DEF ReceiveDelivers, CommitClaim, Contract!Working, RInv, IInv, TypeOK
<1>3. e \in Material
  BY DEF ReceiveDelivers, DeliveryClaimable, Material
<1>4. UNCHANGED <<status, payload>>
  BY DEF ReceiveDelivers, CommitClaim
<1> QED BY <1>1, <1>2, <1>3, <1>4 DEF Contract!Begin, Material

\* An event with nothing left to deliver is a success decided without delivering.
LEMMA ReceiveNothingDecides ==
    ASSUME RInv, NEW w \in Workers, NEW e \in Events, ReceiveNothingToDeliver(w, e)
    PROVE  Contract!Decide(w, e, TRUE)
<1>1. Work[w] = Contract!Resting
  BY DEF ReceiveNothingToDeliver, Takes, Work, Contract!Resting
<1>2. Work' = [Work EXCEPT ![w] = Contract!Working("report", e, TRUE)]
  BY WorkAt DEF ReceiveNothingToDeliver, CommitClaim, Contract!Working, RInv, IInv, TypeOK
<1>3. e \in Material /\ status[e] # "absent"
  BY DEF ReceiveNothingToDeliver, DeliveryClaimable, Material
<1>4. UNCHANGED <<status, payload>>
  BY DEF ReceiveNothingToDeliver, CommitClaim
<1> QED BY <1>1, <1>2, <1>3, <1>4 DEF Contract!Decide, Material

\* An event that cannot be delivered is a failure decided without delivering.
LEMMA ReceiveRejectsDecides ==
    ASSUME RInv, NEW w \in Workers, NEW e \in Events, ReceiveRejects(w, e)
    PROVE  Contract!Decide(w, e, FALSE)
BY WorkAt DEF ReceiveRejects, CommitClaim, DeliveryClaimable, Takes,
       Contract!Decide, Contract!Resting, Contract!Working, Material, Work, RInv, IInv, TypeOK,
       RowsTypeOK

\* The sink returns or raises.
LEMMA DeliverAttempts ==
    ASSUME RInv, NEW w \in Workers, Deliver(w)
    PROVE  \E ok \in BOOLEAN : Contract!Attempt(w, ok)
BY WorkAt DEF Deliver, Contract!Attempt, Contract!Working, Material, Work, RInv, IInv, TypeOK

\* _apply_result ignores a result whose claim is gone, and otherwise goes on unseen.
LEMMA ApplyReadReports ==
    ASSUME RInv, NEW w \in Workers, ApplyRead(w)
    PROVE  Contract!Vanish(w) \/ UNCHANGED Contract!contractVars
<1>1. CASE HoldsClaim(w)
  BY <1>1 DEF ApplyRead, WorkerAt, Contract!contractVars, Material, Work, RInv, IInv, TypeOK,
      WorkersTypeOK
<1>2. CASE ~HoldsClaim(w)
  <2>1. WorkerIdle(w) BY <1>2 DEF ApplyRead
  <2> QED BY <2>1, WorkAt DEF ApplyRead, WorkerIdle, Contract!Vanish, Contract!Resting,
      Material, Work, RInv, IInv, TypeOK
<1> QED BY <1>1, <1>2

\* The DELETE of the claim row is invisible to the contract.
LEMMA ApplyDeleteQuiet ==
    ASSUME RInv, NEW w \in Workers, ApplyDelete(w)
    PROVE  UNCHANGED Contract!contractVars
BY DEF ApplyDelete, Contract!contractVars, Material, Work, RInv, IInv, TypeOK, WorkersTypeOK

\* The commit of _apply_result is the report, whatever the row has become since.
LEMMA ApplyCommitReports ==
    ASSUME RInv, NEW w \in Workers, ApplyCommit(w)
    PROVE  Contract!ReportSuccess(w) \/ Contract!ReportFailure(w)
<1>1. /\ wEvent[w] \in Events /\ wOk[w] \in BOOLEAN
      /\ status[wEvent[w]] # "absent"
      /\ Work[w] = [step |-> "report", event |-> wEvent[w], ok |-> wOk[w]]
  BY DEF ApplyCommit, RInv, IInv, TypeOK, WorkersTypeOK, WorkExists, Work
<1>2. Work' = [Work EXCEPT ![w] = Contract!Resting]
  BY WorkAt DEF ApplyCommit, WorkerIdle, Contract!Resting, RInv, IInv, TypeOK
<1>3. CASE wOk[w]
  <2>1. MarkProcessed(wEvent[w])
    BY <1>3 DEF ApplyCommit
  <2> QED BY <1>1, <1>2, <1>3, <2>1 DEF MarkProcessed, Contract!ReportSuccess, Material, RInv,
      IInv, TypeOK, RowsTypeOK
<1>4. CASE ~wOk[w]
  <2>1. MarkFailedAttempt({wEvent[w]}, [e \in Events |-> wSeen[w]])
    BY <1>4 DEF ApplyCommit
  <2>2. Material' \in {Material, Material \ {wEvent[w]}}
    BY <1>1, <2>1 DEF MarkFailedAttempt, ScrubExhausted, Material
  <2>3. /\ {e \in Events : status[e] = "processed"}' =
             {e \in Events : status[e] = "processed"} \ {wEvent[w]}
        /\ {e \in Events : status[e] # "absent"}' = {e \in Events : status[e] # "absent"}
    BY <1>1, <2>1 DEF MarkFailedAttempt
  <2> QED BY <1>1, <1>2, <1>4, <2>2, <2>3 DEF Contract!ReportFailure
<1> QED BY <1>1, <1>3, <1>4

\* A worker that crashes or loses a deadlock leaves no trace.
LEMMA WorkerStopsVanishes ==
    ASSUME RInv, NEW w \in Workers, WorkerCrash(w) \/ DeadlockAbortsWorker(w)
    PROVE  Contract!Vanish(w)
BY WorkAt DEF WorkerCrash, DeadlockAbortsWorker, WorkerWaitsFor, WorkerIdle, Contract!Vanish,
       Contract!Resting, Material, Work, RInv, IInv, TypeOK

\* Erasure withdraws the material of the subject's events.
LEMMA EraseScrubWithdraws ==
    ASSUME RInv, NEW S \in SUBSET Events, EraseScrub(S)
    PROVE  Contract!Withdraw(S)
BY DEF EraseScrub, Contract!Withdraw, Material, Work, RInv, IInv, TypeOK, RowsTypeOK

\* Retention withdraws the material of a terminal event.
LEMMA RetentionScrubWithdraws ==
    ASSUME RInv, NEW e \in Events, RetentionScrub(e)
    PROVE  Contract!Withdraw({e})
BY DEF RetentionScrub, Contract!Withdraw, Material, Work, RInv, IInv, TypeOK, RowsTypeOK

\* Every step of Next is a step of the contract or leaves it unchanged.
LEMMA NextSimulates ==
    ASSUME RInv, [Next]_vars
    PROVE  [Contract!ContractNext]_Contract!contractVars
<1>1. CASE UNCHANGED <<status, payload, wVars>>
  BY <1>1, QuietStep
<1>2. CASE \E d \in Dispatchers : DispatcherStep(d)
  <2>1. PICK d \in Dispatchers : DispatcherStep(d)
    BY <1>2
  <2>2. CASE RecoverCommit(d)
    <3>1. {e \in dBatch[d] : Exhausted(attempts[e])} \in SUBSET Events
      BY DEF RInv, IInv, TypeOK, DispatchersTypeOK
    <3> QED BY <2>2, <3>1, RecoverCommitWithdraws DEF RInv, Contract!ContractNext
  <2>3. CASE ClaimCommit(d)
    BY <2>3, ClaimCommitQuiet DEF RInv
  <2>4. CASE ReleaseCommit(d)
    <3>1. PICK e \in Events : e = dEvent[d]
      BY DEF RInv, IInv, TypeOK, DispatchersTypeOK
    <3>2. Contract!Release(e)
      BY <2>4, <3>1, ReleaseCommitReleases
    <3> QED BY <3>2 DEF Contract!ContractNext
  <2> QED BY <1>1, <2>1, <2>2, <2>3, <2>4 DEF DispatcherStep, RecoverLock, ClaimLock, Enqueue,
      EnqueueFails, ReleaseRead, ReleaseDelete, Sleep, DispatcherRestart
<1>3. CASE \E w \in Workers : WorkerStep(w)
  <2>1. PICK w \in Workers : WorkerStep(w)
    BY <1>3
  <2>2. CASE \E e \in Events : ReceiveSkips(w, e)
    BY <1>1, <2>2 DEF ReceiveSkips
  <2>3. CASE \E e \in Events : ReceiveDelivers(w, e)
    BY <2>3, ReceiveDeliversBegins DEF Contract!ContractNext
  <2>4. CASE \E e \in Events : ReceiveNothingToDeliver(w, e)
    BY <2>4, ReceiveNothingDecides DEF Contract!ContractNext
  <2>5. CASE \E e \in Events : ReceiveRejects(w, e)
    BY <2>5, ReceiveRejectsDecides DEF Contract!ContractNext
  <2>6. CASE Deliver(w)
    BY <2>6, DeliverAttempts DEF Contract!ContractNext
  <2>7. CASE ApplyRead(w)
    BY <2>7, ApplyReadReports DEF Contract!ContractNext
  <2>8. CASE ApplyDelete(w)
    BY <2>8, ApplyDeleteQuiet
  <2>9. CASE ApplyCommit(w)
    BY <2>9, ApplyCommitReports DEF Contract!ContractNext
  <2> QED BY <2>1, <2>2, <2>3, <2>4, <2>5, <2>6, <2>7, <2>8, <2>9 DEF WorkerStep
<1>4. CASE Environment
  <2>1. CASE \E e \in Events : Publish(e)
    BY <2>1, PublishPosts DEF RInv, Contract!ContractNext
  <2>2. CASE \E w \in Workers : WorkerCrash(w) \/ DeadlockAbortsWorker(w)
    BY <2>2, WorkerStopsVanishes DEF Contract!ContractNext
  <2>3. CASE \E S \in SUBSET Events : EraseScrub(S)
    BY <2>3, EraseScrubWithdraws DEF Contract!ContractNext
  <2>4. CASE \E e \in Events : RetentionScrub(e)
    <3>1. PICK e \in Events : RetentionScrub(e)
      BY <2>4
    <3>2. {e} \in SUBSET Events
      OBVIOUS
    <3> QED BY <3>1, <3>2, RetentionScrubWithdraws DEF Contract!ContractNext
  <2> QED BY <1>1, <1>4, <2>1, <2>2, <2>3, <2>4 DEF Environment, BecomesStale,
      BackoffElapses, MessageDropped, DispatcherCrash, DeadlockAbortsDispatcher, DispatcherDies
<1> QED BY <1>1, <1>2, <1>3, <1>4 DEF Next

\* The empty outbox is the contract's initial state.
LEMMA InitSimulates == Init => Contract!ContractInit
BY DEF Init, Contract!ContractInit, Contract!Resting, Material, Work

\* The outbox implements its contract: whatever crashes, is duplicated or written from a
\* stale read, material never comes back, no delivery begins without it, and only the
\* report of a worker that succeeded makes an event processed.
THEOREM Refinement == Spec => ImplementsContract
<1>1. RInv /\ [Next]_vars => RInv'
  BY NextIInv, NextWorkExists DEF RInv
<1>2. Init => RInv
  BY InitIInv, InitWorkExists DEF RInv
<1>3. RInv /\ [Next]_vars => [Contract!ContractNext]_Contract!contractVars
  BY NextSimulates
<1> QED BY <1>1, <1>2, <1>3, InitSimulates, PTL DEF Spec, ImplementsContract, Contract!ContractSpec
===============================================================================
