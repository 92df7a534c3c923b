------------------------- MODULE DataSubjectRequests -------------------------
(***************************************************************************)
(* Data-subject requests (app/privacy): idempotent submission, review,     *)
(* representative authority, fulfilment, and the execution of an erasure.  *)
(*                                                                         *)
(* Requests of the API read a row without a lock and finish with an UPDATE *)
(* that repeats what they read (compare and swap). An erasure locks its    *)
(* request, its executor and its subject, and commits everything it does   *)
(* together with the fulfilment. A locked row makes an UPDATE wait, a user *)
(* locked FOR UPDATE makes an INSERT that refers to it wait.               *)
(*                                                                         *)
(* Abstractions: requester_role is "self" exactly when representative      *)
(* review is "not_required"; a requester has one idempotency key, live for *)
(* some time; "other" are the request types without an execution pipeline. *)
(* Whether an export request has a downloadable archive is a free choice   *)
(* here (see ExportExecution). The other providers of an erasure either    *)
(* finish or make it fail. Notes, dates and audit rows are left out.       *)
(***************************************************************************)
EXTENDS Naturals, FiniteSets

CONSTANTS
    Users,
    Staff,          \* platform staff who may execute erasures
    Types,          \* request types
    Clients,        \* transactions open at once
    Requests,       \* bound: rows of data_subject_requests, with those being inserted
    Null

ASSUME RequestAssumption ==
    /\ Staff \subseteq Users
    /\ Types \subseteq {"export", "erase", "other"}
    /\ Null \notin Users \cup Requests

VARIABLES
    dsr,        \* rows of data_subject_requests
    erased,     \* users whose profile is anonymised
    tx          \* the open transaction of each client

vars == <<dsr, erased, tx>>

Final == {"rejected", "fulfilled", "cancelled"}
Statuses == {"none", "submitted", "under_review", "approved"} \cup Final

NoRow == [type |-> "other", status |-> "none", exec |-> "not_started", rep |-> "not_required",
          requester |-> Null, subject |-> Null, key |-> FALSE]

\* seen holds the columns that were read and are compared later, or the row that is to be inserted.
NoTx == [step |-> "idle", row |-> Null, seen |-> NoRow, to |-> "none", by |-> Null]

Init ==
    /\ dsr = [d \in Requests |-> NoRow]
    /\ erased = {}
    /\ tx = [c \in Clients |-> NoTx]

Existing == {d \in Requests : dsr[d].status # "none"}

Submitting == {c \in Clients : tx[c].step \in {"lock", "insert"}}

Idle(c) == tx[c].step = "idle"
Ends(c) == tx' = [tx EXCEPT ![c] = NoTx]

-------------------------------------------------------------------------------
(* Locks. A transaction's own locks never make it wait.                    *)

\* SELECT ... FOR UPDATE of the executor and, later, of the subject.
HoldsForUpdate(c, u) ==
    \/ tx[c].step \in {"begun", "locked"} /\ tx[c].by = u
    \/ tx[c].step = "locked" /\ dsr[tx[c].row].subject = u

\* lock_requester_for_idempotency: FOR NO KEY UPDATE.
HoldsNoKeyUpdate(c, u) == tx[c].step = "insert" /\ tx[c].seen.key /\ tx[c].seen.requester = u

\* No other transaction makes c wait for the user's row, or for the key of it.
UserFree(c, u) == \A o \in Clients \ {c} : ~HoldsForUpdate(o, u) /\ ~HoldsNoKeyUpdate(o, u)
KeyShareFree(c, u) == \A o \in Clients \ {c} : ~HoldsForUpdate(o, u)

RowFree(c, d) ==
    \A o \in Clients \ {c} : ~(tx[o].step \in {"begun", "locked"} /\ tx[o].row = d)

-------------------------------------------------------------------------------
(* Submission.                                                             *)

\* _build_representative_intake_values: a representative's authority is pending.
Intake(type, by, of, keyed) ==
    [NoRow EXCEPT !.type = type, !.status = "submitted", !.requester = by, !.subject = of,
                  !.rep = IF of = by THEN "not_required" ELSE "pending", !.key = keyed]

\* The caller's identity resolves to a user row; erased identities do not.
SubmitStarts(c, type, by, of, keyed) ==
    /\ Idle(c)
    /\ by \notin erased
    /\ Cardinality(Existing) + Cardinality(Submitting) < Cardinality(Requests)
    /\ tx' = [tx EXCEPT ![c] = [NoTx EXCEPT !.step = IF keyed THEN "lock" ELSE "insert",
                                            !.seen = Intake(type, by, of, keyed)]]
    /\ UNCHANGED <<dsr, erased>>

\* Variant: submissions of one requester are not serialised.
NoWait(c, u) == TRUE

MayLockRequester(c, u) == UserFree(c, u)

\* The requester is locked and has no live key: otherwise the existing row, or a
\* conflict, is the answer.
SubmitLocks(c) ==
    /\ tx[c].step = "lock"
    /\ MayLockRequester(c, tx[c].seen.requester)
    /\ tx' = IF \E d \in Requests : dsr[d].key /\ dsr[d].requester = tx[c].seen.requester
             THEN [tx EXCEPT ![c] = NoTx]
             ELSE [tx EXCEPT ![c].step = "insert"]
    /\ UNCHANGED <<dsr, erased>>

SubmitCommits(c) ==
    /\ tx[c].step = "insert"
    /\ KeyShareFree(c, tx[c].seen.requester) /\ KeyShareFree(c, tx[c].seen.subject)
    /\ \E d \in Requests \ Existing : dsr' = [dsr EXCEPT ![d] = tx[c].seen]
    /\ Ends(c)
    /\ UNCHANGED erased

\* idempotency_key_expires_at passes.
KeyExpires(d) ==
    /\ dsr[d].key
    /\ dsr' = [dsr EXCEPT ![d].key = FALSE]
    /\ UNCHANGED <<erased, tx>>

-------------------------------------------------------------------------------
(* Review and fulfilment.                                                  *)

Reviewable == {"submitted", "under_review"}
AllowedTransitions(s) ==
    CASE s = "submitted" -> {"under_review", "approved", "cancelled"}
      [] s = "under_review" -> {"approved", "rejected", "cancelled"}
      [] s = "approved" -> {"fulfilled", "cancelled"}
      [] OTHER -> {}

Authorised(r) == r.rep \in {"not_required", "verified"}

\* _ensure_execution_ready_for_fulfilment; an export may have a usable archive.
ExecutionReady(r) == r.type = "erase" => r.exec = "ready"

\* _transition_status and its callers, up to the UPDATE.
TransitionReads(c, d, to) ==
    /\ Idle(c)
    /\ to \in AllowedTransitions(dsr[d].status)
    /\ to = "approved" => dsr[d].type # "other" /\ Authorised(dsr[d])
    /\ to = "fulfilled" => ExecutionReady(dsr[d])
    /\ tx' = [tx EXCEPT ![c] = [NoTx EXCEPT !.step = "move", !.row = d,
                                            !.seen.status = dsr[d].status, !.to = to]]
    /\ UNCHANGED <<dsr, erased>>

\* Variant: the UPDATE does not repeat the condition on the representative.
SameStatus(r, seen, to) == r.status = seen.status

\* Variant: the UPDATE goes by primary key.
AnyStatus(r, seen, to) == to = "approved" => Authorised(r)

\* The condition of transition_status_if_current.
StillMoves(r, seen, to) ==
    /\ r.status = seen.status
    /\ to = "approved" => Authorised(r)

\* The UPDATE waits for a lock on the row and then looks at it again.
TransitionCommits(c) ==
    LET d == tx[c].row IN
    /\ tx[c].step = "move"
    /\ RowFree(c, d)
    /\ dsr' = IF StillMoves(dsr[d], tx[c].seen, tx[c].to)
              THEN [dsr EXCEPT ![d].status = tx[c].to] ELSE dsr
    /\ Ends(c)
    /\ UNCHANGED erased

\* verify_representative_authority, reject_representative_authority.
AuthorityReads(c, d, to) ==
    /\ Idle(c)
    /\ dsr[d].status \in Reviewable /\ dsr[d].rep # "not_required"
    /\ tx' = [tx EXCEPT ![c] = [NoTx EXCEPT !.step = "authority", !.row = d,
                                            !.seen.rep = dsr[d].rep,
                                            !.seen.status = dsr[d].status, !.to = to]]
    /\ UNCHANGED <<dsr, erased>>

\* update_representative_authority_if_current.
StillReviews(r, seen) == r.status = seen.status /\ r.rep = seen.rep

AuthorityCommits(c) ==
    LET d == tx[c].row IN
    /\ tx[c].step = "authority"
    /\ RowFree(c, d)
    /\ dsr' = IF StillReviews(dsr[d], tx[c].seen)
              THEN [dsr EXCEPT ![d].rep = tx[c].to] ELSE dsr
    /\ Ends(c)
    /\ UNCHANGED erased

-------------------------------------------------------------------------------
(* Execution of an erasure.                                                *)

\* Variant: only the type is checked.
AnyErase(r) == r.type = "erase" /\ r.subject # Null

\* _lock_and_validate_request; a ready request is answered without doing anything.
Executable(r) ==
    r.type = "erase" /\ r.status = "approved" /\ r.exec # "ready" /\ r.subject # Null

\* _lock_authorised_executor, _lock_request, _reject_self_erasure.
EraseBegins(c, e, d) ==
    /\ Idle(c)
    /\ e \notin erased /\ UserFree(c, e) /\ RowFree(c, d)
    /\ Executable(dsr[d])
    /\ dsr[d].subject # e
    /\ tx' = [tx EXCEPT ![c] = [NoTx EXCEPT !.step = "begun", !.row = d, !.by = e]]
    /\ UNCHANGED <<dsr, erased>>

\* _build_snapshot locks the subject.
EraseLocks(c) ==
    /\ tx[c].step = "begun"
    /\ UserFree(c, dsr[tx[c].row].subject)
    /\ tx' = [tx EXCEPT ![c].step = "locked"]
    /\ UNCHANGED <<dsr, erased>>

\* _minimise_dsr_rows: links to the subject and keys go.
Unlinked(r, u) ==
    [r EXCEPT !.requester = IF @ = u THEN Null ELSE @,
              !.subject = IF @ = u THEN Null ELSE @,
              !.key = FALSE]

LinkedTo(u) == {d \in Requests : u \in {dsr[d].requester, dsr[d].subject}}

\* execute_approved_erasure_request_by_platform_staff, after the execution.
Fulfilled(r) == [r EXCEPT !.status = IF @ = "approved" THEN "fulfilled" ELSE @]

\* The providers have run, the request is ready, and is fulfilled in the same
\* transaction. The last provider locks every row linked to the subject.
EraseCommits(c) ==
    LET d == tx[c].row
        u == dsr[d].subject
    IN
    /\ tx[c].step = "locked"
    /\ \A l \in LinkedTo(u) : RowFree(c, l)
    /\ dsr' = [l \in Requests |->
                 IF l = d THEN Fulfilled([Unlinked(dsr[d], u) EXCEPT !.exec = "ready"])
                 ELSE IF l \in LinkedTo(u) THEN Unlinked(dsr[l], u) ELSE dsr[l]]
    /\ erased' = erased \cup {u}
    /\ Ends(c)

\* _mark_failed.
MarkedFailed(r) == [r EXCEPT !.exec = "failed"]

\* A provider refuses, or PostgreSQL breaks a deadlock: the savepoint is rolled
\* back and the failure committed.
EraseFails(c) ==
    /\ tx[c].step \in {"begun", "locked"}
    /\ dsr' = [dsr EXCEPT ![tx[c].row] = MarkedFailed(@)]
    /\ Ends(c)
    /\ UNCHANGED erased

\* The process or its connection dies; everything is rolled back.
Aborts(c) ==
    /\ ~Idle(c)
    /\ Ends(c)
    /\ UNCHANGED <<dsr, erased>>

-------------------------------------------------------------------------------
Step(c) ==
    \/ \E type \in Types, by, of \in Users, keyed \in BOOLEAN : SubmitStarts(c, type, by, of, keyed)
    \/ SubmitLocks(c) \/ SubmitCommits(c)
    \/ \E d \in Requests, to \in Statuses : TransitionReads(c, d, to)
    \/ TransitionCommits(c)
    \/ \E d \in Requests, to \in {"verified", "rejected"} : AuthorityReads(c, d, to)
    \/ AuthorityCommits(c)
    \/ \E e \in Staff, d \in Requests : EraseBegins(c, e, d)
    \/ EraseLocks(c) \/ EraseCommits(c) \/ EraseFails(c)
    \/ Aborts(c)

Next ==
    \/ \E c \in Clients : Step(c)
    \/ \E d \in Requests : KeyExpires(d)

Spec == Init /\ [][Next]_vars

-------------------------------------------------------------------------------
(* Properties.                                                             *)

RowType == [type : Types \cup {"other"}, status : Statuses, exec : {"not_started", "failed", "ready"},
            rep : {"not_required", "pending", "verified", "rejected"},
            requester : Users \cup {Null}, subject : Users \cup {Null}, key : BOOLEAN]

TxType == [step : {"idle", "lock", "insert", "move", "authority", "begun", "locked"},
           row : Requests \cup {Null}, seen : RowType, to : Statuses \cup {"verified", "rejected"},
           by : Users \cup {Null}]

\* The types of the variables. No other transaction ever sees an erasure in
\* execution_status "processing", which would block every retry
\* (erasure_orchestration_already_processing).
TypeOK ==
    /\ dsr \in [Requests -> RowType]
    /\ erased \subseteq Users
    /\ tx \in [Clients -> TxType]

\* A retried submission never becomes a second request, though no unique index
\* backs the key: submissions of one requester are serialised by the lock on the
\* requester's row.
OneRequestPerKey ==
    \A d, l \in Requests :
        /\ dsr[d].key /\ dsr[l].key
        /\ dsr[d].requester = dsr[l].requester
        => d = l

\* A request that was approved was made by the subject, or by a representative
\* whose authority was verified and has not been rejected since, although
\* reviewers verify, reject and approve at the same time.
ApprovedIsAuthorised ==
    \A d \in Requests : dsr[d].status \in {"approved", "fulfilled"} => Authorised(dsr[d])

\* A request that is rejected, fulfilled or cancelled keeps this status.
FinalStays ==
    [][\A d \in Requests : dsr[d].status \in Final => dsr'[d].status = dsr[d].status]_vars

\* An erasure has been executed exactly when its request is fulfilled, and then
\* the request no longer names the subject: no cancellation that runs into the
\* execution, no failure and no second executor comes between the two.
ExecutedIsFulfilled ==
    \A d \in Requests : dsr[d].type = "erase" =>
        /\ dsr[d].exec = "ready" <=> dsr[d].status = "fulfilled"
        /\ dsr[d].exec = "ready" => dsr[d].subject = Null
===============================================================================
