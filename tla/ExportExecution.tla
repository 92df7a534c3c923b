---------------------------- MODULE ExportExecution ----------------------------
(***************************************************************************)
(* The execution state of one export request, kept in step with its        *)
(* artifacts by every transaction that changes one of them                 *)
(* (_sync_export_dsr_execution_state), and the confirmation of delivery.   *)
(*                                                                         *)
(* Such a transaction writes its artifact, whose row it then has locked,   *)
(* reads the artifacts that are committed, loads the request unless it has *)
(* loaded it before, and sets execution_status. The UPDATE goes by primary *)
(* key, and the ORM leaves it out when the new value equals the loaded one.*)
(* Nothing locks the request before that UPDATE, so each transaction is    *)
(* cut after its reads.                                                    *)
(*                                                                         *)
(* Abstractions: artifacts are numbered in the order of queued_at; a       *)
(* "stale" artifact is processing under a lapsed lease, an "overdue" one   *)
(* is ready after expires_at. The worker runs with batch size 1. Leases,   *)
(* tokens and storage are in ExportArtifacts, review in                    *)
(* DataSubjectRequests.                                                    *)
(***************************************************************************)
EXTENDS Naturals

CONSTANTS
    MaxArtifacts,   \* bound: artifacts of the request
    Sessions        \* transactions open at once

ASSUME ExecutionAssumption == MaxArtifacts \in Nat

\* The artifacts, in the order of queued_at.
Numbers == 1 .. MaxArtifacts

VARIABLES
    art,        \* status of each artifact
    delivered,  \* artifacts with a confirmed delivery
    dsrStatus,  \* status of the request
    linked,     \* it names its requester and its subject
    exec,       \* its execution_status
    session     \* the open transaction of each client

executionVars == <<art, delivered, dsrStatus, linked, exec, session>>

Running == {"processing", "stale"}
Available == {"ready", "overdue"}
ArtStatuses == {"none", "queued", "failed", "expired", "cancelled"} \cup Running \cup Available
ExecStatuses == {"not_started", "queued", "processing", "ready", "failed", "delivered"}

\* write[a] is what the transaction has written to artifact a, whose row it has
\* locked; seen is the execution status as loaded, new the next one, and pending
\* the one an UPDATE of this transaction has set.
NoSession == [step |-> "idle", a |-> 0, write |-> [a \in Numbers |-> "none"],
         seen |-> "not_started", new |-> "not_started", pending |-> "none"]

ExecutionInit ==
    /\ art = [a \in Numbers |-> "none"]
    /\ delivered = {}
    /\ dsrStatus = "approved"
    /\ linked = TRUE
    /\ exec = "not_started"
    /\ session = [c \in Sessions |-> NoSession]

SessionIdle(c) == session[c].step = "idle"

SessionEnds(c) == session' = [session EXCEPT ![c] = NoSession]

ArtifactFree(c, a) == \A o \in Sessions \ {c} : session[o].write[a] = "none"
RequestFree(c) == \A o \in Sessions \ {c} : session[o].pending = "none"

-------------------------------------------------------------------------------
(* _sync_export_dsr_execution_state.                                       *)

Apply(write) == [a \in Numbers |-> IF write[a] \in {"none", "delivered"} THEN art[a] ELSE write[a]]
Deliveries(write) == delivered \cup {a \in Numbers : write[a] = "delivered"}

\* _latest_export_artifact_for_dsr.
Newest(arts) ==
    CHOOSE a \in Numbers : arts[a] # "none" /\ \A b \in a + 1 .. MaxArtifacts : arts[b] = "none"

\* _execution_state_for_dsr.
StateOf(s, isDelivered) ==
    IF isDelivered THEN "delivered"
    ELSE CASE s \in {"ready", "processing", "queued"} -> s
           [] s = "stale" -> "queued"
           [] s \in {"overdue", "expired", "failed"} -> "failed"
           [] OTHER -> "not_started"

\* The state to synchronise: that of the newest artifact, whichever changed.
NextState(write) ==
    LET n == Newest(Apply(write)) IN StateOf(Apply(write)[n], n \in Deliveries(write))

\* Transaction t writes s to artifact a, reads the artifacts and goes to step; the
\* request was loaded with execution status loaded.
Writes(t, a, s, step, loaded) ==
    LET write == [t.write EXCEPT ![a] = s] IN
    [t EXCEPT !.step = step, !.a = a, !.write = write, !.seen = loaded,
              !.new = NextState(write)]

\* The ORM finds the column changed.
Changes(t) == t.new # t.seen

\* dsr_repo.save, and the commit of everything the transaction wrote.
SyncCommits(c) ==
    LET t == session[c] IN
    /\ t.step = "sync"
    /\ Changes(t) => RequestFree(c)
    /\ art' = Apply(t.write)
    /\ delivered' = Deliveries(t.write)
    /\ exec' = IF Changes(t) THEN t.new ELSE IF t.pending # "none" THEN t.pending ELSE exec
    /\ SessionEnds(c)
    /\ UNCHANGED <<dsrStatus, linked>>

-------------------------------------------------------------------------------
(* The transactions that change artifacts.                                 *)

GoesOn(c, t) ==
    /\ session' = [session EXCEPT ![c] = t]
    /\ UNCHANGED <<art, delivered, dsrStatus, linked, exec>>

Starts(c, t) == SessionIdle(c) /\ GoesOn(c, t)

\* request_export_artifact loads the request,
RequestReads(c) ==
    /\ dsrStatus = "approved" /\ linked
    /\ Starts(c, [NoSession EXCEPT !.step = "insert", !.seen = exec])

Used(a) == art[a] # "none" \/ \E c \in Sessions : session[c].write[a] # "none"

\* and inserts an artifact, the last by queued_at.
RequestInserts(c) ==
    /\ session[c].step = "insert"
    /\ \E a \in Numbers :
          /\ \A b \in a .. MaxArtifacts : ~Used(b)
          /\ \A b \in Numbers : b + 1 = a => Used(b)
          /\ GoesOn(c, Writes(session[c], a, "queued", "sync", session[c].seen))

\* recover_stale_processing_artifacts, which skips locked rows,
RecoverStarts(c, a) ==
    /\ art[a] = "stale" /\ ArtifactFree(c, a)
    /\ Starts(c, Writes(NoSession, a, "queued", "recovered", exec))

\* saves the request; what is loaded afterwards is what the row then holds.
RecoverSaves(c) ==
    LET t == session[c] IN
    /\ t.step = "recovered"
    /\ Changes(t) => RequestFree(c)
    /\ GoesOn(c, IF Changes(t) THEN [t EXCEPT !.step = "claim", !.seen = t.new, !.pending = t.new]
                 ELSE [t EXCEPT !.step = "claim", !.seen = exec])

\* The oldest queued artifact whose row c need not wait for.
Claimable(c) ==
    LET arts == Apply(session[c].write) IN
    {a \in Numbers :
        /\ arts[a] = "queued" /\ ArtifactFree(c, a)
        /\ \A b \in 1 .. a - 1 : ~(arts[b] = "queued" /\ ArtifactFree(c, b))}

\* claim_queued_batch after a recovery, in the same transaction,
ClaimAfterRecovery(c) ==
    /\ session[c].step = "claim"
    /\ LET t == session[c] IN
       IF Claimable(c) = {} THEN GoesOn(c, [t EXCEPT !.step = "sync", !.new = t.seen])
       ELSE \E a \in Claimable(c) : GoesOn(c, Writes(t, a, "processing", "sync", t.seen))

\* or when there is nothing to recover.
ClaimOldest(c) ==
    /\ \A a \in Numbers : ~(art[a] = "stale" /\ ArtifactFree(c, a))
    /\ \E a \in Claimable(c) : Starts(c, Writes(NoSession, a, "processing", "sync", exec))

\* mark_generated_export_artifact_ready. The archive was prepared while the request
\* was linked, and no erasure passes a processing artifact.
ReadyWrites(c, a) ==
    /\ art[a] \in Running /\ ArtifactFree(c, a) /\ linked
    /\ Starts(c, Writes(NoSession, a, "ready", "sync", exec))

\* mark_export_artifact_failed.
FailedWrites(c, a) ==
    /\ art[a] \in Running /\ ArtifactFree(c, a)
    /\ Starts(c, Writes(NoSession, a, "failed", "sync", exec))

\* expire_ready_artifacts lists without a lock,
ExpiryReads(c, a) ==
    /\ art[a] = "overdue"
    /\ Starts(c, [NoSession EXCEPT !.step = "expire", !.a = a])

\* and writes by primary key.
ExpiryWrites(c) ==
    /\ session[c].step = "expire" /\ ArtifactFree(c, session[c].a)
    /\ GoesOn(c, Writes(session[c], session[c].a, "expired", "sync", exec))

\* _ensure_download_dsr_is_still_eligible.
DeliveryEligible == linked /\ dsrStatus \in {"approved", "fulfilled"}

\* confirm_export_delivery loads the artifact and the request,
DeliveryReads(c, a) ==
    /\ art[a] = "ready" /\ DeliveryEligible
    /\ Starts(c, [NoSession EXCEPT !.step = "deliver", !.a = a, !.seen = exec])

\* Variant: what was checked before is not checked again.
NotYetDelivered(a) == a \notin delivered

\* The conditions of the UPDATE; expires_at is compared with the time of the read.
Confirms(a) == a \notin delivered /\ art[a] \in Available /\ DeliveryEligible

\* repo.confirm_delivery; a delivery confirmed before is answered again.
DeliveryUpdates(c) ==
    LET t == session[c] IN
    /\ t.step = "deliver" /\ ArtifactFree(c, t.a)
    /\ GoesOn(c, IF Confirms(t.a) THEN Writes(t, t.a, "delivered", "sync", t.seen) ELSE NoSession)

\* The process or its connection dies, or a deadlock is broken.
SessionAborts(c) ==
    /\ ~SessionIdle(c)
    /\ GoesOn(c, NoSession)

-------------------------------------------------------------------------------
(* Decisions on the request, its erasure, and time.                        *)

\* fulfil_request finds a usable archive,
FulfilReads(c) ==
    /\ dsrStatus = "approved" /\ \E a \in Numbers : art[a] = "ready"
    /\ Starts(c, [NoSession EXCEPT !.step = "fulfil"])

\* and fulfils the request if it is still approved.
FulfilCommits(c) ==
    /\ session[c].step = "fulfil" /\ RequestFree(c)
    /\ dsrStatus' = IF dsrStatus = "approved" THEN "fulfilled" ELSE dsrStatus
    /\ SessionEnds(c)
    /\ UNCHANGED <<art, delivered, linked, exec>>

CancelRequest ==
    /\ dsrStatus = "approved"
    /\ \A c \in Sessions : session[c].pending = "none"
    /\ dsrStatus' = "cancelled"
    /\ UNCHANGED <<art, delivered, linked, exec, session>>

\* The erasure of the subject, which waits for every lock on the rows, refuses
\* while an artifact is processing, cancels what could still be downloaded and
\* the artifacts K whose storage is still to be purged, and does not touch the
\* execution status.
EraseSubject ==
    /\ linked
    /\ \A a \in Numbers : art[a] \notin Running
    /\ \A c \in Sessions : session[c].write = NoSession.write
    /\ \E K \in SUBSET {a \in Numbers : art[a] \in {"failed", "expired"}} :
          art' = [a \in Numbers |-> IF art[a] \in Available \cup {"queued"} \/ a \in K
                                      THEN "cancelled" ELSE art[a]]
    /\ linked' = FALSE
    /\ UNCHANGED <<delivered, dsrStatus, exec, session>>

\* Time passes: a lease lapses, an archive comes to its expires_at.
TimePasses(a) ==
    /\ art[a] \in {"processing", "ready"}
    /\ art' = [art EXCEPT ![a] = IF @ = "ready" THEN "overdue" ELSE "stale"]
    /\ UNCHANGED <<delivered, dsrStatus, linked, exec, session>>

\* The heartbeat of a worker that was late.
LeaseRenewed(a) ==
    /\ art[a] = "stale" /\ \A c \in Sessions : session[c].write[a] = "none"
    /\ art' = [art EXCEPT ![a] = "processing"]
    /\ UNCHANGED <<delivered, dsrStatus, linked, exec, session>>

SessionStep(c) ==
    \/ RequestReads(c) \/ RequestInserts(c)
    \/ \E a \in Numbers : RecoverStarts(c, a)
    \/ RecoverSaves(c) \/ ClaimAfterRecovery(c) \/ ClaimOldest(c)
    \/ \E a \in Numbers : ReadyWrites(c, a) \/ FailedWrites(c, a)
    \/ \E a \in Numbers : ExpiryReads(c, a)
    \/ ExpiryWrites(c)
    \/ \E a \in Numbers : DeliveryReads(c, a)
    \/ DeliveryUpdates(c)
    \/ SyncCommits(c)
    \/ FulfilReads(c) \/ FulfilCommits(c)
    \/ SessionAborts(c)

ExecutionNext ==
    \/ \E c \in Sessions : SessionStep(c)
    \/ CancelRequest \/ EraseSubject
    \/ \E a \in Numbers : TimePasses(a) \/ LeaseRenewed(a)

ExecutionSpec == ExecutionInit /\ [][ExecutionNext]_executionVars

-------------------------------------------------------------------------------
(* Properties.                                                             *)

SessionType ==
    [step : {"idle", "insert", "recovered", "claim", "expire", "deliver", "fulfil", "sync"},
     a : 0 .. MaxArtifacts, write : [Numbers -> ArtStatuses \cup {"delivered"}],
     seen : ExecStatuses, new : ExecStatuses, pending : ExecStatuses \cup {"none"}]

\* The types of the variables; and a row is written by one open transaction.
ExecutionTypeOK ==
    /\ art \in [Numbers -> ArtStatuses]
    /\ delivered \subseteq Numbers
    /\ dsrStatus \in {"approved", "fulfilled", "cancelled"}
    /\ linked \in BOOLEAN
    /\ exec \in ExecStatuses
    /\ session \in [Sessions -> SessionType]
    /\ \A c, d \in Sessions : c # d =>
          \A a \in Numbers : "none" \in {session[c].write[a], session[d].write[a]}

\* What exec may say of artifact a: its state, or its state before time passed.
Explains(arts, deliveries, a) ==
    {StateOf(arts[a], a \in deliveries)}
        \cup IF a \in deliveries THEN {}
             ELSE IF arts[a] \in Running THEN {"processing", "queued"}
             ELSE IF arts[a] = "overdue" THEN {"ready"} ELSE {}

\* Older artifacts do not overwrite the execution status once a newer one is queued
\* or processed: a transaction about an older one leaves it alone, or makes it tell
\* what the newest one is.
OlderNeverOverwrites ==
    [][\A c \in Sessions :
          /\ session[c].step = "sync" /\ session'[c] = NoSession
          /\ \E b \in session[c].a + 1 .. MaxArtifacts : art[b] # "none"
          => exec' = exec \/ exec' \in Explains(art', delivered', Newest(art'))]_executionVars

\* A delivery is confirmed only of an archive that has not been cancelled or
\* marked expired, of a request that has not been erased, although the checks are
\* made before the UPDATE.
DeliveredWasAvailable ==
    [][\A a \in delivered' \ delivered : art[a] \in Available /\ linked]_executionVars
===============================================================================
