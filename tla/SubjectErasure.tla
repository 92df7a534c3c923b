---------------------------- MODULE SubjectErasure ----------------------------
(***************************************************************************)
(* One approved erase request over all the rows that name its subject:     *)
(* execute_core_erasure_for_approved_request runs its providers one after  *)
(* the other inside a savepoint of one transaction, under READ COMMITTED.  *)
(* Meanwhile an administrator invites the subject's address, the outbox    *)
(* worker mails, an export of the subject is written provider by provider, *)
(* the subject signs in, and a legal hold may end.                         *)
(*                                                                         *)
(* The erasure locks what it changes, so a locked row has the erasure's    *)
(* version in draft and the committed one in row. The other transactions   *)
(* are short: each one is a step that skips or waits for locked rows. The  *)
(* state machines of the request, the outbox and the artifacts are those   *)
(* of DataSubjectRequests, Outbox and ExportArtifacts; here they are cut   *)
(* down to what an erasure meets. Users stay active (no suspension).       *)
(***************************************************************************)
EXTENDS SubjectRecords, Naturals

CONSTANTS
    FirstStatuses,      \* the possible statuses of the rows at first
    Casts,              \* who is at work besides the erasure; bounds the interleavings
    EraseRequest,       \* the erase request's row
    LateRows,           \* an invite of the subject, its outbox event and audit event
    ExecutionAudits,    \* audit events of executions; bounds their number
    NewAccount,         \* the user row the subject gets after signing in again
    Logins,             \* sign-ins of the subject's identity
    NoRow

Statuses == {"absent", "kept", "held", "pending", "processing", "processed", "failed",
             "revoked", "queued", "requeued", "ready", "unpurged", "cancelled"}

ASSUME ErasureAssumption ==
    /\ Casts \subseteq SUBSET {"worker", "export", "login"}
    /\ EraseRequest \in Rows /\ Table[EraseRequest] = "data_subject_requests"
    /\ LateRows \subseteq Rows
    /\ \A a \in ExecutionAudits :
          a \in Rows /\ Table[a] = "audit_events" /\ Link[a].target_id = EraseRequest
    /\ NewAccount \in Rows /\ Table[NewAccount] = "users"
    /\ NewAccount # Subject /\ NewAccount \notin LateRows /\ NoRow \notin Rows
    /\ \A u \in Rows : Table[u] = "users" /\ u \notin {Subject, NewAccount} =>
          \A c \in DOMAIN Link[u] : Link[u][c] # Subject
    /\ FirstStatuses \subseteq [Rows -> Statuses]
    /\ \A st \in FirstStatuses :
         /\ st[Subject] # "absent" /\ st[EraseRequest] # "absent" /\ st[NewAccount] = "absent"
         /\ \A a \in Rows :                  \* the target of an audit event exists
              /\ Table[a] = "audit_events"
              /\ st[a] # "absent" \/ a \in LateRows
              => \/ st[Link[a].target_id] # "absent"
                 \/ st[a] = "absent" /\ Link[a].target_id \in LateRows

VARIABLES
    row,        \* the committed rows: [gone, status]
    draft,      \* the rows the erasure has locked, as its transaction sees them
    era,        \* the erasure in progress and its snapshot
    outcome,    \* execution_status of the request, as committed
    toDelete,   \* artifacts whose object goes after the root transaction
    objects,    \* artifacts whose archive is stored
    job,        \* the outbox worker: the event whose token it has decrypted
    arch,       \* the export worker: the artifact it writes
    login,      \* the sign-ins
    seen,       \* history: the rows present when the last snapshot was taken
    released,   \* history: events returned to pending although a worker had them
    lateMails,  \* history: events mailed after the erasure
    restored    \* history: profile columns a sign-in wrote after the erasure

eraVars     == <<draft, era, outcome, toDelete>>
otherVars   == <<job, arch, login>>
history     == <<seen, released, lateMails, restored>>
erasureVars == <<row, eraVars, objects, otherVars, history>>

NoErasure == [step |-> 0, email |-> FALSE, invites |-> {}]
Unlocked  == [r \in {} |-> NoRow]
NoJob     == [pc |-> "idle", event |-> NoRow]
NoArchive == [pc |-> "idle", artifact |-> NoRow]
Outside   == [pc |-> "start", user |-> NoRow, writes |-> {}, erased |-> FALSE]
Profile   == {"email", "email_verified", "first_name", "last_name"}

ErasureInit ==
    /\ \E st \in FirstStatuses : row = [r \in Rows |-> [gone |-> {}, status |-> st[r]]]
    /\ draft = Unlocked /\ era = NoErasure /\ outcome = "not_started" /\ toDelete = {}
    /\ objects = {x \in Rows : Table[x] = "export_artifacts" /\ row[x].status = "ready"}
    /\ \E cast \in Casts :
         /\ job = IF "worker" \in cast THEN NoJob ELSE [NoJob EXCEPT !.pc = "away"]
         /\ arch = IF "export" \in cast THEN NoArchive ELSE [NoArchive EXCEPT !.pc = "away"]
         /\ login = [l \in IF "login" \in cast THEN Logins ELSE {} |-> Outside]
    /\ seen = {} /\ released = {} /\ lateMails = {} /\ restored = {}

Present == {r \in Rows : row[r].status # "absent"}
Free(r) == r \notin DOMAIN draft
View    == [r \in Rows |-> IF Free(r) THEN row[r] ELSE draft[r]]

\* The status a row is inserted with.
Inserted(r) ==
    [gone |-> {}, status |-> IF Table[r] \in {"invites", "outbox_events"} THEN "pending"
                             ELSE "kept"]

\* _audit_execution: rows V with one more audit event of the request.
UnusedAudits == {a \in ExecutionAudits : row[a].status = "absent"}
Audited(V) == LET a == CHOOSE a \in UnusedAudits : TRUE IN [V EXCEPT ![a] = Inserted(a)]

SetStatus(r, s) == row' = [row EXCEPT ![r].status = s]

-------------------------------------------------------------------------------
(* The erasure.                                                            *)

\* The request is locked, found approved and not yet executed, and marked as
\* processing; the snapshot locks the subject and reads its email and invites.
ErasureBegins ==
    /\ era = NoErasure /\ outcome # "ready"
    /\ era' = [step |-> 1, email |-> HasEmail(row), invites |-> InviteRows(row, HasEmail(row))]
    /\ draft' = [r \in {EraseRequest, Subject} |-> row[r]]
    /\ seen' = Present
    /\ UNCHANGED <<row, outcome, toDelete, objects, otherVars, released, lateMails, restored>>

\* Variant: an event that a worker has in hand is treated like any other.
IgnoresMail(V, R) ==
    \E r \in R : \/ V[r].status = "held"
                 \/ V[r].status = "processing" /\ Table[r] # "outbox_events"

\* _reject_active_legal_hold, _raise_if_processing_events and
\* _reject_processing_export_artifacts: the provider raises.
Refuses(V, R) == \E r \in R : V[r].status \in {"held", "processing"}

\* _defer_export_artifact_object_deletions: the artifacts that have a key.
Deferred(V, R) ==
    {x \in R : Table[x] = "export_artifacts" /\ OwnArtifact(V, x) /\ V[x].status \in Keyed}

Provider == ProviderOrder[era.step]

\* _run_core_providers: the next provider locks its rows and changes them.
ProviderRuns ==
    /\ era.step \in 1 .. Len(ProviderOrder)
    /\ LET R == Located(View, Provider, era.email, era.invites)
           L == {r \in R : Table[r] \notin {"memberships", "organisations"}} IN
       /\ ~Refuses(View, R)
       /\ draft' = [r \in DOMAIN draft \cup L |->
                      IF r \in L THEN Minimised(View, r, era.email) ELSE draft[r]]
       /\ toDelete' = toDelete \cup Deferred(View, R)
    /\ era' = [era EXCEPT !.step = @ + 1]
    /\ UNCHANGED <<row, outcome, objects, otherVars, history>>

\* Variant: the savepoint's rollback leaves the list of objects as it is.
KeepsList(D) == D

\* _discard_deferred_export_artifact_objects_after_soft_rollback
Discarded(D) == {}

\* A provider refuses or raises: the savepoint is rolled back, the failure and
\* the audit event of the execution are committed.
ErasureFails ==
    /\ era # NoErasure /\ UnusedAudits # {}
    /\ row' = Audited(row)
    /\ outcome' = "failed"
    /\ draft' = Unlocked /\ era' = NoErasure
    /\ toDelete' = Discarded(toDelete)
    /\ UNCHANGED <<objects, otherVars, history>>

\* All providers done: the request is marked ready and everything commits.
ErasureCommits ==
    /\ era.step = Len(ProviderOrder) + 1 /\ UnusedAudits # {}
    /\ row' = Audited(View)
    /\ outcome' = "ready"
    /\ draft' = Unlocked /\ era' = NoErasure
    /\ UNCHANGED <<toDelete, objects, otherVars, history>>

\* An executed request is only audited again (already_completed).
ErasureRepeats ==
    /\ era = NoErasure /\ outcome = "ready" /\ UnusedAudits # {}
    /\ row' = Audited(row)
    /\ UNCHANGED <<eraVars, objects, otherVars, history>>

\* _delete_deferred_export_artifact_objects_after_root_end; a failure is logged.
ObjectDeleted(x) ==
    /\ era = NoErasure /\ x \in toDelete
    /\ toDelete' = toDelete \ {x}
    /\ objects' \in {objects, objects \ {x}}
    /\ UNCHANGED <<row, draft, era, outcome, otherVars, history>>

\* The process dies: the transaction is rolled back, the list is lost.
ErasureCrashes ==
    /\ era # NoErasure \/ toDelete # {}
    /\ draft' = Unlocked /\ era' = NoErasure /\ toDelete' = {}
    /\ UNCHANGED <<row, outcome, objects, otherVars, history>>

-------------------------------------------------------------------------------
(* The others.                                                             *)

\* create_invite for the subject's address, in some other organisation.
AdminInvites ==
    /\ \A r \in LateRows : row[r].status = "absent"
    /\ row' = [r \in Rows |-> IF r \in LateRows THEN Inserted(r) ELSE row[r]]
    /\ UNCHANGED <<eraVars, objects, otherVars, history>>

\* legal_hold_until passes.
HoldEnds(a) ==
    /\ row[a].status = "held" /\ Free(a)
    /\ SetStatus(a, "kept")
    /\ UNCHANGED <<eraVars, objects, otherVars, history>>

InvitePending(e) == \E i \in Rows : Link[e].aggregate_id = i /\ row[i].status = "pending"

\* The worker's claim transaction decrypts the token of a pending invite.
WorkerClaims(e) ==
    /\ job = NoJob
    /\ row[e].status = "pending" /\ Free(e)
    /\ InvitePending(e)
    /\ SetStatus(e, "processing")
    /\ job' = [pc |-> "holding", event |-> e]
    /\ UNCHANGED <<eraVars, objects, arch, login, history>>

\* The invite is closed: mark_processed, which scrubs the payload.
WorkerDrops(e) ==
    /\ job = NoJob
    /\ row[e].status = "pending" /\ Free(e)
    /\ ~InvitePending(e)
    /\ row' = [row EXCEPT ![e] = [gone |-> @.gone \cup {"payload_json"}, status |-> "processed"]]
    /\ UNCHANGED <<eraVars, objects, otherVars, history>>

WorkerMails ==
    /\ job.pc = "holding"
    /\ job' = [job EXCEPT !.pc = "mailed"]
    /\ lateMails' = IF outcome = "ready" THEN lateMails \cup {job.event} ELSE lateMails
    /\ UNCHANGED <<row, eraVars, objects, arch, login, seen, released, restored>>

\* _apply_result, if the claim is still the worker's.
WorkerFinishes ==
    /\ job.pc = "mailed" /\ Free(job.event)
    /\ row' = IF row[job.event].status = "processing"
              THEN [row EXCEPT ![job.event] = [gone |-> @.gone \cup {"payload_json"},
                                               status |-> "processed"]]
              ELSE row
    /\ job' = NoJob
    /\ UNCHANGED <<eraVars, objects, arch, login, history>>

\* recover_stale_processing_events takes the event from a worker that is slow.
EventReleased ==
    /\ job.pc \in {"holding", "mailed"} /\ Free(job.event)
    /\ row[job.event].status = "processing"
    /\ SetStatus(job.event, "pending")
    /\ released' = released \cup {job.event}
    /\ UNCHANGED <<eraVars, objects, otherVars, seen, lateMails, restored>>

\* A lease on the subject's queued artifact.
ExportClaims(x) ==
    /\ arch = NoArchive
    /\ row[x].status \in {"queued", "requeued"} /\ Free(x)
    /\ SetStatus(x, "processing")
    /\ arch' = [pc |-> "writing", artifact |-> x]
    /\ UNCHANGED <<eraVars, objects, job, login, history>>

\* mark_generated_export_artifact_ready, if the lease is still the worker's.
ExportEnds ==
    /\ arch.pc = "writing" /\ Free(arch.artifact)
    /\ IF row[arch.artifact].status = "processing"
       THEN SetStatus(arch.artifact, "ready") /\ objects' = objects \cup {arch.artifact}
       ELSE UNCHANGED <<row, objects>>
    /\ arch' = NoArchive
    /\ UNCHANGED <<eraVars, job, login, history>>

\* What a worker that does not finish leaves: no storage key, or a key and
\* perhaps an object under it.
LeavesBehind(x, bare, keyed) ==
    \/ SetStatus(x, bare) /\ UNCHANGED objects
    \/ SetStatus(x, keyed) /\ objects' \in {objects, objects \cup {x}}

\* mark_export_artifact_failed, under the same condition, and the purge that
\* follows it, which may fail.
ExportFails ==
    /\ arch.pc = "writing" /\ Free(arch.artifact)
    /\ IF row[arch.artifact].status = "processing"
       THEN LeavesBehind(arch.artifact, "failed", "unpurged")
       ELSE UNCHANGED <<row, objects>>
    /\ arch' = NoArchive
    /\ UNCHANGED <<eraVars, job, login, history>>

\* recover_stale_processing: the lease of a slow worker lapsed.
LeaseRecovered ==
    /\ arch.pc = "writing" /\ Free(arch.artifact)
    /\ row[arch.artifact].status = "processing"
    /\ LeavesBehind(arch.artifact, "queued", "requeued")
    /\ UNCHANGED <<eraVars, otherVars, history>>

-------------------------------------------------------------------------------
(* Signing in: get_me and get_or_create_current_user.                      *)

\* Variant: the account is looked up by its address.
AccountsByEmail == {u \in Of(row, "users") : Names(row, u, "email", Subject)}

\* get_by_external_auth_id
Accounts == {u \in Of(row, "users") : Names(row, u, "external_auth_id", Subject)}

SignInGoes(l, pc, u, w) ==
    login' = [login EXCEPT ![l] =
                [pc |-> pc, user |-> u, writes |-> w,
                 erased |-> IF @.pc = "start" THEN outcome = "ready" ELSE @.erased]]

\* The account is read and compared with the token's claims, which may have
\* changed; only columns that differ will be written.
Loads(l, u) ==
    \E changed \in {{}, Profile} :
        LET w == changed \cup (row[u].gone \cap Profile) IN
        SignInGoes(l, IF w = {} THEN "done" ELSE "refresh", u, w)

LoginReads(l) ==
    /\ login[l].pc = "start"
    /\ \/ \E u \in Accounts : Loads(l, u)
       \/ Accounts = {} /\ SignInGoes(l, "create", NoRow, {})
    /\ UNCHANGED <<row, eraVars, objects, job, arch, history>>

\* update_profile_fields: UPDATE by id, which waits for a lock on the row.
LoginRefreshes(l) ==
    LET u == login[l].user IN
    /\ login[l].pc = "refresh" /\ Free(u)
    /\ row' = [row EXCEPT ![u].gone = @ \ login[l].writes]
    /\ restored' = IF u = Subject /\ outcome = "ready" THEN restored \cup login[l].writes
                   ELSE restored
    /\ SignInGoes(l, "done", u, {})
    /\ UNCHANGED <<eraVars, objects, job, arch, seen, released, lateMails>>

\* The INSERT in a savepoint; external_auth_id is unique.
LoginCreates(l) ==
    /\ login[l].pc = "create"
    /\ IF Accounts = {}
       THEN /\ row' = [row EXCEPT ![NewAccount] = Inserted(NewAccount)]
            /\ SignInGoes(l, "done", NewAccount, {})
       ELSE /\ SignInGoes(l, "again", NoRow, {})
            /\ UNCHANGED row
    /\ UNCHANGED <<eraVars, objects, job, arch, history>>

\* After the IntegrityError the account is read again: get_or_create returns it,
\* get_me refreshes it. Without one: ConflictError.
Rereads(l) ==
    \/ \E u \in Accounts : SignInGoes(l, "done", u, {}) \/ Loads(l, u)
    \/ Accounts = {} /\ SignInGoes(l, "conflict", NoRow, {})

LoginAgain(l) ==
    /\ login[l].pc = "again"
    /\ Rereads(l)
    /\ UNCHANGED <<row, eraVars, objects, job, arch, history>>

-------------------------------------------------------------------------------
Erasure ==
    \/ ErasureBegins \/ ProviderRuns \/ ErasureCrashes
    \/ ErasureFails \/ ErasureCommits \/ ErasureRepeats
    \/ \E x \in toDelete : ObjectDeleted(x)

Worker ==
    \/ \E e \in Of(row, "outbox_events") : WorkerClaims(e) \/ WorkerDrops(e)
    \/ WorkerMails \/ WorkerFinishes \/ EventReleased

ExportWorker ==
    \/ \E x \in Of(row, "export_artifacts") : OwnArtifact(row, x) /\ ExportClaims(x)
    \/ ExportEnds \/ ExportFails \/ LeaseRecovered

SignIn(l) == LoginReads(l) \/ LoginRefreshes(l) \/ LoginCreates(l) \/ LoginAgain(l)

ErasureNext ==
    \/ Erasure \/ Worker \/ ExportWorker \/ AdminInvites
    \/ \E a \in Of(row, "audit_events") : HoldEnds(a)
    \/ \E l \in DOMAIN login : SignIn(l)

ErasureSpec == ErasureInit /\ [][ErasureNext]_erasureVars

-------------------------------------------------------------------------------
(* Properties.                                                             *)

\* What is in a row, of whatever table.
Version == [gone : SUBSET UNION {Columns(t) : t \in Tables}, status : Statuses]

LoginType == [pc : {"start", "create", "again", "refresh", "done", "conflict"},
              user : Rows \cup {NoRow}, writes : SUBSET Profile, erased : BOOLEAN]

\* The types of the variables: only columns of a row's table go, a row that does
\* not exist has lost nothing, and a draft exists only while an erasure runs.
ErasureTypeOK ==
    /\ row \in [Rows -> Version]
    /\ draft \in [DOMAIN draft -> Version] /\ DOMAIN draft \subseteq Present
    /\ \A r \in Rows : /\ View[r].gone \subseteq Columns(Table[r])
                       /\ row[r].status = "absent" => row[r].gone = {}
    /\ era \in [step : 0 .. Len(ProviderOrder) + 1, email : BOOLEAN, invites : SUBSET Rows]
    /\ draft = Unlocked <=> era.step = 0
    /\ era.step = 0 => era = NoErasure
    /\ outcome \in {"not_started", "failed", "ready"}
    /\ toDelete \cup objects \subseteq Of(row, "export_artifacts")
    /\ job \in [pc : {"away", "idle", "holding", "mailed"}, event : Rows \cup {NoRow}]
    /\ arch \in [pc : {"away", "idle", "writing"}, artifact : Rows \cup {NoRow}]
    /\ login \in [DOMAIN login -> LoginType]
    /\ seen \subseteq Present /\ released \cup lateMails \subseteq Rows
    /\ restored \subseteq Profile

\* The columns in which a row was written with the subject.
SubjectLinks == [r \in Rows |-> {c \in DOMAIN Link[r] : Link[r][c] = Subject}]

\* The rows that, as they were written, involve the subject at all.
Involved == {r \in Rows : r = Subject \/ SubjectLinks[r] # {}}

\* The ones that are about the subject.
OwnRows ==
    LET about(t) == CASE t = "invites" -> {"email"}
                      [] t = "outbox_events" -> {"payload_json"}
                      [] t = "audit_events" -> {"actor_user_id"}
                      [] t \in {"memberships", "platform_staff"} -> {"user_id"}
                      [] OTHER -> {"subject_user_id", "requester_user_id"} IN
    {r \in Rows : r = Subject \/ SubjectLinks[r] \cap about(Table[r]) # {}}

\* The audit events about a row that involves the subject.
AboutInvolved ==
    {a \in Rows : /\ Table[a] = "audit_events"
                  /\ Link[a].target_id \in Involved
                  /\ Table[Link[a].target_id] # "organisations"}

\* Links the erasure keeps: the profile behind them is what is anonymised.
KeptLinks(t) ==
    CASE t \in {"memberships", "platform_staff"} -> {"user_id"}
      [] t \in {"data_processing_authorizations", "consent_records",
                "privacy_notice_acceptances"} -> {"subject_user_id"}
      [] OTHER -> {}

\* What must be gone of a row once the erasure is executed: each column the
\* inventory says to anonymise or delete, if the row is about the subject (but
\* the storage key, which marks an object to purge); every link that names the
\* subject (but the ones kept by policy); the target of an audit event about a
\* row that involves the subject.
MustGo ==
    [r \in Rows |->
        (SubjectLinks[r] \ KeptLinks(Table[r]))
            \cup (IF r \in OwnRows /\ Table[r] \in Executable
                  THEN PolicyOf[Table[r]].erase \ {"storage_key"} ELSE {})
            \cup (IF r \in AboutInvolved THEN {"target_id"} ELSE {})]

\* An erasure that is recorded as executed left nothing behind in any row that
\* existed when it took its snapshot. Only a sign-in that had read the profile
\* before can have written parts of it back.
Complete ==
    outcome = "ready" =>
        \A r \in seen : MustGo[r] \ row[r].gone \subseteq IF r = Subject THEN restored ELSE {}

\* What a row that is not about the subject may lose: the links that name the
\* subject, the free text of a staff record the subject made, the context of an
\* audit event about a row that involves the subject, the payload of an invite
\* event and, if it is about such an invite, its error and its schedule.
MayGo ==
    [r \in Rows |->
        SubjectLinks[r] \cup
            CASE Table[r] = "platform_staff" /\ r \in Involved -> {"suspended_reason"}
              [] r \in AboutInvolved -> AuditContext \cup {"target_id"}
              [] Table[r] = "outbox_events" ->
                   {"payload_json"} \cup IF Link[r].aggregate_id \in Involved
                                         THEN {"last_error", "locked_at", "next_attempt_at"}
                                         ELSE {}
              [] OTHER -> {}]

\* Nobody else loses data: a row that is not about the subject loses no more than
\* it may, and a payload only when the mail was delivered or its invite involves
\* the subject.
NothingElse ==
    \A r \in Rows : row[r].gone # {} =>
        /\ r \in OwnRows \/ row[r].gone \subseteq MayGo[r]
        /\ "payload_json" \in row[r].gone =>
             row[r].status = "processed" \/ Link[r].aggregate_id \in Involved

\* The column inventory as a contract: the erasure providers leave every column
\* whose policy is to retain it as it is. They do not keep to it.
RetainedStays == \A r \in Rows : row[r].gone \cap PolicyOf[Table[r]].retain = {}

\* What the preview told the reviewer holds of the erasure: every row it changes
\* is one the preview counts on the committed data, belongs to a table the
\* coverage map calls executable, and loses a column that needs review only if
\* the table was not announced as automatic.
PreviewCovers ==
    LET changed == {r \in DOMAIN draft : draft[r] # row[r]} IN
    /\ changed # {} => changed \subseteq Previewed(row)
    /\ \A r \in changed :
         /\ Table[r] \in Executable
         /\ (draft[r].gone \ row[r].gone) \cap PolicyOf[Table[r]].review # {}
              => Readiness(Table[r]) # "automatic"

\* After the erasure nothing is mailed to the subject, except by a worker that
\* was too slow and lost its event, and for an invite that came too late for the
\* erasure to see its event.
LateMail == lateMails \cap OwnRows \subseteq released \cup (Rows \ seen)

\* Every sign-in ends with the account of its identity: of two first requests the
\* one whose INSERT fails finds the other's row, and nobody who signs in after the
\* erasure gets the erased account.
SignInFindsAccount ==
    \A l \in DOMAIN login : /\ login[l].pc # "conflict"
                            /\ login[l].erased => login[l].user # Subject

\* An artifact offered for download has its object, so a failed or interrupted
\* erasure deletes no archive; and after the erasure none of the subject is
\* offered, not even one that a worker was still writing.
OfferedIsStored ==
    \A x \in Of(row, "export_artifacts") :
        row[x].status = "ready" => x \in objects /\ (outcome = "ready" => x \notin OwnRows)

\* The records a provider writes while the worker is at it.
Written ==
    IF arch.pc = "writing" THEN UNION {Exported(row, t) : t \in Tables} ELSE {}

\* The columns of row r that are NULL.
Empty(r) ==
    row[r].gone \cup ((RequestLinks \cup ArtifactLinks
                         \cup {"revoked_by_user_id", "created_by_user_id"}) \ DOMAIN Link[r])

\* An archive holds no secret and no identifier of anybody else (a record shows
\* identifying columns only of a row about the subject), and it keeps nothing from
\* the subject silently: of a row about the subject every field that the data
\* inventory declares and that has a value is shown or listed as redacted.
ArchiveIsFair ==
    \A r \in Written :
        LET record == RecordOf(row, r) IN
        /\ record.shown \cap PolicyOf[Table[r]].secret = {}
        /\ record.shown \cap PolicyOf[Table[r]].identify # {} => r \in OwnRows
        /\ r \in OwnRows =>
             EntryOf[Table[r]].fields \ Empty(r) \subseteq record.shown \cup record.redacted
===============================================================================
