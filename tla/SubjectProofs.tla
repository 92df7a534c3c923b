---------------------------- MODULE SubjectProofs ----------------------------
(***************************************************************************)
(* The safety properties of SubjectErasure for any database: any rows of   *)
(* the twelve tables, linked as the schema allows, any number of sign-ins  *)
(* and executions. The first part is about the operators of SubjectRecords *)
(* alone: what the provider of a table finds, changes and shows. The       *)
(* second shows that an inductive invariant carries this through the       *)
(* erasure, whoever runs beside it.                                        *)
(***************************************************************************)
EXTENDS SubjectErasure, TLAPS

-------------------------------------------------------------------------------
(* The inductive invariant.                                                *)

\* The step in which the provider of a table runs.
Turn ==
    [audit_events |-> 1, outbox_events |-> 2, invites |-> 3, memberships |-> 4,
     organisations |-> 5, platform_staff |-> 6, export_artifacts |-> 7,
     data_processing_authorizations |-> 8, consent_records |-> 8,
     privacy_notice_acceptances |-> 8, users |-> 9, data_subject_requests |-> 10]

\* What NothingElse allows version v of row r to have lost.
MayLose(r, v) ==
    v.gone # {} =>
        /\ r \in OwnRows \/ v.gone \subseteq MayGo[r]
        /\ "payload_json" \in v.gone => v.status = "processed" \/ Link[r].aggregate_id \in Involved

\* Until the erasure commits, nothing is gone but the payload of a mail that was sent,
\* and the identity has one account.
Intact ==
    outcome # "ready" =>
        /\ \A r \in Rows : row[r].gone # {} =>
             /\ Table[r] = "outbox_events" /\ row[r].status = "processed"
             /\ row[r].gone = {"payload_json"}
        /\ row[NewAccount].status = "absent" /\ lateMails = {}

\* A row has lost nothing or all that it must, unless it can gain or lose in other ways too:
\* a sign-in writes to the profile, a delivery scrubs the payload.
Whole ==
    \A r \in Rows : Table[r] \notin {"users", "outbox_events"} /\ row[r].gone # {} =>
        MustGo[r] \subseteq row[r].gone

\* An audit event that exists has a target that exists.
TargetsExist ==
    /\ row[Subject].status # "absent" /\ row[EraseRequest].status # "absent"
    /\ \A a \in Rows :
         Table[a] = "audit_events" /\ (row[a].status # "absent" \/ a \in LateRows) =>
             \/ row[Link[a].target_id].status # "absent"
             \/ row[a].status = "absent" /\ a \in LateRows /\ Link[a].target_id \in LateRows

\* Why the erasure has changed row r: what leads to r is still there.
Chosen(r) ==
    \/ Table[r] \in Executable \ {"outbox_events"} /\ r \in Involved \cup AboutInvolved
    \/ /\ Table[r] = "outbox_events"
       /\ \/ Link[r].aggregate_id \in era.invites
          \/ Names(row, r, "payload_json", Subject)

\* A row in the hands of the erasure.
LockedRow(r) ==
    /\ draft[r].status # "absent" /\ MayLose(r, draft[r])
    /\ draft[r] # row[r] => Chosen(r) /\ MustGo[r] \subseteq draft[r].gone
    /\ Turn[Table[r]] >= era.step => r \in {EraseRequest, Subject} /\ draft[r] = row[r]
    /\ Table[r] = "users" => r = Subject
    /\ Table[r] \in {"outbox_events", "export_artifacts"} => row[r].status # "processing"
    /\ Table[r] = "export_artifacts" => draft[r].status \in {row[r].status, "cancelled"}

\* An erasure that is running.
Running ==
    era.step # 0 =>
        /\ outcome # "ready" /\ era.email
        /\ \A i \in era.invites : /\ Table[i] = "invites" /\ row[i].status # "absent"
                                  /\ i \in Involved
        /\ {EraseRequest, Subject} \subseteq DOMAIN draft
        /\ \A r \in DOMAIN draft : LockedRow(r)

\* An artifact that a worker may still write or that is offered.
LiveArtifact == {"queued", "requeued", "processing", "ready"}

\* What holds of the rows once their provider has run: nothing of the subject is left, no
\* mail and no archive is under way, and the identity leads nowhere.
MailHalts(V) ==
    \A e \in OwnRows \cap seen : Table[e] = "outbox_events" => V[e].status \notin {"pending", "processing"}
ExportHalts(V) ==
    \A x \in OwnRows : Table[x] = "export_artifacts" =>
        V[x].status \notin LiveArtifact
Anonymous(V) == "external_auth_id" \in V[Subject].gone

Progress ==
    era.step # 0 =>
        /\ \A r \in seen : era.step > Turn[Table[r]] => MustGo[r] \subseteq View[r].gone
        /\ era.step > 2 => MailHalts(View)
        /\ era.step > 7 => ExportHalts(View)
        /\ era.step > 9 => Anonymous(View)

Executed ==
    /\ outcome = "ready" => MailHalts(row) /\ ExportHalts(row) /\ Anonymous(row)
    /\ NewAccount \notin seen

\* An object is deleted only once its artifact is cancelled for good.
Deferrals ==
    /\ outcome # "ready" /\ era.step = 0 => toDelete = {}
    /\ \A x \in toDelete : View[x].status = "cancelled" /\ (era.step # 0 => x \in DOMAIN draft)

\* What the others hold.
Holding ==
    /\ job.pc \in {"holding", "mailed"} =>
         /\ job.event \in Rows /\ Table[job.event] = "outbox_events"
         /\ row[job.event].status = "processing" \/ job.event \in released
    /\ arch.pc = "writing" => arch.artifact \in Rows /\ Table[arch.artifact] = "export_artifacts"

SigningIn ==
    \A l \in DOMAIN login :
        /\ login[l].pc = "refresh" => login[l].user \in Of(row, "users")
        /\ login[l].pc \in {"create", "again"} => Anonymous(row)
        /\ login[l].pc = "again" => Accounts # {}
        /\ login[l].erased => outcome = "ready"

IInv ==
    /\ ErasureTypeOK /\ Intact /\ Whole /\ TargetsExist /\ Running /\ Progress /\ Executed /\ Deferrals
    /\ Holding /\ SigningIn
    /\ Complete /\ NothingElse /\ LateMail /\ SignInFindsAccount /\ OfferedIsStored

-------------------------------------------------------------------------------
(* The inventories.                                                        *)

LEMMA TablesAre ==
    Tables = {"users", "memberships", "organisations", "invites", "outbox_events",
              "audit_events", "platform_staff", "data_subject_requests", "export_artifacts",
              "data_processing_authorizations", "consent_records", "privacy_notice_acceptances"}
BY DEF Tables, PolicyOf

LEMMA PoliciesAre ==
    /\ PolicyOf["users"] = UserColumns
    /\ PolicyOf["memberships"] = MembershipColumns
    /\ PolicyOf["organisations"] = OrganisationColumns
    /\ PolicyOf["invites"] = InviteColumns
    /\ PolicyOf["outbox_events"] = OutboxColumns
    /\ PolicyOf["audit_events"] = AuditColumns
    /\ PolicyOf["platform_staff"] = StaffColumns
    /\ PolicyOf["data_subject_requests"] = RequestColumns
    /\ PolicyOf["export_artifacts"] = ArtifactColumns
    /\ PolicyOf["data_processing_authorizations"] = AuthorizationColumns
    /\ PolicyOf["consent_records"] = ConsentColumns
    /\ PolicyOf["privacy_notice_acceptances"] = NoticeColumns
BY DEF PolicyOf

LEMMA EntriesAre ==
    /\ EntryOf["users"] = UserEntry
    /\ EntryOf["memberships"] = MembershipEntry
    /\ EntryOf["organisations"] = OrganisationEntry
    /\ EntryOf["invites"] = InviteEntry
    /\ EntryOf["outbox_events"] = OutboxEntry
    /\ EntryOf["audit_events"] = AuditEntry
    /\ EntryOf["platform_staff"] = StaffEntry
    /\ EntryOf["data_subject_requests"] = RequestEntry
    /\ EntryOf["export_artifacts"] = ArtifactEntry
    /\ EntryOf["data_processing_authorizations"] = AuthorizationEntry
    /\ EntryOf["consent_records"] = ConsentEntry
    /\ EntryOf["privacy_notice_acceptances"] = NoticeEntry
BY DEF EntryOf

LEMMA NamingIs ==
    /\ Naming["users"] = {"email", "external_auth_id"}
    /\ Naming["memberships"] = {"user_id"}
    /\ Naming["organisations"] = {}
    /\ Naming["invites"] = {"email", "revoked_by_user_id"}
    /\ Naming["outbox_events"] = {"payload_json"}
    /\ Naming["audit_events"] = {"actor_user_id", "target_id"}
    /\ Naming["platform_staff"] = {"user_id", "created_by_user_id"}
    /\ Naming["data_subject_requests"] = RequestLinks
    /\ Naming["export_artifacts"] = ArtifactLinks
    /\ Naming["data_processing_authorizations"] = {"subject_user_id"}
    /\ Naming["consent_records"] = {"subject_user_id"}
    /\ Naming["privacy_notice_acceptances"] = {"subject_user_id"}
BY DEF Naming

\* The policies that are joined from several groups of columns.
LEMMA RequestPolicy ==
    /\ RequestColumns.retain =
         RequestExecution.retain \cup RequestParties.retain \cup RequestDecision.retain
    /\ RequestColumns.minimise =
         RequestExecution.minimise \cup RequestParties.minimise
             \cup RequestDecision.minimise \cup RequestWorkflow.minimise
    /\ RequestColumns.erase = {"idempotency_key_hash", "idempotency_fingerprint",
                               "idempotency_key_expires_at"}
    /\ RequestColumns.review = {"execution_failure_detail", "representative_relationship",
                                "representative_authority_note", "requester_note",
                                "internal_note"}
    /\ RequestColumns.hidden = {"execution_failure_detail", "internal_note",
                                "idempotency_key_hash", "idempotency_fingerprint",
                                "idempotency_key_expires_at"}
    /\ RequestColumns.identify = {}
    /\ RequestColumns.secret = {"idempotency_key_hash", "idempotency_fingerprint"}
BY DEF RequestColumns, Join, RequestExecution, RequestParties, RequestDecision,
       RequestWorkflow, Policy

LEMMA ArtifactPolicy ==
    /\ ArtifactColumns.retain =
         ArtifactObject.retain \cup ArtifactGeneration.retain \cup ArtifactDelivery.retain
    /\ ArtifactColumns.minimise =
         ArtifactObject.minimise \cup ArtifactGeneration.minimise \cup ArtifactDelivery.minimise
    /\ ArtifactColumns.erase = {"storage_key", "processing_token", "processing_lease_expires_at"}
    /\ ArtifactColumns.review = {"failure_detail"}
    /\ ArtifactColumns.hidden = {"storage_backend", "storage_key", "processing_token",
                                 "processing_lease_expires_at", "failure_detail"}
    /\ ArtifactColumns.identify = {}
    /\ ArtifactColumns.secret = {"processing_token"}
BY DEF ArtifactColumns, Join, ArtifactObject, ArtifactGeneration, ArtifactDelivery, Policy

LEMMA TurnsAre ==
    /\ Turn["audit_events"] = 1 /\ Turn["outbox_events"] = 2 /\ Turn["invites"] = 3
    /\ Turn["memberships"] = 4 /\ Turn["organisations"] = 5 /\ Turn["platform_staff"] = 6
    /\ Turn["export_artifacts"] = 7 /\ Turn["data_processing_authorizations"] = 8
    /\ Turn["consent_records"] = 8 /\ Turn["privacy_notice_acceptances"] = 8
    /\ Turn["users"] = 9 /\ Turn["data_subject_requests"] = 10
BY DEF Turn

LEMMA OrderIs ==
    /\ Len(ProviderOrder) = 10
    /\ ProviderOrder[1] = {"audit_events"} /\ ProviderOrder[2] = {"outbox_events"}
    /\ ProviderOrder[3] = {"invites"} /\ ProviderOrder[4] = {"memberships"}
    /\ ProviderOrder[5] = {"organisations"} /\ ProviderOrder[6] = {"platform_staff"}
    /\ ProviderOrder[7] = {"export_artifacts"}
    /\ ProviderOrder[8] = {"data_processing_authorizations", "consent_records",
                           "privacy_notice_acceptances"}
    /\ ProviderOrder[9] = {"users"} /\ ProviderOrder[10] = {"data_subject_requests"}
BY DEF ProviderOrder

\* What the preview announces of a table with columns to review.
LEMMA ReviewIsAnnounced ==
    ASSUME NEW t \in Executable, PolicyOf[t].review # {}
    PROVE  Readiness(t) # "automatic"
<1>1. EntryOf[t].strategy = "retain_with_legal_basis" \/ EntryOf[t].fields \cap PolicyOf[t].review # {}
  <2>1. CASE t \in {"users", "invites", "outbox_events", "audit_events"}
    BY <2>1, PoliciesAre, EntriesAre
       DEF UserColumns, InviteColumns, OutboxColumns, AuditColumns, Policy, UserEntry,
           OutboxEntry, AuditEntry, Entry
  <2>2. CASE t = "data_subject_requests"
    <3>1. "internal_note" \in Columns(t)
      BY <2>2, PoliciesAre, RequestPolicy DEF Columns
    <3>2. "internal_note" \in EntryOf[t].fields
      BY <2>2, <3>1, EntriesAre DEF RequestEntry, RequestFields, Entry, Stamps
    <3> QED
      BY <2>2, <3>2, PoliciesAre, RequestPolicy
  <2>3. CASE t = "export_artifacts"
    <3>1. "failure_detail" \in EntryOf[t].fields
      BY <2>3, EntriesAre, ArtifactPolicy DEF ArtifactEntry, Entry
    <3> QED
      BY <2>3, <3>1, PoliciesAre, ArtifactPolicy
  <2>4. CASE t \in {"platform_staff", "data_processing_authorizations", "privacy_notice_acceptances"}
    BY <2>4, EntriesAre DEF StaffEntry, AuthorizationEntry, NoticeEntry, Entry
  <2> QED
    BY <2>1, <2>2, <2>3, <2>4, TablesAre DEF Executable
<1> QED
  BY <1>1 DEF Readiness, RequiresManualReview

-------------------------------------------------------------------------------
(* The columns of a row that hold the subject.                             *)

\* The simple policies, column by column.
LEMMA SimplePolicies ==
    /\ UserColumns.retain = {"created_at", "updated_at", "email_verified",
                             "onboarding_completed", "suspended_at"}
    /\ UserColumns.erase = {"external_auth_id", "email", "first_name", "last_name"}
    /\ UserColumns.review = {"suspended_reason"}
    /\ InviteColumns.retain = {"created_at", "updated_at", "expires_at", "revoked_at"}
    /\ InviteColumns.minimise = {"id", "organisation_id", "role", "status", "revoked_by_user_id"}
    /\ InviteColumns.erase = {"email", "token_hash"}
    /\ OutboxColumns.retain =
         {"created_at", "updated_at", "event_type", "aggregate_type", "status", "attempts",
          "max_attempts", "next_attempt_at", "locked_at", "processed_at"}
    /\ OutboxColumns.erase = {"payload_json"} /\ OutboxColumns.review = {"last_error"}
    /\ StaffColumns.retain = {"created_at", "updated_at", "suspended_at"}
    /\ StaffColumns.minimise = {"id", "user_id", "role", "status", "created_by_user_id"}
    /\ StaffColumns.erase = {} /\ StaffColumns.review = {"suspended_reason"}
    /\ AuditColumns.retain = {"category", "action", "legal_hold_until", "created_at"}
    /\ AuditColumns.minimise = {"id", "actor_user_id", "target_type", "target_id",
                                "ip_address", "user_agent"}
    /\ AuditColumns.erase = {} /\ AuditColumns.review = {"reason", "metadata_json"}
BY DEF UserColumns, InviteColumns, OutboxColumns, StaffColumns, AuditColumns, Policy, Stamps

LEMMA ColumnsAre ==
    ASSUME NEW t
    PROVE  Columns(t) = PolicyOf[t].retain \cup PolicyOf[t].minimise \cup PolicyOf[t].erase
                          \cup PolicyOf[t].review
BY DEF Columns

LEMMA RowsAre ==
    ASSUME NEW r \in Rows
    PROVE  /\ Table[r] \in Tables
           /\ SubjectLinks[r] = {c \in DOMAIN Link[r] : Link[r][c] = Subject}
           /\ SubjectLinks[r] \subseteq Columns(Table[r])
           /\ SubjectLinks[r] \subseteq Naming[Table[r]]
BY RecordsAssumption DEF SubjectLinks

LEMMA SubjectIs ==
    /\ Subject \in Rows /\ Table[Subject] = "users"
    /\ "external_auth_id" \in SubjectLinks[Subject]
    /\ Subject \in OwnRows /\ Subject \in Involved
<1>1. "external_auth_id" \in SubjectLinks[Subject]
  BY RecordsAssumption, RowsAre
<1> QED
  BY <1>1, RecordsAssumption DEF OwnRows, Involved

\* The rows that are about the subject, by table.
LEMMA OwnIs ==
    ASSUME NEW r \in Rows, r # Subject
    PROVE  /\ Table[r] = "invites" => (r \in OwnRows <=> "email" \in SubjectLinks[r])
           /\ Table[r] = "outbox_events" => (r \in OwnRows <=> "payload_json" \in SubjectLinks[r])
           /\ Table[r] = "audit_events" => (r \in OwnRows <=> "actor_user_id" \in SubjectLinks[r])
           /\ Table[r] \in {"memberships", "platform_staff"} =>
                (r \in OwnRows <=> "user_id" \in SubjectLinks[r])
           /\ Table[r] \notin {"invites", "outbox_events", "audit_events", "memberships",
                               "platform_staff"} =>
                (r \in OwnRows <=> SubjectLinks[r] \cap {"subject_user_id", "requester_user_id"} # {})
BY DEF OwnRows

LEMMA OwnIsInvolved == OwnRows \subseteq Involved
BY DEF OwnRows, Involved

LEMMA InvolvedIs ==
    ASSUME NEW r \in Rows
    PROVE  r \in Involved <=> r = Subject \/ SubjectLinks[r] # {}
BY DEF Involved

LEMMA MustGoIs ==
    ASSUME NEW r \in Rows
    PROVE  MustGo[r] = (SubjectLinks[r] \ KeptLinks(Table[r]))
            \cup (IF r \in OwnRows /\ Table[r] \in Executable
                  THEN PolicyOf[Table[r]].erase \ {"storage_key"} ELSE {})
            \cup (IF r \in AboutInvolved THEN {"target_id"} ELSE {})
BY DEF MustGo

\* Outside the audit log.
LEMMA MustGoOf ==
    ASSUME NEW r \in Rows, Table[r] # "audit_events"
    PROVE  /\ r \notin AboutInvolved
           /\ MustGo[r] \subseteq SubjectLinks[r]
                \cup (IF r \in OwnRows /\ Table[r] \in Executable
                      THEN PolicyOf[Table[r]].erase \ {"storage_key"} ELSE {})
<1>1. r \notin AboutInvolved
  BY DEF AboutInvolved
<1> QED
  BY <1>1, MustGoIs

LEMMA MayGoIs ==
    ASSUME NEW r \in Rows
    PROVE  /\ SubjectLinks[r] \subseteq MayGo[r]
           /\ Table[r] = "platform_staff" /\ r \in Involved => "suspended_reason" \in MayGo[r]
           /\ r \in AboutInvolved => AuditContext \cup {"target_id"} \subseteq MayGo[r]
           /\ Table[r] = "outbox_events" => "payload_json" \in MayGo[r]
           /\ Table[r] = "outbox_events" /\ Link[r].aggregate_id \in Involved =>
                {"last_error", "locked_at", "next_attempt_at"} \subseteq MayGo[r]
<1>1. r \in AboutInvolved => Table[r] = "audit_events"
  BY DEF AboutInvolved
<1> QED
  BY <1>1 DEF MayGo

\* A row without gaps names the subject where it was written with it.
LEMMA NamesIs ==
    ASSUME NEW V, NEW r \in Rows, V[r].gone = {}
    PROVE  /\ \A c : Names(V, r, c, Subject) <=> c \in SubjectLinks[r]
           /\ \A C : NamesSubject(V, r, C) <=> C \cap SubjectLinks[r] # {}
           /\ \A C : OwnLinks(V, r, C) = C \cap SubjectLinks[r]
<1>1. \A c : Names(V, r, c, Subject) <=> c \in SubjectLinks[r]
  BY RowsAre DEF Names
<1>2. \A C : NamesSubject(V, r, C) <=> C \cap SubjectLinks[r] # {}
  BY <1>1 DEF NamesSubject
<1>3. \A C : OwnLinks(V, r, C) = C \cap SubjectLinks[r]
  BY <1>1 DEF OwnLinks
<1> QED
  BY <1>1, <1>2, <1>3

\* A version with the columns of its row's table.
LEMMA Versions ==
    ASSUME NEW r \in Rows, NEW G, G \subseteq Columns(Table[r]), NEW s \in Statuses
    PROVE  [gone |-> G, status |-> s] \in Version
BY RowsAre DEF Version

LEMMA Withouts ==
    ASSUME NEW v \in Version, NEW C
    PROVE  Without(v, C) = [gone |-> v.gone \cup C, status |-> v.status]
BY DEF Without, Version

-------------------------------------------------------------------------------
(* What the erasure makes of a row that it meets unchanged.                *)

\* Row r of view V is there and as the last part of Intact says.
Unchanged(V, r) ==
    /\ V[r] \in Version /\ V[r].status # "absent"
    /\ V[r].gone # {} => /\ Table[r] = "outbox_events" /\ V[r].status = "processed"
                         /\ V[r].gone = {"payload_json"}

\* Version w of row r, which was v, is what the provider of its table owes to the subject
\* and to everybody else.
Rightly(r, v, w) ==
    /\ w \in Version /\ w.gone \subseteq Columns(Table[r]) /\ w.status # "absent"
    /\ MayLose(r, w) /\ MustGo[r] \subseteq w.gone
    /\ Table[r] = "outbox_events" => w.status \notin {"pending", "processing"}
    /\ Table[r] = "export_artifacts" => w.status \in {v.status, "cancelled"}
    /\ Table[r] = "export_artifacts" /\ r \in OwnRows => w.status \notin LiveArtifact
    /\ r = Subject => "external_auth_id" \in w.gone

LEMMA InvitesRight ==
    ASSUME NEW V, NEW e, e = TRUE, NEW r \in Rows, Table[r] = "invites",
           Unchanged(V, r)
    PROVE  /\ r \in InviteRows(V, e) <=> r \in Involved
           /\ Rightly(r, V[r], Minimised(V, r, e))
<1>1. V[r].gone = {} /\ r # Subject
  BY SubjectIs DEF Unchanged
<1>2. SubjectLinks[r] \subseteq {"email", "revoked_by_user_id"}
  BY RowsAre, NamingIs
<1>3. r \in RowsOf["invites"]
  BY TablesAre DEF RowsOf
<1>4. r \in InviteRows(V, e) <=> r \in Involved
  BY <1>1, <1>2, <1>3, NamesIs, InvolvedIs DEF InviteRows, Of, Unchanged
<1> DEFINE w == Minimised(V, r, e)
<1>5. w = InviteAnonymised(V, r, e)
  BY DEF Minimised
<1> HIDE DEF w
<1>6. w.gone = SubjectLinks[r] \cup IF "email" \in SubjectLinks[r]
                                    THEN {"email", "token_hash", "expires_at"} ELSE {}
  BY <1>1, <1>2, <1>5, NamesIs DEF InviteAnonymised
<1>7. w.status \in {V[r].status, "revoked"}
  BY <1>5 DEF InviteAnonymised
<1>8. w.gone \subseteq Columns(Table[r])
  <2>1. SubjectLinks[r] \subseteq Columns(Table[r])
    BY RowsAre
  <2>2. {"email", "token_hash", "expires_at"} \subseteq Columns(Table[r])
    BY PoliciesAre, SimplePolicies, ColumnsAre
  <2> QED
    BY <1>6, <2>1, <2>2
<1>9. w \in Version /\ w.status # "absent"
  <2>1. w.status \in Statuses /\ w.status # "absent"
    BY <1>7 DEF Unchanged, Version, Statuses
  <2>2. w = [gone |-> w.gone, status |-> w.status]
    BY <1>5 DEF InviteAnonymised
  <2> QED
    BY <1>8, <2>1, <2>2, Versions
<1>10. MustGo[r] \subseteq w.gone
  BY <1>1, <1>6, MustGoOf, OwnIs, PoliciesAre, SimplePolicies
<1>11. MayLose(r, w)
  BY <1>1, <1>2, <1>6, OwnIs, MayGoIs DEF MayLose
<1>12. Rightly(r, V[r], w)
  BY <1>1, <1>8, <1>9, <1>10, <1>11 DEF Rightly
<1> QED
  BY <1>4, <1>12 DEF w

\* The subject's address is in the payload only if the invite has it.
LEMMA PayloadsAre ==
    ASSUME NEW r \in Rows, Table[r] = "outbox_events"
    PROVE  /\ r # Subject /\ SubjectLinks[r] \subseteq {"payload_json"}
           /\ MustGo[r] \subseteq SubjectLinks[r] /\ (r \in OwnRows <=> "payload_json" \in SubjectLinks[r])
           /\ "payload_json" \in SubjectLinks[r] => Link[r].aggregate_id \in Involved
<1>1. r # Subject
  BY SubjectIs
<1>2. SubjectLinks[r] \subseteq {"payload_json"}
  BY RowsAre, NamingIs
<1>3. r \in OwnRows <=> "payload_json" \in SubjectLinks[r]
  BY <1>1, OwnIs
<1>4. MustGo[r] \subseteq SubjectLinks[r]
  BY <1>3, MustGoOf, PoliciesAre, SimplePolicies
<1>5. "payload_json" \in SubjectLinks[r] => Link[r].aggregate_id \in Involved
  <2> SUFFICES ASSUME "payload_json" \in SubjectLinks[r] PROVE Link[r].aggregate_id \in Involved
    OBVIOUS
  <2> DEFINE i == Link[r].aggregate_id
  <2>1. "payload_json" \in DOMAIN Link[r] /\ Link[r].payload_json = Subject
    BY RowsAre
  <2>2. i \in Rows /\ "email" \in DOMAIN Link[i] /\ Link[i].email = Subject
    BY <2>1, RecordsAssumption
  <2>3. "email" \in SubjectLinks[i]
    BY <2>2, RowsAre
  <2> QED
    BY <2>2, <2>3, InvolvedIs
<1> QED
  BY <1>1, <1>2, <1>3, <1>4, <1>5

LEMMA OutboxFound ==
    ASSUME NEW V, NEW e, e = TRUE, NEW I, NEW r \in Rows, Table[r] = "outbox_events",
           Unchanged(V, r)
    PROVE  r \in OutboxRows(V, e, I) <=> \/ Link[r].aggregate_id \in I
                                         \/ Names(V, r, "payload_json", Subject)
<1>1. r \in RowsOf["outbox_events"]
  BY TablesAre DEF RowsOf
<1>2. "aggregate_id" \in DOMAIN Link[r] /\ "aggregate_id" \notin V[r].gone
  BY RecordsAssumption DEF Unchanged
<1> QED
  BY <1>1, <1>2 DEF OutboxRows, Of, Unchanged, Names

\* An event that is not found has no address in it, and its mail was sent if it had.
LEMMA OutboxMissed ==
    ASSUME NEW V, NEW e, e = TRUE, NEW I, NEW r \in Rows, Table[r] = "outbox_events",
           Unchanged(V, r), r \notin OutboxRows(V, e, I)
    PROVE  MustGo[r] \subseteq V[r].gone /\ (r \in OwnRows => V[r].status = "processed")
<1>1. CASE "payload_json" \notin SubjectLinks[r]
  BY <1>1, PayloadsAre
<1>2. CASE "payload_json" \in SubjectLinks[r]
  <2>1. V[r].gone # {}
    BY <1>2, OutboxFound, NamesIs
  <2> QED
    BY <2>1, PayloadsAre DEF Unchanged
<1> QED
  BY <1>1, <1>2

LEMMA OutboxRight ==
    ASSUME NEW V, NEW e, e = TRUE, NEW I, NEW r \in Rows, Table[r] = "outbox_events",
           Unchanged(V, r), V[r].status # "processing",
           \A i \in I : i \in Involved, r \in OutboxRows(V, e, I)
    PROVE  /\ Link[r].aggregate_id \in I \/ Names(V, r, "payload_json", Subject)
           /\ Rightly(r, V[r], Minimised(V, r, e))
<1> DEFINE w == Minimised(V, r, e)
<1>1. w = OutboxScrubbed(V, r)
  BY DEF Minimised
<1> HIDE DEF w
<1>2. Link[r].aggregate_id \in I \/ Names(V, r, "payload_json", Subject)
  BY OutboxFound
<1>3. Link[r].aggregate_id \in Involved
  <2>1. CASE Names(V, r, "payload_json", Subject)
    BY <2>1, PayloadsAre, RowsAre DEF Names
  <2> QED
    BY <1>2, <2>1
<1>4. /\ {"payload_json", "last_error"} \subseteq w.gone
      /\ w.gone \subseteq {"payload_json", "last_error", "locked_at", "next_attempt_at"}
  BY <1>1 DEF OutboxScrubbed, Unchanged
<1>5. w.status \in Statuses \ {"absent", "pending", "processing"}
  BY <1>1 DEF OutboxScrubbed, Unchanged, Version, Statuses
<1>6. w.gone \subseteq Columns(Table[r])
  BY <1>4, PoliciesAre, SimplePolicies, ColumnsAre
<1>7. w \in Version
  BY <1>1, <1>5, <1>6, Versions DEF OutboxScrubbed
<1>8. MustGo[r] \subseteq w.gone /\ r # Subject
  BY <1>4, PayloadsAre
<1>9. MayLose(r, w)
  BY <1>3, <1>4, MayGoIs DEF MayLose
<1>10. Rightly(r, V[r], w)
  BY <1>5, <1>6, <1>7, <1>8, <1>9 DEF Rightly
<1> QED
  BY <1>2, <1>10 DEF w

LEMMA StaffRight ==
    ASSUME NEW V, NEW e, e = TRUE, NEW r \in Rows, Table[r] = "platform_staff", Unchanged(V, r)
    PROVE  /\ r \in StaffRows(V) <=> r \in Involved
           /\ r \in StaffRows(V) => Rightly(r, V[r], Minimised(V, r, e))
           /\ r \notin StaffRows(V) => MustGo[r] \subseteq V[r].gone
<1>1. V[r].gone = {} /\ r # Subject /\ r \in RowsOf["platform_staff"]
  BY SubjectIs, TablesAre DEF Unchanged, RowsOf
<1>2. SubjectLinks[r] \subseteq {"user_id", "created_by_user_id"}
  BY RowsAre, NamingIs
<1>3. r \in StaffRows(V) <=> r \in Involved
  BY <1>1, <1>2, NamesIs, InvolvedIs DEF StaffRows, Of, Unchanged
<1>4. MustGo[r] \subseteq SubjectLinks[r] \cap {"created_by_user_id"}
  BY <1>2, MustGoIs, MustGoOf, PoliciesAre, SimplePolicies DEF KeptLinks
<1> DEFINE w == Minimised(V, r, e)
<1>5. w = [gone |-> (SubjectLinks[r] \cap {"created_by_user_id"}) \cup {"suspended_reason"},
           status |-> V[r].status]
  <2>1. w = StaffMinimised(V, r)
    BY DEF Minimised
  <2>2. OwnLinks(V, r, {"created_by_user_id"}) = SubjectLinks[r] \cap {"created_by_user_id"}
    BY <1>1, NamesIs
  <2> QED
    BY <2>1, <2>2, <1>1, Withouts DEF StaffMinimised, Unchanged
<1> HIDE DEF w
<1>6. w.gone \subseteq Columns(Table[r])
  BY <1>5, PoliciesAre, SimplePolicies, ColumnsAre
<1>7. w \in Version /\ w.status # "absent"
  BY <1>5, <1>6, Versions DEF Unchanged, Version
<1>8. r \in Involved => MayLose(r, w)
  BY <1>5, MayGoIs DEF MayLose
<1>9. r \in Involved => Rightly(r, V[r], w)
  BY <1>1, <1>4, <1>5, <1>6, <1>7, <1>8 DEF Rightly
<1>10. r \notin Involved => MustGo[r] = {}
  BY <1>4, InvolvedIs
<1> QED
  BY <1>3, <1>9, <1>10 DEF w

LEMMA ArtifactsRight ==
    ASSUME NEW V, NEW e, e = TRUE, NEW r \in Rows, Table[r] = "export_artifacts",
           Unchanged(V, r)
    PROVE  /\ r \in ArtifactRows(V) <=> r \in Involved
           /\ OwnArtifact(V, r) <=> r \in OwnRows
           /\ r \in ArtifactRows(V) /\ V[r].status # "processing" =>
                Rightly(r, V[r], Minimised(V, r, e))
           /\ r \notin ArtifactRows(V) => MustGo[r] \subseteq V[r].gone
<1>1. V[r].gone = {} /\ r # Subject /\ r \in RowsOf["export_artifacts"]
  BY SubjectIs, TablesAre DEF Unchanged, RowsOf
<1>2. SubjectLinks[r] \subseteq ArtifactLinks
  BY RowsAre, NamingIs
<1>3. r \in ArtifactRows(V) <=> r \in Involved
  BY <1>1, <1>2, NamesIs, InvolvedIs DEF ArtifactRows, Of, Unchanged
<1>4. OwnArtifact(V, r) <=> r \in OwnRows
  BY <1>1, NamesIs, OwnIs DEF OwnArtifact
<1>5. MustGo[r] \subseteq SubjectLinks[r]
        \cup (IF r \in OwnRows THEN {"processing_token", "processing_lease_expires_at"} ELSE {})
  BY MustGoOf, PoliciesAre, ArtifactPolicy
<1> DEFINE w == Minimised(V, r, e)
<1>6. w = ArtifactMinimised(V, r)
  BY DEF Minimised
<1> HIDE DEF w
<1>7. w.gone = SubjectLinks[r]
                 \cup IF r \in OwnRows THEN {"filename", "content_type", "size_bytes",
                                         "checksum_sha256", "failure_detail",
                                         "processing_token", "processing_lease_expires_at"}
                      ELSE {}
  BY <1>1, <1>2, <1>4, <1>6, NamesIs DEF ArtifactMinimised
<1>8. /\ w.status \in {V[r].status, "cancelled"}
      /\ r \in OwnRows /\ V[r].status # "processing" => w.status \notin LiveArtifact
  BY <1>4, <1>6 DEF ArtifactMinimised, Keyed, LiveArtifact
<1>9. w.gone \subseteq Columns(Table[r])
  <2>1. SubjectLinks[r] \subseteq Columns(Table[r])
    BY RowsAre
  <2>2. {"filename", "content_type", "size_bytes", "checksum_sha256", "failure_detail",
         "processing_token", "processing_lease_expires_at"} \subseteq Columns(Table[r])
    BY PoliciesAre, ArtifactPolicy DEF Columns, ArtifactObject, Policy
  <2> QED
    BY <1>7, <2>1, <2>2
<1>10. "payload_json" \notin w.gone
  BY <1>2, <1>7 DEF ArtifactLinks
<1>11. w \in Version /\ w.status # "absent"
  BY <1>6, <1>8, <1>9, Versions DEF ArtifactMinimised, Unchanged, Version, Statuses
<1>12. MayLose(r, w)
  BY <1>7, <1>10, MayGoIs DEF MayLose
<1>13. V[r].status # "processing" => Rightly(r, V[r], w)
  BY <1>1, <1>5, <1>7, <1>8, <1>9, <1>11, <1>12 DEF Rightly
<1>14. r \notin Involved => MustGo[r] \subseteq V[r].gone
  BY <1>5, InvolvedIs, OwnIsInvolved
<1> QED
  BY <1>3, <1>4, <1>13, <1>14 DEF w

LEMMA RequestsRight ==
    ASSUME NEW V, NEW e, e = TRUE, NEW r \in Rows, Table[r] = "data_subject_requests", Unchanged(V, r)
    PROVE  /\ r \in RequestRows(V) <=> r \in Involved
           /\ r \in RequestRows(V) => Rightly(r, V[r], Minimised(V, r, e))
           /\ r \notin RequestRows(V) => MustGo[r] \subseteq V[r].gone
<1>1. V[r].gone = {} /\ r # Subject /\ r \in RowsOf["data_subject_requests"]
  BY SubjectIs, TablesAre DEF Unchanged, RowsOf
<1>2. SubjectLinks[r] \subseteq RequestLinks
  BY RowsAre, NamingIs
<1>3. r \in RequestRows(V) <=> r \in Involved
  BY <1>1, <1>2, NamesIs, InvolvedIs DEF RequestRows, Of, Unchanged
<1>4. NamesSubject(V, r, {"requester_user_id", "subject_user_id"}) <=> r \in OwnRows
  BY <1>1, NamesIs, OwnIs
<1>5. MustGo[r] \subseteq SubjectLinks[r] \cup (IF r \in OwnRows THEN RequestColumns.erase ELSE {})
  BY MustGoOf, PoliciesAre
<1> DEFINE w == Minimised(V, r, e)
           cleared == RequestColumns.erase \cup RequestColumns.review
                        \cup {"representative_rejection_reason_code",
                              "export_artifact_id", "erasure_job_id"}
<1>6. w = [gone |-> SubjectLinks[r] \cup IF r \in OwnRows THEN cleared ELSE {},
           status |-> V[r].status]
  <2>1. w = RequestMinimised(V, r)
    BY DEF Minimised
  <2>2. OwnLinks(V, r, RequestLinks) = RequestLinks \cap SubjectLinks[r]
    BY <1>1, NamesIs
  <2>3. OwnLinks(V, r, RequestLinks) = SubjectLinks[r]
    BY <2>2, <1>2
  <2> QED
    BY <2>1, <2>3, <1>1, <1>4, Withouts DEF RequestMinimised, Unchanged
<1> HIDE DEF w
<1>7. w.gone \subseteq Columns(Table[r])
  <2>1. SubjectLinks[r] \subseteq Columns(Table[r])
    BY RowsAre
  <2>2. cleared \subseteq Columns(Table[r])
    BY PoliciesAre, RequestPolicy DEF Columns, RequestParties, RequestWorkflow, Policy
  <2> QED
    BY <1>6, <2>1, <2>2
<1>8. w \in Version /\ w.status # "absent"
  BY <1>6, <1>7, Versions DEF Unchanged, Version
<1>9. "payload_json" \notin w.gone
  BY <1>2, <1>6, RequestPolicy DEF RequestLinks
<1>10. MayLose(r, w)
  BY <1>6, <1>9, MayGoIs DEF MayLose
<1>11. MustGo[r] \subseteq w.gone
  BY <1>5, <1>6
<1>12. Rightly(r, V[r], w)
  BY <1>1, <1>7, <1>8, <1>10, <1>11 DEF Rightly
<1>13. r \notin Involved => MustGo[r] \subseteq V[r].gone
  BY <1>5, InvolvedIs, OwnIsInvolved
<1> QED
  BY <1>3, <1>12, <1>13 DEF w

LEMMA MembershipsRight ==
    ASSUME NEW V, NEW r \in Rows, Table[r] = "memberships", Unchanged(V, r)
    PROVE  /\ r \in MembershipRows(V) <=> r \in Involved
           /\ MustGo[r] = {}
<1>1. V[r].gone = {} /\ r # Subject /\ r \in RowsOf["memberships"]
  BY SubjectIs, TablesAre DEF Unchanged, RowsOf
<1>2. SubjectLinks[r] \subseteq {"user_id"}
  BY RowsAre, NamingIs
<1>3. r \in MembershipRows(V) <=> r \in Involved
  BY <1>1, <1>2, NamesIs, InvolvedIs DEF MembershipRows, Of, Unchanged
<1>4. MustGo[r] = {}
  BY <1>2, MustGoIs, MustGoOf DEF KeptLinks, Executable
<1> QED
  BY <1>3, <1>4

LEMMA OrganisationsRight ==
    ASSUME NEW r \in Rows, Table[r] = "organisations"
    PROVE  MustGo[r] = {}
<1>1. SubjectLinks[r] = {}
  BY RowsAre, NamingIs
<1> QED
  BY <1>1, MustGoIs, MustGoOf DEF Executable

Governance == {"data_processing_authorizations", "consent_records", "privacy_notice_acceptances"}

LEMMA GovernanceRight ==
    ASSUME NEW V, NEW e, e = TRUE, NEW r \in Rows, Table[r] \in Governance, Unchanged(V, r)
    PROVE  /\ r \in GovernanceRows(V) <=> r \in Involved
           /\ r \in GovernanceRows(V) => Rightly(r, V[r], Minimised(V, r, e))
           /\ Table[r] = "consent_records" => Minimised(V, r, e) = V[r]
           /\ MustGo[r] = {}
<1>1. V[r].gone = {} /\ r # Subject /\ r \in RowsOf[Table[r]]
  BY SubjectIs, RowsAre DEF Unchanged, RowsOf, Governance
<1>2. SubjectLinks[r] \subseteq {"subject_user_id"}
  BY RowsAre, NamingIs DEF Governance
<1>3. r \in GovernanceRows(V) <=> r \in Involved
  <2>1. r \in Of(V, Table[r])
    BY <1>1 DEF Of, Unchanged
  <2>2. r \in UNION {Of(V, t) : t \in {"data_processing_authorizations", "consent_records",
                                       "privacy_notice_acceptances"}}
    BY <2>1 DEF Governance
  <2> QED
    BY <1>1, <1>2, <2>2, NamesIs, InvolvedIs DEF GovernanceRows
<1>4. PolicyOf[Table[r]].erase = {}
  BY PoliciesAre DEF Governance, AuthorizationColumns, ConsentColumns, NoticeColumns, Policy
<1>5. MustGo[r] = {}
  BY <1>2, <1>4, MustGoIs, MustGoOf DEF KeptLinks, Governance
<1> DEFINE w == Minimised(V, r, e)
<1>6. w = [gone |-> IF Table[r] = "consent_records" THEN {} ELSE {"source"},
           status |-> V[r].status]
  <2>1. w = GovernanceMinimised(V, r)
    BY DEF Minimised, Governance
  <2>2. V[r] = [gone |-> {}, status |-> V[r].status]
    BY <1>1 DEF Unchanged, Version
  <2> QED
    BY <2>1, <2>2, <1>1, Withouts DEF GovernanceMinimised, Unchanged
<1> HIDE DEF w
<1>7. w.gone \subseteq Columns(Table[r])
  <2>1. Table[r] # "consent_records" => "source" \in PolicyOf[Table[r]].review
    BY PoliciesAre DEF Governance, AuthorizationColumns, NoticeColumns, Policy
  <2> QED
    BY <1>6, <2>1 DEF Columns
<1>8. w \in Version /\ w.status # "absent"
  BY <1>6, <1>7, Versions DEF Unchanged, Version
<1>9. r \in Involved => r \in OwnRows
  BY <1>1, <1>2, OwnIs, InvolvedIs DEF Governance
<1>10. r \in OwnRows => MayLose(r, w)
  BY <1>6 DEF MayLose
<1>11. r \in Involved => Rightly(r, V[r], w)
  BY <1>1, <1>5, <1>7, <1>8, <1>9, <1>10 DEF Rightly, Governance
<1>12. Table[r] = "consent_records" => w = V[r]
  BY <1>6, <1>1 DEF Unchanged, Version
<1> QED
  BY <1>3, <1>5, <1>11, <1>12 DEF w

LEMMA ProfileRight ==
    ASSUME NEW V, NEW e, e = TRUE, Unchanged(V, Subject)
    PROVE  Rightly(Subject, V[Subject], Minimised(V, Subject, e))
<1> DEFINE w == Minimised(V, Subject, e)
           cleared == {"external_auth_id", "email", "email_verified", "first_name", "last_name",
                       "onboarding_completed", "suspended_reason"}
<1>1. V[Subject].gone = {}
  BY SubjectIs DEF Unchanged
<1>2. w = [gone |-> cleared, status |-> V[Subject].status]
  <2>1. w = ProfileAnonymised(V, Subject)
    BY SubjectIs DEF Minimised
  <2> QED
    BY <2>1, <1>1, Withouts DEF ProfileAnonymised, Unchanged
<1>3. SubjectLinks[Subject] \subseteq {"email", "external_auth_id"}
  BY SubjectIs, RowsAre, NamingIs
<1> HIDE DEF w
<1>4. MustGo[Subject] \subseteq w.gone
  <2>1. PolicyOf["users"].erase \subseteq cleared
    BY PoliciesAre, SimplePolicies
  <2> QED
    BY <2>1, <1>2, <1>3, MustGoOf, SubjectIs
<1>5. w.gone \subseteq Columns("users")
  BY <1>2, PoliciesAre, SimplePolicies, ColumnsAre
<1>6. w \in Version /\ w.status # "absent"
  BY <1>2, <1>5, Versions, SubjectIs DEF Unchanged, Version
<1>7. MayLose(Subject, w)
  BY <1>2, SubjectIs DEF MayLose
<1>8. Rightly(Subject, V[Subject], w)
  BY <1>2, <1>4, <1>5, <1>6, <1>7, SubjectIs DEF Rightly
<1> QED
  BY <1>8 DEF w

\* The rows that audit events are about: those found are those that involve the subject.
LEMMA TargetsAre ==
    ASSUME NEW V, NEW x \in Rows, Table[x] \in AuditedTables \ {"organisations"},
           Unchanged(V, Subject), Unchanged(V, x),
           Table[x] = "users" /\ x \in Involved => x = Subject
    PROVE  x \in AuditTargets(V) <=> x \in Involved
<1> DEFINE e == HasEmail(V)
<1>1. e = TRUE
  BY SubjectIs DEF HasEmail, Unchanged
<1> HIDE DEF e
<1>2. AuditTargets(V) = {Subject} \cup InviteRows(V, e) \cup MembershipRows(V)
                          \cup RequestRows(V) \cup ArtifactRows(V) \cup StaffRows(V)
  BY DEF AuditTargets, e
<1>3. /\ x \in InviteRows(V, e) => Table[x] = "invites"
      /\ x \in MembershipRows(V) => Table[x] = "memberships"
      /\ x \in RequestRows(V) => Table[x] = "data_subject_requests"
      /\ x \in ArtifactRows(V) => Table[x] = "export_artifacts"
      /\ x \in StaffRows(V) => Table[x] = "platform_staff"
  BY TablesAre DEF InviteRows, MembershipRows, RequestRows, ArtifactRows, StaffRows, Of, RowsOf
<1>4. CASE Table[x] = "users"
  BY <1>2, <1>3, <1>4, SubjectIs
<1>5. CASE Table[x] = "invites"
  BY <1>1, <1>2, <1>3, <1>5, InvitesRight, SubjectIs
<1>6. CASE Table[x] = "memberships"
  BY <1>2, <1>3, <1>6, MembershipsRight, SubjectIs
<1>7. CASE Table[x] = "data_subject_requests"
  BY <1>1, <1>2, <1>3, <1>7, RequestsRight, SubjectIs
<1>8. CASE Table[x] = "export_artifacts"
  BY <1>1, <1>2, <1>3, <1>8, ArtifactsRight, SubjectIs
<1>9. CASE Table[x] = "platform_staff"
  BY <1>1, <1>2, <1>3, <1>9, StaffRight, SubjectIs
<1> QED
  BY <1>4, <1>5, <1>6, <1>7, <1>8, <1>9 DEF AuditedTables

LEMMA AuditRight ==
    ASSUME NEW V, NEW e, e = TRUE, NEW r \in Rows, Table[r] = "audit_events", Unchanged(V, r),
           Unchanged(V, Subject), Unchanged(V, Link[r].target_id),
           Table[Link[r].target_id] = "users" /\ Link[r].target_id \in Involved =>
               Link[r].target_id = Subject
    PROVE  /\ r \in AuditRows(V) <=> r \in Involved \cup AboutInvolved
           /\ r \in AuditRows(V) => Rightly(r, V[r], Minimised(V, r, e))
           /\ r \notin AuditRows(V) => MustGo[r] \subseteq V[r].gone
<1> DEFINE x == Link[r].target_id
           mine == Targets(V, r, AuditTargets(V))
<1>1. V[r].gone = {} /\ r # Subject /\ r \in RowsOf["audit_events"]
  BY SubjectIs, TablesAre DEF Unchanged, RowsOf
<1>2. SubjectLinks[r] \subseteq {"actor_user_id", "target_id"}
  BY RowsAre, NamingIs
<1>3. "target_id" \in DOMAIN Link[r] /\ x \in Rows /\ Table[x] \in AuditedTables
  BY RecordsAssumption
<1>4. mine <=> r \in AboutInvolved
  <2>1. mine <=> x \in AuditTargets(V)
    BY <1>1 DEF Targets
  <2>2. r \in AboutInvolved <=> x \in Involved /\ Table[x] # "organisations"
    BY DEF AboutInvolved
  <2>3. CASE Table[x] = "organisations"
    <3>1. x \notin AuditTargets(V)
      BY <2>3, SubjectIs, TablesAre
         DEF AuditTargets, InviteRows, MembershipRows, RequestRows, ArtifactRows, StaffRows,
             Of, RowsOf
    <3> QED
      BY <2>1, <2>2, <2>3, <3>1
  <2>4. CASE Table[x] # "organisations"
    BY <2>1, <2>2, <2>4, <1>3, TargetsAre
  <2> QED
    BY <2>3, <2>4
<1>5. "target_id" \in SubjectLinks[r] => r \in AboutInvolved
  <2>1. "target_id" \in SubjectLinks[r] => x = Subject
    BY RowsAre
  <2> QED
    BY <2>1, SubjectIs DEF AboutInvolved
<1>6. r \in AuditRows(V) <=> "actor_user_id" \in SubjectLinks[r] \/ mine
  BY <1>1, NamesIs DEF AuditRows, Of, Unchanged
<1>7. r \in AuditRows(V) <=> r \in Involved \cup AboutInvolved
  BY <1>1, <1>2, <1>4, <1>5, <1>6, InvolvedIs
<1>8. MustGo[r] \subseteq SubjectLinks[r] \cup IF r \in AboutInvolved THEN {"target_id"} ELSE {}
  BY MustGoIs, PoliciesAre, SimplePolicies
<1> DEFINE w == Minimised(V, r, e)
           cleared == (SubjectLinks[r] \cap {"actor_user_id"}) \cup AuditContext
                        \cup IF r \in AboutInvolved THEN {"target_id"} ELSE {}
<1>9. w = [gone |-> cleared, status |-> V[r].status]
  <2>1. w = AuditMinimised(V, r)
    BY DEF Minimised
  <2>2. OwnLinks(V, r, {"actor_user_id"}) = SubjectLinks[r] \cap {"actor_user_id"}
    BY <1>1, NamesIs
  <2>3. w = Without(V[r], cleared)
    BY <2>1, <2>2, <1>4 DEF AuditMinimised
  <2> HIDE DEF w, cleared
  <2>4. w = [gone |-> V[r].gone \cup cleared, status |-> V[r].status]
    BY <2>3, Withouts DEF Unchanged
  <2>5. V[r].gone \cup cleared = cleared
    BY <1>1
  <2> QED
    BY <2>4, <2>5
<1> HIDE DEF w, mine, x
<1>10. w.gone \subseteq {"actor_user_id", "target_id", "reason", "metadata_json", "ip_address",
                         "user_agent"}
  BY <1>9 DEF AuditContext
<1>11. w.gone \subseteq Columns(Table[r])
  BY <1>10, PoliciesAre, SimplePolicies, ColumnsAre
<1>12. w \in Version /\ w.status # "absent"
  BY <1>9, <1>11, Versions DEF Unchanged, Version
<1>13. MustGo[r] \subseteq w.gone
  BY <1>2, <1>5, <1>8, <1>9
<1>14. r \in AuditRows(V) => MayLose(r, w)
  <2>1. CASE "actor_user_id" \in SubjectLinks[r]
    BY <2>1, <1>1, <1>10, OwnIs DEF MayLose
  <2>2. CASE r \in AboutInvolved
    <3>1. w.gone \subseteq MayGo[r]
      BY <2>2, <1>9, MayGoIs
    <3> QED
      BY <3>1, <1>10 DEF MayLose
  <2> QED
    BY <2>1, <2>2, <1>4, <1>6
<1>15. r \in AuditRows(V) => Rightly(r, V[r], w)
  BY <1>1, <1>11, <1>12, <1>13, <1>14 DEF Rightly
<1>16. r \notin AuditRows(V) => MustGo[r] \subseteq V[r].gone
  BY <1>7, <1>8, InvolvedIs
<1> QED
  BY <1>7, <1>15, <1>16 DEF w

\* Which query belongs to which step.
LEMMA LocatedAre ==
    ASSUME NEW V, NEW e, NEW I
    PROVE  /\ Located(V, ProviderOrder[1], e, I) = AuditRows(V)
           /\ Located(V, ProviderOrder[2], e, I) = OutboxRows(V, e, I)
           /\ Located(V, ProviderOrder[3], e, I) = InviteRows(V, e)
           /\ Located(V, ProviderOrder[4], e, I) = MembershipRows(V)
           /\ Located(V, ProviderOrder[5], e, I) = OrganisationRows(V)
           /\ Located(V, ProviderOrder[6], e, I) = StaffRows(V)
           /\ Located(V, ProviderOrder[7], e, I) = ArtifactRows(V)
           /\ Located(V, ProviderOrder[8], e, I) = GovernanceRows(V)
           /\ Located(V, ProviderOrder[9], e, I) = {Subject}
           /\ Located(V, ProviderOrder[10], e, I) = RequestRows(V)
BY OrderIs DEF Located

\* A query returns rows of its table that exist.
LEMMA FoundAre ==
    ASSUME NEW V, NEW e, NEW I
    PROVE  /\ AuditRows(V) \subseteq Of(V, "audit_events")
           /\ OutboxRows(V, e, I) \subseteq Of(V, "outbox_events")
           /\ InviteRows(V, e) \subseteq Of(V, "invites")
           /\ MembershipRows(V) \subseteq Of(V, "memberships")
           /\ OrganisationRows(V) \subseteq Of(V, "organisations")
           /\ StaffRows(V) \subseteq Of(V, "platform_staff")
           /\ ArtifactRows(V) \subseteq Of(V, "export_artifacts")
           /\ GovernanceRows(V) \subseteq UNION {Of(V, t) : t \in Governance}
           /\ RequestRows(V) \subseteq Of(V, "data_subject_requests")
BY DEF AuditRows, OutboxRows, InviteRows, MembershipRows, OrganisationRows, StaffRows,
       ArtifactRows, GovernanceRows, Governance, RequestRows

LEMMA OfIs ==
    ASSUME NEW V, NEW t \in Tables, NEW r
    PROVE  r \in Of(V, t) <=> r \in Rows /\ Table[r] = t /\ V[r].status # "absent"
BY DEF Of, RowsOf

-------------------------------------------------------------------------------
(* The preview counts what the erasure finds.                              *)

LEMMA PreviewAgrees ==
    ASSUME NEW V
    PROVE  /\ InviteRows(V, HasEmail(V)) \subseteq PreviewInvites(V)
           /\ StaffRows(V) \subseteq PreviewStaff(V)
           /\ RequestRows(V) \cup ArtifactRows(V) \subseteq PreviewWorkflow(V)
           /\ MembershipRows(V) \cup GovernanceRows(V) \subseteq PreviewDirect(V)
           /\ AuditRows(V) \subseteq PreviewAudit(V)
<1>1. InviteRows(V, HasEmail(V)) \subseteq PreviewInvites(V)
  BY DEF InviteRows, PreviewInvites, HasEmail
<1>2. StaffRows(V) \subseteq PreviewStaff(V)
  BY DEF StaffRows, PreviewStaff
<1>3. RequestRows(V) \cup ArtifactRows(V) \subseteq PreviewWorkflow(V)
  BY DEF RequestRows, ArtifactRows, PreviewWorkflow
<1>4. MembershipRows(V) \cup GovernanceRows(V) \subseteq PreviewDirect(V)
  <2>1. ASSUME NEW r \in MembershipRows(V) PROVE r \in PreviewDirect(V)
    BY DEF MembershipRows, PreviewDirect, NamesSubject
  <2>2. ASSUME NEW r \in GovernanceRows(V) PROVE r \in PreviewDirect(V)
    BY DEF GovernanceRows, PreviewDirect, NamesSubject
  <2> QED
    BY <2>1, <2>2
<1>5. AuditRows(V) \subseteq PreviewAudit(V)
  <2> DEFINE targets == {Subject} \cup PreviewInvites(V) \cup PreviewWorkflow(V)
                          \cup PreviewStaff(V)
                          \cup {m \in PreviewDirect(V) : Table[m] = "memberships"}
  <2>1. AuditTargets(V) \subseteq targets
    <3>1. MembershipRows(V) \subseteq {m \in PreviewDirect(V) : Table[m] = "memberships"}
      BY <1>4, TablesAre DEF MembershipRows, Of, RowsOf
    <3> QED
      BY <1>1, <1>2, <1>3, <3>1 DEF AuditTargets
  <2>2. PreviewAudit(V) = {a \in Of(V, "audit_events") : \/ Names(V, a, "actor_user_id", Subject)
                                                         \/ Targets(V, a, targets)}
    BY DEF PreviewAudit
  <2> HIDE DEF targets
  <2> QED
    BY <2>1, <2>2 DEF AuditRows, Targets
<1> QED
  BY <1>1, <1>2, <1>3, <1>4, <1>5

-------------------------------------------------------------------------------
(* What a record of the export shows.                                      *)

\* What ArchiveIsFair asks of a record.
FairRecord(r, v, record) ==
    /\ record.shown \cap PolicyOf[Table[r]].secret = {}
    /\ record.shown \cap PolicyOf[Table[r]].identify # {} => r \in OwnRows
    /\ r \in OwnRows =>
         EntryOf[Table[r]].fields
             \ (v.gone \cup ((RequestLinks \cup ArtifactLinks
                                 \cup {"revoked_by_user_id", "created_by_user_id"})
                               \ DOMAIN Link[r]))
           \subseteq record.shown \cup record.redacted

\* An actor's column that is not shown is listed, or empty.
LEMMA RecordIs ==
    ASSUME NEW V, NEW r \in Rows, NEW redacts, NEW omits, NEW actors
    PROVE  LET record == Record(V, r, redacts, omits, actors) IN
           /\ record.shown \subseteq Columns(Table[r]) \ redacts
           /\ Columns(Table[r]) \ (omits \cup V[r].gone \cup (actors \ DOMAIN Link[r]))
                \subseteq record.shown \cup record.redacted
<1>1. ASSUME NEW c \in actors, c \notin V[r].gone, c \in DOMAIN Link[r]
      PROVE  c \in OwnLinks(V, r, actors) \/ Link[r][c] # Subject
  BY <1>1 DEF OwnLinks, Names
<1> QED
  BY <1>1 DEF Record

LEMMA ReferenceIs ==
    ASSUME NEW r \in Rows, NEW shown, NEW omits
    PROVE  LET record == Reference(r, shown, omits) IN
           /\ record.shown = shown
           /\ Columns(Table[r]) \ omits \subseteq record.shown \cup record.redacted
BY DEF Reference

\* What the inventories say of identifiers, secrets and declared fields.
LEMMA ExportPolicies ==
    /\ UserColumns.secret = {} /\ UserEntry.fields \subseteq Columns("users")
    /\ MembershipColumns.secret = {} /\ MembershipColumns.identify = {}
    /\ MembershipEntry.fields \subseteq Columns("memberships")
    /\ OrganisationColumns.secret = {} /\ OrganisationColumns.identify = {}
    /\ OrganisationEntry.fields \subseteq Columns("organisations")
    /\ InviteColumns.secret = {"token_hash"} /\ InviteColumns.identify = {"email"}
    /\ InviteEntry.fields \subseteq Columns("invites")
    /\ OutboxColumns.secret = {} /\ OutboxColumns.identify = {}
    /\ OutboxEntry.fields \subseteq Columns("outbox_events")
    /\ AuditColumns.secret = {} /\ AuditColumns.identify = {"ip_address", "user_agent"}
    /\ AuditEntry.fields \subseteq Columns("audit_events")
    /\ StaffColumns.secret = {} /\ StaffColumns.identify = {}
    /\ StaffEntry.fields \subseteq Columns("platform_staff")
    /\ RequestEntry.fields \subseteq
         Columns("data_subject_requests") \ {"export_artifact_id", "erasure_job_id"}
    /\ ArtifactEntry.fields \subseteq Columns("export_artifacts")
<1>1. UserColumns.secret = {} /\ UserEntry.fields \subseteq Columns("users")
  BY PoliciesAre, ColumnsAre DEF UserColumns, Policy, UserEntry, Entry
<1>2. /\ MembershipColumns.secret = {} /\ MembershipColumns.identify = {}
      /\ MembershipEntry.fields \subseteq Columns("memberships")
  BY PoliciesAre, ColumnsAre DEF MembershipColumns, Policy, MembershipEntry, Entry
<1>3. /\ OrganisationColumns.secret = {} /\ OrganisationColumns.identify = {}
      /\ OrganisationEntry.fields \subseteq Columns("organisations")
  BY PoliciesAre, ColumnsAre DEF OrganisationColumns, Policy, OrganisationEntry, Entry
<1>4. /\ InviteColumns.secret = {"token_hash"} /\ InviteColumns.identify = {"email"}
      /\ InviteEntry.fields \subseteq Columns("invites")
  BY PoliciesAre, ColumnsAre DEF InviteColumns, Policy, InviteEntry, Entry
<1>5. /\ OutboxColumns.secret = {} /\ OutboxColumns.identify = {}
      /\ OutboxEntry.fields \subseteq Columns("outbox_events")
  BY PoliciesAre, ColumnsAre DEF OutboxColumns, Policy, OutboxEntry, Entry
<1>6. /\ AuditColumns.secret = {} /\ AuditColumns.identify = {"ip_address", "user_agent"}
      /\ AuditEntry.fields \subseteq Columns("audit_events")
  BY PoliciesAre, ColumnsAre DEF AuditColumns, Policy, AuditEntry, Entry
<1>7. /\ StaffColumns.secret = {} /\ StaffColumns.identify = {}
      /\ StaffEntry.fields \subseteq Columns("platform_staff")
  BY PoliciesAre, ColumnsAre DEF StaffColumns, Policy, StaffEntry, Entry
<1>8. RequestEntry.fields \subseteq
        Columns("data_subject_requests") \ {"export_artifact_id", "erasure_job_id"}
  BY DEF RequestEntry, RequestFields, Entry
<1>9. ArtifactEntry.fields \subseteq Columns("export_artifacts")
  <2>1. ArtifactLinks \cup ArtifactColumns.erase \cup ArtifactColumns.review
          \cup {"checksum_sha256", "failure_reason_code"} \subseteq Columns("export_artifacts")
    BY PoliciesAre, ArtifactPolicy, ColumnsAre
       DEF ArtifactLinks, ArtifactObject, ArtifactGeneration, Policy
  <2> QED
    BY <2>1 DEF ArtifactEntry, Entry
<1> QED
  BY <1>1, <1>2, <1>3, <1>4, <1>5, <1>6, <1>7, <1>8, <1>9

LEMMA GovernancePolicies ==
    ASSUME NEW t \in Governance
    PROVE  /\ PolicyOf[t].secret = {} /\ PolicyOf[t].identify = {}
           /\ EntryOf[t].fields \subseteq Columns(t)
<1>1. CASE t = "data_processing_authorizations"
  BY <1>1, PoliciesAre, EntriesAre DEF AuthorizationColumns, Policy, AuthorizationEntry, Entry
<1>2. CASE t = "consent_records"
  BY <1>2, PoliciesAre, EntriesAre DEF ConsentColumns, Policy, ConsentEntry, Entry
<1>3. CASE t = "privacy_notice_acceptances"
  BY <1>3, PoliciesAre, EntriesAre DEF NoticeColumns, Policy, NoticeEntry, Entry
<1> QED
  BY <1>1, <1>2, <1>3 DEF Governance

\* A record that shows or lists every column of a row is fair if it shows no secret, and
\* identifying columns only of the subject's rows.
LEMMA FullRecords ==
    ASSUME NEW r \in Rows, NEW v, NEW record, NEW omits, NEW actors,
           Columns(Table[r]) \ (omits \cup v.gone \cup (actors \ DOMAIN Link[r]))
               \subseteq record.shown \cup record.redacted,
           actors \subseteq RequestLinks \cup ArtifactLinks
                              \cup {"revoked_by_user_id", "created_by_user_id"},
           r \in OwnRows => EntryOf[Table[r]].fields \subseteq Columns(Table[r]) \ omits,
           record.shown \cap PolicyOf[Table[r]].secret = {},
           record.shown \cap PolicyOf[Table[r]].identify # {} => r \in OwnRows
    PROVE  FairRecord(r, v, record)
BY DEF FairRecord

\* The providers that show every row alike.
LEMMA PlainRecordsFair ==
    ASSUME NEW V, NEW r \in Rows,
           Table[r] \in {"users", "memberships", "organisations", "outbox_events"} \cup Governance,
           Table[r] = "users" => r = Subject
    PROVE  FairRecord(r, V[r], RecordOf(V, r))
<1> DEFINE record == RecordOf(V, r)
<1>1. PICK redacts : record = Record(V, r, redacts, {}, {})
  <2>1. CASE Table[r] = "users"
    BY <2>1 DEF RecordOf, UserRecord
  <2>2. CASE Table[r] = "memberships"
    BY <2>2 DEF RecordOf, MembershipRecord
  <2>3. CASE Table[r] = "organisations"
    BY <2>3 DEF RecordOf, OrganisationRecord
  <2>4. CASE Table[r] = "outbox_events"
    BY <2>4 DEF RecordOf, OutboxRecord
  <2>5. CASE Table[r] \in Governance
    BY <2>5 DEF RecordOf, GovernanceRecord, Governance
  <2> QED
    BY <2>1, <2>2, <2>3, <2>4, <2>5
<1> HIDE DEF record
<1>2. Columns(Table[r]) \ ({} \cup V[r].gone \cup ({} \ DOMAIN Link[r]))
        \subseteq record.shown \cup record.redacted
  BY <1>1, RecordIs
<1>3. PolicyOf[Table[r]].secret = {} /\ EntryOf[Table[r]].fields \subseteq Columns(Table[r])
  BY PoliciesAre, EntriesAre, ExportPolicies, GovernancePolicies
<1>4. PolicyOf[Table[r]].identify # {} => r \in OwnRows
  BY PoliciesAre, ExportPolicies, GovernancePolicies, SubjectIs
<1>5. FairRecord(r, V[r], record)
  BY <1>2, <1>3, <1>4, FullRecords
<1> QED
  BY <1>5 DEF record

LEMMA InviteRecordsFair ==
    ASSUME NEW V, NEW r \in Rows, Table[r] = "invites"
    PROVE  FairRecord(r, V[r], RecordOf(V, r))
<1> DEFINE record == RecordOf(V, r)
           invitee == HasEmail(V) /\ Names(V, r, "email", Subject)
           actors == {"revoked_by_user_id"}
           shown == Stamps \cup {"id", "revoked_by_user_id", "status", "revoked_at"}
<1>1. record = IF invitee THEN Record(V, r, {"token_hash"}, {}, actors)
               ELSE Reference(r, shown, {})
  BY DEF RecordOf, InviteRecord
<1>2. invitee => r \in OwnRows
  BY RowsAre, OwnIs, SubjectIs DEF Names
<1>3. shown \cap {"email", "token_hash"} = {}
  BY DEF Stamps
<1>4. /\ PolicyOf[Table[r]].secret = {"token_hash"} /\ PolicyOf[Table[r]].identify = {"email"}
      /\ EntryOf[Table[r]].fields \subseteq Columns(Table[r])
  BY PoliciesAre, EntriesAre, ExportPolicies
<1> HIDE DEF record, invitee, shown, actors
<1>5. CASE invitee
  <2>1. /\ record.shown \cap {"token_hash"} = {}
        /\ Columns(Table[r]) \ ({} \cup V[r].gone \cup (actors \ DOMAIN Link[r]))
             \subseteq record.shown \cup record.redacted
    BY <1>1, <1>5, RecordIs
  <2>2. FairRecord(r, V[r], record)
    BY <2>1, <1>2, <1>5, <1>4, FullRecords DEF actors
  <2> QED
    BY <2>2 DEF record
<1>6. CASE ~invitee
  <2>1. record.shown = shown /\ Columns(Table[r]) \ {} \subseteq record.shown \cup record.redacted
    BY <1>1, <1>6, ReferenceIs
  <2>2. record.shown \cap {"email"} = {} /\ record.shown \cap {"token_hash"} = {}
    BY <2>1, <1>3
  <2>3. FairRecord(r, V[r], record)
    BY <2>1, <2>2, <1>4, FullRecords DEF actors
  <2> QED
    BY <2>3 DEF record
<1> QED
  BY <1>5, <1>6

LEMMA AuditRecordsFair ==
    ASSUME NEW V, NEW r \in Rows, Table[r] = "audit_events"
    PROVE  FairRecord(r, V[r], RecordOf(V, r))
<1> DEFINE record == RecordOf(V, r)
           mine == Names(V, r, "actor_user_id", Subject)
           redacts == {"reason", "legal_hold_until"}
                        \cup IF mine THEN {} ELSE {"actor_user_id", "ip_address", "user_agent"}
<1>1. record = Record(V, r, redacts, {}, {})
  BY DEF RecordOf, AuditRecord
<1>2. mine => r \in OwnRows
  BY RowsAre, OwnIs, SubjectIs DEF Names
<1> HIDE DEF record
<1>3. /\ record.shown \subseteq Columns(Table[r]) \ redacts
      /\ Columns(Table[r]) \ ({} \cup V[r].gone \cup ({} \ DOMAIN Link[r]))
           \subseteq record.shown \cup record.redacted
  <2> HIDE DEF redacts
  <2> QED
    BY <1>1, RecordIs
<1>4. record.shown \cap {"ip_address", "user_agent"} # {} => r \in OwnRows
  BY <1>2, <1>3
<1>5. FairRecord(r, V[r], record)
  BY <1>3, <1>4, FullRecords, PoliciesAre, EntriesAre, ExportPolicies
<1> QED
  BY <1>5 DEF record

LEMMA StaffRecordsFair ==
    ASSUME NEW V, NEW r \in Rows, Table[r] = "platform_staff"
    PROVE  FairRecord(r, V[r], RecordOf(V, r))
<1> DEFINE record == RecordOf(V, r)
           mine == Names(V, r, "user_id", Subject)
           shown == Stamps \cup {"id", "created_by_user_id"}
<1>1. record = IF mine THEN Record(V, r, {"suspended_reason"}, {}, {"created_by_user_id"})
               ELSE Reference(r, shown, {})
  BY DEF RecordOf, StaffRecord
<1>2. /\ PolicyOf[Table[r]].secret = {} /\ PolicyOf[Table[r]].identify = {}
      /\ EntryOf[Table[r]].fields \subseteq Columns(Table[r])
  BY PoliciesAre, EntriesAre, ExportPolicies
<1> DEFINE actors == {"created_by_user_id"}
<1> HIDE DEF record, mine, shown, actors
<1>3. Columns(Table[r]) \ ({} \cup V[r].gone \cup (actors \ DOMAIN Link[r]))
        \subseteq record.shown \cup record.redacted
  <2>1. CASE mine
    BY <1>1, <2>1, RecordIs DEF actors
  <2>2. CASE ~mine
    BY <1>1, <2>2, ReferenceIs
  <2> QED
    BY <2>1, <2>2
<1>4. FairRecord(r, V[r], record)
  BY <1>2, <1>3, FullRecords DEF actors
<1> QED
  BY <1>4 DEF record

LEMMA RequestRecordsFair ==
    ASSUME NEW V, NEW r \in Rows, Table[r] = "data_subject_requests", r \in RequestRows(V),
           V[r].gone = {} \/ SubjectLinks[r] \subseteq V[r].gone
    PROVE  FairRecord(r, V[r], RecordOf(V, r))
<1> DEFINE record == RecordOf(V, r)
           links == {"export_artifact_id", "erasure_job_id"}
           mine == NamesSubject(V, r, {"subject_user_id", "requester_user_id"})
           review == {"reviewer_user_id", "representative_verified_by_user_id"}
           shown == Stamps \cup OwnLinks(V, r, review)
                        \cup {"id", "status", "execution_status", "reviewed_at", "decided_at",
                              "fulfilled_at", "cancelled_at"}
           omits == links \cup {"execution_started_at", "execution_completed_at",
                                "execution_failed_at"}
           hidden == RequestColumns.hidden
<1>1. record = IF mine THEN Record(V, r, hidden, links, RequestLinks)
               ELSE Reference(r, shown, omits)
  BY DEF RecordOf, RequestRecord
<1>2. V[r].gone = {}
  <2>1. PICK c \in RequestLinks : Names(V, r, c, Subject)
    BY DEF RequestRows, NamesSubject
  <2>2. c \in SubjectLinks[r] /\ c \notin V[r].gone
    BY <2>1, RowsAre DEF Names
  <2> QED
    BY <2>2
<1>3. mine <=> r \in OwnRows
  BY <1>2, NamesIs, OwnIs, SubjectIs
<1>4. shown \cap PolicyOf[Table[r]].secret = {}
  <2>1. OwnLinks(V, r, review) \subseteq review
    BY DEF OwnLinks
  <2> QED
    BY <2>1, PoliciesAre, RequestPolicy DEF Stamps
<1>5. PolicyOf[Table[r]].secret \subseteq hidden /\ PolicyOf[Table[r]].identify = {}
  BY PoliciesAre, RequestPolicy
<1>6. EntryOf[Table[r]].fields \subseteq Columns(Table[r]) \ links
  BY EntriesAre, ExportPolicies
<1> HIDE DEF record, mine, shown, omits, hidden, links
<1>7. CASE mine
  <2>1. /\ record.shown \subseteq Columns(Table[r]) \ hidden
        /\ Columns(Table[r]) \ (links \cup V[r].gone \cup (RequestLinks \ DOMAIN Link[r]))
             \subseteq record.shown \cup record.redacted
    BY <1>1, <1>7, RecordIs
  <2>2. FairRecord(r, V[r], record)
    BY <2>1, <1>5, <1>6, FullRecords
  <2> QED
    BY <2>2 DEF record
<1>8. CASE ~mine
  <2>1. record.shown = shown
    BY <1>1, <1>8, ReferenceIs
  <2>2. FairRecord(r, V[r], record)
    BY <2>1, <1>3, <1>4, <1>5, <1>8 DEF FairRecord
  <2> QED
    BY <2>2 DEF record
<1> QED
  BY <1>7, <1>8

LEMMA ArtifactRecordsFair ==
    ASSUME NEW V, NEW r \in Rows, Table[r] = "export_artifacts", r \in ArtifactRows(V),
           V[r].gone = {} \/ SubjectLinks[r] \subseteq V[r].gone
    PROVE  FairRecord(r, V[r], RecordOf(V, r))
<1> DEFINE record == RecordOf(V, r)
           mine == OwnArtifact(V, r)
           withheld == ArtifactColumns.hidden \ {"storage_backend"}
           actors == {"requested_by_user_id", "generated_by_user_id"}
           shown == Columns("export_artifacts")
                        \ (withheld \cup {"data_subject_request_id", "subject_user_id",
                                          "requester_user_id", "filename", "content_type",
                                          "size_bytes", "checksum_sha256", "schema_version"}
                             \cup (actors \ OwnLinks(V, r, actors)))
<1>1. record = IF mine THEN Record(V, r, withheld, {}, actors) ELSE Reference(r, shown, actors)
  BY DEF RecordOf, ArtifactRecord
<1>2. V[r].gone = {}
  <2>1. PICK c \in ArtifactLinks : Names(V, r, c, Subject)
    BY DEF ArtifactRows, NamesSubject
  <2>2. c \in SubjectLinks[r] /\ c \notin V[r].gone
    BY <2>1, RowsAre DEF Names
  <2> QED
    BY <2>2
<1>3. mine <=> r \in OwnRows
  BY <1>2, NamesIs, OwnIs, SubjectIs DEF OwnArtifact
<1>4. PolicyOf[Table[r]].secret \subseteq withheld /\ PolicyOf[Table[r]].identify = {}
  BY PoliciesAre, ArtifactPolicy
<1>5. shown \cap withheld = {} /\ actors \subseteq ArtifactLinks
  BY DEF ArtifactLinks
<1>6. EntryOf[Table[r]].fields \subseteq Columns(Table[r]) \ {}
  BY EntriesAre, ExportPolicies
<1> HIDE DEF record, mine, shown, withheld, actors
<1>7. CASE mine
  <2>1. /\ record.shown \subseteq Columns(Table[r]) \ withheld
        /\ Columns(Table[r]) \ ({} \cup V[r].gone \cup (actors \ DOMAIN Link[r]))
             \subseteq record.shown \cup record.redacted
    BY <1>1, <1>7, RecordIs
  <2>2. FairRecord(r, V[r], record)
    BY <2>1, <1>4, <1>5, <1>6, FullRecords
  <2> QED
    BY <2>2 DEF record
<1>8. CASE ~mine
  <2>1. record.shown = shown
    BY <1>1, <1>8, ReferenceIs
  <2>2. FairRecord(r, V[r], record)
    BY <2>1, <1>3, <1>4, <1>5, <1>8 DEF FairRecord
  <2> QED
    BY <2>2 DEF record
<1> QED
  BY <1>7, <1>8

LEMMA ExportedAre ==
    ASSUME NEW V, V[Subject].status # "absent", NEW t \in Tables, NEW r \in Exported(V, t)
    PROVE  /\ r \in Rows /\ Table[r] = t
           /\ t = "users" => r = Subject
           /\ t = "data_subject_requests" => r \in RequestRows(V)
           /\ t = "export_artifacts" => r \in ArtifactRows(V)
<1>1. CASE t = "users"
  BY <1>1, SubjectIs DEF Exported
<1>2. CASE t \in {"memberships", "organisations", "invites", "outbox_events", "audit_events",
                  "platform_staff", "data_subject_requests", "export_artifacts"}
  <2>1. r \in Of(V, t)
    BY <1>2, FoundAre DEF Exported, ExportedOutbox, ExportedAudit
  <2> QED
    BY <1>2, <2>1, OfIs DEF Exported
<1>3. CASE t \in Governance
  <2>1. r \in GovernanceRows(V) /\ Table[r] = t
    BY <1>3 DEF Exported, Governance
  <2>2. r \in Rows
    BY <2>1 DEF GovernanceRows, Of, RowsOf, Tables, PolicyOf
  <2> QED
    BY <1>3, <2>1, <2>2 DEF Governance
<1> QED
  BY <1>1, <1>2, <1>3, TablesAre DEF Governance

-------------------------------------------------------------------------------
(* The state of a running erasure.                                         *)

\* The types of what the erasure and the rows share, and of the rest.
RowTypes ==
    /\ row \in [Rows -> Version]
    /\ draft \in [DOMAIN draft -> Version] /\ DOMAIN draft \subseteq Present
    /\ \A r \in Rows : /\ View[r].gone \subseteq Columns(Table[r])
                       /\ row[r].status = "absent" => row[r].gone = {}
    /\ era \in [step : 0 .. Len(ProviderOrder) + 1, email : BOOLEAN, invites : SUBSET Rows]
    /\ draft = Unlocked <=> era.step = 0
    /\ era.step = 0 => era = NoErasure
    /\ outcome \in {"not_started", "failed", "ready"}
    /\ toDelete \subseteq Of(row, "export_artifacts") /\ seen \subseteq Present
OtherTypes ==
    /\ objects \subseteq Of(row, "export_artifacts")
    /\ job \in [pc : {"away", "idle", "holding", "mailed"}, event : Rows \cup {NoRow}]
    /\ arch \in [pc : {"away", "idle", "writing"}, artifact : Rows \cup {NoRow}]
    /\ login \in [DOMAIN login -> LoginType]
    /\ released \cup lateMails \subseteq Rows /\ restored \subseteq Profile

LEMMA TypeParts == ErasureTypeOK <=> RowTypes /\ OtherTypes
BY DEF ErasureTypeOK, RowTypes, OtherTypes

LEMMA ViewIs ==
    ASSUME NEW r \in Rows
    PROVE  View[r] = IF r \in DOMAIN draft THEN draft[r] ELSE row[r]
BY DEF View, Free

LEMMA OthersDoNotName ==
    ASSUME NEW u \in Rows, Table[u] = "users", u # Subject, u # NewAccount
    PROVE  SubjectLinks[u] = {} /\ MustGo[u] = {} /\ u \notin Involved
<1>1. SubjectLinks[u] = {}
  BY ErasureAssumption, RowsAre
<1>2. u \notin OwnRows /\ u \notin Involved
  BY <1>1, OwnIs, InvolvedIs
<1> QED
  BY <1>1, <1>2, MustGoOf

\* A row whose provider has not run yet is as it was committed, and complete.
LEMMA Waiting ==
    ASSUME ErasureTypeOK, Intact, Running, era.step # 0, NEW r \in Rows, Turn[Table[r]] >= era.step
    PROVE  /\ View[r] = row[r]
           /\ row[r].status # "absent" => Unchanged(View, r) /\ Unchanged(row, r)
<1>1. View[r] = row[r]
  BY ViewIs DEF Running, LockedRow
<1>2. row[r] \in Version /\ outcome # "ready"
  BY DEF ErasureTypeOK, Running
<1> QED
  BY <1>1, <1>2 DEF Unchanged, Intact

LEMMA Committed ==
    ASSUME ErasureTypeOK, Intact, outcome # "ready", NEW r \in Rows, row[r].status # "absent"
    PROVE  Unchanged(row, r)
BY DEF ErasureTypeOK, Intact, Unchanged

\* What the next provider finds, R, and what it makes of that.
Provided(R) ==
    /\ \A r \in R :
         /\ r \in Rows /\ Turn[Table[r]] = era.step /\ View[r] = row[r]
         /\ row[r].status \notin {"absent", "processing"}
         /\ Table[r] = "users" => r = Subject
         /\ Table[r] \notin {"memberships", "organisations"} =>
              /\ Rightly(r, row[r], Minimised(View, r, era.email))
              /\ Minimised(View, r, era.email) # row[r] => Chosen(r)
    /\ \A r \in Rows : row[r].status # "absent" /\ Turn[Table[r]] = era.step
                       /\ (r \in R => Table[r] \in {"memberships", "organisations"}) =>
         /\ MustGo[r] \subseteq row[r].gone
         /\ Table[r] = "outbox_events" /\ r \in OwnRows => row[r].status = "processed"
         /\ Table[r] = "export_artifacts" => r \notin OwnRows
         /\ r # Subject

LEMMA ProviderRight ==
    ASSUME ErasureTypeOK, Intact, TargetsExist, Running, era.step \in 1 .. 10,
           ~Refuses(View, Located(View, Provider, era.email, era.invites))
    PROVE  Provided(Located(View, Provider, era.email, era.invites))
<1> DEFINE R == Located(View, Provider, era.email, era.invites)
           e == era.email
           I == era.invites
<1>1. e = TRUE /\ outcome # "ready" /\ \A i \in I : i \in Involved
  BY DEF ErasureTypeOK, Running
<1>2. era.step # 0
  OBVIOUS
<1>3. \A r \in Rows : /\ Table[r] \in Tables
                      /\ Turn[Table[r]] = era.step =>
                           /\ View[r] = row[r]
                           /\ row[r].status # "absent" => Unchanged(View, r)
  <2> SUFFICES ASSUME NEW r \in Rows
               PROVE  /\ Table[r] \in Tables
                      /\ Turn[Table[r]] = era.step =>
                           /\ View[r] = row[r]
                           /\ row[r].status # "absent" => Unchanged(View, r)
    OBVIOUS
  <2>1. Table[r] \in Tables
    BY RowsAre
  <2> QED
    BY <1>2, <2>1, Waiting
<1>4. \A r \in R : View[r].status \notin {"held", "processing"}
  BY DEF Refuses
<1>5. R = Located(View, ProviderOrder[era.step], e, I)
  BY DEF Provider
<1>6. Unchanged(View, Subject) \/ era.step > 9
  BY <1>2, Waiting, SubjectIs, TurnsAre DEF TargetsExist
<1> HIDE DEF R, e, I
<1>7. ASSUME NEW t \in Tables, Turn[t] = era.step, R \subseteq Of(View, t)
      PROVE  \A r \in R : /\ r \in Rows /\ Table[r] = t /\ Turn[Table[r]] = era.step
                          /\ View[r] = row[r] /\ Unchanged(View, r)
                          /\ row[r].status \notin {"absent", "held", "processing"}
  BY <1>3, <1>4, <1>7, OfIs
<1>8. Executable = {"users", "invites", "outbox_events", "audit_events", "platform_staff",
                    "data_subject_requests", "export_artifacts",
                    "data_processing_authorizations", "privacy_notice_acceptances"}
  BY TablesAre DEF Executable
<1>9. \A r \in Rows : Table[r] \in Executable \ {"outbox_events"} /\ r \in Involved \cup AboutInvolved
        => Chosen(r)
  BY DEF Chosen
<1>10. CASE era.step = 1
  <2>1. R = AuditRows(View)
    BY <1>5, <1>10, LocatedAre
  <2>2. ASSUME NEW r \in Rows, Table[r] = "audit_events", row[r].status # "absent"
        PROVE  /\ r \in R <=> r \in Involved \cup AboutInvolved
               /\ r \in R => Rightly(r, row[r], Minimised(View, r, e))
               /\ r \notin R => MustGo[r] \subseteq row[r].gone
               /\ r # Subject
    <3> DEFINE x == Link[r].target_id
    <3>1. x \in Rows /\ row[x].status # "absent" /\ Turn[Table[x]] >= 1 /\ Turn[Table[r]] = 1
      BY <2>2, RecordsAssumption, TurnsAre DEF TargetsExist, AuditedTables
    <3>2. Unchanged(View, r) /\ Unchanged(View, x) /\ Unchanged(View, Subject) /\ View[r] = row[r]
      BY <1>2, <1>6, <1>10, <2>2, <3>1, Waiting
    <3>3. Table[x] = "users" /\ x \in Involved => x = Subject
      <4>1. x # NewAccount
        BY <1>1, <3>1 DEF Intact
      <4> QED
        BY <3>1, <4>1, OthersDoNotName
    <3> HIDE DEF x
    <3>4. /\ r \in AuditRows(View) <=> r \in Involved \cup AboutInvolved
          /\ r \in AuditRows(View) => Rightly(r, View[r], Minimised(View, r, e))
          /\ r \notin AuditRows(View) => MustGo[r] \subseteq View[r].gone
      BY <1>1, <2>2, <3>2, <3>3, AuditRight DEF x
    <3> QED
      BY <2>1, <2>2, <3>2, <3>4, SubjectIs
  <2>3. \A r \in R : /\ r \in Rows /\ Table[r] = "audit_events" /\ Turn[Table[r]] = era.step
                     /\ View[r] = row[r] /\ row[r].status \notin {"absent", "held", "processing"}
    BY <1>7, <1>10, <2>1, FoundAre, TurnsAre, TablesAre
  <2>4. \A r \in Rows : Turn[Table[r]] = era.step => Table[r] = "audit_events"
    BY <1>3, <1>10, TurnsAre, TablesAre
  <2> QED
    BY <1>8, <1>9, <2>2, <2>3, <2>4 DEF Provided, R, e
<1>11. CASE era.step = 2
  <2>1. R = OutboxRows(View, e, I)
    BY <1>5, <1>11, LocatedAre
  <2>2. \A r \in R : /\ r \in Rows /\ Table[r] = "outbox_events" /\ Turn[Table[r]] = era.step
                     /\ View[r] = row[r] /\ row[r].status \notin {"absent", "held", "processing"}
    BY <1>7, <1>11, <2>1, FoundAre, TurnsAre, TablesAre
  <2>3. \A r \in Rows : Turn[Table[r]] = era.step => Table[r] = "outbox_events"
    BY <1>3, <1>11, TurnsAre, TablesAre
  <2>4. ASSUME NEW r \in R PROVE Rightly(r, row[r], Minimised(View, r, e)) /\ Chosen(r)
    <3>1. Unchanged(View, r)
      BY <1>3, <2>2
    <3>2. /\ Link[r].aggregate_id \in I \/ Names(View, r, "payload_json", Subject)
          /\ Rightly(r, View[r], Minimised(View, r, e))
      BY <1>1, <2>1, <2>2, <3>1, OutboxRight
    <3> QED
      BY <2>2, <3>2 DEF Chosen, Names, I
  <2>5. ASSUME NEW r \in Rows, Table[r] = "outbox_events", row[r].status # "absent", r \notin R
        PROVE  /\ MustGo[r] \subseteq row[r].gone /\ r # Subject
               /\ r \in OwnRows => row[r].status = "processed"
    <3>1. Unchanged(View, r) /\ View[r] = row[r]
      BY <1>3, <1>11, <2>5, TurnsAre
    <3> QED
      BY <1>1, <2>1, <2>5, <3>1, OutboxMissed, SubjectIs
  <2> QED
    BY <2>2, <2>3, <2>4, <2>5 DEF Provided, R, e
<1>12. CASE era.step = 3
  <2>1. R = InviteRows(View, e)
    BY <1>5, <1>12, LocatedAre
  <2>2. \A r \in R : /\ r \in Rows /\ Table[r] = "invites" /\ Turn[Table[r]] = era.step
                     /\ View[r] = row[r] /\ row[r].status \notin {"absent", "held", "processing"}
    <3>1. R \subseteq Of(View, "invites")
      BY <2>1 DEF InviteRows
    <3> QED
      BY <1>7, <1>12, <3>1, TurnsAre, TablesAre
  <2>3. \A r \in Rows : Turn[Table[r]] = era.step => Table[r] = "invites"
    BY <1>3, <1>12, TurnsAre, TablesAre
  <2>4. ASSUME NEW r \in Rows, Table[r] = "invites", row[r].status # "absent"
        PROVE  /\ r \in R <=> r \in Involved
               /\ Rightly(r, row[r], Minimised(View, r, e))
               /\ r \notin Involved => MustGo[r] \subseteq row[r].gone
               /\ r # Subject
    <3>1. Unchanged(View, r) /\ View[r] = row[r]
      BY <1>3, <1>12, <2>4, TurnsAre
    <3>2. r \notin Involved => MustGo[r] = {}
      BY <2>4, MustGoOf, InvolvedIs, OwnIsInvolved
    <3> QED
      BY <1>1, <2>1, <2>4, <3>1, <3>2, InvitesRight, SubjectIs
  <2> QED
    BY <1>8, <1>9, <2>2, <2>3, <2>4 DEF Provided, R, e
<1>13. CASE era.step = 4
  <2>1. R = MembershipRows(View)
    BY <1>5, <1>13, LocatedAre
  <2>2. \A r \in R : /\ r \in Rows /\ Table[r] = "memberships" /\ Turn[Table[r]] = era.step
                     /\ View[r] = row[r] /\ row[r].status \notin {"absent", "held", "processing"}
    BY <1>7, <1>13, <2>1, FoundAre, TurnsAre, TablesAre
  <2>3. \A r \in Rows : Turn[Table[r]] = era.step => Table[r] = "memberships"
    BY <1>3, <1>13, TurnsAre, TablesAre
  <2>4. \A r \in Rows : Table[r] = "memberships" /\ row[r].status # "absent" =>
          MustGo[r] = {} /\ r # Subject
    BY <1>3, <1>13, MembershipsRight, TurnsAre, SubjectIs
  <2> QED
    BY <2>2, <2>3, <2>4 DEF Provided, R, e
<1>14. CASE era.step = 5
  <2>1. R = OrganisationRows(View)
    BY <1>5, <1>14, LocatedAre
  <2>2. \A r \in R : /\ r \in Rows /\ Table[r] = "organisations" /\ Turn[Table[r]] = era.step
                     /\ View[r] = row[r] /\ row[r].status \notin {"absent", "held", "processing"}
    BY <1>7, <1>14, <2>1, FoundAre, TurnsAre, TablesAre
  <2>3. \A r \in Rows : Turn[Table[r]] = era.step => Table[r] = "organisations"
    BY <1>3, <1>14, TurnsAre, TablesAre
  <2>4. \A r \in Rows : Table[r] = "organisations" => MustGo[r] = {} /\ r # Subject
    BY OrganisationsRight, SubjectIs
  <2> QED
    BY <2>2, <2>3, <2>4 DEF Provided, R, e
<1>15. CASE era.step = 6
  <2>1. R = StaffRows(View)
    BY <1>5, <1>15, LocatedAre
  <2>2. \A r \in R : /\ r \in Rows /\ Table[r] = "platform_staff" /\ Turn[Table[r]] = era.step
                     /\ View[r] = row[r] /\ row[r].status \notin {"absent", "held", "processing"}
    BY <1>7, <1>15, <2>1, FoundAre, TurnsAre, TablesAre
  <2>3. \A r \in Rows : Turn[Table[r]] = era.step => Table[r] = "platform_staff"
    BY <1>3, <1>15, TurnsAre, TablesAre
  <2>4. ASSUME NEW r \in Rows, Table[r] = "platform_staff", row[r].status # "absent"
        PROVE  /\ r \in R <=> r \in Involved
               /\ r \in R => Rightly(r, row[r], Minimised(View, r, e))
               /\ r \notin R => MustGo[r] \subseteq row[r].gone
               /\ r # Subject
    <3>1. Unchanged(View, r) /\ View[r] = row[r]
      BY <1>3, <1>15, <2>4, TurnsAre
    <3> QED
      BY <1>1, <2>1, <2>4, <3>1, StaffRight, SubjectIs
  <2> QED
    BY <1>8, <1>9, <2>2, <2>3, <2>4 DEF Provided, R, e
<1>16. CASE era.step = 7
  <2>1. R = ArtifactRows(View)
    BY <1>5, <1>16, LocatedAre
  <2>2. \A r \in R : /\ r \in Rows /\ Table[r] = "export_artifacts" /\ Turn[Table[r]] = era.step
                     /\ View[r] = row[r] /\ row[r].status \notin {"absent", "held", "processing"}
    BY <1>7, <1>16, <2>1, FoundAre, TurnsAre, TablesAre
  <2>3. \A r \in Rows : Turn[Table[r]] = era.step => Table[r] = "export_artifacts"
    BY <1>3, <1>16, TurnsAre, TablesAre
  <2>4. ASSUME NEW r \in Rows, Table[r] = "export_artifacts", row[r].status # "absent"
        PROVE  /\ r \in R <=> r \in Involved
               /\ r \in R => Rightly(r, row[r], Minimised(View, r, e))
               /\ r \notin R => MustGo[r] \subseteq row[r].gone /\ r \notin OwnRows
               /\ r # Subject
    <3>1. Unchanged(View, r) /\ View[r] = row[r]
      BY <1>3, <1>16, <2>4, TurnsAre
    <3>2. r \in R => View[r].status # "processing"
      BY <1>4
    <3> QED
      BY <1>1, <2>1, <2>4, <3>1, <3>2, ArtifactsRight, SubjectIs, OwnIsInvolved
  <2> QED
    BY <1>8, <1>9, <2>2, <2>3, <2>4 DEF Provided, R, e
<1>17. CASE era.step = 8
  <2>1. R = GovernanceRows(View)
    BY <1>5, <1>17, LocatedAre
  <2>2. \A r \in R : /\ r \in Rows /\ Table[r] \in Governance /\ Turn[Table[r]] = era.step
                     /\ View[r] = row[r] /\ row[r].status \notin {"absent", "held", "processing"}
    <3> SUFFICES ASSUME NEW r \in R
                 PROVE  /\ r \in Rows /\ Table[r] \in Governance /\ Turn[Table[r]] = era.step
                        /\ View[r] = row[r]
                        /\ row[r].status \notin {"absent", "held", "processing"}
      OBVIOUS
    <3>1. PICK t \in Governance : r \in Of(View, t)
      BY <2>1, FoundAre
    <3>2. r \in Rows /\ Table[r] = t /\ View[r].status # "absent" /\ Turn[t] = era.step
      BY <1>17, <3>1, OfIs, TurnsAre, TablesAre DEF Governance
    <3> QED
      BY <1>3, <1>4, <3>1, <3>2
  <2>3. \A r \in Rows : Turn[Table[r]] = era.step => Table[r] \in Governance
    BY <1>3, <1>17, TurnsAre, TablesAre DEF Governance
  <2>4. ASSUME NEW r \in Rows, Table[r] \in Governance, row[r].status # "absent"
        PROVE  /\ r \in R <=> r \in Involved
               /\ r \in R => Rightly(r, row[r], Minimised(View, r, e))
               /\ Table[r] = "consent_records" => Minimised(View, r, e) = row[r]
               /\ MustGo[r] \subseteq row[r].gone
               /\ r # Subject
    <3>1. Unchanged(View, r) /\ View[r] = row[r]
      BY <1>3, <1>17, <2>4, TurnsAre DEF Governance
    <3> QED
      BY <1>1, <2>1, <2>4, <3>1, GovernanceRight, SubjectIs DEF Governance
  <2> QED
    BY <1>8, <1>9, <2>2, <2>3, <2>4 DEF Provided, R, e, Governance
<1>18. CASE era.step = 9
  <2>1. R = {Subject}
    BY <1>5, <1>18, LocatedAre
  <2>2. Unchanged(View, Subject) /\ View[Subject] = row[Subject] /\ Turn[Table[Subject]] = 9
    BY <1>3, <1>6, <1>18, SubjectIs, TurnsAre
  <2>3. Rightly(Subject, row[Subject], Minimised(View, Subject, e))
    BY <1>1, <2>2, ProfileRight
  <2>4. ASSUME NEW r \in Rows, Table[r] = "users", row[r].status # "absent", r # Subject
        PROVE  MustGo[r] = {}
    BY <1>1, <2>4, OthersDoNotName DEF Intact
  <2>5. \A r \in Rows : Turn[Table[r]] = era.step => Table[r] = "users"
    BY <1>3, <1>18, TurnsAre, TablesAre
  <2> QED
    BY <1>4, <1>8, <1>9, <1>18, <2>1, <2>2, <2>3, <2>4, <2>5, SubjectIs DEF Provided, R, e, Unchanged
<1>19. CASE era.step = 10
  <2>1. R = RequestRows(View)
    BY <1>5, <1>19, LocatedAre
  <2>2. \A r \in R : /\ r \in Rows /\ Table[r] = "data_subject_requests" /\ Turn[Table[r]] = era.step
                     /\ View[r] = row[r] /\ row[r].status \notin {"absent", "held", "processing"}
    BY <1>7, <1>19, <2>1, FoundAre, TurnsAre, TablesAre
  <2>3. \A r \in Rows : Turn[Table[r]] = era.step => Table[r] = "data_subject_requests"
    BY <1>3, <1>19, TurnsAre, TablesAre
  <2>4. ASSUME NEW r \in Rows, Table[r] = "data_subject_requests", row[r].status # "absent"
        PROVE  /\ r \in R <=> r \in Involved
               /\ r \in R => Rightly(r, row[r], Minimised(View, r, e))
               /\ r \notin R => MustGo[r] \subseteq row[r].gone
               /\ r # Subject
    <3>1. Unchanged(View, r) /\ View[r] = row[r]
      BY <1>3, <1>19, <2>4, TurnsAre
    <3> QED
      BY <1>1, <2>1, <2>4, <3>1, RequestsRight, SubjectIs
  <2> QED
    BY <1>8, <1>9, <2>2, <2>3, <2>4 DEF Provided, R, e
<1> QED
  BY <1>10, <1>11, <1>12, <1>13, <1>14, <1>15, <1>16, <1>17, <1>18, <1>19

-------------------------------------------------------------------------------
(* Steps of the others: the erasure's variables stay, a row that changes   *)
(* is not locked.                                                          *)

\* How a row may change beside the erasure.
Move(r) ==
    /\ row'[r] \in Version /\ row'[r].gone \subseteq Columns(Table[r])
    /\ row'[r].status # "absent" /\ MayLose(r, row'[r])
    /\ outcome # "ready" /\ row'[r].gone # {} =>
         /\ Table[r] = "outbox_events" /\ row'[r].status = "processed"
         /\ row'[r].gone = {"payload_json"}
    /\ r = NewAccount => outcome = "ready"
    /\ Table[r] \notin {"users", "outbox_events"} /\ row'[r].gone # {} =>
         MustGo[r] \subseteq row'[r].gone
    /\ r \in seen => MustGo[r] \ row'[r].gone \subseteq
         (MustGo[r] \ row[r].gone) \cup IF r = Subject THEN restored' ELSE {}
    /\ Table[r] = "audit_events" /\ row[r].status = "absent" =>
         row'[Link[r].target_id].status # "absent"
    /\ Table[r] = "outbox_events" /\ r \in OwnRows \cap seen
       /\ row'[r].status \in {"pending", "processing"} =>
         row[r].status \in {"pending", "processing"}
    /\ Table[r] = "export_artifacts" /\ r \in OwnRows
       /\ row'[r].status \in LiveArtifact =>
         row[r].status \in LiveArtifact
    /\ Table[r] = "export_artifacts" => row[r].status # "cancelled"
    /\ r = Subject /\ "external_auth_id" \in row[r].gone => "external_auth_id" \in row'[r].gone

RowMoves == \A r \in Rows : row'[r] = row[r] \/ (Free(r) /\ Move(r))

Beside ==
    /\ UNCHANGED <<draft, era, outcome, toDelete, seen>>
    /\ row' \in [Rows -> Version] /\ RowMoves
    /\ restored \subseteq restored' /\ (lateMails' = lateMails \/ outcome = "ready")

RowParts ==
    /\ RowTypes /\ Intact /\ Whole /\ TargetsExist /\ Running /\ Progress /\ Executed
    /\ Deferrals /\ Complete /\ NothingElse

LEMMA BesideKeepsTypes ==
    ASSUME RowTypes, Beside
    PROVE  RowTypes' /\ Present \subseteq Present'
           /\ Of(row, "export_artifacts") \subseteq Of(row, "export_artifacts")'
<1> USE DEF Beside, RowMoves
<1>1. \A r \in Rows : row[r].status # "absent" => row'[r].status # "absent"
  BY DEF Move
<1>2. Present \subseteq Present'
  BY <1>1 DEF Present
<1>3. Of(row, "export_artifacts") \subseteq Of(row, "export_artifacts")'
  BY <1>1, OfIs, TablesAre DEF Of, RowsOf
<1>4. ASSUME NEW r \in Rows
      PROVE  /\ View'[r].gone \subseteq Columns(Table[r])
             /\ row'[r].status = "absent" => row'[r].gone = {}
  <2>1. View'[r] = IF r \in DOMAIN draft THEN draft[r] ELSE row'[r]
    BY DEF View, Free
  <2>2. View[r].gone \subseteq Columns(Table[r]) /\ (row[r].status = "absent" => row[r].gone = {})
    BY DEF RowTypes
  <2>3. CASE row'[r] = row[r]
    BY <2>1, <2>2, <2>3, ViewIs
  <2>4. CASE Free(r) /\ Move(r)
    BY <2>1, <2>2, <2>4 DEF Move, Free
  <2> QED
    BY <2>3, <2>4
<1> QED
  BY <1>2, <1>3, <1>4 DEF RowTypes, NoErasure, Unlocked

LEMMA BesideKeepsRows ==
    ASSUME RowParts, Beside
    PROVE  RowParts'
<1> USE DEF Beside, RowMoves
<1>1. RowTypes' /\ Present \subseteq Present'
  BY BesideKeepsTypes DEF RowParts
<1>2. Intact'
  BY ErasureAssumption DEF Intact, RowParts, Move
<1>3. Whole'
  BY DEF Whole, RowParts, Move
<1>4. NothingElse'
  <2>1. \A r \in Rows : MayLose(r, row[r])
    BY DEF NothingElse, MayLose, RowParts
  <2>2. \A r \in Rows : MayLose(r, row'[r])
    BY <2>1 DEF Move
  <2> QED
    BY <2>2 DEF NothingElse, MayLose
<1>5. TargetsExist'
  <2>1. \A r \in Rows : row[r].status # "absent" => row'[r].status # "absent"
    BY DEF Move
  <2>2. row'[Subject].status # "absent" /\ row'[EraseRequest].status # "absent"
    BY <2>1, SubjectIs, ErasureAssumption DEF TargetsExist, RowParts
  <2>3. ASSUME NEW a \in Rows, Table[a] = "audit_events",
               row'[a].status # "absent" \/ a \in LateRows
        PROVE  \/ row'[Link[a].target_id].status # "absent"
               \/ row'[a].status = "absent" /\ a \in LateRows /\ Link[a].target_id \in LateRows
    <3>1. Link[a].target_id \in Rows
      BY <2>3, RecordsAssumption
    <3>2. CASE row[a].status # "absent"
      BY <2>1, <2>3, <3>1, <3>2 DEF TargetsExist, RowParts
    <3>3. CASE row[a].status = "absent" /\ row'[a].status # "absent"
      BY <2>3, <3>3 DEF Move
    <3>4. CASE row[a].status = "absent" /\ row'[a].status = "absent"
      BY <2>1, <2>3, <3>1, <3>4 DEF TargetsExist, RowParts
    <3> QED
      BY <3>2, <3>3, <3>4
  <2> QED
    BY <2>2, <2>3 DEF TargetsExist
<1>6. \A r \in DOMAIN draft : r \in Rows /\ row'[r] = row[r]
  BY DEF RowParts, RowTypes, Present, Free
<1>7. Running'
  <2> SUFFICES ASSUME era.step # 0 PROVE Running'
    BY DEF Running
  <2>1. Running /\ era.step # 0
    BY DEF RowParts
  <2>2. \A i \in era.invites : Table[i] = "invites" /\ row'[i].status # "absent" /\ i \in Involved
    <3>1. era.invites \subseteq Rows
      BY DEF RowParts, RowTypes
    <3> QED
      BY <2>1, <3>1 DEF Running, Move
  <2>3. ASSUME NEW r \in DOMAIN draft PROVE LockedRow(r)'
    <3>1. LockedRow(r) /\ row'[r] = row[r] /\ r \in Rows
      BY <2>1, <1>6 DEF Running
    <3>2. Chosen(r) => Chosen(r)'
      BY <3>1 DEF Chosen, Names
    <3> QED
      BY <3>1, <3>2 DEF LockedRow, MayLose
  <2> QED
    BY <2>1, <2>2, <2>3 DEF Running
<1>8. \A r \in Rows : \/ View'[r] = View[r]
                      \/ Free(r) /\ Move(r) /\ View[r] = row[r] /\ View'[r] = row'[r]
  BY ViewIs DEF View, Free
<1>9. \A r \in seen : r \in Rows
  BY DEF RowParts, RowTypes, Present
<1>10. MailHalts(View) => MailHalts(View')
  BY <1>8, <1>9 DEF MailHalts, Move
<1>11. ExportHalts(View) => ExportHalts(View')
  BY <1>8 DEF ExportHalts, Move, OwnRows
<1>12. Anonymous(View) => Anonymous(View')
  BY <1>8, SubjectIs DEF Anonymous, Move
<1>13. Progress'
  <2> SUFFICES ASSUME era.step # 0 PROVE Progress'
    BY DEF Progress
  <2>1. Progress /\ Running
    BY DEF RowParts
  <2>2. Subject \in DOMAIN draft
    BY <2>1 DEF Running
  <2>3. ASSUME NEW r \in seen, era.step > Turn[Table[r]]
        PROVE  MustGo[r] \subseteq View'[r].gone
    <3>1. MustGo[r] \subseteq View[r].gone
      BY <2>1, <2>3 DEF Progress
    <3>2. Free(r) => r # Subject
      BY <2>2 DEF Free
    <3> QED
      BY <1>8, <1>9, <3>1, <3>2 DEF Move
  <2> QED
    BY <1>10, <1>11, <1>12, <2>1, <2>3 DEF Progress, MailHalts, ExportHalts, Anonymous
<1>14. Executed'
  <2>1. outcome = "ready" => MailHalts(row') /\ ExportHalts(row') /\ Anonymous(row')
    <3> SUFFICES ASSUME outcome = "ready"
                 PROVE  MailHalts(row') /\ ExportHalts(row') /\ Anonymous(row')
      OBVIOUS
    <3>1. MailHalts(row) /\ ExportHalts(row) /\ Anonymous(row)
      BY DEF RowParts, Executed
    <3>2. MailHalts(row')
      BY <1>9, <3>1 DEF MailHalts, Move
    <3>3. ExportHalts(row')
      BY <3>1 DEF ExportHalts, Move, OwnRows
    <3>4. Anonymous(row')
      BY <3>1, SubjectIs DEF Anonymous, Move
    <3> QED
      BY <3>2, <3>3, <3>4
  <2> QED
    BY <2>1 DEF RowParts, Executed, MailHalts, ExportHalts, Anonymous
<1>15. Deferrals'
  <2>1. \A x \in toDelete : x \in Rows /\ Table[x] = "export_artifacts"
    BY OfIs, TablesAre DEF RowParts, RowTypes
  <2>2. \A x \in toDelete : View'[x] = View[x]
    BY <1>8, <2>1 DEF RowParts, Deferrals, Move
  <2> QED
    BY <2>2 DEF RowParts, Deferrals
<1>16. Complete'
  <2> SUFFICES ASSUME outcome = "ready", NEW r \in seen
               PROVE  MustGo[r] \ row'[r].gone \subseteq IF r = Subject THEN restored' ELSE {}
    BY DEF Complete
  <2>1. MustGo[r] \ row[r].gone \subseteq IF r = Subject THEN restored ELSE {}
    BY DEF RowParts, Complete
  <2> QED
    BY <1>9, <2>1 DEF Move
<1> QED
  BY <1>1, <1>2, <1>3, <1>4, <1>5, <1>7, <1>13, <1>14, <1>15, <1>16 DEF RowParts

LEMMA HoldingKept ==
    ASSUME Holding, UNCHANGED <<job, arch, released>>,
           \A r \in Rows : Table[r] = "outbox_events" /\ row[r].status = "processing" =>
               row'[r].status = "processing"
    PROVE  Holding'
BY DEF Holding

LEMMA SigningKept ==
    ASSUME SigningIn, SignInFindsAccount, UNCHANGED <<login, outcome>>,
           row[Subject].status # "absent",
           \A u \in Rows : Table[u] = "users" /\ row[u].status # "absent" => row'[u] = row[u]
    PROVE  SigningIn' /\ SignInFindsAccount'
<1>1. Anonymous(row) => Anonymous(row')
  BY SubjectIs DEF Anonymous
<1>2. Accounts # {} => Accounts' # {}
  BY TablesAre DEF Accounts, Of, RowsOf, Names
<1>3. Of(row, "users") \subseteq Of(row, "users")'
  BY TablesAre DEF Of, RowsOf
<1> QED
  BY <1>1, <1>2, <1>3 DEF SigningIn, SignInFindsAccount, Anonymous

LEMMA OfferedKept ==
    ASSUME OfferedIsStored, objects \subseteq objects', outcome' = outcome,
           \A x \in Rows : Table[x] = "export_artifacts" /\ row'[x].status = "ready" =>
               row[x].status = "ready"
    PROVE  OfferedIsStored'
BY TablesAre DEF OfferedIsStored, Of, RowsOf

LEMMA IInvParts ==
    IInv <=> /\ RowParts /\ OtherTypes /\ Holding /\ SigningIn
             /\ LateMail /\ SignInFindsAccount /\ OfferedIsStored
BY TypeParts DEF IInv, RowParts

LEMMA IInvNext ==
    ASSUME RowParts', OtherTypes', Holding', SigningIn', LateMail', SignInFindsAccount',
           OfferedIsStored'
    PROVE  IInv'
<1>1. ErasureTypeOK'
  BY DEF ErasureTypeOK, RowTypes, OtherTypes, RowParts
<1> QED
  BY <1>1 DEF IInv, RowParts

\* A status changes.
LEMMA StatusMoves ==
    ASSUME RowParts, NEW r \in Rows, row[r].status \notin {"absent", "processed", "cancelled"},
           NEW s \in Statuses \ {"absent"}, SetStatus(r, s),
           Table[r] = "outbox_events" /\ s \in {"pending", "processing"} =>
               row[r].status \in {"pending", "processing"},
           Table[r] = "export_artifacts" /\ s \in LiveArtifact =>
               row[r].status \in LiveArtifact
    PROVE  /\ row' \in [Rows -> Version] /\ Move(r)
           /\ row'[r].gone = row[r].gone /\ row'[r].status = s
           /\ \A x \in Rows : x # r => row'[x] = row[x]
<1>1. row \in [Rows -> Version] /\ row[r] \in Version
  BY DEF RowParts, RowTypes
<1>2. row'[r] = [gone |-> row[r].gone, status |-> s] /\ \A x \in Rows : x # r => row'[x] = row[x]
  BY <1>1 DEF SetStatus, Version
<1>3. row' \in [Rows -> Version]
  BY <1>1 DEF SetStatus, Version
<1>4. row[r].gone \subseteq Columns(Table[r])
  <2>1. CASE Free(r)
    BY <2>1, ViewIs DEF RowParts, RowTypes, Free
  <2>2. CASE ~Free(r)
    <3>1. r \in DOMAIN draft /\ outcome # "ready" /\ MayLose(r, row[r])
      BY <2>2 DEF Free, RowParts, RowTypes, Running, NoErasure, Unlocked, NothingElse, MayLose
    <3>2. row[r].gone = {}
      BY <3>1 DEF RowParts, Intact
    <3> QED
      BY <3>2
  <2> QED
    BY <2>1, <2>2
<1>5. MayLose(r, row[r])
  BY DEF RowParts, NothingElse, MayLose
<1>6. MayLose(r, row'[r])
  BY <1>2, <1>5 DEF MayLose
<1>7. r = NewAccount => outcome = "ready"
  BY DEF RowParts, Intact
<1>8. outcome # "ready" => row[r].gone = {}
  BY DEF RowParts, Intact
<1>9. Table[r] \notin {"users", "outbox_events"} /\ row[r].gone # {} => MustGo[r] \subseteq row[r].gone
  BY DEF RowParts, Whole
<1> QED
  BY <1>2, <1>3, <1>4, <1>6, <1>7, <1>8, <1>9 DEF Move, Version

\* An event is done with.
LEMMA PayloadMoves ==
    ASSUME RowParts, NEW r \in Rows, row[r].status \in {"pending", "processing"}, Free(r),
           Table[r] = "outbox_events",
           row' = [row EXCEPT ![r] = [gone |-> @.gone \cup {"payload_json"}, status |-> "processed"]]
    PROVE  /\ row' \in [Rows -> Version] /\ Move(r)
           /\ \A x \in Rows : x # r => row'[x] = row[x]
<1>1. row \in [Rows -> Version] /\ row[r] \in Version
  BY DEF RowParts, RowTypes
<1>2. /\ row'[r] = [gone |-> row[r].gone \cup {"payload_json"}, status |-> "processed"]
      /\ \A x \in Rows : x # r => row'[x] = row[x]
  BY <1>1
<1>3. "payload_json" \in Columns(Table[r])
  BY PoliciesAre, SimplePolicies, ColumnsAre
<1>4. row'[r].gone \subseteq Columns(Table[r])
  BY <1>2, <1>3, ViewIs DEF RowParts, RowTypes, Free
<1>5. row'[r] \in Version
  BY <1>2, <1>4, RowsAre DEF Version, Statuses
<1>6. row' \in [Rows -> Version]
  BY <1>1, <1>2, <1>5
<1>7. MayLose(r, row[r])
  BY DEF RowParts, NothingElse, MayLose
<1>8. MayLose(r, row'[r])
  BY <1>2, <1>7, MayGoIs DEF MayLose
<1>9. outcome # "ready" => row[r].gone = {} /\ r # NewAccount
  BY DEF RowParts, Intact
<1> QED
  BY <1>2, <1>4, <1>5, <1>6, <1>8, <1>9, SubjectIs DEF Move

\* A row is inserted.
LEMMA InsertMoves ==
    ASSUME RowParts, NEW r \in Rows, row[r].status = "absent", row'[r] = Inserted(r),
           r # NewAccount,
           Table[r] = "audit_events" => row'[Link[r].target_id].status # "absent"
    PROVE  Move(r) /\ row'[r] \in Version /\ Free(r)
<1>1. r \notin seen /\ Free(r) /\ r # Subject
  BY DEF RowParts, RowTypes, Present, Free, TargetsExist
<1>2. row'[r].gone = {} /\ row'[r].status \in {"pending", "kept"}
  BY DEF Inserted
<1>3. Table[r] = "export_artifacts" => row'[r].status = "kept"
  BY DEF Inserted
<1>4. row'[r] \in Version
  BY <1>2, Versions DEF Inserted, Statuses
<1> QED
  BY <1>1, <1>2, <1>3, <1>4 DEF Move, MayLose, LiveArtifact

LEMMA AuditMoves ==
    ASSUME RowParts, UnusedAudits # {}, NEW V, V \in [Rows -> Version]
    PROVE  \E a \in UnusedAudits : /\ Audited(V) = [V EXCEPT ![a] = Inserted(a)]
                             /\ a \in Rows /\ Table[a] = "audit_events" /\ row[a].status = "absent"
                             /\ Link[a].target_id = EraseRequest /\ a # NewAccount /\ a # EraseRequest
                             /\ a # Subject
                             /\ Audited(V) \in [Rows -> Version]
                             /\ Audited(V)[a] = Inserted(a)
                             /\ \A x \in Rows : x # a => Audited(V)[x] = V[x]
<1> DEFINE a == CHOOSE a \in UnusedAudits : TRUE
<1>1. a \in UnusedAudits
  OBVIOUS
<1>2. Audited(V) = [V EXCEPT ![a] = Inserted(a)]
  BY DEF Audited
<1> HIDE DEF a
<1>3. /\ a \in Rows /\ Table[a] = "audit_events" /\ row[a].status = "absent"
      /\ Link[a].target_id = EraseRequest /\ a # NewAccount /\ a # EraseRequest /\ a # Subject
  BY <1>1, ErasureAssumption, SubjectIs DEF UnusedAudits
<1>4. Inserted(a) \in Version
  BY <1>3, Versions DEF Inserted, Statuses
<1> QED
  BY <1>1, <1>2, <1>3, <1>4

-------------------------------------------------------------------------------
(* The worker, the export and the administrator.                           *)

LEMMA Unmoved ==
    ASSUME RowParts, UNCHANGED <<row, draft, era, outcome, toDelete, seen>>,
           restored \subseteq restored', lateMails' = lateMails \/ outcome = "ready"
    PROVE  RowParts'
<1>1. Beside
  BY DEF RowParts, RowTypes, Beside, RowMoves
<1> QED
  BY <1>1, BesideKeepsRows

LEMMA Parts ==
    ASSUME IInv
    PROVE  /\ RowParts /\ OtherTypes /\ Holding /\ SigningIn
           /\ LateMail /\ SignInFindsAccount /\ OfferedIsStored
           /\ row[Subject].status # "absent" /\ row[EraseRequest].status # "absent"
BY IInvParts DEF RowParts, TargetsExist

LEMMA ClaimStep ==
    ASSUME IInv, NEW e \in Of(row, "outbox_events"), WorkerClaims(e)
    PROVE  IInv'
<1>1. e \in Rows /\ Table[e] = "outbox_events"
  BY OfIs, TablesAre
<1>2. /\ row' \in [Rows -> Version] /\ Move(e) /\ row'[e].status = "processing"
      /\ \A x \in Rows : x # e => row'[x] = row[x]
  <2>1. /\ SetStatus(e, "processing") /\ "processing" \in Statuses \ {"absent"}
        /\ row[e].status \notin {"absent", "processed", "cancelled"}
        /\ row[e].status \in {"pending", "processing"}
    BY DEF WorkerClaims, Statuses
  <2> QED
    BY <1>1, <2>1, Parts, StatusMoves
<1>3. Beside
  BY <1>2 DEF WorkerClaims, eraVars, history, Beside, RowMoves
<1>4. RowParts'
  BY <1>3, Parts, BesideKeepsRows
<1>5. OtherTypes'
  BY <1>1, <1>3, Parts, BesideKeepsTypes DEF OtherTypes, WorkerClaims, history, RowParts
<1>6. Holding'
  BY <1>1, <1>2, Parts DEF Holding, WorkerClaims
<1>7. SigningIn' /\ SignInFindsAccount'
  BY <1>1, <1>2, Parts, SigningKept DEF WorkerClaims, eraVars
<1>8. OfferedIsStored'
  BY <1>1, <1>2, Parts, OfferedKept DEF WorkerClaims, eraVars
<1>9. LateMail'
  BY Parts DEF LateMail, WorkerClaims, history
<1> QED
  BY <1>4, <1>5, <1>6, <1>7, <1>8, <1>9, IInvNext

LEMMA DropStep ==
    ASSUME IInv, NEW e \in Of(row, "outbox_events"), WorkerDrops(e)
    PROVE  IInv'
<1>1. e \in Rows /\ Table[e] = "outbox_events" /\ row[e].status = "pending"
  BY OfIs, TablesAre DEF WorkerDrops
<1>2. /\ row' \in [Rows -> Version] /\ Move(e)
      /\ \A x \in Rows : x # e => row'[x] = row[x]
  BY <1>1, Parts, PayloadMoves DEF WorkerDrops
<1>3. Beside
  BY <1>2 DEF WorkerDrops, eraVars, history, Beside, RowMoves
<1>4. RowParts'
  BY <1>3, Parts, BesideKeepsRows
<1>5. OtherTypes'
  BY <1>1, <1>3, Parts, BesideKeepsTypes DEF OtherTypes, WorkerDrops, otherVars, history, RowParts
<1>6. Holding'
  BY <1>1, <1>2, Parts, HoldingKept DEF WorkerDrops, otherVars, history
<1>7. SigningIn' /\ SignInFindsAccount'
  BY <1>1, <1>2, Parts, SigningKept DEF WorkerDrops, eraVars, otherVars
<1>8. OfferedIsStored'
  BY <1>1, <1>2, Parts, OfferedKept DEF WorkerDrops, eraVars
<1>9. LateMail'
  BY Parts DEF LateMail, WorkerDrops, history
<1> QED
  BY <1>4, <1>5, <1>6, <1>7, <1>8, <1>9, IInvNext

LEMMA MailStep ==
    ASSUME IInv, WorkerMails
    PROVE  IInv'
<1>1. /\ job.event \in Rows /\ Table[job.event] = "outbox_events"
      /\ row[job.event].status = "processing" \/ job.event \in released
  BY Parts DEF Holding, WorkerMails
<1>2. lateMails' = lateMails \/ outcome = "ready"
  BY DEF WorkerMails
<1>3. RowParts'
  BY <1>2, Parts, Unmoved DEF WorkerMails, eraVars
<1>4. OtherTypes'
  BY <1>1, Parts DEF OtherTypes, WorkerMails, Of
<1>5. Holding'
  <2>1. job'.event = job.event /\ job'.pc = "mailed"
    BY Parts DEF WorkerMails, OtherTypes
  <2> QED
    BY <1>1, <2>1, Parts DEF Holding, WorkerMails
<1>6. SigningIn' /\ SignInFindsAccount'
  BY Parts, SigningKept DEF WorkerMails, eraVars
<1>7. OfferedIsStored'
  BY Parts, OfferedKept DEF WorkerMails, eraVars
<1>8. LateMail'
  <2>1. outcome = "ready" /\ job.event \in OwnRows \cap seen => job.event \in released
    BY <1>1, Parts DEF RowParts, Executed, MailHalts
  <2> QED
    BY <1>1, <2>1, Parts DEF LateMail, WorkerMails
<1> QED
  BY <1>3, <1>4, <1>5, <1>6, <1>7, <1>8, IInvNext

LEMMA FinishStep ==
    ASSUME IInv, WorkerFinishes
    PROVE  IInv'
<1> DEFINE e == job.event
<1>1. e \in Rows /\ Table[e] = "outbox_events" /\ Free(e)
  BY Parts DEF Holding, WorkerFinishes
<1>2. /\ row' \in [Rows -> Version] /\ (row'[e] = row[e] \/ Move(e))
      /\ \A x \in Rows : x # e => row'[x] = row[x]
  <2>1. CASE row[e].status = "processing"
    BY <1>1, <2>1, Parts, PayloadMoves DEF WorkerFinishes
  <2>2. CASE row[e].status # "processing"
    BY <2>2, Parts DEF WorkerFinishes, RowParts, RowTypes
  <2> QED
    BY <2>1, <2>2
<1>3. Beside
  BY <1>1, <1>2 DEF WorkerFinishes, eraVars, history, Beside, RowMoves
<1>4. RowParts'
  BY <1>3, Parts, BesideKeepsRows
<1>5. OtherTypes'
  BY <1>1, <1>3, Parts, BesideKeepsTypes DEF OtherTypes, WorkerFinishes, NoJob, history, RowParts
<1>6. Holding'
  BY Parts DEF Holding, WorkerFinishes, NoJob
<1>7. SigningIn' /\ SignInFindsAccount'
  BY <1>1, <1>2, Parts, SigningKept DEF WorkerFinishes, eraVars
<1>8. OfferedIsStored'
  BY <1>1, <1>2, Parts, OfferedKept DEF WorkerFinishes, eraVars
<1>9. LateMail'
  BY Parts DEF LateMail, WorkerFinishes, history
<1> QED
  BY <1>4, <1>5, <1>6, <1>7, <1>8, <1>9, IInvNext

LEMMA ReleaseStep ==
    ASSUME IInv, EventReleased
    PROVE  IInv'
<1> DEFINE e == job.event
<1>1. e \in Rows /\ Table[e] = "outbox_events" /\ Free(e)
  BY Parts DEF Holding, EventReleased
<1>2. /\ row' \in [Rows -> Version] /\ Move(e)
      /\ \A x \in Rows : x # e => row'[x] = row[x]
  <2>1. /\ SetStatus(e, "pending") /\ "pending" \in Statuses \ {"absent"}
        /\ row[e].status \notin {"absent", "processed", "cancelled"}
        /\ row[e].status \in {"pending", "processing"}
    BY DEF EventReleased, Statuses
  <2> QED
    BY <1>1, <2>1, Parts, StatusMoves
<1>3. Beside
  BY <1>1, <1>2 DEF EventReleased, eraVars, Beside, RowMoves
<1>4. RowParts'
  BY <1>3, Parts, BesideKeepsRows
<1>5. OtherTypes'
  BY <1>1, <1>3, Parts, BesideKeepsTypes DEF OtherTypes, EventReleased, otherVars, RowParts
<1>6. Holding'
  BY <1>1, Parts DEF Holding, EventReleased, otherVars
<1>7. SigningIn' /\ SignInFindsAccount'
  BY <1>1, <1>2, Parts, SigningKept DEF EventReleased, eraVars, otherVars
<1>8. OfferedIsStored'
  BY <1>1, <1>2, Parts, OfferedKept DEF EventReleased, eraVars
<1>9. LateMail'
  BY Parts DEF LateMail, EventReleased
<1> QED
  BY <1>4, <1>5, <1>6, <1>7, <1>8, <1>9, IInvNext

LEMMA LeaseStep ==
    ASSUME IInv, NEW x \in Of(row, "export_artifacts"), ExportClaims(x)
    PROVE  IInv'
<1>1. x \in Rows /\ Table[x] = "export_artifacts"
  BY OfIs, TablesAre
<1>2. /\ row' \in [Rows -> Version] /\ Move(x) /\ row'[x].status = "processing"
      /\ \A y \in Rows : y # x => row'[y] = row[y]
  <2>1. /\ SetStatus(x, "processing") /\ "processing" \in Statuses \ {"absent"}
        /\ row[x].status \notin {"absent", "processed", "cancelled"}
        /\ row[x].status \in LiveArtifact
    BY DEF ExportClaims, Statuses, LiveArtifact
  <2> QED
    BY <1>1, <2>1, Parts, StatusMoves
<1>3. Beside
  BY <1>2 DEF ExportClaims, eraVars, history, Beside, RowMoves
<1>4. RowParts'
  BY <1>3, Parts, BesideKeepsRows
<1>5. OtherTypes'
  BY <1>1, <1>3, Parts, BesideKeepsTypes DEF OtherTypes, ExportClaims, history, RowParts
<1>6. Holding'
  BY <1>1, <1>2, Parts DEF Holding, ExportClaims, history
<1>7. SigningIn' /\ SignInFindsAccount'
  BY <1>1, <1>2, Parts, SigningKept DEF ExportClaims, eraVars
<1>8. OfferedIsStored'
  BY <1>1, <1>2, Parts, OfferedKept DEF ExportClaims, eraVars
<1>9. LateMail'
  BY Parts DEF LateMail, ExportClaims, history
<1> QED
  BY <1>4, <1>5, <1>6, <1>7, <1>8, <1>9, IInvNext

LEMMA ArchiveEndStep ==
    ASSUME IInv, ExportEnds
    PROVE  IInv'
<1> DEFINE x == arch.artifact
<1>1. x \in Rows /\ Table[x] = "export_artifacts" /\ Free(x)
  BY Parts DEF Holding, ExportEnds
<1>2. /\ row' \in [Rows -> Version]
      /\ row'[x] = row[x] \/ (Move(x) /\ row'[x].status = "ready")
      /\ \A y \in Rows : y # x => row'[y] = row[y]
  <2>1. CASE row[x].status = "processing"
    <3>1. /\ SetStatus(x, "ready") /\ "ready" \in Statuses \ {"absent"}
          /\ row[x].status \notin {"absent", "processed", "cancelled"}
          /\ row[x].status \in LiveArtifact
      BY <2>1 DEF ExportEnds, Statuses, LiveArtifact
    <3> QED
      BY <1>1, <3>1, Parts, StatusMoves
  <2>2. CASE row[x].status # "processing"
    <3>1. row' = row
      BY <2>2 DEF ExportEnds
    <3>2. row \in [Rows -> Version]
      BY Parts DEF RowParts, RowTypes
    <3> QED
      BY <3>1, <3>2
  <2> QED
    BY <2>1, <2>2
<1>3. Beside
  BY <1>1, <1>2 DEF ExportEnds, eraVars, history, Beside, RowMoves
<1>4. RowParts'
  BY <1>3, Parts, BesideKeepsRows
<1>5. objects' \in {objects, objects \cup {x}} /\ (row[x].status = "processing" => x \in objects')
  BY DEF ExportEnds
<1>6. x \in objects' \ objects => x \in Of(row, "export_artifacts")'
  <2>1. x \in objects' \ objects => row[x].status = "processing"
    BY DEF ExportEnds
  <2> QED
    BY <1>1, <1>2, <2>1, TablesAre DEF Of, RowsOf, Move
<1>7. OtherTypes'
  BY <1>1, <1>3, <1>5, <1>6, Parts, BesideKeepsTypes
     DEF OtherTypes, ExportEnds, NoArchive, history, RowParts
<1>8. Holding'
  BY <1>1, <1>2, Parts DEF Holding, ExportEnds, NoArchive, history
<1>9. SigningIn' /\ SignInFindsAccount'
  BY <1>1, <1>2, Parts, SigningKept DEF ExportEnds, eraVars
<1>10. OfferedIsStored'
  <2> SUFFICES ASSUME NEW y \in Rows, Table[y] = "export_artifacts", row'[y].status = "ready"
               PROVE  y \in objects' /\ (outcome' = "ready" => y \notin OwnRows)
    BY TablesAre DEF OfferedIsStored, Of, RowsOf
  <2>1. CASE row[y].status = "ready"
    BY <1>5, <2>1, Parts, TablesAre DEF OfferedIsStored, Of, RowsOf, ExportEnds, eraVars
  <2>2. CASE row[y].status # "ready"
    <3>1. y = x /\ row[x].status = "processing"
      BY <1>2, <2>2 DEF ExportEnds
    <3>2. outcome = "ready" => x \notin OwnRows
      BY <1>1, <3>1, Parts DEF RowParts, Executed, ExportHalts, LiveArtifact
    <3> QED
      BY <1>5, <3>1, <3>2 DEF ExportEnds, eraVars
  <2> QED
    BY <2>1, <2>2
<1>11. LateMail'
  BY Parts DEF LateMail, ExportEnds, history
<1> QED
  BY <1>4, <1>7, <1>8, <1>9, <1>10, <1>11, IInvNext

\* A worker does not finish its artifact.
LEMMA Abandoned ==
    ASSUME IInv, NEW x \in Rows, Table[x] = "export_artifacts", row[x].status = "processing",
           NEW bare \in {"queued", "failed"}, NEW keyed \in {"requeued", "unpurged"},
           LeavesBehind(x, bare, keyed)
    PROVE  /\ row' \in [Rows -> Version] /\ Move(x) /\ row'[x].status \notin {"ready", "absent"}
           /\ \A y \in Rows : y # x => row'[y] = row[y]
           /\ objects' \in {objects, objects \cup {x}}
<1>1. PICK s \in {bare, keyed} : SetStatus(x, s)
  BY DEF LeavesBehind
<1>2. s \in Statuses \ {"absent"} /\ s # "ready" /\ row[x].status \in LiveArtifact
  BY DEF Statuses, LiveArtifact
<1>3. objects' \in {objects, objects \cup {x}}
  BY DEF LeavesBehind
<1> QED
  BY <1>1, <1>2, <1>3, Parts, StatusMoves

LEMMA ArchiveFailStep ==
    ASSUME IInv, ExportFails
    PROVE  IInv'
<1> DEFINE x == arch.artifact
<1>1. x \in Rows /\ Table[x] = "export_artifacts" /\ Free(x)
  BY Parts DEF Holding, ExportFails
<1>2. /\ row' \in [Rows -> Version]
      /\ row'[x] = row[x] \/ (Move(x) /\ row'[x].status \notin {"ready", "absent"})
      /\ \A y \in Rows : y # x => row'[y] = row[y]
      /\ \/ objects' = objects
         \/ objects' = objects \cup {x} /\ row'[x].status # "absent"
  <2>1. CASE row[x].status = "processing"
    <3>1. LeavesBehind(x, "failed", "unpurged")
      BY <2>1 DEF ExportFails
    <3> QED
      BY <1>1, <2>1, <3>1, Abandoned
  <2>2. CASE row[x].status # "processing"
    <3>1. row' = row /\ objects' = objects
      BY <2>2 DEF ExportFails
    <3>2. row \in [Rows -> Version]
      BY Parts DEF RowParts, RowTypes
    <3> QED
      BY <3>1, <3>2
  <2> QED
    BY <2>1, <2>2
<1>3. Beside
  BY <1>1, <1>2 DEF ExportFails, eraVars, history, Beside, RowMoves
<1>4. RowParts'
  BY <1>3, Parts, BesideKeepsRows
<1>5. x \in objects' \ objects => x \in Of(row, "export_artifacts")'
  BY <1>1, <1>2, TablesAre DEF Of, RowsOf
<1>6. OtherTypes'
  BY <1>1, <1>2, <1>3, <1>5, Parts, BesideKeepsTypes
     DEF OtherTypes, ExportFails, NoArchive, history, RowParts
<1>7. Holding'
  BY <1>1, <1>2, Parts DEF Holding, ExportFails, NoArchive, history
<1>8. SigningIn' /\ SignInFindsAccount'
  BY <1>1, <1>2, Parts, SigningKept DEF ExportFails, eraVars
<1>9. OfferedIsStored'
  BY <1>1, <1>2, Parts, OfferedKept DEF ExportFails, eraVars
<1>10. LateMail'
  BY Parts DEF LateMail, ExportFails, history
<1> QED
  BY <1>4, <1>6, <1>7, <1>8, <1>9, <1>10, IInvNext

LEMMA RecoverStep ==
    ASSUME IInv, LeaseRecovered
    PROVE  IInv'
<1> DEFINE x == arch.artifact
<1>1. x \in Rows /\ Table[x] = "export_artifacts" /\ Free(x)
  BY Parts DEF Holding, LeaseRecovered
<1>2. /\ row' \in [Rows -> Version] /\ Move(x) /\ row'[x].status \notin {"ready", "absent"}
      /\ \A y \in Rows : y # x => row'[y] = row[y]
      /\ objects' \in {objects, objects \cup {x}}
  <2>1. row[x].status = "processing" /\ LeavesBehind(x, "queued", "requeued")
    BY DEF LeaseRecovered
  <2> QED
    BY <1>1, <2>1, Abandoned
<1>3. Beside
  BY <1>1, <1>2 DEF LeaseRecovered, eraVars, history, Beside, RowMoves
<1>4. RowParts'
  BY <1>3, Parts, BesideKeepsRows
<1>5. x \in Of(row, "export_artifacts")'
  BY <1>1, <1>2, TablesAre DEF Of, RowsOf
<1>6. OtherTypes'
  BY <1>1, <1>2, <1>3, <1>5, Parts, BesideKeepsTypes
     DEF OtherTypes, LeaseRecovered, otherVars, history, RowParts
<1>7. Holding'
  BY <1>1, <1>2, Parts, HoldingKept DEF LeaseRecovered, otherVars, history
<1>8. SigningIn' /\ SignInFindsAccount'
  BY <1>1, <1>2, Parts, SigningKept DEF LeaseRecovered, eraVars, otherVars
<1>9. OfferedIsStored'
  BY <1>1, <1>2, Parts, OfferedKept DEF LeaseRecovered, eraVars
<1>10. LateMail'
  BY Parts DEF LateMail, LeaseRecovered, history
<1> QED
  BY <1>4, <1>6, <1>7, <1>8, <1>9, <1>10, IInvNext

LEMMA HoldStep ==
    ASSUME IInv, NEW a \in Of(row, "audit_events"), HoldEnds(a)
    PROVE  IInv'
<1>1. a \in Rows /\ Table[a] = "audit_events"
  BY OfIs, TablesAre
<1>2. /\ row' \in [Rows -> Version] /\ Move(a)
      /\ \A y \in Rows : y # a => row'[y] = row[y]
  <2>1. /\ SetStatus(a, "kept") /\ "kept" \in Statuses \ {"absent"}
        /\ row[a].status \notin {"absent", "processed", "cancelled"}
    BY DEF HoldEnds, Statuses
  <2> QED
    BY <1>1, <2>1, Parts, StatusMoves
<1>3. Beside
  BY <1>1, <1>2 DEF HoldEnds, eraVars, history, Beside, RowMoves
<1>4. RowParts'
  BY <1>3, Parts, BesideKeepsRows
<1>5. OtherTypes'
  BY <1>1, <1>3, Parts, BesideKeepsTypes DEF OtherTypes, HoldEnds, otherVars, history, RowParts
<1>6. Holding'
  BY <1>1, <1>2, Parts, HoldingKept DEF HoldEnds, otherVars, history
<1>7. SigningIn' /\ SignInFindsAccount'
  BY <1>1, <1>2, Parts, SigningKept DEF HoldEnds, eraVars, otherVars
<1>8. OfferedIsStored'
  BY <1>1, <1>2, Parts, OfferedKept DEF HoldEnds, eraVars
<1>9. LateMail'
  BY Parts DEF LateMail, HoldEnds, history
<1> QED
  BY <1>4, <1>5, <1>6, <1>7, <1>8, <1>9, IInvNext

LEMMA InviteStep ==
    ASSUME IInv, AdminInvites
    PROVE  IInv'
<1>1. \A r \in Rows : row'[r] = IF r \in LateRows THEN Inserted(r) ELSE row[r]
  BY DEF AdminInvites
<1>2. \A r \in LateRows : r \in Rows /\ row[r].status = "absent" /\ r # NewAccount
  BY ErasureAssumption DEF AdminInvites
<1>3. \A r \in Rows : Inserted(r).status # "absent"
  BY DEF Inserted
<1>4. ASSUME NEW r \in LateRows PROVE Move(r) /\ row'[r] \in Version /\ Free(r)
  <2>1. Table[r] = "audit_events" => row'[Link[r].target_id].status # "absent"
    <3> SUFFICES ASSUME Table[r] = "audit_events"
                 PROVE  row'[Link[r].target_id].status # "absent"
      OBVIOUS
    <3>1. Link[r].target_id \in Rows
      BY <1>2, RecordsAssumption
    <3>2. row[Link[r].target_id].status # "absent" \/ Link[r].target_id \in LateRows
      BY <1>2, Parts DEF RowParts, TargetsExist
    <3> QED
      BY <1>1, <1>2, <1>3, <3>1, <3>2
  <2> QED
    BY <1>1, <1>2, <2>1, Parts, InsertMoves
<1>5. Beside
  <2>1. row' \in [Rows -> Version]
    BY <1>1, <1>4, Parts DEF AdminInvites, RowParts, RowTypes
  <2> QED
    BY <1>1, <1>4, <2>1 DEF AdminInvites, eraVars, history, Beside, RowMoves
<1>6. RowParts'
  BY <1>5, Parts, BesideKeepsRows
<1>7. OtherTypes'
  BY <1>5, Parts, BesideKeepsTypes DEF OtherTypes, AdminInvites, otherVars, history, RowParts
<1>8. Holding'
  BY <1>1, <1>2, Parts, HoldingKept DEF AdminInvites, otherVars, history
<1>9. SigningIn' /\ SignInFindsAccount'
  BY <1>1, <1>2, Parts, SigningKept DEF AdminInvites, eraVars, otherVars
<1>10. OfferedIsStored'
  <2>1. \A x \in Rows : Table[x] = "export_artifacts" => Inserted(x).status # "ready"
    BY DEF Inserted
  <2> QED
    BY <1>1, <2>1, Parts, OfferedKept DEF AdminInvites, eraVars
<1>11. LateMail'
  BY Parts DEF LateMail, AdminInvites, history
<1> QED
  BY <1>6, <1>7, <1>8, <1>9, <1>10, <1>11, IInvNext

LEMMA RepeatStep ==
    ASSUME IInv, ErasureRepeats
    PROVE  IInv'
<1>1. PICK a \in UnusedAudits : /\ a \in Rows /\ Table[a] = "audit_events" /\ row[a].status = "absent"
                          /\ Link[a].target_id = EraseRequest /\ a # NewAccount /\ a # EraseRequest
                          /\ row' \in [Rows -> Version] /\ row'[a] = Inserted(a)
                          /\ \A x \in Rows : x # a => row'[x] = row[x]
  <2>1. UnusedAudits # {} /\ row' = Audited(row) /\ row \in [Rows -> Version]
    BY Parts DEF ErasureRepeats, RowParts, RowTypes
  <2> QED
    BY <2>1, Parts, AuditMoves
<1>2. Move(a) /\ Free(a)
  <2>1. row'[Link[a].target_id].status # "absent"
    BY <1>1, Parts, ErasureAssumption
  <2> QED
    BY <1>1, <2>1, Parts, InsertMoves
<1>3. Beside
  BY <1>1, <1>2 DEF ErasureRepeats, eraVars, history, Beside, RowMoves
<1>4. RowParts'
  BY <1>3, Parts, BesideKeepsRows
<1>5. OtherTypes'
  BY <1>3, Parts, BesideKeepsTypes DEF OtherTypes, ErasureRepeats, otherVars, history, RowParts
<1>6. Holding'
  BY <1>1, Parts, HoldingKept DEF ErasureRepeats, otherVars, history
<1>7. SigningIn' /\ SignInFindsAccount'
  BY <1>1, Parts, SigningKept DEF ErasureRepeats, eraVars, otherVars
<1>8. OfferedIsStored'
  BY <1>1, Parts, OfferedKept DEF ErasureRepeats, eraVars
<1>9. LateMail'
  BY Parts DEF LateMail, ErasureRepeats, history
<1> QED
  BY <1>4, <1>5, <1>6, <1>7, <1>8, <1>9, IInvNext

-------------------------------------------------------------------------------
(* Signing in.                                                             *)

LEMMA AccountsAre ==
    ASSUME NEW u
    PROVE  u \in Accounts <=> /\ u \in Of(row, "users")
                              /\ Names(row, u, "external_auth_id", Subject)
BY DEF Accounts

\* Before the erasure the identity leads to the subject's account, afterwards it does not.
LEMMA AccountsKnow ==
    ASSUME IInv
    PROVE  /\ Anonymous(row) => outcome = "ready" /\ Subject \notin Accounts
           /\ Accounts = {} => Anonymous(row)
           /\ outcome = "ready" => Anonymous(row)
<1>1. Subject \in Of(row, "users")
  BY Parts, SubjectIs, OfIs, TablesAre
<1>2. Anonymous(row) => Subject \notin Accounts
  BY AccountsAre DEF Anonymous, Names
<1>3. Anonymous(row) => outcome = "ready"
  BY Parts, SubjectIs DEF RowParts, Intact, Anonymous
<1>4. Subject \notin Accounts => Anonymous(row)
  <2>1. "external_auth_id" \in DOMAIN Link[Subject] /\ Link[Subject]["external_auth_id"] = Subject
    BY SubjectIs, RowsAre
  <2> QED
    BY <1>1, <2>1, AccountsAre DEF Anonymous, Names
<1>5. outcome = "ready" => Anonymous(row)
  BY Parts DEF RowParts, Executed
<1> QED
  BY <1>2, <1>3, <1>4, <1>5

LEMMA GoesIs ==
    ASSUME login \in [DOMAIN login -> LoginType], NEW l \in DOMAIN login,
           NEW pc \in {"start", "create", "again", "refresh", "done", "conflict"},
           NEW u \in Rows \cup {NoRow}, NEW w \in SUBSET Profile, SignInGoes(l, pc, u, w)
    PROVE  /\ DOMAIN login' = DOMAIN login /\ login' \in [DOMAIN login' -> LoginType]
           /\ login'[l].pc = pc /\ login'[l].user = u /\ login'[l].writes = w
           /\ login'[l].erased => IF login[l].pc = "start" THEN outcome = "ready" ELSE login[l].erased
           /\ \A k \in DOMAIN login : k # l => login'[k] = login[k]
<1> DEFINE b == IF login[l].pc = "start" THEN outcome = "ready" ELSE login[l].erased
           v == [pc |-> pc, user |-> u, writes |-> w, erased |-> b]
<1>1. b \in BOOLEAN
  BY DEF LoginType
<1>2. login' = [login EXCEPT ![l] = v]
  BY DEF SignInGoes
<1> HIDE DEF b
<1>3. v \in LoginType
  BY <1>1 DEF LoginType
<1>4. v.pc = pc /\ v.user = u /\ v.writes = w /\ v.erased = b
  OBVIOUS
<1> HIDE DEF v
<1>5. DOMAIN login' = DOMAIN login /\ login' \in [DOMAIN login -> LoginType]
  BY <1>2, <1>3
<1>6. login'[l] = v /\ \A k \in DOMAIN login : k # l => login'[k] = login[k]
  BY <1>2, <1>5
<1>7. login'[l].erased => b
  BY <1>4, <1>6
<1> QED
  BY <1>4, <1>5, <1>6, <1>7 DEF b

\* A sign-in goes on, and the accounts can only become more.
LEMMA GoesKeeps ==
    ASSUME IInv, NEW l \in DOMAIN login, NEW pc \in {"create", "again", "refresh", "done"},
           NEW u \in Rows \cup {NoRow}, NEW w \in SUBSET Profile, SignInGoes(l, pc, u, w),
           outcome' = outcome, Anonymous(row) => Anonymous(row'),
           Accounts # {} => Accounts' # {}, Of(row, "users") \subseteq Of(row, "users")',
           pc = "refresh" => u \in Of(row, "users")',
           pc \in {"create", "again"} => Anonymous(row'),
           pc = "again" => Accounts' # {},
           (IF login[l].pc = "start" THEN outcome = "ready" ELSE login[l].erased) => u # Subject
    PROVE  SigningIn' /\ SignInFindsAccount' /\ login' \in [DOMAIN login' -> LoginType]
<1>1. login \in [DOMAIN login -> LoginType]
  BY Parts DEF OtherTypes
<1>2. /\ DOMAIN login' = DOMAIN login /\ login' \in [DOMAIN login' -> LoginType]
      /\ login'[l].pc = pc /\ login'[l].user = u
      /\ login'[l].erased => IF login[l].pc = "start" THEN outcome = "ready" ELSE login[l].erased
      /\ \A k \in DOMAIN login : k # l => login'[k] = login[k]
  BY <1>1, GoesIs
<1>3. SigningIn /\ SignInFindsAccount
  BY Parts
<1>4. ASSUME NEW k \in DOMAIN login'
      PROVE  /\ login'[k].pc = "refresh" => login'[k].user \in Of(row, "users")'
             /\ login'[k].pc \in {"create", "again"} => Anonymous(row')
             /\ login'[k].pc = "again" => Accounts' # {}
             /\ login'[k].erased => outcome' = "ready"
             /\ login'[k].pc # "conflict"
             /\ login'[k].erased => login'[k].user # Subject
  <2>1. CASE k = l
    <3>1. login'[k].erased => outcome = "ready"
      BY <1>2, <1>3, <2>1 DEF SigningIn
    <3> QED
      BY <1>2, <2>1, <3>1
  <2>2. CASE k # l
    BY <1>2, <1>3, <2>2 DEF SigningIn, SignInFindsAccount
  <2> QED
    BY <2>1, <2>2
<1>5. SigningIn'
  BY <1>4 DEF SigningIn, Anonymous
<1>6. SignInFindsAccount'
  BY <1>4 DEF SignInFindsAccount
<1> QED
  BY <1>2, <1>5, <1>6

\* A step of sign-in l that reads only.
LEMMA GoesOnly ==
    ASSUME IInv, NEW l \in DOMAIN login, NEW pc \in {"create", "again", "refresh", "done"},
           NEW u \in Rows \cup {NoRow}, NEW w \in SUBSET Profile, SignInGoes(l, pc, u, w),
           UNCHANGED <<row, eraVars, objects, job, arch, history>>,
           pc = "refresh" => u \in Of(row, "users"),
           pc \in {"create", "again"} => Anonymous(row),
           pc = "again" => Accounts # {},
           (IF login[l].pc = "start" THEN outcome = "ready" ELSE login[l].erased) => u # Subject
    PROVE  IInv'
<1>1. row' = row /\ outcome' = outcome /\ Accounts' = Accounts /\ Of(row, "users")' = Of(row, "users")
  BY DEF eraVars, Accounts, Of, Names
<1>2. SigningIn' /\ SignInFindsAccount' /\ login' \in [DOMAIN login' -> LoginType]
  BY <1>1, GoesKeeps
<1>3. RowParts'
  BY Parts, Unmoved DEF eraVars, history
<1>4. OtherTypes'
  BY <1>2, Parts DEF OtherTypes, history, Of
<1>5. Holding'
  BY Parts, HoldingKept DEF history
<1>6. OfferedIsStored'
  BY Parts, OfferedKept DEF eraVars
<1>7. LateMail'
  BY Parts DEF LateMail, history
<1> QED
  BY <1>2, <1>3, <1>4, <1>5, <1>6, <1>7, IInvNext

\* The account u is read, by a sign-in that may not get the erased one.
LEMMA LoadStep ==
    ASSUME IInv, NEW l \in DOMAIN login, NEW u \in Accounts, Loads(l, u),
           UNCHANGED <<row, eraVars, objects, job, arch, history>>,
           (IF login[l].pc = "start" THEN outcome = "ready" ELSE login[l].erased) => u # Subject
    PROVE  IInv'
<1>1. u \in Of(row, "users") /\ u \in Rows
  BY AccountsAre, OfIs, TablesAre
<1>2. PICK changed \in {{}, Profile} :
        LET w == changed \cup (row[u].gone \cap Profile) IN
        SignInGoes(l, IF w = {} THEN "done" ELSE "refresh", u, w)
  BY DEF Loads
<1> DEFINE w == changed \cup (row[u].gone \cap Profile)
<1>3. w \in SUBSET Profile
  OBVIOUS
<1>4. SignInGoes(l, "done", u, w) \/ SignInGoes(l, "refresh", u, w)
  BY <1>2
<1> HIDE DEF w
<1> QED
  BY <1>1, <1>3, <1>4, GoesOnly

LEMMA ReadStep ==
    ASSUME IInv, NEW l \in DOMAIN login, LoginReads(l)
    PROVE  IInv'
<1>1. UNCHANGED <<row, eraVars, objects, job, arch, history>> /\ login[l].pc = "start"
  BY DEF LoginReads
<1>2. CASE \E u \in Accounts : Loads(l, u)
  <2>1. PICK u \in Accounts : Loads(l, u)
    BY <1>2
  <2>2. outcome = "ready" => u # Subject
    BY AccountsKnow
  <2> QED
    BY <1>1, <2>1, <2>2, LoadStep
<1>3. CASE Accounts = {} /\ SignInGoes(l, "create", NoRow, {})
  <2>1. Anonymous(row) /\ NoRow # Subject
    BY <1>3, AccountsKnow, ErasureAssumption, SubjectIs
  <2> QED
    BY <1>1, <1>3, <2>1, GoesOnly
<1> QED
  BY <1>2, <1>3 DEF LoginReads

LEMMA AgainStep ==
    ASSUME IInv, NEW l \in DOMAIN login, LoginAgain(l)
    PROVE  IInv'
<1>1. UNCHANGED <<row, eraVars, objects, job, arch, history>> /\ login[l].pc = "again"
  BY DEF LoginAgain
<1>2. Anonymous(row) /\ Accounts # {}
  BY <1>1, Parts DEF SigningIn
<1>3. PICK u \in Accounts : SignInGoes(l, "done", u, {}) \/ Loads(l, u)
  BY <1>2 DEF LoginAgain, Rereads
<1>4. u # Subject /\ u \in Rows
  BY <1>2, AccountsKnow, AccountsAre, OfIs, TablesAre
<1>5. CASE SignInGoes(l, "done", u, {})
  BY <1>1, <1>4, <1>5, GoesOnly
<1>6. CASE Loads(l, u)
  BY <1>1, <1>4, <1>6, LoadStep
<1> QED
  BY <1>3, <1>5, <1>6

LEMMA CreateStep ==
    ASSUME IInv, NEW l \in DOMAIN login, LoginCreates(l)
    PROVE  IInv'
<1>1. UNCHANGED <<eraVars, objects, job, arch, history>> /\ login[l].pc = "create"
  BY DEF LoginCreates
<1>2. Anonymous(row) /\ outcome = "ready"
  BY <1>1, Parts, AccountsKnow DEF SigningIn
<1>3. CASE Accounts # {}
  <2>1. SignInGoes(l, "again", NoRow, {}) /\ UNCHANGED row /\ NoRow # Subject
    BY <1>3, ErasureAssumption, SubjectIs DEF LoginCreates
  <2> QED
    BY <1>1, <1>2, <1>3, <2>1, GoesOnly
<1>4. CASE Accounts = {}
  <2> DEFINE u == NewAccount
  <2>1. row' = [row EXCEPT ![u] = Inserted(u)] /\ SignInGoes(l, "done", u, {})
    BY <1>4 DEF LoginCreates
  <2>2. u \in Rows /\ Table[u] = "users" /\ u # Subject
    BY ErasureAssumption
  <2>3. row \in [Rows -> Version]
    BY Parts DEF RowParts, RowTypes
  <2>4. Inserted(u) \in Version /\ Inserted(u).gone = {} /\ Inserted(u).status = "kept"
    BY <2>2, Versions DEF Inserted, Statuses
  <2>5. /\ row' \in [Rows -> Version] /\ row'[u] = Inserted(u)
        /\ \A x \in Rows : x # u => row'[x] = row[x]
    BY <2>1, <2>2, <2>3, <2>4
  <2>6. Free(u)
    BY <1>2, Parts DEF RowParts, RowTypes, Running, Free, Unlocked
  <2>7. Move(u)
    <3>1. u \notin seen
      BY Parts DEF RowParts, Executed
    <3> QED
      BY <1>2, <2>2, <2>4, <2>5, <3>1 DEF Move, MayLose
  <2>8. Beside
    BY <1>1, <2>5, <2>6, <2>7 DEF Beside, RowMoves, eraVars, history
  <2>9. RowParts'
    BY <2>8, Parts, BesideKeepsRows
  <2>10. Anonymous(row') /\ Of(row, "users") \subseteq Of(row, "users")' /\ outcome' = outcome
    BY <1>1, <1>2, <2>2, <2>4, <2>5, SubjectIs, TablesAre DEF Anonymous, Of, RowsOf, eraVars
  <2>11. SigningIn' /\ SignInFindsAccount' /\ login' \in [DOMAIN login' -> LoginType]
    <3>1. "done" \in {"create", "again", "refresh", "done"} /\ {} \in SUBSET Profile
      OBVIOUS
    <3> HIDE DEF u
    <3> QED
      BY <1>4, <2>1, <2>2, <2>10, <3>1, GoesKeeps
  <2>12. OtherTypes'
    BY <1>1, <2>8, <2>11, Parts, BesideKeepsTypes DEF OtherTypes, history, RowParts
  <2>13. Holding'
    BY <1>1, <2>2, <2>5, Parts, HoldingKept DEF history
  <2>14. OfferedIsStored'
    BY <1>1, <2>2, <2>5, Parts, OfferedKept DEF eraVars
  <2>15. LateMail'
    BY <1>1, Parts DEF LateMail, history
  <2> QED
    BY <2>9, <2>11, <2>12, <2>13, <2>14, <2>15, IInvNext
<1> QED
  BY <1>3, <1>4

LEMMA RefreshStep ==
    ASSUME IInv, NEW l \in DOMAIN login, LoginRefreshes(l)
    PROVE  IInv'
<1> DEFINE u == login[l].user
           w == login[l].writes
<1>1. /\ UNCHANGED <<eraVars, objects, job, arch, seen, released, lateMails>>
      /\ login[l].pc = "refresh" /\ Free(u) /\ SignInGoes(l, "done", u, {})
      /\ row' = [row EXCEPT ![u].gone = @ \ w]
      /\ restored' = IF u = Subject /\ outcome = "ready" THEN restored \cup w ELSE restored
  BY DEF LoginRefreshes
<1>2. u \in Rows /\ Table[u] = "users" /\ row[u].status # "absent" /\ w \subseteq Profile
  BY <1>1, Parts, OfIs, TablesAre DEF SigningIn, OtherTypes, LoginType
<1> HIDE DEF u, w
<1>3. row \in [Rows -> Version] /\ row[u] \in Version
  BY <1>2, Parts DEF RowParts, RowTypes
<1>4. /\ row' \in [Rows -> Version]
      /\ row'[u].gone = row[u].gone \ w /\ row'[u].status = row[u].status
      /\ \A x \in Rows : x # u => row'[x] = row[x]
  BY <1>1, <1>2, <1>3 DEF Version
<1>5. "external_auth_id" \notin w
  BY <1>2 DEF Profile
<1>6. Move(u)
  <2>1. row[u].gone \subseteq Columns(Table[u])
    BY <1>1, <1>2, Parts, ViewIs DEF RowParts, RowTypes, Free
  <2>2. MayLose(u, row[u])
    BY <1>2, Parts DEF RowParts, NothingElse, MayLose
  <2>3. MayLose(u, row'[u])
    BY <1>4, <2>2 DEF MayLose
  <2>4. outcome # "ready" => row[u].gone = {} /\ u # NewAccount
    BY <1>2, Parts DEF RowParts, Intact
  <2>5. u \in seen => MustGo[u] \ row'[u].gone \subseteq
          (MustGo[u] \ row[u].gone) \cup IF u = Subject THEN restored' ELSE {}
    <3>1. CASE u = Subject
      BY <1>1, <1>4, <2>4, <3>1
    <3>2. CASE u # Subject
      <4>1. u \in seen => u # NewAccount
        BY Parts DEF RowParts, Executed
      <4> QED
        BY <1>2, <3>2, <4>1, OthersDoNotName
    <3> QED
      BY <3>1, <3>2
  <2> QED
    BY <1>2, <1>4, <1>5, <2>1, <2>3, <2>4, <2>5 DEF Move
<1>7. Beside
  BY <1>1, <1>4, <1>6 DEF Beside, RowMoves, eraVars
<1>8. RowParts'
  BY <1>7, Parts, BesideKeepsRows
<1>9. /\ Anonymous(row) => Anonymous(row')
      /\ Of(row, "users") \subseteq Of(row, "users")' /\ outcome' = outcome
  BY <1>1, <1>2, <1>4, <1>5, SubjectIs, TablesAre DEF Anonymous, Of, RowsOf, eraVars
<1>10. Accounts # {} => Accounts' # {}
  <2>1. \A x \in Accounts : x \in Accounts'
    BY <1>4, <1>5, <1>9, TablesAre DEF Accounts, Names, Of, RowsOf
  <2> QED
    BY <2>1
<1>11. login[l].erased => u # Subject
  BY Parts DEF SignInFindsAccount, u
<1>12. SigningIn' /\ SignInFindsAccount' /\ login' \in [DOMAIN login' -> LoginType]
  <2>1. "done" \in {"create", "again", "refresh", "done"} /\ {} \in SUBSET Profile
    OBVIOUS
  <2>2. login[l].pc # "start"
    BY <1>1
  <2> QED
    BY <1>1, <1>2, <1>9, <1>10, <1>11, <2>1, <2>2, GoesKeeps
<1>13. OtherTypes'
  BY <1>1, <1>2, <1>7, <1>12, Parts, BesideKeepsTypes DEF OtherTypes, RowParts
<1>14. Holding'
  BY <1>1, <1>2, <1>4, Parts, HoldingKept
<1>15. OfferedIsStored'
  BY <1>1, <1>2, <1>4, Parts, OfferedKept DEF eraVars
<1>16. LateMail'
  BY <1>1, Parts DEF LateMail
<1> QED
  BY <1>8, <1>12, <1>13, <1>14, <1>15, <1>16, IInvNext

-------------------------------------------------------------------------------
(* The erasure's own steps.                                                *)

\* Steps that leave the committed rows and everybody else alone.
LEMMA OthersKept ==
    ASSUME IInv, UNCHANGED <<row, outcome, otherVars, released, lateMails, restored>>
    PROVE  /\ Holding' /\ SigningIn' /\ SignInFindsAccount' /\ Intact' /\ Whole'
           /\ TargetsExist' /\ NothingElse'
           /\ (UNCHANGED objects => OtherTypes' /\ OfferedIsStored')
           /\ (UNCHANGED seen => Executed' /\ Complete' /\ LateMail')
<1>1. Holding'
  BY Parts, HoldingKept DEF otherVars
<1>2. SigningIn' /\ SignInFindsAccount'
  BY Parts, SigningKept DEF otherVars
<1>3. Intact' /\ Whole' /\ TargetsExist' /\ NothingElse'
  BY Parts DEF RowParts, Intact, Whole, TargetsExist, NothingElse
<1>4. UNCHANGED objects => OtherTypes' /\ OfferedIsStored'
  BY Parts DEF OtherTypes, OfferedIsStored, otherVars, Of
<1>5. UNCHANGED seen => Executed' /\ Complete' /\ LateMail'
  BY Parts DEF RowParts, Executed, Complete, LateMail, MailHalts, ExportHalts, Anonymous
<1> QED
  BY <1>1, <1>2, <1>3, <1>4, <1>5

LEMMA RowGaps ==
    ASSUME RowParts, NEW r \in Rows
    PROVE  row[r].gone \subseteq Columns(Table[r])
<1>1. CASE Free(r)
  BY <1>1, ViewIs DEF RowParts, RowTypes, Free
<1>2. CASE ~Free(r)
  <2>1. outcome # "ready" /\ r \in DOMAIN draft
    BY <1>2 DEF Free, RowParts, RowTypes, Running, Unlocked
  <2>2. row[r].gone \subseteq {"payload_json"} /\ (row[r].gone # {} => Table[r] = "outbox_events")
    BY <2>1 DEF RowParts, Intact
  <2> QED
    BY <2>2, PoliciesAre, SimplePolicies, ColumnsAre
<1> QED
  BY <1>1, <1>2

LEMMA BeginStep ==
    ASSUME IInv, ErasureBegins
    PROVE  IInv'
<1>1. /\ UNCHANGED <<row, outcome, toDelete, objects, otherVars, released, lateMails, restored>>
      /\ era = NoErasure /\ outcome # "ready" /\ seen' = Present
      /\ era' = [step |-> 1, email |-> HasEmail(row), invites |-> InviteRows(row, HasEmail(row))]
      /\ draft' = [r \in {EraseRequest, Subject} |-> row[r]]
  BY DEF ErasureBegins
<1>2. /\ Holding' /\ SigningIn' /\ SignInFindsAccount' /\ Intact' /\ Whole'
      /\ TargetsExist' /\ NothingElse' /\ OtherTypes' /\ OfferedIsStored'
  BY <1>1, OthersKept
<1>3. row \in [Rows -> Version] /\ EraseRequest \in Rows /\ Subject \in Rows
  BY Parts, ErasureAssumption, SubjectIs DEF RowParts, RowTypes
<1>4. Unchanged(row, Subject) /\ EraseRequest # Subject
  <2>1. ErasureTypeOK /\ Intact
    BY DEF IInv
  <2> QED
    BY <1>1, <1>3, <2>1, Parts, Committed, SubjectIs, ErasureAssumption
<1>5. HasEmail(row) = TRUE
  BY <1>4, SubjectIs DEF HasEmail, Unchanged
<1>6. \A i \in InviteRows(row, HasEmail(row)) :
        i \in Rows /\ Table[i] = "invites" /\ row[i].status # "absent" /\ i \in Involved
  <2> SUFFICES ASSUME NEW i \in InviteRows(row, HasEmail(row))
               PROVE  i \in Rows /\ Table[i] = "invites" /\ row[i].status # "absent" /\ i \in Involved
    OBVIOUS
  <2>1. i \in Of(row, "invites")
    BY DEF InviteRows
  <2>2. i \in Rows /\ Table[i] = "invites" /\ row[i].status # "absent"
    BY <2>1, OfIs, TablesAre
  <2>3. Unchanged(row, i)
    BY <1>1, <2>2, Committed DEF IInv
  <2> QED
    BY <1>5, <2>2, <2>3, InvitesRight
<1>7. /\ era'.step = 1 /\ era'.email /\ era'.invites = InviteRows(row, HasEmail(row))
      /\ era'.invites \subseteq Rows /\ era'.step # 0
      /\ era' \in [step : 0 .. Len(ProviderOrder) + 1, email : BOOLEAN, invites : SUBSET Rows]
  <2> DEFINE e == HasEmail(row)
             I == InviteRows(row, HasEmail(row))
  <2>1. era' = [step |-> 1, email |-> e, invites |-> I] /\ e \in BOOLEAN /\ e = TRUE /\ I \subseteq Rows
    BY <1>1, <1>5, <1>6
  <2>2. 1 \in 0 .. Len(ProviderOrder) + 1
    BY OrderIs
  <2> HIDE DEF e, I
  <2>3. era'.step = 1 /\ era'.email = e /\ era'.invites = I
    BY <2>1
  <2>4. era' \in [step : 0 .. Len(ProviderOrder) + 1, email : BOOLEAN, invites : SUBSET Rows]
    BY <2>1, <2>2
  <2> QED
    BY <2>1, <2>3, <2>4 DEF I
<1>8. DOMAIN draft' = {EraseRequest, Subject} /\ \A r \in {EraseRequest, Subject} : draft'[r] = row[r]
  BY <1>1
<1>9. \A r \in Rows : View'[r] = row[r]
  BY <1>1, <1>8 DEF View, Free
<1>10. RowTypes'
  <2>1. Present' = Present /\ {EraseRequest, Subject} \subseteq Present
    BY <1>1, <1>3, Parts DEF Present
  <2>2. \A r \in Rows : row[r].status = "absent" => row[r].gone = {}
    BY Parts DEF RowParts, RowTypes
  <2>3. draft' # [r \in {} |-> NoRow]
    BY <1>8
  <2>4. toDelete \subseteq Of(row, "export_artifacts") /\ outcome \in {"not_started", "failed", "ready"}
    BY Parts DEF RowParts, RowTypes
  <2>5. draft' \in [DOMAIN draft' -> Version]
    BY <1>1, <1>3
  <2>6. \A r \in Rows : View'[r].gone \subseteq Columns(Table[r])
    BY <1>9, RowGaps, Parts
  <2>7. toDelete' \subseteq Of(row, "export_artifacts")'
    BY <1>1, <2>4 DEF Of
  <2> QED
    BY <1>1, <1>3, <1>7, <1>8, <2>1, <2>2, <2>3, <2>5, <2>6, <2>7, Parts
       DEF RowParts, RowTypes, Unlocked
<1>11. \A r \in Rows : MayLose(r, row[r])
  BY Parts DEF RowParts, NothingElse, MayLose
<1>12. Running'
  <2>1. ASSUME NEW r \in {EraseRequest, Subject} PROVE LockedRow(r)'
    <3>1. Table[r] \in {"users", "data_subject_requests"} /\ (Table[r] = "users" => r = Subject)
      BY SubjectIs, ErasureAssumption
    <3> QED
      BY <1>1, <1>3, <1>8, <1>11, <3>1, Parts DEF LockedRow, MayLose
  <2> QED
    BY <1>1, <1>6, <1>7, <1>8, <2>1 DEF Running
<1>13. Progress'
  <2>1. \A r \in seen' : r \in Rows /\ Turn[Table[r]] >= 1
    <3>1. \A t \in Tables : Turn[t] >= 1
      BY TablesAre, TurnsAre
    <3> QED
      BY <1>1, <3>1, RowsAre DEF Present
  <2>2. \A t \in Tables : Turn[t] \in 1 .. 10
    BY TablesAre, TurnsAre
  <2>3. \A r \in seen' : ~(1 > Turn[Table[r]])
    BY <1>1, <2>2, RowsAre DEF Present
  <2>4. ~(1 > 2) /\ ~(1 > 7) /\ ~(1 > 9)
    OBVIOUS
  <2> QED
    BY <1>7, <2>3, <2>4 DEF Progress
<1>14. Executed'
  BY <1>1, Parts, ErasureAssumption DEF RowParts, Intact, Executed, Present
<1>15. Deferrals'
  BY <1>1, <1>7, Parts DEF RowParts, Deferrals, NoErasure
<1>16. Complete'
  BY <1>1 DEF Complete
<1>17. LateMail'
  BY <1>1, Parts DEF LateMail, RowParts, Intact
<1> QED
  BY <1>2, <1>10, <1>12, <1>13, <1>14, <1>15, <1>16, <1>17, IInvNext DEF RowParts

LEMMA ProviderStep ==
    ASSUME IInv, ProviderRuns
    PROVE  IInv'
<1> DEFINE R == Located(View, Provider, era.email, era.invites)
           L == {r \in R : Table[r] \notin {"memberships", "organisations"}}
           W(r) == Minimised(View, r, era.email)
<1>1. /\ UNCHANGED <<row, outcome, objects, otherVars, history>>
      /\ era.step \in 1 .. Len(ProviderOrder) /\ ~Refuses(View, R)
      /\ draft' = [r \in DOMAIN draft \cup L |-> IF r \in L THEN W(r) ELSE draft[r]]
      /\ toDelete' = toDelete \cup Deferred(View, R)
      /\ era' = [era EXCEPT !.step = @ + 1]
  BY DEF ProviderRuns
<1>2. Provided(R)
  BY <1>1, ProviderRight, OrderIs DEF IInv
<1>3. era.step \in 1 .. 10 /\ era.step # 0 /\ Running /\ Progress
  BY <1>1, OrderIs, Parts DEF RowParts
<1>4. era \in [step : 0 .. 11, email : BOOLEAN, invites : SUBSET Rows]
  BY Parts, OrderIs DEF RowParts, RowTypes
<1>5. /\ era'.step = era.step + 1 /\ era'.email = era.email /\ era'.invites = era.invites
      /\ era' \in [step : 0 .. Len(ProviderOrder) + 1, email : BOOLEAN, invites : SUBSET Rows]
  BY <1>1, <1>3, <1>4, OrderIs
<1>6. Deferred(View, R) \subseteq {x \in R : Table[x] = "export_artifacts" /\ OwnArtifact(View, x)
                                             /\ View[x].status \in Keyed}
  BY DEF Deferred
<1> HIDE DEF R
<1>7. \A r \in L : /\ r \in Rows /\ Turn[Table[r]] = era.step /\ View[r] = row[r]
                   /\ row[r].status \notin {"absent", "processing"}
                   /\ Table[r] = "users" => r = Subject
                   /\ Rightly(r, row[r], W(r))
                   /\ W(r) # row[r] => Chosen(r)
  BY <1>2 DEF Provided
<1>8. \A r \in Rows : row[r].status # "absent" /\ Turn[Table[r]] = era.step /\ r \notin L =>
        /\ MustGo[r] \subseteq row[r].gone
        /\ Table[r] = "outbox_events" /\ r \in OwnRows => row[r].status = "processed"
        /\ Table[r] = "export_artifacts" => r \notin OwnRows
        /\ r # Subject
  BY <1>2 DEF Provided
<1>9. \A x \in Deferred(View, R) : x \in L /\ Table[x] = "export_artifacts"
                                   /\ W(x).status = "cancelled"
  <2> SUFFICES ASSUME NEW x \in Deferred(View, R)
               PROVE  x \in L /\ Table[x] = "export_artifacts" /\ W(x).status = "cancelled"
    OBVIOUS
  <2>1. x \in L /\ Table[x] = "export_artifacts" /\ OwnArtifact(View, x) /\ View[x].status \in Keyed
    BY <1>6
  <2>2. W(x) = ArtifactMinimised(View, x)
    BY <2>1 DEF Minimised
  <2> QED
    BY <2>1, <2>2 DEF ArtifactMinimised
<1> HIDE DEF L, W
<1>10. /\ DOMAIN draft' = DOMAIN draft \cup L
       /\ \A r \in L : draft'[r] = W(r)
       /\ \A r \in DOMAIN draft \ L : draft'[r] = draft[r]
  BY <1>1
<1>11. DOMAIN draft \subseteq Present /\ draft \in [DOMAIN draft -> Version] /\ Present' = Present
  BY <1>1, Parts DEF RowParts, RowTypes, Present
<1>12. \A r \in Rows : /\ r \in L => View'[r] = W(r)
                       /\ r \notin L => View'[r] = View[r]
  BY <1>1, <1>10 DEF View, Free
<1>13. /\ Holding' /\ SigningIn' /\ SignInFindsAccount' /\ Intact' /\ Whole'
       /\ TargetsExist' /\ NothingElse' /\ OtherTypes' /\ OfferedIsStored'
       /\ Executed' /\ Complete' /\ LateMail'
  BY <1>1, OthersKept DEF history
<1>14. RowTypes'
  <2>1. L \subseteq Present
    BY <1>7 DEF Present
  <2>2. \A r \in L : W(r) \in Version /\ W(r).gone \subseteq Columns(Table[r])
    BY <1>7 DEF Rightly
  <2>3. draft' \in [DOMAIN draft' -> Version]
    BY <1>1, <1>11, <2>2
  <2>4. \A r \in Rows : /\ View'[r].gone \subseteq Columns(Table[r])
                        /\ row[r].status = "absent" => row[r].gone = {}
    BY <1>12, <2>2, Parts DEF RowParts, RowTypes
  <2>5. draft' # [r \in {} |-> NoRow]
    <3>1. Subject \in DOMAIN draft'
      BY <1>3, <1>10 DEF Running
    <3> QED
      BY <3>1
  <2>6. toDelete' \subseteq Of(row, "export_artifacts")
    <3>1. toDelete \subseteq Of(row, "export_artifacts")
      BY Parts DEF RowParts, RowTypes
    <3> QED
      BY <1>1, <1>7, <1>9, <3>1, OfIs, TablesAre
  <2>7. row \in [Rows -> Version] /\ outcome \in {"not_started", "failed", "ready"} /\ seen \subseteq Present
    BY Parts DEF RowParts, RowTypes
  <2> QED
    BY <1>1, <1>3, <1>5, <1>10, <1>11, <2>1, <2>3, <2>4, <2>5, <2>6, <2>7
       DEF RowTypes, Unlocked, Of, history
<1>15. Running'
  <2>1. ASSUME NEW r \in L PROVE LockedRow(r)'
    <3>1. Chosen(r) => Chosen(r)'
      BY <1>1, <1>5 DEF Chosen, Names
    <3>2. Turn[Table[r]] \in 1 .. 10
      BY <1>3, <1>7
    <3> QED
      BY <1>1, <1>3, <1>5, <1>7, <1>10, <3>1, <3>2 DEF LockedRow, Rightly, MayLose
  <2>2. ASSUME NEW r \in DOMAIN draft, r \notin L PROVE LockedRow(r)'
    <3>1. LockedRow(r) /\ draft'[r] = draft[r] /\ r \in Rows
      BY <1>3, <1>10, <1>11, <2>2 DEF Running, Present
    <3>2. Chosen(r) => Chosen(r)'
      BY <1>1, <1>5 DEF Chosen, Names
    <3>3. Turn[Table[r]] \in 1 .. 10
      BY <3>1, RowsAre, TablesAre, TurnsAre
    <3> QED
      BY <1>1, <1>3, <1>5, <3>1, <3>2, <3>3 DEF LockedRow, MayLose
  <2>3. \A r \in DOMAIN draft' : LockedRow(r)'
    BY <1>10, <2>1, <2>2
  <2> QED
    BY <1>1, <1>3, <1>5, <1>10, <2>3 DEF Running
<1>16. \A t \in Tables : Turn[t] \in 1 .. 10
  BY TablesAre, TurnsAre
<1>17. \A r \in seen : r \in Rows /\ row[r].status # "absent"
  BY Parts DEF RowParts, RowTypes, Present
<1>18. Progress'
  <2>1. ASSUME NEW r \in seen, era.step + 1 > Turn[Table[r]]
        PROVE  MustGo[r] \subseteq View'[r].gone
    <3>1. r \in Rows /\ row[r].status # "absent" /\ Turn[Table[r]] \in 1 .. 10
      BY <1>16, <1>17, RowsAre
    <3>2. CASE r \in L
      BY <1>7, <1>12, <3>1, <3>2 DEF Rightly
    <3>3. CASE r \notin L /\ Turn[Table[r]] = era.step
      <4>1. View[r] = row[r]
        BY <1>3, <3>1, <3>3, Waiting DEF IInv
      <4> QED
        BY <1>8, <1>12, <3>1, <3>3, <4>1
    <3>4. CASE r \notin L /\ Turn[Table[r]] # era.step
      <4>1. era.step > Turn[Table[r]]
        BY <1>3, <2>1, <3>1, <3>4
      <4> QED
        BY <1>3, <1>12, <3>1, <3>4, <4>1 DEF Progress
    <3> QED
      BY <3>2, <3>3, <3>4
  <2>2. era.step + 1 > 2 => MailHalts(View')
    <3> SUFFICES ASSUME era.step + 1 > 2, NEW r \in OwnRows \cap seen, Table[r] = "outbox_events"
                 PROVE  View'[r].status \notin {"pending", "processing"}
      BY DEF MailHalts
    <3>1. CASE r \in L
      BY <1>7, <1>12, <1>17, <3>1 DEF Rightly
    <3>2. CASE r \notin L /\ era.step = 2
      <4>1. View[r] = row[r]
        BY <1>3, <1>17, <3>2, TurnsAre, Waiting DEF IInv
      <4> QED
        BY <1>8, <1>12, <1>17, <3>2, <4>1, TurnsAre
    <3>3. CASE r \notin L /\ era.step # 2
      BY <1>3, <1>12, <1>17, <3>3 DEF Progress, MailHalts
    <3> QED
      BY <3>1, <3>2, <3>3
  <2>3. era.step + 1 > 7 => ExportHalts(View')
    <3> SUFFICES ASSUME era.step + 1 > 7, NEW r \in OwnRows, Table[r] = "export_artifacts"
                 PROVE  View'[r].status \notin LiveArtifact
      BY DEF ExportHalts
    <3>1. r \in Rows
      BY DEF OwnRows
    <3>2. CASE r \in L
      BY <1>7, <1>12, <3>1, <3>2 DEF Rightly
    <3>3. CASE r \notin L /\ era.step = 7
      <4>1. View[r] = row[r]
        BY <1>3, <3>1, <3>3, TurnsAre, Waiting DEF IInv
      <4>2. row[r].status = "absent"
        BY <1>8, <3>1, <3>3, TurnsAre
      <4> QED
        BY <1>12, <3>1, <3>3, <4>1, <4>2 DEF LiveArtifact
    <3>4. CASE r \notin L /\ era.step # 7
      BY <1>3, <1>12, <3>1, <3>4 DEF Progress, ExportHalts
    <3> QED
      BY <3>2, <3>3, <3>4
  <2>4. era.step + 1 > 9 => Anonymous(View')
    <3>1. CASE Subject \in L
      BY <1>7, <1>12, <3>1, SubjectIs DEF Rightly, Anonymous
    <3>2. CASE Subject \notin L /\ era.step > 9
      BY <1>3, <1>12, <3>2, SubjectIs DEF Progress, Anonymous
    <3>3. era.step = 9 => Subject \in L
      BY <1>8, SubjectIs, TurnsAre, Parts
    <3> QED
      BY <1>3, <3>1, <3>2, <3>3
  <2> QED
    BY <1>1, <1>5, <2>1, <2>2, <2>3, <2>4 DEF Progress, history, MailHalts, ExportHalts, Anonymous
<1>19. Deferrals'
  <2>1. \A x \in Deferred(View, R) : View'[x].status = "cancelled" /\ x \in DOMAIN draft'
    BY <1>7, <1>9, <1>10, <1>12
  <2>2. ASSUME NEW x \in toDelete PROVE View'[x].status = "cancelled" /\ x \in DOMAIN draft'
    <3>1. View[x].status = "cancelled" /\ x \in DOMAIN draft /\ x \in Rows /\ Table[x] = "export_artifacts"
      BY <1>3, Parts, OfIs, TablesAre DEF RowParts, RowTypes, Deferrals
    <3>2. CASE x \in L
      BY <1>7, <1>10, <1>12, <3>1, <3>2 DEF Rightly
    <3>3. CASE x \notin L
      BY <1>10, <1>12, <3>1, <3>3
    <3> QED
      BY <3>2, <3>3
  <2> QED
    BY <1>1, <1>3, <1>5, <2>1, <2>2 DEF Deferrals
<1> QED
  BY <1>13, <1>14, <1>15, <1>18, <1>19, IInvNext DEF RowParts

\* Rolled back, the erasure leaves what is committed.
LEMMA Rollback ==
    ASSUME IInv, draft' = Unlocked, era' = NoErasure, toDelete' = {},
           UNCHANGED <<row, outcome, objects, otherVars, history>>
    PROVE  IInv'
<1>1. /\ Holding' /\ SigningIn' /\ SignInFindsAccount' /\ Intact' /\ Whole'
      /\ TargetsExist' /\ NothingElse' /\ OtherTypes' /\ OfferedIsStored'
      /\ Executed' /\ Complete' /\ LateMail'
  BY OthersKept DEF history
<1>2. DOMAIN draft' = {} /\ \A r \in Rows : View'[r] = row[r]
  BY DEF View, Free, Unlocked
<1>3. era'.step = 0
  BY DEF NoErasure
<1>4. RowTypes'
  <2>1. \A r \in Rows : View'[r].gone \subseteq Columns(Table[r])
    BY <1>2, RowGaps, Parts
  <2>2. /\ row \in [Rows -> Version] /\ outcome \in {"not_started", "failed", "ready"}
        /\ seen \subseteq Present /\ \A r \in Rows : row[r].status = "absent" => row[r].gone = {}
    BY Parts DEF RowParts, RowTypes
  <2>3. Unlocked \in [DOMAIN Unlocked -> Version] /\ DOMAIN Unlocked = {}
    BY DEF Unlocked
  <2>4. NoErasure \in [step : 0 .. Len(ProviderOrder) + 1, email : BOOLEAN, invites : SUBSET Rows]
    BY OrderIs DEF NoErasure
  <2> QED
    BY <1>2, <1>3, <2>1, <2>2, <2>3, <2>4 DEF RowTypes, Present, history
<1>5. Running' /\ Progress' /\ Deferrals'
  BY <1>3 DEF Running, Progress, Deferrals
<1> QED
  BY <1>1, <1>4, <1>5, IInvNext DEF RowParts

LEMMA CrashStep ==
    ASSUME IInv, ErasureCrashes
    PROVE  IInv'
BY Rollback DEF ErasureCrashes

LEMMA DeleteStep ==
    ASSUME IInv, NEW x \in toDelete, ObjectDeleted(x)
    PROVE  IInv'
<1>1. /\ UNCHANGED <<row, draft, era, outcome, otherVars, history>> /\ era = NoErasure
      /\ toDelete' = toDelete \ {x} /\ objects' \in {objects, objects \ {x}}
  BY DEF ObjectDeleted
<1>2. /\ Holding' /\ SigningIn' /\ SignInFindsAccount' /\ Intact' /\ Whole'
      /\ TargetsExist' /\ NothingElse' /\ Executed' /\ Complete' /\ LateMail'
  BY <1>1, OthersKept DEF history
<1>3. \A r \in Rows : View'[r] = View[r]
  BY <1>1 DEF View, Free
<1>4. x \in Rows /\ row[x].status = "cancelled"
  <2>1. x \in Rows /\ View[x].status = "cancelled" /\ draft = Unlocked
    BY <1>1, Parts, OfIs, TablesAre DEF RowParts, RowTypes, Deferrals, NoErasure
  <2> QED
    BY <2>1, ViewIs DEF Unlocked
<1>5. RowTypes' /\ OtherTypes'
  BY <1>1, <1>3, Parts DEF RowParts, RowTypes, OtherTypes, otherVars, history, Present, Of,
     Unlocked, NoErasure
<1>6. Running' /\ Progress'
  BY <1>1 DEF Running, Progress, NoErasure
<1>7. Deferrals'
  <2>1. \A y \in toDelete : y \in Rows
    BY Parts, OfIs, TablesAre DEF RowParts, RowTypes
  <2> QED
    BY <1>1, <1>3, <2>1, Parts DEF RowParts, Deferrals
<1>8. OfferedIsStored'
  BY <1>1, <1>4, Parts DEF OfferedIsStored, Of
<1> QED
  BY <1>2, <1>5, <1>6, <1>7, <1>8, IInvNext DEF RowParts

LEMMA FailStep ==
    ASSUME IInv, ErasureFails
    PROVE  IInv'
<1>1. /\ UNCHANGED <<objects, otherVars, history>> /\ era # NoErasure /\ UnusedAudits # {}
      /\ row' = Audited(row) /\ outcome' = "failed" /\ draft' = Unlocked /\ era' = NoErasure
      /\ toDelete' = {}
  BY DEF ErasureFails, Discarded
<1>2. outcome # "ready" /\ row \in [Rows -> Version]
  BY <1>1, Parts DEF RowParts, RowTypes, Running
<1>3. PICK a \in UnusedAudits : /\ a \in Rows /\ Table[a] = "audit_events" /\ row[a].status = "absent"
                          /\ Link[a].target_id = EraseRequest /\ a # NewAccount /\ a # EraseRequest
                          /\ a # Subject
                          /\ row' \in [Rows -> Version] /\ row'[a] = Inserted(a)
                          /\ \A x \in Rows : x # a => row'[x] = row[x]
  BY <1>1, <1>2, Parts, AuditMoves
<1>4. Inserted(a).gone = {} /\ Inserted(a).status = "kept"
  BY <1>3 DEF Inserted
<1>5. \A r \in Rows : row'[r].gone = row[r].gone
  BY <1>3, <1>4, Parts DEF RowParts, RowTypes
<1>6. DOMAIN draft' = {} /\ (\A r \in Rows : View'[r] = row'[r]) /\ era'.step = 0
  BY <1>1 DEF View, Free, Unlocked, NoErasure
<1>7. RowTypes'
  <2>1. \A r \in Rows : View'[r].gone \subseteq Columns(Table[r])
    BY <1>5, <1>6, RowGaps, Parts
  <2>2. \A r \in Rows : row'[r].status = "absent" => row'[r].gone = {}
    BY <1>3, <1>4, Parts DEF RowParts, RowTypes
  <2>3. Unlocked \in [DOMAIN Unlocked -> Version] /\ DOMAIN Unlocked = {}
    BY DEF Unlocked
  <2>4. NoErasure \in [step : 0 .. Len(ProviderOrder) + 1, email : BOOLEAN, invites : SUBSET Rows]
    BY OrderIs DEF NoErasure
  <2>5. seen \subseteq Present'
    BY <1>3, <1>4, Parts DEF RowParts, RowTypes, Present
  <2> QED
    BY <1>1, <1>3, <1>6, <2>1, <2>2, <2>3, <2>4, <2>5 DEF RowTypes, history
<1>8. Intact' /\ Whole'
  BY <1>2, <1>3, <1>4, <1>5, <1>1, Parts, ErasureAssumption DEF RowParts, Intact, Whole, history
<1>9. NothingElse'
  <2>1. \A r \in Rows : MayLose(r, row[r])
    BY Parts DEF RowParts, NothingElse, MayLose
  <2>2. \A r \in Rows : MayLose(r, row'[r])
    BY <1>3, <1>4, <2>1 DEF MayLose
  <2> QED
    BY <2>2 DEF NothingElse, MayLose
<1>10. TargetsExist'
  <2>1. \A r \in Rows : row[r].status # "absent" => row'[r].status # "absent"
    BY <1>3, <1>4
  <2>2. \A b \in Rows : Table[b] = "audit_events" => Link[b].target_id \in Rows
    BY RecordsAssumption
  <2> QED
    BY <1>3, <2>1, <2>2, Parts, SubjectIs, ErasureAssumption DEF RowParts, TargetsExist
<1>11. Running' /\ Progress' /\ Deferrals' /\ Complete'
  BY <1>1, <1>6 DEF Running, Progress, Deferrals, Complete
<1>12. Executed'
  BY <1>1, Parts DEF RowParts, Executed, history
<1>13. OtherTypes' /\ OfferedIsStored' /\ LateMail'
  <2>1. Of(row, "export_artifacts")' = Of(row, "export_artifacts")
    BY <1>3, TablesAre DEF Of, RowsOf
  <2>2. OtherTypes'
    BY <1>1, <2>1, Parts DEF OtherTypes, otherVars, history
  <2>3. OfferedIsStored'
    <3>1. \A x \in Of(row, "export_artifacts") : row'[x] = row[x] /\ x \in Rows
      BY <1>3, OfIs, TablesAre
    <3> QED
      BY <1>1, <2>1, <3>1, Parts DEF OfferedIsStored
  <2> QED
    BY <1>1, <2>2, <2>3, Parts DEF LateMail, history
<1>14. Holding'
  BY <1>1, <1>3, Parts, HoldingKept DEF otherVars, history
<1>15. SigningIn' /\ SignInFindsAccount'
  <2>1. ~Anonymous(row)
    BY <1>2, AccountsKnow
  <2>2. \A l \in DOMAIN login : login[l].pc \notin {"create", "again"} /\ ~login[l].erased
    BY <1>2, <2>1, Parts DEF SigningIn
  <2>3. Of(row, "users") \subseteq Of(row, "users")'
    BY <1>3, TablesAre DEF Of, RowsOf
  <2> QED
    BY <1>1, <2>2, <2>3, Parts DEF SigningIn, SignInFindsAccount, otherVars
<1> QED
  BY <1>7, <1>8, <1>9, <1>10, <1>11, <1>12, <1>13, <1>14, <1>15, IInvNext DEF RowParts

LEMMA CommitStep ==
    ASSUME IInv, ErasureCommits
    PROVE  IInv'
<1>1. /\ UNCHANGED <<toDelete, objects, otherVars, history>> /\ era.step = Len(ProviderOrder) + 1
      /\ UnusedAudits # {} /\ row' = Audited(View) /\ outcome' = "ready" /\ draft' = Unlocked
      /\ era' = NoErasure
  BY DEF ErasureCommits
<1>2. era.step = 11 /\ outcome # "ready" /\ Running /\ Progress
  BY <1>1, OrderIs, Parts DEF RowParts, Running
<1>3. View \in [Rows -> Version]
  BY Parts DEF RowParts, RowTypes, View, Free
<1>4. PICK a \in UnusedAudits : /\ a \in Rows /\ Table[a] = "audit_events" /\ row[a].status = "absent"
                          /\ Link[a].target_id = EraseRequest /\ a # NewAccount /\ a # EraseRequest
                          /\ a # Subject
                          /\ row' \in [Rows -> Version] /\ row'[a] = Inserted(a)
                          /\ \A x \in Rows : x # a => row'[x] = View[x]
  BY <1>1, <1>3, Parts, AuditMoves
<1>5. Inserted(a).gone = {} /\ Inserted(a).status = "kept"
  BY <1>4 DEF Inserted
<1>6. \A r \in Rows : \/ r \in DOMAIN draft /\ LockedRow(r) /\ View[r] = draft[r]
                      \/ View[r] = row[r]
  BY <1>2, ViewIs DEF Running
<1>7. \A r \in Rows : row[r].status # "absent" => row'[r].status # "absent"
  BY <1>4, <1>5, <1>6 DEF LockedRow
<1>8. a \notin seen /\ seen \subseteq Rows /\ seen \subseteq Present'
  BY <1>4, <1>7, Parts DEF RowParts, RowTypes, Present
<1>9. DOMAIN draft' = {} /\ (\A r \in Rows : View'[r] = row'[r]) /\ era'.step = 0
  BY <1>1 DEF View, Free, Unlocked, NoErasure
<1>10. Of(row, "export_artifacts") \subseteq Of(row, "export_artifacts")'
  BY <1>7, TablesAre DEF Of, RowsOf
<1>11. RowTypes'
  <2>1. \A r \in Rows : /\ View[r].gone \subseteq Columns(Table[r])
                        /\ row[r].status = "absent" => row[r].gone = {}
    BY Parts DEF RowParts, RowTypes
  <2>2. \A r \in Rows : View'[r].gone \subseteq Columns(Table[r])
    BY <1>4, <1>5, <1>9, <2>1
  <2>3. \A r \in Rows : row'[r].status = "absent" => row'[r].gone = {}
    BY <1>4, <1>5, <1>6, <2>1 DEF LockedRow
  <2>4. Unlocked \in [DOMAIN Unlocked -> Version] /\ DOMAIN Unlocked = {}
    BY DEF Unlocked
  <2>5. NoErasure \in [step : 0 .. Len(ProviderOrder) + 1, email : BOOLEAN, invites : SUBSET Rows]
    BY OrderIs DEF NoErasure
  <2>6. toDelete \subseteq Of(row, "export_artifacts")
    BY Parts DEF RowParts, RowTypes
  <2> QED
    BY <1>1, <1>4, <1>8, <1>9, <1>10, <2>2, <2>3, <2>4, <2>5, <2>6 DEF RowTypes, history
<1>12. Intact'
  BY <1>1 DEF Intact
<1>13. Whole'
  BY <1>4, <1>5, <1>6, Parts DEF RowParts, Whole, LockedRow
<1>14. NothingElse'
  <2>1. \A r \in Rows : MayLose(r, row[r])
    BY Parts DEF RowParts, NothingElse, MayLose
  <2>2. MayLose(a, Inserted(a))
    BY <1>5 DEF MayLose
  <2>3. \A r \in Rows : MayLose(r, row'[r])
    BY <1>4, <1>6, <2>1, <2>2 DEF LockedRow
  <2> QED
    BY <2>3 DEF NothingElse, MayLose
<1>15. TargetsExist'
  <2>1. \A b \in Rows : Table[b] = "audit_events" => Link[b].target_id \in Rows
    BY RecordsAssumption
  <2>2. \A b \in Rows : b # a /\ row'[b].status # "absent" => row[b].status # "absent"
    <3>1. DOMAIN draft \subseteq Present
      BY Parts DEF RowParts, RowTypes
    <3> QED
      BY <1>4, <1>6, <3>1 DEF Present
  <2> QED
    BY <1>4, <1>5, <1>7, <2>1, <2>2, Parts, SubjectIs, ErasureAssumption DEF RowParts, TargetsExist
<1>16. Running' /\ Progress'
  BY <1>9 DEF Running, Progress
<1>17. MailHalts(row') /\ ExportHalts(row') /\ Anonymous(row')
  <2>1. MailHalts(View) /\ ExportHalts(View) /\ Anonymous(View)
    BY <1>2 DEF Progress
  <2>2. MailHalts(row')
    BY <1>4, <1>8, <2>1 DEF MailHalts
  <2>3. ExportHalts(row')
    BY <1>4, <2>1 DEF ExportHalts, OwnRows
  <2>4. Anonymous(row')
    BY <1>4, <2>1, SubjectIs DEF Anonymous
  <2> QED
    BY <2>2, <2>3, <2>4
<1>18. Executed'
  BY <1>1, <1>17, Parts DEF RowParts, Executed, history, MailHalts, ExportHalts, Anonymous
<1>19. Deferrals'
  <2>1. \A x \in toDelete : x \in Rows /\ x # a
    BY <1>4, Parts, OfIs, TablesAre DEF RowParts, RowTypes
  <2> QED
    BY <1>1, <1>4, <1>9, <2>1, Parts DEF RowParts, Deferrals
<1>20. Complete'
  <2>1. \A t \in Tables : 11 > Turn[t]
    BY TablesAre, TurnsAre
  <2>2. \A r \in seen : MustGo[r] \subseteq View[r].gone
    BY <1>2, <1>8, <2>1, RowsAre DEF Progress
  <2> QED
    BY <1>1, <1>4, <1>8, <2>2 DEF Complete, history
<1>21. OtherTypes'
  BY <1>1, <1>10, Parts DEF OtherTypes, otherVars, history
<1>22. Holding'
  BY <1>1, <1>4, <1>6, Parts, HoldingKept DEF otherVars, history, LockedRow
<1>23. SigningIn' /\ SignInFindsAccount'
  <2>1. ~Anonymous(row)
    BY <1>2, AccountsKnow
  <2>2. \A l \in DOMAIN login : login[l].pc \notin {"create", "again"} /\ ~login[l].erased
    BY <1>2, <2>1, Parts DEF SigningIn
  <2>3. Of(row, "users") \subseteq Of(row, "users")'
    BY <1>7, TablesAre DEF Of, RowsOf
  <2> QED
    BY <1>1, <2>2, <2>3, Parts DEF SigningIn, SignInFindsAccount, otherVars
<1>24. OfferedIsStored'
  <2> SUFFICES ASSUME NEW x \in Rows, Table[x] = "export_artifacts", row'[x].status = "ready"
               PROVE  x \in objects /\ x \notin OwnRows
    BY <1>1, TablesAre DEF OfferedIsStored, Of, RowsOf
  <2>1. x \notin OwnRows
    BY <1>17 DEF ExportHalts, LiveArtifact
  <2>2. row[x].status = "ready"
    BY <1>4, <1>6 DEF LockedRow
  <2>3. x \in Of(row, "export_artifacts")
    BY <2>2, OfIs, TablesAre
  <2> QED
    BY <2>1, <2>2, <2>3, Parts DEF OfferedIsStored
<1>25. LateMail'
  BY <1>1, Parts DEF LateMail, history
<1> QED
  BY <1>11, <1>12, <1>13, <1>14, <1>15, <1>16, <1>18, <1>19, <1>20, <1>21, <1>22, <1>23, <1>24,
     <1>25, IInvNext DEF RowParts

-------------------------------------------------------------------------------
(* The invariant holds.                                                    *)

LEMMA Starting ==
    ASSUME ErasureInit
    PROVE  IInv
<1>1. PICK st \in FirstStatuses : row = [r \in Rows |-> [gone |-> {}, status |-> st[r]]]
  BY DEF ErasureInit
<1>2. /\ draft = Unlocked /\ era = NoErasure /\ outcome = "not_started" /\ toDelete = {}
      /\ objects = {x \in Rows : Table[x] = "export_artifacts" /\ row[x].status = "ready"}
      /\ seen = {} /\ released = {} /\ lateMails = {} /\ restored = {}
  BY DEF ErasureInit
<1>3. PICK cast \in Casts :
        /\ job = IF "worker" \in cast THEN NoJob ELSE [NoJob EXCEPT !.pc = "away"]
        /\ arch = IF "export" \in cast THEN NoArchive ELSE [NoArchive EXCEPT !.pc = "away"]
        /\ login = [l \in IF "login" \in cast THEN Logins ELSE {} |-> Outside]
  BY DEF ErasureInit
<1>4. /\ \A r \in Rows : st[r] \in Statuses /\ row[r].gone = {} /\ row[r].status = st[r]
      /\ row \in [Rows -> Version]
  <2>1. \A r \in Rows : st[r] \in Statuses
    BY ErasureAssumption
  <2>2. \A r \in Rows : [gone |-> {}, status |-> st[r]] \in Version
    BY <2>1, Versions
  <2> QED
    BY <1>1, <2>1, <2>2
<1>5. DOMAIN draft = {} /\ era.step = 0 /\ \A r \in Rows : View[r] = row[r]
  BY <1>2 DEF Unlocked, NoErasure, View, Free
<1>6. RowTypes
  <2>1. NoErasure \in [step : 0 .. Len(ProviderOrder) + 1, email : BOOLEAN, invites : SUBSET Rows]
    BY OrderIs DEF NoErasure
  <2>2. Unlocked \in [DOMAIN Unlocked -> Version]
    BY DEF Unlocked
  <2> QED
    BY <1>2, <1>4, <1>5, <2>1, <2>2 DEF RowTypes
<1>7. OtherTypes
  <2>1. objects \subseteq Of(row, "export_artifacts")
    BY <1>2, OfIs, TablesAre
  <2>2. job \in [pc : {"away", "idle", "holding", "mailed"}, event : Rows \cup {NoRow}]
    BY <1>3 DEF NoJob
  <2>3. arch \in [pc : {"away", "idle", "writing"}, artifact : Rows \cup {NoRow}]
    BY <1>3 DEF NoArchive
  <2>4. login \in [DOMAIN login -> LoginType]
    BY <1>3 DEF Outside, LoginType
  <2> QED
    BY <1>2, <2>1, <2>2, <2>3, <2>4 DEF OtherTypes
<1>8. TargetsExist
  <2>1. \A a \in Rows : Table[a] = "audit_events" => Link[a].target_id \in Rows
    BY RecordsAssumption
  <2>2. st[Subject] # "absent" /\ st[EraseRequest] # "absent" /\ Subject \in Rows /\ EraseRequest \in Rows
    BY ErasureAssumption, SubjectIs
  <2>3. \A a \in Rows :
          Table[a] = "audit_events" /\ (st[a] # "absent" \/ a \in LateRows) =>
             \/ st[Link[a].target_id] # "absent"
             \/ st[a] = "absent" /\ Link[a].target_id \in LateRows
    BY ErasureAssumption
  <2> QED
    BY <1>4, <2>1, <2>2, <2>3 DEF TargetsExist
<1>9. Intact /\ Whole /\ NothingElse
  BY <1>2, <1>4, ErasureAssumption DEF Intact, Whole, NothingElse
<1>10. Running /\ Progress /\ Executed /\ Deferrals /\ Complete
  BY <1>2, <1>5 DEF Running, Progress, Executed, Deferrals, Complete
<1>11. Holding
  <2>1. job.pc \in {"idle", "away"} /\ arch.pc \in {"idle", "away"}
    BY <1>3 DEF NoJob, NoArchive
  <2> QED
    BY <2>1 DEF Holding
<1>12. SigningIn /\ SignInFindsAccount
  <2>1. \A l \in DOMAIN login : login[l].pc = "start" /\ ~login[l].erased
    BY <1>3 DEF Outside
  <2> QED
    BY <2>1 DEF SigningIn, SignInFindsAccount
<1>13. LateMail /\ OfferedIsStored
  BY <1>2, OfIs, TablesAre DEF LateMail, OfferedIsStored
<1> QED
  BY <1>6, <1>7, <1>8, <1>9, <1>10, <1>11, <1>12, <1>13, IInvParts DEF RowParts

LEMMA Stepping ==
    ASSUME IInv, [ErasureNext]_erasureVars
    PROVE  IInv'
<1>1. CASE Erasure
  <2>1. CASE ErasureBegins
    BY <2>1, BeginStep
  <2>2. CASE ProviderRuns
    BY <2>2, ProviderStep
  <2>3. CASE ErasureCrashes
    BY <2>3, CrashStep
  <2>4. CASE ErasureFails
    BY <2>4, FailStep
  <2>5. CASE ErasureCommits
    BY <2>5, CommitStep
  <2>6. CASE ErasureRepeats
    BY <2>6, RepeatStep
  <2>7. CASE \E x \in toDelete : ObjectDeleted(x)
    BY <2>7, DeleteStep
  <2> QED
    BY <1>1, <2>1, <2>2, <2>3, <2>4, <2>5, <2>6, <2>7 DEF Erasure
<1>2. CASE Worker
  <2>1. CASE \E e \in Of(row, "outbox_events") : WorkerClaims(e) \/ WorkerDrops(e)
    BY <2>1, ClaimStep, DropStep
  <2>2. CASE WorkerMails
    BY <2>2, MailStep
  <2>3. CASE WorkerFinishes
    BY <2>3, FinishStep
  <2>4. CASE EventReleased
    BY <2>4, ReleaseStep
  <2> QED
    BY <1>2, <2>1, <2>2, <2>3, <2>4 DEF Worker
<1>3. CASE ExportWorker
  <2>1. CASE \E x \in Of(row, "export_artifacts") : OwnArtifact(row, x) /\ ExportClaims(x)
    BY <2>1, LeaseStep
  <2>2. CASE ExportEnds
    BY <2>2, ArchiveEndStep
  <2>3. CASE ExportFails
    BY <2>3, ArchiveFailStep
  <2>4. CASE LeaseRecovered
    BY <2>4, RecoverStep
  <2> QED
    BY <1>3, <2>1, <2>2, <2>3, <2>4 DEF ExportWorker
<1>4. CASE AdminInvites
  BY <1>4, InviteStep
<1>5. CASE \E a \in Of(row, "audit_events") : HoldEnds(a)
  BY <1>5, HoldStep
<1>6. CASE \E l \in DOMAIN login : SignIn(l)
  BY <1>6, ReadStep, RefreshStep, CreateStep, AgainStep DEF SignIn
<1>7. CASE UNCHANGED erasureVars
  <2>1. UNCHANGED <<row, draft, era, outcome, toDelete, objects, job, arch, login, seen, released,
                    lateMails, restored>>
    BY <1>7 DEF erasureVars, eraVars, otherVars, history
  <2>2. RowParts'
    BY <2>1, Parts, Unmoved
  <2>3. /\ Holding' /\ SigningIn' /\ SignInFindsAccount' /\ OtherTypes' /\ OfferedIsStored'
        /\ LateMail'
    BY <2>1, OthersKept DEF otherVars
  <2> QED
    BY <2>2, <2>3, IInvNext
<1> QED
  BY <1>1, <1>2, <1>3, <1>4, <1>5, <1>6, <1>7 DEF ErasureNext

-------------------------------------------------------------------------------
(* What follows from the invariant.                                        *)

\* A row that the erasure changes is one the preview counts.
LEMMA ChangedArePreviewed ==
    ASSUME IInv, NEW r \in DOMAIN draft, draft[r] # row[r]
    PROVE  r \in Previewed(row) /\ Table[r] \in Executable
<1>1. era.step # 0 /\ r \in Rows /\ row[r].status # "absent" /\ Running /\ TargetsExist
  BY Parts DEF RowParts, RowTypes, Unlocked, Present
<1>2. outcome # "ready" /\ LockedRow(r) /\ Chosen(r) /\ (Table[r] = "users" => r = Subject)
  BY <1>1 DEF Running, LockedRow
<1>3. \A x \in Rows : row[x].status # "absent" => Unchanged(row, x)
  BY <1>2, Committed DEF IInv
<1>4. Unchanged(row, r) /\ Unchanged(row, Subject)
  BY <1>1, <1>3, Parts, SubjectIs
<1> DEFINE e == HasEmail(row)
<1>5. e = TRUE
  BY <1>4, SubjectIs DEF HasEmail, Unchanged
<1> HIDE DEF e
<1>6. InviteRows(row, e) \subseteq PreviewInvites(row)
  BY PreviewAgrees DEF e
<1>7. Table[r] \in Executable
  BY <1>2, TablesAre DEF Chosen, Executable
<1>8. CASE Table[r] = "outbox_events"
  <2>1. era.invites \subseteq PreviewInvites(row)
    <3> SUFFICES ASSUME NEW i \in era.invites PROVE i \in PreviewInvites(row)
      OBVIOUS
    <3>1. i \in Rows /\ Table[i] = "invites" /\ row[i].status # "absent" /\ i \in Involved
      BY <1>1, Parts DEF Running, RowParts, RowTypes
    <3> QED
      BY <1>3, <1>5, <1>6, <3>1, InvitesRight
  <2>2. \/ Link[r].aggregate_id \in PreviewInvites(row)
        \/ Names(row, r, "payload_json", Subject)
    BY <1>2, <1>8, <2>1 DEF Chosen
  <2>3. r \in Of(row, "outbox_events") /\ "email" \notin row[Subject].gone
    BY <1>1, <1>5, <1>8, OfIs, TablesAre DEF e, HasEmail
  <2>4. \A i : Link[r].aggregate_id = i => Names(row, r, "aggregate_id", i)
    BY <1>1, <1>4, <1>8, RecordsAssumption DEF Names, Unchanged
  <2>5. r \in PreviewOutbox(row)
    BY <2>2, <2>3, <2>4 DEF PreviewOutbox
  <2> QED
    BY <1>7, <2>5 DEF Previewed
<1>9. CASE Table[r] = "audit_events"
  <2> DEFINE x == Link[r].target_id
  <2>1. x \in Rows /\ row[x].status # "absent"
    BY <1>1, <1>9, RecordsAssumption DEF TargetsExist
  <2>2. row[NewAccount].status = "absent"
    BY <1>2, Parts DEF RowParts, Intact
  <2>3. Table[x] = "users" /\ x \in Involved => x = Subject
    BY <2>1, <2>2, OthersDoNotName
  <2>4. r \in Involved \cup AboutInvolved
    BY <1>2, <1>9 DEF Chosen
  <2>5. r \in AuditRows(row)
    BY <1>1, <1>3, <1>4, <1>5, <1>9, <2>1, <2>3, <2>4, AuditRight
  <2> QED
    BY <1>7, <2>5, PreviewAgrees DEF Previewed
<1>10. CASE Table[r] \notin {"outbox_events", "audit_events"}
  <2>1. r \in Involved
    BY <1>2, <1>10 DEF Chosen, AboutInvolved
  <2>2. CASE Table[r] = "users"
    BY <1>2, <1>7, <2>2 DEF Previewed
  <2>3. CASE Table[r] = "invites"
    <3>1. r \in InviteRows(row, e)
      BY <1>1, <1>4, <1>5, <2>1, <2>3, InvitesRight
    <3> QED
      BY <1>6, <1>7, <3>1 DEF Previewed
  <2>4. CASE Table[r] = "platform_staff"
    <3>1. r \in StaffRows(row)
      BY <1>1, <1>4, <1>5, <2>1, <2>4, StaffRight
    <3> QED
      BY <1>7, <3>1, PreviewAgrees DEF Previewed
  <2>5. CASE Table[r] = "export_artifacts"
    <3>1. r \in ArtifactRows(row)
      BY <1>1, <1>4, <1>5, <2>1, <2>5, ArtifactsRight
    <3> QED
      BY <1>7, <3>1, PreviewAgrees DEF Previewed
  <2>6. CASE Table[r] = "data_subject_requests"
    <3>1. r \in RequestRows(row)
      BY <1>1, <1>4, <1>5, <2>1, <2>6, RequestsRight
    <3> QED
      BY <1>7, <3>1, PreviewAgrees DEF Previewed
  <2>7. CASE Table[r] \in Governance
    <3>1. r \in GovernanceRows(row)
      BY <1>1, <1>4, <1>5, <2>1, <2>7, GovernanceRight
    <3> QED
      BY <1>7, <3>1, PreviewAgrees DEF Previewed
  <2>8. Table[r] \in {"users", "invites", "platform_staff", "export_artifacts",
                      "data_subject_requests"} \cup Governance
    BY <1>7, <1>10, TablesAre DEF Executable, Governance
  <2> QED
    BY <2>2, <2>3, <2>4, <2>5, <2>6, <2>7, <2>8
<1> QED
  BY <1>8, <1>9, <1>10

LEMMA PreviewCoversAll ==
    ASSUME IInv
    PROVE  PreviewCovers
<1> DEFINE changed == {r \in DOMAIN draft : draft[r] # row[r]}
<1>1. \A r \in changed : r \in Previewed(row) /\ Table[r] \in Executable
  BY ChangedArePreviewed
<1>2. ASSUME NEW r \in changed, (draft[r].gone \ row[r].gone) \cap PolicyOf[Table[r]].review # {}
      PROVE  Readiness(Table[r]) # "automatic"
  <2>1. Table[r] \in Executable /\ PolicyOf[Table[r]].review # {}
    BY <1>1, <1>2
  <2> QED
    BY <2>1, ReviewIsAnnounced
<1> QED
  BY <1>1, <1>2 DEF PreviewCovers

\* A record of a row as it is committed is fair.
LEMMA RecordsFair ==
    ASSUME IInv, NEW t \in Tables, NEW r \in Exported(row, t)
    PROVE  FairRecord(r, row[r], RecordOf(row, r))
<1>1. /\ r \in Rows /\ Table[r] = t /\ (t = "users" => r = Subject)
      /\ t = "data_subject_requests" => r \in RequestRows(row)
      /\ t = "export_artifacts" => r \in ArtifactRows(row)
  BY Parts, ExportedAre
<1>2. t \in {"data_subject_requests", "export_artifacts"} =>
        row[r].gone = {} \/ SubjectLinks[r] \subseteq row[r].gone
  <2>1. t \in {"data_subject_requests", "export_artifacts"} => SubjectLinks[r] \subseteq MustGo[r]
    BY <1>1, MustGoIs DEF KeptLinks
  <2> QED
    BY <1>1, <2>1, Parts DEF RowParts, Whole
<1>3. CASE t = "invites"
  BY <1>1, <1>3, InviteRecordsFair
<1>4. CASE t = "audit_events"
  BY <1>1, <1>4, AuditRecordsFair
<1>5. CASE t = "platform_staff"
  BY <1>1, <1>5, StaffRecordsFair
<1>6. CASE t = "data_subject_requests"
  BY <1>1, <1>2, <1>6, RequestRecordsFair
<1>7. CASE t = "export_artifacts"
  BY <1>1, <1>2, <1>7, ArtifactRecordsFair
<1>8. CASE t \in {"users", "memberships", "organisations", "outbox_events"} \cup Governance
  BY <1>1, <1>8, PlainRecordsFair
<1> QED
  BY <1>3, <1>4, <1>5, <1>6, <1>7, <1>8, TablesAre DEF Governance

LEMMA ArchiveFair ==
    ASSUME IInv
    PROVE  ArchiveIsFair
<1> SUFFICES ASSUME NEW r \in Written
             PROVE  LET record == RecordOf(row, r) IN
                    /\ record.shown \cap PolicyOf[Table[r]].secret = {}
                    /\ record.shown \cap PolicyOf[Table[r]].identify # {} => r \in OwnRows
                    /\ r \in OwnRows =>
                         EntryOf[Table[r]].fields \ Empty(r) \subseteq record.shown \cup record.redacted
  BY DEF ArchiveIsFair
<1>1. PICK t \in Tables : r \in Exported(row, t)
  BY DEF Written
<1>2. FairRecord(r, row[r], RecordOf(row, r))
  BY <1>1, RecordsFair
<1> QED
  BY <1>2 DEF FairRecord, Empty

-------------------------------------------------------------------------------
(* The theorems.                                                           *)

\* The invariant above holds in every state of every execution.
THEOREM Invariance == ErasureSpec => []IInv
<1>1. ErasureInit => IInv
  BY Starting
<1>2. IInv /\ [ErasureNext]_erasureVars => IInv'
  BY Stepping
<1> QED
  BY <1>1, <1>2, PTL DEF ErasureSpec

\* The variables keep their types: a column goes only from a table that has it, and a row is
\* locked only while an erasure runs.
THEOREM TypesHold == ErasureSpec => []ErasureTypeOK
<1>1. IInv => ErasureTypeOK
  BY DEF IInv
<1> QED
  BY <1>1, Invariance, PTL

\* execute_core_erasure_for_approved_request: an executed erasure left nothing of the subject in
\* the rows its snapshot saw, whatever was inserted, mailed or exported meanwhile.
THEOREM ErasureIsComplete == ErasureSpec => []Complete
<1>1. IInv => Complete
  BY DEF IInv
<1> QED
  BY <1>1, Invariance, PTL

\* The providers' queries and the worker's scrubbing: a row that is not about the subject loses
\* only its links to the subject and the context of what they lead to, and the payload of an
\* invite event only when the mail was sent or the invite involves the subject. What a row about
\* the subject loses beyond its policy is not claimed here (RetainedStays).
THEOREM NobodyElseLoses == ErasureSpec => []NothingElse
<1>1. IInv => NothingElse
  BY DEF IInv
<1> QED
  BY <1>1, Invariance, PTL

\* impact.py: each row the erasure has changed is one the preview counts in the committed data,
\* with the readiness it announced.
THEOREM PreviewToldTheTruth == ErasureSpec => []PreviewCovers
<1>1. IInv => PreviewCovers
  BY PreviewCoversAll
<1> QED
  BY <1>1, Invariance, PTL

\* The outbox worker mails the subject after the erasure only if its event was taken from it or
\* came after the snapshot.
THEOREM NoLateMail == ErasureSpec => []LateMail
<1>1. IInv => LateMail
  BY DEF IInv
<1> QED
  BY <1>1, Invariance, PTL

\* get_or_create_current_user: no sign-in ends in a conflict, and none that starts after the
\* erasure gets the erased account.
THEOREM SignInsFindTheirAccount == ErasureSpec => []SignInFindsAccount
<1>1. IInv => SignInFindsAccount
  BY DEF IInv
<1> QED
  BY <1>1, Invariance, PTL

\* An artifact offered for download is stored, also after an erasure that failed or crashed;
\* after one that was executed the subject's are not offered.
THEOREM OffersAreStored == ErasureSpec => []OfferedIsStored
<1>1. IInv => OfferedIsStored
  BY DEF IInv
<1> QED
  BY <1>1, Invariance, PTL

\* exporters/subject_data.py: whatever is committed while an archive is written, its records
\* show no secret and nobody else's identifiers, and drop no field silently.
THEOREM ArchivesAreFair == ErasureSpec => []ArchiveIsFair
<1>1. IInv => ArchiveIsFair
  BY ArchiveFair
<1> QED
  BY <1>1, Invariance, PTL
===============================================================================
