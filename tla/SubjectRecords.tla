---------------------------- MODULE SubjectRecords ----------------------------
(***************************************************************************)
(* The rows that can name one data subject, and what three parts of        *)
(* app/privacy make of them, each with queries of its own: the erasure     *)
(* providers (app/privacy/erasures), the impact preview (impact.py) and    *)
(* the export providers (exporters/subject_data.py).                       *)
(*                                                                         *)
(* A row's table and the values it was written with never change, they are *)
(* constants; the columns that were nulled or replaced by a tombstone, and *)
(* the status, are the database's state. Queries read a view of it: a      *)
(* function from rows to [gone, status].                                   *)
(***************************************************************************)
EXTENDS SubjectInventory

CONSTANTS
    Rows,       \* row ids; a row named in a column stands for its id
    Table,      \* the table of a row
    Link,       \* the columns of a row that name a row or an address, with the value
    Subject     \* the subject's row of users; in an email column, its address

\* The columns of each table that can hold a user's id, address or identity: its
\* foreign keys to users, the target of an audit event, the address of an invite.
Naming ==
    [users |-> {"email", "external_auth_id"}, memberships |-> {"user_id"},
     organisations |-> {}, invites |-> {"email", "revoked_by_user_id"},
     outbox_events |-> {"payload_json"}, audit_events |-> {"actor_user_id", "target_id"},
     platform_staff |-> {"user_id", "created_by_user_id"},
     data_subject_requests |-> RequestLinks, export_artifacts |-> ArtifactLinks,
     data_processing_authorizations |-> {"subject_user_id"},
     consent_records |-> {"subject_user_id"},
     privacy_notice_acceptances |-> {"subject_user_id"}]

\* AuditTargetType; events about consents and notices have the user as their target.
AuditedTables == {"users", "organisations", "memberships", "invites", "platform_staff",
                  "data_subject_requests", "export_artifacts"}

ASSUME RecordsAssumption ==
    /\ Table \in [Rows -> Tables]
    /\ Subject \in Rows /\ Table[Subject] = "users"
    /\ Link[Subject].external_auth_id = Subject /\ "external_auth_id" \in DOMAIN Link[Subject]
    /\ \A r \in Rows :
         /\ DOMAIN Link[r] \subseteq Columns(Table[r])
         /\ \A c \in DOMAIN Link[r] : Link[r][c] = Subject => c \in Naming[Table[r]]
         /\ Table[r] = "audit_events" =>
              /\ "target_id" \in DOMAIN Link[r]
              /\ Link[r].target_id \in Rows /\ Table[Link[r].target_id] \in AuditedTables
         /\ Table[r] = "outbox_events" =>      \* the payload is made from the invite
              /\ "aggregate_id" \in DOMAIN Link[r]
              /\ Link[r].aggregate_id \in Rows /\ Table[Link[r].aggregate_id] = "invites"
              /\ "payload_json" \in DOMAIN Link[r] /\ Link[r].payload_json = Subject =>
                   LET i == Link[r].aggregate_id IN
                   "email" \in DOMAIN Link[i] /\ Link[i].email = Subject

\* Rows of table t in view V.
RowsOf == [t \in Tables |-> {r \in Rows : Table[r] = t}]
Of(V, t) == {r \in RowsOf[t] : V[r].status # "absent"}

\* Column c of row r holds x.
Names(V, r, c, x) == c \in DOMAIN Link[r] \ V[r].gone /\ Link[r][c] = x

\* One of the columns C of row r holds the subject's id.
NamesSubject(V, r, C) == \E c \in C : Names(V, r, c, Subject)

\* Row r, an audit event, has a row of R as its target.
Targets(V, a, R) == "target_id" \notin V[a].gone /\ Link[a].target_id \in R

HasEmail(V) == "email" \notin V[Subject].gone

-------------------------------------------------------------------------------
(* The erasure's queries. The audit provider reads the profile's email     *)
(* itself; the outbox and invite providers get the snapshot's email and    *)
(* the outbox provider the snapshot's invites.                             *)

\* _lock_subject_invites, and _subject_invite_ids of the snapshots.
InviteRows(V, email) ==
    {i \in Of(V, "invites") : \/ Names(V, i, "revoked_by_user_id", Subject)
                              \/ email /\ Names(V, i, "email", Subject)}

\* _lock_subject_outbox_events; the payload carries the invitee's address.
OutboxRows(V, email, invites) ==
    {e \in Of(V, "outbox_events") : \/ \E i \in invites : Names(V, e, "aggregate_id", i)
                                    \/ email /\ Names(V, e, "payload_json", Subject)}

\* _subject_membership_ids
MembershipRows(V) == {m \in Of(V, "memberships") : Names(V, m, "user_id", Subject)}

\* _subject_organisation_ids
OrganisationRows(V) ==
    {g \in Of(V, "organisations") :
        \E m \in MembershipRows(V) : Names(V, m, "organisation_id", g)}

\* _lock_platform_staff_rows
StaffRows(V) ==
    {p \in Of(V, "platform_staff") : NamesSubject(V, p, {"user_id", "created_by_user_id"})}

\* _lock_dsr_rows
RequestRows(V) ==
    {d \in Of(V, "data_subject_requests") : NamesSubject(V, d, RequestLinks)}

\* _lock_export_artifact_rows
ArtifactRows(V) == {x \in Of(V, "export_artifacts") : NamesSubject(V, x, ArtifactLinks)}

\* _lock_authorization_rows, _lock_consent_rows, _lock_notice_rows
GovernanceRows(V) ==
    {g \in UNION {Of(V, t) : t \in {"data_processing_authorizations", "consent_records",
                                    "privacy_notice_acceptances"}} :
        Names(V, g, "subject_user_id", Subject)}

\* _build_target_snapshot: the rows whose audit events are about the subject.
AuditTargets(V) ==
    {Subject} \cup InviteRows(V, HasEmail(V)) \cup MembershipRows(V) \cup RequestRows(V)
        \cup ArtifactRows(V) \cup StaffRows(V)

\* _lock_subject_audit_events
AuditRows(V) ==
    LET targets == AuditTargets(V) IN
    {a \in Of(V, "audit_events") : \/ Names(V, a, "actor_user_id", Subject)
                                   \/ Targets(V, a, targets)}

\* The rows the provider of the tables T locks (or, of memberships and
\* organisations, only reads).
Located(V, T, email, invites) ==
    CASE "audit_events" \in T -> AuditRows(V)
      [] "outbox_events" \in T -> OutboxRows(V, email, invites)
      [] "invites" \in T -> InviteRows(V, email)
      [] "memberships" \in T -> MembershipRows(V)
      [] "organisations" \in T -> OrganisationRows(V)
      [] "platform_staff" \in T -> StaffRows(V)
      [] "export_artifacts" \in T -> ArtifactRows(V)
      [] "consent_records" \in T -> GovernanceRows(V)
      [] "users" \in T -> {Subject}
      [] "data_subject_requests" \in T -> RequestRows(V)

-------------------------------------------------------------------------------
(* What a provider makes of a located row.                                 *)

Without(row, C) == [row EXCEPT !.gone = @ \cup C]

\* The columns C of row r that hold the subject's id.
OwnLinks(V, r, C) == {c \in C : Names(V, r, c, Subject)}

AuditContext == {"reason", "metadata_json", "ip_address", "user_agent"}

\* _minimise_audit_event
AuditMinimised(V, a) ==
    Without(V[a], OwnLinks(V, a, {"actor_user_id"}) \cup AuditContext
                    \cup IF Targets(V, a, AuditTargets(V)) THEN {"target_id"} ELSE {})

\* _scrub_outbox_event: safe payload keys stay; a pending event fails for good.
\* The error text of a delivery goes, the erasure's own marker stands for it.
OutboxScrubbed(V, e) ==
    [gone |-> V[e].gone \cup {"payload_json", "last_error"}
                        \cup IF V[e].status = "pending" THEN {"locked_at", "next_attempt_at"}
                             ELSE {},
     status |-> IF V[e].status = "pending" THEN "failed" ELSE V[e].status]

\* _anonymise_invite; a scrubbed invite no longer has the address.
InviteAnonymised(V, i, email) ==
    LET invitee == email /\ Names(V, i, "email", Subject) IN
    [gone |-> V[i].gone \cup OwnLinks(V, i, {"revoked_by_user_id"})
                        \cup IF invitee THEN {"email", "token_hash", "expires_at"} ELSE {},
     status |-> IF invitee /\ V[i].status = "pending" THEN "revoked" ELSE V[i].status]

\* _minimise_platform_staff_rows
StaffMinimised(V, p) ==
    Without(V[p], OwnLinks(V, p, {"created_by_user_id"}) \cup {"suspended_reason"})

\* _is_subject_owned_export_artifact
OwnArtifact(V, x) == NamesSubject(V, x, {"subject_user_id", "requester_user_id"})

\* The statuses of an artifact that has a storage key and is not being written:
\* requeued is a queued one, unpurged a failed one whose worker left the key.
Keyed == {"ready", "requeued", "unpurged"}

\* _minimise_export_artifact_rows; storage_key stays as the marker of a purge.
ArtifactMinimised(V, x) ==
    LET own == OwnArtifact(V, x) IN
    [gone |-> V[x].gone \cup OwnLinks(V, x, ArtifactLinks)
                        \cup IF own THEN {"filename", "content_type", "size_bytes",
                                          "checksum_sha256", "failure_detail",
                                          "processing_token", "processing_lease_expires_at"}
                             ELSE {},
     status |-> IF own /\ V[x].status \in Keyed \cup {"queued"} THEN "cancelled"
                ELSE V[x].status]

\* _clear_field_on_rows, of authorizations and notices only.
GovernanceMinimised(V, g) ==
    IF Table[g] = "consent_records" THEN V[g] ELSE Without(V[g], {"source"})

\* _anonymise_subject_profile; the two flags are overwritten with FALSE.
ProfileAnonymised(V, u) ==
    Without(V[u], {"external_auth_id", "email", "email_verified", "first_name", "last_name",
                   "onboarding_completed", "suspended_reason"})

\* Variant: a request the subject only reviewed is treated as the subject's.
EveryRequestIsOwn(V, d) ==
    Without(V[d], OwnLinks(V, d, RequestLinks) \cup RequestColumns.erase
                    \cup RequestColumns.review \cup {"export_artifact_id", "erasure_job_id"})

\* _minimise_dsr_rows
RequestMinimised(V, d) ==
    Without(V[d], OwnLinks(V, d, RequestLinks)
                    \cup IF NamesSubject(V, d, {"requester_user_id", "subject_user_id"})
                         THEN RequestColumns.erase \cup RequestColumns.review
                                \cup {"representative_rejection_reason_code",
                                      "export_artifact_id", "erasure_job_id"}
                         ELSE {})

Minimised(V, r, email) ==
    CASE Table[r] = "audit_events" -> AuditMinimised(V, r)
      [] Table[r] = "outbox_events" -> OutboxScrubbed(V, r)
      [] Table[r] = "invites" -> InviteAnonymised(V, r, email)
      [] Table[r] \in {"memberships", "organisations"} -> V[r]
      [] Table[r] = "platform_staff" -> StaffMinimised(V, r)
      [] Table[r] = "export_artifacts" -> ArtifactMinimised(V, r)
      [] Table[r] = "users" -> ProfileAnonymised(V, r)
      [] Table[r] = "data_subject_requests" -> RequestMinimised(V, r)
      [] OTHER -> GovernanceMinimised(V, r)

-------------------------------------------------------------------------------
(* The impact preview's own queries: the rows it counts.                   *)

\* Variant: staff the subject appointed are not counted.
OwnStaffOnly(V) == {p \in Of(V, "platform_staff") : Names(V, p, "user_id", Subject)}

\* _count_subject_platform_staff
PreviewStaff(V) ==
    {p \in Of(V, "platform_staff") : NamesSubject(V, p, {"user_id", "created_by_user_id"})}

\* _subject_invite_ids
PreviewInvites(V) ==
    {i \in Of(V, "invites") :
        \/ Names(V, i, "revoked_by_user_id", Subject)
        \/ "email" \notin V[Subject].gone /\ Names(V, i, "email", Subject)}

\* _count_subject_outbox_events
PreviewOutbox(V) ==
    LET invites == PreviewInvites(V) IN
    {e \in Of(V, "outbox_events") :
        \/ \E i \in invites : Names(V, e, "aggregate_id", i)
        \/ "email" \notin V[Subject].gone /\ Names(V, e, "payload_json", Subject)}

\* _subject_membership_ids and the counts of the tables with a subject column.
PreviewDirect(V) ==
    {r \in UNION {Of(V, t) : t \in {"memberships", "data_processing_authorizations",
                                    "consent_records", "privacy_notice_acceptances"}} :
        NamesSubject(V, r, {"user_id", "subject_user_id"})}

\* _count_subject_dsr_records, _count_subject_export_artifacts
PreviewWorkflow(V) ==
    {d \in Of(V, "data_subject_requests") : NamesSubject(V, d, RequestLinks)}
        \cup {x \in Of(V, "export_artifacts") : NamesSubject(V, x, ArtifactLinks)}

\* _count_subject_audit_events
PreviewAudit(V) ==
    LET targets == {Subject} \cup PreviewInvites(V) \cup PreviewWorkflow(V) \cup PreviewStaff(V)
                     \cup {m \in PreviewDirect(V) : Table[m] = "memberships"} IN
    {a \in Of(V, "audit_events") : \/ Names(V, a, "actor_user_id", Subject)
                                   \/ Targets(V, a, targets)}

\* _count_subject_organisations
PreviewOrganisations(V) ==
    {g \in Of(V, "organisations") :
        \E m \in PreviewDirect(V) : Names(V, m, "organisation_id", g)}

\* _count_scoped_rows
Previewed(V) ==
    {Subject} \cup PreviewInvites(V) \cup PreviewOutbox(V) \cup PreviewAudit(V)
        \cup PreviewDirect(V) \cup PreviewOrganisations(V) \cup PreviewStaff(V)
        \cup PreviewWorkflow(V)

-------------------------------------------------------------------------------
(* The export. A record shows columns of a row and lists the redacted ones.*)

\* A record of one of the subject's rows: _include_or_minimise_actor_field
\* shows a column of actors only when it names the subject.
Record(V, r, redacts, omits, actors) ==
    LET others == {c \in actors \cap (DOMAIN Link[r] \ V[r].gone) : Link[r][c] # Subject} IN
    [shown |-> Columns(Table[r]) \ (redacts \cup omits \cup (actors \ OwnLinks(V, r, actors))),
     redacted |-> redacts \cup others]

\* A record of a row that is about somebody else.
Reference(r, shown, omits) ==
    [shown |-> shown, redacted |-> Columns(Table[r]) \ (shown \cup omits)]

\* UserProfileExportProvider
UserRecord(V, u) == Record(V, u, {"suspended_reason"}, {}, {})

\* MembershipsBySubjectExportProvider
MembershipRecord(V, m) == Record(V, m, {}, {}, {})

\* OrganisationsBySubjectMembershipExportProvider
OrganisationRecord(V, g) == Record(V, g, {"suspended_reason"}, {}, {})

\* InvitesBySubjectExportProvider
InviteRecord(V, i) ==
    IF HasEmail(V) /\ Names(V, i, "email", Subject)
    THEN Record(V, i, {"token_hash"}, {}, {"revoked_by_user_id"})
    ELSE Reference(i, Stamps \cup {"id", "revoked_by_user_id", "status", "revoked_at"}, {})

\* OutboxSubjectReferencesExportProvider: safe payload keys under a name of
\* their own; of payload_json the address and the token are listed as redacted,
\* and they are all of it that the column stands for here.
OutboxRecord(V, e) == Record(V, e, {"payload_json", "last_error"}, {}, {})

\* AuditSubjectEventsExportProvider: the origin of a request is its actor's.
AuditRecord(V, a) ==
    LET actor == {"actor_user_id", "ip_address", "user_agent"}
        mine  == Names(V, a, "actor_user_id", Subject)
        redacts == {"reason", "legal_hold_until"} \cup IF mine THEN {} ELSE actor IN
    Record(V, a, redacts, {}, {})

\* PlatformStaffBySubjectExportProvider
StaffRecord(V, p) ==
    IF Names(V, p, "user_id", Subject)
    THEN Record(V, p, {"suspended_reason"}, {}, {"created_by_user_id"})
    ELSE Reference(p, Stamps \cup {"id", "created_by_user_id"}, {})

\* Variant: fields the inventory declares are left out without a notice.
ForgetsNotes(V, d) ==
    Record(V, d, RequestColumns.hidden,
           {"export_artifact_id", "erasure_job_id", "requester_note"}, RequestLinks)

\* DsrWorkflowRecordsExportProvider; the workflow's own links are left out.
RequestRecord(V, d) ==
    LET links == {"export_artifact_id", "erasure_job_id"}
        review == {"reviewer_user_id", "representative_verified_by_user_id"} IN
    IF NamesSubject(V, d, {"subject_user_id", "requester_user_id"})
    THEN Record(V, d, RequestColumns.hidden, links, RequestLinks)
    ELSE Reference(d, Stamps \cup OwnLinks(V, d, review)
                        \cup {"id", "status", "execution_status", "reviewed_at", "decided_at",
                              "fulfilled_at", "cancelled_at"},
                   links \cup {"execution_started_at", "execution_completed_at",
                               "execution_failed_at"})

\* ExportArtifactMetadataExportProvider
ArtifactRecord(V, x) ==
    LET withheld == ArtifactColumns.hidden \ {"storage_backend"}
        actors == {"requested_by_user_id", "generated_by_user_id"} IN
    IF OwnArtifact(V, x)
    THEN Record(V, x, withheld, {}, actors)
    ELSE Reference(x, Columns("export_artifacts")
                        \ (withheld \cup {"data_subject_request_id", "subject_user_id",
                                          "requester_user_id", "filename", "content_type",
                                          "size_bytes", "checksum_sha256", "schema_version"}
                             \cup (actors \ OwnLinks(V, x, actors))), actors)

\* The three governance providers: every column.
GovernanceRecord(V, g) == Record(V, g, {}, {}, {})

RecordOf(V, r) ==
    CASE Table[r] = "users" -> UserRecord(V, r)
      [] Table[r] = "memberships" -> MembershipRecord(V, r)
      [] Table[r] = "organisations" -> OrganisationRecord(V, r)
      [] Table[r] = "invites" -> InviteRecord(V, r)
      [] Table[r] = "outbox_events" -> OutboxRecord(V, r)
      [] Table[r] = "audit_events" -> AuditRecord(V, r)
      [] Table[r] = "platform_staff" -> StaffRecord(V, r)
      [] Table[r] = "data_subject_requests" -> RequestRecord(V, r)
      [] Table[r] = "export_artifacts" -> ArtifactRecord(V, r)
      [] OTHER -> GovernanceRecord(V, r)

\* _audit_subject_conditions: narrower than the erasure's. Events about a row
\* the subject only revoked, reviewed, appointed or generated are left out.
ExportedAudit(V) ==
    LET invites   == {i \in Of(V, "invites") : HasEmail(V) /\ Names(V, i, "email", Subject)}
        requests  == {d \in Of(V, "data_subject_requests") :
                        NamesSubject(V, d, RequestLinks \ {"reviewer_user_id"})}
        artifacts == {x \in Of(V, "export_artifacts") :
                        V[x].status = "ready" /\ OwnArtifact(V, x)}
        staff     == {p \in Of(V, "platform_staff") : Names(V, p, "user_id", Subject)}
        targets   == {Subject} \cup invites \cup MembershipRows(V) \cup requests
                       \cup artifacts \cup staff IN
    {a \in Of(V, "audit_events") : \/ Names(V, a, "actor_user_id", Subject)
                                   \/ Targets(V, a, targets)}

\* The outbox events the export reads: of the subject's own invites.
ExportedOutbox(V) ==
    {e \in Of(V, "outbox_events") :
        /\ HasEmail(V)
        /\ \/ \E i \in Of(V, "invites") : /\ Names(V, i, "email", Subject)
                                          /\ Names(V, e, "aggregate_id", i)
           \/ Names(V, e, "payload_json", Subject)}

\* The rows the export provider of table t reads.
Exported(V, t) ==
    CASE t = "users" -> {Subject}
      [] t = "memberships" -> MembershipRows(V)
      [] t = "organisations" -> OrganisationRows(V)
      [] t = "invites" -> InviteRows(V, HasEmail(V))
      [] t = "outbox_events" -> ExportedOutbox(V)
      [] t = "audit_events" -> ExportedAudit(V)
      [] t = "platform_staff" -> StaffRows(V)
      [] t = "data_subject_requests" -> RequestRows(V)
      [] t = "export_artifacts" -> {x \in ArtifactRows(V) : V[x].status = "ready"}
      [] OTHER -> {g \in GovernanceRows(V) : Table[g] = t}
===============================================================================
