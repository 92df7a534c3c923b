--------------------------- MODULE SubjectInventory ---------------------------
(***************************************************************************)
(* What the privacy subsystem declares about personal data: one policy per *)
(* column of the twelve tables that can name a data subject                *)
(* (app/privacy/column_inventory.py), the fields and the erasure strategy  *)
(* the data inventory declares for each table (data_inventory.py), what    *)
(* the erasure does with a table (erasures/coverage.py), the order of its  *)
(* providers (provider_keys.py) and what a preview announces of a table    *)
(* (erasures/plan.py, preview.py). The two inventories give the same       *)
(* action, export flag and classification to every field both name, so the *)
(* policies state them once.                                               *)
(***************************************************************************)
EXTENDS FiniteSets, Sequences

(* A policy's sets of columns. By erasure action: retain, minimise         *)
(* (retain_minimised), erase (anonymise, delete or remove_payload_value)   *)
(* and review (review_required). By export flag: hidden is export = False. *)
(* By classification: identify is a direct identifier, contact point,      *)
(* network identifier or user agent; secret is a secret or token.          *)
Policy(retain, minimise, erase, review, hidden, identify, secret) ==
    [retain |-> retain, minimise |-> minimise, erase |-> erase, review |-> review,
     hidden |-> hidden, identify |-> identify, secret |-> secret]

Stamps == {"created_at", "updated_at"}

UserColumns ==
    LET names == {"external_auth_id", "email", "first_name", "last_name"} IN
    Policy(Stamps \cup {"email_verified", "onboarding_completed", "suspended_at"},
           {"id", "status"}, names, {"suspended_reason"}, {}, names, {})

MembershipColumns ==
    Policy(Stamps, {"id", "user_id", "organisation_id", "role", "is_active"},
           {}, {}, {}, {}, {})

OrganisationColumns ==
    Policy(Stamps \cup {"id", "name", "slug", "deleted_at", "status", "suspended_at"},
           {}, {}, {"suspended_reason"}, {}, {}, {})

InviteColumns ==
    Policy(Stamps \cup {"expires_at", "revoked_at"},
           {"id", "organisation_id", "role", "status", "revoked_by_user_id"},
           {"email", "token_hash"}, {}, {"token_hash"}, {"email"}, {"token_hash"})

OutboxColumns ==
    Policy(Stamps \cup {"event_type", "aggregate_type", "status", "attempts", "max_attempts",
                        "next_attempt_at", "locked_at", "processed_at"},
           {"id", "aggregate_id"}, {"payload_json"}, {"last_error"},
           {"payload_json", "locked_at", "last_error"}, {}, {})

AuditColumns ==
    LET origin == {"ip_address", "user_agent"} IN
    Policy({"category", "action", "legal_hold_until", "created_at"},
           {"id", "actor_user_id", "target_type", "target_id"} \cup origin,
           {}, {"reason", "metadata_json"}, {"legal_hold_until"}, origin, {})

StaffColumns ==
    Policy(Stamps \cup {"suspended_at"},
           {"id", "user_id", "role", "status", "created_by_user_id"},
           {}, {"suspended_reason"}, {}, {}, {})

\* Two policies of one table, together.
Join(p, q) == [set \in DOMAIN p |-> p[set] \cup q[set]]

RequestExecution ==
    Policy(Stamps \cup {"request_type", "status", "execution_status", "execution_started_at",
                        "execution_completed_at", "execution_failed_at"},
           {"id", "execution_failure_reason_code"}, {}, {"execution_failure_detail"},
           {"execution_failure_detail"}, {}, {})

RequestLinks == {"requester_user_id", "subject_user_id", "reviewer_user_id",
                 "representative_verified_by_user_id"}

RequestParties ==
    Policy({"requester_role", "representative_status", "representative_verified_at"},
           RequestLinks \cup {"representative_rejection_reason_code"}, {},
           {"representative_relationship", "representative_authority_note"}, {}, {}, {})

RequestDecision ==
    Policy({"submitted_at", "acknowledged_at", "reviewed_at", "decided_at", "fulfilled_at",
            "cancelled_at", "due_at", "extended_until"},
           {"decision_reason_code", "rejection_reason_code", "extension_reason_code"},
           {}, {"requester_note", "internal_note"}, {"internal_note"}, {}, {})

RequestWorkflow ==
    LET hashed == {"idempotency_key_hash", "idempotency_fingerprint"}
        gone == hashed \cup {"idempotency_key_expires_at"} IN
    Policy({}, {"export_artifact_id", "erasure_job_id"}, gone, {}, gone, {}, hashed)

RequestColumns ==
    Join(Join(RequestExecution, RequestParties), Join(RequestDecision, RequestWorkflow))

ArtifactObject ==
    Policy(Stamps \cup {"status", "format", "storage_backend", "content_type", "size_bytes",
                        "schema_version"},
           {"id", "data_subject_request_id", "subject_user_id", "requester_user_id",
            "filename", "checksum_sha256"},
           {"storage_key"}, {}, {"storage_backend", "storage_key"}, {}, {})

ArtifactGeneration ==
    LET leased == {"processing_token", "processing_lease_expires_at"} IN
    Policy({"queued_at", "started_at"},
           {"requested_by_user_id", "generated_by_user_id", "failure_reason_code"},
           leased, {"failure_detail"}, leased \cup {"failure_detail"}, {}, {"processing_token"})

ArtifactDelivery ==
    Policy({"completed_at", "failed_at", "expires_at", "download_url_issued_at",
            "download_url_issue_count"},
           {"downloaded_at", "download_count"}, {}, {}, {}, {}, {})

ArtifactColumns == Join(ArtifactObject, Join(ArtifactGeneration, ArtifactDelivery))

ArtifactLinks == {"subject_user_id", "requester_user_id", "requested_by_user_id",
                  "generated_by_user_id"}

AuthorizationColumns ==
    Policy(Stamps \cup {"lawful_basis", "special_category_condition", "active", "valid_from",
                        "valid_until", "revoked_at"},
           {"id", "subject_user_id", "purpose_id"}, {}, {"source"}, {}, {}, {})

ConsentColumns ==
    Policy(Stamps \cup {"privacy_notice_version", "granted_at", "withdrawn_at"},
           {"id", "subject_user_id", "purpose_id", "authorization_id"},
           {}, {"withdrawal_reason_code"}, {}, {}, {})

NoticeColumns ==
    Policy(Stamps \cup {"notice_version", "accepted_at"},
           {"id", "subject_user_id"}, {}, {"source"}, {}, {}, {})

\* get_privacy_column_policies_by_table
PolicyOf ==
    [users |-> UserColumns, memberships |-> MembershipColumns,
     organisations |-> OrganisationColumns, invites |-> InviteColumns,
     outbox_events |-> OutboxColumns, audit_events |-> AuditColumns,
     platform_staff |-> StaffColumns, data_subject_requests |-> RequestColumns,
     export_artifacts |-> ArtifactColumns, data_processing_authorizations |-> AuthorizationColumns,
     consent_records |-> ConsentColumns, privacy_notice_acceptances |-> NoticeColumns]

Tables == DOMAIN PolicyOf

Columns(t) == LET p == PolicyOf[t] IN p.retain \cup p.minimise \cup p.erase \cup p.review

-------------------------------------------------------------------------------
(* The data inventory: the fields a table's entry names, its strategy.     *)

Entry(fields, strategy) == [fields |-> fields, strategy |-> strategy]

UserEntry ==
    Entry(UserColumns.erase \cup UserColumns.review \cup {"id"}, "anonymise_subject")
MembershipEntry == Entry({"user_id", "organisation_id", "role"}, "retain_and_minimise")
OrganisationEntry == Entry({"name", "slug", "suspended_reason"}, "retain_with_legal_basis")
InviteEntry ==
    Entry({"email", "organisation_id", "role", "token_hash", "revoked_by_user_id"},
          "delete_when_allowed")
OutboxEntry == Entry({"payload_json", "aggregate_id", "last_error"}, "delete_when_allowed")
AuditEntry ==
    Entry({"actor_user_id", "target_type", "target_id", "action", "created_at", "reason",
           "metadata_json", "ip_address", "user_agent"}, "retain_and_minimise")
StaffEntry ==
    Entry({"user_id", "created_by_user_id", "suspended_reason"}, "retain_with_legal_basis")
\* Every column but the key, the stamps and the two workflow links.
RequestFields ==
    Columns("data_subject_requests")
        \ (Stamps \cup {"id", "export_artifact_id", "erasure_job_id"})
RequestEntry == Entry(RequestFields, "retain_and_minimise")
ArtifactEntry ==
    Entry(ArtifactLinks \cup ArtifactColumns.erase \cup ArtifactColumns.review
              \cup {"checksum_sha256", "failure_reason_code"}, "delete_when_allowed")
AuthorizationEntry ==
    Entry(Columns("data_processing_authorizations") \ (Stamps \cup {"id"}),
          "retain_with_legal_basis")
ConsentEntry ==
    Entry(Columns("consent_records") \ (Stamps \cup {"id", "authorization_id"}),
          "retain_with_legal_basis")
NoticeEntry ==
    Entry(Columns("privacy_notice_acceptances") \ (Stamps \cup {"id"}),
          "retain_with_legal_basis")

\* get_privacy_inventory_by_table
EntryOf ==
    [users |-> UserEntry, memberships |-> MembershipEntry,
     organisations |-> OrganisationEntry, invites |-> InviteEntry,
     outbox_events |-> OutboxEntry, audit_events |-> AuditEntry,
     platform_staff |-> StaffEntry, data_subject_requests |-> RequestEntry,
     export_artifacts |-> ArtifactEntry, data_processing_authorizations |-> AuthorizationEntry,
     consent_records |-> ConsentEntry, privacy_notice_acceptances |-> NoticeEntry]

-------------------------------------------------------------------------------
(* Coverage, the order of the providers, the preview.                      *)

\* ERASURE_COVERAGE_MAP: the tables whose provider changes rows.
Executable == Tables \ {"memberships", "organisations", "consent_records"}

\* Variant: the profile goes first, before the rows its email leads to.
ProfileFirst ==
    <<{"users"}, {"audit_events"}, {"outbox_events"}, {"invites"}, {"memberships"},
      {"organisations"}, {"platform_staff"}, {"export_artifacts"},
      {"data_processing_authorizations", "consent_records", "privacy_notice_acceptances"},
      {"data_subject_requests"}>>

\* _ERASURE_ORCHESTRATION_ORDER; one call covers the three governance tables.
ProviderOrder ==
    <<{"audit_events"}, {"outbox_events"}, {"invites"}, {"memberships"}, {"organisations"},
      {"platform_staff"}, {"export_artifacts"},
      {"data_processing_authorizations", "consent_records", "privacy_notice_acceptances"},
      {"users"}, {"data_subject_requests"}>>

\* _requires_manual_review
RequiresManualReview(t) ==
    \/ EntryOf[t].fields \cap PolicyOf[t].review # {}
    \/ EntryOf[t].strategy = "retain_with_legal_basis"

\* _readiness_for_plan_entry; no entry has the strategy not_applicable.
Readiness(t) ==
    CASE EntryOf[t].strategy = "retain_with_legal_basis" -> "retain_only"
      [] EntryOf[t].strategy # "retain_with_legal_basis" /\ RequiresManualReview(t)
           -> "manual_review_required"
      [] OTHER -> "automatic"
===============================================================================
