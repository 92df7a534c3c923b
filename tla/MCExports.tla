------------------------------- MODULE MCExports -------------------------------
(* Small instances of ExportArtifacts and SubjectErasure for TLC: the        *)
(* storage of artifacts, and the erasure of a subject over all its rows. The *)
(* two share no state, so a behaviour moves one of them: the reachable       *)
(* states are those of the one and those of the other, not their product.    *)
EXTENDS ExportArtifacts, SubjectErasure, TLC

-------------------------------------------------------------------------------
(* A subject with rows in all twelve tables, in every role the code tells    *)
(* apart: invited and revoking, staff and appointing staff, requesting and   *)
(* reviewing, exported and generating somebody else's export; and rows of    *)
(* another user that lead to the same tables.                                *)

MCUsers == ("subject" :> "users") @@ ("other" :> "users") @@ ("newAccount" :> "users")

MCInvites ==
    ("invited" :> "invites") @@ ("revokedByHim" :> "invites") @@ ("lateInvite" :> "invites")
        @@ ("othersInvite" :> "invites")

MCEvents ==
    ("invitedMail" :> "outbox_events") @@ ("revokedMail" :> "outbox_events")
        @@ ("lateMail" :> "outbox_events") @@ ("othersMail" :> "outbox_events")

MCOrganisation == ("organisation" :> "organisations") @@ ("membership" :> "memberships")

MCStaff == ("hisStaff" :> "platform_staff") @@ ("appointed" :> "platform_staff")

MCWorkflow ==
    ("request" :> "data_subject_requests") @@ ("reviewed" :> "data_subject_requests")
        @@ ("hisArchive" :> "export_artifacts") @@ ("generated" :> "export_artifacts")

MCGovernance ==
    ("authorization" :> "data_processing_authorizations") @@ ("consent" :> "consent_records")
        @@ ("notice" :> "privacy_notice_acceptances")

MCAudits ==
    [a \in {"acted", "aboutInvite", "aboutRevoked", "aboutReviewed", "aboutGenerated",
            "aboutAppointed", "aboutOrganisation", "aboutLate", "run1", "run2"} |-> "audit_events"]

MCTable ==
    MCUsers @@ MCInvites @@ MCEvents @@ MCOrganisation @@ MCStaff @@ MCWorkflow
        @@ MCGovernance @@ MCAudits

MCRows == DOMAIN MCTable

By(actor, target) == [actor_user_id |-> actor, target_id |-> target]

Mail(invite, address) == [aggregate_id |-> invite, payload_json |-> address]

MCLink ==
    [subject |-> [email |-> "subject", external_auth_id |-> "subject"],
     other |-> [email |-> "other", external_auth_id |-> "other"],
     newAccount |-> [email |-> "subject", external_auth_id |-> "subject"],
     invited |-> [email |-> "subject", organisation_id |-> "organisation"],
     revokedByHim |-> [email |-> "other", revoked_by_user_id |-> "subject"],
     lateInvite |-> [email |-> "subject"],
     othersInvite |-> [email |-> "other", organisation_id |-> "organisation"],
     invitedMail |-> Mail("invited", "subject"),
     revokedMail |-> Mail("revokedByHim", "other"),
     lateMail |-> Mail("lateInvite", "subject"),
     othersMail |-> Mail("othersInvite", "other"),
     organisation |-> [r \in {} |-> ""],
     membership |-> [user_id |-> "subject", organisation_id |-> "organisation"],
     hisStaff |-> [user_id |-> "subject", created_by_user_id |-> "other"],
     appointed |-> [user_id |-> "other", created_by_user_id |-> "subject"],
     request |-> [subject_user_id |-> "subject", requester_user_id |-> "subject",
                  reviewer_user_id |-> "other"],
     reviewed |-> [subject_user_id |-> "other", requester_user_id |-> "other",
                   reviewer_user_id |-> "subject",
                   representative_verified_by_user_id |-> "subject"],
     hisArchive |-> [subject_user_id |-> "subject", requester_user_id |-> "subject",
                     requested_by_user_id |-> "other"],
     generated |-> [subject_user_id |-> "other", requester_user_id |-> "other",
                    generated_by_user_id |-> "subject"],
     authorization |-> [subject_user_id |-> "subject"],
     consent |-> [subject_user_id |-> "subject", authorization_id |-> "authorization"],
     notice |-> [subject_user_id |-> "subject"],
     acted |-> By("subject", "other"),
     aboutInvite |-> By("other", "invited"),
     aboutRevoked |-> By("other", "revokedByHim"),
     aboutReviewed |-> By("other", "reviewed"),
     aboutGenerated |-> By("other", "generated"),
     aboutAppointed |-> By("other", "appointed"),
     aboutOrganisation |-> By("other", "organisation"),
     aboutLate |-> By("other", "lateInvite"),
     run1 |-> By("other", "request"),
     run2 |-> By("other", "request")]

MCLateRows == {"lateInvite", "lateMail", "aboutLate"}

MCExecutionAudits == {"run1", "run2"}

\* The mail worker, or the export worker and two sign-ins.
MCCasts == {{"worker"}, {"export", "login"}}

\* The invite is waiting for its mail; its audit event may be on legal hold and
\* the subject's archive may be queued or stored.
MCFirstStatuses ==
    {[r \in MCRows |->
        CASE r \in MCLateRows \cup MCExecutionAudits \cup {"newAccount"} -> "absent"
          [] r \in {"invited", "invitedMail", "othersInvite"} -> "pending"
          [] r = "revokedByHim" -> "revoked"
          [] r \in {"revokedMail", "othersMail"} -> "processed"
          [] r = "hisArchive" -> archive
          [] r = "generated" -> "ready"
          [] r = "aboutInvite" -> hold
          [] OTHER -> "kept"] : archive \in {"queued", "ready"}, hold \in {"kept", "held"}}

-------------------------------------------------------------------------------
VARIABLE moving     \* the component this behaviour is about

\* One of the states an erasure can begin in, for the behaviours not about one.
Resting == /\ row["hisArchive"].status = "queued" /\ row["aboutInvite"].status = "kept"
           /\ job = NoJob

ExportsInit ==
    /\ Init /\ ErasureInit
    /\ moving \in {"storage", "erasure"}
    /\ moving = "storage" => Resting

ExportsNext ==
    \/ moving = "storage" /\ Next /\ UNCHANGED <<moving, erasureVars>>
    \/ moving = "erasure" /\ ErasureNext /\ UNCHANGED <<moving, vars>>

\* Where storage does not move, no purge is enabled and its fairness asks nothing.
ExportsSpec == ExportsInit /\ [][ExportsNext]_<<moving, vars, erasureVars>> /\ Fairness
===============================================================================
