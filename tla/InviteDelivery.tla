---------------------------- MODULE InviteDelivery ----------------------------
(***************************************************************************)
(* Invites of one email address to one organisation (app/invites) and the  *)
(* worker that mails their tokens. Creating or resending an invite writes  *)
(* the invite and one outbox event in one transaction, so the event stands *)
(* for the token it carries: an invite's token_hash is the event of its    *)
(* last create or resend. Of the outbox only its contract is used; the     *)
(* worker's decision, a free choice there, is taken from the invite row.   *)
(*                                                                         *)
(* A resend or revoke request reads the invite without a lock (a resend    *)
(* then awaits the rate limiter) and writes with a conditional UPDATE. A   *)
(* worker's claim transaction reads the invite without a lock too, and     *)
(* commits later. Accepting starts with its conditional UPDATE, so it is   *)
(* one action; a request that raises afterwards is rolled back and changes *)
(* nothing. Invite delivery is enabled; role checks on the actor are       *)
(* Tenancy's.                                                              *)
(***************************************************************************)
EXTENDS OutboxContract, Naturals

CONSTANTS
    Invites,        \* rows of invites, all with the same organisation and email
    Requests,       \* concurrent resend and revoke requests
    NoInvite

ASSUME InviteAssumption ==
    /\ Events \subseteq Nat \ {0}    \* in the order of their creation
    /\ NoInvite \notin Invites

VARIABLES
    iStatus,    \* invites.status, or "none" before the row exists
    iToken,     \* the event whose token hashes to token_hash, 0 for a tombstone
    iLapsed,    \* expires_at <= now
    evInvite,   \* payload_json["invite_id"] of an event
    req,        \* requests between their read and their write
    look,       \* claim transactions between their read and their commit
    mailed,     \* tokens that reached the invitee
    told        \* history: invites whose resend answered "Invite has expired"

inviteRow  == <<iStatus, iToken, iLapsed>>
inviteVars == <<inviteRow, evInvite, req, look, mailed, told>>
allVars    == <<contractVars, inviteVars>>

Idle   == [op |-> "idle", invite |-> NoInvite]
NoLook == [event |-> 0, current |-> FALSE]
Closed == {"accepted", "expired", "revoked"}

InviteInit ==
    /\ ContractInit
    /\ iStatus = [i \in Invites |-> "none"]
    /\ iToken = [i \in Invites |-> 0]
    /\ iLapsed = [i \in Invites |-> FALSE]
    /\ evInvite = [e \in Events |-> NoInvite]
    /\ req = [r \in Requests |-> Idle]
    /\ look = [w \in Workers |-> NoLook]
    /\ mailed = {}
    /\ told = {}

-------------------------------------------------------------------------------
(* Requests.                                                               *)

\* The event row of a create or resend, carrying the new token.
PublishInvite(e, i) ==
    /\ Post(e)
    /\ \A f \in Events : f < e => f \in posted
    /\ evInvite' = [evInvite EXCEPT ![e] = i]
    /\ iToken' = [iToken EXCEPT ![i] = e]
    /\ iLapsed' = [iLapsed EXCEPT ![i] = FALSE]

\* uq_invites_org_email_pending admits one pending invite of an email; the
\* service's own check before the insert only words the error.
CreateInvite(i, e) ==
    /\ iStatus[i] = "none"
    /\ \A j \in Invites : iStatus[j] # "pending"
    /\ iStatus' = [iStatus EXCEPT ![i] = "pending"]
    /\ PublishInvite(e, i)
    /\ UNCHANGED <<req, look, mailed, told>>

\* A request passes its checks on the invite as read: pending, and for a
\* resend not expired.
RequestReads(r, i, op) ==
    /\ req[r] = Idle
    /\ iStatus[i] = "pending"
    /\ op = "resend" => ~iLapsed[i]
    /\ req' = [req EXCEPT ![r] = [op |-> op, invite |-> i]]
    /\ UNCHANGED <<contractVars, inviteRow, evInvite, look, mailed, told>>

\* Resend finds the invite expired when it reads it: the UPDATE to expired is
\* rolled back by the ConflictError that follows it in the same transaction.
ResendSeesExpired(i) ==
    /\ iStatus[i] = "pending" /\ iLapsed[i]
    /\ told' = told \cup {i}
    /\ UNCHANGED <<contractVars, inviteRow, evInvite, req, look, mailed>>

\* rotate_pending_invite_token's WHERE clause.
CanRotate(i) == iStatus[i] = "pending" /\ ~iLapsed[i]

ResendRotates(r, e) ==
    /\ req[r].op = "resend"
    /\ CanRotate(req[r].invite)
    /\ PublishInvite(e, req[r].invite)
    /\ req' = [req EXCEPT ![r] = Idle]
    /\ UNCHANGED <<iStatus, look, mailed, told>>

\* The invite lapsed or was closed in between: ConflictError, rolled back.
ResendConflicts(r) ==
    /\ req[r].op = "resend"
    /\ ~CanRotate(req[r].invite)
    /\ req' = [req EXCEPT ![r] = Idle]
    /\ told' = IF iStatus[req[r].invite] = "pending" THEN told \cup {req[r].invite} ELSE told
    /\ UNCHANGED <<contractVars, inviteRow, evInvite, look, mailed>>

\* Variant: UPDATE ... WHERE id = :id, trusting the read.
RevokeAlways(i) == TRUE

\* revoke_pending_invite's WHERE clause.
CanRevoke(i) == iStatus[i] = "pending"

RevokeCommits(r) ==
    /\ req[r].op = "revoke"
    /\ CanRevoke(req[r].invite)
    /\ iStatus' = [iStatus EXCEPT ![req[r].invite] = "revoked"]
    /\ req' = [req EXCEPT ![r] = Idle]
    /\ UNCHANGED <<contractVars, iToken, iLapsed, evInvite, look, mailed, told>>

RevokeConflicts(r) ==
    /\ req[r].op = "revoke"
    /\ ~CanRevoke(req[r].invite)
    /\ req' = [req EXCEPT ![r] = Idle]
    /\ UNCHANGED <<contractVars, inviteRow, evInvite, look, mailed, told>>

\* The invitee presents a token that was mailed. Every other outcome (unknown or
\* old token, expired, wrong email, suspended, already a member) rolls back.
AcceptInvite(i) ==
    /\ iToken[i] \in mailed
    /\ iStatus[i] = "pending" /\ ~iLapsed[i]
    /\ iStatus' = [iStatus EXCEPT ![i] = "accepted"]
    /\ UNCHANGED <<contractVars, iToken, iLapsed, evInvite, req, look, mailed, told>>

\* expires_at passes.
InviteLapses(i) ==
    /\ iStatus[i] = "pending" /\ ~iLapsed[i]
    /\ iLapsed' = [iLapsed EXCEPT ![i] = TRUE]
    /\ UNCHANGED <<contractVars, iStatus, iToken, evInvite, req, look, mailed, told>>

\* The statuses anonymise_completed_invites selects.
Completed(i) == iStatus[i] \in Closed

\* anonymise_completed_invites: completed invites lose email and token hash.
Anonymise(i) ==
    /\ Completed(i)
    /\ iToken[i] # 0
    /\ iToken' = [iToken EXCEPT ![i] = 0]
    /\ UNCHANGED <<contractVars, iStatus, iLapsed, evInvite, req, look, mailed, told>>

-------------------------------------------------------------------------------
(* The worker's claim transaction looks at the invite.                     *)

\* Variant: the worker delivers whatever token the event carries.
AnyToken(e) == TRUE

\* The payload's token is the invite's current one.
TokenIsCurrent(e) == iToken[evInvite[e]] = e

\* The transaction has locked the event and reads a pending invite.
WorkerLooks(w, e) ==
    /\ work[w] = Resting /\ look[w] = NoLook
    /\ e \in material
    /\ iStatus[evInvite[e]] = "pending"
    /\ look' = [look EXCEPT ![w] = [event |-> e, current |-> TokenIsCurrent(e)]]
    /\ UNCHANGED <<contractVars, inviteRow, evInvite, req, mailed, told>>

\* mark_pending_invite_expired_by_id would match the invite by now.
ExpiresNow(e) == iStatus[evInvite[e]] = "pending" /\ iLapsed[evInvite[e]]

\* Worker w commits what it made of the invite it read.
LookEnds(w) == look' = [look EXCEPT ![w] = NoLook]

\* Not expired, decrypted, and the token matched the invite as it was read.
WorkerDelivers(w) ==
    /\ look[w].current /\ ~ExpiresNow(look[w].event)
    /\ Begin(w, look[w].event)
    /\ LookEnds(w)
    /\ UNCHANGED <<inviteRow, evInvite, req, mailed, told>>

\* Pending but expired: the invite's new status commits with the claim.
WorkerExpires(w) ==
    /\ look[w] # NoLook /\ ExpiresNow(look[w].event)
    /\ Decide(w, look[w].event, TRUE)
    /\ iStatus' = [iStatus EXCEPT ![evInvite[look[w].event]] = "expired"]
    /\ LookEnds(w)
    /\ UNCHANGED <<iToken, iLapsed, evInvite, req, mailed, told>>

\* Variant: a payload that cannot be delivered counts as dealt with.
RejectIsDone(w, e) == Decide(w, e, TRUE)

\* malformed payload, undecryptable, token mismatch: a failed attempt.
RejectIsFailure(w, e) == Decide(w, e, FALSE)

\* The token does not decrypt, or the invite has a newer one.
WorkerRejects(w) ==
    /\ look[w] # NoLook /\ ~ExpiresNow(look[w].event)
    /\ RejectIsFailure(w, look[w].event)
    /\ LookEnds(w)
    /\ UNCHANGED <<inviteRow, evInvite, req, mailed, told>>

\* The transaction is rolled back and the message dropped.
WorkerLooksAway(w) ==
    /\ look[w] # NoLook
    /\ LookEnds(w)
    /\ UNCHANGED <<contractVars, inviteRow, evInvite, req, mailed, told>>

\* Not pending any more: nothing to deliver. A closed invite stays closed.
WorkerFindsClosed(w, e) ==
    /\ look[w] = NoLook
    /\ Decide(w, e, TRUE)
    /\ iStatus[evInvite[e]] # "pending"
    /\ UNCHANGED inviteVars

\* A scrubbed payload does not parse: the invite is not looked at.
WorkerCannotParse(w, e) ==
    /\ look[w] = NoLook
    /\ e \notin material
    /\ RejectIsFailure(w, e)
    /\ UNCHANGED inviteVars

\* The sink may have sent the mail although it raised, or the worker died.
WorkerMails(w) ==
    /\ \/ Attempt(w, TRUE) /\ mailed' = mailed \cup {work[w].event}
       \/ Attempt(w, FALSE) /\ mailed' \in {mailed, mailed \cup {work[w].event}}
       \/ /\ work[w].step = "deliver" /\ Vanish(w)
          /\ mailed' \in {mailed, mailed \cup {work[w].event}}
    /\ UNCHANGED <<inviteRow, evInvite, req, look, told>>

\* _apply_result: applied, or ignored because the claim is gone.
WorkerReports(w) ==
    /\ \/ ReportSuccess(w)
       \/ ReportFailure(w)
       \/ work[w].step = "report" /\ Vanish(w)
    /\ UNCHANGED inviteVars

\* Steps of the outbox that concern no worker.
OutboxCloses(e) ==
    /\ e \in posted
    /\ Withdraw({e}) \/ Release(e)
    /\ UNCHANGED inviteVars

-------------------------------------------------------------------------------
InviteNext ==
    \/ \E i \in Invites, e \in Events : CreateInvite(i, e)
    \/ \E r \in Requests, i \in Invites, op \in {"resend", "revoke"} : RequestReads(r, i, op)
    \/ \E i \in Invites : ResendSeesExpired(i)
    \/ \E r \in Requests, e \in Events : ResendRotates(r, e)
    \/ \E r \in Requests : ResendConflicts(r)
    \/ \E r \in Requests : RevokeCommits(r)
    \/ \E r \in Requests : RevokeConflicts(r)
    \/ \E i \in Invites : AcceptInvite(i)
    \/ \E i \in Invites : InviteLapses(i)
    \/ \E i \in Invites : Anonymise(i)
    \/ \E w \in Workers, e \in Events : WorkerLooks(w, e)
    \/ \E w \in Workers : WorkerDelivers(w)
    \/ \E w \in Workers : WorkerExpires(w)
    \/ \E w \in Workers : WorkerRejects(w)
    \/ \E w \in Workers : WorkerLooksAway(w)
    \/ \E w \in Workers, e \in Events : WorkerFindsClosed(w, e)
    \/ \E w \in Workers, e \in Events : WorkerCannotParse(w, e)
    \/ \E w \in Workers : WorkerMails(w)
    \/ \E w \in Workers : WorkerReports(w)
    \/ \E e \in Events : OutboxCloses(e)

InviteSpec == InviteInit /\ [][InviteNext]_allVars

-------------------------------------------------------------------------------
(* Properties.                                                             *)

InviteStatuses == Closed \cup {"none", "pending"}

\* The types of the variables; and the token of every pending invite is one that
\* an event published for that invite carries (create_invite, resend_invite), so
\* that no interleaving leaves a live invite whose link cannot be sent.
TypeOK ==
    /\ posted \subseteq Events /\ material \subseteq posted /\ done \subseteq posted
    /\ work \in [Workers -> [step : {"idle", "deliver", "report"}, event : Events \cup {1},
                            ok : BOOLEAN]]
    /\ iStatus \in [Invites -> InviteStatuses]
    /\ iToken \in [Invites -> Events \cup {0}]
    /\ iLapsed \in [Invites -> BOOLEAN]
    /\ evInvite \in [Events -> Invites \cup {NoInvite}]
    /\ req \in [Requests -> [op : {"idle", "resend", "revoke"}, invite : Invites \cup {NoInvite}]]
    /\ look \in [Workers -> [event : Events \cup {0}, current : BOOLEAN]]
    /\ mailed \subseteq Events
    /\ told \subseteq Invites
    /\ \A i \in Invites : iStatus[i] = "pending" =>
          iToken[i] \in posted /\ evInvite[iToken[i]] = i

\* A processed event did its job: its token was mailed or its invite is closed.
\* No result of a slow or crashed worker, no duplicate message and no rotation
\* of the token may turn an undelivered live token into a processed event.
ProcessedMeansMailed ==
    \A e \in done : e \in mailed \/ iStatus[evInvite[e]] \in Closed

\* An accepted, revoked or expired invite keeps its status, and its token is
\* only ever replaced by the tombstone: a request that read it while it was
\* pending changes nothing.
ClosedIsFrozen ==
    [][\A i \in Invites : iStatus[i] \in Closed =>
          iStatus'[i] = iStatus[i] /\ iToken'[i] \in {iToken[i], 0}]_allVars

\* Worker w has e in hand: it delivers e, or has read e's token as current.
InHand(w, e) ==
    \/ work[w].step = "deliver" /\ work[w].event = e
    \/ look[w].event = e /\ look[w].current

\* A token that a resend has superseded is mailed only by a worker that read the
\* invite before the resend: once no worker has it in hand none takes it up
\* again, though its event is retried, recovered and requeued.
SupersededStaysUnsent ==
    [][\A e \in Events :
          /\ e \in posted
          /\ iToken[evInvite[e]] # e
          /\ \A w \in Workers : ~InHand(w, e)
          => \A w \in Workers : ~InHand(w, e)']_allVars

\* Answering "Invite has expired" goes with the invite being expired.
ToldExpiredIsExpired == \A i \in told : iStatus[i] # "pending"
===============================================================================
