----------------------------- MODULE InviteProofs -----------------------------
(***************************************************************************)
(* The safety properties of InviteDelivery, for any number of invites,     *)
(* events, requests and workers. A report that ends an event is decided in *)
(* one step and applied in a later one; IInv says what stays true of it in *)
(* between: the token was mailed, or the invite was closed, and neither is *)
(* ever undone. Only the contract of the outbox is used, which             *)
(* OutboxProofs shows Outbox to implement.                                 *)
(***************************************************************************)
EXTENDS InviteDelivery, TLAPS

\* An event that exists carries an invite that exists.
PostedHasInvite ==
    \A e \in posted : evInvite[e] \in Invites /\ iStatus[evInvite[e]] # "none"

\* Requests and workers hold rows that exist.
RequestHasInvite == \A r \in Requests : req[r].op # "idle" => req[r].invite \in Invites
WorkIsPosted ==
    \A w \in Workers :
        /\ work[w].step # "idle" => work[w].event \in posted
        /\ look[w].event # 0 => look[w].event \in posted

\* A worker that will report success has mailed the token, or found the invite closed.
ReportIsTrue ==
    \A w \in Workers : work[w].step = "report" /\ work[w].ok =>
        work[w].event \in mailed \/ iStatus[evInvite[work[w].event]] \in Closed

IInv ==
    /\ TypeOK /\ PostedHasInvite /\ RequestHasInvite /\ WorkIsPosted
    /\ ReportIsTrue /\ ProcessedMeansMailed

\* The initial states.
LEMMA InitHolds == InviteInit => IInv
  BY InviteAssumption
     DEF InviteInit, ContractInit, IInv, TypeOK, PostedHasInvite, RequestHasInvite, WorkIsPosted,
         ReportIsTrue, ProcessedMeansMailed, Idle, NoLook, Resting, InviteStatuses

-------------------------------------------------------------------------------
(* Requests: they write the invite row under a condition on its status, or *)
(* post a new event for it.                                                *)

\* An invite is created with its event.
LEMMA CreateInviteKeeps ==
    ASSUME IInv, NEW i \in Invites, NEW e \in Events, CreateInvite(i, e)
    PROVE  IInv'
  BY InviteAssumption
     DEF IInv, TypeOK, PostedHasInvite, RequestHasInvite, WorkIsPosted, ReportIsTrue,
         ProcessedMeansMailed, InviteStatuses, Closed, CreateInvite, contractVars, PublishInvite, Post

\* A request passes its checks on the invite as read.
LEMMA RequestReadsKeeps ==
    ASSUME IInv, NEW r \in Requests, NEW i \in Invites, NEW op \in {"resend", "revoke"}, RequestReads(r, i, op)
    PROVE  IInv'
  BY InviteAssumption
     DEF IInv, TypeOK, PostedHasInvite, RequestHasInvite, WorkIsPosted, ReportIsTrue,
         ProcessedMeansMailed, InviteStatuses, Closed, RequestReads, contractVars, inviteRow, Idle

\* A resend finds the invite expired.
LEMMA ResendSeesExpiredKeeps ==
    ASSUME IInv, NEW i \in Invites, ResendSeesExpired(i)
    PROVE  IInv'
  BY InviteAssumption
     DEF IInv, TypeOK, PostedHasInvite, RequestHasInvite, WorkIsPosted, ReportIsTrue,
         ProcessedMeansMailed, InviteStatuses, Closed, ResendSeesExpired, contractVars, inviteRow

\* A resend replaces the token and posts the event that carries it.
LEMMA ResendRotatesKeeps ==
    ASSUME IInv, NEW r \in Requests, NEW e \in Events, ResendRotates(r, e)
    PROVE  IInv'
  BY InviteAssumption
     DEF IInv, TypeOK, PostedHasInvite, RequestHasInvite, WorkIsPosted, ReportIsTrue,
         ProcessedMeansMailed, InviteStatuses, Closed, ResendRotates, PublishInvite, Post, CanRotate, Idle

\* A resend finds the invite lapsed or closed when it writes.
LEMMA ResendConflictsKeeps ==
    ASSUME IInv, NEW r \in Requests, ResendConflicts(r)
    PROVE  IInv'
  BY InviteAssumption
     DEF IInv, TypeOK, PostedHasInvite, RequestHasInvite, WorkIsPosted, ReportIsTrue,
         ProcessedMeansMailed, InviteStatuses, Closed, ResendConflicts, contractVars, inviteRow, Idle

\* A revoke closes a pending invite.
LEMMA RevokeCommitsKeeps ==
    ASSUME IInv, NEW r \in Requests, RevokeCommits(r)
    PROVE  IInv'
  BY InviteAssumption
     DEF IInv, TypeOK, PostedHasInvite, RequestHasInvite, WorkIsPosted, ReportIsTrue,
         ProcessedMeansMailed, InviteStatuses, Closed, RevokeCommits, contractVars, CanRevoke, Idle

\* A revoke finds the invite closed when it writes.
LEMMA RevokeConflictsKeeps ==
    ASSUME IInv, NEW r \in Requests, RevokeConflicts(r)
    PROVE  IInv'
  BY InviteAssumption
     DEF IInv, TypeOK, PostedHasInvite, RequestHasInvite, WorkIsPosted, ReportIsTrue,
         ProcessedMeansMailed, InviteStatuses, Closed, RevokeConflicts, contractVars, inviteRow, Idle

\* The invitee accepts a pending invite.
LEMMA AcceptInviteKeeps ==
    ASSUME IInv, NEW i \in Invites, AcceptInvite(i)
    PROVE  IInv'
  BY InviteAssumption
     DEF IInv, TypeOK, PostedHasInvite, RequestHasInvite, WorkIsPosted, ReportIsTrue,
         ProcessedMeansMailed, InviteStatuses, Closed, AcceptInvite, contractVars

\* expires_at passes.
LEMMA InviteLapsesKeeps ==
    ASSUME IInv, NEW i \in Invites, InviteLapses(i)
    PROVE  IInv'
  BY InviteAssumption
     DEF IInv, TypeOK, PostedHasInvite, RequestHasInvite, WorkIsPosted, ReportIsTrue,
         ProcessedMeansMailed, InviteStatuses, Closed, InviteLapses, contractVars

\* Retention replaces the token of a closed invite.
LEMMA AnonymiseKeeps ==
    ASSUME IInv, NEW i \in Invites, Anonymise(i)
    PROVE  IInv'
  BY InviteAssumption
     DEF IInv, TypeOK, PostedHasInvite, RequestHasInvite, WorkIsPosted, ReportIsTrue,
         ProcessedMeansMailed, InviteStatuses, Closed, Anonymise, contractVars, Completed

-------------------------------------------------------------------------------
(* Workers.                                                                *)

\* A worker reads a pending invite.
LEMMA WorkerLooksKeeps ==
    ASSUME IInv, NEW w \in Workers, NEW e \in Events, WorkerLooks(w, e)
    PROVE  IInv'
  BY InviteAssumption
     DEF IInv, TypeOK, PostedHasInvite, RequestHasInvite, WorkIsPosted, ReportIsTrue,
         ProcessedMeansMailed, InviteStatuses, Closed, WorkerLooks, contractVars, inviteRow, TokenIsCurrent

\* A claim transaction is rolled back.
LEMMA WorkerLooksAwayKeeps ==
    ASSUME IInv, NEW w \in Workers, WorkerLooksAway(w)
    PROVE  IInv'
  BY InviteAssumption
     DEF IInv, TypeOK, PostedHasInvite, RequestHasInvite, WorkIsPosted, ReportIsTrue,
         ProcessedMeansMailed, InviteStatuses, Closed, WorkerLooksAway, contractVars, inviteRow, LookEnds, NoLook

\* A worker begins to deliver a token it read as current.
LEMMA WorkerDeliversKeeps ==
    ASSUME IInv, NEW w \in Workers, WorkerDelivers(w)
    PROVE  IInv'
<1>1. /\ work' = [work EXCEPT ![w] = Working("deliver", look[w].event, FALSE)]
      /\ look' = [look EXCEPT ![w] = NoLook] /\ look[w].event \in material
      /\ UNCHANGED <<posted, material, done, iStatus, iToken, iLapsed, evInvite, req, mailed, told>>
  BY DEF WorkerDelivers, Begin, LookEnds, inviteRow
<1>2. TypeOK'
  BY <1>1 DEF IInv, TypeOK, Working, NoLook
<1>3. PostedHasInvite' /\ RequestHasInvite' /\ ProcessedMeansMailed'
  BY <1>1 DEF IInv, PostedHasInvite, RequestHasInvite, ProcessedMeansMailed
<1>4. WorkIsPosted' /\ ReportIsTrue'
  BY <1>1 DEF IInv, TypeOK, WorkIsPosted, ReportIsTrue, Working, NoLook
<1> QED
  BY <1>2, <1>3, <1>4 DEF IInv

\* A worker decides to report success because it expires the invite itself.
LEMMA WorkerExpiresKeeps ==
    ASSUME IInv, NEW w \in Workers, WorkerExpires(w)
    PROVE  IInv'
<1> DEFINE e == look[w].event
<1>1. /\ work' = [work EXCEPT ![w] = Working("report", e, TRUE)]
      /\ look' = [look EXCEPT ![w] = NoLook] /\ e \in posted /\ e \in Events
      /\ iStatus[evInvite[e]] = "pending"
      /\ iStatus' = [iStatus EXCEPT ![evInvite[e]] = "expired"]
      /\ UNCHANGED <<posted, material, done, iToken, iLapsed, evInvite, req, mailed, told>>
  BY DEF WorkerExpires, Decide, LookEnds, ExpiresNow, IInv, TypeOK
<1>2. evInvite[e] \in Invites
  BY <1>1 DEF IInv, PostedHasInvite
<1> HIDE DEF e
<1>3. iStatus' \in [Invites -> InviteStatuses]
  BY <1>1, <1>2 DEF IInv, TypeOK, InviteStatuses, Closed
<1>4. /\ \A i \in Invites : iStatus'[i] = "pending" => iStatus[i] = "pending"
      /\ \A i \in Invites : iStatus[i] # "none" => iStatus'[i] # "none"
      /\ \A i \in Invites : iStatus[i] \in Closed => iStatus'[i] \in Closed
      /\ iStatus'[evInvite[e]] \in Closed
  BY <1>1, <1>2 DEF IInv, TypeOK, InviteStatuses, Closed
<1>5. /\ work' \in [Workers -> [step : {"idle", "deliver", "report"}, event : Events \cup {1},
                                ok : BOOLEAN]]
      /\ look' \in [Workers -> [event : Events \cup {0}, current : BOOLEAN]]
  BY <1>1 DEF IInv, TypeOK, Working, NoLook
<1>6. TypeOK'
  BY <1>1, <1>3, <1>4, <1>5, Zenon DEF IInv, TypeOK
<1>7. PostedHasInvite' /\ RequestHasInvite'
  BY <1>1, <1>4 DEF IInv, PostedHasInvite, RequestHasInvite
<1>8. ProcessedMeansMailed'
  BY <1>1, <1>4 DEF IInv, TypeOK, PostedHasInvite, ProcessedMeansMailed
<1>9. WorkIsPosted'
  BY <1>1 DEF IInv, TypeOK, WorkIsPosted, Working, NoLook
<1>10. ReportIsTrue'
  <2>1. work'[w].event = e /\ \A o \in Workers \ {w} : work'[o] = work[o]
    BY <1>1 DEF IInv, TypeOK, Working
  <2>2. \A o \in Workers : work[o].step = "report" => evInvite[work[o].event] \in Invites
    BY DEF IInv, WorkIsPosted, PostedHasInvite
  <2> SUFFICES ASSUME NEW o \in Workers, work'[o].step = "report", work'[o].ok
               PROVE  work'[o].event \in mailed \/ iStatus'[evInvite[work'[o].event]] \in Closed
    BY <1>1 DEF ReportIsTrue
  <2>3. CASE o = w
    BY <1>4, <2>1, <2>3
  <2>4. CASE o # w
    BY <1>4, <2>1, <2>2, <2>4 DEF IInv, ReportIsTrue
  <2> QED
    BY <2>3, <2>4
<1> QED
  BY <1>6, <1>7, <1>8, <1>9, <1>10 DEF IInv

\* A worker decides to report success because the invite is closed.
LEMMA WorkerFindsClosedKeeps ==
    ASSUME IInv, NEW w \in Workers, NEW e \in Events, WorkerFindsClosed(w, e)
    PROVE  IInv'
  BY InviteAssumption
     DEF IInv, TypeOK, PostedHasInvite, RequestHasInvite, WorkIsPosted, ReportIsTrue,
         ProcessedMeansMailed, InviteStatuses, Closed, WorkerFindsClosed, Decide, Working, inviteVars, inviteRow

\* A worker decides to report a failure.
LEMMA WorkerRejectsKeeps ==
    ASSUME IInv, NEW w \in Workers, WorkerRejects(w)
    PROVE  IInv'
<1>1. /\ work' = [work EXCEPT ![w] = Working("report", look[w].event, FALSE)]
      /\ look' = [look EXCEPT ![w] = NoLook] /\ look[w].event \in posted
      /\ UNCHANGED <<posted, material, done, iStatus, iToken, iLapsed, evInvite, req, mailed, told>>
  BY DEF WorkerRejects, RejectIsFailure, Decide, LookEnds, inviteRow
<1>2. TypeOK'
  BY <1>1 DEF IInv, TypeOK, Working, NoLook
<1>3. PostedHasInvite' /\ RequestHasInvite' /\ ProcessedMeansMailed'
  BY <1>1 DEF IInv, PostedHasInvite, RequestHasInvite, ProcessedMeansMailed
<1>4. WorkIsPosted' /\ ReportIsTrue'
  BY <1>1 DEF IInv, TypeOK, WorkIsPosted, ReportIsTrue, Working, NoLook
<1> QED
  BY <1>2, <1>3, <1>4 DEF IInv

\* A worker cannot parse a scrubbed payload.
LEMMA WorkerCannotParseKeeps ==
    ASSUME IInv, NEW w \in Workers, NEW e \in Events, WorkerCannotParse(w, e)
    PROVE  IInv'
  BY InviteAssumption
     DEF IInv, TypeOK, PostedHasInvite, RequestHasInvite, WorkIsPosted, ReportIsTrue,
         ProcessedMeansMailed, InviteStatuses, Closed, WorkerCannotParse, RejectIsFailure, Decide, Working, inviteVars, inviteRow

\* The sink is called: success is reported only of a token that was mailed.
LEMMA WorkerMailsKeeps ==
    ASSUME IInv, NEW w \in Workers, WorkerMails(w)
    PROVE  IInv'
<1> DEFINE e == work[w].event
<1>1. /\ work[w].step = "deliver" /\ mailed \subseteq mailed' /\ mailed' \subseteq mailed \cup {e}
      /\ UNCHANGED <<posted, material, done, iStatus, iToken, iLapsed, evInvite, req, look, told>>
      /\ \/ work' = [work EXCEPT ![w] = Working("report", e, TRUE)] /\ e \in mailed'
         \/ work' = [work EXCEPT ![w] = Working("report", e, FALSE)]
         \/ work' = [work EXCEPT ![w] = Resting]
  BY DEF WorkerMails, Attempt, Vanish, inviteRow
<1>2. e \in posted /\ e \in Events
  BY <1>1 DEF IInv, TypeOK, WorkIsPosted
<1> HIDE DEF e
<1>3. /\ work' \in [Workers -> [step : {"idle", "deliver", "report"}, event : Events \cup {1},
                                ok : BOOLEAN]]
      /\ work'[w].step # "idle" => work'[w].event \in posted
      /\ work'[w].step = "report" /\ work'[w].ok => work'[w].event \in mailed'
      /\ \A o \in Workers \ {w} : work'[o] = work[o]
  <2>1. CASE work' = [work EXCEPT ![w] = Working("report", e, TRUE)] /\ e \in mailed'
    BY <1>2, <2>1 DEF IInv, TypeOK, Working
  <2>2. CASE work' = [work EXCEPT ![w] = Working("report", e, FALSE)]
    BY <1>2, <2>2 DEF IInv, TypeOK, Working
  <2>3. CASE work' = [work EXCEPT ![w] = Resting]
    BY <2>3 DEF IInv, TypeOK, Resting
  <2> QED
    BY <1>1, <2>1, <2>2, <2>3
<1>4. TypeOK'
  <2>1. mailed' \subseteq Events
    BY <1>1, <1>2 DEF IInv, TypeOK
  <2> QED
    BY <1>1, <1>3, <2>1 DEF IInv, TypeOK
<1>5. PostedHasInvite' /\ RequestHasInvite' /\ ProcessedMeansMailed'
  BY <1>1 DEF IInv, PostedHasInvite, RequestHasInvite, ProcessedMeansMailed
<1>6. WorkIsPosted' /\ ReportIsTrue'
  BY <1>1, <1>3 DEF IInv, WorkIsPosted, ReportIsTrue
<1> QED
  BY <1>4, <1>5, <1>6 DEF IInv

\* A report is applied or ignored: the event is processed only by a report of success.
LEMMA WorkerReportsKeeps ==
    ASSUME IInv, NEW w \in Workers, WorkerReports(w)
    PROVE  IInv'
<1> DEFINE e == work[w].event
<1>1. /\ work[w].step = "report"
      /\ work' = [work EXCEPT ![w] = Resting]
      /\ UNCHANGED <<posted, iStatus, iToken, iLapsed, evInvite, req, look, mailed, told>>
      /\ material' \subseteq material
      /\ done' \subseteq done \cup {e} /\ (e \in done' \ done => work[w].ok)
  BY DEF WorkerReports, ReportSuccess, ReportFailure, Vanish, inviteVars, inviteRow
<1>2. e \in posted
  BY <1>1 DEF IInv, WorkIsPosted
<1>3. work[w].ok => e \in mailed \/ iStatus[evInvite[e]] \in Closed
  BY <1>1 DEF IInv, ReportIsTrue
<1> HIDE DEF e
<1>4. /\ work' \in [Workers -> [step : {"idle", "deliver", "report"}, event : Events \cup {1},
                                ok : BOOLEAN]]
      /\ work'[w].step = "idle" /\ \A o \in Workers \ {w} : work'[o] = work[o]
  BY <1>1 DEF IInv, TypeOK, Resting
<1>5. TypeOK'
  <2>1. material' \subseteq posted' /\ done' \subseteq posted'
    BY <1>1, <1>2 DEF IInv, TypeOK
  <2> QED
    BY <1>1, <1>4, <2>1 DEF IInv, TypeOK
<1>6. PostedHasInvite' /\ RequestHasInvite'
  BY <1>1 DEF IInv, PostedHasInvite, RequestHasInvite
<1>7. ProcessedMeansMailed'
  BY <1>1, <1>3 DEF IInv, ProcessedMeansMailed
<1>8. WorkIsPosted' /\ ReportIsTrue'
  BY <1>1, <1>4 DEF IInv, WorkIsPosted, ReportIsTrue
<1> QED
  BY <1>5, <1>6, <1>7, <1>8 DEF IInv

\* The outbox withdraws or releases an event.
LEMMA OutboxClosesKeeps ==
    ASSUME IInv, NEW e \in Events, OutboxCloses(e)
    PROVE  IInv'
  BY InviteAssumption
     DEF IInv, TypeOK, PostedHasInvite, RequestHasInvite, WorkIsPosted, ReportIsTrue,
         ProcessedMeansMailed, InviteStatuses, Closed, OutboxCloses, Withdraw, Release, inviteVars, inviteRow

-------------------------------------------------------------------------------
\* IInv holds in every reachable state.
THEOREM Invariance == InviteSpec => []IInv
<1>1. IInv /\ [InviteNext]_allVars => IInv'
  <2> SUFFICES ASSUME IInv, [InviteNext]_allVars PROVE IInv'
    OBVIOUS
  <2>1. CASE UNCHANGED allVars
    BY <2>1 DEF allVars, contractVars, inviteVars, inviteRow, IInv, TypeOK, PostedHasInvite,
       RequestHasInvite, WorkIsPosted, ReportIsTrue, ProcessedMeansMailed
  <2>2. CASE InviteNext
    BY <2>2, CreateInviteKeeps, RequestReadsKeeps, ResendSeesExpiredKeeps,
       ResendRotatesKeeps, ResendConflictsKeeps, RevokeCommitsKeeps,
       RevokeConflictsKeeps, AcceptInviteKeeps, InviteLapsesKeeps, AnonymiseKeeps,
       WorkerLooksKeeps, WorkerDeliversKeeps, WorkerExpiresKeeps, WorkerRejectsKeeps,
       WorkerLooksAwayKeeps, WorkerFindsClosedKeeps, WorkerCannotParseKeeps,
       WorkerMailsKeeps, WorkerReportsKeeps, OutboxClosesKeeps
       DEF InviteNext
  <2> QED
    BY <2>1, <2>2
<1> QED
  BY <1>1, InitHolds, PTL DEF InviteSpec

\* The variables have their types, and a pending invite has a token that was published
\* for it.
THEOREM TypesHold == InviteSpec => []TypeOK
<1>1. IInv => TypeOK
  BY DEF IInv
<1> QED
  BY <1>1, Invariance, PTL

\* The token of a processed event was mailed or its invite is closed, whatever workers
\* crash, come late or work on the same event, and however often the token is replaced.
THEOREM ProcessedDidItsJob == InviteSpec => []ProcessedMeansMailed
<1>1. IInv => ProcessedMeansMailed
  BY DEF IInv
<1> QED
  BY <1>1, Invariance, PTL

\* A closed invite keeps its status and gets no new token, whatever requests and workers
\* read while it was pending.
THEOREM ClosedStaysClosed == InviteSpec => ClosedIsFrozen
<1> DEFINE Frozen == \A i \in Invites : iStatus[i] \in Closed =>
                         iStatus'[i] = iStatus[i] /\ iToken'[i] \in {iToken[i], 0}
<1>1. IInv /\ [InviteNext]_allVars => [Frozen]_allVars
  <2> SUFFICES ASSUME IInv, InviteNext PROVE Frozen
    OBVIOUS
  <2>1. ASSUME NEW i \in Invites, NEW e \in Events, CreateInvite(i, e) PROVE Frozen
    BY <2>1 DEF IInv, TypeOK, Closed, CreateInvite, PublishInvite
  <2>2. ASSUME NEW r \in Requests, NEW e \in Events, ResendRotates(r, e) PROVE Frozen
    BY <2>2 DEF IInv, TypeOK, Closed, ResendRotates, PublishInvite, CanRotate
  <2>3. ASSUME NEW r \in Requests, RevokeCommits(r) PROVE Frozen
    BY <2>3 DEF IInv, TypeOK, Closed, RevokeCommits, CanRevoke
  <2>4. ASSUME NEW i \in Invites, AcceptInvite(i) PROVE Frozen
    BY <2>4 DEF IInv, TypeOK, Closed, AcceptInvite
  <2>5. ASSUME NEW i \in Invites, Anonymise(i) PROVE Frozen
    BY <2>5 DEF IInv, TypeOK, Closed, Anonymise
  <2>6. ASSUME NEW w \in Workers, WorkerExpires(w) PROVE Frozen
    BY <2>6 DEF IInv, TypeOK, Closed, WorkerExpires, ExpiresNow
  <2>7. CASE UNCHANGED <<iStatus, iToken>>
    BY <2>7
  <2> QED
    BY <2>1, <2>2, <2>3, <2>4, <2>5, <2>6, <2>7
       DEF InviteNext, RequestReads, ResendSeesExpired, ResendConflicts, RevokeConflicts,
           InviteLapses, WorkerLooks, WorkerDelivers, WorkerRejects, WorkerLooksAway,
           WorkerFindsClosed, WorkerCannotParse, WorkerMails, WorkerReports, OutboxCloses,
           inviteVars, inviteRow
<1> QED
  BY <1>1, Invariance, PTL DEF InviteSpec, ClosedIsFrozen

\* Once no worker has a superseded token in hand, none takes it up again: a worker has a
\* token in hand from reading the invite on, and reads it as current or not at all.
THEOREM SupersededIsNotTakenUp == InviteSpec => SupersededStaysUnsent
<1> DEFINE Step == \A e \in Events :
                       /\ e \in posted
                       /\ iToken[evInvite[e]] # e
                       /\ \A w \in Workers : ~InHand(w, e)
                       => \A w \in Workers : ~InHand(w, e)'
<1>1. IInv /\ [InviteNext]_allVars => [Step]_allVars
  <2> SUFFICES ASSUME IInv, InviteNext, NEW e \in Events, e \in posted,
                      iToken[evInvite[e]] # e, NEW v \in Workers, ~InHand(v, e)
               PROVE  ~InHand(v, e)'
    OBVIOUS
  <2>1. CASE UNCHANGED <<work, look>>
    BY <2>1 DEF InHand
  <2>2. ASSUME NEW w \in Workers, NEW f \in Events, WorkerLooks(w, f) PROVE ~InHand(v, e)'
    BY <2>2 DEF WorkerLooks, TokenIsCurrent, contractVars, InHand, IInv, TypeOK
  <2>3. ASSUME NEW w \in Workers, WorkerDelivers(w) PROVE ~InHand(v, e)'
    <3>1. CASE v = w
      BY <2>3, <3>1 DEF WorkerDelivers, Begin, Working, LookEnds, NoLook, InHand, IInv, TypeOK
    <3>2. CASE v # w
      BY <2>3, <3>2 DEF WorkerDelivers, Begin, Working, LookEnds, NoLook, InHand, IInv, TypeOK
    <3> QED
      BY <3>1, <3>2
  <2>4. ASSUME NEW w \in Workers, LookEnds(w), work' = work \/ \E f, ok : Decide(w, f, ok)
        PROVE  ~InHand(v, e)'
    BY <2>4 DEF Decide, Working, LookEnds, NoLook, InHand, IInv, TypeOK
  <2>5. ASSUME NEW w \in Workers, look' = look,
               \/ work' = [work EXCEPT ![w] = Resting]
               \/ \E f, ok : work' = [work EXCEPT ![w] = Working("report", f, ok)]
        PROVE  ~InHand(v, e)'
    BY <2>5 DEF Working, Resting, InHand, IInv, TypeOK
  <2>6. ASSUME NEW w \in Workers,
               \/ WorkerExpires(w) \/ WorkerRejects(w) \/ WorkerLooksAway(w)
        PROVE  ~InHand(v, e)'
    BY <2>4, <2>6 DEF WorkerExpires, WorkerRejects, WorkerLooksAway, RejectIsFailure, contractVars
  <2>7. ASSUME NEW w \in Workers,
               \/ \E f \in Events : WorkerFindsClosed(w, f) \/ WorkerCannotParse(w, f)
               \/ WorkerMails(w) \/ WorkerReports(w)
        PROVE  ~InHand(v, e)'
    BY <2>5, <2>7 DEF WorkerFindsClosed, WorkerCannotParse, RejectIsFailure, Decide, WorkerMails,
       Attempt, Vanish, WorkerReports, ReportSuccess, ReportFailure, inviteVars
  <2>8. ASSUME NEW r \in Requests,
               \/ ResendConflicts(r) \/ RevokeCommits(r) \/ RevokeConflicts(r)
               \/ \E f \in Events : ResendRotates(r, f)
               \/ \E i \in Invites, op \in {"resend", "revoke"} : RequestReads(r, i, op)
        PROVE  ~InHand(v, e)'
    BY <2>1, <2>8 DEF ResendConflicts, RevokeCommits, RevokeConflicts, ResendRotates, PublishInvite,
       Post, RequestReads, contractVars
  <2>9. ASSUME NEW i \in Invites,
               \/ ResendSeesExpired(i) \/ AcceptInvite(i) \/ InviteLapses(i) \/ Anonymise(i)
               \/ \E f \in Events : CreateInvite(i, f)
        PROVE  ~InHand(v, e)'
    BY <2>1, <2>9 DEF ResendSeesExpired, AcceptInvite, InviteLapses, Anonymise, CreateInvite,
       PublishInvite, Post, contractVars
  <2>10. ASSUME NEW f \in Events, OutboxCloses(f) PROVE ~InHand(v, e)'
    BY <2>1, <2>10 DEF OutboxCloses, Withdraw, Release, inviteVars
  <2> QED
    BY <2>2, <2>3, <2>6, <2>7, <2>8, <2>9, <2>10 DEF InviteNext
<1> QED
  BY <1>1, Invariance, PTL DEF InviteSpec, SupersededStaysUnsent
===============================================================================
