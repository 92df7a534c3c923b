-------------------------------- MODULE Tenancy --------------------------------
(***************************************************************************)
(* Organisations, memberships and the requests that change them            *)
(* (app/organisations, app/memberships, the membership side of app/invites *)
(* and the platform's suspensions).                                        *)
(*                                                                         *)
(* A tenant request runs in one READ COMMITTED transaction: it reads the   *)
(* actor, the organisation and the target without locks, awaits the        *)
(* business rate limiter, and then writes by primary key. So a request is  *)
(* a reading step and a committing step, with a step between where a       *)
(* statement of the transaction reads again. Memberships are rows: leaving *)
(* and joining again makes a new row, and a request that still holds the   *)
(* old one writes to the old one. The two partial unique indexes are part  *)
(* of the statements that insert.                                          *)
(*                                                                         *)
(* Not here: names and slugs, the token and expiry of an invite            *)
(* (InviteDelivery), audit rows.                                           *)
(***************************************************************************)
EXTENDS Naturals, FiniteSets

CONSTANTS
    Users,
    Orgs,
    Requests,           \* tenant transactions that may be open at once
    MaxRows,            \* bound: membership rows
    MaxInvites,         \* bound: invites pending at once
    MaxReplacements,    \* bound: emergency owner replacements
    MaxStatusChanges,   \* bound: suspensions and restorations
    Starts,             \* first states: who is suspended, which organisations are deleted
                        \* already, and how much of the two bounds is used up
    Nobody

ASSUME TenancyAssumption ==
    /\ MaxRows \in Nat \ {0}
    /\ MaxInvites \in Nat
    /\ MaxReplacements \in Nat
    /\ MaxStatusChanges \in Nat
    /\ Nobody \notin Users
    /\ Starts \subseteq [suspended : SUBSET Users, deleted : SUBSET Orgs,
                         replacements : 0 .. MaxReplacements,
                         statusChanges : 0 .. MaxStatusChanges]

Rows  == 1 .. MaxRows
Roles == {"owner", "admin", "member"}

VARIABLES
    userActive,     \* users.status = active
    orgState,       \* "none", "live" or "deleted" (deleted_at)
    orgActive,      \* organisations.status = active
    member,         \* the rows of memberships
    invite,         \* pending invite of a user to an organisation, or NoInvite
    req,            \* open transactions
    replacements, statusChanges,    \* counted for their bounds
    everOwner,      \* history: who has owned which organisation
    crossed         \* history: organisations where an owner was put in place past an open
                    \* transaction that had already checked the row

vars == <<userActive, orgState, orgActive, member, invite, req, replacements,
          statusChanges, everOwner, crossed>>

counters == <<replacements, statusChanges>>
history  == <<everOwner, crossed>>

NoRow    == [user |-> Nobody, org |-> Nobody, role |-> "member", active |-> FALSE, by |-> Nobody]
NoInvite == [role |-> "member", by |-> Nobody]
Idle     == [step |-> "idle"]

ActiveIn(o)  == {m \in Rows : member[m].active /\ member[m].org = o}
Owners(o)    == {m \in ActiveIn(o) : member[m].role = "owner"}
ActiveOf(u)  == {m \in Rows : member[m].active /\ member[m].user = u}

Init ==
    /\ \E start \in Starts :
         /\ userActive = [u \in Users |-> u \notin start.suspended]
         /\ orgState = [o \in Orgs |-> IF o \in start.deleted THEN "deleted" ELSE "none"]
         /\ replacements = start.replacements
         /\ statusChanges = start.statusChanges
    /\ orgActive = [o \in Orgs |-> TRUE]
    /\ member = [m \in Rows |-> NoRow]
    /\ invite = [p \in Orgs \X Users |-> NoInvite]
    /\ req = [r \in Requests |-> Idle]
    /\ everOwner = {}
    /\ crossed = {}

Free(r)       == req[r] = Idle
Opens(r, t)   == req' = [req EXCEPT ![r] = t]
Closes(r)     == req' = [req EXCEPT ![r] = Idle]

\* A role change or removal that has checked row m and not yet written it.
Holds(r, m) == req[r].step \in {"changing", "removing"} /\ req[r].row = m

\* Rows whose lock an open deletion holds: an UPDATE of one waits.
Locked(m) == \E r \in Requests : req[r].step = "deleting" /\ m \in req[r].rows

\* The user of a row whose insert is not committed: the unique index makes a
\* second insert wait.
Inserting(u) == \E r \in Requests : req[r].step = "inserted" /\ req[r].user = u

\* An open transaction has updated the invite row.
Accepting(o, u) ==
    \E r \in Requests : /\ req[r].step \in {"accepting", "inserted"}
                        /\ req[r].org = o /\ req[r].user = u

-------------------------------------------------------------------------------
(* What the services check.                                                *)

\* get_organisation and ensure_organisation_active.
Usable(o) == orgState[o] = "live" /\ orgActive[o]

\* Row m is an active membership whose user and organisation are active.
ActsIn(m, o) ==
    /\ m \in ActiveIn(o)
    /\ userActive[member[m].user]
    /\ Usable(o)

\* _change_membership_role, checks in any order: all of them raise.
MayChangeRole(a, t, role) ==
    /\ role # "owner" /\ member[t].role # "owner"
    /\ member[a].role = "owner"
    /\ member[t].role # role

\* Variant: the owner may remove every membership, its own too.
OwnerRemovesAny(a, t) ==
    \/ member[a].role = "owner"
    \/ member[a].role = "admin" /\ member[t].role = "member"

\* _remove_membership.
MayRemove(a, t) ==
    /\ member[t].role # "owner"
    /\ \/ member[a].role = "owner"
       \/ member[a].role = "admin" /\ member[t].role = "member"

\* Variant: an admin may invite another admin.
AdminInvitesAdmin(a, role) == role # "owner" /\ member[a].role \in {"owner", "admin"}

\* create_invite.
MayInvite(a, role) ==
    /\ role # "owner"
    /\ \/ member[a].role = "owner"
       \/ member[a].role = "admin" /\ role = "member"

\* Variant: the check of the service without the index behind it.
NotYetMember(u) == ActiveOf(u) = {}

\* get_membership_for_user finds none, and uq_memberships_user_id_active agrees.
MayJoin(u) == ActiveOf(u) = {} /\ ~Inserting(u)

-------------------------------------------------------------------------------
(* Creating and joining.                                                   *)

\* Rows are taken in order: ids carry no meaning.
NextRow(m) == member[m] = NoRow /\ \A n \in Rows : n < m => member[n] # NoRow

Row(u, o, role, by) == [user |-> u, org |-> o, role |-> role, active |-> TRUE, by |-> by]

\* create_organisation_for_current_user. What was read before the inserts only
\* words the error: the index decides, so the transaction is one step.
CreateOrganisation(u, o, m) ==
    /\ userActive[u] /\ orgState[o] = "none"
    /\ MayJoin(u)
    /\ NextRow(m)
    /\ orgState' = [orgState EXCEPT ![o] = "live"]
    /\ member' = [member EXCEPT ![m] = Row(u, o, "owner", u)]
    /\ everOwner' = everOwner \cup {<<u, o>>}
    /\ UNCHANGED <<userActive, orgActive, invite, req, counters, crossed>>

InviteReads(r, m, o, v, role) ==
    /\ Free(r)
    /\ ActsIn(m, o)
    /\ MayInvite(m, role)
    /\ invite[<<o, v>>] = NoInvite
    /\ Cardinality({p \in Orgs \X Users : invite[p] # NoInvite}) < MaxInvites
    /\ Opens(r, [step |-> "inviting", org |-> o, user |-> v, role |-> role, by |-> member[m].user])
    /\ UNCHANGED <<userActive, orgState, orgActive, member, invite, counters, history>>

\* uq_invites_org_email_pending: the insert fails when another one was faster.
InviteCommits(r) ==
    /\ req[r].step = "inviting"
    /\ LET t == req[r]
       IN  invite' = IF invite[<<t.org, t.user>>] = NoInvite
                     THEN [invite EXCEPT ![<<t.org, t.user>>] = [role |-> t.role, by |-> t.by]]
                     ELSE invite
    /\ Closes(r)
    /\ UNCHANGED <<userActive, orgState, orgActive, member, counters, history>>

\* The invite is revoked or expires; a row an accept has updated is locked.
InviteEnds(o, u) ==
    /\ invite[<<o, u>>] # NoInvite
    /\ ~Accepting(o, u)
    /\ invite' = [invite EXCEPT ![<<o, u>>] = NoInvite]
    /\ UNCHANGED <<userActive, orgState, orgActive, member, req, counters, history>>

\* accept_invite: the conditional UPDATE locks the invite, then user and
\* organisation are read.
AcceptReads(r, u, o) ==
    /\ Free(r)
    /\ invite[<<o, u>>] # NoInvite
    /\ ~Accepting(o, u)
    /\ userActive[u] /\ Usable(o)
    /\ Opens(r, [step |-> "accepting", org |-> o, user |-> u])
    /\ UNCHANGED <<userActive, orgState, orgActive, member, invite, counters, history>>

\* create_membership inserts the row and counts the owners as committed.
AcceptInserts(r) ==
    /\ req[r].step = "accepting"
    /\ ~Inserting(req[r].user)
    /\ IF MayJoin(req[r].user) /\ Cardinality(Owners(req[r].org)) = 1
       THEN Opens(r, [req[r] EXCEPT !.step = "inserted"])
       ELSE Closes(r)
    /\ UNCHANGED <<userActive, orgState, orgActive, member, invite, counters, history>>

AcceptCommits(r, m) ==
    /\ req[r].step = "inserted"
    /\ NextRow(m)
    /\ LET t == req[r]
       IN  /\ member' = [member EXCEPT ![m] =
                           Row(t.user, t.org, invite[<<t.org, t.user>>].role,
                               invite[<<t.org, t.user>>].by)]
           /\ invite' = [invite EXCEPT ![<<t.org, t.user>>] = NoInvite]
    /\ Closes(r)
    /\ UNCHANGED <<userActive, orgState, orgActive, counters, history>>

-------------------------------------------------------------------------------
(* Managing members.                                                       *)

ChangeRoleReads(r, a, t, role) ==
    /\ Free(r)
    /\ ActsIn(a, member[a].org)
    /\ t \in ActiveIn(member[a].org)
    /\ MayChangeRole(a, t, role)
    /\ Opens(r, [step |-> "changing", row |-> t, role |-> role, by |-> member[a].user])
    /\ UNCHANGED <<userActive, orgState, orgActive, member, invite, counters, history>>

\* UPDATE memberships SET role WHERE id: whatever the row has become.
ChangeRoleCommits(r) ==
    /\ req[r].step = "changing"
    /\ ~Locked(req[r].row)
    /\ member' = [member EXCEPT ![req[r].row].role = req[r].role,
                                ![req[r].row].by = req[r].by]
    /\ Closes(r)
    /\ UNCHANGED <<userActive, orgState, orgActive, invite, counters, history>>

RemoveReads(r, a, t) ==
    /\ Free(r)
    /\ ActsIn(a, member[a].org)
    /\ t \in ActiveIn(member[a].org)
    /\ MayRemove(a, t)
    /\ Opens(r, [step |-> "removing", row |-> t])
    /\ UNCHANGED <<userActive, orgState, orgActive, member, invite, counters, history>>

\* UPDATE memberships SET is_active = false WHERE id.
RemoveCommits(r) ==
    /\ req[r].step = "removing"
    /\ ~Locked(req[r].row)
    /\ member' = [member EXCEPT ![req[r].row].active = FALSE]
    /\ Closes(r)
    /\ UNCHANGED <<userActive, orgState, orgActive, invite, counters, history>>

\* emergency_replace_organisation_owner: all rows are locked before they are
\* read, so the transaction is one step.
ReplaceOwner(r, o, source, target) ==
    /\ Free(r)
    /\ replacements < MaxReplacements
    /\ source \in Owners(o) /\ target \in ActiveIn(o) \ Owners(o)
    /\ \A m \in ActiveIn(o) : ~Locked(m)
    /\ member' = [member EXCEPT ![source].role = "admin", ![target].role = "owner"]
    /\ everOwner' = everOwner \cup {<<member[target].user, o>>}
    /\ replacements' = replacements + 1
    /\ crossed' = IF \E q \in Requests : Holds(q, target) THEN crossed \cup {o} ELSE crossed
    /\ UNCHANGED <<userActive, orgState, orgActive, invite, req, statusChanges>>

-------------------------------------------------------------------------------
(* Deleting and suspending.                                                *)

DeleteReads(r, a) ==
    /\ Free(r)
    /\ ActsIn(a, member[a].org)
    /\ member[a].role = "owner"
    /\ Opens(r, [step |-> "mayDelete", org |-> member[a].org])
    /\ UNCHANGED <<userActive, orgState, orgActive, member, invite, counters, history>>

\* deactivate_organisation_memberships: the rows its snapshot holds.
Deactivates(o) == ActiveIn(o)

DeleteUpdates(r) ==
    /\ req[r].step = "mayDelete"
    /\ \A m \in ActiveIn(req[r].org) : ~Locked(m)
    /\ Opens(r, [step |-> "deleting", org |-> req[r].org, rows |-> Deactivates(req[r].org)])
    /\ UNCHANGED <<userActive, orgState, orgActive, member, invite, counters, history>>

DeleteCommits(r) ==
    /\ req[r].step = "deleting"
    /\ orgState' = [orgState EXCEPT ![req[r].org] = "deleted"]
    /\ member' = [m \in Rows |-> IF m \in req[r].rows THEN [member[m] EXCEPT !.active = FALSE]
                                 ELSE member[m]]
    /\ Closes(r)
    /\ UNCHANGED <<userActive, orgActive, invite, counters, history>>

CountStatusChange ==
    /\ statusChanges < MaxStatusChanges
    /\ statusChanges' = statusChanges + 1

\* suspend_user and restore_user, by platform staff.
SetUserStatus(u) ==
    /\ CountStatusChange
    /\ userActive' = [userActive EXCEPT ![u] = ~@]
    /\ UNCHANGED <<orgState, orgActive, member, invite, req, replacements, history>>

\* suspend_organisation and restore_organisation: deleted ones too.
SetOrganisationStatus(o) ==
    /\ orgState[o] # "none"
    /\ CountStatusChange
    /\ orgActive' = [orgActive EXCEPT ![o] = ~@]
    /\ UNCHANGED <<userActive, orgState, member, invite, req, replacements, history>>

-------------------------------------------------------------------------------
Next ==
    \/ \E u \in Users, o \in Orgs, m \in Rows : CreateOrganisation(u, o, m)
    \/ \E r \in Requests, m \in Rows, o \in Orgs, u \in Users, role \in Roles :
          InviteReads(r, m, o, u, role)
    \/ \E r \in Requests : InviteCommits(r)
    \/ \E o \in Orgs, u \in Users : InviteEnds(o, u)
    \/ \E r \in Requests, u \in Users, o \in Orgs : AcceptReads(r, u, o)
    \/ \E r \in Requests : AcceptInserts(r)
    \/ \E r \in Requests, m \in Rows : AcceptCommits(r, m)
    \/ \E r \in Requests, a, t \in Rows, role \in Roles : ChangeRoleReads(r, a, t, role)
    \/ \E r \in Requests : ChangeRoleCommits(r)
    \/ \E r \in Requests, a, t \in Rows : RemoveReads(r, a, t)
    \/ \E r \in Requests : RemoveCommits(r)
    \/ \E r \in Requests, o \in Orgs, s, t \in Rows : ReplaceOwner(r, o, s, t)
    \/ \E r \in Requests, a \in Rows : DeleteReads(r, a)
    \/ \E r \in Requests : DeleteUpdates(r)
    \/ \E r \in Requests : DeleteCommits(r)
    \/ \E u \in Users : SetUserStatus(u)
    \/ \E o \in Orgs : SetOrganisationStatus(o)

Spec == Init /\ [][Next]_vars

-------------------------------------------------------------------------------
(* Properties.                                                             *)

MemberRow == [user : Users \cup {Nobody}, org : Orgs \cup {Nobody}, role : Roles,
              active : BOOLEAN, by : Users \cup {Nobody}]

RequestType ==
    {Idle}
    \cup [step : {"inviting"}, org : Orgs, user : Users, role : Roles, by : Users]
    \cup [step : {"accepting", "inserted"}, org : Orgs, user : Users]
    \cup [step : {"changing"}, row : Rows, role : Roles, by : Users]
    \cup [step : {"removing"}, row : Rows]
    \cup [step : {"mayDelete"}, org : Orgs]
    \cup [step : {"deleting"}, org : Orgs, rows : SUBSET Rows]

\* The types of the variables.
TypeOK ==
    /\ userActive \in [Users -> BOOLEAN]
    /\ orgState \in [Orgs -> {"none", "live", "deleted"}]
    /\ orgActive \in [Orgs -> BOOLEAN]
    /\ member \in [Rows -> MemberRow]
    /\ invite \in [Orgs \X Users -> [role : Roles, by : Users \cup {Nobody}]]
    /\ req \in [Requests -> RequestType]
    /\ replacements \in 0 .. MaxReplacements /\ statusChanges \in 0 .. MaxStatusChanges
    /\ everOwner \subseteq Users \X Orgs /\ crossed \subseteq Orgs

\* A user has at most one active membership, in whatever organisation: no two
\* transactions that both saw none, joining or creating, commit one each.
OneMembership == \A u \in Users : Cardinality(ActiveOf(u)) <= 1

\* An organisation has exactly one active owner until it is deleted, through every
\* sequence and interleaving of joins, role changes, removals, replacements and
\* deletions, except where a replacement promotes a row that an open role change or
\* removal has already checked.
ExactlyOneOwner ==
    \A o \in Orgs : orgState[o] = "live" /\ o \notin crossed => Cardinality(Owners(o)) = 1

\* Deleting an organisation sets its members free to join or create another one:
\* nobody keeps an active membership of a deleted organisation.
DeletedSetsFree == \A o \in Orgs : orgState[o] = "deleted" => ActiveIn(o) = {}

\* Admin rights come from an owner: every admin was invited or promoted by
\* someone who owned the organisation, or owned it himself, also when the roles
\* changed between a request's checks and its write.
AdminsComeFromOwners ==
    \A o \in Orgs : \A m \in ActiveIn(o) : member[m].role = "admin" =>
        <<member[m].by, o>> \in everOwner \/ <<member[m].user, o>> \in everOwner
===============================================================================
