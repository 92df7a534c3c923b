------------------------------ MODULE AccessProofs ------------------------------
(***************************************************************************)
(* Who may do what: the safety properties of Tenancy, for any number of    *)
(* users, organisations, membership rows and open transactions, and in the *)
(* second half those of PlatformStaff, for any accounts and requests. The  *)
(* two modules share no name, so one proof module can extend both.         *)
(*                                                                         *)
(* IInv says what an open tenant transaction may still rely on of what it  *)
(* read: rows keep their user and organisation, owners are recorded for    *)
(* good, and a replacement that made the rest stale is recorded in         *)
(* crossed. StaffInv says what a platform request that is alone may rely   *)
(* on: the actor it was authorised as is still an administrator, and what  *)
(* it loaded does not touch that actor's own rights.                       *)
(***************************************************************************)
EXTENDS Tenancy, PlatformStaff, FiniteSetTheorems, TLAPS

-------------------------------------------------------------------------------
(* Tenancy.                                                                *)

\* Row m has been inserted; rows are never deleted.
IsRow(m) == m \in Rows /\ member[m].user \in Users /\ member[m].org \in Orgs

ActiveOwner(m) == member[m].active /\ member[m].role = "owner"
Owned(u, o) == <<u, o>> \in everOwner

\* Active rows were inserted, into an organisation that was created.
ActiveIsRow ==
    \A m \in Rows : member[m].active =>
        /\ IsRow(m) /\ orgState[member[m].org] # "none"
        /\ member[m].role = "owner" => Owned(member[m].user, member[m].org)

\* A user has one active row, an organisation one active owner.
OneRow ==
    \A m, n \in Rows : member[m].active /\ member[n].active /\ member[m].user = member[n].user
                       => m = n
OneOwner ==
    \A o \in Orgs : orgState[o] = "live" /\ o \notin crossed => \E m \in Rows : Owners(o) = {m}

\* No invite makes an owner, and one that makes an admin is an owner's.
InvitesAreSound ==
    \A p \in Orgs \X Users :
        /\ invite[p].role # "owner"
        /\ invite[p].role = "admin" => Owned(invite[p].by, p[1])

\* What the open transaction r may rely on.
MayInviteStill(r) ==
    req[r].step = "inviting" =>
        req[r].role # "owner" /\ (req[r].role = "admin" => Owned(req[r].by, req[r].org))
MayInsertStill(r) ==
    /\ req[r].step \in {"accepting", "inserted"} => orgState[req[r].org] # "none"
    /\ req[r].step = "inserted" =>
          \A m \in Rows : member[m].active => member[m].user # req[r].user
MayWriteStill(r) ==
    /\ req[r].step \in {"changing", "removing"} =>
          /\ IsRow(req[r].row)
          /\ ActiveOwner(req[r].row) => member[req[r].row].org \in crossed
    /\ req[r].step = "changing" =>
          req[r].role # "owner" /\ Owned(req[r].by, member[req[r].row].org)
MayDeleteStill(r) ==
    /\ req[r].step \in {"mayDelete", "deleting"} => orgState[req[r].org] # "none"
    /\ req[r].step = "deleting" =>
          \A m \in req[r].rows : IsRow(m) /\ member[m].org = req[r].org
Sound(r) == MayInviteStill(r) /\ MayInsertStill(r) /\ MayWriteStill(r) /\ MayDeleteStill(r)

RequestsAreSound == \A r \in Requests : Sound(r)

\* Uncommitted inserts are of different users.
InsertsDiffer ==
    \A r, q \in Requests : /\ req[r].step = "inserted" /\ req[q].step = "inserted"
                           /\ req[r].user = req[q].user
                           => r = q

IInv ==
    /\ TypeOK /\ ActiveIsRow /\ OneRow /\ OneOwner /\ InvitesAreSound
    /\ RequestsAreSound /\ InsertsDiffer /\ AdminsComeFromOwners

-------------------------------------------------------------------------------
\* The steps of a transaction and what each of them remembers.
LEMMA RequestTypes ==
    ASSUME NEW t \in RequestType
    PROVE  /\ t.step \in {"idle", "inviting", "accepting", "inserted", "changing", "removing",
                          "mayDelete", "deleting"}
           /\ t = Idle <=> t.step = "idle"
           /\ t.step = "inviting" =>
                 t.org \in Orgs /\ t.user \in Users /\ t.role \in Roles /\ t.by \in Users
           /\ t.step \in {"accepting", "inserted"} => t.org \in Orgs /\ t.user \in Users
           /\ t.step \in {"changing", "removing"} => t.row \in Rows
           /\ t.step = "changing" => t.role \in Roles /\ t.by \in Users
           /\ t.step \in {"mayDelete", "deleting"} => t.org \in Orgs
           /\ t.step = "deleting" => t.rows \in SUBSET Rows
  BY DEF RequestType, Idle

\* An accept keeps what it remembers when its insert has been made.
LEMMA InsertedType ==
    ASSUME NEW t \in RequestType, t.step = "accepting"
    PROVE  /\ [t EXCEPT !.step = "inserted"] \in RequestType
           /\ [t EXCEPT !.step = "inserted"].step = "inserted"
           /\ [t EXCEPT !.step = "inserted"].org = t.org
           /\ [t EXCEPT !.step = "inserted"].user = t.user
  BY DEF RequestType, Idle

\* What the membership rows say, element by element.
LEMMA RowSets ==
    ASSUME NEW m, NEW o
    PROVE  /\ m \in ActiveIn(o) <=> m \in Rows /\ member[m].active /\ member[m].org = o
           /\ m \in Owners(o) <=> m \in Rows /\ ActiveOwner(m) /\ member[m].org = o
  BY DEF ActiveIn, Owners, ActiveOwner

\* A set of rows with one element has cardinality one, and the reverse.
LEMMA CardinalityOne ==
    ASSUME NEW S \in SUBSET Rows
    PROVE  /\ Cardinality(S) = 1 <=> \E m \in Rows : S = {m}
           /\ (\A m, n \in S : m = n) => Cardinality(S) <= 1
<1>1. IsFiniteSet(S)
  <2>1. IsFiniteSet(Rows)
    BY TenancyAssumption, FS_Interval DEF Rows
  <2> QED
    BY <2>1, FS_Subset
<1>2. Cardinality(S) = 1 <=> \E m \in Rows : S = {m}
  BY <1>1, FS_Singleton
<1>3. ASSUME \A m, n \in S : m = n PROVE Cardinality(S) <= 1
  <2>1. CASE S = {}
    BY <2>1, FS_EmptySet
  <2>2. CASE S # {}
    <3>1. PICK m \in S : TRUE
      BY <2>2
    <3>2. S = {m}
      BY <1>3, <3>1
    <3> QED
      BY <1>2, <3>2
  <2> QED
    BY <2>1, <2>2
<1> QED
  BY <1>2, <1>3

\* A free row was never inserted.
LEMMA FreeRow ==
    ASSUME IInv, NEW m \in Rows, NextRow(m)
    PROVE  ~IsRow(m) /\ ~member[m].active
  BY TenancyAssumption DEF NextRow, NoRow, IsRow, IInv, ActiveIsRow

\* A transaction that holds nothing relies on nothing.
LEMMA IdleIsSound ==
    ASSUME NEW r \in Requests, req[r] = Idle
    PROVE  Sound(r)
<1>1. req[r].step = "idle"
  BY DEF Idle
<1> QED
  BY <1>1 DEF Sound, MayInviteStill, MayInsertStill, MayWriteStill, MayDeleteStill

\* The initial states.
LEMMA InitHolds == Init => IInv
<1> SUFFICES ASSUME Init PROVE IInv
  OBVIOUS
<1>1. PICK start \in Starts :
         /\ userActive = [u \in Users |-> u \notin start.suspended]
         /\ orgState = [o \in Orgs |-> IF o \in start.deleted THEN "deleted" ELSE "none"]
         /\ replacements = start.replacements
         /\ statusChanges = start.statusChanges
  BY DEF Init
<1>2. \A m \in Rows : member[m] = NoRow /\ ~member[m].active
  BY DEF Init, NoRow
<1>3. \A r \in Requests : req[r] = Idle /\ req[r].step = "idle"
  BY DEF Init, Idle
<1>4. TypeOK
  <2>1. replacements \in 0 .. MaxReplacements /\ statusChanges \in 0 .. MaxStatusChanges
    BY <1>1, TenancyAssumption
  <2>2. member \in [Rows -> MemberRow]
    BY DEF Init, NoRow, MemberRow, Roles
  <2>3. invite \in [Orgs \X Users -> [role : Roles, by : Users \cup {Nobody}]]
    BY DEF Init, NoInvite, Roles
  <2>4. req \in [Requests -> RequestType]
    BY DEF Init, RequestType
  <2> QED
    BY <1>1, <2>1, <2>2, <2>3, <2>4 DEF Init, TypeOK
<1>5. InvitesAreSound
  BY DEF Init, NoInvite, InvitesAreSound
<1>6. RequestsAreSound
  BY <1>3, IdleIsSound DEF RequestsAreSound
<1>7. ActiveIsRow /\ OneRow /\ InsertsDiffer
  BY <1>2, <1>3 DEF ActiveIsRow, OneRow, InsertsDiffer
<1>8. OneOwner
  BY <1>1 DEF OneOwner
<1>9. AdminsComeFromOwners
  BY <1>2 DEF AdminsComeFromOwners, ActiveIn
<1> QED
  BY <1>4, <1>5, <1>6, <1>7, <1>8, <1>9 DEF IInv

-------------------------------------------------------------------------------
(* Steps that leave memberships and organisations alone.                   *)

\* Transactions that take a step are looked at again, and so are the invites.
LEMMA ReadingKeeps ==
    ASSUME IInv,
           UNCHANGED <<orgState, member, everOwner, crossed>>,
           userActive' \in [Users -> BOOLEAN], orgActive' \in [Orgs -> BOOLEAN],
           replacements' \in 0 .. MaxReplacements, statusChanges' \in 0 .. MaxStatusChanges,
           invite' \in [Orgs \X Users -> [role : Roles, by : Users \cup {Nobody}]],
           InvitesAreSound',
           req' \in [Requests -> RequestType],
           \A q \in Requests : req'[q] = req[q] \/ Sound(q)',
           InsertsDiffer'
    PROVE  IInv'
<1>1. TypeOK'
  BY DEF IInv, TypeOK
<1>2. ActiveIsRow' /\ OneRow' /\ OneOwner'
  BY DEF IInv, ActiveIsRow, OneRow, OneOwner, IsRow, Owned, Owners, ActiveIn
<1>3. AdminsComeFromOwners'
  BY DEF IInv, AdminsComeFromOwners, ActiveIn
<1>4. RequestsAreSound'
  <2>1. ASSUME NEW q \in Requests, req'[q] = req[q] PROVE Sound(q)'
    BY <2>1 DEF IInv, RequestsAreSound, Sound, MayInviteStill, MayInsertStill, MayWriteStill,
       MayDeleteStill, Owned, IsRow, ActiveOwner, ActiveIn
  <2> QED
    BY <2>1 DEF RequestsAreSound
<1> QED
  BY <1>1, <1>2, <1>3, <1>4 DEF IInv

\* The same, when transaction r becomes t and nothing else changes.
LEMMA OpeningKeeps ==
    ASSUME IInv, NEW r \in Requests, NEW t \in RequestType, Opens(r, t),
           UNCHANGED <<userActive, orgState, orgActive, member, invite, counters, history>>,
           Sound(r)',
           t.step = "inserted" => ~Inserting(t.user)
    PROVE  IInv'
<1>1. /\ req' \in [Requests -> RequestType] /\ req'[r] = t
      /\ \A q \in Requests \ {r} : req'[q] = req[q]
  BY DEF Opens, IInv, TypeOK
<1>2. InsertsDiffer'
  BY <1>1 DEF IInv, InsertsDiffer, Inserting
<1>3. InvitesAreSound'
  BY DEF IInv, InvitesAreSound, Owned, history
<1> QED
  BY <1>1, <1>2, <1>3, ReadingKeeps DEF IInv, TypeOK, counters, history

\* A transaction ends and nothing else changes.
LEMMA ClosingKeeps ==
    ASSUME IInv, NEW r \in Requests, Closes(r),
           UNCHANGED <<userActive, orgState, orgActive, member, invite, counters, history>>
    PROVE  IInv'
<1>1. Idle \in RequestType /\ Idle.step = "idle"
  BY DEF RequestType, Idle
<1>2. req'[r] = Idle
  BY DEF Closes, IInv, TypeOK
<1>3. Sound(r)'
  BY <1>1, <1>2 DEF Sound, MayInviteStill, MayInsertStill, MayWriteStill, MayDeleteStill
<1> QED
  BY <1>1, <1>3, OpeningKeeps DEF Closes, Opens

\* create_invite is allowed to the actor.
LEMMA InviteReadsKeeps ==
    ASSUME IInv, NEW r \in Requests, NEW m \in Rows, NEW o \in Orgs, NEW v \in Users,
           NEW role \in Roles, InviteReads(r, m, o, v, role)
    PROVE  IInv'
<1> DEFINE t == [step |-> "inviting", org |-> o, user |-> v, role |-> role, by |-> member[m].user]
<1>1. /\ Opens(r, t) /\ m \in ActiveIn(o) /\ MayInvite(m, role)
      /\ UNCHANGED <<userActive, orgState, orgActive, member, invite, counters, history>>
  BY DEF InviteReads, ActsIn
<1>2. /\ member[m].active /\ member[m].org = o /\ member[m].user \in Users
      /\ member[m].role = "owner" => Owned(member[m].user, o)
  BY <1>1 DEF IInv, ActiveIsRow, ActiveIn, IsRow
<1>3. t \in RequestType /\ t.step = "inviting"
  BY <1>2 DEF RequestType
<1>4. req'[r] = t
  BY <1>1 DEF Opens, IInv, TypeOK
<1>5. role # "owner" /\ (role = "admin" => Owned(member[m].user, o))
  BY <1>1, <1>2 DEF MayInvite
<1>6. Sound(r)'
  BY <1>1, <1>4, <1>5
     DEF Sound, MayInviteStill, MayInsertStill, MayWriteStill, MayDeleteStill, Owned, history
<1> QED
  BY <1>1, <1>3, <1>6, OpeningKeeps

\* The pending invite is inserted, or the index refuses it.
LEMMA InviteCommitsKeeps ==
    ASSUME IInv, NEW r \in Requests, InviteCommits(r)
    PROVE  IInv'
<1> DEFINE t == req[r]
           p == <<t.org, t.user>>
<1>1. /\ t.step = "inviting" /\ Closes(r)
      /\ invite' = [invite EXCEPT ![p] = [role |-> t.role, by |-> t.by]] \/ invite' = invite
      /\ UNCHANGED <<userActive, orgState, orgActive, member, counters, history>>
  BY DEF InviteCommits
<1>2. t.org \in Orgs /\ t.user \in Users /\ t.role \in Roles /\ t.by \in Users
  BY <1>1, RequestTypes DEF IInv, TypeOK
<1>3. t.role # "owner" /\ (t.role = "admin" => Owned(t.by, t.org))
  BY <1>1 DEF IInv, RequestsAreSound, Sound, MayInviteStill
<1>4. /\ req' \in [Requests -> RequestType] /\ req'[r] = Idle
      /\ \A q \in Requests \ {r} : req'[q] = req[q]
  BY <1>1 DEF Closes, RequestType, IInv, TypeOK
<1>5. Idle.step = "idle"
  BY DEF Idle
<1>6. Sound(r)'
  BY <1>4, <1>5 DEF Sound, MayInviteStill, MayInsertStill, MayWriteStill, MayDeleteStill
<1>7. InsertsDiffer'
  BY <1>4, <1>5 DEF IInv, InsertsDiffer
<1>8. /\ invite' \in [Orgs \X Users -> [role : Roles, by : Users \cup {Nobody}]]
      /\ InvitesAreSound'
  <2>1. CASE invite' = invite
    BY <1>1, <2>1 DEF IInv, TypeOK, InvitesAreSound, Owned, history
  <2>2. CASE invite' = [invite EXCEPT ![p] = [role |-> t.role, by |-> t.by]]
    <3> HIDE DEF t
    <3>1. p \in Orgs \X Users /\ p[1] = t.org
      BY <1>2
    <3> HIDE DEF p
    <3> QED
      BY <1>1, <1>2, <1>3, <2>2, <3>1 DEF IInv, TypeOK, InvitesAreSound, Owned, history
  <2> QED
    BY <1>1, <2>1, <2>2
<1> QED
  BY <1>1, <1>4, <1>6, <1>7, <1>8, ReadingKeeps DEF IInv, TypeOK, counters, history

\* The invite is revoked or expires.
LEMMA InviteEndsKeeps ==
    ASSUME IInv, NEW o \in Orgs, NEW u \in Users, InviteEnds(o, u)
    PROVE  IInv'
<1>1. /\ invite' = [invite EXCEPT ![<<o, u>>] = NoInvite]
      /\ UNCHANGED <<userActive, orgState, orgActive, member, req, counters, history>>
  BY DEF InviteEnds
<1>2. /\ invite' \in [Orgs \X Users -> [role : Roles, by : Users \cup {Nobody}]]
      /\ InvitesAreSound'
  BY <1>1 DEF IInv, TypeOK, InvitesAreSound, Owned, history, NoInvite, Roles
<1>3. InsertsDiffer'
  BY <1>1 DEF IInv, InsertsDiffer
<1> QED
  BY <1>1, <1>2, <1>3, ReadingKeeps DEF IInv, TypeOK, counters, history

\* accept_invite has locked the invite and finds the organisation active.
LEMMA AcceptReadsKeeps ==
    ASSUME IInv, NEW r \in Requests, NEW u \in Users, NEW o \in Orgs, AcceptReads(r, u, o)
    PROVE  IInv'
<1> DEFINE t == [step |-> "accepting", org |-> o, user |-> u]
<1>1. /\ Opens(r, t) /\ orgState[o] = "live"
      /\ UNCHANGED <<userActive, orgState, orgActive, member, invite, counters, history>>
  BY DEF AcceptReads, Usable
<1>2. t \in RequestType /\ t.step = "accepting"
  BY DEF RequestType
<1>3. req'[r] = t
  BY <1>1 DEF Opens, IInv, TypeOK
<1>4. Sound(r)'
  BY <1>1, <1>3 DEF Sound, MayInviteStill, MayInsertStill, MayWriteStill, MayDeleteStill
<1> QED
  BY <1>1, <1>2, <1>4, OpeningKeeps

\* create_membership has inserted: the user had no membership.
LEMMA AcceptInsertsKeeps ==
    ASSUME IInv, NEW r \in Requests, AcceptInserts(r)
    PROVE  IInv'
<1> DEFINE s == req[r]
           t == [s EXCEPT !.step = "inserted"]
<1>1. /\ s.step = "accepting" /\ s \in RequestType
      /\ UNCHANGED <<userActive, orgState, orgActive, member, invite, counters, history>>
      /\ \/ Closes(r)
         \/ /\ Opens(r, t) /\ MayJoin(s.user) /\ Cardinality(Owners(s.org)) = 1
  BY DEF AcceptInserts, IInv, TypeOK
<1>2. CASE Closes(r)
  BY <1>1, <1>2, ClosingKeeps
<1>3. CASE Opens(r, t) /\ MayJoin(s.user) /\ Cardinality(Owners(s.org)) = 1
  <2>1. /\ t \in RequestType /\ t.step = "inserted" /\ t.org = s.org /\ t.user = s.user
    BY <1>1, InsertedType
  <2>2. orgState[s.org] # "none"
    BY <1>1 DEF IInv, RequestsAreSound, Sound, MayInsertStill
  <2>3. \A m \in Rows : member[m].active => member[m].user # s.user
    BY <1>3 DEF MayJoin, ActiveOf
  <2>4. req'[r] = t
    BY <1>3 DEF Opens, IInv, TypeOK
  <2> HIDE DEF t, s
  <2>5. Sound(r)'
    BY <1>1, <2>1, <2>2, <2>3, <2>4
       DEF Sound, MayInviteStill, MayInsertStill, MayWriteStill, MayDeleteStill, history
  <2> QED
    BY <1>1, <1>3, <2>1, <2>5, OpeningKeeps DEF MayJoin
<1> QED
  BY <1>1, <1>2, <1>3

\* A role change is allowed to the actor, who owns the organisation of the target.
LEMMA ChangeRoleReadsKeeps ==
    ASSUME IInv, NEW r \in Requests, NEW a \in Rows, NEW m \in Rows, NEW role \in Roles,
           ChangeRoleReads(r, a, m, role)
    PROVE  IInv'
<1> DEFINE t == [step |-> "changing", row |-> m, role |-> role, by |-> member[a].user]
<1>1. /\ Opens(r, t) /\ a \in ActiveIn(member[a].org) /\ m \in ActiveIn(member[a].org)
      /\ role # "owner" /\ member[m].role # "owner" /\ member[a].role = "owner"
      /\ UNCHANGED <<userActive, orgState, orgActive, member, invite, counters, history>>
  BY DEF ChangeRoleReads, ActsIn, MayChangeRole
<1>2. /\ member[a].user \in Users /\ Owned(member[a].user, member[m].org)
      /\ IsRow(m) /\ ~ActiveOwner(m)
  BY <1>1 DEF IInv, ActiveIsRow, ActiveIn, IsRow, ActiveOwner
<1>3. t \in RequestType /\ t.step = "changing"
  BY <1>2 DEF RequestType
<1>4. req'[r] = t
  BY <1>1 DEF Opens, IInv, TypeOK
<1>5. Sound(r)'
  BY <1>1, <1>2, <1>4 DEF Sound, MayInviteStill, MayInsertStill, MayWriteStill, MayDeleteStill,
     Owned, IsRow, ActiveOwner, history
<1> QED
  BY <1>1, <1>3, <1>5, OpeningKeeps

\* A removal is allowed to the actor, and not of an owner.
LEMMA RemoveReadsKeeps ==
    ASSUME IInv, NEW r \in Requests, NEW a \in Rows, NEW m \in Rows, RemoveReads(r, a, m)
    PROVE  IInv'
<1> DEFINE t == [step |-> "removing", row |-> m]
<1>1. /\ Opens(r, t) /\ m \in ActiveIn(member[a].org) /\ member[m].role # "owner"
      /\ UNCHANGED <<userActive, orgState, orgActive, member, invite, counters, history>>
  BY DEF RemoveReads, MayRemove
<1>2. IsRow(m) /\ ~ActiveOwner(m)
  BY <1>1 DEF IInv, ActiveIsRow, ActiveIn, ActiveOwner
<1>3. t \in RequestType /\ t.step = "removing"
  BY DEF RequestType
<1>4. req'[r] = t
  BY <1>1 DEF Opens, IInv, TypeOK
<1>5. Sound(r)'
  BY <1>1, <1>2, <1>4 DEF Sound, MayInviteStill, MayInsertStill, MayWriteStill, MayDeleteStill,
     IsRow, ActiveOwner, history
<1> QED
  BY <1>1, <1>3, <1>5, OpeningKeeps

\* The deletion is allowed to the actor.
LEMMA DeleteReadsKeeps ==
    ASSUME IInv, NEW r \in Requests, NEW a \in Rows, DeleteReads(r, a)
    PROVE  IInv'
<1> DEFINE t == [step |-> "mayDelete", org |-> member[a].org]
<1>1. /\ Opens(r, t) /\ member[a].active
      /\ UNCHANGED <<userActive, orgState, orgActive, member, invite, counters, history>>
  BY DEF DeleteReads, ActsIn, ActiveIn
<1>2. member[a].org \in Orgs /\ orgState[member[a].org] # "none"
  BY <1>1 DEF IInv, ActiveIsRow, IsRow
<1>3. t \in RequestType /\ t.step = "mayDelete"
  BY <1>2 DEF RequestType
<1>4. req'[r] = t
  BY <1>1 DEF Opens, IInv, TypeOK
<1>5. Sound(r)'
  BY <1>1, <1>2, <1>4 DEF Sound, MayInviteStill, MayInsertStill, MayWriteStill, MayDeleteStill
<1> QED
  BY <1>1, <1>3, <1>5, OpeningKeeps

\* The deletion has deactivated all memberships it sees.
LEMMA DeleteUpdatesKeeps ==
    ASSUME IInv, NEW r \in Requests, DeleteUpdates(r)
    PROVE  IInv'
<1> DEFINE o == req[r].org
           t == [step |-> "deleting", org |-> o, rows |-> ActiveIn(o)]
<1>1. /\ req[r].step = "mayDelete" /\ Opens(r, t)
      /\ UNCHANGED <<userActive, orgState, orgActive, member, invite, counters, history>>
  BY DEF DeleteUpdates, Deactivates
<1>2. o \in Orgs /\ orgState[o] # "none"
  BY <1>1, RequestTypes DEF IInv, TypeOK, RequestsAreSound, Sound, MayDeleteStill
<1>3. \A m \in ActiveIn(o) : IsRow(m) /\ member[m].org = o
  BY DEF IInv, ActiveIsRow, ActiveIn
<1> HIDE DEF o
<1>4. t \in RequestType /\ t.step = "deleting"
  BY <1>2 DEF RequestType, ActiveIn
<1>5. req'[r] = t
  BY <1>1 DEF Opens, IInv, TypeOK
<1>6. Sound(r)'
  BY <1>1, <1>2, <1>3, <1>5 DEF Sound, MayInviteStill, MayInsertStill, MayWriteStill,
     MayDeleteStill, IsRow, ActiveIn
<1> QED
  BY <1>1, <1>4, <1>6, OpeningKeeps

\* Platform staff suspend and restore users and organisations.
LEMMA StatusKeeps ==
    ASSUME IInv,
           \/ \E u \in Users : SetUserStatus(u)
           \/ \E o \in Orgs : SetOrganisationStatus(o)
    PROVE  IInv'
<1>1. /\ userActive' \in [Users -> BOOLEAN] /\ orgActive' \in [Orgs -> BOOLEAN]
      /\ UNCHANGED <<orgState, member, invite, req, replacements, everOwner, crossed>>
  BY DEF SetUserStatus, SetOrganisationStatus, IInv, TypeOK, history
<1>2. statusChanges' \in 0 .. MaxStatusChanges
  BY TenancyAssumption DEF SetUserStatus, SetOrganisationStatus, CountStatusChange, IInv, TypeOK
<1>3. InsertsDiffer' /\ InvitesAreSound'
  BY <1>1 DEF IInv, InsertsDiffer, InvitesAreSound, Owned
<1> QED
  BY <1>1, <1>2, <1>3, ReadingKeeps DEF IInv, TypeOK

-------------------------------------------------------------------------------
(* Steps that write memberships or delete an organisation.                 *)

\* What a write must not do to a transaction q that is open meanwhile.
LEMMA RequestStays ==
    ASSUME IInv, NEW q \in Requests, req'[q] = req[q],
           \A o \in Orgs : orgState[o] # "none" => orgState'[o] # "none",
           everOwner \subseteq everOwner', crossed \subseteq crossed',
           \A m \in Rows : IsRow(m) =>
               /\ member'[m].user = member[m].user /\ member'[m].org = member[m].org
               /\ member'[m].active => member[m].active,
           \A m \in Rows : member'[m].active =>
               IsRow(m) \/ (req[q].step = "inserted" => member'[m].user # req[q].user),
           \A m \in Rows : Holds(q, m) /\ ActiveOwner(m)' =>
               ActiveOwner(m) \/ member[m].org \in crossed'
    PROVE  Sound(q)'
<1>1. req[q] \in RequestType /\ Sound(q)
  BY DEF IInv, TypeOK, RequestsAreSound
<1>2. MayInviteStill(q)'
  BY <1>1 DEF Sound, MayInviteStill, Owned
<1>3. MayInsertStill(q)'
  <2>1. req[q].step \in {"accepting", "inserted"} => req[q].org \in Orgs
    BY <1>1, RequestTypes
  <2> QED
    BY <1>1, <2>1 DEF Sound, MayInsertStill, IsRow
<1>4. MayWriteStill(q)'
  <2>1. req[q].step \in {"changing", "removing"} => Holds(q, req[q].row)
    BY DEF Holds
  <2> QED
    BY <1>1, <2>1 DEF Sound, MayWriteStill, IsRow, Owned, ActiveOwner
<1>5. MayDeleteStill(q)'
  <2>1. req[q].step \in {"mayDelete", "deleting"} => orgState'[req[q].org] # "none"
    BY <1>1, RequestTypes DEF Sound, MayDeleteStill
  <2>2. req[q].step = "deleting" =>
            \A m \in req[q].rows : IsRow(m)' /\ member'[m].org = req[q].org
    BY <1>1 DEF Sound, MayDeleteStill, IsRow
  <2> QED
    BY <2>1, <2>2 DEF MayDeleteStill
<1> QED
  BY <1>2, <1>3, <1>4, <1>5 DEF Sound

\* A transaction that commits is closed.
LEMMA Committed ==
    ASSUME IInv, NEW r \in Requests, Closes(r)
    PROVE  /\ req' \in [Requests -> RequestType]
           /\ \A q \in Requests \ {r} : req'[q] = req[q]
           /\ Sound(r)' /\ InsertsDiffer'
<1>1. /\ req' \in [Requests -> RequestType] /\ req'[r] = Idle
      /\ \A q \in Requests \ {r} : req'[q] = req[q]
  BY DEF Closes, RequestType, IInv, TypeOK
<1>2. Idle.step = "idle"
  BY DEF Idle
<1>3. Sound(r)'
  BY <1>1, <1>2 DEF Sound, MayInviteStill, MayInsertStill, MayWriteStill, MayDeleteStill
<1>4. InsertsDiffer'
  BY <1>1, <1>2 DEF IInv, InsertsDiffer
<1> QED
  BY <1>1, <1>3, <1>4

\* An organisation is created with its owner: it had no members, its owner no membership.
LEMMA CreateOrganisationKeeps ==
    ASSUME IInv, NEW u \in Users, NEW o \in Orgs, NEW m \in Rows, CreateOrganisation(u, o, m)
    PROVE  IInv'
<1>1. /\ orgState[o] = "none" /\ MayJoin(u) /\ NextRow(m)
      /\ orgState' = [orgState EXCEPT ![o] = "live"]
      /\ member' = [member EXCEPT ![m] = Row(u, o, "owner", u)]
      /\ everOwner' = everOwner \cup {<<u, o>>}
      /\ UNCHANGED <<userActive, orgActive, invite, req, replacements, statusChanges, crossed>>
  BY DEF CreateOrganisation, counters
<1>2. ~IsRow(m) /\ ~member[m].active
  BY <1>1, FreeRow
<1>3. /\ member' \in [Rows -> MemberRow]
      /\ member'[m].user = u /\ member'[m].org = o /\ member'[m].role = "owner"
      /\ member'[m].active
      /\ \A n \in Rows \ {m} : member'[n] = member[n]
  BY <1>1 DEF IInv, TypeOK, Row, MemberRow, Roles
<1>4. /\ orgState' \in [Orgs -> {"none", "live", "deleted"}] /\ orgState'[o] = "live"
      /\ \A p \in Orgs \ {o} : orgState'[p] = orgState[p]
  BY <1>1 DEF IInv, TypeOK
<1>5. TypeOK'
  BY <1>1, <1>3, <1>4 DEF IInv, TypeOK
<1>6. /\ \A n \in Rows : member[n].active => member[n].org # o /\ member[n].user # u
      /\ \A q \in Requests : req[q].step = "inserted" => req[q].user # u
  BY <1>1 DEF IInv, ActiveIsRow, MayJoin, ActiveOf, Inserting
<1>7. ActiveIsRow'
  BY <1>1, <1>3, <1>4 DEF IInv, ActiveIsRow, IsRow, Owned
<1>8. OneRow'
  BY <1>3, <1>6 DEF IInv, OneRow
<1>9. OneOwner'
  <2>1. Owners(o)' = {m}
    BY <1>3, <1>6 DEF Owners, ActiveIn
  <2>2. \A p \in Orgs \ {o} : Owners(p)' = Owners(p)
    BY <1>2, <1>3 DEF Owners, ActiveIn
  <2> QED
    BY <1>1, <1>4, <2>1, <2>2 DEF IInv, OneOwner
<1>10. InvitesAreSound'
  BY <1>1 DEF IInv, InvitesAreSound, Owned
<1>11. RequestsAreSound'
  <2>1. ASSUME NEW q \in Requests PROVE Sound(q)'
    <3>1. \A n \in Rows : Holds(q, n) => n # m
      BY <1>2 DEF IInv, RequestsAreSound, Sound, MayWriteStill, Holds
    <3> QED
      BY <1>1, <1>2, <1>3, <1>4, <1>6, <3>1, RequestStays
         DEF IInv, TypeOK, ActiveOwner, ActiveIsRow
  <2> QED
    BY <2>1 DEF RequestsAreSound
<1>12. InsertsDiffer'
  BY <1>1 DEF IInv, InsertsDiffer
<1>13. AdminsComeFromOwners'
  BY <1>1, <1>3 DEF IInv, AdminsComeFromOwners, ActiveIn
<1> QED
  BY <1>5, <1>7, <1>8, <1>9, <1>10, <1>11, <1>12, <1>13 DEF IInv

\* An accept commits its membership.
LEMMA AcceptCommitsKeeps ==
    ASSUME IInv, NEW r \in Requests, NEW m \in Rows, AcceptCommits(r, m)
    PROVE  IInv'
<1> DEFINE o == req[r].org
           u == req[r].user
           i == invite[<<o, u>>]
<1>1. /\ req[r].step = "inserted" /\ NextRow(m) /\ Closes(r)
      /\ member' = [member EXCEPT ![m] = Row(u, o, i.role, i.by)]
      /\ invite' = [invite EXCEPT ![<<o, u>>] = NoInvite]
      /\ UNCHANGED <<userActive, orgState, orgActive, replacements, statusChanges, everOwner,
                     crossed>>
  BY DEF AcceptCommits, counters, history
<1>2. o \in Orgs /\ u \in Users
  BY <1>1, RequestTypes DEF IInv, TypeOK
<1>3. /\ orgState[o] # "none"
      /\ \A n \in Rows : member[n].active => member[n].user # u
  BY <1>1 DEF IInv, RequestsAreSound, Sound, MayInsertStill
<1>4. \A q \in Requests \ {r} : req[q].step = "inserted" => req[q].user # u
  BY <1>1 DEF IInv, InsertsDiffer
<1> HIDE DEF o, u
<1>5. /\ i.role \in Roles /\ i.by \in Users \cup {Nobody} /\ i.role # "owner"
      /\ i.role = "admin" => Owned(i.by, o)
  <2> DEFINE p == <<o, u>>
  <2>1. p \in Orgs \X Users /\ p[1] = o
    BY <1>2
  <2> HIDE DEF p
  <2>2. invite[p] \in [role : Roles, by : Users \cup {Nobody}]
    BY <2>1 DEF IInv, TypeOK
  <2>3. invite[p].role # "owner" /\ (invite[p].role = "admin" => Owned(invite[p].by, o))
    BY <2>1 DEF IInv, InvitesAreSound
  <2> QED
    BY <2>2, <2>3 DEF p
<1> HIDE DEF i
<1>6. ~IsRow(m) /\ ~member[m].active
  BY <1>1, FreeRow
<1>7. /\ member' \in [Rows -> MemberRow]
      /\ member'[m].user = u /\ member'[m].org = o /\ member'[m].role = i.role
      /\ member'[m].by = i.by /\ member'[m].active
      /\ \A n \in Rows \ {m} : member'[n] = member[n]
  BY <1>1, <1>2, <1>5 DEF IInv, TypeOK, Row, MemberRow
<1>8. /\ invite' \in [Orgs \X Users -> [role : Roles, by : Users \cup {Nobody}]]
      /\ InvitesAreSound'
  BY <1>1, <1>2 DEF IInv, TypeOK, InvitesAreSound, Owned, NoInvite, Roles
<1>9. TypeOK'
  BY <1>1, <1>7, <1>8, Committed DEF IInv, TypeOK
<1>10. ActiveIsRow'
  BY <1>1, <1>2, <1>3, <1>5, <1>7 DEF IInv, ActiveIsRow, IsRow, Owned
<1>11. OneRow'
  BY <1>3, <1>7 DEF IInv, OneRow
<1>12. OneOwner'
  <2>1. \A p \in Orgs : Owners(p)' = Owners(p)
    BY <1>5, <1>6, <1>7 DEF Owners, ActiveIn
  <2> QED
    BY <1>1, <2>1 DEF IInv, OneOwner
<1>13. RequestsAreSound'
  <2>1. ASSUME NEW q \in Requests \ {r} PROVE Sound(q)'
    <3>1. \A n \in Rows : Holds(q, n) => n # m
      BY <1>6 DEF IInv, RequestsAreSound, Sound, MayWriteStill, Holds
    <3>2. req'[q] = req[q]
      BY <1>1, Committed
    <3> QED
      BY <1>1, <1>4, <1>6, <1>7, <3>1, <3>2, RequestStays
         DEF IInv, ActiveOwner, ActiveIsRow
  <2> QED
    BY <1>1, <2>1, Committed DEF RequestsAreSound
<1>14. AdminsComeFromOwners'
  BY <1>1, <1>5, <1>7 DEF IInv, AdminsComeFromOwners, ActiveIn, Owned
<1>15. InsertsDiffer'
  BY <1>1, Committed
<1> QED
  BY <1>8, <1>9, <1>10, <1>11, <1>12, <1>13, <1>14, <1>15 DEF IInv

\* A role change commits: the row is not the owner's, unless a replacement that made it
\* so is recorded in crossed.
LEMMA ChangeRoleCommitsKeeps ==
    ASSUME IInv, NEW r \in Requests, ChangeRoleCommits(r)
    PROVE  IInv'
<1> DEFINE k == req[r].row
           role == req[r].role
           by == req[r].by
<1>1. /\ req[r].step = "changing" /\ Closes(r)
      /\ member' = [member EXCEPT ![k].role = role, ![k].by = by]
      /\ UNCHANGED <<userActive, orgState, orgActive, invite, replacements, statusChanges,
                     everOwner, crossed>>
  BY DEF ChangeRoleCommits, counters, history
<1>2. k \in Rows /\ role \in Roles /\ by \in Users
  BY <1>1, RequestTypes DEF IInv, TypeOK
<1>3. /\ IsRow(k) /\ role # "owner" /\ Owned(by, member[k].org)
      /\ ActiveOwner(k) => member[k].org \in crossed
  BY <1>1 DEF IInv, RequestsAreSound, Sound, MayWriteStill
<1> HIDE DEF k, role, by
<1>4. /\ member' \in [Rows -> MemberRow]
      /\ member'[k].user = member[k].user /\ member'[k].org = member[k].org
      /\ member'[k].active = member[k].active
      /\ member'[k].role = role /\ member'[k].by = by
      /\ \A n \in Rows \ {k} : member'[n] = member[n]
  BY <1>1, <1>2 DEF IInv, TypeOK, MemberRow
<1>5. TypeOK'
  BY <1>1, <1>4, Committed DEF IInv, TypeOK
<1>6. ActiveIsRow'
  BY <1>1, <1>3, <1>4 DEF IInv, ActiveIsRow, IsRow, Owned
<1>7. OneRow'
  BY <1>4 DEF IInv, OneRow
<1>8. OneOwner'
  <2>1. \A o \in Orgs \ crossed : Owners(o)' = Owners(o)
    BY <1>3, <1>4 DEF Owners, ActiveIn, ActiveOwner
  <2> QED
    BY <1>1, <2>1 DEF IInv, OneOwner
<1>9. RequestsAreSound'
  <2>1. ASSUME NEW q \in Requests \ {r} PROVE Sound(q)'
    <3>1. req'[q] = req[q]
      BY <1>1, Committed
    <3> QED
      BY <1>1, <1>3, <1>4, <3>1, RequestStays DEF IInv, ActiveOwner, ActiveIsRow
  <2> QED
    BY <1>1, <2>1, Committed DEF RequestsAreSound
<1>10. InvitesAreSound'
  BY <1>1 DEF IInv, InvitesAreSound, Owned
<1>11. AdminsComeFromOwners'
  BY <1>1, <1>3, <1>4 DEF IInv, AdminsComeFromOwners, ActiveIn, Owned
<1>12. InsertsDiffer'
  BY <1>1, Committed
<1> QED
  BY <1>5, <1>6, <1>7, <1>8, <1>9, <1>10, <1>11, <1>12 DEF IInv

\* A removal commits, with the same exception.
LEMMA RemoveCommitsKeeps ==
    ASSUME IInv, NEW r \in Requests, RemoveCommits(r)
    PROVE  IInv'
<1> DEFINE k == req[r].row
<1>1. /\ req[r].step = "removing" /\ Closes(r)
      /\ member' = [member EXCEPT ![k].active = FALSE]
      /\ UNCHANGED <<userActive, orgState, orgActive, invite, replacements, statusChanges,
                     everOwner, crossed>>
  BY DEF RemoveCommits, counters, history
<1>2. k \in Rows
  BY <1>1, RequestTypes DEF IInv, TypeOK
<1>3. ActiveOwner(k) => member[k].org \in crossed
  BY <1>1 DEF IInv, RequestsAreSound, Sound, MayWriteStill
<1> HIDE DEF k
<1>4. /\ member' \in [Rows -> MemberRow]
      /\ member'[k].user = member[k].user /\ member'[k].org = member[k].org
      /\ ~member'[k].active
      /\ \A n \in Rows \ {k} : member'[n] = member[n]
  BY <1>1, <1>2 DEF IInv, TypeOK, MemberRow
<1>5. TypeOK'
  BY <1>1, <1>4, Committed DEF IInv, TypeOK
<1>6. ActiveIsRow'
  BY <1>1, <1>4 DEF IInv, ActiveIsRow, IsRow, Owned
<1>7. OneRow'
  BY <1>4 DEF IInv, OneRow
<1>8. OneOwner'
  <2>1. \A o \in Orgs \ crossed : Owners(o)' = Owners(o)
    BY <1>3, <1>4 DEF Owners, ActiveIn, ActiveOwner
  <2> QED
    BY <1>1, <2>1 DEF IInv, OneOwner
<1>9. RequestsAreSound'
  <2>1. ASSUME NEW q \in Requests \ {r} PROVE Sound(q)'
    <3>1. req'[q] = req[q]
      BY <1>1, Committed
    <3> QED
      BY <1>1, <1>4, <3>1, RequestStays DEF IInv, ActiveOwner, ActiveIsRow
  <2> QED
    BY <1>1, <2>1, Committed DEF RequestsAreSound
<1>10. InvitesAreSound'
  BY <1>1 DEF IInv, InvitesAreSound, Owned
<1>11. AdminsComeFromOwners'
  BY <1>1, <1>4 DEF IInv, AdminsComeFromOwners, ActiveIn
<1>12. InsertsDiffer'
  BY <1>1, Committed
<1> QED
  BY <1>5, <1>6, <1>7, <1>8, <1>9, <1>10, <1>11, <1>12 DEF IInv

\* The owner is replaced: one owner for another.
LEMMA ReplaceOwnerKeeps ==
    ASSUME IInv, NEW r \in Requests, NEW o \in Orgs, NEW s \in Rows, NEW t \in Rows,
           ReplaceOwner(r, o, s, t)
    PROVE  IInv'
<1>1. /\ replacements < MaxReplacements /\ replacements' = replacements + 1
      /\ s \in Owners(o) /\ t \in ActiveIn(o) /\ t \notin Owners(o)
      /\ member' = [member EXCEPT ![s].role = "admin", ![t].role = "owner"]
      /\ everOwner' = everOwner \cup {<<member[t].user, o>>}
      /\ crossed' = IF \E q \in Requests : Holds(q, t) THEN crossed \cup {o} ELSE crossed
      /\ UNCHANGED <<userActive, orgState, orgActive, invite, req, statusChanges>>
  BY DEF ReplaceOwner
<1>2. /\ ActiveOwner(s) /\ member[s].org = o
      /\ member[t].active /\ member[t].org = o /\ member[t].user \in Users
      /\ s # t /\ Owned(member[s].user, o)
  BY <1>1, RowSets DEF IInv, ActiveIsRow, IsRow, ActiveOwner
<1>3. /\ member' \in [Rows -> MemberRow]
      /\ \A n \in Rows : /\ member'[n].user = member[n].user /\ member'[n].org = member[n].org
                         /\ member'[n].active = member[n].active /\ member'[n].by = member[n].by
      /\ member'[s].role = "admin" /\ member'[t].role = "owner"
      /\ \A n \in Rows \ {s, t} : member'[n] = member[n]
  <2>1. /\ member'[s] = [member[s] EXCEPT !.role = "admin"]
        /\ member'[t] = [member[t] EXCEPT !.role = "owner"]
        /\ \A n \in Rows \ {s, t} : member'[n] = member[n]
        /\ member' = [n \in Rows |-> member'[n]]
    BY <1>1, <1>2 DEF IInv, TypeOK
  <2>2. \A n \in Rows : member[n] \in MemberRow
    BY DEF IInv, TypeOK
  <2>3. /\ member'[s] \in MemberRow /\ member'[s].role = "admin"
        /\ member'[s].user = member[s].user /\ member'[s].org = member[s].org
        /\ member'[s].active = member[s].active /\ member'[s].by = member[s].by
    BY <2>1, <2>2 DEF MemberRow, Roles
  <2>4. /\ member'[t] \in MemberRow /\ member'[t].role = "owner"
        /\ member'[t].user = member[t].user /\ member'[t].org = member[t].org
        /\ member'[t].active = member[t].active /\ member'[t].by = member[t].by
    BY <2>1, <2>2 DEF MemberRow, Roles
  <2>5. \A n \in Rows : member'[n] \in MemberRow
    BY <2>1, <2>2, <2>3, <2>4
  <2> QED
    BY <2>1, <2>3, <2>4, <2>5
<1>4. crossed \subseteq crossed' /\ crossed' \subseteq crossed \cup {o}
  BY <1>1
<1>5. TypeOK'
  <2>1. replacements' \in 0 .. MaxReplacements
    BY <1>1, TenancyAssumption DEF IInv, TypeOK
  <2>2. everOwner' \subseteq Users \X Orgs
    BY <1>1, <1>2 DEF IInv, TypeOK
  <2> QED
    BY <1>1, <1>3, <1>4, <2>1, <2>2 DEF IInv, TypeOK
<1>6. ActiveIsRow'
  BY <1>1, <1>2, <1>3 DEF IInv, ActiveIsRow, IsRow, Owned
<1>7. OneRow'
  BY <1>3 DEF IInv, OneRow
<1>8. OneOwner'
  <2>1. ASSUME NEW p \in Orgs \ {o} PROVE Owners(p)' = Owners(p)
    BY <1>2, <1>3 DEF Owners, ActiveIn, ActiveOwner
  <2>2. ASSUME orgState[o] = "live", o \notin crossed PROVE Owners(o)' = {t}
    <3>1. Owners(o) = {s}
      BY <1>1, <2>2 DEF IInv, OneOwner
    <3> QED
      BY <1>2, <1>3, <3>1 DEF Owners, ActiveIn
  <2> QED
    BY <1>1, <1>4, <2>1, <2>2 DEF IInv, OneOwner
<1>9. RequestsAreSound'
  <2>1. ASSUME NEW q \in Requests PROVE Sound(q)'
    <3>1. ASSUME NEW n \in Rows, Holds(q, n), ActiveOwner(n)'
          PROVE  ActiveOwner(n) \/ member[n].org \in crossed'
      <4>1. n # s
        BY <1>3, <3>1 DEF ActiveOwner
      <4>2. CASE n = t
        BY <1>1, <1>2, <3>1, <4>2
      <4>3. CASE n # t
        BY <1>3, <3>1, <4>1, <4>3 DEF ActiveOwner
      <4> QED
        BY <4>2, <4>3
    <3> QED
      BY <1>1, <1>3, <1>4, <3>1, RequestStays DEF IInv, ActiveIsRow
  <2> QED
    BY <2>1 DEF RequestsAreSound
<1>10. InvitesAreSound' /\ InsertsDiffer'
  BY <1>1 DEF IInv, InvitesAreSound, Owned, InsertsDiffer
<1>11. AdminsComeFromOwners'
  BY <1>1, <1>2, <1>3 DEF IInv, AdminsComeFromOwners, ActiveIn, Owned
<1> QED
  BY <1>5, <1>6, <1>7, <1>8, <1>9, <1>10, <1>11 DEF IInv

\* A deletion commits: the rows it deactivates are the organisation's own.
LEMMA DeleteCommitsKeeps ==
    ASSUME IInv, NEW r \in Requests, DeleteCommits(r)
    PROVE  IInv'
<1> DEFINE o == req[r].org
           gone == req[r].rows
<1>1. /\ req[r].step = "deleting" /\ Closes(r)
      /\ orgState' = [orgState EXCEPT ![o] = "deleted"]
      /\ member' = [m \in Rows |-> IF m \in gone THEN [member[m] EXCEPT !.active = FALSE]
                                   ELSE member[m]]
      /\ UNCHANGED <<userActive, orgActive, invite, replacements, statusChanges, everOwner,
                     crossed>>
  BY DEF DeleteCommits, counters, history
<1>2. o \in Orgs /\ gone \in SUBSET Rows
  BY <1>1, RequestTypes DEF IInv, TypeOK
<1>3. \A m \in gone : IsRow(m) /\ member[m].org = o
  BY <1>1 DEF IInv, RequestsAreSound, Sound, MayDeleteStill
<1> HIDE DEF o, gone
<1>4. /\ member' \in [Rows -> MemberRow]
      /\ \A n \in Rows : /\ member'[n].user = member[n].user /\ member'[n].org = member[n].org
                         /\ member'[n].role = member[n].role /\ member'[n].by = member[n].by
                         /\ member'[n].active => member[n].active
      /\ \A n \in Rows \ gone : member'[n] = member[n]
  BY <1>1, <1>2 DEF IInv, TypeOK, MemberRow
<1>5. /\ orgState' \in [Orgs -> {"none", "live", "deleted"}]
      /\ orgState'[o] = "deleted" /\ \A p \in Orgs \ {o} : orgState'[p] = orgState[p]
  BY <1>1, <1>2 DEF IInv, TypeOK
<1>6. TypeOK'
  BY <1>1, <1>4, <1>5, Committed DEF IInv, TypeOK
<1>7. ActiveIsRow'
  BY <1>1, <1>4, <1>5 DEF IInv, ActiveIsRow, IsRow, Owned
<1>8. OneRow'
  BY <1>4 DEF IInv, OneRow
<1>9. OneOwner'
  <2>1. \A p \in Orgs \ {o} : Owners(p)' = Owners(p)
    BY <1>3, <1>4 DEF Owners, ActiveIn
  <2> QED
    BY <1>1, <1>5, <2>1 DEF IInv, OneOwner
<1>10. RequestsAreSound'
  <2>1. ASSUME NEW q \in Requests \ {r} PROVE Sound(q)'
    <3>1. req'[q] = req[q]
      BY <1>1, Committed
    <3>2. \A n \in Rows : ActiveOwner(n)' => ActiveOwner(n)
      BY <1>4 DEF ActiveOwner
    <3> QED
      BY <1>1, <1>4, <1>5, <3>1, <3>2, RequestStays DEF IInv, ActiveIsRow
  <2> QED
    BY <1>1, <2>1, Committed DEF RequestsAreSound
<1>11. InvitesAreSound'
  BY <1>1 DEF IInv, InvitesAreSound, Owned
<1>12. AdminsComeFromOwners'
  BY <1>1, <1>4 DEF IInv, AdminsComeFromOwners, ActiveIn
<1>13. InsertsDiffer'
  BY <1>1, Committed
<1> QED
  BY <1>6, <1>7, <1>8, <1>9, <1>10, <1>11, <1>12, <1>13 DEF IInv

-------------------------------------------------------------------------------
\* IInv holds in every reachable state.
THEOREM Invariance == Spec => []IInv
<1>1. IInv /\ [Next]_vars => IInv'
  <2> SUFFICES ASSUME IInv, [Next]_vars PROVE IInv'
    OBVIOUS
  <2>1. CASE UNCHANGED vars
    <3>1. UNCHANGED <<userActive, orgState, orgActive, member, invite, req, replacements,
                      statusChanges, everOwner, crossed>>
      BY <2>1 DEF vars
    <3>2. InvitesAreSound' /\ InsertsDiffer'
      BY <3>1 DEF IInv, InvitesAreSound, Owned, InsertsDiffer
    <3> QED
      BY <3>1, <3>2, ReadingKeeps DEF IInv, TypeOK
  <2>2. CASE Next
    BY <2>2, CreateOrganisationKeeps, InviteReadsKeeps, InviteCommitsKeeps, InviteEndsKeeps,
       AcceptReadsKeeps, AcceptInsertsKeeps, AcceptCommitsKeeps, ChangeRoleReadsKeeps,
       ChangeRoleCommitsKeeps, RemoveReadsKeeps, RemoveCommitsKeeps, ReplaceOwnerKeeps,
       DeleteReadsKeeps, DeleteUpdatesKeeps, DeleteCommitsKeeps, StatusKeeps
       DEF Next
  <2> QED
    BY <2>1, <2>2
<1> QED
  BY <1>1, InitHolds, PTL DEF Spec

\* The variables have their types.
THEOREM TypesHold == Spec => []TypeOK
<1>1. IInv => TypeOK
  BY DEF IInv
<1> QED
  BY <1>1, Invariance, PTL

\* A user has at most one active membership, however many transactions that saw none
\* are open at once.
THEOREM AtMostOneMembership == Spec => []OneMembership
<1>1. IInv => OneMembership
  <2> SUFFICES ASSUME IInv, NEW u \in Users PROVE Cardinality(ActiveOf(u)) <= 1
    BY DEF OneMembership
  <2>1. ActiveOf(u) \in SUBSET Rows /\ \A m, n \in ActiveOf(u) : m = n
    BY DEF ActiveOf, IInv, OneRow
  <2> QED
    BY <2>1, CardinalityOne
<1> QED
  BY <1>1, Invariance, PTL

\* A live organisation has exactly one active owner, unless a replacement promoted a row
\* that an open role change or removal had checked already.
THEOREM OneOwnerAlways == Spec => []ExactlyOneOwner
<1>1. IInv => ExactlyOneOwner
  <2> SUFFICES ASSUME IInv, NEW o \in Orgs, orgState[o] = "live", o \notin crossed
               PROVE  Cardinality(Owners(o)) = 1
    BY DEF ExactlyOneOwner
  <2>1. Owners(o) \in SUBSET Rows
    BY DEF Owners, ActiveIn
  <2> QED
    BY <2>1, CardinalityOne DEF IInv, OneOwner
<1> QED
  BY <1>1, Invariance, PTL

\* Every admin was invited or promoted by an owner, or has owned the organisation.
THEOREM AdminRightsFromOwners == Spec => []AdminsComeFromOwners
<1>1. IInv => AdminsComeFromOwners
  BY DEF IInv
<1> QED
  BY <1>1, Invariance, PTL

-------------------------------------------------------------------------------
(* Platform staff.                                                         *)

\* While requests come one at a time, the open one was made by an administrator,
\* who still is one: only the command line writes beside it, and that only adds.
ActorAdministers ==
    ~overlapped =>
        \A r \in StaffRequests : staffReq[r] # NoRequest =>
            /\ staffReq[r].op.actor \in Administrators
            /\ \A q \in StaffRequests : staffReq[q] # NoRequest => q = r

\* The operation does not take the rights of its own actor.
SparesActor(o) ==
    o.op \in {"create", "change", "suspend", "suspendUser"} => o.target # o.actor

\* What was loaded while requests came one at a time spares its actor.
LoadedSparesActor ==
    ~overlapped =>
        \A r \in StaffRequests : staffReq[r].step = "loaded" => SparesActor(staffReq[r].op)

\* A staff row is never deleted: what is to be restored is still there.
RestoresRow ==
    \A r \in StaffRequests : staffReq[r].step = "loaded" /\ staffReq[r].op.op = "restore" =>
        HasRow(staffReq[r].op.target)

StaffInv ==
    /\ StaffTypeOK /\ RestoresRow /\ ActorAdministers /\ LoadedSparesActor
    /\ SomeoneAdministers

-------------------------------------------------------------------------------
\* The steps of a transaction and what each of them knows.
LEMMA StaffRequestTypes ==
    ASSUME NEW t \in StaffRequest
    PROVE  /\ t = NoRequest <=> t.step = "idle"
           /\ t # NoRequest => t.op \in Operations /\ t.step \in {"authorised", "loaded"}
           /\ t.step = "loaded" => t.seen \in StaffRoles \cup {"none"}
  BY DEF StaffRequest, NoRequest

\* What an operation is made of.
LEMMA OperationTypes ==
    ASSUME NEW o \in Operations
    PROVE  /\ o.actor \in Accounts /\ o.target \in Accounts /\ o.role \in StaffRoles
           /\ o.op \in {"create", "change", "suspend", "restore", "suspendUser", "restoreUser"}
  BY DEF Operations, StaffRoles

\* The initial states.
LEMMA StaffInitHolds == StaffInit => StaffInv
<1> SUFFICES ASSUME StaffInit PROVE StaffInv
  OBVIOUS
<1>1. \A r \in StaffRequests : staffReq[r] = NoRequest /\ staffReq[r].step = "idle"
  BY DEF StaffInit, NoRequest
<1>2. StaffTypeOK
  BY DEF StaffInit, StaffTypeOK, StaffRequest
<1> QED
  BY <1>1, <1>2 DEF StaffInv, RestoresRow, ActorAdministers, LoadedSparesActor,
     SomeoneAdministers, StaffInit

\* The users are administrators by their own columns.
LEMMA AdministratorsAre ==
    ASSUME NEW u
    PROVE  /\ u \in Administrators <=>
                /\ u \in Accounts /\ accountActive[u] /\ staffActive[u]
                /\ staffRole[u] = "platform_admin"
           /\ u \in ActiveAdmins <=>
                /\ u \in Accounts /\ staffActive[u]
                /\ staffRole[u] = "platform_admin"
  BY DEF Administrators, ActiveAdmins

\* resolve_platform_actor opens a transaction.
LEMMA AuthoriseKeeps ==
    ASSUME StaffInv, NEW r \in StaffRequests, NEW o \in Operations, Authorise(r, o)
    PROVE  StaffInv'
<1> DEFINE new == [step |-> "authorised", op |-> o]
<1>1. /\ staffReq' = [staffReq EXCEPT ![r] = new]
      /\ staffReq[r] = NoRequest
      /\ UNCHANGED <<accountActive, staffRole, staffActive, bootstrapped>>
      /\ overlapped' = (overlapped \/ \E q \in StaffRequests : staffReq[q] # NoRequest)
      /\ o.actor \in Administrators
  BY DEF Authorise, staff
<1>2. new \in StaffRequest /\ new.step = "authorised" /\ new.op = o
  BY DEF StaffRequest
<1> HIDE DEF new
<1>3. /\ staffReq' \in [StaffRequests -> StaffRequest]
      /\ staffReq'[r] = new /\ \A q \in StaffRequests : q # r => staffReq'[q] = staffReq[q]
  BY <1>1, <1>2 DEF StaffInv, StaffTypeOK
<1>4. StaffTypeOK'
  BY <1>1, <1>3, Zenon DEF StaffInv, StaffTypeOK
<1>5. Administrators' = Administrators
  BY <1>1 DEF Administrators, ActiveAdmins
<1>6. ActorAdministers'
  BY <1>1, <1>2, <1>3, <1>5 DEF ActorAdministers
<1>7. LoadedSparesActor'
  BY <1>1, <1>2, <1>3 DEF StaffInv, LoadedSparesActor, SparesActor
<1>8. SomeoneAdministers'
  BY <1>1, <1>5 DEF StaffInv, SomeoneAdministers
<1>9. RestoresRow'
  BY <1>1, <1>2, <1>3 DEF StaffInv, RestoresRow, HasRow
<1> QED
  BY <1>4, <1>6, <1>7, <1>8, <1>9 DEF StaffInv

\* The target is loaded: a request that is alone goes on only when the operation
\* spares its actor.
LEMMA LoadKeeps ==
    ASSUME StaffInv, NEW r \in StaffRequests, Load(r)
    PROVE  StaffInv'
<1> DEFINE o == staffReq[r].op
           new == IF Loaded(o) THEN [step |-> "loaded", op |-> o,
              seen |-> staffRole[o.target]]
                  ELSE NoRequest
<1>1. /\ staffReq' = [staffReq EXCEPT ![r] = new]
      /\ staffReq[r].step = "authorised"
      /\ UNCHANGED <<accountActive, staffRole, staffActive, bootstrapped, overlapped>>
  BY DEF Load, staff
<1>2. staffReq[r] # NoRequest /\ o \in Operations
  BY <1>1, StaffRequestTypes DEF StaffInv, StaffTypeOK, NoRequest
<1>3. /\ new \in StaffRequest
      /\ new # NoRequest => new.step = "loaded" /\ new.op = o /\ Loaded(o)
      /\ new.step = "loaded" => new # NoRequest
  BY <1>2, OperationTypes DEF StaffInv, StaffTypeOK, StaffRequest, NoRequest
<1> HIDE DEF new
<1>4. /\ staffReq' \in [StaffRequests -> StaffRequest]
      /\ staffReq'[r] = new /\ \A q \in StaffRequests : q # r => staffReq'[q] = staffReq[q]
  BY <1>1, <1>3 DEF StaffInv, StaffTypeOK
<1>5. StaffTypeOK'
  BY <1>1, <1>4, Zenon DEF StaffInv, StaffTypeOK
<1>6. Administrators' = Administrators
  BY <1>1 DEF Administrators, ActiveAdmins
<1>7. ActorAdministers'
  BY <1>1, <1>2, <1>3, <1>4, <1>6 DEF StaffInv, ActorAdministers
<1>8. ~overlapped /\ new # NoRequest => SparesActor(o)
  <2> SUFFICES ASSUME ~overlapped, new # NoRequest, o.op \in {"create", "change", "suspend",
                      "suspendUser"},
                      o.target = o.actor
               PROVE  FALSE
    BY DEF SparesActor
  <2>1. o.actor \in Administrators /\ Loaded(o)
    BY <1>2, <1>3 DEF StaffInv, ActorAdministers
  <2> HIDE DEF o
  <2>2. staffRole[o.target] = "platform_admin"
    BY <2>1, AdministratorsAre
  <2> QED
    BY <2>1, <2>2 DEF Loaded, NotSelf
<1>9. LoadedSparesActor'
  BY <1>1, <1>3, <1>4, <1>8 DEF StaffInv, LoadedSparesActor
<1>10. SomeoneAdministers'
  BY <1>1, <1>6 DEF StaffInv, SomeoneAdministers
<1>11. RestoresRow'
  <2>1. new # NoRequest /\ o.op = "restore" => HasRow(o.target)
    BY <1>3 DEF Loaded
  <2> QED
    BY <1>1, <1>3, <1>4, <2>1 DEF StaffInv, RestoresRow, HasRow
<1> QED
  BY <1>5, <1>7, <1>9, <1>10, <1>11 DEF StaffInv

-------------------------------------------------------------------------------
\* What the UPDATE leaves alone: every other row, and the rights of the actor when
\* the operation spares them.
LEMMA WriteTypes ==
    ASSUME StaffTypeOK, NEW o \in Operations, Write(o)
    PROVE  /\ accountActive' \in [Accounts -> BOOLEAN]
           /\ staffRole' \in [Accounts -> StaffRoles \cup {"none"}]
           /\ staffActive' \in [Accounts -> BOOLEAN]
           /\ \A u \in Accounts \ {o.target} :
                 /\ accountActive'[u] = accountActive[u]
                 /\ staffRole'[u] = staffRole[u]
                 /\ staffActive'[u] = staffActive[u]
<1> USE OperationTypes
<1>1. /\ accountActive' \in [Accounts -> BOOLEAN]
      /\ \A u \in Accounts \ {o.target} : accountActive'[u] = accountActive[u]
  BY DEF StaffTypeOK, Write
<1>2. /\ staffRole' \in [Accounts -> StaffRoles \cup {"none"}]
      /\ \A u \in Accounts \ {o.target} : staffRole'[u] = staffRole[u]
  BY DEF StaffTypeOK, Write
<1>3. /\ staffActive' \in [Accounts -> BOOLEAN]
      /\ \A u \in Accounts \ {o.target} : staffActive'[u] = staffActive[u]
  BY DEF StaffTypeOK, Write
<1> QED
  BY <1>1, <1>2, <1>3
\* A row stays a row, an operation that is not guarded by the last-admin check takes
\* no admin row away, and one that spares its actor leaves an administrator one.
LEMMA WriteKeeps ==
    ASSUME StaffTypeOK, NEW o \in Operations, Write(o)
    PROVE  /\ \A u \in Accounts : HasRow(u) => HasRow(u)'
           /\ ActiveAdmins \ {o.target} \subseteq ActiveAdmins'
           /\ SparesActor(o) /\ o.actor \in Administrators =>
                o.actor \in Administrators'
<1> USE OperationTypes
<1>1. \A u \in Accounts : HasRow(u) => HasRow(u)'
  BY DEF StaffTypeOK, Write, HasRow, StaffRoles
<1>2. ActiveAdmins \ {o.target} \subseteq ActiveAdmins'
  BY WriteTypes DEF ActiveAdmins
<1>3. ASSUME SparesActor(o), o.actor \in Administrators
      PROVE  o.actor \in Administrators'
  <2>1. CASE o.target # o.actor
    BY <1>2, <1>3, <2>1, WriteTypes DEF Administrators, ActiveAdmins
  <2>2. CASE o.target = o.actor
    <3>1. o.op \in {"restore", "restoreUser"}
      BY <1>3, <2>2 DEF SparesActor
    <3> QED
      BY <1>3, <3>1 DEF StaffTypeOK, Write, Administrators, ActiveAdmins
  <2> QED
    BY <2>1, <2>2
<1> QED
  BY <1>1, <1>2, <1>3

\* The write commits or the guard raises: the actor of a request that is alone still
\* administers the platform.
LEMMA CommitKeeps ==
    ASSUME StaffInv, NEW r \in StaffRequests, Commit(r)
    PROVE  StaffInv'
<1> DEFINE o == staffReq[r].op
<1>1. /\ staffReq' = [staffReq EXCEPT ![r] = NoRequest]
      /\ staffReq[r].step = "loaded"
      /\ Write(o) \/ UNCHANGED <<accountActive, staffRole, staffActive>>
      /\ bootstrapped' = (bootstrapped \/ ActiveAdmins' # {})
      /\ overlapped' = overlapped
  BY DEF Commit, staff
<1>2. staffReq[r] # NoRequest /\ o \in Operations
  BY <1>1, StaffRequestTypes DEF StaffInv, StaffTypeOK, NoRequest
<1>3. /\ staffReq' \in [StaffRequests -> StaffRequest]
      /\ staffReq'[r] = NoRequest /\ \A q \in StaffRequests : q # r => staffReq'[q] = staffReq[q]
  BY <1>1 DEF StaffInv, StaffTypeOK, StaffRequest
<1>4. NoRequest.step = "idle"
  BY DEF NoRequest
<1>5. \A u \in Accounts : HasRow(u) => HasRow(u)'
  BY <1>1, <1>2, WriteKeeps DEF StaffInv, HasRow
<1>6. StaffTypeOK'
  <2>1. /\ accountActive' \in [Accounts -> BOOLEAN]
        /\ staffRole' \in [Accounts -> StaffRoles \cup {"none"}]
        /\ staffActive' \in [Accounts -> BOOLEAN]
    BY <1>1, <1>2, WriteTypes DEF StaffInv, StaffTypeOK
  <2>2. bootstrapped' \in BOOLEAN /\ overlapped' \in BOOLEAN
    BY <1>1 DEF StaffInv, StaffTypeOK
  <2>3. ASSUME NEW u \in Accounts, staffActive'[u]
        PROVE  staffRole'[u] # "none"
    <3>1. CASE UNCHANGED <<accountActive, staffRole, staffActive>>
      BY <2>3, <3>1 DEF StaffInv, StaffTypeOK
    <3>2. CASE Write(o)
      <4>1. CASE u # o.target
        BY <1>2, <2>3, <3>2, <4>1, WriteTypes DEF StaffInv, StaffTypeOK
      <4>2. CASE u = o.target
        <5>1. o.op = "restore" => HasRow(u)
          BY <1>1, <4>2 DEF StaffInv, RestoresRow
        <5>2. staffActive[u] => HasRow(u)
          BY DEF StaffInv, StaffTypeOK, HasRow
        <5>3. CASE HasRow(u)
          BY <1>5, <5>3 DEF HasRow
        <5>4. CASE ~HasRow(u)
          <6> HIDE DEF o
          <6>1. o.op # "restore" /\ ~staffActive[u] /\ staffRole[u] = "none"
            BY <5>1, <5>2, <5>4 DEF HasRow
          <6>2. o.role \in StaffRoles /\ o.target \in Accounts
            BY <1>2, OperationTypes
          <6>3. o.op = "create"
            BY <2>3, <3>2, <4>2, <6>1, <6>2 DEF StaffInv, StaffTypeOK, Write
          <6> QED
            BY <3>2, <4>2, <6>1, <6>2, <6>3 DEF StaffInv, StaffTypeOK, Write,
               StaffRoles
        <5> QED
          BY <5>3, <5>4
      <4> QED
        BY <4>1, <4>2
    <3> QED
      BY <1>1, <3>1, <3>2
  <2> QED
    BY <1>3, <2>1, <2>2, <2>3 DEF StaffTypeOK
<1>7. ~overlapped => \A q \in StaffRequests : staffReq'[q] = NoRequest
  BY <1>2, <1>3 DEF StaffInv, ActorAdministers
<1>8. ActorAdministers' /\ LoadedSparesActor'
  BY <1>1, <1>4, <1>7 DEF ActorAdministers, LoadedSparesActor
<1>9. RestoresRow'
  <2>1. ASSUME NEW q \in StaffRequests, staffReq'[q].step = "loaded", staffReq'[q].op.op = "restore"
        PROVE  HasRow(staffReq[q].op.target)'
    <3>1. q # r
      BY <1>3, <1>4, <2>1
    <3>2. /\ staffReq'[q] = staffReq[q] /\ HasRow(staffReq[q].op.target)
          /\ staffReq[q].op.target \in Accounts
      BY <1>3, <1>4, <2>1, <3>1, StaffRequestTypes, OperationTypes DEF StaffInv, StaffTypeOK,
         RestoresRow
    <3> QED
      BY <1>5, <3>2 DEF HasRow
  <2> QED
    BY <2>1 DEF RestoresRow, HasRow
<1>10. SomeoneAdministers'
  <2>1. ~overlapped => o.actor \in Administrators /\ SparesActor(o)
    BY <1>1, <1>2 DEF StaffInv, ActorAdministers, LoadedSparesActor
  <2>2. ~overlapped => o.actor \in Administrators'
    BY <1>1, <1>2, <2>1, WriteKeeps DEF StaffInv, Administrators, ActiveAdmins
  <2> QED
    BY <1>1, <2>2 DEF SomeoneAdministers
<1> QED
  BY <1>6, <1>8, <1>9, <1>10 DEF StaffInv

\* make_platform_admin adds an administrator and takes no rights away.
LEMMA MakePlatformAdminKeeps ==
    ASSUME StaffInv, NEW u \in Accounts, NEW force \in BOOLEAN, MakePlatformAdmin(u, force)
    PROVE  StaffInv'
<1>1. /\ staffRole' = [staffRole EXCEPT ![u] = "platform_admin"]
      /\ staffActive' = [staffActive EXCEPT ![u] = TRUE]
      /\ accountActive[u] /\ bootstrapped' = TRUE
      /\ UNCHANGED <<accountActive, staffReq, overlapped>>
  BY DEF MakePlatformAdmin
<1>2. StaffTypeOK'
  BY <1>1 DEF StaffInv, StaffTypeOK, StaffRoles
<1>3. Administrators \cup {u} \subseteq Administrators'
  BY <1>1 DEF StaffInv, StaffTypeOK, Administrators, ActiveAdmins
<1>4. \A v \in Accounts : HasRow(v) => HasRow(v)'
  BY <1>1 DEF StaffInv, StaffTypeOK, HasRow
<1>5. ActorAdministers' /\ LoadedSparesActor' /\ SomeoneAdministers'
  BY <1>1, <1>3 DEF StaffInv, ActorAdministers, LoadedSparesActor, SomeoneAdministers
<1>6. RestoresRow'
  <2>1. \A q \in StaffRequests : staffReq[q].step = "loaded" => staffReq[q].op.target \in Accounts
    BY StaffRequestTypes, OperationTypes DEF StaffInv, StaffTypeOK, NoRequest
  <2> QED
    BY <1>1, <1>4, <2>1 DEF StaffInv, RestoresRow, HasRow
<1> QED
  BY <1>2, <1>5, <1>6 DEF StaffInv

-------------------------------------------------------------------------------
\* StaffInv holds in every reachable state.
THEOREM StaffInvariance == StaffSpec => []StaffInv
<1>1. StaffInv /\ [StaffNext]_staffVars => StaffInv'
  <2> SUFFICES ASSUME StaffInv, [StaffNext]_staffVars PROVE StaffInv'
    OBVIOUS
  <2>1. CASE UNCHANGED staffVars
    BY <2>1 DEF staffVars, StaffInv, StaffTypeOK, RestoresRow, HasRow, ActorAdministers,
       LoadedSparesActor,
       SomeoneAdministers, Administrators, ActiveAdmins
  <2>2. CASE StaffNext
    BY <2>2, AuthoriseKeeps, LoadKeeps, CommitKeeps, MakePlatformAdminKeeps DEF StaffNext
  <2> QED
    BY <2>1, <2>2
<1> QED
  BY <1>1, StaffInitHolds, PTL DEF StaffSpec

\* The variables have their types, and only a user with a staff row is active staff.
THEOREM StaffTypesHold == StaffSpec => []StaffTypeOK
<1>1. StaffInv => StaffTypeOK
  BY DEF StaffInv
<1> QED
  BY <1>1, StaffInvariance, PTL

\* While requests come one at a time, somebody can administer the platform, whatever
\* they create, change, suspend or restore.
THEOREM AdministratorRemains == StaffSpec => []SomeoneAdministers
<1>1. StaffInv => SomeoneAdministers
  BY DEF StaffInv
<1> QED
  BY <1>1, StaffInvariance, PTL
================================================================================
