----------------------------- MODULE PlatformStaff -----------------------------
(***************************************************************************)
(* Platform staff management (app/platform): who may administer the        *)
(* platform, and how the guard for the last platform admin works under     *)
(* concurrent requests.                                                    *)
(*                                                                         *)
(* A platform write runs in one READ COMMITTED transaction: it resolves    *)
(* the actor, loads the target without a lock, and writes the columns it   *)
(* changes by primary key. Only a demotion or suspension of a row that was *)
(* loaded as platform admin first locks all active admin rows; the locked  *)
(* rows cannot change until it commits, so that lock, the check and the    *)
(* write are one step. Both staff management and user suspension need      *)
(* permissions that only platform_admin has.                               *)
(*                                                                         *)
(* The names are other than those of Tenancy, so that one module can       *)
(* extend both; Accounts are its users.                                    *)
(***************************************************************************)
EXTENDS FiniteSets

CONSTANTS
    Accounts,       \* users
    StaffRequests   \* platform transactions that may be open at once

StaffRoles == {"platform_admin", "support_agent", "compliance_officer"}

VARIABLES
    accountActive,  \* users.status = active
    staffRole,      \* platform_staff.role, "none" without a row
    staffActive,    \* platform_staff.status = active
    staffReq,       \* open transactions
    bootstrapped,   \* history: there has been an active platform admin
    overlapped      \* history: two requests have been open at once

staffVars == <<accountActive, staffRole, staffActive, staffReq, bootstrapped, overlapped>>
staff == <<accountActive, staffRole, staffActive>>

NoRequest == [step |-> "idle"]

StaffInit ==
    /\ accountActive = [u \in Accounts |-> TRUE]
    /\ staffRole = [u \in Accounts |-> "none"]
    /\ staffActive = [u \in Accounts |-> FALSE]
    /\ staffReq = [r \in StaffRequests |-> NoRequest]
    /\ bootstrapped = FALSE
    /\ overlapped = FALSE

\* Rows lock_active_platform_admins returns.
ActiveAdmins == {u \in Accounts : staffRole[u] = "platform_admin" /\ staffActive[u]}

\* Users resolve_platform_actor accepts for staff and user management.
Administrators == ActiveAdmins \cap {u \in Accounts : accountActive[u]}

-------------------------------------------------------------------------------
(* The operations: what they need of the target as loaded, and what they   *)
(* write. o is [op, actor, target, role].                                  *)

Operations ==
    [op : {"create", "change"}, actor : Accounts, target : Accounts, role : StaffRoles]
    \cup [op : {"suspend", "restore", "suspendUser", "restoreUser"}, actor : Accounts,
          target : Accounts, role : {"platform_admin"}]

\* Variant: own account and own staff row are not special.
SelfAllowed(o) == TRUE

\* Nobody suspends their own account or staff row, or demotes themselves.
NotSelf(o) == o.target # o.actor

\* get_staff finds the row.
HasRow(u) == staffRole[u] # "none"

\* create_staff, change_role, suspend_staff, restore_staff, suspend_user,
\* restore_user go on with this target; otherwise they raise or have nothing to do.
Loaded(o) ==
    CASE o.op = "create" -> accountActive[o.target] /\ staffRole[o.target] = "none"
      [] o.op = "change" -> /\ HasRow(o.target) /\ staffActive[o.target]
                            /\ staffRole[o.target] # o.role
                            /\ staffRole[o.target] = "platform_admin" => NotSelf(o)
      [] o.op = "suspend" -> HasRow(o.target) /\ NotSelf(o) /\ staffActive[o.target]
      [] o.op = "restore" -> HasRow(o.target) /\ ~staffActive[o.target]
      [] o.op = "suspendUser" -> NotSelf(o) /\ accountActive[o.target]
      [] o.op = "restoreUser" -> ~accountActive[o.target]

\* The operation takes an admin row away, going by the role it loaded.
Guarded(o, seen) == o.op \in {"change", "suspend"} /\ seen = "platform_admin"

\* has_another_active_admin among the locked rows.
AnotherAdmin(t) == ActiveAdmins \ {t} # {}

\* The UPDATE or INSERT, on whatever the row is by now.
Write(o) ==
    /\ accountActive' = CASE o.op = "suspendUser" -> [accountActive EXCEPT ![o.target] = FALSE]
                          [] o.op = "restoreUser" -> [accountActive EXCEPT ![o.target] = TRUE]
                          [] OTHER -> accountActive
    /\ staffRole' = CASE o.op = "create" /\ staffRole[o.target] = "none" ->
                            [staffRole EXCEPT ![o.target] = o.role]
                      [] o.op = "change" -> [staffRole EXCEPT ![o.target] = o.role]
                      [] OTHER -> staffRole
    /\ staffActive' = CASE o.op = "create" /\ staffRole[o.target] = "none" ->
                             [staffActive EXCEPT ![o.target] = TRUE]
                        [] o.op = "suspend" -> [staffActive EXCEPT ![o.target] = FALSE]
                        [] o.op = "restore" -> [staffActive EXCEPT ![o.target] = TRUE]
                        [] OTHER -> staffActive

-------------------------------------------------------------------------------
(* Requests.                                                               *)

\* resolve_platform_actor.
Authorise(r, o) ==
    /\ staffReq[r] = NoRequest
    /\ o.actor \in Administrators
    /\ staffReq' = [staffReq EXCEPT ![r] = [step |-> "authorised", op |-> o]]
    /\ overlapped' = (overlapped \/ \E q \in StaffRequests : staffReq[q] # NoRequest)
    /\ UNCHANGED <<staff, bootstrapped>>

\* The target is loaded and checked.
Load(r) ==
    /\ staffReq[r].step = "authorised"
    /\ staffReq' = [staffReq EXCEPT ![r] =
                 IF Loaded(staffReq[r].op)
                 THEN [step |-> "loaded", op |-> staffReq[r].op,
                       seen |-> staffRole[staffReq[r].op.target]]
                 ELSE NoRequest]
    /\ UNCHANGED <<staff, bootstrapped, overlapped>>

\* The write commits, or the guard raises.
Commit(r) ==
    /\ staffReq[r].step = "loaded"
    /\ IF Guarded(staffReq[r].op, staffReq[r].seen) => AnotherAdmin(staffReq[r].op.target)
       THEN Write(staffReq[r].op) ELSE UNCHANGED staff
    /\ staffReq' = [staffReq EXCEPT ![r] = NoRequest]
    /\ bootstrapped' = (bootstrapped \/ ActiveAdmins' # {})
    /\ UNCHANGED overlapped

\* make_platform_admin on the command line; --force promotes an existing row.
MakePlatformAdmin(u, force) ==
    /\ accountActive[u] /\ u \notin ActiveAdmins
    /\ staffRole[u] # "none" => force
    /\ staffRole' = [staffRole EXCEPT ![u] = "platform_admin"]
    /\ staffActive' = [staffActive EXCEPT ![u] = TRUE]
    /\ bootstrapped' = TRUE
    /\ UNCHANGED <<accountActive, staffReq, overlapped>>

StaffNext ==
    \/ \E r \in StaffRequests, o \in Operations : Authorise(r, o)
    \/ \E r \in StaffRequests : Load(r)
    \/ \E r \in StaffRequests : Commit(r)
    \/ \E u \in Accounts, force \in BOOLEAN : MakePlatformAdmin(u, force)

StaffSpec == StaffInit /\ [][StaffNext]_staffVars

-------------------------------------------------------------------------------
(* Properties.                                                             *)

StaffRequest ==
    {NoRequest} \cup [step : {"authorised"}, op : Operations]
    \cup [step : {"loaded"}, op : Operations, seen : StaffRoles \cup {"none"}]

\* The types of the variables; only a user with a staff row is active staff.
StaffTypeOK ==
    /\ accountActive \in [Accounts -> BOOLEAN]
    /\ staffRole \in [Accounts -> StaffRoles \cup {"none"}]
    /\ staffActive \in [Accounts -> BOOLEAN]
    /\ staffReq \in [StaffRequests -> StaffRequest]
    /\ bootstrapped \in BOOLEAN /\ overlapped \in BOOLEAN
    /\ \A u \in Accounts : staffActive[u] => staffRole[u] # "none"

\* While requests come one at a time, there is always somebody who can administer
\* the platform: an active admin row whose user is active. The staff guard and the
\* guards against one's own account together give it, neither does alone.
SomeoneAdministers == bootstrapped /\ ~overlapped => Administrators # {}

\* The last active platform admin can be neither demoted nor suspended: once there
\* is an active admin row there always is one, whatever requests pass each other.
LastAdminStays == bootstrapped => ActiveAdmins # {}
===============================================================================
