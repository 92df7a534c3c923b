------------------------------- MODULE MCAccess -------------------------------
(* Small instances of Tenancy and PlatformStaff for TLC. The two share no   *)
(* state, so a behaviour moves one of them: the reachable states are those  *)
(* of the one and those of the other, not their product. Users, accounts    *)
(* and requests are alike.                                                  *)
EXTENDS Tenancy, PlatformStaff, TLC

CONSTANTS u1, u2, u3, o1, o2

VARIABLE moving     \* the component this behaviour is about

AccessSymmetry == Permutations(Users) \cup Permutations(Requests)

Start(out, gone, replaced, changed) ==
    [suspended |-> out, deleted |-> gone, replacements |-> replaced, statusChanges |-> changed]

\* Three users in one organisation; two users in one whose owner may be replaced; two
\* users and two organisations to join; two users, one organisation and one suspension.
MCStarts ==
    {Start({}, {o2}, 1, 1), Start({u3}, {o2}, 0, 1), Start({u3}, {}, 1, 1), Start({u3}, {o2}, 1, 0)}

\* Only one of the tenant side's first states is needed beside the platform side.
AccessInit ==
    /\ Init /\ StaffInit
    /\ moving \in {"tenancy", "platform"}
    /\ moving = "platform" => \A u \in Users : userActive[u]

AccessNext ==
    \/ moving = "tenancy" /\ Next /\ UNCHANGED <<moving, staffVars>>
    \/ moving = "platform" /\ StaffNext /\ UNCHANGED <<moving, vars>>

AccessSpec == AccessInit /\ [][AccessNext]_<<moving, vars, staffVars>>
===============================================================================
