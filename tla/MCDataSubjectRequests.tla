------------------------ MODULE MCDataSubjectRequests ------------------------
(* Small instances of DataSubjectRequests and ExportExecution for TLC: the  *)
(* life of requests, and one approved export request with its artifacts.    *)
(* The two share no state, so a behaviour moves one of them: the reachable  *)
(* states are those of the one and those of the other, not their product.   *)
EXTENDS DataSubjectRequests, ExportExecution, TLC

VARIABLE moving     \* the component this behaviour is about

\* Clients are alike, and so are the rows and the users who are not staff.
RequestSymmetry ==
    Permutations(Clients) \cup Permutations(Requests) \cup Permutations(Users \ Staff)

RequestsInit ==
    /\ Init /\ ExecutionInit
    /\ moving \in {"requests", "execution"}

RequestsNext ==
    \/ moving = "requests" /\ Next /\ UNCHANGED <<moving, executionVars>>
    \/ moving = "execution" /\ ExecutionNext /\ UNCHANGED <<moving, vars>>

RequestsSpec == RequestsInit /\ [][RequestsNext]_<<moving, vars, executionVars>>
===============================================================================
