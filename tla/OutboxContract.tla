---------------------------- MODULE OutboxContract ----------------------------
(***************************************************************************)
(* What the outbox promises to the code that publishes events, without     *)
(* dispatchers, queues, claims or locks: an event is posted once; a worker *)
(* may begin on it any number of times while its delivery material lasts;  *)
(* material that is gone never comes back; and an event is done only by    *)
(* the report of a worker that began on it while it had its material.      *)
(* Outbox implements this; InviteDelivery builds on it.                    *)
(***************************************************************************)
CONSTANTS Events, Workers

VARIABLES
    posted,     \* events that exist
    material,   \* events whose payload still holds email and token
    done,       \* events with status processed
    work        \* what each worker is doing

contractVars == <<posted, material, done, work>>

Resting == [step |-> "idle", event |-> 1, ok |-> FALSE]

Working(step, e, ok) == [step |-> step, event |-> e, ok |-> ok]

ContractInit ==
    /\ posted = {}
    /\ material = {}
    /\ done = {}
    /\ work = [w \in Workers |-> Resting]

Post(e) ==
    /\ e \notin posted
    /\ posted' = posted \cup {e}
    /\ material' = material \cup {e}
    /\ UNCHANGED <<done, work>>

\* A worker begins to deliver e.
Begin(w, e) ==
    /\ work[w] = Resting
    /\ e \in material
    /\ work' = [work EXCEPT ![w] = Working("deliver", e, FALSE)]
    /\ UNCHANGED <<posted, material, done>>

\* A worker knows its report without delivering: success needs the material.
Decide(w, e, ok) ==
    /\ work[w] = Resting
    /\ e \in posted
    /\ ok => e \in material
    /\ work' = [work EXCEPT ![w] = Working("report", e, ok)]
    /\ UNCHANGED <<posted, material, done>>

Attempt(w, ok) ==
    /\ work[w].step = "deliver"
    /\ work' = [work EXCEPT ![w] = Working("report", work[w].event, ok)]
    /\ UNCHANGED <<posted, material, done>>

ReportSuccess(w) ==
    /\ work[w].step = "report" /\ work[w].ok
    /\ done' = done \cup {work[w].event}
    /\ material' = material \ {work[w].event}
    /\ work' = [work EXCEPT ![w] = Resting]
    /\ UNCHANGED posted

\* A failed attempt reopens the event, or closes it for good without material.
ReportFailure(w) ==
    /\ work[w].step = "report" /\ ~work[w].ok
    /\ done' = done \ {work[w].event}
    /\ material' \in {material, material \ {work[w].event}}
    /\ work' = [work EXCEPT ![w] = Resting]
    /\ UNCHANGED posted

\* A worker stops without a trace: it crashed, or its report came too late.
Vanish(w) ==
    /\ work[w].step # "idle"
    /\ work' = [work EXCEPT ![w] = Resting]
    /\ UNCHANGED <<posted, material, done>>

\* Attempts are exhausted, the subject is erased, or retention has passed.
Withdraw(S) ==
    /\ material' = material \ S
    /\ UNCHANGED <<posted, done, work>>

\* A dispatcher releases an event whose message it believes was not sent.
Release(e) ==
    /\ e \in posted
    /\ done' = done \ {e}
    /\ material' \in {material, material \ {e}}
    /\ UNCHANGED <<posted, work>>

ContractNext ==
    \/ \E e \in Events : Post(e)
    \/ \E e \in Events : Release(e)
    \/ \E S \in SUBSET Events : Withdraw(S)
    \/ \E w \in Workers, e \in Events : Begin(w, e)
    \/ \E w \in Workers, e \in Events, ok \in BOOLEAN : Decide(w, e, ok)
    \/ \E w \in Workers, ok \in BOOLEAN : Attempt(w, ok)
    \/ \E w \in Workers : ReportSuccess(w) \/ ReportFailure(w) \/ Vanish(w)

ContractSpec == ContractInit /\ [][ContractNext]_contractVars
===============================================================================
