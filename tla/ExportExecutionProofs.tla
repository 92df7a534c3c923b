----------------------- MODULE ExportExecutionProofs -----------------------
(***************************************************************************)
(* Deliveries are confirmed of available archives of requests that name    *)
(* their subject, for any number of artifacts and open transactions. What  *)
(* is checked before the UPDATE of confirm_delivery holds until the commit *)
(* because the transaction has the artifact's row locked from then on.     *)
(***************************************************************************)
EXTENDS ExportExecution, TLAPS

-------------------------------------------------------------------------------
(* The inductive invariant.                                                *)

\* What an open transaction has done at its step. A delivery it has confirmed is of an
\* archive whose row it has locked since.
TxSound(t) ==
    /\ t.step = "idle" => t = NoSession
    /\ t.step \in {"expire", "deliver"} => t.a \in Numbers
    /\ \A a \in Numbers : t.write[a] = "delivered" => art[a] \in Available /\ linked

IInv ==
    /\ ExecutionTypeOK
    /\ \A c \in Sessions : TxSound(session[c])

-------------------------------------------------------------------------------
(* Transactions.                                                           *)

LEMMA StatesTyped == \A s, d : StateOf(s, d) \in ExecStatuses
  BY DEF StateOf, ExecStatuses

LEMMA NoTxTyped == NoSession \in SessionType
<1>1. 0 \in 0 .. MaxArtifacts
  BY ExecutionAssumption
<1> QED
  BY <1>1 DEF NoSession, SessionType, ExecStatuses, ArtStatuses

\* A transaction that writes artifact a is sound if a delivery is of an archive there is.
LEMMA WritesSound ==
    ASSUME NEW t \in SessionType, NEW a \in Numbers, NEW s \in ArtStatuses \cup {"delivered"},
           NEW step \in {"recovered", "sync"}, NEW loaded \in ExecStatuses,
           s = "delivered" => art[a] \in Available /\ linked,
           \A b \in Numbers : t.write[b] = "delivered" => art[b] \in Available /\ linked,
           NEW u, u = Writes(t, a, s, step, loaded)
    PROVE  /\ TxSound(u)
           /\ u \in SessionType
           /\ u.write = [t.write EXCEPT ![a] = s]
<1>1. u \in SessionType /\ u.step = step /\ u.write = [t.write EXCEPT ![a] = s]
  <2>1. NextState([t.write EXCEPT ![a] = s]) \in ExecStatuses
    BY StatesTyped DEF NextState
  <2>2. a \in 0 .. MaxArtifacts
    BY DEF Numbers
  <2>3. [t.write EXCEPT ![a] = s] \in [Numbers -> ArtStatuses \cup {"delivered"}]
    BY DEF SessionType
  <2> QED
    BY <2>1, <2>2, <2>3 DEF Writes, SessionType
<1>2. t.write \in [Numbers -> ArtStatuses \cup {"delivered"}]
  BY DEF SessionType
<1>3. \A b \in Numbers : u.write[b] = "delivered" => art[b] \in Available /\ linked
  BY <1>1, <1>2
<1> QED
  BY <1>1, <1>3 DEF TxSound

\* A step that changes no committed state: one transaction begins, goes on or is undone.
LEMMA OpenStep ==
    ASSUME IInv, NEW c \in Sessions, NEW u \in SessionType, TxSound(u), GoesOn(c, u),
           \A d \in Sessions \ {c}, a \in Numbers : "none" \in {u.write[a], session[d].write[a]}
    PROVE  IInv'
<1>1. /\ session \in [Sessions -> SessionType] /\ session' = [session EXCEPT ![c] = u]
      /\ UNCHANGED <<art, delivered, dsrStatus, linked, exec>>
  BY DEF IInv, ExecutionTypeOK, GoesOn
<1>2. session'[c] = u /\ \A d \in Sessions \ {c} : session'[d] = session[d]
  BY <1>1
<1>3. ExecutionTypeOK'
  <2>1. session' \in [Sessions -> SessionType]
    BY <1>1
  <2>2. \A e, d \in Sessions : e # d =>
          \A a \in Numbers : "none" \in {session'[e].write[a], session'[d].write[a]}
    BY <1>2 DEF IInv, ExecutionTypeOK
  <2> QED
    BY <1>1, <2>1, <2>2 DEF IInv, ExecutionTypeOK
<1>4. ASSUME NEW d \in Sessions PROVE TxSound(session[d])'
  BY <1>1, <1>2 DEF IInv, TxSound
<1> QED
  BY <1>3, <1>4 DEF IInv

\* A transaction writes a row that is free.
LEMMA WriteStep ==
    ASSUME IInv, NEW c \in Sessions, NEW t \in SessionType, t = session[c] \/ t = NoSession,
           NEW a \in Numbers, NEW s \in ArtStatuses \cup {"delivered"},
           NEW step \in {"recovered", "sync"}, NEW loaded \in ExecStatuses,
           s = "delivered" => art[a] \in Available /\ linked,
           \A d \in Sessions \ {c} : session[d].write[a] = "none",
           GoesOn(c, Writes(t, a, s, step, loaded))
    PROVE  IInv'
<1> DEFINE u == Writes(t, a, s, step, loaded)
<1>1. \A b \in Numbers : t.write[b] = "delivered" => art[b] \in Available /\ linked
  BY DEF IInv, TxSound, NoSession
<1>2. TxSound(u) /\ u \in SessionType /\ u.write = [t.write EXCEPT ![a] = s]
  <2> HIDE DEF u
  <2> QED
    BY <1>1, WritesSound DEF u
<1> HIDE DEF u
<1>3. \A d \in Sessions \ {c}, b \in Numbers : "none" \in {u.write[b], session[d].write[b]}
  <2>1. \A b \in Numbers \ {a} : u.write[b] = t.write[b]
    BY <1>2 DEF SessionType
  <2>2. \A d \in Sessions \ {c}, b \in Numbers : "none" \in {t.write[b], session[d].write[b]}
    BY DEF IInv, ExecutionTypeOK, NoSession
  <2> SUFFICES ASSUME NEW d \in Sessions \ {c}, NEW b \in Numbers
               PROVE  "none" \in {u.write[b], session[d].write[b]}
    OBVIOUS
  <2>3. CASE b = a
    BY <2>3
  <2>4. CASE b # a
    BY <2>1, <2>2, <2>4
  <2> QED
    BY <2>3, <2>4
<1> QED
  BY <1>2, <1>3, OpenStep DEF u

\* A transaction that has written nothing.
LEMMA ReadOnlyStep ==
    ASSUME IInv, NEW c \in Sessions, NEW u \in SessionType, GoesOn(c, u), u.write = NoSession.write,
           u = NoSession \/ u.step # "idle",
           u.step \in {"expire", "deliver"} => u.a \in Numbers
    PROVE  IInv'
<1>1. \A b \in Numbers : u.write[b] = "none"
  BY DEF NoSession
<1>2. TxSound(u)
  BY <1>1 DEF TxSound, NoSession
<1> QED
  BY <1>1, <1>2, OpenStep

\* Transactions that read first.
LEMMA ReadStep ==
    ASSUME IInv, NEW c \in Sessions,
           \/ RequestReads(c) \/ FulfilReads(c)
           \/ \E a \in Numbers : ExpiryReads(c, a) \/ DeliveryReads(c, a)
    PROVE  IInv'
<1>1. exec \in ExecStatuses
  BY DEF IInv, ExecutionTypeOK
<1>2. CASE RequestReads(c)
  <2> DEFINE u == [NoSession EXCEPT !.step = "insert", !.seen = exec]
  <2>1. u \in SessionType /\ u.write = NoSession.write /\ u.step = "insert"
    BY <1>1, NoTxTyped DEF SessionType, NoSession
  <2> HIDE DEF u
  <2> QED
    BY <1>2, <2>1, ReadOnlyStep DEF RequestReads, Starts, u
<1>3. CASE FulfilReads(c)
  <2> DEFINE u == [NoSession EXCEPT !.step = "fulfil"]
  <2>1. u \in SessionType /\ u.write = NoSession.write /\ u.step = "fulfil"
    BY NoTxTyped DEF SessionType, NoSession
  <2> HIDE DEF u
  <2> QED
    BY <1>3, <2>1, ReadOnlyStep DEF FulfilReads, Starts, u
<1>4. ASSUME NEW a \in Numbers, ExpiryReads(c, a) PROVE IInv'
  <2> DEFINE u == [NoSession EXCEPT !.step = "expire", !.a = a]
  <2>1. a \in 0 .. MaxArtifacts
    BY DEF Numbers
  <2>2. u \in SessionType /\ u.write = NoSession.write /\ u.step = "expire" /\ u.a = a
    BY <2>1, NoTxTyped DEF SessionType, NoSession
  <2> HIDE DEF u
  <2> QED
    BY <1>4, <2>2, ReadOnlyStep DEF ExpiryReads, Starts, u
<1>5. ASSUME NEW a \in Numbers, DeliveryReads(c, a) PROVE IInv'
  <2> DEFINE u == [NoSession EXCEPT !.step = "deliver", !.a = a, !.seen = exec]
  <2>1. a \in 0 .. MaxArtifacts
    BY DEF Numbers
  <2>2. u \in SessionType /\ u.write = NoSession.write /\ u.step = "deliver" /\ u.a = a
    BY <1>1, <2>1, NoTxTyped DEF SessionType, NoSession
  <2> HIDE DEF u
  <2> QED
    BY <1>5, <2>2, ReadOnlyStep DEF DeliveryReads, Starts, u
<1> QED
  BY <1>2, <1>3, <1>4, <1>5

\* The transactions that lock a row at once.
LEMMA LockStep ==
    ASSUME IInv, NEW c \in Sessions,
           \/ ClaimOldest(c)
           \/ \E a \in Numbers : RecoverStarts(c, a) \/ ReadyWrites(c, a) \/ FailedWrites(c, a)
    PROVE  IInv'
<1>1. PICK a \in Numbers, s \in {"queued", "processing", "ready", "failed"},
           step \in {"recovered", "sync"} :
         ArtifactFree(c, a) /\ Starts(c, Writes(NoSession, a, s, step, exec))
  <2>1. CASE ClaimOldest(c)
    BY <2>1 DEF ClaimOldest, Claimable
  <2>2. CASE \E a \in Numbers : RecoverStarts(c, a) \/ ReadyWrites(c, a) \/ FailedWrites(c, a)
    BY <2>2 DEF RecoverStarts, ReadyWrites, FailedWrites
  <2> QED
    BY <2>1, <2>2
<1>2. s \in ArtStatuses \cup {"delivered"} /\ s # "delivered" /\ exec \in ExecStatuses
  BY DEF ArtStatuses, Running, Available, IInv, ExecutionTypeOK
<1> QED
  BY <1>1, <1>2, NoTxTyped, WriteStep DEF Starts, ArtifactFree

\* The request and the expiry pass write what they read before.
LEMMA InsertStep ==
    ASSUME IInv, NEW c \in Sessions, RequestInserts(c)
    PROVE  IInv'
<1>1. PICK a \in Numbers : /\ \A b \in a .. MaxArtifacts : ~Used(b)
                           /\ GoesOn(c, Writes(session[c], a, "queued", "sync", session[c].seen))
  BY DEF RequestInserts
<1>2. session[c] \in SessionType /\ session[c].seen \in ExecStatuses
  BY DEF IInv, ExecutionTypeOK, SessionType
<1>3. ~Used(a)
  BY <1>1, ExecutionAssumption DEF Numbers
<1>4. \A d \in Sessions \ {c} : session[d].write[a] = "none"
  BY <1>3 DEF Used
<1>5. "queued" \in ArtStatuses
  BY DEF ArtStatuses
<1> QED
  BY <1>1, <1>2, <1>4, <1>5, WriteStep

LEMMA ExpireStep ==
    ASSUME IInv, NEW c \in Sessions, ExpiryWrites(c)
    PROVE  IInv'
<1>1. session[c] \in SessionType /\ session[c].a \in Numbers /\ exec \in ExecStatuses
  BY DEF ExpiryWrites, IInv, ExecutionTypeOK, TxSound
<1>2. "expired" \in ArtStatuses
  BY DEF ArtStatuses
<1> QED
  BY <1>1, <1>2, WriteStep DEF ExpiryWrites, ArtifactFree

\* The confirmation of a delivery checks again what it read.
LEMMA DeliveryStep ==
    ASSUME IInv, NEW c \in Sessions, DeliveryUpdates(c)
    PROVE  IInv'
<1>1. session[c] \in SessionType /\ session[c].a \in Numbers /\ session[c].seen \in ExecStatuses
  BY DEF DeliveryUpdates, IInv, ExecutionTypeOK, TxSound, SessionType
<1>2. CASE Confirms(session[c].a)
  <2>1. art[session[c].a] \in Available /\ linked
    BY <1>2 DEF Confirms, DeliveryEligible
  <2> QED
    BY <1>1, <1>2, <2>1, WriteStep DEF DeliveryUpdates, ArtifactFree
<1>3. CASE ~Confirms(session[c].a)
  BY <1>3, NoTxTyped, ReadOnlyStep DEF DeliveryUpdates, NoSession
<1> QED
  BY <1>2, <1>3

LEMMA AbortStep ==
    ASSUME IInv, NEW c \in Sessions, SessionAborts(c)
    PROVE  IInv'
  BY NoTxTyped, ReadOnlyStep DEF SessionAborts, NoSession

\* Recovery saves the request and then claims in the same transaction.
LEMMA KeepsRows ==
    ASSUME IInv, NEW c \in Sessions, NEW u \in SessionType, GoesOn(c, u), u.write = session[c].write,
           u.step \in {"claim", "sync"}
    PROVE  IInv'
<1>1. TxSound(u)
  BY DEF IInv, TxSound
<1>2. \A d \in Sessions \ {c}, a \in Numbers : "none" \in {u.write[a], session[d].write[a]}
  BY DEF IInv, ExecutionTypeOK
<1> QED
  BY <1>1, <1>2, OpenStep

LEMMA RecoverStep ==
    ASSUME IInv, NEW c \in Sessions, RecoverSaves(c)
    PROVE  IInv'
<1> DEFINE t == session[c]
           u == IF Changes(t) THEN [t EXCEPT !.step = "claim", !.seen = t.new, !.pending = t.new]
                ELSE [t EXCEPT !.step = "claim", !.seen = exec]
<1>1. GoesOn(c, u)
  BY DEF RecoverSaves
<1>2. t \in SessionType /\ exec \in ExecStatuses
  BY DEF IInv, ExecutionTypeOK
<1>3. u \in SessionType /\ u.step = "claim" /\ u.write = t.write
  BY <1>2 DEF SessionType
<1> HIDE DEF u
<1> QED
  BY <1>1, <1>3, KeepsRows

LEMMA ClaimStep ==
    ASSUME IInv, NEW c \in Sessions, ClaimAfterRecovery(c)
    PROVE  IInv'
<1>1. session[c] \in SessionType /\ session[c].seen \in ExecStatuses
  BY DEF IInv, ExecutionTypeOK, SessionType
<1>2. CASE Claimable(c) = {}
  <2> DEFINE u == [session[c] EXCEPT !.step = "sync", !.new = session[c].seen]
  <2>1. GoesOn(c, u)
    BY <1>2 DEF ClaimAfterRecovery
  <2>2. u \in SessionType /\ u.step = "sync" /\ u.write = session[c].write
    BY <1>1 DEF SessionType
  <2> HIDE DEF u
  <2> QED
    BY <2>1, <2>2, KeepsRows
<1>3. ASSUME NEW a \in Claimable(c), GoesOn(c, Writes(session[c], a, "processing", "sync", session[c].seen))
      PROVE  IInv'
  <2>1. a \in Numbers /\ ArtifactFree(c, a)
    BY DEF Claimable
  <2>2. "processing" \in ArtStatuses
    BY DEF ArtStatuses, Running
  <2> QED
    BY <1>1, <1>3, <2>1, <2>2, WriteStep DEF ArtifactFree
<1> QED
  BY <1>2, <1>3 DEF ClaimAfterRecovery

-------------------------------------------------------------------------------
(* Commits, the erasure, and time.                                         *)

\* A transaction is over; the others keep their rows.
LEMMA EndStep ==
    ASSUME IInv, NEW c \in Sessions, SessionEnds(c)
    PROVE  /\ session' \in [Sessions -> SessionType] /\ session'[c] = NoSession
           /\ \A d \in Sessions \ {c} : session'[d] = session[d]
           /\ \A e, d \in Sessions : e # d =>
                 \A a \in Numbers : "none" \in {session'[e].write[a], session'[d].write[a]}
<1>1. session \in [Sessions -> SessionType] /\ session' = [session EXCEPT ![c] = NoSession]
  BY DEF IInv, ExecutionTypeOK, SessionEnds
<1>2. session'[c] = NoSession /\ \A d \in Sessions \ {c} : session'[d] = session[d]
  BY <1>1
<1>3. \A a \in Numbers : NoSession.write[a] = "none"
  BY DEF NoSession
<1>4. \A e, d \in Sessions : e # d =>
         \A a \in Numbers : "none" \in {session'[e].write[a], session'[d].write[a]}
  BY <1>2, <1>3 DEF IInv, ExecutionTypeOK
<1> QED
  BY <1>1, <1>2, <1>4, NoTxTyped

\* The commit of a synchronisation: a row another transaction has locked is not changed.
LEMMA SyncStep ==
    ASSUME IInv, NEW c \in Sessions, SyncCommits(c)
    PROVE  IInv'
<1> DEFINE t == session[c]
<1>1. /\ t \in SessionType /\ SessionEnds(c)
      /\ art' = Apply(t.write) /\ delivered' = Deliveries(t.write)
      /\ exec' = (IF Changes(t) THEN t.new ELSE IF t.pending # "none" THEN t.pending ELSE exec)
      /\ UNCHANGED <<dsrStatus, linked>>
  BY DEF SyncCommits, IInv, ExecutionTypeOK
<1>2. /\ t.write \in [Numbers -> ArtStatuses \cup {"delivered"}]
      /\ t.new \in ExecStatuses /\ t.pending \in ExecStatuses \cup {"none"}
  BY <1>1 DEF SessionType
<1>3. /\ session' \in [Sessions -> SessionType] /\ session'[c] = NoSession
      /\ \A d \in Sessions \ {c} : session'[d] = session[d]
      /\ \A e, d \in Sessions : e # d =>
            \A a \in Numbers : "none" \in {session'[e].write[a], session'[d].write[a]}
  BY <1>1, EndStep
<1>4. ExecutionTypeOK'
  <2>1. art' \in [Numbers -> ArtStatuses]
    BY <1>1, <1>2 DEF Apply, IInv, ExecutionTypeOK
  <2>2. delivered' \subseteq Numbers
    BY <1>1 DEF Deliveries, IInv, ExecutionTypeOK
  <2>3. exec' \in ExecStatuses
    BY <1>1, <1>2 DEF IInv, ExecutionTypeOK
  <2> QED
    BY <1>1, <1>3, <2>1, <2>2, <2>3 DEF IInv, ExecutionTypeOK
<1>5. ASSUME NEW d \in Sessions PROVE TxSound(session[d])'
  <2>1. CASE d = c
    BY <1>3, <2>1 DEF TxSound, NoSession
  <2>2. CASE d # c
    <3>1. TxSound(session[d]) /\ session'[d] = session[d]
      BY <1>3, <2>2 DEF IInv
    <3>2. ASSUME NEW a \in Numbers, session[d].write[a] = "delivered"
          PROVE  art'[a] \in Available /\ linked'
      <4>1. t.write[a] = "none"
        BY <2>2, <3>2 DEF IInv, ExecutionTypeOK
      <4>2. art'[a] = art[a]
        BY <1>1, <4>1 DEF Apply
      <4> QED
        BY <1>1, <3>1, <3>2, <4>2 DEF TxSound
    <3> QED
      BY <3>1, <3>2 DEF TxSound
  <2> QED
    BY <2>1, <2>2
<1> QED
  BY <1>4, <1>5 DEF IInv

\* The commit of a fulfilment.
LEMMA FulfilStep ==
    ASSUME IInv, NEW c \in Sessions, FulfilCommits(c)
    PROVE  IInv'
<1>1. /\ SessionEnds(c) /\ dsrStatus' \in {"approved", "fulfilled", "cancelled"}
      /\ UNCHANGED <<art, delivered, linked, exec>>
  BY DEF FulfilCommits, IInv, ExecutionTypeOK
<1>2. /\ session' \in [Sessions -> SessionType] /\ session'[c] = NoSession
      /\ \A d \in Sessions \ {c} : session'[d] = session[d]
      /\ \A e, d \in Sessions : e # d =>
            \A a \in Numbers : "none" \in {session'[e].write[a], session'[d].write[a]}
  BY <1>1, EndStep
<1>3. ExecutionTypeOK'
  BY <1>1, <1>2 DEF IInv, ExecutionTypeOK
<1>4. ASSUME NEW d \in Sessions PROVE TxSound(session[d])'
  BY <1>1, <1>2 DEF IInv, TxSound, NoSession
<1> QED
  BY <1>3, <1>4 DEF IInv

\* Time passes over an archive, and a lease is renewed, without a transaction; neither
\* makes an available archive unavailable.
LEMMA TimeStep ==
    ASSUME IInv, NEW a \in Numbers, TimePasses(a) \/ LeaseRenewed(a)
    PROVE  IInv'
<1>1. art \in [Numbers -> ArtStatuses] /\ UNCHANGED <<delivered, dsrStatus, linked, exec, session>>
  BY DEF IInv, ExecutionTypeOK, TimePasses, LeaseRenewed
<1>2. PICK s \in ArtStatuses :
         /\ art' = [art EXCEPT ![a] = s]
         /\ art[a] \in Available => s \in Available
  BY DEF TimePasses, LeaseRenewed, ArtStatuses, Running, Available
<1>3. ExecutionTypeOK'
  BY <1>1, <1>2 DEF IInv, ExecutionTypeOK
<1>4. ASSUME NEW d \in Sessions PROVE TxSound(session[d])'
  BY <1>1, <1>2 DEF IInv, TxSound
<1> QED
  BY <1>3, <1>4 DEF IInv

LEMMA CancelStep ==
    ASSUME IInv, CancelRequest
    PROVE  IInv'
<1>1. UNCHANGED <<art, delivered, linked, exec, session>> /\ dsrStatus' = "cancelled"
  BY DEF CancelRequest
<1> QED
  BY <1>1 DEF IInv, ExecutionTypeOK, TxSound

\* The erasure meets no transaction that has written.
LEMMA EraseStep ==
    ASSUME IInv, EraseSubject
    PROVE  IInv'
<1>1. /\ linked' = FALSE /\ UNCHANGED <<delivered, dsrStatus, exec, session>>
      /\ \A c \in Sessions : session[c].write = NoSession.write
  BY DEF EraseSubject
<1>2. art' \in [Numbers -> ArtStatuses]
  BY DEF EraseSubject, IInv, ExecutionTypeOK, ArtStatuses
<1>3. ExecutionTypeOK'
  BY <1>1, <1>2 DEF IInv, ExecutionTypeOK
<1>4. ASSUME NEW d \in Sessions PROVE TxSound(session[d])'
  <2>1. TxSound(session[d]) /\ session'[d] = session[d]
    BY <1>1 DEF IInv
  <2>2. \A a \in Numbers : session[d].write[a] = "none"
    BY <1>1 DEF NoSession
  <2> QED
    BY <2>1, <2>2 DEF TxSound
<1> QED
  BY <1>3, <1>4 DEF IInv

-------------------------------------------------------------------------------
(* The theorems.                                                           *)

LEMMA InitIInv == ExecutionInit => IInv
<1> SUFFICES ASSUME ExecutionInit PROVE IInv
  OBVIOUS
<1>1. \A c \in Sessions : session[c] = NoSession
  BY DEF ExecutionInit
<1>2. NoSession.step = "idle" /\ \A a \in Numbers : NoSession.write[a] = "none"
  BY DEF NoSession
<1>3. ExecutionTypeOK
  BY <1>1, <1>2, NoTxTyped DEF ExecutionInit, ExecutionTypeOK, ArtStatuses, ExecStatuses
<1>4. \A c \in Sessions : TxSound(session[c])
  BY <1>1, <1>2 DEF TxSound
<1> QED
  BY <1>3, <1>4 DEF IInv

LEMMA NextIInv ==
    ASSUME IInv, [ExecutionNext]_executionVars
    PROVE  IInv'
<1>1. CASE UNCHANGED executionVars
  BY <1>1 DEF executionVars, IInv, ExecutionTypeOK, TxSound
<1>2. ASSUME NEW c \in Sessions, SessionStep(c) PROVE IInv'
  BY <1>2, ReadStep, LockStep, InsertStep, ExpireStep, DeliveryStep, AbortStep, RecoverStep,
     ClaimStep, SyncStep, FulfilStep DEF SessionStep
<1>3. CASE ExecutionNext
  BY <1>2, <1>3, TimeStep, CancelStep, EraseStep DEF ExecutionNext
<1> QED
  BY <1>1, <1>3

\* Every open transaction is as its step says, whatever overlaps it.
THEOREM Invariance == ExecutionSpec => []IInv
<1> QED
  BY InitIInv, NextIInv, PTL DEF ExecutionSpec

\* Types; and a row of export_artifacts is written by one open transaction.
THEOREM TypesHold == ExecutionSpec => []ExecutionTypeOK
<1>1. IInv => ExecutionTypeOK
  BY DEF IInv
<1> QED
  BY <1>1, Invariance, PTL

\* A delivery is confirmed of an available archive of a request that names its subject
\* (repo.confirm_delivery), at the commit and not only at the check.
THEOREM DeliveriesAreAvailable == ExecutionSpec => DeliveredWasAvailable
<1>1. ASSUME IInv, [ExecutionNext]_executionVars, NEW a \in delivered' \ delivered
      PROVE  art[a] \in Available /\ linked
  <2>1. PICK c \in Sessions : SyncCommits(c)
    <3>1. CASE UNCHANGED executionVars
      BY <1>1, <3>1 DEF executionVars
    <3>2. ASSUME NEW c \in Sessions, SessionStep(c), ~SyncCommits(c) PROVE delivered' = delivered
      BY <3>2 DEF SessionStep, RequestReads, RequestInserts, RecoverStarts, RecoverSaves,
         ClaimAfterRecovery, ClaimOldest, ReadyWrites, FailedWrites, ExpiryReads, ExpiryWrites,
         DeliveryReads, DeliveryUpdates, FulfilReads, FulfilCommits, SessionAborts, GoesOn, Starts
    <3>3. CASE CancelRequest \/ EraseSubject \/ \E b \in Numbers : TimePasses(b) \/ LeaseRenewed(b)
      BY <1>1, <3>3 DEF CancelRequest, EraseSubject, TimePasses, LeaseRenewed
    <3> QED
      BY <1>1, <3>1, <3>2, <3>3 DEF ExecutionNext
  <2>2. a \in Numbers /\ session[c].write[a] = "delivered"
    BY <1>1, <2>1 DEF SyncCommits, Deliveries
  <2> QED
    BY <1>1, <2>2 DEF IInv, TxSound
<1>2. IInv /\ [ExecutionNext]_executionVars
        => \A a \in delivered' \ delivered : art[a] \in Available /\ linked
  BY <1>1
<1> QED
  BY <1>2, Invariance, PTL DEF ExecutionSpec, DeliveredWasAvailable
===============================================================================
