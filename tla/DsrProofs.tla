------------------------------- MODULE DsrProofs -------------------------------
(***************************************************************************)
(* The safety properties of DataSubjectRequests, for any number of users,  *)
(* requests and open transactions. IInv adds to them what an open          *)
(* transaction may rely on because of the locks it holds, or has to        *)
(* rely on because its UPDATE repeats it.                                  *)
(***************************************************************************)
EXTENDS DataSubjectRequests, TLAPS

Executing(c) == tx[c].step \in {"begun", "locked"}
Deciding(c) == tx[c].step \in {"move", "authority"}

\* What is to be inserted is a new submission.
SubmitsNew ==
    \A c \in Clients : tx[c].step \in {"lock", "insert"} =>
        tx[c].seen.status = "submitted" /\ tx[c].seen.exec = "not_started"

\* Keyed submissions of one requester exclude each other, and have found no live key.
KeysExclusive ==
    \A c, o \in Clients, u \in Users :
        HoldsNoKeyUpdate(c, u) /\ HoldsNoKeyUpdate(o, u) => c = o
KeyIsNew ==
    \A c \in Clients, d \in Requests :
        /\ tx[c].step = "insert" /\ tx[c].seen.key
        /\ dsr[d].key
        => dsr[d].requester # tx[c].seen.requester

\* A live key belongs to a user.
KeyHasRequester ==
    /\ \A d \in Requests : dsr[d].key => dsr[d].requester \in Users
    /\ \A c \in Clients : tx[c].step \in {"lock", "insert"} => tx[c].seen.requester \in Users

\* A decision was allowed by the status that was seen, and does not fulfil an erasure.
DecidesOnSeen ==
    \A c \in Clients : Deciding(c) =>
        /\ tx[c].row \in Requests
        /\ dsr[tx[c].row].status # "none"
        /\ tx[c].step = "move" => tx[c].to \in AllowedTransitions(tx[c].seen.status)
        /\ tx[c].step = "move" /\ tx[c].to = "fulfilled" => dsr[tx[c].row].type # "erase"
        /\ tx[c].step = "authority" =>
              tx[c].seen.status \in Reviewable /\ tx[c].to \in {"verified", "rejected"}

\* An erasure in execution has its request to itself.
ExecutesApproved ==
    \A c \in Clients : Executing(c) =>
        /\ tx[c].row \in Requests
        /\ Executable(dsr[tx[c].row])
OneExecutor ==
    \A c, o \in Clients : Executing(c) /\ Executing(o) /\ tx[c].row = tx[o].row => c = o

IInv ==
    /\ TypeOK
    /\ SubmitsNew /\ KeysExclusive /\ KeyIsNew /\ KeyHasRequester
    /\ DecidesOnSeen /\ ExecutesApproved /\ OneExecutor
    /\ OneRequestPerKey /\ ApprovedIsAuthorised /\ ExecutedIsFulfilled

-------------------------------------------------------------------------------
\* What the table of transitions says of a transition it allows.
LEMMA Transitions ==
    ASSUME NEW s, NEW t \in AllowedTransitions(s)
    PROVE  /\ s \in {"submitted", "under_review", "approved"}
           /\ t \in {"under_review", "approved", "rejected", "fulfilled", "cancelled"}
           /\ t = "fulfilled" => s = "approved"
  BY DEF AllowedTransitions

\* The empty row and the idle transaction have their types.
LEMMA NoTypes == NoRow \in RowType /\ NoTx \in TxType
<1>1. NoRow \in RowType
  BY DEF NoRow, RowType, Statuses, Final
<1> QED
  BY <1>1 DEF NoTx, TxType, Statuses, Final

\* A row keeps its type when its key changes.
LEMMA KeyType ==
    ASSUME NEW r \in RowType, NEW k \in BOOLEAN
    PROVE  [r EXCEPT !.key = k] \in RowType
  BY DEF RowType

\* The initial states.
LEMMA InitHolds == Init => IInv
<1> SUFFICES ASSUME Init PROVE IInv
  OBVIOUS
<1>1. \A c \in Clients : tx[c].step = "idle"
  BY DEF Init, NoTx
<1>2. \A d \in Requests : dsr[d] = NoRow
  BY DEF Init
<1>3. TypeOK
  BY NoTypes DEF Init, TypeOK
<1>4. OneRequestPerKey /\ ApprovedIsAuthorised /\ ExecutedIsFulfilled /\ KeyHasRequester
  BY <1>1, <1>2 DEF OneRequestPerKey, ApprovedIsAuthorised, ExecutedIsFulfilled, KeyHasRequester, NoRow
<1> QED
  BY <1>1, <1>3, <1>4 DEF IInv, SubmitsNew, KeysExclusive, KeyIsNew, DecidesOnSeen, ExecutesApproved,
     OneExecutor, Executing, Deciding, HoldsNoKeyUpdate

-------------------------------------------------------------------------------
(* Steps that change no row of the database.                               *)

\* A transaction that ends, having written nothing.
LEMMA EndsKeeps ==
    ASSUME IInv, NEW c \in Clients, Ends(c), UNCHANGED <<dsr, erased>>
    PROVE  IInv'
<1>1. /\ tx'[c].step = "idle"
      /\ \A o \in Clients \ {c} : tx'[o] = tx[o]
  BY DEF Ends, NoTx, IInv, TypeOK
<1>2. TypeOK'
  BY NoTypes DEF IInv, TypeOK, Ends
<1>3. SubmitsNew' /\ KeysExclusive' /\ KeyIsNew' /\ KeyHasRequester'
  BY <1>1 DEF IInv, SubmitsNew, KeysExclusive, KeyIsNew, KeyHasRequester, HoldsNoKeyUpdate
<1>4. DecidesOnSeen' /\ ExecutesApproved' /\ OneExecutor'
  BY <1>1 DEF IInv, DecidesOnSeen, ExecutesApproved, OneExecutor, Deciding, Executing
<1> QED
  BY <1>2, <1>3, <1>4 DEF IInv, OneRequestPerKey, ApprovedIsAuthorised, ExecutedIsFulfilled

\* A submission begins: what it will insert is a new request of a user.
LEMMA SubmitStartsKeeps ==
    ASSUME IInv, NEW c \in Clients, NEW type \in Types, NEW by \in Users, NEW of \in Users,
           NEW keyed \in BOOLEAN, SubmitStarts(c, type, by, of, keyed)
    PROVE  IInv'
<1> DEFINE t == [NoTx EXCEPT !.step = IF keyed THEN "lock" ELSE "insert",
                             !.seen = Intake(type, by, of, keyed)]
<1>1. /\ Intake(type, by, of, keyed) \in RowType
      /\ Intake(type, by, of, keyed).status = "submitted"
      /\ Intake(type, by, of, keyed).exec = "not_started"
      /\ Intake(type, by, of, keyed).requester = by
      /\ Intake(type, by, of, keyed).key = keyed
  BY RequestAssumption DEF Intake, NoRow, RowType, Statuses, Final
<1>2. /\ t \in TxType /\ t.seen = Intake(type, by, of, keyed)
      /\ t.step = IF keyed THEN "lock" ELSE "insert"
  BY <1>1, NoTypes DEF NoTx, TxType
<1>3. /\ tx' = [tx EXCEPT ![c] = t] /\ dsr' = dsr /\ erased' = erased
  BY DEF SubmitStarts
<1> HIDE DEF t
<1>4. /\ tx'[c] = t
      /\ \A o \in Clients \ {c} : tx'[o] = tx[o]
  BY <1>3 DEF IInv, TypeOK
<1>5. TypeOK'
  BY <1>2, <1>3 DEF IInv, TypeOK
<1>6. SubmitsNew' /\ KeyHasRequester'
  BY <1>1, <1>2, <1>3, <1>4 DEF IInv, SubmitsNew, KeyHasRequester
<1>7. KeysExclusive' /\ KeyIsNew'
  BY <1>1, <1>2, <1>3, <1>4 DEF IInv, KeysExclusive, KeyIsNew, HoldsNoKeyUpdate
<1>8. DecidesOnSeen' /\ ExecutesApproved' /\ OneExecutor'
  BY <1>2, <1>3, <1>4 DEF IInv, DecidesOnSeen, ExecutesApproved, OneExecutor, Deciding, Executing
<1> QED
  BY <1>3, <1>5, <1>6, <1>7, <1>8
  DEF IInv, OneRequestPerKey, ApprovedIsAuthorised, ExecutedIsFulfilled

\* The lock on the requester keeps other keyed submissions away from here on.
LEMMA SubmitLocksKeeps ==
    ASSUME IInv, NEW c \in Clients, SubmitLocks(c)
    PROVE  IInv'
<1> DEFINE r == tx[c].seen.requester
           found == \E d \in Requests : dsr[d].key /\ dsr[d].requester = r
<1>1. CASE found
  BY <1>1, EndsKeeps DEF SubmitLocks, Ends
<1>2. CASE ~found
  <2>1. /\ tx' = [tx EXCEPT ![c].step = "insert"] /\ dsr' = dsr /\ erased' = erased
        /\ tx[c].step = "lock"
        /\ \A o \in Clients \ {c} : ~HoldsNoKeyUpdate(o, r)
    BY <1>2 DEF SubmitLocks, MayLockRequester, UserFree
  <2>2. /\ tx'[c] = [tx[c] EXCEPT !.step = "insert"]
        /\ \A o \in Clients \ {c} : tx'[o] = tx[o]
        /\ tx[c] \in TxType
    BY <2>1 DEF IInv, TypeOK
  <2>3. tx'[c] \in TxType /\ tx'[c].step = "insert" /\ tx'[c].seen = tx[c].seen
    BY <2>2 DEF TxType
  <2>4. TypeOK'
    BY <2>1, <2>2, <2>3 DEF IInv, TypeOK
  <2>5. SubmitsNew' /\ KeyHasRequester'
    BY <2>1, <2>2, <2>3 DEF IInv, SubmitsNew, KeyHasRequester
  <2>6. KeysExclusive'
    BY <2>1, <2>2, <2>3 DEF IInv, KeysExclusive, HoldsNoKeyUpdate
  <2>7. KeyIsNew'
    BY <1>2, <2>1, <2>2, <2>3 DEF IInv, KeyIsNew
  <2>8. DecidesOnSeen' /\ ExecutesApproved' /\ OneExecutor'
    BY <2>1, <2>2, <2>3 DEF IInv, DecidesOnSeen, ExecutesApproved, OneExecutor, Deciding, Executing
  <2> QED
    BY <2>1, <2>4, <2>5, <2>6, <2>7, <2>8
    DEF IInv, OneRequestPerKey, ApprovedIsAuthorised, ExecutedIsFulfilled
<1> QED
  BY <1>1, <1>2

\* A decision is read. An approved erasure is not ready, so it is not to be fulfilled.
LEMMA TransitionReadsKeeps ==
    ASSUME IInv, NEW c \in Clients, NEW d \in Requests, NEW to \in Statuses,
           TransitionReads(c, d, to)
    PROVE  IInv'
<1> DEFINE t == [NoTx EXCEPT !.step = "move", !.row = d, !.seen.status = dsr[d].status, !.to = to]
<1>1. /\ t \in TxType /\ t.step = "move" /\ t.row = d /\ t.to = to
      /\ t.seen.status = dsr[d].status
  BY NoTypes DEF IInv, TypeOK, NoTx, TxType, RowType
<1>2. /\ tx' = [tx EXCEPT ![c] = t] /\ dsr' = dsr /\ erased' = erased
      /\ to \in AllowedTransitions(dsr[d].status)
      /\ to = "fulfilled" => ExecutionReady(dsr[d])
  BY DEF TransitionReads
<1> HIDE DEF t
<1>3. /\ tx'[c] = t
      /\ \A o \in Clients \ {c} : tx'[o] = tx[o]
  BY <1>2 DEF IInv, TypeOK
<1>4. dsr[d].status # "none" /\ (to = "fulfilled" => dsr[d].status = "approved")
  BY <1>2, Transitions
<1>5. to = "fulfilled" => dsr[d].type # "erase"
  BY <1>2, <1>4 DEF IInv, ExecutedIsFulfilled, ExecutionReady
<1>6. TypeOK'
  BY <1>1, <1>2 DEF IInv, TypeOK
<1>7. SubmitsNew' /\ KeysExclusive' /\ KeyIsNew' /\ KeyHasRequester'
  BY <1>1, <1>2, <1>3 DEF IInv, SubmitsNew, KeysExclusive, KeyIsNew, KeyHasRequester, HoldsNoKeyUpdate
<1>8. DecidesOnSeen'
  BY <1>1, <1>2, <1>3, <1>4, <1>5 DEF IInv, DecidesOnSeen, Deciding
<1>9. ExecutesApproved' /\ OneExecutor'
  BY <1>1, <1>2, <1>3 DEF IInv, ExecutesApproved, OneExecutor, Executing
<1> QED
  BY <1>2, <1>6, <1>7, <1>8, <1>9
  DEF IInv, OneRequestPerKey, ApprovedIsAuthorised, ExecutedIsFulfilled

\* The same for a decision on the authority of a representative.
LEMMA AuthorityReadsKeeps ==
    ASSUME IInv, NEW c \in Clients, NEW d \in Requests, NEW to \in {"verified", "rejected"},
           AuthorityReads(c, d, to)
    PROVE  IInv'
<1> DEFINE t == [NoTx EXCEPT !.step = "authority", !.row = d, !.seen.rep = dsr[d].rep,
                             !.seen.status = dsr[d].status, !.to = to]
<1>1. /\ t \in TxType /\ t.step = "authority" /\ t.row = d /\ t.to = to
      /\ t.seen.status = dsr[d].status
  <2> DEFINE s == [NoRow EXCEPT !.rep = dsr[d].rep, !.status = dsr[d].status]
  <2>1. dsr[d].rep \in {"not_required", "pending", "verified", "rejected"} /\ dsr[d].status \in Statuses
    BY DEF IInv, TypeOK, RowType
  <2>2. s \in RowType /\ s.status = dsr[d].status
    BY <2>1, NoTypes DEF RowType
  <2>3. t = [NoTx EXCEPT !.step = "authority", !.row = d, !.seen = s, !.to = to]
    BY DEF NoTx
  <2> HIDE DEF s
  <2> QED
    BY <2>2, <2>3, NoTypes DEF NoTx, TxType
<1>2. /\ tx' = [tx EXCEPT ![c] = t] /\ dsr' = dsr /\ erased' = erased
      /\ dsr[d].status \in Reviewable
  BY DEF AuthorityReads
<1> HIDE DEF t
<1>3. /\ tx'[c] = t
      /\ \A o \in Clients \ {c} : tx'[o] = tx[o]
  BY <1>2 DEF IInv, TypeOK
<1>4. TypeOK'
  BY <1>1, <1>2 DEF IInv, TypeOK
<1>5. SubmitsNew' /\ KeysExclusive' /\ KeyIsNew' /\ KeyHasRequester'
  BY <1>1, <1>2, <1>3 DEF IInv, SubmitsNew, KeysExclusive, KeyIsNew, KeyHasRequester, HoldsNoKeyUpdate
<1>6. DecidesOnSeen'
  BY <1>1, <1>2, <1>3 DEF IInv, DecidesOnSeen, Deciding, Reviewable
<1>7. ExecutesApproved' /\ OneExecutor'
  BY <1>1, <1>2, <1>3 DEF IInv, ExecutesApproved, OneExecutor, Executing
<1> QED
  BY <1>2, <1>4, <1>5, <1>6, <1>7
  DEF IInv, OneRequestPerKey, ApprovedIsAuthorised, ExecutedIsFulfilled

\* An execution begins: the row is approved, and nobody else executes it.
LEMMA EraseBeginsKeeps ==
    ASSUME IInv, NEW c \in Clients, NEW e \in Staff, NEW d \in Requests, EraseBegins(c, e, d)
    PROVE  IInv'
<1> DEFINE t == [NoTx EXCEPT !.step = "begun", !.row = d, !.by = e]
<1>1. t \in TxType /\ t.step = "begun" /\ t.row = d
  BY NoTypes, RequestAssumption DEF NoTx, TxType
<1>2. /\ tx' = [tx EXCEPT ![c] = t] /\ dsr' = dsr /\ erased' = erased
      /\ Executable(dsr[d])
      /\ \A o \in Clients \ {c} : ~(Executing(o) /\ tx[o].row = d)
  BY DEF EraseBegins, RowFree, Executing
<1> HIDE DEF t
<1>3. /\ tx'[c] = t
      /\ \A o \in Clients \ {c} : tx'[o] = tx[o]
  BY <1>2 DEF IInv, TypeOK
<1>4. TypeOK'
  BY <1>1, <1>2 DEF IInv, TypeOK
<1>5. SubmitsNew' /\ KeysExclusive' /\ KeyIsNew' /\ KeyHasRequester'
  BY <1>1, <1>2, <1>3 DEF IInv, SubmitsNew, KeysExclusive, KeyIsNew, KeyHasRequester, HoldsNoKeyUpdate
<1>6. DecidesOnSeen'
  BY <1>1, <1>2, <1>3 DEF IInv, DecidesOnSeen, Deciding
<1>7. ExecutesApproved' /\ OneExecutor'
  BY <1>1, <1>2, <1>3 DEF IInv, ExecutesApproved, OneExecutor, Executing
<1> QED
  BY <1>2, <1>4, <1>5, <1>6, <1>7
  DEF IInv, OneRequestPerKey, ApprovedIsAuthorised, ExecutedIsFulfilled

\* The subject is locked.
LEMMA EraseLocksKeeps ==
    ASSUME IInv, NEW c \in Clients, EraseLocks(c)
    PROVE  IInv'
<1>1. /\ tx' = [tx EXCEPT ![c].step = "locked"] /\ dsr' = dsr /\ erased' = erased
      /\ tx[c].step = "begun"
  BY DEF EraseLocks
<1>2. /\ tx'[c] = [tx[c] EXCEPT !.step = "locked"]
      /\ \A o \in Clients \ {c} : tx'[o] = tx[o]
      /\ tx[c] \in TxType
  BY <1>1 DEF IInv, TypeOK
<1>3. tx'[c] \in TxType /\ tx'[c].step = "locked" /\ tx'[c].row = tx[c].row
  BY <1>2 DEF TxType
<1>4. TypeOK'
  BY <1>1, <1>2, <1>3 DEF IInv, TypeOK
<1>5. SubmitsNew' /\ KeysExclusive' /\ KeyIsNew' /\ KeyHasRequester'
  BY <1>1, <1>2, <1>3 DEF IInv, SubmitsNew, KeysExclusive, KeyIsNew, KeyHasRequester, HoldsNoKeyUpdate
<1>6. DecidesOnSeen'
  BY <1>1, <1>2, <1>3 DEF IInv, DecidesOnSeen, Deciding
<1>7. ExecutesApproved' /\ OneExecutor'
  BY <1>1, <1>2, <1>3 DEF IInv, ExecutesApproved, OneExecutor, Executing
<1> QED
  BY <1>1, <1>4, <1>5, <1>6, <1>7
  DEF IInv, OneRequestPerKey, ApprovedIsAuthorised, ExecutedIsFulfilled

-------------------------------------------------------------------------------
(* Steps that change rows. The transaction that takes one ends with it.    *)

\* What the other transactions know, after a commit, of rows that exist: their type
\* is the same, and an executor's row is the same.
LEMMA CommitKeepsOthers ==
    ASSUME IInv, NEW c \in Clients, Ends(c), dsr' \in [Requests -> RowType],
           \A d \in Requests : dsr[d].status # "none" =>
               dsr'[d].status # "none" /\ dsr'[d].type = dsr[d].type,
           \A o \in Clients \ {c} : Executing(o) => dsr'[tx[o].row] = dsr[tx[o].row]
    PROVE  /\ tx' \in [Clients -> TxType]
           /\ tx'[c].step = "idle"
           /\ \A o \in Clients \ {c} : tx'[o] = tx[o]
           /\ SubmitsNew' /\ KeysExclusive'
           /\ DecidesOnSeen' /\ ExecutesApproved' /\ OneExecutor'
<1>1. /\ tx'[c].step = "idle"
      /\ \A o \in Clients \ {c} : tx'[o] = tx[o]
  BY DEF Ends, NoTx, IInv, TypeOK
<1>2. tx' \in [Clients -> TxType]
  BY NoTypes DEF IInv, TypeOK, Ends
<1>3. SubmitsNew' /\ KeysExclusive'
  BY <1>1 DEF IInv, SubmitsNew, KeysExclusive, HoldsNoKeyUpdate
<1>4. DecidesOnSeen'
  BY <1>1 DEF IInv, DecidesOnSeen, Deciding
<1>5. ExecutesApproved' /\ OneExecutor'
  BY <1>1 DEF IInv, ExecutesApproved, OneExecutor, Executing
<1> QED
  BY <1>1, <1>2, <1>3, <1>4, <1>5

\* The new row is the only one with its key.
LEMMA SubmitCommitsKeeps ==
    ASSUME IInv, NEW c \in Clients, SubmitCommits(c)
    PROVE  IInv'
<1> DEFINE s == tx[c].seen
<1>1. PICK d \in Requests \ Existing : dsr' = [dsr EXCEPT ![d] = s]
  BY DEF SubmitCommits
<1>2. /\ tx[c].step = "insert" /\ Ends(c) /\ erased' = erased
      /\ dsr[d].status = "none"
  BY DEF SubmitCommits, Existing
<1>3. /\ s \in RowType /\ s.status = "submitted" /\ s.exec = "not_started"
      /\ s.requester \in Users
  BY <1>2 DEF IInv, TypeOK, TxType, SubmitsNew, KeyHasRequester
<1> HIDE DEF s
<1>4. /\ dsr' \in [Requests -> RowType] /\ dsr'[d] = s
      /\ \A l \in Requests \ {d} : dsr'[l] = dsr[l]
  BY <1>1, <1>3 DEF IInv, TypeOK
<1>5. \A o \in Clients \ {c} : Executing(o) => dsr'[tx[o].row] = dsr[tx[o].row]
  BY <1>2, <1>4 DEF IInv, ExecutesApproved, Executable
<1>6. \A l \in Requests : dsr[l].status # "none" => dsr'[l].status # "none" /\ dsr'[l].type = dsr[l].type
  BY <1>2, <1>4
<1>7. /\ tx' \in [Clients -> TxType] /\ tx'[c].step = "idle"
      /\ \A o \in Clients \ {c} : tx'[o] = tx[o]
      /\ SubmitsNew' /\ KeysExclusive' /\ DecidesOnSeen' /\ ExecutesApproved' /\ OneExecutor'
  BY <1>2, <1>4, <1>5, <1>6, CommitKeepsOthers
<1>8. TypeOK'
  BY <1>2, <1>4, <1>7 DEF IInv, TypeOK
<1>9. KeyIsNew'
  BY <1>2, <1>3, <1>4, <1>7 DEF IInv, KeyIsNew, KeysExclusive, HoldsNoKeyUpdate, s
<1>10. KeyHasRequester'
  BY <1>3, <1>4, <1>7 DEF IInv, KeyHasRequester
<1>11. OneRequestPerKey'
  BY <1>2, <1>4 DEF IInv, OneRequestPerKey, KeyIsNew, s
<1>12. ApprovedIsAuthorised' /\ ExecutedIsFulfilled'
  BY <1>3, <1>4 DEF IInv, ApprovedIsAuthorised, ExecutedIsFulfilled
<1> QED
  BY <1>7, <1>8, <1>9, <1>10, <1>11, <1>12 DEF IInv

\* A key that expires makes room for another.
LEMMA KeyExpiresKeeps ==
    ASSUME IInv, NEW d \in Requests, KeyExpires(d)
    PROVE  IInv'
<1>1. /\ dsr' = [dsr EXCEPT ![d].key = FALSE] /\ tx' = tx /\ erased' = erased
      /\ dsr[d] \in RowType
  BY DEF KeyExpires, IInv, TypeOK
<1>2. /\ dsr'[d] = [dsr[d] EXCEPT !.key = FALSE]
      /\ \A l \in Requests \ {d} : dsr'[l] = dsr[l]
  BY <1>1 DEF IInv, TypeOK
<1>3. /\ dsr'[d] \in RowType /\ ~dsr'[d].key
      /\ dsr'[d].type = dsr[d].type /\ dsr'[d].status = dsr[d].status
      /\ dsr'[d].exec = dsr[d].exec /\ dsr'[d].rep = dsr[d].rep
      /\ dsr'[d].subject = dsr[d].subject
  <2>1. dsr'[d] \in RowType
    BY <1>1, <1>2, KeyType
  <2>2. ~dsr'[d].key
    BY <1>1, <1>2 DEF RowType
  <2>3. /\ dsr'[d].type = dsr[d].type /\ dsr'[d].status = dsr[d].status
        /\ dsr'[d].exec = dsr[d].exec /\ dsr'[d].rep = dsr[d].rep
        /\ dsr'[d].subject = dsr[d].subject
    BY <1>1, <1>2 DEF RowType
  <2> QED
    BY <2>1, <2>2, <2>3
<1>4. TypeOK'
  BY <1>1, <1>2, <1>3 DEF IInv, TypeOK
<1>5. SubmitsNew' /\ KeysExclusive' /\ KeyIsNew' /\ KeyHasRequester'
  BY <1>1, <1>2, <1>3 DEF IInv, SubmitsNew, KeysExclusive, KeyIsNew, KeyHasRequester, HoldsNoKeyUpdate
<1>6. DecidesOnSeen' /\ ExecutesApproved' /\ OneExecutor'
  BY <1>1, <1>2, <1>3
  DEF IInv, DecidesOnSeen, ExecutesApproved, OneExecutor, Deciding, Executing, Executable
<1>7. OneRequestPerKey'
  BY <1>2, <1>3 DEF IInv, OneRequestPerKey
<1>8. ApprovedIsAuthorised'
  BY <1>2, <1>3 DEF IInv, ApprovedIsAuthorised, Authorised
<1>9. ExecutedIsFulfilled'
  <2>1. ASSUME NEW l \in Requests
        PROVE  /\ dsr'[l].type = dsr[l].type /\ dsr'[l].status = dsr[l].status
               /\ dsr'[l].exec = dsr[l].exec /\ dsr'[l].subject = dsr[l].subject
    BY <1>2, <1>3
  <2> QED
    BY <2>1 DEF IInv, ExecutedIsFulfilled
<1> QED
  BY <1>4, <1>5, <1>6, <1>7, <1>8, <1>9 DEF IInv

\* Facts a commit on a row of its own uses: rows other than d are the same, and d keeps
\* its key, its links and its type.
LEMMA DecisionKeeps ==
    ASSUME IInv, NEW c \in Clients, NEW d \in Requests, NEW r \in RowType,
           Ends(c), erased' = erased, dsr' = [dsr EXCEPT ![d] = r],
           dsr[d].status # "none", r.status # "none",
           r.type = dsr[d].type, r.requester = dsr[d].requester, r.key = dsr[d].key,
           r.subject = dsr[d].subject,
           \A o \in Clients \ {c} : ~(Executing(o) /\ tx[o].row = d),
           r.status \in {"approved", "fulfilled"} => Authorised(r),
           r.type = "erase" => /\ r.exec = "ready" <=> r.status = "fulfilled"
                               /\ r.exec = "ready" => r.subject = Null
    PROVE  IInv'
<1>1. /\ dsr' \in [Requests -> RowType] /\ dsr'[d] = r
      /\ \A l \in Requests \ {d} : dsr'[l] = dsr[l]
  BY DEF IInv, TypeOK
<1>2. \A o \in Clients \ {c} : Executing(o) => dsr'[tx[o].row] = dsr[tx[o].row]
  BY <1>1 DEF IInv, ExecutesApproved
<1>3. \A l \in Requests : dsr[l].status # "none" => dsr'[l].status # "none" /\ dsr'[l].type = dsr[l].type
  BY <1>1
<1>4. /\ tx' \in [Clients -> TxType] /\ tx'[c].step = "idle"
      /\ \A o \in Clients \ {c} : tx'[o] = tx[o]
      /\ SubmitsNew' /\ KeysExclusive' /\ DecidesOnSeen' /\ ExecutesApproved' /\ OneExecutor'
  BY <1>1, <1>2, <1>3, CommitKeepsOthers
<1>5. TypeOK'
  BY <1>1, <1>4 DEF IInv, TypeOK
<1>6. \A l \in Requests : dsr'[l].key = dsr[l].key /\ dsr'[l].requester = dsr[l].requester
  BY <1>1
<1>7. KeyIsNew' /\ KeyHasRequester'
  BY <1>4, <1>6 DEF IInv, KeyIsNew, KeyHasRequester
<1>8. OneRequestPerKey'
  BY <1>6 DEF IInv, OneRequestPerKey
<1>9. ApprovedIsAuthorised'
  BY <1>1 DEF IInv, ApprovedIsAuthorised
<1>10. ExecutedIsFulfilled'
  BY <1>1 DEF IInv, ExecutedIsFulfilled
<1> QED
  BY <1>4, <1>5, <1>7, <1>8, <1>9, <1>10 DEF IInv

\* A decision commits, unless the status or the authority has changed.
LEMMA TransitionCommitsKeeps ==
    ASSUME IInv, NEW c \in Clients, TransitionCommits(c)
    PROVE  IInv'
<1> DEFINE d == tx[c].row
           s == tx[c].seen.status
           to == tx[c].to
           r == [dsr[d] EXCEPT !.status = to]
<1>1. /\ tx[c].step = "move" /\ Ends(c) /\ erased' = erased
      /\ \A o \in Clients \ {c} : ~(Executing(o) /\ tx[o].row = d)
  BY DEF TransitionCommits, RowFree, Executing
<1>2. /\ d \in Requests /\ dsr[d] \in RowType /\ dsr[d].status # "none"
      /\ to \in AllowedTransitions(s)
      /\ to = "fulfilled" => dsr[d].type # "erase"
  BY <1>1 DEF IInv, TypeOK, DecidesOnSeen, Deciding
<1>3. CASE StillMoves(dsr[d], tx[c].seen, to)
  <2>1. /\ dsr[d].status = s
        /\ to = "approved" => Authorised(dsr[d])
    BY <1>3 DEF StillMoves
  <2>2. /\ s \in {"submitted", "under_review", "approved"}
        /\ to \in {"under_review", "approved", "rejected", "fulfilled", "cancelled"}
        /\ to = "fulfilled" => s = "approved"
    BY <1>2, Transitions
  <2>3. /\ r \in RowType /\ r.status = to /\ r.type = dsr[d].type /\ r.exec = dsr[d].exec
        /\ r.rep = dsr[d].rep /\ r.requester = dsr[d].requester /\ r.subject = dsr[d].subject
        /\ r.key = dsr[d].key
    BY <1>2, <2>2 DEF RowType, Statuses, Final
  <2>4. dsr' = [dsr EXCEPT ![d] = r]
    BY <1>2, <1>3 DEF TransitionCommits
  <2> HIDE DEF r
  <2>5. r.status \in {"approved", "fulfilled"} => Authorised(r)
    BY <1>2, <2>1, <2>2, <2>3 DEF IInv, ApprovedIsAuthorised, Authorised
  <2>6. r.type = "erase" => /\ r.exec = "ready" <=> r.status = "fulfilled"
                            /\ r.exec = "ready" => r.subject = Null
    BY <1>2, <2>1, <2>2, <2>3 DEF IInv, ExecutedIsFulfilled
  <2> QED
    BY <1>1, <1>2, <2>2, <2>3, <2>4, <2>5, <2>6, DecisionKeeps
<1>4. CASE ~StillMoves(dsr[d], tx[c].seen, to)
  BY <1>1, <1>4, EndsKeeps DEF TransitionCommits
<1> QED
  BY <1>3, <1>4

\* The authority changes only while the request can be reviewed.
LEMMA AuthorityCommitsKeeps ==
    ASSUME IInv, NEW c \in Clients, AuthorityCommits(c)
    PROVE  IInv'
<1> DEFINE d == tx[c].row
           r == [dsr[d] EXCEPT !.rep = tx[c].to]
<1>1. /\ tx[c].step = "authority" /\ Ends(c) /\ erased' = erased
      /\ \A o \in Clients \ {c} : ~(Executing(o) /\ tx[o].row = d)
  BY DEF AuthorityCommits, RowFree, Executing
<1>2. /\ d \in Requests /\ dsr[d] \in RowType /\ dsr[d].status # "none"
      /\ tx[c].seen.status \in {"submitted", "under_review"} /\ tx[c].to \in {"verified", "rejected"}
  BY <1>1 DEF IInv, TypeOK, DecidesOnSeen, Deciding, Reviewable
<1>3. CASE StillReviews(dsr[d], tx[c].seen)
  <2>1. dsr[d].status \in {"submitted", "under_review"}
    BY <1>2, <1>3 DEF StillReviews
  <2>2. /\ r \in RowType /\ r.status = dsr[d].status /\ r.type = dsr[d].type
        /\ r.exec = dsr[d].exec /\ r.requester = dsr[d].requester /\ r.subject = dsr[d].subject
        /\ r.key = dsr[d].key
    BY <1>2 DEF RowType
  <2>3. dsr' = [dsr EXCEPT ![d] = r]
    BY <1>2, <1>3 DEF AuthorityCommits
  <2> HIDE DEF r
  <2>4. r.status \in {"approved", "fulfilled"} => Authorised(r)
    BY <2>1, <2>2
  <2>5. r.type = "erase" => /\ r.exec = "ready" <=> r.status = "fulfilled"
                            /\ r.exec = "ready" => r.subject = Null
    BY <1>2, <2>2 DEF IInv, ExecutedIsFulfilled
  <2> QED
    BY <1>1, <1>2, <2>2, <2>3, <2>4, <2>5, DecisionKeeps
<1>4. CASE ~StillReviews(dsr[d], tx[c].seen)
  BY <1>1, <1>4, EndsKeeps DEF AuthorityCommits
<1> QED
  BY <1>3, <1>4

\* A failure is recorded on the approved request.
LEMMA EraseFailsKeeps ==
    ASSUME IInv, NEW c \in Clients, EraseFails(c)
    PROVE  IInv'
<1> DEFINE d == tx[c].row
           r == [dsr[d] EXCEPT !.exec = "failed"]
<1>1. Executing(c) /\ Ends(c) /\ erased' = erased
  BY DEF EraseFails, Executing
<1>2. /\ d \in Requests /\ dsr[d] \in RowType
      /\ dsr[d].status = "approved"
      /\ \A o \in Clients \ {c} : ~(Executing(o) /\ tx[o].row = d)
  BY <1>1 DEF IInv, TypeOK, ExecutesApproved, Executable, OneExecutor
<1>3. /\ r \in RowType /\ r.status = dsr[d].status /\ r.type = dsr[d].type
      /\ r.exec = "failed" /\ r.requester = dsr[d].requester /\ r.subject = dsr[d].subject
      /\ r.key = dsr[d].key /\ r.rep = dsr[d].rep
  BY <1>2 DEF RowType
<1>4. dsr' = [dsr EXCEPT ![d] = r]
  BY <1>2 DEF EraseFails, MarkedFailed
<1> HIDE DEF r
<1>5. r.status \in {"approved", "fulfilled"} => Authorised(r)
  BY <1>2, <1>3 DEF IInv, ApprovedIsAuthorised, Authorised
<1> QED
  BY <1>1, <1>2, <1>3, <1>4, <1>5, DecisionKeeps

\* What unlinking a row changes.
LEMMA UnlinkedFacts ==
    ASSUME NEW r \in RowType, NEW u
    PROVE  /\ Unlinked(r, u) \in RowType /\ ~Unlinked(r, u).key
           /\ Unlinked(r, u).type = r.type /\ Unlinked(r, u).status = r.status
           /\ Unlinked(r, u).exec = r.exec /\ Unlinked(r, u).rep = r.rep
           /\ Unlinked(r, u).subject \in {r.subject, Null}
           /\ r.subject = u => Unlinked(r, u).subject = Null
<1> DEFINE q == [r EXCEPT !.requester = IF @ = u THEN Null ELSE @,
                          !.subject = IF @ = u THEN Null ELSE @]
<1>1. /\ q \in RowType
      /\ q.type = r.type /\ q.status = r.status /\ q.exec = r.exec /\ q.rep = r.rep
      /\ q.subject \in {r.subject, Null}
      /\ r.subject = u => q.subject = Null
  BY DEF RowType
<1>2. Unlinked(r, u) = [q EXCEPT !.key = FALSE]
  BY DEF Unlinked
<1> HIDE DEF q
<1>3. Unlinked(r, u) \in RowType
  BY <1>1, <1>2, KeyType
<1>4. ~Unlinked(r, u).key
  BY <1>1, <1>2 DEF RowType
<1>5. /\ Unlinked(r, u).type = q.type /\ Unlinked(r, u).status = q.status
      /\ Unlinked(r, u).exec = q.exec /\ Unlinked(r, u).rep = q.rep
      /\ Unlinked(r, u).subject = q.subject
  BY <1>1, <1>2 DEF RowType
<1> QED
  BY <1>1, <1>3, <1>4, <1>5

\* The row of an executed erasure.
LEMMA FulfilledFacts ==
    ASSUME NEW q \in RowType, q.status = "approved"
    PROVE  LET r == Fulfilled([q EXCEPT !.exec = "ready"]) IN
           /\ r \in RowType /\ r.status = "fulfilled" /\ r.exec = "ready"
           /\ r.type = q.type /\ r.rep = q.rep /\ r.subject = q.subject
           /\ r.key = q.key
  BY DEF Fulfilled, RowType, Statuses, Final

\* An erasure commits: its request is fulfilled and no row names the subject.
LEMMA EraseCommitsKeeps ==
    ASSUME IInv, NEW c \in Clients, EraseCommits(c)
    PROVE  IInv'
<1> DEFINE d == tx[c].row
           u == dsr[d].subject
           q == Unlinked(dsr[d], u)
           r == Fulfilled([q EXCEPT !.exec = "ready"])
<1>1. /\ Executing(c) /\ Ends(c) /\ erased' = erased \cup {u}
      /\ \A l \in LinkedTo(u) : \A o \in Clients \ {c} : ~(Executing(o) /\ tx[o].row = l)
  BY DEF EraseCommits, RowFree, Executing
<1>2. /\ d \in Requests /\ dsr[d] \in RowType /\ u \in Users
      /\ dsr[d].status = "approved" /\ dsr[d].type = "erase"
      /\ \A o \in Clients \ {c} : ~(Executing(o) /\ tx[o].row = d)
  BY <1>1 DEF IInv, TypeOK, RowType, ExecutesApproved, Executable, OneExecutor
<1>3. dsr' = [l \in Requests |-> IF l = d THEN r
                                 ELSE IF l \in LinkedTo(u) THEN Unlinked(dsr[l], u) ELSE dsr[l]]
  BY DEF EraseCommits
<1>4. /\ r \in RowType /\ ~r.key /\ r.type = "erase" /\ r.status = "fulfilled"
      /\ r.exec = "ready" /\ r.rep = dsr[d].rep /\ r.subject = Null
  BY <1>2, UnlinkedFacts, FulfilledFacts
<1> HIDE DEF r
<1>5. dsr'[d] = r
  BY <1>2, <1>3
<1>6. ASSUME NEW l \in Requests \ {d}
      PROVE  \/ dsr'[l] = dsr[l]
             \/ /\ l \in LinkedTo(u) /\ dsr'[l] \in RowType /\ ~dsr'[l].key
                /\ dsr'[l].type = dsr[l].type /\ dsr'[l].status = dsr[l].status
                /\ dsr'[l].exec = dsr[l].exec /\ dsr'[l].rep = dsr[l].rep
                /\ dsr'[l].subject \in {dsr[l].subject, Null}
  BY <1>3, UnlinkedFacts DEF IInv, TypeOK
<1>7. dsr' \in [Requests -> RowType]
  BY <1>3, <1>4, UnlinkedFacts DEF IInv, TypeOK
<1>8. \A o \in Clients \ {c} : Executing(o) => dsr'[tx[o].row] = dsr[tx[o].row]
  BY <1>1, <1>2, <1>6 DEF IInv, ExecutesApproved
<1>9. \A l \in Requests : dsr[l].status # "none" => dsr'[l].status # "none" /\ dsr'[l].type = dsr[l].type
  BY <1>2, <1>4, <1>5, <1>6
<1>10. /\ tx' \in [Clients -> TxType] /\ tx'[c].step = "idle"
       /\ \A o \in Clients \ {c} : tx'[o] = tx[o]
       /\ SubmitsNew' /\ KeysExclusive' /\ DecidesOnSeen' /\ ExecutesApproved' /\ OneExecutor'
  BY <1>1, <1>7, <1>8, <1>9, CommitKeepsOthers
<1>11. TypeOK'
  BY <1>1, <1>2, <1>7, <1>10 DEF IInv, TypeOK
<1>12. \A l \in Requests : dsr'[l].key => dsr'[l] = dsr[l]
  BY <1>4, <1>5, <1>6
<1>13. KeyIsNew'
  BY <1>10, <1>12 DEF IInv, KeyIsNew
<1>14. KeyHasRequester'
  BY <1>10, <1>12 DEF IInv, KeyHasRequester
<1>15. OneRequestPerKey'
  BY <1>12 DEF IInv, OneRequestPerKey
<1>16. ApprovedIsAuthorised'
  BY <1>2, <1>4, <1>5, <1>6 DEF IInv, ApprovedIsAuthorised, Authorised
<1>17. ExecutedIsFulfilled'
  BY <1>4, <1>5, <1>6 DEF IInv, ExecutedIsFulfilled
<1> QED
  BY <1>10, <1>11, <1>13, <1>14, <1>15, <1>16, <1>17 DEF IInv

-------------------------------------------------------------------------------
\* Every step of a transaction keeps the invariant.
LEMMA NextKeeps == IInv /\ [Next]_vars => IInv'
<1> SUFFICES ASSUME IInv, [Next]_vars PROVE IInv'
  OBVIOUS
<1>1. ASSUME NEW c \in Clients, Step(c) PROVE IInv'
  <2>1. ASSUME NEW type \in Types, NEW by \in Users, NEW of \in Users, NEW keyed \in BOOLEAN,
               SubmitStarts(c, type, by, of, keyed)
        PROVE  IInv'
    BY <2>1, SubmitStartsKeeps
  <2>2. ASSUME NEW d \in Requests, NEW to \in Statuses, TransitionReads(c, d, to)
        PROVE  IInv'
    BY <2>2, TransitionReadsKeeps
  <2>3. ASSUME NEW d \in Requests, NEW to \in {"verified", "rejected"}, AuthorityReads(c, d, to)
        PROVE  IInv'
    BY <2>3, AuthorityReadsKeeps
  <2>4. ASSUME NEW e \in Staff, NEW d \in Requests, EraseBegins(c, e, d)
        PROVE  IInv'
    BY <2>4, EraseBeginsKeeps
  <2>5. CASE SubmitLocks(c)
    BY <2>5, SubmitLocksKeeps
  <2>6. CASE SubmitCommits(c)
    BY <2>6, SubmitCommitsKeeps
  <2>7. CASE TransitionCommits(c)
    BY <2>7, TransitionCommitsKeeps
  <2>8. CASE AuthorityCommits(c)
    BY <2>8, AuthorityCommitsKeeps
  <2>9. CASE EraseLocks(c)
    BY <2>9, EraseLocksKeeps
  <2>10. CASE EraseCommits(c)
    BY <2>10, EraseCommitsKeeps
  <2>11. CASE EraseFails(c)
    BY <2>11, EraseFailsKeeps
  <2>12. CASE Aborts(c)
    BY <2>12, EndsKeeps DEF Aborts
  <2> QED
    BY <1>1, <2>1, <2>2, <2>3, <2>4, <2>5, <2>6, <2>7, <2>8, <2>9, <2>10, <2>11, <2>12 DEF Step
<1>2. ASSUME NEW d \in Requests, KeyExpires(d) PROVE IInv'
  BY <1>2, KeyExpiresKeeps
<1>3. CASE UNCHANGED vars
  BY <1>3 DEF vars, IInv, TypeOK, SubmitsNew, KeysExclusive, KeyIsNew, KeyHasRequester, DecidesOnSeen,
     ExecutesApproved, OneExecutor, OneRequestPerKey, ApprovedIsAuthorised, ExecutedIsFulfilled,
     Executing, Deciding, HoldsNoKeyUpdate
<1> QED
  BY <1>1, <1>2, <1>3 DEF Next

\* A step leaves a final status alone: no decision starts from one, an execution
\* starts from an approved request, and a submission takes a row that is not there yet.
LEMMA NextKeepsFinal ==
    ASSUME IInv, [Next]_vars, NEW d \in Requests, dsr[d].status \in Final
    PROVE  dsr'[d].status = dsr[d].status
<1>1. dsr \in [Requests -> RowType]
  BY DEF IInv, TypeOK
<1>2. ASSUME NEW c \in Clients, SubmitCommits(c) PROVE dsr'[d].status = dsr[d].status
  BY <1>1, <1>2 DEF SubmitCommits, Existing, Final
<1>3. ASSUME NEW c \in Clients, TransitionCommits(c) PROVE dsr'[d].status = dsr[d].status
  <2>1. CASE tx[c].row = d /\ StillMoves(dsr[d], tx[c].seen, tx[c].to)
    <3>1. tx[c].to \in AllowedTransitions(dsr[d].status)
      BY <1>3, <2>1 DEF TransitionCommits, StillMoves, IInv, DecidesOnSeen, Deciding
    <3> QED
      BY <3>1, Transitions DEF Final
  <2>2. CASE ~(tx[c].row = d /\ StillMoves(dsr[d], tx[c].seen, tx[c].to))
    BY <1>1, <1>3, <2>2 DEF TransitionCommits
  <2> QED
    BY <2>1, <2>2
<1>4. ASSUME NEW c \in Clients, AuthorityCommits(c) PROVE dsr'[d].status = dsr[d].status
  BY <1>1, <1>4 DEF AuthorityCommits, RowType
<1>5. ASSUME NEW c \in Clients, EraseCommits(c) PROVE dsr'[d].status = dsr[d].status
  <2>1. dsr[tx[c].row].status = "approved"
    BY <1>5 DEF EraseCommits, IInv, ExecutesApproved, Executing, Executable
  <2>2. d # tx[c].row
    BY <2>1 DEF Final
  <2> QED
    BY <1>1, <1>5, <2>2, UnlinkedFacts DEF EraseCommits
<1>6. ASSUME NEW c \in Clients, EraseFails(c) PROVE dsr'[d].status = dsr[d].status
  BY <1>1, <1>6 DEF EraseFails, MarkedFailed, RowType
<1>7. ASSUME NEW l \in Requests, KeyExpires(l) PROVE dsr'[d].status = dsr[d].status
  BY <1>1, <1>7 DEF KeyExpires, RowType
<1>8. CASE UNCHANGED vars
  BY <1>8 DEF vars
<1> QED
  BY <1>2, <1>3, <1>4, <1>5, <1>6, <1>7, <1>8 DEF Next, Step, SubmitStarts, SubmitLocks,
     TransitionReads, AuthorityReads, EraseBegins, EraseLocks, Aborts

\* The inductive invariant holds in every reachable state.
THEOREM Invariance == Spec => []IInv
<1> QED
  BY InitHolds, NextKeeps, PTL DEF Spec

\* No transaction leaves a value outside its type behind; in particular no committed
\* request is in execution_status processing (orchestrator.py).
THEOREM RequestsTyped == Spec => []TypeOK
<1>1. IInv => TypeOK
  BY DEF IInv
<1> QED
  BY Invariance, <1>1, PTL

\* However many submissions of a requester race, a live key belongs to one request
\* (submit_request, lock_requester_for_idempotency).
THEOREM KeyedOnce == Spec => []OneRequestPerKey
<1>1. IInv => OneRequestPerKey
  BY DEF IInv
<1> QED
  BY Invariance, <1>1, PTL

\* Approval implies authority, whatever reviewers do at the same time
\* (transition_status_if_current, update_representative_authority_if_current).
THEOREM Authority == Spec => []ApprovedIsAuthorised
<1>1. IInv => ApprovedIsAuthorised
  BY DEF IInv
<1> QED
  BY Invariance, <1>1, PTL

\* Execution and fulfilment of an erasure happen together
\* (execute_approved_erasure_request_by_platform_staff).
THEOREM ExecutionFulfils == Spec => []ExecutedIsFulfilled
<1>1. IInv => ExecutedIsFulfilled
  BY DEF IInv
<1> QED
  BY Invariance, <1>1, PTL

\* Rejected, fulfilled and cancelled requests stay so (_ALLOWED_TRANSITIONS).
THEOREM FinalForever == Spec => FinalStays
<1>1. IInv /\ [Next]_vars =>
        [\A d \in Requests : dsr[d].status \in Final => dsr'[d].status = dsr[d].status]_vars
  BY NextKeepsFinal
<1> QED
  BY Invariance, <1>1, PTL DEF Spec, FinalStays
===============================================================================
