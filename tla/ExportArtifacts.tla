---------------------------- MODULE ExportArtifacts ----------------------------
(***************************************************************************)
(* The export artifacts of one data subject (app/privacy): the worker that *)
(* generates archives under a lease, the reservation protocol by which it  *)
(* publishes them to storage, the retention pass that purges storage, and  *)
(* the erasure of the subject.                                             *)
(*                                                                         *)
(* A transaction that begins with SELECT ... FOR UPDATE or consists of one *)
(* conditional UPDATE is one action; storage is called between             *)
(* transactions, and every adapter call is atomic (a file lock, or a       *)
(* conditional request on the key). The heartbeat and the expiry pass read *)
(* a row without a lock and write it afterwards: they are two actions.     *)
(*                                                                         *)
(* Abstractions: a processing token is the number of the claim it belongs  *)
(* to, and a storage key the number of the claim that generated it (a      *)
(* claim commits at most one new key); an object at a key holds the bytes  *)
(* whose checksum was committed with the key. The lease of a row that is   *)
(* not processing is "none": no statement reads it. Audit rows, download   *)
(* links and the execution state of the request are not here.              *)
(***************************************************************************)
EXTENDS Naturals, FiniteSets

CONSTANTS
    Artifacts,
    Workers,        \* privacy-export-worker processes
    Purgers,        \* retention passes, one purge or expiry each at a time
    BatchSize,      \* --batch-size of the worker
    MaxClaims,      \* bound: claims of one artifact
    NoArtifact

ASSUME ExportAssumption ==
    /\ MaxClaims \in Nat \ {0}
    /\ BatchSize \in Nat
    /\ NoArtifact \notin Artifacts

Claims == 1 .. MaxClaims

VARIABLES
    status, token, lease, key,  \* columns of export_artifacts
    claims,                     \* claims of the artifact so far
    store,                      \* what storage holds under each key
    late,                       \* conditional PUTs still on their way, sender gone
    wPc, wArt, wTok, wKey,      \* workers: step, artifact, token, prepared key
    wBatch, wBeat,              \* leases not begun yet; heartbeat between read and write
    pPc, pArt, pStatus, pKey,   \* retention passes: step and snapshot
    erased, deferred            \* the subject is erased; deletions after its commit

rowVars == <<status, token, lease, key, claims>>
storeVars == <<store, late>>
wVars == <<wPc, wArt, wTok, wKey, wBatch, wBeat>>
pVars == <<pPc, pArt, pStatus, pKey>>
eVars == <<erased, deferred>>
vars == <<rowVars, storeVars, wVars, pVars, eVars>>

\* Not downloadable, and the storage key only marks what is to be purged.
Closed == {"failed", "expired", "cancelled"}

Init ==
    /\ status = [a \in Artifacts |-> "none"]
    /\ token = [a \in Artifacts |-> 0]
    /\ lease = [a \in Artifacts |-> "none"]
    /\ key = [a \in Artifacts |-> 0]
    /\ claims = [a \in Artifacts |-> 0]
    /\ store = [a \in Artifacts |-> [k \in Claims |-> "missing"]]
    /\ late = [a \in Artifacts |-> {}]
    /\ wPc = [w \in Workers |-> "idle"]
    /\ wArt = [w \in Workers |-> NoArtifact]
    /\ wTok = [w \in Workers |-> 0]
    /\ wKey = [w \in Workers |-> 0]
    /\ wBatch = [w \in Workers |-> {}]
    /\ wBeat = [w \in Workers |-> FALSE]
    /\ pPc = [p \in Purgers |-> "idle"]
    /\ pArt = [p \in Purgers |-> NoArtifact]
    /\ pStatus = [p \in Purgers |-> "none"]
    /\ pKey = [p \in Purgers |-> 0]
    /\ erased = FALSE
    /\ deferred = {}

-------------------------------------------------------------------------------
(* Rows.                                                                   *)

\* get_processing_by_token.
Own(w) == status[wArt[w]] = "processing" /\ token[wArt[w]] = wTok[w]

\* Variant: the key alone is compared.
SameKey(w) == key[wArt[w]] = wKey[w]

\* get_active_processing_upload_intent: token, live lease and key.
ActiveIntent(w) ==
    Own(w) /\ lease[wArt[w]] = "live" /\ key[wArt[w]] = wKey[w]

\* Worker w goes to step pc with prepared key k, on the same lease.
Goes(w, pc, k) ==
    /\ wPc' = [wPc EXCEPT ![w] = pc]
    /\ wKey' = [wKey EXCEPT ![w] = k]
    /\ UNCHANGED <<wArt, wTok, wBatch, wBeat>>

\* Worker w is done with its artifact and goes on with batch; its heartbeat is
\* cancelled.
Finishes(w, batch) ==
    /\ wPc' = [wPc EXCEPT ![w] = "idle"]
    /\ wArt' = [wArt EXCEPT ![w] = NoArtifact]
    /\ wTok' = [wTok EXCEPT ![w] = 0]
    /\ wKey' = [wKey EXCEPT ![w] = 0]
    /\ wBatch' = [wBatch EXCEPT ![w] = batch]
    /\ wBeat' = [wBeat EXCEPT ![w] = FALSE]

\* The artifact leaves processing with status s.
Leaves(a, s) ==
    /\ status' = [status EXCEPT ![a] = s]
    /\ token' = [token EXCEPT ![a] = 0]
    /\ lease' = [lease EXCEPT ![a] = "none"]
    /\ UNCHANGED claims

StoreAt(a, k, s) == store' = [store EXCEPT ![a][k] = s]

\* request_export_artifact: staff ask for an artifact of an approved request. The
\* request may have been read before the subject was erased.
Request(a) ==
    /\ status[a] = "none"
    /\ status' = [status EXCEPT ![a] = "queued"]
    /\ UNCHANGED <<token, lease, key, claims, storeVars, wVars, pVars, eVars>>

LeaseLapses(a) ==
    /\ lease[a] = "live"
    /\ lease' = [lease EXCEPT ![a] = "lapsed"]
    /\ UNCHANGED <<status, token, key, claims, storeVars, wVars, pVars, eVars>>

-------------------------------------------------------------------------------
(* The worker: claim leases, then process them one after the other.        *)

Stale(a) == status[a] = "processing" /\ lease[a] = "lapsed"

\* A claimed row gets a new token, a row that is only recovered loses its own.
SetTokens(R, C) ==
    token' = [a \in Artifacts |->
                IF a \in C THEN claims[a] + 1 ELSE IF a \in R THEN 0 ELSE token[a]]

\* claim_queued_artifact_leases: stale leases R are recovered, then leases on
\* queued rows C are taken, in one transaction that skips locked rows.
Claim(w, R, C) ==
    /\ wPc[w] = "idle" /\ wBatch[w] = {}
    /\ R \cup C # {}
    /\ Cardinality(R) <= BatchSize /\ Cardinality(C) <= BatchSize
    /\ \A a \in R : Stale(a)
    /\ \A a \in C : (status[a] = "queued" \/ a \in R) /\ claims[a] < MaxClaims
    /\ status' = [a \in Artifacts |->
                    IF a \in C THEN "processing" ELSE IF a \in R THEN "queued" ELSE status[a]]
    /\ SetTokens(R, C)
    /\ lease' = [a \in Artifacts |->
                   IF a \in C THEN "live" ELSE IF a \in R THEN "none" ELSE lease[a]]
    /\ claims' = [a \in Artifacts |-> IF a \in C THEN claims[a] + 1 ELSE claims[a]]
    /\ wBatch' = [wBatch EXCEPT ![w] = {<<a, claims[a] + 1>> : a \in C}]
    /\ UNCHANGED <<key, storeVars, wPc, wArt, wTok, wKey, wBeat, pVars, eVars>>

\* _process_artifact begins; the other leases of the batch have no heartbeat.
Start(w, a, t) ==
    /\ wPc[w] = "idle" /\ <<a, t>> \in wBatch[w]
    /\ wPc' = [wPc EXCEPT ![w] = "prepare"]
    /\ wArt' = [wArt EXCEPT ![w] = a]
    /\ wTok' = [wTok EXCEPT ![w] = t]
    /\ wBatch' = [wBatch EXCEPT ![w] = @ \ {<<a, t>>}]
    /\ UNCHANGED <<rowVars, storeVars, wKey, wBeat, pVars, eVars>>

Preparing(w) == wPc[w] \in {"prepare", "again"}

\* The request still names its participants, which the erasure unlinks.
Eligible == ~erased

\* prepare_export_archive generates an archive and commits its key, if the lease
\* is live.
PrepareFresh(w) ==
    /\ Preparing(w)
    /\ Eligible
    /\ ActiveIntent(w) /\ wKey[w] = 0
    /\ key' = [key EXCEPT ![wArt[w]] = wTok[w]]
    /\ Goes(w, "reserve", wTok[w])
    /\ UNCHANGED <<status, token, lease, claims, storeVars, pVars, eVars>>

\* An earlier lease committed a key: nothing is generated. Only the first
\* preparation is followed by a look at storage.
PrepareReuses(w) ==
    /\ Preparing(w)
    /\ Eligible
    /\ Own(w) /\ key[wArt[w]] # 0
    /\ Goes(w, IF wPc[w] = "prepare" THEN "inspect" ELSE "ready", key[wArt[w]])
    /\ UNCHANGED <<rowVars, storeVars, pVars, eVars>>

\* Any exception but "storage state unknown": no such lease, not eligible, too
\* large, an error of the generation, of a statement or of storage.
Raises(w) ==
    /\ wPc[w] \in {"prepare", "again", "inspect", "fence", "sweep", "reset", "validate", "ready"}
    /\ Goes(w, IF wPc[w] = "validate" THEN "cancel" ELSE "fail", wKey[w])
    /\ UNCHANGED <<rowVars, storeVars, pVars, eVars>>

\* Variant: whatever is stored under the key counts, a reservation too.
AnythingStored(a, k) == store[a][k] # "missing"

\* What is stored has the size and the checksum of the archive.
Matches(a, k) == store[a][k] = "object"

\* inspect_file of the committed key.
Inspect(w) ==
    /\ wPc[w] = "inspect"
    /\ Goes(w, IF Matches(wArt[w], wKey[w]) THEN "ready" ELSE "fence", wKey[w])
    /\ UNCHANGED <<rowVars, storeVars, pVars, eVars>>

\* _reset_committed_export_upload_intent, in three steps: validate,
Fence(w) ==
    /\ wPc[w] = "fence"
    /\ Goes(w, IF ActiveIntent(w) THEN "sweep" ELSE "fail", wKey[w])
    /\ UNCHANGED <<rowVars, storeVars, pVars, eVars>>

\* delete_file_if_not_matching,
Sweep(w) ==
    /\ wPc[w] = "sweep"
    /\ IF Matches(wArt[w], wKey[w])
       THEN store' = store /\ Goes(w, "ready", wKey[w])
       ELSE StoreAt(wArt[w], wKey[w], "missing") /\ Goes(w, "reset", wKey[w])
    /\ UNCHANGED <<rowVars, late, pVars, eVars>>

\* and the conditional UPDATE that forgets the key.
Reset(w) ==
    /\ wPc[w] = "reset"
    /\ IF ActiveIntent(w)
       THEN key' = [key EXCEPT ![wArt[w]] = 0] /\ Goes(w, "again", 0)
       ELSE key' = key /\ Goes(w, "fail", wKey[w])
    /\ UNCHANGED <<status, token, lease, claims, storeVars, pVars, eVars>>

-------------------------------------------------------------------------------
(* _write_export_archive: reserve, validate, publish.                      *)

\* Nothing is stored under the key: If-None-Match, or rename to a new directory.
Unused(a, k) == store[a][k] = "missing"

Reserve(w) ==
    /\ wPc[w] = "reserve"
    /\ Unused(wArt[w], wKey[w])
    /\ StoreAt(wArt[w], wKey[w], "reserved")
    /\ Goes(w, "validate", wKey[w])
    /\ UNCHANGED <<rowVars, late, pVars, eVars>>

\* The marker may be there although the call raised; there is no reservation to
\* cancel.
ReserveFails(w) ==
    /\ wPc[w] = "reserve"
    /\ \/ store' = store
       \/ Unused(wArt[w], wKey[w]) /\ StoreAt(wArt[w], wKey[w], "reserved")
    /\ Goes(w, "fail", wKey[w])
    /\ UNCHANGED <<rowVars, late, pVars, eVars>>

Validate(w) ==
    /\ wPc[w] = "validate"
    /\ Goes(w, IF ActiveIntent(w) THEN "publish" ELSE "cancel", wKey[w])
    /\ UNCHANGED <<rowVars, storeVars, pVars, eVars>>

\* The reservation is still there: an owner file, or the revision for If-Match.
Reserved(a, k) == store[a][k] = "reserved"

Publish(w) ==
    /\ wPc[w] = "publish"
    /\ IF Reserved(wArt[w], wKey[w])
       THEN StoreAt(wArt[w], wKey[w], "object") /\ Goes(w, "ready", wKey[w])
       ELSE store' = store /\ Goes(w, "cancel", wKey[w])
    /\ UNCHANGED <<rowVars, late, pVars, eVars>>

\* The PUT is not acknowledged and may still be on its way.
MaybeLate(w) == late' = late \/ late' = [late EXCEPT ![wArt[w]] = @ \cup {wKey[w]}]

PublishFails(w) ==
    /\ wPc[w] = "publish"
    /\ MaybeLate(w)
    /\ Goes(w, "cancel", wKey[w])
    /\ UNCHANGED <<rowVars, store, pVars, eVars>>

\* A conditional PUT arrives after its sender gave up.
LateArrives(a, k) ==
    /\ k \in late[a]
    /\ late' = [late EXCEPT ![a] = @ \ {k}]
    /\ IF Reserved(a, k) THEN StoreAt(a, k, "object") ELSE store' = store
    /\ UNCHANGED <<rowVars, wVars, pVars, eVars>>

\* cancel_file_publication removes a reservation, never an object; it may raise.
Cancel(w) ==
    /\ wPc[w] = "cancel"
    /\ \/ Reserved(wArt[w], wKey[w]) /\ StoreAt(wArt[w], wKey[w], "missing")
       \/ store' = store
    /\ Goes(w, "fail", wKey[w])
    /\ UNCHANGED <<rowVars, late, pVars, eVars>>

-------------------------------------------------------------------------------
(* The end of _process_artifact.                                           *)

\* The locked row is still this lease's and still names the prepared archive.
MayMarkReady(w) == Own(w) /\ key[wArt[w]] = wKey[w]

MarkReady(w) ==
    /\ wPc[w] = "ready"
    /\ IF MayMarkReady(w)
       THEN Leaves(wArt[w], "ready") /\ Finishes(w, wBatch[w])
       ELSE UNCHANGED <<status, token, lease, claims>> /\ Goes(w, "fail", wKey[w])
    /\ UNCHANGED <<key, storeVars, pVars, eVars>>

\* _mark_export_failed: a lease that is gone changes nothing.
MarkFailed(w) ==
    /\ wPc[w] = "fail"
    /\ IF Own(w)
       THEN /\ Leaves(wArt[w], "failed")
            /\ IF key[wArt[w]] = 0 THEN Finishes(w, wBatch[w])
               ELSE Goes(w, "wipe", key[wArt[w]])
       ELSE UNCHANGED <<status, token, lease, claims>> /\ Finishes(w, wBatch[w])
    /\ UNCHANGED <<key, storeVars, pVars, eVars>>

Wipe(w) ==
    /\ wPc[w] = "wipe"
    /\ StoreAt(wArt[w], wKey[w], "missing")
    /\ Goes(w, "clear", wKey[w])
    /\ UNCHANGED <<rowVars, late, pVars, eVars>>

\* clear_failed_export_storage_metadata.
Clear(w) ==
    /\ wPc[w] = "clear"
    /\ key' = IF status[wArt[w]] = "failed" /\ key[wArt[w]] = wKey[w]
              THEN [key EXCEPT ![wArt[w]] = 0] ELSE key
    /\ Finishes(w, wBatch[w])
    /\ UNCHANGED <<status, token, lease, claims, storeVars, pVars, eVars>>

\* Steps whose errors end the processing of this artifact and are only logged:
\* a failed cleanup, and storage that cannot say what it holds, with the request
\* carried out or not.
GivesUp(w) ==
    /\ wPc[w] \in {"inspect", "sweep", "reserve", "publish", "wipe", "clear"}
    /\ IF wPc[w] = "publish" THEN MaybeLate(w) ELSE late' = late
    /\ \/ store' = store
       \/ wPc[w] = "sweep" /\ Reserved(wArt[w], wKey[w]) /\ StoreAt(wArt[w], wKey[w], "missing")
       \/ wPc[w] = "reserve" /\ Unused(wArt[w], wKey[w]) /\ StoreAt(wArt[w], wKey[w], "reserved")
    /\ Finishes(w, wBatch[w])
    /\ UNCHANGED <<rowVars, pVars, eVars>>

WorkerCrash(w) ==
    /\ wPc[w] # "idle" \/ wBatch[w] # {}
    /\ IF wPc[w] = "publish" THEN MaybeLate(w) ELSE late' = late
    /\ Finishes(w, {})
    /\ UNCHANGED <<rowVars, store, pVars, eVars>>

\* renew_processing_lease reads the row,
BeatReads(w) ==
    /\ wPc[w] # "idle" /\ ~wBeat[w]
    /\ Own(w)
    /\ wBeat' = [wBeat EXCEPT ![w] = TRUE]
    /\ UNCHANGED <<rowVars, storeVars, wPc, wArt, wTok, wKey, wBatch, pVars, eVars>>

\* and extends whatever lease the row has when the UPDATE runs.
BeatWrites(w) ==
    /\ wBeat[w]
    /\ lease' = IF status[wArt[w]] = "processing" THEN [lease EXCEPT ![wArt[w]] = "live"]
                ELSE lease
    /\ wBeat' = [wBeat EXCEPT ![w] = FALSE]
    /\ UNCHANGED <<status, token, key, claims, storeVars, wPc, wArt, wTok, wKey, wBatch,
                   pVars, eVars>>

-------------------------------------------------------------------------------
(* The retention pass.                                                     *)

PurgerAt(p, pc, a, s, k) ==
    /\ pPc' = [pPc EXCEPT ![p] = pc]
    /\ pArt' = [pArt EXCEPT ![p] = a]
    /\ pStatus' = [pStatus EXCEPT ![p] = s]
    /\ pKey' = [pKey EXCEPT ![p] = k]

PurgerRests(p) == PurgerAt(p, "idle", NoArtifact, "none", 0)

\* Variant: rows the erasure cancelled are not listed.
PurgesUnerased(a) == status[a] \in {"failed", "expired"} /\ key[a] # 0

\* list_cancelled_erasure_purge_retry, list_failed_storage_purge_retry,
\* list_expired_storage_purge_retry.
Purgeable(a) == status[a] \in Closed /\ key[a] # 0

PurgeLists(p, a) ==
    /\ pPc[p] = "idle"
    /\ Purgeable(a)
    /\ PurgerAt(p, "delete", a, status[a], key[a])
    /\ UNCHANGED <<rowVars, storeVars, wVars, eVars>>

PurgeDeletes(p) ==
    /\ pPc[p] = "delete"
    /\ StoreAt(pArt[p], pKey[p], "missing")
    /\ PurgerAt(p, "clear", pArt[p], pStatus[p], pKey[p])
    /\ UNCHANGED <<rowVars, late, wVars, eVars>>

\* clear_export_storage_purge_metadata, if the row is as it was listed.
PurgeClears(p) ==
    /\ pPc[p] = "clear"
    /\ key' = IF status[pArt[p]] = pStatus[p] /\ key[pArt[p]] = pKey[p]
              THEN [key EXCEPT ![pArt[p]] = 0] ELSE key
    /\ PurgerRests(p)
    /\ UNCHANGED <<status, token, lease, claims, storeVars, wVars, eVars>>

\* list_expired_ready reads without a lock; expires_at has passed,
ExpireReads(p, a) ==
    /\ pPc[p] = "idle"
    /\ status[a] = "ready"
    /\ PurgerAt(p, "expire", a, "none", 0)
    /\ UNCHANGED <<rowVars, storeVars, wVars, eVars>>

\* and mark_expired writes by primary key.
ExpireWrites(p) ==
    /\ pPc[p] = "expire"
    /\ status' = [status EXCEPT ![pArt[p]] = "expired"]
    /\ PurgerRests(p)
    /\ UNCHANGED <<token, lease, key, claims, storeVars, wVars, eVars>>

\* Storage raises, or the process ends.
PurgerStops(p) ==
    /\ pPc[p] # "idle"
    /\ PurgerRests(p)
    /\ UNCHANGED <<rowVars, storeVars, wVars, eVars>>

-------------------------------------------------------------------------------
(* Erasure of the subject.                                                 *)

\* _reject_processing_export_artifacts.
NoneProcessing == \A a \in Artifacts : status[a] # "processing"

\* minimise_export_artifacts_for_approved_erase_request over the locked rows, up to
\* the commit that also unlinks the subject from its requests.
Erase ==
    /\ ~erased
    /\ NoneProcessing
    /\ status' = [a \in Artifacts |->
                    IF key[a] # 0 \/ status[a] \in {"queued", "ready"} THEN "cancelled"
                    ELSE status[a]]
    /\ erased' = TRUE
    /\ deferred' = {<<a, key[a]>> : a \in {b \in Artifacts : key[b] # 0}}
    /\ UNCHANGED <<token, lease, key, claims, storeVars, wVars, pVars>>

\* After the commit each object is deleted, or the deletion is lost; the key stays.
DeferredDelete(a, k) ==
    /\ <<a, k>> \in deferred
    /\ deferred' = deferred \ {<<a, k>>}
    /\ store' = store \/ StoreAt(a, k, "missing")
    /\ UNCHANGED <<rowVars, late, wVars, pVars, erased>>

-------------------------------------------------------------------------------
WorkerStep(w) ==
    \/ \E R, C \in SUBSET Artifacts : Claim(w, R, C)
    \/ \E a \in Artifacts, t \in Claims : Start(w, a, t)
    \/ PrepareFresh(w) \/ PrepareReuses(w) \/ Raises(w)
    \/ Inspect(w) \/ Fence(w) \/ Sweep(w) \/ Reset(w)
    \/ Reserve(w) \/ ReserveFails(w) \/ Validate(w)
    \/ Publish(w) \/ PublishFails(w) \/ Cancel(w)
    \/ MarkReady(w) \/ MarkFailed(w) \/ Wipe(w) \/ Clear(w)
    \/ GivesUp(w) \/ WorkerCrash(w)
    \/ BeatReads(w) \/ BeatWrites(w)

PurgerStep(p) ==
    \/ \E a \in Artifacts : PurgeLists(p, a)
    \/ PurgeDeletes(p) \/ PurgeClears(p)
    \/ \E a \in Artifacts : ExpireReads(p, a)
    \/ ExpireWrites(p)
    \/ PurgerStops(p)

Next ==
    \/ \E a \in Artifacts : Request(a)
    \/ \E a \in Artifacts : LeaseLapses(a)
    \/ \E w \in Workers : WorkerStep(w)
    \/ \E a \in Artifacts, k \in Claims : LateArrives(a, k)
    \/ \E p \in Purgers : PurgerStep(p)
    \/ Erase
    \/ \E a \in Artifacts, k \in Claims : DeferredDelete(a, k)

Spec == Init /\ [][Next]_vars

\* Fairness: the retention pass is run again and again, and storage does not
\* fail every deletion. Workers need not run at all.
Fairness ==
    /\ \A p \in Purgers, a \in Artifacts : SF_vars(PurgeLists(p, a))
    /\ \A p \in Purgers : SF_vars(PurgeDeletes(p)) /\ SF_vars(PurgeClears(p))
    /\ \A p \in Purgers : WF_vars(PurgerStep(p))

FairSpec == Spec /\ Fairness

-------------------------------------------------------------------------------
(* Properties.                                                             *)

WorkerSteps == {"idle", "prepare", "again", "inspect", "fence", "sweep", "reset", "reserve",
                "validate", "publish", "cancel", "ready", "fail", "wipe", "clear"}

\* The types of the variables; a row has a token exactly while it is processing
\* (get_processing_by_token is all that keeps an old lease out), and then it has
\* a lease that can lapse.
TypeOK ==
    /\ status \in [Artifacts -> Closed \cup {"none", "queued", "processing", "ready"}]
    /\ token \in [Artifacts -> 0 .. MaxClaims]
    /\ lease \in [Artifacts -> {"none", "live", "lapsed"}]
    /\ key \in [Artifacts -> 0 .. MaxClaims]
    /\ claims \in [Artifacts -> 0 .. MaxClaims]
    /\ store \in [Artifacts -> [Claims -> {"missing", "reserved", "object"}]]
    /\ late \in [Artifacts -> SUBSET Claims]
    /\ wPc \in [Workers -> WorkerSteps]
    /\ wArt \in [Workers -> Artifacts \cup {NoArtifact}]
    /\ wTok \in [Workers -> 0 .. MaxClaims]
    /\ wKey \in [Workers -> 0 .. MaxClaims]
    /\ wBatch \in [Workers -> SUBSET (Artifacts \X Claims)]
    /\ wBeat \in [Workers -> BOOLEAN]
    /\ pPc \in [Purgers -> {"idle", "delete", "clear", "expire"}]
    /\ pArt \in [Purgers -> Artifacts \cup {NoArtifact}]
    /\ pStatus \in [Purgers -> Closed \cup {"none"}]
    /\ pKey \in [Purgers -> 0 .. MaxClaims]
    /\ erased \in BOOLEAN
    /\ deferred \subseteq Artifacts \X Claims
    /\ \A a \in Artifacts :
          /\ (status[a] = "processing") <=> (token[a] # 0)
          /\ (status[a] = "processing") <=> (lease[a] # "none")

\* Every archive in storage is named by its row: whatever lease a publisher had
\* when it was interrupted, it cannot leave an archive behind that no purge, no
\* erasure and no download knows of.
NoOrphanObject ==
    \A a \in Artifacts, k \in Claims : store[a][k] = "object" => key[a] = k

\* A ready artifact can be downloaded: no cleanup of an older lease, no retry and
\* no purge takes the archive away while the row says ready; and after the erasure
\* of the subject none becomes or stays ready, though rows may be requested,
\* claimed and requeued around it.
ReadyIsStored ==
    \A a \in Artifacts : status[a] = "ready" =>
        key[a] # 0 /\ store[a][key[a]] = "object" /\ ~erased

\* After the erasure every archive of the subject is deleted in the end, though
\* deletions fail, are lost, or come before a publication still on its way.
ErasedObjectsGo ==
    erased ~> [](\A a \in Artifacts, k \in Claims : store[a][k] # "object")
===============================================================================
