------------------------- MODULE ExportArtifactsProofs -------------------------
(***************************************************************************)
(* Archives of ExportArtifacts are never orphaned and never missing, for   *)
(* any number of artifacts, workers, retention passes and claims.          *)
(***************************************************************************)
EXTENDS ExportArtifacts, TLAPS

-------------------------------------------------------------------------------
(* The inductive invariants, in two layers.                                *)

\* Steps of a worker whose lease has not generated an archive yet; steps with a key
\* of this lease; and all the steps with a key.
BeforeFresh == {"prepare", "again", "inspect", "fence", "sweep", "reset"}
OnOwnKey == {"reserve", "validate", "publish"}
WithKey == {"inspect", "fence", "sweep", "reset", "cancel", "ready", "wipe", "clear"} \cup OnOwnKey

\* What a worker holds at its step.
WorkerShape(w) ==
    /\ wPc[w] = "idle" => wKey[w] = 0 /\ wArt[w] = NoArtifact /\ ~wBeat[w]
    /\ wPc[w] # "idle" => wArt[w] \in Artifacts /\ wTok[w] \in 1 .. claims[wArt[w]]
    /\ wPc[w] \in {"prepare", "again"} => wKey[w] = 0
    /\ wPc[w] \in WithKey => wKey[w] \in Claims
    /\ wPc[w] \in OnOwnKey => wKey[w] = wTok[w]
    /\ wPc[w] \in {"wipe", "clear"} => status[wArt[w]] \in Closed

\* A row that a retention pass has listed stays closed.
PurgerShape(p) ==
    /\ pPc[p] \in {"delete", "clear"} =>
          pArt[p] \in Artifacts /\ pKey[p] \in Claims /\ status[pArt[p]] \in Closed
    /\ pPc[p] = "expire" => pArt[p] \in Artifacts /\ status[pArt[p]] \in Closed \cup {"ready"}

\* Tokens are given out once, and the last one is the one of the row.
TokensWereClaimed ==
    \A a \in Artifacts :
        /\ token[a] <= claims[a]
        /\ \A w \in Workers, t \in Claims : <<a, t>> \in wBatch[w] => t <= claims[a]
        /\ \A k \in Claims : <<a, k>> \in deferred => status[a] \in Closed

TokensDiffer ==
    \A v, w \in Workers :
        /\ wPc[w] # "idle" => <<wArt[w], wTok[w]>> \notin wBatch[v]
        /\ v # w =>
             /\ wBatch[v] \cap wBatch[w] = {}
             /\ wPc[v] # "idle" /\ wPc[w] # "idle" /\ wArt[v] = wArt[w] => wTok[v] # wTok[w]

Rows ==
    /\ TypeOK
    /\ \A w \in Workers : WorkerShape(w)
    /\ \A p \in Purgers : PurgerShape(p)
    /\ TokensWereClaimed /\ TokensDiffer

\* Nothing has been sent to storage under key k.
Untouched(a, k) == store[a][k] = "missing" /\ k \notin late[a]

\* A claim has its key for itself until it reserves it, which it does once.
Unclaimed == \A a \in Artifacts, k \in Claims : k > claims[a] => Untouched(a, k)
BatchUntouched ==
    \A w \in Workers, a \in Artifacts, k \in Claims : <<a, k>> \in wBatch[w] => Untouched(a, k)
WorkUntouched ==
    \A w \in Workers :
        wPc[w] \in BeforeFresh \cup {"reserve"} => Untouched(wArt[w], wTok[w])

\* A publication under key k has passed the validation.
Armed(a, k) ==
    k \in late[a] \/ \E w \in Workers : wPc[w] = "publish" /\ wArt[w] = a /\ wKey[w] = k

\* Such a publication can only succeed while the row names the key.
ArmedIsNamed ==
    \A a \in Artifacts, k \in Claims :
        store[a][k] = "reserved" /\ Armed(a, k) => key[a] = k

\* Key k was deleted from storage and the row is about to forget it.
Forgets(a, k) ==
    \/ \E w \in Workers : wPc[w] = "reset" /\ Own(w) /\ wArt[w] = a /\ wKey[w] = k
    \/ \E w \in Workers : wPc[w] = "clear" /\ wArt[w] = a /\ wKey[w] = k
    \/ \E p \in Purgers : pPc[p] = "clear" /\ pArt[p] = a /\ pKey[p] = k

\* Nothing can be published under it any more.
ForgottenIsGone ==
    \A a \in Artifacts, k \in Claims :
        Forgets(a, k) => store[a][k] # "object" /\ ~(store[a][k] = "reserved" /\ Armed(a, k))

\* What the holder of the lease knows when it goes on.
HolderKnows ==
    \A w \in Workers :
        wPc[w] # "idle" /\ Own(w) =>
            /\ wPc[w] = "again" => key[wArt[w]] = 0
            /\ wPc[w] = "ready" /\ key[wArt[w]] = wKey[w] => store[wArt[w]][wKey[w]] = "object"
            /\ erased => wPc[w] \in {"prepare", "fail"}

Storage ==
    /\ Unclaimed /\ BatchUntouched /\ WorkUntouched
    /\ NoOrphanObject /\ ArmedIsNamed /\ ForgottenIsGone /\ HolderKnows /\ ReadyIsStored

IInv == Rows /\ Storage

-------------------------------------------------------------------------------
(* First layer: rows, tokens and what the processes hold.                  *)

\* The types of what is shared.
RowsTyped ==
    /\ status \in [Artifacts -> Closed \cup {"none", "queued", "processing", "ready"}]
    /\ token \in [Artifacts -> 0 .. MaxClaims]
    /\ lease \in [Artifacts -> {"none", "live", "lapsed"}]
    /\ key \in [Artifacts -> 0 .. MaxClaims]
    /\ claims \in [Artifacts -> 0 .. MaxClaims]
    /\ store \in [Artifacts -> [Claims -> {"missing", "reserved", "object"}]]
    /\ late \in [Artifacts -> SUBSET Claims]
    /\ \A a \in Artifacts :
          /\ (status[a] = "processing") <=> (token[a] # 0)
          /\ (status[a] = "processing") <=> (lease[a] # "none")

\* No row is opened again, and tokens are only dropped.
RowsAdvance ==
    /\ RowsTyped'
    /\ claims' = claims
    /\ \A a \in Artifacts :
          /\ token'[a] \in {0, token[a]}
          /\ status[a] \in Closed => status'[a] \in Closed
          /\ status[a] = "ready" => status'[a] \in Closed \cup {"ready"}

\* Worker w is at step pc with key k and lease, batch and heartbeat as given.
Worker(w, pc, a, t, k, batch, beat) ==
    /\ wPc' \in [Workers -> WorkerSteps] /\ wArt' \in [Workers -> Artifacts \cup {NoArtifact}]
    /\ wTok' \in [Workers -> 0 .. MaxClaims] /\ wKey' \in [Workers -> 0 .. MaxClaims]
    /\ wBatch' \in [Workers -> SUBSET (Artifacts \X Claims)] /\ wBeat' \in [Workers -> BOOLEAN]
    /\ wPc'[w] = pc /\ wArt'[w] = a /\ wTok'[w] = t /\ wKey'[w] = k
    /\ wBatch'[w] = batch /\ wBeat'[w] = beat
    /\ \A v \in Workers \ {w} :
          /\ wPc'[v] = wPc[v] /\ wArt'[v] = wArt[v] /\ wTok'[v] = wTok[v] /\ wKey'[v] = wKey[v]
          /\ wBatch'[v] = wBatch[v] /\ wBeat'[v] = wBeat[v]

LEMMA GoesMoves ==
    ASSUME TypeOK, NEW w \in Workers, NEW pc \in WorkerSteps, NEW k \in 0 .. MaxClaims,
           Goes(w, pc, k)
    PROVE  Worker(w, pc, wArt[w], wTok[w], k, wBatch[w], wBeat[w])
  BY DEF TypeOK, Goes, Worker

LEMMA FinishesMoves ==
    ASSUME TypeOK, NEW w \in Workers, NEW batch \in SUBSET (Artifacts \X Claims),
           Finishes(w, batch)
    PROVE  Worker(w, "idle", NoArtifact, 0, 0, batch, FALSE)
<1>1. "idle" \in WorkerSteps /\ 0 \in 0 .. MaxClaims
  BY ExportAssumption DEF WorkerSteps
<1> QED
  BY <1>1 DEF TypeOK, Finishes, Worker

\* The initial states.
LEMMA InitRows == Init => Rows
<1> SUFFICES ASSUME Init PROVE Rows
  OBVIOUS
<1>1. 0 \in 0 .. MaxClaims
  BY ExportAssumption
<1>2. TypeOK
  BY <1>1 DEF Init, TypeOK, WorkerSteps, Closed
<1>3. \A w \in Workers : WorkerShape(w)
  BY DEF Init, WorkerShape, WithKey, OnOwnKey
<1>4. \A p \in Purgers : PurgerShape(p)
  BY DEF Init, PurgerShape
<1>5. TokensWereClaimed
  BY DEF Init, TokensWereClaimed
<1>6. TokensDiffer
  BY DEF Init, TokensDiffer
<1> QED
  BY <1>2, <1>3, <1>4, <1>5, <1>6 DEF Rows

\* A worker at work has an artifact and a token.
LEMMA Busy ==
    ASSUME Rows, NEW w \in Workers, wPc[w] # "idle"
    PROVE  /\ wArt[w] \in Artifacts /\ wTok[w] \in Claims /\ wTok[w] <= claims[wArt[w]]
           /\ wTok[w] \in 0 .. MaxClaims /\ wKey[w] \in 0 .. MaxClaims
           /\ wPc[w] \in WithKey => wKey[w] \in Claims
           /\ wPc[w] \in OnOwnKey => wKey[w] = wTok[w]
           /\ wPc[w] \in {"wipe", "clear"} => status[wArt[w]] \in Closed
<1>1. WorkerShape(w) /\ TypeOK
  BY DEF Rows
<1>2. claims[wArt[w]] \in 0 .. MaxClaims /\ wTok[w] \in 1 .. claims[wArt[w]]
  BY <1>1 DEF WorkerShape, TypeOK
<1>3. wTok[w] \in Claims /\ wTok[w] <= claims[wArt[w]]
  BY <1>2, ExportAssumption DEF Claims
<1> QED
  BY <1>1, <1>3 DEF WorkerShape, TypeOK

\* Two workers do not own the same row.
LEMMA OneOwner ==
    ASSUME Rows, NEW v \in Workers, NEW w \in Workers, wPc[v] # "idle", wPc[w] # "idle",
           Own(v), Own(w), wArt[v] = wArt[w]
    PROVE  v = w
  BY DEF Rows, TokensDiffer, Own

\* Tokens stay within the claims.
LEMMA ClaimsKept ==
    ASSUME Rows, RowsAdvance, \A v \in Workers : wBatch'[v] \subseteq wBatch[v],
           \A a \in Artifacts, k \in Claims : <<a, k>> \in deferred' => status'[a] \in Closed
    PROVE  TokensWereClaimed'
<1> SUFFICES ASSUME NEW a \in Artifacts
             PROVE  /\ token'[a] <= claims'[a]
                    /\ \A w \in Workers, t \in Claims : <<a, t>> \in wBatch'[w] => t <= claims'[a]
  BY DEF TokensWereClaimed
<1>1. /\ token[a] \in 0 .. MaxClaims /\ claims[a] \in 0 .. MaxClaims /\ token[a] <= claims[a]
      /\ \A w \in Workers, t \in Claims : <<a, t>> \in wBatch[w] => t <= claims[a]
  BY DEF Rows, TypeOK, TokensWereClaimed
<1>2. claims' = claims /\ (token'[a] = 0 \/ token'[a] = token[a])
  BY DEF RowsAdvance
<1>3. token'[a] <= claims'[a]
  BY <1>1, <1>2
<1>4. \A w \in Workers, t \in Claims : <<a, t>> \in wBatch'[w] => t <= claims'[a]
  BY <1>1, <1>2
<1> QED
  BY <1>3, <1>4

\* A step of worker w on the lease it has.
LEMMA MoveRows ==
    ASSUME Rows, NEW w \in Workers, wPc[w] # "idle",
           NEW pc \in WorkerSteps \ {"idle"}, NEW k \in 0 .. MaxClaims, Goes(w, pc, k),
           RowsAdvance, UNCHANGED pVars, UNCHANGED eVars,
           pc \in {"prepare", "again"} => k = 0,
           pc \in WithKey => k \in Claims,
           pc \in OnOwnKey => k = wTok[w],
           pc \in {"wipe", "clear"} => status'[wArt[w]] \in Closed
    PROVE  Rows'
<1>1. TypeOK /\ Worker(w, pc, wArt[w], wTok[w], k, wBatch[w], wBeat[w])
  BY GoesMoves DEF Rows
<1>2. TypeOK'
  BY <1>1 DEF TypeOK, Worker, RowsAdvance, RowsTyped, pVars, eVars
<1>3. ASSUME NEW v \in Workers PROVE WorkerShape(v)'
  <2>1. WorkerShape(v)
    BY DEF Rows
  <2>2. CASE v = w
    BY <1>1, <2>1, <2>2 DEF WorkerShape, Worker, RowsAdvance
  <2>3. CASE v # w
    <3>1. /\ wPc'[v] = wPc[v] /\ wArt'[v] = wArt[v] /\ wTok'[v] = wTok[v] /\ wKey'[v] = wKey[v]
          /\ wBeat'[v] = wBeat[v] /\ claims' = claims
      BY <1>1, <2>3 DEF Worker, RowsAdvance
    <3>2. wPc[v] \in {"wipe", "clear"} => status'[wArt[v]] \in Closed
      BY <2>1 DEF WorkerShape, RowsAdvance
    <3> QED
      BY <2>1, <3>1, <3>2 DEF WorkerShape
  <2> QED
    BY <2>2, <2>3
<1>4. ASSUME NEW p \in Purgers PROVE PurgerShape(p)'
  BY DEF Rows, PurgerShape, RowsAdvance, pVars
<1>5. TokensWereClaimed'
  <2>1. wBatch' = wBatch /\ deferred' = deferred
    BY DEF Goes, eVars
  <2>2. \A a \in Artifacts, j \in Claims : <<a, j>> \in deferred' => status'[a] \in Closed
    BY <2>1 DEF Rows, TokensWereClaimed, RowsAdvance
  <2> QED
    BY <2>1, <2>2, ClaimsKept
<1>6. TokensDiffer'
  BY <1>1 DEF Rows, TokensDiffer, Worker
<1> QED
  BY <1>2, <1>3, <1>4, <1>5, <1>6 DEF Rows

\* Worker w is done with its artifact, or with its whole batch.
LEMMA FinishRows ==
    ASSUME Rows, NEW w \in Workers, NEW batch \in SUBSET wBatch[w], Finishes(w, batch),
           RowsAdvance, UNCHANGED pVars, UNCHANGED eVars
    PROVE  Rows'
<1>1. TypeOK /\ wBatch[w] \subseteq Artifacts \X Claims
  BY DEF Rows, TypeOK
<1>2. Worker(w, "idle", NoArtifact, 0, 0, batch, FALSE)
  BY <1>1, FinishesMoves
<1>3. TypeOK'
  BY <1>1, <1>2 DEF TypeOK, Worker, RowsAdvance, RowsTyped, pVars, eVars
<1>4. ASSUME NEW v \in Workers PROVE WorkerShape(v)'
  <2>1. WorkerShape(v)
    BY DEF Rows
  <2>2. CASE v = w
    BY <1>2, <2>2 DEF WorkerShape, Worker, WithKey, OnOwnKey
  <2>3. CASE v # w
    <3>1. /\ wPc'[v] = wPc[v] /\ wArt'[v] = wArt[v] /\ wTok'[v] = wTok[v] /\ wKey'[v] = wKey[v]
          /\ wBeat'[v] = wBeat[v] /\ claims' = claims
      BY <1>2, <2>3 DEF Worker, RowsAdvance
    <3>2. wPc[v] \in {"wipe", "clear"} => status'[wArt[v]] \in Closed
      BY <2>1 DEF WorkerShape, RowsAdvance
    <3> QED
      BY <2>1, <3>1, <3>2 DEF WorkerShape
  <2> QED
    BY <2>2, <2>3
<1>5. ASSUME NEW p \in Purgers PROVE PurgerShape(p)'
  BY DEF Rows, PurgerShape, RowsAdvance, pVars
<1>6. TokensWereClaimed'
  <2>1. deferred' = deferred /\ claims' = claims
    BY DEF RowsAdvance, eVars
  <2>2. \A v \in Workers : wBatch'[v] \subseteq wBatch[v]
    BY <1>2 DEF Worker
  <2>3. \A a \in Artifacts, k \in Claims : <<a, k>> \in deferred' => status'[a] \in Closed
    BY <2>1 DEF Rows, TokensWereClaimed, RowsAdvance
  <2> QED
    BY <2>2, <2>3, ClaimsKept
<1>7. TokensDiffer'
  <2>1. \A v \in Workers : wBatch'[v] \subseteq wBatch[v]
    BY <1>2 DEF Worker
  <2>2. \A v \in Workers : wPc'[v] # "idle" =>
           v # w /\ wPc[v] # "idle" /\ wArt'[v] = wArt[v] /\ wTok'[v] = wTok[v]
    BY <1>2 DEF Worker
  <2> SUFFICES ASSUME NEW u \in Workers, NEW v \in Workers
               PROVE  /\ wPc'[v] # "idle" => <<wArt'[v], wTok'[v]>> \notin wBatch'[u]
                      /\ u # v =>
                           /\ wBatch'[u] \cap wBatch'[v] = {}
                           /\ wPc'[u] # "idle" /\ wPc'[v] # "idle" /\ wArt'[u] = wArt'[v]
                              => wTok'[u] # wTok'[v]
    BY DEF TokensDiffer
  <2>3. wPc'[v] # "idle" => <<wArt'[v], wTok'[v]>> \notin wBatch'[u]
    BY <2>1, <2>2 DEF Rows, TokensDiffer
  <2>4. u # v => wBatch'[u] \cap wBatch'[v] = {}
    <3>1. u # v => wBatch[u] \cap wBatch[v] = {}
      BY DEF Rows, TokensDiffer
    <3> QED
      BY <2>1, <3>1
  <2> QED
    BY <2>2, <2>3, <2>4 DEF Rows, TokensDiffer
<1> QED
  BY <1>3, <1>4, <1>5, <1>6, <1>7 DEF Rows

\* A step that no worker takes.
LEMMA OtherRows ==
    ASSUME Rows, UNCHANGED wVars, RowsAdvance,
           erased' \in BOOLEAN, deferred' \subseteq Artifacts \X Claims,
           \A a \in Artifacts, k \in Claims : <<a, k>> \in deferred' => status'[a] \in Closed,
           pPc' \in [Purgers -> {"idle", "delete", "clear", "expire"}],
           pArt' \in [Purgers -> Artifacts \cup {NoArtifact}],
           pStatus' \in [Purgers -> Closed \cup {"none"}],
           pKey' \in [Purgers -> 0 .. MaxClaims],
           \A p \in Purgers : PurgerShape(p)'
    PROVE  Rows'
<1>1. TypeOK'
  BY DEF Rows, TypeOK, RowsAdvance, RowsTyped, wVars
<1>2. ASSUME NEW w \in Workers PROVE WorkerShape(w)'
  BY DEF Rows, WorkerShape, RowsAdvance, wVars
<1>3. TokensWereClaimed'
  BY ClaimsKept DEF wVars
<1>4. TokensDiffer'
  BY DEF Rows, TokensDiffer, wVars
<1> QED
  BY <1>1, <1>2, <1>3, <1>4 DEF Rows

\* Rows that no one writes.
LEMMA SameRows ==
    ASSUME Rows, UNCHANGED rowVars,
           store' \in [Artifacts -> [Claims -> {"missing", "reserved", "object"}]],
           late' \in [Artifacts -> SUBSET Claims]
    PROVE  RowsAdvance
  BY DEF Rows, TypeOK, RowsAdvance, RowsTyped, rowVars

\* What storage may do.
LEMMA StoreTypes ==
    ASSUME Rows, NEW a \in Artifacts, NEW k, NEW s \in {"missing", "reserved", "object"},
           store' = store \/ StoreAt(a, k, s)
    PROVE  store' \in [Artifacts -> [Claims -> {"missing", "reserved", "object"}]]
<1>1. /\ store \in [Artifacts -> [Claims -> {"missing", "reserved", "object"}]]
      /\ store[a] \in [Claims -> {"missing", "reserved", "object"}]
  BY DEF Rows, TypeOK
<1>2. [store[a] EXCEPT ![k] = s] \in [Claims -> {"missing", "reserved", "object"}]
  BY <1>1
<1>3. ASSUME StoreAt(a, k, s) PROVE store' = [store EXCEPT ![a] = [store[a] EXCEPT ![k] = s]]
  BY <1>3 DEF StoreAt
<1> QED
  BY <1>1, <1>2, <1>3

\* Steps of a worker that leave the rows alone.
LEMMA PlainRows ==
    ASSUME Rows, NEW w \in Workers,
           \/ Raises(w) \/ PrepareReuses(w) \/ Inspect(w) \/ Fence(w) \/ Sweep(w)
           \/ Reserve(w) \/ ReserveFails(w) \/ Validate(w) \/ Publish(w) \/ PublishFails(w)
           \/ Cancel(w) \/ Wipe(w)
    PROVE  Rows'
<1>1. /\ wPc[w] # "idle" /\ UNCHANGED rowVars /\ UNCHANGED pVars /\ UNCHANGED eVars
  BY DEF Raises, PrepareReuses, Preparing, Inspect, Fence, Sweep, Reserve, ReserveFails, Validate,
     Publish, PublishFails, Cancel, Wipe
<1>2. /\ wArt[w] \in Artifacts /\ wKey[w] \in 0 .. MaxClaims
      /\ wPc[w] \in WithKey => wKey[w] \in Claims
      /\ wPc[w] \in OnOwnKey => wKey[w] = wTok[w]
      /\ wPc[w] \in {"wipe", "clear"} => status[wArt[w]] \in Closed
  BY <1>1, Busy
<1>3. store' \in [Artifacts -> [Claims -> {"missing", "reserved", "object"}]]
  <2>1. \/ store' = store
        \/ \E s \in {"missing", "reserved", "object"} : StoreAt(wArt[w], wKey[w], s)
    BY DEF Raises, PrepareReuses, Inspect, Fence, Sweep, Reserve, ReserveFails, Validate,
       Publish, PublishFails, Cancel, Wipe, storeVars
  <2> QED
    BY <1>2, <2>1, StoreTypes DEF Rows, TypeOK
<1>4. late' \in [Artifacts -> SUBSET Claims]
  <2>1. CASE late' = late
    BY <2>1 DEF Rows, TypeOK
  <2>2. CASE PublishFails(w)
    BY <1>2, <2>2 DEF Rows, TypeOK, PublishFails, MaybeLate, WithKey, OnOwnKey
  <2> QED
    BY <2>1, <2>2 DEF Raises, PrepareReuses, Inspect, Fence, Sweep, Reserve, ReserveFails, Validate,
       Publish, Cancel, Wipe, storeVars
<1>5. RowsAdvance
  BY <1>1, <1>3, <1>4, SameRows
<1>6. PICK pc \in WorkerSteps \ {"idle"}, k \in 0 .. MaxClaims :
         /\ Goes(w, pc, k)
         /\ pc \notin {"prepare", "again", "wipe"}
         /\ pc = "clear" => wPc[w] = "wipe"
         /\ pc \in WithKey => k \in Claims
         /\ pc \in OnOwnKey => k = wTok[w]
  <2>1. CASE PrepareReuses(w)
    <3>1. key[wArt[w]] \in Claims
      BY <1>2, <2>1 DEF PrepareReuses, Rows, TypeOK, Claims
    <3>2. key[wArt[w]] \in 0 .. MaxClaims
      BY <1>2 DEF Rows, TypeOK
    <3> QED
      BY <2>1, <3>1, <3>2 DEF PrepareReuses, WorkerSteps, OnOwnKey
  <2>2. CASE Raises(w)
    BY <1>2, <2>2 DEF Raises, WorkerSteps, WithKey, OnOwnKey
  <2>3. CASE Inspect(w) \/ Fence(w) \/ Sweep(w)
    BY <1>2, <2>3 DEF Inspect, Fence, Sweep, WorkerSteps, WithKey, OnOwnKey
  <2>4. CASE Reserve(w) \/ ReserveFails(w) \/ Validate(w)
    BY <1>2, <2>4 DEF Reserve, ReserveFails, Validate, WorkerSteps, WithKey, OnOwnKey
  <2>5. CASE Publish(w) \/ PublishFails(w) \/ Cancel(w) \/ Wipe(w)
    BY <1>2, <2>5 DEF Publish, PublishFails, Cancel, Wipe, WorkerSteps, WithKey, OnOwnKey
  <2> QED
    BY <2>1, <2>2, <2>3, <2>4, <2>5
<1>7. pc \in {"wipe", "clear"} => status'[wArt[w]] \in Closed
  BY <1>1, <1>2, <1>6 DEF rowVars
<1> QED
  BY <1>1, <1>5, <1>6, <1>7, MoveRows

\* A key is committed or forgotten.
LEMMA KeyRows ==
    ASSUME Rows, NEW w \in Workers, PrepareFresh(w) \/ Reset(w) \/ Clear(w)
    PROVE  Rows'
<1>1. /\ wPc[w] # "idle" /\ UNCHANGED <<status, token, lease, claims>> /\ UNCHANGED storeVars
      /\ UNCHANGED pVars /\ UNCHANGED eVars
  BY DEF PrepareFresh, Preparing, Reset, Clear
<1>2. /\ wArt[w] \in Artifacts /\ wKey[w] \in 0 .. MaxClaims /\ wTok[w] \in 0 .. MaxClaims
      /\ wTok[w] \in Claims /\ 0 \in 0 .. MaxClaims
  BY <1>1, Busy, ExportAssumption
<1>3. key' \in [Artifacts -> 0 .. MaxClaims]
  BY <1>2 DEF PrepareFresh, Reset, Clear, Rows, TypeOK
<1>4. RowsAdvance
  BY <1>1, <1>3 DEF Rows, TypeOK, RowsAdvance, RowsTyped, storeVars
<1>5. CASE PrepareFresh(w)
  <2>1. Goes(w, "reserve", wTok[w])
    BY <1>5 DEF PrepareFresh
  <2> QED
    BY <1>1, <1>2, <1>4, <2>1, MoveRows DEF WorkerSteps, WithKey, OnOwnKey
<1>6. CASE Reset(w)
  <2>1. Goes(w, "again", 0) \/ Goes(w, "fail", wKey[w])
    BY <1>6 DEF Reset
  <2> QED
    BY <1>1, <1>2, <1>4, <2>1, MoveRows DEF WorkerSteps, WithKey, OnOwnKey
<1>7. CASE Clear(w)
  BY <1>1, <1>4, <1>7, FinishRows DEF Clear
<1> QED
  BY <1>5, <1>6, <1>7

\* The processing of the artifact ends.
LEMMA EndRows ==
    ASSUME Rows, NEW w \in Workers, MarkReady(w) \/ MarkFailed(w)
    PROVE  Rows'
<1>1. /\ wPc[w] # "idle" /\ UNCHANGED key /\ UNCHANGED storeVars
      /\ UNCHANGED pVars /\ UNCHANGED eVars
  BY DEF MarkReady, MarkFailed
<1>2. wArt[w] \in Artifacts /\ wKey[w] \in 0 .. MaxClaims /\ 0 \in 0 .. MaxClaims
  BY <1>1, Busy, ExportAssumption
<1>3. \/ UNCHANGED <<status, token, lease, claims>>
      \/ \E s \in {"ready", "failed"} : Own(w) /\ Leaves(wArt[w], s)
  BY DEF MarkReady, MayMarkReady, MarkFailed
<1>4. RowsAdvance
  <2>1. CASE UNCHANGED <<status, token, lease, claims>>
    BY <1>1, <2>1 DEF Rows, TypeOK, RowsAdvance, RowsTyped, storeVars
  <2>2. ASSUME NEW s \in {"ready", "failed"}, Own(w), Leaves(wArt[w], s) PROVE RowsAdvance
    <3>1. RowsTyped'
      BY <1>1, <1>2, <2>2 DEF Rows, TypeOK, RowsTyped, storeVars, Leaves, Closed
    <3>2. status[wArt[w]] = "processing"
      BY <2>2 DEF Own
    <3> QED
      BY <1>2, <2>2, <3>1, <3>2 DEF Rows, TypeOK, RowsAdvance, Leaves, Closed
  <2> QED
    BY <1>3, <2>1, <2>2
<1>5. CASE \E batch \in SUBSET wBatch[w] : Finishes(w, batch)
  BY <1>1, <1>4, <1>5, FinishRows
<1>6. CASE Goes(w, "fail", wKey[w])
  BY <1>1, <1>2, <1>4, <1>6, MoveRows DEF WorkerSteps, WithKey, OnOwnKey
<1>7. CASE MarkFailed(w) /\ Own(w) /\ key[wArt[w]] # 0
  <2>1. Goes(w, "wipe", key[wArt[w]]) /\ Leaves(wArt[w], "failed")
    BY <1>7 DEF MarkFailed
  <2>2. key[wArt[w]] \in Claims /\ key[wArt[w]] \in 0 .. MaxClaims
    BY <1>2, <1>7 DEF Rows, TypeOK, Claims
  <2>3. status'[wArt[w]] \in Closed
    BY <1>2, <2>1 DEF Leaves, Rows, TypeOK, Closed
  <2> QED
    BY <1>1, <1>4, <2>1, <2>2, <2>3, MoveRows DEF WorkerSteps, WithKey, OnOwnKey
<1> QED
  BY <1>5, <1>6, <1>7 DEF MarkReady, MarkFailed

\* The worker gives the artifact up, or dies.
LEMMA StopRows ==
    ASSUME Rows, NEW w \in Workers, GivesUp(w) \/ WorkerCrash(w)
    PROVE  Rows'
<1>1. /\ UNCHANGED rowVars /\ UNCHANGED pVars /\ UNCHANGED eVars
      /\ \E batch \in SUBSET wBatch[w] : Finishes(w, batch)
  BY DEF GivesUp, WorkerCrash
<1>2. store' \in [Artifacts -> [Claims -> {"missing", "reserved", "object"}]]
  <2>1. \/ store' = store
        \/ /\ wPc[w] # "idle"
           /\ \E s \in {"missing", "reserved"} : StoreAt(wArt[w], wKey[w], s)
    BY DEF GivesUp, WorkerCrash
  <2> QED
    BY <2>1, Busy, StoreTypes DEF Rows, TypeOK
<1>3. late' \in [Artifacts -> SUBSET Claims]
  <2>1. CASE late' = late
    BY <2>1 DEF Rows, TypeOK
  <2>2. CASE wPc[w] = "publish" /\ MaybeLate(w)
    <3>1. wArt[w] \in Artifacts /\ wKey[w] \in Claims
      BY <2>2, Busy DEF WithKey, OnOwnKey
    <3>2. late[wArt[w]] \cup {wKey[w]} \in SUBSET Claims /\ late \in [Artifacts -> SUBSET Claims]
      BY <3>1 DEF Rows, TypeOK
    <3>3. late' = late \/ late' = [late EXCEPT ![wArt[w]] = late[wArt[w]] \cup {wKey[w]}]
      BY <2>2 DEF MaybeLate
    <3> QED
      BY <3>2, <3>3
  <2> QED
    BY <2>1, <2>2 DEF GivesUp, WorkerCrash
<1>4. RowsAdvance
  BY <1>1, <1>2, <1>3, SameRows
<1> QED
  BY <1>1, <1>4, FinishRows

\* The heartbeat.
LEMMA BeatRows ==
    ASSUME Rows, NEW w \in Workers, BeatReads(w) \/ BeatWrites(w)
    PROVE  Rows'
<1>1. /\ UNCHANGED <<status, token, key, claims, store, late, wPc, wArt, wTok, wKey, wBatch>>
      /\ UNCHANGED <<pVars, eVars>> /\ wPc[w] # "idle"
  BY DEF BeatReads, BeatWrites, rowVars, storeVars, Rows, WorkerShape
<1>2. /\ lease' \in [Artifacts -> {"none", "live", "lapsed"}] /\ wBeat' \in [Workers -> BOOLEAN]
      /\ \A a \in Artifacts : (status[a] = "processing") <=> (lease'[a] # "none")
      /\ \A v \in Workers \ {w} : wBeat'[v] = wBeat[v]
  <2>1. CASE BeatReads(w)
    BY <2>1 DEF BeatReads, rowVars, Rows, TypeOK
  <2>2. CASE BeatWrites(w)
    BY <2>2 DEF BeatWrites, Rows, TypeOK
  <2> QED
    BY <2>1, <2>2
<1>3. TypeOK'
  BY <1>1, <1>2 DEF Rows, TypeOK, pVars, eVars
<1>4. ASSUME NEW v \in Workers PROVE WorkerShape(v)'
  BY <1>1, <1>2 DEF Rows, WorkerShape
<1>5. ASSUME NEW p \in Purgers PROVE PurgerShape(p)'
  BY <1>1 DEF Rows, PurgerShape, pVars
<1>6. TokensWereClaimed' /\ TokensDiffer'
  BY <1>1 DEF Rows, TokensWereClaimed, TokensDiffer, eVars
<1> QED
  BY <1>3, <1>4, <1>5, <1>6 DEF Rows

\* _process_artifact begins with a lease of the batch.
LEMMA StartRows ==
    ASSUME Rows, NEW w \in Workers, NEW a \in Artifacts, NEW t \in Claims, Start(w, a, t)
    PROVE  Rows'
<1>1. /\ wPc[w] = "idle" /\ <<a, t>> \in wBatch[w] /\ wKey[w] = 0 /\ ~wBeat[w]
      /\ UNCHANGED <<status, token, lease, key, claims, store, late, wKey, wBeat>>
      /\ UNCHANGED <<pVars, eVars>>
  BY DEF Start, rowVars, storeVars, Rows, WorkerShape
<1>2. /\ wPc' \in [Workers -> WorkerSteps] /\ wArt' \in [Workers -> Artifacts \cup {NoArtifact}]
      /\ wTok' \in [Workers -> 0 .. MaxClaims]
      /\ wBatch' \in [Workers -> SUBSET (Artifacts \X Claims)]
      /\ wPc'[w] = "prepare" /\ wArt'[w] = a /\ wTok'[w] = t /\ wBatch'[w] = wBatch[w] \ {<<a, t>>}
      /\ \A v \in Workers \ {w} : /\ wPc'[v] = wPc[v] /\ wArt'[v] = wArt[v] /\ wTok'[v] = wTok[v]
                                  /\ wBatch'[v] = wBatch[v]
  BY DEF Start, Rows, TypeOK, WorkerSteps, Claims
<1>3. TypeOK'
  BY <1>1, <1>2 DEF Rows, TypeOK, pVars, eVars
<1>4. t \in 1 .. claims[a]
  BY <1>1 DEF Rows, TypeOK, TokensWereClaimed, Claims
<1>5. ASSUME NEW v \in Workers PROVE WorkerShape(v)'
  <2>1. CASE v = w
    BY <1>1, <1>2, <1>4, <2>1 DEF WorkerShape, WithKey, OnOwnKey
  <2>2. CASE v # w
    BY <1>1, <1>2, <2>2 DEF Rows, WorkerShape
  <2> QED
    BY <2>1, <2>2
<1>6. ASSUME NEW p \in Purgers PROVE PurgerShape(p)'
  BY <1>1 DEF Rows, PurgerShape, pVars
<1>7. \A v \in Workers : wBatch'[v] \subseteq wBatch[v]
  BY <1>2
<1>8. TokensWereClaimed'
  BY <1>1, <1>7 DEF Rows, TokensWereClaimed, eVars
<1>9. TokensDiffer'
  <2> SUFFICES ASSUME NEW u \in Workers, NEW v \in Workers
               PROVE  /\ wPc'[v] # "idle" => <<wArt'[v], wTok'[v]>> \notin wBatch'[u]
                      /\ u # v =>
                           /\ wBatch'[u] \cap wBatch'[v] = {}
                           /\ wPc'[u] # "idle" /\ wPc'[v] # "idle" /\ wArt'[u] = wArt'[v]
                              => wTok'[u] # wTok'[v]
    BY DEF TokensDiffer
  <2>1. \A x, y \in Workers :
           /\ wPc[y] # "idle" => <<wArt[y], wTok[y]>> \notin wBatch[x]
           /\ x # y =>
                /\ wBatch[x] \cap wBatch[y] = {}
                /\ wPc[x] # "idle" /\ wPc[y] # "idle" /\ wArt[x] = wArt[y] => wTok[x] # wTok[y]
    BY DEF Rows, TokensDiffer
  <2>2. wPc'[v] # "idle" => <<wArt'[v], wTok'[v]>> \notin wBatch'[u]
    <3>1. CASE v = w
      BY <1>1, <1>2, <2>1, <3>1
    <3>2. CASE v # w
      BY <1>2, <1>7, <2>1, <3>2
    <3> QED
      BY <3>1, <3>2
  <2>3. u # v => wBatch'[u] \cap wBatch'[v] = {}
    BY <1>7, <2>1
  <2>4. ASSUME u # v, wPc'[u] # "idle", wPc'[v] # "idle", wArt'[u] = wArt'[v]
        PROVE  wTok'[u] # wTok'[v]
    <3>1. ASSUME NEW x \in Workers, x # w, wPc[x] # "idle", wArt[x] = a PROVE wTok[x] # t
      <4>1. <<wArt[x], wTok[x]>> \notin wBatch[w]
        BY <2>1, <3>1
      <4> QED
        BY <1>1, <3>1, <4>1
    <3>2. CASE u = w
      BY <1>2, <2>4, <3>1, <3>2
    <3>3. CASE v = w
      BY <1>2, <2>4, <3>1, <3>3
    <3>4. CASE u # w /\ v # w
      BY <1>2, <2>1, <2>4, <3>4
    <3> QED
      BY <3>2, <3>3, <3>4
  <2> QED
    BY <2>2, <2>3, <2>4
<1> QED
  BY <1>3, <1>5, <1>6, <1>8, <1>9 DEF Rows

\* Leases are recovered and taken.
LEMMA ClaimRows ==
    ASSUME Rows, NEW w \in Workers, NEW R \in SUBSET Artifacts, NEW C \in SUBSET Artifacts,
           Claim(w, R, C)
    PROVE  Rows'
<1>1. /\ wPc[w] = "idle" /\ wBatch[w] = {}
      /\ UNCHANGED <<key, store, late, wPc, wArt, wTok, wKey, wBeat>> /\ UNCHANGED <<pVars, eVars>>
      /\ \A a \in R : status[a] = "processing"
      /\ \A a \in C : (status[a] = "queued" \/ a \in R) /\ claims[a] < MaxClaims
  BY DEF Claim, Stale, storeVars
<1>2. ASSUME NEW a \in Artifacts
      PROVE  /\ claims'[a] \in 0 .. MaxClaims /\ claims[a] <= claims'[a]
             /\ token'[a] \in 0 .. MaxClaims /\ token'[a] <= claims'[a]
             /\ a \in C => claims'[a] = claims[a] + 1 /\ claims[a] + 1 \in Claims
  <2>1. claims[a] \in 0 .. MaxClaims /\ token[a] \in 0 .. MaxClaims /\ token[a] <= claims[a]
    BY DEF Rows, TypeOK, TokensWereClaimed
  <2>2. /\ claims'[a] = IF a \in C THEN claims[a] + 1 ELSE claims[a]
        /\ token'[a] = IF a \in C THEN claims[a] + 1 ELSE IF a \in R THEN 0 ELSE token[a]
    BY DEF Claim, SetTokens
  <2>3. a \in C => claims[a] < MaxClaims
    BY <1>1
  <2> QED
    BY <2>1, <2>2, <2>3, ExportAssumption DEF Claims
<1>3. /\ claims' \in [Artifacts -> 0 .. MaxClaims] /\ token' \in [Artifacts -> 0 .. MaxClaims]
  <2>1. DOMAIN claims' = Artifacts /\ DOMAIN token' = Artifacts
    BY DEF Claim, SetTokens
  <2>2. /\ claims' = [a \in Artifacts |-> claims'[a]] /\ token' = [a \in Artifacts |-> token'[a]]
    BY DEF Claim, SetTokens
  <2> QED
    BY <1>2, <2>2
<1>4. \A a \in Artifacts :
         /\ status'[a] = IF a \in C THEN "processing" ELSE IF a \in R THEN "queued" ELSE status[a]
         /\ token'[a] = IF a \in C THEN claims[a] + 1 ELSE IF a \in R THEN 0 ELSE token[a]
         /\ lease'[a] = IF a \in C THEN "live" ELSE IF a \in R THEN "none" ELSE lease[a]
  BY DEF Claim, SetTokens
<1>5. /\ status' \in [Artifacts -> Closed \cup {"none", "queued", "processing", "ready"}]
      /\ lease' \in [Artifacts -> {"none", "live", "lapsed"}]
  BY DEF Claim, Rows, TypeOK
<1>6. \A a \in Artifacts : /\ (status'[a] = "processing") <=> (token'[a] # 0)
                           /\ (status'[a] = "processing") <=> (lease'[a] # "none")
  <2> SUFFICES ASSUME NEW a \in Artifacts
               PROVE  /\ (status'[a] = "processing") <=> (token'[a] # 0)
                      /\ (status'[a] = "processing") <=> (lease'[a] # "none")
    OBVIOUS
  <2>1. CASE a \in C
    <3>1. claims[a] + 1 # 0
      BY <1>2, <2>1 DEF Claims
    <3> QED
      BY <1>4, <2>1, <3>1
  <2>2. CASE a \notin C
    BY <1>4, <2>2 DEF Rows, TypeOK
  <2> QED
    BY <2>1, <2>2
<1>7. /\ wBatch' \in [Workers -> SUBSET (Artifacts \X Claims)]
      /\ \A v \in Workers \ {w} : wBatch'[v] = wBatch[v]
      /\ \A a \in Artifacts, t \in Claims : <<a, t>> \in wBatch'[w] => a \in C /\ t = claims[a] + 1
      /\ wBatch'[w] = {<<a, claims[a] + 1>> : a \in C}
  <2>1. wBatch' = [wBatch EXCEPT ![w] = {<<a, claims[a] + 1>> : a \in C}]
    BY DEF Claim
  <2>2. {<<a, claims[a] + 1>> : a \in C} \subseteq Artifacts \X Claims
    BY <1>2
  <2> QED
    BY <2>1, <2>2 DEF Rows, TypeOK
<1>8. TypeOK'
  BY <1>1, <1>3, <1>5, <1>6, <1>7 DEF Rows, TypeOK, pVars, eVars
<1>9. \A a \in Artifacts : /\ status[a] \in Closed => status'[a] \in Closed
                           /\ status[a] = "ready" => status'[a] = "ready"
  BY <1>1, <1>4 DEF Closed
<1>10. ASSUME NEW v \in Workers PROVE WorkerShape(v)'
  <2>1. WorkerShape(v)
    BY DEF Rows
  <2>2. ASSUME wPc[v] # "idle" PROVE wTok[v] \in 1 .. claims'[wArt[v]]
    <3>1. wArt[v] \in Artifacts /\ wTok[v] \in 1 .. claims[wArt[v]]
      BY <2>1, <2>2 DEF WorkerShape
    <3>2. claims[wArt[v]] \in 0 .. MaxClaims
      BY <3>1 DEF Rows, TypeOK
    <3> QED
      BY <1>2, <3>1, <3>2
  <2>3. wPc[v] \in {"wipe", "clear"} => status'[wArt[v]] \in Closed
    BY <1>9, <2>1 DEF WorkerShape
  <2> QED
    BY <1>1, <2>1, <2>2, <2>3 DEF WorkerShape
<1>11. ASSUME NEW p \in Purgers PROVE PurgerShape(p)'
  BY <1>1, <1>9 DEF Rows, PurgerShape, pVars
<1>12. TokensWereClaimed'
  <2> SUFFICES ASSUME NEW a \in Artifacts
               PROVE  /\ token'[a] <= claims'[a]
                      /\ \A v \in Workers, t \in Claims : <<a, t>> \in wBatch'[v] => t <= claims'[a]
                      /\ \A k \in Claims : <<a, k>> \in deferred' => status'[a] \in Closed
    BY DEF TokensWereClaimed
  <2>1. ASSUME NEW v \in Workers, NEW t \in Claims, <<a, t>> \in wBatch'[v]
        PROVE  t <= claims'[a]
    <3>1. CASE v = w
      BY <1>2, <1>7, <2>1, <3>1 DEF Claims
    <3>2. CASE v # w
      <4>1. t <= claims[a] /\ claims[a] \in 0 .. MaxClaims /\ claims'[a] \in 0 .. MaxClaims
        BY <1>2, <1>7, <2>1, <3>2 DEF Rows, TokensWereClaimed, TypeOK
      <4> QED
        BY <1>2, <4>1 DEF Claims
    <3> QED
      BY <3>1, <3>2
  <2>2. \A k \in Claims : <<a, k>> \in deferred' => status'[a] \in Closed
    BY <1>1, <1>9 DEF Rows, TokensWereClaimed, eVars
  <2> QED
    BY <1>2, <2>1, <2>2
<1>13. TokensDiffer'
  <2>1. ASSUME NEW v \in Workers, NEW a \in Artifacts, NEW t \in Claims, <<a, t>> \in wBatch'[w],
               \/ <<a, t>> \in wBatch[v]
               \/ wPc[v] # "idle" /\ wArt[v] = a /\ wTok[v] = t
        PROVE  FALSE
    <3>1. t = claims[a] + 1 /\ claims[a] \in 0 .. MaxClaims
      BY <1>7, <2>1 DEF Rows, TypeOK
    <3>2. t <= claims[a]
      BY <2>1, Busy DEF Rows, TokensWereClaimed
    <3> QED
      BY <3>1, <3>2
  <2> SUFFICES ASSUME NEW u \in Workers, NEW v \in Workers
               PROVE  /\ wPc'[v] # "idle" => <<wArt'[v], wTok'[v]>> \notin wBatch'[u]
                      /\ u # v =>
                           /\ wBatch'[u] \cap wBatch'[v] = {}
                           /\ wPc'[u] # "idle" /\ wPc'[v] # "idle" /\ wArt'[u] = wArt'[v]
                              => wTok'[u] # wTok'[v]
    BY DEF TokensDiffer
  <2>2. wPc'[v] # "idle" => <<wArt'[v], wTok'[v]>> \notin wBatch'[u]
    <3>1. CASE u = w
      <4> SUFFICES ASSUME wPc[v] # "idle", <<wArt[v], wTok[v]>> \in wBatch'[w] PROVE FALSE
        BY <1>1, <3>1
      <4>1. wArt[v] \in Artifacts /\ wTok[v] \in Claims
        BY Busy
      <4> QED
        BY <2>1, <4>1
    <3>2. CASE u # w
      BY <1>1, <1>7, <3>2 DEF Rows, TokensDiffer
    <3> QED
      BY <3>1, <3>2
  <2>3. ASSUME u # v PROVE wBatch'[u] \cap wBatch'[v] = {}
    <3>1. ASSUME NEW x \in Workers, x # w PROVE wBatch'[w] \cap wBatch'[x] = {}
      <4> SUFFICES ASSUME NEW e \in wBatch'[w], e \in wBatch[x] PROVE FALSE
        BY <1>7, <3>1
      <4>1. PICK a \in C : e = <<a, claims[a] + 1>>
        BY <1>7
      <4> QED
        BY <1>2, <2>1, <4>1
    <3>2. CASE u = w
      BY <2>3, <3>1, <3>2
    <3>3. CASE v = w
      BY <2>3, <3>1, <3>3
    <3>4. CASE u # w /\ v # w
      BY <1>7, <2>3, <3>4 DEF Rows, TokensDiffer
    <3> QED
      BY <3>2, <3>3, <3>4
  <2> QED
    BY <1>1, <2>2, <2>3 DEF Rows, TokensDiffer
<1> QED
  BY <1>8, <1>10, <1>11, <1>12, <1>13 DEF Rows

\* The retention pass.
LEMMA PurgerRows ==
    ASSUME Rows, NEW p \in Purgers, PurgerStep(p)
    PROVE  Rows'
<1>1. UNCHANGED wVars /\ UNCHANGED eVars /\ late' = late
  BY DEF PurgerStep, PurgeLists, PurgeDeletes, PurgeClears, ExpireReads, ExpireWrites, PurgerStops,
     storeVars
<1>2. TypeOK /\ PurgerShape(p) /\ 0 \in 0 .. MaxClaims
  BY ExportAssumption DEF Rows
<1>3. RowsAdvance
  <2>1. CASE UNCHANGED <<rowVars, store>>
    BY <1>1, <1>2, <2>1, SameRows DEF TypeOK
  <2>2. CASE PurgeDeletes(p)
    <3>1. pArt[p] \in Artifacts
      BY <1>2, <2>2 DEF PurgeDeletes, PurgerShape
    <3> QED
      BY <1>1, <1>2, <2>2, <3>1, StoreTypes, SameRows DEF TypeOK, PurgeDeletes
  <2>3. CASE PurgeClears(p)
    BY <1>2, <2>3 DEF PurgeClears, TypeOK, RowsAdvance, RowsTyped, storeVars
  <2>4. CASE ExpireWrites(p)
    <3>1. pArt[p] \in Artifacts /\ status[pArt[p]] \in Closed \cup {"ready"}
      BY <1>2, <2>4 DEF ExpireWrites, PurgerShape
    <3> QED
      BY <1>2, <2>4, <3>1 DEF ExpireWrites, TypeOK, RowsAdvance, RowsTyped, storeVars, Closed
  <2> QED
    BY <2>1, <2>2, <2>3, <2>4
       DEF PurgerStep, PurgeLists, ExpireReads, PurgerStops, storeVars
<1>4. ASSUME NEW pc \in {"idle", "delete", "clear", "expire"},
             NEW a \in Artifacts \cup {NoArtifact}, NEW s \in Closed \cup {"none"},
             NEW k \in 0 .. MaxClaims, PurgerAt(p, pc, a, s, k),
             pc \in {"delete", "clear"} => a \in Artifacts /\ k \in Claims /\ status[a] \in Closed,
             pc = "expire" => a \in Artifacts /\ status[a] \in Closed \cup {"ready"}
      PROVE  Rows'
  <2>1. /\ pPc' \in [Purgers -> {"idle", "delete", "clear", "expire"}]
        /\ pArt' \in [Purgers -> Artifacts \cup {NoArtifact}]
        /\ pStatus' \in [Purgers -> Closed \cup {"none"}]
        /\ pKey' \in [Purgers -> 0 .. MaxClaims]
        /\ pPc'[p] = pc /\ pArt'[p] = a /\ pKey'[p] = k
        /\ \A q \in Purgers \ {p} : pPc'[q] = pPc[q] /\ pArt'[q] = pArt[q] /\ pKey'[q] = pKey[q]
    BY <1>2, <1>4 DEF PurgerAt, TypeOK
  <2>2. ASSUME NEW q \in Purgers PROVE PurgerShape(q)'
    <3>1. CASE q = p
      BY <1>3, <1>4, <2>1, <3>1 DEF PurgerShape, RowsAdvance
    <3>2. CASE q # p
      BY <1>3, <2>1, <3>2 DEF Rows, PurgerShape, RowsAdvance
    <3> QED
      BY <3>1, <3>2
  <2>3. /\ erased' \in BOOLEAN /\ deferred' \subseteq Artifacts \X Claims
        /\ \A b \in Artifacts, j \in Claims : <<b, j>> \in deferred' => status'[b] \in Closed
    BY <1>1, <1>3 DEF Rows, TypeOK, TokensWereClaimed, RowsAdvance, eVars
  <2> QED
    BY <1>1, <1>3, <2>1, <2>2, <2>3, OtherRows
<1>5. CASE PurgerRests(p)
  BY <1>2, <1>4, <1>5 DEF PurgerRests
<1>6. ASSUME NEW a \in Artifacts, PurgeLists(p, a) PROVE Rows'
  <2>1. PurgerAt(p, "delete", a, status[a], key[a]) /\ status[a] \in Closed /\ key[a] # 0
    BY <1>6 DEF PurgeLists, Purgeable
  <2>2. key[a] \in Claims /\ key[a] \in 0 .. MaxClaims
    BY <1>2, <2>1 DEF TypeOK, Claims
  <2> QED
    BY <1>4, <2>1, <2>2
<1>7. CASE PurgeDeletes(p)
  <2>1. PurgerAt(p, "clear", pArt[p], pStatus[p], pKey[p]) /\ pPc[p] = "delete"
    BY <1>7 DEF PurgeDeletes
  <2> QED
    BY <1>2, <1>4, <2>1 DEF TypeOK, PurgerShape
<1>8. ASSUME NEW a \in Artifacts, ExpireReads(p, a) PROVE Rows'
  BY <1>2, <1>4, <1>8 DEF ExpireReads
<1> QED
  BY <1>5, <1>6, <1>7, <1>8 DEF PurgerStep, PurgeClears, ExpireWrites, PurgerStops

\* The subject's side, storage, and time.
LEMMA WorldRows ==
    ASSUME Rows,
           \/ \E a \in Artifacts : Request(a) \/ LeaseLapses(a)
           \/ \E a \in Artifacts, k \in Claims : LateArrives(a, k) \/ DeferredDelete(a, k)
           \/ Erase
    PROVE  Rows'
<1>1. UNCHANGED wVars /\ UNCHANGED pVars
  BY DEF Request, LeaseLapses, LateArrives, DeferredDelete, Erase
<1>2. TypeOK /\ \A p \in Purgers : PurgerShape(p)
  BY DEF Rows
<1>3. ASSUME RowsAdvance, erased' \in BOOLEAN, deferred' \subseteq Artifacts \X Claims,
             \A a \in Artifacts, k \in Claims : <<a, k>> \in deferred' => status'[a] \in Closed
      PROVE  Rows'
  <2>1. \A p \in Purgers : PurgerShape(p)'
    BY <1>1, <1>2, <1>3 DEF PurgerShape, RowsAdvance, pVars
  <2> QED
    BY <1>1, <1>2, <1>3, <2>1, OtherRows DEF TypeOK, pVars
<1>4. ASSUME RowsAdvance, erased' = erased, deferred' \subseteq deferred PROVE Rows'
  BY <1>2, <1>3, <1>4 DEF Rows, TypeOK, TokensWereClaimed, RowsAdvance
<1>5. ASSUME NEW a \in Artifacts, Request(a) PROVE Rows'
  <2>1. RowsAdvance
    BY <1>2, <1>5 DEF Request, TypeOK, RowsAdvance, RowsTyped, storeVars, Closed
  <2> QED
    BY <1>4, <1>5, <2>1 DEF Request, eVars
<1>6. ASSUME NEW a \in Artifacts, LeaseLapses(a) PROVE Rows'
  <2>1. RowsAdvance
    BY <1>2, <1>6 DEF LeaseLapses, TypeOK, RowsAdvance, RowsTyped, storeVars
  <2> QED
    BY <1>4, <1>6, <2>1 DEF LeaseLapses, eVars
<1>7. ASSUME NEW a \in Artifacts, NEW k \in Claims, LateArrives(a, k) \/ DeferredDelete(a, k)
      PROVE  Rows'
  <2>1. UNCHANGED rowVars /\ erased' = erased /\ deferred' \subseteq deferred
    BY <1>7 DEF LateArrives, DeferredDelete, eVars
  <2>2. \E s \in {"missing", "reserved", "object"} : store' = store \/ StoreAt(a, k, s)
    BY <1>7 DEF LateArrives, DeferredDelete
  <2>3. late' \in [Artifacts -> SUBSET Claims]
    <3>1. late \in [Artifacts -> SUBSET Claims]
      BY <1>2 DEF TypeOK
    <3>2. late' = late \/ late' = [late EXCEPT ![a] = late[a] \ {k}]
      BY <1>7 DEF LateArrives, DeferredDelete
    <3> QED
      BY <3>1, <3>2
  <2> QED
    BY <1>4, <2>1, <2>2, <2>3, StoreTypes, SameRows
<1>8. CASE Erase
  <2>1. RowsAdvance
    BY <1>2, <1>8 DEF Erase, NoneProcessing, TypeOK, RowsAdvance, RowsTyped, storeVars, Closed
  <2>2. /\ erased' \in BOOLEAN /\ deferred' \subseteq Artifacts \X Claims
        /\ \A a \in Artifacts, k \in Claims : <<a, k>> \in deferred' => status'[a] \in Closed
    <3>1. deferred' = {<<a, key[a]>> : a \in {b \in Artifacts : key[b] # 0}} /\ erased' = TRUE
      BY <1>8 DEF Erase
    <3>2. \A a \in Artifacts : key[a] # 0 => key[a] \in Claims /\ status'[a] = "cancelled"
      BY <1>2, <1>8 DEF Erase, TypeOK, Claims
    <3> QED
      BY <3>1, <3>2 DEF Closed
  <2> QED
    BY <1>3, <2>1, <2>2
<1> QED
  BY <1>5, <1>6, <1>7, <1>8

\* The first layer is inductive.
LEMMA NextRows ==
    ASSUME Rows, [Next]_vars
    PROVE  Rows'
<1>1. CASE UNCHANGED vars
  BY <1>1 DEF vars, rowVars, storeVars, wVars, pVars, eVars, Rows, TypeOK, WorkerShape, PurgerShape,
     TokensWereClaimed, TokensDiffer
<1>2. ASSUME NEW w \in Workers, WorkerStep(w) PROVE Rows'
  BY <1>2, PlainRows, KeyRows, EndRows, StopRows, BeatRows, StartRows, ClaimRows DEF WorkerStep
<1>3. CASE Next
  BY <1>2, <1>3, PurgerRows, WorldRows DEF Next
<1> QED
  BY <1>1, <1>3

-------------------------------------------------------------------------------
(* Second layer: what a step must satisfy to keep storage and rows together. *)

\* A key is first used by the claim it belongs to, which thereby goes on.
UsedByItsClaim ==
    \A a \in Artifacts, k \in Claims :
        Untouched(a, k) =>
            \/ Untouched(a, k)'
            \/ \E w \in Workers : /\ wPc[w] \in OnOwnKey /\ wArt[w] = a /\ wTok[w] = k
                                  /\ wPc'[w] \notin BeforeFresh \cup {"reserve"}

\* Claims are new, and a lease is begun once.
ClaimsAreNew ==
    /\ \A a \in Artifacts : claims'[a] \in Nat /\ claims[a] <= claims'[a]
    /\ \A w \in Workers, a \in Artifacts, k \in Claims :
          <<a, k>> \in wBatch'[w] => <<a, k>> \in wBatch[w] \/ k > claims[a]
    /\ \A w \in Workers :
          wPc'[w] \in BeforeFresh \cup {"reserve"} =>
              \/ /\ wPc[w] \in BeforeFresh \cup {"reserve"}
                 /\ wArt'[w] = wArt[w] /\ wTok'[w] = wTok[w]
              \/ <<wArt'[w], wTok'[w]>> \in wBatch[w]

LEMMA UntouchedKept ==
    ASSUME Rows, Rows', Storage, UsedByItsClaim, ClaimsAreNew
    PROVE  Unclaimed' /\ BatchUntouched' /\ WorkUntouched'
<1> DEFINE Early == BeforeFresh \cup {"reserve"}
<1>1. ASSUME NEW w \in Workers, wPc[w] \in OnOwnKey
      PROVE  /\ wPc[w] # "idle" /\ wArt[w] \in Artifacts /\ wTok[w] \in Claims
             /\ wTok[w] <= claims[wArt[w]] /\ claims[wArt[w]] \in Nat
  BY <1>1, Busy DEF OnOwnKey, Rows, TypeOK
<1>2. Unclaimed'
  <2> SUFFICES ASSUME NEW a \in Artifacts, NEW k \in Claims, k > claims'[a] PROVE Untouched(a, k)'
    BY DEF Unclaimed
  <2>1. k > claims[a] /\ k \in Nat /\ claims[a] \in Nat
    BY DEF ClaimsAreNew, Rows, TypeOK, Claims
  <2>2. Untouched(a, k)
    BY <2>1 DEF Storage, Unclaimed
  <2> QED
    BY <1>1, <2>1, <2>2 DEF UsedByItsClaim
<1>3. BatchUntouched'
  <2> SUFFICES ASSUME NEW v \in Workers, NEW a \in Artifacts, NEW k \in Claims,
                      <<a, k>> \in wBatch'[v]
               PROVE  Untouched(a, k)'
    BY DEF BatchUntouched
  <2>1. CASE <<a, k>> \in wBatch[v]
    <3>1. Untouched(a, k)
      BY <2>1 DEF Storage, BatchUntouched
    <3> QED
      BY <1>1, <2>1, <3>1 DEF UsedByItsClaim, Rows, TokensDiffer
  <2>2. CASE k > claims[a]
    <3>1. Untouched(a, k)
      BY <2>2 DEF Storage, Unclaimed
    <3>2. k \in Nat /\ claims[a] \in Nat
      BY DEF Rows, TypeOK, Claims
    <3> QED
      BY <1>1, <2>2, <3>1, <3>2 DEF UsedByItsClaim
  <2> QED
    BY <2>1, <2>2 DEF ClaimsAreNew
<1>4. WorkUntouched'
  <2> SUFFICES ASSUME NEW v \in Workers, wPc'[v] \in Early
               PROVE  Untouched(wArt[v], wTok[v])'
    BY DEF WorkUntouched
  <2>1. CASE wPc[v] \in Early /\ wArt'[v] = wArt[v] /\ wTok'[v] = wTok[v]
    <3>1. wPc[v] # "idle"
      BY <2>1 DEF BeforeFresh
    <3>2. wArt[v] \in Artifacts /\ wTok[v] \in Claims /\ Untouched(wArt[v], wTok[v])
      BY <2>1, <3>1, Busy DEF Storage, WorkUntouched
    <3>3. ASSUME NEW w \in Workers, wPc[w] \in OnOwnKey, wArt[w] = wArt[v], wTok[w] = wTok[v]
          PROVE  w = v
      BY <1>1, <3>1, <3>3 DEF Rows, TokensDiffer
    <3>4. Untouched(wArt[v], wTok[v])' \/ wPc'[v] \notin Early
      <4> HIDE DEF Early
      <4>1. \/ store'[wArt[v]][wTok[v]] = "missing" /\ wTok[v] \notin late'[wArt[v]]
            \/ wPc'[v] \notin Early
        BY <3>2, <3>3 DEF UsedByItsClaim, Untouched, Early
      <4> QED
        BY <2>1, <4>1 DEF Untouched
    <3> QED
      BY <3>4
  <2>2. CASE <<wArt'[v], wTok'[v]>> \in wBatch[v]
    <3> DEFINE a == wArt'[v]
               k == wTok'[v]
    <3>1. a \in Artifacts /\ k \in Claims
      BY <2>2 DEF Rows, TypeOK
    <3>2. Untouched(a, k)
      BY <2>2, <3>1 DEF Storage, BatchUntouched
    <3>3. store'[a][k] = "missing" /\ k \notin late'[a]
      BY <1>1, <2>2, <3>1, <3>2 DEF UsedByItsClaim, Untouched, Rows, TokensDiffer
    <3> QED
      BY <3>3 DEF Untouched
  <2> QED
    BY <2>1, <2>2 DEF ClaimsAreNew
<1> QED
  BY <1>2, <1>3, <1>4

\* Objects come from validated publications, a validation finds the key in the row, a
\* reservation is never validated already, and the row forgets only what is gone.
ObjectsArePublished ==
    \A a \in Artifacts, k \in Claims :
        store'[a][k] = "object" =>
            store[a][k] = "object" \/ (store[a][k] = "reserved" /\ Armed(a, k))
ArmedByValidation ==
    \A a \in Artifacts, k \in Claims :
        Armed(a, k)' => Armed(a, k) \/ (key[a] = k /\ key'[a] = k /\ ~Forgets(a, k)')
ReservedUnarmed ==
    \A a \in Artifacts, k \in Claims :
        store'[a][k] = "reserved" => store[a][k] = "reserved" \/ ~Armed(a, k)'
KeysAreForgotten ==
    \A a \in Artifacts : key'[a] # key[a] => key[a] = 0 \/ Forgets(a, key[a])
ForgetsWhatIsGone ==
    \A a \in Artifacts, k \in Claims : Forgets(a, k)' => Forgets(a, k) \/ store'[a][k] = "missing"

LEMMA NamesKept ==
    ASSUME Rows, Storage, ObjectsArePublished, ArmedByValidation, ReservedUnarmed,
           KeysAreForgotten, ForgetsWhatIsGone
    PROVE  NoOrphanObject' /\ ArmedIsNamed' /\ ForgottenIsGone'
<1>1. ASSUME NEW a \in Artifacts, NEW k \in Claims,
             store[a][k] = "object" \/ (store[a][k] = "reserved" /\ Armed(a, k))
      PROVE  key[a] = k /\ key'[a] = k
  <2>1. key[a] = k
    BY <1>1 DEF Storage, NoOrphanObject, ArmedIsNamed
  <2>2. k # 0
    BY DEF Claims
  <2>3. ~Forgets(a, k)
    BY <1>1 DEF Storage, ForgottenIsGone
  <2> QED
    BY <2>1, <2>2, <2>3 DEF KeysAreForgotten
<1>2. NoOrphanObject'
  BY <1>1 DEF NoOrphanObject, ObjectsArePublished
<1>3. ArmedIsNamed'
  <2> SUFFICES ASSUME NEW a \in Artifacts, NEW k \in Claims, store'[a][k] = "reserved", Armed(a, k)'
               PROVE  key'[a] = k
    BY DEF ArmedIsNamed
  <2> QED
    BY <1>1 DEF ReservedUnarmed, ArmedByValidation
<1>4. ForgottenIsGone'
  <2> SUFFICES ASSUME NEW a \in Artifacts, NEW k \in Claims, Forgets(a, k)'
               PROVE  /\ store'[a][k] # "object"
                      /\ ~(store'[a][k] = "reserved" /\ Armed(a, k)')
    BY DEF ForgottenIsGone
  <2>1. CASE store'[a][k] = "missing"
    BY <2>1
  <2>2. CASE Forgets(a, k)
    <3>1. store[a][k] # "object" /\ ~(store[a][k] = "reserved" /\ Armed(a, k))
      BY <2>2 DEF Storage, ForgottenIsGone
    <3> QED
      BY <3>1 DEF ObjectsArePublished, ReservedUnarmed, ArmedByValidation
  <2> QED
    BY <2>1, <2>2 DEF ForgetsWhatIsGone
<1> QED
  BY <1>2, <1>3, <1>4

\* What the holder of the lease knows, worker by worker.
Knows(w) ==
    wPc[w] # "idle" /\ Own(w) =>
        /\ wPc[w] = "again" => key[wArt[w]] = 0
        /\ wPc[w] = "ready" /\ key[wArt[w]] = wKey[w] => store[wArt[w]][wKey[w]] = "object"
        /\ erased => wPc[w] \in {"prepare", "fail"}

\* Only archives of closed rows are deleted.
DeletedIsClosed ==
    \A a \in Artifacts, k \in Claims :
        store[a][k] = "object" /\ store'[a][k] # "object" => status'[a] \in Closed

\* Worker v stays where it is.
Stays(v) ==
    /\ wPc'[v] = wPc[v] /\ wArt'[v] = wArt[v] /\ wTok'[v] = wTok[v] /\ wKey'[v] = wKey[v]

LEMMA KnowsKept ==
    ASSUME Rows, Storage, DeletedIsClosed, NEW v \in Workers, Stays(v),
           wPc[v] # "idle" /\ Own(v)' =>
              Own(v) /\ key'[wArt[v]] = key[wArt[v]] /\ (erased' => erased)
    PROVE  Knows(v)'
<1> SUFFICES ASSUME wPc[v] # "idle", Own(v)'
             PROVE  /\ wPc[v] = "again" => key'[wArt[v]] = 0
                    /\ wPc[v] = "ready" /\ key'[wArt[v]] = wKey[v]
                          => store'[wArt[v]][wKey[v]] = "object"
                    /\ erased' => wPc[v] \in {"prepare", "fail"}
  BY DEF Knows, Stays
<1>1. status'[wArt[v]] \notin Closed
  BY DEF Own, Stays, Closed
<1>2. wArt[v] \in Artifacts /\ (wPc[v] = "ready" => wKey[v] \in Claims)
  BY Busy DEF WithKey
<1> QED
  BY <1>1, <1>2 DEF Storage, HolderKnows, DeletedIsClosed

\* A lease that is lost does not come back.
LEMMA OwnKept ==
    ASSUME Rows, Rows', NEW v \in Workers, wPc[v] # "idle",
           wArt'[v] = wArt[v], wTok'[v] = wTok[v], RowsAdvance, Own(v)'
    PROVE  Own(v)
<1>1. wArt[v] \in Artifacts /\ wTok[v] \in Claims
  BY Busy
<1>2. token'[wArt[v]] = wTok[v] /\ wTok[v] # 0
  BY <1>1 DEF Own, Claims
<1>3. token[wArt[v]] = wTok[v]
  BY <1>1, <1>2 DEF RowsAdvance
<1> QED
  BY <1>1, <1>2, <1>3 DEF Own, Rows, TypeOK

\* The conditions together.
StorageStep ==
    /\ UsedByItsClaim /\ ClaimsAreNew
    /\ ObjectsArePublished /\ ArmedByValidation /\ ReservedUnarmed
    /\ KeysAreForgotten /\ ForgetsWhatIsGone

LEMMA StorageKept ==
    ASSUME Rows, Rows', Storage, StorageStep, \A w \in Workers : Knows(w)', ReadyIsStored'
    PROVE  Storage'
<1>1. HolderKnows'
  BY DEF Knows, HolderKnows
<1> QED
  BY <1>1, UntouchedKept, NamesKept DEF StorageStep, Storage

\* Worker w goes to step pc with key k, or is done.
Turns(w, pc, k) ==
    /\ wPc'[w] = pc /\ wKey'[w] = k /\ wBatch'[w] \subseteq wBatch[w]
    /\ pc # "idle" => wPc[w] # "idle" /\ wArt'[w] = wArt[w] /\ wTok'[w] = wTok[w]
    /\ \A v \in Workers \ {w} : Stays(v) /\ wBatch'[v] = wBatch[v]

LEMMA GoesTurns ==
    ASSUME Rows, NEW w \in Workers, wPc[w] # "idle", NEW pc \in WorkerSteps,
           NEW k \in 0 .. MaxClaims, Goes(w, pc, k)
    PROVE  Turns(w, pc, k)
  BY GoesMoves DEF Rows, Worker, Turns, Stays

LEMMA FinishesTurns ==
    ASSUME Rows, NEW w \in Workers, NEW batch \in SUBSET wBatch[w], Finishes(w, batch)
    PROVE  Turns(w, "idle", 0)
<1>1. batch \in SUBSET (Artifacts \X Claims) /\ TypeOK
  BY DEF Rows, TypeOK
<1> QED
  BY <1>1, FinishesMoves DEF Worker, Turns, Stays

\* Nothing is forgotten while worker w holds the lease, but by w itself.
LEMMA HolderForgets ==
    ASSUME Rows, NEW w \in Workers, wPc[w] # "idle", Own(w), wPc[w] # "reset", NEW k
    PROVE  ~Forgets(wArt[w], k)
<1>1. status[wArt[w]] \notin Closed
  BY DEF Own, Closed
<1>2. ASSUME NEW v \in Workers, wPc[v] = "reset", Own(v), wArt[v] = wArt[w] PROVE FALSE
  <2>1. v = w
    BY <1>2, OneOwner
  <2> QED
    BY <1>2, <2>1
<1>3. ASSUME NEW v \in Workers, wPc[v] = "clear", wArt[v] = wArt[w] PROVE FALSE
  BY <1>1, <1>3, Busy
<1>4. ASSUME NEW p \in Purgers, pPc[p] = "clear", pArt[p] = wArt[w] PROVE FALSE
  BY <1>1, <1>4 DEF Rows, PurgerShape
<1> QED
  BY <1>2, <1>3, <1>4 DEF Forgets

\* Who forgets a key after a step of worker w forgot it before, or is w.
LEMMA TurnForgets ==
    ASSUME Rows, Rows', NEW w \in Workers, NEW pc, NEW k, Turns(w, pc, k), RowsAdvance,
           UNCHANGED pVars,
           pc \in {"reset", "clear"} => store'[wArt[w]][k] = "missing"
    PROVE  ForgetsWhatIsGone
<1> SUFFICES ASSUME NEW a \in Artifacts, NEW j \in Claims, Forgets(a, j)',
                    store'[a][j] # "missing"
             PROVE  Forgets(a, j)
  BY DEF ForgetsWhatIsGone
<1>1. ASSUME NEW v \in Workers, wPc'[v] \in {"reset", "clear"}, wArt'[v] = a, wKey'[v] = j
      PROVE  v # w /\ Stays(v) /\ wPc[v] # "idle"
  BY <1>1 DEF Turns, Stays
<1>2. ASSUME NEW v \in Workers, wPc'[v] = "reset", Own(v)', wArt'[v] = a, wKey'[v] = j
      PROVE  Forgets(a, j)
  <2>1. Own(v)
    BY <1>1, <1>2, OwnKept DEF Stays
  <2> QED
    BY <1>1, <1>2, <2>1 DEF Forgets, Stays
<1>3. ASSUME NEW v \in Workers, wPc'[v] = "clear", wArt'[v] = a, wKey'[v] = j
      PROVE  Forgets(a, j)
  BY <1>1, <1>3 DEF Forgets, Stays
<1>4. ASSUME NEW p \in Purgers, pPc'[p] = "clear", pArt'[p] = a, pKey'[p] = j
      PROVE  Forgets(a, j)
  BY <1>4 DEF Forgets, pVars
<1> QED
  BY <1>2, <1>3, <1>4 DEF Forgets

\* A step of worker w that writes no row.
LEMMA QuietStorage ==
    ASSUME Rows, Rows', Storage, NEW w \in Workers, NEW pc, NEW k, Turns(w, pc, k),
           UNCHANGED rowVars, UNCHANGED pVars, UNCHANGED eVars,
           pc \in BeforeFresh \cup {"reserve"} => wPc[w] \in BeforeFresh \cup {"reserve"},
           UsedByItsClaim, ObjectsArePublished, ReservedUnarmed, DeletedIsClosed,
           \A a \in Artifacts : \A j \in late'[a] : Armed(a, j),
           pc = "publish" => Own(w) /\ wPc[w] # "reset" /\ k = key[wArt[w]],
           pc \in {"reset", "clear"} => store'[wArt[w]][k] = "missing",
           Knows(w)'
    PROVE  Storage'
<1>1. RowsAdvance
  BY DEF Rows, TypeOK, RowsAdvance, RowsTyped, rowVars
<1>2. ClaimsAreNew
  <2>1. \A v \in Workers : wBatch'[v] \subseteq wBatch[v]
    BY DEF Turns
  <2>2. \A a \in Artifacts : claims'[a] = claims[a] /\ claims[a] \in Nat
    BY DEF rowVars, Rows, TypeOK
  <2>3. \A v \in Workers :
           wPc'[v] \in BeforeFresh \cup {"reserve"} =>
               /\ wPc[v] \in BeforeFresh \cup {"reserve"}
               /\ wArt'[v] = wArt[v] /\ wTok'[v] = wTok[v]
    BY DEF Turns, Stays, BeforeFresh
  <2> QED
    BY <2>1, <2>2, <2>3 DEF ClaimsAreNew
<1>3. ArmedByValidation
  <2> SUFFICES ASSUME NEW a \in Artifacts, NEW j \in Claims, Armed(a, j)', ~Armed(a, j)
               PROVE  key[a] = j /\ key'[a] = j /\ ~Forgets(a, j)'
    BY DEF ArmedByValidation
  <2>1. PICK v \in Workers : wPc'[v] = "publish" /\ wArt'[v] = a /\ wKey'[v] = j
    BY DEF Armed
  <2>2. v = w
    BY <2>1 DEF Armed, Turns, Stays
  <2>3. pc = "publish" /\ wArt[w] = a /\ wTok'[w] = wTok[w] /\ k = j /\ wPc[w] # "idle"
    BY <2>1, <2>2 DEF Turns
  <2>4. key[a] = j /\ key'[a] = j
    BY <2>3 DEF rowVars
  <2>5. ~Forgets(a, j)
    BY <2>3, HolderForgets
  <2>6. ~Forgets(a, j)'
    <3> SUFFICES ASSUME Forgets(a, j)' PROVE FALSE
      OBVIOUS
    <3>1. status[a] \notin Closed
      BY <2>3 DEF Own, Closed
    <3>2. ASSUME NEW u \in Workers, wPc'[u] \in {"reset", "clear"}, wArt'[u] = a,
                 wPc'[u] = "reset" => Own(u)'
          PROVE  FALSE
      <4>1. u # w /\ Stays(u) /\ wPc[u] # "idle"
        BY <2>3, <3>2 DEF Turns, Stays
      <4>2. CASE wPc'[u] = "reset"
        <5>1. Own(u)
          BY <1>1, <3>2, <4>1, <4>2, OwnKept DEF Stays
        <5> QED
          BY <2>3, <3>2, <4>1, <5>1, OneOwner DEF Stays
      <4>3. CASE wPc'[u] = "clear"
        BY <3>1, <3>2, <4>1, <4>3, Busy DEF Stays
      <4> QED
        BY <3>2, <4>2, <4>3
    <3>3. ASSUME NEW p \in Purgers, pPc'[p] = "clear", pArt'[p] = a PROVE FALSE
      BY <3>1, <3>3 DEF Rows, PurgerShape, pVars
    <3> QED
      BY <3>2, <3>3 DEF Forgets
  <2> QED
    BY <2>4, <2>6
<1>4. KeysAreForgotten
  BY DEF KeysAreForgotten, rowVars
<1>5. ForgetsWhatIsGone
  BY <1>1, TurnForgets
<1>6. ASSUME NEW v \in Workers PROVE Knows(v)'
  <2>1. CASE v # w
    <3>1. Stays(v)
      BY <2>1 DEF Turns
    <3>2. wPc[v] # "idle" /\ Own(v)' => Own(v)
      BY <1>1, <3>1, OwnKept DEF Stays
    <3> QED
      BY <3>1, <3>2, KnowsKept DEF rowVars, eVars
  <2> QED
    BY <2>1
<1>7. ReadyIsStored'
  <2> SUFFICES ASSUME NEW a \in Artifacts, status[a] = "ready"
               PROVE  key[a] # 0 /\ store'[a][key[a]] = "object" /\ ~erased
    BY DEF ReadyIsStored, rowVars, eVars
  <2>1. key[a] # 0 /\ store[a][key[a]] = "object" /\ ~erased
    BY DEF Storage, ReadyIsStored
  <2>2. key[a] \in Claims
    BY <2>1 DEF Rows, TypeOK, Claims
  <2>3. status'[a] \notin Closed
    BY DEF rowVars, Closed
  <2> QED
    BY <2>1, <2>2, <2>3 DEF DeletedIsClosed
<1> QED
  BY <1>2, <1>3, <1>4, <1>5, <1>6, <1>7, StorageKept DEF StorageStep

-------------------------------------------------------------------------------
(* Second layer: the steps.                                                *)

\* Storage only loses what it held.
LEMMA Shrinks ==
    ASSUME \A a \in Artifacts, k \in Claims : store'[a][k] \in {"missing", store[a][k]},
           \A a \in Artifacts : late'[a] \subseteq late[a]
    PROVE  /\ UsedByItsClaim /\ ObjectsArePublished /\ ReservedUnarmed
           /\ \A a \in Artifacts : \A j \in late'[a] : Armed(a, j)
  BY DEF UsedByItsClaim, Untouched, ObjectsArePublished, ReservedUnarmed, Armed

\* One key is written.
LEMMA Stored ==
    ASSUME Rows, NEW a \in Artifacts, NEW k \in Claims, NEW s, StoreAt(a, k, s)
    PROVE  /\ store'[a][k] = s
           /\ \A b \in Artifacts, j \in Claims : <<b, j>> # <<a, k>> => store'[b][j] = store[b][j]
<1>1. store \in [Artifacts -> [Claims -> {"missing", "reserved", "object"}]]
  BY DEF Rows, TypeOK
<1>2. store' = [store EXCEPT ![a] = [store[a] EXCEPT ![k] = s]]
  BY DEF StoreAt
<1>3. store[a] \in [Claims -> {"missing", "reserved", "object"}]
  BY <1>1
<1>4. store'[a] = [store[a] EXCEPT ![k] = s] /\ \A b \in Artifacts \ {a} : store'[b] = store[b]
  BY <1>1, <1>2
<1> QED
  BY <1>3, <1>4

\* One key is deleted.
LEMMA Deleted ==
    ASSUME Rows, NEW a \in Artifacts, NEW k \in Claims, UNCHANGED late,
           UNCHANGED store \/ StoreAt(a, k, "missing"),
           store' = store \/ store[a][k] # "object" \/ status'[a] \in Closed
    PROVE  /\ UsedByItsClaim /\ ObjectsArePublished /\ ReservedUnarmed /\ DeletedIsClosed
           /\ \A b \in Artifacts : \A j \in late'[b] : Armed(b, j)
<1>1. \/ store' = store
      \/ /\ store'[a][k] = "missing"
         /\ \A b \in Artifacts, j \in Claims : <<b, j>> # <<a, k>> => store'[b][j] = store[b][j]
  BY Stored
<1>2. \A b \in Artifacts, j \in Claims : store'[b][j] \in {"missing", store[b][j]}
  BY <1>1
<1>3. DeletedIsClosed
  BY <1>1 DEF DeletedIsClosed
<1> QED
  BY <1>2, <1>3, Shrinks

\* What the holder knows after a quiet step of its own.
LEMMA KnowsTurn ==
    ASSUME NEW w \in Workers, NEW pc, NEW k, Turns(w, pc, k), UNCHANGED rowVars, UNCHANGED eVars,
           pc # "idle" /\ Own(w) =>
               /\ pc # "again"
               /\ pc = "ready" => store'[wArt[w]][k] = "object"
               /\ erased => pc = "fail"
    PROVE  Knows(w)'
<1> SUFFICES ASSUME wPc'[w] # "idle", Own(w)'
             PROVE  /\ wPc'[w] = "again" => key'[wArt'[w]] = 0
                    /\ wPc'[w] = "ready" => store'[wArt'[w]][wKey'[w]] = "object"
                    /\ erased' => wPc'[w] \in {"prepare", "fail"}
  BY DEF Knows
<1>1. wPc'[w] = pc /\ wKey'[w] = k /\ wArt'[w] = wArt[w] /\ wTok'[w] = wTok[w]
  BY DEF Turns
<1>2. Own(w)
  BY <1>1 DEF Own, rowVars
<1> QED
  BY <1>1, <1>2 DEF eVars

\* Steps that look, delete or cancel.
LEMMA LooksStorage ==
    ASSUME Rows, Rows', Storage, NEW w \in Workers,
           \/ Raises(w) \/ PrepareReuses(w) \/ Inspect(w) \/ Fence(w) \/ Sweep(w) \/ Validate(w)
           \/ Cancel(w) \/ Wipe(w)
    PROVE  Storage'
<1>1. wPc[w] # "idle" /\ UNCHANGED rowVars /\ UNCHANGED pVars /\ UNCHANGED eVars /\ UNCHANGED late
  BY DEF Raises, PrepareReuses, Preparing, Inspect, Fence, Sweep, Validate, Cancel, Wipe, storeVars
<1>2. /\ wArt[w] \in Artifacts /\ wKey[w] \in 0 .. MaxClaims
      /\ wPc[w] \in WithKey => wKey[w] \in Claims
      /\ wPc[w] \in {"wipe", "clear"} => status[wArt[w]] \in Closed
  BY <1>1, Busy
<1>3. HolderKnows
  BY DEF Storage
<1>4. ASSUME NEW pc \in WorkerSteps, NEW k \in 0 .. MaxClaims, Goes(w, pc, k),
             \/ store' = store
             \/ /\ wKey[w] \in Claims /\ StoreAt(wArt[w], wKey[w], "missing")
                /\ store[wArt[w]][wKey[w]] # "object" \/ status[wArt[w]] \in Closed,
             pc \in BeforeFresh => wPc[w] \in BeforeFresh, pc # "reserve",
             pc = "publish" => Own(w) /\ wPc[w] # "reset" /\ k = key[wArt[w]],
             pc \in {"reset", "clear"} => store'[wArt[w]][k] = "missing",
             pc # "idle" /\ Own(w) =>
               /\ pc # "again"
               /\ pc = "ready" => store'[wArt[w]][k] = "object"
               /\ erased => pc = "fail"
      PROVE  Storage'
  <2>1. Turns(w, pc, k)
    BY <1>1, <1>4, GoesTurns
  <2>2. Knows(w)'
    BY <1>1, <1>4, <2>1, KnowsTurn
  <2>3. UsedByItsClaim /\ ObjectsArePublished /\ ReservedUnarmed /\ DeletedIsClosed
        /\ \A b \in Artifacts : \A j \in late'[b] : Armed(b, j)
    <3>1. CASE store' = store
      BY <1>1, <3>1, Shrinks DEF DeletedIsClosed
    <3>2. CASE store' # store
      <4>1. status' = status
        BY <1>1 DEF rowVars
      <4> QED
        BY <1>1, <1>2, <1>4, <3>2, <4>1, Deleted
    <3> QED
      BY <3>1, <3>2
  <2>4. pc \in BeforeFresh \cup {"reserve"} => wPc[w] \in BeforeFresh \cup {"reserve"}
    BY <1>4
  <2> QED
    BY <1>1, <1>4, <2>1, <2>2, <2>3, <2>4, QuietStorage
<1>5. CASE Raises(w)
  <2>1. /\ Goes(w, IF wPc[w] = "validate" THEN "cancel" ELSE "fail", wKey[w]) /\ store' = store
        /\ Own(w) /\ erased => wPc[w] # "validate"
    BY <1>1, <1>3, <1>5 DEF Raises, storeVars, HolderKnows
  <2> QED
    BY <1>2, <1>4, <2>1 DEF WorkerSteps, BeforeFresh
<1>6. CASE PrepareReuses(w)
  <2>1. wPc[w] = "prepare" /\ Own(w) /\ ~erased /\ store' = store
    BY <1>1, <1>3, <1>6 DEF PrepareReuses, Preparing, Eligible, HolderKnows, storeVars
  <2>2. key[wArt[w]] \in 0 .. MaxClaims /\ Goes(w, "inspect", key[wArt[w]])
    BY <1>2, <1>6, <2>1 DEF PrepareReuses, Rows, TypeOK
  <2> QED
    BY <1>4, <2>1, <2>2 DEF WorkerSteps, BeforeFresh
<1>7. CASE Inspect(w)
  <2>1. /\ Goes(w, IF Matches(wArt[w], wKey[w]) THEN "ready" ELSE "fence", wKey[w])
        /\ store' = store /\ (Own(w) => ~erased) /\ wPc[w] = "inspect"
    BY <1>1, <1>3, <1>7 DEF Inspect, storeVars, HolderKnows
  <2> QED
    BY <1>2, <1>4, <2>1 DEF WorkerSteps, BeforeFresh, Matches
<1>8. CASE Fence(w)
  <2>1. /\ Goes(w, IF ActiveIntent(w) THEN "sweep" ELSE "fail", wKey[w])
        /\ store' = store /\ (Own(w) => ~erased) /\ wPc[w] = "fence"
    BY <1>1, <1>3, <1>8 DEF Fence, storeVars, HolderKnows
  <2> QED
    BY <1>2, <1>4, <2>1 DEF WorkerSteps, BeforeFresh
<1>9. CASE Sweep(w)
  <2>1. (Own(w) => ~erased) /\ wPc[w] = "sweep" /\ wKey[w] \in Claims
    BY <1>1, <1>2, <1>3, <1>9 DEF Sweep, HolderKnows, WithKey
  <2>2. CASE Matches(wArt[w], wKey[w])
    BY <1>2, <1>4, <1>9, <2>1, <2>2 DEF Sweep, WorkerSteps, BeforeFresh, Matches
  <2>3. CASE ~Matches(wArt[w], wKey[w])
    <3>1. StoreAt(wArt[w], wKey[w], "missing") /\ Goes(w, "reset", wKey[w])
      BY <1>9, <2>3 DEF Sweep
    <3>2. store'[wArt[w]][wKey[w]] = "missing"
      BY <1>2, <2>1, <3>1, Stored
    <3> QED
      BY <1>2, <1>4, <2>1, <2>3, <3>1, <3>2 DEF WorkerSteps, BeforeFresh, Matches
  <2> QED
    BY <2>2, <2>3
<1>10. CASE Validate(w)
  <2>1. /\ Goes(w, IF ActiveIntent(w) THEN "publish" ELSE "cancel", wKey[w])
        /\ store' = store /\ (Own(w) => ~erased) /\ wPc[w] = "validate"
    BY <1>1, <1>3, <1>10 DEF Validate, storeVars, HolderKnows
  <2> QED
    BY <1>2, <1>4, <2>1 DEF WorkerSteps, BeforeFresh, ActiveIntent
<1>11. CASE Cancel(w)
  <2>1. /\ Goes(w, "fail", wKey[w]) /\ wPc[w] = "cancel" /\ wKey[w] \in Claims
        /\ \/ store' = store
           \/ store[wArt[w]][wKey[w]] = "reserved" /\ StoreAt(wArt[w], wKey[w], "missing")
    BY <1>2, <1>11 DEF Cancel, Reserved, WithKey
  <2> QED
    BY <1>2, <1>4, <2>1 DEF WorkerSteps, BeforeFresh
<1>12. CASE Wipe(w)
  <2>1. /\ Goes(w, "clear", wKey[w]) /\ wPc[w] = "wipe" /\ wKey[w] \in Claims
        /\ StoreAt(wArt[w], wKey[w], "missing") /\ status[wArt[w]] \in Closed /\ ~Own(w)
    BY <1>2, <1>12 DEF Wipe, WithKey, Own, Closed
  <2>2. store'[wArt[w]][wKey[w]] = "missing"
    BY <1>2, <2>1, Stored
  <2> QED
    BY <1>2, <1>4, <2>1, <2>2 DEF WorkerSteps, BeforeFresh
<1> QED
  BY <1>5, <1>6, <1>7, <1>8, <1>9, <1>10, <1>11, <1>12

\* A worker writes to storage only under the key of its own claim.
LEMMA OwnKey ==
    ASSUME Rows, NEW w \in Workers, wPc[w] \in OnOwnKey
    PROVE  /\ wPc[w] # "idle" /\ wArt[w] \in Artifacts /\ wKey[w] \in Claims /\ wKey[w] = wTok[w]
           /\ wPc[w] \notin BeforeFresh
           /\ \A v \in Workers : wPc[v] \in OnOwnKey /\ wArt[v] = wArt[w] /\ wKey[v] = wKey[w] => v = w
<1>1. wPc[w] # "idle" /\ wPc[w] \notin BeforeFresh
  BY DEF OnOwnKey, BeforeFresh
<1>2. \A v \in Workers : wPc[v] \in OnOwnKey => wPc[v] # "idle" /\ wKey[v] = wTok[v]
  BY Busy DEF OnOwnKey
<1>3. \A v \in Workers : wPc[v] \in OnOwnKey /\ wArt[v] = wArt[w] /\ wKey[v] = wKey[w] => v = w
  BY <1>1, <1>2 DEF Rows, TokensDiffer
<1> QED
  BY <1>1, <1>2, <1>3, Busy DEF WithKey

\* The reservation of a key.
LEMMA ReserveStores ==
    ASSUME Rows, Storage, NEW w \in Workers, wPc[w] = "reserve",
           NEW pc, NEW k, Turns(w, pc, k), pc \notin BeforeFresh \cup {"reserve", "publish"},
           StoreAt(wArt[w], wKey[w], "reserved"), UNCHANGED late
    PROVE  /\ UsedByItsClaim /\ ObjectsArePublished /\ ReservedUnarmed /\ DeletedIsClosed
           /\ \A b \in Artifacts : \A j \in late'[b] : Armed(b, j)
<1>1. /\ wPc[w] \in OnOwnKey /\ wArt[w] \in Artifacts /\ wKey[w] \in Claims /\ wKey[w] = wTok[w]
      /\ \A v \in Workers : wPc[v] \in OnOwnKey /\ wArt[v] = wArt[w] /\ wKey[v] = wKey[w] => v = w
  BY OwnKey DEF OnOwnKey
<1>2. Untouched(wArt[w], wKey[w])
  BY <1>1 DEF Storage, WorkUntouched
<1>3. /\ store'[wArt[w]][wKey[w]] = "reserved"
      /\ \A b \in Artifacts, j \in Claims :
            <<b, j>> # <<wArt[w], wKey[w]>> => store'[b][j] = store[b][j]
  BY <1>1, Stored
<1>4. wPc'[w] = pc
  BY DEF Turns
<1>5. UsedByItsClaim
  BY <1>1, <1>3, <1>4 DEF UsedByItsClaim, Untouched
<1>6. ASSUME NEW a \in Artifacts, NEW j \in Claims, a = wArt[w], j = wKey[w]
      PROVE  ~Armed(a, j)'
  <2>1. j \notin late'[a]
    BY <1>2, <1>6 DEF Untouched
  <2>2. ASSUME NEW v \in Workers, wPc'[v] = "publish", wArt'[v] = a, wKey'[v] = j PROVE FALSE
    <3>1. v # w
      BY <1>4, <2>2
    <3>2. wPc[v] \in OnOwnKey /\ wArt[v] = a /\ wKey[v] = j
      BY <2>2, <3>1 DEF Turns, Stays, OnOwnKey
    <3> QED
      BY <1>1, <1>6, <3>1, <3>2
  <2> QED
    BY <2>1, <2>2 DEF Armed
<1>7. ReservedUnarmed
  <2> SUFFICES ASSUME NEW a \in Artifacts, NEW j \in Claims,
                      store'[a][j] = "reserved", store[a][j] # "reserved"
               PROVE  ~Armed(a, j)'
    BY DEF ReservedUnarmed
  <2>1. a = wArt[w] /\ j = wKey[w]
    BY <1>1, <1>3
  <2> QED
    BY <1>6, <2>1
<1>8. ObjectsArePublished /\ DeletedIsClosed
  BY <1>2, <1>3 DEF ObjectsArePublished, DeletedIsClosed, Untouched
<1> QED
  BY <1>5, <1>7, <1>8 DEF Armed

\* The validated publication, delivered or on its way.
LEMMA PublishStores ==
    ASSUME Rows, Storage, NEW w \in Workers, wPc[w] = "publish",
           NEW pc, NEW k, Turns(w, pc, k), pc \notin BeforeFresh \cup {"reserve", "publish"},
           \/ store' = store
           \/ late' = late /\ Reserved(wArt[w], wKey[w]) /\ StoreAt(wArt[w], wKey[w], "object"),
           MaybeLate(w)
    PROVE  /\ UsedByItsClaim /\ ObjectsArePublished /\ ReservedUnarmed /\ DeletedIsClosed
           /\ \A b \in Artifacts : \A j \in late'[b] : Armed(b, j)
<1>1. wPc[w] \in OnOwnKey /\ wArt[w] \in Artifacts /\ wKey[w] \in Claims /\ wKey[w] = wTok[w]
  BY OwnKey DEF OnOwnKey
<1>2. \/ store' = store
      \/ /\ store[wArt[w]][wKey[w]] = "reserved" /\ store'[wArt[w]][wKey[w]] = "object"
         /\ \A b \in Artifacts, j \in Claims :
               <<b, j>> # <<wArt[w], wKey[w]>> => store'[b][j] = store[b][j]
  BY <1>1, Stored DEF Reserved
<1>3. \A b \in Artifacts : \A j \in late'[b] : j \in late[b] \/ (b = wArt[w] /\ j = wKey[w])
  BY <1>1 DEF MaybeLate, Rows, TypeOK
<1>4. Armed(wArt[w], wKey[w]) /\ wPc'[w] = pc
  BY DEF Armed, Turns
<1>5. UsedByItsClaim
  <2> SUFFICES ASSUME NEW a \in Artifacts, NEW j \in Claims, Untouched(a, j), ~Untouched(a, j)'
               PROVE  a = wArt[w] /\ j = wKey[w]
    BY <1>1, <1>4 DEF UsedByItsClaim
  <2> QED
    BY <1>2, <1>3 DEF Untouched
<1>6. ObjectsArePublished /\ DeletedIsClosed
  BY <1>2, <1>4 DEF ObjectsArePublished, DeletedIsClosed
<1>7. ReservedUnarmed
  BY <1>2 DEF ReservedUnarmed
<1>8. \A b \in Artifacts : \A j \in late'[b] : Armed(b, j)
  BY <1>3, <1>4 DEF Armed
<1> QED
  BY <1>5, <1>6, <1>7, <1>8

\* Reservation and publication.
LEMMA WritesStorage ==
    ASSUME Rows, Rows', Storage, NEW w \in Workers,
           Reserve(w) \/ ReserveFails(w) \/ Publish(w) \/ PublishFails(w)
    PROVE  Storage'
<1>1. /\ wPc[w] \in {"reserve", "publish"} /\ wPc[w] # "idle" /\ wPc[w] \in OnOwnKey
      /\ UNCHANGED rowVars /\ UNCHANGED pVars /\ UNCHANGED eVars
  BY DEF Reserve, ReserveFails, Publish, PublishFails, OnOwnKey
<1>2. wArt[w] \in Artifacts /\ wKey[w] \in 0 .. MaxClaims /\ wKey[w] \in Claims
  BY <1>1, Busy, OwnKey
<1>3. Own(w) => ~erased
  BY <1>1 DEF Storage, HolderKnows
<1>4. PICK pc \in {"validate", "ready", "cancel", "fail"} : Goes(w, pc, wKey[w])
  BY DEF Reserve, ReserveFails, Publish, PublishFails
<1>5. Turns(w, pc, wKey[w]) /\ pc \notin BeforeFresh \cup {"reserve", "publish", "reset", "clear"}
  BY <1>1, <1>2, <1>4, GoesTurns DEF WorkerSteps, BeforeFresh
<1>6. /\ UsedByItsClaim /\ ObjectsArePublished /\ ReservedUnarmed /\ DeletedIsClosed
      /\ \A b \in Artifacts : \A j \in late'[b] : Armed(b, j)
  <2>1. CASE UNCHANGED storeVars
    BY <2>1, Shrinks DEF DeletedIsClosed, storeVars
  <2>2. CASE wPc[w] = "reserve" /\ store' # store
    <3>1. StoreAt(wArt[w], wKey[w], "reserved") /\ late' = late
      BY <2>2 DEF Reserve, ReserveFails, Publish, PublishFails
    <3> QED
      BY <1>5, <2>2, <3>1, ReserveStores
  <2>3. CASE wPc[w] = "publish"
    <3>1. \/ store' = store /\ MaybeLate(w)
          \/ /\ late' = late /\ Reserved(wArt[w], wKey[w])
             /\ StoreAt(wArt[w], wKey[w], "object") /\ MaybeLate(w)
      BY <2>3 DEF Reserve, ReserveFails, Publish, PublishFails, MaybeLate
    <3> QED
      BY <1>5, <2>3, <3>1, PublishStores
  <2>4. wPc[w] = "reserve" => late' = late
    BY DEF Reserve, ReserveFails, Publish, PublishFails
  <2> QED
    BY <1>1, <2>1, <2>2, <2>3, <2>4 DEF storeVars
<1>7. pc = "ready" => store'[wArt[w]][wKey[w]] = "object"
  <2> SUFFICES ASSUME pc = "ready" PROVE store'[wArt[w]][wKey[w]] = "object"
    OBVIOUS
  <2>1. wPc'[w] = "ready"
    BY <1>5 DEF Turns
  <2>2. Publish(w) /\ Reserved(wArt[w], wKey[w])
    <3>1. \A q \in WorkerSteps, j \in 0 .. MaxClaims : Goes(w, q, j) => wPc'[w] = q
      BY <1>1, GoesTurns DEF Turns
    <3> QED
      BY <1>2, <2>1, <3>1 DEF Reserve, ReserveFails, Publish, PublishFails, WorkerSteps
  <2> QED
    BY <1>2, <2>2, Stored DEF Publish
<1>8. Knows(w)'
  BY <1>1, <1>3, <1>4, <1>5, <1>7, KnowsTurn
<1> QED
  BY <1>1, <1>5, <1>6, <1>8, QuietStorage

\* The worker gives the artifact up, or dies.
LEMMA StopStorage ==
    ASSUME Rows, Rows', Storage, NEW w \in Workers, GivesUp(w) \/ WorkerCrash(w)
    PROVE  Storage'
<1>1. UNCHANGED rowVars /\ UNCHANGED pVars /\ UNCHANGED eVars /\ Turns(w, "idle", 0)
  <2>1. \E batch \in SUBSET wBatch[w] : Finishes(w, batch)
    BY DEF GivesUp, WorkerCrash
  <2> QED
    BY <2>1, FinishesTurns DEF GivesUp, WorkerCrash
<1>2. "idle" \notin BeforeFresh \cup {"reserve", "publish"}
  BY DEF BeforeFresh
<1>3. /\ UsedByItsClaim /\ ObjectsArePublished /\ ReservedUnarmed /\ DeletedIsClosed
      /\ \A b \in Artifacts : \A j \in late'[b] : Armed(b, j)
  <2>1. CASE UNCHANGED storeVars
    BY <2>1, Shrinks DEF DeletedIsClosed, storeVars
  <2>2. CASE wPc[w] = "publish"
    <3>1. store' = store /\ MaybeLate(w)
      BY <2>2 DEF GivesUp, WorkerCrash
    <3> QED
      BY <1>1, <1>2, <2>2, <3>1, PublishStores
  <2>3. CASE wPc[w] # "publish" /\ store' # store
    <3>1. /\ late' = late
          /\ \/ wPc[w] = "sweep" /\ store[wArt[w]][wKey[w]] # "object"
                /\ StoreAt(wArt[w], wKey[w], "missing")
             \/ wPc[w] = "reserve" /\ StoreAt(wArt[w], wKey[w], "reserved")
      BY <2>3 DEF GivesUp, WorkerCrash, Reserved
    <3>2. CASE wPc[w] = "sweep"
      <4>1. wArt[w] \in Artifacts /\ wKey[w] \in Claims
        BY <3>2, Busy DEF WithKey
      <4> QED
        BY <3>1, <3>2, <4>1, Deleted
    <3>3. CASE wPc[w] = "reserve"
      BY <1>1, <1>2, <3>1, <3>3, ReserveStores
    <3> QED
      BY <3>1, <3>2, <3>3
  <2>4. wPc[w] # "publish" => late' = late
    BY DEF GivesUp, WorkerCrash
  <2> QED
    BY <2>1, <2>2, <2>3, <2>4 DEF storeVars
<1>4. Knows(w)'
  BY <1>1, KnowsTurn
<1> QED
  BY <1>1, <1>2, <1>3, <1>4, QuietStorage

\* Ready rows stay as they are, or are closed.
LEMMA ReadyKept ==
    ASSUME Rows, Storage, DeletedIsClosed,
           \A a \in Artifacts : status'[a] = "ready" =>
               status[a] = "ready" /\ key'[a] = key[a] /\ (erased' => erased)
    PROVE  ReadyIsStored'
<1> SUFFICES ASSUME NEW a \in Artifacts, status'[a] = "ready"
             PROVE  key'[a] # 0 /\ store'[a][key'[a]] = "object" /\ ~erased'
  BY DEF ReadyIsStored
<1>1. key[a] # 0 /\ store[a][key[a]] = "object" /\ ~erased /\ key'[a] = key[a] /\ ~erased'
  BY DEF Storage, ReadyIsStored
<1>2. key[a] \in Claims
  BY <1>1 DEF Rows, TypeOK, Claims
<1>3. status'[a] \notin Closed
  BY DEF Closed
<1> QED
  BY <1>1, <1>2, <1>3 DEF DeletedIsClosed

\* A step of worker w that writes rows and leaves storage alone.
LEMMA RowStorage ==
    ASSUME Rows, Rows', Storage, NEW w \in Workers, NEW pc, NEW k, Turns(w, pc, k),
           RowsAdvance, UNCHANGED storeVars, UNCHANGED pVars, UNCHANGED eVars,
           pc \in BeforeFresh \cup {"reserve"} => wPc[w] \in BeforeFresh \cup {"reserve"},
           pc \notin {"publish", "reset", "clear"},
           KeysAreForgotten,
           \A v \in Workers \ {w} : wPc[v] # "idle" /\ Own(v) => key'[wArt[v]] = key[wArt[v]],
           Knows(w)', ReadyIsStored'
    PROVE  Storage'
<1>1. UsedByItsClaim /\ ObjectsArePublished /\ ReservedUnarmed /\ DeletedIsClosed
  BY Shrinks DEF DeletedIsClosed, storeVars
<1>2. ClaimsAreNew
  <2>1. \A v \in Workers : wBatch'[v] \subseteq wBatch[v]
    BY DEF Turns
  <2>2. \A a \in Artifacts : claims'[a] = claims[a] /\ claims[a] \in Nat
    BY DEF RowsAdvance, Rows, TypeOK
  <2>3. \A v \in Workers :
           wPc'[v] \in BeforeFresh \cup {"reserve"} =>
               /\ wPc[v] \in BeforeFresh \cup {"reserve"}
               /\ wArt'[v] = wArt[v] /\ wTok'[v] = wTok[v]
    BY DEF Turns, Stays, BeforeFresh
  <2> QED
    BY <2>1, <2>2, <2>3 DEF ClaimsAreNew
<1>3. ArmedByValidation
  <2>1. \A v \in Workers : wPc'[v] = "publish" => v # w /\ Stays(v)
    BY DEF Turns
  <2>2. \A a \in Artifacts, j \in Claims : Armed(a, j)' => Armed(a, j)
    BY <2>1 DEF Armed, Stays, storeVars
  <2> QED
    BY <2>2 DEF ArmedByValidation
<1>4. ForgetsWhatIsGone
  BY TurnForgets
<1>5. ASSUME NEW v \in Workers PROVE Knows(v)'
  <2>1. CASE v # w
    <3>1. Stays(v)
      BY <2>1 DEF Turns
    <3>2. wPc[v] # "idle" /\ Own(v)' => Own(v)
      BY <3>1, OwnKept DEF Stays
    <3> QED
      BY <1>1, <2>1, <3>1, <3>2, KnowsKept DEF eVars
  <2> QED
    BY <2>1
<1> QED
  BY <1>1, <1>2, <1>3, <1>4, <1>5, StorageKept DEF StorageStep

\* A key is committed or forgotten.
LEMMA KeyStorage ==
    ASSUME Rows, Rows', Storage, NEW w \in Workers, PrepareFresh(w) \/ Reset(w) \/ Clear(w)
    PROVE  Storage'
<1>1. /\ wPc[w] # "idle" /\ UNCHANGED <<status, token, lease, claims>> /\ UNCHANGED storeVars
      /\ UNCHANGED pVars /\ UNCHANGED eVars
  BY DEF PrepareFresh, Preparing, Reset, Clear
<1>2. /\ wArt[w] \in Artifacts /\ wKey[w] \in 0 .. MaxClaims /\ wTok[w] \in Claims
      /\ wTok[w] \in 0 .. MaxClaims /\ 0 \in 0 .. MaxClaims
      /\ wPc[w] \in {"wipe", "clear"} => status[wArt[w]] \in Closed
  BY <1>1, Busy, ExportAssumption
<1>3. key \in [Artifacts -> 0 .. MaxClaims] /\ key' \in [Artifacts -> 0 .. MaxClaims]
  BY DEF Rows, TypeOK
<1>4. RowsAdvance
  BY <1>1, <1>3 DEF Rows, TypeOK, RowsAdvance, RowsTyped, storeVars
<1>5. DeletedIsClosed
  BY <1>1 DEF DeletedIsClosed, storeVars
<1>6. key' = key \/ \E k \in 0 .. MaxClaims : key' = [key EXCEPT ![wArt[w]] = k]
  BY <1>2 DEF PrepareFresh, Reset, Clear
<1>7. \A a \in Artifacts \ {wArt[w]} : key'[a] = key[a]
  BY <1>3, <1>6
<1>8. key' # key => status[wArt[w]] # "ready" /\ (Own(w) \/ status[wArt[w]] \in Closed)
  BY <1>2 DEF PrepareFresh, Reset, Clear, ActiveIntent, Own, Closed
<1>9. \A v \in Workers \ {w} : wPc[v] # "idle" /\ Own(v) => key'[wArt[v]] = key[wArt[v]]
  <2> SUFFICES ASSUME NEW v \in Workers \ {w}, wPc[v] # "idle", Own(v), wArt[v] = wArt[w],
                      key' # key
               PROVE  FALSE
    BY <1>7, Busy
  <2>1. Own(w)
    BY <1>8 DEF Own, Closed
  <2> QED
    BY <1>1, <2>1, OneOwner
<1>10. ReadyIsStored'
  <2>1. \A a \in Artifacts : status'[a] = "ready" =>
               status[a] = "ready" /\ key'[a] = key[a] /\ (erased' => erased)
    BY <1>1, <1>7, <1>8 DEF eVars
  <2> QED
    BY <1>5, <2>1, ReadyKept
<1>11. ASSUME NEW pc, NEW k, Turns(w, pc, k), pc \notin {"publish", "reset", "clear", "ready"},
              pc \in BeforeFresh \cup {"reserve"} => wPc[w] \in BeforeFresh \cup {"reserve"},
              pc = "again" => key'[wArt[w]] = 0,
              pc # "idle" /\ Own(w) /\ erased => pc = "fail",
              key' # key => key[wArt[w]] = 0 \/ Forgets(wArt[w], key[wArt[w]])
       PROVE  Storage'
  <2>1. KeysAreForgotten
    BY <1>7, <1>11 DEF KeysAreForgotten
  <2>2. Knows(w)'
    <3> SUFFICES ASSUME wPc'[w] # "idle", Own(w)'
                 PROVE  /\ wPc'[w] # "ready" /\ (wPc'[w] = "again" => key'[wArt'[w]] = 0)
                        /\ erased' => wPc'[w] \in {"prepare", "fail"}
      BY DEF Knows
    <3>1. wPc'[w] = pc /\ wArt'[w] = wArt[w] /\ wTok'[w] = wTok[w]
      BY <1>11 DEF Turns
    <3>2. Own(w)
      BY <1>1, <3>1 DEF Own
    <3> QED
      BY <1>1, <1>11, <3>1, <3>2 DEF eVars
  <2> QED
    BY <1>1, <1>4, <1>9, <1>10, <1>11, <2>1, <2>2, RowStorage
<1>12. CASE PrepareFresh(w)
  <2>1. /\ Goes(w, "reserve", wTok[w]) /\ key[wArt[w]] = 0 /\ ~erased
        /\ wPc[w] \in BeforeFresh
    BY <1>12 DEF PrepareFresh, Preparing, Eligible, ActiveIntent, BeforeFresh
  <2>2. Turns(w, "reserve", wTok[w])
    BY <1>1, <1>2, <2>1, GoesTurns DEF WorkerSteps
  <2> QED
    BY <1>11, <2>1, <2>2
<1>13. CASE Reset(w)
  <2>1. wPc[w] = "reset" /\ (Own(w) => ~erased)
    BY <1>13 DEF Reset, Storage, HolderKnows
  <2>2. CASE ActiveIntent(w)
    <3>1. Goes(w, "again", 0) /\ key'[wArt[w]] = 0 /\ key[wArt[w]] = wKey[w] /\ Own(w)
      BY <1>2, <1>3, <1>13, <2>2 DEF Reset, ActiveIntent
    <3>2. Turns(w, "again", 0)
      BY <1>1, <1>2, <3>1, GoesTurns DEF WorkerSteps
    <3>3. Forgets(wArt[w], key[wArt[w]])
      BY <2>1, <3>1 DEF Forgets
    <3> QED
      BY <1>11, <2>1, <3>1, <3>2, <3>3 DEF BeforeFresh
  <2>3. CASE ~ActiveIntent(w)
    <3>1. Goes(w, "fail", wKey[w]) /\ key' = key
      BY <1>13, <2>3 DEF Reset
    <3>2. Turns(w, "fail", wKey[w])
      BY <1>1, <1>2, <3>1, GoesTurns DEF WorkerSteps
    <3> QED
      BY <1>11, <3>1, <3>2 DEF BeforeFresh
  <2> QED
    BY <2>2, <2>3
<1>14. CASE Clear(w)
  <2>1. Turns(w, "idle", 0)
    BY <1>14, FinishesTurns DEF Clear
  <2>2. key' # key => Forgets(wArt[w], key[wArt[w]])
    BY <1>14 DEF Clear, Forgets
  <2> QED
    BY <1>11, <2>1, <2>2 DEF BeforeFresh
<1> QED
  BY <1>12, <1>13, <1>14

\* The processing of the artifact ends.
LEMMA EndStorage ==
    ASSUME Rows, Rows', Storage, NEW w \in Workers, MarkReady(w) \/ MarkFailed(w)
    PROVE  Storage'
<1>1. /\ wPc[w] # "idle" /\ UNCHANGED key /\ UNCHANGED storeVars
      /\ UNCHANGED pVars /\ UNCHANGED eVars
  BY DEF MarkReady, MarkFailed
<1>2. wArt[w] \in Artifacts /\ wKey[w] \in 0 .. MaxClaims /\ 0 \in 0 .. MaxClaims
  BY <1>1, Busy, ExportAssumption
<1>3. \/ UNCHANGED <<status, token, lease, claims>>
      \/ \E s \in {"ready", "failed"} : Own(w) /\ Leaves(wArt[w], s)
  BY DEF MarkReady, MayMarkReady, MarkFailed
<1>4. RowsAdvance
  <2>1. CASE UNCHANGED <<status, token, lease, claims>>
    BY <1>1, <2>1 DEF Rows, TypeOK, RowsAdvance, RowsTyped, storeVars
  <2>2. ASSUME NEW s \in {"ready", "failed"}, Own(w), Leaves(wArt[w], s) PROVE RowsAdvance
    <3>1. RowsTyped'
      BY DEF Rows, TypeOK, RowsTyped
    <3>2. status[wArt[w]] = "processing"
      BY <2>2 DEF Own
    <3> QED
      BY <1>2, <2>2, <3>1, <3>2 DEF Rows, TypeOK, RowsAdvance, Leaves, Closed
  <2> QED
    BY <1>3, <2>1, <2>2
<1>5. DeletedIsClosed /\ KeysAreForgotten
  BY <1>1 DEF DeletedIsClosed, storeVars, KeysAreForgotten
<1>6. ReadyIsStored'
  <2>1. CASE MarkReady(w) /\ MayMarkReady(w)
    <3>1. /\ wPc[w] = "ready" /\ Own(w) /\ key[wArt[w]] = wKey[w] /\ Leaves(wArt[w], "ready")
      BY <2>1 DEF MarkReady, MayMarkReady
    <3>2. store[wArt[w]][wKey[w]] = "object" /\ ~erased /\ wKey[w] \in Claims
      BY <1>1, <3>1, Busy DEF Storage, HolderKnows, WithKey
    <3>3. key[wArt[w]] # 0
      BY <3>1, <3>2 DEF Claims
    <3> SUFFICES ASSUME NEW a \in Artifacts, status'[a] = "ready"
                 PROVE  key[a] # 0 /\ store[a][key[a]] = "object" /\ ~erased
      BY <1>1 DEF ReadyIsStored, storeVars, eVars
    <3>4. a # wArt[w] => status[a] = "ready"
      BY <3>1 DEF Leaves, Rows, TypeOK
    <3> QED
      BY <3>1, <3>2, <3>3, <3>4 DEF Storage, ReadyIsStored
  <2>2. CASE ~(MarkReady(w) /\ MayMarkReady(w))
    <3>1. UNCHANGED status \/ status' = [status EXCEPT ![wArt[w]] = "failed"]
      BY <2>2 DEF MarkReady, MarkFailed, Leaves
    <3>2. \A a \in Artifacts : status'[a] = "ready" =>
               status[a] = "ready" /\ key'[a] = key[a] /\ (erased' => erased)
      BY <1>1, <3>1 DEF Rows, TypeOK, eVars
    <3> QED
      BY <1>5, <3>2, ReadyKept
  <2> QED
    BY <2>1, <2>2
<1>7. ASSUME NEW pc \in {"idle", "fail", "wipe"}, NEW k, Turns(w, pc, k),
             pc = "wipe" => status'[wArt[w]] = "failed"
      PROVE  Storage'
  <2>1. Knows(w)'
    <3>1. wPc'[w] = pc /\ (pc # "idle" => wArt'[w] = wArt[w])
      BY <1>7 DEF Turns
    <3> QED
      BY <1>7, <3>1 DEF Knows, Own
  <2> QED
    BY <1>1, <1>4, <1>5, <1>6, <1>7, <2>1, RowStorage DEF BeforeFresh
<1>8. CASE Finishes(w, wBatch[w])
  BY <1>7, <1>8, FinishesTurns
<1>9. CASE Goes(w, "fail", wKey[w])
  BY <1>1, <1>2, <1>7, <1>9, GoesTurns DEF WorkerSteps
<1>10. CASE MarkFailed(w) /\ Own(w) /\ Goes(w, "wipe", key[wArt[w]])
  <2>1. key[wArt[w]] \in 0 .. MaxClaims
    BY <1>2 DEF Rows, TypeOK
  <2>2. status'[wArt[w]] = "failed"
    BY <1>2, <1>10 DEF MarkFailed, Leaves, Rows, TypeOK
  <2> QED
    BY <1>1, <1>7, <1>10, <2>1, <2>2, GoesTurns DEF WorkerSteps
<1> QED
  BY <1>8, <1>9, <1>10 DEF MarkReady, MarkFailed

\* A step in which every worker stays where it is.
LEMMA StayStorage ==
    ASSUME Rows, Rows', Storage, \A v \in Workers : Stays(v) /\ wBatch'[v] = wBatch[v],
           RowsAdvance, UsedByItsClaim, ObjectsArePublished, ReservedUnarmed, DeletedIsClosed,
           \A a \in Artifacts : late'[a] \subseteq late[a],
           KeysAreForgotten,
           \A p \in Purgers : \/ pPc'[p] # "clear"
                              \/ pPc[p] = "clear" /\ pArt'[p] = pArt[p] /\ pKey'[p] = pKey[p]
                              \/ store'[pArt'[p]][pKey'[p]] = "missing",
           \A a \in Artifacts : status'[a] = "processing" =>
               key'[a] = key[a] /\ (erased' => erased),
           \A a \in Artifacts : status'[a] = "ready" =>
               status[a] = "ready" /\ key'[a] = key[a] /\ (erased' => erased)
    PROVE  Storage'
<1>1. ClaimsAreNew
  <2>1. \A a \in Artifacts : claims'[a] = claims[a] /\ claims[a] \in Nat
    BY DEF RowsAdvance, Rows, TypeOK
  <2> QED
    BY <2>1 DEF ClaimsAreNew, Stays
<1>2. ArmedByValidation
  BY DEF ArmedByValidation, Armed, Stays
<1>3. ForgetsWhatIsGone
  <2> SUFFICES ASSUME NEW a \in Artifacts, NEW j \in Claims, Forgets(a, j)',
                      store'[a][j] # "missing"
               PROVE  Forgets(a, j)
    BY DEF ForgetsWhatIsGone
  <2>1. ASSUME NEW v \in Workers, wPc'[v] = "reset", Own(v)', wArt'[v] = a, wKey'[v] = j
        PROVE  Forgets(a, j)
    <3>1. wPc[v] = "reset" /\ wArt[v] = a /\ wKey[v] = j /\ wArt'[v] = wArt[v] /\ wTok'[v] = wTok[v]
      BY <2>1 DEF Stays
    <3>2. Own(v)
      BY <2>1, <3>1, OwnKept
    <3> QED
      BY <3>1, <3>2 DEF Forgets
  <2>2. ASSUME NEW v \in Workers, wPc'[v] = "clear", wArt'[v] = a, wKey'[v] = j
        PROVE  Forgets(a, j)
    BY <2>2 DEF Forgets, Stays
  <2>3. ASSUME NEW p \in Purgers, pPc'[p] = "clear", pArt'[p] = a, pKey'[p] = j
        PROVE  Forgets(a, j)
    BY <2>3 DEF Forgets
  <2> QED
    BY <2>1, <2>2, <2>3 DEF Forgets
<1>4. ASSUME NEW v \in Workers PROVE Knows(v)'
  <2>1. wPc[v] # "idle" /\ Own(v)' => Own(v)
    BY OwnKept DEF Stays
  <2>2. wPc[v] # "idle" /\ Own(v)' => key'[wArt[v]] = key[wArt[v]] /\ (erased' => erased)
    BY Busy DEF Own, Stays
  <2> QED
    BY <2>1, <2>2, KnowsKept
<1>5. ReadyIsStored'
  BY ReadyKept
<1> QED
  BY <1>1, <1>2, <1>3, <1>4, <1>5, StorageKept DEF StorageStep

\* The heartbeat.
LEMMA BeatStorage ==
    ASSUME Rows, Rows', Storage, NEW w \in Workers, BeatReads(w) \/ BeatWrites(w)
    PROVE  Storage'
<1>1. /\ UNCHANGED <<status, token, key, claims>> /\ UNCHANGED storeVars /\ UNCHANGED pVars
      /\ UNCHANGED eVars /\ UNCHANGED <<wPc, wArt, wTok, wKey, wBatch>>
  BY DEF BeatReads, BeatWrites, rowVars
<1>2. RowsAdvance
  BY <1>1 DEF Rows, TypeOK, RowsAdvance, RowsTyped
<1>3. UsedByItsClaim /\ ObjectsArePublished /\ ReservedUnarmed /\ DeletedIsClosed
  BY <1>1, Shrinks DEF DeletedIsClosed, storeVars
<1>4. KeysAreForgotten
  BY <1>1 DEF KeysAreForgotten
<1> QED
  BY <1>1, <1>2, <1>3, <1>4, StayStorage DEF Stays, storeVars, pVars, eVars

\* The retention pass.
LEMMA PurgerStorage ==
    ASSUME Rows, Rows', Storage, NEW p \in Purgers, PurgerStep(p)
    PROVE  Storage'
<1>1. UNCHANGED wVars /\ UNCHANGED eVars /\ UNCHANGED late /\ UNCHANGED <<token, lease, claims>>
  BY DEF PurgerStep, PurgeLists, PurgeDeletes, PurgeClears, ExpireReads, ExpireWrites, PurgerStops,
     storeVars, rowVars
<1>2. TypeOK /\ PurgerShape(p)
  BY DEF Rows
<1>3. /\ pPc[p] = "expire" => pArt[p] \in Artifacts /\ status[pArt[p]] \in Closed \cup {"ready"}
      /\ pPc[p] \in {"delete", "clear"} =>
            pArt[p] \in Artifacts /\ pKey[p] \in Claims /\ status[pArt[p]] \in Closed
  BY <1>2 DEF PurgerShape
<1>4. status' = status \/ (pPc[p] = "expire" /\ status' = [status EXCEPT ![pArt[p]] = "expired"])
  BY DEF PurgerStep, PurgeLists, PurgeDeletes, PurgeClears, ExpireReads, ExpireWrites, PurgerStops,
     rowVars
<1>5. \/ key' = key
      \/ /\ pPc[p] = "clear" /\ key[pArt[p]] = pKey[p] /\ key' = [key EXCEPT ![pArt[p]] = 0]
         /\ status' = status
  BY DEF PurgerStep, PurgeLists, PurgeDeletes, PurgeClears, ExpireReads, ExpireWrites, PurgerStops,
     rowVars
<1>6. \/ store' = store
      \/ pPc[p] = "delete" /\ StoreAt(pArt[p], pKey[p], "missing") /\ status' = status
  BY DEF PurgerStep, PurgeLists, PurgeDeletes, PurgeClears, ExpireReads, ExpireWrites, PurgerStops,
     storeVars, rowVars
<1>7. RowsAdvance
  <2>1. RowsTyped' /\ claims' = claims /\ token' = token
    BY <1>1 DEF Rows, TypeOK, RowsTyped
  <2>2. \A a \in Artifacts : status'[a] # status[a] =>
           status'[a] \in Closed /\ status[a] \in Closed \cup {"ready"}
    BY <1>2, <1>3, <1>4 DEF TypeOK, Closed
  <2> QED
    BY <2>1, <2>2 DEF RowsAdvance
<1>8. UsedByItsClaim /\ ObjectsArePublished /\ ReservedUnarmed /\ DeletedIsClosed
  <2>1. CASE store' = store
    BY <1>1, <2>1, Shrinks DEF DeletedIsClosed
  <2>2. CASE store' # store
    BY <1>1, <1>3, <1>6, <2>2, Deleted
  <2> QED
    BY <2>1, <2>2
<1>9. KeysAreForgotten
  BY <1>2, <1>3, <1>5 DEF KeysAreForgotten, Forgets, TypeOK
<1>10. \A q \in Purgers : \/ pPc'[q] # "clear"
                          \/ pPc[q] = "clear" /\ pArt'[q] = pArt[q] /\ pKey'[q] = pKey[q]
                          \/ store'[pArt'[q]][pKey'[q]] = "missing"
  <2>1. CASE PurgeDeletes(p)
    <3>1. StoreAt(pArt[p], pKey[p], "missing") /\ pArt[p] \in Artifacts /\ pKey[p] \in Claims
      BY <1>3, <2>1 DEF PurgeDeletes
    <3>2. store'[pArt[p]][pKey[p]] = "missing"
      BY <3>1, Stored
    <3> QED
      BY <1>2, <2>1, <3>2 DEF PurgeDeletes, PurgerAt, TypeOK
  <2>2. CASE PurgeClears(p) \/ ExpireWrites(p) \/ PurgerStops(p)
    BY <1>2, <2>2 DEF PurgeClears, ExpireWrites, PurgerStops, PurgerRests, PurgerAt, TypeOK
  <2>3. CASE \E a \in Artifacts : PurgeLists(p, a) \/ ExpireReads(p, a)
    BY <1>2, <2>3 DEF PurgeLists, ExpireReads, PurgerAt, TypeOK
  <2> QED
    BY <2>1, <2>2, <2>3 DEF PurgerStep
<1>11. \A a \in Artifacts : status'[a] \in {"processing", "ready"} =>
               status[a] = status'[a] /\ key'[a] = key[a] /\ (erased' => erased)
  <2>1. \A a \in Artifacts : status'[a] # status[a] => status'[a] = "expired"
    BY <1>2, <1>4 DEF TypeOK
  <2>2. \A a \in Artifacts : key'[a] # key[a] => status[a] \in Closed
    BY <1>2, <1>3, <1>5 DEF TypeOK
  <2> QED
    BY <1>1, <2>1, <2>2 DEF Closed, eVars
<1> QED
  BY <1>1, <1>7, <1>8, <1>9, <1>10, <1>11, StayStorage DEF Stays, wVars

\* The subject's side, storage, and time.
LEMMA WorldStorage ==
    ASSUME Rows, Rows', Storage,
           \/ \E a \in Artifacts : Request(a) \/ LeaseLapses(a)
           \/ \E a \in Artifacts, k \in Claims : LateArrives(a, k) \/ DeferredDelete(a, k)
           \/ Erase
    PROVE  Storage'
<1>1. UNCHANGED wVars /\ UNCHANGED pVars /\ UNCHANGED <<token, key, claims>>
  BY DEF Request, LeaseLapses, LateArrives, DeferredDelete, Erase, rowVars
<1>2. TypeOK /\ RowsTyped'
  BY DEF Rows, TypeOK, RowsTyped
<1>3. KeysAreForgotten
  BY <1>1 DEF KeysAreForgotten
<1>4. ASSUME \A a \in Artifacts : \/ status'[a] = status[a] /\ (erased' => erased)
                                  \/ status'[a] \notin {"processing", "ready"}
                                     /\ (status'[a] # status[a] => status[a] # "processing"),
             \A a \in Artifacts : status[a] \in Closed => status'[a] \in Closed,
             \A a \in Artifacts : status[a] = "ready" => status'[a] \in Closed \cup {"ready"},
             UsedByItsClaim, ObjectsArePublished, ReservedUnarmed, DeletedIsClosed,
             \A a \in Artifacts : late'[a] \subseteq late[a]
      PROVE  Storage'
  <2>1. RowsAdvance
    BY <1>1, <1>2, <1>4 DEF RowsAdvance
  <2> QED
    BY <1>1, <1>3, <1>4, <2>1, StayStorage DEF Stays, wVars, pVars
<1>5. ASSUME UNCHANGED storeVars
      PROVE  /\ UsedByItsClaim /\ ObjectsArePublished /\ ReservedUnarmed /\ DeletedIsClosed
             /\ \A a \in Artifacts : late'[a] \subseteq late[a]
  BY <1>5, Shrinks DEF DeletedIsClosed, storeVars
<1>6. ASSUME NEW a \in Artifacts, Request(a) PROVE Storage'
  <2>1. /\ status[a] = "none" /\ status' = [status EXCEPT ![a] = "queued"]
        /\ UNCHANGED storeVars /\ erased' = erased
    BY <1>6 DEF Request, eVars
  <2>2. \A b \in Artifacts : status'[b] = IF b = a THEN "queued" ELSE status[b]
    BY <1>2, <2>1 DEF TypeOK
  <2> QED
    BY <1>4, <1>5, <2>1, <2>2 DEF Closed
<1>7. ASSUME NEW a \in Artifacts, LeaseLapses(a) PROVE Storage'
  BY <1>4, <1>5, <1>7 DEF LeaseLapses, eVars
<1>8. ASSUME NEW a \in Artifacts, NEW k \in Claims, LateArrives(a, k) PROVE Storage'
  <2>1. UNCHANGED <<status, erased>> /\ k \in late[a] /\ late' = [late EXCEPT ![a] = @ \ {k}]
    BY <1>8 DEF LateArrives, rowVars, eVars
  <2>2. \/ store' = store
        \/ /\ store[a][k] = "reserved" /\ store'[a][k] = "object"
           /\ \A b \in Artifacts, j \in Claims : <<b, j>> # <<a, k>> => store'[b][j] = store[b][j]
    BY <1>8, Stored DEF LateArrives, Reserved
  <2>3. \A b \in Artifacts : late'[b] \subseteq late[b]
    BY <1>2, <2>1 DEF TypeOK
  <2>4. Armed(a, k)
    BY <2>1 DEF Armed
  <2>5. ObjectsArePublished /\ ReservedUnarmed /\ DeletedIsClosed
    BY <2>2, <2>4 DEF ObjectsArePublished, ReservedUnarmed, DeletedIsClosed
  <2>6. UsedByItsClaim
    BY <2>2, <2>3 DEF UsedByItsClaim, Untouched
  <2> QED
    BY <1>4, <2>1, <2>3, <2>5, <2>6
<1>9. ASSUME NEW a \in Artifacts, NEW k \in Claims, DeferredDelete(a, k) PROVE Storage'
  <2>1. /\ UNCHANGED <<status, erased, late>> /\ <<a, k>> \in deferred
        /\ UNCHANGED store \/ StoreAt(a, k, "missing")
    BY <1>9 DEF DeferredDelete, rowVars
  <2>2. status[a] \in Closed
    BY <2>1 DEF Rows, TokensWereClaimed
  <2>3. UsedByItsClaim /\ ObjectsArePublished /\ ReservedUnarmed /\ DeletedIsClosed
    BY <2>1, <2>2, Deleted
  <2> QED
    BY <1>4, <2>1, <2>3
<1>10. CASE Erase
  <2>1. \A a \in Artifacts :
           /\ status[a] # "processing"
           /\ status'[a] = IF key[a] # 0 \/ status[a] \in {"queued", "ready"} THEN "cancelled"
                           ELSE status[a]
    BY <1>10 DEF Erase, NoneProcessing
  <2>2. UNCHANGED storeVars
    BY <1>10 DEF Erase
  <2> QED
    BY <1>4, <1>5, <2>1, <2>2 DEF Closed
<1> QED
  BY <1>6, <1>7, <1>8, <1>9, <1>10

\* Leases are taken or begun: storage, keys and retention passes are left alone, a lease
\* that is lost does not come back, and a worker that moves begins to prepare.
LEMMA LeaseStorage ==
    ASSUME Rows, Rows', Storage, ClaimsAreNew,
           UNCHANGED key, UNCHANGED storeVars, UNCHANGED pVars, UNCHANGED eVars,
           \A v \in Workers : Stays(v) \/ wPc'[v] = "prepare",
           \A v \in Workers : Stays(v) /\ wPc[v] # "idle" /\ Own(v)' => Own(v),
           \A a \in Artifacts : status'[a] = "ready" => status[a] = "ready"
    PROVE  Storage'
<1>1. UsedByItsClaim /\ ObjectsArePublished /\ ReservedUnarmed /\ DeletedIsClosed
  BY Shrinks DEF DeletedIsClosed, storeVars
<1>2. ArmedByValidation
  BY DEF ArmedByValidation, Armed, Stays, storeVars
<1>3. KeysAreForgotten
  BY DEF KeysAreForgotten
<1>4. ForgetsWhatIsGone
  BY DEF ForgetsWhatIsGone, Forgets, Stays, pVars
<1>5. ASSUME NEW v \in Workers PROVE Knows(v)'
  <2>1. CASE wPc'[v] = "prepare"
    BY <2>1 DEF Knows
  <2>2. CASE Stays(v)
    BY <1>1, <2>2, KnowsKept DEF eVars
  <2> QED
    BY <2>1, <2>2
<1>6. ReadyIsStored'
  BY <1>1, ReadyKept DEF eVars
<1> QED
  BY <1>1, <1>2, <1>3, <1>4, <1>5, <1>6, StorageKept DEF StorageStep

LEMMA StartStorage ==
    ASSUME Rows, Rows', Storage, NEW w \in Workers, NEW a \in Artifacts, NEW t \in Claims,
           Start(w, a, t)
    PROVE  Storage'
<1>1. /\ wPc[w] = "idle" /\ <<a, t>> \in wBatch[w]
      /\ UNCHANGED <<rowVars, storeVars, wKey, pVars, eVars>>
      /\ wPc' = [wPc EXCEPT ![w] = "prepare"] /\ wArt' = [wArt EXCEPT ![w] = a]
      /\ wTok' = [wTok EXCEPT ![w] = t] /\ wBatch' = [wBatch EXCEPT ![w] = @ \ {<<a, t>>}]
  BY DEF Start
<1>2. /\ wPc'[w] = "prepare" /\ wArt'[w] = a /\ wTok'[w] = t
      /\ \A v \in Workers \ {w} : Stays(v)
      /\ \A v \in Workers : wBatch'[v] \subseteq wBatch[v]
  BY <1>1 DEF Rows, TypeOK, Stays
<1>3. ClaimsAreNew
  <2>1. \A b \in Artifacts : claims'[b] = claims[b] /\ claims[b] \in Nat
    BY <1>1 DEF rowVars, Rows, TypeOK
  <2> QED
    BY <1>1, <1>2, <2>1 DEF ClaimsAreNew, Stays
<1>4. \A v \in Workers : Stays(v) /\ Own(v)' => Own(v)
  BY <1>1 DEF Own, Stays, rowVars
<1> QED
  BY <1>1, <1>2, <1>3, <1>4, LeaseStorage DEF rowVars

LEMMA ClaimStorage ==
    ASSUME Rows, Rows', Storage, NEW w \in Workers,
           NEW R \in SUBSET Artifacts, NEW C \in SUBSET Artifacts, Claim(w, R, C)
    PROVE  Storage'
<1>1. TypeOK /\ UNCHANGED <<key, storeVars, wPc, wArt, wTok, wKey, pVars, eVars>>
  BY DEF Rows, Claim
<1>2. \A v \in Workers : Stays(v)
  BY <1>1 DEF Stays
<1>3. \A b \in Artifacts : /\ claims[b] \in Nat
                           /\ claims'[b] = IF b \in C THEN claims[b] + 1 ELSE claims[b]
  BY <1>1 DEF Claim, TypeOK
<1>4. ClaimsAreNew
  <2>1. \A b \in Artifacts : claims'[b] \in Nat /\ claims[b] <= claims'[b]
    BY <1>3
  <2>2. \A v \in Workers, b \in Artifacts, k \in Claims :
          <<b, k>> \in wBatch'[v] => <<b, k>> \in wBatch[v] \/ k > claims[b]
    <3> SUFFICES ASSUME NEW v \in Workers, NEW b \in Artifacts, NEW k \in Claims,
                        <<b, k>> \in wBatch'[v], <<b, k>> \notin wBatch[v]
                 PROVE  k > claims[b]
      OBVIOUS
    <3>1. wBatch' = [wBatch EXCEPT ![w] = {<<c, claims[c] + 1>> : c \in C}]
      BY DEF Claim
    <3>2. <<b, k>> \in {<<c, claims[c] + 1>> : c \in C}
      BY <1>1, <3>1 DEF TypeOK
    <3>3. k = claims[b] + 1
      BY <3>2
    <3> QED
      BY <1>3, <3>3
  <2>3. \A v \in Workers : wPc'[v] = wPc[v] /\ wArt'[v] = wArt[v] /\ wTok'[v] = wTok[v]
    BY <1>2 DEF Stays
  <2> QED
    BY <2>1, <2>2, <2>3 DEF ClaimsAreNew
<1>5. ASSUME NEW v \in Workers, wPc[v] # "idle", Own(v)' PROVE Own(v)
  <2>1. /\ wArt[v] \in Artifacts /\ wTok[v] \in Claims /\ wTok[v] <= claims[wArt[v]]
        /\ wTok[v] \in Nat /\ wTok[v] # 0
    BY <1>5, Busy DEF Claims
  <2>2. token'[wArt[v]] = wTok[v] /\ status'[wArt[v]] = "processing"
    BY <1>1, <1>5 DEF Own
  <2>3. token'[wArt[v]] = IF wArt[v] \in C THEN claims[wArt[v]] + 1
                          ELSE IF wArt[v] \in R THEN 0 ELSE token[wArt[v]]
    BY <2>1 DEF Claim, SetTokens
  <2>4. wArt[v] \notin C
    BY <1>3, <2>1, <2>2, <2>3
  <2>5. wArt[v] \notin R /\ token[wArt[v]] = wTok[v]
    BY <2>1, <2>2, <2>3, <2>4
  <2>6. status[wArt[v]] = "processing"
    BY <2>1, <2>2, <2>4, <2>5 DEF Claim
  <2> QED
    BY <2>5, <2>6 DEF Own
<1>6. \A b \in Artifacts : status'[b] = "ready" => status[b] = "ready"
  BY DEF Claim
<1> QED
  BY <1>1, <1>2, <1>4, <1>5, <1>6, LeaseStorage

-------------------------------------------------------------------------------
(* The theorems.                                                           *)

LEMMA InitStorage == Init => Storage
<1> SUFFICES ASSUME Init PROVE Storage
  OBVIOUS
<1>1. \A a \in Artifacts, k \in Claims : Untouched(a, k) /\ ~Armed(a, k) /\ ~Forgets(a, k)
  BY DEF Init, Untouched, Armed, Forgets
<1>2. \A w \in Workers : wPc[w] = "idle" /\ wBatch[w] = {}
  BY DEF Init
<1>3. Unclaimed /\ BatchUntouched
  BY <1>1 DEF Unclaimed, BatchUntouched
<1>4. WorkUntouched /\ HolderKnows
  BY <1>2 DEF WorkUntouched, HolderKnows, BeforeFresh
<1>5. NoOrphanObject /\ ArmedIsNamed /\ ForgottenIsGone
  BY <1>1 DEF NoOrphanObject, ArmedIsNamed, ForgottenIsGone, Untouched
<1>6. ReadyIsStored
  BY DEF Init, ReadyIsStored
<1> QED
  BY <1>3, <1>4, <1>5, <1>6 DEF Storage

LEMMA NextStorage ==
    ASSUME Rows, Rows', Storage, [Next]_vars
    PROVE  Storage'
<1>1. CASE UNCHANGED vars
  BY <1>1 DEF vars, rowVars, storeVars, wVars, pVars, eVars, Storage, Unclaimed, BatchUntouched,
     WorkUntouched, Untouched, NoOrphanObject, ArmedIsNamed, Armed, ForgottenIsGone, Forgets,
     HolderKnows, Own, ReadyIsStored
<1>2. ASSUME NEW w \in Workers, WorkerStep(w) PROVE Storage'
  BY <1>2, LooksStorage, WritesStorage, StopStorage, KeyStorage, EndStorage, BeatStorage,
     StartStorage, ClaimStorage DEF WorkerStep
<1>3. CASE Next
  BY <1>2, <1>3, PurgerStorage, WorldStorage DEF Next
<1> QED
  BY <1>1, <1>3

\* The rows, the processes and storage fit together in every reachable state, whatever
\* crashes, lapses, arrives late or is deleted in between.
THEOREM Invariance == Spec => []IInv
<1>1. Init => IInv
  BY InitRows, InitStorage DEF IInv
<1>2. IInv /\ [Next]_vars => IInv'
  BY NextRows, NextStorage DEF IInv
<1> QED
  BY <1>1, <1>2, PTL DEF Spec

\* Types: a row has a token and a lease exactly while it is processing.
THEOREM TypesHold == Spec => []TypeOK
<1>1. IInv => TypeOK
  BY DEF IInv, Rows
<1> QED
  BY <1>1, Invariance, PTL

\* No archive in storage is unknown to its row (_write_export_archive, and every
\* statement that forgets a storage key).
THEOREM NoArchiveOrphaned == Spec => []NoOrphanObject
<1>1. IInv => NoOrphanObject
  BY DEF IInv, Storage
<1> QED
  BY <1>1, Invariance, PTL

\* The archive of a ready row is in storage and its subject is not erased
\* (mark_ready, the cleanups, the purges and the erasure).
THEOREM ReadyCanBeDownloaded == Spec => []ReadyIsStored
<1>1. IInv => ReadyIsStored
  BY DEF IInv, Storage
<1> QED
  BY <1>1, Invariance, PTL

===============================================================================
