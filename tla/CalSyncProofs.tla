--------------------------- MODULE CalSyncProofs ---------------------------
(***************************************************************************)
(* Proofs about CalSync: the types of its state; that the cache is current *)
(* and lacks nothing as far as the stored sync token reaches; and what     *)
(* applying an answer spares.  And about HostedCalendar: what a client has *)
(* is what the log has told.  And about SyncContract, what a server of     *)
(* collections promises.                                                   *)
(***************************************************************************)
EXTENDS CalSync, HostedCalendar, SyncContract, Sequences, TLAPS

----------------------------------------------------------------------------
(* Why SyncedRowsCurrent holds: the inductive invariant the proof uses.    *)

\* The stored token is one the server has handed out.
TokenOrder == token <= ver /\ ver <= clock /\ \A u \in Uid : srv[u].at <= ver

\* The UNIQUE constraint of calendar_events.
HrefUnique ==
    \A i, j \in Ids, u \in Uid :
        HasHref(i, "server", u) /\ HasHref(j, "server", u) => i = j

\* What the thread is about to record as synced is newer than the stored token.
JobFresh ==
    job # NoJob /\ job.act \in {"synced", "reget"} /\ job.where = "server"
        => token < srv[job.uid].at

\* The answer being applied still tells the truth about every event that has not
\* changed since the server gave it.
AnswerTrue ==
    pc = "apply" =>
        /\ token <= batch.token /\ batch.token <= batch.upTo /\ batch.upTo <= ver
        /\ \A u \in Uid : srv[u].at <= batch.upTo => srv[u] = batch.copy[u]
        /\ \A u \in batch.changed : batch.copy[u].body # 0
        /\ batch.reconcile = "due" => batch.gone = {}

\* The rows the answer has nothing left to say about are current as far as the
\* new token reaches.
Applied ==
    pc = "apply" =>
        \A id \in Ids :
            /\ Claims(id, batch.token)
            /\ rows[id].uid \notin batch.changed
            /\ <<"server", rows[id].uid>> \notin batch.gone
            /\ batch.reconcile = "due" => rows[id].uid \in batch.listed
            => Current(id)

CacheInv == TokenOrder /\ HrefUnique /\ JobFresh /\ AnswerTrue /\ Applied /\ SyncedRowsCurrent

----------------------------------------------------------------------------

USE CalSyncAssumption

----------------------------------------------------------------------------
(* Type correctness.                                                       *)

LEMMA TypeInit == Init => TypeOK
  <1> SUFFICES ASSUME Init PROVE TypeOK OBVIOUS
  <1>1. srv \in [Uid -> Copy]
    BY DEF Init, Copy
  <1>2. rows \in [Ids -> Row \cup {NoRow}]
    BY DEF Init
  <1>3. QED
    BY <1>1, <1>2 DEF Init, TypeOK

\* Steps of other clients, of jacal, and a restart.
LEMMA TypeEnvironment == TypeOK /\ Environment => TypeOK'
  <1> SUFFICES ASSUME TypeOK, Environment PROVE TypeOK' OBVIOUS
  <1> USE DEF Act, Fault, tableVars, jacalVars, threadVars, ghostVars, serverVars
  <1>1. ASSUME NEW u \in Uid, OtherWrite(u) \/ OtherDelete(u) PROVE TypeOK'
    BY <1>1 DEF TypeOK, OtherWrite, OtherDelete, ChangeServer, Copy
  <1>2. ASSUME NEW u \in Uid, UserCreate(u) PROVE TypeOK'
    BY <1>2 DEF TypeOK, UserCreate, InsertRow, Row, Status, PendingStatus, Ids
  <1>3. ASSUME NEW id \in Ids, NEW op \in {"edit", "delete"}, UserOpen(id, op)
        PROVE  TypeOK'
    BY <1>3 DEF TypeOK, UserOpen, Visible, Present, Form, Row, NoRow
  <1>4. CASE UserRead
    BY <1>4 DEF TypeOK, UserRead, Present, Form, NoForm, Row, NoRow
  <1>5. CASE UserEdit
    BY <1>5 DEF TypeOK, UserEdit, Present, Form, NoForm, Row, NoRow, Status, PendingStatus
  <1>6. CASE UserDelete
    BY <1>6 DEF TypeOK, UserDelete, Present, Form, NoForm, Row, NoRow, Status, PendingStatus
  <1>7. CASE Restart
    BY <1>7 DEF TypeOK, Restart
  <1>8. QED
    BY <1>1, <1>2, <1>3, <1>4, <1>5, <1>6, <1>7 DEF Environment

\* A row that has a status is a row.
LEMMA RowAt ==
  ASSUME TypeOK, NEW id \in Ids, rows[id].status # "none"
  PROVE  rows[id] \in Row
  <1>1. rows[id] \in Row \cup {NoRow}
    BY DEF TypeOK
  <1>2. QED
    BY <1>1 DEF NoRow

\* The answer in hand while the thread applies one, and the write it waits for.
LEMMA BatchAt ==
  ASSUME TypeOK, batch # NoBatch
  PROVE  batch \in Batch
  BY DEF TypeOK

LEMMA JobAt ==
  ASSUME TypeOK, job # NoJob
  PROVE  job \in Job
  BY DEF TypeOK

\* Any row that changes hands in the write pass is a row the thread has read.
LEMMA TypePut ==
  ASSUME TypeOK, NEW id \in Ids, NEW ifMatch \in Nat, NEW create \in BOOLEAN,
         TakeRow(id), rows[id] \in Row, SendPut(id, ifMatch, create),
         UNCHANGED <<tableVars, deleted, lost>>
  PROVE  TypeOK'
  <1> USE DEF Fault, tableVars, jacalVars
  <1>1. job' \in Job \cup {NoJob} /\ pc \in {"queued", "pending"}
    BY DEF SendPut, Job, Row, TypeOK, TakeRow
  <1>2. srv' \in [Uid -> Copy] /\ ver' \in Nat /\ clock' \in Nat
    BY DEF SendPut, Row, TypeOK, Copy, ChangeServer, serverVars
  <1>3. clobbered' \in SUBSET Uid /\ faults' \in Nat
    BY DEF SendPut, Row, TypeOK, Unseen
  <1>4. QED
    BY <1>1, <1>2, <1>3 DEF TypeOK, TakeRow

LEMMA TypeDelete ==
  ASSUME TypeOK, NEW id \in Ids, ApplyDelete(id)
  PROVE  TypeOK'
  <1> USE DEF Fault, tableVars, jacalVars
  <1>1. rows[id] \in Row
    BY RowAt DEF ApplyDelete
  <1>2. job' \in Job \cup {NoJob} /\ pc \in {"queued", "pending"}
    BY <1>1 DEF ApplyDelete, Job, Row, TypeOK, TakeRow
  <1>3. srv' \in [Uid -> Copy] /\ ver' \in Nat /\ clock' \in Nat
    BY <1>1 DEF ApplyDelete, Row, TypeOK, Copy, ChangeServer, serverVars
  <1>4. clobbered' \in SUBSET Uid /\ faults' \in Nat
    BY <1>1 DEF ApplyDelete, Row, TypeOK, Unseen
  <1>5. QED
    BY <1>2, <1>3, <1>4 DEF TypeOK, TakeRow, ApplyDelete

LEMMA TypeRecord == TypeOK /\ RecordAnswer => TypeOK'
  <1> SUFFICES ASSUME TypeOK, RecordAnswer PROVE TypeOK' OBVIOUS
  <1>1. job \in Job
    BY JobAt DEF RecordAnswer
  <1>2. rows' \in [Ids -> Row \cup {NoRow}]
    BY <1>1 DEF RecordAnswer, MarkSynced, TypeOK, Job, Row, NoRow, Present, Status,
       PendingStatus
  <1>3. QED
    BY <1>2 DEF RecordAnswer, TypeOK, jacalVars, serverVars, ghostVars

\* A sync answer is well formed whatever the prior token was.
LEMMA AnswerType ==
  ASSUME TypeOK, NEW prior \in Nat, NEW upTo \in Nat, NEW newToken \in Nat
  PROVE  Answer(prior, upTo, newToken) \in Batch
  <1> DEFINE changed == {u \in ChangedSince(prior, upTo) : Live(u)}
             gone == {u \in ChangedSince(prior, upTo) : ~Live(u)}
             drop == IF prior = 0 THEN {} ELSE {<<"server", u>> : u \in gone}
  <1>1. changed \in SUBSET Uid /\ gone \in SUBSET Uid
    BY DEF ChangedSince
  <1>2. drop \in SUBSET ({"local", "server"} \X Uid)
    BY <1>1
  <1>3. srv \in [Uid -> Copy]
    BY DEF TypeOK
  <1> HIDE DEF changed, gone, drop
  <1>4. [copy |-> srv, changed |-> changed, listed |-> changed, gone |-> drop,
         reconcile |-> IF prior = 0 THEN "due" ELSE "done",
         token |-> newToken, upTo |-> upTo] \in Batch
    BY <1>1, <1>2, <1>3 DEF Batch
  <1>5. QED
    BY <1>4 DEF Answer, changed, gone, drop

\* What a pull asks for and what it gets, in one case.
LEMMA PullAnswer ==
  ASSUME TypeOK, Pull
  PROVE  \E prior \in {0, token}, upTo \in token .. ver \cup {ver}, newToken \in Nat :
            /\ batch' = Answer(prior, upTo, newToken)
            /\ \/ prior = token /\ newToken = upTo
               \/ prior = 0 /\ newToken \in {token, upTo} /\ upTo = ver
  <1>1. token \in Nat /\ ver \in Nat
    BY DEF TypeOK
  <1>2. CASE \E upTo \in (IF Paging THEN (token + 1) .. ver ELSE {}) \cup {ver} :
                batch' = Answer(token, upTo, upTo)
    <2>1. PICK upTo \in (IF Paging THEN (token + 1) .. ver ELSE {}) \cup {ver} :
             batch' = Answer(token, upTo, upTo)
      BY <1>2
    <2>2. upTo \in token .. ver \cup {ver} /\ upTo \in Nat
      BY <1>1
    <2>3. QED
      BY <2>1, <2>2
  <1>3. CASE batch' = Answer(0, ver, ver)
    BY <1>1, <1>3
  <1>4. CASE batch' = Answer(0, ver, token)
    BY <1>1, <1>4
  <1>5. QED
    BY <1>2, <1>3, <1>4 DEF Pull

LEMMA TypePull == TypeOK /\ Pull => TypeOK'
  <1> SUFFICES ASSUME TypeOK, Pull PROVE TypeOK' OBVIOUS
  <1>1. PICK prior \in {0, token}, upTo \in token .. ver \cup {ver}, newToken \in Nat :
           batch' = Answer(prior, upTo, newToken)
    BY PullAnswer
  <1>2. prior \in Nat /\ upTo \in Nat
    BY DEF TypeOK
  <1>3. batch' \in Batch
    BY <1>1, <1>2, AnswerType
  <1>4. faults' \in Nat
    BY DEF Pull, TypeOK, Fault
  <1>5. batch' # NoBatch /\ pc' = "apply" /\ job' = NoJob
    BY <1>3 DEF Batch, NoBatch, Pull, TypeOK
  <1>6. QED
    BY <1>3, <1>4, <1>5 DEF TypeOK, Pull, tableVars, jacalVars, serverVars, ghostVars

LEMMA TypeApplyChanged ==
  ASSUME TypeOK, NEW u \in Uid, ApplyChanged(u)
  PROVE  TypeOK'
  <1>1. batch \in Batch
    BY BatchAt DEF ApplyChanged, TypeOK
  <1>2. batch' \in Batch /\ batch' # NoBatch
    BY <1>1 DEF ApplyChanged, Batch, NoBatch
  <1>3. batch.copy[u] \in Copy /\ srv[u] \in Copy
    BY <1>1 DEF Batch, TypeOK
  <1>4. ASSUME NEW etag \in Nat, NEW body \in Nat, Upsert(u, etag, body)
        PROVE  rows' \in [Ids -> Row \cup {NoRow}] /\ nextId' \in Nat \ {0}
    <2>1. CASE \A id \in Ids : ~HasHref(id, "server", u)
      <3> DEFINE new == [where |-> "server", uid |-> u, etag |-> etag, body |-> body,
                         status |-> "synced", seen |-> {}]
      <3>1. new \in Row
        BY DEF Row, Status
      <3> HIDE DEF new
      <3>2. InsertRow(new)
        BY <1>4, <2>1 DEF Upsert, new
      <3>3. QED
        BY <3>1, <3>2 DEF InsertRow, TypeOK, Ids
    <2>2. ASSUME NEW id \in Ids, HasHref(id, "server", u), UNCHANGED nextId,
                 rows' = IF rows[id].status = "pending_delete"
                         THEN [rows EXCEPT ![id].etag = etag, ![id].body = body]
                         ELSE [rows EXCEPT ![id].etag = etag, ![id].body = body,
                                           ![id].status = "synced", ![id].seen = {}]
          PROVE  rows' \in [Ids -> Row \cup {NoRow}] /\ nextId' \in Nat \ {0}
      <3>1. rows[id] \in Row
        BY <2>2, RowAt DEF HasHref, Present
      <3>2. QED
        BY <2>2, <3>1 DEF TypeOK, Row, Status
    <2>3. QED
      BY <1>4, <2>1, <2>2 DEF Upsert
  <1>5. rows' \in [Ids -> Row \cup {NoRow}] /\ nextId' \in Nat \ {0} /\ faults' \in Nat
    BY <1>3, <1>4 DEF ApplyChanged, Copy, TypeOK, Fault, tableVars
  <1>6. lost' \in SUBSET Uid
    BY DEF ApplyChanged, TypeOK
  <1>7. QED
    BY <1>2, <1>5, <1>6 DEF ApplyChanged, TypeOK, jacalVars, serverVars

\* Steps of the sync thread.
LEMMA TypeThread == TypeOK /\ Thread => TypeOK'
  <1> SUFFICES ASSUME TypeOK, Thread PROVE TypeOK' OBVIOUS
  <1> USE DEF Fault, tableVars, jacalVars, threadVars, ghostVars, serverVars
  <1>1. CASE BeginCycle \/ ListPending \/ EndWrites
    BY <1>1 DEF TypeOK, BeginCycle, ListPending, EndWrites
  <1>2. ASSUME NEW id \in Ids, SkipWrite(id) \/ RequestLost(id) PROVE TypeOK'
    BY <1>2 DEF TypeOK, SkipWrite, RequestLost, TakeRow
  <1>3. ASSUME NEW id \in Ids, ApplyCreate(id) \/ ApplyUpdate(id) PROVE TypeOK'
    <2>1. rows[id] \in Row
      BY <1>3, RowAt DEF ApplyCreate, ApplyUpdate
    <2>2. PICK ifMatch \in Nat, create \in BOOLEAN : SendPut(id, ifMatch, create)
      BY <1>3, <2>1 DEF ApplyCreate, ApplyUpdate, Row
    <2>3. QED
      BY <1>3, <2>1, <2>2, TypePut DEF ApplyCreate, ApplyUpdate
  <1>4. ASSUME NEW id \in Ids, ApplyUpdatePlaceholder(id) PROVE TypeOK'
    <2>1. rows[id] \in Row
      BY <1>4, RowAt DEF ApplyUpdatePlaceholder
    <2>2. job' \in Job
      BY <1>4, <2>1 DEF ApplyUpdatePlaceholder, TypeOK, Job, Row
    <2>3. QED
      BY <1>4, <2>1, <2>2 DEF TypeOK, ApplyUpdatePlaceholder, TakeRow, Row
  <1>5. ASSUME NEW id \in Ids, DropPlaceholder(id) PROVE TypeOK'
    BY <1>5 DEF TypeOK, DropPlaceholder, TakeRow
  <1>6. ASSUME NEW id \in Ids, ApplyDelete(id) PROVE TypeOK'
    BY <1>6, TypeDelete
  <1>7. CASE Reget
    <2>1. job \in Job
      BY <1>7, JobAt DEF Reget
    <2>2. srv[job.uid] \in Copy
      BY <2>1 DEF Job, TypeOK
    <2>3. job' \in Job \cup {NoJob}
      BY <1>7, <2>1, <2>2 DEF Reget, Job, Copy
    <2>4. faults' \in Nat /\ pc \in {"queued", "pending"}
      BY <1>7 DEF Reget, TypeOK
    <2>5. QED
      BY <1>7, <2>3, <2>4 DEF Reget, TypeOK
  <1>8. CASE RecordAnswer
    BY <1>8, TypeRecord
  <1>9. CASE PullFailed \/ PruneEvents \/ PruneCalendar
    BY <1>9 DEF TypeOK, PullFailed, PruneEvents, PruneCalendar
  <1>10. CASE Pull
    BY <1>10, TypePull
  <1>11. ASSUME NEW u \in Uid, ApplyChanged(u) PROVE TypeOK'
    BY <1>11, TypeApplyChanged
  <1>12. ASSUME NEW u \in Uid, NEW w \in {"local", "server"}, DropByHref(w, u)
         PROVE  TypeOK'
    <2>1. batch \in Batch
      BY <1>12, BatchAt DEF DropByHref, TypeOK
    <2>2. batch' \in Batch /\ batch' # NoBatch
      BY <1>12, <2>1 DEF DropByHref, Batch, NoBatch
    <2>3. QED
      BY <1>12, <2>2 DEF TypeOK, DropByHref
  <1>13. CASE ListMissing
    <2>1. batch \in Batch
      BY <1>13, BatchAt DEF ListMissing, TypeOK
    <2>2. \A i \in Ids : rows[i].status = "synced" => rows[i] \in Row
      BY RowAt
    <2> DEFINE missing == {i \in Ids : /\ rows[i].status = "synced"
                                       /\ \/ rows[i].where = "local"
                                          \/ rows[i].uid \notin batch.listed}
               drop == {<<rows[id].where, rows[id].uid>> : id \in missing}
    <2>3. drop \in SUBSET ({"local", "server"} \X Uid)
      BY <2>2 DEF Row
    <2>4. batch' = [batch EXCEPT !.reconcile = "done", !.gone = drop]
      BY <1>13 DEF ListMissing
    <2> HIDE DEF drop
    <2>5. batch' \in Batch /\ batch' # NoBatch
      BY <2>1, <2>3, <2>4 DEF Batch, NoBatch
    <2>6. QED
      BY <1>13, <2>5 DEF TypeOK, ListMissing
  <1>14. CASE EndPull
    <2>1. batch \in Batch
      BY <1>14, BatchAt DEF EndPull, TypeOK
    <2>2. QED
      BY <1>14, <2>1 DEF TypeOK, EndPull, Batch
  <1>15. QED
    BY <1>1, <1>2, <1>3, <1>4, <1>5, <1>6, <1>7, <1>8, <1>9, <1>10, <1>11, <1>12,
       <1>13, <1>14 DEF Thread

\* Every variable keeps its type, and an answer is in hand exactly while the
\* thread is in the pass that handles it.
THEOREM TypeCorrect == Spec => []TypeOK
  <1>1. TypeOK /\ UNCHANGED vars => TypeOK'
    BY DEF TypeOK, vars
  <1>2. TypeOK /\ [Next]_vars => TypeOK'
    BY <1>1, TypeEnvironment, TypeThread DEF Next
  <1>3. QED
    BY <1>2, TypeInit, PTL DEF Spec

----------------------------------------------------------------------------
(* The cache is current: CacheInv is inductive.                            *)

LEMMA CacheInit == Init => CacheInv
  BY DEF Init, CacheInv, TokenOrder, HrefUnique, JobFresh, AnswerTrue, Applied,
     SyncedRowsCurrent, Claims, HasHref, Present, NoRow, NoJob

\* A step that leaves the server, the token and the answer alone, may abandon a
\* pass, and changes rows only by making them something other than synced.
Loosens ==
    /\ UNCHANGED <<srv, ver, token>>
    /\ clock <= clock'
    /\ pc' # "apply" \/ UNCHANGED <<pc, batch>>
    /\ job' = job \/ job' = NoJob \/ job'.where = "local"
       \/ job'.act \notin {"synced", "reget"}
    /\ \A id \in Ids :
          \/ rows'[id] = rows[id]
          \/ /\ rows'[id].status # "synced"
             /\ \A u \in Uid : HasHref(id, "server", u)' => HasHref(id, "server", u)

LEMMA LoosensStep ==
  ASSUME TypeOK, TypeOK', CacheInv, Loosens
  PROVE  CacheInv'
  <1> USE DEF CacheInv, Loosens
  <1>1. TokenOrder'
    BY DEF TokenOrder, TypeOK
  <1>2. HrefUnique'
    BY DEF HrefUnique, HasHref, Present
  <1>3. JobFresh'
    BY DEF JobFresh
  <1>4. AnswerTrue'
    BY DEF AnswerTrue
  <1>5. \A id \in Ids : \A t : Claims(id, t)' => Claims(id, t) /\ rows'[id] = rows[id]
    BY DEF Claims
  <1>6. \A id \in Ids : rows'[id] = rows[id] => (Current(id)' <=> Current(id))
    BY DEF Current, Live
  <1>7. Applied'
    <2>1. CASE pc' # "apply"
      BY <2>1 DEF Applied
    <2>2. CASE pc' = "apply"
      <3>1. batch' = batch /\ pc = "apply"
        BY <2>2
      <3>2. SUFFICES ASSUME NEW id \in Ids, Claims(id, batch.token)',
                            rows'[id].uid \notin batch.changed,
                            <<"server", rows'[id].uid>> \notin batch.gone,
                            batch.reconcile = "due" => rows'[id].uid \in batch.listed
                     PROVE  Current(id)'
        BY <3>1 DEF Applied
      <3>3. Claims(id, batch.token) /\ rows'[id] = rows[id]
        BY <3>1, <3>2, <1>5
      <3>4. QED
        BY <3>1, <3>2, <3>3, <1>6 DEF Applied
    <2>3. QED
      BY <2>1, <2>2
  <1>8. SyncedRowsCurrent'
    BY <1>5, <1>6 DEF SyncedRowsCurrent, TypeOK
  <1>9. QED
    BY <1>1, <1>2, <1>3, <1>4, <1>7, <1>8

\* A change of the server: its ETag is newer than every token handed out, so it
\* is outside what any row or answer claims.
LEMMA ServerStep ==
  ASSUME TypeOK, TypeOK', CacheInv, NEW u \in Uid, NEW body \in Nat,
         ChangeServer(u, body), UNCHANGED <<rows, token, batch, pc>>,
         \/ job' = job
         \/ job' = NoJob
         \/ job'.act \in {"synced", "reget"} => job'.uid = u
  PROVE  CacheInv'
  <1> USE DEF CacheInv
  <1>1. /\ srv'[u].at = clock + 1 /\ ver' = clock + 1 /\ clock' = clock + 1
        /\ \A e \in Uid : e # u => srv'[e] = srv[e]
        /\ ver \in Nat /\ clock \in Nat /\ token \in Nat
        /\ \A e \in Uid : srv[e].at \in Nat
    BY DEF ChangeServer, TypeOK, Copy
  <1>2. token < clock + 1 /\ ver < clock + 1
    BY <1>1 DEF TokenOrder
  <1>3. TokenOrder'
    BY <1>1, <1>2 DEF TokenOrder
  <1>4. HrefUnique'
    BY DEF HrefUnique, HasHref, Present
  <1>5. JobFresh'
    <2>1. job # NoJob => job.uid \in Uid
      BY JobAt DEF Job
    <2>2. QED
      BY <1>1, <1>2, <2>1 DEF JobFresh
  <1>6. pc = "apply" => batch.upTo \in Nat /\ batch.token \in Nat
    BY BatchAt DEF TypeOK, Batch
  <1>7. AnswerTrue'
    BY <1>1, <1>2, <1>6 DEF AnswerTrue
  <1>8. ASSUME NEW t \in Nat, t <= ver, NEW id \in Ids, Claims(id, t)'
        PROVE  Claims(id, t) /\ (Current(id) => Current(id)')
    <2>1. rows[id].uid \in Uid
      BY <1>8, RowAt DEF Claims, Row
    <2>2. rows[id].uid # u
      BY <1>1, <1>2, <1>8 DEF Claims
    <2>3. QED
      BY <1>1, <1>8, <2>1, <2>2 DEF Claims, Current, Live
  <1>9. Applied'
    BY <1>2, <1>6, <1>8 DEF Applied, AnswerTrue, TypeOK
  <1>10. SyncedRowsCurrent'
    BY <1>1, <1>8 DEF SyncedRowsCurrent, TokenOrder
  <1>11. QED
    BY <1>3, <1>4, <1>5, <1>7, <1>9, <1>10

\* Recording the answer to a write: the row becomes synced, with a version the
\* stored token does not cover yet.
LEMMA RecordStep ==
  ASSUME TypeOK, TypeOK', CacheInv, RecordAnswer
  PROVE  CacheInv'
  <1> USE DEF CacheInv
  <1>1. job \in Job /\ pc # "apply"
    BY JobAt DEF RecordAnswer, TypeOK
  <1>2. CASE job.act # "synced"
    <2>1. \A id \in Ids : \/ rows'[id] = rows[id]
                          \/ rows'[id] = NoRow
                          \/ rows'[id] = [rows[id] EXCEPT !.status = "conflict"] /\ Present(id)
      BY <1>1, <1>2 DEF RecordAnswer, TypeOK, Job
    <2>2. ASSUME NEW id \in Ids, rows'[id] # rows[id]
          PROVE  /\ rows'[id].status # "synced"
                 /\ \A u \in Uid : HasHref(id, "server", u)' => HasHref(id, "server", u)
      <3>1. CASE rows'[id] = NoRow
        BY <3>1 DEF NoRow, HasHref, Present
      <3>2. CASE rows'[id] = [rows[id] EXCEPT !.status = "conflict"] /\ Present(id)
        BY <3>2, RowAt DEF HasHref, Present, Row
      <3>3. QED
        BY <2>1, <2>2, <3>1, <3>2
    <2>3. UNCHANGED <<srv, ver, clock, token, pc, batch>> /\ job' = NoJob
      BY DEF RecordAnswer, serverVars
    <2>4. Loosens
      BY <2>2, <2>3 DEF Loosens, TypeOK
    <2>5. QED
      BY <2>4, LoosensStep
  <1>3. CASE job.act = "synced"
    <2>1. /\ UNCHANGED <<srv, ver, clock, token, pc, batch>> /\ job' = NoJob
          /\ MarkSynced(job)
      BY <1>1, <1>3 DEF RecordAnswer, Job, serverVars
    <2>2. TokenOrder' /\ JobFresh' /\ AnswerTrue' /\ Applied'
      BY <1>1, <2>1 DEF TokenOrder, JobFresh, AnswerTrue, Applied
    <2>3. CASE rows' = rows
      BY <2>1, <2>2, <2>3 DEF HrefUnique, HasHref, Present, SyncedRowsCurrent, Claims,
         Current, Live
    <2>4. CASE rows' # rows
      <3>1. /\ Present(job.id) /\ job.id \in Ids /\ job.uid \in Uid
            /\ \A i \in Ids \ {job.id} : ~HasHref(i, job.where, job.uid)
            /\ rows' = [rows EXCEPT ![job.id].where = job.where, ![job.id].uid = job.uid,
                                    ![job.id].etag = job.etag, ![job.id].status = "synced"]
        BY <1>1, <2>1, <2>4 DEF MarkSynced, Job
      <3>2. rows[job.id] \in Row
        BY <3>1, RowAt DEF Present
      <3>3. /\ \A i \in Ids \ {job.id} : rows'[i] = rows[i]
            /\ rows'[job.id].where = job.where /\ rows'[job.id].uid = job.uid
        BY <3>1, <3>2, ZenonT(60) DEF TypeOK, Row
      <3>4. ASSUME NEW i \in Ids, NEW j \in Ids, NEW u \in Uid,
                   HasHref(i, "server", u)', HasHref(j, "server", u)'
            PROVE  i = j
        <4>1. CASE i # job.id /\ j # job.id
          BY <3>3, <3>4, <4>1 DEF HrefUnique, HasHref, Present
        <4>2. CASE i = job.id /\ j # job.id
          BY <3>1, <3>3, <3>4, <4>2 DEF HasHref, Present
        <4>3. CASE i # job.id /\ j = job.id
          BY <3>1, <3>3, <3>4, <4>3 DEF HasHref, Present
        <4>4. QED
          BY <4>1, <4>2, <4>3
      <3>5. ASSUME NEW id \in Ids, Claims(id, token)'
            PROVE  Current(id)'
        <4>1. id # job.id
          <5>1. srv[job.uid].at \in Nat /\ token \in Nat
            BY <3>1 DEF TypeOK, Copy
          <5>2. QED
            BY <1>1, <1>3, <2>1, <3>3, <3>5, <5>1 DEF JobFresh, Claims, Job, NoJob, RecordAnswer
        <4>2. Claims(id, token) /\ rows'[id] = rows[id]
          BY <2>1, <3>3, <3>5, <4>1 DEF Claims
        <4>3. QED
          BY <2>1, <4>2 DEF SyncedRowsCurrent, Current, Live
      <3>6. HrefUnique' /\ SyncedRowsCurrent'
        BY <2>1, <3>4, <3>5 DEF HrefUnique, SyncedRowsCurrent
      <3>7. QED
        BY <2>2, <3>6
    <2>5. QED
      BY <2>3, <2>4
  <1>4. QED
    BY <1>2, <1>3

\* The answer to a pull: it says everything there is to say about the events that
\* changed after the token it was asked with.
LEMMA PullStep ==
  ASSUME TypeOK, TypeOK', CacheInv, Pull
  PROVE  CacheInv'
  <1> USE DEF CacheInv
  <1>1. /\ UNCHANGED <<srv, ver, clock, rows, token, job>> /\ job = NoJob
        /\ pc' = "apply"
    BY DEF Pull, TypeOK, tableVars, serverVars
  <1>2. PICK prior \in {0, token}, upTo \in token .. ver \cup {ver}, newToken \in Nat :
            /\ batch' = Answer(prior, upTo, newToken)
            /\ \/ prior = token /\ newToken = upTo
               \/ prior = 0 /\ newToken \in {token, upTo} /\ upTo = ver
    BY PullAnswer
  <1>3. /\ token \in Nat /\ ver \in Nat /\ token <= ver
        /\ token <= newToken /\ newToken <= upTo /\ upTo <= ver
    BY <1>2 DEF TypeOK, TokenOrder
  <1>4. /\ batch'.copy = srv /\ batch'.token = newToken /\ batch'.upTo = upTo
        /\ batch'.changed = {u \in ChangedSince(prior, upTo) : Live(u)}
        /\ batch'.listed = batch'.changed
        /\ batch'.reconcile = IF prior = 0 THEN "due" ELSE "done"
        /\ batch'.gone = IF prior = 0 THEN {}
                         ELSE {<<"server", u>> : u \in {e \in ChangedSince(prior, upTo) : ~Live(e)}}
    BY <1>2 DEF Answer
  <1>5. TokenOrder' /\ HrefUnique' /\ JobFresh' /\ SyncedRowsCurrent'
    BY <1>1 DEF TokenOrder, HrefUnique, HasHref, Present, JobFresh, SyncedRowsCurrent,
       Claims, Current, Live
  <1>6. AnswerTrue'
    <2>1. \A u \in batch'.changed : batch'.copy[u].body # 0
      BY <1>4 DEF Live
    <2>2. batch'.reconcile = "due" => batch'.gone = {}
      BY <1>4
    <2>3. QED
      BY <1>1, <1>3, <1>4, <2>1, <2>2 DEF AnswerTrue
  <1>7. Applied'
    <2>1. SUFFICES ASSUME NEW id \in Ids, Claims(id, newToken),
                          rows[id].uid \notin batch'.changed,
                          <<"server", rows[id].uid>> \notin batch'.gone,
                          batch'.reconcile = "due" => rows[id].uid \in batch'.listed
                   PROVE  Current(id)
      BY <1>1, <1>4 DEF Applied, Claims, Current, Live
    <2>2. prior # 0
      BY <1>4, <2>1
    <2>3. prior = token /\ newToken = upTo
      BY <1>2, <2>2
    <2>4. rows[id].uid \in Uid
      BY <2>1, RowAt DEF Claims, Row
    <2>5. rows[id].uid \notin ChangedSince(token, upTo)
      BY <1>4, <2>1, <2>2, <2>3, <2>4 DEF ChangedSince
    <2>6. srv[rows[id].uid].at \in Nat
      BY <2>4 DEF TypeOK, Copy
    <2>7. Claims(id, token)
      BY <1>3, <2>1, <2>3, <2>4, <2>5, <2>6 DEF ChangedSince, Claims
    <2>8. QED
      BY <2>7 DEF SyncedRowsCurrent
  <1>8. QED
    BY <1>5, <1>6, <1>7

\* An upsert touches the one row of the href, or makes it.
LEMMA UpsertRows ==
  ASSUME TypeOK, HrefUnique, NEW u \in Uid, NEW etag \in Nat, NEW body \in Nat,
         Upsert(u, etag, body)
  PROVE  \E i \in Ids :
            /\ \A id \in Ids \ {i} : rows'[id] = rows[id] /\ ~HasHref(id, "server", u)
            /\ rows'[i].where = "server" /\ rows'[i].uid = u
            /\ rows'[i].etag = etag /\ rows'[i].body = body
  <1>1. CASE \A id \in Ids : ~HasHref(id, "server", u)
    <2> DEFINE new == [where |-> "server", uid |-> u, etag |-> etag, body |-> body,
                       status |-> "synced", seen |-> {}]
    <2>1. new.where = "server" /\ new.uid = u /\ new.etag = etag /\ new.body = body
      OBVIOUS
    <2> HIDE DEF new
    <2>2. InsertRow(new)
      BY <1>1 DEF Upsert, new
    <2>3. nextId \in Ids
      BY <2>2 DEF InsertRow, TypeOK, Ids
    <2>4. rows' = [rows EXCEPT ![nextId] = new]
      BY <2>2 DEF InsertRow
    <2>5. rows'[nextId] = new /\ \A id \in Ids \ {nextId} : rows'[id] = rows[id]
      BY <2>3, <2>4 DEF TypeOK
    <2>6. QED
      BY <1>1, <2>1, <2>3, <2>5
  <1>2. CASE ~ \A id \in Ids : ~HasHref(id, "server", u)
    <2>1. PICK i \in Ids :
             /\ HasHref(i, "server", u)
             /\ rows' = IF rows[i].status = "pending_delete"
                        THEN [rows EXCEPT ![i].etag = etag, ![i].body = body]
                        ELSE [rows EXCEPT ![i].etag = etag, ![i].body = body,
                                          ![i].status = "synced", ![i].seen = {}]
      BY <1>2 DEF Upsert
    <2>2. rows[i] \in Row
      BY <2>1, RowAt DEF HasHref, Present
    <2>3. /\ rows'[i].where = rows[i].where /\ rows'[i].uid = rows[i].uid
          /\ rows'[i].etag = etag /\ rows'[i].body = body
          /\ \A id \in Ids \ {i} : rows'[id] = rows[id]
      BY <2>1, <2>2 DEF TypeOK, Row
    <2>4. QED
      BY <2>1, <2>3 DEF HasHref, HrefUnique
  <1>3. QED
    BY <1>1, <1>2

\* Applying one changed event: its row is current again, the others are untouched.
LEMMA ChangedStep ==
  ASSUME Inline, TypeOK, TypeOK', CacheInv, NEW u \in Uid, ApplyChanged(u)
  PROVE  CacheInv'
  <1> USE DEF CacheInv
  <1>1. batch \in Batch /\ pc = "apply" /\ job = NoJob /\ u \in batch.changed
    BY BatchAt DEF ApplyChanged, TypeOK
  <1>2. UNCHANGED <<srv, ver, clock, token, job, pc>>
    BY DEF ApplyChanged, serverVars
  <1>3. /\ batch' = [batch EXCEPT !.changed = @ \ {u}]
        /\ Upsert(u, batch.copy[u].at, batch.copy[u].body)
    BY DEF ApplyChanged
  <1>4. /\ batch'.changed = batch.changed \ {u} /\ batch'.gone = batch.gone
        /\ batch'.copy = batch.copy /\ batch'.listed = batch.listed
        /\ batch'.reconcile = batch.reconcile /\ batch'.token = batch.token
        /\ batch'.upTo = batch.upTo
    BY <1>1, <1>3 DEF Batch
  <1>5. batch.copy[u].at \in Nat /\ batch.copy[u].body \in Nat
    BY <1>1 DEF Batch, Copy
  <1>6. PICK i \in Ids :
            /\ \A id \in Ids \ {i} : rows'[id] = rows[id] /\ ~HasHref(id, "server", u)
            /\ rows'[i].where = "server" /\ rows'[i].uid = u
            /\ rows'[i].etag = batch.copy[u].at /\ rows'[i].body = batch.copy[u].body
    BY <1>3, <1>5, UpsertRows
  <1>7. TokenOrder' /\ JobFresh' /\ AnswerTrue'
    BY <1>1, <1>2, <1>4 DEF TokenOrder, JobFresh, AnswerTrue
  <1>8. HrefUnique'
    BY <1>6 DEF HrefUnique, HasHref, Present
  <1>9. batch.token \in Nat /\ batch.upTo \in Nat /\ token \in Nat /\ srv[u].at \in Nat
    BY <1>1 DEF Batch, TypeOK, Copy
  <1>10. ASSUME NEW t \in Nat, t <= batch.token, Claims(i, t)'
         PROVE  Current(i)'
    <2>1. srv[u] = batch.copy[u] /\ batch.copy[u].body # 0
      BY <1>1, <1>2, <1>6, <1>9, <1>10 DEF Claims, AnswerTrue
    <2>2. QED
      BY <1>2, <1>6, <2>1 DEF Current, Live
  <1>11. ASSUME NEW id \in Ids \ {i}, NEW t \in Nat, Claims(id, t)'
         PROVE  /\ Claims(id, t) /\ rows'[id] = rows[id] /\ rows[id].uid # u
                /\ Current(id)' <=> Current(id)
    BY <1>2, <1>6, <1>11 DEF Claims, Current, Live, HasHref, Present
  <1>12. Applied'
    <2>1. SUFFICES ASSUME NEW id \in Ids \ {i}, Claims(id, batch.token)',
                          rows'[id].uid \notin batch.changed \ {u},
                          <<"server", rows'[id].uid>> \notin batch.gone,
                          batch.reconcile = "due" => rows'[id].uid \in batch.listed
                   PROVE  Current(id)'
      BY <1>2, <1>4, <1>9, <1>10 DEF Applied
    <2>2. Claims(id, batch.token) /\ rows'[id] = rows[id] /\ rows[id].uid # u
      BY <1>4, <1>9, <1>11, <2>1
    <2>3. Current(id)
      BY <1>1, <2>1, <2>2 DEF Applied
    <2>4. QED
      BY <1>4, <1>9, <1>11, <2>1, <2>3
  <1>13. SyncedRowsCurrent'
    BY <1>1, <1>2, <1>9, <1>10, <1>11 DEF SyncedRowsCurrent, AnswerTrue
  <1>14. QED
    BY <1>7, <1>8, <1>12, <1>13

\* Dropping the rows of an href that is gone.
LEMMA DropStep ==
  ASSUME TypeOK, TypeOK', CacheInv, NEW u \in Uid, NEW w \in {"local", "server"},
         DropByHref(w, u)
  PROVE  CacheInv'
  <1> USE DEF CacheInv
  <1>1. batch \in Batch /\ pc = "apply" /\ job = NoJob
    BY BatchAt DEF DropByHref, TypeOK
  <1>2. UNCHANGED <<srv, ver, clock, token, job, pc>>
    BY DEF DropByHref, serverVars
  <1>3. /\ batch'.changed = batch.changed /\ batch'.gone = batch.gone \ {<<w, u>>}
        /\ batch'.copy = batch.copy /\ batch'.listed = batch.listed
        /\ batch'.reconcile = batch.reconcile /\ batch'.token = batch.token
        /\ batch'.upTo = batch.upTo
    BY <1>1 DEF DropByHref, Batch
  <1>4. \A id \in Ids : rows'[id] = IF HasHref(id, w, u) THEN NoRow ELSE rows[id]
    BY DEF DropByHref
  <1>5. \A id \in Ids : rows'[id].status # "none" => rows'[id] = rows[id] /\ ~HasHref(id, w, u)
    BY <1>4 DEF NoRow
  <1>6. TokenOrder' /\ JobFresh' /\ AnswerTrue'
    BY <1>1, <1>2, <1>3 DEF TokenOrder, JobFresh, AnswerTrue
  <1>7. HrefUnique'
    BY <1>5 DEF HrefUnique, HasHref, Present
  <1>8. \A id \in Ids : \A t : Claims(id, t)' =>
            /\ Claims(id, t) /\ rows'[id] = rows[id] /\ ~HasHref(id, w, u)
            /\ Current(id)' <=> Current(id)
    BY <1>2, <1>5 DEF Claims, Current, Live
  <1>9. Applied'
    <2>1. SUFFICES ASSUME NEW id \in Ids, Claims(id, batch.token)',
                          rows'[id].uid \notin batch.changed,
                          <<"server", rows'[id].uid>> \notin batch.gone \ {<<w, u>>},
                          batch.reconcile = "due" => rows'[id].uid \in batch.listed
                   PROVE  Current(id)'
      BY <1>3 DEF Applied
    <2>2. <<"server", rows[id].uid>> # <<w, u>>
      BY <1>8, <2>1 DEF HasHref, Present, Claims
    <2>3. Claims(id, batch.token) /\ rows'[id] = rows[id]
      BY <1>3, <1>8, <2>1
    <2>4. Current(id)
      BY <1>1, <2>1, <2>2, <2>3 DEF Applied
    <2>5. QED
      BY <1>3, <1>8, <2>1, <2>4
  <1>10. SyncedRowsCurrent'
    BY <1>2, <1>8 DEF SyncedRowsCurrent
  <1>11. QED
    BY <1>6, <1>7, <1>9, <1>10

\* Looking up what a complete listing left out.
LEMMA MissingStep ==
  ASSUME TypeOK, TypeOK', CacheInv, ListMissing
  PROVE  CacheInv'
  <1> USE DEF CacheInv
  <1>1. batch \in Batch /\ pc = "apply" /\ job = NoJob
    BY BatchAt DEF ListMissing, TypeOK
  <1>2. UNCHANGED <<srv, ver, clock, rows, token, job, pc>>
    BY DEF ListMissing, serverVars, tableVars
  <1> DEFINE drop == {<<rows[id].where, rows[id].uid>> :
                        id \in {i \in Ids : /\ rows[i].status = "synced"
                                            /\ \/ rows[i].where = "local"
                                               \/ rows[i].uid \notin batch.listed}}
  <1>3. /\ batch'.changed = batch.changed /\ batch'.gone = drop
        /\ batch'.copy = batch.copy /\ batch'.listed = batch.listed
        /\ batch'.reconcile = "done" /\ batch'.token = batch.token
        /\ batch'.upTo = batch.upTo
    BY <1>1 DEF ListMissing, Batch
  <1>4. \A id \in Ids : Claims(id, batch.token) /\ rows[id].uid \notin batch.listed
                            => <<"server", rows[id].uid>> \in drop
    BY DEF Claims
  <1> HIDE DEF drop
  <1>5. TokenOrder' /\ HrefUnique' /\ JobFresh' /\ AnswerTrue' /\ SyncedRowsCurrent'
    BY <1>1, <1>2, <1>3 DEF TokenOrder, HrefUnique, HasHref, Present, JobFresh, AnswerTrue,
       SyncedRowsCurrent, Claims, Current, Live
  <1>6. Applied'
    <2>1. SUFFICES ASSUME NEW id \in Ids, Claims(id, batch.token),
                          rows[id].uid \notin batch.changed,
                          <<"server", rows[id].uid>> \notin drop
                   PROVE  Current(id)
      BY <1>2, <1>3 DEF Applied, Claims, Current, Live
    <2>2. batch.gone = {}
      BY <1>1 DEF AnswerTrue, ListMissing
    <2>3. QED
      BY <1>1, <1>4, <2>1, <2>2 DEF Applied
  <1>7. QED
    BY <1>5, <1>6

\* Storing the token, once nothing of the answer is left.
LEMMA EndStep ==
  ASSUME TypeOK, TypeOK', CacheInv, EndPull
  PROVE  CacheInv'
  <1> USE DEF CacheInv
  <1>1. /\ UNCHANGED <<srv, ver, clock, rows, job>> /\ token' = batch.token
        /\ pc' = "sleep" /\ pc = "apply" /\ job = NoJob
        /\ batch.changed = {} /\ batch.gone = {} /\ batch.reconcile = "done"
    BY DEF EndPull, serverVars, tableVars, TypeOK
  <1>2. batch.token \in Nat /\ batch.upTo \in Nat /\ ver \in Nat
    BY <1>1, BatchAt DEF TypeOK, Batch
  <1>3. TokenOrder' /\ HrefUnique' /\ JobFresh' /\ AnswerTrue' /\ Applied'
    BY <1>1, <1>2 DEF TokenOrder, HrefUnique, HasHref, Present, JobFresh, AnswerTrue, Applied
  <1>4. SyncedRowsCurrent'
    BY <1>1 DEF SyncedRowsCurrent, Applied, Claims, Current, Live
  <1>5. QED
    BY <1>3, <1>4

----------------------------------------------------------------------------
(* The steps that loosen, and the steps that change the server.            *)

\* jacal, and the start of a new daemon.
LEMMA UserLoosens ==
  ASSUME TypeOK, TypeOK',
         \/ \E u \in Uid : UserCreate(u)
         \/ \E id \in Ids : UserOpen(id, "edit") \/ UserOpen(id, "delete")
         \/ UserRead \/ UserEdit \/ UserDelete \/ Restart
  PROVE  Loosens
  <1> USE DEF tableVars, serverVars, threadVars, ghostVars, jacalVars
  <1>1. clock \in Nat
    BY DEF TypeOK
  <1>2. ASSUME NEW u \in Uid, UserCreate(u) PROVE Loosens
    <2> DEFINE new == [where |-> "local", uid |-> u, etag |-> 0, body |-> clock + 1,
                       status |-> "pending_create", seen |-> {}]
    <2>1. new.where = "local" /\ new.status = "pending_create"
      OBVIOUS
    <2> HIDE DEF new
    <2>2. rows' = [rows EXCEPT ![nextId] = new]
      BY <1>2 DEF UserCreate, InsertRow, new
    <2>3. \A id \in Ids : rows'[id] = rows[id] \/ rows'[id] = new
      BY <2>2 DEF TypeOK
    <2>4. QED
      BY <1>1, <1>2, <2>1, <2>3 DEF UserCreate, Loosens, HasHref
  <1>3. CASE \/ \E id \in Ids : UserOpen(id, "edit") \/ UserOpen(id, "delete")
             \/ UserRead \/ Restart
    BY <1>1, <1>3 DEF UserOpen, UserRead, Restart, Loosens
  <1>4. CASE UserEdit
    <2>1. ASSUME Present(form.id), form.id \in Ids
          PROVE  /\ rows'[form.id].status \in {"pending_create", "pending_update"}
                 /\ rows'[form.id].where = rows[form.id].where
                 /\ rows'[form.id].uid = rows[form.id].uid
                 /\ \A id \in Ids \ {form.id} : rows'[id] = rows[id]
      <3>1. rows[form.id] \in Row
        BY <2>1, RowAt DEF Present
      <3>2. QED
        BY <1>4, <2>1, <3>1 DEF UserEdit, TypeOK, Row
    <2>2. form.id \in Ids
      BY <1>4 DEF UserEdit, TypeOK, Form
    <2>3. ~Present(form.id) => rows' = rows
      BY <1>4 DEF UserEdit
    <2>4. \A id \in Ids :
              \/ rows'[id] = rows[id]
              \/ /\ rows'[id].status # "synced"
                 /\ \A u \in Uid : HasHref(id, "server", u)' => HasHref(id, "server", u)
      BY <2>1, <2>2, <2>3 DEF HasHref, Present
    <2>5. QED
      BY <1>1, <1>4, <2>4 DEF UserEdit, Loosens
  <1>5. CASE UserDelete
    <2>1. form.id \in Ids
      BY <1>5 DEF UserDelete, TypeOK, Form
    <2>2. \A id \in Ids : \/ rows'[id] = rows[id]
                          \/ rows'[id] = NoRow
                          \/ /\ Present(id)
                             /\ rows'[id] = [rows[id] EXCEPT !.status = "pending_delete",
                                                             !.seen = form.seen]
      BY <1>5, <2>1 DEF UserDelete, TypeOK
    <2>3. ASSUME NEW id \in Ids, rows'[id] # rows[id]
          PROVE  /\ rows'[id].status # "synced"
                 /\ \A u \in Uid : HasHref(id, "server", u)' => HasHref(id, "server", u)
      <3>1. CASE rows'[id] = NoRow
        BY <3>1 DEF NoRow, HasHref, Present
      <3>2. CASE Present(id) /\ rows'[id] = [rows[id] EXCEPT !.status = "pending_delete",
                                                             !.seen = form.seen]
        BY <3>2, RowAt DEF HasHref, Present, Row
      <3>3. QED
        BY <2>2, <2>3, <3>1, <3>2
    <2>4. UNCHANGED <<srv, ver, clock, token, pc, batch, job>>
      BY <1>5 DEF UserDelete
    <2>5. QED
      BY <1>1, <2>3, <2>4 DEF Loosens
  <1>6. QED
    BY <1>2, <1>3, <1>4, <1>5

\* The write pass, where no request is accepted.
LEMMA WriteLoosens ==
  ASSUME TypeOK, TypeOK',
         \/ BeginCycle \/ ListPending \/ EndWrites \/ PullFailed
         \/ \E id \in Ids : SkipWrite(id) \/ RequestLost(id) \/ DropPlaceholder(id)
                              \/ ApplyUpdatePlaceholder(id)
  PROVE  Loosens
  <1> USE DEF tableVars, serverVars, ghostVars, jacalVars
  <1>1. CASE BeginCycle \/ ListPending \/ EndWrites \/ PullFailed
    BY <1>1 DEF BeginCycle, ListPending, EndWrites, PullFailed, Loosens, TypeOK
  <1>2. CASE \E id \in Ids : SkipWrite(id) \/ RequestLost(id)
    BY <1>2 DEF SkipWrite, RequestLost, TakeRow, Loosens, TypeOK
  <1>3. ASSUME NEW id \in Ids, DropPlaceholder(id) PROVE Loosens
    <2>1. \A i \in Ids : rows'[i] = rows[i] \/ rows'[i] = NoRow
      BY <1>3 DEF DropPlaceholder, TypeOK
    <2>2. QED
      BY <1>3, <2>1 DEF DropPlaceholder, TakeRow, Loosens, TypeOK, NoRow, HasHref, Present
  <1>4. ASSUME NEW id \in Ids, ApplyUpdatePlaceholder(id) PROVE Loosens
    BY <1>4 DEF ApplyUpdatePlaceholder, TakeRow, Loosens, TypeOK
  <1>5. QED
    BY <1>1, <1>2, <1>3, <1>4

\* PUT and DELETE: the server changed, or refused.
LEMMA RequestStep ==
  ASSUME TypeOK, TypeOK', CacheInv, NEW id \in Ids,
         ApplyCreate(id) \/ ApplyUpdate(id) \/ ApplyDelete(id)
  PROVE  CacheInv'
  <1> USE DEF tableVars, serverVars, ghostVars, jacalVars
  <1>1. rows[id] \in Row /\ rows[id].uid \in Uid /\ rows[id].body \in Nat
    BY RowAt DEF ApplyCreate, ApplyUpdate, ApplyDelete, Row
  <1>2. /\ UNCHANGED <<rows, token, batch, pc>>
        /\ pc \in {"queued", "pending"} /\ clock \in Nat /\ job = NoJob
    BY DEF ApplyCreate, ApplyUpdate, ApplyDelete, TakeRow, TypeOK
  <1>3. ASSUME NEW ifMatch, NEW create, SendPut(id, ifMatch, create)
        PROVE  CacheInv'
    <2>1. CASE PutAccepted(rows[id].uid, ifMatch, create)
      <3>1. ChangeServer(rows[id].uid, rows[id].body)
        BY <1>3, <2>1 DEF SendPut
      <3>2. job' = job \/ job'.uid = rows[id].uid
        BY <1>3, <2>1 DEF SendPut
      <3>3. QED
        BY <1>1, <1>2, <3>1, <3>2, ServerStep
    <2>2. CASE ~PutAccepted(rows[id].uid, ifMatch, create)
      <3>1. UNCHANGED <<srv, ver, clock>> /\ job'.act = "conflict"
        BY <1>3, <2>2 DEF SendPut
      <3>2. Loosens
        BY <1>2, <3>1 DEF Loosens
      <3>3. QED
        BY <3>2, LoosensStep
    <2>3. QED
      BY <2>1, <2>2
  <1>4. CASE ApplyCreate(id) \/ ApplyUpdate(id)
    BY <1>3, <1>4 DEF ApplyCreate, ApplyUpdate
  <1>5. CASE ApplyDelete(id)
    <2>1. CASE Live(rows[id].uid) /\ DeleteAccepted(rows[id].uid, rows[id].etag)
      <3>1. ChangeServer(rows[id].uid, 0)
        BY <1>5, <2>1 DEF ApplyDelete
      <3>2. job' = job \/ job'.uid = rows[id].uid
        BY <1>5, <2>1 DEF ApplyDelete
      <3>3. QED
        BY <1>1, <1>2, <3>1, <3>2, ServerStep
    <2>2. CASE ~(Live(rows[id].uid) /\ DeleteAccepted(rows[id].uid, rows[id].etag))
      <3>1. UNCHANGED <<srv, ver, clock>> /\ job'.act \in {"conflict", "remove"}
        BY <1>5, <2>2 DEF ApplyDelete
      <3>2. Loosens
        BY <1>2, <3>1 DEF Loosens
      <3>3. QED
        BY <3>2, LoosensStep
    <2>3. QED
      BY <2>1, <2>2
  <1>6. QED
    BY <1>4, <1>5

LEMMA RegetStep ==
  ASSUME TypeOK, TypeOK', CacheInv, Reget
  PROVE  CacheInv'
  <1>1. /\ UNCHANGED <<srv, ver, clock, rows, token, pc, batch>>
        /\ pc # "apply" /\ job \in Job /\ job.act = "reget"
    BY JobAt DEF Reget, tableVars, serverVars, TypeOK
  <1>2. CASE job' = NoJob
    BY <1>1, <1>2, LoosensStep DEF Loosens, TypeOK
  <1>3. CASE job' = [job EXCEPT !.act = "synced", !.etag = srv[job.uid].at]
    <2>1. job'.where = job.where /\ job'.uid = job.uid /\ job # NoJob
      BY <1>1, <1>3 DEF Job, NoJob
    <2>2. JobFresh'
      BY <1>1, <2>1 DEF CacheInv, JobFresh
    <2>3. QED
      BY <1>1, <2>2 DEF CacheInv, TokenOrder, HrefUnique, HasHref, Present, AnswerTrue,
         Applied, SyncedRowsCurrent, Claims, Current, Live
  <1>4. QED
    BY <1>2, <1>3 DEF Reget

LEMMA PruneStep ==
  ASSUME TypeOK, TypeOK', CacheInv, PruneEvents \/ PruneCalendar
  PROVE  CacheInv'
  <1>1. /\ UNCHANGED <<srv, ver, clock, job>> /\ job = NoJob /\ token' \in {0, token}
        /\ pc' # "apply" /\ ver \in Nat /\ token \in Nat
    BY DEF PruneEvents, PruneCalendar, serverVars, TypeOK
  <1>2. CASE \A id \in Ids : rows'[id] = NoRow
    BY <1>1, <1>2 DEF CacheInv, TokenOrder, HrefUnique, HasHref, Present, JobFresh, AnswerTrue,
       Applied, SyncedRowsCurrent, Claims, NoRow
  <1>3. CASE rows' = rows
    <2>1. \A id \in Ids : Claims(id, token)' => Claims(id, token)
      <3>1. ASSUME NEW id \in Ids, Claims(id, token)' PROVE Claims(id, token)
        <4>1. rows[id].uid \in Uid
          BY <1>3, <3>1, RowAt DEF Claims, Row
        <4>2. srv[rows[id].uid].at \in Nat
          BY <4>1 DEF TypeOK, Copy
        <4> QED BY <1>1, <1>3, <3>1, <4>2 DEF Claims
      <3> QED BY <3>1
    <2>2. SyncedRowsCurrent'
      BY <1>1, <1>3, <2>1 DEF CacheInv, SyncedRowsCurrent, Current, Live
    <2>3. TokenOrder'
      BY <1>1 DEF CacheInv, TokenOrder
    <2> QED
      BY <1>1, <1>3, <2>2, <2>3 DEF CacheInv, HrefUnique, HasHref, Present, JobFresh, AnswerTrue, Applied
  <1>4. QED
    BY <1>2, <1>3 DEF PruneEvents, PruneCalendar, tableVars

LEMMA CacheStep ==
  ASSUME Inline, TypeOK, TypeOK', CacheInv, Next
  PROVE  CacheInv'
  <1>1. ASSUME NEW u \in Uid, OtherWrite(u) \/ OtherDelete(u) PROVE CacheInv'
    <2>1. PICK body \in Nat : ChangeServer(u, body)
      BY <1>1 DEF OtherWrite, OtherDelete, TypeOK
    <2>2. UNCHANGED <<rows, token, batch, pc, job>>
      BY <1>1 DEF OtherWrite, OtherDelete, tableVars, threadVars
    <2>3. QED
      BY <2>1, <2>2, ServerStep
  <1>2. CASE \/ \E u \in Uid : UserCreate(u)
             \/ \E id \in Ids : UserOpen(id, "edit") \/ UserOpen(id, "delete")
             \/ UserRead \/ UserEdit \/ UserDelete \/ Restart
    BY <1>2, UserLoosens, LoosensStep
  <1>3. CASE \/ BeginCycle \/ ListPending \/ EndWrites \/ PullFailed
             \/ \E id \in Ids : SkipWrite(id) \/ RequestLost(id) \/ DropPlaceholder(id)
                                  \/ ApplyUpdatePlaceholder(id)
    BY <1>3, WriteLoosens, LoosensStep
  <1>4. ASSUME NEW id \in Ids, ApplyCreate(id) \/ ApplyUpdate(id) \/ ApplyDelete(id)
        PROVE  CacheInv'
    BY <1>4, RequestStep
  <1>5. CASE Reget \/ RecordAnswer \/ PruneEvents \/ PruneCalendar \/ Pull \/ ListMissing \/ EndPull
    BY <1>5, RegetStep, RecordStep, PruneStep, PullStep, MissingStep, EndStep
  <1>6. ASSUME NEW u \in Uid, ApplyChanged(u) PROVE CacheInv'
    BY <1>6, ChangedStep
  <1>7. ASSUME NEW u \in Uid, NEW w \in {"local", "server"}, DropByHref(w, u)
        PROVE  CacheInv'
    BY <1>7, DropStep
  <1>8. QED
    BY <1>1, <1>2, <1>3, <1>4, <1>5, <1>6, <1>7 DEF Next, Thread, Environment

\* With a server that inlines the events in its sync answers, a row shown as
\* synced is the server's current copy as far as the stored token reaches.
THEOREM CacheCurrent ==
  ASSUME Inline
  PROVE  Spec => []SyncedRowsCurrent
  <1>1. CacheInv /\ UNCHANGED vars => CacheInv'
    BY DEF CacheInv, vars, TokenOrder, HrefUnique, HasHref, Present, JobFresh, AnswerTrue,
       Applied, SyncedRowsCurrent, Claims, Current, Live
  <1>2. TypeOK /\ TypeOK' /\ CacheInv /\ [Next]_vars => CacheInv'
    BY <1>1, CacheStep
  <1>3. CacheInv => SyncedRowsCurrent
    BY DEF CacheInv
  <1>4. QED
    BY <1>2, <1>3, CacheInit, TypeCorrect, PTL DEF Spec

----------------------------------------------------------------------------
(* What applying an answer spares.  Only what the answer was made of tells   *)
(* which events it takes for gone; and a row is never written over by a new  *)
(* one.                                                                      *)

Stamped == ver <= clock /\ \A u \in Uid : srv[u].at <= ver /\ (Live(u) => srv[u].at # 0)
IdsBelow == \A id \in Ids : Present(id) => id < nextId
GoneThen ==
    pc = "apply" =>
        /\ \A u \in Uid : <<"server", u>> \in batch.gone => batch.copy[u].body = 0
        /\ batch.reconcile = "due" =>
             \A u \in Uid : batch.copy[u].body # 0 => u \in batch.listed
SpareInv == Stamped /\ IdsBelow /\ GoneThen

LEMMA SpareInit == Init => SpareInv
  BY DEF Init, SpareInv, Stamped, IdsBelow, GoneThen, Live, Present, NoRow

\* What changes the server, and how.
LEMMA StampedStep == ASSUME TypeOK, Stamped, [Next]_vars PROVE Stamped'
  <1>3. clock \in Nat /\ ver \in Nat
    BY DEF TypeOK
  <1>1. CASE srv' = srv /\ ver' = ver /\ (clock' = clock \/ clock' = clock + 1)
    BY <1>1, <1>3 DEF Stamped, Live
  <1>2. ASSUME NEW v \in Uid, NEW body \in Nat, ChangeServer(v, body) PROVE Stamped'
    <2>1. /\ srv' = [srv EXCEPT ![v] = [at |-> clock + 1, body |-> body]]
          /\ ver' = clock + 1 /\ clock' = clock + 1
      BY <1>2 DEF ChangeServer
    <2>2. srv'[v] = [at |-> clock + 1, body |-> body] /\ \A u \in Uid : u # v => srv'[u] = srv[u]
      BY <2>1 DEF TypeOK
    <2>3. \A u \in Uid : srv[u].at \in Nat /\ srv[u].at <= ver
      BY DEF Stamped, TypeOK, Copy
    <2> QED BY <1>3, <2>1, <2>2, <2>3 DEF Stamped, Live
  <1>4. CASE \/ UNCHANGED vars \/ \E u \in Uid : UserCreate(u)
             \/ UserRead \/ UserEdit \/ UserDelete \/ Restart
             \/ \E id \in Ids : UserOpen(id, "edit") \/ UserOpen(id, "delete")
    BY <1>1, <1>3, <1>4 DEF vars, UserCreate, UserRead, UserEdit, UserDelete, Restart, UserOpen, serverVars
  <1>5. CASE \E u \in Uid : OtherWrite(u) \/ OtherDelete(u)
    BY <1>2, <1>3, <1>5 DEF OtherWrite, OtherDelete
  <1>6. ASSUME NEW id \in Ids, ApplyCreate(id) \/ ApplyUpdate(id) \/ ApplyDelete(id) PROVE Stamped'
    <2>1. rows[id] \in Row
      BY <1>6, RowAt DEF ApplyCreate, ApplyUpdate, ApplyDelete
    <2>2. rows[id].uid \in Uid /\ rows[id].body \in Nat
      BY <2>1 DEF Row
    <2>3. CASE ApplyDelete(id)
      BY <1>1, <1>2, <1>3, <2>2, <2>3 DEF ApplyDelete, serverVars
    <2>4. ASSUME NEW ifMatch, NEW create, SendPut(id, ifMatch, create) PROVE Stamped'
      BY <1>1, <1>2, <1>3, <2>2, <2>4 DEF SendPut, serverVars
    <2> QED BY <1>6, <2>3, <2>4 DEF ApplyCreate, ApplyUpdate
  <1>7. CASE \/ BeginCycle \/ ListPending \/ EndWrites \/ Reget \/ RecordAnswer \/ PullFailed
             \/ PruneEvents \/ PruneCalendar
             \/ Pull \/ ListMissing \/ EndPull
             \/ \E id \in Ids : SkipWrite(id) \/ RequestLost(id) \/ ApplyUpdatePlaceholder(id)
                                   \/ DropPlaceholder(id)
    BY <1>1, <1>3, <1>7 DEF BeginCycle, ListPending, EndWrites, Reget, RecordAnswer, PullFailed, PruneEvents, PruneCalendar,
       Pull, ListMissing, EndPull, SkipWrite, RequestLost, ApplyUpdatePlaceholder, DropPlaceholder,
       serverVars
  <1>8. CASE (\E u \in Uid : ApplyChanged(u)) \/ \E u \in Uid, w \in {"local", "server"} : DropByHref(w, u)
    BY <1>1, <1>3, <1>8 DEF ApplyChanged, DropByHref, serverVars
  <1> QED BY <1>4, <1>5, <1>6, <1>7, <1>8 DEF Next, Thread, Environment

\* A row is put where there was none.
LEMMA Inserted ==
  ASSUME TypeOK, NEW r, InsertRow(r)
  PROVE  /\ nextId \in Ids /\ nextId' = nextId + 1 /\ nextId \in Nat
         /\ rows'[nextId] = r /\ \A id \in Ids \ {nextId} : rows'[id] = rows[id]
  BY DEF InsertRow, Ids, TypeOK

LEMMA IdsStep == ASSUME TypeOK, TypeOK', IdsBelow, [Next]_vars PROVE IdsBelow'
  <1>1. CASE nextId' = nextId /\ \A id \in Ids : Present(id)' => Present(id)
    BY <1>1 DEF IdsBelow
  <1>2. ASSUME NEW r, InsertRow(r) PROVE IdsBelow'
    BY <1>2, Inserted DEF IdsBelow, Present, Ids
  <1>3. CASE UNCHANGED tableVars
    BY <1>1, <1>3 DEF tableVars, Present
  <1>4. CASE \/ UNCHANGED vars \/ UserRead \/ Restart
             \/ \E id \in Ids : UserOpen(id, "edit") \/ UserOpen(id, "delete")
             \/ \E u \in Uid : OtherWrite(u) \/ OtherDelete(u)
             \/ BeginCycle \/ ListPending \/ EndWrites \/ Reget \/ PullFailed
             \/ Pull \/ ListMissing \/ EndPull
             \/ \E id \in Ids : SkipWrite(id) \/ RequestLost(id) \/ ApplyUpdatePlaceholder(id)
                                  \/ ApplyCreate(id) \/ ApplyUpdate(id) \/ ApplyDelete(id)
    BY <1>3, <1>4 DEF vars, UserRead, Restart, UserOpen, OtherWrite, OtherDelete, BeginCycle,
       ListPending, EndWrites, Reget, PullFailed, Pull, ListMissing, EndPull, SkipWrite, RequestLost,
       ApplyUpdatePlaceholder, ApplyCreate, ApplyUpdate, ApplyDelete, tableVars
  <1>5. CASE UserEdit \/ UserDelete
    <2>1. form \in Form /\ nextId' = nextId
      BY <1>5 DEF UserEdit, UserDelete, TypeOK
    <2>2. PICK i \in Ids : i = form.id
      BY <2>1 DEF Form
    <2>3. \A id \in Ids \ {i} : rows'[id] = rows[id]
      BY <1>5, <2>2 DEF UserEdit, UserDelete, TypeOK
    <2>4. Present(i)' => Present(i)
      BY <1>5, <2>2 DEF UserEdit, UserDelete, Present
    <2> QED BY <1>1, <2>1, <2>3, <2>4 DEF Present
  <1>6. CASE \E u \in Uid : UserCreate(u)
    BY <1>2, <1>6 DEF UserCreate
  <1>7. CASE RecordAnswer
    <2>1. job \in Job /\ nextId' = nextId
      BY <1>7, JobAt DEF RecordAnswer
    <2>2. PICK i \in Ids : i = job.id
      BY <2>1 DEF Job
    <2>3. \A id \in Ids \ {i} : rows'[id] = rows[id]
      BY <1>7, <2>2 DEF RecordAnswer, MarkSynced, TypeOK
    <2>4. Present(i)' => Present(i)
      BY <1>7, <2>2 DEF RecordAnswer, MarkSynced, Present, TypeOK, NoRow
    <2> QED BY <1>1, <2>1, <2>3, <2>4 DEF Present
  <1>8. CASE PruneEvents \/ PruneCalendar
    BY <1>1, <1>8 DEF PruneEvents, PruneCalendar, tableVars, Present, NoRow
  <1>9. CASE \E u \in Uid, w \in {"local", "server"} : DropByHref(w, u)
    BY <1>1, <1>9 DEF DropByHref, Present, NoRow
  <1>10. CASE \E id \in Ids : DropPlaceholder(id)
    BY <1>1, <1>10 DEF DropPlaceholder, Present, NoRow, TypeOK
  <1>11. ASSUME NEW u \in Uid, ApplyChanged(u) PROVE IdsBelow'
    <2>1. ASSUME NEW etag, NEW body, Upsert(u, etag, body) PROVE IdsBelow'
      <3>1. CASE \A id \in Ids : ~HasHref(id, "server", u)
        BY <1>2, <2>1, <3>1 DEF Upsert
      <3>2. ASSUME NEW i \in Ids, HasHref(i, "server", u), UNCHANGED nextId,
                   rows' = IF rows[i].status = "pending_delete"
                           THEN [rows EXCEPT ![i].etag = etag, ![i].body = body]
                           ELSE [rows EXCEPT ![i].etag = etag, ![i].body = body,
                                             ![i].status = "synced", ![i].seen = {}]
            PROVE  IdsBelow'
        <4>1. \A id \in Ids \ {i} : rows'[id] = rows[id]
          BY <3>2 DEF TypeOK
        <4> QED BY <1>1, <3>2, <4>1 DEF Present, HasHref
      <3> QED BY <2>1, <3>1, <3>2 DEF Upsert
    <2> QED BY <1>3, <1>11, <2>1 DEF ApplyChanged
  <1> QED BY <1>4, <1>5, <1>6, <1>7, <1>8, <1>9, <1>10, <1>11 DEF Next, Thread, Environment

LEMMA GoneStep == ASSUME ~Paging, TypeOK, TypeOK', SpareInv, [Next]_vars PROVE GoneThen'
  <1>1. CASE pc' # "apply"
    BY <1>1 DEF GoneThen
  <1>2. CASE UNCHANGED <<pc, batch>>
    BY <1>2 DEF GoneThen, SpareInv
  <1>3. CASE Pull
    <2>1. batch' \in {Answer(token, ver, ver), Answer(0, ver, ver), Answer(0, ver, token)}
      BY <1>3 DEF Pull
    <2>2. PICK prior \in Nat, t \in Nat : batch' = Answer(prior, ver, t)
      BY <2>1 DEF TypeOK
    <2>3. batch'.copy = srv /\ batch'.listed = {u \in ChangedSince(prior, ver) : Live(u)}
          /\ (\A u \in Uid : <<"server", u>> \in batch'.gone => ~Live(u))
          /\ (batch'.reconcile = "due" => prior = 0)
      BY <2>2 DEF Answer
    <2>4. \A u \in Uid : Live(u) /\ prior = 0 => u \in batch'.listed
      BY <2>3 DEF SpareInv, Stamped, ChangedSince, TypeOK, Copy
    <2> QED BY <2>3, <2>4 DEF GoneThen, Live
  <1>4. ASSUME pc = "apply", batch' = [batch EXCEPT !.changed = batch'.changed] PROVE GoneThen'
    <2>1. batch \in Batch
      BY <1>4, BatchAt DEF TypeOK
    <2>2. batch'.gone = batch.gone /\ batch'.copy = batch.copy /\ batch'.listed = batch.listed
          /\ batch'.reconcile = batch.reconcile
      BY <1>4, <2>1 DEF Batch
    <2> QED BY <1>4, <2>2 DEF GoneThen, SpareInv
  <1>5. CASE \E u \in Uid : ApplyChanged(u)
    <2>1. PICK u \in Uid : ApplyChanged(u)
      BY <1>5
    <2>2. batch \in Batch /\ pc = "apply"
      BY <2>1, BatchAt DEF ApplyChanged, TypeOK
    <2>3. batch'.gone = batch.gone /\ batch'.copy = batch.copy /\ batch'.listed = batch.listed
          /\ batch'.reconcile = batch.reconcile
      BY <2>1, <2>2 DEF ApplyChanged, Batch
    <2> QED BY <2>2, <2>3 DEF GoneThen, SpareInv
  <1>6. CASE \E u \in Uid, w \in {"local", "server"} : DropByHref(w, u)
    <2>1. PICK u \in Uid, w \in {"local", "server"} : DropByHref(w, u)
      BY <1>6
    <2>2. batch \in Batch /\ pc = "apply"
      BY <2>1, BatchAt DEF DropByHref, TypeOK
    <2>3. batch'.gone \subseteq batch.gone /\ batch'.copy = batch.copy /\ batch'.listed = batch.listed
          /\ batch'.reconcile = batch.reconcile
      BY <2>1, <2>2 DEF DropByHref, Batch
    <2> QED BY <2>2, <2>3 DEF GoneThen, SpareInv
  <1>7. CASE ListMissing
    <2>1. batch \in Batch /\ pc = "apply" /\ batch.reconcile = "due"
      BY <1>7, BatchAt DEF ListMissing, TypeOK
    <2>2. batch'.copy = batch.copy /\ batch'.reconcile = "done"
          /\ (\A u \in Uid : <<"server", u>> \in batch'.gone => u \notin batch.listed)
      BY <1>7, <2>1 DEF ListMissing, Batch
    <2> QED BY <2>1, <2>2 DEF GoneThen, SpareInv
  <1>8. CASE \/ EndPull \/ PruneEvents \/ PruneCalendar \/ PullFailed \/ Restart \/ BeginCycle \/ ListPending \/ EndWrites
    BY <1>1, <1>8 DEF EndPull, PruneEvents, PruneCalendar, PullFailed, Restart, BeginCycle, ListPending, EndWrites
  <1>9. CASE \/ UNCHANGED vars \/ UserRead \/ UserEdit \/ UserDelete
             \/ \E id \in Ids : UserOpen(id, "edit") \/ UserOpen(id, "delete")
             \/ \E u \in Uid : OtherWrite(u) \/ OtherDelete(u) \/ UserCreate(u)
             \/ Reget \/ RecordAnswer
             \/ \E id \in Ids : SkipWrite(id) \/ RequestLost(id) \/ ApplyUpdatePlaceholder(id)
                                  \/ ApplyCreate(id) \/ ApplyUpdate(id) \/ ApplyDelete(id)
                                  \/ DropPlaceholder(id)
    BY <1>2, <1>9 DEF vars, UserRead, UserEdit, UserDelete, UserOpen, OtherWrite, OtherDelete, UserCreate,
       Reget, RecordAnswer, SkipWrite, RequestLost, ApplyUpdatePlaceholder, ApplyCreate, ApplyUpdate,
       ApplyDelete, DropPlaceholder, TakeRow, threadVars
  <1> QED BY <1>3, <1>5, <1>6, <1>7, <1>8, <1>9 DEF Next, Thread, Environment

\* What writes rows while an answer is applied, besides jacal.
LEMMA ApplyWrites ==
  ASSUME TypeOK, [Next]_vars, pc = "apply", NotTheUser
  PROVE  \/ rows' = rows
         \/ \E u \in Uid : ApplyChanged(u)
         \/ \E u \in Uid, w \in {"local", "server"} : DropByHref(w, u)
  <1>1. job = NoJob
    BY DEF TypeOK
  <1>2. CASE UserEdit \/ UserDelete \/ \E u \in Uid : UserCreate(u)
    BY <1>2 DEF NotTheUser, UserEdit, UserDelete, UserCreate
  <1> QED BY <1>1, <1>2 DEF Next, Thread, Environment, vars, tableVars, TakeRow, UserRead, UserOpen,
        OtherWrite, OtherDelete, Restart, BeginCycle, ListPending, EndWrites, SkipWrite, RequestLost,
        ApplyCreate, ApplyUpdate, ApplyUpdatePlaceholder, DropPlaceholder, ApplyDelete, Reget,
        RecordAnswer, PullFailed, PruneEvents, PruneCalendar, Pull, ListMissing, EndPull

LEMMA KeepsDeletes ==
  ASSUME TypeOK, IdsBelow, [Next]_vars, NEW id \in Ids,
         pc = "apply", NotTheUser, rows[id].status = "pending_delete"
  PROVE  rows'[id].status \in {"pending_delete", "none"}
  <1>1. ASSUME NEW u \in Uid, ApplyChanged(u) PROVE rows'[id].status = "pending_delete"
    <2>1. ASSUME NEW etag, NEW body, Upsert(u, etag, body) PROVE rows'[id].status = "pending_delete"
      <3>1. CASE \A i \in Ids : ~HasHref(i, "server", u)
        <4> DEFINE new == [where |-> "server", uid |-> u, etag |-> etag, body |-> body,
                           status |-> "synced", seen |-> {}]
        <4>1. InsertRow(new)
          BY <2>1, <3>1 DEF Upsert
        <4> HIDE DEF new
        <4>2. id # nextId => rows'[id] = rows[id]
          BY <4>1, Inserted
        <4>3. Present(id)
          BY RowAt DEF Present, NoRow
        <4>4. id # nextId
          BY <4>1, <4>3, Inserted DEF IdsBelow
        <4> QED BY <4>2, <4>4
      <3>2. CASE ~ \A i \in Ids : ~HasHref(i, "server", u)
        <4>1. PICK i \in Ids :
                 rows' = IF rows[i].status = "pending_delete"
                         THEN [rows EXCEPT ![i].etag = etag, ![i].body = body]
                         ELSE [rows EXCEPT ![i].etag = etag, ![i].body = body,
                                           ![i].status = "synced", ![i].seen = {}]
          BY <2>1, <3>2 DEF Upsert
        <4>2. rows[id] \in Row
          BY RowAt
        <4> QED BY <4>1, <4>2 DEF TypeOK, Row
      <3> QED BY <3>1, <3>2
    <2> QED BY <1>1, <2>1 DEF ApplyChanged, tableVars
  <1>2. ASSUME NEW u \in Uid, NEW w \in {"local", "server"}, DropByHref(w, u)
        PROVE  rows'[id].status \in {"pending_delete", "none"}
    BY <1>2 DEF DropByHref, NoRow
  <1> QED BY <1>1, <1>2, ApplyWrites

LEMMA DropsGone ==
  ASSUME TypeOK, SpareInv, [Next]_vars, NEW id \in Ids,
         pc = "apply", NotTheUser, Present(id), rows[id].where = "server", rows'[id] = NoRow
  PROVE  batch.copy[rows[id].uid].body = 0
  <1>0. rows[id] # NoRow /\ rows[id] \in Row
    BY RowAt DEF Present, NoRow
  <1>1. ASSUME NEW u \in Uid, ApplyChanged(u) PROVE FALSE
    <2>1. ASSUME NEW etag, NEW body, Upsert(u, etag, body) PROVE rows'[id] # NoRow
      <3>1. CASE \A i \in Ids : ~HasHref(i, "server", u)
        <4> DEFINE new == [where |-> "server", uid |-> u, etag |-> etag, body |-> body,
                           status |-> "synced", seen |-> {}]
        <4>1. InsertRow(new)
          BY <2>1, <3>1 DEF Upsert
        <4> HIDE DEF new
        <4>2. id # nextId => rows'[id] = rows[id]
          BY <4>1, Inserted
        <4>3. Present(id)
          OBVIOUS
        <4>4. id # nextId
          BY <4>1, <4>3, Inserted DEF SpareInv, IdsBelow
        <4> QED BY <1>0, <4>2, <4>4
      <3>2. CASE ~ \A i \in Ids : ~HasHref(i, "server", u)
        <4>1. PICK i \in Ids :
                 rows' = IF rows[i].status = "pending_delete"
                         THEN [rows EXCEPT ![i].etag = etag, ![i].body = body]
                         ELSE [rows EXCEPT ![i].etag = etag, ![i].body = body,
                                           ![i].status = "synced", ![i].seen = {}]
          BY <2>1, <3>2 DEF Upsert
        <4>2. rows'[id].uid = rows[id].uid /\ "uid" \in DOMAIN rows'[id]
          BY <1>0, <4>1 DEF TypeOK, Row
        <4> QED BY <4>2 DEF NoRow
      <3> QED BY <3>1, <3>2
    <2> QED BY <1>0, <1>1, <2>1 DEF ApplyChanged, tableVars
  <1>2. ASSUME NEW u \in Uid, NEW w \in {"local", "server"}, DropByHref(w, u)
        PROVE  batch.copy[rows[id].uid].body = 0
    <2>1. HasHref(id, w, u) /\ <<w, u>> \in batch.gone
      BY <1>0, <1>2 DEF DropByHref
    <2> QED BY <2>1 DEF HasHref, SpareInv, GoneThen
  <1> QED BY <1>0, <1>1, <1>2, ApplyWrites

\* Applying an answer never revives a row whose DELETE is still owed, whatever the
\* server answers and whatever jacal writes in between.
THEOREM DeletesAreKept == Spec => PullKeepsDeletes
  <1>1. Init => IdsBelow
    BY SpareInit DEF SpareInv
  <1>2. TypeOK /\ TypeOK' /\ IdsBelow /\ [Next]_vars => IdsBelow'
    BY IdsStep
  <1>3. TypeOK /\ IdsBelow /\ [Next]_vars =>
          [\A id \in Ids :
             pc = "apply" /\ NotTheUser /\ rows[id].status = "pending_delete"
               => rows'[id].status \in {"pending_delete", "none"}]_vars
    BY KeepsDeletes
  <1> QED BY <1>1, <1>2, <1>3, TypeCorrect, PTL DEF Spec, PullKeepsDeletes

\* Unless the server truncates its answers: applying one never revives a row whose
\* DELETE is still owed, and drops a row only of an event the server no longer had
\* when it answered, whatever jacal and other clients write in between.
THEOREM PullIsSparing ==
  ASSUME ~Paging
  PROVE  Spec => PullSpares
  <1>1. TypeOK /\ TypeOK' /\ SpareInv /\ [Next]_vars => SpareInv'
    BY StampedStep, IdsStep, GoneStep DEF SpareInv
  <1>2. TypeOK /\ SpareInv /\ [Next]_vars =>
          [\A id \in Ids :
             /\ pc = "apply" /\ NotTheUser
             /\ Present(id) /\ rows[id].where = "server" /\ rows'[id] = NoRow
             => batch.copy[rows[id].uid].body = 0]_vars
    BY DropsGone
  <1>3. Spec => DropsOnlyGone
    BY <1>1, <1>2, SpareInit, TypeCorrect, PTL DEF Spec, DropsOnlyGone
  <1> QED BY <1>3, DeletesAreKept DEF PullSpares

----------------------------------------------------------------------------
(* Why nothing the token covers is missing.  A row of the server's goes only *)
(* when the event is gone, or changed after what the token will cover; or   *)
(* when jacal takes it back as never sent, and then it was the only one.    *)

ServerRow(u) == \E id \in Ids : HasHref(id, "server", u)
RowOf(id, u) == Present(id) /\ rows[id].uid = u

\* The event has its row, or the code has given it up, or the user has deleted it
\* and it has none at all.
Cached(u) == ServerRow(u) \/ u \in lost \/ (u \in deleted /\ \A id \in Ids : ~RowOf(id, u))

Covered(u, t) == Live(u) /\ srv[u].at <= t

\* Ids are handed out once.
IdsOnce ==
    /\ \A id \in Ids : Present(id) => id < nextId
    /\ form # NoForm => form.id < nextId
    /\ job # NoJob => job.id < nextId

\* A row jacal made, and may take back at once, is the only one of its event that
\* is not the server's.
MayTakeBack(id) ==
    \/ rows[id].where = "local"
    \/ rows[id].status = "pending_create"
    \/ form # NoForm /\ form.id = id /\ form.read = "pending_create"
OwnRows ==
    /\ \A id \in Ids : Present(id) => rows[id].uid \in created \/ srv[rows[id].uid].at # 0
    /\ \A i, j \in Ids :
          /\ Present(i) /\ MayTakeBack(i)
          /\ i # j /\ RowOf(j, rows[i].uid)
          => rows[j].where = "server"

\* Changes are numbered, and tokens with them.
Numbered ==
    /\ token <= ver /\ ver <= clock
    /\ \A u \in Uid : srv[u].at <= ver /\ (Live(u) => srv[u].at # 0)

\* The answer to a write is about the row it was sent for.
JobAbout ==
    job # NoJob =>
        /\ Present(job.id) => rows[job.id].uid = job.uid
                              /\ (job.where = "local" => rows[job.id].where = "local")
        /\ job.act = "remove" => ~Covered(job.uid, token)

\* What the answer being applied takes for gone is gone, or has been written since.
GoneTrue ==
    pc = "apply" =>
        /\ token <= batch.token /\ batch.token <= batch.upTo /\ batch.upTo <= ver
        /\ \A u \in Uid : <<"server", u>> \in batch.gone => ~Covered(u, batch.upTo)
        /\ batch.reconcile = "due" => \A u \in Uid : Covered(u, batch.upTo) => u \in batch.listed
        /\ \A u \in batch.changed : srv[u].at # 0

KeptSoFar ==
    /\ \A u \in Uid : Covered(u, token) => Cached(u)
    /\ pc = "apply" =>
         \A u \in Uid : Covered(u, batch.token) => Cached(u) \/ u \in batch.changed

KeptInv == IdsOnce /\ OwnRows /\ Numbered /\ JobAbout /\ GoneTrue /\ KeptSoFar

LEMMA KeptInit == Init => KeptInv
  BY DEF Init, KeptInv, IdsOnce, OwnRows, Numbered, JobAbout, GoneTrue, KeptSoFar, Covered, Live,
     Present, NoRow, NoForm, NoJob

\* What a step may do to the rows: take some away, and leave the others' event and
\* place alone, except that a row of jacal's becomes one of the server's.
RowsThin ==
    /\ UNCHANGED <<srv, ver, nextId, created>> /\ clock <= clock' /\ token' \in {0, token}
    /\ form' = form \/ form' = NoForm
    /\ \A id \in Ids : Present(id)' =>
          /\ Present(id) /\ rows'[id].uid = rows[id].uid
          /\ rows[id].where = "server" => rows'[id].where = "server"
          /\ MayTakeBack(id)' => MayTakeBack(id)
    /\ \/ job' = NoJob
       \/ job' = job /\ \A id \in Ids : Present(id)' => rows'[id].where = rows[id].where

LEMMA ThinStep ==
  ASSUME TypeOK, TypeOK', KeptInv, RowsThin
  PROVE  IdsOnce' /\ OwnRows' /\ Numbered' /\ JobAbout'
  <1> USE DEF KeptInv, RowsThin
  <1>1. IdsOnce'
    BY DEF IdsOnce
  <1>2. ASSUME NEW i \in Ids, NEW j \in Ids, Present(i)', MayTakeBack(i)', i # j,
               RowOf(j, rows[i].uid)'
        PROVE  rows'[j].where = "server"
    <2>1. Present(i) /\ MayTakeBack(i) /\ rows'[i].uid = rows[i].uid
      BY <1>2
    <2>2. Present(j) /\ rows'[j].uid = rows[j].uid /\ rows'[j].uid = rows[i].uid
      BY <1>2, <2>1 DEF RowOf
    <2>3. rows[j].where = "server"
      BY <1>2, <2>1, <2>2 DEF OwnRows, RowOf
    <2> QED BY <1>2, <2>3 DEF RowOf
  <1>3. OwnRows'
    BY <1>2 DEF OwnRows
  <1>4. Numbered'
    BY DEF Numbered, TypeOK, Live
  <1>5. \A u \in Uid : ~Covered(u, token) => ~Covered(u, token)'
    BY DEF Covered, Numbered, TypeOK, Copy, Live
  <1>6. job # NoJob => job \in Job
    BY JobAt
  <1>7. JobAbout'
    BY <1>5, <1>6 DEF JobAbout, Job
  <1> QED BY <1>1, <1>3, <1>4, <1>7

\* A step that leaves the rows and the server alone.
LEMMA SameKept ==
  ASSUME TypeOK, TypeOK', KeptInv, UNCHANGED <<srv, ver, clock, nextId, token, created, deleted, lost, rows>>,
         form' = form \/ form' = NoForm \/ (form' \in Form /\ form'.id < nextId
            /\ (form'.read = "pending_create" /\ Present(form'.id) => MayTakeBack(form'.id))),
         job' = NoJob \/ (job'.id < nextId /\ JobAbout'),
         pc' # "apply" \/ UNCHANGED <<pc, batch>>
  PROVE  KeptInv'
  <1> USE DEF KeptInv
  <1>1. IdsOnce'
    BY DEF IdsOnce, Present
  <1>2. \A id \in Ids : Present(id) /\ MayTakeBack(id)' => MayTakeBack(id)
    BY DEF MayTakeBack, Present, NoForm
  <1>3. OwnRows'
    BY <1>2 DEF OwnRows, RowOf, Present
  <1>4. Numbered' /\ JobAbout'
    BY DEF Numbered, JobAbout, Live
  <1>5. GoneTrue' /\ KeptSoFar'
    BY DEF GoneTrue, KeptSoFar, Covered, Live, Cached, ServerRow, HasHref, RowOf, Present
  <1> QED BY <1>1, <1>3, <1>4, <1>5

\* A change of the server is past what any token covers.
LEMMA ServerKept ==
  ASSUME TypeOK, TypeOK', KeptInv, NEW v \in Uid, NEW body \in Nat, ChangeServer(v, body),
         UNCHANGED <<rows, nextId, token, created, form, pc, batch>>,
         \A u \in Uid : u # v => (u \in deleted' <=> u \in deleted), lost' = lost,
         job' = job \/ (job'.id < nextId /\ JobAbout')
  PROVE  KeptInv'
  <1> USE DEF KeptInv
  <1>1. /\ srv' = [srv EXCEPT ![v] = [at |-> clock + 1, body |-> body]]
        /\ ver' = clock + 1 /\ clock' = clock + 1
    BY DEF ChangeServer
  <1>2. clock \in Nat /\ ver \in Nat /\ token \in Nat
    BY DEF TypeOK
  <1>3. srv'[v] = [at |-> clock + 1, body |-> body] /\ \A u \in Uid : u # v => srv'[u] = srv[u]
    BY <1>1 DEF TypeOK
  <1>4. \A u \in Uid : srv[u].at \in Nat /\ srv[u].at <= ver
    BY DEF Numbered, TypeOK, Copy
  <1>5. Numbered'
    BY <1>1, <1>2, <1>3, <1>4 DEF Numbered, Live
  <1>6. IdsOnce'
    BY DEF IdsOnce, Present
  <1>14. \A id \in Ids : Present(id) => rows[id].uid \in Uid
    BY RowAt DEF Present, Row
  <1>15. \A u \in Uid : srv[u].at # 0 => srv'[u].at # 0
    BY <1>2, <1>3
  <1>16. \A id \in Ids : (Present(id)' <=> Present(id)) /\ (MayTakeBack(id)' <=> MayTakeBack(id))
    BY DEF Present, MayTakeBack
  <1>7. OwnRows'
    BY <1>14, <1>15, <1>16 DEF OwnRows, RowOf
  <1>8. ASSUME NEW u \in Uid, NEW t \in Nat, t <= ver, Covered(u, t)'
        PROVE  u # v /\ Covered(u, t)
    <2>1. u # v
      BY <1>1, <1>2, <1>3, <1>8 DEF Covered, Numbered
    <2> QED BY <1>3, <1>8, <2>1 DEF Covered, Live
  <1>9. JobAbout'
    BY <1>2, <1>8, JobAt DEF JobAbout, Present, Numbered, Job
  <1>10. \A u \in Uid : u # v => (Cached(u)' <=> Cached(u))
    BY DEF Cached, ServerRow, HasHref, RowOf, Present
  <1>11. pc = "apply" => batch \in Batch
    BY BatchAt DEF TypeOK
  <1>12. GoneTrue'
    BY <1>1, <1>2, <1>8, <1>11, <1>15 DEF GoneTrue, Batch, Numbered
  <1>13. KeptSoFar'
    BY <1>2, <1>8, <1>10, <1>11 DEF KeptSoFar, GoneTrue, Batch, Numbered
  <1> QED BY <1>5, <1>6, <1>7, <1>9, <1>12, <1>13

----------------------------------------------------------------------------
(* jacal and the others. *)

LEMMA CreateKept == ASSUME TypeOK, TypeOK', KeptInv, NEW v \in Uid, UserCreate(v) PROVE KeptInv'
  <1> USE DEF KeptInv
  <1> DEFINE new == [where |-> "local", uid |-> v, etag |-> 0, body |-> clock + 1,
                     status |-> "pending_create", seen |-> {}]
  <1>1. new.where = "local" /\ new.uid = v /\ new.status = "pending_create"
    OBVIOUS
  <1> HIDE DEF new
  <1>2. InsertRow(new)
    BY DEF UserCreate, new
  <1>3. /\ nextId \in Ids /\ nextId' = nextId + 1 /\ nextId \in Nat
        /\ rows'[nextId] = new /\ \A id \in Ids \ {nextId} : rows'[id] = rows[id]
    BY <1>2 DEF InsertRow, Ids, TypeOK
  <1>4. /\ UNCHANGED <<srv, ver, token, form, pc, batch, job, deleted, lost>> /\ clock' = clock + 1
        /\ created' = created \cup {v} /\ v \notin created /\ srv[v].at = 0 /\ form = NoForm
        /\ clock \in Nat /\ ver \in Nat
    BY DEF UserCreate, serverVars, jacalVars, threadVars, ghostVars, TypeOK
  <1>5. ~Present(nextId) /\ \A id \in Ids : ~RowOf(id, v)
    <2>1. ~Present(nextId)
      BY <1>3 DEF IdsOnce
    <2>2. \A id \in Ids : ~RowOf(id, v)
      BY <1>4 DEF OwnRows, RowOf
    <2> QED BY <2>1, <2>2
  <1>6. \A id \in Ids : Present(id)' <=> id = nextId \/ Present(id)
    BY <1>1, <1>3, <1>5 DEF Present
  <1>7. IdsOnce'
    <2>1. job # NoJob => job.id \in Nat
      BY JobAt DEF Job, Ids
    <2>2. Ids \subseteq Nat
      BY DEF Ids
    <2> QED BY <1>3, <1>4, <1>6, <2>1, <2>2 DEF IdsOnce
  <1>8. ASSUME NEW i \in Ids, NEW j \in Ids, Present(i)', MayTakeBack(i)', i # j,
               RowOf(j, rows[i].uid)'
        PROVE  rows'[j].where = "server"
    <2>1. i # nextId /\ j # nextId
      BY <1>1, <1>3, <1>5, <1>6, <1>8 DEF RowOf
    <2>2. Present(i) /\ MayTakeBack(i) /\ RowOf(j, rows[i].uid)
      BY <1>3, <1>4, <1>6, <1>8, <2>1 DEF MayTakeBack, RowOf
    <2> QED BY <1>3, <1>8, <2>1, <2>2 DEF OwnRows
  <1>9. OwnRows'
    BY <1>1, <1>3, <1>4, <1>6, <1>8 DEF OwnRows
  <1>10. Numbered' /\ GoneTrue'
    BY <1>4 DEF Numbered, GoneTrue, Covered, Live
  <1>11. JobAbout'
    <2>1. job # NoJob => job.id # nextId
      BY <1>3, JobAt DEF IdsOnce, Job, Ids
    <2>2. job # NoJob => job.id \in Ids
      BY JobAt DEF Job
    <2> QED BY <1>3, <1>4, <1>6, <2>1, <2>2 DEF JobAbout, Covered, Live
  <1>12. ASSUME NEW u \in Uid, Cached(u), Live(u) PROVE Cached(u)'
    <2>1. ~Live(v)
      BY <1>4 DEF Numbered
    <2>2. u # v
      BY <1>12, <2>1
    <2>3. ServerRow(u) => ServerRow(u)'
      BY <1>3, <1>5, <1>6 DEF ServerRow, HasHref
    <2>4. \A id \in Ids : RowOf(id, u)' => RowOf(id, u)
      BY <1>1, <1>3, <1>6, <2>2 DEF RowOf
    <2> QED BY <1>4, <1>12, <2>3, <2>4 DEF Cached
  <1>13. KeptSoFar'
    BY <1>4, <1>12 DEF KeptSoFar, Covered, Live
  <1> QED BY <1>7, <1>9, <1>10, <1>11, <1>13

LEMMA OpenKept ==
  ASSUME TypeOK, TypeOK', KeptInv,
         (\E id \in Ids : UserOpen(id, "edit") \/ UserOpen(id, "delete")) \/ UserRead
  PROVE  KeptInv'
  <1> USE DEF KeptInv
  <1>1. UNCHANGED <<srv, ver, clock, nextId, token, created, deleted, lost, rows, pc, batch, job>>
    BY DEF UserOpen, UserRead, serverVars, tableVars, threadVars, ghostVars
  <1>2. job # NoJob => job.id < nextId /\ JobAbout'
    BY <1>1 DEF IdsOnce, JobAbout, Present, Covered, Live
  <1>3. CASE \E id \in Ids : UserOpen(id, "edit") \/ UserOpen(id, "delete")
    <2>1. form' # NoForm /\ form'.id < nextId /\ form'.read = "unread"
      BY <1>3 DEF UserOpen, Visible, IdsOnce, NoForm
    <2> QED BY <1>1, <1>2, <2>1, SameKept DEF TypeOK
  <1>4. CASE UserRead
    <2>1. CASE Present(form.id)
      <3>1. form \in Form /\ form # NoForm
        BY <1>4 DEF UserRead, TypeOK
      <3>2. form'.id = form.id /\ form'.read = rows[form.id].status /\ form' # NoForm
        BY <1>4, <2>1, <3>1 DEF UserRead, Form, NoForm
      <3> QED BY <1>1, <1>2, <3>1, <3>2, SameKept DEF TypeOK, IdsOnce, MayTakeBack
    <2>2. CASE ~Present(form.id)
      BY <1>1, <1>2, <1>4, <2>2, SameKept DEF UserRead
    <2> QED BY <2>1, <2>2
  <1> QED BY <1>3, <1>4

LEMMA EditKept == ASSUME TypeOK, TypeOK', KeptInv, UserEdit PROVE KeptInv'
  <1> USE DEF KeptInv
  <1>1. /\ UNCHANGED <<srv, ver, nextId, token, created, pc, batch, job>> /\ clock' = clock + 1
        /\ form' = NoForm /\ form.id \in Ids /\ clock \in Nat /\ ver \in Nat
    BY DEF UserEdit, serverVars, threadVars, TypeOK, Form
  <1>2. ASSUME Present(form.id)
        PROVE  /\ rows'[form.id].where = rows[form.id].where /\ rows'[form.id].uid = rows[form.id].uid
               /\ rows'[form.id].status = IF form.read = "pending_create" THEN "pending_create"
                                                                       ELSE "pending_update"
               /\ \A id \in Ids \ {form.id} : rows'[id] = rows[id]
    BY <1>1, <1>2, RowAt DEF UserEdit, TypeOK, Row, Present
  <1>3. (~Present(form.id) => rows' = rows /\ deleted' = deleted) /\ lost' = lost
    BY DEF UserEdit
  <1>4. \A id \in Ids : /\ Present(id)' <=> Present(id)
                        /\ rows'[id].uid = rows[id].uid /\ rows'[id].where = rows[id].where
    BY <1>1, <1>2, <1>3 DEF Present
  <1>5. form # NoForm
    BY DEF UserEdit
  <1>6. \A id \in Ids : Present(id) /\ MayTakeBack(id)' => MayTakeBack(id)
    BY <1>1, <1>2, <1>3, <1>4, <1>5 DEF MayTakeBack
  <1>7. RowsThin
    BY <1>1, <1>4, <1>6 DEF RowsThin
  <1>8. ASSUME NEW u \in Uid, Cached(u) PROVE Cached(u)'
    <2>1. ServerRow(u)' <=> ServerRow(u)
      BY <1>4 DEF ServerRow, HasHref
    <2>2. \A id \in Ids : RowOf(id, u)' <=> RowOf(id, u)
      BY <1>4 DEF RowOf
    <2>3. ~ServerRow(u) /\ u \notin lost => u \in deleted /\ ~RowOf(form.id, u)
      BY <1>1, <1>8 DEF Cached
    <2>4. u \in deleted /\ ~RowOf(form.id, u) => u \in deleted'
      BY DEF UserEdit, RowOf
    <2> QED BY <1>3, <1>8, <2>1, <2>2, <2>3, <2>4 DEF Cached
  <1>9. GoneTrue' /\ KeptSoFar'
    BY <1>1, <1>8 DEF GoneTrue, KeptSoFar, Covered, Live
  <1> QED BY <1>7, <1>9, ThinStep

LEMMA DeleteKept == ASSUME TypeOK, TypeOK', KeptInv, UserDelete PROVE KeptInv'
  <1> USE DEF KeptInv
  <1>1. /\ UNCHANGED <<srv, ver, nextId, token, created, pc, batch, job, clock>>
        /\ form' = NoForm /\ form.id \in Ids /\ clock \in Nat /\ form # NoForm
    BY DEF UserDelete, serverVars, threadVars, TypeOK, Form
  <1>0. PICK i \in Ids : i = form.id
    BY <1>1
  <1>2. \A id \in Ids \ {i} : rows'[id] = rows[id]
    BY <1>0, <1>1 DEF UserDelete, TypeOK
  <1>3. CASE ~Present(i)
    <2>1. rows' = rows /\ deleted' = deleted /\ lost' = lost
      BY <1>0, <1>3 DEF UserDelete
    <2> QED BY <1>0, <1>1, <2>1, SameKept DEF IdsOnce, JobAbout, Present, Covered, Live
  <1>4. CASE Present(i) /\ form.read # "pending_create"
    <2>1. /\ rows'[i].where = rows[i].where /\ rows'[i].uid = rows[i].uid
          /\ rows'[i].status = "pending_delete"
      BY <1>0, <1>1, <1>4, RowAt DEF UserDelete, TypeOK, Row, Present
    <2>2. \A id \in Ids : /\ Present(id)' <=> Present(id)
                          /\ rows'[id].uid = rows[id].uid /\ rows'[id].where = rows[id].where
      BY <1>0, <1>1, <1>2, <1>4, <2>1 DEF Present
    <2>3. \A id \in Ids : Present(id) /\ MayTakeBack(id)' => MayTakeBack(id)
      BY <1>0, <1>1, <1>2, <2>1 DEF MayTakeBack
    <2>4. RowsThin
      BY <1>0, <1>1, <2>2, <2>3 DEF RowsThin
    <2>5. deleted \subseteq deleted' /\ lost' = lost
      BY <1>0 DEF UserDelete
    <2>6. \A u \in Uid : Cached(u) => Cached(u)'
      BY <2>2, <2>5 DEF Cached, ServerRow, HasHref, RowOf
    <2>7. GoneTrue' /\ KeptSoFar'
      BY <1>0, <1>1, <2>6 DEF GoneTrue, KeptSoFar, Covered, Live
    <2> QED BY <2>4, <2>7, ThinStep
  <1>5. CASE Present(i) /\ form.read = "pending_create"
    <2>1. rows'[i] = NoRow /\ deleted' = deleted \cup {rows[i].uid} /\ lost' = lost
      BY <1>0, <1>1, <1>5 DEF UserDelete, TypeOK
    <2>2. ~Present(i)' /\ \A id \in Ids : Present(id)' => id # i /\ Present(id) /\ rows'[id] = rows[id]
      BY <1>0, <1>1, <1>2, <2>1 DEF Present, NoRow
    <2>3. \A id \in Ids : Present(id)' /\ MayTakeBack(id)' => MayTakeBack(id)
      BY <1>0, <1>1, <2>2 DEF MayTakeBack
    <2>4. RowsThin
      BY <1>0, <1>1, <2>2, <2>3 DEF RowsThin
    <2>5. MayTakeBack(i)
      BY <1>0, <1>1, <1>5 DEF MayTakeBack
    <2>6. ASSUME NEW u \in Uid, Cached(u) PROVE Cached(u)'
      <3>1. CASE u = rows[i].uid
        <4>1. \A id \in Ids : RowOf(id, u)' => HasHref(id, "server", u)'
          BY <1>0, <1>1, <1>5, <2>2, <2>5, <3>1 DEF OwnRows, RowOf, HasHref, Present
        <4> QED BY <2>1, <3>1, <4>1 DEF Cached, ServerRow
      <3>2. CASE u # rows[i].uid
        <4>1. \A id \in Ids : (RowOf(id, u)' <=> RowOf(id, u))
                              /\ (HasHref(id, "server", u) => HasHref(id, "server", u)')
          BY <1>0, <1>1, <1>2, <2>2, <3>2 DEF RowOf, HasHref, Present
        <4> QED BY <2>1, <2>6, <4>1 DEF Cached, ServerRow
      <3> QED BY <3>1, <3>2
    <2>7. GoneTrue' /\ KeptSoFar'
      BY <1>0, <1>1, <2>6 DEF GoneTrue, KeptSoFar, Covered, Live
    <2> QED BY <2>4, <2>7, ThinStep
  <1> QED BY <1>0, <1>3, <1>4, <1>5

LEMMA OthersKeep ==
  ASSUME TypeOK, TypeOK', KeptInv, NEW v \in Uid, OtherWrite(v) \/ OtherDelete(v)
  PROVE  KeptInv'
  <1>1. PICK body \in Nat : ChangeServer(v, body)
    BY DEF OtherWrite, OtherDelete, TypeOK
  <1>2. UNCHANGED <<rows, nextId, token, created, form, pc, batch, job>>
    BY DEF OtherWrite, OtherDelete, tableVars, threadVars, jacalVars
  <1>3. lost' = lost /\ \A u \in Uid : u # v => (u \in deleted' <=> u \in deleted)
    BY DEF OtherWrite, OtherDelete, ghostVars
  <1> QED BY <1>1, <1>2, <1>3, ServerKept

----------------------------------------------------------------------------
(* The write pass. *)

LEMMA WritePassKept ==
  ASSUME TypeOK, TypeOK', KeptInv,
         \/ BeginCycle \/ ListPending \/ EndWrites \/ PullFailed \/ Restart \/ Reget
         \/ \E id \in Ids : SkipWrite(id) \/ RequestLost(id) \/ ApplyUpdatePlaceholder(id)
  PROVE  KeptInv'
  <1> USE DEF KeptInv, tableVars, serverVars, ghostVars, jacalVars
  <1>1. UNCHANGED <<srv, ver, clock, nextId, token, created, deleted, lost, rows, form>>
    BY DEF BeginCycle, ListPending, EndWrites, PullFailed, Restart, Reget, SkipWrite, RequestLost,
           ApplyUpdatePlaceholder, TakeRow
  <1>2. pc' # "apply" \/ UNCHANGED <<pc, batch>>
    BY DEF BeginCycle, ListPending, EndWrites, PullFailed, Restart, Reget, SkipWrite, RequestLost,
           ApplyUpdatePlaceholder, TakeRow
  <1>3. CASE \/ BeginCycle \/ ListPending \/ EndWrites \/ PullFailed \/ Restart
             \/ \E id \in Ids : SkipWrite(id) \/ RequestLost(id)
    <2>1. job' = NoJob
      BY <1>3 DEF BeginCycle, ListPending, EndWrites, PullFailed, Restart, SkipWrite, RequestLost,
             TakeRow, TypeOK
    <2> QED BY <1>1, <1>2, <2>1, SameKept
  <1>4. CASE Reget
    <2>1. job \in Job
      BY <1>4, JobAt DEF Reget
    <2>2. \/ job' = NoJob
          \/ /\ job'.id = job.id /\ job'.uid = job.uid /\ job'.where = job.where
             /\ job'.act = "synced" /\ job # NoJob
      BY <1>4, <2>1 DEF Reget, Job
    <2>3. job' = NoJob \/ (job'.id < nextId /\ JobAbout')
      BY <1>1, <2>2 DEF IdsOnce, JobAbout, Present
    <2> QED BY <1>1, <1>2, <2>3, SameKept
  <1>5. ASSUME NEW id \in Ids, ApplyUpdatePlaceholder(id) PROVE KeptInv'
    <2>1. Present(id) /\ rows[id].where = "local"
      BY <1>5 DEF ApplyUpdatePlaceholder, Present
    <2>2. job'.id = id /\ job'.uid = rows[id].uid /\ job'.act # "remove"
      BY <1>5 DEF ApplyUpdatePlaceholder
    <2>3. job'.id < nextId /\ JobAbout'
      BY <1>1, <2>1, <2>2 DEF IdsOnce, JobAbout, Present
    <2> QED BY <1>1, <1>2, <2>3, SameKept
  <1> QED BY <1>3, <1>4, <1>5

LEMMA RequestKept ==
  ASSUME TypeOK, TypeOK', KeptInv, NEW id \in Ids,
         ApplyCreate(id) \/ ApplyUpdate(id) \/ ApplyDelete(id)
  PROVE  KeptInv'
  <1> USE DEF KeptInv, tableVars, serverVars, ghostVars, jacalVars
  <1>1. rows[id] \in Row /\ rows[id].uid \in Uid /\ rows[id].body \in Nat /\ Present(id)
    BY RowAt DEF ApplyCreate, ApplyUpdate, ApplyDelete, Row, Present
  <1>2. /\ UNCHANGED <<rows, nextId, token, created, form, batch, pc, deleted, lost>>
        /\ pc \in {"queued", "pending"} /\ clock \in Nat /\ token \in Nat /\ job = NoJob
        /\ id < nextId
    BY <1>1 DEF ApplyCreate, ApplyUpdate, ApplyDelete, TakeRow, TypeOK, IdsOnce
  <1> DEFINE About(j) == j.id = id /\ j.uid = rows[id].uid /\ j.where = "server"
  <1>3. ASSUME About(job'), job'.act = "remove" => ~Covered(rows[id].uid, token)'
        PROVE  job'.id < nextId /\ JobAbout'
    BY <1>2, <1>3 DEF JobAbout, Present
  <1>4. ASSUME NEW body \in Nat, ChangeServer(rows[id].uid, body), job' = job \/ About(job'),
               job' = job \/ job'.act # "remove" \/ body = 0
        PROVE  KeptInv'
    <2>1. srv'[rows[id].uid].body = body
      BY <1>1, <1>4 DEF ChangeServer, TypeOK
    <2>2. job' = job \/ (job'.id < nextId /\ JobAbout')
      BY <1>2, <1>3, <1>4, <2>1 DEF Covered, Live
    <2> QED BY <1>1, <1>2, <1>4, <2>2, ServerKept
  <1>5. ASSUME UNCHANGED <<srv, ver, clock>>, About(job'),
               job'.act = "remove" => ~Live(rows[id].uid)
        PROVE  KeptInv'
    <2>1. job'.id < nextId /\ JobAbout'
      BY <1>2, <1>3, <1>5 DEF Covered, Live
    <2> QED BY <1>2, <1>5, <2>1, SameKept
  <1>6. ASSUME NEW ifMatch, NEW create, SendPut(id, ifMatch, create)
        PROVE  KeptInv'
    <2>1. CASE PutAccepted(rows[id].uid, ifMatch, create)
      <3>1. ChangeServer(rows[id].uid, rows[id].body)
        BY <1>6, <2>1 DEF SendPut
      <3>2. job' = job \/ (About(job') /\ job'.act # "remove")
        BY <1>6, <2>1 DEF SendPut
      <3> QED BY <1>1, <1>4, <3>1, <3>2
    <2>2. CASE ~PutAccepted(rows[id].uid, ifMatch, create)
      BY <1>5, <1>6, <2>2 DEF SendPut
    <2> QED BY <2>1, <2>2
  <1>7. CASE ApplyCreate(id) \/ ApplyUpdate(id)
    BY <1>6, <1>7 DEF ApplyCreate, ApplyUpdate
  <1>8. CASE ApplyDelete(id)
    <2>1. CASE Live(rows[id].uid) /\ DeleteAccepted(rows[id].uid, rows[id].etag)
      <3>1. ChangeServer(rows[id].uid, 0)
        BY <1>8, <2>1 DEF ApplyDelete
      <3>2. job' = job \/ About(job')
        BY <1>8, <2>1 DEF ApplyDelete
      <3> QED BY <1>4, <3>1, <3>2
    <2>2. CASE ~(Live(rows[id].uid) /\ DeleteAccepted(rows[id].uid, rows[id].etag))
      <3>1. /\ UNCHANGED <<srv, ver, clock>> /\ About(job')
            /\ job'.act = "remove" => ~Live(rows[id].uid)
        BY <1>8, <2>2 DEF ApplyDelete
      <3> QED BY <1>5, <3>1
    <2> QED BY <2>1, <2>2
  <1> QED BY <1>7, <1>8

\* A row that is not the server's may go.
LEMMA DropPlaceholderKept ==
  ASSUME TypeOK, TypeOK', KeptInv, NEW i \in Ids, DropPlaceholder(i)
  PROVE  KeptInv'
  <1> USE DEF KeptInv
  <1>1. /\ UNCHANGED <<srv, ver, clock, nextId, token, created, form, batch, pc, job, deleted, lost>>
        /\ job = NoJob /\ clock \in Nat /\ rows[i].where = "local"
    BY DEF DropPlaceholder, TakeRow, TypeOK, serverVars, jacalVars, ghostVars
  <1>2. rows'[i] = NoRow /\ \A id \in Ids \ {i} : rows'[id] = rows[id]
    BY DEF DropPlaceholder, TypeOK
  <1>3. \A id \in Ids : Present(id)' => id # i /\ Present(id) /\ rows'[id] = rows[id]
    BY <1>2 DEF Present, NoRow
  <1>4. RowsThin
    BY <1>1, <1>3 DEF RowsThin, MayTakeBack
  <1>5. ASSUME NEW u \in Uid, Cached(u) PROVE Cached(u)'
    <2>1. \A id \in Ids : HasHref(id, "server", u) => HasHref(id, "server", u)'
      BY <1>1, <1>2 DEF HasHref, Present
    <2>2. \A id \in Ids : RowOf(id, u)' => RowOf(id, u)
      BY <1>3 DEF RowOf
    <2> QED BY <1>1, <1>5, <2>1, <2>2 DEF Cached, ServerRow
  <1>6. GoneTrue' /\ KeptSoFar'
    BY <1>1, <1>5 DEF GoneTrue, KeptSoFar, Covered, Live
  <1> QED BY <1>4, <1>6, ThinStep

LEMMA RecordKept == ASSUME TypeOK, TypeOK', KeptInv, RecordAnswer PROVE KeptInv'
  <1> USE DEF KeptInv
  <1>1. /\ UNCHANGED <<srv, ver, clock, nextId, token, created, form, batch, pc, deleted, lost>>
        /\ job \in Job /\ job # NoJob /\ job' = NoJob /\ clock \in Nat /\ pc # "apply"
    BY JobAt DEF RecordAnswer, TypeOK, serverVars, jacalVars, ghostVars
  <1>0. PICK i \in Ids : i = job.id
    BY <1>1 DEF Job
  <1>2. \A id \in Ids \ {i} : rows'[id] = rows[id]
    BY <1>0, <1>1 DEF RecordAnswer, MarkSynced, TypeOK
  <1>3. CASE rows' = rows
    BY <1>1, <1>3, SameKept
  <1>4. CASE job.act = "remove"
    <2>1. rows'[i] = NoRow
      BY <1>0, <1>4 DEF RecordAnswer, TypeOK
    <2>2. \A id \in Ids : Present(id)' => id # i /\ Present(id) /\ rows'[id] = rows[id]
      BY <1>2, <2>1 DEF Present, NoRow
    <2>3. RowsThin
      BY <1>1, <2>2 DEF RowsThin, MayTakeBack
    <2>4. ASSUME NEW u \in Uid, Covered(u, token)', Cached(u) PROVE Cached(u)'
      <3>1. Covered(u, token) /\ ~RowOf(i, u)
        BY <1>0, <1>1, <1>4, <2>4 DEF JobAbout, Covered, Live, RowOf
      <3>2. \A id \in Ids : /\ HasHref(id, "server", u) => HasHref(id, "server", u)'
                            /\ RowOf(id, u)' => RowOf(id, u)
        BY <1>2, <2>2, <3>1 DEF HasHref, RowOf, Present
      <3> QED BY <1>1, <2>4, <3>2 DEF Cached, ServerRow
    <2>5. GoneTrue' /\ KeptSoFar'
      BY <1>1, <2>4 DEF GoneTrue, KeptSoFar, Covered, Live
    <2> QED BY <2>3, <2>5, ThinStep
  <1>5. CASE job.act # "remove" /\ rows' # rows
    <2>1. Present(i) /\ (\/ rows' = [rows EXCEPT ![i].status = "conflict"]
                         \/ rows' = [rows EXCEPT ![i].where = job.where, ![i].uid = job.uid,
                                                 ![i].etag = job.etag, ![i].status = "synced"])
      BY <1>0, <1>1, <1>5 DEF RecordAnswer, MarkSynced
    <2>2. rows[i] \in Row /\ rows[i].uid = job.uid /\ job.where \in {"local", "server"}
          /\ (job.where = "local" => rows[i].where = "local")
      BY <1>0, <1>1, <2>1, RowAt DEF Present, JobAbout, Job
    <2>3. /\ rows'[i].status \in {"conflict", "synced"} /\ rows'[i].uid = rows[i].uid
          /\ rows'[i].where \in {rows[i].where, "server"}
      BY <2>1, <2>2 DEF TypeOK, Row
    <2>4. \A id \in Ids : (Present(id)' <=> Present(id)) /\ rows'[id].uid = rows[id].uid
             /\ rows'[id].where \in {rows[id].where, "server"}
      BY <1>2, <2>1, <2>3 DEF Present
    <2>5. \A id \in Ids : Present(id) /\ MayTakeBack(id)' => MayTakeBack(id)
      BY <1>1, <1>2, <2>3 DEF MayTakeBack
    <2>6. RowsThin
      BY <1>1, <2>4, <2>5 DEF RowsThin
    <2>7. \A u \in Uid : Cached(u) => Cached(u)'
      BY <1>1, <2>4 DEF Cached, ServerRow, HasHref, RowOf
    <2>8. GoneTrue' /\ KeptSoFar'
      BY <1>1, <2>7 DEF GoneTrue, KeptSoFar, Covered, Live
    <2> QED BY <2>6, <2>8, ThinStep
  <1> QED BY <1>3, <1>4, <1>5

----------------------------------------------------------------------------
(* The read pass. *)

LEMMA PruneEventsKept == ASSUME TypeOK, TypeOK', KeptInv, PruneEvents PROVE KeptInv'
  <1> USE DEF KeptInv
  <1>1. /\ UNCHANGED <<srv, ver, clock, nextId, created, form, job, token>>
        /\ pc' # "apply" /\ job = NoJob /\ clock \in Nat
        /\ \A id \in Ids : ~Present(id)'
        /\ \A u \in Uid : Covered(u, token) => u \in lost'
    BY DEF PruneEvents, TypeOK, serverVars, jacalVars, Present, NoRow, Covered
  <1>2. RowsThin
    BY <1>1 DEF RowsThin
  <1>3. GoneTrue' /\ KeptSoFar'
    BY <1>1 DEF GoneTrue, KeptSoFar, Covered, Live, Cached
  <1> QED BY <1>2, <1>3, ThinStep

LEMMA PruneCalendarKept == ASSUME TypeOK, TypeOK', KeptInv, PruneCalendar PROVE KeptInv'
  <1> USE DEF KeptInv
  <1>1. /\ UNCHANGED <<srv, ver, clock, nextId, created, form, job, rows, deleted>>
        /\ token' = 0 \/ (token' = token /\ lost' = lost)
        /\ pc' # "apply" /\ job = NoJob /\ clock \in Nat
    BY DEF PruneCalendar, TypeOK, serverVars, tableVars, jacalVars
  <1>2. RowsThin
    BY <1>1 DEF RowsThin, Present, MayTakeBack
  <1>3. \A u \in Uid : ~Covered(u, 0)
    BY DEF Covered, Numbered, TypeOK, Copy
  <1>4. KeptSoFar'
    BY <1>1, <1>3 DEF KeptSoFar, Covered, Live, Cached, ServerRow, HasHref, RowOf, Present
  <1>5. GoneTrue'
    BY <1>1 DEF GoneTrue
  <1> QED BY <1>2, <1>4, <1>5, ThinStep

LEMMA PullKept == ASSUME TypeOK, TypeOK', KeptInv, Pull PROVE KeptInv'
  <1> USE DEF KeptInv
  <1>1. /\ UNCHANGED <<srv, ver, clock, nextId, created, form, job, rows, token, deleted, lost>>
        /\ pc' = "apply" /\ token \in Nat /\ ver \in Nat
    BY DEF Pull, TypeOK, serverVars, jacalVars, tableVars, ghostVars
  <1>2. PICK prior \in {0, token}, upTo \in token .. ver \cup {ver}, newToken \in Nat :
            /\ batch' = Answer(prior, upTo, newToken)
            /\ \/ prior = token /\ newToken = upTo
               \/ prior = 0 /\ newToken \in {token, upTo} /\ upTo = ver
    BY PullAnswer
  <1>3. /\ upTo \in Nat /\ token <= upTo /\ upTo <= ver /\ prior \in Nat
        /\ token <= newToken /\ newToken <= upTo
    BY <1>1, <1>2 DEF Numbered
  <1>4. /\ batch'.upTo = upTo /\ batch'.token = newToken
        /\ batch'.changed = {u \in ChangedSince(prior, upTo) : Live(u)}
        /\ batch'.listed = {u \in ChangedSince(prior, upTo) : Live(u)}
        /\ batch'.reconcile = (IF prior = 0 THEN "due" ELSE "done")
        /\ \A u \in Uid : <<"server", u>> \in batch'.gone => ~Live(u)
    BY <1>2 DEF Answer
  <1>5. \A u \in Uid : srv[u].at \in Nat /\ (Live(u) => srv[u].at # 0)
    BY DEF TypeOK, Copy, Numbered
  <1>6. /\ \A u \in Uid : Covered(u, upTo) /\ prior = 0 => u \in batch'.listed
        /\ \A u \in batch'.changed : srv[u].at # 0
    BY <1>3, <1>4, <1>5 DEF Covered, ChangedSince
  <1>7. ASSUME NEW u \in Uid, Covered(u, newToken) PROVE Cached(u) \/ u \in batch'.changed
    <2>1. CASE srv[u].at <= token
      BY <1>7, <2>1 DEF KeptSoFar, Covered
    <2>2. CASE srv[u].at > token
      BY <1>1, <1>2, <1>3, <1>4, <1>5, <1>7, <2>2 DEF Covered, ChangedSince
    <2> QED BY <1>1, <1>5, <2>1, <2>2
  <1>8. \A u \in Uid : Cached(u)' <=> Cached(u)
    BY <1>1 DEF Cached, ServerRow, HasHref, RowOf, Present
  <1>9. GoneTrue'
    BY <1>1, <1>3, <1>4, <1>6 DEF GoneTrue, Covered, Live
  <1>10. KeptSoFar'
    BY <1>1, <1>4, <1>7, <1>8 DEF KeptSoFar, Covered, Live
  <1>11. IdsOnce' /\ OwnRows' /\ Numbered' /\ JobAbout'
    BY <1>1 DEF IdsOnce, OwnRows, Numbered, JobAbout, Present, MayTakeBack, RowOf, Covered, Live
  <1> QED BY <1>9, <1>10, <1>11

\* What is written of one changed event: a row of its own, new or not.
LEMMA UpsertKept ==
  ASSUME TypeOK, TypeOK', KeptInv, NEW u \in Uid, NEW etag \in Nat, NEW body \in Nat,
         Upsert(u, etag, body), srv[u].at # 0,
         UNCHANGED <<srv, ver, clock, token, created, form, job, deleted, pc>>, lost' = lost \ {u}, job = NoJob
  PROVE  /\ IdsOnce' /\ OwnRows' /\ Numbered' /\ JobAbout'
         /\ ServerRow(u)' /\ \A v \in Uid : Cached(v) => Cached(v)'
  <1> USE DEF KeptInv
  <1>0. clock \in Nat /\ nextId \in Nat
    BY DEF TypeOK
  <1>1. CASE \A id \in Ids : ~HasHref(id, "server", u)
    <2> DEFINE new == [where |-> "server", uid |-> u, etag |-> etag, body |-> body,
                       status |-> "synced", seen |-> {}]
    <2>1. new.where = "server" /\ new.uid = u /\ new.status = "synced"
      OBVIOUS
    <2> HIDE DEF new
    <2>2. InsertRow(new)
      BY <1>1 DEF Upsert, new
    <2>3. /\ nextId \in Ids /\ nextId' = nextId + 1
          /\ rows'[nextId] = new /\ \A id \in Ids \ {nextId} : rows'[id] = rows[id]
      BY <1>0, <2>2 DEF InsertRow, Ids, TypeOK
    <2>4. PICK n \in Ids : n = nextId
      BY <2>3
    <2>5. \A id \in Ids : Present(id)' <=> id = n \/ Present(id)
      BY <2>1, <2>3, <2>4 DEF Present
    <2>6. ~Present(n) /\ (form # NoForm => form.id # n)
      BY <2>4, <1>0 DEF IdsOnce
    <2>7. IdsOnce'
      BY <1>0, <2>3, <2>4, <2>5 DEF IdsOnce, Ids, TypeOK, Form
    <2>8. ~MayTakeBack(n)'
      BY <2>1, <2>3, <2>4, <2>6 DEF MayTakeBack
    <2>9. ASSUME NEW i \in Ids, NEW j \in Ids, Present(i)', MayTakeBack(i)', i # j,
                 RowOf(j, rows[i].uid)'
          PROVE  rows'[j].where = "server"
      <3>1. i # n /\ Present(i) /\ MayTakeBack(i) /\ rows'[i] = rows[i]
        BY <2>3, <2>4, <2>5, <2>8, <2>9 DEF MayTakeBack
      <3>2. CASE j = n
        BY <2>1, <2>3, <2>4, <3>2
      <3>3. CASE j # n
        BY <2>3, <2>4, <2>5, <2>9, <3>1, <3>3 DEF OwnRows, RowOf
      <3> QED BY <3>2, <3>3
    <2>10. OwnRows'
      BY <2>1, <2>3, <2>4, <2>5, <2>9 DEF OwnRows
    <2>11. Numbered' /\ JobAbout'
      BY DEF Numbered, JobAbout, Live
    <2>12. ServerRow(u)'
      BY <2>1, <2>3, <2>4, <2>5 DEF ServerRow, HasHref
    <2>13. ASSUME NEW v \in Uid, Cached(v), v # u PROVE Cached(v)'
      <3>1. \A id \in Ids : /\ RowOf(id, v)' => RowOf(id, v)
                            /\ HasHref(id, "server", v) => HasHref(id, "server", v)'
        BY <2>1, <2>3, <2>4, <2>5, <2>6, <2>13 DEF RowOf, HasHref
      <3> QED BY <2>13, <3>1 DEF Cached, ServerRow
    <2> QED BY <2>7, <2>10, <2>11, <2>12, <2>13 DEF Cached
  <1>2. CASE ~ \A id \in Ids : ~HasHref(id, "server", u)
    <2>1. PICK i \in Ids :
             /\ HasHref(i, "server", u) /\ UNCHANGED nextId
             /\ rows' = IF rows[i].status = "pending_delete"
                        THEN [rows EXCEPT ![i].etag = etag, ![i].body = body]
                        ELSE [rows EXCEPT ![i].etag = etag, ![i].body = body,
                                          ![i].status = "synced", ![i].seen = {}]
      BY <1>2 DEF Upsert
    <2>2. rows[i] \in Row
      BY <2>1, RowAt DEF HasHref, Present
    <2>3. /\ rows'[i].where = rows[i].where /\ rows'[i].uid = rows[i].uid
          /\ rows'[i].status \in {"pending_delete", "synced"}
          /\ \A id \in Ids \ {i} : rows'[id] = rows[id]
      BY <2>1, <2>2 DEF TypeOK, Row
    <2>4. \A id \in Ids : (Present(id)' <=> Present(id)) /\ rows'[id].uid = rows[id].uid
             /\ rows'[id].where = rows[id].where
      BY <2>1, <2>3 DEF Present, HasHref
    <2>5. \A id \in Ids : Present(id) /\ MayTakeBack(id)' => MayTakeBack(id)
      BY <2>3 DEF MayTakeBack
    <2>8. /\ srv' = srv /\ ver' = ver /\ nextId' = nextId /\ created' = created /\ clock' = clock
          /\ token' = token /\ form' = form /\ job' = NoJob
      BY <2>1
    <2>6. RowsThin
      BY <1>0, <2>4, <2>5, <2>8 DEF RowsThin
    <2>7. ServerRow(u)' /\ \A v \in Uid : Cached(v) => Cached(v)'
      BY <2>1, <2>4 DEF Cached, ServerRow, HasHref, RowOf
    <2> QED BY <2>6, <2>7, ThinStep
  <1> QED BY <1>1, <1>2

LEMMA ChangedKept ==
  ASSUME TypeOK, TypeOK', KeptInv, NEW u \in Uid, ApplyChanged(u)
  PROVE  KeptInv'
  <1> USE DEF KeptInv
  <1>1. /\ UNCHANGED <<srv, ver, clock, token, created, form, job, deleted, pc>>
        /\ pc = "apply" /\ job = NoJob /\ clock \in Nat /\ batch \in Batch
    BY BatchAt DEF ApplyChanged, TypeOK, serverVars, jacalVars
  <1>2. /\ batch'.token = batch.token /\ batch'.upTo = batch.upTo /\ batch'.gone = batch.gone
        /\ batch'.listed = batch.listed /\ batch'.reconcile = batch.reconcile
        /\ batch'.changed = batch.changed \ {u} /\ u \in batch.changed
    BY <1>1 DEF ApplyChanged, Batch
  <1>3. GoneTrue'
    BY <1>1, <1>2 DEF GoneTrue, Covered, Live
  <1>4. CASE lost' = lost \ {u} /\ \E etag \in Nat, body \in Nat : Upsert(u, etag, body) /\ srv[u].at # 0
    <2>1. PICK etag \in Nat, body \in Nat : Upsert(u, etag, body) /\ srv[u].at # 0
      BY <1>4
    <2>2. /\ IdsOnce' /\ OwnRows' /\ Numbered' /\ JobAbout'
          /\ ServerRow(u)' /\ \A v \in Uid : Cached(v) => Cached(v)'
      BY <1>1, <1>4, <2>1, UpsertKept
    <2>3. KeptSoFar'
      BY <1>1, <1>2, <2>2 DEF KeptSoFar, Covered, Live, Cached
    <2> QED BY <1>3, <2>2, <2>3
  <1>5. CASE /\ UNCHANGED tableVars /\ lost \subseteq lost'
             /\ ~Live(u) \/ u \in lost'
    <2>1. rows' = rows /\ nextId' = nextId
      BY <1>5 DEF tableVars
    <2>2. IdsOnce' /\ OwnRows' /\ Numbered' /\ JobAbout'
      BY <1>1, <2>1 DEF IdsOnce, OwnRows, Numbered, JobAbout, Present, MayTakeBack, RowOf,
         Covered, Live
    <2>3. \A v \in Uid : Cached(v) => Cached(v)'
      BY <1>1, <1>5, <2>1 DEF Cached, ServerRow, HasHref, RowOf, Present
    <2>4. ~Live(u) \/ Cached(u)'
      BY <1>5 DEF Cached
    <2>5. KeptSoFar'
      BY <1>1, <1>2, <2>3, <2>4 DEF KeptSoFar, Covered, Live
    <2> QED BY <1>3, <2>2, <2>5
  <1>7. srv[u] \in Copy /\ batch.copy[u] \in Copy /\ (Live(u) => srv[u].at # 0)
    BY <1>1 DEF TypeOK, Batch, Numbered
  <1>8. CASE Inline /\ Upsert(u, batch.copy[u].at, batch.copy[u].body) /\ lost' = lost \ {u}
    <2>1. srv[u].at # 0
      BY <1>1, <1>2 DEF GoneTrue
    <2> QED BY <1>4, <1>7, <1>8, <2>1 DEF Copy
  <1>9. CASE ~Inline /\ Live(u) /\ Upsert(u, batch.copy[u].at, srv[u].body) /\ lost' = lost \ {u}
    BY <1>4, <1>7, <1>9 DEF Copy
  <1>10. CASE ~Inline /\ ~Live(u) /\ UNCHANGED <<tableVars, lost>>
    BY <1>5, <1>10
  <1>11. CASE UNCHANGED tableVars /\ lost' = lost \cup {u}
    BY <1>5, <1>11
  <1> QED BY <1>8, <1>9, <1>10, <1>11 DEF ApplyChanged

LEMMA DropKept ==
  ASSUME TypeOK, TypeOK', KeptInv, NEW v \in Uid, NEW w \in {"local", "server"}, DropByHref(w, v)
  PROVE  KeptInv'
  <1> USE DEF KeptInv
  <1>1. /\ UNCHANGED <<srv, ver, clock, token, created, form, job, deleted, lost, pc, nextId>>
        /\ pc = "apply" /\ job = NoJob /\ clock \in Nat /\ batch \in Batch /\ <<w, v>> \in batch.gone
    BY BatchAt DEF DropByHref, TypeOK, serverVars, jacalVars, ghostVars
  <1>2. /\ batch'.token = batch.token /\ batch'.upTo = batch.upTo /\ batch'.gone \subseteq batch.gone
        /\ batch'.listed = batch.listed /\ batch'.reconcile = batch.reconcile
        /\ batch'.changed = batch.changed
    BY <1>1 DEF DropByHref, Batch
  <1>3. \A id \in Ids : rows'[id] = IF HasHref(id, w, v) THEN NoRow ELSE rows[id]
    BY DEF DropByHref
  <1>4. \A id \in Ids : Present(id)' => ~HasHref(id, w, v) /\ Present(id) /\ rows'[id] = rows[id]
    BY <1>3 DEF Present, NoRow
  <1>5. RowsThin
    BY <1>1, <1>4 DEF RowsThin, MayTakeBack
  <1>6. ASSUME NEW u \in Uid, Covered(u, batch.upTo), Cached(u) PROVE Cached(u)'
    <2>1. ~(w = "server" /\ u = v)
      BY <1>1, <1>6 DEF GoneTrue
    <2>2. \A id \in Ids : HasHref(id, "server", u) => ~HasHref(id, w, v)
      BY <2>1 DEF HasHref
    <2>3. \A id \in Ids : HasHref(id, "server", u) => HasHref(id, "server", u)'
      BY <1>3, <2>2 DEF HasHref, Present
    <2>4. \A id \in Ids : RowOf(id, u)' => RowOf(id, u)
      BY <1>4 DEF RowOf
    <2> QED BY <1>1, <1>6, <2>3, <2>4 DEF Cached, ServerRow
  <1>7. GoneTrue'
    BY <1>1, <1>2 DEF GoneTrue, Covered, Live
  <1>8. \A u \in Uid : (Covered(u, token) => Covered(u, batch.upTo))
                    /\ (Covered(u, batch.token) => Covered(u, batch.upTo))
    BY <1>1 DEF GoneTrue, Covered, TypeOK, Copy, Batch
  <1>9. KeptSoFar'
    BY <1>1, <1>2, <1>6, <1>8 DEF KeptSoFar, Covered, Live
  <1> QED BY <1>5, <1>7, <1>9, ThinStep

LEMMA MissingKept == ASSUME TypeOK, TypeOK', KeptInv, ListMissing PROVE KeptInv'
  <1> USE DEF KeptInv
  <1>1. /\ UNCHANGED <<srv, ver, clock, token, created, form, job, deleted, lost, pc, rows, nextId>>
        /\ pc = "apply" /\ batch \in Batch /\ batch.reconcile = "due"
    BY BatchAt DEF ListMissing, TypeOK, serverVars, tableVars, jacalVars, ghostVars
  <1>2. /\ batch'.token = batch.token /\ batch'.upTo = batch.upTo
        /\ batch'.listed = batch.listed /\ batch'.reconcile = "done"
        /\ batch'.changed = batch.changed
        /\ \A u \in Uid : <<"server", u>> \in batch'.gone => u \notin batch.listed
    BY <1>1 DEF ListMissing, Batch
  <1>3. GoneTrue'
    BY <1>1, <1>2 DEF GoneTrue, Covered, Live
  <1>4. \A u \in Uid : Cached(u)' <=> Cached(u)
    BY <1>1 DEF Cached, ServerRow, HasHref, RowOf, Present
  <1>5. KeptSoFar'
    BY <1>1, <1>2, <1>4 DEF KeptSoFar, Covered, Live
  <1>6. IdsOnce' /\ OwnRows' /\ Numbered' /\ JobAbout'
    BY <1>1 DEF IdsOnce, OwnRows, Numbered, JobAbout, Present, MayTakeBack, RowOf, Covered, Live
  <1> QED BY <1>3, <1>5, <1>6

LEMMA EndKept == ASSUME TypeOK, TypeOK', KeptInv, EndPull PROVE KeptInv'
  <1> USE DEF KeptInv
  <1>1. /\ UNCHANGED <<srv, ver, clock, created, form, job, deleted, lost, rows, nextId>>
        /\ pc = "apply" /\ batch \in Batch /\ batch.changed = {} /\ pc' = "sleep"
        /\ token' = batch.token /\ job = NoJob /\ ver \in Nat
    BY BatchAt DEF EndPull, TypeOK, serverVars, tableVars, jacalVars, ghostVars
  <1>2. \A u \in Uid : Cached(u)' <=> Cached(u)
    BY <1>1 DEF Cached, ServerRow, HasHref, RowOf, Present
  <1>3. KeptSoFar' /\ GoneTrue'
    BY <1>1, <1>2 DEF KeptSoFar, GoneTrue, Covered, Live
  <1>4. IdsOnce' /\ OwnRows' /\ JobAbout'
    BY <1>1 DEF IdsOnce, OwnRows, JobAbout, Present, MayTakeBack, RowOf
  <1>5. batch.token \in Nat /\ batch.upTo \in Nat
    BY <1>1 DEF Batch
  <1>6. Numbered'
    BY <1>1, <1>5 DEF Numbered, GoneTrue, Live
  <1> QED BY <1>3, <1>4, <1>6

LEMMA KeptStep ==
  ASSUME TypeOK, TypeOK', KeptInv, [Next]_vars
  PROVE  KeptInv'
  <1>1. CASE UNCHANGED vars
    BY <1>1 DEF vars, KeptInv, IdsOnce, OwnRows, Numbered, JobAbout, GoneTrue, KeptSoFar, Covered,
       Live, Cached, ServerRow, HasHref, RowOf, MayTakeBack, Present
  <1>2. CASE Next
    BY <1>2, OthersKeep, CreateKept, OpenKept, EditKept, DeleteKept, WritePassKept, RequestKept,
       DropPlaceholderKept, RecordKept, PruneEventsKept, PruneCalendarKept, PullKept, ChangedKept, DropKept, MissingKept,
       EndKept DEF Next, Thread, Environment
  <1> QED BY <1>1, <1>2

\* Whatever users and other clients do between the steps of the sync thread, and
\* through failed requests, restarts, paging, rejected tokens and half-done prunes, the
\* token runs ahead of the table only for an event whose GET failed or that a prune
\* took and left, of what the server has and the user has not deleted.
THEOREM NothingIsMissing == Spec => []NothingMissing
  <1>1. KeptInv => NothingMissing
    BY DEF KeptInv, KeptSoFar, Covered, Cached, ServerRow, NothingMissing
  <1>2. TypeOK /\ TypeOK' /\ KeptInv /\ [Next]_vars => KeptInv'
    BY KeptStep
  <1> QED BY <1>1, <1>2, KeptInit, TypeCorrect, PTL DEF Spec

----------------------------------------------------------------------------
(***************************************************************************)
(* The calendar jamaild hosts itself (HostedCalendar): what a client has   *)
(* is what the log has told, HeldAsLogged.                                 *)
(*                                                                         *)
(* The argument.  A step that writes a row keeps the name from counting as *)
(* logged until the step that adds the entry, which says whether there is  *)
(* an event now (LogTrue).  A REPORT takes the newest entries once: what it *)
(* passes over or reports gone was true at that place of the log, and what *)
(* it has yet to load exists by the log (ReportTrue); an entry added since *)
(* takes the name out of what its token claims.  Only jacal's own events   *)
(* are not in the log while their rows exist, and nobody has heard of them *)
(* (OwnNames).                                                             *)
(***************************************************************************)

Said == Wording \cup {Absent}
Held == [says: Said, etag: Said]
Rows == [says: Wording, etag: Said, status: {"synced", "create", "update", "delete"}, id: Nat \ {0}]
Event == Rows \cup {NoEvent}
Editing == [op: {"edit", "delete"}, name: Name, id: Nat \ {0},
            status: {"synced", "create", "update", "delete"}]
Putting == [op: {"put"}, at: {"store", "log"}, name: Name, says: Wording]
Deleting == [op: {"delete"}, at: {"store", "log"}, name: Name]
Reporting == [op: {"report"}, left: SUBSET Name, token: Nat, told: [Name -> Held]]
Committing == [name: Name, row: Rows, at: {"store", "log"}]

HostedType ==
  /\ hosted \in [Name -> Event]
  /\ history \in Seq([name: Name, deleted: BOOLEAN])
  /\ serving \in [User -> {NoServing} \cup Putting \cup Deleting \cup Reporting]
  /\ commit \in {NoCommit} \cup Committing
  /\ held \in [User -> [Name -> Held]]
  /\ mark \in [User -> Nat]
  /\ named \subseteq Name
  /\ lastRow \in Nat
  /\ editing \in {NoEdit} \cup Editing

Reports(u) == serving[u].op = "report"
WritesTo(u, n) == serving[u].op \in {"put", "delete"} /\ serving[u].name = n
Commits(n) == commit # NoCommit /\ commit.name = n

\* No token is ahead of the log.
MarksBehind ==
  \A u \in User : mark[u] <= Len(history) /\ (Reports(u) => serving[u].token <= Len(history))

\* i is the newest entry of n among the first k.
Last(i, n, k) == i \in 1 .. k /\ history[i].name = n /\ \A j \in i + 1 .. k : history[j].name # n

\* A name with an entry past a token has a newest one.
HasNewest ==
  \A since \in Nat, n \in Name :
    Newest(since, n) # {} => \E i \in Newest(since, n) : Last(i, n, Len(history))

\* The newest entry of a logged name says whether there is an event.
LogTrue ==
  \A n \in Name : Logged(n) =>
    /\ \A i \in 1 .. Len(history) :
         Last(i, n, Len(history)) => (history[i].deleted <=> AtPath(n) = NoEvent)
    /\ Newest(0, n) = {} => AtPath(n) = NoEvent

\* Who was told x of n up to entry s was told the truth.
Agrees(s, x, n) == Logged(n) /\ Newest(s, n) = {} => x = AtPath(n).says

\* The newest of the first k entries of n tells of an event.
Tells(k, n) == \E i \in 1 .. k : Last(i, n, k) /\ ~history[i].deleted

ReportTrue(u) ==
  LET r == serving[u] IN
  \A n \in Name : IF n \in r.left THEN Tells(r.token, n) ELSE Agrees(r.token, r.told[n].says, n)

ReportsTrue == \A u \in User : Reports(u) => ReportTrue(u)

\* Nobody but jacal has come to know n.
Unheard(n) ==
  /\ \A i \in 1 .. Len(history) : history[i].name # n
  /\ \A u \in User :
       /\ held[u][n] = NotHeld /\ ~WritesTo(u, n)
       /\ Reports(u) => n \notin serving[u].left /\ serving[u].told[n] = NotHeld

\* A name jacal has not given yet, and an event of its that was never committed.
Unmade(n) == n \in OwnName \ named => hosted[n] = NoEvent /\ ~Commits(n) /\ Unheard(n)
Placeholder(n) == hosted[n] # NoEvent /\ hosted[n].etag = Absent
Uncommitted(n) ==
  Placeholder(n) =>
    /\ n \in OwnName \cap named /\ Unheard(n)
    /\ Commits(n) => commit.at = "store" /\ commit.row.id = hosted[n].id
OwnNames == \A n \in Name : Unmade(n) /\ Uncommitted(n)

HostedInv ==
  /\ HostedType /\ MarksBehind /\ HasNewest /\ LogTrue /\ ReportsTrue /\ OwnNames
  /\ HeldAsLogged

----------------------------------------------------------------------------

LEMMA HostedInitHolds == ASSUME HostedInit PROVE HostedInv
<1> USE DEF HostedInit
<1>1. HostedType
      BY DEF HostedType, Event, Said, Held, NotHeld, NoServing
<1>2. \A u \in User : ~Reports(u) /\ \A n \in Name : ~WritesTo(u, n)
      BY DEF Reports, WritesTo, NoServing
<1>3. history = <<>> /\ Len(history) = 0
      OBVIOUS
<1>4. MarksBehind
      BY <1>2, <1>3 DEF MarksBehind
<1>5. \A n \in Name : AtPath(n) = NoEvent /\ hosted[n] = NoEvent
      BY DEF AtPath, NoEvent, Absent
<1>6. \A n \in Name, s \in Nat : Newest(s, n) = {}
      BY <1>3 DEF Newest
<1>7. HasNewest
      BY <1>6 DEF HasNewest
<1>8. LogTrue
      BY <1>3, <1>5 DEF LogTrue
<1>9. ReportsTrue
      BY <1>2 DEF ReportsTrue
<1>10. \A n \in Name : Unheard(n) /\ ~Commits(n)
      BY <1>2, <1>3 DEF Unheard, Commits
<1>11. OwnNames
      BY <1>5, <1>10 DEF OwnNames, Unmade, Uncommitted, Placeholder
<1>12. HeldAsLogged
      BY <1>5 DEF HeldAsLogged, NotHeld, NoEvent
<1> QED BY <1>1, <1>4, <1>7, <1>8, <1>9, <1>11, <1>12 DEF HostedInv

\* What a request in progress is.
LEMMA ServingAt ==
  ASSUME HostedType, NEW u \in User
  PROVE  /\ serving[u].op = "put" => serving[u] \in Putting
         /\ serving[u].op = "delete" => serving[u] \in Deleting
         /\ serving[u].op = "report" => serving[u] \in Reporting
BY DEF HostedType, NoServing, Putting, Deleting, Reporting

(* Steps that add no entry to the log, and steps that add one. *)

\* The step leaves what there is to say of n as it is, or it does not count until an
\* entry says so, or nobody has heard of n.
Steady(n) ==
  \/ ~Logged(n)'
  \/ Logged(n) /\ AtPath(n)' = AtPath(n)
  \/ Unheard(n) /\ AtPath(n)' = NoEvent

\* What the log tells stays true, of what clients have as well.
Carried ==
  /\ HasNewest' /\ LogTrue'
  /\ \A s \in 0 .. Len(history), n \in Name, x \in Said :
        Agrees(s, x, n) /\ (Unheard(n) => x = Absent) => Agrees(s, x, n)'
  /\ \A s \in 0 .. Len(history), n \in Name : Tells(s, n) => Tells(s, n)'
  /\ Len(history) \in Nat /\ Len(history') \in Nat /\ Len(history) <= Len(history')

LEMMA NoEntry ==
  ASSUME HostedInv, history' = history, \A n \in Name : Steady(n)
  PROVE  Carried
<1> USE DEF HostedInv
<1>1. \A s \in Nat, n \in Name : Newest(s, n)' = Newest(s, n)
      BY DEF Newest
<1>2. \A k \in Nat, n \in Name, i \in Nat : Last(i, n, k)' <=> Last(i, n, k)
      BY DEF Last
<1>3. Len(history) \in Nat
      BY DEF HostedType
<1>4. HasNewest'
      BY <1>1, <1>2, <1>3 DEF HasNewest, Newest, Last
<1>5. ASSUME NEW n \in Name, Logged(n)'
      PROVE  /\ \A i \in 1 .. Len(history) :
                  Last(i, n, Len(history)) => (history[i].deleted <=> AtPath(n)' = NoEvent)
             /\ Newest(0, n) = {} => AtPath(n)' = NoEvent
  <2>1. CASE Logged(n) /\ AtPath(n)' = AtPath(n)
        BY <2>1 DEF LogTrue
  <2>2. CASE Unheard(n) /\ AtPath(n)' = NoEvent
        BY <2>2 DEF Unheard, Last
  <2> QED BY <1>5, <2>1, <2>2 DEF Steady
<1>6. LogTrue'
      BY <1>1, <1>2, <1>3, <1>5 DEF LogTrue, NoEvent
<1>7. ASSUME NEW s \in 0 .. Len(history), NEW n \in Name, NEW x \in Said,
             Agrees(s, x, n), Unheard(n) => x = Absent
      PROVE  Agrees(s, x, n)'
      BY <1>1, <1>7 DEF Agrees, Steady, NoEvent
<1>8. ASSUME NEW s \in 0 .. Len(history), NEW n \in Name, Tells(s, n)
      PROVE  Tells(s, n)'
      BY <1>2, <1>8 DEF Tells
<1> QED BY <1>3, <1>4, <1>6, <1>7, <1>8 DEF Carried

LEMMA OneEntry ==
  ASSUME HostedInv, NEW m \in Name, NEW gone \in BOOLEAN, AppendSyncLog(m, gone),
         \A n \in Name \ {m} : Steady(n), hosted' = hosted
  PROVE  /\ Carried /\ history' \in Seq([name: Name, deleted: BOOLEAN])
         /\ \A s \in 0 .. Len(history) : Newest(s, m)' # {}
         /\ \A n \in Name \ {m} : (\A i \in 1 .. Len(history) : history[i].name # n)
               => \A i \in 1 .. Len(history') : history'[i].name # n
<1> USE DEF HostedInv
<1>0. PICK top : top = Len(history) + 1
      OBVIOUS
<1>1. /\ history' = Append(history, [name |-> m, deleted |-> gone])
      /\ history \in Seq([name: Name, deleted: BOOLEAN])
      BY DEF AppendSyncLog, HostedType
<1>2. /\ Len(history) \in Nat /\ Len(history') = top /\ top = Len(history) + 1
      /\ history' \in Seq([name: Name, deleted: BOOLEAN])
      /\ \A i \in 1 .. Len(history) : history'[i] = history[i]
      /\ history'[top] = [name |-> m, deleted |-> gone] /\ top \in 1 .. Len(history')
      /\ \A i \in 1 .. Len(history') : i = top \/ i \in 1 .. Len(history)
      BY <1>0, <1>1
<1>3. \A s \in 0 .. Len(history) : top \in Newest(s, m)'
      BY <1>2 DEF Newest
<1>4. \A n \in Name \ {m}, i \in 1 .. Len(history) :
          Last(i, n, Len(history)) <=> Last(i, n, Len(history))'
      BY <1>2 DEF Last
<1>5. Last(top, m, top)' /\ \A i \in 1 .. Len(history) : ~Last(i, m, Len(history))'
      BY <1>2 DEF Last
<1>6. \A s \in 0 .. Len(history), n \in Name \ {m} : Newest(s, n)' = Newest(s, n)
      BY <1>2 DEF Newest
<1>7. \A s \in Nat, n \in Name : s >= top => Newest(s, n)' = {}
      BY <1>2 DEF Newest
<1>8. ASSUME NEW s \in Nat, NEW n \in Name, Newest(s, n)' # {}
      PROVE  \E i \in Newest(s, n)' : Last(i, n, Len(history))'
  <2>1. s \in 0 .. Len(history)
        BY <1>2, <1>7, <1>8
  <2>2. CASE n = m
        BY <1>2, <1>3, <1>5, <2>1, <2>2
  <2>3. CASE n # m
    <3>1. PICK i \in Newest(s, n) : Last(i, n, Len(history))
          BY <1>6, <1>8, <2>1, <2>3 DEF HasNewest
    <3> QED BY <1>4, <1>6, <2>1, <2>3, <3>1 DEF Last
  <2> QED BY <2>2, <2>3
<1>9. HasNewest'
      BY <1>8 DEF HasNewest
<1>10. AtPath(m)' = AtPath(m)
      BY DEF AtPath
<1>11. ASSUME Logged(m)'
       PROVE  gone <=> AtPath(m)' = NoEvent
  <2>1. m \notin untold'
        BY <1>11 DEF Logged
  <2> QED BY <1>10, <2>1 DEF AppendSyncLog
<1>12. ASSUME NEW n \in Name, Logged(n)'
       PROVE  /\ \A i \in 1 .. Len(history)' :
                  Last(i, n, Len(history))' => (history'[i].deleted <=> AtPath(n)' = NoEvent)
              /\ Newest(0, n)' = {} => AtPath(n)' = NoEvent
  <2>1. CASE n = m
        BY <1>2, <1>3, <1>5, <1>11, <1>12, <2>1
  <2>2. CASE n # m /\ Logged(n) /\ AtPath(n)' = AtPath(n)
    <3>1. ASSUME NEW i \in 1 .. Len(history'), Last(i, n, Len(history))'
          PROVE  history'[i].deleted <=> AtPath(n)' = NoEvent
      <4>1. i # top
            BY <1>2, <2>2, <3>1 DEF Last
      <4>2. i \in 1 .. Len(history) /\ Last(i, n, Len(history))
            BY <1>2, <1>4, <2>2, <3>1, <4>1
      <4> QED BY <1>2, <2>2, <4>2 DEF LogTrue
    <3>2. Newest(0, n)' = Newest(0, n)
          BY <1>2, <1>6, <2>2
    <3> QED BY <2>2, <3>1, <3>2 DEF LogTrue
  <2>3. CASE n # m /\ Unheard(n) /\ AtPath(n)' = NoEvent
    <3>1. \A i \in 1 .. Len(history') : history'[i].name # n
          BY <1>2, <2>3 DEF Unheard
    <3> QED BY <2>3, <3>1 DEF Last
  <2> QED BY <1>12, <2>1, <2>2, <2>3 DEF Steady
<1>13. LogTrue'
       BY <1>12 DEF LogTrue, NoEvent
<1>14. ASSUME NEW s \in 0 .. Len(history), NEW n \in Name, NEW x \in Said,
             Agrees(s, x, n), Unheard(n) => x = Absent
       PROVE  Agrees(s, x, n)'
  <2>1. CASE n = m
        BY <1>3, <2>1 DEF Agrees
  <2>2. CASE n # m
        BY <1>6, <1>14, <2>2 DEF Agrees, Steady, NoEvent
  <2> QED BY <2>1, <2>2
<1>15. ASSUME NEW s \in 0 .. Len(history), NEW n \in Name, Tells(s, n)
       PROVE  Tells(s, n)'
  <2>1. PICK i \in 1 .. s : Last(i, n, s) /\ ~history[i].deleted
        BY <1>15 DEF Tells
  <2>2. s \in Nat /\ s <= Len(history) /\ \A j \in 1 .. s : j \in 1 .. Len(history)
        BY <1>2
  <2>3. \A j \in 1 .. s : history'[j] = history[j]
        BY <1>2, <2>2
  <2>4. \A j \in i + 1 .. s : j \in 1 .. s
        BY <2>2
  <2>5. Last(i, n, s)' /\ ~history'[i].deleted
        BY <2>1, <2>3, <2>4 DEF Last
  <2> QED BY <2>5 DEF Tells
<1>16. Carried
       BY <1>2, <1>9, <1>13, <1>14, <1>15 DEF Carried
<1>17. ASSUME NEW n \in Name \ {m}, \A i \in 1 .. Len(history) : history[i].name # n
       PROVE  \A i \in 1 .. Len(history') : history'[i].name # n
       BY <1>2, <1>17
<1> QED BY <1>2, <1>3, <1>16, <1>17

\* What is new of what a request was told and of what a client has.
ReportsAreTrue ==
  \A u \in User : Reports(u)' =>
     \/ serving'[u] = serving[u]
     \/ ReportTrue(u)' /\ serving'[u].token <= Len(history')
MarksAreBehind == \A u \in User : mark'[u] <= Len(history')
HeldIsTrue ==
  \A u \in User, n \in Name, s \in Nat, x \in Said : s = mark'[u] /\ x = held'[u][n].says =>
     (mark'[u] = mark[u] /\ held'[u][n] = held[u][n]) \/ Agrees(s, x, n)'

\* What a request is told and a client has stays true, if what is new of it is true.
LEMMA ClaimsStay ==
  ASSUME HostedInv, HostedType', Carried, ReportsAreTrue, MarksAreBehind, HeldIsTrue
  PROVE  MarksBehind' /\ HasNewest' /\ LogTrue' /\ ReportsTrue' /\ HeldAsLogged'
<1> USE DEF HostedInv, ReportsAreTrue, MarksAreBehind, HeldIsTrue
<1>1. HasNewest' /\ LogTrue'
      BY DEF Carried
<1>2. MarksBehind'
  <2>1. ASSUME NEW u \in User, Reports(u)', serving'[u] = serving[u]
        PROVE  serving'[u].token <= Len(history')
    <3>1. serving[u] \in Reporting /\ Reports(u)
          BY <2>1, ServingAt DEF Reports
    <3>2. serving[u].token \in Nat /\ serving[u].token <= Len(history)
          BY <3>1 DEF MarksBehind, Reporting
    <3> QED BY <2>1, <3>2 DEF Carried
  <2> QED BY <2>1 DEF MarksBehind
<1>3. ASSUME NEW u \in User, Reports(u)'
      PROVE  ReportTrue(u)'
  <2>1. CASE serving'[u] = serving[u]
    <3>1. Reports(u) /\ serving[u] \in Reporting
          BY <1>3, <2>1, ServingAt DEF Reports
    <3>2. PICK r \in Reporting : r = serving[u]
          BY <3>1
    <3>3. r.token \in 0 .. Len(history) /\ \A n \in Name : r.told[n] \in Held /\ r.told[n].says \in Said
          BY <3>1, <3>2 DEF MarksBehind, Carried, Reporting, Held
    <3>4. ASSUME NEW n \in Name
          PROVE  IF n \in r.left THEN Tells(r.token, n)' ELSE Agrees(r.token, r.told[n].says, n)'
      <4>1. IF n \in r.left THEN Tells(r.token, n) ELSE Agrees(r.token, r.told[n].says, n)
            BY <3>1, <3>2 DEF ReportsTrue, ReportTrue
      <4>2. Unheard(n) => r.told[n].says = Absent
            BY <3>1, <3>2 DEF Unheard, NotHeld
      <4> QED BY <3>3, <4>1, <4>2 DEF Carried
    <3>5. r = serving'[u]
          BY <2>1, <3>2
    <3> QED BY <3>4, <3>5 DEF ReportTrue
  <2> QED BY <1>3, <2>1
<1>4. ReportsTrue'
      BY <1>3 DEF ReportsTrue
<1>5. ASSUME NEW u \in User, NEW n \in Name, NEW s \in Nat, NEW x \in Said,
             s = mark'[u], x = held'[u][n].says
      PROVE  Agrees(s, x, n)'
  <2>1. CASE mark'[u] = mark[u] /\ held'[u][n] = held[u][n]
    <3>1. s \in 0 .. Len(history)
          BY <1>5, <2>1 DEF MarksBehind, Carried
    <3>2. Agrees(s, x, n)
          BY <1>5, <2>1 DEF HeldAsLogged, Agrees
    <3>3. Unheard(n) => x = Absent
          BY <1>5, <2>1 DEF Unheard, NotHeld
    <3> QED BY <3>1, <3>2, <3>3 DEF Carried
  <2> QED BY <1>5, <2>1
<1>6. \A u \in User, n \in Name : mark'[u] \in Nat /\ held'[u][n].says \in Said
      BY DEF HostedType, Held
<1>7. ASSUME NEW u \in User, NEW n \in Name, Logged(n)', Newest(mark[u], n)' = {}
      PROVE  held'[u][n].says = AtPath(n)'.says
  <2>1. PICK s \in Nat, x \in Said : s = mark'[u] /\ x = held'[u][n].says
        BY <1>6
  <2>2. Newest(s, n)' = {}
        BY <1>7, <2>1 DEF Newest
  <2> QED BY <1>5, <1>7, <2>1, <2>2 DEF Agrees
<1>8. HeldAsLogged'
      BY <1>7 DEF HeldAsLogged
<1> QED BY <1>1, <1>2, <1>4, <1>8

LEMMA UnheardStays ==
  ASSUME NEW n \in Name, Unheard(n), \A i \in 1 .. Len(history') : history'[i].name # n,
         \A u \in User : held'[u][n] \in {held[u][n], NotHeld},
         \A u \in User : \/ serving'[u] = serving[u]
                         \/ /\ ~WritesTo(u, n)'
                            /\ Reports(u)' => /\ n \notin serving'[u].left
                                              /\ serving'[u].told[n] = NotHeld
  PROVE  Unheard(n)'
BY DEF Unheard, WritesTo, Reports

\* Names that are jacal's alone, while it does not write.
Own(n) == n \in OwnName \ named \/ Placeholder(n)

LEMMA OwnIsUnheard ==
  ASSUME HostedInv, NEW n \in Name, Own(n)
  PROVE  /\ Unheard(n) /\ n \in OwnName /\ AtPath(n) = NoEvent
         /\ \A i \in 1 .. Len(history) : history[i].name # n
         /\ \A u \in User : held[u][n] = NotHeld /\ ~WritesTo(u, n)
BY DEF HostedInv, OwnNames, Unmade, Uncommitted, Own, AtPath, Unheard, Placeholder, NoEvent

LEMMA OwnNamesStay ==
  ASSUME HostedInv, UNCHANGED <<hosted, named, commit>>,
         \A n \in Name : Own(n) => Unheard(n)'
  PROVE  OwnNames'
BY DEF HostedInv, OwnNames, Unmade, Uncommitted, Own, Commits, Placeholder

(* Requests that read. *)

\* A request begins, goes on reading, or ends, and has written nothing.
LEMMA Reads ==
  ASSUME HostedInv, NEW u \in User, UNCHANGED <<hosted, history, commit, named, untold>>,
         \A v \in User \ {u} : serving'[v] = serving[v],
         serving[u].op \notin {"put", "delete"},
         serving'[u].op \in {"put", "delete"} => serving'[u].at = "store"
  PROVE  Carried
<1>1. \A n \in Name : Unlogged(n)' <=> Unlogged(n)
      BY DEF Unlogged
<1>2. \A n \in Name : AtPath(n)' = AtPath(n) /\ (Logged(n)' <=> Logged(n))
      BY <1>1 DEF AtPath, Logged
<1> QED BY <1>2, NoEntry DEF Steady

LEMMA BeginsHolds ==
  ASSUME HostedInv, NEW u \in User, NEW n \in Name, NEW pre,
         DeleteEvent(u, n, pre) \/ \E t \in Wording : PutEvent(u, n, t, pre)
  PROVE  HostedInv'
<1>1. /\ UNCHANGED <<hosted, history, commit, held, mark, named, untold, lastRow, editing>>
      /\ serving[u] = NoServing /\ ~Own(n)
      BY OwnIsUnheard DEF DeleteEvent, PutEvent, Begins
<1>2. PICK r \in Putting \cup Deleting :
          /\ serving' = [serving EXCEPT ![u] = r]
          /\ r.op \in {"put", "delete"} /\ r.at = "store" /\ r.name = n
  <2>1. CASE DeleteEvent(u, n, pre)
    <3>1. PICK d \in Deleting : d = [op |-> "delete", at |-> "store", name |-> n]
          BY DEF Deleting
    <3>2. serving' = [serving EXCEPT ![u] = d]
          BY <2>1, <3>1 DEF DeleteEvent, Begins
    <3>3. d.op = "delete" /\ d.at = "store" /\ d.name = n
          BY <3>1
    <3> QED BY <3>2, <3>3
  <2>2. CASE \E t \in Wording : PutEvent(u, n, t, pre)
    <3>1. PICK t \in Wording : PutEvent(u, n, t, pre)
          BY <2>2
    <3>2. PICK d \in Putting : d = [op |-> "put", at |-> "store", name |-> n, says |-> t]
          BY DEF Putting
    <3>3. serving' = [serving EXCEPT ![u] = d]
          BY <3>1, <3>2 DEF PutEvent, Begins
    <3>4. d.op = "put" /\ d.at = "store" /\ d.name = n
          BY <3>2
    <3> QED BY <3>3, <3>4
  <2> QED BY <2>1, <2>2
<1>3. /\ serving'[u] = r /\ serving[u].op \notin {"put", "delete"}
      /\ \A v \in User \ {u} : serving'[v] = serving[v]
      BY <1>1, <1>2 DEF HostedInv, HostedType, NoServing
<1>4. HostedType'
      BY <1>1, <1>2 DEF HostedInv, HostedType
<1>5. Carried
      BY <1>1, <1>2, <1>3, Reads
<1>6. MarksBehind' /\ HasNewest' /\ LogTrue' /\ ReportsTrue' /\ HeldAsLogged'
  <2>1. ReportsAreTrue
        BY <1>2, <1>3 DEF ReportsAreTrue, Reports
  <2>2. MarksAreBehind /\ HeldIsTrue
        BY <1>1 DEF HostedInv, MarksBehind, MarksAreBehind, HeldIsTrue
  <2> QED BY <1>4, <1>5, <2>1, <2>2, ClaimsStay
<1>7. ASSUME NEW k \in Name, Own(k)
      PROVE  Unheard(k)'
  <2>1. ~WritesTo(u, k)' /\ ~Reports(u)'
        BY <1>1, <1>2, <1>3, <1>7 DEF WritesTo, Reports
  <2> QED BY <1>1, <1>3, <1>7, <2>1, OwnIsUnheard, UnheardStays
<1>8. OwnNames'
      BY <1>1, <1>7, OwnNamesStay
<1> QED BY <1>4, <1>6, <1>8 DEF HostedInv

\* GET and calendar-query: what the client has of a name is what the row is.
LEMMA LooksHolds ==
  ASSUME HostedInv, NEW u \in User, ServerListEvents(u) \/ \E n \in Name : GetEvent(u, n)
  PROVE  HostedInv'
<1>1. /\ UNCHANGED <<hosted, history, serving, commit, mark, named, untold, lastRow, editing>>
      /\ serving[u] = NoServing
      BY DEF ServerListEvents, GetEvent
<1>2. \A n \in Name : OfRow(AtPath(n)) \in Held /\ OfRow(AtPath(n)).says = AtPath(n).says
      BY DEF HostedInv, HostedType, Event, Rows, Held, OfRow, AtPath, NoEvent, Said
<1>3. /\ held' \in [User -> [Name -> Held]]
      /\ \A v \in User, n \in Name : held'[v][n] \in {held[v][n], OfRow(AtPath(n))}
  <2>1. held \in [User -> [Name -> Held]]
        BY DEF HostedInv, HostedType
  <2>2. CASE ServerListEvents(u)
    <3>1. PICK all \in [Name -> Held] : all = [n \in Name |-> OfRow(AtPath(n))]
          BY <1>2
    <3>2. held' = [held EXCEPT ![u] = all] /\ \A n \in Name : all[n] = OfRow(AtPath(n))
          BY <2>2, <3>1 DEF ServerListEvents
    <3> QED BY <2>1, <3>2
  <2>3. ASSUME NEW k \in Name, GetEvent(u, k)
        PROVE  <1>3!:
    <3>1. held' = [held EXCEPT ![u][k] = OfRow(AtPath(k))]
          BY <2>3 DEF GetEvent
    <3> QED BY <1>2, <2>1, <3>1
  <2> QED BY <2>2, <2>3
<1>4. HostedType'
      BY <1>1, <1>3 DEF HostedInv, HostedType
<1>5. Carried
      BY <1>1, Reads DEF NoServing
<1>6. MarksBehind' /\ HasNewest' /\ LogTrue' /\ ReportsTrue' /\ HeldAsLogged'
  <2>1. ReportsAreTrue /\ MarksAreBehind
        BY <1>1 DEF HostedInv, MarksBehind, ReportsAreTrue, MarksAreBehind, Reports
  <2>2. \A n \in Name : AtPath(n)' = AtPath(n)
        BY <1>1 DEF AtPath
  <2>3. HeldIsTrue
        BY <1>1, <1>2, <1>3, <2>2 DEF Agrees, HeldIsTrue
  <2> QED BY <1>4, <1>5, <2>1, <2>3, ClaimsStay
<1>7. ASSUME NEW k \in Name, Own(k)
      PROVE  Unheard(k)'
  <2>1. OfRow(AtPath(k)) = NotHeld
        BY <1>7, OwnIsUnheard DEF OfRow, NoEvent, NotHeld
  <2> QED BY <1>1, <1>3, <1>7, <2>1, OwnIsUnheard, UnheardStays
<1>8. OwnNames'
      BY <1>1, <1>7, OwnNamesStay
<1> QED BY <1>4, <1>6, <1>8 DEF HostedInv

\* server_sync_changes: what it names as changed, what it names as gone, and what it
\* does not name are all told as the log has them.
LEMMA ChangesTell ==
  ASSUME HostedInv, NEW u \in User, NEW n \in Name
  PROVE  IF n \in ServerSyncChanges(mark[u]).changed THEN Tells(Len(history), n)
         ELSE Agrees(Len(history), IF n \in ServerSyncChanges(mark[u]).gone THEN Absent
                                   ELSE held[u][n].says, n)
<1> USE DEF HostedInv
<1>1. PICK since \in Nat : since = mark[u]
      BY DEF HostedType
<1>2. since <= Len(history) /\ Len(history) \in Nat
      BY <1>1 DEF MarksBehind, HostedType
<1>3. ASSUME NEW i \in Newest(since, n), \A j \in Newest(since, n) : j <= i
      PROVE  Last(i, n, Len(history))
      BY <1>1, <1>2, <1>3 DEF Newest, Last
<1>4. CASE n \in ServerSyncChanges(since).changed
  <2>1. PICK i \in Newest(since, n) : ~history[i].deleted /\ \A j \in Newest(since, n) : j <= i
        BY <1>4 DEF ServerSyncChanges
  <2> QED BY <1>1, <1>3, <1>4, <2>1 DEF Tells, Last
<1>5. CASE n \in ServerSyncChanges(since).gone
  <2>1. PICK i \in Newest(since, n) : history[i].deleted /\ \A j \in Newest(since, n) : j <= i
        BY <1>5 DEF ServerSyncChanges
  <2>2. Last(i, n, Len(history)) /\ i \in 1 .. Len(history)
        BY <1>3, <2>1 DEF Last
  <2>3. n \notin ServerSyncChanges(since).changed
        BY <1>2, <2>1 DEF ServerSyncChanges, Newest
  <2>4. Logged(n) => AtPath(n) = NoEvent
        BY <2>1, <2>2 DEF LogTrue
  <2> QED BY <1>1, <1>5, <2>3, <2>4 DEF Agrees, NoEvent
<1>6. CASE n \notin ServerSyncChanges(since).changed \cup ServerSyncChanges(since).gone
  <2>1. ASSUME Newest(since, n) # {} PROVE FALSE
    <3>1. PICK i \in Newest(since, n) : Last(i, n, Len(history))
          BY <2>1 DEF HasNewest
    <3>2. \A j \in Newest(since, n) : j <= i
          BY <1>2, <3>1 DEF Newest, Last
    <3> QED BY <1>6, <3>1, <3>2 DEF ServerSyncChanges
  <2>2. Logged(n) => held[u][n].says = AtPath(n).says
        BY <1>1, <2>1 DEF HeldAsLogged
  <2> QED BY <1>1, <1>6, <2>2 DEF Agrees
<1> QED BY <1>1, <1>4, <1>5, <1>6

\* While the row, the log and what is under way stay as they are, so does the truth.
LEMMA AgreesStays ==
  ASSUME UNCHANGED <<hosted, history, untold>>, NEW s, NEW x, NEW n \in Name,
         Unlogged(n)' <=> Unlogged(n)
  PROVE  Agrees(s, x, n)' <=> Agrees(s, x, n)
BY DEF Agrees, Logged, Newest, AtPath

LEMMA SyncCollectionHolds == ASSUME HostedInv, NEW u \in User, SyncCollection(u) PROVE HostedInv'
<1>1. /\ UNCHANGED <<hosted, history, commit, held, mark, named, untold, lastRow, editing>>
      /\ serving[u] = NoServing
      BY DEF SyncCollection, Begins
<1>2. held[u] \in [Name -> Held] /\ NotHeld \in Held /\ Len(history) \in Nat
      BY DEF HostedInv, HostedType, Held, NotHeld, Said
<1>3. PICK told \in [Name -> Held] :
         told = [n \in Name |-> IF n \in ServerSyncChanges(mark[u]).gone THEN NotHeld ELSE held[u][n]]
      BY <1>2
<1>4. PICK left \in SUBSET Name : left = ServerSyncChanges(mark[u]).changed
      BY DEF ServerSyncChanges
<1>5. PICK r \in Reporting :
         r = [op |-> "report", left |-> left, token |-> Len(history), told |-> told]
      BY <1>2 DEF Reporting
<1>6. r.op = "report" /\ r.left = left /\ r.token = Len(history) /\ r.told = told
      BY <1>5
<1>7. serving' = [serving EXCEPT ![u] = r]
      BY <1>3, <1>4, <1>5 DEF SyncCollection, Begins
<1>8. /\ serving'[u] = r /\ serving[u].op \notin {"put", "delete"}
      /\ \A v \in User \ {u} : serving'[v] = serving[v]
      BY <1>1, <1>7 DEF HostedInv, HostedType, NoServing
<1>9. HostedType'
      BY <1>1, <1>7 DEF HostedInv, HostedType
<1>10. Carried
      BY <1>1, <1>6, <1>8, Reads
<1>11. ASSUME NEW n \in Name
       PROVE  IF n \in r.left THEN Tells(r.token, n)' ELSE Agrees(r.token, r.told[n].says, n)'
  <2>1. IF n \in r.left THEN Tells(r.token, n) ELSE Agrees(r.token, r.told[n].says, n)
        BY <1>3, <1>4, <1>6, ChangesTell DEF NotHeld
  <2>2. Unlogged(n)' <=> Unlogged(n)
        BY <1>1, <1>6, <1>8 DEF Unlogged
  <2>3. Tells(r.token, n)' <=> Tells(r.token, n)
        BY <1>1 DEF Tells, Last
  <2> QED BY <1>1, <2>1, <2>2, <2>3, AgreesStays
<1>12. MarksBehind' /\ HasNewest' /\ LogTrue' /\ ReportsTrue' /\ HeldAsLogged'
  <2>1. ReportTrue(u)'
        BY <1>8, <1>11 DEF ReportTrue
  <2>2. ReportsAreTrue
        BY <1>1, <1>2, <1>6, <1>8, <2>1 DEF ReportsAreTrue
  <2>3. MarksAreBehind /\ HeldIsTrue
        BY <1>1 DEF HostedInv, MarksBehind, MarksAreBehind, HeldIsTrue
  <2> QED BY <1>9, <1>10, <2>2, <2>3, ClaimsStay
<1>13. ASSUME NEW k \in Name, Own(k)
       PROVE  Unheard(k)'
  <2>1. k \notin left
        BY <1>4, <1>13, OwnIsUnheard DEF ServerSyncChanges, Newest, HostedInv, HostedType
  <2>2. told[k] = NotHeld
        BY <1>3, <1>13, OwnIsUnheard
  <2> QED BY <1>1, <1>6, <1>8, <1>13, <2>1, <2>2, OwnIsUnheard, UnheardStays DEF WritesTo
<1>14. OwnNames'
      BY <1>1, <1>13, OwnNamesStay
<1> QED BY <1>9, <1>12, <1>14 DEF HostedInv

\* The row is read when its turn comes: it may be newer than the token, never older.
LEMMA LoadMemberHolds ==
  ASSUME HostedInv, NEW u \in User, NEW m \in Name, LoadMember(u, m)
  PROVE  HostedInv'
<1>1. UNCHANGED <<hosted, history, commit, held, mark, named, untold, lastRow, editing>> /\ Reports(u)
      BY DEF LoadMember, Reports
<1>2. PICK r \in Reporting : r = serving[u] /\ m \in r.left
      BY <1>1, ServingAt DEF HostedInv, LoadMember, Reports
<1>3. AtPath(m) = NoEvent \/ AtPath(m) = hosted[m]
      BY DEF AtPath
<1>4. PICK told \in [Name -> Held] :
         told = [r.told EXCEPT ![m] = IF AtPath(m) = NoEvent THEN @ ELSE OfRow(hosted[m])]
  <2>1. OfRow(hosted[m]) \in Held
        BY DEF HostedInv, HostedType, Event, Rows, NoEvent, Said, Held, OfRow
  <2>2. r.told \in [Name -> Held]
        BY DEF Reporting
  <2> QED BY <2>1, <2>2
<1>5. PICK q \in Reporting :
          q = [op |-> "report", left |-> r.left \ {m}, token |-> r.token, told |-> told]
      BY <1>2 DEF Reporting
<1>6. q.op = "report" /\ q.left = r.left \ {m} /\ q.token = r.token /\ q.told = told
      BY <1>5
<1>7. serving' = [serving EXCEPT ![u] = q]
  <2>1. serving \in [User -> {NoServing} \cup Putting \cup Deleting \cup Reporting]
        BY DEF HostedInv, HostedType
  <2>2. serving' = [serving EXCEPT ![u].left = @ \ {m},
                         ![u].told[m] = IF AtPath(m) = NoEvent THEN @ ELSE OfRow(hosted[m])]
        BY DEF LoadMember
  <2>3. r = [op |-> "report", left |-> r.left, token |-> r.token, told |-> r.told]
        BY DEF Reporting
  <2>4. PICK p : p = [op |-> "report", left |-> r.left \ {m}, token |-> r.token, told |-> r.told]
        OBVIOUS
  <2>5. [r EXCEPT !.left = @ \ {m}] = p
        BY <2>3, <2>4
  <2>6. p.told = r.told /\ [p EXCEPT !.told = told] = q
        BY <1>5, <2>4
  <2>7. [p EXCEPT !.told[m] = IF AtPath(m) = NoEvent THEN @ ELSE OfRow(hosted[m])]
          = [p EXCEPT !.told = told]
        BY <1>4, <2>6
  <2> QED BY <1>2, <2>1, <2>2, <2>5, <2>6, <2>7
<1>8. serving'[u] = q /\ \A v \in User \ {u} : serving'[v] = serving[v]
      BY <1>7 DEF HostedInv, HostedType
<1>9. HostedType'
      BY <1>1, <1>7 DEF HostedInv, HostedType
<1>10. Carried
      BY <1>1, <1>6, <1>8, Reads DEF Reports
<1>11. \A n \in Name : Unlogged(n)' <=> Unlogged(n)
      BY <1>1, <1>6, <1>8 DEF Unlogged, Reports
<1>12. ASSUME NEW n \in Name
       PROVE  IF n \in q.left THEN Tells(q.token, n)' ELSE Agrees(q.token, q.told[n].says, n)'
  <2>1. IF n \in r.left THEN Tells(r.token, n) ELSE Agrees(r.token, r.told[n].says, n)
        BY <1>1, <1>2 DEF HostedInv, ReportsTrue, ReportTrue
  <2>2. Tells(r.token, n)' <=> Tells(r.token, n)
        BY <1>1 DEF Tells, Last
  <2>3. r.told \in [Name -> Held] /\ (n # m => told[n] = r.told[n])
        BY <1>4 DEF Reporting
  <2>4. CASE n # m
        BY <1>1, <1>2, <1>6, <1>11, <2>1, <2>2, <2>3, <2>4, AgreesStays
  <2>5. CASE n = m
    <3>1. q.told[m] = IF AtPath(m) = NoEvent THEN r.told[m] ELSE OfRow(hosted[m])
          BY <1>4, <1>6, <2>3
    <3>2. CASE AtPath(m) # NoEvent
      <4>1. q.told[m].says = AtPath(m).says
            BY <1>3, <3>1, <3>2 DEF OfRow
      <4>2. Agrees(q.token, q.told[m].says, m)
            BY <4>1 DEF Agrees
      <4> QED BY <1>1, <1>6, <1>11, <2>5, <4>2, AgreesStays
    <3>3. CASE AtPath(m) = NoEvent
      <4>1. PICK i \in 1 .. r.token : Last(i, m, r.token) /\ ~history[i].deleted
            BY <1>2, <2>1, <2>5 DEF Tells
      <4>2. r.token \in Nat /\ r.token <= Len(history) /\ Len(history) \in Nat
            BY <1>1, <1>2 DEF Reporting, HostedInv, MarksBehind, HostedType
      <4>3. ASSUME Newest(r.token, m) = {}
            PROVE  Last(i, m, Len(history)) /\ i \in 1 .. Len(history)
            BY <4>1, <4>2, <4>3 DEF Last, Newest
      <4>4. ~(Logged(m) /\ Newest(r.token, m) = {})
            BY <3>3, <4>1, <4>3 DEF HostedInv, LogTrue
      <4>5. Agrees(q.token, q.told[m].says, m)
            BY <1>6, <4>4 DEF Agrees
      <4> QED BY <1>1, <1>6, <1>11, <2>5, <4>5, AgreesStays
    <3> QED BY <3>2, <3>3
  <2> QED BY <2>4, <2>5
<1>13. MarksBehind' /\ HasNewest' /\ LogTrue' /\ ReportsTrue' /\ HeldAsLogged'
  <2>1. ReportTrue(u)'
        BY <1>8, <1>12 DEF ReportTrue
  <2>2. q.token <= Len(history')
        BY <1>1, <1>2, <1>6 DEF HostedInv, MarksBehind
  <2>3. ReportsAreTrue
        BY <1>8, <2>1, <2>2 DEF ReportsAreTrue
  <2>4. MarksAreBehind /\ HeldIsTrue
        BY <1>1 DEF HostedInv, MarksBehind, MarksAreBehind, HeldIsTrue
  <2> QED BY <1>9, <1>10, <2>3, <2>4, ClaimsStay
<1>14. ASSUME NEW k \in Name, Own(k)
       PROVE  Unheard(k)'
  <2>1. k \notin r.left /\ r.told[k] = NotHeld
        BY <1>1, <1>2, <1>14, OwnIsUnheard DEF Unheard
  <2>2. k # m /\ r.told \in [Name -> Held]
        BY <1>2, <2>1 DEF Reporting
  <2>3. k \notin q.left /\ q.told[k] = NotHeld
        BY <1>4, <1>6, <2>1, <2>2
  <2> QED BY <1>1, <1>6, <1>8, <1>14, <2>3, OwnIsUnheard, UnheardStays DEF WritesTo
<1>15. OwnNames'
      BY <1>1, <1>14, OwnNamesStay
<1> QED BY <1>9, <1>13, <1>15 DEF HostedInv

\* The client is left with the answer and its token.
LEMMA ReportDoneHolds == ASSUME HostedInv, NEW u \in User, ReportDone(u) PROVE HostedInv'
<1>1. UNCHANGED <<hosted, history, commit, named, untold, lastRow, editing>> /\ Reports(u)
      BY DEF ReportDone, Reports
<1>2. PICK r \in Reporting : r = serving[u] /\ r.left = {}
      BY <1>1, ServingAt DEF HostedInv, ReportDone, Reports
<1>3. /\ serving' = [serving EXCEPT ![u] = NoServing]
      /\ held' = [held EXCEPT ![u] = r.told] /\ mark' = [mark EXCEPT ![u] = r.token]
      BY <1>2 DEF ReportDone, Ends, ReportToken
<1>4. r.told \in [Name -> Held] /\ r.token \in Nat
      BY DEF Reporting
<1>5. HostedType'
      BY <1>1, <1>3, <1>4 DEF HostedInv, HostedType
<1>6. /\ serving'[u] = NoServing /\ held'[u] = r.told /\ mark'[u] = r.token
      /\ \A v \in User \ {u} : serving'[v] = serving[v] /\ held'[v] = held[v] /\ mark'[v] = mark[v]
      BY <1>3 DEF HostedInv, HostedType
<1>7. Carried
      BY <1>1, <1>6, Reads DEF Reports, NoServing
<1>8. \A n \in Name : /\ Agrees(r.token, r.told[n].says, n)
                      /\ r.token \in 0 .. Len(history) /\ r.told[n].says \in Said
                      /\ Unheard(n) => r.told[n].says = Absent
      BY <1>1, <1>2, <1>4, <1>7
      DEF HostedInv, ReportsTrue, ReportTrue, MarksBehind, Unheard, NotHeld, Held, Carried
<1>9. MarksBehind' /\ HasNewest' /\ LogTrue' /\ ReportsTrue' /\ HeldAsLogged'
  <2>1. ReportsAreTrue
        BY <1>6 DEF ReportsAreTrue, Reports, NoServing
  <2>2. MarksAreBehind
        BY <1>1, <1>2, <1>6 DEF HostedInv, MarksBehind, MarksAreBehind
  <2>3. ASSUME NEW n \in Name
        PROVE  Agrees(r.token, r.told[n].says, n)'
        BY <1>7, <1>8 DEF Carried
  <2>4. ASSUME NEW v \in User, NEW n \in Name, NEW s \in Nat, NEW x \in Said,
               s = mark'[v], x = held'[v][n].says
        PROVE  (mark'[v] = mark[v] /\ held'[v][n] = held[v][n]) \/ Agrees(s, x, n)'
    <3>1. CASE v = u
          BY <1>6, <2>3, <2>4, <3>1
    <3>2. CASE v # u
          BY <1>6, <3>2
    <3> QED BY <3>1, <3>2
  <2>5. HeldIsTrue
        BY <2>4 DEF HeldIsTrue
  <2> QED BY <1>5, <1>7, <2>1, <2>2, <2>5, ClaimsStay
<1>10. ASSUME NEW k \in Name, Own(k)
       PROVE  Unheard(k)'
  <2>1. r.told[k] = NotHeld
        BY <1>1, <1>2, <1>10, OwnIsUnheard DEF Unheard
  <2>2. ~WritesTo(u, k)' /\ ~Reports(u)'
        BY <1>6 DEF WritesTo, Reports, NoServing
  <2> QED BY <1>1, <1>6, <1>10, <2>1, <2>2, OwnIsUnheard, UnheardStays
<1>11. OwnNames'
      BY <1>1, <1>10, OwnNamesStay
<1> QED BY <1>5, <1>9, <1>11 DEF HostedInv

(* Requests that write. *)

\* The row is written: until the log is told, the name does not count as logged.
LEMMA StoreHolds ==
  ASSUME HostedInv, NEW u \in User, StorePut(u) \/ StoreDelete(u)
  PROVE  HostedInv'
<1>1. /\ UNCHANGED <<history, editing, commit, held, mark, named, untold>>
      /\ serving[u].op \in {"put", "delete"} /\ serving[u].at = "store"
      /\ serving' = [serving EXCEPT ![u].at = "log"]
      BY DEF StorePut, StoreDelete
<1>2. PICK r \in Putting \cup Deleting : r = serving[u]
      BY <1>1, ServingAt DEF HostedInv
<1>3. PICK m \in Name : m = r.name
      BY DEF Putting, Deleting
<1>4. PICK q \in Putting \cup Deleting : q = [r EXCEPT !.at = "log"]
      BY DEF Putting, Deleting
<1>5. q.op \in {"put", "delete"} /\ q.name = m /\ q.at = "log" /\ r.op \in {"put", "delete"}
      BY <1>3, <1>4 DEF Putting, Deleting
<1>6. /\ serving' = [serving EXCEPT ![u] = q] /\ serving'[u] = q
      /\ \A v \in User \ {u} : serving'[v] = serving[v]
      BY <1>1, <1>2, <1>4 DEF HostedInv, HostedType
<1>7. ~Own(m)
      BY <1>2, <1>3, <1>5, OwnIsUnheard DEF WritesTo
<1>8. PICK row \in Event : /\ hosted' = [hosted EXCEPT ![m] = row] /\ lastRow' \in Nat
                           /\ row # NoEvent => row.etag # Absent
  <2>1. hosted[m] \in Event /\ ~Placeholder(m) /\ lastRow \in Nat
        BY <1>7 DEF HostedInv, HostedType, Own
  <2>2. CASE StorePut(u)
    <3>1. serving[u].says \in Wording
          BY <2>2, ServingAt DEF StorePut, Putting, HostedInv
    <3>2. AtPath(m) # NoEvent => hosted[m] \in Rows
          BY <2>1 DEF AtPath, Event, NoEvent
    <3>3. PICK new \in Nat \ {0} : new = lastRow + 1
          BY <2>1
    <3>4. PICK k \in Nat \ {0} : k = IF AtPath(m) = NoEvent THEN lastRow + 1 ELSE hosted[m].id
          BY <3>2, <3>3 DEF Rows
    <3>5. PICK status \in {"delete", "synced"} :
             status = IF hosted[m].status = "delete" THEN "delete" ELSE "synced"
          OBVIOUS
    <3>6. PICK put \in Rows :
             put = [says |-> serving[u].says, etag |-> serving[u].says, status |-> status, id |-> k]
          BY <3>1 DEF Rows, Said
    <3>7. put = StoredAs(m, serving[u].says) /\ put.etag = serving[u].says /\ put.id \in Nat
          BY <3>4, <3>5, <3>6 DEF StoredAs
    <3>8. hosted' = [hosted EXCEPT ![m] = put] /\ lastRow' \in {put.id, lastRow}
          BY <1>2, <1>3, <2>2, <3>7 DEF StorePut
    <3> QED BY <2>1, <3>1, <3>7, <3>8, HostedAssumption DEF Event
  <2>3. CASE StoreDelete(u)
    <3>1. PICK rest \in Event : rest = IF AtPath(m) = NoEvent THEN hosted[m] ELSE NoEvent
          BY <2>1 DEF Event
    <3>2. hosted' = [hosted EXCEPT ![m] = rest] /\ lastRow' = lastRow
          BY <1>2, <1>3, <2>3, <3>1 DEF StoreDelete
    <3> QED BY <2>1, <3>1, <3>2 DEF Placeholder
  <2> QED BY <2>2, <2>3
<1>9. hosted'[m] = row /\ \A n \in Name \ {m} : hosted'[n] = hosted[n]
      BY <1>8 DEF HostedInv, HostedType
<1>10. HostedType'
      BY <1>1, <1>6, <1>8 DEF HostedInv, HostedType
<1>11. ~Logged(m)'
      BY <1>5, <1>6 DEF Logged, Unlogged
<1>12. \A n \in Name \ {m} : Steady(n)
  <2>1. \A n \in Name \ {m} : Unlogged(n)' <=> Unlogged(n)
        BY <1>1, <1>2, <1>3, <1>5, <1>6 DEF Unlogged
  <2> QED BY <1>1, <1>9, <2>1 DEF Steady, Logged, AtPath
<1>13. Carried
       BY <1>1, <1>11, <1>12, NoEntry DEF Steady
<1>14. MarksBehind' /\ HasNewest' /\ LogTrue' /\ ReportsTrue' /\ HeldAsLogged'
  <2>1. ReportsAreTrue
        BY <1>5, <1>6 DEF ReportsAreTrue, Reports
  <2>2. MarksAreBehind /\ HeldIsTrue
        BY <1>1 DEF HostedInv, MarksBehind, MarksAreBehind, HeldIsTrue
  <2> QED BY <1>10, <1>13, <2>1, <2>2, ClaimsStay
<1>15. ASSUME NEW k \in Name, Own(k)
       PROVE  Unheard(k)'
  <2>1. k # m
        BY <1>7, <1>15
  <2>2. ~WritesTo(u, k)' /\ ~Reports(u)'
        BY <1>5, <1>6, <2>1 DEF WritesTo, Reports
  <2> QED BY <1>1, <1>6, <1>15, <2>2, OwnIsUnheard, UnheardStays
<1>16. OwnNames'
  <2>1. ASSUME NEW n \in Name
        PROVE  (Unmade(n) /\ Uncommitted(n))'
    <3>1. Unmade(n) /\ Uncommitted(n)
          BY DEF HostedInv, OwnNames
    <3>2. CASE n = m
          BY <1>1, <1>7, <1>8, <1>9, <3>2 DEF Unmade, Uncommitted, Own, Placeholder
    <3>3. CASE n # m
          BY <1>1, <1>9, <1>15, <3>1, <3>3 DEF Unmade, Uncommitted, Own, Commits, Placeholder
    <3> QED BY <3>2, <3>3
  <2> QED BY <2>1 DEF OwnNames
<1> QED BY <1>10, <1>14, <1>16 DEF HostedInv

\* The log is told, and the client perhaps.
LEMMA LogHolds ==
  ASSUME HostedInv, NEW u \in User, LogPut(u) \/ LogDelete(u)
  PROVE  HostedInv'
<1>1. /\ UNCHANGED <<hosted, commit, mark, named, lastRow, editing>>
      /\ serving[u].op \in {"put", "delete"} /\ serving[u].at = "log"
      /\ serving' = [serving EXCEPT ![u] = NoServing]
      BY DEF LogPut, LogDelete, Ends
<1>2. PICK r \in Putting \cup Deleting : r = serving[u]
      BY <1>1, ServingAt DEF HostedInv
<1>3. PICK m \in Name : m = r.name
      BY DEF Putting, Deleting
<1>4. PICK gone \in BOOLEAN : AppendSyncLog(m, gone)
      BY <1>2, <1>3 DEF LogPut, LogDelete
<1>5. PICK now \in Held : held' \in {held, [held EXCEPT ![u][m] = now]}
  <2>1. CASE LogPut(u)
    <3>1. serving[u].says \in Wording
          BY <2>1, ServingAt DEF LogPut, Putting, HostedInv
    <3>2. PICK now \in Held : now = [says |-> serving[u].says, etag |-> serving[u].says]
          BY <3>1 DEF Held, Said
    <3> QED BY <1>2, <1>3, <2>1, <3>2 DEF LogPut
  <2>2. CASE LogDelete(u)
    <3>1. NotHeld \in Held
          BY DEF NotHeld, Held, Said
    <3> QED BY <1>2, <1>3, <2>2, <3>1 DEF LogDelete
  <2> QED BY <2>1, <2>2
<1>6. held \in [User -> [Name -> Held]] /\ held' \in [User -> [Name -> Held]]
  <2>1. held \in [User -> [Name -> Held]]
        BY DEF HostedInv, HostedType
  <2>2. PICK all \in [Name -> Held] : all = [held[u] EXCEPT ![m] = now]
        BY <2>1
  <2>3. CASE held' = [held EXCEPT ![u][m] = now]
        BY <2>1, <2>2, <2>3
  <2> QED BY <1>5, <2>1, <2>3
<1>7. \A v \in User, n \in Name : v # u \/ n # m => held'[v][n] = held[v][n]
      BY <1>5, <1>6
<1>8. serving'[u] = NoServing /\ \A v \in User \ {u} : serving'[v] = serving[v]
      BY <1>1 DEF HostedInv, HostedType
<1>9. \A n \in Name \ {m} : Steady(n)
  <2>1. \A n \in Name \ {m} : Unlogged(n)' <=> Unlogged(n)
        BY <1>1, <1>2, <1>3, <1>8 DEF Unlogged, NoServing
  <2>2. \A n \in Name \ {m} : n \in untold' <=> n \in untold
        BY <1>4 DEF AppendSyncLog
  <2> QED BY <1>1, <2>1, <2>2 DEF Steady, Logged, AtPath
<1>10. /\ Carried /\ history' \in Seq([name: Name, deleted: BOOLEAN])
       /\ \A s \in 0 .. Len(history) : Newest(s, m)' # {}
       /\ \A n \in Name \ {m} : (\A i \in 1 .. Len(history) : history[i].name # n)
             => \A i \in 1 .. Len(history') : history'[i].name # n
       BY <1>1, <1>4, <1>9, OneEntry
<1>11. HostedType'
       BY <1>1, <1>6, <1>10 DEF HostedInv, HostedType
<1>12. MarksBehind' /\ HasNewest' /\ LogTrue' /\ ReportsTrue' /\ HeldAsLogged'
  <2>1. ReportsAreTrue
        BY <1>8 DEF ReportsAreTrue, Reports, NoServing
  <2>2. \A v \in User : mark[v] \in 0 .. Len(history)
        BY <1>10 DEF HostedInv, HostedType, MarksBehind, Carried
  <2>3. MarksAreBehind
        BY <1>1, <1>10, <2>2 DEF MarksAreBehind, Carried
  <2>4. ASSUME NEW s \in 0 .. Len(history), NEW x
        PROVE  Agrees(s, x, m)'
        BY <1>10 DEF Agrees
  <2>5. HeldIsTrue
        BY <1>1, <1>7, <2>2, <2>4 DEF HeldIsTrue
  <2> QED BY <1>11, <1>10, <2>1, <2>3, <2>5, ClaimsStay
<1>13. ~Own(m)
       BY <1>1, <1>2, <1>3, OwnIsUnheard DEF WritesTo
<1>14. ASSUME NEW k \in Name, Own(k)
       PROVE  Unheard(k)'
  <2>1. k # m
        BY <1>13, <1>14
  <2>2. ~WritesTo(u, k)' /\ ~Reports(u)'
        BY <1>8 DEF WritesTo, Reports, NoServing
  <2> QED BY <1>7, <1>8, <1>10, <1>14, <2>1, <2>2, OwnIsUnheard, UnheardStays
<1>15. OwnNames'
       BY <1>1, <1>14, OwnNamesStay
<1> QED BY <1>11, <1>12, <1>15 DEF HostedInv

(* The writes of jacal. *)

(* jacal writes.                                                            *)

\* A write of jacal: nothing; a row that is there gets a pending status; a name of
\* jacal's gets its row; or a row goes, and nobody is told.
JacalWrites(m, row) ==
  \/ row = hosted[m] /\ UNCHANGED <<named, untold>>
  \/ /\ row \in Rows /\ row.status # "synced" /\ hosted[m] # NoEvent
     /\ row.etag = hosted[m].etag /\ row.id = hosted[m].id /\ UNCHANGED <<named, untold>>
  \/ /\ row \in Rows /\ row.status = "create" /\ row.etag = Absent
     /\ m \in OwnName \ named /\ named' = named \cup {m} /\ untold' = untold
  \/ /\ row = NoEvent /\ hosted[m] # NoEvent /\ named' = named
     /\ untold' = IF AtPath(m) # NoEvent THEN untold \cup {m} ELSE untold

LEMMA LocalHolds ==
  ASSUME HostedInv, NEW m \in Name, NEW row \in Event, hosted' = [hosted EXCEPT ![m] = row],
         UNCHANGED <<history, serving, commit, held, mark>>, JacalWrites(m, row),
         lastRow' \in Nat, editing' \in {NoEdit} \cup Editing
  PROVE  HostedInv'
<1>1. hosted'[m] = row /\ \A n \in Name \ {m} : hosted'[n] = hosted[n]
      BY DEF HostedInv, HostedType
<1>2. named' \in {named, named \cup {m}} /\ untold' \in {untold, untold \cup {m}}
      BY DEF JacalWrites
<1>3. HostedType'
      BY <1>2 DEF HostedInv, HostedType
<1>4. \A n \in Name : Steady(n)
  <2>1. \A n \in Name : Unlogged(n)' <=> Unlogged(n)
        BY DEF Unlogged
  <2>2. \A n \in Name \ {m} : Steady(n)
        BY <1>1, <1>2, <2>1 DEF Steady, Logged, AtPath
  <2>3. CASE row = hosted[m] /\ UNCHANGED <<named, untold>>
        BY <1>1, <2>1, <2>2, <2>3 DEF Steady, Logged, AtPath
  <2>4. CASE row \in Rows /\ row.status # "synced"
    <3>1. row.status \in {"create", "update", "delete"}
          BY <2>4 DEF Rows
    <3>2. ~Logged(m)'
          BY <1>1, <3>1 DEF Logged, Absent
    <3> QED BY <2>2, <3>2 DEF Steady
  <2>5. CASE /\ row = NoEvent /\ hosted[m] # NoEvent
             /\ untold' = IF AtPath(m) # NoEvent THEN untold \cup {m} ELSE untold
    <3>1. CASE AtPath(m) # NoEvent
      <4>1. ~Logged(m)'
            BY <2>5, <3>1 DEF Logged
      <4> QED BY <2>2, <4>1 DEF Steady
    <3>2. CASE AtPath(m) = NoEvent
      <4>1. Own(m) /\ AtPath(m)' = NoEvent
            BY <1>1, <2>5, <3>2 DEF Own, Placeholder, AtPath
      <4> QED BY <2>2, <4>1, OwnIsUnheard DEF Steady
    <3> QED BY <3>1, <3>2
  <2> QED BY <2>3, <2>4, <2>5 DEF JacalWrites
<1>5. Carried
      BY <1>4, NoEntry
<1>6. MarksBehind' /\ HasNewest' /\ LogTrue' /\ ReportsTrue' /\ HeldAsLogged'
  <2>1. ReportsAreTrue /\ MarksAreBehind /\ HeldIsTrue
        BY DEF ReportsAreTrue, Reports, HostedInv, MarksBehind, MarksAreBehind, HeldIsTrue
  <2> QED BY <1>3, <1>5, <2>1, ClaimsStay
<1>7. \A n \in Name : (Unheard(n)' <=> Unheard(n)) /\ (Commits(n)' <=> Commits(n))
      BY DEF Unheard, Commits, WritesTo, Reports
<1>8. ASSUME NEW n \in Name
      PROVE  (Unmade(n) /\ Uncommitted(n))'
  <2>1. Unmade(n) /\ Uncommitted(n)
        BY DEF HostedInv, OwnNames
  <2>2. CASE n # m
    <3>1. n \in named' <=> n \in named
          BY <1>2, <2>2
    <3> QED BY <1>1, <1>7, <2>1, <2>2, <3>1 DEF Unmade, Uncommitted, Placeholder
  <2>3. CASE n = m /\ row = hosted[m] /\ UNCHANGED <<named, untold>>
        BY <1>1, <1>7, <2>1, <2>3 DEF Unmade, Uncommitted, Placeholder
  <2>4. CASE /\ n = m /\ row \in Rows /\ row.status # "synced" /\ hosted[m] # NoEvent
             /\ row.etag = hosted[m].etag /\ row.id = hosted[m].id /\ UNCHANGED <<named, untold>>
        BY <1>1, <1>7, <2>1, <2>4 DEF Unmade, Uncommitted, Placeholder
  <2>5. CASE /\ n = m /\ row \in Rows /\ row.etag = Absent
             /\ m \in OwnName \ named /\ named' = named \cup {m}
        BY <1>1, <1>7, <2>1, <2>5 DEF Unmade, Uncommitted, Placeholder
  <2>6. CASE n = m /\ row = NoEvent /\ hosted[m] # NoEvent /\ named' = named
        BY <1>1, <1>7, <2>1, <2>6 DEF Unmade, Uncommitted, Placeholder
  <2> QED BY <2>2, <2>3, <2>4, <2>5, <2>6 DEF JacalWrites
<1>9. OwnNames'
      BY <1>8 DEF OwnNames
<1> QED BY <1>3, <1>6, <1>9 DEF HostedInv

LEMMA LocalCreateHolds ==
  ASSUME HostedInv, NEW m \in Name, NEW t \in Wording, LocalCreate(m, t)
  PROVE  HostedInv'
<1>1. lastRow \in Nat /\ editing' = editing /\ editing \in {NoEdit} \cup Editing
      BY DEF LocalCreate, HostedInv, HostedType
<1>6. PICK k \in Nat \ {0} : k = lastRow + 1
      BY <1>1
<1>2. PICK row \in Rows : row = [says |-> t, etag |-> Absent, status |-> "create", id |-> k]
      BY <1>6 DEF Rows, Said
<1>3. row.status = "create" /\ row.etag = Absent
      BY <1>2
<1>4. JacalWrites(m, row)
      BY <1>3 DEF LocalCreate, JacalWrites
<1>5. /\ hosted' = [hosted EXCEPT ![m] = row] /\ lastRow' \in Nat /\ row \in Event
      /\ UNCHANGED <<history, serving, commit, held, mark>>
      BY <1>1, <1>2, <1>6 DEF LocalCreate, Event
<1> QED BY <1>1, <1>4, <1>5, LocalHolds

LEMMA LocalReadHolds ==
  ASSUME HostedInv, NEW m \in Name, NEW op \in {"edit", "delete"}, LocalRead(m, op)
  PROVE  HostedInv'
<1>1. hosted[m] \in Rows /\ hosted \in [Name -> Event] /\ lastRow \in Nat
      BY DEF LocalRead, HostedInv, HostedType, Event
<1>2. editing' \in Editing
      BY <1>1 DEF LocalRead, Editing, Rows
<1>3. /\ UNCHANGED <<hosted, lastRow, history, serving, commit, held, mark, named, untold>>
      /\ hosted = [hosted EXCEPT ![m] = hosted[m]]
      BY <1>1 DEF LocalRead
<1>4. JacalWrites(m, hosted[m])
      BY <1>3 DEF JacalWrites
<1> QED BY <1>1, <1>2, <1>3, <1>4, LocalHolds DEF Event

\* What jacal writes goes to the row it has read, or nowhere.
LEMMA LocalEditHolds ==
  ASSUME HostedInv, NEW t \in Wording, LocalEdit(t)
  PROVE  HostedInv'
<1>1. editing \in Editing /\ hosted \in [Name -> Event] /\ lastRow' \in Nat
      BY DEF LocalEdit, HostedInv, HostedType, NoEdit
<1>2. PICK m \in Name : m = editing.name /\ editing.id # 0
      BY <1>1 DEF Editing
<1>3. UNCHANGED <<history, serving, commit, held, mark, named, untold>> /\ editing' = NoEdit
      BY DEF LocalEdit
<1>4. CASE hosted[m].id # editing.id
  <2>1. hosted' = hosted /\ hosted = [hosted EXCEPT ![m] = hosted[m]]
        BY <1>1, <1>2, <1>4 DEF LocalEdit, Written
  <2>2. JacalWrites(m, hosted[m]) /\ hosted[m] \in Event
        BY <1>1, <1>3 DEF JacalWrites
  <2> QED BY <1>1, <1>3, <2>1, <2>2, LocalHolds
<1>5. CASE hosted[m].id = editing.id
  <2>1. hosted[m] \in Rows /\ hosted[m] # NoEvent
        BY <1>1, <1>2, <1>5 DEF Event, NoEvent
  <2>2. PICK row \in Rows :
           row = [hosted[m] EXCEPT !.says = t,
                                   !.status = IF editing.status = "create" THEN "create" ELSE "update"]
        BY <2>1 DEF Rows
  <2>3. row.status # "synced" /\ row.etag = hosted[m].etag /\ row.id = hosted[m].id
        BY <2>1, <2>2 DEF Rows
  <2>4. hosted' = [hosted EXCEPT ![m] = row]
        BY <1>2, <1>5, <2>2 DEF LocalEdit, Written
  <2>5. JacalWrites(m, row) /\ row \in Event
        BY <1>3, <2>1, <2>3 DEF JacalWrites, Event
  <2> QED BY <1>1, <1>3, <2>4, <2>5, LocalHolds
<1> QED BY <1>4, <1>5

LEMMA LocalDeleteHolds == ASSUME HostedInv, LocalDelete PROVE HostedInv'
<1>1. editing \in Editing /\ hosted \in [Name -> Event] /\ lastRow' \in Nat
      BY DEF LocalDelete, HostedInv, HostedType, NoEdit
<1>2. PICK m \in Name : m = editing.name /\ editing.id # 0
      BY <1>1 DEF Editing
<1>3. UNCHANGED <<history, serving, commit, held, mark, named>> /\ editing' = NoEdit
      BY DEF LocalDelete
<1>4. CASE hosted[m].id # editing.id
  <2>1. hosted' = hosted /\ hosted = [hosted EXCEPT ![m] = hosted[m]] /\ untold' = untold
        BY <1>1, <1>2, <1>4 DEF LocalDelete, Written
  <2>2. JacalWrites(m, hosted[m]) /\ hosted[m] \in Event
        BY <1>1, <1>3, <2>1 DEF JacalWrites
  <2> QED BY <1>1, <1>3, <2>1, <2>2, LocalHolds
<1>5. CASE hosted[m].id = editing.id /\ editing.status = "create"
  <2>1. hosted[m] # NoEvent
        BY <1>2, <1>5 DEF NoEvent
  <2>2. /\ hosted' = [hosted EXCEPT ![m] = NoEvent]
        /\ untold' = IF AtPath(m) # NoEvent THEN untold \cup {m} ELSE untold
        BY <1>2, <1>5 DEF LocalDelete, Written
  <2>3. JacalWrites(m, NoEvent) /\ NoEvent \in Event
        BY <1>3, <2>1, <2>2 DEF JacalWrites, Event
  <2> QED BY <1>1, <1>3, <2>2, <2>3, LocalHolds
<1>6. CASE hosted[m].id = editing.id /\ editing.status # "create"
  <2>1. hosted[m] \in Rows /\ hosted[m] # NoEvent
        BY <1>1, <1>2, <1>6 DEF Event, NoEvent
  <2>2. PICK row \in Rows : row = [hosted[m] EXCEPT !.status = "delete"]
        BY <2>1 DEF Rows
  <2>3. row.status # "synced" /\ row.etag = hosted[m].etag /\ row.id = hosted[m].id
        BY <2>1, <2>2 DEF Rows
  <2>4. hosted' = [hosted EXCEPT ![m] = row] /\ untold' = untold
        BY <1>2, <1>6, <2>2 DEF LocalDelete, Written
  <2>5. JacalWrites(m, row) /\ row \in Event
        BY <1>3, <2>1, <2>3, <2>4 DEF JacalWrites, Event
  <2> QED BY <1>1, <1>3, <2>4, <2>5, LocalHolds
<1> QED BY <1>4, <1>5, <1>6

(* The sync thread commits them. *)

LEMMA BeginCommitHolds == ASSUME HostedInv, NEW m \in Name, BeginCommit(m) PROVE HostedInv'
<1>1. /\ UNCHANGED <<hosted, history, serving, held, mark, named, untold, lastRow, editing>>
      /\ commit = NoCommit /\ hosted[m] # NoEvent
      BY DEF BeginCommit
<1>2. PICK k \in Committing : k = [name |-> m, row |-> hosted[m], at |-> "store"]
      BY <1>1 DEF HostedInv, HostedType, Committing, Event
<1>3. commit' = k /\ k.name = m /\ k.at = "store" /\ k.row = hosted[m]
      BY <1>2 DEF BeginCommit
<1>4. HostedType'
      BY <1>1, <1>3 DEF HostedInv, HostedType
<1>5. \A n \in Name : Steady(n)
  <2>1. \A n \in Name : Unlogged(n)' <=> Unlogged(n)
        BY <1>1, <1>3 DEF Unlogged
  <2> QED BY <1>1, <2>1 DEF Steady, Logged, AtPath
<1>6. Carried
      BY <1>1, <1>5, NoEntry
<1>7. MarksBehind' /\ HasNewest' /\ LogTrue' /\ ReportsTrue' /\ HeldAsLogged'
  <2>1. ReportsAreTrue /\ MarksAreBehind /\ HeldIsTrue
        BY <1>1 DEF ReportsAreTrue, Reports, HostedInv, MarksBehind, MarksAreBehind, HeldIsTrue
  <2> QED BY <1>4, <1>6, <2>1, ClaimsStay
<1>8. \A n \in Name : Unheard(n)' <=> Unheard(n)
      BY <1>1 DEF Unheard, WritesTo, Reports
<1>9. OwnNames'
      BY <1>1, <1>3, <1>8 DEF HostedInv, OwnNames, Unmade, Uncommitted, Commits, Placeholder
<1> QED BY <1>4, <1>7, <1>9 DEF HostedInv

LEMMA StoreCommitHolds == ASSUME HostedInv, StoreCommit PROVE HostedInv'
<1>1. /\ UNCHANGED <<history, serving, held, mark, named, untold, lastRow, editing>>
      /\ commit # NoCommit /\ commit' = [commit EXCEPT !.at = "log"]
      BY DEF StoreCommit
<1>2. PICK k \in Committing : k = commit
      BY <1>1 DEF HostedInv, HostedType
<1>3. PICK m \in Name : m = k.name
      BY DEF Committing
<1>4. commit' \in Committing /\ commit'.name = m /\ commit'.at = "log"
      BY <1>1, <1>2, <1>3 DEF Committing
<1>5. PICK row \in Event :
          /\ hosted' = [hosted EXCEPT ![m] = row]
          /\ (row = hosted[m] /\ hosted[m].id # k.row.id) \/ row = NoEvent \/ row.etag # Absent
  <2>1. hosted[m] \in Event /\ k.row \in Rows /\ k.row.id # 0 /\ k.row.says \in Wording
        BY DEF HostedInv, HostedType, Committing, Rows
  <2>2. CASE hosted[m].id # k.row.id
        BY <1>2, <1>3, <2>1, <2>2 DEF StoreCommit
  <2>3. CASE hosted[m].id = k.row.id /\ k.row.status = "delete"
        BY <1>2, <1>3, <2>3 DEF StoreCommit, Event
  <2>4. CASE hosted[m].id = k.row.id /\ k.row.status # "delete"
    <3>1. hosted[m] \in Rows
          BY <2>1, <2>4 DEF Event, NoEvent
    <3>2. PICK row \in Rows : row = [hosted[m] EXCEPT !.etag = k.row.says, !.status = "synced"]
          BY <2>1, <3>1 DEF Rows, Said
    <3>3. row.etag = k.row.says
          BY <3>1, <3>2 DEF Rows
    <3>4. hosted' = [hosted EXCEPT ![m] = row]
          BY <1>2, <1>3, <2>4, <3>2 DEF StoreCommit
    <3> QED BY <2>1, <3>3, <3>4, HostedAssumption DEF Event
  <2> QED BY <2>2, <2>3, <2>4
<1>6. hosted'[m] = row /\ \A n \in Name \ {m} : hosted'[n] = hosted[n]
      BY <1>5 DEF HostedInv, HostedType
<1>7. HostedType'
      BY <1>1, <1>4, <1>5 DEF HostedInv, HostedType
<1>8. commit' # NoCommit
      BY <1>4 DEF Committing, NoCommit
<1>9. \A n \in Name : Steady(n)
  <2>1. ~Logged(m)'
        BY <1>4, <1>8 DEF Logged, Unlogged
  <2>2. \A n \in Name \ {m} : Unlogged(n)' <=> Unlogged(n)
        BY <1>1, <1>2, <1>3, <1>4 DEF Unlogged
  <2> QED BY <1>1, <1>6, <2>1, <2>2 DEF Steady, Logged, AtPath
<1>10. Carried
       BY <1>1, <1>9, NoEntry
<1>11. MarksBehind' /\ HasNewest' /\ LogTrue' /\ ReportsTrue' /\ HeldAsLogged'
  <2>1. ReportsAreTrue /\ MarksAreBehind /\ HeldIsTrue
        BY <1>1 DEF ReportsAreTrue, Reports, HostedInv, MarksBehind, MarksAreBehind, HeldIsTrue
  <2> QED BY <1>7, <1>10, <2>1, ClaimsStay
<1>12. \A n \in Name : Unheard(n)' <=> Unheard(n)
       BY <1>1 DEF Unheard, WritesTo, Reports
<1>13. ASSUME NEW n \in Name
       PROVE  (Unmade(n) /\ Uncommitted(n))'
  <2>1. Unmade(n) /\ Uncommitted(n)
        BY DEF HostedInv, OwnNames
  <2>2. CASE n = m
        BY <1>1, <1>2, <1>3, <1>5, <1>6, <2>1, <2>2 DEF Unmade, Uncommitted, Commits, Placeholder
  <2>3. CASE n # m
        BY <1>1, <1>4, <1>6, <1>12, <2>1, <2>3 DEF Unmade, Uncommitted, Commits, Placeholder
  <2> QED BY <2>2, <2>3
<1>14. OwnNames'
       BY <1>13 DEF OwnNames
<1> QED BY <1>7, <1>11, <1>14 DEF HostedInv

LEMMA LogCommitHolds == ASSUME HostedInv, LogCommit PROVE HostedInv'
<1>1. /\ UNCHANGED <<hosted, serving, held, mark, named, lastRow, editing>>
      /\ commit # NoCommit /\ commit' = NoCommit /\ commit.at = "log"
      BY DEF LogCommit
<1>2. PICK k \in Committing : k = commit
      BY <1>1 DEF HostedInv, HostedType
<1>3. PICK m \in Name : m = k.name
      BY DEF Committing
<1>4. PICK gone \in BOOLEAN : AppendSyncLog(m, gone)
      BY <1>2, <1>3 DEF LogCommit
<1>5. \A n \in Name \ {m} : Steady(n)
  <2>1. \A n \in Name \ {m} : Unlogged(n)' <=> Unlogged(n)
        BY <1>1, <1>2, <1>3 DEF Unlogged
  <2>2. \A n \in Name \ {m} : n \in untold' <=> n \in untold
        BY <1>4 DEF AppendSyncLog
  <2> QED BY <1>1, <2>1, <2>2 DEF Steady, Logged, AtPath
<1>6. /\ Carried /\ history' \in Seq([name: Name, deleted: BOOLEAN])
      /\ \A n \in Name \ {m} : (\A i \in 1 .. Len(history) : history[i].name # n)
            => \A i \in 1 .. Len(history') : history'[i].name # n
      BY <1>1, <1>4, <1>5, OneEntry
<1>7. HostedType'
      BY <1>1, <1>6 DEF HostedInv, HostedType
<1>8. MarksBehind' /\ HasNewest' /\ LogTrue' /\ ReportsTrue' /\ HeldAsLogged'
  <2>1. \A u \in User : mark[u] \in Nat /\ mark[u] <= Len(history)
        BY DEF HostedInv, HostedType, MarksBehind
  <2>2. ReportsAreTrue /\ MarksAreBehind /\ HeldIsTrue
        BY <1>1, <1>6, <2>1 DEF ReportsAreTrue, Reports, MarksAreBehind, HeldIsTrue, Carried
  <2> QED BY <1>6, <1>7, <2>2, ClaimsStay
<1>9. ~Own(m)
      BY <1>1, <1>2, <1>3 DEF HostedInv, OwnNames, Own, Unmade, Uncommitted, Commits, Placeholder
<1>10. ASSUME NEW n \in Name, Own(n)
       PROVE  Unheard(n)'
       BY <1>1, <1>6, <1>9, <1>10, OwnIsUnheard, UnheardStays
<1>11. \A n \in Name : ~Commits(n)'
       BY <1>1 DEF Commits
<1>12. OwnNames'
       BY <1>1, <1>10, <1>11 DEF HostedInv, OwnNames, Own, Unmade, Uncommitted, Placeholder
<1> QED BY <1>7, <1>8, <1>12 DEF HostedInv

\* What was under way counts as untold.
LEMMA DiesHolds == ASSUME HostedInv, JamaildDies PROVE HostedInv'
<1>1. /\ UNCHANGED <<hosted, history, held, mark, named, lastRow, editing>>
      /\ commit' = NoCommit /\ serving' = [u \in User |-> NoServing]
      /\ untold' = untold \cup {n \in Name : Unlogged(n)}
      BY DEF JamaildDies
<1>2. HostedType'
      BY <1>1 DEF HostedInv, HostedType
<1>3. \A u \in User : ~Reports(u)' /\ \A n \in Name : ~WritesTo(u, n)'
      BY <1>1 DEF Reports, WritesTo, NoServing
<1>4. \A n \in Name : Steady(n)
      BY <1>1 DEF Steady, Logged, AtPath
<1>5. Carried
      BY <1>1, <1>4, NoEntry
<1>6. MarksBehind' /\ HasNewest' /\ LogTrue' /\ ReportsTrue' /\ HeldAsLogged'
  <2>1. ReportsAreTrue /\ MarksAreBehind /\ HeldIsTrue
        BY <1>1, <1>3 DEF ReportsAreTrue, HostedInv, MarksBehind, MarksAreBehind, HeldIsTrue
  <2> QED BY <1>2, <1>5, <2>1, ClaimsStay
<1>7. ASSUME NEW n \in Name, Own(n)
      PROVE  Unheard(n)'
      BY <1>1, <1>3, <1>7, OwnIsUnheard, UnheardStays
<1>8. \A n \in Name : ~Commits(n)'
      BY <1>1 DEF Commits
<1>9. OwnNames'
      BY <1>1, <1>7, <1>8 DEF HostedInv, OwnNames, Own, Unmade, Uncommitted, Placeholder
<1> QED BY <1>2, <1>6, <1>9 DEF HostedInv

LEMMA HostedIdle == ASSUME HostedInv, UNCHANGED hostedVars PROVE HostedInv'
<1>1. UNCHANGED <<hosted, history, serving, commit, held, mark, named, untold, lastRow, editing>>
      BY DEF hostedVars
<1>2. HostedType'
      BY <1>1 DEF HostedInv, HostedType
<1>3. \A n \in Name : Steady(n)
      BY <1>1 DEF Steady, Logged, Unlogged, AtPath
<1>4. Carried
      BY <1>1, <1>3, NoEntry
<1>5. MarksBehind' /\ HasNewest' /\ LogTrue' /\ ReportsTrue' /\ HeldAsLogged'
  <2>1. ReportsAreTrue /\ MarksAreBehind /\ HeldIsTrue
        BY <1>1 DEF ReportsAreTrue, Reports, HostedInv, MarksBehind, MarksAreBehind, HeldIsTrue
  <2> QED BY <1>2, <1>4, <2>1, ClaimsStay
<1>6. OwnNames'
      BY <1>1 DEF HostedInv, OwnNames, Unmade, Uncommitted, Unheard, Commits, WritesTo, Reports, Placeholder
<1> QED BY <1>2, <1>5, <1>6 DEF HostedInv

LEMMA HostedStep == ASSUME HostedInv, [HostedNext]_hostedVars PROVE HostedInv'
<1>1. CASE UNCHANGED hostedVars
      BY <1>1, HostedIdle
<1>2. CASE HostedNext
  <2>1. ASSUME NEW u \in User, StorePut(u) \/ LogPut(u) \/ StoreDelete(u) \/ LogDelete(u)
        PROVE  HostedInv'
        BY <2>1, StoreHolds, LogHolds
  <2>2. ASSUME NEW u \in User, SyncCollection(u) \/ ReportDone(u) \/ ServerListEvents(u)
        PROVE  HostedInv'
        BY <2>2, SyncCollectionHolds, ReportDoneHolds, LooksHolds
  <2>3. ASSUME NEW u \in User, NEW n \in Name, LoadMember(u, n) \/ GetEvent(u, n)
        PROVE  HostedInv'
        BY <2>3, LoadMemberHolds, LooksHolds
  <2>4. ASSUME NEW u \in User, NEW n \in Name, NEW pre \in {"none", "match", "absent"},
               DeleteEvent(u, n, pre) \/ \E t \in Wording : PutEvent(u, n, t, pre)
        PROVE  HostedInv'
        BY <2>4, BeginsHolds
  <2>5. ASSUME NEW n \in Name,
               LocalRead(n, "edit") \/ LocalRead(n, "delete") \/ \E t \in Wording : LocalCreate(n, t)
        PROVE  HostedInv'
        BY <2>5, LocalReadHolds, LocalCreateHolds
  <2>6. CASE LocalDelete \/ \E t \in Wording : LocalEdit(t)
        BY <2>6, LocalDeleteHolds, LocalEditHolds
  <2> QED BY <1>2, <2>1, <2>2, <2>3, <2>4, <2>5, <2>6, BeginCommitHolds, StoreCommitHolds,
             LogCommitHolds, DiesHolds DEF HostedNext
<1> QED BY <1>1, <1>2

\* Whatever the requests, the writes of jacal and the crashes between their
\* statements: a client whose token covers the newest entry of a logged name has
\* what the server has of it (server_sync_changes, report_calendar).
THEOREM HeldIsAsLogged == HostedInit /\ [][HostedNext]_hostedVars => []HeldAsLogged
<1>1. HostedInit => HostedInv
      BY HostedInitHolds
<1>2. HostedInv /\ [HostedNext]_hostedVars => HostedInv'
      BY HostedStep
<1>3. HostedInv => HeldAsLogged
      BY DEF HostedInv
<1> QED BY <1>1, <1>2, <1>3, PTL

----------------------------------------------------------------------------
(***************************************************************************)
(* What a thread that syncs from a collection may rely on (SyncContract):  *)
(* whatever the collection is kept in, and however many members, readers   *)
(* and documents there are, a reader has every member as the collection    *)
(* has it, up to the change it was told of.                                *)
(***************************************************************************)

ContractType ==
  /\ docs \in [Member -> Document \cup {Nothing}]
  /\ changedAt \in [Member -> Nat]
  /\ count \in Nat
  /\ copy \in [Reader -> [Member -> Document \cup {Nothing}]]
  /\ heard \in [Reader -> Nat]

\* Nobody is told of changes that have not been made.
NotAhead == \A r \in Reader : heard[r] <= count

ContractInv == ContractType /\ NotAhead /\ Kept

LEMMA InitKeeps == ContractInit => ContractInv
BY DEF ContractInit, ContractInv, ContractType, NotAhead, Kept

LEMMA ChangeKeeps == ContractInv /\ Change => ContractInv'
<1> SUFFICES ASSUME ContractInv, Change PROVE ContractInv'
    OBVIOUS
<1> USE DEF ContractInv, ContractType, NotAhead
<1>1. PICK m \in Member, d \in Document \cup {Nothing} :
          /\ docs' = [docs EXCEPT ![m] = d]
          /\ changedAt' = [changedAt EXCEPT ![m] = count']
          /\ \/ UNCHANGED copy
             \/ \E r \in Reader : copy' = [copy EXCEPT ![r][m] = d]
      BY DEF Change
<1>2. count' = count + 1 /\ heard' = heard
      BY DEF Change
<1>3. copy' \in [Reader -> [Member -> Document \cup {Nothing}]]
      BY <1>1
<1>4. \A r \in Reader, n \in Member \ {m} : copy'[r][n] = copy[r][n]
      BY <1>1
<1>5. ContractType' /\ NotAhead'
      BY <1>1, <1>2, <1>3
<1>6. ASSUME NEW r \in Reader, NEW n \in Member, heard'[r] # 0, changedAt'[n] <= heard'[r]
      PROVE  copy'[r][n] = docs'[n]
  <2>1. n # m
        BY <1>1, <1>2, <1>6
  <2>2. changedAt'[n] = changedAt[n] /\ docs'[n] = docs[n]
        BY <1>1, <2>1
  <2>3. copy[r][n] = docs[n]
        BY <1>2, <1>6, <2>2 DEF Kept
  <2> QED BY <1>4, <2>1, <2>2, <2>3
<1> QED BY <1>5, <1>6 DEF Kept

LEMMA ElsewhereKeeps == ContractInv /\ Elsewhere => ContractInv'
BY DEF ContractInv, ContractType, NotAhead, Kept, Elsewhere

LEMMA TellKeeps ==
  ASSUME NEW r \in Reader, ContractInv, Tell(r)
  PROVE  ContractInv'
<1> USE DEF ContractInv, ContractType, NotAhead
<1>1. PICK n \in {0} \cup heard[r] .. count :
          /\ heard' = [heard EXCEPT ![r] = n]
          /\ \E c \in [Member -> Document \cup {Nothing}] : copy' = [copy EXCEPT ![r] = c]
          /\ Honest(r, n)
      BY DEF Tell
<1>2. UNCHANGED <<docs, changedAt, count>>
      BY DEF Tell
<1>3. n \in Nat /\ n <= count
      BY <1>1
<1>4. ContractType' /\ NotAhead'
      BY <1>1, <1>2, <1>3
<1>5. ASSUME NEW s \in Reader, NEW m \in Member, heard'[s] # 0, changedAt'[m] <= heard'[s]
      PROVE  copy'[s][m] = docs'[m]
  <2>1. CASE s = r
    <3>1. heard'[s] = n
          BY <1>1, <2>1
    <3> QED BY <1>1, <1>2, <1>5, <2>1, <3>1 DEF Honest
  <2>2. CASE s # r
    <3>1. heard'[s] = heard[s] /\ copy'[s] = copy[s]
          BY <1>1, <2>2
    <3> QED BY <1>2, <1>5, <3>1 DEF Kept
  <2> QED BY <2>1, <2>2
<1> QED BY <1>4, <1>5 DEF Kept

LEMMA RenewKeeps == ContractInv /\ Renew => ContractInv'
BY DEF ContractInv, ContractType, NotAhead, Kept, Renew

LEMMA StepKeeps == ContractInv /\ [ContractNext]_contractVars => ContractInv'
<1> SUFFICES ASSUME ContractInv, [ContractNext]_contractVars PROVE ContractInv'
    OBVIOUS
<1>1. CASE UNCHANGED contractVars
      BY <1>1 DEF ContractInv, ContractType, NotAhead, Kept, contractVars
<1>2. CASE ContractNext
      BY <1>2, ChangeKeeps, ElsewhereKeeps, TellKeeps, RenewKeeps DEF ContractNext
<1> QED BY <1>1, <1>2

\* A collection that does no more than the contract allows keeps its promise:
\* what a client has, of all it was told of, is what the collection has.
THEOREM ContractKeepsPromise == Contract => []Kept
<1>1. ContractInv => Kept
      BY DEF ContractInv
<1> QED BY InitKeeps, StepKeeps, <1>1, PTL DEF Contract
============================================================================
