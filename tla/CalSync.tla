------------------------------ MODULE CalSync ------------------------------
(***************************************************************************)
(* One calendar account of jamail: the calendar sync thread of jamaild     *)
(* (src/calsync.rs), the `calendar_events` table it shares with the jacal  *)
(* user interface (src/db.rs), the remote CalDAV server and the other      *)
(* clients of that server.                                                 *)
(*                                                                         *)
(* The thread and jacal are two processes: every SQL statement and every   *)
(* HTTP request is a step of its own, so that whatever the other process,  *)
(* or another client, can do between two of them is in the model.          *)
(*                                                                         *)
(* Content is a stamp: every local edit and every foreign write takes a    *)
(* fresh one from `clock`, and every change of the server takes its ETag   *)
(* from the same clock.  The sync token of the server is the ETag of the   *)
(* last change it covers; 0 stands for a NULL token and a NULL ETag.       *)
(***************************************************************************)
EXTENDS Integers, FiniteSets

CONSTANTS
    Uid,         \* the events there can be; the href of an event follows from its UID
    MaxId,       \* bound: rows the table ever holds (ids are AUTOINCREMENT)
    MaxActs,     \* bound: actions of the user and of other clients
    MaxFaults,   \* bound: failed requests, rejected tokens, restarts
    EtagOnPut,   \* the server returns the ETag of a PUT (put_event GETs it otherwise)
    Inline,      \* the server inlines calendar-data in its sync answers
    Paging       \* the server may truncate a sync answer (507 on the collection)

ASSUME CalSyncAssumption ==
    /\ MaxId \in Nat
    /\ MaxActs \in Nat
    /\ MaxFaults \in Nat
    /\ EtagOnPut \in BOOLEAN
    /\ Inline \in BOOLEAN
    /\ Paging \in BOOLEAN

VARIABLES
    srv,        \* the remote collection: per event, ETag of its last change and its content
    ver,        \* the remote collection's current sync token
    clock,      \* source of stamps and ETags
    rows,       \* calendar_events, by id
    nextId,     \* the next AUTOINCREMENT id
    token,      \* calendars.sync_token
    queue,      \* CalSyncControl.write_queue, as the ids it names
    form,       \* what jacal's user has open, or the statement it is half way through
    created,    \* UIDs jacal has generated
    pc,         \* the sync thread: "sleep", "queued", "pending", "pull", "prune" or "apply"
    todo,       \* rows the write pass still has to look at
    attempted,  \* rows the drained queue named
    job,        \* the answer to a write the thread has not recorded yet
    batch,      \* the sync answer the thread is applying
    acts,       \* actions of the user and of other clients so far
    faults,     \* faults so far
    deleted,    \* history: events the user deleted and nobody has written since
    clobbered,  \* history: events whose content a write replaced unseen by its author
    lost        \* history: events the token covers that the thread could not get or gave up

serverVars == <<srv, ver>>
tableVars  == <<rows, nextId>>
jacalVars  == <<form, created>>
threadVars == <<pc, todo, attempted, job, batch>>
ghostVars  == <<deleted, clobbered, lost>>
vars == <<srv, ver, clock, rows, nextId, token, queue, form, created, pc, todo,
          attempted, job, batch, acts, faults, deleted, clobbered, lost>>

----------------------------------------------------------------------------
(* The table.                                                              *)

Ids == 1 .. MaxId
PendingStatus == {"pending_create", "pending_update", "pending_delete"}
Status == PendingStatus \cup {"synced", "conflict"}

NoRow == [status |-> "none"]

\* A row: `where` tells the server's href from the `local:` placeholder, `seen`
\* is a history field, the contents the user had in front of them when they
\* made the change the row carries.
Row == [where: {"local", "server"}, uid: Uid, etag: Nat, body: Nat,
        status: Status, seen: SUBSET Nat]

Present(id) == rows[id].status # "none"
Pending(id) == rows[id].status \in PendingStatus
HasHref(id, w, u) == Present(id) /\ rows[id].where = w /\ rows[id].uid = u

\* Rows get_calendar_events_in_range returns.
Visible(id) == Present(id) /\ rows[id].status # "pending_delete"

InsertRow(r) ==
    /\ nextId <= MaxId
    /\ rows' = [rows EXCEPT ![nextId] = r]
    /\ nextId' = nextId + 1

----------------------------------------------------------------------------
(* The remote collection.                                                  *)

Copy == [at: Nat, body: Nat]
Live(u) == srv[u].body # 0

ChangeServer(u, body) ==
    /\ srv' = [srv EXCEPT ![u] = [at |-> clock + 1, body |-> body]]
    /\ ver' = clock + 1
    /\ clock' = clock + 1

\* The precondition put_event sends: If-Match, or If-None-Match: * for a create.
PutAccepted(u, ifMatch, create) ==
    IF ifMatch # 0 THEN Live(u) /\ srv[u].at = ifMatch
                   ELSE create => ~Live(u)

\* The precondition delete_event sends; a resource that is gone answers 404.
DeleteAccepted(u, ifMatch) == ifMatch = 0 \/ srv[u].at = ifMatch

Unseen(u, known) == {e \in {u} : Live(e) /\ srv[e].body \notin known}

----------------------------------------------------------------------------
(* In-flight state of the two processes.                                   *)

NoJob == [act |-> "none"]
Job == [act: {"synced", "reget", "conflict", "remove"}, id: Ids,
        where: {"local", "server"}, uid: Uid, etag: Nat]

\* `changed` and `gone` are what is left to apply; `reconcile` is "due" while the
\* rows a complete listing does not name still have to be looked up.
NoBatch == [left |-> "none"]
Batch == [copy: [Uid -> Copy], changed: SUBSET Uid, listed: SUBSET Uid,
          gone: SUBSET ({"local", "server"} \X Uid), reconcile: {"due", "done"}, token: Nat,
          upTo: Nat]

NoForm == [op |-> "none"]
Form == [op: {"edit", "delete"}, id: Ids, seen: SUBSET Nat,
         read: Status \cup {"unread"}]

TypeOK ==
    /\ srv \in [Uid -> Copy]
    /\ ver \in Nat
    /\ clock \in Nat
    /\ rows \in [Ids -> Row \cup {NoRow}]
    /\ nextId \in Nat \ {0}
    /\ token \in Nat
    /\ queue \in SUBSET Ids
    /\ form \in Form \cup {NoForm}
    /\ created \in SUBSET Uid
    /\ pc \in {"sleep", "queued", "pending", "pull", "prune", "apply"}
    /\ todo \in SUBSET Ids
    /\ attempted \in SUBSET Ids
    /\ job \in Job \cup {NoJob}
    /\ batch \in Batch \cup {NoBatch}
    /\ acts \in Nat
    /\ faults \in Nat
    /\ deleted \in SUBSET Uid
    /\ clobbered \in SUBSET Uid
    /\ lost \in SUBSET Uid
    /\ batch # NoBatch <=> pc = "apply"
    /\ job # NoJob => pc \in {"queued", "pending"}

\* The account was just configured: nothing cached, some events on the server.
Init ==
    /\ srv \in [Uid -> {[at |-> 0, body |-> 0], [at |-> 1, body |-> 1]}]
    /\ ver = 1
    /\ clock = 1
    /\ rows = [id \in Ids |-> NoRow]
    /\ nextId = 1
    /\ token = 0
    /\ queue = {}
    /\ form = NoForm
    /\ created = {}
    /\ pc = "sleep"
    /\ todo = {}
    /\ attempted = {}
    /\ job = NoJob
    /\ batch = NoBatch
    /\ acts = 0
    /\ faults = 0
    /\ deleted = {}
    /\ clobbered = {}
    /\ lost = {}

Act   == acts < MaxActs /\ acts' = acts + 1
Fault == faults < MaxFaults /\ faults' = faults + 1

----------------------------------------------------------------------------
(* Other clients of the server.                                            *)

OtherWrite(u) ==
    /\ Act
    /\ srv[u].at # 0
    /\ ChangeServer(u, clock + 1)
    /\ deleted' = deleted \ {u}
    /\ UNCHANGED <<tableVars, token, queue, jacalVars, threadVars, faults, clobbered, lost>>

OtherDelete(u) ==
    /\ Act
    /\ Live(u)
    /\ ChangeServer(u, 0)
    /\ UNCHANGED <<tableVars, token, queue, jacalVars, threadVars, faults, ghostVars>>

----------------------------------------------------------------------------
(* jacal.                                                                  *)

\* submit_form on a new draft: insert_local_calendar_event, then the queue entry.
UserCreate(u) ==
    /\ Act
    /\ form = NoForm
    /\ u \notin created /\ srv[u].at = 0
    /\ created' = created \cup {u}
    /\ clock' = clock + 1
    /\ InsertRow([where |-> "local", uid |-> u, etag |-> 0, body |-> clock + 1,
                  status |-> "pending_create", seen |-> {}])
    /\ queue' = queue \cup {nextId}
    /\ UNCHANGED <<serverVars, token, form, threadVars, faults, ghostVars>>

\* The user opens the edit form or the delete prompt on a row they can see.
UserOpen(id, op) ==
    /\ Act
    /\ form = NoForm
    /\ Visible(id)
    /\ form' = [op |-> op, id |-> id, seen |-> rows[id].seen \cup {rows[id].body},
                read |-> "unread"]
    /\ UNCHANGED <<serverVars, clock, tableVars, token, queue, created, threadVars,
                   faults, ghostVars>>

\* The SELECT of apply_local_calendar_edit and mark_calendar_event_pending_delete.
UserRead ==
    /\ form # NoForm /\ form.read = "unread"
    /\ form' = IF Present(form.id) THEN [form EXCEPT !.read = rows[form.id].status]
                                   ELSE NoForm
    /\ UNCHANGED <<serverVars, clock, tableVars, token, queue, created, threadVars,
                   acts, faults, ghostVars>>

\* The UPDATE of apply_local_calendar_edit: content from the form, status from the
\* row as it was read, href and ETag as they are now.
UserEdit ==
    /\ form # NoForm /\ form.op = "edit" /\ form.read # "unread"
    /\ IF Present(form.id)
       THEN rows' = [rows EXCEPT ![form.id].body = clock + 1,
                                 ![form.id].seen = form.seen,
                                 ![form.id].status = IF form.read = "pending_create"
                                                     THEN "pending_create"
                                                     ELSE "pending_update"]
       ELSE rows' = rows
    /\ deleted' = IF Present(form.id) THEN deleted \ {rows[form.id].uid} ELSE deleted
    /\ clock' = clock + 1
    /\ queue' = queue \cup {form.id}
    /\ form' = NoForm
    /\ UNCHANGED <<serverVars, nextId, token, created, threadVars, acts, faults,
                   clobbered, lost>>

\* The DELETE or UPDATE of mark_calendar_event_pending_delete: a row read as
\* pending_create goes at once and no mutation is queued.
UserDelete ==
    /\ form # NoForm /\ form.op = "delete" /\ form.read # "unread"
    /\ rows' = IF ~Present(form.id) THEN rows
               ELSE IF form.read = "pending_create" THEN [rows EXCEPT ![form.id] = NoRow]
               ELSE [rows EXCEPT ![form.id].status = "pending_delete",
                                 ![form.id].seen = form.seen]
    /\ deleted' = IF Present(form.id) THEN deleted \cup {rows[form.id].uid} ELSE deleted
    /\ queue' = IF form.read = "pending_create" THEN queue ELSE queue \cup {form.id}
    /\ form' = NoForm
    /\ UNCHANGED <<serverVars, clock, nextId, token, created, threadVars, acts, faults,
                   clobbered, lost>>

----------------------------------------------------------------------------
(* The sync thread: the write pass of run_one_cycle.                       *)

BeginCycle ==
    /\ pc = "sleep"
    /\ pc' = "queued"
    /\ todo' = queue
    /\ attempted' = queue
    /\ queue' = {}
    /\ UNCHANGED <<serverVars, clock, tableVars, token, jacalVars, job, batch, acts,
                   faults, ghostVars>>

\* Mutant of ListPending: only what the queue names is ever written.
ListPendingQueueOnly ==
    /\ pc = "queued" /\ todo = {} /\ job = NoJob
    /\ pc' = "pending"
    /\ attempted' = {}
    /\ UNCHANGED <<serverVars, clock, tableVars, token, queue, jacalVars, todo, job, batch,
                   acts, faults, ghostVars>>

\* get_pending_calendar_writes, minus what the queue already named.
ListPending ==
    /\ pc = "queued" /\ todo = {} /\ job = NoJob
    /\ pc' = "pending"
    /\ todo' = {id \in Ids : Pending(id)} \ attempted
    /\ attempted' = {}
    /\ UNCHANGED <<serverVars, clock, tableVars, token, queue, jacalVars, job, batch,
                   acts, faults, ghostVars>>

EndWrites ==
    /\ pc = "pending" /\ todo = {} /\ job = NoJob
    /\ pc' = "pull"
    /\ UNCHANGED <<serverVars, clock, tableVars, token, queue, jacalVars, todo,
                   attempted, job, batch, acts, faults, ghostVars>>

TakeRow(id) ==
    /\ pc \in {"queued", "pending"} /\ job = NoJob
    /\ id \in todo
    /\ todo' = todo \ {id}
    /\ UNCHANGED <<token, queue, jacalVars, pc, attempted, batch, acts>>

\* apply_pending_write: the row is gone, or has nothing outstanding.
SkipWrite(id) ==
    /\ TakeRow(id)
    /\ ~Pending(id)
    /\ UNCHANGED <<serverVars, clock, tableVars, job, faults, ghostVars>>

\* A request that never reached the server: the row stays pending.
RequestLost(id) ==
    /\ TakeRow(id)
    /\ Pending(id)
    /\ Fault
    /\ UNCHANGED <<serverVars, clock, tableVars, job, ghostVars>>

\* PUT: accepted and answered, accepted but the answer lost, or refused (412).
SendPut(id, ifMatch, create) ==
    LET u == rows[id].uid
        answer(act) == [act |-> act, id |-> id, where |-> "server", uid |-> u,
                        etag |-> clock + 1]
    IN \/ /\ PutAccepted(u, ifMatch, create)
          /\ ChangeServer(u, rows[id].body)
          /\ clobbered' = clobbered \cup Unseen(u, rows[id].seen \cup {rows[id].body})
          /\ \/ job' = answer(IF EtagOnPut THEN "synced" ELSE "reget") /\ UNCHANGED faults
             \/ Fault /\ UNCHANGED job
       \/ /\ ~PutAccepted(u, ifMatch, create)
          /\ job' = answer("conflict")
          /\ UNCHANGED <<serverVars, clock, faults, clobbered>>

\* apply_create
ApplyCreate(id) ==
    /\ TakeRow(id)
    /\ rows[id].status = "pending_create"
    /\ SendPut(id, 0, TRUE)
    /\ UNCHANGED <<tableVars, deleted, lost>>

\* apply_update of a row the server knows
ApplyUpdate(id) ==
    /\ TakeRow(id)
    /\ rows[id].status = "pending_update" /\ rows[id].where = "server"
    /\ SendPut(id, rows[id].etag, FALSE)
    /\ UNCHANGED <<tableVars, deleted, lost>>

\* apply_update of a row that still carries its placeholder: the href is resolved
\* against the base URL like any other; what lives there may take or refuse the PUT.
ApplyUpdatePlaceholder(id) ==
    /\ TakeRow(id)
    /\ rows[id].status = "pending_update" /\ rows[id].where = "local"
    /\ \E act \in {"synced", "conflict"} :
          job' = [act |-> act, id |-> id, where |-> "local", uid |-> rows[id].uid,
                  etag |-> clock]
    /\ UNCHANGED <<serverVars, clock, tableVars, faults, ghostVars>>

\* apply_delete of a row that was never uploaded
DropPlaceholder(id) ==
    /\ TakeRow(id)
    /\ rows[id].status = "pending_delete" /\ rows[id].where = "local"
    /\ rows' = [rows EXCEPT ![id] = NoRow]
    /\ UNCHANGED <<serverVars, clock, nextId, job, faults, ghostVars>>

\* apply_delete of a row the server knows
ApplyDelete(id) ==
    LET u == rows[id].uid
        answer(act) == [act |-> act, id |-> id, where |-> "server", uid |-> u, etag |-> 0]
    IN /\ TakeRow(id)
       /\ rows[id].status = "pending_delete" /\ rows[id].where = "server"
       /\ \/ /\ ~Live(u)
             /\ job' = answer("remove")
             /\ UNCHANGED <<serverVars, clock, faults, clobbered>>
          \/ /\ Live(u) /\ DeleteAccepted(u, rows[id].etag)
             /\ ChangeServer(u, 0)
             /\ clobbered' = clobbered \cup Unseen(u, rows[id].seen)
             /\ \/ job' = answer("remove") /\ UNCHANGED faults
                \/ Fault /\ UNCHANGED job
          \/ /\ Live(u) /\ ~DeleteAccepted(u, rows[id].etag)
             /\ job' = answer("conflict")
             /\ UNCHANGED <<serverVars, clock, faults, clobbered>>
       /\ UNCHANGED <<tableVars, deleted, lost>>

\* put_event learns the ETag with a GET when the PUT's answer carried none.
Reget ==
    /\ job # NoJob /\ job.act = "reget"
    /\ \/ /\ Live(job.uid)
          /\ job' = [job EXCEPT !.act = "synced", !.etag = srv[job.uid].at]
          /\ UNCHANGED faults
       \/ ~Live(job.uid) /\ job' = NoJob /\ UNCHANGED faults
       \/ Fault /\ job' = NoJob
    /\ UNCHANGED <<serverVars, clock, tableVars, token, queue, jacalVars, pc, todo,
                   attempted, batch, acts, ghostVars>>

\* mark_calendar_event_synced: by id, whatever has become of the row since it was
\* read; the UNIQUE constraint on the href makes it fail when another row has it.
MarkSynced(j) ==
    LET taken == \E id \in Ids \ {j.id} : HasHref(id, j.where, j.uid)
    IN rows' = IF ~Present(j.id) \/ taken THEN rows
               ELSE [rows EXCEPT ![j.id].where = j.where, ![j.id].uid = j.uid,
                                 ![j.id].etag = j.etag, ![j.id].status = "synced"]

\* The database half of apply_create, apply_update and apply_delete.
RecordAnswer ==
    /\ job # NoJob /\ job.act # "reget"
    /\ \/ job.act = "synced" /\ MarkSynced(job)
       \/ /\ job.act = "conflict"
          /\ rows' = IF Present(job.id) THEN [rows EXCEPT ![job.id].status = "conflict"]
                                        ELSE rows
       \/ job.act = "remove" /\ rows' = [rows EXCEPT ![job.id] = NoRow]
    /\ job' = NoJob
    /\ UNCHANGED <<serverVars, clock, nextId, token, queue, jacalVars, pc, todo,
                   attempted, batch, acts, faults, ghostVars>>

----------------------------------------------------------------------------
(* The sync thread: the read pass, sync_one_calendar.                      *)

PullFailed ==
    /\ pc = "pull"
    /\ Fault
    /\ pc' = "sleep"
    /\ UNCHANGED <<serverVars, clock, tableVars, token, queue, jacalVars, todo,
                   attempted, job, batch, acts, ghostVars>>

\* The server does not list the calendar. prune_calendars_not_in deletes its events,
PruneEvents ==
    /\ pc = "pull"
    /\ Fault
    /\ rows' = [id \in Ids |-> NoRow]
    /\ lost' = {u \in Uid : Live(u) /\ srv[u].at <= token}
    /\ pc' = "prune"
    /\ UNCHANGED <<serverVars, clock, nextId, token, queue, jacalVars, todo, attempted, job,
                   batch, acts, deleted, clobbered>>

\* then, in a statement of its own that may fail, the calendar and with it the token.
PruneCalendar ==
    /\ pc = "prune"
    /\ \/ token' = 0 /\ lost' = {} /\ UNCHANGED faults
       \/ Fault /\ UNCHANGED <<token, lost>>
    /\ pc' = "sleep"
    /\ UNCHANGED <<serverVars, clock, tableVars, queue, jacalVars, todo, attempted, job,
                   batch, acts, deleted, clobbered>>

ChangedSince(prior, upTo) == {u \in Uid : prior < srv[u].at /\ srv[u].at <= upTo}

\* Mutant of Answer: the 404 members of the answer are not reported as gone.
AnswerWithoutGone(prior, upTo, newToken) ==
    LET changed == {u \in ChangedSince(prior, upTo) : Live(u)}
    IN [copy |-> srv, changed |-> changed, listed |-> changed, gone |-> {},
        reconcile |-> IF prior = 0 THEN "due" ELSE "done",
        token |-> newToken, upTo |-> upTo]

\* The answer to a sync-collection from `prior` (or to the calendar-query that
\* replaces it), and the token to store once it is applied.
Answer(prior, upTo, newToken) ==
    LET changed == {u \in ChangedSince(prior, upTo) : Live(u)}
        gone == {u \in ChangedSince(prior, upTo) : ~Live(u)}
    IN [copy |-> srv, changed |-> changed, listed |-> changed,
        gone |-> IF prior = 0 THEN {} ELSE {<<"server", u>> : u \in gone},
        reconcile |-> IF prior = 0 THEN "due" ELSE "done",
        token |-> newToken,
        upTo |-> upTo]

Pull ==
    /\ pc = "pull"
    /\ \/ \E upTo \in (IF Paging THEN (token + 1) .. ver ELSE {}) \cup {ver} :
             batch' = Answer(token, upTo, upTo) /\ UNCHANGED faults
       \* the token is rejected, and the initial sync accepted
       \/ token # 0 /\ Fault /\ batch' = Answer(0, ver, ver)
       \* no sync-collection at all
       \/ Fault /\ batch' = Answer(0, ver, token)
    /\ pc' = "apply"
    /\ UNCHANGED <<serverVars, clock, tableVars, token, queue, jacalVars, todo,
                   attempted, job, acts, ghostVars>>

\* Mutant of Upsert: the row becomes synced whatever the user has made of it.
UpsertAlwaysSynced(u, etag, body) ==
    \/ \E id \in Ids :
          /\ HasHref(id, "server", u)
          /\ rows' = [rows EXCEPT ![id].etag = etag, ![id].body = body,
                                  ![id].status = "synced", ![id].seen = {}]
          /\ UNCHANGED nextId
    \/ /\ \A id \in Ids : ~HasHref(id, "server", u)
       /\ InsertRow([where |-> "server", uid |-> u, etag |-> etag, body |-> body,
                     status |-> "synced", seen |-> {}])

\* upsert_calendar_event: synced, unless the user has deleted the row meanwhile.
Upsert(u, etag, body) ==
    \/ \E id \in Ids :
          /\ HasHref(id, "server", u)
          /\ rows' = IF rows[id].status = "pending_delete"
                     THEN [rows EXCEPT ![id].etag = etag, ![id].body = body]
                     ELSE [rows EXCEPT ![id].etag = etag, ![id].body = body,
                                       ![id].status = "synced", ![id].seen = {}]
          /\ UNCHANGED nextId
    \/ /\ \A id \in Ids : ~HasHref(id, "server", u)
       /\ InsertRow([where |-> "server", uid |-> u, etag |-> etag, body |-> body,
                     status |-> "synced", seen |-> {}])

\* apply_changed_event: the content of the answer, or of a GET when the answer
\* carried none; a GET that fails leaves the row as it is.
ApplyChanged(u) ==
    /\ pc = "apply" /\ u \in batch.changed
    /\ batch' = [batch EXCEPT !.changed = @ \ {u}]
    /\ \/ /\ Inline
          /\ Upsert(u, batch.copy[u].at, batch.copy[u].body)
          /\ UNCHANGED faults
          /\ lost' = lost \ {u}
       \/ /\ ~Inline /\ Live(u)
          /\ Upsert(u, batch.copy[u].at, srv[u].body)
          /\ UNCHANGED faults
          /\ lost' = lost \ {u}
       \/ ~Inline /\ ~Live(u) /\ UNCHANGED <<tableVars, faults, lost>>
       \/ ~Inline /\ Fault /\ UNCHANGED tableVars /\ lost' = lost \cup {u}
    /\ UNCHANGED <<serverVars, clock, token, queue, jacalVars, pc, todo, attempted, job,
                   acts, deleted, clobbered>>

\* delete_calendar_event_by_href, for the hrefs the server reported gone and for
\* those reconcile_missing found.
DropByHref(w, u) ==
    /\ pc = "apply" /\ batch.changed = {} /\ <<w, u>> \in batch.gone
    /\ rows' = [id \in Ids |-> IF HasHref(id, w, u) THEN NoRow ELSE rows[id]]
    /\ batch' = [batch EXCEPT !.gone = @ \ {<<w, u>>}]
    /\ UNCHANGED <<serverVars, clock, nextId, token, queue, jacalVars, pc, todo,
                   attempted, job, acts, faults, ghostVars>>

\* The SELECT of reconcile_missing: the synced rows a complete listing left out.
ListMissing ==
    /\ pc = "apply" /\ batch.changed = {} /\ batch.reconcile = "due"
    /\ batch' = [batch EXCEPT
          !.reconcile = "done",
          !.gone = {<<rows[id].where, rows[id].uid>> :
                       id \in {i \in Ids : /\ rows[i].status = "synced"
                                           /\ \/ rows[i].where = "local"
                                              \/ rows[i].uid \notin batch.listed}}]
    /\ UNCHANGED <<serverVars, clock, tableVars, token, queue, jacalVars, pc, todo,
                   attempted, job, acts, faults, ghostVars>>

\* Mutant of EndPull: the token stored is the server's newest, not the answer's.
EndPullNewestToken ==
    /\ pc = "apply" /\ batch.changed = {} /\ batch.gone = {} /\ batch.reconcile = "done"
    /\ token' = ver
    /\ batch' = NoBatch
    /\ pc' = "sleep"
    /\ UNCHANGED <<serverVars, clock, tableVars, queue, jacalVars, todo, attempted, job,
                   acts, faults, ghostVars>>

\* set_calendar_sync_state; the calendar-query fallback has no token to store.
EndPull ==
    /\ pc = "apply" /\ batch.changed = {} /\ batch.gone = {} /\ batch.reconcile = "done"
    /\ token' = batch.token
    /\ batch' = NoBatch
    /\ pc' = "sleep"
    /\ UNCHANGED <<serverVars, clock, tableVars, queue, jacalVars, todo, attempted, job,
                   acts, faults, ghostVars>>

\* jamaild goes down and comes up again: the table survives, the thread does not.
Restart ==
    /\ pc # "sleep"
    /\ Fault
    /\ pc' = "sleep"
    /\ todo' = {} /\ attempted' = {} /\ queue' = {}
    /\ job' = NoJob
    /\ batch' = NoBatch
    /\ UNCHANGED <<serverVars, clock, tableVars, token, jacalVars, acts, ghostVars>>

----------------------------------------------------------------------------
Thread ==
    \/ BeginCycle \/ ListPending \/ EndWrites
    \/ \E id \in Ids :
          \/ SkipWrite(id) \/ RequestLost(id)
          \/ ApplyCreate(id) \/ ApplyUpdate(id) \/ ApplyUpdatePlaceholder(id)
          \/ DropPlaceholder(id) \/ ApplyDelete(id)
    \/ Reget \/ RecordAnswer
    \/ PullFailed \/ PruneEvents \/ PruneCalendar \/ Pull
    \/ \E u \in Uid : ApplyChanged(u)
    \/ \E u \in Uid, w \in {"local", "server"} : DropByHref(w, u)
    \/ ListMissing \/ EndPull

Environment ==
    \/ \E u \in Uid : OtherWrite(u) \/ OtherDelete(u) \/ UserCreate(u)
    \/ \E id \in Ids : UserOpen(id, "edit") \/ UserOpen(id, "delete")
    \/ UserRead \/ UserEdit \/ UserDelete
    \/ Restart

Next == Thread \/ Environment

Spec == Init /\ [][Next]_vars

\* The daemon's thread is never starved, and a statement jacal has begun ends;
\* users, other clients and faults owe nothing.
FairSpec == Spec /\ WF_vars(Thread) /\ WF_vars(UserEdit \/ UserDelete)

----------------------------------------------------------------------------
(***************************************************************************)
(* What the calendar sync thread promises.                                 *)
(***************************************************************************)

\* The row claims to be the server's copy of an event whose last change is not
\* later than `t`; and it is.
Claims(id, t) ==
    /\ rows[id].status = "synced" /\ rows[id].where = "server"
    /\ srv[rows[id].uid].at <= t
Current(id) ==
    /\ Live(rows[id].uid)
    /\ rows[id].etag = srv[rows[id].uid].at
    /\ rows[id].body = srv[rows[id].uid].body

\* A row the cache shows as synced is the server's current copy of the event as
\* far as the stored sync token reaches: same ETag, same content, and an event
\* that still exists.  Edits racing a PUT, lost answers, restarts half way
\* through a sync answer and other clients' writes all happen in between.
SyncedRowsCurrent == \A id \in Ids : Claims(id, token) => Current(id)

\* The token never runs ahead of the table: an event whose last change it covers
\* is cached, through pages, rejected tokens, failed requests and restarts, unless
\* the user removed it here or it is one of the two the code gives up: its own GET
\* failed (apply_changed_event) and nothing came for it since, or a prune broke off
\* between its two statements (sync_one_calendar stores the token after the changes
\* it announces).
NothingMissing ==
    \A u \in Uid :
        Live(u) /\ srv[u].at <= token
            => u \in deleted \cup lost \/ \E id \in Ids : HasHref(id, "server", u)

\* A step of the sync thread or of another client, not of jacal.
NotTheUser == form' = form /\ created' = created

\* Applying a sync answer never brings back a row the user has deleted and whose
\* DELETE is still owed (upsert_calendar_event keeps pending_delete).
PullKeepsDeletes ==
    [][\A id \in Ids :
          pc = "apply" /\ NotTheUser /\ rows[id].status = "pending_delete"
              => rows'[id].status \in {"pending_delete", "none"}]_vars

\* Applying a sync answer removes a row of the server's only if the server, when
\* it answered, no longer had the event (reconcile_missing: an initial sync
\* enumerates the whole collection, so anything it did not list is gone).
DropsOnlyGone ==
    [][\A id \in Ids :
          /\ pc = "apply" /\ NotTheUser
          /\ Present(id) /\ rows[id].where = "server" /\ rows'[id] = NoRow
          => batch.copy[rows[id].uid].body = 0]_vars

\* Both of these.
PullSpares == PullKeepsDeletes /\ DropsOnlyGone

\* Once users, other clients and faults have stopped, the cache and the server
\* come to agree: no write is left pending, every event is cached but those given
\* up, every synced row is current.
Settled ==
    /\ \A id \in Ids : ~Pending(id)
    /\ \A u \in Uid : Live(u) => u \in deleted \cup lost \/ \E id \in Ids : HasHref(id, "server", u)
    /\ \A id \in Ids :
          rows[id].status = "synced" /\ rows[id].where = "server"
              => /\ rows[id].etag = srv[rows[id].uid].at
                 /\ rows[id].body = srv[rows[id].uid].body
Converges == <>[]Settled
============================================================================
