--------------------------- MODULE HostedCalendar ---------------------------
(***************************************************************************)
(* The calendar jamaild hosts itself: the CalDAV server of                 *)
(* caldav_server.rs, the server_* operations of db.rs, and the writes of   *)
(* jacal to the same rows, which the calendar sync thread commits          *)
(* (apply_pending_write of calsync.rs).                                    *)
(*                                                                         *)
(* Every connection has a thread and a database handle of its own, and no  *)
(* operation is a transaction: one statement is one step, and a request    *)
(* keeps in `serving` what it has read.  An ETag is a hash of the content: *)
(* a wording stands for its own, but a row edited by jacal keeps the one   *)
(* it had.  jamaild may die between two statements.                        *)
(***************************************************************************)
EXTENDS Naturals, FiniteSets

LOCAL INSTANCE Sequences

CONSTANTS
  Name,       \* the names of events, and their paths
  OwnName,    \* those jacal gives, each once
  Wording,    \* what an event can say
  User,       \* CalDAV clients
  MaxAsked    \* bound: requests of clients and writes of jacal, together

Absent == "absent"

ASSUME HostedAssumption == OwnName \subseteq Name /\ Absent \notin Wording /\ MaxAsked \in Nat

VARIABLES
  hosted,     \* calendar_events, by name
  history,    \* calendar_sync_log; an id is a place
  serving,    \* per client: the request in progress
  lastRow,    \* the newest id of a row
  announced,  \* ids of the rows jacal has announced to the sync thread
  editing,    \* the row jacal has read and is about to write
  commit,     \* the write the sync thread is committing
  held,       \* per client: what it has of each event, and the ETag
  mark,       \* per client: its sync token
  requests,     \* requests and writes of jacal so far
  named,      \* the names jacal has given
  untold      \* history: names changed with no entry that says so

hostedVars == <<hosted, lastRow, history, serving, announced, editing, commit, held, mark, requests, named, untold>>

NoEvent == [says |-> Absent, etag |-> Absent, status |-> Absent, id |-> 0]
NotHeld == [says |-> Absent, etag |-> Absent]
OfRow(row) == [says |-> row.says, etag |-> row.etag]
NoServing == [op |-> "none"]
NoCommit == [name |-> Absent]
NoEdit == [op |-> "none"]

HostedInit ==
  /\ hosted = [n \in Name |-> NoEvent] /\ history = <<>>
  /\ serving = [u \in User |-> NoServing] /\ announced = {} /\ commit = NoCommit
  /\ lastRow = 0 /\ editing = NoEdit
  /\ held = [u \in User |-> [n \in Name |-> NotHeld]] /\ mark = [u \in User |-> 0]
  /\ requests = 0 /\ named = {} /\ untold = {}

\* get_calendar_event_by_href: an event of jacal that was never committed has
\* a placeholder for its path, and no ETag.
AtPath(n) == IF hosted[n].etag = Absent THEN NoEvent ELSE hosted[n]

-----------------------------------------------------------------------------
(* append_sync_log.  An entry that does not say what has become of the row   *)
(* leaves the name untold, until the next one.                               *)

AppendSyncLog(n, deleted) ==
  /\ history' = Append(history, [name |-> n, deleted |-> deleted])
  /\ untold' = IF deleted = (AtPath(n) = NoEvent) THEN untold \ {n} ELSE untold \cup {n}

Asked == requests < MaxAsked /\ requests' = requests + 1

Begins(u, request) ==
  /\ Asked
  /\ serving[u] = NoServing
  /\ serving' = [serving EXCEPT ![u] = request]

Ends(u) == serving' = [serving EXCEPT ![u] = NoServing]

-----------------------------------------------------------------------------
(* PUT: the preconditions, the upsert, the log, each on its own.             *)

\* What the client asks for: "match" is the ETag it has, "absent" is `*`.
Precondition(u, n, pre) ==
  CASE pre = "none"   -> TRUE
    [] pre = "match"  -> held[u][n].etag # Absent /\ AtPath(n).etag = held[u][n].etag
    [] pre = "absent" -> AtPath(n) = NoEvent

\* A name of jacal is known to those who were told of it.
PutEvent(u, n, t, pre) ==
  /\ n \in OwnName => held[u][n] # NotHeld
  /\ Precondition(u, n, pre)
  /\ Begins(u, [op |-> "put", at |-> "store", name |-> n, says |-> t])
  /\ UNCHANGED <<hosted, lastRow, history, announced, editing, commit, held, mark, named, untold>>

\* upsert_calendar_event: a row that is there keeps its id, and one jacal has
\* deleted stays so.
StoredAs(n, t) ==
  [says |-> t, etag |-> t,
   status |-> IF hosted[n].status = "delete" THEN "delete" ELSE "synced",
   id |-> IF AtPath(n) = NoEvent THEN lastRow + 1 ELSE hosted[n].id]

StorePut(u) ==
  LET row == StoredAs(serving[u].name, serving[u].says) IN
  /\ serving[u].op = "put" /\ serving[u].at = "store"
  /\ hosted' = [hosted EXCEPT ![serving[u].name] = row]
  /\ lastRow' = IF row.id > lastRow THEN row.id ELSE lastRow
  /\ serving' = [serving EXCEPT ![u].at = "log"]
  /\ UNCHANGED <<history, announced, editing, commit, held, mark, requests, named, untold>>

\* The answer may be lost.
LogPut(u) ==
  LET r == serving[u] IN
  /\ r.op = "put" /\ r.at = "log"
  /\ AppendSyncLog(r.name, FALSE)
  /\ held' \in {held, [held EXCEPT ![u][r.name] = [says |-> r.says, etag |-> r.says]]}
  /\ Ends(u)
  /\ UNCHANGED <<hosted, lastRow, announced, editing, commit, mark, requests, named>>

-----------------------------------------------------------------------------
(* DELETE                                                                    *)

DeleteEvent(u, n, pre) ==
  /\ pre # "absent" /\ AtPath(n) # NoEvent /\ Precondition(u, n, pre)
  /\ Begins(u, [op |-> "delete", at |-> "store", name |-> n])
  /\ UNCHANGED <<hosted, lastRow, history, announced, editing, commit, held, mark, named, untold>>

\* By path: whatever is there by now.
StoreDelete(u) ==
  LET n == serving[u].name IN
  /\ serving[u].op = "delete" /\ serving[u].at = "store"
  /\ hosted' = [hosted EXCEPT ![n] = IF AtPath(n) = NoEvent THEN hosted[n] ELSE NoEvent]
  /\ serving' = [serving EXCEPT ![u].at = "log"]
  /\ UNCHANGED <<lastRow, history, announced, editing, commit, held, mark, requests, named, untold>>

LogDelete(u) ==
  LET r == serving[u] IN
  /\ r.op = "delete" /\ r.at = "log"
  /\ AppendSyncLog(r.name, TRUE)
  /\ held' \in {held, [held EXCEPT ![u][r.name] = NotHeld]}
  /\ Ends(u)
  /\ UNCHANGED <<hosted, lastRow, announced, editing, commit, mark, requests, named>>

-----------------------------------------------------------------------------
(* REPORT                                                                    *)

Newest(since, n) == {i \in since + 1 .. Len(history) : history[i].name = n}

\* server_sync_changes, one statement: per name whether its newest entry past
\* the token deletes it; and the token to hand back.
ServerSyncChanges(since) ==
  [gone    |-> {n \in Name : \E i \in Newest(since, n) :
                               history[i].deleted /\ \A j \in Newest(since, n) : j <= i},
   changed |-> {n \in Name : \E i \in Newest(since, n) :
                               ~history[i].deleted /\ \A j \in Newest(since, n) : j <= i}]

\* report_calendar for sync-collection: then the rows one by one.
SyncCollection(u) ==
  LET changes == ServerSyncChanges(mark[u]) IN
  /\ Begins(u, [op |-> "report", left |-> changes.changed, token |-> Len(history),
                told |-> [n \in Name |-> IF n \in changes.gone THEN NotHeld ELSE held[u][n]]])
  /\ UNCHANGED <<hosted, lastRow, history, announced, editing, commit, held, mark, named, untold>>

\* get_calendar_event_by_href; a row that is gone by now is passed over.
LoadMember(u, n) ==
  /\ serving[u].op = "report" /\ n \in serving[u].left
  /\ serving' = [serving EXCEPT ![u].left = @ \ {n},
                                ![u].told[n] = IF AtPath(n) = NoEvent THEN @ ELSE OfRow(hosted[n])]
  /\ UNCHANGED <<hosted, lastRow, history, announced, editing, commit, held, mark, requests, named, untold>>

\* Mutant of ReportToken: the newest entry when the answer is written.
TokenNow(r) == Len(history)

\* The token of an answer: the newest entry its statement has read.
ReportToken(r) == r.token

ReportDone(u) ==
  LET r == serving[u] IN
  /\ r.op = "report" /\ r.left = {}
  /\ held' = [held EXCEPT ![u] = r.told]
  /\ mark' = [mark EXCEPT ![u] = ReportToken(r)]
  /\ Ends(u)
  /\ UNCHANGED <<hosted, lastRow, history, announced, editing, commit, requests, named, untold>>

\* calendar-query: every row, in one statement.
ServerListEvents(u) ==
  /\ Asked
  /\ serving[u] = NoServing
  /\ held' = [held EXCEPT ![u] = [n \in Name |-> OfRow(AtPath(n))]]
  /\ UNCHANGED <<hosted, lastRow, history, serving, announced, editing, commit, mark, named, untold>>

\* GET
GetEvent(u, n) ==
  /\ Asked
  /\ serving[u] = NoServing
  /\ held' = [held EXCEPT ![u][n] = OfRow(AtPath(n))]
  /\ UNCHANGED <<hosted, lastRow, history, serving, announced, editing, commit, mark, named, untold>>

-----------------------------------------------------------------------------
(* jacal writes to the row itself, with the new status; the sync thread      *)
(* commits it later. What it writes goes by what it has read before, to the  *)
(* row of that id, if there still is one.                                    *)

\* insert_local_calendar_event
LocalCreate(n, t) ==
  /\ Asked
  /\ n \in OwnName \ named /\ named' = named \cup {n}
  /\ hosted' = [hosted EXCEPT ![n] = [says |-> t, etag |-> Absent, status |-> "create", id |-> lastRow + 1]]
  /\ lastRow' = lastRow + 1
  /\ announced' = announced \cup {lastRow + 1}
  /\ UNCHANGED <<history, serving, editing, commit, held, mark, untold>>

\* The SELECT of apply_local_calendar_edit and mark_calendar_event_pending_delete.
LocalRead(n, op) ==
  /\ Asked
  /\ editing = NoEdit /\ hosted[n] # NoEvent
  /\ editing' = [op |-> op, name |-> n, id |-> hosted[n].id, status |-> hosted[n].status]
  /\ UNCHANGED <<hosted, lastRow, history, serving, announced, commit, held, mark, named, untold>>

Written(row) == IF hosted[editing.name].id = editing.id THEN [hosted EXCEPT ![editing.name] = row] ELSE hosted

\* The UPDATE of apply_local_calendar_edit: the ETag and the path stay.
LocalEdit(t) ==
  /\ editing.op = "edit"
  /\ hosted' = Written([hosted[editing.name] EXCEPT
                          !.says = t, !.status = IF editing.status = "create" THEN "create" ELSE "update"])
  /\ announced' = announced \cup {editing.id}
  /\ editing' = NoEdit
  /\ UNCHANGED <<lastRow, history, serving, commit, held, mark, requests, named, untold>>

\* The DELETE or the UPDATE of mark_calendar_event_pending_delete: a row read before
\* it was committed goes at once, and nobody is told.
LocalDelete ==
  LET n == editing.name
      dropped == editing.status = "create"
  IN /\ editing.op = "delete"
     /\ hosted' = Written(IF dropped THEN NoEvent ELSE [hosted[n] EXCEPT !.status = "delete"])
     /\ announced' = IF dropped THEN announced ELSE announced \cup {editing.id}
     /\ untold' = IF dropped /\ AtPath(n) # NoEvent /\ hosted[n].id = editing.id THEN untold \cup {n} ELSE untold
     /\ editing' = NoEdit
     /\ UNCHANGED <<lastRow, history, serving, commit, held, mark, requests, named>>

\* A cycle takes the writes announced, then the pending rows it finds; the
\* announcement of a row that was found already may come later.
\* server_commit_local_write reads the row, pending or not,
BeginCommit(n) ==
  /\ commit = NoCommit /\ hosted[n] # NoEvent
  /\ \/ hosted[n].id \in announced /\ announced' = announced \ {hosted[n].id}
     \/ hosted[n].status \in {"create", "update", "delete"} /\ UNCHANGED announced
  /\ commit' = [name |-> n, row |-> hosted[n], at |-> "store"]
  /\ UNCHANGED <<hosted, lastRow, history, serving, editing, held, mark, requests, named, untold>>

\* then writes what it makes of it to the row, if there still is one of its id,
StoreCommit ==
  LET n == commit.name IN
  /\ commit # NoCommit /\ commit.at = "store"
  /\ hosted' = [hosted EXCEPT ![n] =
       IF @.id # commit.row.id THEN @
       ELSE IF commit.row.status = "delete" THEN NoEvent
       ELSE [@ EXCEPT !.etag = commit.row.says, !.status = "synced"]]
  /\ commit' = [commit EXCEPT !.at = "log"]
  /\ UNCHANGED <<lastRow, history, serving, announced, editing, held, mark, requests, named, untold>>

\* and tells the log.
LogCommit ==
  /\ commit # NoCommit /\ commit.at = "log"
  /\ AppendSyncLog(commit.name, commit.row.status = "delete")
  /\ commit' = NoCommit
  /\ UNCHANGED <<hosted, lastRow, serving, announced, editing, held, mark, requests, named>>

-----------------------------------------------------------------------------
\* Something has changed the row of n and has yet to tell the log.
Unlogged(n) ==
  \/ \E u \in User : LET r == serving[u] IN r.op \in {"put", "delete"} /\ r.name = n /\ r.at = "log"
  \/ commit # NoCommit /\ commit.name = n /\ commit.at = "log"

\* jamaild dies: what was stored and not logged is never told.
JamaildDies ==
  /\ commit # NoCommit \/ \E u \in User : serving[u] # NoServing
  /\ untold' = untold \cup {n \in Name : Unlogged(n)}
  /\ serving' = [u \in User |-> NoServing] /\ announced' = {} /\ commit' = NoCommit
  /\ UNCHANGED <<hosted, lastRow, history, editing, held, mark, requests, named>>

HostedNext ==
  \/ \E u \in User :
        \/ StorePut(u) \/ LogPut(u) \/ StoreDelete(u) \/ LogDelete(u)
        \/ SyncCollection(u) \/ ReportDone(u) \/ ServerListEvents(u)
        \/ \E n \in Name :
              \/ LoadMember(u, n) \/ GetEvent(u, n)
              \/ \E pre \in {"none", "match", "absent"} :
                    DeleteEvent(u, n, pre) \/ \E t \in Wording : PutEvent(u, n, t, pre)
  \/ \E n \in Name : LocalRead(n, "edit") \/ LocalRead(n, "delete") \/ BeginCommit(n)
                     \/ \E t \in Wording : LocalCreate(n, t)
  \/ LocalDelete \/ \E t \in Wording : LocalEdit(t)
  \/ StoreCommit \/ LogCommit \/ JamaildDies

-----------------------------------------------------------------------------
(* What its clients may rely on.                                             *)

\* Nothing is under way that has changed the row and not told the log, and no
\* write of jacal waits to be committed.
Logged(n) == n \notin untold /\ hosted[n].status \in {Absent, "synced"} /\ ~Unlogged(n)

\* A client whose token covers the newest entry of a name has what the server
\* has of it, however its REPORT was interleaved with the statements of other
\* requests, of jacal and of the sync thread; unless a crash, a DELETE crossing a
\* PUT, or jacal's deletion of a row committed after jacal read it, has left the
\* log without an entry that says what became of the row
\* ("which is what answers what changed since token N", db.rs).
HeldAsLogged ==
  \A u \in User, n \in Name :
    (Logged(n) /\ Newest(mark[u], n) = {}) => held[u][n].says = AtPath(n).says
=============================================================================
