------------------------------- MODULE Outbox -------------------------------
(***************************************************************************)
(* What becomes of a message written in jamail: the compose state, drafts  *)
(* and send results of app.rs, its main loop's handling of them, the rows  *)
(* of local_messages (db.rs), the send worker (smtp.rs) and the sync       *)
(* thread's uploads (sync.rs).                                             *)
(*                                                                         *)
(* A text stands for all the fields of a message; every edit makes a new   *)
(* one. The list of drafts on screen is a copy of the rows, taken when it  *)
(* is loaded. The send worker and the sync thread work beside the user,    *)
(* and answer through channels that jamail drains. jamail may be quit at   *)
(* any time, and jamaild may die with the uploads it was given.            *)
(***************************************************************************)
EXTENDS Naturals, Sequences

CONSTANTS
  SentFolder,   \* whether the account has a sent_folder
  DraftFolder,  \* whether it has a draft_folder
  MaxDrafts,    \* bound: rows ever made
  MaxTexts,     \* bound: edits
  MaxSends,     \* bound: times the user sends
  MaxSessions   \* bound: times jamail is started, or jamaild started again

ASSUME OutboxAssumption ==
  /\ SentFolder \in BOOLEAN /\ DraftFolder \in BOOLEAN
  /\ MaxDrafts \in Nat /\ MaxTexts \in Nat /\ MaxSends \in Nat /\ MaxSessions \in Nat \ {0}

VARIABLES
  rows,       \* local_messages, by id
  made,       \* rows ever made: ids are never used twice
  compose,    \* the message being written: whether open, its row (0: none), its text
  texts,      \* edits made
  shown,      \* whether the list on screen is the Drafts folder
  listed,     \* local_messages of the app: the texts the list was loaded with
  jobs,       \* the send queue, first to be sent first
  results,    \* what the worker has answered and jamail has not taken
  uploads,    \* uploads on their way to the sync thread
  news,       \* UploadComplete and UploadError events on their way back
  sends,      \* times the user sent
  session,    \* times jamail was started, or jamaild started again
  delivered,  \* history: what the SMTP server accepted, <<row, text>>
  copies,     \* history: the rows that were appended to a remote folder
  retried     \* history: rows that were resumed when they were no plain draft

storeVars == <<rows, made>>
screenVars == <<compose, texts, shown, listed>>
channelVars == <<jobs, results, uploads, news>>
historyVars == <<delivered, copies, retried>>
vars == <<storeVars, screenVars, channelVars, historyVars, sends, session>>

Ids == 1 .. MaxDrafts
NoText == 0
NoRow == [status |-> "absent", upload |-> "none", text |-> NoText]
Closed == [open |-> FALSE, id |-> 0, text |-> NoText]

Init ==
  /\ rows = [i \in Ids |-> NoRow] /\ made = 0
  /\ compose = Closed /\ texts = 0
  /\ shown = FALSE /\ listed = [i \in Ids |-> NoText]
  /\ jobs = <<>> /\ results = <<>> /\ uploads = <<>> /\ news = <<>>
  /\ sends = 0 /\ session = 1
  /\ delivered = {} /\ copies = {} /\ retried = {}

-----------------------------------------------------------------------------
(* The rows. An UPDATE of a row that was deleted changes nothing. *)

IsDraftRow(r) == r.status \in {"draft", "sending", "send_error"}

Drafts(rs) == [i \in Ids |-> IF IsDraftRow(rs[i]) THEN rs[i].text ELSE NoText]

\* refresh_virtual_folder_if_shown, after the rows became rs.
Reloaded(rs) == IF shown THEN Drafts(rs) ELSE listed

WithStatus(rs, i, s) ==
  IF i \in Ids /\ rs[i].status # "absent" THEN [rs EXCEPT ![i].status = s] ELSE rs

WithUpload(rs, i, u) ==
  IF i \in Ids /\ rs[i].status # "absent" THEN [rs EXCEPT ![i].upload = u] ELSE rs

\* The row the open message is saved to.
SavedId == IF compose.id = 0 THEN made + 1 ELSE compose.id

\* A message without a row gets one; otherwise its row is updated, but only
\* while its status is draft: a row being sent, or whose send failed, keeps
\* its text and the save is reported all the same.
SavedRows ==
  IF compose.id = 0
  THEN [rows EXCEPT ![made + 1] = [status |-> "draft", upload |-> "none", text |-> compose.text]]
  ELSE IF rows[compose.id].status = "draft"
       THEN [rows EXCEPT ![compose.id].text = compose.text]
       ELSE rows

CanSave == compose.open /\ (compose.id = 0 => made < MaxDrafts)

Upload(k, i, t) == [kind |-> k, id |-> i, text |-> t]

-----------------------------------------------------------------------------
(* Writing. *)

ComposeNew ==
  /\ ~compose.open
  /\ compose' = [open |-> TRUE, id |-> 0, text |-> NoText]
  /\ UNCHANGED <<storeVars, texts, shown, listed, channelVars, historyVars, sends, session>>

Edit ==
  /\ compose.open /\ texts < MaxTexts
  /\ texts' = texts + 1
  /\ compose' = [compose EXCEPT !.text = texts + 1]
  /\ UNCHANGED <<storeVars, shown, listed, channelVars, historyVars, sends, session>>

Cancel ==
  /\ compose.open
  /\ compose' = Closed
  /\ UNCHANGED <<storeVars, texts, shown, listed, channelVars, historyVars, sends, session>>

\* Ctrl+S: saved, and uploaded when the row is new. The list is not reloaded.
SaveDraft ==
  LET uploaded == compose.id = 0 /\ DraftFolder IN
  /\ CanSave
  /\ rows' = IF uploaded THEN WithUpload(SavedRows, SavedId, "pending") ELSE SavedRows
  /\ made' = IF compose.id = 0 THEN made + 1 ELSE made
  /\ compose' = [compose EXCEPT !.id = SavedId]
  /\ uploads' = IF uploaded THEN Append(uploads, Upload("Draft", SavedId, compose.text)) ELSE uploads
  /\ UNCHANGED <<texts, shown, listed, jobs, results, news, historyVars, sends, session>>

\* Ctrl+X: saved, its row flipped to sending whatever its status was, and
\* queued for the worker.
Send ==
  /\ CanSave /\ sends < MaxSends
  /\ compose.text # NoText
  /\ rows' = WithStatus(SavedRows, SavedId, "sending")
  /\ made' = IF compose.id = 0 THEN made + 1 ELSE made
  /\ listed' = Reloaded(rows')
  /\ jobs' = Append(jobs, [id |-> SavedId, text |-> compose.text])
  /\ compose' = Closed
  /\ sends' = sends + 1
  /\ UNCHANGED <<texts, shown, results, uploads, news, delivered, copies, retried, session>>

-----------------------------------------------------------------------------
(* The list of drafts. *)

ShowDrafts ==
  /\ ~compose.open
  /\ shown' = TRUE
  /\ listed' = Drafts(rows)
  /\ UNCHANGED <<storeVars, compose, texts, channelVars, historyVars, sends, session>>

ShowFolder ==
  /\ ~compose.open /\ shown
  /\ shown' = FALSE
  /\ listed' = [i \in Ids |-> NoText]
  /\ UNCHANGED <<storeVars, compose, texts, channelVars, historyVars, sends, session>>

\* The row is opened with the text of the list.
Resume(i) ==
  /\ ~compose.open /\ shown /\ listed[i] # NoText
  /\ compose' = [open |-> TRUE, id |-> i, text |-> listed[i]]
  /\ retried' = IF rows[i].status = "draft" THEN retried ELSE retried \cup {i}
  /\ UNCHANGED <<storeVars, texts, shown, listed, channelVars, delivered, copies, sends, session>>

\* A row being sent can be deleted too.
Delete(i) ==
  /\ ~compose.open /\ shown /\ listed[i] # NoText
  /\ rows' = IF IsDraftRow(rows[i]) THEN [rows EXCEPT ![i] = NoRow] ELSE rows
  /\ listed' = Drafts(rows')
  /\ UNCHANGED <<made, compose, texts, shown, channelVars, historyVars, sends, session>>

-----------------------------------------------------------------------------
(* The send worker, and its answers. *)

\* Accepted, refused, or accepted by a server whose answer was lost.
Worker ==
  /\ jobs # <<>>
  /\ LET j == Head(jobs) IN
     \E accepted, answered \in BOOLEAN :
       /\ answered => accepted
       /\ delivered' = IF accepted THEN delivered \cup {<<j.id, j.text>>} ELSE delivered
       /\ results' = Append(results, [id |-> j.id, text |-> j.text, ok |-> answered])
  /\ jobs' = Tail(jobs)
  /\ UNCHANGED <<storeVars, screenVars, uploads, news, copies, retried, sends, session>>

\* Mutant of TakeResult: a message is sent when its worker has answered.
TakeResultAsSent ==
  /\ results # <<>>
  /\ LET r == Head(results) IN
     /\ rows' = WithUpload(WithStatus(rows, r.id, "sent"), r.id, IF SentFolder THEN "pending" ELSE "none")
     /\ uploads' = IF SentFolder THEN Append(uploads, Upload("Sent", r.id, r.text)) ELSE uploads
  /\ results' = Tail(results)
  /\ listed' = Reloaded(rows')
  /\ UNCHANGED <<made, compose, texts, shown, jobs, news, historyVars, sends, session>>

TakeResult ==
  /\ results # <<>>
  /\ LET r == Head(results)
         uploaded == r.ok /\ SentFolder
         marked == WithStatus(rows, r.id, IF r.ok THEN "sent" ELSE "send_error") IN
     /\ rows' = IF uploaded THEN WithUpload(marked, r.id, "pending") ELSE marked
     /\ uploads' = IF uploaded THEN Append(uploads, Upload("Sent", r.id, r.text)) ELSE uploads
  /\ results' = Tail(results)
  /\ listed' = Reloaded(rows')
  /\ UNCHANGED <<made, compose, texts, shown, jobs, news, historyVars, sends, session>>

-----------------------------------------------------------------------------
(* The uploads, and what is heard of them. *)

\* The sync thread appends the message and says how that went.
AppendUpload ==
  /\ uploads # <<>>
  /\ LET u == Head(uploads) IN
     \E ok \in BOOLEAN :
       /\ copies' = IF ok THEN copies \cup {u.id} ELSE copies
       /\ news' = Append(news, [kind |-> u.kind, id |-> u.id, ok |-> ok])
  /\ uploads' = Tail(uploads)
  /\ UNCHANGED <<storeVars, screenVars, jobs, results, delivered, retried, sends, session>>

\* The kind of the upload is not looked at.
TakeNews ==
  /\ news # <<>>
  /\ rows' = WithUpload(rows, Head(news).id, IF Head(news).ok THEN "uploaded" ELSE "error")
  /\ news' = Tail(news)
  /\ listed' = Reloaded(rows')
  /\ UNCHANGED <<made, compose, texts, shown, jobs, results, uploads, historyVars, sends, session>>

\* jamaild dies with the uploads it was given and the events it had not sent:
\* the rows stay pending.
DaemonDies ==
  /\ uploads # <<>> \/ news # <<>>
  /\ session < MaxSessions
  /\ session' = session + 1
  /\ uploads' = <<>> /\ news' = <<>>
  /\ UNCHANGED <<storeVars, screenVars, jobs, results, historyVars, sends>>

\* jamail is quit and started again: what was in its memory is gone, and the
\* events that came in between went to nobody.
Quit ==
  /\ session < MaxSessions
  /\ session' = session + 1
  /\ compose' = Closed /\ shown' = FALSE /\ listed' = [i \in Ids |-> NoText]
  /\ jobs' = <<>> /\ results' = <<>> /\ news' = <<>>
  /\ UNCHANGED <<storeVars, texts, uploads, delivered, copies, retried, sends>>

-----------------------------------------------------------------------------
User ==
  \/ ComposeNew \/ Edit \/ Cancel \/ SaveDraft \/ Send
  \/ ShowDrafts \/ ShowFolder
  \/ \E i \in Ids : Resume(i) \/ Delete(i)
  \/ Quit

Next == User \/ Worker \/ TakeResult \/ AppendUpload \/ TakeNews \/ DaemonDies

Spec == Init /\ [][Next]_vars

-----------------------------------------------------------------------------
(* What jamail promises about a message it was given to send. *)

\* A row is in the Sent list only if the server took the message, through
\* retries, failed sends and lost answers (App::handle_send_result); and the
\* text it shows is one that was sent, unless the row was taken up again while
\* it was being sent or after its send failed: such a row keeps the text it
\* had (MailDb::update_draft).
SentWasSent ==
  \A i \in Ids :
    rows[i].status = "sent" =>
      /\ \E d \in delivered : d[1] = i
      /\ i \notin retried => <<i, rows[i].text>> \in delivered

\* A row says it was uploaded only if a copy of it is on the server: as a
\* draft, or as a sent message (App::handle_upload_event does not tell the
\* two apart).
UploadedIsThere ==
  \A i \in Ids : rows[i].upload = "uploaded" => i \in copies

\* What the lists of drafts and sent messages say of a row is true.
ListsAreTrue == SentWasSent /\ UploadedIsThere
=============================================================================
