---------------------------- MODULE OutboxProofs ----------------------------
(***************************************************************************)
(* That the lists of drafts and sent messages tell what became of them     *)
(* (Outbox), that the preview is the attachment selected and what goes out *)
(* is what the form said, and that its body is a text with a caret in it   *)
(* (ComposeForm).                                                          *)
(***************************************************************************)
EXTENDS Outbox, ComposeForm, FiniteSetTheorems, WellFoundedInduction, TLAPS

(* Queues, by what is in them.                                               *)

In(s) == {s[k] : k \in DOMAIN s}

LEMMA InAppend ==
  ASSUME NEW S, NEW s \in Seq(S), NEW x \in S
  PROVE  Append(s, x) \in Seq(S) /\ In(Append(s, x)) = In(s) \cup {x}
  <1>1. /\ Append(s, x) \in Seq(S) /\ DOMAIN Append(s, x) = 1 .. Len(s) + 1
        /\ \A k \in 1 .. Len(s) : Append(s, x)[k] = s[k]
        /\ Append(s, x)[Len(s) + 1] = x /\ DOMAIN s = 1 .. Len(s) /\ Len(s) \in Nat
    OBVIOUS
  <1> QED BY <1>1 DEF In

LEMMA InTail ==
  ASSUME NEW S, NEW s \in Seq(S), s # <<>>
  PROVE  Tail(s) \in Seq(S) /\ In(Tail(s)) \subseteq In(s) /\ Head(s) \in In(s) /\ In(s) \subseteq S
  <1>1. /\ Tail(s) \in Seq(S) /\ DOMAIN Tail(s) = 1 .. Len(s) - 1
        /\ \A k \in 1 .. Len(s) - 1 : Tail(s)[k] = s[k + 1]
        /\ Head(s) = s[1] /\ DOMAIN s = 1 .. Len(s) /\ Len(s) \in Nat /\ Len(s) # 0
        /\ \A k \in 1 .. Len(s) : s[k] \in S
    OBVIOUS
  <1> QED BY <1>1 DEF In

LEMMA InEmpty == ASSUME NEW S PROVE <<>> \in Seq(S) /\ In(<<>>) = {}
  BY DEF In

-----------------------------------------------------------------------------
(* Why the lists are true.                                                   *)

Row == [status : {"absent", "draft", "sending", "send_error", "sent"},
        upload : {"none", "pending", "uploaded", "error"}, text : Nat]
Writing == [open : BOOLEAN, id : 0 .. MaxDrafts, text : Nat]
Job == [id : Ids, text : Nat]
Result == [id : Ids, text : Nat, ok : BOOLEAN]
News == [kind : {"Draft", "Sent"}, id : Ids, ok : BOOLEAN]
Uploading == [kind : {"Draft", "Sent"}, id : Ids, text : Nat]

TypeOK ==
  /\ rows \in [Ids -> Row] /\ made \in 0 .. MaxDrafts
  /\ compose \in Writing
  /\ texts \in Nat
  /\ listed \in [Ids -> Nat]
  /\ jobs \in Seq(Job) /\ results \in Seq(Result)
  /\ uploads \in Seq(Uploading) /\ news \in Seq(News)
  /\ delivered \subseteq Ids \X Nat

\* Ids are handed out in order.
MadeInOrder ==
  /\ compose.id <= made
  /\ \A i \in Ids : i > made => rows[i].status = "absent" /\ listed[i] = NoText
  /\ \A j \in In(jobs) \cup In(results) : j.id <= made

\* A row whose message was given to the worker is no draft any more, and keeps
\* the text that was given unless it was taken up again.
GivenStays ==
  \A j \in In(jobs) \cup In(results) :
    /\ rows[j.id].status # "draft"
    /\ j.id \notin retried /\ rows[j.id].status # "absent" => rows[j.id].text = j.text

\* The row of the message being written is a draft, or was taken up when it was none.
WritesDraft ==
  compose.open /\ compose.id # 0 /\ compose.id \notin retried
    => rows[compose.id].status = "draft"

\* Answers and events tell what happened.
AnswersTrue ==
  /\ \A r \in In(results) : r.ok => <<r.id, r.text>> \in delivered
  /\ \A n \in In(news) : n.ok => n.id \in copies

ListInv == TypeOK /\ MadeInOrder /\ GivenStays /\ WritesDraft /\ AnswersTrue /\ ListsAreTrue

USE OutboxAssumption

LEMMA ListsInit == Init => ListInv
  BY InEmpty DEF Init, ListInv, TypeOK, MadeInOrder, GivenStays, WritesDraft, AnswersTrue, ListsAreTrue,
     SentWasSent, UploadedIsThere, Closed, NoRow, NoText, Row, Ids, Writing

LEMMA WritingText ==
  ASSUME NEW c \in Writing, NEW n \in Nat
  PROVE  [c EXCEPT !.text = n] \in Writing /\ [c EXCEPT !.text = n].id = c.id
  BY DEF Writing

LEMMA WritingId ==
  ASSUME NEW c \in Writing, NEW i \in 0 .. MaxDrafts
  PROVE  /\ [c EXCEPT !.id = i] \in Writing
         /\ [c EXCEPT !.id = i].id = i /\ [c EXCEPT !.id = i].open = c.open
  BY DEF Writing

LEMMA DraftsType == ASSUME NEW rs \in [Ids -> Row] PROVE Drafts(rs) \in [Ids -> Nat]
  BY DEF Drafts, Row, NoText

\* A reload of the list does not show what is not there.
LEMMA ReloadKeeps ==
  ASSUME TypeOK, MadeInOrder, NEW rs \in [Ids -> Row], NEW n \in Nat,
         \A i \in Ids : i > n => rs[i].status = "absent" /\ i > made
  PROVE  Reloaded(rs) \in [Ids -> Nat] /\ \A i \in Ids : i > n => Reloaded(rs)[i] = NoText
  <1>1. Drafts(rs) \in [Ids -> Nat] /\ listed \in [Ids -> Nat]
    BY DraftsType DEF TypeOK
  <1>2. \A i \in Ids : i > n => Drafts(rs)[i] = NoText
    BY DEF Drafts, IsDraftRow
  <1>3. \A i \in Ids : i > n => listed[i] = NoText
    BY DEF MadeInOrder
  <1> QED BY <1>1, <1>2, <1>3 DEF Reloaded

LEMMA WritingKeeps ==
  ASSUME ListInv, ComposeNew \/ Edit \/ Cancel
  PROVE  ListInv'
  <1> USE DEF ListInv
  <1>1. UNCHANGED <<rows, made, listed, jobs, results, uploads, news, delivered, copies, retried>>
    BY DEF ComposeNew, Edit, Cancel, storeVars, channelVars, historyVars
  <1>2. /\ compose' \in Writing /\ texts' \in Nat
        /\ compose'.id = 0 \/ (compose.open /\ compose'.id = compose.id)
    <2>1. CASE Edit
      <3>1. compose' = [compose EXCEPT !.text = texts + 1] /\ texts' = texts + 1 /\ compose.open
        BY <2>1 DEF Edit
      <3>2. compose \in Writing /\ texts + 1 \in Nat
        BY DEF TypeOK
      <3> QED BY <3>1, <3>2, WritingText
    <2>2. CASE ComposeNew \/ Cancel
      <3>1. /\ texts' = texts
            /\ \E b \in BOOLEAN : compose' = [open |-> b, id |-> 0, text |-> 0]
        BY <2>2 DEF ComposeNew, Cancel, Closed, NoText
      <3>2. \A b \in BOOLEAN : [open |-> b, id |-> 0, text |-> 0] \in Writing
        BY DEF Writing
      <3>3. compose' \in Writing /\ compose'.id = 0
        BY <3>1, <3>2
      <3> QED BY <3>1, <3>3 DEF TypeOK
    <2> QED BY <2>1, <2>2
  <1>3. TypeOK'
    BY <1>1, <1>2 DEF TypeOK
  <1>6. compose'.id <= made
    BY <1>2 DEF MadeInOrder, TypeOK, Writing
  <1>4. MadeInOrder' /\ WritesDraft'
    BY <1>1, <1>2, <1>6 DEF MadeInOrder, WritesDraft
  <1>5. GivenStays' /\ AnswersTrue' /\ ListsAreTrue'
    BY <1>1 DEF GivenStays, AnswersTrue, ListsAreTrue, SentWasSent, UploadedIsThere
  <1> QED BY <1>3, <1>4, <1>5

\* What a save makes of the rows: the row of the message is a new draft, or a
\* draft with a new text, or it is left as it is.
LEMMA SavedRow ==
  ASSUME TypeOK, MadeInOrder, CanSave
  PROVE  /\ SavedId \in Ids /\ SavedRows \in [Ids -> Row]
         /\ \A i \in Ids \ {SavedId} : SavedRows[i] = rows[i]
         /\ \/ compose.id = 0 /\ SavedId = made + 1
               /\ SavedRows[SavedId] = [status |-> "draft", upload |-> "none", text |-> compose.text]
            \/ /\ compose.id \in Ids /\ SavedId = compose.id
               /\ \/ /\ rows[compose.id].status = "draft"
                     /\ SavedRows[SavedId].status = "draft" /\ SavedRows[SavedId].text = compose.text
                     /\ SavedRows[SavedId].upload = rows[compose.id].upload
                  \/ rows[compose.id].status # "draft" /\ SavedRows[SavedId] = rows[compose.id]
  <1>1. CASE compose.id = 0
    BY <1>1, SMTT(30) DEF TypeOK, MadeInOrder, CanSave, SavedId, SavedRows, Ids, Row, Writing
  <1>2. CASE compose.id # 0
    <2>1. PICK i \in Ids : i = compose.id
      BY <1>2 DEF TypeOK, Ids, Writing
    <2>2. rows[i] \in Row /\ compose.text \in Nat
      BY DEF TypeOK, Writing
    <2>3. [rows[i] EXCEPT !.text = compose.text] \in Row
      BY <2>2 DEF Row
    <2>4. SavedId = i /\ SavedRows = IF rows[i].status = "draft"
                                    THEN [rows EXCEPT ![i].text = compose.text] ELSE rows
      BY <1>2, <2>1 DEF SavedId, SavedRows
    <2>5. CASE rows[i].status = "draft"
      <3>1. SavedRows[i] = [rows[i] EXCEPT !.text = compose.text]
            /\ SavedRows \in [Ids -> Row] /\ \A j \in Ids \ {i} : SavedRows[j] = rows[j]
        BY <2>3, <2>4, <2>5 DEF TypeOK
      <3>2. SavedRows[i].status = rows[i].status /\ SavedRows[i].text = compose.text
            /\ SavedRows[i].upload = rows[i].upload
        BY <2>2, <3>1 DEF Row
      <3> QED BY <2>1, <2>4, <2>5, <3>1, <3>2
    <2>6. CASE rows[i].status # "draft"
      BY <2>1, <2>4, <2>6 DEF TypeOK
    <2> QED BY <2>5, <2>6
  <1> QED BY <1>1, <1>2

LEMMA InSets ==
  ASSUME TypeOK
  PROVE  /\ In(jobs) \subseteq Job /\ In(results) \subseteq Result
         /\ In(uploads) \subseteq Uploading /\ In(news) \subseteq News
  BY DEF In, TypeOK

\* A status or a note of the upload is written in a row that is there, or nowhere.
LEMMA Marked ==
  ASSUME NEW rs \in [Ids -> Row], NEW i \in Ids,
         NEW s \in {"sending", "send_error", "sent"}, NEW u \in {"none", "pending", "uploaded", "error"}
  PROVE  /\ WithStatus(rs, i, s) \in [Ids -> Row] /\ WithUpload(rs, i, u) \in [Ids -> Row]
         /\ \A j \in Ids \ {i} : WithStatus(rs, i, s)[j] = rs[j] /\ WithUpload(rs, i, u)[j] = rs[j]
         /\ \A j \in Ids : /\ WithStatus(rs, i, s)[j].text = rs[j].text
                           /\ WithStatus(rs, i, s)[j].upload = rs[j].upload
                           /\ WithUpload(rs, i, u)[j].text = rs[j].text
                           /\ WithUpload(rs, i, u)[j].status = rs[j].status
         /\ WithStatus(rs, i, s)[i].status = IF rs[i].status = "absent" THEN "absent" ELSE s
         /\ WithUpload(rs, i, u)[i].upload = IF rs[i].status = "absent" THEN rs[i].upload ELSE u
  <1>1. CASE rs[i].status = "absent"
    BY <1>1 DEF WithStatus, WithUpload
  <1>2. CASE rs[i].status # "absent"
    <2>1. WithStatus(rs, i, s) = [rs EXCEPT ![i].status = s] /\ WithUpload(rs, i, u) = [rs EXCEPT ![i].upload = u]
      BY <1>2 DEF WithStatus, WithUpload
    <2>2. rs[i] \in Row
      OBVIOUS
    <2>3. [rs[i] EXCEPT !.status = s] \in Row /\ [rs[i] EXCEPT !.upload = u] \in Row
      BY <2>2 DEF Row
    <2>4. /\ WithStatus(rs, i, s)[i] = [rs[i] EXCEPT !.status = s]
          /\ WithUpload(rs, i, u)[i] = [rs[i] EXCEPT !.upload = u]
          /\ WithStatus(rs, i, s) \in [Ids -> Row] /\ WithUpload(rs, i, u) \in [Ids -> Row]
          /\ \A j \in Ids \ {i} : WithStatus(rs, i, s)[j] = rs[j] /\ WithUpload(rs, i, u)[j] = rs[j]
      BY <2>1, <2>3
    <2>5. /\ WithStatus(rs, i, s)[i].text = rs[i].text /\ WithStatus(rs, i, s)[i].upload = rs[i].upload
          /\ WithUpload(rs, i, u)[i].text = rs[i].text /\ WithUpload(rs, i, u)[i].status = rs[i].status
          /\ WithStatus(rs, i, s)[i].status = s /\ WithUpload(rs, i, u)[i].upload = u
      BY <2>2, <2>4 DEF Row
    <2> QED BY <1>2, <2>4, <2>5
  <1> QED BY <1>1, <1>2

LEMMA SaveDraftKeeps == ASSUME ListInv, SaveDraft PROVE ListInv'
  <1> USE DEF ListInv
  <1> DEFINE uploaded == compose.id = 0 /\ DraftFolder
  <1>1. /\ CanSave
        /\ rows' = IF uploaded THEN WithUpload(SavedRows, SavedId, "pending") ELSE SavedRows
        /\ made' = (IF compose.id = 0 THEN made + 1 ELSE made)
        /\ compose' = [compose EXCEPT !.id = SavedId]
        /\ uploads' = IF uploaded THEN Append(uploads, Upload("Draft", SavedId, compose.text)) ELSE uploads
        /\ UNCHANGED <<texts, listed, jobs, results, news, delivered, copies, retried>>
    BY DEF SaveDraft, historyVars
  <1>2. PICK i \in Ids : i = SavedId
    BY <1>1, SavedRow
  <1>3. /\ rows' \in [Ids -> Row] /\ \A j \in Ids \ {i} : rows'[j] = rows[j]
        /\ \/ /\ compose.id = 0 /\ i = made + 1 /\ made' = made + 1
              /\ rows'[i].status = "draft" /\ rows'[i].upload \in {"none", "pending"}
           \/ /\ compose.id = i /\ rows'[i].upload = rows[i].upload /\ made' = made
              /\ \/ rows[i].status = "draft" /\ rows'[i].status = "draft"
                 \/ rows[i].status # "draft" /\ rows'[i] = rows[i]
    <2>0. /\ SavedRows \in [Ids -> Row] /\ \A j \in Ids \ {i} : SavedRows[j] = rows[j]
          /\ \/ /\ compose.id = 0 /\ i = made + 1 /\ made' = made + 1
                /\ SavedRows[i].status = "draft" /\ SavedRows[i].upload = "none"
             \/ /\ compose.id = i /\ compose.id # 0 /\ made' = made /\ SavedRows[i].upload = rows[i].upload
                /\ \/ rows[i].status = "draft" /\ SavedRows[i].status = "draft"
                   \/ rows[i].status # "draft" /\ SavedRows[i] = rows[i]
      BY <1>1, <1>2, SavedRow DEF Ids
    <2>1. CASE uploaded
      <3>1. rows' = WithUpload(SavedRows, i, "pending") /\ SavedRows \in [Ids -> Row]
        BY <1>1, <1>2, <2>1, SavedRow
      <3>2. rows'[i].status = SavedRows[i].status /\ rows' \in [Ids -> Row]
            /\ \A j \in Ids \ {i} : rows'[j] = SavedRows[j]
        BY <3>1, Marked
      <3>3. rows'[i].upload = IF SavedRows[i].status = "absent" THEN SavedRows[i].upload ELSE "pending"
        BY <3>1, Marked
      <3> QED BY <2>0, <2>1, <3>2, <3>3
    <2>2. CASE ~uploaded
      BY <1>1, <2>0, <2>2
    <2> QED BY <2>1, <2>2
  <1>4. compose' \in Writing /\ compose'.id = i /\ compose'.id <= made' /\ compose.text \in Nat
        /\ compose.open /\ compose \in Writing /\ made \in Nat /\ i \in Nat
    BY <1>1, <1>2, <1>3, WritingId, SMTT(30) DEF TypeOK, CanSave, MadeInOrder, Writing, Ids
  <1>5. uploads' \in Seq(Uploading)
    BY <1>1, <1>2, <1>4, InAppend DEF TypeOK, Upload, Uploading
  <1>6. TypeOK'
    BY <1>1, <1>3, <1>4, <1>5, SMTT(30) DEF TypeOK, Ids
  <1>7. \A j \in In(jobs) \cup In(results) : j.id \in Ids
    BY InSets DEF Job, Result
  <1>8. MadeInOrder'
    BY <1>1, <1>3, <1>4, <1>7, SMTT(30) DEF MadeInOrder, Ids
  <1>9. compose.id # 0 /\ i \notin retried => rows[i].status = "draft"
    BY <1>3, <1>4 DEF WritesDraft
  <1>10. \A j \in In(jobs) \cup In(results) : j.id = i => rows'[i] = rows[i]
    BY <1>3, <1>4 DEF MadeInOrder, GivenStays
  <1>11. GivenStays'
    BY <1>1, <1>3, <1>7, <1>10 DEF GivenStays
  <1>12. WritesDraft'
    BY <1>1, <1>3, <1>4, <1>9 DEF WritesDraft
  <1>13. \A j \in Ids : rows'[j].status = "sent" => rows'[j] = rows[j]
    BY <1>3
  <1>14. \A j \in Ids : rows'[j].upload = "uploaded" => rows[j].upload = "uploaded"
    BY <1>3
  <1>15. AnswersTrue' /\ ListsAreTrue'
    BY <1>1, <1>13, <1>14 DEF AnswersTrue, ListsAreTrue, SentWasSent, UploadedIsThere
  <1> QED BY <1>6, <1>8, <1>11, <1>12, <1>15

LEMMA SendKeeps == ASSUME ListInv, Send PROVE ListInv'
  <1> USE DEF ListInv
  <1> DEFINE job == [id |-> SavedId, text |-> compose.text]
  <1>1. /\ CanSave /\ rows' = WithStatus(SavedRows, SavedId, "sending")
        /\ made' = (IF compose.id = 0 THEN made + 1 ELSE made)
        /\ listed' = Reloaded(rows') /\ jobs' = Append(jobs, job) /\ compose' = Closed
        /\ UNCHANGED <<texts, results, uploads, news, delivered, copies, retried>>
    BY DEF Send
  <1>2. PICK i \in Ids : i = SavedId
    BY <1>1, SavedRow
  <1>3. SavedRows \in [Ids -> Row] /\ rows' = WithStatus(SavedRows, i, "sending")
    BY <1>1, <1>2, SavedRow
  <1>4. /\ rows' \in [Ids -> Row] /\ \A j \in Ids \ {i} : rows'[j] = rows[j]
        /\ rows'[i].text = SavedRows[i].text /\ rows'[i].upload = SavedRows[i].upload
        /\ rows'[i].status \in {"absent", "sending"}
        /\ rows'[i].status = "absent" => SavedRows[i].status = "absent"
    BY <1>2, <1>3, Marked, SavedRow, <1>1
  <1>5. \/ /\ compose.id = 0 /\ i = made + 1 /\ made' = made + 1 /\ rows'[i].upload = "none"
           /\ rows'[i].text = compose.text
        \/ /\ compose.id = i /\ made' = made /\ rows'[i].upload = rows[i].upload
           /\ rows[i].status = "draft" => rows'[i].text = compose.text
           /\ rows[i].status # "draft" => rows'[i].text = rows[i].text
           /\ rows'[i].status = "absent" => rows[i].status = "absent"
    BY <1>1, <1>2, <1>4, SavedRow
  <1>6. /\ compose.text \in Nat /\ compose.open /\ compose \in Writing /\ made \in Nat /\ i \in Nat
        /\ compose.id <= made /\ i <= made' /\ made' \in 0 .. MaxDrafts /\ made' \in Nat /\ made <= made'
    BY <1>1, <1>2, <1>5 DEF TypeOK, CanSave, MadeInOrder, Writing, Ids
  <1>7. job \in Job /\ job.id = i /\ job.text = compose.text
    BY <1>2, <1>6 DEF Job
  <1> HIDE DEF job
  <1>8. jobs' \in Seq(Job) /\ In(jobs') = In(jobs) \cup {job}
    BY <1>1, <1>7, InAppend DEF TypeOK
  <1>9. \A j \in In(jobs) \cup In(results) : j.id \in Ids
    BY InSets DEF Job, Result
  <1>10. \A j \in Ids : j > made' => rows'[j].status = "absent" /\ j > made
    BY <1>4, <1>5, <1>6 DEF MadeInOrder, Ids
  <1>11. listed' \in [Ids -> Nat] /\ \A j \in Ids : j > made' => listed'[j] = NoText
    BY <1>1, <1>4, <1>6, <1>10, ReloadKeeps, ZenonT(60)
  <1>12. compose' \in Writing /\ compose'.id = 0 /\ ~compose'.open
    BY <1>1, <1>6 DEF Closed, Writing, NoText, TypeOK
  <1>13. TypeOK'
    BY <1>1, <1>4, <1>6, <1>8, <1>11, <1>12 DEF TypeOK
  <1>14. MadeInOrder'
    BY <1>1, <1>6, <1>7, <1>8, <1>9, <1>10, <1>11, <1>12 DEF MadeInOrder, Ids
  <1>15. compose.id # 0 /\ i \notin retried => rows[i].status = "draft"
    BY <1>5, <1>6 DEF WritesDraft
  <1>16. \A j \in In(jobs) \cup In(results) :
            j.id = i => i \in retried /\ rows[i].status # "draft" /\ rows'[i].text = rows[i].text
    <2>1. CASE compose.id = 0
      BY <1>5, <1>6, <2>1 DEF MadeInOrder, Ids
    <2>2. CASE compose.id # 0
      BY <1>5, <1>6, <1>15, <2>2 DEF GivenStays, Ids
    <2> QED BY <2>1, <2>2
  <1>17. i \notin retried => rows'[i].text = compose.text
    BY <1>5, <1>6, <1>15 DEF Ids
  <1>18. \A j \in In(jobs)' \cup In(results)' : j = job \/ j \in In(jobs) \cup In(results)
    BY <1>1, <1>8 DEF In
  <1>19. ASSUME NEW j \in In(jobs)' \cup In(results)'
         PROVE  /\ rows'[j.id].status # "draft"
                /\ j.id \notin retried' /\ rows'[j.id].status # "absent" => rows'[j.id].text = j.text
    <2>1. CASE j.id = i /\ j = job
      BY <1>1, <1>4, <1>7, <1>17, <2>1
    <2>2. CASE j \in In(jobs) \cup In(results) /\ j.id = i
      BY <1>1, <1>4, <1>16, <2>2
    <2>3. CASE j \in In(jobs) \cup In(results) /\ j.id # i
      BY <1>1, <1>4, <1>9, <2>3 DEF GivenStays
    <2> QED BY <1>7, <1>18, <2>1, <2>2, <2>3
  <1>20. GivenStays'
    BY <1>19 DEF GivenStays
  <1>21. WritesDraft'
    BY <1>12 DEF WritesDraft
  <1>22. \A j \in Ids : rows'[j].status = "sent" => rows'[j] = rows[j]
    BY <1>4
  <1>23. \A j \in Ids : rows'[j].upload = "uploaded" => rows[j].upload = "uploaded"
    BY <1>4, <1>5
  <1>24. AnswersTrue' /\ ListsAreTrue'
    BY <1>1, <1>22, <1>23 DEF AnswersTrue, ListsAreTrue, SentWasSent, UploadedIsThere
  <1> QED BY <1>13, <1>14, <1>20, <1>21, <1>24

LEMMA ListKeeps == ASSUME ListInv, ShowDrafts \/ ShowFolder PROVE ListInv'
  <1> USE DEF ListInv
  <1>1. /\ UNCHANGED <<rows, made, compose, texts, jobs, results, uploads, news, delivered, copies, retried>>
        /\ listed' = Drafts(rows) \/ listed' = [i \in Ids |-> NoText]
    BY DEF ShowDrafts, ShowFolder, storeVars, channelVars, historyVars
  <1>2. Drafts(rows) \in [Ids -> Nat] /\ [i \in Ids |-> NoText] \in [Ids -> Nat]
    BY DraftsType DEF TypeOK, NoText
  <1>3. \A i \in Ids : i > made => Drafts(rows)[i] = NoText
    BY DEF Drafts, IsDraftRow, MadeInOrder
  <1>4. TypeOK' /\ MadeInOrder'
    BY <1>1, <1>2, <1>3 DEF TypeOK, MadeInOrder
  <1> QED BY <1>1, <1>4 DEF GivenStays, WritesDraft, AnswersTrue, ListsAreTrue, SentWasSent, UploadedIsThere

LEMMA ResumeKeeps == ASSUME ListInv, NEW i \in Ids, Resume(i) PROVE ListInv'
  <1> USE DEF ListInv
  <1>1. /\ UNCHANGED <<rows, made, texts, listed, jobs, results, uploads, news, delivered, copies>>
        /\ compose' = [open |-> TRUE, id |-> i, text |-> listed[i]] /\ listed[i] # NoText
        /\ retried' = IF rows[i].status = "draft" THEN retried ELSE retried \cup {i}
    BY DEF Resume, storeVars, channelVars
  <1>2. compose' \in Writing /\ compose'.id = i /\ i <= made
    BY <1>1 DEF TypeOK, Writing, MadeInOrder, Ids
  <1>3. TypeOK' /\ MadeInOrder'
    BY <1>1, <1>2 DEF TypeOK, MadeInOrder
  <1>4. GivenStays' /\ AnswersTrue' /\ ListsAreTrue'
    BY <1>1 DEF GivenStays, AnswersTrue, ListsAreTrue, SentWasSent, UploadedIsThere
  <1>5. WritesDraft'
    BY <1>1, <1>2 DEF WritesDraft
  <1> QED BY <1>3, <1>4, <1>5

LEMMA DeleteKeeps == ASSUME ListInv, NEW i \in Ids, Delete(i) PROVE ListInv'
  <1> USE DEF ListInv
  <1>1. /\ UNCHANGED <<made, compose, texts, jobs, results, uploads, news, delivered, copies, retried>>
        /\ ~compose.open /\ listed' = Drafts(rows')
        /\ rows' = IF IsDraftRow(rows[i]) THEN [rows EXCEPT ![i] = NoRow] ELSE rows
    BY DEF Delete, channelVars, historyVars
  <1>2. NoRow \in Row /\ NoRow.status = "absent" /\ NoRow.upload = "none"
    BY DEF NoRow, Row, NoText
  <1>3. rows' \in [Ids -> Row] /\ \A j \in Ids : rows'[j] = NoRow \/ rows'[j] = rows[j]
    BY <1>1, <1>2 DEF TypeOK
  <1>4. listed' \in [Ids -> Nat]
    BY <1>1, <1>3, DraftsType
  <1>5. \A j \in Ids : j > made => listed'[j] = NoText
    BY <1>1, <1>2, <1>3 DEF Drafts, IsDraftRow, MadeInOrder
  <1>6. TypeOK' /\ MadeInOrder'
    BY <1>1, <1>2, <1>3, <1>4, <1>5 DEF TypeOK, MadeInOrder
  <1>7. \A j \in In(jobs) \cup In(results) : j.id \in Ids
    BY InSets DEF Job, Result
  <1>8. GivenStays' /\ WritesDraft'
    BY <1>1, <1>2, <1>3, <1>7 DEF GivenStays, WritesDraft, In
  <1>9. AnswersTrue' /\ ListsAreTrue'
    BY <1>1, <1>2, <1>3 DEF AnswersTrue, ListsAreTrue, SentWasSent, UploadedIsThere, In
  <1> QED BY <1>6, <1>8, <1>9

LEMMA WorkerKeeps == ASSUME ListInv, Worker PROVE ListInv'
  <1> USE DEF ListInv
  <1> DEFINE j == Head(jobs)
  <1>1. PICK accepting, answered \in BOOLEAN :
          /\ answered => accepting
          /\ delivered' = IF accepting THEN delivered \cup {<<j.id, j.text>>} ELSE delivered
          /\ results' = Append(results, [id |-> j.id, text |-> j.text, ok |-> answered])
    BY DEF Worker
  <1>2. /\ jobs # <<>> /\ jobs' = Tail(jobs)
        /\ UNCHANGED <<rows, made, compose, texts, listed, uploads, news, copies, retried>>
    BY DEF Worker, storeVars, screenVars
  <1>3. j \in In(jobs) /\ jobs' \in Seq(Job) /\ In(jobs') \subseteq In(jobs) /\ j \in Job
    BY <1>2, InTail DEF TypeOK
  <1> DEFINE r == [id |-> j.id, text |-> j.text, ok |-> answered]
  <1>4. r \in Result /\ r.id = j.id /\ r.text = j.text /\ r.ok = answered /\ j.id \in Ids /\ j.text \in Nat
    BY <1>3 DEF Job, Result
  <1> HIDE DEF r, j
  <1>5. results' \in Seq(Result) /\ In(results') = In(results) \cup {r}
    BY <1>1, <1>4, InAppend DEF TypeOK, r
  <1>6. delivered \subseteq delivered' /\ delivered' \subseteq Ids \X Nat
    BY <1>1, <1>4 DEF TypeOK
  <1>7. TypeOK'
    BY <1>2, <1>3, <1>5, <1>6 DEF TypeOK
  <1>8. MadeInOrder'
    BY <1>2, <1>3, <1>4, <1>5 DEF MadeInOrder
  <1>9. GivenStays'
    BY <1>2, <1>3, <1>4, <1>5 DEF GivenStays
  <1>10. WritesDraft'
    BY <1>2 DEF WritesDraft
  <1>11. r.ok => <<r.id, r.text>> \in delivered'
    BY <1>1, <1>4
  <1>12. AnswersTrue'
    BY <1>2, <1>5, <1>6, <1>11 DEF AnswersTrue
  <1>13. ListsAreTrue'
    BY <1>2, <1>6 DEF ListsAreTrue, SentWasSent, UploadedIsThere
  <1> QED BY <1>7, <1>8, <1>9, <1>10, <1>12, <1>13

LEMMA TakeResultKeeps == ASSUME ListInv, TakeResult PROVE ListInv'
  <1> USE DEF ListInv
  <1> DEFINE r == Head(results)
             status == IF r.ok THEN "sent" ELSE "send_error"
             marked == WithStatus(rows, r.id, status)
             uploaded == r.ok /\ SentFolder
  <1>1. /\ results # <<>> /\ results' = Tail(results) /\ listed' = Reloaded(rows')
        /\ rows' = (IF uploaded THEN WithUpload(marked, r.id, "pending") ELSE marked)
        /\ uploads' = (IF uploaded THEN Append(uploads, Upload("Sent", r.id, r.text)) ELSE uploads)
        /\ UNCHANGED <<made, compose, texts, jobs, news, delivered, copies, retried>>
    BY DEF TakeResult, historyVars
  <1>2. /\ r \in In(results) /\ results' \in Seq(Result) /\ In(results') \subseteq In(results)
        /\ r \in Result
    BY <1>1, InTail DEF TypeOK
  <1>3. r.id \in Ids /\ r.text \in Nat /\ r.ok \in BOOLEAN
    BY <1>2 DEF Result
  <1>4. status \in {"send_error", "sent"} /\ rows \in [Ids -> Row]
    BY <1>3 DEF TypeOK
  <1> HIDE DEF r
  <1>5. PICK i \in Ids : i = r.id
    BY <1>3
  <1>6. /\ marked \in [Ids -> Row] /\ \A j \in Ids \ {i} : marked[j] = rows[j]
        /\ \A j \in Ids : marked[j].text = rows[j].text /\ marked[j].upload = rows[j].upload
        /\ marked[i].status = IF rows[i].status = "absent" THEN "absent" ELSE status
    BY <1>4, <1>5, Marked
  <1> HIDE DEF marked
  <1>7. /\ WithUpload(marked, i, "pending") \in [Ids -> Row]
        /\ \A j \in Ids \ {i} : WithUpload(marked, i, "pending")[j] = marked[j]
        /\ \A j \in Ids : /\ WithUpload(marked, i, "pending")[j].text = marked[j].text
                          /\ WithUpload(marked, i, "pending")[j].status = marked[j].status
        /\ WithUpload(marked, i, "pending")[i].upload
              = IF marked[i].status = "absent" THEN marked[i].upload ELSE "pending"
    BY <1>6, Marked
  <1>8. /\ rows' \in [Ids -> Row] /\ \A j \in Ids \ {i} : rows'[j] = rows[j]
        /\ \A j \in Ids : rows'[j].text = rows[j].text
        /\ rows'[i].status = IF rows[i].status = "absent" THEN "absent" ELSE status
        /\ rows'[i].upload \in {"pending", rows[i].upload}
    BY <1>1, <1>5, <1>6, <1>7
  <1>9. \A j \in Ids : rows'[j].status = "absent" <=> rows[j].status = "absent"
    BY <1>4, <1>8
  <1>10. made \in Nat
    BY DEF TypeOK
  <1>11. listed' \in [Ids -> Nat] /\ \A j \in Ids : j > made => listed'[j] = NoText
    <2>1. \A j \in Ids : j > made => rows'[j].status = "absent" /\ j > made
      BY <1>9 DEF MadeInOrder
    <2> QED BY <1>1, <1>8, <1>10, <2>1, ReloadKeeps
  <1>12. uploads' \in Seq(Uploading)
    BY <1>1, <1>3, InAppend DEF TypeOK, Upload, Uploading
  <1>13. TypeOK'
    BY <1>1, <1>2, <1>8, <1>11, <1>12 DEF TypeOK
  <1>14. \A j \in In(jobs) \cup In(results) : j.id \in Ids
    BY InSets DEF Job, Result
  <1>15. MadeInOrder'
    BY <1>1, <1>2, <1>9, <1>11 DEF MadeInOrder, In
  <1>16. GivenStays'
    <2>1. In(jobs') \cup In(results') \subseteq In(jobs) \cup In(results) /\ retried' = retried
      BY <1>1, <1>2
    <2>2. \A k \in In(jobs) \cup In(results) : rows'[k.id].status # "draft" /\ rows'[k.id].text = rows[k.id].text
      BY <1>4, <1>8, <1>14 DEF GivenStays
    <2>3. \A k \in In(jobs) \cup In(results) : rows'[k.id].status = "absent" <=> rows[k.id].status = "absent"
      BY <1>9, <1>14
    <2> QED BY <2>1, <2>2, <2>3 DEF GivenStays, In
  <1>17. compose.id \in 0 .. MaxDrafts
    BY DEF TypeOK, Writing
  <1>18. compose.id = i => i \in retried \/ ~compose.open
    BY <1>2, <1>5 DEF GivenStays, WritesDraft, Ids
  <1>19. WritesDraft'
    BY <1>1, <1>8, <1>17, <1>18 DEF WritesDraft, Ids
  <1>20. AnswersTrue'
    BY <1>1, <1>2 DEF AnswersTrue, In
  <1>21. ASSUME NEW j \in Ids, rows'[j].status = "sent"
         PROVE  /\ \E d \in delivered : d[1] = j
                /\ j \notin retried => <<j, rows'[j].text>> \in delivered
    <2>1. CASE j # i
      BY <1>8, <1>21, <2>1 DEF ListsAreTrue, SentWasSent
    <2>2. CASE j = i
      <3>1. r.ok /\ rows[i].status # "absent"
        BY <1>8, <1>21, <2>2
      <3>2. <<i, r.text>> \in delivered
        BY <1>2, <1>5, <3>1 DEF AnswersTrue
      <3>3. i \notin retried => rows'[i].text = r.text
        BY <1>2, <1>5, <1>8, <3>1 DEF GivenStays
      <3>4. <<i, r.text>>[1] = i
        OBVIOUS
      <3> QED BY <2>2, <3>2, <3>3, <3>4
    <2> QED BY <2>1, <2>2
  <1>22. \A j \in Ids : rows'[j].upload = "uploaded" => rows[j].upload = "uploaded"
    BY <1>8
  <1>23. ListsAreTrue'
    BY <1>1, <1>21, <1>22 DEF ListsAreTrue, SentWasSent, UploadedIsThere
  <1> QED BY <1>13, <1>15, <1>16, <1>19, <1>20, <1>23

LEMMA AppendUploadKeeps == ASSUME ListInv, AppendUpload PROVE ListInv'
  <1> USE DEF ListInv
  <1> DEFINE u == Head(uploads)
  <1>1. PICK ok \in BOOLEAN :
          /\ copies' = IF ok THEN copies \cup {u.id} ELSE copies
          /\ news' = Append(news, [kind |-> u.kind, id |-> u.id, ok |-> ok])
    BY DEF AppendUpload
  <1>2. /\ uploads # <<>> /\ uploads' = Tail(uploads)
        /\ UNCHANGED <<rows, made, compose, texts, listed, jobs, results, delivered, retried>>
    BY DEF AppendUpload, storeVars, screenVars
  <1>3. uploads' \in Seq(Uploading) /\ u \in Uploading
    BY <1>2, InTail DEF TypeOK
  <1> DEFINE n == [kind |-> u.kind, id |-> u.id, ok |-> ok]
  <1>4. n \in News /\ n.id = u.id /\ n.ok = ok
    BY <1>3 DEF Uploading, News
  <1> HIDE DEF n, u
  <1>5. news' \in Seq(News) /\ In(news') = In(news) \cup {n}
    BY <1>1, <1>4, InAppend DEF TypeOK, n
  <1>6. TypeOK'
    BY <1>2, <1>3, <1>5 DEF TypeOK
  <1>7. MadeInOrder' /\ GivenStays' /\ WritesDraft'
    BY <1>2 DEF MadeInOrder, GivenStays, WritesDraft, In
  <1>8. copies \subseteq copies' /\ (n.ok => n.id \in copies')
    BY <1>1, <1>4
  <1>9. AnswersTrue'
    BY <1>2, <1>5, <1>8 DEF AnswersTrue, In
  <1>10. ListsAreTrue'
    BY <1>2, <1>8 DEF ListsAreTrue, SentWasSent, UploadedIsThere
  <1> QED BY <1>6, <1>7, <1>9, <1>10

LEMMA TakeNewsKeeps == ASSUME ListInv, TakeNews PROVE ListInv'
  <1> USE DEF ListInv
  <1> DEFINE n == Head(news)
             note == IF n.ok THEN "uploaded" ELSE "error"
  <1>1. /\ news # <<>> /\ news' = Tail(news) /\ listed' = Reloaded(rows')
        /\ rows' = WithUpload(rows, n.id, note)
        /\ UNCHANGED <<made, compose, texts, jobs, results, uploads, delivered, copies, retried>>
    BY DEF TakeNews, historyVars
  <1>2. n \in In(news) /\ news' \in Seq(News) /\ In(news') \subseteq In(news) /\ n \in News
    BY <1>1, InTail DEF TypeOK
  <1>3. n.id \in Ids /\ n.ok \in BOOLEAN
    BY <1>2 DEF News
  <1>4. note \in {"uploaded", "error"} /\ rows \in [Ids -> Row]
    BY <1>3 DEF TypeOK
  <1> HIDE DEF n
  <1>5. PICK i \in Ids : i = n.id
    BY <1>3
  <1>6. /\ rows' \in [Ids -> Row] /\ \A j \in Ids \ {i} : rows'[j] = rows[j]
        /\ \A j \in Ids : rows'[j].text = rows[j].text /\ rows'[j].status = rows[j].status
        /\ rows'[i].upload \in {rows[i].upload, note}
    BY <1>1, <1>4, <1>5, Marked
  <1>7. made \in Nat
    BY DEF TypeOK
  <1>8. listed' \in [Ids -> Nat] /\ \A j \in Ids : j > made => listed'[j] = NoText
    <2>1. \A j \in Ids : j > made => rows'[j].status = "absent" /\ j > made
      BY <1>6 DEF MadeInOrder
    <2> QED BY <1>1, <1>6, <1>7, <2>1, ReloadKeeps
  <1>9. TypeOK'
    BY <1>1, <1>2, <1>6, <1>8 DEF TypeOK
  <1>10. \A j \in In(jobs) \cup In(results) : j.id \in Ids
    BY InSets DEF Job, Result
  <1>11. MadeInOrder'
    BY <1>1, <1>6, <1>8 DEF MadeInOrder, In
  <1>12. GivenStays'
    BY <1>1, <1>6, <1>10 DEF GivenStays, In
  <1>13. WritesDraft'
    BY <1>1, <1>6, SMTT(30) DEF WritesDraft, TypeOK, Writing, Ids
  <1>14. AnswersTrue'
    BY <1>1, <1>2 DEF AnswersTrue, In
  <1>15. SentWasSent'
    BY <1>1, <1>6 DEF ListsAreTrue, SentWasSent
  <1>16. ASSUME NEW j \in Ids, rows'[j].upload = "uploaded" PROVE j \in copies
    BY <1>2, <1>5, <1>6, <1>16 DEF AnswersTrue, ListsAreTrue, UploadedIsThere
  <1>17. ListsAreTrue'
    BY <1>1, <1>15, <1>16 DEF ListsAreTrue, UploadedIsThere
  <1> QED BY <1>9, <1>11, <1>12, <1>13, <1>14, <1>17

LEMMA StopKeeps == ASSUME ListInv, DaemonDies \/ Quit PROVE ListInv'
  <1> USE DEF ListInv
  <1>1. CASE DaemonDies
    <2>1. /\ uploads' = <<>> /\ news' = <<>>
          /\ UNCHANGED <<rows, made, compose, texts, listed, jobs, results, delivered, copies, retried>>
      BY <1>1 DEF DaemonDies, storeVars, screenVars, historyVars
    <2>2. TypeOK'
      BY <2>1, InEmpty DEF TypeOK
    <2>3. In(news') = {}
      BY <2>1, InEmpty
    <2> QED BY <2>1, <2>2, <2>3 DEF MadeInOrder, GivenStays, WritesDraft, AnswersTrue, ListsAreTrue,
                                  SentWasSent, UploadedIsThere, In
  <1>2. CASE Quit
    <2>1. /\ compose' = Closed /\ listed' = [i \in Ids |-> NoText]
          /\ jobs' = <<>> /\ results' = <<>> /\ news' = <<>>
          /\ UNCHANGED <<rows, made, texts, uploads, delivered, copies, retried>>
      BY <1>2 DEF Quit, storeVars
    <2>2. compose' \in Writing /\ compose'.id = 0 /\ ~compose'.open /\ made \in Nat
      BY <2>1 DEF Closed, Writing, NoText, TypeOK
    <2>3. In(news') = {} /\ In(jobs') = {} /\ In(results') = {}
      BY <2>1, InEmpty
    <2>4. TypeOK'
      BY <2>1, <2>2, InEmpty DEF TypeOK, NoText
    <2>5. MadeInOrder'
      BY <2>1, <2>2, <2>3 DEF MadeInOrder, In
    <2> QED BY <2>1, <2>2, <2>3, <2>4, <2>5 DEF GivenStays, WritesDraft, AnswersTrue, ListsAreTrue,
                                  SentWasSent, UploadedIsThere, In
  <1> QED BY <1>1, <1>2

LEMMA ListsStep == ASSUME ListInv, [Next]_vars PROVE ListInv'
  <1>1. CASE UNCHANGED vars
    BY <1>1 DEF vars, storeVars, screenVars, channelVars, historyVars, ListInv, TypeOK, MadeInOrder,
       GivenStays, WritesDraft, AnswersTrue, ListsAreTrue, SentWasSent, UploadedIsThere, In
  <1>2. CASE Next
    BY <1>2, WritingKeeps, SaveDraftKeeps, SendKeeps, ListKeeps, ResumeKeeps, DeleteKeeps, WorkerKeeps,
       TakeResultKeeps, AppendUploadKeeps, TakeNewsKeeps, StopKeeps DEF Next, User
  <1> QED BY <1>1, <1>2

\* For any numbers of messages, texts and sessions, through retries, lost answers,
\* rows deleted while they are sent, the end of jamail and of jamaild: a row is in
\* the list of sent messages only if the server took it, with the text shown unless
\* it was taken up again, and says it was uploaded only if a copy is there.
THEOREM ListsTellTheTruth == Spec => []ListsAreTrue
  <1>1. ListInv => ListsAreTrue
    BY DEF ListInv
  <1> QED BY <1>1, ListsInit, ListsStep, PTL DEF Spec

-----------------------------------------------------------------------------
(* Addresses.                                                                *)

LEMMA LastOne ==
  ASSUME NEW n \in Nat, NEW S \in SUBSET (1 .. n), S # {}
  PROVE  \E i \in S : \A j \in S : j <= i
  <1> DEFINE T == {n - i : i \in S}
  <1>1. T \subseteq Nat /\ T # {}
    <2>1. PICK i \in S : TRUE
      OBVIOUS
    <2>2. \A j \in S : n - j \in Nat
      OBVIOUS
    <2> QED BY <2>1, <2>2
  <1>2. PICK x \in T : \A y \in T : ~(<<y, x>> \in OpToRel(<, Nat))
    BY <1>1, NatLessThanWellFounded, WFMin
  <1>3. \A y \in T : ~(y < x)
    BY <1>1, <1>2 DEF OpToRel
  <1>4. PICK i \in S : x = n - i
    OBVIOUS
  <1>5. \A j \in S : n - j \in T /\ j \in Int
    OBVIOUS
  <1>6. i \in Int /\ \A j \in S : ~(n - j < n - i)
    BY <1>3, <1>4, <1>5
  <1> QED BY <1>5, <1>6

LEMMA FirstOne ==
  ASSUME NEW S \in SUBSET Nat, S # {}
  PROVE  \E i \in S : \A j \in S : i <= j
  <1>1. PICK x \in S : \A y \in S : ~(<<y, x>> \in OpToRel(<, Nat))
    BY NatLessThanWellFounded, WFMin
  <1>2. \A y \in S : ~(y < x)
    BY <1>1 DEF OpToRel
  <1>3. x \in Nat /\ \A y \in S : y \in Nat
    OBVIOUS
  <1> QED BY <1>2, <1>3

LEMMA LastComma ==
  ASSUME NEW t \in Address
  PROVE  /\ UpToComma(t) \in Address /\ Len(UpToComma(t)) \in 0 .. Len(t)
         /\ \A k \in 1 .. Len(UpToComma(t)) : UpToComma(t)[k] = t[k]
         /\ UpToComma(t) # <<>> => UpToComma(t)[Len(UpToComma(t))] = "comma"
         /\ \A k \in 1 .. Len(t) : t[k] = "comma" => k <= Len(UpToComma(t))
  <1>1. CASE Commas(t) = {}
    BY <1>1 DEF UpToComma, Commas, Address
  <1>2. CASE Commas(t) # {}
    <2>1. Len(t) \in Nat /\ Commas(t) \in SUBSET (1 .. Len(t))
      BY DEF Commas, Address
    <2> DEFINE n == CHOOSE i \in Commas(t) : \A j \in Commas(t) : j <= i
    <2>2. n \in Commas(t) /\ \A j \in Commas(t) : j <= n
      BY <2>1, <1>2, LastOne
    <2> HIDE DEF n
    <2>3. UpToComma(t) = SubSeq(t, 1, n)
      BY <1>2 DEF UpToComma, n
    <2>4. n \in 1 .. Len(t) /\ t[n] = "comma" /\ \A j \in 1 .. Len(t) : t[j] = "comma" => j <= n
      BY <2>1, <2>2 DEF Commas, Address
    <2> QED BY <2>3, <2>4 DEF Address
  <1> QED BY <1>1, <1>2

LEMMA IsRecipient ==
  ASSUME NEW t, NEW x
  PROVE  x \in Recipients(t) <=> \E i \in 1 .. Len(t), j \in 1 .. Len(t) : AddressAt(t, i, j) /\ x = SubSeq(t, i, j)
  <1>1. ASSUME x \in Recipients(t)
        PROVE  \E i \in 1 .. Len(t), j \in 1 .. Len(t) : AddressAt(t, i, j) /\ x = SubSeq(t, i, j)
    <2>1. PICK p \in (1 .. Len(t)) \X (1 .. Len(t)) : AddressAt(t, p[1], p[2]) /\ x = SubSeq(t, p[1], p[2])
      BY <1>1 DEF Recipients
    <2>2. p[1] \in 1 .. Len(t) /\ p[2] \in 1 .. Len(t)
      OBVIOUS
    <2> QED BY <2>1, <2>2
  <1>2. ASSUME NEW i \in 1 .. Len(t), NEW j \in 1 .. Len(t), AddressAt(t, i, j), x = SubSeq(t, i, j)
        PROVE  x \in Recipients(t)
    <2> DEFINE p == <<i, j>>
    <2>1. p \in (1 .. Len(t)) \X (1 .. Len(t)) /\ p[1] = i /\ p[2] = j
      OBVIOUS
    <2> HIDE DEF p
    <2>2. AddressAt(t, p[1], p[2]) /\ x = SubSeq(t, p[1], p[2])
      BY <1>2, <2>1
    <2> QED BY <2>1, <2>2 DEF Recipients
  <1> QED BY <1>1, <1>2

\* What is complete stays an address, whatever is written after it.
LEMMA Completed ==
  ASSUME NEW u \in Address, NEW v \in Address, u # <<>> => u[Len(u)] = "comma",
         Len(u) \in 0 .. Len(v), \A k \in 1 .. Len(u) : v[k] = u[k]
  PROVE  Recipients(u) \subseteq Recipients(v)
  <1> SUFFICES ASSUME NEW x \in Recipients(u) PROVE x \in Recipients(v)
    OBVIOUS
  <1> PICK i \in 1 .. Len(u), j \in 1 .. Len(u) : AddressAt(u, i, j) /\ x = SubSeq(u, i, j)
    BY IsRecipient
  <1>1. /\ i <= j /\ u[i] # "space" /\ u[j] # "space"
        /\ \A k \in Commas(u) : k < i \/ j < k
    BY DEF AddressAt
  <1>2. PICK a \in {0} \cup Commas(u) : a < i /\ Gap(u, a, i)
    BY DEF AddressAt
  <1>3. PICK b \in Commas(u) \cup {Len(u) + 1} : j < b /\ Gap(u, j, b)
    BY DEF AddressAt
  <1>4. Len(u) \in Nat /\ Len(v) \in Nat /\ DOMAIN u = 1 .. Len(u) /\ DOMAIN v = 1 .. Len(v)
    BY DEF Address
  <1>5. Len(u) \in Commas(u) /\ Len(u) # j /\ Len(u) > j
    <2>1. u # <<>> 
      BY <1>4 DEF Address
    <2>2. u[Len(u)] = "comma" /\ Len(u) \in DOMAIN u
      BY <2>1, <1>4
    <2>4. Len(u) \in Commas(u)
      BY <2>2 DEF Commas
    <2>5. Len(u) < i \/ j < Len(u)
      BY <2>4, <1>1
    <2>6. Len(u) \in Int /\ i \in Int /\ j \in Int /\ i <= Len(u) /\ j <= Len(u)
      BY <1>4
    <2>7. j < Len(u)
      BY <2>5, <2>6
    <2> QED BY <2>4, <2>6, <2>7
  <1>6. b # Len(u) + 1
    <2> SUFFICES ASSUME b = Len(u) + 1 PROVE FALSE
      OBVIOUS
    <2>1. Len(u) \in DOMAIN u /\ u[Len(u)] = "comma"
      BY <1>5 DEF Commas
    <2>3. j < Len(u) /\ Len(u) < b
      <3>1. Len(u) \in Nat
        BY <1>4
      <3> QED BY <3>1, <1>5
    <2>2. u[Len(u)] = "space"
      BY <2>1, <2>3, <1>3 DEF Gap
    <2> QED BY <2>1, <2>2
  <1>7. \A k \in 1 .. Len(u) : k \in Commas(v) <=> k \in Commas(u)
    BY <1>4 DEF Commas
  <1>8. a \in {0} \cup Commas(v) /\ a < i /\ Gap(v, a, i)
    BY <1>2, <1>4, <1>7 DEF Gap, Commas
  <1>9. b \in Commas(v) /\ j < b /\ Gap(v, j, b)
    BY <1>3, <1>4, <1>6, <1>7 DEF Gap, Commas
  <1>10. \A k \in Commas(v) : k < i \/ j < k
    BY <1>1, <1>4, <1>7 DEF Commas
  <1>11. AddressAt(v, i, j)
    BY <1>1, <1>4, <1>8, <1>9, <1>10 DEF AddressAt
  <1>12. SubSeq(u, i, j) = SubSeq(v, i, j)
    BY <1>4, <1>1 DEF Address
  <1>13. i \in 1 .. Len(v) /\ j \in 1 .. Len(v) /\ x = SubSeq(v, i, j)
    BY <1>4, <1>12
  <1> QED BY <1>11, <1>13, IsRecipient

LEMMA CompletedIsThere == ASSUME NEW t \in Address PROVE Recipients(UpToComma(t)) \subseteq Recipients(t)
  BY LastComma, Completed

LEMMA Longer ==
  ASSUME NEW t \in Address, NEW v \in Address, NEW u \in Address, NEW w \in Address,
         Len(u) \in 0 .. Len(t), \A k \in 1 .. Len(u) : u[k] = t[k], u # <<>> => u[Len(u)] = "comma",
         Len(w) \in 0 .. Len(v), \A k \in 1 .. Len(w) : w[k] = v[k],
         \A k \in 1 .. Len(v) : v[k] = "comma" => k <= Len(w),
         Len(t) <= Len(v), \A k \in 1 .. Len(t) : v[k] = t[k]
  PROVE  Len(u) \in 0 .. Len(w) /\ \A k \in 1 .. Len(u) : w[k] = u[k]
  <1>1. Len(t) \in Nat /\ Len(v) \in Nat /\ Len(u) \in Nat /\ Len(w) \in Nat
    BY DEF Address
  <1>2. Len(u) <= Len(w)
    <2>1. CASE u = <<>>
      <3>1. Len(u) = 0
        BY <2>1 DEF Address
      <3> QED BY <3>1, <1>1
    <2>2. CASE u # <<>>
      <3>1. Len(u) # 0
        BY <2>2 DEF Address
      <3>2. Len(u) \in 1 .. Len(u) /\ Len(u) \in 1 .. Len(t) /\ Len(u) \in 1 .. Len(v)
        BY <3>1, <1>1
      <3>3. v[Len(u)] = "comma"
        BY <3>2, <2>2
      <3> QED BY <3>2, <3>3
    <2> QED BY <2>1, <2>2
  <1>3. ASSUME NEW k \in 1 .. Len(u) PROVE w[k] = u[k]
    <2>1. k \in 1 .. Len(w) /\ k \in 1 .. Len(t) /\ k \in 1 .. Len(v)
      BY <1>1, <1>2
    <2> QED BY <2>1
  <1> QED BY <1>1, <1>2, <1>3

\* Writing on keeps what is complete.
LEMMA LongerKeeps ==
  ASSUME NEW t \in Address, NEW v \in Address, Len(t) <= Len(v), \A k \in 1 .. Len(t) : v[k] = t[k]
  PROVE  Recipients(UpToComma(t)) \subseteq Recipients(UpToComma(v))
  <1>1. /\ UpToComma(t) \in Address /\ Len(UpToComma(t)) \in 0 .. Len(t)
        /\ \A k \in 1 .. Len(UpToComma(t)) : UpToComma(t)[k] = t[k]
        /\ UpToComma(t) # <<>> => UpToComma(t)[Len(UpToComma(t))] = "comma"
    BY LastComma
  <1>2. /\ UpToComma(v) \in Address /\ Len(UpToComma(v)) \in 0 .. Len(v)
        /\ \A k \in 1 .. Len(UpToComma(v)) : UpToComma(v)[k] = v[k]
        /\ \A k \in 1 .. Len(v) : v[k] = "comma" => k <= Len(UpToComma(v))
    BY LastComma
  <1> DEFINE u == UpToComma(t)
             w == UpToComma(v)
  <1> HIDE DEF u, w
  <1>3. Len(u) \in 0 .. Len(w) /\ \A k \in 1 .. Len(u) : w[k] = u[k]
    BY <1>1, <1>2, Longer DEF u, w
  <1>4. u \in Address /\ w \in Address /\ (u # <<>> => u[Len(u)] = "comma")
    BY <1>1, <1>2 DEF u, w
  <1> QED BY <1>3, <1>4, Completed DEF u, w

LEMMA TypedKeeps ==
  ASSUME NEW t \in Address, NEW c \in Char \cup {"comma", "space"}
  PROVE  Append(t, c) \in Address /\ Recipients(UpToComma(t)) \subseteq Recipients(UpToComma(Append(t, c)))
  <1> DEFINE v == Append(t, c)
  <1>1. v \in Address /\ Len(t) <= Len(v) /\ \A k \in 1 .. Len(t) : v[k] = t[k]
    BY DEF Address
  <1> QED BY <1>1, LongerKeeps

\* Within a longer text the addresses of a part between two commas are addresses.
LEMMA Within ==
  ASSUME NEW s \in Address, NEW v \in Address, NEW start \in Nat, NEW o \in Nat,
         start <= o, o + Len(s) + 1 <= Len(v),
         start = 0 \/ v[start] = "comma", Gap(v, start, o + 1), v[o + Len(s) + 1] = "comma",
         \A k \in 1 .. Len(s) : v[o + k] = s[k]
  PROVE  Recipients(s) \subseteq Recipients(v)
  <1> SUFFICES ASSUME NEW x \in Recipients(s) PROVE x \in Recipients(v)
    OBVIOUS
  <1> PICK i \in 1 .. Len(s), j \in 1 .. Len(s) : AddressAt(s, i, j) /\ x = SubSeq(s, i, j)
    BY IsRecipient
  <1>1. /\ i <= j /\ s[i] # "space" /\ s[j] # "space"
        /\ \A k \in Commas(s) : k < i \/ j < k
    BY DEF AddressAt
  <1>2. PICK a \in {0} \cup Commas(s) : a < i /\ Gap(s, a, i)
    BY DEF AddressAt
  <1>3. PICK b \in Commas(s) \cup {Len(s) + 1} : j < b /\ Gap(s, j, b)
    BY DEF AddressAt
  <1>4. Len(s) \in Nat /\ Len(v) \in Nat /\ DOMAIN s = 1 .. Len(s) /\ DOMAIN v = 1 .. Len(v)
    BY DEF Address
  <1>5. o + i \in 1 .. Len(v) /\ o + j \in 1 .. Len(v) /\ v[o + i] = s[i] /\ v[o + j] = s[j]
    BY <1>4
  <1>6. \A k \in Commas(v) : k < o + i \/ o + j < k
    <2> SUFFICES ASSUME NEW k \in Commas(v), o + i <= k, k <= o + j PROVE FALSE
      BY <1>4, SMTT(30) DEF Commas
    <2>1. k - o \in 1 .. Len(s) /\ k = o + (k - o) /\ k \in 1 .. Len(v)
      BY <1>4, SMTT(30) DEF Commas
    <2>2. k - o \in Commas(s)
      BY <2>1, <1>4 DEF Commas
    <2> QED BY <2>1, <2>2, <1>1
  <1>7. \E c \in {0} \cup Commas(v) : c < o + i /\ Gap(v, c, o + i)
    <2>1. CASE a = 0
      <3>1. start \in {0} \cup Commas(v) /\ start < o + i
        BY <1>4 DEF Commas
      <3>2. ASSUME NEW k \in 1 .. Len(v), start < k, k < o + i PROVE v[k] = "space"
        <4>1. CASE k < o + 1
          BY <4>1, <3>2, <1>4 DEF Gap
        <4>2. CASE k >= o + 1
          <5>1. k - o \in 1 .. Len(s) /\ k = o + (k - o) /\ 0 < k - o /\ k - o < i
            BY <4>2, <3>2, <1>4
          <5> QED BY <5>1, <2>1, <1>2, <1>4 DEF Gap
        <4> QED BY <4>1, <4>2
      <3>3. Gap(v, start, o + i)
        BY <3>2, <1>4 DEF Gap
      <3> QED BY <3>1, <3>3
    <2>2. CASE a # 0
      <3>1. a \in 1 .. Len(s) /\ s[a] = "comma"
        BY <2>2, <1>4 DEF Commas
      <3>2. o + a \in Commas(v) /\ o + a < o + i
        BY <3>1, <1>2, <1>4 DEF Commas
      <3>3. ASSUME NEW k \in 1 .. Len(v), o + a < k, k < o + i PROVE v[k] = "space"
        <4>1. k - o \in 1 .. Len(s) /\ k = o + (k - o) /\ a < k - o /\ k - o < i
          BY <3>1, <3>3, <1>4
        <4> QED BY <4>1, <1>2, <1>4 DEF Gap
      <3>4. Gap(v, o + a, o + i)
        BY <3>3, <1>4 DEF Gap
      <3> QED BY <3>2, <3>4
    <2> QED BY <2>1, <2>2
  <1>8. \E c \in Commas(v) \cup {Len(v) + 1} : o + j < c /\ Gap(v, o + j, c)
    <2>1. b \in 1 .. Len(s) + 1 /\ (b = Len(s) + 1 \/ s[b] = "comma")
      BY <1>4 DEF Commas
    <2>2. o + b \in Commas(v)
      BY <2>1, <1>4 DEF Commas
    <2>3. ASSUME NEW k \in 1 .. Len(v), o + j < k, k < o + b PROVE v[k] = "space"
      <3>1. k - o \in 1 .. Len(s) /\ k = o + (k - o) /\ j < k - o /\ k - o < b
        BY <2>1, <2>3, <1>4
      <3> QED BY <3>1, <1>3, <1>4 DEF Gap
    <2>4. Gap(v, o + j, o + b)
      BY <2>3, <1>4 DEF Gap
    <2> QED BY <2>1, <2>2, <2>4, <1>3
  <1>9. AddressAt(v, o + i, o + j)
    <2>1. o + i <= o + j
      BY <1>1, <1>4
    <2> QED BY <2>1, <1>1, <1>5, <1>6, <1>7, <1>8 DEF AddressAt
  <1>10. SubSeq(v, o + i, o + j) = SubSeq(s, i, j)
    <2>1. SubSeq(v, o + i, o + j) \in Seq(Char \cup {"comma", "space"}) /\ Len(SubSeq(v, o + i, o + j)) = j - i + 1
          /\ \A k \in 1 .. j - i + 1 : SubSeq(v, o + i, o + j)[k] = v[o + i + k - 1]
      BY <1>1, <1>4, <1>5 DEF Address
    <2>2. SubSeq(s, i, j) \in Seq(Char \cup {"comma", "space"}) /\ Len(SubSeq(s, i, j)) = j - i + 1
          /\ \A k \in 1 .. j - i + 1 : SubSeq(s, i, j)[k] = s[i + k - 1]
      BY <1>1, <1>4 DEF Address
    <2>3. ASSUME NEW k \in 1 .. j - i + 1 PROVE v[o + i + k - 1] = s[i + k - 1]
      <3>1. i + k - 1 \in 1 .. Len(s) /\ o + i + k - 1 = o + (i + k - 1)
        BY <1>4
      <3> QED BY <3>1
    <2>4. DOMAIN SubSeq(v, o + i, o + j) = 1 .. j - i + 1 /\ DOMAIN SubSeq(s, i, j) = 1 .. j - i + 1
      BY <2>1, <2>2
    <2> QED BY <2>1, <2>2, <2>3, <2>4
  <1>11. x = SubSeq(v, o + i, o + j)
    BY <1>10
  <1> QED BY <1>5, <1>9, <1>11, IsRecipient

\* A suggestion taken up is complete, and what was complete before stays so.
LEMMA AcceptedKeeps ==
  ASSUME NEW t \in Address, NEW s \in Address
  PROVE  /\ Accepted(t, s) \in Address
         /\ Recipients(UpToComma(t)) \cup Recipients(s) \subseteq Recipients(UpToComma(Accepted(t, s)))
  <1> DEFINE u == UpToComma(t)
             gap == IF Commas(t) = {} THEN <<>> ELSE <<"space">>
             v == Accepted(t, s)
             w == UpToComma(v)
             start == Len(u)
             o == Len(u) + Len(gap)
  <1>1. /\ u \in Address /\ Len(u) \in 0 .. Len(t) /\ (u # <<>> => u[Len(u)] = "comma")
    BY LastComma
  <1>2. /\ gap \in Address /\ Len(gap) \in {0, 1} /\ (Len(gap) = 1 => gap[1] = "space")
    <2>1. CASE gap = <<>>
      BY <2>1 DEF Address
    <2>2. CASE gap = <<"space">>
      <3>1. \A c \in Char \cup {"comma", "space"} : <<c>> \in Seq(Char \cup {"comma", "space"}) /\ Len(<<c>>) = 1 /\ <<c>>[1] = c
        OBVIOUS
      <3> QED BY <2>2, <3>1 DEF Address
    <2> QED BY <2>1, <2>2
  <1>3. v = u \o gap \o s \o <<"comma", "space">>
    BY DEF Accepted
  <1> HIDE DEF u, gap, v
  <1>4. Len(u) \in Nat /\ Len(gap) \in Nat /\ Len(s) \in Nat
    BY <1>1, <1>2 DEF Address
  <1>5. /\ v \in Address /\ Len(v) = o + Len(s) + 2
        /\ \A k \in 1 .. Len(u) : v[k] = u[k]
        /\ \A k \in 1 .. Len(gap) : v[Len(u) + k] = gap[k]
        /\ \A k \in 1 .. Len(s) : v[o + k] = s[k]
        /\ v[o + Len(s) + 1] = "comma"
    <2>1. u \o gap \in Address /\ Len(u \o gap) = o
          /\ (\A k \in 1 .. Len(u) : (u \o gap)[k] = u[k])
          /\ (\A k \in 1 .. Len(gap) : (u \o gap)[Len(u) + k] = gap[k])
      BY <1>1, <1>2 DEF Address
    <2> DEFINE x == u \o gap
    <2> HIDE DEF x
    <2>2. x \o s \in Address /\ Len(x \o s) = Len(x) + Len(s)
          /\ (\A k \in 1 .. Len(x) : (x \o s)[k] = x[k])
          /\ (\A k \in 1 .. Len(s) : (x \o s)[Len(x) + k] = s[k])
      BY <2>1 DEF Address, x
    <2> DEFINE y == x \o s
    <2> HIDE DEF y
    <2>3. y \o <<"comma", "space">> \in Address /\ Len(y \o <<"comma", "space">>) = Len(y) + 2
          /\ (\A k \in 1 .. Len(y) : (y \o <<"comma", "space">>)[k] = y[k])
          /\ (y \o <<"comma", "space">>)[Len(y) + 1] = "comma"
      BY <2>2 DEF Address, y
    <2>4. v = y \o <<"comma", "space">> /\ Len(y) = o + Len(s) /\ Len(x) = o
      BY <1>3, <2>1, <2>2 DEF x, y
    <2>5. \A k \in 1 .. Len(s) : y[o + k] = s[k]
      BY <2>2, <2>4 DEF y
    <2>6. \A k \in 1 .. o : y[k] = x[k]
      BY <2>2, <2>4 DEF y
    <2>7. ASSUME NEW k \in 1 .. Len(u) PROVE v[k] = u[k]
      <3>1. k \in 1 .. o /\ k \in 1 .. Len(y)
        BY <1>4, <2>4
      <3> QED BY <3>1, <2>1, <2>3, <2>4, <2>6 DEF x
    <2>8. ASSUME NEW k \in 1 .. Len(gap) PROVE v[Len(u) + k] = gap[k]
      <3>1. Len(u) + k \in 1 .. o /\ Len(u) + k \in 1 .. Len(y)
        BY <1>4, <2>4
      <3> QED BY <3>1, <2>1, <2>3, <2>4, <2>6 DEF x
    <2>9. ASSUME NEW k \in 1 .. Len(s) PROVE v[o + k] = s[k]
      <3>1. o + k \in 1 .. Len(y)
        BY <1>4, <2>4
      <3> QED BY <3>1, <2>3, <2>4, <2>5
    <2> QED BY <1>4, <2>3, <2>4, <2>7, <2>8, <2>9
  <1>6. /\ w \in Address /\ Len(w) \in 0 .. Len(v)
        /\ \A k \in 1 .. Len(w) : w[k] = v[k]
        /\ \A k \in 1 .. Len(v) : v[k] = "comma" => k <= Len(w)
    BY <1>5, LastComma
  <1> HIDE DEF w
  <1>7. o + Len(s) + 1 <= Len(w) /\ Len(w) \in Nat
    BY <1>4, <1>5, <1>6
  <1>8. Recipients(u) \subseteq Recipients(w)
    <2>1. Len(u) \in 0 .. Len(w) /\ \A k \in 1 .. Len(u) : w[k] = u[k]
      BY <1>4, <1>5, <1>6, <1>7
    <2> QED BY <2>1, <1>1, <1>6, Completed
  <1>9. Recipients(s) \subseteq Recipients(w)
    <2>1. start = 0 \/ w[start] = "comma"
      <3>1. CASE u = <<>>
        BY <3>1
      <3>2. CASE u # <<>>
        <4>1. start \in 0 .. Len(w) /\ (start # 0 => start \in 1 .. Len(u) /\ start \in 1 .. Len(w))
          BY <1>4, <1>7
        <4> QED BY <4>1, <3>2, <1>1, <1>5, <1>6
      <3> QED BY <3>1, <3>2
    <2>2. Gap(w, start, o + 1)
      <3>1. ASSUME NEW k \in 1 .. Len(w), start < k, k < o + 1 PROVE w[k] = "space"
        <4>1. Len(gap) = 1 /\ k = Len(u) + 1
          <5>1. k \in Int /\ Len(u) < k /\ k < Len(u) + Len(gap) + 1
            BY <3>1, <1>7
          <5>2. Len(u) \in Int /\ (Len(gap) = 0 \/ Len(gap) = 1)
            BY <1>2, <1>4
          <5>3. ASSUME NEW a \in Int, NEW b \in Int, NEW g, g = 0 \/ g = 1, a < b, b < a + g + 1
                PROVE  g = 1 /\ b = a + 1
            BY <5>3
          <5> QED BY <5>1, <5>2, <5>3
        <4>2. v[Len(u) + 1] = gap[1]
          BY <4>1, <1>5
        <4> QED BY <4>1, <4>2, <1>2, <1>6
      <3>2. DOMAIN w = 1 .. Len(w)
        BY <1>6 DEF Address
      <3> QED BY <3>1, <3>2 DEF Gap
    <2>3. w[o + Len(s) + 1] = "comma" /\ start \in Nat /\ o \in Nat /\ start <= o
      BY <1>4, <1>5, <1>6, <1>7
    <2>4. \A k \in 1 .. Len(s) : w[o + k] = s[k]
      <3> SUFFICES ASSUME NEW k \in 1 .. Len(s) PROVE w[o + k] = s[k]
        OBVIOUS
      <3>1. o + k \in 1 .. Len(w)
        BY <1>4, <1>7
      <3> QED BY <3>1, <1>5, <1>6
    <2> HIDE DEF start, o
    <2> QED BY <2>1, <2>2, <2>3, <2>4, <1>6, <1>7, Within
  <1> QED BY <1>5, <1>8, <1>9 DEF u, v, w

-----------------------------------------------------------------------------
(* The message on screen.                                                    *)

IsDetail(d) ==
  /\ d = [mail |-> d.mail, mode |-> d.mode, attachment |-> d.attachment, link |-> d.link,
          preview |-> d.preview, raw |-> d.raw]
  /\ d.mode = "attachments" /\ d.preview # NoFile => d.preview = Enclosed[d.mail][d.attachment]
  /\ d.mail \in Mail => d.link \in 1 .. Len(Linked[d.mail]) \/ d.link = 1

OnScreen ==
  /\ page \in {"list", "detail", "compose"} /\ back \in {"list", "detail"}
  /\ page = "detail" \/ (page = "compose" /\ back = "detail") => detail.mail \in Mail

ScreenInv == OnScreen /\ IsDetail(detail)

ShowsAnother ==
  \/ \E m \in Mail : OpenDetail(m)
  \/ CloseDetail \/ LeaveMode \/ CycleMode \/ ToggleRawHeaders
  \/ \E by \in {"next", "prev"} : OtherAttachment(by) \/ OtherLink(by)

LEMMA PreviewKeeps ==
  ASSUME NEW d, d = [mail |-> d.mail, mode |-> d.mode, attachment |-> d.attachment, link |-> d.link,
                     preview |-> d.preview, raw |-> d.raw],
         d.mail \in Mail => d.link \in 1 .. Len(Linked[d.mail]) \/ d.link = 1
  PROVE  IsDetail(UpdatePreview(d)) /\ UpdatePreview(d).mail = d.mail
  BY DEF IsDetail, UpdatePreview

LEMMA FilesKeep ==
  ASSUME NEW d, IsDetail(d), NEW n
  PROVE  LET e == UpdatePreview([d EXCEPT !.attachment = n]) IN IsDetail(e) /\ e.mail = d.mail
  <1> DEFINE g == [d EXCEPT !.attachment = n]
  <1>1. /\ g = [mail |-> g.mail, mode |-> g.mode, attachment |-> g.attachment, link |-> g.link,
                preview |-> g.preview, raw |-> g.raw]
        /\ g.mail = d.mail /\ g.link = d.link
    BY DEF IsDetail
  <1> HIDE DEF g
  <1> QED BY <1>1, PreviewKeeps DEF IsDetail, g

LEMMA ModeKeeps ==
  ASSUME NEW d, IsDetail(d), NEW n
  PROVE  LET e == UpdatePreview([d EXCEPT !.mode = n]) IN IsDetail(e) /\ e.mail = d.mail
  <1> DEFINE g == [d EXCEPT !.mode = n]
  <1>1. /\ g = [mail |-> g.mail, mode |-> g.mode, attachment |-> g.attachment, link |-> g.link,
                preview |-> g.preview, raw |-> g.raw]
        /\ g.mail = d.mail /\ g.link = d.link
    BY DEF IsDetail
  <1> HIDE DEF g
  <1> QED BY <1>1, PreviewKeeps DEF IsDetail, g

LEMMA LinkKeeps ==
  ASSUME NEW d, IsDetail(d), d.mode # "attachments", d.mail \in Mail, NEW n \in 1 .. Len(Linked[d.mail])
  PROVE  LET e == [d EXCEPT !.link = n] IN IsDetail(e) /\ e.mail = d.mail
  BY DEF IsDetail

LEMMA TextKeeps ==
  ASSUME NEW d, IsDetail(d)
  PROVE  LET e == [d EXCEPT !.mode = "text"] IN IsDetail(e) /\ e.mail = d.mail
  BY DEF IsDetail

LEMMA NoneIsDetail == IsDetail(NoDetail)
  BY DEF IsDetail, NoDetail

LEMMA ShownKeeps == ASSUME ScreenInv, ShowsAnother PROVE ScreenInv'
  <1>1. ASSUME NEW d, Shows(d), IsDetail(d), d.mail = detail.mail PROVE ScreenInv'
    BY <1>1 DEF Shows, ScreenInv, OnScreen
  <1>2. ASSUME NEW m \in Mail, OpenDetail(m) PROVE ScreenInv'
    <2>1. detail' = [NoDetail EXCEPT !.mail = m, !.preview = detail.preview] /\ page' = "detail" /\ back' = back
      BY <1>2 DEF OpenDetail
    <2>2. IsDetail(NoDetail) /\ NoDetail.mode = "text" /\ NoDetail.link = 1
      BY NoneIsDetail DEF NoDetail
    <2>3. IsDetail(detail') /\ detail'.mail = m
      <3>1. detail' = [mail |-> m, mode |-> NoDetail.mode, attachment |-> NoDetail.attachment, link |-> NoDetail.link,
                       preview |-> detail.preview, raw |-> NoDetail.raw]
        BY <2>1, <2>2 DEF IsDetail
      <3>2. detail'.mode = "text" /\ detail'.link = 1 /\ detail'.mail = m
        BY <2>2, <3>1
      <3> QED BY <3>1, <3>2 DEF IsDetail
    <2> QED BY <2>1, <2>3 DEF ScreenInv, OnScreen
  <1>3. CASE CloseDetail
    BY <1>3, NoneIsDetail DEF CloseDetail, ScreenInv, OnScreen
  <1>4. CASE LeaveMode
    BY <1>1, <1>4, TextKeeps DEF LeaveMode, ScreenInv
  <1>5. CASE CycleMode
    <2> DEFINE files == Enclosed[detail.mail] # <<>>
               links == Linked[detail.mail] # <<>>
               next == CASE detail.mode = "text" /\ files -> "attachments"
                         [] detail.mode # "links" /\ links -> "links"
                         [] OTHER -> "text"
    <2>1. Shows(UpdatePreview(IF detail.raw THEN detail ELSE [detail EXCEPT !.mode = next]))
      BY <1>5 DEF CycleMode
    <2> HIDE DEF next
    <2>2. CASE detail.raw
      BY <1>1, <2>1, <2>2, PreviewKeeps DEF ScreenInv, IsDetail
    <2>3. CASE ~detail.raw
      BY <1>1, <2>1, <2>3, ModeKeeps DEF ScreenInv
    <2> QED BY <2>2, <2>3
  <1>6. CASE ToggleRawHeaders
    <2> DEFINE n == IF detail.raw THEN detail.mode ELSE "text"
               r == ~detail.raw
    <2>1. detail' = [detail EXCEPT !.raw = r, !.mode = n] /\ page' = page /\ back' = back
      BY <1>6 DEF ToggleRawHeaders, Shows
    <2>2. n = "text" \/ n = detail.mode
      OBVIOUS
    <2> HIDE DEF n, r
    <2>3. IsDetail(detail') /\ detail'.mail = detail.mail
      <3>1. detail' = [mail |-> detail.mail, mode |-> n, attachment |-> detail.attachment, link |-> detail.link,
                       preview |-> detail.preview, raw |-> r]
        BY <2>1 DEF ScreenInv, IsDetail
      <3>2. /\ detail'.mode = n /\ detail'.link = detail.link /\ detail'.mail = detail.mail
            /\ detail'.attachment = detail.attachment /\ detail'.preview = detail.preview
        BY <3>1
      <3>3. detail' = [mail |-> detail'.mail, mode |-> detail'.mode, attachment |-> detail'.attachment,
                       link |-> detail'.link, preview |-> detail'.preview, raw |-> detail'.raw]
        BY <3>1
      <3> QED BY <2>2, <3>2, <3>3 DEF ScreenInv, IsDetail
    <2> QED BY <2>1, <2>3 DEF ScreenInv, OnScreen
  <1>7. ASSUME NEW by \in {"next", "prev"}, OtherAttachment(by) PROVE ScreenInv'
    BY <1>1, <1>7, FilesKeep DEF OtherAttachment, ScreenInv
  <1>8. ASSUME NEW by \in {"next", "prev"}, OtherLink(by) PROVE ScreenInv'
    <2> DEFINE n == Len(Linked[detail.mail])
               k == Wrapped(IF by = "next" THEN detail.link + 1 ELSE detail.link - 1, n)
    <2>1. Shows([detail EXCEPT !.link = k]) /\ page = "detail" /\ detail.mode # "attachments"
          /\ Linked[detail.mail] # <<>>
      BY <1>8 DEF OtherLink
    <2>2. detail.mail \in Mail /\ Linked[detail.mail] \in Seq(Address)
      BY <2>1, ComposeAssumption DEF ScreenInv, OnScreen
    <2>3. n \in Nat \ {0}
      BY <2>1, <2>2
    <2>4. detail.link \in 1 .. n
      BY <2>2, <2>3 DEF ScreenInv, IsDetail
    <2>5. k \in 1 .. n
      BY <2>3, <2>4 DEF Wrapped
    <2> HIDE DEF k
    <2> QED BY <1>1, <2>1, <2>2, <2>5, LinkKeeps DEF ScreenInv
  <1> QED BY <1>2, <1>3, <1>4, <1>5, <1>6, <1>7, <1>8 DEF ShowsAnother

\* The steps on the form leave the message on screen; its page is told apart.
OnTheForm ==
  \/ EnterNew \/ OpenSelectedLink \/ EnterReply \/ EnterForward \/ ResumeDraft \/ CancelCompose
  \/ \E by \in {"next", "prev"} : CycleSender(by)
  \/ NextField \/ PrevField
  \/ \E c \in Letter \cup {"comma"} : AddressInput(c)
  \/ AddressBackspace \/ HideSuggestions \/ AcceptSuggestion
  \/ \E i \in DOMAIN Known : ChooseSuggestion(i)
  \/ \E c \in Letter : InsertChar(c)
  \/ Newline \/ Backspace \/ DeleteChar
  \/ MoveUp \/ MoveDown \/ MoveLeft \/ MoveRight \/ HomeOrEnd
  \/ OpenFileBrowser \/ LeaveFileBrowser \/ BrowserEnter \/ BrowserParent \/ BrowserHidden
  \/ \E i \in DOMAIN Entries(browser) : BrowserMove(i)
  \/ RemoveLastAttachment \/ SaveForm \/ SendForm \/ WorkerSends

PageSteps ==
  \/ page # "compose" /\ page' = "compose" /\ back' = page
  \/ page = "compose" /\ page' = back /\ back' = back
  \/ page' = page /\ back' = back

LEMMA FormLeavesScreen == ASSUME OnTheForm PROVE detail' = detail /\ PageSteps
  <1>1. CASE EnterNew \/ OpenSelectedLink \/ EnterReply \/ EnterForward \/ ResumeDraft
    BY <1>1 DEF EnterNew, OpenSelectedLink, EnterReply, EnterForward, ResumeDraft, Enter, PageSteps
  <1>2. CASE CancelCompose \/ SendForm
    BY <1>2 DEF CancelCompose, SendForm, Leave, PageSteps
  <1>3. CASE SaveForm \/ WorkerSends
    BY <1>3 DEF SaveForm, WorkerSends, PageSteps
  <1>4. ASSUME NEW f, NEW c, Writes(f, c) PROVE detail' = detail /\ PageSteps
    BY <1>4 DEF Writes, PageSteps
  <1>5. ASSUME NEW f, NEW b, Browses(b, f) PROVE detail' = detail /\ PageSteps
    BY <1>5 DEF Browses, PageSteps
  <1>6. ASSUME NEW f, NEW c, Edits(f, c) PROVE detail' = detail /\ PageSteps
    BY <1>4, <1>6 DEF Edits
  <1>7. ASSUME NEW by \in {"next", "prev"}, CycleSender(by) PROVE detail' = detail /\ PageSteps
    BY <1>7, <1>4 DEF CycleSender
  <1>8. CASE NextField \/ PrevField \/ AddressBackspace \/ HideSuggestions \/ AcceptSuggestion \/ RemoveLastAttachment
    BY <1>8, <1>4 DEF NextField, PrevField, AddressBackspace, HideSuggestions, AcceptSuggestion, RemoveLastAttachment
  <1>9. ASSUME NEW c, AddressInput(c) PROVE detail' = detail /\ PageSteps
    BY <1>9, <1>4 DEF AddressInput
  <1>10. ASSUME NEW i, ChooseSuggestion(i) PROVE detail' = detail /\ PageSteps
    BY <1>10, <1>4 DEF ChooseSuggestion
  <1>11. ASSUME NEW c, InsertChar(c) PROVE detail' = detail /\ PageSteps
    BY <1>11, <1>6 DEF InsertChar
  <1>12. CASE Newline \/ Backspace \/ DeleteChar
    BY <1>12, <1>6 DEF Newline, Backspace, DeleteChar
  <1>13. CASE MoveUp \/ MoveDown \/ MoveLeft \/ MoveRight \/ HomeOrEnd
    BY <1>13, <1>6 DEF MoveUp, MoveDown, MoveLeft, MoveRight, HomeOrEnd, MoveTo
  <1>14. CASE OpenFileBrowser \/ LeaveFileBrowser \/ BrowserEnter \/ BrowserParent \/ BrowserHidden
    BY <1>14, <1>5 DEF OpenFileBrowser, LeaveFileBrowser, BrowserEnter, BrowserParent, BrowserHidden
  <1>15. ASSUME NEW i, BrowserMove(i) PROVE detail' = detail /\ PageSteps
    BY <1>15, <1>5 DEF BrowserMove
  <1> QED BY <1>1, <1>2, <1>3, <1>7, <1>8, <1>9, <1>10, <1>11, <1>12, <1>13, <1>14, <1>15 DEF OnTheForm

LEMMA ScreenInit == ComposeInit => ScreenInv
  BY NoneIsDetail DEF ComposeInit, ScreenInv, OnScreen

LEMMA ScreenStep == ASSUME ScreenInv, [ComposeNextStep]_composeVars PROVE ScreenInv'
  <1>1. CASE ShowsAnother
    BY <1>1, ShownKeeps
  <1>2. CASE OnTheForm
    BY <1>2, FormLeavesScreen DEF PageSteps, ScreenInv, OnScreen
  <1>3. CASE StartAgain
    BY <1>3, NoneIsDetail DEF StartAgain, ScreenInv, OnScreen
  <1>4. CASE UNCHANGED composeVars
    BY <1>4 DEF composeVars, ScreenInv, OnScreen
  <1> QED BY <1>1, <1>2, <1>3, <1>4 DEF ComposeNextStep, ShowsAnother, OnTheForm

\* Whatever messages are opened and however the keys go through their attachments,
\* links and headers: the attachment shown is the one selected.
THEOREM PreviewsAreSelected == ComposeSpec => []PreviewIsSelected
  <1>1. ScreenInv => PreviewIsSelected
    BY DEF ScreenInv, IsDetail, PreviewIsSelected
  <1> QED BY <1>1, ScreenInit, ScreenStep, PTL DEF ComposeSpec

-----------------------------------------------------------------------------
(* The form.                                                                 *)

IsForm(f) ==
  f = [field |-> f.field, senders |-> f.senders, from |-> f.from, address |-> f.address, lines |-> f.lines,
       row |-> f.row, col |-> f.col, attached |-> f.attached, offered |-> f.offered,
       offering |-> f.offering, choice |-> f.choice]

\* What an address field came with, or was chosen for it, is complete.
FormInv ==
  /\ IsForm(form)
  /\ form.address \in [AddressField -> Address]
  /\ form.offered \subseteq DOMAIN Known
  /\ form.offering => form.choice \in DOMAIN Known
  /\ page = "compose" => form.senders = identities
  /\ picked = [f \in AddressField |-> picked[f]]
  /\ \A f \in AddressField : picked[f] \subseteq Recipients(UpToComma(form.address[f]))

\* Another form that says the same of the addresses.
Alike(f) ==
  /\ IsForm(f)
  /\ f.address = form.address /\ f.senders = form.senders /\ f.offered = form.offered
  /\ f.offering => form.offering /\ f.choice = form.choice

LEMMA AlikeKeeps ==
  ASSUME FormInv, NEW f, Alike(f), form' = f, UNCHANGED <<page, identities, picked>>
  PROVE  FormInv'
  BY DEF FormInv, Alike

LEMMA AlikeOne ==
  ASSUME NEW f, Alike(f), NEW x
  PROVE  /\ Alike([f EXCEPT !.field = x]) /\ Alike([f EXCEPT !.from = x]) /\ Alike([f EXCEPT !.lines = x])
         /\ Alike([f EXCEPT !.row = x]) /\ Alike([f EXCEPT !.col = x]) /\ Alike([f EXCEPT !.attached = x])
  <1>1. Alike([f EXCEPT !.field = x])
    BY DEF Alike, IsForm
  <1>2. Alike([f EXCEPT !.from = x])
    BY DEF Alike, IsForm
  <1>3. Alike([f EXCEPT !.lines = x])
    BY DEF Alike, IsForm
  <1>4. Alike([f EXCEPT !.row = x])
    BY DEF Alike, IsForm
  <1>5. Alike([f EXCEPT !.col = x])
    BY DEF Alike, IsForm
  <1>6. Alike([f EXCEPT !.attached = x])
    BY DEF Alike, IsForm
  <1> QED BY <1>1, <1>2, <1>3, <1>4, <1>5, <1>6

LEMMA AlikeHidden == ASSUME NEW f, Alike(f) PROVE Alike([f EXCEPT !.offering = FALSE])
  <1>1. ASSUME NEW b, ~b PROVE Alike([f EXCEPT !.offering = b])
    BY <1>1 DEF Alike, IsForm
  <1> DEFINE b == FALSE
  <1>2. ~b
    OBVIOUS
  <1> HIDE DEF b
  <1>3. Alike([f EXCEPT !.offering = b])
    BY <1>1, <1>2
  <1> QED BY <1>3 DEF b

LEMMA AlikeSome ==
  ASSUME NEW f, Alike(f), NEW x, NEW y
  PROVE  /\ Alike([f EXCEPT !.field = x, !.offering = FALSE])
         /\ Alike([f EXCEPT !.lines = x, !.col = y])
         /\ Alike([f EXCEPT !.row = x, !.col = y]) /\ Alike([f EXCEPT !.attached = x, !.field = y])
  <1>1. Alike([f EXCEPT !.field = x, !.offering = FALSE])
    <2> DEFINE g == [f EXCEPT !.field = x]
    <2>1. Alike(g) /\ [f EXCEPT !.field = x, !.offering = FALSE] = [g EXCEPT !.offering = FALSE]
      BY AlikeOne
    <2> HIDE DEF g
    <2> QED BY <2>1, AlikeHidden
  <1>2. Alike([f EXCEPT !.lines = x, !.col = y])
    <2> DEFINE g == [f EXCEPT !.lines = x]
    <2>1. Alike(g) /\ [f EXCEPT !.lines = x, !.col = y] = [g EXCEPT !.col = y]
      BY AlikeOne
    <2> HIDE DEF g
    <2> QED BY <2>1, AlikeOne
  <1>3. Alike([f EXCEPT !.row = x, !.col = y])
    <2> DEFINE g == [f EXCEPT !.row = x]
    <2>1. Alike(g) /\ [f EXCEPT !.row = x, !.col = y] = [g EXCEPT !.col = y]
      BY AlikeOne
    <2> HIDE DEF g
    <2> QED BY <2>1, AlikeOne
  <1>4. Alike([f EXCEPT !.attached = x, !.field = y])
    <2> DEFINE g == [f EXCEPT !.attached = x]
    <2>1. Alike(g) /\ [f EXCEPT !.attached = x, !.field = y] = [g EXCEPT !.field = y]
      BY AlikeOne
    <2> HIDE DEF g
    <2> QED BY <2>1, AlikeOne
  <1> QED BY <1>1, <1>2, <1>3, <1>4

LEMMA AlikeThree ==
  ASSUME NEW f, Alike(f), NEW x, NEW y, NEW z
  PROVE  Alike([f EXCEPT !.lines = x, !.row = y, !.col = z])
  <1> DEFINE g == [f EXCEPT !.lines = x]
             h == [g EXCEPT !.row = y]
  <1>1. [f EXCEPT !.lines = x, !.row = y, !.col = z] = [h EXCEPT !.col = z]
    OBVIOUS
  <1>2. Alike(g)
    BY AlikeOne
  <1> HIDE DEF g
  <1>3. Alike(h)
    BY <1>2, AlikeOne
  <1> HIDE DEF h
  <1> QED BY <1>1, <1>3, AlikeOne

WritesAlike ==
  \/ \E by \in {"next", "prev"} : CycleSender(by)
  \/ NextField \/ PrevField \/ HideSuggestions
  \/ \E c \in Letter : InsertChar(c)
  \/ Newline \/ Backspace \/ DeleteChar
  \/ MoveUp \/ MoveDown \/ MoveLeft \/ MoveRight \/ HomeOrEnd
  \/ OpenFileBrowser \/ LeaveFileBrowser \/ BrowserEnter \/ BrowserParent \/ BrowserHidden
  \/ \E i \in DOMAIN Entries(browser) : BrowserMove(i)
  \/ RemoveLastAttachment

FormKept == FormInv' /\ UNCHANGED <<draft, posted, letters, accepted, identities>>

LEMMA AlikeForm == ASSUME FormInv PROVE Alike(form)
  BY DEF FormInv, Alike

LEMMA AlikeAdvances ==
  ASSUME FormInv, NEW f, NEW c, Alike(f), (Writes(f, c) /\ UNCHANGED picked) \/ Browses(c, f)
  PROVE  FormKept
  BY AlikeKeeps DEF Writes, Browses, FormKept

LEMMA WritesAlikeKeep ==
  ASSUME FormInv, WritesAlike PROVE FormKept
  <1>0. Alike(form)
    BY AlikeForm
  <1>1. ASSUME NEW f, NEW c, Writes(f, c), UNCHANGED picked, Alike(f) PROVE FormKept
    BY <1>1, AlikeAdvances
  <1>2. ASSUME NEW f, NEW b, Browses(b, f), Alike(f) PROVE FormKept
    BY <1>2, AlikeAdvances
  <1>3. ASSUME NEW f, NEW c, Edits(f, c), Alike(f) PROVE FormKept
    BY <1>1, <1>3 DEF Edits
  <1>4. ASSUME NEW by \in {"next", "prev"}, CycleSender(by) PROVE FormKept
    <2>1. PICK x : Writes([form EXCEPT !.from = x], FALSE) /\ UNCHANGED picked
      BY <1>4 DEF CycleSender
    <2> QED BY <2>1, <1>0, <1>1, AlikeOne
  <1>5. CASE NextField \/ PrevField
    <2>1. PICK x : Writes([form EXCEPT !.field = x, !.offering = FALSE], FALSE) /\ UNCHANGED picked
      BY <1>5 DEF NextField, PrevField
    <2> QED BY <2>1, <1>0, <1>1, AlikeSome
  <1>6. CASE HideSuggestions
    BY <1>0, <1>1, <1>6, AlikeHidden DEF HideSuggestions
  <1>7. ASSUME NEW c \in Letter, InsertChar(c) PROVE FormKept
    <2>1. PICK x, y : Edits([form EXCEPT !.lines = x, !.col = y], TRUE)
      BY <1>7 DEF InsertChar
    <2>2. Alike([form EXCEPT !.lines = x, !.col = y])
      BY <1>0, AlikeSome
    <2> QED BY <2>1, <2>2, <1>3
  <1>8. CASE Newline
    <2>1. PICK x, y, z : Edits([form EXCEPT !.lines = x, !.row = y, !.col = z], TRUE)
      BY <1>8 DEF Newline
    <2> QED BY <2>1, <1>0, <1>3, AlikeThree
  <1>9. CASE Backspace
    <2>1. \/ \E x, y : Edits([form EXCEPT !.lines = x, !.col = y], TRUE)
          \/ \E x, y, z : Edits([form EXCEPT !.lines = x, !.row = y, !.col = z], TRUE)
      BY <1>9 DEF Backspace
    <2>2. ASSUME NEW x, NEW y, Edits([form EXCEPT !.lines = x, !.col = y], TRUE) PROVE FormKept
      <3>1. Alike([form EXCEPT !.lines = x, !.col = y])
        BY <1>0, AlikeSome
      <3> QED BY <2>2, <3>1, <1>3
    <2>3. ASSUME NEW x, NEW y, NEW z, Edits([form EXCEPT !.lines = x, !.row = y, !.col = z], TRUE) PROVE FormKept
      BY <2>3, <1>0, <1>3, AlikeThree
    <2> QED BY <2>1, <2>2, <2>3
  <1>10. CASE DeleteChar
    <2>1. PICK x : Edits([form EXCEPT !.lines = x], TRUE)
      BY <1>10 DEF DeleteChar
    <2> QED BY <2>1, <1>0, <1>3, AlikeOne
  <1>11. CASE MoveUp \/ MoveDown \/ MoveLeft \/ MoveRight \/ HomeOrEnd
    <2>1. PICK x, y : Edits([form EXCEPT !.row = x, !.col = y], FALSE)
      BY <1>11 DEF MoveUp, MoveDown, MoveLeft, MoveRight, HomeOrEnd, MoveTo
    <2>2. Alike([form EXCEPT !.row = x, !.col = y])
      BY <1>0, AlikeSome
    <2> QED BY <2>1, <2>2, <1>3
  <1>12. CASE OpenFileBrowser \/ LeaveFileBrowser
    <2>1. PICK b, x : Browses(b, [form EXCEPT !.field = x])
      BY <1>12 DEF OpenFileBrowser, LeaveFileBrowser
    <2> QED BY <2>1, <1>0, <1>2, AlikeOne
  <1>13. CASE BrowserEnter
    <2>1. (\E b : Browses(b, form)) \/ \E b, x, y : Browses(b, [form EXCEPT !.attached = x, !.field = y])
      BY <1>13 DEF BrowserEnter
    <2> QED BY <2>1, <1>0, <1>2, AlikeSome
  <1>14. CASE BrowserParent \/ BrowserHidden
    BY <1>14, <1>0, <1>2 DEF BrowserParent, BrowserHidden
  <1>15. ASSUME NEW i, BrowserMove(i) PROVE FormKept
    BY <1>15, <1>0, <1>2 DEF BrowserMove
  <1>16. CASE RemoveLastAttachment
    <2>1. PICK x, c : Writes([form EXCEPT !.attached = x], c) /\ UNCHANGED picked
      BY <1>16 DEF RemoveLastAttachment
    <2> QED BY <2>1, <1>0, <1>1, AlikeOne
  <1> QED BY <1>4, <1>5, <1>6, <1>7, <1>8, <1>9, <1>10, <1>11, <1>12, <1>13, <1>14, <1>15, <1>16 DEF WritesAlike

-----------------------------------------------------------------------------
(* Addresses that are typed, erased and chosen.                              *)

LEMMA SuggestedKeeps ==
  ASSUME NEW f, IsForm(f)
  PROVE  /\ IsForm(Suggested(f)) /\ Suggested(f).address = f.address /\ Suggested(f).senders = f.senders
         /\ Suggested(f).offered \subseteq DOMAIN Known
         /\ Suggested(f).offering => Suggested(f).choice \in DOMAIN Known
  <1> DEFINE t == f.address[f.field]
             part == Trimmed(SubSeq(t, Len(UpToComma(t)) + 1, Len(t)))
             found == {i \in DOMAIN Known : Len(part) > 1 /\ HasPart(Known[i], part)}
             first == IF found = {} THEN 1 ELSE CHOOSE i \in found : \A j \in found : i <= j
             some == found # {}
             a == [f EXCEPT !.offered = found]
             b == [a EXCEPT !.offering = some]
             c == [b EXCEPT !.choice = first]
  <1>1. Suggested(f) = c
    BY DEF Suggested
  <1>2. found \subseteq DOMAIN Known /\ DOMAIN Known \subseteq Nat
    BY ComposeAssumption
  <1>3. some => first \in found
    <2> HIDE DEF found
    <2>1. found # {} => \E i \in found : \A j \in found : i <= j
      BY <1>2, FirstOne
    <2> QED BY <2>1
  <1> HIDE DEF found, first, some
  <1>4. IsForm(a) /\ a.address = f.address /\ a.senders = f.senders /\ a.offered = found
    BY DEF IsForm
  <1> HIDE DEF a
  <1>5. IsForm(b) /\ b.address = f.address /\ b.senders = f.senders /\ b.offered = found /\ b.offering = some
    BY <1>4 DEF IsForm
  <1> HIDE DEF b
  <1>6. IsForm(c) /\ c.address = f.address /\ c.senders = f.senders /\ c.offered = found /\ c.offering = some
        /\ c.choice = first
    BY <1>5 DEF IsForm
  <1> HIDE DEF c
  <1> QED BY <1>1, <1>2, <1>3, <1>6

LEMMA TypingKeeps ==
  ASSUME FormInv, NEW c \in Letter \cup {"comma"}, AddressInput(c)
  PROVE  FormKept
  <1>1. /\ form.field \in AddressField /\ page = "compose"
        /\ form' = Suggested([form EXCEPT !.address[form.field] = Append(form.address[form.field], c)])
        /\ UNCHANGED <<page, picked, identities, draft, posted, letters, accepted>>
    BY DEF AddressInput, Writes
  <1> DEFINE i == form.field
             t == form.address[i]
             new == [form.address EXCEPT ![i] = Append(t, c)]
             f == [form EXCEPT !.address = new]
  <1>2. form' = Suggested(f)
    BY <1>1
  <1>3. t \in Address /\ c \in Char \cup {"comma", "space"}
    BY <1>1, ComposeAssumption DEF FormInv
  <1>4. Append(t, c) \in Address /\ Recipients(UpToComma(t)) \subseteq Recipients(UpToComma(Append(t, c)))
    BY <1>3, TypedKeeps
  <1>5. new \in [AddressField -> Address] /\ \A k \in AddressField : new[k] = IF k = i THEN Append(t, c) ELSE form.address[k]
    BY <1>1, <1>4 DEF FormInv
  <1> HIDE DEF new
  <1>6. IsForm(f) /\ f.address = new /\ f.senders = form.senders
    BY DEF FormInv, IsForm
  <1> HIDE DEF f
  <1>7. /\ IsForm(form') /\ form'.address = new /\ form'.senders = form.senders
        /\ form'.offered \subseteq DOMAIN Known /\ (form'.offering => form'.choice \in DOMAIN Known)
    BY <1>2, <1>6, SuggestedKeeps
  <1>8. \A k \in AddressField : picked[k] \subseteq Recipients(UpToComma(new[k]))
    BY <1>1, <1>4, <1>5 DEF FormInv
  <1> QED BY <1>1, <1>5, <1>7, <1>8 DEF FormInv, FormKept

LEMMA ErasingKeeps ==
  ASSUME FormInv, AddressBackspace
  PROVE  FormKept
  <1> DEFINE i == form.field
             t == form.address[i]
             new == [form.address EXCEPT ![i] = Front(t)]
             f == [form EXCEPT !.address = new]
  <1>1. /\ i \in AddressField /\ t # <<>> /\ page = "compose"
        /\ picked' = [picked EXCEPT ![i] = {}]
        /\ UNCHANGED <<page, identities, draft, posted, letters, accepted>>
    BY DEF AddressBackspace, Writes
  <1>0. form' = Suggested(f)
    BY DEF AddressBackspace, Writes
  <1>2. t \in Address
    BY <1>1 DEF FormInv
  <1>3. Front(t) \in Address
    <2>1. Len(t) \in Nat \ {0}
      BY <1>1, <1>2 DEF Address
    <2> QED BY <1>2, <2>1 DEF Address, Front
  <1>4. new \in [AddressField -> Address] /\ \A k \in AddressField : k # i => new[k] = form.address[k]
    BY <1>1, <1>3 DEF FormInv
  <1> HIDE DEF new
  <1>5. IsForm(f) /\ f.address = new /\ f.senders = form.senders
    BY DEF FormInv, IsForm
  <1> HIDE DEF f
  <1>6. /\ IsForm(form') /\ form'.address = new /\ form'.senders = form.senders
        /\ form'.offered \subseteq DOMAIN Known /\ (form'.offering => form'.choice \in DOMAIN Known)
    BY <1>0, <1>5, SuggestedKeeps
  <1>7. picked' = [k \in AddressField |-> picked'[k]] /\ \A k \in AddressField : picked'[k] = IF k = i THEN {} ELSE picked[k]
    BY <1>1 DEF FormInv
  <1>8. \A k \in AddressField : picked'[k] \subseteq Recipients(UpToComma(new[k]))
    BY <1>4, <1>7 DEF FormInv
  <1> QED BY <1>1, <1>4, <1>6, <1>7, <1>8 DEF FormInv, FormKept

LEMMA AcceptingKeeps ==
  ASSUME FormInv, AcceptSuggestion
  PROVE  FormKept
  <1> DEFINE i == form.field
             t == form.address[i]
             chosen == Known[form.choice]
             new == [form.address EXCEPT ![i] = Accepted(t, chosen)]
             a == [form EXCEPT !.address = new]
             no == FALSE
             none == {}
             b == [a EXCEPT !.offering = no]
             c == [b EXCEPT !.offered = none]
             d == [c EXCEPT !.choice = 1]
  <1>1. /\ i \in AddressField /\ form.offering /\ page = "compose"
        /\ picked' = [picked EXCEPT ![i] = picked[i] \cup Recipients(chosen)]
        /\ UNCHANGED <<page, identities, draft, posted, letters, accepted>>
    BY DEF AcceptSuggestion, Writes, Suggesting
  <1>2. form' = d
    BY DEF AcceptSuggestion, Writes
  <1>3. t \in Address /\ chosen \in Address
    BY <1>1, ComposeAssumption DEF FormInv
  <1>4. /\ Accepted(t, chosen) \in Address
        /\ Recipients(UpToComma(t)) \cup Recipients(chosen) \subseteq Recipients(UpToComma(Accepted(t, chosen)))
    BY <1>3, AcceptedKeeps
  <1>5. new \in [AddressField -> Address]
        /\ \A k \in AddressField : new[k] = IF k = i THEN Accepted(t, chosen) ELSE form.address[k]
    BY <1>1, <1>4 DEF FormInv
  <1>6. ~no /\ none \subseteq DOMAIN Known
    OBVIOUS
  <1> HIDE DEF new, no, none
  <1>7. IsForm(a) /\ a.address = new /\ a.senders = form.senders
    BY DEF FormInv, IsForm
  <1> HIDE DEF a
  <1>8. IsForm(b) /\ b.address = new /\ b.senders = form.senders /\ b.offering = no
    BY <1>7 DEF IsForm
  <1> HIDE DEF b
  <1>9. IsForm(c) /\ c.address = new /\ c.senders = form.senders /\ c.offering = no /\ c.offered = none
    BY <1>8 DEF IsForm
  <1> HIDE DEF c
  <1>10. IsForm(d) /\ d.address = new /\ d.senders = form.senders /\ d.offering = no /\ d.offered = none
    BY <1>9 DEF IsForm
  <1> HIDE DEF d
  <1>11. picked' = [k \in AddressField |-> picked'[k]]
         /\ \A k \in AddressField : picked'[k] = IF k = i THEN picked[k] \cup Recipients(chosen) ELSE picked[k]
    BY <1>1 DEF FormInv
  <1>12. \A k \in AddressField : picked'[k] \subseteq Recipients(UpToComma(new[k]))
    BY <1>4, <1>5, <1>11 DEF FormInv
  <1> QED BY <1>1, <1>2, <1>5, <1>6, <1>10, <1>11, <1>12 DEF FormInv, FormKept

LEMMA ChoosingKeeps ==
  ASSUME FormInv, NEW i, ChooseSuggestion(i)
  PROVE  FormKept
  <1> DEFINE f == [form EXCEPT !.choice = i]
  <1>1. /\ form' = f /\ i \in DOMAIN Known
        /\ UNCHANGED <<page, identities, picked, draft, posted, letters, accepted>>
    BY DEF ChooseSuggestion, Writes, FormInv
  <1>2. IsForm(f) /\ f.address = form.address /\ f.senders = form.senders /\ f.offered = form.offered /\ f.choice = i
    BY DEF FormInv, IsForm
  <1> HIDE DEF f
  <1> QED BY <1>1, <1>2 DEF FormInv, FormKept

-----------------------------------------------------------------------------
(* What goes out is what the form said.                                      *)

Said == {l.said : l \in letters}

SentInv ==
  /\ draft = NoDraft \/ draft.address \in [AddressField -> Address]
  /\ posted \in Seq(Said) /\ accepted \subseteq Said
  /\ \A l \in letters : l.own

LEMMA LongerQueue == ASSUME NEW S, NEW T, S \subseteq T, NEW s \in Seq(S) PROVE s \in Seq(T)
  OBVIOUS

LEMMA OpenedIsForm ==
  ASSUME NEW s, NEW x
  PROVE  LET f == [Blank EXCEPT !.senders = s, !.from = x] IN
         IsForm(f) /\ f.address = NoAddresses /\ f.senders = s /\ f.offered = {} /\ ~f.offering
  <1>1. IsForm(Blank) /\ Blank.address = NoAddresses /\ Blank.offered = {} /\ ~Blank.offering
    BY DEF Blank, IsForm
  <1> DEFINE g == [Blank EXCEPT !.senders = s]
  <1>2. IsForm(g) /\ g.address = NoAddresses /\ g.offered = {} /\ ~g.offering /\ g.senders = s
    BY <1>1 DEF IsForm
  <1> HIDE DEF g
  <1> DEFINE h == [g EXCEPT !.from = x]
  <1>3. IsForm(h) /\ h.address = NoAddresses /\ h.offered = {} /\ ~h.offering /\ h.senders = s
    BY <1>2 DEF IsForm
  <1>4. h = [Blank EXCEPT !.senders = s, !.from = x]
    BY DEF g
  <1> HIDE DEF h
  <1> QED BY <1>3, <1>4

NewForm(f) ==
  /\ IsForm(f) /\ f.senders = identities /\ f.offered = {} /\ ~f.offering
  /\ f.address \in [AddressField -> Address]

FormsInv == FormInv /\ SentInv

LEMMA OpenedIsNew == NewForm(Opened)
  <1>1. NoAddresses \in [AddressField -> Address]
    BY DEF NoAddresses, Address
  <1> DEFINE s == identities
             x == Head(identities)
             f == [Blank EXCEPT !.senders = s, !.from = x]
  <1>2. Opened = f
    BY DEF Opened
  <1> HIDE DEF s, x
  <1>3. IsForm(f) /\ f.address = NoAddresses /\ f.senders = s /\ f.offered = {} /\ ~f.offering
    BY OpenedIsForm
  <1> HIDE DEF f
  <1> QED BY <1>1, <1>2, <1>3 DEF NewForm, s

LEMMA NewOne ==
  ASSUME NEW f, NewForm(f), NEW x
  PROVE  /\ NewForm([f EXCEPT !.field = x]) /\ NewForm([f EXCEPT !.from = x])
         /\ NewForm([f EXCEPT !.lines = x]) /\ NewForm([f EXCEPT !.attached = x])
  <1>1. NewForm([f EXCEPT !.field = x])
    BY DEF NewForm, IsForm
  <1>2. NewForm([f EXCEPT !.from = x])
    BY DEF NewForm, IsForm
  <1>3. NewForm([f EXCEPT !.lines = x])
    BY DEF NewForm, IsForm
  <1>4. NewForm([f EXCEPT !.attached = x])
    BY DEF NewForm, IsForm
  <1> QED BY <1>1, <1>2, <1>3, <1>4

LEMMA NewAddress ==
  ASSUME NEW f, NewForm(f), NEW x \in [AddressField -> Address] PROVE NewForm([f EXCEPT !.address = x])
  BY DEF NewForm, IsForm

LEMMA NewTo ==
  ASSUME NEW f, NewForm(f), NEW x \in Address PROVE NewForm([f EXCEPT !.address["To"] = x])
  <1> DEFINE new == [f.address EXCEPT !["To"] = x]
  <1>1. new \in [AddressField -> Address]
    BY DEF NewForm
  <1>2. [f EXCEPT !.address["To"] = x] = [f EXCEPT !.address = new]
    OBVIOUS
  <1> HIDE DEF new
  <1> QED BY <1>1, <1>2, NewAddress

LEMMA EnterKeeps ==
  ASSUME FormsInv, NEW f, NewForm(f), Enter(f)
  PROVE  FormsInv'
  <1>1. /\ page' = "compose" /\ form' = f
        /\ picked' = [field \in AddressField |-> Recipients(UpToComma(f.address[field]))]
        /\ identities' = identities /\ draft' = draft /\ posted' = posted /\ letters' = letters /\ accepted' = accepted
    BY DEF Enter
  <1>2. SentInv'
    BY <1>1 DEF FormsInv, SentInv, Said
  <1>3. FormInv'
    BY <1>1 DEF NewForm, FormInv
  <1> QED BY <1>2, <1>3 DEF FormsInv

LEMMA LinksAreAddresses ==
  ASSUME ScreenInv, page = "detail", Linked[detail.mail] # <<>>
  PROVE  Linked[detail.mail][detail.link] \in Address
  <1>1. detail.mail \in Mail /\ Linked[detail.mail] \in Seq(Address)
    BY ComposeAssumption DEF ScreenInv, OnScreen
  <1> DEFINE s == Linked[detail.mail]
  <1>2. Len(s) \in Nat \ {0}
    BY <1>1
  <1>3. detail.link \in 1 .. Len(s)
    BY <1>1, <1>2 DEF ScreenInv, IsDetail
  <1> QED BY <1>1, <1>3

LEMMA EnteringKeeps ==
  ASSUME FormsInv, ScreenInv, EnterNew \/ OpenSelectedLink \/ EnterReply \/ EnterForward \/ ResumeDraft
  PROVE  FormsInv'
  <1>1. CASE EnterNew
    BY <1>1, OpenedIsNew, EnterKeeps DEF EnterNew
  <1>2. CASE OpenSelectedLink
    <2> DEFINE x == Linked[detail.mail][detail.link]
               g == [Opened EXCEPT !.address["To"] = x]
               h == [g EXCEPT !.field = "Subject"]
    <2>1. x \in Address
      BY <1>2, LinksAreAddresses DEF OpenSelectedLink
    <2>2. Enter(h)
      BY <1>2 DEF OpenSelectedLink
    <2> HIDE DEF x
    <2>3. NewForm(g)
      BY <2>1, OpenedIsNew, NewTo
    <2> HIDE DEF g
    <2>4. NewForm(h)
      BY <2>3, NewOne
    <2> HIDE DEF h
    <2> QED BY <2>2, <2>4, EnterKeeps
  <1>3. CASE EnterReply
    <2> DEFINE x == Author[detail.mail]
               lines == <<<<>>, <<>>>> \o Quotation[detail.mail]
               g == [Opened EXCEPT !.address["To"] = x]
               h == [g EXCEPT !.field = "Body"]
               k == [h EXCEPT !.lines = lines]
    <2>1. x \in Address
      BY <1>3, ComposeAssumption DEF EnterReply, ScreenInv, OnScreen
    <2>2. Enter(k)
      BY <1>3 DEF EnterReply
    <2> HIDE DEF x, lines
    <2>3. NewForm(g)
      BY <2>1, OpenedIsNew, NewTo
    <2> HIDE DEF g
    <2>4. NewForm(h)
      BY <2>3, NewOne
    <2> HIDE DEF h
    <2>5. NewForm(k)
      BY <2>4, NewOne
    <2> HIDE DEF k
    <2> QED BY <2>2, <2>5, EnterKeeps
  <1>4. CASE EnterForward
    <2> DEFINE lines == <<<<>>, <<>>>> \o Quotation[detail.mail]
               files == Enclosed[detail.mail]
               attached == [i \in DOMAIN files |-> [of |-> detail.mail, name |-> files[i]]]
               g == [Opened EXCEPT !.lines = lines]
               h == [g EXCEPT !.attached = attached]
    <2>1. Enter(h)
      BY <1>4 DEF EnterForward
    <2> HIDE DEF lines, attached
    <2>2. NewForm(g)
      BY OpenedIsNew, NewOne
    <2> HIDE DEF g
    <2>3. NewForm(h)
      BY <2>2, NewOne
    <2> HIDE DEF h
    <2> QED BY <2>1, <2>3, EnterKeeps
  <1>5. CASE ResumeDraft
    <2> DEFINE from == draft.from
               address == draft.address
               lines == Restored(draft.lines)
               g == [Opened EXCEPT !.from = from]
               h == [g EXCEPT !.address = address]
               k == [h EXCEPT !.lines = lines]
               m == [k EXCEPT !.field = "Body"]
    <2>1. address \in [AddressField -> Address]
      BY <1>5 DEF ResumeDraft, FormsInv, SentInv
    <2>2. Enter(m)
      BY <1>5 DEF ResumeDraft
    <2> HIDE DEF from, address, lines
    <2>3. NewForm(g)
      BY OpenedIsNew, NewOne
    <2> HIDE DEF g
    <2>4. NewForm(h)
      BY <2>1, <2>3, NewAddress
    <2> HIDE DEF h
    <2>5. NewForm(k)
      BY <2>4, NewOne
    <2> HIDE DEF k
    <2>6. NewForm(m)
      BY <2>5, NewOne
    <2> HIDE DEF m
    <2> QED BY <2>2, <2>6, EnterKeeps
  <1> QED BY <1>1, <1>2, <1>3, <1>4, <1>5

LEMMA BlankKeeps ==
  ASSUME form' = Blank, picked' = Nobody, page' # "compose" PROVE FormInv'
  <1>1. IsForm(Blank) /\ Blank.address = NoAddresses /\ Blank.offered = {} /\ ~Blank.offering
    BY DEF Blank, IsForm
  <1>2. NoAddresses \in [AddressField -> Address] /\ Nobody = [f \in AddressField |-> Nobody[f]]
        /\ \A f \in AddressField : Nobody[f] = {}
    BY DEF NoAddresses, Address, Nobody
  <1> QED BY <1>1, <1>2 DEF FormInv

LEMMA LeavingKeeps ==
  ASSUME FormsInv, ScreenInv, CancelCompose \/ SendForm \/ StartAgain
  PROVE  FormsInv'
  <1>1. form' = Blank /\ picked' = Nobody /\ page' # "compose"
    BY DEF CancelCompose, SendForm, StartAgain, Leave, ScreenInv, OnScreen
  <1>2. SentInv'
    <2>1. CASE CancelCompose
      BY <2>1 DEF CancelCompose, Leave, FormsInv, SentInv, Said
    <2>2. CASE StartAgain
      <3>1. posted' = <<>> /\ draft' = draft /\ letters' = letters /\ accepted' = accepted
        BY <2>2 DEF StartAgain
      <3> QED BY <3>1 DEF FormsInv, SentInv, Said
    <2>3. CASE SendForm
      <3> DEFINE job == LetterOf(form)
                 letter == [said |-> job, own |-> form.from \in ToSet(identities)]
      <3>1. /\ page = "compose" /\ form.from \in ToSet(form.senders)
            /\ draft' = DraftOf(form) /\ posted' = Append(posted, job)
            /\ letters' = letters \cup {letter} /\ accepted' = accepted
        BY <2>3 DEF SendForm, Leave, FromIsValid
      <3>2. draft'.address \in [AddressField -> Address]
        BY <3>1 DEF DraftOf, FormsInv, FormInv
      <3>3. letter.said = job /\ letter.own
        BY <3>1 DEF FormsInv, FormInv
      <3> HIDE DEF job, letter
      <3>4. Said \subseteq Said' /\ job \in Said'
        BY <3>1, <3>3 DEF Said
      <3>5. posted \in Seq(Said')
        BY <3>4, LongerQueue DEF FormsInv, SentInv
      <3>6. posted' \in Seq(Said')
        BY <3>1, <3>4, <3>5
      <3>7. \A l \in letters' : l.own
        BY <3>1, <3>3 DEF FormsInv, SentInv
      <3> QED BY <3>1, <3>2, <3>4, <3>6, <3>7 DEF FormsInv, SentInv
    <2> QED BY <2>1, <2>2, <2>3
  <1> QED BY <1>1, <1>2, BlankKeeps DEF FormsInv

LEMMA SavingKeeps == ASSUME FormsInv, SaveForm PROVE FormsInv'
  <1>1. /\ draft' = DraftOf(form)
        /\ UNCHANGED <<page, form, picked, identities, posted, letters, accepted>>
    BY DEF SaveForm, formVars
  <1>2. draft'.address \in [AddressField -> Address]
    BY <1>1 DEF DraftOf, FormsInv, FormInv
  <1> QED BY <1>1, <1>2 DEF FormsInv, FormInv, SentInv, Said

LEMMA WorkerFormKeeps == ASSUME FormsInv, WorkerSends PROVE FormsInv'
  <1>1. /\ posted # <<>> /\ posted' = Tail(posted)
        /\ accepted' \in {accepted, accepted \cup Built(Head(posted))}
        /\ UNCHANGED <<page, form, picked, identities, draft, letters>>
    BY DEF WorkerSends, formVars
  <1>2. Head(posted) \in Said /\ Tail(posted) \in Seq(Said)
    BY <1>1 DEF FormsInv, SentInv
  <1>3. Built(Head(posted)) \subseteq Said
    BY <1>2 DEF Built
  <1>4. Said' = Said
    BY <1>1 DEF Said
  <1> QED BY <1>1, <1>2, <1>3, <1>4 DEF FormsInv, FormInv, SentInv

LEMMA FormsInit == ComposeInit => FormsInv
  <1> SUFFICES ASSUME ComposeInit PROVE FormsInv
    OBVIOUS
  <1>1. IsForm(Blank) /\ Blank.address = NoAddresses /\ Blank.offered = {} /\ ~Blank.offering
    BY DEF Blank, IsForm
  <1>2. NoAddresses \in [AddressField -> Address] /\ Nobody = [f \in AddressField |-> Nobody[f]]
        /\ \A f \in AddressField : Nobody[f] = {}
    BY DEF NoAddresses, Address, Nobody
  <1>3. FormInv
    BY <1>1, <1>2 DEF ComposeInit, FormInv
  <1>4. SentInv
    BY ComposeAssumption DEF ComposeInit, SentInv, Said
  <1> QED BY <1>3, <1>4 DEF FormsInv

ComposeInv == ScreenInv /\ FormsInv

LEMMA KeptForms == ASSUME FormsInv, FormKept PROVE FormsInv'
  BY DEF FormsInv, FormKept, SentInv, Said

LEMMA ComposeKeeps == ASSUME ComposeInv, [ComposeNextStep]_composeVars PROVE ComposeInv'
  <1> USE DEF ComposeInv
  <1>1. CASE ShowsAnother
    <2>1. UNCHANGED <<form, picked, identities, draft, posted, letters, accepted>> /\ (page' = page \/ page' # "compose")
      <3>1. ASSUME NEW d, Shows(d)
            PROVE  UNCHANGED <<page, form, picked, identities, draft, posted, letters, accepted>>
        BY <3>1 DEF Shows, formVars
      <3>2. ASSUME NEW m, OpenDetail(m)
            PROVE  UNCHANGED <<form, picked, identities, draft, posted, letters, accepted>> /\ page' # "compose"
        BY <3>2 DEF OpenDetail, formVars
      <3>3. CASE CloseDetail
        BY <3>3 DEF CloseDetail, formVars
      <3>4. CASE LeaveMode \/ CycleMode \/ ToggleRawHeaders
        BY <3>1, <3>4 DEF LeaveMode, CycleMode, ToggleRawHeaders
      <3>5. ASSUME NEW by, OtherAttachment(by) \/ OtherLink(by)
            PROVE  UNCHANGED <<page, form, picked, identities, draft, posted, letters, accepted>>
        BY <3>1, <3>5 DEF OtherAttachment, OtherLink
      <3> QED BY <1>1, <3>2, <3>3, <3>4, <3>5 DEF ShowsAnother
    <2>2. FormsInv'
      BY <2>1 DEF FormsInv, FormInv, SentInv, Said
    <2> QED BY <2>2, ScreenStep
  <1>2. CASE UNCHANGED composeVars
    BY <1>2, ScreenStep DEF composeVars, formVars, FormsInv, FormInv, SentInv, Said
  <1>3. CASE WritesAlike \/ (\E c \in Letter \cup {"comma"} : AddressInput(c)) \/ AddressBackspace
             \/ AcceptSuggestion \/ \E i \in DOMAIN Known : ChooseSuggestion(i)
    <2>1. FormKept
      BY <1>3, WritesAlikeKeep, TypingKeeps, ErasingKeeps, AcceptingKeeps, ChoosingKeeps DEF FormsInv
    <2> QED BY <2>1, KeptForms, ScreenStep
  <1>4. CASE EnterNew \/ OpenSelectedLink \/ EnterReply \/ EnterForward \/ ResumeDraft
    BY <1>4, EnteringKeeps, ScreenStep
  <1>5. CASE CancelCompose \/ SendForm \/ StartAgain
    BY <1>5, LeavingKeeps, ScreenStep
  <1>6. CASE SaveForm \/ WorkerSends
    BY <1>6, SavingKeeps, WorkerFormKeeps, ScreenStep
  <1> QED BY <1>1, <1>2, <1>3, <1>4, <1>5, <1>6 DEF ComposeNextStep, ShowsAnother, WritesAlike

\* For any addresses, suggestions, senders and forwarded files, and whatever the
\* worker manages to send: what goes out is what a form said, from an address
\* configured then, and what was chosen stays a recipient.
THEOREM SendsAsShown == ComposeSpec => []SentAsShown
  <1>1. ComposeInv => SentAsShown
    <2> SUFFICES ASSUME ComposeInv PROVE SentAsShown
      OBVIOUS
    <2>1. \A f \in AddressField : picked[f] \subseteq Recipients(form.address[f])
      BY CompletedIsThere DEF ComposeInv, FormsInv, FormInv
    <2> QED BY <2>1 DEF ComposeInv, FormsInv, SentInv, Said, SentAsShown
  <1>2. ComposeInit => ComposeInv
    BY FormsInit, ScreenInit DEF ComposeInv
  <1> QED BY <1>1, <1>2, ComposeKeeps, PTL DEF ComposeSpec

-----------------------------------------------------------------------------
(* Induction over numbers, and lines cut in two.                             *)

LEMMA SetInduction ==
  ASSUME NEW S, 0 \in S, \A n \in Nat : n \in S => n + 1 \in S
  PROVE  Nat \subseteq S
<1> SUFFICES ASSUME NEW n \in Nat, n \notin S PROVE FALSE
  OBVIOUS
<1> DEFINE A == S \cap (0 .. n)
           B == A \ {0}
           f == [k \in A |-> k + 1]
<1>1. IsFiniteSet(A) /\ IsFiniteSet(B)
  <2>1. IsFiniteSet(0 .. n)
    BY FS_Interval
  <2>2. A \subseteq 0 .. n /\ B \subseteq 0 .. n
    OBVIOUS
  <2> QED BY <2>1, <2>2, FS_Subset
<1>2. 0 \in A
  OBVIOUS
<1>3. Cardinality(B) = Cardinality(A) - 1
  <2> HIDE DEF A
  <2> QED BY <1>1, <1>2, FS_RemoveElement
<1>4. f \in [A -> B]
  <2> SUFFICES ASSUME NEW k \in A PROVE k + 1 \in B
    OBVIOUS
  <2>1. k \in Nat /\ k # n /\ k <= n
    OBVIOUS
  <2> QED BY <2>1
<1>5. Cardinality(A) \in Nat /\ Cardinality(B) \in Nat
  BY <1>1, FS_CardinalityType
<1>6. Cardinality(B) < Cardinality(A)
  BY <1>3, <1>5
<1>7. \A x, y \in A : f[x] = f[y] => x = y
  OBVIOUS
<1> HIDE DEF A, B, f
<1>8. \E x, y \in A : x # y /\ f[x] = f[y]
  BY <1>1, <1>4, <1>6, FS_PigeonHole
<1> QED BY <1>7, <1>8

\* A function on the numbers up to n that starts at x and goes on as g says.
GoesOn(h, n, x, g) == h[0] = x /\ \A k \in 0 .. n - 1 : h[k + 1] = g[k][h[k]]

LEMMA GoesOnOnce ==
  ASSUME NEW x, NEW g, NEW m \in Nat, NEW n \in Nat, NEW h, NEW f, GoesOn(h, m, x, g), GoesOn(f, n, x, g)
  PROVE  \A k \in Nat : k <= m /\ k <= n => h[k] = f[k]
<1> DEFINE S == {k \in Nat : k <= m /\ k <= n => h[k] = f[k]}
<1>1. 0 \in S
  BY DEF GoesOn
<1>2. ASSUME NEW k \in Nat, k \in S PROVE k + 1 \in S
  <2> SUFFICES ASSUME k + 1 <= m, k + 1 <= n PROVE h[k + 1] = f[k + 1]
    OBVIOUS
  <2>1. h[k] = f[k] /\ k \in 0 .. m - 1 /\ k \in 0 .. n - 1
    BY <1>2
  <2> QED BY <2>1 DEF GoesOn
<1> HIDE DEF S
<1>3. Nat \subseteq S
  BY <1>1, <1>2, SetInduction
<1> QED BY <1>3 DEF S

LEMMA GoesOnFar ==
  ASSUME NEW V, NEW x \in V, NEW g \in [Nat -> [V -> V]]
  PROVE  \A n \in Nat : \E h \in [0 .. n -> V] : GoesOn(h, n, x, g)
<1> DEFINE S == {n \in Nat : \E h \in [0 .. n -> V] : GoesOn(h, n, x, g)}
<1>1. 0 \in S
  <2>1. [i \in 0 .. 0 |-> x] \in [0 .. 0 -> V] /\ GoesOn([i \in 0 .. 0 |-> x], 0, x, g)
    BY DEF GoesOn
  <2> QED BY <2>1
<1>2. ASSUME NEW n \in Nat, n \in S PROVE n + 1 \in S
  <2>1. PICK h \in [0 .. n -> V] : GoesOn(h, n, x, g)
    BY <1>2
  <2> DEFINE e == [i \in 0 .. n + 1 |-> IF i = n + 1 THEN g[n][h[n]] ELSE h[i]]
  <2>2. g[n][h[n]] \in V
    OBVIOUS
  <2>3. e \in [0 .. n + 1 -> V]
    BY <2>2
  <2>4. ASSUME NEW k \in 0 .. n PROVE e[k + 1] = g[k][e[k]]
    <3>1. k + 1 \in 0 .. n + 1 /\ k \in 0 .. n + 1 /\ k # n + 1 /\ e[k] = h[k]
      OBVIOUS
    <3>2. CASE k = n
      BY <3>1, <3>2
    <3>3. CASE k # n
      <4>1. k \in 0 .. n - 1 /\ k + 1 # n + 1
        BY <3>3
      <4> QED BY <4>1, <3>1, <2>1 DEF GoesOn
    <3> QED BY <3>2, <3>3
  <2>5. e[0] = x /\ (n + 1) - 1 = n
    BY <2>1 DEF GoesOn
  <2> HIDE DEF e
  <2>6. GoesOn(e, n + 1, x, g)
    BY <2>4, <2>5 DEF GoesOn
  <2> QED BY <2>3, <2>6
<1> HIDE DEF S
<1>3. Nat \subseteq S
  BY <1>1, <1>2, SetInduction
<1> QED BY <1>3 DEF S

-----------------------------------------------------------------------------

Texts == Seq(Char \cup {LineBreak})
Bodies == Seq(Seq(Char))

\* What Told goes through.
IsTold(t, lines) ==
  t = [i \in 0 .. Len(lines) |-> IF i = 0 THEN <<>> ELSE t[i - 1] \o lines[i] \o <<LineBreak>>]

LEMMA LinesAreTexts == ASSUME NEW l \in Seq(Char) PROVE l \in Texts /\ l \o <<LineBreak>> \in Texts /\ <<LineBreak>> \in Texts
  BY DEF Texts

LEMMA TextsJoin == ASSUME NEW a \in Texts, NEW b \in Texts PROVE a \o b \in Texts
  BY DEF Texts

LEMMA ToldExists == ASSUME NEW lines \in Bodies PROVE \E t : IsTold(t, lines)
<1> DEFINE n == Len(lines)
           V == Texts
           g == [k \in Nat |-> [v \in V |-> IF k + 1 \in 1 .. n THEN v \o lines[k + 1] \o <<LineBreak>> ELSE v]]
<1>1. n \in Nat /\ DOMAIN lines = 1 .. n /\ \A i \in 1 .. n : lines[i] \in Seq(Char)
  BY DEF Bodies
<1>2. g \in [Nat -> [V -> V]]
  <2> SUFFICES ASSUME NEW k \in Nat, NEW v \in V, k + 1 \in 1 .. n PROVE v \o lines[k + 1] \o <<LineBreak>> \in V
    OBVIOUS
  <2>1. lines[k + 1] \in Texts /\ <<LineBreak>> \in Texts
    BY <1>1, LinesAreTexts
  <2> QED BY <2>1, TextsJoin
<1>3. <<>> \in V
  BY DEF Texts
<1>4. PICK h \in [0 .. n -> V] : GoesOn(h, n, <<>>, g)
  <2> HIDE DEF g, V, n
  <2> QED BY <1>1, <1>2, <1>3, GoesOnFar
<1>5. ASSUME NEW i \in 0 .. n PROVE h[i] = IF i = 0 THEN <<>> ELSE h[i - 1] \o lines[i] \o <<LineBreak>>
  <2>1. CASE i = 0
    BY <2>1, <1>4 DEF GoesOn
  <2>2. CASE i # 0
    <3> DEFINE k == i - 1
    <3>1. k \in Nat /\ k \in 0 .. n - 1 /\ k + 1 = i /\ k + 1 \in 1 .. n /\ h[k] \in V
      BY <1>1, <2>2
    <3>2. h[k + 1] = g[k][h[k]]
      BY <3>1, <1>4 DEF GoesOn
    <3>3. g[k][h[k]] = h[k] \o lines[k + 1] \o <<LineBreak>>
      BY <3>1
    <3> QED BY <3>1, <3>2, <3>3, <2>2
  <2> QED BY <2>1, <2>2
<1>6. IsTold(h, lines)
  BY <1>5 DEF IsTold
<1> QED BY <1>6

LEMMA ToldIs == ASSUME NEW lines \in Bodies PROVE \E t : IsTold(t, lines) /\ Told(lines) = t[Len(lines)]
<1> DEFINE t == CHOOSE u : IsTold(u, lines)
<1>1. IsTold(t, lines)
  BY ToldExists
<1>2. Told(lines) = t[Len(lines)]
  BY DEF Told, IsTold
<1> QED BY <1>1, <1>2

LEMMA ToldStep ==
  ASSUME NEW lines \in Bodies, NEW t, IsTold(t, lines), NEW k \in Nat, k + 1 \in 1 .. Len(lines)
  PROVE  t[k + 1] = t[k] \o lines[k + 1] \o <<LineBreak>>
<1> DEFINE m == k + 1
<1>1. m \in 0 .. Len(lines) /\ m # 0 /\ m - 1 = k
  BY DEF Bodies
<1> HIDE DEF m
<1>2. t[m] = IF m = 0 THEN <<>> ELSE t[m - 1] \o lines[m] \o <<LineBreak>>
  BY <1>1 DEF IsTold
<1>3. t[m] = t[m - 1] \o lines[m] \o <<LineBreak>>
  BY <1>1, <1>2
<1>4. t[m] = t[k] \o lines[m] \o <<LineBreak>>
  BY <1>1, <1>3
<1> QED BY <1>4 DEF m

LEMMA ToldText == ASSUME NEW lines \in Bodies PROVE Told(lines) \in Texts
<1>1. PICK t : IsTold(t, lines) /\ Told(lines) = t[Len(lines)]
  BY ToldIs
<1> DEFINE n == Len(lines)
           S == {k \in Nat : k <= n => t[k] \in Texts}
<1>2. n \in Nat /\ \A i \in 1 .. n : lines[i] \in Seq(Char)
  BY DEF Bodies
<1>3. 0 \in S
  <2>1. t[0] = <<>>
    BY <1>1, <1>2 DEF IsTold
  <2>2. <<>> \in Texts
    BY DEF Texts
  <2> QED BY <2>1, <2>2
<1>4. ASSUME NEW k \in Nat, k \in S PROVE k + 1 \in S
  <2> SUFFICES ASSUME k + 1 <= n PROVE t[k + 1] \in Texts
    OBVIOUS
  <2>1. t[k] \in Texts /\ k + 1 \in 1 .. n /\ k + 1 \in 1 .. Len(lines)
    BY <1>2, <1>4
  <2>2. t[k + 1] = t[k] \o lines[k + 1] \o <<LineBreak>>
    BY <2>1, <1>1, ToldStep
  <2> DEFINE v == t[k]
             l == lines[k + 1]
             d == <<LineBreak>>
  <2>3. v \in Texts /\ t[k + 1] = v \o l \o d
    BY <2>1, <2>2
  <2>4. l \in Texts /\ d \in Texts
    BY <2>1, <1>2, LinesAreTexts
  <2> HIDE DEF v, l, d
  <2>5. v \o l \in Texts
    BY <2>3, <2>4, TextsJoin
  <2>6. (v \o l) \o d \in Texts
    BY <2>5, <2>4, TextsJoin
  <2> QED BY <2>3, <2>6
<1> HIDE DEF S
<1>5. Nat \subseteq S
  BY <1>3, <1>4, SetInduction
<1> QED BY <1>1, <1>2, <1>5 DEF S

LEMMA ToldEmpty == Told(<<>>) = <<>>
<1>1. <<>> \in Bodies /\ Len(<<>>) = 0
  BY DEF Bodies
<1>2. PICK t : IsTold(t, <<>>) /\ Told(<<>>) = t[0]
  BY <1>1, ToldIs
<1> QED BY <1>1, <1>2 DEF IsTold

LEMMA ToldAppend ==
  ASSUME NEW s \in Bodies, NEW x \in Seq(Char)
  PROVE  Append(s, x) \in Bodies /\ Told(Append(s, x)) = Told(s) \o x \o <<LineBreak>>
<1> DEFINE l == Append(s, x)
           n == Len(s)
<1>1. l \in Bodies /\ Len(l) = n + 1 /\ n \in Nat /\ l[n + 1] = x /\ \A i \in 1 .. n : l[i] = s[i]
  BY DEF Bodies
<1> HIDE DEF l
<1>2. PICK t : IsTold(t, l) /\ Told(l) = t[Len(l)]
  BY <1>1, ToldIs
<1>3. PICK u : IsTold(u, s) /\ Told(s) = u[n]
  BY ToldIs
<1> DEFINE S == {k \in Nat : k <= n => t[k] = u[k]}
<1>4. 0 \in S
  BY <1>1, <1>2, <1>3 DEF IsTold
<1>5. ASSUME NEW k \in Nat, k \in S PROVE k + 1 \in S
  <2> SUFFICES ASSUME k + 1 <= n PROVE t[k + 1] = u[k + 1]
    OBVIOUS
  <2>1. t[k] = u[k] /\ k + 1 \in 1 .. n /\ (k + 1) - 1 = k /\ k + 1 # 0 /\ k + 1 \in 1 .. Len(l)
    BY <1>1, <1>5
  <2>2. t[k + 1] = t[k] \o l[k + 1] \o <<LineBreak>>
    BY <2>1, <1>1, <1>2, ToldStep
  <2>3. u[k + 1] = u[k] \o s[k + 1] \o <<LineBreak>>
    BY <2>1, <1>3, ToldStep
  <2> QED BY <2>1, <2>2, <2>3, <1>1
<1> HIDE DEF S
<1>6. Nat \subseteq S
  BY <1>4, <1>5, SetInduction
<1>7. t[n] = u[n]
  BY <1>1, <1>6 DEF S
<1>8. t[n + 1] = t[n] \o x \o <<LineBreak>>
  <2>1. n + 1 \in 1 .. Len(l) /\ l[n + 1] = x
    BY <1>1
  <2>2. t[n + 1] = t[n] \o l[n + 1] \o <<LineBreak>>
    BY <2>1, <1>1, <1>2, ToldStep
  <2> QED BY <2>1, <2>2
<1> QED BY <1>1, <1>2, <1>3, <1>7, <1>8 DEF l

LEMMA ToldOne == ASSUME NEW x \in Seq(Char) PROVE Told(<<x>>) = x \o <<LineBreak>>
<1>1. <<>> \in Bodies /\ Append(<<>>, x) = <<x>>
  BY DEF Bodies
<1>2. Told(<<x>>) = <<>> \o x \o <<LineBreak>>
  BY <1>1, ToldAppend, ToldEmpty
<1> QED BY <1>2

LEMMA Associative == ASSUME NEW C, NEW a \in Seq(C), NEW b \in Seq(C), NEW c \in Seq(C) PROVE a \o (b \o c) = (a \o b) \o c
OBVIOUS

Associates(a, b, c) == a \o (b \o c) = (a \o b) \o c

LEMMA JoinsAssociate == ASSUME NEW C, NEW a \in Seq(C), NEW b \in Seq(C), NEW c \in Seq(C) PROVE Associates(a, b, c)
  BY Associative DEF Associates

LEMMA SeqsAlike ==
  ASSUME NEW C, NEW s \in Seq(C), NEW t \in Seq(C), Len(s) = Len(t),
         \A i \in 1 .. Len(s) : s[i] = t[i]
  PROVE  s = t
<1>1. Len(s) \in Nat /\ s = [i \in 1 .. Len(s) |-> s[i]] /\ t = [i \in 1 .. Len(t) |-> t[i]]
  OBVIOUS
<1> QED BY <1>1

Rejoined(a, b, c, d) == ((a \o b) \o c) \o d = a \o ((b \o c) \o d)

LEMMA FourJoin ==
  ASSUME NEW a \in Texts, NEW b \in Texts, NEW c \in Texts, NEW d \in Texts
  PROVE  Rejoined(a, b, c, d)
<1> DEFINE C == Char \cup {LineBreak}
           e == b \o c
<1>1. a \in Seq(C) /\ b \in Seq(C) /\ c \in Seq(C) /\ d \in Seq(C)
  BY DEF Texts
<1> HIDE DEF C
<1>2. (a \o b) \o c = a \o e
  BY <1>1, Associative
<1>3. e \in Seq(C)
  BY <1>1
<1> HIDE DEF e
<1>4. (a \o e) \o d = a \o (e \o d)
  BY <1>1, <1>3, Associative, SMTT(30)
<1> QED BY <1>2, <1>4 DEF e, Rejoined

Regrouped(a, b, c, d, e) == (a \o ((b \o c) \o d)) \o e = (a \o b) \o ((c \o d) \o e)

LEMMA FiveJoin ==
  ASSUME NEW a \in Texts, NEW b \in Texts, NEW c \in Texts, NEW d \in Texts, NEW e \in Texts
  PROVE  Regrouped(a, b, c, d, e)
<1> DEFINE C == Char \cup {LineBreak}
           g == c \o d
           h == a \o b
<1>1. a \in Seq(C) /\ b \in Seq(C) /\ c \in Seq(C) /\ d \in Seq(C) /\ e \in Seq(C)
  BY DEF Texts
<1> HIDE DEF C
<1>2. (b \o c) \o d = b \o g
  BY <1>1, Associative, SMTT(30)
<1>3. g \in Seq(C) /\ h \in Seq(C)
  BY <1>1
<1> HIDE DEF g
<1>4. a \o (b \o g) = h \o g
  <2>1. Associates(a, b, g)
    BY <1>1, <1>3, JoinsAssociate
  <2> QED BY <2>1 DEF Associates
<1> HIDE DEF h
<1>5. h \in Seq(C) /\ g \in Seq(C) /\ e \in Seq(C)
  BY <1>1, <1>3
<1>6. h \o (g \o e) = (h \o g) \o e
  BY <1>5, Associative
<1> QED BY <1>2, <1>4, <1>6 DEF g, h, Regrouped

LEMMA LastOff ==
  ASSUME NEW C, NEW t \in Seq(C), NEW n \in Nat, Len(t) = n + 1
  PROVE  SubSeq(t, 1, n) \in Seq(C) /\ Len(SubSeq(t, 1, n)) = n /\ t[n + 1] \in C /\ t = Append(SubSeq(t, 1, n), t[n + 1])
<1> DEFINE f == SubSeq(t, 1, n)
<1>1. f \in Seq(C) /\ Len(f) = n /\ t[n + 1] \in C /\ \A i \in 1 .. n : f[i] = t[i]
  OBVIOUS
<1> HIDE DEF f
<1>2. t = Append(f, t[n + 1])
  BY <1>1
<1> QED BY <1>1, <1>2 DEF f

LEMMA AppendJoins ==
  ASSUME NEW C, NEW s \in Seq(C), NEW f \in Seq(C), NEW x \in C
  PROVE  s \o Append(f, x) = Append(s \o f, x) /\ s \o f \in Seq(C)
<1>1. s \o f \in Seq(C) /\ Append(f, x) \in Seq(C)
  OBVIOUS
<1>2. s \o Append(f, x) = Append(s \o f, x)
  OBVIOUS
<1> QED BY <1>1, <1>2

LEMMA ToldConcat ==
  ASSUME NEW s \in Bodies, NEW r \in Bodies
  PROVE  s \o r \in Bodies /\ Told(s \o r) = Told(s) \o Told(r)
<1> DEFINE S == {n \in Nat : \A t \in Bodies : Len(t) = n => Told(s \o t) = Told(s) \o Told(t)}
<1>1. 0 \in S
  <2> SUFFICES ASSUME NEW t \in Bodies, Len(t) = 0 PROVE Told(s \o t) = Told(s) \o Told(t)
    OBVIOUS
  <2>1. t = <<>> /\ s \o t = s
    BY DEF Bodies
  <2>2. Told(s) \o <<>> = Told(s)
    BY ToldText DEF Texts
  <2> QED BY <2>1, <2>2, ToldEmpty
<1>2. ASSUME NEW n \in Nat, n \in S PROVE n + 1 \in S
  <2> SUFFICES ASSUME NEW t \in Bodies, Len(t) = n + 1 PROVE Told(s \o t) = Told(s) \o Told(t)
    OBVIOUS
  <2> DEFINE f == SubSeq(t, 1, n)
             x == t[n + 1]
  <2>1. f \in Bodies /\ Len(f) = n /\ x \in Seq(Char) /\ t = Append(f, x)
    BY LastOff DEF Bodies
  <2> HIDE DEF f, x
  <2>2. s \o t = Append(s \o f, x) /\ s \o f \in Bodies
    BY <2>1, AppendJoins DEF Bodies
  <2>3. Told(s \o t) = Told(s \o f) \o x \o <<LineBreak>>
    BY <2>1, <2>2, ToldAppend
  <2>4. Told(s \o f) = Told(s) \o Told(f)
    BY <1>2, <2>1
  <2>5. Told(t) = Told(f) \o x \o <<LineBreak>>
    BY <2>1, ToldAppend
  <2>6. Told(s) \in Texts /\ Told(f) \in Texts /\ x \in Texts /\ <<LineBreak>> \in Texts
    BY <2>1, ToldText, LinesAreTexts
  <2>7. Told(s) \o Told(t) = ((Told(s) \o Told(f)) \o x) \o <<LineBreak>>
    <3> DEFINE a == Told(s)
               b == Told(f)
               d == <<LineBreak>>
    <3>1. a \in Texts /\ b \in Texts /\ x \in Texts /\ d \in Texts
      BY <2>6
    <3>2. Told(t) = (b \o x) \o d
      BY <2>5
    <3> HIDE DEF a, b, d
    <3>3. Rejoined(a, b, x, d)
      BY <3>1, FourJoin
    <3>4. a \o Told(t) = ((a \o b) \o x) \o d
      BY <3>2, <3>3 DEF Rejoined
    <3> QED BY <3>4 DEF a, b, d
  <2> QED BY <2>3, <2>4, <2>7
<1> HIDE DEF S
<1>3. Nat \subseteq S
  BY <1>1, <1>2, SetInduction
<1>4. Len(r) \in Nat
  BY DEF Bodies
<1>5. Told(s \o r) = Told(s) \o Told(r)
  BY <1>3, <1>4 DEF S
<1>6. s \o r \in Bodies
  BY DEF Bodies
<1> QED BY <1>5, <1>6

-----------------------------------------------------------------------------
(* The form's body, cut at the caret.                                        *)

\* Rows, and one between them.
Rows(s, H, x, T) == s = H \o <<x>> \o T

\* The rows above, the parts of the row before and behind the caret, the rows below.
CutAt(f, H, p, q, T) ==
  /\ H \in Bodies /\ p \in Seq(Char) /\ q \in Seq(Char) /\ T \in Bodies
  /\ Rows(f.lines, H, p \o q, T) /\ f.row = Len(H) + 1 /\ f.col = Len(p)

IsBody(f) ==
  /\ f.lines \in Bodies /\ f.lines # <<>>
  /\ f.row \in 1 .. Len(f.lines) /\ f.col \in 0 .. Len(f.lines[f.row])

\* What is told before and behind the caret.
Pre(H, p) == Told(H) \o p
Post(q, T) == (q \o <<LineBreak>>) \o Told(T)

LEMMA OneOut ==
  ASSUME NEW C, NEW s \in Seq(C), NEW k \in 1 .. Len(s)
  PROVE  /\ SubSeq(s, 1, k - 1) \in Seq(C) /\ SubSeq(s, k + 1, Len(s)) \in Seq(C) /\ s[k] \in C
         /\ Len(SubSeq(s, 1, k - 1)) = k - 1 /\ Len(SubSeq(s, k + 1, Len(s))) = Len(s) - k
         /\ s = SubSeq(s, 1, k - 1) \o <<s[k]>> \o SubSeq(s, k + 1, Len(s))
<1> DEFINE a == SubSeq(s, 1, k - 1)
           b == SubSeq(s, k + 1, Len(s))
<1>1. a \in Seq(C) /\ Len(a) = k - 1 /\ \A i \in 1 .. k - 1 : a[i] = s[i]
  OBVIOUS
<1>2. b \in Seq(C) /\ Len(b) = Len(s) - k /\ \A i \in 1 .. Len(s) - k : b[i] = s[k + i]
  OBVIOUS
<1>3. s[k] \in C /\ Len(s) \in Nat
  OBVIOUS
<1> HIDE DEF a, b
<1> DEFINE t == a \o <<s[k]>> \o b
<1>4. t \in Seq(C) /\ Len(t) = Len(s)
  <2> DEFINE c == a \o <<s[k]>>
  <2>1. c \in Seq(C) /\ Len(c) = k
    BY <1>1, <1>3
  <2>2. t = c \o b
    OBVIOUS
  <2> HIDE DEF c, t
  <2>3. c \in Seq(C) /\ b \in Seq(C)
    BY <2>1, <1>2
  <2>4. c \o b \in Seq(C) /\ Len(c \o b) = Len(c) + Len(b)
    BY <2>3
  <2> QED BY <2>1, <2>2, <2>4, <1>2, <1>3
<1>5. ASSUME NEW i \in 1 .. Len(s) PROVE t[i] = s[i]
  <2> DEFINE c == a \o <<s[k]>>
  <2>1. c \in Seq(C) /\ Len(c) = k /\ c[k] = s[k] /\ \A j \in 1 .. k - 1 : c[j] = a[j]
    BY <1>1, <1>3
  <2>2. t = c \o b
    OBVIOUS
  <2> HIDE DEF c, t
  <2>3. CASE i <= k
    <3>1. t[i] = c[i]
      BY <1>2, <2>1, <2>2, <2>3
    <3>2. i = k \/ i \in 1 .. k - 1
      BY <2>3
    <3> QED BY <3>1, <3>2, <2>1, <1>1
  <2>4. CASE i > k
    <3> DEFINE j == i - k
    <3>1. j \in 1 .. Len(s) - k /\ i = k + j /\ k \in Nat
      BY <1>3, <2>4
    <3> HIDE DEF j
    <3>2. t[k + j] = b[j]
      BY <1>2, <2>1, <2>2, <3>1
    <3> QED BY <3>1, <3>2, <1>2
  <2> QED BY <2>3, <2>4, <1>3
<1> HIDE DEF t
<1>6. t = s
  BY <1>4, <1>5, SeqsAlike
<1> QED BY <1>1, <1>2, <1>3, <1>6 DEF a, b, t

LEMMA CutInTwo ==
  ASSUME NEW C, NEW s \in Seq(C), NEW k \in 0 .. Len(s)
  PROVE  /\ SubSeq(s, 1, k) \in Seq(C) /\ SubSeq(s, k + 1, Len(s)) \in Seq(C)
         /\ Len(SubSeq(s, 1, k)) = k /\ Len(SubSeq(s, k + 1, Len(s))) = Len(s) - k
         /\ s = SubSeq(s, 1, k) \o SubSeq(s, k + 1, Len(s))
<1> DEFINE a == SubSeq(s, 1, k)
           b == SubSeq(s, k + 1, Len(s))
<1>1. a \in Seq(C) /\ Len(a) = k /\ \A i \in 1 .. k : a[i] = s[i]
  OBVIOUS
<1>2. b \in Seq(C) /\ Len(b) = Len(s) - k /\ \A i \in 1 .. Len(s) - k : b[i] = s[k + i]
  OBVIOUS
<1> HIDE DEF a, b
<1> DEFINE t == a \o b
<1>3. Len(s) \in Nat /\ k \in Nat /\ k <= Len(s)
  OBVIOUS
<1>4. t \in Seq(C) /\ Len(t) = Len(s) /\ Len(s) \in Nat /\ k \in Nat
  BY <1>1, <1>2, <1>3
<1>5. ASSUME NEW i \in 1 .. Len(s) PROVE t[i] = s[i]
  <2>1. CASE i <= k
    <3>1. i \in 1 .. Len(a) /\ i \in 1 .. k
      BY <1>1, <1>4, <2>1
    <3>2. t[i] = a[i]
      BY <1>1, <1>2, <3>1
    <3> QED BY <1>1, <3>1, <3>2
  <2>2. CASE i > k
    <3> DEFINE j == i - k
    <3>1. j \in 1 .. Len(s) - k /\ i = k + j
      BY <1>4, <2>2
    <3> HIDE DEF j
    <3>2. t[k + j] = b[j]
      BY <1>1, <1>2, <1>4, <3>1
    <3> QED BY <3>1, <3>2, <1>2
  <2> QED BY <2>1, <2>2, <1>4
<1> HIDE DEF t
<1>6. s = t
  BY <1>4, <1>5
<1>7. s = a \o b
  BY <1>6 DEF t
<1> QED BY <1>1, <1>2, <1>7 DEF a, b

LEMMA BodyIsCut ==
  ASSUME NEW f, IsBody(f)
  PROVE  CutAt(f, SubSeq(f.lines, 1, f.row - 1), SubSeq(f.lines[f.row], 1, f.col),
               SubSeq(f.lines[f.row], f.col + 1, Len(f.lines[f.row])), SubSeq(f.lines, f.row + 1, Len(f.lines)))
<1> DEFINE l == f.lines
           r == f.row
           c == f.col
           x == l[r]
<1>1. l \in Seq(Seq(Char)) /\ r \in 1 .. Len(l) /\ c \in 0 .. Len(x)
  BY DEF IsBody, Bodies
<1> HIDE DEF l, r, c, x
<1>2. /\ SubSeq(l, 1, r - 1) \in Bodies /\ SubSeq(l, r + 1, Len(l)) \in Bodies
      /\ Len(SubSeq(l, 1, r - 1)) = r - 1 /\ l = SubSeq(l, 1, r - 1) \o <<l[r]>> \o SubSeq(l, r + 1, Len(l))
      /\ l[r] \in Seq(Char)
  <2> DEFINE D == Seq(Char)
  <2>1. l \in Seq(D) /\ r \in 1 .. Len(l)
    BY <1>1
  <2> HIDE DEF D
  <2>2. /\ SubSeq(l, 1, r - 1) \in Seq(D) /\ SubSeq(l, r + 1, Len(l)) \in Seq(D) /\ l[r] \in D
        /\ Len(SubSeq(l, 1, r - 1)) = r - 1 /\ Len(SubSeq(l, r + 1, Len(l))) = Len(l) - r
        /\ l = SubSeq(l, 1, r - 1) \o <<l[r]>> \o SubSeq(l, r + 1, Len(l))
    BY <2>1, OneOut
  <2> QED BY <2>2 DEF D, Bodies
<1>3. x \in Seq(Char)
  BY <1>2 DEF x, l, r
<1>4. /\ SubSeq(x, 1, c) \in Seq(Char) /\ SubSeq(x, c + 1, Len(x)) \in Seq(Char)
      /\ Len(SubSeq(x, 1, c)) = c /\ x = SubSeq(x, 1, c) \o SubSeq(x, c + 1, Len(x))
  BY <1>1, <1>3, CutInTwo, ZenonT(60)
<1>5. r = Len(SubSeq(l, 1, r - 1)) + 1
  BY <1>1, <1>2
<1>6. l = SubSeq(l, 1, r - 1) \o <<SubSeq(x, 1, c) \o SubSeq(x, c + 1, Len(x))>> \o SubSeq(l, r + 1, Len(l))
  BY <1>2, <1>4 DEF x
<1> QED BY <1>2, <1>4, <1>5, <1>6 DEF CutAt, Rows, l, r, c, x

\* Where the row at the caret lies, when the rows are put together.
LEMMA CutPlaces ==
  ASSUME NEW C, NEW H \in Seq(C), NEW x \in C, NEW T \in Seq(C)
  PROVE  LET s == H \o <<x>> \o T IN
         /\ s \in Seq(C) /\ Len(s) = Len(H) + 1 + Len(T) /\ s[Len(H) + 1] = x
         /\ SubSeq(s, 1, Len(H)) = H /\ SubSeq(s, Len(H) + 2, Len(s)) = T
<1> DEFINE s == H \o <<x>> \o T
           h == Len(H)
<1>1. h \in Nat /\ Len(T) \in Nat /\ s \in Seq(C) /\ Len(s) = h + 1 + Len(T) /\ s[h + 1] = x
  OBVIOUS
<1>2. (\A i \in 1 .. h : s[i] = H[i]) /\ \A i \in 1 .. Len(T) : s[h + 1 + i] = T[i]
  OBVIOUS
<1> HIDE DEF s
<1>3. SubSeq(s, 1, h) = H
  BY <1>1, <1>2
<1>4. SubSeq(s, h + 2, Len(s)) = T
  BY <1>1, <1>2
<1> QED BY <1>1, <1>3, <1>4 DEF s, h

LEMMA CutIsBody ==
  ASSUME NEW f, NEW H, NEW p, NEW q, NEW T, CutAt(f, H, p, q, T)
  PROVE  /\ IsBody(f) /\ SubSeq(f.lines, 1, f.row - 1) = H /\ f.lines[f.row] = p \o q
         /\ SubSeq(f.lines, f.row + 1, Len(f.lines)) = T /\ Len(f.lines) = Len(H) + 1 + Len(T)
<1> DEFINE x == p \o q
<1>1. H \in Bodies /\ T \in Bodies /\ p \in Seq(Char) /\ q \in Seq(Char) /\ f.lines = H \o <<x>> \o T /\ f.row = Len(H) + 1 /\ f.col = Len(p)
  BY DEF CutAt, Rows
<1>2. x \in Seq(Char) /\ Len(x) = Len(p) + Len(q) /\ Len(p) \in Nat /\ Len(q) \in Nat
  BY <1>1
<1> HIDE DEF x
<1> DEFINE s == H \o <<x>> \o T
<1>3. /\ s \in Bodies /\ Len(s) = Len(H) + 1 + Len(T) /\ s[Len(H) + 1] = x
      /\ SubSeq(s, 1, Len(H)) = H /\ SubSeq(s, Len(H) + 2, Len(s)) = T
  BY <1>1, <1>2, CutPlaces DEF Bodies
<1>4. f.lines = s
  BY <1>1
<1> HIDE DEF s
<1>5. Len(H) \in Nat /\ Len(T) \in Nat
  BY <1>1 DEF Bodies
<1>6. f.row - 1 = Len(H) /\ f.row + 1 = Len(H) + 2 /\ f.row \in 1 .. Len(s) /\ f.col \in 0 .. Len(x)
  BY <1>1, <1>2, <1>3, <1>5
<1>7. f.lines # <<>>
  BY <1>4, <1>6
<1> QED BY <1>1, <1>3, <1>4, <1>6, <1>7 DEF IsBody, x

TextOf(f) == Front(Told(f.lines))
CaretOf(f) == Len(Told(SubSeq(f.lines, 1, f.row - 1))) + f.col

LEMMA PreText ==
  ASSUME NEW H \in Bodies, NEW p \in Seq(Char), NEW q \in Seq(Char), NEW T \in Bodies
  PROVE  Pre(H, p) \in Texts /\ Post(q, T) \in Texts /\ Len(Pre(H, p)) = Len(Told(H)) + Len(p) /\ Post(q, T) # <<>>
<1>1. /\ Told(H) \in Texts /\ Told(T) \in Texts /\ p \in Texts /\ q \o <<LineBreak>> \in Texts
  BY ToldText, LinesAreTexts
<1>2. Pre(H, p) \in Texts /\ Post(q, T) \in Texts
  BY <1>1, TextsJoin DEF Pre, Post
<1>3. Len(Pre(H, p)) = Len(Told(H)) + Len(p)
  BY <1>1 DEF Pre, Texts
<1> DEFINE a == q \o <<LineBreak>>
           b == Told(T)
<1>4. Len(a) >= 1 /\ Len(a) \in Nat
  OBVIOUS
<1> HIDE DEF a, b
<1>5. a \in Texts /\ b \in Texts
  BY <1>1 DEF a, b
<1>6. Len(a \o b) = Len(a) + Len(b) /\ Len(b) \in Nat
  BY <1>5 DEF Texts
<1>7. Post(q, T) # <<>>
  BY <1>4, <1>6 DEF Post, a, b
<1> QED BY <1>2, <1>3, <1>7

LEMMA CutIsTold ==
  ASSUME NEW f, NEW H, NEW p, NEW q, NEW T, CutAt(f, H, p, q, T)
  PROVE  Told(f.lines) = Pre(H, p) \o Post(q, T) /\ CaretOf(f) = Len(Pre(H, p))
<1> DEFINE x == p \o q
           n == <<LineBreak>>
<1>1. H \in Bodies /\ T \in Bodies /\ p \in Seq(Char) /\ q \in Seq(Char) /\ f.lines = H \o <<x>> \o T /\ f.col = Len(p)
  BY DEF CutAt, Rows
<1>2. x \in Seq(Char)
  BY <1>1
<1>3. p \in Texts /\ q \in Texts /\ n \in Texts /\ Told(H) \in Texts /\ Told(T) \in Texts
  BY <1>1, LinesAreTexts, ToldText
<1> HIDE DEF x, n
<1>4. <<x>> \in Bodies
  BY <1>2 DEF Bodies
<1>5. Told(<<x>>) = x \o n
  BY <1>2, ToldOne DEF n
<1>6. H \o <<x>> \in Bodies /\ Told(H \o <<x>>) = Told(H) \o (x \o n)
  BY <1>1, <1>4, <1>5, ToldConcat
<1>7. Told((H \o <<x>>) \o T) = (Told(H) \o (x \o n)) \o Told(T)
  BY <1>1, <1>6, ToldConcat
<1> DEFINE A == Told(H)
           B == Told(T)
<1>12. A \in Texts /\ p \in Texts /\ q \in Texts /\ n \in Texts /\ B \in Texts
  BY <1>3
<1> HIDE DEF A, B
<1>8. (A \o ((p \o q) \o n)) \o B = (A \o p) \o ((q \o n) \o B)
  <2>1. Regrouped(A, p, q, n, B)
    BY <1>12, FiveJoin
  <2> QED BY <2>1 DEF Regrouped
<1>9. Told(f.lines) = Pre(H, p) \o Post(q, T)
  BY <1>1, <1>7, <1>8 DEF Pre, Post, x, n, A, B
<1>10. SubSeq(f.lines, 1, f.row - 1) = H
  BY CutIsBody
<1>11. CaretOf(f) = Len(Pre(H, p))
  BY <1>1, <1>10, PreText DEF CaretOf
<1> QED BY <1>9, <1>11

-----------------------------------------------------------------------------
(* The edits of a text, told by what stands before and behind the caret.     *)

Typed(t, k, u, m) == \E c \in Char \cup {LineBreak} : u = (SubSeq(t, 1, k) \o <<c>>) \o SubSeq(t, k + 1, Len(t)) /\ m = k + 1
ErasedBefore(t, k, u, m) == k > 0 /\ u = SubSeq(t, 1, k - 1) \o SubSeq(t, k + 1, Len(t)) /\ m = k - 1
ErasedAfter(t, k, u, m) == k < Len(t) /\ u = SubSeq(t, 1, k) \o SubSeq(t, k + 2, Len(t)) /\ m = k
Moved(t, u, m) == u = t /\ m \in 0 .. Len(t)

LEMMA JoinParts ==
  ASSUME NEW C, NEW a \in Seq(C), NEW b \in Seq(C)
  PROVE  /\ a \o b \in Seq(C) /\ Len(a \o b) = Len(a) + Len(b) /\ Len(a) \in Nat /\ Len(b) \in Nat
         /\ SubSeq(a \o b, 1, Len(a)) = a /\ SubSeq(a \o b, Len(a) + 1, Len(a \o b)) = b
<1> DEFINE s == a \o b
           k == Len(a)
<1>1. s \in Seq(C) /\ Len(s) = k + Len(b) /\ k \in Nat /\ Len(b) \in Nat
  OBVIOUS
<1>2. (\A i \in 1 .. k : s[i] = a[i]) /\ \A i \in 1 .. Len(b) : s[k + i] = b[i]
  OBVIOUS
<1> HIDE DEF s
<1>3. SubSeq(s, 1, k) = a
  BY <1>1, <1>2
<1>4. SubSeq(s, k + 1, Len(s)) = b
  BY <1>1, <1>2
<1> QED BY <1>1, <1>3, <1>4 DEF s, k

FrontStays(a, b) == Front(a \o b) = a \o Front(b)

LEMMA FrontJoin ==
  ASSUME NEW C, NEW a \in Seq(C), NEW b \in Seq(C), b # <<>>
  PROVE  FrontStays(a, b) /\ Front(b) \in Seq(C) /\ Len(Front(b)) = Len(b) - 1 /\ Len(b) \in Nat \ {0}
<1> DEFINE s == a \o b
           d == SubSeq(b, 1, Len(b) - 1)
           k == Len(a)
<1>1. s \in Seq(C) /\ Len(s) = k + Len(b) /\ k \in Nat /\ Len(b) \in Nat \ {0}
  OBVIOUS
<1>2. (\A i \in 1 .. k : s[i] = a[i]) /\ \A i \in 1 .. Len(b) : s[k + i] = b[i]
  OBVIOUS
<1>3. d \in Seq(C) /\ Len(d) = Len(b) - 1 /\ \A i \in 1 .. Len(b) - 1 : d[i] = b[i]
  <2> DEFINE n == Len(b) - 1
  <2>1. n \in Nat /\ Len(b) = n + 1 /\ DOMAIN b = 1 .. n + 1
    BY <1>1
  <2> HIDE DEF n
  <2>2. SubSeq(b, 1, n) \in Seq(C) /\ Len(SubSeq(b, 1, n)) = n
    BY <2>1, LastOff
  <2>3. \A i \in 1 .. n : SubSeq(b, 1, n)[i] = b[i]
    BY <2>1
  <2> QED BY <2>2, <2>3 DEF n
<1> HIDE DEF s, d
<1> DEFINE g == SubSeq(s, 1, Len(s) - 1)
           e == a \o d
<1>4. g \in Seq(C) /\ Len(g) = Len(s) - 1 /\ \A i \in 1 .. Len(s) - 1 : g[i] = s[i]
  BY <1>1
<1>5. e \in Seq(C) /\ Len(e) = k + Len(d)
  <2>1. a \in Seq(C) /\ d \in Seq(C)
    BY <1>3
  <2> QED BY <2>1
<1>6. (\A i \in 1 .. k : e[i] = a[i]) /\ \A i \in 1 .. Len(d) : e[k + i] = d[i]
  BY <1>1, <1>3
<1> HIDE DEF g, e
<1>7. Len(g) = Len(e)
  BY <1>1, <1>3, <1>4, <1>5
<1>8. ASSUME NEW i \in 1 .. Len(g) PROVE g[i] = e[i]
  <2>0. g[i] = s[i]
    BY <1>4
  <2>1. CASE i <= k
    <3>1. i \in 1 .. k
      BY <1>1, <1>4, <2>1
    <3> QED BY <2>0, <3>1, <1>2, <1>6
  <2>2. CASE i > k
    <3> DEFINE j == i - k
    <3>1. j \in 1 .. Len(b) /\ j \in 1 .. Len(d) /\ i = k + j
      BY <1>1, <1>3, <1>4, <2>2
    <3> HIDE DEF j
    <3>2. s[k + j] = b[j] /\ e[k + j] = d[j] /\ d[j] = b[j]
      BY <1>2, <1>3, <1>6, <3>1
    <3> QED BY <2>0, <3>1, <3>2
  <2> QED BY <2>1, <2>2, <1>1
<1>9. g = e
  <2>1. g \in Seq(C) /\ e \in Seq(C)
    BY <1>4, <1>5
  <2> QED BY <2>1, <1>7, <1>8, SeqsAlike
<1>10. Front(s) = g /\ Front(b) = d
  BY DEF Front, g, d
<1> QED BY <1>1, <1>3, <1>9, <1>10 DEF s, e, FrontStays

LEMMA TypedThere ==
  ASSUME NEW a \in Texts, NEW b \in Texts, b # <<>>, NEW c \in Char \cup {LineBreak}
  PROVE  Typed(Front(a \o b), Len(a), Front((a \o <<c>>) \o b), Len(a \o <<c>>))
<1> DEFINE C == Char \cup {LineBreak}
           d == Front(b)
<1>1. a \in Seq(C) /\ b \in Seq(C) /\ <<c>> \in Seq(C)
  BY DEF Texts
<1>2. a \o <<c>> \in Seq(C) /\ Len(a \o <<c>>) = Len(a) + 1
  BY <1>1
<1>3. Front(a \o b) = a \o d /\ d \in Seq(C)
  BY <1>1, FrontJoin DEF FrontStays
<1>4. Front((a \o <<c>>) \o b) = (a \o <<c>>) \o d
  <2>1. FrontStays(a \o <<c>>, b)
    BY <1>1, <1>2, FrontJoin
  <2> QED BY <2>1 DEF FrontStays
<1> HIDE DEF C, d
<1>5. SubSeq(a \o d, 1, Len(a)) = a /\ SubSeq(a \o d, Len(a) + 1, Len(a \o d)) = d
  BY <1>1, <1>3, JoinParts
<1> QED BY <1>2, <1>3, <1>4, <1>5 DEF Typed

LEMMA ErasedThereBefore ==
  ASSUME NEW a \in Texts, NEW b \in Texts, b # <<>>, NEW c \in Char \cup {LineBreak}
  PROVE  ErasedBefore(Front((a \o <<c>>) \o b), Len(a \o <<c>>), Front(a \o b), Len(a))
<1> DEFINE C == Char \cup {LineBreak}
           d == Front(b)
           e == a \o <<c>>
           f == <<c>> \o d
<1>1. a \in Seq(C) /\ b \in Seq(C) /\ <<c>> \in Seq(C)
  BY DEF Texts
<1>2. e \in Seq(C) /\ Len(e) = Len(a) + 1 /\ Len(a) \in Nat
  BY <1>1
<1>3. Front(a \o b) = a \o d /\ d \in Seq(C)
  BY <1>1, FrontJoin DEF FrontStays
<1>4. f \in Seq(C)
  BY <1>1, <1>3
<1>5. e \o d = a \o f
  BY <1>1, <1>3, Associative
<1> HIDE DEF C, d, e
<1>6. Front(e \o b) = e \o d
  <2>1. FrontStays(e, b)
    BY <1>1, <1>2, FrontJoin
  <2> QED BY <2>1 DEF FrontStays, d
<1> HIDE DEF f
<1>7. SubSeq(e \o d, Len(e) + 1, Len(e \o d)) = d
  BY <1>2, <1>3, JoinParts
<1>8. SubSeq(a \o f, 1, Len(a)) = a
  BY <1>1, <1>4, JoinParts
<1>9. Len(e) > 0 /\ Len(e) - 1 = Len(a)
  BY <1>2
<1>10. SubSeq(e \o d, 1, Len(e) - 1) = a
  BY <1>5, <1>8, <1>9
<1> QED BY <1>3, <1>6, <1>7, <1>9, <1>10 DEF ErasedBefore, e

LEMMA ErasedThereAfter ==
  ASSUME NEW a \in Texts, NEW b \in Texts, b # <<>>, NEW c \in Char \cup {LineBreak}
  PROVE  ErasedAfter(Front(a \o (<<c>> \o b)), Len(a), Front(a \o b), Len(a))
<1> DEFINE C == Char \cup {LineBreak}
           d == Front(b)
           e == a \o <<c>>
           g == <<c>> \o b
           h == <<c>> \o d
<1>1. a \in Seq(C) /\ b \in Seq(C) /\ <<c>> \in Seq(C)
  BY DEF Texts
<1>2. e \in Seq(C) /\ Len(e) = Len(a) + 1 /\ Len(a) \in Nat /\ g \in Seq(C) /\ g # <<>>
  BY <1>1
<1>3. Front(a \o b) = a \o d /\ d \in Seq(C) /\ Front(g) = h
  <2>1. FrontStays(a, b) /\ FrontStays(<<c>>, b) /\ Front(b) \in Seq(C)
    BY <1>1, FrontJoin
  <2> QED BY <2>1 DEF FrontStays
<1>4. h \in Seq(C) /\ Len(h) = Len(d) + 1 /\ Len(d) \in Nat
  BY <1>1, <1>3
<1>5. e \o d = a \o h
  BY <1>1, <1>3, Associative
<1> HIDE DEF C, d, e, g
<1>6. Front(a \o g) = a \o h
  <2>1. FrontStays(a, g)
    BY <1>1, <1>2, FrontJoin
  <2> QED BY <2>1, <1>3 DEF FrontStays
<1> HIDE DEF h
<1>7. SubSeq(e \o d, Len(e) + 1, Len(e \o d)) = d
  BY <1>2, <1>3, JoinParts
<1>8. SubSeq(a \o h, 1, Len(a)) = a /\ Len(a \o h) = Len(a) + Len(h)
  <2>1. SubSeq(a \o h, 1, Len(a)) = a
    BY <1>1, <1>4, JoinParts
  <2>2. Len(a \o h) = Len(a) + Len(h)
    BY <1>1, <1>4
  <2> QED BY <2>1, <2>2
<1>9. Len(e) + 1 = Len(a) + 2 /\ Len(a) < Len(a \o h)
  BY <1>2, <1>4, <1>8
<1>10. SubSeq(a \o h, Len(a) + 2, Len(a \o h)) = d
  BY <1>5, <1>7, <1>9
<1> QED BY <1>3, <1>6, <1>8, <1>9, <1>10 DEF ErasedAfter, g

LEMMA MovedThere ==
  ASSUME NEW a \in Texts, NEW b \in Texts, NEW e \in Texts, NEW g \in Texts, g # <<>>, a \o b = e \o g
  PROVE  Moved(Front(a \o b), Front(e \o g), Len(e))
<1>1. Front(e \o g) = e \o Front(g) /\ Front(g) \in Texts /\ e \in Texts
  BY FrontJoin, SMTT(30) DEF Texts, FrontStays
<1> DEFINE h == Front(g)
<1> HIDE DEF h
<1>2. Len(e \o h) = Len(e) + Len(h) /\ Len(e) \in Nat /\ Len(h) \in Nat
  BY <1>1 DEF Texts, h
<1>3. Len(e) \in 0 .. Len(e \o h)
  BY <1>2
<1> QED BY <1>1, <1>3 DEF Moved, h

-----------------------------------------------------------------------------
(* The body of the form through its edits.                                   *)

\* The form with other lines and another place in them.
Body(lines, row, col) == [form EXCEPT !.lines = lines, !.row = row, !.col = col]

LEMMA BodyFields ==
  ASSUME IsForm(form), NEW l, NEW r, NEW c
  PROVE  LET g == Body(l, r, c) IN IsForm(g) /\ g.lines = l /\ g.row = r /\ g.col = c
<1> DEFINE a == [form EXCEPT !.lines = l]
           b == [a EXCEPT !.row = r]
           d == [b EXCEPT !.col = c]
<1>1. IsForm(a) /\ a.lines = l
  BY DEF IsForm
<1> HIDE DEF a
<1>2. IsForm(b) /\ b.lines = l /\ b.row = r
  BY <1>1 DEF IsForm
<1> HIDE DEF b
<1>3. IsForm(d) /\ d.lines = l /\ d.row = r /\ d.col = c
  BY <1>2 DEF IsForm
<1>4. Body(l, r, c) = d
  BY DEF Body, a, b
<1> HIDE DEF d
<1> QED BY <1>3, <1>4

LEMMA RowReplaced ==
  ASSUME NEW C, NEW H \in Seq(C), NEW x \in C, NEW T \in Seq(C), NEW y \in C, NEW s, Rows(s, H, x, T)
  PROVE  Rows([s EXCEPT ![Len(H) + 1] = y], H, y, T)
<1> DEFINE u == H \o <<y>> \o T
           h == Len(H)
           v == [s EXCEPT ![h + 1] = y]
<1>1. /\ s \in Seq(C) /\ Len(s) = h + 1 + Len(T) /\ u \in Seq(C) /\ Len(u) = h + 1 + Len(T) /\ u[h + 1] = y
      /\ h \in Nat /\ Len(T) \in Nat
  BY DEF Rows
<1>2. (\A i \in 1 .. h : s[i] = H[i]) /\ \A i \in 1 .. Len(T) : s[h + 1 + i] = T[i]
  BY DEF Rows
<1>3. (\A i \in 1 .. h : u[i] = H[i]) /\ \A i \in 1 .. Len(T) : u[h + 1 + i] = T[i]
  OBVIOUS
<1> HIDE DEF h, u
<1>4. v \in Seq(C) /\ Len(v) = Len(s) /\ v[h + 1] = y /\ \A i \in 1 .. Len(s) : i # h + 1 => v[i] = s[i]
  BY <1>1
<1> HIDE DEF v
<1>5. ASSUME NEW i \in 1 .. Len(s) PROVE v[i] = u[i]
  <2>1. CASE i = h + 1
    BY <1>1, <1>4, <2>1
  <2>2. CASE i < h + 1
    <3>1. i \in 1 .. h /\ i # h + 1
      BY <1>1, <2>2
    <3> QED BY <3>1, <1>2, <1>3, <1>4
  <2>3. CASE i > h + 1
    <3> DEFINE j == i - h - 1
    <3>1. j \in 1 .. Len(T) /\ i = h + 1 + j /\ i # h + 1
      BY <1>1, <2>3
    <3> HIDE DEF j
    <3>2. s[h + 1 + j] = T[j] /\ u[h + 1 + j] = T[j]
      BY <1>2, <1>3, <3>1
    <3> QED BY <3>1, <3>2, <1>4
  <2> QED BY <2>1, <2>2, <2>3, <1>1
<1>6. v = u
  BY <1>1, <1>4, <1>5
<1> QED BY <1>6 DEF v, h, u, Rows

\* A row replaced, and the next one taken out.
Merged(s, k, z) == RemoveAt([s EXCEPT ![k] = z], k + 1)

LEMMA RowsMerged ==
  ASSUME NEW C, NEW H \in Seq(C), NEW x \in C, NEW y \in C, NEW T \in Seq(C), NEW z \in C,
         NEW s, Rows(s, H, x, <<y>> \o T)
  PROVE  /\ s[Len(H) + 1] = x /\ s[Len(H) + 2] = y
         /\ Rows(Merged(s, Len(H) + 1, z), H, z, T)
<1> DEFINE h == Len(H)
           R == <<y>> \o T
           u == H \o <<z>>
           w == u \o <<y>>
           v == u \o R
<1>1. h \in Nat /\ Len(T) \in Nat /\ R \in Seq(C) /\ Len(R) = Len(T) + 1 /\ R[1] = y
  OBVIOUS
<1>2. u \in Seq(C) /\ Len(u) = h + 1
  OBVIOUS
<1>3. w \in Seq(C) /\ Len(w) = h + 2
  BY <1>2
<1>4. v = w \o T
  <2>1. <<y>> \in Seq(C)
    OBVIOUS
  <2> HIDE DEF u
  <2> QED BY <1>2, <2>1, Associative
<1>5. Rows(s, H, x, R)
  OBVIOUS
<1> HIDE DEF R
<1>6. (H \o <<x>>) \in Seq(C) /\ Len(H \o <<x>>) = h + 1
  OBVIOUS
<1>7. s[h + 1] = x
  BY <1>1, <1>5 DEF Rows
<1>8. s[h + 2] = y
  <2> DEFINE g == H \o <<x>>
  <2>1. g \in Seq(C) /\ Len(g) = h + 1 /\ s = g \o R
    BY <1>5, <1>6 DEF Rows
  <2> HIDE DEF g, h
  <2>2. (g \o R)[Len(g) + 1] = R[1]
    BY <1>1, <2>1
  <2>3. Len(g) + 1 = h + 2
    BY <1>1, <2>1
  <2> QED BY <1>1, <2>1, <2>2, <2>3
<1>9. [s EXCEPT ![h + 1] = z] = v
  <2>1. Rows([s EXCEPT ![h + 1] = z], H, z, R)
    BY <1>1, <1>5, RowReplaced
  <2> QED BY <2>1 DEF Rows
<1>10. SubSeq(v, 1, h + 1) = u
  <2> HIDE DEF u
  <2> QED BY <1>1, <1>2, JoinParts
<1> HIDE DEF w, v
<1>11. SubSeq(v, h + 3, Len(v)) = T
  <2>1. SubSeq(w \o T, Len(w) + 1, Len(w \o T)) = T
    BY <1>3, JoinParts
  <2>2. Len(w) + 1 = h + 3
    BY <1>1, <1>3
  <2> QED BY <1>4, <2>1, <2>2
<1>12. RemoveAt(v, (h + 1) + 1) = SubSeq(v, 1, h + 1) \o SubSeq(v, h + 3, Len(v))
  <2>1. (h + 1 + 1) - 1 = h + 1 /\ (h + 1 + 1) + 1 = h + 3
    BY <1>1
  <2> HIDE DEF h
  <2> QED BY <2>1 DEF RemoveAt
<1> QED BY <1>7, <1>8, <1>9, <1>10, <1>11, <1>12 DEF Merged, u, Rows

\* The row above and the row at the caret, as two.
LEMMA RowsJoined ==
  ASSUME NEW H \in Bodies, NEW x \in Seq(Char), NEW y \in Seq(Char), NEW T \in Bodies,
         NEW s, Rows(s, H, x, <<y>> \o T)
  PROVE  Rows(JoinedAt(s, Len(H) + 1), H, x \o y, T)
<1> DEFINE C == Seq(Char)
           z == x \o y
           h == Len(H)
<1>1. H \in Seq(C) /\ T \in Seq(C) /\ x \in C /\ y \in C /\ z \in C
  BY DEF Bodies
<1>0. h \in Nat
  BY DEF Bodies
<1> HIDE DEF C, z
<1>2. Rows(Merged(s, h + 1, z), H, z, T)
  BY <1>1, RowsMerged
<1>3. s[h + 1] = x
  BY <1>1, RowsMerged
<1>4. s[h + 2] = y
  BY <1>1, RowsMerged
<1>5. (h + 1) + 1 = h + 2
  BY <1>0
<1> HIDE DEF h
<1>6. JoinedAt(s, h + 1) = Merged(s, h + 1, s[h + 1] \o s[h + 2])
  BY <1>5 DEF JoinedAt, Merged
<1> QED BY <1>2, <1>3, <1>4, <1>6 DEF h, z

LEMMA LineIsCut ==
  ASSUME NEW H, NEW p, NEW q, NEW T, CutAt(form, H, p, q, T)
  PROVE  LineBefore = p /\ LineAfter = q /\ Len(Line) = Len(p) + Len(q) /\ Line = p \o q
<1>1. Line = p \o q /\ form.col = Len(p) /\ p \in Seq(Char) /\ q \in Seq(Char)
  <2>1. form.lines[form.row] = p \o q
    BY CutIsBody
  <2> QED BY <2>1 DEF Line, CutAt
<1>2. SubSeq(p \o q, 1, Len(p)) = p
  BY <1>1, JoinParts
<1>3. SubSeq(p \o q, Len(p) + 1, Len(p \o q)) = q
  BY <1>1, JoinParts
<1>4. Len(p \o q) = Len(p) + Len(q)
  BY <1>1, JoinParts
<1> QED BY <1>1, <1>2, <1>3, <1>4 DEF LineBefore, LineAfter

LEMMA RowInserted ==
  ASSUME NEW C, NEW H \in Seq(C), NEW x \in C, NEW T \in Seq(C), NEW y \in C, NEW s, Rows(s, H, x, T)
  PROVE  Rows(InsertAt(s, Len(H) + 2, y), H \o <<x>>, y, T) /\ H \o <<x>> \in Seq(C) /\ Len(H \o <<x>>) = Len(H) + 1
<1> DEFINE g == H \o <<x>>
           n == Len(H) + 2
<1>1. g \in Seq(C) /\ Len(g) = Len(H) + 1 /\ Len(H) \in Nat /\ s = g \o T
  BY DEF Rows
<1>2. n - 1 = Len(g) /\ n = Len(g) + 1
  BY <1>1
<1> HIDE DEF g, n
<1>3. SubSeq(g \o T, 1, Len(g)) = g
  BY <1>1, JoinParts
<1>4. SubSeq(g \o T, Len(g) + 1, Len(g \o T)) = T
  BY <1>1, JoinParts
<1>5. InsertAt(s, n, y) = SubSeq(s, 1, n - 1) \o <<y>> \o SubSeq(s, n, Len(s))
  BY DEF InsertAt
<1>6. Rows(InsertAt(s, n, y), g, y, T)
  BY <1>1, <1>2, <1>3, <1>4, <1>5 DEF Rows
<1> QED BY <1>1, <1>6 DEF g, n

LEMMA InsertCut ==
  ASSUME IsForm(form), NEW H, NEW p, NEW q, NEW T, CutAt(form, H, p, q, T), NEW c \in Char, InsertChar(c)
  PROVE  CutAt(form', H, p \o <<c>>, q, T)
<1> DEFINE x == LineBefore \o <<c>> \o LineAfter
<1>1. form' = [form EXCEPT !.lines[form.row] = x, !.col = form.col + 1]
  BY DEF InsertChar, Edits, Writes
<1>2. LineBefore = p /\ LineAfter = q
  BY LineIsCut
<1> HIDE DEF x
<1>3. form'.lines = [form.lines EXCEPT ![form.row] = x] /\ form'.row = form.row /\ form'.col = form.col + 1
  BY <1>1 DEF IsForm
<1>4. H \in Seq(Seq(Char)) /\ T \in Seq(Seq(Char)) /\ p \in Seq(Char) /\ q \in Seq(Char) /\ Rows(form.lines, H, p \o q, T) /\ form.row = Len(H) + 1 /\ form.col = Len(p)
  BY DEF CutAt, Bodies
<1>5. x = (p \o <<c>>) \o q /\ p \o <<c>> \in Seq(Char) /\ Len(p \o <<c>>) = Len(p) + 1
  BY <1>2, <1>4 DEF x
<1>6. p \o q \in Seq(Char) /\ x \in Seq(Char)
  BY <1>4, <1>5
<1>7. Rows(form'.lines, H, x, T)
  <2> DEFINE C == Seq(Char)
             o == p \o q
  <2>1. H \in Seq(C) /\ T \in Seq(C) /\ o \in C /\ x \in C /\ Rows(form.lines, H, o, T)
    BY <1>4, <1>6
  <2> HIDE DEF C, o
  <2>2. Rows([form.lines EXCEPT ![Len(H) + 1] = x], H, x, T)
    BY <2>1, RowReplaced
  <2> QED BY <2>2, <1>3, <1>4
<1> QED BY <1>3, <1>4, <1>5, <1>7 DEF CutAt, Bodies

\* What a cut says, with the rows' kind for the lemmas about rows.
LEMMA CutRows ==
  ASSUME NEW f, NEW H, NEW p, NEW q, NEW T, CutAt(f, H, p, q, T)
  PROVE  /\ H \in Bodies /\ T \in Bodies /\ p \in Seq(Char) /\ q \in Seq(Char) /\ p \o q \in Seq(Char)
         /\ Rows(f.lines, H, p \o q, T) /\ f.row = Len(H) + 1 /\ f.col = Len(p)
         /\ Len(H) \in Nat /\ Len(T) \in Nat /\ Len(p) \in Nat /\ Len(q) \in Nat
<1>1. H \in Bodies /\ T \in Bodies /\ p \in Seq(Char) /\ q \in Seq(Char) /\ Rows(f.lines, H, p \o q, T)
      /\ f.row = Len(H) + 1 /\ f.col = Len(p)
  BY DEF CutAt
<1>2. Len(H) \in Nat /\ Len(T) \in Nat
  BY <1>1 DEF Bodies
<1>3. p \o q \in Seq(Char) /\ Len(p) \in Nat /\ Len(q) \in Nat
  BY <1>1
<1> QED BY <1>1, <1>2, <1>3

LEMMA NewlineCut ==
  ASSUME IsForm(form), NEW H, NEW p, NEW q, NEW T, CutAt(form, H, p, q, T), Newline
  PROVE  CutAt(form', H \o <<p>>, <<>>, q, T)
<1> DEFINE C == Seq(Char)
           o == p \o q
           l == InsertAt([form.lines EXCEPT ![form.row] = LineBefore], form.row + 1, LineAfter)
           r == form.row + 1
<1>1. form' = Body(l, r, 0)
  BY DEF Newline, Edits, Writes, Body
<1>2. LineBefore = p /\ LineAfter = q
  BY LineIsCut
<1>3. H \in Seq(C) /\ T \in Seq(C) /\ p \in C /\ q \in C /\ o \in C /\ Rows(form.lines, H, o, T) /\ form.row = Len(H) + 1 /\ Len(H) \in Nat
  BY CutRows DEF Bodies
<1>4. form.row + 1 = Len(H) + 2
  BY <1>3
<1>5. l = InsertAt([form.lines EXCEPT ![Len(H) + 1] = p], Len(H) + 2, q)
  BY <1>2, <1>3, <1>4
<1> HIDE DEF C, o, l
<1>6. Rows([form.lines EXCEPT ![Len(H) + 1] = p], H, p, T)
  BY <1>3, RowReplaced
<1>7. Rows(l, H \o <<p>>, q, T) /\ H \o <<p>> \in Seq(C) /\ Len(H \o <<p>>) = Len(H) + 1
  BY <1>3, <1>5, <1>6, RowInserted
<1> HIDE DEF r
<1>8. form'.lines = l /\ form'.row = r /\ form'.col = 0
  BY <1>1, BodyFields
<1>9. <<>> \o q = q /\ <<>> \in Seq(Char) /\ Len(<<>>) = 0
  BY <1>3 DEF C
<1>10. H \o <<p>> \in Bodies /\ T \in Bodies /\ q \in Seq(Char)
  BY <1>3, <1>7 DEF C, Bodies
<1>11. r = Len(H \o <<p>>) + 1
  BY <1>3, <1>7 DEF r
<1> QED BY <1>7, <1>8, <1>9, <1>10, <1>11 DEF CutAt

LEMMA EraseInRow ==
  ASSUME IsForm(form), NEW H, NEW p, NEW x \in Char, NEW q, NEW T, p \in Seq(Char), CutAt(form, H, p \o <<x>>, q, T), Backspace
  PROVE  CutAt(form', H, p, q, T)
<1> DEFINE C == Seq(Char)
           b == p \o <<x>>
           o == b \o q
           y == SubSeq(Line, 1, form.col - 1) \o LineAfter
           n == form.col - 1
<1>0. b \in Seq(Char) /\ Len(b) = Len(p) + 1 /\ Len(p) \in Nat
  OBVIOUS
<1> HIDE DEF b
<1>1. LineBefore = b /\ LineAfter = q /\ Line = o /\ CutAt(form, H, b, q, T)
  BY LineIsCut DEF b
<1>2. H \in Seq(C) /\ T \in Seq(C) /\ q \in C /\ o \in C /\ Rows(form.lines, H, o, T) /\ form.row = Len(H) + 1
  BY <1>1, CutRows DEF Bodies
<1>3. form.col = Len(b)
  BY <1>1 DEF CutAt
<1>4. form.col > 0 /\ n = Len(p)
  BY <1>0, <1>3
<1>5. form' = [form EXCEPT !.lines[form.row] = y, !.col = n]
  BY <1>4 DEF Backspace, Edits, Writes
<1>6. SubSeq(Line, 1, n) = p
  <2> DEFINE e == <<x>> \o q
  <2>1. <<x>> \in Seq(Char) /\ q \in Seq(Char)
    BY <1>2
  <2>2. Line = p \o e
    BY <1>1, <2>1, Associative DEF b
  <2>3. e \in Seq(Char)
    BY <2>1
  <2> HIDE DEF e
  <2>4. SubSeq(p \o e, 1, Len(p)) = p
    BY <2>3, JoinParts
  <2> QED BY <2>2, <2>4, <1>4
<1>7. y = p \o q /\ y \in C
  <2>1. y = p \o q
    BY <1>1, <1>6
  <2>2. q \in Seq(Char)
    BY <1>2
  <2>3. p \o q \in Seq(Char)
    BY <2>2
  <2> QED BY <2>1, <2>3
<1> HIDE DEF y, n, C, o
<1>8. form'.lines = [form.lines EXCEPT ![form.row] = y] /\ form'.row = form.row /\ form'.col = n
  BY <1>5 DEF IsForm
<1>9. Rows([form.lines EXCEPT ![Len(H) + 1] = y], H, y, T)
  BY <1>2, <1>7, RowReplaced
<1>10. Rows(form'.lines, H, p \o q, T)
  BY <1>2, <1>7, <1>8, <1>9
<1>11. H \in Bodies /\ T \in Bodies /\ q \in Seq(Char)
  BY <1>2 DEF C, Bodies
<1> QED BY <1>2, <1>4, <1>8, <1>10, <1>11 DEF CutAt

LEMMA EraseRow ==
  ASSUME IsForm(form), NEW H \in Bodies, NEW y \in Seq(Char), NEW q, NEW T,
         CutAt(form, H \o <<y>>, <<>>, q, T), Backspace
  PROVE  CutAt(form', H, y, q, T)
<1> DEFINE C == Seq(Char)
           G == H \o <<y>>
           r == form.row - 1
           l == JoinedAt(form.lines, r)
           m == Len(form.lines[r])
           R == <<q>> \o T
<1>1. G \in Bodies /\ Len(G) = Len(H) + 1 /\ Len(H) \in Nat
  BY DEF Bodies
<1> HIDE DEF G
<1>2. CutAt(form, G, <<>>, q, T)
  BY DEF G
<1>3. T \in Bodies /\ q \in Seq(Char) /\ <<>> \o q = q /\ form.row = Len(G) + 1 /\ form.col = 0 /\ Rows(form.lines, G, <<>> \o q, T)
  BY <1>2 DEF CutAt
<1>4. form.col = 0 /\ form.row > 1 /\ r = Len(H) + 1
  BY <1>1, <1>3
<1>5. form' = Body(l, r, m)
  BY <1>4 DEF Backspace, Edits, Writes, Body
<1>6. R \in Bodies /\ <<q>> \in Bodies /\ form.lines = (G \o <<q>>) \o T
  BY <1>3 DEF Bodies, Rows
<1>7. form.lines = G \o R
  <2>1. G \in Seq(C) /\ <<q>> \in Seq(C) /\ T \in Seq(C)
    BY <1>1, <1>3, <1>6 DEF Bodies
  <2> HIDE DEF C
  <2> QED BY <2>1, <1>6, Associative
<1>8. Rows(form.lines, H, y, R)
  BY <1>7 DEF Rows, G
<1>9. Rows(l, H, y \o q, T)
  BY <1>3, <1>4, <1>8, RowsJoined
<1>10. form.lines[r] = y
  <2>1. H \in Seq(C) /\ R \in Seq(C) /\ y \in C
    BY <1>6 DEF Bodies
  <2> HIDE DEF C, R
  <2>2. (H \o <<y>> \o R)[Len(H) + 1] = y
    BY <2>1, CutPlaces
  <2> QED BY <2>2, <1>4, <1>8 DEF Rows
<1>11. form'.lines = l /\ form'.row = r /\ form'.col = m
  <2> HIDE DEF l, r, m
  <2> QED BY <1>5, BodyFields
<1> QED BY <1>3, <1>4, <1>9, <1>10, <1>11 DEF CutAt

LEMMA DeleteInRow ==
  ASSUME IsForm(form), NEW H, NEW p, NEW x \in Char, NEW q \in Seq(Char), NEW T, CutAt(form, H, p, <<x>> \o q, T), DeleteChar
  PROVE  CutAt(form', H, p, q, T)
<1> DEFINE C == Seq(Char)
           b == <<x>> \o q
           o == p \o b
           y == LineBefore \o Tail(LineAfter)
<1>1. b \in Seq(Char) /\ Len(b) = Len(q) + 1 /\ Len(q) \in Nat /\ Tail(b) = q
  OBVIOUS
<1> HIDE DEF b
<1>2. CutAt(form, H, p, b, T)
  BY DEF b
<1>3. LineBefore = p /\ LineAfter = b /\ Len(Line) = Len(p) + Len(b)
  BY <1>2, LineIsCut
<1>4. H \in Seq(C) /\ T \in Seq(C) /\ p \in C /\ o \in C /\ Rows(form.lines, H, o, T) /\ form.row = Len(H) + 1 /\ form.col = Len(p) /\ Len(p) \in Nat
  BY <1>2, CutRows DEF Bodies
<1>5. form.col < Len(Line)
  BY <1>1, <1>3, <1>4
<1>6. form' = [form EXCEPT !.lines[form.row] = y]
  BY <1>5 DEF DeleteChar, Edits, Writes
<1>7. y = p \o q
  BY <1>1, <1>3
<1>8. y \in C
  <2>1. p \in Seq(Char)
    BY <1>4
  <2>2. p \o q \in Seq(Char)
    BY <2>1
  <2> QED BY <1>7, <2>2
<1> HIDE DEF y, C, o
<1>9. form'.lines = [form.lines EXCEPT ![form.row] = y] /\ form'.row = form.row /\ form'.col = form.col
  BY <1>6 DEF IsForm
<1>10. Rows([form.lines EXCEPT ![Len(H) + 1] = y], H, y, T)
  BY <1>4, <1>8, RowReplaced
<1>11. Rows(form'.lines, H, p \o q, T)
  BY <1>4, <1>7, <1>9, <1>10
<1>12. H \in Bodies /\ T \in Bodies /\ p \in Seq(Char)
  BY <1>4 DEF C, Bodies
<1> QED BY <1>4, <1>9, <1>11, <1>12 DEF CutAt

LEMMA DeleteBreak ==
  ASSUME IsForm(form), NEW H, NEW p, NEW y \in Seq(Char), NEW T \in Bodies, CutAt(form, H, p, <<>>, <<y>> \o T), DeleteChar
  PROVE  CutAt(form', H, p, y, T)
<1> DEFINE l == JoinedAt(form.lines, form.row)
           R == <<y>> \o T
<1>1. R \in Bodies /\ Len(R) = Len(T) + 1 /\ Len(T) \in Nat
  BY DEF Bodies
<1> HIDE DEF R
<1>2. CutAt(form, H, p, <<>>, R)
  BY DEF R
<1>3. H \in Bodies /\ p \in Seq(Char) /\ p \o <<>> = p /\ form.row = Len(H) + 1 /\ form.col = Len(p) /\ Len(H) \in Nat
      /\ Rows(form.lines, H, p \o <<>>, R)
  <2>1. H \in Bodies /\ p \in Seq(Char) /\ form.row = Len(H) + 1 /\ form.col = Len(p) /\ Rows(form.lines, H, p \o <<>>, R) /\ Len(H) \in Nat
    BY <1>2, CutRows
  <2> QED BY <2>1
<1>4. Len(Line) = Len(p) + Len(<<>>)
  BY <1>2, LineIsCut
<1>5. Len(form.lines) = Len(H) + 1 + Len(R)
  BY <1>2, CutIsBody
<1>6. form.col = Len(Line) /\ form.row < Len(form.lines) /\ ~(form.col < Len(Line))
  BY <1>1, <1>3, <1>4, <1>5
<1>7. form' = [form EXCEPT !.lines = l]
  BY <1>6 DEF DeleteChar, Edits, Writes
<1>8. Rows(l, H, p \o y, T)
  BY <1>3, RowsJoined DEF R
<1> HIDE DEF l
<1>9. form'.lines = l /\ form'.row = form.row /\ form'.col = form.col
  BY <1>7 DEF IsForm
<1> QED BY <1>3, <1>8, <1>9 DEF CutAt

LEMMA PreChar ==
  ASSUME NEW H \in Bodies, NEW p \in Seq(Char), NEW c \in Char
  PROVE  Pre(H, p \o <<c>>) = Pre(H, p) \o <<c>>
<1> DEFINE C == Char \cup {LineBreak}
           d == <<c>>
           A == Told(H)
<1>1. A \in Seq(C) /\ p \in Seq(C) /\ d \in Seq(C)
  BY ToldText, LinesAreTexts DEF Texts
<1> HIDE DEF C, d, A
<1>2. A \o (p \o d) = (A \o p) \o d
  <2>1. Associates(A, p, d)
    BY <1>1, JoinsAssociate
  <2> QED BY <2>1 DEF Associates
<1> QED BY <1>2 DEF Pre, A, d

LEMMA PreRow ==
  ASSUME NEW H \in Bodies, NEW p \in Seq(Char)
  PROVE  Pre(H \o <<p>>, <<>>) = Pre(H, p) \o <<LineBreak>>
<1> DEFINE C == Char \cup {LineBreak}
           d == <<LineBreak>>
           A == Told(H)
<1>1. A \in Seq(C) /\ p \in Seq(C) /\ d \in Seq(C)
  BY ToldText, LinesAreTexts DEF Texts
<1>2. <<p>> \in Bodies
  BY DEF Bodies
<1>3. Told(<<p>>) = p \o d
  BY ToldOne
<1>4. Told(H \o <<p>>) = A \o (p \o d)
  BY <1>2, <1>3, ToldConcat
<1> HIDE DEF C, d, A
<1>5. A \o (p \o d) = (A \o p) \o d
  <2>1. Associates(A, p, d)
    BY <1>1, JoinsAssociate
  <2> QED BY <2>1 DEF Associates
<1>6. ((A \o p) \o d) \o <<>> = (A \o p) \o d
  <2>1. (A \o p) \o d \in Seq(C)
    BY <1>1
  <2> QED BY <2>1
<1> QED BY <1>4, <1>5, <1>6 DEF Pre, A, d

LEMMA PostChar ==
  ASSUME NEW q \in Seq(Char), NEW T \in Bodies, NEW c \in Char
  PROVE  Post(<<c>> \o q, T) = <<c>> \o Post(q, T)
<1> DEFINE C == Char \cup {LineBreak}
           d == <<LineBreak>>
           e == <<c>>
           B == Told(T)
           z == q \o d
<1>1. B \in Seq(C) /\ q \in Seq(C) /\ d \in Seq(C) /\ e \in Seq(C)
  BY ToldText, LinesAreTexts DEF Texts
<1> HIDE DEF C, d, e, B
<1>2. (e \o q) \o d = e \o z
  BY <1>1, Associative, SMTT(30)
<1>3. z \in Seq(C)
  BY <1>1
<1> HIDE DEF z
<1>4. (e \o z) \o B = e \o (z \o B)
  BY <1>1, <1>3, Associative, SMTT(30)
<1> QED BY <1>2, <1>4 DEF Post, d, e, B, z

LEMMA PostRow ==
  ASSUME NEW y \in Seq(Char), NEW T \in Bodies
  PROVE  Post(<<>>, <<y>> \o T) = <<LineBreak>> \o Post(y, T)
<1> DEFINE C == Char \cup {LineBreak}
           d == <<LineBreak>>
           B == Told(T)
<1>1. B \in Seq(C) /\ y \in Seq(C) /\ d \in Seq(C)
  BY ToldText, LinesAreTexts DEF Texts
<1>2. <<y>> \in Bodies
  BY DEF Bodies
<1>3. Told(<<y>>) = y \o d
  BY ToldOne
<1>4. Told(<<y>> \o T) = (y \o d) \o B
  BY <1>2, <1>3, ToldConcat
<1>5. <<>> \o d = d
  OBVIOUS
<1> HIDE DEF C, d, B
<1> QED BY <1>4, <1>5 DEF Post, B, d

\* The caret is between what is told before and behind it.
TextAt(f, a, b) == a \in Texts /\ b \in Texts /\ b # <<>> /\ Told(f.lines) = a \o b /\ CaretOf(f) = Len(a)

LEMMA CutText ==
  ASSUME NEW f, NEW H, NEW p, NEW q, NEW T, CutAt(f, H, p, q, T)
  PROVE  TextAt(f, Pre(H, p), Post(q, T))
<1>1. H \in Bodies /\ p \in Seq(Char) /\ q \in Seq(Char) /\ T \in Bodies
  BY DEF CutAt
<1>2. Pre(H, p) \in Texts
  BY <1>1, PreText
<1>3. Post(q, T) \in Texts
  BY <1>1, PreText
<1>4. Post(q, T) # <<>>
  BY <1>1, PreText
<1> QED BY <1>2, <1>3, <1>4, CutIsTold DEF TextAt

LEMMA FirstOff ==
  ASSUME NEW C, NEW s \in Seq(C), s # <<>>
  PROVE  Head(s) \in C /\ Tail(s) \in Seq(C) /\ s = <<Head(s)>> \o Tail(s)
OBVIOUS

LEMMA LastJoined ==
  ASSUME NEW C, NEW s \in Seq(C), s # <<>>
  PROVE  \E t \in Seq(C), x \in C : s = t \o <<x>>
<1> DEFINE n == Len(s) - 1
<1>1. n \in Nat /\ Len(s) = n + 1
  OBVIOUS
<1> HIDE DEF n
<1> DEFINE t == SubSeq(s, 1, n)
<1>2. t \in Seq(C) /\ s[n + 1] \in C /\ s = Append(t, s[n + 1])
  BY <1>1, LastOff
<1> HIDE DEF t
<1>3. Append(t, s[n + 1]) = t \o <<s[n + 1]>>
  BY <1>2
<1> QED BY <1>2, <1>3

\* The text of f becomes that of g by one edit or a move of the caret.
Changes(f, g) ==
  \/ Typed(TextOf(f), CaretOf(f), TextOf(g), CaretOf(g))
  \/ ErasedBefore(TextOf(f), CaretOf(f), TextOf(g), CaretOf(g))
  \/ ErasedAfter(TextOf(f), CaretOf(f), TextOf(g), CaretOf(g))
  \/ Moved(TextOf(f), TextOf(g), CaretOf(g))

LEMMA TextAtTyped ==
  ASSUME NEW f, NEW g, NEW a, NEW b, NEW c \in Char \cup {LineBreak}, TextAt(f, a, b), TextAt(g, a \o <<c>>, b)
  PROVE  Changes(f, g)
<1>1. Typed(Front(a \o b), Len(a), Front((a \o <<c>>) \o b), Len(a \o <<c>>))
  BY TypedThere DEF TextAt
<1> QED BY <1>1 DEF Changes, TextAt, TextOf

LEMMA TextAtErased ==
  ASSUME NEW f, NEW g, NEW a \in Texts, NEW b, NEW c \in Char \cup {LineBreak}, TextAt(f, a \o <<c>>, b), TextAt(g, a, b)
  PROVE  Changes(f, g)
<1>1. ErasedBefore(Front((a \o <<c>>) \o b), Len(a \o <<c>>), Front(a \o b), Len(a))
  BY ErasedThereBefore DEF TextAt
<1> QED BY <1>1 DEF Changes, TextAt, TextOf

LEMMA TextAtDeleted ==
  ASSUME NEW f, NEW g, NEW a, NEW b, NEW c \in Char \cup {LineBreak}, TextAt(f, a, <<c>> \o b), TextAt(g, a, b)
  PROVE  Changes(f, g)
<1>1. ErasedAfter(Front(a \o (<<c>> \o b)), Len(a), Front(a \o b), Len(a))
  BY ErasedThereAfter DEF TextAt
<1> QED BY <1>1 DEF Changes, TextAt, TextOf

LEMMA TextAtMoved ==
  ASSUME NEW f, NEW g, NEW a, NEW b, NEW c, NEW d, TextAt(f, a, b), TextAt(g, c, d), g.lines = f.lines
  PROVE  Changes(f, g)
<1>1. a \in Texts /\ b \in Texts /\ c \in Texts /\ d \in Texts /\ d # <<>> /\ a \o b = c \o d
  BY DEF TextAt
<1>2. Moved(Front(a \o b), Front(c \o d), Len(c))
  BY <1>1, MovedThere
<1> QED BY <1>2 DEF Changes, TextAt, TextOf

LEMMA CutThere == ASSUME NEW f, IsBody(f) PROVE \E H, p, q, T : CutAt(f, H, p, q, T)
  BY BodyIsCut

LEMMA TextThere == ASSUME NEW f, IsBody(f) PROVE \E a, b : TextAt(f, a, b)
  BY CutThere, CutText

LEMMA InsertText ==
  ASSUME IsForm(form), IsBody(form), NEW c \in Char, InsertChar(c)
  PROVE  IsBody(form') /\ Changes(form, form')
<1>1. PICK H, p, q, T : CutAt(form, H, p, q, T)
  BY CutThere
<1>2. CutAt(form', H, p \o <<c>>, q, T)
  BY <1>1, InsertCut
<1>3. TextAt(form, Pre(H, p), Post(q, T)) /\ TextAt(form', Pre(H, p \o <<c>>), Post(q, T))
  BY <1>1, <1>2, CutText
<1>4. Pre(H, p \o <<c>>) = Pre(H, p) \o <<c>>
  BY <1>1, PreChar DEF CutAt
<1>5. TextAt(form', Pre(H, p) \o <<c>>, Post(q, T))
  BY <1>3, <1>4
<1> QED BY <1>2, <1>3, <1>5, CutIsBody, TextAtTyped

LEMMA NewlineText ==
  ASSUME IsForm(form), IsBody(form), Newline
  PROVE  IsBody(form') /\ Changes(form, form')
<1>1. PICK H, p, q, T : CutAt(form, H, p, q, T)
  BY CutThere
<1>2. CutAt(form', H \o <<p>>, <<>>, q, T)
  BY <1>1, NewlineCut
<1>3. TextAt(form, Pre(H, p), Post(q, T)) /\ TextAt(form', Pre(H \o <<p>>, <<>>), Post(q, T))
  BY <1>1, <1>2, CutText
<1>4. Pre(H \o <<p>>, <<>>) = Pre(H, p) \o <<LineBreak>>
  BY <1>1, PreRow DEF CutAt
<1>5. TextAt(form', Pre(H, p) \o <<LineBreak>>, Post(q, T))
  BY <1>3, <1>4
<1>6. Changes(form, form')
  BY <1>3, <1>5, TextAtTyped
<1> QED BY <1>2, <1>6, CutIsBody

LEMMA BackspaceText ==
  ASSUME IsForm(form), IsBody(form), Backspace
  PROVE  IsBody(form') /\ Changes(form, form')
<1>1. PICK H, p, q, T : CutAt(form, H, p, q, T)
  BY CutThere
<1>2. H \in Bodies /\ p \in Seq(Char) /\ q \in Seq(Char) /\ T \in Bodies /\ form.row = Len(H) + 1 /\ form.col = Len(p)
  BY <1>1 DEF CutAt
<1>3. CASE p # <<>>
  <2>1. PICK o \in Seq(Char), x \in Char : p = o \o <<x>>
    BY <1>2, <1>3, LastJoined
  <2>2. CutAt(form', H, o, q, T)
    BY <1>1, <2>1, EraseInRow
  <2>3. TextAt(form, Pre(H, p), Post(q, T)) /\ TextAt(form', Pre(H, o), Post(q, T))
    BY <1>1, <2>2, CutText
  <2>4. Pre(H, p) = Pre(H, o) \o <<x>> /\ Pre(H, o) \in Texts
    BY <1>2, <2>1, PreChar, PreText
  <2>5. TextAt(form, Pre(H, o) \o <<x>>, Post(q, T))
    BY <2>3, <2>4
  <2>6. Changes(form, form')
    BY <2>3, <2>4, <2>5, TextAtErased
  <2> QED BY <2>2, <2>6, CutIsBody
<1>4. CASE p = <<>>
  <2>1. form.col = 0 /\ form.row > 1
    BY <1>2, <1>4 DEF Backspace
  <2>2. H # <<>>
    BY <1>2, <2>1
  <2>3. PICK G \in Bodies, y \in Seq(Char) : H = G \o <<y>>
    BY <1>2, <2>2, LastJoined DEF Bodies
  <2>4. CutAt(form, G \o <<y>>, <<>>, q, T)
    BY <1>1, <1>4, <2>3
  <2>5. CutAt(form', G, y, q, T)
    BY <2>3, <2>4, EraseRow
  <2>6. TextAt(form, Pre(G \o <<y>>, <<>>), Post(q, T)) /\ TextAt(form', Pre(G, y), Post(q, T))
    BY <2>4, <2>5, CutText
  <2>7. Pre(G \o <<y>>, <<>>) = Pre(G, y) \o <<LineBreak>> /\ Pre(G, y) \in Texts
    BY <2>3, PreRow, PreText
  <2>8. TextAt(form, Pre(G, y) \o <<LineBreak>>, Post(q, T))
    BY <2>6, <2>7
  <2>9. Changes(form, form')
    BY <2>6, <2>7, <2>8, TextAtErased
  <2> QED BY <2>5, <2>9, CutIsBody
<1> QED BY <1>3, <1>4

LEMMA DeleteText ==
  ASSUME IsForm(form), IsBody(form), DeleteChar
  PROVE  IsBody(form') /\ Changes(form, form')
<1>1. PICK H, p, q, T : CutAt(form, H, p, q, T)
  BY CutThere
<1>2. H \in Bodies /\ p \in Seq(Char) /\ q \in Seq(Char) /\ T \in Bodies /\ form.row = Len(H) + 1 /\ form.col = Len(p)
  BY <1>1 DEF CutAt
<1>3. CASE q # <<>>
  <2>1. PICK x \in Char, o \in Seq(Char) : q = <<x>> \o o
    BY <1>2, <1>3, FirstOff
  <2>2. CutAt(form', H, p, o, T)
    BY <1>1, <2>1, DeleteInRow
  <2>3. TextAt(form, Pre(H, p), Post(q, T)) /\ TextAt(form', Pre(H, p), Post(o, T))
    BY <1>1, <2>2, CutText
  <2>4. Post(q, T) = <<x>> \o Post(o, T)
    BY <1>2, <2>1, PostChar
  <2>5. TextAt(form, Pre(H, p), <<x>> \o Post(o, T))
    BY <2>3, <2>4
  <2>6. Changes(form, form')
    BY <2>3, <2>5, TextAtDeleted
  <2> QED BY <2>2, <2>6, CutIsBody
<1>4. CASE q = <<>>
  <2>1. Len(Line) = Len(p) + Len(<<>>) /\ Len(p) \in Nat
    BY <1>1, <1>2, <1>4, LineIsCut
  <2>12. Len(<<>>) = 0
    OBVIOUS
  <2>13. ~(form.col < Len(Line))
    BY <1>2, <2>1, <2>12
  <2>2. form.row < Len(form.lines)
    BY <2>13 DEF DeleteChar
  <2>3. Len(form.lines) = Len(H) + 1 + Len(T) /\ Len(H) \in Nat /\ Len(T) \in Nat
    BY <1>1, CutIsBody, CutRows
  <2>4. T # <<>>
    BY <1>2, <2>2, <2>3
  <2>5. PICK y \in Seq(Char), R \in Bodies : T = <<y>> \o R
    BY <1>2, <2>4, FirstOff DEF Bodies
  <2>6. CutAt(form, H, p, <<>>, <<y>> \o R)
    BY <1>1, <1>4, <2>5
  <2>7. CutAt(form', H, p, y, R)
    BY <2>5, <2>6, DeleteBreak
  <2>8. TextAt(form, Pre(H, p), Post(<<>>, <<y>> \o R)) /\ TextAt(form', Pre(H, p), Post(y, R))
    BY <2>6, <2>7, CutText
  <2>9. Post(<<>>, <<y>> \o R) = <<LineBreak>> \o Post(y, R)
    BY <2>5, PostRow
  <2>10. TextAt(form, Pre(H, p), <<LineBreak>> \o Post(y, R))
    BY <2>8, <2>9
  <2>11. Changes(form, form')
    BY <2>8, <2>10, TextAtDeleted
  <2> QED BY <2>7, <2>11, CutIsBody
<1> QED BY <1>3, <1>4

CaretMoves == MoveUp \/ MoveDown \/ MoveLeft \/ MoveRight \/ HomeOrEnd

LEMMA MoveText ==
  ASSUME IsForm(form), IsBody(form), CaretMoves
  PROVE  IsBody(form') /\ Changes(form, form')
<1>1. /\ form.lines \in Bodies /\ form.row \in 1 .. Len(form.lines) /\ form.col \in 0 .. Len(form.lines[form.row])
      /\ \A k \in 1 .. Len(form.lines) : Len(form.lines[k]) \in Nat
      /\ Len(form.lines) \in Nat
  BY DEF IsBody, Bodies
<1>2. \E r \in 1 .. Len(form.lines) : \E c \in 0 .. Len(form.lines[r]) : MoveTo(r, c)
  <2>1. CASE MoveUp
    <3>1. form.row - 1 \in 1 .. Len(form.lines)
      BY <1>1, <2>1 DEF MoveUp
    <3>2. Least(form.col, Len(form.lines[form.row - 1])) \in 0 .. Len(form.lines[form.row - 1])
      BY <1>1, <3>1 DEF Least
    <3> QED BY <2>1, <3>1, <3>2 DEF MoveUp
  <2>2. CASE MoveDown
    <3>1. form.row + 1 \in 1 .. Len(form.lines)
      BY <1>1, <2>2 DEF MoveDown
    <3>2. Least(form.col, Len(form.lines[form.row + 1])) \in 0 .. Len(form.lines[form.row + 1])
      BY <1>1, <3>1 DEF Least
    <3> QED BY <2>2, <3>1, <3>2 DEF MoveDown
  <2>3. CASE MoveLeft
    <3>1. CASE form.col > 0 /\ MoveTo(form.row, form.col - 1)
      <4> DEFINE x == form.lines[form.row]
      <4>1. form.col - 1 \in 0 .. Len(form.lines[form.row])
        <5>1. form.col \in 0 .. Len(x) /\ form.col > 0
          BY <1>1, <3>1
        <5> HIDE DEF x
        <5>2. form.col - 1 \in 0 .. Len(x)
          BY <5>1
        <5> QED BY <5>2 DEF x
      <4> QED BY <1>1, <3>1, <4>1
    <3>2. CASE form.col = 0 /\ form.row > 1 /\ MoveTo(form.row - 1, Len(form.lines[form.row - 1]))
      <4>1. form.row - 1 \in 1 .. Len(form.lines)
        BY <1>1, <3>2
      <4>2. Len(form.lines[form.row - 1]) \in 0 .. Len(form.lines[form.row - 1])
        BY <1>1, <4>1
      <4> QED BY <3>2, <4>1, <4>2
    <3> QED BY <2>3, <3>1, <3>2 DEF MoveLeft
  <2>4. CASE MoveRight
    <3>1. CASE form.col < Len(Line) /\ MoveTo(form.row, form.col + 1)
      <4>1. form.col + 1 \in 0 .. Len(form.lines[form.row])
        BY <1>1, <3>1 DEF Line
      <4> QED BY <1>1, <3>1, <4>1
    <3>2. CASE form.row < Len(form.lines) /\ MoveTo(form.row + 1, 0)
      <4>1. form.row + 1 \in 1 .. Len(form.lines)
        BY <1>1, <3>2
      <4>2. 0 \in 0 .. Len(form.lines[form.row + 1])
        BY <1>1, <4>1
      <4> QED BY <3>2, <4>1, <4>2
    <3> QED BY <2>4, <3>1, <3>2 DEF MoveRight
  <2>5. CASE HomeOrEnd
    <3>1. 0 \in 0 .. Len(form.lines[form.row]) /\ Len(Line) \in 0 .. Len(form.lines[form.row])
      BY <1>1 DEF Line
    <3> QED BY <1>1, <2>5, <3>1 DEF HomeOrEnd
  <2> QED BY <2>1, <2>2, <2>3, <2>4, <2>5 DEF CaretMoves
<1>9. PICK r \in 1 .. Len(form.lines) : \E c \in 0 .. Len(form.lines[r]) : MoveTo(r, c)
  BY <1>2
<1>3. PICK c \in 0 .. Len(form.lines[r]) : MoveTo(r, c)
  BY <1>9
<1>4. form' = [form EXCEPT !.row = r, !.col = c]
  BY <1>3 DEF MoveTo, Edits, Writes
<1>5. form'.lines = form.lines /\ form'.row = r /\ form'.col = c
  BY <1>4 DEF IsForm
<1>6. IsBody(form')
  BY <1>3, <1>5 DEF IsBody
<1>7. PICK a, b : TextAt(form, a, b)
  BY TextThere
<1>8. PICK d, e : TextAt(form', d, e)
  BY <1>6, TextThere
<1> QED BY <1>5, <1>6, <1>7, <1>8, TextAtMoved

BodyEdits == (\E c \in Letter : InsertChar(c)) \/ Newline \/ Backspace \/ DeleteChar \/ CaretMoves

LEMMA EditText ==
  ASSUME IsForm(form), IsBody(form), BodyEdits
  PROVE  IsBody(form') /\ Changes(form, form') /\ page = "compose" /\ UNCHANGED <<page, draft>>
<1>1. \A c \in Letter : c \in Char
  BY ComposeAssumption
<1>2. IsBody(form') /\ Changes(form, form')
  BY <1>1, InsertText, NewlineText, BackspaceText, DeleteText, MoveText DEF BodyEdits
<1>3. page = "compose" /\ UNCHANGED <<page, draft>>
  BY DEF BodyEdits, InsertChar, Newline, Backspace, DeleteChar, CaretMoves, MoveUp, MoveDown, MoveLeft, MoveRight, HomeOrEnd, MoveTo, Edits, Writes
<1> QED BY <1>2, <1>3

-----------------------------------------------------------------------------
(* The other steps, for the body.                                            *)

SameBody(f) == IsForm(f) /\ f.lines = form.lines /\ f.row = form.row /\ f.col = form.col

LEMMA SameOne ==
  ASSUME NEW f, SameBody(f), NEW x
  PROVE  /\ SameBody([f EXCEPT !.field = x]) /\ SameBody([f EXCEPT !.from = x]) /\ SameBody([f EXCEPT !.address = x])
         /\ SameBody([f EXCEPT !.attached = x]) /\ SameBody([f EXCEPT !.offered = x])
         /\ SameBody([f EXCEPT !.choice = x])
<1>1. SameBody([f EXCEPT !.field = x])
  BY DEF SameBody, IsForm
<1>2. SameBody([f EXCEPT !.from = x])
  BY DEF SameBody, IsForm
<1>3. SameBody([f EXCEPT !.address = x])
  BY DEF SameBody, IsForm
<1>4. SameBody([f EXCEPT !.attached = x])
  BY DEF SameBody, IsForm
<1>5. SameBody([f EXCEPT !.offered = x])
  BY DEF SameBody, IsForm
<1>6. SameBody([f EXCEPT !.choice = x])
  BY DEF SameBody, IsForm
<1> QED BY <1>1, <1>2, <1>3, <1>4, <1>5, <1>6

LEMMA SameOffering ==
  ASSUME NEW f, SameBody(f), NEW x PROVE SameBody([f EXCEPT !.offering = x])
  BY DEF SameBody, IsForm

LEMMA SameHidden ==
  ASSUME NEW f, SameBody(f) PROVE SameBody([f EXCEPT !.offering = FALSE])
<1> DEFINE no == FALSE
<1>1. [f EXCEPT !.offering = FALSE] = [f EXCEPT !.offering = no]
  OBVIOUS
<1> HIDE DEF no
<1>2. SameBody([f EXCEPT !.offering = no])
  BY SameOffering
<1> QED BY <1>1, <1>2

LEMMA SameSome ==
  ASSUME NEW f, SameBody(f), NEW x, NEW y
  PROVE  SameBody([f EXCEPT !.field = x, !.offering = FALSE]) /\ SameBody([f EXCEPT !.attached = x, !.field = y])
<1> DEFINE g == [f EXCEPT !.field = x]
           h == [f EXCEPT !.attached = x]
<1>1. [f EXCEPT !.field = x, !.offering = FALSE] = [g EXCEPT !.offering = FALSE]
  OBVIOUS
<1>2. [f EXCEPT !.attached = x, !.field = y] = [h EXCEPT !.field = y]
  OBVIOUS
<1>3. SameBody(g) /\ SameBody(h)
  BY SameOne
<1> HIDE DEF g, h
<1> QED BY <1>1, <1>2, <1>3, SameOne, SameHidden

LEMMA SameSuggested ==
  ASSUME NEW f, SameBody(f) PROVE SameBody(Suggested(f))
<1> DEFINE t == f.address[f.field]
           part == Trimmed(SubSeq(t, Len(UpToComma(t)) + 1, Len(t)))
           found == {i \in DOMAIN Known : Len(part) > 1 /\ HasPart(Known[i], part)}
           some == found # {}
           first == IF found = {} THEN 1 ELSE CHOOSE i \in found : \A j \in found : i <= j
           g == [f EXCEPT !.offered = found]
           h == [g EXCEPT !.offering = some]
<1>1. Suggested(f) = [h EXCEPT !.choice = first]
  BY DEF Suggested
<1> HIDE DEF found, some, first
<1>2. SameBody(g)
  BY SameOne
<1> HIDE DEF g
<1>3. SameBody(h)
  BY <1>2, SameOffering
<1> HIDE DEF h
<1>4. SameBody([h EXCEPT !.choice = first])
  BY <1>3, SameOne
<1> QED BY <1>1, <1>4

LEMMA SameAccepted ==
  ASSUME NEW f, SameBody(f), NEW x, NEW y
  PROVE  SameBody([f EXCEPT !.address = x, !.offering = FALSE, !.offered = y, !.choice = 1])
<1> DEFINE g == [f EXCEPT !.address = x]
           h == [g EXCEPT !.offering = FALSE]
           k == [h EXCEPT !.offered = y]
<1>1. [f EXCEPT !.address = x, !.offering = FALSE, !.offered = y, !.choice = 1] = [k EXCEPT !.choice = 1]
  OBVIOUS
<1>2. SameBody(g)
  BY SameOne
<1> HIDE DEF g
<1>3. SameBody(h)
  BY <1>2, SameHidden
<1> HIDE DEF h
<1>4. SameBody(k)
  BY <1>3, SameOne
<1> HIDE DEF k
<1> QED BY <1>1, <1>4, SameOne

\* A step on the form that is not about its body.
OtherFields ==
  \/ \E by \in {"next", "prev"} : CycleSender(by)
  \/ NextField \/ PrevField
  \/ \E c \in Letter \cup {"comma"} : AddressInput(c)
  \/ AddressBackspace \/ HideSuggestions \/ AcceptSuggestion
  \/ \E i \in DOMAIN Known : ChooseSuggestion(i)
  \/ OpenFileBrowser \/ LeaveFileBrowser \/ BrowserEnter \/ BrowserParent \/ BrowserHidden
  \/ \E i \in DOMAIN Entries(browser) : BrowserMove(i)
  \/ RemoveLastAttachment \/ SaveForm

BodyStays ==
  /\ page = "compose" /\ page' = "compose" /\ SameBody(form')
  /\ draft' = draft \/ draft' = DraftOf(form)

LEMMA OtherFieldsStay ==
  ASSUME IsForm(form), OtherFields PROVE BodyStays
<1>0. SameBody(form)
  BY DEF SameBody
<1>1. ASSUME NEW f, NEW c, Writes(f, c), SameBody(f) PROVE BodyStays
  BY <1>1 DEF Writes, BodyStays
<1>2. ASSUME NEW f, NEW b, Browses(b, f), SameBody(f) PROVE BodyStays
  BY <1>2 DEF Browses, BodyStays
<1>3. ASSUME NEW by \in {"next", "prev"}, CycleSender(by) PROVE BodyStays
  <2>1. PICK x : Writes([form EXCEPT !.from = x], FALSE)
    BY <1>3 DEF CycleSender
  <2> QED BY <2>1, <1>0, <1>1, SameOne
<1>4. CASE NextField \/ PrevField
  <2>1. PICK x : Writes([form EXCEPT !.field = x, !.offering = FALSE], FALSE)
    BY <1>4 DEF NextField, PrevField
  <2> QED BY <2>1, <1>0, <1>1, SameSome
<1>5. ASSUME NEW c, AddressInput(c) PROVE BodyStays
  <2> DEFINE new == [form.address EXCEPT ![form.field] = Append(form.address[form.field], c)]
             g == [form EXCEPT !.address = new]
  <2>1. Writes(Suggested(g), TRUE)
    BY <1>5 DEF AddressInput
  <2> HIDE DEF new
  <2>2. SameBody(g)
    BY <1>0, SameOne
  <2> HIDE DEF g
  <2> QED BY <2>1, <2>2, <1>1, SameSuggested
<1>6. CASE AddressBackspace
  <2> DEFINE new == [form.address EXCEPT ![form.field] = Front(form.address[form.field])]
             g == [form EXCEPT !.address = new]
  <2>1. Writes(Suggested(g), TRUE)
    BY <1>6 DEF AddressBackspace
  <2> HIDE DEF new
  <2>2. SameBody(g)
    BY <1>0, SameOne
  <2> HIDE DEF g
  <2> QED BY <2>1, <2>2, <1>1, SameSuggested
<1>7. CASE HideSuggestions
  BY <1>0, <1>1, <1>7, SameHidden DEF HideSuggestions
<1>8. CASE AcceptSuggestion
  <2> DEFINE new == [form.address EXCEPT ![form.field] = Accepted(form.address[form.field], Known[form.choice])]
             none == {}
  <2>1. Writes([form EXCEPT !.address = new, !.offering = FALSE, !.offered = none, !.choice = 1], FALSE)
    BY <1>8 DEF AcceptSuggestion
  <2> HIDE DEF new, none
  <2>2. SameBody([form EXCEPT !.address = new, !.offering = FALSE, !.offered = none, !.choice = 1])
    BY <1>0, SameAccepted
  <2> QED BY <2>1, <2>2, <1>1
<1>9. ASSUME NEW i, ChooseSuggestion(i) PROVE BodyStays
  <2>1. Writes([form EXCEPT !.choice = i], FALSE)
    BY <1>9 DEF ChooseSuggestion
  <2> QED BY <2>1, <1>0, <1>1, SameOne
<1>10. CASE OpenFileBrowser \/ LeaveFileBrowser
  <2>1. PICK b, x : Browses(b, [form EXCEPT !.field = x])
    BY <1>10 DEF OpenFileBrowser, LeaveFileBrowser
  <2> QED BY <2>1, <1>0, <1>2, SameOne
<1>11. CASE BrowserEnter
  <2>1. (\E b : Browses(b, form)) \/ \E b, x, y : Browses(b, [form EXCEPT !.attached = x, !.field = y])
    BY <1>11 DEF BrowserEnter
  <2> QED BY <2>1, <1>0, <1>2, SameSome
<1>12. CASE BrowserParent \/ BrowserHidden
  BY <1>12, <1>0, <1>2 DEF BrowserParent, BrowserHidden
<1>13. ASSUME NEW i, BrowserMove(i) PROVE BodyStays
  BY <1>13, <1>0, <1>2 DEF BrowserMove
<1>14. CASE RemoveLastAttachment
  <2>1. PICK x, c : Writes([form EXCEPT !.attached = x], c)
    BY <1>14 DEF RemoveLastAttachment
  <2> QED BY <2>1, <1>0, <1>1, SameOne
<1>15. CASE SaveForm
  BY <1>0, <1>15 DEF SaveForm, formVars, BodyStays
<1> QED BY <1>3, <1>4, <1>5, <1>6, <1>7, <1>8, <1>9, <1>10, <1>11, <1>12, <1>13, <1>14, <1>15 DEF OtherFields

\* A form as it is opened: the caret is at the top.
AtTop(f) == IsForm(f) /\ f.lines \in Bodies /\ f.lines # <<>> /\ f.row = 1 /\ f.col = 0

LEMMA BlankAtTop == AtTop(Blank) /\ Blank.lines = <<<<>>>> /\ Blank.row = 1 /\ Blank.col = 0
<1>1. IsForm(Blank) /\ Blank.lines = <<<<>>>> /\ Blank.row = 1 /\ Blank.col = 0
  BY DEF Blank, IsForm
<1>2. <<<<>>>> \in Bodies /\ <<<<>>>> # <<>>
  BY DEF Bodies
<1> QED BY <1>1, <1>2 DEF AtTop

LEMMA TopOne ==
  ASSUME NEW f, AtTop(f), NEW x
  PROVE  /\ AtTop([f EXCEPT !.field = x]) /\ AtTop([f EXCEPT !.senders = x]) /\ AtTop([f EXCEPT !.from = x])
         /\ AtTop([f EXCEPT !.address = x]) /\ AtTop([f EXCEPT !.attached = x])
<1>1. AtTop([f EXCEPT !.field = x])
  BY DEF AtTop, IsForm
<1>2. AtTop([f EXCEPT !.senders = x])
  BY DEF AtTop, IsForm
<1>3. AtTop([f EXCEPT !.from = x])
  BY DEF AtTop, IsForm
<1>4. AtTop([f EXCEPT !.address = x])
  BY DEF AtTop, IsForm
<1>5. AtTop([f EXCEPT !.attached = x])
  BY DEF AtTop, IsForm
<1> QED BY <1>1, <1>2, <1>3, <1>4, <1>5

LEMMA TopLines ==
  ASSUME NEW f, AtTop(f), NEW x \in Bodies, x # <<>> PROVE AtTop([f EXCEPT !.lines = x])
  BY DEF AtTop, IsForm

LEMMA TopIsBody == ASSUME NEW f, AtTop(f) PROVE IsBody(f) /\ TextOf(f) \in Texts /\ CaretOf(f) = 0
<1>1. f.lines \in Bodies /\ f.lines # <<>> /\ f.row = 1 /\ f.col = 0
  BY DEF AtTop
<1>2. Len(f.lines) \in Nat \ {0} /\ Len(f.lines[1]) \in Nat
  BY <1>1 DEF Bodies
<1>3. IsBody(f)
  BY <1>1, <1>2 DEF IsBody
<1>4. SubSeq(f.lines, 1, 0) = <<>> /\ f.row - 1 = 0
  BY <1>1 DEF Bodies
<1>5. CaretOf(f) = 0
  <2>1. Len(<<>>) = 0
    OBVIOUS
  <2>2. SubSeq(f.lines, 1, f.row - 1) = <<>>
    BY <1>4
  <2>3. Told(SubSeq(f.lines, 1, f.row - 1)) = <<>>
    BY <2>2, ToldEmpty
  <2> QED BY <1>1, <2>1, <2>3 DEF CaretOf
<1>6. PICK a, b : TextAt(f, a, b)
  BY <1>3, TextThere
<1>7. a \in Texts /\ b \in Texts /\ b # <<>> /\ TextOf(f) = Front(a \o b)
  BY <1>6 DEF TextAt, TextOf
<1>8. Front(a \o b) = a \o Front(b) /\ Front(b) \in Texts
  <2>1. FrontStays(a, b)
    BY <1>7, FrontJoin DEF Texts
  <2>2. Front(b) \in Texts
    BY <1>7, FrontJoin DEF Texts
  <2> QED BY <2>1, <2>2 DEF FrontStays
<1>9. a \o Front(b) \in Texts
  BY <1>7, <1>8, TextsJoin
<1> QED BY <1>3, <1>5, <1>7, <1>8, <1>9

LEMMA OpenedAtTop == AtTop(Opened)
<1> DEFINE s == identities
           x == Head(identities)
           g == [Blank EXCEPT !.senders = s]
<1>1. Opened = [g EXCEPT !.from = x]
  BY DEF Opened
<1> HIDE DEF s, x
<1>2. AtTop(g)
  BY BlankAtTop, TopOne
<1> HIDE DEF g
<1> QED BY <1>1, <1>2, TopOne

IsLines(l) == l \in Bodies /\ l # <<>>
DraftInv == draft = NoDraft \/ IsLines(draft.lines)

LEMMA QuotedLines == ASSUME NEW m \in Mail PROVE IsLines(<<<<>>, <<>>>> \o Quotation[m])
<1> DEFINE C == Seq(Char)
           Q == Quotation[m]
           e == <<>>
<1>1. Q \in Seq(C) /\ e \in C
  BY ComposeAssumption
<1> HIDE DEF C, Q, e
<1>2. <<e, e>> \o Q \in Seq(C) /\ Len(<<e, e>> \o Q) = 2 + Len(Q) /\ Len(Q) \in Nat
  BY <1>1
<1>3. <<e, e>> \o Q # <<>>
  BY <1>2
<1> QED BY <1>2, <1>3 DEF IsLines, Bodies, C, Q, e

LEMMA RestoredLines == ASSUME NEW l, IsLines(l) PROVE IsLines(Restored(l))
<1>1. l \in Seq(Seq(Char)) /\ l # <<>>
  BY DEF IsLines, Bodies
<1>2. CASE Len(l) > 1
  <2> DEFINE n == Len(l) - 1
             C == Seq(Char)
  <2>1. n \in Nat /\ Len(l) = n + 1 /\ n > 0 /\ Front(l) = SubSeq(l, 1, n) /\ l \in Seq(C)
    BY <1>1, <1>2 DEF Front
  <2> HIDE DEF n, C
  <2>2. SubSeq(l, 1, n) \in Seq(C) /\ Len(SubSeq(l, 1, n)) = n
    BY <2>1, LastOff
  <2>3. SubSeq(l, 1, n) # <<>>
    BY <2>1, <2>2
  <2> QED BY <2>1, <2>2, <2>3 DEF Restored, IsLines, Bodies, C
<1>3. CASE ~(Len(l) > 1)
  BY <1>3 DEF Restored
<1> QED BY <1>2, <1>3

Opens == page # "compose" /\ page' = "compose" /\ AtTop(form') /\ draft' = draft

LEMMA EnteringOpens ==
  ASSUME ScreenInv, DraftInv, EnterNew \/ OpenSelectedLink \/ EnterReply \/ EnterForward \/ ResumeDraft
  PROVE  Opens
<1>0. AtTop(Opened)
  BY OpenedAtTop
<1>1. ASSUME NEW f, Enter(f), AtTop(f) PROVE Opens
  BY <1>1 DEF Enter, Opens
<1>2. CASE EnterNew
  BY <1>0, <1>1, <1>2 DEF EnterNew
<1>3. CASE OpenSelectedLink
  <2> DEFINE new == [Opened.address EXCEPT !["To"] = Linked[detail.mail][detail.link]]
             g == [Opened EXCEPT !.address = new]
             h == [g EXCEPT !.field = "Subject"]
  <2>1. Enter(h)
    BY <1>3 DEF OpenSelectedLink
  <2> HIDE DEF new
  <2>2. AtTop(g)
    BY <1>0, TopOne
  <2> HIDE DEF g
  <2>3. AtTop(h)
    BY <2>2, TopOne
  <2> HIDE DEF h
  <2> QED BY <2>1, <2>3, <1>1
<1>4. CASE EnterReply
  <2> DEFINE new == [Opened.address EXCEPT !["To"] = Author[detail.mail]]
             lines == <<<<>>, <<>>>> \o Quotation[detail.mail]
             g == [Opened EXCEPT !.address = new]
             h == [g EXCEPT !.field = "Body"]
             k == [h EXCEPT !.lines = lines]
  <2>1. Enter(k)
    BY <1>4 DEF EnterReply
  <2>2. IsLines(lines)
    BY <1>4, QuotedLines DEF EnterReply, ScreenInv, OnScreen
  <2> HIDE DEF new, lines
  <2>3. AtTop(g)
    BY <1>0, TopOne
  <2> HIDE DEF g
  <2>4. AtTop(h)
    BY <2>3, TopOne
  <2> HIDE DEF h
  <2>5. AtTop(k)
    BY <2>2, <2>4, TopLines DEF IsLines
  <2> HIDE DEF k
  <2> QED BY <2>1, <2>5, <1>1
<1>5. CASE EnterForward
  <2> DEFINE lines == <<<<>>, <<>>>> \o Quotation[detail.mail]
             files == Enclosed[detail.mail]
             attached == [i \in DOMAIN files |-> [of |-> detail.mail, name |-> files[i]]]
             g == [Opened EXCEPT !.lines = lines]
             h == [g EXCEPT !.attached = attached]
  <2>1. Enter(h)
    BY <1>5 DEF EnterForward
  <2>2. IsLines(lines)
    BY <1>5, QuotedLines DEF EnterForward, ScreenInv, OnScreen
  <2> HIDE DEF lines, attached
  <2>3. AtTop(g)
    BY <1>0, <2>2, TopLines DEF IsLines
  <2> HIDE DEF g
  <2>4. AtTop(h)
    BY <2>3, TopOne
  <2> HIDE DEF h
  <2> QED BY <2>1, <2>4, <1>1
<1>6. CASE ResumeDraft
  <2> DEFINE from == draft.from
             address == draft.address
             lines == Restored(draft.lines)
             g == [Opened EXCEPT !.from = from]
             h == [g EXCEPT !.address = address]
             k == [h EXCEPT !.lines = lines]
             m == [k EXCEPT !.field = "Body"]
  <2>1. Enter(m)
    BY <1>6 DEF ResumeDraft
  <2>2. IsLines(lines)
    BY <1>6, RestoredLines DEF ResumeDraft, DraftInv
  <2> HIDE DEF from, address, lines
  <2>3. AtTop(g)
    BY <1>0, TopOne
  <2> HIDE DEF g
  <2>4. AtTop(h)
    BY <2>3, TopOne
  <2> HIDE DEF h
  <2>5. AtTop(k)
    BY <2>2, <2>4, TopLines DEF IsLines
  <2> HIDE DEF k
  <2>6. AtTop(m)
    BY <2>5, TopOne
  <2> HIDE DEF m
  <2> QED BY <2>1, <2>6, <1>1
<1> QED BY <1>2, <1>3, <1>4, <1>5, <1>6

\* The body of the form is a text at any time, an empty one while there is no form.
BodyInv == ComposeInv /\ IsBody(form) /\ (page # "compose" => form = Blank) /\ DraftInv

Closes == page = "compose" /\ page' # "compose" /\ form' = Blank
Stays == form' = form /\ (page' = page \/ (page # "compose" /\ page' # "compose"))
TextSteps ==
  \/ page = "compose" /\ page' = "compose" /\ IsBody(form') /\ Changes(form, form')
  \/ Opens \/ Closes \/ BodyStays \/ Stays

LEMMA BodySteps ==
  ASSUME BodyInv, [ComposeNextStep]_composeVars
  PROVE  TextSteps /\ (draft' = draft \/ (page = "compose" /\ draft' = DraftOf(form)))
<1> DEFINE Goal == TextSteps /\ (draft' = draft \/ (page = "compose" /\ draft' = DraftOf(form)))
<1>0. IsForm(form) /\ IsBody(form) /\ ScreenInv /\ DraftInv /\ (page # "compose" => form = Blank)
  BY DEF BodyInv, ComposeInv, FormsInv, FormInv
<1>1. CASE ShowsAnother
  <2>1. ASSUME NEW d, Shows(d) PROVE form' = form /\ page' = page /\ draft' = draft
    BY <2>1 DEF Shows, formVars
  <2>2. ASSUME NEW m, OpenDetail(m) PROVE form' = form /\ page # "compose" /\ page' # "compose" /\ draft' = draft
    BY <2>2 DEF OpenDetail, formVars
  <2>3. CASE CloseDetail
    BY <2>3 DEF CloseDetail, formVars, TextSteps, Stays
  <2>4. CASE LeaveMode \/ CycleMode \/ ToggleRawHeaders
    BY <2>1, <2>4 DEF LeaveMode, CycleMode, ToggleRawHeaders, TextSteps, Stays
  <2>5. ASSUME NEW by, OtherAttachment(by) \/ OtherLink(by) PROVE form' = form /\ page' = page /\ draft' = draft
    BY <2>1, <2>5 DEF OtherAttachment, OtherLink
  <2> QED BY <1>1, <2>2, <2>3, <2>4, <2>5 DEF ShowsAnother, TextSteps, Stays
<1>2. CASE UNCHANGED composeVars
  BY <1>2 DEF composeVars, formVars, TextSteps, Stays
<1>3. CASE BodyEdits
  <2>1. IsBody(form') /\ Changes(form, form') /\ page = "compose" /\ page' = page /\ draft' = draft
    BY <1>0, <1>3, EditText
  <2> QED BY <2>1 DEF TextSteps
<1>4. CASE OtherFields
  <2>1. BodyStays
    BY <1>0, <1>4, OtherFieldsStay
  <2> QED BY <2>1 DEF TextSteps, BodyStays
<1>5. CASE EnterNew \/ OpenSelectedLink \/ EnterReply \/ EnterForward \/ ResumeDraft
  <2>1. Opens
    BY <1>0, <1>5, EnteringOpens
  <2> QED BY <2>1 DEF TextSteps, Opens
<1>6. CASE CancelCompose
  BY <1>0, <1>6 DEF CancelCompose, Leave, ScreenInv, OnScreen, TextSteps, Closes
<1>7. CASE SendForm
  BY <1>0, <1>7 DEF SendForm, Leave, ScreenInv, OnScreen, TextSteps, Closes
<1>8. CASE StartAgain
  BY <1>0, <1>8 DEF StartAgain, TextSteps, Closes, Stays
<1>9. CASE WorkerSends
  BY <1>9 DEF WorkerSends, formVars, TextSteps, Stays
<1> QED BY <1>1, <1>2, <1>3, <1>4, <1>5, <1>6, <1>7, <1>8, <1>9 DEF ComposeNextStep, ShowsAnother, BodyEdits, CaretMoves, OtherFields

LEMMA SameBodyIsBody == ASSUME NEW f, SameBody(f), IsBody(form) PROVE IsBody(f) /\ TextOf(f) = TextOf(form) /\ CaretOf(f) = CaretOf(form)
  BY DEF SameBody, IsBody, TextOf, CaretOf

LEMMA BodyInvInit == ComposeInit => BodyInv
<1> SUFFICES ASSUME ComposeInit PROVE BodyInv
  OBVIOUS
<1>1. ComposeInv
  BY ScreenInit, FormsInit DEF ComposeInv
<1>2. form = Blank
  BY DEF ComposeInit
<1>3. IsBody(form)
  BY <1>2, BlankAtTop, TopIsBody
<1>4. DraftInv
  BY ComposeAssumption DEF ComposeInit, DraftInv, IsLines, Bodies
<1> QED BY <1>1, <1>2, <1>3, <1>4 DEF BodyInv

LEMMA BodyInvStep == ASSUME BodyInv, [ComposeNextStep]_composeVars PROVE BodyInv'
<1>1. ComposeInv'
  BY ComposeKeeps DEF BodyInv
<1>2. TextSteps /\ (draft' = draft \/ (page = "compose" /\ draft' = DraftOf(form)))
  BY BodySteps
<1>3. IsBody(form) /\ DraftInv /\ (page # "compose" => form = Blank)
  BY DEF BodyInv
<1>4. IsBody(form') /\ (page' # "compose" => form' = Blank)
  <2>1. CASE Opens
    BY <2>1, TopIsBody DEF Opens
  <2>2. CASE Closes
    BY <2>2, BlankAtTop, TopIsBody DEF Closes
  <2>3. CASE BodyStays
    BY <1>3, <2>3, SameBodyIsBody DEF BodyStays
  <2>4. CASE Stays
    BY <1>3, <2>4 DEF Stays
  <2> QED BY <1>2, <2>1, <2>2, <2>3, <2>4 DEF TextSteps
<1>5. DraftInv'
  <2>1. IsLines(DraftOf(form).lines)
    BY <1>3 DEF DraftOf, IsBody, IsLines
  <2>2. CASE draft' = draft
    BY <1>3, <2>2 DEF DraftInv
  <2>3. CASE draft' = DraftOf(form)
    BY <2>1, <2>3 DEF DraftInv
  <2> QED BY <1>2, <2>2, <2>3
<1> QED BY <1>1, <1>4, <1>5 DEF BodyInv

LEMMA BlankText == TextOf(Blank) = <<>> /\ CaretOf(Blank) = 0
<1>1. Told(<<<<>>>>) = <<LineBreak>>
  <2>1. <<>> \in Seq(Char)
    OBVIOUS
  <2>2. Told(<<<<>>>>) = <<>> \o <<LineBreak>>
    BY <2>1, ToldOne
  <2> QED BY <2>2
<1>2. Front(<<LineBreak>>) = <<>>
  BY DEF Front
<1>3. TextOf(Blank) = <<>>
  BY <1>1, <1>2, BlankAtTop DEF TextOf
<1> QED BY <1>3, BlankAtTop, TopIsBody

\* Every step of the form is a step of the text, or none.
LEMMA TextStep ==
  ASSUME BodyInv, [ComposeNextStep]_composeVars
  PROVE  [Editor!EditorNext]_(Editor!editorVars)
<1> DEFINE t == TextOf(form)
           k == CaretOf(form)
           u == TextOf(form')
           m == CaretOf(form')
<1>1. FlatText = t /\ FlatCaret = k /\ FlatText' = u /\ FlatCaret' = m
  BY DEF FlatText, FlatCaret, TextOf, CaretOf
<1>2. TextSteps
  BY BodySteps
<1>3. IsBody(form)
  BY DEF BodyInv
<1> HIDE DEF t, k, u, m
<1>4. CASE page = "compose" /\ page' = "compose" /\ IsBody(form') /\ Changes(form, form')
  <2>1. Typed(t, k, u, m) \/ ErasedBefore(t, k, u, m) \/ ErasedAfter(t, k, u, m) \/ Moved(t, u, m)
    BY <1>4 DEF Changes, t, k, u, m
  <2>2. CASE Typed(t, k, u, m)
    <3>1. Editor!Type
      BY <1>1, <2>2 DEF Typed, Editor!Type, Editor!Before, Editor!After
    <3> QED BY <1>4, <3>1 DEF Editor!EditorNext
  <2>3. CASE ErasedBefore(t, k, u, m)
    <3>1. Editor!EraseBefore
      BY <1>1, <2>3 DEF ErasedBefore, Editor!EraseBefore, Editor!Before, Editor!After
    <3> QED BY <1>4, <3>1 DEF Editor!EditorNext
  <2>4. CASE ErasedAfter(t, k, u, m)
    <3>1. Editor!EraseAfter
      BY <1>1, <2>4 DEF ErasedAfter, Editor!EraseAfter, Editor!Before, Editor!After
    <3> QED BY <1>4, <3>1 DEF Editor!EditorNext
  <2>5. CASE Moved(t, u, m)
    <3>1. Editor!Move
      BY <1>1, <2>5 DEF Moved, Editor!Move
    <3> QED BY <1>4, <3>1 DEF Editor!EditorNext
  <2> QED BY <2>1, <2>2, <2>3, <2>4, <2>5
<1>5. CASE Opens
  <2>1. u \in Texts /\ m = 0
    BY <1>5, TopIsBody DEF Opens, u, m
  <2>2. Editor!Open
    BY <1>1, <1>5, <2>1 DEF Opens, Editor!Open, Texts
  <2> QED BY <2>2 DEF Editor!EditorNext
<1>6. CASE Closes
  <2>1. u = <<>> /\ m = 0
    BY <1>6, BlankText DEF Closes, u, m
  <2>2. Editor!Close
    BY <1>1, <1>6, <2>1 DEF Closes, Editor!Close
  <2> QED BY <2>2 DEF Editor!EditorNext
<1>7. CASE BodyStays \/ Stays
  <2>1. u = t /\ m = k /\ (page' = "compose") = (page = "compose")
    BY <1>3, <1>7, SameBodyIsBody DEF BodyStays, Stays, t, k, u, m
  <2> QED BY <1>1, <2>1 DEF Editor!editorVars
<1> QED BY <1>2, <1>4, <1>5, <1>6, <1>7 DEF TextSteps

\* Whatever is opened, quoted or taken up again, and however lines are split and
\* joined and the caret goes from one to another: the body is one text with a caret in it.
THEOREM BodiesAreTexts == ComposeSpec => BodyIsText
<1>1. ComposeInit => Editor!EditorInit
  <2> SUFFICES ASSUME ComposeInit PROVE Editor!EditorInit
    OBVIOUS
  <2>1. form = Blank /\ page = "list"
    BY DEF ComposeInit
  <2>2. FlatText = <<>> /\ FlatCaret = 0
    BY <2>1, BlankText DEF FlatText, FlatCaret, TextOf, CaretOf
  <2> QED BY <2>1, <2>2 DEF Editor!EditorInit
<1> QED BY <1>1, BodyInvInit, BodyInvStep, TextStep, PTL DEF ComposeSpec, BodyIsText

=============================================================================
