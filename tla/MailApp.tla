------------------------------- MODULE MailApp -------------------------------
(***************************************************************************)
(* jamail: the state of the mail screen (app.rs), its keys and its         *)
(* handling of what jamaild reports (bin/jamail.rs), over the rows of the  *)
(* mail cache (db.rs) that jamaild changes behind its back.                *)
(*                                                                         *)
(* A message of the cache is a positive id, never given twice; a message   *)
(* of the Drafts or Sent list is shown under the negative of its own. The  *)
(* list on screen is a copy of the rows it was loaded from, conversations  *)
(* are places in that list with counts of their own, and the cursor is a   *)
(* number of a row. What a message says, how it is composed and sent       *)
(* (module Outbox), links, attachments and all that only draws are left    *)
(* out; a page is longer than any list here.                               *)
(***************************************************************************)
EXTENDS MailThreads

CONSTANTS
  Account,       \* accounts, numbered in their order
  Inbox,         \* the number of the folder INBOX: folders are numbered by name
  Box,           \* [ids of the cache -> Account \X Nat] account and folder
  AtFirst,       \* ids in the cache at the start
  Drafted,       \* drafts at the start
  Available,     \* [Account -> set of folders] on the server
  Configured,    \* [Account -> Seq of folders]; <<>>: none configured
  ShowUnlisted,  \* accounts with show_unlisted_folders
  BatchSize,     \* messages fetched and stored together
  EveryNth,      \* of how many messages stored jamail reads its list again
  MaxDeeds       \* bound: keys that do more than move, what jamaild does and what fails, together

Mail == {m \in Email : m > 0}
Local == Email \ Mail
NoId == 0

ASSUME MailAppAssumption ==
  /\ Account \subseteq Nat /\ Inbox \in Nat
  /\ AtFirst \subseteq Mail /\ Drafted \subseteq Local
  /\ IsFiniteSet(AtFirst) /\ IsFiniteSet(Drafted)
  /\ BatchSize \in Nat \ {0} /\ EveryNth \in Nat \ {0}
  /\ \A m \in Mail : Box[m][1] \in Account /\ Box[m][2] \in Available[Box[m][1]]

VARIABLES
  table,     \* emails: id -> [unread, flagged]
  local,     \* local_messages: id -> "draft" or "sent"
  given,     \* ids given so far (AUTOINCREMENT)
  ahead,     \* ids stored by a pass that has not ended: above the UID of sync_state
  pass,      \* [Account -> the pass of jamaild over a folder]
  events,    \* what jamaild told, first to be handled first
  pane,      \* emails, threaded_view, thread_mode, selected
  place,     \* current_account and current_folder, is_global_inbox, virtual_folder
  messages,  \* local_messages of the app: ids, as listed when the folder was loaded
  view,      \* view, and compose_previous_view; "Gone" after a panic
  detail,    \* detail_id, whether detail is there, detail_from_search; due:
             \* enqueue_mark_seen is still to come
  search,    \* search_results and search_selected
  tree,      \* folder_tree, folder_tree_selected, folder_tree_expanded
  folders,   \* account_folders: those heard of
  deeds,     \* what was done so far
  opened, asked, \* history: messages whose text was shown; those MarkSeen named
  missed,        \* history: since the list was read, a change was left untold
  failed         \* history: the virtual folder on screen could not be read

cached == <<table, given, ahead>>
store == <<cached, local>>
screen == <<pane, place, messages, view, detail, search>>
folderVars == <<tree, folders>>
history == <<opened, asked, missed, failed>>
mailVars == <<store, pass, events, screen, folderVars, deeds, history>>

Deed == deeds < MaxDeeds /\ deeds' = deeds + 1

-----------------------------------------------------------------------------
(* The list: [emails, threads, expanded, threaded, sel]. Rows are counted  *)
(* from 1; a row is <<thread, 0>>, or <<thread, n>> for its n-th message.  *)

Ids(emails) == [i \in DOMAIN emails |-> emails[i].id]

Unread(emails, at) == Cardinality({k \in DOMAIN at : emails[at[k]].unread})
Flagged(emails, at) == \E k \in DOMAIN at : emails[at[k]].flagged

BuildThreads(emails) ==
  LET ids == Ids(emails)
      groups == Conversations(ids)
  IN [t \in DOMAIN groups |->
        [id |-> ThreadId(ids, groups[t]), at |-> groups[t],
         unread |-> Unread(emails, groups[t]), flagged |-> Flagged(emails, groups[t])]]

\* rebuild_rows
Rows(p) ==
  FlattenSeq([t \in DOMAIN p.threads |->
    LET n == IF p.threads[t].id \in p.expanded THEN Len(p.threads[t].at) ELSE 0
    IN [k \in 1 .. (n + 1) |-> <<t, k - 1>>]])

ListLen(p) == IF p.threaded THEN Len(Rows(p)) ELSE Len(p.emails)

\* The message a row stands for: a conversation stands for its newest.
MessageOf(p, row) ==
  p.emails[p.threads[row[1]].at[IF row[2] = 0 THEN 1 ELSE row[2]]].id

SelectedIn(p) ==
  IF p.sel \notin 1 .. ListLen(p) THEN NoId
  ELSE IF p.threaded THEN MessageOf(p, Rows(p)[p.sel]) ELSE p.emails[p.sel].id

SelectedEmail == SelectedIn(pane)

\* load_virtual_folder failed: the conversations of the list before point nowhere.
Hollow(p) == p.emails = <<>> /\ p.threads # <<>>

\* The selected row has no message: looking for it is a panic.
Breaks(p) == Hollow(p) /\ p.threaded /\ p.sel \in DOMAIN Rows(p)

First(S) == CHOOSE i \in S : \A j \in S : i <= j

MoveTo(p, S) == IF S = {} THEN p ELSE [p EXCEPT !.sel = First(S)]

InThread(p, t, id) == \E k \in DOMAIN p.threads[t].at : p.emails[p.threads[t].at[k]].id = id

\* The rows where a cursor that was on message id may be put again: in a list
\* of conversations the first that has to do with it.
RowsOf(p, id) ==
  IF p.threaded
  THEN LET rows == Rows(p) IN
       {r \in DOMAIN rows : IF rows[r][2] = 0 THEN InThread(p, rows[r][1], id)
                                              ELSE MessageOf(p, rows[r]) = id}
  ELSE {i \in DOMAIN p.emails : p.emails[i].id = id}

Clamped(p) ==
  IF p.sel > ListLen(p) /\ ListLen(p) > 0 THEN [p EXCEPT !.sel = ListLen(p)] ELSE p

\* Mutant of Refreshed: the number of the row is kept.
RefreshedInPlace(p, emails) ==
  Clamped([p EXCEPT !.emails = emails, !.threads = BuildThreads(emails)])

\* refresh_emails, of the emails read.
Refreshed(p, emails) ==
  LET new == [p EXCEPT !.emails = emails, !.threads = BuildThreads(emails)]
  IN Clamped(IF SelectedIn(p) = NoId THEN new ELSE MoveTo(new, RowsOf(new, SelectedIn(p))))

\* A message opened: read in the list, and its conversation counted again.
Seen(p, id) ==
  LET emails == [i \in DOMAIN p.emails |->
        IF p.emails[i].id = id THEN [p.emails[i] EXCEPT !.unread = FALSE] ELSE p.emails[i]]
  IN [p EXCEPT !.emails = emails,
               !.threads = [t \in DOMAIN p.threads |->
                  IF InThread(p, t, id)
                  THEN [p.threads[t] EXCEPT !.unread = Unread(emails, p.threads[t].at)]
                  ELSE p.threads[t]]]

\* update_selected_for_id: its conversation is unfolded, the cursor put on it.
OnMessage(p, id) ==
  LET holding == {t \in DOMAIN p.threads : InThread(p, t, id)}
      folded == {t \in holding : t = First(holding) /\ Len(p.threads[t].at) > 1}
      shown == IF p.threaded
               THEN [p EXCEPT !.expanded = @ \cup {p.threads[t].id : t \in folded}] ELSE p
      rows == Rows(shown)
  IN MoveTo(shown,
       IF p.threaded
       THEN {r \in DOMAIN rows :
               /\ rows[r][2] = 0 => Len(shown.threads[rows[r][1]].at) = 1
               /\ MessageOf(shown, rows[r]) = id}
       ELSE {i \in DOMAIN p.emails : p.emails[i].id = id})

-----------------------------------------------------------------------------
(* Reading the cache *)

ByDate(S) == NewestFirst(S, Date)

Listed(S) ==
  LET seq == ByDate(S) IN
  [i \in DOMAIN seq |-> [id |-> seq[i], unread |-> table[seq[i]].unread, flagged |-> table[seq[i]].flagged]]

InBox(box) == {m \in DOMAIN table : Box[m] = box}

\* What refresh_emails reads: the virtual folder is not looked at.
Query(pl) ==
  IF pl.global THEN Listed({m \in DOMAIN table : Box[m][2] = Inbox}) ELSE Listed(InBox(pl.box))

LocalOf(loc, folder) ==
  {d \in DOMAIN loc : loc[d] = IF folder = "Drafts" THEN "draft" ELSE "sent"}

\* load_virtual_folder: the rows become emails of the list.
LoadVirtual(p, loc, folder) ==
  LET ids == ByDate(LocalOf(loc, folder))
      emails == [i \in DOMAIN ids |->
                   [id |-> ids[i], unread |-> folder # "Sent", flagged |-> FALSE]]
  IN [p EXCEPT !.emails = emails, !.threads = BuildThreads(emails), !.sel = 1]

\* The read fails: the rows are dropped, the conversations are not.
LoadFails(p) == [p EXCEPT !.emails = <<>>]

-----------------------------------------------------------------------------
(* The folder tree *)

ByName(S) == SetToSortSeq(S, LAMBDA f, g : f < g)

InboxFirst(S) ==
  IF Inbox \in S THEN <<Inbox>> \o ByName(S \ {Inbox}) ELSE ByName(S)

\* order_folders
OrderFolders(a, available) ==
  IF Configured[a] = <<>> THEN InboxFirst(available)
  ELSE LET seq == Configured[a]
           once == {i \in DOMAIN seq : \A j \in 1 .. (i - 1) : seq[j] # seq[i]}
           named == ToSet(seq)
           kept == SetToSortSeq({i \in once : seq[i] \in available}, LAMBDA i, j : i < j)
       IN [k \in DOMAIN kept |-> seq[kept[k]]]
            \o (IF a \in ShowUnlisted THEN InboxFirst(available \ named) ELSE <<>>)

\* The rows of the tree; a row is what Enter opens, or an account, or loading.
TreeRows(expanded, known) ==
  LET accounts == ByName(Account)
      under(a) == IF a \notin expanded THEN <<>>
                  ELSE IF a \notin DOMAIN known \/ known[a] = {} THEN <<<<"loading", a, 0>>>>
                  ELSE LET fs == OrderFolders(a, known[a])
                       IN [i \in DOMAIN fs |-> <<"folder", a, fs[i]>>]
  IN <<<<"virtual", "Drafts", 0>>, <<"virtual", "Sent", 0>>>>
       \o (IF Cardinality(Account) > 1 THEN <<<<"global", 0, 0>>>> ELSE <<>>)
       \o FlattenSeq([i \in DOMAIN accounts |->
            <<<<"account", accounts[i], 0>>>> \o under(accounts[i])])

\* rebuild_folder_tree: the cursor follows its row; a loading row has no name.
Rebuilt(t, expanded, known) ==
  LET rows == TreeRows(expanded, known)
      at == {r \in DOMAIN rows : /\ t.sel \in DOMAIN t.rows /\ rows[r] = t.rows[t.sel]
                                 /\ rows[r][1] # "loading"}
  IN [rows |-> rows, expanded |-> expanded, sel |-> IF at = {} THEN 1 ELSE First(at)]

-----------------------------------------------------------------------------
NoPass == [at |-> "idle", box |-> <<0, 0>>, todo |-> {}, batch |-> {}, total |-> 0, done |-> 0,
           count |-> 0, changed |-> FALSE]

NoDetail == [id |-> NoId, open |-> FALSE, found |-> FALSE, due |-> FALSE]

FirstPane ==
  LET emails == Query([box |-> <<1, Inbox>>, global |-> FALSE, virtual |-> ""])
  IN [emails |-> emails, threads |-> BuildThreads(emails), expanded |-> {}, threaded |-> TRUE, sel |-> 1]

MailInit ==
  /\ table = [m \in AtFirst |-> [unread |-> TRUE, flagged |-> FALSE]]
  /\ given = AtFirst /\ ahead = {} /\ local = [d \in Drafted |-> "draft"]
  /\ pass = [a \in Account |-> NoPass]
  /\ events = <<>> /\ messages = <<>>
  /\ place = [box |-> <<1, Inbox>>, global |-> FALSE, virtual |-> ""]
  /\ pane = FirstPane
  /\ view = [at |-> "List", back |-> "List"]
  /\ detail = NoDetail
  /\ search = [results |-> <<>>, sel |-> 1]
  /\ tree = [rows |-> <<>>, sel |-> 1, expanded |-> {1}]
  /\ folders = <<>>
  /\ deeds = 0 /\ opened = {} /\ asked = {} /\ missed = FALSE /\ failed = FALSE

In(v) == view.at = v
Show(v) == view' = [view EXCEPT !.at = v]

-----------------------------------------------------------------------------
(* What jamaild does to the cache, a commit at a time, and what it tells.  *)

\* Whether an event of a box is one of the list on screen.
Concerns(box) == box = place.box \/ (place.global /\ box[2] = Inbox)

\* Progress, FolderComplete and FlagsChanged; done and total count messages.
Progress(box, done, total) == [kind |-> "Progress", box |-> box, done |-> done, total |-> total]
FolderComplete(box, count) == [kind |-> "FolderComplete", box |-> box, done |-> count, total |-> count]
FlagsChanged(box) == [kind |-> "FlagsChanged", box |-> box, done |-> 0, total |-> 0]

\* Whether jamail reads the list again for it, if it concerns the list.
Heard(e) ==
  /\ e.kind = "Progress" => e.done % EveryNth = 0 \/ e.done = e.total
  /\ e.kind = "FolderComplete" => e.done > 0

Behind == UNCHANGED <<local, screen, folderVars, opened, asked, failed>>
Tells(es) == events' = events \o es
Becomes(a, j) == pass' = [pass EXCEPT ![a] = j]

\* What the pass changed and will not be told any more.
Untold(a) == missed' = (missed \/ (pass[a].changed /\ Concerns(pass[a].box)))

\* What arrived in a folder, in twos at most.
Coming(box) == {m \in Mail \ given : Box[m] = box}
AtMostTwo(S) == {{}} \cup {{m, n} : m, n \in S}

\* A pass over a folder begins: of a mailbox that was replaced the rows go; what a
\* pass that failed had stored counts among the new messages. Where nothing is and
\* nothing comes, nothing would be told.
Begins(a, box, replaced, new) ==
  LET old == InBox(box) IN
  /\ old \cup new # {} /\ (replaced => old # {})
  /\ table' = IF replaced THEN [n \in DOMAIN table \ old |-> table[n]] ELSE table
  /\ ahead' = IF replaced THEN ahead \ old ELSE ahead
  /\ Becomes(a, [NoPass EXCEPT !.at = "fetch", !.box = box, !.todo = new, !.changed = replaced,
                    !.total = Cardinality(new) + Cardinality(ahead' \cap old)])

\* sync_folder
SyncFolder(a) ==
  /\ Deed /\ pass[a].at = "idle"
  /\ \E f \in Available[a], replaced \in BOOLEAN :
       \E new \in AtMostTwo(Coming(<<a, f>>)) : Begins(a, <<a, f>>, replaced, new)
  /\ UNCHANGED <<given, events, missed>> /\ Behind

\* A batch is fetched, highest UID first, which is any order of the ids to come;
\* Progress goes out before it is committed.
FetchRawBatch(a) ==
  /\ pass[a].at = "fetch" /\ pass[a].todo # {}
  /\ \E batch \in SUBSET pass[a].todo :
       LET done == pass[a].done + Cardinality(batch) IN
       /\ Cardinality(batch) = BatchSize \/ (batch = pass[a].todo /\ Cardinality(batch) < BatchSize)
       /\ Becomes(a, [pass[a] EXCEPT !.at = "commit", !.batch = batch, !.todo = @ \ batch, !.done = done])
       /\ Tells(<<Progress(pass[a].box, done, pass[a].total)>>)
  /\ UNCHANGED <<cached, deeds, missed>> /\ Behind

CommitBatch(a) ==
  LET batch == pass[a].batch IN
  /\ pass[a].at = "commit"
  /\ table' = [n \in DOMAIN table \cup batch |->
                 IF n \in batch THEN [unread |-> TRUE, flagged |-> FALSE] ELSE table[n]]
  /\ given' = given \cup batch /\ ahead' = ahead \cup batch
  /\ Becomes(a, [pass[a] EXCEPT !.at = "fetch", !.batch = {}, !.count = @ + Cardinality(batch),
                               !.changed = TRUE])
  /\ UNCHANGED <<events, deeds, missed>> /\ Behind

\* Mutant of Complete: the last that was stored is not counted.
CompleteOneLess(a) ==
  /\ pass[a].at = "fetch" /\ pass[a].todo = {}
  /\ Tells(<<FolderComplete(pass[a].box, IF pass[a].count = 0 THEN 0 ELSE pass[a].count - 1)>>)
  /\ \E at \in {"flags", "idle"} :
       Becomes(a, IF at = "idle" THEN NoPass ELSE [NoPass EXCEPT !.at = at, !.box = pass[a].box])
  /\ ahead' = {m \in ahead : Box[m] # pass[a].box}
  /\ IF pass[a].count = 0 THEN Untold(a) ELSE UNCHANGED missed
  /\ UNCHANGED <<table, given, deeds>> /\ Behind

\* The pass over the folder ends; a folder that was emptied is not told. The flags
\* are next, in the folder on screen or when it is time.
Complete(a) ==
  LET j == pass[a] IN
  /\ j.at = "fetch" /\ j.todo = {}
  /\ Tells((IF j.done < j.total THEN <<Progress(j.box, j.total, j.total)>> ELSE <<>>)
            \o <<FolderComplete(j.box, j.count)>>)
  /\ \E at \in {"flags", "idle"} :
       Becomes(a, IF at = "idle" THEN NoPass ELSE [NoPass EXCEPT !.at = at, !.box = j.box])
  /\ ahead' = {m \in ahead : Box[m] # j.box}
  /\ IF j.count = 0 THEN Untold(a) ELSE UNCHANGED missed
  /\ UNCHANGED <<table, given, deeds>> /\ Behind

\* sync_flags: messages that went elsewhere are removed,
SyncFlags(a) ==
  /\ pass[a].at = "flags"
  /\ \E gone \in {{}} \cup {{m} : m \in {n \in DOMAIN table : Box[n] = pass[a].box}} :
       /\ table' = [n \in DOMAIN table \ gone |-> table[n]]
       /\ ahead' = ahead \ gone
       /\ IF gone = {} THEN UNCHANGED deeds ELSE Deed
       /\ Becomes(a, [pass[a] EXCEPT !.at = "update", !.changed = gone # {}])
  /\ UNCHANGED <<given, events, missed>> /\ Behind

\* flags that differ are written, row by row,
WriteFlags(a) ==
  /\ Deed /\ pass[a].at = "update"
  /\ \E m \in DOMAIN table :
       /\ Box[m] = pass[a].box
       /\ \/ table' = [table EXCEPT ![m].unread = ~@]
          \/ table' = [table EXCEPT ![m].flagged = ~@]
  /\ Becomes(a, [pass[a] EXCEPT !.changed = TRUE])
  /\ UNCHANGED <<given, ahead, events, missed>> /\ Behind

\* and then it is told.
TellFlags(a) ==
  /\ pass[a].at = "update"
  /\ Tells(IF pass[a].changed THEN <<FlagsChanged(pass[a].box)>> ELSE <<>>)
  /\ Becomes(a, NoPass)
  /\ UNCHANGED <<cached, deeds, missed>> /\ Behind

\* The server or the cache fails: an Error is told, which changes no list.
PassFails(a) ==
  /\ Deed /\ pass[a].at # "idle"
  /\ Becomes(a, NoPass)
  /\ Untold(a)
  /\ UNCHANGED <<cached, events>> /\ Behind

\* jamaild is gone for a while: what it would have told is lost.
Disconnects ==
  /\ Deed /\ events # <<>>
  /\ events' = <<>> /\ missed' = TRUE
  /\ UNCHANGED <<cached, pass>> /\ Behind

-----------------------------------------------------------------------------
(* What jamail hears *)

OnEvent ==
  LET e == Head(events)
      reads == Heard(e) /\ Concerns(e.box)
  IN
  /\ events # <<>>
  /\ reads => ~Breaks(pane)
  /\ events' = Tail(events)
  /\ pane' = IF reads THEN Refreshed(pane, Query(place)) ELSE pane
  /\ missed' = (missed /\ ~reads)
  /\ failed' = (failed /\ ~reads)
  /\ UNCHANGED <<store, pass, place, messages, view, detail, search, folderVars, deeds, opened, asked>>

\* FoldersLoaded: more folders, or fewer, than were known.
OnFoldersLoaded ==
  /\ Deed
  /\ \E a \in Account : \E fs \in {Available[a], Available[a] \ {Inbox}} :
       folders' = [b \in DOMAIN folders \cup {a} |-> IF b = a THEN fs ELSE folders[b]]
  /\ tree' = IF In("FolderSelect") THEN Rebuilt(tree, tree.expanded, folders') ELSE tree
  /\ UNCHANGED <<store, pass, events, screen, history>>

\* load_virtual_folder, of the rows there then are.
Loads(rows, folder) ==
  \/ /\ pane' = LoadVirtual(pane, rows, folder)
     /\ messages' = ByDate(LocalOf(rows, folder))
     /\ failed' = FALSE
  \/ pane' = LoadFails(pane) /\ messages' = <<>> /\ failed' = TRUE

\* A message was sent: its row goes to Sent, and the virtual folder on screen
\* is read again from its first row.
OnSendResult ==
  /\ Deed
  /\ \E d \in LocalOf(local, "Drafts") :
       /\ local' = [local EXCEPT ![d] = "sent"]
       /\ IF place.virtual # "" THEN Loads(local', place.virtual) ELSE UNCHANGED <<pane, messages, failed>>
  /\ UNCHANGED <<cached, pass, events, place, view, detail, search, folderVars, opened, asked, missed>>

-----------------------------------------------------------------------------
(* The list *)

Moved(p) ==
  /\ In("List") /\ pane' = p
  /\ UNCHANGED <<store, pass, events, place, messages, view, detail, search, folderVars, deeds, history>>

MoveUp == Moved([pane EXCEPT !.sel = IF @ > 1 THEN @ - 1 ELSE @])
MoveDown == Moved([pane EXCEPT !.sel = IF @ < ListLen(pane) THEN @ + 1 ELSE @])
GoHome == Moved([pane EXCEPT !.sel = 1])
GoEnd == Moved([pane EXCEPT !.sel = IF ListLen(pane) > 0 THEN ListLen(pane) ELSE @])

Summaries == {r \in DOMAIN Rows(pane) : Rows(pane)[r][2] = 0}

NextThread ==
  /\ pane.threaded
  /\ Moved(MoveTo(pane, {r \in Summaries : r > pane.sel}))

\* prev_thread looks at every row above the cursor, which may be below the list.
PrevPanics == pane.sel > Len(Rows(pane)) + 1

\* To the head of the conversation, or the one before.
PrevThread ==
  LET before == {r \in Summaries : r < pane.sel} IN
  /\ pane.threaded /\ ~PrevPanics
  /\ Moved(IF before = {} THEN pane
           ELSE [pane EXCEPT !.sel = CHOOSE r \in before : \A s \in before : s <= r])

\* toggle_thread_expand: folded from one of its messages, the cursor stays at
\* its number, which may now be below the list.
ToggleExpand ==
  /\ pane.threaded /\ pane.sel \in DOMAIN Rows(pane)
  /\ LET row == Rows(pane)[pane.sel]
         thread == pane.threads[row[1]]
         p == [pane EXCEPT !.expanded = IF thread.id \in @ THEN @ \ {thread.id} ELSE @ \cup {thread.id}]
     IN /\ Len(thread.at) > 1
        /\ In("List") /\ Deed
        /\ pane' = IF row[2] = 0
                   THEN MoveTo(p, {r \in DOMAIN Rows(p) : Rows(p)[r] = row}) ELSE p
  /\ UNCHANGED <<store, pass, events, place, messages, view, detail, search, folderVars, history>>

ToggleThreadMode ==
  /\ In("List") /\ Deed /\ ~Breaks(pane)
  /\ LET p == [pane EXCEPT !.threaded = ~@]
     IN pane' = Clamped(IF SelectedEmail = NoId THEN p ELSE MoveTo(p, RowsOf(p, SelectedEmail)))
  /\ UNCHANGED <<store, pass, events, place, messages, view, detail, search, folderVars, history>>

-----------------------------------------------------------------------------
(* Reading a message *)

\* enqueue_mark_seen, the end of the keys that open a message: the request needs
\* the row. Without one nothing was opened, and the one opened before is marked again.
MarkOpened ==
  /\ detail.due
  /\ asked' = asked \cup ({detail.id} \cap DOMAIN table)
  /\ detail' = [detail EXCEPT !.due = FALSE]
  /\ UNCHANGED <<store, pass, events, pane, place, messages, view, search, folderVars, deeds,
                 opened, missed, failed>>

\* open_detail_by_id. Every conversation is looked at for the message.
OpenById(p, id) ==
  IF id \in DOMAIN table
  THEN /\ ~Hollow(p)
       /\ table' = [table EXCEPT ![id].unread = FALSE]
       /\ pane' = OnMessage(Seen(p, id), id)
       /\ detail' = [detail EXCEPT !.id = id, !.open = TRUE, !.due = TRUE]
       /\ opened' = opened \cup {id}
  ELSE /\ pane' = p
       /\ detail' = [detail EXCEPT !.due = TRUE]
       /\ UNCHANGED <<table, opened>>

\* Enter on a list of messages, or on a result: detail_from_search is set
\* whether or not the message is there.
OpenDetail ==
  LET id == IF In("Search") THEN search.results[search.sel].id ELSE SelectedEmail
      opens == id \in DOMAIN table IN
  /\ Deed
  /\ \/ In("Search") /\ search.results # <<>>
     \/ In("List") /\ place.virtual # "Drafts" /\ ~Breaks(pane)
  /\ opens => ~Hollow(pane)
  /\ table' = IF opens THEN [table EXCEPT ![id].unread = FALSE] ELSE table
  /\ pane' = IF opens THEN OnMessage(Seen(pane, id), id) ELSE pane
  /\ detail' = [id |-> IF opens THEN id ELSE detail.id, open |-> opens \/ detail.open,
                found |-> In("Search"), due |-> TRUE]
  /\ opened' = IF opens THEN opened \cup {id} ELSE opened
  /\ IF opens THEN Show("Detail") ELSE UNCHANGED view
  /\ UNCHANGED <<local, given, ahead, pass, events, place, messages, search, folderVars, asked, missed, failed>>

CloseDetail ==
  /\ In("Detail")
  /\ Show(IF detail.found THEN "Search" ELSE "List")
  /\ detail' = [detail EXCEPT !.open = FALSE, !.found = FALSE]
  /\ UNCHANGED <<store, pass, events, pane, place, messages, search, folderVars, deeds, history>>

\* prev_in_list, next_in_list: the cursor moves, and what it is then on is opened.
StepInList ==
  /\ In("Detail") /\ Deed
  /\ \E s \in {pane.sel - 1, pane.sel + 1} :
       /\ 1 <= s /\ (s > pane.sel => s <= ListLen(pane))
       /\ LET p == [pane EXCEPT !.sel = s] IN
          /\ ~Breaks(p)
          /\ OpenById(p, SelectedIn(p))
  /\ UNCHANGED <<local, given, ahead, pass, events, place, messages, view, search, folderVars, asked, missed,
                 failed>>

\* The other messages of its conversation; the message may be gone from the list.
StepInThread ==
  /\ In("Detail") /\ Deed /\ ~Hollow(pane)
  /\ \E t \in DOMAIN pane.threads, k \in {-1, 1} :
       LET at == pane.threads[t].at IN
       \E i \in DOMAIN at : /\ pane.emails[at[i]].id = detail.id /\ i + k \in DOMAIN at
                            /\ OpenById(pane, pane.emails[at[i + k]].id)
  /\ UNCHANGED <<local, given, ahead, pass, events, place, messages, view, search, folderVars, asked, missed,
                 failed>>

Starred(p, id, on) ==
  LET emails == [i \in DOMAIN p.emails |->
        IF p.emails[i].id = id THEN [p.emails[i] EXCEPT !.flagged = on] ELSE p.emails[i]]
  IN [p EXCEPT !.emails = emails,
               !.threads = [t \in DOMAIN p.threads |->
                  [p.threads[t] EXCEPT !.flagged = Flagged(emails, p.threads[t].at)]]]

\* toggle_star, on the copies loaded first: the cache follows the copy shown.
ToggleStar ==
  LET id == IF In("Detail") THEN detail.id ELSE SelectedEmail
      copies == pane.emails \o search.results
      at == {i \in DOMAIN copies : copies[i].id = id}
      on == ~copies[First(at)].flagged IN
  /\ (In("Detail") \/ In("List")) /\ Deed /\ ~Hollow(pane)
  /\ id > 0 /\ at # {}
  /\ table' = IF id \in DOMAIN table THEN [table EXCEPT ![id].flagged = on] ELSE table
  /\ pane' = Starred(pane, id, on)
  /\ search' = [search EXCEPT !.results = [i \in DOMAIN search.results |->
       IF search.results[i].id = id THEN [search.results[i] EXCEPT !.flagged = on] ELSE search.results[i]]]
  /\ UNCHANGED <<local, given, ahead, pass, events, place, messages, view, detail, folderVars, history>>

-----------------------------------------------------------------------------
(* Searching: the current account and folder, whatever is on screen. *)

EnterSearch ==
  /\ In("List") /\ Deed
  /\ Show("Search")
  /\ search' = [results |-> <<>>, sel |-> 1]
  /\ UNCHANGED <<store, pass, events, pane, place, messages, detail, folderVars, history>>

\* Enter with no results yet; a key typed drops those there are.
ExecuteSearch ==
  /\ In("Search") /\ search.results = <<>>
  /\ search' = [results |-> Listed(InBox(place.box)), sel |-> 1]
  /\ UNCHANGED <<store, pass, events, pane, place, messages, view, detail, folderVars, deeds, history>>

SearchInput ==
  /\ In("Search") /\ search.results # <<>>
  /\ search' = [search EXCEPT !.results = <<>>]
  /\ UNCHANGED <<store, pass, events, pane, place, messages, view, detail, folderVars, deeds, history>>

SearchMove ==
  /\ In("Search")
  /\ \E s \in {search.sel - 1, search.sel + 1} :
       /\ 1 <= s /\ (s > search.sel => s <= Len(search.results))
       /\ search' = [search EXCEPT !.sel = s]
  /\ UNCHANGED <<store, pass, events, pane, place, messages, view, detail, folderVars, deeds, history>>

ExitSearch ==
  /\ In("Search")
  /\ Show("List")
  /\ search' = [search EXCEPT !.results = <<>>]
  /\ UNCHANGED <<store, pass, events, pane, place, messages, detail, folderVars, deeds, history>>

-----------------------------------------------------------------------------
(* Folders *)

EnterFolderSelect ==
  /\ In("List") /\ Deed
  /\ Show("FolderSelect")
  /\ tree' = Rebuilt(tree, tree.expanded \cup {place.box[1]}, folders)
  /\ UNCHANGED <<store, pass, events, pane, place, messages, detail, search, folders, history>>

LeaveFolderSelect ==
  /\ In("FolderSelect")
  /\ Show("List")
  /\ UNCHANGED <<store, pass, events, pane, place, messages, detail, search, folderVars, deeds, history>>

FolderMove ==
  /\ In("FolderSelect")
  /\ \E s \in {tree.sel - 1, tree.sel + 1} :
       s \in DOMAIN tree.rows /\ tree' = [tree EXCEPT !.sel = s]
  /\ UNCHANGED <<store, pass, events, screen, folders, deeds, history>>

\* Tab, or Enter on an account.
ToggleAccount ==
  /\ In("FolderSelect") /\ Deed
  /\ LET row == tree.rows[tree.sel] IN
     /\ row[1] = "account"
     /\ tree' = Rebuilt(tree, IF row[2] \in tree.expanded THEN tree.expanded \ {row[2]}
                                                          ELSE tree.expanded \cup {row[2]}, folders)
  /\ UNCHANGED <<store, pass, events, screen, folders, history>>

SelectFolder ==
  LET row == tree.rows[tree.sel] IN
  /\ In("FolderSelect")
  /\ row[1] \in {"virtual", "global", "folder"}
  /\ Show("List")
  /\ IF row[1] = "virtual"
     THEN \E folder \in {"Drafts", "Sent"} :
          /\ row[2] = folder
          /\ place' = [place EXCEPT !.virtual = folder, !.global = FALSE]
          /\ Loads(local, folder)
          /\ IF failed' THEN Deed ELSE UNCHANGED deeds
          /\ missed' = missed
     ELSE /\ ~Breaks(pane)
          /\ place' = [box |-> IF row[1] = "global" THEN place.box ELSE <<row[2], row[3]>>,
                       global |-> row[1] = "global", virtual |-> ""]
          /\ messages' = <<>>
          /\ pane' = [Refreshed(pane, Query(place')) EXCEPT !.sel = 1]
          /\ missed' = FALSE /\ failed' = FALSE
          /\ UNCHANGED deeds
  /\ UNCHANGED <<store, pass, events, detail, search, folderVars, opened, asked>>

-----------------------------------------------------------------------------
(* Drafts *)

\* Enter in Drafts: the row of the copy with the number of the cursor.
ResumeDraft ==
  /\ In("List") /\ place.virtual = "Drafts" /\ Deed
  /\ pane.sel \in DOMAIN messages
  /\ view' = [at |-> "Compose", back |-> "List"]
  /\ UNCHANGED <<store, pass, events, pane, place, messages, detail, search, folderVars, history>>

ComposeNew ==
  /\ (In("List") \/ In("Detail")) /\ Deed
  /\ view' = [at |-> "Compose", back |-> view.at]
  /\ UNCHANGED <<store, pass, events, pane, place, messages, detail, search, folderVars, history>>

\* Ctrl+S: a new row; the list is not read again.
SaveDraft ==
  /\ In("Compose") /\ Deed
  /\ \E d \in Local \ DOMAIN local :
       local' = [n \in DOMAIN local \cup {d} |-> IF n = d THEN "draft" ELSE local[n]]
  /\ UNCHANGED <<cached, pass, events, screen, folderVars, history>>

CancelCompose ==
  /\ In("Compose")
  /\ view' = [at |-> view.back, back |-> "List"]
  /\ UNCHANGED <<store, pass, events, pane, place, messages, detail, search, folderVars, deeds, history>>

\* Ctrl+D in Drafts
DeleteDraft ==
  /\ In("List") /\ place.virtual = "Drafts" /\ Deed
  /\ pane.sel \in DOMAIN messages
  /\ LET d == messages[pane.sel] IN
     /\ local' = IF d \in LocalOf(local, "Drafts")
                 THEN [n \in DOMAIN local \ {d} |-> local[n]] ELSE local
     /\ Loads(local', "Drafts")
  /\ UNCHANGED <<cached, pass, events, place, view, detail, search, folderVars, opened, asked, missed>>

-----------------------------------------------------------------------------
\* A panic ends jamail: prev_thread above; or the list was not read, and something
\* looks for a message through the conversations that were left (selected_email at
\* the next event or choice of a folder, open_detail, toggle_star).
Panics ==
  /\ ~In("Gone")
  /\ Hollow(pane) \/ (In("List") /\ pane.threaded /\ PrevPanics)
  /\ Show("Gone")
  /\ UNCHANGED <<store, pass, events, pane, place, messages, detail, search, folderVars, deeds, history>>

\* jamail is started again.
Starts ==
  /\ In("Gone")
  /\ events' = <<>> /\ messages' = <<>>
  /\ place' = [box |-> <<1, Inbox>>, global |-> FALSE, virtual |-> ""]
  /\ pane' = FirstPane
  /\ view' = [at |-> "List", back |-> "List"]
  /\ detail' = NoDetail
  /\ search' = [results |-> <<>>, sel |-> 1]
  /\ tree' = [rows |-> <<>>, sel |-> 1, expanded |-> {1}]
  /\ folders' = <<>>
  /\ missed' = FALSE /\ failed' = FALSE
  /\ UNCHANGED <<store, pass, deeds, opened, asked>>

-----------------------------------------------------------------------------
Pass(a) ==
  \/ SyncFolder(a) \/ FetchRawBatch(a) \/ CommitBatch(a) \/ Complete(a)
  \/ SyncFlags(a) \/ WriteFlags(a) \/ TellFlags(a) \/ PassFails(a)

Daemon == (\E a \in Account : Pass(a)) \/ Disconnects

News == OnEvent \/ OnFoldersLoaded \/ OnSendResult

Keys ==
  \/ MoveUp \/ MoveDown \/ GoHome \/ GoEnd \/ NextThread \/ PrevThread
  \/ ToggleExpand \/ ToggleThreadMode
  \/ OpenDetail \/ CloseDetail \/ StepInList \/ StepInThread \/ ToggleStar
  \/ EnterSearch \/ ExecuteSearch \/ SearchInput \/ SearchMove \/ ExitSearch
  \/ EnterFolderSelect \/ LeaveFolderSelect \/ FolderMove \/ ToggleAccount \/ SelectFolder
  \/ ResumeDraft \/ ComposeNew \/ SaveDraft \/ CancelCompose \/ DeleteDraft

MailNext ==
  \/ Daemon \/ MarkOpened
  \/ ~detail.due /\ (Panics \/ Starts)
  \/ ~detail.due /\ ~In("Gone") /\ (News \/ Keys)

MailSpec == MailInit /\ [][MailNext]_mailVars

-----------------------------------------------------------------------------
(* What the mail screen promises while jamaild changes the cache. *)

\* The conversations on screen are those of the list on screen: their numbers
\* point into it, each message is in one of them, and the counts kept by hand
\* when a message is read or starred are those a rebuild would give
\* (toggle_star, open_detail, open_detail_by_id, refresh_emails). Not so once a
\* virtual folder could not be read, until a list is read again.
ThreadsAgree == ~failed => pane.threads = BuildThreads(pane.emails)

\* An event after which the list is read again is still to be handled.
Pending == \E i \in DOMAIN events : Heard(events[i]) /\ Concerns(events[i].box)

\* A pass has changed the folder shown, and has not ended.
Underway == \E a \in Account : pass[a].changed /\ Concerns(pass[a].box)

\* The list shows what the cache holds of the folder chosen, with the flags it
\* has there, once every pass that changed it is over and what was told of it is
\* handled: no key, of the list, of a message opened from the list or from a
\* search, leaves a copy behind, and no event is passed over that told of a
\* change (handle_sync_event, sync_folder, toggle_star, open_detail). What no
\* event tells is excepted until the list is next read: a pass that failed after
\* a commit, a folder that was emptied and not filled again, events lost with
\* the connection.
ListIsCache ==
  (place.virtual = "" /\ ~Pending /\ ~Underway /\ ~missed) => pane.emails = Query(place)

\* The messages jamaild is asked to mark as seen are those whose text the user
\* was shown: not the one under the cursor, nor the one a failed open was
\* about (enqueue_mark_seen reads detail_id); and each of them is, the one just
\* opened once the key is done, unless its row is gone by then.
SeenIsOpened ==
  /\ asked \subseteq opened
  /\ \A m \in (opened \ asked) \cap DOMAIN table : detail.due /\ m = detail.id

\* What jamail shows of the mail is true, and what it tells jamaild was read is what was read.
ScreenIsTrue == ListIsCache /\ ThreadsAgree /\ SeenIsOpened

\* When jamaild changes the list, the cursor stays on the message it was on,
\* or on a row of the conversation that holds it, as long as it is in the list
\* ("Restore selection by ID" in refresh_emails).
CursorStays ==
  [][(OnEvent /\ ~failed /\ SelectedEmail \in ToSet(Ids(pane'.emails))) =>
       /\ pane'.sel \in 1 .. ListLen(pane')
       /\ IF pane.threaded THEN InThread(pane', Rows(pane')[pane'.sel][1], SelectedEmail)
                           ELSE pane'.emails[pane'.sel].id = SelectedEmail]_mailVars

\* When the folders of an account become known, or accounts are folded, the
\* cursor of the folder tree stays on the row it was on if that is still there:
\* Enter opens the folder that was chosen (rebuild_folder_tree).
TreeCursorStays ==
  [][(In("FolderSelect") /\ (OnFoldersLoaded \/ ToggleAccount) /\ tree.rows[tree.sel][1] # "loading") =>
       \/ tree'.rows[tree'.sel] = tree.rows[tree.sel]
       \/ tree.rows[tree.sel] \notin ToSet(tree'.rows)]_mailVars

\* Both of these.
CursorsStay == CursorStays /\ TreeCursorStays
=============================================================================
