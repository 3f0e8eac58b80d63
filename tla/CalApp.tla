------------------------------- MODULE CalApp -------------------------------
(***************************************************************************)
(* jacal: the state of the calendar screen (calapp.rs), its keys and its   *)
(* reloads (bin/jacal.rs), over the rows of the calendar cache (db.rs)     *)
(* that jamaild changes behind its back.                                   *)
(*                                                                         *)
(* Days are numbers, weeks, months and years have WeekDays, MonthDays and  *)
(* YearMonths * MonthDays of them. An event keeps its hour and length for  *)
(* life and may be moved to another day. The screen works on copies:       *)
(* "loaded" are the rows of the period on screen at the last reload,       *)
(* "invites" the invitations at the last full one; dialogs hold what they  *)
(* captured when they were opened. Left out: recurring events, colours,    *)
(* texts and times of the form, and everything that only draws.            *)
(***************************************************************************)
EXTENDS Integers, Sequences, FiniteSets

CONSTANTS
  Cal,         \* the calendars of the account, numbered in their order
  Known,       \* the events in the cache at the start, as a sequence
  Fresh,       \* those still to come
  Hour,        \* [Uid -> Nat] the hour an event starts
  AllDay, Over,\* all-day events, and events that end the next day
  Home,        \* [Uid -> Cal \X Nat] calendar and day of an event of the server
  Part,        \* our part in a pulled event: "org", "asked", "yes", "no", "none"
  Guest,       \* addresses the user may put on a guest list
  WeekDays, MonthDays, YearMonths, LastDay, Today,
  West,        \* 1 west of Greenwich: an all-day event starts on the day before, local time
  HistoryMax,  \* VIEW_HISTORY_MAX
  MaxId,       \* bound: row ids
  MaxActs      \* bound: moves on screen, dialogs and changes by jamaild together

NoId == 0
NoCal == 0
New == "new"     \* the uid shown for an event not yet created
None == "none"

KnownUid == {Known[i] : i \in DOMAIN Known}
Uid == KnownUid \cup Fresh

ASSUME CalAppAssumption ==
  /\ Cal \subseteq Nat \ {NoCal} /\ KnownUid \cap Fresh = {}
  /\ Known \in Seq(KnownUid)
  /\ AllDay \cup Over \subseteq Uid /\ Hour \in [Uid -> Nat] /\ Home \in [Uid -> Cal \X Nat]
  /\ Part \in [Uid -> {"org", "asked", "yes", "no", "none"}]
  /\ {WeekDays, MonthDays, YearMonths, HistoryMax} \subseteq Nat \ {0}
  /\ WeekDays <= MonthDays
  /\ Today \in 0 .. LastDay /\ West \in {0, 1}

VARIABLES
  rows,     \* calendar_events: id -> [uid, cal, day, part, guests, status]
  offered,  \* calendars: the calendars of the last discovery
  pos,      \* view, anchor, focused_date, event_cursor
  history,  \* view_history
  mode,     \* mode
  pending,  \* pending_delete, pending_rsvp: what the prompt is about
  draft,    \* draft: the form
  editor,   \* attendee_editor: the participants dialog
  yank,     \* yanked: the calendar of the copied event, or NoCal
  visible,    \* calendars: calendar -> visible
  prefs,    \* calendar_prefs: calendar -> visible, for those the user set
  file,     \* the same, in the config file
  declined, \* show_declined
  loaded,   \* all_events, and the period they were read for
  invites,  \* invitations and invitation_cursor
  focusId,  \* pending_focus_id
  acts,     \* moves, dialogs and changes so far
  hidden,   \* history: calendars the user hid and has not shown again
  lastId    \* sqlite_sequence: the last row id given; none is given again

cacheVars == <<rows, offered, lastId>>
screen == <<pos, history, focusId>>
dialog == <<mode, pending, draft, editor, yank>>
settings == <<visible, prefs, file, declined, hidden>>
appVars == <<cacheVars, screen, dialog, settings, loaded, invites, acts>>

Days == 0 .. LastDay
Ids == 1 .. MaxId
Views == <<"Year", "Month", "Week", "ThreeDay", "Day", "Event">>
Columnar == {"Week", "ThreeDay", "Day", "Event"}
Level(v) == CHOOSE i \in 1 .. Len(Views) : Views[i] = v

-----------------------------------------------------------------------------
(* Periods *)

StartOfWeek(d) == d - (d % WeekDays)

StartOfMonth(d) == d - (d % MonthDays)

AddMonths(d, k) == StartOfMonth(d) + k * MonthDays

YearDays == MonthDays * YearMonths

\* First day on screen and first day after it, in a view anchored at a day.
VisibleRange(v, a) ==
  CASE v \in {"Day", "Event"} -> <<a, a + 1>>
    [] v = "ThreeDay" -> <<a, a + 3>>
    [] v = "Week" -> <<StartOfWeek(a), StartOfWeek(a) + WeekDays>>
    [] v = "Month" -> <<StartOfMonth(a), AddMonths(a, 1)>>
    [] v = "Year" -> <<a - (a % YearDays), a - (a % YearDays) + YearDays>>

\* The month view also draws the days that complete its weeks.
MonthGrid(a) ==
  LET next == AddMonths(a, 1)
  IN <<StartOfWeek(StartOfMonth(a)), next + ((WeekDays - (next % WeekDays)) % WeekDays)>>

DisplayedRange(p) ==
  IF p.view = "Month" THEN MonthGrid(p.anchor) ELSE VisibleRange(p.view, p.anchor)

\* The period before (k = -1) or after (k = 1): next_period, prev_period.
Period(p, k) ==
  [p EXCEPT !.anchor =
     CASE p.view \in {"Day", "Event"} -> p.anchor + k
       [] p.view = "ThreeDay" -> p.anchor + 3 * k
       [] p.view = "Week" -> p.anchor + WeekDays * k
       [] p.view = "Month" -> AddMonths(p.anchor, k)
       [] p.view = "Year" -> p.anchor - (p.anchor % YearDays) + YearDays * k]

\* One period towards day d, unless it is on screen.
Toward(d, p) ==
  LET r == DisplayedRange(p)
  IN IF d < r[1] THEN Period(p, -1) ELSE IF d >= r[2] THEN Period(p, 1) ELSE p

\* Move the focus to day d, and the period with it. The code tries 64 times;
\* no key moves the day by more than four periods.
SetFocusedDate(p, d) ==
  Toward(d, Toward(d, Toward(d, Toward(d, [p EXCEPT !.focus = d, !.cursor = 0]))))

SwitchView(p, v) ==
  [p EXCEPT !.cursor = IF v \in Columnar /\ p.view \in Columnar THEN @ ELSE 0,
            !.view = v, !.anchor = p.focus]

OnScale(p) == p.anchor \in Days /\ p.focus \in Days

-----------------------------------------------------------------------------
(* Events on screen *)

LastDayOf(r) == IF r.uid \in Over THEN r.day + 1 ELSE r.day

\* get_calendar_events_in_range
InRange(from, to) ==
  {i \in DOMAIN rows : rows[i].status # "delete" /\ rows[i].day < to /\ LastDayOf(rows[i]) >= from}

IsVisible(vis, c) == c \in DOMAIN vis => vis[c]

\* refilter: the loaded rows the settings leave on screen.
Events(evs, vis, dec) ==
  {i \in DOMAIN evs : IsVisible(vis, evs[i].cal) /\ (dec \/ evs[i].part # "no")}

\* Lexicographic order of two tuples of the same length.
Less(a, b) == \E n \in 1 .. Len(a) : a[n] < b[n] /\ \A m \in 1 .. (n - 1) : a[m] = b[m]

\* The order on screen: all-day events first, then by start, the ids last.
Before(evs, i, j) ==
  LET key(k) == <<IF evs[k].uid \in AllDay THEN 0 ELSE 1, evs[k].day, Hour[evs[k].uid], k>>
  IN Less(key(i), key(j))

\* event_indices_for(focused_date): the first day on screen also shows the
\* timed events that started earlier.
OnFocus(p, evs, vis, dec) ==
  {i \in Events(evs, vis, dec) :
     \/ evs[i].day = p.focus
     \/ evs[i].uid \in AllDay /\ evs[i].day <= p.focus /\ p.focus <= LastDayOf(evs[i])
     \/ evs[i].uid \notin AllDay /\ p.focus = DisplayedRange(p)[1] /\ evs[i].day <= p.focus}

Place(i, evs, S) == Cardinality({j \in S : Before(evs, j, i)})

SelectedIn(p, evs, vis, dec) ==
  LET S == OnFocus(p, evs, vis, dec)
  IN IF \E i \in S : Place(i, evs, S) = p.cursor
     THEN CHOOSE i \in S : Place(i, evs, S) = p.cursor ELSE NoId

Selected == SelectedIn(pos, loaded.rows, visible, declined)

\* The cursor and the pending focus after refilter.
Refilter(p, evs, vis, dec, fid) ==
  LET S == OnFocus(p, evs, vis, dec)
      at == IF fid \in S THEN Place(fid, evs, S) ELSE p.cursor
      last == Cardinality(S) - 1
  IN [pos |-> [p EXCEPT !.cursor = IF S = {} THEN 0 ELSE IF at > last THEN last ELSE at],
      fid |-> IF fid \in S THEN NoId ELSE fid]

Show(p, evs, vis, dec, fid) ==
  LET r == Refilter(p, evs, vis, dec, fid)
  IN pos' = r.pos /\ focusId' = r.fid

\* reload_events, on the rows rs.
ReloadFrom(rs, S, p, vis, fid) ==
  LET range == DisplayedRange(p)
      evs == [i \in S |-> rs[i]]
  IN /\ loaded' = [range |-> range, rows |-> evs]
     /\ Show(p, evs, vis, declined, fid)

ReloadEvents(p) ==
  LET r == DisplayedRange(p) IN ReloadFrom(rows, InRange(r[1], r[2]), p, visible, focusId)

\* The same after a write by jacal itself: the rows are those just written.
ReloadWritten ==
  LET r == DisplayedRange(pos)
      S == {i \in DOMAIN rows' : /\ rows'[i].status # "delete"
                                 /\ rows'[i].day < r[2] /\ LastDayOf(rows'[i]) >= r[1]}
  IN ReloadFrom(rows', S, pos, visible, focusId)

\* Mutant of Listed: the config is not asked.
ListedAnew(cals, known, saved) == [c \in cals |-> IF c \in DOMAIN known THEN known[c] ELSE TRUE]

\* set_calendars: what is known keeps its setting, then the config decides.
Listed(cals, known, saved) ==
  [c \in cals |-> IF c \in DOMAIN known THEN known[c] ELSE IF c \in DOMAIN saved THEN saved[c] ELSE TRUE]

SetCalendars == Listed(offered, visible, prefs)

\* set_invitations: the unanswered first, then by start.
Invitations(rs) ==
  [i \in {j \in DOMAIN rs : rs[j].status # "delete" /\ rs[j].part \in {"asked", "yes", "no"}} |-> rs[i]]

InviteBefore(list, i, j) ==
  LET key(k) == <<IF list[k].part = "asked" THEN 0 ELSE 1, list[k].day, Hour[list[k].uid], k>>
  IN Less(key(i), key(j))

InvitationAt(inv) ==
  LET S == DOMAIN inv.list
      place(i) == Cardinality({j \in S : InviteBefore(inv.list, j, i)})
  IN IF \E i \in S : place(i) = inv.cursor THEN CHOOSE i \in S : place(i) = inv.cursor ELSE NoId

ReloadInvitations(rs) ==
  LET list == Invitations(rs) n == Cardinality(DOMAIN list)
  IN invites' = [list |-> list,
                 cursor |-> IF invites.cursor < n THEN invites.cursor ELSE IF n = 0 THEN 0 ELSE n - 1]

-----------------------------------------------------------------------------
(* Start: main of jacal *)

Act == acts < MaxActs /\ acts' = acts + 1

NewPos == [view |-> "Week", anchor |-> Today, focus |-> Today, cursor |-> 0]

\* A fresh CalApp over the rows, with the settings of the config file.
Started(rs, cals, saved) ==
  LET r == DisplayedRange(NewPos)
      list == Invitations(rs)
      evs == [i \in {j \in DOMAIN rs : /\ rs[j].status # "delete"
                                       /\ rs[j].day < r[2] /\ LastDayOf(rs[j]) >= r[1]} |-> rs[i]]
  IN [visible |-> Listed(cals, <<>>, saved),
      loaded |-> [range |-> r, rows |-> evs],
      invites |-> [list |-> list, cursor |-> 0]]

Row(u) == [uid |-> u, cal |-> Home[u][1], day |-> Home[u][2], part |-> Part[u],
           guests |-> {}, status |-> "synced"]

AppInit ==
  /\ rows = [i \in DOMAIN Known |-> Row(Known[i])]
  /\ offered = Cal
  /\ lastId = Len(Known) /\ hidden = {}
  /\ pos = NewPos /\ history = <<>> /\ focusId = NoId
  /\ mode = "Browse" /\ pending = None /\ draft = None /\ editor = None /\ yank = NoCal
  /\ prefs = <<>> /\ file = <<>> /\ declined = TRUE
  /\ LET app == Started(rows, Cal, <<>>)
     IN visible = app.visible /\ loaded = app.loaded /\ invites = app.invites
  /\ acts = 0

\* q, and jacal started again.
Restart ==
  /\ mode = "Browse" /\ Act
  /\ LET app == Started(rows, offered, file)
     IN visible' = app.visible /\ loaded' = app.loaded /\ invites' = app.invites
  /\ prefs' = file
  /\ pos' = NewPos /\ history' = <<>> /\ focusId' = NoId /\ yank' = NoCal
  /\ UNCHANGED <<cacheVars, mode, pending, draft, editor, file, declined, hidden>>

-----------------------------------------------------------------------------
(* jamaild, between two statements of jacal *)

NewId == lastId + 1

Uids == {rows[i].uid : i \in DOMAIN rows}

Insert(r) ==
  /\ NewId \in Ids
  /\ rows' = [i \in DOMAIN rows \cup {NewId} |-> IF i = NewId THEN r ELSE rows[i]]
  /\ lastId' = NewId

Without(S) == [i \in DOMAIN rows \ S |-> rows[i]]

Behind == UNCHANGED <<screen, dialog, settings, loaded, invites>>

PullNew ==
  /\ Act
  /\ \E u \in Uid \ Uids : Home[u][1] \in offered /\ Insert(Row(u))
  /\ UNCHANGED offered /\ Behind

PullMoved ==
  /\ Act
  /\ \E i \in DOMAIN rows : /\ rows[i].status = "synced"
                            /\ rows' = [rows EXCEPT ![i].day = @ + 1]
  /\ UNCHANGED <<offered, lastId>> /\ Behind

PullGone ==
  /\ Act
  /\ \E i \in DOMAIN rows : rows[i].status = "synced" /\ rows' = Without({i})
  /\ UNCHANGED <<offered, lastId>> /\ Behind

\* A write of jacal reached the server.
Pushed ==
  /\ \E i \in DOMAIN rows :
       \/ rows[i].status = "create" /\ rows' = [rows EXCEPT ![i].status = "synced"]
       \/ rows[i].status = "delete" /\ rows' = Without({i})
  /\ UNCHANGED <<offered, lastId, acts>> /\ Behind

\* prune_calendars_not_in: a calendar is gone, with its rows.
CalendarGone ==
  /\ Act
  /\ \E c \in offered : /\ offered' = offered \ {c}
                        /\ rows' = Without({i \in DOMAIN rows : rows[i].cal = c})
  /\ UNCHANGED <<lastId>> /\ Behind

CalendarBack ==
  /\ Act
  /\ \E c \in Cal \ offered : offered' = offered \cup {c}
  /\ UNCHANGED <<rows, lastId>> /\ Behind

-----------------------------------------------------------------------------
(* Reloads, in any mode *)

\* CalendarSynced, Connected: reload_calendars, then reload_events.
OnSynced ==
  /\ visible' = SetCalendars
  /\ LET r == DisplayedRange(pos) IN ReloadFrom(rows, InRange(r[1], r[2]), pos, SetCalendars, focusId)
  /\ UNCHANGED <<cacheVars, history, dialog, prefs, file, declined, hidden, invites, acts>>

\* CalendarMutationApplied, CalendarMutationConflict.
OnApplied ==
  /\ ReloadEvents(pos)
  /\ UNCHANGED <<cacheVars, history, dialog, settings, invites, acts>>

\* Every CALENDAR_RELOAD_INTERVAL.
Periodic ==
  /\ visible' = SetCalendars
  /\ LET r == DisplayedRange(pos) IN ReloadFrom(rows, InRange(r[1], r[2]), pos, SetCalendars, focusId)
  /\ ReloadInvitations(rows)
  /\ UNCHANGED <<cacheVars, history, dialog, prefs, file, declined, hidden, acts>>

-----------------------------------------------------------------------------
(* Keys that move: handle_browse_key *)

Key == mode = "Browse" /\ UNCHANGED <<cacheVars, dialog, settings, invites>>

Pushed1(h) == IF Len(h) > HistoryMax THEN Tail(h) ELSE h

PushHistory == history' = Pushed1(Append(history, pos))

\* Land on p and read the rows of the period it shows.
Go(p) == OnScale(p) /\ ReloadEvents(p)

Horizontal ==
  /\ Key /\ Act
  /\ \E k \in {-1, 1} :
       LET d == IF pos.view = "Year" THEN AddMonths(pos.focus, k) ELSE pos.focus + k
       IN d \in Days /\ Go(SetFocusedDate(pos, d))
  /\ UNCHANGED history

Vertical ==
  /\ Key /\ Act
  /\ \E k \in {-1, 1} :
       IF pos.view \in Columnar
       THEN LET n == Cardinality(OnFocus(pos, loaded.rows, visible, declined))
                c == pos.cursor + k
            IN Go([pos EXCEPT !.cursor = IF n = 0 THEN @ ELSE IF c < 0 THEN 0 ELSE IF c >= n THEN n - 1 ELSE c])
       ELSE LET d == IF pos.view = "Year" THEN AddMonths(pos.focus, 4 * k) ELSE pos.focus + WeekDays * k
            IN d \in Days /\ Go(SetFocusedDate(pos, d))
  /\ UNCHANGED history

JumpPeriod ==
  /\ Key /\ Act
  /\ \E k \in {-1, 1} :
       LET p == Period(pos, k) IN Go([p EXCEPT !.focus = p.anchor, !.cursor = 0])
  /\ UNCHANGED history

GotoToday ==
  /\ Key /\ Act
  /\ Go([pos EXCEPT !.anchor = Today, !.focus = Today, !.cursor = 0])
  /\ UNCHANGED history

\* Tab and Shift+Tab, one view narrower or wider.
StepView ==
  /\ Key /\ Act
  /\ \E k \in {-1, 1} :
       LET n == Level(pos.view) + k
       IN n \in DOMAIN Views /\ PushHistory /\ Go(SwitchView(pos, Views[n]))

\* Enter: zoom_in.
ZoomIn ==
  /\ Key /\ Act
  /\ pos.view # "Event"
  /\ PushHistory
  /\ Go(SwitchView(pos, CASE pos.view = "Year" -> "Month"
                          [] pos.view = "Month" -> "Day"
                          [] pos.view \in {"Week", "ThreeDay"} -> IF Selected # NoId THEN "Event" ELSE "Day"
                          [] pos.view = "Day" -> "Event"))

\* Esc, no copy held: go_back.
GoBack ==
  /\ Key /\ yank = NoCal /\ history # <<>>
  /\ history' = SubSeq(history, 1, Len(history) - 1)
  /\ ReloadEvents(history[Len(history)])
  /\ UNCHANGED acts

DropYank ==
  /\ mode = "Browse" /\ yank # NoCal /\ yank' = NoCal
  /\ UNCHANGED <<cacheVars, screen, mode, pending, draft, editor, settings, loaded, invites, acts>>

-----------------------------------------------------------------------------
(* Settings *)

\* record_pref and persist_calendar_prefs: the config file is written with
\* the settings at once.
TogglePanel ==
  /\ mode \in {"Browse", "Calendars"} /\ Act
  /\ \E c \in DOMAIN visible :
       LET vis == [visible EXCEPT ![c] = ~@] IN
       /\ visible' = vis
       /\ prefs' = [d \in DOMAIN prefs \cup {c} |-> IF d = c THEN vis[c] ELSE prefs[d]]
       /\ hidden' = IF vis[c] THEN hidden \ {c} ELSE hidden \cup {c}
       /\ Show(pos, loaded.rows, vis, declined, focusId)
  /\ file' = prefs'
  /\ UNCHANGED <<cacheVars, history, dialog, declined, loaded, invites>>

ToggleDeclined ==
  /\ mode = "Calendars" /\ declined' = ~declined
  /\ file' = prefs
  /\ Show(pos, loaded.rows, visible, ~declined, focusId)
  /\ UNCHANGED <<cacheVars, history, dialog, visible, prefs, hidden, loaded, invites, acts>>

Steady == UNCHANGED <<cacheVars, screen, settings, loaded, invites>>

OpenPanel ==
  /\ mode = "Browse" /\ Act /\ mode' = "Calendars"
  /\ Steady /\ UNCHANGED <<pending, draft, editor, yank>>

ClosePanel ==
  /\ mode \in {"Calendars", "Invitations"} /\ mode' = "Browse"
  /\ Steady /\ UNCHANGED <<pending, draft, editor, yank, acts>>

-----------------------------------------------------------------------------
(* Prompts: what they are about is captured when they open *)

Named(i) == [id |-> i, name |-> loaded.rows[i].uid]

BeginDelete ==
  /\ mode = "Browse" /\ Act /\ Selected # NoId
  /\ pending' = Named(Selected) /\ mode' = "ConfirmDelete"
  /\ Steady /\ UNCHANGED <<draft, editor, yank>>

Answers == {"yes", "no"}
Invited(r) == r.part \in {"asked", "yes", "no"}

BeginRsvp ==
  /\ mode = "Browse" /\ Act /\ Selected # NoId /\ Invited(loaded.rows[Selected])
  /\ pending' = Named(Selected) /\ mode' = "Rsvp"
  /\ Steady /\ UNCHANGED <<draft, editor, yank>>

CancelPrompt ==
  /\ mode \in {"ConfirmDelete", "Rsvp"}
  /\ pending' = None /\ mode' = "Browse"
  /\ Steady /\ UNCHANGED <<draft, editor, yank, acts>>

\* mark_calendar_event_pending_delete
MarkDeleted(i) ==
  IF rows[i].status = "create" THEN rows' = Without({i})
  ELSE rows' = [rows EXCEPT ![i].status = "delete"]

\* The write failed for want of a row, or was made and the screen reloaded.
Written(i, Write) ==
  IF i \in DOMAIN rows THEN Write /\ ReloadWritten
  ELSE UNCHANGED <<rows, loaded, pos, focusId>>

\* Mutant of ConfirmDelete: about the event under the cursor.
ConfirmDeleteSelected ==
  /\ mode = "ConfirmDelete"
  /\ pending' = None /\ mode' = "Browse"
  /\ Written(Selected, MarkDeleted(Selected))
  /\ UNCHANGED <<offered, lastId, history, draft, editor, yank, settings, invites, acts>>

\* y in the delete prompt, about the event the prompt was opened for.
ConfirmDelete ==
  /\ mode = "ConfirmDelete"
  /\ pending' = None /\ mode' = "Browse"
  /\ Written(pending.id, MarkDeleted(pending.id))
  /\ UNCHANGED <<offered, lastId, history, draft, editor, yank, settings, invites, acts>>

\* apply_local_calendar_edit: an edit of a row takes it out of deletion.
Edited(i, f) == [rows EXCEPT ![i] = [f EXCEPT !.status = IF @ = "create" THEN @ ELSE "synced"]]

\* Our ATTENDEE line is rewritten, where there is one.
Answered(i, a) ==
  rows' = Edited(i, IF Invited(rows[i]) THEN [rows[i] EXCEPT !.part = a] ELSE rows[i])

\* a, t, d in the prompt: apply_rsvp, which also reloads the invitations.
Answer ==
  /\ mode = "Rsvp"
  /\ pending' = None /\ mode' = "Browse"
  /\ \E a \in Answers : Written(pending.id, Answered(pending.id, a))
  /\ IF pending.id \in DOMAIN rows THEN ReloadInvitations(rows') ELSE UNCHANGED invites
  /\ UNCHANGED <<offered, lastId, history, draft, editor, yank, settings, acts>>

-----------------------------------------------------------------------------
(* The invitations panel *)

OpenInvitations ==
  /\ mode = "Browse" /\ Act /\ mode' = "Invitations"
  /\ LET n == Cardinality(DOMAIN invites.list)
     IN invites' = [invites EXCEPT !.cursor = IF @ < n THEN @ ELSE IF n = 0 THEN 0 ELSE n - 1]
  /\ UNCHANGED <<cacheVars, screen, pending, draft, editor, yank, settings, loaded>>

InvitationsMove ==
  /\ mode = "Invitations" /\ DOMAIN invites.list # {}
  /\ invites' = [invites EXCEPT !.cursor = (@ + 1) % Cardinality(DOMAIN invites.list)]
  /\ UNCHANGED <<cacheVars, screen, dialog, settings, loaded, acts>>

\* a, t, d: the highlighted invitation is answered without a prompt.
AnswerInvitation ==
  /\ mode = "Invitations" /\ InvitationAt(invites) # NoId
  /\ LET i == InvitationAt(invites) IN
     /\ \E a \in Answers : Written(i, Answered(i, a))
     /\ IF i \in DOMAIN rows THEN ReloadInvitations(rows') ELSE UNCHANGED invites
  /\ Act
  /\ UNCHANGED <<offered, lastId, history, dialog, settings>>

\* local_date_of the start of a row.
LocalDay(r) == IF r.uid \in AllDay THEN r.day - West ELSE r.day

\* Enter: jump_to_selected_invitation looks for the event among the rows
\* still loaded, then the day's rows are read.
JumpToInvitation ==
  /\ mode = "Invitations" /\ InvitationAt(invites) # NoId
  /\ LET i == InvitationAt(invites)
         d == LocalDay(invites.list[i])
         p == [view |-> "Event", anchor |-> d, focus |-> d, cursor |-> 0]
         first == Refilter(p, loaded.rows, visible, declined, i)
         r == DisplayedRange(first.pos)
     IN d \in Days /\ ReloadFrom(rows, InRange(r[1], r[2]), first.pos, visible, first.fid)
  /\ PushHistory /\ mode' = "Browse"
  /\ UNCHANGED <<cacheVars, pending, draft, editor, yank, settings, invites, acts>>

-----------------------------------------------------------------------------
(* The form *)

\* begin_create: the first visible calendar, or none.
DefaultCalendar ==
  LET vis == {c \in DOMAIN visible : visible[c]}
  IN IF vis = {} THEN NoCal ELSE CHOOSE c \in vis : \A d \in vis : c <= d

Form(i, name, cal, day, guests) ==
  [id |-> i, name |-> name, cal |-> cal, day |-> day, guests |-> guests, touched |-> FALSE]

BeginCreate ==
  /\ mode = "Browse" /\ Act /\ DOMAIN visible # {}
  /\ draft' = Form(NoId, New, DefaultCalendar, pos.focus, {}) /\ mode' = "Create"
  /\ Steady /\ UNCHANGED <<pending, editor, yank>>

BeginEdit ==
  /\ mode = "Browse" /\ Act /\ Selected # NoId
  /\ LET r == loaded.rows[Selected]
     IN draft' = Form(Selected, r.uid, r.cal, r.day, r.guests)
  /\ mode' = "Edit"
  /\ Steady /\ UNCHANGED <<pending, editor, yank>>

\* y: the copy is the finished form, on the calendar of its original.
YankSelected ==
  /\ mode = "Browse" /\ Act /\ Selected # NoId
  /\ yank' = loaded.rows[Selected].cal
  /\ Steady /\ UNCHANGED <<mode, pending, draft, editor>>

PasteYanked ==
  /\ mode = "Browse" /\ Act /\ DOMAIN visible # {} /\ yank # NoCal /\ pos.view # "Year"
  /\ draft' = Form(NoId, New, yank, pos.focus, {}) /\ mode' = "Create"
  /\ Steady /\ UNCHANGED <<pending, editor, yank>>

InForm == mode \in {"Create", "Edit"} /\ UNCHANGED <<cacheVars, screen, settings, loaded, invites, acts, pending, yank>>

\* Left and Right on the calendar field, for a new event only.
CycleCalendar ==
  /\ InForm /\ draft.id = NoId /\ DOMAIN visible # {}
  /\ LET vis == {c \in DOMAIN visible : visible[c]}
     IN \E c \in IF vis = {} THEN DOMAIN visible ELSE vis : draft' = [draft EXCEPT !.cal = c]
  /\ UNCHANGED <<mode, editor>>

TypeDate ==
  /\ InForm
  /\ \E d \in {pos.focus, pos.focus + 1} \cap Days : draft' = [draft EXCEPT !.day = d]
  /\ UNCHANGED <<mode, editor>>

CancelForm ==
  /\ InForm /\ draft' = None /\ mode' = "Browse" /\ UNCHANGED editor

\* Enter: submit_form saves the draft and leaves, or stays with an error.
SubmitEdit ==
  /\ mode = "Edit" /\ draft.id \in DOMAIN rows
  /\ rows' = Edited(draft.id, [rows[draft.id] EXCEPT
                !.day = draft.day,
                !.guests = IF draft.touched THEN draft.guests ELSE @,
                !.part = IF draft.touched /\ @ = "none" /\ draft.guests # {} THEN "org" ELSE @])
  /\ ReloadWritten
  /\ draft' = None /\ mode' = "Browse"
  /\ UNCHANGED <<offered, lastId, history, pending, editor, yank, settings, invites, acts>>

SubmitCreate ==
  /\ mode = "Create"
  /\ \E u \in Fresh \ Uids :
       Insert([uid |-> u, cal |-> draft.cal, day |-> draft.day, guests |-> draft.guests,
               part |-> IF draft.guests = {} THEN "none" ELSE "org", status |-> "create"])
  /\ ReloadWritten
  /\ draft' = None /\ mode' = "Browse"
  /\ UNCHANGED <<offered, history, pending, editor, yank, settings, invites, acts>>

-----------------------------------------------------------------------------
(* The participants dialog, over the form or over an event *)

Editor(i, name, back, guests) ==
  [id |-> i, name |-> name, back |-> back, guests |-> guests, changed |-> FALSE]

BeginAttendeesForDraft ==
  /\ InForm
  /\ editor' = Editor(draft.id, draft.name, mode, draft.guests) /\ mode' = "Attendees"
  /\ UNCHANGED draft

\* Only the guest list of an event that we organise, or that nobody does.
BeginAttendeesForSelected ==
  /\ mode = "Browse" /\ Act /\ Selected # NoId /\ loaded.rows[Selected].part \in {"org", "none"}
  /\ editor' = Editor(Selected, loaded.rows[Selected].uid, "Browse", loaded.rows[Selected].guests)
  /\ mode' = "Attendees"
  /\ Steady /\ UNCHANGED <<pending, draft, yank>>

\* attendee_editor_add, attendee_editor_remove
EditGuests ==
  /\ mode = "Attendees"
  /\ \E g \in Guest :
       editor' = [editor EXCEPT !.guests = IF g \in @ THEN @ \ {g} ELSE @ \cup {g}, !.changed = TRUE]
  /\ Steady /\ UNCHANGED <<mode, pending, draft, yank, acts>>

\* Esc over the form: the list goes back into the draft.
FinishDraftGuests ==
  /\ mode = "Attendees" /\ editor.back # "Browse"
  /\ draft' = IF editor.changed THEN [draft EXCEPT !.guests = editor.guests, !.touched = TRUE] ELSE draft
  /\ mode' = editor.back /\ editor' = None
  /\ Steady /\ UNCHANGED <<pending, yank, acts>>

\* Esc over an event: the whole list is saved, if it was changed.
FinishEventGuests ==
  /\ mode = "Attendees" /\ editor.back = "Browse"
  /\ mode' = "Browse" /\ editor' = None
  /\ IF editor.changed
     THEN Written(editor.id, rows' = Edited(editor.id, [rows[editor.id] EXCEPT
                    !.guests = editor.guests,
                    !.part = IF @ = "none" /\ editor.guests # {} THEN "org" ELSE @]))
     ELSE UNCHANGED <<rows, loaded, pos, focusId>>
  /\ UNCHANGED <<offered, lastId, history, pending, draft, yank, settings, invites, acts>>

-----------------------------------------------------------------------------
Jamaild == PullNew \/ PullMoved \/ PullGone \/ Pushed \/ CalendarGone \/ CalendarBack

Reloads == OnSynced \/ OnApplied \/ Periodic

MoveKeys == Horizontal \/ Vertical \/ JumpPeriod \/ GotoToday \/ StepView \/ ZoomIn \/ GoBack

Dialogs ==
  \/ TogglePanel \/ ToggleDeclined \/ OpenPanel \/ ClosePanel \/ DropYank \/ Restart
  \/ BeginDelete \/ BeginRsvp \/ CancelPrompt \/ ConfirmDelete \/ Answer
  \/ OpenInvitations \/ InvitationsMove \/ AnswerInvitation \/ JumpToInvitation
  \/ BeginCreate \/ BeginEdit \/ YankSelected \/ PasteYanked
  \/ CycleCalendar \/ TypeDate \/ CancelForm \/ SubmitEdit \/ SubmitCreate
  \/ BeginAttendeesForDraft \/ BeginAttendeesForSelected \/ EditGuests
  \/ FinishDraftGuests \/ FinishEventGuests

AppNext == Jamaild \/ Reloads \/ MoveKeys \/ Dialogs

AppSpec == AppInit /\ [][AppNext]_appVars

-----------------------------------------------------------------------------
(***************************************************************************)
(* What the calendar screen promises while jamaild changes the cache.      *)
(***************************************************************************)

\* The day in focus is on screen, the events on screen are those of the
\* period it shows, and the cursor is on one of them if the day has any: what
\* the next key works on can be seen, however the user got there and whatever
\* a reload took away (displayed_range, set_focused_date, refilter and the
\* reload after every key of bin/jacal.rs).
FocusShown ==
  LET r == DisplayedRange(pos)
      day == OnFocus(pos, loaded.rows, visible, declined)
  IN /\ r[1] <= pos.focus /\ pos.focus < r[2]
     /\ loaded.range = r
     /\ day # {} => Selected # NoId

\* A calendar the user hid shows no event until the user shows it again: not
\* after it was gone from the server and came back, nor after jacal was
\* started again (set_calendars, record_pref, persist_calendar_prefs). A row
\* left in a calendar that is no longer listed has no such setting.
HiddenStaysHidden ==
  \A i \in Events(loaded.rows, visible, declined) :
    loaded.rows[i].cal \in DOMAIN visible => loaded.rows[i].cal \notin hidden

\* Both of these.
ScreenIsTrue == FocusShown /\ HiddenStaysHidden

Promised == IF mode \in {"ConfirmDelete", "Rsvp"} THEN pending ELSE IF mode = "Edit" THEN draft ELSE editor

Changed(i) == i \in DOMAIN rows /\ (i \in DOMAIN rows' => rows'[i] # rows[i])

\* What a prompt or a form is answered for is the event it named when it was
\* opened, though reloads have since moved the cursor or taken the event away
\* (PendingDelete, PendingRsvp, editing_local_id, AttendeeTarget).
ActsOnWhatItNames ==
  [][(mode' # mode /\ mode \in {"ConfirmDelete", "Rsvp", "Edit", "Attendees"}) =>
       \A i \in DOMAIN rows : Changed(i) => rows[i].uid = Promised.name]_appVars

=============================================================================
