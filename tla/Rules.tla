-------------------------------- MODULE Rules --------------------------------
(***************************************************************************)
(* The rules that need no history: `call` is the call of a function of the *)
(* source that is under way, with its arguments. The calls depend on their *)
(* arguments only, so what one returns is not kept for the next.           *)
(***************************************************************************)
EXTENDS RulesProps, CalGrid, GoogleDoc

CONSTANTS
  Document,   \* what a stored document may be
  Edit,       \* what a form may send
  Window,     \* <<from, between, to>> of the views of a calendar
  Reminded,   \* events with reminders, as <<document, when it is looked at>>
  Gap,        \* how long the daemon may take to look again
  Leads,      \* default_alarm_minutes_before
  Lead,       \* minutes before the start
  Seconds,    \* durations, negative ones too
  Part,       \* what a text is put together from: components and lines
  TimeOfDay,  \* <<all day, start, end>>
  GoogleEvent, GoogleSeries,  \* events of the Calendar API, and <<master, exceptions>>
  Form,       \* what may be typed into the form of a new event
  Person,
  Slot,       \* starts of occurrences
  Now         \* the time of a call, later than every stamp of a document

VARIABLE call

Idle == call.does = "nothing"

Init == call = [does |-> "nothing"]

EditEvent ==
  /\ Idle
  /\ \E doc \in Document, edits \in Edit :
       call' = [does |-> "edit", doc |-> doc, edits |-> edits]

ShowEvents ==
  /\ Idle
  /\ \E doc \in Document, w \in Window :
       call' = [does |-> "show", doc |-> doc, window |-> w]

Invite ==
  /\ Idle
  /\ \E doc \in Document, who \in Person, sequence \in 1 .. 2 :
       call' = [does |-> "invite", doc |-> doc, who |-> who, sequence |-> sequence]

\* A guest's copy of a series, and the occurrence another calendar's organizer calls off.
CallOff ==
  /\ Idle
  /\ \E doc \in Document, who \in Person, rid \in Slot :
       LET copy == ApplyRequest(NoDoc, BuildRequest(doc, who, 1, Now), who)
       IN /\ copy # <<>> /\ (copy[1].rule = NoRule => IsOverride(copy[1]))
          /\ call' = [does |-> "callOff", doc |-> copy, rid |-> rid]

Answer ==
  /\ Idle
  /\ \E doc \in Document, who \in Person, rids \in {<<NoTime>>, <<NoTime, 5>>, <<6>>} :
       call' = [does |-> "answer", doc |-> doc, who |-> who, rids |-> rids]

\* Two looks at one state of the cache and two at the next.
LookForAlarms ==
  /\ Idle
  /\ \E old, new \in Reminded, start \in 0 .. 4, gaps \in [1 .. 3 -> Gap], leads \in Leads :
       LET at(k) == start + (IF k > 1 THEN gaps[1] ELSE 0) + (IF k > 2 THEN gaps[2] ELSE 0)
                      + (IF k > 3 THEN gaps[3] ELSE 0)
       IN call' = [does |-> "ring", leads |-> leads,
                   ticks |-> [k \in 1 .. 4 |-> [now |-> at(k), rows |-> IF k < 3 THEN old ELSE new]]]

OpenForm ==
  /\ Idle
  /\ \E doc \in Document : call' = [does |-> "open", doc |-> doc]

FillForm ==
  /\ Idle
  /\ \E form \in Form, shown \in SUBSET {"c", "d"}, calendar \in {"c", "d", "gone"} :
       call' = [does |-> "fill", form |-> [form EXCEPT !.calendar = calendar], shown |-> shown]

ReadText ==
  /\ Idle
  /\ \E parts \in UNION {[1 .. n -> Part] : n \in 0 .. 2}, wrapped \in BOOLEAN :
       LET body == FlattenSeq(parts)
       IN call' = [does |-> "read", lines |-> IF wrapped THEN <<Begin("VCALENDAR")>> \o body \o <<End("VCALENDAR")>>
                                              ELSE body]

RewriteText ==
  /\ Idle
  /\ \E block \in {p \in Part : p[1] = Begin("VEVENT")},
        line \in {Property(n, "new") : n \in {"DTSTART", "SUMMARY", "STATUS", "TRIGGER"}} :
       call' = [does |-> "rewrite", block |-> block, line |-> line]

FoldText ==
  /\ Idle
  /\ \E n \in 0 .. 6 : \E widths \in [1 .. n -> 1 .. 3] : call' = [does |-> "fold", widths |-> widths]

MarkText ==
  /\ Idle
  /\ \E n \in 1 .. 5 : \E line \in [1 .. n -> {"n", "=", ";", ":", "\""}], param \in {<<"v">>, <<"v", ";">>} :
       call' = [does |-> "mark", line |-> line, param |-> param]

ReadReminders ==
  /\ Idle
  /\ \E leads \in UNION {[1 .. n -> Lead] : n \in 0 .. 3}, seconds \in Seconds :
       call' = [does |-> "remind", leads |-> leads, seconds |-> seconds]

DrawDay ==
  /\ Idle
  /\ \E rows \in 1 .. 6, n \in 0 .. 2 : \E events \in [1 .. n -> TimeOfDay] :
       call' = [does |-> "day", rows |-> rows, events |-> events]

DrawColumn ==
  /\ Idle
  /\ \E rows \in 1 .. 4, most \in 0 .. 2, n \in 0 .. 3 :
       \E spans \in [1 .. n -> {p \in (0 .. (rows - 1)) \X (0 .. (rows - 1)) : p[1] <= p[2]}] :
       call' = [does |-> "column", rows |-> rows, most |-> most, events |-> [k \in 1 .. n |-> <<k>> \o spans[k]]]

MirrorEvent ==
  /\ Idle
  /\ \E g \in GoogleEvent, defaults \in {<<>>, <<<<"popup", 10>>>>} :
       call' = [does |-> "google", event |-> g, defaults |-> defaults]

MirrorSeries ==
  /\ Idle
  /\ \E s \in GoogleSeries, w \in Window :
       call' = [does |-> "series", master |-> s[1], exceptions |-> s[2], window |-> w]

Return == ~Idle /\ call' = [does |-> "nothing"]

Next == Return \/ EditEvent \/ ShowEvents \/ Invite \/ CallOff \/ Answer
          \/ LookForAlarms \/ OpenForm \/ FillForm
          \/ MirrorEvent \/ MirrorSeries \/ DrawDay \/ DrawColumn \/ ReadText \/ RewriteText \/ FoldText \/ MarkText \/ ReadReminders

Spec == Init /\ [][Next]_call

-----------------------------------------------------------------------------

\* An edit changes in a stored document what it sends and nothing else. The form sends what is
\* typed, and no other value if an event is opened and saved as it is, except that times with a
\* zone of their own come back in UTC and make a new revision; its copies are of one
\* occurrence (patch_document, to_event_edits, to_new_vevent, copy_of).
EditsAreLocal ==
  CASE call.does = "edit" -> EditIsLocal(call.doc, call.doc[1].uid, call.edits, Now)
    [] call.does = "open" -> /\ SavesWhatItShows(call.doc, "e", Now)
                             /\ \A i \in DOMAIN call.doc : CopiesOne(Parsed(call.doc[i]))
    [] call.does = "fill" -> SavesWhatIsTyped(call.form) /\ CyclesThrough(call.form, <<"c", "d">>, call.shown)
    [] OTHER -> TRUE

\* A view shows the occurrences that its period has, where they are: none is lost between two
\* periods, and in a day's column the hours cover its events, no two of the same indentation
\* cross, and the label of the hour hides none (expand_document_occurrences, layout_day,
\* pack_cascade, now_label_position).
ViewsShowAll ==
  CASE call.does = "show" -> ExpandsRightly(call.doc, call.window[1], call.window[2], call.window[3])
    [] call.does = "day" -> AxisCovers(call.rows, call.events)
    [] call.does = "column" ->
         /\ CascadeIsReadable(call.events, call.rows, call.most)
         /\ \A now \in 0 .. (call.rows - 1), length \in 1 .. 2, width \in 1 .. 4 :
              LabelIsFree(now, call.rows, PackCascade(call.events, call.rows, call.most), length, width)
    [] OTHER -> TRUE

\* An invitation shows a guest the occurrences they are asked to, a cancellation takes out
\* the one it names, and an answer is that of the guest who gives it (build_request_ics,
\* build_cancel_ics, build_reply_ics, apply_inbound).
InvitationsCarry ==
  CASE call.does = "invite" -> InviteeSees(call.doc, call.who, call.sequence, Now)
    [] call.does = "callOff" -> CancelTakesOne(call.doc, call.rid, Now)
    [] call.does = "answer" -> AnswerIsOwn(call.doc, call.who, "TENTATIVE", call.rids, Now)
    [] OTHER -> TRUE

\* A reminder rings once, when it is due, for an event that still asks for it; what a form
\* shows of it and what is stored of it say the same time (tick, compute_alarms,
\* format_alarm_short, parse_alarm_list).
RemindersRing ==
  CASE call.does = "ring" -> RingsOnce(call.ticks, call.leads)
    [] call.does = "remind" -> RemindersReadBack(call.leads, call.seconds)
    [] OTHER -> TRUE

\* What is written is read back: the text of an object by its two readers, a line that is
\* folded or given a parameter, and an event of Google's that was mirrored here and is sent
\* back, or a series of it with its exceptions (parse_document, to_ics, rewrite_block_lines,
\* fold_line, set_param_on_line, gevent_group_to_object, vevent_to_gevent).
ReadsBackAlike ==
  CASE call.does = "read" -> RoundTrips(call.lines)
    [] call.does = "rewrite" -> RewritesOwnLines(call.block, call.line)
    [] call.does = "fold" -> Folds(call.widths, 5)
    [] call.does = "mark" -> ReadAlike(call.line, call.param)
    [] call.does = "google" -> WritesBackAlike(call.event, call.defaults)
    [] call.does = "series" -> ShowsAlike(call.master, call.exceptions, call.window[2], call.window[3])
    [] OTHER -> TRUE
=============================================================================
