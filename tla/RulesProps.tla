------------------------------ MODULE RulesProps ------------------------------
(* What is promised of a document, a form, a reminder and a text, for one call at a time. *)
EXTENDS ItipDoc, CalForm, CalText

(* What is promised of documents, for one document and one call at a time. *)

(* By definition: what a document says, without windows, caps or lookback. *)

Slots(c) ==
  IF c.rule \in {NoRule, Unreadable} THEN {c.start}
  ELSE {c.start + k * c.rule[1] : k \in 0 .. ((IF c.rule[2] = 0 THEN Horizon ELSE c.rule[2]) - 1)} \ c.except

\* <<start, finish, block>> of every occurrence.
OccurrencesOf(doc, i) ==
  LET c == doc[i]
      taken == {doc[j].rid : j \in DOMAIN doc}
      slots == IF ~IsOverride(c) THEN Slots(c) \ taken ELSE {c.start} \ IF c.status = "CANCELLED" THEN {c.start} ELSE {}
  IN {<<s, s + Finish(c) - c.start, i>> : s \in slots}

Occurrences(doc) == UNION {OccurrencesOf(doc, i) : i \in DOMAIN doc}

Shown(doc, from, to) == {o \in Occurrences(doc) : Overlaps(o[1], o[2], from, to)}

-----------------------------------------------------------------------------

\* A window shows the occurrences that reach into it, with their overrides in
\* place, wherever they begin; two windows side by side show no less than the
\* window they make up (expand_document_occurrences, for no more occurrences
\* than the expansion is cut off at).
ExpandsRightly(doc, from, between, to) ==
  /\ ToSet(Expand(doc, from, to)) = Shown(doc, from, to)
  /\ \A i \in DOMAIN doc : Finish(doc[i]) > doc[i].start =>
       \A o \in Shown(doc, from, to) : o[3] = i =>
         o \in ToSet(Expand(doc, from, between)) \cup ToSet(Expand(doc, between, to))

\* A local edit changes what it names and nothing else: the other blocks, the
\* lines nobody models, the answers of the guests who stay, the alarms it does
\* not send and every value it does not send; what it sends is read back; and
\* the revision is new exactly if a value is (patch_document, to_ics).
EditIsLocal(doc, uid, edits, now) ==
  LET new == ApplyLocalEdit(doc, uid, edits, now)
      old == doc[1]
      sent == DOMAIN edits
      answer(c, g) == IF "rsvp" \in sent /\ edits.rsvp.who = g.who THEN edits.rsvp.says ELSE g.says
  IN new # Refused =>
       /\ Len(new) = Len(doc) /\ \A i \in 2 .. Len(doc) : new[i] = doc[i]
       /\ \A f \in {"uid", "rid", "other", "except"} : new[1][f] = old[f]
       /\ \A f \in Values : Parsed(new[1])[f] = IF f \in sent THEN edits[f] ELSE Parsed(old)[f]
       /\ new[1].alarms = IF "alarms" \in sent THEN edits.alarms ELSE old.alarms
       /\ IF "guests" \in sent THEN {new[1].guests[k].who : k \in DOMAIN new[1].guests} = ToSet(edits.guests)
          ELSE new[1].organizer = old.organizer /\ Len(new[1].guests) = Len(old.guests)
       /\ \A k \in DOMAIN new[1].guests : \A j \in DOMAIN old.guests :
            new[1].guests[k].who = old.guests[j].who => new[1].guests[k].says = answer(old, old.guests[j])
       /\ new[1].sequence = old.sequence
            + (IF \E f \in Values : Parsed(new[1])[f] # Parsed(old)[f] THEN 1 ELSE 0)

\* An invitation shows a guest the occurrences they are asked to, and besides
\* them only the usual time of one that was moved without them; it gives away
\* no reminder and none of the organizer's notes of delivery
\* (build_request_ics, filter_component, apply_inbound).
InviteeSees(doc, who, sequence, now) ==
  LET sent == BuildRequest(doc, who, sequence, now)
      theirs == ApplyRequest(NoDoc, sent, who)
      mine == {o \in Occurrences(doc) : IsGuest(doc[o[3]], who)}
      moved == {doc[i].rid : i \in {j \in DOMAIN doc : ~IsGuest(doc[j], who)}}
  IN sent # <<>> =>
       LET seen == {<<o[1], o[2]>> : o \in Occurrences(theirs)}
       IN /\ {<<o[1], o[2]>> : o \in mine} \subseteq seen
          /\ \A o \in seen : o \in {<<m[1], m[2]>> : m \in mine} \/ o[1] \in moved
          /\ \A i \in DOMAIN theirs :
               /\ theirs[i].alarms = <<>> /\ theirs[i].organizerExtra = ""
               /\ \A k \in DOMAIN theirs[i].guests : theirs[i].guests[k].extra = ""
               /\ theirs[i].sequence = sequence

\* Calling off one occurrence takes it out of a guest's copy, whether it has an
\* override there or not, and leaves every other occurrence where it is
\* (apply_inbound, of a CANCEL that names a RECURRENCE-ID).
CancelTakesOne(stored, rid, now) ==
  LET called == [stored[MasterIndex(stored)] EXCEPT !.rid = rid, !.rule = NoRule, !.status = "CANCELLED"]
      after == ApplyCancel(stored, <<called>>, now)
      names(o) == IF IsOverride(stored[o[3]]) THEN stored[o[3]].rid ELSE o[1]
      left == {o \in Occurrences(stored) : names(o) # rid}
  IN {<<o[1], o[2]>> : o \in Occurrences(after)} = {<<o[1], o[2]>> : o \in left}

\* An answer changes the answer of the guest who gives it, in the blocks it is
\* for and that the organizer has, and no other guest's (build_reply_ics,
\* apply_inbound, set_attendee_partstat).
AnswerIsOwn(doc, who, says, rids, now) ==
  LET after == ApplyReply(doc, BuildReply(doc, who, rids, says, now), now)
      asked(i) == doc[i].rid \in ToSet(rids)
  IN after # Refused =>
       /\ Len(after) = Len(doc)
       /\ \A i \in DOMAIN doc :
            /\ [after[i] EXCEPT !.guests = <<>>] = [Touch(doc, now)[i] EXCEPT !.guests = <<>>]
            /\ \A k \in DOMAIN doc[i].guests :
                 IF doc[i].guests[k].who = who /\ asked(i) THEN after[i].guests[k].says = says
                 ELSE after[i].guests[k] = doc[i].guests[k]

-----------------------------------------------------------------------------
(* What is promised of reminders and of the event form. *)

\* Each reminder rings once, and rings at every look the daemon takes while it
\* is due and its event is near enough; nothing rings early, late, or that no
\* event of the moment asks for, though events come, change and go between two
\* looks (events_for_alarm_window, compute_alarms, due_now, tick).
RingsOnce(ticks, leads) ==
  LET rung == RunAlarmLoop(ticks, leads).rung
      triggers(c) == IF c.alarms = <<>> THEN {<<"start", lead>> : lead \in leads} ELSE ToSet(c.alarms)
      near(doc, now) == {o \in Shown(doc, now - AlarmLookback, now + AlarmLookahead) : doc[o[3]].status # "CANCELLED"}
      wanted(t) == UNION {UNION {{<<doc[o[3]].uid, FireTime(a, o[1], o[2])>> : a \in triggers(doc[o[3]])}
                                 : o \in near(doc, t.now)} : doc \in ToSet(t.rows)}
      due(t) == {a \in wanted(t) : a[2] <= t.now /\ t.now <= a[2] + Grace}
  IN /\ \A r, s \in rung : r[1] = s[1] => r = s
     /\ \A r \in rung : \E k \in DOMAIN ticks : r[2] = ticks[k].now /\ r[1] \in due(ticks[k])
     /\ \A k \in DOMAIN ticks : \A a \in due(ticks[k]) : \E r \in rung : r[1] = a /\ r[2] <= ticks[k].now

\* A list of reminders means what it says however it is shown, and a duration
\* is the duration that was written (format_alarm_short, parse_alarm_list,
\* format_ical_duration, parse_ical_duration).
RemindersReadBack(leads, seconds) ==
  /\ ParseAlarmList([k \in DOMAIN leads |-> Short(leads[k])]) =
       <<"some", [k \in DOMAIN SetToSeq(ToSet(leads)) |->
                    leads[CHOOSE j \in DOMAIN leads : Cardinality({leads[i] : i \in 1 .. j}) = k]]>>
  /\ ParseDuration(FormatDuration(seconds)) = seconds

\* An event in UTC, or of whole days, that is opened in the form and saved as
\* it is keeps its revision and every line but the date of the save: nobody is
\* asked again. Times in a zone come back as the same instants in UTC, which
\* counts as a change: only they, the revision and its date are new.
SavesWhatItShows(doc, uid, now) ==
  LET ev == ToVEvent(doc, uid)
      edits == ToEventEdits(FromRow(ev, "c"))
      saved == ApplyLocalEdit(doc, uid, edits, now)
      dated(c) == [c EXCEPT !.modified = 0, !.finish = Finish(c), !.finishZone = FinishZone(c), !.length = NoTime]
      inUTC(c) == [dated(c) EXCEPT !.startZone = UTC, !.finishZone = UTC, !.sequence = @ + 1, !.stamp = now]
      zoned(i) == i = Target(doc, uid) /\ {doc[i].startZone, FinishZone(doc[i])} # {UTC}
  IN edits # Refused =>
       \A i \in DOMAIN doc : dated(saved[i]) = IF zoned(i) THEN inUTC(doc[i]) ELSE dated(doc[i])

\* What is typed is what is saved: the local times are those of the event, the
\* last day of an all-day event is its last day, and an hour that the clock
\* skips or has twice is refused (parse_times, to_new_vevent).
SavesWhatIsTyped(form) ==
  LET ev == ToNewVEvent(form, "new")
      last == IF form.endDate = Blank THEN form.startDate ELSE form.endDate
      unique(local) == \A u, v \in DOMAIN LocalOf : LocalOf[u] = local /\ LocalOf[v] = local => u = v
  IN ev # Refused =>
       /\ ev.start < ev.finish
       /\ IF form.allDay THEN ev.start = form.startDate * Day /\ ev.finish = (last + 1) * Day
          ELSE /\ LocalOf[ev.start] = form.startDate * Day + form.startTime /\ unique(LocalOf[ev.start])
               /\ LocalOf[ev.finish] = last * Day + form.endTime /\ unique(LocalOf[ev.finish])

\* A copy is of one occurrence, at its time, with those of its guests who are
\* not the user, none of whom has answered (copy_of).
CopiesOne(ev) ==
  LET copy == ToNewVEvent(CopyOf(ev, "c"), "new")
  IN copy # Refused =>
       /\ <<copy.start, copy.finish, copy.allDay>> = <<ev.start, ev.finish, ev.allDay>>
       /\ copy.rule = NoRule /\ copy.rid = NoTime /\ copy.status # "CANCELLED"
       /\ ToSet(Who(copy.guests)) = ToSet(Who(ev.guests)) \ Identity
       /\ ParticipationOf(copy) \in {"NotInvited"}
       /\ \A k \in DOMAIN copy.guests : copy.guests[k].says = "NEEDS-ACTION"

\* A new event goes to a calendar that is shown, if one is; each is reached,
\* and stepping back undoes a step between them (cycle_calendar).
CyclesThrough(form, calendars, shown) ==
  LET next == CycleCalendar(form, calendars, shown, 1)
      back == CycleCalendar(next, calendars, shown, -1)
      seen == ToSet(calendars) \cap shown
  IN /\ seen # {} => next.calendar \in seen
     /\ form.calendar \in seen => back = form

-----------------------------------------------------------------------------
(* What reading and rewriting the text of an iCalendar object keeps. *)

Others(doc) == SelectSeq(doc.properties, LAMBDA l : Name(l) # "VERSION")

\* A document that is read and written again has every component it had, with
\* all that is in it, and what it says of itself; and the events read are those
\* that a reader without a wrapper finds (parse_document, to_ics, parse_vevents).
RoundTrips(lines) ==
  LET doc == ParseDocument(lines)
      again == ParseDocument(ToIcs(doc))
  IN doc # NoDocument =>
       /\ again # NoDocument
       /\ \A f \in {"events", "timezones", "others", "method"} : again[f] = doc[f]
       /\ Others(again) = Others(doc)
       /\ doc.prodid # Unset => again.prodid = doc.prodid
       /\ ParseVevents(ToIcs(doc)) = doc.events

Nested(block) == Kept(block, LAMBDA i : Depth(block, i) > 1 \/ Depth(block, i - 1) > 1)

\* A property that is set is there once, and the other properties of the event,
\* and all of its alarms, are what they were (replace_block_property,
\* rewrite_block_lines); taking the alarms out, or writing them anew, leaves
\* the rest (strip_alarms, patch_raw_vevent).
RewritesOwnLines(block, line) ==
  LET set == ReplaceProperty(block, Name(line), line)
      bare == StripAlarmLines(block)
      others(b) == SelectSeq(PropertyLines(b, {Name(b[i]) : i \in DOMAIN b}), LAMBDA l : Name(l) # Name(line))
      patched == PatchLines(block, <<line>>, <<>>, <<>>, {})
  IN /\ PropertyLines(set, {Name(line)}) = <<line>>
     /\ others(set) = others(block) /\ Nested(set) = Nested(block)
     /\ others(bare) = others(block) /\ \A i \in DOMAIN bare : bare[i] # Begin("VALARM")
     /\ Nested(patched) = Nested(block)
     /\ PropertyLines(patched, Patched) = IF Name(line) \in Patched THEN <<line>> ELSE PropertyLines(patched, Patched)

\* A folded line is the line, in pieces that fit (fold_line, unfold).
Folds(widths, limit) ==
  LET pieces == FoldLine(widths, limit)
  IN /\ FlattenSeq(pieces) = widths
     /\ \A k \in DOMAIN pieces :
          FoldSeq(+, 0, pieces[k]) + (IF k = 1 THEN 0 ELSE 1) <= limit

\* The two ways a line is taken apart go on agreeing where its value begins
\* after a parameter was set, and the value is the one that was there
\* (split_content_line, parse_content_line, set_param_on_line).
ReadAlike(line, param) ==
  LET new == SetParam(line, param)
      value(l) == SubSeq(l, ValueAt(l), Len(l))
  IN (ContentAt(line) = ValueAt(line) /\ ValueAt(line) # 0) =>
       ContentAt(new) = ValueAt(new) /\ value(new) = value(line)
===============================================================================
