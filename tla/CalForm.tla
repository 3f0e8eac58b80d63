------------------------------- MODULE CalForm -------------------------------
(***************************************************************************)
(* calapp.rs: the event form (DraftEvent). A date typed is a day number, a *)
(* time an hour of the day. LocalOf is the clock of the user's time zone:  *)
(* an hour of UTC for each, with hours it skips and hours it has twice.    *)
(***************************************************************************)
EXTENDS CalAlarms, TLC

CONSTANTS LocalOf, Identity  \* the user's own addresses

Blank == -1
Garbled == -2  \* text that is no date, time or rule

ASSUME CalFormAssumption == LocalOf \in [DOMAIN LocalOf -> Nat] /\ DOMAIN LocalOf \subseteq Nat

\* parse_times: <<start, finish>>, or Refused.
ParseTimes(form) ==
  LET lastDay == IF form.endDate = Blank THEN form.startDate ELSE form.endDate
      begins == form.startDate * Day + form.startTime
      ends == lastDay * Day + form.endTime
      utc(local) == {u \in DOMAIN LocalOf : LocalOf[u] = local}
      the(S) == CHOOSE u \in S : TRUE
  IN IF form.startDate < 0 \/ lastDay < 0 THEN Refused
     ELSE IF form.allDay
     THEN IF lastDay < form.startDate THEN Refused ELSE <<form.startDate * Day, (lastDay + 1) * Day>>
     ELSE IF \/ form.startTime < 0 \/ form.endTime < 0 \/ ends <= begins
             \/ Cardinality(utc(begins)) # 1 \/ Cardinality(utc(ends)) # 1 THEN Refused
     ELSE <<the(utc(begins)), the(utc(ends))>>

\* all_day_form_dates: the last day, not the day after it.
AllDayDates(start, finish) ==
  LET last == finish \div Day - 1
  IN <<start \div Day, IF last < start \div Day THEN start \div Day ELSE last>>

\* The dates and times a form shows for an event.
Shows(form, allDay, start, finish) ==
  LET dates == IF allDay THEN AllDayDates(start, finish) ELSE <<LocalOf[start] \div Day, LocalOf[finish] \div Day>>
  IN [form EXCEPT !.allDay = allDay, !.startDate = dates[1], !.endDate = dates[2],
                  !.startTime = LocalOf[start] % Day, !.endTime = LocalOf[finish] % Day]

AlarmToken(trigger) == IF MinutesBefore(trigger) = None THEN <<0, "other">> ELSE Short(MinutesBefore(trigger)[2])

BlankForm(calendar, start) ==
  Shows([title |-> "", status |-> "CONFIRMED", rule |-> NoRule, calendar |-> calendar, editing |-> FALSE,
         alarms |-> <<>>, alarmsTouched |-> FALSE, guests |-> <<>>, guestsTouched |-> FALSE, organizer |-> NoOne,
         allDay |-> FALSE, startDate |-> 0, endDate |-> 0, startTime |-> 0, endTime |-> 0], FALSE, start, start + 1)

Who(guests) == [k \in DOMAIN guests |-> guests[k].who]

\* from_row, of the event the row is read as.
FromRow(ev, calendar) ==
  Shows([BlankForm(calendar, 0) EXCEPT
           !.title = ev.title, !.status = ev.status, !.rule = ev.rule, !.editing = TRUE, !.organizer = ev.organizer,
           !.alarms = [k \in DOMAIN ev.alarms |-> AlarmToken(ev.alarms[k])], !.guests = Who(ev.guests)],
        ev.allDay, ev.start, ev.finish)

\* copy_of: one occurrence as an event of its own, without an organizer.
CopyOf(ev, calendar) ==
  [FromRow(ev, calendar) EXCEPT
     !.rule = NoRule, !.editing = FALSE, !.organizer = NoOne,
     !.startTime = IF ev.allDay THEN 0 ELSE @, !.endTime = IF ev.allDay THEN 0 ELSE @,
     !.status = IF @ = "CANCELLED" THEN "CONFIRMED" ELSE @,
     !.alarms = SelectSeq(@, LAMBDA t : t[2] # "other"),
     !.guests = SelectSeq(@, LAMBDA who : who \notin Identity)]

\* cycle_calendar: among those that are shown, unless none is.
CycleCalendar(form, calendars, shown, step) ==
  LET seen == SelectSeq(calendars, LAMBDA c : c \in shown)
      ring == IF seen = <<>> THEN calendars ELSE seen
      here == {k \in DOMAIN ring : ring[k] = form.calendar}
      at == IF here = {} THEN -1 ELSE First(here) - 1
  IN IF form.editing \/ calendars = <<>> THEN form
     ELSE [form EXCEPT !.calendar = ring[((at + step) % Len(ring)) + 1]]

\* to_event_edits: every value is sent, times in UTC, the alarms and the guests if touched.
ToEventEdits(form) ==
  LET times == ParseTimes(form)
      always == [title |-> form.title, status |-> form.status, start |-> times[1], startZone |-> UTC,
                 finish |-> times[2], finishZone |-> UTC, allDay |-> form.allDay]
      sent == {f \in {"rule", "alarms", "guests", "organizer"} :
                 CASE f = "rule" -> form.rule # NoRule
                   [] f = "alarms" -> form.alarmsTouched
                   [] f = "guests" -> form.guestsTouched
                   [] f = "organizer" -> form.organizer # NoOne}
      list == ParseAlarmList(form.alarms)
      more == [f \in sent |-> IF f = "alarms" THEN [k \in DOMAIN list[2] |-> <<"start", list[2][k]>>] ELSE form[f]]
  IN IF \/ form.title = "" \/ times = Refused \/ form.rule = Unreadable
        \/ (form.alarmsTouched /\ list = None) THEN Refused
     ELSE more @@ always

\* to_new_vevent
ToNewVEvent(form, uid) ==
  LET times == ParseTimes(form)
      list == ParseAlarmList(form.alarms)
  IN IF form.title = "" \/ times = Refused \/ form.rule = Unreadable \/ list = None THEN Refused
     ELSE [uid |-> uid, rid |-> NoTime, title |-> form.title, status |-> form.status, start |-> times[1],
           startZone |-> UTC, finish |-> times[2], finishZone |-> UTC, allDay |-> form.allDay, rule |-> form.rule, except |-> {}, sequence |-> 0,
           alarms |-> [k \in DOMAIN list[2] |-> <<"start", list[2][k]>>],
           guests |-> [k \in DOMAIN form.guests |-> [who |-> form.guests[k], says |-> "NEEDS-ACTION"]],
           organizer |-> IF form.guests = <<>> THEN NoOne ELSE form.organizer]

\* participation_of: the answer of ours that is on the event.
ParticipationOf(ev) ==
  LET mine == {k \in DOMAIN ev.guests : ev.guests[k].who \in Identity}
      says == ev.guests[First(mine)].says
  IN IF ev.organizer \in Identity THEN "Organizer"
     ELSE IF mine = {} THEN "NotInvited"
     ELSE CASE says = "ACCEPTED" -> "Going" [] says = "TENTATIVE" -> "Maybe"
            [] says \in {"DECLINED", "DELEGATED"} -> "Declined" [] OTHER -> "NotAnswered"
=============================================================================
