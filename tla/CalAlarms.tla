------------------------------ MODULE CalAlarms ------------------------------
(***************************************************************************)
(* calnotify.rs, and the reminders of calendar.rs. A trigger is <<"start", *)
(* lead>>, lead units before the start, <<"end", lead>> or <<"at", time>>. *)
(* Every ALARM_CHECK_INTERVAL the daemon reads the coming events anew.     *)
(***************************************************************************)
EXTENDS CalDoc

CONSTANTS
  Grace,      \* DEFAULT_GRACE: later than this an alarm is a missed one
  AlarmLookback,   \* ALARM_LOOKBACK
  AlarmLookahead   \* ALARM_LOOKAHEAD

FireTime(trigger, start, finish) ==
  CASE trigger[1] = "at" -> trigger[2]
    [] trigger[1] = "start" -> start - trigger[2]
    [] trigger[1] = "end" -> finish - trigger[2]

\* minutes_before_start, or None
None == <<"none">>
MinutesBefore(trigger) == IF trigger[1] = "start" /\ trigger[2] >= 0 THEN <<"some", trigger[2]>> ELSE None

\* format_alarm_short, of the minutes: a number and the largest unit that divides them.
Units == <<<<"w", 10080>>, <<"d", 1440>>, <<"h", 60>>, <<"m", 1>>>>

Short(minutes) ==
  LET fits == {k \in DOMAIN Units : minutes % Units[k][2] = 0 /\ (minutes > 0 \/ k = 4)}
      unit == Units[First(fits)]
  IN <<minutes \div unit[2], unit[1]>>

\* parse_alarm_list: the minutes of the tokens, each once, or Refused; a token
\* whose unit is unknown refuses the list.
Minutes(token) == token[1] * (CHOOSE u \in ToSet(Units) : u[1] = token[2])[2]

ParseAlarmList(tokens) ==
  IF \E k \in DOMAIN tokens : \A u \in ToSet(Units) : u[1] # tokens[k][2] THEN None
  ELSE <<"some", FoldLeft(LAMBDA out, t : IF Minutes(t) \in ToSet(out) THEN out ELSE Append(out, Minutes(t)),
                          <<>>, tokens)>>

-----------------------------------------------------------------------------
(* Durations, in seconds: the parts written are those that are not zero. *)

Parts == <<<<"D", 86400>>, <<"H", 3600>>, <<"M", 60>>, <<"S", 1>>>>

\* format_ical_duration: the sign, and the parts.
FormatDuration(seconds) ==
  LET size == IF seconds < 0 THEN -seconds ELSE seconds
      of(k) == (IF k = 1 THEN size ELSE size % Parts[k - 1][2]) \div Parts[k][2]
      all == [k \in DOMAIN Parts |-> <<of(k), Parts[k][1]>>]
      written == SelectSeq(all, LAMBDA p : p[1] > 0)
  IN <<seconds < 0, IF written = <<>> THEN <<<<0, "S">>>> ELSE written>>

\* parse_ical_duration
ParseDuration(text) ==
  LET worth(unit) == IF unit = "W" THEN 7 * 86400 ELSE (CHOOSE p \in ToSet(Parts) : p[1] = unit)[2]
      total == FoldLeft(LAMBDA sum, p : sum + p[1] * worth(p[2]), 0, text[2])
  IN IF text[1] THEN -total ELSE total

-----------------------------------------------------------------------------
(* The clock. A row is <<doc, uid>>. *)

\* events_for_alarm_window: <<uid, block, start, finish>> of every occurrence.
EventsForWindow(rows, now) ==
  UNION {LET seen == Expand(rows[k], now - AlarmLookback, now + AlarmLookahead)
         IN {<<rows[k][seen[j][3]].uid, rows[k][seen[j][3]], seen[j][1], seen[j][2]>> : j \in DOMAIN seen}
         : k \in DOMAIN rows}

\* compute_alarms: <<uid, fire time>>
ComputeAlarms(events, leads) ==
  LET triggers(block) == IF block.alarms = <<>> THEN {<<"start", lead>> : lead \in leads} ELSE ToSet(block.alarms)
  IN UNION {{<<e[1], FireTime(t, e[3], e[4])>> : t \in triggers(e[2])} :
             e \in {x \in events : x[2].status # "CANCELLED"}}

DueNow(alarms, now) == {a \in alarms : a[2] <= now /\ now - a[2] <= Grace}

\* Mutant of Tick: what has rung is not remembered.
TickForgets(clock, rows, leads, now) ==
  [fired |-> clock.fired,
   rung |-> clock.rung \cup {<<a, now>> : a \in DueNow(ComputeAlarms(EventsForWindow(rows, now), leads), now)}]

\* AlarmScheduler::tick: what is due and has not rung is delivered, once,
\* whether the delivery succeeds or not.
Tick(clock, rows, leads, now) ==
  LET due == DueNow(ComputeAlarms(EventsForWindow(rows, now), leads), now) \ clock.fired
  IN [fired |-> clock.fired \cup due, rung |-> clock.rung \cup {<<a, now>> : a \in due}]

\* run_alarm_loop: one tick after another, on what the cache holds by then.
RunAlarmLoop(ticks, leads) ==
  FoldLeft(LAMBDA clock, t : Tick(clock, t.rows, leads, t.now), [fired |-> {}, rung |-> {}], ticks)
=============================================================================
