-------------------------------- MODULE CalGrid --------------------------------
(***************************************************************************)
(* calapp.rs: where the events of a day are drawn. Times are minutes from  *)
(* the day's midnight, rows and columns count from 0. An axis is <<starts, *)
(* end>>: the minute each row begins at, and the one the last row ends at. *)
(***************************************************************************)
EXTENDS Integers, Sequences, FiniteSets, SequencesExt, FiniteSetsExt

CONSTANTS
  MinGridRows,   \* MIN_GRID_ROWS
  SlotChoices,   \* SLOT_CHOICES, finest first
  DayCore,       \* DAY_CORE: <<from, to>>
  HourMinutes, DayMinutes

ASSUME CalGridAssumption ==
  /\ \A k \in DOMAIN SlotChoices : SlotChoices[k] \in Nat \ {0} /\ DayMinutes % SlotChoices[k] = 0
  /\ \A j, k \in DOMAIN SlotChoices : j < k => SlotChoices[j] < SlotChoices[k]
  /\ DayCore[1] % HourMinutes = 0 /\ DayCore[2] % HourMinutes = 0

NoAxis == <<>>

SegmentRows(from, to, slot) == IF to <= from THEN 0 ELSE (to - from + slot - 1) \div slot

\* push_segment
Segment(from, to, slot) == [k \in 1 .. SegmentRows(from, to, slot) |-> from + (k - 1) * slot]

Clamp(n, low, high) == Max({low, Min({n, high})})

\* What must be on screen: the core and every event, in whole hours.
NeedStart(spans) ==
  LET need == Min({DayCore[1]} \cup {Clamp(s[1], 0, DayMinutes) : s \in spans})
  IN need - (need % HourMinutes)

NeedEnd(spans) ==
  LET need == Max({DayCore[2]} \cup {Clamp(s[2], 0, DayMinutes) : s \in spans})
  IN Min({((need + HourMinutes - 1) \div HourMinutes) * HourMinutes, DayMinutes})

\* plan_time_axis: the finest core that fits, and around it the finest that fits then.
PlanTimeAxis(rows, spans) ==
  LET from == NeedStart(spans)
      to == NeedEnd(spans)
      axis(core, outer) == Segment(from, DayCore[1], outer) \o Segment(DayCore[1], DayCore[2], core)
                             \o Segment(DayCore[2], to, outer)
      fits == {p \in ToSet(SlotChoices) \X ToSet(SlotChoices) : p[1] <= p[2] /\ Len(axis(p[1], p[2])) <= rows}
      best == CHOOSE p \in fits : \A q \in fits : p[1] < q[1] \/ (p[1] = q[1] /\ p[2] <= q[2])
  IN IF rows < MinGridRows \/ fits = {} THEN NoAxis ELSE <<axis(best[1], best[2]), to>>

RowOf(axis, minute) == Max({0, Cardinality({k \in DOMAIN axis[1] : axis[1][k] <= minute}) - 1})

RowSpan(axis, start, end) ==
  LET first == RowOf(axis, start)
  IN <<first, Max({first, RowOf(axis, Max({end - 1, start}))})>>

\* timed_spans_for, of one day; an event is <<all day, start, end>>.
TimedSpans(events) ==
  {<<Max({events[k][2], 0}), Min({events[k][3], DayMinutes})>> :
     k \in {j \in DOMAIN events : ~events[j][1] /\ events[j][3] > 0 /\ events[j][2] < DayMinutes}}

\* layout_day: <<position, first row, last row>> of the events that have a time.
LayoutDay(events, axis) ==
  LET timed == SetToSortSeq({k \in DOMAIN events : ~events[k][1]}, <)
  IN [k \in DOMAIN timed |-> <<timed[k]>> \o RowSpan(axis, events[timed[k]][2], events[timed[k]][3])]

-----------------------------------------------------------------------------
(* pack_cascade: <<position, start row, end row, indent>> *)

Indent(placed, e, most) ==
  LET clash == {p \in placed : p[2] <= e[3] /\ e[2] <= p[3]}
  IN IF clash = {} THEN 0 ELSE Min({Max({p[4] + 1 : p \in clash}), most})

PackCascade(events, rows, most) ==
  LET order == SortSeq(events, LAMBDA d, e : d[2] < e[2] \/ (d[2] = e[2] /\ d[1] < e[1]))
      put(done, e) ==
        LET free == {r \in Min({e[2], rows - 1}) .. (rows - 1) : \A k \in DOMAIN done.at : done.at[k][2] # r}
            indent == Indent(done.spans, e, most)
        IN IF free = {} THEN done
           ELSE [spans |-> done.spans \cup {<<e[1], e[2], e[3], indent>>},
                 at |-> Append(done.at, <<e[1], Min(free), Min({Max({e[3], Min(free)}), rows - 1}), indent>>)]
  IN IF rows = 0 THEN <<>> ELSE FoldLeft(put, [spans |-> {}, at |-> <<>>], order).at

\* now_label_position: <<row, column>>, or <<>> for nowhere.
NowLabel(now, rows, placements, length, width) ==
  LET all == ToSet(placements)
      limit(row) == Min({width} \cup {p[4] : p \in {q \in all : q[2] = row}})
      bars(row) == {p[4] : p \in {q \in all : q[2] < row /\ row <= q[3] /\ q[4] < limit(row)}}
      column(row) == IF bars(row) # {} /\ Min(bars(row)) < length THEN Max(bars(row)) + 1 ELSE 0
      room == {row \in {now, now - 1, now + 1} \cap (0 .. (rows - 1)) : column(row) + length <= limit(row)}
      chosen == IF now \in room THEN now ELSE Min(room)
  IN IF room = {} THEN <<>> ELSE <<chosen, column(chosen)>>

-----------------------------------------------------------------------------

\* The ruler covers the working day and every event of it, row after row
\* without a gap, in no more rows than there are; it is left out only if not
\* even the coarsest fits. Every event is in the rows its minutes fall in.
AxisCovers(rows, events) ==
  LET spans == TimedSpans(events)
      axis == PlanTimeAxis(rows, spans)
      starts == axis[1]
      ends(r) == IF r = Len(starts) THEN axis[2] ELSE starts[r + 1]
      clipped(e) == {m \in 0 .. (DayMinutes - 1) : e[2] <= m /\ m < e[3]}
  IN axis # NoAxis =>
       /\ Len(starts) <= rows /\ \A r \in DOMAIN starts : starts[r] < ends(r)
       /\ starts[1] <= DayCore[1] /\ axis[2] >= DayCore[2]
       /\ \A s \in spans : starts[1] <= s[1] /\ s[2] <= axis[2]
       /\ \A e \in ToSet(LayoutDay(events, axis)) : \A m \in clipped(events[e[1]]) :
            \E r \in (e[2] + 1) .. (e[3] + 1) : starts[r] <= m /\ m < ends(r)

\* Each event has a line of its own, in the order of their starts, and begins
\* further right than every event it shares a time with that was placed before
\* it, as far as there is room; one is left out only if no line is left for it.
CascadeIsReadable(events, rows, most) ==
  LET placed == PackCascade(events, rows, most)
      of(p) == CHOOSE e \in ToSet(events) : e[1] = p[1]
      clash(p, q) == of(p)[2] <= of(q)[3] /\ of(q)[2] <= of(p)[3]
  IN /\ \A j, k \in DOMAIN placed : j < k =>
          /\ placed[j][2] # placed[k][2] /\ of(placed[j])[2] <= of(placed[k])[2]
          /\ clash(placed[j], placed[k]) => (placed[j][4] < placed[k][4] \/ placed[k][4] = most)
     /\ \A p \in ToSet(placed) : of(p)[2] <= p[2] /\ p[2] <= p[3] /\ p[3] < rows /\ p[4] <= most
     /\ \A e \in ToSet(events) : (\A p \in ToSet(placed) : p[1] # e[1]) =>
          \A r \in e[2] .. (rows - 1) : \E p \in ToSet(placed) : p[2] = r

\* The clock is drawn over no title and over no bar of an event.
LabelIsFree(now, rows, placed, length, width) ==
  LET at == NowLabel(now, rows, placed, length, width)
  IN at # <<>> =>
       /\ at[1] \in 0 .. (rows - 1) /\ at[1] - now \in -1 .. 1 /\ at[2] + length <= width
       /\ \A p \in ToSet(placed) :
            /\ p[2] = at[1] => at[2] + length <= p[4]
            /\ (p[2] < at[1] /\ at[1] <= p[3]) => p[4] \notin at[2] .. (at[2] + length - 1)
=============================================================================
