-------------------------------- MODULE CalDoc --------------------------------
(***************************************************************************)
(* calendar.rs: what jacal, jamaild and jadav do to an iCalendar document. *)
(* A document is the sequence of its VEVENT blocks, a block the record of  *)
(* its lines: `rid` is its RECURRENCE-ID, `finish` its DTEND, `length` its *)
(* DURATION, `rule` <<every, count>> its RRULE (count 0: without end),     *)
(* `other` the lines nobody models. Times are Nat, one unit an hour of UTC; *)
(* `startZone` and `finishZone` are the TZIDs of DTSTART and DTEND. A rule *)
(* is not carried over a change of a zone's clock; the wrapper, VTIMEZONEs *)
(* and the folding of lines are left out.                                  *)
(***************************************************************************)
EXTENDS Integers, Sequences, FiniteSets, SequencesExt

CONSTANTS
  NoTime,         \* the property is missing
  NoOne,          \* no ORGANIZER
  Day,            \* hours of an all-day event without an end
  MaxExpanded,    \* MAX_EXPANDED_OCCURRENCES
  Horizon         \* bound: a rule without end has this many occurrences

ASSUME CalDocAssumption ==
  /\ Day \in Nat \ {0} /\ MaxExpanded \in Nat \ {0} /\ Horizon \in Nat \ {0}
  /\ NoTime \notin Nat

NoRule == <<0, 0>>
Unreadable == <<0, 1>>  \* a rule the rrule crate rejects

UTC == ""  \* no TZID

Refused == <<>>  \* the result of a call that returns an error: no document
-----------------------------------------------------------------------------
(* Reading *)

IsOverride(c) == c.rid # NoTime

First(S) == CHOOSE i \in S : \A j \in S : i <= j

\* DTEND, else DURATION, else a day for an all-day event, else the start.
Finish(c) ==
  IF c.finish # NoTime THEN c.finish
  ELSE c.start + (IF c.length # NoTime THEN c.length ELSE IF c.allDay THEN Day ELSE 0)

\* The zone of DTEND, or of DTSTART if there is none; a day has no zone.
FinishZone(c) == IF c.finish # NoTime THEN c.finishZone ELSE c.startZone

\* What parse_single_vevent keeps of a block: not every parameter of a guest.
Parsed(c) ==
  [c EXCEPT !.finish = Finish(c), !.finishZone = FinishZone(c), !.length = NoTime,
            !.guests = [k \in DOMAIN c.guests |-> [who |-> c.guests[k].who, says |-> c.guests[k].says]]]

\* Index of the master: the first block that is no override, else the first.
MasterIndex(doc) ==
  LET masters == {i \in DOMAIN doc : ~IsOverride(doc[i])}
  IN IF masters # {} THEN First(masters) ELSE IF doc = <<>> THEN 0 ELSE 1

\* component_index: the master, or the override of one occurrence.
ComponentIndex(doc, rid) ==
  LET there == {i \in DOMAIN doc : doc[i].rid = rid}
  IN IF rid = NoTime THEN MasterIndex(doc) ELSE IF there = {} THEN 0 ELSE First(there)

\* The event a row of the cache is read as: the first block with its UID.
ToVEvent(doc, uid) == Parsed(doc[First({i \in DOMAIN doc : doc[i].uid = uid})])

-----------------------------------------------------------------------------
(* Rewriting lines of blocks that are there *)

\* Every guest line of `who` in one block, rewritten.
RewriteGuest(c, who, f(_)) ==
  [c EXCEPT !.guests = [k \in DOMAIN c.guests |->
                          IF c.guests[k].who = who THEN f(c.guests[k]) ELSE c.guests[k]]]

IsGuest(c, who) == \E k \in DOMAIN c.guests : c.guests[k].who = who

\* set_attendee_partstat: nothing to rewrite is told to the caller.
SetPartstat(doc, who, says, rid) ==
  LET i == ComponentIndex(doc, rid)
      answered(g) == [g EXCEPT !.says = says, !.asked = FALSE]
  IN IF i = 0 \/ ~IsGuest(doc[i], who) THEN Refused
     ELSE [doc EXCEPT ![i] = RewriteGuest(doc[i], who, answered)]

\* apply_rsvp: the answer is given on the master.
ApplyRsvp(doc, rsvp) == SetPartstat(doc, rsvp.who, rsvp.says, NoTime)

SetStatus(doc, status, sequence) ==
  [i \in DOMAIN doc |-> [doc[i] EXCEPT !.status = status, !.sequence = sequence]]

Touch(doc, now) == [i \in DOMAIN doc |-> [doc[i] EXCEPT !.stamp = now, !.modified = now]]

\* strip_params, of the SCHEDULE-* parameters, and strip_alarms.
StripParams(doc) ==
  [i \in DOMAIN doc |->
     [doc[i] EXCEPT !.organizerExtra = "",
                    !.guests = [k \in DOMAIN @ |-> [@[k] EXCEPT !.extra = ""]]]]

StripAlarms(doc) == [i \in DOMAIN doc |-> [doc[i] EXCEPT !.alarms = <<>>]]

-----------------------------------------------------------------------------
(* Editing: EventEdits is a function, defined on the fields that are sent; a time is sent with its zone. *)

Values == {"title", "status", "start", "startZone", "finish", "finishZone", "allDay", "rule"}

\* Mutant of Differs: a field that is sent is taken for one that was changed.
DiffersWhenSent(ev, edits) == DOMAIN edits \cap Values

\* The fields sent with a value that is not the event's: the same instant in another zone is another time.
Differs(ev, edits) == {f \in DOMAIN edits \cap Values : edits[f] # ev[f]}

\* The new guest list: who is on it keeps the answer given, who is new is asked.
Guests(ev, list) ==
  LET once == SelectSeq([k \in DOMAIN list |-> <<k, list[k]>>],
                        LAMBDA p : \A j \in 1 .. (p[1] - 1) : list[j] # p[2])
      kept(who) == {k \in DOMAIN ev.guests : ev.guests[k].who = who}
  IN [k \in DOMAIN once |->
        IF kept(once[k][2]) # {} THEN ev.guests[First(kept(once[k][2]))]
        ELSE [who |-> once[k][2], says |-> "NEEDS-ACTION"]]

\* VEvent::to_ics, the model part.
Updated(ev, edits, now) ==
  LET valued == [f \in DOMAIN ev |-> IF f \in Differs(ev, edits) THEN edits[f] ELSE ev[f]]
      bumped == IF Differs(ev, edits) = {} THEN valued
                ELSE [valued EXCEPT !.sequence = @ + 1, !.stamp = now]
      alarmed == IF "alarms" \in DOMAIN edits THEN [bumped EXCEPT !.alarms = edits.alarms] ELSE bumped
      guests == Guests(ev, edits.guests)
  IN IF "guests" \notin DOMAIN edits THEN alarmed
     ELSE [alarmed EXCEPT !.guests = guests,
                          !.organizer = IF @ = NoOne /\ guests # <<>> /\ "organizer" \in DOMAIN edits
                                        THEN edits.organizer ELSE @]

\* A guest line as it is written anew: who has not answered is asked to.
Rendered(g) == [who |-> g.who, says |-> g.says, asked |-> g.says = "NEEDS-ACTION", extra |-> ""]

\* patch_raw_vevent: the lines that are modelled are written anew, the guests
\* and the alarms only if they were edited, and all others stay.
PatchBlock(raw, updated, edits, now) ==
  LET lines == [raw EXCEPT !.title = updated.title, !.status = updated.status,
                           !.start = updated.start, !.startZone = updated.startZone,
                           !.finish = updated.finish, !.finishZone = updated.finishZone, !.length = NoTime,
                           !.allDay = updated.allDay,
                           !.rule = updated.rule, !.sequence = updated.sequence,
                           !.stamp = updated.stamp, !.modified = now]
      alarmed == IF "alarms" \in DOMAIN edits THEN [lines EXCEPT !.alarms = updated.alarms] ELSE lines
  IN IF "guests" \notin DOMAIN edits THEN alarmed
     ELSE [alarmed EXCEPT !.organizer = updated.organizer, !.organizerExtra = "",
                          !.guests = [k \in DOMAIN updated.guests |-> Rendered(updated.guests[k])]]

\* The block an edit of the event replaces.
Target(doc, uid) ==
  LET mine == {i \in DOMAIN doc : doc[i].uid = uid}
      masters == {i \in mine : ~IsOverride(doc[i])}
  IN First(IF masters # {} THEN masters ELSE IF mine # {} THEN mine ELSE DOMAIN doc)

\* patch_document, of a block `raw` that was read from the document.
PatchDocument(doc, raw, edits, now) ==
  LET patched == PatchBlock(raw, Updated(Parsed(raw), edits, now), edits, now)
      out == IF doc = <<>> THEN <<patched>> ELSE [doc EXCEPT ![Target(doc, raw.uid)] = patched]
  IN IF "rule" \in DOMAIN edits /\ edits.rule = Unreadable THEN Refused
     ELSE IF "rsvp" \in DOMAIN edits THEN ApplyRsvp(out, edits.rsvp) ELSE out

\* apply_local_calendar_edit: the event is read from the stored document.
ApplyLocalEdit(doc, uid, edits, now) ==
  PatchDocument(doc, doc[First({i \in DOMAIN doc : doc[i].uid = uid})], edits, now)

-----------------------------------------------------------------------------
(* Occurrences *)

Overlaps(start, finish, from, to) == start < to /\ finish > from

\* Mutant of Lookback: occurrences that begin in the window.
NoLookback(c) == 0

\* How far before the window an occurrence may begin that reaches into it.
Lookback(c) == IF Finish(c) > c.start THEN Finish(c) - c.start ELSE 0

\* expand_rrule_occurrences: starts, by the rule, in the window and not excluded.
RuleStarts(c, from, to) ==
  LET count == IF c.rule[2] = 0 THEN Horizon ELSE c.rule[2]
      slots == {c.start + k * c.rule[1] : k \in 0 .. (count - 1)}
      near == {s \in slots \ c.except : from - Lookback(c) <= s /\ s <= to}
      capped == {s \in near : Cardinality({r \in near : r < s}) < MaxExpanded}
  IN {s \in capped : Overlaps(s, s + Finish(c) - c.start, from, to)}

\* expand_occurrences
Starts(c, from, to) ==
  IF c.rule \in {NoRule, Unreadable}
  THEN {s \in {c.start} : Overlaps(s, Finish(c), from, to)}
  ELSE RuleStarts(c, from, to)

\* expand_document_occurrences: an override takes the place of the occurrence
\* it names, at its own time, and a cancelled one removes it.
Expand(doc, from, to) ==
  LET master == doc[MasterIndex(doc)]
      overrides == {i \in DOMAIN doc : IsOverride(doc[i])}
      claimed == {doc[i].rid : i \in overrides}
      own == IF doc = <<>> \/ IsOverride(master) THEN {} ELSE Starts(master, from, to) \ claimed
      moved == {i \in overrides : /\ doc[i].status # "CANCELLED"
                                  /\ Overlaps(doc[i].start, Finish(doc[i]), from, to)}
      all == {<<s, s + Finish(master) - master.start, MasterIndex(doc)>> : s \in own}
               \cup {<<doc[i].start, Finish(doc[i]), i>> : i \in moved}
  IN SetToSortSeq(all, LAMBDA p, q : p[1] < q[1] \/ (p[1] = q[1] /\ p[3] < q[3]))

=============================================================================
