------------------------------ MODULE GoogleDoc ------------------------------
(***************************************************************************)
(* jadav/google.rs: an event of the Calendar API and the VEVENT it is      *)
(* mirrored as, in both directions. A Google event is a record of its JSON *)
(* fields, "" for a text that is missing; `original` is originalStartTime, *)
(* `link` the conference, `reminders` [default, own] with <<method, lead>>.*)
(***************************************************************************)
EXTENDS CalDoc

Materialized(g, defaults) == IF g.reminders.default THEN [g EXCEPT !.reminders.own = defaults] ELSE g

GoogleToPartstat(says) ==
  CASE says = "accepted" -> "ACCEPTED" [] says = "declined" -> "DECLINED" [] says = "tentative" -> "TENTATIVE"
    [] OTHER -> "NEEDS-ACTION"

PartstatToGoogle(says) ==
  CASE says = "ACCEPTED" -> "accepted" [] says = "DECLINED" -> "declined" [] says = "TENTATIVE" -> "tentative"
    [] OTHER -> "needsAction"

Statuses == [confirmed |-> "CONFIRMED", tentative |-> "TENTATIVE", cancelled |-> "CANCELLED"]
Classes == [default |-> "", public |-> "PUBLIC", private |-> "PRIVATE", confidential |-> "CONFIDENTIAL"]

\* gevent_to_vevent_block: an override has no rule of its own, a link that has
\* no location beside it is the location.
VEventBlock(g, uid, override, skipped) ==
  [uid |-> uid, rid |-> IF override THEN g.original ELSE NoTime,
   start |-> g.start, finish |-> g.finish, length |-> NoTime, allDay |-> g.allDay,
   rule |-> IF override THEN NoRule ELSE g.rule, except |-> IF override THEN {} ELSE g.except \cup skipped,
   title |-> IF g.title = "" THEN "(no title)" ELSE g.title, description |-> g.description,
   location |-> IF g.location # "" THEN g.location ELSE g.link,
   status |-> Statuses[g.status], transparent |-> g.transparent, class |-> Classes[g.visibility],
   sequence |-> g.sequence,
   guests |-> [k \in DOMAIN g.guests |->
                 [who |-> g.guests[k].who, says |-> GoogleToPartstat(g.guests[k].says), optional |-> g.guests[k].optional]],
   alarms |-> [k \in DOMAIN g.reminders.own |-> <<g.reminders.own[k][1], "start", g.reminders.own[k][2]>>]]

\* The occurrences that were cancelled: EXDATEs of the master.
Skipped(exceptions) == {x.original : x \in {e \in ToSet(exceptions) : e.status = "cancelled"}}

\* gevent_group_to_object
GroupDocument(master, exceptions, uid, defaults) ==
  LET live == SelectSeq(exceptions, LAMBDA e : e.status # "cancelled")
  IN <<VEventBlock(Materialized(master, defaults), uid, FALSE, Skipped(exceptions))>>
       \o [k \in DOMAIN live |-> VEventBlock(Materialized(live[k], defaults), uid, TRUE, {})]

-----------------------------------------------------------------------------

SameReminders(a, b) == ToSet(a) = ToSet(b)

\* vevent_to_gevent: the fields of the body. A text or a guest list that is
\* empty is left out, and so are alarms that are not before the start.
EventBody(c, withRule, defaults) ==
  LET kept == SelectSeq(c.alarms, LAMBDA a : a[2] = "start")
      own == [k \in DOMAIN kept |-> <<kept[k][1], kept[k][3]>>]
      reminders == IF own = <<>> \/ SameReminders(own, defaults) THEN [default |-> TRUE, own |-> <<>>]
                   ELSE [default |-> FALSE, own |-> own]
      all == [title |-> c.title, description |-> c.description, location |-> c.location,
              start |-> c.start, finish |-> Finish(c), allDay |-> c.allDay, sequence |-> c.sequence,
              status |-> CHOOSE s \in DOMAIN Statuses : Statuses[s] = c.status,
              visibility |-> CHOOSE v \in DOMAIN Classes : Classes[v] = c.class,
              transparent |-> c.transparent, rule |-> c.rule, except |-> c.except, reminders |-> reminders,
              guests |-> [k \in DOMAIN c.guests |->
                            [who |-> c.guests[k].who, says |-> PartstatToGoogle(c.guests[k].says),
                             optional |-> c.guests[k].optional, resource |-> FALSE]]]
      absent == (IF c.description = "" THEN {"description"} ELSE {}) \cup (IF c.location = "" THEN {"location"} ELSE {})
                  \cup (IF c.guests = <<>> THEN {"guests"} ELSE {})
                  \cup (IF withRule THEN {} ELSE {"rule", "except"})
  IN [f \in DOMAIN all \ absent |-> all[f]]

\* What a PATCH makes of the event: a field that is not sent stays.
PatchEvent(g, body) == [f \in DOMAIN g |-> IF f \in DOMAIN body THEN body[f] ELSE g[f]]

-----------------------------------------------------------------------------

Rings(g, defaults) == IF g.reminders.default THEN ToSet(defaults) ELSE ToSet(g.reminders.own)

\* An event that is written back as it was read is left as it was at Google:
\* its times, rule, status, reminders, and the answers of its guests. Not so a
\* missing title or location, reminders that were switched off, and the mark of
\* a room, which are excepted here.
WritesBackAlike(g, defaults) ==
  LET block == VEventBlock(Materialized(g, defaults), "u", FALSE, {})
      back == PatchEvent(g, EventBody(block, TRUE, defaults))
      seen(list) == [k \in DOMAIN list |-> <<list[k].who, list[k].says, list[k].optional>>]
  IN /\ \A f \in DOMAIN g \ {"title", "location", "reminders", "guests"} : back[f] = g[f]
     /\ g.title # "" => back.title = g.title
     /\ (g.location # "" \/ g.link = "") => back.location = g.location
     /\ (g.reminders.default \/ g.reminders.own # <<>>) => Rings(back, defaults) = Rings(g, defaults)
     /\ seen(back.guests) = seen(g.guests)

\* A series shows the same occurrences here and at Google: those of its rule,
\* less those that were cancelled or moved, and the moved ones at their place.
ShowsAlike(master, exceptions, from, to) ==
  LET doc == GroupDocument(master, exceptions, "u", <<>>)
      here == Expand(doc, from, to)
      gone == {e.original : e \in ToSet(exceptions)} \cup master.except
      length == master.finish - master.start
      slots == {master.start + k * master.rule[1] : k \in 0 .. (master.rule[2] - 1)}
      there == {<<s, s + length>> : s \in slots \ gone}
                 \cup {<<e.start, e.finish>> : e \in {x \in ToSet(exceptions) : x.status # "cancelled"}}
  IN {<<here[k][1], here[k][2]>> : k \in DOMAIN here} = {o \in there : Overlaps(o[1], o[2], from, to)}
=============================================================================
