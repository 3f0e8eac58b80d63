-------------------------------- MODULE ItipDoc -------------------------------
(***************************************************************************)
(* itip.rs, on documents with recurrence overrides: which blocks a message *)
(* carries, and what applying one does to the blocks that are stored. Who  *)
(* is told of what, and when, is Scheduling's.                             *)
(***************************************************************************)
EXTENDS CalDoc

CONSTANT NoDoc  \* nothing is stored

Replaced(doc, c) == LET i == ComponentIndex(doc, c.rid)
                    IN IF i # 0 /\ IsOverride(c) THEN [doc EXCEPT ![i] = c] ELSE Append(doc, c)

-----------------------------------------------------------------------------
(* What is sent *)

\* filter_component of a whole block: alarms and SCHEDULE-* are private.
Filtered(c) == StripAlarms(StripParams(<<c>>))[1]

\* filter_component of the few lines an answer or a cancellation has, with the
\* guest line of `who` only.
Excerpt(c, who) ==
  [Filtered(c) EXCEPT !.rule = NoRule, !.except = {}, !.other = "",
                      !.guests = SelectSeq(@, LAMBDA g : g.who = who)]

Stamped(c, sequence, now) == [c EXCEPT !.sequence = sequence, !.stamp = now]

Of(doc, keep(_)) == SelectSeq(doc, keep)

\* Mutant of BuildRequest: the overrides go to everybody.
BuildRequestWithAll(doc, who, sequence, now) ==
  LET invited == IsGuest(doc[MasterIndex(doc)], who)
      sent == Of(doc, LAMBDA c : IsOverride(c) \/ invited)
  IN [k \in DOMAIN sent |-> Filtered(Stamped(sent[k], sequence, now))]

\* build_request_ics: the master for who is on it, and the overrides they are on.
BuildRequest(doc, who, sequence, now) ==
  LET sent == Of(doc, LAMBDA c : IsGuest(c, who))
  IN [k \in DOMAIN sent |-> Filtered(Stamped(sent[k], sequence, now))]

\* build_cancel_ics, of the whole object or of one occurrence.
BuildCancel(doc, who, sequence, rid, now) ==
  LET sent == Of(doc, LAMBDA c : rid = NoTime \/ c.rid = rid)
  IN [k \in DOMAIN sent |-> [Excerpt(Stamped(sent[k], sequence, now), who) EXCEPT !.status = "CANCELLED"]]

\* build_reply_ics, for the blocks whose answer is new.
BuildReply(doc, who, rids, says, now) ==
  LET there == SelectSeq(rids, LAMBDA r : ComponentIndex(doc, r) # 0)
      mine(r) == Stamped(doc[ComponentIndex(doc, r)], doc[ComponentIndex(doc, r)].sequence, now)
      answered(g) == [g EXCEPT !.says = says, !.asked = FALSE]
  IN [k \in DOMAIN there |-> Excerpt(RewriteGuest(mine(there[k]), who, answered), who)]

OwnPartstat(c, who) == c.guests[First({k \in DOMAIN c.guests : c.guests[k].who = who})].says

\* attendee_side: the blocks in which our own answer became a real one.
Answered(old, new, who) ==
  LET before(c) == ComponentIndex(old, c.rid)
      real(c) == IsGuest(c, who) /\ OwnPartstat(c, who) # "NEEDS-ACTION"
      same(c) == /\ before(c) # 0 /\ IsGuest(old[before(c)], who)
                 /\ OwnPartstat(old[before(c)], who) = OwnPartstat(c, who)
  IN Of(new, LAMBDA c : real(c) /\ ~same(c))

-----------------------------------------------------------------------------
(* What is received: the document to store, or Refused if none *)

\* The rule of the master skips an occurrence.
RemoveByRule(doc, rid) ==
  IF MasterIndex(doc) = 0 THEN doc ELSE [doc EXCEPT ![MasterIndex(doc)].except = @ \cup {rid}]

\* One occurrence is called off: its override is cancelled, or the rule skips it.
RemoveOne(doc, rid) ==
  IF ComponentIndex(doc, rid) # 0 THEN [doc EXCEPT ![ComponentIndex(doc, rid)].status = "CANCELLED"]
  ELSE RemoveByRule(doc, rid)

SomeMaster(doc) == \E i \in DOMAIN doc : ~IsOverride(doc[i])

ApplyCancel(stored, incoming, now) ==
  LET first == incoming[MasterIndex(incoming)]
      seq == stored[MasterIndex(stored)].sequence
      removed[k \in 0 .. Len(incoming)] ==
        IF k = 0 THEN stored ELSE LET d == removed[k - 1] IN RemoveOne(d, incoming[k].rid)
  IN IF stored = NoDoc \/ first.sequence < seq THEN Refused
     ELSE IF SomeMaster(incoming)
     THEN Touch(SetStatus(stored, "CANCELLED", IF first.sequence < seq THEN seq ELSE first.sequence), now)
     ELSE Touch(removed[Len(incoming)], now)

\* The answers we gave are kept on a fresher copy of the same revision.
KeepAnswers(doc, stored, who) ==
  LET kept[k \in 0 .. Len(stored)] ==
        IF k = 0 THEN doc
        ELSE LET d == kept[k - 1]
                 c == stored[k]
                 i == ComponentIndex(d, c.rid)
             IN IF /\ IsGuest(c, who) /\ OwnPartstat(c, who) # "NEEDS-ACTION"
                   /\ i # 0 /\ IsGuest(d[i], who)
                THEN SetPartstat(d, who, OwnPartstat(c, who), c.rid) ELSE d
  IN kept[Len(stored)]

\* A REQUEST of overrides only is merged into what is stored.
Merged(stored, incoming) ==
  LET merged[k \in 0 .. Len(incoming)] ==
        IF k = 0 THEN stored ELSE LET d == merged[k - 1] IN Replaced(d, incoming[k])
  IN merged[Len(incoming)]

ApplyRequest(stored, incoming, who) ==
  LET new == incoming[MasterIndex(incoming)]
      old == stored[MasterIndex(stored)]
  IN IF stored = NoDoc THEN incoming
     ELSE IF ~SomeMaster(incoming) THEN Merged(stored, incoming)
     ELSE IF new.sequence > old.sequence THEN incoming
     ELSE IF new.sequence < old.sequence \/ new.stamp <= old.stamp THEN Refused
     ELSE KeepAnswers(incoming, stored, who)

\* REPLY: the answers, for the blocks the organizer has.
ApplyReply(stored, incoming, now) ==
  LET says(c) == c.guests[1].says
      news(d, c) == LET i == ComponentIndex(d, c.rid)
                    IN /\ i # 0 /\ c.guests # <<>> /\ IsGuest(d[i], c.guests[1].who)
                       /\ OwnPartstat(d[i], c.guests[1].who) # says(c)
      told[k \in 0 .. Len(incoming)] ==
        IF k = 0 THEN stored
        ELSE LET d == told[k - 1] IN
             IF news(d, incoming[k])
             THEN SetPartstat(d, incoming[k].guests[1].who, says(incoming[k]), incoming[k].rid) ELSE d
  IN IF stored = NoDoc \/ told[Len(incoming)] = stored THEN Refused
     ELSE IF incoming[MasterIndex(incoming)].sequence < stored[MasterIndex(stored)].sequence THEN Refused
     ELSE Touch(told[Len(incoming)], now)

=============================================================================
