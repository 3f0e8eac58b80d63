----------------------------- MODULE Scheduling -----------------------------
(*
  Meeting invitations between two jadav servers: the iTIP broker (itip.rs), the
  iMIP transport (imip.rs) and the client writes that start them (server.rs,
  store.rs).

  "org" is the server of the organizer of one meeting, "att" the server of its
  one attendee; both run the same code. On each side live the stored object, the
  outbound queue, the worker that mails it, the watcher that reads the mailbox,
  and one CalDAV client. An object is <<>> (not stored) or <<doc>>.

  Mail is a reference <<side, row>> into the queue of its sender, which is never
  emptied, so a message and its copies share a Message-ID. The watched folders of
  a side are one mailbox: an entry's UID is its position, and a message moved to
  another watched folder appears again under a new UID.
*)
EXTENDS Naturals, Sequences, SequencesExt, FiniteSets

CONSTANTS
    When,       \* values of the significant properties (DTSTART, RRULE, ...)
    OrgEdits, AttEdits,  \* client writes of each side
    MaxSeq,     \* bound on SEQUENCE
    MaxNow,     \* bound on the clock, in the seconds DTSTAMP counts
    MaxTries,   \* [Side -> Nat] retries after which a message is over retry_max_age_secs
    MaxFaults,  \* crashes, losses, refusals, moves and renumberings together
    Budgets     \* {<<m, n, f>>}: how many of OrgEdits, AttEdits and MaxFaults go together

ASSUME SchedulingAssumption ==
    /\ When # {}
    /\ {OrgEdits, AttEdits, MaxSeq, MaxNow, MaxFaults} \subseteq Nat
    /\ Budgets \subseteq (0..OrgEdits) \X (0..AttEdits) \X (0..MaxFaults)
    /\ MaxTries \in [{"org", "att"} -> Nat]

VARIABLES
    obj,        \* [Side -> <<>> or <<doc>>]   objects table
    out,        \* [Side -> Seq(row)]          outbound_queue table
    wire,       \* set of mail references on their way
    box,        \* [Side -> Seq(reference)]    the watched mailbox
    cursor,     \* [Side -> Nat]               imap_cursor
    seen,       \* [Side -> set of UIDs]       imap_seen
    processed,  \* [Side -> set of references] imip_processed, by Message-ID
    cli,        \* [Side -> request of the client being served, or <<>>]
    work,       \* [Side -> row the outbound worker is at, or <<>>]
    watch,      \* [Side -> message the inbound watcher is at, or <<>>]
    edits,      \* [Side -> Nat]  client writes so far
    now, faults,
    applied,    \* history: [Side -> [reference -> times its decision was written]]
    removed,    \* history: sides whose client deleted the object
    blind,      \* history: sides where a write without a precondition replaced
                \* something that was committed after it was prepared
    lost        \* history: references that can no longer be applied

store == <<obj, out, cursor, seen, processed>>
procs == <<cli, work, watch>>
vars == <<store, procs, wire, box, edits, now, faults, applied, removed, blind, lost>>

Side == {"org", "att"}
Other(s) == IF s = "org" THEN "att" ELSE "org"
Answer == {"ACCEPTED", "DECLINED"}

Doc == [seq : 0..MaxSeq, stamp : 0..MaxNow, when : When,
        status : {"CONFIRMED", "CANCELLED"}, on : BOOLEAN,
        ps : Answer \cup {"NEEDS-ACTION"}, sent : {"", "1.0", "1.1", "5.1"}]

Message == [method : {"REQUEST", "CANCEL", "REPLY"}, doc : Doc]

Row == [msg : Message, state : {"pending", "sent", "failed"}, due : BOOLEAN, tries : Nat]

Ref == Side \X (1..(OrgEdits + AttEdits))

MessageOf(r) == out[r[1]][r[2]].msg

IsCancelled(d) == d.status = "CANCELLED"

Touch(d, t) == [d EXCEPT !.stamp = t]

------------------------------------------------------------------------------
(* The broker: what a client write means in scheduling terms. *)

\* Nobody (rooms, SCHEDULE-AGENT=CLIENT and addresses that are no mailbox are
\* outside the model) but the attendee is ever mailed by the organizer.
Recipients(d) == IF d.on THEN {"att"} ELSE {}

IsSignificantChange(old, new) == old.when # new.when \/ old.status # new.status

BuildRequest(d, seq, t) ==
    [method |-> "REQUEST", doc |-> [d EXCEPT !.seq = seq, !.stamp = t, !.sent = ""]]

BuildCancel(d, seq, t) ==
    [method |-> "CANCEL",
     doc |-> [d EXCEPT !.seq = seq, !.stamp = t, !.status = "CANCELLED", !.sent = ""]]

BuildReply(d, partstat, t) ==
    [method |-> "REPLY", doc |-> [d EXCEPT !.stamp = t, !.ps = partstat, !.sent = ""]]

Nothing(new) == [doc |-> new, msgs |-> <<>>]

OrganizerDeletes(old, t) ==
    [doc |-> <<>>,
     msgs |-> IF IsCancelled(old) \/ Recipients(old) = {}
              THEN <<>> ELSE <<BuildCancel(old, old.seq + 1, t)>>]

OrganizerCreates(new, t) ==
    IF IsCancelled(new) \/ Recipients(new) = {}
    THEN Nothing(<<new>>)
    ELSE [doc |-> <<[new EXCEPT !.sent = "1.0"]>>, msgs |-> <<BuildRequest(new, new.seq, t)>>]

\* SEQUENCE is bumped when attendees must know and the client did not do it.
NeedsBump(old, new) == IsSignificantChange(old, new) /\ ~(new.seq > old.seq)

OrganizerUpdates(old, new, t) ==
    LET bumped  == new.seq > old.seq
        seq     == IF NeedsBump(old, new) THEN old.seq + 1 ELSE new.seq
        stored  == [new EXCEPT !.seq = seq]
        became  == IsCancelled(new) /\ ~IsCancelled(old)
        gone    == Recipients(old) # {} /\ (became \/ Recipients(new) = {})
        invited == ~became /\ Recipients(new) # {}
                   /\ (Recipients(old) = {} \/ IsSignificantChange(old, new) \/ bumped)
        cancel  == BuildCancel(IF became THEN new ELSE old, IF seq > old.seq THEN seq ELSE old.seq, t)
    IN  [doc  |-> <<[stored EXCEPT !.sent = IF invited THEN "1.0" ELSE @]>>,
         msgs |-> IF gone THEN <<cancel>>
                  ELSE IF invited THEN <<BuildRequest(new, seq, t)>> ELSE <<>>]

AttendeeDeletes(old, t) ==
    [doc |-> <<>>,
     msgs |-> IF IsCancelled(old) \/ old.ps = "DECLINED"
              THEN <<>> ELSE <<BuildReply(old, "DECLINED", t)>>]

AttendeeUpdates(old, new, t) ==
    IF new.ps \in Answer /\ new.ps # old.ps
    THEN [doc |-> <<[new EXCEPT !.sent = "1.0"]>>, msgs |-> <<BuildReply(new, new.ps, t)>>]
    ELSE Nothing(<<new>>)

\* role_of: on "org" the organizer is ours; on "att" we are an attendee as long as
\* the object lists us.
Broker(s, old, new, t) ==
    CASE s = "org" /\ new = <<>>             -> OrganizerDeletes(old[1], t)
      [] s = "org" /\ old = <<>>             -> OrganizerCreates(new[1], t)
      [] s = "org" /\ old # <<>> /\ new # <<>> -> OrganizerUpdates(old[1], new[1], t)
      [] s = "att" /\ new = <<>>             -> AttendeeDeletes(old[1], t)
      [] s = "att" /\ new # <<>>             -> AttendeeUpdates(old[1], new[1], t)

------------------------------------------------------------------------------
(* The broker: what a received message does to the stored object. A decision is
   <<>> (nothing is written) or <<doc>>. *)

ApplyRequest(stored, in) ==
    LET old == stored[1]
        keep == IF old.ps \in Answer THEN [in EXCEPT !.ps = old.ps] ELSE in
    IN  CASE stored = <<>>                                        -> <<in>>
          [] stored # <<>> /\ in.seq > old.seq                    -> <<in>>
          [] stored # <<>> /\ in.seq < old.seq                    -> <<>>
          [] stored # <<>> /\ in.seq = old.seq                    ->
                IF in.stamp > old.stamp THEN <<keep>> ELSE <<>>

ApplyCancel(stored, in, t) ==
    IF stored = <<>> \/ (stored # <<>> /\ in.seq < stored[1].seq) THEN <<>>
    ELSE <<Touch([stored[1] EXCEPT !.status = "CANCELLED", !.seq = in.seq], t)>>

ApplyReply(stored, in, t) ==
    IF stored = <<>> \/ (stored # <<>> /\ (in.seq < stored[1].seq \/ ~stored[1].on
                                            \/ in.ps = stored[1].ps))
    THEN <<>>
    ELSE <<Touch([stored[1] EXCEPT !.ps = in.ps], t)>>

ApplyInbound(stored, msg, t) ==
    CASE msg.method = "REQUEST" -> ApplyRequest(stored, msg.doc)
      [] msg.method = "CANCEL"  -> ApplyCancel(stored, msg.doc, t)
      [] msg.method = "REPLY"   -> ApplyReply(stored, msg.doc, t)

------------------------------------------------------------------------------
Init ==
    /\ obj = [s \in Side |-> <<>>]
    /\ out = [s \in Side |-> <<>>]
    /\ wire = {}
    /\ box = [s \in Side |-> <<>>]
    /\ cursor = [s \in Side |-> 0]
    /\ seen = [s \in Side |-> {}]
    /\ processed = [s \in Side |-> {}]
    /\ cli = [s \in Side |-> <<>>]
    /\ work = [s \in Side |-> <<>>]
    /\ watch = [s \in Side |-> <<>>]
    /\ edits = [s \in Side |-> 0]
    /\ now = 0 /\ faults = 0
    /\ applied = [s \in Side |-> [r \in Ref |-> 0]]
    /\ removed = {} /\ blind = {} /\ lost = {}

(* What a client may write over the copy it holds: an organizer creates the
   meeting once, moves it, invites or uninvites, cancels or restores it, bumps
   SEQUENCE itself or leaves it to the server, or deletes it; an attendee answers,
   with or without a new DTSTAMP, or deletes. *)
Fresh(t) == {[seq |-> 0, stamp |-> t, when |-> w, status |-> "CONFIRMED", on |-> TRUE,
              ps |-> "NEEDS-ACTION", sent |-> ""] : w \in When}

WithSequence(d, n) == [d EXCEPT !.seq = n]

WithAnswer(d, p, t) == [d EXCEPT !.ps = p, !.stamp = t]

OrganizerWrites(d) ==
    LET changed == {[d EXCEPT !.when = w] : w \in When}
                   \cup {[d EXCEPT !.on = ~d.on, !.ps = "NEEDS-ACTION", !.sent = ""]}
                   \cup {[d EXCEPT !.status = c] : c \in {"CONFIRMED", "CANCELLED"}}
    IN  {<<>>} \cup {<<WithSequence(e, n)>> : e \in changed, n \in {d.seq, d.seq + 1}}

AttendeeWrites(d, t) ==
    {<<>>} \cup {<<WithAnswer(d, p, u)>> : p \in Answer, u \in {d.stamp, t}}

ClientWrites(s, t) ==
    IF obj[s] # <<>>
    THEN IF s = "org" THEN OrganizerWrites(obj[s][1]) ELSE AttendeeWrites(obj[s][1], t)
    ELSE IF s = "org" /\ edits[s] = 0 THEN {<<d>> : d \in Fresh(t)} ELSE {}

InBounds(plan) ==
    /\ plan.doc # <<>> => plan.doc[1].seq <= MaxSeq
    /\ \A i \in DOMAIN plan.msgs : plan.msgs[i].doc.seq <= MaxSeq

\* The clock, read when a message is built or applied.
Clock == now'

Time == now' \in now..IF now < MaxNow THEN now + 1 ELSE now

Affordable(e, f) == \E b \in Budgets : e["org"] <= b[1] /\ e["att"] <= b[2] /\ f <= b[3]

Fault == faults < MaxFaults /\ faults' = faults + 1 /\ Affordable(edits, faults')

(* PUT or DELETE, up to the transaction: the object is read and the broker plans
   what to store and whom to mail. *)
Plan(s) ==
    /\ cli[s] = <<>>
    /\ edits[s] < IF s = "org" THEN OrgEdits ELSE AttEdits
    /\ edits' = [edits EXCEPT ![s] = @ + 1] /\ Affordable(edits', faults)
    /\ Time
    /\ \E new \in ClientWrites(s, Clock), g \in BOOLEAN :
         LET plan == Broker(s, obj[s], new, Clock)
         IN  /\ new # obj[s]
             /\ InBounds(plan)
             /\ cli' = [cli EXCEPT ![s] = <<[old |-> obj[s], plan |-> plan, guarded |-> g]>>]
    /\ UNCHANGED <<store, work, watch, wire, box, faults, applied, removed, blind, lost>>

NewRow(m) == [msg |-> m, state |-> "pending", due |-> TRUE, tries |-> 0]

NewRows(msgs) == [i \in DOMAIN msgs |-> NewRow(msgs[i])]

\* Mutant of Commit: If-Match is not compared again in the transaction.
CommitUnchecked(s) ==
    /\ cli[s] # <<>>
    /\ LET r == cli[s][1]
           holds == r.plan.doc = <<>> => obj[s] # <<>>
       IN  /\ obj' = [obj EXCEPT ![s] = IF holds THEN r.plan.doc ELSE @]
           /\ out' = [out EXCEPT ![s] = IF holds THEN @ \o NewRows(r.plan.msgs) ELSE @]
           /\ removed' = IF holds /\ r.plan.doc = <<>> THEN removed \cup {s} ELSE removed
           /\ blind' = IF holds /\ ~r.guarded /\ obj[s] # r.old THEN blind \cup {s} ELSE blind
    /\ cli' = [cli EXCEPT ![s] = <<>>]
    /\ UNCHANGED <<cursor, seen, processed, work, watch, wire, box, edits, now, faults, applied, lost>>

\* put_object_with and delete_object_with: the precondition is checked against
\* the object of the transaction, and the queue rows ride along.
Commit(s) ==
    /\ cli[s] # <<>>
    /\ LET r == cli[s][1]
           holds == (r.guarded => obj[s] = r.old) /\ (r.plan.doc = <<>> => obj[s] # <<>>)
       IN  /\ obj' = [obj EXCEPT ![s] = IF holds THEN r.plan.doc ELSE @]
           /\ out' = [out EXCEPT ![s] = IF holds THEN @ \o NewRows(r.plan.msgs) ELSE @]
           /\ removed' = IF holds /\ r.plan.doc = <<>> THEN removed \cup {s} ELSE removed
           /\ blind' = IF holds /\ ~r.guarded /\ obj[s] # r.old THEN blind \cup {s} ELSE blind
    /\ cli' = [cli EXCEPT ![s] = <<>>]
    /\ UNCHANGED <<cursor, seen, processed, work, watch, wire, box, edits, now, faults, applied, lost>>

\* put_object with Precondition::None of what was made from the object read before.
Replaces(s, w) ==
    /\ obj' = [obj EXCEPT ![s] = IF w.doc = <<>> THEN @ ELSE w.doc]
    /\ blind' = IF w.doc # <<>> /\ obj[s] # w.old THEN blind \cup {s} ELSE blind

------------------------------------------------------------------------------
(* The outbound worker: send, record, stamp SCHEDULE-STATUS on the object. *)

DueRows(s) == {i \in DOMAIN out[s] : out[s][i].state = "pending" /\ out[s][i].due}

\* The worker turns to the oldest row that is due.
Turn(s, i) ==
    /\ work[s] = <<>>
    /\ i \in DueRows(s) /\ \A j \in DueRows(s) : i <= j

\* The mail server accepts the message.
Send(s) ==
    /\ \E i \in DOMAIN out[s] :
         /\ Turn(s, i)
         /\ work' = [work EXCEPT ![s] = <<[row |-> i, at |-> "mark", old |-> <<>>, doc |-> <<>>]>>]
         /\ wire' = wire \cup {<<s, i>>}
    /\ UNCHANGED <<store, cli, watch, box, edits, now, faults, applied, removed, blind, lost>>

\* It refuses for now: the row is due again later ...
Delayed(row) == [row EXCEPT !.tries = @ + 1, !.due = FALSE]

Retry(s) ==
    /\ Fault
    /\ \E i \in DOMAIN out[s] :
         /\ Turn(s, i)
         /\ out[s][i].tries < MaxTries[s]
         /\ out' = [out EXCEPT ![s][i] = Delayed(@)]
    /\ UNCHANGED <<obj, cursor, seen, processed, procs, wire, box, edits, now, applied, removed, blind, lost>>

BackoffEnds(s) ==
    /\ \E i \in DOMAIN out[s] :
         /\ ~out[s][i].due
         /\ out' = [out EXCEPT ![s][i].due = TRUE]
    /\ UNCHANGED <<obj, cursor, seen, processed, procs, wire, box, edits, now, faults, applied, removed, blind, lost>>

\* stamp_status: the object is read, the parameter set on the line it has for the
\* recipient, and the result written without a precondition.
Stamped(s, status) ==
    IF obj[s] = <<>> \/ (obj[s] # <<>> /\ s = "org" /\ ~obj[s][1].on) THEN <<>>
    ELSE <<[obj[s][1] EXCEPT !.sent = status]>>

MarkSent(s) ==
    /\ work[s] # <<>> /\ work[s][1].at = "mark"
    /\ out' = [out EXCEPT ![s][work[s][1].row].state = "sent"]
    /\ work' = [work EXCEPT ![s][1].at = "stamp", ![s][1].old = obj[s],
                                 ![s][1].doc = Stamped(s, "1.1")]
    /\ UNCHANGED <<obj, cursor, seen, processed, cli, watch, wire, box, edits, now, faults, applied, removed, blind, lost>>

\* ... or for good, or after too long.
GiveUp(s) ==
    /\ \E i \in DOMAIN out[s] :
         /\ Turn(s, i)
         /\ out[s][i].tries = MaxTries[s]
         /\ work' = [work EXCEPT ![s] = <<[row |-> i, at |-> "stamp", old |-> obj[s],
                                        doc |-> Stamped(s, "5.1")]>>]
         /\ out' = [out EXCEPT ![s][i].state = "failed"]
         /\ lost' = lost \cup {<<s, i>>}
    /\ UNCHANGED <<obj, cursor, seen, processed, cli, watch, wire, box, edits, now, faults, applied, removed, blind>>

StampWrite(s) ==
    /\ work[s] # <<>> /\ work[s][1].at = "stamp"
    /\ Replaces(s, work[s][1])
    /\ work' = [work EXCEPT ![s] = <<>>]
    /\ UNCHANGED <<out, cursor, seen, processed, cli, watch, wire, box, edits, now, faults, applied, removed, lost>>

------------------------------------------------------------------------------
(* The inbound watcher, one message past the cursor at a time. *)

At(s) == cursor[s] + 1

\* Mutant of IsNew: only the seen table is asked, not the Message-ID.
IsNewByUid(s) == At(s) \notin seen[s]

IsNew(s) == At(s) \notin seen[s] /\ box[s][At(s)] \notin processed[s]

\* Seen in this folder before, or recorded under its Message-ID.
Skip(s) ==
    /\ watch[s] = <<>> /\ cursor[s] < Len(box[s])
    /\ ~IsNew(s)
    /\ seen' = [seen EXCEPT ![s] = @ \cup {At(s)}]
    /\ cursor' = [cursor EXCEPT ![s] = At(s)]
    /\ UNCHANGED <<obj, out, processed, procs, wire, box, edits, now, faults, applied, removed, blind, lost>>

\* A new message is marked seen before anything else; then the object is read and
\* what to do with it decided.
Fetch(s) ==
    /\ watch[s] = <<>> /\ cursor[s] < Len(box[s])
    /\ IsNew(s)
    /\ Time
    /\ seen' = [seen EXCEPT ![s] = @ \cup {At(s)}]
    /\ watch' = [watch EXCEPT ![s] =
                   <<[ref |-> box[s][At(s)], old |-> obj[s],
                      doc |-> ApplyInbound(obj[s], MessageOf(box[s][At(s)]), Clock)]>>]
    /\ UNCHANGED <<obj, out, cursor, processed, cli, work, wire, box, edits, faults, applied, removed, blind, lost>>

\* The object is written with Origin::Inbound.
Written(s) ==
    LET w == watch[s][1]
    IN  /\ Replaces(s, w)
        /\ applied' = IF w.doc = <<>> THEN applied ELSE [applied EXCEPT ![s][w.ref] = @ + 1]

Recorded(s) == processed' = [processed EXCEPT ![s] = @ \cup {watch[s][1].ref}]

Apply(s) ==
    /\ watch[s] # <<>>
    /\ Written(s) /\ Recorded(s)
    /\ cursor' = [cursor EXCEPT ![s] = At(s)]
    /\ watch' = [watch EXCEPT ![s] = <<>>]
    /\ UNCHANGED <<out, seen, cli, work, wire, box, edits, now, faults, removed, lost>>

------------------------------------------------------------------------------
(* The world: mail in transit, and faults. *)

\* Mail arrives in any order.
Deliver ==
    /\ \E r \in wire :
         /\ box' = [box EXCEPT ![Other(r[1])] = Append(@, r)]
         /\ wire' = wire \ {r}
    /\ UNCHANGED <<store, procs, edits, now, faults, applied, removed, blind, lost>>

Lose ==
    /\ Fault
    /\ \E r \in wire :
         /\ wire' = wire \ {r}
         /\ lost' = lost \cup {r}
    /\ UNCHANGED <<store, procs, box, edits, now, applied, removed, blind>>

\* A seen message moves to another watched folder.
Move(s) ==
    /\ Fault
    /\ \E u \in seen[s] : box' = [box EXCEPT ![s] = Append(@, box[s][u])]
    /\ UNCHANGED <<store, procs, wire, edits, now, applied, removed, blind, lost>>

\* The folder gets a new UIDVALIDITY: the cursor no longer matches and the seen
\* table, which is keyed by it, knows none of the messages.
Renumber(s) ==
    /\ Fault
    /\ watch[s] = <<>> /\ seen[s] # {}
    /\ cursor' = [cursor EXCEPT ![s] = 0]
    /\ seen' = [seen EXCEPT ![s] = {}]
    /\ UNCHANGED <<obj, out, processed, procs, wire, box, edits, now, applied, removed, blind, lost>>

(* jadav stops, and its threads with it; the tables stay. The watcher may have
   marked its message seen and no more, written the object, or recorded it too. *)
Crash(s) ==
    /\ Fault
    /\ \/ UNCHANGED <<obj, processed, applied, blind>>
       \/ watch[s] # <<>> /\ Written(s) /\ UNCHANGED processed
       \/ watch[s] # <<>> /\ Written(s) /\ Recorded(s)
    /\ lost' = lost \cup {watch[s][i].ref : i \in DOMAIN watch[s]}
    /\ cli' = [cli EXCEPT ![s] = <<>>]
    /\ work' = [work EXCEPT ![s] = <<>>]
    /\ watch' = [watch EXCEPT ![s] = <<>>]
    /\ UNCHANGED <<out, cursor, seen, wire, box, edits, now, removed>>

Worker(s) == Send(s) \/ Retry(s) \/ MarkSent(s) \/ GiveUp(s) \/ StampWrite(s)
Watcher(s) == Skip(s) \/ Fetch(s) \/ Apply(s)

Next ==
    \/ \E s \in Side : \/ Plan(s) \/ Commit(s)
                       \/ Worker(s) \/ BackoffEnds(s)
                       \/ Watcher(s)
                       \/ Move(s) \/ Renumber(s) \/ Crash(s)
    \/ Deliver \/ Lose

Spec == Init /\ [][Next]_vars

-----------------------------------------------------------------------------
(* What the exchange of invitations promises. *)

Sent(method) == {r \in {"org", "att"} \X (1..Len(out["org"]) \cup 1..Len(out["att"])) :
                   r[2] <= Len(out[r[1]]) /\ MessageOf(r).method = method}

Requests == {MessageOf(r).doc : r \in Sent("REQUEST")}

\* A SEQUENCE names one content: no two requests, nor a request and a copy in force that is
\* stored from it, differ under one number (the CANCEL an uninvited guest gets reuses the last
\* SEQUENCE, so a copy called off may have it with an older time); and a message is carried out
\* once, however often and in whatever folders it arrives, unless its processing broke off.
\* The first holds until a write without a precondition puts back what somebody else had
\* replaced meanwhile (blind): a client without If-Match, the stamp of the worker, the watcher
\* (plan_write, put_object_with, is_new, process_message).
MessagesTellApart ==
    /\ "org" \notin blind =>
          /\ \A q, r \in Requests : q.seq = r.seq => q.when = r.when
          /\ \A q \in Requests :
                obj["att"] # <<>> /\ ~IsCancelled(obj["att"][1]) /\ obj["att"][1].seq = q.seq
                  => obj["att"][1].when = q.when
    /\ \A s \in Side : \A r \in Ref : applied[s][r] > 1 => r \in lost

Quiet ==
    /\ wire = {}
    /\ \A s \in Side : cli[s] = <<>> /\ work[s] = <<>> /\ watch[s] = <<>>
    /\ \A s \in Side : cursor[s] = Len(box[s])
    /\ \A s \in Side : \A i \in DOMAIN out[s] : out[s][i].state # "pending"

\* When all mail is delivered and none was lost, the attendee has the SEQUENCE the organizer
\* last left and, unless that copy is called off, its time: through retries, mail out of order,
\* a crash of either side and every interleaving in which no write without a precondition put
\* back something older (plan_write, run_pass, process_message, apply_inbound). A copy called
\* off may stay so: the CANCEL of an uninvited guest and the REQUEST that invites it again can
\* share a SEQUENCE.
LatestArrives ==
    Quiet /\ lost = {} /\ removed = {} /\ blind = {} /\ obj["org"] # <<>> =>
      LET o == obj["org"][1]
      IN  o.on /\ ~IsCancelled(o) =>
            /\ obj["att"] # <<>>
            /\ LET a == obj["att"][1]
               IN a.seq = o.seq /\ (~IsCancelled(a) => a.when = o.when)

=============================================================================
