---------------------------- MODULE JadavStore ----------------------------
(***************************************************************************)
(* The calendar store of jadav (src/jadav/store.rs) and the requests its   *)
(* CalDAV server (src/jadav/server.rs) answers from it: PUT and DELETE of  *)
(* an object, MKCALENDAR and DELETE of a calendar, the sync-collection     *)
(* REPORT, and the hourly compaction of the change log.                    *)
(*                                                                         *)
(* One transaction of the store is one step; statements outside a          *)
(* transaction are steps of their own.  A REPORT reads the baseline, the   *)
(* head, the rows of the log and each object one statement at a time, and  *)
(* every other request, the mirror threads and the compaction may commit   *)
(* in between.                                                             *)
(*                                                                         *)
(* An ETag is a hash of the stored bytes, so a document stands for its     *)
(* ETag.  A sync token is the change-log id it names; 0 is no token.       *)
(***************************************************************************)
EXTENDS Integers, FiniteSets

CONSTANTS
    Slug,       \* calendars, by the path segment that names them
    Href,       \* the names of objects within a calendar
    Uid,        \* the UIDs of events
    Text,       \* the contents an event can have
    Client,     \* CalDAV clients
    MaxId,      \* bound: ids the change log hands out
    MaxInc      \* bound: times a calendar is created

ASSUME JadavAssumption ==
    /\ MaxId \in Nat
    /\ MaxInc \in Nat

VARIABLES
    cal,      \* calendars: does it exist, has it a remote, sync_baseline_id, mirror_pushed_log_id
    obj,      \* objects
    log,      \* change_log
    seq,      \* sqlite_sequence of change_log: the highest id ever handed out
    view,     \* per client: the document it holds for an href, and its ETag
    tok,      \* per client: its sync token for a calendar
    req,      \* per client: the request in flight
    inc,      \* history: how often the calendar has been created
    minted,   \* history: the incarnation of the calendar a client's token is from
    lastId,   \* history: the log id of the last change of an href
    misled    \* history: calendars a client was answered about from a predecessor's token
              \* or across a compaction

storeVars  == <<cal, obj, log, seq>>
clientVars == <<view, tok>>
ghostVars  == <<inc, minted, lastId, misled>>
vars == <<cal, obj, log, seq, view, tok, req, inc, minted, lastId, misled>>

----------------------------------------------------------------------------
Doc   == [uid: Uid, text: Text]
NoDoc == [kind |-> "none"]

\* What an answer in the making says of an href it does not mention.
Unsaid == [kind |-> "unsaid"]

Object   == [doc: Doc \cup {NoDoc}, soft: BOOLEAN]
NoObject == [doc |-> NoDoc, soft |-> FALSE]

\* A soft-deleted row stays until the mirror has pushed the delete; no client sees it.
Content(s, h) == IF obj[s][h].soft THEN NoDoc ELSE obj[s][h].doc
Holds(s, h, u) == obj[s][h].doc # NoDoc /\ obj[s][h].doc.uid = u

Calendar == [live: BOOLEAN, mirrored: BOOLEAN, base: Nat, pushed: Nat]
Mirrored(s) == cal[s].mirrored
LogRow   == [id: Nat, href: Href, deleted: BOOLEAN]
Ids(s)   == {r.id : r \in log[s]}

\* ctag: max(baseline, MAX(change_log.id)).
IsHead(s, n) ==
    /\ n \in {cal[s].base} \cup Ids(s)
    /\ cal[s].base <= n
    /\ \A m \in Ids(s) : m <= n

\* The newest row of each href.
Latest(s) == {r \in log[s] : \A q \in log[s] : q.href = r.href => q.id <= r.id}

NoReq == [at |-> "idle"]
\* A PUT whose transaction has committed and whose answer is still to be made.
PutReq == [at: {"put"}, slug: Slug, href: Href, doc: Doc, pre: {"none", "match", "absent"}]
\* A sync-collection REPORT: since the token `since`, having read the baseline and
\* then the head; `left` are the objects it still has to load for its answer.
Report == [at: {"head", "rows", "load"}, slug: Slug, since: Nat, base: Nat, head: Nat,
           inc: Nat, left: SUBSET Href, said: [Href -> Doc \cup {NoDoc, Unsaid}]]

Seen == [doc: Doc \cup {NoDoc}, etag: Doc \cup {NoDoc}]
NotSeen == [doc |-> NoDoc, etag |-> NoDoc]

TypeOK ==
    /\ cal \in [Slug -> Calendar]
    /\ obj \in [Slug -> [Href -> Object]]
    /\ log \in [Slug -> SUBSET LogRow]
    /\ seq \in Nat
    /\ view \in [Client -> [Slug -> [Href -> Seen]]]
    /\ tok \in [Client -> [Slug -> Nat]]
    /\ req \in [Client -> PutReq \cup Report \cup {NoReq}]
    /\ inc \in [Slug -> Nat]
    /\ minted \in [Client -> [Slug -> Nat]]
    /\ lastId \in [Slug -> [Href -> Nat]]
    /\ misled \in [Client -> SUBSET ({"predecessor", "compaction"} \X Slug)]

\* reconcile_calendars on an empty store.
Init ==
    /\ cal \in [Slug -> [live: {TRUE}, mirrored: BOOLEAN, base: {0}, pushed: {0}]]
    /\ obj = [s \in Slug |-> [h \in Href |-> NoObject]]
    /\ log = [s \in Slug |-> {}]
    /\ seq = 0
    /\ view = [c \in Client |-> [s \in Slug |-> [h \in Href |-> NotSeen]]]
    /\ tok = [c \in Client |-> [s \in Slug |-> 0]]
    /\ req = [c \in Client |-> NoReq]
    /\ inc = [s \in Slug |-> 1]
    /\ minted = [c \in Client |-> [s \in Slug |-> 0]]
    /\ lastId = [s \in Slug |-> [h \in Href |-> 0]]
    /\ misled = [c \in Client |-> {}]

----------------------------------------------------------------------------
(* Writes.                                                                 *)

\* Mutant of HighWater: the highest id still in a log, which is what a rowid without
\* AUTOINCREMENT goes by.
HighWaterOfLog ==
    LET ids == {0} \cup UNION {Ids(t) : t \in Slug} IN
    CHOOSE n \in ids : \A m \in ids : m <= n

\* AUTOINCREMENT, and change_log_high_water: rows that are gone count too.
HighWater == seq

\* INSERT INTO change_log.
Append(s, h, deleted) ==
    /\ HighWater < MaxId
    /\ seq' = HighWater + 1
    /\ log' = [log EXCEPT ![s] =
                 @ \cup {[id |-> HighWater + 1, href |-> h, deleted |-> deleted]}]
    /\ lastId' = [lastId EXCEPT ![s][h] = HighWater + 1]

\* put_object_with, its preconditions apart: a live object keeps its UID, a live
\* object elsewhere keeps it from being used again, a soft-deleted leftover that
\* holds it is retired.
StoreDoc(s, h, d) ==
    /\ cal[s].live
    /\ Content(s, h) # NoDoc => Holds(s, h, d.uid)
    /\ \A g \in Href \ {h} : Holds(s, g, d.uid) => obj[s][g].soft
    /\ obj' = [obj EXCEPT ![s] =
                 [g \in Href |-> IF g = h THEN [doc |-> d, soft |-> FALSE]
                                 ELSE IF Holds(s, g, d.uid) THEN NoObject
                                 ELSE obj[s][g]]]
    /\ Append(s, h, FALSE)

\* delete_object_with, its preconditions apart.
RemoveDoc(s, h, soft) ==
    /\ Content(s, h) # NoDoc
    /\ obj' = [obj EXCEPT ![s][h] = IF soft THEN [@ EXCEPT !.soft = TRUE] ELSE NoObject]
    /\ Append(s, h, TRUE)

\* precondition_holds, for the ETag the client has for the href.
Holding(c, s, h, pre) ==
    CASE pre = "none"   -> TRUE
      [] pre = "match"  -> /\ view[c][s][h].etag # NoDoc
                           /\ view[c][s][h].etag = Content(s, h)
      [] pre = "absent" -> Content(s, h) = NoDoc

\* A client's PUT, as far as its transaction.
Put(c, s, h, d, pre) ==
    /\ req[c] = NoReq
    /\ Holding(c, s, h, pre)
    /\ StoreDoc(s, h, d)
    /\ req' = [req EXCEPT ![c] = [at |-> "put", slug |-> s, href |-> h, doc |-> d,
                                  pre |-> pre]]
    /\ UNCHANGED <<cal, clientVars, inc, minted, misled>>

\* The answer of a PUT: put_object_with reads the object again after the commit,
\* and the answer carries the ETag of what it finds, or none.
PutAnswer(c) ==
    /\ req[c].at = "put"
    /\ LET r == req[c] IN
       view' = [view EXCEPT ![c][r.slug][r.href] =
                  [doc |-> r.doc, etag |-> Content(r.slug, r.href)]]
    /\ req' = [req EXCEPT ![c] = NoReq]
    /\ UNCHANGED <<storeVars, tok, ghostVars>>

\* A client's DELETE; its answer may be lost.
Delete(c, s, h, pre) ==
    /\ req[c] = NoReq
    /\ pre # "absent" /\ Holding(c, s, h, pre)
    /\ RemoveDoc(s, h, Mirrored(s))
    /\ \/ view' = [view EXCEPT ![c][s][h] = NotSeen]
       \/ UNCHANGED view
    /\ UNCHANGED <<cal, tok, req, inc, minted, misled>>

\* apply_remote_locally of the mirror, or an event accepted from mail.
OtherPut(s, h, d) ==
    /\ StoreDoc(s, h, d)
    /\ UNCHANGED <<cal, clientVars, req, inc, minted, misled>>

\* The mirror removes what is gone on the remote.
MirrorDelete(s, h) ==
    /\ Mirrored(s)
    /\ RemoveDoc(s, h, FALSE)
    /\ UNCHANGED <<cal, clientVars, req, inc, minted, misled>>

\* finalize_client_delete
FinalizeDelete(s, h) ==
    /\ Mirrored(s) /\ obj[s][h].soft
    /\ obj' = [obj EXCEPT ![s][h] = NoObject]
    /\ UNCHANGED <<cal, log, seq, clientVars, req, ghostVars>>

\* The last statement of a mirror pass: set_mirror_pushed_log_id(ctag).
MirrorPassEnd(s) ==
    /\ Mirrored(s) /\ cal[s].live
    /\ \E n \in 0 .. seq :
          /\ IsHead(s, n)
          /\ cal' = [cal EXCEPT ![s].pushed = IF @ < n THEN n ELSE @]
    /\ UNCHANGED <<obj, log, seq, clientVars, req, ghostVars>>

----------------------------------------------------------------------------
(* Calendars and compaction.                                               *)

\* create_calendar, or reconcile_calendars for a configured calendar that is missing:
\* the baseline is change_log_high_water.
CreateCalendar(s) ==
    /\ ~cal[s].live /\ inc[s] < MaxInc
    /\ cal' = [cal EXCEPT ![s] = [live |-> TRUE, mirrored |-> FALSE, base |-> HighWater,
                                     pushed |-> 0]]
    /\ lastId' = [lastId EXCEPT ![s] = [h \in Href |-> HighWater]]
    /\ inc' = [inc EXCEPT ![s] = @ + 1]
    /\ UNCHANGED <<obj, log, seq, clientVars, req, minted, misled>>

\* Mutant of DeleteCalendar: the calendar's change log is left behind.
DeleteCalendarKeepsLog(s) ==
    /\ cal[s].live /\ ~Mirrored(s)
    /\ cal' = [cal EXCEPT ![s] = [cal[s] EXCEPT !.live = FALSE, !.base = 0, !.pushed = 0]]
    /\ obj' = [obj EXCEPT ![s] = [h \in Href |-> NoObject]]
    /\ UNCHANGED <<log, seq, clientVars, req, ghostVars>>

\* delete_calendar: the objects cascade, the log goes too; a mirrored calendar is
\* refused by the server.
DeleteCalendar(s) ==
    /\ cal[s].live /\ ~Mirrored(s)
    /\ cal' = [cal EXCEPT ![s] = [cal[s] EXCEPT !.live = FALSE, !.base = 0, !.pushed = 0]]
    /\ obj' = [obj EXCEPT ![s] = [h \in Href |-> NoObject]]
    /\ log' = [log EXCEPT ![s] = {}]
    /\ UNCHANGED <<seq, clientVars, req, ghostVars>>

\* The newest id that is too old to keep; for a mirrored calendar not past the cursor.
Cutoff(s, old) == IF Mirrored(s) /\ cal[s].pushed < old THEN cal[s].pushed ELSE old

\* Mutant of Compact: the baseline stays where it was.
CompactKeepsBaseline(old) ==
    /\ \A s \in Slug : old[s] \in {0} \cup Ids(s)
    /\ log' = [s \in Slug |-> {r \in log[s] : r.id > Cutoff(s, old[s])}]
    /\ UNCHANGED <<cal, obj, seq, clientVars, req, ghostVars>>

\* compact_change_log, all calendars in one transaction; `old` is, per calendar, the
\* newest row past its retention, or 0.
Compact(old) ==
    /\ \A s \in Slug : old[s] \in {0} \cup Ids(s)
    /\ log' = [s \in Slug |-> {r \in log[s] : r.id > Cutoff(s, old[s])}]
    /\ cal' = [s \in Slug |-> IF cal[s].base < Cutoff(s, old[s])
                              THEN [cal[s] EXCEPT !.base = Cutoff(s, old[s])]
                              ELSE cal[s]]
    /\ UNCHANGED <<obj, seq, clientVars, req, ghostVars>>

----------------------------------------------------------------------------
(* The sync-collection REPORT.                                             *)

\* changes_since reads the calendar, and with it the baseline.
BeginReport(c, s) ==
    /\ req[c] = NoReq
    /\ cal[s].live
    /\ req' = [req EXCEPT ![c] =
                 [at |-> "head", slug |-> s, since |-> tok[c][s], base |-> cal[s].base,
                  head |-> 0, inc |-> inc[s], left |-> {},
                  said |-> [h \in Href |-> Unsaid]]]
    /\ UNCHANGED <<storeVars, clientVars, ghostVars>>

Refused(r, n) == r.since # 0 /\ (r.since < r.base \/ r.since > n)

\* A token of an earlier calendar of that name passes for one of this calendar in two
\* cases: it is the new baseline itself, or the calendar is deleted and made again
\* between the two reads.
PassesForOwn(c, r) ==
    /\ r.since # 0
    /\ minted[c][r.slug] # inc[r.slug]
    /\ r.since = r.base \/ r.inc # inc[r.slug]

\* ctag, then the checks of the token; a client that is refused starts over.
ReadHead(c) ==
    LET r == req[c] IN
    /\ r.at = "head" /\ cal[r.slug].live
    /\ \E n \in 0 .. seq :
          /\ IsHead(r.slug, n)
          /\ IF Refused(r, n)
             THEN /\ req' = [req EXCEPT ![c] = NoReq]
                  /\ tok' = [tok EXCEPT ![c][r.slug] = 0]
                  /\ UNCHANGED misled
             ELSE /\ req' = [req EXCEPT ![c].at = "rows", ![c].head = n,
                                        ![c].inc = inc[r.slug]]
                  /\ misled' = [misled EXCEPT ![c] = @ \cup
                        {w \in {<<"predecessor", r.slug>>} : PassesForOwn(c, r)}]
                  /\ UNCHANGED tok
    /\ UNCHANGED <<storeVars, view, inc, minted, lastId>>

\* The rows of the log past the token, the newest of each href.
Changes(s, since) == {q \in Latest(s) : q.id > since}

\* The SELECT of changes_since: all live members, or the rows past the token.
ReadRows(c) ==
    LET r == req[c]
        rows == Changes(r.slug, r.since)
        members == {h \in Href : Content(r.slug, h) # NoDoc}
        gone == {q.href : q \in {p \in rows : p.deleted}}
        changed == {q.href : q \in {p \in rows : ~p.deleted}}
    IN
    /\ r.at = "rows"
    /\ req' = [req EXCEPT ![c].at = "load",
                          ![c].left = IF r.since = 0 THEN members ELSE changed,
                          ![c].said = IF r.since = 0 THEN r.said
                                      ELSE [h \in Href |-> IF h \in gone THEN NoDoc
                                                           ELSE Unsaid]]
    /\ misled' = [misled EXCEPT ![c] = @ \cup
          {w \in {<<"compaction", r.slug>>} : r.since # 0 /\ r.since < cal[r.slug].base}]
    /\ UNCHANGED <<storeVars, clientVars, inc, minted, lastId>>

\* get_object for one row of the answer; 404 when it is gone by now.
LoadObject(c, h) ==
    LET r == req[c] IN
    /\ r.at = "load" /\ h \in r.left
    /\ req' = [req EXCEPT ![c].left = @ \ {h}, ![c].said[h] = Content(r.slug, h)]
    /\ UNCHANGED <<storeVars, clientVars, ghostVars>>

\* The client applies the answer: what an initial sync leaves out is gone.
Deliver(c) ==
    LET r == req[c]
        told(h) == IF r.said[h] = Unsaid
                   THEN IF r.since = 0 THEN NotSeen ELSE view[c][r.slug][h]
                   ELSE [doc |-> r.said[h], etag |-> r.said[h]]
    IN
    /\ r.at = "load" /\ r.left = {}
    /\ view' = [view EXCEPT ![c][r.slug] = [h \in Href |-> told(h)]]
    /\ tok' = [tok EXCEPT ![c][r.slug] = r.head]
    /\ minted' = [minted EXCEPT ![c][r.slug] = r.inc]
    /\ misled' = IF r.since = 0
                 THEN [misled EXCEPT ![c] = @ \ ({"predecessor", "compaction"} \X {r.slug})]
                 ELSE misled
    /\ req' = [req EXCEPT ![c] = NoReq]
    /\ UNCHANGED <<storeVars, inc, lastId>>

\* The connection breaks, the server restarts, or changes_since fails.
Drop(c) ==
    /\ req[c] # NoReq
    /\ req' = [req EXCEPT ![c] = NoReq]
    /\ UNCHANGED <<storeVars, clientVars, ghostVars>>

----------------------------------------------------------------------------
Next ==
    \/ \E c \in Client :
          \/ \E s \in Slug : BeginReport(c, s)
          \/ ReadHead(c) \/ ReadRows(c) \/ Deliver(c) \/ Drop(c) \/ PutAnswer(c)
          \/ \E h \in Href : LoadObject(c, h)
          \/ \E s \in Slug, h \in Href, pre \in {"none", "match", "absent"} :
                \/ \E d \in Doc : Put(c, s, h, d, pre)
                \/ Delete(c, s, h, pre)
    \/ \E s \in Slug, h \in Href :
          \/ \E d \in Doc : OtherPut(s, h, d)
          \/ MirrorDelete(s, h) \/ FinalizeDelete(s, h)
    \/ \E s \in Slug : MirrorPassEnd(s) \/ CreateCalendar(s) \/ DeleteCalendar(s)
    \/ \E old \in [Slug -> 0 .. seq] : Compact(old)

Spec == Init /\ [][Next]_vars
============================================================================
