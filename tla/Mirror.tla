------------------------------- MODULE Mirror -------------------------------
(***************************************************************************)
(* One mirrored calendar of jadav: the mirror thread (src/jadav/mirror.rs) *)
(* that keeps the calendar of the store and the calendar of a remote       *)
(* equal, the CalDAV clients that write the first, and whoever writes the  *)
(* second.  The remote is another CalDAV server (jadav/caldav_remote.rs).  *)
(*                                                                         *)
(* A pass pushes what clients have written since the last one, then pulls  *)
(* what changed on the remote.  Every request to the remote and every      *)
(* statement of the store is a step; both sides are written in between,    *)
(* and the pass may break off anywhere, as it does on any error.           *)
(*                                                                         *)
(* The remote names an event after its UID, and so does the mirror when it *)
(* stores one; other clients of jadav name theirs as they like.  A version *)
(* is the number of the remote's change, and a sync token the last of the  *)
(* changes it covers; 0 is no token.                                       *)
(***************************************************************************)
EXTENDS Integers, FiniteSets

CONSTANTS
    Uid,        \* the events there can be
    Href,       \* the names of objects in the store; that of an event made here is its UID
    MaxActs,    \* bound: writes of jadav's clients and of the remote's
    MaxFaults   \* bound: passes broken off, rejected tokens

ASSUME MirrorAssumption ==
    /\ Uid \subseteq Href
    /\ MaxActs \in Nat
    /\ MaxFaults \in Nat

VARIABLES
    obj,        \* objects of the calendar, by href
    map,        \* mirror_map, by UID
    token,      \* remote_sync_token
    remote,     \* the remote calendar
    rver,       \* the number of the remote's last change
    attending,  \* events the identity of the calendar merely attends
    pc,         \* the thread: "idle", "push", "pull", "load" or "apply"
    todo,       \* the rows list_objects_to_push returned, not yet dealt with
    job,        \* the object at hand
    batch,      \* the changes list_changes returned, not yet dealt with
    acts, faults

storeVars  == <<obj, map, token>>
remoteVars == <<remote, rver, attending>>
threadVars == <<pc, todo, job, batch>>
boundVars  == <<acts, faults>>
vars == <<obj, map, token, remote, rver, attending, pc, todo, job, batch, acts, faults>>

----------------------------------------------------------------------------
(* Documents, rows and what the thread carries.                            *)

\* The text of an event, the identity's own PARTSTAT, and whether the remote has
\* normalised it.  Two documents with one fingerprint are the same document.
PartStat == {"none", "needs-action", "accepted", "declined"}
Doc   == [text: Nat, ps: PartStat, form: {"raw", "normal"}]
NoDoc == [kind |-> "no document"]

NoObject == [kind |-> "no object"]
Object == [uid: Uid, doc: Doc, rev: Nat, origin: {"client", "mirror"}, soft: BOOLEAN]
Has(h)  == obj[h] # NoObject
Live(h) == Has(h) /\ ~obj[h].soft
HrefsOf(u) == {h \in Href : Has(h) /\ obj[h].uid = u}

NoMap == [kind |-> "no map"]
Mapped(u) == map[u] # NoMap
Pushed(u) == IF Mapped(u) THEN map[u].pushed ELSE 0

Copy == [at: Nat, doc: Doc \cup {NoDoc}]
There(u) == remote[u].doc # NoDoc

\* A row of list_objects_to_push, as it was then.
Local == [href: Href, uid: Uid, doc: Doc, rev: Nat, soft: BOOLEAN]

NoJob == [at |-> "none"]
Job == [at: {"create", "update", "rsvp", "partstat", "decline", "delete", "reread",
             "rereadDeclined", "removeDeclined", "adopt", "recordPush", "recordAdopted",
             "refetch", "overwrite", "recordPull", "drop", "finalize", "unmap"},
        href: Href, uid: Uid, mine: Doc \cup {NoDoc}, rev: Nat, doc: Doc \cup {NoDoc}, ver: Nat]

NoBatch == [kind |-> "no batch"]
Batch == [listed: SUBSET Uid, gone: SUBSET Uid, seen: SUBSET Uid,
          items: [Uid -> Copy], sweep: {"due", "done"}, next: Nat]

Statuses(u) == IF u \in attending THEN {"needs-action", "accepted"} ELSE {"none"}

\* A calendar that has just been configured; the remote may have events.
Init ==
    /\ obj = [h \in Href |-> NoObject]
    /\ map = [u \in Uid |-> NoMap]
    /\ token = 0
    /\ attending \in SUBSET Uid
    /\ \E there \in SUBSET Uid :
          remote = [u \in Uid |->
              IF u \in there
              THEN [at |-> 1, doc |-> [text |-> 0, form |-> "normal",
                    ps |-> IF u \in attending THEN "needs-action" ELSE "none"]]
              ELSE [at |-> 0, doc |-> NoDoc]]
    /\ rver = 1
    /\ pc = "idle" /\ todo = {} /\ job = NoJob /\ batch = NoBatch
    /\ acts = 0 /\ faults = 0

Act   == acts < MaxActs /\ acts' = acts + 1
Fault == faults < MaxFaults /\ faults' = faults + 1

----------------------------------------------------------------------------
(* The store.                                                              *)

\* put_object: a live object keeps its UID, and no other live object has it.
Storable(h, u) ==
    /\ Live(h) => obj[h].uid = u
    /\ \A g \in HrefsOf(u) \ {h} : obj[g].soft

\* A soft-deleted row under another href gives way; revisions go with the row.
Stored(h, u, d, origin) ==
    [g \in Href |->
        IF g = h THEN [uid |-> u, doc |-> d, origin |-> origin, soft |-> FALSE,
                       rev |-> IF Has(h) THEN obj[h].rev + 1 ELSE 1]
        ELSE IF g \in HrefsOf(u) THEN NoObject ELSE obj[g]]

NeedsPush(h) == Has(h) /\ obj[h].origin = "client" /\ obj[h].rev > Pushed(obj[h].uid)

----------------------------------------------------------------------------
(* The clients of jadav and those of the remote.                           *)

Edited(old, u) ==
    [text: {acts + 1} \cup {d.text : d \in old}, ps: Statuses(u), form: {"raw"}]

\* A client's PUT: another text, or another answer to the invitation.
ClientPut(h, u) ==
    /\ Act
    /\ Storable(h, u)
    /\ \E d \in Edited({obj[g].doc : g \in {k \in HrefsOf(u) : Live(k)}}, u) :
          obj' = Stored(h, u, d, "client")
    /\ UNCHANGED <<map, token, remoteVars, threadVars, faults>>

\* A client's DELETE: the row stays until the mirror has pushed it.
ClientDelete(h) ==
    /\ Act
    /\ Live(h)
    /\ obj' = [obj EXCEPT ![h].soft = TRUE, ![h].origin = "client", ![h].rev = @ + 1]
    /\ UNCHANGED <<map, token, remoteVars, threadVars, faults>>

SetRemote(u, d) ==
    /\ remote' = [remote EXCEPT ![u] = [at |-> rver + 1, doc |-> d]]
    /\ rver' = rver + 1
    /\ UNCHANGED attending

OtherWrite(u) ==
    /\ Act
    /\ \E ps \in Statuses(u) : SetRemote(u, [text |-> acts + 1, ps |-> ps, form |-> "normal"])
    /\ UNCHANGED <<storeVars, threadVars, faults>>

OtherDelete(u) ==
    /\ Act
    /\ There(u)
    /\ SetRemote(u, NoDoc)
    /\ UNCHANGED <<storeVars, threadVars, faults>>

----------------------------------------------------------------------------
(* The push pass.                                                          *)

BeginPass ==
    /\ pc = "idle"
    /\ pc' = "push"
    /\ todo' = {[href |-> h, uid |-> obj[h].uid, doc |-> obj[h].doc, rev |-> obj[h].rev,
                 soft |-> obj[h].soft] : h \in {g \in Href : NeedsPush(g)}}
    /\ UNCHANGED <<storeVars, remoteVars, job, batch, boundVars>>

\* The first statement or request of push_pending for a row.
Take(l) ==
    /\ pc = "push" /\ job = NoJob
    /\ l \in todo
    /\ todo' = todo \ {l}
    /\ UNCHANGED <<token, remoteVars, pc, batch, boundVars>>

JobFor(l, at, ver) ==
    [at |-> at, href |-> l.href, uid |-> l.uid, mine |-> l.doc, rev |-> l.rev,
     doc |-> NoDoc, ver |-> ver]

\* A delete of what the remote never had.
FinalizeLocalDelete(l) ==
    /\ Take(l)
    /\ l.soft /\ ~Mapped(l.uid)
    /\ obj' = IF Has(l.href) /\ obj[l.href].soft THEN [obj EXCEPT ![l.href] = NoObject] ELSE obj
    /\ UNCHANGED <<map, job>>

\* find_by_uid finds nothing.
TakeCreate(l) ==
    /\ Take(l)
    /\ ~l.soft /\ ~Mapped(l.uid) /\ ~There(l.uid)
    /\ job' = JobFor(l, "create", 0)
    /\ UNCHANGED <<obj, map>>

\* A new object that exists on the remote is adopted.
Adopt(l) ==
    /\ Take(l)
    /\ ~l.soft /\ ~Mapped(l.uid) /\ There(l.uid)
    /\ map' = [map EXCEPT ![l.uid] = [version |-> remote[l.uid].at, doc |-> remote[l.uid].doc,
                                      pushed |-> 0]]
    /\ job' = JobFor(l, IF l.uid \in attending THEN "rsvp" ELSE "update", remote[l.uid].at)
    /\ UNCHANGED obj

\* An update or a delete of what the remote has, or had.
TakeMapped(l) ==
    /\ Take(l)
    /\ Mapped(l.uid)
    /\ job' = JobFor(l, IF l.uid \in attending THEN IF l.soft THEN "decline" ELSE "rsvp"
                        ELSE IF l.soft THEN "delete" ELSE "update",
                     map[l.uid].version)
    /\ UNCHANGED <<obj, map>>

\* A step of the job at hand.
Working(at) ==
    /\ job.at = at
    /\ UNCHANGED <<token, boundVars>>
Continue(j) == job' = j /\ UNCHANGED <<pc, todo, batch>>
GoOn(at) == Continue([job EXCEPT !.at = at])
GoOnWith(at, copy) == Continue([job EXCEPT !.at = at, !.doc = copy.doc, !.ver = copy.at])
Done == Continue(NoJob)
PassFails == pc' = "idle" /\ job' = NoJob /\ todo' = {} /\ batch' = NoBatch

\* The remote keeps what it is sent, or normalises it.
Accept(u, d) == \E form \in {d.form, "normal"} : SetRemote(u, [d EXCEPT !.form = form])

\* PUT If-None-Match: *; an object that is there is adopted in the next pass.
Create ==
    /\ Working("create")
    /\ \/ ~There(job.uid) /\ Accept(job.uid, job.mine) /\ GoOn("reread")
       \/ There(job.uid) /\ Done /\ UNCHANGED remoteVars
    /\ UNCHANGED <<obj, map>>

Matches == There(job.uid) /\ remote[job.uid].at = job.ver

\* PUT If-Match
Update ==
    /\ Working("update")
    /\ \/ Matches /\ Accept(job.uid, job.mine) /\ GoOn("reread")
       \/ ~Matches /\ GoOn("refetch") /\ UNCHANGED remoteVars
    /\ UNCHANGED <<obj, map>>

\* The GET that follows every PUT: what it finds is taken for what was written.
Reread ==
    /\ Working("reread")
    /\ \/ There(job.uid) /\ GoOnWith("adopt", remote[job.uid])
       \/ ~There(job.uid) /\ PassFails
    /\ UNCHANGED <<obj, map, remoteVars>>

\* record_pushed: the local copy becomes the remote's, unless they are the same or
\* the store refuses.
AdoptNormalised ==
    /\ Working("adopt")
    /\ \/ /\ job.doc # job.mine /\ Storable(job.href, job.uid)
          /\ obj' = Stored(job.href, job.uid, job.doc, "mirror")
          /\ GoOn("recordAdopted")
       \/ /\ job.doc = job.mine \/ ~Storable(job.href, job.uid)
          /\ GoOn("recordPush") /\ UNCHANGED obj
    /\ UNCHANGED <<map, remoteVars>>

Record(pushed) ==
    map' = [map EXCEPT ![job.uid] = [version |-> job.ver, doc |-> job.doc, pushed |-> pushed]]

\* Mutant of RecordPush: pushed_rev stays what it was.
RecordPushKeepingRev ==
    /\ Working("recordPush")
    /\ Record(Pushed(job.uid))
    /\ Done
    /\ UNCHANGED <<obj, remoteVars>>

\* upsert_mirror_map, with the revision that was pushed or, after put_object, with
\* that of the object found when it is read again.
RecordPush ==
    /\ Working("recordPush")
    /\ Record(job.rev)
    /\ Done
    /\ UNCHANGED <<obj, remoteVars>>

RecordAdopted ==
    /\ Working("recordAdopted")
    /\ Record(IF Live(job.href) THEN obj[job.href].rev ELSE job.rev)
    /\ Done
    /\ UNCHANGED <<obj, remoteVars>>

RecordPull ==
    /\ Working("recordPull")
    /\ Record(IF Live(job.href) THEN obj[job.href].rev ELSE 0)
    /\ Done
    /\ UNCHANGED <<obj, remoteVars>>

\* push_rsvp_only: the answer to the invitation is pushed if it differs from the
\* remote's, and any other edit of the local copy is undone.
Rsvp ==
    /\ Working("rsvp")
    /\ \/ /\ There(job.uid)
          /\ job.mine.ps \notin {remote[job.uid].doc.ps, "needs-action"}
          /\ GoOn("partstat")
       \/ /\ There(job.uid)
          /\ job.mine.ps \in {remote[job.uid].doc.ps, "needs-action"}
          /\ GoOnWith("overwrite", remote[job.uid])
       \/ ~There(job.uid) /\ GoOn("drop")
    /\ UNCHANGED <<obj, map, remoteVars>>

\* set_own_partstat: GET, compare the version, PUT If-Match.
SetPartstat(ps, next) ==
    \/ /\ Matches
       /\ Accept(job.uid, [remote[job.uid].doc EXCEPT !.ps = ps])
       /\ GoOn(next)
    \/ ~Matches /\ GoOn("refetch") /\ UNCHANGED remoteVars

\* The event is gone when it is fetched: the pass fails.
PushPartstat ==
    /\ Working("partstat")
    /\ \/ SetPartstat(job.mine.ps, "reread")
       \/ ~There(job.uid) /\ PassFails /\ UNCHANGED remoteVars
    /\ UNCHANGED <<obj, map>>

\* The event is gone when it is fetched: so is the local row.
Decline ==
    /\ Working("decline")
    /\ \/ SetPartstat("declined", "rereadDeclined")
       \/ ~There(job.uid) /\ GoOn("finalize") /\ UNCHANGED remoteVars
    /\ UNCHANGED <<obj, map>>

RereadDeclined ==
    /\ Working("rereadDeclined")
    /\ \/ There(job.uid) /\ GoOnWith("removeDeclined", remote[job.uid])
       \/ ~There(job.uid) /\ GoOn("finalize")
    /\ UNCHANGED <<obj, map, remoteVars>>

\* DELETE If-Match of what was declined; the remote may refuse, and then the
\* declined copy is kept.
RemoveDeclined ==
    /\ Working("removeDeclined")
    /\ \/ Matches /\ SetRemote(job.uid, NoDoc) /\ GoOn("finalize")
       \/ ~There(job.uid) /\ GoOn("finalize") /\ UNCHANGED remoteVars
       \/ There(job.uid) /\ GoOn("overwrite") /\ UNCHANGED remoteVars
    /\ UNCHANGED <<obj, map>>

DeleteRemote ==
    /\ Working("delete")
    /\ \/ Matches /\ SetRemote(job.uid, NoDoc) /\ GoOn("finalize")
       \/ ~There(job.uid) /\ GoOn("finalize") /\ UNCHANGED remoteVars
       \/ There(job.uid) /\ ~Matches /\ GoOn("refetch") /\ UNCHANGED remoteVars
    /\ UNCHANGED <<obj, map>>

\* conflict_remote_wins
Refetch ==
    /\ Working("refetch")
    /\ \/ There(job.uid) /\ GoOnWith("overwrite", remote[job.uid])
       \/ ~There(job.uid) /\ GoOn("drop")
    /\ UNCHANGED <<obj, map, remoteVars>>

\* apply_remote_locally; a store that refuses fails the pass.
Overwrite ==
    /\ Working("overwrite")
    /\ \/ /\ Storable(job.href, job.uid)
          /\ obj' = Stored(job.href, job.uid, job.doc, "mirror")
          /\ GoOn("recordPull")
       \/ ~Storable(job.href, job.uid) /\ PassFails /\ UNCHANGED obj
    /\ UNCHANGED <<map, remoteVars>>

\* delete_object, whatever is live there; then finalize_client_delete; then
\* delete_mirror_map.
Drop ==
    /\ Working("drop")
    /\ obj' = IF Live(job.href) THEN [obj EXCEPT ![job.href] = NoObject] ELSE obj
    /\ GoOn("finalize")
    /\ UNCHANGED <<map, remoteVars>>

Finalize ==
    /\ Working("finalize")
    /\ obj' = IF Has(job.href) /\ ~Live(job.href) THEN [obj EXCEPT ![job.href] = NoObject]
                                                  ELSE obj
    /\ GoOn("unmap")
    /\ UNCHANGED <<map, remoteVars>>

Unmap ==
    /\ Working("unmap")
    /\ map' = [map EXCEPT ![job.uid] = NoMap]
    /\ Done
    /\ UNCHANGED <<obj, remoteVars>>

EndPush ==
    /\ pc = "push" /\ todo = {} /\ job = NoJob
    /\ pc' = "pull"
    /\ UNCHANGED <<storeVars, remoteVars, todo, job, batch, boundVars>>

----------------------------------------------------------------------------
(* The pull pass.                                                          *)

\* The members list_changes names, since a token or from nothing.
Listing(since) ==
    LET changed == {u \in Uid : remote[u].at > since}
    IN [listed |-> {u \in changed : There(u)},
        gone |-> IF since = 0 THEN {} ELSE {u \in changed : ~There(u)},
        seen |-> {}, items |-> remote,
        sweep |-> IF since = 0 THEN "due" ELSE "done", next |-> rver]

\* A rejected token is followed by a full listing.
List ==
    /\ pc = "pull"
    /\ \/ batch' = Listing(token) /\ UNCHANGED faults
       \/ token # 0 /\ Fault /\ batch' = Listing(0)
    /\ pc' = "load"
    /\ UNCHANGED <<storeVars, remoteVars, todo, job, acts>>

\* materialise fetches the members; one that is gone by now is skipped.
Load ==
    /\ pc = "load"
    /\ LET there == {u \in batch.listed : There(u)} IN
       batch' = [batch EXCEPT !.items = remote, !.listed = there, !.seen = there]
    /\ pc' = "apply"
    /\ UNCHANGED <<storeVars, remoteVars, todo, job, boundVars>>

Echo(u) == Mapped(u) /\ (map[u].version = batch.items[u].at \/ map[u].doc = batch.items[u].doc)

\* A member that is as it was last seen only has its version refreshed.
SkipEcho(u) ==
    /\ pc = "apply" /\ job = NoJob
    /\ u \in batch.listed /\ Echo(u)
    /\ map' = [map EXCEPT ![u].version = batch.items[u].at]
    /\ batch' = [batch EXCEPT !.listed = @ \ {u}]
    /\ UNCHANGED <<obj, token, remoteVars, pc, todo, job, boundVars>>

PullJob(u, h, at, doc, ver) ==
    [at |-> at, href |-> h, uid |-> u, mine |-> NoDoc, rev |-> 0, doc |-> doc, ver |-> ver]

\* The object the member is stored in: a soft-deleted one counts if it is mapped.
Target(u, h) ==
    LET rows == {g \in HrefsOf(u) : Mapped(u) \/ Live(g)}
    IN h \in IF rows = {} THEN {u} ELSE rows

Apply(u) ==
    /\ pc = "apply" /\ job = NoJob
    /\ u \in batch.listed /\ ~Echo(u)
    /\ \E h \in Href :
          Target(u, h) /\ job' = PullJob(u, h, "overwrite", batch.items[u].doc, batch.items[u].at)
    /\ batch' = [batch EXCEPT !.listed = @ \ {u}]
    /\ UNCHANGED <<storeVars, remoteVars, pc, todo, boundVars>>

\* A member that is gone, or that a full listing left out.
ApplyGone(u) ==
    /\ pc = "apply" /\ job = NoJob /\ batch.listed = {}
    /\ u \in batch.gone
    /\ \/ ~Mapped(u) /\ job' = NoJob
       \/ Mapped(u) /\ HrefsOf(u) = {} /\ job' = PullJob(u, u, "unmap", NoDoc, 0)
       \/ \E h \in HrefsOf(u) : Mapped(u) /\ job' = PullJob(u, h, "drop", NoDoc, 0)
    /\ batch' = [batch EXCEPT !.gone = @ \ {u}]
    /\ UNCHANGED <<storeVars, remoteVars, pc, todo, boundVars>>

\* Mutant of Sweep: what is left to apply is taken for what was listed.
SweepFromListed ==
    /\ pc = "apply" /\ job = NoJob /\ batch.listed = {} /\ batch.gone = {}
    /\ batch.sweep = "due"
    /\ batch' = [batch EXCEPT !.sweep = "done",
                              !.gone = {u \in Uid : Mapped(u) /\ u \notin batch.listed}]
    /\ UNCHANGED <<storeVars, remoteVars, pc, todo, job, boundVars>>

\* list_mirror_map after a full listing
Sweep ==
    /\ pc = "apply" /\ job = NoJob /\ batch.listed = {} /\ batch.gone = {}
    /\ batch.sweep = "due"
    /\ batch' = [batch EXCEPT !.sweep = "done",
                              !.gone = {u \in Uid : Mapped(u) /\ u \notin batch.seen}]
    /\ UNCHANGED <<storeVars, remoteVars, pc, todo, job, boundVars>>

\* Mutant of EndPull: the token stored is the remote's newest.
EndPullNewestToken ==
    /\ pc = "apply" /\ job = NoJob /\ batch.listed = {} /\ batch.gone = {}
    /\ batch.sweep = "done"
    /\ token' = rver
    /\ pc' = "idle" /\ batch' = NoBatch
    /\ UNCHANGED <<obj, map, remoteVars, todo, job, boundVars>>

\* set_calendar_mirror_state
EndPull ==
    /\ pc = "apply" /\ job = NoJob /\ batch.listed = {} /\ batch.gone = {}
    /\ batch.sweep = "done"
    /\ token' = batch.next
    /\ pc' = "idle" /\ batch' = NoBatch
    /\ UNCHANGED <<obj, map, remoteVars, todo, job, boundVars>>

\* A request fails, with or without having been carried out, a statement fails, or
\* jadav stops: the pass breaks off.
Abort ==
    /\ pc # "idle"
    /\ Fault
    /\ PassFails
    /\ UNCHANGED <<storeVars, remoteVars, acts>>

----------------------------------------------------------------------------
Work ==
    \/ Create \/ Update \/ Reread \/ AdoptNormalised \/ RecordPush \/ RecordAdopted
    \/ RecordPull \/ Rsvp \/ PushPartstat \/ Decline \/ RereadDeclined \/ RemoveDeclined
    \/ DeleteRemote \/ Refetch \/ Overwrite \/ Drop \/ Finalize \/ Unmap

Thread ==
    \/ BeginPass \/ EndPush \/ Work
    \/ \E l \in todo : FinalizeLocalDelete(l) \/ TakeCreate(l) \/ Adopt(l) \/ TakeMapped(l)
    \/ List \/ Load \/ Sweep \/ EndPull
    \/ \E u \in Uid : SkipEcho(u) \/ Apply(u) \/ ApplyGone(u)

Environment ==
    \/ \E h \in Href : ClientDelete(h) \/ \E u \in Uid : ClientPut(h, u)
    \/ \E u \in Uid : OtherWrite(u) \/ OtherDelete(u)
    \/ Abort

Next == Thread \/ Environment

Spec == Init /\ [][Next]_vars

\* The thread polls forever; users, other clients and failures owe nothing.
FairSpec == Spec /\ WF_vars(Thread)

-----------------------------------------------------------------------------
(***************************************************************************)
(* What the mirror of Mirror promises.                                     *)
(***************************************************************************)

\* The mirror map knows what the sync token covers: no change of the remote is
\* passed over, and no mapping outlives its event, whatever requests failed and
\* wherever a pass broke off.
TokenTellsMap ==
    \A u \in Uid :
        remote[u].at <= token /\ token # 0 =>
            /\ There(u) => Mapped(u) /\ map[u].version = remote[u].at
            /\ Mapped(u) => There(u)

\* A client's write that the mirror does not count as pending, although the remote
\* was never sent it.
Stranded(h) ==
    /\ Has(h) /\ obj[h].origin = "client" /\ ~NeedsPush(h)
    /\ obj[h].soft \/ obj[h].doc # map[obj[h].uid].doc

\* A copy the mirror stored before it was cut off, of an event that has gone since:
\* no row of the mirror map tells that it has to go.
Orphaned(h) == Has(h) /\ obj[h].origin = "mirror" /\ ~Mapped(obj[h].uid)

AsRemote(u) ==
    IF There(u) THEN \E h \in HrefsOf(u) : Live(h) /\ obj[h].doc = remote[u].doc
                ELSE HrefsOf(u) = {}

\* Once clients, others and failures have stopped, the two calendars are equal, but
\* for stranded writes.
Converges == <>[](\A u \in Uid : AsRemote(u) \/ \E h \in HrefsOf(u) : Stranded(h) \/ Orphaned(h))

\* Nor does the mirror go on writing: what a pull applied is not pushed, and what was
\* pushed is not pushed again.  A write changes the remote once, or twice when an event
\* is declined and then removed, or when it makes an answer the mirror waits for
\* unusable; and once more for every failure.
PushedOnce == rver <= 1 + 2 * acts + faults

============================================================================
