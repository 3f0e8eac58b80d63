------------------------------ MODULE MailSync ------------------------------
(***************************************************************************)
(* The mail sync thread of one account (src/sync.rs, src/mail.rs) and the  *)
(* cache it keeps (src/db.rs), which jamail reads and writes in parallel.  *)
(*                                                                         *)
(* The thread connects, applies the marks and stars jamail has queued,     *)
(* brings every folder up to date (new messages, then flags and removals), *)
(* and idles.  Each request to the IMAP server and each statement of the   *)
(* cache is a step; jamail, other mail clients and the server move between *)
(* any two.  Any request may fail, with or without having been carried     *)
(* out, and the daemon may stop anywhere: what is queued is in memory.     *)
(*                                                                         *)
(* An IMAP message never changes but for its flags, so UIDVALIDITY and UID *)
(* stand for it.  Uploads of sent mail and drafts are in module Outbox.    *)
(***************************************************************************)
EXTENDS Integers, Sequences, FiniteSets

CONSTANTS
    Folder,     \* the folders of the account that are synced
    Current,    \* the folder jamail shows
    Batch,      \* FETCH_BATCH_SIZE
    MaxTries,   \* MARK_SEEN_MAX_ATTEMPTS
    MaxUid,     \* bound: UIDs a mailbox gives out
    MaxVal,     \* bound: UIDVALIDITY
    MaxActs,    \* bound: what users, other clients and the server do
    MaxFaults   \* bound: failures

ASSUME MailAssumption ==
    /\ Current \in Folder
    /\ Batch \in Nat \ {0} /\ MaxTries \in Nat \ {0}
    /\ MaxUid \in Nat /\ MaxVal \in Nat /\ MaxActs \in Nat /\ MaxFaults \in Nat

VARIABLES
    srv,         \* the mailboxes of the server
    cache,       \* emails
    state,       \* sync_state: UIDVALIDITY and last_uid of a folder
    ipc,         \* requests jamail has sent and the daemon has not read yet
    marks,       \* mark_seen_queue
    stars,       \* flag_queue
    justRead,    \* recently_seen
    justStarred, \* recently_flagged
    pc,          \* where the thread is
    after,       \* where apply_pending_actions returns to
    batch,       \* the requests it has drained and not dealt with
    todo,        \* folders_to_sync: those left in this pass
    due,         \* FULL_FLAG_SYNC_INTERVAL is over
    full,        \* full_flags of this pass
    job,         \* the folder at hand
    acts, faults,
    chosen,      \* history: the star the user last chose for a message
    orphaned     \* history: folders whose first download was cut off

serverVars == <<srv>>
cacheVars  == <<cache, state>>
queueVars  == <<ipc, marks, stars, justRead, justStarred>>
threadVars == <<pc, after, batch, todo, due, full, job>>
boundVars  == <<acts, faults>>
ghostVars  == <<chosen, orphaned>>
vars == <<srv, cache, state, ipc, marks, stars, justRead, justStarred, pc, after, batch,
          todo, due, full, job, acts, faults, chosen, orphaned>>

----------------------------------------------------------------------------
Uids == 1 .. MaxUid

\* A message of the server; process_raw_email can make sense of it or not.
Message == [seen: BOOLEAN, star: BOOLEAN, readable: BOOLEAN]
NoMessage == [kind |-> "none"]
On(f, u) == srv[f].msgs[u] # NoMessage

\* A row of emails, and the UIDVALIDITY its message was fetched under.
Row == [val: Nat, seen: BOOLEAN, star: BOOLEAN]
NoRow == [kind |-> "no row"]
Cached(f, u) == cache[f][u] # NoRow

NoState == [kind |-> "no state"]

\* Seen and starred, as the flag sync is about to record them; or gone.
Gone == [kind |-> "gone"]
Unasked == [kind |-> "unasked"]
Flags == [seen: BOOLEAN, star: BOOLEAN]

NoJob == [kind |-> "none"]
Job == [folder: Folder, val: Nat, last: Nat, new: SUBSET Uids, left: SUBSET Uids,
        flags: [Uids -> Flags \cup {Gone, Unasked}]]

\* A mailbox with n unread messages, those of `readable` readable.
Filled(v, n, readable) ==
    [val |-> v, next |-> n + 1,
     msgs |-> [u \in Uids |-> IF u <= n THEN [seen |-> FALSE, star |-> FALSE,
                                              readable |-> u \in readable]
                              ELSE NoMessage]]

\* An empty cache, and an account that has mail.
Init ==
    /\ \E n \in 0 .. MaxUid : \E readable \in SUBSET (1 .. n) :
          srv = [f \in Folder |-> Filled(1, n, readable)]
    /\ cache = [f \in Folder |-> [u \in Uids |-> NoRow]]
    /\ state = [f \in Folder |-> NoState]
    /\ ipc = <<>> /\ marks = {} /\ stars = {}
    /\ justRead = {} /\ justStarred = {}
    /\ pc = "connect" /\ after = "pass" /\ batch = {} /\ todo = {}
    /\ due = TRUE /\ full = FALSE /\ job = NoJob
    /\ acts = 0 /\ faults = 0
    /\ chosen = {} /\ orphaned = {}

Act == acts < MaxActs /\ acts' = acts + 1
Fault == faults < MaxFaults /\ faults' = faults + 1

----------------------------------------------------------------------------
(* The server and its other clients.                                       *)

Arrive(f, readable) ==
    /\ Act
    /\ srv[f].next <= MaxUid
    /\ srv' = [srv EXCEPT ![f].next = @ + 1,
                          ![f].msgs[srv[f].next] =
                              [seen |-> FALSE, star |-> FALSE, readable |-> readable]]
    /\ UNCHANGED <<cacheVars, queueVars, threadVars, faults, ghostVars>>

Expunge(f, u) ==
    /\ Act
    /\ On(f, u)
    /\ srv' = [srv EXCEPT ![f].msgs[u] = NoMessage]
    /\ UNCHANGED <<cacheVars, queueVars, threadVars, faults, ghostVars>>

\* Another client reads a message or changes its star.
OtherFlag(f, u, seen, star) ==
    /\ Act
    /\ On(f, u)
    /\ srv[f].msgs[u].seen => seen
    /\ srv' = [srv EXCEPT ![f].msgs[u] = [@ EXCEPT !.seen = seen, !.star = star]]
    /\ chosen' = {c \in chosen : ~(c.folder = f /\ c.uid = u)}
    /\ UNCHANGED <<cacheVars, queueVars, threadVars, faults, orphaned>>

\* The mailbox is replaced: its UIDs name other messages from now on.
Recreate(f, n) ==
    /\ Act
    /\ srv[f].val < MaxVal
    /\ srv' = [srv EXCEPT ![f] = Filled(srv[f].val + 1, n, 1 .. n)]
    /\ chosen' = {c \in chosen : c.folder # f}
    /\ UNCHANGED <<cacheVars, queueVars, threadVars, faults, orphaned>>

----------------------------------------------------------------------------
(* jamail writes the cache first and tells the daemon then.                *)

\* open_detail, then enqueue_mark_seen
UserReads(f, u) ==
    /\ Act
    /\ Cached(f, u)
    /\ cache' = [cache EXCEPT ![f][u].seen = TRUE]
    /\ ipc' = Append(ipc, [folder |-> f, uid |-> u, set |-> "seen"])
    /\ UNCHANGED <<srv, state, marks, stars, justRead, justStarred, threadVars, faults,
                   ghostVars>>

\* toggle_star; what is toggled is the row as jamail last loaded it.
UserStars(f, u, b) ==
    /\ Act
    /\ Cached(f, u)
    /\ cache' = [cache EXCEPT ![f][u].star = b]
    /\ ipc' = Append(ipc, [folder |-> f, uid |-> u,
                           set |-> IF b THEN "starred" ELSE "unstarred"])
    /\ chosen' = {c \in chosen : ~(c.folder = f /\ c.uid = u)}
                   \cup {[folder |-> f, uid |-> u, star |-> b]}
    /\ UNCHANGED <<srv, state, marks, stars, justRead, justStarred, threadVars, faults,
                   orphaned>>

\* enqueue_mark_seen of the daemon
EnqueueMarkSeen(f, u) ==
    /\ justRead' = justRead \cup {<<f, u>>}
    /\ marks' = marks \cup {[folder |-> f, uid |-> u, tries |-> 0]}
    /\ UNCHANGED <<stars, justStarred>>

\* enqueue_set_flagged: a newer choice replaces an older queued one.
EnqueueSetFlagged(f, u, b) ==
    /\ justStarred' = {c \in justStarred : ~(c.folder = f /\ c.uid = u)}
                        \cup {[folder |-> f, uid |-> u, star |-> b]}
    /\ stars' = {r \in stars : ~(r.folder = f /\ r.uid = u)}
                  \cup {[folder |-> f, uid |-> u, star |-> b, tries |-> 0]}
    /\ UNCHANGED <<marks, justRead>>

\* handle_request
Receive ==
    /\ ipc # <<>> /\ pc # "stopped"
    /\ LET r == Head(ipc) IN
       \/ r.set = "seen" /\ EnqueueMarkSeen(r.folder, r.uid)
       \/ r.set # "seen" /\ EnqueueSetFlagged(r.folder, r.uid, r.set = "starred")
    /\ ipc' = Tail(ipc)
    /\ UNCHANGED <<srv, cacheVars, threadVars, boundVars, ghostVars>>

\* The daemon stops with the request read, or the socket breaks with it written.
RequestLost ==
    /\ ipc # <<>>
    /\ Fault
    /\ ipc' = Tail(ipc)
    /\ UNCHANGED <<srv, cacheVars, marks, stars, justRead, justStarred, threadVars, acts,
                   ghostVars>>

\* RECENTLY_SEEN_TTL is over for an entry.
Expire ==
    /\ \/ /\ \E e \in justRead : justRead' = justRead \ {e}
          /\ UNCHANGED justStarred
       \/ /\ \E e \in justStarred : justStarred' = justStarred \ {e}
          /\ UNCHANGED justRead
    /\ UNCHANGED <<srv, cacheVars, ipc, marks, stars, threadVars, boundVars, ghostVars>>

\* FULL_FLAG_SYNC_INTERVAL is over.
FullFlagsDue ==
    /\ ~due
    /\ due' = TRUE
    /\ UNCHANGED <<srv, cacheVars, queueVars, pc, after, batch, todo, full, job, boundVars,
                   ghostVars>>

----------------------------------------------------------------------------
(* apply_pending_actions.                                                  *)

\* MailClient::connect; the first pass of a connection refreshes all flags.
Connect ==
    /\ pc = "connect"
    /\ pc' = "drainMarks" /\ after' = "pass"
    /\ due' = TRUE
    /\ UNCHANGED <<srv, cacheVars, queueVars, batch, todo, full, job, boundVars, ghostVars>>

DrainMarks ==
    /\ pc = "drainMarks"
    /\ batch' = marks /\ marks' = {}
    /\ pc' = "storeMarks"
    /\ UNCHANGED <<srv, cacheVars, ipc, stars, justRead, justStarred, after, todo, due, full,
                   job, boundVars, ghostVars>>

DrainStars ==
    /\ pc = "storeMarks" /\ batch = {}
    /\ batch' = stars /\ stars' = {}
    /\ pc' = "storeStars"
    /\ UNCHANGED <<srv, cacheVars, ipc, marks, justRead, justStarred, after, todo, due, full,
                   job, boundVars, ghostVars>>

\* The uploads are next; then the pass, or the IDLE the call interrupted.
Applied ==
    /\ pc = "storeStars" /\ batch = {}
    /\ pc' = after
    /\ UNCHANGED <<srv, cacheVars, queueVars, after, batch, todo, due, full, job, boundVars,
                   ghostVars>>

\* The marks of one folder, or its stars or unstars, in one UID STORE.
Group(f, b) == {r \in batch : r.folder = f /\ (pc = "storeStars" => r.star = b)}
Stored(f, b, us) ==
    [srv EXCEPT ![f].msgs =
       [u \in Uids |-> IF u \in us /\ On(f, u)
                       THEN IF pc = "storeMarks" THEN [@[u] EXCEPT !.seen = TRUE]
                            ELSE [@[u] EXCEPT !.star = b]
                       ELSE @[u]]]

Store(f, b) ==
    /\ pc \in {"storeMarks", "storeStars"}
    /\ Group(f, b) # {}
    /\ srv' = Stored(f, b, {r.uid : r \in Group(f, b)})
    /\ batch' = batch \ Group(f, b)
    /\ UNCHANGED <<cacheVars, queueVars, pc, after, todo, due, full, job, boundVars, ghostVars>>

\* What goes back on the queue after a rejected STORE.
Again(rs) == {[r EXCEPT !.tries = @ + 1] : r \in {q \in rs : q.tries + 1 < MaxTries}}

\* SELECT or UID STORE fails, or its answer is lost: the group is queued again, the
\* groups after it are not.
StoreFails(f, b) ==
    /\ pc \in {"storeMarks", "storeStars"}
    /\ Group(f, b) # {}
    /\ Fault
    /\ srv' \in {srv, Stored(f, b, {r.uid : r \in Group(f, b)})}
    /\ IF pc = "storeMarks" THEN marks' = marks \cup Again(Group(f, b)) /\ UNCHANGED stars
       ELSE stars' = stars \cup Again(Group(f, b)) /\ UNCHANGED marks
    /\ batch' = {}
    /\ pc' = "connect"
    /\ UNCHANGED <<cacheVars, ipc, justRead, justStarred, after, todo, due, full, job, acts,
                   ghostVars>>

----------------------------------------------------------------------------
(* A pass over the folders.                                                *)

BeginPass ==
    /\ pc = "pass"
    /\ todo' = Folder /\ full' = due
    /\ pc' = "folders"
    /\ UNCHANGED <<srv, cacheVars, queueVars, after, batch, due, job, boundVars, ghostVars>>

\* sync_folder: SELECT, and the comparison of UIDVALIDITY.
Select(f) ==
    /\ pc = "folders" /\ f \in todo
    /\ LET known == state[f] # NoState /\ state[f].val = srv[f].val IN
       /\ job' = [folder |-> f, val |-> srv[f].val,
                  last |-> IF known THEN state[f].last ELSE 0,
                  new |-> {}, left |-> {}, flags |-> [u \in Uids |-> Unasked]]
       /\ pc' = IF state[f] = NoState \/ known THEN "list" ELSE "clear"
    /\ todo' = todo \ {f}
    /\ UNCHANGED <<srv, cacheVars, queueVars, after, batch, due, full, boundVars, ghostVars>>

\* Mutant of ClearRows: the rows stay.
ClearRowsNot ==
    /\ pc = "clear"
    /\ pc' = "clearState"
    /\ UNCHANGED <<srv, cacheVars, queueVars, after, batch, todo, due, full, job, boundVars,
                   ghostVars>>

\* clear_folder_emails: the rows, and in a statement of its own the sync state.
ClearRows ==
    /\ pc = "clear"
    /\ cache' = [cache EXCEPT ![job.folder] = [u \in Uids |-> NoRow]]
    /\ pc' = "clearState"
    /\ UNCHANGED <<srv, state, queueVars, after, batch, todo, due, full, job, boundVars,
                   ghostVars>>

ClearState ==
    /\ pc = "clearState"
    /\ state' = [state EXCEPT ![job.folder] = NoState]
    /\ orphaned' = orphaned \ {job.folder}
    /\ pc' = "list"
    /\ UNCHANGED <<srv, cache, queueVars, after, batch, todo, due, full, job, boundVars, chosen>>

\* The mailbox is still the one that was selected.
Selected == job # NoJob /\ srv[job.folder].val = job.val

\* Mutant of ListNew: the first UID after last_uid is left out.
ListNewPast ==
    /\ pc = "list" /\ Selected
    /\ LET f == job.folder
           new == {u \in Uids : On(f, u) /\ u > job.last + 1}
       IN /\ job' = [job EXCEPT !.new = new, !.left = {u \in new : ~Cached(f, u)}]
          /\ pc' = IF new = {} THEN "flags" ELSE "fetch"
    /\ UNCHANGED <<srv, cacheVars, queueVars, after, batch, todo, due, full, boundVars,
                   ghostVars>>

\* UID FETCH last_uid+1:*, and has_email.
ListNew ==
    /\ pc = "list" /\ Selected
    /\ LET f == job.folder
           new == {u \in Uids : On(f, u) /\ u > job.last}
       IN /\ job' = [job EXCEPT !.new = new, !.left = {u \in new : ~Cached(f, u)}]
          /\ pc' = IF new = {} THEN "flags" ELSE "fetch"
    /\ UNCHANGED <<srv, cacheVars, queueVars, after, batch, todo, due, full, boundVars,
                   ghostVars>>

\* The next batch, newest first.
IsChunk(c) ==
    /\ c \subseteq job.left
    /\ Cardinality(c) <= Batch
    /\ Cardinality(c) = Batch \/ c = job.left
    /\ \A u \in c, w \in job.left \ c : w < u

\* store_email_core for what the server returns and process_raw_email understands.
WithFetched(f, c) ==
    [cache EXCEPT ![f] =
       [u \in Uids |-> IF u \in c /\ On(f, u) /\ srv[f].msgs[u].readable
                       THEN [val |-> job.val, seen |-> srv[f].msgs[u].seen,
                             star |-> srv[f].msgs[u].star]
                       ELSE @[u]]]

\* Mutant of FetchBatch: the sync state follows every batch.
FetchBatchWithState ==
    /\ pc = "fetch" /\ Selected /\ job.left # {}
    /\ \E c \in SUBSET job.left :
          /\ IsChunk(c)
          /\ cache' = WithFetched(job.folder, c)
          /\ job' = [job EXCEPT !.left = @ \ c]
          /\ \E u \in c : (\A w \in c : w <= u)
                /\ state' = [state EXCEPT ![job.folder] = [val |-> job.val, last |-> u]]
    /\ UNCHANGED <<srv, queueVars, pc, after, batch, todo, due, full, boundVars, ghostVars>>

\* fetch_raw_batch, and the transaction that stores what it returned.
FetchBatch ==
    /\ pc = "fetch" /\ Selected /\ job.left # {}
    /\ \E c \in SUBSET job.left :
          /\ IsChunk(c)
          /\ cache' = WithFetched(job.folder, c)
          /\ job' = [job EXCEPT !.left = @ \ c]
    /\ UNCHANGED <<srv, state, queueVars, pc, after, batch, todo, due, full, boundVars,
                   ghostVars>>

\* set_sync_state, once everything is stored.
SetState ==
    /\ pc = "fetch" /\ job.left = {}
    /\ \E u \in job.new :
          /\ \A w \in job.new : w <= u
          /\ state' = [state EXCEPT ![job.folder] = [val |-> job.val, last |-> u]]
    /\ pc' = "flags"
    /\ UNCHANGED <<srv, cache, queueVars, after, batch, todo, due, full, job, boundVars,
                   ghostVars>>

----------------------------------------------------------------------------
(* sync_flags.                                                             *)

\* What the user did here moments ago wins over what the server says.
Shielded(f, u) ==
    [seen |-> srv[f].msgs[u].seen \/ <<f, u>> \in justRead,
     star |-> IF \E c \in justStarred : c.folder = f /\ c.uid = u
              THEN [folder |-> f, uid |-> u, star |-> TRUE] \in justStarred
              ELSE srv[f].msgs[u].star]

\* Mutant of FetchFlags: the answers of the chunks that came before one failed.
FetchFlagsPartial ==
    LET f == job.folder IN
    /\ pc = "flags"
    /\ full \/ f = Current
    /\ \E u \in Uids : Cached(f, u)
    /\ \E got \in {Uids, {}} :
       job' = [job EXCEPT !.flags =
                 [u \in Uids |-> IF ~Cached(f, u) THEN Unasked
                                 ELSE IF On(f, u) /\ u \in got THEN Shielded(f, u) ELSE Gone]]
    /\ pc' = "prune"
    /\ UNCHANGED <<srv, cacheVars, queueVars, after, batch, todo, due, full, boundVars,
                   ghostVars>>

\* get_all_uids, SELECT, fetch_flags, and the choices of the user.
FetchFlags ==
    LET f == job.folder IN
    /\ pc = "flags"
    /\ full \/ f = Current
    /\ \E u \in Uids : Cached(f, u)
    /\ job' = [job EXCEPT !.flags =
                 [u \in Uids |-> IF ~Cached(f, u) THEN Unasked
                                 ELSE IF On(f, u) THEN Shielded(f, u) ELSE Gone]]
    /\ pc' = "prune"
    /\ UNCHANGED <<srv, cacheVars, queueVars, after, batch, todo, due, full, boundVars,
                   ghostVars>>

\* The flags of this folder are not due, or it has no rows.
SkipFlags ==
    /\ pc = "flags"
    /\ full \/ job.folder = Current => \A u \in Uids : ~Cached(job.folder, u)
    /\ pc' = "folders" /\ job' = NoJob
    /\ UNCHANGED <<srv, cacheVars, queueVars, after, batch, todo, due, full, boundVars,
                   ghostVars>>

\* delete_emails_by_uid
Prune ==
    /\ pc = "prune"
    /\ cache' = [cache EXCEPT ![job.folder] =
                   [u \in Uids |-> IF job.flags[u] = Gone THEN NoRow ELSE @[u]]]
    /\ pc' = "update"
    /\ UNCHANGED <<srv, state, queueVars, after, batch, todo, due, full, job, boundVars,
                   ghostVars>>

\* update_flags
Update ==
    /\ pc = "update"
    /\ cache' = [cache EXCEPT ![job.folder] =
                   [u \in Uids |-> IF job.flags[u] \in {Gone, Unasked} THEN @[u]
                                   ELSE [@[u] EXCEPT !.seen = job.flags[u].seen,
                                                     !.star = job.flags[u].star]]]
    /\ pc' = "folders" /\ job' = NoJob
    /\ UNCHANGED <<srv, state, queueVars, after, batch, todo, due, full, boundVars, ghostVars>>

----------------------------------------------------------------------------
(* IDLE, failures and restarts.                                            *)

EndPass ==
    /\ pc = "folders" /\ todo = {}
    /\ due' = (due /\ ~full)
    /\ pc' = "idle"
    /\ UNCHANGED <<srv, cacheVars, queueVars, after, batch, todo, full, job, boundVars,
                   ghostVars>>

\* has_pending_actions between two rounds of IDLE.
IdleActs ==
    /\ pc = "idle" /\ marks \cup stars # {}
    /\ pc' = "drainMarks" /\ after' = "idle"
    /\ UNCHANGED <<srv, cacheVars, queueVars, batch, todo, due, full, job, boundVars, ghostVars>>

\* MailboxChanged, force_sync, or IDLE_PHASE is over.
IdleEnds ==
    /\ pc = "idle"
    /\ pc' = "drainMarks" /\ after' = "pass"
    /\ UNCHANGED <<srv, cacheVars, queueVars, batch, todo, due, full, job, boundVars, ghostVars>>

\* The rows a cut-off first download leaves without a sync state.
NowOrphaned ==
    {f \in Folder : /\ job # NoJob /\ job.folder = f
                    /\ pc \in {"list", "fetch"} /\ state[f] = NoState
                    /\ \E u \in Uids : Cached(f, u)}

\* A request or a statement of the pass or of IDLE fails: the thread reconnects; but a
\* flag sync that fails is only reported.
Fails ==
    /\ \/ pc \in {"folders", "clear", "clearState", "list", "fetch", "idle"}
             /\ Fault /\ pc' = "connect"
       \/ pc \in {"list", "fetch"} /\ ~Selected /\ UNCHANGED faults /\ pc' = "connect"
       \/ pc \in {"flags", "prune", "update"} /\ Fault /\ pc' = "folders"
    /\ job' = NoJob
    /\ todo' = IF pc' = "connect" THEN {} ELSE todo
    /\ orphaned' = orphaned \cup NowOrphaned
    /\ UNCHANGED <<srv, cacheVars, queueVars, after, batch, due, full, acts, chosen>>

\* The daemon stops: what it had in memory is gone.
Stop ==
    /\ pc # "stopped"
    /\ Fault
    /\ marks' = {} /\ stars' = {} /\ justRead' = {} /\ justStarred' = {}
    /\ pc' = "stopped" /\ after' = "pass" /\ batch' = {} /\ todo' = {} /\ job' = NoJob
    /\ due' = TRUE /\ full' = FALSE
    /\ orphaned' = orphaned \cup NowOrphaned
    /\ UNCHANGED <<srv, cacheVars, ipc, acts, chosen>>

Start ==
    /\ pc = "stopped"
    /\ pc' = "connect"
    /\ UNCHANGED <<srv, cacheVars, queueVars, after, batch, todo, due, full, job, boundVars,
                   ghostVars>>

----------------------------------------------------------------------------
Thread ==
    \/ Connect \/ DrainMarks \/ DrainStars \/ Applied \/ BeginPass
    \/ \E f \in Folder, b \in BOOLEAN : Store(f, b)
    \/ \E f \in Folder : Select(f)
    \/ ClearRows \/ ClearState \/ ListNew \/ FetchBatch \/ SetState
    \/ FetchFlags \/ SkipFlags \/ Prune \/ Update
    \/ EndPass \/ IdleActs \/ IdleEnds
    \/ Start

Environment ==
    \/ \E f \in Folder :
          \/ \E b \in BOOLEAN : Arrive(f, b)
          \/ \E n \in 0 .. MaxUid : Recreate(f, n)
          \/ \E u \in Uids :
                \/ Expunge(f, u) \/ UserReads(f, u)
                \/ \E b \in BOOLEAN : UserStars(f, u, b)
                \/ \E seen, star \in BOOLEAN : OtherFlag(f, u, seen, star)
          \/ \E b \in BOOLEAN : StoreFails(f, b)
    \/ RequestLost \/ Fails \/ Stop

Next == Thread \/ Environment \/ Receive \/ Expire \/ FullFlagsDue

Spec == Init /\ [][Next]_vars

\* The daemon's threads are never starved, a cut connection is noticed (IDLE rounds,
\* socket timeouts, the stall watchdog), and time passes; users, other clients and
\* faults owe nothing.
FairSpec ==
    /\ Spec
    /\ WF_vars(Thread \/ Fails) /\ WF_vars(Receive) /\ WF_vars(Expire) /\ WF_vars(FullFlagsDue)

-----------------------------------------------------------------------------
(***************************************************************************)
(* What the mail sync thread of MailSync promises.                         *)
(***************************************************************************)

\* The sync state never runs ahead of the cache: a message the server has, at or
\* below last_uid, is cached.  Batches come newest first and may be cut off after
\* any of them, and last_uid moves only when all are stored (mail.rs:453-457).
NothingSkipped ==
    \A f \in Folder, u \in Uids :
        /\ state[f] # NoState
        /\ state[f].val = srv[f].val /\ u <= state[f].last
        /\ On(f, u) /\ srv[f].msgs[u].readable
        => Cached(f, u)

\* The rows of a folder are messages of the mailbox its sync state names, never left
\* from the one before it: a restart in the middle of clear_folder_emails repeats the
\* clearing.  Not so when the first download of the folder had been cut off.
OneMailbox ==
    \A f \in Folder, u \in Uids :
        f \notin orphaned /\ state[f] # NoState /\ Cached(f, u)
            => cache[f][u].val = state[f].val

\* A cached message goes only when the server no longer has it.
PruneOnlyGone ==
    [][\A f \in Folder, u \in Uids :
          Cached(f, u) /\ cache'[f][u] = NoRow
              => ~On(f, u) \/ srv[f].val # cache[f][u].val]_vars

\* Once users, other clients and faults have stopped, every readable message is
\* cached, every row is a message of the server with the server's flags; and if no
\* request failed, the star the user last chose is the one the server has.
Agrees ==
    \A f \in Folder, u \in Uids :
        /\ Cached(f, u) => On(f, u)
        /\ On(f, u) /\ srv[f].msgs[u].readable
             => /\ Cached(f, u)
                /\ cache[f][u].seen = srv[f].msgs[u].seen
                /\ cache[f][u].star = srv[f].msgs[u].star
Landed ==
    faults = 0 =>
        \A c \in chosen : On(c.folder, c.uid) => srv[c.folder].msgs[c.uid].star = c.star
Converges == <>[](Agrees /\ Landed)

=============================================================================
