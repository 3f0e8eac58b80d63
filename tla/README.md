# Verification of jamail

TLA+ models of jamail, checked with TLC, and proofs about them, checked with
TLAPS. The models are read off the Rust sources under `src/src`; `PROJECT.json`
maps every definition to the lines it stands for, lists the parts of the system
with what is modelled of each, and the hazards the properties are aimed at.

jamail is four programs:

- **jamaild**, the daemon: one IMAP sync thread and one CalDAV sync thread per
  account, calendar alarms, a small CalDAV server of its own, and the IPC socket
  the user interfaces talk to;
- **jamail**, the mail interface, and **jacal**, the calendar interface: they
  read and write the SQLite cache themselves and ask jamaild, over the socket,
  to carry changes to the servers;
- **jadav**, a CalDAV and WebDAV server, with threads that mirror its calendars
  from Google or another CalDAV server, a scheduling broker (iTIP) and its
  transport by mail (iMIP).

What makes these programs hard is everywhere the same: a copy of somebody else's
data (IMAP mailbox, CalDAV collection, mirrored calendar, a list on screen) is
kept current by a thread that reads, decides and writes in separate steps, while
the user, other clients and the server move between any two of them, and the
thread may be cut off anywhere.

Contents: [Inventory](#inventory) · [Modules](#modules) · [Runs](#runs) ·
[Properties](#properties) · [Fairness](#fairness) · [Proofs](#proofs) ·
[Only model-checked](#only-model-checked) · [Not modelled](#not-modelled) ·
[Divergences](#divergences-seen-while-modelling)

## Inventory

| Component | State | Operations | Interacts with | Hard behaviour | Correct when |
|---|---|---|---|---|---|
| calendar sync thread (`calsync.rs`) | write queue; ETags and sync token in the cache | write pass (create, update, delete with If-Match), read pass (sync-collection, GETs, reconciliation) | cache, jacal, CalDAV server | jacal edits rows whose PUT is in flight; lost answers; rejected tokens; restarts | rows shown as synced are the server's; nothing the token covers is missing; pending writes survive |
| CalDAV client (`caldav.rs`) | none | discovery, sync-collection, PUT with a follow-up GET, DELETE; reads multistatus | CalDAV servers | an answer half read; elements that look alike | finds what there is |
| mail sync thread (`sync.rs`, `mail.rs`) | mark and star queues, shields against its own echoes, UIDVALIDITY and last UID per folder | drain queues, fetch new messages in batches, flag sync, prune, IDLE, uploads | cache, jamail over IPC, IMAP server | batches cut off, mailbox replaced, STORE repeated, user flags while flags are read | no message skipped, no rows of two mailboxes mixed, flags agree in the end |
| mail cache (`db.rs`) | emails, attachments, full-text index, sync state, drafts | transactions of the above | sync threads, jamail | several processes, multi-statement clearing | a restart repeats what was half done |
| jadav store (`jadav/store.rs`) | objects, change log, baselines, mirror map, queues, cursors | put, delete, sync report, compaction, calendars created and deleted | server, mirror, broker, iMIP | reports read in several statements; compaction; names used again | a client holds what its token covers |
| jadav CalDAV server (`jadav/server.rs`) | none of its own | PUT, DELETE, MKCALENDAR, PROPPATCH, REPORT, PROPFIND | store, broker, mirror hub | requests in parallel, preconditions | answers agree with the store at some moment |
| jadav mirror (`jadav/mirror.rs`, `jadav/caldav_remote.rs`) | mirror map, remote token, push cursor | push pass, pull pass, conflicts, RSVP and decline, full resync | store, remote | both sides written during a pass; passes broken off half way | the two calendars become equal and stay quiet |
| Google remote (`jadav/google.rs`) | sync token, listing under way | paged listings, create, update, answer, delete; events turned into documents and back | Google, mirror | pages of different moments, writes half done | what is reported is what has changed |
| Google OAuth (`goauth.rs`) | refresh token, access token | refresh, re-authorisation by another process, parking | Google, token store | a refresh crossing a new grant | the newest grant is kept |
| iTIP broker (`jadav/itip.rs`) | sequence numbers, schedule tags | plans requests, replies, cancellations; applies received ones | server, iMIP | messages out of order or repeated, organizer and attendee on one server | a reply counts once, an old message never wins |
| iMIP transport (`jadav/imip.rs`) | outbound queue, IMAP cursors, processed messages | send with retries, watch folders, process messages | store, SMTP, IMAP | crash between sending and recording | at least once out, effectively once in |
| jadav daemon (`jadav/mod.rs`) | table of calendars | configuration brought in at start, discovery of an account's calendars | store, Google | discovery crossing clients and restarts | each calendar mirrored once |
| WebDAV file server (`jadav/webdav/`) | directory tree, write locks, partial uploads | GET with ranges, PUT, MKCOL, MOVE, COPY, DELETE, LOCK, UNLOCK | file system, other requests | locks checked before the file system is touched; copy and remove half done | a locked resource changes only under its token |
| HTTP connection and client (`httpc.rs`, the servers' readers) | bytes read and not used | read requests and bodies, keep or close the connection, read answers | all servers and clients | bodies not wanted, cut short, announced and withheld | a request is read where it begins |
| jamaild and IPC server (`daemon.rs`) | clients and their queues, pid file, socket | start, broadcast, requests, shutdown | sync threads, IPC clients | slow clients, two daemons starting, reload | one daemon; a client misses events at most |
| IPC protocol and client (`ipc.rs`) | request queue, connection | handshake, requests, reconnect, autostart | daemon | connection lost with requests queued | requests arrive in order |
| jamail (`app.rs`, `bin/jamail.rs`, `thread.rs`) | views, selection, list, compose state | keys, daemon events, reloads | cache, IPC | a reload moves what the next key acts on | acts on the message the user saw |
| sending mail (`smtp.rs`, `app.rs`) | drafts, sent mail, upload queue | send, save, take up again, upload | SMTP, IMAP, cache | sent but not stored; results of what was edited since | lists tell what became of a message; what goes out is what was written |
| jacal (`calapp.rs`, `bin/jacal.rs`) | views, forms, dialogs | as jamail, for events | cache, IPC | forms open while the cache changes | edits what was opened |
| calendar alarms (`calnotify.rs`) | set of fired alarms | look ahead, fire, forget | cache, notifications | restarts, edits that move an alarm | once per alarm, none missed within the grace time |
| iCalendar (`calendar.rs`) | none | read, write, edit, expand | everything about events | overrides, clock changes, nested components | an edit changes what it names |
| jamaild CalDAV server (`caldav_server.rs`) | none of its own | GET, PUT, DELETE, REPORT over the calendar cache; commits of jacal's writes | cache | statements without transactions, crashes between them | a client holds what its token covers |
| mail notifications (`notify.rs`), configuration (`config.rs`) | none | run a program; read a file | sync thread; all | none | |

## Modules

A module has the state and one action per statement, request, key or handler of
its component, its properties, and the mutants of its definitions: one called
"Mutant of" another is that definition with a plausible mistake; no specification
uses it, and each shows that a property notices the mistake. `MC...` modules
instantiate for TLC, `...Proofs` hold theorems, `...Props` promises that are many.

| Family | Modules | Content |
|---|---|---|
| calendar sync | `CalSync`, `HostedCalendar`, `MCCalSync`, `CalSyncProofs` | the sync thread, jacal, a CalDAV server and its other clients; the calendar jamaild hosts itself |
| store | `SyncContract`, `JadavStore`, `JadavStoreProps`, `MCJadavStore`, `JadavStoreProofs` | the abstract promise of sync tokens; jadav's store and the requests of its clients, which implement it |
| mirror | `Mirror`, `GoogleRemote`, `GoogleDoc`, `GoogleAuth`, `MirrorProofs` | a mirrored calendar, its clients and the remote; Google as a remote; its tokens |
| scheduling | `Scheduling`, `ItipDoc`, `MCScheduling`, `SchedulingProofs` | broker and transport of two servers; what a message carries |
| files | `WebDav`, `MCWebDav`, `WebDavProofs` | tree, locks and uploads, system call by system call |
| mail | `MailSync`, `MailApp`, `MailThreads`, `MCMailApp`, `MailProofs` | the sync thread; jamail's screen over the cache; conversations |
| sending | `Outbox`, `ComposeForm`, `TextEditor`, `MCOutbox`, `OutboxProofs` | drafts, sends, uploads; the form key by key; the editor |
| desktop | `Daemon`, `CalApp`, `MCCalApp`, `DesktopProofs` | jamaild's socket and its clients; jacal's screen |
| rules | `CalDoc`, `CalText`, `CalForm`, `CalGrid`, `CalAlarms`, `MultiStatus`, `Rules`, `RulesProps`, `MCRules` | algorithms without history, each called with every small argument |
| tables | `Calendars`, `HttpConnection`, `WebDavProofs` | jadav's table of calendars and who finds what in it; one HTTP connection |

### CalSync

`rows` is `calendar_events`, `token` is `calendars.sync_token`, `queue` the write
queue, `pc`, `todo`, `job` and `batch` are where `run_one_cycle` and
`sync_one_calendar` are: `job` is the answer to a write that has not been recorded
yet, `batch` the sync answer being applied. `form` is what jacal's user has open, or
the statement jacal is half way through. Every SQL statement and every HTTP request
is a step; the answer of a PUT and the GET for its ETag are two. Content is a stamp,
ETags and sync tokens come from one clock. `deleted` and `clobbered` are history.

The abstractions: one calendar; row ids never come back (they are AUTOINCREMENT; two
comments, `calsync.rs:515` and `db.rs:1799`, fear that they do); the order of the
queue does not matter, as rows are written one by one from their own status; reading
a row and sending its request are one step (what jacal writes in between, it could
as well have written before); discovery of calendars is merged with the pull; other
clients delete events and write those that have existed, and do not create any.
Left out: the repair of unquoted ETags, answers that cannot be parsed, forms that are
cancelled.

### HostedCalendar

The calendar jamaild serves to other clients out of the same table. `hosted` are its
rows, `history` the sync log, `serving` the request each connection is at, `announced`
and `commit` the writes of jacal that `apply_pending_write` commits, `held` and `mark`
what a client holds and its token, `untold` the names whose change went unlogged
because jamaild died between two statements. Every connection is a thread with its own
database handle and no operation is a transaction, so one statement is one step. A
wording stands for its ETag.

### SyncContract

What RFC 6578 promises, without a store: `docs`, `changedAt` and `count` of a
collection, `copy` and `heard` of a reader; `Kept` says that a reader has, of every
member whose last change it was told of, what the collection has. `JadavStore`
implements it (`ServesContract`, by `INSTANCE ... WITH` per calendar).

### JadavStore

`cal`, `obj`, `log` and `seq` are the tables `calendars`, `objects`, `change_log` and
its `sqlite_sequence`; a transaction is a step, and statements outside one are steps
of their own: `changes_since` reads the calendar, the head, the log and then every
object, and `req` is how far a client's request has come. `view` and `tok` are what
the client believes. `inc`, `minted`, `lastId` and `misled` are history.

The abstractions: a document stands for its ETag, which is a hash of it; which rows are
past their retention is nondeterministic (`Compact`); transactions are atomic although
they begin DEFERRED (one that loses a race fails and changes nothing); a client that is
refused a token starts over. Left out: read-only calendars, and what the broker rewrites
(`Scheduling`).

### Mirror

`obj` is the calendar in jadav with the columns the mirror reads (`origin`, `rev`,
`deleted_at`), `map` is `mirror_map`, `token` is `remote_sync_token`, `remote` the
other calendar. `job` is the object `push_pending` or `pull` is working on, and
`job.at` the next request or statement for it, so that `record_pushed`,
`apply_remote_locally` and `conflict_remote_wins` are taken apart into their
statements. `attending` are the events whose organizer is somebody else. `Abort` is
any request or statement that fails, whether or not it was carried out, and a
restart: the pass breaks off and the next one starts from the store.

The abstractions: the remote names an event after its UID; the text of an event and
the identity's own PARTSTAT are all a document has, and equal documents have equal
fingerprints; the remote may or may not normalise what it is sent; list and multiget
are one request each. Left out: the history window, overrides of recurring events, a
remote that forbids an update, `mirror_skip`.

### GoogleRemote, GoogleDoc, GoogleAuth

`GoogleRemote` is `google.rs` as a remote: every REST request is a step and others
write the calendar between them; a listing comes in pages, its token may expire (410),
and a create, update, answer or delete may fail half done. `GoogleDoc` turns an event
into a document and back. Assumed of Google, from how the code uses it: pages are read
live, the token given at the end is as of the first page, and PATCH keeps fields it is
not sent. `GoogleAuth` has the refresh tokens, in memory and in the store, with
`jadav google auth` as another process that may write the store at any moment.

### Scheduling, ItipDoc

Two servers, an organizer's and an attendee's. Of each: `obj` its copy of the meeting,
`out` the outbound queue, `wire` what SMTP has taken, `box` the mailbox, in which a
position is a UID, `cursor`, `seen` and `processed` the memory of the watcher, `cli` a
client's request between its read and its transaction, `work` the outbound worker,
`watch` the watcher. A mail is a reference <<side, row>>. `applied`, `removed` and
`lost` are history. Two constants select the environment: `Atomic` says that nothing
commits between the read and the transaction of a write, `Guards` whether clients send
If-Match. `ItipDoc` says which blocks of a series with overrides a message carries, to
whom, and what is merged from it.

### WebDav

`tree` is the file system, `tmp` what is in `.tmp`, `locks` the lock table, `issued`
tokens given out, `req` the request each client is at. Every system call and every use
of the lock table's mutex is a step, so a request that has checked the locks meets what
others have done since. A MOVE uses the mutex twice, for its source and then for its
destination (webdav/mod.rs:970, 972), and `sinceSrc` and `since` are the tokens that
were out at each. Spaces may be mounted, in which case uploads and copies are
made in place. What only reads (GET, PROPFIND) is left out.

### MailSync

`cache` is `emails`, `state` is `sync_state`, `marks`, `stars`, `justRead` and
`justStarred` are the four collections of `SyncControl`, `ipc` the requests jamail
has sent. `pc` follows `sync_loop`: connect, `apply_pending_actions`, the pass over
the folders (`sync_folder`, `sync_flags`), and IDLE. A message is its UIDVALIDITY and
UID. jamail's writes to the cache are steps of their own, between any two of the
thread's.

The abstractions: the list of folders is a constant and a pass takes them in any
order; `Current`, the folder on screen, is a constant; SELECT and the read of the
sync state are one step, as are the FETCH and the INSERTs of a batch (nobody else
touches rows that are not there yet), the FETCH of flags in chunks of 500, and the
UPDATEs of `update_flags`; queues are sets, as requests are grouped by folder in a
`HashMap` before they are sent; shields expire at any moment; the full-text index and
attachments are written with the rows. Uploads are in `Outbox`.

### MailApp, MailThreads

jamail's screen over the cache. `table` is the cache, `list` the copy of the rows of
the folder on screen, conversations are places in that list, `asked` what jamaild was
asked to mark as seen. Keys, searches, the folder tree, virtual folders and the events
of jamaild are actions. `MailThreads` is `thread.rs`: a conversation is what citations
and, failing those, a long subject connect; lists are newest first. Opening links and
attachments is left out.

### Outbox, ComposeForm, TextEditor

`Outbox` has the rows of `local_messages`, the compose state, the send jobs and their
results, the uploads of copies and what jamail hears of them. A text stands for all
fields of a message; `jamail` may quit and `jamaild` die at any step. `ComposeForm`
is the message on screen and the form, key by key, up to the send worker, with the
files forwarded through `/tmp`. `TextEditor` is a text with a caret, and its
implementation with lines, row and column.

### Daemon

Every daemon lives once: it binds, probes or removes a stale socket, serves, is ended
or killed. Clients greet, send requests, get events, lose the connection and
reconnect. What jamail and jacal keep of the cache is the number of changes they have
read; a request is its number.

### CalApp

jacal's screen over the rows jamaild changes: days are numbers, `loaded` the copies of
the period on screen, `invites` of the invitation panel. Left out: recurring events
(their copies are rows like others) and colours.

### Rules and its modules

What has no history is a function: `Rules` has a variable `call`, a function call under
way, and `Return`; there are 17 kinds of calls. `CalDoc` are documents as sequences of
VEVENT blocks, with expansion, edits and answers; `CalText` lines, folding and
components; `CalForm` the event form; `CalGrid` the layout of days; `CalAlarms`
triggers and ticks; `MultiStatus` the XML answers as tokens. `RulesProps` states what
each call promises.

### Calendars, HttpConnection

`Calendars` is jadav's table of calendars: the configuration written in at start, the
lookup of an account's calendars, which reads the table once and records one by one
later, and the clients that make, change, delete and look for calendars.
`HttpConnection` is one connection, its bytes as tokens: what a client writes,
possibly cut off or withheld, what the three handlers read of it, and what `httpc`
makes of an answer. `NextChunk` is a round of the loop that reads chunks.

## Runs

| Run | Bounds | Shows |
|---|---|---|
| `CalSync` | 2 events, 2 actions of users and others, 2 faults; a server that inlines events | `SyncedRowsCurrent`, `PullSpares`, `Converges` |
| `CalSyncPaged` | 2 events, 3 actions, no fault; paging, a GET per event. Or: 2 names of which one is jacal's, 2 wordings, 2 users, 4 requests | `NothingMissing`, `HeldAsLogged` |
| `JadavSync` | 1 calendar, native or mirrored, 2 names, 2 UIDs, 4 changes, created twice | `ViewCurrent`, `LogTellsState`, `ServesContract` |
| `MailSync` | 1 folder, 2 UIDs, 2 UIDVALIDITYs, batches of 1, 2 actions, 1 fault, 2 tries | `NothingSkipped`, `OneMailbox`, `PruneOnlyGone`, `Converges` |
| `Mirror` | 1 event, 2 names, 3 writes, 1 failure | `TokenTellsMap`, `PushedOnce`, `Converges` |
| `Scheduling` | 1 meeting, 2 times, 2 edits of the organizer and 1 of the attendee, 1 fault, 1 retry of the organizer's mail | `MessagesTellApart`, `LatestArrives` |
| `WebDav` | 2 clients with 2 requests and 2 locks each at most, 3 requests in all; 2 spaces, one mounted; 1 fault | `LocksExclude`, `UploadsWhole`, `LocksHold` |
| `Daemon` | 2 daemons, jamail and a jacal that may stop reading, queues of 1, 2 requests, 1 change | `OneServes`, `AppliedInOrder`, `CatchUp` |
| `Outbox` | 2 messages with 2 texts, 2 sends, 2 sessions. Or: the form, 4 keys | `ListsAreTrue`, `SentAsShown`, `PreviewIsSelected`, `BodyIsText` |
| `CalApp` | 2 calendars, 3 events and one to come, 4 row ids, 3 actions | `ScreenIsTrue`, `ActsOnWhatItNames` |
| `MailApp` | 4 messages and a draft of 2 accounts, one more that may be saved, 3 actions | `ScreenIsTrue`, `RowsHold` |
| `Rules` | every small argument of 17 functions. Or: 3 tokens; a Google calendar of 4 versions; 2 changes of calendars and account; 2 requests on a connection | the five promises of `RulesProps`, `ReauthSurvives`, `PullTellsChanges`, `CalendarsAreFound`, `RequestsAreReadApart` |

"Or" marks runs that hold more than one system: the initial states choose one, the
others stand still, and nothing is shared between them.

Why the bounds are enough to be worth something. A disagreement between a copy and
its origin needs a write on each side and one step of the thread that was decided
before one of them; three actions allow a user, another client and a second write of
either around the decision, and a fault adds an answer lost or a pass cut off. Two
events, two messages or two names are what it takes for the thread to be done with
one and not with the other, which all partial progress comes down to; batches of one
make every message a batch boundary, and two UIDVALIDITYs make one replacement.

Each bound of the environment is a guard on users, other clients and failures or on
identifiers that only grow, never on the system's own steps:

- `CalSync`: `MaxActs`, `MaxFaults`; `MaxId` is as large as the actions can need.
  `CalSyncPaged` has no fault, because without inlined events a failed GET leaves an
  event missing while the token moves past it (`calsync.rs:490`, see Divergences).
- `JadavSync`: four changes fill a log, compact it, and go on; the calendar is deleted
  and created again once.
- `Scheduling`: `MaxSeq` and `MaxNow` number contents and time stamps; the organizer's
  worker has a retry, the attendee's none.
- `WebDav`: one tree at first, with a file in each space; `Ttl` 1 makes every lock one
  that may run out. Destinations are in both spaces.
- `Daemon`: `QueueCap` 1 makes every second event meet a full queue; `Rebuilt` is a
  daemon of another build, `Uploaders` the clients whose requests may exceed a frame,
  `Stuck` those that may stop reading. The file operations of a daemon's start and end
  interleave with those of other daemons (`Settled`), not with every request.
- `Outbox`: a session is a start of jamail or of jamaild. `ComposeForm` knows at most
  two addresses, so the limit of ten suggestions is not reached.
- `CalApp`: months have five days, weeks four, years two months; an event out of the
  period on screen is reached by up to four steps, where the code tries 64.
- `MailApp`: no two messages have one date, the order among which SQLite leaves open.
- `Rules`: hours are units, a day has two; windows, lookback and horizons are shortened
  alike; documents have one occurrence overridden at most.

Deadlock is checked except in `Daemon`, `Outbox`, `Rules`, `Scheduling` and `WebDav`,
which may stop within their bounds. Symmetry (of events, users, names, times or
clients) is used only in runs without liveness: `CalSyncPaged`, `JadavSync`,
`Scheduling`, `WebDav`.

## Properties

- **CalSync.** `SyncedRowsCurrent`: a row shown as synced, of an event whose last
  change the stored token covers, has the server's ETag and content and the event
  exists. `NothingMissing`: an event the token covers is cached, unless the user
  removed it. `PullSpares`: applying an answer never revives a row whose DELETE is
  owed, and drops only what the server, when it answered, no longer had. `Converges`:
  no write stays pending, cache and server agree.
- **HostedCalendar.** `HeldAsLogged`: a client whose token covers the newest entry of
  a name has what the server has, unless the log was left without an entry that says so.
- **JadavStore.** `ViewCurrent`: what a client's token covers, the client has, however
  writes, compaction and re-creation interleave with the statements of the REPORT,
  except for clients told less than the truth in the two ways listed under Divergences
  (`misled`). `LogTellsState`: the newest log row of a name tells whether it exists.
  `ServesContract`: the store implements `SyncContract`.
- **MailSync.** `NothingSkipped`: every readable message up to `last_uid` is cached,
  although batches arrive newest first and may stop after any. `OneMailbox`: the rows
  of a folder are of the UIDVALIDITY its sync state names, through a clearing of four
  statements that may be cut off, except after a first download that was (`orphaned`).
  `PruneOnlyGone`: a row goes only when the message has. `Converges`: flags agree, and
  if nothing failed the star the user chose last is the server's.
- **Mirror.** `TokenTellsMap`: the mirror map knows every change the remote token
  covers, and no mapping outlives its event. `PushedOnce`: the number of changes the
  mirror makes is bounded by the writes it answers, so nothing it applied is pushed
  back. `Converges`: the two calendars become equal, but for `Stranded` writes and
  `Orphaned` copies, which are divergences. `ReauthSurvives`: the store keeps the
  newest grant unless one crossed a refresh. `PullTellsChanges`: what has not changed
  at Google since the token of the last listing is here as it is there.
- **Scheduling.** `MessagesTellApart`: no two requests, nor a request and a copy in
  force, have one SEQUENCE and different contents, and none is carried out twice.
  `LatestArrives`: when all is delivered and nothing was lost, the attendee has the
  meeting as the organizer last left it.
- **WebDav.** `LocksExclude`: no exclusive lock overlaps another. `UploadsWhole`: no
  path outside a mount shows half an upload, and `.tmp` holds the uploads in flight.
  `LocksHold`: what a request writes is under no lock that was there when it asked
  about that path (each end of a MOVE for itself) and whose token it did not bring, and
  a lock goes only by its holder, its time or with its resource. A lock granted after
  the question holds nothing off: the code keeps nothing between question and write.
- **Daemon.** `OneServes`: two daemons serve at once only if their starts overlapped.
  `AppliedInOrder`: requests are carried out at most once and in order, over all
  connections. `CatchUp`: who reads its events has, in the end, what the cache has.
- **CalApp.** `ScreenIsTrue`: the day in focus is on the page, the page is loaded, the
  cursor is on an event if the day has one, and hidden calendars show none.
  `ActsOnWhatItNames`: a prompt, form or dialog changes the event it named when opened.
- **MailApp.** `ScreenIsTrue`: a list with nothing still to be heard of its folder is
  the list of the cache, conversations point into it and count it rightly, and what is
  marked as seen is what was opened. `RowsHold`: conversations are what citations
  connect, and cursors stay on what they were on.
- **Outbox.** `ListsAreTrue`: a row listed as sent was taken by the server, with the
  text shown unless it was taken up again; one listed as uploaded has a copy there.
  `SentAsShown`: what goes out is what a form said, from an address configured, and an
  address chosen from the suggestions stays a recipient. `PreviewIsSelected`: the
  attachment shown is the one selected. `BodyIsText`: the editor's lines, row and column
  implement a text with a caret.
- **Rules.** `EditsAreLocal`: an edit changes the occurrences, guests and lines it
  names and no other. `ViewsShowAll`: what falls into a window is shown once, under its
  override if it has one, and laid out without overlap. `InvitationsCarry`: an invitee
  gets their occurrences and not the others', an answer touches its sender only.
  `RemindersRing`: an alarm rings once within the grace time. `ReadsBackAlike`: what
  is written reads back as it was.
- **Calendars, HttpConnection.** `CalendarsAreFound`: a client finds every calendar
  and no other, and no calendar of an account is mirrored twice.
  `RequestsAreReadApart`: each request is read where it begins, with its own body,
  whole; `httpc` takes a part for the whole only if no length was given.

Every property of a run has a mutant of a definition of the code that TLC refutes
under the same configuration.

## Fairness

Liveness is checked under weak fairness of the system's own actions: `calsync_loop`,
`sync_loop` and `spawn_mirror_thread` are endless loops that poll or are woken, and
every request has a timeout, so a step that stays possible is taken.

- `CalSync`: the thread; a statement jacal has begun completes.
- `MailSync`: the thread or its failure; jamaild receives what jamail sent; shields
  expire and the interval of the full flag sync runs out, as time passes.
- `Mirror`: the thread.
- `Daemon`: a daemon told to end ends; one that starts goes on starting; one that has
  something to broadcast does. A client greets, handles what it was sent and reloads;
  one that is not stuck writes its requests and reconnects.

Users, other clients, the servers' other behaviour and failures owe nothing and are
bounded.

## Proofs

Eight modules hold the theorems; each is proved for every value of the constants, from
the named assumption of the component's module (bounds are naturals, sets are related
as the code's types relate them) and the ones listed here. The last step of each is the
same: `Init => IInv`, `IInv /\ [Next]_vars => IInv'`, `IInv => Property`; what differs
is the invariant. 29 of the 40 properties of the runs are theorems.

| Theorem | States | Assumes besides |
|---|---|---|
| `CalSyncProofs.CacheCurrent` | `SyncedRowsCurrent` | `Inline` |
| `CalSyncProofs.NothingIsMissing` | `NothingMissing` | `Inline` or no faults |
| `CalSyncProofs.DeletesAreKept`, `PullIsSparing` | `PullKeepsDeletes`, `PullSpares` | nothing; no paging |
| `CalSyncProofs.HeldIsAsLogged` | `HeldAsLogged` | |
| `CalSyncProofs.ContractKeepsPromise` | `Kept` of `SyncContract` | |
| `JadavStoreProofs.LogSound`, `ViewSound`, `TokensSound`, `UidsUnique` | `LogTellsState`, `ViewCurrent`, `TokensBehindHead`, `UidUnique` | |
| `JadavStoreProofs.StoreServesContract` | `ServesContract` | |
| `MailProofs.SkipsNothing`, `RowsOfOneMailbox`, `PrunesOnlyGone` | `NothingSkipped`, `OneMailbox`, `PruneOnlyGone` | |
| `MailProofs.MailScreenStaysTrue` | `ScreenIsTrue` of jamail | |
| `MirrorProofs.MapIsTold`, `WritesArePaid` | `TokenTellsMap`, `PushedOnce` | |
| `MirrorProofs.ReauthIsKept`, `PullTells` | `ReauthSurvives`, `PullTellsChanges` | |
| `SchedulingProofs.MessagesAreToldApart`, `LatestIsDelivered` | `MessagesTellApart`, `LatestArrives` | `Atomic`, `Guards = {TRUE}` |
| `SchedulingProofs.CarriedOutOnce`, `NoMailVanishes` | what of both holds anyway | |
| `WebDavProofs.LocksExcluded`, `UploadsAreWhole`, `LocksHeld` | `LocksExclude`, `UploadsWhole`, `LocksHold` | |
| `WebDavProofs.RequestsReadApart` | `RequestsAreReadApart` | a chunk is not empty (`HttpAssumption`) |
| `DesktopProofs.OneDaemonServes`, `RequestsInOrder` | `OneServes`, `AppliedInOrder` | |
| `DesktopProofs.ScreenStaysTrue`, `ActsAsNamed` | `ScreenIsTrue`, `ActsOnWhatItNames` of jacal | a week is no longer than a month (`CalAppAssumption`) |
| `OutboxProofs.ListsTellTheTruth`, `SendsAsShown`, `PreviewsAreSelected` | `ListsAreTrue`, `SentAsShown`, `PreviewIsSelected` | |
| `OutboxProofs.BodiesAreTexts` | `BodyIsText` | quotations and drafts are lines of characters (`ComposeAssumption`) |

`CalSyncProofs.TypeCorrect`, `JadavStoreProofs.TypeCorrect` and the first conjunct of
the other invariants are type correctness.

### Calendar sync

`SyncedRowsCurrent` is not inductive: a synced row is written by recording the answer to
a PUT, by applying a sync answer, and becomes covered by a token when that is stored,
each from something read earlier. `CacheInv` adds what those readings are worth by the
time they are used:

- `TokenOrder`: the stored token is one the server has given;
- `HrefUnique`: two rows never share an href, so what is applied to one row is all
  there is to apply;
- `JobFresh`: an answer about to be recorded as synced is of a change the stored
  token does not cover, so a stale one claims nothing yet;
- `AnswerTrue`: the answer being applied is still true of every event that has not
  changed since it was given;
- `Applied`: rows the answer has nothing left to say about are current as far as its
  token reaches, so that storing the token claims nothing false.

It needs a server that inlines events (`Inline`): without that the content a GET finds
may be newer than the ETag of the listing, and the row is current by another argument.

`NothingMissing` follows from `KeptInv`: row ids are given once (`IdsOnce`), rows are
those of their event (`OwnRows`) and numbered below what is to come (`Numbered`), the
job in hand is about a row that is there or was deleted by the user (`JobAbout`), a
removal that is told has happened (`GoneTrue`), and what the answer has dealt with so
far is there (`KeptSoFar`). It assumes `Inline` or no faults because a GET that fails
loses its event while the token moves on.

`PullIsSparing` needs only `SpareInv` (what a complete listing left out was gone when
it was made) but a server that does not truncate: a truncated initial answer is
reconciled as if it were complete (`calsync.rs:446`). That deletes are never revived
(`DeletesAreKept`) needs no such thing.

`HeldIsAsLogged`: `HostedInv` says that marks are behind the log, that names have their
newest entry unless untold, that an entry tells what its row was when written, and that
a report in the making, which reads the log and then rows one by one, is true of every
name without a newer entry. `ContractKeepsPromise`: `ContractInv`, what was heard is not
ahead of the count.

### Store

`LogTellsState`, `TokensBehindHead` and `ViewCurrent` follow from one invariant, `IInv`
(theorem `Invariance`), because each says what a number is worth (the id of a row, a
token) and the answer that hands a token out is put together over several steps.

- `StoreInv`, of the store alone: rows are numbered after the baseline and never after
  the last change of their href (`LogOrdered`); a calendar that is not there has
  neither log nor members (`GoneIsEmpty`); the last change of an href is in the log
  unless the baseline covers it (`LogComplete`); its row tells whether the member
  exists (`LastTells`);
- `ClientInv(c)`, of a client and its request: a head that has been read, like a token
  that is held, is not ahead of the calendar (`TokensReached`); no incarnation is noted
  before it exists (`Incarnations`); a REPORT is made for the token its client holds
  (`ReportStarts`); what the answer in the making says of a member, or leaves for the
  client to know, is true unless the member has changed since the head was read
  (`AnswerTrue`); the answer of a PUT is about a change the token does not cover
  (`PutIsNews`); and `ViewCurrent` itself.

The argument has two halves. `StoreStep` says what any step of the store leaves a
client to rely on (a member is as it was, or its last change is newer than every
number handed out before), each store action is shown to be one, and
`StepKeepsClient` shows once that such a step keeps `ClientInv`. The steps of a
request leave the store still, and are treated one by one. `ViewCurrent` is stated for
clients that were not misled, and the proof needs the exception exactly where
`ReadHead` and `ReadRows` compare the token with a baseline.

`StoreServesContract` takes the steps of the store, calendar by calendar, to `Change`,
`Elsewhere`, `Renew` and `Tell` of the contract, or to stutters; `IInv` gives that what
a report tells is what `Tell` may.

### Mirror and Google

`MirrorInv`: versions and revisions are numbered (`Numbered`); a resting mirror holds
nothing (`Resting`); the batch being pulled is of versions before its token
(`BatchNumbered`), and what it says (`BatchTrue`) and what the job in hand says
(`JobTrue`, `JobShape`) of an event is true unless the event has changed since; an event
the token covers is in the map as it is, or is still in the batch or the job
(`Accounted`). From it follows `TokenTellsMap`.

`PushedOnce` is proved by counting: `PushInv` says that each event has a credit of
remote writes still to come (`ThreadCredit` for what the thread has in hand, `OwnCredit`
for what the row owes, at most four together). A client's write adds two, another
writer's one besides its own change, a failure one; every write of the mirror is paid
out of its event's credit (`Paid`). What the thread has in hand is counted apart from
the row, and a row written since is counted in full, which is what "an echo is not
pushed back" means. The sum over events is the cardinality of a set of tokens <<event,
number>>, of which only those of touched events exist, so the theorem needs no
assumption that the events are finitely many.

`AuthInv`: the newest grant is in the store or held in memory, unless one crossed a
refresh. `RemoteInv`: what was listed so far is as it was at the first page or has
changed since the token that will be given (`ListingSound`); requests are about versions
that existed (`RequestShape`).

### Scheduling

Without any assumption, `PostInv`, `OnceInv` and `HandledInv` follow a mail through
queue, wire, mailbox and watcher: rows are numbered, a mail is in a mailbox at most
where its row says, what is processed is recorded, what is past the cursor was handled
or lost. They give `CarriedOutOnce` and `NoMailVanishes`.

That a SEQUENCE names one content holds where nothing commits between the read of an
object and the transaction that writes what was planned from it (`Atomic`), and
clients send If-Match (`Guards = {TRUE}`). The code enforces neither, which is what the
divergences below are about; clients that send If-Match are the normal case, and the
window of `Atomic` is that of one request. Under both, `MeetingInv` says that copies are
not ahead of the object (`Current`), that requests are told apart (`ToldApart`), that
the request of the object's SEQUENCE is queued (`InForce`) and what a watcher or a
client has planned is still so (`Planned`). `LatestIsDelivered` puts both halves
together: in force is a request like the object, all quiet means it was sent, arrived
and handled, so the copy's SEQUENCE is not behind it; `Current` says it is not ahead,
and `RisingInv` that the copy takes a later SEQUENCE only with its content.

### Files

`LocksExclude` is inductive with the types. `UploadsAreWhole`: `TreeWhole` says that no
path outside the mounts holds half a file, `TmpInFlight` that `.tmp` holds only what a
request is uploading, through broken uploads and restarts. `LocksHeld` needs to know of
each request which locks there were when it asked: `HeldOff` says that none of them is
in the way of what it will still write, and `Numbered` that tokens count up, so that a lock
granted later is told from one of them by its token.

`RequestsAreReadApart` speaks of the request being read. `HttpInv` says of all the
others where they lie on the wire: `LaidOut` gives each a place, the head there and what
was written of its body behind it; `Flows` adds that the next one begins at the first
byte, or before it once its head was read, and what may still be missing of the last.
Each action keeps that: a client appends to the last request (`LaidOutGrows`,
`LaidOutFollows`), and reading a body takes the wire to the place of the next. The
latter is `BodyRead`: from a wire on which a body lies whole, `ReadBody` takes that
body and leaves the rest, and from one that is cut inside of it, it is never done. For
chunks it goes by induction over the rounds of the loop (see Sending): after
round `i`, `i` chunks are taken and `NextChunk` stands where the next one begins. So a
server goes on only where it has read to the end, which is what `Finished` must mean.

### Mail

`MailInv` follows `CacheInv`'s pattern: UIDs are numbered (`Numbered`), state, rows and
job are behind the server (`StateBehind`, `RowsBehind`, `JobBehind`), and for each phase
one conjunct says what was read and what of it still holds: `Clearing`, `Listing`,
`Fetching`, `Pruning`, `Flagging`. `Origin` says which mailbox rows come from.

`MailScreenStaysTrue`: `PaneInv` says that the table is well formed (`StoreHolds`); that
a list has no message twice and conversations are those `BuildThreads` makes of it
(`PaneHolds`); that what was asked to be marked was opened, and what is open is among
it (`ReadHolds`); and that a list nothing is owed to is the cache's (`ListHolds`). A
lemma about `NewestFirst`, in which a place is the number of messages not older, says
that the ranks are a bijection. The proof treats `BuildThreads` as a function of the
list, and uses nothing of what it computes.

### Sending

`ListInv`: rows are made in order (`MadeInOrder`) and given states stay (`GivenStays`);
jobs write the draft they were made from (`WritesDraft`), and answers are about rows that
are as the answer says, unless taken up again (`AnswersTrue`). `ComposeInv` joins
`ScreenInv`, about what is previewed, `FormInv`, that an address chosen is a recipient of
the part up to the last comma, which later keys leave alone, and `SentInv`.

`BodiesAreTexts` is a refinement: every step of the form maps to a step of `TextEditor`
or a stutter. `BodyInv` says that there is always a line, that row and column are
places in the lines (`IsBody`), and that outside of composing the form is blank. The
lines are cut at the caret (`CutAt`) into the rows above, the parts of the row before
and behind it, and the rows below. Each edit is told by what it does to these four, and
each operation of the text by what stands before and behind the caret; `CutIsTold`
connects both. The connection rests on `ToldConcat`: lines told one after the other are
the lines of both told at once.

`Told` is a recursive function of the number of lines, so this needs induction over
numbers. It is `SetInduction`: a set that has 0 and with a number the next has all of
them, or else adding 1 would take the finite set of its members below a missing number
into itself without 0, and one place would be short. From it follow that what goes on
from number to number is a function on every `0 .. n` (`GoesOnFar`), and what `Told` is.

### Desktop

`OneServes` is inductive with `Alone`: unless starts overlapped, one daemon starts at
once, who listens has the path, and nobody listens while a stale socket is removed. `OrderInv`: the requests of a client, carried out, refused, on the wire and
waiting, are in one order, over all its connections.

`AppInv` of jacal: every position, those of the history too, has its focus on its page
(`AppTyped`); the period loaded is the page's and a day with events has one under the
cursor (`Placed`); copies and dialogs carry the UID of the row they name, ids being
given once (`NamesHold`); the settings file agrees with the settings, and hidden
calendars are off wherever they are listed (`Hiding`). Lemmas show that places on
screen have no gap and that four periods always reach a day.

## Only model-checked

- Liveness under fairness: `Converges` of `CalSync`, `MailSync` and `Mirror`, `CatchUp`
  of `Daemon`. It is out of the prover's reach.
- `Rules`: `EditsAreLocal`, `ViewsShowAll`, `InvitationsCarry`, `RemindersRing`,
  `ReadsBackAlike`. They say what recursive operators and folds over documents, lines
  and days compute. The library's induction takes an operator as a parameter, which no
  installed prover can instantiate, and a fold of the community modules cannot be
  unfolded. Induction over numbers can be had for a recursive function (see Sending),
  but these rules recur over documents.
- `RowsHold`: conversations are computed by a recursive search of the citations, and
  places on screen by flattening lists of rows.
- `CalendarsAreFound`: what a client finds is a fold over an XML answer; that no
  calendar is mirrored twice depends on what may stand in the configuration file.

## Not modelled

- Mail notifications (`notify.rs`) run a program and ignore its outcome. Configuration
  (`config.rs`, `lib.rs`, `theme.rs`) is read once and has no behaviour; what it says of
  calendars and accounts is in constants.
- Drawing and colours; MIME, SMTP and IMAP syntax; TLS, URLs and authentication; the
  expansion of recurrence rules (a library) and time zone tables; schema upgrades;
  full-text search; free-busy; calendar-query filters; the pacing of Google requests.
- Of the hazards one has no property: a compaction that commits between the check of a
  token and the read of the rows (`jadav/store.rs:1167`); clients told so are `misled`
  and excepted from `ViewCurrent`.

## Divergences seen while modelling

Where the code does not do what a comment, a document or another part of it says, or
does what its author would hardly want. Met while modelling, in the models or by reading;
the properties name the exception, or the model follows the code and the property is
stated so that it is true. Lines are of `src/src`.

**Calendar sync**

- `db.rs:1820` (README:125, `calsync.rs:19`): an edit saved while a PUT or a sync answer
  is in flight is marked synced without having been sent, or replaced.
- `db.rs:1735`, `calsync.rs:46`: a write carries the ETag the row has when it is sent,
  not the one its author saw, and so passes If-Match over content nobody looked at.
- `calsync.rs:41`: the pull of the same cycle turns a row marked conflict into a synced
  one, so the flag the comment promises is not there to be seen.
- `calsync.rs:606`: a create that is refused and edited again is sent as an update to
  the `local:` placeholder, which line 627 guards deletes against.
- `db.rs:1809`: a `pending_create` row deleted while its PUT is in flight goes at once
  and comes back with the next pull; line 1794 says the server never heard of it.
- `calsync.rs:446`: an initial sync answer that was truncated is reconciled as if it
  were complete: events of the pages to come are dropped until the next cycle.
- `calsync.rs:490`: a GET that fails is logged and skipped while the token moves past
  it: the event is missing until it changes again.

**The calendar jamaild hosts** (`caldav_server.rs`, `db.rs`)

- No operation is a transaction: dying between the row and `append_sync_log` leaves a
  change that is never told; a DELETE crossing a PUT of one name leaves a newest entry
  that contradicts the row; two conditional PUTs with one ETag may both succeed,
  contrary to the comment at `db.rs:2024`.
- A client's PUT overwrites a pending edit of jacal; `server_commit_local_write` may
  stamp an old ETag on newer text; stale queue entries commit a synced row again.
- calendar-query lists pending rows under `local:` hrefs; a report calls a row deleted
  by its log entry even if it exists; `Expect: 100-continue` is not answered.

**Store and CalDAV server**

- `jadav/store.rs:999`: the newest token of a deleted calendar is accepted by the
  calendar created in its place, if nothing was logged since.
- `jadav/store.rs:1167`: the baseline is compared before the log is read; a compaction
  in between answers an expired token without the rows it removed.
- `jadav/store.rs:1493`: a PUT is answered with the ETag of the object as it is after
  the commit, which may be another client's.
- `jadav/store.rs:39`: transactions begin DEFERRED where the module doc says IMMEDIATE.
- HEAD of an object has two Content-Length headers; OPTIONS names REPORT and MKCALENDAR
  where they are 405; privileges are claimed for calendars that answer 403.
- `jadav/store.rs:877`: a native calendar created between `apply_discovery`'s read and
  its upsert under the same slug becomes the account's. One configured after discovery
  under another slug is mirrored twice; one configured and deleted is back at the next
  start.
- An href inside a property nobody asked for would overwrite the response's in
  `parse_multistatus`; `<C:calendar></C:calendar>` is not recognised.

**Mirror and Google**

- `jadav/store.rs:1490`, `:1431` against `mirror.rs:6`, `:15`: a write of a client
  between the mirror's commit and its reading the object again counts as pushed, and
  never is; an event stored under a new name after a delete that is still to be pushed
  starts at revision 1 and is not pushed (`Stranded`).
- `jadav/mirror.rs:579`: an edit or delete made while its predecessor is being pushed
  is overwritten by the remote's normalised copy of that.
- `jadav/mirror.rs:763`, `:812`: after a lost answer the mirror meets its own write as
  a conflict, and "remote wins" discards what a client has written since.
- `jadav/mirror.rs:629`: a copy stored before its mapping is recorded stays for good if
  the pass is cut off there and the event goes (`Orphaned`).
- `jadav/mirror.rs:946`, `jadav/store.rs:1397`: a local object whose name is another
  event's UID makes the pull of that event fail in every pass; a name whose delete is
  still to be pushed, used for another event, makes the mirror forget the delete.
- `jadav/google.rs:128`: `persist_working` overwrites a grant just given while the old
  one still worked; `NeedsReauth` can park an account re-authorised in between.
- `jadav/google.rs:1397`: an update compares the master's etag and then writes without
  a condition; a partly failed update meets its own change as a conflict when retried;
  an answer sends the whole guest array as fetched.
- A cleared description, location or guest list is never sent; reminders switched off
  come back as the default; "(no title)" and the conference link are written back;
  CUTYPE=RESOURCE is not mapped back; the master fetched for a lone exception is not
  checked against `skip_event_types`.

**Scheduling**

- With `Atomic = FALSE`: `stamp_status` and `process_message` lose updates of each
  other; without If-Match one SEQUENCE names two contents; an attendee who deleted the
  meeting gets an older REQUEST "created"; replies are reordered by a retry; a message
  is lost if jadav dies after `imap_seen_insert`.
- `jadav/itip.rs:765`: CANCEL of an uninvited guest reuses the SEQUENCE of the last REQUEST,
  so a cancelled copy may have that SEQUENCE with an older start: `MessagesTellApart`
  speaks of copies in force. `jadav/itip.rs:1145` stamps a copy it cancels with its own time, so that an
  invitation sent again before then, at that SEQUENCE, counts as older (`:42`).
- A guest removed from one occurrence is not told and keeps the master's slot; jadav
  never sends CANCELs of instances; a REPLY for an occurrence without override is
  ignored; a REQUEST with a higher SEQUENCE replaces the attendee's document with its
  own alarms; a CANCEL naming an occurrence of a single event leaves it.

**Files**

- `jadav/webdav/mod.rs:956`: a COPY or MOVE onto a collection its source is in removes
  the source with it before there is anything to copy, and answers 500, which `:48` has
  for partial failures; `:584` against `:20`: what is copied into a mounted space is
  written in place, where readers may find half of it.
- `jadav/webdav/mod.rs:1234`: cleaning up after a refused LOCK may delete another's upload;
  `remove_under` of a DELETE may drop a lock just granted; holders of a shared lock
  block each other.

**Mail**

- `sync.rs:288` against `:244`: when one STORE fails, requests for other folders that
  were drained with it are dropped.
- `mail.rs:678`, `sync.rs:71`: a message read or starred after the flag sync looked at
  the shields and before it writes flips back until the next pass.
- `mail.rs:357`: rows of a first download that was cut off have no sync state, and are
  not cleared when the mailbox is replaced.
- `sync.rs:316`: a star that failed is queued again beside a newer one (line 190 says
  the newest replaces). A queued UID has no UIDVALIDITY.
- `app.rs:543`, `:693`, `bin/jamail.rs:297`: a refresh while a virtual folder is shown
  lists the folder below it; `refresh_emails` moves the cursor from an inner message to
  the summary row; `load_virtual_folder` keeps the old list on an error.
- `bin/jamail.rs:1005`: MarkSeen is sent again for what was read, and after an opening
  that failed. `thread.rs:148` says that threads are not joined by subject; one whose
  members have no headers is, through a later mail that has. A message id that occurs in
  two accounts joins their conversations.

**Sending**

- Files forwarded are removed before the worker reads them; two of one name overwrite
  each other in `/tmp`; `resume_draft` forgets the directory; drafts and their uploaded
  copies never have attachments; the last empty line of a body is lost.
- From and To are split at commas: a suggestion (`get_known_addresses` takes raw From
  headers) with a comma in its display name becomes two recipients; a To of only commas
  passes the check and fails in the worker; `update_draft` keeps the first `in_reply_to`.
- `db.rs:1339`: edits of a row with a send error are not saved; `app.rs:649`: resuming
  opens the text of a stale list; the answer to a draft's upload is put on the sent row;
  a row is "Sending" for good after jamail quits, and pending for good if jamaild dies.

**Daemon and IPC**

- `daemon.rs:445`: two starters over one stale socket may both serve (`overlap`).
- `daemon.rs:175` against `:78`: a client whose queue is full is dropped from the
  broadcast for good, where the comment says it misses events.
- `ipc.rs:773` against `:638`: a request is lost if the connection breaks while it is
  written, or the daemon dies; one too large for a frame is put behind later ones.
- jamail neither reloads on `Connected` nor sends its current folder again; a ping may
  read an event before its Pong and start a second daemon, which then gives up.

**jacal and alarms**

- `calapp.rs:2350`: a jump to an all-day invitation lands a day early
  west of UTC; an event waited for takes the cursor when it comes, wherever the user has
  gone meanwhile. `bin/jacal.rs:764`: the invitation panel sorts itself periodically too,
  and the cursor stays at its place, not at its invitation.
- Calendars that vanish leave an orphan row behind an open form; `begin_create` with all
  calendars hidden takes none; a dialog overwrites what was pulled while it was open;
  preferences that fail to be written are taken for written.
- `calapp.rs:1803`: one try is said to suffice to reach an event's day; four may be
  needed, and are enough.
- `calnotify.rs:243`: a lead of more than 48 hours never fires, nor one more than an
  hour after the event; a failed delivery is not retried; a restart within the grace
  fires twice; `:25` says that jacal shows failures of what jamaild delivers.

**iCalendar**

- `calendar.rs:272` says that ATTENDEE, VALARM and RRULE are not editable; `:2085` and
  its neighbours edit them. `:2047`: the form sends UTC, so an event with a TZID
  saved unchanged counts up its SEQUENCE; `:301`: editing the guests loses parameters of
  ATTENDEE and ORGANIZER; a zero-length event cannot be saved in the form.
- Moving the start of a series leaves its EXDATEs and overrides; `db.rs:83` takes the
  first VEVENT with the UID, which may be an override.
- A zero-length event exactly at the start of a window is in neither window beside it;
  a component that is not closed is lost when written.
