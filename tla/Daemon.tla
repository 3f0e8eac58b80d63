------------------------------- MODULE Daemon -------------------------------
(***************************************************************************)
(* jamaild and the programs that talk to it: daemon.rs, the framing and    *)
(* the connection manager of ipc.rs, and what the main loops of jamail and *)
(* jacal do with what they are told.                                       *)
(*                                                                         *)
(* A daemon is a process that lives once. It binds the socket, or probes   *)
(* and replaces the file a dead one left, serves, and at the end unlinks   *)
(* whatever is at the path; it may be killed at any time. A client greets  *)
(* the daemon it finds at the path, sends its requests, is pushed events,  *)
(* and connects again when the connection ends. The accounts' caches are   *)
(* one number, the changes the sync threads have made to it; an event says *)
(* that there was a change, and a program that acts on one reads the cache *)
(* itself. A request is its number in the order its client sent it.        *)
(***************************************************************************)
EXTENDS Naturals, Sequences, FiniteSets, Functions

CONSTANTS
  Daemons,      \* the processes of jamaild that are started
  Rebuilt,      \* those that may come from another build than the clients
  NoDaemon,     \* no process
  Clients,      \* the programs that connect
  Reloaders,    \* those of them that are jacal; the others are jamail
  Uploaders,    \* those whose requests may carry a message: jamail
  Stuck,        \* the clients that may stop reading their socket
  QueueCap,     \* CLIENT_QUEUE_CAPACITY
  MaxChanges,   \* bound: changes the sync threads make
  MaxRequests   \* bound: requests of all the clients together

ASSUME DaemonAssumption ==
  /\ NoDaemon \notin Daemons /\ Rebuilt \subseteq Daemons
  /\ Reloaders \subseteq Clients /\ Stuck \subseteq Clients /\ Uploaders \subseteq Clients
  /\ QueueCap \in Nat \ {0}
  /\ MaxChanges \in Nat
  /\ MaxRequests \in Nat

VARIABLES
  path,      \* the daemon whose socket is the file at the path
  phase,     \* where each daemon is between its start and its end
  newer,     \* the daemons that speak another PROTOCOL_VERSION than the clients
  overlap,   \* history: two daemons were starting at once
  pumped,    \* changes of each daemon's sync threads its pump has not broadcast
  cache,     \* changes made to the cache
  link,      \* the client's side of its connection
  peer,      \* the daemon at the other end
  conn,      \* the daemon's side: whether the client is greeted, registered
  changed,   \* history: its daemon has changed the cache since it was registered
  queue,     \* the daemon's channel to the client's writer thread
  shown,     \* the changes the client's screen reflects
  sent,      \* requests the client has made
  waiting,   \* requests in the client's own queue
  wire,      \* requests written to the socket, not yet read
  behind,    \* requests left in a connection the client has given up
  applied,   \* history: the requests of each client the daemons carried out
  oversized  \* history: the clients that tried a frame above MAX_FRAME_BYTES

NothingBehind == [at |-> NoDaemon, requests |-> <<>>]

daemonVars == <<path, phase, newer, overlap>>
workVars == <<pumped, cache>>
connVars == <<link, peer, conn, changed, queue>>
requestVars == <<sent, waiting, wire, behind, applied, oversized>>
vars == <<daemonVars, workVars, connVars, shown, requestVars>>

Init ==
  /\ path = NoDaemon
  /\ phase = [d \in Daemons |-> "off"]
  /\ newer = {}
  /\ overlap = FALSE
  /\ pumped = [d \in Daemons |-> 0]
  /\ cache = 0
  /\ link = [c \in Clients |-> "away"]
  /\ peer = [c \in Clients |-> NoDaemon]
  /\ conn = [c \in Clients |-> "none"]
  /\ changed = [c \in Clients |-> FALSE]
  /\ queue = [c \in Clients |-> <<>>]
  /\ shown = [c \in Clients |-> 0]
  /\ sent = [c \in Clients |-> 0]
  /\ waiting = [c \in Clients |-> <<>>]
  /\ wire = [c \in Clients |-> <<>>]
  /\ behind = [c \in Clients |-> NothingBehind]
  /\ applied = [c \in Clients |-> <<>>]
  /\ oversized = {}

Requests == FoldFunction(+, 0, sent)

-----------------------------------------------------------------------------
(* The socket. *)

\* The phases of a start: nothing but the socket has been touched.
Starting == {"binding", "probing", "removing", "rebinding", "chmod"}

\* A listening socket accepts connections from the moment it is bound.
Listening(d) == phase[d] \in {"chmod", "up"}

Serving(d) == phase[d] = "up"

Moves(d, p) == phase' = [phase EXCEPT ![d] = p]

\* The daemon that is started may come from another build than the clients.
Start(d) ==
  /\ phase[d] = "off"
  /\ Moves(d, "binding")
  /\ overlap' = (overlap \/ \E e \in Daemons : phase[e] \in Starting)
  /\ newer' \in {newer, newer \cup ({d} \cap Rebuilt)}
  /\ UNCHANGED <<path, workVars, connVars, shown, requestVars>>

\* The first bind, and the second after a stale file was removed: the file
\* must not be there.
Bind(d) ==
  /\ phase[d] \in {"binding", "rebinding"}
  /\ IF path = NoDaemon
     THEN path' = d /\ Moves(d, "chmod")
     ELSE /\ Moves(d, IF phase[d] = "binding" THEN "probing" ELSE "gone")
          /\ UNCHANGED path
  /\ UNCHANGED <<newer, overlap, workVars, connVars, shown, requestVars>>

\* Mutant of Probe: the file is taken for stale without a look at who listens.
ProbeNobody(d) ==
  /\ phase[d] = "probing"
  /\ Moves(d, "removing")
  /\ UNCHANGED <<path, newer, overlap, workVars, connVars, shown, requestVars>>

\* Somebody who answers at the path is a running daemon; whatever else
\* happens to the probe, the file is taken for stale.
Probe(d) ==
  /\ phase[d] = "probing"
  /\ Moves(d, IF path # NoDaemon /\ Listening(path) THEN "gone" ELSE "removing")
  /\ UNCHANGED <<path, newer, overlap, workVars, connVars, shown, requestVars>>

\* The file is removed by name. One that is no longer there ends the start.
RemoveStale(d) ==
  /\ phase[d] = "removing"
  /\ Moves(d, IF path = NoDaemon THEN "gone" ELSE "rebinding")
  /\ path' = NoDaemon
  /\ UNCHANGED <<newer, overlap, workVars, connVars, shown, requestVars>>

\* The permissions are set by name too; then the sync threads are started.
SetPermissions(d) ==
  /\ phase[d] = "chmod"
  /\ Moves(d, IF path = NoDaemon THEN "gone" ELSE "up")
  /\ UNCHANGED <<path, newer, overlap, workVars, connVars, shown, requestVars>>

-----------------------------------------------------------------------------
(* The end of a daemon, and of the connections it had. *)

\* What a connection's end at the daemon's side leaves: nothing of it is read
\* any more. The client finds out on its own.
Hangs(c) ==
  /\ conn' = [conn EXCEPT ![c] = "none"]
  /\ queue' = [queue EXCEPT ![c] = <<>>]
  /\ changed' = [changed EXCEPT ![c] = FALSE]
  /\ wire' = [wire EXCEPT ![c] = <<>>]

Dies(d) ==
  LET theirs == {c \in Clients : peer[c] = d} IN
  /\ Moves(d, "gone")
  /\ pumped' = [pumped EXCEPT ![d] = 0]
  /\ conn' = [c \in Clients |-> IF c \in theirs THEN "none" ELSE conn[c]]
  /\ queue' = [c \in Clients |-> IF c \in theirs THEN <<>> ELSE queue[c]]
  /\ wire' = [c \in Clients |-> IF c \in theirs THEN <<>> ELSE wire[c]]
  /\ behind' = [c \in Clients |-> IF behind[c].at = d THEN NothingBehind ELSE behind[c]]
  /\ changed' = [c \in Clients |-> changed[c] /\ c \notin theirs]
  /\ UNCHANGED <<newer, overlap, cache, link, peer, shown, sent, waiting, applied, oversized>>

\* SIGTERM or Request::Shutdown, seen by the watcher: it unlinks the path,
\* whoever is bound there, and then ends the process.
Unlink(d) ==
  /\ Serving(d)
  /\ Moves(d, "unlinked")
  /\ path' = NoDaemon
  /\ UNCHANGED <<newer, overlap, workVars, connVars, shown, requestVars>>

Exit(d) ==
  /\ phase[d] = "unlinked"
  /\ Dies(d)
  /\ UNCHANGED path

\* SIGKILL, or a crash: the file stays.
Kill(d) ==
  /\ Listening(d)
  /\ Dies(d)
  /\ UNCHANGED path

-----------------------------------------------------------------------------
(* The sync threads and the broadcast. *)

Registered(d) == {c \in Clients : peer[c] = d /\ conn[c] = "registered"}

\* A sync thread writes the cache, then puts its event on the pump's channel.
Commit(d) ==
  /\ Serving(d)
  /\ cache < MaxChanges
  /\ cache' = cache + 1
  /\ pumped' = [pumped EXCEPT ![d] = @ + 1]
  /\ changed' = [c \in Clients |-> changed[c] \/ c \in Registered(d)]
  /\ UNCHANGED <<daemonVars, link, peer, conn, queue, shown, requestVars>>

HasRoom(c) == Len(queue[c]) < QueueCap

\* A client whose queue is full does not get the event, and is taken off the
\* list: it gets none of the later ones either.
Broadcast(d) ==
  LET reached == {c \in Registered(d) : HasRoom(c)} IN
  /\ Serving(d)
  /\ pumped[d] > 0
  /\ pumped' = [pumped EXCEPT ![d] = @ - 1]
  /\ queue' = [c \in Clients |-> IF c \in reached THEN Append(queue[c], "event") ELSE queue[c]]
  /\ conn' = [c \in Clients |-> IF c \in Registered(d) \ reached THEN "dropped" ELSE conn[c]]
  /\ UNCHANGED <<cache, daemonVars, link, peer, changed, shown, requestVars>>

-----------------------------------------------------------------------------
(* A connection. *)

Connect(c) ==
  /\ link[c] = "away"
  /\ path # NoDaemon /\ Listening(path)
  /\ link' = [link EXCEPT ![c] = "greeting"]
  /\ peer' = [peer EXCEPT ![c] = path]
  /\ UNCHANGED <<conn, changed, queue, daemonVars, workVars, shown, requestVars>>

\* The daemon reads the client's hello and answers it. Of another version it
\* says so and hangs up.
Greet(c) ==
  /\ link[c] = "greeting" /\ conn[c] = "none"
  /\ Serving(peer[c])
  /\ conn' = [conn EXCEPT ![c] = IF peer[c] \in newer THEN "refused" ELSE "greeted"]
  /\ UNCHANGED <<link, peer, changed, queue, daemonVars, workVars, shown, requestVars>>

Register(c) ==
  /\ conn[c] = "greeted"
  /\ conn' = [conn EXCEPT ![c] = "registered"]
  /\ changed' = [changed EXCEPT ![c] = FALSE]
  /\ UNCHANGED <<link, peer, queue, daemonVars, workVars, shown, requestVars>>

\* The handshake succeeded: jacal reads its cache again and asks for a
\* calendar sync; jamail only clears its status line.
Connected(c) ==
  /\ link[c] = "greeting" /\ conn[c] \in {"greeted", "registered", "dropped"}
  /\ link' = [link EXCEPT ![c] = "live"]
  /\ IF c \in Reloaders
     THEN /\ shown' = [shown EXCEPT ![c] = cache]
          /\ IF Requests < MaxRequests
             THEN /\ sent' = [sent EXCEPT ![c] = @ + 1]
                  /\ waiting' = [waiting EXCEPT ![c] = Append(@, sent[c] + 1)]
             ELSE UNCHANGED <<sent, waiting>>
     ELSE UNCHANGED <<shown, sent, waiting>>
  /\ UNCHANGED <<peer, conn, changed, queue, daemonVars, workVars, wire, behind, applied, oversized>>

\* The versions differ: the connection manager reports it and stops for good.
Fatal(c) ==
  /\ link[c] = "greeting" /\ conn[c] = "refused"
  /\ link' = [link EXCEPT ![c] = "fatal"]
  /\ conn' = [conn EXCEPT ![c] = "none"]
  /\ UNCHANGED <<peer, changed, queue, daemonVars, workVars, shown, requestVars>>

\* The daemon is gone, and a read or a write of the client fails.
Disconnected(c) ==
  /\ link[c] \in {"greeting", "live"} /\ phase[peer[c]] = "gone"
  /\ link' = [link EXCEPT ![c] = "away"]
  /\ peer' = [peer EXCEPT ![c] = NoDaemon]
  /\ UNCHANGED <<conn, changed, queue, daemonVars, workVars, shown, requestVars>>

\* The writer thread writes the next message. The client's reader passes an
\* event on to the main loop, which reads the cache; an answer is dropped.
Write(c) ==
  /\ link[c] = "live" /\ queue[c] # <<>>
  /\ queue' = [queue EXCEPT ![c] = Tail(@)]
  /\ shown' = [shown EXCEPT ![c] = IF Head(queue[c]) = "event" THEN cache ELSE @]
  /\ UNCHANGED <<link, peer, conn, changed, daemonVars, workVars, requestVars>>

-----------------------------------------------------------------------------
(* The programs. *)

\* Mutant of Reload: only while the daemon is there.
ReloadOnline(c) ==
  /\ c \in Reloaders
  /\ link[c] = "live" /\ conn[c] # "dropped"
  /\ shown[c] # cache
  /\ shown' = [shown EXCEPT ![c] = cache]
  /\ UNCHANGED <<daemonVars, workVars, connVars, requestVars>>

\* jacal reads its cache again every CALENDAR_RELOAD_INTERVAL.
Reload(c) ==
  /\ c \in Reloaders
  /\ shown[c] # cache
  /\ shown' = [shown EXCEPT ![c] = cache]
  /\ UNCHANGED <<daemonVars, workVars, connVars, requestVars>>

\* IpcClient::send: queued whether connected or not.
Send(c) ==
  /\ Requests < MaxRequests
  /\ sent' = [sent EXCEPT ![c] = @ + 1]
  /\ waiting' = [waiting EXCEPT ![c] = Append(@, sent[c] + 1)]
  /\ UNCHANGED <<wire, behind, applied, oversized, daemonVars, workVars, connVars, shown>>

-----------------------------------------------------------------------------
(* Requests on their way. *)

\* Mutant of Forward: a request stays in the queue until its write returns,
\* and a daemon that died in between has both.
ForwardKeeping(c) ==
  /\ link[c] = "live" /\ waiting[c] # <<>>
  /\ \/ /\ waiting' = [waiting EXCEPT ![c] = Tail(@)]
        /\ UNCHANGED wire
     \/ /\ Head(waiting[c]) \notin {wire[c][i] : i \in DOMAIN wire[c]}
        /\ UNCHANGED waiting
        /\ wire' = [wire EXCEPT ![c] = IF conn[c] = "none" THEN <<>> ELSE Append(@, Head(waiting[c]))]
  /\ UNCHANGED <<sent, behind, applied, oversized, daemonVars, workVars, connVars, shown>>

\* The request leaves the queue, then it is written. Into the socket of a
\* daemon that is gone it is lost.
Forward(c) ==
  /\ link[c] = "live" /\ waiting[c] # <<>>
  /\ waiting' = [waiting EXCEPT ![c] = Tail(@)]
  /\ wire' = [wire EXCEPT ![c] = IF conn[c] = "none" THEN <<>> ELSE Append(@, Head(waiting[c]))]
  /\ UNCHANGED <<sent, behind, applied, oversized, daemonVars, workVars, connVars, shown>>

\* An upload whose frame is above MAX_FRAME_BYTES: the write fails, the
\* request is gone, and the client shuts the connection down. The daemon's
\* handler goes on reading what it had been sent before.
ForwardOversized(c) ==
  /\ c \in Uploaders
  /\ link[c] = "live" /\ waiting[c] # <<>>
  /\ conn[c] # "none" /\ behind[c] = NothingBehind
  /\ waiting' = [waiting EXCEPT ![c] = Tail(@)]
  /\ oversized' = oversized \cup {c}
  /\ behind' = [behind EXCEPT ![c] = [at |-> peer[c], requests |-> wire[c]]]
  /\ Hangs(c)
  /\ link' = [link EXCEPT ![c] = "away"]
  /\ UNCHANGED <<sent, applied, daemonVars, workVars, shown>>
  /\ peer' = [peer EXCEPT ![c] = NoDaemon]

\* The handler reads a request, carries it out, and waits for room in the
\* client's queue for the answer.
Handle(c) ==
  /\ conn[c] \in {"registered", "dropped"} /\ wire[c] # <<>>
  /\ Serving(peer[c])
  /\ HasRoom(c)
  /\ wire' = [wire EXCEPT ![c] = Tail(@)]
  /\ applied' = [applied EXCEPT ![c] = Append(@, Head(wire[c]))]
  /\ queue' = [queue EXCEPT ![c] = Append(@, "answer")]
  /\ UNCHANGED <<sent, waiting, behind, oversized, daemonVars, workVars, link, peer, conn, changed, shown>>

\* The handler of a connection the client has shut down reads to its end.
HandleBehind(c) ==
  /\ behind[c].requests # <<>>
  /\ behind' = [behind EXCEPT ![c].requests = Tail(@)]
  /\ applied' = [applied EXCEPT ![c] = Append(@, Head(behind[c].requests))]
  /\ UNCHANGED <<sent, waiting, wire, oversized, daemonVars, workVars, connVars, shown>>

-----------------------------------------------------------------------------
LifeStep(d) ==
  \/ Start(d) \/ Bind(d) \/ Probe(d) \/ RemoveStale(d) \/ SetPermissions(d)
  \/ Unlink(d) \/ Exit(d) \/ Kill(d)

ClientStep(c) ==
  \/ Connect(c) \/ Greet(c) \/ Register(c) \/ Connected(c) \/ Fatal(c) \/ Disconnected(c)
  \/ Write(c) \/ Reload(c)
  \/ Send(c) \/ Forward(c) \/ ForwardOversized(c) \/ Handle(c) \/ HandleBehind(c)

\* Bound: the file operations of a start, and the unlink and exit of an end,
\* are interleaved with the other daemons' starts and ends, not with the work
\* of the connections.
Settled == \A d \in Daemons : phase[d] \notin Starting \cup {"unlinked"}

Next ==
  \/ \E d \in Daemons : LifeStep(d)
  \/ Settled /\ \E d \in Daemons : Commit(d) \/ Broadcast(d)
  \/ Settled /\ \E c \in Clients : ClientStep(c)

Spec == Init /\ [][Next]_vars

\* A start and an end go on, and every thread runs, except that a client in Stuck need
\* not read its socket.
FairSpec ==
  /\ Spec
  /\ \A d \in Daemons :
       /\ WF_vars(Exit(d))
       /\ WF_vars(Bind(d) \/ Probe(d) \/ RemoveStale(d) \/ SetPermissions(d))
       /\ WF_vars(Settled /\ Broadcast(d))
  /\ \A c \in Clients :
       /\ WF_vars(Settled /\ Register(c)) /\ WF_vars(Settled /\ Handle(c))
       /\ WF_vars(Settled /\ Reload(c))
  /\ \A c \in Clients \ Stuck :
       WF_vars(Settled /\ Write(c)) /\ WF_vars(Settled /\ Connected(c))

-----------------------------------------------------------------------------
(* What the daemon and its clients promise each other. *)

\* Requests are numbered, and what is on its way was sent (daemon.rs, ipc.rs).
TypeOK ==
  /\ path \in Daemons \cup {NoDaemon}
  /\ phase \in [Daemons -> Starting \cup {"off", "up", "unlinked", "gone"}]
  /\ cache \in 0 .. MaxChanges
  /\ \A d \in Daemons : pumped[d] \in 0 .. cache
  /\ link \in [Clients -> {"away", "greeting", "live", "fatal"}]
  /\ conn \in [Clients -> {"none", "greeted", "refused", "registered", "dropped"}]
  /\ changed \in [Clients -> BOOLEAN]
  /\ \A c \in Clients :
       /\ shown[c] \in 0 .. cache
       /\ Len(queue[c]) <= QueueCap
       /\ \A i \in DOMAIN applied[c] : applied[c][i] \in 1 .. sent[c]

\* Two daemons serve at once only when two starts overlapped: a start alone
\* finds the one that runs, and gives up (bind_or_recover).
OneServes ==
  ~overlap => \A d, e \in Daemons : Serving(d) /\ Serving(e) => d = e

\* A client's requests are carried out at most once each and in the order it
\* made them, over all its connections and all the daemons it talked to. Only
\* a frame too large, after which two of its connections are read side by
\* side, takes the order away (connection_manager_loop, handle_client).
AppliedInOrder ==
  \A c \in Clients :
    \A i, j \in DOMAIN applied[c] :
      i < j => /\ applied[c][i] # applied[c][j]
               /\ c \notin oversized => applied[c][i] < applied[c][j]

\* A client that is registered and reads its socket gets to show every change
\* made since, whatever the other clients do: one that does not read never
\* holds the pump up (Daemon::broadcast).
KeepsUp ==
  \A c \in Clients \ Stuck :
    (conn[c] = "registered" /\ changed[c]) ~> (conn[c] # "registered" \/ shown[c] = cache)

\* jacal shows the cache in the end, connected or not, dropped or not (the
\* main loop of jacal).
JacalCatchesUp ==
  \A c \in Reloaders : <>[](shown[c] = cache)

\* Both of these.
CatchUp == KeepsUp /\ JacalCatchesUp
=============================================================================
