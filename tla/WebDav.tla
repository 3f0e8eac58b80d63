------------------------------- MODULE WebDav -------------------------------
(*
  The WebDAV file server of jadav (webdav/mod.rs) and its write locks
  (webdav/locks.rs). One thread serves each connection; the threads share the
  lock manager, a mutex, and the directory tree, which has none.

  A path is the sequence of decoded URL segments that locks are held by; its
  first segment stands for the space (a home or a share), the tree is what is on
  disk below the space directories. A request resolves its target, asks the lock
  manager, and then changes the disk and the locks in the order of its handler,
  every system call and every use of the mutex a step of its own.
  What a client reads (GET, PROPFIND) changes nothing and is left out.
*)
EXTENDS Naturals, Sequences, FiniteSets

CONSTANTS
    Client,     \* connections, each of another user
    Path,       \* paths of the instance, closed under parents
    Targets, Dests, LockRoots,  \* the paths that requests name
    Mounted,    \* spaces that are a mount of their own, apart from .tmp
    Access,     \* [Client -> [space -> {"none", "read", "write"}]], from the config
    InitTrees,  \* trees the server may find on disk
    Ttl,        \* bound on the timeout of a lock
    MaxLocks,   \* bound on the locks granted
    MaxReqs,    \* bound on the other requests
    MaxAll,     \* bound on both and the restarts together
    MaxFaults   \* bound on restarts

VARIABLES
    tree,       \* [Path -> what is on disk there]
    tmp,        \* clients with a file in <root>/.tmp
    locks,      \* the locks held, in memory
    issued,     \* tokens issued so far: a token is its number
    req,        \* [Client -> request being served]
    used, faults

vars == <<tree, tmp, locks, issued, req, used, faults>>

Nobody == "nobody"
Absent == [kind |-> "absent", by |-> Nobody, part |-> "no"]
Dir == [Absent EXCEPT !.kind = "dir"]
\* part: "put" or "copy" while only some of its bytes are there.
File(c, part) == [kind |-> "file", by |-> c, part |-> part]
Node == {Absent, Dir} \cup {File(c, part) : c \in Client \cup {Nobody}, part \in {"no", "put", "copy"}}

Space(p) == p[1]
IsMember(p) == Len(p) > 1
Parent(p) == SubSeq(p, 1, Len(p) - 1)
IsProperPrefix(p, q) == Len(p) < Len(q) /\ SubSeq(q, 1, Len(p)) = p
Below(p) == {q \in Path : IsProperPrefix(p, q)}
Exists(p) == tree[p].kind # "absent"
ParentDir(p) == tree[Parent(p)].kind = "dir"

ASSUME WebDavAssumption ==
    /\ \A p \in Path : p \in Seq(STRING) /\ p # <<>>
    /\ \A p \in Path : Len(p) > 1 => SubSeq(p, 1, Len(p) - 1) \in Path
    /\ Ttl \in Nat \ {0}
    /\ Targets \cup Dests \cup LockRoots \subseteq Path
    /\ InitTrees \subseteq [Path -> {Absent, Dir, File(Nobody, "no")}]
    /\ \A t \in InitTrees, p \in Path :
        IF IsMember(p) THEN t[p] # Absent => t[Parent(p)] = Dir ELSE t[p] = Dir
    /\ {MaxLocks, MaxReqs, MaxAll, MaxFaults} \subseteq Nat

-----------------------------------------------------------------------------
\* The lock manager

Lock == [token : Nat \ {0}, path : Path, user : Client,
         exclusive : BOOLEAN, infinite : BOOLEAN, left : 1..Ttl]

Covers(l, p) == l.path = p \/ (l.infinite /\ IsProperPrefix(l.path, p))

\* Mutant of Overlaps: what the new lock would cover below it is forgotten.
OverlapsAbove(l, p, infinite) == Covers(l, p)

Overlaps(l, p, infinite) == Covers(l, p) \/ (infinite /\ IsProperPrefix(p, l.path))

Conflicts(p, exclusive, infinite) ==
    {l \in locks : Overlaps(l, p, infinite) /\ (exclusive \/ l.exclusive)}

\* What stops client c, who submits the tokens up to with, from changing p.
Blocking(c, with, p, recursive, membership) ==
    {l \in locks : /\ \/ Covers(l, p)
                      \/ recursive /\ IsProperPrefix(p, l.path)
                      \/ membership /\ l.path = Parent(p)
                   /\ ~(l.user = c /\ l.token <= with)}

DropUnder(p) == {l \in locks : l.path # p /\ ~IsProperPrefix(p, l.path)}

-----------------------------------------------------------------------------
\* The disk

Cut(t, p) == [q \in Path |-> IF q = p \/ IsProperPrefix(p, q) THEN Absent ELSE t[q]]

\* What t has at src and, if deep, below it, laid over dst.
Graft(t, src, dst, deep) ==
    LET From(q) == src \o SubSeq(q, Len(dst) + 1, Len(q))
    IN  [q \in Path |->
            IF q = dst THEN t[src]
            ELSE IF deep /\ IsProperPrefix(dst, q) /\ From(q) \in Path
                    /\ t[From(q)] # Absent
            THEN t[From(q)]
            ELSE tree[q]]

\* A copy of half an upload is a half copy.
Copied == [q \in Path |-> IF tree[q].part = "put" THEN [tree[q] EXCEPT !.part = "copy"]
                          ELSE tree[q]]

\* Every member below src has an image below dst within Path.
Fits(src, dst) ==
    \A q \in Below(src) :
        Exists(q) => dst \o SubSeq(q, Len(src) + 1, Len(q)) \in Path

\* copy_tree makes its collections anew and opens its files over files.
CanLay(src, dst) ==
    \A q \in Below(src) :
        Exists(q) => LET there == tree[dst \o SubSeq(q, Len(src) + 1, Len(q))].kind
                     IN  there = "absent" \/ (there = "file" /\ tree[q].kind = "file")

CanRename(src, dst) ==
    /\ Exists(src) /\ ParentDir(dst)
    /\ tree[src].kind = "file" => tree[dst].kind # "dir"
    /\ tree[src].kind = "dir" => /\ tree[dst].kind # "file"
                                 /\ \A q \in Below(dst) : ~Exists(q)

\* remove_any acts on the kind the request saw when it resolved its target.
CanRemove(p, seenKind) == tree[p].kind = seenKind

CanCreate(p) == ~Exists(p) /\ ParentDir(p)
CanFill(p) == tree[p].kind # "dir" /\ ParentDir(p)

-----------------------------------------------------------------------------
\* Requests

Idle == [op |-> "NONE", pc |-> "idle", path |-> <<>>, dest |-> <<>>, cond |-> "any",
         deep |-> FALSE, exclusive |-> FALSE, with |-> 0, kind |-> "absent",
         sinceSrc |-> 0, since |-> 0, changed |-> FALSE]
Op == {"PUT", "DELETE", "MKCOL", "COPY", "MOVE", "LOCK"}
Pc == {"idle", "source", "check", "body", "store", "fill", "remove", "forget", "make",
       "replace", "replaced", "place", "copy", "unlink", "moved",
       "create", "grant", "clean"}

Asked(op, p) == [Idle EXCEPT !.op = op, !.path = p]

\* cond: the request goes ahead only if its target is "absent" (If-None-Match: *,
\* Overwrite: F) or "present" (If-Match).
Puts == {[Asked("PUT", p) EXCEPT !.cond = k] : p \in Targets, k \in {"any", "absent", "present"}}

Transfer(op, p, d, k, b) == [Asked(op, p) EXCEPT !.dest = d, !.cond = k, !.deep = b]
Transfers ==
    {Transfer(op, p, d, k, b) :
        op \in {"COPY", "MOVE"}, p \in Targets, d \in Dests, k \in {"any", "absent"}, b \in BOOLEAN}

LockRequest(p, b, x) == [Asked("LOCK", p) EXCEPT !.deep = b, !.exclusive = x]
LockRequests == {LockRequest(p, b, x) : p \in LockRoots, b \in BOOLEAN, x \in BOOLEAN}

Plain == {Asked(op, p) : op \in {"DELETE", "MKCOL"}, p \in Targets}

Requests == Puts \cup Plain \cup Transfers \cup LockRequests

Target(r) == IF r.op \in {"COPY", "MOVE"} THEN r.dest ELSE r.path

MaySee(c, p) == Access[c][Space(p)] # "none"
MayWrite(c, p) == Access[c][Space(p)] = "write"

Conditions(r) ==
    /\ r.cond = "absent" => ~Exists(Target(r))
    /\ r.cond = "present" => Exists(Target(r))

\* Requests for a lock that are being served.
Locking == Cardinality({c \in Client : req[c].op = "LOCK"})

\* Everything a handler asks before its locks: a request that fails it is answered
\* and changes nothing.
Resolves(c, r) ==
    /\ Conditions(r)
    /\ MayWrite(c, Target(r))
    /\ CASE r.op = "PUT" ->
              IsMember(r.path) /\ tree[r.path].kind # "dir" /\ ParentDir(r.path)
         [] r.op = "DELETE" -> IsMember(r.path) /\ Exists(r.path)
         [] r.op = "MKCOL" -> IsMember(r.path) /\ CanCreate(r.path)
         [] r.op \in {"COPY", "MOVE"} ->
              /\ Exists(r.path) /\ MaySee(c, r.path)
              /\ r.op = "MOVE" => IsMember(r.path) /\ MayWrite(c, r.path)
              /\ IsMember(r.dest) /\ ParentDir(r.dest)
              /\ r.path # r.dest /\ ~IsProperPrefix(r.path, r.dest)
              /\ Fits(r.path, r.dest)
         [] r.op = "LOCK" ->
              /\ Exists(r.path) \/ IsMember(r.path)
              /\ issued + Locking < MaxLocks

Start(c) ==
    /\ req[c].pc = "idle"
    /\ \E r \in Requests, w \in {0, issued} :
        /\ Resolves(c, r)
        /\ used' = IF r.op = "LOCK" THEN used ELSE used + 1
        /\ LET kind == tree[Target(r)].kind
           IN req' = [req EXCEPT ![c] =
                [r EXCEPT !.pc = CASE r.op = "LOCK" /\ kind # "absent" -> "grant"
                                   [] r.op = "MOVE" -> "source"
                                   [] OTHER -> "check",
                          !.deep = IF r.op = "LOCK" THEN @ /\ kind = "dir"
                                   ELSE @ \/ tree[r.path].kind # "dir",
                          !.cond = "any",
                          !.kind = kind,
                          !.with = w]]
    /\ used' <= MaxReqs /\ issued + Locking + used + faults < MaxAll
    /\ UNCHANGED <<tree, tmp, locks, issued, faults>>

Goto(c, pc) ==
    /\ req' = [req EXCEPT ![c].pc = pc]
    /\ UNCHANGED <<used, faults>>

Changing(c, pc) ==
    /\ req' = [req EXCEPT ![c].pc = pc, ![c].changed = TRUE]
    /\ UNCHANGED <<used, faults>>

Answer(c) ==
    /\ req' = [req EXCEPT ![c] = Idle]
    /\ UNCHANGED <<used, faults>>

\* Mutant of InTheWay: MKCOL and PUT do not ask about the collection they add to.
InTheWayNoMembers(c, r) ==
    Blocking(c, r.with, Target(r), r.op \in {"DELETE", "COPY", "MOVE"},
             r.op \in {"DELETE", "COPY", "MOVE"})

InTheWay(c, r) ==
    Blocking(c, r.with, Target(r), r.op \in {"DELETE", "COPY", "MOVE"},
             r.op = "PUT" => r.kind = "absent")

\* A MOVE asks about its source first, and lets go of the mutex before it asks about
\* its destination.
SourceInTheWay(c, r) == Blocking(c, r.with, r.path, TRUE, TRUE)

FirstStep(r) ==
    CASE r.op = "PUT" -> "body"
      [] r.op = "DELETE" -> "remove"
      [] r.op = "MKCOL" -> "make"
      [] r.op = "LOCK" -> "create"
      [] OTHER -> IF r.kind = "absent" THEN "place" ELSE "replace"

CheckSource(c) ==
    LET r == req[c]
    IN  /\ r.pc = "source"
        /\ \/ /\ SourceInTheWay(c, r) # {}
              /\ Answer(c)
           \/ /\ SourceInTheWay(c, r) = {}
              /\ req' = [req EXCEPT ![c].pc = "check", ![c].sinceSrc = issued]
              /\ UNCHANGED <<used, faults>>
        /\ UNCHANGED <<tree, tmp, locks, issued>>

\* check_locks; LOCK on an unmapped URL looks at the parent collection only now.
Check(c) ==
    LET r == req[c]
    IN  /\ r.pc = "check"
        /\ \/ /\ InTheWay(c, r) # {} \/ (r.op = "LOCK" /\ ~ParentDir(r.path))
              /\ Answer(c)
              /\ UNCHANGED tmp
           \/ /\ InTheWay(c, r) = {} /\ (r.op = "LOCK" => ParentDir(r.path))
              /\ req' = [req EXCEPT ![c].pc = FirstStep(r), ![c].since = issued]
              /\ tmp' = IF r.op = "PUT" THEN tmp \cup {c} ELSE tmp
              /\ UNCHANGED <<used, faults>>
        /\ UNCHANGED <<tree, locks, issued>>

-----------------------------------------------------------------------------
\* PUT: the body goes to .tmp and is renamed over the target

BodyBreaks(c) ==
    /\ req[c].pc = "body"
    /\ tmp' = tmp \ {c}
    /\ Answer(c)
    /\ UNCHANGED <<tree, locks, issued>>

BodyArrives(c) ==
    /\ req[c].pc = "body"
    /\ Goto(c, "store")
    /\ UNCHANGED <<tree, tmp, locks, issued>>

\* Mutant of StoreInto: the upload is written where readers look for it.
StoreIntoPlace(c, p) ==
    /\ tree' = [tree EXCEPT ![p] = File(c, "put")]
    /\ Changing(c, "fill")
    /\ UNCHANGED tmp

\* Into a space of another mount the fallback of move_path copies in place.
StoreInto(c, p) ==
    IF Space(p) \in Mounted
    THEN /\ tree' = [tree EXCEPT ![p] = File(c, "put")]
         /\ Changing(c, "fill")
         /\ UNCHANGED tmp
    ELSE /\ tree' = [tree EXCEPT ![p] = File(c, "no")]
         /\ tmp' = tmp \ {c}
         /\ Answer(c)

Store(c) ==
    LET p == req[c].path
    IN  /\ req[c].pc = "store"
        /\ \/ /\ CanFill(p)
              /\ StoreInto(c, p)
           \/ /\ ~CanFill(p)
              /\ tmp' = tmp \ {c}
              /\ Answer(c)
              /\ UNCHANGED tree
        /\ UNCHANGED <<locks, issued>>

\* The copy ends, or the disk is full; the file may have gone meanwhile.
Fill(c) ==
    LET p == req[c].path
    IN  /\ req[c].pc = "fill"
        /\ tmp' = tmp \ {c}
        /\ \/ /\ tree' = IF tree[p] = File(c, "put")
                         THEN [tree EXCEPT ![p] = File(c, "no")] ELSE tree
              /\ Answer(c)
           \/ /\ Answer(c)
              /\ UNCHANGED tree
        /\ UNCHANGED <<locks, issued>>

-----------------------------------------------------------------------------
\* DELETE and MKCOL

\* remove_dir_all may stop half-way: some member is gone, never the root.
RemoveAny(c, p, next) ==
    \/ /\ CanRemove(p, req[c].kind)
       /\ tree' = Cut(tree, p)
       /\ Changing(c, next)
    \/ /\ CanRemove(p, req[c].kind) /\ req[c].kind = "dir"
       /\ \E gone \in {q \in Below(p) : Exists(q)} : tree' = Cut(tree, gone)
       /\ Answer(c)
    \/ /\ ~CanRemove(p, req[c].kind)
       /\ Answer(c)
       /\ UNCHANGED tree

Remove(c) ==
    /\ req[c].pc = "remove"
    /\ RemoveAny(c, req[c].path, "forget")
    /\ UNCHANGED <<tmp, locks, issued>>

Forget(c) ==
    /\ req[c].pc = "forget"
    /\ locks' = DropUnder(req[c].path)
    /\ Answer(c)
    /\ UNCHANGED <<tree, tmp, issued>>

Make(c) ==
    LET p == req[c].path
    IN  /\ req[c].pc = "make"
        /\ \/ /\ CanCreate(p)
              /\ tree' = [tree EXCEPT ![p] = Dir]
              /\ Answer(c)
           \/ /\ ~CanCreate(p)
              /\ Answer(c)
              /\ UNCHANGED tree
        /\ UNCHANGED <<tmp, locks, issued>>

-----------------------------------------------------------------------------
\* COPY and MOVE: replace what is there, then copy or rename

Replace(c) ==
    /\ req[c].pc = "replace"
    /\ RemoveAny(c, req[c].dest, "replaced")
    /\ UNCHANGED <<tmp, locks, issued>>

Replaced(c) ==
    /\ req[c].pc = "replaced"
    /\ locks' = DropUnder(req[c].dest)
    /\ Goto(c, "place")
    /\ UNCHANGED <<tree, tmp, issued>>

\* MOVE within one filesystem.
Rename(c) ==
    LET r == req[c]
    IN  /\ r.pc = "place" /\ r.op = "MOVE"
        /\ Space(r.path) = Space(r.dest)
        /\ \/ /\ CanRename(r.path, r.dest) /\ Fits(r.path, r.dest)
              /\ tree' = Cut(Graft(tree, r.path, r.dest, TRUE), r.path)
              /\ Changing(c, "moved")
           \/ /\ ~CanRename(r.path, r.dest)
              /\ Answer(c)
              /\ UNCHANGED tree
        /\ UNCHANGED <<tmp, locks, issued>>

\* copy_tree makes the collection, or opens the file, before it has the content.
CopyBegins(c) ==
    LET r == req[c]
        src == tree[r.path]
        can == IF src.kind = "dir" THEN CanCreate(r.dest) ELSE CanFill(r.dest)
    IN  /\ r.pc = "place"
        /\ r.op = "COPY" \/ Space(r.path) # Space(r.dest)
        /\ \/ /\ src.kind # "absent" /\ can
              /\ tree' = [tree EXCEPT ![r.dest] =
                            IF src.kind = "dir" THEN Dir ELSE File(src.by, "copy")]
              /\ Changing(c, "copy")
           \/ /\ src.kind = "absent" \/ ~can
              /\ Answer(c)
              /\ UNCHANGED tree
        /\ UNCHANGED <<tmp, locks, issued>>

\* The rest of the copy: all of it, or an error that leaves what has begun. A file
\* that was taken away meanwhile is written to its end all the same.
CopyEnds(c) ==
    LET r == req[c]
        deep == r.op = "MOVE" \/ r.deep
        intact == tree[r.dest].kind = tree[r.path].kind /\ Exists(r.path)
    IN  /\ r.pc = "copy"
        /\ \/ /\ intact /\ Fits(r.path, r.dest) /\ CanLay(r.path, r.dest)
              /\ tree' = Graft(Copied, r.path, r.dest, deep)
              /\ IF r.op = "MOVE" THEN Changing(c, "unlink") ELSE Answer(c)
           \/ /\ ~intact
              /\ IF r.op = "MOVE" THEN Goto(c, "unlink") ELSE Answer(c)
              /\ UNCHANGED tree
           \/ /\ Answer(c)
              /\ UNCHANGED tree
        /\ UNCHANGED <<tmp, locks, issued>>

\* The second half of a MOVE between filesystems.
Unlink(c) ==
    LET p == req[c].path
    IN  /\ req[c].pc = "unlink"
        /\ tree' = Cut(tree, p)
        /\ IF Exists(p) THEN Changing(c, "moved") ELSE Answer(c)
        /\ UNCHANGED <<tmp, locks, issued>>

Moved(c) ==
    /\ req[c].pc = "moved"
    /\ locks' = DropUnder(req[c].path)
    /\ Answer(c)
    /\ UNCHANGED <<tree, tmp, issued>>

-----------------------------------------------------------------------------
\* LOCK and UNLOCK

\* An unmapped URL becomes an empty file, if nobody made it first.
Create(c) ==
    LET p == req[c].path
    IN  /\ req[c].pc = "create"
        /\ \/ /\ CanCreate(p)
              /\ tree' = [tree EXCEPT ![p] = File(Nobody, "no")]
              /\ Changing(c, "grant")
           \/ /\ ~CanCreate(p)
              /\ Answer(c)
              /\ UNCHANGED tree
        /\ UNCHANGED <<tmp, locks, issued>>

\* Random in the code; here, one never given out before.
NextToken == issued + 1

Grant(c) ==
    LET r == req[c]
        conflicts == Conflicts(r.path, r.exclusive, r.deep)
    IN  /\ r.pc = "grant"
        /\ \/ /\ conflicts = {}
              /\ issued' = issued + 1
              /\ \E n \in 1..Ttl :
                    locks' = locks \cup
                        {[token |-> NextToken, path |-> r.path, user |-> c,
                          exclusive |-> r.exclusive, infinite |-> r.deep, left |-> n]}
              /\ Answer(c)
           \/ /\ conflicts # {}
              /\ IF r.changed THEN Goto(c, "clean") ELSE Answer(c)
              /\ UNCHANGED <<locks, issued>>
        /\ UNCHANGED <<tree, tmp>>

\* The file a refused LOCK created is removed, whatever it holds by now.
Clean(c) ==
    LET p == req[c].path
    IN  /\ req[c].pc = "clean"
        /\ tree' = IF tree[p].kind = "file" THEN [tree EXCEPT ![p] = Absent] ELSE tree
        /\ Answer(c)
        /\ UNCHANGED <<tmp, locks, issued>>

\* A LOCK without a body.
Refresh(c) ==
    /\ req[c].pc = "idle"
    /\ \E l \in locks, p \in Path, n \in 1..Ttl :
        /\ Covers(l, p) /\ l.user = c /\ MayWrite(c, p)
        /\ locks' = (locks \ {l}) \cup {[l EXCEPT !.left = n]}
    /\ UNCHANGED <<tree, tmp, issued, req, used, faults>>

UnlockOf(c, l, p) == Covers(l, p) /\ MaySee(c, p) /\ l.user = c

Unlock(c) ==
    /\ req[c].pc = "idle"
    /\ \E l \in locks, p \in Path :
        /\ UnlockOf(c, l, p)
        /\ locks' = locks \ {l}
    /\ UNCHANGED <<tree, tmp, issued, req, used, faults>>

-----------------------------------------------------------------------------
\* Time and restarts

\* Every use of the lock manager first drops the locks that have expired.
Tick ==
    /\ locks # {}
    /\ locks' = {[l EXCEPT !.left = @ - 1] : l \in {k \in locks : k.left > 1}}
    /\ UNCHANGED <<tree, tmp, issued, req, used, faults>>

\* jadav stops and starts again: the disk stays, locks and requests are gone.
Restart ==
    /\ faults < MaxFaults
    /\ faults' = faults + 1
    /\ locks' = {}
    /\ tmp' = {}
    /\ req' = [c \in Client |-> Idle]
    /\ UNCHANGED <<tree, issued, used>>

Init ==
    /\ tree \in InitTrees
    /\ tmp = {} /\ locks = {} /\ issued = 0
    /\ req = [c \in Client |-> Idle]
    /\ used = 0 /\ faults = 0

Step(c) ==
    \/ Start(c) \/ CheckSource(c) \/ Check(c)
    \/ BodyBreaks(c) \/ BodyArrives(c) \/ Store(c) \/ Fill(c)
    \/ Remove(c) \/ Forget(c) \/ Make(c)
    \/ Replace(c) \/ Replaced(c) \/ Rename(c)
    \/ CopyBegins(c) \/ CopyEnds(c) \/ Unlink(c) \/ Moved(c)
    \/ Create(c) \/ Grant(c) \/ Clean(c) \/ Refresh(c) \/ Unlock(c)

Next == (\E c \in Client : Step(c)) \/ Tick \/ Restart

Spec == Init /\ [][Next]_vars

-----------------------------------------------------------------------------
(* What the WebDAV file server and its locks promise (webdav/mod.rs, locks.rs). *)

\* Types, and what ties the parts of the state together: tokens are unique and
\* were issued, and a client has an upload in .tmp only while it is sending it.
TypeOK ==
    /\ tree \in [Path -> Node]
    /\ tmp \subseteq Client
    /\ issued \in Nat /\ used \in Nat /\ faults \in Nat
    /\ \A l \in locks : l \in Lock /\ l.token <= issued
    /\ \A k, l \in locks : k.token = l.token => k = l
    /\ \A c \in Client :
        /\ req[c].pc \in Pc /\ req[c].op \in Op \cup {"NONE"}
        /\ req[c].sinceSrc <= issued /\ req[c].since <= issued /\ req[c].with <= issued
        /\ req[c].pc # "idle" => req[c].path \in Path

\* An exclusive lock is alone: no other lock covers anything it covers, whichever
\* was taken first, at whatever depth (RFC 4918 section 6; locks.rs, lock).
LocksExclude ==
    \A k, l \in locks :
        /\ k # l
        /\ k.exclusive \/ l.exclusive
        => ~Covers(k, l.path) /\ ~Covers(l, k.path)

\* When request r asked about p: a MOVE asks for its source before its destination.
AskedAt(r, p) ==
    IF r.op = "MOVE" /\ p # r.dest /\ ~IsProperPrefix(r.dest, p) THEN r.sinceSrc ELSE r.since

\* A request changes what a lock of another user covers, or adds to or takes from a
\* collection another user has locked, only if it had asked about that path before
\* the lock was granted. The code holds nothing between asking and the last write, so
\* a lock granted there comes too late; one that was there when the request asked
\* holds it off at any depth, the two ends of a MOVE each from when it asked about
\* that end (locks.rs, check_write). A PUT that found its target may make it anew.
LockHoldsOff ==
    [][tree' # tree => \A c \in Client, l \in locks, p \in Path :
        LET r == req[c]
        IN  /\ r.pc # "idle" /\ req' # req /\ req'[c] # r
            /\ ~(l.user = c /\ l.token <= r.with)
            /\ \/ tree'[p] # tree[p] /\ Covers(l, p)
               \/ /\ (tree'[p].kind = "absent") # (tree[p].kind = "absent")
                  /\ l.path = Parent(p)
                  /\ r.op = "PUT" => r.kind = "absent"
            => l.token > AskedAt(r, p)]_vars

\* Uploads are renamed into place: in a space on the filesystem of .tmp no reader
\* opens half an upload, and .tmp holds nothing but the uploads in flight, also
\* after a restart (mod.rs, put and open).
UploadsWhole ==
    /\ \A p \in Path : Space(p) \notin Mounted => tree[p].part # "put"
    /\ tmp = {c \in Client : req[c].pc \in {"body", "store", "fill"}}

\* A lock that has not run out goes only because its holder gives it up, or with
\* its resource: removed by a request that submitted its token or had asked before
\* it was granted (locks.rs, unlock and remove_under; a restart forgets them all).
LocksGoWithResource ==
    [][locks' # locks /\ faults' = faults =>
        \A l \in locks :
            \/ \E k \in locks' : k.token = l.token
            \/ Tick
            \/ \E c \in Client :
                /\ req[c].pc \in {"forget", "replaced", "moved"} /\ req'[c] # req[c]
                /\ \/ l.token > AskedAt(req[c], l.path)
                   \/ l.user = c /\ l.token <= req[c].with
            \/ \E p \in Path : Covers(l, p) /\ req[l.user].pc = "idle" /\ req' = req]_vars

\* Both of these.
LocksHold == LockHoldsOff /\ LocksGoWithResource
=============================================================================
