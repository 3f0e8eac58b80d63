---------------------------- MODULE WebDavProofs ----------------------------
(*
  For any paths, clients and bounds: no two locks of the WebDAV server are in each
  other's way, no path outside the mounted spaces shows half an upload, and a lock
  holds off whoever had not asked before it was granted. And on a connection, for any
  requests cut anywhere, each is read where it begins and with its own body.
*)
EXTENDS WebDav, HttpConnection, FiniteSetTheorems, TLAPS

\* The fields of a lock; what they hold does not matter to the exclusion.
Shaped(l) ==
    /\ DOMAIN l = {"token", "path", "user", "exclusive", "infinite", "left"}
    /\ l = [f \in DOMAIN l |-> l[f]]

AreLocks(S) == \A l \in S : Shaped(l)

Exclusive(S) ==
    \A k, l \in S :
        k # l /\ (k.exclusive \/ l.exclusive)
        => ~Covers(k, l.path) /\ ~Covers(l, k.path)

\* LocksExclude alone is not inductive: the locks a tick or a refresh puts in place
\* of the old ones are alike because a lock is a record of these fields.
IInv == AreLocks(locks) /\ Exclusive(locks)

\* Setting the time a lock has left keeps the rest of it.
LEMMA LeftOnly ==
    ASSUME NEW l, Shaped(l), NEW n
    PROVE  LET k == [l EXCEPT !.left = n]
           IN  /\ Shaped(k)
               /\ k.token = l.token /\ k.path = l.path /\ k.user = l.user
               /\ k.exclusive = l.exclusive /\ k.infinite = l.infinite
  BY DEF Shaped

LEMMA SameLock ==
    ASSUME NEW l, NEW k, Shaped(l), k = l \/ \E n : k = [l EXCEPT !.left = n]
    PROVE  k.path = l.path /\ k.exclusive = l.exclusive /\ k.infinite = l.infinite
  <1>1. CASE k = l
    BY <1>1
  <1>2. CASE \E n : k = [l EXCEPT !.left = n]
    <2>1. PICK n : k = [l EXCEPT !.left = n]
      BY <1>2
    <2> QED
      BY <2>1, LeftOnly
  <1> QED
    BY <1>1, <1>2

\* A set each of whose locks is one of S, but for the time it has left, is as
\* exclusive as S.
LEMMA ImageExcludes ==
    ASSUME NEW S, NEW T, AreLocks(S), Exclusive(S),
           \A k \in T : \E l \in S : k = l \/ \E n : k = [l EXCEPT !.left = n],
           \A k, m \in T : k # m => \E l, o \in S :
                /\ l # o
                /\ k = l \/ \E n : k = [l EXCEPT !.left = n]
                /\ m = o \/ \E n : m = [o EXCEPT !.left = n]
    PROVE  AreLocks(T) /\ Exclusive(T)
  <1>1. AreLocks(T)
    BY LeftOnly DEF AreLocks
  <1>2. SUFFICES ASSUME NEW k \in T, NEW m \in T, k # m, k.exclusive \/ m.exclusive
                 PROVE  ~Covers(k, m.path) /\ ~Covers(m, k.path)
    BY <1>1, Zenon DEF Exclusive
  <1>3. ~Covers(k, m.path) /\ ~Covers(m, k.path)
    <2>1. PICK l \in S, o \in S :
            /\ l # o
            /\ k = l \/ \E n : k = [l EXCEPT !.left = n]
            /\ m = o \/ \E n : m = [o EXCEPT !.left = n]
      BY <1>2
    <2>2. k.path = l.path /\ k.exclusive = l.exclusive /\ k.infinite = l.infinite
      <3>1. Shaped(l)
        BY DEF AreLocks
      <3> QED
        BY <2>1, <3>1, SameLock
    <2>3. m.path = o.path /\ m.exclusive = o.exclusive /\ m.infinite = o.infinite
      <3>1. Shaped(o)
        BY DEF AreLocks
      <3> QED
        BY <2>1, <3>1, SameLock
    <2>4. ~Covers(l, o.path) /\ ~Covers(o, l.path)
      BY <1>2, <2>1, <2>2, <2>3 DEF Exclusive
    <2>5. Covers(k, m.path) => Covers(l, o.path)
      BY <2>2, <2>3, Zenon DEF Covers
    <2>6. Covers(m, k.path) => Covers(o, l.path)
      BY <2>2, <2>3, Zenon DEF Covers
    <2> QED
      BY <2>4, <2>5, <2>6, Zenon
  <1> QED
    BY <1>3

\* Fewer locks are no worse.
LEMMA FewerExclude ==
    ASSUME NEW S, NEW T \in SUBSET S, AreLocks(S), Exclusive(S)
    PROVE  AreLocks(T) /\ Exclusive(T)
  BY DEF AreLocks, Exclusive

LEMMA InitExcludes == Init => IInv
  BY DEF Init, IInv, AreLocks, Exclusive

\* The one step that adds a lock looks at everything it would cover and at
\* everything that covers it.
LEMMA GrantExcludes ==
    ASSUME NEW c \in Client, IInv, Grant(c)
    PROVE  IInv'
  <1> DEFINE r == req[c]
  <1>1. CASE locks' = locks
    BY <1>1 DEF IInv
  <1>2. ASSUME NEW n \in 1..Ttl,
               Conflicts(r.path, r.exclusive, r.deep) = {},
               locks' = locks \cup
                  {[token |-> NextToken, path |-> r.path, user |-> c,
                    exclusive |-> r.exclusive, infinite |-> r.deep, left |-> n]}
        PROVE  IInv'
    <2> DEFINE new == [token |-> NextToken, path |-> r.path, user |-> c,
                       exclusive |-> r.exclusive, infinite |-> r.deep, left |-> n]
    <2>1. Shaped(new)
      BY DEF Shaped
    <2>2. /\ new.path = r.path /\ new.exclusive = r.exclusive
          /\ new.infinite = r.deep
      OBVIOUS
    <2>3. ASSUME NEW l \in locks, l.exclusive \/ new.exclusive
          PROVE  ~Covers(l, new.path) /\ ~Covers(new, l.path)
      <3>1. ~Overlaps(l, r.path, r.deep)
        BY <1>2, <2>2, <2>3 DEF Conflicts
      <3> QED
        BY <3>1, <2>2 DEF Overlaps, Covers
    <2>4. locks' = locks \cup {new}
      BY <1>2
    <2> HIDE DEF new
    <2>5. AreLocks(locks')
      BY <2>1, <2>4 DEF IInv, AreLocks
    <2>6. Exclusive(locks')
      BY <2>3, <2>4 DEF IInv, Exclusive
    <2> QED
      BY <2>5, <2>6 DEF IInv
  <1> QED
    BY <1>1, <1>2 DEF Grant

LEMMA NextExcludes ==
    ASSUME IInv, [Next]_vars
    PROVE  IInv'
  <1>1. ASSUME locks' \subseteq locks
        PROVE  IInv'
    BY <1>1, FewerExclude DEF IInv
  <1>2. ASSUME NEW c \in Client, Step(c)
        PROVE  IInv'
    <2>1. CASE Forget(c) \/ Replaced(c) \/ Moved(c)
      BY <1>1, <2>1 DEF Forget, Replaced, Moved, DropUnder
    <2>2. CASE Grant(c)
      BY <2>2, GrantExcludes
    <2>3. CASE Unlock(c)
      BY <1>1, <2>3 DEF Unlock
    <2>4. CASE Refresh(c)
      <3>1. PICK l \in locks, n \in 1..Ttl :
                locks' = (locks \ {l}) \cup {[l EXCEPT !.left = n]}
        BY <2>4 DEF Refresh
      <3>2. AreLocks(locks') /\ Exclusive(locks')
        BY <3>1, ImageExcludes DEF IInv
      <3> QED
        BY <3>2 DEF IInv
    <2>5. CASE \/ Start(c) \/ CheckSource(c) \/ Check(c) \/ BodyBreaks(c) \/ BodyArrives(c)
               \/ Store(c) \/ Fill(c) \/ Remove(c) \/ Make(c) \/ Replace(c)
               \/ Rename(c) \/ CopyBegins(c) \/ CopyEnds(c) \/ Unlink(c)
               \/ Create(c) \/ Clean(c)
      <3>1. locks' = locks
        BY <2>5 DEF Start, CheckSource, Check, BodyBreaks, BodyArrives, Store, Fill, Remove, Make,
                    Replace, Rename, CopyBegins, CopyEnds, Unlink, Create, Clean
      <3> QED
        BY <1>1, <3>1
    <2> QED
      BY <1>2, <2>1, <2>2, <2>3, <2>4, <2>5 DEF Step
  <1>3. CASE Tick
    <2>1. locks' = {[l EXCEPT !.left = @ - 1] : l \in {k \in locks : k.left > 1}}
      BY <1>3 DEF Tick
    <2>2. \A k \in locks' : \E l \in locks : \E n : k = [l EXCEPT !.left = n]
      BY <2>1
    <2>3. ASSUME NEW k \in locks', NEW m \in locks', k # m
          PROVE  \E l, o \in locks :
                    /\ l # o
                    /\ k = l \/ \E n : k = [l EXCEPT !.left = n]
                    /\ m = o \/ \E n : m = [o EXCEPT !.left = n]
      <3>1. PICK l \in locks : k = [l EXCEPT !.left = @ - 1]
        BY <2>1
      <3>2. PICK o \in locks : m = [o EXCEPT !.left = @ - 1]
        BY <2>1
      <3>3. l # o
        BY <2>3, <3>1, <3>2
      <3> QED
        BY <3>1, <3>2, <3>3
    <2> DEFINE S == locks
               T == locks'
    <2>5. AreLocks(S) /\ Exclusive(S)
      BY DEF IInv
    <2>6. \A k \in T : \E l \in S : k = l \/ \E n : k = [l EXCEPT !.left = n]
      BY <2>2
    <2>4. AreLocks(T) /\ Exclusive(T)
      <3> HIDE DEF S, T
      <3> QED
        BY <2>3, <2>5, <2>6, ImageExcludes, Zenon DEF S, T
    <2> QED
      BY <2>4 DEF IInv
  <1>4. CASE Restart
    BY <1>1, <1>4 DEF Restart
  <1>5. CASE UNCHANGED vars
    BY <1>1, <1>5 DEF vars
  <1> QED
    BY <1>2, <1>3, <1>4, <1>5 DEF Next

\* Locks exclude each other whatever the clients lock, refresh, give up, delete and
\* move, through expiry and restarts (locks.rs, lock).
THEOREM LocksExcluded == Spec => []LocksExclude
  <1>1. IInv => LocksExclude
    BY DEF IInv, Exclusive, LocksExclude
  <1> QED
    BY <1>1, InitExcludes, NextExcludes, PTL DEF Spec

-----------------------------------------------------------------------------
(* Uploads.                                                                *)

\* What is at a path.
Entry == [kind : {"absent", "dir", "file"}, by : Client \cup {Nobody},
          part : {"no", "put", "copy"}]

\* On the filesystem of .tmp nobody finds half an upload.
TreeWhole ==
    /\ tree \in [Path -> Entry]
    /\ \A p \in Path : Space(p) \notin Mounted => tree[p].part # "put"

\* A request is a record of these fields; of what they hold, only some matters here.
Formed(r) ==
    r = [f \in {"op", "pc", "path", "dest", "cond", "deep", "exclusive", "with", "kind",
                "sinceSrc", "since", "changed"} |-> r[f]]

Uploading == {"body", "store", "fill"}
Placing == {"replace", "replaced", "place", "copy"}

\* Which request a step belongs to.
InHand(op, pc) ==
    /\ pc \in Uploading => op = "PUT"
    /\ pc \in {"remove", "forget"} => op = "DELETE"
    /\ pc = "make" => op = "MKCOL"
    /\ pc \in Placing => op \in {"COPY", "MOVE"}
    /\ pc \in {"unlink", "moved"} => op = "MOVE"
    /\ pc \in {"create", "grant", "clean"} => op = "LOCK"

\* A request that is being served names paths.
Named(r) ==
    /\ r.op \in Op /\ r.path \in Path
    /\ r.op \in {"COPY", "MOVE"} => r.dest \in Path
    /\ InHand(r.op, r.pc)

\* .tmp holds what is being sent.
TmpInFlight ==
    /\ DOMAIN req = Client /\ req = [c \in Client |-> req[c]]
    /\ \A c \in Client : Formed(req[c]) /\ (req[c].pc # "idle" => Named(req[c]))
    /\ tmp = {c \in Client : req[c].pc \in Uploading}

\* UploadsWhole is inductive only with what its two parts are about in shape: a rename
\* must not carry half an upload out of its space, so its paths must be ones.
UInv == TreeWhole /\ TmpInFlight

LEMMA Entries ==
    /\ Absent \in Entry /\ Absent.part = "no"
    /\ Dir \in Entry /\ Dir.part = "no"
    /\ \A c \in Client \cup {Nobody}, part \in {"no", "put", "copy"} :
          File(c, part) \in Entry /\ File(c, part).part = part
    /\ \A e \in Entry : [e EXCEPT !.part = "copy"] \in Entry /\ [e EXCEPT !.part = "copy"].part = "copy"
  BY DEF Absent, Dir, File, Entry

LEMMA IdleFormed == Formed(Idle) /\ Idle.pc = "idle"
  BY DEF Formed, Idle

\* One client's request moves on and the others stay.
LEMMA OneServed ==
    ASSUME TmpInFlight, NEW c \in Client, NEW r, req' = [req EXCEPT ![c] = r], Formed(r),
           r.pc # "idle" => Named(r),
           tmp' = IF r.pc \in Uploading THEN tmp \cup {c} ELSE tmp \ {c}
    PROVE  TmpInFlight'
<1>1. \A d \in Client : req'[d] = IF d = c THEN r ELSE req[d]
  BY DEF TmpInFlight
<1>2. DOMAIN req' = Client /\ req' = [d \in Client |-> req'[d]]
  BY DEF TmpInFlight
<1>3. tmp' = {d \in Client : req'[d].pc \in Uploading}
  BY <1>1 DEF TmpInFlight
<1> QED
  BY <1>1, <1>2, <1>3 DEF TmpInFlight

LEMMA Answers ==
    ASSUME TmpInFlight, NEW c \in Client, Answer(c), tmp' = tmp \ {c}
    PROVE  TmpInFlight'
<1>1. Idle.pc \notin Uploading
  BY IdleFormed DEF Uploading
<1> QED
  BY <1>1, IdleFormed, OneServed DEF Answer

LEMMA MovesOn ==
    ASSUME TmpInFlight, NEW c \in Client, req[c].pc # "idle", NEW pc,
           Goto(c, pc) \/ Changing(c, pc), InHand(req[c].op, pc),
           tmp' = IF pc \in Uploading THEN tmp \cup {c} ELSE tmp \ {c}
    PROVE  TmpInFlight'
<1>1. Formed(req[c]) /\ Named(req[c])
  BY DEF TmpInFlight
<1>2. CASE Goto(c, pc)
  <2>1. PICK r : r = [req[c] EXCEPT !.pc = pc]
    OBVIOUS
  <2>2. Formed(r) /\ r.pc = pc /\ r.op = req[c].op /\ r.path = req[c].path /\ r.dest = req[c].dest
    BY <1>1, <2>1 DEF Formed
  <2>3. req' = [req EXCEPT ![c] = r]
    BY <1>2, <2>1 DEF Goto
  <2> QED
    BY <1>1, <2>2, <2>3, OneServed DEF Named
<1>3. CASE Changing(c, pc)
  <2>1. PICK r : r = [req[c] EXCEPT !.pc = pc, !.changed = TRUE]
    OBVIOUS
  <2>2. Formed(r) /\ r.pc = pc /\ r.op = req[c].op /\ r.path = req[c].path /\ r.dest = req[c].dest
    BY <1>1, <2>1 DEF Formed
  <2>3. req' = [req EXCEPT ![c] = r]
    <3>1. req' = [req EXCEPT ![c].pc = pc, ![c].changed = TRUE]
      BY <1>3 DEF Changing
    <3> QED
      BY <2>1, <3>1 DEF TmpInFlight
  <2> QED
    BY <1>1, <2>2, <2>3, OneServed DEF Named
<1> QED
  BY <1>2, <1>3

-----------------------------------------------------------------------------

LEMMA CutWhole ==
    ASSUME TreeWhole, NEW p, tree' = Cut(tree, p)
    PROVE  TreeWhole'
  BY Entries DEF TreeWhole, Cut

LEMMA PlacedWhole ==
    ASSUME TreeWhole, NEW p, NEW e \in Entry, tree' = [tree EXCEPT ![p] = e],
           p \in Path /\ Space(p) \notin Mounted => e.part # "put"
    PROVE  TreeWhole'
  BY DEF TreeWhole

\* A path that replaces a prefix of another begins like what it is replaced by.
LEMMA SameSpace ==
    ASSUME NEW src \in Path, NEW dst \in Path, NEW q \in Path, IsProperPrefix(dst, q)
    PROVE  /\ Space(q) = Space(dst)
           /\ src \o SubSeq(q, Len(dst) + 1, Len(q)) \in Path
              => Space(src \o SubSeq(q, Len(dst) + 1, Len(q))) = Space(src)
<1>1. src \in Seq(STRING) /\ dst \in Seq(STRING) /\ q \in Seq(STRING)
  BY WebDavAssumption
<1>2. Len(src) >= 1 /\ Len(dst) >= 1 /\ Len(dst) < Len(q)
  BY <1>1, WebDavAssumption DEF IsProperPrefix
<1>3. SubSeq(q, 1, Len(dst)) = dst
  BY DEF IsProperPrefix
<1>4. SubSeq(q, 1, Len(dst))[1] = q[1]
  BY <1>1, <1>2
<1>5. SubSeq(q, Len(dst) + 1, Len(q)) \in Seq(STRING)
  BY <1>1, <1>2
<1>6. \A x \in Seq(STRING) : (src \o x)[1] = src[1]
  BY <1>1, <1>2
<1> QED
  BY <1>3, <1>4, <1>5, <1>6 DEF Space

LEMMA GraftWhole ==
    ASSUME TreeWhole, NEW t \in [Path -> Entry], NEW src \in Path, NEW dst \in Path, NEW deep,
           \/ \A q \in Path : t[q].part # "put"
           \/ t = tree /\ Space(src) = Space(dst)
    PROVE  LET g == Graft(t, src, dst, deep)
           IN  /\ g \in [Path -> Entry]
               /\ \A p \in Path : Space(p) \notin Mounted => g[p].part # "put"
<1> DEFINE From(q) == src \o SubSeq(q, Len(dst) + 1, Len(q))
           g == Graft(t, src, dst, deep)
<1>1. \A q \in Path :
         g[q] = IF q = dst THEN t[src]
                ELSE IF deep /\ IsProperPrefix(dst, q) /\ From(q) \in Path /\ t[From(q)] # Absent
                THEN t[From(q)] ELSE tree[q]
  BY DEF Graft
<1>2. \A q \in Path : g[q] \in Entry
  BY <1>1 DEF TreeWhole
<1>3. g = [q \in Path |-> g[q]]
  BY DEF Graft
<1>4. ASSUME NEW q \in Path, Space(q) \notin Mounted
      PROVE  g[q].part # "put"
  <2>1. CASE \A p \in Path : t[p].part # "put"
    BY <1>1, <1>4, <2>1 DEF TreeWhole
  <2>2. CASE t = tree /\ Space(src) = Space(dst)
    <3>1. CASE q = dst
      BY <1>1, <1>4, <2>2, <3>1 DEF TreeWhole
    <3>2. CASE q # dst /\ IsProperPrefix(dst, q) /\ From(q) \in Path
      <4>1. Space(From(q)) = Space(q)
        BY <2>2, <3>2, SameSpace
      <4>2. t[From(q)].part # "put"
        BY <1>4, <2>2, <3>2, <4>1 DEF TreeWhole
      <4> QED
        BY <1>1, <1>4, <3>2, <4>2 DEF TreeWhole
    <3>3. CASE q # dst /\ ~(IsProperPrefix(dst, q) /\ From(q) \in Path)
      BY <1>1, <1>4, <3>3 DEF TreeWhole
    <3> QED
      BY <3>1, <3>2, <3>3
  <2> QED
    BY <2>1, <2>2
<1> HIDE DEF g
<1>5. g \in [Path -> Entry]
  BY <1>2, <1>3
<1> QED
  BY <1>4, <1>5 DEF g

-----------------------------------------------------------------------------

LEMMA Sends ==
    ASSUME TmpInFlight, NEW c \in Client
    PROVE  /\ req[c].pc \in Uploading => tmp \cup {c} = tmp
           /\ req[c].pc \notin Uploading => tmp \ {c} = tmp
  BY DEF TmpInFlight

\* What a client asks for names paths.
LEMMA Asks == \A r \in Requests : Formed(r) /\ Named(r) /\ r.sinceSrc = 0 /\ r.since = 0
<1>1. \A op, p : /\ Formed(Asked(op, p)) /\ Asked(op, p).op = op /\ Asked(op, p).path = p
                /\ Asked(op, p).pc = "idle" /\ Asked(op, p).sinceSrc = 0 /\ Asked(op, p).since = 0
  <2>1. Formed(Idle) /\ Idle.pc = "idle" /\ Idle.sinceSrc = 0 /\ Idle.since = 0
    BY DEF Idle, Formed
  <2> QED
    BY <2>1 DEF Formed, Asked
<1>5. SUFFICES ASSUME NEW r \in Requests
               PROVE  Formed(r) /\ Named(r) /\ r.sinceSrc = 0 /\ r.since = 0
  OBVIOUS
<1>6. Targets \subseteq Path /\ Dests \subseteq Path /\ LockRoots \subseteq Path
  BY WebDavAssumption
<1>7. CASE \E p \in Targets, k \in {"any", "absent", "present"} : r = [Asked("PUT", p) EXCEPT !.cond = k]
  <2>1. PICK p \in Targets, k \in {"any", "absent", "present"} : r = [Asked("PUT", p) EXCEPT !.cond = k]
    BY <1>7
  <2>2. PICK a : a = Asked("PUT", p)
    OBVIOUS
  <2>3. Formed(a) /\ a.op = "PUT" /\ a.path = p /\ a.pc = "idle" /\ a.sinceSrc = 0 /\ a.since = 0
    BY <1>1, <2>2
  <2>4. Formed(r) /\ r.op = a.op /\ r.pc = a.pc /\ r.sinceSrc = a.sinceSrc /\ r.since = a.since /\ r.path = a.path
    <3>1. r = [a EXCEPT !.cond = k]
      BY <2>1, <2>2
    <3> QED
      BY <2>3, <3>1 DEF Formed
  <2> QED
    BY <1>6, <2>3, <2>4 DEF Named, Op, InHand, Uploading, Placing
<1>8. CASE \E op \in {"DELETE", "MKCOL"}, p \in Targets : r = Asked(op, p)
  <2>1. PICK op \in {"DELETE", "MKCOL"}, p \in Targets : r = Asked(op, p)
    BY <1>8
  <2>2. Formed(r) /\ r.op = op /\ r.path = p /\ r.pc = "idle" /\ r.sinceSrc = 0 /\ r.since = 0
    BY <1>1, <2>1
  <2> QED
    BY <1>6, <2>2 DEF Named, Op, InHand, Uploading, Placing
<1>9. CASE \E op \in {"COPY", "MOVE"}, p \in Targets, d \in Dests : \E k, b :
             r = Transfer(op, p, d, k, b)
  <2>1. PICK op \in {"COPY", "MOVE"}, p \in Targets, d \in Dests :
               \E k, b : r = Transfer(op, p, d, k, b)
    BY <1>9
  <2>9. PICK k, b : r = Transfer(op, p, d, k, b)
    BY <2>1
  <2>2. PICK a : a = Asked(op, p)
    OBVIOUS
  <2>3. Formed(a) /\ a.op = op /\ a.path = p /\ a.pc = "idle" /\ a.sinceSrc = 0 /\ a.since = 0
    BY <1>1, <2>2
  <2>4. Formed(r) /\ r.op = a.op /\ r.pc = a.pc /\ r.sinceSrc = a.sinceSrc /\ r.since = a.since /\ r.path = a.path /\ r.dest = d
    <3>1. r = [a EXCEPT !.dest = d, !.cond = k, !.deep = b]
      BY <2>9, <2>2 DEF Transfer
    <3> QED
      BY <2>3, <3>1 DEF Formed
  <2> QED
    BY <1>6, <2>3, <2>4 DEF Named, Op, InHand, Uploading, Placing
<1>10. CASE \E p \in LockRoots : \E b, x : r = LockRequest(p, b, x)
  <2>1. PICK p \in LockRoots : \E b, x : r = LockRequest(p, b, x)
    BY <1>10
  <2>9. PICK b, x : r = LockRequest(p, b, x)
    BY <2>1
  <2>2. PICK a : a = Asked("LOCK", p)
    OBVIOUS
  <2>3. Formed(a) /\ a.op = "LOCK" /\ a.path = p /\ a.pc = "idle" /\ a.sinceSrc = 0 /\ a.since = 0
    BY <1>1, <2>2
  <2>4. Formed(r) /\ r.op = a.op /\ r.pc = a.pc /\ r.sinceSrc = a.sinceSrc /\ r.since = a.since /\ r.path = a.path
    <3>1. r = [a EXCEPT !.deep = b, !.exclusive = x]
      BY <2>9, <2>2 DEF LockRequest
    <3> QED
      BY <2>3, <3>1 DEF Formed
  <2> QED
    BY <1>6, <2>3, <2>4 DEF Named, Op, InHand, Uploading, Placing
<1>11. CASE r \in Puts
  BY <1>7, <1>11 DEF Puts
<1>12. CASE r \in Plain
  BY <1>8, <1>12 DEF Plain
<1>13. CASE r \in Transfers
  <2>1. \E op \in {"COPY", "MOVE"}, p \in Targets, d \in Dests : \E k, b : r = Transfer(op, p, d, k, b)
    BY <1>13 DEF Transfers
  <2> QED
    BY <1>9, <2>1
<1>14. CASE r \in LockRequests
  <2>1. \E p \in LockRoots : \E b, x : r = LockRequest(p, b, x)
    BY <1>14 DEF LockRequests
  <2> QED
    BY <1>10, <2>1
<1> QED
  BY <1>5, <1>11, <1>12, <1>13, <1>14 DEF Requests

\* A request begins.
LEMMA Begins ==
    ASSUME TmpInFlight, NEW c \in Client, Start(c)
    PROVE  TmpInFlight'
<1>1. PICK r \in Requests, w \in {0, issued} :
        req' = [req EXCEPT ![c] =
                [r EXCEPT !.pc = CASE r.op = "LOCK" /\ tree[Target(r)].kind # "absent" -> "grant"
                                   [] r.op = "MOVE" -> "source"
                                   [] OTHER -> "check",
                          !.deep = IF r.op = "LOCK" THEN @ /\ tree[Target(r)].kind = "dir"
                                   ELSE @ \/ tree[r.path].kind # "dir",
                          !.cond = "any",
                          !.kind = tree[Target(r)].kind,
                          !.with = w]]
  BY ZenonT(60) DEF Start
<1>2. PICK pc, deep, kind :
        /\ pc = CASE r.op = "LOCK" /\ tree[Target(r)].kind # "absent" -> "grant"
                    [] r.op = "MOVE" -> "source"
                    [] OTHER -> "check"
        /\ deep = IF r.op = "LOCK" THEN r.deep /\ tree[Target(r)].kind = "dir"
                  ELSE r.deep \/ tree[r.path].kind # "dir"
        /\ kind = tree[Target(r)].kind
  OBVIOUS
<1>3. Formed(r) /\ Named(r)
  BY Asks
<1>4. PICK q : q = [r EXCEPT !.pc = pc, !.deep = deep, !.cond = "any", !.kind = kind, !.with = w]
  OBVIOUS
<1>5. Formed(q) /\ q.pc = pc /\ q.op = r.op /\ q.path = r.path /\ q.dest = r.dest
  BY <1>3, <1>4 DEF Formed
<1>6. req' = [req EXCEPT ![c] = q]
  BY <1>1, <1>2, <1>4
<1>7. tmp' = tmp /\ req[c].pc = "idle" /\ q.pc \notin Uploading /\ req[c].pc \notin Uploading
  BY <1>2, <1>5 DEF Start, Uploading
<1>9. InHand(q.op, q.pc)
  BY <1>2, <1>5 DEF InHand, Uploading, Placing
<1>8. tmp' = tmp \ {c}
  BY <1>7, Sends
<1> QED
  BY <1>3, <1>5, <1>6, <1>7, <1>8, <1>9, OneServed DEF Named

-----------------------------------------------------------------------------
\* A request that is being served is of the kind its step belongs to.
LEMMA Served ==
    ASSUME UInv, NEW c \in Client, req[c].pc # "idle"
    PROVE  Formed(req[c]) /\ Named(req[c])
  BY DEF UInv, TmpInFlight

\* The handlers, one lemma each where there is something to say.

LEMMA Checks ==
    ASSUME UInv, NEW c \in Client, Check(c)
    PROVE  UInv'
<1>1. tree' = tree /\ req[c].pc = "check"
  BY DEF Check
<1>2. req[c].pc \notin Uploading /\ Formed(req[c]) /\ Named(req[c])
  BY <1>1 DEF UInv, TmpInFlight, Uploading
<1>3. tmp \ {c} = tmp
  BY <1>2, Sends DEF UInv
<1>4. TmpInFlight'
  <2>1. CASE Answer(c) /\ tmp' = tmp
    BY <1>3, <2>1, Answers DEF UInv
  <2>2. CASE /\ req' = [req EXCEPT ![c].pc = FirstStep(req[c]), ![c].since = issued]
             /\ tmp' = IF req[c].op = "PUT" THEN tmp \cup {c} ELSE tmp
    <3>1. PICK pc, since : pc = FirstStep(req[c]) /\ since = issued
      OBVIOUS
    <3>2. PICK r : r = [req[c] EXCEPT !.pc = pc, !.since = since]
      OBVIOUS
    <3>3. Formed(r) /\ r.pc = pc /\ r.op = req[c].op /\ r.path = req[c].path /\ r.dest = req[c].dest
      BY <1>2, <3>2 DEF Formed
    <3>4. req' = [req EXCEPT ![c] = r]
      BY <2>2, <3>1, <3>2 DEF UInv, TmpInFlight
    <3>5. /\ pc \in Uploading <=> req[c].op = "PUT"
          /\ InHand(req[c].op, pc)
      BY <1>2, <3>1 DEF FirstStep, Uploading, Placing, InHand, Named, Op
    <3>6. tmp' = IF r.pc \in Uploading THEN tmp \cup {c} ELSE tmp \ {c}
      BY <1>3, <2>2, <3>3, <3>5
    <3> QED
      BY <1>2, <3>3, <3>4, <3>5, <3>6, OneServed DEF Named, UInv
  <2> QED
    BY <2>1, <2>2 DEF Check
<1> QED
  BY <1>1, <1>4 DEF UInv, TreeWhole

LEMMA SourceChecks ==
    ASSUME UInv, NEW c \in Client, CheckSource(c)
    PROVE  UInv'
<1>1. tree' = tree /\ tmp' = tmp /\ req[c].pc = "source"
  BY DEF CheckSource
<1>2. req[c].pc \notin Uploading /\ Formed(req[c]) /\ Named(req[c])
  BY <1>1 DEF UInv, TmpInFlight, Uploading
<1>3. tmp \ {c} = tmp
  BY <1>2, Sends DEF UInv
<1>4. TmpInFlight'
  <2>1. CASE Answer(c)
    BY <1>1, <1>3, <2>1, Answers DEF UInv
  <2>2. CASE req' = [req EXCEPT ![c].pc = "check", ![c].sinceSrc = issued]
    <3>1. PICK r : r = [req[c] EXCEPT !.pc = "check", !.sinceSrc = issued]
      OBVIOUS
    <3>2. Formed(r) /\ r.pc = "check" /\ r.op = req[c].op /\ r.path = req[c].path /\ r.dest = req[c].dest
      BY <1>2, <3>1 DEF Formed
    <3>3. req' = [req EXCEPT ![c] = r]
      BY <2>2, <3>1 DEF UInv, TmpInFlight
    <3>4. "check" \notin Uploading /\ InHand(req[c].op, "check")
      BY DEF Uploading, Placing, InHand
    <3> QED
      BY <1>1, <1>2, <1>3, <3>2, <3>3, <3>4, OneServed DEF Named, UInv
  <2> QED
    BY <2>1, <2>2 DEF CheckSource
<1> QED
  BY <1>1, <1>4 DEF UInv, TreeWhole

\* The three ends of an upload.
LEMMA Stores ==
    ASSUME UInv, NEW c \in Client, Store(c)
    PROVE  UInv'
<1> DEFINE p == req[c].path
<1>1. req[c].pc = "store" /\ req[c].pc # "idle" /\ req[c].pc \in Uploading
  BY DEF Store, Uploading
<1>2. tmp \cup {c} = tmp
  BY <1>1, Sends DEF UInv
<1>3. CASE CanFill(p) /\ Space(p) \in Mounted /\ StoreInto(c, p)
  <2>1. tree' = [tree EXCEPT ![p] = File(c, "put")] /\ Changing(c, "fill") /\ tmp' = tmp
    BY <1>3 DEF StoreInto
  <2>2. TreeWhole'
    BY <1>3, <2>1, Entries, PlacedWhole DEF UInv
  <2>3. TmpInFlight'
    BY <1>1, <1>2, <2>1, MovesOn, Served DEF UInv, Named, InHand, Uploading, Placing
  <2> QED
    BY <2>2, <2>3 DEF UInv
<1>4. CASE CanFill(p) /\ Space(p) \notin Mounted /\ StoreInto(c, p)
  <2>1. tree' = [tree EXCEPT ![p] = File(c, "no")] /\ Answer(c) /\ tmp' = tmp \ {c}
    BY <1>4 DEF StoreInto
  <2>2. TreeWhole'
    BY <2>1, Entries, PlacedWhole DEF UInv
  <2>3. TmpInFlight'
    BY <2>1, Answers DEF UInv
  <2> QED
    BY <2>2, <2>3 DEF UInv
<1>5. CASE tree' = tree /\ tmp' = tmp \ {c} /\ Answer(c)
  <2>1. TmpInFlight'
    BY <1>5, Answers DEF UInv
  <2> QED
    BY <1>5, <2>1 DEF UInv, TreeWhole
<1> QED
  BY <1>3, <1>4, <1>5 DEF Store

LEMMA Fills ==
    ASSUME UInv, NEW c \in Client, Fill(c)
    PROVE  UInv'
<1>1. TmpInFlight'
  BY Answers DEF UInv, Fill
<1>2. TreeWhole'
  <2>1. CASE tree' = tree
    BY <2>1 DEF UInv, TreeWhole
  <2>2. CASE tree' = [tree EXCEPT ![req[c].path] = File(c, "no")]
    BY <2>2, Entries, PlacedWhole DEF UInv
  <2> QED
    BY <2>1, <2>2 DEF Fill
<1> QED
  BY <1>1, <1>2 DEF UInv

\* A request that is not an upload and ends, or goes on to a step that is none.
LEMMA Elsewhere ==
    ASSUME TmpInFlight, NEW c \in Client, req[c].pc \notin Uploading \cup {"idle"}, tmp' = tmp,
           \/ Answer(c)
           \/ \E pc : /\ pc \notin Uploading /\ (Goto(c, pc) \/ Changing(c, pc))
                      /\ InHand(req[c].op, pc)
    PROVE  TmpInFlight'
<1>1. tmp' = tmp \ {c}
  BY Sends
<1>2. CASE Answer(c)
  BY <1>1, <1>2, Answers
<1>3. CASE \E pc : /\ pc \notin Uploading /\ (Goto(c, pc) \/ Changing(c, pc))
                   /\ InHand(req[c].op, pc)
  <2>1. PICK pc : /\ pc \notin Uploading /\ (Goto(c, pc) \/ Changing(c, pc))
                  /\ InHand(req[c].op, pc)
    BY <1>3
  <2> QED
    BY <1>1, <2>1, MovesOn
<1> QED
  BY <1>2, <1>3

LEMMA Removes ==
    ASSUME UInv, NEW c \in Client, NEW p, NEW next, next \notin Uploading,
           InHand(req[c].op, next),
           req[c].pc \notin Uploading \cup {"idle"}, tmp' = tmp, RemoveAny(c, p, next)
    PROVE  UInv'
<1>1. TreeWhole'
  <2>1. CASE tree' = Cut(tree, p)
    BY <2>1, CutWhole DEF UInv
  <2>2. CASE \E gone \in {q \in Below(p) : Exists(q)} : tree' = Cut(tree, gone)
    BY <2>2, CutWhole DEF UInv
  <2>3. CASE tree' = tree
    BY <2>3 DEF UInv, TreeWhole
  <2> QED
    BY <2>1, <2>2, <2>3 DEF RemoveAny
<1>2. TmpInFlight'
  BY Elsewhere, Served DEF UInv, RemoveAny, Named, InHand, Uploading, Placing
<1> QED
  BY <1>1, <1>2 DEF UInv

\* A rename stays within a space, so it carries no half upload out of one.
LEMMA Renames ==
    ASSUME UInv, NEW c \in Client, Rename(c)
    PROVE  UInv'
<1> DEFINE r == req[c]
           g == Graft(tree, r.path, r.dest, TRUE)
<1>1. r.pc = "place" /\ r.op = "MOVE" /\ Space(r.path) = Space(r.dest) /\ tmp' = tmp
  BY DEF Rename
<1>2. r.path \in Path /\ r.dest \in Path
  BY <1>1 DEF UInv, TmpInFlight, Named
<1>3. TmpInFlight'
  <2>1. Answer(c) \/ Changing(c, "moved")
    BY DEF Rename
  <2>2. InHand(req[c].op, "moved") /\ "moved" \notin Uploading
    BY <1>1 DEF InHand, Uploading, Placing
  <2>3. req[c].pc \notin Uploading \cup {"idle"}
    BY <1>1 DEF Uploading
  <2> QED
    BY <1>1, <2>1, <2>2, <2>3, Elsewhere DEF UInv
<1>4. TreeWhole'
  <2>1. CASE tree' = tree
    BY <2>1 DEF UInv, TreeWhole
  <2>2. CASE tree' = Cut(g, r.path)
    <3>1. /\ g \in [Path -> Entry]
          /\ \A p \in Path : Space(p) \notin Mounted => g[p].part # "put"
      BY <1>1, <1>2, GraftWhole DEF UInv, TreeWhole
    <3> HIDE DEF g
    <3> QED
      BY <2>2, <3>1, Entries DEF TreeWhole, Cut
  <2> QED
    BY <2>1, <2>2 DEF Rename
<1> QED
  BY <1>3, <1>4 DEF UInv

LEMMA CopiesBegin ==
    ASSUME UInv, NEW c \in Client, CopyBegins(c)
    PROVE  UInv'
<1>1. req[c].pc = "place" /\ tmp' = tmp
  BY DEF CopyBegins
<1>3. req[c].path \in Path /\ req[c].op \in {"COPY", "MOVE"}
  BY <1>1 DEF UInv, TmpInFlight, Named, Placing, InHand
<1>2. TmpInFlight'
  BY <1>1, <1>3, Elsewhere, Served DEF UInv, CopyBegins, Named, InHand, Uploading, Placing
<1>4. tree[req[c].path].by \in Client \cup {Nobody}
  BY <1>3 DEF UInv, TreeWhole, Entry
<1>5. TreeWhole'
  <2>1. CASE tree' = tree
    BY <2>1 DEF UInv, TreeWhole
  <2>2. CASE tree' = [tree EXCEPT ![req[c].dest] = Dir]
    BY <2>2, Entries, PlacedWhole DEF UInv
  <2>3. CASE tree' = [tree EXCEPT ![req[c].dest] = File(tree[req[c].path].by, "copy")]
    BY <1>4, <2>3, Entries, PlacedWhole DEF UInv
  <2> QED
    BY <2>1, <2>2, <2>3 DEF CopyBegins
<1> QED
  BY <1>2, <1>5 DEF UInv

\* Across spaces a half upload arrives as a half copy.
LEMMA CopiesEnd ==
    ASSUME UInv, NEW c \in Client, CopyEnds(c)
    PROVE  UInv'
<1> DEFINE r == req[c]
           deep == r.op = "MOVE" \/ r.deep
<1>1. r.pc = "copy" /\ tmp' = tmp
  BY DEF CopyEnds
<1>2. TmpInFlight'
  BY <1>1, Elsewhere, Served DEF UInv, CopyEnds, Named, InHand, Uploading, Placing
<1>3. TreeWhole'
  <2>1. CASE tree' = tree
    BY <2>1 DEF UInv, TreeWhole
  <2>2. CASE tree' = Graft(Copied, r.path, r.dest, deep)
    <3>1. Copied \in [Path -> Entry] /\ \A q \in Path : Copied[q].part # "put"
      BY Entries DEF UInv, TreeWhole, Copied
    <3>2. r.path \in Path /\ r.dest \in Path
      BY <1>1 DEF UInv, TmpInFlight, Named, Placing, InHand
    <3> QED
      BY <2>2, <3>1, <3>2, GraftWhole DEF UInv, TreeWhole
  <2> QED
    BY <2>1, <2>2 DEF CopyEnds
<1> QED
  BY <1>2, <1>3 DEF UInv

LEMMA Begun ==
    ASSUME UInv, NEW c \in Client, Start(c)
    PROVE  UInv'
  BY Begins DEF UInv, TreeWhole, Start

\* One step of one client.
LEMMA StepKeepsUploads ==
    ASSUME UInv, NEW c \in Client, Step(c)
    PROVE  UInv'
<1>1. CASE Start(c)
  BY <1>1, Begun
<1>2. CASE Check(c)
  BY <1>2, Checks
<1>21. CASE CheckSource(c)
  BY <1>21, SourceChecks
<1>3. CASE BodyBreaks(c)
  <2>1. TmpInFlight'
    BY <1>3, Answers DEF UInv, BodyBreaks
  <2> QED
    BY <1>3, <2>1 DEF UInv, TreeWhole, BodyBreaks
<1>4. CASE BodyArrives(c)
  <2>1. req[c].pc = "body" /\ tmp' = tmp /\ Goto(c, "store") /\ tree' = tree
    BY <1>4 DEF BodyArrives
  <2>2. tmp' = tmp \cup {c}
    BY <2>1, Sends DEF UInv, Uploading
  <2>3. TmpInFlight'
    BY <2>1, <2>2, MovesOn, Served DEF UInv, Named, InHand, Uploading, Placing
  <2> QED
    BY <2>1, <2>3 DEF UInv, TreeWhole
<1>5. CASE Store(c)
  BY <1>5, Stores
<1>6. CASE Fill(c)
  BY <1>6, Fills
<1>7. CASE Remove(c)
  BY <1>7, Removes, Served DEF Remove, Named, InHand, Uploading, Placing
<1>8. CASE Forget(c)
  <2>1. TmpInFlight'
    BY <1>8, Elsewhere, Served DEF UInv, Forget, Named, InHand, Uploading, Placing
  <2> QED
    BY <1>8, <2>1 DEF UInv, TreeWhole, Forget
<1>9. CASE Make(c)
  <2>1. TmpInFlight'
    BY <1>9, Elsewhere, Served DEF UInv, Make, Named, InHand, Uploading, Placing
  <2>2. tree' = tree => TreeWhole'
    BY DEF UInv, TreeWhole
  <2> QED
    BY <1>9, <2>1, <2>2, Entries, PlacedWhole, ZenonT(60) DEF UInv, Make
<1>10. CASE Replace(c)
  <2>1. req[c].op \in {"COPY", "MOVE"}
    BY <1>10 DEF UInv, TmpInFlight, Named, Replace, Placing, InHand
  <2> QED
    BY <1>10, <2>1, Removes, Served DEF Replace, Named, InHand, Uploading, Placing
<1>11. CASE Replaced(c)
  <2>1. req[c].op \in {"COPY", "MOVE"}
    BY <1>11 DEF UInv, TmpInFlight, Named, Replaced, Placing, InHand
  <2>2. TmpInFlight'
    BY <1>11, <2>1, Elsewhere, Served DEF UInv, Replaced, Named, InHand, Uploading, Placing
  <2> QED
    BY <1>11, <2>2 DEF UInv, TreeWhole, Replaced
<1>12. CASE Rename(c)
  BY <1>12, Renames
<1>13. CASE CopyBegins(c)
  BY <1>13, CopiesBegin
<1>14. CASE CopyEnds(c)
  BY <1>14, CopiesEnd
<1>15. CASE Unlink(c)
  <2>1. TmpInFlight'
    BY <1>15, Elsewhere, Served DEF UInv, Unlink, Named, InHand, Uploading, Placing
  <2> QED
    BY <1>15, <2>1, CutWhole DEF UInv, Unlink
<1>16. CASE Moved(c)
  <2>1. TmpInFlight'
    BY <1>16, Elsewhere, Served DEF UInv, Moved, Named, InHand, Uploading, Placing
  <2> QED
    BY <1>16, <2>1 DEF UInv, TreeWhole, Moved
<1>17. CASE Create(c)
  <2>1. TmpInFlight'
    BY <1>17, Elsewhere, Served DEF UInv, Create, Named, InHand, Uploading, Placing
  <2>2. tree' = tree => TreeWhole'
    BY DEF UInv, TreeWhole
  <2>3. ASSUME tree' = [tree EXCEPT ![req[c].path] = File(Nobody, "no")]
        PROVE  TreeWhole'
    <3> DEFINE e == File(Nobody, "no")
               p == req[c].path
    <3>1. e \in Entry /\ e.part # "put"
      BY Entries
    <3> HIDE DEF e, p
    <3> QED BY <2>3, <3>1, PlacedWhole DEF UInv, e, p
  <2>4. TreeWhole'
    BY <1>17, <2>2, <2>3 DEF Create
  <2> QED
    BY <2>1, <2>4 DEF UInv
<1>18. CASE Grant(c)
  <2>1. TmpInFlight'
    BY <1>18, Elsewhere, Served DEF UInv, Grant, Named, InHand, Uploading, Placing
  <2> QED
    BY <1>18, <2>1 DEF UInv, TreeWhole, Grant
<1>19. CASE Clean(c)
  <2>1. TmpInFlight'
    BY <1>19, Elsewhere, Served DEF UInv, Clean, Named, InHand, Uploading, Placing
  <2>2. tree' = tree => TreeWhole'
    BY DEF UInv, TreeWhole
  <2> QED
    BY <1>19, <2>1, <2>2, Entries, PlacedWhole DEF UInv, Clean
<1>20. CASE Refresh(c) \/ Unlock(c)
  BY <1>20 DEF UInv, TreeWhole, TmpInFlight, Refresh, Unlock
<1> QED
  BY <1>1, <1>2, <1>3, <1>4, <1>5, <1>6, <1>7, <1>8, <1>9, <1>10, <1>11, <1>12, <1>13, <1>14,
     <1>15, <1>16, <1>17, <1>18, <1>19, <1>20, <1>21 DEF Step

LEMMA UploadsInit == Init => UInv
<1> SUFFICES ASSUME Init
             PROVE  UInv
  OBVIOUS
<1>1. tree \in [Path -> {Absent, Dir, File(Nobody, "no")}]
  BY WebDavAssumption DEF Init
<1>2. TreeWhole
  BY <1>1, Entries DEF TreeWhole
<1>3. \A c \in Client : req[c] = Idle
  BY DEF Init
<1>4. TmpInFlight
  BY <1>3, IdleFormed DEF Init, TmpInFlight, Uploading
<1> QED
  BY <1>2, <1>4 DEF UInv

LEMMA UploadsNext == UInv /\ [Next]_vars => UInv'
<1> SUFFICES ASSUME UInv, [Next]_vars
             PROVE  UInv'
  OBVIOUS
<1>1. CASE \E c \in Client : Step(c)
  BY <1>1, StepKeepsUploads
<1>2. CASE Tick
  BY <1>2 DEF Tick, UInv, TreeWhole, TmpInFlight
<1>3. CASE Restart
  <2>1. \A c \in Client : req'[c] = Idle
    BY <1>3 DEF Restart
  <2>2. TmpInFlight'
    BY <1>3, <2>1, IdleFormed DEF Restart, TmpInFlight, Uploading
  <2> QED
    BY <1>3, <2>2 DEF Restart, UInv, TreeWhole
<1>4. CASE UNCHANGED vars
  BY <1>4 DEF vars, UInv, TreeWhole, TmpInFlight
<1> QED
  BY <1>1, <1>2, <1>3, <1>4 DEF Next

LEMMA UploadsImplied == UInv => UploadsWhole
  BY DEF UInv, TreeWhole, TmpInFlight, UploadsWhole, Uploading

\* Whatever is uploaded, moved, copied or removed at once, and however many times jadav
\* is started again: outside mounted spaces no path shows half an upload, and .tmp holds
\* the uploads in flight and nothing else (mod.rs, put, move_path and open).
THEOREM UploadsAreWhole == Spec => []UploadsWhole
  BY UploadsInit, UploadsNext, UploadsImplied, PTL DEF Spec

-----------------------------------------------------------------------------
(* A lock holds off who had not asked before it was granted.               *)

\* Lock l is in the way of client c, who makes request r, at p.
Stops(l, c, r, p, recursive, membership) ==
    /\ \/ Covers(l, p)
       \/ recursive /\ IsProperPrefix(p, l.path)
       \/ membership /\ l.path = Parent(p)
    /\ ~(l.user = c /\ l.token <= r.with)

RefusesSource(l, c, r) == Stops(l, c, r, r.path, TRUE, TRUE)

Refuses(l, c, r) ==
    Stops(l, c, r, Target(r), r.op \in {"DELETE", "COPY", "MOVE"},
          r.op \in {"DELETE", "COPY", "MOVE"} \/ (r.op = "PUT" => r.kind = "absent"))

\* The request has asked the locks, or need not.
Past(r) == r.pc \notin {"idle", "source", "check"}

\* What the answer of the lock manager depends on.
Kept(q, r) ==
    /\ q.op = r.op /\ q.path = r.path /\ q.dest = r.dest
    /\ q.with = r.with /\ q.kind = r.kind

Alike(k, l) == k.token = l.token /\ k.path = l.path /\ k.user = l.user /\ k.infinite = l.infinite

Numbered ==
    /\ issued \in Nat /\ faults \in Nat
    /\ \A l \in locks : l.token \in Nat \ {0} /\ l.path \in Path
    /\ \A c \in Client : req[c].sinceSrc \in 0..issued /\ req[c].since \in 0..issued

\* No lock that was there when the request asked is in its way; one that has not asked
\* yet has 0 there, which is no token.
HeldOff ==
    \A c \in Client, l \in locks :
        /\ l.token <= req[c].sinceSrc => ~RefusesSource(l, c, req[c])
        /\ l.token <= req[c].since => ~Refuses(l, c, req[c])

\* LocksHold speaks of the locks at the time a request writes; it is inductive with what
\* the request was told when it asked.
HInv == UInv /\ IInv /\ Numbered /\ HeldOff

LEMMA WhoIsInTheWay ==
    ASSUME NEW c, NEW r, NEW l \in locks
    PROVE  /\ l \in SourceInTheWay(c, r) <=> RefusesSource(l, c, r)
           /\ r.op \in Op => (l \in InTheWay(c, r) <=> Refuses(l, c, r))
  BY DEF SourceInTheWay, InTheWay, Blocking, RefusesSource, Refuses, Stops, Op

LEMMA RefusesAlike ==
    ASSUME NEW k, NEW l, Alike(k, l), NEW c, NEW q, NEW r, Kept(q, r)
    PROVE  /\ RefusesSource(k, c, q) <=> RefusesSource(l, c, r)
           /\ Refuses(k, c, q) <=> Refuses(l, c, r)
<1>1. Target(q) = Target(r)
  BY DEF Kept, Target
<1>2. ASSUME NEW p, NEW rec, NEW mem
      PROVE  Stops(k, c, q, p, rec, mem) <=> Stops(l, c, r, p, rec, mem)
  <2>1. Covers(k, p) <=> Covers(l, p)
    BY DEF Alike, Covers
  <2> QED
    BY <2>1 DEF Alike, Kept, Stops
<1> QED
  BY <1>1, <1>2, Zenon DEF RefusesSource, Refuses, Kept

-----------------------------------------------------------------------------
\* What becomes of the requests in a step: nothing or the next step of the same one, an
\* end or a new one, or the answer of the lock manager for either end.
SameAsked(c) ==
    Kept(req'[c], req[c]) /\ req'[c].sinceSrc = req[c].sinceSrc /\ req'[c].since = req[c].since
NotAsked(c) == req'[c].sinceSrc = 0 /\ req'[c].since = 0
SourceAsked(c) ==
    /\ Kept(req'[c], req[c]) /\ req'[c].sinceSrc = issued /\ req'[c].since = req[c].since
    /\ SourceInTheWay(c, req[c]) = {}
TargetAsked(c) ==
    /\ Kept(req'[c], req[c]) /\ req'[c].sinceSrc = req[c].sinceSrc /\ req'[c].since = issued
    /\ InTheWay(c, req[c]) = {} /\ req[c].op \in Op
Turn(c) == SameAsked(c) \/ NotAsked(c) \/ SourceAsked(c) \/ TargetAsked(c)

LEMMA Stands == \A c : req'[c] = req[c] => Turn(c)
  BY DEF Turn, SameAsked, Kept

\* Where the locks come from.
Descend ==
    /\ issued' \in {issued, issued + 1}
    /\ \A k \in locks' : \/ k.token = issued + 1 /\ k.path \in Path /\ issued' = issued + 1
                         \/ \E l \in locks : Alike(k, l)

LEMMA HeldStays ==
    ASSUME Numbered, HeldOff, Descend, \A c \in Client : Turn(c), faults' \in Nat
    PROVE  Numbered' /\ HeldOff'
<1>1. issued' \in Nat
  BY DEF Numbered, Descend
<1>2. ASSUME NEW k \in locks'
      PROVE  k.token \in Nat \ {0} /\ k.path \in Path
  BY <1>2 DEF Numbered, Descend, Alike
<1>3. ASSUME NEW c \in Client
      PROVE  /\ req'[c].sinceSrc \in 0..issued /\ req'[c].since \in 0..issued
             /\ 0..issued \subseteq 0..issued' /\ issued \in Nat
  <2>1. req'[c].sinceSrc \in {req[c].sinceSrc, 0, issued} /\ req'[c].since \in {req[c].since, 0, issued}
    BY DEF Turn, SameAsked, NotAsked, SourceAsked, TargetAsked
  <2> QED
    BY <2>1 DEF Numbered, Descend
<1>4. ASSUME NEW c \in Client, NEW k \in locks',
             k.token <= req'[c].sinceSrc \/ k.token <= req'[c].since
      PROVE  /\ k.token <= req'[c].sinceSrc => ~RefusesSource(k, c, req'[c])
             /\ k.token <= req'[c].since => ~Refuses(k, c, req'[c])
  <2>2. PICK l \in locks : Alike(k, l)
    <3>1. k.token # issued + 1
      BY <1>2, <1>3, <1>4
    <3> QED
      BY <3>1 DEF Descend
  <2>3. l.token = k.token /\ l.token \in Nat \ {0}
    BY <2>2 DEF Alike, Numbered
  <2>4. CASE NotAsked(c)
    BY <1>4, <2>3, <2>4 DEF NotAsked
  <2>5. CASE Kept(req'[c], req[c])
    <3>1. /\ RefusesSource(k, c, req'[c]) <=> RefusesSource(l, c, req[c])
          /\ Refuses(k, c, req'[c]) <=> Refuses(l, c, req[c])
      BY <2>2, <2>5, RefusesAlike
    <3>2. /\ l.token <= req[c].sinceSrc => ~RefusesSource(l, c, req[c])
          /\ l.token <= req[c].since => ~Refuses(l, c, req[c])
      BY DEF HeldOff
    <3>3. CASE SameAsked(c)
      BY <2>3, <3>1, <3>2, <3>3 DEF SameAsked
    <3>4. CASE SourceAsked(c)
      <4>1. ~RefusesSource(l, c, req[c])
        BY <3>4, WhoIsInTheWay DEF SourceAsked
      <4> QED
        BY <2>3, <3>1, <3>2, <3>4, <4>1 DEF SourceAsked
    <3>5. CASE TargetAsked(c)
      <4>1. ~Refuses(l, c, req[c])
        BY <3>5, WhoIsInTheWay DEF TargetAsked
      <4> QED
        BY <2>3, <3>1, <3>2, <3>5, <4>1 DEF TargetAsked
    <3> QED
      BY <2>4, <3>3, <3>4, <3>5 DEF Turn
  <2> QED
    BY <2>4, <2>5 DEF Turn, SameAsked, SourceAsked, TargetAsked
<1>5. Numbered'
  BY <1>1, <1>2, <1>3 DEF Numbered
<1>6. HeldOff'
  BY <1>4 DEF HeldOff
<1> QED
  BY <1>5, <1>6

-----------------------------------------------------------------------------
\* Paths

LEMMA Comparable ==
    ASSUME NEW q \in Seq(STRING), NEW n \in 1..Len(q), NEW m \in 1..n
    PROVE  /\ SubSeq(SubSeq(q, 1, n), 1, m) = SubSeq(q, 1, m)
           /\ Len(SubSeq(q, 1, n)) = n /\ SubSeq(q, 1, n) \in Seq(STRING)
<1> DEFINE s == SubSeq(q, 1, n)
<1>1. s \in Seq(STRING) /\ Len(s) = n /\ \A i \in 1..n : s[i] = q[i]
  OBVIOUS
<1>2. SubSeq(q, 1, m) \in Seq(STRING) /\ Len(SubSeq(q, 1, m)) = m /\ \A i \in 1..m : SubSeq(q, 1, m)[i] = q[i]
  OBVIOUS
<1> HIDE DEF s
<1>3. SubSeq(s, 1, m) \in Seq(STRING) /\ Len(SubSeq(s, 1, m)) = m /\ \A i \in 1..m : SubSeq(s, 1, m)[i] = s[i]
  BY <1>1
<1>4. SubSeq(s, 1, m) = SubSeq(q, 1, m)
  <2>1. \A i \in 1..m : SubSeq(s, 1, m)[i] = SubSeq(q, 1, m)[i]
    BY <1>1, <1>2, <1>3
  <2> QED
    BY <1>2, <1>3, <2>1
<1> QED
  BY <1>1, <1>4 DEF s

At(q, p) == q = p \/ IsProperPrefix(p, q)

LEMMA PathFacts == \A p \in Path : p \in Seq(STRING) /\ Len(p) \in Nat \ {0}
  BY WebDavAssumption

LEMMA BelowBelow ==
    ASSUME NEW p \in Path, NEW q \in Path, NEW s \in Path, IsProperPrefix(p, q), At(s, q)
    PROVE  IsProperPrefix(p, s)
<1>1. CASE s = q
  BY <1>1
<1>2. CASE IsProperPrefix(q, s)
  <2>1. p = SubSeq(q, 1, Len(p)) /\ q = SubSeq(s, 1, Len(q)) /\ Len(p) < Len(q) /\ Len(q) < Len(s)
    BY <1>2 DEF IsProperPrefix
  <2>2. SubSeq(SubSeq(s, 1, Len(q)), 1, Len(p)) = SubSeq(s, 1, Len(p))
    BY <2>1, PathFacts, Comparable
  <2> QED
    BY <2>1, <2>2, PathFacts DEF IsProperPrefix
<1> QED
  BY <1>1, <1>2 DEF At

\* What locks a path, or the collection it is in, is in the way of whoever changes all
\* that is at or below one above it.
LEMMA Reaches ==
    ASSUME NEW l, l.path \in Path, NEW p \in Path, NEW q \in Path, At(q, p),
           Covers(l, q) \/ l.path = Parent(q)
    PROVE  Covers(l, p) \/ IsProperPrefix(p, l.path) \/ l.path = Parent(p)
<1>1. CASE q = p
  BY <1>1
<1>2. CASE IsProperPrefix(p, q) /\ l.path = q
  BY <1>2
<1>3. CASE IsProperPrefix(p, q) /\ l.infinite /\ IsProperPrefix(l.path, q)
  <2> DEFINE m == Len(l.path)
             n == Len(p)
  <2>1. m \in Nat \ {0} /\ n \in Nat \ {0} /\ m < Len(q) /\ n < Len(q) /\ q \in Seq(STRING)
    BY <1>3, PathFacts DEF IsProperPrefix
  <2>2. l.path = SubSeq(q, 1, m) /\ p = SubSeq(q, 1, n)
    BY <1>3 DEF IsProperPrefix
  <2>3. CASE m < n
    <3>1. SubSeq(p, 1, m) = l.path
      BY <2>1, <2>2, <2>3, Comparable
    <3> QED
      BY <1>3, <2>3, <3>1 DEF Covers, IsProperPrefix
  <2>4. CASE m = n
    BY <2>2, <2>4 DEF Covers
  <2>5. CASE n < m
    <3>1. SubSeq(l.path, 1, n) = p
      BY <2>1, <2>2, <2>5, Comparable
    <3> QED
      BY <2>5, <3>1 DEF IsProperPrefix
  <2> QED
    BY <2>1, <2>3, <2>4, <2>5
<1>4. CASE IsProperPrefix(p, q) /\ l.path = Parent(q)
  <2> DEFINE m == Len(q) - 1
             n == Len(p)
  <2>1. n \in Nat \ {0} /\ n < Len(q) /\ q \in Seq(STRING) /\ Len(q) \in Nat
    BY <1>4, PathFacts DEF IsProperPrefix
  <2>2. l.path = SubSeq(q, 1, m) /\ p = SubSeq(q, 1, n)
    BY <1>4 DEF IsProperPrefix, Parent
  <2>3. Len(l.path) = m
    BY <2>1, <2>2, Comparable
  <2>4. CASE m = n
    BY <2>2, <2>4 DEF Covers
  <2>5. CASE n < m
    <3>1. SubSeq(l.path, 1, n) = p
      BY <2>1, <2>2, <2>5, Comparable
    <3> QED
      BY <2>3, <2>5, <3>1 DEF IsProperPrefix
  <2> QED
    BY <2>1, <2>4, <2>5
<1> QED
  BY <1>1, <1>2, <1>3, <1>4 DEF At, Covers

-----------------------------------------------------------------------------
\* What becomes of the requests and the locks.

LEMMA GoesOn ==
    ASSUME TmpInFlight, NEW d \in Client, Past(req[d]), NEW pc, Goto(d, pc) \/ Changing(d, pc)
    PROVE  /\ \A c \in Client : Turn(c) /\ (c # d => req'[c] = req[c])
           /\ Kept(req'[d], req[d]) /\ req'[d].pc = pc
<1>1. Formed(req[d])
  BY DEF TmpInFlight
<1>2. PICK r : /\ \/ r = [req[d] EXCEPT !.pc = pc]
                  \/ r = [req[d] EXCEPT !.pc = pc, !.changed = TRUE]
               /\ req' = [req EXCEPT ![d] = r]
  <2>1. CASE Goto(d, pc)
    BY <2>1 DEF Goto, TmpInFlight
  <2>2. CASE Changing(d, pc)
    <3>1. req' = [req EXCEPT ![d].pc = pc, ![d].changed = TRUE]
      BY <2>2 DEF Changing
    <3> QED
      BY <3>1 DEF TmpInFlight
  <2> QED
    BY <2>1, <2>2
<1>3. Kept(r, req[d]) /\ r.sinceSrc = req[d].sinceSrc /\ r.since = req[d].since /\ r.pc = pc
  BY <1>1, <1>2 DEF Formed, Kept
<1>4. \A c \in Client : req'[c] = IF c = d THEN r ELSE req[c]
  BY <1>2 DEF TmpInFlight
<1> QED
  BY <1>3, <1>4, Stands DEF Turn, SameAsked

LEMMA Ends ==
    ASSUME TmpInFlight, NEW d \in Client, Answer(d)
    PROVE  \A c \in Client : /\ Turn(c) /\ (c # d => req'[c] = req[c])
                             /\ c = d => req'[c].pc = "idle"
<1>1. \A c \in Client : req'[c] = IF c = d THEN Idle ELSE req[c]
  BY DEF TmpInFlight, Answer
<1>2. Idle.pc = "idle" /\ Idle.sinceSrc = 0 /\ Idle.since = 0
  BY DEF Idle
<1> QED
  BY <1>1, <1>2, Stands DEF Turn, NotAsked

LEMMA Turns ==
    ASSUME UInv, NEW d \in Client, Step(d)
    PROVE  \A c \in Client : Turn(c) /\ (c # d => req'[c] = req[c])
<1>0. TmpInFlight
  BY DEF UInv
<1>1. CASE Start(d)
  <2>6. PICK r \in Requests, w \in {0, issued} :
        req' = [req EXCEPT ![d] =
                [r EXCEPT !.pc = CASE r.op = "LOCK" /\ tree[Target(r)].kind # "absent" -> "grant"
                                   [] r.op = "MOVE" -> "source"
                                   [] OTHER -> "check",
                          !.deep = IF r.op = "LOCK" THEN @ /\ tree[Target(r)].kind = "dir"
                                   ELSE @ \/ tree[r.path].kind # "dir",
                          !.cond = "any",
                          !.kind = tree[Target(r)].kind,
                          !.with = w]]
    BY <1>1, ZenonT(60) DEF Start
  <2>7. PICK pc, deep, kind :
          /\ pc = CASE r.op = "LOCK" /\ tree[Target(r)].kind # "absent" -> "grant"
                    [] r.op = "MOVE" -> "source"
                    [] OTHER -> "check"
          /\ deep = IF r.op = "LOCK" THEN r.deep /\ tree[Target(r)].kind = "dir"
                    ELSE r.deep \/ tree[r.path].kind # "dir"
          /\ kind = tree[Target(r)].kind
    OBVIOUS
  <2>1. req' = [req EXCEPT ![d] =
                  [r EXCEPT !.pc = pc, !.deep = deep, !.cond = "any", !.kind = kind, !.with = w]]
    BY <2>6, <2>7
  <2>2. Formed(r) /\ r.sinceSrc = 0 /\ r.since = 0
    BY Asks
  <2>3. PICK q : q = [r EXCEPT !.pc = pc, !.deep = deep, !.cond = "any", !.kind = kind, !.with = w]
    OBVIOUS
  <2>4. q.sinceSrc = 0 /\ q.since = 0
    BY <2>2, <2>3 DEF Formed
  <2>5. \A c \in Client : req'[c] = IF c = d THEN q ELSE req[c]
    BY <1>0, <2>1, <2>3 DEF TmpInFlight
  <2> QED
    BY <2>4, <2>5, Stands DEF Turn, NotAsked
<1>2. CASE Check(d)
  <2>1. CASE Answer(d)
    BY <1>0, <2>1, Ends
  <2>2. CASE /\ InTheWay(d, req[d]) = {}
             /\ req' = [req EXCEPT ![d].pc = FirstStep(req[d]), ![d].since = issued]
    <3>1. Formed(req[d]) /\ req[d].op \in Op
      BY <1>2, Served DEF Check, Named
    <3>2. PICK pc, since : pc = FirstStep(req[d]) /\ since = issued
      OBVIOUS
    <3>3. PICK r : r = [req[d] EXCEPT !.pc = pc, !.since = since]
      OBVIOUS
    <3>4. Kept(r, req[d]) /\ r.sinceSrc = req[d].sinceSrc /\ r.since = issued
      BY <3>1, <3>2, <3>3 DEF Formed, Kept
    <3>5. req' = [req EXCEPT ![d] = r]
      BY <1>0, <2>2, <3>2, <3>3 DEF TmpInFlight
    <3>6. \A c \in Client : req'[c] = IF c = d THEN r ELSE req[c]
      BY <1>0, <3>5 DEF TmpInFlight
    <3> QED
      BY <2>2, <3>1, <3>4, <3>6, Stands DEF Turn, TargetAsked
  <2> QED
    BY <1>2, <2>1, <2>2 DEF Check
<1>9. CASE CheckSource(d)
  <2>1. CASE Answer(d)
    BY <1>0, <2>1, Ends
  <2>2. CASE /\ SourceInTheWay(d, req[d]) = {}
             /\ req' = [req EXCEPT ![d].pc = "check", ![d].sinceSrc = issued]
    <3>1. Formed(req[d])
      BY <1>9, Served DEF CheckSource
    <3>2. PICK r : r = [req[d] EXCEPT !.pc = "check", !.sinceSrc = issued]
      OBVIOUS
    <3>3. Kept(r, req[d]) /\ r.sinceSrc = issued /\ r.since = req[d].since
      BY <3>1, <3>2 DEF Formed, Kept
    <3>4. req' = [req EXCEPT ![d] = r]
      BY <1>0, <2>2, <3>2 DEF TmpInFlight
    <3>5. \A c \in Client : req'[c] = IF c = d THEN r ELSE req[c]
      BY <1>0, <3>4 DEF TmpInFlight
    <3> QED
      BY <2>2, <3>3, <3>5, Stands DEF Turn, SourceAsked
  <2> QED
    BY <1>9, <2>1, <2>2 DEF CheckSource
<1>3. ASSUME Past(req[d]), \/ Answer(d)
                           \/ \E pc : Goto(d, pc) \/ Changing(d, pc)
      PROVE  \A c \in Client : Turn(c) /\ (c # d => req'[c] = req[c])
  BY <1>0, <1>3, Ends, GoesOn
<1>4. CASE BodyBreaks(d) \/ BodyArrives(d) \/ Store(d) \/ Fill(d)
  BY <1>3, <1>4 DEF Past, BodyBreaks, BodyArrives, Store, StoreInto, Fill
<1>5. CASE Remove(d) \/ Forget(d) \/ Make(d) \/ Replace(d) \/ Replaced(d)
  BY <1>3, <1>5 DEF Past, Remove, RemoveAny, Forget, Make, Replace, Replaced
<1>6. CASE Rename(d) \/ CopyBegins(d) \/ CopyEnds(d) \/ Unlink(d) \/ Moved(d)
  BY <1>3, <1>6 DEF Past, Rename, CopyBegins, CopyEnds, Unlink, Moved
<1>7. CASE Create(d) \/ Grant(d) \/ Clean(d)
  BY <1>3, <1>7 DEF Past, Create, Grant, Clean
<1>8. CASE Refresh(d) \/ Unlock(d)
  BY <1>8, Stands DEF Refresh, Unlock
<1> QED
  BY <1>1, <1>2, <1>9, <1>4, <1>5, <1>6, <1>7, <1>8 DEF Step

LEMMA LocksCome ==
    ASSUME HInv, [Next]_vars
    PROVE  Descend
<1>1. \A l \in locks : Shaped(l) /\ Alike(l, l)
  BY DEF HInv, IInv, AreLocks, Alike
<1>2. ASSUME locks' \subseteq locks, issued' = issued
      PROVE  Descend
  BY <1>1, <1>2 DEF Descend
<1>3. ASSUME NEW d \in Client, Step(d)
      PROVE  Descend
  <2>1. CASE Forget(d) \/ Replaced(d) \/ Moved(d)
    BY <1>2, <2>1 DEF Forget, Replaced, Moved, DropUnder
  <2>2. CASE Grant(d)
    <3>1. CASE issued' = issued + 1
      <4>1. PICK n \in 1..Ttl :
              locks' = locks \cup
                        {[token |-> NextToken, path |-> req[d].path, user |-> d,
                          exclusive |-> req[d].exclusive, infinite |-> req[d].deep, left |-> n]}
        BY <2>2, <3>1 DEF Grant, HInv, Numbered
      <4>2. req[d].path \in Path
        BY <2>2, Served DEF HInv, Grant, Named
      <4>3. ASSUME NEW k \in locks', k \notin locks
            PROVE  k.token = issued + 1 /\ k.path \in Path
        BY <4>1, <4>2, <4>3 DEF NextToken
      <4> QED
        BY <1>1, <3>1, <4>3 DEF Descend
    <3>2. CASE locks' = locks /\ issued' = issued
      BY <1>2, <3>2
    <3> QED
      BY <2>2, <3>1, <3>2 DEF Grant
  <2>3. CASE Unlock(d)
    BY <1>2, <2>3 DEF Unlock
  <2>4. CASE Refresh(d)
    <3>1. PICK l \in locks, n \in 1..Ttl : locks' = (locks \ {l}) \cup {[l EXCEPT !.left = n]}
      BY <2>4 DEF Refresh
    <3>2. Alike([l EXCEPT !.left = n], l)
      BY <1>1, LeftOnly DEF Alike
    <3> QED
      BY <1>1, <2>4, <3>1, <3>2 DEF Descend, Refresh
  <2>5. CASE \/ Start(d) \/ CheckSource(d) \/ Check(d) \/ BodyBreaks(d) \/ BodyArrives(d)
             \/ Store(d) \/ Fill(d) \/ Remove(d) \/ Make(d) \/ Replace(d)
             \/ Rename(d) \/ CopyBegins(d) \/ CopyEnds(d) \/ Unlink(d)
             \/ Create(d) \/ Clean(d)
    <3>1. locks' = locks /\ issued' = issued
      BY <2>5 DEF Start, CheckSource, Check, BodyBreaks, BodyArrives, Store, Fill, Remove, Make,
                  Replace, Rename, CopyBegins, CopyEnds, Unlink, Create, Clean
    <3> QED
      BY <1>2, <3>1
  <2> QED
    BY <1>3, <2>1, <2>2, <2>3, <2>4, <2>5 DEF Step
<1>4. CASE Tick
  <2>1. ASSUME NEW k \in locks'
        PROVE  \E l \in locks : Alike(k, l)
    <3>1. PICK l \in locks : k = [l EXCEPT !.left = @ - 1]
      BY <1>4, <2>1 DEF Tick
    <3>2. PICK n : n = l.left - 1
      OBVIOUS
    <3>3. k = [l EXCEPT !.left = n]
      BY <3>1, <3>2
    <3> QED
      BY <1>1, <3>3, LeftOnly DEF Alike
  <2> QED
    BY <1>4, <2>1 DEF Tick, Descend
<1>5. CASE Restart
  BY <1>2, <1>5 DEF Restart
<1>6. CASE UNCHANGED vars
  BY <1>2, <1>6 DEF vars
<1> QED
  BY <1>3, <1>4, <1>5, <1>6 DEF Next

-----------------------------------------------------------------------------
\* What a request writes.

LEMMA CutAt ==
    ASSUME NEW t, NEW p, NEW q \in Path, Cut(t, p)[q] # t[q]
    PROVE  At(q, p)
  BY DEF Cut, At

LEMMA GraftAt ==
    ASSUME NEW t, NEW src, NEW dst, NEW deep, NEW q \in Path, Graft(t, src, dst, deep)[q] # tree[q]
    PROVE  At(q, dst)
  BY DEF Graft, At

\* Who writes at p: a request for p alone, or one for what p is part of.
Writes(r, p) ==
    \/ p = r.path /\ r.op \in {"PUT", "MKCOL", "LOCK"}
    \/ At(p, r.path) /\ r.op \in {"DELETE", "MOVE"}
    \/ At(p, r.dest) /\ r.op \in {"COPY", "MOVE"}

\* Whichever end of the request p is at, what was asked about that end says no.
LEMMA Refused ==
    ASSUME NEW c, NEW r, Named(r), NEW l, l.path \in Path, ~(l.user = c /\ l.token <= r.with),
           NEW p \in Path, Writes(r, p),
           Covers(l, p) \/ (l.path = Parent(p) /\ (r.op = "PUT" => r.kind = "absent"))
    PROVE  IF r.op = "MOVE" /\ ~At(p, r.dest) THEN RefusesSource(l, c, r) ELSE Refuses(l, c, r)
<1>1. CASE p = r.path /\ r.op \in {"PUT", "MKCOL", "LOCK"}
  <2>1. Target(r) = p
    BY <1>1 DEF Target
  <2>2. Stops(l, c, r, p, FALSE, r.op = "PUT" => r.kind = "absent")
    BY <1>1 DEF Stops
  <2>3. Stops(l, c, r, Target(r), r.op \in {"DELETE", "COPY", "MOVE"},
              r.op \in {"DELETE", "COPY", "MOVE"} \/ (r.op = "PUT" => r.kind = "absent"))
    BY <1>1, <2>1, <2>2 DEF Stops
  <2> QED
    BY <1>1, <2>3 DEF Refuses
<1>2. ASSUME NEW q \in Path, At(p, q)
      PROVE  Stops(l, c, r, q, TRUE, TRUE)
  BY <1>2, Reaches DEF Stops
<1>3. CASE At(p, r.path) /\ r.op = "MOVE" /\ ~At(p, r.dest)
  BY <1>2, <1>3 DEF Named, RefusesSource
<1>4. ASSUME At(p, Target(r)), Target(r) \in Path, r.op \in {"DELETE", "COPY", "MOVE"}
      PROVE  Refuses(l, c, r)
  <2>1. Stops(l, c, r, Target(r), TRUE, TRUE)
    BY <1>2, <1>4
  <2>2. Stops(l, c, r, Target(r), r.op \in {"DELETE", "COPY", "MOVE"},
              r.op \in {"DELETE", "COPY", "MOVE"} \/ (r.op = "PUT" => r.kind = "absent"))
    BY <1>4, <2>1 DEF Stops
  <2> QED
    BY <2>2 DEF Refuses
<1>5. CASE At(p, r.path) /\ r.op = "DELETE"
  BY <1>4, <1>5 DEF Target, Named
<1>6. CASE At(p, r.dest) /\ r.op \in {"COPY", "MOVE"}
  BY <1>4, <1>6 DEF Target, Named
<1> QED
  BY <1>1, <1>3, <1>5, <1>6 DEF Writes

LEMMA RemovesAt ==
    ASSUME NEW c, NEW p \in Path, NEW next, RemoveAny(c, p, next), NEW q \in Path, tree'[q] # tree[q]
    PROVE  At(q, p)
<1>1. CASE tree' = Cut(tree, p)
  BY <1>1, CutAt
<1>2. CASE \E gone \in {g \in Below(p) : Exists(g)} : tree' = Cut(tree, gone)
  <2>1. PICK gone \in Below(p) : tree' = Cut(tree, gone)
    BY <1>2
  <2>2. gone \in Path /\ IsProperPrefix(p, gone)
    BY <2>1 DEF Below
  <2>3. At(q, gone)
    BY <2>1, CutAt
  <2> QED
    BY <2>2, <2>3, BelowBelow DEF At
<1> QED
  BY <1>1, <1>2 DEF RemoveAny

LEMMA WritesThere ==
    ASSUME UInv, NEW c \in Client, Step(c), NEW q \in Path, tree'[q] # tree[q]
    PROVE  Past(req[c]) /\ Writes(req[c], q)
<1> DEFINE r == req[c]
<1>1. DOMAIN tree = Path /\ tree = [p \in Path |-> tree[p]]
  BY DEF UInv, TreeWhole
<1>2. ASSUME NEW p, NEW e, tree' = [tree EXCEPT ![p] = e]
      PROVE  q = p
  BY <1>1, <1>2
<1>3. r.pc # "idle" => Named(r)
  BY Served
<1>4. CASE Store(c) \/ Fill(c)
  <2>1. r.pc \in Uploading /\ r.op = "PUT"
    BY <1>3, <1>4 DEF Store, Fill, Uploading, Named, InHand
  <2>2. q = r.path
    BY <1>2, <1>4 DEF Store, StoreInto, Fill
  <2> QED
    BY <2>1, <2>2 DEF Past, Uploading, Writes
<1>5. CASE Remove(c)
  <2>1. r.pc = "remove" /\ r.op = "DELETE" /\ r.path \in Path
    BY <1>3, <1>5 DEF Remove, Named, InHand
  <2>2. At(q, r.path)
    BY <1>5, <2>1, RemovesAt DEF Remove
  <2> QED
    BY <2>1, <2>2 DEF Past, Writes
<1>6. CASE Make(c)
  <2>1. r.pc = "make" /\ r.op = "MKCOL"
    BY <1>3, <1>6 DEF Make, Named, InHand
  <2>2. q = r.path
    BY <1>2, <1>6 DEF Make
  <2> QED
    BY <2>1, <2>2 DEF Past, Writes
<1>7. CASE Replace(c)
  <2>1. r.pc = "replace" /\ r.op \in {"COPY", "MOVE"} /\ r.dest \in Path
    BY <1>3, <1>7 DEF Replace, Named, InHand, Placing
  <2>2. At(q, r.dest)
    BY <1>7, <2>1, RemovesAt DEF Replace
  <2> QED
    BY <2>1, <2>2 DEF Past, Writes
<1>8. CASE Rename(c)
  <2>1. r.pc = "place" /\ r.op = "MOVE"
    BY <1>8 DEF Rename
  <2>2. tree' = Cut(Graft(tree, r.path, r.dest, TRUE), r.path)
    BY <1>8 DEF Rename
  <2>3. At(q, r.path) \/ At(q, r.dest)
    <3>1. PICK g : g = Graft(tree, r.path, r.dest, TRUE)
      OBVIOUS
    <3>2. CASE g[q] # tree[q]
      BY <3>1, <3>2 DEF Graft, At
    <3>3. CASE g[q] = tree[q]
      <4>1. tree' = Cut(g, r.path)
        BY <2>2, <3>1
      <4>2. Cut(g, r.path)[q] # g[q]
        BY <3>3, <4>1
      <4> QED
        BY <4>2, CutAt
    <3> QED
      BY <3>2, <3>3
  <2> QED
    BY <2>1, <2>3 DEF Past, Writes
<1>9. CASE CopyBegins(c)
  <2>1. r.pc = "place" /\ r.op \in {"COPY", "MOVE"}
    BY <1>3, <1>9 DEF CopyBegins, Named, InHand, Placing
  <2>2. q = r.dest
    BY <1>2, <1>9 DEF CopyBegins
  <2> QED
    BY <2>1, <2>2 DEF Past, Writes, At
<1>10. CASE CopyEnds(c)
  <2>1. r.pc = "copy" /\ r.op \in {"COPY", "MOVE"}
    BY <1>3, <1>10 DEF CopyEnds, Named, InHand, Placing
  <2>2. tree' = Graft(Copied, r.path, r.dest, r.op = "MOVE" \/ r.deep)
    BY <1>10 DEF CopyEnds
  <2>3. At(q, r.dest)
    BY <2>2, GraftAt
  <2> QED
    BY <2>1, <2>3 DEF Past, Writes
<1>11. CASE Unlink(c)
  <2>1. r.pc = "unlink" /\ r.op = "MOVE"
    BY <1>3, <1>11 DEF Unlink, Named, InHand
  <2>2. At(q, r.path)
    BY <1>11, CutAt DEF Unlink
  <2> QED
    BY <2>1, <2>2 DEF Past, Writes
<1>12. CASE Create(c) \/ Clean(c)
  <2>1. r.pc \in {"create", "clean"} /\ r.op = "LOCK"
    BY <1>3, <1>12 DEF Create, Clean, Named, InHand
  <2>2. q = r.path
    BY <1>2, <1>12 DEF Create, Clean
  <2> QED
    BY <2>1, <2>2 DEF Past, Writes
<1>13. CASE \/ Start(c) \/ CheckSource(c) \/ Check(c) \/ BodyBreaks(c) \/ BodyArrives(c) \/ Forget(c)
            \/ Replaced(c) \/ Moved(c) \/ Grant(c) \/ Refresh(c) \/ Unlock(c)
  BY <1>13 DEF Start, CheckSource, Check, BodyBreaks, BodyArrives, Forget, Replaced, Moved, Grant,
               Refresh, Unlock
<1> QED
  BY <1>4, <1>5, <1>6, <1>7, <1>8, <1>9, <1>10, <1>11, <1>12, <1>13 DEF Step

-----------------------------------------------------------------------------

LEMMA HeldInit == Init => HInv
<1> SUFFICES ASSUME Init
             PROVE  HInv
  OBVIOUS
<1>1. \A c \in Client : req[c] = Idle
  BY DEF Init
<1>2. Numbered
  BY <1>1 DEF Init, Numbered, Idle
<1>3. HeldOff
  BY DEF Init, HeldOff
<1> QED
  BY <1>2, <1>3, UploadsInit, InitExcludes DEF HInv

LEMMA HeldNext == HInv /\ [Next]_vars => HInv'
<1> SUFFICES ASSUME HInv, [Next]_vars
             PROVE  HInv'
  OBVIOUS
<1>1. UInv' /\ IInv'
  BY UploadsNext, NextExcludes DEF HInv
<1>2. Descend
  BY LocksCome
<1>3. \A c \in Client : Turn(c)
  <2>1. CASE \E d \in Client : Step(d)
    BY <2>1, Turns DEF HInv
  <2>2. CASE Tick \/ UNCHANGED vars
    BY <2>2, Stands DEF Tick, vars
  <2>3. CASE Restart
    BY <2>3 DEF Restart, Idle, Turn, NotAsked
  <2> QED
    BY <2>1, <2>2, <2>3 DEF Next
<1>4. faults' \in Nat
  <2>1. CASE \E d \in Client : Step(d)
    <3>1. PICK d \in Client : Step(d)
      BY <2>1
    <3>2. faults' = faults
      BY <3>1 DEF Step, Start, CheckSource, Check, BodyBreaks, BodyArrives, Store, StoreInto, Fill, Remove,
                  RemoveAny, Forget, Make, Replace, Replaced, Rename, CopyBegins, CopyEnds,
                  Unlink, Moved, Create, Grant, Clean, Refresh, Unlock, Goto, Changing, Answer
    <3> QED
      BY <3>2 DEF HInv, Numbered
  <2>2. CASE Tick \/ UNCHANGED vars \/ Restart
    BY <2>2 DEF Tick, vars, Restart, HInv, Numbered
  <2> QED
    BY <2>1, <2>2 DEF Next
<1> QED
  BY <1>1, <1>2, <1>3, <1>4, HeldStays DEF HInv

\* A lock that was there when a request asked is in the way of nothing it writes.
LEMMA WritesHeldOff == HInv /\ [Next]_vars => [
    tree' # tree => \A c \in Client, l \in locks, p \in Path :
        LET r == req[c]
        IN  /\ r.pc # "idle" /\ req' # req /\ req'[c] # r
            /\ ~(l.user = c /\ l.token <= r.with)
            /\ \/ tree'[p] # tree[p] /\ Covers(l, p)
               \/ /\ (tree'[p].kind = "absent") # (tree[p].kind = "absent")
                  /\ l.path = Parent(p)
                  /\ r.op = "PUT" => r.kind = "absent"
            => l.token > AskedAt(r, p)]_vars
<1> SUFFICES ASSUME HInv, [Next]_vars, tree' # tree,
                    NEW c \in Client, NEW l \in locks, NEW p \in Path,
                    req[c].pc # "idle", req' # req, req'[c] # req[c],
                    ~(l.user = c /\ l.token <= req[c].with),
                    \/ tree'[p] # tree[p] /\ Covers(l, p)
                    \/ /\ (tree'[p].kind = "absent") # (tree[p].kind = "absent")
                       /\ l.path = Parent(p)
                       /\ req[c].op = "PUT" => req[c].kind = "absent"
             PROVE  l.token > AskedAt(req[c], p)
  OBVIOUS
<1>1. PICK d \in Client : Step(d)
  BY DEF Next, Tick, Restart, vars
<1>2. d = c
  BY <1>1, Turns DEF HInv
<1>3. tree'[p] # tree[p]
  OBVIOUS
<1>4. Past(req[c]) /\ Writes(req[c], p) /\ Named(req[c])
  BY <1>1, <1>2, <1>3, WritesThere, Served DEF HInv
<1>5. l.path \in Path /\ l.token \in Nat /\ req[c].sinceSrc \in Nat /\ req[c].since \in Nat
  BY DEF HInv, Numbered
<1>6. IF req[c].op = "MOVE" /\ ~At(p, req[c].dest) THEN RefusesSource(l, c, req[c])
      ELSE Refuses(l, c, req[c])
  BY <1>4, <1>5, Refused
<1>7. ~(l.token <= AskedAt(req[c], p))
  BY <1>6 DEF HInv, HeldOff, AskedAt, At
<1> QED
  BY <1>5, <1>7 DEF AskedAt

\* DropUnder takes the locks that are in the way of whoever removes the resource.
LEMMA LocksGoHeldOff == HInv /\ [Next]_vars => [
    locks' # locks /\ faults' = faults =>
        \A l \in locks :
            \/ \E k \in locks' : k.token = l.token
            \/ Tick
            \/ \E c \in Client :
                /\ req[c].pc \in {"forget", "replaced", "moved"} /\ req'[c] # req[c]
                /\ \/ l.token > AskedAt(req[c], l.path)
                   \/ l.user = c /\ l.token <= req[c].with
            \/ \E p \in Path : Covers(l, p) /\ req[l.user].pc = "idle" /\ req' = req]_vars
<1> SUFFICES ASSUME HInv, [Next]_vars, locks' # locks, faults' = faults, NEW l \in locks,
                    ~ \E k \in locks' : k.token = l.token, ~Tick
             PROVE  \/ \E c \in Client :
                        /\ req[c].pc \in {"forget", "replaced", "moved"} /\ req'[c] # req[c]
                        /\ \/ l.token > AskedAt(req[c], l.path)
                           \/ l.user = c /\ l.token <= req[c].with
                    \/ \E p \in Path : Covers(l, p) /\ req[l.user].pc = "idle" /\ req' = req
  OBVIOUS
<1>1. PICK d \in Client : Step(d)
  BY DEF Next, Restart, vars, HInv, Numbered
<1>2. /\ l.path \in Path /\ l.token \in Nat /\ l \notin locks'
      /\ req[d].sinceSrc \in Nat /\ req[d].since \in Nat
  BY DEF HInv, Numbered
<1>3. ASSUME NEW p \in Path, locks' = DropUnder(p), Past(req[d]), Named(req[d]),
             \/ p = req[d].path /\ req[d].op \in {"DELETE", "MOVE"}
             \/ p = req[d].dest /\ req[d].op \in {"COPY", "MOVE"}
      PROVE  l.token > AskedAt(req[d], l.path) \/ (l.user = d /\ l.token <= req[d].with)
  <2>1. l.path = p \/ IsProperPrefix(p, l.path)
    BY <1>2, <1>3 DEF DropUnder
  <2>2. At(l.path, p) /\ Covers(l, l.path)
    BY <2>1 DEF At, Covers
  <2>3. Writes(req[d], l.path)
    BY <1>3, <2>2 DEF Writes
  <2>4. req[d].op # "PUT"
    BY <1>3
  <2>5. CASE ~(l.user = d /\ l.token <= req[d].with)
    <3>1. IF req[d].op = "MOVE" /\ ~At(l.path, req[d].dest) THEN RefusesSource(l, d, req[d])
          ELSE Refuses(l, d, req[d])
      BY <1>2, <1>3, <2>2, <2>3, <2>5, Refused
    <3>2. ~(l.token <= AskedAt(req[d], l.path))
      BY <3>1 DEF HInv, HeldOff, AskedAt, At
    <3> QED
      BY <1>2, <3>2 DEF AskedAt
  <2> QED
    BY <2>5
<1>4. ASSUME req[d].pc \in {"forget", "replaced", "moved"}
      PROVE  Past(req[d]) /\ Named(req[d]) /\ TmpInFlight
  BY <1>4, Served DEF HInv, Past, UInv
<1>5. CASE Forget(d)
  <2>1. req[d].op = "DELETE" /\ req[d].path \in Path /\ req[d].pc = "forget"
    BY <1>4, <1>5 DEF Forget, Named, InHand
  <2>2. req'[d] # req[d]
    BY <1>4, <1>5, <2>1, Ends DEF Forget
  <2> QED
    BY <1>3, <1>4, <1>5, <2>1, <2>2 DEF Forget
<1>6. CASE Moved(d)
  <2>1. req[d].op = "MOVE" /\ req[d].path \in Path /\ req[d].pc = "moved"
    BY <1>4, <1>6 DEF Moved, Named, InHand
  <2>2. req'[d] # req[d]
    BY <1>4, <1>6, <2>1, Ends DEF Moved
  <2> QED
    BY <1>3, <1>4, <1>6, <2>1, <2>2 DEF Moved
<1>7. CASE Replaced(d)
  <2>1. req[d].op \in {"COPY", "MOVE"} /\ req[d].dest \in Path /\ req[d].pc = "replaced"
    BY <1>4, <1>7 DEF Replaced, Named, InHand, Placing
  <2>2. req'[d].pc = "place"
    BY <1>4, <1>7, <2>1, GoesOn DEF Replaced
  <2> QED
    BY <1>3, <1>4, <1>7, <2>1, <2>2 DEF Replaced
<1>8. CASE Unlock(d)
  <2>1. PICK k \in locks, p \in Path : UnlockOf(d, k, p) /\ locks' = locks \ {k}
    BY <1>8 DEF Unlock
  <2>2. k = l
    BY <1>2, <2>1
  <2> QED
    BY <1>8, <2>1, <2>2 DEF Unlock, UnlockOf
<1>9. CASE Refresh(d)
  <2>1. PICK k \in locks, n \in 1..Ttl : locks' = (locks \ {k}) \cup {[k EXCEPT !.left = n]}
    BY <1>9 DEF Refresh
  <2>2. k = l
    BY <1>2, <2>1
  <2>3. [l EXCEPT !.left = n].token = l.token
    BY LeftOnly DEF HInv, IInv, AreLocks
  <2> QED
    BY <2>1, <2>2, <2>3
<1>10. CASE Grant(d)
  BY <1>2, <1>10 DEF Grant
<1>11. CASE \/ Start(d) \/ CheckSource(d) \/ Check(d) \/ BodyBreaks(d) \/ BodyArrives(d)
            \/ Store(d) \/ Fill(d) \/ Remove(d) \/ Make(d) \/ Replace(d)
            \/ Rename(d) \/ CopyBegins(d) \/ CopyEnds(d) \/ Unlink(d)
            \/ Create(d) \/ Clean(d)
  BY <1>11 DEF Start, CheckSource, Check, BodyBreaks, BodyArrives, Store, Fill, Remove, Make,
               Replace, Rename, CopyBegins, CopyEnds, Unlink, Create, Clean
<1> QED
  BY <1>1, <1>5, <1>6, <1>7, <1>8, <1>9, <1>10, <1>11 DEF Step

\* Between the check of a request and its last write other clients take, refresh and give
\* up locks; yet a lock that was there when the request asked holds it off at any depth,
\* and goes only with its holder or its resource (locks.rs, check_write, unlock and
\* remove_under).
THEOREM LocksHeld == Spec => LocksHold
<1>1. Spec => []HInv
  BY HeldInit, HeldNext, PTL DEF Spec
<1>2. Spec => LockHoldsOff
  BY <1>1, WritesHeldOff, PTL DEF Spec, LockHoldsOff
<1>3. Spec => LocksGoWithResource
  BY <1>1, LocksGoHeldOff, PTL DEF Spec, LocksGoWithResource
<1> QED
  BY <1>2, <1>3 DEF LocksHold

-----------------------------------------------------------------------------
(* One connection, and what is read from it.                                 *)

\* The library's induction takes a predicate; this one a set.
LEMMA SetInduction ==
  ASSUME NEW S, 0 \in S, \A n \in Nat : n \in S => n + 1 \in S
  PROVE  Nat \subseteq S
<1> SUFFICES ASSUME NEW n \in Nat, n \notin S PROVE FALSE
  OBVIOUS
<1> DEFINE A == S \cap (0 .. n)
           B == A \ {0}
           f == [k \in A |-> k + 1]
<1>1. IsFiniteSet(A) /\ IsFiniteSet(B)
  <2>1. IsFiniteSet(0 .. n)
    BY FS_Interval
  <2>2. A \subseteq 0 .. n /\ B \subseteq 0 .. n
    OBVIOUS
  <2> QED BY <2>1, <2>2, FS_Subset
<1>2. 0 \in A
  OBVIOUS
<1>3. Cardinality(B) = Cardinality(A) - 1
  <2> HIDE DEF A
  <2> QED BY <1>1, <1>2, FS_RemoveElement
<1>4. f \in [A -> B]
  <2> SUFFICES ASSUME NEW k \in A PROVE k + 1 \in B
    OBVIOUS
  <2>1. k \in Nat /\ k # n /\ k <= n
    OBVIOUS
  <2> QED BY <2>1
<1>5. Cardinality(A) \in Nat /\ Cardinality(B) \in Nat
  BY <1>1, FS_CardinalityType
<1>6. Cardinality(B) < Cardinality(A)
  BY <1>3, <1>5
<1>7. \A x, y \in A : f[x] = f[y] => x = y
  OBVIOUS
<1> HIDE DEF A, B, f
<1>8. \E x, y \in A : x # y /\ f[x] = f[y]
  BY <1>1, <1>4, <1>6, FS_PigeonHole
<1> QED BY <1>7, <1>8

\* A function on the numbers up to n that starts at x and goes on as g says.
StepsOn(h, n, x, g) == h[0] = x /\ \A k \in 0 .. n - 1 : h[k + 1] = g[k][h[k]]

LEMMA StepsOnFar ==
  ASSUME NEW V, NEW x \in V, NEW g \in [Nat -> [V -> V]]
  PROVE  \A n \in Nat : \E h \in [0 .. n -> V] : StepsOn(h, n, x, g)
<1> DEFINE S == {n \in Nat : \E h \in [0 .. n -> V] : StepsOn(h, n, x, g)}
<1>1. 0 \in S
  <2>1. [i \in 0 .. 0 |-> x] \in [0 .. 0 -> V] /\ StepsOn([i \in 0 .. 0 |-> x], 0, x, g)
    BY DEF StepsOn
  <2> QED BY <2>1
<1>2. ASSUME NEW n \in Nat, n \in S PROVE n + 1 \in S
  <2>1. PICK h \in [0 .. n -> V] : StepsOn(h, n, x, g)
    BY <1>2
  <2> DEFINE e == [i \in 0 .. n + 1 |-> IF i = n + 1 THEN g[n][h[n]] ELSE h[i]]
  <2>2. g[n][h[n]] \in V
    OBVIOUS
  <2>3. e \in [0 .. n + 1 -> V]
    BY <2>2
  <2>4. ASSUME NEW k \in 0 .. n PROVE e[k + 1] = g[k][e[k]]
    <3>1. k + 1 \in 0 .. n + 1 /\ k \in 0 .. n + 1 /\ k # n + 1 /\ e[k] = h[k]
      OBVIOUS
    <3>2. CASE k = n
      BY <3>1, <3>2
    <3>3. CASE k # n
      <4>1. k \in 0 .. n - 1 /\ k + 1 # n + 1
        BY <3>3
      <4> QED BY <4>1, <3>1, <2>1 DEF StepsOn
    <3> QED BY <3>2, <3>3
  <2>5. e[0] = x /\ (n + 1) - 1 = n
    BY <2>1 DEF StepsOn
  <2> HIDE DEF e
  <2>6. StepsOn(e, n + 1, x, g)
    BY <2>4, <2>5 DEF StepsOn
  <2> QED BY <2>3, <2>6
<1> HIDE DEF S
<1>3. Nat \subseteq S
  BY <1>1, <1>2, SetInduction
<1> QED BY <1>3 DEF S

LEMMA SeqsAlike ==
  ASSUME NEW C, NEW s \in Seq(C), NEW t \in Seq(C), Len(s) = Len(t),
         \A i \in 1 .. Len(s) : s[i] = t[i]
  PROVE  s = t
<1>1. Len(s) \in Nat /\ s = [i \in 1 .. Len(s) |-> s[i]] /\ t = [i \in 1 .. Len(t) |-> t[i]]
  OBVIOUS
<1> QED BY <1>1

-----------------------------------------------------------------------------
(* What comes on a connection, token by token.                               *)

Token == [is : {"head", "byte", "size", "blank"}, n : Nat]

LEMMA TokensAre ==
  ASSUME NEW k \in Nat
  PROVE  /\ Headline(k) \in Token /\ Byte(k) \in Token /\ Size(k) \in Token /\ BlankLine \in Token
         /\ Size(k).is = "size" /\ Size(k).n = k /\ Headline(k).is = "head" /\ Headline(k).n = k
  BY DEF Token, Headline, Byte, Size, BlankLine

Runs(h, n, x, g) == \A i \in 0 .. n : h[i] = IF i = 0 THEN x ELSE g[i - 1][h[i - 1]]

\* What goes on from number to number as g says is a function.
LEMMA RunsOn ==
  ASSUME NEW V, NEW x \in V, NEW n \in Nat, NEW g \in [Nat -> [V -> V]]
  PROVE  \E h \in [0 .. n -> V] : Runs(h, n, x, g)
<1>1. PICK h \in [0 .. n -> V] : StepsOn(h, n, x, g)
  BY StepsOnFar
<1>2. ASSUME NEW i \in 0 .. n PROVE h[i] = IF i = 0 THEN x ELSE g[i - 1][h[i - 1]]
  <2>1. CASE i = 0
    BY <2>1, <1>1 DEF StepsOn
  <2>2. CASE i # 0
    <3> DEFINE k == i - 1
    <3>1. k \in 0 .. n - 1 /\ k + 1 = i
      BY <2>2
    <3>2. h[k + 1] = g[k][h[k]]
      BY <3>1, <1>1 DEF StepsOn
    <3> QED BY <3>1, <3>2, <2>2
  <2> QED BY <2>1, <2>2
<1> QED BY <1>2 DEF Runs

-----------------------------------------------------------------------------
(* How long a body is.                                                       *)

SumsUp(t, c) == t = [i \in 0 .. Len(c) |-> IF i = 0 THEN 0 ELSE t[i - 1] + c[i]]

LEMMA SumExists == ASSUME NEW c \in Seq(Nat) PROVE \E t : SumsUp(t, c)
<1> DEFINE n == Len(c)
           V == Nat
           g == [k \in Nat |-> [v \in V |-> IF k + 1 \in 1 .. n THEN v + c[k + 1] ELSE v]]
<1>1. n \in Nat /\ \A i \in 1 .. n : c[i] \in Nat
  OBVIOUS
<1>2. g \in [Nat -> [V -> V]]
  <2> SUFFICES ASSUME NEW k \in Nat, NEW v \in V, k + 1 \in 1 .. n PROVE v + c[k + 1] \in V
    OBVIOUS
  <2>1. c[k + 1] \in Nat
    BY <1>1
  <2> QED BY <2>1
<1>3. PICK h \in [0 .. n -> V] : Runs(h, n, 0, g)
  <2>1. 0 \in V
    OBVIOUS
  <2> HIDE DEF g, n, V
  <2> QED BY <1>1, <1>2, <2>1, RunsOn
<1>4. ASSUME NEW i \in 0 .. n PROVE h[i] = IF i = 0 THEN 0 ELSE h[i - 1] + c[i]
  <2>1. CASE i = 0
    BY <2>1, <1>3 DEF Runs
  <2>2. CASE i # 0
    <3>1. i - 1 \in Nat /\ i - 1 \in 0 .. n /\ (i - 1) + 1 = i /\ i \in 1 .. n
      BY <2>2, <1>1
    <3>2. h[i - 1] \in V
      BY <3>1
    <3>3. h[i] = g[i - 1][h[i - 1]]
      BY <2>2, <1>3 DEF Runs
    <3> QED BY <3>1, <3>2, <3>3, <2>2
  <2> QED BY <2>1, <2>2
<1> QED BY <1>4 DEF SumsUp

LEMMA SumStep ==
  ASSUME NEW c \in Seq(Nat), NEW t, SumsUp(t, c), NEW i \in Nat, i + 1 <= Len(c)
  PROVE  t[i + 1] = t[i] + c[i + 1]
<1> DEFINE m == i + 1
<1>1. m \in 0 .. Len(c) /\ m # 0 /\ m - 1 = i
  OBVIOUS
<1> HIDE DEF m
<1>2. t[m] = IF m = 0 THEN 0 ELSE t[m - 1] + c[m]
  BY <1>1 DEF SumsUp
<1>3. t[m] = t[m - 1] + c[m]
  BY <1>1, <1>2
<1>4. t[m] = t[i] + c[m]
  BY <1>1, <1>3
<1> QED BY <1>4 DEF m

LEMMA SumFacts ==
  ASSUME NEW c \in Seq(Nat), NEW t, SumsUp(t, c)
  PROVE  t[0] = 0 /\ \A i \in Nat : i <= Len(c) => t[i] \in Nat
<1>1. t[0] = 0
  BY DEF SumsUp
<1> DEFINE S == {i \in Nat : i <= Len(c) => t[i] \in Nat}
<1>2. 0 \in S
  BY <1>1
<1>3. ASSUME NEW i \in Nat, i \in S PROVE i + 1 \in S
  <2> SUFFICES ASSUME i + 1 <= Len(c) PROVE t[i + 1] \in Nat
    OBVIOUS
  <2>1. t[i + 1] = t[i] + c[i + 1]
    BY SumStep
  <2>2. t[i] \in Nat /\ c[i + 1] \in Nat
    BY <1>3
  <2> QED BY <2>1, <2>2
<1> HIDE DEF S
<1>4. Nat \subseteq S
  BY <1>2, <1>3, SetInduction
<1> QED BY <1>1, <1>4 DEF S

LEMMA TotalIs ==
  ASSUME NEW shape, shape.chunks \in Seq(Nat)
  PROVE  \E t : SumsUp(t, shape.chunks) /\ Total(shape) = t[Len(shape.chunks)] /\ Total(shape) \in Nat
<1> DEFINE t == CHOOSE u : SumsUp(u, shape.chunks)
<1>1. SumsUp(t, shape.chunks)
  BY SumExists
<1>2. Total(shape) = t[Len(shape.chunks)]
  BY DEF Total, SumsUp
<1> HIDE DEF t
<1>3. t[Len(shape.chunks)] \in Nat
  BY <1>1, SumFacts
<1> QED BY <1>1, <1>2, <1>3

-----------------------------------------------------------------------------
(* Parts put together.                                                       *)

AddsUp(t, parts) == t = [i \in 0 .. Len(parts) |-> IF i = 0 THEN <<>> ELSE t[i - 1] \o parts[i]]

Joins(e, a, b) ==
  /\ Len(e) = Len(a) + Len(b)
  /\ (\A i \in 1 .. Len(a) : e[i] = a[i]) /\ \A i \in 1 .. Len(b) : e[Len(a) + i] = b[i]

LEMMA JoinsAre == ASSUME NEW C, NEW a \in Seq(C), NEW b \in Seq(C) PROVE a \o b \in Seq(C) /\ Joins(a \o b, a, b)
  BY DEF Joins

LEMMA AddsUpExists == ASSUME NEW C, NEW parts \in Seq(Seq(C)) PROVE \E t : AddsUp(t, parts)
<1> DEFINE n == Len(parts)
           V == Seq(C)
           g == [k \in Nat |-> [v \in V |-> IF k + 1 \in 1 .. n THEN v \o parts[k + 1] ELSE v]]
<1>1. n \in Nat /\ \A i \in 1 .. n : parts[i] \in Seq(C)
  OBVIOUS
<1>2. g \in [Nat -> [V -> V]]
  <2> SUFFICES ASSUME NEW k \in Nat, NEW v \in V, k + 1 \in 1 .. n PROVE v \o parts[k + 1] \in V
    OBVIOUS
  <2> DEFINE b == parts[k + 1]
  <2>1. v \in Seq(C) /\ b \in Seq(C)
    BY <1>1
  <2> HIDE DEF b
  <2>2. v \o b \in Seq(C)
    BY <2>1, JoinsAre
  <2> QED BY <2>2 DEF b
<1>3. PICK h \in [0 .. n -> V] : Runs(h, n, <<>>, g)
  <2>1. <<>> \in V
    OBVIOUS
  <2> HIDE DEF g, n, V
  <2> QED BY <1>1, <1>2, <2>1, RunsOn
<1>4. ASSUME NEW i \in 0 .. n PROVE h[i] = IF i = 0 THEN <<>> ELSE h[i - 1] \o parts[i]
  <2>1. CASE i = 0
    BY <2>1, <1>3 DEF Runs
  <2>2. CASE i # 0
    <3>1. i - 1 \in Nat /\ i - 1 \in 0 .. n /\ (i - 1) + 1 = i /\ i \in 1 .. n /\ h[i - 1] \in V
      <4> HIDE DEF V, n
      <4> QED BY <2>2, <1>1
    <3>2. h[i] = g[i - 1][h[i - 1]]
      BY <2>2, <1>3 DEF Runs
    <3> QED BY <3>1, <3>2, <2>2
  <2> QED BY <2>1, <2>2
<1> QED BY <1>4 DEF AddsUp

LEMMA TogetherIs ==
  ASSUME NEW C, NEW parts \in Seq(Seq(C))
  PROVE  \E t : AddsUp(t, parts) /\ Together(parts) = t[Len(parts)]
<1> DEFINE t == CHOOSE u : AddsUp(u, parts)
<1>1. AddsUp(t, parts)
  BY AddsUpExists
<1>2. Together(parts) = t[Len(parts)]
  BY DEF Together, AddsUp
<1> QED BY <1>1, <1>2

LEMMA AddsUpStep ==
  ASSUME NEW C, NEW parts \in Seq(Seq(C)), NEW t, AddsUp(t, parts), NEW i \in Nat, i + 1 <= Len(parts)
  PROVE  t[i + 1] = t[i] \o parts[i + 1]
<1> DEFINE m == i + 1
<1>1. m \in 0 .. Len(parts) /\ m # 0 /\ m - 1 = i
  OBVIOUS
<1> HIDE DEF m
<1>2. t[m] = IF m = 0 THEN <<>> ELSE t[m - 1] \o parts[m]
  BY <1>1 DEF AddsUp
<1>3. t[m] = t[m - 1] \o parts[m]
  BY <1>1, <1>2
<1>4. t[m] = t[i] \o parts[m]
  BY <1>1, <1>3
<1> QED BY <1>4 DEF m

LEMMA BytesAre ==
  ASSUME NEW n \in Nat, NEW k \in Nat
  PROVE  Bytes(n, k) \in Seq(Token) /\ Len(Bytes(n, k)) = n /\ \A i \in 1 .. n : Bytes(n, k)[i] = Byte(k)
<1>1. Byte(k) \in Token
  BY TokensAre
<1> QED BY <1>1 DEF Bytes

LongerBy(a, b, k, s) == Bytes(a, k) \o s = Bytes(a + b, k)

LEMMA BytesJoin ==
  ASSUME NEW a \in Nat, NEW b \in Nat, NEW k \in Nat, NEW s \in Seq(Token), Len(s) = b, \A i \in 1 .. b : s[i] = Byte(k)
  PROVE  LongerBy(a, b, k, s)
<1> DEFINE u == Bytes(a, k)
           v == Bytes(a + b, k)
           e == u \o s
<1>1. u \in Seq(Token) /\ Len(u) = a /\ \A i \in 1 .. a : u[i] = Byte(k)
  BY BytesAre
<1>2. v \in Seq(Token) /\ Len(v) = a + b /\ \A i \in 1 .. a + b : v[i] = Byte(k)
  <2>1. a + b \in Nat
    OBVIOUS
  <2> QED BY <2>1, BytesAre
<1> HIDE DEF u, v
<1>3. /\ e \in Seq(Token) /\ Len(e) = a + b
      /\ (\A i \in 1 .. a : e[i] = u[i]) /\ \A i \in 1 .. b : e[a + i] = s[i]
  <2>1. e \in Seq(Token) /\ Joins(e, u, s)
    BY <1>1, JoinsAre
  <2> HIDE DEF e
  <2> QED BY <1>1, <2>1 DEF Joins
<1> HIDE DEF e
<1>4. ASSUME NEW i \in 1 .. Len(e) PROVE e[i] = v[i]
  <2>1. CASE i <= a
    <3>1. i \in 1 .. a /\ i \in 1 .. a + b
      BY <1>3, <2>1
    <3> QED BY <3>1, <1>1, <1>2, <1>3
  <2>2. CASE i > a
    <3> DEFINE j == i - a
    <3>1. j \in 1 .. b /\ i = a + j /\ i \in 1 .. a + b
      BY <1>3, <2>2
    <3> HIDE DEF j
    <3>2. e[a + j] = Byte(k) /\ v[i] = Byte(k)
      BY <1>2, <1>3, <3>1
    <3> QED BY <3>1, <3>2
  <2> QED BY <2>1, <2>2
<1>5. e = v
  BY <1>2, <1>3, <1>4, SeqsAlike
<1> QED BY <1>5 DEF e, u, v, LongerBy

\* From behind place a there is a chunk.
ChunkAt(u, a, n, k) ==
  u[a + 1] = Size(n) /\ (\A m \in 1 .. n : u[a + 1 + m] = Byte(k)) /\ u[a + n + 2] = BlankLine

LEMMA ChunkStays ==
  ASSUME NEW u \in Seq(Token), NEW v \in Seq(Token), NEW a \in Nat, NEW n \in Nat, NEW k \in Nat,
         ChunkAt(u, a, n, k), a + n + 2 <= Len(u)
  PROVE  ChunkAt(u \o v, a, n, k)
<1> DEFINE e == u \o v
<1>1. \A i \in 1 .. Len(u) : e[i] = u[i]
  BY JoinsAre DEF Joins
<1> HIDE DEF e
<1>2. e[a + 1] = u[a + 1] /\ e[a + n + 2] = u[a + n + 2]
  <2>1. a + 1 \in 1 .. Len(u) /\ a + n + 2 \in 1 .. Len(u)
    OBVIOUS
  <2> QED BY <2>1, <1>1
<1>3. ASSUME NEW m \in 1 .. n PROVE e[a + 1 + m] = u[a + 1 + m]
  <2>1. a + 1 + m \in 1 .. Len(u)
    OBVIOUS
  <2> QED BY <2>1, <1>1
<1> QED BY <1>2, <1>3 DEF ChunkAt, e

LEMMA ChunkLies ==
  ASSUME NEW u \in Seq(Token), NEW v \in Seq(Token), NEW n \in Nat, NEW k \in Nat, ChunkAt(v, 0, n, k), Len(v) = n + 2
  PROVE  ChunkAt(u \o v, Len(u), n, k)
<1> DEFINE e == u \o v
           a == Len(u)
<1>1. a \in Nat /\ \A i \in 1 .. n + 2 : e[a + i] = v[i]
  BY JoinsAre DEF Joins
<1>2. v[1] = Size(n) /\ (\A m \in 1 .. n : v[1 + m] = Byte(k)) /\ v[n + 2] = BlankLine
  BY DEF ChunkAt
<1> HIDE DEF e, a
<1>3. e[a + 1] = Size(n)
  BY <1>1, <1>2
<1>4. ASSUME NEW m \in 1 .. n PROVE e[a + 1 + m] = Byte(k)
  <2>1. 1 + m \in 1 .. n + 2 /\ a + (1 + m) = a + 1 + m
    BY <1>1
  <2>2. e[a + (1 + m)] = v[1 + m]
    BY <2>1, <1>1
  <2> QED BY <2>1, <2>2, <1>2
<1>5. e[a + n + 2] = BlankLine
  <2>1. n + 2 \in 1 .. n + 2 /\ a + (n + 2) = a + n + 2
    BY <1>1
  <2>2. e[a + (n + 2)] = v[n + 2]
    BY <2>1, <1>1
  <2> QED BY <2>1, <2>2, <1>2
<1> QED BY <1>3, <1>4, <1>5 DEF ChunkAt, e, a

LEMMA ChunkIs ==
  ASSUME NEW n \in Nat, NEW k \in Nat
  PROVE  Chunk(n, k) \in Seq(Token) /\ Len(Chunk(n, k)) = n + 2 /\ ChunkAt(Chunk(n, k), 0, n, k)
<1> DEFINE b == Bytes(n, k)
           h == <<Size(n)>>
           t == <<BlankLine>>
           d == h \o b
           e == d \o t
<1>1. b \in Seq(Token) /\ Len(b) = n /\ \A i \in 1 .. n : b[i] = Byte(k)
  BY BytesAre
<1>2. h \in Seq(Token) /\ Len(h) = 1 /\ h[1] = Size(n) /\ t \in Seq(Token) /\ Len(t) = 1 /\ t[1] = BlankLine
  BY TokensAre
<1> HIDE DEF b, h, t
<1>3. d \in Seq(Token) /\ Len(d) = n + 1 /\ d[1] = Size(n) /\ \A m \in 1 .. n : d[1 + m] = Byte(k)
  <2>1. d \in Seq(Token) /\ Joins(d, h, b)
    BY <1>1, <1>2, JoinsAre
  <2> HIDE DEF d
  <2>2. 1 \in 1 .. Len(h) /\ Len(h) + Len(b) = n + 1
    BY <1>1, <1>2
  <2> QED BY <1>1, <1>2, <2>1, <2>2 DEF Joins
<1> HIDE DEF d
<1>4. e \in Seq(Token) /\ Len(e) = n + 2 /\ (\A i \in 1 .. n + 1 : e[i] = d[i]) /\ e[n + 2] = BlankLine
  <2>1. e \in Seq(Token) /\ Joins(e, d, t)
    BY <1>2, <1>3, JoinsAre
  <2> HIDE DEF e
  <2>2. 1 \in 1 .. Len(t) /\ Len(d) + 1 = n + 2
    BY <1>2, <1>3
  <2> QED BY <1>2, <1>3, <2>1, <2>2 DEF Joins
<1>5. Chunk(n, k) = e
  BY DEF Chunk, e, d, h, b, t
<1> HIDE DEF e
<1>6. ChunkAt(e, 0, n, k)
  <2>1. e[1] = Size(n)
    BY <1>3, <1>4
  <2>2. ASSUME NEW m \in 1 .. n PROVE e[0 + 1 + m] = Byte(k)
    <3>1. 1 + m \in 1 .. n + 1 /\ 0 + 1 + m = 1 + m
      OBVIOUS
    <3> QED BY <3>1, <1>3, <1>4
  <2>3. 0 + 1 = 1 /\ 0 + n + 2 = n + 2
    OBVIOUS
  <2> QED BY <2>1, <2>2, <2>3, <1>4 DEF ChunkAt
<1> QED BY <1>4, <1>5, <1>6

\* The first i chunks, put together.
Begin(u, i, c, s, k) ==
  /\ u \in Seq(Token) /\ Len(u) = s[i] + 2 * i
  /\ \A j \in Nat : j < i => s[j] + c[j + 1] <= s[i] /\ ChunkAt(u, s[j] + 2 * j, c[j + 1], k)

LEMMA Farther ==
  ASSUME NEW x \in Nat, NEW y \in Nat, NEW m \in Nat, NEW i \in Nat, NEW j \in Nat, x + m <= y, j < i
  PROVE  x + 2 * j \in Nat /\ x + 2 * j + m + 2 <= y + 2 * i
OBVIOUS

LEMMA OneFarther ==
  ASSUME NEW x \in Nat, NEW n \in Nat, NEW i \in Nat
  PROVE  (x + 2 * i) + (n + 2) = (x + n) + 2 * (i + 1)
OBVIOUS

LEMMA BeginNext ==
  ASSUME NEW c \in Seq(Nat), NEW s, SumsUp(s, c), NEW k \in Nat, NEW i \in Nat, i + 1 <= Len(c),
         NEW u, Begin(u, i, c, s, k)
  PROVE  Begin(u \o Chunk(c[i + 1], k), i + 1, c, s, k)
<1> DEFINE n == c[i + 1]
           v == Chunk(n, k)
           e == u \o v
<1>1. n \in Nat /\ s[i] \in Nat /\ s[i + 1] = s[i] + n
  <2>1. i <= Len(c) /\ i + 1 \in 1 .. Len(c)
    OBVIOUS
  <2> QED BY <2>1, SumStep, SumFacts
<1> HIDE DEF n
<1>2. v \in Seq(Token) /\ Len(v) = n + 2 /\ ChunkAt(v, 0, n, k)
  BY <1>1, ChunkIs
<1>3. u \in Seq(Token) /\ Len(u) = s[i] + 2 * i
  BY DEF Begin
<1> HIDE DEF v
<1>4. e \in Seq(Token) /\ Joins(e, u, v)
  BY <1>2, <1>3, JoinsAre
<1>5. ChunkAt(e, Len(u), n, k)
  BY <1>1, <1>2, <1>3, ChunkLies
<1>6. ASSUME NEW j \in Nat, j < i PROVE s[j] + c[j + 1] <= s[i + 1] /\ ChunkAt(e, s[j] + 2 * j, c[j + 1], k)
  <2> DEFINE a == s[j] + 2 * j
             m == c[j + 1]
  <2>1. s[j] + m <= s[i] /\ ChunkAt(u, a, m, k)
    BY <1>6 DEF Begin
  <2>2. m \in Nat /\ s[j] \in Nat
    <3>1. j <= Len(c) /\ j + 1 \in 1 .. Len(c)
      BY <1>6
    <3> QED BY <3>1, SumFacts
  <2> HIDE DEF m
  <2>3. a \in Nat /\ a + m + 2 <= Len(u)
    <3> DEFINE x == s[j]
               y == s[i]
    <3>1. x \in Nat /\ y \in Nat /\ m \in Nat /\ x + m <= y /\ j < i
      BY <1>1, <1>6, <2>1, <2>2
    <3>2. a = x + 2 * j /\ Len(u) = y + 2 * i
      BY <1>3
    <3> HIDE DEF x, y, a
    <3>3. x + 2 * j \in Nat /\ x + 2 * j + m + 2 <= y + 2 * i
      BY <3>1, Farther
    <3> QED BY <3>2, <3>3
  <2> HIDE DEF a
  <2>4. ChunkAt(e, a, m, k)
    BY <1>2, <1>3, <2>1, <2>2, <2>3, ChunkStays
  <2>5. s[j] + m <= s[i + 1]
    BY <1>1, <2>1, <2>2
  <2> QED BY <2>4, <2>5 DEF a, m
<1> HIDE DEF e
<1>7. Len(e) = s[i + 1] + 2 * (i + 1)
  <2>1. Len(e) = (s[i] + 2 * i) + (n + 2)
    BY <1>2, <1>3, <1>4 DEF Joins
  <2>2. (s[i] + 2 * i) + (n + 2) = (s[i] + n) + 2 * (i + 1)
    BY <1>1, OneFarther
  <2> QED BY <2>1, <2>2, <1>1
<1>8. ASSUME NEW j \in Nat, j < i + 1 PROVE s[j] + c[j + 1] <= s[i + 1] /\ ChunkAt(e, s[j] + 2 * j, c[j + 1], k)
  <2>1. CASE j = i
    BY <2>1, <1>1, <1>3, <1>5 DEF n
  <2>2. CASE j # i
    <3>1. j < i
      BY <1>8, <2>2
    <3> QED BY <3>1, <1>6
  <2> QED BY <2>1, <2>2
<1>9. Begin(e, i + 1, c, s, k)
  BY <1>4, <1>7, <1>8 DEF Begin
<1> QED BY <1>9 DEF e, v, n

LEMMA PutsTyped ==
  ASSUME NEW c \in Seq(Nat), NEW k \in Nat
  PROVE  LET parts == [i \in DOMAIN c |-> Chunk(c[i], k)]
         IN parts \in Seq(Seq(Token)) /\ Len(parts) = Len(c) /\ \A i \in 1 .. Len(c) : parts[i] = Chunk(c[i], k)
<1> DEFINE parts == [i \in DOMAIN c |-> Chunk(c[i], k)]
           D == Seq(Token)
           n == Len(c)
<1>1. n \in Nat /\ DOMAIN c = 1 .. n /\ \A i \in 1 .. n : c[i] \in Nat
  OBVIOUS
<1> HIDE DEF D, n
<1>2. \A i \in 1 .. n : Chunk(c[i], k) \in D
  BY <1>1, ChunkIs DEF D
<1>3. parts \in [1 .. n -> D]
  BY <1>1, <1>2
<1>4. parts \in Seq(D) /\ Len(parts) = n
  <2> HIDE DEF parts
  <2> QED BY <1>1, <1>3
<1>5. \A i \in 1 .. n : parts[i] = Chunk(c[i], k)
  BY <1>1
<1> QED BY <1>4, <1>5 DEF D, n

LEMMA ChunksPut ==
  ASSUME NEW c \in Seq(Nat), NEW s, SumsUp(s, c), NEW k \in Nat
  PROVE  Begin(Together([i \in DOMAIN c |-> Chunk(c[i], k)]), Len(c), c, s, k)
<1> DEFINE parts == [i \in DOMAIN c |-> Chunk(c[i], k)]
<1>1. parts \in Seq(Seq(Token)) /\ Len(parts) = Len(c) /\ \A i \in 1 .. Len(c) : parts[i] = Chunk(c[i], k)
  BY PutsTyped
<1> HIDE DEF parts
<1>2. PICK t : AddsUp(t, parts) /\ Together(parts) = t[Len(parts)]
  BY <1>1, TogetherIs
<1> DEFINE S == {i \in Nat : i <= Len(c) => Begin(t[i], i, c, s, k)}
<1>3. 0 \in S
  <2>1. t[0] = <<>>
    BY <1>1, <1>2 DEF AddsUp
  <2>2. s[0] = 0
    BY SumFacts
  <2>3. <<>> \in Seq(Token) /\ Len(<<>>) = 0 /\ 0 + 2 * 0 = 0
    OBVIOUS
  <2>4. Begin(t[0], 0, c, s, k)
    BY <2>1, <2>2, <2>3 DEF Begin
  <2> QED BY <2>4
<1>4. ASSUME NEW i \in Nat, i \in S PROVE i + 1 \in S
  <2> SUFFICES ASSUME i + 1 <= Len(c) PROVE Begin(t[i + 1], i + 1, c, s, k)
    OBVIOUS
  <2>1. Begin(t[i], i, c, s, k) /\ i + 1 \in 1 .. Len(c) /\ i + 1 <= Len(parts)
    BY <1>1, <1>4
  <2>2. t[i + 1] = t[i] \o parts[i + 1]
    BY <1>1, <1>2, <2>1, AddsUpStep
  <2>3. parts[i + 1] = Chunk(c[i + 1], k)
    BY <1>1, <2>1
  <2>4. Begin(t[i] \o Chunk(c[i + 1], k), i + 1, c, s, k)
    BY <2>1, BeginNext
  <2> QED BY <2>2, <2>3, <2>4
<1> HIDE DEF S
<1>5. Nat \subseteq S
  BY <1>3, <1>4, SetInduction
<1>6. Len(c) \in Nat
  OBVIOUS
<1>7. Begin(t[Len(c)], Len(c), c, s, k)
  BY <1>5, <1>6 DEF S
<1> QED BY <1>1, <1>2, <1>7 DEF parts

\* The sizes of the chunks, with that of the last.
SizeAt(c, j) == IF j = Len(c) THEN 0 ELSE c[j + 1]

\* How a chunked body lies on the wire.
ChunksLie(u, c, s, k) ==
  /\ u \in Seq(Token) /\ Len(u) = s[Len(c)] + 2 * Len(c) + 2
  /\ \A j \in 0 .. Len(c) :
       /\ s[j] + 2 * j + SizeAt(c, j) + 2 <= Len(u)
       /\ ChunkAt(u, s[j] + 2 * j, SizeAt(c, j), k)

LEMMA TravelsInChunks ==
  ASSUME NEW shape, shape.chunks \in Seq(Nat), shape.framing = "chunked", NEW s, SumsUp(s, shape.chunks), NEW k \in Nat
  PROVE  ChunksLie(Travels(shape, k), shape.chunks, s, k)
<1> DEFINE c == shape.chunks
           N == Len(c)
           u == Together([i \in DOMAIN c |-> Chunk(c[i], k)])
           v == <<Size(0), BlankLine>>
           e == u \o v
<1>1. Begin(u, N, c, s, k)
  BY ChunksPut
<1>2. v \in Seq(Token) /\ Len(v) = 0 + 2 /\ ChunkAt(v, 0, 0, k)
  BY TokensAre DEF ChunkAt
<1>3. Travels(shape, k) = e
  BY DEF Travels
<1>4. N \in Nat /\ c \in Seq(Nat) /\ SumsUp(s, c)
  OBVIOUS
<1> HIDE DEF c, u, v
<1>5. u \in Seq(Token) /\ Len(u) = s[N] + 2 * N /\ s[N] \in Nat
  BY <1>1, <1>4, SumFacts DEF Begin
<1>6. e \in Seq(Token) /\ Joins(e, u, v)
  BY <1>2, <1>5, JoinsAre
<1>7. ChunkAt(e, Len(u), 0, k)
  BY <1>2, <1>5, ChunkLies
<1>8. ASSUME NEW j \in 0 .. N PROVE s[j] + 2 * j + SizeAt(c, j) + 2 <= Len(u) + 2 /\ ChunkAt(e, s[j] + 2 * j, SizeAt(c, j), k)
  <2>1. CASE j = N
    BY <2>1, <1>4, <1>5, <1>7 DEF SizeAt
  <2>2. CASE j # N
    <3> DEFINE m == c[j + 1]
               a == s[j] + 2 * j
    <3>1. j \in Nat /\ j < N /\ SizeAt(c, j) = m
      BY <2>2, <1>4 DEF SizeAt
    <3>2. s[j] + m <= s[N] /\ ChunkAt(u, a, m, k)
      BY <3>1, <1>1 DEF Begin
    <3>3. m \in Nat /\ s[j] \in Nat
      <4>1. j <= Len(c) /\ j + 1 \in 1 .. Len(c)
        BY <3>1, <1>4
      <4> QED BY <4>1, <1>4, <3>1, SumFacts
    <3> HIDE DEF m
    <3>4. a \in Nat /\ a + m + 2 <= Len(u)
      <4> DEFINE x == s[j]
                 y == s[N]
      <4>1. x \in Nat /\ y \in Nat /\ m \in Nat /\ x + m <= y /\ j < N
        BY <1>5, <3>1, <3>2, <3>3
      <4>2. a = x + 2 * j /\ Len(u) = y + 2 * N
        BY <1>5
      <4> HIDE DEF x, y, a, N
      <4>3. x + 2 * j \in Nat /\ x + 2 * j + m + 2 <= y + 2 * N
        BY <3>1, <4>1, <1>4, Farther
      <4> QED BY <4>2, <4>3
    <3> HIDE DEF a
    <3>5. ChunkAt(e, a, m, k)
      BY <1>2, <1>5, <3>2, <3>3, <3>4, ChunkStays
    <3>6. a + m + 2 <= Len(u) + 2
      BY <1>5, <3>3, <3>4
    <3> QED BY <3>1, <3>5, <3>6 DEF a
  <2> QED BY <2>1, <2>2
<1> HIDE DEF e
<1>9. Len(e) = s[N] + 2 * N + 2 /\ Len(e) = Len(u) + 2
  BY <1>2, <1>5, <1>6 DEF Joins
<1>10. ChunksLie(e, c, s, k)
  BY <1>6, <1>8, <1>9 DEF ChunksLie
<1> QED BY <1>3, <1>10 DEF c

-----------------------------------------------------------------------------
(* How chunks are read.                                                      *)

Gathered == [ended : {"more", "done", "short", "bad"}, body : Seq(Token), at : Nat \ {0}]
Started == [ended |-> "more", body |-> <<>>, at |-> 1]

LEMMA PartIs ==
  ASSUME NEW w \in Seq(Token), NEW a \in Nat, NEW b \in Nat, a <= b, b <= Len(w)
  PROVE  /\ SubSeq(w, a + 1, b) \in Seq(Token) /\ Len(SubSeq(w, a + 1, b)) = b - a
         /\ \A i \in 1 .. b - a : SubSeq(w, a + 1, b)[i] = w[a + i]
OBVIOUS

LEMMA GatheredEnds ==
  ASSUME NEW r \in Gathered, NEW e \in {"more", "done", "short", "bad"}
  PROVE  [r EXCEPT !.ended = e] \in Gathered /\ [r EXCEPT !.ended = e].ended = e
  BY DEF Gathered

Grown(r, e, s) == [r EXCEPT !.ended = e, !.body = @ \o s]

LEMMA GatheredGrows ==
  ASSUME NEW r \in Gathered, NEW s \in Seq(Token), NEW e \in {"more", "done", "short", "bad"}
  PROVE  Grown(r, e, s) \in Gathered /\ Grown(r, e, s).ended = e
<1> DEFINE b == r.body \o s
<1>1. b \in Seq(Token)
  <2>1. r.body \in Seq(Token)
    BY DEF Gathered
  <2> QED BY <2>1, JoinsAre
<1>2. Grown(r, e, s) = [r EXCEPT !.ended = e, !.body = b]
  BY DEF Grown
<1> HIDE DEF b
<1>3. [r EXCEPT !.ended = e, !.body = b] \in Gathered /\ [r EXCEPT !.ended = e, !.body = b].ended = e
  BY <1>1 DEF Gathered
<1> QED BY <1>2, <1>3

\* What a round makes of what was read so far.
LEMMA NextStays == ASSUME NEW w, NEW r, r.ended # "more" PROVE NextChunk(w, r) = r
  BY DEF NextChunk

LEMMA NextAtEnd ==
  ASSUME NEW w \in Seq(Token), NEW r \in Gathered, r.ended = "more", r.at > Len(w)
  PROVE  NextChunk(w, r) \in Gathered /\ NextChunk(w, r).ended = "short"
<1>1. NextChunk(w, r) = [r EXCEPT !.ended = "short"]
  BY DEF NextChunk
<1> QED BY <1>1, GatheredEnds

LEMMA NextCutShort ==
  ASSUME NEW w \in Seq(Token), NEW r \in Gathered, r.ended = "more", r.at <= Len(w), w[r.at].is = "size",
         r.at + w[r.at].n + 1 > Len(w)
  PROVE  NextChunk(w, r) \in Gathered /\ NextChunk(w, r).ended = "short"
<1> DEFINE s == SubSeq(w, r.at + 1, Len(w))
<1>1. NextChunk(w, r) = Grown(r, "short", s)
  BY DEF NextChunk, Gathered, Grown
<1>2. s \in Seq(Token)
  <2>1. r.at \in Nat /\ Len(w) \in Nat
    BY DEF Gathered
  <2> QED BY <2>1, PartIs
<1> HIDE DEF s
<1>3. Grown(r, "short", s) \in Gathered /\ Grown(r, "short", s).ended = "short"
  BY <1>2, GatheredGrows
<1> QED BY <1>1, <1>3

LEMMA NextIsWhole ==
  ASSUME NEW w \in Seq(Token), NEW r \in Gathered, r.ended = "more", r.at <= Len(w), w[r.at].is = "size",
         NEW n \in Nat, n = w[r.at].n, r.at + n + 1 <= Len(w), w[r.at + n + 1] = BlankLine
  PROVE  NextChunk(w, r) = [ended |-> IF n = 0 THEN "done" ELSE "more",
                            body |-> r.body \o SubSeq(w, r.at + 1, r.at + n), at |-> r.at + n + 2]
<1>1. r.at \in Nat /\ Len(w) \in Nat
  BY DEF Gathered
<1> DEFINE p == r.at
           l == Len(w)
           z == w[p]
           q == p + n + 1
<1>2. ~(p > l) /\ ~(q > l) /\ q + 1 = p + n + 2 /\ z.n = n /\ z.is = "size" /\ w[q] = BlankLine /\ r.ended = "more"
  BY <1>1
<1>3. NextChunk(w, r) =
        IF r.ended # "more" THEN r
        ELSE IF p > l THEN [r EXCEPT !.ended = "short"]
        ELSE IF z.is # "size" THEN [r EXCEPT !.ended = "bad"]
        ELSE IF q > l THEN [r EXCEPT !.ended = "short", !.body = @ \o SubSeq(w, p + 1, l)]
        ELSE IF w[q] # BlankLine THEN [r EXCEPT !.ended = "bad"]
        ELSE [ended |-> IF n = 0 THEN "done" ELSE "more", body |-> r.body \o SubSeq(w, p + 1, p + n), at |-> q + 1]
  BY DEF NextChunk
<1> HIDE DEF l, z, q
<1>4. NextChunk(w, r) = [ended |-> IF n = 0 THEN "done" ELSE "more", body |-> r.body \o SubSeq(w, p + 1, p + n), at |-> q + 1]
  BY <1>2, <1>3
<1> QED BY <1>2, <1>4

LEMMA NextTyped == ASSUME NEW w \in Seq(Token), NEW r \in Gathered PROVE NextChunk(w, r) \in Gathered
<1>1. r.at \in Nat \ {0} /\ Len(w) \in Nat /\ r.body \in Seq(Token)
  BY DEF Gathered
<1>2. CASE r.ended # "more"
  BY <1>2, NextStays
<1>3. CASE r.ended = "more" /\ r.at > Len(w)
  BY <1>3, NextAtEnd
<1>4. CASE r.ended = "more" /\ r.at <= Len(w)
  <2> DEFINE n == w[r.at].n
  <2>1. n \in Nat
    <3>1. w[r.at] \in Token
      BY <1>1, <1>4
    <3> QED BY <3>1 DEF Token
  <2>2. ~(r.at > Len(w))
    BY <1>1, <1>4
  <2>3. CASE w[r.at].is # "size"
    <3>1. NextChunk(w, r) = [r EXCEPT !.ended = "bad"]
      BY <1>4, <2>2, <2>3 DEF NextChunk
    <3> QED BY <3>1, GatheredEnds
  <2>4. CASE w[r.at].is = "size" /\ r.at + n + 1 > Len(w)
    BY <1>4, <2>4, NextCutShort
  <2>5. CASE w[r.at].is = "size" /\ r.at + n + 1 <= Len(w) /\ w[r.at + n + 1] # BlankLine
    <3>1. ~(r.at + n + 1 > Len(w))
      BY <1>1, <2>1, <2>5
    <3>2. NextChunk(w, r) = [r EXCEPT !.ended = "bad"]
      BY <1>4, <2>2, <2>5, <3>1 DEF NextChunk
    <3> QED BY <3>2, GatheredEnds
  <2>6. CASE w[r.at].is = "size" /\ r.at + n + 1 <= Len(w) /\ w[r.at + n + 1] = BlankLine
    <3> DEFINE s == SubSeq(w, r.at + 1, r.at + n)
               b == r.body \o s
               p == r.at + n + 2
               e == IF n = 0 THEN "done" ELSE "more"
    <3>1. NextChunk(w, r) = [ended |-> e, body |-> b, at |-> p]
      BY <1>4, <2>1, <2>6, NextIsWhole
    <3>2. s \in Seq(Token)
      <4>1. r.at + n \in Nat /\ r.at <= r.at + n /\ r.at + n <= Len(w) /\ r.at \in Nat
        BY <1>1, <2>1, <2>6
      <4> QED BY <4>1, PartIs
    <3>3. b \in Seq(Token)
      <4> HIDE DEF s
      <4> QED BY <1>1, <3>2, JoinsAre
    <3>4. p \in Nat \ {0}
      <4>1. r.at \in Nat /\ n \in Nat
        BY <1>1, <2>1
      <4> QED BY <4>1
    <3>5. e \in {"more", "done", "short", "bad"}
      OBVIOUS
    <3> HIDE DEF b, p, e
    <3> QED BY <3>1, <3>3, <3>4, <3>5 DEF Gathered
  <2>7. r.at + n + 1 > Len(w) \/ r.at + n + 1 <= Len(w)
    BY <1>1, <2>1
  <2> QED BY <2>3, <2>4, <2>5, <2>6, <2>7
<1>5. r.at > Len(w) \/ r.at <= Len(w)
  BY <1>1
<1> QED BY <1>2, <1>3, <1>4, <1>5

IsRead(a, w) == a = [i \in 0 .. Len(w) + 1 |-> IF i = 0 THEN Started ELSE NextChunk(w, a[i - 1])]

LEMMA ReadExists == ASSUME NEW w \in Seq(Token) PROVE \E a : IsRead(a, w)
<1> DEFINE n == Len(w) + 1
           V == Gathered
           g == [k \in Nat |-> [v \in V |-> NextChunk(w, v)]]
<1>1. n \in Nat
  OBVIOUS
<1>2. g \in [Nat -> [V -> V]]
  BY NextTyped
<1>3. PICK h \in [0 .. n -> V] : Runs(h, n, Started, g)
  <2>1. Started \in V
    BY DEF Started, Gathered
  <2> HIDE DEF g, n, V
  <2> QED BY <1>1, <1>2, <2>1, RunsOn
<1>4. ASSUME NEW i \in 0 .. n PROVE h[i] = IF i = 0 THEN Started ELSE NextChunk(w, h[i - 1])
  <2>1. CASE i = 0
    BY <2>1, <1>3 DEF Runs
  <2>2. CASE i # 0
    <3>1. i - 1 \in Nat /\ i - 1 \in 0 .. n /\ h[i - 1] \in V
      <4> HIDE DEF V, n
      <4> QED BY <2>2, <1>1
    <3>2. h[i] = g[i - 1][h[i - 1]]
      BY <2>2, <1>3 DEF Runs
    <3> QED BY <3>1, <3>2, <2>2
  <2> QED BY <2>1, <2>2
<1>5. h = [i \in 0 .. n |-> IF i = 0 THEN Started ELSE NextChunk(w, h[i - 1])]
  <2> HIDE DEF n, V
  <2> QED BY <1>4
<1> QED BY <1>5 DEF IsRead

LEMMA ReadStep ==
  ASSUME NEW w \in Seq(Token), NEW a, IsRead(a, w), NEW i \in Nat, i <= Len(w)
  PROVE  a[i + 1] = NextChunk(w, a[i])
<1> DEFINE m == i + 1
<1>1. m \in 0 .. Len(w) + 1 /\ m # 0 /\ m - 1 = i
  OBVIOUS
<1> HIDE DEF m
<1>2. a[m] = IF m = 0 THEN Started ELSE NextChunk(w, a[m - 1])
  BY <1>1 DEF IsRead
<1>3. a[m] = NextChunk(w, a[m - 1])
  BY <1>1, <1>2
<1>4. a[m] = NextChunk(w, a[i])
  BY <1>1, <1>3
<1> QED BY <1>4 DEF m

\* What is read to the end stays read.
LEMMA ReadStays ==
  ASSUME NEW w \in Seq(Token), NEW a, IsRead(a, w), NEW i \in Nat, i <= Len(w) + 1, a[i].ended # "more"
  PROVE  a[Len(w) + 1] = a[i]
<1> DEFINE S == {d \in Nat : i + d <= Len(w) + 1 => a[i + d] = a[i]}
<1>1. 0 \in S
  OBVIOUS
<1>2. ASSUME NEW d \in Nat, d \in S PROVE d + 1 \in S
  <2> SUFFICES ASSUME i + (d + 1) <= Len(w) + 1 PROVE a[i + (d + 1)] = a[i]
    OBVIOUS
  <2> DEFINE j == i + d
  <2>1. j \in Nat /\ j <= Len(w) /\ a[j] = a[i] /\ i + (d + 1) = j + 1
    BY <1>2
  <2> HIDE DEF j
  <2>2. a[j + 1] = NextChunk(w, a[j])
    BY <2>1, ReadStep
  <2>3. NextChunk(w, a[i]) = a[i]
    BY NextStays
  <2> QED BY <2>1, <2>2, <2>3
<1> HIDE DEF S
<1>3. Nat \subseteq S
  BY <1>1, <1>2, SetInduction
<1> DEFINE d == Len(w) + 1 - i
<1>4. d \in Nat /\ i + d = Len(w) + 1
  OBVIOUS
<1> HIDE DEF d
<1>5. a[i + d] = a[i]
  BY <1>3, <1>4 DEF S
<1> QED BY <1>4, <1>5

Outcome(r, w) ==
  [ended |-> r.ended, body |-> r.body, rest |-> IF r.ended = "done" THEN SubSeq(w, r.at, Len(w)) ELSE <<>>]

LEMMA ChunksIs ==
  ASSUME NEW w \in Seq(Token)
  PROVE  \E a : IsRead(a, w) /\ Chunks(w) = Outcome(a[Len(w) + 1], w)
<1> DEFINE a == CHOOSE u : IsRead(u, w)
<1>1. IsRead(a, w)
  BY ReadExists
<1>2. Chunks(w) = Outcome(a[Len(w) + 1], w)
  BY DEF Chunks, IsRead, Started, Outcome
<1> QED BY <1>1, <1>2

\* The chunks as they lie, as far as there is anything.
Agrees(w, u) == \A i \in 1 .. Len(u) : i <= Len(w) => w[i] = u[i]

Place(s, i) == s[i] + 2 * i
Going(s, i, k) == [ended |-> "more", body |-> Bytes(s[i], k), at |-> Place(s, i) + 1]

LEMMA PlaceIs ==
  ASSUME NEW c \in Seq(Nat \ {0}), NEW s, SumsUp(s, c), NEW i \in Nat, i <= Len(c)
  PROVE  s[i] \in Nat /\ Place(s, i) \in Nat /\ i <= Place(s, i) /\ SizeAt(c, i) \in Nat /\ (SizeAt(c, i) = 0) = (i = Len(c))
<1>1. c \in Seq(Nat) /\ Len(c) \in Nat
  OBVIOUS
<1>2. s[i] \in Nat
  BY <1>1, SumFacts
<1>3. Place(s, i) \in Nat /\ i <= Place(s, i)
  <2> DEFINE x == s[i]
  <2>1. x \in Nat /\ Place(s, i) = x + 2 * i
    BY <1>2 DEF Place
  <2> HIDE DEF x
  <2> QED BY <2>1
<1>4. SizeAt(c, i) \in Nat /\ (SizeAt(c, i) = 0) = (i = Len(c))
  <2>1. CASE i = Len(c)
    BY <2>1 DEF SizeAt
  <2>2. CASE i # Len(c)
    <3>1. i + 1 \in 1 .. Len(c)
      BY <1>1, <2>2
    <3>2. c[i + 1] \in Nat \ {0}
      BY <3>1
    <3> QED BY <2>2, <3>2 DEF SizeAt
  <2> QED BY <2>1, <2>2
<1> QED BY <1>2, <1>3, <1>4

LEMMA PlaceNext ==
  ASSUME NEW c \in Seq(Nat \ {0}), NEW s, SumsUp(s, c), NEW i \in Nat, i + 1 <= Len(c)
  PROVE  s[i + 1] = s[i] + SizeAt(c, i) /\ Place(s, i + 1) = Place(s, i) + SizeAt(c, i) + 2 /\ SizeAt(c, i) # 0
<1>1. c \in Seq(Nat) /\ i <= Len(c) /\ i # Len(c)
  OBVIOUS
<1> DEFINE x == s[i]
           y == s[i + 1]
           n == SizeAt(c, i)
<1>2. y = x + n
  BY <1>1, SumStep DEF SizeAt
<1>3. x \in Nat /\ n \in Nat /\ n # 0
  BY <1>1, PlaceIs
<1>4. Place(s, i) = x + 2 * i /\ Place(s, i + 1) = y + 2 * (i + 1)
  BY DEF Place
<1> HIDE DEF x, y, n
<1>5. Place(s, i + 1) = Place(s, i) + n + 2
  BY <1>2, <1>3, <1>4
<1> QED BY <1>2, <1>3, <1>5 DEF x, y, n

LEMMA GoingIs ==
  ASSUME NEW c \in Seq(Nat \ {0}), NEW s, SumsUp(s, c), NEW i \in Nat, i <= Len(c), NEW k \in Nat
  PROVE  Going(s, i, k) \in Gathered /\ Going(s, i, k).ended = "more" /\ Going(s, i, k).at = Place(s, i) + 1
         /\ Going(s, i, k).body = Bytes(s[i], k)
<1>1. s[i] \in Nat /\ Place(s, i) \in Nat
  BY PlaceIs
<1>2. Bytes(s[i], k) \in Seq(Token)
  BY <1>1, BytesAre
<1> QED BY <1>1, <1>2 DEF Going, Gathered

\* A chunk that is there is read.
LEMMA RoundReads ==
  ASSUME NEW c \in Seq(Nat \ {0}), NEW s, SumsUp(s, c), NEW k \in Nat, NEW u, ChunksLie(u, c, s, k),
         NEW w \in Seq(Token), Agrees(w, u), NEW i \in Nat, i <= Len(c), Place(s, i) + SizeAt(c, i) + 2 <= Len(w)
  PROVE  NextChunk(w, Going(s, i, k)) =
           [ended |-> IF SizeAt(c, i) = 0 THEN "done" ELSE "more", body |-> Bytes(s[i] + SizeAt(c, i), k),
            at |-> Place(s, i) + SizeAt(c, i) + 3]
<1> DEFINE n == SizeAt(c, i)
           a == Place(s, i)
           r == Going(s, i, k)
           x == s[i]
<1>1. n \in Nat /\ a \in Nat /\ x \in Nat /\ Len(w) \in Nat /\ a + n + 2 <= Len(w)
  BY PlaceIs
<1>2. r \in Gathered /\ r.ended = "more" /\ r.at = a + 1 /\ r.body = Bytes(x, k)
  BY GoingIs
<1>3. a + n + 2 <= Len(u) /\ ChunkAt(u, a, n, k)
  <2>1. i \in 0 .. Len(c)
    OBVIOUS
  <2> QED BY <2>1 DEF ChunksLie, Place
<1>4. Len(u) \in Nat /\ \A j \in Nat : 1 <= j /\ j <= a + n + 2 => w[j] = u[j]
  <2>1. Len(u) \in Nat
    BY DEF ChunksLie
  <2>2. \A j \in Nat : 1 <= j /\ j <= a + n + 2 => j \in 1 .. Len(u) /\ j <= Len(w)
    BY <1>1, <1>3, <2>1
  <2> QED BY <2>1, <2>2 DEF Agrees
<1> HIDE DEF n, a, r, x
<1>5. w[a + 1] = Size(n) /\ w[a + n + 2] = BlankLine
  <2>1. u[a + 1] = Size(n) /\ u[a + n + 2] = BlankLine
    BY <1>3 DEF ChunkAt
  <2>2. w[a + 1] = u[a + 1] /\ w[a + n + 2] = u[a + n + 2]
    <3>1. a + 1 \in Nat /\ 1 <= a + 1 /\ a + 1 <= a + n + 2 /\ a + n + 2 \in Nat /\ 1 <= a + n + 2 /\ a + n + 2 <= a + n + 2
      BY <1>1
    <3> QED BY <3>1, <1>4
  <2> QED BY <2>1, <2>2
<1>6. ASSUME NEW m \in 1 .. n PROVE w[a + 1 + m] = Byte(k)
  <2>1. u[a + 1 + m] = Byte(k)
    BY <1>3 DEF ChunkAt
  <2>2. a + 1 + m \in Nat /\ 1 <= a + 1 + m /\ a + 1 + m <= a + n + 2
    BY <1>1
  <2> QED BY <2>1, <2>2, <1>4
<1> DEFINE p == r.at
           d == SubSeq(w, p + 1, p + n)
<1>7. /\ p \in Nat /\ p = a + 1 /\ p <= Len(w) /\ w[p].is = "size" /\ w[p].n = n /\ p + n + 1 <= Len(w)
      /\ w[p + n + 1] = BlankLine
  <2>1. p = a + 1 /\ p \in Nat /\ p <= Len(w) /\ p + n + 1 <= Len(w) /\ p + n + 1 = a + n + 2
    BY <1>1, <1>2
  <2>2. w[p] = Size(n) /\ w[p + n + 1] = BlankLine
    BY <2>1, <1>5
  <2> QED BY <2>1, <2>2, <1>1, TokensAre
<1>8. NextChunk(w, r) = [ended |-> IF n = 0 THEN "done" ELSE "more", body |-> r.body \o d, at |-> p + n + 2]
  BY <1>1, <1>2, <1>7, NextIsWhole
<1>9. d \in Seq(Token) /\ Len(d) = n /\ \A m \in 1 .. n : d[m] = Byte(k)
  <2> DEFINE b == p + n
  <2>1. b \in Nat /\ p <= b /\ b <= Len(w) /\ b - p = n /\ p \in Nat
    BY <1>1, <1>7
  <2> HIDE DEF p
  <2>2. b = p + n
    OBVIOUS
  <2> HIDE DEF b
  <2>3. /\ SubSeq(w, p + 1, b) \in Seq(Token) /\ Len(SubSeq(w, p + 1, b)) = n
        /\ \A m \in 1 .. n : SubSeq(w, p + 1, b)[m] = w[p + m]
    BY <2>1, PartIs
  <2>4. d = SubSeq(w, p + 1, b)
    BY <2>2
  <2> HIDE DEF d
  <2>5. ASSUME NEW m \in 1 .. n PROVE d[m] = Byte(k)
    <3>1. d[m] = w[p + m] /\ p + m = a + 1 + m
      BY <2>3, <2>4, <1>7
    <3> QED BY <3>1, <1>6
  <2> QED BY <2>3, <2>4, <2>5
<1>10. r.body \o d = Bytes(x + n, k)
  <2> HIDE DEF d
  <2>1. LongerBy(x, n, k, d)
    BY <1>1, <1>9, BytesJoin
  <2> QED BY <2>1, <1>2 DEF LongerBy
<1>11. p + n + 2 = a + n + 3
  BY <1>1, <1>7
<1>12. NextChunk(w, r) = [ended |-> IF n = 0 THEN "done" ELSE "more", body |-> Bytes(x + n, k), at |-> a + n + 3]
  BY <1>8, <1>10, <1>11
<1> QED BY <1>12 DEF n, a, r, x

\* One that is not is missed.
LEMMA RoundMisses ==
  ASSUME NEW c \in Seq(Nat \ {0}), NEW s, SumsUp(s, c), NEW k \in Nat, NEW u, ChunksLie(u, c, s, k),
         NEW w \in Seq(Token), Agrees(w, u), NEW i \in Nat, i <= Len(c), Place(s, i) + SizeAt(c, i) + 2 > Len(w)
  PROVE  NextChunk(w, Going(s, i, k)).ended = "short"
<1> DEFINE n == SizeAt(c, i)
           a == Place(s, i)
           r == Going(s, i, k)
<1>1. n \in Nat /\ a \in Nat /\ Len(w) \in Nat /\ a + n + 2 > Len(w)
  BY PlaceIs
<1>2. r \in Gathered /\ r.ended = "more" /\ r.at = a + 1
  BY GoingIs
<1>3. a + n + 2 <= Len(u) /\ ChunkAt(u, a, n, k) /\ Len(u) \in Nat
  <2>1. i \in 0 .. Len(c)
    OBVIOUS
  <2> QED BY <2>1 DEF ChunksLie, Place
<1> HIDE DEF n, a, r
<1>4. CASE a + 1 > Len(w)
  <2>1. r.at > Len(w)
    BY <1>2, <1>4
  <2>2. NextChunk(w, r).ended = "short"
    BY <2>1, <1>2, NextAtEnd
  <2> QED BY <2>2 DEF r
<1>5. CASE a + 1 <= Len(w)
  <2>1. a + 1 \in 1 .. Len(u)
    BY <1>1, <1>3
  <2>2. w[a + 1] = u[a + 1]
    BY <2>1, <1>5 DEF Agrees
  <2>3. w[a + 1] = Size(n)
    BY <2>2, <1>3 DEF ChunkAt
  <2>4. w[r.at].is = "size" /\ w[r.at].n = n /\ r.at <= Len(w)
    BY <2>3, <1>1, <1>2, <1>5, TokensAre
  <2>5. r.at + w[r.at].n + 1 > Len(w)
    BY <2>4, <1>1, <1>2
  <2>6. NextChunk(w, r).ended = "short"
    BY <2>4, <2>5, <1>2, NextCutShort
  <2> QED BY <2>6 DEF r
<1>6. a + 1 > Len(w) \/ a + 1 <= Len(w)
  BY <1>1
<1> QED BY <1>4, <1>5, <1>6

\* After i rounds: all that is there was read, or something was missed.
Rounds(a, w, i, c, s, k) ==
  \/ Place(s, i) <= Len(w) /\ a[i] = Going(s, i, k)
  \/ Place(s, i) > Len(w) /\ a[i].ended = "short"

LEMMA RoundsGoOn ==
  ASSUME NEW c \in Seq(Nat \ {0}), NEW s, SumsUp(s, c), NEW k \in Nat, NEW u, ChunksLie(u, c, s, k),
         NEW w \in Seq(Token), Agrees(w, u), NEW a, IsRead(a, w),
         NEW i \in Nat, i + 1 <= Len(c), i <= Len(w), Rounds(a, w, i, c, s, k)
  PROVE  Rounds(a, w, i + 1, c, s, k)
<1> DEFINE n == SizeAt(c, i)
           p == Place(s, i)
           q == Place(s, i + 1)
<1>1. i <= Len(c) /\ Len(w) \in Nat
  OBVIOUS
<1>2. s[i] \in Nat /\ p \in Nat /\ n \in Nat
  BY <1>1, PlaceIs
<1>3. s[i + 1] = s[i] + n /\ q = p + n + 2 /\ n # 0
  BY PlaceNext
<1>4. a[i + 1] = NextChunk(w, a[i])
  BY ReadStep
<1>5. CASE p <= Len(w) /\ a[i] = Going(s, i, k)
  <2>1. CASE p + n + 2 <= Len(w)
    <3>1. NextChunk(w, Going(s, i, k)) = [ended |-> IF n = 0 THEN "done" ELSE "more", body |-> Bytes(s[i] + n, k), at |-> p + n + 3]
      BY <1>1, <2>1, RoundReads
    <3>2. q + 1 = p + n + 3
      BY <1>2, <1>3
    <3>3. NextChunk(w, Going(s, i, k)) = [ended |-> "more", body |-> Bytes(s[i + 1], k), at |-> q + 1]
      <4> HIDE DEF n, p, q
      <4> QED BY <3>1, <3>2, <1>3
    <3>4. a[i + 1] = Going(s, i + 1, k)
      BY <3>3, <1>4, <1>5 DEF Going
    <3> QED BY <3>4, <1>3, <2>1 DEF Rounds
  <2>2. CASE p + n + 2 > Len(w)
    <3>1. NextChunk(w, Going(s, i, k)).ended = "short"
      BY <1>1, <2>2, RoundMisses
    <3> QED BY <3>1, <1>3, <1>4, <1>5, <2>2 DEF Rounds
  <2>3. p + n + 2 <= Len(w) \/ p + n + 2 > Len(w)
    BY <1>1, <1>2
  <2> QED BY <2>1, <2>2, <2>3
<1>6. CASE p > Len(w) /\ a[i].ended = "short"
  <2>1. a[i + 1] = a[i]
    BY <1>4, <1>6, NextStays
  <2>2. q > Len(w)
    BY <1>1, <1>2, <1>3, <1>6
  <2> QED BY <2>1, <2>2, <1>6 DEF Rounds
<1> QED BY <1>5, <1>6 DEF Rounds

LEMMA RoundsGo ==
  ASSUME NEW c \in Seq(Nat \ {0}), NEW s, SumsUp(s, c), NEW k \in Nat, NEW u, ChunksLie(u, c, s, k),
         NEW w \in Seq(Token), Agrees(w, u), NEW a, IsRead(a, w)
  PROVE  \A i \in Nat : i <= Len(c) /\ i <= Len(w) + 1 => Rounds(a, w, i, c, s, k)
<1> DEFINE S == {i \in Nat : i <= Len(c) /\ i <= Len(w) + 1 => Rounds(a, w, i, c, s, k)}
<1>1. 0 \in S
  <2>1. s[0] = 0
    <3>1. c \in Seq(Nat)
      OBVIOUS
    <3> QED BY <3>1, SumFacts
  <2>2. Place(s, 0) = 0
    BY <2>1 DEF Place
  <2>3. Bytes(0, k) = <<>>
    BY DEF Bytes
  <2>4. Going(s, 0, k) = Started
    BY <2>1, <2>2, <2>3 DEF Going, Started
  <2>5. a[0] = Started
    BY DEF IsRead
  <2>6. Len(w) \in Nat
    OBVIOUS
  <2>7. Rounds(a, w, 0, c, s, k)
    BY <2>2, <2>4, <2>5, <2>6 DEF Rounds
  <2> QED BY <2>7
<1>2. ASSUME NEW i \in Nat, i \in S PROVE i + 1 \in S
  <2> SUFFICES ASSUME i + 1 <= Len(c), i + 1 <= Len(w) + 1 PROVE Rounds(a, w, i + 1, c, s, k)
    OBVIOUS
  <2>1. i <= Len(c) /\ i <= Len(w) /\ i <= Len(w) + 1
    OBVIOUS
  <2>2. Rounds(a, w, i, c, s, k)
    BY <1>2, <2>1
  <2> QED BY <2>1, <2>2, RoundsGoOn
<1> HIDE DEF S
<1>3. Nat \subseteq S
  BY <1>1, <1>2, SetInduction
<1> QED BY <1>3 DEF S

LEMMA OutcomeIs ==
  ASSUME NEW r, NEW w
  PROVE  /\ Outcome(r, w).ended = r.ended /\ Outcome(r, w).body = r.body
         /\ r.ended = "done" => Outcome(r, w).rest = SubSeq(w, r.at, Len(w))
BY DEF Outcome

\* All of a chunked body is read, and nothing behind it; and a part of one never passes for it.
LEMMA ChunksRead ==
  ASSUME NEW c \in Seq(Nat \ {0}), NEW s, SumsUp(s, c), NEW k \in Nat, NEW u, ChunksLie(u, c, s, k),
         NEW w \in Seq(Token), Agrees(w, u)
  PROVE  /\ Len(w) < Len(u) => Chunks(w).ended = "short"
         /\ Len(w) >= Len(u) => /\ Chunks(w).ended = "done" /\ Chunks(w).body = Bytes(s[Len(c)], k)
                                /\ Chunks(w).rest = SubSeq(w, Len(u) + 1, Len(w))
<1> DEFINE N == Len(c)
           l == Len(w)
           p == Place(s, N)
<1>1. PICK a : IsRead(a, w) /\ Chunks(w) = Outcome(a[Len(w) + 1], w)
  BY ChunksIs
<1> DEFINE r == a[l + 1]
<1>2. /\ Chunks(w).ended = r.ended /\ Chunks(w).body = r.body
      /\ r.ended = "done" => Chunks(w).rest = SubSeq(w, r.at, Len(w))
  <2>1. Chunks(w) = Outcome(r, w)
    BY <1>1
  <2> HIDE DEF r
  <2> QED BY <2>1, OutcomeIs
<1>3. \A i \in Nat : i <= N /\ i <= l + 1 => Rounds(a, w, i, c, s, k)
  BY <1>1, RoundsGo
<1>4. N \in Nat /\ l \in Nat /\ N <= N
  OBVIOUS
<1>5. s[N] \in Nat /\ p \in Nat /\ N <= p /\ SizeAt(c, N) = 0
  BY <1>4, PlaceIs
<1>6. Len(u) = p + 2
  BY DEF ChunksLie, Place
<1>7. CASE l < p
  <2>1. CASE N <= l + 1
    <3>1. Rounds(a, w, N, c, s, k)
      BY <2>1, <1>3, <1>4
    <3>2. a[N].ended = "short"
      BY <3>1, <1>4, <1>5, <1>7 DEF Rounds
    <3>3. r = a[N]
      BY <3>2, <2>1, <1>1, <1>4, ReadStays
    <3> QED BY <3>2, <3>3, <1>2, <1>4, <1>5, <1>6, <1>7
  <2>2. CASE N > l + 1
    <3>1. Rounds(a, w, l + 1, c, s, k)
      <4>1. l + 1 \in Nat /\ l + 1 <= N /\ l + 1 <= l + 1
        BY <2>2, <1>4
      <4> QED BY <4>1, <1>3
    <3>2. l + 1 <= Place(s, l + 1) /\ Place(s, l + 1) \in Nat
      <4>1. l + 1 \in Nat /\ l + 1 <= Len(c)
        BY <2>2, <1>4
      <4> QED BY <4>1, PlaceIs
    <3>3. r.ended = "short"
      BY <3>1, <3>2, <1>4 DEF Rounds
    <3> QED BY <3>3, <1>2, <1>4, <1>5, <1>6, <1>7
  <2> QED BY <2>1, <2>2, <1>4
<1>8. CASE l >= p
  <2>1. N <= l /\ N <= l + 1
    BY <1>4, <1>5, <1>8
  <2>2. a[N] = Going(s, N, k)
    <3>1. Rounds(a, w, N, c, s, k)
      BY <2>1, <1>3, <1>4
    <3> QED BY <3>1, <1>4, <1>5, <1>8 DEF Rounds
  <2>3. a[N + 1] = NextChunk(w, Going(s, N, k))
    BY <2>1, <2>2, <1>1, <1>4, ReadStep
  <2>4. N + 1 \in Nat /\ N + 1 <= l + 1
    BY <2>1, <1>4
  <2>5. CASE l < p + 2
    <3>1. p + SizeAt(c, N) + 2 > l
      BY <2>5, <1>4, <1>5
    <3>2. NextChunk(w, Going(s, N, k)).ended = "short"
      BY <3>1, <1>4, RoundMisses
    <3>3. a[N + 1].ended = "short"
      BY <3>2, <2>3
    <3>4. r = a[N + 1]
      BY <3>3, <2>4, <1>1, ReadStays
    <3> QED BY <3>3, <3>4, <2>5, <1>2, <1>4, <1>5, <1>6
  <2>6. CASE l >= p + 2
    <3> DEFINE z == SizeAt(c, N)
    <3>1. p + z + 2 <= l
      BY <2>6, <1>4, <1>5
    <3>2. NextChunk(w, Going(s, N, k)) = [ended |-> IF z = 0 THEN "done" ELSE "more", body |-> Bytes(s[N] + z, k), at |-> p + z + 3]
      BY <3>1, <1>4, RoundReads
    <3>3. z = 0 /\ s[N] + z = s[N] /\ p + z + 3 = p + 3
      BY <1>5
    <3> HIDE DEF z
    <3>4. a[N + 1] = [ended |-> "done", body |-> Bytes(s[N], k), at |-> p + 3]
      BY <3>2, <3>3, <2>3
    <3>5. r = a[N + 1]
      <4>1. a[N + 1].ended # "more"
        BY <3>4
      <4> QED BY <4>1, <2>4, <1>1, ReadStays
    <3>6. r.ended = "done" /\ r.body = Bytes(s[N], k) /\ r.at = p + 3
      BY <3>4, <3>5
    <3>7. p + 3 = Len(u) + 1 /\ ~(l < Len(u))
      BY <2>6, <1>4, <1>5, <1>6
    <3> HIDE DEF r
    <3> QED BY <3>6, <3>7, <1>2
  <2> QED BY <2>5, <2>6, <1>4, <1>5
<1> QED BY <1>7, <1>8, <1>4, <1>5

-----------------------------------------------------------------------------
(* What is made of a body.                                                   *)

\* r is what becomes of w where t should lie, which stands for b.
Reads(r, w, t, b) ==
  /\ Len(w) < Len(t) => r.ended # "done"
  /\ Len(w) >= Len(t) => r.ended # "short"
  /\ r.ended = "done" => r.body = b /\ r.rest = SubSeq(w, Len(t) + 1, Len(w))

LEMMA TravelsIs ==
  ASSUME NEW shape \in Shape, NEW k \in Nat
  PROVE  /\ Travels(shape, k) \in Seq(Token) /\ Total(shape) \in Nat
         /\ shape.framing # "chunked" => Travels(shape, k) = Bytes(Total(shape), k)
         /\ shape.framing = "none" => Total(shape) = 0
<1>1. shape.chunks \in Seq(Nat \ {0}) /\ shape.chunks \in Seq(Nat) /\ (shape.framing = "none" => shape.chunks = <<>>)
  BY HttpAssumption
<1>2. PICK s : SumsUp(s, shape.chunks) /\ Total(shape) = s[Len(shape.chunks)] /\ Total(shape) \in Nat
  BY <1>1, TotalIs
<1>3. CASE shape.framing = "chunked"
  <2>1. ChunksLie(Travels(shape, k), shape.chunks, s, k)
    BY <1>1, <1>2, <1>3, TravelsInChunks
  <2> QED BY <2>1, <1>2, <1>3 DEF ChunksLie
<1>4. CASE shape.framing # "chunked"
  <2>1. Travels(shape, k) = Bytes(Total(shape), k)
    BY <1>4 DEF Travels, Body
  <2>2. shape.framing = "none" => Total(shape) = 0
    <3> SUFFICES ASSUME shape.framing = "none" PROVE Total(shape) = 0
      OBVIOUS
    <3>1. Len(shape.chunks) = 0
      BY <1>1
    <3>2. s[0] = 0
      BY <1>1, <1>2, SumFacts
    <3> QED BY <3>1, <3>2, <1>2
  <2> QED BY <2>1, <2>2, <1>2, BytesAre
<1> QED BY <1>3, <1>4

\* All of w where bytes should lie, or a part of them.
LEMMA PlainRead ==
  ASSUME NEW n \in Nat, NEW k \in Nat, NEW w \in Seq(Token), Agrees(w, Bytes(n, k)), Len(w) >= n
  PROVE  SubSeq(w, 1, n) = Bytes(n, k)
<1> DEFINE u == SubSeq(w, 1, n)
           v == Bytes(n, k)
<1>1. v \in Seq(Token) /\ Len(v) = n
  BY BytesAre
<1>2. u \in Seq(Token) /\ Len(u) = n
  OBVIOUS
<1>4. ASSUME NEW i \in 1 .. n PROVE u[i] = w[i]
  OBVIOUS
<1>3. \A i \in 1 .. n : w[i] = v[i]
  BY <1>1 DEF Agrees
<1> HIDE DEF u, v
<1>5. \A i \in 1 .. Len(u) : u[i] = v[i]
  BY <1>2, <1>3, <1>4
<1>6. u = v
  BY <1>1, <1>2, <1>5, SeqsAlike
<1> QED BY <1>6 DEF u, v

\* What the bytes come to before it is looked at how many they are.
Unlimited(framing, length, w) ==
  CASE framing = "none" -> [NoBytes EXCEPT !.rest = w]
    [] framing = "chunked" -> Chunks(w)
    [] framing = "length" /\ Len(w) < length -> [NoBytes EXCEPT !.ended = "short", !.body = w]
    [] OTHER -> [NoBytes EXCEPT !.body = SubSeq(w, 1, length), !.rest = SubSeq(w, length + 1, Len(w))]

Limited(r, framing, length) ==
  IF Len(r.body) > Cap \/ (framing = "length" /\ length > Cap) THEN [r EXCEPT !.ended = "large"] ELSE r

LEMMA ReadIs ==
  ASSUME NEW framing, NEW length, NEW w
  PROVE  ReadBody(framing, length, w) = Limited(Unlimited(framing, length, w), framing, length)
BY DEF ReadBody, Unlimited, Limited

\* What is too large is neither all nor a part.
LEMMA LimitKeeps ==
  ASSUME NEW r, "ended" \in DOMAIN r, NEW framing, NEW length, NEW w, NEW t, NEW b, Reads(r, w, t, b)
  PROVE  Reads(Limited(r, framing, length), w, t, b)
<1>1. [r EXCEPT !.ended = "large"].ended = "large"
  OBVIOUS
<1>2. CASE Len(r.body) > Cap \/ (framing = "length" /\ length > Cap)
  <2>1. Limited(r, framing, length).ended = "large"
    BY <1>1, <1>2 DEF Limited
  <2> QED BY <2>1 DEF Reads
<1>3. CASE ~(Len(r.body) > Cap \/ (framing = "length" /\ length > Cap))
  <2>1. Limited(r, framing, length) = r
    BY <1>3 DEF Limited
  <2> QED BY <2>1
<1> QED BY <1>2, <1>3

LEMMA BodyRead ==
  ASSUME NEW shape \in Shape, NEW k \in Nat, NEW w \in Seq(Token), Agrees(w, Travels(shape, k))
  PROVE  Reads(ReadBody(shape.framing, Total(shape), w), w, Travels(shape, k), Body(shape, k))
<1> DEFINE t == Travels(shape, k)
           b == Bytes(Total(shape), k)
           l == Total(shape)
           r == Unlimited(shape.framing, l, w)
<1>1. /\ t \in Seq(Token) /\ l \in Nat /\ Body(shape, k) = b
      /\ shape.framing # "chunked" => t = b
      /\ shape.framing = "none" => l = 0
  BY TravelsIs DEF Body
<1>2. b \in Seq(Token) /\ Len(b) = l
  BY <1>1, BytesAre
<1>3. shape.framing \in {"none", "length", "chunked"} /\ shape.chunks \in Seq(Nat \ {0}) /\ shape.chunks \in Seq(Nat)
  BY HttpAssumption
<1>4. Agrees(w, t) /\ Len(w) \in Nat
  OBVIOUS
<1> HIDE DEF t, b, l
<1>5. Reads(r, w, t, b)
  <2>1. CASE shape.framing = "none"
    <3>1. r.ended = "done" /\ r.body = <<>> /\ r.rest = w
      BY <2>1 DEF Unlimited, NoBytes
    <3>2. t = b /\ Len(t) = 0 /\ b = <<>>
      BY <2>1, <1>1, <1>2
    <3>3. SubSeq(w, 0 + 1, Len(w)) = w
      OBVIOUS
    <3> HIDE DEF r
    <3> QED BY <3>1, <3>2, <3>3, <1>4 DEF Reads
  <2>2. CASE shape.framing = "length" /\ Len(w) < l
    <3>1. r.ended = "short"
      BY <2>2 DEF Unlimited, NoBytes
    <3>2. Len(w) < Len(t) /\ ~(Len(w) >= Len(t))
      BY <2>2, <1>1, <1>2, <1>4
    <3> HIDE DEF r
    <3> QED BY <3>1, <3>2 DEF Reads
  <2>3. CASE shape.framing = "length" /\ Len(w) >= l
    <3>1. r.ended = "done" /\ r.body = SubSeq(w, 1, l) /\ r.rest = SubSeq(w, l + 1, Len(w))
      <4>1. ~(Len(w) < l)
        BY <2>3, <1>1, <1>4
      <4> QED BY <2>3, <4>1 DEF Unlimited, NoBytes
    <3>2. Len(t) = l /\ t = b
      BY <2>3, <1>1, <1>2
    <3>3. SubSeq(w, 1, l) = b
      <4>1. l \in Nat /\ Len(w) >= l /\ b = Bytes(l, k)
        BY <2>3, <1>1 DEF b, l
      <4>2. Agrees(w, Bytes(l, k))
        BY <4>1, <3>2, <1>4
      <4> QED BY <4>1, <4>2, PlainRead
    <3>4. ~(Len(w) < Len(t))
      BY <3>2, <2>3, <1>1, <1>4
    <3> HIDE DEF r
    <3> QED BY <3>1, <3>2, <3>3, <3>4 DEF Reads
  <2>4. CASE shape.framing = "chunked"
    <3>1. PICK s : SumsUp(s, shape.chunks) /\ Total(shape) = s[Len(shape.chunks)] /\ Total(shape) \in Nat
      BY <1>3, TotalIs
    <3>2. ChunksLie(t, shape.chunks, s, k)
      BY <2>4, <3>1, <1>3, TravelsInChunks DEF t
    <3>3. /\ Len(w) < Len(t) => Chunks(w).ended = "short"
          /\ Len(w) >= Len(t) => /\ Chunks(w).ended = "done" /\ Chunks(w).body = Bytes(s[Len(shape.chunks)], k)
                                /\ Chunks(w).rest = SubSeq(w, Len(t) + 1, Len(w))
      BY <3>1, <3>2, <1>3, <1>4, ChunksRead
    <3>4. r = Chunks(w)
      BY <2>4 DEF Unlimited
    <3>5. Bytes(s[Len(shape.chunks)], k) = b
      BY <3>1 DEF b, l
    <3>6. Len(t) \in Nat
      BY <1>1
    <3> HIDE DEF r
    <3> QED BY <3>3, <3>4, <3>5, <3>6, <1>4 DEF Reads
  <2> QED BY <2>1, <2>2, <2>3, <2>4, <1>1, <1>3, <1>4
<1>6. Reads(Limited(r, shape.framing, l), w, t, b)
  <2>1. "ended" \in DOMAIN r
    BY <1>3 DEF Unlimited, NoBytes, Chunks
  <2> HIDE DEF r
  <2> QED BY <1>5, <2>1, LimitKeeps
<1>7. ReadBody(shape.framing, l, w) = Limited(r, shape.framing, l)
  BY ReadIs
<1> HIDE DEF r
<1> QED BY <1>1, <1>6, <1>7 DEF t, b, l

-----------------------------------------------------------------------------
(* How what a client wrote lies on the wire.                                 *)

\* The request k begins at p, which is 0 when its head has been read, and t follows
\* as far as it was written.
Lies(w, p, k, t) ==
  /\ p <= Len(w)
  /\ p >= 1 => w[p] = Headline(k)
  /\ \A i \in 1 .. Len(t) : p + i <= Len(w) => w[p + i] = t[i]

LEMMA LiesShift ==
  ASSUME NEW w \in Seq(Token), NEW d \in Nat, d <= Len(w), NEW p \in Int, p >= d, NEW k, NEW t \in Seq(Token), Lies(w, p, k, t)
  PROVE  Lies(SubSeq(w, d + 1, Len(w)), p - d, k, t)
<1> DEFINE v == SubSeq(w, d + 1, Len(w))
           q == p - d
<1>1. v \in Seq(Token) /\ Len(v) = Len(w) - d
  OBVIOUS
<1>2. ASSUME NEW x \in 1 .. Len(w) - d PROVE v[x] = w[x + d]
  OBVIOUS
<1>3. q \in Int /\ q + d = p /\ Len(w) \in Nat /\ q >= 0
  OBVIOUS
<1> HIDE DEF v, q
<1>4. q <= Len(v)
  BY <1>1, <1>3 DEF Lies
<1>5. ASSUME q >= 1 PROVE v[q] = Headline(k)
  <2>1. q \in 1 .. Len(w) - d /\ p >= 1
    BY <1>1, <1>3, <1>4, <1>5
  <2> QED BY <2>1, <1>2, <1>3 DEF Lies
<1>6. ASSUME NEW i \in 1 .. Len(t), q + i <= Len(v) PROVE v[q + i] = t[i]
  <2>1. q + i \in 1 .. Len(w) - d /\ q + i + d = p + i /\ p + i <= Len(w)
    BY <1>1, <1>3, <1>6
  <2>2. v[q + i] = w[(q + i) + d]
    BY <2>1, <1>2
  <2>3. w[p + i] = t[i]
    BY <2>1 DEF Lies
  <2> QED BY <2>1, <2>2, <2>3
<1>7. Lies(v, q, k, t)
  BY <1>4, <1>5, <1>6 DEF Lies
<1> QED BY <1>7 DEF v, q

LEMMA LiesLonger ==
  ASSUME NEW w \in Seq(Token), NEW v \in Seq(Token), NEW p \in Nat, NEW k, NEW t \in Seq(Token), Lies(w, p, k, t),
         p + Len(t) <= Len(w)
  PROVE  Lies(w \o v, p, k, t)
<1> DEFINE e == w \o v
<1>1. e \in Seq(Token) /\ Joins(e, w, v)
  BY JoinsAre
<1>2. Len(w) \in Nat /\ Len(t) \in Nat /\ Len(v) \in Nat
  OBVIOUS
<1> HIDE DEF e
<1>3. Len(e) = Len(w) + Len(v) /\ \A i \in 1 .. Len(w) : e[i] = w[i]
  BY <1>1 DEF Joins
<1>4. p <= Len(e)
  BY <1>2, <1>3
<1>5. p >= 1 => e[p] = Headline(k)
  <2> SUFFICES ASSUME p >= 1 PROVE e[p] = Headline(k)
    OBVIOUS
  <2>1. p \in 1 .. Len(w)
    BY <1>2
  <2> QED BY <2>1, <1>3 DEF Lies
<1>6. ASSUME NEW i \in 1 .. Len(t) PROVE e[p + i] = t[i]
  <2>1. p + i \in 1 .. Len(w)
    BY <1>2
  <2>2. p + i <= Len(w)
    BY <2>1
  <2> QED BY <2>1, <2>2, <1>3 DEF Lies
<1>7. Lies(e, p, k, t)
  BY <1>4, <1>5, <1>6 DEF Lies
<1> QED BY <1>7 DEF e

\* What follows the head, or the head that was read.
LEMMA LiesRest ==
  ASSUME NEW w \in Seq(Token), NEW k, NEW t \in Seq(Token), NEW n \in 0 .. Len(t), Len(w) >= 1 => w[Len(w)] = Headline(k)
  PROVE  Lies(w \o SubSeq(t, 1, n), Len(w), k, t)
<1> DEFINE v == SubSeq(t, 1, n)
           e == w \o v
           p == Len(w)
<1>1. v \in Seq(Token) /\ Len(v) = n
  OBVIOUS
<1>2. ASSUME NEW i \in 1 .. n PROVE v[i] = t[i]
  OBVIOUS
<1>3. p \in Nat /\ n \in Nat /\ Len(t) \in Nat /\ n <= Len(t)
  OBVIOUS
<1> HIDE DEF v
<1>4. e \in Seq(Token) /\ Joins(e, w, v)
  BY <1>1, JoinsAre
<1> HIDE DEF e
<1>5. Len(e) = p + n /\ (\A i \in 1 .. p : e[i] = w[i]) /\ (\A i \in 1 .. n : e[p + i] = v[i])
  BY <1>1, <1>4 DEF Joins
<1>6. p <= Len(e)
  BY <1>3, <1>5
<1>7. p >= 1 => e[p] = Headline(k)
  <2> SUFFICES ASSUME p >= 1 PROVE e[p] = Headline(k)
    OBVIOUS
  <2>1. p \in 1 .. p
    BY <1>3
  <2> QED BY <2>1, <1>5
<1>8. ASSUME NEW i \in 1 .. Len(t), p + i <= Len(e) PROVE e[p + i] = t[i]
  <2>1. i \in 1 .. n
    BY <1>3, <1>5, <1>8
  <2> QED BY <2>1, <1>2, <1>5
<1>9. Lies(e, p, k, t)
  BY <1>6, <1>7, <1>8 DEF Lies
<1> QED BY <1>9 DEF e, v, p

\* The body of the request k among rs, as it travels.
Piece(rs, k) == Travels(rs[k], k)

\* The request k takes up a token, and the size of its body.
Spans(at, k, size) == at[k + 1] = at[k] + 1 + size

\* at is where on w the requests behind the first n begin.
LaidOut(at, w, n, rs) ==
  /\ at \in [Nat -> Int]
  /\ \A i, j \in n + 1 .. Len(rs) + 1 : i < j => at[i] < at[j]
  /\ \A j \in n + 1 .. Len(rs) : Spans(at, j, Len(Piece(rs, j))) /\ Lies(w, at[j], j, Piece(rs, j))
  /\ Len(w) < at[Len(rs) + 1]

LEMMA PieceTyped ==
  ASSUME NEW rs \in Seq(Shape), NEW j \in 1 .. Len(rs)
  PROVE  Piece(rs, j) \in Seq(Token) /\ Len(Piece(rs, j)) \in Nat /\ rs[j] \in Shape
<1>1. j \in Nat /\ rs[j] \in Shape
  OBVIOUS
<1>2. Travels(rs[j], j) \in Seq(Token)
  BY <1>1, TravelsIs
<1>3. Piece(rs, j) \in Seq(Token)
  BY <1>2 DEF Piece
<1> QED BY <1>1, <1>3

LEMMA LaidOutIs ==
  ASSUME NEW at, NEW w, NEW n, NEW rs, LaidOut(at, w, n, rs), NEW m, m = Len(rs)
  PROVE  /\ at \in [Nat -> Int] /\ Len(w) < at[m + 1]
         /\ \A i, j \in n + 1 .. m + 1 : i < j => at[i] < at[j]
         /\ \A j \in n + 1 .. m : Spans(at, j, Len(Piece(rs, j))) /\ Lies(w, at[j], j, Piece(rs, j))
BY DEF LaidOut

LEMMA IsLaidOut ==
  ASSUME NEW at, NEW w, NEW n, NEW rs, NEW m, m = Len(rs), at \in [Nat -> Int], Len(w) < at[m + 1],
         \A i, j \in n + 1 .. m + 1 : i < j => at[i] < at[j],
         \A j \in n + 1 .. m : Spans(at, j, Len(Piece(rs, j))) /\ Lies(w, at[j], j, Piece(rs, j))
  PROVE  LaidOut(at, w, n, rs)
BY DEF LaidOut

\* Each lies between the first of them and the end.
LEMMA LiesBetween ==
  ASSUME NEW at, NEW w, NEW n \in Nat, NEW rs \in Seq(Shape), LaidOut(at, w, n, rs), NEW m \in Nat, m = Len(rs),
         NEW j \in n + 1 .. m
  PROVE  /\ at[j] \in Int /\ at[n + 1] \in Int /\ at[m + 1] \in Int /\ at[n + 1] <= at[j]
         /\ Piece(rs, j) \in Seq(Token) /\ at[j] + 1 + Len(Piece(rs, j)) <= at[m + 1]
<1> DEFINE p == at[j]
           s == at[j + 1]
           x == Piece(rs, j)
           b == at[n + 1]
           c == at[m + 1]
<1>1. j \in Nat /\ j \in 1 .. m /\ n + 1 \in n + 1 .. m + 1 /\ j \in n + 1 .. m + 1 /\ j + 1 \in n + 1 .. m + 1
      /\ m + 1 \in n + 1 .. m + 1 /\ j + 1 \in Nat /\ m + 1 \in Nat /\ n + 1 \in Nat
  OBVIOUS
<1>2. at \in [Nat -> Int]
  BY LaidOutIs
<1>3. p \in Int /\ s \in Int /\ b \in Int /\ c \in Int
  BY <1>1, <1>2
<1>4. s = p + 1 + Len(x)
  <2>1. Spans(at, j, Len(Piece(rs, j)))
    BY LaidOutIs
  <2> QED BY <2>1 DEF Spans
<1>5. x \in Seq(Token) /\ Len(x) \in Nat
  BY <1>1, PieceTyped
<1>6. (n + 1 < j => b < p) /\ (j + 1 < m + 1 => s < c)
  BY <1>1, LaidOutIs
<1>7. (n + 1 = j => b = p) /\ (j + 1 = m + 1 => s = c)
  OBVIOUS
<1>8. (n + 1 < j \/ n + 1 = j) /\ (j + 1 < m + 1 \/ j + 1 = m + 1)
  OBVIOUS
<1> HIDE DEF p, s, x, b, c
<1>9. b <= p
  BY <1>3, <1>6, <1>7, <1>8
<1>10. s <= c
  BY <1>3, <1>6, <1>7, <1>8
<1>11. p + 1 + Len(x) <= c
  BY <1>4, <1>10
<1> QED BY <1>3, <1>5, <1>9, <1>11 DEF p, x, b, c

\* The places when d tokens were read.
Back(at, d) == [j \in Nat |-> at[j] - d]

LEMMA BackIs ==
  ASSUME NEW at \in [Nat -> Int], NEW d \in Nat
  PROVE  Back(at, d) \in [Nat -> Int] /\ \A j \in Nat : Back(at, d)[j] = at[j] - d /\ at[j] \in Int
<1>1. ASSUME NEW j \in Nat PROVE at[j] \in Int /\ at[j] - d \in Int
  <2> DEFINE p == at[j]
  <2>1. p \in Int
    OBVIOUS
  <2> HIDE DEF p
  <2> QED BY <2>1 DEF p
<1> QED BY <1>1 DEF Back

LEMMA LaidOutShifts ==
  ASSUME NEW at, NEW w \in Seq(Token), NEW n \in Nat, NEW rs \in Seq(Shape), LaidOut(at, w, n, rs),
         NEW d \in Nat, d <= Len(w), NEW e \in Nat, n <= e, e <= Len(rs), at[e + 1] >= d
  PROVE  LaidOut(Back(at, d), SubSeq(w, d + 1, Len(w)), e, rs)
<1> DEFINE v == SubSeq(w, d + 1, Len(w))
           to == Back(at, d)
           m == Len(rs)
           l == Len(w)
<1>1. m \in Nat /\ l \in Nat /\ e <= m /\ m = Len(rs) /\ l = Len(w) /\ d <= l
  OBVIOUS
<1>2. Len(v) = l - d
  OBVIOUS
<1> HIDE DEF m, l, v
<1>3. at \in [Nat -> Int] /\ l < at[m + 1]
  BY <1>1, LaidOutIs
<1>4. ASSUME NEW j \in Nat PROVE to[j] = at[j] - d /\ at[j] \in Int
  BY <1>3, BackIs
<1>5. to \in [Nat -> Int]
  BY <1>3, BackIs
<1> HIDE DEF to
<1>6. ASSUME NEW i \in e + 1 .. m + 1, NEW j \in e + 1 .. m + 1, i < j PROVE to[i] < to[j]
  <2>1. i \in n + 1 .. m + 1 /\ j \in n + 1 .. m + 1 /\ i \in Nat /\ j \in Nat
    BY <1>1
  <2>2. at[i] < at[j]
    BY <2>1, <1>1, <1>6, LaidOutIs
  <2>3. to[i] = at[i] - d /\ to[j] = at[j] - d /\ at[i] \in Int /\ at[j] \in Int
    BY <2>1, <1>4
  <2> QED BY <2>2, <2>3
<1>7. ASSUME NEW j \in e + 1 .. m PROVE Spans(to, j, Len(Piece(rs, j))) /\ Lies(v, to[j], j, Piece(rs, j))
  <2>1. j \in n + 1 .. m /\ j \in Nat /\ j + 1 \in Nat /\ j \in 1 .. m /\ j \in n + 1 .. m + 1 /\ e + 1 \in n + 1 .. m + 1
        /\ e + 1 \in Nat
    BY <1>1
  <2> DEFINE t == Piece(rs, j)
             p == at[j]
             s == at[j + 1]
             b == at[e + 1]
  <2>2. t \in Seq(Token) /\ Len(t) \in Nat
    BY <2>1, <1>1, PieceTyped
  <2>3. s = p + 1 + Len(t) /\ Lies(w, p, j, t)
    <3>1. Spans(at, j, Len(Piece(rs, j))) /\ Lies(w, at[j], j, Piece(rs, j))
      BY <2>1, <1>1, LaidOutIs
    <3> QED BY <3>1 DEF Spans
  <2>4. to[j] = p - d /\ to[j + 1] = s - d /\ p \in Int /\ s \in Int
    BY <2>1, <1>4
  <2>5. p >= d
    <3>1. e + 1 = j \/ e + 1 < j
      BY <1>1
    <3>2. e + 1 < j => b < p
      BY <2>1, <1>1, LaidOutIs
    <3>3. b >= d /\ b \in Int
      BY <2>1, <1>4
    <3>4. e + 1 = j => b = p
      OBVIOUS
    <3> HIDE DEF b, p
    <3> QED BY <3>1, <3>2, <3>3, <3>4, <2>4
  <2> HIDE DEF t, p, s
  <2>6. Lies(v, p - d, j, t)
    <3>1. Lies(SubSeq(w, d + 1, Len(w)), p - d, j, t)
      BY <2>2, <2>3, <2>4, <2>5, LiesShift
    <3> QED BY <3>1 DEF v
  <2>7. s - d = (p - d) + 1 + Len(t)
    BY <2>2, <2>3, <2>4
  <2>8. to[j + 1] = to[j] + 1 + Len(t)
    BY <2>4, <2>7
  <2>9. Spans(to, j, Len(t))
    BY <2>8 DEF Spans
  <2> QED BY <2>4, <2>6, <2>9 DEF t
<1>8. Len(v) < to[m + 1]
  <2> DEFINE c == at[m + 1]
  <2>1. to[m + 1] = c - d /\ c \in Int
    BY <1>1, <1>4
  <2>2. l < c
    BY <1>3
  <2> HIDE DEF c
  <2>3. l - d < c - d
    BY <2>1, <2>2, <1>1
  <2> QED BY <2>1, <2>3, <1>2
<1>9. LaidOut(to, v, e, rs)
  BY <1>1, <1>5, <1>6, <1>7, <1>8, IsLaidOut
<1> QED BY <1>9 DEF to, v, l

LEMMA OneLess ==
  ASSUME NEW p \in Int, NEW x \in Nat, NEW l \in Nat, p + 1 + x <= l + 1
  PROVE  p + x <= l
OBVIOUS

\* What is written behind a request that is all there leaves it as it is.
LEMMA LiesStays ==
  ASSUME NEW at, NEW w \in Seq(Token), NEW n \in Nat, NEW rs \in Seq(Shape), LaidOut(at, w, n, rs), NEW m \in Nat, m = Len(rs),
         at[n + 1] \in Nat, NEW v \in Seq(Token), NEW j \in n + 1 .. m, at[j] + Len(Piece(rs, j)) <= Len(w)
  PROVE  Lies(w \o v, at[j], j, Piece(rs, j))
<1> DEFINE p == at[j]
           x == Piece(rs, j)
           b == at[n + 1]
<1>1. p \in Int /\ b \in Nat /\ b <= p /\ x \in Seq(Token)
  BY LiesBetween
<1>2. Lies(w, p, j, x)
  BY LaidOutIs
<1>3. p + Len(x) <= Len(w)
  OBVIOUS
<1> HIDE DEF p, x, b
<1>4. p \in Nat
  BY <1>1
<1>5. Lies(w \o v, p, j, x)
  BY <1>1, <1>2, <1>3, <1>4, LiesLonger
<1> QED BY <1>5 DEF p, x

\* v is w, the head of k, and u of what follows it.
WrittenBehind(v, w, k, t, u) ==
  /\ v \in Seq(Token) /\ Len(v) = Len(w) + 1 + u /\ Lies(v, Len(w) + 1, k, t)
  /\ \E y \in Seq(Token) : v = w \o y

LEMMA Written ==
  ASSUME NEW w \in Seq(Token), NEW k \in Nat, NEW t \in Seq(Token), NEW u \in 0 .. Len(t),
         NEW v, v = Append(w, Headline(k)) \o SubSeq(t, 1, u)
  PROVE  WrittenBehind(v, w, k, t, u)
<1> DEFINE c == Headline(k)
           h == Append(w, c)
           z == SubSeq(t, 1, u)
           y == <<c>> \o z
<1>1. c \in Token
  BY TokensAre
<1> HIDE DEF c
<1>2. h \in Seq(Token) /\ Len(h) = Len(w) + 1 /\ h[Len(w) + 1] = c /\ h = w \o <<c>>
  BY <1>1
<1>3. z \in Seq(Token) /\ Len(z) = u /\ u \in Nat
  OBVIOUS
<1>4. Lies(h \o z, Len(h), k, t)
  <2>1. Len(h) >= 1 => h[Len(h)] = Headline(k)
    BY <1>2 DEF c
  <2> HIDE DEF h
  <2> QED BY <2>1, <1>2, LiesRest
<1> HIDE DEF h, z
<1>5. h \o z \in Seq(Token) /\ Joins(h \o z, h, z)
  BY <1>2, <1>3, JoinsAre
<1>6. Len(h \o z) = Len(w) + 1 + u
  BY <1>2, <1>3, <1>5 DEF Joins
<1>7. (w \o <<c>>) \o z = w \o y
  BY <1>1, <1>3
<1>8. y \in Seq(Token)
  BY <1>1, <1>3
<1> HIDE DEF y
<1>9. h \o z = w \o y
  BY <1>2, <1>7
<1>10. v = h \o z
  BY DEF h, z, c
<1>11. Lies(v, Len(w) + 1, k, t)
  BY <1>2, <1>4, <1>10
<1>12. Len(v) = Len(w) + 1 + u
  BY <1>6, <1>10
<1>13. v \in Seq(Token) /\ \E x \in Seq(Token) : v = w \o x
  BY <1>5, <1>8, <1>9, <1>10
<1> QED BY <1>11, <1>12, <1>13 DEF WrittenBehind

\* One more request, behind all of the others.
LEMMA LaidOutGrows ==
  ASSUME NEW at, NEW w \in Seq(Token), NEW n \in Nat, NEW rs \in Seq(Shape), LaidOut(at, w, n, rs), n <= Len(rs),
         NEW k \in Nat, k = Len(rs) + 1, at[n + 1] \in Nat, Len(w) = at[k] - 1,
         NEW shape \in Shape, NEW t, t = Travels(shape, k), NEW v, NEW u \in 0 .. Len(t), WrittenBehind(v, w, k, t, u)
  PROVE  LaidOut([at EXCEPT ![k + 1] = at[k] + 1 + Len(t)], v, n, Append(rs, shape))
<1> DEFINE qs == Append(rs, shape)
           m == Len(rs)
           l == Len(w)
           c == at[k]
           to == [at EXCEPT ![k + 1] = c + 1 + Len(t)]
<1>1. m \in Nat /\ k = m + 1 /\ m = Len(rs) /\ l \in Nat /\ l = Len(w) /\ n <= m
  OBVIOUS
<1>2. t \in Seq(Token) /\ Len(t) \in Nat /\ u \in Nat /\ u <= Len(t)
  <2>1. t \in Seq(Token)
    BY TravelsIs
  <2> QED BY <2>1
<1>20. v \in Seq(Token) /\ Len(v) = Len(w) + 1 + u /\ Lies(v, Len(w) + 1, k, t)
  BY DEF WrittenBehind
<1>21. PICK y \in Seq(Token) : v = w \o y
  BY DEF WrittenBehind
<1>3. qs \in Seq(Shape) /\ k = Len(qs) /\ qs[k] = shape
  BY <1>1
<1>4. ASSUME NEW j \in 1 .. m PROVE Piece(qs, j) = Piece(rs, j)
  <2>1. qs[j] = rs[j]
    OBVIOUS
  <2> QED BY <2>1 DEF Piece
<1>5. Piece(qs, k) = t
  BY <1>3 DEF Piece
<1> HIDE DEF qs, m, l
<1>6. at \in [Nat -> Int]
  BY LaidOutIs
<1>7. c = l + 1 /\ c \in Int
  <2>1. c \in Int
    BY <1>6
  <2>2. Len(w) = c - 1
    OBVIOUS
  <2> HIDE DEF c
  <2>3. l = c - 1
    BY <1>1, <2>2
  <2>4. l \in Nat
    BY <1>1
  <2> QED BY <2>1, <2>3, <2>4
<1>8. to[k + 1] = c + 1 + Len(t) /\ to \in [Nat -> Int]
  <2> HIDE DEF c
  <2>1. c + 1 + Len(t) \in Int
    <3> DEFINE x == Len(t)
    <3>1. x \in Nat
      BY <1>2
    <3> HIDE DEF x
    <3>2. c \in Int
      BY <1>7
    <3>3. c + 1 + x \in Int
      BY <3>1, <3>2
    <3> QED BY <3>3 DEF x
  <2>2. k + 1 \in Nat
    OBVIOUS
  <2>3. at \in [Nat -> Int]
    BY <1>6
  <2> DEFINE b == c + 1 + Len(t)
             i == k + 1
  <2> HIDE DEF b, i
  <2>4. [at EXCEPT ![i] = b][i] = b /\ [at EXCEPT ![i] = b] \in [Nat -> Int]
    <3>1. b \in Int /\ i \in Nat
      BY <2>1, <2>2 DEF b, i
    <3> QED BY <3>1, <2>3
  <2> QED BY <2>4 DEF b, i
<1>9. ASSUME NEW j \in Nat, j # k + 1 PROVE to[j] = at[j] /\ at[j] \in Int
  BY <1>6, <1>9
<1> HIDE DEF to, c
<1>10. ASSUME NEW j \in n + 1 .. m PROVE Lies(v, at[j], j, Piece(rs, j))
  <2> DEFINE p == at[j]
             x == Piece(rs, j)
  <2>1. p \in Int /\ x \in Seq(Token) /\ p + 1 + Len(x) <= c
    BY <1>1, LiesBetween DEF c
  <2> HIDE DEF p, x
  <2>2. p + Len(x) <= l
    <3>1. Len(x) \in Nat /\ l \in Nat /\ p + 1 + Len(x) <= l + 1
      BY <2>1, <1>1, <1>7
    <3> QED BY <3>1, <2>1, OneLess
  <2>3. Lies(w \o y, at[j], j, Piece(rs, j))
    BY <2>2, <1>1, LiesStays DEF p, x
  <2> QED BY <2>3, <1>21
<1>11. ASSUME NEW i \in n + 1 .. k + 1, NEW j \in n + 1 .. k + 1, i < j PROVE to[i] < to[j]
  <2> DEFINE a == at[i]
  <2>1. i \in Nat /\ j \in Nat /\ i # k + 1 /\ i \in n + 1 .. m + 1 /\ k \in n + 1 .. m + 1
    BY <1>1, <1>11
  <2>2. to[i] = a /\ a \in Int
    BY <2>1, <1>9
  <2>3. CASE j = k + 1
    <3>1. to[j] = c + 1 + Len(t)
      BY <2>3, <1>8
    <3>2. (i < k => a < c) /\ (i = k => a = c)
      BY <2>1, <1>1, LaidOutIs DEF c
    <3>3. i < k \/ i = k
      BY <2>1, <1>1
    <3>4. c \in Int
      BY <1>7
    <3> HIDE DEF a
    <3>5. a <= c
      BY <2>2, <3>2, <3>3, <3>4
    <3>6. a < c + 1 + Len(t)
      BY <2>2, <3>4, <3>5, <1>2
    <3> QED BY <2>2, <3>1, <3>6
  <2>4. CASE j # k + 1
    <3>1. j \in n + 1 .. m + 1
      BY <2>1, <2>4, <1>1
    <3>2. to[j] = at[j]
      BY <2>1, <2>4, <1>9
    <3>3. at[i] < at[j]
      BY <2>1, <3>1, <1>1, <1>11, LaidOutIs
    <3> QED BY <2>2, <3>2, <3>3
  <2> QED BY <2>3, <2>4
<1>12. ASSUME NEW j \in n + 1 .. k PROVE Spans(to, j, Len(Piece(qs, j))) /\ Lies(v, to[j], j, Piece(qs, j))
  <2>1. j \in Nat /\ j # k + 1 /\ j + 1 \in Nat
    BY <1>1
  <2>2. to[j] = at[j]
    BY <2>1, <1>9
  <2>3. CASE j = k
    <3>1. Piece(qs, j) = t /\ to[j] = c
      BY <2>2, <2>3, <1>5 DEF c
    <3>2. Lies(v, c, k, t)
      BY <1>20, <1>1, <1>7
    <3>3. to[j + 1] = to[j] + 1 + Len(t)
      BY <2>3, <3>1, <1>8
    <3> QED BY <2>3, <3>1, <3>2, <3>3 DEF Spans
  <2>4. CASE j # k
    <3>1. j \in n + 1 .. m /\ j \in 1 .. m /\ j + 1 # k + 1
      BY <2>1, <2>4, <1>1
    <3>2. to[j + 1] = at[j + 1] /\ Piece(qs, j) = Piece(rs, j)
      <4>1. to[j + 1] = at[j + 1]
        BY <2>1, <3>1, <1>9
      <4>2. Piece(qs, j) = Piece(rs, j)
        BY <3>1, <1>4
      <4> QED BY <4>1, <4>2
    <3>3. Spans(at, j, Len(Piece(rs, j)))
      BY <3>1, <1>1, LaidOutIs
    <3>4. Spans(to, j, Len(Piece(rs, j)))
      BY <2>2, <3>2, <3>3 DEF Spans
    <3> QED BY <2>2, <3>1, <3>2, <3>4, <1>10
  <2> QED BY <2>3, <2>4
<1>13. Len(v) < to[k + 1]
  <2> DEFINE x == Len(t)
             y1 == Len(v)
  <2>1. x \in Nat /\ u <= x /\ u \in Nat /\ y1 = l + 1 + u /\ l \in Nat
    BY <1>20, <1>1, <1>2
  <2>2. to[k + 1] = (l + 1) + 1 + x
    BY <1>7, <1>8
  <2> HIDE DEF x, y1
  <2>3. y1 < (l + 1) + 1 + x
    BY <2>1
  <2> QED BY <2>2, <2>3 DEF y1
<1>14. LaidOut(to, v, n, qs)
  BY <1>3, <1>8, <1>11, <1>12, <1>13, IsLaidOut
<1> QED BY <1>14 DEF to, qs, c

\* The body of the last of them follows its head.
LEMMA LaidOutFollows ==
  ASSUME NEW at, NEW w \in Seq(Token), NEW n \in Nat, NEW rs \in Seq(Shape), LaidOut(at, w, n, rs), n < Len(rs),
         NEW m \in Nat, m = Len(rs), at[n + 1] \in Nat, Len(w) = at[m], NEW u \in 0 .. Len(Piece(rs, m))
  PROVE  /\ LaidOut(at, w \o SubSeq(Piece(rs, m), 1, u), n, rs)
         /\ Spans(at, m, Len(Piece(rs, m)))
<1> DEFINE t == Piece(rs, m)
           z == SubSeq(t, 1, u)
           v == w \o z
           l == Len(w)
           c == at[m + 1]
<1>1. m \in 1 .. m /\ m \in n + 1 .. m /\ l \in Nat /\ l = Len(w)
  OBVIOUS
<1>2. t \in Seq(Token) /\ Len(t) \in Nat
  BY <1>1, PieceTyped
<1>3. u \in 0 .. Len(t)
  OBVIOUS
<1> HIDE DEF t
<1>4. z \in Seq(Token) /\ Len(z) = u /\ u \in Nat /\ u <= Len(t)
  BY <1>2, <1>3
<1>5. Lies(w, at[m], m, t) /\ at[m] = l /\ c = l + 1 + Len(t)
  <2>9. Spans(at, m, Len(Piece(rs, m))) /\ Lies(w, at[m], m, Piece(rs, m))
    BY <1>1, LaidOutIs
  <2>1. at[m + 1] = at[m] + 1 + Len(Piece(rs, m)) /\ Lies(w, at[m], m, Piece(rs, m))
    BY <2>9 DEF Spans
  <2>2. at[m] = l
    OBVIOUS
  <2> HIDE DEF l
  <2> QED BY <2>1, <2>2 DEF t
<1> HIDE DEF l, c
<1>6. Lies(v, l, m, t)
  <2>1. Len(w) >= 1 => w[Len(w)] = Headline(m)
    BY <1>1, <1>5 DEF Lies
  <2> QED BY <2>1, <1>1, <1>2, <1>3, LiesRest
<1>7. v \in Seq(Token) /\ Len(v) = l + u
  <2> HIDE DEF z
  <2>1. v \in Seq(Token) /\ Joins(v, w, z)
    BY <1>4, JoinsAre
  <2> HIDE DEF v
  <2> QED BY <2>1, <1>1, <1>4 DEF Joins
<1>8. ASSUME NEW j \in n + 1 .. m PROVE Lies(v, at[j], j, Piece(rs, j))
  <2>1. CASE j = m
    BY <2>1, <1>5, <1>6 DEF t
  <2>2. CASE j # m
    <3> DEFINE p == at[j]
               x == Piece(rs, j)
               s == at[j + 1]
               q == at[m]
    <3>1. p \in Int /\ x \in Seq(Token)
      BY LiesBetween
    <3>2. s = p + 1 + Len(x)
      <4>1. Spans(at, j, Len(Piece(rs, j)))
        BY LaidOutIs
      <4> QED BY <4>1 DEF Spans
    <3>3. j + 1 \in n + 1 .. m + 1 /\ m \in n + 1 .. m + 1 /\ j + 1 \in Nat /\ (j + 1 < m \/ j + 1 = m)
      BY <2>2, <1>1
    <3>4. (j + 1 < m => s < q) /\ (j + 1 = m => s = q)
      BY <3>3, LaidOutIs
    <3>5. q = l
      BY <1>5
    <3> HIDE DEF p, x, s, q
    <3>6. p + Len(x) <= l
      <4>1. Len(x) \in Nat
        BY <3>1
      <4>2. l \in Nat
        BY <1>1
      <4>3. s <= q
        <5>1. s \in Int
          BY <3>1, <3>2, <4>1
        <5> QED BY <3>3, <3>4, <5>1, <3>5, <4>2
      <4>4. p + 1 + Len(x) <= l + 1
        BY <3>1, <3>2, <3>5, <4>1, <4>2, <4>3
      <4> QED BY <3>1, <4>1, <4>2, <4>4, OneLess
    <3> HIDE DEF z
    <3> QED BY <3>6, <1>1, <1>4, LiesStays DEF p, x
  <2> QED BY <2>1, <2>2
<1>9. Len(v) < c
  BY <1>1, <1>2, <1>4, <1>5, <1>7
<1> HIDE DEF v
<1>10. at \in [Nat -> Int] /\ \A i, j \in n + 1 .. m + 1 : i < j => at[i] < at[j]
  BY LaidOutIs
<1>11. ASSUME NEW j \in n + 1 .. m PROVE Spans(at, j, Len(Piece(rs, j)))
  BY LaidOutIs
<1>12. LaidOut(at, v, n, rs)
  BY <1>8, <1>9, <1>10, <1>11, IsLaidOut DEF c
<1>13. Spans(at, m, Len(t))
  BY <1>1, LaidOutIs DEF t
<1> QED BY <1>1, <1>7, <1>12, <1>13 DEF v, z, t

\* Up to where k begins all is on the wire.
AllThere(at, w, k) == Len(w) = at[k] - 1

\* All but the body that is withheld.
AllBut(at, w, rs, body) ==
  Len(w) = at[Len(rs)] /\ body = Piece(rs, Len(rs))

\* What the client has written and the server not read, when n requests are behind it.
Flows(at, w, n, rs, first, op, body) ==
  /\ w \in Seq(Token) /\ LaidOut(at, w, n, rs) /\ at[n + 1] = first
  /\ body # <<>> => n < Len(rs) /\ AllBut(at, w, rs, body)
  /\ (op /\ body = <<>>) => AllThere(at, w, Len(rs) + 1)

LEMMA FlowsSend ==
  ASSUME NEW at, NEW w, NEW n \in Nat, NEW rs \in Seq(Shape), n <= Len(rs), NEW first \in Nat,
         Flows(at, w, n, rs, first, TRUE, <<>>), NEW shape \in Shape, NEW k \in Nat, k = Len(rs) + 1,
         NEW t, t = Travels(shape, k), NEW u \in 0 .. Len(t), NEW op, NEW body,
         body # <<>> => body = t /\ u = 0, op /\ body = <<>> => u = Len(t)
  PROVE  \E to : Flows(to, Append(w, Headline(k)) \o SubSeq(t, 1, u), n, Append(rs, shape), first, op, body)
<1> DEFINE qs == Append(rs, shape)
           v == Append(w, Headline(k)) \o SubSeq(t, 1, u)
           l == Len(w)
           c == at[k]
           to == [at EXCEPT ![k + 1] = at[k] + 1 + Len(t)]
<1>1. w \in Seq(Token) /\ LaidOut(at, w, n, rs) /\ at[n + 1] = first /\ l = c - 1 /\ l \in Nat
  BY DEF Flows, AllThere
<1>2. t \in Seq(Token) /\ Len(t) \in Nat /\ u \in Nat /\ u <= Len(t)
  <2>1. t \in Seq(Token)
    BY TravelsIs
  <2> QED BY <2>1
<1>3. at \in [Nat -> Int] /\ c \in Int
  <2>1. at \in [Nat -> Int]
    BY <1>1, LaidOutIs
  <2> QED BY <2>1
<1>4. WrittenBehind(v, w, k, t, u)
  <2>1. v = Append(w, Headline(k)) \o SubSeq(t, 1, u) /\ u \in 0 .. Len(t)
    OBVIOUS
  <2> HIDE DEF v
  <2> QED BY <2>1, <1>1, <1>2, Written
<1>5. v \in Seq(Token) /\ Len(v) = l + 1 + u
  <2> HIDE DEF v
  <2> QED BY <1>4 DEF WrittenBehind
<1> HIDE DEF v
<1>6. LaidOut(to, v, n, qs)
  <2>1. at[n + 1] \in Nat /\ Len(w) = at[k] - 1
    BY <1>1
  <2> HIDE DEF l
  <2> QED BY <2>1, <1>1, <1>2, <1>4, LaidOutGrows
<1>7. qs \in Seq(Shape) /\ Len(qs) = k /\ qs[k] = shape /\ n < k
  OBVIOUS
<1>8. Piece(qs, k) = t
  BY <1>7 DEF Piece
<1>9. to[n + 1] = first /\ to[k] = c /\ to[k + 1] = c + 1 + Len(t)
  <2>1. n + 1 \in Nat /\ n + 1 # k + 1 /\ k # k + 1 /\ k + 1 \in Nat
    OBVIOUS
  <2> QED BY <2>1, <1>1, <1>3
<1> HIDE DEF qs, to, l, c
<1>10. ASSUME body # <<>> PROVE n < Len(qs) /\ AllBut(to, v, qs, body)
  <2>1. Len(v) = c
    BY <1>1, <1>2, <1>3, <1>5, <1>10
  <2> QED BY <2>1, <1>7, <1>8, <1>9, <1>10 DEF AllBut
<1>11. ASSUME op, body = <<>> PROVE AllThere(to, v, Len(qs) + 1)
  <2>1. Len(v) = (c + 1 + Len(t)) - 1
    <3>1. u = Len(t)
      BY <1>11
    <3> QED BY <3>1, <1>1, <1>2, <1>3, <1>5
  <2> QED BY <2>1, <1>7, <1>9 DEF AllThere
<1>12. Flows(to, v, n, qs, first, op, body)
  BY <1>5, <1>6, <1>9, <1>10, <1>11 DEF Flows
<1> QED BY <1>12 DEF qs, v

LEMMA FlowsRest ==
  ASSUME NEW at, NEW w, NEW n \in Nat, NEW rs \in Seq(Shape), NEW first \in Nat, NEW op, NEW body,
         Flows(at, w, n, rs, first, op, body), body # <<>>, NEW u \in 1 .. Len(body)
  PROVE  Flows(at, w \o SubSeq(body, 1, u), n, rs, first, u = Len(body), <<>>)
<1> DEFINE m == Len(rs)
           v == w \o SubSeq(body, 1, u)
           l == Len(w)
           c == at[m + 1]
<1>1. w \in Seq(Token) /\ LaidOut(at, w, n, rs) /\ at[n + 1] = first /\ n < m /\ l = at[m] /\ body = Piece(rs, m)
  BY DEF Flows, AllBut
<1>2. m \in Nat /\ m = Len(rs) /\ l = Len(w) /\ l \in Nat /\ m \in 1 .. m
  BY <1>1
<1>3. body \in Seq(Token)
  BY <1>1, <1>2, PieceTyped
<1>4. u \in 0 .. Len(body) /\ u \in Nat
  BY <1>3
<1> HIDE DEF m, l
<1>5. LaidOut(at, v, n, rs) /\ c = l + 1 + Len(body)
  <2> HIDE DEF v, c
  <2>1. LaidOut(at, w \o SubSeq(Piece(rs, m), 1, u), n, rs) /\ Spans(at, m, Len(Piece(rs, m)))
    <3>1. n < Len(rs) /\ at[n + 1] \in Nat /\ Len(w) = at[m]
      BY <1>1, <1>2
    <3>2. u \in 0 .. Len(Piece(rs, m))
      BY <1>1, <1>4
    <3> QED BY <3>1, <3>2, <1>1, <1>2, LaidOutFollows
  <2>2. at[m + 1] = l + 1 + Len(body)
    BY <2>1, <1>1 DEF Spans
  <2> QED BY <2>1, <2>2, <1>1, <1>2 DEF v, c
<1>6. v \in Seq(Token) /\ Len(v) = l + u
  <2> DEFINE z == SubSeq(body, 1, u)
  <2>1. z \in Seq(Token) /\ Len(z) = u
    BY <1>3, <1>4
  <2> HIDE DEF z
  <2>2. w \in Seq(Token)
    BY <1>1
  <2>3. w \o z \in Seq(Token) /\ Len(w \o z) = Len(w) + u
    BY <2>1, <2>2
  <2> QED BY <2>3, <1>2 DEF z
<1> HIDE DEF v, c
<1>7. ASSUME u = Len(body) PROVE AllThere(at, v, m + 1)
  <2>1. Len(v) = c - 1
    BY <1>2, <1>4, <1>5, <1>6, <1>7
  <2> QED BY <2>1 DEF AllThere, c
<1> QED BY <1>1, <1>2, <1>5, <1>6, <1>7 DEF Flows, v

LEMMA FlowsHead ==
  ASSUME NEW at, NEW w, NEW n \in Nat, NEW rs \in Seq(Shape), n <= Len(rs), NEW op, NEW body,
         Flows(at, w, n, rs, 1, op, body), w # <<>>
  PROVE  n < Len(rs) /\ w[1] = Headline(n + 1) /\ \E to : Flows(to, Tail(w), n, rs, 0, op, body)
<1> DEFINE m == Len(rs)
           v == Tail(w)
           l == Len(w)
           to == Back(at, 1)
<1>1. w \in Seq(Token) /\ LaidOut(at, w, n, rs) /\ at[n + 1] = 1 /\ (body # <<>> => n < m /\ AllBut(at, w, rs, body))
      /\ ((op /\ body = <<>>) => AllThere(at, w, m + 1))
  BY DEF Flows
<1>2. m \in Nat /\ m = Len(rs) /\ l = Len(w) /\ l \in Nat /\ 1 <= l
  BY <1>1
<1>3. at \in [Nat -> Int] /\ l < at[m + 1]
  BY <1>1, <1>2, LaidOutIs
<1>4. n < m
  <2>1. n = m => at[m + 1] = 1
    BY <1>1
  <2> HIDE DEF m, l
  <2> QED BY <2>1, <1>2, <1>3
<1>5. w[1] = Headline(n + 1)
  <2>1. n + 1 \in n + 1 .. m
    BY <1>2, <1>4
  <2>2. Lies(w, at[n + 1], n + 1, Piece(rs, n + 1))
    BY <2>1, <1>1, <1>2, LaidOutIs
  <2>3. Lies(w, 1, n + 1, Piece(rs, n + 1))
    BY <2>2, <1>1
  <2> QED BY <2>3 DEF Lies
<1>6. v = SubSeq(w, 1 + 1, Len(w)) /\ v \in Seq(Token) /\ Len(v) = l - 1
  BY <1>1, <1>2
<1>7. LaidOut(to, v, n, rs)
  <2>1. 1 \in Nat /\ 1 <= Len(w) /\ n <= n /\ at[n + 1] >= 1
    BY <1>1, <1>2
  <2>2. LaidOut(Back(at, 1), SubSeq(w, 1 + 1, Len(w)), n, rs)
    BY <2>1, <1>1, LaidOutShifts
  <2> HIDE DEF v
  <2> QED BY <2>2, <1>6
<1> HIDE DEF v, l, m
<1>8. ASSUME NEW j \in Nat PROVE to[j] = at[j] - 1 /\ at[j] \in Int
  BY <1>3, BackIs
<1> HIDE DEF to
<1>9. to[n + 1] = 0
  <2>1. n + 1 \in Nat
    OBVIOUS
  <2> QED BY <2>1, <1>1, <1>8
<1>10. ASSUME AllBut(at, w, rs, body) PROVE AllBut(to, v, rs, body)
  <2>1. l = at[m] /\ body = Piece(rs, m)
    BY <1>2, <1>10 DEF AllBut
  <2>2. Len(v) = to[m]
    BY <2>1, <1>2, <1>6, <1>8
  <2> QED BY <2>1, <2>2, <1>2 DEF AllBut
<1>11. ASSUME AllThere(at, w, m + 1) PROVE AllThere(to, v, m + 1)
  <2> DEFINE c == at[m + 1]
  <2>1. l = c - 1
    BY <1>2, <1>11 DEF AllThere
  <2>2. to[m + 1] = c - 1 /\ c \in Int
    <3>1. m + 1 \in Nat
      BY <1>2
    <3> QED BY <3>1, <1>8
  <2> HIDE DEF c
  <2>3. Len(v) = to[m + 1] - 1
    BY <2>1, <2>2, <1>2, <1>6
  <2> QED BY <2>3 DEF AllThere
<1>12. Flows(to, v, n, rs, 0, op, body)
  BY <1>1, <1>2, <1>6, <1>7, <1>9, <1>10, <1>11 DEF Flows
<1> QED BY <1>2, <1>4, <1>5, <1>12 DEF v

LEMMA FlowsAgrees ==
  ASSUME NEW at, NEW w, NEW n \in Nat, NEW rs \in Seq(Shape), n < Len(rs), NEW op, NEW body,
         Flows(at, w, n, rs, 0, op, body)
  PROVE  /\ w \in Seq(Token) /\ Agrees(w, Piece(rs, n + 1)) /\ Piece(rs, n + 1) \in Seq(Token) /\ at[n + 2] = 1 + Len(Piece(rs, n + 1))
         /\ (op /\ body = <<>>) => Len(Piece(rs, n + 1)) <= Len(w)
<1> DEFINE m == Len(rs)
           k == n + 1
           t == Piece(rs, k)
           c == at[m + 1]
           l == Len(w)
<1>1. w \in Seq(Token) /\ LaidOut(at, w, n, rs) /\ at[k] = 0 /\ ((op /\ body = <<>>) => AllThere(at, w, m + 1))
  BY DEF Flows
<1>2. m \in Nat /\ m = Len(rs) /\ k \in n + 1 .. m /\ k \in 1 .. m /\ k + 1 = n + 2 /\ l \in Nat
  BY <1>1
<1>3. t \in Seq(Token) /\ Len(t) \in Nat
  BY <1>2, PieceTyped
<1>4. Spans(at, k, Len(t)) /\ Lies(w, at[k], k, t)
  BY <1>1, <1>2, LaidOutIs
<1>5. at[k] \in Int /\ c \in Int /\ at[k] + 1 + Len(t) <= c
  BY <1>1, <1>2, LiesBetween
<1> HIDE DEF t, c, m, l, k
<1>6. at[n + 2] = 1 + Len(t)
  <2>1. at[k + 1] = 0 + 1 + Len(t)
    BY <1>1, <1>4 DEF Spans
  <2> QED BY <2>1, <1>2, <1>3
<1>7. Agrees(w, t)
  <2>1. Lies(w, 0, k, t)
    BY <1>1, <1>4
  <2>2. ASSUME NEW i \in 1 .. Len(t), i <= Len(w) PROVE w[i] = t[i]
    <3>1. i \in Nat /\ 0 + i = i
      BY <1>3
    <3> QED BY <2>1, <2>2, <3>1 DEF Lies
  <2> QED BY <2>2 DEF Agrees
<1>8. ASSUME op, body = <<>> PROVE Len(t) <= Len(w)
  <2>1. AllThere(at, w, m + 1)
    BY <1>1, <1>8
  <2>2. Len(w) = c - 1
    BY <2>1 DEF AllThere, c
  <2>3. 0 + 1 + Len(t) <= c
    BY <1>1, <1>5
  <2> QED BY <2>2, <2>3, <1>3, <1>5
<1> QED BY <1>1, <1>3, <1>6, <1>7, <1>8 DEF t, k

LEMMA RestIs ==
  ASSUME NEW w \in Seq(Token), NEW d \in Nat, d <= Len(w)
  PROVE  SubSeq(w, d + 1, Len(w)) \in Seq(Token) /\ Len(SubSeq(w, d + 1, Len(w))) = Len(w) - d
OBVIOUS

\* The body of the first of them is read to its end.
LEMMA FlowsBody ==
  ASSUME NEW at, NEW w, NEW n \in Nat, NEW rs \in Seq(Shape), n < Len(rs), NEW op, NEW body,
         Flows(at, w, n, rs, 0, op, body), NEW d, d = Len(Piece(rs, n + 1)), d <= Len(w)
  PROVE  \E to : Flows(to, SubSeq(w, d + 1, Len(w)), n + 1, rs, 1, op, body)
<1> DEFINE m == Len(rs)
           v == SubSeq(w, d + 1, Len(w))
           l == Len(w)
           e == n + 1
           to == Back(at, d)
<1>1. w \in Seq(Token) /\ LaidOut(at, w, n, rs) /\ at[e] = 0 /\ (body # <<>> => n < m /\ AllBut(at, w, rs, body))
      /\ ((op /\ body = <<>>) => AllThere(at, w, m + 1))
  BY DEF Flows
<1>2. m \in Nat /\ m = Len(rs) /\ l = Len(w) /\ l \in Nat /\ e \in Nat /\ n <= e /\ e <= m /\ d <= l
  BY <1>1
<1>3. at \in [Nat -> Int]
  BY <1>1, LaidOutIs
<1>4. Piece(rs, e) \in Seq(Token) /\ d \in Nat /\ at[e + 1] = 1 + d
  <2>1. Piece(rs, n + 1) \in Seq(Token) /\ at[n + 2] = 1 + Len(Piece(rs, n + 1))
    BY FlowsAgrees
  <2>2. (n + 1) + 1 = n + 2
    OBVIOUS
  <2> DEFINE x == Piece(rs, n + 1)
  <2>3. d = Len(x) /\ x \in Seq(Token)
    BY <2>1
  <2>4. at[n + 2] = 1 + d
    BY <2>1
  <2>5. Piece(rs, e) = x /\ e + 1 = n + 2
    BY <2>2
  <2> HIDE DEF x, e
  <2>6. d \in Nat
    BY <2>3
  <2> QED BY <2>2, <2>3, <2>4, <2>5, <2>6
<1>5. v \in Seq(Token) /\ Len(v) = l - d
  <2>1. w \in Seq(Token) /\ d \in Nat
    BY <1>1, <1>4
  <2> QED BY <2>1, RestIs
<1>6. LaidOut(to, v, e, rs)
  <2>1. d <= Len(w) /\ at[e + 1] >= d
    <3> HIDE DEF e
    <3>1. at[e + 1] >= d
      BY <1>4
    <3> QED BY <3>1
  <2>2. e \in Nat /\ n <= e /\ e <= Len(rs)
    BY <1>2
  <2>3. w \in Seq(Token) /\ LaidOut(at, w, n, rs) /\ d \in Nat
    BY <1>1, <1>4
  <2> HIDE DEF m, l, e
  <2> QED BY <2>1, <2>2, <2>3, LaidOutShifts
<1>7. ASSUME NEW j \in Nat PROVE to[j] = at[j] - d /\ at[j] \in Int
  BY <1>3, <1>4, BackIs
<1> HIDE DEF v, l, m, to
<1>8. to[e + 1] = 1
  <2>1. e + 1 \in Nat
    BY <1>2
  <2> HIDE DEF e
  <2>2. to[e + 1] = (1 + d) - d
    BY <2>1, <1>4, <1>7
  <2> QED BY <2>2, <1>4
<1>9. ASSUME body # <<>> PROVE e < m /\ AllBut(to, v, rs, body)
  <2>1. l = at[m] /\ body = Piece(rs, m)
    BY <1>1, <1>2, <1>9 DEF AllBut
  <2>2. e < m
    <3> SUFFICES ASSUME e = m PROVE FALSE
      BY <1>2
    <3>1. l = 0 /\ body = Piece(rs, e)
      BY <2>1, <1>1
    <3>2. d = 0
      BY <3>1, <1>2, <1>4
    <3>3. Piece(rs, e) = <<>>
      BY <3>2, <1>4
    <3> QED BY <3>1, <3>3, <1>9
  <2>3. Len(v) = to[m]
    BY <2>1, <1>2, <1>5, <1>7
  <2> QED BY <2>1, <2>2, <2>3, <1>2 DEF AllBut
<1>10. ASSUME AllThere(at, w, m + 1) PROVE AllThere(to, v, m + 1)
  <2> DEFINE c == at[m + 1]
  <2>1. l = c - 1
    BY <1>2, <1>10 DEF AllThere
  <2>2. to[m + 1] = c - d /\ c \in Int
    <3>1. m + 1 \in Nat
      BY <1>2
    <3> QED BY <3>1, <1>7
  <2> HIDE DEF c
  <2>3. Len(v) = to[m + 1] - 1
    BY <2>1, <2>2, <1>2, <1>4, <1>5
  <2> QED BY <2>3 DEF AllThere
<1>11. Flows(to, v, e, rs, 1, op, body)
  BY <1>1, <1>2, <1>5, <1>6, <1>8, <1>9, <1>10 DEF Flows
<1> QED BY <1>11 DEF v, e

\* What the handlers were given of the first n requests.
Given(sv, rs, n) ==
  /\ sv \in Seq(Nat \X Seq(Token))
  /\ \A i \in 1 .. Len(sv) : sv[i][1] \in 1 .. n /\ sv[i][2] = Body(rs[sv[i][1]], sv[i][1])
  /\ \A i \in 1 .. Len(sv) : i > 1 => sv[i - 1][1] < sv[i][1]

LEMMA GivenGrows ==
  ASSUME NEW sv, NEW rs \in Seq(Shape), NEW n \in Nat, n <= Len(rs), Given(sv, rs, n), NEW shape \in Shape
  PROVE  Given(sv, Append(rs, shape), n)
<1> DEFINE qs == Append(rs, shape)
<1>1. ASSUME NEW j \in 1 .. n PROVE qs[j] = rs[j]
  <2>1. j \in 1 .. Len(rs)
    OBVIOUS
  <2> QED BY <2>1
<1> HIDE DEF qs
<1>2. ASSUME NEW i \in 1 .. Len(sv) PROVE sv[i][1] \in 1 .. n /\ sv[i][2] = Body(qs[sv[i][1]], sv[i][1])
  <2> DEFINE j == sv[i][1]
  <2>1. j \in 1 .. n /\ sv[i][2] = Body(rs[j], j)
    BY DEF Given
  <2> HIDE DEF j
  <2>2. sv[i][2] = Body(qs[j], j)
    BY <2>1, <1>1
  <2> QED BY <2>1, <2>2 DEF j
<1>3. Given(sv, qs, n)
  BY <1>2 DEF Given
<1> QED BY <1>3 DEF qs

LEMMA GivenMore ==
  ASSUME NEW sv, NEW rs, NEW n \in Nat, Given(sv, rs, n)
  PROVE  Given(sv, rs, n + 1)
<1>1. ASSUME NEW i \in 1 .. Len(sv) PROVE sv[i][1] \in 1 .. n + 1
  <2>1. sv[i][1] \in 1 .. n
    BY DEF Given
  <2> QED BY <2>1
<1> QED BY <1>1 DEF Given

LEMMA GivenNext ==
  ASSUME NEW sv, NEW rs, NEW n \in Nat, Given(sv, rs, n), NEW k, k = n + 1, NEW b \in Seq(Token), b = Body(rs[k], k)
  PROVE  Given(Append(sv, <<k, b>>), rs, n + 1)
<1> DEFINE x == <<k, b>>
           tv == Append(sv, x)
           l == Len(sv)
<1>1. sv \in Seq(Nat \X Seq(Token)) /\ l \in Nat /\ l = Len(sv)
  BY DEF Given
<1>2. x \in Nat \X Seq(Token) /\ x[1] = k /\ x[2] = b /\ k \in Nat
  OBVIOUS
<1> HIDE DEF x
<1>3. tv \in Seq(Nat \X Seq(Token)) /\ Len(tv) = l + 1 /\ tv[l + 1] = x /\ \A i \in 1 .. l : tv[i] = sv[i]
  BY <1>1, <1>2
<1> HIDE DEF tv, l
<1>4. ASSUME NEW i \in 1 .. l PROVE sv[i][1] \in 1 .. n /\ sv[i][2] = Body(rs[sv[i][1]], sv[i][1]) /\ (i > 1 => sv[i - 1][1] < sv[i][1])
  BY <1>1 DEF Given
<1>5. ASSUME NEW i \in 1 .. l + 1 PROVE tv[i][1] \in 1 .. n + 1 /\ tv[i][2] = Body(rs[tv[i][1]], tv[i][1])
  <2>1. CASE i = l + 1
    BY <2>1, <1>2, <1>3
  <2>2. CASE i # l + 1
    <3>1. i \in 1 .. l
      BY <2>2, <1>1
    <3>2. tv[i] = sv[i]
      BY <3>1, <1>3
    <3>3. sv[i][1] \in 1 .. n /\ sv[i][2] = Body(rs[sv[i][1]], sv[i][1])
      BY <3>1, <1>4
    <3> DEFINE j == sv[i][1]
    <3> HIDE DEF j
    <3>4. sv[i][1] \in 1 .. n + 1
      BY <3>3
    <3> QED BY <3>2, <3>3, <3>4
  <2> QED BY <2>1, <2>2
<1>6. ASSUME NEW i \in 1 .. l + 1, i > 1 PROVE tv[i - 1][1] < tv[i][1]
  <2>1. i - 1 \in 1 .. l
    BY <1>1, <1>6
  <2>2. tv[i - 1] = sv[i - 1]
    BY <2>1, <1>3
  <2>3. CASE i = l + 1
    <3>1. sv[i - 1][1] \in 1 .. n
      BY <2>1, <1>4
    <3>2. tv[i][1] = n + 1
      BY <2>3, <1>2, <1>3
    <3> DEFINE j == sv[i - 1][1]
    <3>3. j \in 1 .. n
      BY <3>1
    <3> HIDE DEF j
    <3>4. j < n + 1
      BY <3>3
    <3> QED BY <2>2, <3>2, <3>4 DEF j
  <2>4. CASE i # l + 1
    <3>1. i \in 1 .. l
      BY <2>4, <1>1
    <3>2. tv[i] = sv[i]
      BY <3>1, <1>3
    <3>3. sv[i - 1][1] < sv[i][1]
      BY <3>1, <1>4, <1>6
    <3> QED BY <2>2, <3>2, <3>3
  <2> QED BY <2>3, <2>4
<1>7. Given(tv, rs, n + 1)
  BY <1>3, <1>5, <1>6 DEF Given
<1> QED BY <1>7 DEF tv, x

-----------------------------------------------------------------------------

FetchedWhole ==
  (fetched # <<>> /\ fetched[4] = "done" /\ fetched[1] = "GET") =>
     (fetched[3] /\ fetched[5] = Body(fetched[2], 1)) \/ fetched[2].framing = "none"

\* Where the next request begins.
First == IF phase = "head" THEN 1 ELSE 0

\* RequestsAreReadApart speaks of the request that is being read. What makes it true
\* of the next is how all that was written lies on the wire.
HttpInv ==
  /\ requests \in Seq(Shape) /\ open \in BOOLEAN /\ phase \in {"head", "asked", "gone"}
  /\ replies \in Seq(BOOLEAN) /\ Len(replies) <= Len(requests)
  /\ phase = "asked" => current = Len(replies) + 1 /\ current <= Len(requests)
  /\ phase # "gone" => \E at : Flows(at, wire, Len(replies), requests, First, open, withheld)
  /\ Given(served, requests, Len(replies))
  /\ FetchedWhole

LEMMA HttpInvInit == HttpInit => HttpInv
<1> SUFFICES ASSUME HttpInit PROVE HttpInv
  OBVIOUS
<1> DEFINE at == [j \in Nat |-> j]
<1>1. requests = <<>> /\ replies = <<>> /\ served = <<>> /\ wire = <<>> /\ withheld = <<>> /\ open = TRUE /\ phase = "head" /\ fetched = <<>>
  BY DEF HttpInit
<1>2. at \in [Nat -> Int] /\ at[1] = 1 /\ Len(<<>>) = 0 /\ 0 + 1 = 1
  OBVIOUS
<1> HIDE DEF at
<1>3. LaidOut(at, <<>>, 0, <<>>)
  <2>1. ASSUME NEW i \in 0 + 1 .. 0 + 1, NEW j \in 0 + 1 .. 0 + 1, i < j PROVE at[i] < at[j]
    BY <2>1
  <2>2. ASSUME NEW j \in 0 + 1 .. 0 PROVE FALSE
    OBVIOUS
  <2>3. Len(<<>>) < at[0 + 1]
    BY <1>2
  <2> QED BY <1>2, <2>1, <2>2, <2>3, IsLaidOut
<1>4. Flows(at, <<>>, 0, <<>>, 1, TRUE, <<>>)
  <2>1. Len(<<>>) = at[1] - 1
    BY <1>2
  <2>2. AllThere(at, <<>>, 0 + 1)
    BY <2>1, <1>2 DEF AllThere
  <2> QED BY <1>2, <1>3, <2>2 DEF Flows
<1>5. Given(<<>>, <<>>, 0)
  BY DEF Given
<1>6. First = 1
  BY <1>1 DEF First
<1>7. \E to : Flows(to, wire, Len(replies), requests, First, open, withheld)
  BY <1>1, <1>2, <1>4, <1>6
<1>8. Given(served, requests, Len(replies))
  BY <1>1, <1>2, <1>5
<1>9. FetchedWhole
  BY <1>1 DEF FetchedWhole
<1>10. requests \in Seq(Shape) /\ replies \in Seq(BOOLEAN) /\ Len(replies) <= Len(requests)
  BY <1>1
<1>11. open \in BOOLEAN /\ phase \in {"head", "asked", "gone"} /\ phase # "asked"
  BY <1>1
<1> QED BY <1>7, <1>8, <1>9, <1>10, <1>11 DEF HttpInv

LEMMA FetchKeeps == ASSUME FetchedWhole, fetched' = fetched PROVE FetchedWhole'
  BY DEF FetchedWhole

LEMMA SendKeeps == ASSUME HttpInv, SendRequest PROVE HttpInv'
<1> DEFINE n == Len(replies)
           k == Len(requests) + 1
<1>1. PICK shape \in Shape, broken \in BOOLEAN :
        /\ requests' = Append(requests, shape)
        /\ IF shape.expects
           THEN /\ wire' = Append(wire, Headline(k)) /\ withheld' = Travels(shape, k)
                /\ broken = FALSE
           ELSE /\ \E u \in (IF broken THEN 0 .. (Len(Travels(shape, k)) - 1) ELSE {Len(Travels(shape, k))}) :
                     wire' = Append(wire, Headline(k)) \o SubSeq(Travels(shape, k), 1, u)
                /\ withheld' = <<>>
        /\ open' = ~broken
  BY DEF SendRequest
<1>2. /\ open = TRUE /\ withheld = <<>> /\ phase # "gone"
      /\ phase' = phase /\ current' = current /\ served' = served /\ replies' = replies /\ fetched' = fetched
  BY DEF SendRequest, HttpInv
<1>3. requests \in Seq(Shape) /\ n \in Nat /\ k \in Nat /\ n <= Len(requests) /\ replies \in Seq(BOOLEAN)
  BY DEF HttpInv
<1>4. PICK at : Flows(at, wire, n, requests, First, TRUE, <<>>)
  BY <1>2 DEF HttpInv
<1>5. First \in Nat /\ First' = First
  BY <1>2 DEF First
<1> DEFINE t == Travels(shape, k)
<1>6. t \in Seq(Token) /\ Len(t) \in Nat
  BY <1>3, TravelsIs
<1>7. Append(wire, Headline(k)) \in Seq(Token)
  <2>1. wire \in Seq(Token)
    BY <1>4 DEF Flows
  <2>2. Headline(k) \in Token
    BY <1>3, TokensAre
  <2> HIDE DEF k
  <2> QED BY <2>1, <2>2
<1>8. \E u \in 0 .. Len(t) : /\ wire' = Append(wire, Headline(k)) \o SubSeq(t, 1, u)
                             /\ withheld' # <<>> => withheld' = t /\ u = 0
                             /\ open' /\ withheld' = <<>> => u = Len(t)
  <2>1. CASE shape.expects
    <3>1. wire' = Append(wire, Headline(k)) /\ withheld' = t
      BY <1>1, <2>1
    <3>2. SubSeq(t, 1, 0) = <<>>
      <4> HIDE DEF t
      <4> QED BY <1>6
    <3> DEFINE h == Append(wire, Headline(k))
    <3>3. wire' = h /\ h \in Seq(Token)
      BY <3>1, <1>7
    <3> HIDE DEF h, t
    <3>4. h \o <<>> = h
      BY <3>3
    <3>5. wire' = h \o SubSeq(t, 1, 0)
      BY <3>2, <3>3, <3>4
    <3>6. withheld' = <<>> => 0 = Len(t)
      BY <3>1, <1>6
    <3>7. 0 \in 0 .. Len(t)
      BY <1>6
    <3> QED BY <3>1, <3>5, <3>6, <3>7 DEF h
  <2>2. CASE ~shape.expects
    <3>1. PICK u \in (IF broken THEN 0 .. (Len(t) - 1) ELSE {Len(t)}) : wire' = Append(wire, Headline(k)) \o SubSeq(t, 1, u)
      BY <1>1, <2>2
    <3>2. withheld' = <<>> /\ open' = ~broken
      BY <1>1, <2>2
    <3> HIDE DEF t
    <3>3. u \in 0 .. Len(t) /\ (~broken => u = Len(t))
      BY <1>6
    <3> QED BY <3>1, <3>2, <3>3
  <2> QED BY <2>1, <2>2
<1>9. PICK u \in 0 .. Len(t) : /\ wire' = Append(wire, Headline(k)) \o SubSeq(t, 1, u)
                               /\ withheld' # <<>> => withheld' = t /\ u = 0
                               /\ open' /\ withheld' = <<>> => u = Len(t)
  BY <1>8
<1>10. \E to : Flows(to, Append(wire, Headline(k)) \o SubSeq(t, 1, u), n, Append(requests, shape), First, open', withheld')
  BY <1>3, <1>4, <1>5, <1>9, FlowsSend
<1>11. \E to : Flows(to, wire', n, requests', First, open', withheld')
  BY <1>1, <1>9, <1>10
<1>12. Given(served, Append(requests, shape), n)
  <2>1. Given(served, requests, n)
    BY DEF HttpInv
  <2> HIDE DEF n
  <2> QED BY <2>1, <1>3, GivenGrows
<1>13. FetchedWhole'
  BY <1>2, FetchKeeps DEF HttpInv
<1>14. requests' \in Seq(Shape) /\ Len(requests') = Len(requests) + 1 /\ open' \in BOOLEAN
  BY <1>1, <1>3
<1>15. phase \in {"head", "asked", "gone"} /\ (phase = "asked" => current = n + 1 /\ current <= Len(requests))
  BY DEF HttpInv
<1>16. phase' \in {"head", "asked", "gone"} /\ replies' \in Seq(BOOLEAN) /\ Len(replies') <= Len(requests')
       /\ (phase' = "asked" => current' = Len(replies') + 1 /\ current' <= Len(requests'))
  BY <1>2, <1>3, <1>14, <1>15
<1>17. Given(served', requests', Len(replies'))
  BY <1>1, <1>2, <1>12
<1>18. \E to : Flows(to, wire', Len(replies'), requests', First', open', withheld')
  BY <1>2, <1>5, <1>11
<1> QED BY <1>13, <1>14, <1>16, <1>17, <1>18 DEF HttpInv

LEMMA SendWithheldKeeps == ASSUME HttpInv, SendWithheld PROVE HttpInv'
<1> DEFINE n == Len(replies)
<1>1. PICK u \in 0 .. Len(withheld) :
        /\ u = 0 => Len(replies) = Len(requests)
        /\ wire' = wire \o SubSeq(withheld, 1, u)
        /\ open' = (u \in {0, Len(withheld)})
  BY DEF SendWithheld
<1>2. /\ open = TRUE /\ withheld # <<>> /\ withheld' = <<>>
      /\ requests' = requests /\ phase' = phase /\ current' = current /\ served' = served /\ replies' = replies /\ fetched' = fetched
  BY DEF SendWithheld, HttpInv
<1>3. requests \in Seq(Shape) /\ n \in Nat /\ n <= Len(requests)
  BY DEF HttpInv
<1>4. First \in Nat /\ First' = First
  BY <1>2 DEF First
<1>5. ASSUME phase # "gone" PROVE \E to : Flows(to, wire', n, requests, First, open', <<>>)
  <2>1. PICK at : Flows(at, wire, n, requests, First, open, withheld)
    BY <1>5 DEF HttpInv
  <2>2. n < Len(requests)
    BY <2>1, <1>2 DEF Flows
  <2>3. u # 0
    BY <2>2, <1>1, <1>3
  <2>4. u \in 1 .. Len(withheld)
    BY <2>3
  <2>5. Flows(at, wire \o SubSeq(withheld, 1, u), n, requests, First, u = Len(withheld), <<>>)
    BY <2>1, <2>4, <1>2, <1>3, <1>4, FlowsRest
  <2>6. open' = (u = Len(withheld))
    BY <2>3, <1>1
  <2> QED BY <2>5, <2>6, <1>1
<1>6. open' \in BOOLEAN
  BY <1>1
<1>7. FetchedWhole'
  BY <1>2, FetchKeeps DEF HttpInv
<1> QED BY <1>2, <1>4, <1>5, <1>6, <1>7 DEF HttpInv

LEMMA CloseKeeps == ASSUME HttpInv, Close PROVE HttpInv'
<1>1. /\ open' = FALSE /\ UNCHANGED <<wire, withheld, requests, phase, current, served, replies, fetched>>
  BY DEF Close
<1>2. First' = First
  BY <1>1 DEF First
<1>3. ASSUME phase # "gone" PROVE \E at : Flows(at, wire, Len(replies), requests, First, FALSE, withheld)
  <2>1. PICK at : Flows(at, wire, Len(replies), requests, First, open, withheld)
    BY <1>3 DEF HttpInv
  <2>2. Flows(at, wire, Len(replies), requests, First, FALSE, withheld)
    BY <2>1 DEF Flows
  <2> QED BY <2>2
<1>4. FetchedWhole'
  BY <1>1, FetchKeeps DEF HttpInv
<1> QED BY <1>1, <1>2, <1>3, <1>4 DEF HttpInv

LEMMA ReadHeadKeeps == ASSUME HttpInv, ReadHead PROVE HttpInv'
<1> DEFINE n == Len(replies)
<1>1. /\ phase = "head" /\ UNCHANGED <<open, requests, withheld, served, replies, fetched>>
  BY DEF ReadHead
<1>2. requests \in Seq(Shape) /\ n \in Nat /\ n <= Len(requests)
  BY DEF HttpInv
<1>3. PICK at : Flows(at, wire, n, requests, 1, open, withheld)
  BY <1>1 DEF HttpInv, First
<1>4. FetchedWhole'
  BY <1>1, FetchKeeps DEF HttpInv
<1>5. CASE wire = <<>> \/ Len(replies) = PerConnection
  <2>1. phase' = "gone"
    BY <1>5 DEF ReadHead
  <2> QED BY <2>1, <1>1, <1>4 DEF HttpInv
<1>6. CASE ~(wire = <<>> \/ Len(replies) = PerConnection)
  <2>1. wire' = Tail(wire) /\ (current' = IF wire[1].is = "head" THEN wire[1].n ELSE 0) /\ phase' = "asked"
    BY <1>6 DEF ReadHead
  <2>2. n < Len(requests) /\ wire[1] = Headline(n + 1) /\ \E to : Flows(to, Tail(wire), n, requests, 0, open, withheld)
    BY <1>2, <1>3, <1>6, FlowsHead
  <2>3. wire[1].is = "head" /\ wire[1].n = n + 1
    BY <2>2, <1>2, TokensAre
  <2>4. current' = n + 1 /\ n + 1 <= Len(requests)
    BY <2>1, <2>2, <2>3, <1>2
  <2>5. First' = 0
    BY <2>1 DEF First
  <2>6. \E to : Flows(to, wire', Len(replies'), requests', First', open', withheld')
    BY <2>1, <2>2, <2>5, <1>1
  <2>7. current' = Len(replies') + 1 /\ current' <= Len(requests')
    BY <2>4, <1>1
  <2> QED BY <2>1, <2>6, <2>7, <1>1, <1>4 DEF HttpInv
<1> QED BY <1>5, <1>6

\* What the server makes of the body of the request it reads.
LEMMA TakenReads ==
  ASSUME HttpInv, phase = "asked"
  PROVE  /\ Current = requests[current] /\ current = Len(replies) + 1 /\ current \in Nat
         /\ Reads(Taken, wire, Piece(requests, current), Body(requests[current], current))
         /\ Current \in Shape /\ wire \in Seq(Token) /\ Piece(requests, current) \in Seq(Token)
         /\ (open /\ withheld = <<>>) => Len(Piece(requests, current)) <= Len(wire)
<1> DEFINE n == Len(replies)
<1>1. requests \in Seq(Shape) /\ n \in Nat /\ current = n + 1 /\ current <= Len(requests) /\ n < Len(requests)
  BY DEF HttpInv
<1>2. PICK at : Flows(at, wire, n, requests, 0, open, withheld)
  BY DEF HttpInv, First
<1>3. /\ wire \in Seq(Token) /\ Agrees(wire, Piece(requests, current)) /\ Piece(requests, current) \in Seq(Token)
      /\ (open /\ withheld = <<>>) => Len(Piece(requests, current)) <= Len(wire)
  BY <1>1, <1>2, FlowsAgrees
<1>4. Current = requests[current] /\ current \in Nat /\ current \in 1 .. Len(requests)
  BY <1>1 DEF Current
<1>5. requests[current] \in Shape
  BY <1>1, <1>4
<1>6. Reads(Taken, wire, Piece(requests, current), Body(requests[current], current))
  <2>1. Agrees(wire, Travels(requests[current], current))
    BY <1>3 DEF Piece
  <2>2. Reads(ReadBody(requests[current].framing, Total(requests[current]), wire), wire, Travels(requests[current], current), Body(requests[current], current))
    BY <2>1, <1>3, <1>4, <1>5, BodyRead
  <2> QED BY <2>2, <1>4 DEF Taken, Piece
<1> QED BY <1>1, <1>3, <1>4, <1>5, <1>6

\* A request is answered; if the connection goes on, its body is behind.
LEMMA AnsweredKeeps ==
  ASSUME HttpInv, phase = "asked", NEW goesOn \in BOOLEAN, Reply(goesOn), UNCHANGED <<open, requests, withheld, fetched>>,
         goesOn => /\ Len(Piece(requests, current)) <= Len(wire)
                   /\ wire' = SubSeq(wire, Len(Piece(requests, current)) + 1, Len(wire)),
         Given(served', requests, Len(replies) + 1)
  PROVE  HttpInv'
<1> DEFINE n == Len(replies)
<1>1. requests \in Seq(Shape) /\ n \in Nat /\ current = n + 1 /\ n < Len(requests) /\ n + 1 <= Len(requests) /\ replies \in Seq(BOOLEAN)
  BY DEF HttpInv
<1>2. PICK at : Flows(at, wire, n, requests, 0, open, withheld)
  BY DEF HttpInv, First
<1>3. replies' = Append(replies, goesOn) /\ phase' = IF goesOn THEN "head" ELSE "gone"
  BY DEF Reply
<1>4. replies' \in Seq(BOOLEAN) /\ Len(replies') = n + 1
  BY <1>1, <1>3
<1>5. phase' \in {"head", "gone"} /\ (phase' # "gone" => goesOn /\ phase' = "head")
  BY <1>3
<1>6. FetchedWhole'
  BY FetchKeeps DEF HttpInv
<1>7. ASSUME phase' # "gone" PROVE \E to : Flows(to, wire', Len(replies'), requests', First', open', withheld')
  <2>1. First' = 1
    BY <1>5, <1>7 DEF First
  <2> DEFINE d == Len(Piece(requests, n + 1))
  <2>2. d <= Len(wire) /\ wire' = SubSeq(wire, d + 1, Len(wire))
    BY <1>1, <1>5, <1>7
  <2>3. \E to : Flows(to, SubSeq(wire, d + 1, Len(wire)), n + 1, requests, 1, open, withheld)
    BY <2>2, <1>1, <1>2, FlowsBody
  <2> QED BY <2>1, <2>2, <2>3, <1>4
<1>8. Given(served', requests', Len(replies'))
  BY <1>4
<1>9. requests' \in Seq(Shape) /\ open' \in BOOLEAN /\ Len(replies') <= Len(requests') /\ phase' # "asked" /\ phase' \in {"head", "asked", "gone"}
  BY <1>1, <1>4, <1>5 DEF HttpInv
<1> QED BY <1>4, <1>6, <1>7, <1>8, <1>9 DEF HttpInv

\* All of its body was read.
LEMMA DoneLeaves ==
  ASSUME HttpInv, phase = "asked", Taken.ended = "done"
  PROVE  /\ Len(Piece(requests, current)) <= Len(wire)
         /\ Taken.rest = SubSeq(wire, Len(Piece(requests, current)) + 1, Len(wire))
         /\ Given(Append(served, <<current, Taken.body>>), requests, Len(replies) + 1)
<1>1. /\ current = Len(replies) + 1 /\ Reads(Taken, wire, Piece(requests, current), Body(requests[current], current))
      /\ Current = requests[current] /\ Current \in Shape /\ wire \in Seq(Token) /\ Piece(requests, current) \in Seq(Token) /\ current \in Nat
  BY TakenReads
<1>2. Len(Piece(requests, current)) <= Len(wire)
  <2>1. ~(Len(wire) < Len(Piece(requests, current)))
    BY <1>1 DEF Reads
  <2>2. Len(wire) \in Nat /\ Len(Piece(requests, current)) \in Nat
    BY <1>1
  <2> QED BY <2>1, <2>2
<1>3. Taken.rest = SubSeq(wire, Len(Piece(requests, current)) + 1, Len(wire)) /\ Taken.body = Body(requests[current], current)
  BY <1>1 DEF Reads
<1>4. Taken.body \in Seq(Token)
  <2>1. Total(requests[current]) \in Nat
    BY <1>1, TravelsIs
  <2> QED BY <2>1, <1>1, <1>3, BytesAre DEF Body
<1>5. Given(served, requests, Len(replies)) /\ Len(replies) \in Nat
  BY DEF HttpInv
<1>6. Given(Append(served, <<current, Taken.body>>), requests, Len(replies) + 1)
  BY <1>1, <1>3, <1>4, <1>5, GivenNext
<1> QED BY <1>2, <1>3, <1>6

LEMMA StillGiven == ASSUME HttpInv PROVE Given(served, requests, Len(replies) + 1)
  BY GivenMore DEF HttpInv

LEMMA HandleKeeps == ASSUME HttpInv, HandleWhole PROVE HttpInv'
<1>1. phase = "asked" /\ wire' = Taken.rest /\ UNCHANGED <<open, requests, withheld, fetched>>
  BY DEF HandleWhole
<1>2. CASE Taken.ended = "done"
  <2> DEFINE g == Current.stays /\ Current.handler = "caldav"
  <2>1. served' = Append(served, <<current, Taken.body>>) /\ Reply(g)
    BY <1>2 DEF HandleWhole
  <2>2. g \in BOOLEAN
    OBVIOUS
  <2> HIDE DEF g
  <2>3. /\ Len(Piece(requests, current)) <= Len(wire)
        /\ wire' = SubSeq(wire, Len(Piece(requests, current)) + 1, Len(wire))
        /\ Given(served', requests, Len(replies) + 1)
    BY <2>1, <1>1, <1>2, DoneLeaves
  <2> QED BY <2>1, <2>2, <2>3, <1>1, AnsweredKeeps
<1>3. CASE Taken.ended # "done"
  <2>1. served' = served /\ (Reply(FALSE) \/ (phase' = "gone" /\ replies' = replies))
    BY <1>3 DEF HandleWhole
  <2>2. CASE Reply(FALSE)
    <3>1. Given(served', requests, Len(replies) + 1)
      BY <2>1, StillGiven
    <3> QED BY <2>2, <3>1, <1>1, AnsweredKeeps
  <2>3. CASE phase' = "gone" /\ replies' = replies
    <3>1. FetchedWhole'
      BY <1>1, FetchKeeps DEF HttpInv
    <3> QED BY <2>1, <2>3, <3>1, <1>1 DEF HttpInv
  <2> QED BY <2>1, <2>2, <2>3
<1> QED BY <1>2, <1>3

LEMMA TakeKeeps == ASSUME HttpInv, TakeBody PROVE HttpInv'
<1> DEFINE g == Current.stays /\ Taken.ended = "done"
<1>1. phase = "asked" /\ wire' = Taken.rest /\ UNCHANGED <<open, requests, withheld, fetched>> /\ Reply(g)
  BY DEF TakeBody
<1>2. g \in BOOLEAN /\ (g => Taken.ended = "done")
  OBVIOUS
<1> HIDE DEF g
<1>3. Given(served', requests, Len(replies) + 1)
  <2>1. CASE Taken.ended = "done"
    <3>1. served' = Append(served, <<current, Taken.body>>)
      BY <2>1 DEF TakeBody
    <3> QED BY <2>1, <3>1, <1>1, DoneLeaves
  <2>2. CASE Taken.ended # "done"
    <3>1. served' = served
      BY <2>2 DEF TakeBody
    <3> QED BY <3>1, StillGiven
  <2> QED BY <2>1, <2>2
<1>4. g => /\ Len(Piece(requests, current)) <= Len(wire)
           /\ wire' = SubSeq(wire, Len(Piece(requests, current)) + 1, Len(wire))
  <2> SUFFICES ASSUME g PROVE /\ Len(Piece(requests, current)) <= Len(wire)
                              /\ wire' = SubSeq(wire, Len(Piece(requests, current)) + 1, Len(wire))
    OBVIOUS
  <2> QED BY <1>1, <1>2, DoneLeaves
<1> QED BY <1>1, <1>2, <1>3, <1>4, AnsweredKeeps

LEMMA LeaveKeeps == ASSUME HttpInv, LeaveBody PROVE HttpInv'
<1> DEFINE g == Current.stays /\ Finished
<1>1. /\ phase = "asked" /\ UNCHANGED <<open, requests, withheld, fetched, served>> /\ Reply(g)
      /\ wire' = IF Drains THEN Taken.rest ELSE wire
  BY DEF LeaveBody
<1>2. g \in BOOLEAN /\ (g => Finished)
  OBVIOUS
<1> HIDE DEF g
<1>3. Given(served', requests, Len(replies) + 1)
  BY <1>1, StillGiven
<1>4. ASSUME g PROVE /\ Len(Piece(requests, current)) <= Len(wire)
                     /\ wire' = SubSeq(wire, Len(Piece(requests, current)) + 1, Len(wire))
  <2>1. CASE Current.framing = "none"
    <3>1. /\ Current = requests[current] /\ Current \in Shape /\ wire \in Seq(Token) /\ current \in Nat
      BY <1>1, TakenReads
    <3>2. ~Drains
      BY <2>1 DEF Drains
    <3>3. wire' = wire
      BY <1>1, <3>2
    <3>4. Travels(Current, current) = Bytes(0, current)
      BY <2>1, <3>1, TravelsIs
    <3>5. Len(Piece(requests, current)) = 0
      BY <3>1, <3>4, BytesAre DEF Piece
    <3>6. SubSeq(wire, 0 + 1, Len(wire)) = wire /\ 0 <= Len(wire)
      BY <3>1
    <3> QED BY <3>3, <3>5, <3>6
  <2>2. CASE Current.framing # "none"
    <3>1. Drains /\ Taken.ended = "done"
      BY <1>2, <1>4, <2>2 DEF Finished
    <3>2. wire' = Taken.rest
      BY <1>1, <3>1
    <3> QED BY <1>1, <3>1, <3>2, DoneLeaves
  <2> QED BY <2>1, <2>2
<1> QED BY <1>1, <1>2, <1>3, <1>4, AnsweredKeeps

LEMMA FetchAnswerKeeps == ASSUME HttpInv, FetchAnswer PROVE HttpInv'
<1>1. UNCHANGED <<wire, open, requests, withheld, phase, current, invited, served, replies>>
  BY DEF FetchAnswer
<1>2. PICK shape \in Shape, method \in {"HEAD", "GET"}, n \in Nat :
        /\ n \in 0 .. Len(Travels(shape, 1))
        /\ LET all == Travels(shape, 1)
               r == ReadAnswer(method, shape.framing, Total(shape), SubSeq(all, 1, n))
           IN fetched' = <<method, shape, n = Len(all), r.ended, r.body>>
  BY DEF FetchAnswer
<1> DEFINE t == Travels(shape, 1)
           w == SubSeq(t, 1, n)
           r == ReadAnswer(method, shape.framing, Total(shape), w)
<1>3. fetched' = <<method, shape, n = Len(t), r.ended, r.body>>
  BY <1>2
<1>4. t \in Seq(Token) /\ Len(t) \in Nat
  BY TravelsIs
<1>5. n \in 0 .. Len(t)
  BY <1>2
<1> HIDE DEF r
<1>6. fetched'[1] = method /\ fetched'[2] = shape /\ fetched'[3] = (n = Len(t)) /\ fetched'[4] = r.ended /\ fetched'[5] = r.body
  BY <1>3
<1>7. ASSUME method = "GET", r.ended = "done", shape.framing # "none" PROVE n = Len(t) /\ r.body = Body(shape, 1)
  <2>1. r = ReadBody(shape.framing, Total(shape), w)
    BY <1>7 DEF r, ReadAnswer
  <2>2. w \in Seq(Token) /\ Len(w) = n /\ \A i \in 1 .. n : w[i] = t[i]
    <3> HIDE DEF t
    <3> QED BY <1>4, <1>5
  <2> HIDE DEF w
  <2>3. Agrees(w, t)
    <3> SUFFICES ASSUME NEW i \in 1 .. Len(t), i <= Len(w) PROVE w[i] = t[i]
      BY DEF Agrees
    <3>1. i \in 1 .. n
      BY <1>4, <2>2
    <3> QED BY <3>1, <2>2
  <2>4. Reads(r, w, t, Body(shape, 1))
    <3>1. 1 \in Nat
      OBVIOUS
    <3> QED BY <3>1, <2>1, <2>2, <2>3, BodyRead
  <2>5. ~(Len(w) < Len(t)) /\ r.body = Body(shape, 1)
    BY <2>4, <1>7 DEF Reads
  <2> HIDE DEF t
  <2>6. n = Len(t)
    BY <2>2, <2>5, <1>4, <1>5
  <2> QED BY <2>5, <2>6
<1> HIDE DEF t
<1>8. FetchedWhole'
  <2> SUFFICES ASSUME fetched'[4] = "done", fetched'[1] = "GET", fetched'[2].framing # "none"
               PROVE  fetched'[3] /\ fetched'[5] = Body(fetched'[2], 1)
    BY DEF FetchedWhole
  <2>1. n = Len(t) /\ r.body = Body(shape, 1)
    BY <1>6, <1>7
  <2>2. fetched'[5] = Body(fetched'[2], 1)
    BY <2>1, <1>6
  <2>3. fetched'[3]
    BY <2>1, <1>6
  <2> QED BY <2>2, <2>3
<1>9. First' = First
  BY <1>1 DEF First
<1> QED BY <1>1, <1>8, <1>9 DEF HttpInv

LEMMA HttpStep == ASSUME HttpInv, [HttpNext]_httpVars PROVE HttpInv'
<1>1. CASE SendRequest
  BY <1>1, SendKeeps
<1>2. CASE SendWithheld
  BY <1>2, SendWithheldKeeps
<1>3. CASE Close
  BY <1>3, CloseKeeps
<1>4. CASE ReadHead
  BY <1>4, ReadHeadKeeps
<1>5. CASE Continue \/ UNCHANGED httpVars
  <2>1. UNCHANGED <<wire, open, requests, withheld, phase, current, served, replies, fetched>>
    BY <1>5 DEF Continue, httpVars
  <2>2. First' = First
    BY <2>1 DEF First
  <2>3. FetchedWhole'
    BY <2>1, FetchKeeps DEF HttpInv
  <2> QED BY <2>1, <2>2, <2>3 DEF HttpInv
<1>6. CASE HandleWhole
  BY <1>6, HandleKeeps
<1>7. CASE TakeBody
  BY <1>7, TakeKeeps
<1>8. CASE LeaveBody
  BY <1>8, LeaveKeeps
<1>9. CASE FetchAnswer
  BY <1>9, FetchAnswerKeeps
<1> QED BY <1>1, <1>2, <1>3, <1>4, <1>5, <1>6, <1>7, <1>8, <1>9 DEF HttpNext

LEMMA ReadApart == ASSUME HttpInv PROVE RequestsAreReadApart
<1>1. ASSUME NEW i \in DOMAIN served
      PROVE  /\ served[i][1] # 0
             /\ served[i][2] = Body(requests[served[i][1]], served[i][1])
             /\ i > 1 => served[i - 1][1] < served[i][1]
  <2>1. Given(served, requests, Len(replies))
    BY DEF HttpInv
  <2>2. DOMAIN served = 1 .. Len(served)
    BY <2>1 DEF Given
  <2>3. served[i][1] \in 1 .. Len(replies) /\ served[i][2] = Body(requests[served[i][1]], served[i][1])
        /\ (i > 1 => served[i - 1][1] < served[i][1])
    BY <2>1, <2>2 DEF Given
  <2> DEFINE k == served[i][1]
  <2>4. k \in 1 .. Len(replies)
    BY <2>3
  <2> HIDE DEF k
  <2>5. k # 0
    BY <2>4
  <2> QED BY <2>3, <2>5 DEF k
<1>2. phase = "asked" => current = Len(replies) + 1
  BY DEF HttpInv
<1>3. ASSUME phase = "asked", open, withheld = <<>> PROVE Taken.ended # "short"
  <2>1. /\ Reads(Taken, wire, Piece(requests, current), Body(requests[current], current))
        /\ wire \in Seq(Token) /\ Piece(requests, current) \in Seq(Token)
        /\ Len(Piece(requests, current)) <= Len(wire)
    BY <1>3, TakenReads
  <2>2. Len(wire) >= Len(Piece(requests, current))
    BY <2>1
  <2> QED BY <2>1, <2>2 DEF Reads
<1>4. FetchedWhole
  BY DEF HttpInv
<1> QED BY <1>1, <1>2, <1>3, <1>4 DEF RequestsAreReadApart, FetchedWhole

\* Whatever is sent on a connection, in whatever shape and cut anywhere, each request
\* is read where it begins and with its own body, none of them waits for more than
\* was sent, and httpc takes no part of an answer that says its length for all of it
\* (BodyReader, handle_connection, read_body).
THEOREM RequestsReadApart == HttpInit /\ [][HttpNext]_httpVars => []RequestsAreReadApart
<1>1. HttpInit => HttpInv
  BY HttpInvInit
<1>2. HttpInv /\ [HttpNext]_httpVars => HttpInv'
  BY HttpStep
<1>3. HttpInv => RequestsAreReadApart
  BY ReadApart
<1> QED BY <1>1, <1>2, <1>3, PTL
=============================================================================
