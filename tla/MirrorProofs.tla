---------------------------- MODULE MirrorProofs ----------------------------
(* Mirror: what the mirror map knows, and that it does not go on writing.   *)
(* GoogleAuth: which grant is kept.                                         *)
(* GoogleRemote: what a listing tells.                                     *)

(***************************************************************************)
(* Why the mirror map knows what the sync token covers, however many       *)
(* events there are, however long the calendars are written, and wherever  *)
(* passes break off.                                                       *)
(*                                                                         *)
(* A change the remote has made counts as covered once it is numbered up   *)
(* to what the pass in progress is going to store as its token.  A covered *)
(* event is either settled, its mapping being what the remote has, or the  *)
(* pass still has it to do; and what the pass has in hand or has fetched   *)
(* of a covered event is what the remote has now, since any later change   *)
(* of the event has a higher number and is not covered.                    *)
(***************************************************************************)
EXTENDS Mirror, GoogleAuth, GoogleRemote, FiniteSetTheorems, TLAPS

\* The number up to which changes are told, once the pass ends.
Limit == IF pc \in {"load", "apply"} THEN batch.next ELSE token
Covered(u) == remote[u].at <= Limit

\* The mapping of u is what the remote has.
Settled(u) ==
    /\ There(u) => Mapped(u) /\ map[u].version = remote[u].at
    /\ Mapped(u) => There(u)

\* Changes are numbered in the order in which they are made.
Numbered ==
    /\ token \in Nat /\ rver \in Nat /\ token <= rver
    /\ DOMAIN remote = Uid /\ DOMAIN map = Uid
    /\ \A u \in Uid :
          /\ remote[u].at \in 0 .. rver
          /\ There(u) => remote[u].at # 0
          /\ Mapped(u) => "version" \in DOMAIN map[u]

Resting == pc \in {"idle", "pull", "load"} => job = NoJob

BatchNumbered ==
    pc \in {"load", "apply"} =>
        /\ DOMAIN batch = {"listed", "gone", "seen", "items", "sweep", "next"}
        /\ batch.next \in token .. rver
        /\ batch.sweep \in {"due", "done"}
        /\ batch.listed \subseteq Uid /\ batch.gone \subseteq Uid

JobShape ==
    job # NoJob => DOMAIN job = {"at", "href", "uid", "mine", "rev", "doc", "ver"}

\* The steps of a job after which it writes the mapping, or removes it.
Recording == {"adopt", "recordPush", "recordAdopted", "overwrite", "recordPull", "removeDeclined"}
Removing  == {"drop", "finalize", "unmap"}

\* What the job is about to record of a covered event is what the remote has.
JobTrue ==
    \A u \in Uid : job # NoJob /\ job.uid = u /\ Covered(u) =>
        /\ job.at \in Recording => There(u) /\ job.ver = remote[u].at
        /\ job.at \in Removing => ~There(u)

\* So is what was listed and fetched, and a full listing leaves nothing out.
BatchTrue ==
    pc \in {"load", "apply"} => \A u \in Uid : Covered(u) =>
        /\ u \in batch.gone => ~There(u)
        /\ u \in batch.listed => There(u)
        /\ pc = "apply" => batch.items[u] = remote[u]
        /\ batch.sweep = "due" /\ There(u) => u \in (IF pc = "load" THEN batch.listed ELSE batch.seen)
        /\ pc = "apply" /\ u \in batch.seen => There(u)

\* What the pass has still to do about u.
InHand(u) == job # NoJob /\ job.uid = u /\ job.at \in Recording \cup Removing

Waiting(u) ==
    \/ u \in batch.listed
    \/ u \in batch.gone
    \/ batch.sweep = "due" /\ ~There(u)
    \/ InHand(u)

\* Nothing is forgotten: what the stored token covers is settled, also while a pass
\* runs, and what the next one will cover is settled or waiting.
Accounted ==
    /\ \A u \in Uid : remote[u].at <= token => Settled(u)
    /\ pc \in {"load", "apply"} => \A u \in Uid : Covered(u) => Settled(u) \/ Waiting(u)

MirrorInv == Numbered /\ Resting /\ BatchNumbered /\ JobShape /\ JobTrue /\ BatchTrue /\ Accounted

----------------------------------------------------------------------------

LEMMA InitHolds == ASSUME Init PROVE MirrorInv
<1>1. PICK there \in SUBSET Uid :
          remote = [u \in Uid |->
              IF u \in there
              THEN [at |-> 1, doc |-> [text |-> 0, form |-> "normal",
                    ps |-> IF u \in attending THEN "needs-action" ELSE "none"]]
              ELSE [at |-> 0, doc |-> NoDoc]]
      BY DEF Init
<1>2. /\ map = [u \in Uid |-> NoMap] /\ token = 0 /\ rver = 1
      /\ pc = "idle" /\ job = NoJob
      BY DEF Init
<1>3. \A u \in Uid : ~Mapped(u)
      BY <1>2 DEF Mapped
<1>4. \A u \in Uid : remote[u].at = (IF u \in there THEN 1 ELSE 0)
      BY <1>1
<1>5. \A u \in Uid : remote[u].at = 0 => ~There(u)
      BY <1>1 DEF There
<1>6. Numbered
      BY <1>1, <1>2, <1>3, <1>4, <1>5 DEF Numbered
<1>7. Accounted
      BY <1>2, <1>3, <1>4, <1>5 DEF Accounted, Settled
<1> QED BY <1>2, <1>6, <1>7 DEF MirrorInv, Resting, BatchNumbered, JobShape, JobTrue, BatchTrue

\* The writes of clients, among others: the invariant does not speak of the store.
LEMMA Quiet ==
  ASSUME MirrorInv, UNCHANGED <<map, token, remote, rver, pc, job, batch>>
  PROVE  MirrorInv'
BY DEF MirrorInv, Numbered, Resting, BatchNumbered, JobShape, JobTrue, BatchTrue, Accounted,
       Covered, Limit, Settled, There, Mapped, InHand, Waiting

\* A pass that breaks off leaves the mirror map and the token as they are.
LEMMA Breaks ==
  ASSUME MirrorInv, PassFails, UNCHANGED <<map, token, remote, rver>>
  PROVE  MirrorInv'
<1>1. pc' = "idle" /\ job' = NoJob
      BY DEF PassFails
<1>2. Numbered'
      BY DEF MirrorInv, Numbered, There, Mapped
<1>3. Accounted'
      BY <1>1 DEF MirrorInv, Accounted, Settled, There, Mapped
<1> QED BY <1>1, <1>2, <1>3 DEF MirrorInv, Resting, BatchNumbered, JobShape, JobTrue, BatchTrue

\* Whoever writes the remote: the event is not covered any more.
LEMMA Writes ==
  ASSUME MirrorInv, NEW u, NEW d, SetRemote(u, d), UNCHANGED <<map, token, pc, batch>>,
         \/ job' = job
         \/ job # NoJob /\ job.uid = u /\ \E at : job' = [job EXCEPT !.at = at]
  PROVE  MirrorInv'
<1> USE DEF MirrorInv
<1>1. /\ remote' = [remote EXCEPT ![u] = [at |-> rver + 1, doc |-> d]]
      /\ rver' = rver + 1
      BY DEF SetRemote
<1>2. /\ job' = NoJob <=> job = NoJob
      /\ job # NoJob => job'.uid = job.uid /\ DOMAIN job' = DOMAIN job
      BY DEF JobShape, NoJob
<1>3. DOMAIN remote = Uid /\ rver \in Nat
      BY DEF Numbered
<1>4. \A v \in Uid \ {u} : remote'[v] = remote[v]
      BY <1>1, <1>3
<1>5. u \in Uid => remote'[u].at = rver + 1
      BY <1>1, <1>3
<1>6. Numbered'
  <2>1. DOMAIN remote' = Uid /\ DOMAIN map' = Uid /\ token' \in Nat /\ rver' \in Nat /\ token' <= rver'
        BY <1>1 DEF Numbered
  <2>2. ASSUME NEW v \in Uid
        PROVE  /\ remote'[v].at \in 0 .. rver'
               /\ There(v)' => remote'[v].at # 0
        BY <1>1, <1>3, <1>4, <1>5 DEF Numbered, There
  <2> QED BY <2>1, <2>2 DEF Numbered, Mapped
<1>7. Resting' /\ JobShape'
      BY <1>2 DEF Resting, JobShape
<1>8. BatchNumbered'
      BY <1>1, <1>3 DEF BatchNumbered, Numbered
<1>9. ASSUME NEW v \in Uid, remote'[v].at <= token \/ Covered(v)'
      PROVE  v # u /\ remote'[v] = remote[v] /\ Limit' = Limit
  <2>1. Limit' = Limit /\ Limit \in 0 .. rver
        BY <1>3 DEF Limit, BatchNumbered, Numbered
  <2>2. token \in 0 .. rver
        BY DEF Numbered
  <2> QED BY <1>3, <1>4, <1>5, <1>9, <2>1, <2>2 DEF Covered
<1>10. JobTrue'
  <2> SUFFICES ASSUME NEW v \in Uid, job' # NoJob, job'.uid = v, Covered(v)'
               PROVE  /\ job'.at \in Recording => There(v)' /\ job'.ver = remote'[v].at
                      /\ job'.at \in Removing => ~There(v)'
      BY DEF JobTrue
  <2>1. job' = job /\ remote'[v] = remote[v] /\ Covered(v)
        BY <1>2, <1>9 DEF Covered
  <2> QED BY <2>1 DEF JobTrue, There
<1>11. BatchTrue'
      BY <1>9 DEF BatchTrue, There, Covered
<1>12. Accounted'
  <2>1. ASSUME NEW v \in Uid, remote'[v] = remote[v]
        PROVE  Settled(v)' <=> Settled(v)
        BY <2>1 DEF Settled, There, Mapped
  <2>2. ASSUME NEW v \in Uid, remote'[v] = remote[v], v # u, Waiting(v)
        PROVE  Waiting(v)'
        BY <1>2, <2>2 DEF Waiting, There, InHand
  <2>3. ASSUME NEW v \in Uid, remote'[v].at <= token'
        PROVE  Settled(v)'
        BY <1>9, <2>1, <2>3 DEF Accounted
  <2>4. ASSUME pc' \in {"load", "apply"}, NEW v \in Uid, Covered(v)'
        PROVE  Settled(v)' \/ Waiting(v)'
    <3>1. v # u /\ remote'[v] = remote[v] /\ Covered(v)
          BY <1>9, <2>4 DEF Covered
    <3> QED BY <2>1, <2>2, <2>4, <3>1 DEF Accounted
  <2> QED BY <2>3, <2>4 DEF Accounted
<1> QED BY <1>6, <1>7, <1>8, <1>10, <1>11, <1>12

\* The job goes on, with what the remote has now or with nothing to record yet.
LEMMA Moves ==
  ASSUME MirrorInv, job # NoJob, UNCHANGED <<map, token, remote, rver, pc, batch>>,
         DOMAIN job' = DOMAIN job, job'.uid = job.uid,
         job.at \in Recording \cup Removing => job'.at \in Recording \cup Removing,
         \A u \in Uid : job.uid = u /\ Covered(u) =>
            /\ job'.at \in Recording => There(u) /\ job'.ver = remote[u].at
            /\ job'.at \in Removing => ~There(u)
  PROVE  MirrorInv'
<1> USE DEF MirrorInv
<1>1. job' # NoJob
      BY DEF JobShape, NoJob
<1>2. Numbered' /\ BatchNumbered' /\ Resting' /\ JobShape'
      BY DEF Numbered, BatchNumbered, Resting, JobShape, There, Mapped
<1>3. ASSUME NEW u \in Uid
      PROVE  (Covered(u)' <=> Covered(u)) /\ (There(u)' <=> There(u)) /\ (Settled(u)' <=> Settled(u))
      BY DEF Covered, Limit, There, Settled, Mapped
<1>4. JobTrue'
      BY <1>3 DEF JobTrue
<1>5. BatchTrue'
      BY <1>3 DEF BatchTrue
<1>6. Accounted'
      BY <1>1, <1>3 DEF Accounted, Waiting, InHand
<1> QED BY <1>2, <1>4, <1>5, <1>6

LEMMA CoveredSoFar ==
  ASSUME MirrorInv, NEW u \in Uid, remote[u].at <= token
  PROVE  Covered(u)
BY DEF MirrorInv, Numbered, BatchNumbered, Covered, Limit

\* upsert_mirror_map
LEMMA Records ==
  ASSUME MirrorInv, NEW pushed, job.at \in Recording, Record(pushed), job' = NoJob,
         UNCHANGED <<token, remote, rver, pc, batch>>
  PROVE  MirrorInv'
<1> USE DEF MirrorInv
<1>1. map' = [map EXCEPT ![job.uid] = [version |-> job.ver, doc |-> job.doc, pushed |-> pushed]]
      BY DEF Record
<1>2. job # NoJob
      BY DEF Recording, NoJob
<1>3. DOMAIN map = Uid
      BY DEF Numbered
<1>4. \A v \in Uid : v # job.uid => map'[v] = map[v]
      BY <1>1, <1>3
<1>5. \A v \in Uid : v = job.uid =>
          map'[v] = [version |-> job.ver, doc |-> job.doc, pushed |-> pushed] /\ Mapped(v)'
      BY <1>1, <1>3 DEF Mapped, NoMap
<1>6. Numbered'
  <2>1. DOMAIN map' = Uid
        BY <1>1, <1>3
  <2>2. \A v \in Uid : Mapped(v)' => "version" \in DOMAIN map'[v]
        BY <1>4, <1>5 DEF Numbered, Mapped
  <2> QED BY <2>1, <2>2 DEF Numbered, There
<1>7. Resting' /\ BatchNumbered' /\ JobShape' /\ JobTrue'
      BY <1>2 DEF Resting, BatchNumbered, JobShape, JobTrue
<1>8. BatchTrue'
      BY DEF BatchTrue, Covered, Limit, There
<1>9. ASSUME NEW u \in Uid, job.uid = u, Covered(u)
      PROVE  Settled(u)'
  <2>1. There(u) /\ job.ver = remote[u].at
        BY <1>2, <1>9 DEF JobTrue
  <2> QED BY <1>5, <1>9, <2>1 DEF Settled, There
<1>10. ASSUME NEW u \in Uid, job.uid # u
       PROVE  (Settled(u)' <=> Settled(u)) /\ (Waiting(u) => Waiting(u)')
       BY <1>4, <1>10 DEF Settled, There, Mapped, Waiting, InHand
<1>11. Accounted'
  <2>1. ASSUME NEW u \in Uid, remote'[u].at <= token'
        PROVE  Settled(u)'
        BY <1>9, <1>10, <2>1, CoveredSoFar DEF Accounted
  <2>2. ASSUME pc' \in {"load", "apply"}, NEW u \in Uid, Covered(u)'
        PROVE  Settled(u)' \/ Waiting(u)'
    <3>1. Covered(u)
          BY <2>2 DEF Covered, Limit
    <3> QED BY <1>9, <1>10, <2>2, <3>1 DEF Accounted
  <2> QED BY <2>1, <2>2 DEF Accounted
<1> QED BY <1>6, <1>7, <1>8, <1>11

\* delete_mirror_map
LEMMA UnmapHolds == ASSUME MirrorInv, Unmap PROVE MirrorInv'
<1> USE DEF MirrorInv
<1>1. /\ job.at = "unmap" /\ job' = NoJob
      /\ UNCHANGED <<token, remote, rver, pc, batch>>
      /\ map' = [map EXCEPT ![job.uid] = NoMap]
      BY DEF Unmap, Working, Done, Continue, remoteVars
<1>2. job # NoJob
      BY <1>1 DEF NoJob
<1>3. DOMAIN map = Uid
      BY DEF Numbered
<1>4. \A v \in Uid : v # job.uid => map'[v] = map[v]
      BY <1>1, <1>3
<1>5. \A v \in Uid : v = job.uid => ~Mapped(v)'
      BY <1>1, <1>3 DEF Mapped
<1>6. Numbered'
  <2>1. DOMAIN map' = Uid
        BY <1>1, <1>3
  <2>2. \A v \in Uid : Mapped(v)' => "version" \in DOMAIN map'[v]
        BY <1>4, <1>5 DEF Numbered, Mapped
  <2> QED BY <1>1, <2>1, <2>2 DEF Numbered, There
<1>7. Resting' /\ BatchNumbered' /\ JobShape' /\ JobTrue'
      BY <1>1, <1>2 DEF Resting, BatchNumbered, JobShape, JobTrue
<1>8. BatchTrue'
      BY <1>1 DEF BatchTrue, Covered, Limit, There
<1>9. ASSUME NEW u \in Uid, job.uid = u, Covered(u)
      PROVE  Settled(u)'
  <2>1. ~There(u)
        BY <1>1, <1>2, <1>9 DEF JobTrue, Removing
  <2> QED BY <1>1, <1>5, <1>9, <2>1 DEF Settled, There
<1>10. ASSUME NEW u \in Uid, job.uid # u
       PROVE  (Settled(u)' <=> Settled(u)) /\ (Waiting(u) => Waiting(u)')
       BY <1>1, <1>4, <1>10 DEF Settled, There, Mapped, Waiting, InHand
<1>11. Accounted'
  <2>1. ASSUME NEW u \in Uid, remote'[u].at <= token'
        PROVE  Settled(u)'
        BY <1>1, <1>9, <1>10, <2>1, CoveredSoFar DEF Accounted
  <2>2. ASSUME pc' \in {"load", "apply"}, NEW u \in Uid, Covered(u)'
        PROVE  Settled(u)' \/ Waiting(u)'
    <3>1. Covered(u)
          BY <1>1, <2>2 DEF Covered, Limit
    <3> QED BY <1>1, <1>9, <1>10, <2>2, <3>1 DEF Accounted
  <2> QED BY <2>1, <2>2 DEF Accounted
<1> QED BY <1>6, <1>7, <1>8, <1>11

(* The push pass. *)

\* A row is taken: no step of its job has asked the remote anything yet.
LEMMA Starts ==
  ASSUME MirrorInv, pc = "push", job = NoJob,
         UNCHANGED <<map, token, remote, rver, pc, batch>>,
         NEW l, NEW at, NEW ver, at \notin Recording \cup Removing, job' = JobFor(l, at, ver)
  PROVE  MirrorInv'
<1> USE DEF MirrorInv
<1>1. job'.at = at /\ DOMAIN job' = {"at", "href", "uid", "mine", "rev", "doc", "ver"}
      BY DEF JobFor
<1>2. Numbered' /\ BatchNumbered' /\ Resting' /\ JobShape' /\ JobTrue' /\ BatchTrue'
      BY <1>1 DEF Numbered, BatchNumbered, Resting, JobShape, JobTrue, BatchTrue, There, Mapped
<1>3. Accounted'
      BY DEF Accounted, Settled, There, Mapped
<1> QED BY <1>2, <1>3

\* What the remote has under the UID of a new object becomes its mapping.
LEMMA AdoptHolds == ASSUME MirrorInv, NEW l, Adopt(l) PROVE MirrorInv'
<1> USE DEF MirrorInv
<1>1. /\ pc = "push" /\ job = NoJob /\ There(l.uid)
      /\ UNCHANGED <<token, remote, rver, pc, batch>>
      /\ map' = [map EXCEPT ![l.uid] = [version |-> remote[l.uid].at, doc |-> remote[l.uid].doc,
                                        pushed |-> 0]]
      /\ job' = JobFor(l, IF l.uid \in attending THEN "rsvp" ELSE "update", remote[l.uid].at)
      BY DEF Adopt, Take, remoteVars
<1>2. job'.at \in {"rsvp", "update"} /\ DOMAIN job' = {"at", "href", "uid", "mine", "rev", "doc", "ver"}
      BY <1>1 DEF JobFor
<1>3. DOMAIN map = Uid
      BY DEF Numbered
<1>4. \A v \in Uid : v # l.uid => map'[v] = map[v]
      BY <1>1, <1>3
<1>5. l.uid \in Uid => /\ map'[l.uid] = [version |-> remote[l.uid].at, doc |-> remote[l.uid].doc,
                                         pushed |-> 0]
                       /\ Mapped(l.uid)'
      BY <1>1, <1>3 DEF Mapped, NoMap
<1>6. \A v \in Uid : Mapped(v)' => "version" \in DOMAIN map'[v]
      BY <1>4, <1>5 DEF Numbered, Mapped
<1>7. Numbered' /\ BatchNumbered' /\ Resting' /\ JobShape' /\ JobTrue' /\ BatchTrue'
      BY <1>1, <1>2, <1>3, <1>6 DEF Numbered, BatchNumbered, Resting, JobShape, JobTrue, BatchTrue,
         There, Recording, Removing
<1>8. ASSUME NEW u \in Uid, Settled(u) \/ u = l.uid
      PROVE  Settled(u)'
      BY <1>1, <1>4, <1>5, <1>8 DEF Settled, There, Mapped
<1>9. Accounted'
      BY <1>1, <1>8 DEF Accounted
<1> QED BY <1>7, <1>9

\* FinalizeLocalDelete touches the object only.
LEMMA TakeHolds ==
  ASSUME MirrorInv, NEW l, FinalizeLocalDelete(l) \/ TakeCreate(l) \/ Adopt(l) \/ TakeMapped(l)
  PROVE  MirrorInv'
<1>1. CASE FinalizeLocalDelete(l)
      BY <1>1, Quiet DEF FinalizeLocalDelete, Take, remoteVars
<1>2. CASE TakeCreate(l)
  <2>1. "create" \notin Recording \cup Removing
        BY DEF Recording, Removing
  <2> QED BY <1>2, <2>1, Starts DEF TakeCreate, Take, remoteVars
<1>3. CASE TakeMapped(l)
  <2>1. \A at \in {"decline", "rsvp", "delete", "update"} : at \notin Recording \cup Removing
        BY DEF Recording, Removing
  <2>2. PICK at \in {"decline", "rsvp", "delete", "update"} : job' = JobFor(l, at, map[l.uid].version)
        BY <1>3 DEF TakeMapped
  <2> QED BY <1>3, <2>1, <2>2, Starts DEF TakeMapped, Take, remoteVars
<1> QED BY <1>1, <1>2, <1>3, AdoptHolds

\* A step of a job that asks the remote nothing, or only what it has: what the job
\* will record is what the remote has now.
LEMMA WorkHolds == ASSUME MirrorInv, Work PROVE MirrorInv'
<1> USE DEF remoteVars, storeVars
<1>0. /\ \A at : at # "none" /\ job.at = at => job # NoJob
      /\ job # NoJob => DOMAIN job = {"at", "href", "uid", "mine", "rev", "doc", "ver"}
      BY DEF MirrorInv, JobShape, NoJob
<1>1. ASSUME NEW at, NEW next, Working(at), at # "none", GoOn(next), UNCHANGED <<map, remote, rver>>,
             next \notin Recording \cup Removing, at \notin Recording \cup Removing
      PROVE  MirrorInv'
  <2>1. job # NoJob /\ job' = [job EXCEPT !.at = next] /\ job.at = at
        BY <1>0, <1>1 DEF Working, GoOn, Continue
  <2>2. DOMAIN job' = DOMAIN job /\ job'.uid = job.uid /\ job'.at = next
        BY <1>0, <2>1
  <2> QED BY <1>1, <2>1, <2>2, Moves DEF Working, GoOn, Continue
<1>2. ASSUME NEW at, NEW next, Working(at), at # "none", GoOn(next), UNCHANGED <<map, remote, rver>>,
             next \in Removing, at \in Removing \/ ~There(job.uid)
      PROVE  MirrorInv'
  <2>1. job # NoJob /\ job' = [job EXCEPT !.at = next] /\ job.at = at
        BY <1>0, <1>2 DEF Working, GoOn, Continue
  <2>2. DOMAIN job' = DOMAIN job /\ job'.uid = job.uid /\ job'.at = next
        BY <1>0, <2>1
  <2>3. next \notin Recording
        BY <1>2 DEF Recording, Removing
  <2>4. \A u \in Uid : job.uid = u /\ Covered(u) => ~There(u)
        BY <1>2, <2>1 DEF MirrorInv, JobTrue
  <2> QED BY <1>2, <2>1, <2>2, <2>3, <2>4, Moves DEF Working, GoOn, Continue
<1>3. ASSUME NEW at, NEW next, Working(at), at # "none", GoOn(next), UNCHANGED <<map, remote, rver>>,
             next \in Recording, at \in Recording
      PROVE  MirrorInv'
  <2>1. job # NoJob /\ job' = [job EXCEPT !.at = next] /\ job.at = at
        BY <1>0, <1>3 DEF Working, GoOn, Continue
  <2>2. DOMAIN job' = DOMAIN job /\ job'.uid = job.uid /\ job'.at = next /\ job'.ver = job.ver
        BY <1>0, <2>1
  <2>3. next \notin Removing
        BY <1>3 DEF Recording, Removing
  <2>4. \A u \in Uid : job.uid = u /\ Covered(u) => There(u) /\ job.ver = remote[u].at
        BY <1>3, <2>1 DEF MirrorInv, JobTrue
  <2> QED BY <1>3, <2>1, <2>2, <2>3, <2>4, Moves DEF Working, GoOn, Continue
<1>4. ASSUME NEW at, NEW next, Working(at), at # "none", There(job.uid),
             GoOnWith(next, remote[job.uid]), UNCHANGED <<map, remote, rver>>, next \in Recording
      PROVE  MirrorInv'
  <2>1. /\ job # NoJob /\ job.at = at
        /\ job' = [job EXCEPT !.at = next, !.doc = remote[job.uid].doc, !.ver = remote[job.uid].at]
        BY <1>0, <1>4 DEF Working, GoOnWith, Continue
  <2>2. /\ DOMAIN job' = DOMAIN job /\ job'.uid = job.uid /\ job'.at = next
        /\ job'.ver = remote[job.uid].at
        BY <1>0, <2>1
  <2>3. next \notin Removing
        BY <1>4 DEF Recording, Removing
  <2> QED BY <1>4, <2>1, <2>2, <2>3, Moves DEF Working, GoOnWith, Continue
<1>5. ASSUME NEW at, NEW next, NEW d, Working(at), at # "none", GoOn(next), SetRemote(job.uid, d),
             UNCHANGED map
      PROVE  MirrorInv'
  <2>1. job # NoJob
        BY <1>0, <1>5 DEF Working
  <2> QED BY <1>5, <2>1, Writes DEF Working, GoOn, Continue
<1>6. ASSUME NEW at, NEW d, NEW next, Working(at), at # "none", GoOn(next), Accept(job.uid, d), UNCHANGED map
      PROVE  MirrorInv'
      BY <1>5, <1>6 DEF Accept
<1>7. ASSUME NEW at, Working(at), PassFails, UNCHANGED <<map, remote, rver>>
      PROVE  MirrorInv'
      BY <1>7, Breaks DEF Working
<1>8. ASSUME NEW ps, NEW at, NEW next, Working(at), at # "none", SetPartstat(ps, next), UNCHANGED map,
             at \notin Recording \cup Removing
      PROVE  MirrorInv'
  <2>1. "refetch" \notin Recording \cup Removing
        BY DEF Recording, Removing
  <2>2. CASE ~Matches
        BY <1>1, <1>8, <2>1, <2>2 DEF SetPartstat
  <2>3. CASE Matches
        BY <1>6, <1>8, <2>3 DEF SetPartstat
  <2> QED BY <2>2, <2>3
<1>9. CASE Create
  <2>1. CASE There(job.uid)
    <3>1. job.at = "create" /\ job' = NoJob /\ UNCHANGED <<map, token, remote, rver, pc, batch>>
          BY <1>9, <2>1 DEF Create, Working, Done, Continue
    <3>2. ~(job.at \in Recording \cup Removing)
          BY <3>1 DEF Recording, Removing
    <3> QED BY <3>1, <3>2 DEF MirrorInv, Numbered, Resting, BatchNumbered, JobShape, JobTrue,
               BatchTrue, Accounted, Covered, Limit, Settled, There, Mapped, Waiting, InHand
  <2>2. CASE ~There(job.uid)
        BY <1>6, <1>9, <2>2 DEF Create
  <2> QED BY <2>1, <2>2
<1>10. CASE Update
  <2>1. CASE Matches
        BY <1>6, <1>10, <2>1 DEF Update
  <2>2. CASE ~Matches
        BY <1>1, <1>10, <2>2 DEF Update, Recording, Removing
  <2> QED BY <2>1, <2>2
<1>11. CASE Reread
       BY <1>4, <1>7, <1>11 DEF Reread, Recording
<1>12. CASE AdoptNormalised
       BY <1>3, <1>12 DEF AdoptNormalised, Recording
<1>13. CASE RecordPush
       BY <1>13, Records DEF RecordPush, Working, Done, Continue, Recording
<1>14. CASE RecordAdopted
       BY <1>14, Records DEF RecordAdopted, Working, Done, Continue, Recording
<1>15. CASE RecordPull
       BY <1>15, Records DEF RecordPull, Working, Done, Continue, Recording
<1>16. CASE Rsvp
  <2>1. CASE ~There(job.uid)
        BY <1>2, <1>16, <2>1 DEF Rsvp, Removing
  <2>2. CASE There(job.uid) /\ GoOn("partstat")
        BY <1>1, <1>16, <2>2 DEF Rsvp, Recording, Removing
  <2>3. CASE There(job.uid) /\ GoOnWith("overwrite", remote[job.uid])
        BY <1>4, <1>16, <2>3 DEF Rsvp, Recording
  <2> QED BY <1>16, <2>1, <2>2, <2>3 DEF Rsvp
<1>17. CASE PushPartstat
       BY <1>7, <1>8, <1>17 DEF PushPartstat, Recording, Removing
<1>18. CASE Decline
       BY <1>2, <1>8, <1>18 DEF Decline, Recording, Removing
<1>19. CASE RereadDeclined
       BY <1>2, <1>4, <1>19 DEF RereadDeclined, Recording, Removing
<1>20. CASE RemoveDeclined
  <2>1. CASE SetRemote(job.uid, NoDoc) /\ GoOn("finalize")
        BY <1>5, <1>20, <2>1 DEF RemoveDeclined
  <2>2. CASE ~There(job.uid) /\ GoOn("finalize") /\ UNCHANGED remoteVars
        BY <1>2, <1>20, <2>2 DEF RemoveDeclined, Removing
  <2>3. CASE GoOn("overwrite") /\ UNCHANGED remoteVars
        BY <1>3, <1>20, <2>3 DEF RemoveDeclined, Recording
  <2> QED BY <1>20, <2>1, <2>2, <2>3 DEF RemoveDeclined
<1>21. CASE DeleteRemote
  <2>1. CASE SetRemote(job.uid, NoDoc) /\ GoOn("finalize")
        BY <1>5, <1>21, <2>1 DEF DeleteRemote
  <2>2. CASE ~There(job.uid) /\ GoOn("finalize") /\ UNCHANGED remoteVars
        BY <1>2, <1>21, <2>2 DEF DeleteRemote, Removing
  <2>3. CASE GoOn("refetch") /\ UNCHANGED remoteVars
        BY <1>1, <1>21, <2>3 DEF DeleteRemote, Recording, Removing
  <2> QED BY <1>21, <2>1, <2>2, <2>3 DEF DeleteRemote
<1>22. CASE Refetch
       BY <1>2, <1>4, <1>22 DEF Refetch, Recording, Removing
<1>23. CASE Overwrite
       BY <1>3, <1>7, <1>23 DEF Overwrite, Recording
<1>24. CASE Drop
       BY <1>2, <1>24 DEF Drop, Removing
<1>25. CASE Finalize
       BY <1>2, <1>25 DEF Finalize, Removing
<1> QED BY <1>9, <1>10, <1>11, <1>12, <1>13, <1>14, <1>15, <1>16, <1>17, <1>18, <1>19, <1>20,
           <1>21, <1>22, <1>23, <1>24, <1>25, UnmapHolds DEF Work

LEMMA BeginHolds == ASSUME MirrorInv, BeginPass \/ EndPush PROVE MirrorInv'
<1>1. /\ pc \in {"idle", "push"} /\ pc' \in {"push", "pull"} /\ job = NoJob /\ job' = NoJob
      /\ UNCHANGED <<map, token, remote, rver>>
      BY DEF BeginPass, EndPush, storeVars, remoteVars, MirrorInv, Resting
<1>2. Numbered' /\ Resting' /\ JobShape' /\ JobTrue' /\ BatchNumbered' /\ BatchTrue'
      BY <1>1 DEF MirrorInv, Numbered, Resting, JobShape, JobTrue, BatchNumbered, BatchTrue, There, Mapped
<1>3. Accounted'
      BY <1>1 DEF MirrorInv, Accounted, Settled, There, Mapped
<1> QED BY <1>2, <1>3 DEF MirrorInv

(* The pull pass. *)

\* What a listing leaves out has not changed since the token, or is looked for later.
LEMMA ListHolds == ASSUME MirrorInv, List PROVE MirrorInv'
<1> USE DEF MirrorInv
<1>1. /\ pc = "pull" /\ pc' = "load" /\ job = NoJob /\ job' = NoJob
      /\ UNCHANGED <<map, token, remote, rver>>
      BY DEF List, storeVars, remoteVars, Resting
<1>2. PICK since \in {0, token} : batch' = Listing(since)
      BY DEF List
<1>3. /\ DOMAIN batch' = {"listed", "gone", "seen", "items", "sweep", "next"}
      /\ batch'.listed = {u \in Uid : remote[u].at > since /\ There(u)}
      /\ batch'.gone = IF since = 0 THEN {} ELSE {u \in Uid : remote[u].at > since /\ ~There(u)}
      /\ batch'.sweep = IF since = 0 THEN "due" ELSE "done"
      /\ batch'.next = rver
      BY <1>2 DEF Listing
<1>4. \A u \in Uid : /\ remote[u].at \in Nat
                     /\ There(u) => remote[u].at > 0
      BY DEF Numbered
<1>5. \A u \in Uid : (There(u)' <=> There(u)) /\ (Settled(u)' <=> Settled(u))
      BY <1>1 DEF There, Settled, Mapped
<1>6. Numbered' /\ Resting' /\ JobShape' /\ JobTrue'
      BY <1>1, <1>5 DEF Numbered, Resting, JobShape, JobTrue, Mapped
<1>7. BatchNumbered'
      BY <1>1, <1>3 DEF BatchNumbered, Numbered
<1>8. BatchTrue'
      BY <1>1, <1>3, <1>4, <1>5 DEF BatchTrue
<1>9. ASSUME NEW u \in Uid
      PROVE  Settled(u) \/ Waiting(u)'
  <2>1. CASE since = 0
        BY <1>3, <1>4, <1>5, <2>1 DEF Waiting
  <2>2. CASE since = token /\ since # 0
    <3>1. CASE remote[u].at <= token
          BY <3>1 DEF Accounted
    <3>2. CASE ~(remote[u].at <= token)
      <4>1. remote[u].at > token
            BY <1>4, <3>2 DEF Numbered
      <4> QED BY <1>3, <1>5, <2>2, <4>1 DEF Waiting
    <3> QED BY <3>1, <3>2
  <2> QED BY <2>1, <2>2
<1>10. Accounted'
       BY <1>1, <1>5, <1>9 DEF Accounted
<1> QED BY <1>6, <1>7, <1>8, <1>10

\* What is fetched is what the remote has at that moment.
LEMMA LoadHolds == ASSUME MirrorInv, Load PROVE MirrorInv'
<1> USE DEF MirrorInv
<1>1. /\ pc = "load" /\ pc' = "apply" /\ job = NoJob /\ job' = NoJob
      /\ UNCHANGED <<map, token, remote, rver>>
      BY DEF Load, storeVars, remoteVars, Resting
<1>2. DOMAIN batch = {"listed", "gone", "seen", "items", "sweep", "next"}
      BY <1>1 DEF BatchNumbered
<1>3. PICK there : /\ there = {u \in batch.listed : There(u)}
                   /\ batch' = [batch EXCEPT !.items = remote, !.listed = there, !.seen = there]
      BY DEF Load
<1>4. /\ DOMAIN batch' = DOMAIN batch
      /\ batch'.items = remote /\ batch'.listed = there /\ batch'.seen = there
      /\ batch'.gone = batch.gone /\ batch'.sweep = batch.sweep /\ batch'.next = batch.next
      BY <1>2, <1>3
<1>5. \A u \in Uid : /\ There(u)' <=> There(u)
                     /\ Settled(u)' <=> Settled(u)
                     /\ Covered(u)' <=> Covered(u)
      BY <1>1, <1>4 DEF There, Settled, Mapped, Covered, Limit
<1>6. Numbered' /\ Resting' /\ JobShape' /\ JobTrue'
      BY <1>1, <1>5 DEF Numbered, Resting, JobShape, JobTrue, Mapped
<1>7. BatchNumbered'
      BY <1>1, <1>3, <1>4 DEF BatchNumbered
<1>8. BatchTrue'
      BY <1>1, <1>3, <1>4, <1>5 DEF BatchTrue
<1>9. ASSUME NEW u \in Uid, Covered(u), Waiting(u)
      PROVE  Waiting(u)'
  <2>1. u \in batch.listed => u \in batch'.listed
        BY <1>1, <1>3, <1>4, <1>9 DEF BatchTrue
  <2> QED BY <1>1, <1>4, <1>5, <1>9, <2>1 DEF Waiting, InHand
<1>10. Accounted'
       BY <1>1, <1>5, <1>9 DEF Accounted
<1> QED BY <1>6, <1>7, <1>8, <1>10

\* An echo has the version of its mapping refreshed.
LEMMA SkipEchoHolds == ASSUME MirrorInv, NEW u \in Uid, SkipEcho(u) PROVE MirrorInv'
<1> USE DEF MirrorInv
<1>1. /\ pc = "apply" /\ pc' = pc /\ job = NoJob /\ job' = NoJob
      /\ UNCHANGED <<token, remote, rver>>
      /\ u \in batch.listed /\ Mapped(u)
      /\ map' = [map EXCEPT ![u].version = batch.items[u].at]
      /\ batch' = [batch EXCEPT !.listed = @ \ {u}]
      BY DEF SkipEcho, remoteVars, Echo
<1>2. DOMAIN batch = {"listed", "gone", "seen", "items", "sweep", "next"}
      BY <1>1 DEF BatchNumbered
<1>3. /\ DOMAIN batch' = DOMAIN batch /\ batch'.listed = batch.listed \ {u}
      /\ batch'.items = batch.items /\ batch'.seen = batch.seen
      /\ batch'.gone = batch.gone /\ batch'.sweep = batch.sweep /\ batch'.next = batch.next
      BY <1>1, <1>2
<1>4. DOMAIN map = Uid /\ "version" \in DOMAIN map[u]
      BY <1>1 DEF Numbered
<1>5. /\ map'[u] = [map[u] EXCEPT !.version = batch.items[u].at]
      /\ DOMAIN map' = Uid
      /\ \A v \in Uid \ {u} : map'[v] = map[v]
      BY <1>1, <1>4
<1>6. DOMAIN map'[u] = DOMAIN map[u] /\ map'[u].version = batch.items[u].at
      BY <1>4, <1>5
<1>7. \A v \in Uid : /\ There(v)' <=> There(v)
                     /\ Covered(v)' <=> Covered(v)
                     /\ v # u => (Settled(v)' <=> Settled(v)) /\ (Waiting(v)' <=> Waiting(v))
      BY <1>1, <1>3, <1>5 DEF There, Settled, Mapped, Covered, Limit, Waiting, InHand
<1>8. Mapped(u)'
  <2>1. "version" \notin DOMAIN NoMap
        BY DEF NoMap
  <2> QED BY <1>4, <1>6, <2>1 DEF Mapped
<1>9. Covered(u) => Settled(u)'
      BY <1>1, <1>6, <1>7, <1>8 DEF Settled, BatchTrue
<1>10. Numbered'
  <2>1. \A v \in Uid : Mapped(v)' => "version" \in DOMAIN map'[v]
        BY <1>4, <1>5, <1>6 DEF Numbered, Mapped
  <2> QED BY <1>1, <1>5, <1>7, <2>1 DEF Numbered
<1>11. Resting' /\ JobShape' /\ JobTrue' /\ BatchNumbered'
       BY <1>1, <1>3, <1>7 DEF Resting, JobShape, JobTrue, BatchNumbered
<1>12. BatchTrue'
       BY <1>1, <1>3, <1>7 DEF BatchTrue
<1>13. Accounted'
       BY <1>1, <1>7, <1>9, CoveredSoFar DEF Accounted
<1> QED BY <1>10, <1>11, <1>12, <1>13

\* What is listed and no echo goes into the store, and is recorded from what was loaded.
LEMMA ApplyHolds == ASSUME MirrorInv, NEW u \in Uid, Apply(u) PROVE MirrorInv'
<1> USE DEF MirrorInv
<1>1. /\ pc = "apply" /\ pc' = pc /\ job = NoJob
      /\ UNCHANGED <<map, token, remote, rver>>
      /\ u \in batch.listed
      /\ batch' = [batch EXCEPT !.listed = @ \ {u}]
      BY DEF Apply, remoteVars, storeVars
<1>2. PICK h \in Href : job' = PullJob(u, h, "overwrite", batch.items[u].doc, batch.items[u].at)
      BY DEF Apply
<1>3. /\ DOMAIN job' = {"at", "href", "uid", "mine", "rev", "doc", "ver"}
      /\ job'.at = "overwrite" /\ job'.uid = u /\ job'.ver = batch.items[u].at
      BY <1>2 DEF PullJob
<1>4. job' # NoJob
      BY <1>3 DEF NoJob
<1>5. DOMAIN batch = {"listed", "gone", "seen", "items", "sweep", "next"}
      BY <1>1 DEF BatchNumbered
<1>6. /\ DOMAIN batch' = DOMAIN batch /\ batch'.listed = batch.listed \ {u}
      /\ batch'.items = batch.items /\ batch'.seen = batch.seen
      /\ batch'.gone = batch.gone /\ batch'.sweep = batch.sweep /\ batch'.next = batch.next
      BY <1>1, <1>5
<1>7. \A v \in Uid : /\ There(v)' <=> There(v)
                     /\ Covered(v)' <=> Covered(v)
                     /\ Settled(v)' <=> Settled(v)
                     /\ Waiting(v) => Waiting(v)'
      BY <1>1, <1>3, <1>4, <1>6 DEF There, Settled, Mapped, Covered, Limit, Waiting, InHand, Recording
<1>8. JobTrue'
      BY <1>1, <1>3, <1>7 DEF JobTrue, BatchTrue, Removing
<1>9. Numbered' /\ Resting' /\ JobShape' /\ BatchNumbered' /\ BatchTrue' /\ Accounted'
      BY <1>1, <1>3, <1>6, <1>7 DEF Numbered, Resting, JobShape, BatchNumbered, BatchTrue, Accounted, Mapped
<1> QED BY <1>8, <1>9

\* A mapping of what is gone goes, in the steps of its job.
LEMMA ApplyGoneHolds == ASSUME MirrorInv, NEW u \in Uid, ApplyGone(u) PROVE MirrorInv'
<1> USE DEF MirrorInv
<1>1. /\ pc = "apply" /\ pc' = pc /\ job = NoJob
      /\ UNCHANGED <<map, token, remote, rver>>
      /\ u \in batch.gone
      /\ batch' = [batch EXCEPT !.gone = @ \ {u}]
      BY DEF ApplyGone, remoteVars, storeVars
<1>2. \/ ~Mapped(u) /\ job' = NoJob
      \/ \E h, at : at \in Removing /\ job' = PullJob(u, h, at, NoDoc, 0)
      BY DEF ApplyGone, Removing
<1>3. job' # NoJob => /\ DOMAIN job' = {"at", "href", "uid", "mine", "rev", "doc", "ver"}
                      /\ job'.at \in Removing /\ job'.uid = u
      BY <1>2 DEF PullJob
<1>4. ~Mapped(u) \/ job' # NoJob
      BY <1>2 DEF PullJob, NoJob
<1>5. DOMAIN batch = {"listed", "gone", "seen", "items", "sweep", "next"}
      BY <1>1 DEF BatchNumbered
<1>6. /\ DOMAIN batch' = DOMAIN batch /\ batch'.listed = batch.listed
      /\ batch'.items = batch.items /\ batch'.seen = batch.seen
      /\ batch'.gone = batch.gone \ {u} /\ batch'.sweep = batch.sweep /\ batch'.next = batch.next
      BY <1>1, <1>5
<1>7. \A v \in Uid : /\ There(v)' <=> There(v)
                     /\ Covered(v)' <=> Covered(v)
                     /\ Settled(v)' <=> Settled(v)
                     /\ v # u => (Waiting(v) => Waiting(v)')
      BY <1>1, <1>6 DEF There, Settled, Mapped, Covered, Limit, Waiting, InHand
<1>8. Covered(u) => ~There(u)
      BY <1>1 DEF BatchTrue
<1>9. Covered(u) => Settled(u) \/ Waiting(u)'
      BY <1>3, <1>4, <1>8 DEF Settled, Waiting, InHand
<1>10. JobTrue'
       BY <1>1, <1>3, <1>7, <1>8 DEF JobTrue, Recording, Removing
<1>11. Numbered' /\ Resting' /\ JobShape' /\ BatchNumbered' /\ BatchTrue'
       BY <1>1, <1>3, <1>6, <1>7 DEF Numbered, Resting, JobShape, BatchNumbered, BatchTrue, Mapped
<1>12. Accounted'
       BY <1>1, <1>7, <1>9 DEF Accounted
<1> QED BY <1>10, <1>11, <1>12

\* Whatever has a mapping and was not listed in full has gone from the remote.
LEMMA SweepHolds == ASSUME MirrorInv, Sweep PROVE MirrorInv'
<1> USE DEF MirrorInv
<1>1. /\ pc = "apply" /\ pc' = pc /\ job = NoJob /\ job' = NoJob
      /\ UNCHANGED <<map, token, remote, rver>>
      /\ batch.listed = {} /\ batch.gone = {} /\ batch.sweep = "due"
      /\ batch' = [batch EXCEPT !.sweep = "done",
                                !.gone = {u \in Uid : Mapped(u) /\ u \notin batch.seen}]
      BY DEF Sweep, remoteVars, storeVars
<1>2. DOMAIN batch = {"listed", "gone", "seen", "items", "sweep", "next"}
      BY <1>1 DEF BatchNumbered
<1>3. /\ DOMAIN batch' = DOMAIN batch /\ batch'.listed = {}
      /\ batch'.items = batch.items /\ batch'.seen = batch.seen
      /\ batch'.gone = {u \in Uid : Mapped(u) /\ u \notin batch.seen}
      /\ batch'.sweep = "done" /\ batch'.next = batch.next
      BY <1>1, <1>2
<1>4. \A u \in Uid : /\ There(u)' <=> There(u)
                     /\ Covered(u)' <=> Covered(u)
                     /\ Settled(u)' <=> Settled(u)
      BY <1>1, <1>3 DEF There, Settled, Mapped, Covered, Limit
<1>5. Numbered' /\ Resting' /\ JobShape' /\ JobTrue' /\ BatchNumbered'
      BY <1>1, <1>3, <1>4 DEF Numbered, Resting, JobShape, JobTrue, BatchNumbered, Mapped
<1>6. BatchTrue'
      BY <1>1, <1>3, <1>4 DEF BatchTrue
<1>7. ASSUME NEW u \in Uid, Covered(u)
      PROVE  Settled(u) \/ Waiting(u)'
  <2>1. ~There(u) => u \notin batch.seen
        BY <1>1, <1>7 DEF BatchTrue
  <2>2. There(u) => Settled(u)
        BY <1>1, <1>7 DEF Accounted, Waiting, InHand
  <2> QED BY <1>3, <2>1, <2>2 DEF Settled, Waiting
<1>8. Accounted'
      BY <1>1, <1>4, <1>7 DEF Accounted
<1> QED BY <1>5, <1>6, <1>8

\* Nothing is left to do: all that the new token covers is settled.
LEMMA EndPullHolds == ASSUME MirrorInv, EndPull PROVE MirrorInv'
<1> USE DEF MirrorInv
<1>1. /\ pc = "apply" /\ pc' = "idle" /\ job = NoJob /\ job' = NoJob
      /\ UNCHANGED <<map, remote, rver>> /\ token' = batch.next
      /\ batch.listed = {} /\ batch.gone = {} /\ batch.sweep = "done"
      BY DEF EndPull, remoteVars
<1>2. batch.next \in Nat /\ batch.next <= rver
      BY <1>1 DEF BatchNumbered, Numbered
<1>3. Numbered' /\ Resting' /\ JobShape' /\ JobTrue' /\ BatchNumbered' /\ BatchTrue'
      BY <1>1, <1>2 DEF Numbered, Resting, JobShape, JobTrue, BatchNumbered, BatchTrue, There, Mapped
<1>4. ASSUME NEW u \in Uid, remote[u].at <= batch.next
      PROVE  Settled(u)
  <2>1. Covered(u)
        BY <1>1, <1>4 DEF Covered, Limit
  <2> QED BY <1>1, <2>1 DEF Accounted, Waiting, InHand
<1>5. Accounted'
      BY <1>1, <1>4 DEF Accounted, Settled, There, Mapped
<1> QED BY <1>3, <1>5

----------------------------------------------------------------------------

LEMMA StepHolds == ASSUME MirrorInv, [Next]_vars PROVE MirrorInv'
<1>1. CASE UNCHANGED vars
      BY <1>1, Quiet DEF vars
<1>2. CASE Thread
  <2>1. CASE List \/ Load \/ Sweep \/ EndPull
        BY <2>1, ListHolds, LoadHolds, SweepHolds, EndPullHolds
  <2>2. CASE \E u \in Uid : SkipEcho(u) \/ Apply(u) \/ ApplyGone(u)
        BY <2>2, SkipEchoHolds, ApplyHolds, ApplyGoneHolds
  <2>3. CASE \E l \in todo : FinalizeLocalDelete(l) \/ TakeCreate(l) \/ Adopt(l) \/ TakeMapped(l)
        BY <2>3, TakeHolds
  <2> QED BY <1>2, <2>1, <2>2, <2>3, BeginHolds, WorkHolds DEF Thread
<1>3. CASE Environment
  <2>1. CASE \E h \in Href : ClientDelete(h) \/ \E u \in Uid : ClientPut(h, u)
        BY <2>1, Quiet DEF ClientDelete, ClientPut, remoteVars, threadVars
  <2>2. ASSUME NEW u \in Uid, OtherWrite(u) \/ OtherDelete(u)
        PROVE  MirrorInv'
    <3>1. \E d : SetRemote(u, d)
          BY <2>2 DEF OtherWrite, OtherDelete
    <3>2. UNCHANGED <<map, token, pc, job, batch>>
          BY <2>2 DEF OtherWrite, OtherDelete, storeVars, threadVars
    <3> QED BY <3>1, <3>2, Writes
  <2>3. CASE Abort
        BY <2>3, Breaks DEF Abort, storeVars, remoteVars
  <2> QED BY <1>3, <2>1, <2>2, <2>3 DEF Environment
<1> QED BY <1>1, <1>2, <1>3 DEF Next

LEMMA TellsMap == MirrorInv => TokenTellsMap
BY DEF MirrorInv, Accounted, Settled, TokenTellsMap

\* Of every event whose last change the sync token covers, the mirror map has the
\* version the remote has, and none of what it does not have (pull, push_pending and
\* set_calendar_mirror_state), whatever is written meanwhile and wherever the pass fails.
THEOREM MapIsTold == Spec => []TokenTellsMap
<1>1. Init => MirrorInv
      BY InitHolds
<1>2. MirrorInv /\ [Next]_vars => MirrorInv'
      BY StepHolds
<1> QED BY <1>1, <1>2, TellsMap, PTL DEF Spec

-----------------------------------------------------------------------------
(***************************************************************************)
(* Why the mirror does not go on writing. A write to the remote is paid    *)
(* for beforehand: every event holds a credit, the writes that are still   *)
(* to come if nobody else does anything, and a client's write adds two to  *)
(* it, another writer of the remote and a failure one. What the thread has *)
(* in hand for an event is counted apart from the event's row: the row it  *)
(* was listed from is not to be counted again, and a row a client has      *)
(* written since is counted in full, whatever the mapping is by the time   *)
(* it is looked at.                                                        *)
(***************************************************************************)

PushJob(u) == pc = "push" /\ job # NoJob /\ job.uid = u
ListedFor(u) == \E l \in todo : l.uid = u

\* A declined event is written twice, if it is there.
Twice(u, soft) == soft /\ u \in attending /\ There(u)

OnLive   == {"create", "update", "rsvp", "partstat", "reread", "adopt", "recordPush"}
OnSoft   == {"decline", "rereadDeclined", "removeDeclined", "delete", "finalize"}
OnEither == {"refetch", "overwrite", "drop"}

\* The row is the one the thread has in hand.
InList(h) == \E l \in todo : l.uid = obj[h].uid /\ l.href = h /\ l.rev = obj[h].rev /\ l.soft = obj[h].soft

InJob(h) ==
    /\ PushJob(obj[h].uid) /\ job.href = h /\ job.rev = obj[h].rev
    /\ \/ job.at \in OnLive /\ ~obj[h].soft
       \/ job.at \in OnSoft /\ obj[h].soft
       \/ job.at \in OnEither

\* A row that was written while a pull was about to remove the event: once the
\* mapping is gone it counts as new.
Loose(h) ==
    /\ pc = "apply" /\ job # NoJob /\ job.uid = obj[h].uid
    /\ \/ job.at \in {"recordPull", "unmap"}
       \/ job.at \in {"drop", "finalize"} /\ h # job.href
       \/ job.at = "finalize" /\ ~obj[h].soft

RowCredit(h) ==
    IF obj[h].origin # "client" THEN 0
    ELSE IF ListedFor(obj[h].uid) \/ PushJob(obj[h].uid) THEN IF InList(h) \/ InJob(h) THEN 0 ELSE 2
    ELSE IF Loose(h) THEN 2
    ELSE IF ~NeedsPush(h) THEN 0
    ELSE IF Twice(obj[h].uid, obj[h].soft) THEN 2 ELSE 1

OwnCredit(u) ==
    IF \E h \in HrefsOf(u) : RowCredit(h) = 2 THEN 2
    ELSE IF \E h \in HrefsOf(u) : RowCredit(h) = 1 THEN 1 ELSE 0

\* The requests the job may still make. One whose answer was lost with the event
\* is made again; and a delete that broke off between its two writes begins anew.
JobCredit(u) ==
    IF job.at \in {"create", "update", "rsvp", "partstat", "delete", "rereadDeclined", "removeDeclined"} THEN 1
    ELSE IF job.at = "decline" THEN IF There(u) THEN 2 ELSE 1
    ELSE IF job.at = "reread" THEN IF There(u) THEN 0 ELSE 1
    ELSE IF job.at \in {"refetch", "overwrite", "drop", "finalize"} THEN IF There(u) THEN 1 ELSE 0
    ELSE 0

ThreadCredit(u) ==
    IF ListedFor(u) THEN IF \E l \in todo : l.uid = u /\ Twice(u, l.soft) THEN 2 ELSE 1
    ELSE IF PushJob(u) THEN JobCredit(u) ELSE 0

Credit == [u \in Uid |-> ThreadCredit(u) + OwnCredit(u)]

Tokens(f) == {t \in Uid \X (1 .. 4) : t[2] <= f[t[1]]}

RowShape ==
    /\ DOMAIN obj = Href
    /\ \A h \in Href : Has(h) =>
          /\ DOMAIN obj[h] = {"uid", "doc", "rev", "origin", "soft"}
          /\ obj[h].uid \in Uid /\ obj[h].rev \in Nat /\ obj[h].soft \in BOOLEAN

MapShape == \A u \in Uid : Mapped(u) => "pushed" \in DOMAIN map[u]

\* An event has one row.
OneRow == \A g, h \in Href : Has(g) /\ Has(h) /\ obj[g].uid = obj[h].uid => g = h

\* What the thread has in hand is of one event each.
InTurn ==
    /\ todo # {} => pc = "push"
    /\ \A l \in todo : l.uid \in Uid /\ l.href \in Href /\ l.rev \in Nat /\ l.soft \in BOOLEAN
    /\ \A l, k \in todo : l.uid = k.uid => l = k
    /\ job # NoJob =>
          /\ job.uid \in Uid /\ job.href \in Href /\ job.rev \in Nat
          /\ \/ pc = "push" /\ ~ListedFor(job.uid)
             \/ pc = "apply" /\ job.at \in {"overwrite", "recordPull", "drop", "finalize", "unmap"}

Paid ==
    /\ acts \in Nat /\ faults \in Nat
    /\ IsFiniteSet(Tokens(Credit))
    /\ rver + Cardinality(Tokens(Credit)) <= 1 + 2 * acts + faults

PushInv == MirrorInv /\ RowShape /\ MapShape /\ OneRow /\ InTurn /\ Paid

-----------------------------------------------------------------------------
(* Counting *)

LEMMA CreditType == Credit \in [Uid -> 0 .. 4]
  BY DEF Credit, ThreadCredit, OwnCredit, JobCredit

LEMMA CreditTypeAfter == Credit' \in [Uid -> 0 .. 4]
  BY DEF Credit, ThreadCredit, OwnCredit, JobCredit

LEMMA Few ==
  ASSUME NEW u, NEW n \in 0 .. 4
  PROVE  IsFiniteSet({u} \X (1 .. n)) /\ Cardinality({u} \X (1 .. n)) = n
<1>1. IsFiniteSet(1 .. n) /\ Cardinality(1 .. n) = n
  <2>1. n \in Int /\ 1 \in Int
    OBVIOUS
  <2>2. /\ IsFiniteSet(1 .. n)
        /\ Cardinality(1 .. n) = IF 1 > n THEN 0 ELSE n - 1 + 1
    BY <2>1, FS_Interval
  <2> QED BY <2>2
<1>2. IsFiniteSet({u}) /\ Cardinality({u}) = 1
  BY FS_Singleton
<1> DEFINE S == {u}
           T == 1 .. n
<1> HIDE DEF S, T
<1>3. IsFiniteSet(S) /\ IsFiniteSet(T) /\ Cardinality(S) = 1 /\ Cardinality(T) = n
  BY <1>1, <1>2 DEF S, T
<1>4. IsFiniteSet(S \X T) /\ Cardinality(S \X T) = Cardinality(S) * Cardinality(T)
  BY <1>3, FS_Product
<1>5. Cardinality(S \X T) = n
  BY <1>3, <1>4
<1> QED BY <1>4, <1>5 DEF S, T

\* If one event gains at most what it is given and the others gain nothing, so
\* does the sum.
LEMMA Balance ==
  ASSUME NEW f \in [Uid -> 0 .. 4], NEW g \in [Uid -> 0 .. 4], NEW u \in Uid,
         IsFiniteSet(Tokens(f)), \A v \in Uid \ {u} : g[v] <= f[v]
  PROVE  /\ IsFiniteSet(Tokens(g))
         /\ Cardinality(Tokens(g)) <= Cardinality(Tokens(f)) + g[u] - f[u]
<1> DEFINE Rest == {t \in Tokens(f) : t[1] # u}
           Less == {t \in Tokens(g) : t[1] # u}
           F == {u} \X (1 .. f[u])
           G == {u} \X (1 .. g[u])
<1>1. IsFiniteSet(Rest) /\ IsFiniteSet(Less) /\ Cardinality(Less) <= Cardinality(Rest)
  <2>1. Rest \subseteq Tokens(f) /\ Less \subseteq Rest
    BY DEF Tokens
  <2> QED BY <2>1, FS_Subset
<1>2. /\ IsFiniteSet(F) /\ Cardinality(F) = f[u]
      /\ IsFiniteSet(G) /\ Cardinality(G) = g[u]
  BY Few
<1>3. Tokens(f) = Rest \cup F /\ Rest \cap F = {}
  BY DEF Tokens
<1>4. Tokens(g) = Less \cup G /\ Less \cap G = {}
  BY DEF Tokens
<1> HIDE DEF Rest, Less, F, G
<1>5. /\ IsFiniteSet(Tokens(g))
      /\ Cardinality(Tokens(g)) = Cardinality(Less) + Cardinality(G) - Cardinality(Less \cap G)
      /\ Cardinality(Tokens(f)) = Cardinality(Rest) + Cardinality(F) - Cardinality(Rest \cap F)
  <2>1. /\ IsFiniteSet(Less \cup G)
        /\ Cardinality(Less \cup G) = Cardinality(Less) + Cardinality(G) - Cardinality(Less \cap G)
    BY <1>1, <1>2, FS_Union
  <2>2. Cardinality(Rest \cup F) = Cardinality(Rest) + Cardinality(F) - Cardinality(Rest \cap F)
    BY <1>1, <1>2, FS_Union
  <2> QED BY <1>3, <1>4, <2>1, <2>2
<1>6. /\ Cardinality({}) = 0
      /\ Cardinality(Less) \in Nat /\ Cardinality(Rest) \in Nat
  BY <1>1, FS_EmptySet, FS_CardinalityType
<1>7. f[u] \in Nat /\ g[u] \in Nat
  OBVIOUS
<1>8. Cardinality(Tokens(g)) = Cardinality(Less) + g[u] /\ Cardinality(Tokens(f)) = Cardinality(Rest) + f[u]
  <2>1. Cardinality(Less \cap G) = 0 /\ Cardinality(Rest \cap F) = 0
    BY <1>3, <1>4, <1>6
  <2>2. Cardinality(Less) + g[u] - 0 = Cardinality(Less) + g[u] /\ Cardinality(Rest) + f[u] - 0 = Cardinality(Rest) + f[u]
    BY <1>6, <1>7
  <2> QED BY <1>2, <1>5, <2>1, <2>2
<1> QED BY <1>1, <1>5, <1>6, <1>7, <1>8

\* A step that writes the remote w times keeps the sum, if it pays for them.
LEMMA Pays ==
  ASSUME PushInv, NEW u \in Uid, NEW w \in Nat, rver' = rver + w, acts' \in Nat, faults' \in Nat,
         \A v \in Uid \ {u} : Credit'[v] <= Credit[v],
         Credit'[u] + w <= Credit[u] + 2 * (acts' - acts) + (faults' - faults)
  PROVE  Paid'
<1> DEFINE f == Credit
           g == Credit'
<1>1. f \in [Uid -> 0 .. 4] /\ g \in [Uid -> 0 .. 4]
  BY CreditType, CreditTypeAfter
<1>2. /\ acts \in Nat /\ faults \in Nat /\ rver \in Nat
      /\ IsFiniteSet(Tokens(f))
      /\ rver + Cardinality(Tokens(f)) <= 1 + 2 * acts + faults
  BY DEF PushInv, Paid, MirrorInv, Numbered
<1>3. \A v \in Uid \ {u} : g[v] <= f[v]
  OBVIOUS
<1>4. g[u] + w <= f[u] + 2 * (acts' - acts) + (faults' - faults)
  OBVIOUS
<1>5. Tokens(Credit)' = Tokens(g)
  BY DEF Tokens
<1> HIDE DEF f, g
<1>6. /\ IsFiniteSet(Tokens(g))
      /\ Cardinality(Tokens(g)) <= Cardinality(Tokens(f)) + g[u] - f[u]
  BY <1>1, <1>2, <1>3, Balance
<1>7. /\ Cardinality(Tokens(f)) \in Nat /\ Cardinality(Tokens(g)) \in Nat
      /\ f[u] \in Nat /\ g[u] \in Nat
  <2>1. Cardinality(Tokens(f)) \in Nat /\ Cardinality(Tokens(g)) \in Nat
    BY <1>2, <1>6, FS_CardinalityType
  <2>2. f[u] \in Nat /\ g[u] \in Nat
    BY <1>1
  <2> QED BY <2>1, <2>2
<1>8. rver' + Cardinality(Tokens(g)) <= 1 + 2 * acts' + faults'
  BY <1>2, <1>4, <1>6, <1>7
<1> QED BY <1>5, <1>6, <1>8 DEF Paid

-----------------------------------------------------------------------------
(* The credit of an event *)

LEMMA Small == \A h \in Href : RowCredit(h) \in {0, 1, 2} /\ RowCredit(h)' \in {0, 1, 2}
  BY DEF RowCredit

LEMMA AllSmall ==
  ASSUME NEW u
  PROVE  /\ OwnCredit(u) \in {0, 1, 2} /\ OwnCredit(u)' \in {0, 1, 2}
         /\ ThreadCredit(u) \in {0, 1, 2} /\ ThreadCredit(u)' \in {0, 1, 2}
  BY DEF OwnCredit, ThreadCredit, JobCredit

LEMMA CreditIs ==
  ASSUME NEW u \in Uid
  PROVE  Credit[u] = ThreadCredit(u) + OwnCredit(u) /\ Credit'[u] = ThreadCredit(u)' + OwnCredit(u)'
  BY DEF Credit

\* What becomes of a row's credit becomes of its event's.
LEMMA OwnAtMost ==
  ASSUME NEW u, \A h \in HrefsOf(u)' : h \in HrefsOf(u) /\ RowCredit(h)' <= RowCredit(h)
  PROVE  OwnCredit(u)' <= OwnCredit(u)
<1>1. HrefsOf(u)' \subseteq Href
  BY DEF HrefsOf
<1> QED BY <1>1, Small DEF OwnCredit

LEMMA OwnNothing ==
  ASSUME NEW u, \A h \in HrefsOf(u)' : RowCredit(h)' = 0
  PROVE  OwnCredit(u)' = 0
  BY DEF OwnCredit

\* An event the step is not about.
LEMMA OtherKeeps ==
  ASSUME NEW v \in Uid,
         pc' = pc, attending' = attending, remote'[v] = remote[v], map'[v] = map[v],
         \A l : l.uid = v => (l \in todo' <=> l \in todo),
         job' = job \/ ((job = NoJob \/ job.uid # v) /\ (job' = NoJob \/ job'.uid # v)),
         \A h \in Href : Has(h)' /\ obj'[h].uid = v => obj'[h] = obj[h]
  PROVE  Credit'[v] <= Credit[v]
<1>1. /\ ListedFor(v)' = ListedFor(v)
      /\ PushJob(v)' = PushJob(v)
      /\ There(v)' = There(v)
      /\ Pushed(v)' = Pushed(v)
      /\ \A soft : Twice(v, soft)' = Twice(v, soft)
  BY DEF ListedFor, PushJob, There, Pushed, Mapped, Twice
<1>2. ASSUME NEW h \in HrefsOf(v)'
      PROVE  h \in HrefsOf(v) /\ RowCredit(h)' = RowCredit(h)
  <2>1. h \in Href /\ obj'[h] = obj[h] /\ obj[h].uid = v /\ Has(h) /\ Has(h)'
    BY <1>2 DEF HrefsOf, Has
  <2>2. InList(h)' = InList(h)
    BY <2>1 DEF InList
  <2>3. InJob(h)' = InJob(h) /\ Loose(h)' = Loose(h)
    BY <1>1, <2>1 DEF InJob, Loose, PushJob
  <2>4. NeedsPush(h)' = NeedsPush(h)
    BY <1>1, <2>1 DEF NeedsPush
  <2> QED BY <1>1, <2>1, <2>2, <2>3, <2>4 DEF RowCredit, HrefsOf
<1>3. OwnCredit(v)' <= OwnCredit(v)
  <2>1. \A h \in HrefsOf(v)' : RowCredit(h)' <= RowCredit(h)
    BY <1>2, Small DEF HrefsOf
  <2> QED BY <1>2, <2>1, OwnAtMost
<1>4. ThreadCredit(v)' = ThreadCredit(v)
  <2>1. (\E l \in todo : l.uid = v /\ Twice(v, l.soft))' = (\E l \in todo : l.uid = v /\ Twice(v, l.soft))
    BY <1>1
  <2>2. PushJob(v) => JobCredit(v)' = JobCredit(v)
    BY <1>1 DEF JobCredit, PushJob
  <2> QED BY <1>1, <2>1, <2>2 DEF ThreadCredit
<1> QED BY <1>3, <1>4, CreditIs, AllSmall

-----------------------------------------------------------------------------
(* Rows *)

LEMMA StoredRows ==
  ASSUME RowShape, OneRow, NEW h \in Href, NEW u \in Uid, NEW d, NEW origin, obj' = Stored(h, u, d, origin)
  PROVE  /\ RowShape' /\ OneRow'
         /\ \A g \in HrefsOf(u)' : g = h /\ obj'[g].origin = origin
         /\ \A v \in Uid \ {u} : \A g \in Href : Has(g)' /\ obj'[g].uid = v => obj'[g] = obj[g]
<1>1. DOMAIN obj' = Href
  BY DEF Stored
<1>2. obj'[h] = [uid |-> u, doc |-> d, origin |-> origin, soft |-> FALSE, rev |-> IF Has(h) THEN obj[h].rev + 1 ELSE 1]
  BY DEF Stored
<1>3. \A g \in Href \ {h} : obj'[g] = IF g \in HrefsOf(u) THEN NoObject ELSE obj[g]
  BY DEF Stored
<1>4. \A g \in Href \ {h} : Has(g)' => Has(g) /\ obj'[g] = obj[g] /\ obj[g].uid # u
  BY <1>3 DEF Has, HrefsOf
<1>5. RowShape'
  <2>1. ASSUME NEW g \in Href, Has(g)'
        PROVE  /\ DOMAIN obj'[g] = {"uid", "doc", "rev", "origin", "soft"}
               /\ obj'[g].uid \in Uid /\ obj'[g].rev \in Nat /\ obj'[g].soft \in BOOLEAN
    <3>1. CASE g = h
      <4>1. (IF Has(h) THEN obj[h].rev + 1 ELSE 1) \in Nat
        BY DEF RowShape
      <4> DEFINE n == IF Has(h) THEN obj[h].rev + 1 ELSE 1
      <4>2. n \in Nat
        BY <4>1
      <4> HIDE DEF n
      <4>3. obj'[g] = [uid |-> u, doc |-> d, origin |-> origin, soft |-> FALSE, rev |-> n]
        BY <1>2, <3>1 DEF n
      <4>4. DOMAIN obj'[g] = {"uid", "doc", "rev", "origin", "soft"}
        BY <4>3
      <4>5. obj'[g].uid = u /\ obj'[g].rev = n /\ obj'[g].soft = FALSE
        BY <4>3
      <4> QED BY <4>2, <4>4, <4>5
    <3>2. CASE g # h
      BY <1>4, <2>1, <3>2 DEF RowShape
    <3> QED BY <3>1, <3>2
  <2> QED BY <1>1, <2>1 DEF RowShape
<1>6. OneRow'
  BY <1>2, <1>4 DEF OneRow
<1>7. \A g \in HrefsOf(u)' : g = h /\ obj'[g].origin = origin
  BY <1>2, <1>4 DEF HrefsOf
<1>8. \A v \in Uid \ {u} : \A g \in Href : Has(g)' /\ obj'[g].uid = v => obj'[g] = obj[g]
  BY <1>2, <1>4
<1> QED BY <1>5, <1>6, <1>7, <1>8

LEMMA GoneRows ==
  ASSUME RowShape, OneRow, DOMAIN obj' = Href, \A g \in Href : obj'[g] \in {obj[g], NoObject}
  PROVE  /\ RowShape' /\ OneRow'
         /\ \A g \in Href : Has(g)' => Has(g) /\ obj'[g] = obj[g]
<1>1. \A g \in Href : Has(g)' => Has(g) /\ obj'[g] = obj[g]
  BY DEF Has
<1> QED BY <1>1 DEF RowShape, OneRow

\* A client that deletes an object leaves its row.
LEMMA SoftRows ==
  ASSUME RowShape, OneRow, NEW h \in Href, Live(h),
         obj' = [obj EXCEPT ![h].soft = TRUE, ![h].origin = "client", ![h].rev = @ + 1]
  PROVE  /\ RowShape' /\ OneRow'
         /\ \A g \in Href : Has(g)' <=> Has(g)
         /\ \A g \in Href : Has(g) => obj'[g].uid = obj[g].uid
         /\ \A g \in Href \ {h} : obj'[g] = obj[g]
<1>1. Has(h) /\ DOMAIN obj[h] = {"uid", "doc", "rev", "origin", "soft"} /\ obj[h].rev \in Nat /\ obj[h].uid \in Uid
  BY DEF Live, RowShape
<1>2. DOMAIN obj' = Href /\ \A g \in Href \ {h} : obj'[g] = obj[g]
  BY DEF RowShape
<1>3. /\ DOMAIN obj'[h] = DOMAIN obj[h] /\ obj'[h].uid = obj[h].uid
      /\ obj'[h].soft = TRUE /\ obj'[h].rev = obj[h].rev + 1
  BY <1>1 DEF RowShape
<1>4. Has(h)'
  <2>1. DOMAIN NoObject = {"kind"}
    BY DEF NoObject
  <2> QED BY <1>1, <1>3, <2>1 DEF Has
<1>5. \A g \in Href : (Has(g)' <=> Has(g)) /\ (Has(g) => obj'[g].uid = obj[g].uid)
  BY <1>1, <1>2, <1>3, <1>4 DEF Has
<1>6. RowShape'
  BY <1>1, <1>2, <1>3, <1>5 DEF RowShape
<1>7. OneRow'
  BY <1>5 DEF OneRow
<1> QED BY <1>2, <1>5, <1>6, <1>7

\* What the thread has in hand is none of the writers' business.
LEMMA InTurnStays ==
  ASSUME InTurn, UNCHANGED <<pc, todo, job>>
  PROVE  InTurn'
  BY DEF InTurn, ListedFor

-----------------------------------------------------------------------------
(* The clients, the other writers of the remote, failures *)

\* One of the clients' rows is written: its event gains two at most.
LEMMA ClientPays ==
  ASSUME PushInv, NEW u \in Uid, Act, UNCHANGED <<map, token, remoteVars, threadVars, faults>>,
         RowShape', OneRow',
         \A v \in Uid \ {u} : \A g \in Href : Has(g)' /\ obj'[g].uid = v => obj'[g] = obj[g]
  PROVE  PushInv'
<1> USE DEF PushInv, storeVars, remoteVars, threadVars
<1>1. MirrorInv' /\ MapShape' /\ InTurn'
  BY Quiet, InTurnStays DEF MapShape, Mapped
<1>2. \A v \in Uid \ {u} : Credit'[v] <= Credit[v]
  <2>1. ASSUME NEW v \in Uid \ {u}
        PROVE  Credit'[v] <= Credit[v]
    BY OtherKeeps
  <2> QED BY <2>1
<1>3. ThreadCredit(u)' = ThreadCredit(u)
  BY DEF ThreadCredit, ListedFor, Twice, There, PushJob, JobCredit
<1>4. Credit'[u] <= Credit[u] + 2
  BY <1>3, AllSmall, CreditIs
<1>5. acts' = acts + 1 /\ acts \in Nat /\ faults \in Nat /\ Credit[u] \in Nat /\ Credit'[u] \in Nat
  BY CreditType, CreditTypeAfter DEF Act, Paid
<1>6. Paid'
  <2>1. rver' = rver + 0
    BY DEF MirrorInv, Numbered
  <2>2. Credit'[u] + 0 <= Credit[u] + 2 * (acts' - acts) + (faults' - faults)
    BY <1>4, <1>5
  <2> QED BY <1>2, <1>5, <2>1, <2>2, Pays
<1> QED BY <1>1, <1>6

LEMMA PutHolds ==
  ASSUME PushInv, NEW h \in Href, NEW u \in Uid, ClientPut(h, u)
  PROVE  PushInv'
<1>1. PICK d : obj' = Stored(h, u, d, "client")
  BY DEF ClientPut
<1>2. /\ RowShape' /\ OneRow'
      /\ \A v \in Uid \ {u} : \A g \in Href : Has(g)' /\ obj'[g].uid = v => obj'[g] = obj[g]
  BY <1>1, StoredRows DEF PushInv
<1> QED BY <1>2, ClientPays DEF ClientPut

LEMMA DeleteHolds ==
  ASSUME PushInv, NEW h \in Href, ClientDelete(h)
  PROVE  PushInv'
<1>1. /\ RowShape' /\ OneRow'
      /\ \A g \in Href : Has(g)' <=> Has(g)
      /\ \A g \in Href : Has(g) => obj'[g].uid = obj[g].uid
      /\ \A g \in Href \ {h} : obj'[g] = obj[g]
  BY SoftRows DEF PushInv, ClientDelete
<1>2. obj[h].uid \in Uid
  BY DEF PushInv, ClientDelete, Live, RowShape
<1>3. \A v \in Uid \ {obj[h].uid} : \A g \in Href : Has(g)' /\ obj'[g].uid = v => obj'[g] = obj[g]
  BY <1>1 DEF Live, ClientDelete
<1> QED BY <1>1, <1>2, <1>3, ClientPays DEF ClientDelete

\* A step that adds to no event's credit and writes nothing.
LEMMA PaysNothing ==
  ASSUME PushInv, rver' = rver, acts' = acts, faults' \in Nat, faults <= faults',
         \A v \in Uid : Credit'[v] <= Credit[v]
  PROVE  Paid'
<1> DEFINE f == Credit
           g == Credit'
<1>1. f \in [Uid -> 0 .. 4] /\ g \in [Uid -> 0 .. 4]
  BY CreditType, CreditTypeAfter
<1>2. /\ acts \in Nat /\ faults \in Nat /\ rver \in Nat
      /\ IsFiniteSet(Tokens(f))
      /\ rver + Cardinality(Tokens(f)) <= 1 + 2 * acts + faults
  BY DEF PushInv, Paid, MirrorInv, Numbered
<1>3. \A v \in Uid : g[v] <= f[v]
  OBVIOUS
<1>4. Tokens(Credit)' = Tokens(g)
  BY DEF Tokens
<1> HIDE DEF f, g
<1>5. Tokens(g) \subseteq Tokens(f)
  BY <1>1, <1>3 DEF Tokens
<1>6. IsFiniteSet(Tokens(g)) /\ Cardinality(Tokens(g)) <= Cardinality(Tokens(f))
  BY <1>2, <1>5, FS_Subset
<1>7. Cardinality(Tokens(f)) \in Nat /\ Cardinality(Tokens(g)) \in Nat
  BY <1>2, <1>6, FS_CardinalityType
<1>8. rver' + Cardinality(Tokens(g)) <= 1 + 2 * acts' + faults'
  BY <1>2, <1>6, <1>7
<1> QED BY <1>2, <1>4, <1>6, <1>8 DEF Paid

LEMMA OwnOneMore ==
  ASSUME NEW u, \A h \in HrefsOf(u)' : h \in HrefsOf(u) /\ RowCredit(h)' <= RowCredit(h) + 1
  PROVE  OwnCredit(u)' <= OwnCredit(u) + 1
<1>1. HrefsOf(u)' \subseteq Href
  BY DEF HrefsOf
<1> QED BY <1>1, Small DEF OwnCredit

\* Another writer of the remote pays for its own write, and for one more request.
LEMMA OtherPays ==
  ASSUME PushInv, NEW u \in Uid, NEW d, Act, SetRemote(u, d), UNCHANGED <<storeVars, threadVars, faults>>
  PROVE  PushInv'
<1> USE DEF PushInv, storeVars, threadVars
<1>1. MirrorInv'
  BY Writes
<1>2. MapShape' /\ RowShape' /\ OneRow' /\ InTurn'
  BY InTurnStays DEF MapShape, RowShape, OneRow, Mapped, Has
<1>3. \A v \in Uid \ {u} : Credit'[v] <= Credit[v]
  <2>1. ASSUME NEW v \in Uid \ {u}
        PROVE  Credit'[v] <= Credit[v]
    <3>1. remote'[v] = remote[v] /\ attending' = attending
      BY DEF SetRemote, MirrorInv, Numbered
    <3> QED BY <3>1, OtherKeeps
  <2> QED BY <2>1
<1>4. attending' = attending
  BY DEF SetRemote
<1>5. ASSUME NEW h \in HrefsOf(u)'
      PROVE  /\ h \in HrefsOf(u)
             /\ RowCredit(h)' <= RowCredit(h) + 1
             /\ ListedFor(u) \/ PushJob(u) => RowCredit(h)' = RowCredit(h)
  <2>1. h \in Href /\ h \in HrefsOf(u) /\ obj[h].uid = u
    BY DEF HrefsOf, Has
  <2>2. /\ InList(h)' = InList(h) /\ InJob(h)' = InJob(h) /\ Loose(h)' = Loose(h)
        /\ NeedsPush(h)' = NeedsPush(h) /\ ListedFor(u)' = ListedFor(u) /\ PushJob(u)' = PushJob(u)
    BY DEF InList, InJob, Loose, NeedsPush, Has, Pushed, Mapped, ListedFor, PushJob
  <2> QED BY <2>1, <2>2 DEF RowCredit
<1>6. Credit'[u] <= Credit[u] + 1
  <2>1. CASE ListedFor(u) \/ PushJob(u)
    <3>1. OwnCredit(u)' <= OwnCredit(u)
      <4>1. \A h \in HrefsOf(u)' : h \in HrefsOf(u) /\ RowCredit(h)' <= RowCredit(h)
        BY <1>5, <2>1, Small DEF HrefsOf
      <4> QED BY <4>1, OwnAtMost
    <3>2. ThreadCredit(u)' <= ThreadCredit(u) + 1
      <4>1. ListedFor(u)' = ListedFor(u) /\ PushJob(u)' = PushJob(u)
        BY DEF ListedFor, PushJob
      <4>2. JobCredit(u)' <= JobCredit(u) + 1
        BY DEF JobCredit
      <4> QED BY <4>1, <4>2 DEF ThreadCredit, JobCredit
    <3> QED BY <3>1, <3>2, AllSmall, CreditIs
  <2>2. CASE ~ListedFor(u) /\ ~PushJob(u)
    <3>1. ThreadCredit(u)' = 0 /\ ThreadCredit(u) = 0
      BY <2>2 DEF ThreadCredit, ListedFor, PushJob
    <3>2. OwnCredit(u)' <= OwnCredit(u) + 1
      BY <1>5, OwnOneMore
    <3> QED BY <3>1, <3>2, AllSmall, CreditIs
  <2> QED BY <2>1, <2>2
<1>7. Paid'
  <2>1. acts' = acts + 1 /\ acts \in Nat /\ faults \in Nat /\ Credit[u] \in Nat /\ Credit'[u] \in Nat
    BY CreditType, CreditTypeAfter DEF Act, Paid
  <2>2. rver' = rver + 1
    BY DEF SetRemote
  <2>3. Credit'[u] + 1 <= Credit[u] + 2 * (acts' - acts) + (faults' - faults)
    BY <1>6, <2>1
  <2> QED BY <1>3, <2>1, <2>2, <2>3, Pays
<1> QED BY <1>1, <1>2, <1>7

LEMMA OtherHolds ==
  ASSUME PushInv, NEW u \in Uid, OtherWrite(u) \/ OtherDelete(u)
  PROVE  PushInv'
<1>1. CASE OtherWrite(u)
  <2>1. PICK ps : SetRemote(u, [text |-> acts + 1, ps |-> ps, form |-> "normal"])
    BY <1>1 DEF OtherWrite
  <2> QED BY <1>1, <2>1, OtherPays DEF OtherWrite
<1>2. CASE OtherDelete(u)
  BY <1>2, OtherPays DEF OtherDelete
<1> QED BY <1>1, <1>2

-----------------------------------------------------------------------------
(* The beginning and the end of a pass *)

\* With nothing in hand it does not matter where the thread is.
LEMMA AsBefore ==
  ASSUME PushInv, UNCHANGED <<obj, todo, job, remote, rver, attending, acts>>,
         \A v \in Uid : Pushed(v)' = Pushed(v),
         pc' = pc \/ job = NoJob, faults' \in Nat, faults <= faults'
  PROVE  Paid'
<1>1. ASSUME NEW v \in Uid
      PROVE  Credit'[v] <= Credit[v]
  <2>1. /\ ListedFor(v)' = ListedFor(v) /\ PushJob(v)' = PushJob(v)
        /\ \A soft : Twice(v, soft)' = Twice(v, soft)
    BY DEF ListedFor, PushJob, Twice, There
  <2>2. ASSUME NEW h \in HrefsOf(v)'
        PROVE  h \in HrefsOf(v) /\ RowCredit(h)' <= RowCredit(h)
    <3>1. h \in Href /\ h \in HrefsOf(v) /\ obj[h].uid = v /\ obj' = obj
      BY DEF HrefsOf, Has
    <3>2. InList(h)' = InList(h) /\ InJob(h)' = InJob(h) /\ Loose(h)' = Loose(h)
      BY DEF InList, InJob, Loose, PushJob
    <3>3. NeedsPush(h)' = NeedsPush(h)
      BY <3>1 DEF NeedsPush, Has
    <3>4. RowCredit(h)' = RowCredit(h)
      BY <2>1, <3>1, <3>2, <3>3 DEF RowCredit
    <3> QED BY <3>1, <3>4, Small
  <2>3. OwnCredit(v)' <= OwnCredit(v)
    BY <2>2, OwnAtMost
  <2>4. ThreadCredit(v)' = ThreadCredit(v)
    BY <2>1 DEF ThreadCredit, JobCredit, There
  <2> QED BY <2>3, <2>4, AllSmall, CreditIs
<1> QED BY <1>1, PaysNothing

LEMMA BeginPushHolds == ASSUME PushInv, BeginPass PROVE PushInv'
<1> USE DEF PushInv, storeVars, remoteVars, boundVars
<1>1. MirrorInv'
  BY BeginHolds
<1>2. RowShape' /\ OneRow' /\ MapShape'
  BY DEF BeginPass, RowShape, OneRow, MapShape, Has, Mapped
<1>3. job = NoJob /\ job' = NoJob /\ todo = {} /\ pc' = "push"
  BY DEF BeginPass, InTurn, MirrorInv, Resting
<1>4. \A l \in todo' : \E h \in Href : /\ NeedsPush(h)
                                       /\ l.href = h /\ l.uid = obj[h].uid /\ l.rev = obj[h].rev /\ l.soft = obj[h].soft
  BY DEF BeginPass
<1>5. \A h \in Href : NeedsPush(h) => \E l \in todo' : l.href = h /\ l.uid = obj[h].uid /\ l.rev = obj[h].rev /\ l.soft = obj[h].soft
  <2>1. ASSUME NEW h \in Href, NeedsPush(h)
        PROVE  \E l \in todo' : l.href = h /\ l.uid = obj[h].uid /\ l.rev = obj[h].rev /\ l.soft = obj[h].soft
    <3> DEFINE l == [href |-> h, uid |-> obj[h].uid, doc |-> obj[h].doc, rev |-> obj[h].rev, soft |-> obj[h].soft]
    <3>1. l \in todo'
      BY <2>1 DEF BeginPass
    <3> QED BY <3>1
  <2> QED BY <2>1
<1>6. InTurn'
  <2>1. \A l, k \in todo' : l.uid = k.uid => l = k
    <3>1. ASSUME NEW l \in todo', NEW k \in todo', l.uid = k.uid
          PROVE  l = k
      <4>1. PICK g \in Href : NeedsPush(g) /\ l = [href |-> g, uid |-> obj[g].uid, doc |-> obj[g].doc,
                                                   rev |-> obj[g].rev, soft |-> obj[g].soft]
        BY DEF BeginPass
      <4>2. PICK h \in Href : NeedsPush(h) /\ k = [href |-> h, uid |-> obj[h].uid, doc |-> obj[h].doc,
                                                   rev |-> obj[h].rev, soft |-> obj[h].soft]
        BY DEF BeginPass
      <4>3. g = h
        BY <3>1, <4>1, <4>2 DEF OneRow, NeedsPush
      <4> QED BY <4>1, <4>2, <4>3
    <3> QED BY <3>1
  <2>2. \A l \in todo' : l.uid \in Uid /\ l.href \in Href /\ l.rev \in Nat /\ l.soft \in BOOLEAN
    BY <1>4 DEF NeedsPush, RowShape
  <2> QED BY <1>3, <2>1, <2>2 DEF InTurn
<1>7. ASSUME NEW v \in Uid
      PROVE  Credit'[v] <= Credit[v]
  <2>1. ThreadCredit(v) = 0 /\ ~ListedFor(v) /\ ~PushJob(v) /\ ~PushJob(v)'
    BY <1>3 DEF ThreadCredit, ListedFor, PushJob
  <2>2. /\ \A soft : Twice(v, soft)' = Twice(v, soft)
        /\ \A h \in Href : NeedsPush(h)' = NeedsPush(h)
    BY DEF BeginPass, Twice, There, NeedsPush, Has, Pushed, Mapped
  <2>3. \A h \in Href : ~Loose(h) /\ ~Loose(h)'
    BY <1>3 DEF Loose
  <2>4. ASSUME NEW h \in HrefsOf(v)'
        PROVE  h \in HrefsOf(v) /\ RowCredit(h)' = 0
    <3>1. h \in Href /\ Has(h) /\ obj[h].uid = v /\ obj' = obj /\ h \in HrefsOf(v)
      BY DEF BeginPass, HrefsOf, Has
    <3>2. CASE NeedsPush(h)
      <4>1. InList(h)' /\ ListedFor(v)'
        BY <1>5, <3>1, <3>2 DEF InList, ListedFor
      <4> QED BY <3>1, <4>1 DEF RowCredit
    <3>3. CASE ~NeedsPush(h)
      <4>1. ~ListedFor(v)'
        BY <1>4, <3>1, <3>3 DEF ListedFor, OneRow, NeedsPush
      <4> QED BY <2>1, <2>2, <2>3, <3>1, <3>3, <4>1 DEF RowCredit
    <3> QED BY <3>1, <3>2, <3>3
  <2>5. OwnCredit(v)' = 0
    BY <2>4, OwnNothing
  <2>6. CASE ~ListedFor(v)'
    <3>1. ThreadCredit(v)' = 0
      BY <2>1, <2>6 DEF ThreadCredit
    <3> QED BY <2>1, <2>5, <3>1, AllSmall, CreditIs
  <2>7. CASE ListedFor(v)'
    <3>1. PICK l \in todo' : l.uid = v
      BY <2>7 DEF ListedFor
    <3>2. PICK h \in Href : NeedsPush(h) /\ l.uid = obj[h].uid /\ l.soft = obj[h].soft
      BY <1>4
    <3>3. \A k \in todo' : k.uid = v => k = l
      BY <1>6, <3>1 DEF InTurn
    <3>4. ThreadCredit(v)' = IF Twice(v, l.soft) THEN 2 ELSE 1
      BY <2>2, <2>7, <3>1, <3>3 DEF ThreadCredit
    <3>5. RowCredit(h) = IF Twice(v, l.soft) THEN 2 ELSE 1
      BY <2>1, <2>3, <3>1, <3>2 DEF RowCredit, NeedsPush
    <3>6. OwnCredit(v) >= RowCredit(h)
      BY <3>1, <3>2, Small DEF OwnCredit, HrefsOf, NeedsPush
    <3> QED BY <2>1, <2>5, <3>4, <3>5, <3>6, AllSmall, CreditIs
  <2> QED BY <2>6, <2>7
<1>8. rver' = rver /\ acts' = acts /\ faults' = faults /\ faults \in Nat
  BY DEF BeginPass, Paid
<1>9. Paid'
  BY <1>7, <1>8, PaysNothing
<1> QED BY <1>1, <1>2, <1>6, <1>9

\* The steps that write neither rows nor the remote, nor take anything in hand.
LEMMA ReadingHolds ==
  ASSUME PushInv, EndPush \/ List \/ Load \/ Sweep \/ EndPull
  PROVE  PushInv'
<1> USE DEF PushInv, storeVars, remoteVars, boundVars
<1>1. MirrorInv'
  BY BeginHolds, ListHolds, LoadHolds, SweepHolds, EndPullHolds
<1>2. UNCHANGED <<obj, map, todo, job, remote, rver, attending, acts>>
  BY DEF EndPush, List, Load, Sweep, EndPull
<1>3. job = NoJob /\ todo = {}
  BY DEF EndPush, List, Load, Sweep, EndPull, MirrorInv, Resting, InTurn
<1>4. faults' \in Nat /\ faults <= faults'
  BY DEF EndPush, List, Load, Sweep, EndPull, Fault, Paid
<1>5. RowShape' /\ OneRow' /\ MapShape' /\ InTurn'
  BY <1>2, <1>3 DEF RowShape, OneRow, MapShape, Has, Mapped, InTurn
<1>6. Paid'
  BY <1>2, <1>3, <1>4, AsBefore DEF Pushed, Mapped
<1> QED BY <1>1, <1>5, <1>6

LEMMA SkipHolds == ASSUME PushInv, NEW u \in Uid, SkipEcho(u) PROVE PushInv'
<1> USE DEF PushInv, remoteVars, boundVars
<1>1. MirrorInv'
  BY SkipEchoHolds
<1>2. Mapped(u) /\ "pushed" \in DOMAIN map[u]
  BY DEF SkipEcho, Echo, MapShape
<1>3. map' = [map EXCEPT ![u].version = batch.items[u].at] /\ DOMAIN map = Uid
  BY DEF SkipEcho, MirrorInv, Numbered
<1>4. /\ \A v \in Uid \ {u} : map'[v] = map[v]
      /\ DOMAIN map'[u] = DOMAIN map[u] /\ map'[u].pushed = map[u].pushed
  BY <1>2, <1>3
<1>5. Mapped(u)'
  BY <1>2, <1>4 DEF Mapped, NoMap
<1>6. \A v \in Uid : Pushed(v)' = Pushed(v)
  BY <1>2, <1>4, <1>5 DEF Pushed, Mapped
<1>7. RowShape' /\ OneRow' /\ InTurn' /\ MapShape'
  BY <1>2, <1>4, InTurnStays DEF SkipEcho, RowShape, OneRow, MapShape, Has, Mapped
<1>8. UNCHANGED <<obj, todo, job, remote, rver, attending, acts, pc>> /\ faults' = faults /\ faults \in Nat
  BY DEF SkipEcho, Paid
<1>9. Paid'
  BY <1>6, <1>8, AsBefore
<1> QED BY <1>1, <1>7, <1>9

-----------------------------------------------------------------------------
(* A pass that breaks off *)

LEMMA OwnIs ==
  ASSUME OneRow, OneRow', NEW u, NEW h \in Href
  PROVE  /\ h \in HrefsOf(u) => OwnCredit(u) = RowCredit(h)
         /\ h \in HrefsOf(u)' => OwnCredit(u)' = RowCredit(h)'
<1>1. h \in HrefsOf(u) => \A g \in HrefsOf(u) : g = h
  BY DEF OneRow, HrefsOf
<1>2. h \in HrefsOf(u)' => \A g \in HrefsOf(u)' : g = h
  BY DEF OneRow, HrefsOf
<1> QED BY <1>1, <1>2, Small DEF OwnCredit

\* What is left is the row, as the mapping has it.
LEMMA FreedRow ==
  ASSUME PushInv, PassFails, UNCHANGED <<obj, map, remoteVars>>, NEW v \in Uid
  PROVE  /\ ThreadCredit(v)' = 0 /\ OneRow'
         /\ HrefsOf(v)' = HrefsOf(v)
         /\ \A h \in HrefsOf(v) :
              RowCredit(h)' = IF NeedsPush(h) THEN IF Twice(v, obj[h].soft) THEN 2 ELSE 1 ELSE 0
<1>1. job' = NoJob /\ todo' = {} /\ obj' = obj
  BY DEF PassFails
<1>2. ThreadCredit(v)' = 0 /\ OneRow' /\ HrefsOf(v)' = HrefsOf(v)
  BY <1>1 DEF ThreadCredit, ListedFor, PushJob, PushInv, OneRow, HrefsOf, Has
<1>3. ASSUME NEW h \in HrefsOf(v)
      PROVE  RowCredit(h)' = IF NeedsPush(h) THEN IF Twice(v, obj[h].soft) THEN 2 ELSE 1 ELSE 0
  <2>1. obj[h].uid = v
    BY DEF HrefsOf
  <2>2. ~ListedFor(v)' /\ ~PushJob(v)' /\ ~Loose(h)'
    BY <1>1 DEF ListedFor, PushJob, Loose
  <2>3. NeedsPush(h)' = NeedsPush(h) /\ \A soft : Twice(v, soft)' = Twice(v, soft)
    BY <1>1 DEF NeedsPush, Has, Pushed, Mapped, Twice, There, remoteVars
  <2> QED BY <1>1, <2>1, <2>2, <2>3 DEF RowCredit, NeedsPush
<1> QED BY <1>2, <1>3

\* A row the thread did not have in hand, or had only listed.
LEMMA FailKeeps ==
  ASSUME PushInv, PassFails, UNCHANGED <<obj, map, remoteVars>>, NEW v \in Uid, ~PushJob(v)
  PROVE  Credit'[v] <= Credit[v]
<1>1. /\ ThreadCredit(v)' = 0 /\ OneRow' /\ OneRow
      /\ HrefsOf(v)' = HrefsOf(v)
      /\ \A h \in HrefsOf(v) :
           RowCredit(h)' = IF NeedsPush(h) THEN IF Twice(v, obj[h].soft) THEN 2 ELSE 1 ELSE 0
  BY FreedRow DEF PushInv
<1>2. CASE HrefsOf(v) = {}
  <2>1. OwnCredit(v)' = 0
    BY <1>1, <1>2, OwnNothing
  <2> QED BY <1>1, <2>1, AllSmall, CreditIs
<1>3. ASSUME NEW h \in HrefsOf(v)
      PROVE  Credit'[v] <= Credit[v]
  <2>1. h \in Href /\ obj[h].uid = v
    BY DEF HrefsOf
  <2>2. OwnCredit(v) = RowCredit(h) /\ OwnCredit(v)' = RowCredit(h)'
    BY <1>1, <2>1, OwnIs
  <2>3. RowCredit(h)' <= ThreadCredit(v) + RowCredit(h)
    <3>1. CASE ListedFor(v) /\ InList(h)
      <4>1. PICK l \in todo : l.uid = v /\ l.soft = obj[h].soft
        BY <2>1, <3>1 DEF InList
      <4> QED BY <1>1, <3>1, <4>1, Small, <2>1, AllSmall DEF ThreadCredit
    <3>2. CASE ListedFor(v) /\ ~InList(h)
      <4>1. RowCredit(h) = 2 \/ obj[h].origin # "client"
        BY <2>1, <3>2 DEF RowCredit, InJob
      <4> QED BY <1>1, <2>1, <4>1, Small, AllSmall DEF NeedsPush
    <3>3. CASE ~ListedFor(v)
      <4>1. RowCredit(h) >= RowCredit(h)'
        BY <1>1, <2>1, <3>3, Small DEF RowCredit, NeedsPush
      <4> QED BY <2>1, <4>1, Small, AllSmall
    <3> QED BY <3>1, <3>2, <3>3
  <2> QED BY <1>1, <2>1, <2>2, <2>3, Small, AllSmall, CreditIs
<1> QED BY <1>2, <1>3

\* A failure pays for the request that was carried out in vain.
LEMMA FailCosts ==
  ASSUME PushInv, PassFails, UNCHANGED <<obj, map, remoteVars>>, NEW v \in Uid, PushJob(v)
  PROVE  /\ Credit'[v] <= Credit[v] + 1
         /\ (\A h \in HrefsOf(v) : InJob(h) => RowCredit(h)' <= JobCredit(v)) => Credit'[v] <= Credit[v]
<1>1. /\ ThreadCredit(v)' = 0 /\ OneRow' /\ OneRow
      /\ HrefsOf(v)' = HrefsOf(v)
      /\ \A h \in HrefsOf(v) :
           RowCredit(h)' = IF NeedsPush(h) THEN IF Twice(v, obj[h].soft) THEN 2 ELSE 1 ELSE 0
  BY FreedRow DEF PushInv
<1>2. ~ListedFor(v) /\ ThreadCredit(v) = JobCredit(v) /\ JobCredit(v) \in {0, 1, 2}
  BY DEF PushInv, InTurn, PushJob, ThreadCredit, JobCredit
<1>3. CASE HrefsOf(v) = {}
  <2>1. OwnCredit(v)' = 0
    BY <1>1, <1>3, OwnNothing
  <2> QED BY <1>1, <2>1, AllSmall, CreditIs
<1>4. ASSUME NEW h \in HrefsOf(v)
      PROVE  /\ Credit'[v] <= Credit[v] + 1
             /\ (InJob(h) => RowCredit(h)' <= JobCredit(v)) => Credit'[v] <= Credit[v]
  <2>1. h \in Href /\ obj[h].uid = v
    BY DEF HrefsOf
  <2>2. OwnCredit(v) = RowCredit(h) /\ OwnCredit(v)' = RowCredit(h)'
    BY <1>1, <2>1, OwnIs
  <2>3. CASE ~InJob(h)
    <3>1. RowCredit(h) = 2 \/ obj[h].origin # "client"
      BY <1>2, <2>1, <2>3 DEF RowCredit, InList, ListedFor
    <3>2. RowCredit(h)' <= RowCredit(h)
      BY <1>1, <2>1, <3>1, Small DEF NeedsPush
    <3> QED BY <1>1, <1>2, <2>1, <2>2, <2>3, <3>2, Small, CreditIs
  <2>4. CASE InJob(h)
    <3>1. RowCredit(h)' <= JobCredit(v) + 1
      <4>1. CASE job.at \in OnLive /\ ~obj[h].soft
        BY <1>1, <1>2, <4>1 DEF Twice
      <4>2. CASE job.at \in OnSoft
        BY <1>1, <4>2 DEF OnSoft, JobCredit, Twice
      <4>3. CASE job.at \in OnEither
        BY <1>1, <4>3 DEF OnEither, JobCredit, Twice
      <4> QED BY <2>4, <4>1, <4>2, <4>3 DEF InJob
    <3> QED BY <1>1, <1>2, <2>1, <2>2, <2>4, <3>1, Small, CreditIs
  <2> QED BY <2>3, <2>4
<1> QED BY <1>3, <1>4

LEMMA FailShapes ==
  ASSUME PushInv, PassFails, UNCHANGED <<obj, map, token, remoteVars>>
  PROVE  MirrorInv' /\ RowShape' /\ OneRow' /\ MapShape' /\ InTurn'
<1>1. MirrorInv'
  BY Breaks DEF PushInv, remoteVars
<1>2. RowShape' /\ OneRow' /\ MapShape'
  BY DEF PushInv, RowShape, OneRow, MapShape, Has, Mapped
<1>3. InTurn'
  BY DEF PassFails, InTurn
<1> QED BY <1>1, <1>2, <1>3

LEMMA AbortHolds == ASSUME PushInv, Abort PROVE PushInv'
<1>1. PassFails /\ UNCHANGED <<obj, map, token, remoteVars>> /\ acts' = acts /\ faults' = faults + 1
  BY DEF Abort, storeVars, Fault
<1>2. MirrorInv' /\ RowShape' /\ OneRow' /\ MapShape' /\ InTurn'
  BY <1>1, FailShapes
<1>3. rver' = rver /\ faults \in Nat /\ acts \in Nat
  BY <1>1 DEF remoteVars, PushInv, Paid
<1>4. Paid'
  <2>1. CASE \A v \in Uid : ~PushJob(v)
    <3>1. \A v \in Uid : Credit'[v] <= Credit[v]
      BY <1>1, <2>1, FailKeeps
    <3> QED BY <1>1, <1>3, <3>1, PaysNothing
  <2>2. ASSUME NEW u \in Uid, PushJob(u)
        PROVE  Paid'
    <3>1. \A v \in Uid \ {u} : Credit'[v] <= Credit[v]
      <4>1. \A v \in Uid \ {u} : ~PushJob(v)
        BY <2>2 DEF PushJob
      <4> QED BY <1>1, <4>1, FailKeeps
    <3>2. Credit'[u] <= Credit[u] + 1
      BY <1>1, <2>2, FailCosts
    <3>3. Credit[u] \in Nat /\ Credit'[u] \in Nat
      BY CreditType, CreditTypeAfter
    <3>4. rver' = rver + 0 /\ Credit'[u] + 0 <= Credit[u] + 2 * (acts' - acts) + (faults' - faults)
      BY <1>1, <1>3, <3>2, <3>3 DEF PushInv, MirrorInv, Numbered
    <3> QED BY <1>1, <1>3, <3>1, <3>4, Pays
  <2> QED BY <2>1, <2>2
<1> QED BY <1>2, <1>4 DEF PushInv

-----------------------------------------------------------------------------
(* What a pass takes in hand *)

\* The row taken is the only one listed of its event.
LEMMA TakesOne ==
  ASSUME PushInv, NEW l, Take(l)
  PROVE  /\ l \in todo /\ l.uid \in Uid /\ l.href \in Href /\ l.rev \in Nat /\ l.soft \in BOOLEAN
         /\ pc = "push" /\ pc' = "push" /\ job = NoJob
         /\ ListedFor(l.uid) /\ ~ListedFor(l.uid)' /\ ~PushJob(l.uid)
         /\ \A k \in todo : k.uid = l.uid => k = l
         /\ ThreadCredit(l.uid) = IF Twice(l.uid, l.soft) THEN 2 ELSE 1
<1>1. l \in todo /\ pc = "push" /\ job = NoJob /\ todo' = todo \ {l} /\ pc' = "push"
  BY DEF Take
<1>2. \A k \in todo : k.uid = l.uid => k = l
  BY <1>1 DEF PushInv, InTurn
<1>3. l.uid \in Uid /\ l.href \in Href /\ l.rev \in Nat /\ l.soft \in BOOLEAN
  BY <1>1 DEF PushInv, InTurn
<1>4. ListedFor(l.uid) /\ ~ListedFor(l.uid)' /\ ~PushJob(l.uid)
  BY <1>1, <1>2 DEF ListedFor, PushJob
<1>5. ThreadCredit(l.uid) = IF Twice(l.uid, l.soft) THEN 2 ELSE 1
  BY <1>1, <1>2, <1>4 DEF ThreadCredit
<1> QED BY <1>1, <1>2, <1>3, <1>4, <1>5

LEMMA TakeOthers ==
  ASSUME PushInv, NEW l, Take(l), job' = NoJob \/ job'.uid = l.uid, NEW v \in Uid \ {l.uid}, map'[v] = map[v],
         \A h \in Href : Has(h)' /\ obj'[h].uid = v => obj'[h] = obj[h]
  PROVE  Credit'[v] <= Credit[v]
<1>1. pc' = pc /\ attending' = attending /\ remote' = remote /\ job = NoJob /\ todo' = todo \ {l}
  BY DEF Take, remoteVars
<1>2. \A k : k.uid = v => (k \in todo' <=> k \in todo)
  BY <1>1
<1> QED BY <1>1, <1>2, OtherKeeps

LEMMA StartsPaid ==
  ASSUME PushInv, NEW l, Take(l), obj' = obj, NEW at, NEW ver, job' = JobFor(l, at, ver),
         \A v \in Uid \ {l.uid} : map'[v] = map[v],
         IF l.soft THEN at \in {"decline", "delete"} ELSE at \in {"create", "update", "rsvp"},
         at = "decline" => l.uid \in attending
  PROVE  RowShape' /\ OneRow' /\ InTurn' /\ Paid'
<1> DEFINE u == l.uid
<1>1. /\ l \in todo /\ u \in Uid /\ l.href \in Href /\ l.rev \in Nat /\ l.soft \in BOOLEAN
      /\ pc = "push" /\ pc' = "push" /\ job = NoJob
      /\ ListedFor(u) /\ ~ListedFor(u)' /\ ~PushJob(u)
      /\ \A k \in todo : k.uid = u => k = l
      /\ ThreadCredit(u) = IF Twice(u, l.soft) THEN 2 ELSE 1
  BY TakesOne
<1>2. job' # NoJob /\ job'.uid = u /\ job'.at = at /\ job'.href = l.href /\ job'.rev = l.rev
  BY DEF JobFor, NoJob
<1>3. UNCHANGED <<token, remote, rver, attending, pc, batch, acts, faults>> /\ todo' = todo \ {l}
  BY DEF Take, remoteVars, boundVars
<1> HIDE DEF u
<1>4. RowShape' /\ OneRow'
  BY DEF PushInv, RowShape, OneRow, Has
<1>5. InTurn'
  <2>1. \A k \in todo' : k \in todo
    BY <1>3
  <2> QED BY <1>1, <1>2, <1>3, <2>1 DEF PushInv, InTurn
<1>6. \A v \in Uid \ {u} : Credit'[v] <= Credit[v]
  BY <1>2, TakeOthers DEF u
<1>7. PushJob(u)'
  BY <1>1, <1>2 DEF PushJob
<1>8. ThreadCredit(u)' <= ThreadCredit(u)
  <2>1. There(u)' = There(u) /\ ThreadCredit(u)' = JobCredit(u)'
    BY <1>1, <1>3, <1>7 DEF ThreadCredit, There
  <2>2. CASE at = "decline"
    <3>1. l.soft
      BY <2>2
    <3> QED BY <1>1, <1>2, <2>1, <2>2, <3>1 DEF JobCredit, Twice, u
  <2>3. CASE at # "decline"
    <3>1. at \in {"create", "update", "rsvp", "delete"}
      BY <1>1, <2>3
    <3> QED BY <1>1, <1>2, <2>1, <3>1 DEF JobCredit
  <2> QED BY <2>2, <2>3
<1>9. OwnCredit(u)' <= OwnCredit(u)
  <2>1. ASSUME NEW h \in HrefsOf(u)'
        PROVE  h \in HrefsOf(u) /\ RowCredit(h)' <= RowCredit(h)
    <3>1. h \in Href /\ obj[h].uid = u /\ Has(h) /\ h \in HrefsOf(u)
      BY DEF HrefsOf, Has
    <3>2. CASE InList(h)
      <4>1. l.href = h /\ l.rev = obj[h].rev /\ l.soft = obj[h].soft
        BY <1>1, <3>1, <3>2 DEF InList
      <4>2. InJob(h)'
        BY <1>1, <1>2, <1>7, <3>1, <4>1 DEF InJob, OnLive, OnSoft
      <4>3. RowCredit(h)' = 0
        BY <1>7, <3>1, <4>2 DEF RowCredit
      <4> QED BY <3>1, <4>3, Small
    <3>3. CASE ~InList(h)
      <4>1. ~InJob(h)
        BY <1>1, <3>1 DEF InJob
      <4>2. RowCredit(h) = IF obj[h].origin # "client" THEN 0 ELSE 2
        BY <1>1, <3>1, <3>3, <4>1 DEF RowCredit
      <4>3. RowCredit(h)' <= RowCredit(h)
        BY <4>2, Small, <3>1 DEF RowCredit
      <4> QED BY <3>1, <4>3
    <3> QED BY <3>2, <3>3
  <2> QED BY <2>1, OwnAtMost
<1>10. Credit'[u] <= Credit[u]
  BY <1>1, <1>8, <1>9, AllSmall, CreditIs
<1>11. Paid'
  <2>1. \A v \in Uid : Credit'[v] <= Credit[v]
    BY <1>6, <1>10
  <2> QED BY <1>3, <2>1, PaysNothing DEF PushInv, Paid
<1> QED BY <1>4, <1>5, <1>11

LEMMA TakesHold ==
  ASSUME PushInv, NEW l, TakeCreate(l) \/ Adopt(l) \/ TakeMapped(l)
  PROVE  PushInv'
<1>1. MirrorInv'
  BY TakeHolds DEF PushInv
<1>2. CASE TakeCreate(l)
  <2>1. Take(l) /\ UNCHANGED <<obj, map>> /\ job' = JobFor(l, "create", 0) /\ ~l.soft
    BY <1>2 DEF TakeCreate
  <2>2. RowShape' /\ OneRow' /\ InTurn' /\ Paid'
    BY <2>1, StartsPaid
  <2> QED BY <1>1, <2>1, <2>2 DEF PushInv, MapShape, Mapped
<1>3. CASE Adopt(l)
  <2> DEFINE at == IF l.uid \in attending THEN "rsvp" ELSE "update"
  <2>1. Take(l) /\ obj' = obj /\ job' = JobFor(l, at, remote[l.uid].at) /\ ~l.soft /\ at \in {"update", "rsvp"}
    BY <1>3 DEF Adopt
  <2>2. map' = [map EXCEPT ![l.uid] = [version |-> remote[l.uid].at, doc |-> remote[l.uid].doc, pushed |-> 0]]
    BY <1>3 DEF Adopt
  <2>3. DOMAIN map = Uid
    BY DEF PushInv, MirrorInv, Numbered
  <2>4. \A v \in Uid \ {l.uid} : map'[v] = map[v]
    BY <2>2, <2>3
  <2> HIDE DEF at
  <2>5. RowShape' /\ OneRow' /\ InTurn' /\ Paid'
    BY <2>1, <2>4, StartsPaid
  <2>6. MapShape'
    BY <2>2, <2>3 DEF PushInv, MapShape, Mapped
  <2> QED BY <1>1, <2>5, <2>6 DEF PushInv
<1>4. CASE TakeMapped(l)
  <2> DEFINE at == IF l.uid \in attending THEN IF l.soft THEN "decline" ELSE "rsvp"
                   ELSE IF l.soft THEN "delete" ELSE "update"
  <2>1. Take(l) /\ UNCHANGED <<obj, map>> /\ job' = JobFor(l, at, map[l.uid].version)
    BY <1>4 DEF TakeMapped
  <2>2. /\ IF l.soft THEN at \in {"decline", "delete"} ELSE at \in {"create", "update", "rsvp"}
        /\ at = "decline" => l.uid \in attending
    OBVIOUS
  <2> HIDE DEF at
  <2>3. RowShape' /\ OneRow' /\ InTurn' /\ Paid'
    BY <2>1, <2>2, StartsPaid
  <2> QED BY <1>1, <2>1, <2>3 DEF PushInv, MapShape, Mapped
<1> QED BY <1>2, <1>3, <1>4

\* A delete of what the remote never had: the row goes.
LEMMA LocalDeleteHolds ==
  ASSUME PushInv, NEW l, FinalizeLocalDelete(l)
  PROVE  PushInv'
<1> DEFINE u == l.uid
<1>1. Take(l) /\ l.soft /\ UNCHANGED <<map, job>>
  BY DEF FinalizeLocalDelete
<1>2. /\ l \in todo /\ u \in Uid /\ l.href \in Href /\ l.rev \in Nat /\ l.soft \in BOOLEAN
      /\ pc = "push" /\ pc' = "push" /\ job = NoJob
      /\ ListedFor(u) /\ ~ListedFor(u)' /\ ~PushJob(u)
      /\ \A k \in todo : k.uid = u => k = l
      /\ ThreadCredit(u) = IF Twice(u, l.soft) THEN 2 ELSE 1
  BY <1>1, TakesOne
<1>3. UNCHANGED <<token, remote, rver, attending, pc, batch, acts, faults>> /\ todo' = todo \ {l}
  BY <1>1 DEF Take, remoteVars, boundVars
<1> HIDE DEF u
<1>4. /\ obj' = IF Has(l.href) /\ obj[l.href].soft THEN [obj EXCEPT ![l.href] = NoObject] ELSE obj
      /\ DOMAIN obj = Href
  BY DEF FinalizeLocalDelete, PushInv, RowShape
<1>5. DOMAIN obj' = Href /\ \A g \in Href : obj'[g] \in {obj[g], NoObject}
  BY <1>2, <1>4
<1>6. RowShape' /\ OneRow' /\ \A g \in Href : Has(g)' => Has(g) /\ obj'[g] = obj[g]
  BY <1>5, GoneRows DEF PushInv
<1>7. Has(l.href)' => ~obj[l.href].soft
  BY <1>2, <1>4, <1>6 DEF Has, PushInv, RowShape
<1>8. MirrorInv' /\ MapShape'
  BY <1>1, TakeHolds DEF PushInv, MapShape, Mapped
<1>9. InTurn'
  BY <1>1, <1>2, <1>3 DEF PushInv, InTurn
<1>10. \A v \in Uid \ {u} : Credit'[v] <= Credit[v]
  <2>1. ASSUME NEW v \in Uid \ {u}
        PROVE  Credit'[v] <= Credit[v]
    <3>1. job' = NoJob /\ map'[v] = map[v]
      BY <1>1, <1>2
    <3>2. v \in Uid \ {l.uid}
      BY DEF u
    <3> QED BY <1>1, <1>6, <3>1, <3>2, TakeOthers
  <2> QED BY <2>1
<1>11. ThreadCredit(u)' = 0
  BY <1>1, <1>2 DEF ThreadCredit, PushJob
<1>12. OwnCredit(u)' <= OwnCredit(u)
  <2>1. ASSUME NEW h \in HrefsOf(u)'
        PROVE  h \in HrefsOf(u) /\ RowCredit(h)' <= RowCredit(h)
    <3>1. h \in Href /\ Has(h)'
      BY DEF HrefsOf
    <3>2. Has(h) /\ obj'[h] = obj[h] /\ obj[h].uid = u /\ h \in HrefsOf(u)
      BY <1>6, <3>1 DEF HrefsOf
    <3>3. ~InList(h) /\ ~InJob(h)
      BY <1>2, <1>1, <1>7, <3>1, <3>2 DEF InList, InJob
    <3>4. RowCredit(h) = IF obj[h].origin # "client" THEN 0 ELSE 2
      BY <1>2, <3>2, <3>3 DEF RowCredit
    <3>5. RowCredit(h)' <= RowCredit(h)
      BY <3>1, <3>2, <3>4, Small DEF RowCredit
    <3> QED BY <3>2, <3>5
  <2> QED BY <2>1, OwnAtMost
<1>13. Credit'[u] <= Credit[u]
  BY <1>2, <1>11, <1>12, AllSmall, CreditIs
<1>14. Paid'
  <2>1. \A v \in Uid : Credit'[v] <= Credit[v]
    BY <1>10, <1>13
  <2> QED BY <1>3, <2>1, PaysNothing DEF PushInv, Paid
<1> QED BY <1>6, <1>8, <1>9, <1>14 DEF PushInv

-----------------------------------------------------------------------------
(* The steps of a push job that leave the rows alone *)

IsDoc(d) == DOMAIN d = {"text", "ps", "form"}

\* Whatever is stored, sent or fetched as a document is one.
DocShape ==
    /\ \A h \in Href : Has(h) => IsDoc(obj[h].doc)
    /\ \A l \in todo : IsDoc(l.doc)
    /\ job # NoJob =>
          /\ pc = "push" => IsDoc(job.mine)
          /\ job.at \in {"adopt", "removeDeclined", "overwrite"} => IsDoc(job.doc)
    /\ \A u \in Uid : There(u) => IsDoc(remote[u].doc)
    /\ pc = "apply" => \A u \in batch.listed : IsDoc(batch.items[u].doc)

LEMMA JobGoes ==
  ASSUME MirrorInv, job # NoJob, NEW at, at # "none", GoOn(at) \/ \E c : GoOnWith(at, c)
  PROVE  /\ job' # NoJob /\ job'.at = at
         /\ job'.uid = job.uid /\ job'.href = job.href /\ job'.rev = job.rev /\ job'.mine = job.mine
         /\ UNCHANGED <<pc, todo, batch>>
<1>1. DOMAIN job = {"at", "href", "uid", "mine", "rev", "doc", "ver"}
  BY DEF MirrorInv, JobShape
<1>2. CASE GoOn(at)
  <2>1. job' = [job EXCEPT !.at = at] /\ UNCHANGED <<pc, todo, batch>>
    BY <1>2 DEF GoOn, Continue
  <2> QED BY <1>1, <2>1 DEF NoJob
<1>3. ASSUME NEW c, GoOnWith(at, c)
      PROVE  /\ job' # NoJob /\ job'.at = at
             /\ job'.uid = job.uid /\ job'.href = job.href /\ job'.rev = job.rev /\ job'.mine = job.mine
             /\ UNCHANGED <<pc, todo, batch>>
  <2>1. job' = [job EXCEPT !.at = at, !.doc = c.doc, !.ver = c.at] /\ UNCHANGED <<pc, todo, batch>>
    BY <1>3 DEF GoOnWith, Continue
  <2> QED BY <1>1, <2>1 DEF NoJob
<1> QED BY <1>2, <1>3

\* The job pays for what it writes; the row it has in hand stays in its hand.
LEMMA Goes ==
  ASSUME PushInv, Work, pc = "push", job # NoJob, UNCHANGED <<obj, map, todo, pc, attending, acts, faults>>,
         job' # NoJob, job'.uid = job.uid, job'.href = job.href, job'.rev = job.rev,
         NEW w \in Nat, rver' = rver + w, \A v \in Uid \ {job.uid} : remote'[v] = remote[v],
         job.at \in OnLive => job'.at \in OnLive \cup OnEither,
         job.at \in OnSoft => job'.at \in OnSoft \cup OnEither,
         job.at \in OnEither => job'.at \in OnEither,
         JobCredit(job.uid)' + w <= JobCredit(job.uid)
  PROVE  PushInv'
<1>0. PICK u : u = job.uid
  OBVIOUS
<1>1. MirrorInv' /\ RowShape' /\ OneRow' /\ MapShape'
  BY WorkHolds DEF PushInv, RowShape, OneRow, MapShape, Has, Mapped
<1>2. InTurn'
  BY DEF PushInv, InTurn, ListedFor
<1>3. u \in Uid /\ PushJob(u) /\ PushJob(u)' /\ ~ListedFor(u) /\ ~ListedFor(u)'
  BY <1>0 DEF PushInv, InTurn, ListedFor, PushJob
<1>5. \A v \in Uid \ {u} : Credit'[v] <= Credit[v]
  <2>1. ASSUME NEW v \in Uid \ {u}
        PROVE  Credit'[v] <= Credit[v]
    <3>1. job.uid # v /\ job'.uid # v /\ remote'[v] = remote[v]
      BY <1>0
    <3> QED BY <3>1, OtherKeeps
  <2> QED BY <2>1
<1>6. JobCredit(u)' + w <= JobCredit(u) /\ JobCredit(u) \in {0, 1, 2} /\ JobCredit(u)' \in {0, 1, 2}
  <2>1. JobCredit(u)' = JobCredit(job.uid)' /\ JobCredit(u) = JobCredit(job.uid)
    BY <1>0 DEF JobCredit, There
  <2> QED BY <2>1 DEF JobCredit
<1>7. ThreadCredit(u) = JobCredit(u) /\ ThreadCredit(u)' = JobCredit(u)'
  BY <1>3 DEF ThreadCredit
<1>8. OwnCredit(u)' <= OwnCredit(u)
  <2>1. ASSUME NEW h \in HrefsOf(u)'
        PROVE  h \in HrefsOf(u) /\ RowCredit(h)' <= RowCredit(h)
    <3>1. h \in Href /\ obj[h].uid = u /\ Has(h) /\ h \in HrefsOf(u) /\ obj'[h] = obj[h]
      BY DEF HrefsOf, Has
    <3>2. InJob(h) => InJob(h)'
      BY <1>0, <1>3, <3>1 DEF InJob
    <3>3. ~InList(h) /\ ~InList(h)'
      BY <1>3, <3>1 DEF InList, ListedFor
    <3>4. RowCredit(h)' <= RowCredit(h)
      BY <1>3, <3>1, <3>2, <3>3, Small DEF RowCredit
    <3> QED BY <3>1, <3>4
  <2> QED BY <2>1, OwnAtMost
<1>9. Credit'[u] + w <= Credit[u] + 2 * (acts' - acts) + (faults' - faults)
  <2>1. Credit'[u] = JobCredit(u)' + OwnCredit(u)' /\ Credit[u] = JobCredit(u) + OwnCredit(u)
    BY <1>3, <1>7, CreditIs
  <2>2. Credit'[u] + w <= Credit[u]
    BY <1>6, <1>8, <2>1, AllSmall
  <2>3. 2 * (acts' - acts) + (faults' - faults) = 0 /\ Credit[u] \in Nat
    BY <1>3, CreditType DEF PushInv, Paid
  <2> QED BY <2>2, <2>3 DEF PushInv, Paid
<1>10. Paid'
  BY <1>3, <1>5, <1>9, Pays DEF PushInv, Paid
<1> QED BY <1>1, <1>2, <1>10 DEF PushInv

\* A step that asks, or that finds out without asking.
LEMMA Asks ==
  ASSUME PushInv, Work, pc = "push", job # NoJob, UNCHANGED <<obj, map, remoteVars, acts, faults>>,
         NEW at \in OnLive \cup OnSoft \cup OnEither, GoOn(at) \/ \E c : GoOnWith(at, c),
         job.at \in OnLive => at \in OnLive \cup OnEither,
         job.at \in OnSoft => at \in OnSoft \cup OnEither,
         job.at \in OnEither => at \in OnEither,
         JobCredit(job.uid)' <= JobCredit(job.uid)
  PROVE  PushInv'
<1>1. at # "none"
  BY DEF OnLive, OnSoft, OnEither
<1>2. /\ job' # NoJob /\ job'.at = at
      /\ job'.uid = job.uid /\ job'.href = job.href /\ job'.rev = job.rev
      /\ UNCHANGED <<pc, todo, batch>>
  BY <1>1, JobGoes DEF PushInv
<1>3. rver' = rver + 0 /\ JobCredit(job.uid)' + 0 <= JobCredit(job.uid)
  BY DEF remoteVars, PushInv, MirrorInv, Numbered, JobCredit
<1> QED BY <1>2, <1>3, Goes DEF remoteVars

\* A step that writes the remote.
LEMMA Sends ==
  ASSUME PushInv, Work, pc = "push", job # NoJob, UNCHANGED <<obj, map, acts, faults>>,
         NEW d, SetRemote(job.uid, d),
         NEW at \in OnLive \cup OnSoft \cup OnEither, GoOn(at),
         job.at \in OnLive => at \in OnLive \cup OnEither,
         job.at \in OnSoft => at \in OnSoft \cup OnEither,
         job.at \in OnEither => at \in OnEither,
         JobCredit(job.uid)' + 1 <= JobCredit(job.uid)
  PROVE  PushInv'
<1>1. at # "none"
  BY DEF OnLive, OnSoft, OnEither
<1>2. /\ job' # NoJob /\ job'.at = at
      /\ job'.uid = job.uid /\ job'.href = job.href /\ job'.rev = job.rev
      /\ UNCHANGED <<pc, todo, batch>>
  BY <1>1, JobGoes DEF PushInv
<1>3. rver' = rver + 1 /\ attending' = attending /\ \A v \in Uid \ {job.uid} : remote'[v] = remote[v]
  BY DEF SetRemote, PushInv, MirrorInv, Numbered
<1> QED BY <1>2, <1>3, Goes

LEMMA Worked ==
  ASSUME PushInv, NEW at, at # "none", Working(at)
  PROVE  /\ job # NoJob /\ job.at = at /\ job.uid \in Uid /\ UNCHANGED <<token, acts, faults>>
         /\ at \notin {"overwrite", "recordPull", "drop", "finalize", "unmap"} => pc = "push"
         /\ pc = "push" => PushJob(job.uid) /\ ~ListedFor(job.uid)
<1>1. job.at = at /\ job # NoJob /\ UNCHANGED <<token, acts, faults>>
  BY DEF Working, NoJob, boundVars
<1> QED BY <1>1 DEF PushInv, InTurn, PushJob

\* A job that fails, of a row for which it holds as much as the row would be given.
LEMMA JobFails ==
  ASSUME PushInv, PassFails, UNCHANGED <<obj, map, token, remoteVars, acts, faults>>,
         \A h \in Href : Has(h) /\ InJob(h) => RowCredit(h)' <= JobCredit(obj[h].uid)
  PROVE  PushInv'
<1>1. MirrorInv' /\ RowShape' /\ OneRow' /\ MapShape' /\ InTurn'
  BY FailShapes
<1>2. \A v \in Uid : Credit'[v] <= Credit[v]
  <2>1. ASSUME NEW v \in Uid
        PROVE  Credit'[v] <= Credit[v]
    <3>1. CASE ~PushJob(v)
      BY <3>1, FailKeeps
    <3>2. CASE PushJob(v)
      <4>1. \A h \in HrefsOf(v) : InJob(h) => RowCredit(h)' <= JobCredit(v)
        <5>1. ASSUME NEW h \in HrefsOf(v), InJob(h)
              PROVE  RowCredit(h)' <= JobCredit(v)
          <6>1. h \in Href /\ Has(h) /\ obj[h].uid = v
            BY DEF HrefsOf
          <6>2. RowCredit(h)' <= JobCredit(obj[h].uid)
            BY <5>1, <6>1
          <6> QED BY <6>1, <6>2
        <5> QED BY <5>1
      <4> QED BY <3>2, <4>1, FailCosts
    <3> QED BY <3>1, <3>2
  <2> QED BY <2>1
<1>3. rver' = rver /\ acts' = acts /\ faults' = faults /\ faults \in Nat
  BY DEF remoteVars, PushInv, Paid
<1>4. Paid'
  BY <1>2, <1>3, PaysNothing
<1> QED BY <1>1, <1>4 DEF PushInv

\* The event has gone: a live row is pushed once at most.
LEMMA GoneFails ==
  ASSUME PushInv, NEW at \in {"reread", "partstat"}, Working(at), ~There(job.uid), PassFails,
         UNCHANGED <<obj, map, remoteVars>>
  PROVE  PushInv'
<1>1. job # NoJob /\ job.at = at /\ UNCHANGED <<token, acts, faults>> /\ job.uid \in Uid
  BY Worked
<1>2. ASSUME NEW h \in Href, Has(h), InJob(h)
      PROVE  RowCredit(h)' <= JobCredit(obj[h].uid)
  <2>1. obj[h].uid = job.uid /\ ~obj[h].soft
    BY <1>1, <1>2 DEF InJob, PushJob, OnSoft, OnEither
  <2>2. JobCredit(obj[h].uid) = 1
    BY <1>1, <2>1 DEF JobCredit
  <2>3. h \in HrefsOf(obj[h].uid) /\ obj[h].uid \in Uid
    BY <1>1, <1>2, <2>1 DEF HrefsOf
  <2>4. RowCredit(h)' = IF NeedsPush(h) THEN IF Twice(obj[h].uid, obj[h].soft) THEN 2 ELSE 1 ELSE 0
    BY <2>3, FreedRow
  <2> QED BY <2>1, <2>2, <2>4 DEF Twice
<1> QED BY <1>1, <1>2, JobFails

\* What the remote accepts is there.
LEMMA Accepted ==
  ASSUME PushInv, NEW u \in Uid, NEW d, IsDoc(d), Accept(u, d)
  PROVE  /\ There(u)'
         /\ \E e : SetRemote(u, e)
<1>1. PICK form : SetRemote(u, [d EXCEPT !.form = form])
  BY DEF Accept
<1> DEFINE e == [d EXCEPT !.form = form]
<1>2. DOMAIN e = {"text", "ps", "form"}
  BY DEF IsDoc
<1>3. SetRemote(u, e)
  BY <1>1
<1>4. e # NoDoc
  BY <1>2 DEF NoDoc
<1> HIDE DEF e
<1>5. remote'[u] = [at |-> rver + 1, doc |-> e]
  BY <1>3 DEF SetRemote, PushInv, MirrorInv, Numbered
<1>6. There(u)'
  BY <1>4, <1>5 DEF There
<1> QED BY <1>3, <1>6

LEMMA Puts ==
  ASSUME PushInv, Work, NEW at, Working(at), NEW next, GoOn(next), UNCHANGED <<obj, map>>,
         NEW d, IsDoc(d), Accept(job.uid, d),
         \/ at \in {"create", "update", "partstat"} /\ next = "reread"
         \/ at = "decline" /\ There(job.uid) /\ next = "rereadDeclined"
  PROVE  PushInv'
<1>1. job # NoJob /\ job.at = at /\ job.uid \in Uid /\ UNCHANGED <<token, acts, faults>> /\ pc = "push"
  BY Worked
<1>2. job'.at = next /\ job'.uid = job.uid
  BY <1>1, JobGoes DEF PushInv
<1>3. There(job.uid)' /\ \E e : SetRemote(job.uid, e)
  <2>1. PICK u : u = job.uid
    OBVIOUS
  <2>2. There(u)' /\ \E e : SetRemote(u, e)
    BY <1>1, <2>1, Accepted
  <2>3. job'.uid = u
    BY <1>2, <2>1
  <2> QED BY <2>1, <2>2, <2>3 DEF There
<1>4. JobCredit(job.uid)' + 1 <= JobCredit(job.uid)
  BY <1>1, <1>2, <1>3 DEF JobCredit
<1>5. next \in OnLive \cup OnSoft \cup OnEither
  BY DEF OnLive, OnSoft
<1>6. /\ at \in OnLive => next \in OnLive
      /\ at \in OnSoft => next \in OnSoft
      /\ at \notin OnEither
  BY DEF OnLive, OnSoft, OnEither
<1> QED BY <1>1, <1>3, <1>4, <1>5, <1>6, Sends

LEMMA AsksOn ==
  ASSUME PushInv, Work, NEW at, Working(at), NEW next, GoOn(next) \/ GoOnWith(next, remote[job.uid]),
         UNCHANGED <<obj, map, remoteVars>>,
         \/ at \in {"update", "partstat", "decline", "delete"} /\ next = "refetch"
         \/ at = "reread" /\ There(job.uid) /\ next = "adopt"
         \/ at = "adopt" /\ next = "recordPush"
         \/ at = "rsvp" /\ next \in {"partstat", "overwrite"}
         \/ at = "rsvp" /\ ~There(job.uid) /\ next = "drop"
         \/ at \in {"decline", "rereadDeclined", "removeDeclined", "delete"} /\ ~There(job.uid) /\ next = "finalize"
         \/ at = "rereadDeclined" /\ next = "removeDeclined"
         \/ at = "removeDeclined" /\ next = "overwrite"
         \/ at = "refetch" /\ There(job.uid) /\ next = "overwrite"
         \/ at = "refetch" /\ ~There(job.uid) /\ next = "drop"
  PROVE  PushInv'
<1>1. job # NoJob /\ job.at = at /\ job.uid \in Uid /\ UNCHANGED <<token, acts, faults>> /\ pc = "push"
  BY Worked
<1>2. job'.at = next /\ job'.uid = job.uid
  BY <1>1, JobGoes DEF PushInv
<1>3. There(job.uid)' = There(job.uid)
  BY <1>2 DEF There, remoteVars
<1>4. JobCredit(job.uid)' <= JobCredit(job.uid)
  BY <1>1, <1>2, <1>3 DEF JobCredit
<1>5. next \in OnLive \cup OnSoft \cup OnEither
  BY DEF OnLive, OnSoft, OnEither
<1>6. /\ at \in OnLive => next \in OnLive \cup OnEither
      /\ at \in OnSoft => next \in OnSoft \cup OnEither
      /\ at \in OnEither => next \in OnEither
  BY DEF OnLive, OnSoft, OnEither
<1> QED BY <1>1, <1>4, <1>5, <1>6, Asks

\* DELETE
LEMMA Deletes ==
  ASSUME PushInv, Work, NEW at \in {"delete", "removeDeclined"}, Working(at), GoOn("finalize"),
         UNCHANGED <<obj, map>>, SetRemote(job.uid, NoDoc)
  PROVE  PushInv'
<1>1. job # NoJob /\ job.at = at /\ job.uid \in Uid /\ UNCHANGED <<token, acts, faults>> /\ pc = "push"
  BY Worked
<1>2. job'.at = "finalize" /\ job'.uid = job.uid
  BY <1>1, JobGoes DEF PushInv
<1>3. ~There(job.uid)'
  <2>1. remote'[job.uid] = [at |-> rver + 1, doc |-> NoDoc]
    BY <1>1 DEF SetRemote, PushInv, MirrorInv, Numbered
  <2> QED BY <1>2, <2>1 DEF There
<1>4. JobCredit(job.uid)' + 1 <= JobCredit(job.uid)
  BY <1>1, <1>2, <1>3 DEF JobCredit
<1>5. "finalize" \in OnSoft /\ at \notin OnEither \cup OnLive
  BY DEF OnLive, OnSoft, OnEither
<1> QED BY <1>1, <1>4, <1>5, Sends

\* The steps of a push that leave the rows alone.
LEMMA TalkHolds ==
  ASSUME PushInv, DocShape,
         \/ Create /\ ~There(job.uid)
         \/ Update \/ Reread \/ Rsvp \/ PushPartstat \/ Decline
         \/ RereadDeclined \/ RemoveDeclined \/ DeleteRemote \/ Refetch
         \/ AdoptNormalised /\ GoOn("recordPush") /\ obj' = obj
  PROVE  PushInv'
<1> USE DEF Work
<1>1. ASSUME pc = "push", job # NoJob
      PROVE  IsDoc(job.mine)
  BY <1>1 DEF DocShape
<1>2. ASSUME There(job.uid), job.uid \in Uid, NEW ps
      PROVE  IsDoc([remote[job.uid].doc EXCEPT !.ps = ps])
  BY <1>2 DEF DocShape, IsDoc
<1>3. CASE Create /\ ~There(job.uid)
  <2>1. Working("create") /\ Accept(job.uid, job.mine) /\ GoOn("reread") /\ UNCHANGED <<obj, map>>
    BY <1>3 DEF Create
  <2>2. IsDoc(job.mine)
    BY <1>1, <2>1, Worked
  <2> QED BY <1>3, <2>1, <2>2, Puts
<1>4. CASE Update
  <2>1. Working("update") /\ UNCHANGED <<obj, map>>
    BY <1>4 DEF Update
  <2>2. CASE Accept(job.uid, job.mine) /\ GoOn("reread")
    <3>1. IsDoc(job.mine)
      BY <1>1, <2>1, Worked
    <3> QED BY <1>4, <2>1, <2>2, <3>1, Puts
  <2>3. CASE GoOn("refetch") /\ UNCHANGED remoteVars
    BY <1>4, <2>1, <2>3, AsksOn
  <2> QED BY <1>4, <2>2, <2>3 DEF Update
<1>5. CASE Reread
  <2>1. Working("reread") /\ UNCHANGED <<obj, map, remoteVars>>
    BY <1>5 DEF Reread
  <2>2. CASE There(job.uid) /\ GoOnWith("adopt", remote[job.uid])
    BY <1>5, <2>1, <2>2, AsksOn
  <2>3. CASE ~There(job.uid) /\ PassFails
    BY <2>1, <2>3, GoneFails
  <2> QED BY <1>5, <2>2, <2>3 DEF Reread
<1>6. CASE Rsvp
  <2>1. Working("rsvp") /\ UNCHANGED <<obj, map, remoteVars>>
    BY <1>6 DEF Rsvp
  <2>2. CASE GoOn("partstat") \/ GoOnWith("overwrite", remote[job.uid])
    BY <1>6, <2>1, <2>2, AsksOn
  <2>3. CASE ~There(job.uid) /\ GoOn("drop")
    BY <1>6, <2>1, <2>3, AsksOn
  <2> QED BY <1>6, <2>2, <2>3 DEF Rsvp
<1>7. ASSUME Work, NEW at, NEW ps, NEW next, Working(at), SetPartstat(ps, next), UNCHANGED <<obj, map>>,
             (at = "partstat" /\ next = "reread") \/ (at = "decline" /\ next = "rereadDeclined")
      PROVE  PushInv'
  <2>1. CASE GoOn("refetch") /\ UNCHANGED remoteVars
    BY <1>7, <2>1, AsksOn
  <2>2. CASE Matches /\ Accept(job.uid, [remote[job.uid].doc EXCEPT !.ps = ps]) /\ GoOn(next)
    <3> DEFINE d == [remote[job.uid].doc EXCEPT !.ps = ps]
    <3>1. There(job.uid) /\ job.uid \in Uid
      BY <1>7, <2>2, Worked DEF Matches
    <3>2. IsDoc(d) /\ Accept(job.uid, d)
      BY <1>2, <2>2, <3>1
    <3> HIDE DEF d
    <3> QED BY <1>7, <2>2, <3>1, <3>2, Puts
  <2> QED BY <1>7, <2>1, <2>2 DEF SetPartstat
<1>8. CASE PushPartstat
  <2>1. Working("partstat") /\ UNCHANGED <<obj, map>>
    BY <1>8 DEF PushPartstat
  <2>2. CASE SetPartstat(job.mine.ps, "reread")
    BY <1>7, <1>8, <2>1, <2>2
  <2>3. CASE ~There(job.uid) /\ PassFails /\ UNCHANGED remoteVars
    BY <2>1, <2>3, GoneFails
  <2> QED BY <1>8, <2>2, <2>3 DEF PushPartstat
<1>9. CASE Decline
  <2>1. Working("decline") /\ UNCHANGED <<obj, map>>
    BY <1>9 DEF Decline
  <2>2. CASE SetPartstat("declined", "rereadDeclined")
    BY <1>7, <1>9, <2>1, <2>2
  <2>3. CASE ~There(job.uid) /\ GoOn("finalize") /\ UNCHANGED remoteVars
    BY <1>9, <2>1, <2>3, AsksOn
  <2> QED BY <1>9, <2>2, <2>3 DEF Decline
<1>10. CASE RereadDeclined
  <2>1. Working("rereadDeclined") /\ UNCHANGED <<obj, map, remoteVars>>
    BY <1>10 DEF RereadDeclined
  <2>2. CASE GoOnWith("removeDeclined", remote[job.uid])
    BY <1>10, <2>1, <2>2, AsksOn
  <2>3. CASE ~There(job.uid) /\ GoOn("finalize")
    BY <1>10, <2>1, <2>3, AsksOn
  <2> QED BY <1>10, <2>2, <2>3 DEF RereadDeclined
<1>11. CASE RemoveDeclined
  <2>1. Working("removeDeclined") /\ UNCHANGED <<obj, map>>
    BY <1>11 DEF RemoveDeclined
  <2>2. CASE SetRemote(job.uid, NoDoc) /\ GoOn("finalize")
    BY <1>11, <2>1, <2>2, Deletes
  <2>3. CASE ~There(job.uid) /\ GoOn("finalize") /\ UNCHANGED remoteVars
    BY <1>11, <2>1, <2>3, AsksOn
  <2>4. CASE GoOn("overwrite") /\ UNCHANGED remoteVars
    BY <1>11, <2>1, <2>4, AsksOn
  <2> QED BY <1>11, <2>2, <2>3, <2>4 DEF RemoveDeclined
<1>12. CASE DeleteRemote
  <2>1. Working("delete") /\ UNCHANGED <<obj, map>>
    BY <1>12 DEF DeleteRemote
  <2>2. CASE SetRemote(job.uid, NoDoc) /\ GoOn("finalize")
    BY <1>12, <2>1, <2>2, Deletes
  <2>3. CASE ~There(job.uid) /\ GoOn("finalize") /\ UNCHANGED remoteVars
    BY <1>12, <2>1, <2>3, AsksOn
  <2>4. CASE GoOn("refetch") /\ UNCHANGED remoteVars
    BY <1>12, <2>1, <2>4, AsksOn
  <2> QED BY <1>12, <2>2, <2>3, <2>4 DEF DeleteRemote
<1>13. CASE Refetch
  <2>1. Working("refetch") /\ UNCHANGED <<obj, map, remoteVars>>
    BY <1>13 DEF Refetch
  <2>2. CASE There(job.uid) /\ GoOnWith("overwrite", remote[job.uid])
    BY <1>13, <2>1, <2>2, AsksOn
  <2>3. CASE ~There(job.uid) /\ GoOn("drop")
    BY <1>13, <2>1, <2>3, AsksOn
  <2> QED BY <1>13, <2>2, <2>3 DEF Refetch
<1>14. CASE AdoptNormalised /\ GoOn("recordPush") /\ obj' = obj
  <2>1. Working("adopt") /\ UNCHANGED <<obj, map, remoteVars>>
    BY <1>14 DEF AdoptNormalised
  <2> QED BY <1>14, <2>1, AsksOn
<1> QED BY <1>3, <1>4, <1>5, <1>6, <1>8, <1>9, <1>10, <1>11, <1>12, <1>13, <1>14

-----------------------------------------------------------------------------
(* The steps that write the rows *)

\* What a step that goes on with a job leaves as it was, and what it costs the
\* other events.
LEMMA RowsGo ==
  ASSUME PushInv, Work, NEW at \in {"overwrite", "adopt", "drop", "finalize"}, Working(at),
         NEW next \in {"recordAdopted", "recordPull", "finalize", "unmap"}, GoOn(next),
         at = "adopt" \/ next # "recordAdopted",
         UNCHANGED <<map, remoteVars>>, RowShape', OneRow',
         \A v \in Uid \ {job.uid} : \A h \in Href : Has(h)' /\ obj'[h].uid = v => obj'[h] = obj[h],
         ThreadCredit(job.uid)' <= ThreadCredit(job.uid),
         OwnCredit(job.uid)' <= OwnCredit(job.uid)
  PROVE  PushInv'
<1>1. PICK u : u = job.uid
  OBVIOUS
<1>2. job # NoJob /\ job.at = at /\ u \in Uid /\ UNCHANGED <<token, acts, faults>>
  BY <1>1, Worked
<1>3. /\ job' # NoJob /\ job'.at = next
      /\ job'.uid = u /\ job'.href = job.href /\ job'.rev = job.rev
      /\ UNCHANGED <<pc, todo, batch>>
  BY <1>1, <1>2, JobGoes DEF PushInv
<1>4. MirrorInv' /\ MapShape'
  BY WorkHolds DEF PushInv, MapShape, Mapped
<1>5. InTurn'
  <2>1. at = "adopt" => pc = "push"
    BY Worked
  <2> QED BY <1>1, <1>2, <1>3, <2>1 DEF PushInv, InTurn, ListedFor
<1>6. \A v \in Uid : Credit'[v] <= Credit[v]
  <2>1. ASSUME NEW v \in Uid, v # u
        PROVE  Credit'[v] <= Credit[v]
    <3>1. /\ job.uid # v /\ job'.uid # v /\ remote' = remote /\ attending' = attending
          /\ \A h \in Href : Has(h)' /\ obj'[h].uid = v => obj'[h] = obj[h]
      BY <1>1, <1>3, <2>1 DEF remoteVars
    <3> QED BY <1>3, <3>1, OtherKeeps
  <2>2. Credit'[u] <= Credit[u]
    <3>1. ThreadCredit(u)' <= ThreadCredit(u) /\ OwnCredit(u)' <= OwnCredit(u)
      <4>1. ThreadCredit(job.uid)' = ThreadCredit(u)' /\ OwnCredit(job.uid)' = OwnCredit(u)'
        BY <1>1, <1>3 DEF ThreadCredit, OwnCredit, ListedFor, PushJob, JobCredit, Twice, There, HrefsOf
      <4> QED BY <1>1, <4>1
    <3> QED BY <1>2, <3>1, AllSmall, CreditIs
  <2> QED BY <2>1, <2>2
<1>7. rver' = rver /\ faults \in Nat
  BY DEF remoteVars, PushInv, Paid
<1>8. Paid'
  BY <1>2, <1>6, <1>7, PaysNothing
<1> QED BY <1>4, <1>5, <1>8 DEF PushInv

\* The remote's copy replaces the row: nobody's write is left.
LEMMA Stores ==
  ASSUME PushInv, Work, NEW at \in {"overwrite", "adopt"}, Working(at),
         NEW next, GoOn(next), next = IF at = "adopt" THEN "recordAdopted" ELSE "recordPull",
         UNCHANGED <<map, remoteVars>>,
         obj' = Stored(job.href, job.uid, job.doc, "mirror")
  PROVE  PushInv'
<1>1. PICK u : u = job.uid
  OBVIOUS
<1>2. job # NoJob /\ job.at = at /\ u \in Uid /\ job.href \in Href
  BY <1>1, Worked DEF PushInv, InTurn
<1>3. job'.at = next /\ job'.uid = u /\ pc' = pc /\ todo' = todo
  BY <1>1, <1>2, JobGoes DEF PushInv
<1>4. /\ RowShape' /\ OneRow'
      /\ \A g \in HrefsOf(u)' : g = job.href /\ obj'[g].origin = "mirror"
      /\ \A v \in Uid \ {u} : \A g \in Href : Has(g)' /\ obj'[g].uid = v => obj'[g] = obj[g]
  <2>1. PICK h, d : h = job.href /\ d = job.doc
    OBVIOUS
  <2>2. obj' = Stored(h, u, d, "mirror") /\ h \in Href
    BY <1>1, <1>2, <2>1
  <2> QED BY <1>2, <2>1, <2>2, StoredRows DEF PushInv
<1>5. OwnCredit(job.uid)' <= OwnCredit(job.uid)
  <2>1. \A h \in HrefsOf(u)' : RowCredit(h)' = 0
    BY <1>4 DEF RowCredit
  <2>2. OwnCredit(u)' = 0
    BY <2>1, OwnNothing
  <2>3. OwnCredit(job.uid)' = OwnCredit(u)'
    BY <1>1, <1>3 DEF OwnCredit, HrefsOf
  <2> QED BY <1>1, <2>2, <2>3, AllSmall
<1>6. ThreadCredit(job.uid)' <= ThreadCredit(job.uid)
  <2>1. ~ListedFor(u)
    BY <1>1, <1>2 DEF PushInv, InTurn, ListedFor
  <2>2. ThreadCredit(u)' = 0
    BY <1>3, <2>1 DEF ThreadCredit, JobCredit, ListedFor
  <2>3. ThreadCredit(job.uid)' = ThreadCredit(u)'
    BY <1>1, <1>3 DEF ThreadCredit, ListedFor, PushJob, JobCredit, Twice, There
  <2> QED BY <1>1, <2>2, <2>3, AllSmall
<1> QED BY <1>1, <1>4, <1>5, <1>6, RowsGo

\* A row that is removed, or is no longer what the thread has in hand, had been
\* counted already.
LEMMA Frees ==
  ASSUME PushInv, Work, NEW at, Working(at), NEW next, GoOn(next),
         \/ at = "drop" /\ next = "finalize" /\ (Has(job.href)' => obj[job.href].soft = TRUE)
         \/ at = "finalize" /\ next = "unmap" /\ (Has(job.href)' => obj[job.href].soft = FALSE),
         UNCHANGED <<map, remoteVars>>,
         DOMAIN obj' = Href, \A g \in Href : obj'[g] \in {obj[g], NoObject}
  PROVE  PushInv'
<1>1. PICK u : u = job.uid
  OBVIOUS
<1>2. job # NoJob /\ job.at = at /\ u \in Uid /\ job.href \in Href
  BY <1>1, Worked DEF PushInv, InTurn
<1>3. /\ job' # NoJob /\ job'.at = next /\ job'.uid = u /\ job'.href = job.href /\ job'.rev = job.rev
      /\ pc' = pc /\ todo' = todo
  BY <1>1, <1>2, JobGoes DEF PushInv
<1>4. RowShape' /\ OneRow' /\ \A g \in Href : Has(g)' => Has(g) /\ obj'[g] = obj[g]
  BY GoneRows DEF PushInv
<1>5. ~ListedFor(u) /\ ~ListedFor(u)' /\ PushJob(u)' = PushJob(u)
  <2>1. ~ListedFor(u)
    BY <1>1, <1>2 DEF PushInv, InTurn, ListedFor
  <2> QED BY <1>1, <1>2, <1>3, <2>1 DEF ListedFor, PushJob
<1>6. PushJob(u) \/ pc = "apply"
  BY <1>1, <1>2 DEF PushInv, InTurn, PushJob
<1>7. ASSUME NEW h \in HrefsOf(u)'
      PROVE  h \in HrefsOf(u) /\ RowCredit(h)' <= RowCredit(h)
  <2>1. h \in Href /\ Has(h)'
    BY DEF HrefsOf
  <2>2. Has(h) /\ obj'[h] = obj[h] /\ obj[h].uid = u /\ h \in HrefsOf(u)
    BY <1>4, <2>1 DEF HrefsOf
  <2>3. ~InList(h) /\ ~InList(h)'
    BY <1>5, <2>2 DEF InList, ListedFor
  <2>4. NeedsPush(h)' = NeedsPush(h) /\ \A soft : Twice(u, soft)' = Twice(u, soft)
    BY <2>1, <2>2 DEF NeedsPush, Pushed, Mapped, Twice, There, remoteVars
  <2>5. CASE PushJob(u)
    <3>1. InJob(h) => InJob(h)'
      BY <1>2, <1>3, <1>5, <2>1, <2>2, <2>5 DEF InJob, OnLive, OnSoft, OnEither
    <3> QED BY <1>5, <2>2, <2>3, <2>5, <3>1, Small, <2>1 DEF RowCredit
  <2>6. CASE pc = "apply" /\ ~PushJob(u)
    <3>1. ~InJob(h) /\ ~InJob(h)'
      BY <1>5, <2>2, <2>6 DEF InJob
    <3>2. Loose(h)' => Loose(h)
      BY <1>1, <1>2, <1>3, <2>1, <2>2, <2>6 DEF Loose, RowShape, PushInv
    <3> QED BY <1>5, <2>1, <2>2, <2>3, <2>4, <2>6, <3>1, <3>2, Small DEF RowCredit
  <2> QED BY <1>6, <2>2, <2>5, <2>6
<1>8. OwnCredit(job.uid)' <= OwnCredit(job.uid)
  <2>1. OwnCredit(u)' <= OwnCredit(u)
    BY <1>7, OwnAtMost
  <2>2. OwnCredit(job.uid)' = OwnCredit(u)'
    BY <1>1, <1>3 DEF OwnCredit, HrefsOf
  <2> QED BY <1>1, <2>1, <2>2
<1>9. ThreadCredit(job.uid)' <= ThreadCredit(job.uid)
  <2>1. There(u)' = There(u)
    BY DEF There, remoteVars
  <2>2. JobCredit(u)' <= JobCredit(u)
    BY <1>2, <1>3, <2>1 DEF JobCredit
  <2>3. ThreadCredit(u)' <= ThreadCredit(u)
    BY <1>5, <2>2, AllSmall DEF ThreadCredit
  <2>4. ThreadCredit(job.uid)' = ThreadCredit(u)'
    BY <1>1, <1>3 DEF ThreadCredit, ListedFor, PushJob, JobCredit, Twice, There
  <2> QED BY <1>1, <2>3, <2>4
<1>10. \A v \in Uid \ {job.uid} : \A h \in Href : Has(h)' /\ obj'[h].uid = v => obj'[h] = obj[h]
  BY <1>4
<1> QED BY <1>4, <1>8, <1>9, <1>10, RowsGo

LEMMA StoringHolds ==
  ASSUME PushInv,
         \/ AdoptNormalised /\ obj' = Stored(job.href, job.uid, job.doc, "mirror") /\ GoOn("recordAdopted")
         \/ Overwrite \/ Drop \/ Finalize
  PROVE  PushInv'
<1> USE DEF Work
<1>1. CASE AdoptNormalised /\ obj' = Stored(job.href, job.uid, job.doc, "mirror") /\ GoOn("recordAdopted")
  BY <1>1, Stores DEF AdoptNormalised
<1>2. CASE Overwrite /\ obj' = Stored(job.href, job.uid, job.doc, "mirror") /\ GoOn("recordPull")
  BY <1>2, Stores DEF Overwrite
<1>3. CASE Overwrite /\ ~Storable(job.href, job.uid) /\ PassFails /\ obj' = obj
  <2>1. Working("overwrite") /\ UNCHANGED <<obj, map, remoteVars>>
    BY <1>3 DEF Overwrite
  <2>2. UNCHANGED <<token, acts, faults>>
    BY <2>1, Worked
  <2>3. \A h \in Href : ~(Has(h) /\ InJob(h))
    BY <1>3 DEF InJob, PushJob, Storable, Live, PushInv, OneRow, HrefsOf
  <2> QED BY <1>3, <2>1, <2>2, <2>3, JobFails
<1>4. CASE Drop
  <2>1. Working("drop") /\ GoOn("finalize") /\ UNCHANGED <<map, remoteVars>>
    BY <1>4 DEF Drop
  <2>2. obj' = (IF Live(job.href) THEN [obj EXCEPT ![job.href] = NoObject] ELSE obj) /\ DOMAIN obj = Href
    BY <1>4 DEF Drop, PushInv, RowShape
  <2>3. job.href \in Href
    BY <2>1, Worked DEF PushInv, InTurn
  <2>4. DOMAIN obj' = Href /\ \A g \in Href : obj'[g] \in {obj[g], NoObject}
    BY <2>2, <2>3
  <2>5. Has(job.href)' => obj[job.href].soft = TRUE
    <3>1. PICK h : h = job.href
      OBVIOUS
    <3>2. job'.href = h
      BY <2>1, <3>1, Worked, JobGoes DEF PushInv
    <3> QED BY <2>2, <2>3, <3>1, <3>2 DEF Has, Live, PushInv, RowShape
  <2> QED BY <1>4, <2>1, <2>4, <2>5, Frees
<1>5. CASE Finalize
  <2>1. Working("finalize") /\ GoOn("unmap") /\ UNCHANGED <<map, remoteVars>>
    BY <1>5 DEF Finalize
  <2>2. /\ obj' = IF Has(job.href) /\ ~Live(job.href) THEN [obj EXCEPT ![job.href] = NoObject] ELSE obj
        /\ DOMAIN obj = Href
    BY <1>5 DEF Finalize, PushInv, RowShape
  <2>3. job.href \in Href
    BY <2>1, Worked DEF PushInv, InTurn
  <2>4. DOMAIN obj' = Href /\ \A g \in Href : obj'[g] \in {obj[g], NoObject}
    BY <2>2, <2>3
  <2>5. Has(job.href)' => obj[job.href].soft = FALSE
    <3>1. PICK h : h = job.href
      OBVIOUS
    <3>2. job'.href = h
      BY <2>1, <3>1, Worked, JobGoes DEF PushInv
    <3> QED BY <2>2, <2>3, <3>1, <3>2 DEF Has, Live, PushInv, RowShape
  <2> QED BY <1>5, <2>1, <2>4, <2>5, Frees
<1> QED BY <1>1, <1>2, <1>3, <1>4, <1>5 DEF Overwrite

-----------------------------------------------------------------------------
(* The end of a job *)

\* The row of the job's event is given what the job still held, if it was the one in
\* hand; any other write of a client had been counted already.
LEMMA JobEnds ==
  ASSUME PushInv, Work, NEW at, at # "none", Working(at), Done, UNCHANGED <<obj, remoteVars>>,
         MapShape', \A v \in Uid \ {job.uid} : map'[v] = map[v],
         \A h \in HrefsOf(job.uid) : obj[h].origin = "client" =>
             RowCredit(h) = 2 \/ (PushJob(job.uid) /\ RowCredit(h)' <= JobCredit(job.uid))
  PROVE  PushInv'
<1>1. PICK u : u = job.uid
  OBVIOUS
<1>2. /\ job # NoJob /\ u \in Uid /\ job' = NoJob
      /\ UNCHANGED <<obj, token, remote, rver, attending, pc, todo, batch, acts, faults>>
  BY <1>1, Worked DEF Done, Continue, remoteVars
<1>3. MirrorInv' /\ RowShape' /\ OneRow'
  BY <1>2, WorkHolds DEF PushInv, RowShape, OneRow, Has
<1>4. InTurn'
  BY <1>2 DEF PushInv, InTurn
<1>5. \A v \in Uid : Credit'[v] <= Credit[v]
  <2>1. ASSUME NEW v \in Uid, v # u
        PROVE  Credit'[v] <= Credit[v]
    <3>1. job.uid # v /\ map'[v] = map[v]
      BY <1>1, <2>1
    <3> QED BY <1>2, <3>1, OtherKeeps
  <2>2. ~ListedFor(u)
    BY <1>1, <1>2 DEF PushInv, InTurn, ListedFor
  <2>3. ThreadCredit(u)' = 0 /\ ThreadCredit(u) = IF PushJob(u) THEN JobCredit(u) ELSE 0
    BY <1>2, <2>2 DEF ThreadCredit, ListedFor, PushJob
  <2>4. CASE HrefsOf(u) = {}
    <3>1. OwnCredit(u)' = 0
      <4>1. HrefsOf(u)' = {}
        BY <1>2, <2>4 DEF HrefsOf, Has
      <4> QED BY <4>1, OwnNothing
    <3> QED BY <1>2, <2>1, <2>3, <3>1, AllSmall, CreditIs
  <2>5. ASSUME NEW h \in HrefsOf(u)
        PROVE  Credit'[u] <= Credit[u]
    <3>1. h \in Href /\ obj[h].uid = u /\ h \in HrefsOf(u)'
      BY <1>2 DEF HrefsOf, Has
    <3>2. OwnCredit(u) = RowCredit(h) /\ OwnCredit(u)' = RowCredit(h)'
      BY <1>3, <3>1, OwnIs DEF PushInv
    <3>3. RowCredit(h)' <= ThreadCredit(u) + RowCredit(h)
      <4>1. CASE obj[h].origin # "client"
        <5>1. RowCredit(h)' = 0
          BY <1>2, <4>1 DEF RowCredit
        <5> QED BY <3>1, <5>1, Small, AllSmall
      <4>2. CASE RowCredit(h) = 2
        BY <3>1, <4>2, Small, AllSmall
      <4>3. CASE PushJob(u) /\ RowCredit(h)' <= JobCredit(u)
        <5>1. ThreadCredit(u) = JobCredit(u)
          BY <2>3, <4>3
        <5> QED BY <3>1, <4>3, <5>1, Small, AllSmall
      <4>4. obj[h].origin = "client" => RowCredit(h) = 2 \/ (PushJob(u) /\ RowCredit(h)' <= JobCredit(u))
        BY <1>1
      <4> QED BY <4>1, <4>2, <4>3, <4>4
    <3> QED BY <1>2, <2>3, <3>1, <3>2, <3>3, Small, AllSmall, CreditIs
  <2> QED BY <2>1, <2>4, <2>5
<1>6. rver' = rver /\ faults \in Nat
  BY <1>2 DEF PushInv, Paid
<1>7. Paid'
  BY <1>2, <1>5, <1>6, PaysNothing
<1> QED BY <1>3, <1>4, <1>7 DEF PushInv

\* The steps whose job has no row in hand.
LEMMA CountedInFull ==
  ASSUME PushInv, job # NoJob, job.at \in {"recordAdopted", "recordPull", "unmap"},
         pc = "apply" => job.at # "recordAdopted",
         NEW h \in HrefsOf(job.uid), obj[h].origin = "client"
  PROVE  RowCredit(h) = 2
<1>1. h \in Href /\ obj[h].uid = job.uid
  BY DEF HrefsOf
<1>2. ~ListedFor(job.uid) /\ ~InList(h) /\ (PushJob(job.uid) \/ pc = "apply")
  BY <1>1 DEF PushInv, InTurn, ListedFor, InList, PushJob
<1>3. ~InJob(h)
  BY DEF InJob, OnLive, OnSoft, OnEither
<1>4. pc = "apply" => Loose(h)
  BY <1>1 DEF Loose
<1> QED BY <1>1, <1>2, <1>3, <1>4 DEF RowCredit

LEMMA RecordShape ==
  ASSUME PushInv, job.uid \in Uid, NEW n, Record(n)
  PROVE  /\ MapShape' /\ \A v \in Uid \ {job.uid} : map'[v] = map[v]
         /\ map'[job.uid].pushed = n /\ map'[job.uid] # NoMap
<1>1. DOMAIN map = Uid
  BY DEF PushInv, MirrorInv, Numbered
<1>2. map' = [map EXCEPT ![job.uid] = [version |-> job.ver, doc |-> job.doc, pushed |-> n]]
  BY DEF Record
<1>3. map'[job.uid] = [version |-> job.ver, doc |-> job.doc, pushed |-> n]
  BY <1>1, <1>2
<1> QED BY <1>1, <1>2, <1>3 DEF MapShape, PushInv, Mapped, NoMap

LEMMA EndsHold ==
  ASSUME PushInv,
         \/ Create /\ There(job.uid)
         \/ RecordPush \/ RecordAdopted \/ RecordPull \/ Unmap
  PROVE  PushInv'
<1> USE DEF Work
<1>1. CASE Create /\ There(job.uid)
  <2>1. Working("create") /\ Done /\ UNCHANGED <<obj, map, remoteVars>>
    BY <1>1 DEF Create
  <2>2. job # NoJob /\ job.at = "create" /\ job.uid \in Uid /\ pc = "push" /\ PushJob(job.uid) /\ ~ListedFor(job.uid)
    BY <2>1, Worked
  <2>3. ASSUME NEW h \in HrefsOf(job.uid), obj[h].origin = "client"
        PROVE  RowCredit(h) = 2 \/ (PushJob(job.uid) /\ RowCredit(h)' <= JobCredit(job.uid))
    <3>1. h \in Href /\ obj[h].uid = job.uid
      BY DEF HrefsOf
    <3>2. ~InList(h)
      BY <2>2, <3>1 DEF InList, ListedFor
    <3>3. CASE ~InJob(h)
      BY <2>2, <2>3, <3>1, <3>2, <3>3 DEF RowCredit
    <3>4. CASE InJob(h)
      <4>1. ~obj[h].soft
        BY <2>2, <3>4 DEF InJob, OnSoft, OnEither
      <4>2. job' = NoJob /\ UNCHANGED <<obj, pc, todo, attending, remote>>
        BY <2>1 DEF Done, Continue, remoteVars
      <4>3. ~ListedFor(obj[h].uid)' /\ ~PushJob(obj[h].uid)' /\ ~Loose(h)'
        BY <2>2, <3>1, <4>2 DEF ListedFor, PushJob, Loose
      <4>4. ~Twice(obj[h].uid, obj[h].soft)'
        BY <4>1, <4>2 DEF Twice
      <4>5. RowCredit(h)' \in {0, 1}
        BY <4>3, <4>4 DEF RowCredit
      <4>6. JobCredit(job.uid) = 1
        BY <2>2 DEF JobCredit
      <4> QED BY <2>2, <4>5, <4>6
    <3> QED BY <3>3, <3>4
  <2>4. MapShape'
    BY <2>1 DEF PushInv, MapShape, Mapped
  <2> QED BY <1>1, <2>1, <2>3, <2>4, JobEnds
<1>2. CASE RecordPush
  <2>1. Working("recordPush") /\ Record(job.rev) /\ Done /\ UNCHANGED <<obj, remoteVars>>
    BY <1>2 DEF RecordPush
  <2>2. job # NoJob /\ job.at = "recordPush" /\ job.uid \in Uid /\ pc = "push" /\ PushJob(job.uid) /\ ~ListedFor(job.uid)
    BY <2>1, Worked
  <2>3. PICK n : n = job.rev
    OBVIOUS
  <2>4. /\ MapShape' /\ \A v \in Uid \ {job.uid} : map'[v] = map[v]
        /\ map'[job.uid].pushed = n /\ map'[job.uid] # NoMap
    BY <2>1, <2>2, <2>3, RecordShape
  <2>5. ASSUME NEW h \in HrefsOf(job.uid), obj[h].origin = "client"
        PROVE  RowCredit(h) = 2 \/ (PushJob(job.uid) /\ RowCredit(h)' <= JobCredit(job.uid))
    <3>1. h \in Href /\ obj[h].uid = job.uid
      BY DEF HrefsOf
    <3>2. ~InList(h)
      BY <2>2, <3>1 DEF InList, ListedFor
    <3>3. CASE ~InJob(h)
      BY <2>2, <2>5, <3>1, <3>2, <3>3 DEF RowCredit
    <3>4. CASE InJob(h)
      <4>1. job' = NoJob /\ UNCHANGED <<obj, pc, todo>>
        BY <2>1 DEF Done, Continue
      <4>2. ~ListedFor(obj[h].uid)' /\ ~PushJob(obj[h].uid)' /\ ~Loose(h)'
        BY <2>2, <3>1, <4>1 DEF ListedFor, PushJob, Loose
      <4>3. obj[h].rev = n /\ n \in Nat
        BY <2>2, <2>3, <3>4 DEF InJob, PushInv, InTurn
      <4>4. ~NeedsPush(h)'
        BY <2>4, <3>1, <4>1, <4>3 DEF NeedsPush, Pushed, Mapped
      <4>5. RowCredit(h)' = 0
        BY <4>2, <4>4 DEF RowCredit
      <4> QED BY <2>2, <4>5 DEF JobCredit
    <3> QED BY <3>3, <3>4
  <2> QED BY <1>2, <2>1, <2>4, <2>5, JobEnds
<1>3. CASE RecordAdopted
  <2>1. PICK n : Working("recordAdopted") /\ Record(n) /\ Done /\ UNCHANGED <<obj, remoteVars>>
    BY <1>3 DEF RecordAdopted
  <2>2. job # NoJob /\ job.at = "recordAdopted" /\ job.uid \in Uid /\ pc = "push"
    BY <2>1, Worked
  <2>3. MapShape' /\ \A v \in Uid \ {job.uid} : map'[v] = map[v]
    BY <2>1, <2>2, RecordShape
  <2>4. \A h \in HrefsOf(job.uid) : obj[h].origin = "client" => RowCredit(h) = 2
    BY <2>2, CountedInFull
  <2> QED BY <1>3, <2>1, <2>3, <2>4, JobEnds
<1>4. CASE RecordPull
  <2>1. PICK n : Working("recordPull") /\ Record(n) /\ Done /\ UNCHANGED <<obj, remoteVars>>
    BY <1>4 DEF RecordPull
  <2>2. job # NoJob /\ job.at = "recordPull" /\ job.uid \in Uid
    BY <2>1, Worked
  <2>3. MapShape' /\ \A v \in Uid \ {job.uid} : map'[v] = map[v]
    BY <2>1, <2>2, RecordShape
  <2>4. \A h \in HrefsOf(job.uid) : obj[h].origin = "client" => RowCredit(h) = 2
    BY <2>2, CountedInFull
  <2> QED BY <1>4, <2>1, <2>3, <2>4, JobEnds
<1>5. CASE Unmap
  <2>1. Working("unmap") /\ map' = [map EXCEPT ![job.uid] = NoMap] /\ Done /\ UNCHANGED <<obj, remoteVars>>
    BY <1>5 DEF Unmap
  <2>2. job # NoJob /\ job.at = "unmap" /\ job.uid \in Uid
    BY <2>1, Worked
  <2>3. MapShape' /\ \A v \in Uid \ {job.uid} : map'[v] = map[v]
    BY <2>1, <2>2 DEF PushInv, MirrorInv, Numbered, MapShape, Mapped
  <2>4. \A h \in HrefsOf(job.uid) : obj[h].origin = "client" => RowCredit(h) = 2
    BY <2>2, CountedInFull
  <2> QED BY <1>5, <2>1, <2>3, <2>4, JobEnds
<1> QED BY <1>1, <1>2, <1>3, <1>4, <1>5

-----------------------------------------------------------------------------
(* What a pull takes in hand *)

LEMMA PullsOn ==
  ASSUME PushInv, pc = "apply", job = NoJob, NEW u \in Uid, NEW h \in Href,
         UNCHANGED <<storeVars, remoteVars, pc, todo, boundVars>>, MirrorInv',
         NEW at, job' = NoJob \/ (\E doc, ver : job' = PullJob(u, h, at, doc, ver)),
         \/ at = "overwrite"
         \/ at = "unmap" /\ HrefsOf(u) = {}
         \/ at = "drop" /\ h \in HrefsOf(u)
  PROVE  PushInv'
<1>1. UNCHANGED <<obj, map, token, remote, rver, attending, pc, todo, acts, faults>>
  BY DEF storeVars, remoteVars, boundVars
<1>2. job' # NoJob => job'.uid = u /\ job'.href = h /\ job'.at = at /\ job'.rev = 0
  BY DEF PullJob
<1>3. RowShape' /\ OneRow' /\ MapShape'
  BY <1>1 DEF PushInv, RowShape, OneRow, MapShape, Has, Mapped
<1>4. todo = {}
  BY DEF PushInv, InTurn
<1>5. InTurn'
  BY <1>1, <1>2, <1>4 DEF InTurn
<1>6. ASSUME NEW v \in Uid
      PROVE  Credit'[v] <= Credit[v]
  <2>1. ThreadCredit(v) = 0 /\ ThreadCredit(v)' = 0 /\ ~ListedFor(v) /\ ~ListedFor(v)' /\ ~PushJob(v) /\ ~PushJob(v)'
    BY <1>1, <1>4 DEF ThreadCredit, ListedFor, PushJob
  <2>2. ASSUME NEW g \in HrefsOf(v)'
        PROVE  g \in HrefsOf(v) /\ RowCredit(g)' <= RowCredit(g)
    <3>1. g \in Href /\ Has(g) /\ obj[g].uid = v /\ obj' = obj /\ g \in HrefsOf(v)
      BY <1>1 DEF HrefsOf, Has
    <3>2. ~Loose(g)'
      BY <1>1, <1>2, <3>1 DEF Loose, HrefsOf, PushInv, OneRow, Has
    <3>3. NeedsPush(g)' = NeedsPush(g) /\ \A soft : Twice(v, soft)' = Twice(v, soft)
      BY <1>1 DEF NeedsPush, Has, Pushed, Mapped, Twice, There
    <3>4. RowCredit(g)' <= RowCredit(g)
      BY <2>1, <3>1, <3>2, <3>3, Small DEF RowCredit
    <3> QED BY <3>1, <3>4
  <2>3. OwnCredit(v)' <= OwnCredit(v)
    BY <2>2, OwnAtMost
  <2> QED BY <2>1, <2>3, AllSmall, CreditIs
<1>7. faults \in Nat
  BY DEF PushInv, Paid
<1>8. Paid'
  BY <1>1, <1>6, <1>7, PaysNothing
<1> QED BY <1>3, <1>5, <1>8 DEF PushInv

LEMMA PullTakesHold ==
  ASSUME PushInv, NEW u \in Uid, Apply(u) \/ ApplyGone(u)
  PROVE  PushInv'
<1>1. MirrorInv' /\ pc = "apply" /\ job = NoJob /\ UNCHANGED <<storeVars, remoteVars, pc, todo, boundVars>>
  BY ApplyHolds, ApplyGoneHolds DEF PushInv, Apply, ApplyGone
<1>2. u \in Href
  BY MirrorAssumption
<1>3. CASE Apply(u)
  <2>1. PICK h \in Href : job' = PullJob(u, h, "overwrite", batch.items[u].doc, batch.items[u].at)
    BY <1>3 DEF Apply
  <2>2. \E doc, ver : job' = PullJob(u, h, "overwrite", doc, ver)
    BY <2>1
  <2> QED BY <1>1, <2>2, PullsOn
<1>4. CASE ApplyGone(u)
  <2>1. CASE job' = NoJob
    BY <1>1, <1>2, <2>1, PullsOn
  <2>2. CASE HrefsOf(u) = {} /\ job' = PullJob(u, u, "unmap", NoDoc, 0)
    <3>1. \E doc, ver : job' = PullJob(u, u, "unmap", doc, ver)
      BY <2>2
    <3> QED BY <1>1, <1>2, <2>2, <3>1, PullsOn
  <2>3. ASSUME NEW h \in HrefsOf(u), job' = PullJob(u, h, "drop", NoDoc, 0)
        PROVE  PushInv'
    <3>1. h \in Href /\ \E doc, ver : job' = PullJob(u, h, "drop", doc, ver)
      BY <2>3 DEF HrefsOf
    <3> QED BY <1>1, <3>1, PullsOn
  <2> QED BY <1>4, <2>1, <2>2, <2>3 DEF ApplyGone
<1> QED BY <1>3, <1>4

-----------------------------------------------------------------------------
(* Documents *)

LEMMA PutDocs ==
  ASSUME PushInv, DocShape, NEW h \in Href, NEW u \in Uid, NEW d, NEW origin, IsDoc(d),
         obj' = Stored(h, u, d, origin)
  PROVE  \A g \in Href : Has(g)' => IsDoc(obj'[g].doc)
<1>1. obj'[h] = [uid |-> u, doc |-> d, origin |-> origin, soft |-> FALSE, rev |-> IF Has(h) THEN obj[h].rev + 1 ELSE 1]
  BY DEF Stored
<1>2. obj'[h].doc = d
  BY <1>1
<1>3. \A g \in Href \ {h} : Has(g)' => Has(g) /\ obj'[g] = obj[g]
  BY DEF Stored, Has
<1> QED BY <1>2, <1>3 DEF DocShape

LEMMA SetDocs ==
  ASSUME PushInv, DocShape, NEW u \in Uid, NEW d, d = NoDoc \/ IsDoc(d), SetRemote(u, d)
  PROVE  \A v \in Uid : There(v)' => IsDoc(remote'[v].doc)
<1>1. /\ remote'[u] = [at |-> rver + 1, doc |-> d]
      /\ \A v \in Uid \ {u} : remote'[v] = remote[v]
  BY DEF SetRemote, PushInv, MirrorInv, Numbered
<1>2. remote'[u].doc = d
  BY <1>1
<1> QED BY <1>1, <1>2 DEF DocShape, There

LEMMA AcceptDocs ==
  ASSUME PushInv, DocShape, NEW u \in Uid, NEW d, IsDoc(d), Accept(u, d)
  PROVE  \A v \in Uid : There(v)' => IsDoc(remote'[v].doc)
<1>1. PICK form : SetRemote(u, [d EXCEPT !.form = form])
  BY DEF Accept
<1> DEFINE e == [d EXCEPT !.form = form]
<1>2. IsDoc(e) /\ SetRemote(u, e)
  BY <1>1 DEF IsDoc
<1> HIDE DEF e
<1> QED BY <1>2, SetDocs

\* The writers' documents.
LEMMA OutsideDocs ==
  ASSUME PushInv, DocShape, Environment
  PROVE  DocShape'
<1>1. ASSUME NEW h \in Href, NEW u \in Uid, ClientPut(h, u)
      PROVE  DocShape'
  <2>1. PICK d : obj' = Stored(h, u, d, "client") /\ IsDoc(d)
    BY <1>1 DEF ClientPut, Edited, IsDoc
  <2>2. UNCHANGED <<remote, pc, todo, job, batch>>
    BY <1>1 DEF ClientPut, remoteVars, threadVars
  <2>3. \A g \in Href : Has(g)' => IsDoc(obj'[g].doc)
    BY <2>1, PutDocs
  <2> QED BY <2>2, <2>3 DEF DocShape, There
<1>2. ASSUME NEW h \in Href, ClientDelete(h)
      PROVE  DocShape'
  <2>1. UNCHANGED <<remote, pc, todo, job, batch>>
    BY <1>2 DEF ClientDelete, remoteVars, threadVars
  <2>2. Has(h) /\ DOMAIN obj[h] = {"uid", "doc", "rev", "origin", "soft"} /\ DOMAIN obj = Href
    BY <1>2 DEF ClientDelete, Live, PushInv, RowShape
  <2>3. obj' = [obj EXCEPT ![h].soft = TRUE, ![h].origin = "client", ![h].rev = @ + 1]
    BY <1>2 DEF ClientDelete
  <2>4. obj'[h].doc = obj[h].doc /\ \A g \in Href \ {h} : obj'[g] = obj[g]
    BY <2>2, <2>3
  <2>5. \A g \in Href : Has(g)' => IsDoc(obj'[g].doc)
    BY <2>2, <2>4 DEF DocShape, Has
  <2> QED BY <2>1, <2>5 DEF DocShape, There
<1>3. ASSUME NEW u \in Uid, OtherWrite(u) \/ OtherDelete(u)
      PROVE  DocShape'
  <2>1. UNCHANGED <<obj, pc, todo, job, batch>>
    BY <1>3 DEF OtherWrite, OtherDelete, storeVars, threadVars
  <2>2. PICK d : SetRemote(u, d) /\ (d = NoDoc \/ IsDoc(d))
    <3>1. CASE OtherDelete(u)
      BY <3>1 DEF OtherDelete
    <3>2. CASE OtherWrite(u)
      <4>1. PICK ps : SetRemote(u, [text |-> acts + 1, ps |-> ps, form |-> "normal"])
        BY <3>2 DEF OtherWrite
      <4> QED BY <4>1 DEF IsDoc
    <3> QED BY <1>3, <3>1, <3>2
  <2>3. \A v \in Uid : There(v)' => IsDoc(remote'[v].doc)
    BY <2>2, SetDocs
  <2> QED BY <2>1, <2>3 DEF DocShape, Has
<1>4. CASE Abort
  BY <1>4 DEF Abort, PassFails, storeVars, remoteVars, DocShape, Has, There
<1> QED BY <1>1, <1>2, <1>3, <1>4 DEF Environment

\* A pass reads them and takes them in hand.
LEMMA ReadDocs ==
  ASSUME PushInv, DocShape,
         \/ BeginPass \/ EndPush \/ List \/ Load \/ Sweep \/ EndPull
         \/ \E u \in Uid : SkipEcho(u) \/ Apply(u) \/ ApplyGone(u)
         \/ \E l \in todo : FinalizeLocalDelete(l) \/ TakeCreate(l) \/ Adopt(l) \/ TakeMapped(l)
  PROVE  DocShape'
<1> USE DEF DocShape, storeVars, remoteVars, Has, There
<1>1. CASE BeginPass
  <2>1. UNCHANGED <<obj, remote, job, batch>> /\ job = NoJob /\ pc' = "push"
    BY <1>1 DEF BeginPass, PushInv, MirrorInv, Resting
  <2>2. ASSUME NEW l \in todo'
        PROVE  IsDoc(l.doc)
    <3>1. PICK h \in Href : NeedsPush(h) /\ l = [href |-> h, uid |-> obj[h].uid, doc |-> obj[h].doc,
                                                 rev |-> obj[h].rev, soft |-> obj[h].soft]
      BY <1>1 DEF BeginPass
    <3> QED BY <3>1 DEF NeedsPush
  <2> QED BY <2>1, <2>2
<1>2. CASE EndPush \/ List
  BY <1>2 DEF EndPush, List
<1>3. CASE Load
  <2>1. UNCHANGED <<obj, remote, job, todo>> /\ job = NoJob
    BY <1>3 DEF Load, PushInv, MirrorInv, Resting
  <2>2. DOMAIN batch = {"listed", "gone", "seen", "items", "sweep", "next"} /\ batch.listed \subseteq Uid
    BY <1>3 DEF Load, PushInv, MirrorInv, BatchNumbered
  <2>3. batch' = [batch EXCEPT !.items = remote, !.listed = {u \in batch.listed : There(u)},
                               !.seen = {u \in batch.listed : There(u)}]
    BY <1>3 DEF Load
  <2>4. batch'.items = remote /\ batch'.listed = {u \in batch.listed : There(u)}
    BY <2>2, <2>3
  <2> QED BY <2>1, <2>2, <2>4
<1>4. ASSUME pc = "apply"
      PROVE  DOMAIN batch = {"listed", "gone", "seen", "items", "sweep", "next"}
  BY <1>4 DEF PushInv, MirrorInv, BatchNumbered
<1>5. CASE Sweep
  <2>1. UNCHANGED <<obj, remote, todo, job, pc>> /\ job = NoJob
    BY <1>5 DEF Sweep
  <2>2. batch' = [batch EXCEPT !.sweep = "done", !.gone = {u \in Uid : Mapped(u) /\ u \notin batch.seen}]
    BY <1>5 DEF Sweep
  <2>3. pc = "apply"
    BY <1>5 DEF Sweep
  <2>4. batch'.items = batch.items /\ batch'.listed = batch.listed
    BY <1>4, <2>2, <2>3
  <2> QED BY <2>1, <2>3, <2>4
<1>6. CASE EndPull
  BY <1>6 DEF EndPull
<1>7. ASSUME NEW u \in Uid, SkipEcho(u) \/ Apply(u)
      PROVE  pc = "apply" /\ pc' = pc /\ batch'.items = batch.items /\ batch'.listed = batch.listed \ {u}
  <2>1. pc = "apply" /\ pc' = pc /\ batch' = [batch EXCEPT !.listed = @ \ {u}]
    BY <1>7 DEF SkipEcho, Apply
  <2> QED BY <1>4, <2>1
<1>8. ASSUME NEW u \in Uid, SkipEcho(u)
       PROVE  DocShape'
  <2>1. UNCHANGED <<obj, remote, todo, job>> /\ job = NoJob
    BY <1>8 DEF SkipEcho
  <2> QED BY <1>7, <1>8, <2>1
<1>9. ASSUME NEW u \in Uid, Apply(u)
      PROVE  DocShape'
  <2>1. PICK h : job' = PullJob(u, h, "overwrite", batch.items[u].doc, batch.items[u].at)
    BY <1>9 DEF Apply
  <2>2. job'.doc = batch.items[u].doc /\ IsDoc(batch.items[u].doc)
    BY <1>9, <2>1 DEF PullJob, Apply
  <2>3. UNCHANGED <<obj, remote, todo>>
    BY <1>9 DEF Apply
  <2> QED BY <1>7, <1>9, <2>2, <2>3
<1>10. ASSUME NEW u \in Uid, ApplyGone(u)
      PROVE  DocShape'
  <2>1. job' = NoJob \/ job'.at \in {"unmap", "drop"}
    BY <1>10 DEF ApplyGone, PullJob
  <2>2. pc = "apply" /\ UNCHANGED <<obj, remote, todo, pc>> /\ batch' = [batch EXCEPT !.gone = @ \ {u}]
    BY <1>10 DEF ApplyGone
  <2>3. batch'.items = batch.items /\ batch'.listed = batch.listed
    BY <1>4, <2>2
  <2> QED BY <2>1, <2>2, <2>3
<1>11. ASSUME NEW l \in todo, FinalizeLocalDelete(l)
       PROVE  DocShape'
  <2>1. Take(l) /\ UNCHANGED <<map, job>> /\ l.href \in Href
    BY <1>11 DEF FinalizeLocalDelete, PushInv, InTurn
  <2>2. obj' = (IF Has(l.href) /\ obj[l.href].soft THEN [obj EXCEPT ![l.href] = NoObject] ELSE obj) /\ DOMAIN obj = Href
    BY <1>11 DEF FinalizeLocalDelete, PushInv, RowShape
  <2>3. \A h \in Href : obj'[h] \in {obj[h], NoObject}
    BY <2>1, <2>2
  <2> QED BY <2>1, <2>3 DEF Take
<1>12. ASSUME NEW l \in todo, TakeCreate(l) \/ Adopt(l) \/ TakeMapped(l)
       PROVE  DocShape'
  <2>1. Take(l) /\ UNCHANGED obj
    BY <1>12 DEF TakeCreate, Adopt, TakeMapped
  <2>2. PICK at, ver : job' = JobFor(l, at, ver) /\ at \in {"create", "rsvp", "update", "decline", "delete"}
    BY <1>12 DEF TakeCreate, Adopt, TakeMapped
  <2>3. job'.mine = l.doc /\ job'.at = at
    BY <2>2 DEF JobFor
  <2> QED BY <2>1, <2>2, <2>3 DEF Take
<1> QED BY <1>1, <1>2, <1>3, <1>5, <1>6, <1>8, <1>9, <1>10, <1>11, <1>12

\* A job sends and stores what it was given or has fetched.
LEMMA WorkDocs ==
  ASSUME PushInv, DocShape, Work
  PROVE  DocShape'
<1>1. /\ job # NoJob /\ job.uid \in Uid /\ job.href \in Href
      /\ job.at \notin {"overwrite", "recordPull", "drop", "finalize", "unmap"} => pc = "push"
  <2>1. PICK at : at # "none" /\ Working(at)
    BY DEF Work, Create, Update, Reread, AdoptNormalised, RecordPush, RecordAdopted, RecordPull, Rsvp,
           PushPartstat, Decline, RereadDeclined, RemoveDeclined, DeleteRemote, Refetch, Overwrite,
           Drop, Finalize, Unmap
  <2>2. job # NoJob /\ job.at = at
    BY <2>1, Worked
  <2> QED BY <2>2 DEF PushInv, InTurn
<1>2. \A h \in Href : Has(h)' => IsDoc(obj'[h].doc)
  <2>1. CASE \A h \in Href : obj'[h] \in {obj[h], NoObject}
    BY <2>1 DEF DocShape, Has
  <2>2. CASE (job.at = "adopt" \/ job.at = "overwrite") /\ obj' = Stored(job.href, job.uid, job.doc, "mirror")
    <3>1. PICK h, u, d : h = job.href /\ u = job.uid /\ d = job.doc
      OBVIOUS
    <3>2. IsDoc(d) /\ obj' = Stored(h, u, d, "mirror")
      BY <1>1, <2>2, <3>1 DEF DocShape
    <3> QED BY <1>1, <3>1, <3>2, PutDocs
  <2>3. obj' = obj \/ obj' = [obj EXCEPT ![job.href] = NoObject]
        \/ ((job.at = "adopt" \/ job.at = "overwrite") /\ obj' = Stored(job.href, job.uid, job.doc, "mirror"))
    BY DEF Work, Create, Update, Reread, AdoptNormalised, RecordPush, RecordAdopted, RecordPull, Rsvp,
           PushPartstat, Decline, RereadDeclined, RemoveDeclined, DeleteRemote, Refetch, Overwrite,
           Drop, Finalize, Unmap, Working
  <2>4. DOMAIN obj = Href
    BY DEF PushInv, RowShape
  <2> QED BY <1>1, <2>1, <2>2, <2>3, <2>4
<1>3. \A u \in Uid : There(u)' => IsDoc(remote'[u].doc)
  <2>1. CASE UNCHANGED remoteVars
    BY <2>1 DEF remoteVars, DocShape, There
  <2>2. PICK u : u = job.uid
    OBVIOUS
  <2>3. CASE SetRemote(job.uid, NoDoc)
    BY <1>1, <2>2, <2>3, SetDocs
  <2>4. CASE Accept(job.uid, job.mine) /\ pc = "push"
    <3>1. IsDoc(job.mine)
      BY <1>1, <2>4 DEF DocShape
    <3> QED BY <1>1, <2>2, <2>4, <3>1, AcceptDocs
  <2>5. ASSUME NEW ps, Matches, Accept(job.uid, [remote[job.uid].doc EXCEPT !.ps = ps])
        PROVE  \A v \in Uid : There(v)' => IsDoc(remote'[v].doc)
    <3> DEFINE d == [remote[job.uid].doc EXCEPT !.ps = ps]
    <3>1. IsDoc(d) /\ Accept(job.uid, d)
      BY <1>1, <2>5 DEF Matches, DocShape, IsDoc
    <3> HIDE DEF d
    <3> QED BY <1>1, <2>2, <3>1, AcceptDocs
  <2>6. \/ UNCHANGED remoteVars \/ SetRemote(job.uid, NoDoc)
        \/ Accept(job.uid, job.mine) /\ job.at \in {"create", "update"}
        \/ \E ps : Matches /\ Accept(job.uid, [remote[job.uid].doc EXCEPT !.ps = ps])
    BY DEF Work, Create, Update, Reread, AdoptNormalised, RecordPush, RecordAdopted, RecordPull, Rsvp,
           PushPartstat, Decline, RereadDeclined, RemoveDeclined, DeleteRemote, Refetch, Overwrite,
           Drop, Finalize, Unmap, Working, SetPartstat
  <2> QED BY <1>1, <2>1, <2>3, <2>4, <2>5, <2>6
<1>4. \/ job' = NoJob /\ pc' \in {pc, "idle"} /\ todo' \in {todo, {}} /\ (pc' = pc => batch' = batch)
      \/ /\ UNCHANGED <<pc, todo, batch>> /\ job'.mine = job.mine
         /\ job'.at \in {"adopt", "removeDeclined", "overwrite"} => IsDoc(job'.doc)
  <2>1. CASE PassFails
    BY <1>1, <2>1 DEF PassFails, PushInv, MirrorInv, Resting
  <2>2. CASE Done
    BY <2>2 DEF Done, Continue
  <2>3. ASSUME NEW at, GoOn(at), at \in {"adopt", "removeDeclined", "overwrite"} => job.at = "removeDeclined"
        PROVE  /\ UNCHANGED <<pc, todo, batch>> /\ job'.mine = job.mine
               /\ job'.at \in {"adopt", "removeDeclined", "overwrite"} => IsDoc(job'.doc)
    <3>1. DOMAIN job = {"at", "href", "uid", "mine", "rev", "doc", "ver"}
      BY <1>1 DEF PushInv, MirrorInv, JobShape
    <3>2. job' = [job EXCEPT !.at = at] /\ UNCHANGED <<pc, todo, batch>>
      BY <2>3 DEF GoOn, Continue
    <3>3. job'.mine = job.mine /\ job'.doc = job.doc /\ job'.at = at
      BY <3>1, <3>2
    <3> QED BY <1>1, <2>3, <3>2, <3>3 DEF DocShape
  <2>4. ASSUME NEW at, GoOnWith(at, remote[job.uid]), There(job.uid)
        PROVE  /\ UNCHANGED <<pc, todo, batch>> /\ job'.mine = job.mine
               /\ job'.at \in {"adopt", "removeDeclined", "overwrite"} => IsDoc(job'.doc)
    <3>1. DOMAIN job = {"at", "href", "uid", "mine", "rev", "doc", "ver"}
      BY <1>1 DEF PushInv, MirrorInv, JobShape
    <3>2. /\ job' = [job EXCEPT !.at = at, !.doc = remote[job.uid].doc, !.ver = remote[job.uid].at]
          /\ UNCHANGED <<pc, todo, batch>>
      BY <2>4 DEF GoOnWith, Continue
    <3>3. job'.mine = job.mine /\ job'.doc = remote[job.uid].doc
      BY <3>1, <3>2
    <3> QED BY <1>1, <2>4, <3>2, <3>3 DEF DocShape
  <2>5. \/ PassFails \/ Done
        \/ \E at : GoOn(at) /\ (at \in {"adopt", "removeDeclined", "overwrite"} => job.at = "removeDeclined")
        \/ \E at : GoOnWith(at, remote[job.uid]) /\ There(job.uid)
    BY DEF Work, Create, Update, Reread, AdoptNormalised, RecordPush, RecordAdopted, RecordPull, Rsvp,
           PushPartstat, Decline, RereadDeclined, RemoveDeclined, DeleteRemote, Refetch, Overwrite,
           Drop, Finalize, Unmap, Working, SetPartstat
  <2> QED BY <2>1, <2>2, <2>3, <2>4, <2>5
<1>5. CASE job' = NoJob /\ pc' \in {pc, "idle"} /\ todo' \in {todo, {}} /\ (pc' = pc => batch' = batch)
  BY <1>2, <1>3, <1>5 DEF DocShape
<1>6. CASE /\ UNCHANGED <<pc, todo, batch>> /\ job'.mine = job.mine
           /\ job'.at \in {"adopt", "removeDeclined", "overwrite"} => IsDoc(job'.doc)
  BY <1>1, <1>2, <1>3, <1>6 DEF DocShape
<1> QED BY <1>4, <1>5, <1>6

-----------------------------------------------------------------------------
(* All steps *)

LEMMA PushInit == ASSUME Init PROVE PushInv /\ DocShape
<1>1. MirrorInv
  BY InitHolds
<1>2. PICK there \in SUBSET Uid :
          remote = [u \in Uid |->
              IF u \in there
              THEN [at |-> 1, doc |-> [text |-> 0, form |-> "normal",
                    ps |-> IF u \in attending THEN "needs-action" ELSE "none"]]
              ELSE [at |-> 0, doc |-> NoDoc]]
  BY DEF Init
<1>3. /\ obj = [h \in Href |-> NoObject] /\ map = [u \in Uid |-> NoMap]
      /\ rver = 1 /\ pc = "idle" /\ todo = {} /\ job = NoJob /\ acts = 0 /\ faults = 0
  BY DEF Init
<1>4. RowShape /\ MapShape /\ OneRow /\ InTurn
  BY <1>3 DEF RowShape, MapShape, OneRow, InTurn, Has, Mapped
<1>5. DocShape
  BY <1>2, <1>3 DEF DocShape, Has, There, IsDoc
<1>6. \A u \in Uid : Credit[u] = 0
  <2>1. ASSUME NEW u \in Uid
        PROVE  Credit[u] = 0
    <3>1. ThreadCredit(u) = 0 /\ OwnCredit(u) = 0
      BY <1>3 DEF ThreadCredit, OwnCredit, ListedFor, PushJob, HrefsOf, Has
    <3> QED BY <2>1, <3>1, CreditIs
  <2> QED BY <2>1
<1>7. Tokens(Credit) = {}
  BY <1>6 DEF Tokens
<1>8. IsFiniteSet({}) /\ Cardinality({}) = 0
  BY FS_EmptySet
<1>9. Paid
  BY <1>3, <1>7, <1>8 DEF Paid
<1> QED BY <1>1, <1>4, <1>5, <1>9 DEF PushInv

LEMMA PushRests == ASSUME PushInv, DocShape, UNCHANGED vars PROVE PushInv' /\ DocShape'
<1>1. UNCHANGED <<obj, map, token, remote, rver, attending, pc, todo, job, batch, acts, faults>>
  BY DEF vars
<1>2. MirrorInv'
  BY <1>1, Quiet DEF PushInv
<1>3. RowShape' /\ MapShape' /\ OneRow' /\ InTurn' /\ DocShape'
  BY <1>1, InTurnStays DEF PushInv, RowShape, MapShape, OneRow, Has, Mapped, DocShape, There
<1>4. faults' \in Nat /\ faults <= faults' /\ \A v \in Uid : Pushed(v)' = Pushed(v)
  BY <1>1 DEF PushInv, Paid, Pushed, Mapped
<1>5. Paid'
  BY <1>1, <1>4, AsBefore
<1> QED BY <1>2, <1>3, <1>5 DEF PushInv

LEMMA PushStep == ASSUME PushInv, DocShape, [Next]_vars PROVE PushInv' /\ DocShape'
<1>1. CASE UNCHANGED vars
  BY <1>1, PushRests
<1>2. CASE Work
  <2>1. DocShape'
    BY <1>2, WorkDocs
  <2>2. PushInv'
    <3>1. CASE AdoptNormalised
      BY <3>1, TalkHolds, StoringHolds DEF AdoptNormalised
    <3>2. CASE Create
      BY <3>2, TalkHolds, EndsHold
    <3> QED BY <1>2, <3>1, <3>2, TalkHolds, StoringHolds, EndsHold DEF Work
  <2> QED BY <2>1, <2>2
<1>3. CASE BeginPass \/ EndPush \/ List \/ Load \/ Sweep \/ EndPull
  BY <1>3, BeginPushHolds, ReadingHolds, ReadDocs
<1>4. ASSUME NEW l \in todo, FinalizeLocalDelete(l) \/ TakeCreate(l) \/ Adopt(l) \/ TakeMapped(l)
      PROVE  PushInv' /\ DocShape'
  BY <1>4, LocalDeleteHolds, TakesHold, ReadDocs
<1>5. ASSUME NEW u \in Uid, SkipEcho(u) \/ Apply(u) \/ ApplyGone(u)
      PROVE  PushInv' /\ DocShape'
  BY <1>5, SkipHolds, PullTakesHold, ReadDocs
<1>6. CASE Environment
  <2>1. DocShape'
    BY <1>6, OutsideDocs
  <2>2. PushInv'
    BY <1>6, PutHolds, DeleteHolds, OtherHolds, AbortHolds DEF Environment
  <2> QED BY <2>1, <2>2
<1> QED BY <1>1, <1>2, <1>3, <1>4, <1>5, <1>6 DEF Next, Thread

LEMMA PaidIsEnough == PushInv => PushedOnce
<1>1. ASSUME PushInv
      PROVE  PushedOnce
  <2>1. /\ Cardinality(Tokens(Credit)) \in Nat
        /\ rver \in Nat /\ acts \in Nat /\ faults \in Nat
        /\ rver + Cardinality(Tokens(Credit)) <= 1 + 2 * acts + faults
    BY <1>1, FS_CardinalityType DEF PushInv, Paid, MirrorInv, Numbered
  <2> QED BY <2>1 DEF PushedOnce
<1> QED BY <1>1

\* The mirror does not go on writing (push_pending, record_pushed,
\* apply_remote_locally and pull): however many events there are and whatever is
\* written while a pass runs, the remote has been changed at most twice for every
\* write, its own writers' included, and once more for every pass that broke off.
THEOREM WritesArePaid == Spec => []PushedOnce
<1>1. Init => PushInv /\ DocShape
  BY PushInit
<1>2. PushInv /\ DocShape /\ [Next]_vars => PushInv' /\ DocShape'
  BY PushStep
<1>3. PushInv => PushedOnce
  BY PaidIsEnough
<1> QED BY <1>1, <1>2, <1>3, PTL DEF Spec

----------------------------------------------------------------------------
(* GoogleAuth: why a grant the user gave is not lost.  The token in memory  *)
(* is the newest or no longer honoured, unless the user crossed a refresh;  *)
(* what the holder is about to write is about the newest one, too.          *)

GrantsIssued ==
  /\ valid \subseteq issued /\ newest \in issued
  /\ stored.refresh \in issued /\ holder.refresh \in issued

HolderCurrent ==
  /\ holder.refresh \in valid => holder.refresh = newest
  /\ step \in {"working", "second"} => holder.refresh = newest
  /\ step = "revoked" => holder.refresh \notin valid
  /\ step \in {"flag", "park"} => newest \notin valid
  /\ step = "report" => newest \notin valid \/ refused

AuthInv ==
  /\ GrantsIssued
  /\ stored \in [refresh: Token, flagged: BOOLEAN, parked: BOOLEAN]
  /\ holder \in [refresh: Token, access: BOOLEAN]
  /\ ~crossed => HolderCurrent
  /\ ReauthSurvives

LEMMA AuthInitHolds == AuthInit => AuthInv
BY GoogleAuthAssumption DEF AuthInit, AuthInv, GrantsIssued, HolderCurrent, ReauthSurvives, NeedsReauth

LEMMA AuthStep == ASSUME AuthInv, [AuthNext]_authVars PROVE AuthInv'
<1> USE DEF AuthInv, GrantsIssued, HolderCurrent, ReauthSurvives, NeedsReauth
<1>1. CASE UseToken
      BY <1>1 DEF UseToken
<1>2. CASE RefreshOnce
  <2>1. PICK answer \in Endpoint(holder.refresh) :
          /\ holder' = IF answer = "grant" THEN [holder EXCEPT !.access = TRUE] ELSE holder
          /\ step' = CASE answer = "grant" -> "working"
                       [] answer = "none" -> "ends"
                       [] OTHER -> IF step = "first" THEN "revoked" ELSE "flag"
        BY <1>2 DEF RefreshOnce
  <2>2. /\ UNCHANGED <<valid, issued, stored, retried, newest, crossed, refused>>
        /\ step \in {"first", "second"}
        BY <1>2 DEF RefreshOnce
  <2>3. CASE answer = "grant"
        BY <2>1, <2>2, <2>3 DEF Endpoint
  <2>4. CASE answer = "none"
        BY <2>1, <2>2, <2>4
  <2>5. CASE answer = "invalid_grant"
        BY <2>1, <2>2, <2>5 DEF Endpoint
  <2> QED BY <2>3, <2>4, <2>5 DEF Endpoint
<1>3. CASE PersistWorking
      BY <1>3 DEF PersistWorking
<1>4. CASE LookUpNewer
      BY <1>4 DEF LookUpNewer, NewerStored
<1>5. CASE Flag
      BY <1>5 DEF Flag
<1>6. CASE Park
      BY <1>6 DEF Park
<1>7. CASE AccessExpires \/ Unauthorized
      BY <1>7 DEF AccessExpires, Unauthorized
<1>8. CASE Revoke
      BY <1>8 DEF Revoke
<1>9. CASE AuthInteractive
  <2>1. PICK t \in Token \ issued :
          /\ valid' = valid \cup {t} /\ issued' = issued \cup {t} /\ newest' = t
          /\ stored' = [refresh |-> t, flagged |-> FALSE, parked |-> FALSE]
        BY <1>9 DEF AuthInteractive, Grant
  <2> QED BY <1>9, <2>1 DEF AuthInteractive
<1>10. CASE RestartServe
      BY <1>10 DEF RestartServe
<1>11. CASE UNCHANGED authVars
      BY <1>11 DEF authVars
<1>12. CASE CallAgain \/ DiscoveryFails \/ CycleEnds
      BY <1>12 DEF CallAgain, DiscoveryFails, CycleEnds
<1> QED BY <1>1, <1>2, <1>3, <1>4, <1>5, <1>6, <1>7, <1>8, <1>9, <1>10, <1>11, <1>12 DEF AuthNext

\* For any number of grants, given, withdrawn and refreshed in any order, and
\* through restarts: the grant the user gave last is the one the store keeps, and
\* the remote is taken for unauthorised only if that one is gone, or if Google turned
\* down an access token it had just issued, unless the user crossed a refresh
\* (refresh, persist_working, persist_needs_reauth, call).
THEOREM ReauthIsKept == AuthInit /\ [][AuthNext]_authVars => []ReauthSurvives
<1>1. AuthInv => ReauthSurvives
      BY DEF AuthInv
<1> QED BY <1>1, AuthInitHolds, AuthStep, PTL

----------------------------------------------------------------------------
(* GoogleRemote: why a listing tells what has changed, though it is made of  *)
(* several calls.  Whatever is written while a listing is under way has a    *)
(* version past the token it will return, and need not be told: of the rest, *)
(* what it has told is true, and what has changed since the last token is    *)
(* told, still to be told, or left out as an event that could not be read.   *)

\* Nothing of m has changed since s.
Unwritten(m, s) == google[m].at <= s /\ Occurrence(m).at <= s

Lists == {"page", "missing", "group"}

Stamped ==
  /\ version \in Nat /\ DOMAIN google = Master /\ DOMAIN exception = Series /\ DOMAIN copy = Master
  /\ \A m \in Master : google[m].at \in 0 .. version /\ (google[m].is = "none" => google[m].at = 0)
  /\ \A m \in Series :
       exception[m].at \in 0 .. version /\ (exception[m].is = "plain" => exception[m].at = 0)
  /\ syncToken = NoToken \/ syncToken \in 0 .. version

RequestShape ==
  /\ "does" \in DOMAIN request
  /\ request.does \in Lists =>
       /\ DOMAIN request =
            {"does", "left", "masters", "deleted", "touched", "objects", "skipped", "full", "next"}
       /\ request.next \in 0 .. version /\ request.full = (syncToken = NoToken)
       /\ request.does # "page" => request.left = {}

\* The answer has something to say of m.
Answers(m) ==
  \/ m \in request.deleted
  \/ \E p \in request.masters : p[1] = m
  \/ \E o \in request.objects : o[1] = m
  \/ m \in request.skipped

AnswerTrue(m) ==
  /\ \A p \in request.masters : p[1] = m => Lives(m) /\ p[2] = google[m].at
  /\ m \in request.deleted => ~Lives(m)
  /\ \A o \in request.objects : o[1] = m => o[2] = Told(m)

AnswerWhole(m) ==
  /\ <<"master", m>> \in Changed(syncToken) => <<"master", m>> \in request.left \/ Answers(m)
  /\ <<"exception", m>> \in Changed(syncToken) =>
       <<"exception", m>> \in request.left \/ m \in request.touched
  /\ m \in request.touched => request.does \in {"page", "missing"} \/ Answers(m)

ListingSound ==
  request.does \in Lists =>
    \A m \in Master : Unwritten(m, request.next) => AnswerTrue(m) /\ AnswerWhole(m)

RemoteInv == Stamped /\ RequestShape /\ ListingSound /\ PullTellsChanges

LEMMA RemoteInitHolds == RemoteInit => RemoteInv
BY DEF RemoteInit, RemoteInv, Stamped, RequestShape, Lists, ListingSound, PullTellsChanges, NoRequest

\* A step of the listing: Google is as it was.
LEMMA ListStep ==
  ASSUME RemoteInv, UNCHANGED <<google, exception, version, copy, syncToken, untold>>,
         RequestShape', ListingSound'
  PROVE  RemoteInv'
BY DEF RemoteInv, Stamped, PullTellsChanges, Told, Lives, Occurrence

\* What a write at Google does to the events, and to the copies.
Write ==
  /\ version' = version + 1 /\ DOMAIN google' = Master /\ DOMAIN exception' = Series
  /\ \A m \in Master :
       \/ google'[m] = google[m]
       \/ google'[m].is # "none" /\ google'[m].at = version'
  /\ \A m \in Series :
       \/ exception'[m] = exception[m]
       \/ exception'[m].is # "plain" /\ exception'[m].at = version'
  /\ UNCHANGED syncToken
  /\ \/ copy' = copy
     \/ \E d \in Master : copy' = [copy EXCEPT ![d] = Nothing] /\ google'[d].at = version'
  /\ \A m \in Master : m \in untold => m \in untold' \/ google'[m].at = version'

\* Who is quiet after a write has not been written.
LEMMA QuietStays ==
  ASSUME RemoteInv, Write, NEW m \in Master, NEW s \in 0 .. version, Unwritten(m, s)'
  PROVE  /\ google'[m] = google[m] /\ Occurrence(m)' = Occurrence(m) /\ Unwritten(m, s)
         /\ Told(m)' = Told(m) /\ (Lives(m)' <=> Lives(m)) /\ copy'[m] = copy[m]
         /\ m \in untold => m \in untold'
<1> USE DEF RemoteInv, Stamped
<1>1. s < version'
      BY DEF Write
<1>2. google'[m].at <= s /\ google'[m].at # version'
      BY <1>1 DEF Unwritten, Write
<1>3. google'[m] = google[m]
      BY <1>2 DEF Write
<1>4. Occurrence(m)' = Occurrence(m)
      BY <1>1 DEF Unwritten, Occurrence, Write
<1>5. copy'[m] = copy[m] /\ (m \in untold => m \in untold')
      BY <1>2 DEF Write
<1> QED BY <1>3, <1>4, <1>5 DEF Unwritten, Told, Lives

LEMMA WriteStep ==
  ASSUME RemoteInv, Write,
         request' = request \/ ("does" \in DOMAIN request' /\ request'.does \notin Lists)
  PROVE  RemoteInv'
<1> USE DEF RemoteInv
<1>1. Stamped'
      BY DEF Write, Stamped
<1>2. PullTellsChanges'
  <2>1. ASSUME NEW s \in 0 .. version, s = syncToken, NEW m \in Master \ untold', Unwritten(m, s)'
        PROVE  copy'[m] = Told(m)'
        BY <2>1, QuietStays DEF PullTellsChanges, Unwritten, NoToken
  <2> QED BY <2>1 DEF PullTellsChanges, Unwritten, Write, Stamped
<1>3. CASE request' = request
  <2>1. RequestShape'
        BY <1>3 DEF RequestShape, Write, Stamped
  <2>2. ASSUME request.does \in Lists, NEW s \in 0 .. version, s = request.next,
               NEW m \in Master, Unwritten(m, s)'
        PROVE  AnswerTrue(m)' /\ AnswerWhole(m)'
    <3>1. /\ google'[m] = google[m] /\ Occurrence(m)' = Occurrence(m) /\ Unwritten(m, s)
          /\ Told(m)' = Told(m) /\ (Lives(m)' <=> Lives(m))
          BY <2>2, QuietStays
    <3>2. AnswerTrue(m) /\ AnswerWhole(m)
          BY <2>2, <3>1 DEF ListingSound
    <3>3. AnswerTrue(m)'
          BY <1>3, <3>1, <3>2 DEF AnswerTrue
    <3>4. /\ <<"master", m>> \in Changed(syncToken)' => <<"master", m>> \in Changed(syncToken)
          /\ <<"exception", m>> \in Changed(syncToken)' => <<"exception", m>> \in Changed(syncToken)
          BY <3>1 DEF Changed, Occurrence, Write
    <3>5. AnswerWhole(m)'
          BY <1>3, <3>2, <3>4 DEF AnswerWhole, Answers
    <3> QED BY <3>3, <3>5
  <2>3. ListingSound'
        BY <1>3, <2>2 DEF ListingSound, RequestShape, Unwritten
  <2> QED BY <1>1, <1>2, <2>1, <2>3
<1>4. CASE "does" \in DOMAIN request' /\ request'.does \notin Lists
      BY <1>1, <1>2, <1>4 DEF RequestShape, ListingSound
<1> QED BY <1>3, <1>4

LEMMA BeginListHolds == ASSUME RemoteInv, BeginList PROVE RemoteInv'
<1>1. UNCHANGED <<google, exception, version, copy, syncToken, untold>>
      BY DEF BeginList
<1>2. request' = [does |-> "page", left |-> Changed(syncToken), masters |-> {}, deleted |-> {},
                  touched |-> {}, objects |-> {}, skipped |-> {}, full |-> syncToken = NoToken, next |-> version]
      BY DEF BeginList
<1>3. RequestShape'
      BY <1>1, <1>2 DEF RequestShape, Lists, RemoteInv, Stamped
<1>4. ListingSound'
      BY <1>1, <1>2 DEF ListingSound, AnswerTrue, AnswerWhole, Answers, Changed
<1> QED BY <1>1, <1>3, <1>4, ListStep

LEMMA PageHolds == ASSUME RemoteInv, Page PROVE RemoteInv'
<1>1. UNCHANGED <<google, exception, version, copy, syncToken, untold>> /\ request.does = "page"
      BY DEF Page
<1>2. PICK page \in SUBSET request.left : \E events, left :
        /\ events = {e[2] : e \in {x \in page : x[1] = "master"}} /\ left = request.left \ page
        /\ request' = [request EXCEPT
             !.left = left,
             !.masters = @ \cup {<<m, google[m].at>> : m \in {n \in events : Lives(n)}},
             !.deleted = @ \cup {m \in events : ~Lives(m)},
             !.touched = @ \cup {e[2] : e \in {x \in page : x[1] = "exception"}},
             !.does = IF left = {} THEN "missing" ELSE "page"]
      BY DEF Page
<1>3. PICK events, left :
        /\ events = {e[2] : e \in {x \in page : x[1] = "master"}} /\ left = request.left \ page
        /\ request' = [request EXCEPT
             !.left = left,
             !.masters = @ \cup {<<m, google[m].at>> : m \in {n \in events : Lives(n)}},
             !.deleted = @ \cup {m \in events : ~Lives(m)},
             !.touched = @ \cup {e[2] : e \in {x \in page : x[1] = "exception"}},
             !.does = IF left = {} THEN "missing" ELSE "page"]
      BY <1>2
<1>4. DOMAIN request =
        {"does", "left", "masters", "deleted", "touched", "objects", "skipped", "full", "next"}
      BY <1>1 DEF RemoteInv, RequestShape, Lists
<1>5. /\ DOMAIN request' = DOMAIN request /\ request'.left = left
      /\ request'.masters = request.masters \cup {<<m, google[m].at>> : m \in {n \in events : Lives(n)}}
      /\ request'.deleted = request.deleted \cup {m \in events : ~Lives(m)}
      /\ request'.touched = request.touched \cup {e[2] : e \in {x \in page : x[1] = "exception"}}
      /\ request'.does = (IF left = {} THEN "missing" ELSE "page")
      /\ request'.objects = request.objects /\ request'.skipped = request.skipped
      /\ request'.full = request.full
      /\ request'.next = request.next
      BY <1>3, <1>4
<1>6. RequestShape'
      BY <1>1, <1>4, <1>5 DEF RequestShape, Lists, RemoteInv
<1>7. ASSUME NEW m \in Master, AnswerTrue(m), AnswerWhole(m)
      PROVE  AnswerTrue(m)' /\ AnswerWhole(m)'
  <2>1. AnswerTrue(m)'
        BY <1>1, <1>5, <1>7 DEF AnswerTrue, Lives, Told, Occurrence
  <2>2. m \in events => Answers(m)'
    <3>1. CASE m \in events /\ Lives(m)
      <4>1. <<m, google[m].at>> \in request'.masters
            BY <1>5, <3>1
      <4> QED BY <4>1 DEF Answers
    <3>2. CASE m \in events /\ ~Lives(m)
          BY <1>5, <3>2 DEF Answers
    <3> QED BY <3>1, <3>2
  <2>3. Answers(m) => Answers(m)'
        BY <1>5 DEF Answers
  <2>4. <<"master", m>> \in page => m \in events
        BY <1>3
  <2>5. <<"exception", m>> \in page => m \in request'.touched
        BY <1>5
  <2>6. Changed(syncToken)' = Changed(syncToken)
        BY <1>1 DEF Changed
  <2>7. AnswerWhole(m)'
        BY <1>1, <1>3, <1>5, <1>7, <2>2, <2>3, <2>4, <2>5, <2>6 DEF AnswerWhole
  <2> QED BY <2>1, <2>7
<1>8. ListingSound'
      BY <1>1, <1>5, <1>7 DEF ListingSound, Lists, RemoteInv, Unwritten, Occurrence
<1> QED BY <1>1, <1>6, <1>8, ListStep

LEMMA FetchMissingHolds == ASSUME RemoteInv, FetchMissing PROVE RemoteInv'
<1>1. UNCHANGED <<google, exception, version, copy, syncToken, untold>> /\ request.does = "missing"
      BY DEF FetchMissing
<1>2. /\ DOMAIN request =
           {"does", "left", "masters", "deleted", "touched", "objects", "skipped", "full", "next"}
      /\ request.left = {}
      BY <1>1 DEF RemoteInv, RequestShape, Lists
<1>3. Changed(syncToken)' = Changed(syncToken)
      BY <1>1 DEF Changed
<1>4. CASE Missing = {} /\ request' = [request EXCEPT !.does = "group"]
  <2>1. /\ DOMAIN request' = DOMAIN request /\ request'.left = request.left
        /\ request'.masters = request.masters /\ request'.deleted = request.deleted
        /\ request'.touched = request.touched /\ request'.objects = request.objects
        /\ request'.skipped = request.skipped
        /\ request'.full = request.full /\ request'.next = request.next /\ request'.does = "group"
        BY <1>2, <1>4
  <2>2. RequestShape'
        BY <1>1, <1>2, <2>1 DEF RequestShape, Lists, RemoteInv
  <2>3. ASSUME NEW m \in Master, AnswerTrue(m), AnswerWhole(m)
        PROVE  AnswerTrue(m)' /\ AnswerWhole(m)'
    <3>1. AnswerTrue(m)'
          BY <1>1, <2>1, <2>3 DEF AnswerTrue, Lives, Told, Occurrence
    <3>2. Answers(m)' <=> Answers(m)
          BY <2>1 DEF Answers
    <3>3. m \in request.touched => Answers(m)
          BY <1>4 DEF Missing, Answers
    <3> QED BY <1>3, <2>1, <2>3, <3>1, <3>2, <3>3 DEF AnswerWhole
  <2>4. ListingSound'
        BY <1>1, <2>1, <2>3 DEF ListingSound, Lists, RemoteInv, Unwritten, Occurrence
  <2> QED BY <1>1, <2>2, <2>4, ListStep
<1>5. ASSUME NEW k \in Missing,
             request' = [request EXCEPT
               !.masters = IF Lives(k) THEN @ \cup {<<k, google[k].at>>} ELSE @,
               !.deleted = IF Lives(k) THEN @ ELSE @ \cup {k}]
      PROVE  RemoteInv'
  <2>1. /\ DOMAIN request' = DOMAIN request /\ request'.left = request.left
        /\ request'.masters =
             (IF Lives(k) THEN request.masters \cup {<<k, google[k].at>>} ELSE request.masters)
        /\ request'.deleted = (IF Lives(k) THEN request.deleted ELSE request.deleted \cup {k})
        /\ request'.touched = request.touched /\ request'.objects = request.objects
        /\ request'.skipped = request.skipped
        /\ request'.full = request.full /\ request'.next = request.next
        /\ request'.does = request.does
        BY <1>2, <1>5
  <2>2. RequestShape'
        BY <1>1, <1>2, <2>1 DEF RequestShape, Lists, RemoteInv
  <2>3. ASSUME NEW m \in Master, AnswerTrue(m), AnswerWhole(m)
        PROVE  AnswerTrue(m)' /\ AnswerWhole(m)'
    <3>1. AnswerTrue(m)'
          BY <1>1, <2>1, <2>3 DEF AnswerTrue, Lives, Told, Occurrence
    <3>2. Answers(m) => Answers(m)'
          BY <2>1 DEF Answers
    <3> QED BY <1>3, <2>1, <2>3, <3>1, <3>2 DEF AnswerWhole
  <2>4. ListingSound'
        BY <1>1, <2>1, <2>3 DEF ListingSound, Lists, RemoteInv, Unwritten, Occurrence
  <2> QED BY <1>1, <2>2, <2>4, ListStep
<1> QED BY <1>4, <1>5 DEF FetchMissing

LEMMA BuildHolds == ASSUME RemoteInv, BuildFromGroup PROVE RemoteInv'
<1>1. UNCHANGED <<google, exception, version, copy, syncToken, untold>> /\ request.does = "group"
      BY DEF BuildFromGroup
<1>2. DOMAIN request =
        {"does", "left", "masters", "deleted", "touched", "objects", "skipped", "full", "next"}
      BY <1>1 DEF RemoteInv, RequestShape, Lists
<1>3. PICK p \in request.masters :
        \/ request' = [request EXCEPT !.masters = @ \ {p},
             !.objects = @ \cup {<<p[1], CompositeVersion(p[2], Occurrence(p[1]))>>}]
        \/ request' = [request EXCEPT !.masters = @ \ {p}, !.skipped = @ \cup {p[1]}]
      BY DEF BuildFromGroup
<1> DEFINE built == <<p[1], CompositeVersion(p[2], Occurrence(p[1]))>>
<1>4. /\ DOMAIN request' = DOMAIN request /\ request'.left = request.left
      /\ request'.masters = request.masters \ {p} /\ request'.deleted = request.deleted
      /\ request.objects \subseteq request'.objects /\ request'.objects \subseteq request.objects \cup {built}
      /\ request.skipped \subseteq request'.skipped
      /\ built \in request'.objects \/ p[1] \in request'.skipped
      /\ request'.touched = request.touched /\ request'.does = request.does
      /\ request'.full = request.full /\ request'.next = request.next
      BY <1>2, <1>3
<1>5. RequestShape'
      BY <1>1, <1>2, <1>4 DEF RequestShape, Lists, RemoteInv
<1>6. Changed(syncToken)' = Changed(syncToken)
      BY <1>1 DEF Changed
<1>7. ASSUME NEW m \in Master, AnswerTrue(m), AnswerWhole(m)
      PROVE  AnswerTrue(m)' /\ AnswerWhole(m)'
  <2>1. p[1] = m => CompositeVersion(p[2], Occurrence(p[1])) = Told(m)
        BY <1>7 DEF AnswerTrue, Told
  <2>2. AnswerTrue(m)'
        BY <1>1, <1>4, <1>7, <2>1 DEF AnswerTrue, Lives, Told, Occurrence
  <2>3. Answers(m) => Answers(m)'
    <3>1. built[1] = p[1]
          OBVIOUS
    <3> HIDE DEF built
    <3>2. \A q \in request.masters : q = p \/ q \in request'.masters
          BY <1>4
    <3> QED BY <1>4, <3>1, <3>2 DEF Answers
  <2> QED BY <1>4, <1>6, <1>7, <2>2, <2>3 DEF AnswerWhole
<1>8. ListingSound'
      BY <1>1, <1>4, <1>7 DEF ListingSound, Lists, RemoteInv, Unwritten, Occurrence
<1> QED BY <1>1, <1>5, <1>8, ListStep

\* The mirror takes the answer over, and its token.
LEMMA EndListHolds == ASSUME RemoteInv, EndList PROVE RemoteInv'
<1> USE DEF RemoteInv
<1>1. UNCHANGED <<google, exception, version>> /\ request.does = "group" /\ request.masters = {}
      BY DEF EndList
<1>2. /\ syncToken' = request.next /\ request' = NoRequest
      /\ untold' = {m \in untold : m \notin request.deleted /\ \A o \in request.objects : o[1] # m}
                    \cup request.skipped
      /\ copy' = [m \in Master |->
           LET of == {o \in request.objects : o[1] = m}
           IN IF m \in request.deleted THEN Nothing
              ELSE IF of # {} THEN (CHOOSE o \in of : TRUE)[2]
              ELSE IF request.full THEN Nothing ELSE copy[m]]
      BY DEF EndList
<1>3. request.next \in 0 .. version /\ request.full = (syncToken = NoToken) /\ request.left = {}
      BY <1>1 DEF RequestShape, Lists
<1>4. Stamped'
      BY <1>1, <1>2, <1>3 DEF Stamped
<1>5. RequestShape' /\ ListingSound'
      BY <1>2 DEF RequestShape, ListingSound, Lists, NoRequest
<1>6. ASSUME NEW m \in Master \ untold', Unwritten(m, request.next)
      PROVE  copy'[m] = Told(m)
  <2>1. AnswerTrue(m) /\ AnswerWhole(m)
        BY <1>1, <1>6 DEF ListingSound, Lists
  <2>2. CASE m \in request.deleted
        BY <1>2, <2>1, <2>2 DEF AnswerTrue, Told
  <2>3. CASE m \notin request.deleted /\ {o \in request.objects : o[1] = m} # {}
    <3>1. copy'[m] = (CHOOSE o \in {x \in request.objects : x[1] = m} : TRUE)[2]
          BY <1>2, <2>3
    <3>2. \A o \in {x \in request.objects : x[1] = m} : o[2] = Told(m)
          BY <2>1 DEF AnswerTrue
    <3> QED BY <2>3, <3>1, <3>2
  <2>4. CASE m \notin request.deleted /\ {o \in request.objects : o[1] = m} = {}
    <3>1. copy'[m] = IF request.full THEN Nothing ELSE copy[m]
          BY <1>2, <2>4
    <3>2. ~Answers(m) /\ m \notin untold
          BY <1>1, <1>2, <1>6, <2>4 DEF Answers
    <3>3. <<"master", m>> \notin Changed(syncToken) /\ <<"exception", m>> \notin Changed(syncToken)
          BY <1>1, <1>3, <2>1, <3>2 DEF AnswerWhole
    <3>4. google[m].is = "none" \/ ~(google[m].at > syncToken)
          BY <3>3 DEF Changed
    <3>5. m \in Series => exception[m].is = "plain" \/ ~(exception[m].at > syncToken)
          BY <3>3 DEF Changed
    <3>6. CASE syncToken = NoToken
      <4>1. google[m].at > syncToken
            BY <3>6 DEF Stamped, NoToken
      <4> QED BY <1>3, <3>1, <3>4, <3>6, <4>1 DEF Told, Lives
    <3>7. CASE syncToken # NoToken
      <4>1. syncToken \in Nat
            BY <3>7 DEF Stamped
      <4>2. Unwritten(m, syncToken)
            BY <3>4, <3>5, <4>1 DEF Unwritten, Occurrence, Stamped
      <4>3. copy[m] = Told(m)
            BY <3>2, <3>7, <4>2 DEF PullTellsChanges, Unwritten
      <4> QED BY <1>3, <3>1, <3>7, <4>3
    <3> QED BY <3>6, <3>7
  <2> QED BY <2>2, <2>3, <2>4
<1>7. PullTellsChanges'
      BY <1>1, <1>2, <1>6 DEF PullTellsChanges, Unwritten, Occurrence, Told, Lives
<1> QED BY <1>4, <1>5, <1>7

\* A request other than a listing begins, goes on or ends, and what is changed of the
\* copies is changed to what the event is.
LEMMA QuietStep ==
  ASSUME RemoteInv, UNCHANGED <<google, exception, version>>, syncToken' \in {syncToken, NoToken},
         "does" \in DOMAIN request' /\ request'.does \notin Lists, DOMAIN copy' = Master,
         \A m \in Master : (copy'[m] = copy[m] /\ (m \in untold => m \in untold')) \/ copy'[m] = Told(m)
  PROVE  RemoteInv'
<1> USE DEF RemoteInv
<1>1. Stamped'
      BY DEF Stamped
<1>2. RequestShape' /\ ListingSound'
      BY DEF RequestShape, ListingSound
<1>3. PullTellsChanges'
      BY DEF PullTellsChanges, Told, Lives, Occurrence
<1> QED BY <1>1, <1>2, <1>3

LEMMA WritingIsNoList ==
  ASSUME RemoteInv, NEW m \in Master, NEW at, Writing(m, at)
  PROVE  /\ request.does \notin Lists
         /\ \A x : LET r == [request EXCEPT !.at = x] IN "does" \in DOMAIN r /\ r.does \notin Lists
BY DEF RemoteInv, RequestShape, Writing

LEMMA OursHolds ==
  ASSUME RemoteInv, NEW m \in Master,
         \/ Check(m) \/ NotFound(m) \/ PatchMaster(m) \/ PatchGuests(m) \/ DeleteMaster(m)
         \/ PatchOverrides(m) \/ FindByUid(m) \/ Fetch(m)
  PROVE  RemoteInv'
<1>0. "does" \in DOMAIN NoRequest /\ NoRequest.does \notin Lists
      BY DEF NoRequest, Lists
<1>1. CASE Check(m)
      BY <1>0, <1>1, QuietStep, WritingIsNoList DEF Check, RemoteInv, Stamped
<1>2. CASE NotFound(m)
      BY <1>0, <1>2, QuietStep DEF NotFound, RemoteInv, Stamped
<1>3. CASE PatchMaster(m) \/ PatchGuests(m)
  <2>1. Write
        BY <1>3 DEF PatchMaster, PatchGuests, Written, Stamps, Write, RemoteInv, Stamped
  <2>2. "does" \in DOMAIN request' /\ request'.does \notin Lists
        BY <1>3, WritingIsNoList DEF PatchMaster, PatchGuests
  <2> QED BY <2>1, <2>2, WriteStep
<1>4. CASE DeleteMaster(m)
  <2>1. CASE Lives(m)
    <3>1. /\ version' = version + 1
          /\ google' = [google EXCEPT ![m] = [is |-> "cancelled", at |-> version']]
          /\ copy' = [copy EXCEPT ![m] = Nothing]
          /\ UNCHANGED <<exception, syncToken>> /\ untold' = untold \ {m}
          BY <1>4, <2>1 DEF DeleteMaster, Stamps
    <3>6. UNCHANGED exception /\ UNCHANGED syncToken
          BY <3>1
    <3>2. DOMAIN google = Master /\ DOMAIN exception = Series
          BY DEF RemoteInv, Stamped
    <3>3. google'[m].at = version' /\ google'[m].is # "none"
          BY <3>1, <3>2
    <3>4. \A d \in Master :
            \/ google'[d] = google[d]
            \/ google'[d].is # "none" /\ google'[d].at = version'
          BY <3>1, <3>2, <3>3
    <3>5. Write
      <4>1. DOMAIN google' = Master /\ DOMAIN exception' = Series
            BY <3>1, <3>2, <3>6
      <4>2. \A d \in Series : exception'[d] = exception[d]
            BY <3>6
      <4>3. \E d \in Master : copy' = [copy EXCEPT ![d] = Nothing] /\ google'[d].at = version'
            BY <3>1, <3>3
      <4>4. \A d \in Master : d \in untold => d \in untold' \/ google'[d].at = version'
            BY <3>1, <3>3
      <4> QED BY <3>1, <3>4, <3>6, <4>1, <4>2, <4>3, <4>4 DEF Write
    <3> QED BY <1>0, <1>4, <3>5, WriteStep DEF DeleteMaster
  <2>2. CASE ~Lives(m)
        BY <1>0, <1>4, <2>2, QuietStep DEF DeleteMaster, Told, RemoteInv, Stamped
  <2> QED BY <2>1, <2>2
<1>5. CASE PatchOverrides(m)
  <2>1. "does" \in DOMAIN request' /\ request'.does \notin Lists
        BY <1>5, WritingIsNoList DEF PatchOverrides
  <2>2. CASE UNCHANGED <<exception, version>>
        BY <1>5, <2>1, <2>2, QuietStep DEF PatchOverrides, RemoteInv, Stamped
  <2>3. CASE Stamps /\ exception' = [exception EXCEPT ![m] = [is |-> "moved", at |-> version']]
    <3>1. Write
          BY <1>5, <2>3 DEF PatchOverrides, Stamps, Write, RemoteInv, Stamped
    <3> QED BY <2>1, <3>1, WriteStep
  <2> QED BY <1>5, <2>2, <2>3 DEF PatchOverrides
<1>6. CASE FindByUid(m)
      BY <1>0, <1>6, QuietStep DEF FindByUid, RemoteInv, Stamped
<1>7. CASE Fetch(m)
      BY <1>0, <1>7, QuietStep DEF Fetch, RemoteInv, Stamped
<1> QED BY <1>1, <1>2, <1>3, <1>4, <1>5, <1>6, <1>7

LEMMA RemoteStep == ASSUME RemoteInv, [RemoteNext]_googleVars PROVE RemoteInv'
<1>0. "does" \in DOMAIN NoRequest /\ NoRequest.does \notin Lists
      BY DEF NoRequest, Lists
<1>1. CASE OthersWrite
  <2>1. Write
        BY <1>1 DEF OthersWrite, Stamps, Write, RemoteInv, Stamped
  <2> QED BY <1>1, <2>1, WriteStep DEF OthersWrite
<1>2. CASE TokenExpires
      BY <1>0, <1>2, QuietStep DEF TokenExpires, RemoteInv, Stamped
<1>3. CASE Fail
      BY <1>0, <1>3, QuietStep DEF Fail, RemoteInv, Stamped
<1>4. CASE BeginWrite
  <2>1. "does" \in DOMAIN request' /\ request'.does \notin Lists
        BY <1>4 DEF BeginWrite, Lists
  <2> QED BY <1>4, <2>1, QuietStep DEF BeginWrite, RemoteInv, Stamped
<1>5. CASE UNCHANGED googleVars
  <2>1. RequestShape' /\ ListingSound'
        BY <1>5 DEF googleVars, RemoteInv, RequestShape, ListingSound, AnswerTrue, AnswerWhole, Answers,
           Changed, Unwritten, Occurrence, Told, Lives
  <2> QED BY <1>5, <2>1, ListStep DEF googleVars
<1> QED BY <1>1, <1>2, <1>3, <1>4, <1>5, BeginListHolds, PageHolds, FetchMissingHolds, BuildHolds,
           EndListHolds, OursHolds DEF RemoteNext

\* For any masters, series and writes of others between the calls of a listing, and
\* through failed calls, expired tokens and writes of our own that fail half done:
\* what has not changed since the token of the last listing is here as it is at
\* Google, unless a listing left it out and nothing told of it since (list_changes, build_from_group, patch_overrides).
THEOREM PullTells == RemoteInit /\ [][RemoteNext]_googleVars => []PullTellsChanges
<1>1. RemoteInv => PullTellsChanges
      BY DEF RemoteInv
<1> QED BY <1>1, RemoteInitHolds, RemoteStep, PTL
=============================================================================
