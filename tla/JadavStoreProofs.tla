-------------------------- MODULE JadavStoreProofs --------------------------
(***************************************************************************)
(* Proofs about JadavStore: the types of its state, that the change log    *)
(* tells the state of the collection, that UIDs are unique, that no token  *)
(* is ahead of the head, that a client that trusts its token holds what    *)
(* the store holds, and that the store does what SyncContract allows.      *)
(***************************************************************************)
EXTENDS JadavStoreProps, TLAPS

----------------------------------------------------------------------------
(* Type correctness.                                                       *)

\* The fields of a calendar and of a row that are assigned keep their types.
LEMMA CalendarCursor ==
  ASSUME NEW r \in Calendar, NEW n \in Nat
  PROVE  /\ [r EXCEPT !.base = n] \in Calendar
         /\ [r EXCEPT !.pushed = n] \in Calendar
  BY DEF Calendar

LEMMA CalendarGone ==
  ASSUME NEW r \in Calendar, NEW b \in BOOLEAN, NEW n \in Nat
  PROVE  [r EXCEPT !.live = b, !.base = n, !.pushed = n] \in Calendar
  BY DEF Calendar

LEMMA ObjectFields ==
  ASSUME NEW r \in Object, NEW b \in BOOLEAN
  PROVE  [r EXCEPT !.soft = b] \in Object
  BY DEF Object

LEMMA NoObjectType == NoObject \in Object
  BY DEF NoObject, Object

LEMMA TypeInit == Init => TypeOK
  <1> SUFFICES ASSUME Init PROVE TypeOK OBVIOUS
  <1>1. cal \in [Slug -> Calendar]
    <2>1. 0 \in Nat
      OBVIOUS
    <2>2. {TRUE} \subseteq BOOLEAN /\ {0} \subseteq Nat
      BY <2>1
    <2>3. [live: {TRUE}, mirrored: BOOLEAN, base: {0}, pushed: {0}] \subseteq Calendar
      BY <2>2, Zenon DEF Calendar
    <2>4. QED
      BY <2>3 DEF Init
  <1>2. obj \in [Slug -> [Href -> Object]]
    BY DEF Init, Object, NoObject
  <1>3. view \in [Client -> [Slug -> [Href -> Seen]]]
    BY DEF Init, Seen, NotSeen
  <1>4. QED
    BY <1>1, <1>2, <1>3 DEF Init, TypeOK

\* What one client holds of one member, and its token for one calendar.
LEMMA SeenAt ==
  ASSUME view \in [Client -> [Slug -> [Href -> Seen]]],
         NEW c \in Client, NEW s \in Slug, NEW h \in Href, NEW v \in Seen
  PROVE  [view EXCEPT ![c][s][h] = v] \in [Client -> [Slug -> [Href -> Seen]]]
  OBVIOUS

LEMMA TokenAt ==
  ASSUME tok \in [Client -> [Slug -> Nat]], NEW c \in Client, NEW s \in Slug, NEW n \in Nat
  PROVE  [tok EXCEPT ![c][s] = n] \in [Client -> [Slug -> Nat]]
  OBVIOUS

LEMMA MisledGrows ==
  ASSUME NEW m \in [Client -> SUBSET ({"predecessor", "compaction"} \X Slug)],
         NEW c \in Client, NEW s \in Slug, NEW why \in {"predecessor", "compaction"}, NEW P
  PROVE  [m EXCEPT ![c] = @ \cup {w \in {<<why, s>>} : P}]
            \in [Client -> SUBSET ({"predecessor", "compaction"} \X Slug)]
  <1>1. <<why, s>> \in {"predecessor", "compaction"} \X Slug
    OBVIOUS
  <1>2. {w \in {<<why, s>>} : P} \subseteq {"predecessor", "compaction"} \X Slug
    BY <1>1
  <1>3. QED
    BY <1>2

\* Every kind of request in flight is told by its place.
LEMMA ReqAt ==
  ASSUME TypeOK, NEW c \in Client
  PROVE  /\ req[c] \in PutReq \cup Report \cup {NoReq}
         /\ req[c].at = "put" => req[c] \in PutReq
         /\ req[c].at \in {"head", "rows", "load"} => req[c] \in Report
         /\ req[c] = NoReq <=> req[c].at = "idle"
  BY DEF TypeOK, PutReq, Report, NoReq

\* A soft-deleted row is no member, whatever document it still has.
LEMMA ContentType ==
  ASSUME TypeOK, NEW s \in Slug, NEW h \in Href
  PROVE  Content(s, h) \in Doc \cup {NoDoc}
  BY DEF TypeOK, Content, Object

LEMMA AppendType ==
  ASSUME TypeOK, NEW s \in Slug, NEW h \in Href, NEW deleted \in BOOLEAN,
         Append(s, h, deleted)
  PROVE  /\ seq' \in Nat
         /\ log' \in [Slug -> SUBSET LogRow]
         /\ lastId' \in [Slug -> [Href -> Nat]]
  <1>1. [id |-> seq + 1, href |-> h, deleted |-> deleted] \in LogRow
    BY DEF TypeOK, LogRow
  <1>2. QED
    BY <1>1 DEF TypeOK, Append, HighWater

LEMMA StoreType ==
  ASSUME TypeOK, NEW s \in Slug, NEW h \in Href, NEW d \in Doc, StoreDoc(s, h, d)
  PROVE  /\ obj' \in [Slug -> [Href -> Object]]
         /\ seq' \in Nat
         /\ log' \in [Slug -> SUBSET LogRow]
         /\ lastId' \in [Slug -> [Href -> Nat]]
  <1>1. obj' \in [Slug -> [Href -> Object]]
    BY DEF TypeOK, StoreDoc, Object, NoObject
  <1>2. QED
    BY <1>1, AppendType DEF StoreDoc

LEMMA RemoveType ==
  ASSUME TypeOK, NEW s \in Slug, NEW h \in Href, NEW soft \in BOOLEAN,
         RemoveDoc(s, h, soft)
  PROVE  /\ obj' \in [Slug -> [Href -> Object]]
         /\ seq' \in Nat
         /\ log' \in [Slug -> SUBSET LogRow]
         /\ lastId' \in [Slug -> [Href -> Nat]]
  <1>1. [obj[s][h] EXCEPT !.soft = TRUE] \in Object /\ NoObject \in Object
    <2>1. obj[s][h] \in Object /\ TRUE \in BOOLEAN
      BY DEF TypeOK
    <2>2. QED
      BY <2>1, ObjectFields, NoObjectType
  <1>2. obj' \in [Slug -> [Href -> Object]]
    BY <1>1 DEF TypeOK, RemoveDoc
  <1>3. QED
    BY <1>2, AppendType DEF RemoveDoc

LEMMA TypePut ==
  ASSUME TypeOK, NEW c \in Client, NEW s \in Slug, NEW h \in Href, NEW d \in Doc,
         NEW pre \in {"none", "match", "absent"}, Put(c, s, h, d, pre)
  PROVE  TypeOK'
  <1>1. [at |-> "put", slug |-> s, href |-> h, doc |-> d, pre |-> pre] \in PutReq
    BY DEF PutReq
  <1>2. req' \in [Client -> PutReq \cup Report \cup {NoReq}]
    BY <1>1 DEF TypeOK, Put
  <1>3. QED
    BY <1>2, StoreType DEF TypeOK, Put, clientVars

LEMMA TypeDelete ==
  ASSUME TypeOK, NEW c \in Client, NEW s \in Slug, NEW h \in Href,
         NEW pre \in {"none", "match", "absent"}, Delete(c, s, h, pre)
  PROVE  TypeOK'
  <1>1. Mirrored(s) \in BOOLEAN
    BY DEF TypeOK, Calendar, Mirrored
  <1>2. view' \in [Client -> [Slug -> [Href -> Seen]]]
    <2>1. NotSeen \in Seen
      BY DEF Seen, NotSeen
    <2>2. view \in [Client -> [Slug -> [Href -> Seen]]]
      BY DEF TypeOK
    <2>3. view' = [view EXCEPT ![c][s][h] = NotSeen] \/ view' = view
      BY DEF Delete
    <2>4. [view EXCEPT ![c][s][h] = NotSeen] \in [Client -> [Slug -> [Href -> Seen]]]
      BY <2>1, <2>2, SeenAt
    <2>5. QED
      BY <2>2, <2>3, <2>4
  <1>3. QED
    BY <1>1, <1>2, RemoveType DEF TypeOK, Delete

LEMMA TypeStore ==
  ASSUME TypeOK, NEW s \in Slug, NEW h \in Href,
         \/ \E d \in Doc : OtherPut(s, h, d)
         \/ MirrorDelete(s, h)
         \/ FinalizeDelete(s, h)
  PROVE  TypeOK'
  <1>1. ASSUME NEW d \in Doc, OtherPut(s, h, d) PROVE TypeOK'
    BY <1>1, StoreType DEF TypeOK, OtherPut, clientVars
  <1>2. CASE MirrorDelete(s, h)
    BY <1>2, RemoveType DEF TypeOK, MirrorDelete, clientVars
  <1>3. CASE FinalizeDelete(s, h)
    BY <1>3 DEF TypeOK, FinalizeDelete, Object, NoObject, clientVars, ghostVars
  <1>4. QED
    BY <1>1, <1>2, <1>3

LEMMA TypeCalendars ==
  ASSUME TypeOK, NEW s \in Slug,
         MirrorPassEnd(s) \/ CreateCalendar(s) \/ DeleteCalendar(s)
  PROVE  TypeOK'
  <1>1. cal[s] \in Calendar
    BY DEF TypeOK
  <1>2. CASE MirrorPassEnd(s)
    <2>1. PICK n \in 0 .. seq : cal' = [cal EXCEPT ![s].pushed = IF @ < n THEN n ELSE @]
      BY <1>2 DEF MirrorPassEnd
    <2>2. (IF cal[s].pushed < n THEN n ELSE cal[s].pushed) \in Nat
      BY <1>1 DEF TypeOK, Calendar
    <2>3. [cal[s] EXCEPT !.pushed = IF cal[s].pushed < n THEN n ELSE cal[s].pushed] \in Calendar
      BY <1>1, <2>2, CalendarCursor
    <2>4. cal' \in [Slug -> Calendar]
      BY <2>1, <2>3 DEF TypeOK
    <2>5. QED
      BY <1>2, <2>4 DEF TypeOK, MirrorPassEnd, clientVars, ghostVars
  <1>3. CASE CreateCalendar(s)
    <2>1. cal' \in [Slug -> Calendar]
      <3> DEFINE new == [live |-> TRUE, mirrored |-> FALSE, base |-> seq, pushed |-> 0]
      <3>1. new \in Calendar
        BY DEF TypeOK, Calendar
      <3>2. cal' = [cal EXCEPT ![s] = new]
        BY <1>3 DEF CreateCalendar, HighWater
      <3> HIDE DEF new
      <3>3. QED
        BY <3>1, <3>2 DEF TypeOK
    <2>2. QED
      BY <1>3, <2>1 DEF TypeOK, CreateCalendar, HighWater, clientVars
  <1>4. CASE DeleteCalendar(s)
    <2>1. cal' \in [Slug -> Calendar]
      <3>1. 0 \in Nat /\ FALSE \in BOOLEAN
        OBVIOUS
      <3>2. [cal[s] EXCEPT !.live = FALSE, !.base = 0, !.pushed = 0] \in Calendar
        BY <1>1, <3>1, CalendarGone
      <3>3. QED
        BY <1>4, <3>2 DEF TypeOK, DeleteCalendar
    <2>2. obj' \in [Slug -> [Href -> Object]]
      BY <1>4, NoObjectType DEF TypeOK, DeleteCalendar
    <2>3. QED
      BY <1>4, <2>1, <2>2 DEF TypeOK, DeleteCalendar, clientVars, ghostVars
  <1>5. QED
    BY <1>2, <1>3, <1>4

\* What a compaction removes is numbered.
LEMMA CutoffType ==
  ASSUME TypeOK, NEW old \in [Slug -> Nat], NEW s \in Slug
  PROVE  Cutoff(s, old[s]) \in Nat
  BY DEF TypeOK, Calendar, Cutoff

LEMMA TypeCompact ==
  ASSUME TypeOK, NEW old \in [Slug -> 0 .. seq], Compact(old)
  PROVE  TypeOK'
  <1>1. old \in [Slug -> Nat]
    BY DEF TypeOK
  <1>2. cal' \in [Slug -> Calendar]
    <2>1. ASSUME NEW s \in Slug
          PROVE  [cal[s] EXCEPT !.base = Cutoff(s, old[s])] \in Calendar
      <3>1. cal[s] \in Calendar /\ Cutoff(s, old[s]) \in Nat
        BY <1>1, CutoffType DEF TypeOK
      <3>2. QED
        BY <3>1, CalendarCursor
    <2>2. QED
      BY <2>1 DEF TypeOK, Compact
  <1>3. log' \in [Slug -> SUBSET LogRow]
    BY DEF TypeOK, Compact
  <1>4. QED
    BY <1>2, <1>3 DEF TypeOK, Compact, clientVars, ghostVars

\* What a REPORT has read so far stays well formed as it is filled in.
LEMMA ReportHead ==
  ASSUME NEW r \in Report, NEW n \in Nat, NEW i \in Nat
  PROVE  [r EXCEPT !.at = "rows", !.head = n, !.inc = i] \in Report
  BY DEF Report

LEMMA ReportFilled ==
  ASSUME NEW r \in Report,
         NEW left \in SUBSET Href, NEW said \in [Href -> Doc \cup {NoDoc, Unsaid}]
  PROVE  /\ [r EXCEPT !.at = "load", !.left = left, !.said = said] \in Report
         /\ [r EXCEPT !.left = left, !.said = said] \in Report
  BY DEF Report

LEMMA TypeBegin ==
  ASSUME TypeOK, NEW c \in Client, NEW s \in Slug, BeginReport(c, s)
  PROVE  TypeOK'
  <1>1. [h \in Href |-> Unsaid] \in [Href -> Doc \cup {NoDoc, Unsaid}]
    OBVIOUS
  <1>2. tok[c][s] \in Nat /\ inc[s] \in Nat /\ cal[s].base \in Nat
    BY DEF TypeOK, Calendar
  <1>3. [at |-> "head", slug |-> s, since |-> tok[c][s], base |-> cal[s].base,
         head |-> 0, inc |-> inc[s], left |-> {},
         said |-> [h \in Href |-> Unsaid]] \in Report
    BY <1>1, <1>2 DEF Report
  <1>4. QED
    BY <1>3 DEF TypeOK, BeginReport, storeVars, clientVars, ghostVars

LEMMA TypeReadHead ==
  ASSUME TypeOK, NEW c \in Client, ReadHead(c)
  PROVE  TypeOK'
  <1>1. req[c] \in Report
    BY ReqAt DEF ReadHead
  <1>2. req[c].slug \in Slug /\ inc[req[c].slug] \in Nat
    BY <1>1 DEF TypeOK, Report
  <1>3. PICK n \in 0 .. seq :
           IF Refused(req[c], n)
           THEN /\ req' = [req EXCEPT ![c] = NoReq]
                /\ tok' = [tok EXCEPT ![c][req[c].slug] = 0]
                /\ UNCHANGED misled
           ELSE /\ req' = [req EXCEPT ![c].at = "rows", ![c].head = n,
                                      ![c].inc = inc[req[c].slug]]
                /\ misled' = [misled EXCEPT ![c] = @ \cup
                      {w \in {<<"predecessor", req[c].slug>>} : PassesForOwn(c, req[c])}]
                /\ UNCHANGED tok
    BY DEF ReadHead
  <1>4. req' \in [Client -> PutReq \cup Report \cup {NoReq}]
    <2>1. [req[c] EXCEPT !.at = "rows", !.head = n, !.inc = inc[req[c].slug]] \in Report
      <3>1. n \in Nat
        BY DEF TypeOK
      <3>2. QED
        BY <1>1, <1>2, <3>1, ReportHead
    <2>2. QED
      BY <1>3, <2>1 DEF TypeOK
  <1>5. tok' \in [Client -> [Slug -> Nat]]
    <2>1. tok \in [Client -> [Slug -> Nat]] /\ 0 \in Nat
      BY DEF TypeOK
    <2>2. tok' = tok \/ tok' = [tok EXCEPT ![c][req[c].slug] = 0]
      BY <1>3
    <2>3. QED
      BY <1>2, <2>1, <2>2, TokenAt
  <1>6. misled' \in [Client -> SUBSET ({"predecessor", "compaction"} \X Slug)]
    <2>1. misled \in [Client -> SUBSET ({"predecessor", "compaction"} \X Slug)]
      BY DEF TypeOK
    <2>2. CASE UNCHANGED misled
      BY <2>1, <2>2
    <2>3. CASE misled' = [misled EXCEPT ![c] = @ \cup
                 {w \in {<<"predecessor", req[c].slug>>} : PassesForOwn(c, req[c])}]
      BY <1>2, <2>1, <2>3, MisledGrows
    <2>4. QED
      BY <1>3, <2>2, <2>3
  <1>7. QED
    BY <1>4, <1>5, <1>6 DEF TypeOK, ReadHead, storeVars

LEMMA TypeReadRows ==
  ASSUME TypeOK, NEW c \in Client, ReadRows(c)
  PROVE  TypeOK'
  <1> DEFINE rows == Changes(req[c].slug, req[c].since)
             members == {h \in Href : Content(req[c].slug, h) # NoDoc}
             gone == {q.href : q \in {p \in rows : p.deleted}}
             changed == {q.href : q \in {p \in rows : ~p.deleted}}
             left == IF req[c].since = 0 THEN members ELSE changed
             said == IF req[c].since = 0 THEN req[c].said
                     ELSE [h \in Href |-> IF h \in gone THEN NoDoc ELSE Unsaid]
  <1>1. req[c] \in Report
    BY ReqAt DEF ReadRows
  <1>2. req[c].slug \in Slug
    BY <1>1 DEF Report
  <1>3. left \in SUBSET Href
    <2>1. rows \subseteq LogRow
      BY <1>2 DEF TypeOK, Changes, Latest
    <2>2. changed \subseteq Href
      BY <2>1 DEF LogRow
    <2>3. QED
      BY <2>2
  <1>4. said \in [Href -> Doc \cup {NoDoc, Unsaid}]
    BY <1>1 DEF Report
  <1>5. req' = [req EXCEPT ![c] = [req[c] EXCEPT !.at = "load", !.left = left, !.said = said]]
    BY DEF ReadRows, TypeOK
  <1> HIDE DEF left, said
  <1>6. req' \in [Client -> PutReq \cup Report \cup {NoReq}]
    <2>1. [req[c] EXCEPT !.at = "load", !.left = left, !.said = said] \in Report
      BY <1>1, <1>3, <1>4, ReportFilled
    <2>2. QED
      BY <1>5, <2>1 DEF TypeOK
  <1>7. misled' \in [Client -> SUBSET ({"predecessor", "compaction"} \X Slug)]
    <2>1. misled \in [Client -> SUBSET ({"predecessor", "compaction"} \X Slug)]
      BY DEF TypeOK
    <2>2. misled' = [misled EXCEPT ![c] = @ \cup
             {w \in {<<"compaction", req[c].slug>>} :
                 req[c].since # 0 /\ req[c].since < cal[req[c].slug].base}]
      BY DEF ReadRows
    <2>3. QED
      BY <1>2, <2>1, <2>2, MisledGrows
  <1>8. QED
    BY <1>6, <1>7 DEF TypeOK, ReadRows, storeVars, clientVars

LEMMA LoadSays ==
  ASSUME TypeOK, NEW c \in Client, NEW h \in Href, LoadObject(c, h)
  PROVE  req' = [req EXCEPT ![c] =
            [req[c] EXCEPT !.left = req[c].left \ {h},
                           !.said = [req[c].said EXCEPT ![h] = Content(req[c].slug, h)]]]
  BY ZenonT(60) DEF LoadObject, TypeOK

LEMMA TypeLoad ==
  ASSUME TypeOK, NEW c \in Client, NEW h \in Href, LoadObject(c, h)
  PROVE  TypeOK'
  <1> DEFINE left == req[c].left \ {h}
             said == [req[c].said EXCEPT ![h] = Content(req[c].slug, h)]
  <1>1. req[c] \in Report
    BY ReqAt DEF LoadObject
  <1>2. left \in SUBSET Href /\ said \in [Href -> Doc \cup {NoDoc, Unsaid}]
    BY <1>1, ContentType DEF Report
  <1>3. req' = [req EXCEPT ![c] = [req[c] EXCEPT !.left = left, !.said = said]]
    BY LoadSays
  <1> HIDE DEF left, said
  <1>4. [req[c] EXCEPT !.left = left, !.said = said] \in Report
    BY <1>1, <1>2, ReportFilled
  <1>5. QED
    BY <1>3, <1>4, ZenonT(60) DEF TypeOK, LoadObject, storeVars, clientVars, ghostVars

LEMMA TypeAnswers ==
  ASSUME TypeOK, NEW c \in Client, Deliver(c) \/ PutAnswer(c) \/ Drop(c)
  PROVE  TypeOK'
  <1>1. CASE Deliver(c)
    <2>1. req[c] \in Report
      BY <1>1, ReqAt DEF Deliver
    <2>2. req[c].slug \in Slug /\ req[c].head \in Nat /\ req[c].inc \in Nat
      BY <2>1 DEF Report
    <2> DEFINE told(h) == IF req[c].said[h] = Unsaid
                          THEN IF req[c].since = 0 THEN NotSeen ELSE view[c][req[c].slug][h]
                          ELSE [doc |-> req[c].said[h], etag |-> req[c].said[h]]
    <2>3. ASSUME NEW h \in Href PROVE told(h) \in Seen
      BY <2>1, <2>2 DEF TypeOK, Report, Seen, NotSeen
    <2>4. view' = [view EXCEPT ![c][req[c].slug] = [h \in Href |-> told(h)]]
      BY <1>1 DEF Deliver
    <2> HIDE DEF told
    <2>5. view' \in [Client -> [Slug -> [Href -> Seen]]]
      BY <2>2, <2>3, <2>4 DEF TypeOK
    <2>6. misled' \in [Client -> SUBSET ({"predecessor", "compaction"} \X Slug)]
      BY <1>1 DEF TypeOK, Deliver
    <2>7. QED
      BY <1>1, <2>2, <2>5, <2>6 DEF TypeOK, Deliver, storeVars
  <1>2. CASE PutAnswer(c)
    <2>1. req[c] \in PutReq
      BY <1>2, ReqAt DEF PutAnswer
    <2>2. [doc |-> req[c].doc, etag |-> Content(req[c].slug, req[c].href)] \in Seen
      BY <2>1, ContentType DEF PutReq, Seen
    <2>3. view' \in [Client -> [Slug -> [Href -> Seen]]]
      BY <1>2, <2>1, <2>2 DEF TypeOK, PutAnswer, PutReq
    <2>4. QED
      BY <1>2, <2>3 DEF TypeOK, PutAnswer, storeVars, ghostVars
  <1>3. CASE Drop(c)
    BY <1>3 DEF TypeOK, Drop, storeVars, clientVars, ghostVars
  <1>4. QED
    BY <1>1, <1>2, <1>3

\* The state is well typed: what is told of an object, who holds what, and how far
\* each token and each REPORT in flight reaches.
THEOREM TypeCorrect == Spec => []TypeOK
  <1>1. ASSUME TypeOK, [Next]_vars PROVE TypeOK'
    <2>1. CASE UNCHANGED vars
      BY <1>1, <2>1 DEF TypeOK, vars
    <2>2. CASE Next
      BY <1>1, <2>2, TypePut, TypeDelete, TypeStore, TypeCalendars, TypeCompact, TypeBegin,
         TypeReadHead, TypeReadRows, TypeLoad, TypeAnswers DEF Next
    <2>3. QED
      BY <1>1, <2>1, <2>2
  <1>2. QED
    BY <1>1, TypeInit, PTL DEF Spec

----------------------------------------------------------------------------
(* The invariant behind the safety properties.                             *)

\* The log is numbered in the order of the writes: no row is newer than the last
\* change of its href, none is older than the baseline.
LogOrdered ==
    \A s \in Slug :
        /\ cal[s].base <= seq /\ cal[s].pushed <= seq
        /\ \A h \in Href : lastId[s][h] <= seq
        /\ \A r \in log[s] : cal[s].base < r.id /\ r.id <= lastId[s][r.href]

\* A calendar that is not there has no log and no members.
GoneIsEmpty ==
    \A s \in Slug : ~cal[s].live => log[s] = {} /\ \A h \in Href : Content(s, h) = NoDoc

\* The last change of every href is in the log unless the baseline covers it.
LogComplete ==
    \A s \in Slug : cal[s].live =>
        \A h \in Href : cal[s].base < lastId[s][h] =>
            \E r \in log[s] : r.href = h /\ r.id = lastId[s][h]

\* The row of the last change tells whether the member exists.
LastTells ==
    \A s \in Slug : \A r \in log[s] :
        r.id = lastId[s][r.href] => (r.deleted <=> Content(s, r.href) = NoDoc)

StoreInv == LogOrdered /\ GoneIsEmpty /\ LogComplete /\ LastTells

Reporting(c) == req[c].at \in {"head", "rows", "load"}

\* The head of the calendar is at n or past it.
Reaches(s, n) == \E m \in {cal[s].base} \cup Ids(s) : n <= m

\* No token, kept or about to be, is ahead of the head.
TokensReached(c) ==
    /\ \A s \in Slug : tok[c][s] <= seq /\ (cal[s].live => Reaches(s, tok[c][s]))
    /\ Reporting(c) => /\ req[c].head <= seq
                       /\ cal[req[c].slug].live => Reaches(req[c].slug, req[c].head)

\* No incarnation is noted before it exists.
Incarnations(c) ==
    /\ \A s \in Slug : minted[c][s] <= inc[s]
    /\ Reporting(c) => req[c].inc <= inc[req[c].slug]

Honest(c, s) == \A w \in misled[c] : w[2] # s

\* A REPORT is made for the token its client has, and starts with nothing said.
ReportStarts(c) ==
    Reporting(c) =>
        /\ req[c].since = tok[c][req[c].slug]
        /\ req[c].at # "load" => req[c].said = [h \in Href |-> Unsaid]
        /\ req[c].at = "rows" /\ req[c].since # 0 /\ Honest(c, req[c].slug)
              => minted[c][req[c].slug] = req[c].inc

\* A token of an earlier calendar of that name, kept, used or about to be given, is
\* not past the baseline of the one that is there.
PredecessorsBehind(c) ==
    /\ \A s \in Slug : cal[s].live /\ minted[c][s] # inc[s] => tok[c][s] <= cal[s].base
    /\ req[c].at = "head" =>
          LET s == req[c].slug IN
          req[c].inc = inc[s] /\ minted[c][s] # inc[s] => req[c].since <= req[c].base
    /\ Reporting(c) =>
          LET s == req[c].slug IN
          cal[s].live /\ req[c].inc # inc[s] => req[c].head <= cal[s].base

\* What an answer in the making says of h, or leaves for the client to know, is the
\* content of h, unless h has changed since the head was read.
TellsTruth(c, h) ==
    LET r == req[c] IN
    lastId[r.slug][h] <= r.head /\ h \notin r.left =>
        /\ r.said[h] # Unsaid => r.said[h] = Content(r.slug, h)
        /\ r.said[h] = Unsaid /\ r.since = 0 => Content(r.slug, h) = NoDoc
        /\ r.said[h] = Unsaid /\ r.since # 0 => view[c][r.slug][h].doc = Content(r.slug, h)

AnswerTrue(c) ==
    /\ req[c].at = "load"
    /\ cal[req[c].slug].live /\ req[c].inc = inc[req[c].slug]
    /\ req[c].since = 0 \/ Honest(c, req[c].slug)
    => \A h \in Href : TellsTruth(c, h)

\* The answer of a PUT is about a change the client's token does not cover.
PutIsNews(c) ==
    /\ req[c].at = "put"
    /\ cal[req[c].slug].live /\ minted[c][req[c].slug] = inc[req[c].slug]
    => tok[c][req[c].slug] < lastId[req[c].slug][req[c].href]

\* ViewCurrent, of one client.
Current(c) ==
    \A s \in Slug, h \in Href :
        Trusts(c, s) /\ lastId[s][h] <= tok[c][s] => view[c][s][h].doc = Content(s, h)

ClientInv(c) ==
    /\ TokensReached(c) /\ Incarnations(c) /\ ReportStarts(c)
    /\ PredecessorsBehind(c) /\ AnswerTrue(c) /\ PutIsNews(c) /\ Current(c)

IInv == TypeOK /\ StoreInv /\ \A c \in Client : ClientInv(c)

LEMMA IInvInit == Init => IInv
  <1> SUFFICES ASSUME Init PROVE IInv OBVIOUS
  <1>1. TypeOK
    BY TypeInit
  <1>2. \A s \in Slug : cal[s].live /\ cal[s].base = 0 /\ cal[s].pushed = 0 /\ log[s] = {}
    BY DEF Init
  <1>3. StoreInv
    BY <1>1, <1>2 DEF Init, StoreInv, LogOrdered, GoneIsEmpty, LogComplete, LastTells
  <1>4. ASSUME NEW c \in Client PROVE ClientInv(c)
    <2>1. req[c].at = "idle" /\ \A s \in Slug : tok[c][s] = 0 /\ minted[c][s] = 0 /\ inc[s] = 1
      BY DEF Init, NoReq
    <2>2. TokensReached(c)
      <3>1. \A s \in Slug : cal[s].base = 0
        BY <1>2
      <3>2. \A s \in Slug : Reaches(s, 0)
        BY <3>1 DEF Reaches
      <3>3. QED
        BY <2>1, <3>2 DEF Init, TokensReached, Reporting
    <2>3. Current(c)
      BY <2>1 DEF Current, Trusts
    <2>4. PredecessorsBehind(c)
      BY <1>2, <2>1 DEF PredecessorsBehind, Reporting
    <2>5. QED
      BY <2>1, <2>2, <2>3, <2>4 DEF ClientInv, Incarnations, ReportStarts, AnswerTrue, PutIsNews,
         Reporting
  <1>5. QED
    BY <1>1, <1>3, <1>4 DEF IInv

----------------------------------------------------------------------------
(* Steps that change the store.                                            *)

\* A write of one member, logged as it is committed.
Writes(s, h, deleted) ==
    /\ Append(s, h, deleted)
    /\ cal[s].live
    /\ \A t \in Slug, g \in Href : t # s \/ g # h => Content(t, g)' = Content(t, g)
    /\ (Content(s, h)' = NoDoc) <=> deleted

LEMMA StoreWrites ==
  ASSUME TypeOK, NEW s \in Slug, NEW h \in Href, NEW d \in Doc, StoreDoc(s, h, d)
  PROVE  Writes(s, h, FALSE)
  <1>1. d # NoDoc
    BY DEF Doc, NoDoc
  <1>2. \A t \in Slug, g \in Href :
           obj'[t][g] = IF t # s THEN obj[t][g]
                        ELSE IF g = h THEN [doc |-> d, soft |-> FALSE]
                        ELSE IF Holds(s, g, d.uid) THEN NoObject
                        ELSE obj[t][g]
    BY DEF StoreDoc, TypeOK
  <1>3. Content(s, h)' = d
    BY <1>2 DEF Content
  <1>4. ASSUME NEW t \in Slug, NEW g \in Href, t # s \/ g # h
        PROVE  Content(t, g)' = Content(t, g)
    <2>1. CASE obj'[t][g] = obj[t][g]
      BY <2>1 DEF Content
    <2>2. CASE t = s /\ Holds(s, g, d.uid)
      <3>1. obj[t][g].soft /\ obj'[t][g] = NoObject
        BY <1>2, <1>4, <2>2 DEF StoreDoc
      <3>2. QED
        BY <3>1 DEF Content, NoObject
    <2>3. QED
      BY <1>2, <1>4, <2>1, <2>2
  <1>5. QED
    BY <1>1, <1>3, <1>4 DEF Writes, StoreDoc

LEMMA RemoveWrites ==
  ASSUME TypeOK, StoreInv, NEW s \in Slug, NEW h \in Href, NEW soft \in BOOLEAN,
         RemoveDoc(s, h, soft)
  PROVE  Writes(s, h, TRUE)
  <1>1. cal[s].live
    BY DEF RemoveDoc, StoreInv, GoneIsEmpty
  <1>2. \A t \in Slug, g \in Href : t # s \/ g # h => obj'[t][g] = obj[t][g]
    BY DEF RemoveDoc, TypeOK
  <1>3. obj[s][h] \in Object
    BY DEF TypeOK
  <1>4. obj'[s][h] = IF soft THEN [obj[s][h] EXCEPT !.soft = TRUE] ELSE NoObject
    BY DEF RemoveDoc, TypeOK
  <1>5. Content(s, h)' = NoDoc
    BY <1>3, <1>4 DEF Content, NoObject, Object
  <1>6. \A t \in Slug, g \in Href : t # s \/ g # h => Content(t, g)' = Content(t, g)
    BY <1>2 DEF Content
  <1>7. Append(s, h, TRUE)
    BY DEF RemoveDoc
  <1>8. QED
    BY <1>1, <1>5, <1>6, <1>7 DEF Writes

\* The log after a write.
LEMMA WriteLogs ==
  ASSUME TypeOK, NEW s \in Slug, NEW h \in Href, NEW deleted \in BOOLEAN,
         Append(s, h, deleted)
  PROVE  /\ seq' = seq + 1
         /\ log'[s] = log[s] \cup {[id |-> seq + 1, href |-> h, deleted |-> deleted]}
         /\ \A t \in Slug : t # s => log'[t] = log[t]
         /\ \A t \in Slug, g \in Href :
               lastId'[t][g] = IF t = s /\ g = h THEN seq + 1 ELSE lastId[t][g]
  BY DEF TypeOK, Append, HighWater

LEMMA WriteInv ==
  ASSUME TypeOK, StoreInv, NEW s \in Slug, NEW h \in Href, NEW deleted \in BOOLEAN,
         Writes(s, h, deleted), UNCHANGED cal
  PROVE  StoreInv'
  <1> DEFINE row == [id |-> seq + 1, href |-> h, deleted |-> deleted]
  <1>0. /\ seq' = seq + 1
        /\ log'[s] = log[s] \cup {row}
        /\ \A t \in Slug : t # s => log'[t] = log[t]
        /\ \A t \in Slug, g \in Href :
              lastId'[t][g] = IF t = s /\ g = h THEN seq + 1 ELSE lastId[t][g]
    BY WriteLogs DEF Writes
  <1>1. seq \in Nat /\ \A t \in Slug : cal[t].base \in Nat /\ cal[t].pushed \in Nat
    BY DEF TypeOK, Calendar
  <1>2. \A t \in Slug : \A r \in log[t] : r.id \in Nat /\ r.href \in Href
    BY DEF TypeOK, LogRow
  <1>3. \A t \in Slug, g \in Href : lastId[t][g] \in Nat /\ lastId[t][g] <= seq
    BY DEF TypeOK, StoreInv, LogOrdered
  <1>4. row.id = seq + 1 /\ row.href = h /\ row.deleted = deleted
    OBVIOUS
  <1>5. \A t \in Slug : \A r \in log'[t] : r \in log[t] \/ (t = s /\ r = row)
    BY <1>0
  <1> HIDE DEF row
  <1>6. LogOrdered'
    BY <1>0, <1>1, <1>2, <1>3, <1>4, <1>5 DEF StoreInv, LogOrdered
  <1>7. GoneIsEmpty'
    BY <1>0 DEF StoreInv, GoneIsEmpty, Writes
  <1>8. LogComplete'
    <2>1. ASSUME NEW t \in Slug, NEW g \in Href, cal[t].live, cal[t].base < lastId'[t][g]
          PROVE  \E r \in log'[t] : r.href = g /\ r.id = lastId'[t][g]
      <3>1. CASE t = s /\ g = h
        BY <1>0, <1>4, <3>1
      <3>2. CASE ~(t = s /\ g = h)
        <4>1. lastId'[t][g] = lastId[t][g] /\ log[t] \subseteq log'[t]
          BY <1>0, <3>2
        <4>2. QED
          BY <2>1, <4>1 DEF StoreInv, LogComplete
      <3>3. QED
        BY <3>1, <3>2
    <2>2. QED
      BY <2>1 DEF LogComplete
  <1>9. LastTells'
    <2>1. ASSUME NEW t \in Slug, NEW r \in log'[t], r.id = lastId'[t][r.href]
          PROVE  r.deleted <=> Content(t, r.href)' = NoDoc
      <3>1. CASE r \in log[t] /\ ~(t = s /\ r.href = h)
        <4>1. r.href \in Href
          BY <1>2, <3>1
        <4>2. lastId'[t][r.href] = lastId[t][r.href] /\ Content(t, r.href)' = Content(t, r.href)
          BY <1>0, <3>1, <4>1 DEF Writes
        <4>3. QED
          BY <2>1, <3>1, <4>2 DEF StoreInv, LastTells
      <3>2. CASE r \in log[t] /\ t = s /\ r.href = h
        <4>1. r.id <= lastId[t][r.href] /\ lastId[t][r.href] <= seq /\ r.id = seq + 1
          BY <1>0, <1>2, <1>3, <2>1, <3>2 DEF StoreInv, LogOrdered
        <4>2. QED
          BY <1>1, <1>2, <1>3, <3>2, <4>1
      <3>3. CASE t = s /\ r = row
        BY <1>4, <3>3 DEF Writes
      <3>4. QED
        BY <1>5, <3>1, <3>2, <3>3
    <2>2. QED
      BY <2>1 DEF LastTells
  <1>10. QED
    BY <1>6, <1>7, <1>8, <1>9 DEF StoreInv

\* The last statement of a delete the mirror has pushed: the row was no member before.
LEMMA FinalizeKeeps ==
  ASSUME TypeOK, NEW s \in Slug, NEW h \in Href, FinalizeDelete(s, h)
  PROVE  \A t \in Slug, g \in Href : Content(t, g)' = Content(t, g)
  <1>1. \A t \in Slug, g \in Href :
           obj'[t][g] = IF t = s /\ g = h THEN NoObject ELSE obj[t][g]
    BY DEF TypeOK, FinalizeDelete
  <1>2. obj[s][h].soft
    BY DEF FinalizeDelete
  <1>3. QED
    BY <1>1, <1>2 DEF Content, NoObject

LEMMA FinalizeInv ==
  ASSUME TypeOK, StoreInv, NEW s \in Slug, NEW h \in Href, FinalizeDelete(s, h)
  PROVE  StoreInv'
  <1>1. \A t \in Slug, g \in Href : Content(t, g)' = Content(t, g)
    BY FinalizeKeeps
  <1>2. UNCHANGED <<cal, log, seq, lastId>>
    BY DEF FinalizeDelete, ghostVars
  <1>3. \A t \in Slug : \A r \in log[t] : r.href \in Href
    BY DEF TypeOK, LogRow
  <1>4. LogOrdered' /\ GoneIsEmpty' /\ LogComplete'
    BY <1>1, <1>2 DEF StoreInv, LogOrdered, GoneIsEmpty, LogComplete
  <1>5. LastTells'
    BY <1>1, <1>2, <1>3 DEF StoreInv, LastTells
  <1>6. QED
    BY <1>4, <1>5 DEF StoreInv

\* The head the mirror cursor moves to is a number the log has handed out.
LEMMA PassEndInv ==
  ASSUME TypeOK, StoreInv, NEW s \in Slug, MirrorPassEnd(s)
  PROVE  StoreInv' /\ \A t \in Slug : cal'[t].live = cal[t].live /\ cal'[t].base = cal[t].base
  <1>1. PICK n \in 0 .. seq : cal' = [cal EXCEPT ![s].pushed = IF @ < n THEN n ELSE @]
    BY DEF MirrorPassEnd
  <1>2. \A t \in Slug : cal[t] \in Calendar
    BY DEF TypeOK
  <1>3. \A t \in Slug : /\ cal'[t].live = cal[t].live
                        /\ cal'[t].base = cal[t].base
                        /\ cal'[t].pushed = cal[t].pushed \/ cal'[t].pushed = n
    BY <1>1, <1>2 DEF TypeOK, Calendar
  <1>4. n <= seq
    BY DEF TypeOK
  <1>5. UNCHANGED <<obj, log, seq, lastId>>
    BY DEF MirrorPassEnd, ghostVars
  <1>6. LogOrdered'
    BY <1>3, <1>4, <1>5 DEF StoreInv, LogOrdered
  <1>7. GoneIsEmpty' /\ LogComplete' /\ LastTells'
    BY <1>3, <1>5 DEF StoreInv, GoneIsEmpty, LogComplete, LastTells, Content
  <1>8. QED
    BY <1>3, <1>6, <1>7 DEF StoreInv

\* What a calendar that is created or deleted looks like afterwards.
LEMMA CreateLeaves ==
  ASSUME TypeOK, NEW s \in Slug, CreateCalendar(s)
  PROVE  /\ cal'[s].live /\ cal'[s].base = seq /\ cal'[s].pushed = 0
         /\ \A h \in Href : lastId'[s][h] = seq
         /\ inc'[s] = inc[s] + 1
         /\ \A t \in Slug : t # s => /\ cal'[t] = cal[t] /\ lastId'[t] = lastId[t]
                                     /\ inc'[t] = inc[t]
         /\ UNCHANGED <<obj, log, seq>>
  <1>1. cal' = [cal EXCEPT ![s] = [live |-> TRUE, mirrored |-> FALSE, base |-> seq,
                                   pushed |-> 0]]
    BY DEF CreateCalendar, HighWater
  <1>2. cal'[s] = [live |-> TRUE, mirrored |-> FALSE, base |-> seq, pushed |-> 0]
    BY <1>1 DEF TypeOK
  <1>3. cal'[s].live /\ cal'[s].base = seq /\ cal'[s].pushed = 0
    BY <1>2
  <1>4. QED
    BY <1>1, <1>3 DEF TypeOK, CreateCalendar, HighWater

LEMMA CreateInv ==
  ASSUME TypeOK, StoreInv, NEW s \in Slug, CreateCalendar(s)
  PROVE  StoreInv'
  <1>1. seq \in Nat
    BY DEF TypeOK
  <1>2. log'[s] = {}
    BY CreateLeaves DEF CreateCalendar, StoreInv, GoneIsEmpty
  <1>3. LogOrdered'
    BY <1>1, <1>2, CreateLeaves DEF StoreInv, LogOrdered
  <1>4. GoneIsEmpty'
    BY CreateLeaves DEF StoreInv, GoneIsEmpty, Content
  <1>5. LogComplete'
    BY <1>1, <1>2, CreateLeaves DEF StoreInv, LogComplete
  <1>6. LastTells'
    BY <1>2, CreateLeaves DEF StoreInv, LastTells, Content
  <1>7. QED
    BY <1>3, <1>4, <1>5, <1>6 DEF StoreInv

LEMMA DeleteLeaves ==
  ASSUME TypeOK, NEW s \in Slug, DeleteCalendar(s)
  PROVE  /\ ~cal'[s].live /\ cal'[s].base = 0 /\ cal'[s].pushed = 0 /\ log'[s] = {}
         /\ \A h \in Href : obj'[s][h] = NoObject
         /\ \A t \in Slug : t # s => /\ cal'[t] = cal[t] /\ log'[t] = log[t]
                                     /\ obj'[t] = obj[t]
         /\ UNCHANGED <<seq, lastId, inc>>
  <1>1. cal[s] \in Calendar
    BY DEF TypeOK
  <1>2. cal'[s] = [cal[s] EXCEPT !.live = FALSE, !.base = 0, !.pushed = 0]
    BY DEF TypeOK, DeleteCalendar
  <1>3. ~cal'[s].live /\ cal'[s].base = 0 /\ cal'[s].pushed = 0
    BY <1>1, <1>2 DEF Calendar
  <1>4. QED
    BY <1>3 DEF TypeOK, DeleteCalendar, ghostVars

LEMMA DeleteInv ==
  ASSUME TypeOK, StoreInv, NEW s \in Slug, DeleteCalendar(s)
  PROVE  StoreInv'
  <1>1. seq \in Nat
    BY DEF TypeOK
  <1>2. LogOrdered'
    BY <1>1, DeleteLeaves DEF StoreInv, LogOrdered
  <1>3. GoneIsEmpty'
    BY DeleteLeaves DEF StoreInv, GoneIsEmpty, Content, NoObject
  <1>4. LogComplete'
    BY DeleteLeaves DEF StoreInv, LogComplete
  <1>5. LastTells'
    BY DeleteLeaves DEF StoreInv, LastTells, Content
  <1>6. QED
    BY <1>2, <1>3, <1>4, <1>5 DEF StoreInv

\* The compaction moves the baseline over what it removes, and never past the log.
LEMMA CompactLeaves ==
  ASSUME TypeOK, StoreInv, NEW old \in [Slug -> 0 .. seq], Compact(old), NEW t \in Slug
  PROVE  /\ cal'[t].live = cal[t].live /\ cal'[t].pushed = cal[t].pushed
         /\ cal'[t].base \in Nat /\ cal[t].base <= cal'[t].base /\ cal'[t].base <= seq
         /\ \A r \in log[t] : r \in log'[t] \/ r.id <= cal'[t].base
         /\ \A r \in log'[t] : r \in log[t] /\ cal'[t].base < r.id
  <1> DEFINE cut == Cutoff(t, old[t])
  <1>1. old \in [Slug -> Nat] /\ old[t] <= seq
    BY DEF TypeOK
  <1>2. cut \in Nat
    BY <1>1, CutoffType
  <1>3. cut <= seq
    BY <1>1 DEF Cutoff, StoreInv, LogOrdered
  <1>4. cal[t] \in Calendar /\ seq \in Nat /\ \A r \in log[t] : r.id \in Nat
    BY DEF TypeOK, LogRow
  <1>5. cal[t].base \in Nat
    BY <1>4 DEF Calendar
  <1>6. log'[t] = {r \in log[t] : r.id > cut}
    BY DEF Compact
  <1>7. cal'[t] = IF cal[t].base < cut THEN [cal[t] EXCEPT !.base = cut] ELSE cal[t]
    BY DEF Compact
  <1> HIDE DEF cut
  <1>8. /\ cal'[t].live = cal[t].live /\ cal'[t].pushed = cal[t].pushed
        /\ cal'[t].base = IF cal[t].base < cut THEN cut ELSE cal[t].base
    BY <1>4, <1>7 DEF Calendar
  <1>9. \A r \in log[t] : cal[t].base < r.id
    BY DEF StoreInv, LogOrdered
  <1>10. cal[t].base <= seq
    BY DEF StoreInv, LogOrdered
  <1>11. QED
    BY <1>2, <1>3, <1>4, <1>5, <1>6, <1>8, <1>9, <1>10

LEMMA CompactInv ==
  ASSUME TypeOK, StoreInv, NEW old \in [Slug -> 0 .. seq], Compact(old)
  PROVE  StoreInv'
  <1>1. UNCHANGED <<obj, seq, lastId>>
    BY DEF Compact, ghostVars
  <1>2. ASSUME NEW t \in Slug
        PROVE  /\ cal'[t].base <= seq /\ cal'[t].pushed <= seq
               /\ \A h \in Href : lastId[t][h] <= seq
               /\ \A r \in log'[t] : cal'[t].base < r.id /\ r.id <= lastId[t][r.href]
    BY CompactLeaves DEF StoreInv, LogOrdered
  <1>3. ASSUME NEW t \in Slug, ~cal'[t].live
        PROVE  log'[t] = {} /\ \A h \in Href : Content(t, h)' = NoDoc
    BY <1>1, <1>3, CompactLeaves DEF StoreInv, GoneIsEmpty, Content
  <1>4. ASSUME NEW t \in Slug, cal'[t].live, NEW h \in Href, cal'[t].base < lastId[t][h]
        PROVE  \E r \in log'[t] : r.href = h /\ r.id = lastId[t][h]
    <2>1. cal[t].live /\ cal[t].base <= cal'[t].base /\ cal'[t].base \in Nat
      BY <1>4, CompactLeaves
    <2>2. cal[t].base \in Nat /\ lastId[t][h] \in Nat
      BY DEF TypeOK, Calendar
    <2>3. cal[t].base < lastId[t][h]
      BY <1>4, <2>1, <2>2
    <2>4. PICK r \in log[t] : r.href = h /\ r.id = lastId[t][h]
      BY <2>1, <2>3 DEF StoreInv, LogComplete
    <2>5. r \in log'[t]
      BY <1>4, <2>1, <2>2, <2>4, CompactLeaves
    <2>6. QED
      BY <2>4, <2>5
  <1>5. ASSUME NEW t \in Slug, NEW r \in log'[t], r.id = lastId[t][r.href]
        PROVE  r.deleted <=> Content(t, r.href)' = NoDoc
    BY <1>1, <1>5, CompactLeaves DEF StoreInv, LastTells, Content
  <1>6. QED
    BY <1>1, <1>2, <1>3, <1>4, <1>5 DEF StoreInv, LogOrdered, GoneIsEmpty, LogComplete, LastTells

----------------------------------------------------------------------------
(* What clients may rely on while the store changes.                       *)

\* What every step of the store leaves true: a calendar is in place only while its
\* incarnation is, its head does not move back, and a member is as it was or its last
\* change is newer than anything numbered so far.
StoreStep ==
    /\ seq <= seq'
    /\ \A s \in Slug :
          /\ inc[s] <= inc'[s]
          /\ cal'[s].live /\ inc'[s] = inc[s] =>
                /\ cal[s].live
                /\ \A h \in Href : \/ /\ Content(s, h)' = Content(s, h)
                                      /\ lastId'[s][h] = lastId[s][h]
                                   \/ seq < lastId'[s][h]
          /\ \A n \in 0 .. seq :
                cal'[s].live /\ (cal[s].live => Reaches(s, n)) => Reaches(s, n)'
          /\ cal'[s].live => \/ cal[s].live /\ inc'[s] = inc[s] /\ cal[s].base <= cal'[s].base
                             \/ seq <= cal'[s].base

\* What such a step leaves of the clients: tokens and reports as they are, and what is
\* new of a PUT, or of what a client holds, is about a change just made.
ClientFrame(c) ==
    /\ tok'[c] = tok[c] /\ minted'[c] = minted[c] /\ misled'[c] = misled[c]
    /\ Reporting(c)' => req'[c] = req[c] /\ view'[c] = view[c]
    /\ req'[c].at = "put" => \/ req'[c] = req[c]
                             \/ /\ req'[c].slug \in Slug /\ req'[c].href \in Href
                                /\ seq < lastId'[req'[c].slug][req'[c].href]
    /\ \A s \in Slug, h \in Href : view'[c][s][h] = view[c][s][h] \/ seq < lastId'[s][h]

LEMMA WriteStep ==
  ASSUME TypeOK, StoreInv, NEW s \in Slug, NEW h \in Href, NEW deleted \in BOOLEAN,
         Writes(s, h, deleted), UNCHANGED <<cal, inc>>
  PROVE  StoreStep
  <1>0. /\ seq' = seq + 1
        /\ \A t \in Slug : log[t] \subseteq log'[t]
        /\ \A t \in Slug, g \in Href :
              lastId'[t][g] = IF t = s /\ g = h THEN seq + 1 ELSE lastId[t][g]
    BY WriteLogs DEF Writes
  <1>1. seq \in Nat /\ \A t \in Slug : inc[t] \in Nat
    BY DEF TypeOK
  <1>2. ASSUME NEW t \in Slug, NEW g \in Href
        PROVE  \/ Content(t, g)' = Content(t, g) /\ lastId'[t][g] = lastId[t][g]
               \/ seq < lastId'[t][g]
    <2>1. CASE t = s /\ g = h
      BY <1>0, <1>1, <2>1
    <2>2. CASE t # s \/ g # h
      <3>1. Content(t, g)' = Content(t, g)
        BY <2>2 DEF Writes
      <3>2. QED
        BY <1>0, <2>2, <3>1
    <2>3. QED
      BY <2>1, <2>2
  <1>3. ASSUME NEW t \in Slug, NEW n \in 0 .. seq, Reaches(t, n)
        PROVE  Reaches(t, n)'
    BY <1>0, <1>3 DEF Reaches, Ids
  <1>4. \A t \in Slug : cal[t].base <= cal[t].base
    BY DEF TypeOK, Calendar
  <1>5. QED
    BY <1>0, <1>1, <1>2, <1>3, <1>4 DEF StoreStep

\* Steps that touch neither the log nor what is a member.
LEMMA QuietStep ==
  ASSUME TypeOK, UNCHANGED <<log, seq, lastId, inc>>,
         \A t \in Slug, g \in Href : Content(t, g)' = Content(t, g),
         \A t \in Slug : cal'[t].live = cal[t].live /\ cal'[t].base = cal[t].base
  PROVE  StoreStep
  <1>1. seq \in Nat /\ \A t \in Slug : inc[t] \in Nat
    BY DEF TypeOK
  <1>2. \A t \in Slug, n \in 0 .. seq : Reaches(t, n) => Reaches(t, n)'
    BY DEF Reaches, Ids
  <1>3. \A t \in Slug : cal[t].base <= cal'[t].base
    BY DEF TypeOK, Calendar
  <1>4. QED
    BY <1>1, <1>2, <1>3 DEF StoreStep

LEMMA CreateStep ==
  ASSUME TypeOK, NEW s \in Slug, CreateCalendar(s)
  PROVE  StoreStep
  <1>1. seq \in Nat /\ \A t \in Slug : inc[t] \in Nat
    BY DEF TypeOK
  <1>2. \A t \in Slug, g \in Href : Content(t, g)' = Content(t, g)
    BY CreateLeaves DEF Content
  <1>3. ~cal[s].live
    BY DEF CreateCalendar
  <1>4. \A t \in Slug, n \in 0 .. seq :
           cal'[t].live /\ (cal[t].live => Reaches(t, n)) => Reaches(t, n)'
    <2>1. ASSUME NEW n \in 0 .. seq PROVE Reaches(s, n)'
      BY <1>1, CreateLeaves DEF Reaches
    <2>2. ASSUME NEW t \in Slug, t # s, NEW n \in 0 .. seq, Reaches(t, n) PROVE Reaches(t, n)'
      BY <2>2, CreateLeaves DEF Reaches, Ids
    <2>3. QED
      BY <2>1, <2>2, CreateLeaves
  <1>5. \A t \in Slug : inc[t] <= inc'[t] /\ (inc'[t] = inc[t] => t # s)
    BY <1>1, CreateLeaves
  <1>6. \A t \in Slug : \/ t # s /\ cal'[t] = cal[t] /\ inc'[t] = inc[t] /\ cal[t].base <= cal'[t].base
                        \/ seq <= cal'[t].base
    <2>1. \A t \in Slug : cal[t].base <= cal[t].base
      BY DEF TypeOK, Calendar
    <2>2. QED
      BY <1>1, <2>1, CreateLeaves
  <1>7. QED
    BY <1>1, <1>2, <1>4, <1>5, <1>6, CreateLeaves DEF StoreStep

LEMMA DeleteStep ==
  ASSUME TypeOK, NEW s \in Slug, DeleteCalendar(s)
  PROVE  StoreStep
  <1>1. seq \in Nat /\ \A t \in Slug : inc[t] \in Nat
    BY DEF TypeOK
  <1>2. \A t \in Slug, g \in Href : t # s => Content(t, g)' = Content(t, g)
    BY DeleteLeaves DEF Content
  <1>3. \A t \in Slug, n \in 0 .. seq : t # s /\ Reaches(t, n) => Reaches(t, n)'
    BY DeleteLeaves DEF Reaches, Ids
  <1>4. \A t \in Slug : cal[t].base <= cal[t].base
    BY DEF TypeOK, Calendar
  <1>5. QED
    BY <1>1, <1>2, <1>3, <1>4, DeleteLeaves DEF StoreStep

LEMMA CompactStep ==
  ASSUME TypeOK, StoreInv, NEW old \in [Slug -> 0 .. seq], Compact(old)
  PROVE  StoreStep
  <1>1. seq \in Nat /\ \A t \in Slug : inc[t] \in Nat /\ cal[t].base \in Nat
    BY DEF TypeOK, Calendar
  <1>2. UNCHANGED <<obj, seq, lastId, inc>>
    BY DEF Compact, ghostVars
  <1>3. \A t \in Slug, g \in Href : Content(t, g)' = Content(t, g)
    BY <1>2 DEF Content
  <1>4. ASSUME NEW t \in Slug, NEW n \in 0 .. seq, Reaches(t, n)
        PROVE  Reaches(t, n)'
    <2>1. PICK m \in {cal[t].base} \cup Ids(t) : n <= m
      BY <1>4 DEF Reaches
    <2>2. n \in Nat
      BY <1>1
    <2>3. CASE m = cal[t].base
      <3>1. n <= cal'[t].base
        BY <1>1, <2>1, <2>2, <2>3, CompactLeaves
      <3>2. QED
        BY <3>1 DEF Reaches
    <2>4. CASE m \in Ids(t)
      <3>1. PICK r \in log[t] : r.id = m
        BY <2>4 DEF Ids
      <3>2. CASE r \in log'[t]
        BY <2>1, <3>1, <3>2 DEF Reaches, Ids
      <3>3. CASE r.id <= cal'[t].base
        <4>1. r.id \in Nat
          BY DEF TypeOK, LogRow
        <4>2. n <= cal'[t].base
          BY <2>1, <2>2, <3>1, <3>3, <4>1, CompactLeaves
        <4>3. QED
          BY <4>2 DEF Reaches
      <3>4. QED
        BY <3>2, <3>3, CompactLeaves
    <2>5. QED
      BY <2>1, <2>3, <2>4
  <1>5. QED
    BY <1>1, <1>2, <1>3, <1>4, CompactLeaves DEF StoreStep

\* A step of the store disturbs no client.
LEMMA StepKeepsClient ==
  ASSUME TypeOK, TypeOK', StoreStep, NEW c \in Client, ClientInv(c), ClientFrame(c)
  PROVE  ClientInv(c)'
  <1>0. PICK r : r = req[c]
    OBVIOUS
  <1>1. /\ seq \in Nat /\ seq' \in Nat /\ seq <= seq'
        /\ \A s \in Slug : /\ inc[s] \in Nat /\ inc'[s] \in Nat /\ inc[s] <= inc'[s]
                           /\ tok[c][s] \in Nat /\ minted[c][s] \in Nat
        /\ \A s \in Slug, h \in Href : lastId[s][h] \in Nat /\ lastId'[s][h] \in Nat
    BY DEF TypeOK, StoreStep
  <1>2. /\ tok'[c] = tok[c] /\ minted'[c] = minted[c] /\ misled'[c] = misled[c]
        /\ Reporting(c)' => req'[c] = r /\ view'[c] = view[c] /\ Reporting(c)
    BY <1>0 DEF ClientFrame, Reporting
  <1>3. Reporting(c) => /\ r.slug \in Slug /\ r.head \in Nat /\ r.inc \in Nat /\ r.head <= seq
                        /\ r.inc <= inc[r.slug]
    <2>1. Reporting(c) => r \in Report
      BY <1>0, ReqAt DEF Reporting
    <2>2. QED
      BY <1>0, <2>1 DEF Report, ClientInv, TokensReached, Incarnations
  <1>4. TokensReached(c)'
    <2>1. ASSUME NEW s \in Slug
          PROVE  tok'[c][s] <= seq' /\ (cal'[s].live => Reaches(s, tok[c][s])')
      <3>1. tok[c][s] \in 0 .. seq /\ (cal[s].live => Reaches(s, tok[c][s]))
        BY <1>1 DEF ClientInv, TokensReached
      <3>2. QED
        BY <1>1, <1>2, <3>1 DEF StoreStep
    <2>2. ASSUME Reporting(c)'
          PROVE  r.head <= seq' /\ (cal'[r.slug].live => Reaches(r.slug, r.head)')
      <3>1. r.head \in 0 .. seq /\ (cal[r.slug].live => Reaches(r.slug, r.head))
        BY <1>0, <1>1, <1>2, <1>3, <2>2 DEF ClientInv, TokensReached
      <3>2. QED
        BY <1>1, <1>2, <1>3, <2>2, <3>1 DEF StoreStep
    <2>3. \A s \in Slug : tok'[c][s] = tok[c][s]
      BY <1>2
    <2>4. QED
      BY <1>2, <2>1, <2>2, <2>3 DEF TokensReached, Reaches, Ids
  <1>5. Incarnations(c)'
    BY <1>1, <1>2, <1>3 DEF ClientInv, Incarnations
  <1>6. ReportStarts(c)'
    BY <1>0, <1>2 DEF ClientInv, ReportStarts, Honest
  <1>7. AnswerTrue(c)'
    <2> SUFFICES ASSUME req'[c].at = "load", cal'[r.slug].live, r.inc = inc'[r.slug],
                        r.since = 0 \/ Honest(c, r.slug), Reporting(c)', NEW h \in Href
                 PROVE  TellsTruth(c, h)'
      BY <1>2 DEF AnswerTrue, Reporting, Honest
    <2>1. inc'[r.slug] = inc[r.slug]
      BY <1>1, <1>2, <1>3
    <2>2. TellsTruth(c, h)
      BY <1>0, <1>2, <1>3, <2>1 DEF ClientInv, AnswerTrue, StoreStep
    <2>3. \/ Content(r.slug, h)' = Content(r.slug, h) /\ lastId'[r.slug][h] = lastId[r.slug][h]
          \/ seq < lastId'[r.slug][h]
      BY <1>2, <1>3, <2>1 DEF StoreStep
    <2>4. CASE seq < lastId'[r.slug][h]
      BY <1>0, <1>1, <1>2, <1>3, <2>4 DEF TellsTruth
    <2>5. CASE Content(r.slug, h)' = Content(r.slug, h) /\ lastId'[r.slug][h] = lastId[r.slug][h]
      BY <1>0, <1>2, <2>2, <2>5 DEF TellsTruth
    <2>6. QED
      BY <2>3, <2>4, <2>5
  <1>8. PutIsNews(c)'
    <2> DEFINE q == req'[c]
    <2> SUFFICES ASSUME q.at = "put", cal'[q.slug].live, minted[c][q.slug] = inc'[q.slug]
                 PROVE  tok[c][q.slug] < lastId'[q.slug][q.href]
      BY <1>2 DEF PutIsNews
    <2>1. q.slug \in Slug /\ q.href \in Href
      BY ReqAt DEF TypeOK, PutReq, ClientFrame
    <2>2. tok[c][q.slug] <= seq
      BY <2>1 DEF ClientInv, TokensReached
    <2>3. CASE seq < lastId'[q.slug][q.href]
      BY <1>1, <2>1, <2>2, <2>3
    <2>4. CASE q = r /\ ~(seq < lastId'[q.slug][q.href])
      <3>1. minted[c][q.slug] <= inc[q.slug]
        BY <2>1 DEF ClientInv, Incarnations
      <3>2. inc'[q.slug] = inc[q.slug]
        BY <1>1, <2>1, <3>1
      <3>3. cal[q.slug].live /\ lastId'[q.slug][q.href] = lastId[q.slug][q.href]
        BY <2>1, <2>4, <3>2 DEF StoreStep
      <3>4. QED
        BY <1>0, <2>4, <3>2, <3>3 DEF ClientInv, PutIsNews
    <2>5. QED
      BY <1>0, <2>3, <2>4 DEF ClientFrame
  <1>9. Current(c)'
    <2> SUFFICES ASSUME NEW s \in Slug, NEW h \in Href, Trusts(c, s)',
                        lastId'[s][h] <= tok[c][s]
                 PROVE  view'[c][s][h].doc = Content(s, h)'
      BY <1>2 DEF Current
    <2>1. tok[c][s] <= seq /\ minted[c][s] <= inc[s]
      BY DEF ClientInv, TokensReached, Incarnations
    <2>2. ~(seq < lastId'[s][h])
      BY <1>1, <2>1
    <2>3. inc'[s] = inc[s]
      BY <1>1, <1>2, <2>1 DEF Trusts
    <2>4. Content(s, h)' = Content(s, h) /\ lastId'[s][h] = lastId[s][h] /\ cal[s].live
      BY <2>2, <2>3 DEF StoreStep, Trusts
    <2>5. Trusts(c, s)
      BY <1>2, <2>3, <2>4 DEF Trusts
    <2>6. view'[c][s][h] = view[c][s][h]
      BY <2>2 DEF ClientFrame
    <2>7. QED
      BY <2>4, <2>5, <2>6 DEF ClientInv, Current
  <1>10. PredecessorsBehind(c)'
    <2>1. ASSUME NEW s \in Slug, NEW n \in Nat, n <= seq, cal'[s].live,
                 cal[s].live /\ inc'[s] = inc[s] => n <= cal[s].base
          PROVE  n <= cal'[s].base
      <3>1. cal[s].base \in Nat /\ cal'[s].base \in Nat
        BY DEF TypeOK, Calendar
      <3>2. \/ cal[s].live /\ inc'[s] = inc[s] /\ cal[s].base <= cal'[s].base
            \/ seq <= cal'[s].base
        BY <2>1 DEF StoreStep
      <3>3. QED
        BY <1>1, <2>1, <3>1, <3>2
    <2>2. ASSUME NEW s \in Slug, cal'[s].live, minted[c][s] # inc'[s]
          PROVE  tok[c][s] <= cal'[s].base
      <3>1. tok[c][s] <= seq
        BY DEF ClientInv, TokensReached
      <3>2. cal[s].live /\ inc'[s] = inc[s] => tok[c][s] <= cal[s].base
        BY <2>2 DEF ClientInv, PredecessorsBehind
      <3>3. QED
        BY <1>1, <2>1, <2>2, <3>1, <3>2
    <2>3. ASSUME req'[c].at = "head", r.inc = inc'[r.slug], minted[c][r.slug] # inc'[r.slug]
          PROVE  r.since <= r.base
      <3>1. Reporting(c)'
        BY <2>3 DEF Reporting
      <3>2. inc'[r.slug] = inc[r.slug]
        BY <1>1, <1>2, <1>3, <2>3, <3>1
      <3>3. QED
        BY <1>0, <1>2, <2>3, <3>1, <3>2 DEF ClientInv, PredecessorsBehind
    <2>4. ASSUME Reporting(c)', cal'[r.slug].live, r.inc # inc'[r.slug]
          PROVE  r.head <= cal'[r.slug].base
      <3>1. cal[r.slug].live /\ inc'[r.slug] = inc[r.slug] => r.head <= cal[r.slug].base
        BY <1>0, <1>2, <2>4 DEF ClientInv, PredecessorsBehind
      <3>2. QED
        BY <1>2, <1>3, <2>1, <2>4, <3>1
    <2>5. req'[c].at = "head" => Reporting(c)'
      BY DEF Reporting
    <2>6. QED
      BY <1>2, <2>2, <2>3, <2>4, <2>5 DEF PredecessorsBehind
  <1>11. QED
    BY <1>4, <1>5, <1>6, <1>7, <1>8, <1>9, <1>10 DEF ClientInv

----------------------------------------------------------------------------
(* Steps of one client's requests that leave the store alone.              *)

StoreStill == UNCHANGED <<cal, obj, log, seq, inc, lastId>>

LEMMA StillStep ==
  ASSUME TypeOK, StoreStill
  PROVE  StoreStep
  BY QuietStep DEF StoreStill, Content

\* A request disturbs no other client.
LEMMA StillKeeps ==
  ASSUME TypeOK, TypeOK', StoreStill, NEW d \in Client, ClientInv(d),
         tok'[d] = tok[d], minted'[d] = minted[d], misled'[d] = misled[d],
         view'[d] = view[d], req'[d] = req[d] \/ req'[d] = NoReq
  PROVE  ClientInv(d)'
  <1>1. ClientFrame(d)
    BY DEF ClientFrame, Reporting, NoReq
  <1>2. QED
    BY <1>1, StillStep, StepKeepsClient

\* What the store looks like to a request does not change with it.
LEMMA StillReaches ==
  ASSUME TypeOK, StoreStill
  PROVE  /\ \A s \in Slug, n \in Nat : Reaches(s, n)' <=> Reaches(s, n)
         /\ \A s \in Slug : Reaches(s, 0)
         /\ \A s \in Slug, h \in Href : Content(s, h)' = Content(s, h)
  <1>1. \A s \in Slug : cal[s].base \in Nat
    BY DEF TypeOK, Calendar
  <1>2. \A s \in Slug : Reaches(s, 0)
    BY <1>1 DEF Reaches
  <1>3. QED
    BY <1>2 DEF StoreStill, Reaches, Ids, Content

LEMMA BeginInv ==
  ASSUME TypeOK, TypeOK', StoreInv, NEW c \in Client, NEW s \in Slug, BeginReport(c, s),
         \A d \in Client : ClientInv(d)
  PROVE  \A d \in Client : ClientInv(d)'
  <1>1. StoreStill /\ UNCHANGED <<view, tok, minted, misled>>
    BY DEF BeginReport, StoreStill, storeVars, clientVars, ghostVars
  <1>2. \A d \in Client : d # c => req'[d] = req[d]
    BY DEF BeginReport, TypeOK
  <1>3. /\ req'[c].at = "head" /\ req'[c].slug = s /\ req'[c].since = tok[c][s]
        /\ req'[c].head = 0 /\ req'[c].inc = inc[s] /\ req'[c].said = [h \in Href |-> Unsaid]
    BY DEF BeginReport, TypeOK
  <1>4. seq \in Nat /\ inc[s] \in Nat
    BY DEF TypeOK
  <1>5. TokensReached(c)'
    <2>1. \A t \in Slug : tok[c][t] \in Nat
      BY DEF TypeOK
    <2>2. Reaches(s, 0)' /\ \A t \in Slug : cal[t].live => Reaches(t, tok[c][t])'
      BY <1>1, <2>1, StillReaches DEF ClientInv, TokensReached
    <2>3. QED
      BY <1>1, <1>3, <1>4, <2>2 DEF StoreStill, ClientInv, TokensReached, Reaches, Ids
  <1>6. Incarnations(c)'
    BY <1>1, <1>3, <1>4 DEF StoreStill, ClientInv, Incarnations
  <1>7. ReportStarts(c)' /\ AnswerTrue(c)' /\ PutIsNews(c)'
    BY <1>1, <1>3 DEF ReportStarts, AnswerTrue, PutIsNews
  <1>8. Current(c)'
    BY <1>1 DEF StoreStill, ClientInv, Current, Trusts, Content
  <1>9. ClientInv(c)'
    <2>1. cal[s].live /\ req'[c].base = cal[s].base
      BY DEF BeginReport, TypeOK
    <2>2. PredecessorsBehind(c)'
      BY <1>1, <1>3, <2>1 DEF StoreStill, ClientInv, PredecessorsBehind
    <2>3. QED
      BY <1>5, <1>6, <1>7, <1>8, <2>2 DEF ClientInv
  <1>10. ASSUME NEW d \in Client, d # c PROVE ClientInv(d)'
    BY <1>1, <1>2, <1>10, StillKeeps
  <1>11. QED
    BY <1>9, <1>10

LEMMA AnswerInv ==
  ASSUME TypeOK, TypeOK', StoreInv, NEW c \in Client, Drop(c) \/ PutAnswer(c),
         \A d \in Client : ClientInv(d)
  PROVE  \A d \in Client : ClientInv(d)'
  <1>1. StoreStill /\ UNCHANGED <<tok, minted, misled>>
    BY DEF Drop, PutAnswer, StoreStill, storeVars, clientVars, ghostVars
  <1>2. req'[c] = NoReq /\ \A d \in Client : d # c => req'[d] = req[d] /\ view'[d] = view[d]
    BY DEF Drop, PutAnswer, TypeOK, clientVars
  <1>3. ASSUME NEW d \in Client, d # c PROVE ClientInv(d)'
    BY <1>1, <1>2, <1>3, StillKeeps
  <1>4. CASE Drop(c)
    BY <1>1, <1>2, <1>3, <1>4, StillKeeps DEF Drop, clientVars
  <1>5. CASE PutAnswer(c)
    <2>1. PICK r : r = req[c]
      OBVIOUS
    <2>2. r.slug \in Slug /\ r.href \in Href /\ r.at = "put"
      BY <1>5, <2>1, ReqAt DEF PutAnswer, PutReq
    <2>3. \A s \in Slug, h \in Href : s # r.slug \/ h # r.href => view'[c][s][h] = view[c][s][h]
      BY <1>5, <2>1, <2>2 DEF PutAnswer, TypeOK
    <2>4. Current(c)'
      <3> SUFFICES ASSUME NEW s \in Slug, NEW h \in Href, Trusts(c, s), lastId[s][h] <= tok[c][s]
                   PROVE  view'[c][s][h].doc = Content(s, h)
        BY <1>1 DEF Current, Trusts, StoreStill, Content
      <3>1. s # r.slug \/ h # r.href
        <4>1. lastId[s][h] \in Nat /\ tok[c][s] \in Nat
          BY DEF TypeOK
        <4>2. QED
          BY <2>1, <2>2, <4>1 DEF ClientInv, PutIsNews, Trusts
      <3>2. QED
        BY <2>3, <3>1 DEF ClientInv, Current
    <2>5. TokensReached(c)'
      <3>1. \A t \in Slug : tok[c][t] \in Nat
        BY DEF TypeOK
      <3>2. \A t \in Slug : cal[t].live => Reaches(t, tok[c][t])'
        BY <1>1, <3>1, StillReaches DEF ClientInv, TokensReached
      <3>3. QED
        BY <1>1, <1>2, <3>2 DEF StoreStill, ClientInv, TokensReached, Reporting, NoReq, Reaches, Ids
    <2>6. Incarnations(c)' /\ ReportStarts(c)' /\ AnswerTrue(c)' /\ PutIsNews(c)'
      BY <1>1, <1>2 DEF StoreStill, ClientInv, Incarnations, ReportStarts, AnswerTrue, PutIsNews,
         Reporting, NoReq
    <2>7. PredecessorsBehind(c)'
      BY <1>1, <1>2 DEF StoreStill, ClientInv, PredecessorsBehind, Reporting, NoReq
    <2>9. ClientInv(c)'
      BY <2>4, <2>5, <2>6, <2>7 DEF ClientInv
    <2>10. QED
      BY <1>3, <2>9
  <1>6. QED
    BY <1>4, <1>5

\* A client that is refused gives its token up; one that is not has a head it reaches.
LEMMA ReadHeadInv ==
  ASSUME TypeOK, TypeOK', StoreInv, NEW c \in Client, ReadHead(c),
         \A d \in Client : ClientInv(d)
  PROVE  \A d \in Client : ClientInv(d)'
  <1>1. StoreStill /\ UNCHANGED <<view, minted>>
    BY DEF ReadHead, StoreStill, storeVars
  <1>2. PICK r : r = req[c]
    OBVIOUS
  <1>3. r \in Report /\ r.slug \in Slug /\ r.at = "head"
    BY <1>2, ReqAt DEF ReadHead, Report
  <1>4. PICK n \in 0 .. seq :
           /\ IsHead(r.slug, n)
           /\ IF Refused(r, n)
              THEN /\ req' = [req EXCEPT ![c] = NoReq]
                   /\ tok' = [tok EXCEPT ![c][r.slug] = 0]
                   /\ UNCHANGED misled
              ELSE /\ req' = [req EXCEPT ![c].at = "rows", ![c].head = n,
                                         ![c].inc = inc[r.slug]]
                   /\ misled' = [misled EXCEPT ![c] = @ \cup
                         {w \in {<<"predecessor", r.slug>>} : PassesForOwn(c, r)}]
                   /\ UNCHANGED tok
    BY <1>2 DEF ReadHead
  <1>5. ASSUME NEW d \in Client, d # c PROVE ClientInv(d)'
    <2>1. tok'[d] = tok[d] /\ misled'[d] = misled[d] /\ req'[d] = req[d]
      BY <1>4, <1>5 DEF TypeOK
    <2>2. QED
      BY <1>1, <2>1, StillKeeps
  <1>6. /\ seq \in Nat /\ n \in Nat /\ n <= seq
        /\ \A t \in Slug : tok[c][t] \in Nat /\ minted[c][t] \in Nat /\ inc[t] \in Nat
    BY DEF TypeOK
  <1>7. CASE Refused(r, n)
    <2>1. /\ req'[c] = NoReq /\ misled' = misled
          /\ \A t \in Slug : tok'[c][t] = IF t = r.slug THEN 0 ELSE tok[c][t]
      BY <1>3, <1>4, <1>7 DEF TypeOK
    <2>2. TokensReached(c)'
      <3>1. ASSUME NEW t \in Slug, NEW m \in Nat, cal[t].live, m = tok[c][t] \/ m = 0
            PROVE  Reaches(t, m)'
        BY <1>1, <3>1, StillReaches DEF ClientInv, TokensReached
      <3>2. ASSUME NEW t \in Slug
            PROVE  tok'[c][t] <= seq /\ (cal[t].live => Reaches(t, tok[c][t])')
        <4>1. PICK m \in Nat : m = tok'[c][t] /\ (m = tok[c][t] \/ m = 0)
          BY <1>6, <2>1
        <4>2. m <= seq
          BY <1>6, <4>1 DEF ClientInv, TokensReached
        <4>3. QED
          BY <3>1, <4>1, <4>2 DEF Reaches, Ids
      <3>3. QED
        BY <1>1, <2>1, <3>2 DEF StoreStill, TokensReached, Reporting, NoReq, Reaches, Ids
    <2>3. Current(c)'
      BY <1>1, <2>1 DEF StoreStill, ClientInv, Current, Trusts, Content
    <2>4. Incarnations(c)' /\ ReportStarts(c)' /\ AnswerTrue(c)' /\ PutIsNews(c)'
      BY <1>1, <2>1 DEF StoreStill, ClientInv, Incarnations, ReportStarts, AnswerTrue, PutIsNews,
         Reporting, NoReq
    <2>5. PredecessorsBehind(c)'
      <3>1. \A t \in Slug : 0 <= cal[t].base
        BY DEF TypeOK, Calendar
      <3>2. QED
        BY <1>1, <2>1, <3>1 DEF StoreStill, ClientInv, PredecessorsBehind, Reporting, NoReq
    <2>6. ClientInv(c)'
      BY <2>2, <2>3, <2>4, <2>5 DEF ClientInv
    <2>7. QED
      BY <1>5, <2>6
  <1>8. CASE ~Refused(r, n)
    <2>1. req' = [req EXCEPT ![c] = [r EXCEPT !.at = "rows", !.head = n, !.inc = inc[r.slug]]]
      BY <1>2, <1>4, <1>8 DEF TypeOK
    <2>2. req'[c] = [r EXCEPT !.at = "rows", !.head = n, !.inc = inc[r.slug]]
      BY <2>1 DEF TypeOK
    <2>3. /\ req'[c].at = "rows" /\ req'[c].slug = r.slug /\ req'[c].since = r.since
          /\ req'[c].head = n /\ req'[c].inc = inc[r.slug] /\ req'[c].said = r.said
      BY <1>3, <2>2 DEF Report
    <2>4. /\ tok' = tok
          /\ misled'[c] = misled[c] \cup {w \in {<<"predecessor", r.slug>>} : PassesForOwn(c, r)}
      BY <1>4, <1>8 DEF TypeOK
    <2>5. TokensReached(c)'
      <3>1. Reaches(r.slug, n)
        BY <1>4, <1>6 DEF IsHead, Reaches
      <3>2. Reaches(r.slug, n)' /\ \A t \in Slug : cal[t].live => Reaches(t, tok[c][t])'
        <4>1. ASSUME NEW t \in Slug, NEW m \in Nat, Reaches(t, m) PROVE Reaches(t, m)'
          BY <1>1, <4>1, StillReaches
        <4>2. Reaches(r.slug, n)'
          BY <1>3, <1>6, <3>1, <4>1
        <4>3. ASSUME NEW t \in Slug, cal[t].live PROVE Reaches(t, tok[c][t])'
          <5>1. PICK m \in Nat : m = tok[c][t] /\ m = tok'[c][t]
            BY <1>6, <2>4
          <5>2. Reaches(t, m)'
            BY <4>1, <4>3, <5>1 DEF ClientInv, TokensReached
          <5>3. QED
            BY <5>1, <5>2 DEF Reaches, Ids
        <4>4. QED
          BY <4>2, <4>3
      <3>3. QED
        BY <1>1, <1>6, <2>3, <2>4, <3>2
        DEF StoreStill, ClientInv, TokensReached, Reporting, Reaches, Ids
    <2>6. Incarnations(c)'
      BY <1>1, <1>3, <1>6, <2>3 DEF StoreStill, ClientInv, Incarnations
    <2>7. ReportStarts(c)'
      <3>1. r.since = tok[c][r.slug] /\ r.said = [h \in Href |-> Unsaid]
        BY <1>2, <1>3 DEF ClientInv, ReportStarts, Reporting
      <3>2. ASSUME r.since # 0, Honest(c, r.slug)' PROVE minted[c][r.slug] = inc[r.slug]
        <4>1. CASE minted[c][r.slug] # inc[r.slug]
          <5>0. PassesForOwn(c, r)
            <6>1. CASE r.inc = inc[r.slug]
              <7>1. r.since <= r.base
                BY <1>2, <1>3, <4>1, <6>1 DEF ClientInv, PredecessorsBehind
              <7>2. r.since \in Nat /\ r.base \in Nat
                BY <1>3 DEF Report
              <7>3. r.since = r.base
                BY <1>8, <3>2, <7>1, <7>2 DEF Refused
              <7>4. QED
                BY <3>2, <4>1, <7>3 DEF PassesForOwn
            <6>2. QED
              BY <3>2, <4>1, <6>1 DEF PassesForOwn
          <5>1. <<"predecessor", r.slug>> \in misled'[c]
            BY <2>4, <5>0
          <5>2. <<"predecessor", r.slug>>[2] # r.slug
            BY <3>2, <5>1 DEF Honest
          <5>3. QED
            BY <5>2
        <4>2. QED
          BY <4>1
      <3>3. QED
        BY <1>1, <2>3, <2>4, <3>1, <3>2 DEF ReportStarts, Honest
    <2>8. AnswerTrue(c)' /\ PutIsNews(c)'
      BY <2>3 DEF AnswerTrue, PutIsNews
    <2>9. Current(c)'
      BY <1>1, <2>4 DEF StoreStill, ClientInv, Current, Trusts, Content
    <2>10. PredecessorsBehind(c)'
      BY <1>1, <2>3, <2>4 DEF StoreStill, ClientInv, PredecessorsBehind, Reporting
    <2>11. ClientInv(c)'
      BY <2>5, <2>6, <2>7, <2>8, <2>9, <2>10 DEF ClientInv
    <2>12. QED
      BY <1>5, <2>11
  <1>9. QED
    BY <1>7, <1>8

\* A member the token covers is in the log's newest rows if it has changed since.
LEMMA ChangesCover ==
  ASSUME TypeOK, StoreInv, NEW s \in Slug, cal[s].live, NEW since \in Nat,
         cal[s].base <= since, NEW h \in Href, since < lastId[s][h]
  PROVE  \E q \in Changes(s, since) :
            q.href = h /\ (q.deleted <=> Content(s, h) = NoDoc)
  <1>1. cal[s].base \in Nat /\ lastId[s][h] \in Nat
    BY DEF TypeOK, Calendar
  <1>2. PICK q \in log[s] : q.href = h /\ q.id = lastId[s][h]
    BY <1>1 DEF StoreInv, LogComplete
  <1>3. q \in Latest(s)
    BY <1>2 DEF Latest, StoreInv, LogOrdered
  <1>4. q \in Changes(s, since)
    BY <1>2, <1>3 DEF Changes
  <1>5. QED
    BY <1>2, <1>4 DEF StoreInv, LastTells

\* The newest row of an href is its last change: what LogTellsState says.
LEMMA LatestTells ==
  ASSUME TypeOK, StoreInv, NEW s \in Slug, NEW q \in Latest(s)
  PROVE  q.id = lastId[s][q.href] /\ (q.deleted <=> Content(s, q.href) = NoDoc)
  <1>1. q \in log[s] /\ q.href \in Href /\ q.id \in Nat
    BY DEF TypeOK, Latest, LogRow
  <1>2. cal[s].live
    BY <1>1 DEF StoreInv, GoneIsEmpty
  <1>3. cal[s].base < q.id /\ q.id <= lastId[s][q.href]
    BY <1>1 DEF StoreInv, LogOrdered
  <1>4. cal[s].base \in Nat /\ lastId[s][q.href] \in Nat
    BY <1>1 DEF TypeOK, Calendar
  <1>5. PICK p \in log[s] : p.href = q.href /\ p.id = lastId[s][q.href]
    BY <1>1, <1>2, <1>3, <1>4 DEF StoreInv, LogComplete
  <1>6. q.id = lastId[s][q.href]
    BY <1>1, <1>3, <1>4, <1>5 DEF Latest
  <1>7. QED
    BY <1>1, <1>6 DEF StoreInv, LastTells

LEMMA ReadRowsInv ==
  ASSUME TypeOK, TypeOK', StoreInv, NEW c \in Client, ReadRows(c),
         \A d \in Client : ClientInv(d)
  PROVE  \A d \in Client : ClientInv(d)'
  <1>1. StoreStill /\ UNCHANGED <<view, tok, minted>>
    BY DEF ReadRows, StoreStill, storeVars, clientVars
  <1>2. PICK r : r = req[c]
    OBVIOUS
  <1>3. r \in Report /\ r.slug \in Slug /\ r.at = "rows" /\ r.since \in Nat
    BY <1>2, ReqAt DEF ReadRows, Report
  <1> DEFINE rows == Changes(req[c].slug, req[c].since)
             members == {h \in Href : Content(req[c].slug, h) # NoDoc}
             gone == {q.href : q \in {p \in rows : p.deleted}}
             changed == {q.href : q \in {p \in rows : ~p.deleted}}
             toLoad == IF req[c].since = 0 THEN members ELSE changed
             toSay == IF req[c].since = 0 THEN req[c].said
                      ELSE [h \in Href |-> IF h \in gone THEN NoDoc ELSE Unsaid]
  <1>4. PICK left, said : left = toLoad /\ said = toSay
    OBVIOUS
  <1>5. req' = [req EXCEPT ![c] = [r EXCEPT !.at = "load", !.left = left, !.said = said]]
    <2>1. req' = [req EXCEPT ![c] = [req[c] EXCEPT !.at = "load", !.left = toLoad,
                                                   !.said = toSay]]
      BY DEF ReadRows, TypeOK
    <2> HIDE DEF toLoad, toSay
    <2>2. QED
      BY <1>2, <1>4, <2>1
  <1>6. req'[c] = [r EXCEPT !.at = "load", !.left = left, !.said = said]
    BY <1>5 DEF TypeOK
  <1>7. /\ req'[c].at = "load" /\ req'[c].slug = r.slug /\ req'[c].since = r.since
        /\ req'[c].head = r.head /\ req'[c].inc = r.inc
        /\ req'[c].left = left /\ req'[c].said = said
    BY <1>3, <1>6 DEF Report
  <1>8. misled'[c] = misled[c] \cup {w \in {<<"compaction", r.slug>>} :
                                       r.since # 0 /\ r.since < cal[r.slug].base}
    BY <1>2 DEF ReadRows, TypeOK
  <1>9. ASSUME NEW d \in Client, d # c PROVE ClientInv(d)'
    <2>1. req'[d] = req[d] /\ misled'[d] = misled[d]
      BY <1>5, <1>9 DEF ReadRows, TypeOK
    <2>2. QED
      BY <1>1, <2>1, StillKeeps
  <1>10. TokensReached(c)'
    <2>1. \A t \in Slug, m \in Nat : Reaches(t, m)' <=> Reaches(t, m)
      BY <1>1, StillReaches
    <2>2. \A t \in Slug : tok[c][t] \in Nat /\ tok[c][t] <= seq /\ (cal[t].live => Reaches(t, tok[c][t]))
      BY DEF TypeOK, ClientInv, TokensReached
    <2>3. r.head \in Nat /\ r.head <= seq /\ (cal[r.slug].live => Reaches(r.slug, r.head))
      BY <1>2, <1>3 DEF ClientInv, TokensReached, Reporting, Report
    <2>4. QED
      BY <1>1, <1>3, <1>7, <2>1, <2>2, <2>3 DEF StoreStill, TokensReached, Reporting, Reaches, Ids
  <1>11. Incarnations(c)'
    BY <1>1, <1>2, <1>3, <1>7 DEF StoreStill, ClientInv, Incarnations, Reporting
  <1>12. ReportStarts(c)' /\ PutIsNews(c)'
    BY <1>1, <1>2, <1>3, <1>7 DEF ClientInv, ReportStarts, PutIsNews, Reporting
  <1>13. Current(c)'
    BY <1>1, <1>8 DEF StoreStill, ClientInv, Current, Trusts, Content
  <1>14. AnswerTrue(c)'
    <2> SUFFICES ASSUME cal[r.slug].live, r.inc = inc[r.slug],
                        r.since = 0 \/ Honest(c, r.slug)', NEW h \in Href,
                        lastId[r.slug][h] <= r.head, h \notin left
                 PROVE  /\ said[h] # Unsaid => said[h] = Content(r.slug, h)
                        /\ said[h] = Unsaid /\ r.since = 0 => Content(r.slug, h) = NoDoc
                        /\ said[h] = Unsaid /\ r.since # 0
                              => view[c][r.slug][h].doc = Content(r.slug, h)
      BY <1>1, <1>7 DEF AnswerTrue, TellsTruth, StoreStill, Content, Honest
    <2>1. CASE r.since = 0
      <3>1. said = [g \in Href |-> Unsaid]
        BY <1>2, <1>3, <1>4, <2>1 DEF ClientInv, ReportStarts, Reporting
      <3>2. Content(r.slug, h) = NoDoc
        BY <1>2, <1>4, <2>1
      <3>3. QED
        BY <2>1, <3>1, <3>2
    <2>2. CASE r.since # 0
      <3>1. said[h] = IF h \in gone THEN NoDoc ELSE Unsaid
        BY <1>2, <1>4, <2>2
      <3>2. CASE h \in gone
        <4>1. PICK q \in rows : q.href = h /\ q.deleted
          BY <3>2
        <4>2. q \in Latest(r.slug)
          BY <1>2, <4>1 DEF Changes
        <4>3. Content(r.slug, h) = NoDoc
          BY <1>3, <4>1, <4>2, LatestTells
        <4>4. QED
          BY <2>2, <3>1, <3>2, <4>3 DEF NoDoc, Unsaid
      <3>3. CASE h \notin gone
        <4>1. cal[r.slug].base \in Nat /\ lastId[r.slug][h] \in Nat
          BY <1>3 DEF TypeOK, Calendar
        <4>2. Honest(c, r.slug) /\ cal[r.slug].base <= r.since
          <5>1. \A w \in misled'[c] : w[2] # r.slug
            BY <2>2 DEF Honest
          <5>2. ~(r.since < cal[r.slug].base)
            <6>1. SUFFICES ASSUME r.since < cal[r.slug].base PROVE FALSE
              OBVIOUS
            <6>2. <<"compaction", r.slug>> \in misled'[c]
              BY <1>8, <2>2, <6>1
            <6>3. <<"compaction", r.slug>>[2] # r.slug
              BY <5>1, <6>2
            <6>4. QED
              BY <6>3
          <5>3. Honest(c, r.slug)
            BY <1>8, <5>1 DEF Honest
          <5>4. QED
            BY <1>3, <4>1, <5>2, <5>3
        <4>3. ~(r.since < lastId[r.slug][h])
          <5>1. SUFFICES ASSUME r.since < lastId[r.slug][h] PROVE FALSE
            OBVIOUS
          <5>2. PICK q \in rows : q.href = h
            BY <1>2, <1>3, <4>2, <5>1, ChangesCover
          <5>3. QED
            BY <1>2, <1>4, <2>2, <3>3, <5>2
        <4>4. /\ r.since = tok[c][r.slug]
              /\ minted[c][r.slug] = inc[r.slug]
          BY <1>2, <1>3, <2>2, <4>2 DEF ClientInv, ReportStarts, Reporting
        <4>5. Trusts(c, r.slug)
          BY <2>2, <4>2, <4>4 DEF Trusts, Honest
        <4>6. lastId[r.slug][h] <= tok[c][r.slug]
          BY <1>3, <4>1, <4>3, <4>4
        <4>7. view[c][r.slug][h].doc = Content(r.slug, h)
          BY <1>3, <4>5, <4>6 DEF ClientInv, Current
        <4>8. QED
          BY <2>2, <3>1, <3>3, <4>7
      <3>4. QED
        BY <3>2, <3>3
    <2>3. QED
      BY <2>1, <2>2
  <1>15. PredecessorsBehind(c)'
    BY <1>1, <1>2, <1>3, <1>7 DEF StoreStill, ClientInv, PredecessorsBehind, Reporting
  <1>16. ClientInv(c)'
    BY <1>10, <1>11, <1>12, <1>13, <1>14, <1>15 DEF ClientInv
  <1>17. QED
    BY <1>9, <1>16

LEMMA LoadInv ==
  ASSUME TypeOK, TypeOK', StoreInv, NEW c \in Client, NEW g \in Href, LoadObject(c, g),
         \A d \in Client : ClientInv(d)
  PROVE  \A d \in Client : ClientInv(d)'
  <1>1. StoreStill /\ UNCHANGED <<view, tok, minted, misled>>
    BY DEF LoadObject, StoreStill, storeVars, clientVars, ghostVars
  <1>2. PICK r : r = req[c]
    OBVIOUS
  <1>3. r \in Report /\ r.slug \in Slug /\ r.at = "load"
    BY <1>2, ReqAt DEF LoadObject, Report
  <1> DEFINE toLoad == req[c].left \ {g}
             toSay == [req[c].said EXCEPT ![g] = Content(req[c].slug, g)]
  <1>4. PICK left, said : left = toLoad /\ said = toSay
    OBVIOUS
  <1>4a. req' = [req EXCEPT ![c] = [r EXCEPT !.left = left, !.said = said]]
    <2>1. req' = [req EXCEPT ![c] = [req[c] EXCEPT !.left = toLoad, !.said = toSay]]
      BY LoadSays
    <2> HIDE DEF toLoad, toSay
    <2>2. QED
      BY <1>2, <1>4, <2>1
  <1>5. /\ \A h \in Href : h \notin left => h = g \/ h \notin r.left
        /\ \A h \in Href : said[h] = IF h = g THEN Content(r.slug, g) ELSE r.said[h]
    BY <1>2, <1>3, <1>4 DEF Report
  <1>6. req'[c] = [r EXCEPT !.left = left, !.said = said]
    BY <1>4a DEF TypeOK
  <1>7. /\ req'[c].at = "load" /\ req'[c].slug = r.slug /\ req'[c].since = r.since
        /\ req'[c].head = r.head /\ req'[c].inc = r.inc
        /\ req'[c].left = left /\ req'[c].said = said
    BY <1>3, <1>6 DEF Report
  <1>8. ASSUME NEW d \in Client, d # c PROVE ClientInv(d)'
    <2>1. req'[d] = req[d]
      BY <1>4a, <1>8 DEF TypeOK
    <2>2. QED
      BY <1>1, <2>1, StillKeeps
  <1>9. TokensReached(c)'
    <2>1. \A t \in Slug, m \in Nat : Reaches(t, m)' <=> Reaches(t, m)
      BY <1>1, StillReaches
    <2>2. \A t \in Slug : tok[c][t] \in Nat /\ tok[c][t] <= seq /\ (cal[t].live => Reaches(t, tok[c][t]))
      BY DEF TypeOK, ClientInv, TokensReached
    <2>3. r.head \in Nat /\ r.head <= seq /\ (cal[r.slug].live => Reaches(r.slug, r.head))
      BY <1>2, <1>3 DEF ClientInv, TokensReached, Reporting, Report
    <2>4. QED
      BY <1>1, <1>3, <1>7, <2>1, <2>2, <2>3 DEF StoreStill, TokensReached, Reporting, Reaches, Ids
  <1>10. Incarnations(c)'
    BY <1>1, <1>2, <1>3, <1>7 DEF StoreStill, ClientInv, Incarnations, Reporting
  <1>11. ReportStarts(c)' /\ PutIsNews(c)'
    BY <1>1, <1>2, <1>3, <1>7 DEF ClientInv, ReportStarts, PutIsNews, Reporting
  <1>12. Current(c)'
    BY <1>1 DEF StoreStill, ClientInv, Current, Trusts, Content
  <1>13. AnswerTrue(c)'
    <2> SUFFICES ASSUME cal[r.slug].live, r.inc = inc[r.slug],
                        r.since = 0 \/ Honest(c, r.slug), NEW h \in Href,
                        lastId[r.slug][h] <= r.head, h \notin left
                 PROVE  /\ said[h] # Unsaid => said[h] = Content(r.slug, h)
                        /\ said[h] = Unsaid /\ r.since = 0 => Content(r.slug, h) = NoDoc
                        /\ said[h] = Unsaid /\ r.since # 0
                              => view[c][r.slug][h].doc = Content(r.slug, h)
      BY <1>1, <1>7 DEF AnswerTrue, TellsTruth, StoreStill, Content, Honest
    <2>1. CASE h = g
      <3>1. Content(r.slug, g) # Unsaid
        BY <1>3, ContentType DEF Doc, NoDoc, Unsaid
      <3>2. QED
        BY <1>5, <2>1, <3>1
    <2>2. CASE h # g
      <3>1. TellsTruth(c, h)
        BY <1>2, <1>3 DEF ClientInv, AnswerTrue
      <3>2. QED
        BY <1>2, <1>5, <2>2, <3>1 DEF TellsTruth
    <2>3. QED
      BY <2>1, <2>2
  <1>14. PredecessorsBehind(c)'
    BY <1>1, <1>2, <1>3, <1>6 DEF StoreStill, ClientInv, PredecessorsBehind, Reporting
  <1>15. ClientInv(c)'
    BY <1>9, <1>10, <1>11, <1>12, <1>13, <1>14 DEF ClientInv
  <1>16. QED
    BY <1>8, <1>15

\* The answer makes the client hold what it tells, up to the head it was made for.
LEMMA DeliverInv ==
  ASSUME TypeOK, TypeOK', StoreInv, NEW c \in Client, Deliver(c),
         \A d \in Client : ClientInv(d)
  PROVE  \A d \in Client : ClientInv(d)'
  <1>1. StoreStill
    BY DEF Deliver, StoreStill, storeVars
  <1>2. PICK r : r = req[c]
    OBVIOUS
  <1>3. /\ r \in Report /\ r.slug \in Slug /\ r.at = "load" /\ r.left = {}
        /\ r.head \in Nat /\ r.inc \in Nat
    BY <1>2, ReqAt DEF Deliver, Report
  <1>4. req'[c] = NoReq
    BY DEF Deliver, TypeOK
  <1>5. /\ \A t \in Slug : tok'[c][t] = IF t = r.slug THEN r.head ELSE tok[c][t]
        /\ \A t \in Slug : minted'[c][t] = IF t = r.slug THEN r.inc ELSE minted[c][t]
    BY <1>2, <1>3 DEF Deliver, TypeOK
  <1>6. ASSUME NEW d \in Client, d # c PROVE ClientInv(d)'
    <2>1. /\ tok'[d] = tok[d] /\ minted'[d] = minted[d] /\ view'[d] = view[d]
          /\ req'[d] = req[d]
      BY <1>6 DEF Deliver, TypeOK
    <2>2. misled'[d] = misled[d]
      BY <1>6 DEF Deliver, TypeOK
    <2>3. QED
      BY <1>1, <2>1, <2>2, StillKeeps
  <1>7. r.head <= seq /\ (cal[r.slug].live => Reaches(r.slug, r.head)) /\ r.inc <= inc[r.slug]
    BY <1>2, <1>3 DEF ClientInv, TokensReached, Incarnations, Reporting
  <1>8. TokensReached(c)'
    <2>1. \A t \in Slug, m \in Nat : Reaches(t, m)' <=> Reaches(t, m)
      BY <1>1, StillReaches
    <2>2. \A t \in Slug : tok[c][t] \in Nat /\ tok[c][t] <= seq /\ (cal[t].live => Reaches(t, tok[c][t]))
      BY DEF TypeOK, ClientInv, TokensReached
    <2>3. ASSUME NEW t \in Slug
          PROVE  tok'[c][t] <= seq /\ (cal[t].live => Reaches(t, tok[c][t])')
      <3>1. PICK m \in Nat : m = tok'[c][t] /\ m <= seq /\ (cal[t].live => Reaches(t, m))
        BY <1>3, <1>5, <1>7, <2>2
      <3>2. cal[t].live => Reaches(t, m)'
        BY <2>1, <3>1
      <3>3. QED
        BY <3>1, <3>2 DEF Reaches, Ids
    <2>4. QED
      BY <1>1, <1>4, <2>3 DEF StoreStill, TokensReached, Reporting, NoReq, Reaches, Ids
  <1>9. Incarnations(c)'
    BY <1>1, <1>4, <1>5, <1>7 DEF StoreStill, ClientInv, Incarnations, Reporting, NoReq
  <1>10. ReportStarts(c)' /\ AnswerTrue(c)' /\ PutIsNews(c)'
    BY <1>4 DEF ReportStarts, AnswerTrue, PutIsNews, Reporting, NoReq
  <1>11. \A w \in misled[c] : w \in misled'[c] \/ (r.since = 0 /\ w[2] = r.slug)
    <2>1. CASE r.since = 0
      <3>1. misled'[c] = misled[c] \ ({"predecessor", "compaction"} \X {r.slug})
        BY <1>2, <2>1 DEF Deliver, TypeOK
      <3>2. \A w \in {"predecessor", "compaction"} \X {r.slug} : w[2] = r.slug
        OBVIOUS
      <3>3. QED
        BY <2>1, <3>1, <3>2
    <2>2. CASE r.since # 0
      BY <1>2, <2>2 DEF Deliver
    <2>3. QED
      BY <2>1, <2>2
  <1> DEFINE told(h) == IF r.said[h] = Unsaid
                        THEN IF r.since = 0 THEN NotSeen ELSE view[c][r.slug][h]
                        ELSE [doc |-> r.said[h], etag |-> r.said[h]]
  <1>12. view' = [view EXCEPT ![c][r.slug] = [h \in Href |-> told(h)]]
    BY <1>2 DEF Deliver
  <1>13. \A s \in Slug, h \in Href :
            view'[c][s][h] = IF s = r.slug THEN told(h) ELSE view[c][s][h]
    <2> HIDE DEF told
    <2>1. QED
      BY <1>3, <1>12 DEF TypeOK
  <1>14. Current(c)'
    <2> SUFFICES ASSUME NEW s \in Slug, NEW h \in Href, Trusts(c, s)',
                        lastId[s][h] <= tok'[c][s]
                 PROVE  view'[c][s][h].doc = Content(s, h)
      BY <1>1 DEF Current, StoreStill, Content
    <2>1. cal[s].live /\ tok'[c][s] # 0 /\ minted'[c][s] = inc[s]
      BY <1>1 DEF Trusts, StoreStill
    <2>2. CASE s = r.slug
      <3>1. r.since = 0 \/ Honest(c, s)
        BY <1>11, <2>2 DEF Trusts, Honest
      <3>2. TellsTruth(c, h)
        BY <1>2, <1>3, <1>5, <2>1, <2>2, <3>1 DEF ClientInv, AnswerTrue
      <3>3. lastId[s][h] <= r.head /\ h \notin r.left
        BY <1>3, <1>5, <2>2
      <3>4. told(h).doc = Content(s, h)
        BY <1>2, <2>2, <3>2, <3>3 DEF TellsTruth, NotSeen
      <3> HIDE DEF told
      <3>5. view'[c][s][h] = told(h)
        BY <1>13, <2>2
      <3>6. QED
        BY <3>4, <3>5
    <2>3. CASE s # r.slug
      <3>1. Honest(c, s)
        BY <1>11, <2>3 DEF Trusts, Honest
      <3>2. tok'[c][s] = tok[c][s] /\ minted'[c][s] = minted[c][s]
        BY <1>5, <2>3
      <3>3. Trusts(c, s) /\ lastId[s][h] <= tok[c][s]
        BY <2>1, <3>1, <3>2 DEF Trusts, Honest
      <3> HIDE DEF told
      <3>4. view'[c][s][h] = view[c][s][h]
        BY <1>13, <2>3
      <3>5. QED
        BY <3>3, <3>4 DEF ClientInv, Current
    <2>4. QED
      BY <2>2, <2>3
  <1>15. PredecessorsBehind(c)'
    <2>1. cal[r.slug].live /\ r.inc # inc[r.slug] => r.head <= cal[r.slug].base
      BY <1>2, <1>3 DEF ClientInv, PredecessorsBehind, Reporting
    <2>2. QED
      BY <1>1, <1>4, <1>5, <2>1 DEF StoreStill, ClientInv, PredecessorsBehind, Reporting, NoReq
  <1>16. ClientInv(c)'
    BY <1>8, <1>9, <1>10, <1>14, <1>15 DEF ClientInv
  <1>17. QED
    BY <1>6, <1>16

----------------------------------------------------------------------------
(* The invariant is kept, and what follows from it.                        *)

\* The four writes, as the store and its clients see them.
LEMMA WriteActions ==
  ASSUME IInv, TypeOK', NEW s \in Slug, NEW h \in Href,
         \/ \E c \in Client, pre \in {"none", "match", "absent"} :
               (\E d \in Doc : Put(c, s, h, d, pre)) \/ Delete(c, s, h, pre)
         \/ \E d \in Doc : OtherPut(s, h, d)
         \/ MirrorDelete(s, h)
  PROVE  StoreInv' /\ \A c \in Client : ClientInv(c)'
  <1>1. TypeOK /\ StoreInv /\ \A c \in Client : ClientInv(c)
    BY DEF IInv
  <1>2. \A c \in Client : req[c] = NoReq => ~Reporting(c)
    BY DEF NoReq, Reporting
  <1>3. ASSUME NEW deleted \in BOOLEAN, Writes(s, h, deleted), UNCHANGED <<cal, inc>>,
               \A c \in Client : ClientFrame(c)
        PROVE  StoreInv' /\ \A c \in Client : ClientInv(c)'
    <2>1. StoreInv' /\ StoreStep
      BY <1>1, <1>3, WriteInv, WriteStep
    <2>2. QED
      BY <1>1, <1>3, <2>1, StepKeepsClient
  <1>4. ASSUME NEW deleted \in BOOLEAN, Writes(s, h, deleted) PROVE seq < lastId'[s][h]
    <2>1. seq \in Nat /\ lastId'[s][h] = seq + 1
      BY <1>1, <1>4, WriteLogs DEF TypeOK, Writes
    <2>2. QED
      BY <2>1
  <1>5. ASSUME NEW c \in Client, NEW pre \in {"none", "match", "absent"}, NEW d \in Doc,
               Put(c, s, h, d, pre)
        PROVE  StoreInv' /\ \A e \in Client : ClientInv(e)'
    <2>1. Writes(s, h, FALSE)
      BY <1>1, <1>5, StoreWrites DEF Put
    <2>2. /\ req'[c] = [at |-> "put", slug |-> s, href |-> h, doc |-> d, pre |-> pre]
          /\ \A e \in Client : e # c => req'[e] = req[e]
      BY <1>1, <1>5 DEF Put, TypeOK
    <2>3. req'[c].at = "put" /\ req'[c].slug = s /\ req'[c].href = h
      BY <2>2
    <2>4. UNCHANGED <<cal, inc, view, tok, minted, misled>>
      BY <1>5 DEF Put, clientVars
    <2>5. ASSUME NEW e \in Client PROVE ClientFrame(e)
      BY <1>4, <2>1, <2>2, <2>3, <2>4 DEF ClientFrame, Reporting
    <2>6. QED
      BY <1>3, <2>1, <2>4, <2>5
  <1>6. ASSUME NEW c \in Client, NEW pre \in {"none", "match", "absent"}, Delete(c, s, h, pre)
        PROVE  StoreInv' /\ \A e \in Client : ClientInv(e)'
    <2>1. Writes(s, h, TRUE)
      <3>1. Mirrored(s) \in BOOLEAN
        BY <1>1 DEF TypeOK, Calendar, Mirrored
      <3>2. QED
        BY <1>1, <1>6, <3>1, RemoveWrites DEF Delete
    <2>2. UNCHANGED <<cal, inc, tok, minted, misled, req>> /\ req[c] = NoReq
      BY <1>6 DEF Delete
    <2>3. /\ \A e \in Client : e # c => view'[e] = view[e]
          /\ \A t \in Slug, g \in Href : view'[c][t][g] = view[c][t][g] \/ (t = s /\ g = h)
      BY <1>1, <1>6 DEF Delete, TypeOK
    <2>4. ASSUME NEW e \in Client PROVE ClientFrame(e)
      BY <1>2, <1>4, <2>1, <2>2, <2>3 DEF ClientFrame, Reporting
    <2>5. QED
      BY <1>3, <2>1, <2>2, <2>4
  <1>7. ASSUME NEW d \in Doc, OtherPut(s, h, d)
        PROVE  StoreInv' /\ \A e \in Client : ClientInv(e)'
    <2>1. Writes(s, h, FALSE)
      BY <1>1, <1>7, StoreWrites DEF OtherPut
    <2>2. UNCHANGED <<cal, inc, view, tok, minted, misled, req>>
      BY <1>7 DEF OtherPut, clientVars
    <2>3. \A e \in Client : ClientFrame(e)
      BY <2>2 DEF ClientFrame, Reporting
    <2>4. QED
      BY <1>3, <2>1, <2>2, <2>3
  <1>8. ASSUME MirrorDelete(s, h)
        PROVE  StoreInv' /\ \A e \in Client : ClientInv(e)'
    <2>1. Writes(s, h, TRUE)
      BY <1>1, <1>8, RemoveWrites DEF MirrorDelete
    <2>2. UNCHANGED <<cal, inc, view, tok, minted, misled, req>>
      BY <1>8 DEF MirrorDelete, clientVars
    <2>3. \A e \in Client : ClientFrame(e)
      BY <2>2 DEF ClientFrame, Reporting
    <2>4. QED
      BY <1>3, <2>1, <2>2, <2>3
  <1>9. QED
    BY <1>5, <1>6, <1>7, <1>8

LEMMA UpkeepActions ==
  ASSUME IInv, TypeOK',
         \/ \E s \in Slug, h \in Href : FinalizeDelete(s, h)
         \/ \E s \in Slug : MirrorPassEnd(s) \/ CreateCalendar(s) \/ DeleteCalendar(s)
         \/ \E old \in [Slug -> 0 .. seq] : Compact(old)
  PROVE  StoreInv' /\ \A c \in Client : ClientInv(c)'
  <1>1. TypeOK /\ StoreInv /\ \A c \in Client : ClientInv(c)
    BY DEF IInv
  <1>2. UNCHANGED <<view, tok, req, minted, misled>>
    BY DEF FinalizeDelete, MirrorPassEnd, CreateCalendar, DeleteCalendar, Compact, clientVars,
       ghostVars
  <1>3. \A c \in Client : ClientFrame(c)
    BY <1>2 DEF ClientFrame, Reporting
  <1>4. StoreInv' /\ StoreStep
    <2>1. ASSUME NEW s \in Slug, NEW h \in Href, FinalizeDelete(s, h)
          PROVE  StoreInv' /\ StoreStep
      <3>1. UNCHANGED <<cal, log, seq, lastId, inc>>
        BY <2>1 DEF FinalizeDelete, ghostVars
      <3>2. QED
        BY <1>1, <2>1, <3>1, FinalizeInv, FinalizeKeeps, QuietStep
    <2>2. ASSUME NEW s \in Slug, MirrorPassEnd(s) PROVE StoreInv' /\ StoreStep
      <3>1. UNCHANGED <<obj, log, seq, lastId, inc>>
        BY <2>2 DEF MirrorPassEnd, ghostVars
      <3>2. \A t \in Slug, g \in Href : Content(t, g)' = Content(t, g)
        BY <3>1 DEF Content
      <3>3. QED
        BY <1>1, <2>2, <3>1, <3>2, PassEndInv, QuietStep
    <2>3. ASSUME NEW s \in Slug, CreateCalendar(s) PROVE StoreInv' /\ StoreStep
      BY <1>1, <2>3, CreateInv, CreateStep
    <2>4. ASSUME NEW s \in Slug, DeleteCalendar(s) PROVE StoreInv' /\ StoreStep
      BY <1>1, <2>4, DeleteInv, DeleteStep
    <2>5. ASSUME NEW old \in [Slug -> 0 .. seq], Compact(old) PROVE StoreInv' /\ StoreStep
      BY <1>1, <2>5, CompactInv, CompactStep
    <2>6. QED
      BY <2>1, <2>2, <2>3, <2>4, <2>5
  <1>5. QED
    BY <1>1, <1>3, <1>4, StepKeepsClient

LEMMA RequestActions ==
  ASSUME IInv, TypeOK', NEW c \in Client,
         \/ \E s \in Slug : BeginReport(c, s)
         \/ ReadHead(c) \/ ReadRows(c) \/ Deliver(c) \/ Drop(c) \/ PutAnswer(c)
         \/ \E h \in Href : LoadObject(c, h)
  PROVE  StoreInv' /\ \A d \in Client : ClientInv(d)'
  <1>1. TypeOK /\ StoreInv /\ \A d \in Client : ClientInv(d)
    BY DEF IInv
  <1>2. StoreStill
    BY DEF BeginReport, ReadHead, ReadRows, Deliver, Drop, PutAnswer, LoadObject, StoreStill,
       storeVars, ghostVars
  <1>3. StoreInv'
    BY <1>1, <1>2 DEF StoreStill, StoreInv, LogOrdered, GoneIsEmpty, LogComplete, LastTells, Content
  <1>4. \A d \in Client : ClientInv(d)'
    BY <1>1, BeginInv, ReadHeadInv, ReadRowsInv, DeliverInv, AnswerInv, LoadInv
  <1>5. QED
    BY <1>3, <1>4

\* The inductive invariant: the log is complete above the baseline, and every answer in
\* the making is true of what has not changed since its head was read.
THEOREM Invariance == Spec => []IInv
  <1>1. ASSUME IInv, TypeOK', [Next]_vars PROVE IInv'
    <2>1. CASE UNCHANGED vars
      <3> USE <2>1 DEF vars
      <3>1. StoreInv'
        BY <1>1 DEF IInv, StoreInv, LogOrdered, GoneIsEmpty, LogComplete, LastTells, Content
      <3>2. ASSUME NEW d \in Client PROVE ClientInv(d)'
        <4>1. ClientInv(d)
          BY <1>1 DEF IInv
        <4> QED BY <4>1 DEF ClientInv, TokensReached, Reporting, Reaches, Ids, Incarnations, Honest,
               PredecessorsBehind,
               ReportStarts, TellsTruth, AnswerTrue, PutIsNews, Current, Trusts, Content
      <3> QED BY <1>1, <3>1, <3>2 DEF IInv
    <2>2. CASE Next
      BY <1>1, <2>2, WriteActions, UpkeepActions, RequestActions DEF Next, IInv
    <2>3. QED
      BY <1>1, <2>1, <2>2
  <1>2. QED
    BY <1>1, IInvInit, TypeCorrect, PTL DEF Spec

\* The newest row the log keeps of an href tells whether the member exists.
THEOREM LogSound == Spec => []LogTellsState
  <1>1. IInv => LogTellsState
    BY LatestTells DEF IInv, LogTellsState
  <1>2. QED
    BY <1>1, Invariance, PTL

\* The head moves back for no token, through compactions and calendars made anew.
THEOREM TokensSound == Spec => []TokensBehindHead
  <1>1. ASSUME IInv, NEW c \in Client, NEW s \in Slug, NEW n \in 0 .. seq,
               cal[s].live, IsHead(s, n)
        PROVE  tok[c][s] <= n
    <2>1. Reaches(s, tok[c][s])
      BY <1>1 DEF IInv, ClientInv, TokensReached
    <2>2. PICK m \in {cal[s].base} \cup Ids(s) : tok[c][s] <= m
      BY <2>1 DEF Reaches
    <2>3. m <= n
      BY <1>1 DEF IsHead
    <2>4. tok[c][s] \in Nat /\ cal[s].base \in Nat /\ n \in Nat /\ \A r \in log[s] : r.id \in Nat
      BY <1>1 DEF IInv, TypeOK, Calendar, LogRow
    <2>5. m \in Nat
      BY <2>4 DEF Ids
    <2>6. QED
      BY <2>2, <2>3, <2>4, <2>5
  <1>2. IInv => TokensBehindHead
    BY <1>1 DEF TokensBehindHead
  <1>3. QED
    BY <1>2, Invariance, PTL

\* A client holds every member as the store has it, as far as its token reaches.
THEOREM ViewSound == Spec => []ViewCurrent
  <1>1. IInv => ViewCurrent
    BY DEF IInv, ClientInv, Current, ViewCurrent
  <1>2. QED
    BY <1>1, Invariance, PTL

\* put_object_with never runs into UNIQUE (calendar_slug, uid).
THEOREM UidsUnique == Spec => []UidUnique
  <1>1. Init => UidUnique
    BY DEF Init, UidUnique, Holds, NoObject
  <1>2. ASSUME TypeOK, UidUnique, [Next]_vars PROVE UidUnique'
    <2>1. ASSUME NEW s \in Slug, NEW h \in Href, NEW d \in Doc, StoreDoc(s, h, d)
          PROVE  UidUnique'
      <3>1. \A t \in Slug, g \in Href :
               obj'[t][g] = IF t # s THEN obj[t][g]
                            ELSE IF g = h THEN [doc |-> d, soft |-> FALSE]
                            ELSE IF Holds(s, g, d.uid) THEN NoObject
                            ELSE obj[t][g]
        BY <1>2, <2>1 DEF StoreDoc, TypeOK
      <3>2. ASSUME NEW t \in Slug, NEW g \in Href, NEW u \in Uid, Holds(t, g, u)'
            PROVE  \/ Holds(t, g, u) /\ (t = s => g # h /\ u # d.uid)
                   \/ t = s /\ g = h /\ u = d.uid
        BY <3>1, <3>2 DEF Holds, NoObject
      <3>3. QED
        BY <1>2, <3>2 DEF UidUnique
    <2>2. ASSUME \A t \in Slug, g \in Href, u \in Uid : Holds(t, g, u)' => Holds(t, g, u)
          PROVE  UidUnique'
      BY <1>2, <2>2 DEF UidUnique
    <2>3. ASSUME NEW s \in Slug, NEW h \in Href, NEW soft \in BOOLEAN, RemoveDoc(s, h, soft)
          PROVE  UidUnique'
      <3>1. obj[s][h] \in Object
        BY <1>2 DEF TypeOK
      <3>2. /\ obj'[s][h] = IF soft THEN [obj[s][h] EXCEPT !.soft = TRUE] ELSE NoObject
            /\ \A t \in Slug, g \in Href : t # s \/ g # h => obj'[t][g] = obj[t][g]
        BY <1>2, <2>3 DEF RemoveDoc, TypeOK
      <3>3. obj'[s][h].doc = obj[s][h].doc \/ obj'[s][h] = NoObject
        BY <3>1, <3>2 DEF Object
      <3>4. \A t \in Slug, g \in Href :
               obj'[t][g].doc = obj[t][g].doc \/ obj'[t][g] = NoObject
        BY <3>2, <3>3
      <3>5. QED
        BY <2>2, <3>4 DEF Holds, NoObject
    <2>4. ASSUME NEW s \in Slug, NEW h \in Href, FinalizeDelete(s, h) PROVE UidUnique'
      <3>1. \A t \in Slug, g \in Href : obj'[t][g] = obj[t][g] \/ obj'[t][g] = NoObject
        BY <1>2, <2>4 DEF FinalizeDelete, TypeOK
      <3>2. QED
        BY <2>2, <3>1 DEF Holds, NoObject
    <2>5. ASSUME NEW s \in Slug, DeleteCalendar(s) PROVE UidUnique'
      <3>1. \A t \in Slug, g \in Href : obj'[t][g] = obj[t][g] \/ obj'[t][g] = NoObject
        BY <1>2, <2>5 DEF DeleteCalendar, TypeOK
      <3>2. QED
        BY <2>2, <3>1 DEF Holds, NoObject
    <2>6. CASE UNCHANGED obj
      BY <2>2, <2>6 DEF Holds
    <2>7. \A s \in Slug : Mirrored(s) \in BOOLEAN
      BY <1>2 DEF TypeOK, Calendar, Mirrored
    <2>8. CASE Next
      <3>1. ASSUME NEW c \in Client,
                   \/ \E s \in Slug : BeginReport(c, s)
                   \/ ReadHead(c) \/ ReadRows(c) \/ Deliver(c) \/ Drop(c) \/ PutAnswer(c)
                   \/ \E h \in Href : LoadObject(c, h)
            PROVE  UidUnique'
        <4>1. UNCHANGED obj
          BY <3>1 DEF BeginReport, ReadHead, ReadRows, Deliver, Drop, PutAnswer, LoadObject,
             storeVars
        <4>2. QED
          BY <2>6, <4>1
      <3>2. ASSUME NEW c \in Client, NEW s \in Slug, NEW h \in Href,
                   NEW pre \in {"none", "match", "absent"},
                   (\E d \in Doc : Put(c, s, h, d, pre)) \/ Delete(c, s, h, pre)
            PROVE  UidUnique'
        BY <2>1, <2>3, <2>7, <3>2 DEF Put, Delete
      <3>3. ASSUME NEW s \in Slug, NEW h \in Href,
                   (\E d \in Doc : OtherPut(s, h, d)) \/ MirrorDelete(s, h)
            PROVE  UidUnique'
        BY <2>1, <2>3, <3>3 DEF OtherPut, MirrorDelete
      <3>4. ASSUME NEW s \in Slug, MirrorPassEnd(s) \/ CreateCalendar(s) PROVE UidUnique'
        BY <2>6, <3>4 DEF MirrorPassEnd, CreateCalendar
      <3>5. ASSUME NEW old \in [Slug -> 0 .. seq], Compact(old) PROVE UidUnique'
        BY <2>6, <3>5 DEF Compact
      <3>6. QED
        BY <2>4, <2>5, <2>8, <3>1, <3>2, <3>3, <3>4, <3>5 DEF Next
    <2>9. QED
      BY <1>2, <2>6, <2>8 DEF vars
  <1>3. QED
    BY <1>1, <1>2, TypeCorrect, PTL DEF Spec

----------------------------------------------------------------------------
(***************************************************************************)
(* The store, with its log, tombstones, compaction and reports of many     *)
(* statements, does what SyncContract allows, for every calendar: the      *)
(* initial state is one of the contract, and a step of the store a step of *)
(* the contract or none.                                                   *)
(***************************************************************************)

\* What the contract has for a client: the number it was told of.
Told(c, s) == IF Trusts(c, s) THEN tok[c][s] ELSE 0

Serves(s) == [ContractOf(s)!ContractNext]_(ContractOf(s)!contractVars)

\* What two states have in common, as the contract sees them.
SameMembers(s) ==
    /\ lastId'[s] = lastId[s]
    /\ \A h \in Href : Content(s, h)' = Content(s, h)
SameCopy(c, s) == \A h \in Href : view'[c][s][h].doc = view[c][s][h].doc
SameTold(c, s) == Told(c, s)' = Told(c, s)
SameReader(c, s) == SameCopy(c, s) /\ SameTold(c, s)

----------------------------------------------------------------------------
(* The steps of the contract, in the store's terms.                        *)

LEMMA Stutters ==
  ASSUME NEW s \in Slug, seq' = seq, SameMembers(s), \A c \in Client : SameReader(c, s)
  PROVE  Serves(s)
  <1>1. UNCHANGED ContractOf(s)!contractVars
    BY DEF ContractOf!contractVars, SameMembers, SameReader, SameCopy, SameTold, Told
  <1>2. QED
    BY <1>1 DEF Serves

LEMMA WritesElsewhere ==
  ASSUME NEW s \in Slug, seq' = seq + 1, SameMembers(s), \A c \in Client : SameReader(c, s)
  PROVE  Serves(s)
  <1>1. ContractOf(s)!Elsewhere
    BY DEF ContractOf!Elsewhere, SameMembers, SameReader, SameCopy, SameTold, Told
  <1>2. QED
    BY <1>1 DEF Serves, ContractOf!ContractNext

LEMMA ChangesMember ==
  ASSUME TypeOK, TypeOK', NEW s \in Slug, NEW h \in Href, seq' = seq + 1,
         lastId'[s] = [lastId[s] EXCEPT ![h] = seq + 1],
         \A g \in Href \ {h} : Content(s, g)' = Content(s, g),
         \A c \in Client : SameTold(c, s),
         \/ \A c \in Client : SameCopy(c, s)
         \/ \E c \in Client :
               /\ \A e \in Client \ {c} : SameCopy(e, s)
               /\ \A g \in Href \ {h} : view'[c][s][g].doc = view[c][s][g].doc
               /\ view'[c][s][h].doc = Content(s, h)'
  PROVE  Serves(s)
  <1> DEFINE d == Content(s, h)'
             copies == [c \in Client |-> [g \in Href |-> view[c][s][g].doc]]
  <1>1. d \in Doc \cup {NoDoc}
    BY DEF TypeOK, Content, Object
  <1>2. [g \in Href |-> Content(s, g)'] = [[g \in Href |-> Content(s, g)] EXCEPT ![h] = d]
    OBVIOUS
  <1>3. \/ copies' = copies
        \/ \E c \in Client : copies' = [copies EXCEPT ![c][h] = d]
    <2>1. CASE \A c \in Client : SameCopy(c, s)
      BY <2>1 DEF SameCopy
    <2>2. CASE \E c \in Client :
               /\ \A e \in Client \ {c} : SameCopy(e, s)
               /\ \A g \in Href \ {h} : view'[c][s][g].doc = view[c][s][g].doc
               /\ view'[c][s][h].doc = Content(s, h)'
      <3>1. PICK c \in Client :
               /\ \A e \in Client \ {c} : SameCopy(e, s)
               /\ \A g \in Href \ {h} : view'[c][s][g].doc = view[c][s][g].doc
               /\ view'[c][s][h].doc = Content(s, h)'
        BY <2>2
      <3>2. \A e \in Client \ {c}, g \in Href : view'[e][s][g].doc = view[e][s][g].doc
        BY <3>1 DEF SameCopy
      <3>3. \A g \in Href : view'[c][s][g].doc = IF g = h THEN d ELSE view[c][s][g].doc
        BY <3>1
      <3> HIDE DEF d
      <3>4. /\ [g \in Href |-> view'[c][s][g].doc]
                  = [[g \in Href |-> view[c][s][g].doc] EXCEPT ![h] = d]
            /\ \A e \in Client \ {c} : [g \in Href |-> view'[e][s][g].doc]
                  = [g \in Href |-> view[e][s][g].doc]
        BY <3>2, <3>3
      <3>5. copies' = [copies EXCEPT ![c][h] = d]
        BY <3>4
      <3>6. QED
        BY <3>5
    <2>3. QED
      BY <2>1, <2>2
  <1>4. [c \in Client |-> Told(c, s)'] = [c \in Client |-> Told(c, s)]
    BY DEF SameTold
  <1>5. ContractOf(s)!Change
    BY <1>1, <1>2, <1>3, <1>4 DEF ContractOf!Change, Told
  <1>6. QED
    BY <1>5 DEF Serves, ContractOf!ContractNext

LEMMA Renews ==
  ASSUME NEW s \in Slug, seq' = seq,
         \A h \in Href : Content(s, h)' = NoDoc,
         lastId'[s] = lastId[s] \/ lastId'[s] = [h \in Href |-> seq],
         \A c \in Client : SameCopy(c, s) /\ Told(c, s)' = 0
  PROVE  Serves(s)
  <1>1. ContractOf(s)!Renew
    BY DEF ContractOf!Renew, SameCopy, Told
  <1>2. QED
    BY <1>1 DEF Serves, ContractOf!ContractNext

LEMMA Tells ==
  ASSUME TypeOK, TypeOK', NEW s \in Slug, NEW c \in Client, seq' = seq, SameMembers(s),
         \A e \in Client \ {c} : SameReader(e, s),
         NEW n \in {0} \cup Told(c, s) .. seq, Told(c, s)' = n,
         \A h \in Href : n # 0 /\ lastId[s][h] <= n => view'[c][s][h].doc = Content(s, h)
  PROVE  Serves(s)
  <1> DEFINE copies == [e \in Client |-> [g \in Href |-> view[e][s][g].doc]]
             copy == [g \in Href |-> view'[c][s][g].doc]
             tells == [e \in Client |-> Told(e, s)]
  <1>1. copy \in [Href -> Doc \cup {NoDoc}]
    <2>1. \A g \in Href : view'[c][s][g] \in Seen
      BY DEF TypeOK
    <2>2. QED
      BY <2>1 DEF Seen
  <1>2. copies' = [copies EXCEPT ![c] = copy]
    BY DEF SameReader, SameCopy
  <1>3. tells' = [tells EXCEPT ![c] = n]
    BY DEF SameReader, SameTold
  <1>4. [h \in Href |-> Content(s, h)]' = [h \in Href |-> Content(s, h)]
    BY DEF SameMembers
  <1>5. ContractOf(s)!Honest(c, n)
    BY <1>2 DEF ContractOf!Honest
  <1>6. ContractOf(s)!Tell(c)
    BY <1>1, <1>2, <1>3, <1>4, <1>5 DEF ContractOf!Tell, SameMembers, Told
  <1>7. QED
    BY <1>6 DEF Serves, ContractOf!ContractNext

----------------------------------------------------------------------------
(* The steps of the store.                                                 *)

\* A REPORT that has read its head was not refused: its token is not ahead.
HeadCovers(c) == req[c].at \in {"rows", "load"} => req[c].since <= req[c].head

\* What a client's token is worth depends on nothing that a write changes.
LEMMA ToldStays ==
  ASSUME UNCHANGED <<cal, inc, tok, minted, misled>>
  PROVE  \A c \in Client, s \in Slug : SameTold(c, s)
  BY DEF SameTold, Told, Trusts

LEMMA WriteServes ==
  ASSUME TypeOK, TypeOK', NEW s \in Slug, NEW h \in Href, NEW deleted \in BOOLEAN,
         Writes(s, h, deleted), UNCHANGED <<cal, inc, tok, minted, misled>>,
         \/ view' = view
         \/ deleted /\ \E c \in Client : view' = [view EXCEPT ![c][s][h] = NotSeen]
  PROVE  \A t \in Slug : Serves(t)
  <1>1. /\ seq' = seq + 1
        /\ \A t \in Slug, g \in Href :
              lastId'[t][g] = IF t = s /\ g = h THEN seq + 1 ELSE lastId[t][g]
    BY WriteLogs DEF Writes
  <1>2. /\ lastId'[s] = [lastId[s] EXCEPT ![h] = seq + 1]
        /\ \A t \in Slug : t # s => lastId'[t] = lastId[t]
    BY DEF Writes, Append, HighWater, TypeOK
  <1>3. \A c \in Client, t \in Slug : SameTold(c, t)
    BY ToldStays
  <1>4. ASSUME NEW t \in Slug, t # s PROVE Serves(t)
    <2>1. \A c \in Client : SameCopy(c, t)
      BY <1>4 DEF SameCopy, TypeOK
    <2>2. SameMembers(t)
      BY <1>2, <1>4 DEF SameMembers, Writes
    <2>3. QED
      BY <1>1, <1>3, <2>1, <2>2, WritesElsewhere DEF SameReader
  <1>5. Serves(s)
    <2>1. \A g \in Href \ {h} : Content(s, g)' = Content(s, g)
      BY DEF Writes
    <2>2. CASE view' = view
      BY <1>1, <1>2, <1>3, <2>1, <2>2, ChangesMember DEF SameCopy
    <2>3. ASSUME deleted, NEW c \in Client, view' = [view EXCEPT ![c][s][h] = NotSeen]
          PROVE  Serves(s)
      <3>1. Content(s, h)' = NoDoc
        BY <2>3 DEF Writes
      <3>2. /\ \A e \in Client \ {c} : view'[e] = view[e]
            /\ \A g \in Href \ {h} : view'[c][s][g] = view[c][s][g]
            /\ view'[c][s][h] = NotSeen
        BY <2>3 DEF TypeOK
      <3>3. /\ \A e \in Client \ {c} : SameCopy(e, s)
            /\ \A g \in Href \ {h} : view'[c][s][g].doc = view[c][s][g].doc
            /\ view'[c][s][h].doc = Content(s, h)'
        BY <3>1, <3>2 DEF SameCopy, NotSeen
      <3>4. QED
        BY <1>1, <1>2, <1>3, <2>1, <3>3, ChangesMember
    <2>4. QED
      BY <2>2, <2>3
  <1>6. QED
    BY <1>4, <1>5

LEMMA WriteActionsServe ==
  ASSUME TypeOK, TypeOK', StoreInv, NEW s \in Slug, NEW h \in Href,
         \/ \E c \in Client, pre \in {"none", "match", "absent"} :
               (\E d \in Doc : Put(c, s, h, d, pre)) \/ Delete(c, s, h, pre)
         \/ \E d \in Doc : OtherPut(s, h, d)
         \/ MirrorDelete(s, h)
  PROVE  \A t \in Slug : Serves(t)
  <1>1. ASSUME NEW c \in Client, NEW pre \in {"none", "match", "absent"}, NEW d \in Doc,
               Put(c, s, h, d, pre)
        PROVE  \A t \in Slug : Serves(t)
    <2>1. Writes(s, h, FALSE)
      BY <1>1, StoreWrites DEF Put
    <2>2. UNCHANGED <<cal, inc, view, tok, minted, misled>>
      BY <1>1 DEF Put, clientVars
    <2>3. QED
      BY <2>1, <2>2, WriteServes
  <1>2. ASSUME NEW c \in Client, NEW pre \in {"none", "match", "absent"}, Delete(c, s, h, pre)
        PROVE  \A t \in Slug : Serves(t)
    <2>1. Mirrored(s) \in BOOLEAN
      BY DEF TypeOK, Calendar, Mirrored
    <2>2. Writes(s, h, TRUE)
      BY <1>2, <2>1, RemoveWrites DEF Delete
    <2>3. UNCHANGED <<cal, inc, tok, minted, misled>>
      BY <1>2 DEF Delete
    <2>4. view' = view \/ view' = [view EXCEPT ![c][s][h] = NotSeen]
      BY <1>2 DEF Delete
    <2>5. QED
      BY <2>2, <2>3, <2>4, WriteServes
  <1>3. ASSUME NEW d \in Doc, OtherPut(s, h, d) PROVE \A t \in Slug : Serves(t)
    <2>1. Writes(s, h, FALSE)
      BY <1>3, StoreWrites DEF OtherPut
    <2>2. UNCHANGED <<cal, inc, view, tok, minted, misled>>
      BY <1>3 DEF OtherPut, clientVars
    <2>3. QED
      BY <2>1, <2>2, WriteServes
  <1>4. ASSUME MirrorDelete(s, h) PROVE \A t \in Slug : Serves(t)
    <2>1. Writes(s, h, TRUE)
      BY <1>4, RemoveWrites DEF MirrorDelete
    <2>2. UNCHANGED <<cal, inc, view, tok, minted, misled>>
      BY <1>4 DEF MirrorDelete, clientVars
    <2>3. QED
      BY <2>1, <2>2, WriteServes
  <1>5. QED
    BY <1>1, <1>2, <1>3, <1>4

\* Nothing the contract knows of: upkeep that leaves members and calendars alone.
LEMMA QuietServes ==
  ASSUME UNCHANGED <<seq, lastId, inc, view, tok, minted, misled>>,
         \A t \in Slug, g \in Href : Content(t, g)' = Content(t, g),
         \A t \in Slug : cal'[t].live = cal[t].live
  PROVE  \A t \in Slug : Serves(t)
  <1>1. ASSUME NEW t \in Slug PROVE Serves(t)
    <2>1. SameMembers(t) /\ \A c \in Client : SameReader(c, t)
      BY DEF SameMembers, SameReader, SameCopy, SameTold, Told, Trusts
    <2>2. QED
      BY <2>1, Stutters
  <1>2. QED
    BY <1>1

\* A calendar comes or goes: its members are gone, and no token of it is trusted;
\* the others do not notice.
LEMMA RenewServes ==
  ASSUME NEW s \in Slug, UNCHANGED <<seq, view>>,
         \A h \in Href : Content(s, h)' = NoDoc,
         lastId'[s] = lastId[s] \/ lastId'[s] = [h \in Href |-> seq],
         \A c \in Client : ~Trusts(c, s)',
         \A t \in Slug \ {s} : SameMembers(t) /\ \A c \in Client : SameTold(c, t)
  PROVE  \A t \in Slug : Serves(t)
  <1>1. Serves(s)
    BY Renews DEF SameCopy, Told
  <1>2. ASSUME NEW t \in Slug \ {s} PROVE Serves(t)
    <2>1. \A c \in Client : SameReader(c, t)
      BY DEF SameReader, SameCopy
    <2>2. QED
      BY <2>1, Stutters
  <1>3. QED
    BY <1>1, <1>2

LEMMA UpkeepServes ==
  ASSUME IInv,
         \/ \E s \in Slug, h \in Href : FinalizeDelete(s, h)
         \/ \E s \in Slug : MirrorPassEnd(s) \/ CreateCalendar(s) \/ DeleteCalendar(s)
         \/ \E old \in [Slug -> 0 .. seq] : Compact(old)
  PROVE  \A t \in Slug : Serves(t)
  <1>0. TypeOK /\ StoreInv /\ \A c \in Client, s \in Slug : minted[c][s] <= inc[s]
    BY DEF IInv, ClientInv, Incarnations
  <1>1. UNCHANGED <<seq, view, tok, minted, misled>>
    BY DEF FinalizeDelete, MirrorPassEnd, CreateCalendar, DeleteCalendar, Compact, clientVars,
       ghostVars
  <1>2. ASSUME NEW s \in Slug, NEW h \in Href, FinalizeDelete(s, h)
        PROVE  \A t \in Slug : Serves(t)
    <2>1. UNCHANGED <<cal, lastId, inc>>
      BY <1>2 DEF FinalizeDelete, ghostVars
    <2>2. QED
      BY <1>0, <1>1, <1>2, <2>1, FinalizeKeeps, QuietServes
  <1>3. ASSUME NEW s \in Slug, MirrorPassEnd(s) PROVE \A t \in Slug : Serves(t)
    <2>1. UNCHANGED <<obj, lastId, inc>>
      BY <1>3 DEF MirrorPassEnd, ghostVars
    <2>2. \A t \in Slug, g \in Href : Content(t, g)' = Content(t, g)
      BY <2>1 DEF Content
    <2>3. QED
      BY <1>0, <1>1, <1>3, <2>1, <2>2, PassEndInv, QuietServes
  <1>4. ASSUME NEW old \in [Slug -> 0 .. seq], Compact(old) PROVE \A t \in Slug : Serves(t)
    <2>1. UNCHANGED <<obj, lastId, inc>>
      BY <1>4 DEF Compact, ghostVars
    <2>2. \A t \in Slug, g \in Href : Content(t, g)' = Content(t, g)
      BY <2>1 DEF Content
    <2>3. \A t \in Slug : cal'[t].live = cal[t].live
      BY <1>0, <1>4 DEF Compact, TypeOK, Calendar
    <2>4. QED
      BY <1>1, <2>1, <2>2, <2>3, QuietServes
  <1>5. ASSUME NEW s \in Slug, CreateCalendar(s) PROVE \A t \in Slug : Serves(t)
    <2>1. \A t \in Slug, g \in Href : Content(t, g)' = Content(t, g)
      BY <1>0, <1>5, CreateLeaves DEF Content
    <2>2. \A h \in Href : Content(s, h)' = NoDoc
      BY <1>0, <1>5, <2>1 DEF CreateCalendar, StoreInv, GoneIsEmpty
    <2>3. lastId'[s] = [h \in Href |-> seq]
      BY <1>0, <1>5 DEF CreateCalendar, HighWater, TypeOK
    <2>4. \A c \in Client : ~Trusts(c, s)'
      <3>1. \A c \in Client : minted[c][s] \in Nat /\ inc[s] \in Nat
        BY <1>0 DEF TypeOK
      <3>2. \A c \in Client : minted'[c][s] # inc'[s]
        BY <1>0, <1>1, <1>5, <3>1, CreateLeaves
      <3>3. QED
        BY <3>2 DEF Trusts
    <2>5. \A t \in Slug \ {s} : /\ cal'[t] = cal[t] /\ inc'[t] = inc[t]
                                 /\ lastId'[t] = lastId[t]
      BY <1>0, <1>5, CreateLeaves
    <2>6. \A t \in Slug \ {s} : SameMembers(t) /\ \A c \in Client : SameTold(c, t)
      BY <1>1, <2>1, <2>5 DEF SameMembers, SameTold, Told, Trusts
    <2>7. QED
      BY <1>1, <2>2, <2>3, <2>4, <2>6, RenewServes
  <1>6. ASSUME NEW s \in Slug, DeleteCalendar(s) PROVE \A t \in Slug : Serves(t)
    <2>1. \A h \in Href : Content(s, h)' = NoDoc
      BY <1>0, <1>6, DeleteLeaves DEF Content, NoObject
    <2>2. \A c \in Client : ~Trusts(c, s)'
      BY <1>0, <1>6, DeleteLeaves DEF Trusts
    <2>3. UNCHANGED <<lastId, inc>>
      BY <1>6 DEF DeleteCalendar, ghostVars
    <2>4. \A t \in Slug \ {s} : cal'[t] = cal[t] /\ obj'[t] = obj[t]
      BY <1>0, <1>6, DeleteLeaves
    <2>5. \A t \in Slug \ {s} : SameMembers(t) /\ \A c \in Client : SameTold(c, t)
      BY <1>1, <2>3, <2>4 DEF SameMembers, Content, SameTold, Told, Trusts
    <2>6. QED
      BY <1>1, <2>1, <2>2, <2>3, <2>5, RenewServes
  <1>7. QED
    BY <1>2, <1>3, <1>4, <1>5, <1>6

\* A step of one client's request: the contract sees it told of something, or not.
LEMMA RequestServes ==
  ASSUME IInv, IInv', NEW c \in Client, StoreStill,
         \A e \in Client \ {c} : /\ view'[e] = view[e] /\ tok'[e] = tok[e]
                                 /\ minted'[e] = minted[e] /\ misled'[e] = misled[e],
         \A t \in Slug : Told(c, t)' \in {0} \cup Told(c, t) .. seq
  PROVE  \A t \in Slug : Serves(t)
  <1>1. TypeOK /\ TypeOK' /\ Current(c)'
    BY DEF IInv, ClientInv
  <1>2. ASSUME NEW t \in Slug PROVE Serves(t)
    <2>1. seq' = seq /\ SameMembers(t)
      BY DEF StoreStill, SameMembers, Content
    <2>2. \A e \in Client \ {c} : SameReader(e, t)
      BY DEF StoreStill, SameReader, SameCopy, SameTold, Told, Trusts
    <2>3. PICK n \in {0} \cup Told(c, t) .. seq : Told(c, t)' = n
      OBVIOUS
    <2>4. ASSUME NEW h \in Href, n # 0, lastId[t][h] <= n
          PROVE  view'[c][t][h].doc = Content(t, h)
      <3>1. Trusts(c, t)' /\ tok'[c][t] = n
        BY <2>3, <2>4 DEF Told
      <3>2. lastId'[t][h] <= tok'[c][t]
        BY <2>1, <2>4, <3>1 DEF SameMembers
      <3>3. view'[c][t][h].doc = Content(t, h)'
        BY <1>1, <3>1, <3>2 DEF Current
      <3>4. QED
        BY <2>1, <3>3 DEF SameMembers
    <2>5. QED
      BY <1>1, <2>1, <2>2, <2>3, <2>4, Tells
  <1>3. QED
    BY <1>2

\* What a request does to its client's trust in a calendar.
LEMMA RequestTells ==
  ASSUME IInv, NEW c \in Client, HeadCovers(c), StoreStill,
         \/ \E s \in Slug : BeginReport(c, s)
         \/ ReadHead(c) \/ ReadRows(c) \/ Deliver(c) \/ Drop(c) \/ PutAnswer(c)
         \/ \E h \in Href : LoadObject(c, h)
  PROVE  /\ \A t \in Slug : Told(c, t)' \in {0} \cup Told(c, t) .. seq
         /\ \A e \in Client \ {c} : /\ view'[e] = view[e] /\ tok'[e] = tok[e]
                                   /\ minted'[e] = minted[e] /\ misled'[e] = misled[e]
  <1>1. TypeOK /\ TokensReached(c) /\ ReportStarts(c)
    BY DEF IInv, ClientInv
  <1>2. seq \in Nat /\ \A t \in Slug : Told(c, t) \in Nat /\ Told(c, t) <= seq
    BY <1>1 DEF TypeOK, TokensReached, Told
  <1>3. ASSUME tok'[c] = tok[c], minted'[c] = minted[c], misled[c] \subseteq misled'[c]
        PROVE  \A t \in Slug : Told(c, t)' \in {0} \cup Told(c, t) .. seq
    <2>1. ASSUME NEW t \in Slug PROVE Told(c, t)' = 0 \/ Told(c, t)' = Told(c, t)
      BY <1>3 DEF Told, Trusts, StoreStill
    <2>2. QED
      BY <1>2, <2>1
  <1>4. CASE \/ \E s \in Slug : BeginReport(c, s)
             \/ Drop(c) \/ PutAnswer(c) \/ \E h \in Href : LoadObject(c, h)
    <2>1. UNCHANGED <<tok, minted, misled>>
      BY <1>4 DEF BeginReport, Drop, PutAnswer, LoadObject, clientVars, ghostVars
    <2>2. \A e \in Client \ {c} : view'[e] = view[e]
      BY <1>1, <1>4 DEF BeginReport, Drop, PutAnswer, LoadObject, clientVars, TypeOK
    <2>3. QED
      BY <1>3, <2>1, <2>2
  <1>5. CASE ReadRows(c)
    <2>1. UNCHANGED <<view, tok, minted>>
      BY <1>5 DEF ReadRows, clientVars
    <2>2. /\ misled[c] \subseteq misled'[c]
          /\ \A e \in Client \ {c} : misled'[e] = misled[e]
      BY <1>1, <1>5 DEF ReadRows, TypeOK
    <2>3. QED
      BY <1>3, <2>1, <2>2
  <1>6. CASE ReadHead(c)
    <2>1. UNCHANGED <<view, minted>>
      BY <1>6 DEF ReadHead
    <2>2. /\ misled' = misled
             \/ \E new : misled' = [misled EXCEPT ![c] = @ \cup new]
          /\ tok' = tok \/ tok' = [tok EXCEPT ![c][req[c].slug] = 0]
      <3>1. PICK n \in 0 .. seq :
              IF Refused(req[c], n)
              THEN /\ tok' = [tok EXCEPT ![c][req[c].slug] = 0]
                   /\ UNCHANGED misled
              ELSE /\ misled' = [misled EXCEPT ![c] = @ \cup
                        {w \in {<<"predecessor", req[c].slug>>} : PassesForOwn(c, req[c])}]
                   /\ UNCHANGED tok
        BY <1>6 DEF ReadHead
      <3>2. CASE Refused(req[c], n)
        BY <3>1, <3>2
      <3>3. CASE ~Refused(req[c], n)
        BY <3>1, <3>3
      <3>4. QED
        BY <3>2, <3>3
    <2>3. /\ misled[c] \subseteq misled'[c]
          /\ \A e \in Client \ {c} : misled'[e] = misled[e]
      <3>1. CASE misled' = misled
        BY <3>1
      <3>2. CASE \E new : misled' = [misled EXCEPT ![c] = @ \cup new]
        <4>1. PICK new : misled' = [misled EXCEPT ![c] = @ \cup new]
          BY <3>2
        <4>2. misled'[c] = misled[c] \cup new /\ \A e \in Client \ {c} : misled'[e] = misled[e]
          BY <1>1, <4>1 DEF TypeOK
        <4>3. QED
          BY <4>2
      <3>3. QED
        BY <2>2, <3>1, <3>2
    <2>6. \A e \in Client \ {c} : tok'[e] = tok[e]
      BY <1>1, <2>2 DEF TypeOK
    <2>4. \A t \in Slug : Told(c, t)' \in {0} \cup Told(c, t) .. seq
      <3>1. CASE tok' = tok
        BY <1>3, <2>1, <2>3, <3>1
      <3>2. CASE tok' = [tok EXCEPT ![c][req[c].slug] = 0]
        <4>1. \A t \in Slug : tok'[c][t] = 0 \/ tok'[c][t] = tok[c][t]
          BY <1>1, <3>2 DEF TypeOK
        <4>2. ASSUME NEW t \in Slug PROVE Told(c, t)' = 0 \/ Told(c, t)' = Told(c, t)
          BY <2>1, <2>3, <4>1 DEF Told, Trusts, StoreStill
        <4>3. QED
          BY <1>2, <4>2
      <3>3. QED
        BY <2>2, <3>1, <3>2
    <2>5. QED
      BY <2>1, <2>3, <2>4, <2>6
  <1>7. CASE Deliver(c)
    <2>1. PICK r \in Report : r = req[c] /\ r.at = "load"
      BY <1>1, <1>7, ReqAt DEF Deliver
    <2>2. PICK s \in Slug : s = r.slug
      BY <2>1 DEF Report
    <2>3. PICK head \in Nat : head = r.head
      BY <2>1 DEF Report
    <2>4. r.since = tok[c][s] /\ head <= seq /\ r.since <= head
      BY <1>1, <2>1, <2>2, <2>3 DEF ReportStarts, TokensReached, Reporting, HeadCovers
    <2>5. /\ tok' = [tok EXCEPT ![c][s] = head]
          /\ minted' = [minted EXCEPT ![c][s] = r.inc]
          /\ \E new : view' = [view EXCEPT ![c][s] = new]
          /\ misled' = IF r.since = 0
                         THEN [misled EXCEPT ![c] = @ \ ({"predecessor", "compaction"} \X {s})]
                         ELSE misled
      BY <1>7, <2>1, <2>2, <2>3 DEF Deliver
    <2>6. /\ \A t \in Slug \ {s} : tok'[c][t] = tok[c][t] /\ minted'[c][t] = minted[c][t]
          /\ tok'[c][s] = head
          /\ \A e \in Client \ {c} : tok'[e] = tok[e] /\ minted'[e] = minted[e]
      BY <1>1, <2>5 DEF TypeOK
    <2>7. \A e \in Client \ {c} : view'[e] = view[e]
      BY <1>1, <2>5 DEF TypeOK
    <2>8. /\ \A e \in Client \ {c} : misled'[e] = misled[e]
          /\ \A w \in misled[c] : w[2] # s => w \in misled'[c]
      BY <1>1, <2>5 DEF TypeOK
    <2>9. ASSUME NEW t \in Slug \ {s} PROVE Told(c, t)' = 0 \/ Told(c, t)' = Told(c, t)
      BY <2>6, <2>8 DEF Told, Trusts, StoreStill
    <2>10. Told(c, s)' = 0 \/ Told(c, s)' = head
      BY <2>6 DEF Told
    <2>11. Told(c, s) <= head
      BY <2>3, <2>4 DEF Told
    <2>12. Told(c, s)' \in {0} \cup Told(c, s) .. seq
      BY <1>1, <1>2, <2>4, <2>10, <2>11 DEF TypeOK
    <2>13. \A t \in Slug \ {s} : Told(c, t)' \in {0} \cup Told(c, t) .. seq
      BY <1>2, <2>9
    <2>14. QED
      BY <2>6, <2>7, <2>8, <2>12, <2>13
  <1>8. QED
    BY <1>4, <1>5, <1>6, <1>7

LEMMA HeadCoversKept ==
  ASSUME TypeOK, \A c \in Client : HeadCovers(c), [Next]_vars
  PROVE  \A c \in Client : HeadCovers(c)'
  <1>1. ASSUME NEW c \in Client, req'[c] = req[c] PROVE HeadCovers(c)'
    BY <1>1 DEF HeadCovers
  <1>2. ASSUME NEW c \in Client, req'[c].at \notin {"rows", "load"} PROVE HeadCovers(c)'
    BY <1>2 DEF HeadCovers
  <1>3. ASSUME UNCHANGED req PROVE \A c \in Client : HeadCovers(c)'
    BY <1>1, <1>3
  <1>4. ASSUME NEW c \in Client, NEW r, req' = [req EXCEPT ![c] = r], r.at \notin {"rows", "load"}
        PROVE  \A e \in Client : HeadCovers(e)'
    <2>1. req'[c] = r /\ \A e \in Client \ {c} : req'[e] = req[e]
      BY <1>4 DEF TypeOK
    <2>2. QED
      BY <1>1, <1>2, <1>4, <2>1
  <1>5. ASSUME NEW c \in Client, ReadHead(c) PROVE \A e \in Client : HeadCovers(e)'
    <2>1. \A e \in Client \ {c} : req'[e] = req[e]
      BY <1>5 DEF ReadHead, TypeOK
    <2>2. req[c] \in Report
      BY <1>5, ReqAt DEF ReadHead
    <2>3. PICK n \in 0 .. seq :
             IF Refused(req[c], n) THEN req' = [req EXCEPT ![c] = NoReq]
             ELSE req' = [req EXCEPT ![c].at = "rows", ![c].head = n, ![c].inc = inc[req[c].slug]]
      BY <1>5 DEF ReadHead
    <2>4. CASE Refused(req[c], n)
      BY <1>4, <2>3, <2>4 DEF NoReq
    <2>5. CASE ~Refused(req[c], n)
      <3>1. req'[c] = [req[c] EXCEPT !.at = "rows", !.head = n, !.inc = inc[req[c].slug]]
        BY <2>3, <2>5 DEF TypeOK
      <3>2. req'[c].head = n /\ req'[c].since = req[c].since
        BY <2>2, <3>1 DEF Report
      <3>3. req[c].since <= n
        BY <2>2, <2>5 DEF Refused, Report, TypeOK
      <3>4. HeadCovers(c)'
        BY <3>2, <3>3 DEF HeadCovers
      <3>5. QED
        BY <1>1, <2>1, <3>4
    <2>6. QED
      BY <2>4, <2>5
  <1>6. ASSUME NEW c \in Client, ReadRows(c) \/ \E h \in Href : LoadObject(c, h)
        PROVE  \A e \in Client : HeadCovers(e)'
    <2>1. \A e \in Client \ {c} : req'[e] = req[e]
      BY <1>6 DEF ReadRows, LoadObject, TypeOK
    <2>2. req[c] \in Report /\ req[c].at \in {"rows", "load"}
      BY <1>6, ReqAt DEF ReadRows, LoadObject
    <2>3. req'[c].head = req[c].head /\ req'[c].since = req[c].since
      <3>1. CASE ReadRows(c)
        <4>1. \E left, said : req'[c] = [req[c] EXCEPT !.at = "load", !.left = left, !.said = said]
          BY <3>1 DEF ReadRows, TypeOK
        <4>2. QED
          BY <2>2, <4>1 DEF Report
      <3>2. CASE \E h \in Href : LoadObject(c, h)
        <4>1. \E left, said : req'[c] = [req[c] EXCEPT !.left = left, !.said = said]
          <5>1. PICK h \in Href : LoadObject(c, h)
            BY <3>2
          <5>2. req'[c] = [req[c] EXCEPT !.left = @ \ {h}, !.said[h] = Content(req[c].slug, h)]
            BY <5>1 DEF LoadObject, TypeOK
          <5>3. req'[c] = [req[c] EXCEPT !.left = req[c].left \ {h},
                             !.said = [req[c].said EXCEPT ![h] = Content(req[c].slug, h)]]
            BY <2>2, <5>2 DEF Report
          <5>4. QED
            BY <5>3
        <4>2. QED
          BY <2>2, <4>1 DEF Report
      <3>3. QED
        BY <1>6, <3>1, <3>2
    <2>4. QED
      BY <1>1, <2>1, <2>2, <2>3 DEF HeadCovers
  <1>7. ASSUME NEW c \in Client, Drop(c) \/ PutAnswer(c) \/ Deliver(c)
        PROVE  \A e \in Client : HeadCovers(e)'
    BY <1>4, <1>7 DEF Drop, PutAnswer, Deliver, NoReq
  <1>8. ASSUME NEW c \in Client, NEW s \in Slug, BeginReport(c, s)
        PROVE  \A e \in Client : HeadCovers(e)'
    BY <1>4, <1>8 DEF BeginReport
  <1>9. ASSUME NEW c \in Client, NEW s \in Slug, NEW h \in Href,
               NEW pre \in {"none", "match", "absent"},
               (\E d \in Doc : Put(c, s, h, d, pre)) \/ Delete(c, s, h, pre)
        PROVE  \A e \in Client : HeadCovers(e)'
    BY <1>3, <1>4, <1>9 DEF Put, Delete
  <1>10. ASSUME NEW s \in Slug, NEW h \in Href,
                (\E d \in Doc : OtherPut(s, h, d)) \/ MirrorDelete(s, h) \/ FinalizeDelete(s, h)
         PROVE  \A e \in Client : HeadCovers(e)'
    BY <1>3, <1>10 DEF OtherPut, MirrorDelete, FinalizeDelete
  <1>11. ASSUME NEW s \in Slug, MirrorPassEnd(s) \/ CreateCalendar(s) \/ DeleteCalendar(s)
         PROVE  \A e \in Client : HeadCovers(e)'
    BY <1>3, <1>11 DEF MirrorPassEnd, CreateCalendar, DeleteCalendar
  <1>12. ASSUME NEW old \in [Slug -> 0 .. seq], Compact(old)
         PROVE  \A e \in Client : HeadCovers(e)'
    BY <1>3, <1>12 DEF Compact
  <1>13. CASE UNCHANGED vars
    BY <1>3, <1>13 DEF vars
  <1>14. QED
    BY <1>5, <1>6, <1>7, <1>8, <1>9, <1>10, <1>11, <1>12, <1>13 DEF Next

\* The refinement: for any calendars, names, contents and clients, every behaviour of
\* the store is, calendar by calendar, one of the contract.
THEOREM StoreServesContract == Spec => ServesContract
  <1>1. Init => \A s \in Slug : ContractOf(s)!ContractInit
    BY DEF Init, ContractOf!ContractInit, Content, NoObject, NotSeen, Trusts
  <1>2. Init => \A c \in Client : HeadCovers(c)
    BY DEF Init, HeadCovers, NoReq
  <1>3. Spec => [](\A c \in Client : HeadCovers(c))
    <2>1. TypeOK /\ (\A c \in Client : HeadCovers(c)) /\ [Next]_vars
            => (\A c \in Client : HeadCovers(c))'
      BY HeadCoversKept
    <2>2. QED
      BY <1>2, <2>1, TypeCorrect, PTL DEF Spec
  <1>4. ASSUME IInv, IInv', \A c \in Client : HeadCovers(c), Next
        PROVE  \A s \in Slug : Serves(s)
    <2>1. TypeOK /\ TypeOK' /\ StoreInv
      BY <1>4 DEF IInv
    <2>2. ASSUME NEW c \in Client,
                 \/ \E s \in Slug : BeginReport(c, s)
                 \/ ReadHead(c) \/ ReadRows(c) \/ Deliver(c) \/ Drop(c) \/ PutAnswer(c)
                 \/ \E h \in Href : LoadObject(c, h)
          PROVE  \A s \in Slug : Serves(s)
      <3>1. StoreStill
        BY <2>2 DEF BeginReport, ReadHead, ReadRows, Deliver, Drop, PutAnswer, LoadObject,
           StoreStill, storeVars, ghostVars
      <3>2. QED
        BY <1>4, <2>2, <3>1, RequestTells, RequestServes
    <2>3. QED
      BY <1>4, <2>1, <2>2, WriteActionsServe, UpkeepServes DEF Next
  <1>5. ASSUME IInv, IInv', \A c \in Client : HeadCovers(c), [Next]_vars
        PROVE  [\A s \in Slug : [ContractOf(s)!ContractNext]_(ContractOf(s)!contractVars)]_vars
    BY <1>4, <1>5 DEF Serves
  <1>6. QED
    BY <1>1, <1>3, <1>5, Invariance, PTL DEF Spec, ServesContract
=============================================================================
