-------------------------- MODULE SchedulingProofs --------------------------
(***************************************************************************)
(* What Scheduling promises, proved for every number of edits, retries and *)
(* faults: that the messages about a meeting tell its revisions apart, and *)
(* that the attendee ends with the organizer's latest one.                 *)
(*                                                                         *)
(* The invariant has parts that hold whoever writes, and parts that hold  *)
(* until a write without a precondition puts back what was replaced        *)
(* meanwhile (blind). The first:                                           *)
(*   PostInv: the tables hold what they should, and every reference in     *)
(*     transit leads to a message, which no step changes;                  *)
(*   OnceInv: a message is applied once unless its processing broke off;   *)
(*   CopyInv: what the attendee's server holds comes from a request;       *)
(*   PostedRows, PostedWork, HandledInv: mail that was sent is on its way, *)
(*     lost or in the mailbox, and mail that was looked at was carried out.*)
(* The second:                                                             *)
(*   MeetingInv: the organizer's object is at or past every message sent   *)
(*     of it, and announced as it stands when it is in force;              *)
(*   RisingInv: the attendee's copy never falls behind a request it read.  *)
(* Of both, what a worker, watcher or client is about to write is compared *)
(* with the object it read; what it replaces is that object, or the write  *)
(* is blind.                                                               *)
(***************************************************************************)
EXTENDS Scheduling, TLAPS

Opt(S) == {<<>>} \cup {<<x>> : x \in S}

AnyDoc == [seq : Nat, stamp : Nat, when : When,
           status : {"CONFIRMED", "CANCELLED"}, on : BOOLEAN,
           ps : Answer \cup {"NEEDS-ACTION"}, sent : {"", "1.0", "1.1", "5.1"}]

AnyMessage == [method : {"REQUEST", "CANCEL", "REPLY"}, doc : AnyDoc]

AnyRow == [msg : AnyMessage, state : {"pending", "sent", "failed"}, due : BOOLEAN, tries : Nat]

AnyPlan == [doc : Opt(AnyDoc), msgs : Seq(AnyMessage)]

AnyClient == [old : Opt(AnyDoc), plan : AnyPlan, guarded : BOOLEAN]

AnyWork == [row : Nat, at : {"mark", "stamp"}, old : Opt(AnyDoc), doc : Opt(AnyDoc)]

Mail == Side \X (Nat \ {0})

AnyWatch == [ref : Mail, old : Opt(AnyDoc), doc : Opt(AnyDoc)]

TablesOK ==
    /\ obj \in [Side -> Opt(AnyDoc)]
    /\ out \in [Side -> Seq(AnyRow)]
    /\ cursor \in [Side -> Nat]
    /\ seen \in [Side -> SUBSET Nat]
    /\ processed \in [Side -> SUBSET Mail]

ActorsOK ==
    /\ cli \in [Side -> Opt(AnyClient)]
    /\ work \in [Side -> Opt(AnyWork)]
    /\ watch \in [Side -> Opt(AnyWatch)]

WorldOK ==
    /\ wire \subseteq Mail
    /\ box \in [Side -> Seq(Mail)]
    /\ edits \in [Side -> Nat]
    /\ now \in Nat /\ faults \in Nat
    /\ applied \in [Side -> [Ref -> Nat]]
    /\ removed \subseteq Side /\ blind \subseteq Side /\ lost \subseteq Mail

TypeOK == TablesOK /\ ActorsOK /\ WorldOK

------------------------------------------------------------------------------
(* Optional values and documents *)

LEMMA OptOne ==
  ASSUME NEW S, NEW x \in Opt(S), x # <<>>
  PROVE  x[1] \in S /\ x = <<x[1]>> /\ DOMAIN x = {1}
BY DEF Opt

LEMMA OptIn == ASSUME NEW S PROVE <<>> \in Opt(S) /\ \A x \in S : <<x>> \in Opt(S)
BY DEF Opt

LEMMA One == ASSUME NEW x PROVE <<x>> # <<>> /\ <<x>>[1] = x /\ DOMAIN <<x>> = {1} /\ Len(<<x>>) = 1
OBVIOUS

LEMMA Sides == /\ "org" \in Side /\ "att" \in Side
               /\ \A s \in Side : s = "org" \/ s = "att"
               /\ Other("org") = "att" /\ Other("att") = "org"
               /\ \A s \in Side : Other(s) \in Side /\ Other(s) # s
BY DEF Side, Other

Alike(d, e) == d.seq = e.seq /\ d.when = e.when

SameMeeting(d, e) == Alike(d, e) /\ d.status = e.status /\ d.on = e.on

LEMMA FieldsOK ==
  ASSUME NEW d \in AnyDoc
  PROVE  /\ d.seq \in Nat /\ d.stamp \in Nat /\ d.when \in When /\ d.on \in BOOLEAN
         /\ d.status \in {"CONFIRMED", "CANCELLED"}
         /\ d.ps \in Answer \cup {"NEEDS-ACTION"}
BY DEF AnyDoc

LEMMA SetSeq ==
  ASSUME NEW d \in AnyDoc, NEW n \in Nat
  PROVE  /\ [d EXCEPT !.seq = n] \in AnyDoc
         /\ [d EXCEPT !.seq = n].seq = n
         /\ [d EXCEPT !.seq = n].when = d.when
         /\ [d EXCEPT !.seq = n].status = d.status
         /\ [d EXCEPT !.seq = n].on = d.on
BY DEF AnyDoc

LEMMA SetStamp ==
  ASSUME NEW d \in AnyDoc, NEW n \in Nat
  PROVE  [d EXCEPT !.stamp = n] \in AnyDoc /\ SameMeeting([d EXCEPT !.stamp = n], d)
BY DEF AnyDoc, SameMeeting, Alike

LEMMA SetSent ==
  ASSUME NEW d \in AnyDoc, NEW x \in {"", "1.0", "1.1", "5.1"}
  PROVE  [d EXCEPT !.sent = x] \in AnyDoc /\ SameMeeting([d EXCEPT !.sent = x], d)
BY DEF AnyDoc, SameMeeting, Alike

LEMMA SetPs ==
  ASSUME NEW d \in AnyDoc, NEW x \in Answer \cup {"NEEDS-ACTION"}
  PROVE  [d EXCEPT !.ps = x] \in AnyDoc /\ SameMeeting([d EXCEPT !.ps = x], d)
BY DEF AnyDoc, SameMeeting, Alike

LEMMA SetStatus ==
  ASSUME NEW d \in AnyDoc, NEW x \in {"CONFIRMED", "CANCELLED"}
  PROVE  /\ [d EXCEPT !.status = x] \in AnyDoc
         /\ Alike([d EXCEPT !.status = x], d)
         /\ [d EXCEPT !.status = x].status = x
         /\ [d EXCEPT !.status = x].on = d.on
BY DEF AnyDoc, Alike

LEMMA SetWhen ==
  ASSUME NEW d \in AnyDoc, NEW w \in When
  PROVE  [d EXCEPT !.when = w] \in AnyDoc
BY DEF AnyDoc

LEMMA SetOn ==
  ASSUME NEW d \in AnyDoc, NEW b \in BOOLEAN
  PROVE  [d EXCEPT !.on = b] \in AnyDoc
BY DEF AnyDoc

------------------------------------------------------------------------------
(* What the broker makes *)

\* BuildRequest, BuildCancel and BuildReply make messages of their method about the
\* revision they are given.
LEMMA RequestMade ==
  ASSUME NEW d \in AnyDoc, NEW n \in Nat, NEW t \in Nat
  PROVE  /\ BuildRequest(d, n, t) \in AnyMessage /\ BuildRequest(d, n, t).method = "REQUEST"
         /\ BuildRequest(d, n, t).doc.seq = n /\ BuildRequest(d, n, t).doc.when = d.when
<1> DEFINE a == [d EXCEPT !.seq = n]
           b == [a EXCEPT !.stamp = t]
           c == [b EXCEPT !.sent = ""]
<1>1. BuildRequest(d, n, t) = [method |-> "REQUEST", doc |-> c]
  BY DEF BuildRequest
<1>2. a \in AnyDoc /\ a.seq = n /\ a.when = d.when
  BY SetSeq
<1> HIDE DEF a
<1>3. b \in AnyDoc /\ SameMeeting(b, a)
  BY <1>2, SetStamp
<1> HIDE DEF b
<1>4. c \in AnyDoc /\ SameMeeting(c, b)
  BY <1>3, SetSent
<1> HIDE DEF c
<1> QED
  BY <1>1, <1>2, <1>3, <1>4 DEF AnyMessage, SameMeeting, Alike

LEMMA CancelMade ==
  ASSUME NEW d \in AnyDoc, NEW n \in Nat, NEW t \in Nat
  PROVE  /\ BuildCancel(d, n, t) \in AnyMessage /\ BuildCancel(d, n, t).method = "CANCEL"
         /\ BuildCancel(d, n, t).doc.seq = n
<1> DEFINE a == [d EXCEPT !.seq = n]
           b == [a EXCEPT !.stamp = t]
           c == [b EXCEPT !.status = "CANCELLED"]
           e == [c EXCEPT !.sent = ""]
<1>1. BuildCancel(d, n, t) = [method |-> "CANCEL", doc |-> e]
  BY DEF BuildCancel
<1>2. a \in AnyDoc /\ a.seq = n
  BY SetSeq
<1> HIDE DEF a
<1>3. b \in AnyDoc /\ SameMeeting(b, a)
  BY <1>2, SetStamp
<1> HIDE DEF b
<1>4. c \in AnyDoc /\ Alike(c, b)
  BY <1>3, SetStatus
<1> HIDE DEF c
<1>5. e \in AnyDoc /\ SameMeeting(e, c)
  BY <1>4, SetSent
<1> HIDE DEF e
<1> QED
  BY <1>1, <1>2, <1>3, <1>4, <1>5 DEF AnyMessage, SameMeeting, Alike

LEMMA ReplyMade ==
  ASSUME NEW d \in AnyDoc, NEW p \in Answer, NEW t \in Nat
  PROVE  BuildReply(d, p, t) \in AnyMessage /\ BuildReply(d, p, t).method = "REPLY"
<1>1. [d EXCEPT !.stamp = t, !.ps = p, !.sent = ""]
        = [[[d EXCEPT !.stamp = t] EXCEPT !.ps = p] EXCEPT !.sent = ""]
  OBVIOUS
<1> QED
  BY <1>1, SetPs, SetStamp, SetSent DEF BuildReply, AnyMessage

Methods(s) == IF s = "org" THEN {"REQUEST", "CANCEL"} ELSE {"REPLY"}

\* The messages of a plan are of the methods its side sends.
Sends(s, plan) == \A i \in DOMAIN plan.msgs : plan.msgs[i].method \in Methods(s)

\* What a plan of the organizer's keeps: the object is at or past every message about it and at
\* or past what it was, it moves to another time only with its SEQUENCE, and a meeting in force
\* was announced, now or as it was.
PlanKeeps(old, plan) ==
    /\ plan.doc # <<>> =>
         \A i \in DOMAIN plan.msgs : plan.msgs[i].doc.seq <= plan.doc[1].seq
    /\ \A i \in DOMAIN plan.msgs : plan.msgs[i].method = "REQUEST" =>
         plan.doc # <<>> /\ Alike(plan.msgs[i].doc, plan.doc[1])
    /\ plan.doc # <<>> /\ old # <<>> =>
         /\ old[1].seq <= plan.doc[1].seq
         /\ old[1].seq = plan.doc[1].seq => old[1].when = plan.doc[1].when
    /\ plan.doc # <<>> /\ plan.doc[1].on /\ ~IsCancelled(plan.doc[1]) =>
         \/ \E i \in DOMAIN plan.msgs : plan.msgs[i].method = "REQUEST"
         \/ old # <<>> /\ SameMeeting(old[1], plan.doc[1])

PlanOK(s, old, plan) == plan \in AnyPlan /\ Sends(s, plan) /\ (s = "org" => PlanKeeps(old, plan))

LEMMA PlanOfOne ==
  ASSUME NEW d, NEW m
  PROVE  /\ [doc |-> d, msgs |-> <<m>>].doc = d
         /\ [doc |-> d, msgs |-> <<m>>].msgs = <<m>>
         /\ \A i \in DOMAIN <<m>> : <<m>>[i] = m
         /\ [doc |-> d, msgs |-> <<>>].doc = d
         /\ [doc |-> d, msgs |-> <<>>].msgs = <<>>
         /\ DOMAIN <<>> = {}
         /\ m \in AnyMessage => <<m>> \in Seq(AnyMessage)
         /\ <<>> \in Seq(AnyMessage)
OBVIOUS

\* A plan that stores a document and sends one message about it.
LEMMA PlanOfRequest ==
  ASSUME NEW d \in AnyDoc, NEW m \in AnyMessage, NEW old \in Opt(AnyDoc),
         m.method = "REQUEST", m.doc.seq = d.seq, m.doc.when = d.when,
         old # <<>> => old[1].seq <= d.seq /\ (old[1].seq = d.seq => old[1].when = d.when)
  PROVE  PlanOK("org", old, [doc |-> <<d>>, msgs |-> <<m>>])
<1> DEFINE p == [doc |-> <<d>>, msgs |-> <<m>>]
<1>1. p.doc = <<d>> /\ p.doc[1] = d /\ p.doc # <<>> /\ p.msgs = <<m>> /\ DOMAIN p.msgs = {1} /\ p.msgs[1] = m
  BY One
<1>2. p \in AnyPlan
  BY OptIn, PlanOfOne DEF AnyPlan
<1>3. m.doc.seq <= d.seq
  BY FieldsOK
<1> HIDE DEF p
<1>4. Sends("org", p)
  BY <1>1 DEF Sends, Methods
<1>5. \E i \in DOMAIN p.msgs : p.msgs[i].method = "REQUEST"
  BY <1>1
<1>6. PlanKeeps(old, p)
  BY <1>1, <1>3, <1>5 DEF PlanKeeps, Alike
<1> QED
  BY <1>2, <1>4, <1>6 DEF PlanOK, p

LEMMA OrganizerDeletesOK ==
  ASSUME NEW old \in AnyDoc, NEW t \in Nat
  PROVE  PlanOK("org", <<old>>, OrganizerDeletes(old, t))
<1>1. old.seq + 1 \in Nat
  BY FieldsOK
<1>2. BuildCancel(old, old.seq + 1, t) \in AnyMessage /\ BuildCancel(old, old.seq + 1, t).method = "CANCEL"
  BY <1>1, CancelMade
<1> DEFINE m == BuildCancel(old, old.seq + 1, t)
<1> HIDE DEF m
<1>3. OrganizerDeletes(old, t) \in {[doc |-> <<>>, msgs |-> <<m>>], [doc |-> <<>>, msgs |-> <<>>]}
  BY DEF OrganizerDeletes, m
<1>4. m \in AnyMessage /\ m.method = "CANCEL"
  BY <1>2 DEF m
<1>5. CASE OrganizerDeletes(old, t) = [doc |-> <<>>, msgs |-> <<m>>]
  BY <1>5, <1>4, OptIn, PlanOfOne DEF PlanOK, AnyPlan, Sends, Methods, PlanKeeps
<1>6. CASE OrganizerDeletes(old, t) = [doc |-> <<>>, msgs |-> <<>>]
  BY <1>6, OptIn, PlanOfOne DEF PlanOK, AnyPlan, Sends, Methods, PlanKeeps
<1> QED
  BY <1>3, <1>5, <1>6

LEMMA OrganizerCreatesOK ==
  ASSUME NEW new \in AnyDoc, NEW t \in Nat
  PROVE  PlanOK("org", <<>>, OrganizerCreates(new, t))
<1>1. CASE IsCancelled(new) \/ Recipients(new) = {}
  <2>1. OrganizerCreates(new, t) = [doc |-> <<new>>, msgs |-> <<>>]
    BY <1>1 DEF OrganizerCreates, Nothing
  <2>2. IsCancelled(new) \/ ~new.on
    BY <1>1 DEF Recipients
  <2> QED
    BY <2>1, <2>2, OptIn, One, PlanOfOne DEF PlanOK, AnyPlan, Sends, Methods, PlanKeeps
<1>2. CASE ~(IsCancelled(new) \/ Recipients(new) = {})
  <2> DEFINE d == [new EXCEPT !.sent = "1.0"]
             m == BuildRequest(new, new.seq, t)
  <2>1. OrganizerCreates(new, t) = [doc |-> <<d>>, msgs |-> <<m>>]
    BY <1>2 DEF OrganizerCreates
  <2>2. d \in AnyDoc /\ SameMeeting(d, new)
    BY SetSent
  <2>3. m \in AnyMessage /\ m.method = "REQUEST" /\ m.doc.seq = new.seq /\ m.doc.when = new.when
    BY RequestMade, FieldsOK
  <2> HIDE DEF d, m
  <2> QED
    BY <2>1, <2>2, <2>3, OptIn, PlanOfRequest DEF SameMeeting, Alike
<1> QED
  BY <1>1, <1>2

\* The cases of an update: a cancellation, an invitation, or nothing to tell.
LEMMA OrganizerUpdatesOK ==
  ASSUME NEW old \in AnyDoc, NEW new \in AnyDoc, NEW t \in Nat, old.seq <= new.seq
  PROVE  PlanOK("org", <<old>>, OrganizerUpdates(old, new, t))
<1> DEFINE seq     == IF NeedsBump(old, new) THEN old.seq + 1 ELSE new.seq
           stored  == [new EXCEPT !.seq = seq]
           became  == IsCancelled(new) /\ ~IsCancelled(old)
           gone    == Recipients(old) # {} /\ (became \/ Recipients(new) = {})
           invited == ~became /\ Recipients(new) # {}
                      /\ (Recipients(old) = {} \/ IsSignificantChange(old, new) \/ new.seq > old.seq)
           cancel  == BuildCancel(IF became THEN new ELSE old, IF seq > old.seq THEN seq ELSE old.seq, t)
           request == BuildRequest(new, seq, t)
           told    == [stored EXCEPT !.sent = "1.0"]
<1>1. /\ seq \in Nat /\ old.seq <= seq
      /\ seq = old.seq => old.when = new.when /\ old.status = new.status /\ new.seq = old.seq
      /\ (IF seq > old.seq THEN seq ELSE old.seq) = seq
  BY FieldsOK DEF NeedsBump, IsSignificantChange
<1>2. old.seq \in Nat
  BY FieldsOK
<1>3. OrganizerUpdates(old, new, t) =
        [doc |-> <<[stored EXCEPT !.sent = IF invited THEN "1.0" ELSE @]>>,
         msgs |-> IF gone THEN <<cancel>> ELSE IF invited THEN <<request>> ELSE <<>>]
  BY DEF OrganizerUpdates
<1>4. /\ Recipients(old) = {} <=> ~old.on
      /\ Recipients(new) = {} <=> ~new.on
  BY DEF Recipients
<1>5. new.seq > old.seq => seq # old.seq
  BY FieldsOK DEF NeedsBump
<1> HIDE DEF seq
<1>6. /\ stored \in AnyDoc /\ stored.seq = seq /\ stored.when = new.when
      /\ stored.status = new.status /\ stored.on = new.on
  BY <1>1, SetSeq
<1>7. cancel \in AnyMessage /\ cancel.method = "CANCEL" /\ cancel.doc.seq = seq
  BY <1>1, CancelMade
<1>8. request \in AnyMessage /\ request.method = "REQUEST" /\ request.doc.seq = seq /\ request.doc.when = new.when
  BY <1>1, RequestMade
<1> HIDE DEF stored, cancel, request
<1>9. told \in AnyDoc /\ SameMeeting(told, stored)
  BY <1>6, SetSent
<1>10. [stored EXCEPT !.sent = IF invited THEN "1.0" ELSE @] = IF invited THEN told ELSE stored
  BY <1>6 DEF AnyDoc
<1>11. invited => ~gone
  BY <1>4
<1>12. <<old>> # <<>> /\ <<old>>[1] = old /\ <<old>> \in Opt(AnyDoc)
  BY One, OptIn
<1>13. CASE invited
  <2>1. OrganizerUpdates(old, new, t) = [doc |-> <<told>>, msgs |-> <<request>>]
    BY <1>3, <1>10, <1>11, <1>13
  <2> HIDE DEF told, invited, gone
  <2>2. told.seq = seq /\ told.when = new.when
    BY <1>6, <1>9 DEF SameMeeting, Alike
  <2>3. <<old>>[1].seq <= told.seq /\ (<<old>>[1].seq = told.seq => <<old>>[1].when = told.when)
    BY <2>2, <1>1, <1>12
  <2> QED
    BY <2>1, <2>2, <2>3, <1>8, <1>9, <1>12, PlanOfRequest
<1>14. CASE ~invited
  <2> DEFINE p == OrganizerUpdates(old, new, t)
  <2>1. /\ p.doc = <<stored>> /\ p.doc # <<>> /\ p.doc[1] = stored
        /\ p.msgs = IF gone THEN <<cancel>> ELSE <<>>
        /\ p = [doc |-> p.doc, msgs |-> p.msgs]
    BY <1>3, <1>10, <1>14, One
  <2>2. \A i \in DOMAIN p.msgs : p.msgs[i] = cancel
    BY <2>1, PlanOfOne
  <2>3. p \in AnyPlan
    <3>1. <<stored>> \in Opt(AnyDoc) /\ (IF gone THEN <<cancel>> ELSE <<>>) \in Seq(AnyMessage)
      BY <1>6, <1>7, OptIn, PlanOfOne
    <3> HIDE DEF gone, p
    <3> QED
      BY <2>1, <3>1 DEF AnyPlan
  <2>4. stored.on /\ ~IsCancelled(stored) => SameMeeting(old, stored)
    <3>1. stored.on /\ ~IsCancelled(stored) => new.on /\ ~IsCancelled(new)
      BY <1>6 DEF IsCancelled
    <3>2. new.on /\ ~IsCancelled(new) => old.on /\ ~IsSignificantChange(old, new) /\ ~(new.seq > old.seq)
      BY <1>4, <1>14
    <3>3. ~(new.seq > old.seq) => new.seq = old.seq
      BY FieldsOK
    <3>4. ~IsSignificantChange(old, new) => old.when = new.when /\ old.status = new.status /\ seq = new.seq
      BY DEF IsSignificantChange, NeedsBump, seq
    <3> QED
      BY <3>1, <3>2, <3>3, <3>4, <1>6, FieldsOK DEF SameMeeting, Alike
  <2> HIDE DEF p, invited, gone
  <2>5. Sends("org", p)
    BY <2>2, <1>7 DEF Sends, Methods
  <2>6. \A i \in DOMAIN p.msgs : p.msgs[i].doc.seq <= p.doc[1].seq /\ p.msgs[i].method # "REQUEST"
    BY <2>1, <2>2, <1>1, <1>6, <1>7
  <2>7. old.seq <= stored.seq /\ (old.seq = stored.seq => old.when = stored.when)
    BY <1>1, <1>6
  <2>8. PlanKeeps(<<old>>, p)
    BY <2>1, <2>4, <2>6, <2>7, <1>12 DEF PlanKeeps
  <2> QED
    BY <2>3, <2>5, <2>8 DEF PlanOK, p
<1> QED
  BY <1>13, <1>14

LEMMA AttendeeDeletesOK ==
  ASSUME NEW old \in AnyDoc, NEW t \in Nat
  PROVE  PlanOK("att", <<old>>, AttendeeDeletes(old, t)) /\ AttendeeDeletes(old, t).doc = <<>>
<1> DEFINE m == BuildReply(old, "DECLINED", t)
<1>1. AttendeeDeletes(old, t) \in {[doc |-> <<>>, msgs |-> <<m>>], [doc |-> <<>>, msgs |-> <<>>]}
  BY DEF AttendeeDeletes
<1>2. m \in AnyMessage /\ m.method = "REPLY"
  BY ReplyMade DEF Answer
<1> HIDE DEF m
<1>3. CASE AttendeeDeletes(old, t) = [doc |-> <<>>, msgs |-> <<m>>]
  BY <1>3, <1>2, OptIn, PlanOfOne DEF PlanOK, AnyPlan, Sends, Methods
<1>4. CASE AttendeeDeletes(old, t) = [doc |-> <<>>, msgs |-> <<>>]
  BY <1>4, OptIn, PlanOfOne DEF PlanOK, AnyPlan, Sends, Methods
<1> QED
  BY <1>1, <1>3, <1>4

LEMMA AttendeeUpdatesOK ==
  ASSUME NEW old \in AnyDoc, NEW new \in AnyDoc, NEW t \in Nat, NEW x
  PROVE  /\ PlanOK("att", x, AttendeeUpdates(old, new, t))
         /\ \E d \in AnyDoc : AttendeeUpdates(old, new, t).doc = <<d>> /\ SameMeeting(d, new)
<1>1. CASE new.ps \in Answer /\ new.ps # old.ps
  <2> DEFINE d == [new EXCEPT !.sent = "1.0"]
             m == BuildReply(new, new.ps, t)
  <2>1. AttendeeUpdates(old, new, t) = [doc |-> <<d>>, msgs |-> <<m>>]
    BY <1>1 DEF AttendeeUpdates
  <2>2. d \in AnyDoc /\ SameMeeting(d, new)
    BY SetSent
  <2>3. m \in AnyMessage /\ m.method = "REPLY"
    BY <1>1, ReplyMade
  <2> HIDE DEF d, m
  <2>4. PlanOK("att", x, [doc |-> <<d>>, msgs |-> <<m>>])
    BY <2>2, <2>3, OptIn, PlanOfOne DEF PlanOK, AnyPlan, Sends, Methods
  <2> QED
    BY <2>1, <2>2, <2>4, PlanOfOne
<1>2. CASE ~(new.ps \in Answer /\ new.ps # old.ps)
  <2>1. AttendeeUpdates(old, new, t) = [doc |-> <<new>>, msgs |-> <<>>]
    BY <1>2 DEF AttendeeUpdates, Nothing
  <2>2. SameMeeting(new, new)
    BY DEF SameMeeting, Alike
  <2> QED
    BY <2>1, <2>2, OptIn, PlanOfOne DEF PlanOK, AnyPlan, Sends, Methods
<1> QED
  BY <1>1, <1>2

------------------------------------------------------------------------------
(* What a client writes, and what is planned for it *)

LEMMA OrganizerWritesOK ==
  ASSUME NEW d \in AnyDoc, NEW new \in OrganizerWrites(d), new # <<>>
  PROVE  new[1] \in AnyDoc /\ new = <<new[1]>> /\ d.seq <= new[1].seq
<1> DEFINE moved   == {[d EXCEPT !.when = w] : w \in When}
           invited == {[d EXCEPT !.on = ~d.on, !.ps = "NEEDS-ACTION", !.sent = ""]}
           called  == {[d EXCEPT !.status = c] : c \in {"CONFIRMED", "CANCELLED"}}
           changed == moved \cup invited \cup called
<1>1. OrganizerWrites(d) = {<<>>} \cup {<<WithSequence(e, n)>> : e \in changed, n \in {d.seq, d.seq + 1}}
  BY DEF OrganizerWrites
<1>2. moved \subseteq AnyDoc
  BY SetWhen
<1>3. called \subseteq AnyDoc
  BY SetStatus
<1>4. invited \subseteq AnyDoc
  BY DEF AnyDoc
<1>5. changed \subseteq AnyDoc
  BY <1>2, <1>3, <1>4
<1> HIDE DEF changed
<1>6. PICK e \in changed, n \in {d.seq, d.seq + 1} : new = <<WithSequence(e, n)>>
  BY <1>1
<1>7. e \in AnyDoc /\ n \in Nat /\ d.seq <= n
  BY <1>5, <1>6, FieldsOK
<1> QED
  BY <1>6, <1>7, SetSeq DEF WithSequence

LEMMA AttendeeWritesOK ==
  ASSUME NEW d \in AnyDoc, NEW t \in Nat, NEW new \in AttendeeWrites(d, t), new # <<>>
  PROVE  new[1] \in AnyDoc /\ new = <<new[1]>> /\ SameMeeting(new[1], d)
<1>1. PICK p \in Answer, u \in {d.stamp, t} : new = <<WithAnswer(d, p, u)>>
  BY DEF AttendeeWrites
<1> DEFINE a == [d EXCEPT !.ps = p]
           b == [a EXCEPT !.stamp = u]
<1>2. new = <<b>>
  BY <1>1 DEF WithAnswer
<1>3. a \in AnyDoc /\ SameMeeting(a, d)
  BY SetPs
<1> HIDE DEF a
<1>4. b \in AnyDoc /\ SameMeeting(b, a)
  BY <1>3, FieldsOK, SetStamp
<1> HIDE DEF b
<1> QED
  BY <1>2, <1>3, <1>4 DEF SameMeeting, Alike

LEMMA FreshOK ==
  ASSUME NEW t \in Nat
  PROVE  Fresh(t) \subseteq AnyDoc
<1> SUFFICES ASSUME NEW w \in When
             PROVE  [seq |-> 0, stamp |-> t, when |-> w, status |-> "CONFIRMED", on |-> TRUE,
                     ps |-> "NEEDS-ACTION", sent |-> ""] \in AnyDoc
  BY DEF Fresh
<1> QED
  BY DEF AnyDoc

\* Every plan is one of these three lemmas'.
LEMMA BrokerPlans ==
  ASSUME NEW s \in Side, NEW t \in Nat, obj \in [Side -> Opt(AnyDoc)], NEW new \in ClientWrites(s, t)
  PROVE  LET plan == Broker(s, obj[s], new, t)
         IN  /\ PlanOK(s, obj[s], plan)
             /\ obj[s] = <<>> => s = "org" /\ edits[s] = 0
             /\ s = "att" /\ plan.doc # <<>> => obj[s] # <<>> /\ SameMeeting(plan.doc[1], obj[s][1])
<1> DEFINE old  == obj[s][1]
           plan == Broker(s, obj[s], new, t)
<1>1. obj[s] \in Opt(AnyDoc)
  OBVIOUS
<1>2. CASE obj[s] = <<>>
  <2>1. s = "org" /\ edits[s] = 0
    BY <1>2 DEF ClientWrites
  <2>2. PICK d \in AnyDoc : new = <<d>>
    BY <1>2, <2>1, FreshOK DEF ClientWrites
  <2>3. plan = OrganizerCreates(d, t)
    BY <1>2, <2>1, <2>2, One DEF Broker
  <2> QED
    BY <1>2, <2>1, <2>3, OrganizerCreatesOK
<1>3. CASE obj[s] # <<>> /\ s = "org"
  <2>1. old \in AnyDoc /\ obj[s] = <<old>>
    BY <1>1, <1>3, OptOne
  <2>2. new \in OrganizerWrites(old)
    BY <1>3 DEF ClientWrites
  <2>3. CASE new = <<>>
    <3>1. plan = OrganizerDeletes(old, t)
      BY <1>3, <2>3 DEF Broker
    <3> QED
      BY <1>3, <2>1, <3>1, OrganizerDeletesOK
  <2>4. CASE new # <<>>
    <3>1. new[1] \in AnyDoc /\ old.seq <= new[1].seq
      BY <2>1, <2>2, <2>4, OrganizerWritesOK
    <3>2. plan = OrganizerUpdates(old, new[1], t)
      BY <1>3, <2>4 DEF Broker
    <3> HIDE DEF plan
    <3>3. PlanOK(s, obj[s], plan)
      BY <1>3, <2>1, <3>1, <3>2, OrganizerUpdatesOK
    <3> QED
      BY <1>3, <3>3 DEF plan
  <2> QED
    BY <2>3, <2>4
<1>4. CASE obj[s] # <<>> /\ s = "att"
  <2>1. old \in AnyDoc /\ obj[s] = <<old>>
    BY <1>1, <1>4, OptOne
  <2>2. new \in AttendeeWrites(old, t)
    BY <1>4 DEF ClientWrites
  <2>3. CASE new = <<>>
    <3>1. plan = AttendeeDeletes(old, t)
      BY <1>4, <2>3 DEF Broker
    <3> QED
      BY <1>4, <2>1, <3>1, AttendeeDeletesOK
  <2>4. CASE new # <<>>
    <3>1. new[1] \in AnyDoc /\ SameMeeting(new[1], old)
      BY <2>1, <2>2, <2>4, AttendeeWritesOK
    <3>2. plan = AttendeeUpdates(old, new[1], t)
      BY <1>4, <2>4 DEF Broker
    <3> HIDE DEF plan
    <3>3. PlanOK(s, obj[s], plan)
      BY <1>4, <2>1, <3>1, <3>2, AttendeeUpdatesOK
    <3>4. PICK d \in AnyDoc : plan.doc = <<d>> /\ SameMeeting(d, new[1])
      BY <2>1, <3>1, <3>2, AttendeeUpdatesOK
    <3>5. plan.doc[1] = d /\ SameMeeting(plan.doc[1], old)
      BY <3>1, <3>4, One DEF SameMeeting, Alike
    <3> QED
      BY <1>4, <3>3, <3>5 DEF plan
  <2> QED
    BY <2>3, <2>4
<1> QED
  BY <1>2, <1>3, <1>4, Sides

------------------------------------------------------------------------------
(* What a received message does *)

LEMMA RequestTaken ==
  ASSUME NEW stored \in Opt(AnyDoc), NEW in \in AnyDoc
  PROVE  LET d == ApplyRequest(stored, in)
         IN  /\ d \in Opt(AnyDoc)
             /\ d # <<>> => SameMeeting(d[1], in)
             /\ d # <<>> /\ stored # <<>> => stored[1].seq <= d[1].seq
             /\ d = <<>> => stored # <<>> /\ in.seq <= stored[1].seq
<1> DEFINE old  == stored[1]
           keep == IF old.ps \in Answer THEN [in EXCEPT !.ps = old.ps] ELSE in
           d    == ApplyRequest(stored, in)
<1>1. SameMeeting(in, in)
  BY DEF SameMeeting, Alike
<1>2. keep \in AnyDoc /\ SameMeeting(keep, in)
  BY <1>1, SetPs
<1>3. CASE stored = <<>>
  <2>1. d = <<in>>
    BY <1>3 DEF ApplyRequest
  <2> QED
    BY <1>1, <1>3, <2>1, One, OptIn
<1>4. CASE stored # <<>>
  <2>1. old \in AnyDoc /\ old.seq \in Nat /\ in.seq \in Nat
    BY <1>4, OptOne, FieldsOK
  <2>2. CASE in.seq > old.seq
    <3>1. d = <<in>>
      BY <1>4, <2>1, <2>2 DEF ApplyRequest
    <3> QED
      BY <1>1, <1>4, <2>1, <2>2, <3>1, One, OptIn
  <2>3. CASE in.seq < old.seq
    <3>1. d = <<>>
      BY <1>4, <2>1, <2>3 DEF ApplyRequest
    <3> QED
      BY <1>4, <2>1, <2>3, <3>1, OptIn
  <2>4. CASE in.seq = old.seq
    <3>1. d = IF in.stamp > old.stamp THEN <<keep>> ELSE <<>>
      BY <1>4, <2>1, <2>4 DEF ApplyRequest
    <3> HIDE DEF keep, d
    <3>2. d \in {<<keep>>, <<>>}
      BY <3>1
    <3>3. CASE d = <<keep>>
      <4>1. d[1] = keep /\ d # <<>> /\ d \in Opt(AnyDoc) /\ keep.seq = in.seq
        BY <1>2, <3>3, One, OptIn DEF SameMeeting, Alike
      <4> QED
        BY <1>2, <2>1, <2>4, <4>1 DEF d
    <3>4. CASE d = <<>>
      BY <1>4, <2>1, <2>4, <3>4, OptIn DEF d
    <3> QED
      BY <3>2, <3>3, <3>4
  <2> QED
    BY <2>1, <2>2, <2>3, <2>4
<1> QED
  BY <1>3, <1>4

LEMMA CancelTaken ==
  ASSUME NEW stored \in Opt(AnyDoc), NEW in \in AnyDoc, NEW t \in Nat
  PROVE  LET d == ApplyCancel(stored, in, t)
         IN  /\ d \in Opt(AnyDoc)
             /\ d # <<>> => /\ stored # <<>> /\ stored[1].seq <= d[1].seq
                            /\ d[1].seq = in.seq /\ IsCancelled(d[1])
<1> DEFINE old == stored[1]
           a == [old EXCEPT !.status = "CANCELLED"]
           b == [a EXCEPT !.seq = in.seq]
           d == ApplyCancel(stored, in, t)
<1>1. CASE stored = <<>> \/ in.seq < old.seq
  BY <1>1, OptIn DEF ApplyCancel
<1>2. CASE stored # <<>> /\ ~(in.seq < old.seq)
  <2>1. old \in AnyDoc /\ old.seq \in Nat /\ in.seq \in Nat
    BY <1>2, OptOne, FieldsOK
  <2>2. d = <<[b EXCEPT !.stamp = t]>>
    BY <1>2 DEF ApplyCancel, Touch
  <2>3. a \in AnyDoc /\ a.status = "CANCELLED"
    BY <2>1, SetStatus
  <2> HIDE DEF a
  <2>4. b \in AnyDoc /\ b.seq = in.seq /\ b.status = a.status
    BY <2>1, <2>3, SetSeq
  <2> HIDE DEF b
  <2>5. [b EXCEPT !.stamp = t] \in AnyDoc /\ SameMeeting([b EXCEPT !.stamp = t], b)
    BY <2>4, SetStamp
  <2>6. d # <<>> /\ d \in Opt(AnyDoc) /\ d[1] = [b EXCEPT !.stamp = t]
    BY <2>2, <2>5, One, OptIn
  <2> HIDE DEF d
  <2>7. d[1].seq = in.seq /\ d[1].status = "CANCELLED"
    BY <2>3, <2>4, <2>5, <2>6 DEF SameMeeting, Alike
  <2> QED
    BY <1>2, <2>1, <2>6, <2>7 DEF IsCancelled, d
<1> QED
  BY <1>1, <1>2

LEMMA ReplyTaken ==
  ASSUME NEW stored \in Opt(AnyDoc), NEW in \in AnyDoc, NEW t \in Nat
  PROVE  LET d == ApplyReply(stored, in, t)
         IN  /\ d \in Opt(AnyDoc)
             /\ d # <<>> => stored # <<>> /\ SameMeeting(d[1], stored[1])
<1> DEFINE old == stored[1]
           a == [old EXCEPT !.ps = in.ps]
           b == [a EXCEPT !.stamp = t]
           d == ApplyReply(stored, in, t)
<1>1. CASE d = <<>>
  BY <1>1, OptIn
<1>2. CASE d # <<>>
  <2>1. stored # <<>> /\ d = <<b>>
    BY <1>2 DEF ApplyReply, Touch
  <2>2. old \in AnyDoc
    BY <2>1, OptOne
  <2>3. a \in AnyDoc /\ SameMeeting(a, old)
    BY <2>2, FieldsOK, SetPs
  <2> HIDE DEF a
  <2>4. b \in AnyDoc /\ SameMeeting(b, a)
    BY <2>3, SetStamp
  <2> HIDE DEF b
  <2>5. SameMeeting(b, old)
    BY <2>3, <2>4 DEF SameMeeting, Alike
  <2> QED
    BY <2>1, <2>4, <2>5, One, OptIn
<1> QED
  BY <1>1, <1>2

------------------------------------------------------------------------------
(* The mail: every reference leads to a message, and messages do not change *)

Known(r) == r[2] \in DOMAIN out[r[1]]

RowsByMethod == \A s \in Side : \A i \in DOMAIN out[s] : out[s][i].msg.method \in Methods(s)

PlansByMethod == \A s \in Side : cli[s] # <<>> => Sends(s, cli[s][1].plan)

WireKnown == \A r \in wire : Known(r)

BoxKnown == \A s \in Side : \A u \in DOMAIN box[s] : Known(box[s][u]) /\ box[s][u][1] = Other(s)

\* The message the watcher is at is the one past its cursor; the worker is at a row.
WatchAt == \A s \in Side : watch[s] # <<>> => cursor[s] < Len(box[s]) /\ box[s][At(s)] = watch[s][1].ref

WorkAt == \A s \in Side : work[s] # <<>> => work[s][1].row \in DOMAIN out[s]

SeenThere == \A s \in Side : cursor[s] <= Len(box[s]) /\ seen[s] \subseteq DOMAIN box[s]

PostInv == /\ TypeOK
           /\ RowsByMethod /\ PlansByMethod
           /\ WireKnown /\ BoxKnown /\ WatchAt /\ WorkAt /\ SeenThere

\* What no step does: drop a row, or change its message.
MailKept ==
    \A s \in Side : \A i \in DOMAIN out[s] : i \in DOMAIN out'[s] /\ out'[s][i].msg = out[s][i].msg

LEMMA KnownKept ==
  ASSUME MailKept, NEW r \in Mail, Known(r)
  PROVE  Known(r)' /\ MessageOf(r)' = MessageOf(r)
BY DEF MailKept, Known, MessageOf, Mail

LEMMA RowFields ==
  ASSUME NEW r \in AnyRow
  PROVE  r.msg \in AnyMessage /\ r.tries \in Nat /\ r.due \in BOOLEAN
BY DEF AnyRow

LEMMA SetState ==
  ASSUME NEW r \in AnyRow, NEW x \in {"pending", "sent", "failed"}
  PROVE  [r EXCEPT !.state = x] \in AnyRow /\ [r EXCEPT !.state = x].msg = r.msg
         /\ [r EXCEPT !.state = x].state = x
BY DEF AnyRow

LEMMA SetDue ==
  ASSUME NEW r \in AnyRow, NEW b \in BOOLEAN
  PROVE  [r EXCEPT !.due = b] \in AnyRow /\ [r EXCEPT !.due = b].msg = r.msg
         /\ [r EXCEPT !.due = b].state = r.state
BY DEF AnyRow

LEMMA SetTries ==
  ASSUME NEW r \in AnyRow, NEW n \in Nat
  PROVE  [r EXCEPT !.tries = n] \in AnyRow /\ [r EXCEPT !.tries = n].msg = r.msg
         /\ [r EXCEPT !.tries = n].state = r.state
BY DEF AnyRow

\* A row is given another state, or other times to try.
LEMMA RowChanged ==
  ASSUME NEW s \in Side, NEW i \in DOMAIN out[s], NEW row \in AnyRow,
         out \in [Side -> Seq(AnyRow)], row.msg = out[s][i].msg,
         out' = [out EXCEPT ![s] = [@ EXCEPT ![i] = row]]
  PROVE  /\ out' \in [Side -> Seq(AnyRow)]
         /\ \A t \in Side : DOMAIN out'[t] = DOMAIN out[t]
         /\ \A t \in Side : \A j \in DOMAIN out[t] : out'[t][j].msg = out[t][j].msg
         /\ MailKept
<1>1. out[s] \in Seq(AnyRow)
  OBVIOUS
<1>2. [out[s] EXCEPT ![i] = row] \in Seq(AnyRow)
  BY <1>1
<1>3. \A t \in Side : out'[t] = IF t = s THEN [out[s] EXCEPT ![i] = row] ELSE out[t]
  OBVIOUS
<1>4. out' \in [Side -> Seq(AnyRow)]
  BY <1>2
<1>5. \A t \in Side : DOMAIN out'[t] = DOMAIN out[t]
  BY <1>3
<1>6. \A t \in Side : \A j \in DOMAIN out[t] : out'[t][j].msg = out[t][j].msg
  BY <1>1, <1>3
<1> QED
  BY <1>4, <1>5, <1>6 DEF MailKept

LEMMA Joined ==
  ASSUME NEW S, NEW a \in Seq(S), NEW b \in Seq(S)
  PROVE  /\ \A j \in DOMAIN a : j \in DOMAIN (a \o b) /\ (a \o b)[j] = a[j]
         /\ \A i \in DOMAIN b : Len(a) + i \in DOMAIN (a \o b) /\ (a \o b)[Len(a) + i] = b[i]
         /\ \A j \in DOMAIN (a \o b) : j \in DOMAIN a \/ \E i \in DOMAIN b : j = Len(a) + i
<1>1. /\ Len(a) \in Nat /\ DOMAIN a = 1 .. Len(a)
      /\ Len(b) \in Nat /\ DOMAIN b = 1 .. Len(b)
      /\ DOMAIN (a \o b) = 1 .. Len(a) + Len(b)
  OBVIOUS
<1>2. \A j \in DOMAIN (a \o b) : j \in DOMAIN a \/ \E i \in DOMAIN b : j = Len(a) + i
  <2> SUFFICES ASSUME NEW j \in DOMAIN (a \o b), j \notin DOMAIN a
               PROVE  \E i \in DOMAIN b : j = Len(a) + i
    OBVIOUS
  <2>1. j - Len(a) \in DOMAIN b /\ j = Len(a) + (j - Len(a))
    BY <1>1
  <2> QED
    BY <2>1
<1> QED
  BY <1>1, <1>2

LEMMA RowsAdded ==
  ASSUME NEW s \in Side, out \in [Side -> Seq(AnyRow)], NEW msgs \in Seq(AnyMessage),
         out' = [out EXCEPT ![s] = @ \o NewRows(msgs)]
  PROVE  /\ out' \in [Side -> Seq(AnyRow)]
         /\ MailKept
         /\ \A t \in Side \ {s} : out'[t] = out[t]
         /\ \A j \in DOMAIN out'[s] :
              \/ j \in DOMAIN out[s] /\ out'[s][j] = out[s][j]
              \/ \E i \in DOMAIN msgs : j = Len(out[s]) + i /\ out'[s][j] = NewRow(msgs[i])
         /\ \A i \in DOMAIN msgs : /\ Len(out[s]) + i \in DOMAIN out'[s]
                                   /\ out'[s][Len(out[s]) + i] = NewRow(msgs[i])
         /\ \A j \in DOMAIN out[s] : out'[s][j] = out[s][j]
<1> DEFINE new == NewRows(msgs)
<1>1. out[s] \in Seq(AnyRow)
  OBVIOUS
<1>2. \A i \in DOMAIN msgs : NewRow(msgs[i]) \in AnyRow
  BY DEF NewRow, AnyRow
<1>3. new \in Seq(AnyRow) /\ DOMAIN new = DOMAIN msgs /\ \A i \in DOMAIN msgs : new[i] = NewRow(msgs[i])
  <2>1. Len(msgs) \in Nat /\ DOMAIN msgs = 1 .. Len(msgs)
    OBVIOUS
  <2>2. new \in [1 .. Len(msgs) -> AnyRow]
    BY <1>2, <2>1 DEF NewRows
  <2> QED
    BY <2>1, <2>2 DEF NewRows
<1>4. out' = [out EXCEPT ![s] = out[s] \o new]
  OBVIOUS
<1> HIDE DEF new
<1>5. out[s] \o new \in Seq(AnyRow) /\ out'[s] = out[s] \o new
  <2>1. out[s] \o new \in Seq(AnyRow)
    BY <1>1, <1>3
  <2> QED
    BY <1>4, <2>1
<1>6. out' \in [Side -> Seq(AnyRow)] /\ \A t \in Side \ {s} : out'[t] = out[t]
  BY <1>4, <1>5
<1>7. \A j \in DOMAIN out[s] : j \in DOMAIN out'[s] /\ out'[s][j] = out[s][j]
  BY <1>1, <1>3, <1>5, Joined
<1>8. \A i \in DOMAIN msgs : Len(out[s]) + i \in DOMAIN out'[s] /\ out'[s][Len(out[s]) + i] = NewRow(msgs[i])
  BY <1>1, <1>3, <1>5, Joined
<1>9. \A j \in DOMAIN out'[s] : j \in DOMAIN out[s] \/ \E i \in DOMAIN new : j = Len(out[s]) + i
  BY <1>1, <1>3, <1>5, Joined
<1>11. MailKept
  BY <1>6, <1>7 DEF MailKept
<1> QED
  BY <1>3, <1>6, <1>7, <1>8, <1>9, <1>11

LEMMA StampedOK ==
  ASSUME NEW s \in Side, NEW x \in {"1.1", "5.1"}, obj \in [Side -> Opt(AnyDoc)]
  PROVE  LET d == Stamped(s, x)
         IN  /\ d \in Opt(AnyDoc)
             /\ d # <<>> => obj[s] # <<>> /\ SameMeeting(d[1], obj[s][1])
<1>1. CASE Stamped(s, x) = <<>>
  BY <1>1, OptIn
<1>2. CASE Stamped(s, x) # <<>>
  <2> DEFINE d == [obj[s][1] EXCEPT !.sent = x]
  <2>1. obj[s] # <<>> /\ Stamped(s, x) = <<d>>
    BY <1>2 DEF Stamped
  <2>2. obj[s][1] \in AnyDoc
    BY <2>1, OptOne
  <2>3. d \in AnyDoc /\ SameMeeting(d, obj[s][1])
    BY <2>2, SetSent
  <2> HIDE DEF d
  <2> QED
    BY <2>1, <2>3, One, OptIn
<1> QED
  BY <1>1, <1>2


LEMMA PostInit == Init => PostInv
<1> SUFFICES ASSUME Init PROVE PostInv
  OBVIOUS
<1> USE DEF Init
<1>1. TypeOK
  BY OptIn DEF TypeOK, TablesOK, ActorsOK, WorldOK
<1>2. RowsByMethod /\ PlansByMethod /\ WireKnown /\ BoxKnown /\ WatchAt /\ WorkAt /\ SeenThere
  BY DEF RowsByMethod, PlansByMethod, WireKnown, BoxKnown, WatchAt, WorkAt, SeenThere
<1> QED
  BY <1>1, <1>2 DEF PostInv

LEMMA Ticks == ASSUME now \in Nat, Time PROVE now' \in Nat
BY DEF Time

LEMMA PostPlan ==
  ASSUME PostInv, NEW s \in Side, Plan(s)
  PROVE  /\ PostInv' /\ MailKept
         /\ LET r == cli'[s][1]
            IN  /\ cli'[s] # <<>> /\ r.old = obj[s] /\ r.guarded \in BOOLEAN
                /\ PlanOK(s, obj[s], r.plan)
                /\ obj[s] = <<>> => s = "org" /\ edits[s] = 0
                /\ s = "att" /\ r.plan.doc # <<>> =>
                     obj[s] # <<>> /\ SameMeeting(r.plan.doc[1], obj[s][1])
         /\ \A t \in Side \ {s} : cli'[t] = cli[t]
<1> USE DEF PostInv, TypeOK
<1>1. now' \in Nat
  BY Ticks DEF Plan, WorldOK
<1>2. PICK new \in ClientWrites(s, Clock), g \in BOOLEAN :
        cli' = [cli EXCEPT ![s] = <<[old |-> obj[s], plan |-> Broker(s, obj[s], new, Clock), guarded |-> g]>>]
  BY DEF Plan
<1> DEFINE plan == Broker(s, obj[s], new, Clock)
           r == [old |-> obj[s], plan |-> plan, guarded |-> g]
<1>3. /\ PlanOK(s, obj[s], plan)
      /\ obj[s] = <<>> => s = "org" /\ edits[s] = 0
      /\ s = "att" /\ plan.doc # <<>> => obj[s] # <<>> /\ SameMeeting(plan.doc[1], obj[s][1])
  BY <1>1, BrokerPlans DEF TablesOK, Clock
<1>4. cli' = [cli EXCEPT ![s] = <<r>>]
  BY <1>2
<1> HIDE DEF plan
<1>5. r \in AnyClient /\ r.plan = plan /\ r.old = obj[s] /\ r.guarded \in BOOLEAN
  BY <1>3 DEF PlanOK, AnyClient, TablesOK
<1> HIDE DEF r
<1>6. cli' \in [Side -> Opt(AnyClient)]
  BY <1>4, <1>5, OptIn DEF ActorsOK
<1>7. edits' \in [Side -> Nat]
  BY DEF Plan, WorldOK
<1>8. UNCHANGED <<obj, out, cursor, seen, processed, work, watch, wire, box, faults, applied, removed, blind, lost>>
  BY DEF Plan, store
<1>9. TypeOK'
  BY <1>1, <1>6, <1>7, <1>8 DEF TablesOK, ActorsOK, WorldOK
<1>10. PlansByMethod'
  <2> SUFFICES ASSUME NEW t \in Side, cli'[t] # <<>> PROVE Sends(t, cli'[t][1].plan)
    BY DEF PlansByMethod
  <2>1. CASE t = s
    BY <1>3, <1>4, <1>5, <2>1, One DEF PlanOK, ActorsOK
  <2>2. CASE t # s
    BY <1>4, <2>2 DEF PlansByMethod, ActorsOK
  <2> QED
    BY <2>1, <2>2
<1>11. PostInv' /\ MailKept
  BY <1>8, <1>9, <1>10
  DEF RowsByMethod, WireKnown, BoxKnown, Known, WatchAt, At, WorkAt, SeenThere, MailKept
<1>12. cli'[s] = <<r>> /\ \A t \in Side \ {s} : cli'[t] = cli[t]
  BY <1>4 DEF ActorsOK
<1>13. cli'[s] # <<>> /\ cli'[s][1] = r
  BY <1>12, One
<1> QED
  BY <1>3, <1>5, <1>11, <1>12, <1>13

\* What the mail already sent looks like once rows are added or changed.
LEMMA MailStands ==
  ASSUME TypeOK, WireKnown, BoxKnown, WorkAt, MailKept,
         wire' \subseteq wire, UNCHANGED box
  PROVE  WireKnown' /\ BoxKnown' /\ (UNCHANGED work => WorkAt')
<1>1. \A r \in Mail : Known(r) => Known(r)'
  BY KnownKept
<1>2. WireKnown'
  BY <1>1 DEF WireKnown, TypeOK, WorldOK
<1>3. BoxKnown'
  BY <1>1 DEF BoxKnown, TypeOK, WorldOK
<1>4. UNCHANGED work => WorkAt'
  BY DEF WorkAt, MailKept
<1> QED
  BY <1>2, <1>3, <1>4

LEMMA PostCommit ==
  ASSUME PostInv, NEW s \in Side, Commit(s)
  PROVE  PostInv' /\ MailKept
<1> USE DEF PostInv, TypeOK
<1> DEFINE r == cli[s][1]
           holds == (r.guarded => obj[s] = r.old) /\ (r.plan.doc = <<>> => obj[s] # <<>>)
<1>1. /\ cli[s] # <<>>
      /\ obj' = [obj EXCEPT ![s] = IF holds THEN r.plan.doc ELSE @]
      /\ out' = [out EXCEPT ![s] = IF holds THEN @ \o NewRows(r.plan.msgs) ELSE @]
      /\ removed' = IF holds /\ r.plan.doc = <<>> THEN removed \cup {s} ELSE removed
      /\ blind' \in {blind, blind \cup {s}}
      /\ cli' = [cli EXCEPT ![s] = <<>>]
      /\ UNCHANGED <<cursor, seen, processed, work, watch, wire, box, edits, now, faults, applied, lost>>
  BY DEF Commit
<1>2. r \in AnyClient
  BY <1>1, OptOne DEF ActorsOK
<1>3. r.plan.doc \in Opt(AnyDoc) /\ r.plan.msgs \in Seq(AnyMessage)
  BY <1>2 DEF AnyClient, AnyPlan
<1>4. Sends(s, r.plan)
  BY <1>1 DEF PlansByMethod
<1>0. holds \in BOOLEAN
  OBVIOUS
<1> HIDE DEF holds, r
<1>5. /\ out' \in [Side -> Seq(AnyRow)] /\ MailKept
      /\ RowsByMethod'
  <2>1. CASE holds
    <3>1. out' = [out EXCEPT ![s] = @ \o NewRows(r.plan.msgs)]
      BY <1>1, <2>1
    <3> DEFINE msgs == r.plan.msgs
    <3>0. msgs \in Seq(AnyMessage) /\ out \in [Side -> Seq(AnyRow)] /\ out' = [out EXCEPT ![s] = @ \o NewRows(msgs)]
      BY <1>3, <3>1 DEF TablesOK
    <3> HIDE DEF msgs
    <3>2. /\ out' \in [Side -> Seq(AnyRow)] /\ MailKept
          /\ \A t \in Side \ {s} : out'[t] = out[t]
          /\ \A j \in DOMAIN out'[s] :
               \/ j \in DOMAIN out[s] /\ out'[s][j] = out[s][j]
               \/ \E i \in DOMAIN msgs : j = Len(out[s]) + i /\ out'[s][j] = NewRow(msgs[i])
      BY <3>0, RowsAdded, ZenonT(60)
    <3> USE DEF msgs
    <3>3. \A i \in DOMAIN msgs : NewRow(msgs[i]).msg.method \in Methods(s)
      BY <1>4 DEF Sends, NewRow
    <3> QED
      BY <3>2, <3>3 DEF RowsByMethod
  <2>2. CASE ~holds
    <3>1. out' = [out EXCEPT ![s] = out[s]]
      BY <1>0, <1>1, <2>2
    <3>2. out' = out
      BY <3>1 DEF TablesOK
    <3> QED
      BY <3>2 DEF TablesOK, MailKept, RowsByMethod
  <2> QED
    BY <2>1, <2>2
<1>6. obj' \in [Side -> Opt(AnyDoc)] /\ removed' \subseteq Side /\ blind' \subseteq Side
  BY <1>1, <1>3 DEF TablesOK, WorldOK
<1>7. cli' \in [Side -> Opt(AnyClient)] /\ cli'[s] = <<>> /\ \A t \in Side \ {s} : cli'[t] = cli[t]
  BY <1>1, OptIn DEF ActorsOK
<1>8. TypeOK'
  BY <1>1, <1>5, <1>6, <1>7 DEF TablesOK, ActorsOK, WorldOK
<1>9. PlansByMethod'
  BY <1>7 DEF PlansByMethod
<1>10. WireKnown' /\ BoxKnown' /\ WorkAt'
  BY <1>1, <1>5, MailStands
<1> QED
  BY <1>1, <1>5, <1>8, <1>9, <1>10 DEF WatchAt, At, SeenThere

\* A row of one side changes in all but its message.
LEMMA PostRow ==
  ASSUME PostInv, NEW s \in Side, NEW i \in DOMAIN out[s], NEW row \in AnyRow,
         row.msg = out[s][i].msg,
         out' = [out EXCEPT ![s] = [@ EXCEPT ![i] = row]]
  PROVE  out' \in [Side -> Seq(AnyRow)] /\ MailKept /\ RowsByMethod'
<1>1. /\ out' \in [Side -> Seq(AnyRow)] /\ MailKept
      /\ \A t \in Side : DOMAIN out'[t] = DOMAIN out[t]
      /\ \A t \in Side : \A j \in DOMAIN out[t] : out'[t][j].msg = out[t][j].msg
  BY RowChanged DEF PostInv, TypeOK, TablesOK
<1> QED
  BY <1>1 DEF PostInv, RowsByMethod

LEMMA RowIn ==
  ASSUME TablesOK, NEW s \in Side, NEW i \in DOMAIN out[s]
  PROVE  out[s][i] \in AnyRow /\ i \in Nat \ {0} /\ <<s, i>> \in Mail /\ <<s, i>>[1] = s /\ <<s, i>>[2] = i
<1>1. out[s] \in Seq(AnyRow)
  BY DEF TablesOK
<1>2. i \in Nat \ {0}
  BY <1>1
<1> QED
  BY <1>1, <1>2 DEF Mail

LEMMA PostSend ==
  ASSUME PostInv, NEW s \in Side, Send(s)
  PROVE  PostInv' /\ MailKept
<1> USE DEF PostInv, TypeOK
<1>1. PICK i \in DOMAIN out[s] :
        /\ Turn(s, i)
        /\ work' = [work EXCEPT ![s] = <<[row |-> i, at |-> "mark", old |-> <<>>, doc |-> <<>>]>>]
        /\ wire' = wire \cup {<<s, i>>}
  BY DEF Send
<1>2. UNCHANGED <<obj, out, cursor, seen, processed, cli, watch, box, edits, now, faults, applied, removed, blind, lost>>
  BY DEF Send, store
<1> DEFINE w == [row |-> i, at |-> "mark", old |-> <<>>, doc |-> <<>>]
<1>3. i \in Nat \ {0} /\ <<s, i>> \in Mail /\ <<s, i>>[1] = s /\ <<s, i>>[2] = i
  BY RowIn
<1>4. w \in AnyWork /\ w.row = i /\ work' = [work EXCEPT ![s] = <<w>>]
  BY <1>1, <1>3, OptIn DEF AnyWork
<1> HIDE DEF w
<1>5. work' \in [Side -> Opt(AnyWork)]
  BY <1>4, OptIn DEF ActorsOK
<1>6. TypeOK'
  BY <1>1, <1>2, <1>3, <1>5 DEF TablesOK, ActorsOK, WorldOK
<1>7. WireKnown'
  BY <1>1, <1>2, <1>3 DEF WireKnown, Known
<1>8. WorkAt'
  <2>1. \A t \in Side : work'[t] = IF t = s THEN <<w>> ELSE work[t]
    BY <1>4 DEF ActorsOK
  <2> QED
    BY <1>2, <1>4, <2>1, One DEF WorkAt
<1> QED
  BY <1>2, <1>6, <1>7, <1>8
  DEF RowsByMethod, PlansByMethod, BoxKnown, Known, WatchAt, At, SeenThere, MailKept

LEMMA WorkFields ==
  ASSUME NEW w \in AnyWork
  PROVE  /\ w.row \in Nat /\ w.doc \in Opt(AnyDoc) /\ w.old \in Opt(AnyDoc)
         /\ [w EXCEPT !.at = "stamp"] \in AnyWork
         /\ [w EXCEPT !.at = "stamp"].row = w.row /\ [w EXCEPT !.at = "stamp"].at = "stamp"
         /\ \A d \in Opt(AnyDoc) : /\ [w EXCEPT !.doc = d] \in AnyWork /\ [w EXCEPT !.doc = d].row = w.row
                                  /\ [w EXCEPT !.doc = d].at = w.at /\ [w EXCEPT !.doc = d].doc = d
                                  /\ [w EXCEPT !.doc = d].old = w.old
         /\ \A d \in Opt(AnyDoc) : /\ [w EXCEPT !.old = d] \in AnyWork /\ [w EXCEPT !.old = d].row = w.row
                                  /\ [w EXCEPT !.old = d].at = w.at /\ [w EXCEPT !.old = d].old = d
BY DEF AnyWork

LEMMA PostRetry ==
  ASSUME PostInv, NEW s \in Side, Retry(s) \/ BackoffEnds(s)
  PROVE  PostInv' /\ MailKept
<1> USE DEF PostInv, TypeOK
<1>1. /\ UNCHANGED <<obj, cursor, seen, processed, cli, work, watch, wire, box, edits, now, applied, removed, blind, lost>>
      /\ faults' \in {faults, faults + 1}
  BY DEF Retry, BackoffEnds, Fault, procs
<1>2. out' \in [Side -> Seq(AnyRow)] /\ MailKept /\ RowsByMethod'
  <2>1. CASE Retry(s)
    <3>1. PICK i \in DOMAIN out[s] : out' = [out EXCEPT ![s][i] = Delayed(@)]
      BY <2>1 DEF Retry
    <3> DEFINE a == [out[s][i] EXCEPT !.tries = @ + 1]
               b == [a EXCEPT !.due = FALSE]
    <3>2. out' = [out EXCEPT ![s] = [@ EXCEPT ![i] = b]]
      BY <3>1 DEF TablesOK, Delayed
    <3>3. a \in AnyRow /\ a.msg = out[s][i].msg
      <4>1. out[s][i] \in AnyRow
        BY RowIn
      <4>2. out[s][i].tries \in Nat
        BY <4>1, RowFields
      <4> QED
        BY <4>1, <4>2, SetTries
    <3> HIDE DEF a
    <3>4. b \in AnyRow /\ b.msg = a.msg
      BY <3>3, SetDue
    <3> HIDE DEF b
    <3> QED
      BY <3>2, <3>3, <3>4, PostRow
  <2>2. CASE BackoffEnds(s)
    <3>1. PICK i \in DOMAIN out[s] : out' = [out EXCEPT ![s][i].due = TRUE]
      BY <2>2 DEF BackoffEnds
    <3> DEFINE b == [out[s][i] EXCEPT !.due = TRUE]
    <3>2. out' = [out EXCEPT ![s] = [@ EXCEPT ![i] = b]]
      BY <3>1 DEF TablesOK
    <3>3. b \in AnyRow /\ b.msg = out[s][i].msg
      BY RowIn, SetDue
    <3> HIDE DEF b
    <3> QED
      BY <3>2, <3>3, PostRow
  <2> QED
    BY <2>1, <2>2
<1>3. TypeOK'
  BY <1>1, <1>2 DEF TablesOK, ActorsOK, WorldOK
<1>4. WireKnown' /\ BoxKnown' /\ WorkAt'
  BY <1>1, <1>2, MailStands
<1> QED
  BY <1>1, <1>2, <1>3, <1>4 DEF PlansByMethod, WatchAt, At, SeenThere

LEMMA PostMarkSent ==
  ASSUME PostInv, NEW s \in Side, MarkSent(s)
  PROVE  /\ PostInv' /\ MailKept
         /\ work'[s] # <<>> /\ work'[s][1].at = "stamp" /\ work'[s][1].doc = Stamped(s, "1.1")
         /\ work'[s][1].old = obj[s]
         /\ \A t \in Side \ {s} : work'[t] = work[t]
<1> USE DEF PostInv, TypeOK
<1>1. /\ work[s] # <<>>
      /\ out' = [out EXCEPT ![s][work[s][1].row].state = "sent"]
      /\ work' = [work EXCEPT ![s][1].at = "stamp", ![s][1].old = obj[s], ![s][1].doc = Stamped(s, "1.1")]
      /\ UNCHANGED <<obj, cursor, seen, processed, cli, watch, wire, box, edits, now, faults, applied, removed, blind, lost>>
  BY DEF MarkSent
<1> DEFINE w == work[s][1]
           i == w.row
           b == [out[s][i] EXCEPT !.state = "sent"]
           a == [w EXCEPT !.at = "stamp"]
           c == [a EXCEPT !.old = obj[s]]
           v == [c EXCEPT !.doc = Stamped(s, "1.1")]
<1>2. i \in DOMAIN out[s] /\ w \in AnyWork /\ work[s] = <<w>>
  BY <1>1, OptOne DEF WorkAt, ActorsOK
<1>3. out' \in [Side -> Seq(AnyRow)] /\ MailKept /\ RowsByMethod'
  <2>1. out' = [out EXCEPT ![s] = [@ EXCEPT ![i] = b]]
    BY <1>1, <1>2 DEF TablesOK
  <2>2. b \in AnyRow /\ b.msg = out[s][i].msg
    BY <1>2, RowIn, SetState
  <2> HIDE DEF b, i
  <2> QED
    BY <1>2, <2>1, <2>2, PostRow
<1>4. Stamped(s, "1.1") \in Opt(AnyDoc) /\ obj[s] \in Opt(AnyDoc)
  BY StampedOK DEF TablesOK
<1>5. work' = [work EXCEPT ![s] = <<v>>]
  <2>1. work' = [work EXCEPT ![s] = [@ EXCEPT ![1] = v]]
    BY <1>1, <1>2 DEF ActorsOK
  <2>2. [work[s] EXCEPT ![1] = v] = <<v>>
    BY <1>2
  <2> QED
    BY <2>1, <2>2
<1>6. a \in AnyWork /\ a.row = i /\ a.at = "stamp"
  BY <1>2, WorkFields
<1> HIDE DEF a
<1>17. c \in AnyWork /\ c.row = i /\ c.at = "stamp" /\ c.old = obj[s]
  BY <1>4, <1>6, WorkFields
<1> HIDE DEF c
<1>7. v \in AnyWork /\ v.row = i /\ v.at = "stamp" /\ v.doc = Stamped(s, "1.1") /\ v.old = obj[s]
  BY <1>4, <1>17, WorkFields
<1> HIDE DEF v, w
<1>8. \A t \in Side : work'[t] = IF t = s THEN <<v>> ELSE work[t]
  BY <1>5 DEF ActorsOK
<1>9. work' \in [Side -> Opt(AnyWork)]
  BY <1>5, <1>7, OptIn DEF ActorsOK
<1>10. TypeOK'
  BY <1>1, <1>3, <1>9 DEF TablesOK, ActorsOK, WorldOK
<1>11. WireKnown' /\ BoxKnown'
  BY <1>1, <1>3, MailStands
<1>12. WorkAt'
  <2> SUFFICES ASSUME NEW t \in Side, work'[t] # <<>> PROVE work'[t][1].row \in DOMAIN out'[t]
    BY DEF WorkAt
  <2>1. CASE t = s
    <3>1. work'[t][1].row = i
      BY <1>7, <1>8, <2>1, One
    <3> QED
      BY <1>2, <1>3, <2>1, <3>1 DEF MailKept
  <2>2. CASE t # s
    BY <1>3, <1>8, <2>2 DEF WorkAt, MailKept
  <2> QED
    BY <2>1, <2>2
<1>13. PlansByMethod' /\ WatchAt' /\ SeenThere'
  BY <1>1 DEF PlansByMethod, WatchAt, At, SeenThere
<1>14. PostInv' /\ MailKept
  BY <1>3, <1>10, <1>11, <1>12, <1>13
<1>15. work'[s] = <<v>>
  BY <1>8
<1>16. /\ work'[s] # <<>> /\ work'[s][1].at = "stamp" /\ work'[s][1].doc = Stamped(s, "1.1")
       /\ work'[s][1].old = obj[s]
  BY <1>7, <1>15, One
<1> QED
  BY <1>8, <1>14, <1>16

LEMMA PostGiveUp ==
  ASSUME PostInv, NEW s \in Side, GiveUp(s)
  PROVE  /\ PostInv' /\ MailKept
         /\ work'[s] # <<>> /\ work'[s][1].at = "stamp" /\ work'[s][1].doc = Stamped(s, "5.1")
         /\ work'[s][1].old = obj[s]
         /\ \A t \in Side \ {s} : work'[t] = work[t]
<1> USE DEF PostInv, TypeOK
<1>1. PICK i \in DOMAIN out[s] :
        /\ work' = [work EXCEPT ![s] = <<[row |-> i, at |-> "stamp", old |-> obj[s], doc |-> Stamped(s, "5.1")]>>]
        /\ out' = [out EXCEPT ![s][i].state = "failed"]
        /\ lost' = lost \cup {<<s, i>>}
  BY DEF GiveUp
<1>2. UNCHANGED <<obj, cursor, seen, processed, cli, watch, wire, box, edits, now, faults, applied, removed, blind>>
  BY DEF GiveUp
<1> DEFINE w == [row |-> i, at |-> "stamp", old |-> obj[s], doc |-> Stamped(s, "5.1")]
           b == [out[s][i] EXCEPT !.state = "failed"]
<1>3. i \in Nat \ {0} /\ <<s, i>> \in Mail /\ out[s][i] \in AnyRow
  BY RowIn
<1>4. Stamped(s, "5.1") \in Opt(AnyDoc) /\ obj[s] \in Opt(AnyDoc)
  BY StampedOK DEF TablesOK
<1>5. w \in AnyWork /\ w.row = i /\ w.at = "stamp" /\ w.doc = Stamped(s, "5.1") /\ w.old = obj[s]
  BY <1>3, <1>4 DEF AnyWork
<1>6. work' = [work EXCEPT ![s] = <<w>>]
  BY <1>1
<1> HIDE DEF w
<1>7. work' \in [Side -> Opt(AnyWork)] /\ \A t \in Side : work'[t] = IF t = s THEN <<w>> ELSE work[t]
  BY <1>5, <1>6, OptIn DEF ActorsOK
<1>8. out' \in [Side -> Seq(AnyRow)] /\ MailKept /\ RowsByMethod'
  <2>1. out' = [out EXCEPT ![s] = [@ EXCEPT ![i] = b]]
    BY <1>1 DEF TablesOK
  <2>2. b \in AnyRow /\ b.msg = out[s][i].msg
    BY <1>3, SetState
  <2> HIDE DEF b
  <2> QED
    BY <2>1, <2>2, PostRow
<1>9. lost' \subseteq Mail
  BY <1>1, <1>3 DEF WorldOK
<1>10. TypeOK'
  BY <1>2, <1>7, <1>8, <1>9 DEF TablesOK, ActorsOK, WorldOK
<1>11. WireKnown' /\ BoxKnown'
  BY <1>2, <1>8, MailStands
<1>12. WorkAt'
  <2> SUFFICES ASSUME NEW t \in Side, work'[t] # <<>> PROVE work'[t][1].row \in DOMAIN out'[t]
    BY DEF WorkAt
  <2>1. CASE t = s
    <3>1. work'[t][1].row = i
      BY <1>5, <1>7, <2>1, One
    <3> QED
      BY <1>8, <2>1, <3>1 DEF MailKept
  <2>2. CASE t # s
    BY <1>7, <1>8, <2>2 DEF WorkAt, MailKept
  <2> QED
    BY <2>1, <2>2
<1>13. PlansByMethod' /\ WatchAt' /\ SeenThere'
  BY <1>2 DEF PlansByMethod, WatchAt, At, SeenThere
<1>14. PostInv' /\ MailKept
  BY <1>8, <1>10, <1>11, <1>12, <1>13
<1>15. work'[s] = <<w>>
  BY <1>7
<1>16. /\ work'[s] # <<>> /\ work'[s][1].at = "stamp" /\ work'[s][1].doc = Stamped(s, "5.1")
       /\ work'[s][1].old = obj[s]
  BY <1>5, <1>15, One
<1> QED
  BY <1>7, <1>14, <1>16

LEMMA PostStampWrite ==
  ASSUME PostInv, NEW s \in Side, StampWrite(s)
  PROVE  PostInv' /\ MailKept
<1> USE DEF PostInv, TypeOK
<1>1. /\ work[s] # <<>>
      /\ obj' = [obj EXCEPT ![s] = IF work[s][1].doc = <<>> THEN @ ELSE work[s][1].doc]
      /\ blind' \in {blind, blind \cup {s}}
      /\ work' = [work EXCEPT ![s] = <<>>]
      /\ UNCHANGED <<out, cursor, seen, processed, cli, watch, wire, box, edits, now, faults, applied, removed, lost>>
  BY DEF StampWrite, Replaces
<1>2. work[s][1].doc \in Opt(AnyDoc)
  BY <1>1, OptOne, WorkFields DEF ActorsOK
<1>3. obj' \in [Side -> Opt(AnyDoc)]
  BY <1>1, <1>2 DEF TablesOK
<1>4. work' \in [Side -> Opt(AnyWork)] /\ \A t \in Side : work'[t] = IF t = s THEN <<>> ELSE work[t]
  BY <1>1, OptIn DEF ActorsOK
<1>5. TypeOK'
  BY <1>1, <1>3, <1>4 DEF TablesOK, ActorsOK, WorldOK
<1>6. WorkAt'
  BY <1>1, <1>4 DEF WorkAt
<1> QED
  BY <1>1, <1>5, <1>6
  DEF RowsByMethod, PlansByMethod, WireKnown, BoxKnown, Known, WatchAt, At, SeenThere, MailKept

LEMMA BoxIn ==
  ASSUME TypeOK, NEW s \in Side, NEW u \in DOMAIN box[s]
  PROVE  u \in Nat \ {0} /\ box[s][u] \in Mail /\ u <= Len(box[s])
<1>1. box[s] \in Seq(Mail)
  BY DEF TypeOK, WorldOK
<1> QED
  BY <1>1

\* The watcher has a message to look at.
LEMMA NextInBox ==
  ASSUME TypeOK, NEW s \in Side, cursor[s] < Len(box[s])
  PROVE  At(s) \in DOMAIN box[s] /\ At(s) \in Nat /\ At(s) <= Len(box[s]) /\ box[s][At(s)] \in Mail
<1>1. box[s] \in Seq(Mail) /\ cursor[s] \in Nat
  BY DEF TypeOK, WorldOK, TablesOK
<1>2. At(s) \in DOMAIN box[s] /\ At(s) \in Nat /\ At(s) <= Len(box[s])
  BY <1>1 DEF At
<1> QED
  BY <1>1, <1>2

LEMMA MessageIn ==
  ASSUME TypeOK, NEW r \in Mail, Known(r)
  PROVE  MessageOf(r) \in AnyMessage
<1>1. r[1] \in Side
  BY DEF Mail
<1>2. out[r[1]][r[2]] \in AnyRow
  BY <1>1, RowIn DEF TypeOK, Known
<1> QED
  BY <1>2, RowFields DEF MessageOf

LEMMA InboundOK ==
  ASSUME NEW stored \in Opt(AnyDoc), NEW msg \in AnyMessage, NEW t \in Nat
  PROVE  /\ ApplyInbound(stored, msg, t) \in Opt(AnyDoc)
         /\ msg.doc \in AnyDoc
         /\ msg.method = "REQUEST" => ApplyInbound(stored, msg, t) = ApplyRequest(stored, msg.doc)
         /\ msg.method = "CANCEL" => ApplyInbound(stored, msg, t) = ApplyCancel(stored, msg.doc, t)
         /\ msg.method = "REPLY" => ApplyInbound(stored, msg, t) = ApplyReply(stored, msg.doc, t)
<1>1. msg.doc \in AnyDoc /\ msg.method \in {"REQUEST", "CANCEL", "REPLY"}
  BY DEF AnyMessage
<1>2. CASE msg.method = "REQUEST"
  <2>1. ApplyInbound(stored, msg, t) = ApplyRequest(stored, msg.doc)
    BY <1>2 DEF ApplyInbound
  <2> QED
    BY <1>1, <1>2, <2>1, RequestTaken
<1>3. CASE msg.method = "CANCEL"
  <2>1. ApplyInbound(stored, msg, t) = ApplyCancel(stored, msg.doc, t)
    BY <1>3 DEF ApplyInbound
  <2> QED
    BY <1>1, <1>3, <2>1, CancelTaken
<1>4. CASE msg.method = "REPLY"
  <2>1. ApplyInbound(stored, msg, t) = ApplyReply(stored, msg.doc, t)
    BY <1>4 DEF ApplyInbound
  <2> QED
    BY <1>1, <1>4, <2>1, ReplyTaken
<1> QED
  BY <1>1, <1>2, <1>3, <1>4

LEMMA PostSkip ==
  ASSUME PostInv, NEW s \in Side, Skip(s)
  PROVE  PostInv' /\ MailKept
<1> USE DEF PostInv, TypeOK
<1>1. /\ watch[s] = <<>> /\ cursor[s] < Len(box[s])
      /\ seen' = [seen EXCEPT ![s] = @ \cup {At(s)}]
      /\ cursor' = [cursor EXCEPT ![s] = At(s)]
      /\ UNCHANGED <<obj, out, processed, cli, work, watch, wire, box, edits, now, faults, applied, removed, blind, lost>>
  BY DEF Skip, procs
<1>2. At(s) \in DOMAIN box[s] /\ At(s) \in Nat /\ At(s) <= Len(box[s])
  BY <1>1, NextInBox
<1>3. seen' \in [Side -> SUBSET Nat] /\ cursor' \in [Side -> Nat]
  BY <1>1, <1>2 DEF TablesOK
<1>4. TypeOK'
  BY <1>1, <1>3 DEF TablesOK, ActorsOK, WorldOK
<1>5. WatchAt' /\ SeenThere'
  BY <1>1, <1>2 DEF WatchAt, At, SeenThere, TablesOK
<1> QED
  BY <1>1, <1>4, <1>5
  DEF RowsByMethod, PlansByMethod, WireKnown, BoxKnown, Known, WorkAt, MailKept

LEMMA PostFetch ==
  ASSUME PostInv, NEW s \in Side, Fetch(s)
  PROVE  /\ PostInv' /\ MailKept
         /\ LET r == box[s][At(s)]
            IN  /\ r \in Mail /\ Known(r) /\ r[1] = Other(s) /\ Clock \in Nat
                /\ watch'[s] # <<>> /\ watch'[s][1].ref = r /\ watch'[s][1].old = obj[s]
                /\ watch'[s][1].doc = ApplyInbound(obj[s], MessageOf(r), Clock)
         /\ \A t \in Side \ {s} : watch'[t] = watch[t]
<1> USE DEF PostInv, TypeOK
<1> DEFINE r == box[s][At(s)]
           w == [ref |-> r, old |-> obj[s], doc |-> ApplyInbound(obj[s], MessageOf(r), Clock)]
<1>1. /\ watch[s] = <<>> /\ cursor[s] < Len(box[s]) /\ Time
      /\ seen' = [seen EXCEPT ![s] = @ \cup {At(s)}]
      /\ watch' = [watch EXCEPT ![s] = <<w>>]
      /\ UNCHANGED <<obj, out, cursor, processed, cli, work, wire, box, edits, faults, applied, removed, blind, lost>>
  BY DEF Fetch
<1>2. At(s) \in DOMAIN box[s] /\ At(s) \in Nat /\ At(s) <= Len(box[s]) /\ r \in Mail
  BY <1>1, NextInBox
<1>3. Known(r) /\ r[1] = Other(s)
  BY <1>2 DEF BoxKnown
<1>4. now' \in Nat
  BY <1>1, Ticks DEF WorldOK
<1>5. ApplyInbound(obj[s], MessageOf(r), Clock) \in Opt(AnyDoc)
  BY <1>2, <1>3, <1>4, MessageIn, InboundOK DEF Clock, TablesOK
<1>6. w \in AnyWatch /\ w.ref = r /\ w.old = obj[s] /\ w.doc = ApplyInbound(obj[s], MessageOf(r), Clock)
  BY <1>2, <1>5 DEF AnyWatch, TablesOK
<1> HIDE DEF w
<1>7. watch' \in [Side -> Opt(AnyWatch)] /\ \A t \in Side : watch'[t] = IF t = s THEN <<w>> ELSE watch[t]
  BY <1>1, <1>6, OptIn DEF ActorsOK
<1>8. seen' \in [Side -> SUBSET Nat]
  BY <1>1, <1>2 DEF TablesOK
<1>9. TypeOK'
  BY <1>1, <1>4, <1>7, <1>8 DEF TablesOK, ActorsOK, WorldOK
<1>10. SeenThere'
  BY <1>1, <1>2 DEF SeenThere, TablesOK
<1>11. WatchAt'
  <2> SUFFICES ASSUME NEW t \in Side, watch'[t] # <<>>
               PROVE  cursor'[t] < Len(box'[t]) /\ box'[t][At(t)'] = watch'[t][1].ref
    BY DEF WatchAt
  <2>1. CASE t = s
    BY <1>1, <1>6, <1>7, <2>1, One DEF At
  <2>2. CASE t # s
    BY <1>1, <1>7, <2>2 DEF At, WatchAt
  <2> QED
    BY <2>1, <2>2
<1>12. PostInv' /\ MailKept
  BY <1>1, <1>9, <1>10, <1>11
  DEF RowsByMethod, PlansByMethod, WireKnown, BoxKnown, Known, WorkAt, MailKept
<1>13. watch'[s] = <<w>>
  BY <1>7
<1>14. watch'[s] # <<>> /\ watch'[s][1] = w
  BY <1>13, One
<1> QED
  BY <1>2, <1>3, <1>4, <1>6, <1>7, <1>12, <1>14 DEF Clock

\* What writing and recording a decision do to the tables.
LEMMA WrittenOK ==
  ASSUME TypeOK, NEW s \in Side, watch[s] # <<>>
  PROVE  /\ watch[s][1].ref \in Mail /\ watch[s][1].doc \in Opt(AnyDoc) /\ watch[s][1].old \in Opt(AnyDoc)
         /\ Written(s) => /\ obj' \in [Side -> Opt(AnyDoc)]
                          /\ applied' \in [Side -> [Ref -> Nat]]
                          /\ blind \subseteq blind' /\ blind' \subseteq Side
                          /\ s \notin blind' => watch[s][1].doc = <<>> \/ obj[s] = watch[s][1].old
                          /\ \A t \in Side \ {s} : t \in blind' => t \in blind
                          /\ obj'[s] = IF watch[s][1].doc = <<>> THEN obj[s] ELSE watch[s][1].doc
                          /\ \A t \in Side \ {s} : obj'[t] = obj[t]
                          /\ \A t \in Side : \A r \in Ref :
                               \/ applied'[t][r] = applied[t][r]
                               \/ t = s /\ r = watch[s][1].ref /\ applied'[t][r] = applied[t][r] + 1
         /\ Recorded(s) => /\ processed' \in [Side -> SUBSET Mail]
                           /\ processed'[s] = processed[s] \cup {watch[s][1].ref}
                           /\ \A t \in Side \ {s} : processed'[t] = processed[t]
<1> USE DEF TypeOK, TablesOK, WorldOK
<1> DEFINE w == watch[s][1]
<1>1. w \in AnyWatch
  BY OptOne DEF ActorsOK
<1>2. w.ref \in Mail /\ w.doc \in Opt(AnyDoc) /\ w.old \in Opt(AnyDoc)
  BY <1>1 DEF AnyWatch
<1>3. ASSUME Written(s)
      PROVE  /\ obj' = [obj EXCEPT ![s] = IF w.doc = <<>> THEN @ ELSE w.doc]
             /\ applied' = IF w.doc = <<>> THEN applied ELSE [applied EXCEPT ![s][w.ref] = @ + 1]
             /\ blind' = IF w.doc # <<>> /\ obj[s] # w.old THEN blind \cup {s} ELSE blind
  BY <1>3 DEF Written, Replaces
<1>4. ASSUME Recorded(s)
      PROVE  processed' = [processed EXCEPT ![s] = @ \cup {w.ref}]
  BY <1>4 DEF Recorded
<1> HIDE DEF w
<1>5. ASSUME Written(s)
      PROVE  /\ obj' \in [Side -> Opt(AnyDoc)]
             /\ obj'[s] = IF w.doc = <<>> THEN obj[s] ELSE w.doc
             /\ \A t \in Side \ {s} : obj'[t] = obj[t]
  BY <1>2, <1>3, <1>5
<1>6. ASSUME Written(s)
      PROVE  /\ applied' \in [Side -> [Ref -> Nat]]
             /\ \A t \in Side : \A r \in Ref :
                  \/ applied'[t][r] = applied[t][r]
                  \/ t = s /\ r = w.ref /\ applied'[t][r] = applied[t][r] + 1
  <2>1. CASE w.doc = <<>>
    BY <1>3, <1>6, <2>1
  <2>2. CASE w.doc # <<>>
    <3> DEFINE n == [applied[s] EXCEPT ![w.ref] = @ + 1]
    <3>1. applied' = [applied EXCEPT ![s] = n]
      BY <1>3, <1>6, <2>2
    <3>2. applied[s] \in [Ref -> Nat]
      OBVIOUS
    <3>3. \A r \in Ref : n[r] = IF r = w.ref THEN applied[s][r] + 1 ELSE applied[s][r]
      BY <3>2
    <3>4. n \in [Ref -> Nat]
      <4>1. \A r \in Ref : applied[s][r] \in Nat /\ applied[s][r] + 1 \in Nat
        BY <3>2
      <4>2. n = [r \in Ref |-> n[r]]
        BY <3>2
      <4> HIDE DEF n
      <4> QED
        BY <3>3, <4>1, <4>2
    <3> HIDE DEF n
    <3>5. applied' \in [Side -> [Ref -> Nat]] /\ \A t \in Side : applied'[t] = IF t = s THEN n ELSE applied[t]
      BY <3>1, <3>4
    <3> QED
      BY <3>3, <3>5
  <2> QED
    BY <2>1, <2>2
<1>7. ASSUME Recorded(s)
      PROVE  /\ processed' \in [Side -> SUBSET Mail]
             /\ processed'[s] = processed[s] \cup {w.ref}
             /\ \A t \in Side \ {s} : processed'[t] = processed[t]
  BY <1>2, <1>4, <1>7
<1>8. ASSUME Written(s)
      PROVE  /\ blind \subseteq blind' /\ blind' \subseteq Side
             /\ s \notin blind' => w.doc = <<>> \/ obj[s] = w.old
             /\ \A t \in Side \ {s} : t \in blind' => t \in blind
  BY <1>3, <1>8
<1> QED
  BY <1>2, <1>5, <1>6, <1>7, <1>8 DEF w

LEMMA PostApply ==
  ASSUME PostInv, NEW s \in Side, Apply(s)
  PROVE  PostInv' /\ MailKept
<1> USE DEF PostInv, TypeOK
<1>1. /\ watch[s] # <<>> /\ Written(s) /\ Recorded(s)
      /\ cursor' = [cursor EXCEPT ![s] = At(s)]
      /\ watch' = [watch EXCEPT ![s] = <<>>]
      /\ UNCHANGED <<out, seen, cli, work, wire, box, edits, now, faults, removed, lost>>
  BY DEF Apply
<1>2. /\ obj' \in [Side -> Opt(AnyDoc)] /\ applied' \in [Side -> [Ref -> Nat]]
      /\ processed' \in [Side -> SUBSET Mail] /\ blind' \subseteq Side
  BY <1>1, WrittenOK
<1>3. At(s) \in Nat /\ At(s) <= Len(box[s])
  BY <1>1, NextInBox DEF WatchAt
<1>4. cursor' \in [Side -> Nat] /\ \A t \in Side : cursor'[t] = IF t = s THEN At(s) ELSE cursor[t]
  BY <1>1, <1>3 DEF TablesOK
<1>5. watch' \in [Side -> Opt(AnyWatch)] /\ \A t \in Side : watch'[t] = IF t = s THEN <<>> ELSE watch[t]
  BY <1>1, OptIn DEF ActorsOK
<1>6. TypeOK'
  BY <1>1, <1>2, <1>4, <1>5 DEF TablesOK, ActorsOK, WorldOK
<1>7. WatchAt' /\ SeenThere'
  BY <1>1, <1>3, <1>4, <1>5 DEF WatchAt, At, SeenThere
<1> QED
  BY <1>1, <1>6, <1>7
  DEF RowsByMethod, PlansByMethod, WireKnown, BoxKnown, Known, WorkAt, MailKept

LEMMA Longer ==
  ASSUME NEW S, NEW q \in Seq(S), NEW x \in S
  PROVE  /\ Append(q, x) \in Seq(S) /\ Len(q) \in Nat /\ Len(Append(q, x)) = Len(q) + 1
         /\ DOMAIN Append(q, x) = DOMAIN q \cup {Len(q) + 1}
         /\ \A u \in DOMAIN q : Append(q, x)[u] = q[u]
         /\ Append(q, x)[Len(q) + 1] = x
         /\ \A u \in 1 .. Len(q) : u \in DOMAIN q
         /\ \A u \in DOMAIN q : u \in 1 .. Len(q)
OBVIOUS

\* A message arrives, or arrives again, at the end of a mailbox.
LEMMA BoxGrows ==
  ASSUME PostInv, NEW s \in Side, NEW r \in Mail, Known(r), r[1] = Other(s),
         box' = [box EXCEPT ![s] = Append(@, r)],
         UNCHANGED <<out, cursor, seen, watch>>
  PROVE  /\ box' \in [Side -> Seq(Mail)]
         /\ BoxKnown' /\ WatchAt' /\ SeenThere'
         /\ \A t \in Side : \A u \in DOMAIN box[t] : u \in DOMAIN box'[t] /\ box'[t][u] = box[t][u]
         /\ \A t \in Side \ {s} : box'[t] = box[t]
         /\ DOMAIN box'[s] = DOMAIN box[s] \cup {Len(box[s]) + 1}
         /\ Len(box[s]) + 1 \in DOMAIN box'[s] /\ box'[s][Len(box[s]) + 1] = r
<1> USE DEF PostInv, TypeOK
<1>1. box[s] \in Seq(Mail)
  BY DEF WorldOK
<1>2. /\ box' \in [Side -> Seq(Mail)]
      /\ box'[s] = Append(box[s], r)
      /\ \A t \in Side \ {s} : box'[t] = box[t]
  BY <1>1, Longer DEF WorldOK
<1>3. /\ DOMAIN box'[s] = DOMAIN box[s] \cup {Len(box[s]) + 1}
      /\ \A u \in DOMAIN box[s] : box'[s][u] = box[s][u]
      /\ box'[s][Len(box[s]) + 1] = r
      /\ Len(box'[s]) = Len(box[s]) + 1 /\ Len(box[s]) \in Nat
  BY <1>1, <1>2, Longer
<1>4. BoxKnown'
  BY <1>2, <1>3 DEF BoxKnown, Known
<1>5. \A t \in Side : \A u \in DOMAIN box[t] : u \in DOMAIN box'[t] /\ box'[t][u] = box[t][u]
  BY <1>2, <1>3
<1>6. \A t \in Side : Len(box[t]) \in Nat /\ Len(box[t]) <= Len(box'[t]) /\ cursor[t] \in Nat /\ Len(box'[t]) \in Nat
  <2>1. \A t \in Side : box[t] \in Seq(Mail) /\ cursor[t] \in Nat
    BY DEF WorldOK, TablesOK
  <2>2. \A t \in Side : Len(box[t]) \in Nat
    BY <2>1
  <2> QED
    BY <1>2, <1>3, <2>1, <2>2
<1>7. SeenThere'
  BY <1>5, <1>6 DEF SeenThere
<1>8. WatchAt'
  <2> SUFFICES ASSUME NEW t \in Side, watch'[t] # <<>>
               PROVE  cursor'[t] < Len(box'[t]) /\ box'[t][At(t)'] = watch'[t][1].ref
    BY DEF WatchAt
  <2>1. cursor[t] < Len(box[t]) /\ box[t][At(t)] = watch[t][1].ref
    BY DEF WatchAt
  <2>2. At(t) \in DOMAIN box[t]
    BY <2>1, NextInBox
  <2>3. At(t)' = At(t)
    BY DEF At
  <2> QED
    BY <1>5, <1>6, <2>1, <2>2, <2>3
<1> QED
  BY <1>2, <1>3, <1>4, <1>5, <1>7, <1>8

LEMMA PostDeliver ==
  ASSUME PostInv, Deliver
  PROVE  PostInv' /\ MailKept
<1> USE DEF PostInv, TypeOK
<1>1. PICK r \in wire : box' = [box EXCEPT ![Other(r[1])] = Append(@, r)] /\ wire' = wire \ {r}
  BY DEF Deliver
<1>2. UNCHANGED <<obj, out, cursor, seen, processed, cli, work, watch, edits, now, faults, applied, removed, blind, lost>>
  BY DEF Deliver, store, procs
<1>3. r \in Mail /\ Known(r) /\ r[1] \in Side
  BY DEF WorldOK, WireKnown, Mail
<1> DEFINE s == Other(r[1])
<1>4. s \in Side /\ r[1] = Other(s)
  BY <1>3 DEF Side, Other
<1> HIDE DEF s
<1>5. box' = [box EXCEPT ![s] = Append(@, r)]
  BY <1>1 DEF s
<1>6. box' \in [Side -> Seq(Mail)] /\ BoxKnown' /\ WatchAt' /\ SeenThere'
  BY <1>2, <1>3, <1>4, <1>5, BoxGrows
<1>7. TypeOK'
  BY <1>1, <1>2, <1>6 DEF TablesOK, ActorsOK, WorldOK
<1> QED
  BY <1>1, <1>2, <1>6, <1>7
  DEF RowsByMethod, PlansByMethod, WireKnown, Known, WorkAt, MailKept

LEMMA PostLose ==
  ASSUME PostInv, Lose
  PROVE  PostInv' /\ MailKept
<1> USE DEF PostInv, TypeOK
<1>1. PICK r \in wire : wire' = wire \ {r} /\ lost' = lost \cup {r}
  BY DEF Lose
<1>2. /\ UNCHANGED <<obj, out, cursor, seen, processed, cli, work, watch, box, edits, now, applied, removed, blind>>
      /\ faults' = faults + 1
  BY DEF Lose, Fault, store, procs
<1>3. TypeOK'
  BY <1>1, <1>2 DEF TablesOK, ActorsOK, WorldOK
<1> QED
  BY <1>1, <1>2, <1>3
  DEF RowsByMethod, PlansByMethod, WireKnown, BoxKnown, Known, WatchAt, At, WorkAt, SeenThere, MailKept

LEMMA PostMove ==
  ASSUME PostInv, NEW s \in Side, Move(s)
  PROVE  PostInv' /\ MailKept
<1> USE DEF PostInv, TypeOK
<1>1. PICK u \in seen[s] : box' = [box EXCEPT ![s] = Append(@, box[s][u])]
  BY DEF Move
<1>2. /\ UNCHANGED <<obj, out, cursor, seen, processed, cli, work, watch, wire, edits, now, applied, removed, blind, lost>>
      /\ faults' = faults + 1
  BY DEF Move, Fault, store, procs
<1>3. u \in DOMAIN box[s]
  BY DEF SeenThere
<1>4. box[s][u] \in Mail /\ Known(box[s][u]) /\ box[s][u][1] = Other(s)
  BY <1>3, BoxIn DEF BoxKnown
<1>5. box' \in [Side -> Seq(Mail)] /\ BoxKnown' /\ WatchAt' /\ SeenThere'
  BY <1>1, <1>2, <1>4, BoxGrows
<1>6. TypeOK'
  BY <1>2, <1>5 DEF TablesOK, ActorsOK, WorldOK
<1> QED
  BY <1>2, <1>5, <1>6
  DEF RowsByMethod, PlansByMethod, WireKnown, Known, WorkAt, MailKept

LEMMA PostRenumber ==
  ASSUME PostInv, NEW s \in Side, Renumber(s)
  PROVE  PostInv' /\ MailKept
<1> USE DEF PostInv, TypeOK
<1>1. /\ watch[s] = <<>> /\ faults' = faults + 1
      /\ cursor' = [cursor EXCEPT ![s] = 0] /\ seen' = [seen EXCEPT ![s] = {}]
      /\ UNCHANGED <<obj, out, processed, cli, work, watch, wire, box, edits, now, applied, removed, blind, lost>>
  BY DEF Renumber, Fault, procs
<1>2. /\ cursor' \in [Side -> Nat] /\ \A t \in Side : cursor'[t] = IF t = s THEN 0 ELSE cursor[t]
      /\ seen' \in [Side -> SUBSET Nat] /\ \A t \in Side : seen'[t] = IF t = s THEN {} ELSE seen[t]
  BY <1>1 DEF TablesOK
<1>3. TypeOK'
  BY <1>1, <1>2 DEF TablesOK, ActorsOK, WorldOK
<1>4. \A t \in Side : 0 <= Len(box[t])
  <2>1. \A t \in Side : box[t] \in Seq(Mail)
    BY DEF WorldOK
  <2> QED
    BY <2>1
<1>5. WatchAt' /\ SeenThere'
  BY <1>1, <1>2, <1>4 DEF WatchAt, At, SeenThere
<1> QED
  BY <1>1, <1>3, <1>5
  DEF RowsByMethod, PlansByMethod, WireKnown, BoxKnown, Known, WorkAt, MailKept

\* What a crash leaves of the side that stops.
LEMMA CrashLeaves ==
  ASSUME PostInv, NEW s \in Side, Crash(s)
  PROVE  /\ \A t \in Side : /\ cli'[t] = IF t = s THEN <<>> ELSE cli[t]
                            /\ work'[t] = IF t = s THEN <<>> ELSE work[t]
                            /\ watch'[t] = IF t = s THEN <<>> ELSE watch[t]
         /\ lost \subseteq lost' /\ (watch[s] # <<>> => watch[s][1].ref \in lost')
         /\ UNCHANGED <<out, cursor, seen, wire, box, edits, now, removed>>
         /\ TypeOK'
<1> USE DEF PostInv, TypeOK
<1>1. /\ lost' = lost \cup {watch[s][i].ref : i \in DOMAIN watch[s]}
      /\ cli' = [cli EXCEPT ![s] = <<>>]
      /\ work' = [work EXCEPT ![s] = <<>>]
      /\ watch' = [watch EXCEPT ![s] = <<>>]
      /\ faults' = faults + 1
      /\ UNCHANGED <<out, cursor, seen, wire, box, edits, now, removed>>
  BY DEF Crash, Fault
<1>2. /\ cli' \in [Side -> Opt(AnyClient)] /\ \A t \in Side : cli'[t] = IF t = s THEN <<>> ELSE cli[t]
      /\ work' \in [Side -> Opt(AnyWork)] /\ \A t \in Side : work'[t] = IF t = s THEN <<>> ELSE work[t]
      /\ watch' \in [Side -> Opt(AnyWatch)] /\ \A t \in Side : watch'[t] = IF t = s THEN <<>> ELSE watch[t]
  BY <1>1, OptIn DEF ActorsOK
<1>3. lost' \subseteq Mail /\ lost \subseteq lost' /\ (watch[s] # <<>> => watch[s][1].ref \in lost')
  <2>1. CASE watch[s] = <<>>
    BY <1>1, <2>1 DEF WorldOK
  <2>2. CASE watch[s] # <<>>
    <3>1. DOMAIN watch[s] = {1} /\ watch[s][1].ref \in Mail
      BY <2>2, OptOne, WrittenOK DEF ActorsOK
    <3>2. lost' = lost \cup {watch[s][1].ref}
      BY <1>1, <3>1
    <3> QED
      BY <3>1, <3>2 DEF WorldOK
  <2> QED
    BY <2>1, <2>2
<1>4. /\ obj' \in [Side -> Opt(AnyDoc)] /\ applied' \in [Side -> [Ref -> Nat]]
      /\ processed' \in [Side -> SUBSET Mail] /\ blind' \subseteq Side
  <2>1. CASE UNCHANGED <<obj, processed, applied, blind>>
    BY <2>1 DEF TablesOK, WorldOK
  <2>2. CASE watch[s] # <<>> /\ Written(s) /\ UNCHANGED processed
    BY <2>2, WrittenOK DEF TablesOK
  <2>3. CASE watch[s] # <<>> /\ Written(s) /\ Recorded(s)
    BY <2>3, WrittenOK
  <2> QED
    BY <2>1, <2>2, <2>3 DEF Crash
<1>5. TypeOK'
  BY <1>1, <1>2, <1>3, <1>4 DEF TablesOK, ActorsOK, WorldOK
<1> QED
  BY <1>1, <1>2, <1>3, <1>5

LEMMA PostCrash ==
  ASSUME PostInv, NEW s \in Side, Crash(s)
  PROVE  PostInv' /\ MailKept
<1>1. /\ TypeOK'
      /\ \A t \in Side : /\ cli'[t] = IF t = s THEN <<>> ELSE cli[t]
                         /\ work'[t] = IF t = s THEN <<>> ELSE work[t]
                         /\ watch'[t] = IF t = s THEN <<>> ELSE watch[t]
      /\ UNCHANGED <<out, cursor, seen, wire, box>>
  BY CrashLeaves
<1>2. PlansByMethod' /\ WatchAt' /\ WorkAt'
  BY <1>1 DEF PostInv, PlansByMethod, WatchAt, At, WorkAt
<1> QED
  BY <1>1, <1>2
  DEF PostInv, RowsByMethod, WireKnown, BoxKnown, Known, SeenThere, MailKept

LEMMA PostStep ==
  ASSUME PostInv, [Next]_vars
  PROVE  PostInv' /\ MailKept
<1>1. CASE UNCHANGED vars
  BY <1>1 DEF vars, store, procs, PostInv, TypeOK, TablesOK, ActorsOK, WorldOK, RowsByMethod,
              PlansByMethod, WireKnown, BoxKnown, Known, WatchAt, At, WorkAt, SeenThere, MailKept
<1>2. CASE Next
  <2>1. CASE Deliver \/ Lose
    BY <2>1, PostDeliver, PostLose
  <2>2. ASSUME NEW s \in Side, Plan(s) \/ Commit(s) \/ Worker(s) \/ BackoffEnds(s)
        PROVE  PostInv' /\ MailKept
    BY <2>2, PostPlan, PostCommit, PostSend, PostRetry, PostMarkSent, PostGiveUp, PostStampWrite
    DEF Worker
  <2>3. ASSUME NEW s \in Side, Watcher(s) \/ Move(s) \/ Renumber(s) \/ Crash(s)
        PROVE  PostInv' /\ MailKept
    BY <2>3, PostSkip, PostFetch, PostApply, PostMove, PostRenumber, PostCrash DEF Watcher
  <2> QED
    BY <1>2, <2>1, <2>2, <2>3 DEF Next
<1> QED
  BY <1>1, <1>2

\* Whatever the writers: the tables hold what they should, every reference on its way or in a
\* mailbox leads to a message, and the worker and the watcher are at one that is there.
THEOREM TypesAndMail == Spec => []PostInv
<1>1. PostInv /\ [Next]_vars => PostInv'
  BY PostStep
<1> QED
  BY <1>1, PostInit, PTL DEF Spec

------------------------------------------------------------------------------
(* A message is carried out once, unless its processing broke off *)

OnceInv ==
    /\ \A s \in Side : watch[s] # <<>> => watch[s][1].ref \notin processed[s]
    /\ \A s \in Side : \A r \in Ref : applied[s][r] >= 1 => r \in processed[s] \cup lost
    /\ \A s \in Side : \A r \in Ref : applied[s][r] > 1 => r \in lost

LEMMA OnceStep ==
  ASSUME PostInv, OnceInv, [Next]_vars
  PROVE  OnceInv'
<1>1. CASE UNCHANGED <<watch, processed, applied>> /\ lost \subseteq lost'
  BY <1>1 DEF OnceInv
<1>2. ASSUME NEW s \in Side, Fetch(s) PROVE OnceInv'
  <2>1. /\ watch'[s][1].ref = box[s][At(s)] /\ \A t \in Side \ {s} : watch'[t] = watch[t]
    BY <1>2, PostFetch
  <2>2. UNCHANGED <<processed, applied, lost>> /\ box[s][At(s)] \notin processed[s]
    BY <1>2 DEF Fetch, IsNew
  <2> QED
    BY <2>1, <2>2 DEF OnceInv
<1>3. ASSUME NEW s \in Side, watch[s] # <<>>, Written(s), NEW t \in Side, NEW r \in Ref
      PROVE  /\ applied[t][r] \in Nat
             /\ \/ applied'[t][r] = applied[t][r]
                \/ t = s /\ r = watch[s][1].ref /\ applied'[t][r] = applied[t][r] + 1
  BY <1>3, WrittenOK DEF PostInv, TypeOK, WorldOK
<1>4. ASSUME NEW s \in Side, Apply(s) PROVE OnceInv'
  <2>1. /\ watch[s] # <<>> /\ Written(s) /\ Recorded(s) /\ UNCHANGED lost
        /\ watch' = [watch EXCEPT ![s] = <<>>]
    BY <1>4 DEF Apply
  <2>2. \A t \in Side : watch'[t] = IF t = s THEN <<>> ELSE watch[t]
    BY <2>1 DEF PostInv, TypeOK, ActorsOK
  <2>3. processed'[s] = processed[s] \cup {watch[s][1].ref} /\ \A t \in Side \ {s} : processed'[t] = processed[t]
    BY <2>1, WrittenOK DEF PostInv
  <2>4. \A t \in Side : watch'[t] # <<>> => watch'[t][1].ref \notin processed'[t]
    BY <2>2, <2>3 DEF OnceInv
  <2>5. ASSUME NEW t \in Side, NEW r \in Ref
        PROVE  /\ applied'[t][r] >= 1 => r \in processed'[t] \cup lost'
               /\ applied'[t][r] > 1 => r \in lost'
    <3>1. CASE applied'[t][r] = applied[t][r]
      BY <2>1, <2>3, <3>1 DEF OnceInv
    <3>2. CASE t = s /\ r = watch[s][1].ref /\ applied'[t][r] = applied[t][r] + 1
      <4>1. r \in processed'[t] /\ r \notin processed[t]
        BY <2>1, <2>3, <3>2 DEF OnceInv
      <4>2. applied'[t][r] > 1 => applied[t][r] >= 1
        BY <1>3, <2>1, <3>2
      <4> QED
        BY <2>1, <4>1, <4>2 DEF OnceInv
    <3> QED
      BY <1>3, <2>1, <3>1, <3>2
  <2> QED
    BY <2>4, <2>5 DEF OnceInv
<1>5. ASSUME NEW s \in Side, Crash(s) PROVE OnceInv'
  <2>1. /\ \A t \in Side : watch'[t] = IF t = s THEN <<>> ELSE watch[t]
        /\ lost \subseteq lost' /\ (watch[s] # <<>> => watch[s][1].ref \in lost')
    BY <1>5, CrashLeaves
  <2>2. /\ processed[s] \subseteq processed'[s]
        /\ \A t \in Side \ {s} : processed'[t] = processed[t]
        /\ (watch[s] # <<>> /\ Written(s)) \/ UNCHANGED applied
    BY <1>5, WrittenOK DEF Crash, PostInv
  <2>3. \A t \in Side : watch'[t] # <<>> => watch'[t][1].ref \notin processed'[t]
    BY <2>1, <2>2 DEF OnceInv
  <2>4. ASSUME NEW t \in Side, NEW r \in Ref
        PROVE  /\ applied'[t][r] >= 1 => r \in processed'[t] \cup lost'
               /\ applied'[t][r] > 1 => r \in lost'
    <3>1. CASE applied'[t][r] = applied[t][r]
      BY <2>1, <2>2, <3>1 DEF OnceInv
    <3>2. CASE applied'[t][r] # applied[t][r]
      <4>1. watch[s] # <<>> /\ Written(s)
        BY <2>2, <3>2
      <4>2. r = watch[s][1].ref
        BY <1>3, <3>2, <4>1
      <4> QED
        BY <2>1, <4>1, <4>2
    <3> QED
      BY <3>1, <3>2
  <2> QED
    BY <2>3, <2>4 DEF OnceInv
<1>6. ASSUME NEW s \in Side, Plan(s) \/ Commit(s) \/ Worker(s) \/ BackoffEnds(s)
      PROVE  OnceInv'
  BY <1>1, <1>6 DEF Plan, Commit, Worker, Send, Retry, MarkSent, GiveUp, StampWrite, BackoffEnds, store, procs
<1>7. ASSUME NEW s \in Side, Watcher(s) \/ Move(s) \/ Renumber(s) \/ Crash(s)
      PROVE  OnceInv'
  BY <1>1, <1>2, <1>4, <1>5, <1>7 DEF Watcher, Skip, Move, Renumber, store, procs
<1>8. CASE Deliver \/ Lose
  BY <1>1, <1>8 DEF Deliver, Lose, store, procs
<1>9. CASE UNCHANGED vars
  BY <1>1, <1>9 DEF vars, store, procs
<1> QED
  BY <1>6, <1>7, <1>8, <1>9 DEF Next

\* A message is applied once, whatever else happens to it and whoever writes besides: only one
\* that was cut off by a crash, or lost for good, may be applied again (is_new, process_message).
THEOREM CarriedOutOnce == Spec => [](\A s \in Side : \A r \in Ref : applied[s][r] > 1 => r \in lost)
<1>1. Init => OnceInv
  BY DEF Init, OnceInv
<1>2. PostInv /\ OnceInv /\ [Next]_vars => OnceInv'
  BY OnceStep
<1>3. OnceInv => \A s \in Side : \A r \in Ref : applied[s][r] > 1 => r \in lost
  BY DEF OnceInv
<1> QED
  BY <1>1, <1>2, <1>3, TypesAndMail, PTL DEF Spec

------------------------------------------------------------------------------
(* What the attendee's server holds comes from what the organizer's sent *)

OrgRow(i) == out["org"][i]

IsRequest(i) == OrgRow(i).msg.method = "REQUEST"

Announced(d) == \E i \in DOMAIN out["org"] : IsRequest(i) /\ Alike(OrgRow(i).msg.doc, d)

Numbered(d) == \E i \in DOMAIN out["org"] : OrgRow(i).msg.doc.seq = d.seq

\* A copy in force is of a request; one called off has the number of some message.
IsCopy(d) == (IsCancelled(d) \/ Announced(d)) /\ Numbered(d)

CopyInv ==
    /\ obj["att"] # <<>> => IsCopy(obj["att"][1])
    /\ cli["att"] # <<>> /\ cli["att"][1].plan.doc # <<>> => IsCopy(cli["att"][1].plan.doc[1])
    /\ work["att"] # <<>> /\ work["att"][1].doc # <<>> => IsCopy(work["att"][1].doc[1])
    /\ watch["att"] # <<>> /\ watch["att"][1].doc # <<>> => IsCopy(watch["att"][1].doc[1])

LEMMA CopyKept ==
  ASSUME MailKept, NEW d, IsCopy(d)
  PROVE  IsCopy(d)'
BY Sides DEF MailKept, IsCopy, Announced, Numbered, IsRequest, OrgRow

LEMMA SameCopy ==
  ASSUME NEW d, NEW e, IsCopy(e), SameMeeting(d, e)
  PROVE  IsCopy(d)
BY DEF IsCopy, Announced, Numbered, SameMeeting, Alike, IsCancelled

\* What the attendee's server makes of a message is a copy.
LEMMA TakenIsCopy ==
  ASSUME PostInv, NEW r \in Mail, Known(r), r[1] = "org", NEW t \in Nat,
         obj["att"] # <<>> => IsCopy(obj["att"][1]),
         ApplyInbound(obj["att"], MessageOf(r), t) # <<>>
  PROVE  IsCopy(ApplyInbound(obj["att"], MessageOf(r), t)[1])
<1> DEFINE m == MessageOf(r)
           d == ApplyInbound(obj["att"], m, t)
<1>1. m \in AnyMessage /\ m = OrgRow(r[2]).msg /\ r[2] \in DOMAIN out["org"] /\ obj["att"] \in Opt(AnyDoc)
  BY MessageIn, Sides DEF PostInv, TypeOK, TablesOK, MessageOf, OrgRow, Known
<1>2. m.method \in {"REQUEST", "CANCEL"}
  BY <1>1, Sides DEF PostInv, RowsByMethod, Methods, OrgRow
<1>3. CASE m.method = "REQUEST"
  <2>1. d = ApplyRequest(obj["att"], m.doc) /\ m.doc \in AnyDoc
    BY <1>1, <1>3, InboundOK
  <2>2. SameMeeting(d[1], m.doc)
    BY <1>1, <2>1, RequestTaken
  <2>3. Alike(m.doc, m.doc) /\ m.doc.seq = m.doc.seq
    BY DEF Alike
  <2>4. IsCopy(m.doc)
    BY <1>1, <1>3, <2>3 DEF IsCopy, Announced, Numbered, IsRequest
  <2> QED
    BY <2>2, <2>4, SameCopy
<1>4. CASE m.method = "CANCEL"
  <2>1. d = ApplyCancel(obj["att"], m.doc, t) /\ m.doc \in AnyDoc
    BY <1>1, <1>4, InboundOK
  <2>2. d[1].seq = m.doc.seq /\ IsCancelled(d[1])
    BY <1>1, <2>1, CancelTaken
  <2> QED
    BY <1>1, <2>2 DEF IsCopy, Numbered
<1> QED
  BY <1>2, <1>3, <1>4

LEMMA CopyStep ==
  ASSUME PostInv, CopyInv, [Next]_vars
  PROVE  CopyInv'
<1> DEFINE a == "att"
<1>0. MailKept /\ PostInv' /\ a \in Side
  BY PostStep, Sides
<1>1. \A d : IsCopy(d) => IsCopy(d)'
  BY <1>0, CopyKept
<1>2. CASE UNCHANGED <<obj[a], cli[a], work[a], watch[a]>>
  BY <1>1, <1>2 DEF CopyInv
<1>3. ASSUME Plan(a) PROVE CopyInv'
  <2>1. /\ cli'[a][1].plan.doc # <<>> =>
             obj[a] # <<>> /\ SameMeeting(cli'[a][1].plan.doc[1], obj[a][1])
    BY <1>0, <1>3, PostPlan
  <2>2. cli'[a][1].plan.doc # <<>> => IsCopy(cli'[a][1].plan.doc[1])
    BY <2>1, SameCopy DEF CopyInv
  <2>3. UNCHANGED <<obj, work, watch, out>>
    BY <1>3 DEF Plan, store
  <2> QED
    BY <2>2, <2>3 DEF CopyInv, IsCopy, Announced, Numbered, IsRequest, OrgRow
<1>4. ASSUME Commit(a) PROVE CopyInv'
  <2>1. /\ cli[a] # <<>> /\ UNCHANGED <<work, watch>>
        /\ cli'[a] = <<>>
        /\ obj'[a] = obj[a] \/ obj'[a] = cli[a][1].plan.doc
    BY <1>0, <1>4 DEF Commit, PostInv, TypeOK, TablesOK, ActorsOK
  <2> QED
    BY <1>1, <2>1 DEF CopyInv
<1>5. ASSUME Send(a) PROVE CopyInv'
  <2>1. work'[a] # <<>> => work'[a][1].doc = <<>>
    <3>1. PICK i \in DOMAIN out[a] : work' = [work EXCEPT ![a] = <<[row |-> i, at |-> "mark", old |-> <<>>, doc |-> <<>>]>>]
      BY <1>5 DEF Send
    <3>2. work'[a] = <<[row |-> i, at |-> "mark", old |-> <<>>, doc |-> <<>>]>>
      BY <1>0, <3>1 DEF PostInv, TypeOK, ActorsOK
    <3> QED
      BY <3>2, One
  <2>2. UNCHANGED <<obj, cli, watch>>
    BY <1>5 DEF Send, store
  <2> QED
    BY <1>1, <2>1, <2>2 DEF CopyInv
<1>6. ASSUME MarkSent(a) \/ GiveUp(a) PROVE CopyInv'
  <2>1. \E x \in {"1.1", "5.1"} : work'[a][1].doc = Stamped(a, x)
    BY <1>0, <1>6, PostMarkSent, PostGiveUp
  <2>2. work'[a][1].doc # <<>> => obj[a] # <<>> /\ SameMeeting(work'[a][1].doc[1], obj[a][1])
    BY <1>0, <2>1, StampedOK DEF PostInv, TypeOK, TablesOK
  <2>3. PICK d : d = work'[a][1].doc[1]
    OBVIOUS
  <2>4. work'[a][1].doc # <<>> => IsCopy(d)
    BY <2>2, <2>3, SameCopy DEF CopyInv
  <2>5. work'[a][1].doc # <<>> => IsCopy(d)'
    BY <1>1, <2>4
  <2>6. UNCHANGED <<obj, cli, watch>>
    BY <1>6 DEF MarkSent, GiveUp
  <2> QED
    BY <1>1, <2>3, <2>5, <2>6 DEF CopyInv
<1>7. ASSUME StampWrite(a) PROVE CopyInv'
  <2>1. /\ work[a] # <<>> /\ work'[a] = <<>> /\ UNCHANGED <<cli, watch>>
        /\ obj'[a] = IF work[a][1].doc = <<>> THEN obj[a] ELSE work[a][1].doc
    BY <1>0, <1>7 DEF StampWrite, Replaces, PostInv, TypeOK, TablesOK, ActorsOK
  <2> QED
    BY <1>1, <2>1 DEF CopyInv
<1>8. ASSUME Fetch(a) PROVE CopyInv'
  <2> DEFINE r == box[a][At(a)]
  <2>1. /\ r \in Mail /\ Known(r) /\ r[1] = "org" /\ Clock \in Nat
        /\ watch'[a][1].doc = ApplyInbound(obj[a], MessageOf(r), Clock)
    BY <1>0, <1>8, PostFetch, Sides
  <2> HIDE DEF r
  <2>2. watch'[a][1].doc # <<>> => IsCopy(watch'[a][1].doc[1])
    BY <2>1, TakenIsCopy DEF CopyInv
  <2>3. UNCHANGED <<obj, cli, work, out>>
    BY <1>8 DEF Fetch
  <2> QED
    BY <2>2, <2>3 DEF CopyInv, IsCopy, Announced, Numbered, IsRequest, OrgRow
<1>9. ASSUME watch[a] # <<>>, Written(a), watch'[a] = <<>>, UNCHANGED <<cli[a], work[a]>> \/ (cli'[a] = <<>> /\ work'[a] = <<>>)
      PROVE  CopyInv'
  <2>1. obj'[a] = IF watch[a][1].doc = <<>> THEN obj[a] ELSE watch[a][1].doc
    BY <1>0, <1>9, WrittenOK DEF PostInv
  <2> QED
    BY <1>1, <1>9, <2>1 DEF CopyInv
<1>10. ASSUME Apply(a) PROVE CopyInv'
  <2>1. watch'[a] = <<>>
    BY <1>0, <1>10 DEF Apply, PostInv, TypeOK, ActorsOK
  <2> QED
    BY <1>9, <1>10, <2>1 DEF Apply
<1>11. ASSUME Crash(a) PROVE CopyInv'
  <2>1. cli'[a] = <<>> /\ work'[a] = <<>> /\ watch'[a] = <<>>
    BY <1>0, <1>11, CrashLeaves
  <2>2. (watch[a] # <<>> /\ Written(a)) \/ UNCHANGED obj
    BY <1>11 DEF Crash
  <2> QED
    BY <1>1, <1>9, <2>1, <2>2 DEF CopyInv
<1>12. ASSUME NEW s \in Side, s # a, Plan(s) \/ Commit(s) \/ Worker(s) \/ Fetch(s) \/ Apply(s) \/ Crash(s)
       PROVE  CopyInv'
  <2>1. UNCHANGED <<obj[a], cli[a], work[a], watch[a]>>
    <3> USE DEF PostInv, TypeOK, TablesOK, ActorsOK
    <3>1. CASE Plan(s)
      BY <1>0, <1>12, <3>1 DEF Plan, store
    <3>2. CASE Commit(s)
      BY <1>0, <1>12, <3>2 DEF Commit
    <3>3. CASE Send(s) \/ Retry(s) \/ StampWrite(s)
      BY <1>0, <1>12, <3>3 DEF Send, Retry, StampWrite, Replaces, store, procs
    <3>4. CASE MarkSent(s) \/ GiveUp(s)
      BY <1>0, <1>12, <3>4, PostMarkSent, PostGiveUp DEF MarkSent, GiveUp
    <3>5. CASE Fetch(s)
      BY <1>0, <1>12, <3>5 DEF Fetch
    <3>6. CASE Apply(s)
      BY <1>0, <1>12, <3>6 DEF Apply, Written, Replaces
    <3>7. CASE Crash(s)
      BY <1>0, <1>12, <3>7 DEF Crash, Written, Replaces
    <3> QED
      BY <1>12, <3>1, <3>2, <3>3, <3>4, <3>5, <3>6, <3>7 DEF Worker
  <2> QED
    BY <1>2, <2>1
<1>13. ASSUME NEW s \in Side, Retry(s) \/ BackoffEnds(s) \/ Skip(s) \/ Move(s) \/ Renumber(s)
       PROVE  CopyInv'
  BY <1>2, <1>13 DEF Retry, BackoffEnds, Skip, Move, Renumber, store, procs
<1>14. CASE Deliver \/ Lose \/ UNCHANGED vars
  BY <1>2, <1>14 DEF Deliver, Lose, vars, store, procs
<1>15. ASSUME NEW s \in Side, Plan(s) \/ Commit(s) \/ Worker(s) \/ Fetch(s) \/ Apply(s) \/ Crash(s)
       PROVE  CopyInv'
  BY <1>3, <1>4, <1>5, <1>6, <1>7, <1>8, <1>10, <1>11, <1>12, <1>13, <1>15 DEF Worker
<1> QED
  BY <1>13, <1>14, <1>15 DEF Next, Watcher

LEMMA CopyInit == Init => CopyInv
BY Sides DEF Init, CopyInv

LEMMA CopiesAlways == Spec => []CopyInv
<1>1. PostInv /\ CopyInv /\ [Next]_vars => CopyInv'
  BY CopyStep
<1> QED
  BY <1>1, CopyInit, TypesAndMail, PTL DEF Spec

------------------------------------------------------------------------------
(* What was blind stays so *)

LEMMA BlindStays ==
  ASSUME PostInv, [Next]_vars
  PROVE  blind \subseteq blind'
<1>1. CASE UNCHANGED blind
  BY <1>1
<1>2. ASSUME NEW s \in Side, Commit(s) \/ StampWrite(s)
      PROVE  blind \subseteq blind'
  BY <1>2 DEF Commit, StampWrite, Replaces
<1>3. ASSUME NEW s \in Side, Apply(s) \/ Crash(s)
      PROVE  blind \subseteq blind'
  BY <1>3, WrittenOK DEF Apply, Crash, PostInv
<1>4. ASSUME NEW s \in Side, Plan(s) \/ Send(s) \/ Retry(s) \/ MarkSent(s) \/ GiveUp(s) \/ BackoffEnds(s)
      PROVE  UNCHANGED blind
  BY <1>4 DEF Plan, Send, Retry, MarkSent, GiveUp, BackoffEnds
<1>5. ASSUME NEW s \in Side, Skip(s) \/ Fetch(s) \/ Move(s) \/ Renumber(s)
      PROVE  UNCHANGED blind
  BY <1>5 DEF Skip, Fetch, Move, Renumber
<1>6. ASSUME Deliver \/ Lose \/ UNCHANGED vars
      PROVE  UNCHANGED blind
  BY <1>6 DEF Deliver, Lose, vars
<1> QED
  BY <1>1, <1>2, <1>3, <1>4, <1>5, <1>6 DEF Next, Worker, Watcher

------------------------------------------------------------------------------
(* The organizer's object is at or past every message about it *)

Covers(d, msg) ==
    /\ msg.doc.seq <= d.seq
    /\ msg.method = "REQUEST" /\ msg.doc.seq = d.seq => msg.doc.when = d.when

Current == obj["org"] # <<>> => \A i \in DOMAIN out["org"] : Covers(obj["org"][1], OrgRow(i).msg)

ToldApart ==
    \A i, j \in DOMAIN out["org"] :
      IsRequest(i) /\ IsRequest(j) /\ OrgRow(i).msg.doc.seq = OrgRow(j).msg.doc.seq
        => OrgRow(i).msg.doc.when = OrgRow(j).msg.doc.when

\* A meeting that is on has been announced as it is.
InForce == obj["org"] # <<>> /\ obj["org"][1].on /\ ~IsCancelled(obj["org"][1])
             => Announced(obj["org"][1])

Untouched == edits["org"] = 0 => obj["org"] = <<>> /\ out["org"] = <<>>

\* What a client of the organizer's is about to commit.
Planned ==
    cli["org"] # <<>> =>
      LET r == cli["org"][1]
      IN  PlanKeeps(r.old, r.plan) /\ (r.old = <<>> => out["org"] = <<>>) /\ edits["org"] # 0

\* What a worker or watcher is about to write is the meeting as it read it.
KeptAside ==
    /\ work["org"] # <<>> /\ work["org"][1].doc # <<>> =>
         LET w == work["org"][1] IN w.old # <<>> /\ SameMeeting(w.doc[1], w.old[1])
    /\ watch["org"] # <<>> /\ watch["org"][1].doc # <<>> =>
         LET w == watch["org"][1] IN w.old # <<>> /\ SameMeeting(w.doc[1], w.old[1])

MeetingInv == Current /\ ToldApart /\ InForce /\ Untouched /\ Planned /\ KeptAside

LEMMA NoneIsEmpty ==
  ASSUME NEW S, NEW q \in Seq(S), DOMAIN q = {}
  PROVE  q = <<>>
<1>1. Len(q) \in Nat /\ DOMAIN q = 1 .. Len(q)
  OBVIOUS
<1>2. Len(q) = 0
  <2>1. 1 \notin 1 .. Len(q)
    BY <1>1
  <2> QED
    BY <1>1, <2>1
<1> QED
  BY <1>2

LEMMA NewRowTells == \A m : NewRow(m).msg = m /\ NewRow(m).state = "pending"
BY DEF NewRow

\* A step that sends nothing new and leaves the meeting as it is.
Calm ==
    /\ DOMAIN out'["org"] = DOMAIN out["org"]
    /\ obj["org"] = <<>> => obj'["org"] = <<>>
    /\ obj["org"] # <<>> => obj'["org"] # <<>> /\ SameMeeting(obj'["org"][1], obj["org"][1])

LEMMA CalmKeeps ==
  ASSUME PostInv, PostInv', MailKept, MeetingInv, Calm
  PROVE  Current' /\ ToldApart' /\ InForce' /\ (out["org"] = <<>> => out'["org"] = <<>>)
<1>1. /\ DOMAIN out'["org"] = DOMAIN out["org"]
      /\ \A i \in DOMAIN out["org"] : out'["org"][i].msg = out["org"][i].msg
  BY Sides DEF Calm, MailKept
<1>2. ToldApart'
  BY <1>1 DEF MeetingInv, ToldApart, IsRequest, OrgRow
<1>3. Current'
  BY <1>1 DEF MeetingInv, Current, Calm, Covers, SameMeeting, Alike, OrgRow
<1>4. \A d, e : Announced(e) /\ Alike(d, e) => Announced(d)'
  BY <1>1 DEF Announced, IsRequest, OrgRow, Alike
<1>5. obj'["org"] # <<>> /\ obj'["org"][1].on /\ ~IsCancelled(obj'["org"][1]) =>
        \E i \in DOMAIN out["org"] : IsRequest(i) /\ Alike(OrgRow(i).msg.doc, obj'["org"][1])
  BY DEF MeetingInv, InForce, Announced, Calm, SameMeeting, Alike, IsCancelled
<1>6. InForce'
  BY <1>1, <1>5 DEF InForce, Announced, IsRequest, OrgRow
<1>7. out["org"] = <<>> => out'["org"] = <<>>
  <2>1. out["org"] \in Seq(AnyRow)
    BY Sides DEF PostInv, TypeOK, TablesOK
  <2> SUFFICES ASSUME out["org"] = <<>> PROVE out'["org"] = <<>>
    OBVIOUS
  <2>2. DOMAIN out'["org"] = {}
    BY <1>1
  <2>3. out'["org"] \in Seq(AnyRow)
    BY Sides DEF PostInv, TypeOK, TablesOK
  <2> QED
    BY <2>2, <2>3, NoneIsEmpty
<1> QED
  BY <1>2, <1>3, <1>6, <1>7

\* The transaction of a client's write: the plan was made over the object it replaces.
LEMMA MeetingCommits ==
  ASSUME "org" \notin blind', PostInv, MeetingInv, Commit("org"), PostInv', MailKept
  PROVE  MeetingInv'
<1> DEFINE o == "org"
           r == cli[o][1]
           msgs == r.plan.msgs
           n == Len(out[o])
           holds == (r.guarded => obj[o] = r.old) /\ (r.plan.doc = <<>> => obj[o] # <<>>)
<1>0. o \in Side
  BY Sides
<1>1. /\ cli[o] # <<>>
      /\ obj' = [obj EXCEPT ![o] = IF holds THEN r.plan.doc ELSE @]
      /\ out' = [out EXCEPT ![o] = IF holds THEN @ \o NewRows(msgs) ELSE @]
      /\ cli' = [cli EXCEPT ![o] = <<>>]
      /\ UNCHANGED <<work, watch, edits>>
      /\ holds => obj[o] = r.old
  BY Sides DEF Commit
<1>2. /\ obj \in [Side -> Opt(AnyDoc)] /\ out \in [Side -> Seq(AnyRow)] /\ o \in Side
      /\ r \in AnyClient /\ out[o] \in Seq(AnyRow) /\ obj[o] \in Opt(AnyDoc)
  BY <1>1, Sides, OptOne DEF PostInv, TypeOK, TablesOK, ActorsOK
<1>3. r.plan.doc \in Opt(AnyDoc) /\ msgs \in Seq(AnyMessage) /\ r.old \in Opt(AnyDoc)
  BY <1>2 DEF AnyClient, AnyPlan
<1>4. PlanKeeps(r.old, r.plan) /\ (r.old = <<>> => out[o] = <<>>) /\ edits[o] # 0
  BY <1>1 DEF MeetingInv, Planned
<1>5. cli'[o] = <<>>
  BY <1>1, <1>2 DEF PostInv, TypeOK, ActorsOK
<1>6. Untouched' /\ Planned' /\ KeptAside'
  BY <1>1, <1>4, <1>5 DEF Untouched, Planned, KeptAside, MeetingInv
<1>7. CASE ~holds
  <2>1. obj'[o] = obj[o] /\ out'[o] = out[o]
    BY <1>1, <1>2, <1>7
  <2>2. Calm
    BY <2>1 DEF Calm, SameMeeting, Alike
  <2> QED
    BY <1>6, <2>2, CalmKeeps DEF MeetingInv
<1>8. CASE holds
  <2>1. /\ obj'[o] = r.plan.doc /\ obj[o] = r.old
        /\ out' = [out EXCEPT ![o] = @ \o NewRows(msgs)]
    BY <1>1, <1>2, <1>3, <1>8
  <2> DEFINE d == r.plan.doc[1]
             new == {j \in DOMAIN out'[o] : \E i \in DOMAIN msgs : j = n + i /\ out'[o][j] = NewRow(msgs[i])}
  <2> HIDE DEF r, holds
  <2>2. /\ \A j \in DOMAIN out'[o] : j \in new \/ (j \in DOMAIN out[o] /\ out'[o][j] = out[o][j])
        /\ \A i \in DOMAIN msgs : n + i \in DOMAIN out'[o] /\ out'[o][n + i] = NewRow(msgs[i])
        /\ \A j \in DOMAIN out[o] : j \in DOMAIN out'[o] /\ out'[o][j] = out[o][j]
    <3> HIDE DEF msgs
    <3>1. /\ \A j \in DOMAIN out'[o] :
               \/ j \in DOMAIN out[o] /\ out'[o][j] = out[o][j]
               \/ \E i \in DOMAIN msgs : j = Len(out[o]) + i /\ out'[o][j] = NewRow(msgs[i])
          /\ \A i \in DOMAIN msgs : /\ Len(out[o]) + i \in DOMAIN out'[o]
                                    /\ out'[o][Len(out[o]) + i] = NewRow(msgs[i])
          /\ \A j \in DOMAIN out[o] : out'[o][j] = out[o][j]
      <4>1. /\ out \in [Side -> Seq(AnyRow)] /\ msgs \in Seq(AnyMessage)
            /\ out' = [out EXCEPT ![o] = @ \o NewRows(msgs)]
        BY <1>2, <1>3, <2>1
      <4> HIDE DEF o
      <4> QED
        BY <1>0, <4>1, RowsAdded, ZenonT(60)
    <3> QED
      BY <1>0, <3>1 DEF MailKept
  <2>3. \A j \in new : \E i \in DOMAIN msgs : out'[o][j].msg = msgs[i]
    BY NewRowTells
  <2>4. r.plan.doc # <<>> => \A j \in DOMAIN out'[o] : Covers(d, out'[o][j].msg)
    <3> SUFFICES ASSUME r.plan.doc # <<>>, NEW j \in DOMAIN out'[o] PROVE Covers(d, out'[o][j].msg)
      OBVIOUS
    <3>1. CASE j \in new
      BY <1>4, <2>3, <3>1 DEF PlanKeeps, Covers, Alike
    <3>2. CASE j \in DOMAIN out[o] /\ out'[o][j] = out[o][j]
      <4>1. r.old # <<>>
        BY <1>4, <3>2
      <4>2. Covers(r.old[1], out[o][j].msg)
        BY <2>1, <3>2, <4>1 DEF MeetingInv, Current, OrgRow
      <4>3. r.old[1].seq <= d.seq /\ (r.old[1].seq = d.seq => r.old[1].when = d.when)
        BY <1>4, <4>1 DEF PlanKeeps
      <4>4. r.old[1].seq \in Nat /\ d.seq \in Nat
        BY <1>3, <4>1, OptOne, FieldsOK
      <4>5. out[o][j].msg.doc.seq \in Nat
        BY <1>2, <3>2, RowIn, RowFields, FieldsOK DEF AnyMessage, PostInv, TypeOK
      <4> HIDE DEF d
      <4> QED
        BY <3>2, <4>2, <4>3, <4>4, <4>5 DEF Covers
    <3> QED
      BY <2>2, <3>1, <3>2
  <2>5. \A j \in new : out'[o][j].msg.method = "REQUEST" => r.plan.doc # <<>> /\ Alike(out'[o][j].msg.doc, d)
    BY <1>4, <2>3 DEF PlanKeeps
  <2>6. Current'
    BY <2>1, <2>4 DEF Current, OrgRow
  <2>7. ToldApart'
    <3> SUFFICES ASSUME NEW i \in DOMAIN out'[o], NEW j \in DOMAIN out'[o],
                        out'[o][i].msg.method = "REQUEST", out'[o][j].msg.method = "REQUEST",
                        out'[o][i].msg.doc.seq = out'[o][j].msg.doc.seq
                 PROVE  out'[o][i].msg.doc.when = out'[o][j].msg.doc.when
      BY DEF ToldApart, IsRequest, OrgRow
    <3>1. CASE i \in new \/ j \in new
      <4>1. r.plan.doc # <<>>
        BY <2>5, <3>1
      <4>2. Covers(d, out'[o][i].msg) /\ Covers(d, out'[o][j].msg)
        BY <2>4, <4>1
      <4>3. Alike(out'[o][i].msg.doc, d) \/ Alike(out'[o][j].msg.doc, d)
        BY <2>5, <3>1
      <4> QED
        BY <4>2, <4>3 DEF Covers, Alike
    <3>2. CASE ~(i \in new \/ j \in new)
      <4>1. i \in DOMAIN out[o] /\ out'[o][i] = out[o][i] /\ j \in DOMAIN out[o] /\ out'[o][j] = out[o][j]
        BY <2>2, <3>2
      <4> QED
        BY <4>1 DEF MeetingInv, ToldApart, IsRequest, OrgRow
    <3> QED
      BY <3>1, <3>2
  <2>8. InForce'
    <3> SUFFICES ASSUME r.plan.doc # <<>>, d.on, ~IsCancelled(d)
                 PROVE  \E j \in DOMAIN out'[o] : out'[o][j].msg.method = "REQUEST" /\ Alike(out'[o][j].msg.doc, d)
      BY <2>1 DEF InForce, Announced, IsRequest, OrgRow
    <3>1. CASE \E i \in DOMAIN msgs : msgs[i].method = "REQUEST"
      <4>1. PICK i \in DOMAIN msgs : msgs[i].method = "REQUEST"
        BY <3>1
      <4>2. n + i \in DOMAIN out'[o] /\ out'[o][n + i].msg = msgs[i]
        BY <2>2, <4>1, NewRowTells
      <4>3. Alike(msgs[i].doc, d)
        BY <1>4, <4>1 DEF PlanKeeps
      <4> QED
        BY <4>1, <4>2, <4>3
    <3>2. CASE r.old # <<>> /\ SameMeeting(r.old[1], d)
      <4>1. r.old[1].on /\ ~IsCancelled(r.old[1])
        BY <3>2 DEF SameMeeting, IsCancelled
      <4>2. PICK i \in DOMAIN out[o] : out[o][i].msg.method = "REQUEST" /\ Alike(out[o][i].msg.doc, r.old[1])
        BY <2>1, <3>2, <4>1 DEF MeetingInv, InForce, Announced, IsRequest, OrgRow
      <4> QED
        BY <2>2, <3>2, <4>2 DEF SameMeeting, Alike
    <3> QED
      BY <1>4, <3>1, <3>2 DEF PlanKeeps
  <2> QED
    BY <1>6, <2>6, <2>7, <2>8 DEF MeetingInv
<1> QED
  BY <1>7, <1>8

LEMMA MeetingStep ==
  ASSUME "org" \notin blind', PostInv, MeetingInv, [Next]_vars
  PROVE  MeetingInv'
<1> DEFINE o == "org"
<1>0. MailKept /\ PostInv' /\ o \in Side
  BY PostStep, Sides
<1>1. ASSUME Calm, UNCHANGED edits[o], cli'[o] = cli[o] \/ cli'[o] = <<>>, KeptAside'
      PROVE  MeetingInv'
  <2>1. Current' /\ ToldApart' /\ InForce' /\ (out[o] = <<>> => out'[o] = <<>>)
    BY <1>0, <1>1, CalmKeeps
  <2>2. Untouched'
    BY <1>1, <2>1 DEF MeetingInv, Untouched, Calm
  <2>3. Planned'
    BY <1>1, <2>1 DEF MeetingInv, Planned
  <2> QED
    BY <1>1, <2>1, <2>2, <2>3 DEF MeetingInv
<1>2. ASSUME obj'[o] = obj[o], DOMAIN out'[o] = DOMAIN out[o] PROVE Calm
  BY <1>2 DEF Calm, SameMeeting, Alike
<1>3. ASSUME UNCHANGED <<obj[o], cli[o], work[o], watch[o], edits[o]>>, DOMAIN out'[o] = DOMAIN out[o]
      PROVE  MeetingInv'
  <2>1. KeptAside'
    BY <1>3 DEF MeetingInv, KeptAside
  <2> QED
    BY <1>1, <1>2, <1>3, <2>1
<1>4. ASSUME Plan(o) PROVE MeetingInv'
  <2> DEFINE r == cli'[o][1]
  <2>1. /\ r.old = obj[o] /\ PlanOK(o, obj[o], r.plan)
        /\ obj[o] = <<>> => edits[o] = 0
    BY <1>0, <1>4, PostPlan
  <2>2. UNCHANGED <<obj, out, work, watch>> /\ edits' = [edits EXCEPT ![o] = @ + 1]
    BY <1>4 DEF Plan, store
  <2>3. edits'[o] # 0
    BY <1>0, <2>2 DEF PostInv, TypeOK, WorldOK
  <2>4. Planned' /\ Untouched'
    BY <2>1, <2>2, <2>3 DEF MeetingInv, Planned, Untouched, PlanOK
  <2> QED
    BY <2>2, <2>4 DEF MeetingInv, Current, ToldApart, InForce, Announced, IsRequest, OrgRow, KeptAside
<1>5. ASSUME Send(o) PROVE MeetingInv'
  <2>1. UNCHANGED <<obj, out, cli, watch, edits>>
    BY <1>5 DEF Send, store
  <2>2. work'[o] # <<>> => work'[o][1].doc = <<>>
    <3>1. PICK i \in DOMAIN out[o] : work' = [work EXCEPT ![o] = <<[row |-> i, at |-> "mark", old |-> <<>>, doc |-> <<>>]>>]
      BY <1>5 DEF Send
    <3>2. work'[o] = <<[row |-> i, at |-> "mark", old |-> <<>>, doc |-> <<>>]>>
      BY <1>0, <3>1 DEF PostInv, TypeOK, ActorsOK
    <3> QED
      BY <3>2, One
  <2>3. KeptAside'
    BY <2>1, <2>2 DEF MeetingInv, KeptAside
  <2> QED
    BY <1>1, <1>2, <2>1, <2>3
<1>6. ASSUME MarkSent(o) \/ GiveUp(o) PROVE MeetingInv'
  <2>1. work'[o][1].old = obj[o] /\ \E x \in {"1.1", "5.1"} : work'[o][1].doc = Stamped(o, x)
    BY <1>0, <1>6, PostMarkSent, PostGiveUp
  <2>2. work'[o][1].doc # <<>> => obj[o] # <<>> /\ SameMeeting(work'[o][1].doc[1], obj[o][1])
    BY <1>0, <2>1, StampedOK DEF PostInv, TypeOK, TablesOK
  <2>3. UNCHANGED <<obj, cli, watch, edits>> /\ DOMAIN out'[o] = DOMAIN out[o]
    BY <1>0, <1>6 DEF MarkSent, GiveUp, PostInv, TypeOK, TablesOK
  <2>4. KeptAside'
    BY <2>1, <2>2, <2>3 DEF MeetingInv, KeptAside
  <2> QED
    BY <1>1, <1>2, <2>3, <2>4
<1>7. ASSUME StampWrite(o) PROVE MeetingInv'
  <2>1. /\ work[o] # <<>> /\ work'[o] = <<>> /\ UNCHANGED <<out, cli, watch, edits>>
        /\ obj'[o] = IF work[o][1].doc = <<>> THEN obj[o] ELSE work[o][1].doc
        /\ work[o][1].doc # <<>> => obj[o] = work[o][1].old
    BY <1>0, <1>7 DEF StampWrite, Replaces, PostInv, TypeOK, TablesOK, ActorsOK
  <2>2. Calm
    BY <2>1 DEF MeetingInv, KeptAside, Calm, SameMeeting, Alike
  <2>3. KeptAside'
    BY <2>1 DEF MeetingInv, KeptAside
  <2> QED
    BY <1>1, <2>1, <2>2, <2>3
<1>8. ASSUME Fetch(o) PROVE MeetingInv'
  <2> DEFINE r == box[o][At(o)]
             m == MessageOf(r)
  <2>1. /\ r \in Mail /\ Known(r) /\ r[1] = "att" /\ Clock \in Nat
        /\ watch'[o][1].doc = ApplyInbound(obj[o], m, Clock) /\ watch'[o][1].old = obj[o]
    BY <1>0, <1>8, PostFetch, Sides
  <2>2. m \in AnyMessage /\ m.method = "REPLY"
    BY <2>1, MessageIn, Sides DEF PostInv, RowsByMethod, Methods, MessageOf, Known
  <2>3. obj[o] \in Opt(AnyDoc)
    BY <1>0 DEF PostInv, TypeOK, TablesOK
  <2> HIDE DEF m, r
  <2>4. watch'[o][1].doc = ApplyReply(obj[o], m.doc, Clock) /\ m.doc \in AnyDoc
    BY <2>1, <2>2, <2>3, InboundOK
  <2>5. watch'[o][1].doc # <<>> => obj[o] # <<>> /\ SameMeeting(watch'[o][1].doc[1], obj[o][1])
    BY <2>1, <2>3, <2>4, ReplyTaken
  <2>6. UNCHANGED <<obj, out, cli, work, edits>>
    BY <1>8 DEF Fetch
  <2>7. KeptAside'
    BY <2>1, <2>5, <2>6 DEF MeetingInv, KeptAside
  <2> QED
    BY <1>1, <1>2, <2>6, <2>7
<1>9. ASSUME watch[o] # <<>>, Written(o), watch'[o] = <<>>, work'[o] = work[o] \/ work'[o] = <<>>, UNCHANGED <<out, edits>>,
             cli'[o] = cli[o] \/ cli'[o] = <<>>
      PROVE  MeetingInv'
  <2>1. /\ obj'[o] = IF watch[o][1].doc = <<>> THEN obj[o] ELSE watch[o][1].doc
        /\ watch[o][1].doc # <<>> => obj[o] = watch[o][1].old
    BY <1>0, <1>9, WrittenOK DEF PostInv
  <2>2. Calm
    BY <1>9, <2>1 DEF MeetingInv, KeptAside, Calm, SameMeeting, Alike
  <2>3. KeptAside'
    BY <1>9 DEF MeetingInv, KeptAside
  <2> QED
    BY <1>1, <1>9, <2>2, <2>3
<1>10. ASSUME Apply(o) PROVE MeetingInv'
  <2>1. watch'[o] = <<>>
    BY <1>0, <1>10 DEF Apply, PostInv, TypeOK, ActorsOK
  <2> QED
    BY <1>9, <1>10, <2>1 DEF Apply
<1>11. ASSUME Crash(o) PROVE MeetingInv'
  <2>1. cli'[o] = <<>> /\ work'[o] = <<>> /\ watch'[o] = <<>> /\ UNCHANGED <<out, edits>>
    BY <1>0, <1>11, CrashLeaves
  <2>2. (watch[o] # <<>> /\ Written(o)) \/ UNCHANGED obj
    BY <1>11 DEF Crash
  <2>3. KeptAside'
    BY <2>1 DEF KeptAside
  <2> QED
    BY <1>1, <1>2, <1>9, <2>1, <2>2, <2>3
<1>12. ASSUME Retry(o) \/ BackoffEnds(o) PROVE MeetingInv'
  <2>1. UNCHANGED <<obj, cli, work, watch, edits>> /\ DOMAIN out'[o] = DOMAIN out[o]
    BY <1>0, <1>12 DEF Retry, BackoffEnds, procs, PostInv, TypeOK, TablesOK
  <2> QED
    BY <1>3, <2>1
<1>13. ASSUME NEW s \in Side, s # o, Plan(s) \/ Commit(s) \/ Worker(s) \/ BackoffEnds(s) \/ Fetch(s) \/ Apply(s) \/ Crash(s)
       PROVE  MeetingInv'
  <2>1. UNCHANGED <<obj[o], cli[o], work[o], watch[o], edits[o]>> /\ DOMAIN out'[o] = DOMAIN out[o]
    <3> USE DEF PostInv, TypeOK, TablesOK, ActorsOK, WorldOK
    <3>1. CASE Plan(s)
      BY <1>0, <1>13, <3>1 DEF Plan, store
    <3>2. CASE Commit(s)
      BY <1>0, <1>13, <3>2 DEF Commit
    <3>3. CASE Send(s) \/ Retry(s) \/ StampWrite(s) \/ BackoffEnds(s)
      BY <1>0, <1>13, <3>3 DEF Send, Retry, StampWrite, Replaces, BackoffEnds, store, procs
    <3>4. CASE MarkSent(s) \/ GiveUp(s)
      <4>1. o \in Side /\ out = [t \in Side |-> out[t]]
        BY <1>0
      <4> HIDE DEF PostInv, TypeOK, TablesOK, ActorsOK, WorldOK
      <4>2. work'[o] = work[o]
        BY <1>0, <1>13, <3>4, <4>1, PostMarkSent, PostGiveUp
      <4>3. UNCHANGED <<obj, cli, watch, edits>>
        BY <3>4 DEF MarkSent, GiveUp
      <4>4. PICK i, v : out' = [out EXCEPT ![s][i].state = v]
        BY <3>4 DEF MarkSent, GiveUp
      <4>5. DOMAIN out'[o] = DOMAIN out[o]
        BY <1>13, <4>1, <4>4
      <4> QED BY <4>2, <4>3, <4>5
    <3>5. CASE Fetch(s)
      BY <1>0, <1>13, <3>5 DEF Fetch
    <3>6. CASE Apply(s)
      BY <1>0, <1>13, <3>6 DEF Apply, Written, Replaces
    <3>7. CASE Crash(s)
      BY <1>0, <1>13, <3>7 DEF Crash, Written, Replaces
    <3> QED
      BY <1>13, <3>1, <3>2, <3>3, <3>4, <3>5, <3>6, <3>7 DEF Worker
  <2> QED
    BY <1>3, <2>1
<1>14. ASSUME NEW s \in Side, Skip(s) \/ Move(s) \/ Renumber(s)
       PROVE  MeetingInv'
  BY <1>3, <1>14 DEF Skip, Move, Renumber, store, procs
<1>15. CASE Deliver \/ Lose \/ UNCHANGED vars
  BY <1>3, <1>15 DEF Deliver, Lose, vars, store, procs
<1>16. ASSUME Commit(o) PROVE MeetingInv'
  BY <1>0, <1>16, MeetingCommits
<1>17. ASSUME NEW s \in Side, Plan(s) \/ Commit(s) \/ Worker(s) \/ BackoffEnds(s) \/ Fetch(s) \/ Apply(s) \/ Crash(s)
       PROVE  MeetingInv'
  BY <1>4, <1>5, <1>6, <1>7, <1>8, <1>10, <1>11, <1>12, <1>13, <1>16, <1>17 DEF Worker
<1> QED
  BY <1>14, <1>15, <1>17 DEF Next, Watcher

LEMMA MeetingInit == Init => MeetingInv
BY Sides DEF Init, MeetingInv, Current, ToldApart, InForce, Untouched, Planned, KeptAside

LEMMA RequestsAre ==
  ASSUME PostInv, NEW q \in Requests
  PROVE  \E i \in DOMAIN out["org"] : IsRequest(i) /\ OrgRow(i).msg.doc = q
<1>1. PICK r \in Sent("REQUEST") : q = MessageOf(r).doc
  BY DEF Requests
<1>2. /\ r \in {"org", "att"} \X (1..Len(out["org"]) \cup 1..Len(out["att"]))
      /\ r[2] <= Len(out[r[1]]) /\ MessageOf(r).method = "REQUEST"
  BY DEF Sent
<1>3. r[1] \in Side /\ r[2] \in Nat \ {0}
  <2>1. Len(out["org"]) \in Nat /\ Len(out["att"]) \in Nat
    BY Sides DEF PostInv, TypeOK, TablesOK
  <2> QED
    BY <1>2, <2>1 DEF Side
<1>4. r[2] \in DOMAIN out[r[1]]
  <2>1. out[r[1]] \in Seq(AnyRow)
    BY <1>3 DEF PostInv, TypeOK, TablesOK
  <2> QED
    BY <1>2, <1>3, <2>1
<1>5. r[1] = "org"
  BY <1>2, <1>3, <1>4, Sides DEF PostInv, RowsByMethod, Methods, MessageOf
<1> QED
  BY <1>1, <1>2, <1>4, <1>5 DEF MessageOf, IsRequest, OrgRow

LEMMA ToldApartIs ==
  ASSUME PostInv, OnceInv, CopyInv, "org" \notin blind => MeetingInv
  PROVE  MessagesTellApart
<1>1. ASSUME "org" \notin blind, NEW q \in Requests, NEW r \in Requests, q.seq = r.seq PROVE q.when = r.when
  BY <1>1, RequestsAre DEF MeetingInv, ToldApart
<1>2. ASSUME "org" \notin blind, NEW q \in Requests, obj["att"] # <<>>, ~IsCancelled(obj["att"][1]), obj["att"][1].seq = q.seq
      PROVE  obj["att"][1].when = q.when
  <2>1. PICK i \in DOMAIN out["org"] : IsRequest(i) /\ OrgRow(i).msg.doc = q
    BY RequestsAre
  <2>2. PICK j \in DOMAIN out["org"] : IsRequest(j) /\ Alike(OrgRow(j).msg.doc, obj["att"][1])
    BY <1>2 DEF CopyInv, IsCopy, Announced
  <2> QED
    BY <1>2, <2>1, <2>2 DEF MeetingInv, ToldApart, Alike
<1>3. \A s \in Side : \A r \in Ref : applied[s][r] > 1 => r \in lost
  BY DEF OnceInv
<1> QED
  BY <1>1, <1>2, <1>3 DEF MessagesTellApart

\* Until a write without a precondition puts back what was replaced meanwhile, a SEQUENCE names
\* one content in all requests and in the copies in force, through every other interleaving of
\* clients, workers and watchers, retries, crashes, lost mail and renumbered folders; and a
\* message is carried out once (plan_write, put_object_with, is_new, process_message).
THEOREM MessagesAreToldApart == Spec => []MessagesTellApart
<1> DEFINE Told == "org" \notin blind => MeetingInv
<1>1. Init => Told /\ OnceInv
  BY MeetingInit DEF Init, OnceInv
<1>2. PostInv /\ Told /\ [Next]_vars => Told'
  BY MeetingStep, BlindStays
<1>3. PostInv /\ OnceInv /\ [Next]_vars => OnceInv'
  BY OnceStep
<1>4. PostInv /\ OnceInv /\ CopyInv /\ Told => MessagesTellApart
  BY ToldApartIs
<1> HIDE DEF Told
<1> QED
  BY <1>1, <1>2, <1>3, <1>4, TypesAndMail, CopiesAlways, PTL DEF Spec

------------------------------------------------------------------------------
(* Mail is somewhere: on its way, lost, or in the mailbox of the other side *)

InBox(r) == \E u \in DOMAIN box[Other(r[1])] : box[Other(r[1])][u] = r

Somewhere(r) == r \in wire \/ r \in lost \/ InBox(r)

PostedRows ==
    \A s \in Side : \A i \in DOMAIN out[s] :
      /\ out[s][i].state = "sent" => Somewhere(<<s, i>>)
      /\ out[s][i].state = "failed" => <<s, i>> \in lost

PostedWork ==
    \A s \in Side : work[s] # <<>> /\ work[s][1].at = "mark" => Somewhere(<<s, work[s][1].row>>)

LEMMA PairFields == \A s, i : <<s, i>>[1] = s /\ <<s, i>>[2] = i
OBVIOUS

LEMMA MailStays ==
  ASSUME PostInv, [Next]_vars
  PROVE  /\ \A s \in Side : \A u \in DOMAIN box[s] : u \in DOMAIN box'[s] /\ box'[s][u] = box[s][u]
         /\ lost \subseteq lost'
<1>1. CASE UNCHANGED <<box, lost>>
  BY <1>1
<1>2. CASE Deliver
  <2>1. PICK r \in wire : box' = [box EXCEPT ![Other(r[1])] = Append(@, r)]
    BY <1>2 DEF Deliver
  <2>2. r \in Mail /\ Known(r) /\ r[1] \in Side
    BY DEF PostInv, TypeOK, WorldOK, WireKnown, Mail
  <2>3. PICK s \in Side : s = Other(r[1]) /\ r[1] = Other(s)
    BY <2>2 DEF Side, Other
  <2>4. box' = [box EXCEPT ![s] = Append(@, r)] /\ UNCHANGED <<out, cursor, seen, watch, lost>>
    BY <1>2, <2>1, <2>3 DEF Deliver, store, procs
  <2> QED
    BY <2>2, <2>3, <2>4, BoxGrows
<1>3. ASSUME NEW s \in Side, Move(s) PROVE /\ \A t \in Side : \A u \in DOMAIN box[t] : u \in DOMAIN box'[t] /\ box'[t][u] = box[t][u]
                                          /\ lost \subseteq lost'
  <2>1. PICK v \in seen[s] : box' = [box EXCEPT ![s] = Append(@, box[s][v])]
    BY <1>3 DEF Move
  <2>2. PICK r \in Mail : r = box[s][v] /\ Known(r) /\ r[1] = Other(s)
    <3>1. v \in DOMAIN box[s]
      BY DEF PostInv, SeenThere
    <3> QED
      BY <3>1, BoxIn DEF PostInv, BoxKnown
  <2>3. box' = [box EXCEPT ![s] = Append(@, r)] /\ UNCHANGED <<out, cursor, seen, watch, lost>>
    BY <1>3, <2>1, <2>2 DEF Move, store, procs
  <2> QED
    BY <2>2, <2>3, BoxGrows
<1>4. CASE Lose
  BY <1>4 DEF Lose
<1>5. ASSUME NEW s \in Side, Plan(s) \/ Commit(s) \/ Worker(s) \/ BackoffEnds(s)
      PROVE  UNCHANGED box /\ lost \subseteq lost'
  BY <1>5 DEF Plan, Commit, Worker, Send, Retry, MarkSent, GiveUp, StampWrite, BackoffEnds
<1>6. ASSUME NEW s \in Side, Watcher(s) \/ Renumber(s) \/ Crash(s)
      PROVE  UNCHANGED box /\ lost \subseteq lost'
  BY <1>6, CrashLeaves DEF Watcher, Skip, Fetch, Apply, Renumber
<1>7. CASE UNCHANGED vars
  BY <1>7 DEF vars
<1> QED
  BY <1>2, <1>3, <1>4, <1>5, <1>6, <1>7 DEF Next

LEMMA SomewhereStays ==
  ASSUME PostInv, [Next]_vars, NEW r \in Mail, Somewhere(r)
  PROVE  Somewhere(r)'
<1>0. Other(r[1]) \in Side
  BY DEF Mail, Side, Other
<1>1. InBox(r) => InBox(r)'
  BY <1>0, MailStays DEF InBox
<1>2. r \in lost => r \in lost'
  BY MailStays
<1>3. ASSUME r \in wire PROVE r \in wire' \/ r \in lost' \/ InBox(r)'
  <2>1. CASE Deliver
    <3>1. PICK q \in wire : box' = [box EXCEPT ![Other(q[1])] = Append(@, q)] /\ wire' = wire \ {q}
      BY <2>1 DEF Deliver
    <3>2. CASE q # r
      BY <1>3, <3>1, <3>2
    <3>3. CASE q = r
      <4>1. PICK s \in Side : s = Other(r[1]) /\ r[1] = Other(s)
        BY <1>0 DEF Mail, Side, Other
      <4>2. box' = [box EXCEPT ![s] = Append(@, r)] /\ UNCHANGED <<out, cursor, seen, watch>>
        BY <2>1, <3>1, <3>3, <4>1 DEF Deliver, store, procs
      <4>3. Known(r)
        BY <1>3 DEF PostInv, WireKnown
      <4>4. Len(box[s]) + 1 \in DOMAIN box'[s] /\ box'[s][Len(box[s]) + 1] = r
        BY <4>1, <4>2, <4>3, BoxGrows
      <4> QED
        BY <4>1, <4>4 DEF InBox
    <3> QED
      BY <3>2, <3>3
  <2>2. CASE Lose
    BY <1>3, <2>2 DEF Lose
  <2>3. ASSUME NEW s \in Side, Plan(s) \/ Commit(s) \/ Worker(s) \/ BackoffEnds(s)
        PROVE  wire \subseteq wire'
    BY <2>3 DEF Plan, Commit, Worker, Send, Retry, MarkSent, GiveUp, StampWrite, BackoffEnds
  <2>4. ASSUME NEW s \in Side, Watcher(s) \/ Move(s) \/ Renumber(s) \/ Crash(s)
        PROVE  wire \subseteq wire'
    BY <2>4 DEF Watcher, Skip, Fetch, Apply, Move, Renumber, Crash
  <2>5. CASE UNCHANGED vars
    BY <1>3, <2>5 DEF vars
  <2> QED
    BY <1>3, <2>1, <2>2, <2>3, <2>4, <2>5 DEF Next
<1> QED
  BY <1>1, <1>2, <1>3 DEF Somewhere

LEMMA PostedStep ==
  ASSUME PostInv, PostedRows, PostedWork, [Next]_vars
  PROVE  PostedRows' /\ PostedWork'
<1>0. /\ lost \subseteq lost'
      /\ \A s \in Side : \A i \in DOMAIN out[s] :
           <<s, i>> \in Mail /\ (Somewhere(<<s, i>>) => Somewhere(<<s, i>>)')
  <2>1. lost \subseteq lost'
    BY MailStays
  <2>2. ASSUME NEW s \in Side, NEW i \in DOMAIN out[s] PROVE <<s, i>> \in Mail
    BY RowIn DEF PostInv, TypeOK
  <2> QED
    BY <2>1, <2>2, SomewhereStays
<1>1. \A s \in Side : work[s] # <<>> => work[s][1].row \in DOMAIN out[s]
  BY DEF PostInv, WorkAt
\* A row stands as it did, or is one of the messages just written.
<1>2. ASSUME \A s \in Side : \A i \in DOMAIN out'[s] :
               (i \in DOMAIN out[s] /\ out'[s][i].state = out[s][i].state) \/ out'[s][i].state = "pending"
      PROVE  PostedRows'
  BY <1>0, <1>2 DEF PostedRows
<1>3. ASSUME \A s \in Side : work'[s] = work[s] \/ work'[s] = <<>> \/ work'[s][1].at = "stamp"
      PROVE  PostedWork'
  BY <1>0, <1>1, <1>3 DEF PostedWork
<1>4. CASE UNCHANGED <<out, work>>
  BY <1>2, <1>3, <1>4
<1>5. ASSUME NEW s \in Side, Commit(s) PROVE PostedRows' /\ PostedWork'
  <2> DEFINE msgs == cli[s][1].plan.msgs
  <2>1. /\ cli[s] # <<>> /\ UNCHANGED work
        /\ out' = out \/ out' = [out EXCEPT ![s] = @ \o NewRows(msgs)]
    BY <1>5 DEF Commit, PostInv, TypeOK, TablesOK
  <2>2. msgs \in Seq(AnyMessage)
    <3>1. cli[s][1] \in AnyClient
      BY <2>1, OptOne DEF PostInv, TypeOK, ActorsOK
    <3>2. cli[s][1].plan \in AnyPlan
      BY <3>1 DEF AnyClient
    <3> QED
      BY <3>2 DEF AnyPlan
  <2> HIDE DEF msgs
  <2>3. CASE out' = out
    BY <1>4, <2>1, <2>3
  <2>4. CASE out' = [out EXCEPT ![s] = @ \o NewRows(msgs)]
    <3>0. out \in [Side -> Seq(AnyRow)]
      BY DEF PostInv, TypeOK, TablesOK
    <3>1. /\ out' \in [Side -> Seq(AnyRow)] /\ MailKept
          /\ \A t \in Side \ {s} : out'[t] = out[t]
          /\ \A j \in DOMAIN out'[s] :
               \/ j \in DOMAIN out[s] /\ out'[s][j] = out[s][j]
               \/ \E i \in DOMAIN msgs : j = Len(out[s]) + i /\ out'[s][j] = NewRow(msgs[i])
      BY <2>2, <2>4, <3>0, RowsAdded, ZenonT(60)
    <3> QED
      BY <1>2, <1>3, <2>1, <3>1, NewRowTells
  <2> QED
    BY <2>1, <2>3, <2>4
<1>6. ASSUME NEW s \in Side, Send(s) PROVE PostedRows' /\ PostedWork'
  <2>1. PICK i \in DOMAIN out[s] :
          /\ work' = [work EXCEPT ![s] = <<[row |-> i, at |-> "mark", old |-> <<>>, doc |-> <<>>]>>]
          /\ wire' = wire \cup {<<s, i>>}
    BY <1>6 DEF Send
  <2>2. UNCHANGED out
    BY <1>6 DEF Send, store
  <2>3. work'[s][1].row = i /\ \A t \in Side \ {s} : work'[t] = work[t]
    <3>1. work'[s] = <<[row |-> i, at |-> "mark", old |-> <<>>, doc |-> <<>>]>> /\ \A t \in Side \ {s} : work'[t] = work[t]
      BY <2>1 DEF PostInv, TypeOK, ActorsOK
    <3> QED
      BY <3>1, One
  <2>4. Somewhere(<<s, i>>)'
    BY <2>1 DEF Somewhere
  <2>5. PostedWork'
    BY <1>0, <1>1, <2>3, <2>4 DEF PostedWork
  <2> QED
    BY <1>2, <2>2, <2>5
<1>7. ASSUME NEW s \in Side, Retry(s) \/ BackoffEnds(s) PROVE PostedRows' /\ PostedWork'
  <2>1. UNCHANGED work
    BY <1>7 DEF Retry, BackoffEnds, procs
  <2>2. PICK i \in DOMAIN out[s] : \/ out' = [out EXCEPT ![s][i] = Delayed(@)]
                                   \/ out' = [out EXCEPT ![s][i].due = TRUE]
    BY <1>7 DEF Retry, BackoffEnds
  <2>3. out[s][i] \in AnyRow /\ out[s] \in Seq(AnyRow)
    BY RowIn DEF PostInv, TypeOK, TablesOK
  <2>4. out[s][i].tries \in Nat
    BY <2>3, RowFields
  <2>5. \A b \in BOOLEAN : \A n \in Nat : [[out[s][i] EXCEPT !.tries = n] EXCEPT !.due = b].state = out[s][i].state
    BY <2>3, SetTries, SetDue
  <2>6. [out[s][i] EXCEPT !.due = TRUE].state = out[s][i].state
    BY <2>3, SetDue
  <2>7. Delayed(out[s][i]).state = out[s][i].state
    BY <2>3 DEF Delayed, AnyRow
  <2>8. \A t \in Side : DOMAIN out'[t] = DOMAIN out[t]
    BY <2>2, <2>3 DEF PostInv, TypeOK, TablesOK
  <2>9. \A t \in Side : \A j \in DOMAIN out[t] : out'[t][j].state = out[t][j].state
    <3>1. out \in [Side -> Seq(AnyRow)]
      BY DEF PostInv, TypeOK, TablesOK
    <3>2. CASE out' = [out EXCEPT ![s][i] = Delayed(@)]
      BY <2>3, <2>7, <3>1, <3>2
    <3>3. CASE out' = [out EXCEPT ![s][i].due = TRUE]
      BY <2>3, <2>6, <3>1, <3>3
    <3> QED
      BY <2>2, <3>2, <3>3
  <2> QED
    BY <1>2, <1>3, <2>1, <2>8, <2>9
<1>8. ASSUME NEW s \in Side, NEW i \in DOMAIN out[s], NEW x \in {"sent", "failed"},
             out' = [out EXCEPT ![s][i].state = x],
             x = "sent" => Somewhere(<<s, i>>)', x = "failed" => <<s, i>> \in lost'
      PROVE  PostedRows'
  <2>1. out \in [Side -> Seq(AnyRow)] /\ out[s] \in Seq(AnyRow) /\ out[s][i] \in AnyRow
    BY RowIn DEF PostInv, TypeOK, TablesOK
  <2>2. [out[s][i] EXCEPT !.state = x].state = x
    BY <2>1, SetState
  <2>3. \A t \in Side : DOMAIN out'[t] = DOMAIN out[t]
    BY <1>8, <2>1
  <2>4. \A t \in Side : \A j \in DOMAIN out[t] : out'[t][j].state = IF t = s /\ j = i THEN x ELSE out[t][j].state
    BY <1>8, <2>1, <2>2
  <2>5. ASSUME NEW t \in Side, NEW j \in DOMAIN out'[t]
        PROVE  /\ out'[t][j].state = "sent" => Somewhere(<<t, j>>)'
               /\ out'[t][j].state = "failed" => <<t, j>> \in lost'
    <3>1. j \in DOMAIN out[t]
      BY <2>3
    <3>2. CASE t = s /\ j = i
      BY <1>8, <2>4, <3>1, <3>2
    <3>3. CASE ~(t = s /\ j = i)
      <4>1. out'[t][j].state = out[t][j].state
        BY <2>4, <3>1, <3>3
      <4> QED
        BY <1>0, <3>1, <4>1 DEF PostedRows
    <3> QED
      BY <3>2, <3>3
  <2> QED
    BY <2>5 DEF PostedRows
<1>9. ASSUME NEW s \in Side, MarkSent(s) PROVE PostedRows' /\ PostedWork'
  <2>1. work'[s][1].at = "stamp" /\ \A t \in Side \ {s} : work'[t] = work[t]
    BY <1>9, PostMarkSent
  <2>2. /\ work[s] # <<>> /\ work[s][1].at = "mark"
        /\ out' = [out EXCEPT ![s][work[s][1].row].state = "sent"]
    BY <1>9 DEF MarkSent
  <2>3. PICK i \in DOMAIN out[s] : i = work[s][1].row
    BY <1>1, <2>2
  <2>4. Somewhere(<<s, i>>)'
    BY <1>0, <2>2, <2>3 DEF PostedWork
  <2> QED
    BY <1>3, <1>8, <2>1, <2>2, <2>3, <2>4
<1>10. ASSUME NEW s \in Side, GiveUp(s) PROVE PostedRows' /\ PostedWork'
  <2>1. work'[s][1].at = "stamp" /\ \A t \in Side \ {s} : work'[t] = work[t]
    BY <1>10, PostGiveUp
  <2>2. PICK i \in DOMAIN out[s] : out' = [out EXCEPT ![s][i].state = "failed"] /\ lost' = lost \cup {<<s, i>>}
    BY <1>10 DEF GiveUp
  <2> QED
    BY <1>3, <1>8, <2>1, <2>2
<1>11. ASSUME NEW s \in Side, StampWrite(s) \/ Crash(s) PROVE PostedRows' /\ PostedWork'
  <2>1. UNCHANGED out /\ \A t \in Side : work'[t] = work[t] \/ work'[t] = <<>>
    BY <1>11, CrashLeaves DEF StampWrite, Replaces, PostInv, TypeOK, ActorsOK
  <2> QED
    BY <1>2, <1>3, <2>1
<1>12. ASSUME NEW s \in Side, Plan(s) \/ Watcher(s) \/ Move(s) \/ Renumber(s)
       PROVE  PostedRows' /\ PostedWork'
  BY <1>4, <1>12 DEF Plan, Watcher, Skip, Fetch, Apply, Move, Renumber, store, procs
<1>13. CASE Deliver \/ Lose \/ UNCHANGED vars
  BY <1>4, <1>13 DEF Deliver, Lose, vars, store, procs
<1> QED
  BY <1>5, <1>6, <1>7, <1>9, <1>10, <1>11, <1>12, <1>13 DEF Next, Worker

------------------------------------------------------------------------------
(* Mail that was looked at was carried out, or broke off *)

Handled(s) ==
    /\ \A u \in seen[s] : \/ box[s][u] \in processed[s] \cup lost
                          \/ watch[s] # <<>> /\ watch[s][1].ref = box[s][u]
    /\ \A u \in DOMAIN box[s] : u <= cursor[s] => box[s][u] \in processed[s] \cup lost

HandledInv == \A s \in Side : Handled(s)

LEMMA HandledStep ==
  ASSUME PostInv, HandledInv, [Next]_vars
  PROVE  HandledInv'
<1> USE DEF PostInv, TypeOK, TablesOK, ActorsOK, WorldOK
<1>0. /\ lost \subseteq lost'
      /\ \A s \in Side : \A u \in DOMAIN box[s] : u \in DOMAIN box'[s] /\ box'[s][u] = box[s][u]
      /\ \A s \in Side : seen[s] \subseteq DOMAIN box[s]
  BY MailStays DEF SeenThere
\* What arrives is past the cursor.
<1>1. \A s \in Side : \A u \in DOMAIN box'[s] : u \in DOMAIN box[s] \/ u > cursor[s]
  <2> SUFFICES ASSUME NEW s \in Side, NEW u \in DOMAIN box'[s], u \notin DOMAIN box[s] PROVE u > cursor[s]
    OBVIOUS
  <2>1. box[s] \in Seq(Mail) /\ cursor[s] \in Nat /\ cursor[s] <= Len(box[s])
    BY DEF SeenThere
  <2>2. Len(box[s]) \in Nat /\ DOMAIN box[s] = 1 .. Len(box[s])
    BY <2>1
  <2>3. u \in Nat \ {0}
    <3>1. PostInv'
      BY PostStep
    <3>2. box'[s] \in Seq(Mail)
      BY <3>1
    <3> QED
      BY <3>2
  <2> QED
    BY <2>1, <2>2, <2>3
<1>2. ASSUME NEW s \in Side, UNCHANGED <<seen[s], cursor[s], watch[s]>>, processed[s] \subseteq processed'[s]
      PROVE  Handled(s)'
  <2>1. /\ \A u \in seen[s] : box'[s][u] = box[s][u]
        /\ \A u \in DOMAIN box'[s] : u <= cursor[s] => u \in DOMAIN box[s] /\ box'[s][u] = box[s][u]
    <3>1. \A u \in DOMAIN box'[s] : u \in Nat /\ cursor[s] \in Nat
      <4>1. PostInv'
        BY PostStep
      <4>2. box'[s] \in Seq(Mail) /\ cursor[s] \in Nat
        BY <4>1
      <4> QED
        BY <4>2
    <3> QED
      BY <1>0, <1>1, <3>1
  <2> QED
    BY <1>0, <1>2, <2>1 DEF HandledInv, Handled
<1>3. ASSUME NEW s \in Side, Skip(s), NEW t \in Side PROVE Handled(t)'
  <2>1. /\ watch[s] = <<>> /\ ~IsNew(s) /\ cursor[s] < Len(box[s])
        /\ seen' = [seen EXCEPT ![s] = @ \cup {At(s)}]
        /\ cursor' = [cursor EXCEPT ![s] = At(s)]
        /\ UNCHANGED <<processed, watch, box, lost>>
    BY <1>3 DEF Skip, procs
  <2>2. CASE t # s
    BY <1>2, <2>1, <2>2
  <2>3. CASE t = s
    <3>1. seen'[s] = seen[s] \cup {At(s)} /\ cursor'[s] = At(s) /\ cursor[s] \in Nat
      BY <2>1
    <3>2. box[s][At(s)] \in processed[s] \cup lost
      BY <2>1 DEF IsNew, HandledInv, Handled
    <3>3. \A u \in DOMAIN box[s] : u <= At(s) => u <= cursor[s] \/ u = At(s)
      <4>1. \A u \in DOMAIN box[s] : u \in Nat
        BY BoxIn
      <4> QED
        BY <3>1, <4>1 DEF At
    <3> QED
      BY <2>1, <2>3, <3>1, <3>2, <3>3 DEF HandledInv, Handled
  <2> QED
    BY <2>2, <2>3
<1>4. ASSUME NEW s \in Side, Fetch(s), NEW t \in Side PROVE Handled(t)'
  <2>1. /\ watch[s] = <<>> /\ seen' = [seen EXCEPT ![s] = @ \cup {At(s)}]
        /\ UNCHANGED <<cursor, processed, box, lost>>
    BY <1>4 DEF Fetch
  <2>2. /\ watch'[s] # <<>> /\ watch'[s][1].ref = box[s][At(s)]
        /\ \A q \in Side \ {s} : watch'[q] = watch[q]
    BY <1>4, PostFetch
  <2>3. CASE t # s
    BY <1>2, <2>1, <2>2, <2>3
  <2>4. CASE t = s
    <3>1. seen'[s] = seen[s] \cup {At(s)}
      BY <2>1
    <3> QED
      BY <2>1, <2>2, <2>4, <3>1 DEF HandledInv, Handled
  <2> QED
    BY <2>3, <2>4
<1>5. ASSUME NEW s \in Side, Apply(s), NEW t \in Side PROVE Handled(t)'
  <2>1. /\ watch[s] # <<>> /\ Recorded(s)
        /\ cursor' = [cursor EXCEPT ![s] = At(s)] /\ watch' = [watch EXCEPT ![s] = <<>>]
        /\ UNCHANGED <<seen, box, lost>>
    BY <1>5 DEF Apply
  <2>2. /\ processed'[s] = processed[s] \cup {watch[s][1].ref}
        /\ \A q \in Side \ {s} : processed'[q] = processed[q]
        /\ box[s][At(s)] = watch[s][1].ref
    BY <2>1, WrittenOK DEF WatchAt
  <2>3. CASE t # s
    BY <1>2, <2>1, <2>2, <2>3
  <2>4. CASE t = s
    <3>1. cursor'[s] = At(s) /\ cursor[s] \in Nat
      BY <2>1
    <3>2. \A u \in DOMAIN box[s] : u <= At(s) => u <= cursor[s] \/ u = At(s)
      <4>1. \A u \in DOMAIN box[s] : u \in Nat
        BY BoxIn
      <4> QED
        BY <3>1, <4>1 DEF At
    <3> QED
      BY <2>1, <2>2, <2>4, <3>1, <3>2 DEF HandledInv, Handled
  <2> QED
    BY <2>3, <2>4
<1>6. ASSUME NEW s \in Side, Renumber(s), NEW t \in Side PROVE Handled(t)'
  <2>1. /\ cursor' = [cursor EXCEPT ![s] = 0] /\ seen' = [seen EXCEPT ![s] = {}]
        /\ UNCHANGED <<processed, watch, box, lost>>
    BY <1>6 DEF Renumber, procs
  <2>2. CASE t # s
    BY <1>2, <2>1, <2>2
  <2>3. CASE t = s
    <3>1. \A u \in DOMAIN box[s] : ~(u <= 0)
      <4>1. \A u \in DOMAIN box[s] : u \in Nat \ {0}
        BY BoxIn
      <4> QED
        BY <4>1
    <3> QED
      BY <2>1, <2>3, <3>1 DEF Handled
  <2> QED
    BY <2>2, <2>3
<1>7. ASSUME NEW s \in Side, Crash(s), NEW t \in Side PROVE Handled(t)'
  <2>1. /\ \A q \in Side : watch'[q] = IF q = s THEN <<>> ELSE watch[q]
        /\ lost \subseteq lost' /\ (watch[s] # <<>> => watch[s][1].ref \in lost')
        /\ UNCHANGED <<cursor, seen, box>>
    BY <1>7, CrashLeaves
  <2>2. \A q \in Side : processed[q] \subseteq processed'[q]
    BY <1>7, WrittenOK DEF Crash
  <2>3. CASE t # s
    BY <1>2, <2>1, <2>2, <2>3
  <2>4. CASE t = s
    BY <2>1, <2>2, <2>4 DEF HandledInv, Handled
  <2> QED
    BY <2>3, <2>4
<1>8. ASSUME NEW s \in Side, Plan(s) \/ Commit(s) \/ Worker(s) \/ BackoffEnds(s)
      PROVE  UNCHANGED <<seen, cursor, watch, processed>>
  BY <1>8 DEF Plan, Commit, Worker, Send, Retry, MarkSent, GiveUp, StampWrite, BackoffEnds, store, procs
<1>9. ASSUME (\E s \in Side : Move(s)) \/ Deliver \/ Lose \/ UNCHANGED vars
      PROVE  UNCHANGED <<seen, cursor, watch, processed>>
  BY <1>9 DEF Move, Deliver, Lose, vars, store, procs
<1>10. CASE UNCHANGED <<seen, cursor, watch, processed>>
  BY <1>2, <1>10 DEF HandledInv
<1> QED
  BY <1>3, <1>4, <1>5, <1>6, <1>7, <1>8, <1>9, <1>10 DEF Next, Watcher, HandledInv

LEMMA MailStart == Init => PostedRows /\ PostedWork /\ HandledInv
BY DEF Init, PostedRows, PostedWork, HandledInv, Handled

LEMMA MailAccounted ==
  ASSUME PostInv, PostedRows, HandledInv, Quiet, NEW s \in Side, NEW i \in DOMAIN out[s]
  PROVE  <<s, i>> \in processed[Other(s)] \cup lost
<1> DEFINE t == Other(s)
<1>1. t \in Side /\ wire = {} /\ watch[t] = <<>> /\ cursor[t] = Len(box[t])
  BY DEF Quiet, Side, Other
<1>2. out[s][i].state \in {"sent", "failed"}
  <2>1. out[s][i] \in AnyRow
    BY RowIn DEF PostInv, TypeOK
  <2>2. out[s][i].state \in {"pending", "sent", "failed"}
    BY <2>1 DEF AnyRow
  <2> QED
    BY <2>2 DEF Quiet
<1>3. <<s, i>> \in lost \/ \E u \in DOMAIN box[t] : box[t][u] = <<s, i>>
  BY <1>1, <1>2 DEF PostedRows, Somewhere, InBox
<1>4. \A u \in DOMAIN box[t] : box[t][u] \in processed[t] \cup lost
  BY <1>1, BoxIn DEF HandledInv, Handled, PostInv
<1> QED
  BY <1>3, <1>4

\* No message vanishes, whoever writes besides: when all is quiet, each message a server queued
\* has been read and recorded by the other one, or counts as lost (run_pass, process_message).
THEOREM NoMailVanishes ==
  Spec => [](Quiet => \A s \in Side : \A i \in DOMAIN out[s] :
                        <<s, i>> \in processed[Other(s)] \cup lost)
<1> DEFINE Accounted == Quiet => \A s \in Side : \A i \in DOMAIN out[s] :
                                   <<s, i>> \in processed[Other(s)] \cup lost
<1>1. PostInv /\ PostedRows /\ PostedWork /\ [Next]_vars => PostedRows' /\ PostedWork'
  BY PostedStep
<1>2. PostInv /\ HandledInv /\ [Next]_vars => HandledInv'
  BY HandledStep
<1>3. PostInv /\ PostedRows /\ HandledInv => Accounted
  BY MailAccounted
<1> HIDE DEF Accounted
<1>4. Spec => []Accounted
  BY <1>1, <1>2, <1>3, MailStart, TypesAndMail, PTL DEF Spec
<1> QED
  BY <1>4 DEF Accounted

------------------------------------------------------------------------------
(* The attendee's copy never falls behind a request it has read *)

NotBelow(c, n) == c # <<>> /\ n <= c[1].seq

\* What is about to be written over the copy is not older than the copy that was read.
NextCopy ==
    /\ cli["att"] # <<>> /\ cli["att"][1].plan.doc # <<>> =>
         cli["att"][1].old # <<>> /\ cli["att"][1].plan.doc[1].seq = cli["att"][1].old[1].seq
    /\ work["att"] # <<>> /\ work["att"][1].doc # <<>> =>
         work["att"][1].old # <<>> /\ work["att"][1].old[1].seq = work["att"][1].doc[1].seq
    /\ watch["att"] # <<>> /\ watch["att"][1].doc # <<>> /\ watch["att"][1].old # <<>> =>
         watch["att"][1].old[1].seq <= watch["att"][1].doc[1].seq

\* A request the watcher decided on is in the copy there is or in the one it will write.
NextRead ==
    "att" \notin removed /\ watch["att"] # <<>> /\ MessageOf(watch["att"][1].ref).method = "REQUEST" =>
      NotBelow(IF watch["att"][1].doc = <<>> THEN obj["att"] ELSE watch["att"][1].doc,
               MessageOf(watch["att"][1].ref).doc.seq)

Arrived ==
    \A r \in processed["att"] \ lost :
      /\ Known(r) /\ r[1] = "org"
      /\ MessageOf(r).method = "REQUEST" /\ "att" \notin removed =>
           NotBelow(obj["att"], MessageOf(r).doc.seq)

RisingInv == NextCopy /\ NextRead /\ Arrived

\* The message a watcher is at is one of the other side's.
LEMMA WatchKnown ==
  ASSUME PostInv, NEW s \in Side, watch[s] # <<>>
  PROVE  /\ watch[s][1].ref \in Mail /\ Known(watch[s][1].ref) /\ watch[s][1].ref[1] = Other(s)
<1>1. cursor[s] < Len(box[s]) /\ box[s][At(s)] = watch[s][1].ref
  BY DEF PostInv, WatchAt
<1>2. At(s) \in DOMAIN box[s] /\ box[s][At(s)] \in Mail
  BY <1>1, NextInBox DEF PostInv
<1> QED
  BY <1>1, <1>2 DEF PostInv, BoxKnown

LEMMA SeqIn == ASSUME NEW c \in Opt(AnyDoc), c # <<>> PROVE c[1].seq \in Nat
BY OptOne, FieldsOK

\* A step of the attendee's side does not set its copy back, nor does any other.
Rises == "att" \notin removed' /\ obj["att"] # <<>> => NotBelow(obj'["att"], obj["att"][1].seq)

LEMMA RisesOver ==
  ASSUME PostInv, PostInv', Rises, "att" \notin removed', NEW d \in AnyDoc, NotBelow(obj["att"], d.seq)
  PROVE  NotBelow(obj'["att"], d.seq)
<1>1. NotBelow(obj'["att"], obj["att"][1].seq)
  BY DEF Rises, NotBelow
<1>2. obj["att"] \in Opt(AnyDoc) /\ obj'["att"] \in Opt(AnyDoc)
  BY Sides DEF PostInv, TypeOK, TablesOK
<1>3. obj["att"][1].seq \in Nat /\ obj'["att"][1].seq \in Nat /\ d.seq \in Nat
  BY <1>1, <1>2, SeqIn, FieldsOK DEF NotBelow
<1> QED
  BY <1>1, <1>3 DEF NotBelow

LEMMA RisesKeeps ==
  ASSUME PostInv, PostInv', MailKept, Arrived, Rises, lost \subseteq lost', removed \subseteq removed',
         \A r \in processed'["att"] \ lost' : r \in processed["att"] \/
           ( /\ r \in Mail /\ Known(r) /\ r[1] = "org"
             /\ MessageOf(r).method = "REQUEST" /\ "att" \notin removed' =>
                  NotBelow(obj'["att"], MessageOf(r).doc.seq) )
  PROVE  Arrived'
<1> SUFFICES ASSUME NEW r \in processed'["att"] \ lost'
             PROVE  /\ Known(r)' /\ r[1] = "org"
                    /\ MessageOf(r)'.method = "REQUEST" /\ "att" \notin removed' =>
                         NotBelow(obj'["att"], MessageOf(r)'.doc.seq)
  BY DEF Arrived
<1>1. CASE r \in processed["att"]
  <2>1. r \in processed["att"] \ lost /\ r \in Mail
    BY <1>1, Sides DEF PostInv, TypeOK, TablesOK
  <2>2. /\ Known(r) /\ r[1] = "org"
        /\ MessageOf(r).method = "REQUEST" /\ "att" \notin removed =>
             NotBelow(obj["att"], MessageOf(r).doc.seq)
    BY <2>1 DEF Arrived
  <2>3. Known(r)' /\ MessageOf(r)' = MessageOf(r)
    BY <2>1, <2>2, KnownKept
  <2>4. ASSUME MessageOf(r).method = "REQUEST", "att" \notin removed'
        PROVE  NotBelow(obj'["att"], MessageOf(r).doc.seq)
    <3>1. NotBelow(obj["att"], MessageOf(r).doc.seq)
      BY <2>2, <2>4
    <3>2. MessageOf(r) \in AnyMessage
      BY <2>1, <2>2, MessageIn DEF PostInv
    <3> QED
      BY <2>4, <3>1, <3>2, RisesOver DEF AnyMessage
  <2> QED
    BY <2>2, <2>3, <2>4
<1>2. CASE r \notin processed["att"]
  BY <1>2, KnownKept
<1> QED
  BY <1>1, <1>2

LEMMA RisingStep ==
  ASSUME "att" \notin blind', PostInv, RisingInv, [Next]_vars
  PROVE  RisingInv'
<1> DEFINE a == "att"
<1>0. MailKept /\ PostInv' /\ a \in Side /\ lost \subseteq lost'
  BY PostStep, MailStays, Sides
<1>1. /\ obj[a] \in Opt(AnyDoc) /\ obj'[a] \in Opt(AnyDoc)
      /\ obj[a] # <<>> => obj[a][1].seq <= obj[a][1].seq
  <2>1. obj[a] \in Opt(AnyDoc) /\ obj'[a] \in Opt(AnyDoc)
    BY <1>0 DEF PostInv, TypeOK, TablesOK
  <2>2. obj[a] # <<>> => obj[a][1].seq \in Nat
    BY <2>1, SeqIn
  <2> QED
    BY <2>1, <2>2
<1>2. obj'[a] = obj[a] => Rises
  BY <1>1 DEF Rises, NotBelow
<1>3. ASSUME Rises, processed'[a] = processed[a], removed \subseteq removed' PROVE Arrived'
  BY <1>0, <1>3, RisesKeeps DEF RisingInv
<1>4. ASSUME Rises, UNCHANGED watch[a], removed \subseteq removed' PROVE NextRead'
  <2> SUFFICES ASSUME "att" \notin removed', watch[a] # <<>>, MessageOf(watch[a][1].ref)'.method = "REQUEST"
               PROVE  NotBelow(IF watch[a][1].doc = <<>> THEN obj'[a] ELSE watch[a][1].doc,
                               MessageOf(watch[a][1].ref)'.doc.seq)
    BY <1>4 DEF NextRead
  <2>1. watch[a][1].ref \in Mail /\ Known(watch[a][1].ref)
    BY <1>0, WatchKnown
  <2>2. PICK r \in Mail : r = watch[a][1].ref /\ Known(r)
    BY <2>1
  <2>3. MessageOf(r)' = MessageOf(r) /\ MessageOf(r) \in AnyMessage
    BY <1>0, <2>2, KnownKept, MessageIn DEF PostInv
  <2>4. PICK d \in AnyDoc : d = MessageOf(r).doc
    BY <2>3 DEF AnyMessage
  <2>5. MessageOf(watch[a][1].ref)' = MessageOf(r)
    BY <1>4, <2>2, <2>3
  <2>6. NotBelow(IF watch[a][1].doc = <<>> THEN obj[a] ELSE watch[a][1].doc, d.seq)
    BY <1>4, <2>2, <2>4, <2>5 DEF RisingInv, NextRead
  <2>7. NotBelow(obj[a], d.seq) => NotBelow(obj'[a], d.seq)
    BY <1>0, <1>4, RisesOver
  <2> QED
    BY <2>4, <2>5, <2>6, <2>7
<1>5. ASSUME UNCHANGED <<obj[a], watch[a], processed[a]>>, removed \subseteq removed', NextCopy' PROVE RisingInv'
  BY <1>2, <1>3, <1>4, <1>5 DEF RisingInv
<1>6. ASSUME UNCHANGED <<obj[a], cli[a], work[a], watch[a], processed[a]>>, removed \subseteq removed'
      PROVE  RisingInv'
  <2>1. NextCopy'
    BY <1>6 DEF RisingInv, NextCopy
  <2> QED
    BY <1>5, <1>6, <2>1
<1>7. ASSUME Plan(a) PROVE RisingInv'
  <2>1. /\ cli'[a][1].old = obj[a]
        /\ cli'[a][1].plan.doc # <<>> => obj[a] # <<>> /\ SameMeeting(cli'[a][1].plan.doc[1], obj[a][1])
    BY <1>0, <1>7, PostPlan
  <2>2. UNCHANGED <<obj, work, watch, processed, removed>>
    BY <1>7 DEF Plan, store
  <2>3. NextCopy'
    BY <2>1, <2>2 DEF RisingInv, NextCopy, SameMeeting, Alike
  <2> QED
    BY <1>5, <2>2, <2>3
<1>8. ASSUME Commit(a) PROVE RisingInv'
  <2> DEFINE r == cli[a][1]
             holds == (r.guarded => obj[a] = r.old) /\ (r.plan.doc = <<>> => obj[a] # <<>>)
  <2>1. /\ cli[a] # <<>>
        /\ obj' = [obj EXCEPT ![a] = IF holds THEN r.plan.doc ELSE @]
        /\ removed' = IF holds /\ r.plan.doc = <<>> THEN removed \cup {a} ELSE removed
        /\ cli' = [cli EXCEPT ![a] = <<>>]
        /\ UNCHANGED <<work, watch, processed>>
    BY <1>0, <1>8 DEF Commit
  <2>2. holds => obj[a] = r.old
    BY <1>0, <1>8 DEF Commit
  <2>3. r.plan.doc # <<>> => r.old # <<>> /\ r.plan.doc[1].seq = r.old[1].seq
    BY <2>1 DEF RisingInv, NextCopy
  <2>4. cli'[a] = <<>> /\ obj'[a] = IF holds THEN r.plan.doc ELSE obj[a]
    BY <1>0, <2>1 DEF PostInv, TypeOK, TablesOK, ActorsOK
  <2>5. Rises
    <3>1. CASE ~holds
      BY <1>2, <2>4, <3>1
    <3>2. CASE holds /\ r.plan.doc = <<>>
      BY <2>1, <3>2 DEF Rises
    <3>3. CASE holds /\ r.plan.doc # <<>>
      BY <1>1, <2>2, <2>3, <2>4, <3>3 DEF Rises, NotBelow
    <3> QED
      BY <3>1, <3>2, <3>3
  <2>6. removed \subseteq removed'
    BY <2>1
  <2>7. NextCopy' /\ NextRead'
    BY <1>4, <2>1, <2>4, <2>5, <2>6 DEF NextCopy, RisingInv
  <2> QED
    BY <1>3, <2>1, <2>5, <2>6, <2>7 DEF RisingInv
<1>9. ASSUME Send(a) PROVE RisingInv'
  <2>1. work'[a] # <<>> => work'[a][1].doc = <<>>
    <3>1. PICK i \in DOMAIN out[a] : work' = [work EXCEPT ![a] = <<[row |-> i, at |-> "mark", old |-> <<>>, doc |-> <<>>]>>]
      BY <1>9 DEF Send
    <3>2. work'[a] = <<[row |-> i, at |-> "mark", old |-> <<>>, doc |-> <<>>]>>
      BY <1>0, <3>1 DEF PostInv, TypeOK, ActorsOK
    <3> QED
      BY <3>2, One
  <2>2. UNCHANGED <<obj, cli, watch, processed, removed>>
    BY <1>9 DEF Send, store
  <2>3. NextCopy'
    BY <2>1, <2>2 DEF RisingInv, NextCopy
  <2> QED
    BY <1>5, <2>2, <2>3
<1>10. ASSUME MarkSent(a) \/ GiveUp(a) PROVE RisingInv'
  <2>1. work'[a][1].old = obj[a] /\ \E x \in {"1.1", "5.1"} : work'[a][1].doc = Stamped(a, x)
    BY <1>0, <1>10, PostMarkSent, PostGiveUp
  <2>2. work'[a][1].doc # <<>> => obj[a] # <<>> /\ SameMeeting(work'[a][1].doc[1], obj[a][1])
    BY <1>0, <2>1, StampedOK DEF PostInv, TypeOK, TablesOK
  <2>3. UNCHANGED <<obj, cli, watch, processed, removed>>
    BY <1>10 DEF MarkSent, GiveUp
  <2>4. NextCopy'
    BY <2>1, <2>2, <2>3 DEF RisingInv, NextCopy, SameMeeting, Alike
  <2> QED
    BY <1>5, <2>3, <2>4
<1>11. ASSUME StampWrite(a) PROVE RisingInv'
  <2>1. /\ work[a] # <<>> /\ work'[a] = <<>> /\ UNCHANGED <<cli, watch, processed, removed>>
        /\ obj'[a] = IF work[a][1].doc = <<>> THEN obj[a] ELSE work[a][1].doc
        /\ work[a][1].doc # <<>> => obj[a] = work[a][1].old
    BY <1>0, <1>11 DEF StampWrite, Replaces, PostInv, TypeOK, TablesOK, ActorsOK
  <2>2. Rises
    BY <1>1, <1>2, <2>1 DEF Rises, NotBelow, RisingInv, NextCopy
  <2>3. NextCopy' /\ NextRead'
    BY <1>4, <2>1, <2>2 DEF RisingInv, NextCopy
  <2> QED
    BY <1>3, <2>1, <2>2, <2>3 DEF RisingInv
<1>12. ASSUME Fetch(a) PROVE RisingInv'
  <2>1. PICK r \in Mail : /\ r = box[a][At(a)] /\ Known(r) /\ r[1] = "org" /\ Clock \in Nat
                          /\ watch'[a] # <<>> /\ watch'[a][1].ref = r
                          /\ watch'[a][1].old = obj[a]
                          /\ watch'[a][1].doc = ApplyInbound(obj[a], MessageOf(r), Clock)
    BY <1>0, <1>12, PostFetch, Sides
  <2>2. PICK m : m = MessageOf(r) /\ MessageOf(r)' = m
    BY <1>0, <2>1, KnownKept
  <2>3. m \in AnyMessage /\ m.method \in {"REQUEST", "CANCEL"} /\ m.doc \in AnyDoc
    <3>1. m \in AnyMessage
      BY <2>1, <2>2, MessageIn DEF PostInv
    <3>2. m.method \in {"REQUEST", "CANCEL"}
      BY <2>1, <2>2, Sides DEF PostInv, RowsByMethod, Methods, MessageOf, Known
    <3> QED
      BY <3>1, <3>2 DEF AnyMessage
  <2>4. UNCHANGED <<obj, cli, work, processed, removed>>
    BY <1>12 DEF Fetch
  <2>5. PICK d : d = watch'[a][1].doc
    OBVIOUS
  <2>6. /\ d # <<>> /\ obj[a] # <<>> => obj[a][1].seq <= d[1].seq
        /\ m.method = "REQUEST" => NotBelow(IF d = <<>> THEN obj[a] ELSE d, m.doc.seq)
    <3>1. CASE m.method = "REQUEST"
      <4>1. d = ApplyRequest(obj[a], m.doc)
        BY <1>1, <2>1, <2>2, <2>3, <2>5, <3>1, InboundOK
      <4>2. /\ d # <<>> => SameMeeting(d[1], m.doc)
            /\ d # <<>> /\ obj[a] # <<>> => obj[a][1].seq <= d[1].seq
            /\ d = <<>> => obj[a] # <<>> /\ m.doc.seq <= obj[a][1].seq
        BY <1>1, <2>3, <4>1, RequestTaken
      <4>3. m.doc.seq \in Nat
        BY <2>3, FieldsOK
      <4> QED
        BY <4>2, <4>3 DEF SameMeeting, Alike, NotBelow
    <3>2. CASE m.method = "CANCEL"
      <4>1. d = ApplyCancel(obj[a], m.doc, Clock)
        BY <1>1, <2>1, <2>2, <2>3, <2>5, <3>2, InboundOK
      <4> QED
        BY <1>1, <2>1, <2>3, <3>2, <4>1, CancelTaken
    <3> QED
      BY <2>3, <3>1, <3>2
  <2>7. NextCopy'
    BY <2>1, <2>4, <2>5, <2>6 DEF RisingInv, NextCopy
  <2>8. NextRead'
    BY <2>1, <2>2, <2>4, <2>5, <2>6 DEF NextRead
  <2>9. Arrived'
    BY <1>2, <1>3, <2>4
  <2> QED
    BY <2>7, <2>8, <2>9 DEF RisingInv
<1>13. ASSUME watch[a] # <<>>, Written(a), watch'[a] = <<>>, work'[a] = work[a] \/ work'[a] = <<>>,
              cli'[a] = cli[a] \/ cli'[a] = <<>>,
              processed'[a] \ lost' \subseteq (processed[a] \ lost) \cup {watch[a][1].ref}, UNCHANGED removed
       PROVE  RisingInv'
  <2>1. /\ obj'[a] = IF watch[a][1].doc = <<>> THEN obj[a] ELSE watch[a][1].doc
        /\ watch[a][1].doc # <<>> => obj[a] = watch[a][1].old
    BY <1>0, <1>13, WrittenOK DEF PostInv
  <2>2. Rises
    BY <1>2, <1>13, <2>1 DEF Rises, NotBelow, RisingInv, NextCopy
  <2>3. NextCopy' /\ NextRead'
    BY <1>13 DEF RisingInv, NextCopy, NextRead
  <2>4. PICK r \in Mail : r = watch[a][1].ref /\ Known(r) /\ r[1] = "org"
    BY <1>0, <1>13, WatchKnown, Sides
  <2>5. MessageOf(r).method = "REQUEST" /\ "att" \notin removed' => NotBelow(obj'[a], MessageOf(r).doc.seq)
    BY <1>13, <2>1, <2>4 DEF RisingInv, NextRead
  <2>6. Arrived'
    BY <1>0, <1>13, <2>2, <2>4, <2>5, RisesKeeps DEF RisingInv
  <2> QED
    BY <2>3, <2>6 DEF RisingInv
<1>14. ASSUME Apply(a) PROVE RisingInv'
  <2>1. /\ watch[a] # <<>> /\ Written(a) /\ Recorded(a) /\ UNCHANGED <<cli, work, lost, removed>>
        /\ watch' = [watch EXCEPT ![a] = <<>>]
    BY <1>14 DEF Apply
  <2>2. watch'[a] = <<>>
    BY <1>0, <2>1 DEF PostInv, TypeOK, ActorsOK
  <2>3. processed'[a] = processed[a] \cup {watch[a][1].ref}
    BY <1>0, <2>1, WrittenOK DEF PostInv
  <2> QED
    BY <1>13, <2>1, <2>2, <2>3
<1>15. ASSUME Crash(a) PROVE RisingInv'
  <2>1. /\ cli'[a] = <<>> /\ work'[a] = <<>> /\ watch'[a] = <<>> /\ UNCHANGED removed
        /\ watch[a] # <<>> => watch[a][1].ref \in lost'
    BY <1>0, <1>15, CrashLeaves
  <2>2. \/ UNCHANGED <<obj, processed>>
        \/ watch[a] # <<>> /\ Written(a) /\ UNCHANGED processed
        \/ watch[a] # <<>> /\ Written(a) /\ Recorded(a)
    BY <1>15 DEF Crash
  <2>3. NextCopy' /\ NextRead'
    BY <2>1 DEF NextCopy, NextRead
  <2>4. CASE UNCHANGED <<obj, processed>>
    BY <1>2, <1>3, <2>1, <2>3, <2>4 DEF RisingInv
  <2>5. CASE watch[a] # <<>> /\ Written(a) /\ (UNCHANGED processed \/ Recorded(a))
    <3>1. processed'[a] \subseteq processed[a] \cup {watch[a][1].ref}
      BY <1>0, <2>5, WrittenOK DEF PostInv
    <3>2. processed'[a] \ lost' \subseteq (processed[a] \ lost) \cup {watch[a][1].ref}
      BY <1>0, <3>1
    <3> QED
      BY <1>13, <2>1, <2>5, <3>2
  <2> QED
    BY <2>2, <2>4, <2>5
<1>16. ASSUME NEW s \in Side, s # a, Plan(s) \/ Commit(s) \/ Worker(s) \/ Fetch(s) \/ Apply(s) \/ Crash(s)
       PROVE  RisingInv'
  <2>1. UNCHANGED <<obj[a], cli[a], work[a], watch[a], processed[a]>> /\ removed \subseteq removed'
    <3> USE DEF PostInv, TypeOK, TablesOK, ActorsOK
    <3>1. CASE Plan(s)
      BY <1>0, <1>16, <3>1 DEF Plan, store
    <3>2. CASE Commit(s)
      BY <1>0, <1>16, <3>2 DEF Commit
    <3>3. CASE Send(s) \/ Retry(s) \/ StampWrite(s)
      BY <1>0, <1>16, <3>3 DEF Send, Retry, StampWrite, Replaces, store, procs
    <3>4. CASE MarkSent(s) \/ GiveUp(s)
      BY <1>0, <1>16, <3>4, PostMarkSent, PostGiveUp DEF MarkSent, GiveUp
    <3>5. CASE Fetch(s)
      BY <1>0, <1>16, <3>5 DEF Fetch
    <3>6. CASE Apply(s)
      BY <1>0, <1>16, <3>6 DEF Apply, Written, Replaces, Recorded
    <3>7. CASE Crash(s)
      BY <1>0, <1>16, <3>7 DEF Crash, Written, Replaces, Recorded
    <3> QED
      BY <1>16, <3>1, <3>2, <3>3, <3>4, <3>5, <3>6, <3>7 DEF Worker
  <2> QED
    BY <1>6, <2>1
<1>17. ASSUME NEW s \in Side, Retry(s) \/ BackoffEnds(s) \/ Skip(s) \/ Move(s) \/ Renumber(s)
       PROVE  RisingInv'
  BY <1>6, <1>17 DEF Retry, BackoffEnds, Skip, Move, Renumber, store, procs
<1>18. CASE Deliver \/ Lose \/ UNCHANGED vars
  BY <1>6, <1>18 DEF Deliver, Lose, vars, store, procs
<1>19. ASSUME NEW s \in Side, Plan(s) \/ Commit(s) \/ Worker(s) \/ Fetch(s) \/ Apply(s) \/ Crash(s)
       PROVE  RisingInv'
  BY <1>7, <1>8, <1>9, <1>10, <1>11, <1>12, <1>14, <1>15, <1>16, <1>17, <1>19 DEF Worker
<1> QED
  BY <1>17, <1>18, <1>19 DEF Next, Watcher

LEMMA RisingInit == Init => RisingInv
BY Sides DEF Init, RisingInv, NextCopy, NextRead, Arrived

LEMMA LatestArrivesIs ==
  ASSUME PostInv, CopyInv, blind = {} => MeetingInv /\ RisingInv, PostedRows, HandledInv
  PROVE  LatestArrives
<1> DEFINE o == obj["org"][1]
           c == obj["att"][1]
<1> SUFFICES ASSUME Quiet, lost = {}, removed = {}, blind = {}, obj["org"] # <<>>, o.on, ~IsCancelled(o)
             PROVE  /\ obj["att"] # <<>>
                    /\ c.seq = o.seq
                    /\ ~IsCancelled(c) => c.when = o.when
  BY DEF LatestArrives
<1>1. PICK i \in DOMAIN out["org"] : IsRequest(i) /\ Alike(OrgRow(i).msg.doc, o)
  BY DEF MeetingInv, InForce, Announced
<1>2. PICK r : r = <<"org", i>>
  OBVIOUS
<1>3. r \in processed["att"] \ lost
  BY <1>1, <1>2, MailAccounted, Sides
<1>4. NotBelow(obj["att"], o.seq)
  <2>1. MessageOf(r) = OrgRow(i).msg
    BY <1>2 DEF MessageOf, OrgRow
  <2> QED
    BY <1>1, <1>3, <2>1 DEF RisingInv, Arrived, IsRequest, Alike
<1>5. c.seq \in Nat /\ o.seq \in Nat /\ o.seq <= c.seq
  <2>1. obj["att"] \in Opt(AnyDoc) /\ obj["org"] \in Opt(AnyDoc)
    BY Sides DEF PostInv, TypeOK, TablesOK
  <2> QED
    BY <1>4, <2>1, SeqIn DEF NotBelow
<1>6. c.seq = o.seq
  <2>1. PICK j \in DOMAIN out["org"] : OrgRow(j).msg.doc.seq = c.seq
    BY <1>4 DEF CopyInv, IsCopy, Numbered, NotBelow
  <2>2. Covers(o, OrgRow(j).msg)
    BY <2>1 DEF MeetingInv, Current
  <2> QED
    BY <1>5, <2>1, <2>2 DEF Covers
<1>7. ASSUME ~IsCancelled(c) PROVE c.when = o.when
  <2>1. PICK j \in DOMAIN out["org"] : IsRequest(j) /\ Alike(OrgRow(j).msg.doc, c)
    BY <1>4, <1>7 DEF CopyInv, IsCopy, Announced, NotBelow
  <2>2. Covers(o, OrgRow(j).msg)
    BY <2>1 DEF MeetingInv, Current
  <2> QED
    BY <1>6, <2>1, <2>2 DEF Covers, Alike, IsRequest
<1> QED
  BY <1>4, <1>6, <1>7 DEF NotBelow

\* Where no write without a precondition put back something older, all mail delivered and none
\* lost leave the attendee with the SEQUENCE of the meeting as the organizer last left it and,
\* unless that copy is called off, its time: after any number of edits, retries and
\* renumberings, in whatever order mail arrived (plan_write, run_pass, apply_inbound).
THEOREM LatestIsDelivered == Spec => []LatestArrives
<1> DEFINE Told == "org" \notin blind => MeetingInv
           Risen == "att" \notin blind => RisingInv
<1>1. Init => Told /\ Risen
  BY MeetingInit, RisingInit
<1>2. PostInv /\ Told /\ [Next]_vars => Told'
  BY MeetingStep, BlindStays
<1>3. PostInv /\ PostedRows /\ PostedWork /\ [Next]_vars => PostedRows' /\ PostedWork'
  BY PostedStep
<1>4. PostInv /\ HandledInv /\ [Next]_vars => HandledInv'
  BY HandledStep
<1>5. PostInv /\ Risen /\ [Next]_vars => Risen'
  BY RisingStep, BlindStays
<1>6. PostInv /\ CopyInv /\ Told /\ PostedRows /\ HandledInv /\ Risen => LatestArrives
  BY LatestArrivesIs
<1> HIDE DEF Told, Risen
<1> QED
  BY <1>1, <1>2, <1>3, <1>4, <1>5, <1>6, MailStart, TypesAndMail, CopiesAlways, PTL DEF Spec
=============================================================================
