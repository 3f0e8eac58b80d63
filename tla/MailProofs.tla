----------------------------- MODULE MailProofs -----------------------------
(***************************************************************************)
(* What the mail sync thread promises about the cache, for any folders,    *)
(* bounds and batch size: it skips no message, a folder's rows belong to   *)
(* the mailbox its sync state names, and no row goes while the server has  *)
(* its message. Then what jamail's screen promises over a cache that is    *)
(* changed behind its back, for any messages, folders and keys: lists,     *)
(* conversations and counts are those of the cache, and what is marked as  *)
(* read was read.                                                          *)
(***************************************************************************)
EXTENDS MailSync, MailApp, FiniteSetTheorems, TLAPS


-----------------------------------------------------------------------------
(* The invariant.                                                          *)

Mailbox == [val: Nat, next: Nat, msgs: [Uids -> Message \cup {NoMessage}]]
Position == [val: Nat, last: Nat]

\* Where the thread is when it has a folder at hand.
InFolder == {"clear", "clearState", "list", "fetch", "flags", "prune", "update"}

TypeOK ==
    /\ srv \in [Folder -> Mailbox]
    /\ cache \in [Folder -> [Uids -> Row \cup {NoRow}]]
    /\ state \in [Folder -> Position \cup {NoState}]
    /\ job \in Job \cup {NoJob}
    /\ pc \in InFolder => job \in Job

\* A mailbox gives out its UIDs in order.
Numbered == \A f \in Folder, u \in Uids : On(f, u) => u < srv[f].next

\* The sync state of a folder names a mailbox the server has or had, and no UID the
\* mailbox has not given out.
StateBehind ==
    \A f \in Folder :
        state[f] # NoState =>
            /\ state[f].val <= srv[f].val
            /\ state[f].val = srv[f].val => state[f].last < srv[f].next

\* The rows of a folder come from the mailbox of its sync state or from an earlier one.
RowsBehind ==
    \A f \in Folder, u \in Uids :
        Cached(f, u) =>
            /\ cache[f][u].val <= srv[f].val
            /\ cache[f][u].val = srv[f].val => u < srv[f].next
            /\ state[f] # NoState => cache[f][u].val <= state[f].val

\* So does the job, which no row of its folder is ahead of.
JobBehind ==
    pc \in InFolder =>
        /\ job.val <= srv[job.folder].val
        /\ \A u \in Uids : Cached(job.folder, u) => cache[job.folder][u].val <= job.val

\* A folder is cleared because its mailbox is gone; the rows first.
Clearing ==
    /\ pc \in {"clear", "clearState"} =>
          /\ job.last = 0
          /\ state[job.folder] # NoState => state[job.folder].val < job.val
    /\ pc = "clear" => state[job.folder] # NoState
    /\ pc = "clearState" => \A u \in Uids : ~Cached(job.folder, u)

\* A download goes on from the sync state.
Listing ==
    pc \in {"list", "fetch"} =>
        \/ state[job.folder] = NoState /\ job.last = 0
        \/ /\ state[job.folder] # NoState
           /\ state[job.folder].val = job.val /\ state[job.folder].last = job.last

\* While the mailbox is the one selected, what it has up to the newest message
\* listed is cached or still to be fetched.
Fetching ==
    pc = "fetch" /\ srv[job.folder].val = job.val =>
        \A w \in job.new :
            /\ w < srv[job.folder].next
            /\ \A u \in Uids :
                  u <= w /\ On(job.folder, u) /\ srv[job.folder].msgs[u].readable
                      => Cached(job.folder, u) \/ u \in job.left

\* A row about to be removed because the server did not have its message: the
\* message of that UID it may have by now is another mailbox's, or a newer one.
Pruning ==
    pc = "prune" =>
        \A u \in Uids :
            job.flags[u] = Gone /\ On(job.folder, u) =>
                /\ /\ state[job.folder] # NoState
                   /\ state[job.folder].val = srv[job.folder].val
                   => state[job.folder].last < u
                /\ Cached(job.folder, u) => cache[job.folder][u].val # srv[job.folder].val

\* Flags are recorded for rows only.
Flagging ==
    pc \in {"prune", "update"} =>
        \A u \in Uids : job.flags[u] \notin {Gone, Unasked} => Cached(job.folder, u)

\* Rows without a sync state are those of the download under way, or of one cut off.
Origin ==
    \A f \in Folder, u \in Uids :
        f \notin orphaned /\ Cached(f, u) =>
            IF state[f] # NoState THEN cache[f][u].val = state[f].val
            ELSE pc = "fetch" /\ job.folder = f /\ cache[f][u].val = job.val

MailInv ==
    /\ TypeOK
    /\ Numbered /\ StateBehind /\ RowsBehind /\ JobBehind
    /\ Clearing /\ Listing /\ Fetching /\ Pruning /\ Flagging
    /\ NothingSkipped /\ Origin

-----------------------------------------------------------------------------
(* Records.                                                                *)

LEMMA Nones ==
    /\ NoRow \notin Row
    /\ NoJob \notin Job
    /\ NoState \notin Position
    /\ Gone \notin Flags /\ Unasked \notin Flags
  BY DEF NoRow, Row, NoJob, Job, NoState, Position, Gone, Unasked, Flags

\* A change of flags leaves a row a row of its message.
LEMMA RowKept ==
    ASSUME NEW r \in Row, NEW a \in BOOLEAN, NEW b \in BOOLEAN
    PROVE  /\ [r EXCEPT !.seen = a] \in Row /\ [r EXCEPT !.seen = a].val = r.val
           /\ [r EXCEPT !.star = b] \in Row /\ [r EXCEPT !.star = b].val = r.val
           /\ [r EXCEPT !.seen = a, !.star = b] \in Row
           /\ [r EXCEPT !.seen = a, !.star = b].val = r.val
  BY DEF Row

LEMMA MessageKept ==
    ASSUME NEW m \in Message, NEW a \in BOOLEAN, NEW b \in BOOLEAN
    PROVE  /\ [m EXCEPT !.seen = a] \in Message /\ [m EXCEPT !.seen = a].readable = m.readable
           /\ [m EXCEPT !.star = b] \in Message /\ [m EXCEPT !.star = b].readable = m.readable
           /\ [m EXCEPT !.seen = a, !.star = b] \in Message
           /\ [m EXCEPT !.seen = a, !.star = b].readable = m.readable
  BY DEF Message

\* What the types say of the parts of the state.
LEMMA Typed ==
    ASSUME TypeOK
    PROVE  /\ Uids \subseteq Nat
           /\ \A f \in Folder : srv[f].val \in Nat /\ srv[f].next \in Nat
           /\ \A f \in Folder : state[f] # NoState => state[f].val \in Nat /\ state[f].last \in Nat
           /\ \A f \in Folder, u \in Uids : Cached(f, u) => cache[f][u] \in Row /\ cache[f][u].val \in Nat
           /\ pc \in InFolder => /\ job.folder \in Folder /\ job.val \in Nat /\ job.last \in Nat
                                /\ job.new \subseteq Uids /\ job.left \subseteq Uids
<1>1. Uids \subseteq Nat
  BY MailAssumption DEF Uids
<1>2. \A f \in Folder : srv[f].val \in Nat /\ srv[f].next \in Nat
  BY DEF TypeOK, Mailbox
<1>3. \A f \in Folder : state[f] # NoState => state[f].val \in Nat /\ state[f].last \in Nat
  BY DEF TypeOK, Position
<1>4. \A f \in Folder, u \in Uids : Cached(f, u) => cache[f][u] \in Row
  BY DEF TypeOK, Cached
<1>5. \A r \in Row : r.val \in Nat
  BY DEF Row
<1>6. pc \in InFolder => /\ job.folder \in Folder /\ job.val \in Nat /\ job.last \in Nat
                        /\ job.new \subseteq Uids /\ job.left \subseteq Uids
  BY DEF TypeOK, Job
<1> QED
  BY <1>1, <1>2, <1>3, <1>4, <1>5, <1>6

LEMMA InitHolds == Init => MailInv
<1> SUFFICES ASSUME Init PROVE MailInv
  OBVIOUS
<1> USE MailAssumption
<1>0. PICK n \in 0 .. MaxUid : \E readable \in SUBSET (1 .. n) :
         srv = [f \in Folder |-> Filled(1, n, readable)]
  BY DEF Init
<1>1. PICK readable \in SUBSET (1 .. n) : srv = [f \in Folder |-> Filled(1, n, readable)]
  BY <1>0
<1>2. \A u \in Uids : u <= n => [seen |-> FALSE, star |-> FALSE,
                                  readable |-> u \in readable] \in Message
  BY DEF Message
<1>3. Filled(1, n, readable) \in Mailbox
  BY <1>2 DEF Filled, Mailbox
<1>4. Numbered
  BY <1>1 DEF Numbered, On, Filled, Uids
<1>5. TypeOK
  BY <1>1, <1>3 DEF Init, TypeOK, InFolder
<1> QED
  BY <1>4, <1>5 DEF Init, MailInv, StateBehind, RowsBehind, JobBehind, Clearing, Listing,
        Fetching, Pruning, Flagging, NothingSkipped, Origin, Cached, InFolder

-----------------------------------------------------------------------------
(* What the server and its clients may do to the thread.                   *)

\* Messages come at the end, go, or change flags; or the mailbox is replaced.
ServerMoves ==
    /\ srv' \in [Folder -> Mailbox]
    /\ Numbered'
    /\ \A f \in Folder :
          \/ srv[f].val < srv'[f].val
          \/ /\ srv'[f].val = srv[f].val /\ srv[f].next <= srv'[f].next
             /\ \A u \in Uids :
                   On(f, u)' => \/ On(f, u) /\ srv'[f].msgs[u].readable = srv[f].msgs[u].readable
                                \/ srv[f].next <= u

LEMMA ServerKeeps ==
    ASSUME MailInv, ServerMoves, UNCHANGED <<cache, state, job, orphaned>>,
           pc' = pc \/ {pc, pc'} \cap InFolder = {}
    PROVE  MailInv'
<1> USE MailAssumption
<1> USE DEF MailInv, ServerMoves
<1>a. pc' \in InFolder => pc' = pc
  OBVIOUS
<1>b. pc' \in InFolder => job \in Job /\ job.folder \in Folder /\ job.val \in Nat
                         /\ job.new \subseteq Uids /\ job.last \in Nat
  BY <1>a DEF TypeOK, Job
<1>c. \A f \in Folder : srv[f].val \in Nat /\ srv[f].next \in Nat
                       /\ srv'[f].val \in Nat /\ srv'[f].next \in Nat
  BY DEF TypeOK, Mailbox
<1>d. \A f \in Folder : state[f] # NoState => state[f].val \in Nat /\ state[f].last \in Nat
  BY DEF TypeOK, Position
<1>e. \A f \in Folder, u \in Uids : Cached(f, u) => cache[f][u].val \in Nat
  BY DEF TypeOK, Row, Cached
<1>u. Uids \subseteq Nat
  BY DEF Uids
<1>1. TypeOK'
  BY <1>a DEF TypeOK
<1>2. StateBehind'
  BY <1>c, <1>d DEF StateBehind
<1>3. RowsBehind'
  BY <1>c, <1>d, <1>e, <1>u DEF RowsBehind, Cached
<1>4. JobBehind'
  BY <1>a, <1>b, <1>c, <1>e DEF JobBehind, Cached
<1>5. Clearing'
  BY <1>a DEF Clearing, Cached, InFolder
<1>6. Listing'
  BY <1>a DEF Listing, InFolder
<1>7. Fetching'
  <2> SUFFICES ASSUME pc' = "fetch", srv'[job.folder].val = job.val
               PROVE  \A w \in job.new :
                         /\ w < srv'[job.folder].next
                         /\ \A u \in Uids :
                               u <= w /\ On(job.folder, u)' /\ srv'[job.folder].msgs[u].readable
                                   => Cached(job.folder, u) \/ u \in job.left
    BY DEF Fetching, Cached
  <2>1. pc = "fetch" /\ job.folder \in Folder /\ job.new \subseteq Nat
    BY <1>a, <1>b, <1>u DEF InFolder
  <2>2. srv[job.folder].val = job.val
    BY <2>1, <1>b, <1>c DEF JobBehind, InFolder
  <2>3. \A w \in job.new :
           /\ w < srv[job.folder].next
           /\ \A u \in Uids :
                 u <= w /\ On(job.folder, u) /\ srv[job.folder].msgs[u].readable
                     => Cached(job.folder, u) \/ u \in job.left
    BY <2>1, <2>2 DEF Fetching
  <2>4. /\ srv[job.folder].next <= srv'[job.folder].next
        /\ \A u \in Uids :
              On(job.folder, u)' =>
                 \/ On(job.folder, u) /\ srv'[job.folder].msgs[u].readable
                                           = srv[job.folder].msgs[u].readable
                 \/ srv[job.folder].next <= u
    BY <2>1, <2>2, <1>c DEF On
  <2> HIDE DEF MailInv, ServerMoves
  <2> QED
    BY <2>1, <2>3, <2>4, <1>c, <1>u
<1>8. Pruning'
  <2> SUFFICES ASSUME pc' = "prune", NEW u \in Uids, job.flags[u] = Gone, On(job.folder, u)'
               PROVE  /\ /\ state[job.folder] # NoState
                         /\ state[job.folder].val = srv'[job.folder].val
                         => state[job.folder].last < u
                      /\ Cached(job.folder, u)
                             => cache[job.folder][u].val # srv'[job.folder].val
    BY DEF Pruning, Cached
  <2>1. pc = "prune" /\ job.folder \in Folder
    BY <1>a, <1>b DEF InFolder
  <2>2. CASE srv[job.folder].val < srv'[job.folder].val
    BY <2>1, <2>2, <1>c, <1>d, <1>e DEF StateBehind, RowsBehind
  <2>3. CASE srv'[job.folder].val = srv[job.folder].val /\ On(job.folder, u)
    BY <2>1, <2>3 DEF Pruning
  <2>4. CASE srv'[job.folder].val = srv[job.folder].val /\ srv[job.folder].next <= u
    BY <2>1, <2>4, <1>c, <1>d, <1>e, <1>u DEF StateBehind, RowsBehind
  <2> QED
    BY <2>1, <2>2, <2>3, <2>4
<1>9. Flagging'
  BY <1>a DEF Flagging, Cached, InFolder
<1>10. NothingSkipped'
  BY <1>c, <1>d, <1>u DEF NothingSkipped, StateBehind, Cached
<1>11. Origin'
  BY <1>a DEF Origin, Cached, InFolder
<1> QED
  BY <1>1, <1>2, <1>3, <1>4, <1>5, <1>6, <1>7, <1>8, <1>9, <1>10, <1>11

-----------------------------------------------------------------------------
(* What leaves the folder at hand alone, or leaves it.                     *)

\* Rows change flags only.
RowsStay ==
    /\ cache' \in [Folder -> [Uids -> Row \cup {NoRow}]]
    /\ \A f \in Folder, u \in Uids :
          /\ Cached(f, u)' <=> Cached(f, u)
          /\ Cached(f, u) => cache'[f][u].val = cache[f][u].val

\* The thread leaves its folder, and any rows it has not got to a sync state for
\* are called orphaned.
Leaves ==
    /\ pc' \notin InFolder
    /\ job' \in Job \cup {NoJob}
    /\ \A u \in Uids :
          pc = "fetch" /\ Cached(job.folder, u) =>
              job.folder \in orphaned' \/ state[job.folder] # NoState

LEMMA OthersKeep ==
    ASSUME MailInv, RowsStay, UNCHANGED <<srv, state>>, orphaned \subseteq orphaned',
           UNCHANGED <<pc, job>> \/ Leaves
    PROVE  MailInv'
<1>t. TypeOK
  BY DEF MailInv
<1>1. TypeOK'
  BY DEF MailInv, TypeOK, RowsStay, Leaves
<1>2. Numbered' /\ StateBehind'
  BY DEF MailInv, Numbered, On, StateBehind
<1>3. RowsBehind'
  BY DEF MailInv, RowsBehind, RowsStay
<1>4. NothingSkipped'
  BY DEF MailInv, NothingSkipped, RowsStay, On
<1>5. CASE UNCHANGED <<pc, job>>
  <2>1. JobBehind'
    BY <1>5, <1>t, Typed DEF MailInv, JobBehind, RowsStay
  <2>2. Clearing' /\ Listing'
    BY <1>5, <1>t, Typed DEF MailInv, Clearing, Listing, RowsStay, InFolder
  <2>3. Fetching'
    <3>1. pc = "fetch" => job.folder \in Folder
      BY <1>t, Typed DEF InFolder
    <3> QED
      BY <1>5, <3>1 DEF MailInv, Fetching, RowsStay, On
  <2>4. Pruning'
    <3>1. pc = "prune" => job.folder \in Folder
      BY <1>t, Typed DEF InFolder
    <3> QED
      BY <1>5, <3>1 DEF MailInv, Pruning, RowsStay, On
  <2>5. Flagging'
    BY <1>5, <1>t, Typed DEF MailInv, Flagging, RowsStay, InFolder
  <2>6. Origin'
    BY <1>5 DEF MailInv, Origin, RowsStay
  <2> QED
    BY <1>1, <1>2, <1>3, <1>4, <2>1, <2>2, <2>3, <2>4, <2>5, <2>6 DEF MailInv
<1>6. CASE Leaves
  <2>1. JobBehind' /\ Clearing' /\ Listing' /\ Fetching' /\ Pruning' /\ Flagging'
    BY <1>6 DEF Leaves, JobBehind, Clearing, Listing, Fetching, Pruning, Flagging, InFolder
  <2>2. Origin'
    BY <1>6 DEF MailInv, Origin, RowsStay, Leaves
  <2> QED
    BY <1>1, <1>2, <1>3, <1>4, <2>1, <2>2 DEF MailInv
<1> QED
  BY <1>5, <1>6

\* The flags of one row.
LEMMA RowFlagged ==
    ASSUME MailInv, NEW f \in Folder, NEW u \in Uids, NEW b \in BOOLEAN, Cached(f, u),
           \/ cache' = [cache EXCEPT ![f][u].seen = b]
           \/ cache' = [cache EXCEPT ![f][u].star = b]
    PROVE  RowsStay
<1>1. PICK r \in Row : r = cache[f][u]
  BY DEF MailInv, TypeOK, Cached
<1>2. PICK q \in Row : q.val = r.val /\ cache' = [cache EXCEPT ![f][u] = q]
  BY <1>1, RowKept
<1>3. q # NoRow
  BY <1>2, Nones
<1> QED
  BY <1>1, <1>2, <1>3 DEF MailInv, TypeOK, RowsStay, Cached

LEMMA UpdateFlags ==
    ASSUME MailInv, Update
    PROVE  RowsStay
<1> DEFINE g == job.folder
           row(u) == IF job.flags[u] \in {Gone, Unasked} THEN cache[g][u]
                     ELSE [cache[g][u] EXCEPT !.seen = job.flags[u].seen,
                                              !.star = job.flags[u].star]
<1>1. g \in Folder /\ pc = "update"
  BY Typed DEF MailInv, Update, InFolder
<1>2. cache' = [cache EXCEPT ![g] = [u \in Uids |-> row(u)]]
  BY DEF Update
<1>3. ASSUME NEW u \in Uids
      PROVE  /\ row(u) \in Row \cup {NoRow}
             /\ row(u) # NoRow <=> Cached(g, u)
             /\ Cached(g, u) => row(u).val = cache[g][u].val
  <2>1. CASE job.flags[u] \in {Gone, Unasked}
    BY <1>1, <2>1 DEF MailInv, TypeOK, Cached
  <2>2. CASE job.flags[u] \notin {Gone, Unasked}
    <3>1. Cached(g, u)
      BY <1>1, <2>2 DEF MailInv, Flagging
    <3>2. PICK r \in Row : r = cache[g][u]
      BY <1>1, <3>1, Typed DEF MailInv
    <3>3. job.flags[u].seen \in BOOLEAN /\ job.flags[u].star \in BOOLEAN
      BY <1>1, <2>2 DEF MailInv, TypeOK, Job, InFolder, Flags
    <3>4. row(u) \in Row /\ row(u).val = r.val
      BY <2>2, <3>2, <3>3, RowKept
    <3> QED
      BY <3>1, <3>2, <3>4, Nones
  <2> QED
    BY <2>1, <2>2
<1> HIDE DEF row
<1> QED
  BY <1>1, <1>2, <1>3 DEF MailInv, TypeOK, RowsStay, Cached

-----------------------------------------------------------------------------
(* The steps of the server and of its clients.                             *)

\* What may become of one mailbox.
Follows(m, f) ==
    /\ m \in Mailbox
    /\ \A u \in Uids : m.msgs[u] # NoMessage => u < m.next
    /\ \/ srv[f].val < m.val
       \/ /\ m.val = srv[f].val /\ srv[f].next <= m.next
          /\ \A u \in Uids :
                m.msgs[u] # NoMessage =>
                    \/ On(f, u) /\ m.msgs[u].readable = srv[f].msgs[u].readable
                    \/ srv[f].next <= u

LEMMA MailboxMoves ==
    ASSUME MailInv, NEW f \in Folder, NEW m, Follows(m, f), srv' = [srv EXCEPT ![f] = m]
    PROVE  ServerMoves
<1>1. srv' \in [Folder -> Mailbox]
  BY DEF MailInv, TypeOK, Follows
<1>2. \A e \in Folder : srv'[e] = IF e = f THEN m ELSE srv[e]
  BY DEF MailInv, TypeOK
<1>3. Numbered'
  BY <1>2 DEF MailInv, Numbered, On, Follows
<1>4. \A e \in Folder : srv[e].next \in Nat
  BY Typed DEF MailInv
<1>5. ASSUME NEW e \in Folder
      PROVE  \/ srv[e].val < srv'[e].val
             \/ /\ srv'[e].val = srv[e].val /\ srv[e].next <= srv'[e].next
                /\ \A u \in Uids :
                      On(e, u)' => \/ On(e, u) /\ srv'[e].msgs[u].readable = srv[e].msgs[u].readable
                                   \/ srv[e].next <= u
  BY <1>2, <1>4 DEF Follows, On
<1> QED
  BY <1>1, <1>3, <1>5 DEF ServerMoves

LEMMA ArriveMoves ==
    ASSUME MailInv, NEW f \in Folder, NEW b \in BOOLEAN, Arrive(f, b)
    PROVE  ServerMoves
<1>1. PICK x : x = [seen |-> FALSE, star |-> FALSE, readable |-> b]
  OBVIOUS
<1>2. x \in Message
  BY <1>1 DEF Message
<1>3. srv[f] \in Mailbox /\ Uids \subseteq Nat
  BY Typed DEF MailInv, TypeOK
<1>s. PICK s : s = [srv[f].msgs EXCEPT ![srv[f].next] = x]
  OBVIOUS
<1>m. PICK m : m = [srv[f] EXCEPT !.next = @ + 1, !.msgs = s]
  OBVIOUS
<1>4. srv' = [srv EXCEPT ![f] = m]
  <2>1. srv' = [srv EXCEPT ![f].next = @ + 1, ![f].msgs[srv[f].next] = x]
    BY <1>1 DEF Arrive
  <2>2. [srv[f] EXCEPT !.next = @ + 1].msgs = srv[f].msgs
    BY <1>3 DEF Mailbox
  <2>3. DOMAIN srv = Folder
    BY DEF MailInv, TypeOK
  <2> QED
    BY <1>3, <1>s, <1>m, <2>1, <2>2, <2>3 DEF Mailbox
<1>5. s \in [Uids -> Message \cup {NoMessage}]
  BY <1>2, <1>3, <1>s DEF Mailbox
<1>6. /\ m \in Mailbox /\ m.val = srv[f].val /\ m.next = srv[f].next + 1
      /\ m.msgs = s
      /\ \A u \in Uids : s[u] = IF u = srv[f].next THEN x ELSE srv[f].msgs[u]
  <2>1. DOMAIN srv[f].msgs = Uids
    BY <1>3 DEF Mailbox
  <2>2. \A u \in Uids : s[u] = IF u = srv[f].next THEN x ELSE srv[f].msgs[u]
    BY <2>1, <1>s
  <2>3. PICK q \in Mailbox : q = srv[f]
    BY <1>3
  <2>4. m = [q EXCEPT !.next = q.next + 1, !.msgs = s]
    BY <1>m, <2>3
  <2>5. q = [val |-> q.val, next |-> q.next, msgs |-> q.msgs] /\ q.val \in Nat /\ q.next \in Nat
    BY DEF Mailbox
  <2>6. m = [val |-> q.val, next |-> q.next + 1, msgs |-> s]
    BY <2>4, <2>5
  <2>7. m \in Mailbox /\ m.val = q.val /\ m.next = q.next + 1 /\ m.msgs = s
    BY <2>5, <2>6, <1>5 DEF Mailbox
  <2> QED
    BY <2>2, <2>3, <2>7
<1>7. \A u \in Uids : srv[f].msgs[u] # NoMessage => u < srv[f].next
  BY DEF MailInv, Numbered, On
<1>8. srv[f].next \in Nat
  BY <1>3 DEF Mailbox
<1>9. Follows(m, f)
  BY <1>3, <1>6, <1>7, <1>8 DEF Follows, On
<1> QED
  BY <1>4, <1>9, MailboxMoves

\* Nothing comes, and what stays is as readable as it was.
LEMMA MessagesMove ==
    ASSUME MailInv, NEW f \in Folder, NEW s \in [Uids -> Message \cup {NoMessage}],
           \A u \in Uids : s[u] # NoMessage =>
               On(f, u) /\ s[u].readable = srv[f].msgs[u].readable,
           srv' = [srv EXCEPT ![f].msgs = s]
    PROVE  ServerMoves
<1>1. PICK m : m = [srv[f] EXCEPT !.msgs = s]
  OBVIOUS
<1>2. srv' = [srv EXCEPT ![f] = m]
  BY <1>1 DEF MailInv, TypeOK
<1>3. srv[f] \in Mailbox
  BY DEF MailInv, TypeOK
<1>4. m \in Mailbox /\ m.val = srv[f].val /\ m.next = srv[f].next /\ m.msgs = s
  BY <1>1, <1>3 DEF Mailbox
<1>5. \A u \in Uids : On(f, u) => u < srv[f].next
  BY DEF MailInv, Numbered
<1>6. srv[f].next \in Nat
  BY <1>3 DEF Mailbox
<1>7. Follows(m, f)
  BY <1>4, <1>5, <1>6 DEF Follows
<1> QED
  BY <1>2, <1>7, MailboxMoves

LEMMA ExpungeMoves ==
    ASSUME MailInv, NEW f \in Folder, NEW u \in Uids, Expunge(f, u)
    PROVE  ServerMoves
<1>1. PICK s : s = [srv[f].msgs EXCEPT ![u] = NoMessage]
  OBVIOUS
<1>2. srv[f] \in Mailbox
  BY DEF MailInv, TypeOK
<1>3. srv' = [srv EXCEPT ![f].msgs = s]
  BY <1>1 DEF Expunge
<1>4. s \in [Uids -> Message \cup {NoMessage}]
  BY <1>1, <1>2 DEF Mailbox
<1>5. \A v \in Uids : s[v] # NoMessage => s[v] = srv[f].msgs[v]
  BY <1>1, <1>2 DEF Mailbox
<1> QED
  BY <1>3, <1>4, <1>5, MessagesMove DEF On

LEMMA OtherFlagMoves ==
    ASSUME MailInv, NEW f \in Folder, NEW u \in Uids, NEW a \in BOOLEAN, NEW b \in BOOLEAN,
           OtherFlag(f, u, a, b)
    PROVE  ServerMoves
<1>1. srv[f] \in Mailbox /\ On(f, u)
  BY DEF MailInv, TypeOK, OtherFlag
<1>2. PICK x \in Message : x = srv[f].msgs[u]
  BY <1>1 DEF Mailbox, On
<1>3. PICK y : y = [x EXCEPT !.seen = a, !.star = b]
  OBVIOUS
<1>4. y \in Message /\ y.readable = x.readable
  BY <1>3, MessageKept
<1>5. PICK s : s = [srv[f].msgs EXCEPT ![u] = y]
  OBVIOUS
<1>6. srv' = [srv EXCEPT ![f].msgs = s]
  BY <1>2, <1>3, <1>5 DEF OtherFlag
<1>7. s \in [Uids -> Message \cup {NoMessage}]
  BY <1>1, <1>4, <1>5 DEF Mailbox
<1>8. \A v \in Uids : s[v] # NoMessage => On(f, v) /\ s[v].readable = srv[f].msgs[v].readable
  BY <1>1, <1>2, <1>4, <1>5 DEF Mailbox, On
<1> QED
  BY <1>6, <1>7, <1>8, MessagesMove

LEMMA StoredMoves ==
    ASSUME MailInv, NEW f \in Folder, NEW b \in BOOLEAN, NEW us, srv' = Stored(f, b, us)
    PROVE  ServerMoves
<1> DEFINE new(u) == IF u \in us /\ On(f, u)
                     THEN IF pc = "storeMarks" THEN [srv[f].msgs[u] EXCEPT !.seen = TRUE]
                          ELSE [srv[f].msgs[u] EXCEPT !.star = b]
                     ELSE srv[f].msgs[u]
<1>1. PICK s : s = [u \in Uids |-> new(u)]
  OBVIOUS
<1>2. srv' = [srv EXCEPT ![f].msgs = s]
  BY <1>1 DEF Stored
<1>3. srv[f] \in Mailbox
  BY DEF MailInv, TypeOK
<1>4. ASSUME NEW u \in Uids
      PROVE  /\ new(u) \in Message \cup {NoMessage}
             /\ new(u) # NoMessage => On(f, u) /\ new(u).readable = srv[f].msgs[u].readable
  <2>1. CASE On(f, u)
    <3>1. PICK x \in Message : x = srv[f].msgs[u]
      BY <1>3, <2>1 DEF On, Mailbox
    <3>2. new(u) \in Message /\ new(u).readable = x.readable
      BY <3>1, MessageKept
    <3> QED
      BY <2>1, <3>1, <3>2
  <2>2. CASE ~On(f, u)
    BY <2>2 DEF On
  <2> QED
    BY <2>1, <2>2
<1> HIDE DEF new
<1>5. s \in [Uids -> Message \cup {NoMessage}]
  BY <1>1, <1>4
<1>6. \A u \in Uids : s[u] # NoMessage => On(f, u) /\ s[u].readable = srv[f].msgs[u].readable
  BY <1>1, <1>4
<1> QED
  BY <1>2, <1>5, <1>6, MessagesMove

LEMMA RecreateMoves ==
    ASSUME MailInv, NEW f \in Folder, NEW n \in 0 .. MaxUid, Recreate(f, n)
    PROVE  ServerMoves
<1>1. PICK m : m = Filled(srv[f].val + 1, n, 1 .. n)
  OBVIOUS
<1>2. srv' = [srv EXCEPT ![f] = m]
  BY <1>1 DEF Recreate
<1>3. \A u \in Uids : [seen |-> FALSE, star |-> FALSE, readable |-> u \in 1 .. n] \in Message
  BY DEF Message
<1>4. srv[f].val \in Nat /\ Uids \subseteq Nat
  BY Typed DEF MailInv
<1>5. m \in Mailbox /\ m.val = srv[f].val + 1 /\ m.next = n + 1
  BY <1>1, <1>3, <1>4 DEF Filled, Mailbox
<1>6. \A u \in Uids : m.msgs[u] # NoMessage => u < m.next
  BY <1>1, <1>4, <1>5 DEF Filled
<1>7. srv[f].val < m.val
  BY <1>4, <1>5
<1>8. Follows(m, f)
  BY <1>5, <1>6, <1>7 DEF Follows
<1> QED
  BY <1>2, <1>8, MailboxMoves

-----------------------------------------------------------------------------
(* The steps of the thread in a folder.                                    *)

\* A job on folder f is at hand next.
LEMMA JobKept ==
    ASSUME TypeOK, job' \in Job, UNCHANGED <<srv, cache, state>>
    PROVE  TypeOK'
  BY DEF TypeOK

LEMMA SelectKeeps ==
    ASSUME MailInv, NEW f \in Folder, Select(f)
    PROVE  MailInv'
<1> DEFINE known == state[f] # NoState /\ state[f].val = srv[f].val
<1>1. /\ Uids \subseteq Nat /\ srv[f].val \in Nat /\ srv[f].next \in Nat
      /\ state[f] # NoState => state[f].val \in Nat /\ state[f].last \in Nat
      /\ \A u \in Uids : Cached(f, u) => cache[f][u].val \in Nat
  BY Typed DEF MailInv
<1>2. PICK last \in Nat : last = IF known THEN state[f].last ELSE 0
  BY <1>1
<1>3. PICK flags : flags = [u \in Uids |-> Unasked]
  OBVIOUS
<1>4. job' = [folder |-> f, val |-> srv[f].val, last |-> last, new |-> {}, left |-> {},
              flags |-> flags]
  BY <1>2, <1>3 DEF Select
<1>5. flags \in [Uids -> Flags \cup {Gone, Unasked}]
  BY <1>3
<1>6. job' \in Job
  BY <1>1, <1>4, <1>5 DEF Job
<1>7. job'.folder = f /\ job'.val = srv[f].val /\ job'.last = last /\ job'.new = {}
  BY <1>4
<1>8. pc' = IF state[f] = NoState \/ known THEN "list" ELSE "clear"
  BY DEF Select
<1>9. UNCHANGED <<srv, cache, state, orphaned>> /\ pc = "folders"
  BY DEF Select, cacheVars, ghostVars
<1> HIDE DEF known
<1>10. TypeOK'
  BY <1>6, <1>9, JobKept DEF MailInv
<1>11. Numbered' /\ StateBehind' /\ NothingSkipped'
  BY <1>9 DEF MailInv, Numbered, StateBehind, NothingSkipped, On, Cached
<1>12. RowsBehind'
  BY <1>9 DEF MailInv, RowsBehind, Cached
<1>13. JobBehind'
  BY <1>1, <1>7, <1>9 DEF MailInv, JobBehind, RowsBehind, Cached
<1>14. Clearing'
  <2>1. pc' = "clear" => state[f] # NoState /\ state[f].val < srv[f].val /\ last = 0
    BY <1>1, <1>2, <1>8 DEF MailInv, StateBehind, known
  <2> QED
    BY <2>1, <1>7, <1>8, <1>9 DEF Clearing
<1>15. Listing'
  <2>1. CASE known
    BY <2>1, <1>2, <1>7, <1>8, <1>9 DEF Listing, known
  <2>2. CASE ~known
    BY <2>2, <1>2, <1>7, <1>8, <1>9 DEF Listing
  <2> QED
    BY <2>1, <2>2
<1>16. Fetching' /\ Pruning' /\ Flagging'
  BY <1>8 DEF Fetching, Pruning, Flagging
<1>17. Origin'
  BY <1>9 DEF MailInv, Origin, Cached
<1> QED
  BY <1>10, <1>11, <1>12, <1>13, <1>14, <1>15, <1>16, <1>17 DEF MailInv

LEMMA ClearRowsKeeps ==
    ASSUME MailInv, ClearRows
    PROVE  /\ MailInv'
           /\ \A u \in Uids :
                 Cached(job.folder, u) => cache[job.folder][u].val < srv[job.folder].val
<1>1. /\ pc = "clear" /\ pc' = "clearState" /\ UNCHANGED <<srv, state, job, orphaned>>
      /\ cache' = [cache EXCEPT ![job.folder] = [u \in Uids |-> NoRow]]
  BY DEF ClearRows, ghostVars
<1>2. PICK g \in Folder : g = job.folder
  BY <1>1, Typed DEF MailInv, InFolder
<1>3. \A f \in Folder, u \in Uids : cache'[f][u] = IF f = g THEN NoRow ELSE cache[f][u]
  BY <1>1, <1>2 DEF MailInv, TypeOK
<1>4. \A f \in Folder, u \in Uids : Cached(f, u)' => f # g /\ Cached(f, u)
  BY <1>3 DEF Cached
<1>5. TypeOK'
  BY <1>1, <1>2 DEF MailInv, TypeOK, InFolder
<1>6. state[g] # NoState /\ state[g].val < job.val /\ job.val <= srv[g].val
  BY <1>1, <1>2 DEF MailInv, Clearing, JobBehind, InFolder
<1>t. /\ state[g].val \in Nat /\ job.val \in Nat /\ srv[g].val \in Nat
      /\ \A u \in Uids : Cached(g, u) => cache[g][u].val \in Nat
  BY <1>1, <1>6, Typed DEF MailInv, InFolder
<1>7. Numbered' /\ StateBehind'
  BY <1>1 DEF MailInv, Numbered, On, StateBehind
<1>8. RowsBehind'
  BY <1>1, <1>3, <1>4 DEF MailInv, RowsBehind
<1>9. JobBehind' /\ Clearing'
  BY <1>1, <1>2, <1>4, <1>6 DEF MailInv, JobBehind, Clearing, InFolder
<1>10. Listing' /\ Fetching' /\ Pruning' /\ Flagging'
  BY <1>1 DEF Listing, Fetching, Pruning, Flagging
<1>11. NothingSkipped'
  <2> SUFFICES ASSUME NEW f \in Folder, NEW u \in Uids,
                      state[f] # NoState, state[f].val = srv[f].val, u <= state[f].last,
                      On(f, u), srv[f].msgs[u].readable
               PROVE  Cached(f, u)'
    BY <1>1 DEF NothingSkipped, On
  <2>1. f # g
    BY <1>6, <1>t
  <2>2. Cached(f, u)
    BY DEF MailInv, NothingSkipped
  <2> QED
    BY <1>3, <2>1, <2>2 DEF Cached
<1>12. Origin'
  BY <1>1, <1>3, <1>4 DEF MailInv, Origin
<1>13. \A u \in Uids : Cached(g, u) => cache[g][u].val < srv[g].val
  BY <1>6, <1>t DEF MailInv, RowsBehind
<1> QED
  BY <1>2, <1>5, <1>7, <1>8, <1>9, <1>10, <1>11, <1>12, <1>13 DEF MailInv

LEMMA ClearStateKeeps ==
    ASSUME MailInv, ClearState
    PROVE  MailInv'
<1>1. /\ pc = "clearState" /\ pc' = "list" /\ UNCHANGED <<srv, cache, job>>
      /\ state' = [state EXCEPT ![job.folder] = NoState]
      /\ orphaned' = orphaned \ {job.folder}
  BY DEF ClearState
<1>2. PICK g \in Folder : g = job.folder
  BY <1>1, Typed DEF MailInv, InFolder
<1>3. \A f \in Folder : state'[f] = IF f = g THEN NoState ELSE state[f]
  BY <1>1, <1>2 DEF MailInv, TypeOK
<1>4. TypeOK'
  BY <1>1, <1>2 DEF MailInv, TypeOK, InFolder
<1>5. Numbered' /\ StateBehind'
  BY <1>1, <1>3 DEF MailInv, Numbered, On, StateBehind
<1>6. RowsBehind'
  BY <1>1, <1>3 DEF MailInv, RowsBehind, Cached
<1>7. JobBehind'
  BY <1>1 DEF MailInv, JobBehind, Cached, InFolder
<1>8. Listing'
  BY <1>1, <1>2, <1>3 DEF MailInv, Clearing, Listing
<1>9. Clearing' /\ Fetching' /\ Pruning' /\ Flagging'
  BY <1>1 DEF Clearing, Fetching, Pruning, Flagging
<1>10. NothingSkipped'
  BY <1>1, <1>3 DEF MailInv, NothingSkipped, On, Cached
<1>11. Origin'
  <2>1. \A u \in Uids : ~Cached(g, u)
    BY <1>1, <1>2 DEF MailInv, Clearing
  <2> QED
    BY <1>1, <1>2, <1>3, <2>1 DEF MailInv, Origin, Cached
<1> QED
  BY <1>4, <1>5, <1>6, <1>7, <1>8, <1>9, <1>10, <1>11 DEF MailInv

LEMMA ListNewKeeps ==
    ASSUME MailInv, ListNew
    PROVE  MailInv'
<1>1. PICK g \in Folder : g = job.folder
  BY Typed DEF MailInv, InFolder, ListNew
<1> DEFINE new == {u \in Uids : On(g, u) /\ u > job.last}
           left == {u \in new : ~Cached(g, u)}
<1>2. /\ pc = "list" /\ srv[g].val = job.val /\ UNCHANGED <<srv, cache, state, orphaned>>
      /\ job' = [job EXCEPT !.new = new, !.left = left]
      /\ pc' = IF new = {} THEN "flags" ELSE "fetch"
  BY <1>1 DEF ListNew, Selected, cacheVars, ghostVars
<1>3. job \in Job /\ new \subseteq Uids /\ left \subseteq Uids
  BY <1>2 DEF MailInv, TypeOK, InFolder
<1> HIDE DEF new, left
<1>4. /\ job' \in Job /\ job'.folder = g /\ job'.val = job.val /\ job'.last = job.last
      /\ job'.new = new /\ job'.left = left
  BY <1>1, <1>2, <1>3 DEF Job
<1>t. /\ Uids \subseteq Nat /\ job.last \in Nat /\ srv[g].next \in Nat
      /\ state[g] # NoState => state[g].last \in Nat
  BY <1>2, Typed DEF MailInv, InFolder
<1>5. TypeOK'
  BY <1>2, <1>4, JobKept DEF MailInv
<1>6. Numbered' /\ StateBehind' /\ NothingSkipped'
  BY <1>2 DEF MailInv, Numbered, StateBehind, NothingSkipped, On, Cached
<1>7. RowsBehind'
  BY <1>2 DEF MailInv, RowsBehind, Cached
<1>8. JobBehind'
  BY <1>1, <1>2, <1>4 DEF MailInv, JobBehind, Cached, InFolder
<1>9. Clearing' /\ Pruning' /\ Flagging'
  BY <1>2 DEF Clearing, Pruning, Flagging
<1>10. Listing'
  BY <1>1, <1>2, <1>4 DEF MailInv, Listing
<1>11. Fetching'
  <2>1. ASSUME NEW w \in new
        PROVE  w \in Uids /\ w < srv[g].next
    BY DEF new, MailInv, Numbered
  <2>2. ASSUME NEW u \in Uids, On(g, u), srv[g].msgs[u].readable
        PROVE  Cached(g, u) \/ u \in left
    <3>1. CASE u > job.last
      BY <2>2, <3>1 DEF new, left
    <3>2. CASE ~(u > job.last)
      <4>1. u <= job.last /\ job.last # 0
        BY <3>2, <1>t DEF Uids
      <4>2. state[g] # NoState /\ state[g].val = srv[g].val /\ u <= state[g].last
        BY <1>1, <1>2, <4>1 DEF MailInv, Listing
      <4> QED
        BY <2>2, <4>2 DEF MailInv, NothingSkipped
    <3> QED
      BY <3>1, <3>2
  <2> QED
    BY <1>2, <1>4, <2>1, <2>2 DEF Fetching, On, Cached
<1>12. Origin'
  BY <1>2 DEF MailInv, Origin, Cached
<1> QED
  BY <1>5, <1>6, <1>7, <1>8, <1>9, <1>10, <1>11, <1>12 DEF MailInv

LEMMA FetchBatchKeeps ==
    ASSUME MailInv, FetchBatch
    PROVE  MailInv' /\ \A f \in Folder, u \in Uids : Cached(f, u) => Cached(f, u)'
<1>1. PICK g \in Folder : g = job.folder
  BY Typed DEF MailInv, InFolder, FetchBatch
<1>2. PICK c \in SUBSET job.left : /\ cache' = WithFetched(g, c)
                                  /\ job' = [job EXCEPT !.left = @ \ c]
  BY <1>1 DEF FetchBatch
<1>3. /\ pc = "fetch" /\ pc' = "fetch" /\ srv[g].val = job.val
      /\ UNCHANGED <<srv, state, orphaned>>
  BY <1>1 DEF FetchBatch, Selected, ghostVars
<1>4. job \in Job
  BY <1>3 DEF MailInv, TypeOK, InFolder
<1>5. /\ job' \in Job /\ job'.folder = g /\ job'.val = job.val /\ job'.last = job.last
      /\ job'.new = job.new /\ job'.left = job.left \ c
  BY <1>1, <1>2, <1>4 DEF Job
<1> DEFINE new(u) == [val |-> job.val, seen |-> srv[g].msgs[u].seen, star |-> srv[g].msgs[u].star]
           got(u) == u \in c /\ On(g, u) /\ srv[g].msgs[u].readable
<1>6. \A f \in Folder, u \in Uids :
         cache'[f][u] = IF f = g /\ got(u) THEN new(u) ELSE cache[f][u]
  BY <1>2 DEF MailInv, TypeOK, WithFetched
<1>7. ASSUME NEW u \in Uids, got(u)
      PROVE  new(u) \in Row /\ new(u).val = job.val /\ new(u) # NoRow
  <2>1. srv[g].msgs[u] \in Message
    BY <1>7 DEF MailInv, TypeOK, Mailbox, On
  <2>2. job.val \in Nat /\ srv[g].msgs[u].seen \in BOOLEAN /\ srv[g].msgs[u].star \in BOOLEAN
    BY <1>4, <2>1 DEF Job, Message
  <2>3. new(u) \in Row /\ new(u).val = job.val
    BY <2>2 DEF Row
  <2> QED
    BY <2>3, Nones
<1>8. cache' \in [Folder -> [Uids -> Row \cup {NoRow}]]
  <2>1. PICK rows : rows = [u \in Uids |-> IF got(u) THEN new(u) ELSE cache[g][u]]
    OBVIOUS
  <2>2. rows \in [Uids -> Row \cup {NoRow}]
    BY <2>1, <1>7 DEF MailInv, TypeOK
  <2>3. cache' = [cache EXCEPT ![g] = rows]
    BY <1>2, <2>1 DEF WithFetched
  <2> QED
    BY <2>2, <2>3 DEF MailInv, TypeOK
<1> HIDE DEF new, got
<1>9. \A f \in Folder, u \in Uids :
         IF f = g /\ got(u) THEN Cached(f, u)' /\ cache'[f][u].val = job.val
         ELSE /\ Cached(f, u)' <=> Cached(f, u)
              /\ cache'[f][u].val = cache[f][u].val
  BY <1>6, <1>7 DEF Cached
<1>10. \A f \in Folder, u \in Uids : Cached(f, u) => Cached(f, u)'
  BY <1>9
<1>t. /\ Uids \subseteq Nat /\ job.val \in Nat
      /\ \A f \in Folder, u \in Uids : Cached(f, u) => cache[f][u].val \in Nat
  BY <1>3, Typed DEF MailInv, InFolder
<1>11. TypeOK'
  BY <1>3, <1>5, <1>8 DEF MailInv, TypeOK
<1>12. Numbered' /\ StateBehind'
  BY <1>3 DEF MailInv, Numbered, StateBehind, On
<1>13. state[g] = NoState \/ state[g].val = job.val
  BY <1>1, <1>3 DEF MailInv, Listing
<1>14. RowsBehind'
  <2>1. ASSUME NEW u \in Uids, got(u)
        PROVE  u < srv[g].next
    BY <2>1 DEF got, MailInv, Numbered
  <2> SUFFICES ASSUME NEW f \in Folder, NEW u \in Uids, Cached(f, u)'
               PROVE  /\ cache'[f][u].val <= srv[f].val
                      /\ cache'[f][u].val = srv[f].val => u < srv[f].next
                      /\ state[f] # NoState => cache'[f][u].val <= state[f].val
    BY <1>3 DEF RowsBehind
  <2>2. CASE f = g /\ got(u)
    BY <2>1, <2>2, <1>3, <1>9, <1>13, <1>t
  <2>3. CASE ~(f = g /\ got(u))
    BY <2>3, <1>9 DEF MailInv, RowsBehind
  <2> QED
    BY <2>2, <2>3
<1>15. JobBehind'
  BY <1>1, <1>3, <1>5, <1>9, <1>t DEF MailInv, JobBehind, InFolder
<1>16. Clearing' /\ Pruning' /\ Flagging'
  BY <1>3 DEF Clearing, Pruning, Flagging
<1>17. Listing'
  BY <1>1, <1>3, <1>5 DEF MailInv, Listing
<1>18. Fetching'
  <2>1. \A w \in job.new :
           /\ w < srv[g].next
           /\ \A u \in Uids : u <= w /\ On(g, u) /\ srv[g].msgs[u].readable
                  => Cached(g, u) \/ u \in job.left
    BY <1>1, <1>3 DEF MailInv, Fetching
  <2>2. \A w \in job.new : \A u \in Uids :
           u <= w /\ On(g, u) /\ srv[g].msgs[u].readable
               => Cached(g, u)' \/ u \in job.left \ c
    BY <1>9, <1>10, <2>1 DEF got
  <2> QED
    BY <1>3, <1>5, <2>1, <2>2 DEF Fetching, On
<1>19. NothingSkipped'
  BY <1>3, <1>10 DEF MailInv, NothingSkipped, On
<1>20. Origin'
  BY <1>1, <1>3, <1>5, <1>9, <1>13 DEF MailInv, Origin
<1> QED
  BY <1>10, <1>11, <1>12, <1>14, <1>15, <1>16, <1>17, <1>18, <1>19, <1>20 DEF MailInv

LEMMA SetStateKeeps ==
    ASSUME MailInv, SetState
    PROVE  MailInv'
<1>1. PICK g \in Folder : g = job.folder
  BY Typed DEF MailInv, InFolder, SetState
<1>2. PICK w \in job.new : state' = [state EXCEPT ![g] = [val |-> job.val, last |-> w]]
  BY <1>1 DEF SetState
<1>3. /\ pc = "fetch" /\ pc' = "flags" /\ job.left = {}
      /\ UNCHANGED <<srv, cache, job, orphaned>>
  BY DEF SetState, ghostVars
<1>t. /\ Uids \subseteq Nat /\ job.val \in Nat /\ w \in Uids /\ w \in Nat
  BY <1>3, Typed DEF MailInv, InFolder
<1>4. PICK p : p = [val |-> job.val, last |-> w]
  OBVIOUS
<1>5. p \in Position /\ p # NoState /\ p.val = job.val /\ p.last = w
  BY <1>t, <1>4, Nones DEF Position
<1>6. \A f \in Folder : state'[f] = IF f = g THEN p ELSE state[f]
  BY <1>2, <1>4 DEF MailInv, TypeOK
<1>7. TypeOK'
  BY <1>2, <1>3, <1>4, <1>5 DEF MailInv, TypeOK, InFolder
<1>8. job.val <= srv[g].val /\ \A u \in Uids : Cached(g, u) => cache[g][u].val <= job.val
  BY <1>1, <1>3 DEF MailInv, JobBehind, InFolder
<1>9. srv[g].val = job.val =>
         /\ w < srv[g].next
         /\ \A u \in Uids : u <= w /\ On(g, u) /\ srv[g].msgs[u].readable => Cached(g, u)
  BY <1>1, <1>3 DEF MailInv, Fetching
<1>10. Numbered'
  BY <1>3 DEF MailInv, Numbered, On
<1>11. StateBehind'
  BY <1>3, <1>5, <1>6, <1>8, <1>9 DEF MailInv, StateBehind
<1>12. RowsBehind'
  BY <1>3, <1>5, <1>6, <1>8 DEF MailInv, RowsBehind, Cached
<1>13. JobBehind'
  BY <1>3 DEF MailInv, JobBehind, Cached, InFolder
<1>14. Clearing' /\ Listing' /\ Fetching' /\ Pruning' /\ Flagging'
  BY <1>3 DEF Clearing, Listing, Fetching, Pruning, Flagging
<1>15. NothingSkipped'
  BY <1>3, <1>5, <1>6, <1>9 DEF MailInv, NothingSkipped, On, Cached
<1>16. Origin'
  <2>1. state[g] = NoState \/ state[g].val = job.val
    BY <1>1, <1>3 DEF MailInv, Listing
  <2> QED
    BY <1>1, <1>3, <1>5, <1>6, <2>1 DEF MailInv, Origin, Cached
<1> QED
  BY <1>7, <1>10, <1>11, <1>12, <1>13, <1>14, <1>15, <1>16 DEF MailInv

LEMMA FetchFlagsKeeps ==
    ASSUME MailInv, FetchFlags
    PROVE  MailInv'
<1>1. PICK g \in Folder : g = job.folder
  BY Typed DEF MailInv, InFolder, FetchFlags
<1> DEFINE heard(u) == IF ~Cached(g, u) THEN Unasked ELSE IF On(g, u) THEN Shielded(g, u) ELSE Gone
<1>2. PICK flags : flags = [u \in Uids |-> heard(u)]
  OBVIOUS
<1>3. /\ pc = "flags" /\ pc' = "prune" /\ job' = [job EXCEPT !.flags = flags]
      /\ UNCHANGED <<srv, cache, state, orphaned>>
  BY <1>1, <1>2 DEF FetchFlags, cacheVars, ghostVars
<1>4. ASSUME NEW u \in Uids
      PROVE  /\ flags[u] \in Flags \cup {Gone, Unasked}
             /\ flags[u] = Gone => ~On(g, u)
             /\ flags[u] \notin {Gone, Unasked} => Cached(g, u)
  <2>1. On(g, u) => Shielded(g, u) \in Flags
    <3>1. On(g, u) => srv[g].msgs[u].seen \in BOOLEAN /\ srv[g].msgs[u].star \in BOOLEAN
      BY DEF MailInv, TypeOK, Mailbox, On, Message
    <3>2. PICK star : star = IF \E c \in justStarred : c.folder = g /\ c.uid = u
                             THEN [folder |-> g, uid |-> u, star |-> TRUE] \in justStarred
                             ELSE srv[g].msgs[u].star
      OBVIOUS
    <3>3. On(g, u) => star \in BOOLEAN
      <4>1. CASE \E c \in justStarred : c.folder = g /\ c.uid = u
        <5>1. star = ([folder |-> g, uid |-> u, star |-> TRUE] \in justStarred)
          BY <3>2, <4>1
        <5>2. CASE [folder |-> g, uid |-> u, star |-> TRUE] \in justStarred
          BY <5>1, <5>2
        <5>3. CASE [folder |-> g, uid |-> u, star |-> TRUE] \notin justStarred
          BY <5>1, <5>3
        <5> QED
          BY <5>2, <5>3
      <4>2. CASE ~\E c \in justStarred : c.folder = g /\ c.uid = u
        <5>1. star = srv[g].msgs[u].star
          BY <3>2, <4>2
        <5> QED
          BY <3>1, <5>1
      <4> QED
        BY <4>1, <4>2
    <3>4. PICK seen : seen = (srv[g].msgs[u].seen \/ <<g, u>> \in justRead)
      OBVIOUS
    <3>5. seen \in BOOLEAN
      BY <3>4, Zenon
    <3>6. Shielded(g, u) = [seen |-> seen, star |-> star]
      BY <3>2, <3>4, Zenon DEF Shielded
    <3> QED
      BY <3>3, <3>5, <3>6 DEF Flags
  <2>2. Gone # Unasked
    BY DEF Gone, Unasked
  <2>3. flags[u] = heard(u)
    BY <1>2
  <2> HIDE DEF heard
  <2>4. CASE ~Cached(g, u)
    BY <2>2, <2>3, <2>4 DEF heard
  <2>5. CASE Cached(g, u) /\ On(g, u)
    BY <2>1, <2>3, <2>5, Nones DEF heard
  <2>6. CASE Cached(g, u) /\ ~On(g, u)
    BY <2>3, <2>6 DEF heard
  <2> QED
    BY <2>4, <2>5, <2>6
<1>5. job \in Job
  BY <1>3 DEF MailInv, TypeOK, InFolder
<1>6. flags \in [Uids -> Flags \cup {Gone, Unasked}]
  BY <1>2, <1>4
<1>7. /\ job' \in Job /\ job'.folder = g /\ job'.val = job.val /\ job'.flags = flags
  BY <1>1, <1>3, <1>5, <1>6 DEF Job
<1>8. TypeOK'
  BY <1>3, <1>7, JobKept DEF MailInv
<1>9. Numbered' /\ StateBehind' /\ NothingSkipped'
  BY <1>3 DEF MailInv, Numbered, StateBehind, NothingSkipped, On, Cached
<1>10. RowsBehind' /\ Origin'
  BY <1>3 DEF MailInv, RowsBehind, Origin, Cached
<1>11. JobBehind'
  BY <1>1, <1>3, <1>7 DEF MailInv, JobBehind, Cached, InFolder
<1>12. Clearing' /\ Listing' /\ Fetching'
  BY <1>3 DEF Clearing, Listing, Fetching
<1>13. Pruning' /\ Flagging'
  BY <1>3, <1>4, <1>7 DEF Pruning, Flagging, On, Cached
<1> QED
  BY <1>8, <1>9, <1>10, <1>11, <1>12, <1>13 DEF MailInv

LEMMA PruneKeeps ==
    ASSUME MailInv, Prune
    PROVE  /\ MailInv'
           /\ \A f \in Folder, u \in Uids :
                 Cached(f, u) /\ ~Cached(f, u)' =>
                     ~On(f, u) \/ srv[f].val # cache[f][u].val
<1>1. PICK g \in Folder : g = job.folder
  BY Typed DEF MailInv, InFolder, Prune
<1>2. /\ pc = "prune" /\ pc' = "update" /\ UNCHANGED <<srv, state, job, orphaned>>
      /\ cache' = [cache EXCEPT ![g] =
                     [u \in Uids |-> IF job.flags[u] = Gone THEN NoRow ELSE cache[g][u]]]
  BY <1>1 DEF Prune, ghostVars
<1>3. \A f \in Folder, u \in Uids :
         cache'[f][u] = IF f = g /\ job.flags[u] = Gone THEN NoRow ELSE cache[f][u]
  BY <1>2 DEF MailInv, TypeOK
<1>4. \A f \in Folder, u \in Uids :
         /\ Cached(f, u)' => Cached(f, u) /\ cache'[f][u] = cache[f][u]
         /\ Cached(f, u) /\ ~Cached(f, u)' => f = g /\ job.flags[u] = Gone
  BY <1>3 DEF Cached
<1>5. TypeOK'
  <2>1. PICK rows : rows = [u \in Uids |-> IF job.flags[u] = Gone THEN NoRow ELSE cache[g][u]]
    OBVIOUS
  <2>2. rows \in [Uids -> Row \cup {NoRow}]
    BY <2>1 DEF MailInv, TypeOK
  <2> QED
    BY <1>2, <2>1, <2>2 DEF MailInv, TypeOK, InFolder
<1>6. Numbered' /\ StateBehind'
  BY <1>2 DEF MailInv, Numbered, StateBehind, On
<1>7. RowsBehind' /\ Origin'
  BY <1>2, <1>4 DEF MailInv, RowsBehind, Origin
<1>8. JobBehind'
  BY <1>1, <1>2, <1>4 DEF MailInv, JobBehind, InFolder
<1>9. Clearing' /\ Listing' /\ Fetching' /\ Pruning'
  BY <1>2 DEF Clearing, Listing, Fetching, Pruning
<1>10. Flagging'
  <2>1. \A u \in Uids : job.flags[u] \notin {Gone, Unasked} => Cached(g, u)
    BY <1>1, <1>2 DEF MailInv, Flagging
  <2>2. \A u \in Uids : job.flags[u] \notin {Gone, Unasked} => Cached(g, u)'
    BY <1>4, <2>1
  <2> QED
    BY <1>1, <1>2, <2>2 DEF Flagging
<1>11. \A u \in Uids : job.flags[u] = Gone /\ On(g, u) =>
          /\ state[g] # NoState /\ state[g].val = srv[g].val => state[g].last < u
          /\ Cached(g, u) => cache[g][u].val # srv[g].val
  BY <1>1, <1>2 DEF MailInv, Pruning
<1>12. NothingSkipped'
  <2> SUFFICES ASSUME NEW f \in Folder, NEW u \in Uids,
                      state[f] # NoState, state[f].val = srv[f].val, u <= state[f].last,
                      On(f, u), srv[f].msgs[u].readable
               PROVE  Cached(f, u)'
    BY <1>2 DEF NothingSkipped, On
  <2>1. Cached(f, u)
    BY DEF MailInv, NothingSkipped
  <2>2. u \in Nat /\ state[f].last \in Nat
    BY Typed DEF MailInv
  <2> QED
    BY <1>4, <1>11, <2>1, <2>2
<1> QED
  BY <1>4, <1>5, <1>6, <1>7, <1>8, <1>9, <1>10, <1>11, <1>12 DEF MailInv

-----------------------------------------------------------------------------
(* The steps together.                                                     *)

\* apply_pending_actions is called between folders.
AfterOK == after \in {"pass", "idle"}

\* What PruneOnlyGone says of a step.
Spares ==
    \A f \in Folder, u \in Uids :
        Cached(f, u) /\ cache'[f][u] = NoRow => ~On(f, u) \/ srv[f].val # cache[f][u].val

LEMMA SameRows ==
    ASSUME MailInv, cache' = cache
    PROVE  RowsStay
  BY DEF MailInv, TypeOK, RowsStay, Cached

\* A step of a queue leaves the thread, the cache and the server alone.
LEMMA QueueKeeps ==
    ASSUME MailInv, Receive \/ Expire \/ FullFlagsDue \/ RequestLost
    PROVE  MailInv' /\ RowsStay /\ after' = after
<1>1. UNCHANGED <<srv, cache, state, pc, job, orphaned, after>>
  BY DEF Receive, Expire, FullFlagsDue, RequestLost, cacheVars, threadVars, ghostVars,
         boundVars
<1> QED
  BY <1>1, SameRows, OthersKeep

\* A step that leaves the folders alone, or leaves the one at hand.
LEMMA BetweenKeeps ==
    ASSUME MailInv, AfterOK,
           \/ Connect \/ DrainMarks \/ DrainStars \/ Applied \/ BeginPass \/ SkipFlags
           \/ EndPass \/ IdleActs \/ IdleEnds \/ Start
    PROVE  MailInv' /\ RowsStay /\ AfterOK'
<1>1. /\ UNCHANGED <<srv, cache, state, orphaned>> /\ pc # "fetch" /\ pc' \notin InFolder
      /\ job' \in {job, NoJob} /\ after' \in {after, "pass", "idle"}
  BY DEF Connect, DrainMarks, DrainStars, Applied, BeginPass, SkipFlags, EndPass, IdleActs,
         IdleEnds, Start, AfterOK, cacheVars, ghostVars, InFolder
<1>2. Leaves
  BY <1>1 DEF Leaves, MailInv, TypeOK
<1> QED
  BY <1>1, <1>2, SameRows, OthersKeep DEF AfterOK

\* A failure leaves the folder at hand; rows it has no sync state for are orphaned.
LEMMA CutOffKeeps ==
    ASSUME MailInv, AfterOK, Fails \/ Stop
    PROVE  MailInv' /\ RowsStay /\ AfterOK'
<1>1. /\ UNCHANGED <<srv, cache, state>> /\ pc' \notin InFolder /\ job' = NoJob
      /\ orphaned' = orphaned \cup NowOrphaned /\ after' \in {after, "pass"}
  BY DEF Fails, Stop, cacheVars, InFolder
<1>2. ASSUME NEW u \in Uids, pc = "fetch", Cached(job.folder, u), state[job.folder] = NoState
      PROVE  job.folder \in orphaned'
  <2>1. job \in Job /\ job.folder \in Folder
    BY <1>2, Typed DEF MailInv, TypeOK, InFolder
  <2> QED
    BY <1>1, <1>2, <2>1, Nones DEF NowOrphaned
<1>3. Leaves
  BY <1>1, <1>2 DEF Leaves
<1> QED
  BY <1>1, <1>3, SameRows, OthersKeep DEF AfterOK

\* jamail changes the flags of a row.
LEMMA UserKeeps ==
    ASSUME MailInv, NEW f \in Folder, NEW u \in Uids,
           UserReads(f, u) \/ \E b \in BOOLEAN : UserStars(f, u, b)
    PROVE  MailInv' /\ RowsStay /\ after' = after
<1>1. UNCHANGED <<srv, state, pc, job, orphaned, after>> /\ Cached(f, u)
  BY DEF UserReads, UserStars, threadVars, ghostVars
<1>2. RowsStay
  <2>1. CASE UserReads(f, u)
    BY <2>1, <1>1, RowFlagged DEF UserReads
  <2>2. CASE \E b \in BOOLEAN : UserStars(f, u, b)
    <3>1. PICK b \in BOOLEAN : UserStars(f, u, b)
      BY <2>2
    <3> QED
      BY <3>1, <1>1, RowFlagged DEF UserStars
  <2> QED
    BY <2>1, <2>2
<1> QED
  BY <1>1, <1>2, OthersKeep

\* The server and the other clients change mailboxes.
LEMMA OutsideKeeps ==
    ASSUME MailInv, NEW f \in Folder,
           \/ \E b \in BOOLEAN : Arrive(f, b)
           \/ \E n \in 0 .. MaxUid : Recreate(f, n)
           \/ \E u \in Uids : \/ Expunge(f, u)
                             \/ \E seen, star \in BOOLEAN : OtherFlag(f, u, seen, star)
           \/ \E b \in BOOLEAN : Store(f, b) \/ StoreFails(f, b)
    PROVE  MailInv' /\ RowsStay /\ after' = after
<1>1. /\ UNCHANGED <<cache, state, job, orphaned, after>>
      /\ pc' = pc \/ {pc, pc'} \cap InFolder = {}
  BY DEF Arrive, Recreate, Expunge, OtherFlag, Store, StoreFails, cacheVars, threadVars,
         ghostVars, InFolder
<1>2. ServerMoves
  <2>1. ASSUME NEW b \in BOOLEAN, Arrive(f, b) PROVE ServerMoves
    BY <2>1, ArriveMoves
  <2>2. ASSUME NEW n \in 0 .. MaxUid, Recreate(f, n) PROVE ServerMoves
    BY <2>2, RecreateMoves
  <2>3. ASSUME NEW u \in Uids, Expunge(f, u) PROVE ServerMoves
    BY <2>3, ExpungeMoves
  <2>4. ASSUME NEW u \in Uids, NEW seen \in BOOLEAN, NEW star \in BOOLEAN,
               OtherFlag(f, u, seen, star)
        PROVE  ServerMoves
    BY <2>4, OtherFlagMoves
  <2>5. ASSUME NEW b \in BOOLEAN, Store(f, b) PROVE ServerMoves
    BY <2>5, StoredMoves DEF Store
  <2>6. ASSUME NEW b \in BOOLEAN, StoreFails(f, b) PROVE ServerMoves
    <3>1. CASE srv' = srv
      <4>1. \A e \in Folder : srv[e].next \in Nat
        BY Typed DEF MailInv
      <4> QED
        BY <3>1, <4>1 DEF MailInv, TypeOK, ServerMoves, Numbered, On
    <3>2. CASE srv' # srv
      BY <2>6, <3>2, StoredMoves DEF StoreFails
    <3> QED
      BY <3>1, <3>2
  <2> QED
    BY <2>1, <2>2, <2>3, <2>4, <2>5, <2>6
<1> QED
  BY <1>1, <1>2, ServerKeeps, SameRows

LEMMA Steps ==
    ASSUME MailInv, AfterOK, [Next]_vars
    PROVE  MailInv' /\ AfterOK' /\ Spares
<1>r. RowsStay => Spares
  BY DEF RowsStay, Spares, Cached
<1>1. CASE Receive \/ Expire \/ FullFlagsDue \/ RequestLost
  BY <1>1, <1>r, QueueKeeps DEF AfterOK
<1>2. CASE \/ Connect \/ DrainMarks \/ DrainStars \/ Applied \/ BeginPass \/ SkipFlags
           \/ EndPass \/ IdleActs \/ IdleEnds \/ Start
  BY <1>2, <1>r, BetweenKeeps
<1>3. CASE Fails \/ Stop
  BY <1>3, <1>r, CutOffKeeps
<1>4. ASSUME NEW f \in Folder, NEW u \in Uids,
             UserReads(f, u) \/ \E b \in BOOLEAN : UserStars(f, u, b)
      PROVE  MailInv' /\ AfterOK' /\ Spares
  BY <1>4, <1>r, UserKeeps DEF AfterOK
<1>5. ASSUME NEW f \in Folder,
             \/ \E b \in BOOLEAN : Arrive(f, b)
             \/ \E n \in 0 .. MaxUid : Recreate(f, n)
             \/ \E u \in Uids : \/ Expunge(f, u)
                               \/ \E seen, star \in BOOLEAN : OtherFlag(f, u, seen, star)
             \/ \E b \in BOOLEAN : Store(f, b) \/ StoreFails(f, b)
      PROVE  MailInv' /\ AfterOK' /\ Spares
  BY <1>5, <1>r, OutsideKeeps DEF AfterOK
<1>6. ASSUME NEW f \in Folder, Select(f)
      PROVE  MailInv' /\ AfterOK' /\ Spares
  <2>1. cache' = cache /\ after' = after
    BY <1>6 DEF Select, cacheVars
  <2> QED
    BY <1>6, <2>1, <1>r, SelectKeeps, SameRows DEF AfterOK
<1>7. CASE ClearRows
  <2>1. PICK g \in Folder : g = job.folder
    BY <1>7, Typed DEF MailInv, InFolder, ClearRows
  <2>2. cache' = [cache EXCEPT ![g] = [u \in Uids |-> NoRow]] /\ after' = after
    BY <1>7, <2>1 DEF ClearRows
  <2>3. \A u \in Uids : Cached(g, u) => cache[g][u].val < srv[g].val
    BY <1>7, <2>1, ClearRowsKeeps
  <2>4. \A f \in Folder, u \in Uids : f # g => cache'[f][u] = cache[f][u]
    BY <2>2 DEF MailInv, TypeOK
  <2>5. \A u \in Uids : Cached(g, u) => cache[g][u].val \in Nat /\ srv[g].val \in Nat
    BY Typed DEF MailInv
  <2>6. Spares
    BY <2>3, <2>4, <2>5 DEF Spares, Cached
  <2> QED
    BY <1>7, <2>2, <2>6, ClearRowsKeeps DEF AfterOK
<1>8. CASE ClearState \/ ListNew \/ SetState \/ FetchFlags
  <2>1. cache' = cache /\ after' = after
    BY <1>8 DEF ClearState, ListNew, SetState, FetchFlags, cacheVars
  <2> QED
    BY <1>8, <2>1, <1>r, SameRows, ClearStateKeeps, ListNewKeeps, SetStateKeeps,
       FetchFlagsKeeps DEF AfterOK
<1>9. CASE FetchBatch
  <2>1. after' = after
    BY <1>9 DEF FetchBatch
  <2>2. Spares
    BY <1>9, FetchBatchKeeps DEF Spares, Cached
  <2> QED
    BY <1>9, <2>1, <2>2, FetchBatchKeeps DEF AfterOK
<1>10. CASE Prune
  <2>1. after' = after
    BY <1>10 DEF Prune
  <2>2. Spares
    BY <1>10, PruneKeeps DEF Spares, Cached
  <2> QED
    BY <1>10, <2>1, <2>2, PruneKeeps DEF AfterOK
<1>11. CASE Update
  <2>1. /\ UNCHANGED <<srv, state, orphaned, after>>
        /\ pc = "update" /\ pc' = "folders" /\ job' = NoJob
    BY <1>11 DEF Update, ghostVars
  <2>2. Leaves
    BY <2>1 DEF Leaves, InFolder
  <2> QED
    BY <1>11, <2>1, <2>2, <1>r, UpdateFlags, OthersKeep DEF AfterOK
<1>12. CASE UNCHANGED vars
  <2>1. UNCHANGED <<srv, cache, state, pc, job, orphaned, after>>
    BY <1>12 DEF vars
  <2> QED
    BY <2>1, <1>r, SameRows, OthersKeep DEF AfterOK
<1> QED
  BY <1>1, <1>2, <1>3, <1>4, <1>5, <1>6, <1>7, <1>8, <1>9, <1>10, <1>11, <1>12
     DEF Next, Thread, Environment

LEMMA Always == Spec => [](MailInv /\ AfterOK)
<1>1. Init => MailInv /\ AfterOK
  BY InitHolds DEF Init, AfterOK
<1>2. MailInv /\ AfterOK /\ [Next]_vars => (MailInv /\ AfterOK)'
  BY Steps
<1> QED
  BY <1>1, <1>2, PTL DEF Spec

\* The sync state never runs ahead of the cache (sync_folder of mail.rs), whatever is cut
\* off and whatever the server, its other clients and jamail do meanwhile.
THEOREM SkipsNothing == Spec => []NothingSkipped
<1>1. MailInv => NothingSkipped
  BY DEF MailInv
<1> QED
  BY <1>1, Always, PTL

\* The rows of a folder belong to the mailbox its sync state names (clear_folder_emails of
\* db.rs and its two statements), unless a first download was cut off.
THEOREM RowsOfOneMailbox == Spec => []OneMailbox
<1>1. MailInv => OneMailbox
  BY DEF MailInv, Origin, OneMailbox
<1> QED
  BY <1>1, Always, PTL

\* The thread never removes the row of a message the server has under the UIDVALIDITY
\* the row was fetched under (sync_flags and delete_emails_by_uid).
THEOREM PrunesOnlyGone == Spec => PruneOnlyGone
<1>1. MailInv /\ AfterOK /\ [Next]_vars => [Spares]_vars
  BY Steps
<1> QED
  BY <1>1, Always, PTL DEF Spec, PruneOnlyGone, Spares

-----------------------------------------------------------------------------
(* The mail screen: a list sorted by date has every message once.          *)


\* Members of a set whose days differ stand in NewestFirst each at one place:
\* as many days are later as there are places before it.
Later(S, day, x) == {y \in S : day[y] > day[x]}

Dated(S, day) ==
  /\ IsFiniteSet(S)
  /\ \A x \in S : day[x] \in Nat
  /\ \A x, y \in S : day[x] = day[y] => x = y

LEMMA LaterIsLess ==
  ASSUME NEW S, NEW day, Dated(S, day), NEW x \in S
  PROVE  /\ IsFiniteSet(Later(S, day, x))
         /\ Cardinality(Later(S, day, x)) \in 0 .. (Cardinality(S) - 1)
<1>1. Later(S, day, x) \subseteq S \ {x}
  BY DEF Later, Dated
<1>2. IsFiniteSet(S \ {x}) /\ Cardinality(S \ {x}) = Cardinality(S) - 1
  BY FS_RemoveElement DEF Dated
<1>3. IsFiniteSet(Later(S, day, x)) /\ Cardinality(Later(S, day, x)) <= Cardinality(S \ {x})
  BY <1>1, <1>2, FS_Subset
<1>4. Cardinality(Later(S, day, x)) \in Nat /\ Cardinality(S) \in Nat
  BY <1>3, FS_CardinalityType DEF Dated
<1> QED
  BY <1>2, <1>3, <1>4

LEMMA LaterTellsApart ==
  ASSUME NEW S, NEW day, Dated(S, day), NEW x \in S, NEW y \in S,
         Cardinality(Later(S, day, x)) = Cardinality(Later(S, day, y))
  PROVE  x = y
<1>1. ASSUME NEW a \in S, NEW b \in S, day[a] > day[b]
      PROVE  Cardinality(Later(S, day, a)) # Cardinality(Later(S, day, b))
  <2>1. Later(S, day, a) \subseteq Later(S, day, b) /\ a \in Later(S, day, b) /\ a \notin Later(S, day, a)
    BY <1>1 DEF Later, Dated
  <2>2. IsFiniteSet(Later(S, day, b))
    BY LaterIsLess
  <2> QED
    BY <2>1, <2>2, FS_Subset
<1> QED
  BY <1>1 DEF Dated

LEMMA EveryPlaceTaken ==
  ASSUME NEW S, NEW day, Dated(S, day), NEW k \in 1 .. Cardinality(S)
  PROVE  \E x \in S : Cardinality(Later(S, day, x)) = k - 1
<1> DEFINE n == Cardinality(S)
           rank == [x \in S |-> Cardinality(Later(S, day, x)) + 1]
<1>1. n \in Nat /\ IsFiniteSet(S) /\ IsFiniteSet(1 .. n) /\ Cardinality(1 .. n) = n
  BY FS_CardinalityType, FS_Interval DEF Dated
<1>2. rank \in [S -> 1 .. n]
  BY <1>1, LaterIsLess
<1>3. rank \in Injection(S, 1 .. n)
  BY <1>2, LaterTellsApart, LaterIsLess DEF Injection, IsInjective
<1>4. rank \in Surjection(S, 1 .. n)
  <2> HIDE DEF rank
  <2> QED
    BY <1>1, <1>3, FS_Injection
<1>5. PICK x \in S : rank[x] = k
  BY <1>4 DEF Surjection
<1> QED
  BY <1>5, LaterIsLess, <1>1

LEMMA NewestFirstIsOf ==
  ASSUME NEW S, NEW day, Dated(S, day)
  PROVE  /\ NewestFirst(S, day) \in [1 .. Cardinality(S) -> S]
         /\ \A i, j \in 1 .. Cardinality(S) :
              NewestFirst(S, day)[i] = NewestFirst(S, day)[j] => i = j
<1> DEFINE at(k) == CHOOSE x \in S : Cardinality(Later(S, day, x)) = k - 1
<1>1. ASSUME NEW k \in 1 .. Cardinality(S)
      PROVE  at(k) \in S /\ Cardinality(Later(S, day, at(k))) = k - 1
  BY EveryPlaceTaken
<1>3. NewestFirst(S, day) = [k \in 1 .. Cardinality(S) |-> at(k)]
  BY DEF NewestFirst, Later
<1> HIDE DEF at
<1>2. Cardinality(S) \in Nat
  BY FS_CardinalityType DEF Dated
<1>4. ASSUME NEW i \in 1 .. Cardinality(S), NEW j \in 1 .. Cardinality(S), at(i) = at(j)
      PROVE  i = j
  BY <1>1, <1>2, <1>4
<1> QED
  BY <1>1, <1>3, <1>4

-----------------------------------------------------------------------------
(* Lists and their conversations. *)

PaneFields == {"emails", "threads", "expanded", "threaded", "sel"}

EmailRow == [id: Email, unread: BOOLEAN, flagged: BOOLEAN]

\* A list of messages, none of them twice.
IsList(emails) ==
  /\ \E n \in Nat : emails \in [1 .. n -> EmailRow]
  /\ \A i, j \in DOMAIN emails : emails[i].id = emails[j].id => i = j

\* The conversations of a list are made of its places.
LEMMA PlacesAreInList ==
  ASSUME NEW emails, IsList(emails),
         NEW t \in DOMAIN Conversations(Ids(emails)),
         NEW k \in DOMAIN Conversations(Ids(emails))[t]
  PROVE  Conversations(Ids(emails))[t][k] \in DOMAIN emails
<1> DEFINE list == Ids(emails)
           places == DOMAIN list
           day == [i \in places |-> Date[list[i]]]
           uf == Merged(list)
           class(i) == {j \in places : Find(uf, j) = Find(uf, i)}
           group(i) == NewestFirst(class(i), day)
           groups == {group(i) : i \in places}
           first == [g \in groups |-> day[g[1]]]
<1>1. PICK n \in Nat : emails \in [1 .. n -> EmailRow]
  BY DEF IsList
<1>2. places = 1 .. n /\ places = DOMAIN emails /\ \A i \in places : list[i] = emails[i].id /\ list[i] \in Email
  BY <1>1 DEF Ids, EmailRow
<1>3. IsFiniteSet(places)
  BY <1>2, FS_Interval
<1>4. /\ \A i \in places : day[i] \in Nat
      /\ \A i, j \in places : day[i] = day[j] => i = j
  <2>1. \A i \in places : day[i] = Date[list[i]]
    OBVIOUS
  <2> HIDE DEF day, list
  <2>2. Date \in [Email -> Nat] /\ \A m, n_1 \in Email : Date[m] = Date[n_1] => m = n_1
    BY MailThreadsAssumption
  <2>3. \A i, j \in places : emails[i].id = emails[j].id => i = j
    BY <1>2 DEF IsList
  <2> QED
    BY <1>2, <2>1, <2>2, <2>3
<1> HIDE DEF day, list, uf
<1>5. ASSUME NEW i \in places
      PROVE  /\ class(i) \subseteq places /\ i \in class(i)
             /\ Dated(class(i), day)
             /\ group(i) \in [1 .. Cardinality(class(i)) -> class(i)]
             /\ 1 \in 1 .. Cardinality(class(i))
  <2>1. class(i) \subseteq places /\ i \in class(i)
    OBVIOUS
  <2>2. Dated(class(i), day)
    BY <1>3, <1>4, <2>1, FS_Subset DEF Dated
  <2> HIDE DEF class
  <2>3. group(i) \in [1 .. Cardinality(class(i)) -> class(i)]
    BY <2>2, NewestFirstIsOf
  <2>4. Cardinality(class(i)) \in Nat /\ Cardinality(class(i)) # 0
    BY <2>1, <2>2, FS_CardinalityType, FS_EmptySet DEF Dated
  <2> QED
    BY <2>1, <2>2, <2>3, <2>4
<1>6. ASSUME NEW i \in places, NEW j \in places, group(i)[1] = group(j)[1]
      PROVE  group(i) = group(j)
  <2>1. group(i)[1] \in class(i) /\ group(j)[1] \in class(j)
    <3> HIDE DEF class, group
    <3> QED
      BY <1>5
  <2>2. Find(uf, i) = Find(uf, j)
    <3> HIDE DEF group
    <3> QED
      BY <2>1, <1>6
  <2>3. class(i) = class(j)
    BY <2>2
  <2> QED
    BY <2>3
<1>7. IsFiniteSet(groups)
  <2> DEFINE h == [i \in places |-> group(i)]
  <2>1. h \in Surjection(places, groups)
    <3> HIDE DEF group
    <3> QED
      BY DEF Surjection
  <2> HIDE DEF h, groups
  <2> QED
    BY <2>1, <1>3, FS_Surjection
<1>8. \A i \in places : group(i)[1] \in places
  <2> HIDE DEF class, group
  <2> QED
    BY <1>5
<1>9. Dated(groups, first)
  <2>1. ASSUME NEW g \in groups
        PROVE  \E i \in places : g = group(i) /\ first[g] = day[g[1]] /\ g[1] \in places
    <3> HIDE DEF group
    <3> QED
      BY <1>8
  <2> HIDE DEF groups, group, first
  <2>2. \A g \in groups : first[g] \in Nat
    BY <2>1, <1>4
  <2>3. \A g, h \in groups : first[g] = first[h] => g = h
    <3> SUFFICES ASSUME NEW g \in groups, NEW h \in groups, first[g] = first[h] PROVE g = h
      OBVIOUS
    <3>1. PICK i \in places : g = group(i) /\ first[g] = day[g[1]] /\ g[1] \in places
      BY <2>1
    <3>2. PICK j \in places : h = group(j) /\ first[h] = day[h[1]] /\ h[1] \in places
      BY <2>1
    <3>3. g[1] = h[1]
      BY <3>1, <3>2, <1>4
    <3> QED
      BY <3>1, <3>2, <3>3, <1>6
  <2> QED
    BY <1>7, <2>2, <2>3 DEF Dated
<1>10. Conversations(list) = NewestFirst(groups, first)
  BY DEF Conversations, uf, day
<1>11. NewestFirst(groups, first) \in [1 .. Cardinality(groups) -> groups]
  <2> HIDE DEF groups, first
  <2> QED
    BY <1>9, NewestFirstIsOf
<1>12. \A g \in groups : \E i \in places : g = group(i)
  <2> HIDE DEF group
  <2> QED
    OBVIOUS
<1>13. Conversations(list)[t] \in groups /\ k \in DOMAIN Conversations(list)[t]
  <2> HIDE DEF groups, first
  <2> QED
    BY <1>10, <1>11 DEF list
<1>14. PICK i \in places : Conversations(list)[t] = group(i)
  BY <1>12, <1>13
<1>15. group(i)[k] \in class(i)
  <2> HIDE DEF class, group
  <2> QED
    BY <1>5, <1>13, <1>14
<1>16. Conversations(list)[t][k] \in places
  <2> HIDE DEF group
  <2> QED
    BY <1>5, <1>14, <1>15
<1> QED
  BY <1>16, <1>2 DEF list

-----------------------------------------------------------------------------
(* What the operators on the list leave alone. *)

Counts(emails, groups) ==
  [t \in DOMAIN groups |->
     [id |-> ThreadId(Ids(emails), groups[t]), at |-> groups[t],
      unread |-> Unread(emails, groups[t]), flagged |-> Flagged(emails, groups[t])]]

LEMMA BuildThreadsCounts ==
  ASSUME NEW emails
  PROVE  BuildThreads(emails) = Counts(emails, Conversations(Ids(emails)))
  BY DEF BuildThreads, Counts

\* A pane that shows a list and the conversations of that list.
IsPane(p) ==
  /\ DOMAIN p = PaneFields
  /\ IsList(p.emails)
  /\ p.threads = BuildThreads(p.emails)

\* Only the cursor, the folding or the mode differ.
ShowsSame(p, q) ==
  /\ DOMAIN q = DOMAIN p
  /\ q.emails = p.emails
  /\ q.threads = p.threads

LEMMA SameIsPane ==
  ASSUME NEW p, NEW q, IsPane(p), ShowsSame(p, q)
  PROVE  IsPane(q)
  BY DEF IsPane, ShowsSame

LEMMA MoveToShowsSame ==
  ASSUME NEW p, NEW S, DOMAIN p = PaneFields
  PROVE  ShowsSame(p, MoveTo(p, S))
  BY DEF MoveTo, ShowsSame, PaneFields

LEMMA ClampedShowsSame ==
  ASSUME NEW p, DOMAIN p = PaneFields
  PROVE  ShowsSame(p, Clamped(p))
  BY DEF Clamped, ShowsSame, PaneFields

LEMMA OnMessageShowsSame ==
  ASSUME NEW p, NEW id, DOMAIN p = PaneFields
  PROVE  ShowsSame(p, OnMessage(p, id))
<1> DEFINE holding == {t \in DOMAIN p.threads : InThread(p, t, id)}
           folded == {t \in holding : t = First(holding) /\ Len(p.threads[t].at) > 1}
           ids == {p.threads[t].id : t \in folded}
           shown == IF p.threaded THEN [p EXCEPT !.expanded = @ \cup ids] ELSE p
           rows == Rows(shown)
           goal == IF p.threaded
                   THEN {r \in DOMAIN rows :
                           /\ rows[r][2] = 0 => Len(shown.threads[rows[r][1]].at) = 1
                           /\ MessageOf(shown, rows[r]) = id}
                   ELSE {i \in DOMAIN p.emails : p.emails[i].id = id}
<1>1. OnMessage(p, id) = MoveTo(shown, goal)
  BY DEF OnMessage
<1> HIDE DEF goal, ids
<1>2. ShowsSame(p, shown)
  BY DEF ShowsSame, PaneFields
<1> HIDE DEF shown
<1>3. ShowsSame(shown, MoveTo(shown, goal))
  BY <1>2, MoveToShowsSame DEF ShowsSame
<1> QED
  BY <1>1, <1>2, <1>3 DEF ShowsSame

LEMMA RefreshedShows ==
  ASSUME NEW p, NEW emails, DOMAIN p = PaneFields
  PROVE  /\ DOMAIN Refreshed(p, emails) = PaneFields
         /\ Refreshed(p, emails).emails = emails
         /\ Refreshed(p, emails).threads = BuildThreads(emails)
<1> DEFINE new == [p EXCEPT !.emails = emails, !.threads = BuildThreads(emails)]
           put == IF SelectedIn(p) = NoId THEN new ELSE MoveTo(new, RowsOf(new, SelectedIn(p)))
<1>1. Refreshed(p, emails) = Clamped(put)
  BY DEF Refreshed
<1>2. DOMAIN new = PaneFields /\ new.emails = emails /\ new.threads = BuildThreads(emails)
  BY DEF PaneFields
<1> HIDE DEF new
<1>3. ShowsSame(new, put)
  BY <1>2, MoveToShowsSame DEF ShowsSame
<1> HIDE DEF put
<1>4. ShowsSame(put, Clamped(put))
  BY <1>2, <1>3, ClampedShowsSame DEF ShowsSame
<1> QED
  BY <1>1, <1>2, <1>3, <1>4 DEF ShowsSame

-----------------------------------------------------------------------------
(* A message read or starred in the list. *)

LEMMA SeenShows ==
  ASSUME NEW p, IsPane(p), NEW id
  PROVE  /\ IsPane(Seen(p, id))
         /\ Seen(p, id).emails =
              [i \in DOMAIN p.emails |->
                 IF p.emails[i].id = id THEN [p.emails[i] EXCEPT !.unread = FALSE] ELSE p.emails[i]]
<1> DEFINE emails == p.emails
           seen == [i \in DOMAIN emails |->
                      IF emails[i].id = id THEN [emails[i] EXCEPT !.unread = FALSE] ELSE emails[i]]
           threads == [t \in DOMAIN p.threads |->
                         IF InThread(p, t, id)
                         THEN [p.threads[t] EXCEPT !.unread = Unread(seen, p.threads[t].at)]
                         ELSE p.threads[t]]
           groups == Conversations(Ids(emails))
<1>1. Seen(p, id) = [p EXCEPT !.emails = seen, !.threads = threads]
  BY DEF Seen
<1>2. PICK n \in Nat : emails \in [1 .. n -> EmailRow]
  BY DEF IsPane, IsList
<1>3. seen \in [1 .. n -> EmailRow] /\ \A i \in 1 .. n : seen[i].id = emails[i].id /\ seen[i].flagged = emails[i].flagged
  BY <1>2 DEF EmailRow
<1>4. DOMAIN seen = 1 .. n /\ DOMAIN emails = 1 .. n
  BY <1>2
<1>5. \A i \in 1 .. n : emails[i].id # id => seen[i] = emails[i]
  BY <1>4
<1> HIDE DEF seen
<1>6. Ids(seen) = Ids(emails)
  BY <1>3, <1>4 DEF Ids
<1>7. IsList(seen)
  BY <1>2, <1>3, <1>4 DEF IsPane, IsList
<1>8. p.threads = Counts(emails, groups)
  BY BuildThreadsCounts DEF IsPane
<1>9. BuildThreads(seen) = Counts(seen, groups)
  BY <1>6, BuildThreadsCounts
<1> HIDE DEF emails
<1>10. ASSUME NEW t \in DOMAIN groups
       PROVE  threads[t] = Counts(seen, groups)[t]
  <2> DEFINE at == groups[t]
  <2>1. \A k \in DOMAIN at : at[k] \in 1 .. n
    BY <1>4, PlacesAreInList DEF IsPane, emails
  <2> HIDE DEF groups
  <2>2. Flagged(seen, at) = Flagged(emails, at)
    BY <2>1, <1>3 DEF Flagged
  <2>3. p.threads[t] = [id |-> ThreadId(Ids(emails), at), at |-> at,
                        unread |-> Unread(emails, at), flagged |-> Flagged(emails, at)]
    BY <1>8 DEF Counts
  <2>4. Counts(seen, groups)[t] = [id |-> ThreadId(Ids(emails), at), at |-> at,
                                   unread |-> Unread(seen, at), flagged |-> Flagged(emails, at)]
    BY <1>6, <2>2 DEF Counts
  <2>5. t \in DOMAIN p.threads
    BY <1>8 DEF Counts
  <2>6. CASE InThread(p, t, id)
    <3>1. threads[t] = [p.threads[t] EXCEPT !.unread = Unread(seen, p.threads[t].at)]
      BY <2>5, <2>6
    <3> QED
      BY <3>1, <2>3, <2>4
  <2>7. CASE ~InThread(p, t, id)
    <3>1. threads[t] = p.threads[t]
      BY <2>5, <2>7
    <3>2. \A k \in DOMAIN at : emails[at[k]].id # id
      BY <2>7, <2>3 DEF InThread, emails
    <3>3. \A k \in DOMAIN at : seen[at[k]] = emails[at[k]]
      BY <3>2, <2>1, <1>5
    <3>4. Unread(seen, at) = Unread(emails, at)
      <4>1. {k \in DOMAIN at : seen[at[k]].unread} = {k \in DOMAIN at : emails[at[k]].unread}
        BY <3>3
      <4> QED
        BY <4>1 DEF Unread
    <3> QED
      BY <3>1, <3>4, <2>3, <2>4
  <2> QED
    BY <2>6, <2>7
<1>11. threads = Counts(seen, groups)
  <2>1. DOMAIN p.threads = DOMAIN groups
    BY <1>8 DEF Counts
  <2>2. threads = [t \in DOMAIN groups |-> Counts(seen, groups)[t]]
    BY <2>1, <1>10
  <2> QED
    BY <2>2 DEF Counts
<1> HIDE DEF threads
<1>12. /\ DOMAIN Seen(p, id) = PaneFields
       /\ Seen(p, id).emails = seen
       /\ Seen(p, id).threads = threads
  BY <1>1 DEF IsPane, PaneFields
<1> QED
  BY <1>7, <1>9, <1>11, <1>12 DEF IsPane, seen, emails

LEMMA StarredShows ==
  ASSUME NEW p, IsPane(p), NEW id, NEW on \in BOOLEAN
  PROVE  /\ IsPane(Starred(p, id, on))
         /\ Starred(p, id, on).emails =
              [i \in DOMAIN p.emails |->
                 IF p.emails[i].id = id THEN [p.emails[i] EXCEPT !.flagged = on] ELSE p.emails[i]]
<1> DEFINE emails == p.emails
           starred == [i \in DOMAIN emails |->
                         IF emails[i].id = id THEN [emails[i] EXCEPT !.flagged = on] ELSE emails[i]]
           threads == [t \in DOMAIN p.threads |->
                         [p.threads[t] EXCEPT !.flagged = Flagged(starred, p.threads[t].at)]]
           groups == Conversations(Ids(emails))
<1>1. Starred(p, id, on) = [p EXCEPT !.emails = starred, !.threads = threads]
  BY DEF Starred
<1>2. PICK n \in Nat : emails \in [1 .. n -> EmailRow]
  BY DEF IsPane, IsList
<1>3. starred \in [1 .. n -> EmailRow] /\ \A i \in 1 .. n : starred[i].id = emails[i].id /\ starred[i].unread = emails[i].unread
  BY <1>2 DEF EmailRow
<1>4. DOMAIN starred = 1 .. n /\ DOMAIN emails = 1 .. n
  BY <1>2
<1> HIDE DEF starred
<1>5. Ids(starred) = Ids(emails)
  BY <1>3, <1>4 DEF Ids
<1>6. IsList(starred)
  BY <1>2, <1>3, <1>4 DEF IsPane, IsList
<1>7. p.threads = Counts(emails, groups)
  BY BuildThreadsCounts DEF IsPane
<1>8. BuildThreads(starred) = Counts(starred, groups)
  BY <1>5, BuildThreadsCounts
<1> HIDE DEF emails
<1>9. ASSUME NEW t \in DOMAIN groups
      PROVE  threads[t] = Counts(starred, groups)[t]
  <2> DEFINE at == groups[t]
  <2>1. \A k \in DOMAIN at : at[k] \in 1 .. n
    BY <1>4, PlacesAreInList DEF IsPane, emails
  <2> HIDE DEF groups
  <2>2. Unread(starred, at) = Unread(emails, at)
    <3>1. {k \in DOMAIN at : starred[at[k]].unread} = {k \in DOMAIN at : emails[at[k]].unread}
      BY <2>1, <1>3
    <3> QED
      BY <3>1 DEF Unread
  <2>3. p.threads[t] = [id |-> ThreadId(Ids(emails), at), at |-> at,
                        unread |-> Unread(emails, at), flagged |-> Flagged(emails, at)]
    BY <1>7 DEF Counts
  <2>4. Counts(starred, groups)[t] = [id |-> ThreadId(Ids(emails), at), at |-> at,
                                      unread |-> Unread(emails, at), flagged |-> Flagged(starred, at)]
    BY <1>5, <2>2 DEF Counts
  <2>5. threads[t] = [p.threads[t] EXCEPT !.flagged = Flagged(starred, p.threads[t].at)]
    BY <1>7 DEF Counts
  <2> QED
    BY <2>3, <2>4, <2>5
<1>10. threads = Counts(starred, groups)
  <2>1. DOMAIN p.threads = DOMAIN groups
    BY <1>7 DEF Counts
  <2>2. threads = [t \in DOMAIN groups |-> Counts(starred, groups)[t]]
    BY <2>1, <1>9
  <2> QED
    BY <2>2 DEF Counts
<1> HIDE DEF threads
<1>11. /\ DOMAIN Starred(p, id, on) = PaneFields
       /\ Starred(p, id, on).emails = starred
       /\ Starred(p, id, on).threads = threads
  BY <1>1 DEF IsPane, PaneFields
<1> QED
  BY <1>6, <1>8, <1>10, <1>11 DEF IsPane, starred, emails

-----------------------------------------------------------------------------
(* What is read from the cache. *)

\* The rows of a set of messages, as some state of the table has them.
RowOf(tbl, m) == [id |-> m, unread |-> tbl[m].unread, flagged |-> tbl[m].flagged]

RowsIn(tbl, S) == [i \in DOMAIN ByDate(S) |-> RowOf(tbl, ByDate(S)[i])]

\* The messages of the place chosen.
Chosen(pl, tbl) == {m \in DOMAIN tbl : IF pl.global THEN Box[m][2] = Inbox ELSE Box[m] = pl.box}

IsTable(tbl) ==
  /\ IsFiniteSet(DOMAIN tbl) /\ DOMAIN tbl \subseteq Mail
  /\ \A m \in DOMAIN tbl : tbl[m] \in [unread: BOOLEAN, flagged: BOOLEAN]

LEMMA QueryIsRows ==
  /\ Query(place) = RowsIn(table, Chosen(place, table))
  /\ Query(place)' = RowsIn(table', Chosen(place', table'))
  /\ Query(place') = RowsIn(table, Chosen(place', table))
  BY Zenon DEF Query, Chosen, RowsIn, RowOf, Listed, InBox

LEMMA QueryIsRowsOf ==
  ASSUME NEW pl
  PROVE  Query(pl) = RowsIn(table, Chosen(pl, table))
  BY Zenon DEF Query, Chosen, RowsIn, RowOf, Listed, InBox

LEMMA ByDateIsOf ==
  ASSUME NEW S, IsFiniteSet(S), S \subseteq Email
  PROVE  /\ Cardinality(S) \in Nat
         /\ ByDate(S) \in [1 .. Cardinality(S) -> S]
         /\ \A i, j \in 1 .. Cardinality(S) : ByDate(S)[i] = ByDate(S)[j] => i = j
<1>1. Dated(S, Date)
  BY MailThreadsAssumption DEF Dated
<1> QED
  BY <1>1, NewestFirstIsOf, FS_CardinalityType DEF ByDate

LEMMA RowsAreList ==
  ASSUME NEW tbl, IsTable(tbl), NEW S, S \subseteq DOMAIN tbl
  PROVE  /\ IsList(RowsIn(tbl, S))
         /\ DOMAIN RowsIn(tbl, S) = DOMAIN ByDate(S)
         /\ \A i \in DOMAIN RowsIn(tbl, S) : ByDate(S)[i] \in S /\ RowsIn(tbl, S)[i].id = ByDate(S)[i]
<1>1. IsFiniteSet(S) /\ S \subseteq Email
  BY FS_Subset DEF IsTable, Mail
<1> DEFINE n == Cardinality(S)
<1>2. n \in Nat /\ ByDate(S) \in [1 .. n -> S] /\ \A i, j \in 1 .. n : ByDate(S)[i] = ByDate(S)[j] => i = j
  BY <1>1, ByDateIsOf
<1>3. RowsIn(tbl, S) \in [1 .. n -> EmailRow]
  BY <1>1, <1>2 DEF RowsIn, RowOf, EmailRow, IsTable
<1>4. \A i \in 1 .. n : RowsIn(tbl, S)[i].id = ByDate(S)[i]
  BY <1>2 DEF RowsIn, RowOf
<1> QED
  BY <1>2, <1>3, <1>4 DEF IsList

-----------------------------------------------------------------------------
(* The invariant. *)

StoreHolds ==
  /\ IsTable(table)
  /\ DOMAIN table \subseteq given /\ opened \subseteq given
  /\ IsFiniteSet(DOMAIN local) /\ DOMAIN local \subseteq Local

Boxes == {<<0, 0>>} \cup UNION {{<<a, f>> : f \in Available[a]} : a \in Account}

PassRecord == [at: {"idle", "fetch", "commit", "flags", "update"}, box: Boxes,
               todo: SUBSET Mail, batch: SUBSET Mail, total: Nat, done: Nat, count: Nat,
               changed: BOOLEAN]

\* What a pass fetches is of its folder and of its account, and new.
Fetches(j, a, ids) ==
  /\ IsFiniteSet(j.todo) /\ IsFiniteSet(j.batch) /\ j.todo \cap j.batch = {}
  /\ \A m \in j.todo \cup j.batch : Box[m] = j.box /\ Box[m][1] = a /\ m \notin ids

\* A pass that has not begun, or is at the flags, has changed nothing.
IsPass(j, a, ids) ==
  /\ j \in PassRecord
  /\ j.at \in {"idle", "flags"} => ~j.changed
  /\ Fetches(j, a, ids)

PassesHold ==
  /\ DOMAIN pass = Account
  /\ \A a \in Account : IsPass(pass[a], a, given)

\* Only a virtual folder fails to be read.
PaneHolds ==
  /\ DOMAIN pane = PaneFields
  /\ failed \in BOOLEAN /\ missed \in BOOLEAN
  /\ failed => place.virtual # ""
  /\ ~failed => IsPane(pane)

\* What was asked to be marked is what was opened, but for the message whose key
\* is not done; a failed open names the one opened before again.
ReadHolds ==
  /\ DOMAIN detail = {"id", "open", "found", "due"} /\ detail.due \in BOOLEAN
  /\ detail.id \in opened \cup {NoId}
  /\ SeenIsOpened

EventRows == [kind: {"Progress", "FolderComplete", "FlagsChanged"}, box: Boxes, done: Nat, total: Nat]

PlaceHolds ==
  /\ DOMAIN place = {"box", "global", "virtual"}
  /\ events \in Seq(EventRows)

ListHolds == PlaceHolds /\ ListIsCache

PaneInv == StoreHolds /\ PassesHold /\ PaneHolds /\ ReadHolds /\ ListHolds

LEMMA TableAdds ==
  ASSUME IsTable(table), NEW part \in SUBSET Mail, IsFiniteSet(part),
         table' = [n \in DOMAIN table \cup part |->
                     IF n \in part THEN [unread |-> TRUE, flagged |-> FALSE] ELSE table[n]]
  PROVE  IsTable(table')
<1>1. DOMAIN table' = DOMAIN table \cup part
  OBVIOUS
<1>2. IsFiniteSet(DOMAIN table')
  BY <1>1, FS_Union DEF IsTable
<1> QED
  BY <1>1, <1>2 DEF IsTable

LEMMA TableDrops ==
  ASSUME IsTable(table), NEW gone, table' = [n \in DOMAIN table \ gone |-> table[n]]
  PROVE  IsTable(table')
<1>1. DOMAIN table' = DOMAIN table \ gone
  OBVIOUS
<1>2. IsFiniteSet(DOMAIN table')
  BY <1>1, FS_Subset DEF IsTable
<1> QED
  BY <1>1, <1>2 DEF IsTable

LEMMA TableMarks ==
  ASSUME IsTable(table), NEW m \in DOMAIN table,
         \/ \E b \in BOOLEAN : table' = [table EXCEPT ![m].unread = b]
         \/ \E b \in BOOLEAN : table' = [table EXCEPT ![m].flagged = b]
  PROVE  IsTable(table')
<1>1. DOMAIN table' = DOMAIN table
  OBVIOUS
<1>2. \A n \in DOMAIN table : table'[n] \in [unread: BOOLEAN, flagged: BOOLEAN]
  BY DEF IsTable
<1> QED
  BY <1>1, <1>2 DEF IsTable

\* When the list is to be that of the cache.
Quiet == ~Pending /\ ~Underway /\ ~missed

\* What changes in a folder that is no concern of the list leaves it as it is,
\* and what changes in one that is leaves something to be heard.
LEMMA ElsewhereKeeps ==
  ASSUME ListIsCache, IsTable(table), IsTable(table'), UNCHANGED <<place, pane>>, NEW box,
         \A n \in Mail : Box[n] # box => (n \in DOMAIN table <=> n \in DOMAIN table'),
         \A n \in DOMAIN table \cap DOMAIN table' : Box[n] # box => table'[n] = table[n],
         Quiet' => Quiet, Quiet' => ~Concerns(box)
  PROVE  ListIsCache'
<1>0. place' = place /\ pane' = pane
  OBVIOUS
<1> SUFFICES ASSUME Quiet', place.virtual = "" PROVE pane.emails = Query(place)'
  BY <1>0 DEF ListIsCache, Quiet
<1>1. ~Concerns(box) /\ pane.emails = Query(place)
  BY DEF ListIsCache, Quiet
<1> DEFINE S == Chosen(place, table)
           fits(n) == IF place.global THEN Box[n][2] = Inbox ELSE Box[n] = place.box
<1>2. \A n \in Mail : fits(n) => Box[n] # box
  BY <1>1 DEF Concerns
<1>3. S = {n \in DOMAIN table : fits(n)} /\ Chosen(place', table') = {n \in DOMAIN table' : fits(n)}
  BY <1>0 DEF Chosen
<1> HIDE DEF fits, S
<1>4. DOMAIN table \subseteq Mail /\ DOMAIN table' \subseteq Mail
  BY DEF IsTable
<1>5. Chosen(place', table') = S
  <2>1. \A n : n \in S <=> n \in Chosen(place', table')
    BY <1>2, <1>3, <1>4
  <2> QED
    BY <1>3, <2>1
<1>6. S \subseteq DOMAIN table /\ S \subseteq DOMAIN table' /\ \A n \in S : Box[n] # box
  BY <1>2, <1>3, <1>4, <1>5
<1>7. \A i \in DOMAIN ByDate(S) : ByDate(S)[i] \in S
  BY <1>6, RowsAreList DEF RowsIn
<1>8. \A i \in DOMAIN ByDate(S) : table'[ByDate(S)[i]] = table[ByDate(S)[i]]
  BY <1>6, <1>7
<1>9. RowsIn(table', S) = RowsIn(table, S)
  BY <1>8 DEF RowsIn, RowOf
<1> QED
  BY <1>1, <1>5, <1>9, QueryIsRows DEF S

\* What is told goes to the end of what is to be heard.
LEMMA TellsKeeps ==
  ASSUME PlaceHolds, UNCHANGED place, NEW es \in Seq(EventRows), Tells(es)
  PROVE  /\ PlaceHolds'
         /\ Pending => Pending'
         /\ (\E i \in DOMAIN es : Heard(es[i]) /\ Concerns(es[i].box)) => Pending'
<1>1. events' = events \o es /\ events \in Seq(EventRows)
  BY DEF Tells, PlaceHolds
<1>2. events' \in Seq(EventRows)
  BY <1>1
<1>3. \A i \in DOMAIN events : i \in DOMAIN events' /\ events'[i] = events[i]
  BY <1>1
<1>4. \A i \in DOMAIN es : Len(events) + i \in DOMAIN events' /\ events'[Len(events) + i] = es[i]
  BY <1>1
<1>5. \A box : Concerns(box)' <=> Concerns(box)
  BY DEF Concerns
<1> QED
  BY <1>2, <1>3, <1>4, <1>5 DEF PlaceHolds, Pending

\* A pass goes on.
LEMMA BecomesKeeps ==
  ASSUME PassesHold, NEW a \in Account, NEW j, Becomes(a, j), IsPass(j, a, given'), given \subseteq given',
         \A m \in given' \ given : Box[m][1] = a, UNCHANGED place
  PROVE  /\ PassesHold'
         /\ pass'[a] = j /\ \A b \in Account \ {a} : pass'[b] = pass[b]
         /\ j.changed /\ Concerns(j.box) => Underway'
         /\ Underway /\ ~Underway' => pass[a].changed /\ Concerns(pass[a].box)
<1>1. pass' = [pass EXCEPT ![a] = j] /\ DOMAIN pass = Account
  BY DEF Becomes, PassesHold
<1>2. pass'[a] = j /\ (\A b \in Account \ {a} : pass'[b] = pass[b]) /\ DOMAIN pass' = Account
  BY <1>1
<1>3. ASSUME NEW b \in Account PROVE IsPass(pass'[b], b, given')
  <2>1. CASE b = a
    BY <2>1, <1>2
  <2>2. CASE b # a
    <3>1. pass'[b] = pass[b] /\ IsPass(pass[b], b, given)
      BY <2>2, <1>2 DEF PassesHold
    <3>2. \A m \in pass[b].todo \cup pass[b].batch : Box[m][1] = b /\ m \notin given
      BY <3>1 DEF IsPass, Fetches
    <3>3. \A m \in pass[b].todo \cup pass[b].batch : m \notin given'
      BY <2>2, <3>2
    <3> QED
      BY <3>1, <3>3 DEF IsPass, Fetches
  <2> QED
    BY <2>1, <2>2
<1>4. PassesHold'
  BY <1>2, <1>3 DEF PassesHold
<1>5. \A box : Concerns(box)' <=> Concerns(box)
  BY DEF Concerns
<1> QED
  BY <1>2, <1>4, <1>5 DEF Underway

\* A step of jamaild: of what jamail keeps nothing changes.
LEMMA BehindKeeps ==
  ASSUME PaneInv, UNCHANGED <<local, place, pane, detail, opened, asked, failed>>,
         IsTable(table'), DOMAIN table' \subseteq given', given \subseteq given',
         DOMAIN table' \cap given \subseteq DOMAIN table,
         missed' \in BOOLEAN, PassesHold', PlaceHolds', ListIsCache'
  PROVE  PaneInv'
<1>1. StoreHolds' /\ PaneHolds'
  BY DEF PaneInv, StoreHolds, PaneHolds
<1>2. ReadHolds'
  <2>1. (opened \ asked) \cap DOMAIN table' \subseteq (opened \ asked) \cap DOMAIN table
    BY DEF PaneInv, StoreHolds
  <2> QED
    BY <2>1 DEF PaneInv, ReadHolds, SeenIsOpened
<1> QED
  BY <1>1, <1>2 DEF PaneInv, ListHolds

BehindVars == <<local, place, pane, detail, opened, asked, failed>>

LEMMA IdleIsPass ==
  ASSUME NEW a \in Account, NEW ids, NEW at \in {"idle", "flags"}, NEW box \in Boxes
  PROVE  IsPass([NoPass EXCEPT !.at = at, !.box = box], a, ids) /\ IsPass(NoPass, a, ids)
<1> DEFINE j == [NoPass EXCEPT !.at = at, !.box = box]
<1>1. /\ j \in PassRecord /\ NoPass \in PassRecord
      /\ j.changed = FALSE /\ NoPass.changed = FALSE
      /\ j.todo = {} /\ NoPass.todo = {} /\ j.batch = {} /\ NoPass.batch = {}
  <2>1. <<0, 0>> \in Boxes
    BY DEF Boxes
  <2> QED
    BY <2>1 DEF NoPass, PassRecord
<1> HIDE DEF j
<1>2. IsFiniteSet({})
  BY FS_EmptySet
<1>3. IsPass(j, a, ids) /\ IsPass(NoPass, a, ids)
  BY <1>1, <1>2 DEF IsPass, Fetches
<1> QED
  BY <1>3 DEF j

LEMMA AtMostTwoIs ==
  ASSUME NEW S, NEW T \in AtMostTwo(S)
  PROVE  T \subseteq S /\ IsFiniteSet(T)
<1>1. T = {} \/ \E m, n \in S : T = {m, n}
  BY DEF AtMostTwo
<1>2. ASSUME NEW m \in S, NEW n \in S, T = {m, n}
      PROVE  T \subseteq S /\ IsFiniteSet(T)
  <2>1. T = {m} \cup {n}
    BY <1>2
  <2>2. IsFiniteSet({m})
    BY FS_Singleton
  <2>3. IsFiniteSet({n})
    BY FS_Singleton
  <2>4. IsFiniteSet({m} \cup {n})
    BY <2>2, <2>3, FS_Union
  <2> QED
    BY <1>2, <2>1, <2>4
<1> QED
  BY <1>1, <1>2, FS_EmptySet

LEMMA SyncFolderKeeps ==
  ASSUME PaneInv, NEW a \in Account, SyncFolder(a)
  PROVE  PaneInv'
<1>1. PICK f \in Available[a], replaced \in BOOLEAN :
        \E new \in AtMostTwo(Coming(<<a, f>>)) : Begins(a, <<a, f>>, replaced, new)
  BY Zenon DEF SyncFolder
<1> DEFINE box == <<a, f>>
           old == InBox(box)
<1>2. PICK new \in AtMostTwo(Coming(box)) : Begins(a, box, replaced, new)
  BY <1>1, Zenon
<1> DEFINE total == Cardinality(new) + Cardinality(ahead' \cap old)
           j == [NoPass EXCEPT !.at = "fetch", !.box = box, !.todo = new, !.changed = replaced,
                   !.total = total]
<1>3. UNCHANGED <<given, events, missed>> /\ UNCHANGED BehindVars /\ pass[a].at = "idle"
  BY DEF SyncFolder, Behind, screen, BehindVars
<1>4. box \in Boxes
  BY DEF Boxes
<1>5. new \subseteq Coming(box) /\ IsFiniteSet(new)
  BY <1>2, AtMostTwoIs
<1>6. total \in Nat
  <2>1. IsFiniteSet(ahead' \cap old)
    <3>1. IsFiniteSet(old)
      BY FS_Subset DEF PaneInv, StoreHolds, IsTable, InBox
    <3> QED
      BY <3>1, FS_Subset
  <2>2. Cardinality(new) \in Nat /\ Cardinality(ahead' \cap old) \in Nat
    BY <2>1, <1>5, FS_CardinalityType
  <2> HIDE DEF old
  <2> QED
    BY <2>2
<1>7. new \subseteq Mail /\ \A m \in new : Box[m] = box /\ Box[m][1] = a /\ m \notin given
  BY <1>5 DEF Coming
<1>20. /\ table' = IF replaced THEN [n \in DOMAIN table \ old |-> table[n]] ELSE table
       /\ Becomes(a, j)
  BY <1>2 DEF Begins
<1> HIDE DEF total, old
<1>8. IsPass(j, a, given) /\ j.changed = replaced /\ j.box = box
  <2> HIDE DEF box
  <2>2. /\ j \in PassRecord /\ j.at = "fetch" /\ j.changed = replaced /\ j.box = box
        /\ j.todo = new /\ j.batch = {}
    BY <1>4, <1>6, <1>7 DEF NoPass, PassRecord
  <2> HIDE DEF j
  <2> QED
    BY <2>2, <1>5, <1>7, FS_EmptySet DEF IsPass, Fetches
<1> HIDE DEF j, box
<1>9. /\ PassesHold'
      /\ replaced /\ Concerns(box) => Underway'
      /\ Underway => Underway'
  <2>1. Becomes(a, j) /\ place' = place /\ given' = given
    BY <1>20, <1>3 DEF BehindVars
  <2>2. ~pass[a].changed
    BY <1>3 DEF PaneInv, PassesHold, IsPass
  <2> QED
    BY <2>1, <2>2, <1>8, BecomesKeeps DEF PaneInv
<1>10. IsTable(table') /\ DOMAIN table' \subseteq DOMAIN table
  BY <1>20, TableDrops DEF PaneInv, StoreHolds
<1>11. /\ \A n \in Mail : Box[n] # box => (n \in DOMAIN table <=> n \in DOMAIN table')
       /\ \A n \in DOMAIN table \cap DOMAIN table' : table'[n] = table[n]
  BY <1>20 DEF old, InBox
<1>12. Query(place)' = Query(place) \/ replaced
  BY <1>20, <1>3, QueryIsRows DEF BehindVars
<1>13. Pending' <=> Pending
  BY <1>3 DEF Pending, Concerns, BehindVars
<1>14. ListIsCache'
  <2>1. CASE replaced
    <3>1. (Quiet' => Quiet) /\ (Quiet' => ~Concerns(box))
      BY <2>1, <1>3, <1>9, <1>13 DEF Quiet
    <3>2. \A n \in DOMAIN table \cap DOMAIN table' : Box[n] # box => table'[n] = table[n]
      BY <1>11
    <3>3. ListIsCache /\ IsTable(table) /\ UNCHANGED <<place, pane>>
      BY <1>3 DEF PaneInv, StoreHolds, ListHolds, BehindVars
    <3> QED
      BY <3>1, <3>2, <3>3, <1>10, <1>11, ElsewhereKeeps
  <2>2. CASE ~replaced
    <3>1. ListIsCache /\ place' = place /\ pane' = pane /\ missed' = missed
      BY <1>3 DEF PaneInv, ListHolds, BehindVars
    <3>2. Query(place)' = Query(place)
      BY <2>2, <1>12
    <3> QED
      BY <3>1, <3>2, <1>9, <1>13 DEF ListIsCache
  <2> QED
    BY <2>1, <2>2
<1>15. PlaceHolds'
  BY <1>3 DEF PaneInv, ListHolds, PlaceHolds, BehindVars
<1>16. /\ DOMAIN table' \subseteq given' /\ given \subseteq given'
       /\ DOMAIN table' \cap given \subseteq DOMAIN table /\ missed' \in BOOLEAN
  <2>1. DOMAIN table \subseteq given /\ missed \in BOOLEAN
    BY DEF PaneInv, StoreHolds, PaneHolds
  <2>2. given' = given /\ missed' = missed
    BY <1>3
  <2> QED
    BY <2>1, <2>2, <1>10
<1>17. UNCHANGED <<local, place, pane, detail, opened, asked, failed>>
  BY <1>3 DEF BehindVars
<1> QED
  BY <1>9, <1>10, <1>14, <1>15, <1>16, <1>17, BehindKeeps

LEMMA FetchRawBatchKeeps ==
  ASSUME PaneInv, NEW a \in Account, FetchRawBatch(a)
  PROVE  PaneInv'
<1>1. PICK part \in SUBSET pass[a].todo :
        LET done == pass[a].done + Cardinality(part) IN
        /\ Becomes(a, [pass[a] EXCEPT !.at = "commit", !.batch = part, !.todo = @ \ part, !.done = done])
        /\ Tells(<<Progress(pass[a].box, done, pass[a].total)>>)
  BY DEF FetchRawBatch
<1> DEFINE done == pass[a].done + Cardinality(part)
           j == [pass[a] EXCEPT !.at = "commit", !.batch = part, !.todo = @ \ part, !.done = done]
           e == Progress(pass[a].box, done, pass[a].total)
<1>2. UNCHANGED <<table, given, missed>> /\ UNCHANGED BehindVars /\ pass[a].at = "fetch"
  BY DEF FetchRawBatch, Behind, screen, BehindVars, cached
<1>3. IsPass(pass[a], a, given)
  BY DEF PaneInv, PassesHold
<1>4. IsFiniteSet(part) /\ IsFiniteSet(pass[a].todo \ part) /\ part \subseteq pass[a].todo
  BY <1>3, FS_Subset DEF IsPass, Fetches
<1>5. done \in Nat
  BY <1>3, <1>4, FS_CardinalityType DEF IsPass, PassRecord
<1>6. e \in EventRows
  <2> HIDE DEF done
  <2> QED
    BY <1>3, <1>5 DEF IsPass, PassRecord, EventRows, Progress
<1>7. IsPass(j, a, given) /\ j.changed = pass[a].changed /\ j.box = pass[a].box
  <2> HIDE DEF done
  <2>1. /\ j \in PassRecord /\ j.at = "commit" /\ j.changed = pass[a].changed /\ j.box = pass[a].box
        /\ j.todo = pass[a].todo \ part /\ j.batch = part
    BY <1>3, <1>4, <1>5 DEF IsPass, PassRecord
  <2> HIDE DEF j
  <2> QED
    BY <2>1, <1>3, <1>4 DEF IsPass, Fetches
<1> HIDE DEF j, e
<1>8. PassesHold' /\ (Underway => Underway')
  <2>1. Becomes(a, j) /\ place' = place /\ given' = given
    BY <1>1, <1>2 DEF j, BehindVars
  <2> QED
    BY <2>1, <1>7, BecomesKeeps DEF PaneInv
<1>9. PlaceHolds' /\ (Pending => Pending')
  <2>1. Tells(<<e>>) /\ <<e>> \in Seq(EventRows) /\ place' = place
    BY <1>1, <1>2, <1>6 DEF e, BehindVars
  <2> QED
    BY <2>1, TellsKeeps DEF PaneInv, ListHolds
<1>10. ListIsCache'
  BY <1>2, <1>8, <1>9, QueryIsRows DEF PaneInv, ListHolds, ListIsCache, BehindVars
<1> QED
  BY <1>2, <1>8, <1>9, <1>10, BehindKeeps DEF PaneInv, StoreHolds, PaneHolds, BehindVars

LEMMA CommitBatchKeeps ==
  ASSUME PaneInv, NEW a \in Account, CommitBatch(a)
  PROVE  PaneInv'
<1> DEFINE part == pass[a].batch
           box == pass[a].box
           j == [pass[a] EXCEPT !.at = "fetch", !.batch = {}, !.count = @ + Cardinality(part),
                               !.changed = TRUE]
<1>1. /\ table' = [n \in DOMAIN table \cup part |->
                      IF n \in part THEN [unread |-> TRUE, flagged |-> FALSE] ELSE table[n]]
      /\ given' = given \cup part
      /\ Becomes(a, j)
  BY DEF CommitBatch
<1>2. UNCHANGED <<events, missed>> /\ UNCHANGED BehindVars
  BY DEF CommitBatch, Behind, screen, BehindVars
<1>3. IsPass(pass[a], a, given)
  BY DEF PaneInv, PassesHold
<1>4. /\ part \in SUBSET Mail /\ IsFiniteSet(part) /\ pass[a].todo \cap part = {}
      /\ \A m \in part : Box[m] = box /\ Box[m][1] = a /\ m \notin given
  BY <1>3 DEF IsPass, Fetches, PassRecord
<1>5. IsPass(j, a, given') /\ j.changed /\ j.box = box
  <2>1. Cardinality(part) \in Nat
    BY <1>4, FS_CardinalityType
  <2> DEFINE count == pass[a].count + Cardinality(part)
  <2>2. count \in Nat
    BY <2>1, <1>3 DEF IsPass, PassRecord
  <2>3. j = [pass[a] EXCEPT !.at = "fetch", !.batch = {}, !.count = count, !.changed = TRUE]
    BY <1>3 DEF IsPass, PassRecord
  <2> HIDE DEF count, j
  <2>4. /\ j \in PassRecord /\ j.at = "fetch" /\ j.changed = TRUE /\ j.box = pass[a].box
        /\ j.todo = pass[a].todo /\ j.batch = {}
    BY <2>2, <2>3, <1>3 DEF IsPass, PassRecord
  <2>5. \A m \in pass[a].todo : m \notin given'
    BY <1>1, <1>3, <1>4 DEF IsPass, Fetches
  <2> QED
    BY <2>4, <2>5, <1>3, FS_EmptySet DEF IsPass, Fetches
<1> HIDE DEF j, part, box
<1>6. PassesHold' /\ (Concerns(box) => Underway') /\ (Underway => Underway')
  <2>1. Becomes(a, j) /\ place' = place /\ given \subseteq given' /\ \A m \in given' \ given : Box[m][1] = a
    BY <1>1, <1>2, <1>4 DEF BehindVars
  <2> QED
    BY <2>1, <1>5, BecomesKeeps DEF PaneInv, box
<1>7. IsTable(table')
  BY <1>1, <1>4, TableAdds DEF PaneInv, StoreHolds
<1>8. /\ \A n \in Mail : Box[n] # box => (n \in DOMAIN table <=> n \in DOMAIN table')
      /\ \A n \in DOMAIN table \cap DOMAIN table' : Box[n] # box => table'[n] = table[n]
  BY <1>1, <1>4
<1>9. Pending' <=> Pending
  BY <1>2 DEF Pending, Concerns, BehindVars
<1>10. (Quiet' => Quiet) /\ (Quiet' => ~Concerns(box))
  BY <1>2, <1>6, <1>9 DEF Quiet
<1>11. ListIsCache'
  BY <1>2, <1>7, <1>8, <1>10, ElsewhereKeeps DEF PaneInv, StoreHolds, ListHolds, BehindVars
<1>12. PlaceHolds'
  BY <1>2 DEF PaneInv, ListHolds, PlaceHolds, BehindVars
<1>13. DOMAIN table' \subseteq given' /\ DOMAIN table' \cap given \subseteq DOMAIN table
  BY <1>1, <1>4 DEF PaneInv, StoreHolds
<1> QED
  BY <1>1, <1>2, <1>6, <1>7, <1>11, <1>12, <1>13, BehindKeeps DEF PaneInv, PaneHolds, BehindVars

\* The end of a pass, or of its flags: what it changed is told, or known as untold.
LEMMA EndsKeep ==
  ASSUME PaneInv, NEW a \in Account, NEW j, Becomes(a, j), IsPass(j, a, given),
         UNCHANGED <<table, given>>, UNCHANGED BehindVars, missed' \in BOOLEAN, PlaceHolds',
         Pending => Pending', missed => missed',
         pass[a].changed /\ Concerns(pass[a].box) => Pending' \/ missed'
  PROVE  PaneInv'
<1>1. /\ PassesHold'
      /\ Underway /\ ~Underway' => pass[a].changed /\ Concerns(pass[a].box)
  BY BecomesKeeps DEF PaneInv, BehindVars
<1>2. Query(place)' = Query(place)
  BY QueryIsRows DEF BehindVars
<1>3. ListIsCache'
  BY <1>1, <1>2 DEF PaneInv, ListHolds, ListIsCache, BehindVars
<1> QED
  BY <1>1, <1>3, BehindKeeps DEF PaneInv, StoreHolds, BehindVars

LEMMA CompleteKeeps ==
  ASSUME PaneInv, NEW a \in Account, Complete(a)
  PROVE  PaneInv'
<1> DEFINE j == pass[a]
           es == IF j.done < j.total THEN <<Progress(j.box, j.total, j.total)>> ELSE <<>>
           e == FolderComplete(j.box, j.count)
<1>1. PICK at \in {"flags", "idle"} :
        Becomes(a, IF at = "idle" THEN NoPass ELSE [NoPass EXCEPT !.at = at, !.box = j.box])
  BY DEF Complete
<1>2. /\ Tells(es \o <<e>>)
      /\ IF j.count = 0 THEN Untold(a) ELSE UNCHANGED missed
      /\ UNCHANGED <<table, given>> /\ UNCHANGED BehindVars
  BY DEF Complete, Behind, screen, BehindVars
<1>3. IsPass(j, a, given) /\ j.count \in Nat /\ j.box \in Boxes /\ j.total \in Nat /\ j.changed \in BOOLEAN
  BY DEF PaneInv, PassesHold, IsPass, PassRecord
<1> DEFINE k == IF at = "idle" THEN NoPass ELSE [NoPass EXCEPT !.at = at, !.box = j.box]
<1>4. IsPass(k, a, given)
  BY <1>3, IdleIsPass
<1>5. e \in EventRows /\ es \in Seq(EventRows)
  <2>1. e \in EventRows /\ Progress(j.box, j.total, j.total) \in EventRows
    BY <1>3 DEF EventRows, FolderComplete, Progress
  <2> QED
    BY <2>1
<1>6. j.count # 0 => Heard(e) /\ e.box = j.box
  BY <1>3 DEF Heard, FolderComplete
<1> HIDE DEF e, es
<1>7. es \o <<e>> \in Seq(EventRows) /\ \E i \in DOMAIN (es \o <<e>>) : (es \o <<e>>)[i] = e
  <2>1. es \o <<e>> \in Seq(EventRows)
    BY <1>5
  <2>2. Len(es) + 1 \in DOMAIN (es \o <<e>>) /\ (es \o <<e>>)[Len(es) + 1] = e
    BY <1>5
  <2> QED
    BY <2>1, <2>2
<1>8. /\ PlaceHolds' /\ (Pending => Pending')
      /\ Heard(e) /\ Concerns(e.box) => Pending'
  <2> DEFINE all == es \o <<e>>
  <2>1. all \in Seq(EventRows) /\ Tells(all) /\ \E i \in DOMAIN all : all[i] = e
    BY <1>2, <1>7
  <2> HIDE DEF all
  <2> QED
    BY <2>1, <1>2, TellsKeeps DEF PaneInv, ListHolds, BehindVars
<1>9. missed' \in BOOLEAN /\ (missed => missed') /\ (j.count = 0 /\ j.changed /\ Concerns(j.box) => missed')
  BY <1>2 DEF Untold, PaneInv, PaneHolds
<1>10. j.changed /\ Concerns(j.box) => Pending' \/ missed'
  BY <1>6, <1>8, <1>9
<1>11. Becomes(a, k)
  BY <1>1
<1> HIDE DEF k
<1> QED
  BY <1>2, <1>4, <1>8, <1>9, <1>10, <1>11, EndsKeep

LEMMA SyncFlagsKeeps ==
  ASSUME PaneInv, NEW a \in Account, SyncFlags(a)
  PROVE  PaneInv'
<1>1. PICK gone \in {{}} \cup {{m} : m \in {n \in DOMAIN table : Box[n] = pass[a].box}} :
        /\ table' = [n \in DOMAIN table \ gone |-> table[n]]
        /\ Becomes(a, [pass[a] EXCEPT !.at = "update", !.changed = gone # {}])
  BY DEF SyncFlags
<1> DEFINE box == pass[a].box
           j == [pass[a] EXCEPT !.at = "update", !.changed = gone # {}]
<1>2. /\ UNCHANGED <<given, events, missed>> /\ UNCHANGED BehindVars /\ pass[a].at = "flags"
      /\ IsPass(pass[a], a, given) /\ ~pass[a].changed
  BY DEF SyncFlags, Behind, screen, BehindVars, PaneInv, PassesHold, IsPass
<1>3. \A m \in gone : Box[m] = box
  BY <1>1
<1>4. IsPass(j, a, given) /\ (j.changed <=> gone # {}) /\ j.box = box
  <2> DEFINE changed == gone # {}
  <2>1. changed \in BOOLEAN
    OBVIOUS
  <2> HIDE DEF changed
  <2>2. /\ j \in PassRecord /\ j.at = "update" /\ j.changed = changed /\ j.box = pass[a].box
        /\ j.todo = pass[a].todo /\ j.batch = pass[a].batch
    BY <2>1, <1>2 DEF IsPass, PassRecord, changed
  <2> HIDE DEF j
  <2> QED
    BY <2>2, <1>2 DEF IsPass, Fetches, changed
<1> HIDE DEF j
<1>5. PassesHold' /\ (gone # {} /\ Concerns(box) => Underway') /\ (Underway => Underway')
  <2>1. Becomes(a, j) /\ place' = place /\ given' = given
    BY <1>1, <1>2 DEF j, BehindVars
  <2> QED
    BY <2>1, <1>2, <1>4, BecomesKeeps DEF PaneInv
<1> HIDE DEF box
<1>6. IsTable(table') /\ DOMAIN table' \subseteq DOMAIN table
  BY <1>1, TableDrops DEF PaneInv, StoreHolds
<1>7. /\ \A n \in Mail : Box[n] # box => (n \in DOMAIN table <=> n \in DOMAIN table')
      /\ \A n \in DOMAIN table \cap DOMAIN table' : table'[n] = table[n]
  BY <1>1, <1>3
<1>8. Pending' <=> Pending
  BY <1>2 DEF Pending, Concerns, BehindVars
<1>9. ListIsCache'
  <2>1. CASE gone # {}
    <3>1. (Quiet' => Quiet) /\ (Quiet' => ~Concerns(box))
      BY <2>1, <1>2, <1>5, <1>8 DEF Quiet
    <3> QED
      BY <3>1, <1>2, <1>6, <1>7, ElsewhereKeeps DEF PaneInv, StoreHolds, ListHolds, BehindVars
  <2>2. CASE gone = {}
    <3>1. table' = [n \in DOMAIN table |-> table[n]]
      BY <1>1, <2>2
    <3>2. DOMAIN table' = DOMAIN table /\ \A n \in DOMAIN table : table'[n] = table[n]
      BY <3>1
    <3>3. place' = place /\ Chosen(place', table') = Chosen(place, table)
      BY <1>2, <3>2 DEF Chosen, BehindVars
    <3> DEFINE S == Chosen(place, table)
    <3>4. \A i \in DOMAIN ByDate(S) : ByDate(S)[i] \in DOMAIN table
      <4>1. S \subseteq DOMAIN table
        BY DEF Chosen
      <4> HIDE DEF S
      <4> QED
        BY <4>1, RowsAreList DEF PaneInv, StoreHolds, RowsIn
    <3>5. RowsIn(table', S) = RowsIn(table, S)
      BY <3>2, <3>4 DEF RowsIn, RowOf
    <3>6. Query(place)' = Query(place)
      BY <3>3, <3>5, QueryIsRows
    <3> QED
      BY <3>6, <1>2, <1>5, <1>8 DEF PaneInv, ListHolds, ListIsCache, BehindVars
  <2> QED
    BY <2>1, <2>2
<1>10. PlaceHolds'
  BY <1>2 DEF PaneInv, ListHolds, PlaceHolds, BehindVars
<1> QED
  BY <1>2, <1>5, <1>6, <1>9, <1>10, BehindKeeps DEF PaneInv, StoreHolds, PaneHolds, BehindVars

LEMMA WriteFlagsKeeps ==
  ASSUME PaneInv, NEW a \in Account, WriteFlags(a)
  PROVE  PaneInv'
<1>1. PICK m \in DOMAIN table :
        /\ Box[m] = pass[a].box
        /\ \/ table' = [table EXCEPT ![m].unread = ~@]
           \/ table' = [table EXCEPT ![m].flagged = ~@]
  BY DEF WriteFlags
<1> DEFINE box == pass[a].box
           j == [pass[a] EXCEPT !.changed = TRUE]
<1>2. /\ UNCHANGED <<given, events, missed>> /\ UNCHANGED BehindVars /\ pass[a].at = "update"
      /\ IsPass(pass[a], a, given) /\ Becomes(a, j)
  BY DEF WriteFlags, Behind, screen, BehindVars, PaneInv, PassesHold, IsPass
<1>3. IsPass(j, a, given) /\ j.changed /\ j.box = box
  <2>1. /\ j \in PassRecord /\ j.at = "update" /\ j.changed = TRUE /\ j.box = pass[a].box
        /\ j.todo = pass[a].todo /\ j.batch = pass[a].batch
    BY <1>2 DEF IsPass, PassRecord
  <2> HIDE DEF j
  <2> QED
    BY <2>1, <1>2 DEF IsPass, Fetches
<1> HIDE DEF j
<1>4. PassesHold' /\ (Concerns(box) => Underway') /\ (Underway => Underway')
  <2>1. place' = place /\ given' = given
    BY <1>2 DEF BehindVars
  <2> QED
    BY <2>1, <1>2, <1>3, BecomesKeeps DEF PaneInv
<1>5. IsTable(table')
  <2>1. m \in DOMAIN table
    BY <1>1
  <2>2. \/ \E b \in BOOLEAN : table' = [table EXCEPT ![m].unread = b]
        \/ \E b \in BOOLEAN : table' = [table EXCEPT ![m].flagged = b]
    BY <1>1
  <2> QED
    BY <2>1, <2>2, TableMarks DEF PaneInv, StoreHolds
<1>6. DOMAIN table' = DOMAIN table /\ \A n \in DOMAIN table : Box[n] # box => table'[n] = table[n]
  BY <1>1
<1> HIDE DEF box
<1>7. Pending' <=> Pending
  BY <1>2 DEF Pending, Concerns, BehindVars
<1>8. (Quiet' => Quiet) /\ (Quiet' => ~Concerns(box))
  BY <1>2, <1>4, <1>7 DEF Quiet
<1>9. ListIsCache'
  BY <1>2, <1>5, <1>6, <1>8, ElsewhereKeeps DEF PaneInv, StoreHolds, ListHolds, BehindVars
<1>10. PlaceHolds'
  BY <1>2 DEF PaneInv, ListHolds, PlaceHolds, BehindVars
<1> QED
  BY <1>2, <1>4, <1>5, <1>6, <1>9, <1>10, BehindKeeps DEF PaneInv, StoreHolds, PaneHolds, BehindVars

LEMMA TellFlagsKeeps ==
  ASSUME PaneInv, NEW a \in Account, TellFlags(a)
  PROVE  PaneInv'
<1> DEFINE e == FlagsChanged(pass[a].box)
           es == IF pass[a].changed THEN <<e>> ELSE <<>>
<1>1. /\ Tells(es) /\ Becomes(a, NoPass)
      /\ UNCHANGED <<table, given, missed>> /\ UNCHANGED BehindVars
  BY DEF TellFlags, Behind, screen, BehindVars, cached
<1>2. pass[a].box \in Boxes /\ pass[a].changed \in BOOLEAN
  BY DEF PaneInv, PassesHold, IsPass, PassRecord
<1>3. e \in EventRows /\ Heard(e) /\ e.box = pass[a].box
  BY <1>2 DEF EventRows, FlagsChanged, Heard
<1>4. IsPass(NoPass, a, given)
  BY <1>2, IdleIsPass
<1> HIDE DEF e
<1>5. es \in Seq(EventRows) /\ (pass[a].changed => \E i \in DOMAIN es : es[i] = e)
  <2>1. <<e>> \in Seq(EventRows) /\ 1 \in DOMAIN <<e>> /\ <<e>>[1] = e
    BY <1>3
  <2> QED
    BY <2>1
<1> HIDE DEF es
<1>6. PlaceHolds' /\ (Pending => Pending') /\ (pass[a].changed /\ Concerns(pass[a].box) => Pending')
  BY <1>1, <1>3, <1>5, TellsKeeps DEF PaneInv, ListHolds, BehindVars
<1>7. missed' \in BOOLEAN /\ (missed => missed')
  BY <1>1 DEF PaneInv, PaneHolds
<1> QED
  BY <1>1, <1>4, <1>6, <1>7, EndsKeep

LEMMA PassFailsKeeps ==
  ASSUME PaneInv, NEW a \in Account, PassFails(a)
  PROVE  PaneInv'
<1>1. /\ Becomes(a, NoPass) /\ Untold(a)
      /\ UNCHANGED <<table, given, events>> /\ UNCHANGED BehindVars
  BY DEF PassFails, Behind, screen, BehindVars, cached
<1>2. IsPass(NoPass, a, given)
  BY IdleIsPass DEF Boxes
<1>3. PlaceHolds' /\ (Pending => Pending')
  BY <1>1 DEF PaneInv, ListHolds, PlaceHolds, Pending, Concerns, BehindVars
<1>4. missed' \in BOOLEAN /\ (missed => missed') /\ (pass[a].changed /\ Concerns(pass[a].box) => missed')
  <2>1. missed \in BOOLEAN /\ pass[a].changed \in BOOLEAN
    BY DEF PaneInv, PaneHolds, PassesHold, IsPass, PassRecord
  <2> QED
    BY <2>1, <1>1 DEF Untold
<1> QED
  BY <1>1, <1>2, <1>3, <1>4, EndsKeep

LEMMA DaemonKeeps ==
  ASSUME PaneInv, Daemon
  PROVE  PaneInv'
<1>1. ASSUME NEW a \in Account, Pass(a)
      PROVE  PaneInv'
  BY <1>1, SyncFolderKeeps, FetchRawBatchKeeps, CommitBatchKeeps, CompleteKeeps, SyncFlagsKeeps,
     WriteFlagsKeeps, TellFlagsKeeps, PassFailsKeeps DEF Pass
<1>2. CASE Disconnects
  <2>1. /\ UNCHANGED <<table, given, pass>> /\ UNCHANGED BehindVars
        /\ events' = <<>> /\ missed' = TRUE
    BY <1>2 DEF Disconnects, Behind, screen, BehindVars, cached
  <2>2. PassesHold' /\ PlaceHolds'
    BY <2>1 DEF PaneInv, PassesHold, ListHolds, PlaceHolds, BehindVars
  <2>3. ListIsCache'
    BY <2>1 DEF ListIsCache
  <2> QED
    BY <2>1, <2>2, <2>3, BehindKeeps DEF PaneInv, StoreHolds, BehindVars
<1> QED
  BY <1>1, <1>2 DEF Daemon

\* A step that reads nothing: only cursors, modes, drafts and dialogs move.
LEMMA QuietKeeps ==
  ASSUME PaneInv,
         UNCHANGED <<table, given, pass, events, place, asked, opened, missed, failed>>,
         ShowsSame(pane, pane'),
         IsFiniteSet(DOMAIN local'), DOMAIN local' \subseteq Local,
         DOMAIN detail' = DOMAIN detail, detail'.id = detail.id, detail'.due = detail.due
  PROVE  PaneInv'
<1>1. StoreHolds' /\ PassesHold' /\ ReadHolds' /\ PlaceHolds'
  BY DEF PaneInv, StoreHolds, PassesHold, ReadHolds, SeenIsOpened, ListHolds, PlaceHolds
<1>2. PaneHolds'
  BY SameIsPane DEF PaneInv, PaneHolds, ShowsSame
<1>3. Query(place)' = Query(place)
  BY QueryIsRows
<1>4. (Pending' <=> Pending) /\ (Underway' <=> Underway)
  BY DEF Pending, Underway, Concerns
<1>5. ListIsCache'
  BY <1>3, <1>4 DEF PaneInv, ListHolds, ListIsCache, ShowsSame
<1> QED
  BY <1>1, <1>2, <1>5 DEF PaneInv, ListHolds

LEMMA StillKeeps ==
  ASSUME PaneInv,
         UNCHANGED <<table, given, pass, local, events, place, pane, detail, asked, opened, missed, failed>>
  PROVE  PaneInv'
<1>1. ShowsSame(pane, pane')
  BY DEF ShowsSame
<1> QED
  BY <1>1, QuietKeeps DEF PaneInv, StoreHolds

LEMMA CursorKeeps ==
  ASSUME PaneInv,
         UNCHANGED <<table, given, pass, local, events, place, detail, asked, opened, missed, failed>>,
         ShowsSame(pane, pane')
  PROVE  PaneInv'
  BY QuietKeeps DEF PaneInv, StoreHolds

\* The list is read again.
LEMMA ReadsKeeps ==
  ASSUME PaneInv, UNCHANGED <<table, given, pass, local>>,
         DOMAIN detail' = DOMAIN detail, detail'.due = detail.due, UNCHANGED <<asked, opened>>,
         detail'.id = detail.id \/ (detail'.id = NoId /\ ~detail.due),
         PlaceHolds', ~failed', failed' \in BOOLEAN, missed' \in BOOLEAN,
         DOMAIN pane' = PaneFields, pane'.emails = Query(place)', pane'.threads = BuildThreads(pane'.emails)
  PROVE  PaneInv'
<1>1. StoreHolds' /\ PassesHold' /\ ReadHolds'
  BY DEF PaneInv, StoreHolds, PassesHold, ReadHolds, SeenIsOpened
<1>2. IsList(Query(place)')
  <2>1. Chosen(place', table') \subseteq DOMAIN table'
    BY DEF Chosen
  <2> QED
    BY <2>1, <1>1, QueryIsRows, RowsAreList DEF StoreHolds
<1>3. PaneHolds'
  BY <1>2 DEF PaneHolds, IsPane
<1>4. ListIsCache'
  BY DEF ListIsCache
<1> QED
  BY <1>1, <1>3, <1>4 DEF PaneInv, ListHolds

LEMMA OnEventKeeps ==
  ASSUME PaneInv, OnEvent
  PROVE  PaneInv'
<1> DEFINE e == Head(events)
           reads == Heard(e) /\ Concerns(e.box)
<1>1. /\ UNCHANGED <<table, given, pass, local, place, detail, opened, asked>>
      /\ events # <<>> /\ events' = Tail(events)
      /\ missed' = (missed /\ ~reads) /\ failed' = (failed /\ ~reads)
      /\ pane' = IF reads THEN Refreshed(pane, Query(place)) ELSE pane
  BY DEF OnEvent, store, cached
<1>2. events \in Seq(EventRows)
  BY DEF PaneInv, ListHolds, PlaceHolds
<1>3. PlaceHolds'
  BY <1>1, <1>2 DEF PaneInv, ListHolds, PlaceHolds
<1>4. Query(place)' = Query(place)
  BY <1>1, QueryIsRows
<1>5. \A box : Concerns(box)' <=> Concerns(box)
  BY <1>1 DEF Concerns
<1> HIDE DEF e
<1>6. CASE reads
  <2>1. DOMAIN pane = PaneFields
    BY DEF PaneInv, PaneHolds
  <2>2. /\ DOMAIN pane' = PaneFields
        /\ pane'.emails = Query(place)'
        /\ pane'.threads = BuildThreads(pane'.emails)
    BY <1>1, <1>4, <1>6, <2>1, RefreshedShows
  <2>3. ~failed' /\ failed' \in BOOLEAN /\ missed' \in BOOLEAN
    BY <1>1, <1>6
  <2> HIDE DEF reads
  <2> QED
    BY <1>1, <1>3, <2>2, <2>3, ReadsKeeps
<1>7. CASE ~reads
  <2>1. pane' = pane /\ missed' = missed /\ failed' = failed
    <3>1. missed \in BOOLEAN /\ failed \in BOOLEAN
      BY DEF PaneInv, PaneHolds
    <3> HIDE DEF reads
    <3> QED
      BY <3>1, <1>1, <1>7
  <2>2. PaneHolds' /\ StoreHolds' /\ PassesHold' /\ ReadHolds'
    <3>1. StoreHolds' /\ PassesHold' /\ ReadHolds'
      BY <1>1 DEF PaneInv, StoreHolds, PassesHold, ReadHolds, SeenIsOpened
    <3>2. PaneHolds'
      <4>1. PaneHolds /\ place' = place
        BY <1>1 DEF PaneInv
      <4> QED
        BY <4>1, <2>1 DEF PaneHolds
    <3> QED
      BY <3>1, <3>2
  <2>3. ~Pending' => ~Pending
    <3> SUFFICES ASSUME NEW i \in DOMAIN events, Heard(events[i]), Concerns(events[i].box) PROVE Pending'
      BY DEF Pending
    <3>1. i # 1
      BY <1>2, <1>7 DEF e
    <3>2. i - 1 \in DOMAIN events' /\ events'[i - 1] = events[i]
      BY <3>1, <1>1, <1>2
    <3> QED
      BY <3>2, <1>5 DEF Pending
  <2>4. Underway' <=> Underway
    BY <1>1, <1>5 DEF Underway
  <2>5. ListIsCache'
    <3>1. place' = place /\ ListIsCache
      BY <1>1 DEF PaneInv, ListHolds
    <3> QED
      BY <3>1, <2>1, <2>3, <2>4, <1>4 DEF ListIsCache
  <2> QED
    BY <1>3, <2>2, <2>5 DEF PaneInv, ListHolds
<1> QED
  BY <1>6, <1>7

\* A list of drafts or of sent mail takes the place of the folder's.
LEMMA VirtualShows ==
  ASSUME NEW loc, IsFiniteSet(DOMAIN loc), DOMAIN loc \subseteq Local,
         NEW p, DOMAIN p = PaneFields, NEW folder
  PROVE  IsPane(LoadVirtual(p, loc, folder))
<1> DEFINE S == LocalOf(loc, folder)
           ids == ByDate(S)
           emails == [i \in DOMAIN ids |-> [id |-> ids[i], unread |-> folder # "Sent", flagged |-> FALSE]]
<1>1. S \subseteq DOMAIN loc /\ S \subseteq Email
  BY DEF LocalOf, Local
<1>2. IsFiniteSet(S)
  BY <1>1, FS_Subset
<1> HIDE DEF S
<1>3. /\ Cardinality(S) \in Nat
      /\ ids \in [1 .. Cardinality(S) -> S]
      /\ \A i, j \in 1 .. Cardinality(S) : ids[i] = ids[j] => i = j
  BY <1>1, <1>2, ByDateIsOf
<1> HIDE DEF ids
<1>4. IsList(emails)
  <2>1. emails \in [1 .. Cardinality(S) -> EmailRow]
    BY <1>1, <1>3 DEF EmailRow
  <2>2. \A i \in 1 .. Cardinality(S) : emails[i].id = ids[i]
    BY <1>3
  <2> HIDE DEF emails
  <2> QED
    BY <1>3, <2>1, <2>2 DEF IsList
<1>5. LoadVirtual(p, loc, folder) = [p EXCEPT !.emails = emails, !.threads = BuildThreads(emails), !.sel = 1]
  BY DEF LoadVirtual, ids, S
<1> HIDE DEF emails
<1> QED
  BY <1>4, <1>5 DEF IsPane, PaneFields

\* A virtual folder is read, or is not.
LEMMA LoadsKeep ==
  ASSUME PaneInv, NEW loc, loc = local', NEW folder, Loads(loc, folder),
         IsFiniteSet(DOMAIN local'), DOMAIN local' \subseteq Local,
         UNCHANGED <<table, given, pass, events, detail, asked, opened, missed>>,
         DOMAIN place' = DOMAIN place, place'.virtual # ""
  PROVE  PaneInv'
<1>1. DOMAIN pane = PaneFields
  BY DEF PaneInv, PaneHolds
<1>2. PaneHolds'
  <2>1. CASE pane' = LoadVirtual(pane, loc, folder) /\ failed' = FALSE
    <3>1. IsPane(pane')
      BY <1>1, <2>1, VirtualShows
    <3> QED
      BY <2>1, <3>1 DEF PaneInv, PaneHolds, IsPane
  <2>2. CASE pane' = LoadFails(pane) /\ failed' = TRUE
    <3>1. DOMAIN pane' = PaneFields
      BY <1>1, <2>2 DEF LoadFails
    <3> QED
      BY <2>2, <3>1 DEF PaneInv, PaneHolds
  <2> QED
    BY <2>1, <2>2 DEF Loads
<1>3. StoreHolds' /\ PassesHold' /\ ReadHolds' /\ PlaceHolds'
  BY DEF PaneInv, StoreHolds, PassesHold, ReadHolds, SeenIsOpened, ListHolds, PlaceHolds
<1>4. ListIsCache'
  BY DEF ListIsCache
<1> QED
  BY <1>2, <1>3, <1>4 DEF PaneInv, ListHolds

LEMMA NewsKeeps ==
  ASSUME PaneInv, News
  PROVE  PaneInv'
<1>1. CASE OnEvent
  BY <1>1, OnEventKeeps
<1>2. CASE OnFoldersLoaded
  BY <1>2, StillKeeps DEF OnFoldersLoaded, store, cached, screen, history
<1>3. CASE OnSendResult
  <2>1. PICK d \in LocalOf(local, "Drafts") :
          /\ local' = [local EXCEPT ![d] = "sent"]
          /\ IF place.virtual # "" THEN Loads(local', place.virtual) ELSE UNCHANGED <<pane, messages, failed>>
    BY <1>3 DEF OnSendResult
  <2>2. UNCHANGED <<table, given, pass, events, place, detail, opened, asked, missed>>
    BY <1>3 DEF OnSendResult, cached
  <2>3. IsFiniteSet(DOMAIN local') /\ DOMAIN local' \subseteq Local
    BY <2>1 DEF PaneInv, StoreHolds
  <2>4. CASE place.virtual # ""
    BY <2>1, <2>2, <2>3, <2>4, LoadsKeep
  <2>5. CASE place.virtual = ""
    <3>1. ShowsSame(pane, pane') /\ failed' = failed
      BY <2>1, <2>5 DEF ShowsSame
    <3> QED
      BY <2>2, <2>3, <3>1, QuietKeeps
  <2> QED
    BY <2>4, <2>5
<1> QED
  BY <1>1, <1>2, <1>3 DEF News

-----------------------------------------------------------------------------
(* A message opened, or starred. *)

\* A message is marked in the list as it is in the cache.
MarksAlike(id) ==
  /\ DOMAIN table' = DOMAIN table
  /\ \A m \in DOMAIN table \ {id} : table'[m] = table[m]
  /\ DOMAIN pane'.emails = DOMAIN pane.emails
  /\ \A i \in DOMAIN pane.emails : pane.emails[i].id # id => pane'.emails[i] = pane.emails[i]
  /\ id \in DOMAIN table =>
       \A i \in DOMAIN pane.emails : pane.emails[i] = RowOf(table, id) => pane'.emails[i] = RowOf(table', id)

LEMMA MarkedAlike ==
  ASSUME PaneInv, NEW id, UNCHANGED <<events, pass, place, missed>>, MarksAlike(id), IsPane(pane')
  PROVE  ListIsCache'
<1> DEFINE S == Chosen(place, table)
<1>1. Query(place) = RowsIn(table, S) /\ Query(place)' = RowsIn(table', S)
  BY QueryIsRows DEF Chosen, MarksAlike
<1>2. S \subseteq DOMAIN table
  BY DEF Chosen
<1> HIDE DEF S
<1>3. /\ DOMAIN RowsIn(table, S) = DOMAIN ByDate(S)
      /\ \A i \in DOMAIN RowsIn(table, S) : ByDate(S)[i] \in S /\ RowsIn(table, S)[i].id = ByDate(S)[i]
  BY <1>2, RowsAreList DEF PaneInv, StoreHolds
<1>4. (Pending' <=> Pending) /\ (Underway' <=> Underway)
  BY DEF Pending, Underway, Concerns
<1>5. CASE pane.emails = RowsIn(table, S)
  <2>1. ASSUME NEW i \in DOMAIN ByDate(S)
        PROVE  pane'.emails[i] = RowOf(table', ByDate(S)[i])
    <3> DEFINE m == ByDate(S)[i]
    <3>1. m \in DOMAIN table /\ i \in DOMAIN pane.emails /\ pane.emails[i].id = m
      BY <1>2, <1>3, <1>5
    <3>2. pane.emails[i] = RowOf(table, m)
      BY <1>5 DEF RowsIn
    <3> HIDE DEF m
    <3>3. CASE m = id
      BY <3>1, <3>2, <3>3 DEF m, MarksAlike
    <3>4. CASE m # id
      <4>1. pane'.emails[i] = pane.emails[i] /\ table'[m] = table[m]
        BY <3>1, <3>4 DEF MarksAlike
      <4> QED
        BY <4>1, <3>2 DEF RowOf, m
    <3> QED
      BY <3>3, <3>4 DEF m
  <2>2. DOMAIN pane'.emails = DOMAIN ByDate(S)
    BY <1>3, <1>5 DEF MarksAlike
  <2>3. pane'.emails = [i \in DOMAIN pane'.emails |-> pane'.emails[i]]
    BY DEF IsPane, IsList
  <2>4. pane'.emails = RowsIn(table', S)
    BY <2>1, <2>2, <2>3 DEF RowsIn
  <2> QED
    BY <2>4, <1>1 DEF ListIsCache
<1>6. CASE pane.emails # RowsIn(table, S)
  BY <1>1, <1>4, <1>6 DEF PaneInv, ListHolds, ListIsCache
<1> QED
  BY <1>5, <1>6

\* Opening a message: read in the cache and in the list.
LEMMA OpenKeeps ==
  ASSUME PaneInv, NEW p, ShowsSame(pane, p), NEW id,
         UNCHANGED <<given, pass, local, events, place, asked, missed, failed>>,
         id \in DOMAIN table, ~detail.due,
         table' = [table EXCEPT ![id].unread = FALSE],
         pane' = OnMessage(Seen(p, id), id),
         DOMAIN detail' = {"id", "open", "found", "due"}, detail'.id = id, detail'.due = TRUE,
         opened' = opened \cup {id}
  PROVE  PaneInv'
<1>5. StoreHolds' /\ PassesHold'
  <2>1. IsTable(table')
    BY TableMarks DEF PaneInv, StoreHolds
  <2>2. DOMAIN table' = DOMAIN table
    OBVIOUS
  <2> QED
    BY <2>1, <2>2 DEF PaneInv, StoreHolds, PassesHold
<1>6. ReadHolds'
  <2>1. DOMAIN table' = DOMAIN table
    OBVIOUS
  <2> QED
    BY <2>1 DEF PaneInv, ReadHolds, SeenIsOpened
<1>7. PlaceHolds'
  BY DEF PaneInv, ListHolds, PlaceHolds
<1>f. CASE failed
  <2>1. DOMAIN p = PaneFields
    BY DEF PaneInv, PaneHolds, ShowsSame
  <2>2. DOMAIN Seen(p, id) = PaneFields
    BY <2>1 DEF Seen
  <2>3. DOMAIN pane' = PaneFields
    BY <2>2, OnMessageShowsSame DEF ShowsSame
  <2>4. PaneHolds'
    BY <1>f, <2>3 DEF PaneInv, PaneHolds
  <2>5. ListIsCache'
    BY <1>f DEF PaneInv, PaneHolds, ListIsCache
  <2> QED
    BY <1>5, <1>6, <1>7, <2>4, <2>5 DEF PaneInv, ListHolds
<1> SUFFICES ASSUME ~failed PROVE PaneInv'
  BY <1>f
<1>1. IsPane(p) /\ p.emails = pane.emails
  BY SameIsPane DEF PaneInv, PaneHolds, ShowsSame
<1>2. /\ IsPane(Seen(p, id))
      /\ Seen(p, id).emails =
           [i \in DOMAIN pane.emails |->
              IF pane.emails[i].id = id THEN [pane.emails[i] EXCEPT !.unread = FALSE] ELSE pane.emails[i]]
  BY <1>1, SeenShows
<1>3. ShowsSame(Seen(p, id), pane')
  BY <1>2, OnMessageShowsSame DEF IsPane
<1>4. IsPane(pane') /\ PaneHolds'
  BY <1>2, <1>3, SameIsPane DEF PaneInv, PaneHolds, IsPane
<1>8. pane'.emails =
        [i \in DOMAIN pane.emails |->
           IF pane.emails[i].id = id THEN [pane.emails[i] EXCEPT !.unread = FALSE] ELSE pane.emails[i]]
  BY <1>2, <1>3 DEF ShowsSame
<1>9. DOMAIN table' = DOMAIN table /\ \A m \in DOMAIN table \ {id} : table'[m] = table[m]
  OBVIOUS
<1>10. \A i \in DOMAIN pane.emails : pane.emails[i] = RowOf(table, id) => pane'.emails[i] = RowOf(table', id)
  <2>1. table'[id] = [table[id] EXCEPT !.unread = FALSE] /\ table[id] \in [unread: BOOLEAN, flagged: BOOLEAN]
    BY DEF PaneInv, StoreHolds, IsTable
  <2>2. table'[id].unread = FALSE /\ table'[id].flagged = table[id].flagged
    BY <2>1
  <2> SUFFICES ASSUME NEW i \in DOMAIN pane.emails, pane.emails[i] = RowOf(table, id)
               PROVE  pane'.emails[i] = RowOf(table', id)
    OBVIOUS
  <2>3. pane.emails[i].id = id
    BY DEF RowOf
  <2>4. pane'.emails[i] = [pane.emails[i] EXCEPT !.unread = FALSE]
    BY <1>8, <2>3
  <2>5. pane.emails[i] = [id |-> id, unread |-> table[id].unread, flagged |-> table[id].flagged]
    BY DEF RowOf
  <2>6. pane'.emails[i] = [id |-> id, unread |-> FALSE, flagged |-> table[id].flagged]
    <3> DEFINE u == table[id].unread
               f == table[id].flagged
               r == [id |-> id, unread |-> u, flagged |-> f]
    <3>1. pane.emails[i] = r
      BY <2>5
    <3>2. [r EXCEPT !.unread = FALSE] = [id |-> id, unread |-> FALSE, flagged |-> f]
      <4> HIDE DEF u, f
      <4> SUFFICES ASSUME NEW no \in BOOLEAN, no = FALSE
                   PROVE  [r EXCEPT !.unread = no] = [id |-> id, unread |-> no, flagged |-> f]
        OBVIOUS
      <4> QED
        OBVIOUS
    <3> HIDE DEF r
    <3>3. pane'.emails[i] = [r EXCEPT !.unread = FALSE]
      BY <3>1, <2>4
    <3> QED
      BY <3>2, <3>3
  <2> QED
    BY <2>2, <2>6 DEF RowOf
<1>11. ListIsCache'
  <2>1. MarksAlike(id)
    BY <1>8, <1>9, <1>10 DEF MarksAlike
  <2> QED
    BY <2>1, <1>4, MarkedAlike
<1> QED
  BY <1>4, <1>5, <1>6, <1>7, <1>11 DEF PaneInv, ListHolds

LEMMA StarKeeps ==
  ASSUME PaneInv, NEW id, NEW on \in BOOLEAN,
         UNCHANGED <<given, pass, local, events, place, detail, asked, opened, missed, failed>>,
         table' = IF id \in DOMAIN table THEN [table EXCEPT ![id].flagged = on] ELSE table,
         pane' = Starred(pane, id, on)
  PROVE  PaneInv'
<1>3. IsTable(table')
  BY TableMarks DEF PaneInv, StoreHolds
<1>4. StoreHolds' /\ PassesHold' /\ ReadHolds' /\ PlaceHolds'
  <2>1. DOMAIN table' = DOMAIN table
    OBVIOUS
  <2> QED
    BY <1>3, <2>1 DEF PaneInv, StoreHolds, PassesHold, ReadHolds, SeenIsOpened, ListHolds, PlaceHolds
<1>f. CASE failed
  <2>1. DOMAIN pane' = PaneFields
    BY DEF Starred, PaneInv, PaneHolds
  <2>2. PaneHolds' /\ ListIsCache'
    BY <1>f, <2>1 DEF PaneInv, PaneHolds, ListIsCache
  <2> QED
    BY <1>4, <2>2 DEF PaneInv, ListHolds
<1> SUFFICES ASSUME ~failed PROVE PaneInv'
  BY <1>f
<1>1. /\ IsPane(pane')
      /\ pane'.emails = [i \in DOMAIN pane.emails |->
           IF pane.emails[i].id = id THEN [pane.emails[i] EXCEPT !.flagged = on] ELSE pane.emails[i]]
  <2>1. IsPane(pane)
    BY DEF PaneInv, PaneHolds
  <2>2. /\ IsPane(Starred(pane, id, on))
        /\ Starred(pane, id, on).emails = [i \in DOMAIN pane.emails |->
             IF pane.emails[i].id = id THEN [pane.emails[i] EXCEPT !.flagged = on] ELSE pane.emails[i]]
    BY <2>1, StarredShows
  <2> QED
    BY <2>2
<1>2. PaneHolds'
  BY <1>1 DEF PaneInv, PaneHolds, IsPane
<1>5. DOMAIN table' = DOMAIN table /\ \A m \in DOMAIN table \ {id} : table'[m] = table[m]
  OBVIOUS
<1>6. ASSUME id \in DOMAIN table, NEW i \in DOMAIN pane.emails, pane.emails[i] = RowOf(table, id)
      PROVE  pane'.emails[i] = RowOf(table', id)
  <2> DEFINE u == table[id].unread
             f == table[id].flagged
             r == [id |-> id, unread |-> u, flagged |-> f]
  <2>1. table'[id].unread = u /\ table'[id].flagged = on
    <3>1. table[id] \in [unread: BOOLEAN, flagged: BOOLEAN] /\ table'[id] = [table[id] EXCEPT !.flagged = on]
      BY <1>6 DEF PaneInv, StoreHolds, IsTable
    <3> QED
      BY <3>1
  <2>2. pane.emails[i] = r
    BY <1>6 DEF RowOf
  <2>3. pane'.emails[i] = [r EXCEPT !.flagged = on]
    BY <1>1, <2>2
  <2>4. [r EXCEPT !.flagged = on] = [id |-> id, unread |-> u, flagged |-> on]
    <3> HIDE DEF u, f
    <3> QED
      OBVIOUS
  <2> HIDE DEF r, u, f
  <2>5. RowOf(table', id) = [id |-> id, unread |-> u, flagged |-> on]
    BY <2>1 DEF RowOf
  <2> QED
    BY <2>3, <2>4, <2>5
<1>7. MarksAlike(id)
  BY <1>1, <1>5, <1>6 DEF MarksAlike
<1>8. ListIsCache'
  BY <1>1, <1>7, MarkedAlike
<1> QED
  BY <1>2, <1>4, <1>8 DEF PaneInv, ListHolds

LEMMA FolderSelectKeeps ==
  ASSUME PaneInv, SelectFolder
  PROVE  PaneInv'
<1>1. UNCHANGED <<table, given, pass, local, events, detail, opened, asked>>
  BY DEF SelectFolder, store, cached
<1>3. DOMAIN pane = PaneFields /\ DOMAIN place = {"box", "global", "virtual"}
  BY DEF PaneInv, PaneHolds, ListHolds, PlaceHolds
<1> DEFINE row == tree.rows[tree.sel]
<1>4. CASE row[1] = "virtual"
  <2>1. PICK folder \in {"Drafts", "Sent"} :
          /\ place' = [place EXCEPT !.virtual = folder, !.global = FALSE]
          /\ Loads(local, folder)
          /\ missed' = missed
    BY <1>4 DEF SelectFolder
  <2>2. DOMAIN place' = DOMAIN place /\ place'.virtual # ""
    BY <2>1, <1>3
  <2>3. IsFiniteSet(DOMAIN local') /\ DOMAIN local' \subseteq Local /\ local' = local
    BY <1>1 DEF PaneInv, StoreHolds
  <2> QED
    BY <1>1, <2>1, <2>2, <2>3, LoadsKeep
<1>5. CASE row[1] # "virtual"
  <2> DEFINE box == IF row[1] = "global" THEN place.box ELSE <<row[2], row[3]>>
  <2>1. /\ place' = [box |-> box, global |-> row[1] = "global", virtual |-> ""]
        /\ pane' = [Refreshed(pane, Query(place')) EXCEPT !.sel = 1]
        /\ missed' = FALSE /\ failed' = FALSE
    BY <1>5 DEF SelectFolder
  <2>2. DOMAIN place' = {"box", "global", "virtual"}
    BY <2>1
  <2>3. Query(place') = Query(place)'
    BY <1>1, QueryIsRows
  <2>6. /\ DOMAIN Refreshed(pane, Query(place')) = PaneFields
        /\ Refreshed(pane, Query(place')).emails = Query(place')
        /\ Refreshed(pane, Query(place')).threads = BuildThreads(Query(place'))
    BY <1>3, RefreshedShows
  <2>7. /\ DOMAIN pane' = PaneFields
        /\ pane'.emails = Query(place')
        /\ pane'.threads = BuildThreads(Query(place'))
    BY <2>1, <2>6 DEF PaneFields
  <2>8. /\ DOMAIN pane' = PaneFields
        /\ pane'.emails = Query(place)'
        /\ pane'.threads = BuildThreads(pane'.emails)
    BY <2>3, <2>7
  <2>9. PlaceHolds'
    BY <1>1, <2>2 DEF PaneInv, ListHolds, PlaceHolds
  <2>10. ~failed' /\ failed' \in BOOLEAN /\ missed' \in BOOLEAN
    BY <2>1
  <2> QED
    BY <1>1, <2>8, <2>9, <2>10, ReadsKeeps
<1> QED
  BY <1>4, <1>5

-----------------------------------------------------------------------------
(* The keys. *)

LEMMA MovedKeeps ==
  ASSUME PaneInv, NEW p, Moved(p), ShowsSame(pane, p)
  PROVE  PaneInv'
<1>1. UNCHANGED <<table, given, pass, local, events, place, detail, asked, opened, missed, failed>> /\ pane' = p
  BY DEF Moved, store, cached, history
<1> QED
  BY <1>1, CursorKeeps

LEMMA CursorKeysKeep ==
  ASSUME PaneInv, MoveUp \/ MoveDown \/ GoHome \/ GoEnd \/ NextThread \/ PrevThread
  PROVE  PaneInv'
<1>1. DOMAIN pane = PaneFields
  BY DEF PaneInv, PaneHolds
<1>2. \A s : ShowsSame(pane, [pane EXCEPT !.sel = s])
  BY <1>1 DEF ShowsSame, PaneFields
<1>3. CASE MoveUp
  BY <1>2, <1>3, MovedKeeps DEF MoveUp
<1>4. CASE MoveDown
  BY <1>2, <1>4, MovedKeeps DEF MoveDown
<1>5. CASE GoHome
  BY <1>2, <1>5, MovedKeeps DEF GoHome
<1>6. CASE GoEnd
  BY <1>2, <1>6, MovedKeeps DEF GoEnd
<1>7. CASE NextThread
  <2> DEFINE S == {r \in Summaries : r > pane.sel}
  <2>1. ShowsSame(pane, MoveTo(pane, S))
    BY <1>1, MoveToShowsSame
  <2> QED
    BY <1>7, <2>1, MovedKeeps DEF NextThread
<1>8. CASE PrevThread
  <2> DEFINE before == {r \in Summaries : r < pane.sel}
             p == IF before = {} THEN pane
                  ELSE [pane EXCEPT !.sel = CHOOSE r \in before : \A s \in before : s <= r]
  <2>1. ShowsSame(pane, p)
    BY <1>1 DEF ShowsSame, PaneFields
  <2>2. Moved(p)
    BY <1>8 DEF PrevThread
  <2> QED
    BY <2>1, <2>2, MovedKeeps
<1> QED
  BY <1>3, <1>4, <1>5, <1>6, <1>7, <1>8

LEMMA ToggleKeysKeep ==
  ASSUME PaneInv, ToggleExpand \/ ToggleThreadMode
  PROVE  PaneInv'
<1>1. DOMAIN pane = PaneFields
  BY DEF PaneInv, PaneHolds
<1>2. UNCHANGED <<table, given, pass, local, events, place, detail, asked, opened, missed, failed>>
  BY DEF ToggleExpand, ToggleThreadMode, store, cached, history
<1>3. CASE ToggleExpand
  <2> DEFINE row == Rows(pane)[pane.sel]
             thread == pane.threads[row[1]]
             p == [pane EXCEPT !.expanded = IF thread.id \in @ THEN @ \ {thread.id} ELSE @ \cup {thread.id}]
             S == {r \in DOMAIN Rows(p) : Rows(p)[r] = row}
  <2>1. pane' = IF row[2] = 0 THEN MoveTo(p, S) ELSE p
    BY <1>3 DEF ToggleExpand
  <2>2. ShowsSame(pane, p)
    BY <1>1 DEF ShowsSame, PaneFields
  <2> HIDE DEF p, S
  <2>3. ShowsSame(p, MoveTo(p, S))
    BY <1>1, <2>2, MoveToShowsSame DEF ShowsSame
  <2>4. ShowsSame(pane, pane')
    BY <2>1, <2>2, <2>3 DEF ShowsSame
  <2> QED
    BY <1>2, <2>4, CursorKeeps
<1>4. CASE ToggleThreadMode
  <2> DEFINE p == [pane EXCEPT !.threaded = ~@]
             S == RowsOf(p, SelectedEmail)
             put == IF SelectedEmail = NoId THEN p ELSE MoveTo(p, S)
  <2>1. pane' = Clamped(put)
    BY <1>4 DEF ToggleThreadMode
  <2>2. ShowsSame(pane, p)
    BY <1>1 DEF ShowsSame, PaneFields
  <2> HIDE DEF p, S
  <2>3. ShowsSame(p, put)
    BY <1>1, <2>2, MoveToShowsSame DEF ShowsSame
  <2> HIDE DEF put
  <2>4. ShowsSame(put, pane')
    BY <1>1, <2>1, <2>2, <2>3, ClampedShowsSame DEF ShowsSame
  <2>5. ShowsSame(pane, pane')
    BY <2>2, <2>3, <2>4 DEF ShowsSame
  <2> QED
    BY <1>2, <2>5, CursorKeeps
<1> QED
  BY <1>3, <1>4

\* A message that is not in the cache: the one opened before is to be marked again.
LEMMA RemarkKeeps ==
  ASSUME PaneInv, UNCHANGED <<table, given, pass, local, events, place, opened, asked, missed, failed>>,
         ShowsSame(pane, pane'), ~detail.due,
         DOMAIN detail' = DOMAIN detail, detail'.id = detail.id, detail'.due = TRUE
  PROVE  PaneInv'
<1>1. StoreHolds' /\ PassesHold' /\ ReadHolds' /\ PlaceHolds'
  BY DEF PaneInv, StoreHolds, PassesHold, ReadHolds, SeenIsOpened, ListHolds, PlaceHolds
<1>2. PaneHolds'
  BY SameIsPane DEF PaneInv, PaneHolds, ShowsSame
<1>3. Query(place)' = Query(place)
  BY QueryIsRows
<1>4. (Pending' <=> Pending) /\ (Underway' <=> Underway)
  BY DEF Pending, Underway, Concerns
<1>5. ListIsCache'
  BY <1>3, <1>4 DEF PaneInv, ListHolds, ListIsCache, ShowsSame
<1> QED
  BY <1>1, <1>2, <1>5 DEF PaneInv, ListHolds

\* The message opened is marked, if its row is still there.
LEMMA MarkKeeps ==
  ASSUME PaneInv, MarkOpened
  PROVE  PaneInv'
<1>1. /\ detail.due /\ asked' = asked \cup ({detail.id} \cap DOMAIN table)
      /\ detail' = [detail EXCEPT !.due = FALSE]
      /\ UNCHANGED <<table, given, pass, local, events, pane, place, opened, missed, failed>>
  BY DEF MarkOpened, store, cached
<1>2. StoreHolds' /\ PassesHold' /\ PaneHolds' /\ PlaceHolds'
  BY <1>1 DEF PaneInv, StoreHolds, PassesHold, PaneHolds, ListHolds, PlaceHolds
<1>3. NoId \notin DOMAIN table
  BY DEF PaneInv, StoreHolds, IsTable, Mail, NoId
<1>4. DOMAIN detail' = DOMAIN detail /\ detail'.id = detail.id /\ detail'.due = FALSE
  BY <1>1 DEF PaneInv, ReadHolds
<1>5. ReadHolds'
  BY <1>1, <1>3, <1>4 DEF PaneInv, ReadHolds, SeenIsOpened
<1>6. Query(place)' = Query(place)
  BY <1>1, QueryIsRows
<1>7. (Pending' <=> Pending) /\ (Underway' <=> Underway)
  BY <1>1 DEF Pending, Underway, Concerns
<1>8. ListIsCache'
  BY <1>1, <1>6, <1>7 DEF PaneInv, ListHolds, ListIsCache
<1> QED
  BY <1>2, <1>5, <1>8 DEF PaneInv, ListHolds

LEMMA OpenByIdKeeps ==
  ASSUME PaneInv, UNCHANGED <<given, pass, local, events, place, asked, missed, failed>>, ~detail.due,
         NEW p, ShowsSame(pane, p), NEW id, OpenById(p, id)
  PROVE  PaneInv'
<1>1. CASE id \in DOMAIN table
  <2>1. /\ table' = [table EXCEPT ![id].unread = FALSE]
        /\ pane' = OnMessage(Seen(p, id), id)
        /\ detail' = [detail EXCEPT !.id = id, !.open = TRUE, !.due = TRUE]
        /\ opened' = opened \cup {id}
    BY <1>1 DEF OpenById
  <2>2. DOMAIN detail' = {"id", "open", "found", "due"} /\ detail'.id = id /\ detail'.due = TRUE
    BY <2>1 DEF PaneInv, ReadHolds
  <2> QED
    BY <1>1, <2>1, <2>2, OpenKeeps
<1>2. CASE id \notin DOMAIN table
  <2>1. pane' = p /\ detail' = [detail EXCEPT !.due = TRUE] /\ UNCHANGED <<table, opened>>
    BY <1>2 DEF OpenById
  <2>2. DOMAIN detail' = DOMAIN detail /\ detail'.id = detail.id /\ detail'.due = TRUE
    BY <2>1 DEF PaneInv, ReadHolds
  <2> QED
    BY <2>1, <2>2, RemarkKeeps
<1> QED
  BY <1>1, <1>2

LEMMA OpenKeysKeep ==
  ASSUME PaneInv, ~detail.due, OpenDetail \/ CloseDetail \/ StepInList \/ StepInThread
  PROVE  PaneInv'
<1>1. DOMAIN pane = PaneFields /\ DOMAIN detail = {"id", "open", "found", "due"}
  BY DEF PaneInv, PaneHolds, ReadHolds
<1>2. ShowsSame(pane, pane) /\ \A s : ShowsSame(pane, [pane EXCEPT !.sel = s])
  BY <1>1 DEF ShowsSame, PaneFields
<1>3. CASE OpenDetail
  <2> DEFINE id == IF In("Search") THEN search.results[search.sel].id ELSE SelectedEmail
             opens == id \in DOMAIN table
  <2>1. /\ UNCHANGED <<given, pass, local, events, place, asked, missed, failed>>
        /\ detail' = [id |-> IF opens THEN id ELSE detail.id, open |-> opens \/ detail.open,
                      found |-> In("Search"), due |-> TRUE]
        /\ table' = IF opens THEN [table EXCEPT ![id].unread = FALSE] ELSE table
        /\ pane' = IF opens THEN OnMessage(Seen(pane, id), id) ELSE pane
        /\ opened' = IF opens THEN opened \cup {id} ELSE opened
    BY <1>3 DEF OpenDetail
  <2>2. /\ DOMAIN detail' = {"id", "open", "found", "due"} /\ detail'.due = TRUE
        /\ detail'.id = IF opens THEN id ELSE detail.id
    BY <2>1
  <2> HIDE DEF id
  <2>3. CASE opens
    BY <1>2, <2>1, <2>2, <2>3, OpenKeeps
  <2>4. CASE ~opens
    BY <1>1, <1>2, <2>1, <2>2, <2>4, RemarkKeeps
  <2> QED
    BY <2>3, <2>4
<1>4. CASE CloseDetail
  <2>1. /\ UNCHANGED <<table, given, pass, local, events, place, pane, asked, opened, missed, failed>>
        /\ detail' = [detail EXCEPT !.open = FALSE, !.found = FALSE]
    BY <1>4 DEF CloseDetail, store, cached, history
  <2>2. DOMAIN detail' = DOMAIN detail /\ detail'.id = detail.id /\ detail'.due = detail.due
    BY <2>1, <1>1
  <2> QED
    BY <1>2, <2>1, <2>2, QuietKeeps DEF PaneInv, StoreHolds
<1>5. CASE StepInList
  <2>1. UNCHANGED <<given, pass, local, events, place, asked, missed, failed>>
    BY <1>5 DEF StepInList
  <2>2. PICK s \in {pane.sel - 1, pane.sel + 1} :
          LET p == [pane EXCEPT !.sel = s] IN OpenById(p, SelectedIn(p))
    BY <1>5 DEF StepInList
  <2> DEFINE p == [pane EXCEPT !.sel = s]
  <2>3. ShowsSame(pane, p) /\ OpenById(p, SelectedIn(p))
    BY <1>2, <2>2
  <2> HIDE DEF p
  <2> QED
    BY <2>1, <2>3, OpenByIdKeeps
<1>6. CASE StepInThread
  <2>1. UNCHANGED <<given, pass, local, events, place, asked, missed, failed>>
    BY <1>6 DEF StepInThread
  <2>2. \E id : OpenById(pane, id)
    BY <1>6, Zenon DEF StepInThread
  <2> QED
    BY <1>2, <2>1, <2>2, OpenByIdKeeps
<1> QED
  BY <1>3, <1>4, <1>5, <1>6

LEMMA ToggleStarKeeps ==
  ASSUME PaneInv, ToggleStar
  PROVE  PaneInv'
<1> DEFINE id == IF In("Detail") THEN detail.id ELSE SelectedEmail
           copies == pane.emails \o search.results
           at == {i \in DOMAIN copies : copies[i].id = id}
           on == ~copies[First(at)].flagged
<1>1. /\ UNCHANGED <<given, pass, local, events, place, detail, asked, opened, missed, failed>>
      /\ table' = IF id \in DOMAIN table THEN [table EXCEPT ![id].flagged = on] ELSE table
      /\ pane' = Starred(pane, id, on)
  BY DEF ToggleStar, history
<1>2. on \in BOOLEAN
  OBVIOUS
<1> HIDE DEF on, id
<1> QED
  BY <1>1, <1>2, StarKeeps

LEMMA OtherKeysKeep ==
  ASSUME PaneInv,
         \/ EnterSearch \/ ExecuteSearch \/ SearchInput \/ SearchMove \/ ExitSearch
         \/ EnterFolderSelect \/ LeaveFolderSelect \/ FolderMove \/ ToggleAccount
         \/ ResumeDraft \/ ComposeNew \/ CancelCompose
  PROVE  PaneInv'
<1>1. UNCHANGED <<table, given, pass, local, events, place, pane, detail, asked, opened, missed, failed>>
  BY DEF EnterSearch, ExecuteSearch, SearchInput, SearchMove, ExitSearch, EnterFolderSelect,
         LeaveFolderSelect, FolderMove, ToggleAccount, ResumeDraft, ComposeNew, CancelCompose,
         store, cached, screen, history
<1> QED
  BY <1>1, StillKeeps

LEMMA DraftKeysKeep ==
  ASSUME PaneInv, SaveDraft \/ DeleteDraft
  PROVE  PaneInv'
<1>1. IsFiniteSet(DOMAIN local) /\ DOMAIN local \subseteq Local
  BY DEF PaneInv, StoreHolds
<1>2. CASE SaveDraft
  <2>1. PICK d \in Local \ DOMAIN local :
          local' = [n \in DOMAIN local \cup {d} |-> IF n = d THEN "draft" ELSE local[n]]
    BY <1>2 DEF SaveDraft
  <2>2. UNCHANGED <<table, given, pass, events, place, pane, detail, asked, opened, missed, failed>>
    BY <1>2 DEF SaveDraft, cached, screen, history
  <2>3. DOMAIN local' = DOMAIN local \cup {d}
    BY <2>1
  <2>4. IsFiniteSet(DOMAIN local') /\ DOMAIN local' \subseteq Local
    BY <1>1, <2>3, FS_AddElement
  <2>5. ShowsSame(pane, pane')
    BY <2>2 DEF ShowsSame
  <2> QED
    BY <2>2, <2>4, <2>5, QuietKeeps
<1>3. CASE DeleteDraft
  <2> DEFINE d == messages[pane.sel]
  <2>1. /\ local' = IF d \in LocalOf(local, "Drafts")
                    THEN [n \in DOMAIN local \ {d} |-> local[n]] ELSE local
        /\ Loads(local', "Drafts")
        /\ place.virtual = "Drafts"
        /\ UNCHANGED <<table, given, pass, events, place, detail, asked, opened, missed>>
    BY <1>3 DEF DeleteDraft, cached
  <2> HIDE DEF d
  <2>2. IsFiniteSet(DOMAIN local') /\ DOMAIN local' \subseteq Local
    <3>1. DOMAIN local' = DOMAIN local \/ DOMAIN local' = DOMAIN local \ {d}
      BY <2>1
    <3> QED
      BY <1>1, <3>1, FS_RemoveElement
  <2>3. place'.virtual # "" /\ DOMAIN place' = DOMAIN place
    BY <2>1
  <2> QED
    BY <2>1, <2>2, <2>3, LoadsKeep
<1> QED
  BY <1>2, <1>3

\* jamail is started again: the list is read.
LEMMA StartsKeeps ==
  ASSUME PaneInv, ~detail.due, Starts
  PROVE  PaneInv'
<1>1. /\ UNCHANGED <<table, given, pass, local, opened, asked>>
      /\ events' = <<>> /\ missed' = FALSE /\ failed' = FALSE /\ detail' = NoDetail
      /\ place' = [box |-> <<1, Inbox>>, global |-> FALSE, virtual |-> ""]
      /\ pane' = FirstPane
  BY DEF Starts, store, cached
<1> DEFINE pl == [box |-> <<1, Inbox>>, global |-> FALSE, virtual |-> ""]
           emails == Query(pl)
<1>3. DOMAIN pane' = PaneFields /\ pane'.emails = emails /\ pane'.threads = BuildThreads(emails)
  <2>1. FirstPane = [emails |-> emails, threads |-> BuildThreads(emails), expanded |-> {},
                     threaded |-> TRUE, sel |-> 1]
    BY DEF FirstPane
  <2> HIDE DEF emails
  <2> QED
    BY <1>1, <2>1 DEF PaneFields
<1>2. Query(place)' = emails
  <2>1. place' = pl /\ table' = table
    BY <1>1
  <2> HIDE DEF pl
  <2>2. Query(pl) = RowsIn(table, Chosen(pl, table))
    BY QueryIsRowsOf
  <2>3. Query(place)' = RowsIn(table', Chosen(place', table'))
    BY QueryIsRows
  <2> QED
    BY <2>1, <2>2, <2>3
<1>6. pane'.emails = Query(place)' /\ pane'.threads = BuildThreads(pane'.emails)
  <2> HIDE DEF emails
  <2> QED
    BY <1>2, <1>3
<1> HIDE DEF pl, emails
<1>4. PlaceHolds'
  <2>1. DOMAIN place' = {"box", "global", "virtual"} /\ events' = <<>>
    BY <1>1
  <2> QED
    BY <2>1 DEF PlaceHolds
<1>5. DOMAIN detail' = DOMAIN detail /\ detail'.due = detail.due /\ detail'.id = NoId
  BY <1>1 DEF NoDetail, PaneInv, ReadHolds
<1> QED
  BY <1>1, <1>3, <1>4, <1>5, <1>6, ReadsKeeps

LEMMA KeysKeep ==
  ASSUME PaneInv, ~detail.due, Keys
  PROVE  PaneInv'
<1>1. CASE MoveUp \/ MoveDown \/ GoHome \/ GoEnd \/ NextThread \/ PrevThread
  BY <1>1, CursorKeysKeep
<1>2. CASE ToggleExpand \/ ToggleThreadMode
  BY <1>2, ToggleKeysKeep
<1>3. CASE OpenDetail \/ CloseDetail \/ StepInList \/ StepInThread
  BY <1>3, OpenKeysKeep
<1>4. CASE ToggleStar
  BY <1>4, ToggleStarKeeps
<1>5. CASE \/ EnterSearch \/ ExecuteSearch \/ SearchInput \/ SearchMove \/ ExitSearch
           \/ EnterFolderSelect \/ LeaveFolderSelect \/ FolderMove \/ ToggleAccount
           \/ ResumeDraft \/ ComposeNew \/ CancelCompose
  BY <1>5, OtherKeysKeep
<1>6. CASE SaveDraft \/ DeleteDraft
  BY <1>6, DraftKeysKeep
<1>7. CASE SelectFolder
  BY <1>7, FolderSelectKeeps
<1> QED
  BY <1>1, <1>2, <1>3, <1>4, <1>5, <1>6, <1>7 DEF Keys

LEMMA PaneInvStarts ==
  MailInit => PaneInv
<1> SUFFICES ASSUME MailInit PROVE PaneInv
  OBVIOUS
<1>1. IsTable(table)
  <2>1. table = [m \in AtFirst |-> [unread |-> TRUE, flagged |-> FALSE]]
    BY DEF MailInit
  <2> DEFINE fresh == [unread |-> TRUE, flagged |-> FALSE]
  <2>2. fresh \in [unread: BOOLEAN, flagged: BOOLEAN]
    OBVIOUS
  <2> HIDE DEF fresh
  <2>3. DOMAIN table = AtFirst /\ \A m \in AtFirst : table[m] = fresh
    BY <2>1 DEF fresh
  <2> QED
    BY <2>2, <2>3, MailAppAssumption DEF IsTable
<1>2. StoreHolds
  BY <1>1, MailAppAssumption DEF StoreHolds, MailInit
<1>3. ReadHolds
  BY DEF ReadHolds, SeenIsOpened, MailInit, NoDetail
<1>4. PlaceHolds
  <2>1. DOMAIN place = {"box", "global", "virtual"} /\ events = <<>>
    BY DEF MailInit
  <2> QED
    BY <2>1 DEF PlaceHolds
<1>5. pane.emails = Query(place) /\ pane.threads = BuildThreads(Query(place)) /\ DOMAIN pane = PaneFields
  BY DEF MailInit, FirstPane, PaneFields
<1>6. IsList(Query(place))
  <2>1. Chosen(place, table) \subseteq DOMAIN table
    BY DEF Chosen
  <2> QED
    BY <1>1, <2>1, QueryIsRows, RowsAreList
<1>7. PaneHolds
  BY <1>5, <1>6 DEF PaneHolds, IsPane, MailInit
<1>8. PassesHold
  <2>1. \A a \in Account : IsPass(NoPass, a, given)
    BY IdleIsPass DEF Boxes
  <2> QED
    BY <2>1 DEF PassesHold, MailInit
<1> QED
  BY <1>2, <1>3, <1>4, <1>5, <1>7, <1>8 DEF PaneInv, ListHolds, ListIsCache

\* What the mail screen shows is true while jamaild changes the cache: once the
\* passes that changed its folder are over and what they told is handled, the list
\* is the list of the cached, but for what no event tells; the conversations and
\* their counts are those of the list, once it could be read; and what jamaild is
\* asked to mark as seen is what was opened (app.rs, bin/jamail.rs). However
\* many messages, folders, passes and keys there are.
THEOREM MailScreenStaysTrue == MailSpec => []ScreenIsTrue
<1>1. MailInit => PaneInv
  BY PaneInvStarts
<1>2. PaneInv /\ [MailNext]_mailVars => PaneInv'
  <2> SUFFICES ASSUME PaneInv, [MailNext]_mailVars PROVE PaneInv'
    OBVIOUS
  <2>1. CASE UNCHANGED mailVars
    BY <2>1, StillKeeps DEF mailVars, store, cached, screen, history
  <2>2. CASE Panics
    BY <2>2, StillKeeps DEF Panics, store, cached, history
  <2>3. CASE MailNext /\ ~Panics
    BY <2>3, DaemonKeeps, MarkKeeps, StartsKeeps, NewsKeeps, KeysKeep DEF MailNext
  <2> QED
    BY <2>1, <2>2, <2>3
<1>3. PaneInv => ScreenIsTrue
  BY DEF PaneInv, PaneHolds, IsPane, ReadHolds, ListHolds, ScreenIsTrue, ThreadsAgree, SeenIsOpened
<1> QED
  BY <1>1, <1>2, <1>3, PTL DEF MailSpec
=============================================================================
