----------------------------- MODULE MailThreads -----------------------------
(***************************************************************************)
(* thread.rs: how jamail groups the messages of a list into conversations. *)
(* A message is an id; its headers, subject and date are constant. Dates   *)
(* are days, no two messages have the same one.                            *)
(***************************************************************************)
EXTENDS Integers, Sequences, FiniteSets, SequencesExt

CONSTANTS
  Email,      \* ids: rows of the cache are positive, local messages negative
  MessageId,  \* [Email -> Nat] NoHeader: none
  InReplyTo,  \* [Email -> Nat]
  References, \* [Email -> Seq(Nat)]
  Subject,    \* [Email -> Nat] what normalize_subject leaves of it
  LongSubject,\* the subjects of ten characters or more
  Date        \* [Email -> Nat]

NoHeader == 0
Window == 90

ASSUME MailThreadsAssumption ==
  /\ Email \subseteq Int \ {0}
  /\ MessageId \in [Email -> Nat] /\ InReplyTo \in [Email -> Nat]
  /\ \A m \in Email : References[m] \in Seq(Nat \ {NoHeader})
  /\ Date \in [Email -> Nat] /\ \A m, n \in Email : Date[m] = Date[n] => m = n

-----------------------------------------------------------------------------
(* UnionFind: path compression leaves every root where it is. *)

Alone(n) == [parent |-> [i \in 1 .. n |-> i], rank |-> [i \in 1 .. n |-> 0]]

Find(uf, x) ==
  LET up[k \in 0 .. Len(uf.parent)] == IF k = 0 THEN x ELSE uf.parent[up[k - 1]]
  IN up[Len(uf.parent)]

Union(uf, a, b) ==
  LET ra == Find(uf, a)
      rb == Find(uf, b)
  IN IF ra = rb THEN uf
     ELSE IF uf.rank[ra] < uf.rank[rb] THEN [uf EXCEPT !.parent[ra] = rb]
     ELSE [uf EXCEPT !.parent[rb] = ra,
                     !.rank[ra] = IF uf.rank[ra] = uf.rank[rb] THEN @ + 1 ELSE @]

UnionAll(uf, pairs) ==
  LET joined[k \in 0 .. Len(pairs)] ==
        IF k = 0 THEN uf ELSE LET u == joined[k - 1] IN Union(u, pairs[k][1], pairs[k][2])
  IN joined[Len(pairs)]

-----------------------------------------------------------------------------
(* build_threads, of a list of ids, newest first *)

HasHeaders(m) == InReplyTo[m] # NoHeader \/ References[m] # <<>>

\* The place of the message with this Message-ID, the last one if there are several.
Place(list, header) ==
  LET at == {i \in DOMAIN list : MessageId[list[i]] = header /\ header # NoHeader}
  IN IF at = {} THEN 0 ELSE CHOOSE i \in at : \A j \in at : j <= i

\* What the headers of the message at place i ask to be put together.
HeaderPairs(list, i) ==
  LET m == list[i]
      refs == References[m]
      cited == <<<<i, Place(list, InReplyTo[m])>>>>
                 \o [k \in DOMAIN refs |-> <<i, Place(list, refs[k])>>]
      chain == [k \in 1 .. (Len(refs) - 1) |-> <<Place(list, refs[k]), Place(list, refs[k + 1])>>]
  IN SelectSeq(cited \o (IF refs = <<>> THEN <<>> ELSE chain), LAMBDA p : p[1] # 0 /\ p[2] # 0)

ByHeaders(list) ==
  UnionAll(Alone(Len(list)), FlattenSeq([i \in DOMAIN list |-> HeaderPairs(list, i)]))

\* The message that stands for a subject: the first with headers that has it.
SubjectRoot(list, s) ==
  LET at == {i \in DOMAIN list : HasHeaders(list[i]) /\ Subject[list[i]] = s}
  IN IF at = {} THEN 0 ELSE CHOOSE i \in at : \A j \in at : i <= j

Apart(m, n) == IF Date[m] < Date[n] THEN Date[n] - Date[m] ELSE Date[m] - Date[n]

\* A message without headers joins the conversation that stands for its
\* subject, if the subject is long and the two are near in time.
SubjectPairs(list, i) ==
  LET m == list[i]
      root == SubjectRoot(list, Subject[m])
  IN IF ~HasHeaders(m) /\ Subject[m] \in LongSubject /\ root # 0
          /\ Apart(m, list[root]) <= Window
     THEN <<<<i, root>>>> ELSE <<>>

Merged(list) ==
  UnionAll(ByHeaders(list), FlattenSeq([i \in DOMAIN list |-> SubjectPairs(list, i)]))

\* The members of a set, the one with the latest day first.
NewestFirst(S, day) ==
  [k \in 1 .. Cardinality(S) |-> CHOOSE x \in S : Cardinality({y \in S : day[y] > day[x]}) = k - 1]

\* The conversations of a list, each as places in it: newest message first,
\* and the conversation with the newest message first.
Conversations(list) ==
  LET uf == Merged(list)
      day == [i \in DOMAIN list |-> Date[list[i]]]
      groups == {NewestFirst({j \in DOMAIN list : Find(uf, j) = Find(uf, i)}, day) : i \in DOMAIN list}
  IN NewestFirst(groups, [g \in groups |-> day[g[1]]])

\* The id of a conversation: the Message-ID of its oldest message, or one
\* made of its uid; local messages have uid 0.
ThreadId(list, indices) ==
  LET oldest == list[indices[Len(indices)]]
  IN IF MessageId[oldest] # NoHeader THEN MessageId[oldest]
     ELSE IF oldest < 0 THEN 0 ELSE -oldest

-----------------------------------------------------------------------------
(* The conversations of a list, by their definition. *)

Cites(m, n) ==
  MessageId[n] # NoHeader /\ (InReplyTo[m] = MessageId[n] \/ MessageId[n] \in ToSet(References[m]))

\* A message without headers goes with the newest that has headers and the
\* same long subject, if that one is near.
GoesWith(S, m, n) ==
  /\ ~HasHeaders(m) /\ HasHeaders(n) /\ Subject[m] = Subject[n] /\ Subject[m] \in LongSubject
  /\ \A k \in S : (HasHeaders(k) /\ Subject[k] = Subject[n]) => Date[k] <= Date[n]
  /\ Date[m] - Date[n] \in -Window .. Window

Together(S) ==
  LET link == [p \in S \X S |-> \/ Cites(p[1], p[2]) \/ Cites(p[2], p[1])
                                \/ GoesWith(S, p[1], p[2]) \/ GoesWith(S, p[2], p[1])]
      reach[n \in 0 .. Cardinality(S)] ==
        IF n = 0 THEN [p \in S \X S |-> p[1] = p[2] \/ link[p]]
        ELSE LET step == reach[n - 1]
             IN [p \in S \X S |-> \E k \in S : step[p[1], k] /\ step[k, p[2]]]
      all == reach[Cardinality(S)]
  IN {{n \in S : all[m, n]} : m \in S}

\* The conversations of a list are the classes of messages that cite one
\* another, directly or through others, with the messages without headers put
\* by their subject; each is sorted, and the one heard from last comes first
\* (build_threads).
ConversationsAre(S) ==
  LET list == SetToSortSeq(S, LAMBDA m, n : Date[m] > Date[n])
      groups == Conversations(list)
      members(g) == {list[g[k]] : k \in DOMAIN g}
  IN /\ {members(groups[t]) : t \in DOMAIN groups} = Together(S)
     /\ \A t \in DOMAIN groups : \A k \in 2 .. Len(groups[t]) : groups[t][k - 1] < groups[t][k]
     /\ \A t \in 2 .. Len(groups) : groups[t - 1][1] < groups[t][1]
     /\ Len(groups) = Cardinality(Together(S))
=============================================================================
