------------------------------ MODULE GoogleRemote ------------------------------
(***************************************************************************)
(* jadav/google.rs: a Google calendar as the remote of a mirror. Each request *)
(* of the REST API is a step, and others change the calendar in between. A *)
(* series is a master and its exceptions, of which there is one here; what *)
(* an event says is told by when it was written (`at`, its etag).          *)
(***************************************************************************)
EXTENDS Integers, FiniteSets

CONSTANTS
  Single, Series,   \* the ids of masters
  MaxVersion        \* bound on changes

Master == Single \cup Series
NoToken == -1
Nothing == [at |-> 0, exc |-> 0, moved |-> FALSE]  \* no copy of the event

VARIABLES
  google,    \* of each master: `is` "none", "live" or "cancelled", and `at`
  exception, \* of each series: `is` "plain", "moved" or "cancelled", and `at`
  version,   \* Google's clock
  copy,      \* what list_changes and fetch have told jadav of each master
  syncToken,     \* the token of the last list_changes
  request,      \* the operation of GoogleRest under way
  untold        \* history: masters a listing left out, and no answer told of since

googleVars == <<google, exception, version, copy, syncToken, request, untold>>

NoRequest == [does |-> "nothing"]

RemoteInit ==
  /\ google = [m \in Master |-> [is |-> "none", at |-> 0]]
  /\ exception = [m \in Series |-> [is |-> "plain", at |-> 0]]
  /\ version = 0 /\ copy = [m \in Master |-> Nothing] /\ syncToken = NoToken /\ request = NoRequest
  /\ untold = {}

Lives(m) == google[m].is = "live"
Occurrence(m) == IF m \in Series THEN exception[m] ELSE [is |-> "plain", at |-> 0]

\* gevent_group_to_object: an exception that lives is an override, a cancelled
\* one an EXDATE of the master.
CompositeVersion(at, e) == [at |-> at, exc |-> e.at, moved |-> e.is = "moved"]

Told(m) == IF Lives(m) THEN CompositeVersion(google[m].at, Occurrence(m)) ELSE Nothing

-----------------------------------------------------------------------------
(* Google, and the other users of the calendar *)

Stamps == version < MaxVersion /\ version' = version + 1

OthersWrite ==
  /\ Stamps
  /\ \/ \E m \in Master : google' = [google EXCEPT ![m] = [is |-> "live", at |-> version']]
        /\ UNCHANGED exception
     \/ \E m \in Master : Lives(m) /\ google' = [google EXCEPT ![m] = [is |-> "cancelled", at |-> version']]
        /\ UNCHANGED exception
     \/ \E m \in Series, is \in {"moved", "cancelled"} :
          Lives(m) /\ exception' = [exception EXCEPT ![m] = [is |-> is, at |-> version']]
        /\ UNCHANGED google
  /\ UNCHANGED <<copy, syncToken, request, untold>>

\* What events.list has to tell since a token, as <<"master" or "exception", id>>.
Changed(since) ==
  {<<"master", m>> : m \in {n \in Master : google[n].is # "none" /\ google[n].at > since}}
    \cup {<<"exception", m>> : m \in {n \in Series : exception[n].is # "plain" /\ exception[n].at > since}}

-----------------------------------------------------------------------------
(* list_changes: the pages, the masters that are missing, the groups *)

Fail == request # NoRequest /\ request' = NoRequest /\ UNCHANGED <<google, exception, version, copy, syncToken, untold>>

BeginList ==
  /\ request = NoRequest
  /\ request' = [does |-> "page", left |-> Changed(syncToken), masters |-> {}, deleted |-> {}, touched |-> {},
              objects |-> {}, skipped |-> {}, full |-> syncToken = NoToken, next |-> version]
  /\ UNCHANGED <<google, exception, version, copy, syncToken, untold>>

\* The token is too old: 410, and the mirror lists everything.
TokenExpires ==
  /\ request = NoRequest /\ syncToken # NoToken /\ syncToken' = NoToken
  /\ UNCHANGED <<google, exception, version, copy, request, untold>>

\* One page; an event that is changed meanwhile is told as it is by then.
Page ==
  /\ request.does = "page"
  /\ \E page \in SUBSET request.left :
       LET events == {e[2] : e \in {x \in page : x[1] = "master"}}
           left == request.left \ page
       IN /\ page # {} \/ request.left = {}
          /\ request' = [request EXCEPT
               !.left = left,
               !.masters = @ \cup {<<m, google[m].at>> : m \in {n \in events : Lives(n)}},
               !.deleted = @ \cup {m \in events : ~Lives(m)},
               !.touched = @ \cup {e[2] : e \in {x \in page : x[1] = "exception"}},
               !.does = IF left = {} THEN "missing" ELSE "page"]
  /\ UNCHANGED <<google, exception, version, copy, syncToken, untold>>

\* Mutant of Missing: an exception is told with its master or not at all.
NoneMissing == {}

\* Exceptions whose master is not in the answer.
Missing == {m \in request.touched : m \notin request.deleted /\ \A p \in request.masters : p[1] # m}

FetchMissing ==
  /\ request.does = "missing"
  /\ IF Missing = {} THEN request' = [request EXCEPT !.does = "group"]
     ELSE \E m \in Missing :
            request' = [request EXCEPT !.masters = IF Lives(m) THEN @ \cup {<<m, google[m].at>>} ELSE @,
                                 !.deleted = IF Lives(m) THEN @ ELSE @ \cup {m}]
  /\ UNCHANGED <<google, exception, version, copy, syncToken, untold>>

\* build_from_group: the exceptions of a series are those of now. What cannot be
\* made of it, or be asked for, leaves the event out of the answer (RemoteError::Other).
BuildFromGroup ==
  /\ request.does = "group"
  /\ \E p \in request.masters :
       \/ request' = [request EXCEPT !.masters = @ \ {p},
                         !.objects = @ \cup {<<p[1], CompositeVersion(p[2], Occurrence(p[1]))>>}]
       \/ request' = [request EXCEPT !.masters = @ \ {p}, !.skipped = @ \cup {p[1]}]
  /\ UNCHANGED <<google, exception, version, copy, syncToken, untold>>

\* Changes, as the mirror takes them: the objects, what is deleted, and after a
\* full listing whatever was not listed.
EndList ==
  /\ request.does = "group" /\ request.masters = {}
  /\ copy' = [m \in Master |->
       LET of == {o \in request.objects : o[1] = m}
       IN IF m \in request.deleted THEN Nothing
          ELSE IF of # {} THEN (CHOOSE o \in of : TRUE)[2]
          ELSE IF request.full THEN Nothing ELSE copy[m]]
  /\ syncToken' = request.next /\ request' = NoRequest
  /\ untold' = {m \in untold : m \notin request.deleted /\ \A o \in request.objects : o[1] # m}
                \cup request.skipped
  /\ UNCHANGED <<google, exception, version>>

-----------------------------------------------------------------------------
(* update, create, set_own_partstat and delete *)

Held(m) == copy[m] # Nothing

BeginWrite ==
  /\ request = NoRequest
  /\ \E m \in Master, does \in {"create", "update", "answer", "delete"} :
       /\ Held(m) <=> does # "create"
       /\ does = "create" => google[m].is = "none"
       /\ request' = [does |-> does, of |-> m, at |-> IF does = "create" THEN "patch" ELSE "check"]
  /\ UNCHANGED <<google, exception, version, copy, syncToken, untold>>

Writing(m, at) == request # NoRequest /\ "of" \in DOMAIN request /\ request.of = m /\ request.at = at

\* master_etag: only the master's part of the version is looked at, by a GET
\* before the write; the write itself carries no condition.
Check(m) ==
  /\ Writing(m, "check")
  /\ request' = CASE google[m].is = "none" /\ request.does = "answer" -> NoRequest
               [] google[m].is # "none" /\ google[m].at # copy[m].at -> NoRequest
               [] OTHER -> [request EXCEPT !.at = "patch"]
  /\ UNCHANGED <<google, exception, version, copy, syncToken, untold>>

\* A PATCH of what is no longer there: 404.
NotFound(m) ==
  /\ Writing(m, "patch") /\ request.does \in {"update", "answer"} /\ ~Lives(m)
  /\ request' = NoRequest
  /\ UNCHANGED <<google, exception, version, copy, syncToken, untold>>

Written(m) == Stamps /\ google' = [google EXCEPT ![m] = [is |-> "live", at |-> version']]

\* The insert or the PATCH of the master.
PatchMaster(m) ==
  /\ Writing(m, "patch") /\ (request.does = "create" \/ (request.does = "update" /\ Lives(m)))
  /\ Written(m)
  /\ request' = [request EXCEPT !.at = IF m \in Series THEN "overrides" ELSE "fetch"]
  /\ UNCHANGED <<exception, copy, syncToken, untold>>

\* set_own_partstat: the PATCH of the guests.
PatchGuests(m) ==
  /\ Writing(m, "patch") /\ request.does = "answer" /\ Lives(m)
  /\ Written(m)
  /\ request' = [request EXCEPT !.at = "fetch"]
  /\ UNCHANGED <<exception, copy, syncToken, untold>>

\* DELETE; what is gone already counts as deleted.
DeleteMaster(m) ==
  /\ Writing(m, "patch") /\ request.does = "delete"
  /\ IF Lives(m) THEN Stamps /\ google' = [google EXCEPT ![m] = [is |-> "cancelled", at |-> version']]
     ELSE UNCHANGED <<google, version>>
  /\ copy' = [copy EXCEPT ![m] = Nothing] /\ request' = NoRequest /\ untold' = untold \ {m}
  /\ UNCHANGED <<exception, syncToken>>

\* patch_overrides, whatever others made of the occurrence; the document may
\* have no override.
PatchOverrides(m) ==
  /\ Writing(m, "overrides")
  /\ \/ Stamps /\ exception' = [exception EXCEPT ![m] = [is |-> "moved", at |-> version']]
     \/ UNCHANGED <<exception, version>>
  /\ request' = [request EXCEPT !.at = "fetch"]
  /\ UNCHANGED <<google, copy, syncToken, untold>>

\* find_by_uid: an event of ours that is there already is taken over.
FindByUid(m) ==
  /\ request = NoRequest /\ ~Held(m) /\ Lives(m)
  /\ copy' = [copy EXCEPT ![m] = Told(m)] /\ untold' = untold \ {m}
  /\ UNCHANGED <<google, exception, version, syncToken, request>>

\* What Google made of it, which is what the mirror records; NotFound if it is gone.
Fetch(m) ==
  /\ Writing(m, "fetch")
  /\ copy' = IF Lives(m) THEN [copy EXCEPT ![m] = Told(m)] ELSE copy
  /\ untold' = IF Lives(m) THEN untold \ {m} ELSE untold
  /\ request' = NoRequest
  /\ UNCHANGED <<google, exception, version, syncToken>>

RemoteNext ==
  \/ OthersWrite \/ TokenExpires \/ Fail
  \/ BeginList \/ Page \/ FetchMissing \/ BuildFromGroup \/ EndList
  \/ BeginWrite \/ \E m \in Master :
       \/ Check(m) \/ NotFound(m) \/ PatchMaster(m) \/ PatchGuests(m) \/ DeleteMaster(m)
       \/ PatchOverrides(m) \/ FindByUid(m) \/ Fetch(m)

-----------------------------------------------------------------------------

\* Whatever has not changed since the token of the last listing is here as it
\* is at Google, its exceptions included, though the listing is made of several
\* calls, others write between them, and writes of our own fail half done
\* (list_changes, build_from_group). An event that could not be read is excepted,
\* until something tells of it: the listing goes on without it, and its token
\* covers the change.
PullTellsChanges ==
  syncToken # NoToken =>
    \A m \in Master \ untold :
      (google[m].at <= syncToken /\ Occurrence(m).at <= syncToken) => copy[m] = Told(m)
=============================================================================
