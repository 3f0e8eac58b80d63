------------------------------ MODULE GoogleAuth ------------------------------
(***************************************************************************)
(* jadav/google.rs: the OAuth tokens of a Google remote. `jadav serve`     *)
(* keeps a refresh token in memory for the life of the process; `jadav     *)
(* google auth` runs in a process of its own and writes only the store.    *)
(* Every access to Google and to the store is a step.                      *)
(***************************************************************************)
EXTENDS Naturals

CONSTANT Token      \* refresh tokens Google may issue
CONSTANT FirstToken \* the one that is there at the start

ASSUME GoogleAuthAssumption == FirstToken \in Token

VARIABLES
  valid,    \* the refresh tokens Google honours
  issued,   \* those it ever issued
  stored,   \* the row of oauth_tokens, with needs_reauth of remotes_status as `parked`
  holder,   \* GoogleAuth in memory: the refresh token, and whether it has an access token
  step,     \* what the holder, or the mirror thread that called it, is about to do
  retried,  \* the call under way was answered with 401 once (retried_auth)
  newest,   \* history: the token the user authorised last
  crossed,  \* history: the user did so without need, or while the holder was about to write
  refused   \* history: since then, a call with an access token just refreshed got a 401

authVars == <<valid, issued, stored, holder, step, retried, newest, crossed, refused>>

AuthInit ==
  /\ valid = {FirstToken} /\ issued = {FirstToken} /\ newest = FirstToken
  /\ stored = [refresh |-> FirstToken, flagged |-> FALSE, parked |-> FALSE]
  /\ holder = [refresh |-> FirstToken, access |-> FALSE]
  /\ step = "idle" /\ retried = FALSE /\ crossed = FALSE /\ refused = FALSE

\* remote_needs_reauth
NeedsReauth == stored.flagged \/ stored.parked

\* A cycle of the mirror begins only if the remote is not parked, and goes on to
\* the calendars when the discovery was turned down.
InCycle == (step = "idle" /\ ~NeedsReauth) \/ step = "discovered"

\* access_token: a token that is cached is used, else a refresh is asked for.
UseToken ==
  /\ InCycle /\ ~holder.access
  /\ step' = "first" /\ retried' = FALSE
  /\ UNCHANGED <<valid, issued, stored, holder, newest, crossed, refused>>

\* A call with the cached token is answered with 401: invalidate, and a refresh.
Unauthorized ==
  /\ InCycle /\ holder.access
  /\ holder' = [holder EXCEPT !.access = FALSE] /\ step' = "first" /\ retried' = TRUE
  /\ UNCHANGED <<valid, issued, stored, newest, crossed, refused>>

\* refresh_access_token: what the token endpoint answers, if it does.
Endpoint(token) == {IF token \in valid THEN "grant" ELSE "invalid_grant", "none"}

\* refresh_once
RefreshOnce ==
  /\ step \in {"first", "second"}
  /\ \E answer \in Endpoint(holder.refresh) :
       /\ holder' = IF answer = "grant" THEN [holder EXCEPT !.access = TRUE] ELSE holder
       /\ step' = CASE answer = "grant" -> "working"
                    [] answer = "none" -> "ends"
                    [] OTHER -> IF step = "first" THEN "revoked" ELSE "flag"
  /\ UNCHANGED <<valid, issued, stored, retried, newest, crossed, refused>>

\* persist_working: put_oauth_token with the refresh token that worked.
PersistWorking ==
  /\ step = "working"
  /\ stored' = [refresh |-> holder.refresh, flagged |-> FALSE, parked |-> FALSE]
  /\ step' = IF retried THEN "again" ELSE "idle"
  /\ UNCHANGED <<valid, issued, holder, retried, newest, crossed, refused>>

\* The call made again after a 401: a second one is NeedsReauth for the mirror,
\* whatever the refresh said, and the access token is kept.
CallAgain ==
  /\ step = "again"
  /\ \/ step' = "idle" /\ UNCHANGED refused
     \/ step' = "report" /\ refused' = TRUE
  /\ UNCHANGED <<valid, issued, stored, holder, retried, newest, crossed>>

\* Mutant of NewerStored: the token in memory is the only one.
NoneNewer == FALSE

\* newer_stored_refresh_token
NewerStored == stored.refresh # holder.refresh

\* refresh: what the store has by now is tried before giving up.
LookUpNewer ==
  /\ step = "revoked"
  /\ IF NewerStored
     THEN holder' = [holder EXCEPT !.refresh = stored.refresh] /\ step' = "second"
     ELSE step' = "flag" /\ UNCHANGED holder
  /\ UNCHANGED <<valid, issued, stored, retried, newest, crossed, refused>>

\* persist_needs_reauth: the token is flagged, then the remote; the refresh
\* token in the store stays.
Flag ==
  /\ step = "flag"
  /\ stored' = [stored EXCEPT !.flagged = TRUE]
  /\ holder' = [holder EXCEPT !.access = FALSE] /\ step' = "park"
  /\ UNCHANGED <<valid, issued, retried, newest, crossed, refused>>

\* set_remote_status, by persist_needs_reauth and once more by the mirror thread.
Park ==
  /\ step \in {"park", "report"}
  /\ stored' = [stored EXCEPT !.parked = TRUE, !.flagged = TRUE]
  /\ step' = IF step = "park" THEN "report" ELSE "idle"
  /\ UNCHANGED <<valid, issued, holder, retried, newest, crossed, refused>>

\* It was the discovery of calendars that failed: the thread only says so.
DiscoveryFails ==
  /\ step = "report" /\ step' = "discovered"
  /\ UNCHANGED <<valid, issued, stored, holder, retried, newest, crossed, refused>>

\* A cycle ends well, or with an error of another kind: the remote is not parked,
\* but the flag of the token stays.
CycleEnds ==
  /\ step \in {"ends", "discovered"}
  /\ stored' = [stored EXCEPT !.parked = FALSE] /\ step' = "idle"
  /\ UNCHANGED <<valid, issued, holder, retried, newest, crossed, refused>>

-----------------------------------------------------------------------------

\* The access token expires.
AccessExpires ==
  /\ step = "idle" /\ holder.access /\ holder' = [holder EXCEPT !.access = FALSE]
  /\ UNCHANGED <<valid, issued, stored, step, retried, newest, crossed, refused>>

\* The user, or Google, withdraws a grant.
Revoke ==
  /\ \E t \in valid : valid' = valid \ {t}
  /\ UNCHANGED <<issued, stored, holder, step, retried, newest, crossed, refused>>

\* authorize_interactive: Google issues a grant.
Grant(t) == t \in Token \ issued /\ valid' = valid \cup {t} /\ issued' = issued \cup {t} /\ newest' = t

\* auth_interactive, in another process: the new grant is stored.
AuthInteractive ==
  /\ \E t \in Token :
       Grant(t) /\ stored' = [refresh |-> t, flagged |-> FALSE, parked |-> FALSE]
  /\ crossed' = (crossed \/ holder.refresh \in valid \/ step \in {"working", "second", "flag", "park", "report"})
  /\ refused' = FALSE
  /\ UNCHANGED <<holder, step, retried>>

\* from_store, when `jadav serve` starts again.
RestartServe ==
  /\ holder' = [refresh |-> stored.refresh, access |-> FALSE] /\ step' = "idle" /\ retried' = FALSE
  /\ UNCHANGED <<valid, issued, stored, newest, crossed, refused>>

AuthNext ==
  \/ UseToken \/ Unauthorized \/ RefreshOnce \/ PersistWorking \/ CallAgain \/ LookUpNewer
  \/ Flag \/ Park \/ DiscoveryFails \/ CycleEnds
  \/ AccessExpires \/ Revoke \/ AuthInteractive \/ RestartServe

-----------------------------------------------------------------------------

\* A grant the user gave takes effect while the server runs and is not lost to
\* it: the store keeps it, and the remote is taken for unauthorised only if that
\* grant is gone too, or if Google turned down an access token it had just issued
\* for a refresh token it honours, which call takes for a revoked one. The
\* exceptions are a grant given while the one in use still worked, which the next
\* refresh writes over (so does one given because of such a second 401), and one
\* stored between the answer to a refresh and what is written then (refresh,
\* persist_working, persist_needs_reauth, call).
ReauthSurvives ==
  ~crossed => /\ stored.refresh = newest
              /\ NeedsReauth => newest \notin valid \/ refused
=============================================================================
