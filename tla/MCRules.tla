------------------------------- MODULE MCRules -------------------------------
(* Instance of Rules: small documents, and what is done with them. *)
EXTENDS Rules, GoogleAuth, GoogleRemote, Calendars, HttpConnection, TLC

Asked(who, says) == [who |-> who, says |-> says, asked |-> says = "NEEDS-ACTION", extra |-> "1.2"]

Block(rid, start, guests) ==
  [uid |-> "e", rid |-> rid, start |-> start, startZone |-> UTC, finish |-> start + 2, finishZone |-> UTC,
   length |-> NoTime, allDay |-> FALSE, rule |-> NoRule, except |-> {}, status |-> "CONFIRMED", sequence |-> 1, stamp |-> 1, modified |-> 1,
   title |-> "x", organizer |-> "me", organizerExtra |-> "1.1", guests |-> guests, alarms |-> <<<<"start", 1>>, <<"end", 0>>>>, other |-> "y"]

Lists == {<<>>, <<Asked("ann", "ACCEPTED")>>, <<Asked("ann", "NEEDS-ACTION"), Asked("bob", "DECLINED")>>}

Masters ==
  {[Block(NoTime, 2, g) EXCEPT !.finish = f[1], !.length = f[2], !.allDay = f[3], !.startZone = f[4], !.finishZone = f[5],
                               !.rule = r, !.except = x] :
     g \in Lists,
     f \in {<<2, NoTime, FALSE, UTC, UTC>>, <<7, NoTime, FALSE, UTC, UTC>>, <<7, NoTime, FALSE, UTC, "here">>, <<NoTime, 3, FALSE, "here", UTC>>,
            <<NoTime, NoTime, TRUE, UTC, UTC>>},
     r \in {NoRule, <<3, 3>>, <<4, 0>>}, x \in {{}, {2}}}

Overrides == {[Block(r, s, g) EXCEPT !.status = st] :
     r \in {5, 6}, s \in {1, 6}, g \in Lists \ {<<>>}, st \in {"CONFIRMED", "CANCELLED"}}

MCDocument ==
  {<<m>> : m \in Masters}
    \cup {<<m, o>> : m \in {n \in Masters : n.finish # 2 /\ n.rule # NoRule /\ Len(n.guests) # 1}, o \in Overrides}

Field(f, v) == {f :> x : x \in v}
Times(f, zone, v) == {(f :> x) @@ (zone :> UTC) : x \in v}

MCEdit ==
  LET one == {<<>>} \cup Field("title", {"x", "z"}) \cup (Times("start", "startZone", {2, 3}) \cup Times("finish", "finishZone", {7, 8}))
               \cup {e @@ f @@ [allDay |-> a] : a \in BOOLEAN, e \in Times("start", "startZone", {2}), f \in Times("finish", "finishZone", {4, 7})}
               \cup Field("rule", {<<3, 3>>, Unreadable})
      other == {<<>>} \cup Field("status", {"CONFIRMED", "TENTATIVE"}) \cup Field("alarms", {<<>>, <<<<"start", 2>>>>})
               \cup Field("guests", {<<>>, <<"bob">>, <<"cat", "ann">>})
               \cup Field("rsvp", {[who |-> "ann", says |-> "DECLINED"], [who |-> "me", says |-> "ACCEPTED"]})
  IN one \cup other \cup {e @@ f : e \in {[title |-> "z"]} \cup Times("start", "startZone", {3}) \cup Times("finish", "finishZone", {8}), f \in other}

\* UTC hours 0 to 15; the local clock skips hour 5 and has hour 12 twice.
MCLocalOf == [u \in 0 .. 15 |-> IF u < 5 THEN u ELSE IF u < 12 THEN u + 1 ELSE u]

Ringing(start, alarms) == [Block(NoTime, start, <<>>) EXCEPT !.alarms = alarms]

MCReminded ==
  {<<>>} \cup {<<<<e>>>> : e \in {Ringing(s, a) : s \in {2, 4}, a \in {<<>>, <<<<"start", 1>>, <<"at", 3>>>>}}
                  \cup {[Ringing(1, <<<<"start", 1>>>>) EXCEPT !.rule = <<3, 2>>]}
                  \cup {[Ringing(9, <<<<"start", 6>>, <<"end", 0>>>>) EXCEPT !.status = s] : s \in {"CONFIRMED", "CANCELLED"}}}

MCForm ==
  LET ann == [BlankForm("c", 0) EXCEPT !.title = "x", !.organizer = "me", !.guests = <<"ann">>]
  IN {[ann EXCEPT !.allDay = a, !.startDate = sd, !.startTime = st, !.endDate = ed, !.endTime = et] :
        a \in BOOLEAN, sd \in {1, 2, 6, Garbled}, st \in {0, 1, Garbled}, ed \in {1, 2, 6, Blank, Garbled}, et \in {0, 1}}

MCLead == {0, 15, 60, 90, 1440, 20160}
MCSeconds == {0, 59, 3600, 90061, 604800, -1, -86400}

AlarmText == <<Begin("VALARM"), Property("DTSTART", "a"), Property("TRIGGER", "t"), End("VALARM")>>

MCPart ==
  {<<Begin("VEVENT"), Property("UID", "u")>> \o b \o <<End("VEVENT")>> :
     b \in {<<>>, <<Property("DTSTART", "1")>>, <<Junk, Property("DTSTART", "1")>> \o AlarmText,
            <<Property("DTSTART", "1")>> \o AlarmText \o <<Property("SUMMARY", "s"), Property("DTSTART", "2")>>}}
    \cup {<<Begin("VTIMEZONE"), Begin("STANDARD"), Property("TZOFFSETTO", "1"), End("STANDARD"), End("VTIMEZONE")>>,
          <<Begin("VTODO")>> \o AlarmText \o <<End("VTODO")>>, <<Junk>>,
          <<Property("METHOD", "REQUEST")>>, <<Property("VERSION", "1")>>, <<Property("PRODID", "x")>>}

MCTimeOfDay == {<<a, s, e>> \in BOOLEAN \X {-1, 0, 1, 3, 7} \X {0, 1, 3, 6, 9} : s <= e /\ (a => s = 0)}
MCSlotChoices == <<1, 2, 4>>
MCDayCore == <<2, 6>>

Plain(start, finish) ==
  [original |-> NoTime, start |-> start, finish |-> finish, allDay |-> FALSE, title |-> "x", description |-> "",
   location |-> "", link |-> "", status |-> "confirmed", transparent |-> FALSE, visibility |-> "default",
   sequence |-> 0, rule |-> NoRule, except |-> {}, guests |-> <<>>, reminders |-> [default |-> TRUE, own |-> <<>>]]

Asks(who, says) == [who |-> who, says |-> says, optional |-> who = "bob", resource |-> FALSE]

MCGoogleEvent ==
  {[Plain(2, 4) EXCEPT !.title = t, !.description = t, !.location = l[1], !.link = l[2], !.status = st,
      !.transparent = v = "public", !.visibility = v, !.guests = g, !.reminders = r] :
     t \in {"", "x"}, l \in {<<"", "">>, <<"room", "">>, <<"", "meet">>, <<"room", "meet">>},
     st \in {"confirmed", "tentative"}, v \in {"default", "public", "private"},
     g \in {<<>>, <<Asks("ann", "accepted"), Asks("bob", "needsAction")>>, <<Asks("bob", "declined")>>},
     r \in {[default |-> TRUE, own |-> <<>>], [default |-> FALSE, own |-> <<>>],
            [default |-> FALSE, own |-> <<<<"popup", 10>>>>], [default |-> FALSE, own |-> <<<<"email", 30>>, <<"popup", 0>>>>]}}

MCGoogleSeries ==
  LET exceptions == {[Plain(s, s + 2) EXCEPT !.original = o, !.status = st] :
                       o \in {5, 8}, s \in {1, 5, 6}, st \in {"confirmed", "cancelled"}}
  IN {<<[Plain(2, f) EXCEPT !.rule = <<3, 3>>, !.except = x], e>> :
        f \in {4, 7}, x \in {{}, {2}},
        e \in {<<>>} \cup {<<a>> : a \in exceptions}
                \cup {<<a, b>> : a \in {y \in exceptions : y.original = 5}, b \in {y \in exceptions : y.original = 8}}}

MCLeads == {{}, {1}}

MCWindow == {<<0, 4, 8>>, <<2, 5, 7>>, <<6, 7, 12>>}

-----------------------------------------------------------------------------

Mirror(id) == [provider |-> "google", remote |-> id, twoWay |-> FALSE, name |-> <<"work">>, color |-> NoValue]
Own(name) == [provider |-> "native", remote |-> NoValue, twoWay |-> FALSE, name |-> <<name>>, color |-> <<"red">>]

FirstConfig == ("home" :> Own("home")) @@ ("work" :> Mirror(NoValue))

\* The calendar of its own, then one the account has too, under a slug of its own and one taken.
MCConfig ==
  {FirstConfig,
   ("home" :> Own("home")) @@ ("work" :> Mirror("id2")),
   ("home" :> Own("home")) @@ ("g-team" :> Mirror("id3")),
   ("home" :> Own("a")) @@ ("work" :> Mirror(NoValue)) @@ ("g-team" :> Own("team")),
   ("inbox" :> Own("in"))}

MCEntry ==
  {[name |-> "team", role |-> r, hidden |-> FALSE] : r \in {"owner", "reader", "freeBusyReader"}}
    \cup {[name |-> "team", role |-> "owner", hidden |-> TRUE]}

MCBase == "team" :> "g-team"
MCHashed == [x \in {"team"} \X {"me", "id2", "id3"} |-> x[1] \o x[2]]

MCSetOps ==
  {<<>>, <<<<"displayname", <<"a", "&", "b">>>>, <<"calendar-color", <<"a", "&">>>>, <<"calendar-order", 1>>>>,
   <<<<"calendar-color", <<>>>>>>, <<<<"displayname", <<>>>>, <<"getctag", <<"x">>>>>>}

-----------------------------------------------------------------------------
MCShape ==
  {[handler |-> h, framing |-> f[1], chunks |-> f[2], expects |-> e, stays |-> f[1] # "none"] :
     h \in {"caldav", "dav"}, e \in BOOLEAN,
     f \in {<<"none", <<>>>>, <<"length", <<1>>>>, <<"length", <<2>>>>, <<"length", <<3>>>>,
            <<"chunked", <<1, 1>>>>, <<"chunked", <<3>>>>}}
    \cup {[handler |-> "hosted", framing |-> "chunked", chunks |-> <<1>>, expects |-> e, stays |-> TRUE] : e \in BOOLEAN}

-----------------------------------------------------------------------------
(* One run for five small parts that share nothing: from the start it is the calls,
   Google's tokens, Google's calendar, the table of calendars or an HTTP connection
   that goes on. *)

MCInit == Init /\ AuthInit /\ RemoteInit /\ CalendarsInit /\ HttpInit

RulesRest == Idle
AuthRest ==
  issued = {FirstToken} /\ valid = issued /\ step = "idle" /\ ~holder.access /\ ~NeedsReauth /\ ~refused
RemoteRest == version = 0 /\ syncToken = NoToken /\ request = NoRequest
CalendarsRest ==
  /\ changes = 0 /\ lookup = NoLookup /\ seen = NoValue
  /\ config = FirstConfig /\ late = {}
  /\ calendars = [s \in DOMAIN config |-> RowOfSpec(config[s], FALSE)]
HttpRest == requests = <<>> /\ fetched = <<>>

MCNext ==
  \/ /\ AuthRest /\ RemoteRest /\ CalendarsRest /\ HttpRest /\ Next
     /\ UNCHANGED <<authVars, googleVars, calendarVars, httpVars>>
  \/ /\ RulesRest /\ RemoteRest /\ CalendarsRest /\ HttpRest /\ AuthNext
     /\ UNCHANGED <<call, googleVars, calendarVars, httpVars>>
  \/ /\ RulesRest /\ AuthRest /\ CalendarsRest /\ HttpRest /\ RemoteNext
     /\ UNCHANGED <<call, authVars, calendarVars, httpVars>>
  \/ /\ RulesRest /\ AuthRest /\ RemoteRest /\ HttpRest /\ CalendarsNext
     /\ UNCHANGED <<call, authVars, googleVars, httpVars>>
  \/ /\ RulesRest /\ AuthRest /\ RemoteRest /\ CalendarsRest /\ HttpNext
     /\ UNCHANGED <<call, authVars, googleVars, calendarVars>>

MCSpec == MCInit /\ [][MCNext]_<<call, authVars, googleVars, calendarVars, httpVars>>
=============================================================================
