------------------------------ MODULE Calendars ------------------------------
(***************************************************************************)
(* jadav's table of calendars. It is written by the configuration when     *)
(* jadav starts, by the lookup of a Google account's calendars, and by     *)
(* clients (MKCALENDAR, PROPPATCH, DELETE); clients read it with PROPFIND. *)
(***************************************************************************)
EXTENDS MultiStatus

CONSTANTS
  UserAddress, \* the user's address
  Primary,     \* the account's own calendar, among
  Remote,      \* the ids of the account's calendars
  Reserved,    \* slugs that are no calendars: inbox and outbox
  ClientSlug,  \* what a client may want to create
  Config,      \* what is written into the configuration: functions from slugs to specs
  Entry,       \* what the account may say of a calendar
  Base, Hashed, \* the slug of a name, and of a name and an id
  SetOps,      \* the lists of changes a PROPPATCH may ask for
  MaxChanges   \* bound: changes of the table by clients and of the account together

VARIABLES
  calendars,   \* slug -> row
  account,     \* id -> what the calendar list says, or NoValue
  config,      \* the configuration jadav has started with
  late,        \* history: the slugs configured for a calendar that was discovered by then
  lookup,      \* the lookup under way: the table and the entries it read, and the slugs it takes for used
  seen,        \* what a client has just found, or NoValue
  changes

calendarVars == <<calendars, account, config, late, lookup, seen, changes>>

NoLookup == [existing |-> NoValue, entries |-> <<>>, taken |-> {}]

Without(f, s) == [x \in DOMAIN f \ {s} |-> f[x]]
With(f, s, row) == [x \in DOMAIN f \cup {s} |-> IF x = s THEN row ELSE f[x]]

-----------------------------------------------------------------------------
(* Rows *)

Writable(row) == row.provider = "native" \/ row.twoWay

RowOfSpec(spec, discovered) ==
  [provider |-> spec.provider, remote |-> spec.remote, twoWay |-> spec.provider = "native" \/ spec.twoWay,
   name |-> spec.name, color |-> spec.color, order |-> 0, discovered |-> discovered]

Facts(row, spec) ==
  [row EXCEPT !.provider = spec.provider, !.remote = spec.remote, !.twoWay = spec.provider = "native" \/ spec.twoWay]

Reconciled(row, spec) == Facts(row, spec)

\* reconcile_calendars: what is not configured is left untouched.
ReconcileCalendars(specs) ==
  [s \in DOMAIN calendars \cup DOMAIN specs |->
     IF s \notin DOMAIN specs THEN calendars[s]
     ELSE IF s \in DOMAIN calendars THEN Reconciled(calendars[s], specs[s])
     ELSE RowOfSpec(specs[s], FALSE)]

UpsertDiscovered(s, spec) ==
  With(calendars, s, IF s \in DOMAIN calendars
                     THEN [Facts(calendars[s], spec) EXCEPT !.discovered = TRUE]
                     ELSE RowOfSpec(spec, TRUE))

-----------------------------------------------------------------------------
(* The calendars of a Google account *)

\* A configured calendar without an id is the account's own.
CoversById(row, id) == row.provider = "google" /\ row.remote = id

ConfiguredCovers(row, id) ==
  row.provider = "google" /\ id = (IF row.remote = NoValue THEN Primary ELSE row.remote)

\* What a mirror of the account is for.
MirrorOf(row) == IF row.remote = NoValue THEN Primary ELSE row.remote

\* all_mirror_cfgs, of configured specs and the rows of the table.
MirrorCfgs(specs, rows) ==
  {s \in DOMAIN rows : rows[s].provider = "google" /\ (s \in DOMAIN specs \/ rows[s].discovered)}

IsMirrored(entry) == entry # NoValue /\ ~entry.hidden /\ entry.role \in {"owner", "writer", "reader"}

DiscoveredSlug(entry, id, taken) ==
  IF Base[entry.name] \in taken THEN Hashed[<<entry.name, id>>] ELSE Base[entry.name]

DiscoveredSpec(entry, id) ==
  [provider |-> "google", remote |-> id, twoWay |-> entry.role \in {"owner", "writer"},
   name |-> <<entry.name>>, color |-> NoValue]

-----------------------------------------------------------------------------
(* Resources, by what they are and the names they need *)

Root == <<"root">>
Principals == <<"principals">>
Principal == <<"principal">>
CalendarsRoot == <<"calendars">>
Home == <<"home">>
Inbox == <<"inbox">>
Outbox == <<"outbox">>
Calendar(slug) == <<"calendar", slug>>

HomePath == <<"dav", "calendars", "login">>

ResHref(res) ==
  CASE res = Root -> <<"dav">>
    [] res = Principals -> <<"dav", "principals">>
    [] res = Principal -> <<"dav", "principals", "login">>
    [] res = CalendarsRoot -> <<"dav", "calendars">>
    [] res = Home -> HomePath
    [] res = Inbox -> Append(HomePath, "inbox")
    [] res = Outbox -> Append(HomePath, "outbox")
    [] OTHER -> Append(HomePath, res[2])

\* route: the resource a path names, if it is one.
Route(path) ==
  LET fixed == {res \in {Root, Principals, Principal, CalendarsRoot, Home, Inbox, Outbox} : ResHref(res) = path}
  IN IF path = <<>> THEN Root
     ELSE IF fixed # {} THEN CHOOSE res \in fixed : TRUE
     ELSE IF Len(path) = 4 /\ SubSeq(path, 1, 3) = HomePath /\ path[4] \in DOMAIN calendars THEN Calendar(path[4])
     ELSE NoValue

\* What a PROPFIND of depth 1 lists below a resource.
Children(res) ==
  CASE res = Root -> {Principals, CalendarsRoot}
    [] res = Principals -> {Principal}
    [] res = CalendarsRoot -> {Home}
    [] res = Home -> {Calendar(s) : s \in DOMAIN calendars} \cup {Inbox, Outbox}
    [] OTHER -> {}

HrefOf(res) == Tagged("href", ResHref(res))

Privileges(res) ==
  LET writable == res = Home \/ (res[1] = "calendar" /\ Writable(calendars[res[2]]))
  IN {"read"} \cup (IF writable THEN {"write", "bind", "unbind"} ELSE {})
       \cup (IF res = Inbox THEN {"schedule-deliver"} ELSE IF res = Outbox THEN {"schedule-send"} ELSE {})

\* prop: a property's inner XML, NoValue when the resource has none of the name.
Prop(res, name) ==
  LET isCalendar == res[1] = "calendar"
      row == calendars[res[2]]
  IN CASE name = "resourcetype" ->
            <<EmptyTag("collection")>> \o (CASE res = Principal -> <<EmptyTag("principal")>>
                                             [] isCalendar -> <<EmptyTag("calendar")>>
                                             [] res = Inbox -> <<EmptyTag("schedule-inbox")>>
                                             [] res = Outbox -> <<EmptyTag("schedule-outbox")>>
                                             [] OTHER -> <<>>)
       [] name = "displayname" ->
            (CASE res \in {Principal, Home} -> EscapeText(<<"login">>)
               [] isCalendar -> EscapeText(row.name)
               [] res \in {Inbox, Outbox} -> EscapeText(<<res[1]>>)
               [] OTHER -> NoValue)
       [] name = "current-user-principal" -> HrefOf(Principal)
       [] name = "owner" -> IF res \in {Root, Principals, CalendarsRoot} THEN NoValue ELSE HrefOf(Principal)
       [] name = "current-user-privilege-set" -> [p \in 1 .. Cardinality(Privileges(res)) |-> EmptyTag("privilege")]
       [] name = "calendar-home-set" -> IF res = Principal THEN HrefOf(Home) ELSE NoValue
       [] name = "calendar-color" -> IF isCalendar /\ row.color # NoValue THEN EscapeText(row.color) ELSE NoValue
       [] name = "calendar-order" -> IF isCalendar THEN <<<<"text", row.order>>>> ELSE NoValue
       [] name = "owner-identity" -> IF isCalendar THEN EscapeText(<<"mailto:", UserAddress>>) ELSE NoValue
       [] name = "mirror-state" -> IF isCalendar /\ row.provider = "google" THEN EscapeText(<<"ok">>) ELSE NoValue
       [] name = "getctag" -> IF isCalendar \/ res = Inbox THEN EscapeText(<<"ctag">>) ELSE NoValue
       [] OTHER -> NoValue

RenderProps(res, names) ==
  LET elements(found) == FlattenSeq([i \in DOMAIN names |->
                            LET inner == Prop(res, names[i])
                            IN IF (inner # NoValue) # found THEN <<>> ELSE Element(names[i], IF found THEN inner ELSE <<>>)])
  IN Response(ResHref(res), elements(TRUE), elements(FALSE))

\* propfind: the answer, NoValue when it is 404.
Propfind(path, depth, names) ==
  LET res == Route(path)
      listed == FoldSet(LAMBDA child, list : Append(list, child), <<res>>, IF depth = 1 THEN Children(res) ELSE {})
  IN IF res = NoValue THEN NoValue ELSE AnswerOf([i \in DOMAIN listed |-> RenderProps(listed[i], names)])

-----------------------------------------------------------------------------
(* The client: CalDavClient::discover_calendars, from the URL it is given. *)

FirstValue(document, tag) ==
  IF document = NoValue THEN NoValue
  ELSE LET responses == ParseMultistatus(document).responses
       IN IF responses = <<>> THEN NoValue ELSE responses[1].values[tag]

Ask(path, name) == IF path = NoValue THEN NoValue ELSE FirstValue(Propfind(path, 0, <<name>>), name)

HomeOf(start, homeSet) == IF homeSet = NoValue THEN start ELSE homeSet

Listed(home) ==
  {[url |-> r.href, values |-> r.values] :
     r \in {x \in ToSet(ParseMultistatus(Propfind(home, 1, <<"resourcetype", "displayname", "getctag", "calendar-color",
                                                            "owner-identity", "mirror-state">>)).responses) :
             x.values["calendar"] = TRUE /\ x.href # NoValue}}

DiscoverCalendars(start, found) ==
  \E principal \in {Ask(start, "current-user-principal")} :
    \E home \in {HomeOf(start, Ask(principal, "calendar-home-set"))} : found = Listed(home)

-----------------------------------------------------------------------------
(* What clients change *)

\* A change is <<property, value>>, NoValue for a removal; its status in the answer.
StatusOf(row, op) ==
  CASE op[1] = "displayname" /\ row.provider # "native" -> 403
    [] op[1] = "displayname" -> IF op[2] \in {NoValue, <<>>} THEN 409 ELSE 200
    [] op[1] \in {"calendar-color", "calendar-order"} -> 200
    [] OTHER -> 403

Applied(row, op) ==
  CASE op[1] = "displayname" -> [row EXCEPT !.name = op[2]]
    [] op[1] = "calendar-color" -> [row EXCEPT !.color = IF op[2] = <<>> THEN NoValue ELSE op[2]]
    [] op[1] = "calendar-order" -> [row EXCEPT !.order = IF op[2] = NoValue THEN 0 ELSE op[2]]
    [] OTHER -> row

\* All of the changes or none.
PropChanged(row, ops) ==
  IF \E i \in DOMAIN ops : StatusOf(row, ops[i]) # 200 THEN row ELSE FoldLeft(Applied, row, ops)

NewRow(slug) ==
  [provider |-> "native", remote |-> NoValue, twoWay |-> TRUE, name |-> <<slug>>, color |-> NoValue, order |-> 0,
   discovered |-> FALSE]

MayMake(slug) == slug \notin Reserved /\ slug \notin DOMAIN calendars

Change == changes < MaxChanges /\ changes' = changes + 1 /\ seen' = NoValue

MkCalendar(slug, ops) ==
  /\ Change /\ MayMake(slug)
  /\ calendars' = With(calendars, slug,
       FoldLeft(Applied, NewRow(slug), SelectSeq(ops, LAMBDA op : StatusOf(NewRow(slug), op) = 200)))
  /\ UNCHANGED <<account, config, late, lookup>>

PropPatch(slug, ops) ==
  /\ Change /\ slug \in DOMAIN calendars
  /\ calendars' = [calendars EXCEPT ![slug] = PropChanged(@, ops)]
  /\ UNCHANGED <<account, config, late, lookup>>

DeleteCalendar(slug) ==
  /\ Change /\ slug \in DOMAIN calendars /\ calendars[slug].provider = "native"
  /\ calendars' = Without(calendars, slug)
  /\ UNCHANGED <<account, config, late, lookup>>

-----------------------------------------------------------------------------
(* jadav and the account *)

\* validate, as far as the table is concerned: jadav does not start otherwise.
Valid(specs) ==
  \A s \in DOMAIN specs : s \notin Reserved /\ Trim(specs[s].name) # <<>>

\* serve: the configuration as it is by now is brought into the table.
Restart(specs) ==
  /\ Valid(specs)
  /\ config' = specs
  /\ calendars' = ReconcileCalendars(specs)
  /\ late' = {s \in MirrorCfgs(specs, calendars') \cap (late \cup DOMAIN specs) :
                \E t \in MirrorCfgs(<<>>, calendars') \ {s} : MirrorOf(calendars'[t]) = MirrorOf(calendars'[s])}
  /\ lookup' = NoLookup
  /\ seen' = NoValue /\ UNCHANGED <<account, changes>>

AccountChanges(id, entry) ==
  /\ Change /\ account' = [account EXCEPT ![id] = entry]
  /\ UNCHANGED <<calendars, config, late, lookup>>

\* apply_discovery reads the table once, before it records what the account lists.
LookUp ==
  /\ lookup = NoLookup
  /\ LET listed == {id \in Remote : account[id] # NoValue}
     IN /\ listed # {}
        /\ lookup' = [existing |-> calendars, entries |-> [id \in listed |-> account[id]], taken |-> DOMAIN calendars]
  /\ seen' = NoValue /\ UNCHANGED <<calendars, account, config, late, changes>>

Known(id) == \E s \in DOMAIN lookup.existing : CoversById(lookup.existing[s], id)
Configured(id) == \E s \in DOMAIN config : ConfiguredCovers(config[s], id)

Recorded(id, taken) ==
  LET rest == Without(lookup.entries, id)
  IN lookup' = IF DOMAIN rest = {} THEN NoLookup ELSE [lookup EXCEPT !.entries = rest, !.taken = taken]

\* discovered_spec says no.
PassOver(id) ==
  /\ id \in DOMAIN lookup.entries
  /\ Known(id) \/ Configured(id) \/ ~IsMirrored(lookup.entries[id])
  /\ Recorded(id, lookup.taken)
  /\ seen' = NoValue /\ UNCHANGED <<calendars, account, config, late, changes>>

Discover(id) ==
  /\ id \in DOMAIN lookup.entries
  /\ ~Known(id) /\ ~Configured(id) /\ IsMirrored(lookup.entries[id])
  /\ LET entry == lookup.entries[id]
         slug == DiscoveredSlug(entry, id, lookup.taken)
     IN /\ calendars' = UpsertDiscovered(slug, DiscoveredSpec(entry, id))
        /\ Recorded(id, lookup.taken \cup {slug})
  /\ seen' = NoValue /\ UNCHANGED <<account, config, late, changes>>

\* A client that knows the address of the server only.
ClientLooks ==
  /\ seen = NoValue
  /\ DiscoverCalendars(<<>>, seen')
  /\ UNCHANGED <<calendars, account, config, late, lookup, changes>>

-----------------------------------------------------------------------------

CalendarsInit ==
  /\ config \in {specs \in Config : Valid(specs)}
  /\ calendars = [s \in DOMAIN config |-> RowOfSpec(config[s], FALSE)]
  /\ account = [id \in Remote |-> NoValue]
  /\ late = {} /\ lookup = NoLookup /\ seen = NoValue /\ changes = 0

CalendarsNext ==
  \/ \E slug \in ClientSlug, ops \in SetOps : MkCalendar(slug, ops)
  \/ \E slug \in DOMAIN calendars : DeleteCalendar(slug) \/ \E ops \in SetOps : PropPatch(slug, ops)
  \/ \E specs \in Config : Restart(specs)
  \/ \E id \in Remote, entry \in Entry : AccountChanges(id, entry)
  \/ LookUp \/ ClientLooks
  \/ \E id \in Remote : PassOver(id) \/ Discover(id)

-----------------------------------------------------------------------------
(* Properties *)

\* A client that is given the address of the server finds every calendar of the table and no
\* other, under an address that leads to it, with its name, colour, owner and the state of its
\* mirror; what is listed can be asked for by the address listed (server.rs propfind, prop and
\* route, xml.rs MultiStatus, caldav.rs discover_calendars and parse_multistatus).
ClientSeesCalendars ==
  LET entry(s) == [url |-> Append(HomePath, s),
                  values |-> [f \in KeptTag |->
                    CASE f = "calendar" -> TRUE
                      [] f = "displayname" -> calendars[s].name
                      [] f = "calendar-color" -> calendars[s].color
                      [] f = "owner-identity" -> <<UserAddress>>
                      [] f = "mirror-state" -> IF calendars[s].provider = "google" THEN <<"ok">> ELSE NoValue
                      [] f = "getctag" -> <<"ctag">>
                      [] OTHER -> NoValue]]
  IN /\ seen # NoValue => seen = {entry(s) : s \in DOMAIN calendars}
     /\ \A res \in {Root, Principals, CalendarsRoot, Home} : \A child \in Children(res) : Route(ResHref(child)) = child

\* A lookup never adds a second mirror of a calendar of the account, whatever the account's
\* calendars are called, whoever took their slugs, and however lookups and clients mix: two
\* calendars of the table mirror the same one only if jadav was started with a configuration
\* that named, under another slug, what had been discovered before (mod.rs apply_discovery,
\* discovered_spec and all_mirror_cfgs, store.rs upsert_discovered_calendar).
MirroredOnce ==
  \A s, t \in MirrorCfgs(config, calendars) :
    MirrorOf(calendars[s]) = MirrorOf(calendars[t]) => s = t \/ {s, t} \cap late # {}

\* Both at once.
CalendarsAreFound == ClientSeesCalendars /\ MirroredOnce

=============================================================================
