SPECIFICATION MCSpec
CONSTANTS
  Token = {t1, t2, t3}
  FirstToken = t1
  Single = {e}
  Series = {s}
  MaxVersion = 4
  NoTime = NoTime
  NoValue = NoValue
  Special = {"&"}
  UserAddress = "me@x"
  Primary = "me"
  Remote = {"me", "id2", "id3"}
  Reserved = {"inbox", "outbox"}
  ClientSlug = {"g-team", "home", "inbox"}
  Config <- MCConfig
  Entry <- MCEntry
  Base <- MCBase
  Hashed <- MCHashed
  SetOps <- MCSetOps
  MaxChanges = 2
  NoOne = NoOne
  NoDoc = NoDoc
  Day = 2
  MaxExpanded = 5
  Horizon = 5
  Now = 9
  Grace = 2
  AlarmLookback = 2
  AlarmLookahead = 5
  Gap = {1, 3}
  LocalOf <- MCLocalOf
  Identity = {"me", "bob"}
  Leads <- MCLeads
  TimeOfDay <- MCTimeOfDay
  MinGridRows = 2
  SlotChoices <- MCSlotChoices
  DayCore <- MCDayCore
  HourMinutes = 2
  DayMinutes = 8
  Form <- MCForm
  Lead <- MCLead
  Seconds <- MCSeconds
  Part <- MCPart
  Reminded <- MCReminded
  Slot = {2, 5, 6, 10}
  Person = {"ann", "bob"}
  Document <- MCDocument
  Edit <- MCEdit
  Window <- MCWindow
  GoogleEvent <- MCGoogleEvent
  GoogleSeries <- MCGoogleSeries
  Shape <- MCShape
  Cap = 2
  MaxDrain = 1
  PerConnection = 2
  MaxSent = 2
CHECK_DEADLOCK FALSE
INVARIANT EditsAreLocal
INVARIANT ViewsShowAll
INVARIANT InvitationsCarry
INVARIANT RemindersRing
INVARIANT ReadsBackAlike
INVARIANT ReauthSurvives
INVARIANT PullTellsChanges
INVARIANT CalendarsAreFound
INVARIANT RequestsAreReadApart
