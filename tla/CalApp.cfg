SPECIFICATION AppSpec
CONSTANTS
    night = night
    call = call
    fair = fair
    dinner = dinner
    Cal = {1, 2}
    Known <- MCKnown
    Fresh = {dinner}
    Hour <- MCHour
    AllDay = {fair}
    Over = {night}
    Home <- MCHome
    Part <- MCPart
    Guest = {g}
    WeekDays = 4
    MonthDays = 5
    YearMonths = 2
    LastDay = 19
    Today = 6
    West = 1
    HistoryMax = 2
    MaxId = 4
    MaxActs = 3
INVARIANT ScreenIsTrue
PROPERTY ActsOnWhatItNames
