------------------------------ MODULE MCCalApp ------------------------------
(* Instance of CalApp: two calendars, three events known and one to come. *)
EXTENDS CalApp, TLC

CONSTANTS night, call, fair, dinner

MCKnown == <<night, call, fair>>
MCHour == night :> 3 @@ call :> 1 @@ fair :> 0 @@ dinner :> 2
MCHome == night :> <<1, 5>> @@ call :> <<1, 6>> @@ fair :> <<2, 6>> @@ dinner :> <<2, 6>>
MCPart == night :> "none" @@ call :> "asked" @@ fair :> "no" @@ dinner :> "asked"
=============================================================================
