----------------------------- MODULE MultiStatus -----------------------------
(***************************************************************************)
(* The answers of jadav's CalDAV server as XML, and how the CalDAV client  *)
(* reads them. A document is the sequence of what an XML reader reports:   *)
(* tags by their local names, pieces of text, and references (&amp; ...),  *)
(* which are reported apart from the text around them. A value is the      *)
(* sequence of its pieces, a status its number.                            *)
(***************************************************************************)
EXTENDS Sequences, SequencesExt, FiniteSetsExt, Naturals

CONSTANTS
  NoValue,
  Special   \* the pieces of a value that are escaped

StartTag(name) == <<"start", name>>
EndTag(name) == <<"end", name>>
EmptyTag(name) == <<"empty", name>>

-----------------------------------------------------------------------------
(* The server writes. *)

EscapeText(value) ==
  [i \in DOMAIN value |-> <<IF value[i] \in Special THEN "ref" ELSE "text", value[i]>>]

Element(name, inner) == IF inner = <<>> THEN <<EmptyTag(name)>> ELSE <<StartTag(name)>> \o inner \o <<EndTag(name)>>

Tagged(name, value) == <<StartTag(name)>> \o EscapeText(value) \o <<EndTag(name)>>

StatusLine(code) == <<StartTag("status"), <<"text", code>>, EndTag("status")>>

PropStat(code, inner) ==
  IF inner = <<>> THEN <<>>
  ELSE <<StartTag("propstat"), StartTag("prop")>> \o inner \o <<EndTag("prop")>> \o StatusLine(code) \o <<EndTag("propstat")>>

Response(href, found, missing) ==
  <<StartTag("response")>> \o Tagged("href", href) \o PropStat(200, found) \o PropStat(404, missing) \o <<EndTag("response")>>

\* A document is kept in its parts: how it opens, one for each response, how it closes.
AnswerOf(parts) == <<<<StartTag("multistatus")>>>> \o parts \o <<<<EndTag("multistatus")>>>>

-----------------------------------------------------------------------------
(* The client reads. *)

\* What is kept of an answer's properties, by the tag that brings it.
ValueTag == {"getetag", "calendar-data", "displayname", "calendar-color", "owner-identity", "mirror-state", "getctag"}
HrefTag == {"current-user-principal", "calendar-home-set"}
KeptTag == ValueTag \cup HrefTag \cup {"calendar"}

NoProperties == [f \in KeptTag |-> NoValue]

\* PropStatBuf, and ResponseAccum with the response's own href and status.
Buffer == [values |-> NoProperties, ok |-> TRUE]
Accum == [href |-> NoValue, status |-> NoValue, values |-> NoProperties]

Trim(value) ==
  LET solid == {i \in DOMAIN value : value[i] # " "}
  IN IF solid = {} THEN <<>> ELSE SubSeq(value, Min(solid), Max(solid))

\* An empty colour, identity or mirror state is none; events keep their white space.
ReadValue(name, text) ==
  LET bare == IF name = "owner-identity" /\ Trim(text) # <<>> /\ Trim(text)[1] = "mailto:" THEN Tail(Trim(text)) ELSE Trim(text)
  IN IF name = "calendar-data" THEN text
     ELSE IF name \in {"calendar-color", "owner-identity", "mirror-state"} /\ bare = <<>> THEN NoValue
     ELSE bare

MergedInto(new, old) == [f \in KeptTag |-> IF new[f] # NoValue THEN new[f] ELSE old[f]]

ReaderStart ==
  [cur |-> NoValue, depth |-> 0, buf |-> Buffer, stack |-> <<>>, text |-> <<>>, token |-> NoValue, responses |-> <<>>]

OnStart(r, name) ==
  [r EXCEPT !.text = <<>>, !.stack = Append(@, name),
            !.cur = IF name = "response" THEN Accum ELSE @,
            !.depth = IF name = "propstat" THEN @ + 1 ELSE @,
            !.buf = IF name = "propstat" THEN Buffer ELSE @]

OnEmpty(r, name) ==
  IF name = "calendar" /\ r.stack # <<>> /\ Last(r.stack) = "resourcetype"
  THEN [r EXCEPT !.buf.values["calendar"] = TRUE] ELSE r

\* The pieces of text up to the end of an element; a reference stands for a piece too.
OnText(r, piece) == [r EXCEPT !.text = Append(@, piece)]

OnReference(r, piece) == OnText(r, piece)

OnHref(r, parent) ==
  IF parent \in HrefTag THEN [r EXCEPT !.buf.values[parent] = Trim(r.text)]
  ELSE IF r.cur = NoValue THEN r ELSE [r EXCEPT !.cur.href = Trim(r.text)]

OnStatus(r) ==
  LET code == IF r.text = <<>> THEN NoValue ELSE r.text[1]
  IN IF r.depth > 0 THEN [r EXCEPT !.buf.ok = code \in 200 .. 299]
     ELSE IF r.cur = NoValue THEN r ELSE [r EXCEPT !.cur.status = code]

OnPropStat(r) ==
  [r EXCEPT !.depth = @ - 1,
            !.cur = IF r.buf.ok /\ @ # NoValue THEN [@ EXCEPT !.values = MergedInto(r.buf.values, @)] ELSE @]

OnEnd(r, name) ==
  LET popped == [r EXCEPT !.stack = IF @ = <<>> THEN @ ELSE Front(@)]
      parent == IF popped.stack = <<>> THEN NoValue ELSE Last(popped.stack)
      done == CASE name = "href" -> OnHref(popped, parent)
                [] name \in ValueTag ->
                     LET value == ReadValue(name, r.text)
                     IN IF value = NoValue THEN popped ELSE [popped EXCEPT !.buf.values[name] = value]
                [] name = "sync-token" -> [popped EXCEPT !.token = Trim(r.text)]
                [] name = "status" -> OnStatus(popped)
                [] name = "propstat" -> OnPropStat(popped)
                [] name = "response" /\ r.cur # NoValue ->
                     [popped EXCEPT !.responses = Append(@, r.cur), !.cur = NoValue]
                [] OTHER -> popped
  IN [done EXCEPT !.text = <<>>]

Read(r, event) ==
  CASE event[1] = "start" -> OnStart(r, event[2])
    [] event[1] = "empty" -> OnEmpty(r, event[2])
    [] event[1] = "text" -> OnText(r, event[2])
    [] event[1] = "ref" -> OnReference(r, event[2])
    [] OTHER -> OnEnd(r, event[2])

ReadPart(r, part) ==
  LET reader[n \in 0 .. Len(part)] ==
        IF n = 0 THEN r ELSE CHOOSE next \in {Read(before, part[n]) : before \in {reader[n - 1]}} : TRUE
  IN reader[Len(part)]

\* parse_multistatus: the token of the document and what each response says.
ParseMultistatus(document) ==
  LET reader[n \in 0 .. Len(document)] ==
        IF n = 0 THEN ReaderStart
        ELSE CHOOSE next \in {ReadPart(before, document[n]) : before \in {reader[n - 1]}} : TRUE
      end == reader[Len(document)]
  IN [token |-> end.token, responses |-> end.responses]
=============================================================================
