-------------------------------- MODULE CalText --------------------------------
(***************************************************************************)
(* calendar.rs: the text of an iCalendar object, as its lines. A line is   *)
(* <<kind, name, value>>: "begin" and "end" of a component, "property", or *)
(* "junk", which is no content line. All that is not known is kept.        *)
(***************************************************************************)
EXTENDS Integers, Sequences, FiniteSets, SequencesExt

Begin(name) == <<"begin", name, "">>
End(name) == <<"end", name, "">>
Property(name, value) == <<"property", name, value>>
Junk == <<"junk", "", "">>

Kind(line) == line[1]
Name(line) == line[2]

Opened(lines, i) == Cardinality({k \in 1 .. i : Kind(lines[k]) = "begin"})
Closed(lines, i) == Cardinality({k \in 1 .. i : Kind(lines[k]) = "end"})

\* How many components line i is inside of.
Depth(lines, i) == Opened(lines, i) - Closed(lines, i)

\* The line that ends the component begun on line i, or the last line.
BlockEnd(lines, i) ==
  LET ends == {j \in (i + 1) .. Len(lines) : Depth(lines, j) = Depth(lines, i) - 1}
  IN IF ends = {} THEN Len(lines) ELSE CHOOSE j \in ends : \A k \in ends : j <= k

Kept(lines, keep(_)) ==
  LET at == SetToSortSeq({i \in DOMAIN lines : keep(i)}, <)
  IN [k \in DOMAIN at |-> lines[at[k]]]

-----------------------------------------------------------------------------
(* Documents *)

Unset == "unset"  \* no METHOD, no PRODID

Wrapped(lines) == \E i \in DOMAIN lines : lines[i] = Begin("VCALENDAR")

\* The blocks of a document: each from the line that begins it, the wrapper is none.
Blocks(lines) ==
  LET opens(i) == Kind(lines[i]) = "begin" /\ Name(lines[i]) # "VCALENDAR"
      first[i \in 1 .. (Len(lines) + 1)] ==
        IF i > Len(lines) THEN {}
        ELSE IF opens(i) THEN {i} \cup first[BlockEnd(lines, i) + 1] ELSE first[i + 1]
  IN first[1]

Texts(lines, keep(_)) ==
  LET at == SetToSortSeq({i \in Blocks(lines) : keep(Name(lines[i]))}, <)
  IN [k \in DOMAIN at |-> SubSeq(lines, at[k], BlockEnd(lines, at[k]))]

\* parse_single_vevent refuses an event without a UID or a start.
Readable(block) ==
  \A name \in {"UID", "DTSTART"} : \E i \in DOMAIN block : block[i] = Property(name, block[i][3])

NoDocument == [refused |-> TRUE]

\* parse_document
ParseDocument(lines) ==
  LET within == UNION {b .. BlockEnd(lines, b) : b \in Blocks(lines)}
      own(i) == Wrapped(lines) /\ i \notin within /\ Kind(lines[i]) \in {"property", "junk"}
      last(name) == LET of == {i \in DOMAIN lines : own(i) /\ Name(lines[i]) = name}
                    IN IF of = {} THEN Unset ELSE lines[CHOOSE i \in of : \A j \in of : j <= i][3]
      events == Texts(lines, LAMBDA n : n = "VEVENT")
  IN IF \E k \in DOMAIN events : ~Readable(events[k]) THEN NoDocument
     ELSE [method |-> last("METHOD"), prodid |-> last("PRODID"),
           properties |-> Kept(lines, LAMBDA i : own(i) /\ Name(lines[i]) \notin {"METHOD", "PRODID"}),
           timezones |-> Texts(lines, LAMBDA n : n = "VTIMEZONE"), events |-> events,
           others |-> Texts(lines, LAMBDA n : n \notin {"VEVENT", "VTIMEZONE"})]

\* parse_vevents: the events of any text, wrapped or not.
ParseVevents(lines) ==
  LET first[i \in 1 .. (Len(lines) + 1)] ==
        IF i > Len(lines) THEN <<>>
        ELSE IF lines[i] = Begin("VEVENT")
        THEN <<SubSeq(lines, i, BlockEnd(lines, i))>> \o first[BlockEnd(lines, i) + 1] ELSE first[i + 1]
  IN first[1]

ToIcs(doc) ==
  LET stated(name, value, default) == IF value # Unset THEN <<Property(name, value)>> ELSE default
  IN <<Begin("VCALENDAR"), Property("VERSION", "2.0")>>
       \o stated("PRODID", doc.prodid, <<Property("PRODID", "jadav")>>) \o stated("METHOD", doc.method, <<>>)
       \o SelectSeq(doc.properties, LAMBDA l : Name(l) \notin {"VERSION", "PRODID", "METHOD"})
       \o FlattenSeq(doc.timezones) \o FlattenSeq(doc.events) \o FlattenSeq(doc.others)
       \o <<End("VCALENDAR")>>

-----------------------------------------------------------------------------
(* Lines of one block: only those at its top level are its own *)

\* Mutant of OwnLine: the lines of its alarms are taken for its own.
EveryLine(block, i) == Kind(block[i]) = "property"

OwnLine(block, i) == Depth(block, i) = 1 /\ Kind(block[i]) = "property"

\* rewrite_block_lines: f tells what takes the place of a line.
RewriteBlockLines(block, f(_)) ==
  FlattenSeq([i \in DOMAIN block |-> IF OwnLine(block, i) THEN f(block[i]) ELSE <<block[i]>>])

PropertyLines(block, names) == Kept(block, LAMBDA i : OwnLine(block, i) /\ Name(block[i]) \in names)

\* replace_block_property: once, where it stands first or before END:VEVENT.
ReplaceProperty(block, name, line) ==
  LET of == {i \in DOMAIN block : OwnLine(block, i) /\ Name(block[i]) = name}
      without == RewriteBlockLines(block, LAMBDA l : IF Name(l) = name THEN <<>> ELSE <<l>>)
      place == IF of = {} THEN Len(block) ELSE CHOOSE i \in of : \A j \in of : i <= j
  IN InsertAt(without, place, line)

\* strip_alarms
AlarmLine(block, i) ==
  \E a \in DOMAIN block : block[a] = Begin("VALARM") /\ a <= i /\ i <= BlockEnd(block, a)

StripAlarmLines(block) == Kept(block, LAMBDA i : ~AlarmLine(block, i))

Patched == {"DTSTART", "DTEND", "SUMMARY", "STATUS", "SEQUENCE", "RRULE"}

\* patch_raw_vevent: what is known is written anew before END, the alarms and
\* the guests only if they were edited.
PatchLines(block, lines, guests, alarms, scope) ==
  LET gone(i) == \/ OwnLine(block, i) /\ Name(block[i]) \in Patched
                 \/ OwnLine(block, i) /\ Name(block[i]) \in {"ATTENDEE", "ORGANIZER"} /\ "guests" \in scope
                 \/ AlarmLine(block, i) /\ "alarms" \in scope
      anew == lines \o (IF "guests" \in scope THEN guests ELSE <<>>)
                \o (IF "alarms" \in scope THEN alarms ELSE <<>>)
  IN Kept(block, LAMBDA i : ~gone(i) /\ i < Len(block)) \o anew \o <<block[Len(block)]>>

-----------------------------------------------------------------------------
(* Characters: a line as its characters' widths, or as its marks *)

\* fold_line: pieces of at most `limit` octets, the space before the later ones counted.
FoldLine(widths, limit) ==
  LET total(s) == FoldSeq(+, 0, s)
      cap(pieces) == IF Len(pieces) = 1 THEN limit ELSE limit - 1
      put(w, pieces) == IF total(Last(pieces)) + w > cap(pieces) THEN Append(pieces, <<w>>)
                        ELSE [pieces EXCEPT ![Len(pieces)] = Append(@, w)]
  IN IF total(widths) <= limit THEN <<widths>> ELSE FoldLeft(LAMBDA p, w : put(w, p), <<<<>>>>, widths)

NextOf(line, i, marks) ==
  LET at == {j \in i .. Len(line) : line[j] \in marks}
  IN IF at = {} THEN Len(line) + 1 ELSE CHOOSE j \in at : \A k \in at : j <= k

\* split_content_line: where the value begins, after a colon outside of quotes.
ValueAt(line) ==
  LET out(i) == Cardinality({j \in 1 .. i : line[j] = "\""}) % 2 = 0
      colons == {i \in DOMAIN line : line[i] = ":" /\ out(i)}
  IN IF colons = {} THEN 0 ELSE (CHOOSE i \in colons : \A j \in colons : i <= j) + 1

\* parse_content_line: where the value begins after the parameters, or 0.
ContentAt(line) ==
  LET after(i) ==  \* the end of a parameter's value that begins at i
        IF i <= Len(line) /\ line[i] = "\"" THEN NextOf(line, i + 1, {"\""}) + 1 ELSE NextOf(line, i, {";", ":"})
      params[i \in 1 .. (Len(line) + 2)] ==
        IF i > Len(line) THEN 0
        ELSE IF line[i] = ":" THEN i + 1
        ELSE IF line[i] # ";" \/ NextOf(line, i + 1, {"="}) > Len(line) THEN 0
        ELSE params[after(NextOf(line, i + 1, {"="}) + 1)]
  IN params[NextOf(line, 1, {";", ":"})]

\* set_param_on_line: the parameter is put last, quoted if it needs to be.
SetParam(line, param) ==
  LET quoted == IF \E i \in DOMAIN param : param[i] \in {";", ":"} THEN <<"\"">> \o param \o <<"\"">> ELSE param
  IN IF ValueAt(line) = 0 THEN line
     ELSE SubSeq(line, 1, ValueAt(line) - 2) \o <<";", "p", "=">> \o quoted
            \o SubSeq(line, ValueAt(line) - 1, Len(line))
=============================================================================
