---------------------------- MODULE HttpConnection ----------------------------
(***************************************************************************)
(* One connection to an HTTP server of the repository: jadav's CalDAV      *)
(* handler, its file server, which reads a body only if it wants it, and   *)
(* jamaild's CalDAV server; and what httpc makes of an answer. The bytes   *)
(* are tokens: the head of a request, the line that opens a chunk, a blank *)
(* line, and the bytes of a body.                                          *)
(***************************************************************************)
EXTENDS Naturals, Sequences

CONSTANTS
  Shape,        \* what a client may send: [handler, framing, chunks, expects, stays]
  Cap,           \* MAX_BODY_BYTES, MAX_RESPONSE_BYTES, max_upload
  MaxDrain,      \* MAX_DRAIN
  PerConnection, \* MAX_REQUESTS_PER_CONNECTION
  MaxSent        \* bound: requests a client writes on one connection

\* A chunk is never empty: an empty one ends the body.
ASSUME HttpAssumption ==
  /\ Cap \in Nat /\ MaxDrain \in Nat /\ PerConnection \in Nat /\ MaxSent \in Nat
  /\ \A shape \in Shape :
       /\ shape.framing \in {"none", "length", "chunked"} /\ shape.chunks \in Seq(Nat \ {0})
       /\ shape.framing = "none" => shape.chunks = <<>>

VARIABLES
  wire,      \* what the client wrote and the server has not read
  open,      \* the client's side of the connection
  requests,  \* the requests the client has begun, in order
  withheld,  \* the body that is to be sent once the server says 100 Continue
  phase,     \* what the server is at
  current,   \* the request the server has read the head of; 0: there was none on the wire
  invited,   \* 100 Continue was sent for it
  served,    \* what the handlers were given: <<request, body>>
  replies,   \* for each answer, whether the connection goes on
  fetched    \* what httpc returned for an answer that came as [framing, body, came]

httpVars == <<wire, open, requests, withheld, phase, current, invited, served, replies, fetched>>

Headline(k) == [is |-> "head", n |-> k]
Byte(k) == [is |-> "byte", n |-> k]
Size(n) == [is |-> "size", n |-> n]
BlankLine == [is |-> "blank", n |-> 0]

Bytes(n, k) == [i \in 1 .. n |-> Byte(k)]
Chunk(n, k) == <<Size(n)>> \o Bytes(n, k) \o <<BlankLine>>

\* What a body is, and how it travels.
Total(shape) ==
  LET upTo[i \in 0 .. Len(shape.chunks)] == IF i = 0 THEN 0 ELSE upTo[i - 1] + shape.chunks[i]
  IN upTo[Len(shape.chunks)]

Together(parts) ==
  LET upTo[i \in 0 .. Len(parts)] == IF i = 0 THEN <<>> ELSE upTo[i - 1] \o parts[i]
  IN upTo[Len(parts)]

Body(shape, k) == Bytes(Total(shape), k)
Travels(shape, k) ==
  IF shape.framing = "chunked"
  THEN Together([i \in DOMAIN shape.chunks |-> Chunk(shape.chunks[i], k)]) \o <<Size(0), BlankLine>>
  ELSE Body(shape, k)

NoBytes == [ended |-> "done", body |-> <<>>, rest |-> <<>>]

\* A round of the loop that reads chunks: the next one begins at r.at.
NextChunk(w, r) ==
  LET n == w[r.at].n
      blank == r.at + n + 1
  IN IF r.ended # "more" THEN r
     ELSE IF r.at > Len(w) THEN [r EXCEPT !.ended = "short"]
     ELSE IF w[r.at].is # "size" THEN [r EXCEPT !.ended = "bad"]
     ELSE IF blank > Len(w) THEN [r EXCEPT !.ended = "short", !.body = @ \o SubSeq(w, r.at + 1, Len(w))]
     ELSE IF w[blank] # BlankLine THEN [r EXCEPT !.ended = "bad"]
     ELSE [ended |-> IF n = 0 THEN "done" ELSE "more",
           body |-> r.body \o SubSeq(w, r.at + 1, r.at + n), at |-> blank + 1]

\* Each round takes up a line at least, or is the last.
Chunks(w) ==
  LET after[i \in 0 .. Len(w) + 1] ==
        IF i = 0 THEN [ended |-> "more", body |-> <<>>, at |-> 1] ELSE NextChunk(w, after[i - 1])
      r == after[Len(w) + 1]
  IN [ended |-> r.ended, body |-> r.body, rest |-> IF r.ended = "done" THEN SubSeq(w, r.at, Len(w)) ELSE <<>>]

\* A body read from w: done, or cut short, or not to be understood, or too large.
ReadBody(framing, length, w) ==
  LET r == CASE framing = "none" -> [NoBytes EXCEPT !.rest = w]
             [] framing = "chunked" -> Chunks(w)
             [] framing = "length" /\ Len(w) < length -> [NoBytes EXCEPT !.ended = "short", !.body = w]
             [] OTHER -> [NoBytes EXCEPT !.body = SubSeq(w, 1, length), !.rest = SubSeq(w, length + 1, Len(w))]
  IN IF Len(r.body) > Cap \/ (framing = "length" /\ length > Cap) THEN [r EXCEPT !.ended = "large"] ELSE r

\* httpc: an answer to HEAD has no body, and one without a length goes on to the end.
ReadAnswer(method, framing, length, w) ==
  IF method = "HEAD" THEN NoBytes
  ELSE IF framing = "none" THEN [NoBytes EXCEPT !.body = w]
  ELSE ReadBody(framing, length, w)

-----------------------------------------------------------------------------

HttpInit ==
  /\ wire = <<>> /\ open = TRUE /\ requests = <<>> /\ withheld = <<>>
  /\ phase = "head" /\ current = 0 /\ invited = FALSE
  /\ served = <<>> /\ replies = <<>> /\ fetched = <<>>

Alone == [handler |-> "caldav", framing |-> "none", chunks |-> <<>>, expects |-> FALSE, stays |-> FALSE]
Current == IF current = 0 THEN Alone ELSE requests[current]

\* The client writes a request, before or after the last was answered; or it
\* withholds the body until it is asked for. A connection may break anywhere.
SendRequest ==
  /\ open /\ withheld = <<>> /\ phase # "gone" /\ fetched = <<>> /\ Len(requests) < MaxSent
  /\ \E shape \in Shape, broken \in BOOLEAN :
       LET k == Len(requests) + 1
           body == Travels(shape, k)
       IN /\ requests' = Append(requests, shape)
          /\ IF shape.expects
             THEN /\ wire' = Append(wire, Headline(k)) /\ withheld' = body
                  /\ broken = FALSE
             ELSE /\ \E n \in (IF broken THEN 0 .. (Len(body) - 1) ELSE {Len(body)}) :
                       wire' = Append(wire, Headline(k)) \o SubSeq(body, 1, n)
                  /\ withheld' = <<>>
          /\ open' = ~broken
  /\ UNCHANGED <<phase, current, invited, served, replies, fetched>>

\* The body follows when the server asked for it, or the client is tired of
\* waiting; if an answer came instead it is not sent.
SendWithheld ==
  /\ open /\ withheld # <<>>
  /\ \E n \in 0 .. Len(withheld) :
       /\ n > 0 => Len(replies) < Len(requests)
       /\ n = 0 => Len(replies) = Len(requests)
       /\ wire' = wire \o SubSeq(withheld, 1, n)
       /\ open' = (n \in {0, Len(withheld)})
  /\ withheld' = <<>>
  /\ UNCHANGED <<requests, phase, current, invited, served, replies, fetched>>

Close ==
  /\ open /\ requests # <<>>
  /\ open' = FALSE
  /\ UNCHANGED <<wire, requests, withheld, phase, current, invited, served, replies, fetched>>

-----------------------------------------------------------------------------

\* What is on the wire is taken for the head of a request.
ReadHead ==
  /\ phase = "head"
  /\ IF wire = <<>> \/ Len(replies) = PerConnection
     THEN /\ ~open \/ Len(replies) = PerConnection
          /\ phase' = "gone"
          /\ UNCHANGED <<wire, current>>
     ELSE /\ wire' = Tail(wire)
          /\ current' = IF wire[1].is = "head" THEN wire[1].n ELSE 0
          /\ phase' = "asked"
  /\ invited' = FALSE
  /\ UNCHANGED <<open, requests, withheld, served, replies, fetched>>

\* jadav answers Expect before it reads a body; the file server when a handler
\* wants the body; jamaild's server does not know the header.
Continue ==
  /\ phase = "asked" /\ Current.expects /\ ~invited
  /\ Current.handler = "caldav" \/ (Current.handler = "dav" /\ Current.framing # "none")
  /\ invited' = TRUE
  /\ UNCHANGED <<wire, open, requests, withheld, phase, current, served, replies, fetched>>

Reply(goesOn) ==
  /\ replies' = Append(replies, goesOn)
  /\ phase' = IF goesOn THEN "head" ELSE "gone"

Taken == ReadBody(Current.framing, Total(Current), wire)
Arrived == Taken.ended # "short" \/ ~open

\* The CalDAV servers: the whole body, or no request.
HandleWhole ==
  /\ phase = "asked" /\ Current.handler # "dav" /\ Arrived
  /\ (Current.expects /\ Current.handler = "caldav") => invited
  /\ wire' = Taken.rest
  /\ IF Taken.ended = "done"
     THEN /\ served' = Append(served, <<current, Taken.body>>)
          /\ Reply(Current.stays /\ Current.handler = "caldav")
     ELSE /\ served' = served
          /\ IF Current.handler = "caldav" THEN Reply(FALSE) ELSE phase' = "gone" /\ replies' = replies
  /\ UNCHANGED <<open, requests, withheld, current, invited, fetched>>

\* The file server: an upload or an XML body is read to its end.
TakeBody ==
  /\ phase = "asked" /\ Current.handler = "dav" /\ Arrived
  /\ (Current.expects /\ Current.framing # "none") => invited
  /\ wire' = Taken.rest
  /\ served' = IF Taken.ended = "done" THEN Append(served, <<current, Taken.body>>) ELSE served
  /\ Reply(Current.stays /\ Taken.ended = "done")
  /\ UNCHANGED <<open, requests, withheld, current, invited, fetched>>

\* It is refused, or its method has no use for a body: what of it is announced
\* to be short is read and thrown away.
Drains == ~Current.expects /\ Current.framing = "length" /\ Total(Current) <= MaxDrain
LeftAnyway == TRUE

Finished == Current.framing = "none" \/ (Drains /\ Taken.ended = "done")

LeaveBody ==
  /\ phase = "asked" /\ Current.handler = "dav" /\ ~invited
  /\ Drains => Arrived
  /\ wire' = IF Drains THEN Taken.rest ELSE wire
  /\ Reply(Current.stays /\ Finished)
  /\ UNCHANGED <<open, requests, withheld, current, invited, served, fetched>>

\* httpc reads the answer of some server, which may be cut anywhere.
FetchAnswer ==
  /\ requests = <<>> /\ open
  /\ \E shape \in Shape, method \in {"HEAD", "GET"} :
       LET all == Travels(shape, 1)
       IN \E n \in 0 .. Len(all) :
            LET r == ReadAnswer(method, shape.framing, Total(shape), SubSeq(all, 1, n))
            IN fetched' = <<method, shape, n = Len(all), r.ended, r.body>>
  /\ UNCHANGED <<wire, open, requests, withheld, phase, current, invited, served, replies>>

HttpNext ==
  \/ SendRequest \/ SendWithheld \/ Close
  \/ ReadHead \/ Continue \/ HandleWhole \/ TakeBody \/ LeaveBody
  \/ FetchAnswer

-----------------------------------------------------------------------------

\* On a connection that carries several requests each is read where it begins
\* and with its own body, whole, whether or not the last one's body was wanted, and
\* the server waits for no more than was sent; one whose body is cut short is
\* never handed on. And httpc takes a part
\* of an answer for the whole only if the answer did not say how long it is
\* (BodyReader, handle_connection, read_body).
RequestsAreReadApart ==
  /\ \A i \in DOMAIN served :
       /\ served[i][1] # 0
       /\ served[i][2] = Body(requests[served[i][1]], served[i][1])
       /\ i > 1 => served[i - 1][1] < served[i][1]
  /\ phase = "asked" => current = Len(replies) + 1
  /\ (phase = "asked" /\ open /\ withheld = <<>>) => Taken.ended # "short"
  /\ (fetched # <<>> /\ fetched[4] = "done" /\ fetched[1] = "GET") =>
       (fetched[3] /\ fetched[5] = Body(fetched[2], 1)) \/ fetched[2].framing = "none"
=============================================================================
