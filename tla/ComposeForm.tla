---------------------------- MODULE ComposeForm ----------------------------
(***************************************************************************)
(* The message on screen in jamail and the form a new one is written in    *)
(* (app.rs and the keys of bin/jamail.rs), up to the send worker that      *)
(* takes the form's files and addresses (smtp.rs).  What becomes of the    *)
(* rows of drafts and sent messages is in Outbox.                          *)
(*                                                                         *)
(* The attachments of a forwarded message are files in a directory of      *)
(* /tmp named after it, which the form removes when it is cleared or       *)
(* cancelled; a job of the worker only names them.  The subject is left    *)
(* out, and so are scrolling and the cursor within an address.             *)
(***************************************************************************)
EXTENDS Naturals, SequencesExt

CONSTANTS
  Mail,        \* the messages that can be opened
  NoMail,
  NoFile,
  Enclosed,    \* the files of a message, in order
  Previewed,   \* the files that can be shown
  Linked,      \* the mail addresses among the links of a message, in order
  Author,      \* whom a reply goes to
  Quotation,   \* the lines a reply or a forward begins with
  Char,        \* characters; "comma" and "space" are more of them
  Letter,      \* those that are typed
  Known,       \* the addresses mail was exchanged with, in order
  Identities,  \* the configurations of senders: sequences
  Folder,      \* what the file browser finds: per folder its entries, in order
  Top,         \* the folder it starts in
  Saved,       \* the message saved in an earlier session
  MaxKeys      \* bound: keys that do more than move

AddressField == {"To", "Cc", "Bcc"}
Address == Seq(Char \cup {"comma", "space"})
NoDraft == [lines |-> <<>>]

ASSUME ComposeAssumption ==
  /\ MaxKeys \in Nat /\ NoMail \notin Mail /\ Letter \subseteq Char
  /\ \A m \in Mail : Author[m] \in Address /\ Linked[m] \in Seq(Address)
  /\ \A m \in Mail : Quotation[m] \in Seq(Seq(Char))
  /\ Saved = NoDraft \/ Saved.lines \in Seq(Seq(Char)) \ {<<>>}
  /\ Known \in Seq(Address) /\ (Saved = NoDraft \/ Saved.address \in [AddressField -> Address])

VARIABLES
  keys,        \* keys pressed
  page,        \* "list", "detail" or "compose"
  back,        \* the page compose was opened from
  detail,      \* the message on screen
  form,        \* the fields of the form
  browser,     \* the file browser
  forwarded,   \* compose_forward_email_id
  temps,       \* the messages whose files are in /tmp
  draft,       \* the message last saved
  posted,      \* the jobs of the send worker
  identities,  \* the senders of the account
  picked,      \* history: per address field, what it came with or was chosen from the suggestions
  letters,     \* history: what the forms said that were sent
  accepted     \* history: what the worker handed to the server

formVars == <<form, browser, forwarded, temps, picked>>
composeVars == <<keys, page, back, detail, formVars, draft, posted, identities, letters, accepted>>

NoDetail == [mail |-> NoMail, mode |-> "text", attachment |-> 1, link |-> 1, preview |-> NoFile, raw |-> FALSE]
NoAddresses == [f \in AddressField |-> <<>>]
Nobody == [f \in AddressField |-> {}]

\* clear_compose; the form is written over when it is opened again.
Blank ==
  [field |-> "To", senders |-> <<>>, from |-> <<>>, address |-> NoAddresses, lines |-> <<<<>>>>,
   row |-> 1, col |-> 0, attached |-> <<>>, offered |-> {}, offering |-> FALSE, choice |-> 1]

ComposeInit ==
  /\ keys = 0 /\ page = "list" /\ back = "list" /\ detail = NoDetail
  /\ form = Blank /\ browser = [at |-> Top, entry |-> 1, hidden |-> FALSE]
  /\ forwarded = NoMail /\ temps = {} /\ picked = Nobody
  /\ draft = Saved /\ posted = <<>> /\ identities \in Identities
  /\ letters = {} /\ accepted = {}

Key == keys < MaxKeys /\ keys' = keys + 1

-----------------------------------------------------------------------------
(* The message on screen.                                                    *)

Wrapped(i, n) == IF i > n THEN 1 ELSE IF i = 0 THEN n ELSE i

\* Mutant of UpdatePreview: what is shown stays as long as attachments are.
PreviewOnce(d) ==
  IF d.mode # "attachments" \/ Enclosed[d.mail] = <<>> THEN [d EXCEPT !.preview = NoFile]
  ELSE IF d.preview # NoFile THEN d
  ELSE [d EXCEPT !.preview = IF Enclosed[d.mail][d.attachment] \in Previewed
                             THEN Enclosed[d.mail][d.attachment] ELSE NoFile]

\* update_image_preview
UpdatePreview(d) ==
  IF d.mode # "attachments" \/ Enclosed[d.mail] = <<>> THEN [d EXCEPT !.preview = NoFile]
  ELSE [d EXCEPT !.preview = IF Enclosed[d.mail][d.attachment] \in Previewed
                             THEN Enclosed[d.mail][d.attachment] ELSE NoFile]

Shows(d) ==
  /\ Key
  /\ detail' = d
  /\ UNCHANGED <<page, back, formVars, draft, posted, identities, letters, accepted>>

\* open_detail, and open_detail_by_id for the next message of list or thread:
\* the preview of the last one is left.
OpenDetail(m) ==
  /\ page \in {"list", "detail"} /\ detail.mode = "text" /\ m # detail.mail
  /\ Key
  /\ page' = "detail"
  /\ detail' = [NoDetail EXCEPT !.mail = m, !.preview = detail.preview]
  /\ UNCHANGED <<back, formVars, draft, posted, identities, letters, accepted>>

CloseDetail ==
  /\ page = "detail" /\ detail.mode = "text"
  /\ Key
  /\ page' = "list" /\ detail' = NoDetail
  /\ UNCHANGED <<back, formVars, draft, posted, identities, letters, accepted>>

\* Esc leaves the attachments or the links first.
LeaveMode ==
  /\ page = "detail" /\ detail.mode # "text"
  /\ Shows([detail EXCEPT !.mode = "text"])

OtherAttachment(by) ==
  /\ page = "detail" /\ detail.mode = "attachments"
  /\ LET n == Len(Enclosed[detail.mail]) IN
     Shows(UpdatePreview([detail EXCEPT !.attachment = Wrapped(IF by = "next" THEN @ + 1 ELSE @ - 1, n)]))

OtherLink(by) ==
  /\ page = "detail" /\ detail.mode # "attachments" /\ Linked[detail.mail] # <<>>
  /\ LET n == Len(Linked[detail.mail]) IN
     Shows([detail EXCEPT !.link = Wrapped(IF by = "next" THEN @ + 1 ELSE @ - 1, n)])

\* cycle_detail_mode
CycleMode ==
  LET files == Enclosed[detail.mail] # <<>>
      links == Linked[detail.mail] # <<>>
      next == CASE detail.mode = "text" /\ files -> "attachments"
                [] detail.mode # "links" /\ links -> "links"
                [] OTHER -> "text"
  IN /\ page = "detail"
     /\ Shows(UpdatePreview(IF detail.raw THEN detail ELSE [detail EXCEPT !.mode = next]))

ToggleRawHeaders ==
  /\ page = "detail"
  /\ Shows([detail EXCEPT !.raw = ~@, !.mode = IF detail.raw THEN @ ELSE "text"])

-----------------------------------------------------------------------------
(* What an address field says.                                               *)

Trimmed(t) ==
  LET solid == {i \in DOMAIN t : t[i] # "space"} IN
  IF solid = {} THEN <<>>
  ELSE SubSeq(t, CHOOSE i \in solid : \A j \in solid : i <= j, CHOOSE i \in solid : \A j \in solid : j <= i)

Commas(t) == {i \in DOMAIN t : t[i] = "comma"}

\* Up to and with the last comma.
UpToComma(t) ==
  IF Commas(t) = {} THEN <<>> ELSE SubSeq(t, 1, CHOOSE i \in Commas(t) : \A j \in Commas(t) : j <= i)

\* Nothing but spaces between two places.
Gap(t, a, b) == \A k \in DOMAIN t : a < k /\ k < b => t[k] = "space"

\* The address that lies between two commas, or the ends, without the spaces around it.
AddressAt(t, i, j) ==
  /\ i <= j /\ t[i] # "space" /\ t[j] # "space"
  /\ \A k \in Commas(t) : k < i \/ j < k
  /\ \E a \in {0} \cup Commas(t) : a < i /\ Gap(t, a, i)
  /\ \E b \in Commas(t) \cup {Len(t) + 1} : j < b /\ Gap(t, j, b)

\* split_addresses
Recipients(t) == {SubSeq(t, p[1], p[2]) : p \in {p \in (1 .. Len(t)) \X (1 .. Len(t)) : AddressAt(t, p[1], p[2])}}

-----------------------------------------------------------------------------
(* Opening the form.                                                         *)

\* cleanup_forward_temps
WithoutTemps == temps \ {forwarded}

\* build_sender_list; the first one writes.
Opened == [Blank EXCEPT !.senders = identities, !.from = Head(identities)]

\* An address that a comma follows is complete.
Enter(f) ==
  /\ page # "compose"
  /\ Key
  /\ page' = "compose" /\ back' = page
  /\ form' = f
  /\ picked' = [field \in AddressField |-> Recipients(UpToComma(f.address[field]))]
  /\ UNCHANGED <<detail, browser, posted, draft, identities, letters, accepted>>

EnterNew ==
  /\ Enter(Opened)
  /\ temps' = WithoutTemps /\ forwarded' = NoMail

\* open_selected_link: enter_compose_new_with_to
OpenSelectedLink ==
  /\ page = "detail" /\ detail.mode # "attachments" /\ Linked[detail.mail] # <<>>
  /\ Enter([Opened EXCEPT !.address["To"] = Linked[detail.mail][detail.link], !.field = "Subject"])
  /\ temps' = WithoutTemps /\ forwarded' = NoMail

EnterReply ==
  /\ page = "detail"
  /\ Enter([Opened EXCEPT !.address["To"] = Author[detail.mail], !.field = "Body",
                          !.lines = <<<<>>, <<>>>> \o Quotation[detail.mail]])
  /\ temps' = WithoutTemps /\ forwarded' = NoMail

\* The attachments are written to the directory of the message.
EnterForward ==
  LET m == detail.mail
      files == Enclosed[m] IN
  /\ page = "detail"
  /\ Enter([Opened EXCEPT !.lines = <<<<>>, <<>>>> \o Quotation[m],
                          !.attached = [i \in DOMAIN files |-> [of |-> m, name |-> files[i]]]])
  /\ temps' = IF files = <<>> THEN WithoutTemps ELSE WithoutTemps \cup {m}
  /\ forwarded' = IF files = <<>> THEN NoMail ELSE m

\* The lines of a body that was stored as one text: a last empty one is not told.
Restored(lines) ==
  IF Len(lines) > 1 /\ Last(lines) = <<>> THEN Front(lines) ELSE lines

\* resume_draft: without the attachments, and the directory of an earlier
\* forward is forgotten.
ResumeDraft ==
  /\ draft # NoDraft
  /\ Enter([Opened EXCEPT !.from = draft.from, !.address = draft.address, !.lines = Restored(draft.lines), !.field = "Body"])
  /\ forwarded' = NoMail
  /\ UNCHANGED temps

Leave ==
  /\ page' = back
  /\ form' = Blank /\ picked' = Nobody
  /\ UNCHANGED <<back, detail, browser, identities, accepted>>

\* The keys of an address field go to its suggestions first.
Suggesting == form.offering /\ form.field \in AddressField

\* cancel_compose; not from the file browser.
CancelCompose ==
  /\ page = "compose" /\ form.field # "FileBrowser" /\ ~Suggesting
  /\ Key
  /\ temps' = WithoutTemps /\ forwarded' = NoMail
  /\ Leave
  /\ UNCHANGED <<draft, posted, letters>>

-----------------------------------------------------------------------------
(* Fields. Moving and choosing cost no key.                                  *)

Writes(f, cost) ==
  /\ page = "compose"
  /\ IF cost THEN Key ELSE UNCHANGED keys
  /\ form' = f
  /\ UNCHANGED <<page, back, detail, browser, forwarded, temps, draft, posted, identities, letters, accepted>>

FieldOrder == <<"From", "To", "Cc", "Bcc", "Subject", "Body">>
PlaceOf(field) == CHOOSE i \in DOMAIN FieldOrder : FieldOrder[i] = field

NextField ==
  /\ form.field \notin {"Body", "FileBrowser"} /\ ~Suggesting
  /\ Writes([form EXCEPT !.field = FieldOrder[PlaceOf(@) + 1], !.offering = FALSE], FALSE)
  /\ UNCHANGED picked

\* The senders can be reached only when there is a choice.
PrevField ==
  /\ form.field \notin {"From", "FileBrowser"} /\ ~Suggesting
  /\ form.field = "To" => Len(form.senders) > 1
  /\ Writes([form EXCEPT !.field = FieldOrder[PlaceOf(@) - 1], !.offering = FALSE], FALSE)
  /\ UNCHANGED picked

\* cycle_sender_forward and _backward; an address that is no sender any more
\* counts as the first.
CycleSender(by) ==
  LET places == {i \in DOMAIN form.senders : form.senders[i] = form.from}
      i == IF places = {} THEN 1 ELSE CHOOSE i \in places : TRUE IN
  /\ form.field = "From" /\ Len(form.senders) > 1
  /\ Writes([form EXCEPT !.from = form.senders[Wrapped(IF by = "next" THEN i + 1 ELSE i - 1, Len(form.senders))]], FALSE)
  /\ UNCHANGED picked

-----------------------------------------------------------------------------
(* Addresses.                                                                *)

HasPart(a, part) == \E i \in 0 .. Len(a) - Len(part) : SubSeq(a, i + 1, i + Len(part)) = part

\* compose_update_suggestions: the addresses offered, by their places among the known ones.
Suggested(f) ==
  LET t == f.address[f.field]
      part == Trimmed(SubSeq(t, Len(UpToComma(t)) + 1, Len(t)))
      found == {i \in DOMAIN Known : Len(part) > 1 /\ HasPart(Known[i], part)}
  IN [f EXCEPT !.offered = found, !.offering = found # {},
               !.choice = IF found = {} THEN 1 ELSE CHOOSE i \in found : \A j \in found : i <= j]

AddressInput(c) ==
  /\ form.field \in AddressField
  /\ Writes(Suggested([form EXCEPT !.address[form.field] = Append(@, c)]), TRUE)
  /\ UNCHANGED picked

AddressBackspace ==
  /\ form.field \in AddressField /\ form.address[form.field] # <<>>
  /\ Writes(Suggested([form EXCEPT !.address[form.field] = Front(@)]), TRUE)
  /\ picked' = [picked EXCEPT ![form.field] = {}]

ChooseSuggestion(i) ==
  /\ Suggesting
  /\ i \in form.offered \ {form.choice}
  /\ \A j \in form.offered : ~(i < j /\ j < form.choice) /\ ~(form.choice < j /\ j < i)
  /\ Writes([form EXCEPT !.choice = i], FALSE)
  /\ UNCHANGED picked

HideSuggestions ==
  /\ Suggesting
  /\ Writes([form EXCEPT !.offering = FALSE], FALSE)
  /\ UNCHANGED picked

\* Mutant of Accepted: the suggestion takes the place of the whole field.
AcceptedAlone(t, suggestion) == suggestion \o <<"comma", "space">>

\* What compose_accept_suggestion makes of the field.
Accepted(t, suggestion) ==
  UpToComma(t) \o (IF Commas(t) = {} THEN <<>> ELSE <<"space">>) \o suggestion \o <<"comma", "space">>

AcceptSuggestion ==
  LET chosen == Known[form.choice] IN
  /\ Suggesting
  /\ Writes([form EXCEPT !.address[form.field] = Accepted(@, chosen),
                         !.offering = FALSE, !.offered = {}, !.choice = 1], FALSE)
  /\ picked' = [picked EXCEPT ![form.field] = @ \cup Recipients(chosen)]

-----------------------------------------------------------------------------
(* The body: lines, a row and a column in it.                                *)

Line == form.lines[form.row]
LineBefore == SubSeq(Line, 1, form.col)
LineAfter == SubSeq(Line, form.col + 1, Len(Line))

Edits(f, cost) ==
  /\ form.field = "Body"
  /\ Writes(f, cost)
  /\ UNCHANGED picked

InsertChar(c) ==
  Edits([form EXCEPT !.lines[form.row] = LineBefore \o <<c>> \o LineAfter, !.col = @ + 1], TRUE)

Newline ==
  Edits([form EXCEPT !.lines = InsertAt([form.lines EXCEPT ![form.row] = LineBefore], form.row + 1, LineAfter),
                     !.row = @ + 1, !.col = 0], TRUE)

\* Mutant of JoinedAt: the second line is put first.
JoinedSwapped(lines, r) == RemoveAt([lines EXCEPT ![r] = lines[r + 1] \o lines[r]], r + 1)

\* A line and the next one become one.
JoinedAt(lines, r) == RemoveAt([lines EXCEPT ![r] = lines[r] \o lines[r + 1]], r + 1)

Backspace ==
  \/ /\ form.col > 0
     /\ Edits([form EXCEPT !.lines[form.row] = SubSeq(Line, 1, form.col - 1) \o LineAfter, !.col = @ - 1], TRUE)
  \/ /\ form.col = 0 /\ form.row > 1
     /\ Edits([form EXCEPT !.lines = JoinedAt(@, form.row - 1), !.row = @ - 1,
                           !.col = Len(form.lines[form.row - 1])], TRUE)

DeleteChar ==
  \/ /\ form.col < Len(Line)
     /\ Edits([form EXCEPT !.lines[form.row] = LineBefore \o Tail(LineAfter)], TRUE)
  \/ /\ form.col = Len(Line) /\ form.row < Len(form.lines)
     /\ Edits([form EXCEPT !.lines = JoinedAt(@, form.row)], TRUE)

MoveTo(r, c) == Edits([form EXCEPT !.row = r, !.col = c], FALSE)

\* Up and down stay in the column as far as the line goes.
Least(a, b) == IF a < b THEN a ELSE b
MoveUp == form.row > 1 /\ MoveTo(form.row - 1, Least(form.col, Len(form.lines[form.row - 1])))
MoveDown == form.row < Len(form.lines) /\ MoveTo(form.row + 1, Least(form.col, Len(form.lines[form.row + 1])))

MoveLeft ==
  \/ form.col > 0 /\ MoveTo(form.row, form.col - 1)
  \/ form.col = 0 /\ form.row > 1 /\ MoveTo(form.row - 1, Len(form.lines[form.row - 1]))

MoveRight ==
  \/ form.col < Len(Line) /\ MoveTo(form.row, form.col + 1)
  \/ form.col = Len(Line) /\ form.row < Len(form.lines) /\ MoveTo(form.row + 1, 0)

HomeOrEnd == MoveTo(form.row, 0) \/ MoveTo(form.row, Len(Line))

-----------------------------------------------------------------------------
(* Files.                                                                    *)

\* refresh_filebrowser
Entries(b) == SelectSeq(Folder[b.at].entries, LAMBDA e : b.hidden \/ ~e.dotted)

Browses(b, f) ==
  /\ page = "compose"
  /\ Key
  /\ browser' = b /\ form' = f
  /\ UNCHANGED <<page, back, detail, forwarded, temps, picked, draft, posted, identities, letters, accepted>>

OpenFileBrowser ==
  Browses([browser EXCEPT !.entry = 1], [form EXCEPT !.field = "FileBrowser"])

LeaveFileBrowser ==
  form.field = "FileBrowser" /\ Browses(browser, [form EXCEPT !.field = "Body"])

BrowserMove(i) ==
  /\ form.field = "FileBrowser"
  /\ i \in {browser.entry - 1, browser.entry + 1} \cap DOMAIN Entries(browser)
  /\ Browses([browser EXCEPT !.entry = i], form)

\* A folder is entered, a file is attached.
BrowserEnter ==
  /\ form.field = "FileBrowser" /\ browser.entry \in DOMAIN Entries(browser)
  /\ LET e == Entries(browser)[browser.entry] IN
     IF e.folder
     THEN Browses([browser EXCEPT !.at = e.name, !.entry = 1], form)
     ELSE Browses(browser, [form EXCEPT !.attached = Append(@, [of |-> NoMail, name |-> e.name]), !.field = "Body"])

BrowserParent ==
  /\ form.field = "FileBrowser" /\ Folder[browser.at].parent # browser.at
  /\ Browses([browser EXCEPT !.at = Folder[browser.at].parent, !.entry = 1], form)

BrowserHidden ==
  /\ form.field = "FileBrowser"
  /\ Browses([browser EXCEPT !.hidden = ~@, !.entry = 1], form)

RemoveLastAttachment ==
  /\ form.attached # <<>>
  /\ Writes([form EXCEPT !.attached = Front(@)], TRUE)
  /\ UNCHANGED picked

-----------------------------------------------------------------------------
(* Saving and sending.                                                       *)

DraftOf(f) == [from |-> f.from, address |-> f.address, lines |-> f.lines]

SaveForm ==
  /\ page = "compose"
  /\ Key
  /\ draft' = DraftOf(form)
  /\ UNCHANGED <<page, back, detail, formVars, posted, identities, letters, accepted>>

Everyone(f) == UNION {Recipients(f.address[field]) : field \in AddressField}

LetterOf(f) == [from |-> f.from, recipients |-> Everyone(f), files |-> f.attached]

\* compose_from_is_valid
FromIsValid(f) == f.from \in ToSet(f.senders)

\* handle_compose_send: the form's directory of forwarded files stays.
SendForm ==
  /\ page = "compose" /\ FromIsValid(form) /\ Trimmed(form.address["To"]) # <<>>
  /\ Key
  /\ draft' = DraftOf(form)
  /\ posted' = Append(posted, LetterOf(form))
  /\ letters' = letters \cup {[said |-> LetterOf(form), own |-> form.from \in ToSet(identities)]}
  /\ Leave
  /\ UNCHANGED <<forwarded, temps>>

\* A file of a forwarded message is read from its directory.
Readable(file) == file.of = NoMail \/ file.of \in temps

\* The message send_email builds of a job, if it can.
Built(job) ==
  IF job.recipients # {} /\ \A i \in DOMAIN job.files : Readable(job.files[i]) THEN {job} ELSE {}

WorkerSends ==
  /\ posted # <<>>
  /\ posted' = Tail(posted)
  /\ accepted' \in {accepted, accepted \cup Built(Head(posted))}
  /\ UNCHANGED <<keys, page, back, detail, formVars, draft, identities, letters>>

\* jamail is quit and started again, perhaps with other senders.
StartAgain ==
  /\ Key
  /\ page' = "list" /\ back' = "list" /\ detail' = NoDetail
  /\ form' = Blank /\ picked' = Nobody /\ browser' = [at |-> Top, entry |-> 1, hidden |-> FALSE]
  /\ forwarded' = NoMail /\ posted' = <<>>
  /\ identities' \in Identities
  /\ UNCHANGED <<temps, draft, letters, accepted>>

-----------------------------------------------------------------------------
ComposeNextStep ==
  \/ \E m \in Mail : OpenDetail(m)
  \/ CloseDetail \/ LeaveMode \/ CycleMode \/ ToggleRawHeaders
  \/ \E by \in {"next", "prev"} : OtherAttachment(by) \/ OtherLink(by) \/ CycleSender(by)
  \/ EnterNew \/ OpenSelectedLink \/ EnterReply \/ EnterForward \/ ResumeDraft \/ CancelCompose
  \/ NextField \/ PrevField
  \/ \E c \in Letter \cup {"comma"} : AddressInput(c)
  \/ AddressBackspace \/ HideSuggestions \/ AcceptSuggestion
  \/ \E i \in DOMAIN Known : ChooseSuggestion(i)
  \/ \E c \in Letter : InsertChar(c)
  \/ Newline \/ Backspace \/ DeleteChar
  \/ MoveUp \/ MoveDown \/ MoveLeft \/ MoveRight \/ HomeOrEnd
  \/ OpenFileBrowser \/ LeaveFileBrowser \/ BrowserEnter \/ BrowserParent \/ BrowserHidden
  \/ \E i \in DOMAIN Entries(browser) : BrowserMove(i)
  \/ RemoveLastAttachment \/ SaveForm \/ SendForm \/ WorkerSends \/ StartAgain

ComposeSpec == ComposeInit /\ [][ComposeNextStep]_composeVars

-----------------------------------------------------------------------------
(* What the user may rely on.                                                *)

\* What goes out is what a form said: a message leaves with every file that
\* was attached, or not at all, whatever has become of the directory a
\* forward keeps its files in; from an address configured at the time, though
\* it was written under another configuration; and an address once chosen
\* stays a recipient while others are typed after it.
SentAsShown ==
  /\ accepted \subseteq {l.said : l \in letters}
  /\ \A l \in letters : l.own
  /\ \A f \in AddressField : picked[f] \subseteq Recipients(form.address[f])

\* The attachment shown is the one selected, of the message on screen.
PreviewIsSelected ==
  detail.mode = "attachments" /\ detail.preview # NoFile
    => detail.preview = Enclosed[detail.mail][detail.attachment]

LineBreak == "NL"
\* The lines one after the other, each with its break.
Told(lines) ==
  LET upTo[i \in 0 .. Len(lines)] == IF i = 0 THEN <<>> ELSE upTo[i - 1] \o lines[i] \o <<LineBreak>>
  IN upTo[Len(lines)]

\* The last line has none; the caret is where its row begins, and as far as its column.
FlatText == Front(Told(form.lines))
FlatCaret == Len(Told(SubSeq(form.lines, 1, form.row - 1))) + form.col

Editor ==
  INSTANCE TextEditor
    WITH Break <- LineBreak,
         open <- page = "compose", text <- FlatText, caret <- FlatCaret

\* The body is a text with a caret in it: lines that are split and joined, and
\* a column kept from one line to another, are never told from that.
BodyIsText == Editor!EditorInit /\ [][Editor!EditorNext]_(Editor!editorVars)
=============================================================================
