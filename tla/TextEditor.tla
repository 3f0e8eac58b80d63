----------------------------- MODULE TextEditor -----------------------------
(***************************************************************************)
(* What the body of a message being written is to its user: one text and a *)
(* caret in it.  ComposeForm keeps lines, a row and a column.              *)
(***************************************************************************)
EXTENDS Naturals, Sequences

CONSTANTS Char, Break

VARIABLES open, text, caret

editorVars == <<open, text, caret>>

Before == SubSeq(text, 1, caret)
After == SubSeq(text, caret + 1, Len(text))

EditorInit == open = FALSE /\ text = <<>> /\ caret = 0

\* A new message, a reply with its quotation, or a draft: the caret is at the top.
Open == ~open /\ open' = TRUE /\ text' \in Seq(Char \cup {Break}) /\ caret' = 0

Close == open /\ open' = FALSE /\ text' = <<>> /\ caret' = 0

Type ==
  \E c \in Char \cup {Break} :
    text' = Before \o <<c>> \o After /\ caret' = caret + 1

EraseBefore ==
  /\ caret > 0
  /\ text' = SubSeq(text, 1, caret - 1) \o After /\ caret' = caret - 1

EraseAfter ==
  /\ caret < Len(text)
  /\ text' = Before \o SubSeq(text, caret + 2, Len(text)) /\ caret' = caret

Move == text' = text /\ caret' \in 0 .. Len(text)

EditorNext ==
  \/ Open \/ Close
  \/ open /\ open' = TRUE /\ (Type \/ EraseBefore \/ EraseAfter \/ Move)
=============================================================================
