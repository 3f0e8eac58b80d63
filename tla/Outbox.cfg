SPECIFICATION MCSpec
CONSTANTS
  SentFolder = TRUE
  DraftFolder = TRUE
  MaxDrafts = 2
  MaxTexts = 2
  MaxSends = 2
  MaxSessions = 2
  Mail = {"m1", "m2"}
  NoMail = "nomail"
  NoFile = "nofile"
  Enclosed <- MCEnclosed
  Previewed = {"pic", "txt"}
  Linked <- MCLinked
  Author <- MCAuthor
  Quotation <- MCQuotation
  Char = {"a", "b"}
  Letter = {"a"}
  Known <- MCKnown
  Identities <- MCIdentities
  Folder <- MCFolder
  Top = "top"
  Saved <- MCSaved
  MaxKeys = 4
INVARIANT ListsAreTrue
INVARIANT SentAsShown
INVARIANT PreviewIsSelected
PROPERTY BodyIsText
CHECK_DEADLOCK FALSE
