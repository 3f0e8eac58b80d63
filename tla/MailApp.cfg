SPECIFICATION MailSpec
CONSTANTS
  Email <- MCEmail
  MessageId <- MCMessageId
  InReplyTo <- MCInReplyTo
  References <- MCReferences
  Subject <- MCSubject
  LongSubject = {1}
  Date <- MCDate
  Account = {1, 2}
  Inbox = 2
  Box <- MCBox
  AtFirst = {1}
  Drafted <- MCDrafted
  Available <- MCAvailable
  Configured <- MCConfigured
  ShowUnlisted = {1}
  BatchSize = 1
  EveryNth = 2
  MaxDeeds = 3
INVARIANT ScreenIsTrue
PROPERTY RowsHold
