SPECIFICATION FairSpec
CONSTANTS
    Uid = {e1, e2}
    MaxId = 7
    MaxActs = 2
    MaxFaults = 2
    EtagOnPut = FALSE
    Inline = TRUE
    Paging = FALSE
INVARIANT SyncedRowsCurrent
PROPERTY PullSpares
PROPERTY Converges
