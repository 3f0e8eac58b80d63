SPECIFICATION FairSpec
CONSTANTS
    Folder = {a}
    Current = a
    Batch = 1
    MaxTries = 2
    MaxUid = 2
    MaxVal = 2
    MaxActs = 2
    MaxFaults = 1
INVARIANT NothingSkipped
INVARIANT OneMailbox
PROPERTY PruneOnlyGone
PROPERTY Converges
