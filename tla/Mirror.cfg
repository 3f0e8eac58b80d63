SPECIFICATION FairSpec
CONSTANTS
    Uid = {a}
    Href = {a, x}
    MaxActs = 3
    MaxFaults = 1
INVARIANT TokenTellsMap
INVARIANT PushedOnce
PROPERTY Converges
