SPECIFICATION Spec
CONSTANTS
    Client = {c1, c2}
    Path <- MCPath
    Targets <- MCTargets
    Dests <- MCDests
    LockRoots <- MCLockRoots
    Mounted = {"m"}
    Access <- MCAccess
    InitTrees <- MCInitTrees
    Ttl = 1
    MaxLocks = 2
    MaxReqs = 2
    MaxAll = 3
    MaxFaults = 1
CHECK_DEADLOCK FALSE
SYMMETRY ClientSymmetry
INVARIANT LocksExclude
INVARIANT UploadsWhole
PROPERTY LocksHold
