SPECIFICATION Spec
CONSTANTS
    When = {w1, w2}
    OrgEdits = 3
    AttEdits = 1
    MaxSeq = 2
    MaxNow = 1
    MaxTries <- MCTries
    MaxFaults = 2
    Budgets <- MCBudgets
CHECK_DEADLOCK FALSE
SYMMETRY WhenSymmetry
INVARIANT MessagesTellApart
INVARIANT LatestArrives
