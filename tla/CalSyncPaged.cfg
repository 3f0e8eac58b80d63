SPECIFICATION MCSpec
CONSTANTS
    Uid = {e1, e2}
    MaxId = 8
    MaxActs = 2
    MaxFaults = 2
    EtagOnPut = FALSE
    Inline = FALSE
    Paging = TRUE
    Name = {p, q}
    OwnName = {q}
    Wording = {x, y}
    User = {u, v}
    MaxAsked = 4
SYMMETRY PagedSymmetry
INVARIANT NothingMissing
INVARIANT HeldAsLogged
