SPECIFICATION Spec
CONSTANTS
    Slug = {n}
    Href = {h1, h2}
    Uid = {u1, u2}
    Text = {t1}
    Client = {c1}
    MaxId = 4
    MaxInc = 2
SYMMETRY Symmetry
INVARIANT ViewCurrent
INVARIANT LogTellsState
PROPERTY ServesContract
