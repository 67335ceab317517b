CONSTANTS
    Endpoints = {1, 2}
    Enabled = {2}
    Keys = {k1}
    Kinds = {"full-update"}
    Tasks = {w1, w2}
    Users = {u1}
    None = None
    MaxRuns = 2
    MaxConns = 2
    MaxEdits = 1
    MaxFrames = 1
    MaxQueue = 1
SPECIFICATION Spec
SYMMETRY AnyTask
INVARIANTS TypeOK SentOnceToAuthorised RunningIsLatched CursorSeparatesRuns RefusedStaysLegacy
CHECK_DEADLOCK FALSE
