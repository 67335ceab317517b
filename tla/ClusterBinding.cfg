CONSTANTS
    Endpoints = {e1, e2}
    Cores = {c1, c2}
    Tracks = {t1, t2}
    Names = {n1, n2}
    Txs = {x1, x2}
    None = None
SPECIFICATION Spec
SYMMETRY AnyNames
INVARIANTS TypeOK SyncedIsExclusive SidecarAgrees NoDeadlock
PROPERTIES NoNewAmbiguity ImplementsOwnership
CONSTRAINT Bounded
