CONSTANTS
    Cfgs = {c1, c2}
    Named = {c1}
    Bakes = {c1, c2}
    Broken = {c1}
    Addresses = {a1, a2}
    Creds = {k1, k2}
    Ids = {i1, i2}
    Procs = {p1, p2}
    Blank = Blank
    None = None
    MaxEdits = 3
    MaxFaults = 0
SPECIFICATION Spec
INVARIANTS TypeOK DisclosedIsReviewed
PROPERTIES ApprovalIsExact
SYMMETRY Symmetry
