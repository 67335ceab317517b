CONSTANTS
    Cfgs = {c1, c2}
    Named = {c1}
    Discoverable = {c1, c2}
    Addresses = {a1, a2}
    Submitted = {k1, k2}
    Procs = {p1, p2}
    Blank = Blank
    Null = Null
    MaxRows = 2
    MaxGenerated = 2
    MaxEdits = 3
SPECIFICATION Spec
INVARIANTS TypeOK TrustedIsProven GeneratedIsDurable OneDiscoveredRow
PROPERTIES NoLostUpdate
SYMMETRY Symmetry
CHECK_DEADLOCK FALSE
