CONSTANTS
    Cfgs = {c2}
    Named = {}
    Bakes = {c2}
    Broken = {}
    Addresses = {a1}
    Creds = {k1}
    Ids = {i1, i2}
    Procs = {p1, p2}
    Blank = Blank
    None = None
    MaxEdits = 2
    MaxFaults = 1
SPECIFICATION FairSpec
PROPERTIES Converges
