SPECIFICATION FairSpec
CONSTANTS
    Diffs = {"update", "delete", "firewall"}
    Keys = {"vmid", "name", "firewall"}
    OpOf <- MCOpOf
    KeysOf <- MCKeysOf
    NoDiff = NoDiff
    Cancels = {c1}
    MaxFaults = 1
CHECK_DEADLOCK FALSE
INVARIANTS TypeOK SucceededMeansDone FailedMeansUnstamped
PROPERTIES RowSettles
