SPECIFICATION FairSpec
CONSTANTS
    Diffs = {"update"}
    Keys = {"vmid", "name", "firewall"}
    OpOf <- MCOpOf
    KeysOf <- MCKeysOf
    NoDiff = NoDiff
    Cancels = {c1}
    MaxFaults = 0
CHECK_DEADLOCK FALSE
PROPERTIES MasterFlagRechecked
