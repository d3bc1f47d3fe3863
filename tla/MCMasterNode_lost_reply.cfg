CONSTANTS
    e1 = e1
    e2 = e2
    v1 = v1
    v2 = v2
    v3 = v3
    Elections = {e1, e2}
    Votes = {v1, v2, v3}
    GenesisData = GenesisData
    ElectionOf <- MCOneElection
    MaxStops = 0
    MaxFaults = 0
    MaxLostReplies = 1
SPECIFICATION Spec
CHECK_DEADLOCK FALSE
INVARIANT
    StoredChainsLinked
