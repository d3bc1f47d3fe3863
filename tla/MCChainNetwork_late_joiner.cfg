CONSTANTS
    e1 = e1
    e2 = e2
    v1 = v1
    v2 = v2
    w1 = w1
    Elections = {e1}
    Votes = {v1, v2}
    GenesisData = GenesisData
    ElectionOf <- MCElectionOf
    MaxStops = 0
    MaxFaults = 0
    MaxLostReplies = 0
    Workers = {w1}
    Followed <- MCFollowed
    MaxHalts = 0
    MaxWriteFailures = 0
    MaxGarbled = 0
    MaxLostPublishes = 0
SPECIFICATION Spec
CHECK_DEADLOCK FALSE
INVARIANT
    LateJoinerKeepsUp
