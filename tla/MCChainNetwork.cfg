CONSTANTS
    e1 = e1
    e2 = e2
    v1 = v1
    v2 = v2
    w1 = w1
    Elections = {e1, e2}
    Votes = {v1, v2}
    GenesisData = GenesisData
    ElectionOf <- MCElectionOf
    MaxStops = 1
    MaxFaults = 0
    MaxLostReplies = 0
    Workers = {w1}
    Followed <- MCFollowed
    MaxHalts = 1
    MaxWriteFailures = 1
    MaxGarbled = 1
    MaxLostPublishes = 1
SPECIFICATION FairSpec
CHECK_DEADLOCK FALSE
INVARIANTS
    TypeOK
    ViewerTellsGaps
    HeldIsOnDisk
    ReplicasGenuine
PROPERTIES
    HeldOnlyGrows
    SyncCompletes
