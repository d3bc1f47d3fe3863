\* Each listing page over one item (three voters, two elections on the
\* dashboard), and the integration form, one at a time.  MaxChanges counts
\* changes of the collection and failed loads together.
SPECIFICATION FairSpec
CONSTANTS
    Screens = {"table", "form"}
    Pages = {"elections", "users", "approvals", "candidates", "voters", "dashboard"}
    Collection <- SmallCollections
    PageSize = 1
    StatusesUsed = {"draft", "enrolling_voters"}
    Extra = {"extra"}
    MaxChanges = 2
    MaxDialogs = 1
    Configs = {"empty", "a"}
    Empty = "empty"
    MaxSaves = 3
    FormNetworkFails = TRUE
INVARIANTS
    TypeOK
    SupersededNeverShows
    VotersListedOnce
    EditStartsFromCard
    SaveAndRemoveExclude
PROPERTIES
    MovesFromRecentStatus
    AdminWaitsEnd
CHECK_DEADLOCK FALSE
