\* One voter with a tab that may be reloaded or left at any time, two
\* candidates and two ballots to cast over an unreliable network; one stored
\* field may be damaged.
SPECIFICATION FairSpec
CONSTANTS
    Tabs = {t1}
    Casts = {c1, c2}
    Candidates = {x, y}
    GuardedRoutes = FALSE
    NetworkFails = TRUE
    MaxAlterations = 1
INVARIANTS
    TypeOK
    ShownVotedIsCounted
    ReceiptOpensCountedBallot
    ReportTellsTruth
    PassedIsAnchored
PROPERTIES
    NothingHangs
CHECK_DEADLOCK FALSE
