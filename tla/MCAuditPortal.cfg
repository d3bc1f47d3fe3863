\* One browser with two users and all three frontends over an unreliable
\* network; an election of one candidate and at most one vote.
SPECIFICATION FairSpec
CONSTANTS
    Tabs = {t1}
    Users = {ann, bob}
    Apps = {"voting", "admin", "auditing"}
    NetworkFails = TRUE
    Candidates = {x}
    MaxVotes = 1
INVARIANTS
    TypeOK
    ResultsAddUp
PROPERTIES
    AnsweredOnlyApproved
    ResultsAreCurrent
    Settles
CHECK_DEADLOCK FALSE
