\* The page as it meets the backend's route guards, with nothing failing.
SPECIFICATION FairSpec
CONSTANTS
    Tabs = {t1}
    Casts = {c1}
    Candidates = {x}
    GuardedRoutes = TRUE
    NetworkFails = FALSE
    MaxAlterations = 0
PROPERTIES
    ElectionPageOpens
CHECK_DEADLOCK FALSE
