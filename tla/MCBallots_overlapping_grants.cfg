CONSTANTS
    anna = anna
    x = x
    y = y
    z = z
    cast1 = cast1
    cast2 = cast2
    cast3 = cast3
    grant1 = grant1
    grant2 = grant2
    revoke1 = revoke1
    activate = activate
    end = end
    drop = drop
    pause = pause
    rename = rename
    delete = delete
    enter = enter
    Candidates = {x, y, z}
    AdminRequests = {activate, end, pause, rename, delete, enter, drop}
    Wants <- MCWants
    CreatedAs = {"scheduled"}
    Voters = {anna}
    Casts = {cast1, cast2, cast3}
    Grants = {grant1, grant2}
    Revokes = {revoke1}
    VoterOf <- MCVoterOf
    ChoiceOf <- MCChoiceOf
    GrantsOverlap = TRUE
    MaxCrashes = 0
    Together <- MCTogether
SPECIFICATION Spec
CHECK_DEADLOCK FALSE
INVARIANT OneBallotPerVoter
