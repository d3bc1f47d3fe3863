------------------------------ MODULE Ballots ------------------------------
(***************************************************************************)
(* Ballots and eligibility of one election in apps/backend: voters cast,   *)
(* administrators grant and revoke, voters enrol themselves, while the     *)
(* election and its candidates are edited (Elections).                     *)
(*                                                                         *)
(* Each request is split at its database calls.  What it has read before   *)
(* its last await is kept in variables of its own: the row may have        *)
(* changed by the time it writes.                                          *)
(***************************************************************************)
EXTENDS Naturals, FiniteSets

CONSTANTS
    Candidates, AdminRequests, Wants, CreatedAs,
    Voters,
    Casts, Grants, Revokes,  \* the requests; a grant may be an enrolment
    VoterOf,        \* the voter each request is about
    ChoiceOf,       \* the candidate each ballot is for
    GrantsOverlap,  \* whether two grants of one voter may be under way at once
    MaxCrashes,     \* bound: how often the process dies or a call fails
    Together        \* bound: the sets of requests that come to one election

ASSUME VoterOfType  == VoterOf \in [Casts \union Grants \union Revokes -> Voters]
ASSUME ChoiceOfType == ChoiceOf \in [Casts -> Candidates]
ASSUME GrantsOverlapIsBoolean == GrantsOverlap \in BOOLEAN
ASSUME RequestsAreDistinct ==
    /\ Casts \intersect Grants = {}
    /\ Revokes \intersect (Casts \union Grants) = {}
ASSUME CrashesAreNat == MaxCrashes \in Nat

VARIABLES
    status, deleted, content, listed, clock, adminAt, stale,
    known,     \* the voters that have a row in the voters table
    rows,      \* the eligibilities, each named by the grant that created it
    votes,     \* the casts that have a row in the votes table
    at,        \* where each request is
    seen,      \* cast: the election's status when it was read
    row,       \* any request: the eligibility it read, by name
    hadVoted,  \* cast: that eligibility's has_voted when it was read
    told,      \* cast: its answer
    anchored,  \* the votes handed to the chain node client
    crashes

E == INSTANCE Elections

ASSUME WantsType == Wants \in [AdminRequests -> E!Request]
ASSUME CreatedAsType == CreatedAs \subseteq E!Statuses

electionVars == <<status, deleted, content, listed, clock, adminAt, stale>>
localVars    == <<at, seen, row, hadVoted>>
vars == <<electionVars, known, rows, votes, localVars, told, anchored, crashes>>

Requests == Casts \union Grants \union Revokes
Row      == [voter : Voters, deleted : BOOLEAN, hasVoted : BOOLEAN]
NoRow    == "none"

RowsOf(v)  == {g \in DOMAIN rows : rows[g].voter = v}
LiveRow(v) == {g \in RowsOf(v) : ~rows[g].deleted}

TypeOK ==
    /\ E!TypeOK
    /\ known \subseteq Voters
    /\ DOMAIN rows \subseteq Grants /\ rows \in [DOMAIN rows -> Row]
    /\ \A g \in DOMAIN rows : rows[g].voter = VoterOf[g] /\ VoterOf[g] \in known
    /\ votes \subseteq Casts
    /\ at \in [Requests -> {"new", "eligibility", "checks", "recording",
                            "recorded", "voter", "createVoter", "reviving",
                            "creating", "revoking", "closed"}]
    /\ seen \in [Casts -> E!Statuses]
    /\ row \in [Requests -> Grants \union {NoRow}]
    /\ \A r \in Requests : at[r] \in {"checks", "recording", "recorded",
                                      "reviving", "revoking"}
           => row[r] \in RowsOf(VoterOf[r])
    /\ hadVoted \in [Casts -> BOOLEAN]
    /\ told \in [Casts -> {"none", "accepted", "already voted", "refused",
                           "lost"}]
    /\ anchored \subseteq votes
    /\ crashes \in Nat

Init ==
    /\ E!Init
    /\ known = {}
    /\ rows = [g \in {} |-> NoRow]
    /\ votes = {}
    /\ at = [r \in Requests |-> "new"]
    /\ seen = [c \in Casts |-> "draft"]
    /\ row = [r \in Requests |-> NoRow]
    /\ hadVoted = [c \in Casts |-> FALSE]
    /\ told = [c \in Casts |-> "none"]
    /\ anchored = {}
    /\ crashes = 0

Goto(r, place) == at' = [at EXCEPT ![r] = place]

-----------------------------------------------------------------------------
(* cast                                                                    *)

Answer(c, answer) ==
    /\ told' = [told EXCEPT ![c] = answer]
    /\ Goto(c, "closed")

BeginCast(c) ==
    /\ at[c] = "new"
    /\ IF deleted THEN Answer(c, "refused") /\ UNCHANGED seen
       ELSE /\ seen' = [seen EXCEPT ![c] = status]
            /\ Goto(c, "eligibility")
            /\ UNCHANGED told
    /\ UNCHANGED <<electionVars, known, rows, votes, row, hadVoted, anchored,
                   crashes>>

(* requireEligibility: the voter's eligibility that is not deleted, if any *)
ReadEligibility(c) ==
    /\ at[c] = "eligibility" /\ c \in Casts
    /\ \/ /\ LiveRow(VoterOf[c]) = {}
          /\ Answer(c, "refused")
          /\ UNCHANGED <<row, hadVoted>>
       \/ \E g \in LiveRow(VoterOf[c]) :
             /\ row' = [row EXCEPT ![c] = g]
             /\ hadVoted' = [hadVoted EXCEPT ![c] = rows[g].hasVoted]
             /\ Goto(c, "checks")
             /\ UNCHANGED told
    /\ UNCHANGED <<electionVars, known, rows, votes, seen, anchored, crashes>>

(* The candidate is looked up; window and has_voted are those read before. *)
CheckBallot(c) ==
    /\ at[c] = "checks"
    /\ IF ChoiceOf[c] \notin listed \/ ~E!isWithinVotingWindow(seen[c])
       THEN Answer(c, "refused")
       ELSE IF hadVoted[c] THEN Answer(c, "already voted")
       ELSE Goto(c, "recording") /\ UNCHANGED told
    /\ UNCHANGED <<electionVars, known, rows, votes, seen, row, hadVoted,
                   anchored, crashes>>

RecordVoteUnguarded(c) ==
    /\ at[c] = "recording"
    /\ rows' = [rows EXCEPT ![row[c]].hasVoted = TRUE]
    /\ votes' = votes \union {c}
    /\ Goto(c, "recorded")
    /\ UNCHANGED <<electionVars, known, seen, row, hadVoted, told, anchored,
                   crashes>>

(* recordVote: one transaction flips has_voted and inserts the vote.       *)
RecordVote(c) ==
    /\ at[c] = "recording"
    /\ IF rows[row[c]].hasVoted
       THEN Answer(c, "already voted") /\ UNCHANGED <<rows, votes>>
       ELSE /\ rows' = [rows EXCEPT ![row[c]].hasVoted = TRUE]
            /\ votes' = votes \union {c}
            /\ Goto(c, "recorded")
            /\ UNCHANGED told
    /\ UNCHANGED <<electionVars, known, seen, row, hadVoted, anchored, crashes>>

(* submitVote is not awaited, the answer is sent at once.                  *)
Confirm(c) ==
    /\ at[c] = "recorded"
    /\ anchored' = anchored \union {c}
    /\ Answer(c, "accepted")
    /\ UNCHANGED <<electionVars, known, rows, votes, seen, row, hadVoted,
                   crashes>>

-----------------------------------------------------------------------------
(* grant and enroll                                                        *)

(* Before anything is written the voter's account, or for an enrolment the *)
(* election's integration, is asked: either may refuse.                    *)
BeginGrant(g) ==
    /\ at[g] = "new" /\ g \in Grants
    /\ GrantsOverlap \/ \A other \in Grants :
           VoterOf[other] = VoterOf[g] => at[other] \in {"new", "closed"}
    /\ \/ ~deleted /\ Goto(g, "voter")
       \/ Goto(g, "closed")
    /\ UNCHANGED <<electionVars, known, rows, votes, seen, row, hadVoted, told,
                   anchored, crashes>>

FindVoter(g) ==
    /\ at[g] = "voter"
    /\ Goto(g, IF VoterOf[g] \in known THEN "eligibility" ELSE "createVoter")
    /\ UNCHANGED <<electionVars, known, rows, votes, seen, row, hadVoted, told,
                   anchored, crashes>>

(* The email is unique: a voter created meanwhile fails the request.       *)
CreateVoter(g) ==
    /\ at[g] = "createVoter"
    /\ known' = known \union {VoterOf[g]}
    /\ Goto(g, IF VoterOf[g] \in known THEN "closed" ELSE "eligibility")
    /\ UNCHANGED <<electionVars, rows, votes, seen, row, hadVoted, told,
                   anchored, crashes>>

FindEligibilityLiveOnly(g) ==
    /\ at[g] = "eligibility" /\ g \in Grants
    /\ Goto(g, IF LiveRow(VoterOf[g]) = {} THEN "creating" ELSE "closed")
    /\ UNCHANGED <<electionVars, known, rows, votes, seen, row, hadVoted, told,
                   anchored, crashes>>

FindEligibilityForgotten(g) ==
    /\ at[g] = "eligibility" /\ g \in Grants
    /\ \/ RowsOf(VoterOf[g]) = {} /\ Goto(g, "creating")
       \/ \E found \in RowsOf(VoterOf[g]) :
             Goto(g, IF rows[found].deleted THEN "reviving" ELSE "closed")
    /\ UNCHANGED <<electionVars, known, rows, votes, seen, row, hadVoted, told,
                   anchored, crashes>>

(* Any eligibility of the voter, deleted or not: one row, in no set order  *)
FindEligibility(g) ==
    /\ at[g] = "eligibility" /\ g \in Grants
    /\ \/ /\ RowsOf(VoterOf[g]) = {}
          /\ Goto(g, "creating")
          /\ UNCHANGED row
       \/ \E found \in RowsOf(VoterOf[g]) :
             /\ row' = [row EXCEPT ![g] = found]
             /\ Goto(g, IF rows[found].deleted THEN "reviving" ELSE "closed")
    /\ UNCHANGED <<electionVars, known, rows, votes, seen, hadVoted, told,
                   anchored, crashes>>

(* The partial unique index: one eligibility of a voter that is not        *)
(* deleted.  A write that would make a second one fails.                   *)
WouldBeSecond(g) == LiveRow(VoterOf[g]) \ {row[g]} # {}

ReviveResets(g) ==
    /\ at[g] = "reviving"
    /\ rows' = IF WouldBeSecond(g) THEN rows
               ELSE [rows EXCEPT ![row[g]].deleted = FALSE,
                                 ![row[g]].hasVoted = FALSE]
    /\ Goto(g, "closed")
    /\ UNCHANGED <<electionVars, known, votes, seen, row, hadVoted, told,
                   anchored, crashes>>

Revive(g) ==
    /\ at[g] = "reviving"
    /\ rows' = IF WouldBeSecond(g) THEN rows
               ELSE [rows EXCEPT ![row[g]].deleted = FALSE]
    /\ Goto(g, "closed")
    /\ UNCHANGED <<electionVars, known, votes, seen, row, hadVoted, told,
                   anchored, crashes>>

CreateEligibility(g) ==
    /\ at[g] = "creating"
    /\ rows' = IF WouldBeSecond(g) THEN rows
               ELSE [h \in DOMAIN rows \union {g} |->
                        IF h = g THEN [voter |-> VoterOf[g], deleted |-> FALSE,
                                       hasVoted |-> FALSE]
                                 ELSE rows[h]]
    /\ Goto(g, "closed")
    /\ UNCHANGED <<electionVars, known, votes, seen, row, hadVoted, told,
                   anchored, crashes>>

-----------------------------------------------------------------------------
(* remove: revoking an eligibility                                         *)

BeginRevoke(r) ==
    /\ at[r] = "new" /\ r \in Revokes
    /\ \/ /\ deleted \/ LiveRow(VoterOf[r]) = {}
          /\ Goto(r, "closed")
          /\ UNCHANGED row
       \/ \E g \in LiveRow(VoterOf[r]) :
             /\ ~deleted
             /\ row' = [row EXCEPT ![r] = g]
             /\ Goto(r, IF rows[g].hasVoted THEN "closed" ELSE "revoking")
    /\ UNCHANGED <<electionVars, known, rows, votes, seen, hadVoted, told,
                   anchored, crashes>>

(* The row is deleted whatever has happened to it since it was read.       *)
Revoke(r) ==
    /\ at[r] = "revoking"
    /\ rows' = [rows EXCEPT ![row[r]].deleted = TRUE]
    /\ Goto(r, "closed")
    /\ UNCHANGED <<electionVars, known, votes, seen, row, hadVoted, told,
                   anchored, crashes>>

-----------------------------------------------------------------------------
(* The backend dies: every request under way is gone, a vote that was      *)
(* recorded and not confirmed is never anchored.                           *)
Crash ==
    /\ crashes < MaxCrashes
    /\ crashes' = crashes + 1
    /\ at' = [r \in Requests |-> IF at[r] = "new" THEN "new" ELSE "closed"]
    /\ told' = [c \in Casts |->
                   IF at[c] \notin {"new", "closed"} THEN "lost" ELSE told[c]]
    /\ adminAt' = [r \in AdminRequests |->
                      IF adminAt[r] = "new" THEN "new" ELSE "closed"]
    /\ UNCHANGED <<status, deleted, content, listed, clock, stale, known, rows,
                   votes, seen, row, hadVoted, anchored>>

(* A database call of one request fails, or its reply is lost: the request *)
(* is answered 500, which says nothing of the ballot.                      *)
Fails(r) ==
    /\ at[r] \notin {"new", "closed"}
    /\ crashes < MaxCrashes
    /\ crashes' = crashes + 1
    /\ Goto(r, "closed")
    /\ told' = IF r \in Casts THEN [told EXCEPT ![r] = "lost"] ELSE told
    /\ UNCHANGED <<electionVars, known, rows, votes, seen, row, hadVoted,
                   anchored>>

ElectionStep ==
    /\ E!Next
    /\ UNCHANGED <<known, rows, votes, localVars, told, anchored, crashes>>

CastStep(c) ==
    BeginCast(c) \/ ReadEligibility(c) \/ CheckBallot(c) \/ RecordVote(c)
        \/ Confirm(c)

GrantStep(g) ==
    BeginGrant(g) \/ FindVoter(g) \/ CreateVoter(g) \/ FindEligibility(g)
        \/ Revive(g) \/ CreateEligibility(g)

RevokeStep(r) == BeginRevoke(r) \/ Revoke(r)

Came == {r \in Requests : at[r] # "new"} \union {r \in AdminRequests : adminAt[r] # "new"}

Next ==
    /\ \/ ElectionStep \/ Crash
       \/ \E r \in Requests : Fails(r)
       \/ \E c \in Casts : CastStep(c)
       \/ \E g \in Grants : GrantStep(g)
       \/ \E r \in Revokes : RevokeStep(r)
    /\ \E requests \in Together : Came' \subseteq requests

Spec == Init /\ [][Next]_vars

-----------------------------------------------------------------------------
(* There are as many votes as eligibilities marked as having voted: the    *)
(* votes table names no voter, so this count is all that ties the two, and *)
(* concurrent casts, revocations and crashes must not part them.           *)
VotesMatchFlags ==
    Cardinality(votes) = Cardinality({g \in DOMAIN rows : rows[g].hasVoted})

(* A ballot that is in is in for good, and an eligibility that was used    *)
(* stays used, also when it is revoked and granted again.                  *)
VotedForGood ==
    [][/\ votes \subseteq votes'
       /\ \A g \in DOMAIN rows :
              g \in DOMAIN rows' /\ (rows[g].hasVoted => rows'[g].hasVoted)
      ]_vars

(* A vote is for a candidate that is still on the ballot, so that the      *)
(* tallies shown with it (getBallot lists candidates that are not deleted) *)
(* add up to the votes, unless some administrator's write was overtaken    *)
(* by another between its check and its update.  What a cast itself has    *)
(* read of the election may be as old as it likes.                         *)
TallyLostOnlyToStaleWrites ==
    ~stale => \A c \in votes : ChoiceOf[c] \in listed

(***************************************************************************)
(* The election is a ballot box when no two grants of one voter overlap:   *)
(* at most one ballot of each voter is counted, whatever is revoked,       *)
(* granted again and cast at the same time.                                *)
(***************************************************************************)
Box == INSTANCE BallotBox WITH counted <- votes, answer <- told

ImplementsBallotBox == Box!Spec

(* votes/controller.ts:69: a ballot is cast "after verifying ... that the  *)
(* voter has not already voted".  No voter has two ballots in.             *)
OneBallotPerVoter == \A c, d \in votes : VoterOf[c] = VoterOf[d] => c = d

(* elections/utils.ts:4-8, 46-50: the status only takes the transitions    *)
(* listed ("Terminal states (ended, archived, paused) only allow the self  *)
(* no-op"), and "Once an election is active or closed, its content fields  *)
(* are frozen"; service.ts:157-162: it is not deleted while active;        *)
(* candidates/utils.ts:4: "Candidates may only be added/edited/removed     *)
(* before the election goes active".                                       *)
LifecycleRespected ==
    [][/\ status' \in E!TRANSITIONS[status]
       /\ status \in E!LOCKED_STATUSES => content' = content
       /\ status \notin E!EDITABLE_STATUSES => listed' = listed
       /\ status = "active" => deleted' = deleted]_vars

=============================================================================
