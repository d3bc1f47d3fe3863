---------------------------- MODULE VotingPage ----------------------------
(***************************************************************************)
(* The election page of apps/voting-fe (app/elections/[id]/page.tsx) open  *)
(* in several tabs of one voter: it loads the election, finds out whether  *)
(* the voter is enrolled, checks and enrols them, and casts a sealed       *)
(* ballot.                                                                 *)
(*                                                                         *)
(* The backend is the BallotBox that Ballots implements: it may count a    *)
(* ballot whose tab was closed, or after the tab gave the request up.      *)
(***************************************************************************)
EXTENDS Naturals, Sequences, FiniteSets, Routes

CONSTANTS
    Tabs,
    Casts,         \* the ballots the tabs may send, one key each
    Candidates,
    GuardedRoutes, \* whether the backend checks the domain of the token
    NetworkFails   \* whether requests may fail on their way

ASSUME PageFlags == {GuardedRoutes, NetworkFails} \subseteq BOOLEAN

VARIABLES
    status,      \* the election's status
    integrated,  \* whether it has an integration
    eligible,    \* whether the voter has an eligibility that is not revoked
    counted, answer,  \* the ballot box
    request,     \* by cast: [named, sealed, sent], the candidate the dialog
                 \* named, the one in the sealed record, the one in the body
    row,         \* by cast: the row the backend stores for it
    page,        \* by tab: what the page shows and waits for
    saved        \* the receipts the voter kept

pageVars == <<status, integrated, eligible, counted, answer, request, row,
              page, saved>>

NoOne == "no one"

Box == INSTANCE BallotBox WITH VoterOf <- [c \in Casts |-> "the voter"]

voted == Box!HasVoted("the voter")

(* The page treats every other status as "ended".                          *)
Statuses == {"draft", "active", "ended"}
EligibilityPhase ==
    {"loading", "admin_granted", "not_eligible", "no_integration", "idle",
     "checking", "eligible", "enrolling", "enrolled"}
Awaited ==
    {"nothing", "page", "voters", "ballot", "check", "enroll", "first ballot",
     "sealing", "cast", "new ballot",
     "elsewhere"}  \* the tab shows another page

Page == [awaits : Awaited, status : Statuses \union {"unknown"},
         integration : BOOLEAN, phase : EligibilityPhase,
         ballot : {"none", "open", "voted"},
         selected : Candidates \union {NoOne},
         confirmOpen : BOOLEAN,  \* the state the page asks the dialog for
         shown : BOOLEAN,        \* whether the dialog is on the screen
         cast : Casts \union {NoOne}, voteResult : Casts \union {NoOne}]

Request == [named : Candidates, sealed : Candidates,
            sent : Candidates \union {NoOne}]
Row == [candidate : Candidates, ciphertext : Casts \union {"other"},
        commitment : Casts \union {"other"}]

PageTypeOK ==
    /\ status \in Statuses /\ {integrated, eligible} \subseteq BOOLEAN
    /\ counted \subseteq Casts
    /\ DOMAIN request \subseteq Casts /\ request \in [DOMAIN request -> Request]
    /\ DOMAIN row = counted /\ row \in [counted -> Row]
    /\ page \in [Tabs -> Page]
    /\ saved \subseteq counted
    /\ \A t \in Tabs : page[t].cast # NoOne => page[t].cast \in DOMAIN request

Fresh == [awaits |-> "page", status |-> "unknown", integration |-> FALSE,
          phase |-> "loading", ballot |-> "none", selected |-> NoOne,
          confirmOpen |-> FALSE, shown |-> FALSE, cast |-> NoOne,
          voteResult |-> NoOne]

PageInit ==
    /\ status \in {"draft", "active"}
    /\ integrated \in BOOLEAN
    /\ eligible = FALSE
    /\ Box!Init
    /\ request = [c \in {} |-> NoOne]
    /\ row = [c \in {} |-> NoOne]
    /\ page = [t \in Tabs |-> Fresh]
    /\ saved = {}

Shows(t, what) == page' = [page EXCEPT ![t] = what]

serverVars == <<status, integrated, eligible, counted, answer, row>>

-----------------------------------------------------------------------------
(* Loading: loadMain, then the lookup of the voter                         *)

Refuses(what) ==
    GuardedRoutes /\ ~AllOpen("voters", voterCalls[what])

MayFail(what) == NetworkFails \/ Refuses(what)

(* A draft is not looked up.                                               *)
MainLoaded(t) ==
    /\ page[t].awaits = "page" /\ ~Refuses("page")
    /\ Shows(t, [page[t] EXCEPT !.status = status, !.integration = integrated,
                     !.awaits = IF status = "draft" THEN "nothing" ELSE "voters"])
    /\ UNCHANGED <<serverVars, request, saved>>

MainFails(t) ==
    /\ page[t].awaits = "page" /\ MayFail("page")
    /\ Shows(t, [page[t] EXCEPT !.awaits = "nothing"])
    /\ UNCHANGED <<serverVars, request, saved>>

Retry(t) ==
    /\ page[t].awaits = "nothing" /\ page[t].status = "unknown"
    /\ Shows(t, [page[t] EXCEPT !.awaits = "page"])
    /\ UNCHANGED <<serverVars, request, saved>>

NotEnrolled(t) == IF page[t].integration THEN "idle" ELSE "no_integration"

VoterLookedUp(t) ==
    /\ page[t].awaits = "voters" /\ ~Refuses("voters")
    /\ Shows(t, IF eligible
                THEN [page[t] EXCEPT !.phase = "admin_granted", !.awaits = "ballot"]
                ELSE [page[t] EXCEPT !.phase = NotEnrolled(t), !.awaits = "nothing"])
    /\ UNCHANGED <<serverVars, request, saved>>

(* "idle" with an error, or as if not enrolled when the answer was a 403.  *)
LookupFails(t) ==
    /\ \/ page[t].awaits = "voters" /\ MayFail("voters")
       \/ page[t].awaits = "ballot" /\ (MayFail("ballot") \/ ~eligible)
    /\ \E phase \in {"idle", NotEnrolled(t)} :
           Shows(t, [page[t] EXCEPT !.phase = phase, !.awaits = "nothing"])
    /\ UNCHANGED <<serverVars, request, saved>>

theBallot == IF voted THEN "voted" ELSE "open"

(* The ballot is fetched after the lookup, an enrolment or a vote.         *)
BallotLoaded(t) ==
    /\ page[t].awaits \in {"ballot", "first ballot", "new ballot"}
    /\ eligible
    /\ Shows(t, [page[t] EXCEPT !.ballot = theBallot, !.awaits = "nothing"])
    /\ UNCHANGED <<serverVars, request, saved>>

-----------------------------------------------------------------------------
(* Checking and enrolling                                                  *)

FormShown(t) ==
    /\ page[t].status \notin {"draft", "unknown"} /\ page[t].integration
    /\ page[t].phase \in {"idle", "not_eligible"}

handleCheck(t) ==
    /\ FormShown(t) /\ page[t].awaits = "nothing"
    /\ Shows(t, [page[t] EXCEPT !.phase = "checking", !.awaits = "check"])
    /\ UNCHANGED <<serverVars, request, saved>>

Checked(t) ==
    /\ page[t].awaits = "check"
    /\ \E phase \in {"eligible", "not_eligible"}
                        \union (IF MayFail("check") THEN {"idle"} ELSE {}) :
           Shows(t, [page[t] EXCEPT !.phase = phase, !.awaits = "nothing"])
    /\ UNCHANGED <<serverVars, request, saved>>

handleEnroll(t) ==
    /\ page[t].phase = "eligible" /\ page[t].awaits = "nothing"
    /\ Shows(t, [page[t] EXCEPT !.phase = "enrolling", !.awaits = "enroll"])
    /\ UNCHANGED <<serverVars, request, saved>>

Enrolled(t) ==
    /\ page[t].awaits = "enroll" /\ ~eligible
    /\ eligible' = TRUE
    /\ Shows(t, [page[t] EXCEPT !.phase = "enrolled", !.awaits = "first ballot"])
    /\ UNCHANGED <<status, integrated, counted, answer, row, request, saved>>

(* Enrolled already (409), refused, or not answered: then it may be done.  *)
EnrollFails(t) ==
    /\ \/ /\ page[t].awaits = "enroll"
          /\ eligible' \in IF MayFail("enroll") THEN {eligible, TRUE} ELSE {eligible}
       \/ /\ page[t].awaits = "first ballot" /\ (MayFail("ballot") \/ ~eligible)
          /\ UNCHANGED eligible
    /\ Shows(t, [page[t] EXCEPT !.phase = "eligible", !.awaits = "nothing"])
    /\ UNCHANGED <<status, integrated, counted, answer, row, request, saved>>

-----------------------------------------------------------------------------
(* Voting                                                                  *)

canVote(t) ==
    /\ page[t].status = "active"
    /\ page[t].ballot = "open"
    /\ page[t].phase \in {"admin_granted", "enrolled"}
    /\ page[t].voteResult = NoOne

voting(t) == page[t].awaits \in {"sealing", "cast", "new ballot"}

Select(t, candidate) ==
    /\ canVote(t) /\ ~page[t].shown
    /\ Shows(t, [page[t] EXCEPT !.selected = candidate])
    /\ UNCHANGED <<serverVars, request, saved>>

(* The dialog follows a change of confirmOpen: asking for what it already  *)
(* is changes nothing.                                                     *)
OpenDialog(t) ==
    /\ canVote(t) /\ page[t].selected # NoOne /\ ~page[t].confirmOpen
    /\ Shows(t, [page[t] EXCEPT !.confirmOpen = TRUE, !.shown = TRUE])
    /\ UNCHANGED <<serverVars, request, saved>>

(* Escape, the backdrop or Cancel.  The browser closes the dialog on       *)
(* Escape also while the vote is under way, and the page does not hear it. *)
Dismiss(t) ==
    /\ page[t].shown
    /\ Shows(t, [page[t] EXCEPT !.shown = FALSE, !.confirmOpen = voting(t)])
    /\ UNCHANGED <<serverVars, request, saved>>

Confirm(t) ==
    /\ page[t].shown /\ ~voting(t)
    /\ page[t].selected # NoOne /\ page[t].ballot # "none"
    /\ \E c \in Casts \ DOMAIN request :
          /\ request' = [d \in DOMAIN request \union {c} |->
                            IF d # c THEN request[d]
                            ELSE [named |-> page[t].selected,
                                  sealed |-> page[t].selected, sent |-> NoOne]]
          /\ Shows(t, [page[t] EXCEPT !.cast = c, !.awaits = "sealing"])
    /\ UNCHANGED <<serverVars, saved>>

SendSelected(t) ==
    /\ page[t].awaits = "sealing"
    /\ request' = [request EXCEPT ![page[t].cast].sent = page[t].selected]
    /\ Shows(t, [page[t] EXCEPT !.awaits = "cast"])
    /\ UNCHANGED <<serverVars, saved>>

(* The record is sealed asynchronously; the body names the candidate that  *)
(* was selected when the voter confirmed.                                  *)
Send(t) ==
    /\ page[t].awaits = "sealing"
    /\ request' = [request EXCEPT ![page[t].cast].sent =
                                       request[page[t].cast].named]
    /\ Shows(t, [page[t] EXCEPT !.awaits = "cast"])
    /\ UNCHANGED <<serverVars, saved>>

CastAnswered(t) ==
    /\ page[t].awaits = "cast" /\ answer[page[t].cast] # "none"
    /\ Shows(t, [page[t] EXCEPT !.voteResult = page[t].cast,
                     !.confirmOpen = FALSE, !.shown = FALSE,
                     !.awaits = "new ballot"])
    /\ UNCHANGED <<serverVars, request, saved>>

CastAccepted(t) ==
    /\ page[t].awaits = "cast" /\ answer[page[t].cast] = "accepted"
    /\ Shows(t, [page[t] EXCEPT !.voteResult = page[t].cast,
                     !.confirmOpen = FALSE, !.shown = FALSE,
                     !.awaits = "new ballot"])
    /\ UNCHANGED <<serverVars, request, saved>>

CastRefused(t) ==
    /\ page[t].awaits = "cast"
    /\ answer[page[t].cast] \in {"already voted", "refused"}
    /\ Shows(t, [page[t] EXCEPT !.awaits = "nothing"])
    /\ UNCHANGED <<serverVars, request, saved>>

(* Refused, or no answer came, whatever the backend made of it.            *)
CastFails(t) ==
    /\ page[t].awaits = "cast"
    /\ NetworkFails \/ answer[page[t].cast] \notin {"none", "accepted"}
    /\ Shows(t, [page[t] EXCEPT !.awaits = "nothing"])
    /\ UNCHANGED <<serverVars, request, saved>>

NewBallotFails(t) ==
    /\ page[t].awaits = "new ballot" /\ (MayFail("ballot") \/ ~eligible)
    /\ Shows(t, [page[t] EXCEPT !.awaits = "nothing"])
    /\ UNCHANGED <<serverVars, request, saved>>

SaveEarly(t) ==
    /\ page[t].cast # NoOne
    /\ saved' = saved \union {page[t].cast}
    /\ UNCHANGED <<serverVars, request, page>>

(* The receipt is on the screen: the voter copies or downloads it.         *)
SaveReceipt(t) ==
    /\ page[t].voteResult # NoOne
    /\ saved' = saved \union {page[t].voteResult}
    /\ UNCHANGED <<serverVars, request, page>>

(* The tab is reloaded: what it had in memory, the key included, is gone.  *)
Reload(t) ==
    /\ page[t] # Fresh /\ page[t].awaits # "elsewhere"
    /\ Shows(t, Fresh)
    /\ UNCHANGED <<serverVars, request, saved>>

-----------------------------------------------------------------------------
(* The backend and the administrators                                      *)

Counts(c) ==
    /\ c \in DOMAIN request /\ request[c].sent # NoOne
    /\ Box!Count(c)
    /\ row' = [d \in counted \union {c} |->
                  IF d = c THEN [candidate |-> request[c].sent,
                                 ciphertext |-> c, commitment |-> c]
                           ELSE row[d]]
    /\ UNCHANGED <<status, integrated, eligible, request, page, saved>>

Answers(c) ==
    /\ c \in DOMAIN request /\ request[c].sent # NoOne
    /\ \/ \E told \in {"accepted", "already voted", "refused"} : Box!Reply(c, told)
       \/ NetworkFails /\ answer[c] = "none" /\ Box!Crash({c})
    /\ UNCHANGED <<status, integrated, eligible, row, request, page, saved>>

Administer ==
    /\ \/ /\ eligible' = ~eligible
          /\ UNCHANGED status
       \/ /\ \/ status = "draft" /\ status' = "active"
             \/ status = "active" /\ status' = "ended"
          /\ UNCHANGED eligible
    /\ UNCHANGED <<integrated, counted, answer, row, request, page, saved>>

-----------------------------------------------------------------------------
Answered(t) ==
    \/ MainLoaded(t) \/ MainFails(t) \/ VoterLookedUp(t) \/ LookupFails(t)
    \/ BallotLoaded(t) \/ Checked(t) \/ Enrolled(t) \/ EnrollFails(t)
    \/ Send(t) \/ CastAccepted(t) \/ CastFails(t) \/ NewBallotFails(t)

VoterActs(t) ==
    \/ Retry(t) \/ handleCheck(t) \/ handleEnroll(t)
    \/ \E x \in Candidates : Select(t, x)
    \/ OpenDialog(t) \/ Dismiss(t) \/ Confirm(t) \/ SaveReceipt(t) \/ Reload(t)

=============================================================================
