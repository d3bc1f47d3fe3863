----------------------- MODULE VoteVerificationProofs -----------------------
(***************************************************************************)
(* Theorems about the election page and the verification of receipts, for  *)
(* any tabs, ballots, candidates and number of damaged fields, with and    *)
(* without network failures and the backend's route guards.                *)
(*                                                                         *)
(* PageInv is about the page, the ballots and their receipts; VerifyInv,   *)
(* on top of it, about the chain and what the verify page makes of it.     *)
(***************************************************************************)
EXTENDS VoteVerification, FiniteSetTheorems, SequenceTheorems,
        WellFoundedInduction, TLAPS

-----------------------------------------------------------------------------
(* What a voter's page and ballots are like besides their types.  A ballot *)
(* names one candidate three times: in the dialog, in the sealed record    *)
(* and in the body.                                                        *)

AnswersTyped ==
    answer \in [Casts -> {"none", "accepted", "already voted", "refused", "lost"}]

OneCounted == \A c, d \in counted : c = d

RequestsFit ==
    /\ counted \subseteq DOMAIN request
    /\ \A c \in DOMAIN request :
           /\ request[c].sealed = request[c].named
           /\ request[c].sent \in {NoOne, request[c].named}
    /\ \A c \in counted : request[c].sent = request[c].named

AcceptedCounted == \A c \in Casts : answer[c] = "accepted" => c \in counted

PageTells(p) ==
    /\ p.awaits \in {"sealing", "cast"} => p.cast \in DOMAIN request
    /\ p.voteResult # NoOne => p.voteResult \in counted
    /\ p.ballot = "voted" => counted # {}

PageInv ==
    /\ PageTypeOK
    /\ AnswersTyped
    /\ OneCounted
    /\ RequestsFit
    /\ AcceptedCounted
    /\ \A t \in Tabs : PageTells(page[t])

(* The types that no two parts of a step change together.                  *)
BallotTypes ==
    /\ counted \subseteq Casts
    /\ DOMAIN request \subseteq Casts /\ request \in [DOMAIN request -> Request]
    /\ DOMAIN row = counted /\ row \in [counted -> Row]
    /\ saved \subseteq counted

ElectionTypes == status \in Statuses /\ {integrated, eligible} \subseteq BOOLEAN

PagesTyped ==
    /\ page \in [Tabs -> Page]
    /\ \A t \in Tabs : page[t].cast # NoOne => page[t].cast \in DOMAIN request

LEMMA PageParts ==
    /\ PageTypeOK <=> ElectionTypes /\ BallotTypes /\ PagesTyped
    /\ PageTypeOK' <=> ElectionTypes' /\ BallotTypes' /\ PagesTyped'
<1>1. PageTypeOK <=> ElectionTypes /\ BallotTypes /\ PagesTyped
  BY DEF PageTypeOK, ElectionTypes, BallotTypes, PagesTyped
<1>2. PageTypeOK' <=> ElectionTypes' /\ BallotTypes' /\ PagesTyped'
  BY DEF PageTypeOK, ElectionTypes, BallotTypes, PagesTyped
<1> QED
  BY <1>1, <1>2

LEMMA VotedIsCounted == BallotTypes => (voted <=> counted # {})
  BY DEF BallotTypes, voted, Box!HasVoted

-----------------------------------------------------------------------------
(* Most steps of a page change what one tab shows and nothing a ballot     *)
(* depends on: the tab takes up no ballot and claims nothing new.          *)

Follows(p, q) ==
    /\ q \in Page
    /\ q.cast \in {NoOne, p.cast}
    /\ q.voteResult \in {NoOne, p.voteResult}
    /\ q.ballot \in {"none", p.ballot}
    /\ q.awaits \in {"sealing", "cast"} =>
           p.awaits \in {"sealing", "cast"} /\ q.cast = p.cast

ballotVars == <<counted, answer, row, request, saved>>

Quiet(t) ==
    /\ \E q \in Page : Follows(page[t], q) /\ Shows(t, q)
    /\ ElectionTypes'
    /\ UNCHANGED ballotVars

LEMMA FreshFollows == \A p : Follows(p, Fresh)
  BY DEF Follows, Fresh, Page, Statuses, EligibilityPhase, Awaited

Resting == Awaited \ {"sealing", "cast"}

LEMMA Edits ==
    ASSUME NEW p \in Page
    PROVE  /\ \A w \in Resting : Follows(p, [p EXCEPT !.awaits = w])
           /\ \A w \in Resting, phase \in EligibilityPhase :
                  Follows(p, [p EXCEPT !.phase = phase, !.awaits = w])
           /\ \A w \in Resting, s \in Statuses, flag \in BOOLEAN :
                  Follows(p, [p EXCEPT !.status = s, !.integration = flag,
                                       !.awaits = w])
<1> USE DEF Follows, Page, Resting, Awaited
<1>1. \A w \in Resting : Follows(p, [p EXCEPT !.awaits = w])
  OBVIOUS
<1>2. \A w \in Resting, phase \in EligibilityPhase :
          Follows(p, [p EXCEPT !.phase = phase, !.awaits = w])
  <2> SUFFICES ASSUME NEW w \in Resting, NEW phase \in EligibilityPhase
               PROVE  Follows(p, [p EXCEPT !.phase = phase, !.awaits = w])
    OBVIOUS
  <2> DEFINE q == [p EXCEPT !.phase = phase, !.awaits = w]
  <2>1. q \in Page
    OBVIOUS
  <2>2. /\ q.cast = p.cast /\ q.voteResult = p.voteResult /\ q.ballot = p.ballot
        /\ q.awaits = w
    OBVIOUS
  <2> QED
    BY <2>1, <2>2
<1>3. \A w \in Resting, s \in Statuses, flag \in BOOLEAN :
          Follows(p, [p EXCEPT !.status = s, !.integration = flag, !.awaits = w])
  <2> SUFFICES ASSUME NEW w \in Resting, NEW s \in Statuses, NEW flag \in BOOLEAN
               PROVE  Follows(p, [p EXCEPT !.status = s, !.integration = flag,
                                           !.awaits = w])
    OBVIOUS
  <2> DEFINE q == [p EXCEPT !.status = s, !.integration = flag, !.awaits = w]
  <2>1. q \in Page
    OBVIOUS
  <2>2. /\ q.cast = p.cast /\ q.voteResult = p.voteResult /\ q.ballot = p.ballot
        /\ q.awaits = w
    OBVIOUS
  <2> QED
    BY <2>1, <2>2
<1> QED
  BY <1>1, <1>2, <1>3

LEMMA DialogEdits ==
    ASSUME NEW p \in Page
    PROVE  /\ \A x \in Candidates : Follows(p, [p EXCEPT !.selected = x])
           /\ \A shown, asked \in BOOLEAN :
                  /\ Follows(p, [p EXCEPT !.confirmOpen = asked, !.shown = shown])
                  /\ Follows(p, [p EXCEPT !.shown = shown, !.confirmOpen = asked])
<1> USE DEF Follows, Page
<1>1. \A x \in Candidates : Follows(p, [p EXCEPT !.selected = x])
  OBVIOUS
<1>2. ASSUME NEW shown \in BOOLEAN, NEW asked \in BOOLEAN
      PROVE  Follows(p, [p EXCEPT !.confirmOpen = asked, !.shown = shown])
  <2> DEFINE q == [p EXCEPT !.confirmOpen = asked, !.shown = shown]
  <2>1. q \in Page
    OBVIOUS
  <2>2. /\ q.cast = p.cast /\ q.voteResult = p.voteResult /\ q.ballot = p.ballot
        /\ q.awaits = p.awaits
    OBVIOUS
  <2> QED
    BY <2>1, <2>2
<1>3. ASSUME NEW shown \in BOOLEAN, NEW asked \in BOOLEAN
      PROVE  [p EXCEPT !.shown = shown, !.confirmOpen = asked]
                 = [p EXCEPT !.confirmOpen = asked, !.shown = shown]
  OBVIOUS
<1> HIDE DEF Follows, Page
<1> QED
  BY <1>1, <1>2, <1>3

LEMMA ShowsQuietly ==
    ASSUME NEW t \in Tabs, NEW q, Follows(page[t], q), Shows(t, q),
           ElectionTypes', UNCHANGED ballotVars
    PROVE  Quiet(t)
  BY DEF Quiet, Follows

LEMMA SameElection ==
    ElectionTypes /\ UNCHANGED serverVars /\ UNCHANGED <<request, saved>>
        => ElectionTypes' /\ UNCHANGED ballotVars
  BY DEF ElectionTypes, serverVars, ballotVars

LEMMA LoadingIsQuiet ==
    ASSUME PageTypeOK, NEW t \in Tabs,
           \/ MainLoaded(t) \/ MainFails(t) \/ VoterLookedUp(t) \/ LookupFails(t)
           \/ Checked(t) \/ CastFails(t) \/ NewBallotFails(t) \/ Retry(t)
           \/ handleCheck(t) \/ handleEnroll(t)
    PROVE  Quiet(t)
<1>1. page[t] \in Page /\ ElectionTypes
  BY PageParts DEF PagesTyped
<1>2. UNCHANGED serverVars /\ UNCHANGED <<request, saved>>
  BY DEF MainLoaded, MainFails, VoterLookedUp, LookupFails, Checked, CastFails,
         NewBallotFails, Retry, handleCheck, handleEnroll
<1>3. ElectionTypes' /\ UNCHANGED ballotVars
  BY <1>1, <1>2, SameElection
<1>4. SUFFICES \E q : Follows(page[t], q) /\ Shows(t, q)
  BY <1>3, ShowsQuietly
<1>5. {"nothing", "voters", "ballot", "page", "check", "enroll"} \subseteq Resting
  BY DEF Resting, Awaited
<1>6. {"admin_granted", "idle", "no_integration", "checking", "enrolling",
       "eligible", "not_eligible"} \subseteq EligibilityPhase
  BY DEF EligibilityPhase
<1>7. NotEnrolled(t) \in EligibilityPhase
  BY <1>6 DEF NotEnrolled
<1>8. CASE MainLoaded(t)
  <2>1. (IF status = "draft" THEN "nothing" ELSE "voters") \in Resting
    BY <1>5
  <2>2. status \in Statuses /\ integrated \in BOOLEAN
    BY <1>1 DEF ElectionTypes
  <2> QED
    BY <1>1, <1>8, <2>1, <2>2, Edits DEF MainLoaded
<1>9. CASE MainFails(t) \/ CastFails(t) \/ NewBallotFails(t) \/ Retry(t)
  BY <1>1, <1>5, <1>9, Edits DEF MainFails, CastFails, NewBallotFails, Retry
<1>10. CASE VoterLookedUp(t)
  <2>1. CASE eligible
    BY <1>1, <1>5, <1>6, <1>10, <2>1, Edits DEF VoterLookedUp
  <2>2. CASE ~eligible
    BY <1>1, <1>5, <1>7, <1>10, <2>2, Edits DEF VoterLookedUp
  <2> QED
    BY <2>1, <2>2
<1>11. CASE LookupFails(t)
  <2>1. PICK phase \in {"idle", NotEnrolled(t)} :
            Shows(t, [page[t] EXCEPT !.phase = phase, !.awaits = "nothing"])
    BY <1>11 DEF LookupFails
  <2> QED
    BY <1>1, <1>5, <1>6, <1>7, <2>1, Edits
<1>12. CASE Checked(t)
  <2>1. PICK phase \in {"eligible", "not_eligible", "idle"} :
            Shows(t, [page[t] EXCEPT !.phase = phase, !.awaits = "nothing"])
    BY <1>12 DEF Checked
  <2> QED
    BY <1>1, <1>5, <1>6, <2>1, Edits
<1>13. CASE handleCheck(t) \/ handleEnroll(t)
  BY <1>1, <1>5, <1>6, <1>13, Edits DEF handleCheck, handleEnroll
<1> QED
  BY <1>8, <1>9, <1>10, <1>11, <1>12, <1>13

LEMMA EnrollingIsQuiet ==
    ASSUME PageTypeOK, NEW t \in Tabs, Enrolled(t) \/ EnrollFails(t)
    PROVE  Quiet(t)
<1>1. page[t] \in Page /\ ElectionTypes
  BY PageParts DEF PagesTyped
<1>2. eligible' \in BOOLEAN
  BY <1>1 DEF Enrolled, EnrollFails, ElectionTypes
<1>3. UNCHANGED <<status, integrated>> /\ UNCHANGED ballotVars
  BY DEF Enrolled, EnrollFails, ballotVars
<1>4. ElectionTypes'
  BY <1>1, <1>2, <1>3 DEF ElectionTypes
<1>5. /\ {"enrolled", "eligible"} \subseteq EligibilityPhase
      /\ {"nothing", "first ballot"} \subseteq Resting
  BY DEF EligibilityPhase, Resting, Awaited
<1>6. \E q : Follows(page[t], q) /\ Shows(t, q)
  BY <1>1, <1>5, Edits DEF Enrolled, EnrollFails
<1> QED
  BY <1>3, <1>4, <1>6, ShowsQuietly

LEMMA DialogIsQuiet ==
    ASSUME PageTypeOK, NEW t \in Tabs,
           \/ \E x \in Candidates : Select(t, x)
           \/ OpenDialog(t) \/ Dismiss(t) \/ Reload(t)
    PROVE  Quiet(t)
<1>1. page[t] \in Page /\ ElectionTypes
  BY PageParts DEF PagesTyped
<1>2. UNCHANGED serverVars /\ UNCHANGED <<request, saved>>
  BY DEF Select, OpenDialog, Dismiss, Reload
<1>3. ElectionTypes' /\ UNCHANGED ballotVars
  BY <1>1, <1>2, SameElection
<1>4. SUFFICES \E q : Follows(page[t], q) /\ Shows(t, q)
  BY <1>3, ShowsQuietly
<1>5. ASSUME NEW x \in Candidates, Select(t, x)
      PROVE  \E q : Follows(page[t], q) /\ Shows(t, q)
  BY <1>1, <1>5, DialogEdits DEF Select
<1>6. CASE OpenDialog(t)
  BY <1>1, <1>6, DialogEdits DEF OpenDialog
<1>7. CASE Dismiss(t)
  <2>1. voting(t) \in BOOLEAN
    BY DEF voting
  <2> QED
    BY <1>1, <1>7, <2>1, DialogEdits DEF Dismiss
<1>8. CASE Reload(t)
  BY <1>8, FreshFollows DEF Reload
<1> QED
  BY <1>5, <1>6, <1>7, <1>8

LEMMA NavigationIsQuiet ==
    ASSUME PageTypeOK, NEW t \in Tabs, Leave(t) \/ Return(t)
    PROVE  Quiet(t)
<1>1. page[t] \in Page /\ ElectionTypes
  BY PageParts DEF PagesTyped
<1>2. Follows(page[t], [Fresh EXCEPT !.awaits = "elsewhere"])
  BY DEF Follows, Fresh, Page, Statuses, EligibilityPhase, Awaited
<1>3. UNCHANGED ballotVars /\ ElectionTypes'
  BY <1>1 DEF Leave, Return, ballotVars, serverVars, ElectionTypes
<1> QED
  BY <1>2, <1>3, FreshFollows DEF Leave, Return, Quiet, Follows

-----------------------------------------------------------------------------
(* PageInv is kept by every step of a page, of the backend and of the      *)
(* administrators; and what is counted, saved and sent stays so.           *)

Kept ==
    /\ counted \subseteq counted' /\ saved \subseteq saved'
    /\ \A c \in counted : request'[c] = request[c]

LEMMA PagesMove ==
    ASSUME PageInv, NEW t \in Tabs, NEW q \in Page, Shows(t, q),
           q.cast # NoOne => q.cast \in DOMAIN request',
           PageTells(q)',
           DOMAIN request \subseteq DOMAIN request', counted \subseteq counted'
    PROVE  PagesTyped' /\ \A u \in Tabs : PageTells(page[u])'
<1>1. PagesTyped /\ \A u \in Tabs : PageTells(page[u])
  BY PageParts DEF PageInv
<1>2. /\ page' \in [Tabs -> Page] /\ page'[t] = q
      /\ \A u \in Tabs \ {t} : page'[u] = page[u]
  BY <1>1 DEF Shows, PagesTyped
<1>3. \A u \in Tabs \ {t} : PageTells(page[u])'
  BY <1>1, <1>2 DEF PageTells
<1>4. PageTells(page[t])'
  BY <1>2 DEF PageTells
<1> QED
  BY <1>1, <1>2, <1>3, <1>4 DEF PagesTyped

LEMMA PagesRest ==
    ASSUME PageInv, page' = page,
           DOMAIN request \subseteq DOMAIN request', counted \subseteq counted'
    PROVE  PagesTyped' /\ \A u \in Tabs : PageTells(page[u])'
  BY PageParts DEF PageInv, PagesTyped, PageTells

LEMMA QuietKeeps ==
    ASSUME PageInv, NEW t \in Tabs, Quiet(t)
    PROVE  PageInv' /\ Kept
<1>1. PICK q \in Page : Follows(page[t], q) /\ Shows(t, q)
  BY DEF Quiet
<1>2. UNCHANGED ballotVars /\ ElectionTypes'
  BY DEF Quiet
<1>3. BallotTypes /\ PagesTyped /\ PageTells(page[t])
  BY PageParts DEF PageInv
<1>4. q.cast # NoOne => q.cast \in DOMAIN request'
  BY <1>1, <1>2, <1>3 DEF Follows, PagesTyped, ballotVars
<1>5. PageTells(q)'
  BY <1>1, <1>2, <1>3 DEF Follows, PageTells, ballotVars
<1>6. PagesTyped' /\ \A u \in Tabs : PageTells(page[u])'
  BY <1>1, <1>2, <1>4, <1>5, PagesMove DEF ballotVars
<1>7. BallotTypes'
  BY <1>2, <1>3 DEF BallotTypes, ballotVars
<1>8. AnswersTyped' /\ OneCounted' /\ RequestsFit' /\ AcceptedCounted'
  BY <1>2 DEF PageInv, AnswersTyped, OneCounted, RequestsFit, AcceptedCounted,
              ballotVars
<1> QED
  BY <1>2, <1>6, <1>7, <1>8, PageParts DEF PageInv, Kept, ballotVars

(* The ballot is fetched: it says whether a vote is counted.               *)
LEMMA BallotLoadedKeeps ==
    ASSUME PageInv, NEW t \in Tabs, BallotLoaded(t)
    PROVE  PageInv' /\ Kept
<1>1. UNCHANGED serverVars /\ UNCHANGED <<request, saved>>
  BY DEF BallotLoaded
<1>2. ElectionTypes /\ BallotTypes /\ PagesTyped /\ PageTells(page[t])
  BY PageParts DEF PageInv
<1>3. PICK q : q = [page[t] EXCEPT !.ballot = theBallot, !.awaits = "nothing"]
  OBVIOUS
<1>4. page[t] \in Page /\ theBallot \in {"open", "voted"}
  BY <1>2 DEF PagesTyped, theBallot
<1>5. q \in Page /\ Shows(t, q)
  BY <1>3, <1>4 DEF BallotLoaded, Page, Awaited
<1>6. /\ q.cast = page[t].cast /\ q.voteResult = page[t].voteResult
      /\ q.ballot = theBallot /\ q.awaits = "nothing"
  BY <1>3, <1>4 DEF Page
<1>7. q.ballot = "voted" => counted # {}
  BY <1>2, <1>6, VotedIsCounted DEF theBallot
<1>8. PageTells(q)' /\ (q.cast # NoOne => q.cast \in DOMAIN request')
  BY <1>1, <1>2, <1>6, <1>7 DEF PageTells, PagesTyped, serverVars
<1>9. PagesTyped' /\ \A u \in Tabs : PageTells(page[u])'
  BY <1>1, <1>5, <1>8, PagesMove DEF serverVars
<1>10. ElectionTypes' /\ BallotTypes'
  BY <1>1, <1>2 DEF ElectionTypes, BallotTypes, serverVars
<1>11. AnswersTyped' /\ OneCounted' /\ RequestsFit' /\ AcceptedCounted'
  BY <1>1 DEF PageInv, AnswersTyped, OneCounted, RequestsFit, AcceptedCounted,
              serverVars
<1> QED
  BY <1>1, <1>9, <1>10, <1>11, PageParts DEF PageInv, Kept, serverVars

(* The accepted ballot's receipt is shown.                                 *)
LEMMA CastAcceptedKeeps ==
    ASSUME PageInv, NEW t \in Tabs, CastAccepted(t)
    PROVE  PageInv' /\ Kept
<1>1. UNCHANGED serverVars /\ UNCHANGED <<request, saved>>
  BY DEF CastAccepted
<1>2. ElectionTypes /\ BallotTypes /\ PagesTyped /\ PageTells(page[t])
  BY PageParts DEF PageInv
<1>3. PICK q : q = [page[t] EXCEPT !.voteResult = page[t].cast,
                        !.confirmOpen = FALSE, !.shown = FALSE,
                        !.awaits = "new ballot"]
  OBVIOUS
<1>4. page[t] \in Page
  BY <1>2 DEF PagesTyped
<1>5. q \in Page /\ Shows(t, q)
  BY <1>3, <1>4 DEF CastAccepted, Page, Awaited
<1>6. /\ q.cast = page[t].cast /\ q.voteResult = page[t].cast
      /\ q.ballot = page[t].ballot /\ q.awaits = "new ballot"
  BY <1>3, <1>4 DEF Page
<1>7. page[t].cast \in counted
  <2>1. page[t].cast \in Casts
    BY <1>2 DEF CastAccepted, PageTells, BallotTypes
  <2> QED
    BY <2>1 DEF CastAccepted, PageInv, AcceptedCounted
<1>8. PageTells(q)' /\ (q.cast # NoOne => q.cast \in DOMAIN request')
  BY <1>1, <1>2, <1>6, <1>7 DEF PageTells, PagesTyped, serverVars
<1>9. PagesTyped' /\ \A u \in Tabs : PageTells(page[u])'
  BY <1>1, <1>5, <1>8, PagesMove DEF serverVars
<1>10. ElectionTypes' /\ BallotTypes'
  BY <1>1, <1>2 DEF ElectionTypes, BallotTypes, serverVars
<1>11. AnswersTyped' /\ OneCounted' /\ RequestsFit' /\ AcceptedCounted'
  BY <1>1 DEF PageInv, AnswersTyped, OneCounted, RequestsFit, AcceptedCounted,
              serverVars
<1> QED
  BY <1>1, <1>9, <1>10, <1>11, PageParts DEF PageInv, Kept, serverVars

(* The voter confirms: a ballot is made up for the candidate named.        *)
LEMMA ConfirmKeeps ==
    ASSUME PageInv, NEW t \in Tabs, Confirm(t)
    PROVE  PageInv' /\ Kept
<1>1. UNCHANGED serverVars /\ saved' = saved
  BY DEF Confirm
<1>2. ElectionTypes /\ BallotTypes /\ PagesTyped /\ PageTells(page[t])
  BY PageParts DEF PageInv
<1>3. PICK c \in Casts \ DOMAIN request :
          /\ request' = [d \in DOMAIN request \union {c} |->
                            IF d # c THEN request[d]
                            ELSE [named |-> page[t].selected,
                                  sealed |-> page[t].selected, sent |-> NoOne]]
          /\ Shows(t, [page[t] EXCEPT !.cast = c, !.awaits = "sealing"])
  BY DEF Confirm
<1>4. page[t] \in Page /\ page[t].selected \in Candidates
  <2>1. page[t] \in Page /\ page[t].selected # NoOne
    BY <1>2 DEF PagesTyped, Confirm
  <2> QED
    BY <2>1 DEF Page
<1>5. PICK made : made = [named |-> page[t].selected,
                          sealed |-> page[t].selected, sent |-> NoOne]
  OBVIOUS
<1>6. /\ made \in Request /\ made.sealed = made.named /\ made.sent = NoOne
  BY <1>4, <1>5 DEF Request
<1>7. /\ DOMAIN request' = DOMAIN request \union {c}
      /\ request'[c] = made
      /\ \A d \in DOMAIN request : request'[d] = request[d]
  BY <1>3, <1>5
<1>8. BallotTypes'
  <2>1. request' \in [DOMAIN request' -> Request]
    BY <1>2, <1>3, <1>5, <1>6 DEF BallotTypes
  <2> QED
    BY <1>1, <1>2, <1>3, <1>7, <2>1 DEF BallotTypes, serverVars
<1>9. RequestsFit'
  BY <1>1, <1>6, <1>7 DEF PageInv, RequestsFit, serverVars
<1>10. PICK q : q = [page[t] EXCEPT !.cast = c, !.awaits = "sealing"]
  OBVIOUS
<1>11. /\ q \in Page /\ Shows(t, q)
       /\ q.cast = c /\ q.voteResult = page[t].voteResult
       /\ q.ballot = page[t].ballot
  BY <1>3, <1>4, <1>10 DEF Page, Awaited
<1>12. PageTells(q)' /\ (q.cast # NoOne => q.cast \in DOMAIN request')
  BY <1>1, <1>2, <1>7, <1>11 DEF PageTells, serverVars
<1>13. PagesTyped' /\ \A u \in Tabs : PageTells(page[u])'
  BY <1>1, <1>7, <1>11, <1>12, PagesMove DEF serverVars
<1>14. ElectionTypes' /\ AnswersTyped' /\ OneCounted' /\ AcceptedCounted'
  BY <1>1, <1>2 DEF PageInv, ElectionTypes, AnswersTyped, OneCounted,
                    AcceptedCounted, serverVars
<1>15. Kept
  BY <1>1, <1>7 DEF PageInv, RequestsFit, Kept, serverVars
<1> QED
  BY <1>8, <1>9, <1>13, <1>14, <1>15, PageParts DEF PageInv

(* The body is sent, for the candidate that was named.                     *)
LEMMA SendKeeps ==
    ASSUME PageInv, NEW t \in Tabs, Send(t)
    PROVE  PageInv' /\ Kept
<1>1. UNCHANGED serverVars /\ saved' = saved
  BY DEF Send
<1>2. /\ ElectionTypes /\ BallotTypes /\ PagesTyped /\ PageTells(page[t])
      /\ RequestsFit
  BY PageParts DEF PageInv
<1>3. PICK c \in DOMAIN request : c = page[t].cast
  BY <1>2 DEF Send, PageTells
<1>4. PICK made : made = [request[c] EXCEPT !.sent = request[c].named]
  OBVIOUS
<1>5. /\ made \in Request /\ made.sealed = made.named /\ made.sent = made.named
      /\ c \in counted => made = request[c]
  <2>1. request[c] \in Request /\ request[c].sealed = request[c].named
    BY <1>2 DEF BallotTypes, RequestsFit
  <2>2. c \in counted => request[c].sent = request[c].named
    BY <1>2 DEF RequestsFit
  <2> QED
    BY <1>4, <2>1, <2>2 DEF Request
<1>6. request' = [request EXCEPT ![c] = made]
  BY <1>3, <1>4 DEF Send
<1>7. /\ DOMAIN request' = DOMAIN request
      /\ request'[c] = made
      /\ \A d \in DOMAIN request \ {c} : request'[d] = request[d]
  BY <1>6
<1>8. BallotTypes'
  <2>1. request' \in [DOMAIN request' -> Request]
    BY <1>2, <1>5, <1>6 DEF BallotTypes
  <2> QED
    BY <1>1, <1>2, <1>7, <2>1 DEF BallotTypes, serverVars
<1>9. Kept
  <2>1. ASSUME NEW d \in counted
        PROVE  request'[d] = request[d]
    <3>1. d \in DOMAIN request
      BY <1>2 DEF RequestsFit
    <3> QED
      BY <1>5, <1>7, <3>1
  <2>2. counted' = counted
    BY <1>1 DEF serverVars
  <2> QED
    BY <1>1, <2>1, <2>2 DEF Kept
<1>10. RequestsFit'
  <2>1. \A d \in DOMAIN request' :
            /\ request'[d].sealed = request'[d].named
            /\ request'[d].sent \in {NoOne, request'[d].named}
    BY <1>2, <1>5, <1>7 DEF RequestsFit
  <2>2. \A d \in counted : request'[d].sent = request'[d].named
    BY <1>2, <1>9 DEF RequestsFit, Kept
  <2> QED
    BY <1>1, <1>2, <1>7, <2>1, <2>2 DEF RequestsFit, serverVars
<1>11. PICK q : q = [page[t] EXCEPT !.awaits = "cast"]
  OBVIOUS
<1>12. /\ q \in Page /\ Shows(t, q)
       /\ q.cast = page[t].cast /\ q.voteResult = page[t].voteResult
       /\ q.ballot = page[t].ballot
  <2>1. PICK p \in Page : p = page[t]
    BY <1>2 DEF PagesTyped
  <2>2. q = [p EXCEPT !.awaits = "cast"]
    BY <1>11, <2>1
  <2>3. /\ q \in Page /\ q.cast = p.cast /\ q.voteResult = p.voteResult
        /\ q.ballot = p.ballot
    BY <2>2 DEF Page, Awaited
  <2>4. Shows(t, q)
    BY <1>11 DEF Send
  <2> QED
    BY <2>1, <2>3, <2>4
<1>13. PageTells(q)' /\ (q.cast # NoOne => q.cast \in DOMAIN request')
  <2>1. q.cast \in DOMAIN request'
    BY <1>3, <1>7, <1>12
  <2>2. counted' = counted
    BY <1>1 DEF serverVars
  <2> QED
    BY <1>2, <1>12, <2>1, <2>2 DEF PageTells
<1>14. PagesTyped' /\ \A u \in Tabs : PageTells(page[u])'
  BY <1>1, <1>7, <1>12, <1>13, PagesMove DEF serverVars
<1>15. ElectionTypes' /\ AnswersTyped' /\ OneCounted' /\ AcceptedCounted'
  BY <1>1, <1>2 DEF PageInv, ElectionTypes, AnswersTyped, OneCounted,
                    AcceptedCounted, serverVars
<1> QED
  BY <1>8, <1>9, <1>10, <1>14, <1>15, PageParts DEF PageInv

LEMMA SaveReceiptKeeps ==
    ASSUME PageInv, NEW t \in Tabs, SaveReceipt(t)
    PROVE  PageInv' /\ Kept
<1>1. UNCHANGED serverVars /\ UNCHANGED <<request, page>>
  BY DEF SaveReceipt
<1>2. ElectionTypes /\ BallotTypes /\ PageTells(page[t])
  BY PageParts DEF PageInv
<1>3. saved \subseteq saved' /\ saved' \subseteq counted
  BY <1>2 DEF SaveReceipt, PageTells, BallotTypes
<1>4. ElectionTypes' /\ BallotTypes'
  BY <1>1, <1>2, <1>3 DEF ElectionTypes, BallotTypes, serverVars
<1>5. PagesTyped' /\ \A u \in Tabs : PageTells(page[u])'
  BY <1>1, PagesRest DEF serverVars
<1>6. AnswersTyped' /\ OneCounted' /\ RequestsFit' /\ AcceptedCounted'
  BY <1>1 DEF PageInv, AnswersTyped, OneCounted, RequestsFit, AcceptedCounted,
              serverVars
<1> QED
  BY <1>1, <1>3, <1>4, <1>5, <1>6, PageParts DEF PageInv, Kept, serverVars

-----------------------------------------------------------------------------

LEMMA CountsKeeps ==
    ASSUME PageInv, NEW c \in Casts, Counts(c)
    PROVE  PageInv' /\ Kept
<1>1. /\ UNCHANGED <<status, integrated, eligible, answer, request, page, saved>>
      /\ counted' = counted \union {c}
      /\ c \in DOMAIN request /\ request[c].sent # NoOne
  BY DEF Counts, Box!Count
<1>2. ElectionTypes /\ BallotTypes /\ RequestsFit
  BY PageParts DEF PageInv
<1>3. counted = {}
  BY <1>2 DEF Counts, Box!Count, Box!HasVoted, BallotTypes
<1>4. request[c].sent = request[c].named /\ request[c].sent \in Candidates
  BY <1>1, <1>2 DEF RequestsFit, BallotTypes, Request
<1>5. row' = [d \in counted' |->
                 IF d = c THEN [candidate |-> request[c].sent,
                                ciphertext |-> c, commitment |-> c]
                          ELSE row[d]]
  BY <1>1 DEF Counts
<1>6. [candidate |-> request[c].sent, ciphertext |-> c, commitment |-> c] \in Row
  BY <1>4 DEF Row
<1>7. DOMAIN row' = counted' /\ row' \in [counted' -> Row]
  BY <1>1, <1>3, <1>5, <1>6
<1>8. ElectionTypes' /\ BallotTypes'
  BY <1>1, <1>2, <1>7 DEF ElectionTypes, BallotTypes
<1>9. PagesTyped' /\ \A u \in Tabs : PageTells(page[u])'
  BY <1>1, PagesRest
<1>10. AnswersTyped' /\ OneCounted' /\ RequestsFit' /\ AcceptedCounted'
  BY <1>1, <1>2, <1>3, <1>4
  DEF PageInv, AnswersTyped, OneCounted, RequestsFit, AcceptedCounted
<1> QED
  BY <1>1, <1>8, <1>9, <1>10, PageParts DEF PageInv, Kept

LEMMA AnswersKeeps ==
    ASSUME PageInv, NEW c \in Casts, Answers(c)
    PROVE  PageInv' /\ Kept
<1>1. /\ UNCHANGED <<status, integrated, eligible, row, request, page, saved>>
      /\ counted' = counted
  BY DEF Answers, Box!Reply, Box!Crash
<1>2. ElectionTypes /\ BallotTypes /\ AnswersTyped /\ AcceptedCounted
  BY PageParts DEF PageInv
<1>3. AnswersTyped' /\ AcceptedCounted'
  <2>1. ASSUME NEW told \in {"accepted", "already voted", "refused"},
               Box!Reply(c, told)
        PROVE  AnswersTyped' /\ AcceptedCounted'
    BY <1>1, <1>2, <2>1 DEF Box!Reply, AnswersTyped, AcceptedCounted
  <2>2. ASSUME Box!Crash({c})
        PROVE  AnswersTyped' /\ AcceptedCounted'
    BY <1>1, <1>2, <2>2 DEF Box!Crash, AnswersTyped, AcceptedCounted
  <2> QED
    BY <2>1, <2>2 DEF Answers
<1>4. ElectionTypes' /\ BallotTypes'
  BY <1>1, <1>2 DEF ElectionTypes, BallotTypes
<1>5. PagesTyped' /\ \A u \in Tabs : PageTells(page[u])'
  BY <1>1, PagesRest
<1>6. OneCounted' /\ RequestsFit'
  BY <1>1 DEF PageInv, OneCounted, RequestsFit
<1> QED
  BY <1>1, <1>3, <1>4, <1>5, <1>6, PageParts DEF PageInv, Kept

LEMMA AdministerKeeps ==
    ASSUME PageInv, Administer
    PROVE  PageInv' /\ Kept
<1>1. UNCHANGED <<integrated, counted, answer, row, request, page, saved>>
  BY DEF Administer
<1>2. ElectionTypes /\ BallotTypes
  BY PageParts DEF PageInv
<1>3. ElectionTypes'
  <2>1. status' \in Statuses
    BY <1>2 DEF Administer, ElectionTypes, Statuses
  <2>2. eligible' \in BOOLEAN
    BY <1>2 DEF Administer, ElectionTypes
  <2> QED
    BY <1>1, <1>2, <2>1, <2>2 DEF ElectionTypes
<1>4. BallotTypes'
  BY <1>1, <1>2 DEF BallotTypes
<1>5. PagesTyped' /\ \A u \in Tabs : PageTells(page[u])'
  BY <1>1, PagesRest
<1>6. AnswersTyped' /\ OneCounted' /\ RequestsFit' /\ AcceptedCounted'
  BY <1>1 DEF PageInv, AnswersTyped, OneCounted, RequestsFit, AcceptedCounted
<1> QED
  BY <1>1, <1>3, <1>4, <1>5, <1>6, PageParts DEF PageInv, Kept

-----------------------------------------------------------------------------
(* The verify page.  A report, once made, stays true: it is about a saved  *)
(* receipt, whose ballot is counted and whose request no longer changes.   *)

View == [at : {"idle", "row", "chain", "done"},
         receipt : Casts \union {NoOne},
         seenRow : Row \union {NotRead},
         report : {"none", "pass", "warn", "fail", "error"}]

CastAs(c) == [candidate |-> request[c].sent, ciphertext |-> c, commitment |-> c]

ViewTells(v) ==
    /\ v.at # "idle" => v.receipt \in saved
    /\ v.at = "chain" => v.seenRow \in Row
    /\ v.report # "none" => v.at = "done"
    /\ v.report \in {"pass", "warn", "fail"} =>
           ((v.report = "fail") <=> (v.seenRow # CastAs(v.receipt)))
    /\ v.report = "pass" =>
           \E i \in DOMAIN chain :
               chain[i] = [voter |-> "the voter", commitment |-> v.receipt]

ChainFits == \A i \in own(chain) : chain[i].commitment \in counted

VerifyTyped ==
    /\ chain \in Seq(Block)
    /\ alterations \in 0 .. MaxAlterations
    /\ verify \in [Tabs -> View]

VerifyInv ==
    /\ PageInv
    /\ VerifyTyped
    /\ ChainFits
    /\ \A t \in Tabs : ViewTells(verify[t])

ChainGrows == \A i \in DOMAIN chain : i \in DOMAIN chain' /\ chain'[i] = chain[i]

LEMMA TellsStill ==
    ASSUME PageInv, Kept, ChainGrows, NEW v, ViewTells(v)
    PROVE  ViewTells(v)'
<1>1. saved \subseteq counted /\ saved \subseteq saved'
  BY PageParts DEF PageInv, BallotTypes, Kept
<1>2. v.report # "none" => v.receipt \in counted
  BY <1>1 DEF ViewTells
<1>3. v.report # "none" => (CastAs(v.receipt)' = CastAs(v.receipt))
  BY <1>2 DEF Kept, CastAs
<1>4. v.report \in {"pass", "warn", "fail"} =>
          ((v.report = "fail") <=> (v.seenRow # CastAs(v.receipt)'))
  BY <1>3 DEF ViewTells
<1>5. v.report = "pass" =>
          \E i \in DOMAIN chain' :
              chain'[i] = [voter |-> "the voter", commitment |-> v.receipt]
  BY DEF ViewTells, ChainGrows
<1> QED
  BY <1>1, <1>4, <1>5 DEF ViewTells, CastAs

(* One tab's view changes, or none.                                        *)
LEMMA ViewsMove ==
    ASSUME VerifyInv, Kept, NEW t \in Tabs, NEW v \in View, ViewTells(v)',
           verify' = [verify EXCEPT ![t] = v], UNCHANGED <<chain, alterations>>
    PROVE  VerifyTyped' /\ ChainFits' /\ \A u \in Tabs : ViewTells(verify[u])'
<1>1. /\ PageInv /\ VerifyTyped /\ ChainFits /\ ChainGrows
      /\ counted \subseteq counted'
  BY DEF VerifyInv, ChainGrows, Kept
<1>2. /\ verify' \in [Tabs -> View] /\ verify'[t] = v
      /\ \A u \in Tabs \ {t} : verify'[u] = verify[u]
  BY <1>1 DEF VerifyTyped
<1>3. ASSUME NEW u \in Tabs
      PROVE  ViewTells(verify[u])'
  <2>1. PICK x : x = verify'[u]
    OBVIOUS
  <2>2. ViewTells(x)'
    <3>1. CASE u = t
      BY <1>2, <2>1, <3>1
    <3>2. CASE u # t
      BY <1>1, <1>2, <2>1, <3>2, TellsStill DEF VerifyInv
    <3> QED
      BY <3>1, <3>2
  <2> QED
    BY <2>1, <2>2 DEF ViewTells
<1>4. VerifyTyped' /\ ChainFits'
  BY <1>1, <1>2 DEF VerifyTyped, ChainFits, own
<1> QED
  BY <1>3, <1>4

LEMMA ViewsRest ==
    ASSUME VerifyInv, Kept, UNCHANGED <<chain, alterations, verify>>
    PROVE  VerifyTyped' /\ ChainFits' /\ \A u \in Tabs : ViewTells(verify[u])'
<1>1. /\ PageInv /\ VerifyTyped /\ ChainFits /\ ChainGrows
      /\ counted \subseteq counted'
  BY DEF VerifyInv, ChainGrows, Kept
<1>2. ASSUME NEW u \in Tabs
      PROVE  ViewTells(verify[u])'
  <2>1. PICK x : x = verify[u]
    OBVIOUS
  <2>2. ViewTells(x)'
    BY <1>1, <2>1, TellsStill DEF VerifyInv
  <2> QED
    BY <2>1, <2>2 DEF ViewTells
<1>3. VerifyTyped' /\ ChainFits'
  BY <1>1 DEF VerifyTyped, ChainFits, own
<1> QED
  BY <1>2, <1>3

LEMMA PageStays == PageInv /\ UNCHANGED pageVars => PageInv' /\ Kept
<1> SUFFICES ASSUME PageInv, UNCHANGED pageVars PROVE PageInv' /\ Kept
  OBVIOUS
<1>1. ElectionTypes' /\ BallotTypes' /\ PagesTyped'
  BY PageParts DEF PageInv, ElectionTypes, BallotTypes, PagesTyped, pageVars
<1>2. AnswersTyped' /\ OneCounted' /\ RequestsFit' /\ AcceptedCounted'
  BY DEF PageInv, AnswersTyped, OneCounted, RequestsFit, AcceptedCounted, pageVars
<1>3. \A u \in Tabs : PageTells(page[u])'
  BY DEF PageInv, PageTells, pageVars
<1> QED
  BY <1>1, <1>2, <1>3, PageParts DEF PageInv, Kept, pageVars

-----------------------------------------------------------------------------
(* The block that decides is the first of the voter's.                     *)
LEMMA FirstOwn ==
    ASSUME chain \in Seq(Block), own(chain) # {}
    PROVE  (CHOOSE i \in own(chain) : \A j \in own(chain) : i <= j) \in own(chain)
<1>1. own(chain) \subseteq Nat
  <2>1. DOMAIN chain = 1 .. Len(chain)
    OBVIOUS
  <2>2. own(chain) \subseteq DOMAIN chain
    BY DEF own
  <2> QED
    BY <2>1, <2>2
<1>2. PICK m \in own(chain) : \A j \in own(chain) : m <= j
  <2> DEFINE R == {p \in Nat \X Nat : p[1] < p[2]}
  <2>1. OpToRel(<, Nat) = R
    BY DEF OpToRel
  <2>2. IsWellFoundedOn(R, Nat)
    BY <2>1, NatLessThanWellFounded
  <2>3. \A j, k \in Nat : j < k => <<j, k>> \in R
    OBVIOUS
  <2> HIDE DEF R
  <2>4. PICK m \in own(chain) : \A j \in own(chain) : ~ (<<j, m>> \in R)
    BY <1>1, <2>2, WFMin
  <2>5. \A j \in own(chain) : ~ (j < m)
    BY <1>1, <2>3, <2>4
  <2> QED
    BY <1>1, <2>5
<1> QED
  BY <1>2

LEMMA OnChain ==
    ASSUME VerifyInv, NEW c \in counted, NEW commitment
    PROVE  LET found == checkOnChain(chain, commitment) IN
           /\ found \in {"absent", "match", "mismatch"}
           /\ found = "mismatch" => commitment # c
           /\ found = "match" /\ commitment = c =>
                  \E i \in DOMAIN chain :
                      chain[i] = [voter |-> "the voter", commitment |-> c]
<1> DEFINE first == CHOOSE i \in own(chain) : \A j \in own(chain) : i <= j
<1>1. CASE own(chain) = {}
  BY <1>1 DEF checkOnChain
<1>2. CASE own(chain) # {}
  <2>1. chain \in Seq(Block) /\ ChainFits
    BY DEF VerifyInv, VerifyTyped
  <2>2. first \in own(chain)
    BY <1>2, <2>1, FirstOwn
  <2>3. checkOnChain(chain, commitment)
            = IF chain[first].commitment = commitment THEN "match" ELSE "mismatch"
    BY <1>2 DEF checkOnChain
  <2> HIDE DEF first
  <2>4. /\ first \in DOMAIN chain /\ chain[first] \in Block
        /\ chain[first].voter = "the voter"
    <3>1. first \in DOMAIN chain /\ chain[first].voter = "the voter"
      BY <2>2 DEF own
    <3>2. \A i \in DOMAIN chain : chain[i] \in Block
      BY <2>1
    <3> QED
      BY <3>1, <3>2
  <2>5. chain[first].commitment = c
    BY <2>1, <2>2 DEF ChainFits, VerifyInv, PageInv, OneCounted
  <2>6. chain[first] = [voter |-> "the voter", commitment |-> c]
    BY <2>4, <2>5 DEF Block
  <2> QED
    BY <2>3, <2>4, <2>5, <2>6
<1> QED
  BY <1>1, <1>2

(* What the lines of the report add up to                                  *)
LEMMA Outcome ==
    ASSUME NEW c, NEW s \in Row, request[c].sealed = request[c].sent,
           NEW found \in {"absent", "match", "mismatch", "unreachable"},
           found = "mismatch" => s.commitment # c
    PROVE  LET report == overall(checks(c, s, found)) IN
           /\ report \in {"pass", "warn", "fail"}
           /\ (report = "fail") <=> (s # CastAs(c))
           /\ report = "pass" => found = "match" /\ s.commitment = c
<1> DEFINE lines == checks(c, s, found)
           fits == commitmentConsistent(s) /\ opens(c, s) /\ candidateMatch(c, s)
<1>1. "fail" \in lines <=> ~fits \/ (opens(c, s) /\ found = "mismatch")
  BY DEF checks
<1>2. "warn" \notin lines => opens(c, s) /\ found \in {"match", "mismatch"}
  BY DEF checks
<1>3. fits <=> /\ s.commitment = c /\ s.ciphertext = c
               /\ s.candidate = request[c].sent
  BY DEF commitmentConsistent, opens, candidateMatch
<1>4. fits <=> s = CastAs(c)
  BY <1>3 DEF CastAs, Row
<1>5. opens(c, s) /\ found = "mismatch" => ~fits
  BY <1>3
<1> HIDE DEF lines, fits
<1>6. "fail" \in lines <=> ~fits
  BY <1>1, <1>5
<1>7. overall(lines) = IF "fail" \in lines THEN "fail"
                       ELSE IF "warn" \in lines THEN "warn" ELSE "pass"
  BY DEF overall
<1>8. overall(lines) = "pass" => found = "match" /\ s.commitment = c
  BY <1>2, <1>3, <1>5, <1>6, <1>7
<1>9. overall(lines) \in {"pass", "warn", "fail"}
      /\ ((overall(lines) = "fail") <=> (s # CastAs(c)))
  BY <1>4, <1>6, <1>7
<1> QED
  BY <1>8, <1>9 DEF lines

-----------------------------------------------------------------------------
(* The steps.                                                              *)

LEMMA ReadChainKeeps ==
    ASSUME VerifyInv, NEW t \in Tabs, ReadChain(t)
    PROVE  VerifyInv'
<1>1. UNCHANGED pageVars /\ UNCHANGED <<chain, alterations>>
  BY DEF ReadChain, Verifies
<1>2. PageInv /\ PageInv' /\ Kept
  BY <1>1, PageStays DEF VerifyInv
<1>3. PICK c, s : c = verify[t].receipt /\ s = verify[t].seenRow
  OBVIOUS
<1>4. verify \in [Tabs -> View] /\ verify[t] \in View /\ ViewTells(verify[t])
      /\ verify[t].at = "chain"
  BY DEF VerifyInv, VerifyTyped, ReadChain
<1>5. c \in saved /\ c \in counted /\ c \in Casts /\ s \in Row
  BY <1>2, <1>3, <1>4, PageParts DEF ViewTells, PageInv, BallotTypes
<1>6. request[c].sealed = request[c].sent
  BY <1>2, <1>5 DEF PageInv, RequestsFit
<1>7. PICK found \in {checkOnChain(chain, s.commitment), "unreachable"} :
          Verifies(t, [verify[t] EXCEPT !.at = "done",
                           !.report = overall(checks(c, s, found))])
  BY <1>3 DEF ReadChain
<1>8. /\ found \in {"absent", "match", "mismatch", "unreachable"}
      /\ found = "mismatch" => s.commitment # c
      /\ found = "match" /\ s.commitment = c =>
             \E i \in DOMAIN chain :
                 chain[i] = [voter |-> "the voter", commitment |-> c]
  BY <1>5, <1>7, OnChain
<1>9. PICK report : report = overall(checks(c, s, found))
  OBVIOUS
<1>10. /\ report \in {"pass", "warn", "fail"}
       /\ (report = "fail") <=> (s # CastAs(c))
       /\ report = "pass" => found = "match" /\ s.commitment = c
  BY <1>5, <1>6, <1>8, <1>9, Outcome
<1>11. PICK v : v = [verify[t] EXCEPT !.at = "done", !.report = report]
  OBVIOUS
<1>12. /\ v \in View /\ v.at = "done" /\ v.report = report
       /\ v.receipt = c /\ v.seenRow = s
  BY <1>3, <1>4, <1>10, <1>11 DEF View
<1>13. verify' = [verify EXCEPT ![t] = v]
  BY <1>7, <1>9, <1>11 DEF Verifies
<1>14. CastAs(c)' = CastAs(c)
  BY <1>1 DEF CastAs, pageVars
<1>15. ViewTells(v)'
  <2>1. v.report = "pass" =>
            \E i \in DOMAIN chain' :
                chain'[i] = [voter |-> "the voter", commitment |-> v.receipt]
    BY <1>1, <1>8, <1>10, <1>12
  <2>2. saved' = saved
    BY <1>1 DEF pageVars
  <2>3. v.report \in {"pass", "warn", "fail"} =>
            ((v.report = "fail") <=> (v.seenRow # CastAs(v.receipt)'))
    BY <1>10, <1>12, <1>14
  <2> QED
    BY <1>5, <1>12, <2>1, <2>2, <2>3 DEF ViewTells, CastAs
<1>16. VerifyTyped' /\ ChainFits' /\ \A u \in Tabs : ViewTells(verify[u])'
  BY <1>1, <1>2, <1>12, <1>13, <1>15, ViewsMove
<1> QED
  BY <1>2, <1>16 DEF VerifyInv

(* What the page does before it has read the chain tells nothing.          *)
LEMMA TellsNothing ==
    ASSUME NEW v, v.report \in {"none", "error"},
           v.at # "idle" => v.receipt \in saved',
           v.at = "chain" => v.seenRow \in Row,
           v.report # "none" => v.at = "done"
    PROVE  ViewTells(v)'
  BY DEF ViewTells

LEMMA VerifyingKeeps ==
    ASSUME VerifyInv, NEW t \in Tabs,
           \/ \E c \in Casts : handleVerify(t, c)
           \/ ReadRow(t) \/ ReadRowFails(t)
    PROVE  VerifyInv'
<1>1. UNCHANGED pageVars /\ UNCHANGED <<chain, alterations>>
  BY DEF handleVerify, ReadRow, ReadRowFails, Verifies
<1>2. PageInv /\ PageInv' /\ Kept /\ saved' = saved
  BY <1>1, PageStays DEF VerifyInv, pageVars
<1>3. verify[t] \in View /\ ViewTells(verify[t])
  BY DEF VerifyInv, VerifyTyped
<1>4. SUFFICES \E v \in View : ViewTells(v)' /\ verify' = [verify EXCEPT ![t] = v]
  BY <1>1, <1>2, ViewsMove DEF VerifyInv
<1>5. ASSUME NEW c \in Casts, handleVerify(t, c)
      PROVE  \E v \in View : ViewTells(v)' /\ verify' = [verify EXCEPT ![t] = v]
  <2>1. PICK v : v = [Idle EXCEPT !.at = "row", !.receipt = c]
    OBVIOUS
  <2>2. v \in View /\ v.at = "row" /\ v.report = "none" /\ v.receipt = c
    BY <2>1 DEF Idle, View
  <2>3. ViewTells(v)'
    <3>1. c \in saved'
      BY <1>2, <1>5 DEF handleVerify
    <3> QED
      BY <2>2, <3>1, TellsNothing
  <2> QED
    BY <1>5, <2>1, <2>2, <2>3 DEF handleVerify, Verifies
<1>6. CASE ReadRow(t)
  <2>1. PICK s : s = row[verify[t].receipt]
    OBVIOUS
  <2>2. verify[t].receipt \in saved /\ verify[t].report = "none"
    BY <1>3, <1>6 DEF ViewTells, ReadRow
  <2>3. s \in Row
    BY <1>2, <2>1, <2>2, PageParts DEF PageInv, BallotTypes
  <2>4. PICK v : v = [verify[t] EXCEPT !.seenRow = s, !.at = "chain"]
    OBVIOUS
  <2>5. /\ v \in View /\ v.at = "chain" /\ v.report = "none"
        /\ v.receipt = verify[t].receipt /\ v.seenRow = s
    BY <1>3, <2>2, <2>3, <2>4 DEF View
  <2>6. ViewTells(v)'
    BY <1>2, <2>2, <2>3, <2>5, TellsNothing
  <2> QED
    BY <1>6, <2>1, <2>4, <2>5, <2>6 DEF ReadRow, Verifies
<1>7. CASE ReadRowFails(t)
  <2>1. verify[t].receipt \in saved
    BY <1>3, <1>7 DEF ViewTells, ReadRowFails
  <2>2. PICK v : v = [verify[t] EXCEPT !.report = "error", !.at = "done"]
    OBVIOUS
  <2>3. /\ v \in View /\ v.at = "done" /\ v.report = "error"
        /\ v.receipt = verify[t].receipt
    BY <1>3, <2>2 DEF View
  <2>4. ViewTells(v)'
    BY <1>2, <2>1, <2>3, TellsNothing
  <2> QED
    BY <1>7, <2>2, <2>3, <2>4 DEF ReadRowFails, Verifies
<1> QED
  BY <1>5, <1>6, <1>7

LEMMA NavigationKeeps ==
    ASSUME VerifyInv, NEW t \in Tabs, Leave(t) \/ Return(t)
    PROVE  VerifyInv'
<1>1. PageInv /\ PageInv' /\ Kept
  BY NavigationIsQuiet, QuietKeeps DEF VerifyInv, PageInv
<1>2. CASE Leave(t)
  BY <1>1, <1>2, ViewsRest DEF Leave, VerifyInv
<1>3. CASE Return(t)
  <2>1. Idle \in View /\ ViewTells(Idle)'
    BY DEF Idle, View, ViewTells
  <2>2. verify' = [verify EXCEPT ![t] = Idle] /\ UNCHANGED <<chain, alterations>>
    BY <1>3 DEF Return
  <2>3. VerifyTyped' /\ ChainFits' /\ \A u \in Tabs : ViewTells(verify[u])'
    BY <1>1, <2>1, <2>2, ViewsMove
  <2> QED
    BY <1>1, <2>3 DEF VerifyInv
<1> QED
  BY <1>2, <1>3

LEMMA LastOrBefore ==
    ASSUME NEW n \in Nat, NEW i \in 1 .. n + 1
    PROVE  i \in 1 .. n \/ i = n + 1
  OBVIOUS

LEMMA AnchorKeeps ==
    ASSUME VerifyInv, NEW c \in Casts, Anchor(c)
    PROVE  VerifyInv'
<1>1. /\ UNCHANGED pageVars /\ UNCHANGED <<alterations, verify>>
      /\ c \in counted
      /\ chain' = Append(chain, [voter |-> "the voter", commitment |-> c])
  BY DEF Anchor
<1>2. PageInv /\ PageInv' /\ Kept /\ counted' = counted
  BY <1>1, PageStays DEF VerifyInv, pageVars
<1>3. PICK b \in Block : b = [voter |-> "the voter", commitment |-> c]
  BY DEF Block
<1>4. chain \in Seq(Block) /\ ChainFits /\ VerifyTyped
  BY DEF VerifyInv, VerifyTyped
<1>5. chain' = Append(chain, b)
  BY <1>1, <1>3
<1>6. /\ chain' \in Seq(Block)
      /\ Len(chain') = Len(chain) + 1
      /\ chain'[Len(chain) + 1] = b
      /\ \A i \in 1 .. Len(chain) : chain'[i] = chain[i]
  BY <1>4, <1>5, AppendProperties
<1>7. /\ DOMAIN chain = 1 .. Len(chain) /\ Len(chain) \in Nat
      /\ DOMAIN chain' = 1 .. Len(chain) + 1
  BY <1>4, <1>6
<1>8. ChainGrows
  BY <1>6, <1>7 DEF ChainGrows
<1>9. ChainFits'
  <2> SUFFICES ASSUME NEW i \in DOMAIN chain', chain'[i].voter = "the voter"
               PROVE  chain'[i].commitment \in counted'
    BY DEF ChainFits, own
  <2>1. CASE i \in 1 .. Len(chain)
    <3>1. chain'[i] = chain[i] /\ i \in own(chain)
      BY <1>6, <1>7, <2>1 DEF own
    <3>2. chain[i].commitment \in counted
      BY <1>4, <3>1 DEF ChainFits
    <3> QED
      BY <1>2, <3>1, <3>2
  <2>2. CASE i = Len(chain) + 1
    <3>1. b.commitment = c
      BY <1>3
    <3>2. chain'[i] = b
      BY <1>6, <2>2
    <3> QED
      BY <1>1, <1>2, <3>1, <3>2
  <2>3. i \in 1 .. Len(chain) \/ i = Len(chain) + 1
    <3>1. PICK n \in Nat : n = Len(chain)
      BY <1>7
    <3>2. i \in 1 .. n + 1
      BY <1>7, <3>1
    <3>3. i \in 1 .. n \/ i = n + 1
      BY <3>1, <3>2, LastOrBefore
    <3> QED
      BY <3>1, <3>3
  <2> QED
    BY <2>1, <2>2, <2>3
<1>10. VerifyTyped'
  BY <1>1, <1>4, <1>6 DEF VerifyTyped
<1>11. ASSUME NEW u \in Tabs
       PROVE  ViewTells(verify[u])'
  <2>1. PICK x : x = verify[u]
    OBVIOUS
  <2>2. ViewTells(x)'
    BY <1>2, <1>8, <2>1, TellsStill DEF VerifyInv
  <2> QED
    BY <1>1, <2>1, <2>2 DEF ViewTells
<1> QED
  BY <1>2, <1>9, <1>10, <1>11 DEF VerifyInv

LEMMA AlterKeeps ==
    ASSUME VerifyInv, NEW c \in Casts, Alter(c)
    PROVE  VerifyInv'
<1>1. /\ UNCHANGED <<status, integrated, eligible, counted, answer, request,
                     page, saved, chain, verify>>
      /\ alterations < MaxAlterations /\ alterations' = alterations + 1
  BY DEF Alter
<1>2. PageInv /\ ElectionTypes /\ BallotTypes /\ PagesTyped
  BY PageParts DEF VerifyInv, PageInv
<1>3. c \in counted
  BY <1>2 DEF Alter, VerifyInv, ViewTells, BallotTypes
<1>4. PICK damaged :
          /\ damaged \in
                {[row[c] EXCEPT !.candidate = x] :
                     x \in Candidates \ {row[c].candidate}}
                \union {[row[c] EXCEPT !.ciphertext = "other"],
                        [row[c] EXCEPT !.commitment = "other"],
                        [row[c] EXCEPT !.ciphertext = "other",
                                       !.commitment = "other"]}
          /\ row' = [row EXCEPT ![c] = damaged]
  BY DEF Alter
<1>5. damaged \in Row
  <2>1. row[c] \in Row
    BY <1>2, <1>3 DEF BallotTypes
  <2> QED
    BY <1>4, <2>1 DEF Row
<1>6. DOMAIN row' = counted /\ row' \in [counted -> Row]
  BY <1>2, <1>4, <1>5 DEF BallotTypes
<1>7. ElectionTypes' /\ BallotTypes' /\ PagesTyped'
  BY <1>1, <1>2, <1>6 DEF ElectionTypes, BallotTypes, PagesTyped
<1>8. PageInv' /\ Kept
  <2>1. AnswersTyped' /\ OneCounted' /\ RequestsFit' /\ AcceptedCounted'
    BY <1>1, <1>2 DEF PageInv, AnswersTyped, OneCounted, RequestsFit,
                      AcceptedCounted
  <2>2. \A u \in Tabs : PageTells(page[u])'
    BY <1>1, <1>2 DEF PageInv, PageTells
  <2> QED
    BY <1>1, <1>7, <2>1, <2>2, PageParts DEF PageInv, Kept
<1>9. alterations' \in 0 .. MaxAlterations
  BY <1>1, AlterationsAreNat DEF VerifyInv, VerifyTyped
<1>10. VerifyTyped' /\ ChainFits'
  BY <1>1, <1>9 DEF VerifyInv, VerifyTyped, ChainFits, own
<1>11. \A u \in Tabs : ViewTells(verify[u])'
  BY <1>1 DEF VerifyInv, ViewTells, CastAs
<1> QED
  BY <1>8, <1>10, <1>11 DEF VerifyInv

LEMMA PageStepKeeps ==
    ASSUME PageInv,
           \/ \E t \in Tabs : Answered(t) \/ VoterActs(t)
           \/ \E c \in Casts : Counts(c) \/ Answers(c)
           \/ Administer
    PROVE  PageInv' /\ Kept
<1>1. PageTypeOK
  BY DEF PageInv
<1>2. ASSUME NEW t \in Tabs, Answered(t)
      PROVE  PageInv' /\ Kept
  BY <1>1, <1>2, LoadingIsQuiet, EnrollingIsQuiet, QuietKeeps, BallotLoadedKeeps,
     SendKeeps, CastAcceptedKeeps
  DEF Answered
<1>3. ASSUME NEW t \in Tabs, VoterActs(t)
      PROVE  PageInv' /\ Kept
  BY <1>1, <1>3, LoadingIsQuiet, DialogIsQuiet, QuietKeeps, ConfirmKeeps,
     SaveReceiptKeeps
  DEF VoterActs
<1> QED
  BY <1>2, <1>3, CountsKeeps, AnswersKeeps, AdministerKeeps

LEMMA InitVerifyInv == Init => VerifyInv
<1> SUFFICES ASSUME Init PROVE VerifyInv
  OBVIOUS
<1>1. counted = {} /\ saved = {} /\ DOMAIN request = {} /\ DOMAIN row = {}
  BY DEF Init, PageInit, Box!Init
<1>2. Fresh \in Page /\ PageTells(Fresh) /\ Fresh.cast = NoOne
  BY DEF Fresh, Page, Statuses, EligibilityPhase, Awaited, PageTells
<1>3. ElectionTypes
  BY DEF Init, PageInit, ElectionTypes, Statuses
<1>4. BallotTypes
  BY <1>1 DEF Init, PageInit, BallotTypes
<1>5. PagesTyped /\ \A t \in Tabs : PageTells(page[t])
  BY <1>2 DEF Init, PageInit, PagesTyped
<1>6. AnswersTyped /\ AcceptedCounted
  BY DEF Init, PageInit, Box!Init, AnswersTyped, AcceptedCounted
<1>7. OneCounted /\ RequestsFit
  BY <1>1 DEF OneCounted, RequestsFit
<1>8. Idle \in View /\ ViewTells(Idle)
  BY DEF Idle, View, ViewTells
<1>9. VerifyTyped
  <2>1. [voter |-> "another", commitment |-> Neighbour] \in Block
    BY DEF Block
  <2>2. chain \in Seq(Block)
    BY <2>1 DEF Init
  <2>3. alterations \in 0 .. MaxAlterations
    BY AlterationsAreNat DEF Init
  <2> QED
    BY <1>8, <2>2, <2>3 DEF Init, VerifyTyped
<1>10. ChainFits
  <2>1. PICK b : b = [voter |-> "another", commitment |-> Neighbour]
    OBVIOUS
  <2>2. chain = <<b>> /\ b.voter # "the voter"
    BY <2>1 DEF Init
  <2>3. \A i \in DOMAIN chain : chain[i] = b
    <3>1. <<b>> \in Seq({b})
      OBVIOUS
    <3>2. \A s \in Seq({b}) : \A i \in DOMAIN s : s[i] \in {b}
      OBVIOUS
    <3> QED
      BY <2>2, <3>1, <3>2
  <2>4. own(chain) = {}
    BY <2>2, <2>3 DEF own
  <2> QED
    BY <2>4 DEF ChainFits
<1>11. \A t \in Tabs : ViewTells(verify[t])
  BY <1>8 DEF Init
<1> QED
  BY <1>3, <1>4, <1>5, <1>6, <1>7, <1>9, <1>10, <1>11, PageParts
  DEF PageInv, VerifyInv

LEMMA NextVerifyInv == VerifyInv /\ [Next]_vars => VerifyInv'
<1> SUFFICES ASSUME VerifyInv, [Next]_vars PROVE VerifyInv'
  OBVIOUS
<1>1. ASSUME onlyPage, PageInv' /\ Kept
      PROVE  VerifyInv'
  BY <1>1, ViewsRest DEF onlyPage, VerifyInv
<1>2. CASE \/ \E t \in Tabs : (Answered(t) \/ VoterActs(t)) /\ onlyPage
           \/ \E c \in Casts : (Counts(c) \/ Answers(c)) /\ onlyPage
           \/ Administer /\ onlyPage
  BY <1>1, <1>2, PageStepKeeps DEF VerifyInv
<1>3. CASE UNCHANGED vars
  BY <1>1, <1>3, PageStays DEF vars, onlyPage, VerifyInv
<1> QED
  BY <1>2, <1>3, NavigationKeeps, VerifyingKeeps, ReadChainKeeps, AnchorKeeps,
     AlterKeeps
  DEF Next, VerifyAnswered

LEMMA VerifyInvStays == Spec => []VerifyInv
  BY InitVerifyInv, NextVerifyInv, PTL DEF Spec

(* The page, the ballots, the chain and the verification stay well typed.  *)
THEOREM PageTypesCorrect == Spec => []TypeOK
<1>1. VerifyInv => TypeOK
  BY DEF VerifyInv, PageInv, VerifyTyped, View, TypeOK
<1> QED
  BY <1>1, VerifyInvStays, PTL

(* A page that says the voter has voted is right, in any number of tabs,   *)
(* whatever fails, is reloaded or is granted and revoked meanwhile         *)
(* (ShownVotedIsCounted).                                                  *)
THEOREM VotedIsShownTruly == Spec => []ShownVotedIsCounted
<1>1. VerifyInv => ShownVotedIsCounted
  BY VotedIsCounted, PageParts
  DEF VerifyInv, PageInv, PageTells, ShownVotedIsCounted
<1> QED
  BY <1>1, VerifyInvStays, PTL

(* There is at most one receipt, and it opens the ballot that is counted,  *)
(* for the candidate the dialog named (ReceiptOpensCountedBallot).         *)
THEOREM OneReceiptThatOpens == Spec => []ReceiptOpensCountedBallot
<1>1. ASSUME VerifyInv
      PROVE  ReceiptOpensCountedBallot
  <2>1. PageInv /\ BallotTypes /\ RequestsFit /\ OneCounted
    BY <1>1, PageParts DEF VerifyInv, PageInv
  <2>2. Receipts \subseteq counted
    BY <2>1 DEF Receipts, BallotTypes, PageInv, PageTells
  <2>3. Cardinality(Receipts) <= 1
    <3>1. CASE Receipts = {}
      BY <3>1, FS_EmptySet
    <3>2. CASE Receipts # {}
      <4>1. PICK c : Receipts = {c}
        BY <2>1, <2>2, <3>2 DEF OneCounted
      <4> QED
        BY <4>1, FS_Singleton
    <3> QED
      BY <3>1, <3>2
  <2>4. ASSUME NEW c \in Receipts
        PROVE  request[c] = [named |-> request[c].named,
                             sealed |-> request[c].named,
                             sent |-> request[c].named]
    <3>1. c \in counted /\ request[c] \in Request
      BY <2>1, <2>2 DEF RequestsFit, BallotTypes
    <3>2. request[c].sealed = request[c].named /\ request[c].sent = request[c].named
      BY <2>1, <3>1 DEF RequestsFit
    <3> QED
      BY <3>1, <3>2 DEF Request
  <2> QED
    BY <2>2, <2>3, <2>4 DEF ReceiptOpensCountedBallot
<1> QED
  BY <1>1, VerifyInvStays, PTL

(* A report fails exactly when the stored ballot is not the one that was   *)
(* cast, whatever was damaged and however late its block (ReportTellsTruth)*)
THEOREM ReportsAreTrue == Spec => []ReportTellsTruth
<1>1. VerifyInv => ReportTellsTruth
  BY DEF VerifyInv, ViewTells, CastAs, ReportTellsTruth
<1> QED
  BY <1>1, VerifyInvStays, PTL

(* A ballot that passes every check is anchored under the voter's number   *)
(* (PassedIsAnchored).                                                     *)
THEOREM PassedBallotIsAnchored == Spec => []PassedIsAnchored
<1>1. VerifyInv => PassedIsAnchored
  BY DEF VerifyInv, ViewTells, PassedIsAnchored
<1> QED
  BY <1>1, VerifyInvStays, PTL

=============================================================================
