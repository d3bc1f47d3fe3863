---------------------------- MODULE AuditPortal ----------------------------
(***************************************************************************)
(* Auditors: their organisations, which administrators approve or reject   *)
(* (apps/auth), the audit routes of the backend, which ask the auth        *)
(* service about each caller and then read an election in several          *)
(* statements, and the portal (apps/auditing-fe) in a browser's session.   *)
(*                                                                         *)
(* The election is one that is set up, voted in, ended and deleted         *)
(* meanwhile, by requests that do not overlap.                             *)
(***************************************************************************)
EXTENDS Session, FiniteSets, FiniteSetsExt, Functions, Routes

CONSTANTS
    Candidates,
    MaxVotes   \* bound on the votes cast

ASSUME CandidatesAreFinite == IsFiniteSet(Candidates)

VARIABLES
    org,       \* by user: the approval of the newest organisation they are in
    status, entered,  \* the election and its candidates, also deleted ones
    votes,     \* by candidate: how many votes are recorded
    blocks,    \* how many blocks the chain node serves for it
    context,   \* by tab: what AuditProvider and OrgGate hold
    reading,   \* by tab: what its request asks for and has read so far
    answer     \* by tab: what the page shows

portalVars == <<org, status, entered, votes, blocks,
                context, reading, answer>>
vars == <<sessionVars, portalVars>>

Approvals == {"none", "pending", "approved", "rejected"}
Kinds == {"election", "results", "blockchain"}
Places == CallAt \union {"status", "row", "candidates", "votes", "chain"}

Unmounted == [at |-> "none", hasToken |-> FALSE, token |-> NoToken, status |-> "unread"]
Nothing == [kind |-> "election", candidates |-> {}, approvedSince |-> FALSE, votesBefore |-> 0]
Blank == [kind |-> "none", total |-> 0, sum |-> 0]
Error == [Blank EXCEPT !.kind = "error"]

totalVotes == SumFunction(votes)

TypeOK ==
    /\ SessionTypeOK(Places)
    /\ org \in [Users -> Approvals]
    /\ status \in {"draft", "active", "ended", "deleted"}
    /\ entered \subseteq Candidates
    /\ votes \in [Candidates -> Nat] /\ blocks \in 0 .. totalVotes
    /\ context \in [Tabs -> [at : {"none", "loading", "shown"}, hasToken : BOOLEAN,
                             token : MayHold, status : Approvals \union {"unread", "failed"}]]
    /\ reading \in [Tabs -> [kind : Kinds, candidates : SUBSET Candidates,
                             approvedSince : BOOLEAN, votesBefore : Nat]]
    /\ answer \in [Tabs -> [kind : Kinds \union {"none", "error"},
                            total : Nat, sum : Nat]]
    /\ \A t \in Tabs : context[t].at # "none" => app = "auditing"

Init ==
    /\ SessionInit
    /\ org = [u \in Users |-> "none"]
    /\ status = "draft" /\ entered = {}
    /\ votes = [x \in Candidates |-> 0]
    /\ blocks = 0
    /\ context = [t \in Tabs |-> Unmounted]
    /\ reading = [t \in Tabs |-> Nothing]
    /\ answer = [t \in Tabs |-> Blank]

electionVars == <<status, entered, votes, blocks>>

-----------------------------------------------------------------------------
(* Organisations                                                           *)

(* organizationLimit: one, whatever became of it.                          *)
CreateOrg(t) ==
    /\ app = "auditing" /\ tab[t].at = "elsewhere"
    /\ cookie # NoOne
    /\ org[cookie] = "none"
    /\ org' = [org EXCEPT ![cookie] = "pending"]
    /\ UNCHANGED <<sessionVars, electionVars, context, reading, answer>>

(* approve and reject look at nothing but the id: the last one stays.      *)
Judge(u, verdict) ==
    /\ org[u] # "none"
    /\ org' = [org EXCEPT ![u] = verdict]
    /\ reading' = [t \in Tabs |->
           IF verdict = "approved" /\ call[t].token.user = u
           THEN [reading[t] EXCEPT !.approvedSince = TRUE] ELSE reading[t]]
    /\ UNCHANGED <<sessionVars, electionVars, context, answer>>

-----------------------------------------------------------------------------
(* The election meanwhile                                                  *)

ElectionGoesOn ==
    /\ app = "auditing"
    /\ \/ /\ status = "draft"
          /\ \E x \in Candidates \ entered : entered' = entered \union {x}
          /\ UNCHANGED <<status, votes, blocks>>
       \/ /\ \/ status = "draft" /\ status' \in {"active", "deleted"}
             \/ status = "active" /\ status' = "ended"
             \/ status = "ended" /\ status' = "deleted"
          /\ UNCHANGED <<entered, votes, blocks>>
       \/ /\ status = "active" /\ totalVotes < MaxVotes
          /\ \E x \in entered : votes' = [votes EXCEPT ![x] = @ + 1]
          /\ UNCHANGED <<status, entered, blocks>>
       \/ /\ blocks < totalVotes /\ blocks' = blocks + 1
          /\ UNCHANGED <<status, entered, votes>>
    /\ UNCHANGED <<sessionVars, org, context, reading, answer>>

-----------------------------------------------------------------------------
(* The portal                                                              *)

(* The caller is the cookie's user, or for the backend the token's; their  *)
(* newest organisation speaks for them, and nobody is an error.            *)
resolveAuditor(user) == IF user = NoOne THEN "failed" ELSE org[user]

(* AuditProvider asks for a token and for the organisation, at once.       *)
Mount(t) ==
    /\ app = "auditing" /\ tab[t].at = "ready" /\ context[t] = Unmounted
    /\ IF stored.old
       THEN context' = Set(context, t, [Unmounted EXCEPT !.at = "loading"])
            /\ exchange' = Joined(t)
       ELSE context' = Set(context, t, [Unmounted EXCEPT !.at = "loading",
                                            !.hasToken = TRUE, !.token = stored])
            /\ UNCHANGED exchange
    /\ UNCHANGED <<app, cookie, stored, tab, call, org, electionVars,
                   reading, answer>>

ContextTold(t, token) ==
    IF context[t].at # "loading" \/ context[t].hasToken THEN context
    ELSE Set(context, t, [context[t] EXCEPT !.hasToken = TRUE, !.token = token])

fetchAuditStatus(t) ==
    /\ context[t].at = "loading" /\ context[t].status = "unread"
    /\ \E seen \in {resolveAuditor(cookie)}
                      \union (IF NetworkFails THEN {"failed"} ELSE {}) :
           context' = Set(context, t, [context[t] EXCEPT !.status = seen])
    /\ UNCHANGED <<sessionVars, org, electionVars, reading, answer>>

(* An auditor without an approved organisation is sent to the page that    *)
(* says so; one whose status could not be read is not.                     *)
OrgGate(t) ==
    /\ context[t].at = "loading" /\ context[t].hasToken
    /\ context[t].status # "unread"
    /\ context' = Set(context, t, [context[t] EXCEPT !.at = "shown"])
    /\ tab' = IF tab[t].at = "ready"
                 /\ context[t].status \in {"none", "pending", "rejected"}
              THEN Set(tab, t, [tab[t] EXCEPT !.at = "leaving"]) ELSE tab
    /\ UNCHANGED <<app, cookie, stored, exchange, call, org,
                   electionVars, reading, answer>>

(* The pages read with the token of the context, and only if there is one; *)
(* a page that opens reads an election (or the list of them).              *)
Read(t, kind) ==
    /\ context[t].at = "shown" /\ context[t].token # NoToken
    /\ call[t] = Idle
    /\ kind # "election" => answer[t].kind \in Kinds
    /\ call' = Set(call, t, [Idle EXCEPT !.at = "sent", !.token = context[t].token])
    /\ reading' = Set(reading, t, [Nothing EXCEPT !.kind = kind,
           !.approvedSince = org[context[t].token.user] = "approved",
           !.votesBefore = totalVotes])
    /\ answer' = Set(answer, t, Blank)
    /\ UNCHANGED <<app, cookie, stored, exchange, tab, org,
                   electionVars, context>>

-----------------------------------------------------------------------------
(* The backend                                                             *)

Goto(t, place) == call' = Set(call, t, [call[t] EXCEPT !.at = place])

backendKeeps == UNCHANGED <<app, cookie, stored, exchange, tab, org,
                            electionVars, context>>

(* A tab that was left meanwhile has no page to show the answer.           *)
Show(t, shown) ==
    /\ answer' = Set(answer, t, shown)
    /\ call' = Set(call, t, Idle)
    /\ reading' = Set(reading, t, Nothing)

(* Refused, not reached, or an auth service or chain node not reached.     *)
ReadFails(t) ==
    /\ app = "auditing" /\ call[t].at \notin CallAt \ {"sent"}
    /\ \/ NetworkFails
       \/ call[t].at \in {"sent", "status"} /\ Rejects(call[t].token)
       \/ call[t].at = "status" /\ resolveAuditor(call[t].token.user) # "approved"
       \/ call[t].at = "row" /\ status \in {"draft", "deleted"}
    /\ Show(t, Error)
    /\ backendKeeps

Protected(t) ==
    /\ app = "auditing" /\ call[t].at = "sent"
    /\ Accepts(call[t].token) /\ Opens("auditors", "auditResults")
    /\ Goto(t, "status")
    /\ UNCHANGED <<reading, answer>> /\ backendKeeps

AnyAuditor(t) ==
    /\ call[t].at = "status" /\ Accepts(call[t].token)
    /\ Goto(t, "row")
    /\ UNCHANGED <<reading, answer>> /\ backendKeeps

requireApprovedAuditor(t) ==
    /\ call[t].at = "status" /\ Accepts(call[t].token)
    /\ resolveAuditor(call[t].token.user) = "approved"
    /\ Goto(t, "row")
    /\ UNCHANGED <<reading, answer>> /\ backendKeeps

NextStatement(kind) ==
    CASE kind = "election" -> "votes" [] kind = "results" -> "candidates"
      [] OTHER -> "chain"

AnyRow(t) ==
    /\ call[t].at = "row" /\ status # "deleted"
    /\ Goto(t, NextStatement(reading[t].kind))
    /\ UNCHANGED <<reading, answer>> /\ backendKeeps

ReadElection(t) ==
    /\ call[t].at = "row" /\ status \in {"active", "ended"}
    /\ Goto(t, NextStatement(reading[t].kind))
    /\ UNCHANGED <<reading, answer>> /\ backendKeeps

ReadCandidates(t) ==
    /\ call[t].at = "candidates"
    /\ reading' = Set(reading, t, [reading[t] EXCEPT !.candidates = entered])
    /\ Goto(t, "votes")
    /\ UNCHANGED answer /\ backendKeeps

CountBlocks(t) ==
    /\ call[t].at = "votes"
    /\ Show(t, [kind |-> reading[t].kind, total |-> blocks,
                sum |-> SumFunctionOnSet(votes, reading[t].candidates)])
    /\ backendKeeps

(* The vote rows are counted by candidate, and the candidates looked up.   *)
CountVotes(t) ==
    /\ call[t].at = "votes"
    /\ Show(t, [kind |-> reading[t].kind, total |-> totalVotes,
                sum |-> SumFunctionOnSet(votes, reading[t].candidates)])
    /\ backendKeeps

FetchBlocks(t) ==
    /\ call[t].at = "chain"
    /\ Show(t, [kind |-> "blockchain", total |-> blocks, sum |-> 0])
    /\ backendKeeps

-----------------------------------------------------------------------------
portalKeeps == UNCHANGED portalVars
Unmount(t) ==
    /\ context' = Set(context, t, Unmounted)
    /\ answer' = Set(answer, t, Blank)
    /\ UNCHANGED <<org, electionVars>>

TabGoesOn(t) ==
    \/ (SessionAnswered(t) \/ AttemptAgain(t)) /\ portalKeeps
    \/ SignedOut(t) /\ Unmount(t) /\ UNCHANGED reading
    \/ Left(t) /\ Unmount(t) /\ reading' = Set(reading, t, Nothing)

ExchangeGoesOn(t) ==
    \/ Mint(t) /\ portalKeeps
    \/ /\ ExchangeArrives(t)
       /\ context' = ContextTold(t, exchange[t].token)
       /\ UNCHANGED <<org, electionVars, reading, answer>>

PageGoesOn(t) ==
    \/ Mount(t) \/ fetchAuditStatus(t) \/ OrgGate(t)
    \/ answer[t] = Blank /\ Read(t, "election")

BackendGoesOn(t) ==
    \/ (CallEnds(t) \/ CallRefreshes(t)) /\ portalKeeps
    \/ ReadFails(t) \/ Protected(t) \/ requireApprovedAuditor(t) \/ ReadElection(t)
    \/ ReadCandidates(t) \/ CountVotes(t) \/ FetchBlocks(t)

UserActs(t) ==
    \/ /\ Logout(t) \/ Open(t) \/ SignOutThere(t) \/ BeginCall(t)
          \/ \E u \in Users : SignIn(t, u)
       /\ portalKeeps
    \/ CreateOrg(t)
    \/ \E kind \in Kinds : Read(t, kind)

(* The token of a context ages too.                                        *)
TimePasses ==
    /\ Age
    /\ context' = [t \in Tabs |-> [context[t] EXCEPT !.token.old = TRUE]]
    /\ UNCHANGED <<org, electionVars, reading, answer>>

Next ==
    \/ \E t \in Tabs :
          \/ TabGoesOn(t) \/ ExchangeGoesOn(t) \/ PageGoesOn(t) \/ BackendGoesOn(t)
          \/ UserActs(t)
    \/ \E u \in Users, verdict \in {"approved", "rejected"} : Judge(u, verdict)
    \/ ElectionGoesOn
    \/ TimePasses

Spec == Init /\ [][Next]_vars

(* Requests are answered or fail, and pages go on by themselves.           *)
FairSpec ==
    /\ Spec
    /\ \A t \in Tabs :
          /\ WF_vars(TabGoesOn(t)) /\ WF_vars(ExchangeGoesOn(t))
          /\ WF_vars(PageGoesOn(t)) /\ WF_vars(BackendGoesOn(t))

-----------------------------------------------------------------------------
(* Election data goes only to callers whose organisation was approved at   *)
(* some moment of the request, whoever is signed in by then, and whatever  *)
(* the portal's copies of token and status say.                            *)
AnsweredOnlyApproved ==
    [][\A t \in Tabs : answer'[t] # answer[t] /\ answer'[t].kind \in Kinds
           => reading[t].approvedSince]_vars

(* A result is one the election really had between the request and the     *)
(* answer: three statements without a transaction lose no vote that was    *)
(* recorded before, and the chain never shows more than was recorded.      *)
ResultsAreCurrent ==
    [][\A t \in Tabs : answer'[t] # answer[t] /\ answer'[t].kind \in Kinds =>
           /\ answer'[t].total <= totalVotes
           /\ answer'[t].kind # "blockchain" => answer'[t].total >= reading[t].votesBefore]_vars

(* The votes of the candidates of a result add up to its total, although   *)
(* candidates, votes and election are read one after the other.            *)
ResultsAddUp ==
    \A t \in Tabs : answer[t].kind = "results" => answer[t].sum = answer[t].total

(* Nothing waits for ever: sessions and tokens are resolved, also after    *)
(* failed exchanges, logouts and redirects end, and calls are answered.    *)
Settles ==
    \A t \in Tabs : []<>(/\ tab[t].at \in {"elsewhere", "ready"}
                        /\ call[t].at \notin {"token", "refresh"}
                        /\ context[t].at # "loading")

=============================================================================
