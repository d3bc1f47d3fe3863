------------------------------ MODULE Session ------------------------------
(***************************************************************************)
(* A browser in one of the frontends (packages/fe-common): who is signed   *)
(* in at the auth service, the token cached in localStorage, the exchanges *)
(* that renew it, and the calls that carry it.                             *)
(*                                                                         *)
(* Tabs share the cookie and the storage; each has a page, with a token    *)
(* manager and an AuthProvider of its own, that a navigation discards.     *)
(***************************************************************************)
EXTENDS Naturals

CONSTANTS
    Tabs,
    Users,
    Apps,           \* the frontends the browser may use
    NetworkFails    \* whether requests may fail on their way

ASSUME AppsKnown == Apps \subseteq {"voting", "admin", "auditing"}
ASSUME NetworkFailsType == NetworkFails \in BOOLEAN

VARIABLES
    app,       \* the frontend
    cookie,    \* whom the auth service takes the browser for
    stored,    \* the token in localStorage
    exchange,  \* by tab: the manager's inflight exchange
    tab,       \* by tab: what AuthProvider and RequireAuth show
    call       \* by tab: a request to the backend

sessionVars == <<app, cookie, stored, exchange, tab, call>>

NoOne == "no one"

(* An old token is expired or about to: the manager no longer uses it, the *)
(* backend may still take it.                                              *)
Token   == [user : Users, old : BOOLEAN]
NoToken == [user |-> NoOne, old |-> TRUE]
MayHold == Token \union {NoToken}

TOKEN_ATTEMPTS == 3

(* "elsewhere" is every page without a gate: the auth service's, and "/".  *)
Tab == [at : {"elsewhere", "loading", "token", "ready", "signing out", "leaving"},
        attempts : 0 .. TOKEN_ATTEMPTS - 1]
Exchange == [at : {"none", "sent", "answered"}, token : MayHold]
CallAt == {"idle", "token", "sent", "refresh"}

None  == [at |-> "none", token |-> NoToken]
Sent  == [at |-> "sent", token |-> NoToken]
Away  == [at |-> "elsewhere", attempts |-> 0]
Fresh == [Away EXCEPT !.at = "loading"]
Idle  == [at |-> "idle", token |-> NoToken, retried |-> FALSE]

SessionTypeOK(places) ==
    /\ app \in Apps
    /\ cookie \in Users \union {NoOne}
    /\ stored \in MayHold
    /\ exchange \in [Tabs -> Exchange]
    /\ tab \in [Tabs -> Tab]
    /\ call \in [Tabs -> [at : places, token : MayHold, retried : BOOLEAN]]

SessionInit ==
    /\ app \in Apps
    /\ cookie = NoOne
    /\ stored = NoToken
    /\ exchange = [t \in Tabs |-> None]
    /\ tab = [t \in Tabs |-> Away]
    /\ call = [t \in Tabs |-> Idle]

Set(f, t, x) == [f EXCEPT ![t] = x]

Failed == IF NetworkFails THEN {NoToken} ELSE {}

(* refresh: one exchange per page, which every caller waits for.           *)
Joined(t) == IF exchange[t].at = "none" THEN Set(exchange, t, Sent) ELSE exchange

(* getToken in the effect of AuthProvider.                                 *)
Attempt(t, page) ==
    IF stored.old
    THEN tab' = Set(tab, t, [page EXCEPT !.at = "token"]) /\ exchange' = Joined(t)
    ELSE tab' = Set(tab, t, [page EXCEPT !.at = "ready"]) /\ UNCHANGED exchange

-----------------------------------------------------------------------------
(* AuthProvider and RequireAuth                                            *)

(* getSession: an error counts as no session.                              *)
SessionAnswered(t) ==
    /\ tab[t].at = "loading"
    /\ \/ /\ cookie # NoOne
          /\ Attempt(t, tab[t])
       \/ /\ cookie = NoOne \/ NetworkFails
          /\ tab' = Set(tab, t, [tab[t] EXCEPT !.at = "leaving"])
          /\ UNCHANGED exchange
    /\ UNCHANGED <<app, cookie, stored, call>>

AttemptAgain(t) ==
    /\ tab[t].at = "token" /\ exchange[t].at = "none"
    /\ Attempt(t, tab[t])
    /\ UNCHANGED <<app, cookie, stored, call>>

Logout(t) ==
    /\ tab[t].at = "ready"
    /\ tab' = Set(tab, t, [tab[t] EXCEPT !.at = "signing out"])
    /\ UNCHANGED <<app, cookie, stored, exchange, call>>

(* signOut resolves even if the request failed.  The voting frontend then  *)
(* goes to its public page; logout clears the token and the user, and      *)
(* RequireAuth sends the browser to the login page.                        *)
SignedOut(t) ==
    /\ tab[t].at = "signing out"
    /\ cookie' \in IF NetworkFails THEN {NoOne, cookie} ELSE {NoOne}
    /\ IF app = "voting"
       THEN tab' = Set(tab, t, Away) /\ exchange' = Set(exchange, t, None)
            /\ call' = Set(call, t, Idle) /\ UNCHANGED stored
       ELSE tab' = Set(tab, t, [Away EXCEPT !.at = "leaving"]) /\ stored' = NoToken
            /\ UNCHANGED <<exchange, call>>
    /\ UNCHANGED app

(* The page answers to the network until the next one has loaded.          *)
Left(t) ==
    /\ tab[t].at = "leaving"
    /\ tab' = Set(tab, t, Away)
    /\ exchange' = Set(exchange, t, None)
    /\ call' = Set(call, t, Idle)
    /\ UNCHANGED <<app, cookie, stored>>

-----------------------------------------------------------------------------
(* The auth service's pages, and the token exchange                        *)

SignIn(t, u) ==
    /\ tab[t].at = "elsewhere"
    /\ cookie' = u
    /\ tab' = Set(tab, t, Fresh)
    /\ UNCHANGED <<app, stored, exchange, call>>

Open(t) ==
    /\ tab[t].at = "elsewhere"
    /\ tab' = Set(tab, t, Fresh)
    /\ UNCHANGED <<app, cookie, stored, exchange, call>>

SignOutThere(t) ==
    /\ tab[t].at = "elsewhere" /\ cookie # NoOne
    /\ cookie' = NoOne
    /\ UNCHANGED <<app, stored, exchange, tab, call>>

Mint(t) ==
    /\ exchange[t].at = "sent"
    /\ \E token \in Failed \union {IF cookie = NoOne THEN NoToken
                                   ELSE [user |-> cookie, old |-> FALSE]} :
           exchange' = Set(exchange, t, [at |-> "answered", token |-> token])
    /\ UNCHANGED <<app, cookie, stored, tab, call>>

TabToldForever(t, token) ==
    IF tab[t].at = "token" /\ token # NoToken
    THEN Set(tab, t, [tab[t] EXCEPT !.at = "ready"]) ELSE tab

TabToldOnceMore(t, token) ==
    IF tab[t].at # "token" THEN tab
    ELSE IF token # NoToken \/ tab[t].attempts = TOKEN_ATTEMPTS
    THEN Set(tab, t, [tab[t] EXCEPT !.at = "ready"])
    ELSE Set(tab, t, [tab[t] EXCEPT !.attempts = @ + 1])

(* What the effect of AuthProvider makes of the token.                     *)
TabTold(t, token) ==
    IF tab[t].at # "token" THEN tab
    ELSE IF token # NoToken \/ tab[t].attempts = TOKEN_ATTEMPTS - 1
    THEN Set(tab, t, [tab[t] EXCEPT !.at = "ready"])
    ELSE Set(tab, t, [tab[t] EXCEPT !.attempts = @ + 1])

(* What authFetch makes of it: the first send goes out without one, the    *)
(* second does not.                                                        *)
CallTold(t, token) ==
    IF call[t].at \notin {"token", "refresh"} THEN call
    ELSE IF call[t].at = "refresh" /\ token = NoToken THEN Set(call, t, Idle)
    ELSE Set(call, t, [at |-> "sent", token |-> token,
                       retried |-> call[t].at = "refresh"])

ExchangeArrives(t) ==
    /\ exchange[t].at = "answered"
    /\ stored' = exchange[t].token
    /\ exchange' = Set(exchange, t, None)
    /\ tab' = TabTold(t, exchange[t].token)
    /\ call' = CallTold(t, exchange[t].token)
    /\ UNCHANGED <<app, cookie>>

(* Time passes.                                                            *)
Age ==
    /\ stored' = IF stored = NoToken THEN NoToken ELSE [stored EXCEPT !.old = TRUE]
    /\ call' = [t \in Tabs |-> IF call[t].at = "idle" THEN call[t]
                               ELSE [call[t] EXCEPT !.token.old = TRUE]]
    /\ <<stored, call>>' # <<stored, call>>
    /\ UNCHANGED <<app, cookie, exchange, tab>>

-----------------------------------------------------------------------------
(* authFetch                                                               *)

BeginCall(t) ==
    /\ app # "auditing"
    /\ tab[t].at \in {"ready", "signing out"} /\ call[t] = Idle
    /\ IF stored.old
       THEN call' = Set(call, t, [Idle EXCEPT !.at = "token"]) /\ exchange' = Joined(t)
       ELSE call' = Set(call, t, [Idle EXCEPT !.at = "sent", !.token = stored])
            /\ UNCHANGED exchange
    /\ UNCHANGED <<app, cookie, stored, tab>>

Accepts(token) == token # NoToken
Rejects(token) == token.old

(* Answered, failed on the way, or refused (401) for good.                 *)
CallEnds(t) ==
    /\ app # "auditing" /\ call[t].at = "sent"
    /\ \/ Accepts(call[t].token) \/ NetworkFails
       \/ Rejects(call[t].token) /\ (call[t].retried \/ call[t].token = NoToken)
    /\ call' = Set(call, t, Idle)
    /\ UNCHANGED <<app, cookie, stored, exchange, tab>>

(* 401 with a token: renewed once.                                         *)
CallRefreshes(t) ==
    /\ app # "auditing" /\ call[t].at = "sent"
    /\ Rejects(call[t].token) /\ call[t].token # NoToken /\ ~call[t].retried
    /\ call' = Set(call, t, [call[t] EXCEPT !.at = "refresh"])
    /\ exchange' = Joined(t)
    /\ UNCHANGED <<app, cookie, stored, tab>>

=============================================================================
