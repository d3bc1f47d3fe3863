------------------------------- MODULE Routes -------------------------------
(***************************************************************************)
(* Which identity domains the backend's routes are open to: the `protect`  *)
(* lists of its controllers.  Each domain signs with its own keys, so a    *)
(* token opens a route only if the route lists the token's domain.         *)
(***************************************************************************)
EXTENDS TLC

Everyone == {"voters", "admins", "auditors"}
Admins == {"admins"}
AdminsAndVoters == {"voters", "admins"}

electionsRoutes ==
    [listElections |-> Everyone, getElection |-> Everyone,
     createElection |-> Admins, replaceElection |-> Admins,
     patchElection |-> Admins, deleteElection |-> Admins]

candidatesRoutes ==
    [listCandidates |-> AdminsAndVoters, getCandidate |-> AdminsAndVoters,
     createCandidate |-> Admins, replaceCandidate |-> Admins,
     patchCandidate |-> Admins, deleteCandidate |-> Admins]

votersRoutes ==
    [listVoters |-> Admins, grantVoter |-> Admins, getVoter |-> Admins,
     patchVoter |-> Admins, revokeVoter |-> Admins]

integrationsRoutes ==
    [getIntegration |-> Admins, upsertIntegration |-> Admins,
     removeIntegration |-> Admins, checkEligibility |-> {"voters"},
     enroll |-> {"voters"}]

votesRoutes ==
    [getBallot |-> AdminsAndVoters, castVote |-> {"voters"},
     verifyVote |-> {"voters"}]

(* An auditor must be approved besides.                                    *)
auditRoutes ==
    [auditElections |-> {"auditors"}, auditElection |-> {"auditors"},
     auditResults |-> {"auditors"}, auditBlockchain |-> {"auditors"}]

protect ==
    electionsRoutes @@ candidatesRoutes @@ votersRoutes @@ integrationsRoutes
        @@ votesRoutes @@ auditRoutes

(* verify: the token's signature is tried against the keys of each domain  *)
(* the route lists; the one that fits names the caller's domain.           *)
Opens(userType, route) == userType \in protect[route]

(* Every route the frontends call, by the page's request that needs them.  *)
voterCalls ==
    [page |-> {"getElection", "listCandidates", "getIntegration"},
     voters |-> {"listVoters"}, ballot |-> {"getBallot"},
     check |-> {"checkEligibility"}, enroll |-> {"enroll"},
     cast |-> {"castVote"}, verify |-> {"verifyVote"}]

(* A page waits for all its calls at once: one refusal fails them.         *)
AllOpen(userType, calls) == \A route \in calls : Opens(userType, route)

=============================================================================
