-------------------------- MODULE VoteVerification --------------------------
(***************************************************************************)
(* A voter checks a receipt (apps/voting-fe, app/verify/page.tsx): the     *)
(* page reads the stored ballot from the backend, opens it with the key of *)
(* the receipt, and then reads the chain for the ballot's commitment.  In  *)
(* between the backend may anchor the ballot, or a stored field may be     *)
(* damaged.                                                                *)
(***************************************************************************)
EXTENDS VotingPage

CONSTANTS
    MaxAlterations  \* bound on the stored fields that are damaged

ASSUME AlterationsAreNat == MaxAlterations \in Nat

VARIABLES
    chain,       \* the election's blocks after genesis, as the chain node
                 \* serves them
    alterations, \* how many stored fields were damaged
    verify       \* by tab: what the verify page does and shows

vars == <<pageVars, chain, alterations, verify>>

Neighbour == "another voter's ballot"

(* What is sealed under the key of c, and the hash of it, are named by c.  *)
Block == [voter : {"the voter", "another"}, commitment : Casts \union {Neighbour}]

NotRead == [candidate |-> NoOne]

Idle == [at |-> "idle", receipt |-> NoOne, seenRow |-> NotRead, report |-> "none"]

TypeOK ==
    /\ PageTypeOK
    /\ chain \in Seq(Block)
    /\ alterations \in 0 .. MaxAlterations
    /\ verify \in [Tabs -> [at : {"idle", "row", "chain", "done"},
                           receipt : Casts \union {NoOne},
                           seenRow : Row \union {NotRead},
                           report : {"none", "pass", "warn", "fail", "error"}]]

Init ==
    /\ PageInit
    /\ chain = <<[voter |-> "another", commitment |-> Neighbour]>>
    /\ alterations = 0
    /\ verify = [t \in Tabs |-> Idle]

-----------------------------------------------------------------------------
(* The backend submits what it counted and does not wait: the block may    *)
(* come at any time, or never, when the post is lost or the backend dies.  *)
(* Nobody sends it twice.                                                  *)
Anchor(c) ==
    /\ c \in counted
    /\ \A i \in DOMAIN chain : chain[i].commitment # c
    /\ chain' = Append(chain, [voter |-> "the voter", commitment |-> c])
    /\ UNCHANGED <<pageVars, alterations, verify>>

(* One stored field, or the ciphertext with a commitment that fits it.     *)
(* Only a verification reads the row: damage done earlier shows no sooner. *)
Alter(c) ==
    /\ \E t \in Tabs : verify[t].at \in {"row", "chain"} /\ c = verify[t].receipt
    /\ alterations < MaxAlterations
    /\ alterations' = alterations + 1
    /\ \E damaged \in
              {[row[c] EXCEPT !.candidate = x] : x \in Candidates \ {row[c].candidate}}
              \union {[row[c] EXCEPT !.ciphertext = "other"],
                      [row[c] EXCEPT !.commitment = "other"],
                      [row[c] EXCEPT !.ciphertext = "other", !.commitment = "other"]} :
           row' = [row EXCEPT ![c] = damaged]
    /\ UNCHANGED <<status, integrated, eligible, counted, answer, request, page,
                   saved, chain, verify>>

-----------------------------------------------------------------------------
(* The verify page                                                         *)

Receipts == saved \union ({page[t].voteResult : t \in Tabs} \ {NoOne})

(* Going there drops the election page, and a receipt nobody saved.        *)
Leave(t) ==
    /\ page[t].awaits # "elsewhere"
    /\ Shows(t, [Fresh EXCEPT !.awaits = "elsewhere"])
    /\ UNCHANGED <<serverVars, request, saved, chain, alterations, verify>>

Return(t) ==
    /\ page[t].awaits = "elsewhere"
    /\ Shows(t, Fresh)
    /\ verify' = [verify EXCEPT ![t] = Idle]
    /\ UNCHANGED <<serverVars, request, saved, chain, alterations>>

Verifies(t, what) ==
    /\ page[t].awaits = "elsewhere"
    /\ verify' = [verify EXCEPT ![t] = what]
    /\ UNCHANGED <<pageVars, chain, alterations>>

handleVerify(t, c) ==
    /\ verify[t].at \in {"idle", "done"}
    /\ c \in saved
    /\ Verifies(t, [Idle EXCEPT !.at = "row", !.receipt = c])

ReadRow(t) ==
    /\ verify[t].at = "row" /\ ~Refuses("verify")
    /\ Verifies(t, [verify[t] EXCEPT !.seenRow = row[verify[t].receipt],
                                    !.at = "chain"])

ReadRowFails(t) ==
    /\ verify[t].at = "row" /\ MayFail("verify")
    /\ Verifies(t, [verify[t] EXCEPT !.report = "error", !.at = "done"])

commitmentGiven(seen) == seen.commitment # NoOne

commitmentConsistent(seen) == seen.commitment = seen.ciphertext

(* The key of the receipt opens only what was sealed with it.              *)
opens(receipt, seen) == seen.ciphertext = receipt

candidateMatch(receipt, seen) == request[receipt].sealed = seen.candidate

(* The blocks that carry the voter's number                                *)
own(blocks) == {i \in DOMAIN blocks : blocks[i].voter = "the voter"}

EveryBlockFits(blocks, commitment) ==
    IF \A i \in own(blocks) : blocks[i].commitment = commitment THEN "match"
    ELSE "mismatch"

(* The first one decides.                                                  *)
checkOnChain(blocks, commitment) ==
    LET first == CHOOSE i \in own(blocks) : \A j \in own(blocks) : i <= j IN
    IF own(blocks) = {} THEN "absent"
    ELSE IF blocks[first].commitment = commitment THEN "match" ELSE "mismatch"

checks(receipt, seen, onChain) ==
    LET Line(holds) == IF holds THEN "pass" ELSE "fail" IN
    {Line(commitmentConsistent(seen)), Line(opens(receipt, seen))}
    \union (IF opens(receipt, seen)
            THEN {Line(candidateMatch(receipt, seen)),
                  CASE onChain = "match" -> "pass" [] onChain = "mismatch" -> "fail"
                    [] OTHER -> "warn"}
            ELSE {"warn"})

overall(lines) ==
    IF "fail" \in lines THEN "fail" ELSE IF "warn" \in lines THEN "warn" ELSE "pass"

(* The chain node answers, or cannot be reached.                           *)
ReadChain(t) ==
    /\ verify[t].at = "chain"
    /\ \E onChain \in {checkOnChain(chain, verify[t].seenRow.commitment)}
                          \union (IF NetworkFails THEN {"unreachable"} ELSE {}) :
           Verifies(t, [verify[t] EXCEPT !.at = "done",
               !.report = overall(checks(verify[t].receipt, verify[t].seenRow, onChain))])

-----------------------------------------------------------------------------
onlyPage == UNCHANGED <<chain, alterations, verify>>

VerifyAnswered(t) == ReadRow(t) \/ ReadRowFails(t) \/ ReadChain(t)

Next ==
    \/ \E t \in Tabs :
          \/ (Answered(t) \/ VoterActs(t)) /\ onlyPage
          \/ Leave(t) \/ Return(t)
          \/ \E c \in Casts : handleVerify(t, c)
          \/ VerifyAnswered(t)
    \/ \E c \in Casts :
          \/ (Counts(c) \/ Answers(c)) /\ onlyPage
          \/ Anchor(c) \/ Alter(c)
    \/ Administer /\ onlyPage

Spec == Init /\ [][Next]_vars

(* Requests are answered or fail; nobody has to click.                     *)
FairSpec ==
    /\ Spec
    /\ \A t \in Tabs :
          WF_vars(Answered(t) /\ onlyPage) /\ WF_vars(VerifyAnswered(t))
    /\ \A c \in Casts : WF_vars(Answers(c) /\ onlyPage)

-----------------------------------------------------------------------------
(* A page that says the voter has voted is right, whatever another tab or  *)
(* the administrators did meanwhile.                                       *)
ShownVotedIsCounted ==
    \A t \in Tabs :
        /\ page[t].voteResult # NoOne => page[t].voteResult \in counted
        /\ page[t].ballot = "voted" => voted

(* There is at most one receipt, however many tabs or reloaded pages voted,*)
(* and it opens the ballot that is counted: for the candidate the dialog   *)
(* named when the voter confirmed, also if the selection changed while the *)
(* ballot was on its way.                                                  *)
ReceiptOpensCountedBallot ==
    /\ Cardinality(Receipts) <= 1
    /\ \A c \in Receipts :
          /\ c \in counted
          /\ request[c] = [named |-> request[c].named, sealed |-> request[c].named,
                           sent |-> request[c].named]

(* The verify page reports a failure exactly when the stored ballot it was *)
(* sent is not the one that was cast; late or missing blocks only warn.    *)
ReportTellsTruth ==
    \A t \in Tabs : verify[t].report \in {"pass", "warn", "fail"} =>
        LET c == verify[t].receipt IN
        (verify[t].report = "fail") <=>
            (verify[t].seenRow # [candidate |-> request[c].sent,
                                  ciphertext |-> c, commitment |-> c])

(* A ballot that passes every check is anchored, under the voter's number. *)
PassedIsAnchored ==
    \A t \in Tabs : verify[t].report = "pass" =>
        \E i \in DOMAIN chain :
            chain[i] = [voter |-> "the voter", commitment |-> verify[t].receipt]

(* No request is waited for for ever: a tab that waits is answered or left. *)
NothingHangs ==
    \A t \in Tabs :
        /\ []<>(page[t].awaits \in {"nothing", "elsewhere"})
              \/ []<><<page[t]' # page[t]>>_page
        /\ []<>(verify[t].at \in {"idle", "done"})

(* An election page that is opened shows the election.                     *)
ElectionPageOpens ==
    \A t \in Tabs :
        page[t].awaits = "page" ~> page[t].awaits = "elsewhere" \/ page[t].status # "unknown"

=============================================================================
