----------------------------- MODULE BallotBox -----------------------------
(***************************************************************************)
(* What an election promises its voters, without rows, requests or         *)
(* administrators: a voter's ballot is counted at most once, a counted     *)
(* ballot stays counted, "accepted" is answered only for a counted ballot  *)
(* and every other answer only for one that is not, and "already voted"    *)
(* only to a voter who has.  A fault may leave a request without answer.   *)
(***************************************************************************)
CONSTANTS Casts, VoterOf

VARIABLES
    counted,  \* the casts whose ballot is counted
    answer    \* what each cast was told

vars == <<counted, answer>>

HasVoted(v) == \E c \in counted : VoterOf[c] = v

Init ==
    /\ counted = {}
    /\ answer = [c \in Casts |-> "none"]

Count(c) ==
    /\ answer[c] = "none"
    /\ ~HasVoted(VoterOf[c])
    /\ counted' = counted \union {c}
    /\ UNCHANGED answer

Reply(c, told) ==
    /\ answer[c] = "none"
    /\ (told = "accepted") <=> (c \in counted)
    /\ told = "already voted" => HasVoted(VoterOf[c])
    /\ answer' = [answer EXCEPT ![c] = told]
    /\ UNCHANGED counted

Crash(lost) ==
    /\ \A c \in lost : answer[c] = "none"
    /\ answer' = [c \in Casts |-> IF c \in lost THEN "lost" ELSE answer[c]]
    /\ UNCHANGED counted

Next ==
    \/ \E c \in Casts : Count(c)
    \/ \E c \in Casts, told \in {"accepted", "already voted", "refused"} :
           Reply(c, told)
    \/ \E lost \in SUBSET Casts : Crash(lost)

Spec == Init /\ [][Next]_vars

=============================================================================
