----------------------------- MODULE VoteLedger -----------------------------
(***************************************************************************)
(* What the master promises of the votes posted to it, without blocks,     *)
(* hashes, storage calls or an in-memory chain: votes are taken one at a   *)
(* time in the order they arrived, each is recorded in its election's      *)
(* ledger at most once, a ledger only grows at its end, and a vote is      *)
(* confirmed only when it is recorded and refused only when it is not.  A  *)
(* stop of the process leaves the votes still waiting without an answer.   *)
(***************************************************************************)
EXTENDS Naturals, Sequences

CONSTANTS Elections, Votes, ElectionOf

VARIABLES
    ledger,   \* for each election, the votes recorded, oldest first
    waiting,  \* votes received and not answered yet, oldest first
    verdict   \* the answer each vote got

vars == <<ledger, waiting, verdict>>

IsRecorded(v) ==
    \E k \in DOMAIN ledger[ElectionOf[v]] : ledger[ElectionOf[v]][k] = v

Init ==
    /\ ledger  = [e \in Elections |-> << >>]
    /\ waiting = << >>
    /\ verdict = [v \in Votes |-> "unsent"]

Receive(v) ==
    /\ verdict[v] = "unsent"
    /\ waiting' = Append(waiting, v)
    /\ verdict' = [verdict EXCEPT ![v] = "waiting"]
    /\ UNCHANGED ledger

Record ==
    /\ waiting # << >>
    /\ ~IsRecorded(Head(waiting))
    /\ ledger' = [ledger EXCEPT ![ElectionOf[Head(waiting)]] =
                                    Append(@, Head(waiting))]
    /\ UNCHANGED <<waiting, verdict>>

Answer(answer) ==
    /\ waiting # << >>
    /\ answer = IF IsRecorded(Head(waiting)) THEN "accepted" ELSE "refused"
    /\ verdict' = [verdict EXCEPT ![Head(waiting)] = answer]
    /\ waiting' = Tail(waiting)
    /\ UNCHANGED ledger

Stop ==
    /\ verdict' = [v \in Votes |-> IF verdict[v] = "waiting" THEN "dropped"
                                                             ELSE verdict[v]]
    /\ waiting' = << >>
    /\ UNCHANGED ledger

Next ==
    \/ \E v \in Votes : Receive(v)
    \/ Record
    \/ \E answer \in {"accepted", "refused"} : Answer(answer)
    \/ Stop

Spec == Init /\ [][Next]_vars

=============================================================================
