----------------------------- MODULE Elections -----------------------------
(***************************************************************************)
(* One election of apps/backend: its row, its candidates and the requests  *)
(* administrators make of them (elections/service.ts,                      *)
(* candidates/service.ts).                                                 *)
(*                                                                         *)
(* Every such request reads the row, checks what it read and then writes   *)
(* with no condition, so it is two steps, and between them other requests  *)
(* run.  The voting window is not edited; clock says where the time is in  *)
(* it (an election without one is always "within").                        *)
(***************************************************************************)
EXTENDS FiniteSets, ElectionStatus

CONSTANTS
    Candidates,
    AdminRequests,  \* the requests administrators make
    Wants,          \* what each of them asks for
    CreatedAs       \* the statuses the election may be created with

VARIABLES
    status,   \* the election's status
    deleted,  \* whether it is soft-deleted
    content,  \* its title and description: "first" or "edited"
    listed,   \* the candidates that are not deleted
    clock,    \* the time: "before", "within" or "after" the voting window
    adminAt,  \* where each request is: "new", "writing" or "closed"
    stale     \* an observation: a write was made that its check, made again
              \* at that moment, would have refused

vars == <<status, deleted, content, listed, clock, adminAt, stale>>

LOCKED_STATUSES   == {"active", "ended", "archived", "paused"}
EDITABLE_STATUSES == {"draft", "enrolling_voters", "scheduled"}

(* A patch or replace may change the status, the content or both.          *)
Edit == [op : {"patch"}, status : SUBSET Statuses, content : BOOLEAN]
Request == Edit \union [op : {"delete"}]
                \union [op : {"add", "remove"}, candidate : Candidates]

TypeOK ==
    /\ status \in Statuses
    /\ deleted \in BOOLEAN
    /\ content \in {"first", "edited"}
    /\ listed \subseteq Candidates
    /\ clock \in {"before", "within", "after"}
    /\ adminAt \in [AdminRequests -> {"new", "writing", "closed"}]
    /\ stale \in BOOLEAN

(* create takes any status, a draft by default.  The candidates no request *)
(* adds are the ones the election already has.                             *)
Init ==
    /\ status \in CreatedAs
    /\ deleted = FALSE
    /\ content = "first"
    /\ listed = {c \in Candidates : \A r \in AdminRequests :
                    ~(Wants[r].op = "add" /\ Wants[r].candidate = c)}
    /\ clock = "before"
    /\ adminAt = [r \in AdminRequests |-> "new"]
    /\ stale = FALSE

Tick ==
    /\ clock # "after"
    /\ clock' = IF clock = "before" THEN "within" ELSE "after"
    /\ UNCHANGED <<status, deleted, content, listed, adminAt, stale>>

isWithinVotingWindow(seen) == seen = "active" /\ clock = "within"

-----------------------------------------------------------------------------
(* The checks of each request against the rows it reads                    *)

EditAllowed(want) ==
    /\ want.status \subseteq TRANSITIONS[status]
    /\ want.content /\ content # "edited" => status \notin LOCKED_STATUSES

DeleteAllowed == status # "active"

CandidateEditAllowedAnyTime(want) == want.op = "remove" => want.candidate \in listed

CandidateEditAllowed(want) ==
    /\ status \in EDITABLE_STATUSES
    /\ want.op = "remove" => want.candidate \in listed

Allowed(want) ==
    /\ ~deleted
    /\ CASE want.op = "patch"  -> EditAllowed(want)
         [] want.op = "delete" -> DeleteAllowed
         [] OTHER              -> CandidateEditAllowed(want)

(* getRow and the checks: the request goes on to its write or is refused.  *)
Check(r) ==
    /\ adminAt[r] = "new"
    /\ adminAt' = [adminAt EXCEPT ![r] = IF Allowed(Wants[r]) THEN "writing"
                                                             ELSE "closed"]
    /\ UNCHANGED <<status, deleted, content, listed, clock, stale>>

(* repo.update and repo.create: whatever became of the rows since they     *)
(* were read.                                                              *)
Write(r) ==
    /\ adminAt[r] = "writing"
    /\ adminAt' = [adminAt EXCEPT ![r] = "closed"]
    /\ stale' = (stale \/ ~Allowed(Wants[r]))
    /\ LET want == Wants[r] IN
         CASE want.op = "patch" ->
                /\ status' \in IF want.status = {} THEN {status} ELSE want.status
                /\ content' = IF want.content THEN "edited" ELSE content
                /\ UNCHANGED <<deleted, listed>>
           [] want.op = "delete" ->
                deleted' = TRUE /\ UNCHANGED <<status, content, listed>>
           [] want.op = "add" ->
                /\ listed' = listed \union {want.candidate}
                /\ UNCHANGED <<status, deleted, content>>
           [] want.op = "remove" ->
                /\ listed' = listed \ {want.candidate}
                /\ UNCHANGED <<status, deleted, content>>
    /\ UNCHANGED clock

Next == Tick \/ \E r \in AdminRequests : Check(r) \/ Write(r)

=============================================================================
