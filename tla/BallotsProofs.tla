--------------------------- MODULE BallotsProofs ---------------------------
(***************************************************************************)
(* Theorems about Ballots, for any voters, candidates, requests and bounds.*)
(*                                                                         *)
(* Two towers of invariants stand on TableInv (types, and how far each     *)
(* request has come): CountInv (as many votes as used eligibilities) and   *)
(* BoxInv (one ballot of each voter, when no two grants of one voter       *)
(* overlap) on one side; TallyInv (what a cast has read of the election    *)
(* still matters, until an administrator's write is overtaken by another)  *)
(* on the other.                                                           *)
(***************************************************************************)
EXTENDS Ballots, FiniteSetTheorems, TLAPS

(* What a request under way relies on and the type invariant does not say: *)
(* a ballot is recorded once and a grant creates one row, since both have  *)
(* come to their end by then; the voter of a row to be written is known.   *)
ProgressOf(r) ==
    /\ r \in votes => at[r] \in {"recorded", "closed"}
    /\ r \in DOMAIN rows => at[r] = "closed"
    /\ at[r] = "recorded" => r \in votes
    /\ at[r] \in {"checks", "recording", "recorded"} => r \in Casts
    /\ at[r] \in {"voter", "createVoter", "reviving", "creating"} => r \in Grants
    /\ r \in Grants /\ at[r] \in {"eligibility", "reviving", "creating"}
          => VoterOf[r] \in known

Progress == \A r \in Requests : ProgressOf(r)

TableInv == TypeOK /\ Progress

Places == {"new", "eligibility", "checks", "recording", "recorded", "voter",
           "createVoter", "reviving", "creating", "revoking", "closed"}

-----------------------------------------------------------------------------
(* The requests of the administrators keep the types of the election.      *)

LEMMA ElectionTypeKept == E!TypeOK /\ [E!Next]_(E!vars) => E!TypeOK'
<1> SUFFICES ASSUME E!TypeOK, [E!Next]_(E!vars)
             PROVE  E!TypeOK'
  OBVIOUS
<1> USE DEF E!TypeOK
<1>1. CASE E!Tick
  BY <1>1 DEF E!Tick
<1>2. ASSUME NEW r \in AdminRequests, E!Check(r)
      PROVE  E!TypeOK'
  BY <1>2 DEF E!Check
<1>3. ASSUME NEW r \in AdminRequests, E!Write(r)
      PROVE  E!TypeOK'
  <2> DEFINE want == Wants[r]
  <2>1. want \in E!Request
    BY WantsType
  <2>2. CASE want.op = "patch"
    <3>1. want.status \subseteq E!Statuses
      BY <2>1, <2>2 DEF E!Request, E!Edit
    <3> QED
      BY <1>3, <2>2, <3>1 DEF E!Write
  <2>3. CASE want.op = "delete"
    BY <1>3, <2>3 DEF E!Write
  <2>4. CASE want.op = "add"
    <3>1. want.candidate \in Candidates
      BY <2>1, <2>4 DEF E!Request, E!Edit
    <3> QED
      BY <1>3, <2>4, <3>1 DEF E!Write
  <2>5. CASE want.op = "remove"
    BY <1>3, <2>5 DEF E!Write
  <2> QED
    BY <2>1, <2>2, <2>3, <2>4, <2>5 DEF E!Request, E!Edit
<1>4. CASE UNCHANGED E!vars
  BY <1>4 DEF E!vars
<1> QED
  BY <1>1, <1>2, <1>3, <1>4 DEF E!Next

LEMMA InitTables == Init => TableInv
<1> SUFFICES ASSUME Init
             PROVE  TableInv
  OBVIOUS
<1>1. DOMAIN rows = {} /\ rows \in [DOMAIN rows -> Row]
  BY DEF Init
<1>2. E!TypeOK
  BY CreatedAsType DEF Init, E!Init, E!TypeOK
<1>3. /\ \A r \in Requests : at[r] = "new"
      /\ at \in [Requests -> Places] /\ row \in [Requests -> Grants \union {NoRow}]
  BY DEF Init, Places
<1>4. TypeOK
  <2>1. /\ seen \in [Casts -> E!Statuses] /\ hadVoted \in [Casts -> BOOLEAN]
        /\ told \in [Casts -> {"none", "accepted", "already voted", "refused",
                               "lost"}]
        /\ known = {} /\ votes = {} /\ anchored = {} /\ crashes = 0
    BY DEF Init, E!Statuses
  <2>2. /\ DOMAIN rows \subseteq Grants
        /\ \A g \in DOMAIN rows : rows[g].voter = VoterOf[g] /\ VoterOf[g] \in known
    BY <1>1
  <2>3. \A r \in Requests : at[r] \in {"checks", "recording", "recorded",
                                      "reviving", "revoking"}
            => row[r] \in RowsOf(VoterOf[r])
    BY <1>3
  <2>4. known \subseteq Voters /\ votes \subseteq Casts /\ anchored \subseteq votes
        /\ crashes \in Nat
    BY <2>1
  <2> QED
    BY <1>1, <1>2, <1>3, <2>1, <2>2, <2>3, <2>4 DEF TypeOK, Places
<1>5. Progress
  BY <1>1, <1>3 DEF Init, Progress, ProgressOf
<1> QED
  BY <1>4, <1>5 DEF TableInv

-----------------------------------------------------------------------------
(* The type invariant in parts: of the requests, of the tables, and that a *)
(* request knows a row of its voter where it will use one.                 *)

RequestTypes ==
    /\ at \in [Requests -> Places]
    /\ seen \in [Casts -> E!Statuses]
    /\ row \in [Requests -> Grants \union {NoRow}]
    /\ hadVoted \in [Casts -> BOOLEAN]
    /\ told \in [Casts -> {"none", "accepted", "already voted", "refused", "lost"}]
    /\ crashes \in Nat

TableTypes ==
    /\ known \subseteq Voters
    /\ DOMAIN rows \subseteq Grants /\ rows \in [DOMAIN rows -> Row]
    /\ \A g \in DOMAIN rows : rows[g].voter = VoterOf[g] /\ VoterOf[g] \in known
    /\ votes \subseteq Casts
    /\ anchored \subseteq votes

RowsRead ==
    \A r \in Requests : at[r] \in {"checks", "recording", "recorded",
                                   "reviving", "revoking"}
        => row[r] \in RowsOf(VoterOf[r])

LEMMA TypeParts ==
    TypeOK <=> E!TypeOK /\ RequestTypes /\ TableTypes /\ RowsRead
  BY DEF TypeOK, RequestTypes, TableTypes, RowsRead, Places

LEMMA TypePartsNext ==
    E!TypeOK' /\ RequestTypes' /\ TableTypes' /\ RowsRead' => TypeOK'
  BY DEF TypeOK, RequestTypes, TableTypes, RowsRead, Places

(* The three kinds of requests are apart, and each has a voter.            *)
LEMMA Kinds ==
    /\ \A c \in Casts : c \in Requests /\ c \notin Grants \union Revokes
    /\ \A g \in Grants : g \in Requests /\ g \notin Casts \union Revokes
    /\ \A r \in Revokes : r \in Requests /\ r \notin Casts \union Grants
    /\ \A r \in Requests : VoterOf[r] \in Voters
  BY RequestsAreDistinct, VoterOfType DEF Requests

(* A row that is written keeps its type, its voter and its other flag, and *)
(* the other rows are as they were.                                        *)
LEMMA Marking ==
    ASSUME NEW S, NEW t \in [S -> Row], NEW h \in S
    PROVE  LET u == [t EXCEPT ![h].hasVoted = TRUE] IN
           /\ DOMAIN u = S /\ u \in [S -> Row]
           /\ u[h] = [t[h] EXCEPT !.hasVoted = TRUE]
           /\ \A g \in S \ {h} : u[g] = t[g]
  BY DEF Row

LEMMA Deleting ==
    ASSUME NEW S, NEW t \in [S -> Row], NEW h \in S, NEW flag \in BOOLEAN
    PROVE  LET u == [t EXCEPT ![h].deleted = flag] IN
           /\ DOMAIN u = S /\ u \in [S -> Row]
           /\ u[h] = [t[h] EXCEPT !.deleted = flag]
           /\ \A g \in S \ {h} : u[g] = t[g]
  BY DEF Row

-----------------------------------------------------------------------------
(* What a step does to the eligibilities: rows are added and changed, but  *)
(* none goes, changes its voter or becomes unused.                         *)
RowsKept ==
    \A g \in DOMAIN rows :
        /\ g \in DOMAIN rows'
        /\ rows'[g].voter = rows[g].voter
        /\ rows[g].hasVoted => rows'[g].hasVoted

LEMMA StepKeepsRows ==
    ASSUME TableInv, [Next]_vars
    PROVE  RowsKept
<1>1. RequestTypes /\ TableTypes /\ RowsRead /\ Progress
  BY TypeParts DEF TableInv
<1>2. CASE rows' = rows
  BY <1>2 DEF RowsKept
<1>3. ASSUME NEW c \in Casts, RecordVote(c)
      PROVE  RowsKept
  <2>1. row[c] \in DOMAIN rows
    BY <1>1, <1>3, Kinds DEF RecordVote, RowsRead, RowsOf
  <2>2. rows' = rows \/ rows' = [rows EXCEPT ![row[c]].hasVoted = TRUE]
    BY <1>3 DEF RecordVote
  <2> QED
    BY <1>1, <1>2, <2>1, <2>2, Marking DEF TableTypes, Row, RowsKept
<1>4. ASSUME NEW h \in DOMAIN rows, NEW flag \in BOOLEAN,
              rows' = [rows EXCEPT ![h].deleted = flag]
       PROVE  RowsKept
  BY <1>1, <1>4, Deleting DEF TableTypes, Row, RowsKept
<1>5. ASSUME NEW g \in Grants, Revive(g)
      PROVE  RowsKept
  <2>1. row[g] \in DOMAIN rows
    BY <1>1, <1>5, Kinds DEF Revive, RowsRead, RowsOf
  <2>2. rows' = rows \/ rows' = [rows EXCEPT ![row[g]].deleted = FALSE]
    BY <1>5 DEF Revive
  <2> QED
    BY <1>2, <1>4, <2>1, <2>2
<1>6. ASSUME NEW g \in Grants, CreateEligibility(g)
      PROVE  RowsKept
  <2>1. g \notin DOMAIN rows
    BY <1>1, <1>6, Kinds DEF CreateEligibility, Progress, ProgressOf
  <2> QED
    BY <1>2, <1>6, <2>1 DEF CreateEligibility, RowsKept
<1>7. ASSUME NEW r \in Revokes, Revoke(r)
      PROVE  RowsKept
  <2>1. row[r] \in DOMAIN rows
    BY <1>1, <1>7, Kinds DEF Revoke, RowsRead, RowsOf
  <2> QED
    BY <1>7, <1>4, <2>1 DEF Revoke
<1>8. CASE ElectionStep \/ Crash \/ UNCHANGED vars
  BY <1>2, <1>8 DEF ElectionStep, Crash, vars
<1>9. ASSUME NEW r \in Requests, Fails(r)
      PROVE  RowsKept
  BY <1>2, <1>9 DEF Fails
<1>10. ASSUME NEW c \in Casts, CastStep(c)
      PROVE  RowsKept
  BY <1>2, <1>3, <1>10
     DEF CastStep, BeginCast, ReadEligibility, CheckBallot, Confirm
<1>11. ASSUME NEW g \in Grants, GrantStep(g)
      PROVE  RowsKept
  BY <1>2, <1>5, <1>6, <1>11
     DEF GrantStep, BeginGrant, FindVoter, CreateVoter, FindEligibility
<1>12. ASSUME NEW r \in Revokes, RevokeStep(r)
       PROVE  RowsKept
  BY <1>2, <1>7, <1>12 DEF RevokeStep, BeginRevoke
<1> QED
  BY <1>8, <1>9, <1>10, <1>11, <1>12 DEF Next

-----------------------------------------------------------------------------
(* TypeOK is kept part by part.                                            *)

LEMMA ElectionPart ==
    ASSUME E!TypeOK, [Next]_vars
    PROVE  E!TypeOK'
<1>1. CASE UNCHANGED electionVars
  BY <1>1, ElectionTypeKept DEF electionVars, E!vars
<1>2. CASE ElectionStep
  BY <1>2, ElectionTypeKept DEF ElectionStep
<1>3. CASE Crash
  BY <1>3 DEF Crash, E!TypeOK
<1>4. CASE \/ \E r \in Requests : Fails(r)
           \/ \E c \in Casts : CastStep(c)
  BY <1>1, <1>4 DEF Fails, CastStep, BeginCast, ReadEligibility, CheckBallot,
                    RecordVote, Confirm
<1>5. CASE \/ \E g \in Grants : GrantStep(g)
           \/ \E r \in Revokes : RevokeStep(r)
  BY <1>1, <1>5 DEF GrantStep, BeginGrant, FindVoter, CreateVoter,
                    FindEligibility, Revive, CreateEligibility, RevokeStep,
                    BeginRevoke, Revoke
<1>6. CASE UNCHANGED vars
  BY <1>1, <1>6 DEF vars, electionVars
<1> QED
  BY <1>2, <1>3, <1>4, <1>5, <1>6 DEF Next

LEMMA CrashesStayNat ==
    ASSUME crashes \in Nat, crashes' = crashes + 1
    PROVE  crashes' \in Nat
  OBVIOUS

LEMMA RequestPart ==
    ASSUME TypeOK, [Next]_vars
    PROVE  RequestTypes'
<1>1. E!TypeOK /\ RequestTypes /\ TableTypes /\ RowsRead
  BY TypeParts
<1> USE DEF RequestTypes, Places, E!Statuses
<1>2. CASE UNCHANGED <<localVars, told, crashes>>
  BY <1>1, <1>2 DEF localVars
<1>3. CASE Crash
  <2>1. /\ at' \in [Requests -> Places]
        /\ told' \in [Casts -> {"none", "accepted", "already voted", "refused", "lost"}]
    BY <1>1, <1>3, Kinds DEF Crash
  <2>2. crashes' \in Nat
    BY <1>1, <1>3, CrashesStayNat DEF Crash
  <2> QED
    BY <1>1, <1>3, <2>1, <2>2 DEF Crash
<1>4. ASSUME NEW r \in Requests, Fails(r)
      PROVE  RequestTypes'
  <2>1. crashes' \in Nat
    BY <1>1, <1>4, CrashesStayNat DEF Fails
  <2>2. /\ at' \in [Requests -> Places]
        /\ told' \in [Casts -> {"none", "accepted", "already voted", "refused", "lost"}]
    BY <1>1, <1>4 DEF Fails, Goto
  <2> QED
    BY <1>1, <1>4, <2>1, <2>2 DEF Fails
<1>5. ASSUME NEW c \in Casts, CastStep(c)
      PROVE  RequestTypes'
  <2> USE DEF Answer, Goto
  <2>0. c \in Requests
    BY Kinds
  <2>1. CASE BeginCast(c)
    BY <1>1, <2>0, <2>1 DEF BeginCast, E!TypeOK
  <2>2. CASE ReadEligibility(c)
    <3>1. \A g \in LiveRow(VoterOf[c]) : g \in Grants /\ rows[g].hasVoted \in BOOLEAN
      BY <1>1 DEF LiveRow, RowsOf, TableTypes, Row
    <3>2. UNCHANGED <<seen, crashes>>
      BY <2>2 DEF ReadEligibility
    <3>3. /\ at' \in [Requests -> Places]
          /\ told' \in [Casts -> {"none", "accepted", "already voted",
                                 "refused", "lost"}]
      BY <1>1, <2>0, <2>2 DEF ReadEligibility
    <3>4. \/ row' = row /\ hadVoted' = hadVoted
          \/ \E g \in Grants, flag \in BOOLEAN :
                /\ row' = [row EXCEPT ![c] = g]
                /\ hadVoted' = [hadVoted EXCEPT ![c] = flag]
      BY <2>2, <3>1 DEF ReadEligibility
    <3>5. /\ row' \in [Requests -> Grants \union {NoRow}]
          /\ hadVoted' \in [Casts -> BOOLEAN]
      BY <1>1, <2>0, <3>4
    <3> QED
      BY <1>1, <3>2, <3>3, <3>5
  <2>3. CASE CheckBallot(c)
    BY <1>1, <2>0, <2>3 DEF CheckBallot
  <2>4. CASE RecordVote(c)
    BY <1>1, <2>0, <2>4 DEF RecordVote
  <2>5. CASE Confirm(c)
    BY <1>1, <2>0, <2>5 DEF Confirm
  <2> QED
    BY <1>5, <2>1, <2>2, <2>3, <2>4, <2>5 DEF CastStep
<1>6. ASSUME NEW g \in Grants, GrantStep(g)
      PROVE  RequestTypes'
  <2> USE DEF Goto
  <2>0. g \in Requests
    BY Kinds
  <2>1. CASE BeginGrant(g) \/ FindVoter(g) \/ CreateVoter(g)
    BY <1>1, <2>0, <2>1 DEF BeginGrant, FindVoter, CreateVoter
  <2>2. CASE FindEligibility(g)
    <3>1. \A found \in RowsOf(VoterOf[g]) : found \in Grants
      BY <1>1 DEF RowsOf, TableTypes
    <3> QED
      BY <1>1, <2>0, <2>2, <3>1 DEF FindEligibility
  <2>3. CASE Revive(g) \/ CreateEligibility(g)
    BY <1>1, <2>0, <2>3 DEF Revive, CreateEligibility
  <2> QED
    BY <1>6, <2>1, <2>2, <2>3 DEF GrantStep
<1>7. ASSUME NEW r \in Revokes, RevokeStep(r)
      PROVE  RequestTypes'
  <2> USE DEF Goto
  <2>0. r \in Requests
    BY Kinds
  <2>1. CASE BeginRevoke(r)
    <3>1. \A g \in LiveRow(VoterOf[r]) : g \in Grants
      BY <1>1 DEF LiveRow, RowsOf, TableTypes
    <3> QED
      BY <1>1, <2>0, <2>1, <3>1 DEF BeginRevoke
  <2>2. CASE Revoke(r)
    BY <1>1, <2>0, <2>2 DEF Revoke
  <2> QED
    BY <1>7, <2>1, <2>2 DEF RevokeStep
<1>8. CASE ElectionStep \/ UNCHANGED vars
  BY <1>2, <1>8 DEF ElectionStep, vars
<1> QED
  BY <1>3, <1>4, <1>5, <1>6, <1>7, <1>8 DEF Next

LEMMA TablePart ==
    ASSUME TableInv, [Next]_vars
    PROVE  TableTypes'
<1>1. RequestTypes /\ TableTypes /\ RowsRead /\ Progress
  BY TypeParts DEF TableInv
<1>2. CASE UNCHANGED <<known, rows, votes, anchored>>
  BY <1>1, <1>2 DEF TableTypes
<1>3. ASSUME NEW c \in Casts, RecordVote(c)
      PROVE  TableTypes'
  <2>1. row[c] \in DOMAIN rows /\ c \in Requests
    BY <1>1, <1>3, Kinds DEF RecordVote, RowsRead, RowsOf
  <2>2. /\ DOMAIN rows' = DOMAIN rows /\ rows' \in [DOMAIN rows -> Row]
        /\ \A g \in DOMAIN rows : rows'[g].voter = rows[g].voter
    <3>1. CASE rows' = rows
      BY <1>1, <3>1 DEF TableTypes
    <3>2. CASE rows' = [rows EXCEPT ![row[c]].hasVoted = TRUE]
      BY <1>1, <2>1, <3>2, Marking DEF TableTypes, Row
    <3> QED
      BY <1>3, <3>1, <3>2 DEF RecordVote
  <2>3. UNCHANGED <<known, anchored>> /\ votes' \in {votes, votes \union {c}}
    BY <1>3 DEF RecordVote
  <2> QED
    BY <1>1, <2>2, <2>3 DEF TableTypes
<1>4. ASSUME NEW c \in Casts, Confirm(c)
      PROVE  TableTypes'
  <2>1. c \in votes
    BY <1>1, <1>4, Kinds DEF Confirm, Progress, ProgressOf
  <2> QED
    BY <1>1, <1>4, <2>1 DEF Confirm, TableTypes
<1>5. ASSUME NEW g \in Grants, CreateVoter(g)
      PROVE  TableTypes'
  BY <1>1, <1>5, Kinds DEF CreateVoter, TableTypes
<1>6. ASSUME NEW h, h \in DOMAIN rows, NEW flag \in BOOLEAN,
             rows' = [rows EXCEPT ![h].deleted = flag],
             UNCHANGED <<known, votes, anchored>>
      PROVE  TableTypes'
  <2>1. /\ DOMAIN rows' = DOMAIN rows /\ rows' \in [DOMAIN rows -> Row]
        /\ \A g \in DOMAIN rows : rows'[g].voter = rows[g].voter
    BY <1>1, <1>6, Deleting DEF TableTypes, Row
  <2> QED
    BY <1>1, <1>6, <2>1 DEF TableTypes
<1>7. ASSUME NEW g \in Grants, Revive(g)
      PROVE  TableTypes'
  <2>1. row[g] \in DOMAIN rows
    BY <1>1, <1>7, Kinds DEF Revive, RowsRead, RowsOf
  <2>2. rows' = rows \/ rows' = [rows EXCEPT ![row[g]].deleted = FALSE]
    BY <1>7 DEF Revive
  <2>3. UNCHANGED <<known, votes, anchored>>
    BY <1>7 DEF Revive
  <2> QED
    BY <1>2, <1>6, <2>1, <2>2, <2>3
<1>8. ASSUME NEW g \in Grants, CreateEligibility(g)
      PROVE  TableTypes'
  <2>1. VoterOf[g] \in known /\ VoterOf[g] \in Voters
    BY <1>1, <1>8, Kinds DEF CreateEligibility, Progress, ProgressOf
  <2>2. CASE rows' = rows
    BY <1>2, <1>8, <2>2 DEF CreateEligibility
  <2>3. CASE rows' = [h \in DOMAIN rows \union {g} |->
                        IF h = g THEN [voter |-> VoterOf[g], deleted |-> FALSE,
                                       hasVoted |-> FALSE]
                                 ELSE rows[h]]
    <3>1. /\ DOMAIN rows' = DOMAIN rows \union {g}
          /\ rows' \in [DOMAIN rows' -> Row]
          /\ rows'[g].voter = VoterOf[g]
          /\ \A h \in DOMAIN rows \ {g} : rows'[h] = rows[h]
      BY <1>1, <2>1, <2>3 DEF TableTypes, Row
    <3> QED
      BY <1>1, <1>8, <2>1, <3>1 DEF CreateEligibility, TableTypes
  <2> QED
    BY <1>8, <2>2, <2>3 DEF CreateEligibility
<1>9. ASSUME NEW r \in Revokes, Revoke(r)
      PROVE  TableTypes'
  <2>1. row[r] \in DOMAIN rows
    BY <1>1, <1>9, Kinds DEF Revoke, RowsRead, RowsOf
  <2> QED
    BY <1>6, <1>9, <2>1 DEF Revoke
<1>10. CASE \/ ElectionStep \/ Crash \/ UNCHANGED vars
            \/ \E r \in Requests : Fails(r)
  BY <1>2, <1>10 DEF ElectionStep, Crash, Fails, vars
<1>11. ASSUME NEW c \in Casts, CastStep(c)
       PROVE  TableTypes'
  BY <1>2, <1>3, <1>4, <1>11 DEF CastStep, BeginCast, ReadEligibility, CheckBallot
<1>12. ASSUME NEW g \in Grants, GrantStep(g)
       PROVE  TableTypes'
  BY <1>2, <1>5, <1>7, <1>8, <1>12
     DEF GrantStep, BeginGrant, FindVoter, FindEligibility
<1>13. ASSUME NEW r \in Revokes, RevokeStep(r)
       PROVE  TableTypes'
  BY <1>2, <1>9, <1>13 DEF RevokeStep, BeginRevoke
<1> QED
  BY <1>10, <1>11, <1>12, <1>13 DEF Next

-----------------------------------------------------------------------------
(* The step of a request moves that request alone.                         *)

Moves(r) ==
    /\ at[r] # "closed"
    /\ \A q \in Requests \ {r} : at'[q] = at[q] /\ row'[q] = row[q]

LEMMA StepMovesOne ==
    ASSUME TypeOK
    PROVE  /\ \A r \in Requests : Fails(r) => Moves(r)
           /\ \A c \in Casts : CastStep(c) => Moves(c)
           /\ \A g \in Grants : GrantStep(g) => Moves(g)
           /\ \A r \in Revokes : RevokeStep(r) => Moves(r)
<1> USE TypeParts, Kinds DEF Moves, Goto, Answer, RequestTypes
<1>1. ASSUME NEW r \in Requests, Fails(r)
      PROVE  Moves(r)
  BY <1>1 DEF Fails
<1>2. ASSUME NEW c \in Casts, CastStep(c)
      PROVE  Moves(c)
  BY <1>2 DEF CastStep, BeginCast, ReadEligibility, CheckBallot, RecordVote, Confirm
<1>3. ASSUME NEW g \in Grants, GrantStep(g)
      PROVE  Moves(g)
  BY <1>3 DEF GrantStep, BeginGrant, FindVoter, CreateVoter, FindEligibility,
              Revive, CreateEligibility
<1>4. ASSUME NEW r \in Revokes, RevokeStep(r)
      PROVE  Moves(r)
  BY <1>4 DEF RevokeStep, BeginRevoke, Revoke
<1> QED
  BY <1>1, <1>2, <1>3, <1>4

(* What a request takes with it when it moves on to a row.                 *)
Using == {"checks", "recording", "recorded", "reviving", "revoking"}

LEMMA RowsReadPart ==
    ASSUME TableInv, [Next]_vars
    PROVE  RowsRead'
<1>1. RequestTypes /\ TableTypes /\ RowsRead /\ Progress /\ TypeOK
  BY TypeParts DEF TableInv
<1>2. \A v \in Voters : RowsOf(v) \subseteq RowsOf(v)'
  BY StepKeepsRows DEF RowsKept, RowsOf
<1>3. SUFFICES ASSUME NEW r \in Requests, at'[r] \in Using
               PROVE  \/ row'[r] \in RowsOf(VoterOf[r])
                      \/ at[r] \in Using /\ row'[r] = row[r]
  BY <1>1, <1>2, Kinds DEF RowsRead, Using
<1> USE DEF Using
<1>4. CASE UNCHANGED <<at, row>>
  BY <1>3, <1>4
<1>5. CASE Crash
  BY <1>3, <1>5 DEF Crash
<1>6. ASSUME NEW q \in Requests \ {r}, Moves(q)
      PROVE  at[r] \in Using /\ row'[r] = row[r]
  BY <1>3, <1>6 DEF Moves
<1>7. ~Fails(r)
  BY <1>1, <1>3 DEF Fails, Goto, RequestTypes
<1>8. ASSUME CastStep(r)
      PROVE  \/ row'[r] \in RowsOf(VoterOf[r])
             \/ at[r] \in Using /\ row'[r] = row[r]
  BY <1>1, <1>3, <1>8 DEF CastStep, BeginCast, ReadEligibility, CheckBallot,
      RecordVote, Confirm, Goto, Answer, RequestTypes, LiveRow
<1>9. ASSUME r \in Grants, GrantStep(r)
      PROVE  row'[r] \in RowsOf(VoterOf[r])
  BY <1>1, <1>3, <1>9 DEF GrantStep, BeginGrant, FindVoter, CreateVoter,
      FindEligibility, Revive, CreateEligibility, Goto, RequestTypes
<1>10. ASSUME r \in Revokes, RevokeStep(r)
       PROVE  row'[r] \in RowsOf(VoterOf[r])
  BY <1>1, <1>3, <1>10 DEF RevokeStep, BeginRevoke, Revoke, Goto, RequestTypes,
      LiveRow
<1>11. CASE \E q \in Requests : Fails(q)
  BY <1>1, <1>6, <1>7, <1>11, StepMovesOne
<1>12. CASE \E c \in Casts : CastStep(c)
  BY <1>1, <1>6, <1>8, <1>12, StepMovesOne, Kinds
<1>13. CASE \E g \in Grants : GrantStep(g)
  BY <1>1, <1>6, <1>9, <1>13, StepMovesOne, Kinds
<1>14. CASE \E q \in Revokes : RevokeStep(q)
  BY <1>1, <1>6, <1>10, <1>14, StepMovesOne, Kinds
<1> QED
  BY <1>4, <1>5, <1>11, <1>12, <1>13, <1>14 DEF Next, ElectionStep, vars, localVars

(* What the step of request r leaves of the others' progress.              *)
LEMMA OthersProgress ==
    ASSUME TableInv, [Next]_vars, NEW r \in Requests, Moves(r),
           known \subseteq known',
           votes \subseteq votes', votes' \subseteq votes \union {r},
           DOMAIN rows' \subseteq DOMAIN rows \union {r},
           ProgressOf(r)'
    PROVE  Progress'
<1>1. ASSUME NEW q \in Requests \ {r}
      PROVE  ProgressOf(q)'
  BY DEF TableInv, Progress, ProgressOf, Moves
<1> QED
  BY <1>1 DEF Progress

LEMMA ProgressPart ==
    ASSUME TableInv, [Next]_vars
    PROVE  Progress'
<1>1. RequestTypes /\ TableTypes /\ RowsRead /\ Progress /\ TypeOK
  BY TypeParts DEF TableInv
<1>2. CASE UNCHANGED <<at, known, rows, votes>>
  BY <1>1, <1>2 DEF Progress, ProgressOf
<1>3. CASE Crash
  BY <1>1, <1>3 DEF Crash, Progress, ProgressOf
<1> USE DEF Goto, Answer, RequestTypes
<1>4. ASSUME NEW r \in Requests, Fails(r)
      PROVE  Progress'
  <2>1. Moves(r) /\ ProgressOf(r) /\ UNCHANGED <<known, votes, rows>>
    BY <1>1, <1>4, StepMovesOne DEF Fails, Progress
  <2>2. ProgressOf(r)'
    BY <1>1, <1>4, <2>1 DEF Fails, ProgressOf
  <2> QED
    BY <2>1, <2>2, OthersProgress
<1>5. ASSUME NEW c \in Casts, CastStep(c)
      PROVE  Progress'
  <2>1. /\ c \in Requests /\ c \notin Grants
        /\ Moves(c) /\ ProgressOf(c)
    BY <1>1, <1>5, Kinds, StepMovesOne DEF Progress
  <2>2. CASE UNCHANGED <<known, rows, votes>>
    <3>1. ProgressOf(c)'
      BY <1>1, <1>5, <2>1, <2>2 DEF CastStep, BeginCast, ReadEligibility,
         CheckBallot, RecordVote, Confirm, ProgressOf
    <3> QED
      BY <2>1, <2>2, <3>1, OthersProgress
  <2>3. CASE RecordVote(c)
    <3>1. /\ DOMAIN rows' = DOMAIN rows /\ known' = known
          /\ votes' \in {votes, votes \union {c}}
      BY <1>1, <2>3 DEF RecordVote
    <3>2. c \notin DOMAIN rows
      BY <1>1, <2>1 DEF TableTypes
    <3>3. ProgressOf(c)'
      BY <1>1, <2>1, <2>3, <3>1, <3>2 DEF RecordVote, ProgressOf
    <3> QED
      BY <2>1, <3>1, <3>3, OthersProgress
  <2> QED
    BY <1>5, <2>2, <2>3
       DEF CastStep, BeginCast, ReadEligibility, CheckBallot, Confirm
<1>6. ASSUME NEW g \in Grants, GrantStep(g)
      PROVE  Progress'
  <2>1. /\ g \in Requests /\ g \notin Casts /\ g \notin votes
        /\ Moves(g) /\ ProgressOf(g)
    BY <1>1, <1>6, Kinds, StepMovesOne DEF Progress, TableTypes
  <2>2. /\ known \subseteq known' /\ votes' = votes
        /\ DOMAIN rows' \subseteq DOMAIN rows \union {g}
    BY <1>6 DEF GrantStep, BeginGrant, FindVoter, CreateVoter, FindEligibility,
       Revive, CreateEligibility
  <2>3. CASE BeginGrant(g) \/ FindVoter(g) \/ CreateVoter(g) \/ FindEligibility(g)
    <3>1. ProgressOf(g)'
      BY <1>1, <2>1, <2>3 DEF BeginGrant, FindVoter, CreateVoter, FindEligibility,
         ProgressOf
    <3> QED
      BY <2>1, <2>2, <3>1, OthersProgress
  <2>4. CASE Revive(g) \/ CreateEligibility(g)
    <3>1. ProgressOf(g)'
      BY <1>1, <2>1, <2>2, <2>4 DEF Revive, CreateEligibility, ProgressOf
    <3> QED
      BY <2>1, <2>2, <3>1, OthersProgress
  <2> QED
    BY <1>6, <2>3, <2>4 DEF GrantStep
<1>7. ASSUME NEW r \in Revokes, RevokeStep(r)
      PROVE  Progress'
  <2>1. /\ r \in Requests /\ r \notin Casts /\ r \notin Grants
        /\ Moves(r) /\ ProgressOf(r)
    BY <1>1, <1>7, Kinds, StepMovesOne DEF Progress
  <2>2. /\ known' = known /\ votes' = votes /\ DOMAIN rows' = DOMAIN rows
    BY <1>1, <1>7 DEF RevokeStep, BeginRevoke, Revoke
  <2>3. ProgressOf(r)'
    BY <1>1, <1>7, <2>1, <2>2 DEF RevokeStep, BeginRevoke, Revoke, ProgressOf
  <2> QED
    BY <2>1, <2>2, <2>3, OthersProgress
<1>8. CASE ElectionStep \/ UNCHANGED vars
  BY <1>2, <1>8 DEF ElectionStep, vars, localVars
<1> QED
  BY <1>3, <1>4, <1>5, <1>6, <1>7, <1>8 DEF Next

LEMMA StepKeepsTables == TableInv /\ [Next]_vars => TableInv'
  BY ElectionPart, RequestPart, TablePart, RowsReadPart, ProgressPart,
     TypePartsNext DEF TableInv, TypeOK

LEMMA TablesStay == Spec => []TableInv
  BY InitTables, StepKeepsTables, PTL DEF Spec

(* Whatever is cast, granted, revoked, edited and lost at the same time,   *)
(* the tables and the requests under way have their types, and a request   *)
(* that is about to write a row writes one of its own voter.               *)
THEOREM TypeCorrect == Spec => []TypeOK
<1>1. TableInv => TypeOK
  BY DEF TableInv
<1> QED
  BY <1>1, TablesStay, PTL

(* A ballot that is in stays in, and an eligibility that was used stays    *)
(* used, also when it is revoked and granted again while the ballot is     *)
(* being recorded (VotedForGood).                                          *)
THEOREM BallotsStayIn == Spec => VotedForGood
<1>1. TableInv /\ [Next]_vars =>
         /\ votes \subseteq votes'
         /\ \A g \in DOMAIN rows :
               g \in DOMAIN rows' /\ (rows[g].hasVoted => rows'[g].hasVoted)
  <2> SUFFICES ASSUME TableInv, [Next]_vars
               PROVE  /\ votes \subseteq votes'
                      /\ RowsKept
    BY DEF RowsKept
  <2>1. RowsKept
    BY StepKeepsRows
  <2>2. votes \subseteq votes'
    BY DEF Next, vars, ElectionStep, Crash, Fails, CastStep, GrantStep, RevokeStep,
       BeginCast, ReadEligibility, CheckBallot, RecordVote, Confirm, BeginGrant,
       FindVoter, CreateVoter, FindEligibility, Revive, CreateEligibility,
       BeginRevoke, Revoke
  <2> QED
    BY <2>1, <2>2
<1> QED
  BY <1>1, TablesStay, PTL DEF Spec, VotedForGood

-----------------------------------------------------------------------------
(* As many votes as used eligibilities.                                    *)

Used == {g \in DOMAIN rows : rows[g].hasVoted}

CountInv ==
    /\ TableInv
    /\ IsFiniteSet(votes) /\ IsFiniteSet(Used)
    /\ VotesMatchFlags

(* A step changes neither of the two sets, or records one vote and uses    *)
(* one eligibility that was not used.                                      *)
LEMMA StepUsesOne ==
    ASSUME TableInv, [Next]_vars
    PROVE  \/ votes' = votes /\ Used' = Used
           \/ \E c \in Casts :
                 /\ RecordVote(c)
                 /\ c \notin votes /\ votes' = votes \union {c}
                 /\ row[c] \notin Used /\ Used' = Used \union {row[c]}
<1>1. RequestTypes /\ TableTypes /\ RowsRead /\ Progress
  BY TypeParts DEF TableInv
<1>2. CASE UNCHANGED <<rows, votes>>
  BY <1>2 DEF Used
<1>3. ASSUME NEW c \in Casts, RecordVote(c), votes' # votes
      PROVE  /\ c \notin votes /\ votes' = votes \union {c}
             /\ row[c] \notin Used /\ Used' = Used \union {row[c]}
  <2>1. /\ ~rows[row[c]].hasVoted
        /\ rows' = [rows EXCEPT ![row[c]].hasVoted = TRUE]
        /\ votes' = votes \union {c} /\ at[c] = "recording"
    BY <1>3 DEF RecordVote
  <2>2. row[c] \in DOMAIN rows /\ c \notin votes
    BY <1>1, <2>1, Kinds DEF RowsRead, RowsOf, Progress, ProgressOf
  <2>3. /\ DOMAIN rows' = DOMAIN rows /\ rows'[row[c]].hasVoted
        /\ \A g \in DOMAIN rows \ {row[c]} : rows'[g] = rows[g]
    BY <1>1, <2>1, <2>2, Marking DEF TableTypes, Row
  <2> QED
    BY <2>1, <2>2, <2>3 DEF Used
<1>4. ASSUME NEW c \in Casts, RecordVote(c), votes' = votes
      PROVE  UNCHANGED <<rows, votes>>
  BY <1>1, <1>4, Kinds DEF RecordVote, Progress, ProgressOf
<1>5. ASSUME NEW h \in DOMAIN rows, NEW flag \in BOOLEAN,
             rows' = [rows EXCEPT ![h].deleted = flag], votes' = votes
      PROVE  votes' = votes /\ Used' = Used
  <2>1. /\ DOMAIN rows' = DOMAIN rows
        /\ \A g \in DOMAIN rows : rows'[g].hasVoted = rows[g].hasVoted
    BY <1>1, <1>5, Deleting DEF TableTypes, Row
  <2> QED
    BY <1>5, <2>1 DEF Used
<1>6. ASSUME NEW g \in Grants, Revive(g)
      PROVE  votes' = votes /\ Used' = Used
  <2>1. row[g] \in DOMAIN rows
    BY <1>1, <1>6, Kinds DEF Revive, RowsRead, RowsOf
  <2>2. rows' = rows \/ rows' = [rows EXCEPT ![row[g]].deleted = FALSE]
    BY <1>6 DEF Revive
  <2>3. votes' = votes
    BY <1>6 DEF Revive
  <2> QED
    BY <1>2, <1>5, <2>1, <2>2, <2>3
<1>7. ASSUME NEW g \in Grants, CreateEligibility(g)
      PROVE  votes' = votes /\ Used' = Used
  <2>1. g \notin DOMAIN rows
    BY <1>1, <1>7, Kinds DEF CreateEligibility, Progress, ProgressOf
  <2> QED
    BY <1>2, <1>7, <2>1 DEF CreateEligibility, Used
<1>8. ASSUME NEW r \in Revokes, Revoke(r)
      PROVE  votes' = votes /\ Used' = Used
  <2>1. row[r] \in DOMAIN rows
    BY <1>1, <1>8, Kinds DEF Revoke, RowsRead, RowsOf
  <2> QED
    BY <1>5, <1>8, <2>1 DEF Revoke
<1>9. CASE \/ ElectionStep \/ Crash \/ UNCHANGED vars
           \/ \E r \in Requests : Fails(r)
  BY <1>2, <1>9 DEF ElectionStep, Crash, Fails, vars
<1>10. ASSUME NEW c \in Casts, CastStep(c), ~RecordVote(c)
       PROVE  UNCHANGED <<rows, votes>>
  BY <1>10 DEF CastStep, BeginCast, ReadEligibility, CheckBallot, Confirm
<1>11. CASE \E c \in Casts : CastStep(c)
  BY <1>2, <1>3, <1>4, <1>10, <1>11
<1>12. ASSUME NEW g \in Grants, GrantStep(g)
       PROVE  votes' = votes /\ Used' = Used
  BY <1>2, <1>6, <1>7, <1>12
     DEF GrantStep, BeginGrant, FindVoter, CreateVoter, FindEligibility
<1>13. ASSUME NEW r \in Revokes, RevokeStep(r)
       PROVE  votes' = votes /\ Used' = Used
  BY <1>2, <1>8, <1>13 DEF RevokeStep, BeginRevoke
<1> QED
  BY <1>9, <1>11, <1>12, <1>13, <1>2 DEF Next

LEMMA StepKeepsCount == CountInv /\ [Next]_vars => CountInv'
<1> SUFFICES ASSUME CountInv, [Next]_vars
             PROVE  CountInv'
  OBVIOUS
<1>1. TableInv /\ TableInv'
  BY StepKeepsTables DEF CountInv
<1>2. CASE votes' = votes /\ Used' = Used
  BY <1>1, <1>2 DEF CountInv, VotesMatchFlags, Used
<1>3. ASSUME NEW c, NEW g, c \notin votes, votes' = votes \union {c},
             g \notin Used, Used' = Used \union {g}
      PROVE  CountInv'
  <2>1. /\ IsFiniteSet(votes') /\ Cardinality(votes') = Cardinality(votes) + 1
        /\ IsFiniteSet(Used') /\ Cardinality(Used') = Cardinality(Used) + 1
    BY <1>3, FS_AddElement DEF CountInv
  <2>2. Cardinality(votes) = Cardinality(Used)
    BY DEF CountInv, VotesMatchFlags, Used
  <2> QED
    BY <1>1, <2>1, <2>2 DEF CountInv, VotesMatchFlags, Used
<1> QED
  BY <1>1, <1>2, <1>3, StepUsesOne

(* As many votes as eligibilities marked as used, for any number of casts, *)
(* grants, revocations and faults in any order: recordVote's transaction   *)
(* is the only place where either changes (VotesMatchFlags).               *)
THEOREM CountsAgree == Spec => []VotesMatchFlags
<1>1. Init => CountInv
  <2> SUFFICES ASSUME Init
               PROVE  CountInv
    OBVIOUS
  <2>1. votes = {} /\ Used = {}
    BY DEF Init, Used
  <2> QED
    BY <2>1, InitTables, FS_EmptySet DEF CountInv, VotesMatchFlags, Used
<1>2. CountInv => VotesMatchFlags
  BY DEF CountInv
<1> QED
  BY <1>1, <1>2, StepKeepsCount, PTL DEF Spec

-----------------------------------------------------------------------------
(* One ballot per voter.  TableInv does not say it: has_voted is a flag of *)
(* an eligibility, so a voter with two of them may use both.  BoxInv adds  *)
(* that a voter has one, which holds as long as no two grants of the voter *)
(* overlap: a grant that found none still finds none when it creates one.  *)

UnderWay(r) == at[r] \notin {"new", "closed"}

OneGrantEach ==
    \A g, h \in Grants :
        UnderWay(g) /\ UnderWay(h) /\ VoterOf[g] = VoterOf[h] => g = h

OneRowEach ==
    /\ \A g, h \in DOMAIN rows : rows[g].voter = rows[h].voter => g = h
    /\ \A g \in Grants : at[g] = "creating" => RowsOf(VoterOf[g]) = {}

(* The flag of a voter's eligibility says whether the voter has voted.     *)
FlagsTellVotes ==
    /\ \A c \in votes : \E g \in RowsOf(VoterOf[c]) : rows[g].hasVoted
    /\ \A g \in DOMAIN rows :
          rows[g].hasVoted => \E c \in votes : VoterOf[c] = rows[g].voter

CastsKnow ==
    \A c \in Casts :
        /\ at[c] # "closed" => told[c] = "none"
        /\ at[c] = "checks" /\ hadVoted[c] => rows[row[c]].hasVoted

BoxInv ==
    /\ TableInv
    /\ OneGrantEach /\ OneRowEach /\ FlagsTellVotes /\ CastsKnow
    /\ OneBallotPerVoter

LEMMA BoxInit == Init => BoxInv
<1> SUFFICES ASSUME Init
             PROVE  BoxInv
  OBVIOUS
<1>1. /\ DOMAIN rows = {} /\ votes = {}
      /\ \A r \in Requests : at[r] = "new"
      /\ \A c \in Casts : told[c] = "none"
  BY DEF Init
<1> QED
  BY <1>1, InitTables, Kinds DEF BoxInv, OneGrantEach, UnderWay, OneRowEach,
     FlagsTellVotes, CastsKnow, OneBallotPerVoter

(* A grant begins only when no other of its voter is under way.            *)
LEMMA GrantsApart ==
    ASSUME ~GrantsOverlap, TableInv, OneGrantEach, [Next]_vars
    PROVE  OneGrantEach'
<1>1. TypeOK /\ RequestTypes
  BY TypeParts DEF TableInv
<1>2. ASSUME NEW r \in Requests, UnderWay(r)', ~UnderWay(r)
      PROVE  /\ r \in Grants => BeginGrant(r)
             /\ \A q \in Requests \ {r} : at'[q] = at[q]
  <2> USE DEF UnderWay, RequestTypes, Goto, Answer
  <2>1. ~Fails(r) /\ ~Crash /\ ~(UNCHANGED at)
    BY <1>1, <1>2 DEF Fails, Crash
  <2>2. ASSUME NEW q \in Requests, Moves(q), q # r
        PROVE  FALSE
    BY <1>1, <1>2, <2>2 DEF Moves
  <2>3. Moves(r)
    BY <1>1, <2>1, <2>2, StepMovesOne, Kinds
       DEF Next, ElectionStep, localVars, vars
  <2>4. r \in Grants => GrantStep(r)
    BY <1>1, <2>1, <2>2, StepMovesOne, Kinds
       DEF Next, ElectionStep, localVars, vars
  <2>5. GrantStep(r) => BeginGrant(r)
    BY <1>2 DEF GrantStep, FindVoter, CreateVoter, FindEligibility, Revive,
       CreateEligibility
  <2> QED
    BY <2>3, <2>4, <2>5 DEF Moves
<1> SUFFICES ASSUME NEW g \in Grants, NEW h \in Grants, g # h,
                    UnderWay(g)', UnderWay(h)', VoterOf[g] = VoterOf[h]
             PROVE  FALSE
  BY DEF OneGrantEach
<1>3. g \in Requests /\ h \in Requests
  BY Kinds
<1>4. ASSUME NEW k \in Grants, NEW l \in Grants, k # l, VoterOf[k] = VoterOf[l],
             UnderWay(k)', UnderWay(l)', ~UnderWay(k)
      PROVE  FALSE
  <2>1. BeginGrant(k) /\ at'[l] = at[l]
    BY <1>2, <1>4, Kinds
  <2>2. ~UnderWay(l)
    BY <1>4, <2>1 DEF BeginGrant, UnderWay
  <2> QED
    BY <1>4, <2>1, <2>2 DEF UnderWay
<1> QED
  BY <1>4 DEF OneGrantEach

(* Only creating an eligibility adds a row.                                *)
LEMMA RowsAdded ==
    ASSUME TableInv, [Next]_vars
    PROVE  \/ DOMAIN rows' = DOMAIN rows
           \/ \E g \in Grants : /\ CreateEligibility(g)
                                /\ DOMAIN rows' = DOMAIN rows \union {g}
<1>1. rows \in [DOMAIN rows -> Row]
  BY DEF TableInv, TypeOK
<1>2. CASE \/ ElectionStep \/ Crash \/ UNCHANGED vars
           \/ \E r \in Requests : Fails(r)
  BY <1>2 DEF ElectionStep, Crash, Fails, vars
<1>3. ASSUME NEW c \in Casts, CastStep(c)
      PROVE  DOMAIN rows' = DOMAIN rows
  BY <1>1, <1>3 DEF CastStep, BeginCast, ReadEligibility, CheckBallot, RecordVote,
     Confirm
<1>4. ASSUME NEW g \in Grants, GrantStep(g)
      PROVE  \/ DOMAIN rows' = DOMAIN rows
             \/ /\ CreateEligibility(g)
                /\ DOMAIN rows' = DOMAIN rows \union {g}
  <2>1. CASE CreateEligibility(g)
    BY <2>1 DEF CreateEligibility
  <2>2. CASE Revive(g)
    BY <1>1, <2>2 DEF Revive
  <2> QED
    BY <1>4, <2>1, <2>2
       DEF GrantStep, BeginGrant, FindVoter, CreateVoter, FindEligibility
<1>5. ASSUME NEW r \in Revokes, RevokeStep(r)
      PROVE  DOMAIN rows' = DOMAIN rows
  BY <1>1, <1>5 DEF RevokeStep, BeginRevoke, Revoke
<1> QED
  BY <1>2, <1>3, <1>4, <1>5 DEF Next

(* Only a grant that found no eligibility comes to create one.             *)
LEMMA CreatingFoundNone ==
    ASSUME TableInv, [Next]_vars, NEW g \in Grants,
           at'[g] = "creating", at[g] # "creating"
    PROVE  RowsOf(VoterOf[g]) = {} /\ rows' = rows
<1>1. TypeOK /\ RequestTypes /\ g \in Requests
  BY TypeParts, Kinds DEF TableInv
<1> USE DEF RequestTypes, Goto
<1>2. ~Fails(g) /\ ~Crash /\ ~(UNCHANGED at)
  BY <1>1 DEF Fails, Crash
<1>3. ASSUME NEW q \in Requests, Moves(q), q # g
      PROVE  FALSE
  BY <1>1, <1>3 DEF Moves
<1>4. GrantStep(g)
  BY <1>1, <1>2, <1>3, StepMovesOne, Kinds DEF Next, ElectionStep, localVars, vars
<1>5. FindEligibility(g)
  BY <1>1, <1>4 DEF GrantStep, BeginGrant, FindVoter, CreateVoter, Revive,
     CreateEligibility
<1> QED
  BY <1>1, <1>5 DEF FindEligibility

LEMMA RowsApart ==
    ASSUME TableInv, OneGrantEach, OneRowEach, [Next]_vars
    PROVE  OneRowEach'
<1>1. /\ \A g \in DOMAIN rows : rows[g].voter = VoterOf[g]
      /\ \A g \in DOMAIN rows' : rows'[g].voter = VoterOf[g]
  BY StepKeepsTables DEF TableInv, TypeOK
<1>2. ASSUME NEW g \in DOMAIN rows', NEW h \in DOMAIN rows',
             rows'[g].voter = rows'[h].voter
      PROVE  g = h
  <2>1. VoterOf[g] = VoterOf[h]
    BY <1>1, <1>2
  <2>2. CASE DOMAIN rows' = DOMAIN rows
    BY <1>1, <2>1, <2>2 DEF OneRowEach
  <2>3. ASSUME NEW k \in Grants, CreateEligibility(k),
               DOMAIN rows' = DOMAIN rows \union {k}
        PROVE  g = h
    <3>1. RowsOf(VoterOf[k]) = {}
      BY <2>3 DEF CreateEligibility, OneRowEach
    <3>2. \A l \in DOMAIN rows : VoterOf[l] # VoterOf[k]
      BY <1>1, <3>1 DEF RowsOf
    <3> QED
      BY <1>1, <2>1, <2>3, <3>2 DEF OneRowEach
  <2> QED
    BY <2>2, <2>3, RowsAdded
<1>3. ASSUME NEW g \in Grants, at'[g] = "creating"
      PROVE  \A l \in DOMAIN rows' : VoterOf[l] # VoterOf[g]
  <2>1. CASE at[g] # "creating"
    BY <1>1, <1>3, <2>1, CreatingFoundNone DEF RowsOf
  <2>2. CASE at[g] = "creating"
    <3>1. \A l \in DOMAIN rows : VoterOf[l] # VoterOf[g]
      BY <1>1, <2>2 DEF OneRowEach, RowsOf
    <3>2. ASSUME NEW k \in Grants, CreateEligibility(k)
          PROVE  VoterOf[k] # VoterOf[g]
      <4>1. k # g
        BY <1>3, <3>2, Kinds DEF CreateEligibility, Goto, TableInv, TypeOK
      <4>2. at[k] = "creating"
        BY <3>2 DEF CreateEligibility
      <4> QED
        BY <2>2, <4>1, <4>2 DEF OneGrantEach, UnderWay
    <3> QED
      BY <3>1, <3>2, RowsAdded
  <2> QED
    BY <2>1, <2>2
<1>4. ASSUME NEW g \in Grants, at'[g] = "creating"
      PROVE  RowsOf(VoterOf[g])' = {}
  BY <1>1, <1>3, <1>4 DEF RowsOf
<1> QED
  BY <1>2, <1>4 DEF OneRowEach

(* A vote is recorded for a voter who had none, and uses the voter's only  *)
(* eligibility.                                                            *)
LEMMA FirstVote ==
    ASSUME BoxInv, NEW c \in Casts, at[c] = "recording",
           ~rows[row[c]].hasVoted
    PROVE  /\ row[c] \in RowsOf(VoterOf[c])
           /\ \A d \in votes : VoterOf[d] # VoterOf[c]
<1>1. row[c] \in RowsOf(VoterOf[c])
  BY TypeParts, Kinds DEF BoxInv, TableInv, RowsRead
<1>2. ASSUME NEW d \in votes, VoterOf[d] = VoterOf[c]
      PROVE  FALSE
  <2>1. PICK g \in RowsOf(VoterOf[c]) : rows[g].hasVoted
    BY <1>2 DEF BoxInv, FlagsTellVotes
  <2>2. g = row[c]
    BY <1>1, <2>1 DEF BoxInv, OneRowEach, RowsOf
  <2> QED
    BY <2>1, <2>2
<1> QED
  BY <1>1, <1>2

LEMMA FlagsKept ==
    ASSUME BoxInv, [Next]_vars
    PROVE  FlagsTellVotes' /\ OneBallotPerVoter'
<1>1. TableInv /\ RowsKept /\ FlagsTellVotes /\ OneBallotPerVoter
  BY StepKeepsRows DEF BoxInv
<1>2. CASE votes' = votes /\ Used' = Used
  <2>1. OneBallotPerVoter'
    BY <1>1, <1>2 DEF OneBallotPerVoter
  <2>2. \A c \in votes' : \E g \in RowsOf(VoterOf[c])' : rows'[g].hasVoted
    BY <1>1, <1>2 DEF FlagsTellVotes, RowsKept, RowsOf
  <2>3. ASSUME NEW g \in DOMAIN rows', rows'[g].hasVoted
        PROVE  \E c \in votes' : VoterOf[c] = rows'[g].voter
    <3>1. g \in DOMAIN rows /\ rows[g].hasVoted
      BY <1>2, <2>3 DEF Used
    <3> QED
      BY <1>1, <1>2, <3>1 DEF FlagsTellVotes, RowsKept
  <2> QED
    BY <2>1, <2>2, <2>3 DEF FlagsTellVotes
<1>3. ASSUME NEW c \in Casts, RecordVote(c), votes' = votes \union {c},
             Used' = Used \union {row[c]}, c \notin votes
      PROVE  FlagsTellVotes' /\ OneBallotPerVoter'
  <2>1. at[c] = "recording" /\ ~rows[row[c]].hasVoted
    BY <1>3 DEF RecordVote
  <2>2. /\ row[c] \in RowsOf(VoterOf[c])
        /\ \A d \in votes : VoterOf[d] # VoterOf[c]
    BY <2>1, FirstVote
  <2>3. /\ row[c] \in DOMAIN rows /\ rows[row[c]].voter = VoterOf[c]
        /\ row[c] \in DOMAIN rows' /\ rows'[row[c]].voter = VoterOf[c]
        /\ rows'[row[c]].hasVoted
    BY <1>1, <1>3, <2>2 DEF RowsOf, RowsKept, Used
  <2>4. OneBallotPerVoter'
    BY <1>1, <1>3, <2>2 DEF OneBallotPerVoter
  <2>5. \A d \in votes' : \E g \in RowsOf(VoterOf[d])' : rows'[g].hasVoted
    <3>1. \A d \in votes : \E g \in RowsOf(VoterOf[d])' : rows'[g].hasVoted
      BY <1>1 DEF FlagsTellVotes, RowsKept, RowsOf
    <3> QED
      BY <1>3, <2>3, <3>1 DEF RowsOf
  <2>6. ASSUME NEW g \in DOMAIN rows', rows'[g].hasVoted
        PROVE  \E d \in votes' : VoterOf[d] = rows'[g].voter
    <3>1. CASE g = row[c]
      BY <1>3, <2>3, <3>1
    <3>2. CASE g \in DOMAIN rows /\ rows[g].hasVoted
      BY <1>1, <1>3, <3>2 DEF FlagsTellVotes, RowsKept
    <3> QED
      BY <1>3, <2>6, <3>1, <3>2 DEF Used
  <2> QED
    BY <2>4, <2>5, <2>6 DEF FlagsTellVotes
<1> QED
  BY <1>1, <1>2, <1>3, StepUsesOne

-----------------------------------------------------------------------------
(* What a step of Ballots is for the ballot box: what a cast's own step    *)
(* does, and that nothing else records or answers.                         *)

KnowsOf(c) ==
    /\ at[c] # "closed" => told[c] = "none"
    /\ at[c] = "checks" /\ hadVoted[c] => rows[row[c]].hasVoted

LEMMA CastsLearn ==
    ASSUME TableInv, CastsKnow, [Next]_vars
    PROVE  CastsKnow'
<1>1. TypeOK /\ RequestTypes /\ TableTypes /\ RowsRead /\ RowsKept
  BY TypeParts, StepKeepsRows DEF TableInv
<1> SUFFICES ASSUME NEW c \in Casts
             PROVE  KnowsOf(c)'
  BY DEF CastsKnow, KnowsOf
<1>2. KnowsOf(c) /\ c \in Requests /\ c \notin Grants /\ c \notin Revokes
  BY Kinds DEF CastsKnow, KnowsOf
<1>3. at[c] = "checks" => row[c] \in DOMAIN rows
  BY <1>1, <1>2 DEF RowsRead, RowsOf
<1>4. CASE /\ at'[c] = at[c] /\ row'[c] = row[c]
           /\ told'[c] = told[c] /\ hadVoted'[c] = hadVoted[c]
  BY <1>1, <1>2, <1>3, <1>4 DEF KnowsOf, RowsKept
<1> USE DEF RequestTypes, Goto, Answer
<1>5. CASE Crash
  <2>1. at'[c] # "closed" => at'[c] = "new" /\ told'[c] = told[c]
    BY <1>1, <1>2, <1>5 DEF Crash
  <2>2. at'[c] = "new" => at[c] = "new"
    BY <1>1, <1>2, <1>5 DEF Crash
  <2> QED
    BY <1>1, <1>2, <2>1, <2>2, <1>5 DEF KnowsOf, Crash
<1>6. ASSUME NEW r \in Requests, Fails(r)
      PROVE  KnowsOf(c)'
  <2>1. CASE r = c
    BY <1>1, <1>2, <1>6, <2>1 DEF Fails, KnowsOf
  <2>2. CASE r # c
    BY <1>1, <1>2, <1>4, <1>6, <2>2 DEF Fails
  <2> QED
    BY <2>1, <2>2
<1>7. ASSUME NEW d \in Casts, CastStep(d)
      PROVE  KnowsOf(c)'
  <2>1. CASE d # c
    <3>1. told'[c] = told[c] /\ hadVoted'[c] = hadVoted[c]
      BY <1>1, <1>7, <2>1 DEF CastStep, BeginCast, ReadEligibility, CheckBallot,
         RecordVote, Confirm
    <3>2. Moves(d)
      BY <1>1, <1>7, StepMovesOne
    <3> QED
      BY <1>2, <1>4, <2>1, <3>1, <3>2 DEF Moves
  <2>2. CASE d = c
    <3>1. CASE ReadEligibility(c)
      BY <1>1, <1>2, <3>1 DEF ReadEligibility, KnowsOf
    <3>2. CASE BeginCast(c) \/ CheckBallot(c) \/ RecordVote(c) \/ Confirm(c)
      <4>1. at'[c] # "checks"
        BY <1>1, <1>2, <3>2 DEF BeginCast, CheckBallot, RecordVote, Confirm
      <4>2. at'[c] # "closed" => told' = told
        BY <1>1, <1>2, <3>2 DEF BeginCast, CheckBallot, RecordVote, Confirm
      <4>3. at[c] # "closed"
        BY <3>2 DEF BeginCast, CheckBallot, RecordVote, Confirm
      <4> QED
        BY <1>2, <4>1, <4>2, <4>3 DEF KnowsOf
    <3> QED
      BY <1>7, <2>2, <3>1, <3>2 DEF CastStep
  <2> QED
    BY <2>1, <2>2
<1>8. ASSUME NEW r \in Grants \union Revokes, GrantStep(r) \/ RevokeStep(r)
      PROVE  told' = told /\ hadVoted' = hadVoted
  BY <1>8 DEF GrantStep, BeginGrant, FindVoter, CreateVoter, FindEligibility,
     Revive, CreateEligibility, RevokeStep, BeginRevoke, Revoke
<1>9. CASE \/ \E g \in Grants : GrantStep(g)
           \/ \E r \in Revokes : RevokeStep(r)
  <2>1. told' = told /\ hadVoted' = hadVoted
    BY <1>8, <1>9
  <2>2. \E r \in Requests \ {c} : Moves(r)
    BY <1>1, <1>2, <1>9, StepMovesOne, Kinds
  <2> QED
    BY <1>2, <1>4, <2>1, <2>2 DEF Moves
<1>10. CASE ElectionStep \/ UNCHANGED vars
  BY <1>4, <1>10 DEF ElectionStep, vars, localVars
<1> QED
  BY <1>5, <1>6, <1>7, <1>9, <1>10 DEF Next

LEMMA BoxStays == ASSUME ~GrantsOverlap PROVE Spec => []BoxInv
<1>1. BoxInv /\ [Next]_vars => BoxInv'
  BY StepKeepsTables, GrantsApart, RowsApart, FlagsKept, CastsLearn DEF BoxInv
<1> QED
  BY <1>1, BoxInit, PTL DEF Spec

(* The steps of one cast.                                                  *)
LEMMA CastIsBoxStep ==
    ASSUME BoxInv, NEW c \in Casts, CastStep(c)
    PROVE  [Box!Next]_(Box!vars)
<1>1. /\ RequestTypes /\ TableTypes /\ ProgressOf(c) /\ KnowsOf(c)
      /\ c \in Requests /\ FlagsTellVotes
  BY TypeParts, Kinds DEF BoxInv, TableInv, Progress, CastsKnow, KnowsOf
<1>2. \A answer \in {"accepted", "already voted", "refused"} :
         Box!Reply(c, answer) => Box!Next
  BY DEF Box!Next
<1>3. ASSUME Answer(c, "refused"), c \notin votes, told[c] = "none", votes' = votes
      PROVE  Box!Reply(c, "refused")
  BY <1>3 DEF Answer, Box!Reply
<1>4. ASSUME Answer(c, "already voted"), c \notin votes, told[c] = "none",
             votes' = votes, \E d \in votes : VoterOf[d] = VoterOf[c]
      PROVE  Box!Reply(c, "already voted")
  BY <1>4 DEF Answer, Box!Reply, Box!HasVoted
<1>5. at[c] \notin {"recorded", "closed"} => c \notin votes /\ told[c] = "none"
  BY <1>1 DEF ProgressOf, KnowsOf
<1>6. CASE UNCHANGED <<votes, told>>
  BY <1>6 DEF Box!vars
<1>7. CASE BeginCast(c)
  BY <1>2, <1>3, <1>5, <1>6, <1>7 DEF BeginCast
<1>8. CASE ReadEligibility(c)
  BY <1>2, <1>3, <1>5, <1>6, <1>8 DEF ReadEligibility
<1>9. CASE CheckBallot(c)
  <2>1. hadVoted[c] => \E d \in votes : VoterOf[d] = VoterOf[c]
    <3>1. row[c] \in RowsOf(VoterOf[c])
      BY <1>1, <1>9, TypeParts DEF CheckBallot, BoxInv, TableInv, RowsRead
    <3> QED
      <4>1. hadVoted[c] => rows[row[c]].hasVoted
        BY <1>1, <1>9 DEF CheckBallot, KnowsOf
      <4>2. row[c] \in DOMAIN rows /\ rows[row[c]].voter = VoterOf[c]
        BY <3>1 DEF RowsOf
      <4> QED
        BY <1>1, <4>1, <4>2 DEF FlagsTellVotes
  <2> QED
    BY <1>2, <1>3, <1>4, <1>5, <1>6, <1>9, <2>1 DEF CheckBallot
<1>10. CASE RecordVote(c)
  <2>1. row[c] \in RowsOf(VoterOf[c])
    BY <1>1, <1>10, TypeParts DEF RecordVote, BoxInv, TableInv, RowsRead
  <2>2. CASE rows[row[c]].hasVoted
    <3>1. \E d \in votes : VoterOf[d] = VoterOf[c]
      BY <1>1, <2>1, <2>2 DEF FlagsTellVotes, RowsOf
    <3> QED
      BY <1>2, <1>4, <1>5, <1>10, <2>2, <3>1 DEF RecordVote
  <2>3. CASE ~rows[row[c]].hasVoted
    <3>1. \A d \in votes : VoterOf[d] # VoterOf[c]
      BY <1>10, <2>3, FirstVote DEF RecordVote
    <3>2. Box!Count(c)
      BY <1>5, <1>10, <2>3, <3>1 DEF RecordVote, Box!Count, Box!HasVoted
    <3> QED
      BY <3>2 DEF Box!Next
  <2> QED
    BY <2>2, <2>3
<1>11. CASE Confirm(c)
  <2>1. c \in votes /\ told[c] = "none"
    BY <1>1, <1>11 DEF Confirm, ProgressOf, KnowsOf
  <2>2. Box!Reply(c, "accepted")
    BY <1>11, <2>1 DEF Confirm, Answer, Box!Reply
  <2> QED
    BY <1>2, <2>2
<1> QED
  BY <1>7, <1>8, <1>9, <1>10, <1>11 DEF CastStep

LEMMA StepIsBoxStep ==
    ASSUME BoxInv, [Next]_vars
    PROVE  [Box!Next]_(Box!vars)
<1>1. RequestTypes /\ \A c \in Casts : KnowsOf(c)
  BY TypeParts DEF BoxInv, TableInv, CastsKnow, KnowsOf
<1>2. CASE UNCHANGED <<votes, told>>
  BY <1>2 DEF Box!vars
<1>3. CASE Crash
  <2> DEFINE lost == {c \in Casts : UnderWay(c)}
  <2>1. \A c \in lost : told[c] = "none"
    BY <1>1 DEF KnowsOf, UnderWay
  <2>2. told' = [c \in Casts |-> IF c \in lost THEN "lost" ELSE told[c]]
    BY <1>3 DEF Crash, UnderWay
  <2>3. Box!Crash(lost)
    BY <1>3, <2>1, <2>2 DEF Crash, Box!Crash
  <2> QED
    BY <2>3 DEF Box!Next
<1>4. ASSUME NEW r \in Requests, Fails(r)
      PROVE  [Box!Next]_(Box!vars)
  <2>1. CASE r \in Casts
    <3>1. told' = [c \in Casts |-> IF c \in {r} THEN "lost" ELSE told[c]]
      BY <1>1, <1>4, <2>1 DEF Fails, RequestTypes
    <3>2. told[r] = "none"
      BY <1>1, <1>4, <2>1 DEF Fails, KnowsOf
    <3>3. Box!Crash({r})
      BY <1>4, <3>1, <3>2 DEF Fails, Box!Crash
    <3> QED
      BY <2>1, <3>3 DEF Box!Next
  <2>2. CASE r \notin Casts
    BY <1>2, <1>4, <2>2 DEF Fails
  <2> QED
    BY <2>1, <2>2
<1>5. CASE \E c \in Casts : CastStep(c)
  BY <1>5, CastIsBoxStep
<1>6. CASE \/ \E g \in Grants : GrantStep(g)
           \/ \E r \in Revokes : RevokeStep(r)
  BY <1>2, <1>6 DEF GrantStep, BeginGrant, FindVoter, CreateVoter, FindEligibility,
     Revive, CreateEligibility, RevokeStep, BeginRevoke, Revoke
<1>7. CASE ElectionStep \/ UNCHANGED vars
  BY <1>2, <1>7 DEF ElectionStep, vars
<1> QED
  BY <1>3, <1>4, <1>5, <1>6, <1>7 DEF Next

(* The election is a ballot box, whatever is cast, revoked, granted again, *)
(* edited and lost at the same time, as long as no two grants of one voter *)
(* overlap (ImplementsBallotBox).                                          *)
THEOREM ElectionIsBallotBox ==
    ASSUME ~GrantsOverlap PROVE Spec => ImplementsBallotBox
<1>1. Init => Box!Init
  BY DEF Init, Box!Init
<1>2. Spec => []BoxInv
  BY BoxStays
<1> QED
  BY <1>1, <1>2, StepIsBoxStep, PTL DEF Spec, ImplementsBallotBox, Box!Spec

(* Under the same condition no voter has two ballots in; without it the    *)
(* voter may have one on each of two eligibilities (OneBallotPerVoter).    *)
THEOREM OneBallotEach == ASSUME ~GrantsOverlap PROVE Spec => []OneBallotPerVoter
<1>1. BoxInv => OneBallotPerVoter
  BY DEF BoxInv
<1>2. Spec => []BoxInv
  BY BoxStays
<1> QED
  BY <1>1, <1>2, PTL

-----------------------------------------------------------------------------
(* The election's row and its candidates: what one step may do to them, as *)
(* long as no administrator's write was overtaken by another.              *)

Lifecycle ==
    /\ status' \in E!TRANSITIONS[status]
    /\ status \in E!LOCKED_STATUSES => listed \subseteq listed'

LEMMA StatusesKept == \A s \in E!Statuses : s \in E!TRANSITIONS[s]
  BY DEF E!Statuses, E!TRANSITIONS

LEMMA LockedForGood ==
    \A s \in E!LOCKED_STATUSES : E!TRANSITIONS[s] \subseteq E!LOCKED_STATUSES
<1> SUFFICES ASSUME NEW s \in {"active", "ended", "archived", "paused"}
             PROVE  E!TRANSITIONS[s] \subseteq E!LOCKED_STATUSES
  BY DEF E!LOCKED_STATUSES
<1>1. s \in E!Statuses
  BY DEF E!Statuses
<1> QED
  BY <1>1 DEF E!LOCKED_STATUSES, E!TRANSITIONS

LEMMA LockedIsNotEditable ==
    E!LOCKED_STATUSES \intersect E!EDITABLE_STATUSES = {}
  BY DEF E!LOCKED_STATUSES, E!EDITABLE_STATUSES

LEMMA ElectionAtRest ==
    ASSUME E!TypeOK, UNCHANGED <<status, listed>>
    PROVE  Lifecycle
  BY StatusesKept DEF E!TypeOK, Lifecycle

(* A write that is not overtaken does what its check allowed.              *)
LEMMA WriteKeepsLifecycle ==
    ASSUME E!TypeOK, NEW r \in AdminRequests, E!Write(r), ~stale'
    PROVE  Lifecycle
<1> DEFINE want == Wants[r]
<1>1. /\ want \in E!Request /\ E!Allowed(want)
      /\ status \in E!TRANSITIONS[status]
  BY WantsType, StatusesKept DEF E!TypeOK, E!Write
<1>2. CASE want.op = "patch"
  <2>1. want.status \subseteq E!TRANSITIONS[status]
    BY <1>1, <1>2 DEF E!Allowed, E!EditAllowed
  <2>2. status' \in IF want.status = {} THEN {status} ELSE want.status
    BY <1>2 DEF E!Write
  <2>3. status' \in E!TRANSITIONS[status]
    BY <1>1, <2>1, <2>2
  <2>4. listed' = listed
    BY <1>2 DEF E!Write
  <2> QED
    BY <2>3, <2>4 DEF Lifecycle
<1>3. CASE want.op = "delete"
  <2>1. UNCHANGED <<status, listed>>
    BY <1>3 DEF E!Write
  <2> QED
    BY <2>1, ElectionAtRest
<1>4. CASE want.op \in {"add", "remove"}
  <2>1. status \in E!EDITABLE_STATUSES
    BY <1>1, <1>4 DEF E!Allowed, E!CandidateEditAllowed
  <2>2. status' = status
    BY <1>4 DEF E!Write
  <2> QED
    BY <1>1, <2>1, <2>2, LockedIsNotEditable DEF Lifecycle
<1> QED
  BY <1>1, <1>2, <1>3, <1>4 DEF E!Request, E!Edit

LEMMA StepKeepsLifecycle ==
    ASSUME E!TypeOK, [Next]_vars, ~stale'
    PROVE  Lifecycle /\ ~stale
<1>1. CASE UNCHANGED electionVars
  BY <1>1, ElectionAtRest DEF electionVars
<1>2. CASE ElectionStep
  <2>1. CASE E!Tick
    BY <2>1, ElectionAtRest DEF E!Tick
  <2>2. ASSUME NEW r \in AdminRequests, E!Check(r)
        PROVE  Lifecycle /\ ~stale
    BY <2>2, ElectionAtRest DEF E!Check
  <2>3. ASSUME NEW r \in AdminRequests, E!Write(r)
        PROVE  Lifecycle /\ ~stale
    <3>1. ~stale
      BY <2>3 DEF E!Write
    <3> QED
      BY <2>3, <3>1, WriteKeepsLifecycle
  <2> QED
    BY <1>2, <2>1, <2>2, <2>3 DEF ElectionStep, E!Next
<1>3. CASE Crash
  BY <1>3, ElectionAtRest DEF Crash
<1>4. CASE \/ \E r \in Requests : Fails(r)
           \/ \E c \in Casts : CastStep(c)
  BY <1>1, <1>4 DEF Fails, CastStep, BeginCast, ReadEligibility, CheckBallot,
                    RecordVote, Confirm
<1>5. CASE \/ \E g \in Grants : GrantStep(g)
           \/ \E r \in Revokes : RevokeStep(r)
  BY <1>1, <1>5 DEF GrantStep, BeginGrant, FindVoter, CreateVoter,
                    FindEligibility, Revive, CreateEligibility, RevokeStep,
                    BeginRevoke, Revoke
<1>6. CASE UNCHANGED vars
  BY <1>1, <1>6 DEF vars, electionVars
<1> QED
  BY <1>2, <1>3, <1>4, <1>5, <1>6 DEF Next

-----------------------------------------------------------------------------
(* A ballot that passed the checks is for a candidate who was on the list  *)
(* of an election that had been active, so who is on the list of one that  *)
(* is locked for good.                                                     *)

OnTheList(c) ==
    /\ seen[c] = "active" => status \in E!LOCKED_STATUSES
    /\ c \in votes \/ at[c] = "recording" =>
           seen[c] = "active" /\ ChoiceOf[c] \in listed

TallyInv ==
    /\ TableInv
    /\ ~stale => \A c \in Casts : OnTheList(c)

LEMMA ListKept ==
    ASSUME TallyInv, Lifecycle, ~stale, NEW c \in Casts,
           seen'[c] = seen[c] \/ (seen'[c] = status /\ c \notin votes'),
           c \in votes' \/ at'[c] = "recording" =>
               \/ (c \in votes \/ at[c] = "recording") /\ seen'[c] = seen[c]
               \/ /\ seen'[c] = "active" /\ seen[c] = "active"
                  /\ ChoiceOf[c] \in listed
    PROVE  OnTheList(c)'
<1>1. OnTheList(c)
  BY DEF TallyInv
<1>2. status \in E!LOCKED_STATUSES =>
          status' \in E!LOCKED_STATUSES /\ listed \subseteq listed'
  BY LockedForGood DEF Lifecycle
<1>3. "active" \in E!LOCKED_STATUSES
  BY DEF E!LOCKED_STATUSES
<1> QED
  BY <1>1, <1>2, <1>3 DEF OnTheList

LEMMA StepKeepsTally ==
    ASSUME TallyInv, [Next]_vars
    PROVE  TallyInv'
<1>0. TableInv' /\ E!TypeOK
  BY StepKeepsTables DEF TallyInv, TableInv, TypeOK
<1>2. RequestTypes /\ TypeOK /\ \A c \in Casts : ProgressOf(c) /\ c \in Requests
  BY TypeParts, Kinds DEF TallyInv, TableInv, Progress
<1> SUFFICES ASSUME ~stale', NEW c \in Casts
             PROVE  OnTheList(c)'
  BY <1>0 DEF TallyInv
<1>1. Lifecycle /\ ~stale
  BY <1>0, StepKeepsLifecycle
<1>3. CASE seen'[c] = seen[c] /\ votes' = votes /\ at'[c] = at[c]
  BY <1>1, <1>3, ListKept
<1>4. CASE Crash
  BY <1>1, <1>2, <1>4, ListKept DEF Crash, RequestTypes
<1>5. ASSUME NEW r \in Requests, Fails(r)
      PROVE  OnTheList(c)'
  BY <1>1, <1>2, <1>5, ListKept DEF Fails, Goto, RequestTypes
<1>6. ASSUME NEW d \in Casts, CastStep(d)
      PROVE  OnTheList(c)'
  <2>1. CASE d # c
    <3>1. at'[c] = at[c]
      BY <1>2, <1>6, <2>1, StepMovesOne DEF Moves
    <3>2. seen'[c] = seen[c] /\ (c \in votes' => c \in votes)
      <4>1. CASE BeginCast(d)
        <5>1. votes' = votes /\ seen' \in {seen, [seen EXCEPT ![d] = status]}
          BY <4>1 DEF BeginCast
        <5> QED
          BY <1>2, <2>1, <5>1 DEF RequestTypes
      <4>2. CASE ReadEligibility(d) \/ CheckBallot(d) \/ Confirm(d)
        BY <4>2 DEF ReadEligibility, CheckBallot, Confirm
      <4>3. CASE RecordVote(d)
        <5>1. seen' = seen /\ votes' \subseteq votes \union {d}
          BY <4>3 DEF RecordVote
        <5> QED
          BY <2>1, <5>1
      <4> QED
        BY <1>6, <4>1, <4>2, <4>3 DEF CastStep
    <3> QED
      BY <1>1, <3>1, <3>2, ListKept
  <2>2. CASE BeginCast(c)
    <3>1. c \notin votes' /\ at'[c] # "recording"
      BY <1>2, <2>2 DEF BeginCast, Goto, Answer, RequestTypes, ProgressOf
    <3>2. seen'[c] = seen[c] \/ seen'[c] = status
      BY <1>2, <2>2 DEF BeginCast, RequestTypes
    <3> QED
      BY <1>1, <3>1, <3>2, ListKept
  <2>3. CASE ReadEligibility(c) \/ Confirm(c)
    <3>1. seen' = seen /\ votes' = votes /\ at'[c] # "recording"
      BY <1>2, <2>3 DEF ReadEligibility, Confirm, Goto, Answer, RequestTypes
    <3> QED
      BY <1>1, <3>1, ListKept
  <2>4. CASE CheckBallot(c)
    <3>1. seen' = seen /\ votes' = votes
      BY <2>4 DEF CheckBallot
    <3>2. at'[c] = "recording" => ChoiceOf[c] \in listed /\ seen[c] = "active"
      BY <1>2, <2>4
      DEF CheckBallot, Goto, Answer, RequestTypes, E!isWithinVotingWindow
    <3> QED
      BY <1>1, <3>1, <3>2, ListKept
  <2>5. CASE RecordVote(c)
    <3>1. seen' = seen /\ at[c] = "recording"
      BY <2>5 DEF RecordVote
    <3> QED
      BY <1>1, <3>1, ListKept
  <2> QED
    BY <1>6, <2>1, <2>2, <2>3, <2>4, <2>5 DEF CastStep
<1>7. CASE \/ \E g \in Grants : GrantStep(g)
           \/ \E r \in Revokes : RevokeStep(r)
  <2>1. votes' = votes /\ seen' = seen
    BY <1>7 DEF GrantStep, BeginGrant, FindVoter, CreateVoter, FindEligibility,
       Revive, CreateEligibility, RevokeStep, BeginRevoke, Revoke
  <2>2. at'[c] = at[c]
    BY <1>2, <1>7, StepMovesOne, Kinds DEF Moves
  <2> QED
    BY <1>3, <2>1, <2>2
<1>8. CASE ElectionStep \/ UNCHANGED vars
  BY <1>3, <1>8 DEF ElectionStep, vars, localVars
<1> QED
  BY <1>4, <1>5, <1>6, <1>7, <1>8 DEF Next

(* Every vote is for a candidate still on the ballot until a write of one  *)
(* administrator is overtaken by another's: what a cast itself has read of *)
(* the election is stale, but not in a way that matters, for any number of *)
(* requests that overlap in any way (TallyLostOnlyToStaleWrites).          *)
THEOREM VotesStayTallied == Spec => []TallyLostOnlyToStaleWrites
<1>1. Init => TallyInv
  <2> SUFFICES ASSUME Init PROVE TallyInv
    OBVIOUS
  <2>1. \A c \in Casts : seen[c] = "draft" /\ c \notin votes /\ at[c] = "new"
    BY Kinds DEF Init
  <2> QED
    BY <2>1, InitTables DEF TallyInv, OnTheList
<1>2. TallyInv /\ [Next]_vars => TallyInv'
  BY StepKeepsTally
<1>3. TallyInv => TallyLostOnlyToStaleWrites
  BY TypeParts DEF TallyInv, TableInv, TableTypes, OnTheList,
                   TallyLostOnlyToStaleWrites
<1> QED
  BY <1>1, <1>2, <1>3, PTL DEF Spec

=============================================================================
