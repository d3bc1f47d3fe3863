------------------------ MODULE MasterAnswersProofs ------------------------
(***************************************************************************)
(* What a voter and a reader of Pub/Sub can rely on, for any elections,    *)
(* votes and bounds, as long as a failed storage call has had no effect:   *)
(* the answers are true, blocks are published once and in order, and the   *)
(* master implements the ledger.                                           *)
(*                                                                         *)
(* The inductive invariant relates four pieces of state: the queue holds   *)
(* each waiting vote once (QueueInv), the rows hold each vote once, in its *)
(* own election (RowsInv), and a vote in the rows is answered 202, was     *)
(* dropped by a crash, or is the running commit between the insert and its *)
(* answer (VerdictInv).                                                    *)
(***************************************************************************)
EXTENDS MasterNodeProofs

IsRecorded(v) ==
    \E k \in DOMAIN stored[ElectionOf[v]] : stored[ElectionOf[v]][k].data = v

QueueInv ==
    /\ \A i, j \in DOMAIN queue : queue[i] = queue[j] => i = j
    /\ \A i \in DOMAIN queue : verdict[queue[i]] = "waiting"

(* What a row of one election carries: genesis first, then its votes *)
RowFits(e, k, b) ==
    /\ b.electionId = e
    /\ IF k = 1 THEN b.data = GenesisData
                ELSE b.data \in Votes /\ ElectionOf[b.data] = e

RowsInv ==
    \A e \in Elections :
        /\ \A k \in DOMAIN stored[e] : RowFits(e, k, stored[e][k])
        /\ \A j, k \in DOMAIN stored[e] :
               stored[e][j].data = stored[e][k].data => j = k

VerdictInv ==
    \A v \in Votes :
        /\ verdict[v] = "accepted" => IsRecorded(v)
        /\ verdict[v] \in {"unsent", "refused"} => ~IsRecorded(v)
        /\ verdict[v] = "waiting" /\ IsRecorded(v)
               => pc = "persisted" /\ v = Vote

AnswersInv == SyncedInv /\ QueueInv /\ RowsInv /\ VerdictInv

-----------------------------------------------------------------------------
(* The queue: the running vote is waiting, and taking it off leaves the    *)
(* others.                                                                 *)

LEMMA RunningVote ==
    ASSUME TypeOK, QueueInv, queue # << >>
    PROVE  /\ Vote \in Votes
           /\ verdict[Vote] = "waiting"
           /\ Len(queue) \in Nat \ {0}
           /\ \A i \in DOMAIN Tail(queue) :
                  /\ i + 1 \in DOMAIN queue
                  /\ Tail(queue)[i] = queue[i + 1]
                  /\ Tail(queue)[i] # Vote
<1>1. /\ queue \in Seq(Votes) /\ Len(queue) \in Nat \ {0}
      /\ DOMAIN queue = 1 .. Len(queue)
  BY DEF TypeOK
<1>2. /\ Vote = queue[1] /\ Vote \in Votes
      /\ Tail(queue) \in Seq(Votes) /\ Len(Tail(queue)) = Len(queue) - 1
      /\ \A i \in 1 .. Len(Tail(queue)) : Tail(queue)[i] = queue[i + 1]
  BY <1>1, HeadTailProperties DEF Vote
<1>3. DOMAIN Tail(queue) = 1 .. Len(queue) - 1
  BY <1>2
<1>4. verdict[Vote] = "waiting"
  BY <1>1, <1>2 DEF QueueInv
<1>5. ASSUME NEW i \in 1 .. Len(queue) - 1
      PROVE  i + 1 \in DOMAIN queue /\ queue[i + 1] # queue[1]
  BY <1>1 DEF QueueInv
<1> QED
  BY <1>1, <1>2, <1>3, <1>4, <1>5

LEMMA FinishQueue ==
    ASSUME TypeOK, QueueInv, queue # << >>,
           NEW answer \in {"accepted", "refused"}, Finish(answer)
    PROVE  QueueInv'
<1>1. \A i \in DOMAIN Tail(queue) :
          /\ i + 1 \in DOMAIN queue
          /\ Tail(queue)[i] = queue[i + 1]
          /\ Tail(queue)[i] # Vote
  BY RunningVote
<1>2. /\ Tail(queue) \in Seq(Votes)
      /\ \A i \in DOMAIN Tail(queue) : i \in Nat /\ Tail(queue)[i] \in Votes
  BY CurrentVote
<1>3. \A v \in Votes : v # Vote => verdict'[v] = verdict[v]
  BY DEF Finish, TypeOK
<1>4. queue' = Tail(queue)
  BY DEF Finish
<1>5. \A i, j \in DOMAIN queue' : queue'[i] = queue'[j] => i = j
  BY <1>1, <1>2, <1>4 DEF QueueInv
<1>6. \A i \in DOMAIN queue' : verdict'[queue'[i]] = "waiting"
  BY <1>1, <1>2, <1>3, <1>4 DEF QueueInv
<1> QED
  BY <1>5, <1>6 DEF QueueInv

LEMMA NextQueueInv == TypeInv /\ QueueInv /\ [Next]_vars => QueueInv'
<1> SUFFICES ASSUME TypeInv, QueueInv, [Next]_vars
             PROVE  QueueInv'
  OBVIOUS
<1>1. TypeOK
  BY DEF TypeInv
<1>2. ASSUME NEW v \in Votes, PostVote(v)
      PROVE  QueueInv'
  <2>1. /\ queue \in Seq(Votes) /\ Len(queue) \in Nat
        /\ DOMAIN queue = 1 .. Len(queue)
        /\ \A i \in DOMAIN queue : queue[i] \in Votes /\ queue[i] # v
    BY <1>1, <1>2 DEF TypeOK, PostVote, QueueInv
  <2>2. /\ DOMAIN queue' = 1 .. Len(queue) + 1
        /\ queue'[Len(queue) + 1] = v
        /\ \A i \in 1 .. Len(queue) : queue'[i] = queue[i]
    BY <1>2, <2>1, AppendProperties DEF PostVote
  <2>3. /\ verdict'[v] = "waiting"
        /\ \A u \in Votes : u # v => verdict'[u] = verdict[u]
    BY <1>1, <1>2 DEF PostVote, TypeOK
  <2>4. ASSUME NEW i \in DOMAIN queue', NEW j \in DOMAIN queue',
               queue'[i] = queue'[j]
        PROVE  i = j
    BY <2>1, <2>2, <2>4 DEF QueueInv
  <2>5. \A i \in DOMAIN queue' : verdict'[queue'[i]] = "waiting"
    BY <2>1, <2>2, <2>3 DEF QueueInv
  <2> QED
    BY <2>4, <2>5 DEF QueueInv
<1>3. CASE Exit \/ Crash
  BY <1>3 DEF Exit, Crash, Forget, QueueInv
<1>4. CASE \E answer \in {"accepted", "refused"} : queue # << >> /\ Finish(answer)
  BY <1>1, <1>4, FinishQueue
<1>5. CASE UNCHANGED <<queue, verdict>>
  BY <1>5 DEF QueueInv
<1>6. UseFailedLoad \/ LoadFails \/ PersistFails \/ LoseReply \/ Hold =>
          \/ \E answer \in {"accepted", "refused"} : queue # << >> /\ Finish(answer)
          \/ UNCHANGED <<queue, verdict>>
  BY <1>1 DEF UseFailedLoad, LoadFails, PersistFails, LoseReply, Hold, TypeOK
<1>7. Start \/ BeginStop \/ BeginLoad \/ UseChain \/ Load \/ Persist
        \/ (\E b \in outbox : Publish(b)) \/ UNCHANGED vars
        => UNCHANGED <<queue, verdict>>
  BY DEF Start, BeginStop, BeginLoad, UseChain, Load, Persist, Publish, vars,
         memory
<1> QED
  BY <1>2, <1>3, <1>4, <1>5, <1>6, <1>7 DEF Next, CommitStep

-----------------------------------------------------------------------------
(* The insert of the pending block appends a genesis block to rows that    *)
(* were empty, or else a block with the running vote.                      *)

LEMMA PendingData ==
    ASSUME SyncedInv, RowsInv, queue # << >>, loaded[Election] = "loaded",
           stored[Election] = blocks[Election]
    PROVE  /\ Pending.electionId = Election
           /\ IF stored[Election] = << >> THEN Pending.data = GenesisData
                                          ELSE Pending.data = Vote
<1>1. Election \in Elections /\ stored[Election] \in Seq(Block)
  BY CurrentVote DEF SyncedInv, TypeInv
<1>2. CASE stored[Election] = << >>
  BY <1>2 DEF Pending, BlockFor, Genesis
<1>3. CASE stored[Election] # << >>
  <2>1. Len(stored[Election]) \in DOMAIN stored[Election]
    BY <1>1, <1>3
  <2>2. Tip(stored[Election]).electionId = Election
    BY <1>1, <2>1 DEF Tip, RowsInv, RowFits
  <2> QED
    BY <1>3, <2>2 DEF Pending, BlockFor, NextBlock
<1> QED
  BY <1>2, <1>3

LEMMA PersistAppends ==
    ASSUME SyncedInv, RowsInv, Persist
    PROVE  /\ queue # << >> /\ Vote \in Votes /\ Election \in Elections
           /\ stored[Election] \in Seq(Block)
           /\ stored[Election] = blocks[Election]
           /\ Pending \in Block /\ Pending.index = Len(stored[Election])
           /\ Pending.electionId = Election
           /\ stored[Election] = << >> => Pending.data = GenesisData
           /\ stored[Election] # << >> => Pending.data = Vote
           /\ stored'[Election] = Append(stored[Election], Pending)
           /\ \A e \in Elections \ {Election} : stored'[e] = stored[e]
<1>1. TypeInv /\ TypeOK /\ pc = "persisting" /\ queue # << >>
  BY DEF SyncedInv, TypeInv, TypeOK, Persist
<1>2. /\ Vote \in Votes /\ Election \in Elections
      /\ stored[Election] \in Seq(Block)
  BY <1>1, CurrentVote
<1>3. loaded[Election] = "loaded" /\ stored[Election] = blocks[Election]
  BY <1>1, <1>2 DEF SyncedInv, MemoryAgreesWithStorage
<1>4. Pending \in Block /\ Pending.index = Len(stored[Election])
  BY <1>1, <1>3, PendingBlock
<1>5. StorageAppend(stored[Election], Pending) = Append(stored[Election], Pending)
  BY <1>1, <1>3, PersistRows
<1>6. /\ stored'[Election] = Append(stored[Election], Pending)
      /\ \A e \in Elections \ {Election} : stored'[e] = stored[e]
  BY <1>1, <1>2, <1>5 DEF Persist, TypeOK
<1> QED
  BY <1>1, <1>2, <1>3, <1>4, <1>6, PendingData

(* Between the insert and its answer the last row is the pending block.    *)
LEMMA PersistedRow ==
    ASSUME SyncedInv, RowsInv, pc = "persisted"
    PROVE  /\ queue # << >> /\ Vote \in Votes /\ Election \in Elections
           /\ blocks[Election] \in Seq(Block)
           /\ loaded[Election] = "loaded"
           /\ Pending \in Block /\ Pending.index = Len(blocks[Election])
           /\ stored[Election] = Append(blocks[Election], Pending)
<1>1. TypeInv /\ TypeOK /\ queue # << >>
  BY DEF SyncedInv, TypeInv, TypeOK
<1>2. Vote \in Votes /\ Election \in Elections /\ blocks[Election] \in Seq(Block)
  BY <1>1, CurrentVote
<1>3. /\ loaded[Election] = "loaded"
      /\ stored[Election] = Append(blocks[Election], Pending)
  BY <1>2 DEF SyncedInv, MemoryAgreesWithStorage
<1> QED
  BY <1>1, <1>2, <1>3, PendingBlock

LEMMA PersistKeepsRows ==
    ASSUME SyncedInv, RowsInv, VerdictInv, QueueInv, Persist
    PROVE  RowsInv'
<1> DEFINE rows == stored[Election]
<1>1. /\ queue # << >> /\ Vote \in Votes /\ Election \in Elections
      /\ rows \in Seq(Block) /\ Pending \in Block
      /\ Pending.electionId = Election
      /\ rows = << >> => Pending.data = GenesisData
      /\ rows # << >> => Pending.data = Vote
      /\ stored'[Election] = Append(rows, Pending)
      /\ \A e \in Elections \ {Election} : stored'[e] = stored[e]
  BY PersistAppends
<1>2. ElectionOf[Vote] = Election
  BY DEF Election
<1>3. \A k \in DOMAIN rows : rows[k].data # Vote
  <2>1. verdict[Vote] = "waiting" /\ pc # "persisted"
    BY <1>1, RunningVote DEF Persist, SyncedInv, TypeInv
  <2>2. ~IsRecorded(Vote)
    BY <1>1, <2>1 DEF VerdictInv
  <2> QED
    BY <1>2, <2>2 DEF IsRecorded
<1>4. /\ \A k \in DOMAIN rows : RowFits(Election, k, rows[k])
      /\ \A j, k \in DOMAIN rows : rows[j].data = rows[k].data => j = k
  BY <1>1 DEF RowsInv
<1> HIDE DEF rows
<1> DEFINE longer == Append(rows, Pending)
           n == Len(rows) + 1
<1>5. /\ DOMAIN longer = 1 .. n /\ longer[n] = Pending /\ Len(rows) \in Nat
      /\ \A k \in 1 .. Len(rows) : longer[k] = rows[k]
      /\ DOMAIN rows = 1 .. Len(rows)
      /\ rows = << >> <=> Len(rows) = 0
  BY <1>1, AppendProperties
<1> HIDE DEF longer
<1>6. ASSUME NEW k \in DOMAIN longer PROVE RowFits(Election, k, longer[k])
  <2>1. CASE k = n /\ rows = << >>
    BY <2>1, <1>1, <1>5 DEF RowFits
  <2>2. CASE k = n /\ rows # << >>
    BY <2>2, <1>1, <1>2, <1>5 DEF RowFits
  <2>3. CASE k # n
    BY <2>3, <1>4, <1>5
  <2> QED
    BY <2>1, <2>2, <2>3
<1>7. \A k \in 1 .. Len(rows) : longer[n].data # longer[k].data
  BY <1>1, <1>3, <1>5
<1>8. ASSUME NEW j \in DOMAIN longer, NEW k \in DOMAIN longer,
             longer[j].data = longer[k].data
      PROVE  j = k
  <2>1. CASE j = n \/ k = n
    BY <2>1, <1>5, <1>7, <1>8
  <2>2. CASE j # n /\ k # n
    BY <2>2, <1>4, <1>5, <1>8
  <2> QED
    BY <2>1, <2>2
<1>9. ASSUME NEW e \in Elections
      PROVE  /\ \A k \in DOMAIN stored'[e] : RowFits(e, k, stored'[e][k])
             /\ \A j, k \in DOMAIN stored'[e] :
                    stored'[e][j].data = stored'[e][k].data => j = k
  <2>1. CASE e = Election
    BY <2>1, <1>1, <1>6, <1>8 DEF longer
  <2>2. CASE e # Election
    BY <2>2, <1>1 DEF RowsInv
  <2> QED
    BY <2>1, <2>2
<1> QED
  BY <1>9 DEF RowsInv, RowFits

LEMMA NextRowsInv ==
    AnswersInv /\ [Next]_vars => RowsInv'
<1> SUFFICES ASSUME AnswersInv, [Next]_vars
             PROVE  RowsInv'
  OBVIOUS
<1>1. CASE Persist
  BY <1>1, PersistKeepsRows DEF AnswersInv
<1>2. CASE UNCHANGED stored
  BY <1>2 DEF AnswersInv, RowsInv, RowFits
<1> QED
  BY <1>1, <1>2 DEF Next, CommitStep, vars, Start, BeginStop, Exit, Crash,
     PostVote, BeginLoad, UseChain, UseFailedLoad, Load, LoadFails,
     PersistFails, LoseReply, Hold, Publish

-----------------------------------------------------------------------------
(* The insert of a vote's block is the moment it becomes recorded; no      *)
(* other step records or forgets a vote.                                   *)

LEMMA PersistRecords ==
    ASSUME SyncedInv, RowsInv, Persist, NEW v \in Votes
    PROVE  IsRecorded(v)' <=> \/ IsRecorded(v)
                              \/ v = Vote /\ stored[Election] # << >>
<1> DEFINE rows == stored[Election]
           e == ElectionOf[v]
<1>1. /\ Vote \in Votes /\ Election \in Elections
      /\ rows \in Seq(Block) /\ Pending \in Block
      /\ rows = << >> => Pending.data = GenesisData
      /\ rows # << >> => Pending.data = Vote
      /\ stored'[Election] = Append(rows, Pending)
      /\ \A x \in Elections \ {Election} : stored'[x] = stored[x]
  BY PersistAppends
<1>2. e \in Elections /\ ElectionOf[Vote] = Election
  BY ElectionOfType DEF Election
<1>3. CASE e # Election
  BY <1>1, <1>2, <1>3 DEF IsRecorded
<1>4. CASE e = Election
  <2>1. /\ DOMAIN stored'[e] = 1 .. Len(rows) + 1 /\ Len(rows) \in Nat
        /\ stored'[e][Len(rows) + 1] = Pending
        /\ DOMAIN rows = 1 .. Len(rows)
        /\ \A k \in 1 .. Len(rows) : stored'[e][k] = rows[k]
    BY <1>1, <1>4, AppendProperties
  <2>2. IsRecorded(v)' <=> \E k \in DOMAIN stored'[e] : stored'[e][k].data = v
    BY DEF IsRecorded
  <2>3. IsRecorded(v) <=> \E k \in DOMAIN rows : rows[k].data = v
    BY <1>4 DEF IsRecorded
  <2> DEFINE longer == stored'[e]
             n == Len(rows)
  <2> HIDE DEF longer, n, rows
  <2>4. IsRecorded(v)' <=> IsRecorded(v) \/ Pending.data = v
    <3>1. ASSUME IsRecorded(v) \/ Pending.data = v PROVE IsRecorded(v)'
      BY <2>1, <2>2, <2>3, <3>1 DEF longer, n
    <3>2. ASSUME NEW k \in DOMAIN longer, longer[k].data = v
          PROVE  IsRecorded(v) \/ Pending.data = v
      BY <2>1, <2>3, <3>2 DEF longer, n
    <3> QED
      BY <2>2, <3>1, <3>2 DEF longer
  <2>5. Pending.data = v <=> v = Vote /\ rows # << >>
    BY <1>1, GenesisIsNoVote DEF rows
  <2> QED
    BY <2>4, <2>5 DEF rows
<1> QED
  BY <1>3, <1>4

LEMMA FinishVerdicts ==
    ASSUME TypeOK, QueueInv, VerdictInv, queue # << >>,
           UNCHANGED stored, NEW answer \in {"accepted", "refused"},
           Finish(answer),
           answer = "accepted" <=> IsRecorded(Vote)
    PROVE  VerdictInv'
<1>1. Vote \in Votes /\ verdict[Vote] = "waiting"
  BY RunningVote
<1>2. /\ verdict'[Vote] = answer
      /\ \A v \in Votes : v # Vote => verdict'[v] = verdict[v]
  BY <1>1 DEF Finish, TypeOK
<1>3. \A v \in Votes : IsRecorded(v)' <=> IsRecorded(v)
  BY DEF IsRecorded
<1>4. ASSUME NEW v \in Votes
      PROVE  /\ verdict'[v] = "accepted" => IsRecorded(v)
             /\ verdict'[v] \in {"unsent", "refused"} => ~IsRecorded(v)
             /\ ~ (verdict'[v] = "waiting" /\ IsRecorded(v))
  <2>1. CASE v = Vote
    BY <2>1, <1>2
  <2>2. CASE v # Vote
    BY <2>2, <1>2 DEF VerdictInv
  <2> QED
    BY <2>1, <2>2
<1> QED
  BY <1>3, <1>4 DEF VerdictInv

(* A vote is answered 409 only when it is not recorded ...                 *)
LEMMA RefusedIsNotRecorded ==
    ASSUME TypeOK, QueueInv, VerdictInv, queue # << >>, pc # "persisted"
    PROVE  ~IsRecorded(Vote)
  BY RunningVote DEF VerdictInv

(* ... and 202 only when it is: the row inserted last carries it.          *)
LEMMA HoldAnswers ==
    ASSUME SyncedInv, RowsInv, pc = "persisted"
    PROVE  IsRecorded(Vote) <=> Pending.index # GENESIS_INDEX
<1>1. /\ Vote \in Votes /\ Election \in Elections
      /\ blocks[Election] \in Seq(Block) /\ Pending \in Block
      /\ Pending.index = Len(blocks[Election])
      /\ stored[Election] = Append(blocks[Election], Pending)
  BY PersistedRow
<1>2. ElectionOf[Vote] = Election
  BY DEF Election
<1>3. /\ DOMAIN stored[Election] = 1 .. Len(blocks[Election]) + 1
      /\ stored[Election][Len(blocks[Election]) + 1] = Pending
      /\ Len(blocks[Election]) \in Nat
  BY <1>1, AppendProperties
<1>4. CASE blocks[Election] = << >>
  <2>1. Pending.data = GenesisData /\ Pending.index = 0
    BY <1>4, <1>1 DEF Pending, BlockFor, Genesis
  <2> QED
    BY <1>2, <1>3, <1>4, <2>1, <1>1, GenesisIsNoVote DEF IsRecorded, GENESIS_INDEX
<1>5. CASE blocks[Election] # << >>
  <2>1. Pending.data = Vote /\ Pending.index # 0
    BY <1>5, <1>1 DEF Pending, BlockFor, NextBlock
  <2>2. \E k \in DOMAIN stored[Election] : stored[Election][k].data = Vote
    BY <1>3, <2>1
  <2> QED
    BY <1>2, <2>1, <2>2 DEF IsRecorded, GENESIS_INDEX
<1> QED
  BY <1>4, <1>5

LEMMA NextVerdictInv ==
    ASSUME MaxLostReplies = 0
    PROVE  AnswersInv /\ [Next]_vars => VerdictInv'
<1> SUFFICES ASSUME AnswersInv, [Next]_vars
             PROVE  VerdictInv'
  OBVIOUS
<1>1. /\ SyncedInv /\ TypeInv /\ TypeOK /\ QueueInv /\ RowsInv /\ VerdictInv
      /\ pc # "idle" => queue # << >>
  BY DEF AnswersInv, SyncedInv, TypeInv, TypeOK
<1>2. CASE Persist
  <2>1. /\ UNCHANGED <<verdict, queue>> /\ pc' = "persisted" /\ pc = "persisting"
        /\ Vote' = Vote
    BY <1>2 DEF Persist, Vote
  <2>2. \A v \in Votes : IsRecorded(v)' <=> \/ IsRecorded(v)
                                            \/ v = Vote /\ stored[Election] # << >>
    BY <1>1, <1>2, PersistRecords
  <2>3. verdict[Vote] = "waiting"
    BY <1>1, <2>1, RunningVote
  <2> QED
    BY <1>1, <2>1, <2>2, <2>3 DEF VerdictInv
<1>3. CASE UNCHANGED stored
  <2>1. \A v \in Votes : IsRecorded(v)' <=> IsRecorded(v)
    BY <1>3 DEF IsRecorded
  <2>2. ASSUME NEW v \in Votes, PostVote(v)
        PROVE  VerdictInv'
    <3>1. /\ verdict[v] = "unsent" /\ verdict'[v] = "waiting" /\ pc' = pc
          /\ \A u \in Votes : u # v => verdict'[u] = verdict[u]
          /\ pc = "persisted" => Vote' = Vote
      BY <1>1, <2>2, PostVoteKeepsHead DEF PostVote, TypeOK, Vote
    <3> QED
      BY <1>1, <2>1, <3>1 DEF VerdictInv
  <2>3. CASE Crash
    <3>1. \A v \in Votes : verdict'[v] = IF verdict[v] = "waiting" THEN "dropped"
                                                                ELSE verdict[v]
      BY <2>3 DEF Crash
    <3> QED
      BY <1>1, <2>1, <3>1 DEF VerdictInv
  <2>4. CASE Exit
    <3>1. queue = << >> /\ pc = "idle" /\ verdict' = verdict
      BY <1>1, <2>4 DEF Exit
    <3> QED
      BY <1>1, <2>1, <3>1 DEF VerdictInv
  <2>5. CASE UseFailedLoad \/ LoadFails \/ PersistFails
    <3>1. queue # << >> /\ pc # "persisted" /\ Finish("refused")
      BY <1>1, <2>5 DEF UseFailedLoad, LoadFails, PersistFails
    <3>2. ~IsRecorded(Vote)
      BY <1>1, <3>1, RefusedIsNotRecorded
    <3> QED
      BY <1>1, <1>3, <3>1, <3>2, FinishVerdicts
  <2>6. CASE Hold
    <3>1. pc = "persisted" /\ queue # << >>
      BY <1>1, <2>6 DEF Hold
    <3>2. CASE Pending.index = GENESIS_INDEX
      <4>1. verdict' = verdict /\ Vote' = Vote /\ ~IsRecorded(Vote)
        BY <1>1, <2>6, <3>1, <3>2, HoldAnswers DEF Hold, Vote
      <4> QED
        BY <1>1, <2>1, <4>1 DEF VerdictInv
    <3>3. CASE Pending.index # GENESIS_INDEX
      <4>1. Finish("accepted") /\ IsRecorded(Vote)
        BY <1>1, <2>6, <3>1, <3>3, HoldAnswers DEF Hold
      <4> QED
        BY <1>1, <1>3, <3>1, <4>1, FinishVerdicts
    <3> QED
      BY <3>2, <3>3
  <2>7. ~LoseReply
    BY <1>1 DEF LoseReply, TypeOK
  <2>8. CASE /\ UNCHANGED <<verdict, queue>>
             /\ pc' = pc \/ pc # "persisted"
    BY <1>1, <2>1, <2>8 DEF VerdictInv, Vote
  <2>9. Start \/ BeginStop \/ BeginLoad \/ UseChain \/ Load
          \/ (\E b \in outbox : Publish(b)) \/ UNCHANGED vars
          => /\ UNCHANGED <<verdict, queue>>
             /\ pc' = pc \/ pc # "persisted"
    BY DEF Start, BeginStop, BeginLoad, UseChain, Load, Publish, vars, memory
  <2> QED
    BY <1>2, <2>2, <2>3, <2>4, <2>5, <2>6, <2>7, <2>8, <2>9 DEF Next, CommitStep
<1>4. ~Persist => UNCHANGED stored
  BY DEF Next, CommitStep, vars, Start, BeginStop, Exit, Crash,
     PostVote, BeginLoad, UseChain, UseFailedLoad, Load, LoadFails,
     PersistFails, LoseReply, Hold, Publish
<1> QED
  BY <1>2, <1>3, <1>4

LEMMA InitAnswersInv == Init => AnswersInv
<1> SUFFICES ASSUME Init PROVE AnswersInv
  OBVIOUS
<1>1. QueueInv /\ RowsInv
  BY DEF Init, QueueInv, RowsInv
<1>2. VerdictInv
  BY ElectionOfType DEF Init, VerdictInv, IsRecorded
<1> QED
  BY <1>1, <1>2, InitSyncedInv DEF AnswersInv

LEMMA NextAnswersInv ==
    ASSUME MaxLostReplies = 0
    PROVE  AnswersInv /\ [Next]_vars => AnswersInv'
  BY NextSyncedInv, NextQueueInv, NextRowsInv, NextVerdictInv
  DEF AnswersInv, SyncedInv

(* A vote answered 202 is in its election's stored chain exactly once, and *)
(* one answered 409 is not there, for any number of elections, votes,      *)
(* restarts, crashes and storage calls that fail without effect.           *)
THEOREM AnswersStayTrue ==
    ASSUME MaxLostReplies = 0
    PROVE  Spec => []AnswersAreTrue
<1>1. ASSUME AnswersInv PROVE AnswersAreTrue
  <2> SUFFICES ASSUME NEW v \in Votes
               PROVE  /\ verdict[v] = "accepted" =>
                             \E k \in TimesStored(v) : TimesStored(v) = {k}
                      /\ verdict[v] \in {"unsent", "refused"} => TimesStored(v) = {}
    BY DEF AnswersAreTrue
  <2>1. ElectionOf[v] \in Elections
    BY ElectionOfType
  <2>2. /\ IsRecorded(v) <=> TimesStored(v) # {}
        /\ \A j, k \in TimesStored(v) : j = k
    BY <1>1, <2>1 DEF AnswersInv, RowsInv, IsRecorded, TimesStored
  <2>3. /\ verdict[v] = "accepted" => IsRecorded(v)
        /\ verdict[v] \in {"unsent", "refused"} => ~IsRecorded(v)
    BY <1>1 DEF AnswersInv, VerdictInv
  <2> QED
    BY <2>2, <2>3
<1> QED
  BY InitAnswersInv, NextAnswersInv, <1>1, PTL DEF Spec

-----------------------------------------------------------------------------
(* Publishing: everything handed to Pub/Sub is a stored row, and the chain *)
(* in memory has passed every block of it that was handed over.            *)

StoredRows ==
    {b \in Block : /\ b.index + 1 \in DOMAIN stored[b.electionId]
                   /\ stored[b.electionId][b.index + 1] = b}

PublishedInv ==
    /\ \A i \in DOMAIN published : published[i] \in StoredRows
    /\ \A i \in DOMAIN published :
           loaded[published[i].electionId] = "loaded" =>
               published[i].index < Len(blocks[published[i].electionId])
    /\ \A i, j \in DOMAIN published :
           i < j /\ published[i].electionId = published[j].electionId
               => published[i].index < published[j].index
    /\ outbox \subseteq StoredRows

PublicationInv == AnswersInv /\ PublishedInv

LEMMA BlockElection == \A b \in Block : b.electionId \in Elections
  BY DEF Block

LEMMA StepKeepsStored ==
    ASSUME AnswersInv, [Next]_vars
    PROVE  StoredRows \subseteq StoredRows'
<1> SUFFICES ASSUME NEW b \in Block, b \in StoredRows
             PROVE  b \in StoredRows'
  BY DEF StoredRows
<1>1. b.electionId \in Elections
  BY DEF Block
<1>2. CASE Persist
  <2>1. /\ Election \in Elections /\ stored[Election] \in Seq(Block)
        /\ Pending \in Block
        /\ stored'[Election] = Append(stored[Election], Pending)
        /\ \A e \in Elections \ {Election} : stored'[e] = stored[e]
    BY <1>2, PersistAppends DEF AnswersInv
  <2>2. CASE b.electionId = Election
    BY <2>1, <2>2, AppendProperties DEF StoredRows
  <2>3. CASE b.electionId # Election
    BY <1>1, <2>1, <2>3 DEF StoredRows
  <2> QED
    BY <2>2, <2>3
<1>3. CASE UNCHANGED stored
  BY <1>3 DEF StoredRows
<1> QED
  BY <1>2, <1>3 DEF Next, CommitStep, vars, Start, BeginStop, Exit, Crash,
     PostVote, BeginLoad, UseChain, UseFailedLoad, Load, LoadFails,
     PersistFails, LoseReply, Hold, Publish

LEMMA HoldPublishes ==
    ASSUME PublicationInv, Hold, StoredRows \subseteq StoredRows'
    PROVE  PublishedInv'
<1>1. /\ SyncedInv /\ TypeInv /\ TypeOK /\ RowsInv /\ PublishedInv
      /\ pc = "persisted"
  BY DEF PublicationInv, AnswersInv, SyncedInv, TypeInv, Hold
<1>2. /\ queue # << >> /\ Election \in Elections
      /\ loaded[Election] = "loaded"
      /\ blocks[Election] \in Seq(Block)
      /\ Pending \in Block /\ Pending.index = Len(blocks[Election])
      /\ stored[Election] = Append(blocks[Election], Pending)
  BY <1>1, PersistedRow
<1>3. PICK b \in Block : b = Pending
  BY <1>2
<1>4. PICK e \in Elections : e = Election
  BY <1>2
<1>5. /\ published' = Append(published, b) /\ outbox' = outbox \union {b}
      /\ stored' = stored /\ loaded' = loaded
  BY <1>3 DEF Hold
<1>6. /\ Len(blocks'[e]) = Len(blocks[e]) + 1
      /\ \A x \in Elections : x # e => blocks'[x] = blocks[x]
      /\ Len(blocks[e]) \in Nat
  <2>1. blocks' = [blocks EXCEPT ![e] = InsertInOrder(blocks[e], b)]
    BY <1>3, <1>4 DEF Hold
  <2>2. Len(InsertInOrder(blocks[e], b)) = Len(blocks[e]) + 1
    BY <1>1, <1>2, <1>3, <1>4, HeldBlocks
  <2> QED
    BY <2>1, <2>2, <1>1, <1>2, <1>4 DEF TypeOK
<1>7. b.electionId = e /\ b.index = Len(blocks[e]) /\ b \in StoredRows
  <2>1. /\ Len(blocks[e]) + 1 \in DOMAIN stored[e]
        /\ stored[e][Len(blocks[e]) + 1] = b
    BY <1>2, <1>3, <1>4, AppendProperties
  <2> QED
    BY <1>1, <1>2, <1>3, <1>4, <2>1 DEF RowsInv, RowFits, StoredRows
<1>8. /\ published \in Seq(Block) /\ Len(published) \in Nat
      /\ DOMAIN published = 1 .. Len(published)
      /\ DOMAIN published' = 1 .. Len(published) + 1
      /\ published'[Len(published) + 1] = b
      /\ \A i \in 1 .. Len(published) :
             published'[i] = published[i] /\ published[i] \in Block
  BY <1>1, <1>5, AppendProperties DEF TypeOK
<1>9. StoredRows' = StoredRows
  BY <1>5 DEF StoredRows
<1>10. \A i \in DOMAIN published' : published'[i] \in StoredRows'
  BY <1>1, <1>7, <1>8, <1>9 DEF PublishedInv
<1>11. outbox' \subseteq StoredRows'
  BY <1>1, <1>5, <1>7, <1>9 DEF PublishedInv, TypeOK
<1>12. \A i \in 1 .. Len(published) :
           /\ published[i].index \in Nat
           /\ published[i].electionId \in Elections
           /\ published[i].electionId = e => published[i].index < b.index
           /\ loaded[published[i].electionId] = "loaded" =>
                  published[i].index < Len(blocks[published[i].electionId])
  BY <1>1, <1>2, <1>4, <1>7, <1>8, BlockFields,
     BlockElection
  DEF PublishedInv
<1>13. ASSUME NEW i \in DOMAIN published',
              loaded'[published'[i].electionId] = "loaded"
       PROVE  published'[i].index < Len(blocks'[published'[i].electionId])
  <2>1. CASE i = Len(published) + 1
    BY <2>1, <1>6, <1>7, <1>8
  <2>2. CASE i # Len(published) + 1
    <3>1. i \in 1 .. Len(published) /\ published'[i] = published[i]
      BY <2>2, <1>8
    <3>2. CASE published[i].electionId = e
      BY <3>1, <3>2, <1>6, <1>7, <1>12
    <3>3. CASE published[i].electionId # e
      BY <3>1, <3>3, <1>5, <1>6, <1>12, <1>13
    <3> QED
      BY <3>2, <3>3
  <2> QED
    BY <2>1, <2>2
<1>14. ASSUME NEW i \in DOMAIN published', NEW j \in DOMAIN published', i < j,
              published'[i].electionId = published'[j].electionId
       PROVE  published'[i].index < published'[j].index
  <2>1. i \in 1 .. Len(published) /\ published'[i] = published[i]
    BY <1>8, <1>14
  <2>2. CASE j = Len(published) + 1
    BY <2>1, <2>2, <1>7, <1>8, <1>12, <1>14
  <2>3. CASE j # Len(published) + 1
    BY <2>1, <2>3, <1>1, <1>8, <1>14 DEF PublishedInv
  <2> QED
    BY <2>2, <2>3
<1> QED
  BY <1>10, <1>11, <1>13, <1>14 DEF PublishedInv

LEMMA NextPublishedInv ==
    ASSUME MaxLostReplies = 0
    PROVE  PublicationInv /\ [Next]_vars => PublishedInv'
<1> SUFFICES ASSUME PublicationInv, [Next]_vars
             PROVE  PublishedInv'
  OBVIOUS
<1>1. /\ AnswersInv /\ SyncedInv /\ TypeInv /\ TypeOK /\ PublishedInv
  BY DEF PublicationInv, AnswersInv, SyncedInv, TypeInv
<1>2. StoredRows \subseteq StoredRows'
  BY <1>1, StepKeepsStored
<1>3. /\ published \in Seq(Block)
      /\ \A i \in DOMAIN published :
             /\ published[i] \in Block
             /\ published[i].index \in Nat
             /\ published[i].electionId \in Elections
  <2>1. published \in Seq(Block) /\ \A i \in DOMAIN published : published[i] \in Block
    BY <1>1 DEF TypeOK
  <2> QED
    BY <2>1, BlockFields, BlockElection
<1>4. ASSUME UNCHANGED published, outbox' \subseteq outbox,
             \A e \in Elections : loaded'[e] = "loaded" =>
                 loaded[e] = "loaded" /\ blocks'[e] = blocks[e]
      PROVE  PublishedInv'
  <2>1. \A i \in DOMAIN published' : published'[i] \in StoredRows'
    BY <1>1, <1>2, <1>3, <1>4 DEF PublishedInv
  <2>2. outbox' \subseteq StoredRows'
    BY <1>1, <1>2, <1>3, <1>4 DEF PublishedInv
  <2>3. \A i \in DOMAIN published' :
            loaded'[published'[i].electionId] = "loaded" =>
                published'[i].index < Len(blocks'[published'[i].electionId])
    BY <1>1, <1>3, <1>4 DEF PublishedInv
  <2>4. \A i, j \in DOMAIN published' :
            i < j /\ published'[i].electionId = published'[j].electionId
                => published'[i].index < published'[j].index
    BY <1>1, <1>4 DEF PublishedInv
  <2> QED
    BY <2>1, <2>2, <2>3, <2>4 DEF PublishedInv
<1>5. CASE Hold
  BY <1>1, <1>2, <1>5, HoldPublishes
<1>6. CASE Load
  <2>1. PICK e \in Elections : e = Election
    BY <1>1, <1>6, CurrentVote DEF Load, TypeOK
  <2>2. /\ UNCHANGED <<published, outbox, stored>>
        /\ blocks'[e] = stored[e]
        /\ \A x \in Elections : x # e =>
               loaded'[x] = loaded[x] /\ blocks'[x] = blocks[x]
    BY <1>1, <1>6, <2>1 DEF Load, TypeOK
  <2>3. \A i \in DOMAIN published : published[i].electionId = e =>
            published[i].index < Len(stored[e])
    BY <1>1, <1>3 DEF PublishedInv, StoredRows, TypeOK
  <2>4. \A i \in DOMAIN published' :
            loaded'[published'[i].electionId] = "loaded" =>
                published'[i].index < Len(blocks'[published'[i].electionId])
    BY <1>1, <1>3, <2>2, <2>3 DEF PublishedInv
  <2> QED
    BY <1>1, <2>2, <2>4 DEF PublishedInv, StoredRows
<1>7. CASE Exit \/ Crash
  BY <1>4, <1>7 DEF Exit, Crash, Forget
<1>8. CASE LoadFails
  <2>1. \A e \in Elections : loaded'[e] = "loaded" => loaded[e] = "loaded"
    BY <1>1, <1>8 DEF LoadFails, TypeOK
  <2> QED
    BY <1>4, <1>8, <2>1 DEF LoadFails
<1>9. ~LoseReply
  BY <1>1 DEF LoseReply, TypeOK
<1>10. CASE Start \/ BeginStop \/ (\E v \in Votes : PostVote(v)) \/ BeginLoad
              \/ UseChain \/ UseFailedLoad \/ Persist \/ PersistFails
              \/ (\E b \in outbox : Publish(b)) \/ UNCHANGED vars
  <2>1. UNCHANGED <<published, loaded, blocks>> /\ outbox' \subseteq outbox
    BY <1>10 DEF Start, BeginStop, PostVote, BeginLoad, UseChain,
       UseFailedLoad, Persist, PersistFails, Publish, vars, memory
  <2> QED
    BY <1>4, <2>1
<1> QED
  BY <1>5, <1>6, <1>7, <1>8, <1>9, <1>10 DEF Next, CommitStep

LEMMA InitPublicationInv == Init => PublicationInv
  BY InitAnswersInv DEF Init, PublicationInv, PublishedInv

LEMMA NextPublicationInv ==
    ASSUME MaxLostReplies = 0
    PROVE  PublicationInv /\ [Next]_vars => PublicationInv'
  BY NextAnswersInv, NextPublishedInv DEF PublicationInv

(* Every published block is a stored one, none is published twice and each *)
(* election's are published in chain order, over any number of restarts,   *)
(* reloads and failed calls.                                               *)
THEOREM PublishingStaysInOrder ==
    ASSUME MaxLostReplies = 0
    PROVE  Spec => []PublishedOnceInOrder
<1>1. PublicationInv => PublishedOnceInOrder
  BY DEF PublicationInv, PublishedInv, StoredRows, PublishedOnceInOrder
<1> QED
  BY InitPublicationInv, NextPublicationInv, <1>1, PTL DEF Spec

-----------------------------------------------------------------------------
(* The ledger: a vote is in it when one of the rows carries it, and the    *)
(* insert of its block is the step that records it.                        *)

VotesOf(rows) ==
    [k \in 1 .. (IF rows = << >> THEN 0 ELSE Len(rows) - 1) |->
        rows[k + 1].data]

LEMMA VotesOfType ==
    ASSUME NEW rows \in Seq(Block)
    PROVE  /\ VotesOf(rows) \in Seq(Payload)
           /\ Len(VotesOf(rows)) = IF rows = << >> THEN 0 ELSE Len(rows) - 1
           /\ \A k \in 1 .. Len(VotesOf(rows)) :
                  VotesOf(rows)[k] = rows[k + 1].data
<1> DEFINE n == IF rows = << >> THEN 0 ELSE Len(rows) - 1
           d(k) == rows[k + 1].data
<1>1. n \in Nat
  OBVIOUS
<1>2. \A k \in 1 .. n : d(k) \in Payload
  <2>1. \A k \in 1 .. n : rows[k + 1] \in Block
    OBVIOUS
  <2> QED
    BY <2>1 DEF Block
<1>3. VotesOf(rows) = [k \in 1 .. n |-> d(k)]
  BY DEF VotesOf
<1> HIDE DEF n, d
<1>4. [k \in 1 .. n |-> d(k)] \in Seq(Payload)
  BY <1>1, <1>2, IsASeq
<1>5. Len([k \in 1 .. n |-> d(k)]) = n
  BY <1>1, <1>4
<1>6. \A k \in 1 .. n : VotesOf(rows)[k] = d(k)
  BY <1>3
<1> QED
  BY <1>3, <1>4, <1>5, <1>6 DEF n, d

LEMMA VotesOfAppend ==
    ASSUME NEW rows \in Seq(Block), NEW b \in Block
    PROVE  VotesOf(Append(rows, b)) =
               IF rows = << >> THEN VotesOf(rows)
                               ELSE Append(VotesOf(rows), b.data)
<1> DEFINE longer == Append(rows, b)
           n == Len(rows)
<1>1. /\ longer \in Seq(Block) /\ Len(longer) = n + 1 /\ n \in Nat
      /\ \A k \in 1 .. n : longer[k] = rows[k]
      /\ longer[n + 1] = b
      /\ longer # << >> /\ (rows = << >> <=> n = 0)
  BY AppendProperties
<1> HIDE DEF longer, n
<1>2. /\ VotesOf(longer) \in Seq(Payload) /\ Len(VotesOf(longer)) = n
      /\ \A k \in 1 .. n : VotesOf(longer)[k] = longer[k + 1].data
  <2>1. /\ VotesOf(longer) \in Seq(Payload)
        /\ Len(VotesOf(longer)) = IF longer = << >> THEN 0 ELSE Len(longer) - 1
        /\ \A k \in 1 .. Len(VotesOf(longer)) :
               VotesOf(longer)[k] = longer[k + 1].data
    BY <1>1, VotesOfType
  <2>2. Len(VotesOf(longer)) = n
    BY <1>1, <2>1
  <2> QED
    BY <2>1, <2>2
<1>3. /\ VotesOf(rows) \in Seq(Payload)
      /\ Len(VotesOf(rows)) = IF rows = << >> THEN 0 ELSE n - 1
      /\ \A k \in 1 .. Len(VotesOf(rows)) : VotesOf(rows)[k] = rows[k + 1].data
  BY VotesOfType DEF n
<1>4. CASE rows = << >>
  BY <1>1, <1>2, <1>3, <1>4, SeqEqual DEF longer
<1>5. CASE rows # << >>
  <2>1. b.data \in Payload /\ Len(VotesOf(rows)) = n - 1
    BY <1>3, <1>5 DEF Block
  <2> DEFINE votes == Append(VotesOf(rows), b.data)
  <2>2. /\ votes \in Seq(Payload) /\ Len(votes) = n
        /\ \A k \in 1 .. n - 1 : votes[k] = VotesOf(rows)[k]
        /\ votes[n] = b.data
    BY <1>1, <1>3, <2>1, AppendProperties
  <2> HIDE DEF votes
  <2>3. ASSUME NEW k \in 1 .. n PROVE VotesOf(longer)[k] = votes[k]
    <3>1. CASE k = n
      BY <3>1, <1>1, <1>2, <2>2
    <3>2. CASE k # n
      <4>1. k \in 1 .. n - 1 /\ k + 1 \in 1 .. n
        BY <3>2, <1>1
      <4>2. VotesOf(longer)[k] = rows[k + 1].data
        BY <4>1, <1>1, <1>2
      <4>3. votes[k] = rows[k + 1].data
        BY <4>1, <1>3, <2>1, <2>2
      <4> QED
        BY <4>2, <4>3
    <3> QED
      BY <3>1, <3>2
  <2>4. VotesOf(longer) = votes
    BY <1>1, <1>2, <2>2, <2>3, SeqEqual
  <2> QED
    BY <1>5, <2>4 DEF votes, longer
<1> QED
  BY <1>4, <1>5

LEMMA LedgerRecords ==
    ASSUME TypeOK, RowsInv, NEW v \in Votes
    PROVE  Ledger!IsRecorded(v) <=> IsRecorded(v)
<1> DEFINE e == ElectionOf[v]
<1>1. e \in Elections /\ stored[e] \in Seq(Block)
  BY ElectionOfType DEF TypeOK
<1>2. /\ StoredVotes(e) \in Seq(Payload)
      /\ Len(StoredVotes(e)) = IF stored[e] = << >> THEN 0 ELSE Len(stored[e]) - 1
      /\ \A k \in 1 .. Len(StoredVotes(e)) :
             StoredVotes(e)[k] = stored[e][k + 1].data
  BY <1>1, VotesOfType DEF StoredVotes, VotesOf
<1>3. Ledger!IsRecorded(v) <=> \E k \in DOMAIN StoredVotes(e) : StoredVotes(e)[k] = v
  BY <1>1 DEF Ledger!IsRecorded
<1>4. IsRecorded(v) <=> \E k \in DOMAIN stored[e] : stored[e][k].data = v
  BY DEF IsRecorded
<1> DEFINE rows == stored[e]
           votes == StoredVotes(e)
<1>5. /\ DOMAIN rows = 1 .. Len(rows) /\ Len(rows) \in Nat
      /\ DOMAIN votes = 1 .. Len(votes)
      /\ rows = << >> <=> Len(rows) = 0
  BY <1>1, <1>2
<1>6. 1 \in DOMAIN rows => rows[1].data # v
  BY <1>1, GenesisIsNoVote DEF RowsInv, RowFits
<1> HIDE DEF rows, votes, e
<1>7. ASSUME NEW k \in DOMAIN votes, votes[k] = v
      PROVE  k + 1 \in DOMAIN rows /\ rows[k + 1].data = v
  BY <1>2, <1>5, <1>7 DEF rows, votes
<1>8. ASSUME NEW k \in DOMAIN rows, rows[k].data = v
      PROVE  k - 1 \in DOMAIN votes /\ votes[k - 1] = v
  <2>1. k # 1 /\ k - 1 \in DOMAIN votes
    BY <1>2, <1>5, <1>6, <1>8 DEF rows, votes
  <2> QED
    BY <1>2, <1>5, <1>8, <2>1 DEF rows, votes
<1> QED
  BY <1>3, <1>4, <1>7, <1>8 DEF rows, votes

LEMMA PersistRefines ==
    ASSUME AnswersInv, Persist
    PROVE  Ledger!Record \/ UNCHANGED Ledger!vars
<1>1. /\ TypeOK /\ QueueInv /\ RowsInv /\ VerdictInv
      /\ UNCHANGED <<queue, verdict>> /\ pc # "persisted"
  BY DEF AnswersInv, SyncedInv, TypeInv, Persist
<1>2. /\ queue # << >> /\ Vote \in Votes /\ Election \in Elections
      /\ stored[Election] \in Seq(Block) /\ Pending \in Block
      /\ stored[Election] # << >> => Pending.data = Vote
      /\ stored'[Election] = Append(stored[Election], Pending)
      /\ \A e \in Elections \ {Election} : stored'[e] = stored[e]
  BY PersistAppends DEF AnswersInv
<1>3. PICK e \in Elections : e = Election
  BY <1>2
<1>4. \A x \in Elections : /\ StoredVotes(x) = VotesOf(stored[x])
                           /\ StoredVotes(x)' = VotesOf(stored'[x])
  BY DEF StoredVotes, VotesOf
<1>5. \A x \in Elections : x # e => StoredVotes(x)' = StoredVotes(x)
  BY <1>2, <1>3, <1>4
<1>6. StoredVotes(e)' = IF stored[e] = << >> THEN StoredVotes(e)
                                             ELSE Append(StoredVotes(e), Vote)
  BY <1>2, <1>3, <1>4, VotesOfAppend
<1>7. CASE stored[e] = << >>
  BY <1>1, <1>5, <1>6, <1>7 DEF Ledger!vars
<1>8. CASE stored[e] # << >>
  <2>1. ~Ledger!IsRecorded(Vote)
    BY <1>1, <1>2, RefusedIsNotRecorded, LedgerRecords
  <2>2. [x \in Elections |-> StoredVotes(x)'] =
            [[x \in Elections |-> StoredVotes(x)] EXCEPT
                ![Election] = Append(@, Vote)]
    BY <1>3, <1>5, <1>6, <1>8
  <2> QED
    BY <1>1, <1>2, <2>1, <2>2 DEF Ledger!Record, Vote, Election
<1> QED
  BY <1>7, <1>8

LEMMA FinishRefines ==
    ASSUME AnswersInv, queue # << >>, UNCHANGED stored,
           NEW answer \in {"accepted", "refused"}, Finish(answer),
           answer = "accepted" <=> IsRecorded(Vote)
    PROVE  Ledger!Answer(answer)
<1>1. TypeOK /\ RowsInv /\ Vote \in Votes
  BY CurrentVote DEF AnswersInv, SyncedInv, TypeInv
<1>2. Ledger!IsRecorded(Vote) <=> IsRecorded(Vote)
  BY <1>1, LedgerRecords
<1>3. \A e \in Elections : StoredVotes(e)' = StoredVotes(e)
  BY DEF StoredVotes
<1> QED
  BY <1>2, <1>3 DEF Finish, Ledger!Answer, Vote

LEMMA NextRefinesLedger ==
    ASSUME MaxLostReplies = 0
    PROVE  AnswersInv /\ [Next]_vars => [Ledger!Next]_(Ledger!vars)
<1> SUFFICES ASSUME AnswersInv, [Next]_vars
             PROVE  Ledger!Next \/ UNCHANGED Ledger!vars
  OBVIOUS
<1>1. /\ SyncedInv /\ TypeInv /\ TypeOK /\ QueueInv /\ RowsInv /\ VerdictInv
      /\ pc # "idle" => queue # << >>
  BY DEF AnswersInv, SyncedInv, TypeInv, TypeOK
<1>2. CASE Persist
  BY <1>2, PersistRefines DEF Ledger!Next
<1>3. ~Persist => UNCHANGED stored
  BY DEF Next, CommitStep, vars, Start, BeginStop, Exit, Crash,
     PostVote, BeginLoad, UseChain, UseFailedLoad, Load, LoadFails,
     PersistFails, LoseReply, Hold, Publish
<1>4. CASE UNCHANGED stored
  <2>1. \A e \in Elections : StoredVotes(e)' = StoredVotes(e)
    BY <1>4 DEF StoredVotes
  <2>2. ASSUME NEW v \in Votes, PostVote(v)
        PROVE  Ledger!Next
    BY <2>1, <2>2 DEF PostVote, Ledger!Receive, Ledger!Next
  <2>3. CASE Crash
    BY <2>1, <2>3 DEF Crash, Forget, Ledger!Stop, Ledger!Next
  <2>4. CASE Exit
    BY <2>1, <2>4 DEF Exit, Forget, Ledger!vars
  <2>5. CASE UseFailedLoad \/ LoadFails \/ PersistFails
    <3>1. queue # << >> /\ pc # "persisted" /\ Finish("refused")
      BY <1>1, <2>5 DEF UseFailedLoad, LoadFails, PersistFails
    <3>2. ~IsRecorded(Vote)
      BY <1>1, <3>1, RefusedIsNotRecorded
    <3>3. Ledger!Answer("refused")
      BY <1>4, <3>1, <3>2, FinishRefines
    <3> QED
      BY <3>3 DEF Ledger!Next
  <2>6. CASE Hold
    <3>1. pc = "persisted" /\ queue # << >>
      BY <1>1, <2>6 DEF Hold
    <3>2. CASE Pending.index = GENESIS_INDEX
      BY <2>1, <2>6, <3>2 DEF Hold, Ledger!vars
    <3>3. CASE Pending.index # GENESIS_INDEX
      <4>1. Finish("accepted") /\ IsRecorded(Vote)
        BY <1>1, <2>6, <3>1, <3>3, HoldAnswers DEF Hold
      <4>2. Ledger!Answer("accepted")
        BY <1>4, <3>1, <4>1, FinishRefines
      <4> QED
        BY <4>2 DEF Ledger!Next
    <3> QED
      BY <3>2, <3>3
  <2>7. ~LoseReply
    BY <1>1 DEF LoseReply, TypeOK
  <2>8. Start \/ BeginStop \/ BeginLoad \/ UseChain \/ Load
          \/ (\E b \in outbox : Publish(b)) \/ UNCHANGED vars
          => UNCHANGED <<verdict, queue>>
    BY DEF Start, BeginStop, BeginLoad, UseChain, Load, Publish, vars, memory
  <2>9. CASE UNCHANGED <<verdict, queue>>
    BY <2>1, <2>9 DEF Ledger!vars
  <2> QED
    BY <1>2, <2>2, <2>3, <2>4, <2>5, <2>6, <2>7, <2>8, <2>9 DEF Next, CommitStep
<1> QED
  BY <1>2, <1>3, <1>4

LEMMA InitRefinesLedger == Init => Ledger!Init
<1> SUFFICES ASSUME Init PROVE Ledger!Init
  OBVIOUS
<1>1. VotesOf(<< >>) = << >>
  <2>1. << >> \in Seq(Block)
    OBVIOUS
  <2>2. VotesOf(<< >>) \in Seq(Payload) /\ Len(VotesOf(<< >>)) = 0
    BY <2>1, VotesOfType
  <2> QED
    BY <2>2
<1>2. \A e \in Elections : StoredVotes(e) = << >>
  BY <1>1 DEF Init, StoredVotes, VotesOf
<1> QED
  BY <1>2 DEF Init, Ledger!Init

(* The master implements the ledger, whatever is restarted, crashes or     *)
(* fails without effect: the insert of a vote's row records it, its answer *)
(* is the ledger's answer, everything else is a stuttering step.           *)
THEOREM MasterImplementsLedger ==
    ASSUME MaxLostReplies = 0
    PROVE  Spec => ImplementsLedger
<1>1. Spec => []AnswersInv
  BY InitAnswersInv, NextAnswersInv, PTL DEF Spec
<1> QED
  BY <1>1, InitRefinesLedger, NextRefinesLedger, PTL
  DEF Spec, ImplementsLedger, Ledger!Spec

-----------------------------------------------------------------------------
(* What the workers build on: the stored rows, as a reader sees them.      *)

LEMMA WhatIsStored ==
    ASSUME PublicationInv
    PROVE  /\ outbox \subseteq StoredRows
           /\ \A e \in Elections :
                  /\ stored[e] \in Seq(Block) /\ ChainIsValid(stored[e])
                  /\ \A k \in DOMAIN stored[e] :
                         /\ stored[e][k] \in StoredRows
                         /\ stored[e][k].electionId = e
           /\ \A b \in StoredRows :
                  /\ b \in Block /\ IsValid(b)
                  /\ b.index + 1 \in DOMAIN stored[b.electionId]
                  /\ stored[b.electionId][b.index + 1] = b
                  /\ b.index = 0 => b.data = GenesisData
<1>1. /\ TypeOK /\ Shape /\ StoredChainsLinked /\ RowsInv /\ PublishedInv
  BY DEF PublicationInv, AnswersInv, SyncedInv, TypeInv
<1>2. ASSUME NEW e \in Elections
      PROVE  /\ stored[e] \in Seq(Block) /\ ChainIsValid(stored[e])
             /\ Gapless(stored[e])
  BY <1>1, <1>2 DEF TypeOK, Shape, StoredChainsLinked
<1>3. ASSUME NEW e \in Elections, NEW k \in DOMAIN stored[e]
      PROVE  /\ stored[e][k] \in StoredRows
             /\ stored[e][k].electionId = e
  <2>1. stored[e][k] \in Block /\ k \in Nat
    BY <1>2
  <2>2. stored[e][k].index = k - 1 /\ stored[e][k].electionId = e
    BY <1>1, <1>2 DEF Gapless, RowsInv, RowFits
  <2>3. stored[e][k].index + 1 = k
    BY <2>1, <2>2
  <2> QED
    BY <2>1, <2>2, <2>3 DEF StoredRows
<1>4. ASSUME NEW b \in StoredRows
      PROVE  /\ b \in Block /\ IsValid(b)
             /\ b.index + 1 \in DOMAIN stored[b.electionId]
             /\ stored[b.electionId][b.index + 1] = b
             /\ b.index = 0 => b.data = GenesisData
  <2>1. /\ b \in Block /\ b.electionId \in Elections
        /\ b.index + 1 \in DOMAIN stored[b.electionId]
        /\ stored[b.electionId][b.index + 1] = b
    BY BlockElection DEF StoredRows
  <2>2. IsValid(b)
    BY <1>1, <2>1 DEF StoredChainsLinked, ChainIsValid
  <2>3. b.index = 0 => b.data = GenesisData
    BY <1>1, <2>1 DEF RowsInv, RowFits
  <2> QED
    BY <2>1, <2>2, <2>3
<1> QED
  BY <1>1, <1>2, <1>3, <1>4 DEF PublishedInv

=============================================================================
