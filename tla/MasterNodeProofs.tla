-------------------------- MODULE MasterNodeProofs --------------------------
(***************************************************************************)
(* Theorems about MasterNode, for any elections, votes and bounds.         *)
(*                                                                         *)
(* The type invariant is not inductive alone: that a persisted block lands *)
(* at the end of the rows needs the chain in memory and the rows to be     *)
(* gapless and the rows never to be the shorter of the two (Shape).  The   *)
(* two main results rest on a second strengthening, SyncedInv: memory and  *)
(* storage agree except for the row a running commit has just persisted.   *)
(***************************************************************************)
EXTENDS MasterNode, BlockChainProofs

Shape ==
    /\ \A e \in Elections : /\ Gapless(stored[e])
                            /\ Gapless(blocks[e])
                            /\ Len(blocks[e]) <= Len(stored[e])
    /\ pc = "persisted" => Len(blocks[Election]) < Len(stored[Election])

TypeInv == TypeOK /\ Shape

-----------------------------------------------------------------------------

LEMMA CurrentVote ==
    ASSUME TypeOK, queue # << >>
    PROVE  /\ Vote \in Votes
           /\ Election \in Elections
           /\ Tail(queue) \in Seq(Votes)
           /\ blocks[Election] \in Seq(Block)
           /\ stored[Election] \in Seq(Block)
<1>1. Vote \in Votes /\ Tail(queue) \in Seq(Votes)
  BY HeadTailProperties DEF TypeOK, Vote
<1>2. Election \in Elections
  BY <1>1, ElectionOfType DEF Election
<1> QED
  BY <1>1, <1>2 DEF TypeOK

LEMMA PendingBlock ==
    ASSUME TypeInv, queue # << >>
    PROVE  Pending \in Block /\ Pending.index = Len(blocks[Election])
  BY CurrentVote, BlockForType DEF TypeInv, Shape, Pending

LEMMA InitTypeInv == Init => TypeInv
  BY DEF Init, TypeInv, TypeOK, Shape, Gapless

LEMMA FinishType ==
    ASSUME TypeOK, queue # << >>, NEW answer \in {"accepted", "refused"},
           Finish(answer)
    PROVE  /\ queue' \in Seq(Votes)
           /\ pc' = "idle"
           /\ verdict' \in [Votes -> {"unsent", "waiting", "accepted",
                                      "refused", "dropped"}]
  BY CurrentVote DEF Finish, TypeOK

LEMMA PostVoteKeepsHead ==
    ASSUME TypeOK, NEW v \in Votes, PostVote(v)
    PROVE  /\ queue' \in Seq(Votes)
           /\ queue' # << >>
           /\ queue # << >> => Head(queue') = Head(queue)
  BY AppendProperties DEF PostVote, TypeOK

(* What the insert of the pending block does to the rows: either they were *)
(* as long as the chain in memory and it is appended, or they were longer  *)
(* and nothing happens.                                                    *)
LEMMA PersistRows ==
    ASSUME TypeInv, queue # << >>
    PROVE  LET rows == StorageAppend(stored[Election], Pending)
           IN  /\ rows \in Seq(Block)
               /\ Gapless(rows)
               /\ Len(blocks[Election]) < Len(rows)
               /\ Len(stored[Election]) = Len(blocks[Election])
                      => rows = Append(stored[Election], Pending)
<1> DEFINE rows == stored[Election]
           held == blocks[Election]
<1>1. /\ rows \in Seq(Block) /\ held \in Seq(Block)
      /\ Gapless(rows) /\ Len(held) <= Len(rows)
      /\ Len(held) \in Nat /\ Len(rows) \in Nat
      /\ DOMAIN rows = 1 .. Len(rows)
  BY CurrentVote DEF TypeInv, Shape
<1>2. Pending \in Block /\ Pending.index = Len(held)
  BY PendingBlock
<1> HIDE DEF rows, held
<1>3. CASE Len(rows) = Len(held)
  <2>1. /\ InsertInOrder(rows, Pending) = Append(rows, Pending)
        /\ Append(rows, Pending) \in Seq(Block)
        /\ Len(Append(rows, Pending)) = Len(rows) + 1
        /\ Gapless(Append(rows, Pending))
        /\ ~Has(rows, Pending.index)
    BY <1>1, <1>2, <1>3, InsertIntoGapless
  <2>2. StorageAppend(rows, Pending) = Append(rows, Pending)
    BY <2>1 DEF StorageAppend
  <2> QED
    BY <1>1, <1>3, <2>1, <2>2 DEF rows, held
<1>4. CASE Len(held) < Len(rows)
  <2>1. Len(held) + 1 \in DOMAIN rows
    BY <1>1, <1>4
  <2>2. rows[Len(held) + 1].index = Len(held)
    BY <2>1, <1>1 DEF Gapless
  <2>3. Has(rows, Pending.index)
    BY <2>1, <2>2, <1>2 DEF Has
  <2> QED
    BY <2>3, <1>1, <1>4 DEF StorageAppend, rows, held
<1> QED
  BY <1>1, <1>3, <1>4

(* Holding the pending block appends it to the chain in memory.            *)
LEMMA HeldBlocks ==
    ASSUME TypeInv, queue # << >>
    PROVE  LET longer == InsertInOrder(blocks[Election], Pending)
           IN  /\ longer = Append(blocks[Election], Pending)
               /\ longer \in Seq(Block)
               /\ Gapless(longer)
               /\ Len(longer) = Len(blocks[Election]) + 1
  BY CurrentVote, PendingBlock, InsertIntoGapless DEF TypeInv, Shape

LEMMA NextTypeInv == TypeInv /\ [Next]_vars => TypeInv'
<1> SUFFICES ASSUME TypeInv, [Next]_vars
             PROVE  TypeInv'
  OBVIOUS
<1> USE DEF TypeInv
<1>1. CASE Start
  BY <1>1 DEF Start, TypeOK, Shape, memory, bounds, Election, Vote
<1>2. CASE BeginStop
  BY <1>2 DEF BeginStop, TypeOK, Shape, memory, bounds, Election, Vote
<1>3. CASE Exit
  BY <1>3 DEF Exit, Forget, TypeOK, Shape, bounds, Gapless
<1>4. CASE Crash
  BY <1>4 DEF Crash, Forget, TypeOK, Shape, bounds, Gapless
<1>5. ASSUME NEW v \in Votes, PostVote(v)
      PROVE  TypeInv'
  <2>1. TypeOK'
    BY <1>5, PostVoteKeepsHead DEF PostVote, TypeOK, bounds
  <2>2. pc = "persisted" => Election' = Election
    BY <1>5, PostVoteKeepsHead DEF TypeOK, Election, Vote
  <2>3. Shape'
    BY <1>5, <2>2 DEF PostVote, Shape
  <2> QED
    BY <2>1, <2>3
<1>6. CASE BeginLoad
  BY <1>6 DEF BeginLoad, TypeOK, Shape, bounds, Election, Vote
<1>7. CASE UseChain
  BY <1>7 DEF UseChain, TypeOK, Shape, bounds, Election, Vote
<1>8. CASE UseFailedLoad
  BY <1>8, FinishType DEF UseFailedLoad, TypeOK, Shape, bounds
<1>9. CASE Load
  <2>1. Election \in Elections /\ queue # << >>
    BY <1>9, CurrentVote DEF Load, TypeOK
  <2> QED
    BY <1>9, <2>1 DEF Load, TypeOK, Shape, bounds
<1>10. CASE LoadFails
  <2>1. queue # << >>
    BY <1>10 DEF LoadFails, TypeOK
  <2>2. loaded' \in [Elections -> {"absent", "loaded", "failed"}]
    BY <1>10 DEF LoadFails, TypeOK
  <2> QED
    BY <1>10, <2>1, <2>2, FinishType DEF LoadFails, TypeOK, Shape, bounds
<1>11. CASE Persist
  <2>1. Election \in Elections /\ queue # << >>
    BY <1>11, CurrentVote DEF Persist, TypeOK
  <2>2. Election' = Election
    BY <1>11 DEF Persist, Election, Vote
  <2>3. stored' = [stored EXCEPT ![Election] =
                       StorageAppend(stored[Election], Pending)]
    BY <1>11 DEF Persist
  <2>4. TypeOK'
    BY <1>11, <2>1, <2>3, PersistRows DEF Persist, TypeOK, bounds
  <2>5. Shape'
    <3>1. \A e \in Elections \ {Election} :
              stored'[e] = stored[e] /\ blocks'[e] = blocks[e]
      BY <1>11, <2>3 DEF Persist, TypeOK
    <3>2. stored'[Election] = StorageAppend(stored[Election], Pending)
          /\ blocks' = blocks
      BY <1>11, <2>1, <2>3 DEF Persist, TypeOK
    <3>3. /\ Gapless(stored'[Election])
          /\ Len(blocks'[Election]) < Len(stored'[Election])
      BY <3>2, <2>1, PersistRows
    <3>4. Len(blocks'[Election]) \in Nat /\ Len(stored'[Election]) \in Nat
      BY <2>1, <2>4 DEF TypeOK
    <3> QED
      BY <3>1, <3>2, <3>3, <3>4, <2>1, <2>2 DEF Shape
  <2> QED
    BY <2>4, <2>5
<1>12. CASE PersistFails
  BY <1>12, FinishType DEF PersistFails, TypeOK, Shape, bounds
<1>13. CASE LoseReply
  BY <1>13, FinishType DEF LoseReply, TypeOK, Shape, bounds
<1>14. CASE Hold
  <2>1. Election \in Elections /\ queue # << >> /\ Pending \in Block
    BY <1>14, CurrentVote, PendingBlock DEF Hold, TypeOK
  <2>2. blocks' = [blocks EXCEPT ![Election] =
                       InsertInOrder(blocks[Election], Pending)]
    BY <1>14 DEF Hold
  <2>3. /\ queue' \in Seq(Votes) /\ pc' \in {"idle", "persisting"}
        /\ verdict' \in [Votes -> {"unsent", "waiting", "accepted",
                                   "refused", "dropped"}]
        /\ pc' # "idle" => queue' # << >>
    <3>1. CASE Pending.index = GENESIS_INDEX
      BY <1>14, <3>1, <2>1 DEF Hold, TypeOK
    <3>2. CASE Pending.index # GENESIS_INDEX
      BY <1>14, <3>2, <2>1, FinishType DEF Hold
    <3> QED
      BY <3>1, <3>2
  <2>4. published' \in Seq(Block) /\ outbox' \subseteq Block
    BY <1>14, <2>1, AppendProperties DEF Hold, TypeOK
  <2>5. blocks' \in [Elections -> Seq(Block)]
    BY <2>1, <2>2, HeldBlocks DEF TypeOK
  <2>6. TypeOK'
    BY <1>14, <2>3, <2>4, <2>5 DEF Hold, TypeOK, bounds
  <2>7. Shape'
    <3>1. \A e \in Elections \ {Election} : blocks'[e] = blocks[e]
      BY <2>2 DEF TypeOK
    <3>2. blocks'[Election] = InsertInOrder(blocks[Election], Pending)
      BY <2>1, <2>2 DEF TypeOK
    <3>3. /\ Gapless(blocks'[Election])
          /\ Len(blocks'[Election]) = Len(blocks[Election]) + 1
      BY <3>2, <2>1, HeldBlocks
    <3>4. /\ pc = "persisted" /\ stored' = stored
          /\ Len(blocks[Election]) \in Nat /\ Len(stored[Election]) \in Nat
      BY <1>14, <2>1 DEF Hold, TypeOK
    <3> QED
      BY <3>1, <3>3, <3>4, <2>3, <2>1 DEF Shape
  <2> QED
    BY <2>6, <2>7
<1>15. ASSUME NEW b \in outbox, Publish(b)
       PROVE  TypeInv'
  BY <1>15 DEF Publish, TypeOK, Shape, bounds, Election, Vote
<1>16. CASE UNCHANGED vars
  BY <1>16 DEF vars, TypeOK, Shape, memory, bounds, Election, Vote
<1> QED
  BY <1>1, <1>2, <1>3, <1>4, <1>5, <1>6, <1>7, <1>8, <1>9, <1>10, <1>11, <1>12,
     <1>13, <1>14, <1>15, <1>16 DEF Next, CommitStep

(* The state stays well typed whatever fails, stops or is lost, and no     *)
(* election's rows or chain in memory ever have a gap.                     *)
THEOREM TypeCorrect == Spec => []TypeOK
<1>1. TypeInv => TypeOK
  BY DEF TypeInv
<1> QED
  BY InitTypeInv, NextTypeInv, <1>1, PTL DEF Spec

-----------------------------------------------------------------------------
(* The rows of one election are extended at their end or left alone.       *)

LEMMA PersistExtends ==
    ASSUME TypeInv, queue # << >>, NEW e \in Elections,
           stored' = [stored EXCEPT ![Election] =
                          StorageAppend(stored[Election], Pending)]
    PROVE  stored'[e] = stored[e] \/ \E b \in Block : stored'[e] = Append(stored[e], b)
<1>1. CASE e # Election
  BY <1>1 DEF TypeInv, TypeOK
<1>2. CASE e = Election
  <2>1. stored'[e] = StorageAppend(stored[e], Pending)
    BY <1>2, CurrentVote DEF TypeInv, TypeOK
  <2>2. CASE Has(stored[e], Pending.index)
    BY <2>1, <2>2 DEF StorageAppend
  <2>3. CASE ~Has(stored[e], Pending.index)
    <3>1. /\ stored[e] \in Seq(Block) /\ Gapless(stored[e])
          /\ Len(blocks[e]) <= Len(stored[e]) /\ Len(blocks[e]) \in Nat
      BY DEF TypeInv, TypeOK, Shape
    <3>2. Pending \in Block /\ Pending.index = Len(blocks[e])
      BY <1>2, PendingBlock
    <3>3. Len(stored[e]) = Len(blocks[e])
      <4>1. SUFFICES ASSUME Len(blocks[e]) < Len(stored[e]) PROVE FALSE
        BY <3>1
      <4>2. Len(blocks[e]) + 1 \in DOMAIN stored[e]
        BY <3>1, <4>1
      <4> QED
        BY <2>3, <3>1, <3>2, <4>2 DEF Gapless, Has
    <3> QED
      BY <2>1, <1>2, <3>2, <3>3, PersistRows
  <2> QED
    BY <2>2, <2>3
<1> QED
  BY <1>1, <1>2

LEMMA AppendKeepsPrefix ==
    ASSUME NEW rows \in Seq(Block), NEW b \in Block
    PROVE  /\ Len(rows) <= Len(Append(rows, b))
           /\ rows = SubSeq(Append(rows, b), 1, Len(rows))
<1> DEFINE longer == Append(rows, b)
<1>1. /\ longer \in Seq(Block) /\ Len(longer) = Len(rows) + 1
      /\ \A k \in 1 .. Len(rows) : longer[k] = rows[k]
      /\ Len(rows) \in Nat
  BY AppendProperties
<1> HIDE DEF longer
<1>2. \A k \in 1 .. Len(rows) : longer[k] \in Block
  BY <1>1
<1>3. /\ SubSeq(longer, 1, Len(rows)) \in Seq(Block)
      /\ Len(SubSeq(longer, 1, Len(rows))) = Len(rows)
      /\ \A k \in 1 .. Len(rows) : SubSeq(longer, 1, Len(rows))[k] = longer[k]
  BY <1>1, <1>2, SubSeqProperties
<1>4. rows = SubSeq(longer, 1, Len(rows))
  BY <1>1, <1>3, SeqEqual
<1> QED
  BY <1>1, <1>4 DEF longer

LEMMA NextStoredGrows ==
    ASSUME TypeInv, [Next]_vars, NEW e \in Elections
    PROVE  /\ Len(stored[e]) <= Len(stored'[e])
           /\ stored[e] = SubSeq(stored'[e], 1, Len(stored[e]))
<1>1. stored[e] \in Seq(Block) /\ Len(stored[e]) \in Nat
  BY DEF TypeInv, TypeOK
<1>2. CASE Persist
  <2>1. queue # << >>
    BY <1>2 DEF Persist, TypeInv, TypeOK
  <2>2. stored'[e] = stored[e] \/ \E b \in Block : stored'[e] = Append(stored[e], b)
    BY <1>2, <2>1, PersistExtends DEF Persist
  <2>3. CASE stored'[e] = stored[e]
    BY <2>3, <1>1, SubSeqFull
  <2>4. CASE \E b \in Block : stored'[e] = Append(stored[e], b)
    BY <2>4, <1>1, AppendKeepsPrefix
  <2> QED
    BY <2>2, <2>3, <2>4
<1>3. CASE UNCHANGED stored
  BY <1>1, <1>3, SubSeqFull
<1>4. ~Persist => UNCHANGED stored
  BY DEF Next, CommitStep, vars, Start, BeginStop, Exit, Crash, PostVote,
         BeginLoad, UseChain, UseFailedLoad, Load, LoadFails, PersistFails,
         LoseReply, Hold, Publish
<1> QED
  BY <1>2, <1>3, <1>4

(* Whatever fails, stops or is lost, a chain export is always a prefix of  *)
(* every later one: no stored row is removed, replaced or moved.           *)
THEOREM StoredGrows == Spec => StoredOnlyGrows
<1>1. TypeInv /\ [Next]_vars =>
          [\A e \in Elections :
               /\ Len(stored[e]) <= Len(stored'[e])
               /\ stored[e] = SubSeq(stored'[e], 1, Len(stored[e]))]_stored
  BY NextStoredGrows
<1> QED
  BY InitTypeInv, NextTypeInv, <1>1, PTL DEF Spec, StoredOnlyGrows

-----------------------------------------------------------------------------
(* As long as no insert succeeds behind a reported error, memory and       *)
(* storage stay in step, so every block is built on the stored tip.        *)

SyncedInv ==
    /\ TypeInv
    /\ MemoryAgreesWithStorage
    /\ StoredChainsLinked
    /\ pc \in {"persisting", "persisted"} => loaded[Election] = "loaded"

LEMMA InitSyncedInv == Init => SyncedInv
  BY InitTypeInv DEF Init, SyncedInv, MemoryAgreesWithStorage,
                     StoredChainsLinked, ChainIsValid

LEMMA PersistSynced == SyncedInv /\ Persist => SyncedInv'
<1> SUFFICES ASSUME SyncedInv, Persist
             PROVE  SyncedInv'
  OBVIOUS
<1>1. TypeInv' /\ TypeInv
  BY NextTypeInv DEF SyncedInv, Next, CommitStep
<1>2. /\ queue # << >> /\ Election \in Elections /\ Vote \in Votes
      /\ Election' = Election /\ Pending' = Pending
      /\ loaded' = loaded /\ blocks' = blocks
      /\ pc' = "persisted"
  BY <1>1, CurrentVote DEF Persist, TypeInv, TypeOK, Election, Vote, Pending
<1>3. loaded[Election] = "loaded" /\ stored[Election] = blocks[Election]
  BY <1>2 DEF SyncedInv, Persist, MemoryAgreesWithStorage
<1>4. stored' = [stored EXCEPT ![Election] = Append(blocks[Election], Pending)]
  <2>1. StorageAppend(stored[Election], Pending) = Append(stored[Election], Pending)
    BY <1>1, <1>2, <1>3, PersistRows
  <2> QED
    BY <1>3, <2>1 DEF Persist
<1>5. /\ stored'[Election] = Append(blocks[Election], Pending)
      /\ \A e \in Elections : e # Election => stored'[e] = stored[e]
  BY <1>1, <1>2, <1>4 DEF TypeInv, TypeOK
<1>6. MemoryAgreesWithStorage'
  BY <1>2, <1>5 DEF SyncedInv, MemoryAgreesWithStorage, Persist
<1>7. StoredChainsLinked'
  <2>1. ChainIsValid(Append(blocks[Election], Pending))
    BY <1>1, <1>2, <1>3, BlockForExtends
    DEF SyncedInv, StoredChainsLinked, Pending, TypeInv, TypeOK
  <2> QED
    BY <1>5, <2>1 DEF SyncedInv, StoredChainsLinked
<1> QED
  BY <1>1, <1>2, <1>3, <1>6, <1>7 DEF SyncedInv

LEMMA HoldSynced == SyncedInv /\ Hold => SyncedInv'
<1> SUFFICES ASSUME SyncedInv, Hold
             PROVE  SyncedInv'
  OBVIOUS
<1>1. TypeInv' /\ TypeInv
  BY NextTypeInv DEF SyncedInv, Next, CommitStep
<1>2. /\ queue # << >> /\ Election \in Elections
      /\ pc = "persisted" /\ stored' = stored /\ loaded' = loaded
  BY <1>1, CurrentVote DEF Hold, TypeInv, TypeOK
<1>3. loaded[Election] = "loaded"
      /\ stored[Election] = Append(blocks[Election], Pending)
  BY <1>2 DEF SyncedInv, MemoryAgreesWithStorage
<1>4. /\ blocks'[Election] = stored[Election]
      /\ \A e \in Elections : e # Election => blocks'[e] = blocks[e]
  <2>1. blocks' = [blocks EXCEPT ![Election] = Append(blocks[Election], Pending)]
    BY <1>1, <1>2, HeldBlocks DEF Hold
  <2> QED
    BY <1>1, <1>2, <1>3, <2>1 DEF TypeInv, TypeOK
<1>5. pc' # "persisted" /\ (pc' = "persisting" => Election' = Election)
  BY DEF Hold, Finish, Election, Vote
<1>6. MemoryAgreesWithStorage'
  BY <1>2, <1>4, <1>5 DEF SyncedInv, MemoryAgreesWithStorage
<1> QED
  BY <1>1, <1>2, <1>3, <1>5, <1>6 DEF SyncedInv, StoredChainsLinked

LEMMA NextSyncedInv ==
    ASSUME MaxLostReplies = 0
    PROVE  SyncedInv /\ [Next]_vars => SyncedInv'
<1> SUFFICES ASSUME SyncedInv, [Next]_vars
             PROVE  SyncedInv'
  OBVIOUS
<1>1. TypeInv' /\ TypeInv
  BY NextTypeInv DEF SyncedInv
<1> USE DEF MemoryAgreesWithStorage, StoredChainsLinked
<1>2. CASE Start \/ BeginStop
  BY <1>1, <1>2 DEF Start, BeginStop, SyncedInv, memory, bounds, Election, Vote,
                    Pending
<1>3. CASE Exit \/ Crash
  BY <1>1, <1>3 DEF Exit, Crash, Forget, SyncedInv
<1>4. ASSUME NEW v \in Votes, PostVote(v)
      PROVE  SyncedInv'
  <2>1. pc # "idle" => Vote' = Vote
    BY <1>1, <1>4, PostVoteKeepsHead DEF TypeInv, TypeOK, Vote
  <2>2. pc # "idle" => Election' = Election /\ Pending' = Pending
    BY <2>1, <1>4 DEF PostVote, Election, Pending
  <2> QED
    BY <1>1, <1>4, <2>2 DEF PostVote, SyncedInv, TypeInv, TypeOK
<1>5. CASE BeginLoad \/ UseChain
  BY <1>1, <1>5 DEF BeginLoad, UseChain, SyncedInv, Election, Vote
<1>6. CASE UseFailedLoad \/ PersistFails
  BY <1>1, <1>6 DEF UseFailedLoad, PersistFails, Finish, SyncedInv
<1>7. CASE Load
  <2>1. /\ Election \in Elections /\ Election' = Election
        /\ pc = "loading" /\ pc' = "persisting" /\ stored' = stored
    BY <1>1, <1>7, CurrentVote DEF Load, TypeInv, TypeOK, Election, Vote
  <2>2. /\ loaded'[Election] = "loaded" /\ blocks'[Election] = stored[Election]
        /\ \A e \in Elections : e # Election =>
               loaded'[e] = loaded[e] /\ blocks'[e] = blocks[e]
    BY <1>1, <1>7, <2>1 DEF Load, TypeInv, TypeOK
  <2> QED
    BY <1>1, <2>1, <2>2 DEF SyncedInv
<1>8. CASE LoadFails
  <2>1. /\ pc = "loading" /\ pc' = "idle" /\ stored' = stored /\ blocks' = blocks
        /\ \A e \in Elections : loaded'[e] = "loaded" => loaded[e] = "loaded"
    BY <1>1, <1>8 DEF LoadFails, Finish, TypeInv, TypeOK
  <2> QED
    BY <1>1, <2>1 DEF SyncedInv
<1>9. CASE Persist
  BY <1>9, PersistSynced
<1>10. ~LoseReply
  BY <1>1 DEF LoseReply, TypeInv, TypeOK
<1>11. CASE Hold
  BY <1>11, HoldSynced
<1>12. ASSUME NEW b \in outbox, Publish(b)
       PROVE  SyncedInv'
  BY <1>1, <1>12 DEF Publish, SyncedInv, Election, Vote, Pending
<1>13. CASE UNCHANGED vars
  BY <1>1, <1>13 DEF vars, memory, SyncedInv, Election, Vote, Pending
<1> QED
  BY <1>2, <1>3, <1>4, <1>5, <1>6, <1>7, <1>8, <1>9, <1>10, <1>11, <1>12, <1>13
  DEF Next, CommitStep

(* With storage calls that fail without effect, every stored chain         *)
(* verifies end to end in every reachable state, for any number of         *)
(* elections, votes, restarts and failed calls.                            *)
THEOREM StoredChainsStayLinked ==
    ASSUME MaxLostReplies = 0
    PROVE  Spec => []StoredChainsLinked
<1>1. SyncedInv => StoredChainsLinked
  BY DEF SyncedInv
<1> QED
  BY InitSyncedInv, NextSyncedInv, <1>1, PTL DEF Spec

(* Under the same condition the chain in memory is the stored one, up to   *)
(* the row of the commit being persisted.                                  *)
THEOREM MemoryStaysInStep ==
    ASSUME MaxLostReplies = 0
    PROVE  Spec => []MemoryAgreesWithStorage
<1>1. SyncedInv => MemoryAgreesWithStorage
  BY DEF SyncedInv
<1> QED
  BY InitSyncedInv, NextSyncedInv, <1>1, PTL DEF Spec

=============================================================================
