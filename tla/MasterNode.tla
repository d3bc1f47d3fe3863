----------------------------- MODULE MasterNode -----------------------------
(***************************************************************************)
(* The master node of apps/torachain-cli: votes arrive over HTTP, a        *)
(* SerialQueue commits them one at a time, each becomes a block that is    *)
(* persisted, then held in memory, then handed to the Pub/Sub client, and  *)
(* then the request is answered.                                           *)
(*                                                                         *)
(* Every await of a commit is a place where another handler runs, storage  *)
(* fails or the process dies, so a commit is several actions: the step it  *)
(* is suspended at is pc.  The block being persisted is not a variable: it *)
(* is what BlockFor makes of the chain in memory, which only that commit   *)
(* changes.                                                                *)
(***************************************************************************)
EXTENDS BlockChain

CONSTANTS
    ElectionOf,      \* the election each vote is posted for
    MaxStops,        \* bound: how often the process stops or dies
    MaxFaults,       \* bound: how many storage calls fail with no effect
    MaxLostReplies   \* bound: how many inserts succeed but report an error

ASSUME ElectionOfType == ElectionOf \in [Votes -> Elections]
ASSUME BoundsAreNats  == {MaxStops, MaxFaults, MaxLostReplies} \subseteq Nat

VARIABLES
    stored,       \* the store's rows of each election, in index order
    status,       \* the process: "up", "draining" after SIGTERM, or "down"
    queue,        \* the SerialQueue: votes being committed, the running first
    pc,           \* where the running commit is suspended
    loaded,       \* the cached load of each election's chain
    blocks,       \* each election's chain in memory
    verdict,      \* the HTTP answer of each vote
    published,    \* history: the blocks handed to publishMessage, in order
    outbox,       \* blocks in the Pub/Sub client, not yet at the topic
    stops, faults, lostReplies

memory == <<queue, pc, loaded, blocks, outbox>>
bounds == <<stops, faults, lostReplies>>
vars   == <<stored, status, memory, verdict, published, bounds>>

TypeOK ==
    /\ stored \in [Elections -> Seq(Block)]
    /\ status \in {"up", "draining", "down"}
    /\ queue \in Seq(Votes)
    /\ pc \in {"idle", "loading", "persisting", "persisted"}
    /\ loaded \in [Elections -> {"absent", "loaded", "failed"}]
    /\ blocks \in [Elections -> Seq(Block)]
    /\ verdict \in [Votes -> {"unsent", "waiting", "accepted", "refused",
                              "dropped"}]
    /\ published \in Seq(Block)
    /\ outbox \subseteq Block
    /\ stops \in Nat /\ faults \in Nat /\ lostReplies \in Nat
    /\ pc # "idle" => queue # << >>

Init ==
    /\ stored = [e \in Elections |-> << >>]
    /\ status = "down"
    /\ queue = << >>
    /\ pc = "idle"
    /\ loaded = [e \in Elections |-> "absent"]
    /\ blocks = [e \in Elections |-> << >>]
    /\ verdict = [v \in Votes |-> "unsent"]
    /\ published = << >>
    /\ outbox = {}
    /\ stops = 0 /\ faults = 0 /\ lostReplies = 0

-----------------------------------------------------------------------------
(* The running commit *)

Vote     == Head(queue)
Election == ElectionOf[Vote]
Pending  == BlockFor(Election, blocks[Election], Vote)

(***************************************************************************)
(* The commit settles, the queue moves on to the next job whether it       *)
(* succeeded or threw, and the request is answered 202 or 409.             *)
(***************************************************************************)
FinishStalls(answer) ==
    /\ verdict' = [verdict EXCEPT ![Vote] = answer]
    /\ queue' = IF answer = "refused" THEN queue ELSE Tail(queue)
    /\ pc' = "idle"

Finish(answer) ==
    /\ verdict' = [verdict EXCEPT ![Vote] = answer]
    /\ queue' = Tail(queue)
    /\ pc' = "idle"

-----------------------------------------------------------------------------
(* The process starts, receives SIGTERM, exits and dies *)

Start ==
    /\ status = "down"
    /\ status' = "up"
    /\ UNCHANGED <<stored, memory, verdict, published, bounds>>

ForgetAllButCommit ==
    /\ status' = "down"
    /\ queue' = << >>
    /\ loaded' = [e \in Elections |-> "absent"]
    /\ blocks' = [e \in Elections |-> << >>]
    /\ outbox' = {}
    /\ UNCHANGED pc

Forget ==
    /\ status' = "down"
    /\ queue' = << >>
    /\ pc' = "idle"
    /\ loaded' = [e \in Elections |-> "absent"]
    /\ blocks' = [e \in Elections |-> << >>]
    /\ outbox' = {}

(* stop() closes the HTTP server, which waits for the open requests ...    *)
BeginStop ==
    /\ status = "up"
    /\ stops < MaxStops
    /\ status' = "draining"
    /\ stops' = stops + 1
    /\ UNCHANGED <<stored, memory, verdict, published, faults, lostReplies>>

(* ... and then exits, without waiting for the publisher to flush.         *)
Exit ==
    /\ status = "draining"
    /\ queue = << >>
    /\ Forget
    /\ UNCHANGED <<stored, verdict, published, bounds>>

Crash ==
    /\ status # "down"
    /\ stops < MaxStops
    /\ stops' = stops + 1
    /\ Forget
    /\ verdict' = [v \in Votes |-> IF verdict[v] = "waiting" THEN "dropped"
                                                             ELSE verdict[v]]
    /\ UNCHANGED <<stored, published, faults, lostReplies>>

-----------------------------------------------------------------------------
(* POST /api/vote, for a body with every field *)

JumpTheQueue(v) ==
    /\ status = "up"
    /\ verdict[v] = "unsent"
    /\ verdict' = [verdict EXCEPT ![v] = "waiting"]
    /\ queue' = IF queue = << >> THEN <<v>>
                ELSE <<Head(queue), v>> \o Tail(queue)
    /\ UNCHANGED <<stored, status, pc, loaded, blocks, published, outbox,
                   bounds>>

PostVote(v) ==
    /\ status = "up"
    /\ verdict[v] = "unsent"
    /\ verdict' = [verdict EXCEPT ![v] = "waiting"]
    /\ queue' = Append(queue, v)
    /\ UNCHANGED <<stored, status, pc, loaded, blocks, published, outbox,
                   bounds>>

-----------------------------------------------------------------------------
(* commit: chainFor, then addBlock *)

BeginLoad ==
    /\ pc = "idle" /\ queue # << >>
    /\ loaded[Election] = "absent"
    /\ pc' = "loading"
    /\ UNCHANGED <<stored, status, queue, loaded, blocks, verdict, published,
                   outbox, bounds>>

UseChain ==
    /\ pc = "idle" /\ queue # << >>
    /\ loaded[Election] = "loaded"
    /\ pc' = "persisting"
    /\ UNCHANGED <<stored, status, queue, loaded, blocks, verdict, published,
                   outbox, bounds>>

(* A load that failed stays in the cache and fails every later commit.     *)
UseFailedLoad ==
    /\ pc = "idle" /\ queue # << >>
    /\ loaded[Election] = "failed"
    /\ Finish("refused")
    /\ UNCHANGED <<stored, status, loaded, blocks, published, outbox, bounds>>

LoadStartsEmpty ==
    /\ pc = "loading"
    /\ loaded' = [loaded EXCEPT ![Election] = "loaded"]
    /\ pc' = "persisting"
    /\ UNCHANGED <<stored, status, queue, blocks, verdict, published, outbox,
                   bounds>>

LoadRepublishes ==
    /\ pc = "loading"
    /\ loaded' = [loaded EXCEPT ![Election] = "loaded"]
    /\ blocks' = [blocks EXCEPT ![Election] = stored[Election]]
    /\ published' = published \o stored[Election]
    /\ pc' = "persisting"
    /\ UNCHANGED <<stored, status, queue, verdict, outbox, bounds>>

Load ==
    /\ pc = "loading"
    /\ loaded' = [loaded EXCEPT ![Election] = "loaded"]
    /\ blocks' = [blocks EXCEPT ![Election] = stored[Election]]
    /\ pc' = "persisting"
    /\ UNCHANGED <<stored, status, queue, verdict, published, outbox, bounds>>

LoadFails ==
    /\ pc = "loading"
    /\ faults < MaxFaults
    /\ faults' = faults + 1
    /\ loaded' = [loaded EXCEPT ![Election] = "failed"]
    /\ Finish("refused")
    /\ UNCHANGED <<stored, status, blocks, published, outbox, stops,
                   lostReplies>>

(* storage.append commits the row; its reply is still on the way.          *)
Persist ==
    /\ pc = "persisting"
    /\ stored' = [stored EXCEPT ![Election] = StorageAppend(@, Pending)]
    /\ pc' = "persisted"
    /\ UNCHANGED <<status, queue, loaded, blocks, verdict, published, outbox,
                   bounds>>

PersistFails ==
    /\ pc = "persisting"
    /\ faults < MaxFaults
    /\ faults' = faults + 1
    /\ Finish("refused")
    /\ UNCHANGED <<stored, status, loaded, blocks, published, outbox, stops,
                   lostReplies>>

(* The row is there but the call reports an error: the connection to       *)
(* Postgres broke between the commit of the insert and its reply.          *)
LoseReply ==
    /\ pc = "persisted"
    /\ lostReplies < MaxLostReplies
    /\ lostReplies' = lostReplies + 1
    /\ Finish("refused")
    /\ UNCHANGED <<stored, status, loaded, blocks, published, outbox, stops,
                   faults>>

(***************************************************************************)
(* append resumes: the block is held and published.  After a genesis block *)
(* the commit goes on to persist its vote, after a vote it is answered.    *)
(***************************************************************************)
HoldStopsAtGenesis ==
    /\ pc = "persisted"
    /\ blocks' = [blocks EXCEPT ![Election] = InsertInOrder(@, Pending)]
    /\ published' = Append(published, Pending)
    /\ outbox' = outbox \union {Pending}
    /\ Finish("accepted")
    /\ UNCHANGED <<stored, status, loaded, bounds>>

Hold ==
    /\ pc = "persisted"
    /\ blocks' = [blocks EXCEPT ![Election] = InsertInOrder(@, Pending)]
    /\ published' = Append(published, Pending)
    /\ outbox' = outbox \union {Pending}
    /\ IF Pending.index = GENESIS_INDEX
       THEN pc' = "persisting" /\ UNCHANGED <<queue, verdict>>
       ELSE Finish("accepted")
    /\ UNCHANGED <<stored, status, loaded, bounds>>

-----------------------------------------------------------------------------
(* publishMessage is not awaited: the client sends the block later, in any *)
(* order, or gives up on it.  Either way it leaves the process.            *)

Publish(b) ==
    /\ b \in outbox
    /\ outbox' = outbox \ {b}
    /\ UNCHANGED <<stored, status, queue, pc, loaded, blocks, verdict,
                   published, bounds>>

CommitStep ==
    \/ BeginLoad \/ UseChain \/ UseFailedLoad \/ Load \/ LoadFails
    \/ Persist \/ PersistFails \/ LoseReply \/ Hold

Next ==
    \/ Start \/ BeginStop \/ Exit \/ Crash
    \/ \E v \in Votes : PostVote(v)
    \/ CommitStep
    \/ \E b \in outbox : Publish(b)

Spec == Init /\ [][Next]_vars

(***************************************************************************)
(* The event loop runs every continuation that is ready and storage        *)
(* answers every call in the end, so the running commit never stays where  *)
(* it is.                                                                  *)
(***************************************************************************)
FairSpec == Spec /\ WF_vars(CommitStep)

-----------------------------------------------------------------------------
(***************************************************************************)
(* Safety.  The first four, and that the ledger is implemented, hold as    *)
(* long as a failed storage call has had no effect (MaxLostReplies = 0);   *)
(* the others hold whatever fails.                                         *)
(***************************************************************************)

(* Each stored chain opens with genesis, re-hashes and links end to end at *)
(* every instant, through failed calls, restarts and first votes racing    *)
(* for one load: no vote is ever built on a tip that is not the stored one *)
StoredChainsLinked == \A e \in Elections : ChainIsValid(stored[e])

(* master-node.ts:98-100: the chain in memory and the stored one are the   *)
(* same, except for the one row a running commit has persisted and not     *)
(* held yet.                                                               *)
MemoryAgreesWithStorage ==
    \A e \in Elections : loaded[e] = "loaded" =>
        stored[e] = IF pc = "persisted" /\ e = Election
                    THEN Append(blocks[e], Pending) ELSE blocks[e]

(* How many stored blocks carry a vote *)
TimesStored(v) ==
    LET rows == stored[ElectionOf[v]]
    IN  {k \in DOMAIN rows : rows[k].data = v}

(* The answer a voter's ballot gets is true for good: a vote answered 202  *)
(* is in its election's stored chain exactly once, whatever is restarted   *)
(* later, and a vote answered 409 is not there.                            *)
AnswersAreTrue ==
    \A v \in Votes :
        /\ verdict[v] = "accepted" => \E k \in TimesStored(v) : TimesStored(v) = {k}
        /\ verdict[v] \in {"unsent", "refused"} => TimesStored(v) = {}

(* Every published block is a stored one, no block is published twice, and *)
(* each election's blocks are handed to Pub/Sub in chain order: a restart  *)
(* may leave one out but never publishes one again.                        *)
PublishedOnceInOrder ==
    /\ \A i \in DOMAIN published : \E k \in DOMAIN stored[published[i].electionId] :
           stored[published[i].electionId][k] = published[i]
    /\ \A i, j \in DOMAIN published :
           i < j /\ published[i].electionId = published[j].electionId
               => published[i].index < published[j].index

(* Rows are only ever added after the last one: what a reader of           *)
(* /api/chain has seen of a chain stays a prefix of it.                    *)
StoredOnlyGrows ==
    [][\A e \in Elections :
           /\ Len(stored[e]) <= Len(stored'[e])
           /\ stored[e] = SubSeq(stored'[e], 1, Len(stored[e]))]_stored

(* Every vote taken in is answered unless the process dies, also behind    *)
(* commits that fail and after a load that failed.                         *)
EveryVoteAnswered ==
    \A v \in Votes : (verdict[v] = "waiting") ~> (verdict[v] # "waiting")

(***************************************************************************)
(* The master implements the ledger: the row's insert is the moment a vote *)
(* is recorded; loading, genesis blocks, holding and publishing are        *)
(* stuttering steps.                                                       *)
(***************************************************************************)
StoredVotes(e) ==
    [k \in 1 .. (IF stored[e] = << >> THEN 0 ELSE Len(stored[e]) - 1) |->
        stored[e][k + 1].data]

Ledger == INSTANCE VoteLedger WITH
    ledger  <- [e \in Elections |-> StoredVotes(e)],
    waiting <- queue,
    verdict <- verdict

ImplementsLedger == Ledger!Spec

=============================================================================
