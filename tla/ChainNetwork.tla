---------------------------- MODULE ChainNetwork ----------------------------
(***************************************************************************)
(* The chain network: the master, the workers that replicate its chains,   *)
(* and what lies between them.  A worker reads the master's stored rows    *)
(* over HTTP (GET /api/chain) and receives, through Pub/Sub, the blocks    *)
(* the master's client sends while the worker is subscribed.               *)
(***************************************************************************)
EXTENDS BlockChain

CONSTANTS
    ElectionOf, MaxStops, MaxFaults, MaxLostReplies,
    Workers, Followed, MaxHalts, MaxWriteFailures, MaxGarbled,
    MaxLostPublishes   \* bound: how often the Pub/Sub client gives up

ASSUME ElectionOfType == ElectionOf \in [Votes -> Elections]
ASSUME FollowedType   == Followed \in [Workers -> SUBSET Elections]
ASSUME BoundsAreNats  ==
    {MaxStops, MaxFaults, MaxLostReplies, MaxHalts, MaxWriteFailures,
     MaxGarbled, MaxLostPublishes} \subseteq Nat

VARIABLES
    stored, status, queue, pc, loaded, blocks, verdict, published, outbox,
    stops, faults, lostReplies,
    phase, fetched, opened, held, cache, file, torn, inbox, halts,
    writeFailures, garbled, undetected,
    lostPublishes

M == INSTANCE MasterNode
W == INSTANCE WorkerNode

masterVars == <<stored, status, queue, pc, loaded, blocks, verdict, published,
                outbox, stops, faults, lostReplies>>
workerVars == <<phase, fetched, opened, held, cache, file, torn, inbox, halts,
                writeFailures, garbled, undetected>>
vars == <<masterVars, workerVars, lostPublishes>>

Init == M!Init /\ W!Init /\ lostPublishes = 0

(* GET /api/chain answers from storage, while the master takes requests.   *)
FetchChain(w) ==
    /\ status = "up"
    /\ W!Fetch(w, stored)
    /\ UNCHANGED <<masterVars, lostPublishes>>

MasterStep ==
    /\ \/ M!Start \/ M!BeginStop \/ M!Exit \/ M!Crash
       \/ \E v \in Votes : M!PostVote(v)
       \/ M!CommitStep
    /\ UNCHANGED <<workerVars, lostPublishes>>

WorkerStep == W!Next /\ UNCHANGED <<masterVars, lostPublishes>>

Send(b) ==
    /\ M!Publish(b)
    /\ W!Receive(b)
    /\ UNCHANGED lostPublishes

(* The client gives the publish up; nothing awaits it.                     *)
SendFails(b) ==
    /\ M!Publish(b)
    /\ lostPublishes < MaxLostPublishes
    /\ lostPublishes' = lostPublishes + 1
    /\ UNCHANGED workerVars

Next ==
    \/ MasterStep
    \/ WorkerStep
    \/ \E w \in Workers : FetchChain(w)
    \/ \E b \in outbox : Send(b) \/ SendFails(b)

Spec == Init /\ [][Next]_vars

(***************************************************************************)
(* Fairness: a master that was told to stop exits once its requests are    *)
(* answered and the platform starts a new one, a commit goes on, a worker  *)
(* keeps asking every two seconds until it gets an answer, and Pub/Sub     *)
(* delivers until it is acked.                                             *)
(***************************************************************************)
FairSpec ==
    /\ Spec
    /\ WF_vars(M!Start /\ UNCHANGED <<workerVars, lostPublishes>>)
    /\ WF_vars(M!Exit /\ UNCHANGED <<workerVars, lostPublishes>>)
    /\ WF_vars(M!CommitStep /\ UNCHANGED <<workerVars, lostPublishes>>)
    /\ \A w \in Workers :
           /\ WF_vars(FetchChain(w))
           /\ WF_vars(W!Progress(w) /\ UNCHANGED <<masterVars, lostPublishes>>)

-----------------------------------------------------------------------------
TypeOK == M!TypeOK /\ W!TypeOK /\ lostPublishes \in Nat

RowsOf(chain) == {chain[k] : k \in DOMAIN chain}

Rows(w, e) ==
    RowsOf(held[w][e]) \union RowsOf(cache[w][e]) \union RowsOf(file[w][e])

(* Every block a worker holds, keeps in its store or has on disk is one    *)
(* the master persisted for that election.                                 *)
ReplicasSound ==
    \A w \in Workers, e \in Elections : Rows(w, e) \subseteq RowsOf(stored[e])

(* What a worker keeps comes from the master, whatever was delivered       *)
(* twice, out of order or altered on the way, and across restarts of       *)
(* either side: exactly a block persisted for that election as long as     *)
(* every altered message lost its hash; and even after one that kept it, a *)
(* vote's block the master persisted at that index, vote and predecessor   *)
(* included, under this election or another.                               *)
ReplicasGenuine ==
    /\ ~undetected => ReplicasSound
    /\ \A w \in Workers, e \in Elections : \A b \in Rows(w, e) :
           b.index # GENESIS_INDEX =>
               \E f \in Elections : \E s \in RowsOf(stored[f]) :
                   b = [s EXCEPT !.electionId = e]

NoGap(chain) == {b.index : b \in RowsOf(chain)} = 0 .. (Len(chain) - 1)

(* The viewer's chainsValid is true just when every chain in memory has    *)
(* all blocks before its tip: a gap left by lost or overtaken messages is  *)
(* never called valid, and one that closed never damage.  Once the worker  *)
(* is ready, the chains in memory are all the chains it has stored.  Both  *)
(* as long as no altered message kept its hash.                            *)
ViewerTellsGaps ==
    \A w \in Workers : ~undetected =>
        /\ W!chainsValid(w) <=> \A e \in opened[w] : NoGap(held[w][e])
        /\ phase[w] = "ready" =>
               \A e \in Elections : cache[w][e] # << >> => e \in opened[w]

(* Until a file write has failed, the store's array and every chain in     *)
(* memory are what the file holds: a restart reloads exactly them.         *)
HeldIsOnDisk ==
    \A w \in Workers : phase[w] # "down" /\ writeFailures = 0 =>
        /\ cache[w] = file[w]
        /\ \A e \in opened[w] : held[w][e] = file[w][e]

(* A running worker forgets no block, whatever it is delivered.            *)
HeldOnlyGrows ==
    [][\A w \in Workers : phase'[w] # "down" =>
           \A e \in Elections : RowsOf(held[w][e]) \subseteq RowsOf(held'[w][e])
      ]_<<held, phase>>

Complete(w) == \A e \in Followed[w] : held[w][e] = stored[e]

AllAnswered == \A v \in Votes : verdict[v] \notin {"unsent", "waiting"}

(* A worker that starts once the last vote is answered ends up with every  *)
(* block the master has stored, in order, unless it is halted or takes in  *)
(* an altered message that kept its hash: over failed writes that make it  *)
(* start the sync over, and with a master that went down before it         *)
(* published everything.                                                   *)
SyncCompletes ==
    \A w \in Workers :
        (phase[w] = "fetching" /\ AllAnswered)
            ~> (Complete(w) \/ phase[w] = "down" \/ undetected)

(***************************************************************************)
(* node-network.test.ts:139-154: a worker joining late should sync the     *)
(* existing chain over HTTP and keep up with what comes next.  Nothing     *)
(* failed, nothing is under way, and a subscribed worker holds every       *)
(* stored block.                                                           *)
(***************************************************************************)
NothingFailed ==
    stops + faults + lostReplies + halts + writeFailures + garbled
        + lostPublishes = 0

LateJoinerKeepsUp ==
    \A w \in Workers :
        NothingFailed /\ queue = << >> /\ outbox = {}
          /\ phase[w] = "ready" /\ inbox[w] = {} => Complete(w)

=============================================================================
