------------------------ MODULE ChainNetworkProofs ------------------------
(***************************************************************************)
(* Theorems about the chain network, for any elections, votes, workers and *)
(* bounds.  The master's part is what MasterAnswersProofs shows of it, of  *)
(* which every step of the network takes a step or none.                   *)
(***************************************************************************)
EXTENDS ChainNetwork, BlockChainProofs

MP == INSTANCE MasterAnswersProofs

-----------------------------------------------------------------------------
(* Each module brings its own copy of BlockChain; they are all the same.   *)

LEMMA SameBlocks == M!Block = Block /\ W!Block = Block /\ MP!Block = Block
  BY DEF Block, Hash, Payload, M!Block, M!Hash, M!Payload, W!Block, W!Hash,
         W!Payload, MP!Block, MP!Hash, MP!Payload

LEMMA SameInserts ==
    \A chain, b : /\ M!InsertInOrder(chain, b) = InsertInOrder(chain, b)
                  /\ W!InsertInOrder(chain, b) = InsertInOrder(chain, b)
                  /\ MP!InsertInOrder(chain, b) = InsertInOrder(chain, b)
  BY DEF InsertInOrder, M!InsertInOrder, W!InsertInOrder, MP!InsertInOrder

LEMMA SameAppends ==
    \A rows, b : /\ M!StorageAppend(rows, b) = StorageAppend(rows, b)
                 /\ W!StorageAppend(rows, b) = StorageAppend(rows, b)
                 /\ MP!StorageAppend(rows, b) = StorageAppend(rows, b)
  BY SameInserts
  DEF StorageAppend, M!StorageAppend, W!StorageAppend, MP!StorageAppend,
      Has, M!Has, W!Has, MP!Has

LEMMA SameBlockFor ==
    \A e, chain, v : M!BlockFor(e, chain, v) = MP!BlockFor(e, chain, v)
  BY DEF M!BlockFor, MP!BlockFor, M!NextBlock, MP!NextBlock, M!Tip, MP!Tip,
         M!Genesis, MP!Genesis, M!GENESIS_INDEX, MP!GENESIS_INDEX,
         M!GENESIS_HASH, MP!GENESIS_HASH, M!ComputeHash, MP!ComputeHash

LEMMA SameChecks ==
    /\ \A e, chain, b : W!AcceptStatus(e, chain, b) = AcceptStatus(e, chain, b)
    /\ \A chain, index : W!Has(chain, index) = Has(chain, index)
    /\ \A chain : /\ MP!ChainIsValid(chain) = ChainIsValid(chain)
                   /\ W!ChainIsValid(chain) = ChainIsValid(chain)
    /\ \A b : W!IsValid(b) = IsValid(b)
  BY DEF AcceptStatus, IsValid, ComputeHash, GENESIS_INDEX, GENESIS_HASH, Has,
         IsLinked, Follows, ChainIsValid, W!AcceptStatus, W!IsValid,
         W!ComputeHash, W!GENESIS_INDEX, W!GENESIS_HASH, W!Has, W!IsLinked,
         W!Follows, W!ChainIsValid, MP!ChainIsValid, MP!IsValid, MP!ComputeHash,
         MP!GENESIS_INDEX, MP!GENESIS_HASH, MP!Follows

-----------------------------------------------------------------------------
(* Every step of the network is a step of the master or leaves it alone.   *)

LEMMA SameCommit ==
    /\ M!Vote = MP!Vote /\ M!Election = MP!Election /\ M!Pending = MP!Pending
    /\ \A answer : M!Finish(answer) <=> MP!Finish(answer)
<1>1. M!Vote = MP!Vote /\ M!Election = MP!Election
  BY DEF M!Vote, MP!Vote, M!Election, MP!Election
<1>2. M!Pending = MP!Pending
  BY <1>1, SameBlockFor DEF M!Pending, MP!Pending
<1>3. \A answer : M!Finish(answer) <=> MP!Finish(answer)
  BY <1>1 DEF M!Finish, MP!Finish
<1> QED
  BY <1>1, <1>2, <1>3

LEMMA SameProcessSteps ==
    /\ M!Start => MP!Start
    /\ M!BeginStop => MP!BeginStop
    /\ M!Exit => MP!Exit
    /\ M!Crash => MP!Crash
    /\ \A v \in Votes : M!PostVote(v) => MP!PostVote(v)
    /\ \A b : M!Publish(b) => MP!Publish(b)
  BY DEF M!Start, MP!Start, M!BeginStop, MP!BeginStop, M!Exit, MP!Exit,
         M!Crash, MP!Crash, M!Forget, MP!Forget, M!PostVote, MP!PostVote,
         M!Publish, MP!Publish, M!memory, MP!memory, M!bounds, MP!bounds

LEMMA SameCommitSteps == M!CommitStep => MP!CommitStep
<1> USE DEF M!bounds, MP!bounds
<1>1. M!BeginLoad => MP!BeginLoad
  BY SameCommit DEF M!BeginLoad, MP!BeginLoad
<1>2. M!UseChain => MP!UseChain
  BY SameCommit DEF M!UseChain, MP!UseChain
<1>3. M!UseFailedLoad => MP!UseFailedLoad
  BY SameCommit DEF M!UseFailedLoad, MP!UseFailedLoad
<1>4. M!Load => MP!Load
  BY SameCommit DEF M!Load, MP!Load
<1>5. M!LoadFails => MP!LoadFails
  BY SameCommit DEF M!LoadFails, MP!LoadFails
<1>6. M!Persist => MP!Persist
  BY SameCommit, SameAppends DEF M!Persist, MP!Persist
<1>7. M!PersistFails => MP!PersistFails
  BY SameCommit DEF M!PersistFails, MP!PersistFails
<1>8. M!LoseReply => MP!LoseReply
  BY SameCommit DEF M!LoseReply, MP!LoseReply
<1>9. M!Hold => MP!Hold
  BY SameCommit, SameInserts
  DEF M!Hold, MP!Hold, M!GENESIS_INDEX, MP!GENESIS_INDEX
<1> QED
  BY <1>1, <1>2, <1>3, <1>4, <1>5, <1>6, <1>7, <1>8, <1>9
  DEF M!CommitStep, MP!CommitStep

LEMMA MasterVars ==
    UNCHANGED masterVars => UNCHANGED MP!vars
  BY DEF masterVars, MP!vars, MP!memory, MP!bounds

LEMMA NetworkStepOfMaster == [Next]_vars => [MP!Next]_(MP!vars)
<1> SUFFICES ASSUME [Next]_vars PROVE MP!Next \/ UNCHANGED MP!vars
  OBVIOUS
<1>1. CASE MasterStep
  BY <1>1, SameProcessSteps, SameCommitSteps DEF MasterStep, MP!Next
<1>2. CASE WorkerStep \/ \E w \in Workers : FetchChain(w)
  BY <1>2, MasterVars DEF WorkerStep, FetchChain
<1>3. CASE \E b \in outbox : Send(b) \/ SendFails(b)
  BY <1>3, SameProcessSteps DEF Send, SendFails, MP!Next
<1>4. CASE UNCHANGED vars
  BY <1>4, MasterVars DEF vars
<1> QED
  BY <1>1, <1>2, <1>3, <1>4 DEF Next

LEMMA SameInit == Init => MP!Init
  BY DEF Init, M!Init, MP!Init

LEMMA MasterBounds == {MaxStops, MaxFaults, MaxLostReplies} \subseteq Nat
  BY BoundsAreNats

LEMMA MasterTypes ==
    /\ Init => MP!TypeInv
    /\ MP!TypeInv /\ [Next]_vars => MP!TypeInv'
    /\ MP!TypeInv => M!TypeOK
<1>1. MP!Init => MP!TypeInv
  BY MP!InitTypeInv, MasterBounds, ElectionOfType, GenesisIsNoVote
<1>2. MP!TypeInv /\ [MP!Next]_(MP!vars) => MP!TypeInv'
  BY MP!NextTypeInv, MasterBounds, ElectionOfType, GenesisIsNoVote
<1>3. MP!TypeInv => M!TypeOK
  BY SameBlocks DEF MP!TypeInv, MP!TypeOK, M!TypeOK
<1> QED
  BY <1>1, <1>2, <1>3, SameInit, NetworkStepOfMaster

StoredBlocks == MP!StoredRows

LEMMA MasterRows ==
    ASSUME MaxLostReplies = 0
    PROVE  /\ Init => MP!PublicationInv
           /\ MP!PublicationInv /\ [Next]_vars
                  => MP!PublicationInv' /\ StoredBlocks \subseteq StoredBlocks'
<1>1. MP!Init => MP!PublicationInv
  BY MP!InitPublicationInv, MasterBounds, ElectionOfType, GenesisIsNoVote
<1>2. MP!PublicationInv /\ [MP!Next]_(MP!vars) => MP!PublicationInv'
  BY MP!NextPublicationInv, MasterBounds, ElectionOfType, GenesisIsNoVote
<1>3. MP!AnswersInv /\ [MP!Next]_(MP!vars) => MP!StoredRows \subseteq MP!StoredRows'
  BY MP!StepKeepsStored, MasterBounds, ElectionOfType, GenesisIsNoVote
<1> QED
  BY <1>1, <1>2, <1>3, SameInit, NetworkStepOfMaster
  DEF MP!PublicationInv, StoredBlocks

LEMMA StoredBlockFacts ==
    ASSUME MP!PublicationInv
    PROVE  /\ outbox \subseteq StoredBlocks
           /\ \A e \in Elections :
                  /\ stored[e] \in Seq(Block) /\ ChainIsValid(stored[e])
                  /\ \A k \in DOMAIN stored[e] :
                         /\ stored[e][k] \in StoredBlocks
                         /\ stored[e][k].electionId = e
           /\ \A b \in StoredBlocks :
                  /\ b \in Block /\ IsValid(b)
                  /\ b.index + 1 \in DOMAIN stored[b.electionId]
                  /\ stored[b.electionId][b.index + 1] = b
                  /\ b.index = 0 => b.data = GenesisData
<1>1. /\ outbox \subseteq MP!StoredRows
      /\ \A e \in Elections :
             /\ stored[e] \in Seq(MP!Block) /\ MP!ChainIsValid(stored[e])
             /\ \A k \in DOMAIN stored[e] :
                    /\ stored[e][k] \in MP!StoredRows
                    /\ stored[e][k].electionId = e
      /\ \A b \in MP!StoredRows :
             /\ b \in MP!Block /\ MP!IsValid(b)
             /\ b.index + 1 \in DOMAIN stored[b.electionId]
             /\ stored[b.electionId][b.index + 1] = b
             /\ b.index = 0 => b.data = GenesisData
  BY MP!WhatIsStored, MasterBounds, ElectionOfType, GenesisIsNoVote
<1>2. \A b : MP!IsValid(b) => IsValid(b)
  BY DEF IsValid, ComputeHash, GENESIS_INDEX, GENESIS_HASH, MP!IsValid,
         MP!ComputeHash, MP!GENESIS_INDEX, MP!GENESIS_HASH
<1> QED
  BY <1>1, <1>2, SameBlocks, SameChecks DEF StoredBlocks

-----------------------------------------------------------------------------
(* Taking in one block, in the terms of the chains it changes.             *)

(* The election's chain is in memory from now on.                          *)
Holds(w, e, chain) ==
    /\ opened' = [opened EXCEPT ![w] = opened[w] \union {e}]
    /\ held' = [held EXCEPT ![w] = [held[w] EXCEPT ![e] = chain]]

(* The block is handed to its chain, which stays as it was loaded,         *)
Opens(w, b, e) ==
    /\ e = b.electionId /\ e \in Followed[w]
    /\ Holds(w, e, W!Loaded(w, e))

(* or, the block being new, gains it.                                      *)
Gains(w, b, e) ==
    /\ e = b.electionId /\ e \in Followed[w]
    /\ IsValid(b) /\ ~Has(W!Loaded(w, e), b.index)
    /\ Holds(w, e, InsertInOrder(W!Loaded(w, e), b))

(* The store's array gains it unless it has one under the same index.      *)
CacheGains(w, b, e) ==
    cache' = [cache EXCEPT ![w] =
                 [cache[w] EXCEPT ![e] = StorageAppend(cache[w][e], b)]]

FileFollows(w, b, e) ==
    \/ Has(cache[w][e], b.index) /\ UNCHANGED <<file, torn>>
    \/ /\ file' = [file EXCEPT ![w] = cache'[w]]
       /\ torn' = [torn EXCEPT ![w] = FALSE]

LEMMA SameHolds ==
    \A w, e, chain : W!Holds(w, e, chain) => Holds(w, e, chain)
  BY DEF W!Holds, Holds

LEMMA NewBlocks ==
    ASSUME NEW w \in Workers, NEW b \in Block, NEW e, e = b.electionId,
           W!IsNew(w, b)
    PROVE  /\ e \in Followed[w] /\ IsValid(b)
           /\ ~Has(W!Loaded(w, e), b.index)
<1>1. AcceptStatus(e, W!Loaded(w, e), b) \in {"appended", "out-of-order"}
  BY SameChecks DEF W!IsNew, W!Status
<1> QED
  BY <1>1 DEF AcceptStatus, W!IsNew

LEMMA TakeInCases ==
    ASSUME W!TypeOK, NEW w \in Workers, NEW b \in Block, W!TakeIn(w, b)
    PROVE  \/ b.electionId \notin Followed[w]
              /\ UNCHANGED <<opened, held, cache, file, torn>>
           \/ \E e \in Elections :
                  Opens(w, b, e) /\ UNCHANGED <<cache, file, torn>>
           \/ \E e \in Elections :
                  Gains(w, b, e) /\ CacheGains(w, b, e) /\ FileFollows(w, b, e)
<1>1. PICK e \in Elections : e = b.electionId
  BY DEF Block
<1>2. CASE e \notin Followed[w] /\ UNCHANGED <<opened, held, cache, file, torn>>
  BY <1>1, <1>2
<1>3. CASE /\ e \in Followed[w] /\ W!Holds(w, e, W!Loaded(w, e))
           /\ UNCHANGED <<cache, file, torn>>
  BY <1>1, <1>3, SameHolds DEF Opens
<1>4. CASE /\ W!IsNew(w, b)
           /\ W!Holds(w, e, W!InsertInOrder(W!Loaded(w, e), b))
           /\ W!Stores(w, b)
  <2>1. Gains(w, b, e)
    BY <1>1, <1>4, NewBlocks, SameHolds, SameInserts DEF Gains
  <2>2. W!Stored(w, b) = [cache[w] EXCEPT ![e] = StorageAppend(cache[w][e], b)]
    BY <1>1, SameAppends DEF W!Stored
  <2>3. cache' = [cache EXCEPT ![w] = W!Stored(w, b)]
    BY <1>4 DEF W!Stores
  <2>4. cache'[w] = W!Stored(w, b)
    BY <2>3 DEF W!TypeOK
  <2>5. FileFollows(w, b, e)
    BY <1>1, <1>4, <2>4, SameChecks DEF W!Stores, FileFollows
  <2> QED
    BY <2>1, <2>2, <2>3, <2>5 DEF CacheGains
<1> QED
  BY <1>1, <1>2, <1>3, <1>4 DEF W!TakeIn

LEMMA TakeInFailsCases ==
    ASSUME W!TypeOK, NEW w \in Workers, NEW b \in Block, W!TakeInFails(w, b)
    PROVE  /\ \E e \in Elections : /\ IsValid(b)
                                   /\ Opens(w, b, e) /\ CacheGains(w, b, e)
           /\ torn' \in [Workers -> BOOLEAN]
           /\ writeFailures' = writeFailures + 1
           /\ UNCHANGED file
<1>1. PICK e \in Elections : e = b.electionId
  BY DEF Block
<1>2. IsValid(b) /\ Opens(w, b, e)
  BY <1>1, NewBlocks, SameHolds DEF W!TakeInFails, Opens
<1>3. CacheGains(w, b, e)
  BY <1>1, SameAppends DEF W!TakeInFails, W!Stored, CacheGains
<1>4. torn' \in [Workers -> BOOLEAN]
  BY DEF W!TakeInFails, W!TypeOK
<1> QED
  BY <1>2, <1>3, <1>4 DEF W!TakeInFails

Replicas == [Workers -> [Elections -> Seq(Block)]]

WorkerTypes ==
    /\ phase \in [Workers -> {"down", "fetching", "syncing", "connecting",
                              "ready"}]
    /\ fetched \in Replicas /\ held \in Replicas
    /\ cache \in Replicas /\ file \in Replicas
    /\ opened \in [Workers -> SUBSET Elections]
    /\ torn \in [Workers -> BOOLEAN]
    /\ inbox \in [Workers -> SUBSET Block]
    /\ halts \in Nat /\ writeFailures \in Nat /\ garbled \in Nat
    /\ undetected \in BOOLEAN

LEMMA ReplicaTypes == (W!TypeOK <=> WorkerTypes) /\ (W!TypeOK' <=> WorkerTypes')
<1>1. W!TypeOK <=> WorkerTypes
  BY SameBlocks DEF W!TypeOK, WorkerTypes, Replicas
<1>2. W!TypeOK' <=> WorkerTypes'
  BY SameBlocks DEF W!TypeOK, WorkerTypes, Replicas
<1> QED
  BY <1>1, <1>2

(* Replacing one chain, or all chains of one worker, keeps the type.       *)
LEMMA ReplaceChain ==
    ASSUME NEW f \in Replicas, NEW w \in Workers, NEW e \in Elections,
           NEW chain \in Seq(Block)
    PROVE  LET g == [f EXCEPT ![w] = [f[w] EXCEPT ![e] = chain]]
           IN  /\ g \in Replicas
               /\ g[w] = [f[w] EXCEPT ![e] = chain]
               /\ g[w][e] = chain
               /\ \A x \in Workers, y \in Elections :
                      x # w \/ y # e => g[x][y] = f[x][y]
  BY DEF Replicas

LEMMA ReplaceWorker ==
    ASSUME NEW f \in Replicas, NEW w \in Workers,
           NEW chains \in [Elections -> Seq(Block)]
    PROVE  LET g == [f EXCEPT ![w] = chains]
           IN  /\ g \in Replicas
               /\ g[w] = chains
               /\ \A x \in Workers : x # w => g[x] = f[x]
  BY DEF Replicas

LEMMA ChainType ==
    ASSUME NEW f \in Replicas, NEW w \in Workers, NEW e \in Elections
    PROVE  f[w] \in [Elections -> Seq(Block)] /\ f[w][e] \in Seq(Block)
  BY DEF Replicas

LEMMA NoBlocksType == W!NoBlocks \in [Elections -> Seq(Block)]
  BY DEF W!NoBlocks

LEMMA LoadedType ==
    ASSUME W!TypeOK, NEW w \in Workers, NEW e \in Elections
    PROVE  W!Loaded(w, e) \in Seq(Block)
  BY ReplicaTypes, ChainType DEF W!Loaded, WorkerTypes

LEMMA HoldsTypes ==
    ASSUME W!TypeOK, NEW w \in Workers, NEW e \in Elections,
           NEW chain \in Seq(Block), Holds(w, e, chain)
    PROVE  held' \in Replicas /\ opened' \in [Workers -> SUBSET Elections]
<1>1. held \in Replicas /\ opened \in [Workers -> SUBSET Elections]
  BY ReplicaTypes DEF WorkerTypes
<1>2. held' \in Replicas
  BY <1>1, ReplaceChain DEF Holds
<1> QED
  BY <1>1, <1>2 DEF Holds

LEMMA TakeInTypes ==
    ASSUME W!TypeOK, NEW w \in Workers, NEW b \in Block, W!TakeIn(w, b)
    PROVE  /\ held' \in Replicas /\ cache' \in Replicas /\ file' \in Replicas
           /\ opened' \in [Workers -> SUBSET Elections]
           /\ torn' \in [Workers -> BOOLEAN]
<1>1. /\ held \in Replicas /\ cache \in Replicas /\ file \in Replicas
      /\ opened \in [Workers -> SUBSET Elections]
      /\ torn \in [Workers -> BOOLEAN]
  BY ReplicaTypes DEF WorkerTypes
<1>2. CASE UNCHANGED <<opened, held, cache, file, torn>>
  BY <1>1, <1>2
<1>3. ASSUME NEW e \in Elections, Opens(w, b, e), UNCHANGED <<cache, file, torn>>
      PROVE  /\ held' \in Replicas /\ cache' \in Replicas /\ file' \in Replicas
             /\ opened' \in [Workers -> SUBSET Elections]
             /\ torn' \in [Workers -> BOOLEAN]
  <2>1. held' \in Replicas /\ opened' \in [Workers -> SUBSET Elections]
    BY <1>3, LoadedType, HoldsTypes DEF Opens
  <2> QED
    BY <1>1, <1>3, <2>1
<1>4. ASSUME NEW e \in Elections, Gains(w, b, e), CacheGains(w, b, e),
             FileFollows(w, b, e)
      PROVE  /\ held' \in Replicas /\ cache' \in Replicas /\ file' \in Replicas
             /\ opened' \in [Workers -> SUBSET Elections]
             /\ torn' \in [Workers -> BOOLEAN]
  <2>1. cache[w][e] \in Seq(Block) /\ W!Loaded(w, e) \in Seq(Block)
    BY <1>1, ChainType, LoadedType
  <2>2. /\ InsertInOrder(W!Loaded(w, e), b) \in Seq(Block)
        /\ StorageAppend(cache[w][e], b) \in Seq(Block)
    BY <2>1, InsertRows, StorageAppendRows
  <2>3. held' \in Replicas /\ opened' \in [Workers -> SUBSET Elections]
    BY <1>4, <2>2, HoldsTypes DEF Gains
  <2>4. cache' \in Replicas
    BY <1>1, <1>4, <2>2, ReplaceChain DEF CacheGains
  <2>5. cache'[w] \in [Elections -> Seq(Block)]
    BY <2>4 DEF Replicas
  <2>6. file' \in Replicas
    <3>1. [file EXCEPT ![w] = cache'[w]] \in Replicas
      BY <1>1, <2>5, ReplaceWorker
    <3> QED
      BY <1>1, <1>4, <3>1 DEF FileFollows
  <2>7. torn' \in [Workers -> BOOLEAN]
    BY <1>1, <1>4 DEF FileFollows
  <2> QED
    BY <2>3, <2>4, <2>6, <2>7
<1> QED
  BY <1>2, <1>3, <1>4, TakeInCases

LEMMA TakeInFailsTypes ==
    ASSUME W!TypeOK, NEW w \in Workers, NEW b \in Block, W!TakeInFails(w, b)
    PROVE  /\ held' \in Replicas /\ cache' \in Replicas /\ file' \in Replicas
           /\ opened' \in [Workers -> SUBSET Elections]
           /\ torn' \in [Workers -> BOOLEAN] /\ writeFailures' \in Nat
<1>1. cache \in Replicas /\ file \in Replicas /\ writeFailures \in Nat
  BY ReplicaTypes DEF WorkerTypes
<1>2. PICK e \in Elections : Opens(w, b, e) /\ CacheGains(w, b, e)
  BY TakeInFailsCases
<1>3. StorageAppend(cache[w][e], b) \in Seq(Block)
  BY <1>1, ChainType, StorageAppendRows
<1>4. cache' \in Replicas
  BY <1>1, <1>2, <1>3, ReplaceChain DEF CacheGains
<1>5. held' \in Replicas /\ opened' \in [Workers -> SUBSET Elections]
  BY <1>2, LoadedType, HoldsTypes DEF Opens
<1> QED
  BY <1>1, <1>4, <1>5, TakeInFailsCases

LEMMA GoneTypes ==
    ASSUME W!TypeOK, NEW w \in Workers, W!Gone(w), torn' \in [Workers -> BOOLEAN]
    PROVE  W!TypeOK'
<1>1. /\ fetched' \in Replicas /\ held' \in Replicas /\ cache' \in Replicas
  BY ReplicaTypes, NoBlocksType, ReplaceWorker
  DEF W!Gone, WorkerTypes
<1>2. /\ phase' \in [Workers -> {"down", "fetching", "syncing", "connecting",
                                 "ready"}]
      /\ opened' \in [Workers -> SUBSET Elections]
  BY ReplicaTypes DEF W!Gone, WorkerTypes
<1>3. inbox' \in [Workers -> SUBSET Block]
  BY ReplicaTypes DEF W!Gone, WorkerTypes
<1>4. halts' \in Nat
  BY ReplicaTypes DEF W!Gone, WorkerTypes
<1>5. UNCHANGED <<file, writeFailures, garbled, undetected>>
  BY DEF W!Gone
<1> QED
  BY <1>1, <1>2, <1>3, <1>4, <1>5, ReplicaTypes DEF WorkerTypes

LEMMA SourceBlocks ==
    ASSUME W!TypeOK, NEW w \in Workers
    PROVE  /\ \A b \in inbox[w] : b \in Block
           /\ \A e \in Elections : fetched[w][e] # << >> =>
                  /\ Head(fetched[w][e]) \in Block
                  /\ Tail(fetched[w][e]) \in Seq(Block)
<1>1. fetched \in Replicas /\ inbox \in [Workers -> SUBSET Block]
  BY ReplicaTypes DEF WorkerTypes
<1>2. \A e \in Elections : fetched[w][e] \in Seq(Block)
  BY <1>1, ChainType
<1> QED
  BY <1>1, <1>2, HeadTailProperties

(* What altering a message does: the block keeps its index and its hashes. *)
LEMMA GarbleCases ==
    ASSUME NEW w, NEW b \in Block, W!Garble(w, b)
    PROVE  \E c \in Block :
               /\ c.index = b.index /\ c.prevHash = b.prevHash
               /\ c.hash = b.hash
               /\ inbox' = [inbox EXCEPT ![w] = (inbox[w] \ {b}) \union {c}]
               /\ undetected' = (undetected \/ IsValid(c))
               /\ garbled' = garbled + 1
               /\ UNCHANGED <<phase, fetched, opened, held, cache, file, torn,
                              halts, writeFailures>>
<1>1. PICK e \in Elections, d \in W!Payload :
          LET c == [b EXCEPT !.electionId = e, !.data = d]
          IN  /\ inbox' = [inbox EXCEPT ![w] = (inbox[w] \ {b}) \union {c}]
              /\ undetected' = (undetected \/ W!IsValid(c))
  BY DEF W!Garble
<1> DEFINE c == [b EXCEPT !.electionId = e, !.data = d]
<1>2. d \in Payload
  BY DEF W!Payload, Payload
<1>3. /\ c \in Block /\ c.index = b.index /\ c.prevHash = b.prevHash
      /\ c.hash = b.hash
  BY <1>2 DEF Block
<1>4. /\ inbox' = [inbox EXCEPT ![w] = (inbox[w] \ {b}) \union {c}]
      /\ undetected' = (undetected \/ IsValid(c))
  BY <1>1, SameChecks
<1> HIDE DEF c
<1> QED
  BY <1>3, <1>4 DEF W!Garble

LEMMA WorkerStepTypes ==
    ASSUME W!TypeOK, NEW w \in Workers,
           \/ W!Progress(w) \/ W!SyncFails(w) \/ W!Halt(w) \/ W!Die(w)
           \/ \E b \in inbox[w] :
                  W!DeliverAckLost(w, b) \/ W!DeliverFails(w, b) \/ W!Garble(w, b)
    PROVE  W!TypeOK'
<1> DEFINE Phases == {"down", "fetching", "syncing", "connecting", "ready"}
<1>1. WorkerTypes
  BY ReplicaTypes
<1>2. SUFFICES WorkerTypes'
  BY ReplicaTypes
<1>3. CASE W!Start(w)
  <2>1. file[w] \in [Elections -> Seq(Block)]
    BY <1>1 DEF WorkerTypes, Replicas
  <2>2. cache' \in Replicas
    BY <1>1, <1>3, <2>1, ReplaceWorker DEF W!Start, WorkerTypes
  <2>3. phase' \in [Workers -> Phases]
    BY <1>1, <1>3 DEF W!Start, WorkerTypes
  <2> QED
    BY <1>1, <1>3, <2>2, <2>3 DEF W!Start, WorkerTypes
<1>4. CASE W!Sync(w)
  <2>1. PICK e \in Elections :
            /\ fetched[w][e] # << >>
            /\ W!TakeIn(w, Head(fetched[w][e]))
            /\ fetched' = [fetched EXCEPT ![w] =
                              [fetched[w] EXCEPT ![e] = Tail(fetched[w][e])]]
    BY <1>4 DEF W!Sync
  <2>2. Head(fetched[w][e]) \in Block /\ Tail(fetched[w][e]) \in Seq(Block)
    BY <2>1, SourceBlocks
  <2>3. fetched' \in Replicas
    BY <1>1, <2>1, <2>2, ReplaceChain DEF WorkerTypes
  <2>4. /\ held' \in Replicas /\ cache' \in Replicas /\ file' \in Replicas
        /\ opened' \in [Workers -> SUBSET Elections]
        /\ torn' \in [Workers -> BOOLEAN]
    BY <2>1, <2>2, TakeInTypes
  <2> QED
    BY <1>1, <1>4, <2>3, <2>4 DEF W!Sync, WorkerTypes
<1>5. CASE W!FinishSync(w) \/ W!Subscribe(w)
  <2>1. phase' \in [Workers -> Phases]
    BY <1>1, <1>5 DEF W!FinishSync, W!Subscribe, WorkerTypes
  <2> QED
    BY <1>1, <1>5, <2>1 DEF W!FinishSync, W!Subscribe, WorkerTypes
<1>6. ASSUME NEW b \in inbox[w], W!Deliver(w, b) \/ W!DeliverAckLost(w, b)
      PROVE  WorkerTypes'
  <2>1. W!TakeIn(w, b) /\ b \in Block
    BY <1>6, SourceBlocks DEF W!Deliver, W!DeliverAckLost
  <2>2. /\ held' \in Replicas /\ cache' \in Replicas /\ file' \in Replicas
        /\ opened' \in [Workers -> SUBSET Elections]
        /\ torn' \in [Workers -> BOOLEAN]
    BY <2>1, TakeInTypes
  <2>3. inbox' \in [Workers -> SUBSET Block]
    BY <1>1, <1>6 DEF W!Deliver, W!DeliverAckLost, WorkerTypes
  <2> QED
    BY <1>1, <1>6, <2>2, <2>3 DEF W!Deliver, W!DeliverAckLost, WorkerTypes
<1>7. CASE W!SyncFails(w)
  <2>1. PICK e \in Elections : /\ fetched[w][e] # << >>
                              /\ W!TakeInFails(w, Head(fetched[w][e]))
    BY <1>7 DEF W!SyncFails
  <2>2. /\ held' \in Replicas /\ cache' \in Replicas /\ file' \in Replicas
        /\ opened' \in [Workers -> SUBSET Elections]
        /\ torn' \in [Workers -> BOOLEAN] /\ writeFailures' \in Nat
    BY <2>1, SourceBlocks, TakeInFailsTypes
  <2>3. fetched' \in Replicas
    BY <1>1, <1>7, NoBlocksType, ReplaceWorker DEF W!SyncFails, WorkerTypes
  <2>4. phase' \in [Workers -> Phases]
    BY <1>1, <1>7 DEF W!SyncFails, WorkerTypes
  <2> QED
    BY <1>1, <1>7, <2>2, <2>3, <2>4 DEF W!SyncFails, WorkerTypes
<1>8. ASSUME NEW b \in inbox[w], W!DeliverFails(w, b)
      PROVE  WorkerTypes'
  <2>1. W!TakeInFails(w, b) /\ b \in Block
    BY <1>8, SourceBlocks DEF W!DeliverFails
  <2>2. /\ held' \in Replicas /\ cache' \in Replicas /\ file' \in Replicas
        /\ opened' \in [Workers -> SUBSET Elections]
        /\ torn' \in [Workers -> BOOLEAN] /\ writeFailures' \in Nat
    BY <2>1, TakeInFailsTypes
  <2>3. inbox' \in [Workers -> SUBSET Block]
    BY <1>1, <1>8 DEF W!DeliverFails, WorkerTypes
  <2> QED
    BY <1>1, <1>8, <2>2, <2>3 DEF W!DeliverFails, WorkerTypes
<1>9. CASE W!Halt(w) \/ W!Die(w)
  <2>1. W!Gone(w) /\ torn' \in [Workers -> BOOLEAN]
    BY <1>1, <1>9 DEF W!Halt, W!Die, W!DieWriting, WorkerTypes
  <2> QED
    BY <2>1, GoneTypes, ReplicaTypes
<1>10. ASSUME NEW b \in inbox[w], W!Garble(w, b)
       PROVE  WorkerTypes'
  <2>1. PICK c \in Block :
            /\ inbox' = [inbox EXCEPT ![w] = (inbox[w] \ {b}) \union {c}]
            /\ undetected' = (undetected \/ IsValid(c))
            /\ garbled' = garbled + 1
            /\ UNCHANGED <<phase, fetched, opened, held, cache, file, torn,
                           halts, writeFailures>>
    BY <1>10, SourceBlocks, GarbleCases
  <2>2. inbox' \in [Workers -> SUBSET Block]
    BY <1>1, <2>1 DEF WorkerTypes
  <2>3. garbled' \in Nat /\ undetected' \in BOOLEAN
    BY <1>1, <2>1 DEF WorkerTypes, IsValid
  <2> QED
    BY <1>1, <2>1, <2>2, <2>3 DEF WorkerTypes
<1> QED
  BY <1>3, <1>4, <1>5, <1>6, <1>7, <1>8, <1>9, <1>10 DEF W!Progress

LEMMA FetchTypes ==
    ASSUME W!TypeOK, stored \in [Elections -> Seq(Block)], NEW w \in Workers,
           W!Fetch(w, stored)
    PROVE  W!TypeOK'
<1>1. WorkerTypes
  BY ReplicaTypes
<1>2. [e \in Elections |-> IF e \in Followed[w] THEN stored[e] ELSE << >>]
          \in [Elections -> Seq(Block)]
  OBVIOUS
<1>3. fetched' \in Replicas
  BY <1>1, <1>2, ReplaceWorker DEF W!Fetch, WorkerTypes
<1>4. phase' \in [Workers -> {"down", "fetching", "syncing", "connecting",
                              "ready"}]
  BY <1>1 DEF W!Fetch, WorkerTypes
<1> QED
  BY <1>1, <1>3, <1>4, ReplicaTypes DEF W!Fetch, WorkerTypes

LEMMA ReceiveTypes ==
    ASSUME W!TypeOK, NEW b \in Block, W!Receive(b)
    PROVE  W!TypeOK'
<1>1. inbox' \in [Workers -> SUBSET Block]
  BY ReplicaTypes DEF W!Receive, WorkerTypes
<1> QED
  BY <1>1, ReplicaTypes DEF W!Receive, WorkerTypes

-----------------------------------------------------------------------------

NetTypeInv == MP!TypeInv /\ W!TypeOK /\ lostPublishes \in Nat

LEMMA InitNetTypeInv == Init => NetTypeInv
<1> SUFFICES ASSUME Init PROVE NetTypeInv
  OBVIOUS
<1>1. [w \in Workers |-> W!NoBlocks] \in Replicas
  BY NoBlocksType DEF Replicas
<1>2. WorkerTypes
  BY <1>1 DEF Init, W!Init, WorkerTypes
<1> QED
  BY <1>2, MasterTypes, ReplicaTypes DEF Init, NetTypeInv

LEMMA NextNetTypeInv == NetTypeInv /\ [Next]_vars => NetTypeInv'
<1> SUFFICES ASSUME NetTypeInv, [Next]_vars PROVE NetTypeInv'
  OBVIOUS
<1>1. MP!TypeInv /\ MP!TypeInv' /\ W!TypeOK /\ lostPublishes \in Nat
  BY MasterTypes DEF NetTypeInv
<1>2. stored \in [Elections -> Seq(Block)] /\ outbox \subseteq Block
  BY <1>1, SameBlocks DEF MP!TypeInv, MP!TypeOK
<1>3. CASE UNCHANGED workerVars /\ lostPublishes' = lostPublishes
  BY <1>1, <1>3, ReplicaTypes DEF workerVars, WorkerTypes, NetTypeInv
<1>4. CASE WorkerStep
  BY <1>1, <1>4, WorkerStepTypes DEF WorkerStep, W!Next, NetTypeInv
<1>5. ASSUME NEW w \in Workers, FetchChain(w)
      PROVE  NetTypeInv'
  BY <1>1, <1>2, <1>5, FetchTypes DEF FetchChain, NetTypeInv
<1>6. ASSUME NEW b \in outbox, Send(b)
      PROVE  NetTypeInv'
  BY <1>1, <1>2, <1>6, ReceiveTypes DEF Send, NetTypeInv
<1>7. ASSUME NEW b \in outbox, SendFails(b)
      PROVE  NetTypeInv'
  <2>1. W!TypeOK'
    BY <1>1, <1>7, ReplicaTypes DEF SendFails, workerVars, WorkerTypes
  <2>2. lostPublishes' \in Nat
    BY <1>1, <1>7 DEF SendFails
  <2> QED
    BY <1>1, <2>1, <2>2 DEF NetTypeInv
<1>8. MasterStep \/ UNCHANGED vars =>
          UNCHANGED workerVars /\ lostPublishes' = lostPublishes
  BY DEF MasterStep, vars
<1> QED
  BY <1>3, <1>4, <1>5, <1>6, <1>7, <1>8 DEF Next

(* The network's state stays well typed, for any number of workers and     *)
(* however often anything is lost, repeated, altered, stopped or failing.  *)
THEOREM NetworkTypeCorrect == Spec => []TypeOK
<1>1. NetTypeInv => TypeOK
  BY MasterTypes DEF NetTypeInv, TypeOK
<1> QED
  BY InitNetTypeInv, NextNetTypeInv, <1>1, PTL DEF Spec

-----------------------------------------------------------------------------
(* What a worker holds is on its disk, and it forgets nothing while it     *)
(* runs.  For both a worker that is down must hold nothing, and have no    *)
(* message that could still be delivered to it.                            *)

DiskInv ==
    \A w \in Workers :
        /\ phase[w] = "down" =>
               held[w] = W!NoBlocks /\ opened[w] = {} /\ inbox[w] = {}
        /\ \A e \in Elections : e \notin opened[w] => held[w][e] = << >>
        /\ phase[w] # "down" /\ writeFailures = 0 =>
               /\ cache[w] = file[w]
               /\ \A e \in opened[w] : held[w][e] = cache[w][e]

DiskTypeInv == NetTypeInv /\ DiskInv

(* Which chains are in memory, and what they hold                          *)
LEMMA HoldsChains ==
    ASSUME W!TypeOK, NEW w \in Workers, NEW e \in Elections,
           NEW chain, Holds(w, e, chain)
    PROVE  /\ opened'[w] = opened[w] \union {e} /\ held'[w][e] = chain
           /\ \A x \in Workers : x # w => /\ opened'[x] = opened[x]
                                          /\ held'[x] = held[x]
           /\ \A y \in Elections : y # e => held'[w][y] = held[w][y]
<1>1. /\ held \in [Workers -> [Elections -> Seq(Block)]]
      /\ opened \in [Workers -> SUBSET Elections]
  BY ReplicaTypes DEF WorkerTypes, Replicas
<1>2. held'[w] = [held[w] EXCEPT ![e] = chain]
  BY <1>1 DEF Holds
<1>3. held[w] \in [Elections -> Seq(Block)]
  BY <1>1
<1> QED
  BY <1>1, <1>2, <1>3 DEF Holds

(* The other workers' chains, and this one's together with its file        *)
OnDisk(w) == /\ cache[w] = file[w]
             /\ \A e \in opened[w] : held[w][e] = cache[w][e]

LEMMA TakeInDisk ==
    ASSUME W!TypeOK, NEW w \in Workers, NEW b \in Block, W!TakeIn(w, b)
    PROVE  /\ \A x \in Workers : x # w => /\ opened'[x] = opened[x]
                                          /\ held'[x] = held[x]
                                          /\ cache'[x] = cache[x]
                                          /\ file'[x] = file[x]
           /\ OnDisk(w) => OnDisk(w)'
           /\ \A e \in Elections : e \notin opened'[w] =>
                  e \notin opened[w] /\ held'[w][e] = held[w][e]
<1> DEFINE Goal ==
        /\ \A x \in Workers : x # w => /\ opened'[x] = opened[x]
                                       /\ held'[x] = held[x]
                                       /\ cache'[x] = cache[x]
                                       /\ file'[x] = file[x]
        /\ OnDisk(w) => OnDisk(w)'
        /\ \A e \in Elections : e \notin opened'[w] =>
               e \notin opened[w] /\ held'[w][e] = held[w][e]
<1>1. /\ held \in Replicas /\ cache \in Replicas /\ file \in Replicas
      /\ opened \in [Workers -> SUBSET Elections]
  BY ReplicaTypes DEF WorkerTypes
<1>2. CASE UNCHANGED <<opened, held, cache, file, torn>>
  BY <1>2 DEF OnDisk
<1>3. ASSUME NEW e \in Elections, Opens(w, b, e), UNCHANGED <<cache, file, torn>>
      PROVE  Goal
  <2>1. /\ opened'[w] = opened[w] \union {e} /\ held'[w][e] = W!Loaded(w, e)
        /\ \A x \in Workers : x # w => opened'[x] = opened[x] /\ held'[x] = held[x]
        /\ \A y \in Elections : y # e => held'[w][y] = held[w][y]
    BY <1>3, HoldsChains DEF Opens
  <2>2. ASSUME OnDisk(w), NEW y \in opened'[w]
        PROVE  held'[w][y] = cache'[w][y]
    <3>1. y \in Elections
      BY <1>1, <2>1, <2>2
    <3> QED
      BY <1>3, <2>1, <2>2, <3>1 DEF OnDisk, W!Loaded
  <2>3. OnDisk(w) => cache'[w] = file'[w]
    BY <1>3 DEF OnDisk
  <2>4. OnDisk(w) => OnDisk(w)'
    BY <2>2, <2>3 DEF OnDisk
  <2> QED
    BY <1>3, <2>1, <2>4
<1>4. ASSUME NEW e \in Elections, Gains(w, b, e), CacheGains(w, b, e),
             FileFollows(w, b, e)
      PROVE  Goal
  <2> DEFINE longer == InsertInOrder(W!Loaded(w, e), b)
  <2>1. /\ opened'[w] = opened[w] \union {e} /\ held'[w][e] = longer
        /\ \A x \in Workers : x # w => opened'[x] = opened[x] /\ held'[x] = held[x]
        /\ \A y \in Elections : y # e => held'[w][y] = held[w][y]
    BY <1>4, HoldsChains DEF Gains
  <2>2. cache[w] \in [Elections -> Seq(Block)]
    BY <1>1 DEF Replicas
  <2>3. /\ cache'[w] = [cache[w] EXCEPT ![e] = StorageAppend(cache[w][e], b)]
        /\ \A x \in Workers : x # w => cache'[x] = cache[x]
    BY <1>1, <1>4 DEF CacheGains, Replicas
  <2>4. /\ cache'[w][e] = StorageAppend(cache[w][e], b)
        /\ \A y \in Elections : y # e => cache'[w][y] = cache[w][y]
    BY <2>2, <2>3
  <2>5. \A x \in Workers : x # w => file'[x] = file[x]
    BY <1>1, <1>4 DEF FileFollows, Replicas
  <2>6. ASSUME OnDisk(w) PROVE OnDisk(w)'
    <3>1. W!Loaded(w, e) = cache[w][e]
      BY <2>6 DEF OnDisk, W!Loaded
    <3>2. ~Has(cache[w][e], b.index)
      BY <1>4, <3>1 DEF Gains
    <3>3. StorageAppend(cache[w][e], b) = longer
      BY <3>1, <3>2 DEF StorageAppend
    <3>4. file'[w] = cache'[w]
      BY <1>1, <1>4, <3>2 DEF FileFollows, Replicas
    <3>5. ASSUME NEW y \in opened'[w]
          PROVE  held'[w][y] = cache'[w][y]
      <4>1. y \in Elections
        BY <1>1, <2>1, <3>5
      <4>2. CASE y = e
        BY <2>1, <2>4, <3>3, <4>2
      <4>3. CASE y # e
        BY <2>1, <2>4, <2>6, <3>5, <4>1, <4>3 DEF OnDisk
      <4> QED
        BY <4>2, <4>3
    <3> QED
      BY <3>4, <3>5 DEF OnDisk
  <2> QED
    BY <2>1, <2>3, <2>5, <2>6
<1> QED
  BY <1>2, <1>3, <1>4, TakeInCases

LEMMA HoldsGrows ==
    ASSUME W!TypeOK, DiskInv, NEW w \in Workers, NEW e \in Elections,
           NEW chain \in Seq(Block), Holds(w, e, chain),
           RowsOf(W!Loaded(w, e)) \subseteq RowsOf(chain),
           NEW x \in Workers, NEW y \in Elections
    PROVE  RowsOf(held[x][y]) \subseteq RowsOf(held'[x][y])
<1>1. /\ held'[w][e] = chain
      /\ x # w => held'[x] = held[x]
      /\ y # e => held'[w][y] = held[w][y]
  BY HoldsChains
<1>2. CASE x # w \/ y # e
  BY <1>1, <1>2
<1>3. CASE x = w /\ y = e
  <2>1. e \notin opened[w] => held[w][e] = << >>
    BY DEF DiskInv
  <2>2. RowsOf(<< >>) = {}
    BY DEF RowsOf
  <2>3. RowsOf(held[w][e]) \subseteq RowsOf(W!Loaded(w, e))
    BY <2>1, <2>2 DEF W!Loaded
  <2> QED
    BY <1>1, <1>3, <2>3
<1> QED
  BY <1>2, <1>3

LEMMA TakeInGrows ==
    ASSUME W!TypeOK, DiskInv, NEW w \in Workers, NEW b \in Block,
           W!TakeIn(w, b) \/ W!TakeInFails(w, b),
           NEW x \in Workers, NEW y \in Elections
    PROVE  RowsOf(held[x][y]) \subseteq RowsOf(held'[x][y])
<1>1. CASE UNCHANGED <<opened, held, cache, file, torn>>
  BY <1>1
<1>2. ASSUME NEW e \in Elections, Opens(w, b, e)
      PROVE  RowsOf(held[x][y]) \subseteq RowsOf(held'[x][y])
  BY <1>2, LoadedType, HoldsGrows DEF Opens
<1>3. ASSUME NEW e \in Elections, Gains(w, b, e)
      PROVE  RowsOf(held[x][y]) \subseteq RowsOf(held'[x][y])
  <2> DEFINE longer == InsertInOrder(W!Loaded(w, e), b)
  <2>1. W!Loaded(w, e) \in Seq(Block)
    BY LoadedType
  <2>2. longer \in Seq(Block) /\ RowsOf(W!Loaded(w, e)) \subseteq RowsOf(longer)
    BY <2>1, InsertRows DEF RowsOf
  <2>3. Holds(w, e, longer)
    BY <1>3 DEF Gains
  <2> HIDE DEF longer
  <2> QED
    BY <2>2, <2>3, HoldsGrows
<1> QED
  BY <1>1, <1>2, <1>3, TakeInCases, TakeInFailsCases

LEMMA InitDiskInv == Init => DiskInv
  BY DEF Init, W!Init, W!NoBlocks, DiskInv

LEMMA WorkerStepDisk ==
    ASSUME W!TypeOK, DiskInv, NEW w \in Workers,
           \/ W!Progress(w) \/ W!SyncFails(w) \/ W!Halt(w) \/ W!Die(w)
           \/ \E b \in inbox[w] :
                  W!DeliverAckLost(w, b) \/ W!DeliverFails(w, b) \/ W!Garble(w, b)
    PROVE  DiskInv'
<1>1. WorkerTypes
  BY ReplicaTypes
<1>2. CASE W!Start(w)
  BY <1>1, <1>2 DEF W!Start, WorkerTypes, Replicas, DiskInv
<1>3. ASSUME NEW b \in Block, W!TakeIn(w, b), phase' = phase, phase[w] # "down",
             writeFailures' = writeFailures,
             \A x \in Workers : inbox'[x] \subseteq inbox[x]
      PROVE  DiskInv'
  <2>1. /\ \A x \in Workers : x # w => /\ opened'[x] = opened[x]
                                       /\ held'[x] = held[x]
                                       /\ cache'[x] = cache[x]
                                       /\ file'[x] = file[x]
        /\ OnDisk(w) => OnDisk(w)'
        /\ \A e \in Elections : e \notin opened'[w] =>
               e \notin opened[w] /\ held'[w][e] = held[w][e]
    BY <1>3, TakeInDisk
  <2> QED
    BY <1>3, <2>1 DEF DiskInv, OnDisk
<1>4. CASE W!Sync(w)
  <2>1. PICK e \in Elections : /\ fetched[w][e] # << >>
                              /\ W!TakeIn(w, Head(fetched[w][e]))
    BY <1>4 DEF W!Sync
  <2>2. Head(fetched[w][e]) \in Block
    BY <2>1, SourceBlocks
  <2> QED
    BY <1>3, <1>4, <2>1, <2>2 DEF W!Sync
<1>5. CASE W!FinishSync(w) \/ W!Subscribe(w)
  BY <1>1, <1>5 DEF W!FinishSync, W!Subscribe, WorkerTypes, DiskInv
<1>6. ASSUME NEW b \in inbox[w], W!Deliver(w, b) \/ W!DeliverAckLost(w, b)
      PROVE  DiskInv'
  <2>1. W!TakeIn(w, b) /\ b \in Block /\ phase[w] # "down"
    BY <1>6, SourceBlocks DEF W!Deliver, W!DeliverAckLost, DiskInv
  <2>2. \A x \in Workers : inbox'[x] \subseteq inbox[x]
    BY <1>1, <1>6 DEF W!Deliver, W!DeliverAckLost, WorkerTypes
  <2> QED
    BY <1>3, <1>6, <2>1, <2>2 DEF W!Deliver, W!DeliverAckLost
<1>7. ASSUME NEW b \in Block, W!TakeInFails(w, b), phase'[w] # "down",
             phase[w] # "down",
             \A x \in Workers : /\ x # w => phase'[x] = phase[x]
                                /\ inbox'[x] \subseteq inbox[x]
      PROVE  DiskInv'
  <2>1. PICK e \in Elections : Opens(w, b, e)
    BY <1>7, TakeInFailsCases
  <2>2. writeFailures' # 0
    BY <1>1, <1>7, TakeInFailsCases DEF WorkerTypes
  <2>3. /\ opened'[w] = opened[w] \union {e}
        /\ \A x \in Workers : x # w => opened'[x] = opened[x] /\ held'[x] = held[x]
        /\ \A y \in Elections : y # e => held'[w][y] = held[w][y]
    BY <2>1, HoldsChains DEF Opens
  <2> QED
    BY <1>7, <2>2, <2>3 DEF DiskInv
<1>8. CASE W!SyncFails(w)
  <2>1. PICK e \in Elections : /\ fetched[w][e] # << >>
                              /\ W!TakeInFails(w, Head(fetched[w][e]))
    BY <1>8 DEF W!SyncFails
  <2>2. Head(fetched[w][e]) \in Block
    BY <2>1, SourceBlocks
  <2>3. /\ phase[w] # "down" /\ phase'[w] # "down" /\ inbox' = inbox
        /\ \A x \in Workers : x # w => phase'[x] = phase[x]
    BY <1>1, <1>8 DEF W!SyncFails, WorkerTypes
  <2> QED
    BY <1>7, <2>1, <2>2, <2>3
<1>9. ASSUME NEW b \in inbox[w], W!DeliverFails(w, b)
      PROVE  DiskInv'
  <2>1. /\ W!TakeInFails(w, b) /\ b \in Block /\ phase[w] # "down"
        /\ phase' = phase
    BY <1>9, SourceBlocks DEF W!DeliverFails, DiskInv
  <2>2. \A x \in Workers : inbox'[x] \subseteq inbox[x]
    BY <1>1, <1>9 DEF W!DeliverFails, WorkerTypes
  <2> QED
    BY <1>7, <2>1, <2>2
<1>10. CASE W!Halt(w) \/ W!Die(w)
  <2>1. W!Gone(w)
    BY <1>10 DEF W!Halt, W!Die, W!DieWriting
  <2> QED
    BY <1>1, <2>1 DEF W!Gone, W!NoBlocks, WorkerTypes, Replicas, DiskInv
<1>11. ASSUME NEW b \in inbox[w], W!Garble(w, b)
       PROVE  DiskInv'
  <2>1. /\ phase[w] # "down"
        /\ UNCHANGED <<phase, opened, held, cache, file, writeFailures>>
        /\ \A x \in Workers : x # w => inbox'[x] = inbox[x]
    BY <1>1, <1>11 DEF W!Garble, WorkerTypes, DiskInv
  <2> QED
    BY <2>1 DEF DiskInv
<1> QED
  BY <1>2, <1>4, <1>5, <1>6, <1>8, <1>9, <1>10, <1>11 DEF W!Progress

LEMMA NextDiskInv == DiskTypeInv /\ [Next]_vars => DiskTypeInv'
<1> SUFFICES ASSUME DiskTypeInv, [Next]_vars PROVE DiskInv'
  BY NextNetTypeInv DEF DiskTypeInv
<1>1. W!TypeOK /\ DiskInv /\ WorkerTypes
  BY ReplicaTypes DEF DiskTypeInv, NetTypeInv
<1>2. CASE UNCHANGED workerVars
  BY <1>1, <1>2 DEF workerVars, DiskInv
<1>3. CASE WorkerStep
  BY <1>1, <1>3, WorkerStepDisk DEF WorkerStep, W!Next
<1>4. ASSUME NEW w \in Workers, FetchChain(w)
      PROVE  DiskInv'
  BY <1>1, <1>4 DEF FetchChain, W!Fetch, WorkerTypes, DiskInv
<1>5. ASSUME NEW b \in outbox, Send(b)
      PROVE  DiskInv'
  BY <1>1, <1>5 DEF Send, W!Receive, WorkerTypes, DiskInv
<1>6. MasterStep \/ (\E b \in outbox : SendFails(b)) \/ UNCHANGED vars
          => UNCHANGED workerVars
  BY DEF MasterStep, SendFails, vars
<1> QED
  BY <1>2, <1>3, <1>4, <1>5, <1>6 DEF Next

(* Until a file write has failed, a running worker holds what is on its    *)
(* disk, so a restart reloads exactly the chain it had, for any number of  *)
(* workers and whatever is halted, lost, repeated or altered.              *)
THEOREM HeldStaysOnDisk == Spec => []HeldIsOnDisk
<1>1. DiskTypeInv => HeldIsOnDisk
  BY DEF DiskTypeInv, DiskInv, HeldIsOnDisk
<1> QED
  BY InitNetTypeInv, InitDiskInv, NextDiskInv, <1>1, PTL DEF Spec, DiskTypeInv

LEMMA WorkerStepGrows ==
    ASSUME W!TypeOK, DiskInv, NEW w \in Workers,
           \/ W!Progress(w) \/ W!SyncFails(w) \/ W!Halt(w) \/ W!Die(w)
           \/ \E b \in inbox[w] :
                  W!DeliverAckLost(w, b) \/ W!DeliverFails(w, b) \/ W!Garble(w, b),
           NEW x \in Workers, phase'[x] # "down", NEW y \in Elections
    PROVE  RowsOf(held[x][y]) \subseteq RowsOf(held'[x][y])
<1>1. WorkerTypes
  BY ReplicaTypes
<1>2. CASE held'[x] = held[x]
  BY <1>2
<1>3. CASE W!Sync(w) \/ W!SyncFails(w)
  <2>1. PICK e \in Elections :
            /\ fetched[w][e] # << >>
            /\ \/ W!TakeIn(w, Head(fetched[w][e]))
               \/ W!TakeInFails(w, Head(fetched[w][e]))
    BY <1>3 DEF W!Sync, W!SyncFails
  <2>2. Head(fetched[w][e]) \in Block
    BY <2>1, SourceBlocks
  <2> QED
    BY <2>1, <2>2, TakeInGrows
<1>4. CASE \E b \in inbox[w] :
               W!Deliver(w, b) \/ W!DeliverAckLost(w, b) \/ W!DeliverFails(w, b)
  BY <1>4, SourceBlocks, TakeInGrows
  DEF W!Deliver, W!DeliverAckLost, W!DeliverFails
<1>5. CASE W!Halt(w) \/ W!Die(w)
  <2>1. W!Gone(w)
    BY <1>5 DEF W!Halt, W!Die, W!DieWriting
  <2> QED
    BY <1>1, <1>2, <2>1 DEF W!Gone, WorkerTypes, Replicas
<1>6. W!Start(w) \/ W!FinishSync(w) \/ W!Subscribe(w)
        \/ (\E b \in inbox[w] : W!Garble(w, b))
          => held' = held
  BY DEF W!Start, W!FinishSync, W!Subscribe, W!Garble
<1> QED
  BY <1>2, <1>3, <1>4, <1>5, <1>6 DEF W!Progress

(* A running worker forgets no block, whatever it is delivered and         *)
(* whichever of its writes fail.                                           *)
THEOREM HeldGrows == Spec => HeldOnlyGrows
<1>1. ASSUME DiskTypeInv, [Next]_vars,
             NEW x \in Workers, phase'[x] # "down", NEW y \in Elections
      PROVE  RowsOf(held[x][y]) \subseteq RowsOf(held'[x][y])
  <2>1. W!TypeOK /\ DiskInv
    BY <1>1 DEF DiskTypeInv, NetTypeInv
  <2>2. CASE WorkerStep
    BY <1>1, <2>1, <2>2, WorkerStepGrows DEF WorkerStep, W!Next
  <2>3. ~WorkerStep => held' = held
    BY <1>1 DEF Next, MasterStep, FetchChain, W!Fetch, Send, W!Receive,
                SendFails, workerVars, vars
  <2> QED
    BY <2>2, <2>3
<1>2. DiskTypeInv /\ [Next]_vars =>
          [\A w \in Workers : phase'[w] # "down" =>
               \A e \in Elections : RowsOf(held[w][e]) \subseteq RowsOf(held'[w][e])
          ]_<<held, phase>>
  BY <1>1
<1> QED
  BY InitNetTypeInv, InitDiskInv, NextDiskInv, <1>2, PTL
  DEF Spec, DiskTypeInv, HeldOnlyGrows

-----------------------------------------------------------------------------
(* What a worker has comes from the master's storage, and stays in order.  *)
(* The blocks it may come to hold are a parameter A: those of storage,     *)
(* and, once an altered message kept its hash, the valid blocks that have  *)
(* the index and hashes of one of them.  F are the blocks of messages.     *)

Copies(f, A) ==
    \A w \in Workers, e \in Elections :
        RowsOf(f[w][e]) \subseteq {b \in A : b.electionId = e}

Ordered(f) == \A w \in Workers, e \in Elections : Sorted(f[w][e])

Messages(A, F) == {b \in F : IsValid(b) => b \in A}

ReplicaInv(A, F) ==
    /\ Copies(fetched, A)
    /\ Copies(held, A) /\ Ordered(held)
    /\ Copies(cache, A) /\ Ordered(cache)
    /\ Copies(file, A) /\ Ordered(file)
    /\ \A w \in Workers : inbox[w] \subseteq Messages(A, F)

Framed(S) ==
    {b \in Block : \E s \in S : /\ b.index = s.index /\ b.hash = s.hash
                                /\ b.prevHash = s.prevHash}

Accepted(S, all) == IF all THEN {b \in Framed(S) : IsValid(b)} ELSE S

LEMMA SetChain ==
    ASSUME NEW A, NEW f \in Replicas, Copies(f, A),
           NEW w \in Workers, NEW e \in Elections, NEW chain \in Seq(Block),
           RowsOf(chain) \subseteq {b \in A : b.electionId = e}
    PROVE  LET g == [f EXCEPT ![w] = [f[w] EXCEPT ![e] = chain]]
           IN  /\ g \in Replicas
               /\ Copies(g, A)
               /\ Ordered(f) /\ Sorted(chain) => Ordered(g)
<1> DEFINE g == [f EXCEPT ![w] = [f[w] EXCEPT ![e] = chain]]
<1>1. /\ g \in Replicas /\ g[w][e] = chain
      /\ \A x \in Workers, y \in Elections : x # w \/ y # e => g[x][y] = f[x][y]
  <2>1. g \in Replicas
    BY ReplaceChain
  <2>2. f[w] \in [Elections -> Seq(Block)]
    BY ChainType
  <2>3. g[w] = [f[w] EXCEPT ![e] = chain] /\ \A x \in Workers : x # w => g[x] = f[x]
    BY DEF Replicas
  <2> HIDE DEF g
  <2>4. g[w][e] = chain /\ \A y \in Elections : y # e => g[w][y] = f[w][y]
    BY <2>2, <2>3
  <2> QED
    BY <2>1, <2>3, <2>4
<1> HIDE DEF g
<1>2. Copies(g, A)
  BY <1>1 DEF Copies
<1>3. Ordered(f) /\ Sorted(chain) => Ordered(g)
  BY <1>1 DEF Ordered
<1> QED
  BY <1>1, <1>2, <1>3 DEF g

LEMMA SetWorker ==
    ASSUME NEW A, NEW f \in Replicas, Copies(f, A), NEW w \in Workers,
           NEW chains \in [Elections -> Seq(Block)],
           \A e \in Elections :
               RowsOf(chains[e]) \subseteq {b \in A : b.electionId = e}
    PROVE  LET g == [f EXCEPT ![w] = chains]
           IN  /\ Copies(g, A)
               /\ Ordered(f) /\ (\A e \in Elections : Sorted(chains[e]))
                      => Ordered(g)
<1> DEFINE g == [f EXCEPT ![w] = chains]
<1>1. g[w] = chains /\ \A x \in Workers : x # w => g[x] = f[x]
  BY DEF Replicas
<1> HIDE DEF g
<1>2. Copies(g, A)
  BY <1>1 DEF Copies
<1>3. Ordered(f) /\ (\A e \in Elections : Sorted(chains[e])) => Ordered(g)
  BY <1>1 DEF Ordered
<1> QED
  BY <1>2, <1>3 DEF g

LEMMA NoBlocksAreCopies ==
    /\ W!NoBlocks \in [Elections -> Seq(Block)]
    /\ \A e \in Elections : RowsOf(W!NoBlocks[e]) = {} /\ Sorted(W!NoBlocks[e])
<1>1. \A e \in Elections : W!NoBlocks[e] = << >>
  BY DEF W!NoBlocks
<1> QED
  BY <1>1, NoBlocksType DEF RowsOf, Sorted

LEMMA CacheGainsCopies ==
    ASSUME NEW A, NEW F, W!TypeOK, ReplicaInv(A, F), NEW w \in Workers, NEW b \in Block,
           b \in A, NEW e \in Elections, e = b.electionId, CacheGains(w, b, e)
    PROVE  cache' \in Replicas /\ Copies(cache', A) /\ Ordered(cache')
<1> DEFINE chain == cache[w][e]
           longer == StorageAppend(chain, b)
<1>1. cache \in Replicas /\ chain \in Seq(Block)
  BY ReplicaTypes, ChainType DEF WorkerTypes
<1>2. /\ RowsOf(chain) \subseteq {c \in A : c.electionId = e} /\ Sorted(chain)
      /\ Copies(cache, A) /\ Ordered(cache)
  BY DEF ReplicaInv, Copies, Ordered
<1>3. cache' = [cache EXCEPT ![w] = [cache[w] EXCEPT ![e] = longer]]
  BY DEF CacheGains
<1> HIDE DEF chain
<1>4. longer \in Seq(Block) /\ RowsOf(longer) \subseteq RowsOf(chain) \union {b}
  BY <1>1, StorageAppendRows DEF RowsOf
<1>5. Sorted(longer)
  <2>1. CASE Has(chain, b.index)
    BY <1>2, <2>1 DEF StorageAppend
  <2>2. CASE ~Has(chain, b.index)
    BY <1>1, <1>2, <2>2, InsertSorted DEF StorageAppend
  <2> QED
    BY <2>1, <2>2
<1>6. RowsOf(longer) \subseteq {c \in A : c.electionId = e}
  BY <1>2, <1>4
<1> HIDE DEF longer
<1> QED
  BY <1>1, <1>2, <1>3, <1>4, <1>5, <1>6, SetChain

LEMMA LoadedCopies ==
    ASSUME NEW A, NEW F, ReplicaInv(A, F),
           NEW w \in Workers, NEW e \in Elections
    PROVE  /\ RowsOf(W!Loaded(w, e)) \subseteq {b \in A : b.electionId = e}
           /\ Sorted(W!Loaded(w, e))
  BY DEF ReplicaInv, Copies, Ordered, W!Loaded

LEMMA HoldsCopies ==
    ASSUME NEW A, NEW F, W!TypeOK, ReplicaInv(A, F), NEW w \in Workers,
           NEW e \in Elections, NEW chain \in Seq(Block), Holds(w, e, chain),
           RowsOf(chain) \subseteq {b \in A : b.electionId = e}, Sorted(chain)
    PROVE  Copies(held', A) /\ Ordered(held')
<1>1. held \in Replicas /\ Copies(held, A) /\ Ordered(held)
  BY ReplicaTypes DEF WorkerTypes, ReplicaInv
<1>2. held' = [held EXCEPT ![w] = [held[w] EXCEPT ![e] = chain]]
  BY DEF Holds
<1> QED
  BY <1>1, <1>2, SetChain

LEMMA OpensCopies ==
    ASSUME NEW A, NEW F, W!TypeOK, ReplicaInv(A, F), NEW w \in Workers,
           NEW b, NEW e \in Elections, Opens(w, b, e)
    PROVE  Copies(held', A) /\ Ordered(held')
  BY LoadedType, LoadedCopies, HoldsCopies DEF Opens

LEMMA GainsCopies ==
    ASSUME NEW A, NEW F, W!TypeOK, ReplicaInv(A, F), NEW w \in Workers,
           NEW b \in Block, b \in A, NEW e \in Elections, Gains(w, b, e)
    PROVE  Copies(held', A) /\ Ordered(held')
<1> DEFINE chain == W!Loaded(w, e)
           longer == InsertInOrder(chain, b)
<1>1. chain \in Seq(Block)
  BY LoadedType
<1>2. RowsOf(chain) \subseteq {c \in A : c.electionId = e} /\ Sorted(chain)
  BY LoadedCopies
<1>3. Holds(w, e, longer) /\ ~Has(chain, b.index) /\ b.electionId = e
  BY DEF Gains
<1> HIDE DEF chain
<1>4. longer \in Seq(Block) /\ RowsOf(longer) = RowsOf(chain) \union {b}
  BY <1>1, InsertRows DEF RowsOf
<1>5. Sorted(longer)
  BY <1>1, <1>2, <1>3, InsertSorted
<1>6. RowsOf(longer) \subseteq {c \in A : c.electionId = e}
  BY <1>2, <1>3, <1>4
<1> HIDE DEF longer
<1> QED
  BY <1>3, <1>4, <1>5, <1>6, HoldsCopies

LEMMA TakeInCopies ==
    ASSUME NEW A, NEW F, W!TypeOK, ReplicaInv(A, F), NEW w \in Workers,
           NEW b \in Block, b \in Messages(A, F), W!TakeIn(w, b)
    PROVE  /\ Copies(held', A) /\ Ordered(held')
           /\ Copies(cache', A) /\ Ordered(cache')
           /\ Copies(file', A) /\ Ordered(file')
<1>1. CASE UNCHANGED <<opened, held, cache, file, torn>>
  BY <1>1 DEF ReplicaInv
<1>2. ASSUME NEW e \in Elections, Opens(w, b, e), UNCHANGED <<cache, file, torn>>
      PROVE  /\ Copies(held', A) /\ Ordered(held')
             /\ Copies(cache', A) /\ Ordered(cache')
             /\ Copies(file', A) /\ Ordered(file')
  BY <1>2, OpensCopies DEF ReplicaInv
<1>3. ASSUME NEW e \in Elections, Gains(w, b, e), CacheGains(w, b, e),
             FileFollows(w, b, e)
      PROVE  /\ Copies(held', A) /\ Ordered(held')
             /\ Copies(cache', A) /\ Ordered(cache')
             /\ Copies(file', A) /\ Ordered(file')
  <2>1. b \in A /\ e = b.electionId
    BY <1>3 DEF Gains, Messages
  <2>2. Copies(held', A) /\ Ordered(held')
    BY <1>3, <2>1, GainsCopies
  <2>3. cache' \in Replicas /\ Copies(cache', A) /\ Ordered(cache')
    BY <1>3, <2>1, CacheGainsCopies
  <2>4. file \in Replicas /\ Copies(file, A) /\ Ordered(file)
    BY ReplicaTypes DEF WorkerTypes, ReplicaInv
  <2>5. /\ cache'[w] \in [Elections -> Seq(Block)]
        /\ \A y \in Elections :
               /\ RowsOf(cache'[w][y]) \subseteq {c \in A : c.electionId = y}
               /\ Sorted(cache'[w][y])
    BY <2>3 DEF Copies, Ordered, Replicas
  <2>6. UNCHANGED file \/ file' = [file EXCEPT ![w] = cache'[w]]
    BY <1>3 DEF FileFollows
  <2>7. Copies(file', A) /\ Ordered(file')
    BY <2>4, <2>5, <2>6, SetWorker
  <2> QED
    BY <2>2, <2>3, <2>7
<1> QED
  BY <1>1, <1>2, <1>3, TakeInCases

LEMMA TakeInFailsCopies ==
    ASSUME NEW A, NEW F, W!TypeOK, ReplicaInv(A, F), NEW w \in Workers,
           NEW b \in Block, b \in Messages(A, F), W!TakeInFails(w, b)
    PROVE  /\ Copies(held', A) /\ Ordered(held')
           /\ Copies(cache', A) /\ Ordered(cache')
           /\ UNCHANGED file
<1>1. PICK e \in Elections : IsValid(b) /\ Opens(w, b, e) /\ CacheGains(w, b, e)
  BY TakeInFailsCases
<1>2. b \in A /\ e = b.electionId
  BY <1>1 DEF Messages, Opens
<1> QED
  BY <1>1, <1>2, OpensCopies, CacheGainsCopies, TakeInFailsCases

(* What is left of a response, and its first block                         *)
LEMMA FetchedCopies ==
    ASSUME NEW A, NEW F, W!TypeOK, ReplicaInv(A, F), NEW w \in Workers,
           NEW e \in Elections, fetched[w][e] # << >>, A \subseteq F
    PROVE  /\ Head(fetched[w][e]) \in Block
           /\ Head(fetched[w][e]) \in Messages(A, F)
           /\ Head(fetched[w][e]).electionId = e
           /\ Copies([fetched EXCEPT ![w] =
                         [fetched[w] EXCEPT ![e] = Tail(fetched[w][e])]], A)
<1> DEFINE rows == fetched[w][e]
           rest == Tail(rows)
<1>1. fetched \in Replicas /\ rows \in Seq(Block) /\ Copies(fetched, A)
  BY ReplicaTypes, ChainType DEF WorkerTypes, ReplicaInv
<1>2. RowsOf(rows) \subseteq {b \in A : b.electionId = e}
  BY <1>1 DEF Copies
<1>3. rows # << >>
  OBVIOUS
<1> HIDE DEF rows
<1>4. Head(rows) \in Block /\ Head(rows) = rows[1] /\ 1 \in DOMAIN rows
  BY <1>1, <1>3
<1>5. rest \in Seq(Block) /\ RowsOf(rest) \subseteq RowsOf(rows)
  <2>1. /\ rest \in Seq(Block) /\ Len(rest) = Len(rows) - 1
        /\ \A k \in 1 .. Len(rest) : rest[k] = rows[k + 1]
    BY <1>1, <1>3, HeadTailProperties
  <2>2. \A k \in 1 .. Len(rest) : k + 1 \in DOMAIN rows
    BY <1>1, <2>1
  <2> HIDE DEF rest
  <2>3. DOMAIN rest = 1 .. Len(rest)
    BY <2>1
  <2> QED
    BY <2>1, <2>2, <2>3 DEF RowsOf
<1>6. Head(rows) \in A /\ Head(rows).electionId = e
  BY <1>2, <1>4 DEF RowsOf
<1>7. RowsOf(rest) \subseteq {b \in A : b.electionId = e}
  BY <1>2, <1>5
<1> HIDE DEF rest
<1>8. Copies([fetched EXCEPT ![w] = [fetched[w] EXCEPT ![e] = rest]], A)
  BY <1>1, <1>5, <1>7, SetChain
<1> QED
  BY <1>4, <1>6, <1>8 DEF Messages, rows, rest

LEMMA WorkerStepCopies ==
    ASSUME NEW A, NEW F, W!TypeOK, ReplicaInv(A, F), A \subseteq F,
           NEW w \in Workers,
           \/ W!Progress(w) \/ W!SyncFails(w) \/ W!Halt(w) \/ W!Die(w)
           \/ \E b \in inbox[w] : W!DeliverAckLost(w, b) \/ W!DeliverFails(w, b)
    PROVE  ReplicaInv(A, F)'
<1>1. WorkerTypes
  BY ReplicaTypes
<1>2. CASE W!Start(w)
  <2>1. /\ file[w] \in [Elections -> Seq(Block)]
        /\ \A e \in Elections :
               /\ RowsOf(file[w][e]) \subseteq {b \in A : b.electionId = e}
               /\ Sorted(file[w][e])
    BY <1>1 DEF ReplicaInv, Copies, Ordered, WorkerTypes, Replicas
  <2>2. Copies(cache', A) /\ Ordered(cache')
    BY <1>1, <1>2, <2>1, SetWorker DEF W!Start, ReplicaInv, WorkerTypes
  <2> QED
    BY <1>2, <2>2 DEF W!Start, ReplicaInv
<1>3. CASE W!Sync(w)
  <2>1. PICK e \in Elections :
            /\ fetched[w][e] # << >>
            /\ W!TakeIn(w, Head(fetched[w][e]))
            /\ fetched' = [fetched EXCEPT ![w] =
                              [fetched[w] EXCEPT ![e] = Tail(fetched[w][e])]]
    BY <1>3 DEF W!Sync
  <2>2. /\ Head(fetched[w][e]) \in Block /\ Head(fetched[w][e]) \in Messages(A, F)
        /\ Copies(fetched', A)
    BY <2>1, FetchedCopies
  <2>3. /\ Copies(held', A) /\ Ordered(held')
        /\ Copies(cache', A) /\ Ordered(cache')
        /\ Copies(file', A) /\ Ordered(file')
    BY <2>1, <2>2, TakeInCopies
  <2> QED
    BY <1>3, <2>2, <2>3 DEF W!Sync, ReplicaInv
<1>4. CASE W!FinishSync(w) \/ W!Subscribe(w)
  BY <1>4 DEF W!FinishSync, W!Subscribe, ReplicaInv
<1>5. ASSUME NEW b \in inbox[w], W!Deliver(w, b) \/ W!DeliverAckLost(w, b)
      PROVE  ReplicaInv(A, F)'
  <2>1. W!TakeIn(w, b) /\ b \in Block /\ b \in Messages(A, F)
    BY <1>5, SourceBlocks DEF W!Deliver, W!DeliverAckLost, ReplicaInv
  <2>2. /\ Copies(held', A) /\ Ordered(held')
        /\ Copies(cache', A) /\ Ordered(cache')
        /\ Copies(file', A) /\ Ordered(file')
    BY <2>1, TakeInCopies
  <2>3. \A x \in Workers : inbox'[x] \subseteq inbox[x]
    BY <1>1, <1>5 DEF W!Deliver, W!DeliverAckLost, WorkerTypes
  <2> QED
    BY <1>5, <2>2, <2>3 DEF W!Deliver, W!DeliverAckLost, ReplicaInv
<1>6. CASE W!SyncFails(w)
  <2>1. PICK e \in Elections : /\ fetched[w][e] # << >>
                              /\ W!TakeInFails(w, Head(fetched[w][e]))
    BY <1>6 DEF W!SyncFails
  <2>2. /\ Copies(held', A) /\ Ordered(held')
        /\ Copies(cache', A) /\ Ordered(cache')
        /\ UNCHANGED file
    <3>1. /\ Head(fetched[w][e]) \in Block
          /\ Head(fetched[w][e]) \in Messages(A, F)
      BY <2>1, FetchedCopies
    <3> QED
      BY <2>1, <3>1, TakeInFailsCopies
  <2>3. Copies(fetched', A)
    BY <1>1, <1>6, NoBlocksAreCopies, SetWorker
    DEF W!SyncFails, ReplicaInv, WorkerTypes
  <2> QED
    BY <1>6, <2>2, <2>3 DEF W!SyncFails, ReplicaInv
<1>7. ASSUME NEW b \in inbox[w], W!DeliverFails(w, b)
      PROVE  ReplicaInv(A, F)'
  <2>1. W!TakeInFails(w, b) /\ b \in Block /\ b \in Messages(A, F)
    BY <1>7, SourceBlocks DEF W!DeliverFails, ReplicaInv
  <2>2. /\ Copies(held', A) /\ Ordered(held')
        /\ Copies(cache', A) /\ Ordered(cache')
        /\ UNCHANGED file
    BY <2>1, TakeInFailsCopies
  <2>3. \A x \in Workers : inbox'[x] \subseteq inbox[x]
    BY <1>1, <1>7 DEF W!DeliverFails, WorkerTypes
  <2> QED
    BY <1>7, <2>2, <2>3 DEF W!DeliverFails, ReplicaInv
<1>8. CASE W!Halt(w) \/ W!Die(w)
  <2>1. W!Gone(w)
    BY <1>8 DEF W!Halt, W!Die, W!DieWriting
  <2>2. /\ Copies(fetched', A)
        /\ Copies(held', A) /\ Ordered(held')
        /\ Copies(cache', A) /\ Ordered(cache')
    BY <1>1, <2>1, NoBlocksAreCopies, SetWorker
    DEF W!Gone, ReplicaInv, WorkerTypes
  <2>3. \A x \in Workers : inbox'[x] \subseteq inbox[x]
    BY <1>1, <2>1 DEF W!Gone, WorkerTypes
  <2> QED
    BY <2>1, <2>2, <2>3 DEF W!Gone, ReplicaInv
<1> QED
  BY <1>2, <1>3, <1>4, <1>5, <1>6, <1>7, <1>8 DEF W!Progress

(* More blocks may be accepted, but a block is taken in for one that is.   *)
LEMMA ReplicaGrows ==
    ASSUME NEW A, NEW F, NEW B, NEW G, A \subseteq B, F \subseteq G
    PROVE  /\ ReplicaInv(A, F) => ReplicaInv(B, G)
           /\ ReplicaInv(A, F)' => ReplicaInv(B, G)'
  BY DEF ReplicaInv, Copies, Messages

LEMMA GarbleCopies ==
    ASSUME NEW S, W!TypeOK, ReplicaInv(Accepted(S, undetected), Framed(S)),
           NEW w \in Workers, NEW b \in inbox[w], W!Garble(w, b),
           S \subseteq {s \in Block : IsValid(s)}
    PROVE  ReplicaInv(Accepted(S, undetected), Framed(S))'
<1> DEFINE F == Framed(S)
           A == Accepted(S, undetected)
<1>1. WorkerTypes
  BY ReplicaTypes
<1>2. b \in Messages(A, F)
  BY DEF ReplicaInv
<1>3. b \in Block /\ b \in F
  BY <1>2 DEF Messages, Framed
<1>4. PICK c \in Block :
          /\ c.index = b.index /\ c.prevHash = b.prevHash /\ c.hash = b.hash
          /\ inbox' = [inbox EXCEPT ![w] = (inbox[w] \ {b}) \union {c}]
          /\ undetected' = (undetected \/ IsValid(c))
          /\ UNCHANGED <<fetched, held, cache, file>>
  BY <1>3, GarbleCases
<1>5. PICK B : B = Accepted(S, undetected')
  OBVIOUS
<1>6. c \in F
  BY <1>3, <1>4 DEF Framed
<1>7. A \subseteq B
  BY <1>4, <1>5 DEF Accepted, Framed
<1>8. c \in Messages(B, F)
  BY <1>4, <1>5, <1>6 DEF Messages, Accepted
<1>9. Messages(A, F) \subseteq Messages(B, F)
  BY <1>7 DEF Messages
<1>10. \A x \in Workers : inbox'[x] \subseteq inbox[x] \union {c}
  BY <1>1, <1>4 DEF WorkerTypes
<1>11. ReplicaInv(A, F)
  OBVIOUS
<1> HIDE DEF F, A
<1>12. ReplicaInv(B, F)'
  <2>1. \A x \in Workers : inbox'[x] \subseteq Messages(B, F)
    BY <1>8, <1>9, <1>10, <1>11 DEF ReplicaInv
  <2>2. ReplicaInv(B, F)
    BY <1>7, <1>11, ReplicaGrows
  <2> QED
    BY <1>4, <2>1, <2>2 DEF ReplicaInv
<1>13. Accepted(S, undetected)' = B
  BY <1>5 DEF Accepted, Framed
<1> QED
  BY <1>12, <1>13 DEF F, ReplicaInv

-----------------------------------------------------------------------------

NetReplicaInv == ReplicaInv(Accepted(StoredBlocks, undetected),
                            Framed(StoredBlocks))

NetInv ==
    /\ MP!PublicationInv
    /\ NetTypeInv
    /\ NetReplicaInv

LEMMA InitNetInv ==
    ASSUME MaxLostReplies = 0
    PROVE  Init => NetInv
<1> SUFFICES ASSUME Init PROVE NetReplicaInv
  BY MasterRows, InitNetTypeInv DEF NetInv
<1>1. PICK A, F : A = Accepted(StoredBlocks, undetected) /\ F = Framed(StoredBlocks)
  OBVIOUS
<1>2. ReplicaInv(A, F)
  BY NoBlocksAreCopies DEF Init, W!Init, ReplicaInv, Copies, Ordered
<1> QED
  BY <1>1, <1>2 DEF NetReplicaInv

LEMMA OnlyGarbleIsUndetected ==
    ASSUME NEW w \in Workers,
           \/ W!Progress(w) \/ W!SyncFails(w) \/ W!Halt(w) \/ W!Die(w)
           \/ \E b \in inbox[w] : W!DeliverAckLost(w, b) \/ W!DeliverFails(w, b)
    PROVE  undetected' = undetected
<1>1. W!Gone(w) => undetected' = undetected
  BY DEF W!Gone
<1> QED
  BY <1>1 DEF W!Progress, W!Start, W!Sync, W!FinishSync, W!Subscribe, W!Deliver,
              W!SyncFails, W!Halt, W!Die, W!DieWriting, W!DeliverAckLost,
              W!DeliverFails

LEMMA AcceptedBlocks ==
    ASSUME NEW S, S \subseteq {b \in Block : IsValid(b)}, NEW all
    PROVE  S \subseteq Accepted(S, all) /\ Accepted(S, all) \subseteq Framed(S)
  BY DEF Accepted, Framed

LEMMA NextReplicaInv ==
    ASSUME NEW S, NetInv, [Next]_vars, S = StoredBlocks
    PROVE  ReplicaInv(Accepted(S, undetected), Framed(S))'
<1>1. /\ W!TypeOK /\ WorkerTypes
      /\ ReplicaInv(Accepted(S, undetected), Framed(S))
      /\ outbox \subseteq S
      /\ \A e \in Elections :
             /\ stored[e] \in Seq(Block)
             /\ RowsOf(stored[e]) \subseteq {b \in S : b.electionId = e}
      /\ S \subseteq {b \in Block : IsValid(b)}
  BY StoredBlockFacts, ReplicaTypes
  DEF NetInv, NetTypeInv, NetReplicaInv, RowsOf
<1>2. PICK A, F : A = Accepted(S, undetected) /\ F = Framed(S)
  OBVIOUS
<1>3. S \subseteq A /\ A \subseteq F /\ ReplicaInv(A, F)
  BY <1>1, <1>2, AcceptedBlocks
<1>4. ASSUME undetected' = undetected, ReplicaInv(A, F)'
      PROVE  ReplicaInv(Accepted(S, undetected), Framed(S))'
  <2>1. Accepted(S, undetected)' = A /\ Framed(S)' = F
    BY <1>2, <1>4 DEF Accepted, Framed
  <2> QED
    BY <1>4, <2>1 DEF ReplicaInv
<1>5. CASE UNCHANGED workerVars
  <2>1. ReplicaInv(A, F)' /\ undetected' = undetected
    BY <1>3, <1>5 DEF workerVars, ReplicaInv
  <2> QED
    BY <1>4, <2>1
<1>6. CASE WorkerStep
  <2>1. PICK w \in Workers :
            \/ W!Progress(w) \/ W!SyncFails(w) \/ W!Halt(w) \/ W!Die(w)
            \/ \E b \in inbox[w] :
                   W!DeliverAckLost(w, b) \/ W!DeliverFails(w, b) \/ W!Garble(w, b)
    BY <1>6 DEF WorkerStep, W!Next
  <2>2. CASE \/ W!Progress(w) \/ W!SyncFails(w) \/ W!Halt(w) \/ W!Die(w)
             \/ \E b \in inbox[w] : W!DeliverAckLost(w, b) \/ W!DeliverFails(w, b)
    <3>1. ReplicaInv(A, F)' /\ undetected' = undetected
      BY <1>1, <1>3, <2>2, WorkerStepCopies, OnlyGarbleIsUndetected
    <3> QED
      BY <1>4, <3>1
  <2>3. CASE \E b \in inbox[w] : W!Garble(w, b)
    BY <1>1, <2>3, GarbleCopies
  <2> QED
    BY <2>1, <2>2, <2>3
<1>7. ASSUME NEW w \in Workers, FetchChain(w)
      PROVE  ReplicaInv(Accepted(S, undetected), Framed(S))'
  <2> DEFINE chains == [e \in Elections |->
                           IF e \in Followed[w] THEN stored[e] ELSE << >>]
  <2>1. /\ chains \in [Elections -> Seq(Block)]
        /\ \A e \in Elections :
               RowsOf(chains[e]) \subseteq {b \in A : b.electionId = e}
    BY <1>1, <1>3 DEF RowsOf
  <2>2. fetched' = [fetched EXCEPT ![w] = chains]
    BY <1>7 DEF FetchChain, W!Fetch
  <2> HIDE DEF chains
  <2>3. Copies(fetched', A)
    BY <1>1, <1>3, <2>1, <2>2, SetWorker DEF ReplicaInv, WorkerTypes
  <2>4. ReplicaInv(A, F)' /\ undetected' = undetected
    BY <1>3, <1>7, <2>3 DEF FetchChain, W!Fetch, ReplicaInv
  <2> QED
    BY <1>4, <2>4
<1>8. ASSUME NEW b \in outbox, Send(b)
      PROVE  ReplicaInv(Accepted(S, undetected), Framed(S))'
  <2>1. b \in Messages(A, F)
    BY <1>1, <1>3 DEF Messages
  <2>2. \A w \in Workers : inbox'[w] \subseteq inbox[w] \union {b}
    BY <1>8 DEF Send, W!Receive
  <2>3. ReplicaInv(A, F)' /\ undetected' = undetected
    BY <1>3, <1>8, <2>1, <2>2 DEF Send, W!Receive, ReplicaInv
  <2> QED
    BY <1>4, <2>3
<1>9. MasterStep \/ (\E b \in outbox : SendFails(b)) \/ UNCHANGED vars
          => UNCHANGED workerVars
  BY DEF MasterStep, SendFails, vars
<1> QED
  BY <1>5, <1>6, <1>7, <1>8, <1>9 DEF Next

LEMMA NextNetInv ==
    ASSUME MaxLostReplies = 0
    PROVE  NetInv /\ [Next]_vars => NetInv'
<1> SUFFICES ASSUME NetInv, [Next]_vars PROVE NetInv'
  OBVIOUS
<1>1. MP!PublicationInv' /\ NetTypeInv' /\ StoredBlocks \subseteq StoredBlocks'
  BY MasterRows, NextNetTypeInv DEF NetInv
<1>2. PICK S, T, u : S = StoredBlocks /\ T = StoredBlocks' /\ u = undetected'
  OBVIOUS
<1>3. ReplicaInv(Accepted(S, u), Framed(S))'
  <2>1. ReplicaInv(Accepted(S, undetected), Framed(S))'
    BY <1>2, NextReplicaInv
  <2>2. Accepted(S, undetected)' = Accepted(S, u)
    BY <1>2 DEF Accepted, Framed
  <2> QED
    BY <2>1, <2>2 DEF ReplicaInv
<1>4. Framed(S) \subseteq Framed(T) /\ Accepted(S, u) \subseteq Accepted(T, u)
  BY <1>1, <1>2 DEF Framed, Accepted
<1>5. ReplicaInv(Accepted(T, u), Framed(T))'
  BY <1>3, <1>4, ReplicaGrows
<1>6. NetReplicaInv'
  <2>1. Accepted(StoredBlocks, undetected)' = Accepted(T, u)
        /\ Framed(StoredBlocks)' = Framed(T)
    BY <1>2 DEF Accepted, Framed
  <2> QED
    BY <1>5, <2>1 DEF NetReplicaInv, ReplicaInv
<1> QED
  BY <1>1, <1>6 DEF NetInv

(* What is kept, while no altered message kept its hash, and afterwards    *)
LEMMA KeptBlocks ==
    ASSUME NetInv, NEW w \in Workers, NEW e \in Elections, NEW b \in Rows(w, e)
    PROVE  /\ b \in Block /\ IsValid(b) /\ b.electionId = e
           /\ ~undetected => b \in StoredBlocks
           /\ \E s \in StoredBlocks : /\ b.index = s.index /\ b.hash = s.hash
                                      /\ b.prevHash = s.prevHash
<1> DEFINE S == StoredBlocks
<1>1. \A s \in S : s \in Block /\ IsValid(s)
  BY StoredBlockFacts DEF NetInv
<1>2. b \in Accepted(S, undetected) /\ b.electionId = e
  BY DEF NetInv, NetReplicaInv, ReplicaInv, Copies, Rows
<1> HIDE DEF S
<1>3. /\ b \in Block /\ IsValid(b)
      /\ ~undetected => b \in S
      /\ \E s \in S : /\ b.index = s.index /\ b.hash = s.hash
                      /\ b.prevHash = s.prevHash
  BY <1>1, <1>2 DEF Accepted, Framed
<1> QED
  BY <1>2, <1>3 DEF S

(* As long as every altered message lost its hash, a worker keeps nothing  *)
(* but blocks the master persisted for the election; and even after one    *)
(* that kept it, the block of a vote is one the master persisted at that   *)
(* index, whatever election the message named.  For any number of workers, *)
(* elections and votes, if no insert is answered with an error after all.  *)
THEOREM ReplicasStayGenuine ==
    ASSUME MaxLostReplies = 0
    PROVE  Spec => []ReplicasGenuine
<1>1. ASSUME NetInv, NEW b \in StoredBlocks
      PROVE  b.electionId \in Elections /\ b \in RowsOf(stored[b.electionId])
  <2>1. /\ b \in Block /\ b.index + 1 \in DOMAIN stored[b.electionId]
        /\ stored[b.electionId][b.index + 1] = b
    BY <1>1, StoredBlockFacts DEF NetInv
  <2> QED
    BY <2>1 DEF RowsOf, Block
<1>2. NetInv => ReplicasGenuine
  <2> SUFFICES ASSUME NetInv PROVE ReplicasGenuine
    OBVIOUS
  <2>1. ASSUME ~undetected, NEW w \in Workers, NEW e \in Elections,
               NEW b \in Rows(w, e)
        PROVE  b \in RowsOf(stored[e])
    BY <1>1, <2>1, KeptBlocks
  <2>2. ASSUME NEW w \in Workers, NEW e \in Elections, NEW b \in Rows(w, e),
               b.index # GENESIS_INDEX
        PROVE  \E f \in Elections : \E s \in RowsOf(stored[f]) :
                   b = [s EXCEPT !.electionId = e]
    <3>1. b \in Block /\ IsValid(b) /\ b.electionId = e
      BY KeptBlocks
    <3>2. PICK s \in StoredBlocks : /\ b.index = s.index /\ b.hash = s.hash
                                    /\ b.prevHash = s.prevHash
      BY KeptBlocks
    <3>3. s \in Block /\ IsValid(s)
      BY StoredBlockFacts DEF NetInv
    <3>4. s.data = b.data
      BY <2>2, <3>1, <3>2, <3>3, HashTellsData
    <3>5. b = [s EXCEPT !.electionId = e]
      BY <3>1, <3>2, <3>3, <3>4 DEF Block
    <3> QED
      BY <1>1, <3>5
  <2> QED
    BY <2>1, <2>2 DEF ReplicasGenuine, ReplicasSound
<1> QED
  BY InitNetInv, NextNetInv, <1>2, PTL DEF Spec

-----------------------------------------------------------------------------
(* Which chains are in memory: what a worker has stored of an election it  *)
(* was handed again by the sync, or is still to be, before it subscribes.  *)

OpenInv ==
    \A w \in Workers, e \in Elections :
        /\ e \notin Followed[w] =>
               cache[w][e] = << >> /\ file[w][e] = << >> /\ fetched[w][e] = << >>
        /\ ~undetected /\ cache[w][e] # << >> /\ e \notin opened[w] =>
               /\ phase[w] \in {"down", "fetching", "syncing"}
               /\ phase[w] = "syncing" => fetched[w][e] # << >>

LEMMA CacheGainsChains ==
    ASSUME W!TypeOK, NEW w \in Workers, NEW b, NEW e \in Elections,
           CacheGains(w, b, e)
    PROVE  /\ \A x \in Workers : x # w => cache'[x] = cache[x]
           /\ \A y \in Elections : y # e => cache'[w][y] = cache[w][y]
<1>1. cache \in [Workers -> [Elections -> Seq(Block)]]
  BY ReplicaTypes DEF WorkerTypes, Replicas
<1>2. cache[w] \in [Elections -> Seq(Block)]
  BY <1>1
<1>3. cache'[w] = [cache[w] EXCEPT ![e] = StorageAppend(cache[w][e], b)]
      /\ \A x \in Workers : x # w => cache'[x] = cache[x]
  BY <1>1 DEF CacheGains
<1> QED
  BY <1>2, <1>3

(* Taking a block in changes no chain but its election's, which is then in *)
(* memory.                                                                 *)
LEMMA TakeInOpens ==
    ASSUME W!TypeOK, NEW w \in Workers, NEW b \in Block,
           W!TakeIn(w, b) \/ W!TakeInFails(w, b)
    PROVE  /\ \A x \in Workers, y \in Elections :
                  /\ opened[x] \subseteq opened'[x]
                  /\ x # w \/ y \notin opened'[w] => cache'[x][y] = cache[x][y]
                  /\ y \notin Followed[x] =>
                         /\ cache'[x][y] = cache[x][y]
                         /\ file'[x][y] \in {file[x][y], cache[x][y]}
           /\ b.electionId \in Followed[w] => b.electionId \in opened'[w]
<1> DEFINE Goal ==
        /\ \A x \in Workers, y \in Elections :
               /\ opened[x] \subseteq opened'[x]
               /\ x # w \/ y \notin opened'[w] => cache'[x][y] = cache[x][y]
               /\ y \notin Followed[x] =>
                      /\ cache'[x][y] = cache[x][y]
                      /\ file'[x][y] \in {file[x][y], cache[x][y]}
        /\ b.electionId \in Followed[w] => b.electionId \in opened'[w]
<1>1. CASE /\ b.electionId \notin Followed[w]
           /\ UNCHANGED <<opened, held, cache, file, torn>>
  BY <1>1
<1>2. ASSUME NEW e \in Elections, Opens(w, b, e), UNCHANGED <<cache, file, torn>>
      PROVE  Goal
  <2>1. /\ opened'[w] = opened[w] \union {e} /\ e = b.electionId
        /\ \A x \in Workers : x # w => opened'[x] = opened[x]
    BY <1>2, HoldsChains DEF Opens
  <2> QED
    BY <1>2, <2>1
<1>3. ASSUME NEW e \in Elections, e = b.electionId, e \in Followed[w],
             NEW chain, Holds(w, e, chain), CacheGains(w, b, e),
             UNCHANGED file \/ file' = [file EXCEPT ![w] = cache'[w]]
      PROVE  Goal
  <2>1. /\ opened'[w] = opened[w] \union {e}
        /\ \A x \in Workers : x # w => opened'[x] = opened[x]
    BY <1>3, HoldsChains
  <2>2. /\ \A x \in Workers : x # w => cache'[x] = cache[x]
        /\ \A y \in Elections : y # e => cache'[w][y] = cache[w][y]
    BY <1>3, CacheGainsChains
  <2>3. \A x \in Workers : file'[x] \in {file[x], cache'[x]}
    BY <1>3, ReplicaTypes DEF WorkerTypes, Replicas
  <2>4. ASSUME NEW x \in Workers, NEW y \in Elections
        PROVE  /\ opened[x] \subseteq opened'[x]
               /\ x # w \/ y \notin opened'[w] => cache'[x][y] = cache[x][y]
    BY <2>1, <2>2
  <2>5. ASSUME NEW x \in Workers, NEW y \in Elections, y \notin Followed[x]
        PROVE  /\ cache'[x][y] = cache[x][y]
               /\ file'[x][y] \in {file[x][y], cache[x][y]}
    <3>1. cache'[x][y] = cache[x][y]
      BY <1>3, <2>2, <2>5
    <3> QED
      BY <2>3, <3>1
  <2> QED
    BY <1>3, <2>1, <2>4, <2>5
<1>4. ASSUME NEW e \in Elections, Gains(w, b, e), CacheGains(w, b, e),
             FileFollows(w, b, e)
      PROVE  Goal
  BY <1>3, <1>4 DEF Gains, FileFollows
<1>5. CASE W!TakeInFails(w, b)
  <2>1. PICK e \in Elections : Opens(w, b, e) /\ CacheGains(w, b, e)
    BY <1>5, TakeInFailsCases
  <2> QED
    BY <1>3, <1>5, <2>1, TakeInFailsCases DEF Opens
<1> QED
  BY <1>1, <1>2, <1>4, <1>5, TakeInCases

LEMMA TakeInOpenInv ==
    ASSUME W!TypeOK, OpenInv, NEW w \in Workers, NEW b \in Block,
           W!TakeIn(w, b) \/ W!TakeInFails(w, b), undetected' = undetected,
           \A x \in Workers, y \in Elections :
               /\ x # w => phase'[x] = phase[x] /\ fetched'[x] = fetched[x]
               /\ \/ fetched'[w][y] \in {fetched[w][y], << >>}
                  \/ y = b.electionId /\ y \in Followed[w]
               /\ y \notin opened'[w] =>
                      \/ phase'[w] = "fetching"
                      \/ phase'[w] = phase[w] /\ fetched'[w][y] = fetched[w][y]
    PROVE  OpenInv'
<1> SUFFICES ASSUME NEW x \in Workers, NEW y \in Elections
             PROVE  /\ y \notin Followed[x] =>
                           /\ cache'[x][y] = << >> /\ file'[x][y] = << >>
                           /\ fetched'[x][y] = << >>
                    /\ ~undetected' /\ cache'[x][y] # << >> /\ y \notin opened'[x] =>
                           /\ phase'[x] \in {"down", "fetching", "syncing"}
                           /\ phase'[x] = "syncing" => fetched'[x][y] # << >>
  BY DEF OpenInv
<1>1. /\ opened[x] \subseteq opened'[x]
      /\ x # w \/ y \notin opened'[w] => cache'[x][y] = cache[x][y]
      /\ y \notin Followed[x] => /\ cache'[x][y] = cache[x][y]
                                 /\ file'[x][y] \in {file[x][y], cache[x][y]}
  BY TakeInOpens
<1>2. y \notin Followed[x] =>
          cache[x][y] = << >> /\ file[x][y] = << >> /\ fetched[x][y] = << >>
  BY DEF OpenInv
<1>3. y \notin Followed[x] => /\ cache'[x][y] = << >> /\ file'[x][y] = << >>
                              /\ fetched'[x][y] = << >>
  BY <1>1, <1>2
<1>4. ASSUME ~undetected', cache'[x][y] # << >>, y \notin opened'[x]
      PROVE  /\ phase'[x] \in {"down", "fetching", "syncing"}
             /\ phase'[x] = "syncing" => fetched'[x][y] # << >>
  <2>1. cache[x][y] # << >> /\ y \notin opened[x] /\ ~undetected
    BY <1>1, <1>4
  <2>2. /\ phase[x] \in {"down", "fetching", "syncing"}
        /\ phase[x] = "syncing" => fetched[x][y] # << >>
    BY <2>1 DEF OpenInv
  <2> QED
    BY <1>4, <2>2
<1> QED
  BY <1>3, <1>4

LEMMA WorkerStepOpenInv ==
    ASSUME NetInv, OpenInv, NEW w \in Workers,
           \/ W!Progress(w) \/ W!SyncFails(w) \/ W!Halt(w) \/ W!Die(w)
           \/ \E b \in inbox[w] :
                  W!DeliverAckLost(w, b) \/ W!DeliverFails(w, b) \/ W!Garble(w, b)
    PROVE  OpenInv'
<1>1. /\ W!TypeOK /\ WorkerTypes
      /\ NetReplicaInv
  BY ReplicaTypes DEF NetInv, NetTypeInv
<1>2. CASE W!Start(w)
  BY <1>1, <1>2 DEF W!Start, WorkerTypes, Replicas, OpenInv
<1>3. CASE W!Sync(w)
  <2>1. PICK e \in Elections :
            /\ fetched[w][e] # << >>
            /\ W!TakeIn(w, Head(fetched[w][e]))
            /\ fetched' = [fetched EXCEPT ![w] =
                              [fetched[w] EXCEPT ![e] = Tail(fetched[w][e])]]
    BY <1>3 DEF W!Sync
  <2>2. PICK b : b = Head(fetched[w][e])
    OBVIOUS
  <2>3. b \in Block /\ b.electionId = e /\ e \in Followed[w]
    <3>1. b \in Block
      BY <1>1, <2>1, <2>2, SourceBlocks
    <3>2. fetched[w][e] \in Seq(Block)
      BY <1>1, ChainType DEF WorkerTypes
    <3>3. b \in RowsOf(fetched[w][e])
      BY <2>1, <2>2, <3>2 DEF RowsOf
    <3>4. b.electionId = e
      BY <1>1, <3>3 DEF NetReplicaInv, ReplicaInv, Copies
    <3> QED
      BY <2>1, <3>1, <3>4 DEF OpenInv
  <2>4. e \in opened'[w]
    BY <1>1, <2>1, <2>2, <2>3, TakeInOpens
  <2>5. /\ \A x \in Workers : x # w => fetched'[x] = fetched[x]
        /\ \A y \in Elections : y # e => fetched'[w][y] = fetched[w][y]
    <3>1. fetched \in [Workers -> [Elections -> Seq(Block)]]
      BY <1>1 DEF WorkerTypes, Replicas
    <3>2. fetched[w] \in [Elections -> Seq(Block)]
      BY <3>1
    <3>3. fetched'[w] = [fetched[w] EXCEPT ![e] = Tail(fetched[w][e])]
      BY <2>1, <3>1
    <3> QED
      BY <2>1, <3>1, <3>2, <3>3
  <2>6. phase' = phase /\ undetected' = undetected
    BY <1>3 DEF W!Sync
  <2>7. \A x \in Workers, y \in Elections :
            /\ x # w => phase'[x] = phase[x] /\ fetched'[x] = fetched[x]
            /\ \/ fetched'[w][y] \in {fetched[w][y], << >>}
               \/ y = b.electionId /\ y \in Followed[w]
            /\ y \notin opened'[w] =>
                   \/ phase'[w] = "fetching"
                   \/ phase'[w] = phase[w] /\ fetched'[w][y] = fetched[w][y]
    BY <2>3, <2>4, <2>5, <2>6
  <2>8. b \in Block /\ W!TakeIn(w, b)
    BY <2>1, <2>2, <2>3
  <2> QED
    BY <1>1, <2>6, <2>7, <2>8, TakeInOpenInv
<1>4. CASE W!SyncFails(w)
  <2>1. PICK e \in Elections : /\ fetched[w][e] # << >>
                              /\ W!TakeInFails(w, Head(fetched[w][e]))
    BY <1>4 DEF W!SyncFails
  <2>2. PICK b : b = Head(fetched[w][e])
    OBVIOUS
  <2>3. /\ phase'[w] = "fetching" /\ undetected' = undetected
        /\ \A y \in Elections : fetched'[w][y] = << >>
        /\ \A x \in Workers : x # w => /\ phase'[x] = phase[x]
                                       /\ fetched'[x] = fetched[x]
    BY <1>1, <1>4 DEF W!SyncFails, W!NoBlocks, WorkerTypes, Replicas
  <2>4. b \in Block /\ W!TakeInFails(w, b)
    BY <1>1, <2>1, <2>2, SourceBlocks
  <2>5. \A x \in Workers, y \in Elections :
            /\ x # w => phase'[x] = phase[x] /\ fetched'[x] = fetched[x]
            /\ \/ fetched'[w][y] \in {fetched[w][y], << >>}
               \/ y = b.electionId /\ y \in Followed[w]
            /\ y \notin opened'[w] =>
                   \/ phase'[w] = "fetching"
                   \/ phase'[w] = phase[w] /\ fetched'[w][y] = fetched[w][y]
    BY <2>3
  <2> QED
    BY <1>1, <2>3, <2>4, <2>5, TakeInOpenInv
<1>5. CASE W!FinishSync(w) \/ W!Subscribe(w)
  BY <1>1, <1>5 DEF W!FinishSync, W!Subscribe, W!NoBlocks, WorkerTypes, OpenInv
<1>6. ASSUME NEW b \in inbox[w],
             W!Deliver(w, b) \/ W!DeliverAckLost(w, b) \/ W!DeliverFails(w, b)
      PROVE  OpenInv'
  <2>1. /\ W!TakeIn(w, b) \/ W!TakeInFails(w, b)
        /\ UNCHANGED <<phase, fetched, undetected>>
    BY <1>6 DEF W!Deliver, W!DeliverAckLost, W!DeliverFails
  <2>2. b \in Block
    BY <1>1, SourceBlocks
  <2>3. \A x \in Workers, y \in Elections :
            /\ x # w => phase'[x] = phase[x] /\ fetched'[x] = fetched[x]
            /\ \/ fetched'[w][y] \in {fetched[w][y], << >>}
               \/ y = b.electionId /\ y \in Followed[w]
            /\ y \notin opened'[w] =>
                   \/ phase'[w] = "fetching"
                   \/ phase'[w] = phase[w] /\ fetched'[w][y] = fetched[w][y]
    BY <2>1
  <2> QED
    BY <1>1, <2>1, <2>2, <2>3, TakeInOpenInv
<1>7. CASE W!Halt(w) \/ W!Die(w)
  <2>1. W!Gone(w)
    BY <1>7 DEF W!Halt, W!Die, W!DieWriting
  <2>2. /\ phase'[w] = "down" /\ opened'[w] = {} /\ file' = file
        /\ undetected' = undetected
        /\ \A y \in Elections : cache'[w][y] = << >> /\ fetched'[w][y] = << >>
        /\ \A x \in Workers : x # w =>
               /\ phase'[x] = phase[x] /\ opened'[x] = opened[x]
               /\ cache'[x] = cache[x] /\ fetched'[x] = fetched[x]
    BY <1>1, <2>1 DEF W!Gone, W!NoBlocks, WorkerTypes, Replicas
  <2> QED
    BY <2>2 DEF OpenInv
<1>8. ASSUME NEW b \in inbox[w], W!Garble(w, b)
      PROVE  OpenInv'
  <2>1. /\ UNCHANGED <<phase, fetched, opened, cache, file>>
        /\ undetected => undetected'
    BY <1>1, <1>8 DEF W!Garble
  <2> QED
    BY <2>1 DEF OpenInv
<1> QED
  BY <1>2, <1>3, <1>4, <1>5, <1>6, <1>7, <1>8 DEF W!Progress

ViewerInv == NetInv /\ OpenInv

LEMMA NextViewerInv ==
    ASSUME MaxLostReplies = 0
    PROVE  ViewerInv /\ [Next]_vars => ViewerInv'
<1> SUFFICES ASSUME ViewerInv, [Next]_vars PROVE OpenInv'
  BY NextNetInv DEF ViewerInv
<1>1. W!TypeOK /\ WorkerTypes /\ NetInv /\ OpenInv
  BY ReplicaTypes DEF ViewerInv, NetInv, NetTypeInv
<1>2. CASE UNCHANGED workerVars
  BY <1>1, <1>2 DEF workerVars, OpenInv
<1>3. CASE WorkerStep
  BY <1>1, <1>3, WorkerStepOpenInv DEF WorkerStep, W!Next
<1>4. ASSUME NEW w \in Workers, FetchChain(w)
      PROVE  OpenInv'
  <2>1. /\ phase'[w] = "syncing"
        /\ UNCHANGED <<opened, cache, file, undetected>>
        /\ \A e \in Elections :
               fetched'[w][e] = IF e \in Followed[w] THEN stored[e] ELSE << >>
        /\ \A x \in Workers : x # w =>
               phase'[x] = phase[x] /\ fetched'[x] = fetched[x]
    BY <1>1, <1>4 DEF FetchChain, W!Fetch, WorkerTypes, Replicas
  <2>2. ASSUME NEW e \in Elections, ~undetected, cache[w][e] # << >>
        PROVE  stored[e] # << >>
    <3>1. cache[w][e] \in Seq(Block)
      BY <1>1, ChainType DEF WorkerTypes
    <3>2. PICK b : b \in RowsOf(cache[w][e])
      <4>1. PICK chain : chain = cache[w][e]
        OBVIOUS
      <4>2. chain \in Seq(Block) /\ chain # << >>
        BY <2>2, <3>1, <4>1
      <4>3. 1 \in DOMAIN chain
        BY <4>2
      <4> QED
        BY <4>1, <4>3 DEF RowsOf
    <3>3. b \in StoredBlocks /\ b.electionId = e
      BY <1>1, <2>2, <3>2, KeptBlocks DEF Rows
    <3> QED
      BY <1>1, <3>3, StoredBlockFacts DEF NetInv
  <2> QED
    BY <1>1, <2>1, <2>2 DEF OpenInv
<1>5. ASSUME NEW b \in outbox, Send(b)
      PROVE  OpenInv'
  BY <1>1, <1>5 DEF Send, W!Receive, OpenInv
<1>6. MasterStep \/ (\E b \in outbox : SendFails(b)) \/ UNCHANGED vars
          => UNCHANGED workerVars
  BY DEF MasterStep, SendFails, vars
<1> QED
  BY <1>2, <1>3, <1>4, <1>5, <1>6 DEF Next, ViewerInv

(* Until an altered message keeps its hash, the viewer's chainsValid is    *)
(* true just when no chain in memory has a gap, and once a worker is ready *)
(* every chain it has stored is in memory: whatever was lost, overtaken,   *)
(* repeated or stopped half way, for any number of workers, under the same *)
(* assumption on inserts.                                                  *)
THEOREM GapsAreTold ==
    ASSUME MaxLostReplies = 0
    PROVE  Spec => []ViewerTellsGaps
<1>1. ASSUME NetInv, ~undetected, NEW w \in Workers, NEW e \in Elections
      PROVE  ChainIsValid(held[w][e]) <=> NoGap(held[w][e])
  <2> DEFINE chain == held[w][e]
             rows == stored[e]
  <2>1. chain \in Seq(Block)
    BY <1>1, ReplicaTypes, ChainType DEF NetInv, NetTypeInv, WorkerTypes
  <2>2. /\ Sorted(chain)
        /\ \A b \in RowsOf(chain) : b \in StoredBlocks /\ b.electionId = e
    BY <1>1, KeptBlocks DEF NetInv, NetReplicaInv, ReplicaInv, Ordered, Rows
  <2>3. rows \in Seq(Block) /\ ChainIsValid(rows)
    BY <1>1, StoredBlockFacts DEF NetInv
  <2>4. \A b \in StoredBlocks : b.electionId = e =>
            b.index + 1 \in DOMAIN rows /\ rows[b.index + 1] = b
    BY <1>1, StoredBlockFacts DEF NetInv
  <2> HIDE DEF chain, rows
  <2>5. \A k \in DOMAIN chain : /\ chain[k].index + 1 \in DOMAIN rows
                                /\ rows[chain[k].index + 1] = chain[k]
    BY <2>2, <2>4 DEF RowsOf
  <2>6. {b.index : b \in RowsOf(chain)} = {chain[k].index : k \in DOMAIN chain}
    BY DEF RowsOf
  <2>7. ChainIsValid(chain)
            <=> {chain[k].index : k \in DOMAIN chain} = 0 .. (Len(chain) - 1)
    BY <2>1, <2>2, <2>3, <2>5, ReplicaValidIffGapless
  <2> QED
    BY <2>6, <2>7 DEF NoGap, chain
<1>2. ViewerInv => ViewerTellsGaps
  <2> SUFFICES ASSUME ViewerInv, NEW w \in Workers, ~undetected
               PROVE  /\ W!chainsValid(w) <=> \A e \in opened[w] : NoGap(held[w][e])
                      /\ phase[w] = "ready" =>
                             \A e \in Elections :
                                 cache[w][e] # << >> => e \in opened[w]
    BY DEF ViewerTellsGaps
  <2>1. opened[w] \subseteq Elections
    BY ReplicaTypes DEF ViewerInv, NetInv, NetTypeInv, WorkerTypes
  <2>2. \A e \in opened[w] : W!ChainIsValid(held[w][e]) <=> NoGap(held[w][e])
    BY <1>1, <2>1, SameChecks DEF ViewerInv
  <2>3. W!chainsValid(w) <=> \A e \in opened[w] : NoGap(held[w][e])
    BY <2>2 DEF W!chainsValid
  <2> QED
    BY <2>3 DEF ViewerInv, OpenInv
<1>3. Init => OpenInv
  BY DEF Init, W!Init, W!NoBlocks, OpenInv
<1> QED
  BY InitNetInv, NextViewerInv, <1>2, <1>3, PTL DEF Spec, ViewerInv

=============================================================================
