----------------------------- MODULE WorkerNode -----------------------------
(***************************************************************************)
(* The worker nodes of apps/torachain-cli.  A worker reads its JSON file,  *)
(* pulls the master's chains over HTTP, takes the blocks in one by one,    *)
(* only then creates its Pub/Sub subscription, and from there on takes in  *)
(* the blocks the subscription delivers.                                   *)
(*                                                                         *)
(* Taking a block in is one action: the SerialQueue runs one accept at a   *)
(* time and the JSON store it writes to is synchronous, so nothing of the  *)
(* same worker runs between the checks and the insert.  The chain of an    *)
(* election is loaded from the store by the first block of it the process  *)
(* is handed, whether that block is taken in, already held or rejected.    *)
(***************************************************************************)
EXTENDS BlockChain

CONSTANTS
    Workers,
    Followed,     \* the elections each worker follows: one, or all of them
    MaxHalts,     \* bound: how often workers stop or die
    MaxWriteFailures,  \* bound: how often a file write fails
    MaxGarbled    \* bound: how many messages are altered in transit

VARIABLES
    phase,     \* "down", "fetching", "syncing", "connecting" or "ready"
    fetched,   \* the blocks of the HTTP response not taken in yet
    opened,    \* the elections whose chain is in memory (the keys of chains)
    held,      \* each chain in memory (BlockChain.blocks)
    cache,     \* the store's array (JsonBlockStore.blocks), by election
    file,      \* what the JSON file holds, by election
    torn,      \* whether the file is cut short and cannot be parsed
    inbox,     \* the messages of the worker's subscription not acked yet
    halts, writeFailures, garbled,
    undetected \* an observation: an altered message kept a matching hash

vars == <<phase, fetched, opened, held, cache, file, torn, inbox, halts,
          writeFailures, garbled, undetected>>

NoBlocks == [e \in Elections |-> << >>]

TypeOK ==
    /\ phase \in [Workers -> {"down", "fetching", "syncing", "connecting",
                              "ready"}]
    /\ fetched \in [Workers -> [Elections -> Seq(Block)]]
    /\ opened \in [Workers -> SUBSET Elections]
    /\ held \in [Workers -> [Elections -> Seq(Block)]]
    /\ cache \in [Workers -> [Elections -> Seq(Block)]]
    /\ file \in [Workers -> [Elections -> Seq(Block)]]
    /\ torn \in [Workers -> BOOLEAN]
    /\ inbox \in [Workers -> SUBSET Block]
    /\ halts \in Nat /\ writeFailures \in Nat /\ garbled \in Nat
    /\ undetected \in BOOLEAN

Init ==
    /\ phase = [w \in Workers |-> "down"]
    /\ fetched = [w \in Workers |-> NoBlocks]
    /\ opened = [w \in Workers |-> {}]
    /\ held = [w \in Workers |-> NoBlocks]
    /\ cache = [w \in Workers |-> NoBlocks]
    /\ file = [w \in Workers |-> NoBlocks]
    /\ torn = [w \in Workers |-> FALSE]
    /\ inbox = [w \in Workers |-> {}]
    /\ halts = 0 /\ writeFailures = 0 /\ garbled = 0
    /\ undetected = FALSE

-----------------------------------------------------------------------------
(* start(): storage.init reads the file, or throws if it cannot be parsed  *)

Start(w) ==
    /\ phase[w] = "down"
    /\ ~torn[w]
    /\ phase' = [phase EXCEPT ![w] = "fetching"]
    /\ cache' = [cache EXCEPT ![w] = file[w]]
    /\ UNCHANGED <<fetched, opened, held, file, torn, inbox, halts,
                   writeFailures, garbled, undetected>>

(* The process stops or dies.  A new one subscribes under a new random     *)
(* node id, so what this subscription still holds is never read.           *)
Gone(w) ==
    /\ halts < MaxHalts
    /\ halts' = halts + 1
    /\ phase' = [phase EXCEPT ![w] = "down"]
    /\ fetched' = [fetched EXCEPT ![w] = NoBlocks]
    /\ opened' = [opened EXCEPT ![w] = {}]
    /\ held' = [held EXCEPT ![w] = NoBlocks]
    /\ cache' = [cache EXCEPT ![w] = NoBlocks]
    /\ inbox' = [inbox EXCEPT ![w] = {}]
    /\ UNCHANGED <<file, writeFailures, garbled, undetected>>

Halt(w) ==
    /\ phase[w] # "down"
    /\ Gone(w)
    /\ UNCHANGED torn

(* What the viewer's /api/status says of the chains: it checks those in    *)
(* memory, all() of none being true.                                       *)
chainsValid(w) == \A e \in opened[w] : ChainIsValid(held[w][e])

-----------------------------------------------------------------------------
(* ingest: the block goes to its election's chain, which accepts it        *)

(* chainFor: the chain in memory, or the one the store's array holds       *)
Loaded(w, e) == IF e \in opened[w] THEN held[w][e] ELSE cache[w][e]

Status(w, b) == AcceptStatus(b.electionId, Loaded(w, b.electionId), b)

IsNew(w, b) ==
    /\ b.electionId \in Followed[w]
    /\ Status(w, b) \in {"appended", "out-of-order"}

(* The chain is in memory from here on, as it was loaded or one longer     *)
Holds(w, e, chain) ==
    /\ opened' = [opened EXCEPT ![w] = @ \union {e}]
    /\ held' = [held EXCEPT ![w][e] = chain]

(* JsonBlockStore.append pushes into its array first and then writes the   *)
(* whole array; a block already in the array is not written again.         *)
Stored(w, b) == [cache[w] EXCEPT ![b.electionId] = StorageAppend(@, b)]

StoresBeforePush(w, b) ==
    /\ cache' = [cache EXCEPT ![w] = Stored(w, b)]
    /\ file' = [file EXCEPT ![w] = cache[w]]
    /\ torn' = [torn EXCEPT ![w] = FALSE]

Stores(w, b) ==
    /\ cache' = [cache EXCEPT ![w] = Stored(w, b)]
    /\ IF Has(cache[w][b.electionId], b.index)
       THEN UNCHANGED <<file, torn>>
       ELSE /\ file' = [file EXCEPT ![w] = Stored(w, b)]
            /\ torn' = [torn EXCEPT ![w] = FALSE]

TakeInUnchecked(w, b) ==
    LET e == b.electionId IN
    \/ /\ e \notin Followed[w]
       /\ UNCHANGED <<opened, held, cache, file, torn>>
    \/ /\ e \in Followed[w] /\ Has(Loaded(w, e), b.index)
       /\ Holds(w, e, Loaded(w, e))
       /\ UNCHANGED <<cache, file, torn>>
    \/ /\ e \in Followed[w] /\ ~Has(Loaded(w, e), b.index)
       /\ Holds(w, e, InsertInOrder(Loaded(w, e), b))
       /\ Stores(w, b)

TakeInAtTheEnd(w, b) ==
    LET e == b.electionId IN
    \/ /\ e \notin Followed[w]
       /\ UNCHANGED <<opened, held, cache, file, torn>>
    \/ /\ e \in Followed[w] /\ ~IsNew(w, b)
       /\ Holds(w, e, Loaded(w, e))
       /\ UNCHANGED <<cache, file, torn>>
    \/ /\ IsNew(w, b)
       /\ Holds(w, e, Append(Loaded(w, e), b))
       /\ Stores(w, b)

TakeIn(w, b) ==
    LET e == b.electionId IN
    \/ /\ e \notin Followed[w]
       /\ UNCHANGED <<opened, held, cache, file, torn>>
    \/ /\ e \in Followed[w] /\ ~IsNew(w, b)
       /\ Holds(w, e, Loaded(w, e))
       /\ UNCHANGED <<cache, file, torn>>
    \/ /\ IsNew(w, b)
       /\ Holds(w, e, InsertInOrder(Loaded(w, e), b))
       /\ Stores(w, b)

(* The write throws, before or after the file was truncated: the block is  *)
(* in the store's array, but neither in the chain nor in the file.         *)
TakeInFails(w, b) ==
    /\ IsNew(w, b)
    /\ ~Has(cache[w][b.electionId], b.index)
    /\ writeFailures < MaxWriteFailures
    /\ writeFailures' = writeFailures + 1
    /\ Holds(w, b.electionId, Loaded(w, b.electionId))
    /\ cache' = [cache EXCEPT ![w] = Stored(w, b)]
    /\ torn' \in {torn, [torn EXCEPT ![w] = TRUE]}
    /\ UNCHANGED file

(* The process dies inside the write: the file is left cut short.          *)
DieWriting(w, b) ==
    /\ IsNew(w, b)
    /\ ~Has(cache[w][b.electionId], b.index)
    /\ Gone(w)
    /\ torn' = [torn EXCEPT ![w] = TRUE]

-----------------------------------------------------------------------------
(* syncFromMaster: one response is taken in block by block; an error       *)
(* anywhere starts over with a new request two seconds later.              *)

Fetch(w, rows) ==
    /\ phase[w] = "fetching"
    /\ fetched' = [fetched EXCEPT ![w] =
                      [e \in Elections |->
                          IF e \in Followed[w] THEN rows[e] ELSE << >>]]
    /\ phase' = [phase EXCEPT ![w] = "syncing"]
    /\ UNCHANGED <<opened, held, cache, file, torn, inbox, halts,
                   writeFailures, garbled, undetected>>

Sync(w) ==
    /\ phase[w] = "syncing"
    /\ \E e \in Elections :
           /\ fetched[w][e] # << >>
           /\ TakeIn(w, Head(fetched[w][e]))
           /\ fetched' = [fetched EXCEPT ![w][e] = Tail(@)]
    /\ UNCHANGED <<phase, inbox, halts, writeFailures, garbled, undetected>>

SyncGivesUp(w) ==
    /\ phase[w] = "syncing"
    /\ \E e \in Elections :
           /\ fetched[w][e] # << >>
           /\ TakeInFails(w, Head(fetched[w][e]))
    /\ fetched' = [fetched EXCEPT ![w] = NoBlocks]
    /\ phase' = [phase EXCEPT ![w] = "connecting"]
    /\ UNCHANGED <<inbox, halts, garbled, undetected>>

SyncFails(w) ==
    /\ phase[w] = "syncing"
    /\ \E e \in Elections :
           /\ fetched[w][e] # << >>
           /\ TakeInFails(w, Head(fetched[w][e]))
    /\ fetched' = [fetched EXCEPT ![w] = NoBlocks]
    /\ phase' = [phase EXCEPT ![w] = "fetching"]
    /\ UNCHANGED <<inbox, halts, garbled, undetected>>

FinishSync(w) ==
    /\ phase[w] = "syncing"
    /\ fetched[w] = NoBlocks
    /\ phase' = [phase EXCEPT ![w] = "connecting"]
    /\ UNCHANGED <<fetched, opened, held, cache, file, torn, inbox, halts,
                   writeFailures, garbled, undetected>>

(* connectPubSub: the subscription holds what is published from now on.    *)
Subscribe(w) ==
    /\ phase[w] = "connecting"
    /\ phase' = [phase EXCEPT ![w] = "ready"]
    /\ UNCHANGED <<fetched, opened, held, cache, file, torn, inbox, halts,
                   writeFailures, garbled, undetected>>

-----------------------------------------------------------------------------
(* Pub/Sub: at least once, in no particular order, filtered by election    *)

Receive(b) ==
    /\ inbox' = [w \in Workers |->
                    IF phase[w] = "ready" /\ b.electionId \in Followed[w]
                    THEN inbox[w] \union {b} ELSE inbox[w]]
    /\ UNCHANGED <<phase, fetched, opened, held, cache, file, torn, halts,
                   writeFailures, garbled, undetected>>

Deliver(w, b) ==
    /\ b \in inbox[w]
    /\ TakeIn(w, b)
    /\ inbox' = [inbox EXCEPT ![w] = @ \ {b}]
    /\ UNCHANGED <<phase, fetched, halts, writeFailures, garbled, undetected>>

(* The ack does not reach Pub/Sub: the message will be delivered again.    *)
DeliverAckLost(w, b) ==
    /\ b \in inbox[w]
    /\ TakeIn(w, b)
    /\ UNCHANGED <<phase, fetched, inbox, halts, writeFailures, garbled,
                   undetected>>

(* The handler acks in a finally, also when taking the block in threw.     *)
DeliverFails(w, b) ==
    /\ b \in inbox[w]
    /\ TakeInFails(w, b)
    /\ inbox' = [inbox EXCEPT ![w] = @ \ {b}]
    /\ UNCHANGED <<phase, fetched, halts, garbled, undetected>>

Die(w) ==
    \/ \E e \in Elections : /\ phase[w] = "syncing"
                            /\ fetched[w][e] # << >>
                            /\ DieWriting(w, Head(fetched[w][e]))
    \/ \E b \in inbox[w] : DieWriting(w, b)

(* A message is altered on its way: the election it names, or anything of  *)
(* what the block carries (data stands for it).  The hash covers neither   *)
(* the election nor, in a genesis block, anything at all, so the altered   *)
(* block may still match its hash.                                         *)
Garble(w, b) ==
    /\ b \in inbox[w]
    /\ garbled < MaxGarbled
    /\ garbled' = garbled + 1
    /\ \E e \in Elections, d \in Payload :
           LET altered == [b EXCEPT !.electionId = e, !.data = d]
           IN  /\ altered # b
               /\ inbox' = [inbox EXCEPT ![w] = (@ \ {b}) \union {altered}]
               /\ undetected' = (undetected \/ IsValid(altered))
    /\ UNCHANGED <<phase, fetched, opened, held, cache, file, torn, halts,
                   writeFailures>>

Progress(w) ==
    \/ Start(w) \/ Sync(w) \/ FinishSync(w) \/ Subscribe(w)
    \/ \E b \in inbox[w] : Deliver(w, b)

Next ==
    \E w \in Workers :
        \/ Progress(w) \/ SyncFails(w) \/ Halt(w) \/ Die(w)
        \/ \E b \in inbox[w] :
               DeliverAckLost(w, b) \/ DeliverFails(w, b) \/ Garble(w, b)

=============================================================================
