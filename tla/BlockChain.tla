----------------------------- MODULE BlockChain -----------------------------
(***************************************************************************)
(* One election's chain of blocks: the values and the pure operations of   *)
(* apps/torachain-cli/src/blockchain.  Both node roles are built on them:  *)
(* the master appends votes, a worker takes in blocks built elsewhere.     *)
(*                                                                         *)
(* A vote stands for one POST /api/vote request: its hashed voting number, *)
(* its commitment and the millisecond its block is built at, which nothing *)
(* here tells apart.                                                       *)
(*                                                                         *)
(* SHA-256 is abstracted to a collision-free function.  A hash is the list *)
(* of everything that was hashed into it, so a hash of a block can be      *)
(* computed, compared and never forged by accident, and the fixed genesis  *)
(* hash 0 is the empty list.                                               *)
(***************************************************************************)
EXTENDS Naturals, Sequences

CONSTANTS
    Elections,   \* ids of the elections
    Votes,       \* votes that may be posted to the master
    GenesisData  \* the (0, "0") a genesis block carries instead of a vote

ASSUME GenesisIsNoVote == GenesisData \notin Votes

GENESIS_INDEX == 0
GENESIS_HASH  == << >>

Payload == Votes \union {GenesisData}
Hash    == Seq(Nat \X Payload)

Block == [electionId : Elections, index : Nat, data : Payload,
          prevHash : Hash, hash : Hash]

(***************************************************************************)
(* Building and checking one block (block.ts).  The hash covers the index, *)
(* the data and the previous hash, not the election; at the genesis index  *)
(* it is 0 whatever the block carries.                                     *)
(***************************************************************************)
ComputeHash(index, data, prevHash) ==
    IF index = GENESIS_INDEX THEN GENESIS_HASH
                             ELSE Append(prevHash, <<index, data>>)

Genesis(e) ==
    [electionId |-> e, index |-> GENESIS_INDEX, data |-> GenesisData,
     prevHash |-> GENESIS_HASH, hash |-> GENESIS_HASH]

NextBlockOnGrandparent(b, data) ==
    [electionId |-> b.electionId, index |-> b.index + 1, data |-> data,
     prevHash |-> b.prevHash,
     hash |-> ComputeHash(b.index + 1, data, b.prevHash)]

NextBlock(b, data) ==
    [electionId |-> b.electionId, index |-> b.index + 1, data |-> data,
     prevHash |-> b.hash, hash |-> ComputeHash(b.index + 1, data, b.hash)]

IsValid(b) == b.hash = ComputeHash(b.index, b.data, b.prevHash)

Follows(b, previous) ==
    /\ b.index = previous.index + 1
    /\ b.prevHash = previous.hash
    /\ b.electionId = previous.electionId

(***************************************************************************)
(* A chain is the sequence of the blocks held for one election, sorted by  *)
(* index (block-chain.ts).                                                 *)
(***************************************************************************)
Has(chain, index) == \E k \in DOMAIN chain : chain[k].index = index

Tip(chain) == chain[Len(chain)]

InsertBeforeSmaller(chain, b) ==
    LET at == CHOOSE k \in 0 .. Len(chain) :
                  /\ k > 0 => chain[k].index > b.index
                  /\ \A j \in (k + 1) .. Len(chain) : chain[j].index <= b.index
    IN  SubSeq(chain, 1, at) \o <<b>> \o SubSeq(chain, at + 1, Len(chain))

InsertOverwriting(chain, b) ==
    LET at == CHOOSE k \in 0 .. Len(chain) :
                  /\ k > 0 => chain[k].index <= b.index
                  /\ \A j \in (k + 1) .. Len(chain) : chain[j].index > b.index
    IN  SubSeq(chain, 1, at) \o <<b>> \o SubSeq(chain, at + 2, Len(chain))

(* Walks back from the end of the chain past every block of a larger index *)
InsertInOrder(chain, b) ==
    LET at == CHOOSE k \in 0 .. Len(chain) :
                  /\ k > 0 => chain[k].index <= b.index
                  /\ \A j \in (k + 1) .. Len(chain) : chain[j].index > b.index
    IN  SubSeq(chain, 1, at) \o <<b>> \o SubSeq(chain, at + 1, Len(chain))

IsLinked(chain, b) ==
    \/ b.index = GENESIS_INDEX
    \/ \E k \in DOMAIN chain : /\ chain[k].index = b.index - 1
                               /\ Follows(b, chain[k])

(* BlockChain.isValid: every block re-hashed, every link checked *)
ChainIsValid(chain) ==
    \A k \in DOMAIN chain :
        /\ IsValid(chain[k])
        /\ IF k = 1 THEN chain[k].index = GENESIS_INDEX
                    ELSE Follows(chain[k], chain[k - 1])

(* The block addBlock persists next for a vote: the chain opens itself     *)
(* with a genesis block before its first vote.                             *)
BlockFor(e, chain, vote) ==
    IF chain = << >> THEN Genesis(e) ELSE NextBlock(Tip(chain), vote)

(* What BlockChain.accept answers for a block built elsewhere *)
AcceptStatus(e, chain, b) ==
    IF b.electionId # e \/ ~IsValid(b) THEN "rejected"
    ELSE IF Has(chain, b.index) THEN "duplicate"
    ELSE IF IsLinked(chain, b) THEN "appended"
    ELSE "out-of-order"

(***************************************************************************)
(* The storage port.  A store keeps each election's blocks in index order, *)
(* which is how getAll returns them and load takes them in; append keeps   *)
(* the block already stored under the same (election, index) and drops the *)
(* new one without a word.                                                 *)
(***************************************************************************)
StorageAppend(rows, b) ==
    IF Has(rows, b.index) THEN rows ELSE InsertInOrder(rows, b)

=============================================================================
