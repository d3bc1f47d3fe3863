-------------------------- MODULE BlockChainProofs --------------------------
(***************************************************************************)
(* Lemmas about blocks and chains, for any elections and votes: the types  *)
(* of the blocks built, and what inserting, storing and validating do at   *)
(* the end of a chain whose block at position k has index k - 1.           *)
(***************************************************************************)
EXTENDS BlockChain, SequenceTheorems, WellFoundedInduction, TLAPS

(* A chain without gaps: what the master's chains are, and a worker's      *)
(* become.                                                                 *)
Gapless(chain) == \A k \in DOMAIN chain : chain[k].index = k - 1

LEMMA BlockFields ==
    ASSUME NEW b \in Block
    PROVE  b.index \in Nat /\ b.hash \in Hash /\ b.prevHash \in Hash
  BY DEF Block

LEMMA ComputeHashType ==
    ASSUME NEW index \in Nat, NEW data \in Payload, NEW prevHash \in Hash
    PROVE  ComputeHash(index, data, prevHash) \in Hash
<1>1. CASE index = GENESIS_INDEX
  BY <1>1 DEF ComputeHash, GENESIS_HASH, Hash
<1>2. CASE index # GENESIS_INDEX
  <2>1. <<index, data>> \in Nat \X Payload
    OBVIOUS
  <2>2. Append(prevHash, <<index, data>>) \in Seq(Nat \X Payload)
    BY <2>1, AppendProperties DEF Hash
  <2> QED
    BY <1>2, <2>2 DEF ComputeHash, Hash
<1> QED
  BY <1>1, <1>2

LEMMA GenesisType ==
    ASSUME NEW e \in Elections
    PROVE  Genesis(e) \in Block /\ Genesis(e).index = 0 /\ IsValid(Genesis(e))
<1>1. << >> \in Hash
  BY DEF Hash
<1> QED
  BY <1>1 DEF Genesis, Block, Payload, GENESIS_INDEX, GENESIS_HASH, IsValid,
              ComputeHash

LEMMA NextBlockType ==
    ASSUME NEW b \in Block, NEW v \in Votes
    PROVE  /\ NextBlock(b, v) \in Block
           /\ NextBlock(b, v).index = b.index + 1
           /\ IsValid(NextBlock(b, v))
           /\ Follows(NextBlock(b, v), b)
<1>1. b.index + 1 \in Nat /\ v \in Payload /\ b.hash \in Hash
      /\ b.electionId \in Elections
  BY BlockFields DEF Payload, Block
<1>2. ComputeHash(b.index + 1, v, b.hash) \in Hash
  BY <1>1, ComputeHashType
<1>3. NextBlock(b, v) \in Block
  BY <1>1, <1>2 DEF NextBlock, Block
<1> QED
  BY <1>3 DEF NextBlock, IsValid, Follows

LEMMA BlockForType ==
    ASSUME NEW e \in Elections, NEW chain \in Seq(Block), NEW v \in Votes,
           Gapless(chain)
    PROVE  /\ BlockFor(e, chain, v) \in Block
           /\ BlockFor(e, chain, v).index = Len(chain)
<1>1. CASE chain = << >>
  BY <1>1, GenesisType DEF BlockFor
<1>2. CASE chain # << >>
  <2>1. Len(chain) \in Nat /\ Len(chain) \in DOMAIN chain
    BY <1>2
  <2>2. Tip(chain) \in Block /\ Tip(chain).index = Len(chain) - 1
    BY <2>1 DEF Tip, Gapless
  <2> QED
    BY <1>2, <2>1, <2>2, NextBlockType DEF BlockFor
<1> QED
  BY <1>1, <1>2

(* Inserting a block of a larger index than all the others appends it.     *)
LEMMA InsertAtEnd ==
    ASSUME NEW chain \in Seq(Block), NEW b \in Block,
           \A k \in DOMAIN chain : chain[k].index < b.index
    PROVE  InsertInOrder(chain, b) = Append(chain, b)
<1> DEFINE n == Len(chain)
           P(k) == /\ k > 0 => chain[k].index <= b.index
                   /\ \A j \in (k + 1) .. n : chain[j].index > b.index
<1>1. n \in Nat /\ DOMAIN chain = 1 .. n
  OBVIOUS
<1>2. b.index \in Nat /\ \A k \in 1 .. n : chain[k].index \in Nat
  <2>1. \A k \in 1 .. n : chain[k] \in Block
    OBVIOUS
  <2> QED
    BY <2>1, BlockFields
<1>3. \A k \in 1 .. n : chain[k].index < b.index
  BY <1>1
<1> HIDE DEF n
<1>4. P(n)
  BY <1>1, <1>2, <1>3
<1>5. ASSUME NEW k \in 0 .. n, P(k) PROVE k = n
  <2>1. SUFFICES ASSUME k # n PROVE FALSE
    OBVIOUS
  <2>2. n \in (k + 1) .. n /\ n \in 1 .. n
    BY <1>1, <2>1
  <2> QED
    BY <2>2, <1>5, <1>3, <1>2
<1>6. (CHOOSE k \in 0 .. n : P(k)) = n
  <2>1. n \in 0 .. n
    BY <1>1
  <2> HIDE DEF P
  <2> QED
    BY <1>4, <1>5, <2>1
<1>7. InsertInOrder(chain, b)
        = SubSeq(chain, 1, n) \o <<b>> \o SubSeq(chain, n + 1, n)
  BY <1>6 DEF InsertInOrder, n
<1>8. SubSeq(chain, 1, n) = chain
  BY SubSeqFull DEF n
<1>9. SubSeq(chain, n + 1, n) = << >>
  BY <1>1, SubSeqEmpty
<1>10. (chain \o <<b>>) \o << >> = chain \o <<b>>
  OBVIOUS
<1> QED
  BY <1>7, <1>8, <1>9, <1>10, AppendIsConcat

LEMMA InsertIntoGapless ==
    ASSUME NEW chain \in Seq(Block), NEW b \in Block,
           Gapless(chain), b.index = Len(chain)
    PROVE  /\ InsertInOrder(chain, b) = Append(chain, b)
           /\ Append(chain, b) \in Seq(Block)
           /\ Len(Append(chain, b)) = Len(chain) + 1
           /\ Gapless(Append(chain, b))
           /\ ~Has(chain, b.index)
<1>1. Len(chain) \in Nat /\ DOMAIN chain = 1 .. Len(chain)
  OBVIOUS
<1>2. \A k \in DOMAIN chain : chain[k].index < b.index
  BY <1>1 DEF Gapless
<1>3. InsertInOrder(chain, b) = Append(chain, b)
  BY <1>2, InsertAtEnd
<1>4. ~Has(chain, b.index)
  BY <1>1, <1>2 DEF Has, Gapless
<1>5. /\ Append(chain, b) \in Seq(Block)
      /\ Len(Append(chain, b)) = Len(chain) + 1
      /\ \A k \in 1 .. Len(chain) : Append(chain, b)[k] = chain[k]
      /\ Append(chain, b)[Len(chain) + 1] = b
  BY AppendProperties
<1>6. Gapless(Append(chain, b))
  <2> SUFFICES ASSUME NEW k \in 1 .. (Len(chain) + 1)
               PROVE  Append(chain, b)[k].index = k - 1
    BY <1>5 DEF Gapless
  <2>1. CASE k = Len(chain) + 1
    BY <2>1, <1>5, <1>1
  <2>2. CASE k # Len(chain) + 1
    BY <2>2, <1>5, <1>1 DEF Gapless
  <2> QED
    BY <2>1, <2>2
<1> QED
  BY <1>3, <1>4, <1>5, <1>6

(* A chain that verifies still verifies with the block addBlock builds.    *)
LEMMA BlockForExtends ==
    ASSUME NEW e \in Elections, NEW chain \in Seq(Block), NEW v \in Votes,
           ChainIsValid(chain)
    PROVE  ChainIsValid(Append(chain, BlockFor(e, chain, v)))
<1> DEFINE b == BlockFor(e, chain, v)
           longer == Append(chain, b)
<1>1. Len(chain) \in Nat /\ DOMAIN chain = 1 .. Len(chain)
  OBVIOUS
<1>2. CASE chain = << >>
  <2>1. b = Genesis(e) /\ longer = <<Genesis(e)>>
    BY <1>2 DEF BlockFor
  <2> QED
    BY <2>1, GenesisType DEF ChainIsValid, GENESIS_INDEX
<1>3. CASE chain # << >>
  <2>1. Len(chain) > 0 /\ Tip(chain) \in Block /\ Tip(chain) = chain[Len(chain)]
    BY <1>1, <1>3 DEF Tip
  <2>2. b \in Block /\ IsValid(b) /\ Follows(b, chain[Len(chain)])
    BY <1>3, <2>1, NextBlockType DEF BlockFor
  <2> HIDE DEF b
  <2>3. /\ DOMAIN longer = 1 .. (Len(chain) + 1)
        /\ \A k \in 1 .. Len(chain) : longer[k] = chain[k]
        /\ longer[Len(chain) + 1] = b
    BY <2>2, AppendProperties
  <2> HIDE DEF longer
  <2>4. ASSUME NEW k \in 1 .. (Len(chain) + 1)
        PROVE  /\ IsValid(longer[k])
               /\ IF k = 1 THEN longer[k].index = GENESIS_INDEX
                           ELSE Follows(longer[k], longer[k - 1])
    <3>1. CASE k = Len(chain) + 1
      BY <3>1, <2>1, <2>2, <2>3, <1>1
    <3>2. CASE k \in 1 .. Len(chain)
      <4>1. longer[k] = chain[k] /\ (k # 1 => longer[k - 1] = chain[k - 1])
        BY <3>2, <2>3, <1>1
      <4> QED
        BY <3>2, <4>1, <1>1 DEF ChainIsValid
    <3> QED
      BY <3>1, <3>2, <1>1
  <2>5. ChainIsValid(longer)
    BY <2>3, <2>4 DEF ChainIsValid
  <2> QED
    BY <2>5 DEF longer, b
<1> QED
  BY <1>2, <1>3

-----------------------------------------------------------------------------
(* Least and greatest positions: what the lemmas below use where a chain   *)
(* is walked from one end to the first block of some kind.                 *)

LEMMA LeastNat ==
    ASSUME NEW T, T \subseteq Nat, T # {}
    PROVE  \E m \in T : \A k \in T : m <= k
<1> DEFINE R == {p \in Nat \X Nat : p[1] < p[2]}
<1>1. OpToRel(<, Nat) = R
  BY DEF OpToRel
<1>2. IsWellFoundedOn(R, Nat)
  BY <1>1, NatLessThanWellFounded
<1>3. \A k, m \in Nat : k < m => <<k, m>> \in R
  OBVIOUS
<1> HIDE DEF R
<1>4. PICK m \in T : \A k \in T : ~ (<<k, m>> \in R)
  BY <1>2, WFMin
<1>5. \A k \in T : ~ (k < m)
  BY <1>3, <1>4
<1> QED
  BY <1>5

LEMMA GreatestUpTo ==
    ASSUME NEW n \in Nat, NEW T, T \subseteq 0 .. n, T # {}
    PROVE  \E m \in T : \A k \in T : k <= m
<1> DEFINE U == {n - k : k \in T}
<1>1. \A k \in T : n - k \in Nat
  OBVIOUS
<1>2. U \subseteq Nat /\ U # {}
  BY <1>1
<1>3. PICK u \in U : \A x \in U : u <= x
  <2> HIDE DEF U
  <2> QED
    BY <1>2, LeastNat
<1>4. PICK m \in T : u = n - m
  OBVIOUS
<1>5. \A k \in T : n - m <= n - k
  BY <1>3, <1>4
<1> QED
  BY <1>1, <1>5

-----------------------------------------------------------------------------
(* Inserting a block built elsewhere, anywhere in a chain.                 *)

InsertedAt(chain, b, longer, at) ==
    /\ at > 0 => chain[at].index <= b.index
    /\ \A j \in (at + 1) .. Len(chain) : chain[j].index > b.index
    /\ longer \in Seq(Block) /\ Len(longer) = Len(chain) + 1
    /\ \A k \in 1 .. at : longer[k] = chain[k]
    /\ longer[at + 1] = b
    /\ \A k \in (at + 1) .. Len(chain) : longer[k + 1] = chain[k]

LEMMA InsertPosition ==
    ASSUME NEW chain \in Seq(Block), NEW b \in Block
    PROVE  \E at \in 0 .. Len(chain) :
               InsertedAt(chain, b, InsertInOrder(chain, b), at)
<1> DEFINE n == Len(chain)
           P(k) == /\ k > 0 => chain[k].index <= b.index
                   /\ \A j \in (k + 1) .. n : chain[j].index > b.index
           T == {k \in 0 .. n : k > 0 => chain[k].index <= b.index}
<1>1. /\ n \in Nat /\ DOMAIN chain = 1 .. n
      /\ \A k \in 1 .. n : chain[k] \in Block
  OBVIOUS
<1>2. b.index \in Nat /\ \A k \in 1 .. n : chain[k].index \in Nat
  BY <1>1, BlockFields
<1>3. \E k \in 0 .. n : P(k)
  <2>1. T \subseteq 0 .. n /\ T # {}
    BY <1>1
  <2>2. PICK m \in T : \A k \in T : k <= m
    <3> HIDE DEF T, n
    <3> QED
      BY <1>1, <2>1, GreatestUpTo
  <2>3. ASSUME NEW j \in (m + 1) .. n PROVE chain[j].index > b.index
    <3>1. j \in 1 .. n /\ ~ (j <= m)
      BY <1>1
    <3>2. j \notin T
      BY <2>2, <3>1
    <3> QED
      BY <1>2, <3>1, <3>2
  <2> QED
    BY <2>3
<1> DEFINE at == CHOOSE k \in 0 .. n : P(k)
<1>4. at \in 0 .. n /\ P(at)
  <2> HIDE DEF P
  <2> QED
    BY <1>3
<1>5. InsertInOrder(chain, b)
        = SubSeq(chain, 1, at) \o <<b>> \o SubSeq(chain, at + 1, n)
  BY DEF InsertInOrder
<1> HIDE DEF at, n
<1> DEFINE front == SubSeq(chain, 1, at)
           back == SubSeq(chain, at + 1, n)
<1>6. /\ front \in Seq(Block) /\ Len(front) = at
      /\ \A k \in 1 .. at : front[k] = chain[k]
  BY <1>1, <1>4, SubSeqProperties DEF n
<1>7. /\ back \in Seq(Block) /\ Len(back) = n - at
      /\ \A k \in 1 .. n - at : back[k] = chain[at + k]
  <2>1. CASE at = n
    BY <1>1, <2>1, SubSeqEmpty
  <2>2. CASE at # n
    <3>1. /\ at + 1 \in Int /\ n \in Int /\ at + 1 <= n
          /\ \A i \in at + 1 .. n : chain[i] \in Block
      BY <1>1, <1>4, <2>2
    <3>2. /\ SubSeq(chain, at + 1, n) \in Seq(Block)
          /\ Len(SubSeq(chain, at + 1, n)) = n - (at + 1) + 1
          /\ \A i \in 1 .. n - (at + 1) + 1 :
                 SubSeq(chain, at + 1, n)[i] = chain[at + 1 + i - 1]
      BY <3>1, SubSeqProperties
    <3>3. n - (at + 1) + 1 = n - at
      BY <1>1, <1>4
    <3>4. \A i \in 1 .. n - at : back[i] = chain[at + 1 + i - 1]
      BY <3>2, <3>3
    <3>5. \A i \in 1 .. n - at : at + 1 + i - 1 = at + i
      BY <1>1, <1>4
    <3> QED
      BY <3>2, <3>3, <3>4, <3>5
  <2> QED
    BY <2>1, <2>2
<1> HIDE DEF front, back
<1> DEFINE upTo == front \o <<b>>
           longer == upTo \o back
<1>8. /\ upTo \in Seq(Block) /\ Len(upTo) = at + 1
      /\ \A k \in 1 .. at : upTo[k] = front[k]
      /\ upTo[at + 1] = b
  BY <1>4, <1>6, ConcatProperties
<1> HIDE DEF upTo
<1>9. /\ longer \in Seq(Block) /\ Len(longer) = n + 1
      /\ \A k \in 1 .. at + 1 : longer[k] = upTo[k]
      /\ \A k \in at + 2 .. n + 1 : longer[k] = back[k - (at + 1)]
  <2>1. /\ longer \in Seq(Block) /\ Len(longer) = Len(upTo) + Len(back)
        /\ \A k \in 1 .. Len(upTo) + Len(back) :
               longer[k] = IF k <= Len(upTo) THEN upTo[k] ELSE back[k - Len(upTo)]
    BY <1>7, <1>8, ConcatProperties
  <2>2. Len(upTo) = at + 1 /\ Len(back) = n - at
        /\ Len(upTo) + Len(back) = n + 1
    BY <1>1, <1>4, <1>7, <1>8
  <2>3. \A k \in 1 .. at + 1 : k \in 1 .. n + 1 /\ k <= at + 1
    BY <1>1, <1>4
  <2>4. \A k \in at + 2 .. n + 1 : k \in 1 .. n + 1 /\ ~ (k <= at + 1)
    BY <1>1, <1>4
  <2>5. \A k \in 1 .. at + 1 : longer[k] = upTo[k]
    BY <2>1, <2>2, <2>3
  <2>6. \A k \in at + 2 .. n + 1 : longer[k] = back[k - (at + 1)]
    BY <2>1, <2>2, <2>4
  <2> QED
    BY <2>1, <2>2, <2>5, <2>6
<1>10. InsertInOrder(chain, b) = longer
  BY <1>5 DEF front, back, upTo
<1> HIDE DEF longer
<1>11. \A k \in 1 .. at : longer[k] = chain[k]
  BY <1>4, <1>6, <1>8, <1>9
<1>12. longer[at + 1] = b
  BY <1>4, <1>8, <1>9
<1>13. ASSUME NEW k \in (at + 1) .. n PROVE longer[k + 1] = chain[k]
  <2>1. k + 1 \in at + 2 .. n + 1 /\ k - at \in 1 .. n - at
        /\ (k + 1) - (at + 1) = k - at /\ at + (k - at) = k
    BY <1>1, <1>4
  <2> QED
    BY <1>7, <1>9, <2>1
<1>14. InsertedAt(chain, b, longer, at)
  BY <1>1, <1>4, <1>9, <1>11, <1>12, <1>13 DEF InsertedAt, n
<1> QED
  BY <1>4, <1>10, <1>14 DEF n

(* The chain gains the block and nothing else.                             *)
LEMMA InsertRows ==
    ASSUME NEW chain \in Seq(Block), NEW b \in Block
    PROVE  LET longer == InsertInOrder(chain, b)
           IN  /\ longer \in Seq(Block)
               /\ {longer[k] : k \in DOMAIN longer}
                      = {chain[k] : k \in DOMAIN chain} \union {b}
<1> DEFINE longer == InsertInOrder(chain, b)
           n == Len(chain)
<1>1. PICK at \in 0 .. n : InsertedAt(chain, b, longer, at)
  BY InsertPosition
<1> HIDE DEF longer
<1>2. /\ longer \in Seq(Block) /\ DOMAIN longer = 1 .. n + 1
      /\ n \in Nat /\ DOMAIN chain = 1 .. n
      /\ \A k \in 1 .. at : longer[k] = chain[k]
      /\ longer[at + 1] = b
      /\ \A k \in (at + 1) .. n : longer[k + 1] = chain[k]
  BY <1>1 DEF InsertedAt
<1>3. ASSUME NEW k \in 1 .. n + 1
      PROVE  longer[k] \in {chain[j] : j \in 1 .. n} \union {b}
  <2>1. CASE k \in 1 .. at
    BY <2>1, <1>2
  <2>2. CASE k = at + 1
    BY <2>2, <1>2
  <2>3. CASE k \in at + 2 .. n + 1
    <3>1. k - 1 \in (at + 1) .. n /\ (k - 1) + 1 = k /\ k - 1 \in 1 .. n
      BY <2>3, <1>2
    <3>2. longer[k] = chain[k - 1]
      BY <3>1, <1>2
    <3> QED
      BY <3>1, <3>2
  <2> QED
    BY <1>2, <2>1, <2>2, <2>3
<1>4. ASSUME NEW j \in 1 .. n
      PROVE  \E k \in 1 .. n + 1 : longer[k] = chain[j]
  <2>1. CASE j \in 1 .. at
    BY <2>1, <1>2
  <2>2. CASE j \in (at + 1) .. n
    <3>1. longer[j + 1] = chain[j] /\ j + 1 \in 1 .. n + 1
      BY <2>2, <1>2
    <3> QED
      BY <3>1
  <2> QED
    BY <1>2, <2>1, <2>2
<1>5. at + 1 \in 1 .. n + 1
  BY <1>2
<1>6. {longer[k] : k \in 1 .. n + 1} \subseteq {chain[j] : j \in 1 .. n} \union {b}
  BY <1>3
<1>7. {chain[j] : j \in 1 .. n} \union {b} \subseteq {longer[k] : k \in 1 .. n + 1}
  BY <1>2, <1>4, <1>5
<1> QED
  BY <1>2, <1>6, <1>7 DEF longer

Sorted(chain) ==
    \A j, k \in DOMAIN chain : j < k => chain[j].index < chain[k].index

LEMMA InsertSorted ==
    ASSUME NEW chain \in Seq(Block), NEW b \in Block,
           Sorted(chain), ~Has(chain, b.index)
    PROVE  Sorted(InsertInOrder(chain, b))
<1> DEFINE longer == InsertInOrder(chain, b)
           n == Len(chain)
<1>1. PICK at \in 0 .. n : InsertedAt(chain, b, longer, at)
  BY InsertPosition
<1>2. SUFFICES Sorted(longer)
  OBVIOUS
<1> HIDE DEF longer
<1>3. /\ n \in Nat /\ DOMAIN chain = 1 .. n /\ DOMAIN longer = 1 .. n + 1
      /\ \A k \in 1 .. n : chain[k] \in Block
      /\ \A k \in 1 .. at : longer[k] = chain[k]
      /\ longer[at + 1] = b
      /\ \A k \in (at + 1) .. n : longer[k + 1] = chain[k]
      /\ at > 0 => chain[at].index <= b.index
      /\ \A j \in (at + 1) .. n : chain[j].index > b.index
  BY <1>1 DEF InsertedAt
<1>4. b.index \in Nat /\ \A k \in 1 .. n : chain[k].index \in Nat
  BY <1>3, BlockFields
<1>5. \A k \in 1 .. n : chain[k].index # b.index
  BY <1>3 DEF Has
<1>6. \A j, k \in 1 .. n : j < k => chain[j].index < chain[k].index
  BY <1>3 DEF Sorted
<1>7. \A j \in 1 .. at : chain[j].index < b.index
  <2> SUFFICES ASSUME NEW j \in 1 .. at PROVE chain[j].index < b.index
    OBVIOUS
  <2>1. at \in 1 .. n /\ chain[at].index < b.index
    BY <1>3, <1>4, <1>5
  <2>2. j \in 1 .. n /\ (j = at \/ j < at)
    BY <1>3
  <2>3. chain[j].index <= chain[at].index
    BY <1>4, <1>6, <2>1, <2>2
  <2> QED
    BY <1>4, <2>1, <2>2, <2>3
<1> HIDE DEF n
<1>8. \A k \in (at + 2) .. n + 1 : longer[k] = chain[k - 1]
  <2> SUFFICES ASSUME NEW k \in (at + 2) .. n + 1
               PROVE  longer[k] = chain[k - 1]
    OBVIOUS
  <2>1. k - 1 \in (at + 1) .. n /\ (k - 1) + 1 = k
    BY <1>3
  <2> QED
    BY <1>3, <2>1
<1>9. ASSUME NEW j \in 1 .. n + 1, NEW k \in 1 .. n + 1, j < k
      PROVE  longer[j].index < longer[k].index
  <2>1. CASE k \in 1 .. at
    BY <1>3, <1>6, <1>9, <2>1
  <2>2. CASE k = at + 1
    BY <1>3, <1>7, <1>9, <2>2
  <2>3. CASE k \in (at + 2) .. n + 1
    <3>1. longer[k] = chain[k - 1] /\ k - 1 \in (at + 1) .. n
      BY <1>3, <1>8, <2>3
    <3>2. CASE j \in 1 .. at
      BY <1>3, <1>6, <3>1, <3>2
    <3>3. CASE j = at + 1
      BY <1>3, <3>1, <3>3
    <3>4. CASE j \in (at + 2) .. n + 1
      <4>1. longer[j] = chain[j - 1] /\ j - 1 \in 1 .. n /\ j - 1 < k - 1
        BY <1>3, <1>8, <1>9, <3>4
      <4> QED
        BY <1>3, <1>6, <3>1, <4>1
    <3> QED
      BY <1>3, <3>2, <3>3, <3>4
  <2> QED
    BY <1>3, <2>1, <2>2, <2>3
<1> QED
  BY <1>3, <1>9 DEF Sorted

-----------------------------------------------------------------------------
(* When a chain put together out of some of another chain's blocks         *)
(* verifies: exactly when none is missing before its tip.                  *)

LEMMA ValidIsGapless ==
    ASSUME NEW chain \in Seq(Block), ChainIsValid(chain)
    PROVE  Gapless(chain)
<1> DEFINE n == Len(chain)
           T == {k \in 1 .. n : chain[k].index # k - 1}
<1>1. n \in Nat /\ DOMAIN chain = 1 .. n
  OBVIOUS
<1>2. SUFFICES ASSUME T # {} PROVE FALSE
  BY <1>1 DEF Gapless
<1>3. PICK m \in T : \A k \in T : m <= k
  <2>1. T \subseteq Nat
    OBVIOUS
  <2> HIDE DEF T
  <2> QED
    BY <1>2, <2>1, LeastNat
<1>4. m \in 1 .. n /\ m # 1
  BY <1>1 DEF ChainIsValid, GENESIS_INDEX
<1>5. m - 1 \in 1 .. n /\ ~ (m <= m - 1)
  BY <1>1, <1>4
<1>6. chain[m - 1].index = (m - 1) - 1
  BY <1>3, <1>5
<1>7. chain[m].index = chain[m - 1].index + 1
  BY <1>1, <1>4 DEF ChainIsValid, Follows
<1> QED
  BY <1>1, <1>4, <1>6, <1>7

LEMMA FilledIsGapless ==
    ASSUME NEW chain \in Seq(Block), Sorted(chain),
           {chain[k].index : k \in DOMAIN chain} = 0 .. (Len(chain) - 1)
    PROVE  Gapless(chain)
<1> DEFINE n == Len(chain)
           TooSmall == {k \in 1 .. n : chain[k].index < k - 1}
           TooLarge == {k \in 1 .. n : chain[k].index > k - 1}
<1>1. n \in Nat /\ DOMAIN chain = 1 .. n
  OBVIOUS
<1>2. \A k \in 1 .. n : chain[k].index \in 0 .. (n - 1)
  BY <1>1
<1>3. \A j, k \in 1 .. n : j < k => chain[j].index < chain[k].index
  BY <1>1 DEF Sorted
<1> HIDE DEF n
<1>4. TooSmall = {}
  <2>1. SUFFICES ASSUME TooSmall # {} PROVE FALSE
    OBVIOUS
  <2>2. PICK m \in TooSmall : \A k \in TooSmall : m <= k
    <3>1. TooSmall \subseteq Nat
      BY <1>1
    <3> HIDE DEF TooSmall
    <3> QED
      BY <2>1, <3>1, LeastNat
  <2>3. m \in 1 .. n /\ m # 1
    BY <1>1, <1>2
  <2>4. m - 1 \in 1 .. n /\ m - 1 < m /\ ~ (m <= m - 1)
    BY <1>1, <2>3
  <2>5. ~ (chain[m - 1].index < (m - 1) - 1)
    BY <2>2, <2>4
  <2>6. chain[m - 1].index < chain[m].index
    BY <1>3, <2>3, <2>4
  <2> QED
    BY <1>1, <1>2, <2>2, <2>3, <2>4, <2>5, <2>6
<1>5. TooLarge = {}
  <2>1. SUFFICES ASSUME TooLarge # {} PROVE FALSE
    OBVIOUS
  <2>2. PICK m \in TooLarge : \A k \in TooLarge : k <= m
    <3>1. TooLarge \subseteq 0 .. n
      BY <1>1
    <3> HIDE DEF TooLarge
    <3> QED
      BY <1>1, <2>1, <3>1, GreatestUpTo
  <2>3. m \in 1 .. n /\ m # n
    BY <1>1, <1>2
  <2>4. m + 1 \in 1 .. n /\ m < m + 1 /\ ~ (m + 1 <= m)
    BY <1>1, <2>3
  <2>5. ~ (chain[m + 1].index > (m + 1) - 1)
    BY <2>2, <2>4
  <2>6. chain[m].index < chain[m + 1].index
    BY <1>3, <2>3, <2>4
  <2> QED
    BY <1>1, <1>2, <2>2, <2>3, <2>4, <2>5, <2>6
<1>6. ASSUME NEW k \in 1 .. n PROVE chain[k].index = k - 1
  <2>1. ~ (chain[k].index < k - 1) /\ ~ (chain[k].index > k - 1)
    BY <1>4, <1>5
  <2>2. chain[k].index \in Int /\ k - 1 \in Int
    BY <1>1, <1>2
  <2> QED
    BY <2>1, <2>2
<1> QED
  BY <1>1, <1>6 DEF Gapless

LEMMA ReplicaValidIffGapless ==
    ASSUME NEW rows \in Seq(Block), ChainIsValid(rows),
           NEW chain \in Seq(Block), Sorted(chain),
           \A k \in DOMAIN chain : /\ chain[k].index + 1 \in DOMAIN rows
                                   /\ rows[chain[k].index + 1] = chain[k]
    PROVE  ChainIsValid(chain)
               <=> {chain[k].index : k \in DOMAIN chain} = 0 .. (Len(chain) - 1)
<1> DEFINE n == Len(chain)
<1>1. n \in Nat /\ DOMAIN chain = 1 .. n
  OBVIOUS
<1>2. ASSUME ChainIsValid(chain)
      PROVE  {chain[k].index : k \in DOMAIN chain} = 0 .. (n - 1)
  <2>1. \A k \in 1 .. n : chain[k].index = k - 1
    BY <1>1, <1>2, ValidIsGapless DEF Gapless
  <2>2. \A i \in 0 .. (n - 1) : i + 1 \in 1 .. n /\ chain[i + 1].index = i
    BY <1>1, <2>1
  <2>3. \A k \in 1 .. n : chain[k].index \in 0 .. (n - 1)
    BY <1>1, <2>1
  <2> QED
    BY <1>1, <2>2, <2>3
<1>3. ASSUME {chain[k].index : k \in DOMAIN chain} = 0 .. (n - 1)
      PROVE  ChainIsValid(chain)
  <2>1. \A k \in 1 .. n : chain[k].index = k - 1
    BY <1>1, <1>3, FilledIsGapless DEF Gapless
  <2>2. \A k \in 1 .. n : k \in DOMAIN rows /\ rows[k] = chain[k]
    BY <1>1, <2>1
  <2>3. \A k \in 1 .. n : k # 1 => k - 1 \in 1 .. n
    BY <1>1
  <2> QED
    BY <1>1, <2>2, <2>3 DEF ChainIsValid
<1> QED
  BY <1>2, <1>3

-----------------------------------------------------------------------------
(* Storing a block adds it, or leaves the rows as they are.                *)

LEMMA StorageAppendRows ==
    ASSUME NEW rows \in Seq(Block), NEW b \in Block
    PROVE  LET longer == StorageAppend(rows, b)
           IN  /\ longer \in Seq(Block)
               /\ {longer[k] : k \in DOMAIN longer}
                      \subseteq {rows[k] : k \in DOMAIN rows} \union {b}
               /\ ~Has(rows, b.index) => longer = InsertInOrder(rows, b)
<1>1. CASE Has(rows, b.index)
  BY <1>1 DEF StorageAppend
<1>2. CASE ~Has(rows, b.index)
  <2> DEFINE longer == InsertInOrder(rows, b)
  <2>1. StorageAppend(rows, b) = longer
    BY <1>2 DEF StorageAppend
  <2>2. /\ longer \in Seq(Block)
        /\ {longer[k] : k \in DOMAIN longer}
               = {rows[k] : k \in DOMAIN rows} \union {b}
    BY InsertRows
  <2> HIDE DEF longer
  <2> QED
    BY <2>1, <2>2 DEF longer
<1> QED
  BY <1>1, <1>2

(* Two valid blocks of votes with the same index, predecessor and hash     *)
(* carry the same vote: the hash tells.                                    *)
LEMMA HashTellsData ==
    ASSUME NEW b \in Block, IsValid(b), NEW c \in Block, IsValid(c),
           b.index # GENESIS_INDEX, c.index = b.index,
           c.prevHash = b.prevHash, c.hash = b.hash
    PROVE  c.data = b.data
<1> DEFINE x == <<b.index, b.data>>
           y == <<b.index, c.data>>
<1>1. /\ x \in Nat \X Payload /\ y \in Nat \X Payload
      /\ b.prevHash \in Seq(Nat \X Payload)
  BY DEF Block, Hash
<1>2. b.hash = Append(b.prevHash, x) /\ b.hash = Append(b.prevHash, y)
  BY DEF IsValid, ComputeHash
<1>3. x = y => b.data = c.data
  OBVIOUS
<1> HIDE DEF x, y
<1>4. \A z \in Nat \X Payload :
          Append(b.prevHash, z)[Len(b.prevHash) + 1] = z
  BY <1>1, AppendProperties
<1>5. x = y
  BY <1>1, <1>2, <1>4
<1> QED
  BY <1>3, <1>5

=============================================================================
