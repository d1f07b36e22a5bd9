----------------------------- MODULE Node_proofs -----------------------------
(***************************************************************************)
(* Safety of a node, its pool and its blocks, for any payments, keys,      *)
(* genesis list and bounds.                                                *)
(***************************************************************************)
EXTENDS Node, Runtime_proofs, FiniteSetTheorems

HeadCoins == DOMAIN head.utxoStore \cup head.spent

HeadRecord ==
    [utxoStore |-> head.utxoStore, rewardTotal |-> head.rewardTotal,
     author |-> head.author, blockNumber |-> head.blockNumber,
     spendsInBlock |-> head.spendsInBlock, spent |-> head.spent, claims |-> head.claims]

\* A block only adds to what the best block has: coins, by the transactions in
\* it, outpoints spent and a claim.
BlockInv ==
    /\ building => blockNumber = head.blockNumber + 1
    /\ HeadCoins \subseteq Coins
    /\ head.spent \subseteq spent
    /\ \A k \in Coins \ HeadCoins : k.kind = "output" /\ k.tx \in included
    /\ \A b \in DOMAIN head.claims : b \in DOMAIN claims /\ claims[b] = head.claims[b]
    /\ ~building => included = {}
    /\ IsFiniteSet(included)
    /\ head = HeadRecord

\* A transaction takes effect with all its outputs.
WholeIn(coins) ==
    \A k \in coins : k.kind = "output" => k \in new_utxos(k.tx) /\ new_utxos(k.tx) \subseteq coins

WholeTransactions == WholeIn(Coins) /\ WholeIn(HeadCoins)

\* What an entry need not wait for is or was a coin of the best block, or was
\* to come from a transaction that failed.
Tagged(entries) ==
    \A tx \in DOMAIN entries : \A k \in outpoints(tx) \ entries[tx].requires :
        k \in HeadCoins \cup Tags(failed)

\* The node claims its own blocks before it fills them.
OwnInv ==
    /\ \A b \in ownBlocks : b \in DOMAIN head.claims /\ head.claims[b] = command.key
    /\ stage = "filling" => blockNumber \in DOMAIN claims /\ claims[blockNumber] = command.key
    /\ head.blockNumber \in ownBlocks => head.rewardTotal = 0

\* The inductive invariant.
NInv ==
    /\ IInv
    /\ AtHead!IInv
    /\ NodeTypeOK
    /\ BlockInv
    /\ WholeTransactions
    /\ Tagged(pool) /\ Tagged(proposal)
    /\ WaitsForMissing
    /\ OwnInv

-----------------------------------------------------------------------------
(* What the steps of the runtime do to coins, spent outpoints and claims. *)

\* A payment that is spent refers to coins.
LEMMA PaymentKnown ==
    ASSUME NEW tx \in Payments, Spend(tx)
    PROVE  tx \in Transaction(KnownKeys)
<1>1. outpoints(tx) \subseteq KnownKeys
  BY DEF Spend, spend, missing_utxos, KnownKeys
<1>2. tx \in Transaction(outpoints(tx))
  BY NodeAssumption
<1>3. PICK m \in 0 .. MaxInputs, n \in 0 .. MaxOutputs :
         /\ tx.inputs \in [1 .. m -> TransactionInput(outpoints(tx))]
         /\ tx.outputs \in [1 .. n -> [value : SubmittedValues, pubkey : Pubkeys]]
  BY <1>2 DEF Transaction, BoundedSeq, SeqOf
<1>4. TransactionInput(outpoints(tx)) \subseteq TransactionInput(KnownKeys)
  BY <1>1 DEF TransactionInput
<1>5. /\ tx.inputs \in [1 .. m -> TransactionInput(KnownKeys)]
      /\ tx = [inputs |-> tx.inputs, outputs |-> tx.outputs]
  BY <1>2, <1>3, <1>4 DEF Transaction
<1>6. /\ tx.inputs \in BoundedSeq(TransactionInput(KnownKeys), MaxInputs)
      /\ tx.outputs \in BoundedSeq([value : SubmittedValues, pubkey : Pubkeys], MaxOutputs)
  BY <1>3, <1>5 DEF BoundedSeq, SeqOf
<1> QED
  BY <1>5, <1>6 DEF Transaction

\* What an extrinsic with a payment does, whether it takes effect or not.
LEMMA ApplyEffect ==
    ASSUME IInv, WholeIn(Coins), NEW tx \in Payments, Spend(tx) \/ Refuse(tx)
    PROVE  /\ IInv' /\ WholeIn(Coins)'
           /\ Coins \subseteq Coins' /\ spent \subseteq spent'
           /\ \A k \in Coins' \ Coins : k.kind = "output" /\ k.tx = tx
           /\ building /\ UNCHANGED <<building, blockNumber, author, claims>>
           /\ spendsInBlock \in Nat /\ spendsInBlock' = spendsInBlock + 1
<1>1. spendsInBlock \in Nat
  BY RuntimeAssumption DEF IInv, TypeOK
<1>2. CASE Spend(tx)
  <2>1. tx \in Transaction(KnownKeys)
    BY <1>2, PaymentKnown
  <2>2. Coins' = Coins \cup new_utxos(tx) /\ spent' = spent \cup outpoints(tx)
    BY <1>2, <2>1, SpendEffect
  <2>3. \A k \in new_utxos(tx) : k.kind = "output" /\ k.tx = tx
    BY <2>1, NewKeys
  <2>4. WholeIn(Coins)'
    BY <2>2, <2>3 DEF WholeIn
  <2>5. IInv'
    BY <1>2, <2>1, SpendIInv
  <2> QED
    BY <1>1, <1>2, <2>2, <2>3, <2>4, <2>5 DEF Spend
<1>3. CASE Refuse(tx)
  <2>1. /\ UNCHANGED <<utxoStore, rewardTotal, author, blockNumber, building, spent, claims>>
        /\ spendsInBlock < MaxSpends /\ spendsInBlock' = spendsInBlock + 1 /\ building
    BY <1>3 DEF Refuse
  <2>2. NoDoubleSpend' /\ AddressedByContent' /\ Lineage' /\ EveryInputSigned'
        /\ Coins' = Coins /\ Rewards' = Rewards
    BY <2>1, CoinsUnchanged
  <2>3. TypeOK'
    BY <2>1, RuntimeAssumption DEF IInv, TypeOK
  <2>4. RewardBlocks' /\ AuthorIsClaim'
    BY <2>1, <2>2 DEF IInv, RewardBlocks, AuthorIsClaim
  <2>5. Rewarded' = Rewarded
    BY <2>1 DEF Rewarded
  <2>6. RewardsMatchClaims'
    BY <2>1, <2>2, <2>5 DEF IInv, RewardsMatchClaims
  <2>7. WholeIn(Coins)'
    BY <2>2 DEF WholeIn
  <2> QED
    BY <1>1, <2>1, <2>2, <2>3, <2>4, <2>6, <2>7 DEF IInv
<1> QED
  BY <1>2, <1>3

\* Finalisation adds at most a reward.
LEMMA FinalizeEffect ==
    ASSUME IInv, WholeIn(Coins), FinalizeBlock
    PROVE  /\ IInv' /\ WholeIn(Coins)'
           /\ Coins \subseteq Coins'
           /\ \A k \in Coins' \ Coins : k.kind = "reward"
           /\ building /\ building' = FALSE
           /\ UNCHANGED <<spent, blockNumber, author, claims, spendsInBlock>>
           /\ author # {} => rewardTotal' = 0
<1>1. building /\ building' = FALSE /\ UNCHANGED <<author, blockNumber, spendsInBlock, spent, claims>>
  BY DEF FinalizeBlock
<1>2. IInv'
  BY FinalizeBlockIInv
<1>3. CASE author = {} /\ UNCHANGED <<utxoStore, rewardTotal>>
  <2>1. Coins' = Coins
    BY <1>1, <1>3 DEF Coins
  <2>2. WholeIn(Coins)'
    BY <2>1 DEF WholeIn
  <2> QED
    BY <1>1, <1>2, <1>3, <2>1, <2>2
<1>4. CASE \E a \in author : disperse_reward(a, blockNumber)
  <2>1. PICK a \in author : disperse_reward(a, blockNumber)
    BY <1>4
  <2>2. PICK r : r.kind = "reward" /\ Coins' = Coins \cup {r}
    BY <1>1, <2>1, RewardEffect
  <2>3. WholeIn(Coins)'
    BY <2>2 DEF WholeIn
  <2>4. rewardTotal' = 0
    BY <2>1 DEF disperse_reward
  <2> QED
    BY <1>1, <1>2, <2>2, <2>3, <2>4
<1> QED
  BY <1>3, <1>4 DEF FinalizeBlock, UtxoOnFinalize

-----------------------------------------------------------------------------
(* The state of the best block. *)

\* While the best block stays, so does what is true of it.
LEMMA HeadStays ==
    ASSUME AtHead!IInv, UNCHANGED head
    PROVE  AtHead!IInv'
  BY DEF AtHead!IInv, AtHead!TypeOK, AtHead!NoDoubleSpend, AtHead!AddressedByContent,
         AtHead!Lineage, AtHead!EveryInputSigned, AtHead!RewardBlocks, AtHead!AuthorIsClaim,
         AtHead!RewardsMatchClaims, AtHead!Coins, AtHead!Applied, AtHead!Rewards,
         AtHead!Rewarded

\* What is true of a block that was built is true of the best block it becomes.
LEMMA HeadBecomes ==
    ASSUME IInv', building' = FALSE, head' = State'
    PROVE  AtHead!IInv'
<1>1. /\ head'.utxoStore = utxoStore' /\ head'.rewardTotal = rewardTotal'
      /\ head'.author = author' /\ head'.blockNumber = blockNumber'
      /\ head'.spendsInBlock = spendsInBlock' /\ head'.spent = spent'
      /\ head'.claims = claims'
  BY DEF State
<1>2. AtHead!TypeOK'
  BY <1>1 DEF IInv, TypeOK, AtHead!TypeOK, AtHead!Value, AtHead!TransactionOutput,
              Value, TransactionOutput
<1>3. AtHead!NoDoubleSpend' /\ AtHead!AddressedByContent'
  BY <1>1 DEF IInv, NoDoubleSpend, AddressedByContent, AtHead!NoDoubleSpend,
              AtHead!AddressedByContent, AtHead!Content, Content
<1>4. AtHead!Coins' = Coins' /\ AtHead!Applied' = Applied' /\ AtHead!Rewards' = Rewards'
  BY <1>1 DEF AtHead!Coins, AtHead!Applied, AtHead!Rewards, Coins, Applied, Rewards
<1>5. AtHead!Lineage' /\ AtHead!EveryInputSigned' /\ AtHead!RewardBlocks'
  BY <1>1, <1>4 DEF IInv, Lineage, EveryInputSigned, RewardBlocks, AtHead!Lineage,
              AtHead!EveryInputSigned, AtHead!RewardBlocks, AtHead!Content, Content,
              AtHead!outpoints, outpoints
<1>6. AtHead!AuthorIsClaim'
  BY DEF AtHead!AuthorIsClaim
<1>7. AtHead!Rewarded' = Rewarded'
  BY <1>1 DEF AtHead!Rewarded, Rewarded
<1>8. AtHead!RewardsMatchClaims'
  BY <1>1, <1>4, <1>7 DEF IInv, RewardsMatchClaims, AtHead!RewardsMatchClaims
<1> QED
  BY <1>2, <1>3, <1>5, <1>6, <1>8 DEF AtHead!IInv

\* What is true of the best block is true again when a copy of it is forgotten.
LEMMA HeadReturns ==
    ASSUME AtHead!IInv, Abandon
    PROVE  IInv'
<1>1. /\ utxoStore' = head.utxoStore /\ rewardTotal' = head.rewardTotal
      /\ author' = head.author /\ blockNumber' = head.blockNumber
      /\ building' = FALSE /\ spendsInBlock' = head.spendsInBlock
      /\ spent' = head.spent /\ claims' = head.claims
  BY DEF Abandon
<1>2. TypeOK'
  BY <1>1 DEF AtHead!IInv, TypeOK, AtHead!TypeOK, AtHead!Value, AtHead!TransactionOutput,
              Value, TransactionOutput
<1>3. NoDoubleSpend' /\ AddressedByContent'
  BY <1>1 DEF AtHead!IInv, NoDoubleSpend, AddressedByContent, AtHead!NoDoubleSpend,
              AtHead!AddressedByContent, AtHead!Content, Content
<1>4. AtHead!Coins = Coins' /\ AtHead!Applied = Applied' /\ AtHead!Rewards = Rewards'
  BY <1>1 DEF AtHead!Coins, AtHead!Applied, AtHead!Rewards, Coins, Applied, Rewards
<1>5. Lineage' /\ EveryInputSigned' /\ RewardBlocks'
  BY <1>1, <1>4 DEF AtHead!IInv, Lineage, EveryInputSigned, RewardBlocks, AtHead!Lineage,
              AtHead!EveryInputSigned, AtHead!RewardBlocks, AtHead!Content, Content,
              AtHead!outpoints, outpoints
<1>6. AuthorIsClaim'
  BY <1>1 DEF AuthorIsClaim
<1>7. AtHead!Rewarded = Rewarded'
  BY <1>1 DEF AtHead!Rewarded, Rewarded
<1>8. RewardsMatchClaims'
  BY <1>1, <1>4, <1>7 DEF AtHead!IInv, RewardsMatchClaims, AtHead!RewardsMatchClaims
<1> QED
  BY <1>2, <1>3, <1>5, <1>6, <1>8 DEF IInv

-----------------------------------------------------------------------------
(* The invariant is inductive. *)

\* NodeTypeOK says of the state what IInv and AtHead!IInv do not.
LEMMA NodeTypes ==
    ASSUME IInv, AtHead!IInv,
           DOMAIN pool \subseteq Payments,
           DOMAIN proposal \subseteq Payments,
           \A tx \in DOMAIN pool : pool[tx].requires \subseteq outpoints(tx),
           stage \in {"idle", "inherents", "filling", "peer"},
           building <=> stage # "idle",
           ~building => head = State,
           included \cup failed \cup strangers \subseteq Payments,
           building => Cardinality(included) <= spendsInBlock,
           ownBlocks \subseteq 1 .. head.blockNumber
    PROVE  NodeTypeOK
  BY DEF NodeTypeOK, IInv, AtHead!IInv

LEMMA NodeInitNInv == NodeInit => NInv
<1> SUFFICES ASSUME NodeInit PROVE NInv
  OBVIOUS
<1>1. IInv
  BY InitIInv DEF NodeInit
<1>2. /\ head.utxoStore = utxoStore /\ head.rewardTotal = rewardTotal
      /\ head.author = author /\ head.blockNumber = blockNumber
      /\ head.spendsInBlock = spendsInBlock /\ head.spent = spent
      /\ head.claims = claims
  BY DEF NodeInit, State
<1>3. /\ building = FALSE /\ spent = {} /\ blockNumber = 0 /\ claims = <<>>
      /\ pool = <<>> /\ proposal = <<>> /\ stage = "idle"
      /\ included = {} /\ failed = {} /\ strangers = {} /\ ownBlocks = {}
      /\ head = State
  BY DEF NodeInit, Init, TxPoolInit
<1>4. AtHead!IInv
  <2>1. AtHead!TypeOK
    BY <1>1, <1>2, <1>3 DEF IInv, TypeOK, AtHead!TypeOK, AtHead!Value,
                            AtHead!TransactionOutput, Value, TransactionOutput
  <2>2. AtHead!NoDoubleSpend /\ AtHead!AddressedByContent
    BY <1>1, <1>2 DEF IInv, NoDoubleSpend, AddressedByContent, AtHead!NoDoubleSpend,
                      AtHead!AddressedByContent, AtHead!Content, Content
  <2>3. AtHead!Coins = Coins /\ AtHead!Applied = Applied /\ AtHead!Rewards = Rewards
    BY <1>2 DEF AtHead!Coins, AtHead!Applied, AtHead!Rewards, Coins, Applied, Rewards
  <2>4. AtHead!Lineage /\ AtHead!EveryInputSigned /\ AtHead!RewardBlocks
    BY <1>1, <1>2, <1>3, <2>3 DEF IInv, Lineage, EveryInputSigned, RewardBlocks,
        AtHead!Lineage, AtHead!EveryInputSigned, AtHead!RewardBlocks, AtHead!Content,
        Content, AtHead!outpoints, outpoints
  <2>5. AtHead!AuthorIsClaim
    BY DEF AtHead!AuthorIsClaim
  <2>6. AtHead!Rewarded = Rewarded
    BY <1>2, <1>3 DEF AtHead!Rewarded, Rewarded
  <2>7. AtHead!RewardsMatchClaims
    BY <1>1, <1>2, <2>3, <2>6 DEF IInv, RewardsMatchClaims, AtHead!RewardsMatchClaims
  <2> QED
    BY <2>1, <2>2, <2>4, <2>5, <2>7 DEF AtHead!IInv
<1>5. DOMAIN pool = {} /\ DOMAIN proposal = {} /\ DOMAIN claims = {}
  BY <1>3
<1>6. NodeTypeOK
  BY <1>1, <1>3, <1>4, <1>5, NodeTypes
<1>7. BlockInv
  <2>1. head = HeadRecord
    BY <1>2, <1>3 DEF State, HeadRecord
  <2> QED
    BY <1>2, <1>3, <1>5, <2>1, FS_EmptySet DEF BlockInv, HeadCoins, Coins
<1>8. WholeTransactions
  <2> SUFFICES ASSUME NEW k \in Coins PROVE k.kind # "output"
    BY <1>2 DEF WholeTransactions, WholeIn, HeadCoins, Coins
  <2>1. k \in {GenesisKey(GenesisUtxos[i]) : i \in DOMAIN GenesisUtxos}
    BY <1>3 DEF NodeInit, Init, UtxoInit, Coins
  <2> QED
    BY <2>1 DEF GenesisKey
<1>9. Tagged(pool) /\ Tagged(proposal) /\ WaitsForMissing
  BY <1>5 DEF Tagged, WaitsForMissing
<1>10. OwnInv
  BY <1>3 DEF OwnInv
<1> QED
  BY <1>1, <1>4, <1>6, <1>7, <1>8, <1>9, <1>10 DEF NInv

\* Everything but the pool.
LEMMA PoolChanges ==
    ASSUME NInv,
           UNCHANGED <<vars, proposal, head, stage, included, failed, strangers, ownBlocks>>,
           DOMAIN pool' \subseteq Payments,
           \A tx \in DOMAIN pool' : pool'[tx].requires \subseteq outpoints(tx),
           Tagged(pool)', WaitsForMissing'
    PROVE  NInv'
<1>1. IInv'
  BY NextIInv DEF NInv
<1>2. AtHead!IInv'
  BY HeadStays DEF NInv
<1>3. State' = State
  BY DEF State, vars
<1>4. NodeTypeOK'
  BY <1>1, <1>2, <1>3 DEF NInv, NodeTypeOK, vars, IInv, AtHead!IInv
<1>5. Coins' = Coins /\ HeadCoins' = HeadCoins
  BY DEF Coins, HeadCoins, vars
<1>6. BlockInv' /\ WholeTransactions'
  BY <1>5 DEF NInv, BlockInv, HeadRecord, WholeTransactions, WholeIn, vars
<1>7. Tagged(proposal)'
  BY <1>5 DEF NInv, Tagged
<1>8. OwnInv'
  BY DEF NInv, OwnInv, vars
<1> QED
  BY <1>1, <1>2, <1>4, <1>6, <1>7, <1>8 DEF NInv

\* An entry as the runtime validates it on the best block.
LEMMA AdmitNInv ==
    ASSUME NInv, NEW tx \in Payments, admit(tx, ValidTransaction(tx)),
           UNCHANGED <<vars, proposal, head, stage, included, failed, strangers, ownBlocks>>
    PROVE  NInv'
<1> DEFINE valid == ValidTransaction(tx)
<1>1. valid.requires = outpoints(tx) \ DOMAIN head.utxoStore
  BY DEF ValidTransaction, AtHead!missing_utxos, AtHead!outpoints, outpoints
<1> HIDE DEF valid
<1>2. /\ DOMAIN pool' = DOMAIN pool \cup {tx}
      /\ pool'[tx] = valid
      /\ \A t \in DOMAIN pool \ {tx} : pool'[t] = pool[t]
  BY DEF admit, valid
<1>3. DOMAIN pool' \subseteq Payments
  BY <1>2 DEF NInv, NodeTypeOK
<1>4. \A t \in DOMAIN pool' : pool'[t].requires \subseteq outpoints(t)
  BY <1>1, <1>2 DEF NInv, NodeTypeOK
<1>5. HeadCoins' = HeadCoins /\ Tags(failed)' = Tags(failed)
  BY DEF HeadCoins, Tags
<1>6. Tagged(pool)'
  <2> SUFFICES ASSUME NEW t \in DOMAIN pool', NEW k \in outpoints(t) \ pool'[t].requires
               PROVE  k \in HeadCoins \cup Tags(failed)
    BY <1>5 DEF Tagged
  <2>1. CASE t = tx
    BY <1>1, <1>2, <2>1 DEF HeadCoins
  <2>2. CASE t # tx
    BY <1>2, <2>2 DEF NInv, Tagged
  <2> QED
    BY <2>1, <2>2
<1>7. WaitsForMissing'
  <2> SUFFICES ASSUME NEW t \in DOMAIN pool',
                      NEW k \in pool'[t].requires \cap DOMAIN head.utxoStore
               PROVE  k.kind = "reward" \/ k.tx \in strangers
    BY DEF WaitsForMissing
  <2>1. CASE t = tx
    BY <1>1, <1>2, <2>1
  <2>2. CASE t # tx
    BY <1>2, <2>2 DEF NInv, WaitsForMissing
  <2> QED
    BY <2>1, <2>2
<1> QED
  BY <1>3, <1>4, <1>6, <1>7, PoolChanges

LEMMA DropNInv ==
    ASSUME NInv, NEW tx, Drop(tx)
    PROVE  NInv'
<1>1. /\ DOMAIN pool' = DOMAIN pool \ {tx}
      /\ \A t \in DOMAIN pool' : pool'[t] = pool[t]
  BY DEF Drop, drop, Restrict
<1>2. UNCHANGED <<vars, proposal, head, stage, included, failed, strangers, ownBlocks>>
  BY DEF Drop
<1>3. /\ DOMAIN pool' \subseteq Payments
      /\ \A t \in DOMAIN pool' : pool'[t].requires \subseteq outpoints(t)
  BY <1>1 DEF NInv, NodeTypeOK
<1>4. HeadCoins' = HeadCoins /\ Tags(failed)' = Tags(failed)
  BY <1>2 DEF HeadCoins, Tags
<1>5. Tagged(pool)' /\ WaitsForMissing'
  BY <1>1, <1>2, <1>4 DEF NInv, Tagged, WaitsForMissing
<1> QED
  BY <1>2, <1>3, <1>5, PoolChanges

\* The types of what Cardinality and numbers are compared with.
LEMMA Numbers ==
    ASSUME NInv
    PROVE  /\ blockNumber \in Nat /\ spendsInBlock \in Nat
           /\ head.blockNumber \in Nat
           /\ \A b \in ownBlocks : b <= head.blockNumber
<1>1. blockNumber \in Nat /\ spendsInBlock \in Nat
  BY RuntimeAssumption DEF NInv, IInv, TypeOK
<1>2. head.blockNumber \in Nat
  BY RuntimeAssumption DEF NInv, AtHead!IInv, AtHead!TypeOK
<1>3. ownBlocks \subseteq 1 .. head.blockNumber
  BY DEF NInv, NodeTypeOK
<1> QED
  BY <1>1, <1>2, <1>3

\* A block is begun, by this node or by a peer.
LEMMA BeginNInv ==
    ASSUME NInv, stage = "idle", InitializeBlock, stage' \in {"inherents", "peer"},
           UNCHANGED <<pool, head, included, failed, strangers, ownBlocks>>,
           DOMAIN proposal' \subseteq Payments, Tagged(proposal)'
    PROVE  NInv'
<1>1. /\ ~building /\ building' = TRUE /\ blockNumber' = blockNumber + 1
      /\ spendsInBlock' = 0 /\ UNCHANGED <<utxoStore, rewardTotal, spent, claims>>
  BY DEF InitializeBlock
<1>2. /\ head = State /\ head.blockNumber = blockNumber
      /\ head.spent = spent /\ head.claims = claims /\ head.utxoStore = utxoStore
      /\ included = {}
  BY <1>1 DEF NInv, NodeTypeOK, BlockInv, State
<1>3. IInv'
  BY InitializeBlockIInv DEF NInv
<1>4. AtHead!IInv'
  BY HeadStays DEF NInv
<1>5. Coins' = Coins /\ HeadCoins' = HeadCoins /\ HeadCoins = Coins
  BY <1>1, <1>2 DEF Coins, HeadCoins
<1>6. Cardinality(included') <= spendsInBlock'
  BY <1>1, <1>2, FS_EmptySet
<1>7. NodeTypeOK'
  BY <1>1, <1>3, <1>4, <1>6 DEF NInv, NodeTypeOK, IInv, AtHead!IInv
<1>8. BlockInv'
  <2>1. head' = HeadRecord'
    BY DEF NInv, BlockInv, HeadRecord
  <2> QED
    BY <1>1, <1>2, <1>5, <2>1, FS_EmptySet DEF BlockInv
<1>9. WholeTransactions' /\ Tagged(pool)' /\ WaitsForMissing'
  BY <1>5 DEF NInv, WholeTransactions, WholeIn, Tagged, WaitsForMissing, Tags
<1>10. OwnInv'
  BY DEF NInv, OwnInv
<1> QED
  BY <1>3, <1>4, <1>7, <1>8, <1>9, <1>10 DEF NInv

\* Begun with what is ready.
LEMMA ProposeNInv ==
    ASSUME NInv, Propose
    PROVE  NInv'
<1>1. /\ stage = "idle" /\ InitializeBlock /\ stage' = "inherents"
      /\ UNCHANGED <<pool, head, included, failed, strangers, ownBlocks>>
      /\ proposal' = Restrict(pool, Ready)
  BY DEF Propose
<1>2. Ready \subseteq DOMAIN pool
  BY DEF Ready
<1>3. DOMAIN proposal' = Ready /\ \A tx \in Ready : proposal'[tx] = pool[tx]
  BY <1>1 DEF Restrict
<1>4. DOMAIN proposal' \subseteq Payments
  BY <1>2, <1>3 DEF NInv, NodeTypeOK
<1>5. HeadCoins' = HeadCoins /\ Tags(failed)' = Tags(failed)
  BY <1>1 DEF HeadCoins, Tags
<1>6. Tagged(proposal)'
  BY <1>2, <1>3, <1>5 DEF NInv, Tagged
<1> QED
  BY <1>1, <1>4, <1>6, BeginNInv

LEMMA PeerBeginsNInv ==
    ASSUME NInv, PeerBegins
    PROVE  NInv'
<1>1. /\ stage = "idle" /\ InitializeBlock /\ stage' = "peer"
      /\ UNCHANGED <<pool, proposal, head, included, failed, strangers, ownBlocks>>
  BY DEF PeerBegins
<1>2. DOMAIN proposal' \subseteq Payments /\ Tagged(proposal)'
  BY <1>1 DEF NInv, NodeTypeOK, Tagged, HeadCoins, Tags
<1> QED
  BY <1>1, <1>2, BeginNInv

\* A block is claimed: with the node's key before it is filled.
LEMMA ClaimNInv ==
    ASSUME NInv, NEW key \in Pubkeys, SetAuthor("none", key),
           UNCHANGED <<pool, proposal, head, included, failed, strangers, ownBlocks>>,
           \/ stage' = "filling" /\ key = command.key
           \/ stage = "peer" /\ stage' = "peer"
    PROVE  NInv'
<1>1. /\ building /\ author = {}
      /\ UNCHANGED <<utxoStore, rewardTotal, blockNumber, building, spendsInBlock, spent>>
      /\ claims' = [b \in DOMAIN claims \cup {blockNumber} |->
                      IF b \in DOMAIN claims THEN claims[b] ELSE key]
  BY DEF SetAuthor, set_author
<1>2. blockNumber \notin DOMAIN claims
  BY <1>1 DEF NInv, IInv, AuthorIsClaim
<1>3. /\ DOMAIN claims' = DOMAIN claims \cup {blockNumber}
      /\ claims'[blockNumber] = key
      /\ \A b \in DOMAIN claims : claims'[b] = claims[b]
  BY <1>1, <1>2
<1>4. IInv'
  BY SetAuthorIInv DEF NInv, Origin
<1>5. AtHead!IInv'
  BY HeadStays DEF NInv
<1>6. Coins' = Coins /\ HeadCoins' = HeadCoins
  BY <1>1 DEF Coins, HeadCoins
<1>7. NodeTypeOK'
  BY <1>1, <1>4, <1>5 DEF NInv, NodeTypeOK, IInv, AtHead!IInv
<1>8. BlockInv'
  <2>1. \A b \in DOMAIN head.claims : b \in DOMAIN claims' /\ claims'[b] = head.claims[b]
    BY <1>3 DEF NInv, BlockInv, HeadRecord
  <2> QED
    BY <1>1, <1>6, <2>1 DEF NInv, BlockInv, HeadRecord
<1>9. WholeTransactions' /\ Tagged(pool)' /\ Tagged(proposal)' /\ WaitsForMissing'
  BY <1>6 DEF NInv, WholeTransactions, WholeIn, Tagged, WaitsForMissing, Tags
<1>10. OwnInv'
  <2>1. stage' = "filling" => blockNumber' \in DOMAIN claims' /\ claims'[blockNumber'] = command.key
    BY <1>1, <1>3
  <2> QED
    BY <2>1 DEF NInv, OwnInv
<1> QED
  BY <1>4, <1>5, <1>7, <1>8, <1>9, <1>10 DEF NInv

\* The inherent claims the block with the key that `run` was given.
LEMMA InherentKey ==
    /\ create_inherent(provide_inherent_data(command.key)) = {command.key}
    /\ command.key \in Pubkeys
<1>1. \A key : create_inherent(provide_inherent_data(key)) = {key}
  BY DEF create_inherent, provide_inherent_data
<1>2. command.key \in Pubkeys
  <2>1. command.key = IF sr25519_public_key = {} THEN default_sr25519_public_key
                      ELSE CHOOSE key \in sr25519_public_key : TRUE
    BY DEF command, run
  <2>2. sr25519_public_key # {} =>
            (CHOOSE key \in sr25519_public_key : TRUE) \in sr25519_public_key
    OBVIOUS
  <2> QED
    BY <2>1, <2>2, NodeAssumption
<1> QED
  BY <1>1, <1>2

LEMMA PushInherentsNInv ==
    ASSUME NInv, PushInherents
    PROVE  NInv'
<1>1. SetAuthor("none", command.key)
  BY InherentKey DEF PushInherents
<1> QED
  BY <1>1, InherentKey, ClaimNInv DEF PushInherents

LEMMA PeerClaimsNInv ==
    ASSUME NInv, NEW key \in PeerKeys, PeerClaims(key)
    PROVE  NInv'
<1>1. key \in Pubkeys
  BY NodeAssumption
<1> QED
  BY <1>1, ClaimNInv DEF PeerClaims

\* A payment is put into the block.
LEMMA ApplyNInv ==
    ASSUME NInv, NEW tx \in Payments, ApplyExtrinsic(tx),
           UNCHANGED <<pool, head, stage, failed, strangers, ownBlocks>>,
           DOMAIN proposal' \subseteq Payments, Tagged(proposal)'
    PROVE  NInv'
<1>1. Spend(tx) \/ Refuse(tx)
  BY DEF ApplyExtrinsic
<1>2. included' = included \cup {tx}
  BY DEF ApplyExtrinsic
<1>3. /\ IInv' /\ WholeIn(Coins)'
      /\ Coins \subseteq Coins' /\ spent \subseteq spent'
      /\ \A k \in Coins' \ Coins : k.kind = "output" /\ k.tx = tx
      /\ building /\ UNCHANGED <<building, blockNumber, author, claims>>
      /\ spendsInBlock \in Nat /\ spendsInBlock' = spendsInBlock + 1
  BY <1>1, ApplyEffect DEF NInv, WholeTransactions
<1>4. AtHead!IInv'
  BY HeadStays DEF NInv
<1>5. IsFiniteSet(included') /\ Cardinality(included') <= spendsInBlock'
  <2>1. IsFiniteSet(included) /\ Cardinality(included) <= spendsInBlock
    BY <1>3 DEF NInv, BlockInv, NodeTypeOK
  <2>2. /\ IsFiniteSet(included \cup {tx})
        /\ \/ Cardinality(included \cup {tx}) = Cardinality(included)
           \/ Cardinality(included \cup {tx}) = Cardinality(included) + 1
    BY <2>1, FS_AddElement
  <2>3. Cardinality(included) \in Nat
    BY <2>1, FS_CardinalityType
  <2> QED
    BY <1>2, <1>3, <2>1, <2>2, <2>3
<1>6. NodeTypeOK'
  BY <1>2, <1>3, <1>4, <1>5 DEF NInv, NodeTypeOK, IInv, AtHead!IInv
<1>7. HeadCoins' = HeadCoins
  BY DEF HeadCoins
<1>8. BlockInv'
  <2>1. \A k \in Coins' \ HeadCoins : k.kind = "output" /\ k.tx \in included'
    BY <1>2, <1>3 DEF NInv, BlockInv, HeadRecord
  <2> QED
    BY <1>3, <1>5, <1>7, <2>1 DEF NInv, BlockInv, HeadRecord
<1>9. WholeTransactions' /\ Tagged(pool)' /\ WaitsForMissing'
  BY <1>3, <1>7 DEF NInv, WholeTransactions, WholeIn, Tagged, WaitsForMissing, Tags
<1>10. OwnInv'
  BY <1>3 DEF NInv, OwnInv
<1> QED
  BY <1>3, <1>4, <1>6, <1>8, <1>9, <1>10 DEF NInv

LEMMA PushNInv ==
    ASSUME NInv, NEW tx \in Payments, Push(tx)
    PROVE  NInv'
<1>1. /\ ApplyExtrinsic(tx) /\ UNCHANGED <<pool, head, stage, failed, strangers, ownBlocks>>
      /\ proposal' = Restrict(proposal, DOMAIN proposal \ {tx})
  BY DEF Push, take
<1>2. /\ DOMAIN proposal' \subseteq DOMAIN proposal
      /\ \A t \in DOMAIN proposal' : proposal'[t] = proposal[t]
  BY <1>1 DEF Restrict
<1>3. DOMAIN proposal' \subseteq Payments
  BY <1>2 DEF NInv, NodeTypeOK
<1>4. HeadCoins' = HeadCoins /\ Tags(failed)' = Tags(failed)
  BY <1>1 DEF HeadCoins, Tags
<1>5. Tagged(proposal)'
  BY <1>2, <1>4 DEF NInv, Tagged
<1> QED
  BY <1>1, <1>3, <1>5, ApplyNInv

LEMMA PeerAppliesNInv ==
    ASSUME NInv, NEW tx \in Payments, PeerApplies(tx)
    PROVE  NInv'
<1>1. /\ ApplyExtrinsic(tx)
      /\ UNCHANGED <<pool, proposal, head, stage, failed, strangers, ownBlocks>>
  BY DEF PeerApplies
<1>2. DOMAIN proposal' \subseteq Payments /\ Tagged(proposal)'
  BY <1>1 DEF NInv, NodeTypeOK, Tagged, HeadCoins, Tags
<1> QED
  BY <1>1, <1>2, ApplyNInv

\* The copy is forgotten.
LEMMA AbandonNInv ==
    ASSUME NInv, Abandon
    PROVE  NInv'
<1>1. /\ utxoStore' = head.utxoStore /\ rewardTotal' = head.rewardTotal
      /\ author' = head.author /\ blockNumber' = head.blockNumber
      /\ building' = FALSE /\ spendsInBlock' = head.spendsInBlock
      /\ spent' = head.spent /\ claims' = head.claims
      /\ stage' = "idle" /\ included' = {} /\ proposal' = <<>>
      /\ building /\ UNCHANGED <<pool, head, failed, strangers, ownBlocks>>
  BY DEF Abandon, NInv, NodeTypeOK
<1>2. IInv'
  BY HeadReturns DEF NInv
<1>3. AtHead!IInv'
  BY HeadStays, <1>1 DEF NInv
<1>4. HeadCoins' = HeadCoins /\ Coins' = HeadCoins
  BY <1>1 DEF HeadCoins, Coins
<1>5. head' = State'
  <2>1. head = HeadRecord
    BY DEF NInv, BlockInv, HeadRecord
  <2> QED
    BY <1>1, <2>1 DEF State, HeadRecord
<1>6. NodeTypeOK'
  BY <1>1, <1>2, <1>3, <1>5 DEF NInv, NodeTypeOK, IInv, AtHead!IInv
<1>7. BlockInv'
  <2>1. head' = HeadRecord'
    BY <1>1 DEF NInv, BlockInv, HeadRecord
  <2> QED
    BY <1>1, <1>4, <2>1, FS_EmptySet DEF BlockInv
<1>8. WholeTransactions'
  BY <1>4 DEF NInv, WholeTransactions, WholeIn
<1>9. Tagged(pool)' /\ Tagged(proposal)' /\ WaitsForMissing'
  BY <1>1, <1>4 DEF NInv, Tagged, WaitsForMissing, Tags
<1>10. OwnInv'
  BY <1>1 DEF NInv, OwnInv
<1> QED
  BY <1>2, <1>3, <1>6, <1>7, <1>8, <1>9, <1>10 DEF NInv

\* The block that was built is the best one, and the pool follows it.
LEMMA ImportNInv ==
    ASSUME NInv, Import,
           \/ stage = "filling" /\ ownBlocks' = ownBlocks \cup {blockNumber}
           \/ UNCHANGED ownBlocks
    PROVE  NInv'
<1>1. /\ FinalizeBlock /\ head' = State' /\ stage' = "idle"
      /\ included' = {} /\ proposal' = <<>>
      /\ failed' = failed \cup (included \ Applied')
      /\ strangers' = strangers \cup (included \ DOMAIN pool)
  BY DEF Import
<1>2. PICK known \in {included, included \cap DOMAIN pool} : prune(included, known)
  BY DEF Import
<1>3. /\ IInv' /\ WholeIn(Coins)'
      /\ Coins \subseteq Coins'
      /\ \A k \in Coins' \ Coins : k.kind = "reward"
      /\ building /\ building' = FALSE
      /\ UNCHANGED <<spent, blockNumber, author, claims, spendsInBlock>>
      /\ author # {} => rewardTotal' = 0
  BY <1>1, FinalizeEffect DEF NInv, WholeTransactions
<1>4. AtHead!IInv'
  BY <1>1, <1>3, HeadBecomes
<1>5. /\ head'.utxoStore = utxoStore' /\ head'.rewardTotal = rewardTotal'
      /\ head'.blockNumber = blockNumber /\ head'.spent = spent /\ head'.claims = claims
      /\ blockNumber = head.blockNumber + 1
  BY <1>1, <1>3 DEF State, NInv, BlockInv
<1>6. HeadCoins' = Coins' /\ HeadCoins \subseteq Coins
  <2>1. HeadCoins' = Coins'
    BY <1>3, <1>5 DEF HeadCoins, Coins
  <2> QED
    BY <2>1 DEF NInv, BlockInv
<1>7. /\ DOMAIN pool' = DOMAIN pool \ included
      /\ \A tx \in DOMAIN pool' : pool'[tx].requires = pool[tx].requires \ Tags(known)
  BY <1>2 DEF prune
<1>8. DOMAIN proposal' = {}
  BY <1>1
<1>9. NodeTypeOK'
  <2>1. ownBlocks' \subseteq 1 .. head'.blockNumber
    <3>1. head.blockNumber \in Nat /\ ownBlocks \subseteq 1 .. head.blockNumber
      BY Numbers DEF NInv, NodeTypeOK
    <3>2. blockNumber \in 1 .. blockNumber /\ ownBlocks \subseteq 1 .. blockNumber
      BY <1>5, <3>1
    <3> QED
      BY <1>5, <3>2
  <2>2. included' \cup failed' \cup strangers' \subseteq Payments
    BY <1>1 DEF NInv, NodeTypeOK
  <2>3. DOMAIN pool' \subseteq Payments
    BY <1>7 DEF NInv, NodeTypeOK
  <2>4. \A tx \in DOMAIN pool' : pool'[tx].requires \subseteq outpoints(tx)
    BY <1>7 DEF NInv, NodeTypeOK
  <2> QED
    BY <1>1, <1>3, <1>4, <1>8, <2>1, <2>2, <2>3, <2>4 DEF NodeTypeOK, IInv, AtHead!IInv
<1>10. BlockInv'
  <2>1. head' = HeadRecord'
    BY <1>1, <1>5 DEF State, HeadRecord
  <2>2. head'.spent \subseteq spent' /\ head'.claims = claims'
    BY <1>3, <1>5
  <2> QED
    BY <1>1, <1>3, <1>6, <2>1, <2>2, FS_EmptySet DEF BlockInv
<1>11. Tagged(pool)'
  <2> SUFFICES ASSUME NEW tx \in DOMAIN pool', NEW k \in outpoints(tx) \ pool'[tx].requires
               PROVE  k \in Coins' \cup Tags(failed')
    BY <1>6 DEF Tagged, Tags
  <2>1. CASE k \in Tags(known)
    <3>1. PICK t \in included : k \in new_utxos(t)
      BY <2>1 DEF Tags, provides, new_utxos
    <3>2. CASE t \in Applied'
      BY <1>3, <3>1, <3>2 DEF WholeIn, Applied
    <3>3. CASE t \notin Applied'
      <4>1. t \in failed'
        BY <1>1, <3>3
      <4> QED
        BY <3>1, <4>1 DEF Tags, provides, new_utxos
    <3> QED
      BY <3>2, <3>3
  <2>2. CASE k \notin pool[tx].requires
    <3>1. k \in HeadCoins \cup Tags(failed)
      BY <1>7, <2>2 DEF NInv, Tagged
    <3>2. Tags(failed) \subseteq Tags(failed')
      BY <1>1 DEF Tags
    <3> QED
      BY <1>3, <1>6, <3>1, <3>2
  <2> QED
    BY <1>7, <2>1, <2>2
<1>12. WaitsForMissing'
  <2> SUFFICES ASSUME NEW tx \in DOMAIN pool',
                      NEW k \in pool'[tx].requires \cap DOMAIN utxoStore',
                      k.kind # "reward"
               PROVE  k.tx \in strangers'
    BY <1>5 DEF WaitsForMissing
  <2>1. tx \in DOMAIN pool /\ k \in pool[tx].requires /\ k \notin Tags(known)
    BY <1>7
  <2>2. CASE k \in DOMAIN head.utxoStore
    BY <1>1, <2>1, <2>2 DEF NInv, WaitsForMissing
  <2>3. CASE k \notin DOMAIN head.utxoStore
    <3>1. k \notin spent'
      BY <1>3 DEF IInv, NoDoubleSpend
    <3>2. k \notin HeadCoins
      BY <1>3, <2>3, <3>1 DEF HeadCoins, NInv, BlockInv
    <3>3. k \in Coins \ HeadCoins
      BY <1>3, <3>2 DEF Coins
    <3>4. k.kind = "output" /\ k.tx \in included /\ k \in new_utxos(k.tx)
      BY <3>3 DEF NInv, BlockInv, WholeTransactions, WholeIn
    <3>5. k.tx \notin known
      BY <2>1, <3>4 DEF Tags, provides, new_utxos
    <3>6. k.tx \notin DOMAIN pool
      BY <1>2, <3>4, <3>5
    <3> QED
      BY <1>1, <3>4, <3>6
  <2> QED
    BY <2>2, <2>3
<1>13. OwnInv'
  <2>1. \A b \in ownBlocks : b \in DOMAIN claims /\ claims[b] = command.key
    BY DEF NInv, OwnInv, BlockInv
  <2>2. stage = "filling" => blockNumber \in DOMAIN claims /\ claims[blockNumber] = command.key
    BY DEF NInv, OwnInv
  <2>3. \A b \in ownBlocks' : b \in DOMAIN head'.claims /\ head'.claims[b] = command.key
    BY <1>5, <2>1, <2>2
  <2>4. stage = "filling" => author # {}
    BY <1>3, <2>2 DEF NInv, IInv, AuthorIsClaim
  <2>5. blockNumber \notin ownBlocks
    BY <1>5, Numbers
  <2>6. head'.blockNumber \in ownBlocks' => head'.rewardTotal = 0
    BY <1>3, <1>5, <2>4, <2>5
  <2> QED
    BY <1>1, <2>3, <2>6 DEF OwnInv
<1>14. Tagged(proposal)'
  BY <1>8 DEF Tagged
<1>15. WholeTransactions'
  BY <1>3, <1>6 DEF WholeTransactions, WholeIn
<1> QED
  BY <1>3, <1>4, <1>9, <1>10, <1>11, <1>12, <1>13, <1>14, <1>15 DEF NInv

LEMMA NodeNextNInv == NInv /\ [NodeNext]_nodeVars => NInv'
<1> SUFFICES ASSUME NInv, [NodeNext]_nodeVars PROVE NInv'
  OBVIOUS
<1>1. ASSUME NEW tx \in Payments, Submit(tx) \/ Revalidate(tx) PROVE NInv'
  BY <1>1, AdmitNInv DEF Submit, Revalidate
<1>2. ASSUME NEW tx \in Payments, Drop(tx) PROVE NInv'
  BY <1>2, DropNInv
<1>3. ASSUME NEW tx \in Payments, Push(tx) PROVE NInv'
  BY <1>3, PushNInv
<1>4. ASSUME NEW tx \in Payments, PeerApplies(tx) PROVE NInv'
  BY <1>4, PeerAppliesNInv
<1>5. CASE Propose
  BY <1>5, ProposeNInv
<1>6. CASE PushInherents
  BY <1>6, PushInherentsNInv
<1>7. CASE ImportOwn
  BY <1>7, ImportNInv DEF ImportOwn
<1>8. CASE Abandon
  BY <1>8, AbandonNInv
<1>9. CASE PeerBegins
  BY <1>9, PeerBeginsNInv
<1>10. ASSUME NEW key \in PeerKeys, PeerClaims(key) PROVE NInv'
  BY <1>10, PeerClaimsNInv
<1>11. CASE ImportPeer
  BY <1>11, ImportNInv DEF ImportPeer
<1>12. CASE UNCHANGED nodeVars
  <2>1. UNCHANGED <<vars, pool, proposal, head, stage, included, failed, strangers, ownBlocks>>
    BY <1>12 DEF nodeVars
  <2>2. DOMAIN pool' \subseteq Payments /\ \A tx \in DOMAIN pool' : pool'[tx].requires \subseteq outpoints(tx)
    BY <2>1 DEF NInv, NodeTypeOK
  <2>3. Tagged(pool)' /\ WaitsForMissing'
    BY <2>1 DEF NInv, Tagged, HeadCoins, Tags, WaitsForMissing
  <2> QED
    BY <2>1, <2>2, <2>3, PoolChanges
<1> QED
  BY <1>1, <1>2, <1>3, <1>4, <1>5, <1>6, <1>7, <1>8, <1>9, <1>10, <1>11, <1>12 DEF NodeNext

-----------------------------------------------------------------------------
(* What follows from it. *)

\* A candidate waits for no output of a payment that would go through.
LEMMA NotTooEarly == NInv => NoneTooEarly
<1> SUFFICES ASSUME NInv, NEW tx \in Candidates, NEW p \in DOMAIN proposal \ failed,
                    NEW k \in missing_utxos(tx) \cap new_utxos(p),
                    validate_transaction(p), missing_utxos(p) = {}
             PROVE  FALSE
  BY DEF NoneTooEarly
<1>1. /\ tx \in DOMAIN proposal
      /\ proposal[tx].requires \cap Tags(DOMAIN proposal) = {}
  BY DEF Candidates, Unlocked
<1>2. k \in outpoints(tx) /\ k \notin DOMAIN utxoStore
  BY DEF missing_utxos
<1>3. k \in Tags(DOMAIN proposal)
  BY DEF Tags, provides, new_utxos
<1>4. k \in HeadCoins \cup Tags(failed)
  BY <1>1, <1>2, <1>3 DEF NInv, Tagged
<1>5. p \in Transaction(outpoints(p))
  BY NodeAssumption DEF NInv, NodeTypeOK
<1>6. k.kind = "output" /\ k.tx = p
  BY <1>5, NewKeys
<1>7. CASE k \in HeadCoins
  <2>1. k \in Coins
    BY <1>7 DEF NInv, BlockInv
  <2>2. outpoints(p) \subseteq spent
    BY <1>6, <2>1 DEF NInv, IInv, Lineage
  <2>3. outpoints(p) \subseteq DOMAIN utxoStore
    BY DEF missing_utxos
  <2>4. outpoints(p) # {}
    BY <1>5, TransactionShape DEF validate_transaction, outpoints
  <2> QED
    BY <2>2, <2>3, <2>4 DEF NInv, IInv, NoDoubleSpend
<1>8. CASE k \in Tags(failed)
  <2>1. PICK f \in failed : k \in new_utxos(f)
    BY <1>8 DEF Tags, provides, new_utxos
  <2>2. f \in Transaction(outpoints(f))
    BY NodeAssumption DEF NInv, NodeTypeOK
  <2>3. k.tx = f
    BY <2>1, <2>2, NewKeys
  <2> QED
    BY <1>6, <2>3
<1> QED
  BY <1>4, <1>7, <1>8

\* A claim of the best block is paid, to the one key that made it.
LEMMA OwnBlocksPaid == NInv => OwnBlocksPay
<1> SUFFICES ASSUME NInv, NEW b \in ownBlocks
             PROVE  \E r \in AtHead!Rewards : r.block = b /\ r.utxo.pubkey = command.key
  BY DEF OwnBlocksPay, NInv, OwnInv
<1>1. b \in DOMAIN head.claims /\ head.claims[b] = command.key
  BY DEF NInv, OwnInv
<1>2. b \in AtHead!Rewarded
  BY <1>1 DEF AtHead!Rewarded
<1>3. PICK r \in AtHead!Rewards : r.block = b
  BY <1>2 DEF NInv, AtHead!IInv, AtHead!RewardsMatchClaims
<1>4. r.utxo.pubkey = head.claims[b]
  BY <1>3 DEF NInv, AtHead!IInv, AtHead!RewardsMatchClaims
<1> QED
  BY <1>1, <1>3, <1>4

-----------------------------------------------------------------------------
(* The theorems. *)

\* All of the invariant holds in every state of every behaviour.
THEOREM NodeInvariance == NodeSpec => []NInv
<1>1. NodeInit => NInv
  BY NodeInitNInv
<1>2. NInv /\ [NodeNext]_nodeVars => NInv'
  BY NodeNextNInv
<1> QED
  BY <1>1, <1>2, PTL DEF NodeSpec

\* The state of a node keeps its type, and its parts agree on what is built.
THEOREM NodeTypeCorrect == NodeSpec => []NodeTypeOK
  BY NodeInvariance, PTL DEF NInv

\* The proposer takes no payment before one that it spends from.
THEOREM NeverTooEarly == NodeSpec => []NoneTooEarly
  BY NodeInvariance, NotTooEarly, PTL

\* No entry of the pool waits for a coin that is there.
THEOREM NothingWaitsForCoins == NodeSpec => []WaitsForMissing
  BY NodeInvariance, PTL DEF NInv

\* The blocks a node makes pay its key, and leave no fees behind.
THEOREM OwnBlocksArePaid == NodeSpec => []OwnBlocksPay
  BY NodeInvariance, OwnBlocksPaid, PTL

\* Whatever is proposed, abandoned and imported, an outpoint is spent once.
THEOREM NodeSpendsOnce == NodeSpec => []NoDoubleSpend
  BY NodeInvariance, PTL DEF NInv, IInv

\* Whatever is proposed, abandoned and imported, owners have signed.
THEOREM NodeOwnersSign == NodeSpec => []EveryInputSigned
  BY NodeInvariance, PTL DEF NInv, IInv

=============================================================================
