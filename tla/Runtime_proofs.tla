--------------------------- MODULE Runtime_proofs ---------------------------
(***************************************************************************)
(* Safety of Runtime for any keys, values, genesis list and bounds.        *)
(***************************************************************************)
EXTENDS Runtime, SequenceTheorems, TLAPS

-----------------------------------------------------------------------------
(* Transactions and keys. *)

\* A submitted transaction is two sequences, of inputs and of outputs.
LEMMA TransactionShape ==
    ASSUME NEW K, NEW tx \in Transaction(K)
    PROVE  /\ DOMAIN tx.inputs \subseteq Int
           /\ \A i \in DOMAIN tx.inputs : tx.inputs[i] \in TransactionInput(K)
           /\ tx.inputs # <<>> => DOMAIN tx.inputs # {}
           /\ DOMAIN tx.outputs \subseteq Int
           /\ \A i \in DOMAIN tx.outputs : tx.outputs[i] \in TransactionOutput
           /\ tx.outputs # <<>> => DOMAIN tx.outputs # {}
<1>1. PICK m \in 0 .. MaxInputs : tx.inputs \in [1 .. m -> TransactionInput(K)]
  BY DEF Transaction, BoundedSeq, SeqOf
<1>2. PICK n \in 0 .. MaxOutputs :
          tx.outputs \in [1 .. n -> [value : SubmittedValues, pubkey : Pubkeys]]
  BY DEF Transaction, BoundedSeq, SeqOf
<1>3. m \in Int /\ n \in Int
  BY TransactionsAssumption
<1>4. [value : SubmittedValues, pubkey : Pubkeys] \subseteq TransactionOutput
  BY TransactionsAssumption DEF TransactionOutput
<1>5. /\ tx.inputs # <<>> => DOMAIN tx.inputs # {}
      /\ tx.outputs # <<>> => DOMAIN tx.outputs # {}
  <2>1. ASSUME NEW S, NEW l \in Nat, NEW s \in [1 .. l -> S], s # <<>>
        PROVE  DOMAIN s # {}
    <3>1. s \in Seq(S) /\ DOMAIN s = 1 .. Len(s)
      BY <2>1
    <3>2. \A q \in Seq(S) : q # <<>> => Len(q) \in Nat \ {0}
      BY EmptySeq, Zenon
    <3>3. Len(s) \in Nat \ {0}
      BY <2>1, <3>1, <3>2
    <3>4. 1 \in DOMAIN s
      BY <3>1, <3>3
    <3> QED
      BY <3>4
  <2>2. m \in Nat /\ n \in Nat
    BY TransactionsAssumption
  <2> QED
    BY <1>1, <1>2, <2>1, <2>2
<1>6. QED
  BY <1>1, <1>2, <1>3, <1>4, <1>5

\* The key of an output names the transaction and the output.
LEMMA NewKeys ==
    ASSUME NEW K, NEW tx \in Transaction(K), NEW k \in new_utxos(tx)
    PROVE  /\ k.kind = "output"
           /\ k.tx = tx
           /\ k.index + 1 \in DOMAIN tx.outputs
           /\ Content(k) = tx.outputs[k.index + 1]
           /\ Content(k) \in TransactionOutput
<1>1. PICK i \in DOMAIN tx.outputs : k = OutputKey(tx, i - 1)
  BY DEF new_utxos
<1>2. i \in Int
  BY TransactionShape
<1>3. k.kind = "output" /\ k.tx = tx /\ k.index + 1 = i
  BY <1>1, <1>2 DEF OutputKey
<1>4. QED
  BY <1>1, <1>3, TransactionShape DEF Content

\* The key of a reward names the output and the block.
LEMMA RewardKeys ==
    ASSUME NEW utxo, NEW block
    PROVE  LET k == RewardKey(utxo, block)
           IN  k.kind = "reward" /\ k.block = block /\ k.utxo = utxo /\ Content(k) = utxo
  BY DEF RewardKey, Content

-----------------------------------------------------------------------------
(* What the two operations on the store do, given the invariant. *)

\* A spend consumes coins and puts new ones, never seen before, in their place.
LEMMA SpendEffect ==
    ASSUME IInv, NEW tx \in Transaction(KnownKeys), Spend(tx)
    PROVE  /\ outpoints(tx) # {}
           /\ outpoints(tx) \subseteq DOMAIN utxoStore
           /\ new_utxos(tx) # {}
           /\ new_utxos(tx) \cap Coins = {}
           /\ DOMAIN utxoStore' = (DOMAIN utxoStore \ outpoints(tx)) \cup new_utxos(tx)
           /\ spent' = spent \cup outpoints(tx)
           /\ Coins' = Coins \cup new_utxos(tx)
           /\ \A k \in new_utxos(tx) : utxoStore'[k] = Content(k)
           /\ \A k \in DOMAIN utxoStore \ outpoints(tx) : utxoStore'[k] = utxoStore[k]
<1>1. tx.inputs # <<>> /\ tx.outputs # <<>>
  BY DEF Spend, spend, validate_transaction
<1>2. outpoints(tx) # {} /\ new_utxos(tx) # {}
  BY <1>1, TransactionShape DEF outpoints, new_utxos
<1>3. outpoints(tx) \subseteq DOMAIN utxoStore
  BY DEF Spend, spend, missing_utxos
<1>4. new_utxos(tx) \cap DOMAIN utxoStore = {}
  BY DEF Spend, spend, validate_transaction, provides, new_utxos
<1>5. new_utxos(tx) \cap spent = {}
  <2> SUFFICES ASSUME NEW k \in new_utxos(tx), k \in spent
               PROVE  FALSE
    OBVIOUS
  <2>1. k.kind = "output" /\ k.tx = tx
    BY NewKeys
  <2>2. outpoints(tx) \subseteq spent
    BY <2>1 DEF IInv, Lineage, Coins
  <2> QED
    BY <1>2, <1>3, <2>2 DEF IInv, NoDoubleSpend
<1>6. spent' = spent \cup outpoints(tx)
  BY DEF Spend
<1>7. utxoStore' =
        [k \in (DOMAIN utxoStore \ outpoints(tx)) \cup new_utxos(tx) |->
           IF k \in new_utxos(tx) THEN tx.outputs[k.index + 1] ELSE utxoStore[k]]
  BY DEF Spend, spend, update_storage
<1>8. DOMAIN utxoStore' = (DOMAIN utxoStore \ outpoints(tx)) \cup new_utxos(tx)
  BY <1>7
<1>9. \A k \in new_utxos(tx) : utxoStore'[k] = Content(k)
  BY <1>7, NewKeys
<1>10. \A k \in DOMAIN utxoStore \ outpoints(tx) : utxoStore'[k] = utxoStore[k]
  BY <1>4, <1>7
<1>11. Coins' = Coins \cup new_utxos(tx)
  BY <1>3, <1>6, <1>8 DEF Coins
<1>12. QED
  BY <1>2, <1>3, <1>4, <1>5, <1>6, <1>8, <1>9, <1>10, <1>11 DEF Coins

\* A finalised block with an author adds one coin, never seen before.
LEMMA RewardEffect ==
    ASSUME IInv, building, NEW a \in author, disperse_reward(a, blockNumber),
           UNCHANGED spent
    PROVE  \E r : /\ r.kind = "reward"
                  /\ r.block = blockNumber
                  /\ r.utxo.pubkey = a
                  /\ Content(r) \in TransactionOutput
                  /\ Content(r).value = (rewardTotal + issuance(blockNumber)) % (MaxValue + 1)
                  /\ r \notin Coins
                  /\ DOMAIN utxoStore' = DOMAIN utxoStore \cup {r}
                  /\ Coins' = Coins \cup {r}
                  /\ utxoStore'[r] = Content(r)
                  /\ \A k \in DOMAIN utxoStore : utxoStore'[k] = utxoStore[k]
<1> DEFINE reward == (rewardTotal + issuance(blockNumber)) % (MaxValue + 1)
           utxo   == [value |-> reward, pubkey |-> a]
           r      == RewardKey(utxo, blockNumber)
<1>1. r.kind = "reward" /\ r.block = blockNumber /\ r.utxo = utxo /\ Content(r) = utxo
  BY RewardKeys
<1>2. reward \in Value
  <2>1. \A x \in Nat, m \in Nat : x % (m + 1) \in 0 .. m
    OBVIOUS
  <2>2. rewardTotal \in Nat /\ MaxValue \in Nat
    BY TransactionsAssumption DEF IInv, TypeOK, Value
  <2>3. issuance(blockNumber) \in Nat
    <3>1. blockNumber \in 1 .. MaxBlock
      BY RuntimeAssumption DEF IInv, TypeOK
    <3> QED
      BY <3>1, RuntimeAssumption, TransactionsAssumption DEF Value
  <2>4. rewardTotal + issuance(blockNumber) \in Nat
    BY <2>2, <2>3
  <2> QED
    BY <2>1, <2>2, <2>4 DEF Value
<1>3. utxo \in TransactionOutput
  BY <1>2 DEF TransactionOutput, IInv, TypeOK
<1>4. r \notin Coins
  BY <1>1 DEF IInv, RewardBlocks, TypeOK
<1>5. utxoStore' = [k \in DOMAIN utxoStore \cup {r} |-> IF k = r THEN utxo ELSE utxoStore[k]]
  BY DEF disperse_reward, insert
<1>7. utxo.pubkey = a /\ utxo.value = (rewardTotal + issuance(blockNumber)) % (MaxValue + 1)
  OBVIOUS
<1> HIDE DEF r, utxo, reward
<1>6. Coins' = Coins \cup {r}
  BY <1>5 DEF Coins
<1>8. QED
  BY <1>1, <1>3, <1>4, <1>5, <1>6, <1>7 DEF Coins

-----------------------------------------------------------------------------
(* The invariant is inductive. *)

\* The genesis state satisfies the invariant.
LEMMA InitIInv == Init => IInv
<1> SUFFICES ASSUME Init PROVE IInv
  OBVIOUS
<1> USE DEF Init, UtxoInit, BlockAuthorInit
<1>1. /\ DOMAIN utxoStore = {GenesisKey(GenesisUtxos[i]) : i \in DOMAIN GenesisUtxos}
      /\ \A k \in DOMAIN utxoStore : utxoStore[k] = k.utxo
  OBVIOUS
<1>2. \A i \in DOMAIN GenesisUtxos : GenesisUtxos[i] \in TransactionOutput
  BY GenesisAssumption
<1>3. \A k \in DOMAIN utxoStore : /\ k.kind = "genesis"
                                  /\ k.utxo \in TransactionOutput
                                  /\ Content(k) = k.utxo
  BY <1>1, <1>2 DEF GenesisKey, Content
<1>4. DOMAIN claims = {} /\ claims \in [DOMAIN claims -> Pubkeys]
  OBVIOUS
<1>5. Coins = DOMAIN utxoStore
  BY DEF Coins
<1>6. TypeOK
  <2>1. utxoStore \in [DOMAIN utxoStore -> TransactionOutput]
    BY <1>1, <1>3
  <2>2. rewardTotal \in Value
    BY TransactionsAssumption DEF Value
  <2>3. blockNumber \in 0 .. MaxBlock /\ spendsInBlock \in 0 .. MaxSpends
    BY RuntimeAssumption
  <2>4. author \subseteq Pubkeys /\ building \in BOOLEAN /\ ~building
    OBVIOUS
  <2> QED
    BY <1>4, <2>1, <2>2, <2>3, <2>4 DEF TypeOK
<1>7. NoDoubleSpend /\ AddressedByContent
  BY <1>1, <1>3 DEF NoDoubleSpend, AddressedByContent
<1>8. Lineage /\ EveryInputSigned /\ RewardBlocks
  BY <1>3, <1>5 DEF Lineage, EveryInputSigned, Applied, RewardBlocks
<1>9. AuthorIsClaim
  BY DEF AuthorIsClaim
<1>10. RewardsMatchClaims
  BY <1>3, <1>4, <1>5 DEF RewardsMatchClaims, Rewarded, Rewards
<1> QED
  BY <1>6, <1>7, <1>8, <1>9, <1>10 DEF IInv

\* The parts of the invariant that speak of coins alone.
LEMMA CoinsUnchanged ==
    ASSUME IInv, UNCHANGED <<utxoStore, spent>>
    PROVE  /\ NoDoubleSpend'
           /\ AddressedByContent'
           /\ Lineage'
           /\ EveryInputSigned'
           /\ Coins' = Coins
           /\ Rewards' = Rewards
  BY DEF IInv, NoDoubleSpend, AddressedByContent, Lineage, EveryInputSigned, Applied,
         Coins, Rewards

\* A new block forgets the author of the last one and touches no coin.
LEMMA InitializeBlockIInv == IInv /\ InitializeBlock => IInv'
<1> SUFFICES ASSUME IInv, InitializeBlock PROVE IInv'
  OBVIOUS
<1> USE DEF InitializeBlock, BlockAuthorOnInitialize
<1>1. /\ blockNumber \in Nat /\ blockNumber' = blockNumber + 1 /\ building' /\ ~building
      /\ DOMAIN claims \subseteq 1 .. blockNumber
      /\ UNCHANGED <<utxoStore, spent, claims>>
  BY RuntimeAssumption DEF IInv, TypeOK
<1>2. TypeOK'
  BY <1>1, RuntimeAssumption DEF IInv, TypeOK
<1>3. NoDoubleSpend' /\ AddressedByContent' /\ Lineage' /\ EveryInputSigned'
  BY <1>1, CoinsUnchanged
<1>4. Coins' = Coins /\ Rewards' = Rewards
  BY <1>1, CoinsUnchanged
<1>5. RewardBlocks'
  <2>1. \A k \in Coins : k.kind = "reward" => k.block \in 1 .. blockNumber
    BY DEF IInv, RewardBlocks
  <2> SUFFICES ASSUME NEW k \in Coins, k.kind = "reward"
               PROVE  k.block \in 1 .. blockNumber' /\ k.block # blockNumber'
    BY <1>4 DEF RewardBlocks
  <2> QED
    BY <1>1, <2>1
<1>6. AuthorIsClaim'
  BY <1>1 DEF AuthorIsClaim
<1>7. Rewarded' = Rewarded
  BY <1>1 DEF Rewarded
<1>8. RewardsMatchClaims'
  BY <1>1, <1>4, <1>7 DEF IInv, RewardsMatchClaims
<1> QED
  BY <1>2, <1>3, <1>5, <1>6, <1>8 DEF IInv

\* A claim is recorded for the block being built, once.
LEMMA SetAuthorIInv ==
    ASSUME IInv, NEW origin \in Origin, NEW key \in Pubkeys, SetAuthor(origin, key)
    PROVE  IInv'
<1> USE DEF SetAuthor, set_author
<1>1. /\ blockNumber \in 1 .. MaxBlock
      /\ building /\ author = {} /\ author' = {key}
      /\ UNCHANGED <<utxoStore, rewardTotal, blockNumber, building, spendsInBlock, spent>>
      /\ DOMAIN claims \subseteq 1 .. blockNumber
  BY RuntimeAssumption DEF IInv, TypeOK
<1>2. blockNumber \notin DOMAIN claims
  BY <1>1 DEF IInv, AuthorIsClaim
<1>3. /\ DOMAIN claims' = DOMAIN claims \cup {blockNumber}
      /\ claims'[blockNumber] = key
      /\ \A b \in DOMAIN claims : claims'[b] = claims[b]
  BY <1>2
<1>4. TypeOK'
  <2>1. claims' \in [DOMAIN claims' -> Pubkeys]
    BY DEF IInv, TypeOK
  <2>2. DOMAIN claims' \subseteq 1 .. blockNumber'
    BY <1>1, <1>3, RuntimeAssumption
  <2> QED
    BY <1>1, <2>1, <2>2 DEF IInv, TypeOK
<1>5. NoDoubleSpend' /\ AddressedByContent' /\ Lineage' /\ EveryInputSigned'
  BY <1>1, CoinsUnchanged
<1>6. Coins' = Coins /\ Rewards' = Rewards
  BY <1>1, CoinsUnchanged
<1>7. RewardBlocks'
  BY <1>1, <1>6 DEF IInv, RewardBlocks
<1>8. AuthorIsClaim'
  BY <1>1, <1>3 DEF AuthorIsClaim
<1>9. Rewarded' = Rewarded
  BY <1>1, <1>3 DEF Rewarded
<1>10. Rewarded \subseteq DOMAIN claims
  BY DEF Rewarded
<1>11. RewardsMatchClaims'
  BY <1>3, <1>6, <1>9, <1>10 DEF IInv, RewardsMatchClaims
<1> QED
  BY <1>4, <1>5, <1>7, <1>8, <1>11 DEF IInv

\* A spend keeps the invariant: SpendEffect says what became of the coins.
LEMMA SpendIInv ==
    ASSUME IInv, NEW tx \in Transaction(KnownKeys), Spend(tx)
    PROVE  IInv'
<1>1. /\ outpoints(tx) # {}
      /\ outpoints(tx) \subseteq DOMAIN utxoStore
      /\ new_utxos(tx) \cap Coins = {}
      /\ DOMAIN utxoStore' = (DOMAIN utxoStore \ outpoints(tx)) \cup new_utxos(tx)
      /\ spent' = spent \cup outpoints(tx)
      /\ Coins' = Coins \cup new_utxos(tx)
      /\ \A k \in new_utxos(tx) : utxoStore'[k] = Content(k)
      /\ \A k \in DOMAIN utxoStore \ outpoints(tx) : utxoStore'[k] = utxoStore[k]
  BY SpendEffect
<1>2. \A k \in new_utxos(tx) : /\ k.kind = "output"
                               /\ k.tx = tx
                               /\ Content(k) \in TransactionOutput
  BY NewKeys
<1>3. building /\ UNCHANGED <<author, blockNumber, building, claims>>
  BY DEF Spend
<1>4. TypeOK'
  <2>1. \A k \in DOMAIN utxoStore' : utxoStore'[k] \in TransactionOutput
    BY <1>1, <1>2 DEF IInv, TypeOK
  <2>2. utxoStore' = [k \in DOMAIN utxoStore' |-> utxoStore'[k]]
    BY DEF Spend, spend, update_storage
  <2>3. utxoStore' \in [DOMAIN utxoStore' -> TransactionOutput]
    BY <2>1, <2>2
  <2>4. rewardTotal' \in Value
    BY DEF Spend, spend, update_storage
  <2>5. spendsInBlock' \in 0 .. MaxSpends
    BY RuntimeAssumption DEF IInv, TypeOK, Spend
  <2> QED
    BY <1>3, <2>3, <2>4, <2>5 DEF IInv, TypeOK
<1>5. NoDoubleSpend'
  BY <1>1 DEF IInv, NoDoubleSpend, Coins
<1>6. AddressedByContent'
  BY <1>1 DEF IInv, AddressedByContent
<1>7. Lineage'
  <2> SUFFICES ASSUME NEW k \in Coins', k.kind = "output"
               PROVE  outpoints(k.tx) \subseteq spent'
    BY DEF Lineage
  <2>1. CASE k \in Coins
    BY <1>1, <2>1 DEF IInv, Lineage
  <2>2. CASE k \in new_utxos(tx)
    BY <1>1, <1>2, <2>2
  <2> QED
    BY <1>1, <2>1, <2>2
<1>8. EveryInputSigned'
  <2>1. \A i \in DOMAIN tx.inputs :
            tx.inputs[i].sigscript.signer = Content(tx.inputs[i].outpoint).pubkey
    <3> SUFFICES ASSUME NEW i \in DOMAIN tx.inputs
                 PROVE  tx.inputs[i].sigscript.signer = Content(tx.inputs[i].outpoint).pubkey
      OBVIOUS
    <3>1. tx.inputs[i].outpoint \in DOMAIN utxoStore
      BY <1>1 DEF outpoints
    <3>2. tx.inputs[i].sigscript.signer = utxoStore[tx.inputs[i].outpoint].pubkey
      BY <3>1 DEF Spend, spend, validate_transaction, inputs_signed, found_inputs,
                  sr25519_verify
    <3> QED
      BY <3>1, <3>2 DEF IInv, AddressedByContent
  <2>2. \A t \in Applied' : t \in Applied \/ t = tx
    BY <1>1, <1>2 DEF Applied
  <2> QED
    BY <2>1, <2>2 DEF IInv, EveryInputSigned
<1>9. RewardBlocks'
  BY <1>1, <1>2, <1>3 DEF IInv, RewardBlocks
<1>10. AuthorIsClaim'
  BY <1>3 DEF IInv, AuthorIsClaim
<1>11. Rewards' = Rewards /\ Rewarded' = Rewarded
  BY <1>1, <1>2, <1>3 DEF Rewards, Rewarded
<1>12. RewardsMatchClaims'
  BY <1>3, <1>11 DEF IInv, RewardsMatchClaims
<1> QED
  BY <1>4, <1>5, <1>6, <1>7, <1>8, <1>9, <1>10, <1>12 DEF IInv

\* Finalisation keeps the invariant: RewardEffect says what became of the coins.
LEMMA FinalizeBlockIInv == IInv /\ FinalizeBlock => IInv'
<1> SUFFICES ASSUME IInv, FinalizeBlock PROVE IInv'
  OBVIOUS
<1>1. /\ building /\ building' = FALSE /\ blockNumber \in 1 .. MaxBlock
      /\ UNCHANGED <<author, blockNumber, spendsInBlock, spent, claims>>
      /\ DOMAIN claims \subseteq 1 .. blockNumber
  BY RuntimeAssumption DEF FinalizeBlock, IInv, TypeOK
<1>2. AuthorIsClaim' /\ Rewarded' = DOMAIN claims
  BY <1>1 DEF AuthorIsClaim, Rewarded
<1>3. Rewarded = DOMAIN claims \ {blockNumber}
  BY <1>1 DEF Rewarded
<1>4. CASE \E a \in author : disperse_reward(a, blockNumber)
  <2>1. PICK a \in author : disperse_reward(a, blockNumber)
    BY <1>4
  <2>2. PICK r : /\ r.kind = "reward"
                 /\ r.block = blockNumber
                 /\ r.utxo.pubkey = a
                 /\ Content(r) \in TransactionOutput
                 /\ r \notin Coins
                 /\ DOMAIN utxoStore' = DOMAIN utxoStore \cup {r}
                 /\ Coins' = Coins \cup {r}
                 /\ utxoStore'[r] = Content(r)
                 /\ \A k \in DOMAIN utxoStore : utxoStore'[k] = utxoStore[k]
    BY <1>1, <2>1, RewardEffect
  <2>3. TypeOK'
    <3>1. \A k \in DOMAIN utxoStore' : utxoStore'[k] \in TransactionOutput
      BY <2>2 DEF IInv, TypeOK
    <3>2. utxoStore' = [k \in DOMAIN utxoStore' |-> utxoStore'[k]]
      BY <2>1 DEF disperse_reward, insert
    <3>3. utxoStore' \in [DOMAIN utxoStore' -> TransactionOutput]
      BY <3>1, <3>2
    <3>4. rewardTotal' = 0
      BY <2>1 DEF disperse_reward
    <3>5. rewardTotal' \in Value
      BY <3>4, TransactionsAssumption DEF Value
    <3> QED
      BY <1>1, <3>3, <3>5 DEF IInv, TypeOK
  <2>4. NoDoubleSpend' /\ AddressedByContent'
    BY <1>1, <2>2 DEF IInv, NoDoubleSpend, AddressedByContent, Coins
  <2>5. Lineage' /\ Applied' = Applied
    BY <1>1, <2>2 DEF IInv, Lineage, Applied
  <2>6. EveryInputSigned'
    BY <2>5 DEF IInv, EveryInputSigned
  <2>7. RewardBlocks'
    BY <1>1, <2>2 DEF IInv, RewardBlocks
  <2>8. Rewards' = Rewards \cup {r}
    BY <2>2 DEF Rewards
  <2>9. blockNumber \in DOMAIN claims /\ a = claims[blockNumber]
    BY <1>1, <2>1 DEF IInv, AuthorIsClaim
  <2>10. \A s \in Rewards : s.block # blockNumber
    BY <1>1 DEF IInv, RewardBlocks, Rewards
  <2>11. RewardsMatchClaims'
    <3>1. Rewarded' = {s.block : s \in Rewards'}
      <4>1. Rewarded = {s.block : s \in Rewards}
        BY DEF IInv, RewardsMatchClaims
      <4>2. Rewarded' = Rewarded \cup {r.block}
        BY <1>2, <1>3, <2>2, <2>9
      <4>3. {s.block : s \in Rewards'} = {s.block : s \in Rewards} \cup {r.block}
        BY <2>8
      <4> QED
        BY <4>1, <4>2, <4>3
    <3>2. \A s \in Rewards' : s.utxo.pubkey = claims'[s.block]
      BY <1>1, <2>2, <2>8, <2>9 DEF IInv, RewardsMatchClaims
    <3>3. \A s, t \in Rewards' : s.block = t.block => s = t
      BY <2>2, <2>8, <2>10 DEF IInv, RewardsMatchClaims
    <3> QED
      BY <3>1, <3>2, <3>3 DEF RewardsMatchClaims
  <2> QED
    BY <1>2, <2>3, <2>4, <2>5, <2>6, <2>7, <2>11 DEF IInv
<1>5. CASE author = {} /\ UNCHANGED <<utxoStore, rewardTotal>>
  <2>1. TypeOK'
    BY <1>1, <1>5 DEF IInv, TypeOK
  <2>2. /\ NoDoubleSpend' /\ AddressedByContent' /\ Lineage' /\ EveryInputSigned'
        /\ Coins' = Coins /\ Rewards' = Rewards
    BY <1>1, <1>5, CoinsUnchanged
  <2>3. RewardBlocks'
    BY <1>1, <2>2 DEF IInv, RewardBlocks
  <2>4. Rewarded' = Rewarded
    BY <1>1, <1>2, <1>3, <1>5 DEF IInv, AuthorIsClaim
  <2>5. RewardsMatchClaims'
    BY <1>1, <2>2, <2>4 DEF IInv, RewardsMatchClaims
  <2> QED
    BY <1>2, <2>1, <2>2, <2>3, <2>5 DEF IInv
<1> QED
  BY <1>4, <1>5 DEF FinalizeBlock, UtxoOnFinalize

\* A step that changes nothing keeps the invariant.
LEMMA StutterIInv == IInv /\ UNCHANGED vars => IInv'
<1> SUFFICES ASSUME IInv, UNCHANGED vars PROVE IInv'
  OBVIOUS
<1> USE DEF vars
<1>1. TypeOK'
  BY DEF IInv, TypeOK
<1>2. /\ NoDoubleSpend' /\ AddressedByContent' /\ Lineage' /\ EveryInputSigned'
      /\ Coins' = Coins /\ Rewards' = Rewards
  BY CoinsUnchanged
<1>3. RewardBlocks' /\ AuthorIsClaim'
  BY <1>2 DEF IInv, RewardBlocks, AuthorIsClaim
<1>4. RewardsMatchClaims'
  BY <1>2 DEF IInv, RewardsMatchClaims, Rewarded
<1> QED
  BY <1>1, <1>2, <1>3, <1>4 DEF IInv

\* Every step keeps the invariant.
LEMMA NextIInv == IInv /\ [Next]_vars => IInv'
  BY InitializeBlockIInv, SetAuthorIInv, SpendIInv, FinalizeBlockIInv, StutterIInv DEF Next

-----------------------------------------------------------------------------
(* The theorems. *)

\* All of the invariant holds in every state of every behaviour.
THEOREM Invariance == Spec => []IInv
<1>1. Init => IInv
  BY InitIInv
<1>2. IInv /\ [Next]_vars => IInv'
  BY NextIInv
<1> QED
  BY <1>1, <1>2, PTL DEF Spec

\* The variables keep their types.
THEOREM TypeCorrect == Spec => []TypeOK
  BY Invariance, PTL DEF IInv

\* An outpoint that was spent never becomes a coin again.
THEOREM DoubleSpendImpossible == Spec => []NoDoubleSpend
  BY Invariance, PTL DEF IInv

\* Coins are consumed with their owner's signature only.
THEOREM OwnersSign == Spec => []EveryInputSigned
  BY Invariance, PTL DEF IInv

\* A block finalised with an author pays one reward, to the first claimant.
THEOREM OneRewardPerClaim == Spec => []RewardsMatchClaims
  BY Invariance, PTL DEF IInv

\* The store and the outpoints spent implement the abstract ledger: every step
\* of the runtime is a transfer, a mint or a stuttering step of it.
THEOREM Refinement == Spec => ImplementsCoinLedger
<1> DEFINE LedgerNext == [Ledger!Next]_<<DOMAIN utxoStore, spent>>
<1>1. Init => Ledger!Init
  BY DEF Init, Ledger!Init
<1>2. IInv /\ [Next]_vars => LedgerNext
  <2> SUFFICES ASSUME IInv, [Next]_vars PROVE LedgerNext
    OBVIOUS
  <2>1. ASSUME NEW tx \in Transaction(KnownKeys), Spend(tx)
        PROVE  Ledger!Transfer
    <3>1. /\ outpoints(tx) # {}
          /\ outpoints(tx) \subseteq DOMAIN utxoStore
          /\ new_utxos(tx) # {}
          /\ new_utxos(tx) \cap Coins = {}
          /\ DOMAIN utxoStore' = (DOMAIN utxoStore \ outpoints(tx)) \cup new_utxos(tx)
          /\ spent' = spent \cup outpoints(tx)
      BY <2>1, SpendEffect
    <3>2. /\ DOMAIN utxoStore \ DOMAIN utxoStore' = outpoints(tx)
          /\ DOMAIN utxoStore' \ DOMAIN utxoStore = new_utxos(tx)
      BY <3>1 DEF Coins
    <3> QED
      BY <3>1, <3>2 DEF Ledger!Transfer, Coins
  <2>2. CASE FinalizeBlock
    <3>1. UNCHANGED spent /\ building
      BY <2>2 DEF FinalizeBlock
    <3>2. CASE \E a \in author : disperse_reward(a, blockNumber)
      <4>1. \E r : r \notin Coins /\ DOMAIN utxoStore' = DOMAIN utxoStore \cup {r}
        BY <3>1, <3>2, RewardEffect
      <4> QED
        BY <3>1, <4>1 DEF Ledger!Next, Ledger!Mint, Coins
    <3>3. CASE UNCHANGED <<utxoStore, rewardTotal>>
      BY <3>1, <3>3
    <3> QED
      BY <2>2, <3>2, <3>3 DEF FinalizeBlock, UtxoOnFinalize
  <2>3. CASE InitializeBlock
    BY <2>3 DEF InitializeBlock
  <2>4. ASSUME NEW origin \in Origin, NEW key \in Pubkeys, SetAuthor(origin, key)
        PROVE  LedgerNext
    BY <2>4 DEF SetAuthor
  <2>5. CASE UNCHANGED vars
    BY <2>5 DEF vars
  <2> QED
    BY <2>1, <2>2, <2>3, <2>4, <2>5 DEF Next, Ledger!Next
<1> QED
  BY <1>1, <1>2, Invariance, PTL DEF Spec, ImplementsCoinLedger, Ledger!Spec

-----------------------------------------------------------------------------
(* The unchecked addition of disperse_reward. *)

\* Fees of full blocks, each fee as wide as a priority, and a subsidy fit a
\* Value.  In the source: 2^32 blocks of fewer than 2^15 spends with fees below
\* 2^64 and a subsidy of at most 50, against 2^128.
FeesFit ==
    \A b \in 1 .. MaxBlock :
        (MaxBlock * MaxSpends) * (PriorityModulus - 1) + issuance(b) <= MaxValue

\* The spends of all blocks so far, were all earlier blocks full.
SpendsSoFar ==
    IF building THEN (blockNumber - 1) * MaxSpends + spendsInBlock
                ELSE blockNumber * MaxSpends

FeeBudget == rewardTotal <= SpendsSoFar * (PriorityModulus - 1)

\* Products of naturals are monotonic and distribute over successors.
LEMMA Products ==
    /\ \A m, n \in Nat : m * n \in Nat
    /\ \A m, n, f \in Nat : m <= n => m * f <= n * f
    /\ \A n, f \in Nat : (n + 1) * f = n * f + f
  BY SMT

\* A spend adds at most one priority to the fees; finalisation takes them all.
LEMMA FeeBudgetStep == IInv /\ FeeBudget /\ [Next]_vars => FeeBudget'
<1> SUFFICES ASSUME IInv, FeeBudget, [Next]_vars PROVE FeeBudget'
  OBVIOUS
<1> DEFINE F == PriorityModulus - 1
<1>1. /\ blockNumber \in Nat /\ spendsInBlock \in 0 .. MaxSpends /\ rewardTotal \in Nat
      /\ MaxSpends \in Nat /\ F \in Nat /\ building \in BOOLEAN
      /\ building => blockNumber > 0
  BY RuntimeAssumption, TransactionsAssumption DEF IInv, TypeOK, Value
<1>2. SpendsSoFar \in Nat
  <2>1. CASE building
    <3>1. blockNumber - 1 \in Nat
      BY <1>1, <2>1
    <3>2. (blockNumber - 1) * MaxSpends \in Nat
      BY <1>1, <3>1, Products
    <3> QED
      BY <1>1, <2>1, <3>2 DEF SpendsSoFar
  <2>2. CASE ~building
    BY <1>1, <2>2, Products DEF SpendsSoFar
  <2> QED
    BY <2>1, <2>2
<1>3. CASE InitializeBlock
  <2>1. /\ rewardTotal' = rewardTotal /\ ~building /\ building'
        /\ blockNumber' - 1 = blockNumber /\ spendsInBlock' = 0
    BY <1>1, <1>3 DEF InitializeBlock
  <2>2. SpendsSoFar' = SpendsSoFar
    BY <1>1, <2>1, Products DEF SpendsSoFar
  <2> QED
    BY <2>1, <2>2 DEF FeeBudget
<1>4. ASSUME NEW origin \in Origin, NEW key \in Pubkeys, SetAuthor(origin, key)
      PROVE  FeeBudget'
  BY <1>4 DEF SetAuthor, FeeBudget, SpendsSoFar
<1>5. ASSUME NEW tx \in Transaction(KnownKeys), Spend(tx)
      PROVE  FeeBudget'
  <2>1. priority(tx) \in 0 .. F
    <3>1. total_input(tx) \in Int /\ total_output(tx) \in Int
      BY <1>5, TransactionsAssumption DEF Spend, spend, validate_transaction, Value
    <3>2. \A x \in Int, m \in Nat \ {0} : x % m \in 0 .. (m - 1)
      OBVIOUS
    <3>3. PriorityModulus \in Nat \ {0} /\ total_input(tx) - total_output(tx) \in Int
      BY <3>1, TransactionsAssumption
    <3> HIDE DEF F
    <3>4. (total_input(tx) - total_output(tx)) % PriorityModulus \in 0 .. (PriorityModulus - 1)
      BY <3>2, <3>3
    <3> QED
      BY <3>3, <3>4 DEF priority, F
  <2>2. rewardTotal' = rewardTotal + priority(tx)
    BY <1>5 DEF Spend, spend, update_storage
  <2>3. SpendsSoFar' = SpendsSoFar + 1
    <3>1. building /\ building' = building /\ blockNumber' = blockNumber
      BY <1>5 DEF Spend
    <3>2. spendsInBlock' = spendsInBlock + 1
      BY <1>5 DEF Spend
    <3>3. (blockNumber - 1) * MaxSpends \in Nat
      BY <1>1, <3>1, Products
    <3> QED
      BY <1>1, <3>1, <3>2, <3>3 DEF SpendsSoFar
  <2>4. (SpendsSoFar + 1) * F = SpendsSoFar * F + F
    BY <1>1, <1>2, Products
  <2>5. SpendsSoFar * F \in Nat
    BY <1>1, <1>2, Products
  <2>6. rewardTotal <= SpendsSoFar * F
    BY DEF FeeBudget
  <2>7. rewardTotal' <= SpendsSoFar' * F
    BY <1>1, <2>1, <2>2, <2>3, <2>4, <2>5, <2>6
  <2> QED
    BY <2>7 DEF FeeBudget
<1>6. CASE FinalizeBlock
  <2>1. /\ building /\ building' = FALSE /\ blockNumber' = blockNumber
        /\ rewardTotal' \in {0, rewardTotal}
    BY <1>6 DEF FinalizeBlock, UtxoOnFinalize, disperse_reward
  <2>2. SpendsSoFar <= SpendsSoFar'
    <3>1. blockNumber - 1 \in Nat
      BY <1>1, <2>1
    <3>2. ((blockNumber - 1) + 1) * MaxSpends = (blockNumber - 1) * MaxSpends + MaxSpends
      BY <1>1, <3>1, Products
    <3>3. (blockNumber - 1) * MaxSpends \in Nat
      BY <1>1, <3>1, Products
    <3>4. (blockNumber - 1) + 1 = blockNumber
      BY <1>1
    <3>5. blockNumber * MaxSpends = (blockNumber - 1) * MaxSpends + MaxSpends
      BY <3>2, <3>4
    <3> QED
      BY <1>1, <2>1, <3>3, <3>5 DEF SpendsSoFar
  <2>3. SpendsSoFar' \in Nat
    BY <1>1, <2>1, Products DEF SpendsSoFar
  <2>4. SpendsSoFar * F <= SpendsSoFar' * F
    BY <1>1, <1>2, <2>2, <2>3, Products
  <2>5. SpendsSoFar * F \in Nat /\ SpendsSoFar' * F \in Nat
    BY <1>1, <1>2, <2>3, Products
  <2>6. rewardTotal <= SpendsSoFar * F
    BY DEF FeeBudget
  <2>7. rewardTotal' <= SpendsSoFar' * F
    BY <1>1, <2>1, <2>4, <2>5, <2>6
  <2> QED
    BY <2>7 DEF FeeBudget
<1>7. CASE UNCHANGED vars
  BY <1>7 DEF vars, FeeBudget, SpendsSoFar
<1> QED
  BY <1>3, <1>4, <1>5, <1>6, <1>7 DEF Next

\* Within the budget of fees the reward of the block is a Value.
LEMMA RewardFits == FeesFit /\ IInv /\ FeeBudget => RewardNeverOverflows
<1> SUFFICES ASSUME FeesFit, IInv, FeeBudget, building
             PROVE  rewardTotal + issuance(blockNumber) \in Value
  BY DEF RewardNeverOverflows
<1> DEFINE F == PriorityModulus - 1
<1>1. /\ blockNumber \in 1 .. MaxBlock /\ spendsInBlock \in 0 .. MaxSpends
      /\ rewardTotal \in Nat /\ F \in Nat
      /\ MaxBlock \in Nat /\ MaxSpends \in Nat /\ MaxValue \in Nat
  BY RuntimeAssumption, TransactionsAssumption DEF IInv, TypeOK, Value
<1>2. issuance(blockNumber) \in Nat
  BY <1>1, RuntimeAssumption DEF Value
<1>3. SpendsSoFar = (blockNumber - 1) * MaxSpends + spendsInBlock
  BY DEF SpendsSoFar
<1>4. SpendsSoFar <= blockNumber * MaxSpends
  <2>1. blockNumber - 1 \in Nat /\ (blockNumber - 1) + 1 = blockNumber
    BY <1>1
  <2>2. ((blockNumber - 1) + 1) * MaxSpends = (blockNumber - 1) * MaxSpends + MaxSpends
    BY <1>1, <2>1, Products
  <2>3. (blockNumber - 1) * MaxSpends \in Nat
    BY <1>1, <2>1, Products
  <2>4. blockNumber * MaxSpends = (blockNumber - 1) * MaxSpends + MaxSpends
    BY <2>1, <2>2
  <2> QED
    BY <1>1, <1>3, <2>3, <2>4
<1>5. SpendsSoFar \in Nat
  <2>1. blockNumber - 1 \in Nat
    BY <1>1
  <2>2. (blockNumber - 1) * MaxSpends \in Nat
    BY <1>1, <2>1, Products
  <2> QED
    BY <1>1, <1>3, <2>2
<1>6. /\ blockNumber * MaxSpends \in Nat
      /\ MaxBlock * MaxSpends \in Nat
      /\ blockNumber * MaxSpends <= MaxBlock * MaxSpends
  BY <1>1, Products
<1>7. SpendsSoFar * F <= (MaxBlock * MaxSpends) * F
  BY <1>1, <1>4, <1>5, <1>6, Products
<1>8. SpendsSoFar * F \in Nat /\ (MaxBlock * MaxSpends) * F \in Nat
  BY <1>1, <1>5, <1>6, Products
<1>9. rewardTotal <= SpendsSoFar * F
  BY DEF FeeBudget
<1>10. (MaxBlock * MaxSpends) * F + issuance(blockNumber) <= MaxValue
  BY <1>1 DEF FeesFit
<1>11. rewardTotal + issuance(blockNumber) <= MaxValue
  BY <1>1, <1>2, <1>7, <1>8, <1>9, <1>10
<1> QED
  BY <1>1, <1>2, <1>11 DEF Value

\* Where fees fit, the unchecked addition of disperse_reward never wraps.
THEOREM AdditionNeverWraps == FeesFit => (Spec => []RewardNeverOverflows)
<1> SUFFICES ASSUME FeesFit PROVE Spec => []RewardNeverOverflows
  OBVIOUS
<1>1. Init => IInv /\ FeeBudget
  <2>1. ASSUME Init PROVE FeeBudget
    <3>1. blockNumber * MaxSpends = 0 /\ rewardTotal = 0 /\ ~building
      BY <2>1, RuntimeAssumption DEF Init, UtxoInit
    <3>2. SpendsSoFar = 0 /\ PriorityModulus - 1 \in Nat
      BY <3>1, TransactionsAssumption DEF SpendsSoFar
    <3> QED
      BY <3>1, <3>2 DEF FeeBudget
  <2> QED
    BY <2>1, InitIInv
<1>2. (IInv /\ FeeBudget) /\ [Next]_vars => (IInv /\ FeeBudget)'
  BY NextIInv, FeeBudgetStep
<1>3. IInv /\ FeeBudget => RewardNeverOverflows
  BY RewardFits
<1> QED
  BY <1>1, <1>2, <1>3, PTL DEF Spec

=============================================================================
